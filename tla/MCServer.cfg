SPECIFICATION Spec
CONSTANTS
  Names = {"users"}
  Columns <- MCColumns
  Edits = {Null}
  Secrets = {s1, s2}
  Identities = {i1, i2}
  Attempts = {a1, a2}
  MaxFails = 2
  Null = Null
  Unset = Unset
  None = None
INVARIANT TypeOK AdminRulesStay SeededWhole GuessesBounded
PROPERTY RefusedForOwnFailures TokensOutliveRestarts ShutdownEnds
