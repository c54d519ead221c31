SPECIFICATION Spec
CONSTANTS
  Atoms = {"p", "q"}
  Row = "row"
  MaxTokens = 7
  MAX_DEPTH = 2
  Texts <- MCTexts
  Numerals <- MCNumerals
  Ints <- MCInts
  Big <- MCBig
  NonFinite <- MCNonFinite
  NaN = "NaN"
  Zero = "0"
  One = "1"
  Values <- MCValues
  Value <- MCValue
  Double <- MCDouble
  Read <- MCRead
  Serde <- MCSerde
  Display <- MCDisplay
  Sqlite <- MCSqlite
INVARIANT TreeMeansInput SpliceMeansTree BackendsAgree ParserDescends
CHECK_DEADLOCK FALSE
