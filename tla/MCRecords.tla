----------------------------- MODULE MCRecords -----------------------------
EXTENDS Records, TLC

CONSTANTS admin, ann, r1, r2, s1, b1, e1, e2

MCCallers == {admin, ann}
MCAdmins == {admin}
MCIds == {r1, r2}
MCRules == {{}, {<<ann, Null>>}}
MCSingles == {s1}
MCBatches == {b1}
MCEditors == {e1, e2}
Symmetry == Permutations(MCIds) \cup Permutations(MCEditors)
=============================================================================
