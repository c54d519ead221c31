SPECIFICATION Spec
CONSTANTS
  Writers = {w1, w2}
  Ids = {r1, r2, r3, r4}
  MaxClock = 1
  Params = {0, 2, 7}
  MaxPer = 3
  Word = 8
SYMMETRY Symmetry
INVARIANT AnswerAgrees WalkSeesAll
