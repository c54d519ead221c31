SPECIFICATION Spec
CONSTANTS
  user = user
  admin = admin
  Subscribers = {user, admin}
  Admins = {admin}
  Audiences <- OpenOrClosed
  Editors = {x1}
  Writers = {w1, w2}
  Cap = 2
  MaxBatch = 2
INVARIANTS TypeOK AckedRuleApplies OnlyCommittedInOrder
PROPERTIES ImplementsFeed CatchesUp
