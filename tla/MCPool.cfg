SPECIFICATION Spec
CONSTANTS
  Requests = {r1, r2, r3, r4}
  Conns = {c1, c2}
  NoConn = NoConn
  Workers = 3
  MaxCheckouts = 2
INVARIANTS
  TypeOK
  EveryConnectionInOnePlace
  NoLostWakeup
PROPERTIES
  AllServed
  ImplementsCheckout
CHECK_DEADLOCK FALSE
