SPECIFICATION Spec
CONSTANTS
  Nil = Nil
  Endpoints = {e1, e2}
  Listeners <- AnyListener
  MaxFaults <- ByHand
  MaxKinds = 1
INVARIANTS
  DescribeFindsBalancer
CHECK_DEADLOCK FALSE
