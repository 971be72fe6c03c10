SPECIFICATION FairSpec
CONSTANTS
  Nil = Nil
  Endpoints = {e1, e2}
  Listeners <- AnyListener
  MaxFaults <- Failures
  MaxKinds = 2
PROPERTIES
  DeletionCompletes
  ProvisioningCompletes
CHECK_DEADLOCK FALSE
