SPECIFICATION Spec
CONSTANTS
  Clients = {c1, c2, c3}
  Creator = c1
  Statuses = {"SUCCESS", "DEVICE_ERROR"}
  Pending = Pending
INVARIANTS
  TypeOK
  NoUseAfterDelete
  TensorProtected
  CallbackExactlyOnce
PROPERTY
  ImplementsOneShot
CHECK_DEADLOCK FALSE
