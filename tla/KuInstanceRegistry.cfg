SPECIFICATION Spec
CONSTANTS
  Threads = {t1, t2}
  Vendors = {cpu, cuda}
  Instances = {i1, i2}
  DeviceCount = 2
  MaxCalls = 3
  Nothing = Nothing
INVARIANTS TypeOK RegistryConsistent OneInstancePerVendor NoUseAfterDestroy ModuleManagerSerialized
PROPERTIES CallsReturn ImplementsTokens
CHECK_DEADLOCK FALSE
