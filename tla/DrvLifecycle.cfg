\* Two devices, up to two failures on the way.
SPECIFICATION Spec
CONSTANTS
  NumDevices = 2
  MaxFails = 2
INVARIANTS TypeOK LoadReleasesItsOwn OpenableMeansMapped CleanRemoval
\* The machine stops when the module is unloaded or the loader has crashed.
CHECK_DEADLOCK FALSE
