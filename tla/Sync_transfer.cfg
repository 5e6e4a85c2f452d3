SPECIFICATION SyncSpec
SYMMETRY Symmetric
CONSTANTS
  s1 = s1
  Sources = {s1}
  Outputs = {o1}
  Deps <- DepsDef
  Devices = {d1}
  RequestKeys = {k1, k2}
  MaxVersion = 5
  MaxFaults = 2
INVARIANTS TransferExact DeviceAgrees
PROPERTIES DecisionsStay
