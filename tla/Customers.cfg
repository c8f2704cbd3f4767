SPECIFICATION Spec
CONSTANTS
  d1 = d1
  d2 = d2
  d3 = d3
  Devices = {d1, d2, d3}
  LastId = 4
  MaxAddresses = 2
  MaxRequests = 3
  Nobody = Nobody
SYMMETRY Symmetry
INVARIANTS OneDefault ErasedKeepsNothing
PROPERTIES ImplementsBook DefaultLostOnlyByLateEdit
CHECK_DEADLOCK FALSE
