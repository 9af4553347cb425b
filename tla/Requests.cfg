SPECIFICATION MCSpec
CONSTANTS
  MaxRequestLine = 4
  MaxHeaders = 12
  MaxBody = 2
  MaxSize = 16
  Requests <- MCRequestSet
  NoRequest = NoRequest
  Keys = {k1, k2, k3}
  Watched = k1
  MaximumKeys = 2
  Capacity = 5
  Cost = 2
  MaxNow = 6
  k1 = k1
  k2 = k2
  k3 = k3
SYMMETRY Symmetry
INVARIANTS
  ChunksDoNotMatter
  LegalIsAccepted
  BodiesExact
  WindowBound
  PatientClientServed
