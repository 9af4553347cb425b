SPECIFICATION Spec
CONSTANTS
  RequestIds = {r1, r2, r3}
  MaximumEntries = 2
  Retention = 2
  Clients = {k1, k2}
  MaximumKeys = 1
  Capacity = 2
  Cost = 1
  Pins = {p1, p2}
  NoPin = NoPin
  MaxNow = 4
  r1 = r1
  r2 = r2
  r3 = r3
  k1 = k1
  k2 = k2
  p1 = p1
  p2 = p2
SYMMETRY Symmetry
PROPERTIES
  RetriesAnsweredAlike
  AnswersAreTrue
  PinGuardsTheShutter
