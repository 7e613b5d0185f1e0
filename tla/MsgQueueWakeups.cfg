SPECIFICATION Spec
CONSTANTS
  Producers = {p1, p2, p3}
  Consumers = {c1, c2}
  Message = {m1}
  NoMessage = NoMessage
  Capacity <- SmallCapacity
SYMMETRY Alike
INVARIANTS Counted ReadersWoken WritersWoken
