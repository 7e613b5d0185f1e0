SPECIFICATION Spec
CONSTANTS
  Producers = {p1, p2}
  Consumers = {c1}
  Message = {m1, m2}
  NoMessage = NoMessage
  Capacity <- SmallCapacity
SYMMETRY Alike
INVARIANT TypeOK
PROPERTY ImplementsQueue
