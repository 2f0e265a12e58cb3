SPECIFICATION Spec
CONSTANTS
  Messages = {m1, m2}
  Total = 3
  Windows = {2}
  Producer = Producer
  Consumer = Consumer
  HeadNode = HeadNode
  Null = Null
INVARIANTS NothingLost
