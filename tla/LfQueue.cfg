SPECIFICATION FairSpec
CONSTANTS
  Messages = {m1, m2, m3}
  Total = 5
  Windows = {1, 2, 3}
  Producer = Producer
  Consumer = Consumer
  HeadNode = HeadNode
  Null = Null
INVARIANTS TypeOK InOrder QuietQueue
PROPERTIES AllReceived
