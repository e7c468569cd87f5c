SPECIFICATION Spec
CONSTANTS
  p1 = p1
  p2 = p2
  s1 = s1
  s2 = s2
  t1 = t1
  t2 = t2
  broker = broker
  Publishers = {p1, p2}
  Subscribers = {s1, s2}
  Topics = {t1, t2}
  PubTopic <- TwoTopics
  CommandLines <- Mixed
  Limits = {1}
  MaxLines = 3
  MaxPresses = 1
  MaxRivals = 0
INVARIANTS
  TypeOK
  StreamsIntact
CHECK_DEADLOCK FALSE
