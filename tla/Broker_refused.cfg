SPECIFICATION Spec
CONSTANTS
  p1 = p1
  p2 = p2
  s1 = s1
  s2 = s2
  t1 = t1
  t2 = t2
  broker = broker
  Publishers = {p1}
  Subscribers = {s1, s2}
  Topics = {t1, t2}
  PubTopic <- OneTopic
  CommandLines <- Mixed
  Limits = {2}
  MaxLines = 1
  MaxPresses = 1
  MaxRivals = 1
PROPERTIES
  RefusedMeansRunning
CHECK_DEADLOCK FALSE
