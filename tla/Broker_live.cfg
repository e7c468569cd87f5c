SPECIFICATION FairSpec
CONSTANTS
  p1 = p1
  p2 = p2
  s1 = s1
  s2 = s2
  t1 = t1
  t2 = t2
  broker = broker
  Publishers = {p1}
  Subscribers = {s1, s2}
  Topics = {t1, t2}
  PubTopic <- OneTopic
  CommandLines <- Same
  Limits = {1, 7}
  MaxLines = 1
  MaxPresses = 2
  MaxRivals = 1
INVARIANTS
  CrashNeedsRepeat
PROPERTIES
  SubscribersEnd
  Forgotten
  BlockedByUnread
CHECK_DEADLOCK FALSE
