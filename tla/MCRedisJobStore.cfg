CONSTANTS
  LocalReader = {q1}
  RemoteReader = {q2}
  Subscriber = {s1}
  MaxLooks = 2
SPECIFICATION RedisSpec
PROPERTY SettledStays
CHECK_DEADLOCK FALSE
