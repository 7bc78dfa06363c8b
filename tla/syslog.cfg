SPECIFICATION FairSpec
CONSTANTS
  a1 = a1  a2 = a2
  Message = {1, 2}
  Address = {a1, a2}
  Relay = relay
  NoAddress = name
  NoStamp = none
  LogLimit = 1
  MonthsPerYear = 3
  DaysPerMonth = 2
  Retention = 2
  FirstDay = 17
  LastDay = 19
  MaxDelay = 1
  Skew <- ClocksBehind
  Hostnames <- OwnHostnames
  Failures = {"insert", "stop"}
INVARIANTS
  YearResolved
  FiledUnderOrigin
  RecentShown
PROPERTIES
  FreshKept
  ReceivedIsStored
