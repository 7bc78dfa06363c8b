SPECIFICATION FairSpec
CONSTANTS
  d1 = d1  d2 = d2  ip1 = ip1  ip2 = ip2  a = a  b = b  q1 = q1
  NULL = NULL
  ERROR = ERROR
  Device = {d1, d2}
  IP = {ip1, ip2}
  Ip <- Addresses
  Field = {"type", "syslog_ip"}
  Values <- Edits
  Stored <- Unedited
  Query = {q1}
  Limit = 2
  MaxActs = 3
  MaxFaults = 2
  MaxSent = 1
PROPERTIES
  Converges
  LogsConverge
CHECK_DEADLOCK FALSE
