SPECIFICATION Spec
CONSTANTS
  Table = {"ROUTE_TABLE", "SRV6_MY_SID_TABLE"}
  Key = {"prefix", "sid"}
  TableOf <- PrefixAndSid
  Field = {"nexthop", "weight"}
  Token = {"a", "b"}
  NoValue <- NoList
  Entry <- MCEntry
  MaxDrops = 2
  MaxChanges = 2
INVARIANTS TypeOK Reconciles Hitless
CHECK_DEADLOCK FALSE
