SPECIFICATION Spec
CONSTANTS
  MaxClients = 3
  MaxConnections = 2
  MaxSends = 1
  Anonymous = Anonymous
  None = None
INVARIANTS
  TypeOK
  TablesAgree
  NamesAreTheirOwn
PROPERTIES
  NobodyWaitsForever
CHECK_DEADLOCK FALSE
