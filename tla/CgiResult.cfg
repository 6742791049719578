SPECIFICATION CgiSpec
CONSTANTS
  None = None
  Users = {u, v}
  Paths <- MCPaths
  Names = {f, g}
  SessionTimeout = 1
  MaxRequests <- MCMaxRequests
  MaxOps <- MCMaxOps
  MaxSessions = 2
PROPERTY ResultTells
CHECK_DEADLOCK FALSE
