SPECIFICATION Spec
CONSTANTS
  t1 = t1
  t2 = t2
  srv1 = srv1
  srv2 = srv2
  Callers <- BothCallers
  Servers <- BothServers
  Host <- HostNames
  Methods <- MethodsUsed
  Answers <- AnswersUsed
  MaxIdle = 1
  MaxRedirects = 1
  DrainMax = 1
  MaxConns = 2
  MaxExchanges = 3
SYMMETRY Perms
INVARIANTS OwnAnswer RetriedOnce CredentialsStay
CHECK_DEADLOCK FALSE
