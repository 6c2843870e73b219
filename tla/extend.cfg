SPECIFICATION FFairSpec
CONSTANTS
  b1 = b1
  b2 = b2
  c1 = c1
  c2 = c2
  NoBank = NoBank
  Clients = {c1, c2}
  Banks <- TheBanks
  ChainLength <- Three
  Formed <- One
  BankOf <- BankOne
  Accounts <- TheAccounts
  ReqIds <- TheIds
  Workload <- RaceQueues
  resend_times <- Never
  whether_resend_newhead <- Off
  Leftovers <- Nothing
  LossyOps = {}
  Punctual <- AllServers
  Paced = TRUE
  CharValues = 256
  Mortal <- AllServers
  MaxCrashes = 0
  Calm = TRUE
INVARIANTS
  AnsweredSurvive
  NothingMissing
PROPERTIES
  ChainsRepaired
CHECK_DEADLOCK FALSE
