SPECIFICATION FSpec
CONSTANTS
  b1 = b1
  b2 = b2
  c1 = c1
  c2 = c2
  NoBank = NoBank
  Clients = {c1, c2}
  Banks <- TheBanks
  ChainLength <- Three
  Formed <- Three
  BankOf <- BankOne
  Accounts <- TheAccounts
  ReqIds <- TheIds
  Workload <- RaceQueues
  resend_times <- Once
  whether_resend_newhead <- OnlyFirst
  Leftovers <- Nothing
  LossyOps = {"SER_RPY"}
  Punctual <- AllServers
  Paced = TRUE
  CharValues = 4
  Mortal <- AllServers
  MaxCrashes = 1
  Calm = FALSE
INVARIANTS
  AnsweredSurvive
  OutcomeStable
  NothingMissing
CHECK_DEADLOCK FALSE
