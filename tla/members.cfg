SPECIFICATION FFairSpec
CONSTANTS
  b1 = b1
  b2 = b2
  c1 = c1
  c2 = c2
  NoBank = NoBank
  Clients = {}
  Banks <- TwoBanks
  ChainLength <- FourThenTwo
  Formed <- FourThenTwo
  BankOf <- BankOne
  Accounts <- TheAccounts
  ReqIds <- TheIds
  Workload <- NoQueues
  resend_times <- Never
  whether_resend_newhead <- Off
  Leftovers <- Nothing
  LossyOps = {}
  Punctual <- AllServers
  Paced = TRUE
  CharValues = 256
  Mortal <- NotThird
  MaxCrashes = 4
  Calm = TRUE
INVARIANTS
  FTypeOK
  NoticesLeadToList
  OneHeadOneTail
PROPERTIES
  ChainsRepaired
  TailsKnown
CHECK_DEADLOCK FALSE
