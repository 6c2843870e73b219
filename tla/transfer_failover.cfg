SPECIFICATION FFairSpec
CONSTANTS
  b1 = b1
  b2 = b2
  c1 = c1
  c2 = c2
  NoBank = NoBank
  Clients = {c1, c2}
  Banks <- TwoBanks
  ChainLength <- Three
  Formed <- Three
  BankOf <- BankEach
  Accounts <- TheAccounts
  ReqIds <- TheIds
  Workload <- PayQueues
  resend_times <- Never
  whether_resend_newhead <- Off
  Leftovers <- Nothing
  LossyOps = {}
  Punctual <- AllServers
  Paced = TRUE
  CharValues = 256
  Mortal <- PayeeHead
  MaxCrashes = 1
  Calm = FALSE
INVARIANTS
  MoneyKept
PROPERTIES
  TransfersAnswered
CHECK_DEADLOCK FALSE
