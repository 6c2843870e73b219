SPECIFICATION FSpec
CONSTANTS
  b1 = b1
  b2 = b2
  c1 = c1
  c2 = c2
  NoBank = NoBank
  Clients = {c1, c2}
  Banks <- TwoBanks
  ChainLength <- Two
  Formed <- Two
  BankOf <- BankEach
  Accounts <- TheAccounts
  ReqIds <- TheIds
  Workload <- PayQueues
  resend_times <- Never
  whether_resend_newhead <- Off
  Leftovers <- Nothing
  LossyOps = {}
  Punctual <- AllServers
  Paced = TRUE
  CharValues = 256
  Mortal <- PayerTailPayeeHead
  MaxCrashes = 2
  Calm = FALSE
INVARIANTS
  TransferCompletes
CHECK_DEADLOCK FALSE
