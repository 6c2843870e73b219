SPECIFICATION Spec
CONSTANTS
  b1 = b1
  b2 = b2
  c1 = c1
  c2 = c2
  c3 = c3
  NoBank = NoBank
  Clients = {c1}
  Banks <- TwoBanks
  ChainLength <- OneThenTwo
  BankOf <- BankEach
  Accounts <- TheAccounts
  ReqIds <- TheIds
  Workload <- ResentTransferQueues
  resend_times <- Once
  whether_resend_newhead <- OnlyFirst
  Leftovers <- Nothing
  LossyOps = {}
INVARIANTS
  TransferReplyStable
CHECK_DEADLOCK FALSE
