SPECIFICATION Spec
CONSTANTS
  b1 = b1
  b2 = b2
  c1 = c1
  c2 = c2
  c3 = c3
  NoBank = NoBank
  Clients = {c1, c2}
  Banks <- TheBanks
  ChainLength <- Two
  BankOf <- BankOne
  Accounts <- TheAccounts
  ReqIds <- TheIds
  Workload <- ResendQueues
  resend_times <- Once
  whether_resend_newhead <- OnlyFirst
  Leftovers <- Nothing
  LossyOps = {}
INVARIANTS
  ReplicasExecuteOnce
CHECK_DEADLOCK FALSE
