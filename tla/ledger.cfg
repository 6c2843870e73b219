SPECIFICATION Spec
CONSTANTS
  b1 = b1
  b2 = b2
  c1 = c1
  c2 = c2
  c3 = c3
  NoBank = NoBank
  Clients = {c1, c2, c3}
  Banks <- TwoBanks
  ChainLength <- OneThenThree
  BankOf <- BankEach
  Accounts <- TheAccounts
  ReqIds <- TheIds
  Workload <- ClashQueues
  resend_times <- Never
  whether_resend_newhead <- Off
  Leftovers <- Nothing
  LossyOps = {"REQUEST", "TRANS_ACK"}
INVARIANTS
  TypeOK
  UpdatePropagation
  InprocessRequests
  NumbersWithoutGaps
  BalancesExplained
PROPERTY
  ImplementsLedger
CHECK_DEADLOCK FALSE
