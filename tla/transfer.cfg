SPECIFICATION TFairSpec
CONSTANTS
  b1 = b1
  b2 = b2
  c1 = c1
  c2 = c2
  c3 = c3
  NoBank = NoBank
  Clients = {c1, c2, c3}
  Banks <- TwoBanks
  ChainLength <- OneThenTwo
  BankOf <- BankEach
  Accounts <- TheAccounts
  ReqIds <- TheIds
  Workload <- TrafficQueues
  resend_times <- Never
  whether_resend_newhead <- Off
  Leftovers <- Nothing
  LossyOps = {}
INVARIANTS
  MoneyConservedInHand
PROPERTIES
  HandlersAreAtomic
  EveryRequestAnswered
  SentDrains
CHECK_DEADLOCK FALSE
