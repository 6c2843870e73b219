---------------------------------- MODULE Ledger ----------------------------------
(***************************************************************************)
(* What the banks promise their clients, without servers: one book per     *)
(* bank, in which the first request under an id is executed or refused     *)
(* once and for all and binds the id; every request is answered at most    *)
(* once, from the books; a transfer is booked at the payer first, then at  *)
(* the payee, and answered last.                                           *)
(***************************************************************************)
EXTENDS Requests

VARIABLES
    accounts,   \* accounts[b][a]
    book,       \* book[b][id]: the content an id is bound to, and its outcome
    open,       \* names of transfers booked at the payer and not yet answered
    answers     \* every answer given

ledger == <<accounts, book, open, answers>>

Bind(b, q, result) ==
    [book EXCEPT ![b] = [id \in DOMAIN @ \cup {q.req_id} |->
        IF id = q.req_id THEN [content |-> Content(q), outcome |-> result]
                         ELSE @[id]]]

Verdict(b, q) ==
    IF book[b][q.req_id].content = Content(q) THEN book[b][q.req_id].outcome
    ELSE "InconsistentWithHistory"

Move(b, acc, amount) == [accounts EXCEPT ![b][acc] = @ + amount]

Answer(c, k, result, balance) ==
    /\ ~ \E a \in answers : a.client = c /\ a.sent_id = k
    /\ answers' = answers \cup
         {[client |-> c, sent_id |-> k, outcome |-> result, balance |-> balance]}

LedgerInit ==
    /\ accounts = [b \in Banks |-> [a \in Accounts |-> 0]]
    /\ book = [b \in Banks |-> [id \in {} |-> {}]]
    /\ open = {}
    /\ answers = {}

--------------------------------------------------------------------------------
Query(c, k) ==
    LET q == Workload[c][k]
    IN  /\ q.type = "getBalance"
        /\ Answer(c, k, "Processed", accounts[BankOf[c]][q.account_num])
        /\ UNCHANGED <<accounts, book, open>>

\* An id is used again: the answer repeats its verdict or complains.
Repeat(c, k) ==
    LET q == Workload[c][k]
        b == BankOf[c]
    IN  /\ q.type \in Updates
        /\ q.req_id \in DOMAIN book[b]
        /\ <<c, k>> \notin open
        /\ Answer(c, k, Verdict(b, q), accounts[b][q.account_num])
        /\ UNCHANGED <<accounts, book, open>>

Refuse(c, k) ==
    LET q == Workload[c][k]
        b == BankOf[c]
    IN  /\ q.type \in {"withdraw", "transfer"}
        /\ q.req_id \notin DOMAIN book[b]
        /\ accounts[b][q.account_num] < q.amount
        /\ book' = Bind(b, q, "InsufficientFunds")
        /\ Answer(c, k, "InsufficientFunds", accounts[b][q.account_num])
        /\ UNCHANGED <<accounts, open>>

Deposit(c, k) ==
    LET q == Workload[c][k]
        b == BankOf[c]
    IN  /\ q.type = "deposit"
        /\ q.req_id \notin DOMAIN book[b]
        /\ accounts' = Move(b, q.account_num, q.amount)
        /\ book' = Bind(b, q, "Processed")
        /\ Answer(c, k, "Processed", accounts'[b][q.account_num])
        /\ UNCHANGED open

Withdraw(c, k) ==
    LET q == Workload[c][k]
        b == BankOf[c]
    IN  /\ q.type = "withdraw"
        /\ q.req_id \notin DOMAIN book[b]
        /\ accounts[b][q.account_num] >= q.amount
        /\ accounts' = Move(b, q.account_num, -q.amount)
        /\ book' = Bind(b, q, "Processed")
        /\ Answer(c, k, "Processed", accounts'[b][q.account_num])
        /\ UNCHANGED open

\* A transfer in three steps.
Pay(c, k) ==
    LET q == Workload[c][k]
        b == BankOf[c]
    IN  /\ q.type = "transfer"
        /\ q.req_id \notin DOMAIN book[b]
        /\ accounts[b][q.account_num] >= q.amount
        /\ accounts' = Move(b, q.account_num, -q.amount)
        /\ book' = Bind(b, q, "Processed")
        /\ open' = open \cup {<<c, k>>}
        /\ UNCHANGED answers

BookPayee(c, k) ==
    LET q == Workload[c][k]
        b == q.dest_bank_id
    IN  /\ <<c, k>> \in open
        /\ q.req_id \notin DOMAIN book[b]
        /\ accounts' = Move(b, q.dest_account_num, q.amount)
        /\ book' = Bind(b, q, "Processed")
        /\ UNCHANGED <<open, answers>>

CloseTransfer(c, k) ==
    LET q == Workload[c][k]
        b == q.dest_bank_id
    IN  /\ <<c, k>> \in open
        /\ q.req_id \in DOMAIN book[b]
        /\ open' = open \ {<<c, k>>}
        /\ Answer(c, k, Verdict(b, q), accounts[BankOf[c]][q.account_num])
        /\ UNCHANGED <<accounts, book>>

LedgerNext ==
    \E c \in Clients : \E k \in 1 .. Len(Workload[c]) :
       \/ Query(c, k)
       \/ Repeat(c, k)
       \/ Refuse(c, k)
       \/ Deposit(c, k)
       \/ Withdraw(c, k)
       \/ Pay(c, k)
       \/ BookPayee(c, k)
       \/ CloseTransfer(c, k)

LedgerSpec == LedgerInit /\ [][LedgerNext]_ledger

================================================================================
