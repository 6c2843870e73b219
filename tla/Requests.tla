-------------------------------- MODULE Requests -------------------------------
(***************************************************************************)
(* The deployment a configuration file describes, and the records that     *)
(* travel in it (common/common.h, server_read_conf.cpp and                 *)
(* client_read_conf.cpp).  An account's float amount is a natural number:  *)
(* the properties never depend on rounding.                                *)
(***************************************************************************)
EXTENDS Integers, Sequences

CONSTANTS
    Banks,         \* the banks of the configuration file
    NoBank,        \* a bank number that names no bank (0, -1, garbage)
    ChainLength,   \* ChainLength[b]: the number of servers of bank b
    Clients,       \* the client processes, known to servers by their ports
    BankOf,        \* BankOf[c]: the bank whose chain client c talks to
    Accounts,      \* account numbers, arbitrary integers in the code
    ReqIds,        \* request identifiers "bank.client.number"
    Workload       \* Workload[c]: the queue req_que that client c loads

Types == {"getBalance", "deposit", "withdraw", "transfer", ""}

Updates == {"deposit", "withdraw", "transfer"}

(* "none" is the 0 a client stores, "Need" the internal status 4: executed  *)
(* at the head and still to be executed by the servers behind it.           *)
Statuses == {"none", "Processed", "InconsistentWithHistory",
             "InsufficientFunds", "Need"}

Servers == UNION {{<<b, i>> : i \in 1 .. ChainLength[b]} : b \in Banks}

(* A port nothing listens on: what is sent to it is lost.                   *)
NoServer == <<NoBank, 0>>

FirstServer(b) == <<b, 1>>

LastServer(b) == <<b, ChainLength[b]>>

Request ==
    [req_seq          : Nat,
     sent_id          : Nat,
     client_port      : Clients,
     type             : Types,
     req_id           : ReqIds,
     account_num      : Accounts,
     amount           : Nat,
     status           : Statuses,
     dest_bank_id     : Banks \cup {NoBank},
     dest_account_num : Accounts,
     source_bank_id   : Banks \cup {NoBank}]

Reply ==
    [op          : {"SER_RPY"},
     to          : Clients,
     sent_id     : Nat,
     req_id      : ReqIds,
     account_num : Accounts,
     outcome     : Statuses,
     balance     : Int]

\* What a request asks for, whoever sends it and however often.
Content(q) ==
    [type |-> q.type, account_num |-> q.account_num, amount |-> q.amount,
     payee |-> IF q.type = "transfer" THEN <<q.dest_bank_id, q.dest_account_num>>
                                      ELSE <<>>]

ASSUME ChainLengthAssumption == ChainLength \in [Banks -> Nat \ {0}]

ASSUME NoBankAssumption == NoBank \notin Banks

ASSUME BankOfAssumption == BankOf \in [Clients -> Banks]

\* A client listens on its port.
ASSUME ClientPortAssumption == NoServer \notin Clients

(* get_client_need_info numbers the requests of its queue from 1 and stamps *)
(* them with the client's port and status 0.                                *)
ASSUME WorkloadAssumption ==
    /\ Workload \in [Clients -> Seq(Request)]
    /\ \A c \in Clients : \A k \in 1 .. Len(Workload[c]) :
          /\ Workload[c][k].sent_id = k
          /\ Workload[c][k].client_port = c
          /\ Workload[c][k].status = "none"

================================================================================
