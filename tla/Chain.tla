---------------------------------- MODULE Chain ----------------------------------
(***************************************************************************)
(* The whole system once every chain has formed and while no server fails: *)
(* the servers of all banks, their clients, the streams between neighbours *)
(* and the datagrams, which may be lost.  The master's part is over: it    *)
(* has placed the servers and its answer to every login is on its way.     *)
(***************************************************************************)
EXTENDS Client

CONSTANT
    LossyOps   \* the kinds of datagrams the network may lose

vars == <<serverState, network, clientState>>

Next1(s) == <<s[1], s[2] + 1>>

Prev1(s) == <<s[1], s[2] - 1>>

IsFirst(s) == s = FirstServer(Bank(s))

IsLast(s) == s = LastServer(Bank(s))

--------------------------------------------------------------------------------
Role(s) ==
    CASE IsFirst(s) /\ IsLast(s)   -> "HEAD_TAIL"
      [] IsFirst(s) /\ ~IsLast(s)  -> "HEAD"
      [] ~IsFirst(s) /\ IsLast(s)  -> "TAIL"
      [] OTHER                     -> "INTER"

\* The topology get_server_need_info, the master and the joins lead to.
TopologyInit ==
    /\ my_type = [s \in Servers |-> Role(s)]
    /\ next_fd = [s \in Servers |-> IF IsLast(s) THEN NoServer ELSE Next1(s)]
    /\ pre_fd = [s \in Servers |-> IF IsFirst(s) THEN NoServer ELSE Prev1(s)]
    /\ all_heads = [s \in Servers |-> [b \in Banks |-> FirstServer(b)]]
    /\ all_tails = [s \in Servers |-> [b \in Banks |-> LastServer(b)]]

\* init_server
ServersStart ==
    /\ req_seq = [s \in Servers |-> 0]
    /\ last_received_id = [s \in Servers |-> 0]
    /\ balance_map = [s \in Servers |-> [a \in Accounts |-> 0]]
    /\ processed_trans = [s \in Servers |-> <<>>]
    /\ insuf_funds_trans = [s \in Servers |-> <<>>]
    /\ sent = [s \in Servers |-> <<>>]
    /\ from_pre = [s \in Servers |-> <<>>]
    /\ from_next = [s \in Servers |-> <<>>]
    /\ to_server = EmptyBag

ServerInit == TopologyInit /\ ServersStart

\* recv_client, in the master: the answer to a client's login.
LoginAnswer(c) ==
    [op |-> "SET_HEAD_TAIL", to |-> c, bank_id |-> BankOf[c],
     head_port |-> FirstServer(BankOf[c]), tail_port |-> LastServer(BankOf[c])]

\* main and init_client
ClientsStart ==
    /\ started = [c \in Clients |-> FALSE]
    /\ head_port = [c \in Clients |-> NoServer]
    /\ tail_port = [c \in Clients |-> NoServer]
    /\ next_req = [c \in Clients |-> 0]
    /\ recv_table = [c \in Clients |-> {}]
    /\ last_rec_id = [c \in Clients |-> 0]
    /\ my_resend_time = [c \in Clients |-> [k \in 1 .. Len(Queue(c)) |-> 0]]
    /\ log = [c \in Clients |-> <<>>]

ClientInit ==
    /\ ClientsStart
    /\ to_client = SetToBag({LoginAnswer(c) : c \in Clients})

Init == ServerInit /\ ClientInit

--------------------------------------------------------------------------------
ServerStep(s) == ReceiveStep(s) /\ UNCHANGED clientState

\* recv_msg is one thread: it handles replies and the master's notices.
RecvMsg(c) == RecvReply(c) \/ RecvSetHeadTail(c)

ClientStep(c) ==
    \/ StartClient(c)
    \/ RecvMsg(c)
    \/ \E k \in 1 .. Len(Queue(c)) : CheckReceive(c, k)

Lose ==
    \/ \E m \in DOMAIN to_server :
          /\ m.op \in LossyOps
          /\ to_server' = Take(to_server, m)
          /\ UNCHANGED <<serverState, clientState, to_client>>
    \/ \E m \in DOMAIN to_client :
          /\ m.op \in LossyOps
          /\ to_client' = Take(to_client, m)
          /\ UNCHANGED <<serverState, clientState, to_server>>

Next ==
    \/ \E s \in Servers : ServerStep(s)
    \/ \E c \in Clients : ClientStep(c)
    \/ Lose

Spec == Init /\ [][Next]_vars

(* Each receive loop is a thread that blocks in recv until something comes, *)
(* so each is scheduled when it has something to read; main wakes up.       *)
Fairness ==
    /\ \A s \in Servers :
          /\ WF_vars(RecClient(s) /\ UNCHANGED clientState)
          /\ WF_vars(RecForward(s) /\ UNCHANGED clientState)
          /\ WF_vars(RecAck(s) /\ UNCHANGED clientState)
          /\ WF_vars(RecOtherBank(s) /\ UNCHANGED clientState)
    /\ \A c \in Clients : WF_vars(StartClient(c)) /\ WF_vars(RecvMsg(c))

FairSpec == Spec /\ Fairness

TypeOK == ServerTypeOK /\ ClientTypeOK

--------------------------------------------------------------------------------
\* Vocabulary of the properties.

Neighbours == {e \in Servers \X Servers : e[2] = Next1(e[1])}

\* The requests a stream carries, oldest first.
Forwarded(s) == [i \in DOMAIN from_pre[s] |-> from_pre[s][i].req]

(* The history a server will have when it has read a stream to its end: it  *)
(* takes the updates of one status, those to be executed as executed.       *)
Filing(status, history, f) ==
    IF f.req.status # status THEN history
    ELSE IF status = "Need" THEN Record(history, f.req)
                            ELSE Append(history, f.req)

AfterReading(status, history, stream) ==
    FoldLeft(LAMBDA h, f : Filing(status, h, f), history, stream)

Names(list) == {<<q.client_port, q.sent_id>> : q \in ToSet(list)}

\* What an executed update changes in account a of bank b.
Effect(b, q, a) ==
    CASE q.type = "deposit" /\ q.account_num = a -> q.amount
      [] q.type = "withdraw" /\ q.account_num = a -> -q.amount
      [] q.type = "transfer" /\ q.dest_bank_id = b /\ q.dest_account_num = a ->
            q.amount
      [] q.type = "transfer" /\ q.dest_bank_id # b /\ q.account_num = a -> -q.amount
      [] OTHER -> 0

BalanceOf(b, history, a) ==
    FoldLeft(LAMBDA sum, q : sum + Effect(b, q, a), 0, history)

Replies(c) == {m \in DOMAIN to_client : m.to = c /\ m.op = "SER_RPY"} \cup ToSet(log[c])

Chain(b) == {s \in Servers : Bank(s) = b}

Recorded(history, q) ==
    \E i \in DOMAIN history :
        history[i].req_id = q.req_id /\ Content(history[i]) = Content(q)

--------------------------------------------------------------------------------
(* Update propagation: what a server has executed is what its successor will *)
(* have executed, in the same order, when it has read the stream between     *)
(* them; so every replica is a prefix of the head.  The same for refusals.   *)
(* process_forwared_request, forward_req_to_next_server; without resends.    *)
UpdatePropagation ==
    \A e \in Neighbours :
      /\ processed_trans[e[1]] =
           AfterReading("Need", processed_trans[e[2]], from_pre[e[2]])
      /\ insuf_funds_trans[e[1]] =
           AfterReading("InsufficientFunds", insuf_funds_trans[e[2]], from_pre[e[2]])

(* In-process requests: what a server keeps in `sent` is exactly what is    *)
(* forwarded and unread, kept by its successor, or acknowledged and unread: *)
(* nothing is dropped before its ack and nothing stays after it.  Recovery  *)
(* from a failed server rests on this list.  delete_sent, check_in_sent;    *)
(* without resends.                                                         *)
InprocessRequests ==
    \A e \in Neighbours :
      LET p == e[1]
          s == e[2]
      IN  /\ Names(sent[p]) =
               Names(Forwarded(s)) \cup Names(sent[s]) \cup Names(from_next[p])
          /\ Len(sent[p]) = Len(from_pre[s]) + Len(sent[s]) + Len(from_next[p])

(* The numbers of the updates reach every server without gaps: what a       *)
(* server expects next is the first number in its stream, and the last one  *)
(* there is the last its predecessor handled.  send_next_larger_sn picks    *)
(* what a successor misses by these numbers; without resends.               *)
NumbersWithoutGaps ==
    \A e \in Neighbours :
      LET p == e[1]
          s == e[2]
      IN  /\ \A i \in DOMAIN from_pre[s] :
               from_pre[s][i].req.req_seq = last_received_id[s] + i
          /\ last_received_id[s] + Len(from_pre[s]) =
               IF my_type[p] = "HEAD" THEN req_seq[p] ELSE last_received_id[p]

(* The balances of every server are the sums its own history explains, and  *)
(* no account is overdrawn: what update_balance does behind the head is     *)
(* what processDeposit, processWithdraw and processTransfer did at the head.*)
BalancesExplained ==
    \A s \in Servers : \A a \in Accounts :
      /\ balance_map[s][a] = BalanceOf(Bank(s), processed_trans[s], a)
      /\ balance_map[s][a] >= 0

(* A head executes a request id at most once, whatever is resent, lost or   *)
(* sent again under the same id: its history never names an id twice        *)
(* (check_same_req and the two check_in_sent of rec_client).                *)
HeadExecutesOnce ==
    \A s \in Servers : Heads(s) =>
      \A i, j \in DOMAIN processed_trans[s] :
         processed_trans[s][i].req_id = processed_trans[s][j].req_id => i = j

(* A head never both executes and refuses a request id, so a refusal told   *)
(* to a client is final (check_same_req, rec_client).                       *)
HeadHasOneVerdict ==
    \A s \in Servers : Heads(s) =>
      \A i \in DOMAIN processed_trans[s], j \in DOMAIN insuf_funds_trans[s] :
         processed_trans[s][i].req_id # insuf_funds_trans[s][j].req_id

(* A reply vouches for the whole chain: once a client may have been told    *)
(* Processed (InsufficientFunds), every server of its bank has the request  *)
(* among the executed (refused) ones, resends and lost replies included.    *)
ReplyMeansRecorded ==
    \A c \in Clients : \A m \in Replies(c) :
      LET q == Queue(c)[m.sent_id]
      IN  q.type \in Updates =>
            \A s \in Chain(BankOf[c]) :
              /\ m.outcome = "Processed" => Recorded(processed_trans[s], q)
              /\ m.outcome = "InsufficientFunds" => Recorded(insuf_funds_trans[s], q)

(* However often a deposit or a withdrawal is resent, its replies agree on  *)
(* the outcome ("simply re-send the same reply", processDeposit and         *)
(* processWithdraw).                                                        *)
OutcomeStable ==
    \A c \in Clients : \A m, n \in Replies(c) :
      m.sent_id = n.sent_id /\ Queue(c)[m.sent_id].type # "transfer"
        => m.outcome = n.outcome

\* Nothing is under way between servers.
Idle ==
    /\ to_server = EmptyBag
    /\ \A s \in Servers : from_pre[s] = <<>> /\ from_next[s] = <<>>

\* What clients paid in and drew according to a history.
PaidInBy(history) ==
    FoldLeft(LAMBDA sum, q : CASE q.type = "deposit"  -> sum + q.amount
                               [] q.type = "withdraw" -> sum - q.amount
                               [] OTHER -> sum,
             0, history)

PaidIn(b) == PaidInBy(processed_trans[FirstServer(b)])

TotalAtTails ==
    MapThenSumSet(LAMBDA e : balance_map[LastServer(e[1])][e[2]], Banks \X Accounts)

(* Transfers neither make nor lose money: whenever nothing is under way,    *)
(* the accounts of all banks hold what clients paid in and did not draw.    *)
(* It takes two chains, a shipped datagram and an ack to break it           *)
(* (send_transfer_dest_head, processTransfer, update_balance); without      *)
(* resends or lost requests, and where no client uses the id of another's   *)
(* transfer.                                                                *)
MoneyConserved ==
    Idle => TotalAtTails = MapThenSumSet(PaidIn, Banks)

(* Every client gets through its queue, transfers between chains included,  *)
(* when no datagram is lost.                                                *)
EveryRequestAnswered ==
    \A c \in Clients : <>(last_rec_id[c] = Len(Queue(c)))

(* `sent` empties at every server: each update forwarded is acknowledged    *)
(* all the way to the head, even when a transfer waits for the other bank   *)
(* while later updates overtake it (rec_other_bank, ack_to_pre_server).     *)
SentDrains ==
    \A s \in Servers : [](sent[s] # <<>> => <>(sent[s] = <<>>))

--------------------------------------------------------------------------------
(* What comments of the code claim and resends refute.                      *)

(* "if resend, no need to process again" (server.cpp:684): no server        *)
(* executes a request id twice.                                             *)
ReplicasExecuteOnce ==
    \A s \in Servers : \A i, j \in DOMAIN processed_trans[s] :
       processed_trans[s][i].req_id = processed_trans[s][j].req_id => i = j

(* "if exactly the same transaction has already been processed, simply      *)
(* re-send the same reply" (process.cpp:128): the replies to a transfer     *)
(* that is resent agree on the outcome.                                     *)
TransferReplyStable ==
    \A c \in Clients : \A m, n \in Replies(c) :
      m.sent_id = n.sent_id /\ Queue(c)[m.sent_id].type = "transfer"
        => m.outcome = n.outcome

================================================================================
