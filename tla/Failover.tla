-------------------------------- MODULE Failover --------------------------------
(***************************************************************************)
(* The system with its failures: the chains of Chain, the master that      *)
(* watches them, servers that crash and servers that start later.          *)
(***************************************************************************)
EXTENDS Chain, Member

CONSTANTS
    Formed,       \* Formed[b]: the servers of bank b in its chain at the beginning
    Mortal,       \* the servers whose life_time ends
    MaxCrashes,   \* bound: a life_time ends while fewer servers have ended
    Calm          \* no server joins while a client waits for an answer

VARIABLE
    ended         \* the servers that have run and do so no more

processes == <<alive, masterState, masterStreams, memberState, ended>>

fvars == <<vars, processes>>

ASSUME FailoverAssumption ==
    /\ Formed \in [Banks -> Nat]
    /\ \A b \in Banks : Formed[b] <= ChainLength[b]
    /\ Mortal \subseteq Servers
    /\ MaxCrashes \in Nat
    /\ Calm \in BOOLEAN

--------------------------------------------------------------------------------
InChain(s) == s[2] <= Formed[Bank(s)]

\* The role of the i-th of the n servers of a chain.
RoleAt(i, n) ==
    CASE i = 1 /\ n = 1 -> "HEAD_TAIL"
      [] i = 1 /\ n > 1 -> "HEAD"
      [] i > 1 /\ i = n -> "TAIL"
      [] OTHER          -> "INTER"

(* The chains formed so far, as the joins lead to them, and the servers of   *)
(* the configuration that have not started, as get_server_need_info sets     *)
(* them.  The ends of the other banks are those of the configuration file.   *)
MembersInit ==
    /\ my_type = [s \in Servers |->
          IF InChain(s) THEN RoleAt(s[2], Formed[Bank(s)])
          ELSE IF IsFirst(s) THEN "HEAD_TAIL" ELSE "TAIL"]
    /\ next_fd = [s \in Servers |-> IF s[2] < Formed[Bank(s)] THEN Next1(s) ELSE NoServer]
    /\ pre_fd = [s \in Servers |-> IF InChain(s) /\ ~IsFirst(s) THEN Prev1(s) ELSE NoServer]
    /\ all_heads = [s \in Servers |-> [b \in Banks |-> FirstServer(b)]]
    /\ all_tails = [s \in Servers |-> [b \in Banks |-> LastServer(b)]]
    /\ alive = {s \in Servers : InChain(s)}
    /\ pre_port = [s \in Servers |-> IF InChain(s) /\ ~IsFirst(s) THEN Prev1(s) ELSE NoServer]
    /\ connecting = {}
    /\ accepting = {s \in Servers : s[2] = Formed[Bank(s)]}
    /\ hist = [s \in Servers |-> "none"]

\* init_master, and what it has learned from the chains formed so far.
MasterInit ==
    /\ server_list = [b \in Banks |-> [i \in 1 .. Formed[b] |-> Listed(<<b, i>>)]]
    /\ fail_pre_fd = NoServer
    /\ telling = NoBank
    /\ connects = <<>>
    /\ serfd = NoServer
    /\ starting = 0
    /\ readers = {s \in Servers : InChain(s)}
    /\ logins = Clients
    /\ from_master = [s \in Servers |-> <<>>]
    /\ to_master = [s \in Servers |-> <<>>]

FInit ==
    /\ MembersInit
    /\ ServersStart
    /\ MasterInit
    /\ ClientsStart
    /\ to_client = EmptyBag
    /\ ended = {}

--------------------------------------------------------------------------------
\* The threads of a server that runs.

ThreadClient(s) == s \in alive /\ RecClient(s) /\ UNCHANGED <<clientState, processes>>

ThreadPre(s) ==
    \/ s \in alive /\ RecForward(s) /\ UNCHANGED <<clientState, processes>>
    \/ RecRepair(s) /\ UNCHANGED ended

\* rec_next_thread starts when the history has been sent.
ThreadNext(s) ==
    s \in alive /\ hist[s] = "none" /\ RecAck(s) /\ UNCHANGED <<clientState, processes>>

ThreadOtherBank(s) ==
    s \in alive /\ RecOtherBank(s) /\ UNCHANGED <<clientState, processes>>

ThreadMaster(s) == RecMsgFromMaster(s) /\ UNCHANGED ended

ThreadConnect(s) ==
    \/ Join(s) /\ UNCHANGED ended
    \/ ConnectFails(s) /\ ended' = ended \cup {s}

ThreadAccept(s) == (SendHistPart(s) \/ SendHistEnd(s)) /\ UNCHANGED ended

\* No server of the bank is on its way into the chain.
NobodyJoins(b) == alive \cap Chain(b) \subseteq ToSet(Ports(server_list[b]))

\* Nothing is under way to a server that runs.
FIdle ==
    /\ \A m \in DOMAIN to_server : m.to \notin alive
    /\ \A s \in alive : from_pre[s] = <<>> /\ from_next[s] = <<>> /\ from_master[s] = <<>>

\* A server that has not run before; the one before it in the file has joined.
Start(s) ==
    /\ s \notin ended
    /\ IsFirst(s) \/ Prev1(s) \in ToSet(Ports(server_list[Bank(s)]))
    /\ Calm => /\ FIdle
               /\ \A c \in Clients : started[c] => last_rec_id[c] = Len(Queue(c))
    /\ StartServer(s)
    /\ UNCHANGED ended

Fail(s) ==
    /\ s \in Mortal
    /\ Cardinality(ended) < MaxCrashes
    /\ Crash(s)
    /\ ended' = ended \cup {s}

FServerStep(s) ==
    \/ ThreadClient(s) \/ ThreadPre(s) \/ ThreadNext(s) \/ ThreadOtherBank(s)
    \/ ThreadMaster(s) \/ ThreadConnect(s) \/ ThreadAccept(s)
    \/ Start(s) \/ Fail(s)

FMasterStep == MasterStep /\ UNCHANGED <<clientState, memberState, ended>>

(* The second main sleeps after its login is enough for the master to answer *)
(* it, and for a head that the answer names to have been told.               *)
ThreadMain(c) ==
    /\ c \notin logins
    /\ Calm => NobodyJoins(BankOf[c])
    /\ Paced => \A s \in Chain(BankOf[c]) : [op |-> "HEAD_FAIL"] \notin ToSet(from_master[s])
    /\ StartClient(c)
    /\ UNCHANGED processes

ThreadRecv(c) == RecvMsg(c) /\ UNCHANGED processes

ThreadResend(c, k) == CheckReceive(c, k) /\ UNCHANGED processes

FClientStep(c) ==
    ThreadMain(c) \/ ThreadRecv(c) \/ \E k \in 1 .. Len(Queue(c)) : ThreadResend(c, k)

FLose == Lose /\ UNCHANGED processes

FNext ==
    \/ \E s \in Servers : FServerStep(s)
    \/ \E c \in Clients : FClientStep(c)
    \/ FMasterStep
    \/ FLose

FSpec == FInit /\ [][FNext]_fvars

(* Every thread of a process that runs is scheduled when it has something to *)
(* do: those of Chain, the thread that reads the master's notices, the ones  *)
(* that connect and accept, and the threads of the master.  Servers start    *)
(* when their startup_delay is over.  Nothing is assumed of crashes.         *)
FFairness ==
    /\ \A s \in Servers :
          /\ WF_fvars(ThreadClient(s)) /\ WF_fvars(ThreadPre(s))
          /\ WF_fvars(ThreadNext(s)) /\ WF_fvars(ThreadOtherBank(s))
          /\ WF_fvars(ThreadMaster(s)) /\ WF_fvars(ThreadConnect(s))
          /\ WF_fvars(ThreadAccept(s)) /\ WF_fvars(Start(s))
          /\ WF_fvars(RecFromServer(s) /\ UNCHANGED <<clientState, memberState, ended>>)
    /\ \A c \in Clients :
          /\ WF_fvars(ThreadMain(c)) /\ WF_fvars(ThreadRecv(c))
          /\ WF_fvars(RecvLogin(c) /\ UNCHANGED <<clientState, memberState, ended>>)
    /\ WF_fvars(RoundAskCheck /\ UNCHANGED <<clientState, memberState, ended>>)
    /\ WF_fvars(AcceptServer /\ UNCHANGED <<clientState, memberState, ended>>)
    /\ WF_fvars(StartReader /\ UNCHANGED <<clientState, memberState, ended>>)

FFairSpec == FSpec /\ FFairness

--------------------------------------------------------------------------------
FTypeOK ==
    /\ TopologyTypeOK
    /\ MasterTypeOK
    /\ MemberTypeOK
    /\ ended \subseteq Servers \ alive

\* What a notice makes of the role of the server that reads it.
RoleAfter(type, notice) ==
    CASE notice.op = "HEAD_FAIL" -> IF type = "TAIL" THEN "HEAD_TAIL" ELSE "HEAD"
      [] notice.op = "TAIL_FAIL" -> IF type = "HEAD" THEN "HEAD_TAIL" ELSE "TAIL"
      [] OTHER -> type

PreAfter(pre, notice) == IF notice.op = "INTER_PRE_FAIL" THEN notice.port ELSE pre

\* The place of a server, its role and its predecessor, after a notice.
PlaceAfter(place, notice) == [type |-> RoleAfter(place.type, notice),
                              pre  |-> PreAfter(place.pre, notice)]

\* The place of a server once it has read every notice under way to it.
PlaceToCome(s) ==
    FoldLeft(PlaceAfter, [type |-> my_type[s], pre |-> pre_port[s]], from_master[s])

HeadNow(b) == GetHeadServer(server_list[b])

TailNow(b) == GetTailServer(server_list[b])

(* The notices under way lead every server to its place: whatever fails in   *)
(* whatever order, a server that has read all its notices has the role and   *)
(* the predecessor that the master's list gives it.  The master sends a      *)
(* notice to one neighbour, or to two, and never repeats one; each neighbour *)
(* works out its new role from its old one (round_ask_check,                 *)
(* rec_msg_from_master).  No server joins meanwhile.                         *)
NoticesLeadToList ==
    \A b \in Banks : \A i \in DOMAIN server_list[b] : \A s \in alive :
      s = server_list[b][i].port =>
         /\ PlaceToCome(s).type = RoleAt(i, Len(server_list[b]))
         /\ i > 1 => PlaceToCome(s).pre = server_list[b][i - 1].port

(* No two servers of a bank that run take themselves for its head, or for   *)
(* its tail, not even while a repair is going on: the master tells a server *)
(* that it is the new one only when the old one is dead (server_fail_notice,*)
(* rec_msg_from_master).  No server joins meanwhile.                        *)
OneHeadOneTail ==
    \A p, s \in alive : Bank(p) = Bank(s) /\ p # s =>
       ~(Heads(p) /\ Heads(s)) /\ ~(Tails(p) /\ Tails(s))

\* The servers of b that run are the ones listed, connected in that order.
InOrder(b) ==
    LET list == Ports(server_list[b])
        n == Len(list)
    IN  /\ ToSet(list) = alive \cap Chain(b)
        /\ \A i \in 1 .. n :
              /\ my_type[list[i]] = RoleAt(i, n)
              /\ pre_fd[list[i]] = IF i = 1 THEN NoServer ELSE list[i - 1]
              /\ next_fd[list[i]] = IF i = n THEN NoServer ELSE list[i + 1]

(* Every chain is repaired: once no more servers fail or start, the list of  *)
(* the master is the list of the servers that run, and these are connected   *)
(* in its order with the right roles.                                        *)
ChainsRepaired == \A b \in Banks : <>[]InOrder(b)

(* Acknowledgements of transfers find their way: in the end every listed    *)
(* server knows the present tail of every other bank (transfer_tail_fail    *)
(* tells all of them, whoever may be tail later).  No server joins.         *)
TailsKnown ==
    \A b \in Banks : <>[](\A k \in Banks \ {b} : \A i \in DOMAIN server_list[k] :
        server_list[b] # <<>> => all_tails[server_list[k][i].port][b] = TailNow(b))

(* What a client has been told survives: whatever server fails and at       *)
(* whatever point of the repair, an update reported as executed (refused)   *)
(* is among the executed (refused) ones of every server the master lists,   *)
(* so any of them can become head or tail.                                  *)
AnsweredSurvive ==
    \A c \in Clients : \A m \in Replies(c) :
      LET q == Queue(c)[m.sent_id]
      IN  q.type \in Updates =>
            \A s \in ToSet(Ports(server_list[BankOf[c]])) \cap alive :
              /\ m.outcome = "Processed" => Recorded(processed_trans[s], q)
              /\ m.outcome = "InsufficientFunds" => Recorded(insuf_funds_trans[s], q)

\* Two servers that follow each other, and nothing on its way between them.
Settled(p, s) ==
    /\ {p, s} \subseteq alive
    /\ next_fd[p] = s
    /\ FIdle
    /\ connecting = {} /\ hist[p] = "none"
    /\ \A t \in readers : to_master[t] = <<>>

(* Repair and extension leave no gap: once two neighbours are connected and *)
(* nothing is on its way, both have executed and refused the same updates:  *)
(* what the failed server took with it was sent again, and the history of a *)
(* new tail is complete (send_next_larger_sn, send_next_hist_sent).         *)
NothingMissing ==
    \A p, s \in Servers : Settled(p, s) =>
      /\ Names(processed_trans[p]) = Names(processed_trans[s])
      /\ Names(insuf_funds_trans[p]) = Names(insuf_funds_trans[s])

\* The master knows of every failure and nothing is under way.
Quiet ==
    /\ FIdle
    /\ telling = NoBank
    /\ \A b \in Banks : alive \cap Chain(b) = ToSet(Ports(server_list[b]))

PaidInNow(b) == PaidInBy(processed_trans[HeadNow(b)])

(* A transfer survives the head of the payee's bank: whenever the repair is *)
(* over, the heads of all banks hold what they took in from clients and did *)
(* not pay out.  The transfer that went to the dead head was credited once: *)
(* sent again, and recognised by the new head if it had been credited       *)
(* already (transfer_resend_head_fail, check_in_sent, check_same_req).      *)
(* Not so its successors, which have no second look (ReplicasExecuteOnce).  *)
MoneyKept ==
    Quiet /\ (\A b \in Banks : server_list[b] # <<>>) =>
      MapThenSumSet(LAMBDA e : balance_map[HeadNow(e[1])][e[2]], Banks \X Accounts)
        = MapThenSumSet(PaidInNow, Banks)

(* Who pays does not depend on who fails elsewhere: a client of a bank whose*)
(* own servers all stay up gets through its queue, its transfers to a bank  *)
(* that loses its head included ("a bank1 server needs to re-send the       *)
(* transfer request to the new head of bank2", testing.txt).                *)
TransfersAnswered ==
    \A c \in Clients :
      [](Chain(BankOf[c]) \cap ended = {}) => <>(last_rec_id[c] = Len(Queue(c)))

(* A transfer the payee's head received is completed although that head and *)
(* the payer's tail both fail ("another bank1 server s1' needs to re-send   *)
(* the transfer request to the new head of bank2", testing.txt:27): once    *)
(* the repair is over, the servers that are left have executed it.          *)
TransferCompletes ==
    Quiet =>
      \A c \in Clients : \A q \in ToSet(Queue(c)) :
        q.type = "transfer" /\ server_list[q.dest_bank_id] # <<>>
          /\ Recorded(processed_trans[FirstServer(q.dest_bank_id)], q)
            => Recorded(processed_trans[HeadNow(q.dest_bank_id)], q)

==================================================================================
