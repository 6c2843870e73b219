--------------------------------- MODULE Member ---------------------------------
(***************************************************************************)
(* How a server enters its chain, leaves it and takes part in its repair:  *)
(* the master's notices (server/server_master.cpp), the connections between *)
(* neighbours, the history sent to a new tail and the updates sent again   *)
(* after a failure (server/server.cpp).  next_fd and pre_fd name the other *)
(* end of a connection that both ends hold.                                *)
(***************************************************************************)
EXTENDS Client, Master

CONSTANT
    CharValues    \* how many values a char has: 256

VARIABLES
    pre_port,     \* the predecessor the master named last
    connecting,   \* the servers whose conn_pre_thread has not connected yet
    accepting,    \* the servers whose acc_next_thread waits for a successor
    hist          \* what send_next_hist_sent of a server sends next, or "none"

memberState == <<pre_port, connecting, accepting, hist>>

ASSUME MemberAssumption == CharValues \in Nat \ {0}

--------------------------------------------------------------------------------
\* Connections.  What a server has read from the socket before the other end
\* closed or died stays readable; what it has not read when it closes is gone.

\* Server s closes the connection with its predecessor, or with its successor.
ClosePre(s) ==
    /\ pre_fd' = [pre_fd EXCEPT ![s] = NoServer]
    /\ next_fd' = [p \in Servers |-> IF next_fd[p] = s THEN NoServer ELSE next_fd[p]]
    /\ from_pre' = [from_pre EXCEPT ![s] = <<>>]

CloseNext(s) ==
    /\ next_fd' = [next_fd EXCEPT ![s] = NoServer]
    /\ pre_fd' = [t \in Servers |-> IF pre_fd[t] = s THEN NoServer ELSE pre_fd[t]]
    /\ from_next' = [from_next EXCEPT ![s] = <<>>]

\* The lists and numbers of the servers, their clients and the network.
books == <<req_seq, last_received_id, balance_map, processed_trans,
           insuf_funds_trans, sent>>

elsewhere == <<network, clientState, masterState>>

(* init_server and connect_master: the process starts and calls the master. *)
(* Datagrams that came before it had bound its ports are gone.              *)
StartServer(s) ==
    /\ s \notin alive
    /\ alive' = alive \cup {s}
    /\ to_server' = [m \in {m \in DOMAIN to_server : m.to # s} |-> to_server[m]]
    /\ connects' = Append(connects, s)
    /\ accepting' = accepting \cup {s}
    /\ UNCHANGED <<serverState, to_client, clientState, server_list, fail_pre_fd, telling,
                   serfd, starting, readers, logins, masterStreams, pre_port, connecting,
                   hist>>

(* check_my_life: the process ends (exit), at whatever place the life_time   *)
(* of the configuration names, and with it both ends of its connections.  A  *)
(* server whose call it had in its backlog is left with a dead connection.   *)
Crash(s) ==
    /\ s \in alive
    /\ alive' = alive \ {s}
    /\ next_fd' = [p \in Servers |-> IF p = s \/ next_fd[p] = s THEN NoServer ELSE next_fd[p]]
    /\ pre_fd' = [t \in Servers |-> IF t = s \/ pre_fd[t] = s THEN NoServer ELSE pre_fd[t]]
    /\ from_pre' = [from_pre EXCEPT ![s] = <<>>]
    /\ from_next' = [from_next EXCEPT ![s] = <<>>]
    /\ from_master' = [from_master EXCEPT ![s] = <<>>]
    /\ \E called \in SUBSET {t \in connecting : pre_port[t] = s} :
          connecting' = connecting \ (called \cup {s})
    /\ accepting' = accepting \ {s}
    /\ hist' = [hist EXCEPT ![s] = "none"]
    /\ UNCHANGED <<my_type, all_heads, all_tails, books, elsewhere, to_master, pre_port>>

--------------------------------------------------------------------------------
\* rec_msg_from_master

\* The next notice, taken from the stream, is of this kind.
ReadNotice(s, operation) ==
    /\ s \in alive
    /\ from_master[s] # <<>>
    /\ Head(from_master[s]).op = operation
    /\ from_master' = Pop(from_master, s)

Notice(s) == Head(from_master[s])

GetPre(s) ==
    /\ ReadNotice(s, "GET_PRE")
    /\ IF Heads(s) THEN UNCHANGED <<pre_port, connecting>>
       ELSE /\ pre_port' = [pre_port EXCEPT ![s] = Notice(s).port]
            /\ connecting' = connecting \cup {s}
    /\ UNCHANGED <<serverState, elsewhere, alive, to_master, accepting, hist>>

HeadFail(s) ==
    /\ ReadNotice(s, "HEAD_FAIL")
    /\ my_type' = [my_type EXCEPT ![s] = IF @ = "TAIL" THEN "HEAD_TAIL" ELSE "HEAD"]
    /\ ClosePre(s)
    /\ UNCHANGED <<all_heads, all_tails, books, from_next, elsewhere, alive, to_master,
                   memberState>>

\* A variant that cancels the thread and starts no other.
ListenOnce(s) ==
    /\ accepting' = accepting \ {s}
    /\ hist' = [hist EXCEPT ![s] = "none"]

\* listen_next_again: acc_next_thread is cancelled, also while it sends a
\* history, and another one waits.
ListenAgain(s) ==
    /\ accepting' = accepting \cup {s}
    /\ hist' = [hist EXCEPT ![s] = "none"]

TailFail(s) ==
    /\ ReadNotice(s, "TAIL_FAIL")
    /\ my_type' = [my_type EXCEPT ![s] = IF @ = "HEAD" THEN "HEAD_TAIL" ELSE "TAIL"]
    /\ CloseNext(s)
    /\ ListenAgain(s)
    /\ UNCHANGED <<all_heads, all_tails, books, from_pre, elsewhere, alive, to_master,
                   pre_port, connecting>>

\* send_to_master: the number goes through one char, which is signed.
AsChar(n) ==
    LET c == n % CharValues
    IN  IF 2 * c >= CharValues THEN c - CharValues ELSE c

InterPreFail(s) ==
    /\ ReadNotice(s, "INTER_PRE_FAIL")
    /\ pre_port' = [pre_port EXCEPT ![s] = Notice(s).port]
    /\ ClosePre(s)
    /\ connecting' = connecting \cup {s}
    /\ to_master' = [to_master EXCEPT ![s] =
                       Append(@, [op |-> "ACK_LAST", sn |-> AsChar(last_received_id[s])])]
    /\ UNCHANGED <<my_type, all_heads, all_tails, books, from_next, elsewhere, alive,
                   accepting, hist>>

InterNextFail(s) ==
    /\ ReadNotice(s, "INTER_NEXT_FAIL")
    /\ CloseNext(s)
    /\ ListenAgain(s)
    /\ UNCHANGED <<my_type, all_heads, all_tails, books, from_pre, elsewhere, alive,
                   to_master, pre_port, connecting>>

\* A variant that leaves out the first.
LargerByTwo(s, sn) == SelectSeq(sent[s], LAMBDA q : q.req_seq > sn + 1)

WithLarger(sn, list, q) == IF q.req_seq > sn THEN Append(list, q) ELSE list

LargerThan(s, sn) == FoldLeft(LAMBDA list, q : WithLarger(sn, list, q), <<>>, sent[s])

(* NEXT_SN: send_next_larger_sn sends again what the new successor misses,   *)
(* if that successor has connected by then.  Its walk over `sent`, with 50 ms *)
(* between two entries, is one step: what the other threads forward comes    *)
(* before or after all of it, never in between, and `sent` stands still.     *)
NextSn(s) ==
    /\ ReadNotice(s, "NEXT_SN")
    /\ Paced => \A t \in connecting : pre_port[t] # s
    /\ LET missing == LargerThan(s, Notice(s).sn)
           messages == [i \in DOMAIN missing |-> [op |-> "LARGER_SN_LIST", req |-> missing[i]]]
       IN  from_pre' = IF next_fd[s] = NoServer THEN from_pre
                       ELSE [from_pre EXCEPT ![next_fd[s]] = @ \o messages]
    /\ UNCHANGED <<topology, books, from_next, elsewhere, alive, to_master, memberState>>

\* A variant of transfer_resend_head_fail that sends to the head it knew before.
ResendTransfersOld(s, b, port) ==
    {Mail("REQUEST", all_heads[s][b], q) :
        q \in {q \in ToSet(sent[s]) : q.type = "transfer" /\ q.dest_bank_id = b}}

\* transfer_resend_head_fail: the transfers to bank b that have no ack yet.
ResendTransfers(s, b, port) ==
    {Mail("REQUEST", port, q) :
        q \in {q \in ToSet(sent[s]) : q.type = "transfer" /\ q.dest_bank_id = b}}

TransHeadFail(s) ==
    /\ ReadNotice(s, "TRANS_HEAD_FAIL")
    /\ all_heads' = [all_heads EXCEPT ![s][Notice(s).bank_id] = Notice(s).port]
    /\ to_server' = Deliver(to_server, ResendTransfers(s, Notice(s).bank_id, Notice(s).port))
    /\ UNCHANGED <<my_type, next_fd, pre_fd, all_tails, books, from_pre, from_next,
                   to_client, clientState, masterState, alive, to_master, memberState>>

TransTailFail(s) ==
    /\ ReadNotice(s, "TRANS_TAIL_FAIL")
    /\ all_tails' = [all_tails EXCEPT ![s][Notice(s).bank_id] = Notice(s).port]
    /\ UNCHANGED <<my_type, next_fd, pre_fd, all_heads, books, from_pre, from_next,
                   elsewhere, alive, to_master, memberState>>

RecMsgFromMaster(s) ==
    \/ GetPre(s) \/ HeadFail(s) \/ TailFail(s)
    \/ InterPreFail(s) \/ InterNextFail(s) \/ NextSn(s)
    \/ TransHeadFail(s) \/ TransTailFail(s)

--------------------------------------------------------------------------------
(* connect_pre_server of s and accept_connect_from_next_server of the server *)
(* it connects to, as one step: what s would write in between is dropped     *)
(* before the connection and read after it, in the code as here.             *)
Join(s) ==
    /\ s \in connecting \cap alive
    /\ LET p == pre_port[s]
       IN  /\ p \in accepting
           /\ pre_fd' = [pre_fd EXCEPT ![s] = p]
           /\ next_fd' = [next_fd EXCEPT ![p] = s]
           /\ from_pre' = [from_pre EXCEPT ![s] = <<>>]
           /\ from_next' = [from_next EXCEPT ![p] = <<>>]
           /\ accepting' = accepting \ {p}
           /\ hist' = [hist EXCEPT ![p] = IF Tails(p) THEN "SEND_PROCE" ELSE "none"]
    /\ connecting' = connecting \ {s}
    /\ UNCHANGED <<my_type, all_heads, all_tails, books, elsewhere, alive, masterStreams,
                   pre_port>>

\* The predecessor was gone when s called it: connect fails, and s exits.
ConnectFails(s) ==
    /\ s \in connecting
    /\ pre_port[s] \notin alive
    /\ Crash(s)

HistMessage(s) ==
    CASE hist[s] = "SEND_PROCE" -> [op |-> "SEND_PROCE", list |-> processed_trans[s]]
      [] hist[s] = "SEND_INSUF" -> [op |-> "SEND_INSUF", list |-> insuf_funds_trans[s]]
      [] hist[s] = "SEND_SENT"  -> [op |-> "SEND_SENT", list |-> sent[s]]
      [] hist[s] = "SEND_MAP"   -> [op |-> "SEND_MAP", balances |-> balance_map[s]]

\* A variant that leaves out the refused updates.
AfterPartExecutedOnly == [SEND_PROCE |-> "SEND_SENT", SEND_INSUF |-> "SEND_SENT",
                          SEND_SENT |-> "SEND_MAP", SEND_MAP |-> "SEND_END"]

AfterPart == [SEND_PROCE |-> "SEND_INSUF", SEND_INSUF |-> "SEND_SENT",
              SEND_SENT |-> "SEND_MAP", SEND_MAP |-> "SEND_END"]

(* send_next_hist_sent, one list.  The walk over a vector ends at its length *)
(* of that moment, so one message stands for the list as it then is.         *)
SendHistPart(s) ==
    /\ s \in alive
    /\ hist[s] \in DOMAIN AfterPart
    /\ from_pre' = Push(from_pre, next_fd[s], HistMessage(s))
    /\ hist' = [hist EXCEPT ![s] = AfterPart[@]]
    /\ UNCHANGED <<topology, books, from_next, elsewhere, alive, masterStreams, pre_port,
                   connecting, accepting>>

\* Whether send can succeed; the first one after the other end is gone may.
HandedOver(s) == IF next_fd[s] # NoServer THEN {TRUE} ELSE BOOLEAN

\* A variant that forgets that the old tail may be the head.
BeforeTheTailInter(type) == "INTER"

\* What an old tail becomes.
BeforeTheTail(type) ==
    CASE type = "HEAD_TAIL" -> "HEAD"
      [] type = "TAIL"      -> "INTER"
      [] OTHER              -> type

\* send_next_hist_sent, its end: the old tail becomes a server within the chain.
SendHistEnd(s) ==
    /\ s \in alive
    /\ hist[s] = "SEND_END"
    /\ from_pre' = Push(from_pre, next_fd[s], [op |-> "SEND_END"])
    /\ \E handed \in HandedOver(s) :
          my_type' = IF handed THEN [my_type EXCEPT ![s] = BeforeTheTail(@)] ELSE my_type
    /\ hist' = [hist EXCEPT ![s] = "none"]
    /\ UNCHANGED <<next_fd, pre_fd, all_heads, all_tails, books, from_next, elsewhere, alive,
                   masterStreams, pre_port, connecting, accepting>>

--------------------------------------------------------------------------------
\* rec_msg_from_pre_server, the messages of repair and extension.

ReadPre(s, operation) ==
    /\ s \in alive
    /\ from_pre[s] # <<>>
    /\ Head(from_pre[s]).op = operation
    /\ from_pre' = Pop(from_pre, s)

(* LARGER_SN_LIST: after_get_larger_sn.  What is new is taken into the lists *)
(* and executed, but neither passed on nor acknowledged nor answered.        *)
RecLargerSn(s) ==
    /\ ReadPre(s, "LARGER_SN_LIST")
    /\ LET q == Head(from_pre[s]).req
           known == InSent(sent[s], q)
       IN  /\ sent' = IF known THEN sent ELSE [sent EXCEPT ![s] = Append(@, q)]
           /\ balance_map' = IF ~known /\ q.status = "Need"
                 THEN [balance_map EXCEPT ![s] = UpdateBalance(Bank(s), @, q)]
                 ELSE balance_map
           /\ processed_trans' = IF ~known /\ q.status = "Need"
                 THEN [processed_trans EXCEPT ![s] = Record(@, q)]
                 ELSE processed_trans
           /\ insuf_funds_trans' = IF ~known /\ q.status = "InsufficientFunds"
                 THEN [insuf_funds_trans EXCEPT ![s] = Append(@, q)]
                 ELSE insuf_funds_trans
    /\ UNCHANGED <<topology, req_seq, last_received_id, from_next, elsewhere, alive,
                   masterStreams, memberState>>

\* SEND_PROCE, SEND_INSUF, SEND_SENT, SEND_MAP: each appends to its own list.
RecHistory(s) ==
    /\ \/ /\ ReadPre(s, "SEND_PROCE")
          /\ processed_trans' = [processed_trans EXCEPT ![s] = @ \o Head(from_pre[s]).list]
          /\ UNCHANGED <<insuf_funds_trans, sent, balance_map>>
       \/ /\ ReadPre(s, "SEND_INSUF")
          /\ insuf_funds_trans' = [insuf_funds_trans EXCEPT ![s] = @ \o Head(from_pre[s]).list]
          /\ UNCHANGED <<processed_trans, sent, balance_map>>
       \/ /\ ReadPre(s, "SEND_SENT")
          /\ sent' = [sent EXCEPT ![s] = @ \o Head(from_pre[s]).list]
          /\ UNCHANGED <<processed_trans, insuf_funds_trans, balance_map>>
       \/ /\ ReadPre(s, "SEND_MAP")
          /\ balance_map' = [balance_map EXCEPT ![s] = Head(from_pre[s]).balances]
          /\ UNCHANGED <<processed_trans, insuf_funds_trans, sent>>
    /\ UNCHANGED <<topology, req_seq, last_received_id, from_next, elsewhere, alive,
                   masterStreams, memberState>>

\* SEND_END: s is the new tail, and tell_master_newtail says so.
RecHistoryEnd(s) ==
    /\ ReadPre(s, "SEND_END")
    /\ my_type' = [my_type EXCEPT ![s] = "TAIL"]
    /\ to_master' = [to_master EXCEPT ![s] = Append(@, [op |-> "NEW_TAIL"])]
    /\ UNCHANGED <<next_fd, pre_fd, all_heads, all_tails, books, from_next, elsewhere, alive,
                   from_master, memberState>>

RecRepair(s) == RecLargerSn(s) \/ RecHistory(s) \/ RecHistoryEnd(s)

MemberStep(s) ==
    \/ RecMsgFromMaster(s)
    \/ Join(s) \/ ConnectFails(s)
    \/ SendHistPart(s) \/ SendHistEnd(s)
    \/ RecRepair(s)

--------------------------------------------------------------------------------
Streamed ==
    [op : {"FORWARD", "LARGER_SN_LIST"}, req : Request]
      \cup [op : {"SEND_PROCE", "SEND_INSUF", "SEND_SENT"}, list : Seq(Request)]
      \cup [op : {"SEND_MAP"}, balances : [Accounts -> Int]]
      \cup [op : {"SEND_END"}]

MemberTypeOK ==
    /\ from_pre \in [Servers -> Seq(Streamed)]
    /\ pre_port \in [Servers -> Servers \cup {NoServer}]
    /\ connecting \subseteq Servers
    /\ accepting \subseteq alive
    /\ hist \in [Servers -> DOMAIN AfterPart \cup {"SEND_END", "none"}]

================================================================================
