--------------------------------- MODULE Client ---------------------------------
(***************************************************************************)
(* A bank client (client/client.cpp): it sends the requests of its queue   *)
(* one after the other, each when the previous one is answered, and starts *)
(* a thread per request that sends it again while no answer has come.      *)
(***************************************************************************)
EXTENDS Server

CONSTANTS
    resend_times,  \* resend_times[c]: how often a request is sent again
    whether_resend_newhead,  \* whether_resend_newhead[c]: the switch of resending
    Leftovers      \* what the uninitialised transfer fields of a resend may hold

VARIABLES
    started,          \* main has slept its second and sent the first request
    head_port, tail_port,
    next_req,         \* how many requests have left req_que
    recv_table,       \* the sent_ids some reply has come for
    last_rec_id,      \* the number of replies received
    my_resend_time,   \* my_resend_time[c][k]: resends of request k so far
    log               \* the replies in the order the log file names them

clientState == <<started, head_port, tail_port, next_req, recv_table,
                 last_rec_id, my_resend_time, log>>

ASSUME ClientAssumption ==
    /\ resend_times \in [Clients -> Nat]
    /\ whether_resend_newhead \in [Clients -> BOOLEAN]
    /\ Leftovers \subseteq [dest_bank_id : Banks \cup {NoBank},
                            dest_account_num : Accounts,
                            source_bank_id : Banks \cup {NoBank}]

Queue(c) == Workload[c]

\* Queries go to the tail, everything else to the head.
PortFor(c, q) == IF q.type = "getBalance" THEN tail_port[c] ELSE head_port[c]

SendTo(port, q) == Deliver(to_server, {Mail("REQUEST", port, q)})

\* A variant of send_request that pops the queue even when it is empty.
SendRequestFromEmpty(c, received) ==
    IF received = next_req[c]
    THEN /\ next_req' = [next_req EXCEPT ![c] = @ + 1]
         /\ to_server' = IF next_req[c] = Len(Queue(c)) THEN to_server
                         ELSE LET q == Queue(c)[next_req[c] + 1]
                              IN  SendTo(PortFor(c, q), q)
    ELSE UNCHANGED <<next_req, to_server>>

(* send_request, called with `received` replies in: the next request leaves *)
(* the queue only when the replies received are as many as its forerunners. *)
SendRequest(c, received) ==
    IF next_req[c] < Len(Queue(c)) /\ received = next_req[c]
    THEN LET q == Queue(c)[next_req[c] + 1]
         IN  /\ next_req' = [next_req EXCEPT ![c] = @ + 1]
             /\ to_server' = SendTo(PortFor(c, q), q)
    ELSE UNCHANGED <<next_req, to_server>>

(* main: one second after the login.  The master is taken to have answered  *)
(* by then.                                                                 *)
StartClient(c) ==
    /\ ~started[c]
    /\ head_port[c] # NoServer
    /\ started' = [started EXCEPT ![c] = TRUE]
    /\ SendRequest(c, last_rec_id[c])
    /\ UNCHANGED <<serverState, to_client, head_port, tail_port, recv_table,
                   last_rec_id, my_resend_time, log>>

\* recv_msg, SER_RPY: every reply counts, the answer to a resend included.
RecvReply(c) ==
    \E m \in DOMAIN to_client :
      /\ m.to = c /\ m.op = "SER_RPY"
      /\ recv_table' = [recv_table EXCEPT ![c] = @ \cup {m.sent_id}]
      /\ last_rec_id' = [last_rec_id EXCEPT ![c] = @ + 1]
      /\ log' = [log EXCEPT ![c] = Append(@, m)]
      /\ SendRequest(c, last_rec_id[c] + 1)
      /\ to_client' = Take(to_client, m)
    /\ UNCHANGED <<serverState, started, head_port, tail_port, my_resend_time>>

\* recv_msg, SET_HEAD_TAIL: the master names the ends of the chain.
RecvSetHeadTail(c) ==
    \E m \in DOMAIN to_client :
      /\ m.to = c /\ m.op = "SET_HEAD_TAIL"
      /\ head_port' = IF m.bank_id = BankOf[c]
                      THEN [head_port EXCEPT ![c] = m.head_port] ELSE head_port
      /\ tail_port' = IF m.bank_id = BankOf[c]
                      THEN [tail_port EXCEPT ![c] = m.tail_port] ELSE tail_port
      /\ to_client' = Take(to_client, m)
    /\ UNCHANGED <<serverState, to_server, started, next_req, recv_table,
                   last_rec_id, my_resend_time, log>>

(* check_receive, the thread of request k.  It works on a copy of the       *)
(* request in which the three transfer fields were never assigned.  A       *)
(* request without a type uses up its resends but sends nothing.            *)
CheckReceive(c, k) ==
    /\ k <= next_req[c]
    /\ whether_resend_newhead[c]
    /\ k \notin recv_table[c]
    /\ my_resend_time[c][k] < resend_times[c]
    /\ last_rec_id[c] = k - 1
    /\ my_resend_time' = [my_resend_time EXCEPT ![c][k] = @ + 1]
    /\ \E g \in Leftovers :
          LET q == [Queue(c)[k] EXCEPT !.req_seq = 0,
                                       !.dest_bank_id = g.dest_bank_id,
                                       !.dest_account_num = g.dest_account_num,
                                       !.source_bank_id = g.source_bank_id]
          IN  to_server' = IF q.type = "" THEN to_server
                                          ELSE SendTo(PortFor(c, q), q)
    /\ UNCHANGED <<serverState, to_client, started, head_port, tail_port, next_req,
                   recv_table, last_rec_id, log>>

--------------------------------------------------------------------------------
SetHeadTails == [op : {"SET_HEAD_TAIL"}, to : Clients, bank_id : Banks,
                 head_port : Servers, tail_port : Servers]

ClientTypeOK ==
    /\ started \in [Clients -> BOOLEAN]
    /\ head_port \in [Clients -> Servers \cup {NoServer}]
    /\ tail_port \in [Clients -> Servers \cup {NoServer}]
    /\ next_req \in [Clients -> Nat]
    /\ \A c \in Clients : next_req[c] <= Len(Queue(c))
    /\ recv_table \in [Clients -> SUBSET Nat]
    /\ last_rec_id \in [Clients -> Nat]
    /\ DOMAIN my_resend_time = Clients
    /\ \A c \in Clients : my_resend_time[c] \in [1 .. Len(Queue(c)) -> Nat]
    /\ log \in [Clients -> Seq(Reply)]
    /\ DOMAIN to_client \subseteq Reply \cup SetHeadTails

================================================================================
