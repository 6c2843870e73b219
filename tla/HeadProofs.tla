-------------------------------- MODULE HeadProofs --------------------------------
(***************************************************************************)
(* The two promises of a head, for every chain, every queue and any        *)
(* resending and loss: it executes an id once, and gives it one verdict.   *)
(*                                                                         *)
(* Neither is inductive.  A resend takes its status from `sent`, by the    *)
(* number and the port of its sender, while histories are searched by id:  *)
(* so the invariant says that number and port determine the id, and that   *)
(* a refusal kept in `sent` is in the history of refusals.  And a head     *)
(* must have no other source of updates: nothing is ever forwarded to it.  *)
(***************************************************************************)
EXTENDS ChainProofs

\* The requests that carry the id their client's queue gives their number.
OwnRequests ==
    {q \in Request : /\ q.sent_id \in 1 .. Len(Queue(q.client_port))
                     /\ q.req_id = Queue(q.client_port)[q.sent_id].req_id}

OwnForwards == [op : {"FORWARD"}, req : OwnRequests]

\* Every copy of a request, wherever it is, carries the id it had in the queue.
IdsKept ==
    /\ sent \in [Servers -> Seq(OwnRequests)]
    /\ from_pre \in [Servers -> Seq(OwnForwards)]
    /\ \A m \in DOMAIN to_server : m.op = "REQUEST" => m.req \in OwnRequests

\* Nobody forwards to a head.
HeadsReadNoStream ==
    \A s \in Servers : Heads(s) => from_pre[s] = <<>>

\* A refused request that a head still has in `sent` is in its history.
RefusalsRecorded ==
    \A s \in Servers : Heads(s) =>
      \A i \in 1 .. Len(sent[s]) : sent[s][i].status = "InsufficientFunds" =>
         \E j \in 1 .. Len(insuf_funds_trans[s]) :
            insuf_funds_trans[s][j].req_id = sent[s][i].req_id

\* What does not depend on how rec_client handles an update.
HeadFrame ==
    /\ TypeOK
    /\ TopologyInit
    /\ IdsKept
    /\ HeadsReadNoStream

HeadInvariant ==
    /\ HeadFrame
    /\ RefusalsRecorded
    /\ HeadExecutesOnce
    /\ HeadHasOneVerdict

--------------------------------------------------------------------------------
\* The topology.

\* No handler changes the topology.
LEMMA TopologyFixed ==
    ASSUME [Next]_vars
    PROVE  UNCHANGED topology
<1>1. ASSUME NEW s \in Servers, ReceiveStep(s) PROVE UNCHANGED topology
  <2>1. CASE RecUpdate(s)
      BY <2>1 DEF RecUpdate
  <2>2. CASE RecQuery(s)
      BY <2>2 DEF RecQuery
  <2>3. CASE RecUnknown(s)
      BY <2>3 DEF RecUnknown, serverState
  <2>4. CASE RecForward(s)
      BY <2>4 DEF RecForward
  <2>5. CASE RecAck(s)
      BY <2>5 DEF RecAck
  <2>6. CASE RecOtherBank(s)
      BY <2>6 DEF RecOtherBank
  <2> QED
      BY <1>1, <2>1, <2>2, <2>3, <2>4, <2>5, <2>6 DEF ReceiveStep, RecClient
<1>2. ASSUME NEW c \in Clients, ClientStep(c) PROVE UNCHANGED serverState
    BY <1>2 DEF ClientStep, StartClient, RecvMsg, RecvReply, RecvSetHeadTail, CheckReceive
<1>3. CASE Lose
    BY <1>3 DEF Lose, serverState
<1>4. CASE UNCHANGED vars
    BY <1>4 DEF vars, serverState
<1> QED
    BY <1>1, <1>2, <1>3, <1>4 DEF Next, ServerStep, serverState

\* A server that has a predecessor is not a head.
LEMMA NextIsNoHead ==
    ASSUME TopologyInit, NEW s \in Servers, next_fd[s] # NoServer
    PROVE  ~Heads(next_fd[s])
<1>1. ~IsLast(s) /\ next_fd[s] = Next1(s)
    BY DEF TopologyInit
<1>2. Next1(s) \in Servers /\ ~IsFirst(Next1(s))
    BY <1>1, ChainEnds
<1>3. my_type[Next1(s)] = Role(Next1(s))
    BY <1>2 DEF TopologyInit
<1> QED
    BY <1>1, <1>2, <1>3 DEF Heads, Role

--------------------------------------------------------------------------------
\* Who has forwarded what.

\* A message sent to no head leaves the streams of the heads as they were.
LEMMA PushToNoHead ==
    ASSUME NEW streams, DOMAIN streams = Servers, NEW message, NEW s \in Servers,
           TopologyInit, NEW h \in Servers, Heads(h)
    PROVE  Push(streams, next_fd[s], message)[h] = streams[h]
<1>1. CASE next_fd[s] = NoServer
    BY <1>1 DEF Push
<1>2. CASE next_fd[s] # NoServer
  <2>1. next_fd[s] # h
      BY <1>2, NextIsNoHead
  <2> QED
      BY <1>2, <2>1 DEF Push
<1> QED
    BY <1>1, <1>2

\* Nobody forwards to a head, in any step.
LEMMA HeadsReadNoStreamStep ==
    ASSUME HeadFrame, [Next]_vars
    PROVE  HeadsReadNoStream'
<1> SUFFICES ASSUME NEW h \in Servers, Heads(h)' PROVE from_pre'[h] = <<>>
    BY DEF HeadsReadNoStream
<1>1. /\ TopologyInit /\ Heads(h) /\ from_pre[h] = <<>>
      /\ DOMAIN from_pre = Servers
    BY TopologyFixed DEF HeadFrame, HeadsReadNoStream, Heads, topology,
                         TypeOK, ServerTypeOK
<1>2. ASSUME NEW s \in Servers, RecUpdate(s) PROVE from_pre'[h] = <<>>
  <2>1. PICK m \in DOMAIN to_server : RecUpdate(s)!(m)
      BY <1>2 DEF RecUpdate
  <2>2. from_pre' \in {from_pre, Forward(from_pre, s, Judged(s, m.req))}
      BY <2>1
  <2>3. Forward(from_pre, s, Judged(s, m.req))[h] = from_pre[h]
      BY <1>1, PushToNoHead DEF Forward
  <2> QED
      BY <1>1, <2>2, <2>3
<1>3. ASSUME NEW s \in Servers, RecForward(s) PROVE from_pre'[h] = <<>>
  <2> DEFINE rest == Pop(from_pre, s)
             q == Head(from_pre[s]).req
  <2>1. from_pre' \in {rest, Forward(rest, s, q)}
      BY <1>3 DEF RecForward
  <2>2. h # s
      BY <1>1, <1>3 DEF RecForward
  <2>3. rest[h] = from_pre[h] /\ DOMAIN rest = Servers
      BY <1>1, <2>2 DEF Pop
  <2> HIDE DEF rest, q
  <2>4. Forward(rest, s, q)[h] = rest[h]
      BY <1>1, <2>3, PushToNoHead DEF Forward
  <2> QED
      BY <1>1, <2>1, <2>3, <2>4
<1>4. ASSUME NEW s \in Servers, RecQuery(s) \/ RecUnknown(s) \/ RecAck(s) \/ RecOtherBank(s)
      PROVE  from_pre' = from_pre
    BY <1>4 DEF RecQuery, RecUnknown, RecAck, RecOtherBank, serverState
<1>5. ASSUME NEW c \in Clients, ClientStep(c) PROVE from_pre' = from_pre
    BY <1>5 DEF ClientStep, StartClient, RecvMsg, RecvReply, RecvSetHeadTail,
                CheckReceive, serverState
<1>6. CASE Lose \/ UNCHANGED vars
    BY <1>1, <1>6 DEF Lose, vars, serverState
<1> QED
    BY <1>1, <1>2, <1>3, <1>4, <1>5, <1>6 DEF Next, ServerStep, ReceiveStep, RecClient

--------------------------------------------------------------------------------
\* Ids.

\* delete_sent leaves requests with ids of their own.
LEMMA DeleteSentOwn ==
    ASSUME NEW list \in Seq(OwnRequests), NEW q
    PROVE  DeleteSent(list, q) \in Seq(OwnRequests)
<1>1. list \in Seq(Request)
    BY DEF OwnRequests
<1> DEFINE left == DeleteSent(list, q)
<1>2. /\ left \in Seq(Request)
      /\ \A i \in 1 .. Len(left) : \E j \in 1 .. Len(list) : left[i] = list[j]
    BY <1>1, DeleteSentProperty
<1> HIDE DEF left
<1>3. \A j \in 1 .. Len(list) : list[j] \in OwnRequests
    OBVIOUS
<1>4. \A i \in 1 .. Len(left) : left[i] \in OwnRequests
    BY <1>2, <1>3
<1>5. left \in Seq(OwnRequests)
    BY <1>2, <1>4, SeqDef
<1> QED
    BY <1>5 DEF left

\* A request that a head has judged carries the id it came with.
LEMMA JudgedOwn ==
    ASSUME ServerTypeOK, NEW s \in Servers, NEW q \in OwnRequests
    PROVE  /\ Judged(s, q) \in OwnRequests
           /\ Judged(s, q).req_id = q.req_id
           /\ Judged(s, q).type = q.type
           /\ Judged(s, q).status = Judge(s, q).status
<1>1. q \in Request
    BY DEF OwnRequests
<1>2. Judged(s, q) \in Request
    BY <1>1, JudgedType
<1>3. /\ Judged(s, q).client_port = q.client_port
      /\ Judged(s, q).sent_id = q.sent_id
      /\ Judged(s, q).req_id = q.req_id
      /\ Judged(s, q).type = q.type
      /\ Judged(s, q).status = Judge(s, q).status
    BY <1>1 DEF Judged, Request
<1> QED
    BY <1>2, <1>3 DEF OwnRequests

\* A handler keeps the ids it moves.
LEMMA RecUpdateIds ==
    ASSUME HeadFrame, NEW s \in Servers, RecUpdate(s)
    PROVE  IdsKept'
<1>1. PICK m \in DOMAIN to_server : RecUpdate(s)!(m)
    BY DEF RecUpdate
<1> DEFINE r == Judged(s, m.req)
           listed == IF Heads(s) /\ ~InSent(sent[s], m.req)
                     THEN Append(sent[s], r) ELSE sent[s]
<1>2. /\ sent \in [Servers -> Seq(OwnRequests)]
      /\ from_pre \in [Servers -> Seq(OwnForwards)]
      /\ m.req \in OwnRequests
      /\ r \in OwnRequests
      /\ next_fd[s] \in Servers \cup {NoServer}
    BY <1>1, JudgedOwn DEF HeadFrame, IdsKept, TypeOK, ServerTypeOK, TopologyTypeOK
<1>3. /\ listed \in Seq(OwnRequests)
      /\ DeleteSent(listed, r) \in Seq(OwnRequests)
  <2>1. listed \in Seq(OwnRequests)
      BY <1>2
  <2> QED
      BY <2>1, DeleteSentOwn
<1> HIDE DEF r, listed
<1>4. sent' \in [Servers -> Seq(OwnRequests)]
    BY <1>1, <1>2, <1>3 DEF r, listed
<1>5. from_pre' \in [Servers -> Seq(OwnForwards)]
  <2>1. from_pre' \in {from_pre, Push(from_pre, next_fd[s], [op |-> "FORWARD", req |-> r])}
      BY <1>1 DEF Forward, r
  <2>2. [op |-> "FORWARD", req |-> r] \in OwnForwards
      BY <1>2 DEF OwnForwards
  <2>3. Push(from_pre, next_fd[s], [op |-> "FORWARD", req |-> r])
           \in [Servers -> Seq(OwnForwards)]
      BY <1>2, <2>2, PushType
  <2> QED
      BY <1>2, <2>1, <2>3
<1>6. \A x \in DOMAIN to_server' : x.op = "REQUEST" => x.req \in OwnRequests
  <2>1. PICK mails \in {ShipTransfer(s, r), AckTransfer(s, r), {}} :
          to_server' = Deliver(Take(to_server, m), mails)
      BY <1>1, Zenon DEF r
  <2>2. \A x \in mails : x.req = r
      BY <2>1 DEF ShipTransfer, AckTransfer, Mail
  <2>3. DOMAIN to_server' \subseteq DOMAIN to_server \cup mails
      BY <2>1, TakeProperty, DeliverProperty
  <2> QED
      BY <1>2, <2>2, <2>3 DEF HeadFrame, IdsKept
<1> QED
    BY <1>4, <1>5, <1>6 DEF IdsKept

\* A server within the chain passes on what it was sent, with its number and id.
LEMMA RecForwardIds ==
    ASSUME HeadFrame, NEW s \in Servers, RecForward(s)
    PROVE  IdsKept'
<1> DEFINE q == Head(from_pre[s]).req
           known == InSent(sent[s], q)
           tail == my_type[s] = "TAIL"
           r == IF tail /\ known THEN [q EXCEPT !.status = PreSendStatus(sent[s], q)]
                                 ELSE q
           listed == IF (my_type[s] = "INTER" \/ tail) /\ ~known
                     THEN Append(sent[s], q) ELSE sent[s]
           rest == Pop(from_pre, s)
<1>1. /\ sent \in [Servers -> Seq(OwnRequests)]
      /\ sent[s] \in Seq(Request)
      /\ from_pre \in [Servers -> Seq(OwnForwards)]
      /\ next_fd[s] \in Servers \cup {NoServer}
    BY DEF HeadFrame, IdsKept, TypeOK, ServerTypeOK, TopologyTypeOK
<1>2. q \in OwnRequests /\ rest \in [Servers -> Seq(OwnForwards)]
  <2>1. Head(from_pre[s]) \in OwnForwards /\ rest \in [Servers -> Seq(OwnForwards)]
      BY <1>1, PopType DEF RecForward
  <2> QED
      BY <2>1 DEF OwnForwards
<1>3. r \in OwnRequests
  <2>1. PreSendStatus(sent[s], q) \in Statuses
      BY <1>1, PreSendStatusType
  <2>2. [q EXCEPT !.status = PreSendStatus(sent[s], q)] \in OwnRequests
      BY <1>2, <2>1 DEF OwnRequests, Request
  <2> QED
      BY <1>2, <2>2
<1>4. /\ listed \in Seq(OwnRequests)
      /\ DeleteSent(listed, r) \in Seq(OwnRequests)
  <2>1. listed \in Seq(OwnRequests)
      BY <1>1, <1>2
  <2> QED
      BY <2>1, DeleteSentOwn
<1> HIDE DEF q, r, listed, rest
<1>5. sent' \in [Servers -> Seq(OwnRequests)]
  <2>1. PICK list \in {listed, DeleteSent(listed, r)} :
          sent' = [sent EXCEPT ![s] = list]
      BY Zenon DEF RecForward, q, r, listed
  <2> QED
      BY <1>1, <1>4, <2>1
<1>6. from_pre' \in [Servers -> Seq(OwnForwards)]
  <2>1. from_pre' \in {rest, Push(rest, next_fd[s], [op |-> "FORWARD", req |-> q])}
      BY DEF RecForward, Forward, q, rest
  <2>2. [op |-> "FORWARD", req |-> q] \in OwnForwards
      BY <1>2 DEF OwnForwards
  <2>3. Push(rest, next_fd[s], [op |-> "FORWARD", req |-> q])
           \in [Servers -> Seq(OwnForwards)]
      BY <1>1, <1>2, <2>2, PushType
  <2> QED
      BY <1>2, <2>1, <2>3
<1>7. \A x \in DOMAIN to_server' : x.op = "REQUEST" => x.req \in OwnRequests
  <2>1. PICK mails \in {ShipTransfer(s, r), {}} : to_server' = Deliver(to_server, mails)
      BY Zenon DEF RecForward, q, r
  <2>2. \A x \in mails : x.req = r
      BY <2>1 DEF ShipTransfer, Mail
  <2>3. DOMAIN to_server' \subseteq DOMAIN to_server \cup mails
      BY <2>1, DeliverProperty
  <2> QED
      BY <1>3, <2>2, <2>3 DEF HeadFrame, IdsKept
<1> QED
    BY <1>5, <1>6, <1>7 DEF IdsKept

\* A client sends only what is in its queue, a resend's transfer fields aside.
LEMMA ClientSendsOwn ==
    ASSUME TypeOK, NEW c \in Clients, ClientStep(c)
    PROVE  \A x \in DOMAIN to_server' :
              x \in DOMAIN to_server \/ x.req \in OwnRequests
<1>1. ASSUME NEW k \in 1 .. Len(Queue(c))
      PROVE  Queue(c)[k] \in OwnRequests
  <2>1. /\ Queue(c)[k] \in Request
        /\ Queue(c)[k].sent_id = k
        /\ Queue(c)[k].client_port = c
      BY WorkloadAssumption DEF Queue
  <2> HIDE DEF Queue
  <2> QED
      BY <2>1 DEF OwnRequests
<1>2. ASSUME NEW q, NEW port, to_server' = SendTo(port, q)
      PROVE  \A x \in DOMAIN to_server' : x \in DOMAIN to_server \/ x.req = q
  <2>1. DOMAIN to_server' \subseteq DOMAIN to_server \cup {Mail("REQUEST", port, q)}
      BY <1>2, DeliverProperty DEF SendTo
  <2> QED
      BY <2>1 DEF Mail
<1>3. ASSUME NEW received, SendRequest(c, received)
      PROVE  \A x \in DOMAIN to_server' :
                x \in DOMAIN to_server \/ x.req \in OwnRequests
  <2>1. CASE next_req[c] < Len(Queue(c)) /\ received = next_req[c]
    <3>1. next_req[c] + 1 \in 1 .. Len(Queue(c))
        BY <2>1, WorkloadAssumption DEF TypeOK, ClientTypeOK, Queue
    <3> DEFINE q == Queue(c)[next_req[c] + 1]
    <3>2. to_server' = SendTo(PortFor(c, q), q)
        BY <1>3, <2>1 DEF SendRequest
    <3>3. q \in OwnRequests
        BY <1>1, <3>1
    <3> HIDE DEF q
    <3> QED
        BY <1>2, <3>2, <3>3
  <2>2. CASE ~ (next_req[c] < Len(Queue(c)) /\ received = next_req[c])
      BY <1>3, <2>2 DEF SendRequest
  <2> QED
      BY <2>1, <2>2
<1>4. ASSUME NEW k \in 1 .. Len(Queue(c)), CheckReceive(c, k)
      PROVE  \A x \in DOMAIN to_server' :
                x \in DOMAIN to_server \/ x.req \in OwnRequests
  <2>1. PICK g \in Leftovers : CheckReceive(c, k)!7!(g)
      BY <1>4 DEF CheckReceive
  <2> DEFINE q == [Queue(c)[k] EXCEPT !.req_seq = 0,
                                      !.dest_bank_id = g.dest_bank_id,
                                      !.dest_account_num = g.dest_account_num,
                                      !.source_bank_id = g.source_bank_id]
  <2>2. q \in OwnRequests
    <3>1. Queue(c)[k] \in OwnRequests
        BY <1>1
    <3> HIDE DEF Queue
    <3> QED
        BY <3>1, ClientAssumption DEF OwnRequests, Request
  <2>3. to_server' \in {to_server, SendTo(PortFor(c, q), q)}
      BY <2>1
  <2> HIDE DEF q
  <2> QED
      BY <1>2, <2>2, <2>3
<1>5. ASSUME RecvSetHeadTail(c) PROVE to_server' = to_server
    BY <1>5 DEF RecvSetHeadTail
<1> QED
    BY <1>3, <1>4, <1>5 DEF ClientStep, StartClient, RecvMsg, RecvReply

\* In every step the ids are kept.
LEMMA IdsKeptStep ==
    ASSUME HeadFrame, [Next]_vars
    PROVE  IdsKept'
<1>1. /\ sent \in [Servers -> Seq(OwnRequests)]
      /\ from_pre \in [Servers -> Seq(OwnForwards)]
      /\ \A m \in DOMAIN to_server : m.op = "REQUEST" => m.req \in OwnRequests
    BY DEF HeadFrame, IdsKept
<1>2. ASSUME NEW s \in Servers, NEW q,
             sent' = [sent EXCEPT ![s] = DeleteSent(sent[s], q)]
      PROVE  sent' \in [Servers -> Seq(OwnRequests)]
  <2>1. DeleteSent(sent[s], q) \in Seq(OwnRequests)
      BY <1>1, DeleteSentOwn
  <2> QED
      BY <1>1, <1>2, <2>1
<1>3. ASSUME NEW s \in Servers, RecQuery(s) \/ RecUnknown(s) \/ RecOtherBank(s)
      PROVE  IdsKept'
  <2>1. DOMAIN to_server' \subseteq DOMAIN to_server
      BY <1>3, TakeProperty DEF RecQuery, RecUnknown, RecOtherBank
  <2>2. from_pre' = from_pre
      BY <1>3 DEF RecQuery, RecUnknown, RecOtherBank, serverState
  <2>3. \/ sent' = sent
        \/ \E q : sent' = [sent EXCEPT ![s] = DeleteSent(sent[s], q)]
        \/ sent' = [sent EXCEPT ![s] = sent[s]]
    <3>1. CASE RecQuery(s)
      <4>1. PICK m \in DOMAIN to_server : RecQuery(s)!(m)
          BY <3>1 DEF RecQuery
      <4> QED
          BY <4>1
    <3>2. CASE RecOtherBank(s)
        BY <3>2 DEF RecOtherBank
    <3>3. CASE RecUnknown(s)
        BY <3>3 DEF RecUnknown, serverState
    <3> QED
        BY <1>3, <3>1, <3>2, <3>3
  <2>4. sent' \in [Servers -> Seq(OwnRequests)]
      BY <1>1, <1>2, <2>3
  <2> QED
      BY <1>1, <2>1, <2>2, <2>4 DEF IdsKept
<1>4. ASSUME NEW s \in Servers, RecAck(s)
      PROVE  IdsKept'
  <2> DEFINE q == Head(from_next[s])
  <2>1. PICK mails \in {AckTransfer(s, q), {}} : to_server' = Deliver(to_server, mails)
      BY <1>4, Zenon DEF RecAck
  <2>2. /\ sent' = [sent EXCEPT ![s] = DeleteSent(sent[s], q)]
        /\ from_pre' = from_pre
      BY <1>4 DEF RecAck
  <2>3. \A x \in mails : x.op = "TRANS_ACK"
      BY <2>1 DEF AckTransfer, Mail
  <2>4. DOMAIN to_server' \subseteq DOMAIN to_server \cup mails
      BY <2>1, DeliverProperty
  <2>5. sent' \in [Servers -> Seq(OwnRequests)]
      BY <1>2, <2>2
  <2> HIDE DEF q
  <2> QED
      BY <1>1, <2>2, <2>3, <2>4, <2>5 DEF IdsKept
<1>5. ASSUME NEW c \in Clients, ClientStep(c)
      PROVE  IdsKept'
  <2>1. UNCHANGED serverState
      BY <1>5 DEF ClientStep, StartClient, RecvMsg, RecvReply, RecvSetHeadTail, CheckReceive
  <2>2. \A x \in DOMAIN to_server' :
           x \in DOMAIN to_server \/ x.req \in OwnRequests
      BY <1>5, ClientSendsOwn DEF HeadFrame
  <2> QED
      BY <1>1, <2>1, <2>2 DEF IdsKept, serverState
<1>6. CASE Lose
  <2>1. DOMAIN to_server' \subseteq DOMAIN to_server /\ UNCHANGED serverState
      BY <1>6, TakeProperty DEF Lose
  <2> QED
      BY <1>1, <2>1 DEF IdsKept, serverState
<1>7. CASE UNCHANGED vars
    BY <1>1, <1>7 DEF vars, serverState, network, IdsKept
<1> QED
    BY <1>3, <1>4, <1>5, <1>6, <1>7, RecUpdateIds, RecForwardIds
    DEF Next, ServerStep, ReceiveStep, RecClient

--------------------------------------------------------------------------------
\* The histories of a head.

\* A history that grows by a request has its id and those it had.
LEMMA AppendId ==
    ASSUME NEW P \in Seq(Request), NEW q \in Request
    PROVE  \A id : HasId(Append(P, q), id) <=> HasId(P, id) \/ id = q.req_id
<1>1. /\ Len(Append(P, q)) = Len(P) + 1
      /\ \A i \in 1 .. Len(P) : Append(P, q)[i] = P[i]
      /\ Append(P, q)[Len(P) + 1] = q
      /\ Len(P) \in Nat
    OBVIOUS
<1>2. \A i : i \in 1 .. Len(P) + 1 <=> i \in 1 .. Len(P) \/ i = Len(P) + 1
    BY <1>1
<1> QED
    BY <1>1, <1>2 DEF HasId

\* So does one that records an execution.
LEMMA RecordId ==
    ASSUME NEW P \in Seq(Request), NEW q \in Request
    PROVE  \A id : HasId(Record(P, q), id) <=> HasId(P, id) \/ id = q.req_id
<1>1. /\ [q EXCEPT !.status = "Processed"] \in Request
      /\ [q EXCEPT !.status = "Processed"].req_id = q.req_id
    BY DEF Request, Statuses
<1> QED
    BY <1>1, AppendId DEF Record

\* A resend that is refused has been refused before, under the same id.
LEMMA RefusedResend ==
    ASSUME HeadFrame, RefusalsRecorded, NEW s \in Servers, Heads(s),
           NEW q \in OwnRequests, InSent(sent[s], q), PreSendStatus(sent[s], q) = "InsufficientFunds"
    PROVE  HasId(insuf_funds_trans[s], q.req_id)
<1> DEFINE i == FirstSent(sent[s], q)
<1>1. sent[s] \in Seq(Request) /\ sent[s] \in Seq(OwnRequests)
    BY DEF HeadFrame, TypeOK, ServerTypeOK, IdsKept
<1>2. i \in 1 .. Len(sent[s]) /\ SameSent(q, sent[s][i])
    BY <1>1, FirstSentProperty DEF InSent
<1>3. sent[s][i].status = "InsufficientFunds"
    BY DEF PreSendStatus
<1>4. sent[s][i].req_id = q.req_id
  <2>1. sent[s][i] \in OwnRequests
      BY <1>1, <1>2
  <2> HIDE DEF i
  <2> QED
      BY <1>2, <2>1 DEF OwnRequests, SameSent
<1> HIDE DEF i
<1> QED
    BY <1>2, <1>3, <1>4 DEF RefusalsRecorded, HasId

\* What an update does to the histories of a head: an execution is new under
\* its id, and a refusal is new, or repeats a refusal.
LEMMA RecUpdateAtHead ==
    ASSUME HeadFrame, RefusalsRecorded, NEW s \in Servers, Heads(s), RecUpdate(s)
    PROVE  \E r \in OwnRequests :
       /\ \/ processed_trans'[s] = processed_trans[s]
          \/ /\ r.status = "Need"
             /\ processed_trans'[s] = Record(processed_trans[s], r)
             /\ ~HasId(processed_trans[s], r.req_id)
             /\ ~HasId(insuf_funds_trans[s], r.req_id)
       /\ \/ insuf_funds_trans'[s] = insuf_funds_trans[s]
          \/ /\ r.status = "InsufficientFunds"
             /\ insuf_funds_trans'[s] = Append(insuf_funds_trans[s], r)
             /\ \/ ~HasId(processed_trans[s], r.req_id)
                \/ HasId(insuf_funds_trans[s], r.req_id)
       /\ \A i \in 1 .. Len(sent'[s]) :
             \/ \E j \in 1 .. Len(sent[s]) : sent'[s][i] = sent[s][j]
             \/ /\ sent'[s][i] = r
                /\ r.status = "InsufficientFunds" =>
                     insuf_funds_trans'[s] = Append(insuf_funds_trans[s], r)
<1>1. PICK m \in DOMAIN to_server : RecUpdate(s)!(m)
    BY DEF RecUpdate
<1> DEFINE r == Judged(s, m.req)
           resend == InSent(sent[s], m.req)
           listed == IF ~resend THEN Append(sent[s], r) ELSE sent[s]
           processed == processed_trans[s]
           insuf == insuf_funds_trans[s]
<1>2. /\ m.req \in OwnRequests
      /\ ServerTypeOK
      /\ processed \in Seq(Request) /\ insuf \in Seq(Request)
      /\ sent[s] \in Seq(OwnRequests)
      /\ processed_trans \in [Servers -> Seq(Request)]
      /\ insuf_funds_trans \in [Servers -> Seq(Request)]
      /\ sent \in [Servers -> Seq(Request)]
    BY <1>1 DEF HeadFrame, IdsKept, TypeOK, ServerTypeOK
<1>3. /\ r \in OwnRequests
      /\ r.req_id = m.req.req_id
      /\ r.type = m.req.type
      /\ r.status = Judge(s, m.req).status
    BY <1>2, JudgedOwn
<1>4. /\ processed_trans' = IF ~resend /\ r.status = "Need"
                            THEN [processed_trans EXCEPT ![s] = Record(processed, r)]
                            ELSE processed_trans
      /\ insuf_funds_trans' = IF r.type # "deposit" /\ r.status = "InsufficientFunds"
                              THEN [insuf_funds_trans EXCEPT ![s] = Append(insuf, r)]
                              ELSE insuf_funds_trans
      /\ \/ sent' = [sent EXCEPT ![s] = listed]
         \/ sent' = [sent EXCEPT ![s] = DeleteSent(listed, r)]
    BY <1>1
<1> HIDE DEF r
<1>5. ASSUME ~resend, r.status = "Need"
      PROVE  ~HasId(processed, r.req_id) /\ ~HasId(insuf, r.req_id)
  <2>1. ProcessUpdate(Bank(s), balance_map[s], CheckSameReq(processed, insuf, m.req),
                      m.req).status = "Need"
      BY <1>3, <1>5 DEF Judge
  <2> QED
      BY <1>2, <1>3, <2>1, NeedIsNew
<1>6. ASSUME ~resend, r.status = "InsufficientFunds"
      PROVE  /\ r.type # "deposit"
             /\ ~HasId(processed, r.req_id) \/ HasId(insuf, r.req_id)
  <2>1. ProcessUpdate(Bank(s), balance_map[s], CheckSameReq(processed, insuf, m.req),
                      m.req).status = "InsufficientFunds"
      BY <1>3, <1>6 DEF Judge
  <2> QED
      BY <1>2, <1>3, <2>1, RefusalIsNewOrOld
<1>7. ASSUME resend, r.status = "InsufficientFunds"
      PROVE  HasId(insuf, r.req_id)
  <2>1. PreSendStatus(sent[s], m.req) = "InsufficientFunds"
      BY <1>3, <1>7 DEF Judge
  <2> QED
      BY <1>2, <1>3, <1>7, <2>1, RefusedResend
<1>8. \A i \in 1 .. Len(sent'[s]) : \E j \in 1 .. Len(listed) : sent'[s][i] = listed[j]
  <2>1. listed \in Seq(Request)
    <3>1. r \in Request /\ sent[s] \in Seq(Request)
        BY <1>2, <1>3 DEF OwnRequests
    <3> QED
        BY <3>1
  <2>2. sent'[s] \in {listed, DeleteSent(listed, r)}
      BY <1>2, <1>4
  <2> HIDE DEF listed
  <2>3. \A i \in 1 .. Len(DeleteSent(listed, r)) :
           \E j \in 1 .. Len(listed) : DeleteSent(listed, r)[i] = listed[j]
      BY <2>1, DeleteSentProperty, SMTT(30)
  <2> QED
      BY <2>2, <2>3
<1>9. \A j \in 1 .. Len(listed) :
         \/ \E k \in 1 .. Len(sent[s]) : listed[j] = sent[s][k]
         \/ ~resend /\ listed[j] = r
    BY <1>2, <1>3
<1>10. /\ \/ processed_trans'[s] = processed
          \/ /\ ~resend /\ r.status = "Need"
             /\ processed_trans'[s] = Record(processed, r)
       /\ \/ insuf_funds_trans'[s] = insuf
          \/ /\ r.status = "InsufficientFunds"
             /\ insuf_funds_trans'[s] = Append(insuf, r)
       /\ r.type # "deposit" /\ r.status = "InsufficientFunds" =>
             insuf_funds_trans'[s] = Append(insuf, r)
    BY <1>2, <1>4
<1> HIDE DEF listed, resend
<1>11. \A i \in 1 .. Len(sent'[s]) :
          \/ \E j \in 1 .. Len(sent[s]) : sent'[s][i] = sent[s][j]
          \/ /\ sent'[s][i] = r
             /\ r.status = "InsufficientFunds" =>
                  insuf_funds_trans'[s] = Append(insuf, r)
    BY <1>6, <1>8, <1>9, <1>10, Zenon
<1> QED
    BY <1>3, <1>5, <1>6, <1>7, <1>10, <1>11, Zenon

\* A step that handles no update.
QuietStep ==
    \/ \E s \in Servers : \/ RecQuery(s) \/ RecUnknown(s)
                         \/ RecForward(s) \/ RecAck(s) \/ RecOtherBank(s)
    \/ \E c \in Clients : ClientStep(c)
    \/ Lose
    \/ UNCHANGED vars

\* In such a step a head keeps its histories and adds nothing to `sent`.
LEMMA QuietAtHead ==
    ASSUME HeadFrame, QuietStep, NEW h \in Servers, Heads(h)
    PROVE  /\ processed_trans'[h] = processed_trans[h]
           /\ insuf_funds_trans'[h] = insuf_funds_trans[h]
           /\ \A i \in 1 .. Len(sent'[h]) :
                 \E j \in 1 .. Len(sent[h]) : sent'[h][i] = sent[h][j]
<1> DEFINE Kept == /\ processed_trans'[h] = processed_trans[h]
                   /\ insuf_funds_trans'[h] = insuf_funds_trans[h]
                   /\ sent'[h] = sent[h] \/ \E q : sent'[h] = DeleteSent(sent[h], q)
<1>0. /\ processed_trans \in [Servers -> Seq(Request)]
      /\ insuf_funds_trans \in [Servers -> Seq(Request)]
      /\ sent \in [Servers -> Seq(Request)]
    BY DEF HeadFrame, TypeOK, ServerTypeOK
<1>1. ASSUME NEW s \in Servers, RecForward(s) PROVE Kept
  <2>1. s # h
      BY <1>1 DEF RecForward, HeadFrame, HeadsReadNoStream
  <2>2. /\ \/ processed_trans' = processed_trans
           \/ \E x : processed_trans' = [processed_trans EXCEPT ![s] = x]
        /\ \/ insuf_funds_trans' = insuf_funds_trans
           \/ \E y : insuf_funds_trans' = [insuf_funds_trans EXCEPT ![s] = y]
        /\ \E z : sent' = [sent EXCEPT ![s] = z]
      BY <1>1 DEF RecForward
  <2> QED
      BY <1>0, <2>1, <2>2
<1>2. ASSUME NEW s \in Servers, RecQuery(s) \/ RecAck(s) \/ RecOtherBank(s)
      PROVE  Kept
  <2>1. /\ processed_trans' = processed_trans
        /\ insuf_funds_trans' = insuf_funds_trans
        /\ \/ sent' = [sent EXCEPT ![s] = sent[s]]
           \/ \E q : sent' = [sent EXCEPT ![s] = DeleteSent(sent[s], q)]
    <3>1. CASE RecQuery(s)
      <4>1. PICK m \in DOMAIN to_server : RecQuery(s)!(m)
          BY <3>1 DEF RecQuery
      <4> QED
          BY <4>1
    <3>2. CASE RecAck(s)
        BY <3>2 DEF RecAck
    <3>3. CASE RecOtherBank(s)
        BY <3>3 DEF RecOtherBank
    <3> QED
        BY <1>2, <3>1, <3>2, <3>3
  <2> QED
      BY <1>0, <2>1
<1>3. ASSUME NEW s \in Servers, RecUnknown(s) PROVE Kept
    BY <1>3 DEF RecUnknown, serverState
<1>4. ASSUME NEW c \in Clients, ClientStep(c) PROVE Kept
  <2>1. UNCHANGED serverState
      BY <1>4 DEF ClientStep, StartClient, RecvMsg, RecvReply, RecvSetHeadTail, CheckReceive
  <2> QED
      BY <2>1 DEF serverState
<1>5. ASSUME Lose \/ UNCHANGED vars PROVE Kept
    BY <1>5 DEF Lose, vars, serverState
<1> HIDE DEF Kept
<1>6. Kept
    BY <1>1, <1>2, <1>3, <1>4, <1>5 DEF QuietStep
<1>7. sent[h] \in Seq(Request)
    BY <1>0
<1> QED
    BY <1>6, <1>7, DeleteSentProperty DEF Kept

\* So it does when another server handles an update.
LEMMA OtherStepsAtHead ==
    ASSUME HeadFrame, [Next]_vars, NEW h \in Servers, Heads(h), ~RecUpdate(h)
    PROVE  /\ processed_trans'[h] = processed_trans[h]
           /\ insuf_funds_trans'[h] = insuf_funds_trans[h]
           /\ \A i \in 1 .. Len(sent'[h]) :
                 \E j \in 1 .. Len(sent[h]) : sent'[h][i] = sent[h][j]
<1>1. CASE QuietStep
    BY <1>1, QuietAtHead
<1>2. CASE \E s \in Servers : RecUpdate(s)
  <2>1. PICK s \in Servers : RecUpdate(s)
      BY <1>2
  <2>2. PICK m \in DOMAIN to_server : RecUpdate(s)!(m)
      BY <2>1 DEF RecUpdate
  <2>3. s # h
      BY <2>1
  <2>4. /\ \/ processed_trans' = processed_trans
           \/ \E x : processed_trans' = [processed_trans EXCEPT ![s] = x]
        /\ \/ insuf_funds_trans' = insuf_funds_trans
           \/ \E y : insuf_funds_trans' = [insuf_funds_trans EXCEPT ![s] = y]
        /\ \E z : sent' = [sent EXCEPT ![s] = z]
      BY <2>2
  <2>5. /\ processed_trans \in [Servers -> Seq(Request)]
        /\ insuf_funds_trans \in [Servers -> Seq(Request)]
        /\ sent \in [Servers -> Seq(Request)]
      BY DEF HeadFrame, TypeOK, ServerTypeOK
  <2> QED
      BY <2>3, <2>4, <2>5
<1>3. QuietStep \/ \E s \in Servers : RecUpdate(s)
    BY DEF QuietStep, Next, ServerStep, ReceiveStep, RecClient
<1> QED
    BY <1>1, <1>2, <1>3

\* In every step the histories of a head name no id twice, and a refusal that
\* stays in `sent` is among them.
LEMMA HistoriesStep ==
    ASSUME HeadInvariant, [Next]_vars
    PROVE  RefusalsRecorded' /\ HeadExecutesOnce' /\ HeadHasOneVerdict'
<1>1. SUFFICES ASSUME NEW h \in Servers, Heads(h)'
      PROVE  /\ \A i \in 1 .. Len(sent'[h]) :
                   sent'[h][i].status = "InsufficientFunds" =>
                      HasId(insuf_funds_trans'[h], sent'[h][i].req_id)
             /\ \A i, j \in DOMAIN processed_trans'[h] :
                   processed_trans'[h][i].req_id = processed_trans'[h][j].req_id => i = j
             /\ \A i \in DOMAIN processed_trans'[h], j \in DOMAIN insuf_funds_trans'[h] :
                   processed_trans'[h][i].req_id # insuf_funds_trans'[h][j].req_id
    BY DEF RefusalsRecorded, HeadExecutesOnce, HeadHasOneVerdict, HasId
<1> DEFINE P == processed_trans[h]
           I == insuf_funds_trans[h]
           S == sent[h]
<1>2. Heads(h)
    BY <1>1, TopologyFixed DEF Heads, topology
<1>3. P \in Seq(Request) /\ I \in Seq(Request) /\ S \in Seq(Request)
    BY DEF HeadInvariant, HeadFrame, TypeOK, ServerTypeOK
<1>4. /\ \A i \in 1 .. Len(S) : S[i].status = "InsufficientFunds" =>
            HasId(I, S[i].req_id)
      /\ \A i, j \in 1 .. Len(P) : P[i].req_id = P[j].req_id => i = j
      /\ \A i \in 1 .. Len(P), j \in 1 .. Len(I) : P[i].req_id # I[j].req_id
    BY <1>2, <1>3
    DEF HeadInvariant, RefusalsRecorded, HeadExecutesOnce, HeadHasOneVerdict, HasId
<1>5. CASE ~RecUpdate(h)
  <2>1. /\ processed_trans'[h] = P
        /\ insuf_funds_trans'[h] = I
        /\ \A i \in 1 .. Len(sent'[h]) : \E j \in 1 .. Len(S) : sent'[h][i] = S[j]
      BY <1>2, <1>5, OtherStepsAtHead DEF HeadInvariant
  <2> HIDE DEF P, I, S
  <2>2. DOMAIN P = 1 .. Len(P) /\ DOMAIN I = 1 .. Len(I)
      BY <1>3
  <2>3. \A i \in 1 .. Len(sent'[h]) : sent'[h][i].status = "InsufficientFunds" =>
           HasId(I, sent'[h][i].req_id)
      BY <1>4, <2>1
  <2> QED
      BY <1>4, <2>1, <2>2, <2>3
<1>6. CASE RecUpdate(h)
  <2> DEFINE P1 == processed_trans'[h]
             I1 == insuf_funds_trans'[h]
             S1 == sent'[h]
  <2>1. PICK r \in OwnRequests :
          /\ \/ P1 = P
             \/ /\ r.status = "Need"
                /\ P1 = Record(P, r)
                /\ ~HasId(P, r.req_id)
                /\ ~HasId(I, r.req_id)
          /\ \/ I1 = I
             \/ /\ r.status = "InsufficientFunds"
                /\ I1 = Append(I, r)
                /\ ~HasId(P, r.req_id) \/ HasId(I, r.req_id)
          /\ \A i \in 1 .. Len(S1) :
                \/ \E j \in 1 .. Len(S) : S1[i] = S[j]
                \/ /\ S1[i] = r
                   /\ r.status = "InsufficientFunds" => I1 = Append(I, r)
      BY <1>2, <1>6, RecUpdateAtHead DEF HeadInvariant
  <2>2. /\ r \in Request
        /\ [r EXCEPT !.status = "Processed"].req_id = r.req_id
      BY DEF OwnRequests, Request
  <2> HIDE DEF P, I, S, P1, I1, S1
  <2>3. \A id : HasId(I, id) => HasId(I1, id)
      BY <1>3, <2>1, <2>2 DEF HasId
  <2>4. I1 = Append(I, r) => HasId(I1, r.req_id)
    <3> SUFFICES ASSUME I1 = Append(I, r) PROVE HasId(I1, r.req_id)
        OBVIOUS
    <3>1. /\ Len(I1) = Len(I) + 1
          /\ I1[Len(I) + 1] = r
          /\ Len(I) + 1 \in 1 .. Len(I1)
        BY <1>3, <2>2
    <3> QED
        BY <3>1 DEF HasId
  <2>5. \A i \in 1 .. Len(S1) :
           S1[i].status = "InsufficientFunds" => HasId(I1, S1[i].req_id)
      BY <1>4, <2>1, <2>3, <2>4
  <2>6. \/ P1 = P
        \/ /\ Len(P1) = Len(P) + 1
           /\ \A i \in 1 .. Len(P) : P1[i] = P[i]
           /\ P1[Len(P) + 1].req_id = r.req_id
           /\ ~HasId(P, r.req_id)
           /\ ~HasId(I, r.req_id)
           /\ I1 = I
    <3>1. CASE P1 = P
        BY <3>1
    <3>2. CASE P1 # P
      <4>1. /\ r.status = "Need" /\ P1 = Append(P, [r EXCEPT !.status = "Processed"])
            /\ ~HasId(P, r.req_id) /\ ~HasId(I, r.req_id)
          BY <2>1, <3>2 DEF Record
      <4>2. I1 = I
          BY <2>1, <4>1
      <4> QED
          BY <1>3, <2>2, <4>1, <4>2
    <3> QED
        BY <3>1, <3>2
  <2>7. \/ I1 = I
        \/ /\ Len(I1) = Len(I) + 1
           /\ \A j \in 1 .. Len(I) : I1[j] = I[j]
           /\ I1[Len(I) + 1].req_id = r.req_id
           /\ ~HasId(P, r.req_id) \/ HasId(I, r.req_id)
           /\ P1 = P
    <3>1. CASE I1 = I
        BY <3>1
    <3>2. CASE I1 # I
      <4>1. /\ r.status = "InsufficientFunds" /\ I1 = Append(I, r)
            /\ ~HasId(P, r.req_id) \/ HasId(I, r.req_id)
          BY <2>1, <3>2
      <4>2. P1 = P
          BY <2>1, <4>1
      <4> QED
          BY <1>3, <2>2, <4>1, <4>2
    <3> QED
        BY <3>1, <3>2
  <2>8. ~HasId(P, r.req_id) \/ ~HasId(I, r.req_id)
      BY <1>4 DEF HasId
  <2>9. P1 \in Seq(Request) /\ I1 \in Seq(Request)
    <3>1. Record(P, r) \in Seq(Request) /\ Append(I, r) \in Seq(Request)
        BY <1>3, <2>2, RecordType
    <3> QED
        BY <1>3, <2>1, <3>1
  <2>10. \A i, j \in 1 .. Len(P1) : P1[i].req_id = P1[j].req_id => i = j
    <3>1. CASE P1 = P
        BY <1>4, <3>1
    <3>2. CASE P1 # P
      <4>1. \A i \in 1 .. Len(P1) : i \in 1 .. Len(P) \/ i = Len(P) + 1
          BY <1>3, <2>6, <3>2
      <4>2. \A i \in 1 .. Len(P) : P1[i].req_id # P1[Len(P) + 1].req_id
          BY <2>6, <3>2 DEF HasId
      <4> QED
          BY <1>4, <2>6, <3>2, <4>1, <4>2
    <3> QED
        BY <3>1, <3>2
  <2>11. \A i \in 1 .. Len(P1), j \in 1 .. Len(I1) : P1[i].req_id # I1[j].req_id
    <3>1. CASE P1 = P /\ I1 = I
        BY <1>4, <3>1
    <3>2. CASE P1 # P
      <4>1. \A i \in 1 .. Len(P1) : i \in 1 .. Len(P) \/ i = Len(P) + 1
          BY <1>3, <2>6, <3>2
      <4> QED
          BY <1>4, <2>6, <3>2, <4>1 DEF HasId
    <3>3. CASE I1 # I
      <4>1. \A j \in 1 .. Len(I1) : j \in 1 .. Len(I) \/ j = Len(I) + 1
          BY <1>3, <2>7, <3>3
      <4>2. ~HasId(P, r.req_id)
          BY <2>7, <2>8, <3>3
      <4> QED
          BY <1>4, <2>7, <3>3, <4>1, <4>2 DEF HasId
    <3> QED
        BY <3>1, <3>2, <3>3
  <2>12. DOMAIN P1 = 1 .. Len(P1) /\ DOMAIN I1 = 1 .. Len(I1)
      BY <2>9
  <2> QED
      BY <2>5, <2>10, <2>11, <2>12 DEF P1, I1, S1
<1> QED
    BY <1>5, <1>6

--------------------------------------------------------------------------------
\* The invariant holds at first and is kept by every step.
THEOREM HeadInvariantCorrect == Spec => []HeadInvariant
<1>1. Init => HeadInvariant
  <2> SUFFICES ASSUME Init PROVE HeadInvariant
      OBVIOUS
  <2>1. TypeOK /\ TopologyInit
      BY InitType DEF Init, ServerInit
  <2>2. IdsKept
      BY DEF Init, ServerInit, ServersStart, IdsKept, EmptyBag, SetToBag
  <2>3. HeadsReadNoStream
      BY DEF Init, ServerInit, ServersStart, HeadsReadNoStream
  <2>4. RefusalsRecorded /\ HeadExecutesOnce /\ HeadHasOneVerdict
      BY DEF Init, ServerInit, ServersStart, RefusalsRecorded, HeadExecutesOnce, HeadHasOneVerdict
  <2> QED
      BY <2>1, <2>2, <2>3, <2>4 DEF HeadInvariant, HeadFrame
<1>2. HeadInvariant /\ [Next]_vars => HeadInvariant'
  <2> SUFFICES ASSUME HeadInvariant, [Next]_vars PROVE HeadInvariant'
      OBVIOUS
  <2>1. TypeOK'
      BY TypeOKStep DEF HeadInvariant, HeadFrame
  <2>2. TopologyInit'
      BY TopologyFixed DEF HeadInvariant, HeadFrame, TopologyInit, topology
  <2> QED
      BY <2>1, <2>2, IdsKeptStep, HeadsReadNoStreamStep, HistoriesStep
      DEF HeadInvariant, HeadFrame
<1> QED
    BY <1>1, <1>2, PTL DEF Spec

(* A head executes a request id at most once, in every deployment, with any *)
(* number of resends and losses: check_same_req and the two tests of `sent` *)
(* in rec_client.                                                           *)
THEOREM HeadExecutesOnceCorrect == Spec => []HeadExecutesOnce
<1>1. HeadInvariant => HeadExecutesOnce
    BY DEF HeadInvariant
<1> QED
    BY <1>1, HeadInvariantCorrect, PTL

(* A head never executes an id it has refused, nor refuses one it has       *)
(* executed, although a resend takes its status from `sent` and not from    *)
(* the histories: check_same_req and get_pre_send_status agree.             *)
THEOREM HeadHasOneVerdictCorrect == Spec => []HeadHasOneVerdict
<1>1. HeadInvariant => HeadHasOneVerdict
    BY DEF HeadInvariant
<1> QED
    BY <1>1, HeadInvariantCorrect, PTL

================================================================================
