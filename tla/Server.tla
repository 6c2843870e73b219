--------------------------------- MODULE Server ---------------------------------
(***************************************************************************)
(* A bank server: the handlers of its receive threads (server.cpp and      *)
(* server_client.cpp), each run to its end as one action.  Servers of a    *)
(* bank form a chain joined by TCP streams; clients and other banks reach  *)
(* a server by UDP, which may lose and reorder.                            *)
(***************************************************************************)
EXTENDS Process

VARIABLES
    my_type,           \* HEAD, INTER, TAIL or HEAD_TAIL
    next_fd,           \* the connected successor, NoServer if none
    pre_fd,            \* the connected predecessor, NoServer if none
    all_heads,         \* all_heads[s][b]: where s believes the head of b is
    all_tails,         \* all_tails[s][b]: where s believes the tail of b is
    req_seq,           \* the number the head gave to its last update
    last_received_id,  \* the number on the last update forwarded to s
    balance_map,
    processed_trans,   \* the updates executed, in order
    insuf_funds_trans, \* the updates refused for lack of funds
    sent,              \* the updates forwarded and not yet acknowledged
    from_pre,          \* from_pre[s]: the stream s reads from its predecessor
    from_next,         \* from_next[s]: the stream of acks s reads from its successor
    to_server,         \* bag of datagrams on their way to servers
    to_client          \* bag of datagrams on their way to clients

topology == <<my_type, next_fd, pre_fd, all_heads, all_tails>>

serverState == <<topology, req_seq, last_received_id, balance_map,
                 processed_trans, insuf_funds_trans, sent, from_pre, from_next>>

network == <<to_server, to_client>>

Roles == {"HEAD", "INTER", "TAIL", "HEAD_TAIL"}

Bank(s) == s[1]

--------------------------------------------------------------------------------
\* What the handlers send.

\* Datagrams enter the network, save those to a port that names no process.
Deliver(bag, mails) == bag (+) SetToBag({m \in mails : m.to # NoServer})

Take(bag, mail) == bag (-) SetToBag({mail})

Mail(operation, port, q) == [op |-> operation, to |-> port, req |-> q]

HeadOfBank(s, b) == IF b \in Banks THEN all_heads[s][b] ELSE NoServer

TailOfBank(s, b) == IF b \in Banks THEN all_tails[s][b] ELSE NoServer

\* A variant of send_transfer_dest_head that picks the payer's head.
ShipTransferHome(s, q) == {Mail("REQUEST", HeadOfBank(s, q.source_bank_id), q)}

\* send_transfer_dest_head: the debited transfer goes to the other bank's head.
ShipTransfer(s, q) == {Mail("REQUEST", HeadOfBank(s, q.dest_bank_id), q)}

\* A variant of ack_to_source_bank that tells the head.
AckTransferToHead(s, q) == {Mail("TRANS_ACK", HeadOfBank(s, q.source_bank_id), q)}

\* ack_to_source_bank: the credited transfer is acknowledged to the payer's tail.
AckTransfer(s, q) == {Mail("TRANS_ACK", TailOfBank(s, q.source_bank_id), q)}

\* reply_to_client, with the balance of the request's account.
ReplyTo(q, result, balances) ==
    [op |-> "SER_RPY", to |-> q.client_port, sent_id |-> q.sent_id,
     req_id |-> q.req_id, account_num |-> q.account_num,
     outcome |-> result, balance |-> balances[q.account_num]]

\* A variant that reports every forwarded request as executed.
OutcomeAlwaysProcessed(q) == "Processed"

\* The outcome a reply reports for a request that was executed.
Outcome(q) == IF q.status = "Need" THEN "Processed" ELSE q.status

\* A send on a TCP stream; without a connection the message is silently dropped.
Push(streams, port, message) ==
    IF port = NoServer THEN streams
    ELSE [streams EXCEPT ![port] = Append(@, message)]

Pop(streams, s) == [streams EXCEPT ![s] = Tail(@)]

(* Variants: the status is not set back to Need after the request is recorded;*)
(* a request that changes nothing is not forwarded.                          *)
ForwardRecorded(streams, s, q) ==
    Push(streams, next_fd[s],
         [op |-> "FORWARD",
          req |-> [q EXCEPT !.status = IF @ = "Need" THEN "Processed" ELSE @]])

ForwardChangesOnly(streams, s, q) ==
    IF q.status = "InconsistentWithHistory" THEN streams
    ELSE Push(streams, next_fd[s], [op |-> "FORWARD", req |-> q])

\* forward_req_to_next_server
Forward(streams, s, q) == Push(streams, next_fd[s], [op |-> "FORWARD", req |-> q])

\* ack_to_pre_server
AckToPre(streams, s, q) == Push(streams, pre_fd[s], q)

\* A request is recorded as executed with status Processed.
Record(history, q) == Append(history, [q EXCEPT !.status = "Processed"])

Heads(s) == my_type[s] \in {"HEAD", "HEAD_TAIL"}

Tails(s) == my_type[s] \in {"TAIL", "HEAD_TAIL"}

\* A variant without the test of the status.
PaysAbroadAnyway(s, q) == q.type = "transfer" /\ q.dest_bank_id # Bank(s)

PaysAbroad(s, q) ==
    q.type = "transfer" /\ q.dest_bank_id # Bank(s) /\ q.status = "Need"

Receives(s, q) == q.type = "transfer" /\ q.dest_bank_id = Bank(s)

--------------------------------------------------------------------------------
\* rec_client: the thread that receives requests, from clients and from the
\* tails of other banks alike.

(* The status of an update and the balances it leaves.  A request named in  *)
(* `sent` is a resend: it takes the status of the first copy and changes    *)
(* nothing.  Any other is executed or refused.                              *)
Judge(s, q) ==
    IF InSent(sent[s], q)
    THEN [status |-> PreSendStatus(sent[s], q), balances |-> balance_map[s]]
    ELSE ProcessUpdate(Bank(s), balance_map[s],
                       CheckSameReq(processed_trans[s], insuf_funds_trans[s], q), q)

\* The request as it goes on from here: a resend keeps the number it came with.
Judged(s, q) ==
    [q EXCEPT !.status = Judge(s, q).status,
              !.req_seq = IF InSent(sent[s], q) THEN @ ELSE req_seq[s] + 1]

(* An update.  A head takes it into `sent` and passes it on; the single     *)
(* server of a bank answers at once, or ships a transfer it has debited; a  *)
(* tail should not get one, but would answer it.                            *)
RecUpdate(s) ==
    \E m \in DOMAIN to_server :
      /\ m.to = s /\ m.op = "REQUEST" /\ m.req.type \in Updates
      /\ LET resend == InSent(sent[s], m.req)
             balances == Judge(s, m.req).balances
             r == Judged(s, m.req)
             first == Heads(s) /\ ~resend
             ships == my_type[s] = "HEAD_TAIL" /\ PaysAbroad(s, r)
             closes == my_type[s] = "HEAD_TAIL" /\ ~ships
             listed == IF first THEN Append(sent[s], r) ELSE sent[s]
         IN  /\ req_seq' = [req_seq EXCEPT ![s] = IF resend THEN @ ELSE @ + 1]
             /\ balance_map' = [balance_map EXCEPT ![s] = balances]
             /\ insuf_funds_trans' =
                  IF r.type # "deposit" /\ r.status = "InsufficientFunds"
                  THEN [insuf_funds_trans EXCEPT ![s] = Append(@, r)]
                  ELSE insuf_funds_trans
             /\ processed_trans' =
                  IF first /\ r.status = "Need"
                  THEN [processed_trans EXCEPT ![s] = Record(@, r)]
                  ELSE processed_trans
             /\ sent' = [sent EXCEPT ![s] =
                           IF closes THEN DeleteSent(listed, r) ELSE listed]
             /\ from_pre' = IF my_type[s] = "HEAD" THEN Forward(from_pre, s, r)
                                                   ELSE from_pre
             /\ to_server' = Deliver(Take(to_server, m),
                  CASE ships -> ShipTransfer(s, r)
                    [] closes /\ Receives(s, r) -> AckTransfer(s, r)
                    [] OTHER -> {})
             /\ to_client' = Deliver(to_client,
                  CASE my_type[s] = "TAIL" -> {ReplyTo(r, r.status, balances)}
                    [] closes /\ ~Receives(s, r) -> {ReplyTo(r, Outcome(r), balances)}
                    [] OTHER -> {})
    /\ UNCHANGED <<topology, last_received_id, from_next>>

(* A query, answered by a tail from its own balances.  The single server of *)
(* a bank also passes it through `sent`, which leaves only a deletion.      *)
RecQuery(s) ==
    \E m \in DOMAIN to_server :
      /\ m.to = s /\ m.op = "REQUEST" /\ m.req.type = "getBalance"
      /\ Tails(s)
      /\ LET q == m.req
             resend == InSent(sent[s], q)
             r == [q EXCEPT !.status = IF resend THEN PreSendStatus(sent[s], q)
                                                 ELSE "Processed"]
             alone == my_type[s] = "HEAD_TAIL"
         IN  /\ sent' = [sent EXCEPT ![s] =
                           IF alone THEN DeleteSent(@, r) ELSE @]
             /\ to_client' = Deliver(to_client,
                  {ReplyTo(r, IF alone THEN Outcome(r) ELSE r.status, balance_map[s])})
             /\ to_server' = Take(to_server, m)
    /\ UNCHANGED <<topology, req_seq, last_received_id, balance_map,
                   processed_trans, insuf_funds_trans, from_pre, from_next>>

(* Anything else ("unknown or wrong request type") is read and forgotten: a *)
(* request without a type, or a query at a server that is not a tail.       *)
RecUnknown(s) ==
    \E m \in DOMAIN to_server :
      /\ m.to = s /\ m.op = "REQUEST"
      /\ m.req.type \notin Updates
      /\ m.req.type = "getBalance" => ~Tails(s)
      /\ to_server' = Take(to_server, m)
      /\ UNCHANGED <<serverState, to_client>>

RecClient(s) == RecUpdate(s) \/ RecQuery(s) \/ RecUnknown(s)

--------------------------------------------------------------------------------
\* rec_msg_from_pre_server, FORWORD_REQ: process_forwared_request.
RecForward(s) ==
    /\ from_pre[s] # <<>>
    /\ Head(from_pre[s]).op = "FORWARD"
    /\ LET q == Head(from_pre[s]).req
           known == InSent(sent[s], q)
           executes == q.status = "Need" /\ ~known
           refuses == q.status = "InsufficientFunds" /\ ~known
           balances == IF executes
                       THEN UpdateBalance(Bank(s), balance_map[s], q)
                       ELSE balance_map[s]
           inter == my_type[s] = "INTER"
           tail == my_type[s] = "TAIL"
           r == IF tail /\ known THEN [q EXCEPT !.status = PreSendStatus(sent[s], q)]
                                 ELSE q
           ships == tail /\ PaysAbroad(s, r)
           closes == tail /\ ~ships
           listed == IF (inter \/ tail) /\ ~known THEN Append(sent[s], q) ELSE sent[s]
           rest == Pop(from_pre, s)
       IN  /\ last_received_id' = [last_received_id EXCEPT ![s] = q.req_seq]
           /\ balance_map' = [balance_map EXCEPT ![s] = balances]
           /\ processed_trans' = IF executes
                                 THEN [processed_trans EXCEPT ![s] = Record(@, q)]
                                 ELSE processed_trans
           /\ insuf_funds_trans' = IF refuses
                                   THEN [insuf_funds_trans EXCEPT ![s] = Append(@, q)]
                                   ELSE insuf_funds_trans
           /\ sent' = [sent EXCEPT ![s] = IF closes THEN DeleteSent(listed, r)
                                                    ELSE listed]
           /\ from_pre' = IF inter THEN Forward(rest, s, q) ELSE rest
           /\ from_next' = IF closes THEN AckToPre(from_next, s, r) ELSE from_next
           /\ to_server' = Deliver(to_server, IF ships THEN ShipTransfer(s, r) ELSE {})
           /\ to_client' = Deliver(to_client,
                IF closes /\ ~Receives(s, r)
                THEN {ReplyTo(r, Outcome(r), balances)} ELSE {})
    /\ UNCHANGED <<topology, req_seq>>

(* rec_msg_from_next_server, ACK: the entry is done with here, and in front *)
(* of here.  The head of a payee's bank tells the payer's bank.             *)
RecAck(s) ==
    /\ from_next[s] # <<>>
    /\ LET q == Head(from_next[s])
           rest == Pop(from_next, s)
       IN  /\ sent' = [sent EXCEPT ![s] = DeleteSent(@, q)]
           /\ from_next' = IF Heads(s) THEN rest ELSE AckToPre(rest, s, q)
           /\ to_server' = Deliver(to_server,
                IF my_type[s] = "HEAD" /\ Receives(s, q) THEN AckTransfer(s, q) ELSE {})
    /\ UNCHANGED <<topology, req_seq, last_received_id, balance_map, processed_trans,
                   insuf_funds_trans, from_pre, to_client>>

\* rec_other_bank, TRANS_ACK: the credit is done, the payer can be answered.
RecOtherBank(s) ==
    \E m \in DOMAIN to_server :
      /\ m.to = s /\ m.op = "TRANS_ACK"
      /\ sent' = [sent EXCEPT ![s] = DeleteSent(@, m.req)]
      /\ from_next' = IF Heads(s) THEN from_next
                                   ELSE AckToPre(from_next, s, m.req)
      /\ to_server' = Take(to_server, m)
      /\ to_client' = Deliver(to_client,
           {ReplyTo(m.req, Outcome(m.req), balance_map[s])})
    /\ UNCHANGED <<topology, req_seq, last_received_id, balance_map, processed_trans,
                   insuf_funds_trans, from_pre>>

ReceiveStep(s) == RecClient(s) \/ RecForward(s) \/ RecAck(s) \/ RecOtherBank(s)

--------------------------------------------------------------------------------
\* Every variable of the servers and of the network ranges over its type.
Mails == [op : {"REQUEST", "TRANS_ACK"}, to : Servers, req : Request]

Forwards == [op : {"FORWARD"}, req : Request]

TopologyTypeOK ==
    /\ my_type \in [Servers -> Roles]
    /\ next_fd \in [Servers -> Servers \cup {NoServer}]
    /\ pre_fd \in [Servers -> Servers \cup {NoServer}]
    /\ all_heads \in [Servers -> [Banks -> Servers]]
    /\ all_tails \in [Servers -> [Banks -> Servers]]

ServerTypeOK ==
    /\ TopologyTypeOK
    /\ req_seq \in [Servers -> Nat]
    /\ last_received_id \in [Servers -> Nat]
    /\ balance_map \in [Servers -> [Accounts -> Int]]
    /\ processed_trans \in [Servers -> Seq(Request)]
    /\ insuf_funds_trans \in [Servers -> Seq(Request)]
    /\ sent \in [Servers -> Seq(Request)]
    /\ from_pre \in [Servers -> Seq(Forwards)]
    /\ from_next \in [Servers -> Seq(Request)]
    /\ DOMAIN to_server \subseteq Mails

================================================================================
