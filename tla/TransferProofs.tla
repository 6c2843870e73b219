---------------------------- MODULE TransferProofs -----------------------------
(***************************************************************************)
(* Balances and lists in process where nothing is sent again, for every    *)
(* number of banks, servers, clients and requests, and any loss, transfers *)
(* between banks included.                                                 *)
(*                                                                         *)
(* Histories explain balances because an update behind the head is covered *)
(* by what its predecessor has: the history that a server will have is the *)
(* one of its predecessor (`UpdatePropagation`).  And `sent` is divided    *)
(* between neighbours (`ListsDivided`) because a transfer is acknowledged  *)
(* to the payer once, when the payee has done with it, and while the payer *)
(* waits (`AbroadAwaited`, `AcksFinal`).                                   *)
(*                                                                         *)
(* Money is followed at the heads: what their accounts hold and what is    *)
(* debited and on its way to be credited (`MoneyBalanced`) is what clients *)
(* paid in and did not draw.  A credit is taken because no head has filed  *)
(* a copy that is still to come to it (`NotYetFiled`).                     *)
(***************************************************************************)
EXTENDS CopyProofs, FiniteSetTheorems

--------------------------------------------------------------------------------
\* Where updates may be.

\* What get_client_need_info writes into the entries it reads: a transfer is drawn
\* on the client's bank, and a deposit does not name that bank as a payee's.
ProperEntries ==
    \A c \in Clients : \A k \in 1 .. Len(Queue(c)) :
      LET q == Queue(c)[k]
      IN  /\ q.type = "transfer" => q.source_bank_id = BankOf[c]
          /\ q.type = "deposit" => q.dest_bank_id # BankOf[c]

\* No client pays into its own bank.
PaysOthers ==
    \A c \in Clients : \A k \in 1 .. Len(Queue(c)) :
      LET q == Queue(c)[k]
      IN  q.type = "transfer" => q.dest_bank_id # BankOf[c]

\* A copy is the entry it was made from, but for its number and its status.
Genuine(q) ==
    /\ q.sent_id \in 1 .. Len(Queue(q.client_port))
    /\ q = [Queue(q.client_port)[q.sent_id] EXCEPT !.req_seq = q.req_seq,
                                                  !.status = q.status]

\* What may come to the servers of bank b: the updates of its own clients, and
\* the transfers into it.
Reached(b) ==
    {q \in Request :
       /\ Genuine(q)
       /\ q.type \in Updates =>
             \/ BankOf[q.client_port] = b
             \/ q.type = "transfer" /\ q.dest_bank_id = b}

\* The messages that forward them.
ReachedForwards(b) == [op : {"FORWARD"}, req : Reached(b)]

\* A datagram that is where it belongs.  An acknowledgement belongs to the tail
\* of the bank that the transfer is drawn on.
RightMail(m) ==
    IF m.op = "REQUEST" THEN m.req \in Reached(Bank(m.to))
    ELSE /\ m.req \in Reached(BankOf[m.req.client_port])
         /\ m.req.type = "transfer"
         /\ m.to = LastServer(BankOf[m.req.client_port])

\* Every update, wherever it is, names the banks its client gave it, and is in a
\* bank it concerns; acknowledgements of transfers are on their way to the payer.
RightBanks ==
    /\ \A s \in Servers : /\ sent[s] \in Seq(Reached(Bank(s)))
                          /\ from_pre[s] \in Seq(ReachedForwards(Bank(s)))
                          /\ from_next[s] \in Seq(Reached(Bank(s)))
    /\ \A m \in DOMAIN to_server : RightMail(m)

\* What a copy takes from its entry.
LEMMA GenuineEntry ==
    ASSUME NEW q \in Request, Genuine(q)
    PROVE  LET entry == Queue(q.client_port)[q.sent_id]
           IN  /\ q.client_port \in Clients /\ entry \in Request
               /\ q.sent_id \in 1 .. Len(Queue(q.client_port))
               /\ entry.sent_id = q.sent_id /\ entry.client_port = q.client_port
               /\ q.type = entry.type /\ q.req_id = entry.req_id
               /\ q.account_num = entry.account_num /\ q.amount = entry.amount
               /\ q.dest_bank_id = entry.dest_bank_id
               /\ q.dest_account_num = entry.dest_account_num
               /\ q.source_bank_id = entry.source_bank_id
<1> DEFINE entry == Queue(q.client_port)[q.sent_id]
<1>1. q.client_port \in Clients
    BY DEF Request
<1>2. /\ Queue(q.client_port) \in Seq(Request)
      /\ q.sent_id \in 1 .. Len(Queue(q.client_port))
    BY <1>1, WorkloadAssumption DEF Queue, Genuine
<1>3. entry \in Request /\ entry.sent_id = q.sent_id /\ entry.client_port = q.client_port
  <2> HIDE DEF Genuine
  <2> QED
      BY <1>1, <1>2, WorkloadAssumption DEF Queue
<1>4. q = [entry EXCEPT !.req_seq = q.req_seq, !.status = q.status]
    BY DEF Genuine
<1> HIDE DEF entry
<1>5. /\ q.type = entry.type /\ q.req_id = entry.req_id
      /\ q.account_num = entry.account_num /\ q.amount = entry.amount
      /\ q.dest_bank_id = entry.dest_bank_id
      /\ q.dest_account_num = entry.dest_account_num
      /\ q.source_bank_id = entry.source_bank_id
    BY <1>3, <1>4 DEF Request
<1> QED
    BY <1>1, <1>2, <1>3, <1>5 DEF entry

\* delete_sent leaves the list in its bank.
LEMMA DeleteReached ==
    ASSUME NEW b, NEW list \in Seq(Reached(b)), NEW q
    PROVE  DeleteSent(list, q) \in Seq(Reached(b))
<1>1. list \in Seq(Request)
    BY DEF Reached
<1> DEFINE left == DeleteSent(list, q)
<1>2. /\ left \in Seq(Request)
      /\ \A i \in 1 .. Len(left) : \E j \in 1 .. Len(list) : left[i] = list[j]
    BY <1>1, DeleteSentProperty
<1> HIDE DEF left
<1>3. \A j \in 1 .. Len(list) : list[j] \in Reached(b)
    OBVIOUS
<1>4. \A i \in 1 .. Len(left) : left[i] \in Reached(b)
    BY <1>2, <1>3
<1>5. left \in Seq(Reached(b))
    BY <1>2, <1>4, SeqDef
<1> QED
    BY <1>5 DEF left

\* Judging a request moves it to no other bank.
LEMMA JudgedReached ==
    ASSUME NEW b, NEW q \in Reached(b), NEW r \in Request, NEW status, NEW number,
           r = [q EXCEPT !.status = status, !.req_seq = number]
    PROVE  r \in Reached(b)
<1>1. /\ r.sent_id = q.sent_id /\ r.client_port = q.client_port /\ r.type = q.type
      /\ r.dest_bank_id = q.dest_bank_id /\ r.source_bank_id = q.source_bank_id
    BY DEF Reached, Request
<1> QED
    BY <1>1 DEF Reached, Genuine

\* The messages a bank sends to another one are right.
LEMMA RightLetters ==
    ASSUME ProperEntries, TopologyInit, NEW s \in Servers, NEW r \in Reached(Bank(s)),
           NEW mails, NEW bag, \A m \in DOMAIN bag : RightMail(m),
           \/ mails = {}
           \/ r.type = "transfer" /\ mails = ShipTransfer(s, r)
           \/ r.type = "transfer" /\ mails = AckTransfer(s, r)
    PROVE  \A m \in DOMAIN Deliver(bag, mails) : RightMail(m)
<1>1. r \in Request /\ Genuine(r) /\ r.client_port \in Clients
    BY DEF Reached, Request
<1>2. ASSUME r.type = "transfer" PROVE r.source_bank_id = BankOf[r.client_port]
    BY <1>1, <1>2, GenuineEntry DEF ProperEntries
<1>3. BankOf[r.client_port] \in Banks
    BY <1>1, BankOfAssumption
<1>4. ASSUME NEW m \in ShipTransfer(s, r), r.type = "transfer", m.to # NoServer
      PROVE  RightMail(m)
  <2>1. r.dest_bank_id \in Banks /\ m = Mail("REQUEST", FirstServer(r.dest_bank_id), r)
      BY <1>4, Places DEF ShipTransfer, HeadOfBank, Mail
  <2> QED
      BY <1>1, <1>4, <2>1 DEF RightMail, Mail, Reached, Bank, FirstServer
<1>5. ASSUME NEW m \in AckTransfer(s, r), r.type = "transfer"
      PROVE  RightMail(m)
  <2>1. m = Mail("TRANS_ACK", LastServer(BankOf[r.client_port]), r)
      BY <1>2, <1>3, <1>5, Places DEF AckTransfer, TailOfBank, Mail
  <2> QED
      BY <1>1, <1>5, <2>1 DEF RightMail, Mail, Reached
<1> QED
    BY <1>4, <1>5, DeliverProperty

\* At first nothing is anywhere.
LEMMA RightBanksInit ==
    ASSUME Init
    PROVE  RightBanks
<1>1. DOMAIN to_server = {}
    BY DEF Init, ServerInit, ServersStart, EmptyBag, SetToBag
<1> QED
    BY <1>1 DEF Init, ServerInit, ServersStart, RightBanks

\* rec_client of an update sends it nowhere else.
LEMMA RecUpdateRight ==
    ASSUME ProperEntries, FreshCopies, RightBanks, NEW s \in Servers, RecUpdate(s)
    PROVE  RightBanks'
<1>0. /\ TopologyInit /\ sent \in [Servers -> Seq(Request)]
      /\ from_pre \in [Servers -> Seq(Forwards)] /\ from_next \in [Servers -> Seq(Request)]
    BY DEF FreshCopies, HeadFrame, TypeOK, ServerTypeOK
<1>1. PICK m \in LettersIn(to_server), r \in Request : HeadHandles(s, m, r)
    BY RecUpdateFresh
<1> DEFINE ships == my_type[s] = "HEAD_TAIL" /\ PaysAbroad(s, r)
           settles == my_type[s] = "HEAD_TAIL" /\ ~ships /\ Receives(s, r)
           mails == CASE ships -> ShipTransfer(s, r)
                      [] settles -> AckTransfer(s, r)
                      [] OTHER -> {}
<1>2. /\ r \in Reached(Bank(s))
      /\ \A x \in DOMAIN Take(to_server, m) : RightMail(x)
  <2>1. /\ m.req \in Reached(Bank(s)) /\ \A x \in DOMAIN to_server : RightMail(x)
      BY <1>1 DEF HeadHandles, RightBanks, RightMail, LettersIn
  <2>2. \E status, number : r = [m.req EXCEPT !.status = status, !.req_seq = number]
      BY <1>1 DEF HeadHandles
  <2> QED
      BY <2>1, <2>2, JudgedReached, TakeProperty
<1>3. \A x \in DOMAIN to_server' : RightMail(x)
  <2>1. to_server' = Deliver(Take(to_server, m), mails)
      BY <1>1 DEF HeadHandles
  <2>2. \/ mails = {}
        \/ r.type = "transfer" /\ mails = ShipTransfer(s, r)
        \/ r.type = "transfer" /\ mails = AckTransfer(s, r)
      BY DEF PaysAbroad, Receives
  <2> HIDE DEF mails
  <2> QED
      BY <1>0, <1>2, <2>1, <2>2, RightLetters
<1>4. \A t \in Servers : sent'[t] \in Seq(Reached(Bank(t)))
  <2>1. sent' = [sent EXCEPT ![s] = IF my_type[s] = "HEAD" \/ ships THEN Append(@, r) ELSE @]
      BY <1>1 DEF HeadHandles
  <2>2. \A t \in Servers : sent[t] \in Seq(Reached(Bank(t)))
      BY DEF RightBanks
  <2> HIDE DEF ships
  <2>3. Append(sent[s], r) \in Seq(Reached(Bank(s)))
      BY <1>2, <2>2
  <2> QED
      BY <1>0, <2>1, <2>2, <2>3
<1>5. \A t \in Servers : from_pre'[t] \in Seq(ReachedForwards(Bank(t)))
  <2>1. \A t \in Servers : from_pre[t] \in Seq(ReachedForwards(Bank(t)))
      BY DEF RightBanks
  <2>2. CASE my_type[s] = "HEAD"
    <3>1. /\ from_pre' = [from_pre EXCEPT ![Next1(s)] = Append(@, Forwarding(r))]
          /\ Next1(s) \in Servers /\ Bank(Next1(s)) = Bank(s)
        BY <1>0, <1>1, <2>2, Places DEF HeadHandles
    <3>2. Forwarding(r) \in ReachedForwards(Bank(Next1(s)))
        BY <1>2, <3>1 DEF Forwarding, ReachedForwards
    <3>3. Append(from_pre[Next1(s)], Forwarding(r)) \in Seq(ReachedForwards(Bank(Next1(s))))
        BY <2>1, <3>1, <3>2
    <3> QED
        BY <1>0, <2>1, <3>1, <3>3
  <2>3. CASE my_type[s] # "HEAD"
      BY <1>1, <2>1, <2>3 DEF HeadHandles
  <2> QED
      BY <2>2, <2>3
<1>6. from_next' = from_next
    BY <1>1 DEF HeadHandles
<1> QED
    BY <1>3, <1>4, <1>5, <1>6 DEF RightBanks

\* Neither does process_forwared_request.
LEMMA RecForwardRight ==
    ASSUME ProperEntries, FreshCopies, RightBanks, NEW s \in Servers, RecForward(s)
    PROVE  RightBanks'
<1>0. /\ TopologyInit /\ sent \in [Servers -> Seq(Request)]
      /\ from_pre \in [Servers -> Seq(Forwards)] /\ from_next \in [Servers -> Seq(Request)]
      /\ \A t \in Servers : sent[t] \in Seq(Reached(Bank(t)))
      /\ \A t \in Servers : from_pre[t] \in Seq(ReachedForwards(Bank(t)))
      /\ \A t \in Servers : from_next[t] \in Seq(Reached(Bank(t)))
      /\ \A x \in DOMAIN to_server : RightMail(x)
    BY DEF FreshCopies, HeadFrame, TypeOK, ServerTypeOK, RightBanks
<1>1. PICK q \in Request : Relays(s, q) /\ ~IsFirst(s)
    BY RecForwardFresh
<1> DEFINE ships == my_type[s] = "TAIL" /\ PaysAbroad(s, q)
           closes == my_type[s] = "TAIL" /\ ~ships
           f == Head(from_pre[s])
           rest == Pop(from_pre, s)
<1>2. /\ f \in ReachedForwards(Bank(s)) /\ f.req = q /\ q \in Reached(Bank(s))
      /\ Tail(from_pre[s]) \in Seq(ReachedForwards(Bank(s)))
  <2>1. from_pre[s] # <<>> /\ f.req = q
      BY <1>1 DEF Relays
  <2>2. f \in ReachedForwards(Bank(s)) /\ Tail(from_pre[s]) \in Seq(ReachedForwards(Bank(s)))
      BY <1>0, <2>1
  <2> QED
      BY <2>1, <2>2 DEF ReachedForwards
<1>3. \A x \in DOMAIN to_server' : RightMail(x)
  <2> DEFINE mails == IF ships THEN ShipTransfer(s, q) ELSE {}
  <2>1. to_server' = Deliver(to_server, mails)
      BY <1>1 DEF Relays
  <2>2. \/ mails = {}
        \/ q.type = "transfer" /\ mails = ShipTransfer(s, q)
      BY DEF PaysAbroad
  <2> HIDE DEF mails
  <2> QED
      BY <1>0, <1>2, <2>1, <2>2, RightLetters
<1>4. \A t \in Servers : sent'[t] \in Seq(Reached(Bank(t)))
  <2>1. sent' = [sent EXCEPT ![s] = IF my_type[s] = "INTER" \/ ships THEN Append(@, q) ELSE @]
      BY <1>1 DEF Relays
  <2> HIDE DEF ships
  <2>2. Append(sent[s], q) \in Seq(Reached(Bank(s)))
      BY <1>0, <1>2
  <2> QED
      BY <1>0, <2>1, <2>2
<1>5. \A t \in Servers : from_pre'[t] \in Seq(ReachedForwards(Bank(t)))
  <2>1. /\ rest \in [Servers -> Seq(Forwards)]
        /\ \A t \in Servers : rest[t] \in Seq(ReachedForwards(Bank(t)))
    <3>1. rest = [from_pre EXCEPT ![s] = Tail(from_pre[s])]
        BY DEF Pop
    <3>2. Tail(from_pre[s]) \in Seq(Forwards)
        BY <1>0, <1>1 DEF Relays
    <3> QED
        BY <1>0, <1>2, <3>1, <3>2
  <2>2. CASE my_type[s] = "INTER"
    <3>1. /\ from_pre' = [rest EXCEPT ![Next1(s)] = Append(rest[Next1(s)], f)]
          /\ Next1(s) \in Servers /\ Bank(Next1(s)) = Bank(s)
        BY <1>0, <1>1, <2>2, Places DEF Relays
    <3> HIDE DEF f, rest
    <3>2. Append(rest[Next1(s)], f) \in Seq(ReachedForwards(Bank(Next1(s))))
        BY <1>2, <2>1, <3>1
    <3> QED
        BY <2>1, <3>1, <3>2
  <2>3. CASE my_type[s] # "INTER"
      BY <1>1, <2>1, <2>3 DEF Relays
  <2> QED
      BY <2>2, <2>3
<1>6. \A t \in Servers : from_next'[t] \in Seq(Reached(Bank(t)))
  <2>1. CASE closes
    <3>1. /\ from_next' = [from_next EXCEPT ![Prev1(s)] = Append(from_next[Prev1(s)], q)]
          /\ Prev1(s) \in Servers /\ Bank(Prev1(s)) = Bank(s)
        BY <1>0, <1>1, <2>1, Places DEF Relays
    <3>2. Append(from_next[Prev1(s)], q) \in Seq(Reached(Bank(Prev1(s))))
        BY <1>0, <1>2, <3>1
    <3> QED
        BY <1>0, <3>1, <3>2
  <2>2. CASE ~closes
      BY <1>0, <1>1, <2>2 DEF Relays
  <2> QED
      BY <2>1, <2>2
<1> QED
    BY <1>3, <1>4, <1>5, <1>6 DEF RightBanks

\* An acknowledgement stays in its bank.
LEMMA AckReached ==
    ASSUME TopologyInit, NEW s \in Servers, NEW q \in Reached(Bank(s)), ~Heads(s),
           NEW streams \in [Servers -> Seq(Request)],
           \A t \in Servers : streams[t] \in Seq(Reached(Bank(t)))
    PROVE  \A t \in Servers : AckToPre(streams, s, q)[t] \in Seq(Reached(Bank(t)))
<1>1. /\ AckToPre(streams, s, q) = [streams EXCEPT ![Prev1(s)] = Append(streams[Prev1(s)], q)]
      /\ Prev1(s) \in Servers /\ Bank(Prev1(s)) = Bank(s)
  <2>1. /\ pre_fd[s] = Prev1(s) /\ Prev1(s) # NoServer
        /\ Prev1(s) \in Servers /\ Bank(Prev1(s)) = Bank(s)
      BY Places, Zenon
  <2> QED
      BY <2>1, Zenon DEF AckToPre, Push
<1>2. Append(streams[Prev1(s)], q) \in Seq(Reached(Bank(Prev1(s))))
    BY <1>1
<1> QED
    BY <1>1, <1>2

\* Nor do the other handlers of a server.
LEMMA OtherServerStepRight ==
    ASSUME ProperEntries, FreshCopies, RightBanks, NEW s \in Servers,
           RecQuery(s) \/ RecUnknown(s) \/ RecAck(s) \/ RecOtherBank(s)
    PROVE  RightBanks'
<1>0. /\ TopologyInit /\ sent \in [Servers -> Seq(Request)]
      /\ from_next \in [Servers -> Seq(Request)]
      /\ DOMAIN to_server \subseteq Mails
      /\ \A t \in Servers : sent[t] \in Seq(Reached(Bank(t)))
      /\ \A t \in Servers : from_pre[t] \in Seq(ReachedForwards(Bank(t)))
      /\ \A t \in Servers : from_next[t] \in Seq(Reached(Bank(t)))
      /\ \A x \in DOMAIN to_server : RightMail(x)
    BY DEF FreshCopies, HeadFrame, TypeOK, ServerTypeOK, RightBanks
<1>1. ASSUME NEW q, sent' = [sent EXCEPT ![s] = DeleteSent(@, q)]
      PROVE  \A t \in Servers : sent'[t] \in Seq(Reached(Bank(t)))
  <2>1. DeleteSent(sent[s], q) \in Seq(Reached(Bank(s)))
      BY <1>0, DeleteReached
  <2> QED
      BY <1>0, <1>1, <2>1
<1>2. CASE RecQuery(s)
  <2>1. PICK m \in DOMAIN to_server : RecQuery(s)!(m)
      BY <1>2 DEF RecQuery
  <2>2. /\ DOMAIN to_server' \subseteq DOMAIN to_server
        /\ from_pre' = from_pre /\ from_next' = from_next
      BY <1>2, <2>1, TakeProperty DEF RecQuery
  <2>3. \/ sent' = [sent EXCEPT ![s] = sent[s]]
        \/ \E q : sent' = [sent EXCEPT ![s] = DeleteSent(@, q)]
      BY <2>1
  <2>4. \A t \in Servers : sent'[t] \in Seq(Reached(Bank(t)))
      BY <1>0, <1>1, <2>3
  <2> QED
      BY <1>0, <2>2, <2>4 DEF RightBanks
<1>3. CASE RecUnknown(s)
  <2>1. /\ DOMAIN to_server' \subseteq DOMAIN to_server
        /\ sent' = sent /\ from_pre' = from_pre /\ from_next' = from_next
      BY <1>3, TakeProperty DEF RecUnknown, serverState
  <2> QED
      BY <1>0, <2>1 DEF RightBanks
<1>4. CASE RecAck(s)
  <2> DEFINE q == Head(from_next[s])
             rest == Pop(from_next, s)
             mails == IF my_type[s] = "HEAD" /\ Receives(s, q) THEN AckTransfer(s, q) ELSE {}
  <2>1. /\ from_next[s] # <<>>
        /\ sent' = [sent EXCEPT ![s] = DeleteSent(@, q)]
        /\ from_next' = IF Heads(s) THEN rest ELSE AckToPre(rest, s, q)
        /\ to_server' = Deliver(to_server, mails)
        /\ from_pre' = from_pre
      BY <1>4 DEF RecAck
  <2>2. q \in Reached(Bank(s)) /\ Tail(from_next[s]) \in Seq(Reached(Bank(s)))
        /\ Tail(from_next[s]) \in Seq(Request)
      BY <1>0, <2>1
  <2>3. /\ rest \in [Servers -> Seq(Request)]
        /\ \A t \in Servers : rest[t] \in Seq(Reached(Bank(t)))
    <3>1. rest = [from_next EXCEPT ![s] = Tail(from_next[s])]
        BY DEF Pop
    <3> QED
        BY <1>0, <2>2, <3>1
  <2>4. \/ mails = {}
        \/ q.type = "transfer" /\ mails = AckTransfer(s, q)
      BY DEF Receives
  <2> HIDE DEF q, rest, mails
  <2>5. \A t \in Servers : from_next'[t] \in Seq(Reached(Bank(t)))
      BY <1>0, <2>1, <2>2, <2>3, AckReached
  <2>6. \A x \in DOMAIN to_server' : RightMail(x)
      BY <1>0, <2>1, <2>2, <2>4, RightLetters
  <2>7. \A t \in Servers : sent'[t] \in Seq(Reached(Bank(t)))
      BY <1>1, <2>1
  <2> QED
      BY <1>0, <2>1, <2>5, <2>6, <2>7 DEF RightBanks
<1>5. CASE RecOtherBank(s)
  <2>1. PICK m \in DOMAIN to_server : RecOtherBank(s)!(m)
      BY <1>5 DEF RecOtherBank
  <2>2. /\ DOMAIN to_server' \subseteq DOMAIN to_server /\ from_pre' = from_pre
        /\ sent' = [sent EXCEPT ![s] = DeleteSent(@, m.req)]
        /\ from_next' = IF Heads(s) THEN from_next ELSE AckToPre(from_next, s, m.req)
      BY <1>5, <2>1, TakeProperty DEF RecOtherBank
  <2>3. m.req \in Reached(Bank(s))
    <3>1. /\ RightMail(m) /\ m.op = "TRANS_ACK" /\ m.to = s
        BY <1>0, <2>1
    <3>2. s = LastServer(BankOf[m.req.client_port]) /\ m.req \in Reached(BankOf[m.req.client_port])
        BY <3>1 DEF RightMail
    <3>3. Bank(s) = BankOf[m.req.client_port]
        BY <3>2 DEF Bank, LastServer
    <3> QED
        BY <3>2, <3>3
  <2>4. \A t \in Servers : from_next'[t] \in Seq(Reached(Bank(t)))
      BY <1>0, <2>2, <2>3, AckReached
  <2>5. \A t \in Servers : sent'[t] \in Seq(Reached(Bank(t)))
      BY <1>1, <2>2
  <2> QED
      BY <1>0, <2>2, <2>4, <2>5 DEF RightBanks
<1> QED
    BY <1>2, <1>3, <1>4, <1>5

\* What a client sends goes to its own bank.
LEMMA SendRequestRight ==
    ASSUME FreshCopies, RightBanks, NEW c \in Clients, NEW received \in Nat,
           SendRequest(c, received), UNCHANGED serverState
    PROVE  RightBanks'
<1>0. /\ next_req \in [Clients -> Nat] /\ HeadsKnown
      /\ \A x \in DOMAIN to_server : RightMail(x)
      /\ sent' = sent /\ from_pre' = from_pre /\ from_next' = from_next
    BY DEF FreshCopies, HeadFrame, TypeOK, ClientTypeOK, RightBanks, serverState
<1>1. CASE to_server' = to_server
    BY <1>0, <1>1 DEF RightBanks
<1>2. CASE to_server' # to_server
  <2> DEFINE k == next_req[c] + 1
             q == Queue(c)[k]
             x == Mail("REQUEST", PortFor(c, q), q)
  <2>1. /\ next_req[c] < Len(Queue(c))
        /\ to_server' = Deliver(to_server, {x})
      BY <1>2 DEF SendRequest, SendTo
  <2>2. q \in Request /\ Genuine(q) /\ q.client_port = c
    <3>1. /\ Queue(c) \in Seq(Request)
          /\ \A i \in 1 .. Len(Queue(c)) :
                Queue(c)[i].sent_id = i /\ Queue(c)[i].client_port = c
        BY WorkloadAssumption DEF Queue
    <3>2. k \in 1 .. Len(Queue(c))
        BY <1>0, <2>1, <3>1
    <3> HIDE DEF Queue, k
    <3>3. q \in Request /\ q.sent_id = k /\ q.client_port = c
        BY <3>1, <3>2
    <3>4. q = [q EXCEPT !.req_seq = q.req_seq, !.status = q.status]
      <4> HIDE DEF q
      <4> QED
          BY <3>3 DEF Request
    <3> QED
        BY <3>2, <3>3, <3>4 DEF Genuine
  <2> HIDE DEF q
  <2>3. ASSUME x.to # NoServer PROVE RightMail(x)
    <3>1. q.type \in Updates => PortFor(c, q) = FirstServer(BankOf[c])
        BY <1>0, <2>3 DEF PortFor, Updates, HeadsKnown, Mail
    <3>2. q \in Reached(Bank(PortFor(c, q)))
        BY <2>2, <3>1 DEF Reached, Bank, FirstServer
    <3> QED
        BY <3>2 DEF RightMail, Mail
  <2>4. \A m \in DOMAIN to_server' : RightMail(m)
    <3> HIDE DEF x
    <3> QED
        BY <1>0, <2>1, <2>3, DeliverProperty
  <2> QED
      BY <1>0, <2>4 DEF RightBanks
<1> QED
    BY <1>1, <1>2

\* Every step keeps updates in the banks they concern.
LEMMA RightBanksStep ==
    ASSUME NoResends, ProperEntries, FreshCopies, RightBanks, [Next]_vars
    PROVE  RightBanks'
<1>1. ASSUME NEW s \in Servers, ServerStep(s) PROVE RightBanks'
    BY <1>1, RecUpdateRight, RecForwardRight, OtherServerStepRight
    DEF ServerStep, ReceiveStep, RecClient
<1>2. ASSUME UNCHANGED serverState, DOMAIN to_server' \subseteq DOMAIN to_server
      PROVE  RightBanks'
    BY <1>2 DEF RightBanks, serverState
<1>3. ASSUME NEW c \in Clients, ClientStep(c) PROVE RightBanks'
  <2>0. last_rec_id[c] \in Nat /\ last_rec_id[c] + 1 \in Nat
      BY DEF FreshCopies, HeadFrame, TypeOK, ClientTypeOK
  <2>1. CASE StartClient(c)
      BY <2>0, <2>1, SendRequestRight DEF StartClient
  <2>2. CASE RecvReply(c)
    <3>1. SendRequest(c, last_rec_id[c] + 1) /\ UNCHANGED serverState
        BY <2>2 DEF RecvReply
    <3> QED
        BY <2>0, <3>1, SendRequestRight
  <2>3. CASE RecvSetHeadTail(c)
      BY <1>2, <2>3 DEF RecvSetHeadTail
  <2>4. ASSUME NEW k \in 1 .. Len(Queue(c)), CheckReceive(c, k) PROVE FALSE
    <3>1. whether_resend_newhead[c] /\ my_resend_time[c][k] < resend_times[c]
        BY <2>4 DEF CheckReceive
    <3>2. my_resend_time[c][k] \in Nat
        BY DEF FreshCopies, HeadFrame, TypeOK, ClientTypeOK
    <3> QED
        BY <3>1, <3>2 DEF NoResends
  <2> QED
      BY <1>3, <2>1, <2>2, <2>3, <2>4 DEF ClientStep, RecvMsg
<1>4. CASE Lose
  <2>1. DOMAIN to_server' \subseteq DOMAIN to_server
      BY <1>4, TakeProperty DEF Lose
  <2> QED
      BY <1>2, <1>4, <2>1 DEF Lose
<1>5. CASE UNCHANGED vars
    BY <1>2, <1>5 DEF vars, serverState, network
<1> QED
    BY <1>1, <1>3, <1>4, <1>5 DEF Next

\* Without resends every update, in whatever list, stream or datagram, is in a bank
\* it concerns, and the acknowledgement of a transfer goes to the tail of the
\* bank it is drawn on (ack_to_source_bank).
THEOREM RightBanksCorrect == NoResends /\ ProperEntries => (Spec => []RightBanks)
<1> SUFFICES ASSUME NoResends, ProperEntries PROVE Spec => []RightBanks
    OBVIOUS
<1>1. Init => RightBanks
    BY RightBanksInit
<1>2. FreshCopies /\ RightBanks /\ [Next]_vars => RightBanks'
    BY RightBanksStep
<1>3. Spec => []FreshCopies
    BY FreshCopiesCorrect
<1> QED
    BY <1>1, <1>2, <1>3, PTL DEF Spec

--------------------------------------------------------------------------------
\* What histories explain.

\* A history explains balances and has never overdrawn an account.
Explains(h, b, balances) ==
    \A a \in Accounts :
      /\ balances[a] = BalanceOf(b, h, a)
      /\ \A g \in Prefixes(h) : BalanceOf(b, g, a) >= 0

\* The history of every server explains its balances.
HistoriesExplain ==
    \A s \in Servers : Explains(processed_trans[s], Bank(s), balance_map[s])

\* A history that another one begins with is among its prefixes.
LEMMA PrefixMember ==
    ASSUME NEW h \in Seq(Request), NEW g \in Seq(Request), Len(g) <= Len(h),
           \A i \in 1 .. Len(g) : g[i] = h[i]
    PROVE  g \in Prefixes(h)
<1> DEFINE first == SubSeq(h, 1, Len(g))
<1>1. Len(g) \in 0 .. Len(h)
    OBVIOUS
<1>2. /\ first \in Seq(Request) /\ Len(first) = Len(g)
      /\ \A i \in 1 .. Len(g) : first[i] = h[i]
    BY <1>1
<1>3. first \in Prefixes(h)
    BY <1>1 DEF Prefixes
<1> HIDE DEF first
<1>4. first = g
    BY <1>2
<1> QED
    BY <1>3, <1>4

\* A history one update longer has one prefix more.
LEMMA PrefixesAppend ==
    ASSUME NEW h \in Seq(Request), NEW q \in Request, NEW g \in Prefixes(Append(h, q))
    PROVE  g \in Prefixes(h) \/ g = Append(h, q)
<1> DEFINE longer == Append(h, q)
<1>1. /\ longer \in Seq(Request) /\ Len(longer) = Len(h) + 1 /\ Len(h) \in Nat
      /\ \A i \in 1 .. Len(h) : longer[i] = h[i]
    OBVIOUS
<1>2. PICK k \in 0 .. Len(longer) : g = SubSeq(longer, 1, k)
    BY DEF Prefixes
<1> HIDE DEF longer
<1>3. /\ g \in Seq(Request) /\ Len(g) = k /\ \A i \in 1 .. k : g[i] = longer[i]
    BY <1>1, <1>2
<1>4. CASE k <= Len(h)
  <2>1. Len(g) <= Len(h) /\ \A i \in 1 .. Len(g) : g[i] = h[i]
      BY <1>1, <1>3, <1>4
  <2> QED
      BY <1>3, <2>1, PrefixMember
<1>5. CASE ~(k <= Len(h))
  <2>1. k = Len(longer)
      BY <1>1, <1>2, <1>5
  <2>2. g = longer
      BY <1>1, <1>3, <2>1
  <2> QED
      BY <2>2 DEF longer
<1> QED
    BY <1>4, <1>5

\* A record of an update changes what the update changes.
LEMMA EffectOfRecord ==
    ASSUME NEW b, NEW a, NEW q \in Request, NEW r,
           \E status, number : r = [q EXCEPT !.status = status, !.req_seq = number]
    PROVE  Effect(b, r, a) = Effect(b, q, a) /\ Effect(b, q, a) \in Int
<1>1. /\ r.type = q.type /\ r.account_num = q.account_num /\ r.amount = q.amount
      /\ r.dest_bank_id = q.dest_bank_id /\ r.dest_account_num = q.dest_account_num
      /\ q.amount \in Nat
    BY DEF Request
<1> QED
    BY <1>1 DEF Effect

\* What the entries say of a copy that may come to a bank.
LEMMA ReachedEntry ==
    ASSUME ProperEntries, NEW b \in Banks, NEW q \in Reached(b)
    PROVE  /\ q \in Request
           /\ q.type = "deposit" => q.dest_bank_id # b
           /\ q.type = "transfer" => q.source_bank_id = BankOf[q.client_port]
           /\ q.type = "transfer" /\ q.dest_bank_id # b => q.source_bank_id = b
<1>1. q \in Request /\ Genuine(q) /\ q.client_port \in Clients
    BY DEF Reached, Request
<1>2. /\ q.type = "transfer" => q.source_bank_id = BankOf[q.client_port]
      /\ q.type = "deposit" => q.dest_bank_id # BankOf[q.client_port]
    BY <1>1, GenuineEntry DEF ProperEntries
<1>3. /\ q.type = "deposit" => BankOf[q.client_port] = b
      /\ q.type = "transfer" /\ q.dest_bank_id # b => BankOf[q.client_port] = b
    BY DEF Reached, Updates
<1> QED
    BY <1>1, <1>2, <1>3

\* A head changes its balances by the effect of the update it accepts.
LEMMA HeadBalances ==
    ASSUME ProperEntries, NEW b \in Banks, NEW q \in Reached(b), q.type \in Updates,
           NEW balances \in [Accounts -> Int], \A a \in Accounts : balances[a] >= 0,
           NEW same, NEW a \in Accounts
    PROVE  LET judged == ProcessUpdate(b, balances, same, q)
           IN  /\ judged.balances[a] =
                     balances[a] + IF judged.status = "Need" THEN Effect(b, q, a) ELSE 0
               /\ judged.balances[a] >= 0
<1> DEFINE judged == ProcessUpdate(b, balances, same, q)
           change == IF judged.status = "Need" THEN Effect(b, q, a) ELSE 0
<1>1. /\ q.amount \in Nat /\ q.account_num \in Accounts /\ q.dest_account_num \in Accounts
      /\ q.type = "deposit" => q.dest_bank_id # b
    BY ReachedEntry DEF Request
<1>2. CASE q.type = "deposit"
  <2>1. judged = ProcessDeposit(b, balances, same, q)
      BY <1>2 DEF ProcessUpdate
  <2> QED
      BY <1>1, <1>2, <2>1 DEF ProcessDeposit, Credit, Effect
<1>3. CASE q.type = "withdraw"
  <2>1. judged = ProcessWithdraw(balances, same, q)
      BY <1>3 DEF ProcessUpdate
  <2> QED
      BY <1>1, <1>3, <2>1 DEF ProcessWithdraw, Debit, Effect
<1>4. CASE q.type = "transfer" /\ q.dest_bank_id = b
  <2>1. judged = ProcessDeposit(b, balances, same, q)
      BY <1>4 DEF ProcessUpdate, ProcessTransfer
  <2> QED
      BY <1>1, <1>4, <2>1 DEF ProcessDeposit, Credit, Effect
<1>5. CASE q.type = "transfer" /\ q.dest_bank_id # b
  <2>1. judged = ProcessWithdraw(balances, same, q)
      BY <1>5 DEF ProcessUpdate, ProcessTransfer
  <2> QED
      BY <1>1, <1>5, <2>1 DEF ProcessWithdraw, Debit, Effect
<1> QED
    BY <1>2, <1>3, <1>4, <1>5 DEF Updates

\* So does a server behind it, as long as the update is covered.
LEMMA FollowerBalances ==
    ASSUME ProperEntries, NEW b \in Banks, NEW q \in Reached(b),
           NEW balances \in [Accounts -> Int],
           \A a \in Accounts : balances[a] + Effect(b, q, a) >= 0,
           NEW a \in Accounts
    PROVE  UpdateBalance(b, balances, q)[a] = balances[a] + Effect(b, q, a)
<1>1. /\ q.amount \in Nat /\ q.account_num \in Accounts /\ q.dest_account_num \in Accounts
      /\ q.type = "transfer" /\ q.dest_bank_id # b => q.source_bank_id = b
    BY ReachedEntry DEF Request
<1>2. CASE q.type = "deposit"
    BY <1>1, <1>2 DEF UpdateBalance, Credit, Effect
<1>3. CASE q.type = "withdraw"
  <2>1. balances[q.account_num] + Effect(b, q, q.account_num) >= 0
      BY <1>1
  <2>2. balances[q.account_num] >= q.amount
      BY <1>1, <1>3, <2>1 DEF Effect
  <2> QED
      BY <1>1, <1>3, <2>2 DEF UpdateBalance, Debit, Effect
<1>4. CASE q.type = "transfer" /\ q.dest_bank_id = b
    BY <1>1, <1>4 DEF UpdateBalance, Credit, Effect
<1>5. CASE q.type = "transfer" /\ q.dest_bank_id # b
  <2>1. balances[q.account_num] + Effect(b, q, q.account_num) >= 0
      BY <1>1
  <2>2. balances[q.account_num] >= q.amount
      BY <1>1, <1>5, <2>1 DEF Effect
  <2> QED
      BY <1>1, <1>5, <2>2 DEF UpdateBalance, Debit, Effect
<1>6. CASE q.type \notin Updates
    BY <1>1, <1>6 DEF UpdateBalance, Effect, Updates
<1> QED
    BY <1>2, <1>3, <1>4, <1>5, <1>6 DEF Updates

\* The balances that a history explains are covered.
LEMMA ExplainedNow ==
    ASSUME NEW h \in Seq(Request), NEW b, NEW balances, Explains(h, b, balances)
    PROVE  \A a \in Accounts : balances[a] = BalanceOf(b, h, a) /\ balances[a] >= 0
<1>1. h \in Prefixes(h)
    BY PrefixMember
<1> QED
    BY <1>1 DEF Explains

\* A history that records one more update still explains the balances, if the
\* update did what it says and was covered.
LEMMA ExplainedRecord ==
    ASSUME NEW h \in Seq(Request), NEW b, NEW balances, Explains(h, b, balances),
           NEW q \in Request, NEW later,
           \A a \in Accounts : later[a] = balances[a] + Effect(b, q, a) /\ later[a] >= 0
    PROVE  Explains(Record(h, q), b, later)
<1> DEFINE record == [q EXCEPT !.status = "Processed"]
           longer == Append(h, record)
<1>1. /\ record \in Request
      /\ \E status, number : record = [q EXCEPT !.status = status, !.req_seq = number]
  <2>1. record \in Request
      BY DEF Request, Statuses
  <2>2. record = [q EXCEPT !.status = "Processed", !.req_seq = q.req_seq]
      BY DEF Request
  <2> QED
      BY <2>1, <2>2
<1> HIDE DEF record
<1>2. ASSUME NEW a \in Accounts
      PROVE  later[a] = BalanceOf(b, longer, a)
  <2>1. /\ Effect(b, record, a) = Effect(b, q, a)
        /\ BalanceOf(b, longer, a) = BalanceOf(b, h, a) + Effect(b, record, a)
      BY <1>1, EffectOfRecord, BalanceAppend
  <2> QED
      BY <2>1 DEF Explains
<1>3. ASSUME NEW a \in Accounts, NEW g \in Prefixes(longer)
      PROVE  BalanceOf(b, g, a) >= 0
  <2>1. g \in Prefixes(h) \/ g = longer
      BY <1>1, PrefixesAppend
  <2> QED
      BY <1>2, <2>1 DEF Explains
<1> QED
    BY <1>2, <1>3 DEF Explains, Record, record

\* At first every history is empty and every balance 0.
LEMMA ExplainsInit ==
    ASSUME Init
    PROVE  HistoriesExplain
<1> SUFFICES ASSUME NEW s \in Servers, NEW a \in Accounts
             PROVE  /\ balance_map[s][a] = BalanceOf(Bank(s), processed_trans[s], a)
                    /\ \A g \in Prefixes(processed_trans[s]) : BalanceOf(Bank(s), g, a) >= 0
    BY DEF HistoriesExplain, Explains
<1>1. balance_map[s][a] = 0 /\ processed_trans[s] = <<>>
    BY DEF Init, ServerInit, ServersStart
<1>2. BalanceOf(Bank(s), <<>>, a) = 0
  <2>1. <<>> \in Seq(Request) /\ Len(<<>>) = 0
      OBVIOUS
  <2>2. PICK w : IsBalanceWalk(w, Bank(s), <<>>, a)
      BY <2>1, BalanceWalk
  <2> QED
      BY <2>1, <2>2 DEF IsBalanceWalk
<1>3. \A g \in Prefixes(<<>>) : g = <<>>
    BY DEF Prefixes
<1> QED
    BY <1>1, <1>2, <1>3

\* A head that judges an update keeps its balances explained.
LEMMA RecUpdateExplained ==
    ASSUME ProperEntries, FreshCopies, RightBanks, HistoriesExplain,
           NEW s \in Servers, RecUpdate(s)
    PROVE  HistoriesExplain'
<1>0. /\ TopologyInit /\ processed_trans \in [Servers -> Seq(Request)]
      /\ balance_map \in [Servers -> [Accounts -> Int]]
    BY DEF FreshCopies, HeadFrame, TypeOK, ServerTypeOK
<1>1. PICK m \in LettersIn(to_server), r \in Request : HeadHandles(s, m, r)
    BY RecUpdateFresh
<1> DEFINE h == processed_trans[s]
           same == CheckSameReq(h, insuf_funds_trans[s], m.req)
           judged == ProcessUpdate(Bank(s), balance_map[s], same, m.req)
<1>2. /\ m.req \in Reached(Bank(s)) /\ m.req.type \in Updates /\ m.req \in Request
      /\ r = [m.req EXCEPT !.status = judged.status, !.req_seq = req_seq[s] + 1]
      /\ balance_map' = [balance_map EXCEPT ![s] = judged.balances]
      /\ processed_trans' = [processed_trans EXCEPT ![s] = Filing("Need", h, Forwarding(r))]
  <2>1. m.req \in Reached(Bank(s))
      BY <1>1 DEF HeadHandles, RightBanks, RightMail, LettersIn
  <2> QED
      BY <1>1, <2>1 DEF HeadHandles, Reached
<1>3. r.status = judged.status /\ Bank(s) \in Banks
    BY <1>0, <1>2, Places DEF Request
<1>4. /\ \A a \in Accounts : balance_map[s][a] >= 0
      /\ Explains(h, Bank(s), balance_map[s])
    BY <1>0, ExplainedNow DEF HistoriesExplain
<1>5. \A a \in Accounts :
         /\ judged.balances[a] = balance_map[s][a] +
               IF judged.status = "Need" THEN Effect(Bank(s), m.req, a) ELSE 0
         /\ judged.balances[a] >= 0
  <2> HIDE DEF same
  <2> QED
      BY <1>0, <1>2, <1>3, <1>4, HeadBalances
<1> HIDE DEF judged
<1>6. Explains(Filing("Need", h, Forwarding(r)), Bank(s), judged.balances)
  <2>1. CASE judged.status = "Need"
    <3>1. \A a \in Accounts : Effect(Bank(s), r, a) = Effect(Bank(s), m.req, a)
      <4>1. \E status, number : r = [m.req EXCEPT !.status = status, !.req_seq = number]
          BY <1>2
      <4> QED
          BY <1>2, <4>1, EffectOfRecord
    <3>2. \A a \in Accounts : /\ judged.balances[a] = balance_map[s][a] + Effect(Bank(s), r, a)
                              /\ judged.balances[a] >= 0
        BY <1>5, <2>1, <3>1
    <3>3. Explains(Record(h, r), Bank(s), judged.balances)
        BY <1>0, <1>4, <3>2, ExplainedRecord
    <3> QED
        BY <1>3, <2>1, <3>3 DEF Filing, Forwarding
  <2>2. CASE judged.status # "Need"
    <3>1. \A a \in Accounts : judged.balances[a] = balance_map[s][a]
        BY <1>0, <1>5, <2>2
    <3> QED
        BY <1>3, <1>4, <2>2, <3>1 DEF Filing, Forwarding, Explains
  <2> QED
      BY <2>1, <2>2
<1> HIDE DEF h
<1>7. ASSUME NEW t \in Servers
      PROVE  Explains(processed_trans'[t], Bank(t), balance_map'[t])
  <2>1. CASE t = s
      BY <1>0, <1>2, <1>6, <2>1
  <2>2. CASE t # s
      BY <1>0, <1>2, <2>2 DEF HistoriesExplain
  <2> QED
      BY <2>1, <2>2
<1> QED
    BY <1>7 DEF HistoriesExplain

\* So does a server behind it: what the head covered its own history covers, since
\* it will be the history of its predecessor.
LEMMA RecForwardExplained ==
    ASSUME ProperEntries, FreshCopies, RightBanks, UpdatePropagation, HistoriesExplain,
           NEW s \in Servers, RecForward(s)
    PROVE  HistoriesExplain'
<1>0. /\ TopologyInit /\ processed_trans \in [Servers -> Seq(Request)]
      /\ balance_map \in [Servers -> [Accounts -> Int]]
      /\ from_pre \in [Servers -> Seq(Forwards)]
    BY DEF FreshCopies, HeadFrame, TypeOK, ServerTypeOK
<1>1. PICK q \in Request : Relays(s, q) /\ ~IsFirst(s)
    BY RecForwardFresh
<1> DEFINE h == processed_trans[s]
           f == Head(from_pre[s])
           next == Filing("Need", h, f)
           p == Prev1(s)
           later == IF q.status = "Need" THEN UpdateBalance(Bank(s), balance_map[s], q)
                                         ELSE balance_map[s]
<1>2. /\ from_pre[s] # <<>> /\ q = f.req /\ f \in Forwards
      /\ balance_map' = [balance_map EXCEPT ![s] = later]
      /\ processed_trans' = [processed_trans EXCEPT ![s] = next]
    BY <1>0, <1>1 DEF Relays
<1>3. q \in Reached(Bank(s)) /\ Bank(s) \in Banks
  <2>1. from_pre[s] \in Seq(ReachedForwards(Bank(s)))
      BY DEF RightBanks
  <2>2. f \in ReachedForwards(Bank(s))
      BY <1>2, <2>1
  <2> QED
      BY <1>0, <1>2, <2>2, Places DEF ReachedForwards
<1>4. Explains(h, Bank(s), balance_map[s]) /\ h \in Seq(Request)
    BY <1>0 DEF HistoriesExplain
<1>5. next \in Prefixes(processed_trans[p]) /\ p \in Servers /\ Bank(p) = Bank(s)
  <2>1. p \in Servers /\ Bank(p) = Bank(s) /\ Next1(p) = s
      BY <1>0, <1>1, Places
  <2>2. processed_trans[p] = AfterReading("Need", h, from_pre[s])
    <3> DEFINE e == <<p, s>>
    <3>1. e \in Neighbours /\ e[1] = p /\ e[2] = s
        BY <2>1 DEF Neighbours
    <3> HIDE DEF e, p
    <3> QED
        BY <3>1 DEF UpdatePropagation
  <2>3. /\ next \in Seq(Request) /\ Tail(from_pre[s]) \in Seq(Forwards)
        /\ from_pre[s] \in Seq(Forwards)
      BY <1>0, <1>2, <1>4, FilingType
  <2>4. processed_trans[p] = AfterReading("Need", next, Tail(from_pre[s]))
      BY <1>2, <1>4, <2>2, <2>3, ReadingFirst
  <2>5. /\ Len(next) <= Len(processed_trans[p])
        /\ \A i \in 1 .. Len(next) : processed_trans[p][i] = next[i]
    <3> DEFINE rest == Tail(from_pre[s])
    <3>1. next \in Seq(Request) /\ rest \in Seq(Forwards)
        BY <2>3
    <3> HIDE DEF next, p, rest
    <3>2. /\ Len(next) <= Len(AfterReading("Need", next, rest))
          /\ \A i \in 1 .. Len(next) : AfterReading("Need", next, rest)[i] = next[i]
        BY <3>1, ReadingExtends
    <3> QED
        BY <2>4, <3>2 DEF rest
  <2> HIDE DEF next, p
  <2> QED
      BY <1>0, <2>1, <2>3, <2>5, PrefixMember
<1>6. \A a \in Accounts : BalanceOf(Bank(s), next, a) >= 0
    BY <1>5 DEF HistoriesExplain, Explains
<1> HIDE DEF f, p
<1>7. Explains(next, Bank(s), later)
  <2>1. CASE q.status = "Need"
    <3> DEFINE record == [q EXCEPT !.status = "Processed"]
    <3>1. next = Append(h, record) /\ next = Record(h, q) /\ record \in Request
        BY <1>2, <2>1 DEF Filing, Record, Request, Statuses
    <3>2. \E status, number : record = [q EXCEPT !.status = status, !.req_seq = number]
      <4>1. record = [q EXCEPT !.status = "Processed", !.req_seq = q.req_seq]
          BY DEF Request
      <4> QED
          BY <4>1
    <3> HIDE DEF record
    <3>3. ASSUME NEW a \in Accounts
          PROVE  /\ balance_map[s][a] + Effect(Bank(s), q, a) >= 0
                 /\ Effect(Bank(s), q, a) \in Int
      <4>1. BalanceOf(Bank(s), Append(h, record), a) =
               BalanceOf(Bank(s), h, a) + Effect(Bank(s), record, a)
          BY <1>4, <3>1, BalanceAppend
      <4>2. Effect(Bank(s), record, a) = Effect(Bank(s), q, a)
            /\ Effect(Bank(s), q, a) \in Int
          BY <3>2, EffectOfRecord
      <4>3. balance_map[s][a] = BalanceOf(Bank(s), h, a)
          BY <1>4 DEF Explains
      <4>4. BalanceOf(Bank(s), Append(h, record), a) >= 0
          BY <1>6, <3>1
      <4> QED
          BY <4>1, <4>2, <4>3, <4>4
    <3>4. \A a \in Accounts :
             UpdateBalance(Bank(s), balance_map[s], q)[a] =
                balance_map[s][a] + Effect(Bank(s), q, a)
        BY <1>0, <1>3, <3>3, FollowerBalances
    <3>5. \A a \in Accounts : /\ later[a] = balance_map[s][a] + Effect(Bank(s), q, a)
                              /\ later[a] >= 0
        BY <2>1, <3>3, <3>4
    <3> HIDE DEF later, next
    <3>6. Explains(Record(h, q), Bank(s), later)
        BY <1>4, <3>5, ExplainedRecord
    <3> QED
        BY <3>1, <3>6
  <2>2. CASE q.status # "Need"
      BY <1>2, <1>4, <2>2 DEF Filing
  <2> QED
      BY <2>1, <2>2
<1> HIDE DEF h, next, later
<1>8. ASSUME NEW t \in Servers
      PROVE  Explains(processed_trans'[t], Bank(t), balance_map'[t])
  <2>1. CASE t = s
      BY <1>0, <1>2, <1>7, <2>1
  <2>2. CASE t # s
      BY <1>0, <1>2, <2>2 DEF HistoriesExplain
  <2> QED
      BY <2>1, <2>2
<1> QED
    BY <1>8 DEF HistoriesExplain

\* Every step keeps the balances explained.
LEMMA ExplainedStep ==
    ASSUME ProperEntries, FreshCopies, RightBanks, UpdatePropagation, HistoriesExplain,
           [Next]_vars
    PROVE  HistoriesExplain'
<1>1. ASSUME UNCHANGED <<processed_trans, balance_map>>
      PROVE  HistoriesExplain'
    BY <1>1 DEF HistoriesExplain
<1>2. ASSUME NEW s \in Servers, ServerStep(s)
      PROVE  HistoriesExplain'
  <2>1. ASSUME RecQuery(s) \/ RecUnknown(s) \/ RecAck(s) \/ RecOtherBank(s)
        PROVE  HistoriesExplain'
      BY <1>1, <2>1 DEF RecQuery, RecUnknown, RecAck, RecOtherBank, serverState
  <2> QED
      BY <1>2, <2>1, RecUpdateExplained, RecForwardExplained
      DEF ServerStep, ReceiveStep, RecClient
<1>3. ASSUME NEW c \in Clients, ClientStep(c)
      PROVE  HistoriesExplain'
  <2>1. UNCHANGED serverState
      BY <1>3 DEF ClientStep, StartClient, RecvMsg, RecvReply, RecvSetHeadTail, CheckReceive
  <2> QED
      BY <1>1, <2>1 DEF serverState
<1>4. ASSUME Lose \/ UNCHANGED vars
      PROVE  HistoriesExplain'
    BY <1>1, <1>4 DEF Lose, vars, serverState
<1> QED
    BY <1>2, <1>3, <1>4 DEF Next

\* Without resends the balances of every server are what its history of executed
\* updates adds up to, and no prefix of a history overdraws an account: no
\* withdrawal or transfer is ever executed uncovered, at any server of any bank
\* (process_withdraw, process_transfer, update_balance).
THEOREM BalancesExplainedCorrect ==
    NoResends /\ ProperEntries => (Spec => []BalancesExplained)
<1> SUFFICES ASSUME NoResends, ProperEntries PROVE Spec => []BalancesExplained
    OBVIOUS
<1>1. Init => HistoriesExplain
    BY ExplainsInit
<1>2. FreshCopies /\ RightBanks /\ UpdatePropagation /\ HistoriesExplain /\ [Next]_vars
         => HistoriesExplain'
    BY ExplainedStep
<1>3. FreshCopies /\ HistoriesExplain => BalancesExplained
  <2> SUFFICES ASSUME FreshCopies, HistoriesExplain, NEW s \in Servers, NEW a \in Accounts
               PROVE  /\ balance_map[s][a] = BalanceOf(Bank(s), processed_trans[s], a)
                      /\ balance_map[s][a] >= 0
      BY DEF BalancesExplained
  <2>1. processed_trans[s] \in Seq(Request)
      BY DEF FreshCopies, HeadFrame, TypeOK, ServerTypeOK
  <2> QED
      BY <2>1, ExplainedNow DEF HistoriesExplain
<1>4. Spec => []FreshCopies /\ []RightBanks /\ []UpdatePropagation
    BY FreshCopiesCorrect, RightBanksCorrect, UpdatePropagationCorrect
<1> QED
    BY <1>1, <1>2, <1>3, <1>4, PTL DEF Spec

--------------------------------------------------------------------------------
\* Lists that are divided.

\* What a server has passed on is divided among what its successor has not read,
\* what its successor keeps, and the acknowledgements that it has not read.
Shares(whole, unread, kept, done) ==
    /\ Distinct(whole) /\ Distinct(unread) /\ Distinct(kept) /\ Distinct(done)
    /\ Names(whole) = Names(unread) \cup Names(kept) \cup Names(done)
    /\ Names(unread) \cap Names(kept) = {}
    /\ Names(unread) \cap Names(done) = {}
    /\ Names(kept) \cap Names(done) = {}
    /\ Len(whole) = Len(unread) + Len(kept) + Len(done)

\* An update is taken up and passed on.
LEMMA SharesTakes ==
    ASSUME NEW whole \in Seq(Request), NEW unread \in Seq(Request),
           NEW kept \in Seq(Request), NEW done \in Seq(Request),
           Shares(whole, unread, kept, done),
           NEW q \in Request, NameOf(q) \notin Names(whole)
    PROVE  Shares(Append(whole, q), Append(unread, q), kept, done)
<1> DEFINE whole2 == Append(whole, q)
           unread2 == Append(unread, q)
<1>1. /\ Distinct(whole2) /\ Names(whole2) = Names(whole) \cup {NameOf(q)}
      /\ Len(whole2) = Len(whole) + 1
    BY NamesAppend DEF Shares
<1>2. /\ Distinct(unread2) /\ Names(unread2) = Names(unread) \cup {NameOf(q)}
      /\ Len(unread2) = Len(unread) + 1
  <2>1. NameOf(q) \notin Names(unread)
      BY DEF Shares
  <2> QED
      BY <2>1, NamesAppend DEF Shares
<1> HIDE DEF whole2, unread2
<1>3. Len(whole2) = Len(unread2) + Len(kept) + Len(done)
  <2>1. Len(unread) \in Nat /\ Len(kept) \in Nat /\ Len(done) \in Nat
      OBVIOUS
  <2>2. Len(whole) = Len(unread) + Len(kept) + Len(done)
      BY DEF Shares
  <2> QED
      BY <1>1, <1>2, <2>1, <2>2
<1>4. Shares(whole2, unread2, kept, done)
    BY <1>1, <1>2, <1>3 DEF Shares
<1> QED
    BY <1>4 DEF whole2, unread2

\* The successor reads an update and keeps it.
LEMMA SharesKeeps ==
    ASSUME NEW whole \in Seq(Request), NEW unread \in Seq(Request),
           NEW kept \in Seq(Request), NEW done \in Seq(Request),
           Shares(whole, unread, kept, done), unread # <<>>
    PROVE  Shares(whole, Tail(unread), Append(kept, Head(unread)), done)
<1> DEFINE q == Head(unread)
           unread2 == Tail(unread)
           kept2 == Append(kept, q)
<1>1. /\ q \in Request /\ NameOf(q) \in Names(unread)
      /\ Distinct(unread2) /\ Names(unread2) = Names(unread) \ {NameOf(q)}
      /\ Len(unread2) = Len(unread) - 1
    BY NamesTail DEF Shares
<1> HIDE DEF q, unread2
<1>2. /\ Distinct(kept2) /\ Names(kept2) = Names(kept) \cup {NameOf(q)}
      /\ Len(kept2) = Len(kept) + 1
  <2>1. NameOf(q) \notin Names(kept)
      BY <1>1 DEF Shares
  <2> QED
      BY <1>1, <2>1, NamesAppend DEF Shares
<1> HIDE DEF kept2
<1>3. Len(whole) = Len(unread2) + Len(kept2) + Len(done)
  <2>1. Len(unread) \in Nat /\ Len(kept) \in Nat /\ Len(done) \in Nat
      OBVIOUS
  <2>2. Len(whole) = Len(unread) + Len(kept) + Len(done)
      BY DEF Shares
  <2> QED
      BY <1>1, <1>2, <2>1, <2>2
<1>4. Shares(whole, unread2, kept2, done)
    BY <1>1, <1>2, <1>3 DEF Shares
<1> QED
    BY <1>4 DEF unread2, kept2, q

\* The successor reads an update, keeps nothing and acknowledges it.
LEMMA SharesCloses ==
    ASSUME NEW whole \in Seq(Request), NEW unread \in Seq(Request),
           NEW kept \in Seq(Request), NEW done \in Seq(Request),
           Shares(whole, unread, kept, done), unread # <<>>
    PROVE  Shares(whole, Tail(unread), kept, Append(done, Head(unread)))
<1> DEFINE q == Head(unread)
           unread2 == Tail(unread)
           done2 == Append(done, q)
<1>1. /\ q \in Request /\ NameOf(q) \in Names(unread)
      /\ Distinct(unread2) /\ Names(unread2) = Names(unread) \ {NameOf(q)}
      /\ Len(unread2) = Len(unread) - 1
    BY NamesTail DEF Shares
<1> HIDE DEF q, unread2
<1>2. /\ Distinct(done2) /\ Names(done2) = Names(done) \cup {NameOf(q)}
      /\ Len(done2) = Len(done) + 1
  <2>1. NameOf(q) \notin Names(done)
      BY <1>1 DEF Shares
  <2> QED
      BY <1>1, <2>1, NamesAppend DEF Shares
<1> HIDE DEF done2
<1>3. Len(whole) = Len(unread2) + Len(kept) + Len(done2)
  <2>1. Len(unread) \in Nat /\ Len(kept) \in Nat /\ Len(done) \in Nat
      OBVIOUS
  <2>2. Len(whole) = Len(unread) + Len(kept) + Len(done)
      BY DEF Shares
  <2> QED
      BY <1>1, <1>2, <2>1, <2>2
<1>4. Shares(whole, unread2, kept, done2)
    BY <1>1, <1>2, <1>3 DEF Shares
<1> QED
    BY <1>4 DEF unread2, done2, q

\* The successor acknowledges an update it has kept.
LEMMA SharesAcks ==
    ASSUME NEW whole \in Seq(Request), NEW unread \in Seq(Request),
           NEW kept \in Seq(Request), NEW done \in Seq(Request),
           Shares(whole, unread, kept, done),
           NEW q \in Request, NameOf(q) \in Names(kept)
    PROVE  Shares(whole, unread, DeleteSent(kept, q), Append(done, q))
<1> DEFINE kept2 == DeleteSent(kept, q)
           done2 == Append(done, q)
<1>1. /\ Distinct(kept2) /\ Names(kept2) = Names(kept) \ {NameOf(q)}
      /\ Len(kept2) = Len(kept) - 1
    BY NamesDelete DEF Shares
<1> HIDE DEF kept2
<1>2. /\ Distinct(done2) /\ Names(done2) = Names(done) \cup {NameOf(q)}
      /\ Len(done2) = Len(done) + 1
  <2>1. NameOf(q) \notin Names(done)
      BY DEF Shares
  <2> QED
      BY <2>1, NamesAppend DEF Shares
<1> HIDE DEF done2
<1>3. Len(whole) = Len(unread) + Len(kept2) + Len(done2)
  <2>1. Len(unread) \in Nat /\ Len(kept) \in Nat /\ Len(done) \in Nat
      OBVIOUS
  <2>2. Len(whole) = Len(unread) + Len(kept) + Len(done)
      BY DEF Shares
  <2> QED
      BY <1>1, <1>2, <2>1, <2>2
<1>4. Shares(whole, unread, kept2, done2)
    BY <1>1, <1>2, <1>3 DEF Shares
<1> QED
    BY <1>4 DEF kept2, done2

\* An acknowledgement is read.
LEMMA SharesDone ==
    ASSUME NEW whole \in Seq(Request), NEW unread \in Seq(Request),
           NEW kept \in Seq(Request), NEW done \in Seq(Request),
           Shares(whole, unread, kept, done), done # <<>>
    PROVE  Shares(DeleteSent(whole, Head(done)), unread, kept, Tail(done))
<1> DEFINE q == Head(done)
           done2 == Tail(done)
           whole2 == DeleteSent(whole, q)
<1>1. /\ q \in Request /\ NameOf(q) \in Names(done)
      /\ Distinct(done2) /\ Names(done2) = Names(done) \ {NameOf(q)}
      /\ Len(done2) = Len(done) - 1
    BY NamesTail DEF Shares
<1> HIDE DEF q, done2
<1>2. /\ Distinct(whole2) /\ Names(whole2) = Names(whole) \ {NameOf(q)}
      /\ Len(whole2) = Len(whole) - 1
  <2>1. NameOf(q) \in Names(whole)
      BY <1>1 DEF Shares
  <2> QED
      BY <1>1, <2>1, NamesDelete DEF Shares
<1> HIDE DEF whole2
<1>3. Len(whole2) = Len(unread) + Len(kept) + Len(done2)
  <2>1. Len(unread) \in Nat /\ Len(kept) \in Nat /\ Len(done) \in Nat
      OBVIOUS
  <2>2. Len(whole) = Len(unread) + Len(kept) + Len(done)
      BY DEF Shares
  <2> QED
      BY <1>1, <1>2, <2>1, <2>2
<1>4. Shares(whole2, unread, kept, done2)
    BY <1>1, <1>2, <1>3 DEF Shares
<1> QED
    BY <1>4 DEF whole2, done2, q

--------------------------------------------------------------------------------
\* The lists of neighbours.

\* The `sent` of p is divided between the stream to s, the `sent` of s and the
\* acknowledgements from s.
Divided(p, s) == Shares(sent[p], Carried(from_pre[s]), sent[s], from_next[p])

\* Every server's `sent` is divided between it and its successor, no server has
\* a name twice, and nobody acknowledges to a tail.
ListsDivided ==
    /\ \A e \in Neighbours : Divided(e[1], e[2])
    /\ \A s \in Servers : Distinct(sent[s])
    /\ \A s \in Servers : IsLast(s) => from_next[s] = <<>>

\* Neighbours are next to each other and to no other server.
LEMMA NeighbourPair ==
    ASSUME TopologyInit, NEW p, NEW s, <<p, s>> \in Neighbours
    PROVE  /\ p \in Servers /\ s \in Servers /\ s = Next1(p) /\ p # s
           /\ my_type[p] \in {"HEAD", "INTER"} /\ ~IsLast(p)
           /\ ~IsFirst(s) /\ Prev1(s) = p
           /\ \A x \in Servers : Next1(x) = s => x = p
           /\ \A x \in Servers : ~IsFirst(x) /\ Prev1(x) = p => x = s
<1> DEFINE e == <<p, s>>
<1>1. /\ e[1] \in Servers /\ e[2] \in Servers /\ e[2] = Next1(e[1]) /\ e[1] # e[2]
      /\ my_type[e[1]] \in {"HEAD", "INTER"}
      /\ ~IsFirst(e[2]) /\ Prev1(e[2]) = e[1]
      /\ \A x \in Servers : Next1(x) = e[2] => x = e[1]
  <2> HIDE DEF e
  <2> QED
      BY NeighboursLinked DEF e
<1>2. ~IsLast(p)
    BY <1>1, Places
<1>3. \A x \in Servers : ~IsFirst(x) /\ Prev1(x) = p => x = s
    BY <1>1, Places
<1> QED
    BY <1>1, <1>2, <1>3

\* The lists of the servers are lists of requests.
LEMMA ListTypes ==
    ASSUME TypeOK
    PROVE  /\ sent \in [Servers -> Seq(Request)]
           /\ from_next \in [Servers -> Seq(Request)]
           /\ from_pre \in [Servers -> Seq(Forwards)]
           /\ \A s \in Servers : /\ sent[s] \in Seq(Request)
                                 /\ from_next[s] \in Seq(Request)
                                 /\ from_pre[s] \in Seq(Forwards)
                                 /\ Carried(from_pre[s]) \in Seq(Request)
<1>1. /\ sent \in [Servers -> Seq(Request)]
      /\ from_next \in [Servers -> Seq(Request)]
      /\ from_pre \in [Servers -> Seq(Forwards)]
    BY DEF TypeOK, ServerTypeOK
<1> QED
    BY <1>1, CarriedList

\* A request entered under a new name leaves the names distinct.
LEMMA SentDistinctAppend ==
    ASSUME TypeOK, \A t \in Servers : Distinct(sent[t]), NEW s \in Servers,
           NEW r \in Request, NameOf(r) \notin Names(sent[s]), NEW P,
           sent' = [sent EXCEPT ![s] = IF P THEN Append(@, r) ELSE @]
    PROVE  \A t \in Servers : Distinct(sent'[t])
<1>1. sent \in [Servers -> Seq(Request)] /\ sent[s] \in Seq(Request)
    BY ListTypes
<1>2. Distinct(Append(sent[s], r))
    BY <1>1, NamesAppend
<1> QED
    BY <1>1, <1>2

\* delete_sent takes one name out of one list.
LEMMA SentDistinctDelete ==
    ASSUME TypeOK, \A t \in Servers : Distinct(sent[t]), NEW s \in Servers, NEW q,
           sent' = [sent EXCEPT ![s] = DeleteSent(@, q)]
    PROVE  /\ \A t \in Servers : Distinct(sent'[t])
           /\ Names(sent'[s]) = Names(sent[s]) \ {NameOf(q)}
           /\ \A t \in Servers \ {s} : sent'[t] = sent[t]
<1>1. sent \in [Servers -> Seq(Request)] /\ sent[s] \in Seq(Request)
    BY ListTypes
<1>2. /\ Distinct(DeleteSent(sent[s], q))
      /\ Names(DeleteSent(sent[s], q)) = Names(sent[s]) \ {NameOf(q)}
    BY <1>1, NamesDelete
<1> QED
    BY <1>1, <1>2

\* An update taken up by a head stays divided.
LEMMA RecUpdateDivides ==
    ASSUME FreshCopies, ListsDivided, NEW x \in Servers, RecUpdate(x)
    PROVE  ListsDivided'
<1>0. TypeOK /\ TopologyInit
    BY DEF FreshCopies, HeadFrame
<1>1. PICK m \in LettersIn(to_server), r \in Request :
         HeadHandles(x, m, r) /\ IsFirst(x) /\ NameOf(r) \notin Names(sent[x])
    BY RecUpdateFresh
<1> DEFINE keeps == my_type[x] = "HEAD" \/ (my_type[x] = "HEAD_TAIL" /\ PaysAbroad(x, r))
<1>2. /\ sent' = [sent EXCEPT ![x] = IF keeps THEN Append(@, r) ELSE @]
      /\ from_pre' = IF my_type[x] = "HEAD"
                     THEN [from_pre EXCEPT ![Next1(x)] = Append(@, Forwarding(r))]
                     ELSE from_pre
      /\ from_next' = from_next
      /\ Forwarding(r) \in Forwards /\ Forwarding(r).req = r
    BY <1>1 DEF HeadHandles, Forwarding, Forwards
<1>3. ASSUME NEW p, NEW s, <<p, s>> \in Neighbours, Divided(p, s) PROVE Divided(p, s)'
  <2>1. /\ p \in Servers /\ s \in Servers /\ s = Next1(p) /\ p # s
        /\ my_type[p] \in {"HEAD", "INTER"} /\ ~IsFirst(s)
        /\ \A y \in Servers : Next1(y) = s => y = p
      BY <1>0, <1>3, NeighbourPair
  <2>2. sent'[s] = sent[s] /\ from_next'[p] = from_next[p]
    <3>1. x # s
        BY <1>1, <2>1
    <3> HIDE DEF keeps
    <3> QED
        BY <1>0, <1>2, <2>1, <3>1, ListTypes
  <2>3. CASE x = p
    <3>1. my_type[p] = "HEAD"
        BY <1>0, <1>1, <2>1, <2>3, Places
    <3>2. /\ sent'[p] = Append(sent[p], r)
          /\ from_pre'[s] = Append(from_pre[s], Forwarding(r))
        BY <1>0, <1>2, <2>1, <2>3, <3>1, ListTypes
    <3>3. Carried(from_pre'[s]) = Append(Carried(from_pre[s]), r)
        BY <1>0, <1>2, <2>1, <3>2, CarriedList, ListTypes
    <3>4. Shares(Append(sent[p], r), Append(Carried(from_pre[s]), r), sent[s], from_next[p])
        BY <1>0, <1>1, <1>3, <2>1, <2>3, SharesTakes, ListTypes DEF Divided
    <3> QED
        BY <2>2, <3>2, <3>3, <3>4 DEF Divided
  <2>4. CASE x # p
    <3>1. sent'[p] = sent[p] /\ from_pre'[s] = from_pre[s]
      <4> HIDE DEF keeps
      <4> QED
          BY <1>0, <1>2, <2>1, <2>4, ListTypes
    <3> QED
        BY <1>3, <2>2, <3>1 DEF Divided
  <2> QED
      BY <2>3, <2>4
<1>4. \A t \in Servers : Distinct(sent'[t])
  <2> HIDE DEF keeps
  <2> QED
      BY <1>0, <1>1, <1>2, SentDistinctAppend DEF ListsDivided
<1> QED
    BY <1>2, <1>3, <1>4 DEF ListsDivided, Neighbours

\* So does one taken up by a server behind it.
LEMMA RecForwardDivides ==
    ASSUME FreshCopies, ListsDivided, NEW x \in Servers, RecForward(x)
    PROVE  ListsDivided'
<1>0. TypeOK /\ TopologyInit
    BY DEF FreshCopies, HeadFrame
<1>1. PICK q \in Request :
         Relays(x, q) /\ ~IsFirst(x) /\ NameOf(q) \notin Names(sent[x])
    BY RecForwardFresh
<1> DEFINE f == Head(from_pre[x])
           inter == my_type[x] = "INTER"
           ships == my_type[x] = "TAIL" /\ PaysAbroad(x, q)
           closes == my_type[x] = "TAIL" /\ ~ships
           keeps == inter \/ ships
           rest == Pop(from_pre, x)
<1>2. /\ from_pre[x] # <<>> /\ q = f.req /\ f \in Forwards
      /\ sent' = [sent EXCEPT ![x] = IF keeps THEN Append(@, q) ELSE @]
      /\ from_pre' = IF inter THEN [rest EXCEPT ![Next1(x)] = Append(@, f)] ELSE rest
      /\ from_next' = IF closes THEN [from_next EXCEPT ![Prev1(x)] = Append(@, q)]
                                ELSE from_next
      /\ rest = [from_pre EXCEPT ![x] = Tail(from_pre[x])]
      /\ Tail(from_pre[x]) \in Seq(Forwards)
    BY <1>0, <1>1, ListTypes DEF Relays, Pop
<1>3. /\ keeps => ~closes
      /\ ~keeps => closes
      /\ inter => ~closes
      /\ rest \in [Servers -> Seq(Forwards)]
      /\ Prev1(x) \in Servers
    BY <1>0, <1>1, <1>2, Places, ListTypes, SMTT(30)
<1>a. closes => my_type[x] = "TAIL"
    OBVIOUS
<1>b. inter => my_type[x] = "INTER"
    OBVIOUS
<1> HIDE DEF f, inter, ships, closes, keeps, rest
<1>4. ASSUME NEW p, NEW s, <<p, s>> \in Neighbours, Divided(p, s) PROVE Divided(p, s)'
  <2>1. /\ p \in Servers /\ s \in Servers /\ s = Next1(p) /\ p # s /\ ~IsFirst(s)
        /\ my_type[p] \in {"HEAD", "INTER"} /\ Prev1(s) = p
        /\ \A y \in Servers : Next1(y) = s => y = p
        /\ \A y \in Servers : ~IsFirst(y) /\ Prev1(y) = p => y = s
      BY <1>0, <1>4, NeighbourPair
  <2>2. CASE x = s
    <3>1. sent'[p] = sent[p]
        BY <1>0, <1>2, <2>1, <2>2, ListTypes
    <3>2. from_pre'[s] = Tail(from_pre[s])
      <4>1. inter => Next1(s) # s
          BY <1>0, <1>b, <2>1, <2>2, Places
      <4> QED
          BY <1>2, <1>3, <2>1, <2>2, <4>1, ListTypes, <1>0
    <3>3. /\ Carried(from_pre[s]) # <<>>
          /\ Head(Carried(from_pre[s])) = q
          /\ Carried(from_pre'[s]) = Tail(Carried(from_pre[s]))
        BY <1>0, <1>2, <2>1, <2>2, <3>2, CarriedList, ListTypes DEF f
    <3>4. CASE keeps
      <4>1. sent'[s] = Append(sent[s], q) /\ from_next'[p] = from_next[p]
          BY <1>0, <1>2, <1>3, <2>1, <2>2, <3>4, ListTypes
      <4>2. Shares(sent[p], Tail(Carried(from_pre[s])),
                   Append(sent[s], Head(Carried(from_pre[s]))), from_next[p])
          BY <1>0, <1>4, <2>1, <3>3, SharesKeeps, ListTypes DEF Divided
      <4> QED
          BY <3>1, <3>3, <4>1, <4>2 DEF Divided
    <3>5. CASE ~keeps
      <4>1. sent'[s] = sent[s] /\ from_next'[p] = Append(from_next[p], q)
          BY <1>0, <1>2, <1>3, <2>1, <2>2, <3>5, ListTypes
      <4>2. Shares(sent[p], Tail(Carried(from_pre[s])), sent[s],
                   Append(from_next[p], Head(Carried(from_pre[s]))))
          BY <1>0, <1>4, <2>1, <3>3, SharesCloses, ListTypes DEF Divided
      <4> QED
          BY <3>1, <3>3, <4>1, <4>2 DEF Divided
    <3> QED
        BY <3>4, <3>5
  <2>3. CASE x # s
    <3>1. sent'[s] = sent[s] /\ from_next'[p] = from_next[p]
      <4>1. sent'[s] = sent[s]
          BY <1>0, <1>2, <2>1, <2>3, ListTypes
      <4>2. Prev1(x) # p
          BY <1>1, <2>1, <2>3
      <4> QED
          BY <1>0, <1>2, <2>1, <4>1, <4>2, ListTypes
    <3>2. CASE x = p
      <4>1. inter /\ keeps
          BY <1>0, <1>1, <2>1, <3>2, Places DEF inter, keeps
      <4>2. /\ sent'[p] = Append(sent[p], q)
            /\ from_pre'[s] = Append(from_pre[s], f)
          BY <1>0, <1>2, <1>3, <2>1, <3>2, <4>1, ListTypes
      <4>3. Carried(from_pre'[s]) = Append(Carried(from_pre[s]), q)
          BY <1>0, <1>2, <2>1, <4>2, CarriedList, ListTypes, SMTT(30)
      <4>4. Shares(Append(sent[p], q), Append(Carried(from_pre[s]), q), sent[s], from_next[p])
          BY <1>0, <1>1, <1>4, <2>1, <3>2, SharesTakes, ListTypes DEF Divided
      <4> QED
          BY <3>1, <4>2, <4>3, <4>4 DEF Divided
    <3>3. CASE x # p
      <4>1. sent'[p] = sent[p]
          BY <1>0, <1>2, <2>1, <3>3, ListTypes
      <4>2. Next1(x) # s
          BY <2>1, <3>3
      <4>3. from_pre'[s] = from_pre[s]
          BY <1>0, <1>2, <1>3, <2>1, <2>3, <4>2, ListTypes
      <4> QED
          BY <1>4, <3>1, <4>1, <4>3 DEF Divided
    <3> QED
        BY <3>2, <3>3
  <2> QED
      BY <2>2, <2>3
<1>5. \A t \in Servers : Distinct(sent'[t])
    BY <1>0, <1>1, <1>2, SentDistinctAppend DEF ListsDivided
<1>6. \A t \in Servers : IsLast(t) => from_next'[t] = <<>>
  <2>1. closes => ~IsLast(Prev1(x))
    <3>1. <<Prev1(x), x>> \in Neighbours
        BY <1>0, <1>1, Places DEF Neighbours
    <3> QED
        BY <1>0, <3>1, NeighbourPair
  <2> QED
      BY <1>0, <1>2, <1>3, <2>1, ListTypes DEF ListsDivided
<1> QED
    BY <1>4, <1>5, <1>6 DEF ListsDivided, Neighbours

--------------------------------------------------------------------------------
\* Acknowledgements within a bank.

\* What a server that reads an acknowledgement has and passes on.
LEMMA AckAtHand ==
    ASSUME TypeOK, TopologyInit, ListsDivided, NEW x \in Servers, from_next[x] # <<>>
    PROVE  /\ ~IsLast(x) /\ my_type[x] \in {"HEAD", "INTER"}
           /\ <<x, Next1(x)>> \in Neighbours /\ Divided(x, Next1(x))
           /\ Head(from_next[x]) \in Request
           /\ NameOf(Head(from_next[x])) \in Names(sent[x])
           /\ NameOf(Head(from_next[x])) \in Names(from_next[x])
           /\ Tail(from_next[x]) \in Seq(Request)
<1>1. ~IsLast(x) /\ my_type[x] \in {"HEAD", "INTER"}
  <2>1. ~IsLast(x)
      BY DEF ListsDivided
  <2>2. my_type[x] \in Roles
      BY DEF TypeOK, ServerTypeOK, TopologyTypeOK
  <2> QED
      BY <2>1, <2>2, Places DEF Roles
<1>2. <<x, Next1(x)>> \in Neighbours
    BY <1>1, Places DEF Neighbours
<1>3. Divided(x, Next1(x))
    BY <1>2 DEF ListsDivided
<1>4. /\ Head(from_next[x]) \in Request
      /\ NameOf(Head(from_next[x])) \in Names(from_next[x])
      /\ Tail(from_next[x]) \in Seq(Request)
    BY NamesTail, ListTypes
<1>5. NameOf(Head(from_next[x])) \in Names(sent[x])
    BY <1>3, <1>4 DEF Divided, Shares
<1> QED
    BY <1>1, <1>2, <1>3, <1>4, <1>5

\* So does one that is acknowledged.
LEMMA RecAckDivides ==
    ASSUME FreshCopies, ListsDivided, NEW x \in Servers, RecAck(x)
    PROVE  ListsDivided'
<1>0. TypeOK /\ TopologyInit /\ from_next[x] # <<>>
    BY DEF FreshCopies, HeadFrame, RecAck
<1> DEFINE q == Head(from_next[x])
           rest == Pop(from_next, x)
           first == IsFirst(x)
<1>1. /\ ~IsLast(x) /\ my_type[x] \in {"HEAD", "INTER"}
      /\ <<x, Next1(x)>> \in Neighbours
      /\ q \in Request /\ NameOf(q) \in Names(sent[x])
      /\ Tail(from_next[x]) \in Seq(Request)
    BY <1>0, AckAtHand
<1>2. /\ sent' = [sent EXCEPT ![x] = DeleteSent(@, q)]
      /\ from_next' = IF first THEN rest
                      ELSE [rest EXCEPT ![Prev1(x)] = Append(@, q)]
      /\ from_pre' = from_pre
      /\ rest = [from_next EXCEPT ![x] = Tail(from_next[x])]
  <2>1. /\ sent' = [sent EXCEPT ![x] = DeleteSent(@, q)]
        /\ from_next' = IF Heads(x) THEN rest ELSE AckToPre(rest, x, q)
        /\ from_pre' = from_pre
      BY DEF RecAck
  <2>2. Heads(x) <=> first
      BY <1>0, Places
  <2>3. ~first => pre_fd[x] = Prev1(x) /\ Prev1(x) # NoServer
      BY <1>0, Places
  <2> QED
      BY <2>1, <2>2, <2>3 DEF AckToPre, Push, Pop
<1>3. /\ rest \in [Servers -> Seq(Request)]
      /\ ~first => Prev1(x) \in Servers /\ Prev1(x) # x
    BY <1>0, <1>1, <1>2, Places, ListTypes
<1> HIDE DEF first, rest
<1>4. ASSUME NEW p, NEW s, <<p, s>> \in Neighbours, Divided(p, s) PROVE Divided(p, s)'
  <2>1. /\ p \in Servers /\ s \in Servers /\ s = Next1(p) /\ p # s /\ ~IsFirst(s)
        /\ Prev1(s) = p
        /\ \A y \in Servers : ~IsFirst(y) /\ Prev1(y) = p => y = s
      BY <1>0, <1>4, NeighbourPair
  <2>2. from_pre'[s] = from_pre[s]
      BY <1>2
  <2>3. CASE x = p
    <3>1. sent'[p] = DeleteSent(sent[p], q) /\ sent'[s] = sent[s]
        BY <1>0, <1>2, <2>1, <2>3, ListTypes
    <3>2. from_next'[p] = Tail(from_next[p])
        BY <1>0, <1>1, <1>2, <1>3, <2>1, <2>3, ListTypes
    <3>3. Shares(DeleteSent(sent[p], q), Carried(from_pre[s]), sent[s], Tail(from_next[p]))
        BY <1>0, <1>4, <2>1, <2>3, SharesDone, ListTypes DEF Divided
    <3> QED
        BY <2>2, <3>1, <3>2, <3>3 DEF Divided
  <2>4. CASE x = s
    <3>1. sent'[p] = sent[p] /\ sent'[s] = DeleteSent(sent[s], q)
        BY <1>0, <1>2, <2>1, <2>4, ListTypes
    <3>2. from_next'[p] = Append(from_next[p], q)
      <4>1. ~first
          BY <2>1, <2>4 DEF first
      <4>2. rest[p] = from_next[p]
          BY <1>0, <1>2, <2>1, <2>4, ListTypes
      <4> QED
          BY <1>2, <1>3, <2>1, <2>4, <4>1, <4>2
    <3>3. Shares(sent[p], Carried(from_pre[s]), DeleteSent(sent[s], q), Append(from_next[p], q))
        BY <1>0, <1>1, <1>4, <2>1, <2>4, SharesAcks, ListTypes DEF Divided
    <3> QED
        BY <2>2, <3>1, <3>2, <3>3 DEF Divided
  <2>5. CASE x # p /\ x # s
    <3>1. sent'[p] = sent[p] /\ sent'[s] = sent[s]
        BY <1>0, <1>2, <2>1, <2>5, ListTypes
    <3>2. from_next'[p] = from_next[p]
      <4>1. first \/ Prev1(x) # p
          BY <2>1, <2>5 DEF first
      <4>2. rest[p] = from_next[p]
          BY <1>0, <1>2, <2>1, <2>5, ListTypes
      <4> QED
          BY <1>2, <1>3, <2>1, <4>1, <4>2
    <3> QED
        BY <1>4, <2>2, <3>1, <3>2 DEF Divided
  <2> QED
      BY <2>3, <2>4, <2>5
<1>5. \A t \in Servers : Distinct(sent'[t])
    BY <1>0, <1>2, SentDistinctDelete DEF ListsDivided
<1>6. \A t \in Servers : IsLast(t) => from_next'[t] = <<>>
  <2>1. ~first => ~IsLast(Prev1(x))
    <3>1. ~first => <<Prev1(x), x>> \in Neighbours
        BY <1>0, Places DEF Neighbours, first
    <3> QED
        BY <1>0, <3>1, NeighbourPair
  <2>2. \A t \in Servers : IsLast(t) => rest[t] = <<>>
      BY <1>0, <1>1, <1>2, ListTypes DEF ListsDivided
  <2> QED
      BY <1>2, <1>3, <2>1, <2>2
<1> QED
    BY <1>4, <1>5, <1>6 DEF ListsDivided, Neighbours

\* A transfer that is acknowledged by the payee's bank leaves the last `sent`.
LEMMA RecOtherBankDivides ==
    ASSUME FreshCopies, ListsDivided, NEW x \in Servers, IsLast(x),
           NEW m \in DOMAIN to_server, RecOtherBank(x)!(m), from_pre' = from_pre,
           NameOf(m.req) \in Names(sent[x])
    PROVE  /\ ListsDivided'
           /\ Names(sent'[x]) = Names(sent[x]) \ {NameOf(m.req)}
           /\ \A t \in Servers \ {x} : sent'[t] = sent[t]
<1>0. TypeOK /\ TopologyInit
    BY DEF FreshCopies, HeadFrame
<1> DEFINE q == m.req
           first == IsFirst(x)
<1>1. q \in Request /\ NameOf(q) \in Names(sent[x])
    BY <1>0 DEF TypeOK, ServerTypeOK, Mails
<1>2. /\ sent' = [sent EXCEPT ![x] = DeleteSent(@, q)]
      /\ from_next' = IF first THEN from_next
                      ELSE [from_next EXCEPT ![Prev1(x)] = Append(@, q)]
  <2>1. Heads(x) <=> first
      BY <1>0, Places
  <2>2. ~first => pre_fd[x] = Prev1(x) /\ Prev1(x) # NoServer
      BY <1>0, Places
  <2> QED
      BY <2>1, <2>2 DEF AckToPre, Push
<1>3. ~first => Prev1(x) \in Servers /\ Prev1(x) # x
    BY <1>0, Places
<1> HIDE DEF first, q
<1>4. ASSUME NEW p, NEW s, <<p, s>> \in Neighbours, Divided(p, s) PROVE Divided(p, s)'
  <2>1. /\ p \in Servers /\ s \in Servers /\ p # s /\ ~IsFirst(s) /\ ~IsLast(p)
        /\ Prev1(s) = p
        /\ \A y \in Servers : ~IsFirst(y) /\ Prev1(y) = p => y = s
      BY <1>0, <1>4, NeighbourPair
  <2>2. x # p /\ sent'[p] = sent[p]
      BY <1>0, <1>2, <2>1, ListTypes
  <2>3. CASE x = s
    <3>1. sent'[s] = DeleteSent(sent[s], q)
        BY <1>0, <1>2, <2>1, <2>3, ListTypes
    <3>2. from_next'[p] = Append(from_next[p], q)
      <4>1. ~first /\ Prev1(x) = p
          BY <2>1, <2>3 DEF first
      <4>2. from_next' = [from_next EXCEPT ![p] = Append(@, q)]
          BY <1>2, <4>1, Zenon
      <4>3. from_next \in [Servers -> Seq(Request)]
          BY <1>0, ListTypes, Zenon
      <4> QED
          BY <2>1, <4>2, <4>3
    <3>3. Shares(sent[p], Carried(from_pre[s]), DeleteSent(sent[s], q), Append(from_next[p], q))
        BY <1>0, <1>1, <1>4, <2>1, <2>3, SharesAcks, ListTypes DEF Divided
    <3> QED
        BY <2>2, <3>1, <3>2, <3>3 DEF Divided
  <2>4. CASE x # s
    <3>1. sent'[s] = sent[s]
        BY <1>0, <1>2, <2>1, <2>4, ListTypes
    <3>2. from_next'[p] = from_next[p]
      <4>1. first \/ Prev1(x) # p
          BY <2>1, <2>4 DEF first
      <4> QED
          BY <1>0, <1>2, <1>3, <2>1, <4>1, ListTypes
    <3> QED
        BY <1>4, <2>2, <3>1, <3>2 DEF Divided
  <2> QED
      BY <2>3, <2>4
<1>5. /\ \A t \in Servers : Distinct(sent'[t])
      /\ Names(sent'[x]) = Names(sent[x]) \ {NameOf(q)}
      /\ \A t \in Servers \ {x} : sent'[t] = sent[t]
    BY <1>0, <1>2, SentDistinctDelete DEF ListsDivided
<1>6. \A t \in Servers : IsLast(t) => from_next'[t] = <<>>
  <2>1. ~first => ~IsLast(Prev1(x))
    <3>1. ~first => <<Prev1(x), x>> \in Neighbours
        BY <1>0, Places DEF Neighbours, first
    <3> QED
        BY <1>0, <3>1, NeighbourPair
  <2> QED
      BY <1>0, <1>2, <1>3, <2>1, ListTypes DEF ListsDivided
<1>7. ListsDivided'
    BY <1>4, <1>5, <1>6 DEF ListsDivided, Neighbours
<1> QED
    BY <1>5, <1>7 DEF q

\* What leaves the lists and streams alone leaves them divided.
LEMMA ListsRest ==
    ASSUME ListsDivided, sent' = sent, from_pre' = from_pre, from_next' = from_next
    PROVE  ListsDivided'
<1>1. \A e \in Neighbours : Divided(e[1], e[2])'
    BY DEF ListsDivided, Divided
<1> QED
    BY <1>1 DEF ListsDivided

\* What a server has in `sent`, those in front of it have, too.
LEMMA Nested ==
    ASSUME TopologyInit, ListsDivided, NEW u \in Servers, NEW v \in Servers,
           Bank(u) = Bank(v), u[2] <= v[2]
    PROVE  Names(sent[v]) \subseteq Names(sent[u])
<1> DEFINE at(i) == <<Bank(u), i>>
           T == {i \in Nat : at(i) \in Servers /\ u[2] <= i =>
                               Names(sent[at(i)]) \subseteq Names(sent[u])}
<1>1. 0 \in T
    BY Places
<1>2. ASSUME NEW i \in Nat, i \in T PROVE i + 1 \in T
  <2> SUFFICES ASSUME at(i + 1) \in Servers, u[2] <= i + 1
               PROVE  Names(sent[at(i + 1)]) \subseteq Names(sent[u])
      OBVIOUS
  <2>0. u[2] \in Nat \ {0} /\ u = <<Bank(u), u[2]>>
      BY Places
  <2>1. CASE u[2] = i + 1
    <3>1. at(i + 1) = u
        BY <2>0, <2>1
    <3> QED
        BY <3>1
  <2>2. CASE u[2] # i + 1
    <3>1. u[2] <= i /\ i # 0
        BY <2>0, <2>2
    <3>2. /\ at(i) \in Servers /\ <<at(i), at(i + 1)>> \in Neighbours
      <4>1. ~IsFirst(at(i + 1))
          BY <3>1, Places
      <4>2. Prev1(at(i + 1)) = at(i)
          BY DEF Prev1
      <4> QED
        <5> HIDE DEF at
        <5>1. Prev1(at(i + 1)) \in Servers /\ Next1(Prev1(at(i + 1))) = at(i + 1)
            BY <4>1, Places
        <5>2. <<at(i), at(i + 1)>> \in Servers \X Servers
            BY <4>2, <5>1
        <5>3. <<at(i), at(i + 1)>>[2] = Next1(<<at(i), at(i + 1)>>[1])
            BY <4>2, <5>1
        <5> QED
            BY <5>1, <5>2, <5>3, <4>2 DEF Neighbours
    <3>3. Names(sent[at(i)]) \subseteq Names(sent[u])
        BY <1>2, <3>1, <3>2
    <3>4. Divided(at(i), at(i + 1))
        BY <3>2 DEF ListsDivided
    <3>5. Names(sent[at(i + 1)]) \subseteq Names(sent[at(i)])
        BY <3>4 DEF Divided, Shares
    <3> QED
        BY <3>3, <3>5
  <2> QED
      BY <2>1, <2>2
<1>3. v[2] \in Nat /\ v = at(v[2])
    BY Places
<1> HIDE DEF T
<1>4. v[2] \in T
    BY <1>1, <1>2, <1>3, Induction
<1> QED
    BY <1>3, <1>4 DEF T

--------------------------------------------------------------------------------
\* Transfers that are away from the bank they are drawn on.

\* The bank of the client that a name belongs to.
Home(n) == BankOf[n[1]]

\* The tail of the payer's bank waits for a transfer.
Awaited(n) == n \in Names(sent[LastServer(Home(n))])

\* Copies that change accounts when they are read: all but queries.
Travels(e) == e[3] = "stream" \/ e[1].type \in Updates

\* A transfer is at the payee's bank only while the payer's tail waits for it.
AbroadAwaited ==
    /\ \A e \in UnderWay :
          Travels(e) /\ Bank(e[2]) # Home(NameOf(e[1])) => Awaited(NameOf(e[1]))
    /\ \A s \in Servers : \A n \in Names(sent[s]) : Bank(s) # Home(n) => Awaited(n)

\* The acknowledgements of transfers in the network.
Acks(bag) == MailsIn("TRANS_ACK", bag)

\* The banks other than the payer's have done with a transfer.
DoneAbroad(n) == \A s \in Servers : Bank(s) # Home(n) => n \notin Names(sent[s])

\* Once the payee's bank has acknowledged a transfer it has done with it, and it
\* acknowledges it once.
AcksFinal ==
    /\ Singly("TRANS_ACK", to_server)
    /\ \A m, o \in Acks(to_server) : NameOf(m.req) = NameOf(o.req) => m = o
    /\ \A m \in Acks(to_server) :
          /\ Awaited(NameOf(m.req)) /\ DoneAbroad(NameOf(m.req))
          /\ \A e \in UnderWay : NameOf(e[1]) # NameOf(m.req)

\* The tail of the payer's bank is the last server of that bank.
LEMMA HomeTail ==
    ASSUME NEW q \in Request
    PROVE  /\ LastServer(Home(NameOf(q))) \in Servers
           /\ Bank(LastServer(Home(NameOf(q)))) = Home(NameOf(q))
           /\ IsLast(LastServer(Home(NameOf(q))))
           /\ \A s \in Servers : Bank(s) = Home(NameOf(q)) =>
                 s[2] <= LastServer(Home(NameOf(q)))[2]
           /\ Home(NameOf(q)) = BankOf[q.client_port]
<1>1. Home(NameOf(q)) \in Banks /\ Home(NameOf(q)) = BankOf[q.client_port]
    BY BankOfAssumption DEF Home, NameOf, Request
<1>2. ChainLength[Home(NameOf(q))] \in Nat \ {0}
    BY <1>1, ChainLengthAssumption
<1>3. LastServer(Home(NameOf(q))) \in Servers
    BY <1>1, <1>2 DEF Servers, LastServer
<1>4. ASSUME NEW s \in Servers, Bank(s) = Home(NameOf(q))
      PROVE  s[2] <= ChainLength[Home(NameOf(q))]
  <2>1. PICK b \in Banks : s \in {<<b, i>> : i \in 1 .. ChainLength[b]}
      BY DEF Servers
  <2>2. PICK i \in 1 .. ChainLength[b] : s = <<b, i>>
      BY <2>1
  <2> QED
      BY <1>4, <2>2 DEF Bank
<1> QED
    BY <1>1, <1>3, <1>4 DEF Bank, LastServer, IsLast

\* All names under way and in `sent` are names of requests.
LEMMA NamedRequests ==
    ASSUME TypeOK
    PROVE  /\ \A e \in UnderWay : e[1] \in Request /\ e[2] \in Servers
           /\ \A m \in Acks(to_server) : m.req \in Request
           /\ \A s \in Servers : \A n \in Names(sent[s]) :
                 \E q \in Request : n = NameOf(q)
<1>1. \A e \in UnderWay : e[1] \in Request /\ e[2] \in Servers
    BY UnderWayMember
<1>2. \A m \in Acks(to_server) : m.req \in Request
    BY DEF TypeOK, ServerTypeOK, Mails, Acks, MailsIn
<1>3. ASSUME NEW s \in Servers, NEW n \in Names(sent[s])
      PROVE  \E q \in Request : n = NameOf(q)
  <2>1. sent[s] \in Seq(Request)
      BY ListTypes
  <2>2. PICK i \in 1 .. Len(sent[s]) : n = NameOf(sent[s][i])
      BY <2>1, NamesOfList
  <2> QED
      BY <2>1, <2>2
<1> QED
    BY <1>1, <1>2, <1>3

\* A copy is read: it moves on to F, its name enters a `sent` or does not, and
\* it is acknowledged to the payer's bank (A) or is not.
LEMMA CopyRead ==
    ASSUME TypeOK, AbroadAwaited, AcksFinal, NEW e \in UnderWay, Travels(e), NEW F, NEW A,
           UnderWay' \subseteq {g \in UnderWay : NameOf(g[1]) # NameOf(e[1])} \cup F,
           \A t \in Servers :
              \/ sent'[t] = sent[t]
              \/ t = e[2] /\ Names(sent'[t]) = Names(sent[t]) \cup {NameOf(e[1])},
           \A f \in F :
              /\ NameOf(f[1]) = NameOf(e[1])
              /\ Bank(f[2]) = Bank(e[2]) \/ Awaited(NameOf(e[1]))',
           Singly("TRANS_ACK", to_server'),
           Acks(to_server') \subseteq Acks(to_server) \cup A,
           \A a, o \in A : a = o,
           \A a \in A : /\ NameOf(a.req) = NameOf(e[1]) /\ F = {}
                        /\ Bank(e[2]) # Home(NameOf(e[1]))
                        /\ DoneAbroad(NameOf(e[1]))'
    PROVE  AbroadAwaited' /\ AcksFinal'
<1> DEFINE n == NameOf(e[1])
<1>1. \A q \in Request : Awaited(NameOf(q)) => Awaited(NameOf(q))'
  <2> SUFFICES ASSUME NEW q \in Request, Awaited(NameOf(q)) PROVE Awaited(NameOf(q))'
      OBVIOUS
  <2>1. LastServer(Home(NameOf(q))) \in Servers
      BY HomeTail
  <2> QED
      BY <2>1 DEF Awaited
<1>2. /\ \A g \in UnderWay : g[1] \in Request /\ g[2] \in Servers
      /\ \A m \in Acks(to_server) : m.req \in Request
      /\ \A s \in Servers : \A k \in Names(sent[s]) : \E q \in Request : k = NameOf(q)
    BY NamedRequests
<1>3. Bank(e[2]) # Home(n) => Awaited(n)'
    BY <1>1, <1>2 DEF AbroadAwaited
<1>4. ASSUME NEW g \in UnderWay', Travels(g), Bank(g[2]) # Home(NameOf(g[1]))
      PROVE  Awaited(NameOf(g[1]))'
  <2>1. CASE g \in UnderWay
      BY <1>1, <1>2, <1>4, <2>1 DEF AbroadAwaited
  <2>2. CASE g \in F
      BY <1>3, <1>4, <2>2
  <2> QED
      BY <2>1, <2>2
<1>5. ASSUME NEW s \in Servers, NEW k \in Names(sent'[s]), Bank(s) # Home(k)
      PROVE  Awaited(k)'
  <2>1. CASE k \in Names(sent[s])
      BY <1>1, <1>2, <1>5, <2>1 DEF AbroadAwaited
  <2>2. CASE k \notin Names(sent[s])
    <3>1. s = e[2] /\ k = n
        BY <1>5, <2>2
    <3> QED
        BY <1>3, <1>5, <3>1
  <2> QED
      BY <2>1, <2>2
<1>6. AbroadAwaited'
    BY <1>4, <1>5 DEF AbroadAwaited, Travels
<1>7. ASSUME NEW m \in Acks(to_server)
      PROVE  /\ NameOf(m.req) # n
             /\ Awaited(NameOf(m.req))' /\ DoneAbroad(NameOf(m.req))'
             /\ \A g \in UnderWay' : NameOf(g[1]) # NameOf(m.req)
  <2>1. NameOf(m.req) # n
      BY DEF AcksFinal
  <2>2. Awaited(NameOf(m.req))'
      BY <1>1, <1>2 DEF AcksFinal
  <2>3. DoneAbroad(NameOf(m.req))
      BY DEF AcksFinal
  <2>4. DoneAbroad(NameOf(m.req))'
      BY <2>1, <2>3 DEF DoneAbroad
  <2>5. \A g \in UnderWay' : NameOf(g[1]) # NameOf(m.req)
      BY <2>1 DEF AcksFinal
  <2> QED
      BY <2>1, <2>2, <2>4, <2>5
<1>8. ASSUME NEW a \in A
      PROVE  /\ NameOf(a.req) = n
             /\ Awaited(NameOf(a.req))' /\ DoneAbroad(NameOf(a.req))'
             /\ \A g \in UnderWay' : NameOf(g[1]) # NameOf(a.req)
    BY <1>3
<1>9. \A m, o \in Acks(to_server') : NameOf(m.req) = NameOf(o.req) => m = o
    BY <1>7, <1>8 DEF AcksFinal
<1>10. AcksFinal'
    BY <1>7, <1>8, <1>9 DEF AcksFinal
<1> QED
    BY <1>6, <1>10

\* Nothing new.
LEMMA CopiesRest ==
    ASSUME AbroadAwaited, AcksFinal, sent' = sent, UnderWay' \subseteq UnderWay,
           Singly("TRANS_ACK", to_server'), Acks(to_server') \subseteq Acks(to_server)
    PROVE  AbroadAwaited' /\ AcksFinal'
<1>1. \A n : /\ Awaited(n)' <=> Awaited(n)
             /\ DoneAbroad(n)' <=> DoneAbroad(n)
    BY DEF Awaited, DoneAbroad
<1>2. AbroadAwaited'
    BY <1>1 DEF AbroadAwaited, Travels
<1>3. AcksFinal'
    BY <1>1 DEF AcksFinal
<1> QED
    BY <1>2, <1>3

\* Requests that are delivered leave the acknowledgements as they are.
LEMMA LettersOnly ==
    ASSUME NEW bag, Singly("TRANS_ACK", bag), NEW mails,
           \A x \in mails : x.op = "REQUEST"
    PROVE  /\ Singly("TRANS_ACK", Deliver(bag, mails))
           /\ Acks(Deliver(bag, mails)) = Acks(bag)
<1>1. \A x \in mails : x.op # "TRANS_ACK"
    OBVIOUS
<1>2. /\ Singly("TRANS_ACK", Deliver(bag, mails))
      /\ MailsIn("TRANS_ACK", Deliver(bag, mails)) = MailsIn("TRANS_ACK", bag) \cup
            {x \in mails : x.op = "TRANS_ACK" /\ x.to # NoServer}
    BY <1>1, DeliverMails
<1> QED
    BY <1>1, <1>2 DEF Acks

--------------------------------------------------------------------------------
\* Copies that are read.

\* Whatever is under way or in `sent` belongs where it is.
LEMMA ReachedNames ==
    ASSUME TypeOK, RightBanks
    PROVE  /\ \A e \in UnderWay : e[1] \in Reached(Bank(e[2]))
           /\ \A s \in Servers : \A n \in Names(sent[s]) :
                 \E q \in Reached(Bank(s)) : n = NameOf(q)
<1>1. from_pre \in [Servers -> Seq(Forwards)] /\ DOMAIN to_server \subseteq Mails
    BY DEF TypeOK, ServerTypeOK
<1>2. ASSUME NEW e \in Posted(to_server) PROVE e[1] \in Reached(Bank(e[2]))
  <2>1. PICK m \in LettersIn(to_server) : e = <<m.req, m.to, "letter">>
      BY <1>1, PostedMember
  <2>2. RightMail(m) /\ m.op = "REQUEST"
      BY DEF RightBanks, LettersIn
  <2> QED
      BY <2>1, <2>2 DEF RightMail
<1>3. ASSUME NEW e \in Streamed(from_pre) PROVE e[1] \in Reached(Bank(e[2]))
  <2>1. PICK s \in Servers : Carries(from_pre, s, e)
      BY <1>1, StreamedMember
  <2>2. PICK i \in 1 .. Len(from_pre[s]) : e = <<from_pre[s][i].req, s, "stream">>
      BY <2>1 DEF Carries
  <2>3. from_pre[s] \in Seq(ReachedForwards(Bank(s)))
      BY DEF RightBanks
  <2>4. from_pre[s][i] \in ReachedForwards(Bank(s))
      BY <2>3
  <2> QED
      BY <2>2, <2>4 DEF ReachedForwards
<1>4. ASSUME NEW s \in Servers, NEW n \in Names(sent[s])
      PROVE  \E q \in Reached(Bank(s)) : n = NameOf(q)
  <2>1. sent[s] \in Seq(Request) /\ sent[s] \in Seq(Reached(Bank(s)))
      BY ListTypes DEF RightBanks
  <2>2. PICK i \in 1 .. Len(sent[s]) : n = NameOf(sent[s][i])
      BY <2>1, NamesOfList
  <2>3. sent[s][i] \in Reached(Bank(s))
      BY <2>1
  <2> QED
      BY <2>2, <2>3
<1> QED
    BY <1>2, <1>3, <1>4 DEF UnderWay

\* A transfer between banks is at the payer's and at the payee's.
LEMMA TransferBanks ==
    ASSUME PaysOthers, NEW b, NEW q \in Reached(b), q.type = "transfer"
    PROVE  /\ q.dest_bank_id # Home(NameOf(q))
           /\ b \in {Home(NameOf(q)), q.dest_bank_id}
           /\ \A d : \A r \in Reached(d) : NameOf(r) = NameOf(q) =>
                 /\ r.type = "transfer" /\ r.dest_bank_id = q.dest_bank_id
                 /\ d \in {Home(NameOf(q)), q.dest_bank_id}
<1>1. /\ q \in Request /\ Genuine(q)
      /\ BankOf[q.client_port] = b \/ q.dest_bank_id = b
    BY DEF Reached, Updates
<1>2. Home(NameOf(q)) = BankOf[q.client_port] /\ q.client_port \in Clients
    BY <1>1 DEF Home, NameOf, Request
<1>3. q.dest_bank_id # Home(NameOf(q))
    BY <1>1, <1>2, GenuineEntry DEF PaysOthers
<1>4. ASSUME NEW d, NEW r \in Reached(d), NameOf(r) = NameOf(q)
      PROVE  /\ r.type = "transfer" /\ r.dest_bank_id = q.dest_bank_id
             /\ d \in {Home(NameOf(q)), q.dest_bank_id}
  <2>1. r.client_port = q.client_port /\ r.sent_id = q.sent_id
      BY <1>4 DEF NameOf
  <2>2. r \in Request /\ Genuine(r)
      BY DEF Reached
  <2>3. r.type = "transfer" /\ r.dest_bank_id = q.dest_bank_id
      BY <1>1, <2>1, <2>2, GenuineEntry
  <2> QED
      BY <1>2, <2>1, <2>3 DEF Reached, Updates
<1> QED
    BY <1>1, <1>2, <1>3, <1>4

\* A transfer that is shipped abroad is shipped by the payer's bank.
LEMMA ShippedFromHome ==
    ASSUME NEW s, NEW q \in Reached(Bank(s)), PaysAbroad(s, q)
    PROVE  Bank(s) = Home(NameOf(q))
    BY DEF Reached, PaysAbroad, Updates, Home, NameOf

\* An entry made in `sent` adds its name.
LEMMA SentName ==
    ASSUME TypeOK, NEW s \in Servers, NEW r \in Request, NEW P,
           sent' = [sent EXCEPT ![s] = IF P THEN Append(@, r) ELSE @]
    PROVE  /\ \A t \in Servers :
                 \/ sent'[t] = sent[t]
                 \/ t = s /\ Names(sent'[t]) = Names(sent[t]) \cup {NameOf(r)}
           /\ P => NameOf(r) \in Names(sent'[s])
<1>1. sent \in [Servers -> Seq(Request)] /\ sent[s] \in Seq(Request)
    BY ListTypes
<1>2. Names(Append(sent[s], r)) = Names(sent[s]) \cup {NameOf(r)}
    BY <1>1, NamesAppend
<1> QED
    BY <1>1, <1>2

\* Where a copy goes when it is passed on.
LEMMA PassedTo ==
    ASSUME TopologyInit, TypeOK, NEW s \in Servers, NEW r \in Request,
           r \in Reached(Bank(s)), IsLast(s) /\ PaysAbroad(s, r) => NameOf(r) \in Names(sent'[s])
    PROVE  \A f \in Passed(s, r) :
              /\ NameOf(f[1]) = NameOf(r)
              /\ Bank(f[2]) = Bank(s) \/ Awaited(NameOf(r))'
<1>1. CASE my_type[s] \in {"HEAD", "INTER"}
    BY <1>1, Places DEF Passed
<1>2. CASE my_type[s] \notin {"HEAD", "INTER"} /\ PaysAbroad(s, r)
  <2>1. IsLast(s)
    <3>1. my_type[s] \in Roles
        BY DEF TypeOK, ServerTypeOK, TopologyTypeOK
    <3> QED
        BY <1>2, <3>1, Places DEF Roles
  <2>2. s = LastServer(Home(NameOf(r)))
      BY <1>2, <2>1, ShippedFromHome DEF IsLast
  <2>3. Awaited(NameOf(r))'
      BY <1>2, <2>1, <2>2 DEF Awaited
  <2>4. \A f \in Passed(s, r) : f[1] = r
      BY <1>2 DEF Passed, Shipped
  <2> QED
      BY <2>3, <2>4
<1>3. CASE my_type[s] \notin {"HEAD", "INTER"} /\ ~PaysAbroad(s, r)
    BY <1>3 DEF Passed
<1> QED
    BY <1>1, <1>2, <1>3

\* A forwarded update that is read leaves transfers awaited.
LEMMA RecForwardAwaited ==
    ASSUME FreshCopies, RightBanks, AbroadAwaited, AcksFinal, UNCHANGED clientState,
           NEW s \in Servers, RecForward(s)
    PROVE  AbroadAwaited' /\ AcksFinal'
<1>0. TypeOK /\ TopologyInit
    BY DEF FreshCopies, HeadFrame
<1>1. PICK q \in Request :
         /\ Relays(s, q) /\ ~IsFirst(s) /\ <<q, s, "stream">> \in UnderWay /\ MovesOn(s, q)
    BY RecForwardMoves
<1> DEFINE e == <<q, s, "stream">>
           F == Passed(s, q)
           ships == my_type[s] = "TAIL" /\ PaysAbroad(s, q)
           keeps == my_type[s] = "INTER" \/ ships
<1>2. q \in Reached(Bank(s))
    BY <1>0, <1>1, ReachedNames
<1>3. sent' = [sent EXCEPT ![s] = IF keeps THEN Append(@, q) ELSE @]
    BY <1>1 DEF Relays
<1>4. IsLast(s) /\ PaysAbroad(s, q) => keeps
    BY <1>0, <1>1, Places
<1>5. to_server' = Deliver(to_server, IF ships THEN ShipTransfer(s, q) ELSE {})
    BY <1>1 DEF Relays
<1> HIDE DEF keeps, ships
<1>6. /\ \A t \in Servers :
            \/ sent'[t] = sent[t]
            \/ t = s /\ Names(sent'[t]) = Names(sent[t]) \cup {NameOf(q)}
      /\ keeps => NameOf(q) \in Names(sent'[s])
    BY <1>0, <1>3, SentName
<1>7. \A f \in F : /\ NameOf(f[1]) = NameOf(q)
                   /\ Bank(f[2]) = Bank(s) \/ Awaited(NameOf(q))'
    BY <1>0, <1>2, <1>4, <1>6, PassedTo
<1>8. Singly("TRANS_ACK", to_server') /\ Acks(to_server') = Acks(to_server)
  <2>1. \A x \in (IF ships THEN ShipTransfer(s, q) ELSE {}) : x.op = "REQUEST"
      BY DEF ShipTransfer, Mail
  <2> QED
      BY <1>5, <2>1, LettersOnly DEF AcksFinal
<1>9. /\ e \in UnderWay /\ Travels(e) /\ e[1] = q /\ e[2] = s
      /\ UnderWay' \subseteq {g \in UnderWay : NameOf(g[1]) # NameOf(q)} \cup F
    BY <1>1 DEF MovesOn, Travels
<1> DEFINE A == {}
<1>10. /\ \A a, o \in A : a = o
       /\ Acks(to_server') \subseteq Acks(to_server) \cup A
       /\ \A a \in A : FALSE
    BY <1>8
<1> HIDE DEF e, F, A
<1> QED
    BY <1>0, <1>6, <1>7, <1>8, <1>9, <1>10, CopyRead

\* So does an update that a head reads.
LEMMA RecUpdateAwaited ==
    ASSUME PaysOthers, ProperEntries, FreshCopies, RightBanks, AbroadAwaited, AcksFinal,
           UNCHANGED clientState, NEW s \in Servers, RecUpdate(s)
    PROVE  AbroadAwaited' /\ AcksFinal'
<1>0. TypeOK /\ TopologyInit /\ NotYetRead
    BY DEF FreshCopies, HeadFrame
<1>1. PICK m \in LettersIn(to_server), r \in Request :
              /\ HeadHandles(s, m, r)
              /\ IsFirst(s)
              /\ NameOf(r) = NameOf(m.req)
              /\ NameOf(r) \notin Names(sent[s])
              /\ <<m.req, s, "letter">> \in UnderWay
              /\ MovesOn(s, r)
    BY RecUpdateMoves
<1> DEFINE e == <<m.req, s, "letter">>
           F == Passed(s, r)
           n == NameOf(r)
           ships == my_type[s] = "HEAD_TAIL" /\ PaysAbroad(s, r)
           settles == my_type[s] = "HEAD_TAIL" /\ ~ships /\ Receives(s, r)
           keeps == my_type[s] = "HEAD" \/ ships
           rest == Take(to_server, m)
<1>2. m.req \in Reached(Bank(s)) /\ r \in Reached(Bank(s)) /\ r.type = m.req.type
  <2>1. m.req \in Reached(Bank(s)) /\ m.req \in Request
      BY <1>0, <1>1, ReachedNames, NamedRequests
  <2>2. PICK status, number : r = [m.req EXCEPT !.status = status, !.req_seq = number]
      BY <1>1 DEF HeadHandles
  <2>3. r \in Reached(Bank(s))
      BY <2>1, <2>2, JudgedReached
  <2>4. r.type = m.req.type
      BY <2>1, <2>2 DEF Request
  <2> QED
      BY <2>1, <2>3, <2>4
<1>3. /\ sent' = [sent EXCEPT ![s] = IF keeps THEN Append(@, r) ELSE @]
      /\ to_server' = Deliver(rest, CASE ships -> ShipTransfer(s, r)
                                      [] settles -> AckTransfer(s, r)
                                      [] OTHER -> {})
      /\ m.req.type \in Updates /\ m.op = "REQUEST"
    BY <1>1 DEF HeadHandles, LettersIn
<1>4. IsLast(s) /\ PaysAbroad(s, r) => keeps
    BY <1>0, <1>1, Places
<1>5. Singly("TRANS_ACK", rest) /\ Acks(rest) \subseteq Acks(to_server)
  <2>1. Singly("TRANS_ACK", to_server)
      BY DEF AcksFinal
  <2> HIDE DEF rest
  <2> QED
      BY <2>1, TakeMails DEF Acks, rest
<1>6. /\ settles => my_type[s] = "HEAD_TAIL" /\ ~PaysAbroad(s, r) /\ ~keeps
                    /\ r.type = "transfer" /\ r.dest_bank_id = Bank(s)
      /\ ships => ~settles
    BY DEF Receives
<1> HIDE DEF keeps, ships, settles, rest
<1>7. /\ \A t \in Servers :
            \/ sent'[t] = sent[t]
            \/ t = s /\ Names(sent'[t]) = Names(sent[t]) \cup {NameOf(r)}
      /\ keeps => NameOf(r) \in Names(sent'[s])
    BY <1>0, <1>3, SentName
<1>8. \A f \in F : /\ NameOf(f[1]) = NameOf(r)
                   /\ Bank(f[2]) = Bank(s) \/ Awaited(NameOf(r))'
    BY <1>0, <1>2, <1>4, <1>7, PassedTo
<1>9. /\ e \in UnderWay /\ Travels(e) /\ NameOf(e[1]) = NameOf(r) /\ e[2] = s
      /\ UnderWay' \subseteq {g \in UnderWay : NameOf(g[1]) # NameOf(r)} \cup F
    BY <1>1, <1>3 DEF MovesOn, Travels
<1> DEFINE A == IF settles THEN AckTransfer(s, r) ELSE {}
<1>10. /\ \A a, o \in A : a = o
       /\ \A a \in A : a.req = r
    BY DEF AckTransfer, Mail
<1>11. Singly("TRANS_ACK", to_server') /\ Acks(to_server') \subseteq Acks(to_server) \cup A
  <2>1. CASE settles
    <3> DEFINE mails == AckTransfer(s, r)
    <3>1. to_server' = Deliver(rest, mails)
        BY <1>3, <1>6, <2>1
    <3>2. \A x \in mails : x \notin Acks(rest)
      <4>1. \A x \in mails : NameOf(x.req) = NameOf(r)
          BY DEF AckTransfer, Mail
      <4>2. \A x \in Acks(to_server) : NameOf(x.req) # NameOf(r)
          BY <1>9 DEF AcksFinal
      <4> QED
          BY <1>5, <4>1, <4>2
    <3> HIDE DEF mails
    <3>3. /\ Singly("TRANS_ACK", Deliver(rest, mails))
          /\ MailsIn("TRANS_ACK", Deliver(rest, mails)) = MailsIn("TRANS_ACK", rest) \cup
                {x \in mails : x.op = "TRANS_ACK" /\ x.to # NoServer}
        BY <1>5, <3>2, DeliverMails DEF Acks
    <3>4. mails \subseteq A
        BY <2>1 DEF mails
    <3> HIDE DEF A
    <3> QED
        BY <1>5, <3>1, <3>3, <3>4 DEF Acks
  <2>2. CASE ~settles
    <3>1. PICK mails \in {ShipTransfer(s, r), {}} : to_server' = Deliver(rest, mails)
        BY <1>3, <2>2
    <3>2. \A x \in mails : x.op = "REQUEST"
        BY <3>1 DEF ShipTransfer, Mail
    <3> QED
        BY <1>5, <3>1, <3>2, LettersOnly
  <2> QED
      BY <2>1, <2>2
<1>12. ASSUME settles
       PROVE  /\ F = {} /\ Bank(s) # Home(n) /\ DoneAbroad(n)'
  <2>1. F = {}
      BY <1>6, <1>12 DEF Passed
  <2>2. Bank(s) # Home(n)
      BY <1>2, <1>6, <1>12, TransferBanks
  <2>3. sent' = sent
      BY <1>0, <1>3, <1>6, <1>12, ListTypes
  <2>4. ASSUME NEW t \in Servers, Bank(t) # Home(n), n \in Names(sent[t]) PROVE FALSE
    <3>1. PICK q \in Reached(Bank(t)) : n = NameOf(q)
        BY <1>0, <2>4, ReachedNames
    <3>2. Bank(t) = Bank(s)
        BY <1>2, <1>6, <1>12, <2>4, <3>1, TransferBanks
    <3>3. s[2] = 1 /\ t[2] \in Nat \ {0}
        BY <1>0, <1>1, Places
    <3>4. t \in Ahead(m.req, s)
        BY <3>2, <3>3 DEF Ahead
    <3>5. NameOf(m.req) \notin Names(sent[t])
        BY <1>0, <1>1, <3>4 DEF NotYetRead
    <3> QED
        BY <1>1, <2>4, <3>5
  <2>5. DoneAbroad(n)'
      BY <2>3, <2>4 DEF DoneAbroad
  <2> QED
      BY <2>1, <2>2, <2>5
<1>13. \A a \in A : /\ NameOf(a.req) = NameOf(r) /\ F = {}
                    /\ Bank(s) # Home(NameOf(r)) /\ DoneAbroad(NameOf(r))'
    BY <1>10, <1>12
<1> HIDE DEF e, F, A, n
<1> QED
    BY <1>0, <1>7, <1>8, <1>9, <1>10, <1>11, <1>13, CopyRead

--------------------------------------------------------------------------------
\* Acknowledgements that are read.

\* A name that leaves a `sent` which is nobody's last.
LEMMA AwaitedStays ==
    ASSUME TypeOK, NEW x \in Servers, ~IsLast(x), \A t \in Servers \ {x} : sent'[t] = sent[t]
    PROVE  \A q \in Request : Awaited(NameOf(q))' <=> Awaited(NameOf(q))
<1> SUFFICES ASSUME NEW q \in Request
             PROVE  Awaited(NameOf(q))' <=> Awaited(NameOf(q))
    OBVIOUS
<1>1. LastServer(Home(NameOf(q))) \in Servers \ {x}
    BY HomeTail
<1> QED
    BY <1>1 DEF Awaited

\* What the first server of the payee's bank reads the acknowledgement of, the
\* servers behind it have done with, and no copy is left.
LEMMA DoneWith ==
    ASSUME PaysOthers, FreshCopies, RightBanks, ListsDivided, AbroadAwaited,
           NEW x \in Servers, IsFirst(x), from_next[x] # <<>>,
           NEW q, q = Head(from_next[x]), q.type = "transfer", q.dest_bank_id = Bank(x)
    PROVE  /\ Bank(x) # Home(NameOf(q)) /\ Awaited(NameOf(q))
           /\ \A t \in Servers \ {x} : Bank(t) # Home(NameOf(q)) =>
                 NameOf(q) \notin Names(sent[t])
           /\ \A g \in UnderWay : NameOf(g[1]) # NameOf(q)
<1> DEFINE n == NameOf(q)
           y == Next1(x)
<1>0. TypeOK /\ TopologyInit /\ NotYetRead /\ HeadsKnown
    BY DEF FreshCopies, HeadFrame
<1>1. /\ ~IsLast(x) /\ my_type[x] \in {"HEAD", "INTER"}
      /\ <<x, y>> \in Neighbours /\ Divided(x, y)
      /\ q \in Request /\ n \in Names(sent[x]) /\ n \in Names(from_next[x])
    BY <1>0, AckAtHand
<1>2. /\ y \in Servers /\ Bank(y) = Bank(x) /\ y[2] = 2 /\ x[2] = 1
      /\ \A t \in Servers : /\ t[2] \in Nat \ {0} /\ t = <<Bank(t), t[2]>>
                            /\ IsFirst(t) <=> t[2] = 1
  <2>1. /\ y \in Servers /\ Bank(y) = Bank(x) /\ y[2] = x[2] + 1 /\ x[2] = 1
      BY <1>0, <1>1, Places
  <2>2. \A t \in Servers : /\ t[2] \in Nat \ {0} /\ t = <<Bank(t), t[2]>>
                           /\ IsFirst(t) <=> t[2] = 1
      BY <1>0, Places
  <2> QED
      BY <2>1, <2>2
<1>3. n \notin Names(sent[y]) /\ n \notin Names(Carried(from_pre[y]))
    BY <1>1 DEF Divided, Shares
<1>4. q \in Reached(Bank(x))
  <2>1. from_next[x] \in Seq(Reached(Bank(x)))
      BY DEF RightBanks
  <2> QED
      BY <2>1
<1> HIDE DEF n, y
<1>5. /\ Bank(x) # Home(n)
      /\ \A d : \A r \in Reached(d) : NameOf(r) = n =>
            r.type = "transfer" /\ r.dest_bank_id = Bank(x) /\ d \in {Home(n), Bank(x)}
    BY <1>4, TransferBanks DEF n
<1>6. Awaited(n)
    BY <1>1, <1>5 DEF AbroadAwaited
<1>7. ASSUME NEW t \in Servers, t # x, Bank(t) = Bank(x)
      PROVE  y[2] <= t[2] /\ n \notin Names(sent[t])
  <2>1. t[2] # 1
    <3>1. x = <<Bank(x), x[2]>> /\ t = <<Bank(t), t[2]>>
        BY <1>2
    <3> QED
        BY <1>2, <1>7, <3>1
  <2>2. y[2] <= t[2]
      BY <1>2, <2>1
  <2>3. Names(sent[t]) \subseteq Names(sent[y])
      BY <1>0, <1>2, <1>7, <2>2, Nested
  <2> QED
      BY <1>3, <2>2, <2>3
<1>8. ASSUME NEW t \in Servers, t # x, Bank(t) # Home(n), n \in Names(sent[t]) PROVE FALSE
  <2>1. PICK r \in Reached(Bank(t)) : n = NameOf(r)
      BY <1>0, <1>8, ReachedNames
  <2>2. Bank(t) = Bank(x)
      BY <1>5, <1>8, <2>1
  <2> QED
      BY <1>7, <1>8, <2>2
<1>9. ASSUME NEW g \in UnderWay, NameOf(g[1]) = n PROVE FALSE
  <2>1. g[1] \in Reached(Bank(g[2])) /\ g[1] \in Request /\ g[2] \in Servers
      BY <1>0, ReachedNames, NamedRequests
  <2>2. g[1].type = "transfer" /\ Bank(g[2]) \in {Home(n), Bank(x)}
      BY <1>5, <1>9, <2>1
  <2>3. CASE Bank(g[2]) = Home(n)
    <3> DEFINE l == LastServer(Home(n))
    <3>1. l \in Servers /\ Bank(l) = Home(n) /\ g[2][2] <= l[2]
        BY <1>1, <2>1, <2>3, HomeTail DEF n
    <3>2. l \in Ahead(g[1], g[2])
        BY <2>3, <3>1 DEF Ahead
    <3>3. n \notin Names(sent[l])
        BY <1>0, <1>9, <3>2 DEF NotYetRead
    <3> QED
        BY <1>6, <3>3 DEF Awaited
  <2>4. CASE Bank(g[2]) = Bank(x)
    <3>1. g[2] # x
      <4>1. g[2] \in Ahead(g[1], g[2])
          BY <1>2, <2>1 DEF Ahead
      <4> QED
          BY <1>0, <1>1, <1>9, <4>1 DEF NotYetRead
    <3>2. y[2] <= g[2][2] /\ ~IsFirst(g[2])
        BY <1>2, <1>7, <2>1, <2>4, <3>1
    <3>3. g \in Streamed(from_pre)
      <4>1. from_pre \in [Servers -> Seq(Forwards)] /\ DOMAIN to_server \subseteq Mails
          BY <1>0 DEF TypeOK, ServerTypeOK
      <4> SUFFICES ASSUME g \in Posted(to_server) PROVE FALSE
          BY DEF UnderWay
      <4>2. PICK m \in LettersIn(to_server) : g = <<m.req, m.to, "letter">>
          BY <4>1, PostedMember
      <4>3. IsFirst(m.to)
          BY <1>0, <2>2, <4>2 DEF HeadsKnown, Updates
      <4> QED
          BY <3>2, <4>2, <4>3
    <3> DEFINE t == g[2]
               p == Prev1(t)
    <3>4. /\ t \in Servers /\ Bank(t) = Bank(x) /\ y[2] <= t[2]
          /\ p \in Servers /\ Bank(p) = Bank(x) /\ p[2] = t[2] - 1
          /\ <<p, t>> \in Neighbours
        BY <1>0, <2>1, <2>4, <3>2, Places DEF Neighbours
    <3>5. n \in Names(Carried(from_pre[t]))
      <4>1. from_pre \in [Servers -> Seq(Forwards)]
          BY <1>0 DEF TypeOK, ServerTypeOK
      <4>2. PICK u \in Servers : Carries(from_pre, u, g)
          BY <3>3, <4>1, StreamedMember
      <4>3. PICK i \in 1 .. Len(from_pre[u]) : g = <<from_pre[u][i].req, u, "stream">>
          BY <4>2 DEF Carries
      <4>4. /\ u = t /\ i \in 1 .. Len(Carried(from_pre[t]))
            /\ Carried(from_pre[t]) \in Seq(Request)
            /\ Carried(from_pre[t])[i] = g[1]
        <5>1. u = t /\ from_pre[t] \in Seq(Forwards)
            BY <4>1, <4>3
        <5>2. DOMAIN from_pre[t] = 1 .. Len(from_pre[t])
            BY <5>1
        <5> QED
            BY <4>3, <5>1, <5>2, CarriedList DEF Carried
      <4> QED
          BY <1>9, <4>4, NamesOfList
    <3> HIDE DEF t, p
    <3>6. n \in Names(sent[p])
        BY <3>4, <3>5 DEF ListsDivided, Divided, Shares
    <3>7. CASE p = x
      <4>1. t = y
          BY <1>0, <1>1, <3>4, <3>7, NeighbourPair DEF Neighbours
      <4> QED
          BY <1>3, <3>5, <4>1
    <3>8. CASE p # x
        BY <1>7, <3>4, <3>6, <3>8
    <3> QED
        BY <3>7, <3>8
  <2> QED
      BY <2>2, <2>3, <2>4
<1> QED
    BY <1>5, <1>6, <1>8, <1>9 DEF n

\* So does an acknowledgement.
LEMMA RecAckAwaited ==
    ASSUME PaysOthers, ProperEntries, FreshCopies, RightBanks, ListsDivided,
           AbroadAwaited, AcksFinal, NEW x \in Servers, RecAck(x)
    PROVE  AbroadAwaited' /\ AcksFinal'
<1> SUFFICES ASSUME NEW q, q = Head(from_next[x]) PROVE AbroadAwaited' /\ AcksFinal'
    OBVIOUS
<1> DEFINE n == NameOf(q)
           settles == my_type[x] = "HEAD" /\ Receives(x, q)
           A == IF settles THEN AckTransfer(x, q) ELSE {}
<1>0. /\ TypeOK /\ TopologyInit /\ Single(to_server) /\ from_next[x] # <<>>
    BY DEF FreshCopies, HeadFrame, OneCopy, RecAck
<1>1. ~IsLast(x) /\ q \in Request /\ n \in Names(sent[x])
    BY <1>0, AckAtHand
<1>2. /\ sent' = [sent EXCEPT ![x] = DeleteSent(@, q)]
      /\ to_server' = Deliver(to_server, A)
      /\ from_pre' = from_pre
    BY DEF RecAck
<1>3. /\ \A a \in A : a.op = "TRANS_ACK" /\ a.req = q
      /\ \A a, o \in A : a = o
    BY DEF AckTransfer, Mail
<1>4. ASSUME settles
      PROVE  /\ Bank(x) # Home(n) /\ Awaited(n)
             /\ \A t \in Servers \ {x} : Bank(t) # Home(n) => n \notin Names(sent[t])
             /\ \A g \in UnderWay : NameOf(g[1]) # n
  <2>1. IsFirst(x) /\ q.type = "transfer" /\ q.dest_bank_id = Bank(x)
      BY <1>0, <1>4, Places DEF Receives
  <2> QED
      BY <1>0, <2>1, DoneWith
<1>5. ~settles => A = {}
    OBVIOUS
<1> HIDE DEF n, A, settles
<1>6. /\ Names(sent'[x]) = Names(sent[x]) \ {n}
      /\ \A t \in Servers \ {x} : sent'[t] = sent[t]
    BY <1>0, <1>2, SentDistinctDelete DEF ListsDivided, n
<1>7. UnderWay' = UnderWay
  <2>1. Posted(to_server') = Posted(to_server)
      BY <1>0, <1>2, <1>3, OtherMail
  <2> QED
      BY <1>2, <2>1 DEF UnderWay
<1>8. \A r \in Request : Awaited(NameOf(r))' <=> Awaited(NameOf(r))
    BY <1>0, <1>1, <1>6, AwaitedStays
<1>9. \A k : DoneAbroad(k) => DoneAbroad(k)'
    BY <1>6 DEF DoneAbroad
<1>10. \A a \in A : a \notin Acks(to_server)
  <2> SUFFICES ASSUME NEW a \in A, a \in Acks(to_server) PROVE FALSE
      OBVIOUS
  <2>1. settles /\ NameOf(a.req) = n
      BY <1>3, <1>5 DEF n
  <2>2. DoneAbroad(n)
      BY <2>1 DEF AcksFinal
  <2> QED
      BY <1>1, <1>4, <2>1, <2>2 DEF DoneAbroad
<1>11. /\ Singly("TRANS_ACK", to_server')
       /\ Acks(to_server') \subseteq Acks(to_server) \cup A
  <2>1. /\ Singly("TRANS_ACK", Deliver(to_server, A))
        /\ MailsIn("TRANS_ACK", Deliver(to_server, A)) = MailsIn("TRANS_ACK", to_server) \cup
              {y \in A : y.op = "TRANS_ACK" /\ y.to # NoServer}
      BY <1>10, DeliverMails DEF Acks, AcksFinal
  <2> QED
      BY <1>2, <2>1 DEF Acks
<1>12. AbroadAwaited'
  <2>1. /\ \A e \in UnderWay : e[1] \in Request
        /\ \A s \in Servers : \A k \in Names(sent[s]) : \E r \in Request : k = NameOf(r)
      BY <1>0, NamedRequests
  <2>2. \A s \in Servers : Names(sent'[s]) \subseteq Names(sent[s])
      BY <1>6
  <2>3. \A e \in UnderWay :
          Travels(e) /\ Bank(e[2]) # Home(NameOf(e[1])) => Awaited(NameOf(e[1]))'
      BY <1>8, <2>1 DEF AbroadAwaited
  <2>4. \A s \in Servers : \A k \in Names(sent'[s]) : Bank(s) # Home(k) => Awaited(k)'
      BY <1>8, <2>1, <2>2 DEF AbroadAwaited
  <2> QED
      BY <1>7, <2>3, <2>4 DEF AbroadAwaited, Travels
<1>13. ASSUME NEW m \in Acks(to_server')
       PROVE  /\ Awaited(NameOf(m.req))' /\ DoneAbroad(NameOf(m.req))'
              /\ \A e \in UnderWay' : NameOf(e[1]) # NameOf(m.req)
  <2>1. CASE m \in Acks(to_server)
    <3>1. m.req \in Request
        BY <1>0, <2>1, NamedRequests
    <3> QED
        BY <1>7, <1>8, <1>9, <2>1, <3>1 DEF AcksFinal
  <2>2. CASE m \in A
    <3>1. settles /\ NameOf(m.req) = n
        BY <1>3, <1>5, <2>2 DEF n
    <3>2. Awaited(n)'
        BY <1>1, <1>4, <1>8, <3>1 DEF n
    <3>3. DoneAbroad(n)'
        BY <1>4, <1>6, <3>1 DEF DoneAbroad
    <3> QED
        BY <1>4, <1>7, <3>1, <3>2, <3>3
  <2> QED
      BY <1>11, <2>1, <2>2
<1>14. \A m, o \in Acks(to_server') : NameOf(m.req) = NameOf(o.req) => m = o
  <2> SUFFICES ASSUME NEW m \in Acks(to_server'), NEW o \in Acks(to_server'),
                      NameOf(m.req) = NameOf(o.req), m # o
               PROVE  FALSE
      OBVIOUS
  <2>1. \A a \in Acks(to_server), b \in A : NameOf(a.req) # NameOf(b.req)
    <3> SUFFICES ASSUME NEW a \in Acks(to_server), NEW b \in A, NameOf(a.req) = n PROVE FALSE
        BY <1>3 DEF n
    <3>1. settles
        BY <1>5
    <3>2. DoneAbroad(n)
        BY DEF AcksFinal
    <3> QED
        BY <1>1, <1>4, <3>1, <3>2 DEF DoneAbroad
  <2>2. m \in Acks(to_server) \/ m \in A
      BY <1>11
  <2>3. o \in Acks(to_server) \/ o \in A
      BY <1>11
  <2> QED
      BY <1>3, <2>1, <2>2, <2>3 DEF AcksFinal
<1>15. AcksFinal'
    BY <1>11, <1>13, <1>14 DEF AcksFinal
<1> QED
    BY <1>12, <1>15

--------------------------------------------------------------------------------
\* The invariant.

\* The invariant behind InprocessRequests, besides FreshCopies and RightBanks.
SentAccounted == ListsDivided /\ AbroadAwaited /\ AcksFinal

\* rec_other_bank finds the transfer in the `sent` of the
\* payer, and ends it there.
LEMMA RecOtherBankAccounted ==
    ASSUME ProperEntries, FreshCopies, RightBanks, SentAccounted,
           NEW x \in Servers, RecOtherBank(x)
    PROVE  SentAccounted'
<1>0. /\ TypeOK /\ TopologyInit /\ Single(to_server)
      /\ ListsDivided /\ AbroadAwaited /\ AcksFinal
    BY DEF FreshCopies, HeadFrame, OneCopy, SentAccounted
<1>1. PICK m \in DOMAIN to_server : RecOtherBank(x)!(m)
    BY DEF RecOtherBank
<1> DEFINE n == NameOf(m.req)
<1>2. /\ m \in Acks(to_server) /\ m.req \in Request
      /\ to_server' = Take(to_server, m) /\ from_pre' = from_pre
  <2>1. m \in Acks(to_server)
      BY <1>1 DEF Acks, MailsIn
  <2>2. m.req \in Request
      BY <1>0, <2>1, NamedRequests
  <2> QED
      BY <1>1, <2>1, <2>2 DEF RecOtherBank
<1>3. x = LastServer(Home(n)) /\ IsLast(x)
  <2>1. RightMail(m) /\ m.op = "TRANS_ACK" /\ m.to = x
      BY <1>1 DEF RightBanks
  <2>2. Home(n) = BankOf[m.req.client_port]
      BY <1>2, HomeTail
  <2>3. x = LastServer(Home(n))
      BY <2>1, <2>2 DEF RightMail
  <2> QED
      BY <1>2, <2>3, HomeTail
<1>4. n \in Names(sent[x]) /\ DoneAbroad(n) /\ \A e \in UnderWay : NameOf(e[1]) # n
    BY <1>0, <1>2, <1>3 DEF AcksFinal, Awaited
<1>5. /\ ListsDivided'
      /\ Names(sent'[x]) = Names(sent[x]) \ {n}
      /\ \A t \in Servers \ {x} : sent'[t] = sent[t]
    BY <1>0, <1>1, <1>2, <1>3, <1>4, RecOtherBankDivides
<1>6. UnderWay' \subseteq UnderWay
  <2>1. LettersIn(to_server') \subseteq LettersIn(to_server)
      BY <1>0, <1>2, TakeLetters
  <2> QED
      BY <1>2, <2>1 DEF UnderWay, Posted
<1>7. /\ Singly("TRANS_ACK", to_server')
      /\ Acks(to_server') \subseteq Acks(to_server) \ {m}
  <2>1. Singly("TRANS_ACK", to_server) /\ m.op = "TRANS_ACK"
      BY <1>0, <1>2 DEF AcksFinal, Acks, MailsIn
  <2>2. /\ Singly("TRANS_ACK", Take(to_server, m))
        /\ MailsIn("TRANS_ACK", Take(to_server, m)) \subseteq MailsIn("TRANS_ACK", to_server)
        /\ m \notin MailsIn("TRANS_ACK", Take(to_server, m))
      BY <2>1, TakeMails
  <2> QED
      BY <1>2, <2>2 DEF Acks
<1> HIDE DEF n
<1>8. ASSUME NEW q \in Request, NameOf(q) # n, Awaited(NameOf(q))
      PROVE  Awaited(NameOf(q))'
  <2>1. LastServer(Home(NameOf(q))) \in Servers
      BY HomeTail
  <2> QED
      BY <1>5, <1>8, <2>1 DEF Awaited
<1>9. \A k : DoneAbroad(k) => DoneAbroad(k)'
    BY <1>5 DEF DoneAbroad
<1>10. AbroadAwaited'
  <2>1. /\ \A e \in UnderWay : e[1] \in Request
        /\ \A s \in Servers : \A k \in Names(sent[s]) : \E r \in Request : k = NameOf(r)
      BY <1>0, NamedRequests
  <2>2. \A e \in UnderWay' :
          Travels(e) /\ Bank(e[2]) # Home(NameOf(e[1])) => Awaited(NameOf(e[1]))'
      BY <1>0, <1>4, <1>6, <1>8, <2>1 DEF AbroadAwaited
  <2>3. ASSUME NEW s \in Servers, NEW k \in Names(sent'[s]), Bank(s) # Home(k)
        PROVE  Awaited(k)'
    <3>1. k \in Names(sent[s])
        BY <1>5
    <3>2. k # n
        BY <1>4, <2>3, <3>1 DEF DoneAbroad
    <3> QED
        BY <1>0, <1>8, <2>1, <2>3, <3>1, <3>2 DEF AbroadAwaited
  <2> QED
      BY <2>2, <2>3 DEF AbroadAwaited, Travels
<1>11. AcksFinal'
  <2>1. ASSUME NEW o \in Acks(to_server')
        PROVE  /\ Awaited(NameOf(o.req))' /\ DoneAbroad(NameOf(o.req))'
               /\ \A e \in UnderWay' : NameOf(e[1]) # NameOf(o.req)
    <3>1. o \in Acks(to_server) /\ o # m /\ o.req \in Request
        BY <1>0, <1>7, NamedRequests
    <3>2. NameOf(o.req) # n
        BY <1>0, <1>2, <3>1 DEF AcksFinal, n
    <3> QED
        BY <1>0, <1>6, <1>8, <1>9, <3>1, <3>2 DEF AcksFinal
  <2>2. \A o, p \in Acks(to_server') : NameOf(o.req) = NameOf(p.req) => o = p
      BY <1>0, <1>7 DEF AcksFinal
  <2> QED
      BY <1>7, <2>1, <2>2 DEF AcksFinal
<1> QED
    BY <1>5, <1>10, <1>11 DEF SentAccounted

\* Steps that leave `sent` and the streams as they are and add no copy.
LEMMA QuietAccounted ==
    ASSUME SentAccounted, sent' = sent, from_pre' = from_pre, from_next' = from_next,
           LettersIn(to_server') \subseteq LettersIn(to_server),
           Singly("TRANS_ACK", to_server'), Acks(to_server') \subseteq Acks(to_server)
    PROVE  SentAccounted'
<1>1. UnderWay' \subseteq UnderWay
    BY DEF UnderWay, Posted
<1>2. ListsDivided'
    BY ListsRest DEF SentAccounted
<1>3. AbroadAwaited' /\ AcksFinal'
    BY <1>1, CopiesRest DEF SentAccounted
<1> QED
    BY <1>2, <1>3 DEF SentAccounted

\* A datagram that is read and comes to nothing leaves the lists accounted for.
LEMMA TakenAccounted ==
    ASSUME FreshCopies, SentAccounted, NEW m, to_server' = Take(to_server, m),
           sent' = sent, from_pre' = from_pre, from_next' = from_next
    PROVE  SentAccounted'
<1>1. Single(to_server) /\ Singly("TRANS_ACK", to_server)
    BY DEF FreshCopies, OneCopy, SentAccounted, AcksFinal
<1>2. LettersIn(to_server') \subseteq LettersIn(to_server)
    BY <1>1, TakeLetters
<1>3. /\ Singly("TRANS_ACK", to_server')
      /\ Acks(to_server') \subseteq Acks(to_server)
    BY <1>1, TakeMails DEF Acks
<1> QED
    BY <1>2, <1>3, QuietAccounted

\* Every handler of a server leaves the lists accounted for.
LEMMA ServerStepAccounted ==
    ASSUME PaysOthers, ProperEntries, FreshCopies, RightBanks, SentAccounted,
           NEW x \in Servers, ServerStep(x)
    PROVE  SentAccounted'
<1>0. /\ TypeOK /\ ListsDivided /\ AbroadAwaited /\ AcksFinal /\ NotYetRead
      /\ UNCHANGED clientState
    BY DEF FreshCopies, HeadFrame, SentAccounted, ServerStep
<1>1. CASE RecUpdate(x)
    BY <1>0, <1>1, RecUpdateDivides, RecUpdateAwaited DEF SentAccounted
<1>2. CASE RecForward(x)
    BY <1>0, <1>2, RecForwardDivides, RecForwardAwaited DEF SentAccounted
<1>3. CASE RecAck(x)
    BY <1>0, <1>3, RecAckDivides, RecAckAwaited DEF SentAccounted
<1>4. CASE RecOtherBank(x)
    BY <1>4, RecOtherBankAccounted
<1>5. CASE RecUnknown(x)
  <2>1. PICK m \in DOMAIN to_server : to_server' = Take(to_server, m)
      BY <1>5 DEF RecUnknown
  <2>2. sent' = sent /\ from_pre' = from_pre /\ from_next' = from_next
      BY <1>5 DEF RecUnknown, serverState
  <2> QED
      BY <2>1, <2>2, TakenAccounted
<1>6. CASE RecQuery(x)
  <2>1. PICK m \in DOMAIN to_server : RecQuery(x)!(m)
      BY <1>6 DEF RecQuery
  <2>2. /\ to_server' = Take(to_server, m) /\ from_pre' = from_pre /\ from_next' = from_next
      BY <1>6, <2>1 DEF RecQuery
  <2>3. m.req \in Request /\ NameOf(m.req) \notin Names(sent[x])
    <3>1. m \in LettersIn(to_server) /\ m.to = x
        BY <2>1 DEF LettersIn
    <3>2. m.req \in Request /\ <<m.req, x, "letter">> \in UnderWay
        BY <1>0, <3>1, UnderWayMember
    <3>3. TopologyInit
        BY DEF FreshCopies, HeadFrame
    <3>4. x \in Ahead(m.req, x)
        BY <3>3, Places DEF Ahead
    <3> QED
        BY <1>0, <3>2, <3>4 DEF NotYetRead
  <2>4. sent' = sent
    <3>1. sent \in [Servers -> Seq(Request)] /\ sent[x] \in Seq(Request)
        BY <1>0, ListTypes
    <3>2. ASSUME NEW status PROVE DeleteSent(sent[x], [m.req EXCEPT !.status = status]) = sent[x]
      <4> DEFINE r == [m.req EXCEPT !.status = status]
      <4>1. NameOf(r) = NameOf(m.req)
          BY <2>3 DEF NameOf, Request
      <4> HIDE DEF r
      <4>2. DeleteSent(sent[x], r) = sent[x]
          BY <2>3, <3>1, <4>1, NamesDelete
      <4> QED
          BY <4>2 DEF r
    <3>3. \/ sent' = [sent EXCEPT ![x] = sent[x]]
          \/ \E status : sent' = [sent EXCEPT ![x] =
                                     DeleteSent(sent[x], [m.req EXCEPT !.status = status])]
        BY <2>1
    <3>4. sent' = [sent EXCEPT ![x] = sent[x]]
      <4>1. CASE \E status : sent' = [sent EXCEPT ![x] =
                                     DeleteSent(sent[x], [m.req EXCEPT !.status = status])]
        <5>1. PICK status : sent' = [sent EXCEPT ![x] =
                                     DeleteSent(sent[x], [m.req EXCEPT !.status = status])]
            BY <4>1
        <5>2. DeleteSent(sent[x], [m.req EXCEPT !.status = status]) = sent[x]
            BY <3>2
        <5> QED
            BY <5>1, <5>2
      <4> QED
          BY <3>3, <4>1
    <3> QED
        BY <3>1, <3>4
  <2> QED
      BY <2>2, <2>4, TakenAccounted
<1> QED
    BY <1>1, <1>2, <1>3, <1>4, <1>5, <1>6 DEF ServerStep, ReceiveStep, RecClient

--------------------------------------------------------------------------------
\* It holds at first and is kept by every step.

\* What a client sends has a name that is nowhere yet.
LEMMA SendRequestAccounted ==
    ASSUME FreshCopies, SentAccounted, NEW c \in Clients, NEW received \in Nat,
           SendRequest(c, received), UNCHANGED serverState
    PROVE  SentAccounted'
<1>0. /\ TypeOK /\ Unsent /\ HeadsKnown /\ next_req \in [Clients -> Nat]
      /\ ListsDivided /\ AbroadAwaited /\ AcksFinal
      /\ sent' = sent /\ from_pre' = from_pre /\ from_next' = from_next
    BY DEF FreshCopies, HeadFrame, TypeOK, ClientTypeOK, SentAccounted, serverState
<1>1. CASE to_server' = to_server
    BY <1>0, <1>1, QuietAccounted DEF AcksFinal
<1>2. CASE to_server' # to_server
  <2> DEFINE k == next_req[c] + 1
             port == PortFor(c, Queue(c)[k])
  <2>1. /\ next_req[c] < Len(Queue(c))
        /\ to_server' = Deliver(to_server, {Mail("REQUEST", port, Queue(c)[k])})
      BY <1>2 DEF SendRequest, SendTo
  <2> SUFFICES ASSUME NEW q, q = Queue(c)[k], NEW to, to = port, NEW n, n = NameOf(q)
               PROVE  SentAccounted'
      OBVIOUS
  <2> DEFINE x == Mail("REQUEST", to, q)
             f == <<q, to, "letter">>
  <2>2. q \in Request /\ n = <<c, k>>
    <3>1. /\ Queue(c) \in Seq(Request)
          /\ \A i \in 1 .. Len(Queue(c)) :
                Queue(c)[i].sent_id = i /\ Queue(c)[i].client_port = c
        BY WorkloadAssumption DEF Queue
    <3>2. k \in 1 .. Len(Queue(c))
        BY <1>0, <2>1, <3>1
    <3> HIDE DEF Queue, k
    <3> QED
        BY <3>1, <3>2 DEF NameOf
  <2>3. ~HasLeft(n)
      BY <1>0, <2>2 DEF HasLeft
  <2>4. /\ x.op = "REQUEST" /\ x.to = to /\ x.req = q
        /\ to_server' = Deliver(to_server, {x})
      BY <2>1 DEF Mail
  <2>5. q.type \in Updates /\ to # NoServer => Bank(to) = BankOf[c]
    <3>1. q.type \in Updates => to = head_port[c]
        BY DEF PortFor, Updates
    <3> QED
        BY <1>0, <3>1 DEF HeadsKnown, FirstServer, Bank
  <2> HIDE DEF x
  <2>6. LettersIn(to_server') \subseteq LettersIn(to_server) \cup {y \in {x} : to # NoServer}
    <3>1. Single(to_server)
        BY DEF FreshCopies, OneCopy
    <3>2. x \notin LettersIn(to_server)
      <4> SUFFICES ASSUME x \in LettersIn(to_server) PROVE FALSE
          OBVIOUS
      <4>1. f \in UnderWay
          BY <1>0, <2>4, UnderWayMember
      <4> QED
          BY <1>0, <2>3, <4>1 DEF Unsent
    <3> DEFINE mails == {x}
    <3>3. \A y \in mails : y.op = "REQUEST" => y \notin LettersIn(to_server)
        BY <3>2
    <3> HIDE DEF mails
    <3>4. LettersIn(Deliver(to_server, mails)) =
             LettersIn(to_server) \cup {y \in mails : y.op = "REQUEST" /\ y.to # NoServer}
        BY <3>1, <3>3, DeliverLetters
    <3> QED
        BY <2>4, <3>4 DEF mails
  <2>7. Singly("TRANS_ACK", to_server') /\ Acks(to_server') = Acks(to_server)
    <3>1. \A y \in {x} : y.op = "REQUEST"
        BY <2>4
    <3> QED
        BY <1>0, <2>4, <3>1, LettersOnly DEF AcksFinal
  <2>8. \A e \in UnderWay' : e \in UnderWay \/ (e = f /\ to # NoServer)
      BY <1>0, <2>4, <2>6 DEF UnderWay, Posted
  <2>9. ListsDivided'
      BY <1>0, ListsRest
  <2>10. \A j : /\ Awaited(j)' <=> Awaited(j)
                /\ DoneAbroad(j)' <=> DoneAbroad(j)
      BY <1>0 DEF Awaited, DoneAbroad
  <2>11. AbroadAwaited'
    <3>1. ASSUME NEW e \in UnderWay', Travels(e), Bank(e[2]) # Home(NameOf(e[1]))
          PROVE  Awaited(NameOf(e[1]))'
      <4>1. CASE e \in UnderWay
          BY <1>0, <2>10, <3>1, <4>1 DEF AbroadAwaited
      <4>2. CASE e = f /\ to # NoServer
        <5>1. q.type \in Updates
            BY <3>1, <4>2 DEF Travels
        <5>2. Home(n) = BankOf[c]
            BY <2>2 DEF Home
        <5> QED
            BY <2>5, <3>1, <4>2, <5>1, <5>2
      <4> QED
          BY <2>8, <4>1, <4>2
    <3> QED
        BY <1>0, <2>10, <3>1 DEF AbroadAwaited, Travels
  <2>12. AcksFinal'
    <3>1. ASSUME NEW m \in Acks(to_server), NEW e \in UnderWay', NameOf(e[1]) = NameOf(m.req)
          PROVE  FALSE
      <4>1. e \notin UnderWay
          BY <1>0, <3>1 DEF AcksFinal
      <4>2. NameOf(m.req) = n
          BY <2>8, <3>1, <4>1
      <4>3. Awaited(n) /\ m.req \in Request
          BY <1>0, <4>2, NamedRequests DEF AcksFinal
      <4>4. LastServer(Home(n)) \in Servers
          BY <4>2, <4>3, HomeTail
      <4>5. HasLeft(n)
          BY <1>0, <4>3, <4>4 DEF Awaited, Unsent
      <4> QED
          BY <2>3, <4>5
    <3> QED
        BY <1>0, <2>7, <2>10, <3>1 DEF AcksFinal
  <2> QED
      BY <2>9, <2>11, <2>12 DEF SentAccounted
<1> QED
    BY <1>1, <1>2

\* So does a client that sends nothing again.
LEMMA ClientStepAccounted ==
    ASSUME NoResends, FreshCopies, SentAccounted, NEW c \in Clients, ClientStep(c)
    PROVE  SentAccounted'
<1>0. last_rec_id[c] \in Nat /\ last_rec_id[c] + 1 \in Nat
    BY DEF FreshCopies, HeadFrame, TypeOK, ClientTypeOK
<1>1. CASE StartClient(c)
    BY <1>0, <1>1, SendRequestAccounted DEF StartClient
<1>2. CASE RecvReply(c)
  <2>1. SendRequest(c, last_rec_id[c] + 1) /\ UNCHANGED serverState
      BY <1>2 DEF RecvReply
  <2> QED
      BY <1>0, <2>1, SendRequestAccounted
<1>3. CASE RecvSetHeadTail(c)
  <2>1. UNCHANGED serverState /\ to_server' = to_server
      BY <1>3 DEF RecvSetHeadTail
  <2>2. sent' = sent /\ from_pre' = from_pre /\ from_next' = from_next
      BY <2>1 DEF serverState
  <2> QED
      BY <2>1, <2>2, QuietAccounted DEF SentAccounted, AcksFinal
<1>4. ASSUME NEW k \in 1 .. Len(Queue(c)), CheckReceive(c, k) PROVE FALSE
  <2>1. whether_resend_newhead[c] /\ my_resend_time[c][k] < resend_times[c]
      BY <1>4 DEF CheckReceive
  <2>2. my_resend_time[c][k] \in Nat
      BY DEF FreshCopies, HeadFrame, TypeOK, ClientTypeOK
  <2> QED
      BY <2>1, <2>2 DEF NoResends
<1> QED
    BY <1>1, <1>2, <1>3, <1>4 DEF ClientStep, RecvMsg

\* At first the lists are empty.
LEMMA SentAccountedInit ==
    ASSUME Init
    PROVE  SentAccounted
<1>0. TypeOK /\ TopologyInit
    BY InitType DEF Init, ServerInit
<1>1. \A s \in Servers : /\ sent[s] = <<>> /\ from_pre[s] = <<>> /\ from_next[s] = <<>>
    BY DEF Init, ServerInit, ServersStart
<1>2. DOMAIN to_server = {}
    BY DEF Init, ServerInit, ServersStart, EmptyBag, SetToBag
<1>3. /\ Names(<<>>) = {} /\ Distinct(<<>>) /\ Carried(<<>>) = <<>>
      /\ Shares(<<>>, <<>>, <<>>, <<>>)
    BY DEF Names, ToSet, Distinct, Carried, Shares
<1>4. ListsDivided
  <2>1. ASSUME NEW e \in Neighbours PROVE Divided(e[1], e[2])
    <3>1. e[1] \in Servers /\ e[2] \in Servers
        BY DEF Neighbours
    <3> QED
        BY <1>1, <1>3, <3>1 DEF Divided
  <2> QED
      BY <1>1, <1>3, <2>1 DEF ListsDivided
<1>5. UnderWay = {}
  <2>1. from_pre \in [Servers -> Seq(Forwards)]
      BY <1>0, ListTypes
  <2>2. ASSUME NEW e \in Streamed(from_pre) PROVE FALSE
    <3>1. PICK s \in Servers : Carries(from_pre, s, e)
        BY <2>1, StreamedMember
    <3> QED
        BY <1>1, <3>1 DEF Carries
  <2>3. Posted(to_server) = {}
      BY <1>2 DEF Posted, LettersIn
  <2> QED
      BY <2>2, <2>3 DEF UnderWay
<1>6. AbroadAwaited
    BY <1>1, <1>3, <1>5 DEF AbroadAwaited
<1>7. AcksFinal
    BY <1>2 DEF AcksFinal, Acks, MailsIn, Singly
<1> QED
    BY <1>4, <1>6, <1>7 DEF SentAccounted

\* Every step leaves the lists accounted for.
LEMMA SentAccountedStep ==
    ASSUME NoResends, PaysOthers, ProperEntries, FreshCopies, RightBanks, SentAccounted,
           [Next]_vars
    PROVE  SentAccounted'
<1>1. CASE Lose
  <2>1. sent' = sent /\ from_pre' = from_pre /\ from_next' = from_next
      BY <1>1 DEF Lose, serverState
  <2>2. CASE to_server' = to_server
      BY <2>1, <2>2, QuietAccounted DEF SentAccounted, AcksFinal
  <2>3. CASE to_server' # to_server
    <3>1. PICK m \in DOMAIN to_server : to_server' = Take(to_server, m)
        BY <1>1, <2>3 DEF Lose
    <3> QED
        BY <2>1, <3>1, TakenAccounted
  <2> QED
      BY <2>2, <2>3
<1>2. CASE UNCHANGED vars
  <2>1. sent' = sent /\ from_pre' = from_pre /\ from_next' = from_next /\ to_server' = to_server
      BY <1>2 DEF vars, serverState, network
  <2> QED
      BY <2>1, QuietAccounted DEF SentAccounted, AcksFinal
<1> QED
    BY <1>1, <1>2, ServerStepAccounted, ClientStepAccounted DEF Next

\* Lists that are accounted for nest, and count as InprocessRequests says.
LEMMA AccountedInprocess ==
    ASSUME TypeOK, SentAccounted
    PROVE  InprocessRequests
<1> SUFFICES ASSUME NEW e \in Neighbours
             PROVE  InprocessRequests!(e)
    BY DEF InprocessRequests
<1> DEFINE p == e[1]
           s == e[2]
<1>1. p \in Servers /\ s \in Servers
    BY DEF Neighbours
<1>2. /\ from_pre[s] \in Seq(Forwards)
      /\ Forwarded(s) = Carried(from_pre[s])
      /\ Len(Carried(from_pre[s])) = Len(from_pre[s])
    BY <1>1, ListTypes, CarriedList DEF Forwarded, Carried
<1>3. Shares(sent[p], Carried(from_pre[s]), sent[s], from_next[p])
    BY DEF SentAccounted, ListsDivided, Divided
<1> QED
    BY <1>2, <1>3 DEF Shares

\* Without resends the list of updates in process (`sent`) of a server is exactly
\* what it has forwarded and its successor has not read, what its successor keeps,
\* and what is acknowledged and unread, transfers that a payer waits for included:
\* a server whose successor fails knows every update that could be lost
\* (sent, delete_sent, ack_to_source_bank).
THEOREM InprocessRequestsCorrect ==
    NoResends /\ ProperEntries /\ PaysOthers => (Spec => []InprocessRequests)
<1> SUFFICES ASSUME NoResends, ProperEntries, PaysOthers PROVE Spec => []InprocessRequests
    OBVIOUS
<1>1. Init => SentAccounted
    BY SentAccountedInit
<1>2. FreshCopies /\ RightBanks /\ SentAccounted /\ [Next]_vars => SentAccounted'
    BY SentAccountedStep
<1>3. FreshCopies /\ SentAccounted => InprocessRequests
    BY AccountedInprocess DEF FreshCopies, HeadFrame
<1>4. Spec => []FreshCopies
    BY FreshCopiesCorrect
<1>5. Spec => []RightBanks
    BY RightBanksCorrect
<1> QED
    BY <1>1, <1>2, <1>3, <1>4, <1>5, PTL DEF Spec

--------------------------------------------------------------------------------
\* Money.

\* The deployment is finite, as any is.
FiniteDeployment == IsFiniteSet(Banks) /\ IsFiniteSet(Accounts) /\ IsFiniteSet(Clients)

\* Transfers are to banks of the configuration file.
PaysBanks ==
    \A c \in Clients : \A k \in 1 .. Len(Queue(c)) :
      Queue(c)[k].type = "transfer" => Queue(c)[k].dest_bank_id \in Banks

\* No client uses the id of another client's transfer.
TransferIds ==
    \A c, d \in Clients : \A k \in 1 .. Len(Queue(c)), l \in 1 .. Len(Queue(d)) :
      Queue(c)[k].type = "transfer" /\ Queue(d)[l].req_id = Queue(c)[k].req_id => c = d

\* The names that the head of a bank has executed or refused.
Filed(b) ==
    Names(processed_trans[FirstServer(b)]) \cup Names(insuf_funds_trans[FirstServer(b)])

\* Heads file what comes to their bank, and what has left its client's queue.
HeadsFile ==
    \A b \in Banks :
      /\ processed_trans[FirstServer(b)] \in Seq(Reached(b))
      /\ insuf_funds_trans[FirstServer(b)] \in Seq(Reached(b))
      /\ \A n \in Filed(b) : HasLeft(n)

\* No copy under way has been filed by a head it will come to.
NotYetFiled ==
    \A e \in UnderWay : \A b \in Banks :
      FirstServer(b) \in Ahead(e[1], e[2]) => NameOf(e[1]) \notin Filed(b)

\* A transfer comes to the payee's head debited, and to the payer's as it was asked.
Charged ==
    \A e \in UnderWay :
      e[3] = "letter" /\ e[1].type = "transfer" =>
        (e[1].status = "Need" <=> Bank(e[2]) # BankOf[e[1].client_port])

\* The head of the client's bank has executed what bears this name.
Debited(n) == Home(n) \in Banks /\ n \in Names(processed_trans[FirstServer(Home(n))])

\* What is under way as debited has been, and so has all that came to another bank.
DebitsRecorded ==
    /\ \A e \in UnderWay :
          e[1].type = "transfer" /\ e[1].status = "Need" => Debited(NameOf(e[1]))
    /\ \A b \in Banks : \A n \in Filed(b) : Home(n) # b => Debited(n)

\* A copy of a transfer that is debited, and still to be credited.
Owed(e) ==
    /\ e[1].type = "transfer" /\ e[1].status = "Need"
    /\ FirstServer(e[1].dest_bank_id) \in Ahead(e[1], e[2])

OwedNames == {NameOf(e[1]) : e \in {f \in UnderWay : Owed(f)}}

Entries == UNION {{c} \X (1 .. Len(Queue(c))) : c \in Clients}

\* The sum of a table over a finite set.
SumOf(F, S) == MapThenSumSet(LAMBDA x : F[x], S)

\* What the accounts hold at the heads, what is between two banks, and what has
\* been paid in.
AtHeads == [e \in Banks \X Accounts |-> balance_map[FirstServer(e[1])][e[2]]]

Between == [n \in Entries |-> IF n \in OwedNames THEN Queue(n[1])[n[2]].amount ELSE 0]

PaidTable == [b \in Banks |-> PaidIn(b)]

\* What the accounts of all banks hold at the heads and what is on its way between
\* two banks is what clients paid in and did not draw.
MoneyBalanced ==
    SumOf(AtHeads, Banks \X Accounts) + SumOf(Between, Entries) = SumOf(PaidTable, Banks)

\* The invariant behind MoneyConserved.
MoneyAccounted ==
    HeadsFile /\ NotYetFiled /\ Charged /\ DebitsRecorded /\ MoneyBalanced

--------------------------------------------------------------------------------
\* Sums over finite sets.

\* Induction over the subsets of a finite set: what holds of the empty set, and of a
\* set when it holds of that set without one of its elements, holds of all.
LEMMA SubsetInduction ==
    ASSUME NEW S, IsFiniteSet(S), NEW T, {} \in T,
           \A s \in SUBSET S : s # {} /\ s \ {CHOOSE x \in s : TRUE} \in T => s \in T
    PROVE  SUBSET S \subseteq T
<1> DEFINE Sized(k) == \A s \in SUBSET S : Cardinality(s) = k => s \in T
           I == {k \in Nat : Sized(k)}
<1>0. ASSUME NEW s \in SUBSET S
      PROVE  IsFiniteSet(s) /\ Cardinality(s) \in Nat /\ (Cardinality(s) = 0 => s = {})
    BY FS_Subset, FS_CardinalityType, FS_EmptySet
<1>1. 0 \in I
    BY <1>0
<1>2. ASSUME NEW k \in I \cap Nat
      PROVE  k + 1 \in I
  <2>1. ASSUME NEW s \in SUBSET S, Cardinality(s) = k + 1
        PROVE  s \in T
    <3> DEFINE x == CHOOSE y \in s : TRUE
    <3>1. s # {}
        BY <2>1, FS_EmptySet
    <3>2. x \in s
        BY <3>1
    <3>3. s \ {x} \in SUBSET S /\ IsFiniteSet(s) /\ k \in Nat
        BY <1>0
    <3> HIDE DEF x
    <3>5. Cardinality(s \ {x}) = Cardinality(s) - 1
        BY <3>2, <3>3, FS_RemoveElement
    <3>6. Cardinality(s \ {x}) = k
        BY <2>1, <3>3, <3>5
    <3>4. s \ {x} \in T
        BY <1>2, <3>3, <3>6
    <3> QED
        BY <3>1, <3>4 DEF x
  <2> QED
      BY <2>1
<1>3. Nat \subseteq I
  <2> HIDE DEF I
  <2> QED
      BY <1>1, <1>2, Induction
<1> QED
    BY <1>0, <1>3

\* w sums the values of F over every subset of S.
Sums(w, F, S) ==
    /\ w \in [SUBSET S -> Int]
    /\ \A s \in SUBSET S :
          w[s] = IF s = {} THEN 0
                 ELSE F[CHOOSE x \in s : TRUE] + w[s \ {CHOOSE x \in s : TRUE}]

\* Such sums exist.
LEMMA SumsExist ==
    ASSUME NEW S, IsFiniteSet(S), NEW F \in [S -> Int]
    PROVE  \E w : Sums(w, F, S)
<1> DEFINE Sum(f, s) == IF s = {} THEN 0
                        ELSE F[CHOOSE x \in s : TRUE] + f[s \ {CHOOSE x \in s : TRUE}]
           Solved(k, f) == /\ f \in [SUBSET S -> Int]
                           /\ \A s \in SUBSET S : Cardinality(s) <= k => f[s] = Sum(f, s)
           I == {k \in Nat : \E f : Solved(k, f)}
<1>0. ASSUME NEW s \in SUBSET S
      PROVE  /\ IsFiniteSet(s) /\ Cardinality(s) \in Nat
             /\ Cardinality(s) = 0 => s = {}
             /\ Cardinality(s) <= Cardinality(S)
             /\ s # {} => /\ (CHOOSE x \in s : TRUE) \in s
                          /\ Cardinality(s \ {CHOOSE x \in s : TRUE}) = Cardinality(s) - 1
    BY FS_Subset, FS_CardinalityType, FS_EmptySet, FS_RemoveElement
<1>1. 0 \in I
  <2> DEFINE f == [s \in SUBSET S |-> 0]
  <2>1. ASSUME NEW s \in SUBSET S, Cardinality(s) <= 0
        PROVE  s = {}
    <3>1. Cardinality(s) \in Nat /\ (Cardinality(s) = 0 => s = {})
        BY <1>0
    <3> QED
        BY <2>1, <3>1
  <2>2. Solved(0, f)
      BY <2>1
  <2> HIDE DEF Solved
  <2> QED
      BY <2>2
<1>2. ASSUME NEW k \in I \cap Nat
      PROVE  k + 1 \in I
  <2>1. PICK f : Solved(k, f)
      BY <1>2
  <2> DEFINE g == [s \in SUBSET S |-> Sum(f, s)]
  <2>2. ASSUME NEW s \in SUBSET S, s # {}
        PROVE  /\ F[CHOOSE x \in s : TRUE] \in Int
               /\ s \ {CHOOSE x \in s : TRUE} \in SUBSET S
      BY <1>0, <2>2
  <2>3. g \in [SUBSET S -> Int]
      BY <2>1, <2>2
  <2>4. ASSUME NEW s \in SUBSET S, Cardinality(s) <= k + 1
        PROVE  g[s] = Sum(g, s)
    <3>1. CASE s = {}
        BY <3>1
    <3>2. CASE s # {}
      <4> DEFINE t == s \ {CHOOSE x \in s : TRUE}
      <4>1. t \in SUBSET S /\ Cardinality(t) <= k
          BY <1>0, <2>2, <2>4, <3>2
      <4> HIDE DEF t
      <4>2. g[t] = f[t]
          BY <2>1, <4>1
      <4> QED
          BY <3>2, <4>2 DEF t
    <3> QED
        BY <3>1, <3>2
  <2>5. Solved(k + 1, g)
      BY <2>3, <2>4
  <2> HIDE DEF Solved, g
  <2> QED
      BY <2>5
<1>3. Cardinality(S) \in I
  <2>1. Nat \subseteq I
    <3> HIDE DEF I
    <3> QED
        BY <1>1, <1>2, Induction
  <2>2. Cardinality(S) \in Nat
      BY FS_CardinalityType
  <2> HIDE DEF I
  <2> QED
      BY <2>1, <2>2
<1>4. PICK f : Solved(Cardinality(S), f)
    BY <1>3
<1>5. Sums(f, F, S)
    BY <1>0, <1>4 DEF Sums
<1> QED
    BY <1>5

\* SumOf is what such sums say of the whole set.
LEMMA SumOfProperty ==
    ASSUME NEW S, IsFiniteSet(S), NEW F \in [S -> Int]
    PROVE  \E w : Sums(w, F, S) /\ SumOf(F, S) = w[S]
<1> DEFINE Equation(f) == f = [s \in SUBSET S |->
              IF s = {} THEN 0
              ELSE F[CHOOSE x \in s : TRUE] + f[s \ {CHOOSE x \in s : TRUE}]]
           iter == CHOOSE f : Equation(f)
<1>1. SumOf(F, S) = iter[S]
    BY DEF SumOf, MapThenSumSet, MapThenFoldSet
<1>2. PICK w : Sums(w, F, S)
    BY SumsExist
<1>3. Equation(w)
    BY <1>2 DEF Sums
<1>4. Equation(iter)
  <2> HIDE DEF Equation
  <2> QED
      BY <1>3
<1> HIDE DEF iter
<1>5. \A s \in SUBSET S : iter[s] = w[s]
  <2> DEFINE T == {s \in SUBSET S : iter[s] = w[s]}
  <2>1. {} \in T
      BY <1>2, <1>4 DEF Sums
  <2>2. ASSUME NEW s \in SUBSET S, s # {}, s \ {CHOOSE x \in s : TRUE} \in T
        PROVE  s \in T
      BY <1>2, <1>4, <2>2 DEF Sums
  <2>3. SUBSET S \subseteq T
    <3> HIDE DEF T
    <3> QED
        BY <2>1, <2>2, SubsetInduction
  <2> QED
      BY <2>3
<1>6. S \in SUBSET S
    OBVIOUS
<1> QED
    BY <1>1, <1>2, <1>5, <1>6

\* One value of a table changes, and its sum by as much.
LEMMA SumChanges ==
    ASSUME NEW S, IsFiniteSet(S), NEW F \in [S -> Int], NEW G \in [S -> Int],
           NEW x \in S, \A y \in S : y # x => G[y] = F[y]
    PROVE  /\ SumOf(F, S) \in Int
           /\ SumOf(G, S) = SumOf(F, S) + (G[x] - F[x])
<1>1. PICK v : Sums(v, F, S) /\ SumOf(F, S) = v[S]
    BY SumOfProperty
<1>2. PICK w : Sums(w, G, S) /\ SumOf(G, S) = w[S]
    BY SumOfProperty
<1> DEFINE Moved(s) == IF x \in s THEN G[x] - F[x] ELSE 0
           T == {s \in SUBSET S : w[s] = v[s] + Moved(s)}
<1>3. {} \in T
    BY <1>1, <1>2 DEF Sums
<1>4. ASSUME NEW s \in SUBSET S, s # {}, s \ {CHOOSE y \in s : TRUE} \in T
      PROVE  s \in T
  <2> DEFINE y == CHOOSE z \in s : TRUE
             t == s \ {y}
  <2>1. y \in s /\ y \in S
      BY <1>4
  <2>2. v[s] = F[y] + v[t] /\ w[s] = G[y] + w[t] /\ w[t] = v[t] + Moved(t)
      BY <1>1, <1>2, <1>4 DEF Sums
  <2>3. v[t] \in Int /\ w[t] \in Int /\ F[y] \in Int /\ G[y] \in Int
        /\ F[x] \in Int /\ G[x] \in Int
      BY <1>1, <1>2, <2>1 DEF Sums
  <2> HIDE DEF y
  <2>4. CASE x = y
      BY <2>1, <2>2, <2>3, <2>4
  <2>5. CASE x # y
    <3>1. G[y] = F[y] /\ Moved(s) = Moved(t) /\ Moved(t) \in Int
        BY <2>1, <2>3, <2>5
    <3> QED
        BY <2>2, <2>3, <3>1
  <2> QED
      BY <2>4, <2>5
<1>5. S \in T
  <2>1. SUBSET S \subseteq T
    <3> HIDE DEF T
    <3> QED
        BY <1>3, <1>4, SubsetInduction
  <2> QED
      BY <2>1
<1> QED
    BY <1>1, <1>2, <1>5 DEF Sums

\* A table of zeros sums to 0.
LEMMA SumOfNothing ==
    ASSUME NEW S, IsFiniteSet(S), NEW F \in [S -> Int], \A x \in S : F[x] = 0
    PROVE  SumOf(F, S) = 0
<1>1. PICK w : Sums(w, F, S) /\ SumOf(F, S) = w[S]
    BY SumOfProperty
<1> DEFINE T == {s \in SUBSET S : w[s] = 0}
<1>2. {} \in T
    BY <1>1 DEF Sums
<1>3. ASSUME NEW s \in SUBSET S, s # {}, s \ {CHOOSE y \in s : TRUE} \in T
      PROVE  s \in T
    BY <1>1, <1>3 DEF Sums
<1>4. SUBSET S \subseteq T
  <2> HIDE DEF T
  <2> QED
      BY <1>2, <1>3, SubsetInduction
<1> QED
    BY <1>1, <1>4

\* A finite union of finite sets is finite.
LEMMA FiniteUnion ==
    ASSUME NEW S, IsFiniteSet(S), NEW G, \A x \in S : IsFiniteSet(G[x])
    PROVE  IsFiniteSet(UNION {G[x] : x \in S})
<1> DEFINE All(s) == UNION {G[x] : x \in s}
           T == {s \in SUBSET S : IsFiniteSet(All(s))}
<1>1. {} \in T
  <2>1. All({}) = {}
      OBVIOUS
  <2> QED
      BY <2>1, FS_EmptySet
<1>2. ASSUME NEW s \in SUBSET S, s # {}, s \ {CHOOSE y \in s : TRUE} \in T
      PROVE  s \in T
  <2> DEFINE y == CHOOSE z \in s : TRUE
  <2>1. y \in s /\ y \in S
      BY <1>2
  <2>2. IsFiniteSet(All(s \ {y})) /\ IsFiniteSet(G[y])
      BY <1>2, <2>1
  <2> HIDE DEF y
  <2>3. All(s) = All(s \ {y}) \cup G[y]
      BY <2>1
  <2> DEFINE rest == All(s \ {y})
  <2> HIDE DEF rest
  <2>4. IsFiniteSet(rest)
      BY <2>2 DEF rest
  <2>5. IsFiniteSet(rest \cup G[y])
      BY <2>2, <2>4, FS_Union
  <2> QED
      BY <2>3, <2>5 DEF rest
<1>3. S \in T
  <2>1. SUBSET S \subseteq T
    <3> HIDE DEF T
    <3> QED
        BY <1>1, <1>2, SubsetInduction
  <2> QED
      BY <2>1
<1> QED
    BY <1>3

\* Entries and accounts are finitely many.
LEMMA FiniteTables ==
    ASSUME FiniteDeployment
    PROVE  /\ IsFiniteSet(Banks) /\ IsFiniteSet(Banks \X Accounts) /\ IsFiniteSet(Entries)
<1>1. ASSUME NEW S, NEW x, IsFiniteSet(S)
      PROVE  IsFiniteSet({x} \X S)
  <2> DEFINE f == [e \in {x} \X S |-> e[2]]
  <2>1. f \in Injection({x} \X S, S)
      BY DEF Injection, IsInjective
  <2> HIDE DEF f
  <2> QED
      BY <1>1, <2>1, FS_Injection
<1>2. IsFiniteSet(Banks \X Accounts)
  <2> DEFINE G == [b \in Banks |-> {b} \X Accounts]
  <2>1. \A b \in Banks : IsFiniteSet(G[b])
      BY <1>1 DEF FiniteDeployment
  <2>2. Banks \X Accounts = UNION {G[b] : b \in Banks}
      OBVIOUS
  <2> HIDE DEF G
  <2> QED
      BY <2>1, <2>2, FiniteUnion DEF FiniteDeployment
<1>3. IsFiniteSet(Entries)
  <2> DEFINE G == [c \in Clients |-> {c} \X (1 .. Len(Queue(c)))]
  <2>1. ASSUME NEW c \in Clients
        PROVE  IsFiniteSet(G[c])
    <3>1. Len(Queue(c)) \in Nat
        BY WorkloadAssumption DEF Queue
    <3>2. IsFiniteSet(1 .. Len(Queue(c)))
        BY <3>1, FS_Interval
    <3> QED
        BY <1>1, <3>2
  <2>2. Entries = UNION {G[c] : c \in Clients}
      BY DEF Entries
  <2> HIDE DEF G
  <2> QED
      BY <2>1, <2>2, FiniteUnion DEF FiniteDeployment
<1> QED
    BY <1>2, <1>3 DEF FiniteDeployment

\* f adds up as the library's sums do.
AddsUp(f, F, S) ==
    \A s \in SUBSET S :
      f[s] = IF s = {} THEN 0
             ELSE F[CHOOSE x \in s : TRUE] + f[s \ {CHOOSE x \in s : TRUE}]

\* What adds up so comes to the sum.
LEMMA SumIs ==
    ASSUME NEW S, IsFiniteSet(S), NEW F \in [S -> Int], NEW f, AddsUp(f, F, S)
    PROVE  SumOf(F, S) = f[S]
<1>1. PICK w : Sums(w, F, S) /\ SumOf(F, S) = w[S]
    BY SumOfProperty
<1> DEFINE T == {s \in SUBSET S : f[s] = w[s]}
<1>2. {} \in T
    BY <1>1 DEF Sums, AddsUp
<1>3. ASSUME NEW s \in SUBSET S, s # {}, s \ {CHOOSE x \in s : TRUE} \in T
      PROVE  s \in T
    BY <1>1, <1>3 DEF Sums, AddsUp
<1>4. SUBSET S \subseteq T
  <2> HIDE DEF T
  <2> QED
      BY <1>2, <1>3, SubsetInduction
<1> QED
    BY <1>1, <1>4

\* TotalAtTails is the sum of a table.
LEMMA TotalIsSum ==
    ASSUME FiniteDeployment, NEW F \in [Banks \X Accounts -> Int],
           \A e \in Banks \X Accounts : F[e] = balance_map[LastServer(e[1])][e[2]]
    PROVE  TotalAtTails = SumOf(F, Banks \X Accounts)
<1> DEFINE S == Banks \X Accounts
           At(e) == balance_map[LastServer(e[1])][e[2]]
           Equation(f) == f = [s \in SUBSET S |->
              IF s = {} THEN 0
              ELSE At(CHOOSE x \in s : TRUE) + f[s \ {CHOOSE x \in s : TRUE}]]
           iter == CHOOSE f : Equation(f)
<1>1. TotalAtTails = iter[S]
    BY DEF TotalAtTails, MapThenSumSet, MapThenFoldSet
<1>2. IsFiniteSet(S) /\ F \in [S -> Int]
    BY FiniteTables
<1>3. \A s \in SUBSET S : s # {} => At(CHOOSE x \in s : TRUE) = F[CHOOSE x \in s : TRUE]
  <2>1. \A s \in SUBSET S : s # {} => (CHOOSE x \in s : TRUE) \in S
      OBVIOUS
  <2> QED
      BY <2>1
<1> HIDE DEF S, At
<1>4. Equation(iter)
  <2>1. PICK w : Sums(w, F, S)
      BY <1>2, SumsExist
  <2>2. Equation(w)
      BY <1>3, <2>1 DEF Sums
  <2> HIDE DEF Equation
  <2> QED
      BY <2>2
<1> HIDE DEF iter
<1>5. AddsUp(iter, F, S)
    BY <1>3, <1>4 DEF AddsUp
<1>6. SumOf(F, S) = iter[S]
    BY <1>2, <1>5, SumIs
<1> QED
    BY <1>1, <1>6 DEF S

\* The sum of what clients paid in is the sum of a table.
LEMMA PaidIsSum ==
    ASSUME FiniteDeployment, NEW F \in [Banks -> Int], \A b \in Banks : F[b] = PaidIn(b)
    PROVE  MapThenSumSet(PaidIn, Banks) = SumOf(F, Banks)
<1> DEFINE S == Banks
           Equation(f) == f = [s \in SUBSET S |->
              IF s = {} THEN 0
              ELSE PaidIn(CHOOSE x \in s : TRUE) + f[s \ {CHOOSE x \in s : TRUE}]]
           iter == CHOOSE f : Equation(f)
<1>1. MapThenSumSet(PaidIn, Banks) = iter[S]
    BY DEF MapThenSumSet, MapThenFoldSet
<1>2. IsFiniteSet(S) /\ F \in [S -> Int]
    BY DEF FiniteDeployment
<1>3. \A s \in SUBSET S : s # {} => PaidIn(CHOOSE x \in s : TRUE) = F[CHOOSE x \in s : TRUE]
  <2>1. \A s \in SUBSET S : s # {} => (CHOOSE x \in s : TRUE) \in S
      OBVIOUS
  <2> QED
      BY <2>1
<1> HIDE DEF S
<1>4. Equation(iter)
  <2>1. PICK w : Sums(w, F, S)
      BY <1>2, SumsExist
  <2>2. Equation(w)
      BY <1>3, <2>1 DEF Sums
  <2> HIDE DEF Equation
  <2> QED
      BY <2>2
<1> HIDE DEF iter
<1>5. AddsUp(iter, F, S)
    BY <1>3, <1>4 DEF AddsUp
<1>6. SumOf(F, S) = iter[S]
    BY <1>2, <1>5, SumIs
<1> QED
    BY <1>1, <1>6 DEF S

--------------------------------------------------------------------------------
\* What clients paid in.

\* What one executed update adds to that.
PaidBy(q) == CASE q.type = "deposit"  -> q.amount
               [] q.type = "withdraw" -> -q.amount
               [] OTHER -> 0

\* What is paid in as a history is read.
IsPaidWalk(w, h) ==
    /\ w \in [0 .. Len(h) -> Int]
    /\ w[0] = 0
    /\ \A i \in 1 .. Len(h) : w[i] = w[i - 1] + PaidBy(h[i])
    /\ PaidInBy(h) = w[Len(h)]

\* PaidInBy adds up a history one update after the other.
LEMMA PaidWalk ==
    ASSUME NEW h \in Seq(Request)
    PROVE  \E w : IsPaidWalk(w, h)
<1> DEFINE n == Len(h)
           Then(sum, q) == CASE q.type = "deposit"  -> sum + q.amount
                             [] q.type = "withdraw" -> sum - q.amount
                             [] OTHER -> sum
           Equation(f) == f = [s \in SUBSET DOMAIN h |->
              IF s = {} THEN 0 ELSE Then(f[s \ {Max(s)}], h[Max(s)])]
           iter == CHOOSE f : Equation(f)
           step == [i \in 1 .. n |-> [v \in Int |-> Then(v, h[i])]]
           w == [k \in 0 .. n |-> iter[1 .. k]]
<1>1. PaidInBy(h) = iter[DOMAIN h]
    BY DEF PaidInBy, FoldLeft, MapThenFoldSet
<1>2. DOMAIN h = 1 .. n /\ n \in Nat
    OBVIOUS
<1>3. \A i \in 1 .. n : PaidBy(h[i]) \in Int /\ \A v \in Int : Then(v, h[i]) = v + PaidBy(h[i])
  <2>1. \A q \in Request : q.amount \in Int /\ -q.amount \in Int
      BY DEF Request
  <2>2. \A q \in Request : PaidBy(q) \in Int /\ \A v \in Int : Then(v, q) = v + PaidBy(q)
      BY <2>1 DEF PaidBy
  <2> HIDE DEF Then
  <2> QED
      BY <2>2
<1> HIDE DEF Then
<1>4. Equation(iter)
  <2>1. n \in Nat /\ 0 \in Int /\ step \in StepsOn(n, Int)
      BY <1>2, <1>3 DEF StepsOn
  <2>2. PICK f : Solves(f, n, Int, 0, step)
    <3> HIDE DEF n, step
    <3> QED
        BY <2>1, RecursionExists
  <2>3. ASSUME NEW s \in SUBSET (1 .. n), s # {}
        PROVE  f[s] = Then(f[s \ {Max(s)}], h[Max(s)]) /\ f[s \ {Max(s)}] \in Int
               /\ Max(s) \in 1 .. n
    <3>1. Max(s) \in 1 .. n /\ s \ {Max(s)} \in SUBSET (1 .. n)
        BY <1>2, <2>3, MaxOfRange
    <3>2. f[s \ {Max(s)}] \in Int
        BY <2>2, <3>1 DEF Solves
    <3> QED
        BY <2>2, <2>3, <3>1, <3>2 DEF Solves
  <2>4. Equation(f)
      BY <1>2, <2>2, <2>3 DEF Solves
  <2> HIDE DEF Equation
  <2> QED
      BY <2>4
<1> HIDE DEF iter
<1>5. iter[{}] = 0
    BY <1>4
<1>6. ASSUME NEW k \in 1 .. n
      PROVE  iter[1 .. k] = Then(iter[1 .. k - 1], h[k])
  <2>1. /\ 1 .. k \in SUBSET DOMAIN h /\ 1 .. k # {}
        /\ Max(1 .. k) = k /\ (1 .. k) \ {k} = 1 .. k - 1
      BY <1>2, FirstItems
  <2>2. iter[1 .. k] = Then(iter[(1 .. k) \ {Max(1 .. k)}], h[Max(1 .. k)])
      BY <1>4, <2>1
  <2> QED
      BY <2>1, <2>2
<1>7. w[0] = 0 /\ \A k \in 1 .. n : w[k] = Then(w[k - 1], h[k])
    BY <1>2, <1>5, <1>6
<1>8. w \in [0 .. n -> Int]
  <2> DEFINE T == {k \in Nat : k <= n => w[k] \in Int}
  <2>1. 0 \in T
      BY <1>7
  <2>2. ASSUME NEW k \in T \cap Nat PROVE k + 1 \in T
    <3>1. k + 1 <= n => k + 1 \in 1 .. n /\ k <= n /\ (k + 1) - 1 = k
        BY <1>2
    <3> HIDE DEF w
    <3>2. ASSUME k + 1 <= n
          PROVE  w[k + 1] = w[k] + PaidBy(h[k + 1]) /\ PaidBy(h[k + 1]) \in Int
      <4>1. k + 1 \in 1 .. n /\ w[(k + 1) - 1] = w[k] /\ w[k] \in Int
          BY <3>1, <3>2
      <4>2. w[k + 1] = Then(w[k], h[k + 1])
          BY <1>7, <3>1, <3>2, <4>1
      <4> QED
          BY <1>3, <4>1, <4>2
    <3> QED
        BY <3>1, <3>2
  <2>3. Nat \subseteq T
    <3> HIDE DEF T
    <3> QED
        BY <2>1, <2>2, Induction
  <2>4. \A k \in 0 .. n : w[k] \in Int
    <3> HIDE DEF w
    <3> QED
        BY <1>2, <2>3
  <2> QED
      BY <2>4
<1>9. PaidInBy(h) = w[n]
    BY <1>1, <1>2
<1> HIDE DEF w
<1>10. \A k \in 1 .. n : w[k] = w[k - 1] + PaidBy(h[k])
  <2>1. \A k \in 1 .. n : k - 1 \in 0 .. n
      BY <1>2
  <2> QED
      BY <1>3, <1>7, <1>8, <2>1
<1> QED
    BY <1>7, <1>8, <1>9, <1>10 DEF IsPaidWalk

\* An empty history has paid in nothing.
LEMMA PaidNothing == PaidInBy(<<>>) = 0
<1>1. <<>> \in Seq(Request) /\ Len(<<>>) = 0
    OBVIOUS
<1>2. PICK w : IsPaidWalk(w, <<>>)
    BY <1>1, PaidWalk
<1> QED
    BY <1>1, <1>2 DEF IsPaidWalk

\* An update more in a history adds what it pays in.
LEMMA PaidAppend ==
    ASSUME NEW h \in Seq(Request), NEW q \in Request
    PROVE  /\ PaidInBy(h) \in Int
           /\ PaidInBy(Append(h, q)) = PaidInBy(h) + PaidBy(q)
<1>1. PICK v : IsPaidWalk(v, h)
    BY PaidWalk
<1> DEFINE g == Append(h, q)
<1>2. /\ g \in Seq(Request) /\ Len(g) = Len(h) + 1 /\ Len(h) \in Nat
      /\ \A i \in 1 .. Len(h) : g[i] = h[i]
      /\ g[Len(h) + 1] = q
    OBVIOUS
<1> HIDE DEF g
<1>3. PICK w : IsPaidWalk(w, g)
    BY <1>2, PaidWalk
<1>4. Agree(Len(h), v, w)
  <2>1. ASSUME NEW i \in 1 .. Len(h), v[i - 1] = w[i - 1] PROVE v[i] = w[i]
    <3>1. i \in 1 .. Len(g) /\ g[i] = h[i]
        BY <1>2
    <3> QED
        BY <1>1, <1>3, <2>1, <3>1 DEF IsPaidWalk
  <2>2. v[0] = w[0] /\ Len(h) \in Nat
      BY <1>1, <1>2, <1>3 DEF IsPaidWalk
  <2> QED
      BY <2>1, <2>2, SameWalk
<1>5. w[Len(h) + 1] = w[Len(h)] + PaidBy(q)
  <2>1. Len(h) + 1 \in 1 .. Len(g) /\ (Len(h) + 1) - 1 = Len(h)
      BY <1>2
  <2> QED
      BY <1>2, <1>3, <2>1 DEF IsPaidWalk
<1>6. v[Len(h)] = w[Len(h)] /\ v[Len(h)] \in Int
    BY <1>1, <1>2, <1>4 DEF Agree, IsPaidWalk
<1>7. PaidInBy(g) = w[Len(h) + 1] /\ PaidInBy(h) = v[Len(h)]
    BY <1>1, <1>2, <1>3 DEF IsPaidWalk
<1> QED
    BY <1>5, <1>6, <1>7 DEF g

\* When nothing is under way, all servers of a bank have the history of its head.
LEMMA OneHistory ==
    ASSUME UpdatePropagation, Idle, processed_trans \in [Servers -> Seq(Request)],
           NEW b \in Banks
    PROVE  processed_trans[LastServer(b)] = processed_trans[FirstServer(b)]
<1> DEFINE h(i) == processed_trans[<<b, i>>]
           T == {i \in Nat : i + 1 <= ChainLength[b] => h(i + 1) = h(1)}
<1>0. ChainLength[b] \in Nat \ {0}
    BY ChainLengthAssumption
<1>1. 0 \in T
    OBVIOUS
<1>2. ASSUME NEW i \in T \cap Nat
      PROVE  i + 1 \in T
  <2> SUFFICES ASSUME (i + 1) + 1 <= ChainLength[b] PROVE h((i + 1) + 1) = h(1)
      OBVIOUS
  <2> DEFINE p == <<b, i + 1>>
             s == <<b, (i + 1) + 1>>
             e == <<p, s>>
  <2>1. h(i + 1) = h(1)
      BY <1>0
  <2>2. p \in Servers /\ s \in Servers /\ s = Next1(p)
    <3>1. i + 1 \in 1 .. ChainLength[b] /\ (i + 1) + 1 \in 1 .. ChainLength[b]
        BY <1>0
    <3> QED
        BY <3>1 DEF Servers, Next1
  <2>3. e \in Neighbours /\ e[1] = p /\ e[2] = s
      BY <2>2 DEF Neighbours
  <2> HIDE DEF p, s, e
  <2>4. processed_trans[p] = AfterReading("Need", processed_trans[s], from_pre[s])
      BY <2>3 DEF UpdatePropagation
  <2>5. from_pre[s] = <<>> /\ processed_trans[s] \in Seq(Request)
      BY <2>2 DEF Idle
  <2>6. processed_trans[p] = processed_trans[s]
      BY <2>4, <2>5, EmptyReading
  <2> QED
      BY <2>1, <2>6 DEF p, s
<1>3. ChainLength[b] - 1 \in T
  <2>1. Nat \subseteq T
    <3> HIDE DEF T
    <3> QED
        BY <1>1, <1>2, Induction
  <2>2. ChainLength[b] - 1 \in Nat
      BY <1>0
  <2> QED
      BY <2>1, <2>2
<1>4. h(ChainLength[b]) = h(1)
  <2> DEFINE k == ChainLength[b] - 1
  <2>1. k \in Nat /\ k + 1 = ChainLength[b] /\ k + 1 <= ChainLength[b] /\ k \in T
      BY <1>0, <1>3
  <2> HIDE DEF h, k
  <2>2. h(k + 1) = h(1)
      BY <2>1
  <2> QED
      BY <2>1, <2>2
<1> QED
    BY <1>4 DEF LastServer, FirstServer

\* What is paid in is a number.
LEMMA PaidType ==
    ASSUME NEW h \in Seq(Request)
    PROVE  PaidInBy(h) \in Int
<1>1. PICK w : IsPaidWalk(w, h)
    BY PaidWalk
<1>2. Len(h) \in 0 .. Len(h)
    OBVIOUS
<1> QED
    BY <1>1, <1>2 DEF IsPaidWalk

\* The tables of the equation hold numbers.
LEMMA TablesType ==
    ASSUME TypeOK
    PROVE  /\ AtHeads \in [Banks \X Accounts -> Int]
           /\ Between \in [Entries -> Int]
           /\ PaidTable \in [Banks -> Int]
           /\ \A b \in Banks : PaidTable[b] = PaidInBy(processed_trans[FirstServer(b)])
<1>0. /\ balance_map \in [Servers -> [Accounts -> Int]]
      /\ processed_trans \in [Servers -> Seq(Request)]
    BY DEF TypeOK, ServerTypeOK
<1>1. ASSUME NEW b \in Banks
      PROVE  FirstServer(b) \in Servers
    BY ChainLengthAssumption DEF FirstServer, Servers
<1>2. ASSUME NEW e \in Banks \X Accounts
      PROVE  balance_map[FirstServer(e[1])][e[2]] \in Int
  <2>1. e[1] \in Banks /\ e[2] \in Accounts
      OBVIOUS
  <2> QED
      BY <1>0, <1>1, <2>1
<1>3. ASSUME NEW n \in Entries
      PROVE  Queue(n[1])[n[2]].amount \in Int
  <2>1. PICK c \in Clients : n \in {c} \X (1 .. Len(Queue(c)))
      BY DEF Entries
  <2>2. n[1] = c /\ n[2] \in 1 .. Len(Queue(c)) /\ Queue(c) \in Seq(Request)
      BY <2>1, WorkloadAssumption DEF Queue
  <2>3. Queue(c)[n[2]] \in Request
    <3> HIDE DEF Queue
    <3> QED
        BY <2>2
  <2> QED
      BY <2>2, <2>3 DEF Request
<1>4. \A b \in Banks : PaidIn(b) \in Int
    BY <1>0, <1>1, PaidType DEF PaidIn
<1> QED
    BY <1>2, <1>3, <1>4 DEF AtHeads, Between, PaidTable, PaidIn

\* When nothing is under way between servers, what is balanced is conserved.
LEMMA BalancedConserved ==
    ASSUME FiniteDeployment, FreshCopies, UpdatePropagation, BalancesExplained, MoneyBalanced
    PROVE  MoneyConserved
<1> SUFFICES ASSUME Idle PROVE TotalAtTails = MapThenSumSet(PaidIn, Banks)
    BY DEF MoneyConserved
<1>0. /\ TypeOK /\ processed_trans \in [Servers -> Seq(Request)]
      /\ from_pre \in [Servers -> Seq(Forwards)]
    BY DEF FreshCopies, HeadFrame, TypeOK, ServerTypeOK
<1>1. ASSUME NEW e \in Banks \X Accounts
      PROVE  AtHeads[e] = balance_map[LastServer(e[1])][e[2]]
  <2> DEFINE b == e[1]
             a == e[2]
  <2>1. b \in Banks /\ a \in Accounts /\ ChainLength[b] \in Nat \ {0}
      BY ChainLengthAssumption
  <2>2. FirstServer(b) \in Servers /\ LastServer(b) \in Servers
        /\ Bank(FirstServer(b)) = b /\ Bank(LastServer(b)) = b
      BY <2>1 DEF FirstServer, LastServer, Servers, Bank
  <2> HIDE DEF a, b
  <2>3. processed_trans[LastServer(b)] = processed_trans[FirstServer(b)]
      BY <1>0, <2>1, OneHistory
  <2>4. balance_map[LastServer(b)][a] = balance_map[FirstServer(b)][a]
      BY <2>1, <2>2, <2>3 DEF BalancesExplained
  <2> QED
      BY <2>4 DEF AtHeads, a, b
<1>2. TotalAtTails = SumOf(AtHeads, Banks \X Accounts)
    BY <1>0, <1>1, TablesType, TotalIsSum
<1>3. MapThenSumSet(PaidIn, Banks) = SumOf(PaidTable, Banks)
  <2>1. \A b \in Banks : PaidTable[b] = PaidIn(b)
      BY DEF PaidTable
  <2> QED
      BY <1>0, <2>1, TablesType, PaidIsSum
<1>4. SumOf(Between, Entries) = 0
  <2>1. UnderWay = {}
    <3>1. DOMAIN to_server = {}
        BY DEF Idle, EmptyBag, SetToBag
    <3>2. \A s \in Servers : Len(from_pre[s]) = 0
        BY DEF Idle
    <3>3. Streamed(from_pre) = {}
        BY <1>0, <3>2, StreamedMember DEF Carries
    <3> QED
        BY <3>1, <3>3 DEF UnderWay, Posted, LettersIn
  <2>2. \A n \in Entries : Between[n] = 0
      BY <2>1 DEF Between, OwedNames
  <2>3. IsFiniteSet(Entries) /\ Between \in [Entries -> Int]
      BY <1>0, FiniteTables, TablesType
  <2> QED
      BY <2>2, <2>3, SumOfNothing
<1>5. SumOf(AtHeads, Banks \X Accounts) \in Int
  <2> DEFINE S == Banks \X Accounts
  <2>1. IsFiniteSet(S) /\ AtHeads \in [S -> Int]
      BY <1>0, FiniteTables, TablesType
  <2> HIDE DEF S
  <2>2. PICK w : Sums(w, AtHeads, S) /\ SumOf(AtHeads, S) = w[S]
      BY <2>1, SumOfProperty
  <2> QED
      BY <2>2 DEF Sums, S
<1> QED
    BY <1>2, <1>3, <1>4, <1>5 DEF MoneyBalanced

--------------------------------------------------------------------------------
\* What stays under way.

\* Taking a datagram out leaves the letters that are others.
LEMMA TakeStays ==
    ASSUME NEW bag, NEW m, Single(bag), NEW x \in LettersIn(bag), x # m
    PROVE  x \in LettersIn(Take(bag, m))
<1>1. x \in DOMAIN bag /\ bag[x] = 1 /\ x.op = "REQUEST"
    BY DEF Single, LettersIn
<1>2. x \in DOMAIN Take(bag, m)
    BY <1>1 DEF Take, SetToBag, (-)
<1> QED
    BY <1>1, <1>2 DEF LettersIn

\* Delivering leaves every letter, and brings those that are sent to somebody.
LEMMA DeliverStays ==
    ASSUME NEW bag, NEW mails
    PROVE  /\ LettersIn(bag) \subseteq LettersIn(Deliver(bag, mails))
           /\ \A x \in mails : x.op = "REQUEST" /\ x.to # NoServer
                                  => x \in LettersIn(Deliver(bag, mails))
<1>1. DOMAIN Deliver(bag, mails) = DOMAIN bag \cup {x \in mails : x.to # NoServer}
    BY DEF Deliver, SetToBag, (+)
<1> QED
    BY <1>1 DEF LettersIn

\* Reading a stream leaves what is in other streams and what has another name.
LEMMA PopStays ==
    ASSUME NEW streams, NEW t \in Servers, NEW shorter, OneLess(shorter, streams, t),
           NEW e \in Streamed(streams),
           e[2] = t => NameOf(e[1]) # NameOf(Head(streams[t]).req)
    PROVE  e \in Streamed(shorter)
<1>1. /\ shorter \in [Servers -> Seq(Forwards)]
      /\ shorter[t] = Tail(streams[t])
      /\ \A s \in Servers \ {t} : shorter[s] = streams[s]
      /\ streams[t] \in Seq(Forwards) /\ streams[t] # <<>>
      /\ streams \in [Servers -> Seq(Forwards)]
    BY DEF Pop, OneLess
<1>2. PICK s \in Servers : Carries(streams, s, e)
    BY <1>1, StreamedMember
<1>3. PICK i \in 1 .. Len(streams[s]) : e = <<streams[s][i].req, s, "stream">>
    BY <1>2 DEF Carries
<1>4. CASE s # t
  <2>1. Carries(shorter, s, e)
      BY <1>1, <1>2, <1>4 DEF Carries
  <2> QED
      BY <1>1, <2>1, StreamedMember
<1>5. CASE s = t
  <2>1. i # 1
      BY <1>1, <1>3, <1>5
  <2>2. i - 1 \in 1 .. Len(shorter[t]) /\ shorter[t][i - 1] = streams[t][i]
      BY <1>1, <1>3, <1>5, <2>1
  <2>3. Carries(shorter, s, e)
      BY <1>3, <1>5, <2>2 DEF Carries
  <2> QED
      BY <1>1, <2>3, StreamedMember
<1> QED
    BY <1>4, <1>5

\* Copies of the other requests are where they were, and one copy of q is where s
\* passes it to.
MovesExactly(s, q) ==
    UnderWay' = {g \in UnderWay : NameOf(g[1]) # NameOf(q)} \cup Passed(s, q)

\* A transfer that is shipped to a bank of the configuration is under way there.
LEMMA ShippedStays ==
    ASSUME TopologyInit, NEW s \in Servers, NEW r, NEW bag
    PROVE  Shipped(r) \subseteq Posted(Deliver(bag, ShipTransfer(s, r)))
<1> SUFFICES ASSUME NEW f \in Shipped(r)
             PROVE  f \in Posted(Deliver(bag, ShipTransfer(s, r)))
    OBVIOUS
<1> DEFINE x == Mail("REQUEST", HeadOfBank(s, r.dest_bank_id), r)
<1>1. r.dest_bank_id \in Banks /\ f = <<r, FirstServer(r.dest_bank_id), "letter">>
    BY DEF Shipped
<1>2. /\ x.op = "REQUEST" /\ x.to = FirstServer(r.dest_bank_id) /\ x.req = r
      /\ x \in ShipTransfer(s, r)
    BY <1>1, Places DEF HeadOfBank, Mail, ShipTransfer
<1>3. x.to # NoServer
    BY <1>1, <1>2, NoBankAssumption DEF FirstServer, NoServer
<1>4. x \in LettersIn(Deliver(bag, ShipTransfer(s, r)))
    BY <1>2, <1>3, DeliverStays
<1> QED
    BY <1>1, <1>2, <1>4 DEF Posted

\* An update that rec_client takes up at a head moves on, and the others stay.
LEMMA RecUpdateExactly ==
    ASSUME FreshCopies, NEW s \in Servers, RecUpdate(s), UNCHANGED clientState
    PROVE  \E m \in LettersIn(to_server), r \in Request :
              /\ HeadHandles(s, m, r)
              /\ IsFirst(s)
              /\ NameOf(r) = NameOf(m.req)
              /\ <<m.req, s, "letter">> \in UnderWay
              /\ MovesExactly(s, r)
<1>0. /\ TypeOK /\ TopologyInit /\ OneCopy
      /\ Single(to_server) /\ from_pre \in [Servers -> Seq(Forwards)]
      /\ DOMAIN to_server \subseteq Mails
    BY DEF FreshCopies, HeadFrame, OneCopy, TypeOK, ServerTypeOK
<1>1. PICK m \in LettersIn(to_server), r \in Request :
              /\ HeadHandles(s, m, r)
              /\ IsFirst(s)
              /\ NameOf(r) = NameOf(m.req)
              /\ <<m.req, s, "letter">> \in UnderWay
              /\ MovesOn(s, r)
    BY RecUpdateMoves
<1> DEFINE rest == Take(to_server, m)
           ships == my_type[s] = "HEAD_TAIL" /\ PaysAbroad(s, r)
           settles == my_type[s] = "HEAD_TAIL" /\ ~ships /\ Receives(s, r)
           mails == CASE ships -> ShipTransfer(s, r)
                      [] settles -> AckTransfer(s, r)
                      [] OTHER -> {}
<1>2. to_server' = Deliver(rest, mails)
    BY <1>1 DEF HeadHandles
<1>3. my_type[s] # "HEAD" => my_type[s] = "HEAD_TAIL"
    BY <1>0, <1>1, Places
<1>4. Streamed(from_pre) \subseteq Streamed(from_pre')
      /\ (my_type[s] = "HEAD" => <<r, Next1(s), "stream">> \in Streamed(from_pre'))
  <2>1. CASE my_type[s] = "HEAD"
    <3> DEFINE t == Next1(s)
               x == Forwarding(r)
               longer == from_pre'
    <3>1. /\ from_pre' = [from_pre EXCEPT ![t] = Append(@, x)]
          /\ t \in Servers /\ x \in Forwards /\ x.req = r
        BY <1>0, <1>1, <2>1, Places DEF HeadHandles, Forwarding, Forwards
    <3> HIDE DEF t, x
    <3>2. OneMore(longer, from_pre, t, x)
        BY <1>0, <3>1 DEF OneMore
    <3> HIDE DEF longer
    <3>3. Streamed(longer) = Streamed(from_pre) \cup {<<x.req, t, "stream">>}
        BY <3>1, <3>2, PushStream
    <3> QED
        BY <3>1, <3>3 DEF longer, t
  <2>2. CASE my_type[s] # "HEAD"
    <3>1. from_pre' = from_pre
        BY <1>1, <2>2 DEF HeadHandles
    <3> QED
        BY <2>2, <3>1
  <2> QED
      BY <2>1, <2>2
<1> HIDE DEF rest, mails
<1>5. ASSUME NEW g \in UnderWay, NameOf(g[1]) # NameOf(r)
      PROVE  g \in UnderWay'
  <2>1. CASE g \in Streamed(from_pre)
      BY <1>4, <2>1 DEF UnderWay
  <2>2. CASE g \in Posted(to_server)
    <3>1. PICK x \in LettersIn(to_server) : g = <<x.req, x.to, "letter">>
        BY <1>0, <2>2, PostedMember
    <3>2. x # m
        BY <1>1, <1>5, <3>1
    <3>3. x \in LettersIn(rest)
        BY <1>0, <3>2, TakeStays DEF rest
    <3>4. x \in LettersIn(to_server')
        BY <1>2, <3>3, DeliverStays
    <3> QED
        BY <3>1, <3>4 DEF UnderWay, Posted
  <2> QED
      BY <2>1, <2>2 DEF UnderWay
<1>6. Passed(s, r) \subseteq UnderWay'
  <2>1. CASE my_type[s] = "HEAD"
      BY <1>4, <2>1 DEF Passed, UnderWay
  <2>2. CASE my_type[s] = "HEAD_TAIL" /\ PaysAbroad(s, r)
    <3>1. Passed(s, r) = Shipped(r) /\ mails = ShipTransfer(s, r)
        BY <2>2 DEF Passed, mails
    <3>2. Shipped(r) \subseteq Posted(Deliver(rest, ShipTransfer(s, r)))
        BY <1>0, ShippedStays
    <3> QED
        BY <1>2, <3>1, <3>2 DEF UnderWay
  <2>3. CASE my_type[s] = "HEAD_TAIL" /\ ~PaysAbroad(s, r)
      BY <2>3 DEF Passed
  <2> QED
      BY <1>3, <2>1, <2>2, <2>3
<1>7. MovesExactly(s, r)
    BY <1>1, <1>5, <1>6 DEF MovesExactly, MovesOn
<1> QED
    BY <1>1, <1>7

\* So does an update that process_forwared_request takes up.
LEMMA RecForwardExactly ==
    ASSUME FreshCopies, NEW s \in Servers, RecForward(s), UNCHANGED clientState
    PROVE  \E q \in Request :
              /\ Relays(s, q)
              /\ ~IsFirst(s)
              /\ <<q, s, "stream">> \in UnderWay
              /\ MovesExactly(s, q)
<1>0. /\ TypeOK /\ TopologyInit /\ OneCopy
      /\ Single(to_server) /\ from_pre \in [Servers -> Seq(Forwards)]
      /\ DOMAIN to_server \subseteq Mails
    BY DEF FreshCopies, HeadFrame, OneCopy, TypeOK, ServerTypeOK
<1>1. PICK q \in Request :
              /\ Relays(s, q)
              /\ ~IsFirst(s)
              /\ <<q, s, "stream">> \in UnderWay
              /\ MovesOn(s, q)
    BY RecForwardMoves
<1> DEFINE rest == Pop(from_pre, s)
           ships == my_type[s] = "TAIL" /\ PaysAbroad(s, q)
           x == Head(from_pre[s])
<1>2. to_server' = Deliver(to_server, IF ships THEN ShipTransfer(s, q) ELSE {})
    BY <1>1 DEF Relays
<1>3. my_type[s] # "INTER" => my_type[s] = "TAIL"
    BY <1>0, <1>1, Places
<1>4. /\ OneLess(rest, from_pre, s) /\ x.req = q /\ x \in Forwards
      /\ from_pre' = IF my_type[s] = "INTER"
                     THEN [rest EXCEPT ![Next1(s)] = Append(@, x)] ELSE rest
    BY <1>0, <1>1 DEF Relays, OneLess
<1>5. rest \in [Servers -> Seq(Forwards)]
    BY <1>0, <1>4, PopType DEF OneLess
<1> HIDE DEF rest
<1>6. ASSUME NEW g \in Streamed(from_pre), NameOf(g[1]) # NameOf(q)
      PROVE  g \in Streamed(rest)
    BY <1>4, <1>6, PopStays
<1> HIDE DEF x
<1>7. Streamed(rest) \subseteq Streamed(from_pre')
      /\ (my_type[s] = "INTER" => <<q, Next1(s), "stream">> \in Streamed(from_pre'))
  <2>1. CASE my_type[s] = "INTER"
    <3> DEFINE t == Next1(s)
               longer == from_pre'
    <3>1. from_pre' = [rest EXCEPT ![t] = Append(@, x)] /\ t \in Servers
        BY <1>0, <1>4, <2>1, Places
    <3> HIDE DEF t
    <3>2. OneMore(longer, rest, t, x)
        BY <1>5, <3>1 DEF OneMore
    <3> HIDE DEF longer
    <3>3. Streamed(longer) = Streamed(rest) \cup {<<x.req, t, "stream">>}
        BY <1>4, <3>1, <3>2, PushStream
    <3> QED
        BY <1>4, <3>3 DEF longer, t
  <2>2. CASE my_type[s] # "INTER"
      BY <1>4, <2>2
  <2> QED
      BY <2>1, <2>2
<1>8. ASSUME NEW g \in UnderWay, NameOf(g[1]) # NameOf(q)
      PROVE  g \in UnderWay'
  <2>1. CASE g \in Streamed(from_pre)
      BY <1>6, <1>7, <1>8, <2>1 DEF UnderWay
  <2>2. CASE g \in Posted(to_server)
    <3>1. LettersIn(to_server) \subseteq LettersIn(to_server')
        BY <1>2, DeliverStays
    <3> QED
        BY <2>2, <3>1 DEF UnderWay, Posted
  <2> QED
      BY <2>1, <2>2 DEF UnderWay
<1>9. Passed(s, q) \subseteq UnderWay'
  <2>1. CASE my_type[s] = "INTER"
      BY <1>7, <2>1 DEF Passed, UnderWay
  <2>2. CASE my_type[s] = "TAIL" /\ PaysAbroad(s, q)
    <3>1. Passed(s, q) = Shipped(q) /\ to_server' = Deliver(to_server, ShipTransfer(s, q))
        BY <1>2, <2>2 DEF Passed
    <3>2. Shipped(q) \subseteq Posted(Deliver(to_server, ShipTransfer(s, q)))
        BY <1>0, ShippedStays
    <3> QED
        BY <3>1, <3>2 DEF UnderWay
  <2>3. CASE my_type[s] = "TAIL" /\ ~PaysAbroad(s, q)
      BY <2>3 DEF Passed
  <2> QED
      BY <1>3, <2>1, <2>2, <2>3
<1>10. MovesExactly(s, q)
    BY <1>1, <1>8, <1>9 DEF MovesExactly, MovesOn
<1> QED
    BY <1>1, <1>10

--------------------------------------------------------------------------------
\* Histories of heads, and the copies that are still to come to them.

\* An update that is filed is there under its name, if under any.
LEMMA FilingNames ==
    ASSUME NEW b, NEW h \in Seq(Reached(b)), NEW r \in Reached(b), NEW status
    PROVE  /\ Filing(status, h, Forwarding(r)) \in Seq(Reached(b))
           /\ Names(Filing(status, h, Forwarding(r))) \subseteq Names(h) \cup {NameOf(r)}
           /\ Names(h) \subseteq Names(Filing(status, h, Forwarding(r)))
           /\ r.status = status => NameOf(r) \in Names(Filing(status, h, Forwarding(r)))
<1> DEFINE record == [r EXCEPT !.status = "Processed"]
<1>1. r \in Request /\ h \in Seq(Request)
    BY DEF Reached
<1>2. /\ record \in Request /\ NameOf(record) = NameOf(r)
      /\ record = [r EXCEPT !.status = "Processed", !.req_seq = r.req_seq]
    BY <1>1 DEF Request, Statuses, NameOf
<1>3. record \in Reached(b)
  <2> HIDE DEF record
  <2> QED
      BY <1>2, JudgedReached
<1> HIDE DEF record
<1>4. \A q \in Reached(b) : /\ Append(h, q) \in Seq(Reached(b))
                            /\ Names(Append(h, q)) = Names(h) \cup {NameOf(q)}
  <2>1. \A q \in Reached(b) : q \in Request
      BY DEF Reached
  <2> QED
      BY <1>1, <2>1, NamesAppend
<1>5. /\ Filing(status, h, Forwarding(r)) \in {h, Append(h, record), Append(h, r)}
      /\ r.status = status =>
            Filing(status, h, Forwarding(r)) \in {Append(h, record), Append(h, r)}
    BY DEF Filing, Forwarding, Record, record
<1> QED
    BY <1>2, <1>3, <1>4, <1>5

\* The head that reads an update files it, and nobody else files anything.
LEMMA FiledByOne ==
    ASSUME TypeOK, HeadsFile, NEW s \in Servers, NEW r \in Reached(Bank(s)),
           HasLeft(NameOf(r)), next_req' = next_req,
           processed_trans' = [processed_trans EXCEPT ![s] = Filing("Need", @, Forwarding(r))],
           insuf_funds_trans' =
             [insuf_funds_trans EXCEPT ![s] = Filing("InsufficientFunds", @, Forwarding(r))]
    PROVE  /\ HeadsFile'
           /\ \A b \in Banks :
                 Filed(b)' \subseteq IF s = FirstServer(b) THEN Filed(b) \cup {NameOf(r)}
                                                           ELSE Filed(b)
<1>1. /\ processed_trans \in [Servers -> Seq(Request)]
      /\ insuf_funds_trans \in [Servers -> Seq(Request)]
    BY DEF TypeOK, ServerTypeOK
<1>2. ASSUME NEW b \in Banks
      PROVE  /\ processed_trans'[FirstServer(b)] \in Seq(Reached(b))
             /\ insuf_funds_trans'[FirstServer(b)] \in Seq(Reached(b))
             /\ Filed(b)' \subseteq IF s = FirstServer(b) THEN Filed(b) \cup {NameOf(r)}
                                                          ELSE Filed(b)
  <2>1. CASE s = FirstServer(b)
    <3>1. Bank(s) = b
        BY <2>1 DEF Bank, FirstServer
    <3>2. /\ processed_trans[s] \in Seq(Reached(b))
          /\ insuf_funds_trans[s] \in Seq(Reached(b))
        BY <2>1 DEF HeadsFile
    <3>3. /\ processed_trans'[s] = Filing("Need", processed_trans[s], Forwarding(r))
          /\ insuf_funds_trans'[s] =
                Filing("InsufficientFunds", insuf_funds_trans[s], Forwarding(r))
        BY <1>1
    <3>4. /\ processed_trans'[s] \in Seq(Reached(b))
          /\ Names(processed_trans'[s]) \subseteq Names(processed_trans[s]) \cup {NameOf(r)}
        BY <3>1, <3>2, <3>3, FilingNames
    <3>5. /\ insuf_funds_trans'[s] \in Seq(Reached(b))
          /\ Names(insuf_funds_trans'[s]) \subseteq Names(insuf_funds_trans[s]) \cup {NameOf(r)}
        BY <3>1, <3>2, <3>3, FilingNames
    <3> QED
        BY <2>1, <3>4, <3>5 DEF Filed
  <2>2. CASE s # FirstServer(b)
    <3>1. FirstServer(b) \in Servers
        BY ChainLengthAssumption DEF FirstServer, Servers
    <3>2. /\ processed_trans'[FirstServer(b)] = processed_trans[FirstServer(b)]
          /\ insuf_funds_trans'[FirstServer(b)] = insuf_funds_trans[FirstServer(b)]
        BY <1>1, <2>2, <3>1
    <3> QED
        BY <2>2, <3>2 DEF Filed, HeadsFile
  <2> QED
      BY <2>1, <2>2
<1>3. \A n : HasLeft(n)' <=> HasLeft(n)
    BY DEF HasLeft
<1>4. \A b \in Banks : \A n \in Filed(b)' : HasLeft(n)'
    BY <1>2, <1>3 DEF HeadsFile
<1> QED
    BY <1>2, <1>4 DEF HeadsFile

\* What is passed on has not come to the heads that are ahead of it.
LEMMA FiledPassage ==
    ASSUME NotYetFiled, NEW e \in UnderWay, NEW n, NameOf(e[1]) = n, NEW F,
           UnderWay' \subseteq {g \in UnderWay : NameOf(g[1]) # n} \cup F,
           \A f \in F : NameOf(f[1]) = n /\ Ahead(f[1], f[2]) \subseteq Ahead(e[1], e[2]) \ {e[2]},
           \A b \in Banks : Filed(b)' \subseteq IF e[2] = FirstServer(b) THEN Filed(b) \cup {n}
                                                                          ELSE Filed(b)
    PROVE  NotYetFiled'
<1> SUFFICES ASSUME NEW g \in UnderWay', NEW b \in Banks,
                    FirstServer(b) \in Ahead(g[1], g[2]), NameOf(g[1]) \in Filed(b)'
             PROVE  FALSE
    BY DEF NotYetFiled
<1>1. CASE g \in F
  <2>1. FirstServer(b) \in Ahead(e[1], e[2]) /\ FirstServer(b) # e[2]
      BY <1>1
  <2>2. n \in Filed(b)
      BY <1>1, <2>1
  <2> QED
      BY <2>1, <2>2 DEF NotYetFiled
<1>2. CASE g \notin F
  <2>1. g \in UnderWay /\ NameOf(g[1]) # n
      BY <1>2
  <2>2. NameOf(g[1]) \in Filed(b)
      BY <2>1
  <2> QED
      BY <2>1, <2>2 DEF NotYetFiled
<1> QED
    BY <1>1, <1>2

\* A transfer that is shipped is debited, and comes to another bank than its client's.
LEMMA ChargedPassage ==
    ASSUME Charged, TopologyInit, NEW s \in Servers, NEW r \in Reached(Bank(s)),
           UnderWay' \subseteq UnderWay \cup Passed(s, r)
    PROVE  Charged'
<1> SUFFICES ASSUME NEW g \in UnderWay', g[3] = "letter", g[1].type = "transfer"
             PROVE  g[1].status = "Need" <=> Bank(g[2]) # BankOf[g[1].client_port]
    BY DEF Charged
<1>1. CASE g \in UnderWay
    BY <1>1 DEF Charged
<1>2. CASE g \in Passed(s, r)
  <2>1. PaysAbroad(s, r) /\ g \in Shipped(r)
      BY <1>2 DEF Passed
  <2>2. g[1] = r /\ Bank(g[2]) = r.dest_bank_id
      BY <2>1 DEF Shipped, Bank, FirstServer
  <2>3. r.status = "Need" /\ r.dest_bank_id # Bank(s) /\ r.type = "transfer"
      BY <2>1 DEF PaysAbroad
  <2>4. BankOf[r.client_port] = Bank(s)
      BY <2>3 DEF Reached, Updates
  <2> QED
      BY <2>2, <2>3, <2>4
<1> QED
    BY <1>1, <1>2

\* Nothing is executed, and nothing is under way as debited that was not.
LEMMA DebitsRest ==
    ASSUME DebitsRecorded,
           \A b \in Banks : /\ processed_trans'[FirstServer(b)] = processed_trans[FirstServer(b)]
                            /\ Filed(b)' = Filed(b),
           \A g \in UnderWay' : g[1].type = "transfer" /\ g[1].status = "Need" =>
              \E e \in UnderWay : /\ e[1].type = "transfer" /\ e[1].status = "Need"
                                 /\ NameOf(e[1]) = NameOf(g[1])
    PROVE  DebitsRecorded'
<1>1. \A n : Debited(n) => Debited(n)'
    BY DEF Debited, Home
<1>2. ASSUME NEW g \in UnderWay', g[1].type = "transfer", g[1].status = "Need"
      PROVE  Debited(NameOf(g[1]))
    BY <1>2 DEF DebitsRecorded
<1> QED
    BY <1>1, <1>2 DEF DebitsRecorded, NameOf, Home

\* What the payer's head debits it records, and the payee's head reads what is debited.
LEMMA DebitsPassage ==
    ASSUME TypeOK, HeadsFile, DebitsRecorded, NEW b \in Banks, NEW s \in Servers,
           s = FirstServer(b), NEW r \in Reached(b), NEW n, n = NameOf(r),
           Home(n) = b \/ Debited(n),
           processed_trans' = [processed_trans EXCEPT ![s] = Filing("Need", @, Forwarding(r))],
           NEW F, \A f \in F : f[1] = r,
           \A g \in UnderWay' : g \in UnderWay \/ g \in F,
           \A d \in Banks : Filed(d)' \subseteq IF s = FirstServer(d) THEN Filed(d) \cup {n}
                                                                    ELSE Filed(d)
    PROVE  DebitsRecorded'
<1>1. /\ processed_trans \in [Servers -> Seq(Request)]
      /\ processed_trans[s] \in Seq(Reached(b))
    BY DEF TypeOK, ServerTypeOK, HeadsFile
<1>2. /\ processed_trans'[s] = Filing("Need", processed_trans[s], Forwarding(r))
      /\ \A t \in Servers \ {s} : processed_trans'[t] = processed_trans[t]
    BY <1>1
<1>3. /\ Names(processed_trans[s]) \subseteq Names(processed_trans'[s])
      /\ r.status = "Need" => n \in Names(processed_trans'[s])
    BY <1>1, <1>2, FilingNames
<1>4. \A k : Debited(k) => Debited(k)'
  <2> SUFFICES ASSUME NEW k, Debited(k)
               PROVE  Home(k) \in Banks /\ k \in Names(processed_trans'[FirstServer(Home(k))])
      BY DEF Debited, Home
  <2>1. /\ Home(k) \in Banks /\ FirstServer(Home(k)) \in Servers
        /\ k \in Names(processed_trans[FirstServer(Home(k))])
      BY ChainLengthAssumption DEF Debited, FirstServer, Servers
  <2>2. CASE FirstServer(Home(k)) = s
      BY <1>3, <2>1, <2>2
  <2>3. CASE FirstServer(Home(k)) # s
      BY <1>2, <2>1, <2>3
  <2> QED
      BY <2>2, <2>3
<1>5. r.status = "Need" => Debited(n)'
  <2>1. CASE Home(n) = b
      BY <1>3, <2>1 DEF Debited, Home
  <2>2. CASE Debited(n)
      BY <1>4, <2>2
  <2> QED
      BY <2>1, <2>2
<1>6. ASSUME NEW g \in UnderWay', g[1].type = "transfer", g[1].status = "Need"
      PROVE  Debited(NameOf(g[1]))'
  <2>1. CASE g \in UnderWay
    <3>1. Debited(NameOf(g[1]))
        BY <1>6, <2>1 DEF DebitsRecorded
    <3> DEFINE k == NameOf(g[1])
    <3>2. Debited(k)'
      <4> HIDE DEF k
      <4> QED
          BY <1>4, <3>1 DEF k
    <3> QED
        BY <3>2
  <2>2. CASE g \in F
      BY <1>5, <1>6, <2>2 DEF Debited, NameOf, Home
  <2> QED
      BY <2>1, <2>2
<1>7. ASSUME NEW d \in Banks, NEW k \in Filed(d)', Home(k) # d
      PROVE  Debited(k)'
  <2>1. CASE k \in Filed(d)
      BY <1>4, <1>7, <2>1 DEF DebitsRecorded
  <2>2. CASE k = n /\ s = FirstServer(d)
    <3>1. d = b
        BY <2>2 DEF FirstServer
    <3>2. Debited(n)
        BY <1>7, <2>2, <3>1
    <3> QED
        BY <1>4, <2>2, <3>2
  <2> QED
      BY <1>7, <2>1, <2>2
<1> QED
    BY <1>6, <1>7 DEF DebitsRecorded, Home

--------------------------------------------------------------------------------
\* Transfers between two banks.

\* The copies of one request change, and what is owed changes for it alone.
LEMMA OwedStep ==
    ASSUME OneCopy, NEW e \in UnderWay, NEW n, NameOf(e[1]) = n, NEW F,
           \A g : g \in UnderWay' <=> (g \in UnderWay /\ NameOf(g[1]) # n) \/ g \in F,
           \A f \in F : NameOf(f[1]) = n
    PROVE  /\ \A k : k # n => (k \in OwedNames' <=> k \in OwedNames)
           /\ n \in OwedNames <=> Owed(e)
           /\ n \in OwedNames' <=> \E f \in F : Owed(f)
<1>1. \A f \in UnderWay : NameOf(f[1]) = n => f = e
    BY DEF OneCopy
<1>2. \A k : k \in OwedNames <=> \E f \in UnderWay : Owed(f) /\ NameOf(f[1]) = k
    BY DEF OwedNames
<1>3. \A k : k \in OwedNames' <=> \E f \in UnderWay' : Owed(f) /\ NameOf(f[1]) = k
    BY DEF OwedNames, Owed, Ahead, NameOf
<1> HIDE DEF OwedNames, Owed
<1> QED
    BY <1>1, <1>2, <1>3

\* A transfer that a server passes on is owed exactly when it is drawn on that bank.
LEMMA PassedOwed ==
    ASSUME TopologyInit, TypeOK, PaysBanks, NEW s \in Servers, NEW r \in Reached(Bank(s))
    PROVE  (\E f \in Passed(s, r) : Owed(f)) <=> PaysAbroad(s, r)
<1>0. r \in Request /\ Genuine(r) /\ my_type[s] \in Roles
    BY DEF Reached, TypeOK, ServerTypeOK, TopologyTypeOK
<1>1. ASSUME r.type = "transfer"
      PROVE  /\ r.dest_bank_id \in Banks /\ FirstServer(r.dest_bank_id) \in Servers
             /\ Bank(FirstServer(r.dest_bank_id)) = r.dest_bank_id
             /\ FirstServer(r.dest_bank_id)[2] = 1
  <2>1. r.dest_bank_id \in Banks
      BY <1>0, <1>1, GenuineEntry DEF PaysBanks
  <2> QED
      BY <2>1, ChainLengthAssumption DEF FirstServer, Servers, Bank
<1>2. CASE my_type[s] \in {"HEAD", "INTER"}
  <2>1. /\ Passed(s, r) = {<<r, Next1(s), "stream">>}
        /\ Bank(Next1(s)) = Bank(s) /\ Next1(s)[2] = s[2] + 1 /\ s[2] \in Nat \ {0}
      BY <1>2, Places DEF Passed
  <2>2. Owed(<<r, Next1(s), "stream">>) <=> PaysAbroad(s, r)
      BY <1>1, <2>1 DEF Owed, PaysAbroad, Ahead
  <2> QED
      BY <2>1, <2>2
<1>3. CASE my_type[s] \notin {"HEAD", "INTER"} /\ PaysAbroad(s, r)
  <2> DEFINE f == <<r, FirstServer(r.dest_bank_id), "letter">>
  <2>1. r.type = "transfer" /\ r.status = "Need"
      BY <1>3 DEF PaysAbroad
  <2>2. f \in Passed(s, r)
      BY <1>1, <1>3, <2>1 DEF Passed, Shipped
  <2>3. FirstServer(r.dest_bank_id) \in Ahead(r, FirstServer(r.dest_bank_id))
      BY <1>1, <2>1 DEF Ahead
  <2>4. Owed(f)
      BY <2>1, <2>3 DEF Owed
  <2> QED
      BY <1>3, <2>2, <2>4
<1>4. CASE my_type[s] \notin {"HEAD", "INTER"} /\ ~PaysAbroad(s, r)
    BY <1>4 DEF Passed
<1> QED
    BY <1>2, <1>3, <1>4

\* A debited transfer that a server reads is owed unless that bank is the payee's
\* and its head has read it.
LEMMA ReadOwed ==
    ASSUME TopologyInit, PaysBanks, NEW s \in Servers, NEW q \in Reached(Bank(s)), NEW kind
    PROVE  Owed(<<q, s, kind>>) <=>
              /\ q.type = "transfer" /\ q.status = "Need"
              /\ q.dest_bank_id # Bank(s) \/ IsFirst(s)
<1>0. q \in Request /\ Genuine(q)
    BY DEF Reached
<1>1. ASSUME q.type = "transfer"
      PROVE  /\ FirstServer(q.dest_bank_id) \in Servers
             /\ Bank(FirstServer(q.dest_bank_id)) = q.dest_bank_id
             /\ FirstServer(q.dest_bank_id)[2] = 1
  <2>1. q.dest_bank_id \in Banks
      BY <1>0, <1>1, GenuineEntry DEF PaysBanks
  <2> QED
      BY <2>1, ChainLengthAssumption DEF FirstServer, Servers, Bank
<1>2. s[2] \in Nat \ {0} /\ (IsFirst(s) <=> s[2] = 1)
    BY Places
<1> QED
    BY <1>1, <1>2 DEF Owed, Ahead

--------------------------------------------------------------------------------
\* Steps that move no money at a head.

\* The equation holds as long as its tables stay.
LEMMA BalancedRests ==
    ASSUME MoneyBalanced, OwedNames' = OwedNames,
           \A b \in Banks :
              /\ balance_map'[FirstServer(b)] = balance_map[FirstServer(b)]
              /\ processed_trans'[FirstServer(b)] = processed_trans[FirstServer(b)]
    PROVE  MoneyBalanced'
<1>1. AtHeads' = AtHeads
    BY DEF AtHeads
<1>2. Between' = Between
    BY DEF Between
<1>3. PaidTable' = PaidTable
    BY DEF PaidTable, PaidIn
<1> QED
    BY <1>1, <1>2, <1>3 DEF MoneyBalanced

\* Nothing is executed, and no copy of a transfer comes or goes.
LEMMA MoneyRests ==
    ASSUME MoneyAccounted,
           UNCHANGED <<balance_map, processed_trans, insuf_funds_trans, next_req>>,
           UnderWay' \subseteq UnderWay,
           \A g \in UnderWay : g[1].type = "transfer" => g \in UnderWay'
    PROVE  MoneyAccounted'
<1>1. HeadsFile'
    BY DEF MoneyAccounted, HeadsFile, Filed, HasLeft
<1>2. NotYetFiled'
    BY DEF MoneyAccounted, NotYetFiled, Filed
<1>3. Charged'
    BY DEF MoneyAccounted, Charged
<1>4. OwedNames' = OwedNames
  <2>1. \A k : k \in OwedNames <=> \E f \in UnderWay : Owed(f) /\ NameOf(f[1]) = k
      BY DEF OwedNames
  <2>2. \A k : k \in OwedNames' <=> \E f \in UnderWay' : Owed(f) /\ NameOf(f[1]) = k
      BY DEF OwedNames, Owed, Ahead, NameOf
  <2>3. \A f \in UnderWay : Owed(f) => f \in UnderWay'
      BY DEF Owed
  <2> HIDE DEF OwedNames, Owed
  <2>4. \A k : k \in OwedNames' <=> k \in OwedNames
      BY <2>1, <2>2, <2>3
  <2>5. OwedNames \subseteq {NameOf(f[1]) : f \in UnderWay}
        /\ OwedNames' \subseteq {NameOf(f[1]) : f \in UnderWay'}
      BY <2>1, <2>2
  <2> QED
      BY <2>4
<1>5. MoneyBalanced'
    BY <1>4, BalancedRests DEF MoneyAccounted
<1>6. DebitsRecorded'
  <2>1. \A b \in Banks : Filed(b)' = Filed(b)
      BY DEF Filed
  <2> QED
      BY <2>1, DebitsRest DEF MoneyAccounted
<1> QED
    BY <1>1, <1>2, <1>3, <1>5, <1>6 DEF MoneyAccounted

\* A datagram that is no transfer's letter is taken out of the network.
LEMMA TakenMoney ==
    ASSUME FreshCopies, MoneyAccounted, NEW m \in DOMAIN to_server,
           m.op # "REQUEST" \/ m.req.type # "transfer",
           to_server' = Take(to_server, m),
           UNCHANGED <<balance_map, processed_trans, insuf_funds_trans, next_req, from_pre>>
    PROVE  MoneyAccounted'
<1>0. Single(to_server) /\ DOMAIN to_server \subseteq Mails
    BY DEF FreshCopies, HeadFrame, OneCopy, TypeOK, ServerTypeOK
<1>1. LettersIn(to_server') \subseteq LettersIn(to_server)
    BY <1>0, TakeLetters
<1>2. UnderWay' \subseteq UnderWay
    BY <1>1 DEF UnderWay, Posted
<1>3. ASSUME NEW g \in UnderWay, g[1].type = "transfer"
      PROVE  g \in UnderWay'
  <2>1. CASE g \in Streamed(from_pre)
      BY <2>1 DEF UnderWay
  <2>2. CASE g \in Posted(to_server)
    <3>1. PICK x \in LettersIn(to_server) : g = <<x.req, x.to, "letter">>
        BY <1>0, <2>2, PostedMember
    <3>2. x # m
        BY <1>3, <3>1 DEF LettersIn
    <3>3. x \in LettersIn(to_server')
        BY <1>0, <3>2, TakeStays
    <3> QED
        BY <3>1, <3>3 DEF UnderWay, Posted
  <2> QED
      BY <2>1, <2>2 DEF UnderWay
<1> QED
    BY <1>2, <1>3, MoneyRests

\* Queries, acknowledgements and whatever else a server reads move nothing.
LEMMA OtherServerStepMoney ==
    ASSUME FreshCopies, MoneyAccounted, NEW s \in Servers, UNCHANGED clientState,
           RecQuery(s) \/ RecUnknown(s) \/ RecAck(s) \/ RecOtherBank(s)
    PROVE  MoneyAccounted'
<1>0. next_req' = next_req /\ Single(to_server)
    BY DEF clientState, FreshCopies, OneCopy
<1>1. CASE RecQuery(s)
  <2>1. PICK m \in DOMAIN to_server : RecQuery(s)!(m)
      BY <1>1 DEF RecQuery
  <2>2. UNCHANGED <<balance_map, processed_trans, insuf_funds_trans, from_pre>>
      BY <1>1 DEF RecQuery
  <2> QED
      BY <1>0, <2>1, <2>2, TakenMoney
<1>2. CASE RecUnknown(s)
  <2>1. PICK m \in DOMAIN to_server : RecUnknown(s)!(m)
      BY <1>2 DEF RecUnknown
  <2>2. m.req.type # "transfer"
      BY <2>1 DEF Updates
  <2> QED
      BY <1>0, <2>1, <2>2, TakenMoney DEF serverState
<1>3. CASE RecAck(s)
  <2> DEFINE q == Head(from_next[s])
  <2>1. /\ to_server' \in {Deliver(to_server, AckTransfer(s, q)), Deliver(to_server, {})}
        /\ UNCHANGED <<balance_map, processed_trans, insuf_funds_trans, from_pre>>
      BY <1>3 DEF RecAck
  <2>2. \A x \in AckTransfer(s, q) : x.op # "REQUEST"
      BY DEF AckTransfer, Mail
  <2> HIDE DEF q
  <2>3. PICK mails \in {AckTransfer(s, q), {}} : to_server' = Deliver(to_server, mails)
      BY <2>1
  <2>4. Posted(to_server') = Posted(to_server)
    <3>1. \A x \in mails : x.op # "REQUEST"
        BY <2>2, <2>3
    <3> QED
        BY <1>0, <2>3, <3>1, OtherMail
  <2>5. UnderWay' = UnderWay
      BY <2>1, <2>4 DEF UnderWay
  <2> QED
      BY <1>0, <2>1, <2>5, MoneyRests
<1>4. CASE RecOtherBank(s)
  <2>1. PICK m \in DOMAIN to_server : RecOtherBank(s)!(m)
      BY <1>4 DEF RecOtherBank
  <2>2. UNCHANGED <<balance_map, processed_trans, insuf_funds_trans, from_pre>>
      BY <1>4 DEF RecOtherBank
  <2>3. m.op # "REQUEST"
      BY <2>1
  <2> QED
      BY <1>0, <2>1, <2>2, <2>3, TakenMoney
<1> QED
    BY <1>1, <1>2, <1>3, <1>4

\* A server behind its head executes what its head has executed, and passes on
\* what was owed.
LEMMA RecForwardMoney ==
    ASSUME PaysBanks, FreshCopies, RightBanks, MoneyAccounted,
           NEW s \in Servers, RecForward(s), UNCHANGED clientState
    PROVE  MoneyAccounted'
<1>0. /\ TypeOK /\ TopologyInit /\ OneCopy /\ next_req' = next_req
      /\ balance_map \in [Servers -> [Accounts -> Int]]
      /\ processed_trans \in [Servers -> Seq(Request)]
      /\ insuf_funds_trans \in [Servers -> Seq(Request)]
    BY DEF FreshCopies, HeadFrame, TypeOK, ServerTypeOK, clientState
<1>1. PICK q \in Request :
         Relays(s, q) /\ ~IsFirst(s) /\ <<q, s, "stream">> \in UnderWay /\ MovesExactly(s, q)
    BY RecForwardExactly
<1> DEFINE e == <<q, s, "stream">>
           n == NameOf(q)
           F == Passed(s, q)
<1>2. q \in Reached(Bank(s))
    BY <1>0, <1>1, ReachedNames
<1>3. ASSUME NEW b \in Banks
      PROVE  /\ FirstServer(b) \in Servers /\ FirstServer(b) # s
             /\ balance_map'[FirstServer(b)] = balance_map[FirstServer(b)]
             /\ processed_trans'[FirstServer(b)] = processed_trans[FirstServer(b)]
             /\ insuf_funds_trans'[FirstServer(b)] = insuf_funds_trans[FirstServer(b)]
  <2>1. FirstServer(b) \in Servers /\ FirstServer(b) # s
      BY <1>1, ChainLengthAssumption DEF FirstServer, Servers, IsFirst, Bank
  <2> HIDE DEF FirstServer
  <2>2. /\ \E x : balance_map' = [balance_map EXCEPT ![s] = x]
        /\ \E x : processed_trans' = [processed_trans EXCEPT ![s] = x]
        /\ \E x : insuf_funds_trans' = [insuf_funds_trans EXCEPT ![s] = x]
      BY <1>1 DEF Relays
  <2> QED
      BY <1>0, <2>1, <2>2
<1>4. \A b \in Banks : Filed(b)' = Filed(b)
    BY <1>3 DEF Filed
<1>5. HeadsFile'
    BY <1>0, <1>3, <1>4 DEF MoneyAccounted, HeadsFile, HasLeft
<1>6. /\ \A f \in F : NameOf(f[1]) = n /\ Ahead(f[1], f[2]) \subseteq Ahead(e[1], e[2]) \ {e[2]}
      /\ UnderWay' = {g \in UnderWay : NameOf(g[1]) # n} \cup F
      /\ e \in UnderWay /\ NameOf(e[1]) = n /\ e[2] = s
  <2>1. \A f \in F : f[1] = q /\ Ahead(f[1], f[2]) \subseteq Ahead(q, s) \ {s}
      BY <1>0, PassedAhead
  <2> QED
      BY <1>1, <2>1 DEF MovesExactly
<1>7. Charged'
    BY <1>0, <1>2, <1>6, ChargedPassage DEF MoneyAccounted
<1>8. Owed(e) <=> \E f \in F : Owed(f)
  <2>1. Owed(e) <=> PaysAbroad(s, q)
      BY <1>0, <1>1, <1>2, ReadOwed DEF PaysAbroad
  <2> QED
      BY <1>0, <1>2, <2>1, PassedOwed
<1>9. DebitsRecorded'
  <2>1. \A f \in F : f[1] = e[1]
      BY <1>0, PassedAhead
  <2>2. \A g \in UnderWay' : g \in UnderWay \/ g[1] = e[1]
      BY <1>6, <2>1
  <2> HIDE DEF e, n, F
  <2> QED
      BY <1>3, <1>4, <1>6, <2>2, DebitsRest DEF MoneyAccounted
<1> HIDE DEF e, n, F
<1>10. NotYetFiled'
    BY <1>4, <1>6, FiledPassage DEF MoneyAccounted
<1>11. OwedNames' = OwedNames
  <2>1. \A k : k \in OwedNames' <=> k \in OwedNames
    <3>1. /\ \A k : k # n => (k \in OwedNames' <=> k \in OwedNames)
          /\ n \in OwedNames <=> Owed(e)
          /\ n \in OwedNames' <=> \E f \in F : Owed(f)
      <4>1. \A f \in F : NameOf(f[1]) = n
          BY <1>6
      <4>2. \A g : g \in UnderWay' <=> (g \in UnderWay /\ NameOf(g[1]) # n) \/ g \in F
          BY <1>6
      <4>3. e \in UnderWay /\ NameOf(e[1]) = n /\ OneCopy
          BY <1>0, <1>6
      <4>4. n \in OwedNames <=> Owed(e)
          BY <4>1, <4>2, <4>3, OwedStep
      <4>5. n \in OwedNames' <=> \E f \in F : Owed(f)
          BY <4>1, <4>2, <4>3, OwedStep
      <4>6. \A k : k # n => (k \in OwedNames' <=> k \in OwedNames)
          BY <4>1, <4>2, <4>3, OwedStep
      <4> QED
          BY <4>4, <4>5, <4>6
    <3> QED
        BY <1>8, <3>1
  <2>2. OwedNames = {k \in OwedNames : TRUE} /\ OwedNames' = {k \in OwedNames' : TRUE}
      BY DEF OwedNames
  <2> QED
      BY <2>1, <2>2
<1>12. MoneyBalanced'
    BY <1>3, <1>11, BalancedRests DEF MoneyAccounted
<1> QED
    BY <1>5, <1>7, <1>10, <1>12, <1>9 DEF MoneyAccounted

--------------------------------------------------------------------------------
\* The head that executes an update.

\* A debited transfer that comes to the payee's head is credited there: its payer's
\* head has executed nothing else with its id, no other client has used it, and no copy
\* of the transfer has come before.
LEMMA CreditTaken ==
    ASSUME TransferIds, PaysOthers, TypeOK, TopologyInit, HeadsFile, DebitsRecorded,
           HeadExecutesOnce, NEW b \in Banks, NEW q \in Reached(b), q.type = "transfer",
           q.dest_bank_id = b, NEW balances, Debited(NameOf(q)), NameOf(q) \notin Filed(b)
    PROVE  ProcessUpdate(b, balances, CheckSameReq(processed_trans[FirstServer(b)],
              insuf_funds_trans[FirstServer(b)], q), q).status = "Need"
<1> DEFINE h == processed_trans[FirstServer(b)]
           g == insuf_funds_trans[FirstServer(b)]
<1>0. /\ h \in Seq(Reached(b)) /\ g \in Seq(Reached(b))
      /\ Filed(b) = Names(h) \cup Names(g)
    BY DEF HeadsFile, Filed
<1> HIDE DEF h, g
<1>1. h \in Seq(Request) /\ g \in Seq(Request) /\ q \in Request /\ Genuine(q)
    BY <1>0 DEF Reached
<1>2. ASSUME NEW r \in Reached(b), NameOf(r) \in Filed(b), r.req_id = q.req_id
      PROVE  FALSE
  <2> DEFINE c == q.client_port
             t == FirstServer(BankOf[c])
             p == processed_trans[t]
  <2>1. /\ c \in Clients /\ q.sent_id \in 1 .. Len(Queue(c))
        /\ Queue(c)[q.sent_id].type = "transfer" /\ Queue(c)[q.sent_id].req_id = q.req_id
        /\ Queue(c)[q.sent_id].dest_bank_id = b
      BY <1>1, GenuineEntry
  <2>2. /\ r.client_port \in Clients /\ r.sent_id \in 1 .. Len(Queue(r.client_port))
        /\ Queue(r.client_port)[r.sent_id].req_id = r.req_id
    <3>1. r \in Request /\ Genuine(r)
        BY DEF Reached
    <3> QED
        BY <3>1, GenuineEntry
  <2>3. r.client_port = c
      BY <1>2, <2>1, <2>2 DEF TransferIds
  <2>4. Home(NameOf(r)) = BankOf[c] /\ Home(NameOf(q)) = BankOf[c] /\ BankOf[c] # b
      BY <2>1, <2>3 DEF Home, NameOf, PaysOthers
  <2>5. /\ BankOf[c] \in Banks /\ t \in Servers /\ Heads(t)
        /\ p \in Seq(Reached(BankOf[c]))
        /\ NameOf(r) \in Names(p) /\ NameOf(q) \in Names(p)
    <3>1. Debited(NameOf(r)) /\ Debited(NameOf(q))
        BY <1>2, <2>4 DEF DebitsRecorded
    <3>2. BankOf[c] \in Banks /\ NameOf(r) \in Names(p) /\ NameOf(q) \in Names(p)
        BY <2>4, <3>1 DEF Debited
    <3>3. t \in Servers /\ IsFirst(t)
        BY <3>2, ChainLengthAssumption DEF FirstServer, Servers, IsFirst, Bank
    <3>4. Heads(t)
        BY <3>3, Places
    <3> QED
        BY <3>2, <3>3, <3>4 DEF HeadsFile
  <2> HIDE DEF p, t
  <2>6. p \in Seq(Request)
      BY <2>5 DEF Reached
  <2>7. PICK i \in 1 .. Len(p) : NameOf(p[i]) = NameOf(r)
      BY <2>5, <2>6, NamesOfList
  <2>8. PICK j \in 1 .. Len(p) : NameOf(p[j]) = NameOf(q)
      BY <2>5, <2>6, NamesOfList
  <2>9. p[i].req_id = r.req_id /\ p[j].req_id = q.req_id
    <3>1. /\ p[i] \in Request /\ Genuine(p[i]) /\ p[j] \in Request /\ Genuine(p[j])
          /\ r \in Request /\ Genuine(r)
        BY <2>5, <2>7, <2>8 DEF Reached
    <3>2. \A x \in Request : Genuine(x) => x.req_id = Queue(x.client_port)[x.sent_id].req_id
        BY GenuineEntry
    <3>3. \A x, y \in Request : Genuine(x) /\ Genuine(y) /\ NameOf(x) = NameOf(y)
                                => x.req_id = y.req_id
        BY <3>2 DEF NameOf
    <3> QED
        BY <1>1, <2>7, <2>8, <3>1, <3>3
  <2>10. i = j
    <3>1. i \in DOMAIN p /\ j \in DOMAIN p /\ p[i].req_id = p[j].req_id
        BY <1>2, <2>6, <2>9
    <3> QED
        BY <2>5, <3>1 DEF HeadExecutesOnce, p
  <2> QED
      BY <1>2, <2>7, <2>8, <2>10
<1>3. /\ \A i \in 1 .. Len(h) : h[i].req_id # q.req_id
      /\ \A i \in 1 .. Len(g) : g[i].req_id # q.req_id
  <2>1. ASSUME NEW list \in Seq(Reached(b)), Names(list) \subseteq Filed(b),
               NEW i \in 1 .. Len(list), list[i].req_id = q.req_id
        PROVE  FALSE
    <3>1. list \in Seq(Request) /\ list[i] \in Reached(b)
        BY DEF Reached
    <3>2. NameOf(list[i]) \in Names(list)
        BY <3>1, NamesOfList
    <3> QED
        BY <1>2, <2>1, <3>1, <3>2
  <2> QED
      BY <1>0, <2>1
<1>4. FirstWithId(h, q) = 0 /\ FirstWithId(g, q) = 0
  <2>1. FirstWithId(h, q) = 0
      BY <1>1, <1>3, FirstWithIdProperty
  <2>2. FirstWithId(g, q) = 0
      BY <1>1, <1>3, FirstWithIdProperty
  <2> QED
      BY <2>1, <2>2
<1>5. CheckSameReq(h, g, q) = "NOT_YET"
    BY <1>4 DEF CheckSameReq
<1> QED
    BY <1>5 DEF ProcessUpdate, ProcessTransfer, ProcessDeposit, h, g

\* The account of bank b that an update is about.
AccountOf(b, q) ==
    IF q.type = "transfer" /\ q.dest_bank_id = b THEN q.dest_account_num ELSE q.account_num

\* What an update changes there, and what it pays in.
LEMMA EffectThere ==
    ASSUME NEW b, NEW q \in Request, q.type \in Updates
    PROVE  /\ AccountOf(b, q) \in Accounts
           /\ \A a \in Accounts \ {AccountOf(b, q)} : Effect(b, q, a) = 0
           /\ Effect(b, q, AccountOf(b, q)) \in Int /\ PaidBy(q) \in Int
           /\ Effect(b, q, AccountOf(b, q)) =
                 IF q.type # "transfer" THEN PaidBy(q)
                 ELSE IF q.dest_bank_id = b THEN q.amount ELSE -q.amount
           /\ q.type = "transfer" => PaidBy(q) = 0
<1>1. /\ q.amount \in Nat /\ q.account_num \in Accounts /\ q.dest_account_num \in Accounts
    BY DEF Request
<1>2. CASE q.type = "deposit"
    BY <1>1, <1>2 DEF AccountOf, Effect, PaidBy
<1>3. CASE q.type = "withdraw"
    BY <1>1, <1>3 DEF AccountOf, Effect, PaidBy
<1>4. CASE q.type = "transfer"
    BY <1>1, <1>4 DEF AccountOf, Effect, PaidBy
<1> QED
    BY <1>2, <1>3, <1>4 DEF Updates

\* One account, one transfer and one bank's payments change, and make up for one another.
LEMMA BalancedChange ==
    ASSUME FiniteDeployment, TypeOK, TypeOK', MoneyBalanced, NEW d \in Int, NEW p \in Int,
           NEW b \in Banks, NEW a \in Accounts, NEW n \in Entries,
           \A x \in Banks \X Accounts :
              AtHeads'[x] = IF x = <<b, a>> THEN AtHeads[x] + d ELSE AtHeads[x],
           \A x \in Banks :
              PaidTable'[x] = IF x = b THEN PaidTable[x] + p ELSE PaidTable[x],
           \A x \in Entries :
              Between'[x] = IF x = n THEN Between[x] + (p - d) ELSE Between[x]
    PROVE  MoneyBalanced'
<1> DEFINE A == AtHeads'
           B == Between'
           P == PaidTable'
           S == Banks \X Accounts
<1>1. /\ AtHeads \in [S -> Int] /\ Between \in [Entries -> Int] /\ PaidTable \in [Banks -> Int]
    BY TablesType
<1>2. /\ A \in [S -> Int] /\ B \in [Entries -> Int] /\ P \in [Banks -> Int]
  <2>1. A = [x \in S |-> A[x]] /\ B = [x \in Entries |-> B[x]] /\ P = [x \in Banks |-> P[x]]
      BY DEF AtHeads, Between, PaidTable
  <2>2. /\ \A x \in S : A[x] \in Int
        /\ \A x \in Entries : B[x] \in Int
        /\ \A x \in Banks : P[x] \in Int
    <3> HIDE DEF A, B, P, S
    <3> QED
        BY <1>1 DEF A, B, P, S
  <2> HIDE DEF A, B, P, S
  <2> QED
      BY <2>1, <2>2
<1>3. IsFiniteSet(Banks) /\ IsFiniteSet(S) /\ IsFiniteSet(Entries) /\ <<b, a>> \in S
    BY FiniteTables
<1>4. /\ \A x \in S : A[x] = IF x = <<b, a>> THEN AtHeads[x] + d ELSE AtHeads[x]
      /\ \A x \in Banks : P[x] = IF x = b THEN PaidTable[x] + p ELSE PaidTable[x]
      /\ \A x \in Entries : B[x] = IF x = n THEN Between[x] + (p - d) ELSE Between[x]
    OBVIOUS
<1>5. MoneyBalanced' <=> SumOf(A, S) + SumOf(B, Entries) = SumOf(P, Banks)
    BY DEF MoneyBalanced
<1> HIDE DEF A, B, P, S
<1>6. SumOf(AtHeads, S) \in Int /\ SumOf(A, S) = SumOf(AtHeads, S) + (A[<<b, a>>] - AtHeads[<<b, a>>])
  <2> DEFINE y == <<b, a>>
  <2>1. y \in S /\ \A x \in S : x # y => A[x] = AtHeads[x]
      BY <1>3, <1>4
  <2> HIDE DEF y
  <2>2. /\ SumOf(AtHeads, S) \in Int
        /\ SumOf(A, S) = SumOf(AtHeads, S) + (A[y] - AtHeads[y])
      BY <1>1, <1>2, <1>3, <2>1, SumChanges
  <2> QED
      BY <2>2 DEF y
<1>7. SumOf(PaidTable, Banks) \in Int /\ SumOf(P, Banks) = SumOf(PaidTable, Banks) + (P[b] - PaidTable[b])
    BY <1>1, <1>2, <1>3, <1>4, SumChanges
<1>8. SumOf(Between, Entries) \in Int /\ SumOf(B, Entries) = SumOf(Between, Entries) + (B[n] - Between[n])
    BY <1>1, <1>2, <1>3, <1>4, SumChanges
<1>9. /\ A[<<b, a>>] - AtHeads[<<b, a>>] = d
      /\ P[b] - PaidTable[b] = p
      /\ B[n] - Between[n] = p - d
  <2>1. AtHeads[<<b, a>>] \in Int /\ PaidTable[b] \in Int /\ Between[n] \in Int
      BY <1>1, <1>3
  <2> QED
      BY <1>3, <1>4, <2>1
<1>10. SumOf(AtHeads, S) + SumOf(Between, Entries) = SumOf(PaidTable, Banks)
    BY DEF MoneyBalanced, S
<1> QED
    BY <1>5, <1>6, <1>7, <1>8, <1>9, <1>10

\* A head that reads an update keeps the money accounted for.
LEMMA RecUpdateMoney ==
    ASSUME FiniteDeployment, PaysBanks, PaysOthers, ProperEntries, TransferIds,
           FreshCopies, TypeOK', RightBanks, BalancesExplained, HeadExecutesOnce,
           MoneyAccounted,
           NEW s \in Servers, RecUpdate(s), UNCHANGED clientState
    PROVE  MoneyAccounted'
<1>0. /\ TypeOK /\ TopologyInit /\ OneCopy /\ Unsent /\ next_req' = next_req
      /\ balance_map \in [Servers -> [Accounts -> Int]]
      /\ processed_trans \in [Servers -> Seq(Request)]
      /\ HeadsFile /\ NotYetFiled /\ Charged /\ DebitsRecorded /\ MoneyBalanced
    BY DEF FreshCopies, HeadFrame, TypeOK, ServerTypeOK, clientState, MoneyAccounted
<1>1. PICK m \in LettersIn(to_server), r \in Request :
              /\ HeadHandles(s, m, r)
              /\ IsFirst(s)
              /\ NameOf(r) = NameOf(m.req)
              /\ <<m.req, s, "letter">> \in UnderWay
              /\ MovesExactly(s, r)
    BY RecUpdateExactly
<1> DEFINE q == m.req
           b == Bank(s)
           e == <<q, s, "letter">>
           n == NameOf(q)
           F == Passed(s, r)
           judged == ProcessUpdate(b, balance_map[s],
                        CheckSameReq(processed_trans[s], insuf_funds_trans[s], q), q)
<1>2. /\ b \in Banks /\ s = FirstServer(b) /\ s[2] = 1
    BY <1>0, <1>1, Places DEF IsFirst
<1>3. /\ q \in Reached(b) /\ q \in Request /\ Genuine(q) /\ q.type \in Updates
      /\ r = [q EXCEPT !.status = judged.status, !.req_seq = req_seq[s] + 1]
      /\ balance_map' = [balance_map EXCEPT ![s] = judged.balances]
      /\ processed_trans' = [processed_trans EXCEPT ![s] = Filing("Need", @, Forwarding(r))]
      /\ insuf_funds_trans' =
             [insuf_funds_trans EXCEPT ![s] = Filing("InsufficientFunds", @, Forwarding(r))]
  <2>1. q \in Reached(b)
      BY <1>0, <1>1, ReachedNames
  <2> QED
      BY <1>1, <2>1 DEF HeadHandles, Reached
<1>4. /\ e \in UnderWay /\ NameOf(e[1]) = n /\ e[2] = s /\ e[1] = q /\ HasLeft(n)
      /\ \A g : g \in UnderWay' <=> (g \in UnderWay /\ NameOf(g[1]) # n) \/ g \in F
      /\ NameOf(r) = n
  <2>1. e \in UnderWay /\ HasLeft(n)
      BY <1>0, <1>1 DEF Unsent
  <2> QED
      BY <1>1, <2>1 DEF MovesExactly
<1> HIDE DEF judged
<1>5. /\ r \in Reached(b) /\ r.type = q.type /\ r.dest_bank_id = q.dest_bank_id
      /\ r.status = judged.status
      /\ \E status, number : r = [q EXCEPT !.status = status, !.req_seq = number]
    BY <1>1, <1>3, JudgedReached DEF Request
<1> HIDE DEF q, b, n, F
<1>6. \A f \in F : f[1] = r /\ NameOf(f[1]) = n /\ Ahead(f[1], f[2]) \subseteq Ahead(q, s) \ {s}
  <2>1. \A f \in F : f[1] = r /\ Ahead(f[1], f[2]) \subseteq Ahead(q, s) \ {s}
      BY <1>0, <1>5, PassedAhead DEF F
  <2> QED
      BY <1>4, <2>1
<1>7. /\ HeadsFile'
      /\ \A d \in Banks : Filed(d)' \subseteq IF s = FirstServer(d) THEN Filed(d) \cup {n}
                                                                  ELSE Filed(d)
  <2>1. HasLeft(NameOf(r)) /\ r \in Reached(Bank(s))
      BY <1>4, <1>5 DEF b
  <2>2. /\ HeadsFile'
        /\ \A d \in Banks : Filed(d)' \subseteq IF s = FirstServer(d)
                                                 THEN Filed(d) \cup {NameOf(r)} ELSE Filed(d)
      BY <1>0, <1>3, <2>1, FiledByOne
  <2> QED
      BY <1>4, <2>2
<1>8. NotYetFiled'
  <2>1. UnderWay' \subseteq {g \in UnderWay : NameOf(g[1]) # n} \cup F
      BY <1>4
  <2> QED
      BY <1>0, <1>4, <1>6, <1>7, <2>1, FiledPassage
<1>9. Charged'
  <2>1. UnderWay' \subseteq UnderWay \cup Passed(s, r)
      BY <1>4 DEF F
  <2> QED
      BY <1>0, <1>5, <2>1, ChargedPassage DEF b
<1>10. Home(n) = b \/ Debited(n)
  <2>1. Home(n) = BankOf[q.client_port]
      BY DEF Home, n, NameOf
  <2>2. Home(n) # b => q.type = "transfer"
      BY <1>3, <2>1 DEF Reached
  <2>3. Home(n) # b => q.status = "Need"
      BY <1>0, <1>4, <2>1, <2>2 DEF Charged, b
  <2> QED
      BY <1>0, <1>4, <2>2, <2>3 DEF DebitsRecorded
<1>11. DebitsRecorded'
  <2>1. \A g \in UnderWay' : g \in UnderWay \/ g \in F
      BY <1>4
  <2>2. /\ \A f \in F : f[1] = r
        /\ n = NameOf(r) /\ b \in Banks /\ s = FirstServer(b) /\ r \in Reached(b)
      BY <1>2, <1>4, <1>5, <1>6
  <2>3. processed_trans' = [processed_trans EXCEPT ![s] = Filing("Need", @, Forwarding(r))]
      BY <1>3
  <2>4. \A d \in Banks : Filed(d)' \subseteq IF s = FirstServer(d) THEN Filed(d) \cup {n}
                                                                   ELSE Filed(d)
      BY <1>7
  <2> QED
      BY <1>0, <1>10, <2>1, <2>2, <2>3, <2>4, DebitsPassage
<1> DEFINE home == BankOf[q.client_port]
           credits == q.type = "transfer" /\ q.dest_bank_id = b
           pays == q.type = "transfer" /\ q.dest_bank_id # b
<1>12. Owed(e) <=> credits
  <2>1. Owed(e) <=> q.type = "transfer" /\ q.status = "Need"
      BY <1>0, <1>1, <1>3, ReadOwed DEF b
  <2>2. q.type = "transfer" => (q.status = "Need" <=> b # home)
      BY <1>0, <1>4 DEF Charged, b
  <2>3. q.type = "transfer" => q.dest_bank_id # home /\ b \in {home, q.dest_bank_id}
      BY <1>3, TransferBanks DEF Home, NameOf
  <2> QED
      BY <2>1, <2>2, <2>3
<1>13. (\E f \in F : Owed(f)) <=> pays /\ judged.status = "Need"
  <2>1. (\E f \in F : Owed(f)) <=> PaysAbroad(s, r)
      BY <1>0, <1>5, PassedOwed DEF b, F
  <2> QED
      BY <1>5, <2>1 DEF PaysAbroad, b
<1>14. credits => judged.status = "Need"
  <2>1. n \notin Filed(b)
    <3>1. s \in Ahead(q, s)
        BY <1>2 DEF Ahead, b
    <3> QED
        BY <1>0, <1>2, <1>4, <3>1 DEF NotYetFiled
  <2>2. credits => Debited(n)
    <3>1. q.type = "transfer" => q.dest_bank_id # Home(n)
        BY <1>3, TransferBanks DEF n
    <3> QED
        BY <1>10, <3>1
  <2> QED
      BY <1>0, <1>2, <1>3, <2>1, <2>2, CreditTaken DEF judged, n
<1>15. /\ \A k : k # n => (k \in OwedNames' <=> k \in OwedNames)
       /\ n \in OwedNames <=> Owed(e)
       /\ n \in OwedNames' <=> \E f \in F : Owed(f)
  <2>1. \A f \in F : NameOf(f[1]) = n
      BY <1>6
  <2>2. \A g : g \in UnderWay' <=> (g \in UnderWay /\ NameOf(g[1]) # n) \/ g \in F
      BY <1>4
  <2>3. e \in UnderWay /\ NameOf(e[1]) = n /\ OneCopy
      BY <1>0, <1>4
  <2> HIDE DEF e
  <2>4. n \in OwedNames <=> Owed(e)
      BY <2>1, <2>2, <2>3, OwedStep
  <2>5. n \in OwedNames' <=> \E f \in F : Owed(f)
      BY <2>1, <2>2, <2>3, OwedStep
  <2>6. \A k : k # n => (k \in OwedNames' <=> k \in OwedNames)
      BY <2>1, <2>2, <2>3, OwedStep
  <2> QED
      BY <2>4, <2>5, <2>6
<1> HIDE DEF credits, pays, home, e
<1> DEFINE a == AccountOf(b, q)
           d == IF judged.status = "Need" THEN Effect(b, q, a) ELSE 0
           p == IF judged.status = "Need" THEN PaidBy(q) ELSE 0
<1>16. /\ a \in Accounts /\ d \in Int /\ p \in Int
       /\ \A x \in Accounts \ {a} : Effect(b, q, x) = 0
    BY <1>3, EffectThere
<1>17. n \in Entries /\ Queue(n[1])[n[2]].amount = q.amount /\ q.amount \in Nat
  <2>1. /\ q.client_port \in Clients /\ q.sent_id \in 1 .. Len(Queue(q.client_port))
        /\ Queue(q.client_port)[q.sent_id].amount = q.amount
      BY <1>3, GenuineEntry
  <2>2. n[1] = q.client_port /\ n[2] = q.sent_id /\ n = <<q.client_port, q.sent_id>>
      BY DEF n, NameOf
  <2> QED
      BY <1>3, <2>1, <2>2 DEF Entries, Request
<1>18. \A x \in Entries : Between'[x] = IF x = n THEN Between[x] + (p - d) ELSE Between[x]
  <2>1. \A x \in Entries :
           /\ Between[x] = IF x \in OwedNames THEN Queue(x[1])[x[2]].amount ELSE 0
           /\ Between'[x] = IF x \in OwedNames' THEN Queue(x[1])[x[2]].amount ELSE 0
      BY DEF Between
  <2>2. /\ Between[n] = IF credits THEN q.amount ELSE 0
        /\ Between'[n] = IF pays /\ judged.status = "Need" THEN q.amount ELSE 0
      BY <1>12, <1>13, <1>15, <1>17, <2>1
  <2>3. \A x \in Entries : x # n => Between'[x] = Between[x]
      BY <1>15, <2>1
  <2>4. p - d = IF pays /\ judged.status = "Need" THEN q.amount
                ELSE IF credits THEN -q.amount ELSE 0
    <3>1. /\ Effect(b, q, a) \in Int /\ PaidBy(q) \in Int
          /\ Effect(b, q, a) = IF q.type # "transfer" THEN PaidBy(q)
                               ELSE IF q.dest_bank_id = b THEN q.amount ELSE -q.amount
          /\ q.type = "transfer" => PaidBy(q) = 0
        BY <1>3, EffectThere
    <3> HIDE DEF a
    <3> QED
        BY <1>14, <1>17, <3>1 DEF pays, credits
  <2> HIDE DEF p, d
  <2>5. Between'[n] = Between[n] + (p - d)
    <3>1. ~(pays /\ credits)
        BY DEF pays, credits
    <3> QED
        BY <1>14, <1>17, <2>2, <2>4, <3>1
  <2> QED
      BY <2>3, <2>5
<1>19. \A x \in Banks \X Accounts :
          AtHeads'[x] = IF x = <<b, a>> THEN AtHeads[x] + d ELSE AtHeads[x]
  <2> SUFFICES ASSUME NEW c \in Banks, NEW y \in Accounts
               PROVE  /\ AtHeads[<<c, y>>] = balance_map[FirstServer(c)][y]
                      /\ AtHeads'[<<c, y>>] = balance_map'[FirstServer(c)][y]
                      /\ balance_map'[FirstServer(c)][y] =
                            IF c = b /\ y = a THEN balance_map[FirstServer(c)][y] + d
                                             ELSE balance_map[FirstServer(c)][y]
    <3>1. \A x \in Banks \X Accounts : x = <<x[1], x[2]>> /\ x[1] \in Banks /\ x[2] \in Accounts
        OBVIOUS
    <3> HIDE DEF a, d
    <3> QED
        BY <3>1
  <2>1. /\ AtHeads[<<c, y>>] = balance_map[FirstServer(c)][y]
        /\ AtHeads'[<<c, y>>] = balance_map'[FirstServer(c)][y]
      BY DEF AtHeads
  <2>2. FirstServer(c) \in Servers /\ (FirstServer(c) = s => c = b)
      BY <1>2, ChainLengthAssumption DEF FirstServer, Servers
  <2>3. CASE c # b
    <3>1. balance_map'[FirstServer(c)] = balance_map[FirstServer(c)]
        BY <1>0, <1>3, <2>2, <2>3
    <3> QED
        BY <2>1, <2>3, <3>1
  <2>4. CASE c = b
    <3>1. balance_map[s] \in [Accounts -> Int] /\ \A x \in Accounts : balance_map[s][x] >= 0
        BY <1>0 DEF BalancesExplained
    <3>2. judged.balances[y] = balance_map[s][y] +
             IF judged.status = "Need" THEN Effect(b, q, y) ELSE 0
        BY <1>2, <1>3, <3>1, HeadBalances DEF judged
    <3>3. balance_map'[FirstServer(c)] = judged.balances /\ FirstServer(c) = s
        BY <1>0, <1>2, <1>3, <2>4
    <3>4. balance_map[s][y] \in Int
        BY <3>1
    <3> HIDE DEF a
    <3> QED
        BY <1>16, <2>1, <2>4, <3>2, <3>3, <3>4
  <2> QED
      BY <2>3, <2>4
<1>20. \A x \in Banks : PaidTable'[x] = IF x = b THEN PaidTable[x] + p ELSE PaidTable[x]
  <2> SUFFICES ASSUME NEW c \in Banks
               PROVE  PaidInBy(processed_trans'[FirstServer(c)]) =
                         IF c = b THEN PaidInBy(processed_trans[FirstServer(c)]) + p
                                  ELSE PaidInBy(processed_trans[FirstServer(c)])
      BY DEF PaidTable, PaidIn
  <2>1. FirstServer(c) \in Servers /\ (FirstServer(c) = s => c = b)
      BY <1>2, ChainLengthAssumption DEF FirstServer, Servers
  <2>2. CASE c # b
    <3>1. processed_trans'[FirstServer(c)] = processed_trans[FirstServer(c)]
        BY <1>0, <1>3, <2>1, <2>2
    <3> QED
        BY <2>2, <3>1
  <2>3. CASE c = b
    <3> DEFINE h == processed_trans[s]
               record == [r EXCEPT !.status = "Processed"]
    <3>1. /\ FirstServer(c) = s /\ h \in Seq(Request)
          /\ processed_trans'[s] = Filing("Need", h, Forwarding(r))
        BY <1>0, <1>2, <1>3, <2>3
    <3>2. PaidInBy(h) \in Int
        BY <3>1, PaidType
    <3>3. CASE judged.status # "Need"
      <4>1. processed_trans'[s] = h
          BY <1>5, <3>1, <3>3 DEF Filing, Forwarding
      <4> HIDE DEF h
      <4> QED
          BY <2>3, <3>1, <3>2, <3>3, <4>1 DEF h
    <3>4. CASE judged.status = "Need"
      <4>1. processed_trans'[s] = Append(h, record)
          BY <1>5, <3>1, <3>4 DEF Filing, Forwarding, Record
      <4>2. record \in Request /\ PaidBy(record) = PaidBy(q)
        <5>1. r.amount = q.amount
            BY <1>3, <1>5 DEF Request
        <5> QED
            BY <1>5, <5>1 DEF Request, Statuses, PaidBy
      <4> HIDE DEF h, record
      <4>3. PaidInBy(Append(h, record)) = PaidInBy(h) + PaidBy(record)
          BY <3>1, <4>2, PaidAppend
      <4> QED
          BY <2>3, <3>1, <3>4, <4>1, <4>2, <4>3 DEF h
    <3> QED
        BY <3>3, <3>4
  <2> QED
      BY <2>2, <2>3
<1> HIDE DEF a, d, p
<1>21. MoneyBalanced'
    BY <1>0, <1>2, <1>16, <1>17, <1>18, <1>19, <1>20, BalancedChange
<1> QED
    BY <1>7, <1>8, <1>9, <1>21, <1>11 DEF MoneyAccounted

--------------------------------------------------------------------------------
\* Clients and losses move no money, and it is accounted for at first.

\* Nothing that servers read or keep changes.
LEMMA QuietMoney ==
    ASSUME MoneyAccounted, to_server' = to_server, UNCHANGED serverState, next_req' = next_req
    PROVE  MoneyAccounted'
<1>1. /\ UNCHANGED <<balance_map, processed_trans, insuf_funds_trans, next_req>>
      /\ UnderWay' = UnderWay
    BY DEF serverState, UnderWay, Posted
<1> QED
    BY <1>1, MoneyRests

\* What a client sends is not debited yet, and goes to the head of its own bank.
LEMMA SendRequestMoney ==
    ASSUME FreshCopies, MoneyAccounted, NEW c \in Clients, NEW received \in Nat,
           SendRequest(c, received), UNCHANGED serverState
    PROVE  MoneyAccounted'
<1>0. /\ TypeOK /\ HeadsKnown /\ next_req \in [Clients -> Nat] /\ Single(to_server)
      /\ HeadsFile /\ NotYetFiled /\ Charged /\ DebitsRecorded /\ MoneyBalanced /\ Unsent
      /\ from_pre' = from_pre /\ balance_map' = balance_map
      /\ processed_trans' = processed_trans /\ insuf_funds_trans' = insuf_funds_trans
    BY DEF FreshCopies, HeadFrame, TypeOK, ClientTypeOK, OneCopy, MoneyAccounted, serverState
<1>1. CASE ~(next_req[c] < Len(Queue(c)) /\ received = next_req[c])
    BY <1>1, QuietMoney DEF SendRequest
<1>2. CASE next_req[c] < Len(Queue(c)) /\ received = next_req[c]
  <2> DEFINE k == next_req[c] + 1
             port == PortFor(c, Queue(c)[k])
  <2>1. /\ next_req' = [next_req EXCEPT ![c] = k]
        /\ to_server' = Deliver(to_server, {Mail("REQUEST", port, Queue(c)[k])})
      BY <1>2 DEF SendRequest, SendTo
  <2> SUFFICES ASSUME NEW q, q = Queue(c)[k], NEW to, to = port, NEW n, n = NameOf(q)
               PROVE  MoneyAccounted'
      OBVIOUS
  <2> DEFINE x == Mail("REQUEST", to, q)
             f == <<q, to, "letter">>
  <2>2. /\ q \in Request /\ n = <<c, k>>
        /\ q.client_port = c /\ q.status = "none"
    <3>1. /\ Queue(c) \in Seq(Request)
          /\ \A i \in 1 .. Len(Queue(c)) :
                /\ Queue(c)[i].sent_id = i /\ Queue(c)[i].client_port = c
                /\ Queue(c)[i].status = "none"
        BY WorkloadAssumption DEF Queue
    <3>2. k \in 1 .. Len(Queue(c))
        BY <1>0, <1>2, <3>1
    <3> HIDE DEF Queue, k
    <3> QED
        BY <3>1, <3>2 DEF NameOf
  <2>3. ~HasLeft(n)
      BY <1>0, <2>2 DEF HasLeft
  <2>4. /\ x.op = "REQUEST" /\ x.to = to /\ x.req = q
        /\ to_server' = Deliver(to_server, {x})
      BY <2>1 DEF Mail
  <2>5. q.type \in Updates /\ to # NoServer => Bank(to) = BankOf[c]
    <3>1. q.type \in Updates => to = head_port[c]
        BY DEF PortFor, Updates
    <3> QED
        BY <1>0, <3>1 DEF HeadsKnown, FirstServer, Bank
  <2> HIDE DEF x, f
  <2>6. LettersIn(to_server') \subseteq LettersIn(to_server) \cup {y \in {x} : to # NoServer}
    <3>1. x \notin LettersIn(to_server)
      <4> SUFFICES ASSUME x \in LettersIn(to_server) PROVE FALSE
          OBVIOUS
      <4>1. f \in UnderWay
          BY <1>0, <2>4, UnderWayMember DEF f
      <4> QED
          BY <1>0, <2>3, <4>1 DEF Unsent, f
    <3> DEFINE mails == {x}
    <3>2. \A y \in mails : y.op = "REQUEST" => y \notin LettersIn(to_server)
        BY <3>1
    <3> HIDE DEF mails
    <3>3. LettersIn(Deliver(to_server, mails)) =
             LettersIn(to_server) \cup {y \in mails : y.op = "REQUEST" /\ y.to # NoServer}
        BY <1>0, <3>2, DeliverLetters
    <3> QED
        BY <2>4, <3>3 DEF mails
  <2>7. \A e \in UnderWay' : e \in UnderWay \/ (e = f /\ to # NoServer)
      BY <1>0, <2>4, <2>6 DEF UnderWay, Posted, f
  <2>8. UnderWay \subseteq UnderWay'
    <3>1. LettersIn(to_server) \subseteq LettersIn(to_server')
        BY <2>4, DeliverStays
    <3> QED
        BY <1>0, <3>1 DEF UnderWay, Posted
  <2>9. f[1] = q /\ f[2] = to /\ f[3] = "letter"
      BY DEF f
  <2>10. \A b \in Banks : Filed(b)' = Filed(b)
      BY <1>0 DEF Filed
  <2>11. HeadsFile'
    <3>1. \A b \in Banks : \A j \in Filed(b) : HasLeft(j)'
      <4> SUFFICES ASSUME NEW b \in Banks, NEW j \in Filed(b) PROVE HasLeft(j)'
          OBVIOUS
      <4>1. /\ processed_trans[FirstServer(b)] \in Seq(Reached(b))
            /\ insuf_funds_trans[FirstServer(b)] \in Seq(Reached(b)) /\ HasLeft(j)
          BY <1>0 DEF HeadsFile
      <4>2. ASSUME NEW list \in Seq(Reached(b)), j \in Names(list)
            PROVE  j[1] \in Clients /\ j[2] \in Nat
        <5>1. list \in Seq(Request)
            BY DEF Reached
        <5>2. PICK i \in 1 .. Len(list) : j = NameOf(list[i])
            BY <4>2, <5>1, NamesOfList
        <5>3. list[i] \in Request
            BY <5>1
        <5> QED
            BY <5>2, <5>3 DEF Request, NameOf
      <4>3. j[1] \in Clients /\ j[2] \in Nat
          BY <4>1, <4>2 DEF Filed
      <4> QED
          BY <1>0, <2>1, <4>1, <4>3 DEF HasLeft
    <3> QED
        BY <1>0, <2>10, <3>1 DEF HeadsFile
  <2>12. NotYetFiled'
    <3> SUFFICES ASSUME NEW e \in UnderWay', NEW b \in Banks,
                        FirstServer(b) \in Ahead(e[1], e[2])
                 PROVE  NameOf(e[1]) \notin Filed(b)
        BY <2>10 DEF NotYetFiled
    <3>1. CASE e \in UnderWay
        BY <1>0, <3>1 DEF NotYetFiled
    <3>2. CASE e = f
        BY <1>0, <2>3, <2>9, <3>2 DEF HeadsFile
    <3> QED
        BY <2>7, <3>1, <3>2
  <2>13. Charged'
    <3> SUFFICES ASSUME NEW e \in UnderWay', e[3] = "letter", e[1].type = "transfer"
                 PROVE  e[1].status = "Need" <=> Bank(e[2]) # BankOf[e[1].client_port]
        BY DEF Charged
    <3>1. CASE e \in UnderWay
        BY <1>0, <3>1 DEF Charged
    <3>2. CASE e = f /\ to # NoServer
      <4>1. q.type \in Updates
          BY <2>9, <3>2 DEF Updates
      <4> QED
          BY <2>2, <2>5, <2>9, <3>2, <4>1
    <3> QED
        BY <2>7, <3>1, <3>2
  <2>14. OwedNames' = OwedNames
    <3>1. ~Owed(f)
        BY <2>2, <2>9 DEF Owed
    <3>2. \A j : j \in OwedNames <=> \E g \in UnderWay : Owed(g) /\ NameOf(g[1]) = j
        BY DEF OwedNames
    <3>3. \A j : j \in OwedNames' <=> \E g \in UnderWay' : Owed(g) /\ NameOf(g[1]) = j
        BY DEF OwedNames, Owed, Ahead, NameOf
    <3>4. OwedNames = {j \in OwedNames : TRUE} /\ OwedNames' = {j \in OwedNames' : TRUE}
        BY DEF OwedNames
    <3> HIDE DEF OwedNames, Owed
    <3>5. \A j : j \in OwedNames' <=> j \in OwedNames
        BY <2>7, <2>8, <3>1, <3>2, <3>3
    <3> QED
        BY <3>4, <3>5
  <2>15. MoneyBalanced'
      BY <1>0, <2>14, BalancedRests
  <2>16. DebitsRecorded'
    <3>1. \A e \in UnderWay' : e \in UnderWay \/ e[1].status # "Need"
        BY <2>2, <2>7, <2>9
    <3> QED
        BY <1>0, <2>10, <3>1, DebitsRest
  <2> QED
      BY <2>11, <2>12, <2>13, <2>15, <2>16 DEF MoneyAccounted
<1> QED
    BY <1>1, <1>2

\* So does a client that sends nothing again.
LEMMA ClientStepMoney ==
    ASSUME NoResends, FreshCopies, MoneyAccounted, NEW c \in Clients, ClientStep(c)
    PROVE  MoneyAccounted'
<1>0. last_rec_id[c] \in Nat /\ last_rec_id[c] + 1 \in Nat
    BY DEF FreshCopies, HeadFrame, TypeOK, ClientTypeOK
<1>1. CASE StartClient(c)
    BY <1>0, <1>1, SendRequestMoney DEF StartClient
<1>2. CASE RecvReply(c)
  <2>1. SendRequest(c, last_rec_id[c] + 1) /\ UNCHANGED serverState
      BY <1>2 DEF RecvReply
  <2> QED
      BY <1>0, <2>1, SendRequestMoney
<1>3. CASE RecvSetHeadTail(c)
  <2>1. UNCHANGED serverState /\ to_server' = to_server /\ next_req' = next_req
      BY <1>3 DEF RecvSetHeadTail
  <2> QED
      BY <2>1, QuietMoney
<1>4. ASSUME NEW k \in 1 .. Len(Queue(c)), CheckReceive(c, k) PROVE FALSE
  <2>1. whether_resend_newhead[c] /\ my_resend_time[c][k] < resend_times[c]
      BY <1>4 DEF CheckReceive
  <2>2. my_resend_time[c][k] \in Nat
      BY DEF FreshCopies, HeadFrame, TypeOK, ClientTypeOK
  <2> QED
      BY <2>1, <2>2 DEF NoResends
<1> QED
    BY <1>1, <1>2, <1>3, <1>4 DEF ClientStep, RecvMsg

\* What is lost on the way is no transfer, when servers and clients lose no request.
LEMMA LoseMoney ==
    ASSUME "REQUEST" \notin LossyOps, FreshCopies, MoneyAccounted, Lose
    PROVE  MoneyAccounted'
<1>1. UNCHANGED serverState /\ next_req' = next_req
    BY DEF Lose, clientState
<1>2. CASE to_server' = to_server
    BY <1>1, <1>2, QuietMoney
<1>3. CASE to_server' # to_server
  <2>1. PICK m \in DOMAIN to_server : m.op \in LossyOps /\ to_server' = Take(to_server, m)
      BY <1>3 DEF Lose
  <2>2. m.op # "REQUEST"
      BY <2>1
  <2>3. UNCHANGED <<balance_map, processed_trans, insuf_funds_trans, from_pre>>
      BY <1>1 DEF serverState
  <2> QED
      BY <1>1, <2>1, <2>2, <2>3, TakenMoney
<1> QED
    BY <1>2, <1>3

\* At first every account is empty, and nothing has been paid in.
LEMMA MoneyAccountedInit ==
    ASSUME FiniteDeployment, Init
    PROVE  MoneyAccounted
<1>0. TypeOK /\ TopologyInit /\ SentAccounted
    BY InitType, SentAccountedInit DEF Init, ServerInit
<1>1. /\ \A s \in Servers : /\ from_pre[s] = <<>> /\ processed_trans[s] = <<>>
                            /\ insuf_funds_trans[s] = <<>>
                            /\ \A a \in Accounts : balance_map[s][a] = 0
      /\ DOMAIN to_server = {}
    BY DEF Init, ServerInit, ServersStart, EmptyBag, SetToBag
<1>2. UnderWay = {}
  <2>1. from_pre \in [Servers -> Seq(Forwards)]
      BY <1>0, ListTypes
  <2>2. ASSUME NEW e \in Streamed(from_pre) PROVE FALSE
    <3>1. PICK s \in Servers : Carries(from_pre, s, e)
        BY <2>1, StreamedMember
    <3> QED
        BY <1>1, <3>1 DEF Carries
  <2>3. Posted(to_server) = {}
      BY <1>1 DEF Posted, LettersIn
  <2> QED
      BY <2>2, <2>3 DEF UnderWay
<1>3. \A b \in Banks : /\ FirstServer(b) \in Servers
                       /\ processed_trans[FirstServer(b)] = <<>>
                       /\ insuf_funds_trans[FirstServer(b)] = <<>>
    BY <1>1, ChainLengthAssumption DEF FirstServer, Servers
<1>4. HeadsFile
  <2>1. Names(<<>>) = {} /\ \A b \in Banks : <<>> \in Seq(Reached(b))
      BY DEF Names, ToSet
  <2> QED
      BY <1>3, <2>1 DEF HeadsFile, Filed
<1>5. NotYetFiled /\ Charged
    BY <1>2 DEF NotYetFiled, Charged
<1>6. DebitsRecorded
  <2>1. Names(<<>>) = {}
      BY DEF Names, ToSet
  <2> QED
      BY <1>2, <1>3, <2>1 DEF DebitsRecorded, Filed
<1>7. MoneyBalanced
  <2> DEFINE S == Banks \X Accounts
  <2>1. /\ AtHeads \in [S -> Int] /\ Between \in [Entries -> Int] /\ PaidTable \in [Banks -> Int]
        /\ \A b \in Banks : PaidTable[b] = PaidInBy(processed_trans[FirstServer(b)])
      BY <1>0, TablesType
  <2>2. IsFiniteSet(Banks) /\ IsFiniteSet(S) /\ IsFiniteSet(Entries)
      BY FiniteTables
  <2>3. \A x \in S : AtHeads[x] = 0
    <3> SUFFICES ASSUME NEW b \in Banks, NEW a \in Accounts
                 PROVE  AtHeads[<<b, a>>] = 0
        OBVIOUS
    <3>1. AtHeads[<<b, a>>] = balance_map[FirstServer(b)][a]
        BY DEF AtHeads
    <3> QED
        BY <1>1, <1>3, <3>1
  <2>4. \A x \in Entries : Between[x] = 0
    <3>1. OwedNames = {}
        BY <1>2 DEF OwedNames
    <3> QED
        BY <3>1 DEF Between
  <2>5. \A x \in Banks : PaidTable[x] = 0
      BY <1>3, <2>1, PaidNothing
  <2> HIDE DEF S
  <2>6. SumOf(AtHeads, S) = 0
      BY <2>1, <2>2, <2>3, SumOfNothing
  <2>7. SumOf(Between, Entries) = 0
      BY <2>1, <2>2, <2>4, SumOfNothing
  <2>8. SumOf(PaidTable, Banks) = 0
      BY <2>1, <2>2, <2>5, SumOfNothing
  <2> QED
      BY <2>6, <2>7, <2>8 DEF MoneyBalanced, S
<1> QED
    BY <1>4, <1>5, <1>7, <1>6 DEF MoneyAccounted

\* Every step keeps the money accounted for.
LEMMA MoneyAccountedStep ==
    ASSUME NoResends, ProperEntries, PaysOthers, PaysBanks, TransferIds, FiniteDeployment,
           "REQUEST" \notin LossyOps, FreshCopies, RightBanks, BalancesExplained,
           HeadExecutesOnce, MoneyAccounted, [Next]_vars
    PROVE  MoneyAccounted'
<1>1. ASSUME NEW s \in Servers, ServerStep(s) PROVE MoneyAccounted'
  <2>1. TypeOK'
      BY TypeOKStep DEF FreshCopies, HeadFrame
  <2>2. UNCHANGED clientState
      BY <1>1 DEF ServerStep
  <2>3. CASE RecUpdate(s)
      BY <2>1, <2>2, <2>3, RecUpdateMoney
  <2>4. CASE RecForward(s)
      BY <2>2, <2>4, RecForwardMoney
  <2>5. CASE RecQuery(s) \/ RecUnknown(s) \/ RecAck(s) \/ RecOtherBank(s)
      BY <2>2, <2>5, OtherServerStepMoney
  <2> QED
      BY <1>1, <2>3, <2>4, <2>5 DEF ServerStep, ReceiveStep, RecClient
<1>2. CASE UNCHANGED vars
    BY <1>2, QuietMoney DEF vars, network, clientState
<1> QED
    BY <1>1, <1>2, ClientStepMoney, LoseMoney DEF Next

\* Transfers neither make nor lose money: whenever nothing is under way, the accounts
\* of all banks hold, at the tails, what clients paid in and did not draw, whatever the
\* chains, the workloads and the interleaving of servers and clients, acknowledgements
\* and replies that get lost included (send_transfer_dest_head, processTransfer,
\* update_balance, ack_to_source_bank).
THEOREM MoneyConservedCorrect ==
    /\ NoResends /\ ProperEntries /\ PaysOthers /\ PaysBanks /\ TransferIds
    /\ FiniteDeployment /\ "REQUEST" \notin LossyOps
    => (Spec => []MoneyConserved)
<1> SUFFICES ASSUME NoResends, ProperEntries, PaysOthers, PaysBanks, TransferIds,
                    FiniteDeployment, "REQUEST" \notin LossyOps
             PROVE  Spec => []MoneyConserved
    OBVIOUS
<1>1. Init => MoneyAccounted
    BY MoneyAccountedInit
<1>2. FreshCopies /\ RightBanks /\ BalancesExplained /\ HeadExecutesOnce /\ MoneyAccounted
      /\ [Next]_vars => MoneyAccounted'
    BY MoneyAccountedStep
<1>3. FreshCopies /\ UpdatePropagation /\ BalancesExplained /\ MoneyAccounted => MoneyConserved
    BY BalancedConserved DEF MoneyAccounted
<1>4. Spec => []FreshCopies
    BY FreshCopiesCorrect
<1>5. Spec => []RightBanks
    BY RightBanksCorrect
<1>6. Spec => []BalancesExplained
    BY BalancesExplainedCorrect
<1>7. Spec => []UpdatePropagation
    BY UpdatePropagationCorrect
<1>8. Spec => []HeadExecutesOnce
    BY HeadExecutesOnceCorrect
<1> QED
    BY <1>1, <1>2, <1>3, <1>4, <1>5, <1>6, <1>7, <1>8, PTL DEF Spec

================================================================================
