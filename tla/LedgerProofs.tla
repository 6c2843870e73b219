--------------------------------- MODULE LedgerProofs ---------------------------------
(***************************************************************************)
(* The chains implement the ledger when no client resends and no reply is  *)
(* lost.  The ledger decides when a tail answers, the head has decided     *)
(* long before.  What makes the decisions one: the status a copy carries   *)
(* is the verdict of the histories its reader will have by then            *)
(* (StreamsJudged), whatever overtakes it on the way to another bank.  An  *)
(* acknowledgement of the payee's bank stays true, for a book only grows   *)
(* and never contradicts itself (AcksConfirmed, BooksSound), and a request *)
(* that is answered is nowhere any more (AnswersFinal).                    *)
(***************************************************************************)
EXTENDS ChainLedger, TransferProofs

--------------------------------------------------------------------------------
\* What the histories of a server say of a request.

\* A history has the same transaction under q's id, or another one.
Alike(h, q) ==
    \E i \in 1 .. Len(h) : h[i].req_id = q.req_id /\ Content(h[i]) = Content(q)

Unlike(h, q) ==
    \E i \in 1 .. Len(h) : h[i].req_id = q.req_id /\ Content(h[i]) # Content(q)

\* An update that draws on an account of bank b, and may be refused there.
Draws(b, q) ==
    \/ q.type = "withdraw"
    \/ q.type = "transfer" /\ q.dest_bank_id # b

\* The status of q is the verdict of the histories P and I of bank b.
Judges(b, P, I, q) ==
    /\ q.type \in Updates
    /\ \/ /\ q.status = "Need"
          /\ ~HasId(P, q.req_id) /\ ~HasId(I, q.req_id)
          /\ Draws(b, q) => BalanceOf(b, P, q.account_num) >= q.amount
       \/ /\ q.status = "InsufficientFunds"
          /\ Draws(b, q) /\ ~HasId(P, q.req_id)
          /\ \/ Alike(I, q)
             \/ ~HasId(I, q.req_id) /\ BalanceOf(b, P, q.account_num) < q.amount
       \/ q.status = "Processed" /\ Alike(P, q)
       \/ q.status = "InconsistentWithHistory" /\ (Unlike(P, q) \/ Unlike(I, q))

\* Two histories of a server of bank b agree on what an id stands for.
SoundBook(b, P, I) ==
    /\ \A i, j \in 1 .. Len(P) : P[i].req_id = P[j].req_id => i = j
    /\ \A j \in 1 .. Len(I) : ~HasId(P, I[j].req_id) /\ Draws(b, I[j])
    /\ \A i, j \in 1 .. Len(I) :
          I[i].req_id = I[j].req_id => Content(I[i]) = Content(I[j])

\* Every message of a stream carries the verdict its reader will come to.
StreamJudged(b, P, I, stream) ==
    \A i \in 1 .. Len(stream) :
       LET before == SubSeq(stream, 1, i - 1)
       IN  Judges(b, AfterReading("Need", P, before),
                     AfterReading("InsufficientFunds", I, before), stream[i].req)

\* The tail of bank b bears out what an acknowledgement reports.
Confirmed(b, q) ==
    LET P == processed_trans[LastServer(b)]
        I == insuf_funds_trans[LastServer(b)]
    IN  /\ b \in Banks
        /\ \/ Outcome(q) = "Processed" /\ Alike(P, q)
           \/ Outcome(q) = "InconsistentWithHistory" /\ (Unlike(P, q) \/ Unlike(I, q))

--------------------------------------------------------------------------------
\* The invariant.

\* Clients know the tail of their bank, and their queries go there.
TailsKnown ==
    /\ \A c \in Clients : tail_port[c] \in {NoServer, LastServer(BankOf[c])}
    /\ \A m \in DOMAIN to_client : m.op = "SET_HEAD_TAIL" =>
          m.tail_port = LastServer(m.bank_id)
    /\ \A m \in LettersIn(to_server) : m.req.type = "getBalance" =>
          m.to = LastServer(BankOf[m.req.client_port])

\* The datagrams to clients are a bag.
RepliesCounted == \A m \in DOMAIN to_client : to_client[m] \in Nat \ {0}

\* Histories are sound books.
BooksSound ==
    \A s \in Servers : SoundBook(Bank(s), processed_trans[s], insuf_funds_trans[s])

\* Every update in a stream carries the verdict its reader will come to.
StreamsJudged ==
    \A s \in Servers :
       StreamJudged(Bank(s), processed_trans[s], insuf_funds_trans[s], from_pre[s])

\* The books of the payee's bank bear its acknowledgements out.
AcksConfirmed ==
    /\ \A s \in Servers : \A i \in 1 .. Len(from_next[s]) :
          Receives(s, from_next[s][i]) => Confirmed(Bank(s), from_next[s][i])
    /\ \A m \in Acks(to_server) : Confirmed(m.req.dest_bank_id, m.req)

\* The request of this name is under way, or waits for the payee's bank.
Pending(n) == Awaited(n) \/ \E e \in UnderWay : NameOf(e[1]) = n

\* Replies are for the client that has them, and the request that one answers was
\* sent and is under way no more.
AnswersFinal ==
    \A c \in Clients : \A m \in Replies(c) :
       m.to = c /\ HasLeft(<<c, m.sent_id>>) /\ ~Pending(<<c, m.sent_id>>)

\* The invariant behind ImplementsLedger, besides those of the other theorems.
LedgerInvariant ==
    /\ TailsKnown
    /\ RepliesCounted
    /\ BooksSound
    /\ StreamsJudged
    /\ AcksConfirmed
    /\ AnswersFinal

--------------------------------------------------------------------------------
\* The verdicts of histories.

\* Two requests are the same transaction when they have the same content.
LEMMA SameContent ==
    ASSUME NEW q, NEW h
    PROVE  SameTransaction(q, h) <=> Content(h) = Content(q)
<1> DEFINE pq == IF q.type = "transfer" THEN <<q.dest_bank_id, q.dest_account_num>> ELSE <<>>
           ph == IF h.type = "transfer" THEN <<h.dest_bank_id, h.dest_account_num>> ELSE <<>>
<1>1. q.type = h.type =>
        (pq = ph <=> (q.type = "transfer" => /\ q.dest_bank_id = h.dest_bank_id
                                             /\ q.dest_account_num = h.dest_account_num))
    OBVIOUS
<1> HIDE DEF pq, ph
<1>2. /\ Content(q) = [type |-> q.type, account_num |-> q.account_num,
                       amount |-> q.amount, payee |-> pq]
      /\ Content(h) = [type |-> h.type, account_num |-> h.account_num,
                       amount |-> h.amount, payee |-> ph]
    BY DEF Content, pq, ph
<1>3. Content(h) = Content(q) <=>
         q.type = h.type /\ q.account_num = h.account_num /\ q.amount = h.amount /\ pq = ph
    BY <1>2
<1> QED
    BY <1>1, <1>3 DEF SameTransaction

\* What the search of both histories for an id amounts to (check_same_req).
LEMMA SearchFinds ==
    ASSUME NEW P \in Seq(Request), NEW I \in Seq(Request), NEW b, SoundBook(b, P, I),
           NEW q, NEW same, same = CheckSameReq(P, I, q)
    PROVE  \/ same = "NOT_YET" /\ ~HasId(P, q.req_id) /\ ~HasId(I, q.req_id)
           \/ same = "EXACTLY_SAME_INSUF" /\ ~HasId(P, q.req_id) /\ Alike(I, q)
           \/ same = "EXACTLY_SAME_PROCESS" /\ Alike(P, q)
           \/ same = "ONLY_SAME_REQID" /\ (Unlike(P, q) \/ Unlike(I, q))
<1> DEFINE i == FirstWithId(I, q)
           j == FirstWithId(P, q)
<1>1. /\ i \in Nat /\ j \in Nat
      /\ i # 0 => i \in 1 .. Len(I) /\ I[i].req_id = q.req_id
      /\ j # 0 => j \in 1 .. Len(P) /\ P[j].req_id = q.req_id
      /\ i = 0 => ~HasId(I, q.req_id)
      /\ j = 0 => ~HasId(P, q.req_id)
    BY FirstWithIdProperty DEF HasId
<1>2. i # 0 => ~HasId(P, q.req_id)
    BY <1>1 DEF SoundBook
<1>3. same = CASE i # 0 -> IF SameTransaction(q, I[i])
                           THEN "EXACTLY_SAME_INSUF" ELSE "ONLY_SAME_REQID"
               [] i = 0 /\ j # 0 -> IF SameTransaction(q, P[j])
                                    THEN "EXACTLY_SAME_PROCESS" ELSE "ONLY_SAME_REQID"
               [] OTHER -> "NOT_YET"
    BY DEF CheckSameReq
<1> HIDE DEF i, j
<1>4. CASE i # 0
  <2>1. SameTransaction(q, I[i]) <=> Content(I[i]) = Content(q)
      BY SameContent
  <2>2. same = IF SameTransaction(q, I[i]) THEN "EXACTLY_SAME_INSUF" ELSE "ONLY_SAME_REQID"
      BY <1>3, <1>4
  <2>3. CASE SameTransaction(q, I[i])
      BY <1>1, <1>2, <1>4, <2>1, <2>2, <2>3 DEF Alike
  <2>4. CASE ~SameTransaction(q, I[i])
      BY <1>1, <1>4, <2>1, <2>2, <2>4 DEF Unlike
  <2> QED
      BY <2>3, <2>4
<1>5. CASE i = 0 /\ j # 0
  <2>1. SameTransaction(q, P[j]) <=> Content(P[j]) = Content(q)
      BY SameContent
  <2>2. same = IF SameTransaction(q, P[j]) THEN "EXACTLY_SAME_PROCESS" ELSE "ONLY_SAME_REQID"
      BY <1>3, <1>5
  <2>3. CASE SameTransaction(q, P[j])
      BY <1>1, <1>5, <2>1, <2>2, <2>3 DEF Alike
  <2>4. CASE ~SameTransaction(q, P[j])
      BY <1>1, <1>5, <2>1, <2>2, <2>4 DEF Unlike
  <2> QED
      BY <2>3, <2>4
<1>6. CASE i = 0 /\ j = 0
  <2>1. same = "NOT_YET"
      BY <1>3, <1>6
  <2> QED
      BY <1>1, <1>6, <2>1
<1> QED
    BY <1>4, <1>5, <1>6

\* Two copies that ask for the same thing.
SameAsk(r, q) ==
    /\ r.req_id = q.req_id /\ r.type = q.type
    /\ r.account_num = q.account_num /\ r.amount = q.amount
    /\ r.dest_bank_id = q.dest_bank_id /\ r.dest_account_num = q.dest_account_num

\* What a history says of a request does not depend on its status and number.
LEMMA SameVerdict ==
    ASSUME NEW q, NEW r, SameAsk(r, q)
    PROVE  /\ Content(r) = Content(q)
           /\ \A h : (Alike(h, r) <=> Alike(h, q)) /\ (Unlike(h, r) <=> Unlike(h, q))
           /\ \A b : Draws(b, r) <=> Draws(b, q)
<1>1. Content(r) = Content(q)
    BY DEF Content, SameAsk
<1> QED
    BY <1>1 DEF Alike, Unlike, Draws, SameAsk

\* The head gives an update the status its histories call for.
LEMMA HeadJudges ==
    ASSUME NEW P \in Seq(Request), NEW I \in Seq(Request), NEW b, SoundBook(b, P, I),
           NEW q \in Request, q.type \in Updates, NEW balances \in [Accounts -> Int],
           \A a \in Accounts : balances[a] = BalanceOf(b, P, a),
           NEW r, SameAsk(r, q),
           r.status = ProcessUpdate(b, balances, CheckSameReq(P, I, q), q).status
    PROVE  Judges(b, P, I, r)
<1> DEFINE same == CheckSameReq(P, I, q)
           status == r.status
<1>0. status = ProcessUpdate(b, balances, same, q).status
    OBVIOUS
<1>1. \/ same = "NOT_YET" /\ ~HasId(P, q.req_id) /\ ~HasId(I, q.req_id)
      \/ same = "EXACTLY_SAME_INSUF" /\ ~HasId(P, q.req_id) /\ Alike(I, q)
      \/ same = "EXACTLY_SAME_PROCESS" /\ Alike(P, q)
      \/ same = "ONLY_SAME_REQID" /\ (Unlike(P, q) \/ Unlike(I, q))
    BY SearchFinds
<1>2. balances[q.account_num] = BalanceOf(b, P, q.account_num) /\ q.amount \in Nat
      /\ balances[q.account_num] \in Int
    BY DEF Request
<1>3. /\ r.status = status /\ r.req_id = q.req_id
      /\ r.type = q.type /\ r.account_num = q.account_num /\ r.amount = q.amount
      /\ \A h : (Alike(h, r) <=> Alike(h, q)) /\ (Unlike(h, r) <=> Unlike(h, q))
      /\ Draws(b, r) <=> Draws(b, q)
    BY SameVerdict DEF SameAsk
<1> HIDE DEF same
<1>4. CASE Draws(b, q)
  <2>1. status = ProcessWithdraw(balances, same, q).status
      BY <1>0, <1>4 DEF Draws, ProcessUpdate, ProcessTransfer
  <2>2. CASE same = "NOT_YET"
    <3>1. status = IF balances[q.account_num] >= q.amount THEN "Need" ELSE "InsufficientFunds"
        BY <2>1, <2>2 DEF ProcessWithdraw
    <3>2. CASE balances[q.account_num] >= q.amount
        BY <1>1, <1>2, <1>3, <1>4, <2>2, <3>1, <3>2 DEF Judges
    <3>3. CASE ~(balances[q.account_num] >= q.amount)
      <4>1. BalanceOf(b, P, q.account_num) < q.amount
          BY <1>2, <3>3
      <4> QED
          BY <1>1, <1>3, <1>4, <2>2, <3>1, <3>3, <4>1 DEF Judges
    <3> QED
        BY <3>2, <3>3
  <2>3. CASE same = "EXACTLY_SAME_INSUF"
    <3>1. status = "InsufficientFunds"
        BY <2>1, <2>3 DEF ProcessWithdraw
    <3> QED
        BY <1>1, <1>3, <1>4, <2>3, <3>1 DEF Judges
  <2>4. CASE same = "EXACTLY_SAME_PROCESS"
    <3>1. status = "Processed"
        BY <2>1, <2>4 DEF ProcessWithdraw
    <3> QED
        BY <1>1, <1>3, <2>4, <3>1 DEF Judges
  <2>5. CASE same = "ONLY_SAME_REQID"
    <3>1. status = "InconsistentWithHistory"
        BY <2>1, <2>5 DEF ProcessWithdraw
    <3> QED
        BY <1>1, <1>3, <2>5, <3>1 DEF Judges
  <2> QED
      BY <1>1, <2>2, <2>3, <2>4, <2>5
<1>5. CASE ~Draws(b, q)
  <2>1. status = ProcessDeposit(b, balances, same, q).status
      BY <1>0, <1>5 DEF Draws, ProcessUpdate, ProcessTransfer, Updates
  <2>2. CASE same = "NOT_YET"
    <3>1. status = "Need"
        BY <2>1, <2>2 DEF ProcessDeposit
    <3> QED
        BY <1>1, <1>3, <1>5, <2>2, <3>1 DEF Judges
  <2>3. same # "EXACTLY_SAME_INSUF"
    <3> SUFFICES ASSUME same = "EXACTLY_SAME_INSUF" PROVE FALSE
        OBVIOUS
    <3>1. PICK i \in 1 .. Len(I) : Content(I[i]) = Content(q)
        BY <1>1 DEF Alike
    <3>2. /\ I[i].type = q.type
          /\ q.type = "transfer" => I[i].dest_bank_id = q.dest_bank_id
        BY <3>1, SameContent DEF SameTransaction
    <3>3. Draws(b, I[i])
        BY DEF SoundBook
    <3> QED
        BY <1>5, <3>2, <3>3 DEF Draws
  <2>4. CASE same = "EXACTLY_SAME_PROCESS"
    <3>1. status = "Processed"
        BY <2>1, <2>4 DEF ProcessDeposit
    <3> QED
        BY <1>1, <1>3, <2>4, <3>1 DEF Judges
  <2>5. CASE same = "ONLY_SAME_REQID"
    <3>1. status = "InconsistentWithHistory"
        BY <2>1, <2>5 DEF ProcessDeposit
    <3> QED
        BY <1>1, <1>3, <2>5, <3>1 DEF Judges
  <2> QED
      BY <1>1, <2>2, <2>3, <2>4, <2>5
<1> QED
    BY <1>4, <1>5

\* What a history says of ids when a request is added to it.
LEMMA AddedEntry ==
    ASSUME NEW h \in Seq(Request), NEW q \in Request
    PROVE  /\ Append(h, q) \in Seq(Request) /\ Len(Append(h, q)) = Len(h) + 1
           /\ \A i \in 1 .. Len(h) : Append(h, q)[i] = h[i]
           /\ Append(h, q)[Len(h) + 1] = q
           /\ Len(h) \in Nat
           /\ \A i : i \in 1 .. Len(h) + 1 <=> i \in 1 .. Len(h) \/ i = Len(h) + 1
           /\ Len(h) + 1 \notin 1 .. Len(h)
    OBVIOUS

\* An entry of a history that grows is still there.
LEMMA AlikeStays ==
    ASSUME NEW h \in Seq(Request), NEW f \in Forwards, NEW status
    PROVE  /\ \A q : Alike(h, q) => Alike(Filing(status, h, f), q)
           /\ \A q : Unlike(h, q) => Unlike(Filing(status, h, f), q)
           /\ \A q : HasId(h, q.req_id) => HasId(Filing(status, h, f), q.req_id)
<1> DEFINE new == Filing(status, h, f)
           rec == [f.req EXCEPT !.status = "Processed"]
<1>1. f.req \in Request /\ rec \in Request
    BY DEF Forwards, Request, Statuses
<1>2. new = h \/ new = Append(h, f.req) \/ new = Append(h, rec)
    BY DEF Filing, Record
<1> HIDE DEF new, rec
<1>3. \A i \in 1 .. Len(h) : i \in 1 .. Len(new) /\ new[i] = h[i]
    BY <1>1, <1>2, AddedEntry
<1>4. \A q : Alike(h, q) => Alike(new, q)
    BY <1>3 DEF Alike
<1>5. \A q : Unlike(h, q) => Unlike(new, q)
    BY <1>3 DEF Unlike
<1>6. \A q : HasId(h, q.req_id) => HasId(new, q.req_id)
    BY <1>3 DEF HasId
<1> QED
    BY <1>4, <1>5, <1>6 DEF new

\* Executing an update whose id is new keeps the book sound.
LEMMA SoundExecution ==
    ASSUME NEW b, NEW P \in Seq(Request), NEW I \in Seq(Request), SoundBook(b, P, I),
           NEW q \in Request, ~HasId(P, q.req_id), ~HasId(I, q.req_id)
    PROVE  SoundBook(b, Record(P, q), I)
<1> DEFINE rec == [q EXCEPT !.status = "Processed"]
<1>1. rec \in Request /\ rec.req_id = q.req_id /\ Record(P, q) = Append(P, rec)
    BY DEF Request, Statuses, Record
<1> HIDE DEF rec
<1> DEFINE N == Append(P, rec)
<1>2. /\ Len(N) = Len(P) + 1
      /\ \A i \in 1 .. Len(P) : N[i] = P[i] /\ P[i].req_id # q.req_id
      /\ N[Len(P) + 1].req_id = q.req_id
      /\ \A i : i \in 1 .. Len(P) + 1 <=> i \in 1 .. Len(P) \/ i = Len(P) + 1
    BY <1>1, AddedEntry DEF HasId
<1> HIDE DEF N
<1>3. ASSUME NEW i \in 1 .. Len(N), NEW j \in 1 .. Len(N), N[i].req_id = N[j].req_id
      PROVE  i = j
    BY <1>2, <1>3 DEF SoundBook
<1>4. ASSUME NEW j \in 1 .. Len(I) PROVE ~HasId(N, I[j].req_id)
  <2>1. ~HasId(P, I[j].req_id) /\ I[j].req_id # q.req_id
      BY DEF SoundBook, HasId
  <2> QED
      BY <1>2, <2>1 DEF HasId
<1>5. SoundBook(b, N, I)
    BY <1>3, <1>4 DEF SoundBook
<1> QED
    BY <1>1, <1>5 DEF N

\* So does refusing one that is new, or was refused before.
LEMMA SoundRefusal ==
    ASSUME NEW b, NEW P \in Seq(Request), NEW I \in Seq(Request), SoundBook(b, P, I),
           NEW q \in Request, Draws(b, q), ~HasId(P, q.req_id),
           Alike(I, q) \/ ~HasId(I, q.req_id)
    PROVE  SoundBook(b, P, Append(I, q))
<1> DEFINE N == Append(I, q)
<1>1. /\ Len(N) = Len(I) + 1
      /\ \A i \in 1 .. Len(I) : N[i] = I[i]
      /\ N[Len(I) + 1] = q
      /\ \A i : i \in 1 .. Len(I) + 1 <=> i \in 1 .. Len(I) \/ i = Len(I) + 1
    BY AddedEntry
<1> HIDE DEF N
<1>2. ASSUME NEW i \in 1 .. Len(I), I[i].req_id = q.req_id PROVE Content(I[i]) = Content(q)
  <2>1. PICK k \in 1 .. Len(I) : I[k].req_id = q.req_id /\ Content(I[k]) = Content(q)
      BY <1>2 DEF Alike, HasId
  <2> QED
      BY <1>2, <2>1 DEF SoundBook
<1>3. ASSUME NEW i \in 1 .. Len(N), NEW j \in 1 .. Len(N), N[i].req_id = N[j].req_id
      PROVE  Content(N[i]) = Content(N[j])
  <2>1. CASE i \in 1 .. Len(I) /\ j \in 1 .. Len(I)
      BY <1>1, <1>3, <2>1 DEF SoundBook
  <2>2. CASE i \in 1 .. Len(I) /\ j = Len(I) + 1
      BY <1>1, <1>2, <1>3, <2>2
  <2>3. CASE i = Len(I) + 1 /\ j \in 1 .. Len(I)
      BY <1>1, <1>2, <1>3, <2>3
  <2>4. CASE i = Len(I) + 1 /\ j = Len(I) + 1
      BY <2>4
  <2> QED
      BY <1>1, <2>1, <2>2, <2>3, <2>4
<1>4. ASSUME NEW j \in 1 .. Len(N) PROVE ~HasId(P, N[j].req_id) /\ Draws(b, N[j])
    BY <1>1 DEF SoundBook
<1>5. SoundBook(b, P, N)
    BY <1>3, <1>4 DEF SoundBook
<1> QED
    BY <1>5 DEF N

\* A book stays sound when a message with its verdict is filed.
LEMMA SoundFiling ==
    ASSUME NEW b, NEW P \in Seq(Request), NEW I \in Seq(Request), SoundBook(b, P, I),
           NEW f \in Forwards, Judges(b, P, I, f.req)
    PROVE  SoundBook(b, Filing("Need", P, f), Filing("InsufficientFunds", I, f))
<1>1. f.req \in Request
    BY DEF Forwards
<1>2. CASE f.req.status = "Need"
  <2>1. Filing("Need", P, f) = Record(P, f.req) /\ Filing("InsufficientFunds", I, f) = I
      BY <1>2 DEF Filing
  <2>2. ~HasId(P, f.req.req_id) /\ ~HasId(I, f.req.req_id)
      BY <1>2 DEF Judges
  <2> QED
      BY <1>1, <2>1, <2>2, SoundExecution
<1>3. CASE f.req.status = "InsufficientFunds"
  <2>1. Filing("Need", P, f) = P /\ Filing("InsufficientFunds", I, f) = Append(I, f.req)
      BY <1>3 DEF Filing
  <2>2. /\ Draws(b, f.req) /\ ~HasId(P, f.req.req_id)
        /\ Alike(I, f.req) \/ ~HasId(I, f.req.req_id)
      BY <1>3 DEF Judges
  <2> QED
      BY <1>1, <2>1, <2>2, SoundRefusal
<1>4. CASE f.req.status \notin {"Need", "InsufficientFunds"}
  <2>1. Filing("Need", P, f) = P /\ Filing("InsufficientFunds", I, f) = I
      BY <1>4 DEF Filing
  <2> QED
      BY <2>1
<1> QED
    BY <1>2, <1>3, <1>4

\* After filing the histories bear out what is reported of the message.
LEMMA FiledVerdict ==
    ASSUME NEW b, NEW P \in Seq(Request), NEW I \in Seq(Request), NEW f \in Forwards,
           Judges(b, P, I, f.req)
    PROVE  LET q == f.req
               X == Filing("Need", P, f)
               Y == Filing("InsufficientFunds", I, f)
           IN  \/ Outcome(q) = "Processed" /\ Alike(X, q)
               \/ Outcome(q) = "InsufficientFunds" /\ Draws(b, q) /\ Alike(Y, q)
               \/ Outcome(q) = "InconsistentWithHistory" /\ (Unlike(X, q) \/ Unlike(Y, q))
<1> DEFINE q == f.req
           rec == [q EXCEPT !.status = "Processed"]
<1>1. q \in Request
    BY DEF Forwards
<1>2. CASE q.status = "Need"
  <2>1. rec \in Request /\ rec.req_id = q.req_id /\ Content(rec) = Content(q)
      BY <1>1 DEF Request, Statuses, Content
  <2>2. Filing("Need", P, f) = Append(P, rec) /\ Outcome(q) = "Processed"
      BY <1>2 DEF Filing, Record, Outcome
  <2> HIDE DEF q, rec
  <2>3. Alike(Append(P, rec), q)
      BY <2>1, AddedEntry DEF Alike
  <2> QED
      BY <2>2, <2>3 DEF q
<1>3. CASE q.status = "InsufficientFunds"
  <2>1. /\ Filing("InsufficientFunds", I, f) = Append(I, q)
        /\ Outcome(q) = "InsufficientFunds" /\ Draws(b, q)
      BY <1>3 DEF Filing, Outcome, Judges
  <2> HIDE DEF q
  <2>2. Alike(Append(I, q), q)
      BY <1>1, AddedEntry DEF Alike
  <2> QED
      BY <2>1, <2>2 DEF q
<1>4. CASE q.status \notin {"Need", "InsufficientFunds"}
  <2>1. Filing("Need", P, f) = P /\ Filing("InsufficientFunds", I, f) = I
      BY <1>4 DEF Filing
  <2> QED
      BY <1>4, <2>1 DEF Outcome, Judges
<1> QED
    BY <1>2, <1>3, <1>4

--------------------------------------------------------------------------------
\* Books.

\* What a book holds under an id.
Item(q, result) == [content |-> Content(q), outcome |-> result]

\* The book B holds what the histories P and I say.
Reflects(B, P, I) ==
    /\ B = [id \in DOMAIN B |-> B[id]]
    /\ \A id : id \in DOMAIN B <=> HasId(P, id) \/ HasId(I, id)
    /\ \A i \in 1 .. Len(P) : B[P[i].req_id] = Item(P[i], "Processed")
    /\ \A i \in 1 .. Len(I) : B[I[i].req_id] = Item(I[i], "InsufficientFunds")

\* A sound book has one item for all entries of an id.
LEMMA BookEntry ==
    ASSUME NEW b, NEW P \in Seq(Request), NEW I \in Seq(Request), SoundBook(b, P, I)
    PROVE  Reflects(BookOf(P, I), P, I)
<1> DEFINE B == BookOf(P, I)
           E == ToSet(P)
           R == ToSet(I)
           D == {q.req_id : q \in E \cup R}
           entry(id) == CHOOSE q \in E \cup R : q.req_id = id
<1>1. B = [id \in D |-> Item(entry(id), IF entry(id) \in E THEN "Processed"
                                                           ELSE "InsufficientFunds")]
    BY DEF BookOf, Item
<1>2. /\ E = {P[i] : i \in 1 .. Len(P)}
      /\ R = {I[i] : i \in 1 .. Len(I)}
    BY DEF ToSet
<1> HIDE DEF E, R
<1>3. ASSUME NEW q \in E \cup R
      PROVE  /\ q.req_id \in D
             /\ entry(q.req_id) \in E \cup R /\ entry(q.req_id).req_id = q.req_id
    OBVIOUS
<1>4. \A id : id \in D <=> HasId(P, id) \/ HasId(I, id)
    BY <1>2 DEF HasId
<1>5. B = [id \in DOMAIN B |-> B[id]] /\ DOMAIN B = D
  <2> HIDE DEF B, D, entry
  <2>1. DOMAIN B = D
      BY <1>1
  <2> QED
      BY <1>1, <2>1
<1>6. ASSUME NEW id \in D
      PROVE  B[id] = Item(entry(id), IF entry(id) \in E THEN "Processed"
                                                        ELSE "InsufficientFunds")
  <2> HIDE DEF B, D, entry
  <2> QED
      BY <1>1
<1>7. ASSUME NEW i \in 1 .. Len(P)
      PROVE  B[P[i].req_id] = Item(P[i], "Processed")
  <2> DEFINE e == entry(P[i].req_id)
  <2>1. P[i] \in E
      BY <1>2
  <2>2. e \in E \cup R /\ e.req_id = P[i].req_id /\ P[i].req_id \in D
      BY <1>3, <2>1
  <2>3. B[P[i].req_id] = Item(e, IF e \in E THEN "Processed" ELSE "InsufficientFunds")
      BY <1>6, <2>2
  <2> HIDE DEF e, B, D, entry
  <2>4. e \notin R
      BY <1>2, <2>2 DEF SoundBook, HasId
  <2>5. PICK j \in 1 .. Len(P) : e = P[j]
      BY <1>2, <2>2, <2>4
  <2>6. e = P[i]
      BY <2>2, <2>5 DEF SoundBook
  <2> QED
      BY <2>1, <2>3, <2>6
<1>8. ASSUME NEW i \in 1 .. Len(I)
      PROVE  B[I[i].req_id] = Item(I[i], "InsufficientFunds")
  <2> DEFINE e == entry(I[i].req_id)
  <2>1. I[i] \in R
      BY <1>2
  <2>2. e \in E \cup R /\ e.req_id = I[i].req_id /\ I[i].req_id \in D
      BY <1>3, <2>1
  <2>3. B[I[i].req_id] = Item(e, IF e \in E THEN "Processed" ELSE "InsufficientFunds")
      BY <1>6, <2>2
  <2> HIDE DEF e, B, D, entry
  <2>4. e \notin E
      BY <1>2, <2>2 DEF SoundBook, HasId
  <2>5. PICK j \in 1 .. Len(I) : e = I[j]
      BY <1>2, <2>2, <2>4
  <2>6. Content(e) = Content(I[i])
      BY <2>2, <2>5 DEF SoundBook
  <2> QED
      BY <2>3, <2>4, <2>6 DEF Item
<1> HIDE DEF B, D, entry
<1>9. \A id : id \in DOMAIN B <=> HasId(P, id) \/ HasId(I, id)
    BY <1>4, <1>5
<1> QED
    BY <1>5, <1>7, <1>8, <1>9 DEF B, Reflects

\* The book with one more id bound, as the ledger binds it.
Bound(B, q, result) ==
    [id \in DOMAIN B \cup {q.req_id} |-> IF id = q.req_id THEN Item(q, result) ELSE B[id]]

\* Two books with the same entries are the same.
LEMMA BookSame ==
    ASSUME NEW B, B = [id \in DOMAIN B |-> B[id]], NEW C, C = [id \in DOMAIN C |-> C[id]],
           DOMAIN C = DOMAIN B, \A id \in DOMAIN B : C[id] = B[id]
    PROVE  C = B
    OBVIOUS

\* Where the histories grow the book keeps its items.
LEMMA BookKeeps ==
    ASSUME NEW P, NEW I, NEW X, NEW Y, NEW B, Reflects(B, P, I), NEW C, Reflects(C, X, Y),
           \A i \in 1 .. Len(P) : i \in 1 .. Len(X) /\ X[i] = P[i],
           \A i \in 1 .. Len(I) : i \in 1 .. Len(Y) /\ Y[i] = I[i],
           NEW id \in DOMAIN B
    PROVE  C[id] = B[id]
<1>1. CASE HasId(P, id)
  <2>1. PICK i \in 1 .. Len(P) : P[i].req_id = id
      BY <1>1 DEF HasId
  <2>2. i \in 1 .. Len(X) /\ X[i] = P[i]
      BY <2>1
  <2>3. B[P[i].req_id] = Item(P[i], "Processed") /\ C[X[i].req_id] = Item(X[i], "Processed")
      BY <2>1, <2>2 DEF Reflects
  <2> QED
      BY <2>1, <2>2, <2>3
<1>2. CASE HasId(I, id)
  <2>1. PICK i \in 1 .. Len(I) : I[i].req_id = id
      BY <1>2 DEF HasId
  <2>2. i \in 1 .. Len(Y) /\ Y[i] = I[i]
      BY <2>1
  <2>3. /\ B[I[i].req_id] = Item(I[i], "InsufficientFunds")
        /\ C[Y[i].req_id] = Item(Y[i], "InsufficientFunds")
      BY <2>1, <2>2 DEF Reflects
  <2> QED
      BY <2>1, <2>2, <2>3
<1> QED
    BY <1>1, <1>2 DEF Reflects

\* Executing an update under a new id binds the id.
LEMMA BookExecutes ==
    ASSUME NEW b, NEW P \in Seq(Request), NEW I \in Seq(Request), SoundBook(b, P, I),
           NEW q \in Request, ~HasId(P, q.req_id), ~HasId(I, q.req_id)
    PROVE  BookOf(Record(P, q), I) = Bound(BookOf(P, I), q, "Processed")
<1> DEFINE rec == [q EXCEPT !.status = "Processed"]
           B == BookOf(P, I)
           C == BookOf(Record(P, q), I)
           X == Record(P, q)
<1>1. /\ rec \in Request /\ rec.req_id = q.req_id /\ Content(rec) = Content(q)
      /\ X = Append(P, rec)
    BY DEF Request, Statuses, Record, Content
<1>2. Reflects(B, P, I)
    BY BookEntry
<1>3. Reflects(C, X, I)
  <2>1. X \in Seq(Request) /\ SoundBook(b, X, I)
      BY SoundExecution, RecordType
  <2> QED
      BY <2>1, BookEntry
<1>4. \A id : HasId(X, id) <=> HasId(P, id) \/ id = q.req_id
    BY RecordId
<1> HIDE DEF rec
<1>5. /\ \A i \in 1 .. Len(P) : i \in 1 .. Len(X) /\ X[i] = P[i]
      /\ Len(P) + 1 \in 1 .. Len(X) /\ X[Len(P) + 1] = rec
    BY <1>1, AddedEntry
<1> HIDE DEF B, C, X
<1>6. DOMAIN C = DOMAIN B \cup {q.req_id}
    BY <1>2, <1>3, <1>4 DEF Reflects
<1>7. C[rec.req_id] = Item(rec, "Processed")
    BY <1>3, <1>5 DEF Reflects
<1>8. C[q.req_id] = Item(q, "Processed")
    BY <1>1, <1>7 DEF Item
<1>9. \A id \in DOMAIN B : C[id] = B[id]
    BY <1>2, <1>3, <1>5, BookKeeps
<1>10. C = [id \in DOMAIN C |-> C[id]]
    BY <1>3 DEF Reflects
<1>11. C = Bound(B, q, "Processed")
    BY <1>6, <1>8, <1>9, <1>10 DEF Bound
<1> QED
    BY <1>11 DEF B, C, X

\* Refusing one under a new id binds it too, and refusing it again changes nothing.
LEMMA BookRefuses ==
    ASSUME NEW b, NEW P \in Seq(Request), NEW I \in Seq(Request), SoundBook(b, P, I),
           NEW q \in Request, Draws(b, q), ~HasId(P, q.req_id),
           Alike(I, q) \/ ~HasId(I, q.req_id)
    PROVE  /\ ~HasId(I, q.req_id) =>
                BookOf(P, Append(I, q)) = Bound(BookOf(P, I), q, "InsufficientFunds")
           /\ Alike(I, q) => BookOf(P, Append(I, q)) = BookOf(P, I)
<1> DEFINE B == BookOf(P, I)
           X == Append(I, q)
           C == BookOf(P, Append(I, q))
<1>1. Reflects(B, P, I)
    BY BookEntry
<1>2. Reflects(C, P, X)
  <2>1. X \in Seq(Request) /\ SoundBook(b, P, X)
      BY SoundRefusal, AddedEntry
  <2> QED
      BY <2>1, BookEntry
<1>3. \A id : HasId(X, id) <=> HasId(I, id) \/ id = q.req_id
    BY AppendId
<1>4. /\ \A i \in 1 .. Len(I) : i \in 1 .. Len(X) /\ X[i] = I[i]
      /\ Len(I) + 1 \in 1 .. Len(X) /\ X[Len(I) + 1] = q
    BY AddedEntry
<1> HIDE DEF B, C, X
<1>5. \A id \in DOMAIN B : C[id] = B[id]
    BY <1>1, <1>2, <1>4, BookKeeps
<1>6. DOMAIN C = DOMAIN B \cup {q.req_id}
    BY <1>1, <1>2, <1>3 DEF Reflects
<1>7. C[q.req_id] = Item(q, "InsufficientFunds")
    BY <1>2, <1>4 DEF Reflects
<1>8. C = [id \in DOMAIN C |-> C[id]] /\ B = [id \in DOMAIN B |-> B[id]]
    BY <1>1, <1>2 DEF Reflects
<1>9. C = Bound(B, q, "InsufficientFunds")
    BY <1>5, <1>6, <1>7, <1>8 DEF Bound
<1>10. ASSUME Alike(I, q) PROVE C = B
  <2>1. q.req_id \in DOMAIN B
      BY <1>1, <1>10 DEF Alike, HasId, Reflects
  <2>2. DOMAIN C = DOMAIN B
      BY <1>6, <2>1
  <2> QED
      BY <1>5, <1>8, <2>2, BookSame
<1> QED
    BY <1>9, <1>10 DEF B, C, X

\* The verdict of a book on a request under an id it binds.
Ruling(B, q) ==
    IF B[q.req_id].content = Content(q) THEN B[q.req_id].outcome
    ELSE "InconsistentWithHistory"

\* The book rules as its histories say.
LEMMA BookRules ==
    ASSUME NEW P, NEW I, NEW B, Reflects(B, P, I), NEW q
    PROVE  /\ q.req_id \in DOMAIN B <=> HasId(P, q.req_id) \/ HasId(I, q.req_id)
           /\ Alike(P, q) => q.req_id \in DOMAIN B /\ Ruling(B, q) = "Processed"
           /\ Alike(I, q) => q.req_id \in DOMAIN B /\ Ruling(B, q) = "InsufficientFunds"
           /\ Unlike(P, q) \/ Unlike(I, q) =>
                 q.req_id \in DOMAIN B /\ Ruling(B, q) = "InconsistentWithHistory"
<1>1. q.req_id \in DOMAIN B <=> HasId(P, q.req_id) \/ HasId(I, q.req_id)
    BY DEF Reflects
<1>2. ASSUME NEW e, NEW result, B[e.req_id] = Item(e, result), e.req_id = q.req_id
      PROVE  Ruling(B, q) = IF Content(e) = Content(q) THEN result
                                                       ELSE "InconsistentWithHistory"
    BY <1>2 DEF Ruling, Item
<1>3. ASSUME NEW i \in 1 .. Len(P), P[i].req_id = q.req_id
      PROVE  /\ q.req_id \in DOMAIN B
             /\ Ruling(B, q) = IF Content(P[i]) = Content(q) THEN "Processed"
                                                             ELSE "InconsistentWithHistory"
  <2>1. B[P[i].req_id] = Item(P[i], "Processed") /\ HasId(P, q.req_id)
      BY <1>3 DEF Reflects, HasId
  <2> QED
      BY <1>1, <1>2, <1>3, <2>1
<1>4. ASSUME NEW i \in 1 .. Len(I), I[i].req_id = q.req_id
      PROVE  /\ q.req_id \in DOMAIN B
             /\ Ruling(B, q) = IF Content(I[i]) = Content(q) THEN "InsufficientFunds"
                                                             ELSE "InconsistentWithHistory"
  <2>1. B[I[i].req_id] = Item(I[i], "InsufficientFunds") /\ HasId(I, q.req_id)
      BY <1>4 DEF Reflects, HasId
  <2> QED
      BY <1>1, <1>2, <1>4, <2>1
<1> QED
    BY <1>1, <1>3, <1>4 DEF Alike, Unlike

--------------------------------------------------------------------------------
\* The verdicts that streams carry.

\* The reader of a judged stream agrees with its first message.
LEMMA StreamFirst ==
    ASSUME NEW b, NEW P \in Seq(Request), NEW I \in Seq(Request),
           NEW stream \in Seq(Forwards), stream # <<>>, StreamJudged(b, P, I, stream)
    PROVE  /\ Judges(b, P, I, Head(stream).req)
           /\ StreamJudged(b, Filing("Need", P, Head(stream)),
                           Filing("InsufficientFunds", I, Head(stream)), Tail(stream))
<1> DEFINE X == Filing("Need", P, Head(stream))
           Y == Filing("InsufficientFunds", I, Head(stream))
           before(i) == SubSeq(stream, 1, i - 1)
           later(i) == SubSeq(Tail(stream), 1, i - 1)
<1>1. Head(stream) \in Forwards /\ 1 \in 1 .. Len(stream) /\ stream[1] = Head(stream)
    OBVIOUS
<1>2. Judges(b, P, I, Head(stream).req)
  <2>1. before(1) = <<>>
      OBVIOUS
  <2>2. /\ AfterReading("Need", P, <<>>) = P
        /\ AfterReading("InsufficientFunds", I, <<>>) = I
      BY EmptyReading
  <2>3. Judges(b, AfterReading("Need", P, before(1)),
                  AfterReading("InsufficientFunds", I, before(1)), stream[1].req)
      BY <1>1 DEF StreamJudged
  <2> QED
      BY <1>1, <2>1, <2>2, <2>3
<1>3. ASSUME NEW i \in 1 .. Len(Tail(stream))
      PROVE  Judges(b, AfterReading("Need", X, later(i)),
                       AfterReading("InsufficientFunds", Y, later(i)), Tail(stream)[i].req)
  <2>1. /\ i + 1 \in 1 .. Len(stream) /\ Tail(stream)[i] = stream[i + 1]
        /\ i \in 1 .. Len(stream) /\ (i + 1) - 1 = i
      OBVIOUS
  <2> DEFINE part == before(i + 1)
  <2>2. part = SubSeq(stream, 1, i)
      BY <2>1
  <2>3. /\ part \in Seq(Forwards) /\ part # <<>> /\ Head(part) = Head(stream)
        /\ Tail(part) = later(i)
      BY <2>1, <2>2
  <2>4. Judges(b, AfterReading("Need", P, part),
                  AfterReading("InsufficientFunds", I, part), stream[i + 1].req)
      BY <2>1 DEF StreamJudged
  <2> HIDE DEF part, before, later
  <2>5. /\ AfterReading("Need", P, part) = AfterReading("Need", X, later(i))
        /\ AfterReading("InsufficientFunds", I, part)
             = AfterReading("InsufficientFunds", Y, later(i))
      BY <2>3, ReadingFirst
  <2> QED
      BY <2>1, <2>4, <2>5
<1> QED
    BY <1>2, <1>3 DEF StreamJudged

\* A judged stream stays so when a message follows that its reader will agree with.
LEMMA StreamLast ==
    ASSUME NEW b, NEW P \in Seq(Request), NEW I \in Seq(Request),
           NEW stream \in Seq(Forwards), StreamJudged(b, P, I, stream), NEW f \in Forwards,
           Judges(b, AfterReading("Need", P, stream),
                     AfterReading("InsufficientFunds", I, stream), f.req)
    PROVE  StreamJudged(b, P, I, Append(stream, f))
<1> DEFINE new == Append(stream, f)
           before(i) == SubSeq(new, 1, i - 1)
<1>1. /\ Len(new) = Len(stream) + 1 /\ Len(stream) \in Nat
      /\ new[Len(stream) + 1] = f
      /\ \A i \in 1 .. Len(stream) : new[i] = stream[i]
      /\ \A i \in 1 .. Len(stream) : before(i) = SubSeq(stream, 1, i - 1)
      /\ before(Len(stream) + 1) = stream
    OBVIOUS
<1> HIDE DEF new
<1>2. ASSUME NEW i \in 1 .. Len(new)
      PROVE  Judges(b, AfterReading("Need", P, before(i)),
                       AfterReading("InsufficientFunds", I, before(i)), new[i].req)
  <2>1. CASE i \in 1 .. Len(stream)
    <3>1. before(i) = SubSeq(stream, 1, i - 1) /\ new[i] = stream[i]
        BY <1>1, <2>1
    <3>2. Judges(b, AfterReading("Need", P, SubSeq(stream, 1, i - 1)),
                    AfterReading("InsufficientFunds", I, SubSeq(stream, 1, i - 1)),
                    stream[i].req)
        BY <2>1 DEF StreamJudged
    <3> HIDE DEF before
    <3> QED
        BY <3>1, <3>2
  <2>2. CASE i = Len(stream) + 1
    <3>1. before(i) = stream /\ new[i] = f
        BY <1>1, <2>2
    <3> HIDE DEF before
    <3> QED
        BY <3>1
  <2> QED
      BY <1>1, <2>1, <2>2
<1>3. StreamJudged(b, P, I, new)
    BY <1>2 DEF StreamJudged
<1> QED
    BY <1>3 DEF new

\* The head judges an update as its histories do.
LEMMA HeadVerdict ==
    ASSUME FreshCopies, RightBanks, HistoriesExplain, BooksSound, NEW s \in Servers,
           NEW m \in LettersIn(to_server), NEW r \in Request, HeadHandles(s, m, r)
    PROVE  /\ Judges(Bank(s), processed_trans[s], insuf_funds_trans[s], r)
           /\ SameAsk(r, m.req) /\ r \in Reached(Bank(s)) /\ m.req \in Reached(Bank(s))
           /\ NameOf(r) = NameOf(m.req)
<1> DEFINE P == processed_trans[s]
           I == insuf_funds_trans[s]
           q == m.req
           judged == ProcessUpdate(Bank(s), balance_map[s], CheckSameReq(P, I, q), q)
<1>1. /\ m.to = s /\ q.type \in Updates
      /\ r = [q EXCEPT !.status = judged.status, !.req_seq = req_seq[s] + 1]
    BY DEF HeadHandles
<1>2. /\ TypeOK /\ P \in Seq(Request) /\ I \in Seq(Request)
      /\ balance_map[s] \in [Accounts -> Int]
    BY DEF FreshCopies, HeadFrame, TypeOK, ServerTypeOK
<1>3. q \in Request /\ m \in DOMAIN to_server /\ m.op = "REQUEST"
    BY <1>2, UnderWayMember
<1>4. q \in Reached(Bank(s))
    BY <1>1, <1>3 DEF RightBanks, RightMail
<1>5. r \in Reached(Bank(s))
    BY <1>1, <1>4, JudgedReached
<1>6. SameAsk(r, q) /\ NameOf(r) = NameOf(q) /\ r.status = judged.status
  <2> HIDE DEF judged, q
  <2> QED
      BY <1>1, <1>3 DEF SameAsk, NameOf, Request
<1>7. \A a \in Accounts : balance_map[s][a] = BalanceOf(Bank(s), P, a)
    BY <1>2, ExplainedNow DEF HistoriesExplain
<1>8. SoundBook(Bank(s), P, I)
    BY DEF BooksSound
<1> HIDE DEF P, I, q
<1>9. Judges(Bank(s), P, I, r)
    BY <1>1, <1>2, <1>3, <1>6, <1>7, <1>8, HeadJudges
<1> QED
    BY <1>4, <1>5, <1>6, <1>9 DEF P, I, q

\* A server passes on what its own histories have judged.
LEMMA PassedVerdict ==
    ASSUME FreshCopies, RightBanks, HistoriesExplain, BooksSound, StreamsJudged,
           [Next]_vars, NEW p, NEW s, <<p, s>> \in Neighbours,
           NEW f \in Forwards, PassesOn(p, s, f)
    PROVE  Judges(Bank(p), processed_trans[p], insuf_funds_trans[p], f.req)
<1>1. TypeOK /\ TopologyInit
    BY DEF FreshCopies, HeadFrame
<1>2. p \in Servers /\ s \in Servers /\ my_type[p] \in {"HEAD", "INTER"} /\ s = Next1(p)
    BY <1>1, NeighbourPair
<1>3. /\ processed_trans[p] \in Seq(Request) /\ insuf_funds_trans[p] \in Seq(Request)
      /\ from_pre[p] \in Seq(Forwards) /\ from_pre[s] \in Seq(Forwards)
      /\ from_pre \in [Servers -> Seq(Forwards)]
      /\ req_seq \in [Servers -> Nat]
    BY <1>1, <1>2 DEF TypeOK, ServerTypeOK
<1>4. CASE my_type[p] = "INTER"
  <2>1. from_pre[p] # <<>> /\ f = Head(from_pre[p])
      BY <1>4 DEF PassesOn
  <2>2. StreamJudged(Bank(p), processed_trans[p], insuf_funds_trans[p], from_pre[p])
      BY <1>2 DEF StreamsJudged
  <2> QED
      BY <1>3, <2>1, <2>2, StreamFirst
<1>5. CASE my_type[p] = "HEAD"
  <2>1. req_seq'[p] = req_seq[p] + 1
      BY <1>5 DEF PassesOn
  <2>2. req_seq' # req_seq
      BY <1>2, <1>3, <2>1
  <2>3. ASSUME NEW x \in Servers, ReceiveStep(x) PROVE RecUpdate(x)
    <3>1. ~RecQuery(x) /\ ~RecUnknown(x) /\ ~RecForward(x) /\ ~RecAck(x) /\ ~RecOtherBank(x)
        BY <2>2 DEF RecQuery, RecUnknown, RecForward, RecAck, RecOtherBank, serverState
    <3> QED
        BY <2>3, <3>1 DEF ReceiveStep, RecClient
  <2>4. ASSUME NEW c \in Clients PROVE ~ClientStep(c)
      BY <2>2 DEF ClientStep, StartClient, RecvMsg, RecvReply, RecvSetHeadTail,
                  CheckReceive, serverState
  <2>5. ~Lose /\ ~UNCHANGED vars
      BY <2>2 DEF Lose, vars, serverState
  <2>6. PICK x \in Servers : RecUpdate(x)
      BY <2>3, <2>4, <2>5 DEF Next, ServerStep
  <2>7. PICK m \in LettersIn(to_server), r \in Request : HeadHandles(x, m, r)
      BY <2>6, RecUpdateFresh
  <2>8. x = p
    <3>1. req_seq' = [req_seq EXCEPT ![x] = @ + 1]
        BY <2>7 DEF HeadHandles
    <3> QED
        BY <1>2, <1>3, <2>1, <3>1
  <2>9. from_pre'[s] = Append(from_pre[s], Forwarding(r))
    <3>1. from_pre' = [from_pre EXCEPT ![s] = Append(@, Forwarding(r))]
        BY <1>2, <1>5, <2>7, <2>8 DEF HeadHandles
    <3> QED
        BY <1>2, <1>3, <3>1
  <2>10. f = Forwarding(r)
    <3>1. Append(from_pre[s], f) = Append(from_pre[s], Forwarding(r))
        BY <2>9 DEF PassesOn
    <3>2. Forwarding(r) \in Forwards
        BY DEF Forwards, Forwarding
    <3> HIDE DEF Forwarding
    <3> QED
        BY <1>3, <3>1, <3>2
  <2>11. Judges(Bank(p), processed_trans[p], insuf_funds_trans[p], r)
      BY <1>2, <2>7, <2>8, HeadVerdict
  <2> QED
      BY <2>10, <2>11 DEF Forwarding
<1> QED
    BY <1>2, <1>4, <1>5

\* The books stay sound, and the streams judged.
LEMMA JudgedStep ==
    ASSUME NoResends, FreshCopies, RightBanks, HistoriesExplain, UpdatePropagation,
           BooksSound, StreamsJudged, [Next]_vars
    PROVE  BooksSound' /\ StreamsJudged'
<1> DEFINE P(s) == processed_trans[s]
           I(s) == insuf_funds_trans[s]
<1>1. TypeOK /\ TopologyInit /\ HeadFrame /\ HeadFrame'
    BY FreshCopiesStep DEF FreshCopies, HeadFrame
<1>2. ASSUME NEW s \in Servers
      PROVE  /\ P(s) \in Seq(Request) /\ I(s) \in Seq(Request) /\ from_pre[s] \in Seq(Forwards)
             /\ SoundBook(Bank(s), P(s), I(s))
             /\ StreamJudged(Bank(s), P(s), I(s), from_pre[s])
    BY <1>1 DEF TypeOK, ServerTypeOK, BooksSound, StreamsJudged
<1>3. ASSUME NEW s \in Servers, IsFirst(s)
      PROVE  /\ SoundBook(Bank(s), P(s)', I(s)')
             /\ StreamJudged(Bank(s), P(s)', I(s)', from_pre'[s])
  <2>1. Heads(s) /\ Heads(s)'
      BY <1>1, <1>3, Places, TopologyFixed DEF Heads, topology
  <2>2. from_pre'[s] = <<>>
      BY <1>1, <2>1 DEF HeadFrame, HeadsReadNoStream
  <2>3. StreamJudged(Bank(s), P(s)', I(s)', from_pre'[s])
      BY <2>2 DEF StreamJudged
  <2>4. CASE RecUpdate(s)
    <3>1. PICK m \in LettersIn(to_server), r \in Request : HeadHandles(s, m, r)
        BY <2>4, RecUpdateFresh
    <3>2. Judges(Bank(s), P(s), I(s), r)
        BY <3>1, HeadVerdict
    <3>3. /\ P(s)' = Filing("Need", P(s), Forwarding(r))
          /\ I(s)' = Filing("InsufficientFunds", I(s), Forwarding(r))
        BY <1>1, <3>1 DEF HeadHandles, TypeOK, ServerTypeOK
    <3>4. Forwarding(r) \in Forwards /\ Forwarding(r).req = r
        BY DEF Forwarding, Forwards
    <3> HIDE DEF Forwarding
    <3> QED
        BY <1>2, <2>3, <3>2, <3>3, <3>4, SoundFiling
  <2>5. CASE ~RecUpdate(s)
    <3>1. P(s)' = P(s) /\ I(s)' = I(s)
        BY <1>1, <2>1, <2>5, OtherStepsAtHead
    <3> QED
        BY <1>2, <2>3, <3>1
  <2> QED
      BY <2>4, <2>5
<1>4. ASSUME NEW s \in Servers, ~IsFirst(s)
      PROVE  /\ SoundBook(Bank(s), P(s)', I(s)')
             /\ StreamJudged(Bank(s), P(s)', I(s)', from_pre'[s])
  <2> DEFINE p == Prev1(s)
  <2>1. p \in Servers /\ <<p, s>> \in Neighbours /\ Bank(p) = Bank(s)
      BY <1>1, <1>4, Places DEF Neighbours
  <2> HIDE DEF p
  <2>2. CASE SecondRests(s) /\ from_pre'[s] = from_pre[s]
      BY <1>2, <2>2 DEF SecondRests
  <2>3. CASE SecondRests(s) /\ \E f \in Forwards : PassesOn(p, s, f)
    <3>1. PICK f \in Forwards : PassesOn(p, s, f)
        BY <2>3
    <3>2. Judges(Bank(s), P(p), I(p), f.req)
        BY <2>1, <3>1, PassedVerdict
    <3>3. /\ P(p) = AfterReading("Need", P(s), from_pre[s])
          /\ I(p) = AfterReading("InsufficientFunds", I(s), from_pre[s])
        BY <2>1 DEF UpdatePropagation
    <3>4. from_pre'[s] = Append(from_pre[s], f)
        BY <3>1 DEF PassesOn
    <3>5. StreamJudged(Bank(s), P(s), I(s), Append(from_pre[s], f))
        BY <1>2, <3>2, <3>3, StreamLast
    <3> QED
        BY <1>2, <2>3, <3>4, <3>5 DEF SecondRests
  <2>4. CASE Reads(s)
    <3>1. /\ from_pre[s] # <<>> /\ from_pre'[s] = Tail(from_pre[s])
          /\ P(s)' = Filing("Need", P(s), Head(from_pre[s]))
          /\ I(s)' = Filing("InsufficientFunds", I(s), Head(from_pre[s]))
        BY <2>4 DEF Reads
    <3>2. /\ Judges(Bank(s), P(s), I(s), Head(from_pre[s]).req)
          /\ StreamJudged(Bank(s), P(s)', I(s)', from_pre'[s])
        BY <1>2, <3>1, StreamFirst
    <3>3. Head(from_pre[s]) \in Forwards
        BY <1>2, <3>1
    <3> QED
        BY <1>2, <3>1, <3>2, <3>3, SoundFiling
  <2> QED
      BY <2>1, <2>2, <2>3, <2>4, NeighbourStep
<1> QED
    BY <1>3, <1>4 DEF BooksSound, StreamsJudged, Bank

--------------------------------------------------------------------------------
\* What acknowledgements of the payee's bank report.

\* A server files at most one message in a step, in both histories.
FilesOne(s) ==
    \/ /\ processed_trans'[s] = processed_trans[s]
       /\ insuf_funds_trans'[s] = insuf_funds_trans[s]
    \/ \E f \in Forwards :
          /\ processed_trans'[s] = Filing("Need", processed_trans[s], f)
          /\ insuf_funds_trans'[s] = Filing("InsufficientFunds", insuf_funds_trans[s], f)

\* That is all that happens to the histories of a server.
LEMMA FilesOneStep ==
    ASSUME NoResends, FreshCopies, [Next]_vars, NEW s \in Servers
    PROVE  FilesOne(s)
<1>1. TypeOK /\ TopologyInit /\ HeadFrame
    BY DEF FreshCopies, HeadFrame
<1>2. CASE IsFirst(s)
  <2>1. Heads(s)
      BY <1>1, <1>2, Places
  <2>2. CASE RecUpdate(s)
    <3>1. PICK m \in LettersIn(to_server), r \in Request : HeadHandles(s, m, r)
        BY <2>2, RecUpdateFresh
    <3>2. /\ processed_trans'[s] = Filing("Need", processed_trans[s], Forwarding(r))
          /\ insuf_funds_trans'[s]
               = Filing("InsufficientFunds", insuf_funds_trans[s], Forwarding(r))
        BY <1>1, <3>1 DEF HeadHandles, TypeOK, ServerTypeOK
    <3>3. Forwarding(r) \in Forwards
        BY DEF Forwarding, Forwards
    <3> QED
        BY <3>2, <3>3 DEF FilesOne
  <2>3. CASE ~RecUpdate(s)
      BY <1>1, <2>1, <2>3, OtherStepsAtHead DEF FilesOne
  <2> QED
      BY <2>2, <2>3
<1>3. CASE ~IsFirst(s)
  <2>1. <<Prev1(s), s>> \in Neighbours
      BY <1>1, <1>3, Places DEF Neighbours
  <2>2. SecondRests(s) \/ Reads(s)
      BY <2>1, NeighbourStep
  <2>3. from_pre[s] # <<>> => Head(from_pre[s]) \in Forwards
      BY <1>1 DEF TypeOK, ServerTypeOK
  <2> QED
      BY <2>2, <2>3 DEF SecondRests, Reads, FilesOne
<1> QED
    BY <1>2, <1>3

\* What the tail of a bank bears out it bears out for good.
LEMMA ConfirmedStays ==
    ASSUME NoResends, FreshCopies, [Next]_vars, NEW b, NEW q, Confirmed(b, q)
    PROVE  Confirmed(b, q)'
<1> DEFINE t == LastServer(b)
<1>1. b \in Banks /\ t \in Servers
    BY ChainLengthAssumption DEF Confirmed, LastServer, Servers
<1>2. processed_trans[t] \in Seq(Request) /\ insuf_funds_trans[t] \in Seq(Request)
    BY <1>1 DEF FreshCopies, HeadFrame, TypeOK, ServerTypeOK
<1>3. FilesOne(t)
    BY <1>1, FilesOneStep
<1> HIDE DEF t
<1>4. /\ Alike(processed_trans[t], q) => Alike(processed_trans'[t], q)
      /\ Unlike(processed_trans[t], q) => Unlike(processed_trans'[t], q)
      /\ Unlike(insuf_funds_trans[t], q) => Unlike(insuf_funds_trans'[t], q)
    BY <1>2, <1>3, AlikeStays DEF FilesOne
<1> QED
    BY <1>4 DEF Confirmed, t

\* A transfer that arrives at the payee's tail is confirmed when it is filed.
LEMMA FiledConfirmed ==
    ASSUME TypeOK, NEW s \in Servers, IsLast(s), NEW f \in Forwards,
           Judges(Bank(s), processed_trans[s], insuf_funds_trans[s], f.req),
           Receives(s, f.req),
           processed_trans'[s] = Filing("Need", processed_trans[s], f),
           insuf_funds_trans'[s] = Filing("InsufficientFunds", insuf_funds_trans[s], f)
    PROVE  Confirmed(Bank(s), f.req)'
<1>1. Bank(s) \in Banks /\ LastServer(Bank(s)) = s
    BY DEF IsLast, Servers, Bank
<1>2. processed_trans[s] \in Seq(Request) /\ insuf_funds_trans[s] \in Seq(Request)
    BY DEF TypeOK, ServerTypeOK
<1> DEFINE X == Filing("Need", processed_trans[s], f)
           Y == Filing("InsufficientFunds", insuf_funds_trans[s], f)
<1>3. \/ Outcome(f.req) = "Processed" /\ Alike(X, f.req)
      \/ Outcome(f.req) = "InsufficientFunds" /\ Draws(Bank(s), f.req) /\ Alike(Y, f.req)
      \/ Outcome(f.req) = "InconsistentWithHistory" /\ (Unlike(X, f.req) \/ Unlike(Y, f.req))
    BY <1>2, FiledVerdict
<1>4. ~Draws(Bank(s), f.req)
    BY DEF Receives, Draws
<1> HIDE DEF X, Y
<1>5. \/ Outcome(f.req) = "Processed" /\ Alike(X, f.req)
      \/ Outcome(f.req) = "InconsistentWithHistory" /\ (Unlike(X, f.req) \/ Unlike(Y, f.req))
    BY <1>3, <1>4
<1>6. processed_trans'[s] = X /\ insuf_funds_trans'[s] = Y
    BY DEF X, Y
<1> QED
    BY <1>1, <1>5, <1>6 DEF Confirmed

\* A list holds a request.
Holds(list, q) == \E i \in 1 .. Len(list) : list[i] = q

\* Acknowledgements that were there stay confirmed; new ones have to be.
LEMMA AcksStep ==
    ASSUME NoResends, FreshCopies, AcksConfirmed, [Next]_vars,
           \A s \in Servers : \A q : Holds(from_next'[s], q) =>
              \/ \E t \in Servers : Bank(t) = Bank(s) /\ Holds(from_next[t], q)
              \/ Receives(s, q) => Confirmed(Bank(s), q)',
           \A m : m \in Acks(to_server') =>
              m \in Acks(to_server) \/ Confirmed(m.req.dest_bank_id, m.req)'
    PROVE  AcksConfirmed'
<1>1. ASSUME NEW s \in Servers, NEW q, Holds(from_next'[s], q), Receives(s, q)
      PROVE  Confirmed(Bank(s), q)'
  <2>1. CASE \E t \in Servers : Bank(t) = Bank(s) /\ Holds(from_next[t], q)
    <3>1. PICK t \in Servers : Bank(t) = Bank(s) /\ Holds(from_next[t], q)
        BY <2>1
    <3>2. Receives(t, q)
        BY <1>1, <3>1 DEF Receives
    <3>3. Confirmed(Bank(s), q)
        BY <3>1, <3>2 DEF AcksConfirmed, Holds
    <3> QED
        BY <3>3, ConfirmedStays
  <2> QED
      BY <1>1, <2>1
<1>2. ASSUME NEW m, m \in Acks(to_server')
      PROVE  Confirmed(m.req.dest_bank_id, m.req)'
  <2>1. CASE m \in Acks(to_server)
    <3>1. Confirmed(m.req.dest_bank_id, m.req)
        BY <2>1 DEF AcksConfirmed
    <3> QED
        BY <3>1, ConfirmedStays
  <2> QED
      BY <1>2, <2>1
<1>3. \A s \in Servers : \A i \in 1 .. Len(from_next'[s]) :
         Receives(s, from_next'[s][i]) => Confirmed(Bank(s), from_next[s][i])'
  <2> SUFFICES ASSUME NEW s \in Servers, NEW i \in 1 .. Len(from_next'[s]),
                      Receives(s, from_next'[s][i])
               PROVE  Confirmed(Bank(s), from_next[s][i])'
      OBVIOUS
  <2>1. PICK q : q = from_next'[s][i]
      OBVIOUS
  <2>2. Confirmed(Bank(s), q)'
      BY <1>1, <2>1 DEF Holds
  <2> QED
      BY <2>1, <2>2 DEF Confirmed
<1> QED
    BY <1>2, <1>3 DEF AcksConfirmed, Receives

\* A list of acknowledgements has got one more.
OneAck(longer, streams, t, q) == longer = [streams EXCEPT ![t] = Append(@, q)]

\* One is added to a list of acknowledgements.
LEMMA HoldsPushed ==
    ASSUME NEW streams \in [Servers -> Seq(Request)], NEW t \in Servers, NEW q \in Request,
           NEW longer, OneAck(longer, streams, t, q)
    PROVE  \A s \in Servers : \A x : Holds(longer[s], x) =>
              Holds(streams[s], x) \/ (s = t /\ x = q)
<1>1. \A i \in 1 .. Len(Append(streams[t], q)) :
         \/ i \in 1 .. Len(streams[t]) /\ Append(streams[t], q)[i] = streams[t][i]
         \/ Append(streams[t], q)[i] = q
  <2>1. streams[t] \in Seq(Request)
      OBVIOUS
  <2> QED
      BY <2>1, AddedEntry
<1>2. longer[t] = Append(streams[t], q) /\ \A s \in Servers \ {t} : longer[s] = streams[s]
    BY DEF OneAck
<1> QED
    BY <1>1, <1>2 DEF Holds

\* The first is taken from a list of acknowledgements.
LEMMA HoldsPopped ==
    ASSUME NEW streams \in [Servers -> Seq(Request)], NEW t \in Servers, streams[t] # <<>>
    PROVE  /\ Pop(streams, t) \in [Servers -> Seq(Request)]
           /\ \A s \in Servers : \A x : Holds(Pop(streams, t)[s], x) => Holds(streams[s], x)
           /\ Holds(streams[t], Head(streams[t])) /\ Head(streams[t]) \in Request
<1>1. /\ Tail(streams[t]) \in Seq(Request)
      /\ \A i \in 1 .. Len(Tail(streams[t])) :
            i + 1 \in 1 .. Len(streams[t]) /\ Tail(streams[t])[i] = streams[t][i + 1]
      /\ 1 \in 1 .. Len(streams[t]) /\ Head(streams[t]) = streams[t][1]
      /\ Head(streams[t]) \in Request
  <2>1. streams[t] \in Seq(Request)
      OBVIOUS
  <2> QED
      BY <2>1
<1>2. /\ Pop(streams, t) \in [Servers -> Seq(Request)]
      /\ Pop(streams, t)[t] = Tail(streams[t])
      /\ \A s \in Servers \ {t} : Pop(streams, t)[s] = streams[s]
    BY <1>1 DEF Pop
<1>3. ASSUME NEW s \in Servers, NEW x, Holds(Pop(streams, t)[s], x) PROVE Holds(streams[s], x)
  <2> DEFINE new == Pop(streams, t)[s]
  <2>1. PICK i \in 1 .. Len(new) : new[i] = x
      BY <1>3 DEF Holds
  <2>2. CASE s # t
      BY <1>2, <1>3, <2>2
  <2>3. CASE s = t
    <3>1. new = Tail(streams[t])
        BY <1>2, <2>3
    <3>2. i + 1 \in 1 .. Len(streams[t]) /\ x = streams[t][i + 1]
        BY <1>1, <2>1, <3>1
    <3> QED
        BY <2>3, <3>2 DEF Holds
  <2> QED
      BY <2>2, <2>3
<1>4. Holds(streams[t], Head(streams[t]))
    BY <1>1 DEF Holds
<1> QED
    BY <1>1, <1>2, <1>3, <1>4


\* The handler of a head confirms what it acknowledges at once.
LEMMA RecUpdateConfirms ==
    ASSUME NoResends, FreshCopies, RightBanks, HistoriesExplain, BooksSound, AcksConfirmed,
           [Next]_vars, NEW s \in Servers, RecUpdate(s)
    PROVE  AcksConfirmed'
<1>1. TypeOK /\ TopologyInit
    BY DEF FreshCopies, HeadFrame
<1>2. PICK m \in LettersIn(to_server), r \in Request : HeadHandles(s, m, r)
    BY RecUpdateFresh
<1>3. /\ Judges(Bank(s), processed_trans[s], insuf_funds_trans[s], r)
      /\ from_next' = from_next
    BY <1>2, HeadVerdict DEF HeadHandles
<1> DEFINE ships == my_type[s] = "HEAD_TAIL" /\ PaysAbroad(s, r)
           settles == my_type[s] = "HEAD_TAIL" /\ ~ships /\ Receives(s, r)
           mails == CASE ships -> ShipTransfer(s, r)
                      [] settles -> AckTransfer(s, r)
                      [] OTHER -> {}
<1>4. to_server' = Deliver(Take(to_server, m), mails)
    BY <1>2 DEF HeadHandles
<1>5. ASSUME NEW x \in mails, x.op = "TRANS_ACK" PROVE settles /\ x.req = r
    BY <1>5 DEF ShipTransfer, AckTransfer, Mail
<1>6. ASSUME settles PROVE Confirmed(r.dest_bank_id, r)'
  <2>1. IsLast(s) /\ r.dest_bank_id = Bank(s) /\ Receives(s, r)
      BY <1>1, <1>6, Places DEF Receives
  <2> DEFINE f == Forwarding(r)
  <2>2. f \in Forwards /\ f.req = r
      BY DEF Forwarding, Forwards
  <2>3. /\ processed_trans'[s] = Filing("Need", processed_trans[s], f)
        /\ insuf_funds_trans'[s] = Filing("InsufficientFunds", insuf_funds_trans[s], f)
      BY <1>1, <1>2 DEF HeadHandles, TypeOK, ServerTypeOK
  <2> HIDE DEF f
  <2>4. Confirmed(Bank(s), f.req)'
      BY <1>1, <1>3, <2>1, <2>2, <2>3, FiledConfirmed
  <2> QED
      BY <2>1, <2>2, <2>4
<1> HIDE DEF ships, settles, mails
<1>7. ASSUME NEW x, x \in Acks(to_server')
      PROVE  x \in Acks(to_server) \/ Confirmed(x.req.dest_bank_id, x.req)'
  <2>1. x.op = "TRANS_ACK" /\ (x \in DOMAIN to_server \/ x \in mails)
      BY <1>4, <1>7, DeliverProperty, TakeProperty DEF Acks, MailsIn
  <2> QED
      BY <1>5, <1>6, <2>1 DEF Acks, MailsIn
<1>8. \A t \in Servers : \A q : Holds(from_next'[t], q) => Holds(from_next[t], q)
    BY <1>3
<1> QED
    BY <1>7, <1>8, AcksStep

\* The handler of a forwarded request confirms what the payee's tail acknowledges.
LEMMA RecForwardConfirms ==
    ASSUME NoResends, FreshCopies, RightBanks, StreamsJudged, AcksConfirmed,
           [Next]_vars, NEW s \in Servers, RecForward(s)
    PROVE  AcksConfirmed'
<1>1. TypeOK /\ TopologyInit
    BY DEF FreshCopies, HeadFrame
<1>2. PICK q \in Request : Relays(s, q) /\ ~IsFirst(s)
    BY RecForwardFresh
<1> DEFINE ships == my_type[s] = "TAIL" /\ PaysAbroad(s, q)
           closes == my_type[s] = "TAIL" /\ ~ships
           mails == IF ships THEN ShipTransfer(s, q) ELSE {}
           f == Head(from_pre[s])
<1>3. /\ from_pre[s] # <<>> /\ q = f.req
      /\ processed_trans' = [processed_trans EXCEPT ![s] = Filing("Need", @, f)]
      /\ insuf_funds_trans' =
           [insuf_funds_trans EXCEPT ![s] = Filing("InsufficientFunds", @, f)]
      /\ from_next' = IF closes THEN [from_next EXCEPT ![Prev1(s)] = Append(@, q)]
                                ELSE from_next
      /\ to_server' = Deliver(to_server, mails)
    BY <1>2 DEF Relays
<1>4. /\ from_pre[s] \in Seq(Forwards) /\ from_next \in [Servers -> Seq(Request)]
      /\ processed_trans[s] \in Seq(Request) /\ insuf_funds_trans[s] \in Seq(Request)
    BY <1>1 DEF TypeOK, ServerTypeOK
<1>5. f \in Forwards /\ Judges(Bank(s), processed_trans[s], insuf_funds_trans[s], f.req)
    BY <1>3, <1>4, StreamFirst DEF StreamsJudged
<1>6. /\ processed_trans'[s] = Filing("Need", processed_trans[s], f)
      /\ insuf_funds_trans'[s] = Filing("InsufficientFunds", insuf_funds_trans[s], f)
    BY <1>1, <1>3 DEF TypeOK, ServerTypeOK
<1>7. Prev1(s) \in Servers /\ Bank(Prev1(s)) = Bank(s)
    BY <1>1, <1>2, Places
<1>8. ASSUME closes, Receives(Prev1(s), q) PROVE Confirmed(Bank(s), q)'
  <2>1. IsLast(s) /\ Receives(s, q)
      BY <1>1, <1>7, <1>8, Places DEF Receives
  <2> HIDE DEF f
  <2> QED
      BY <1>1, <1>3, <1>5, <1>6, <2>1, FiledConfirmed
<1>9. \A x \in mails : x.op # "TRANS_ACK"
    BY DEF ShipTransfer, Mail
<1> HIDE DEF f, ships, closes, mails
<1>10. \A x : x \in Acks(to_server') => x \in Acks(to_server)
    BY <1>3, <1>9, DeliverProperty DEF Acks, MailsIn
<1>11. ASSUME NEW t \in Servers, NEW x, Holds(from_next'[t], x)
       PROVE  \/ Holds(from_next[t], x)
              \/ Receives(t, x) => Confirmed(Bank(t), x)'
  <2>1. CASE ~closes
      BY <1>3, <1>11, <2>1
  <2>2. CASE closes
    <3>1. OneAck(from_next', from_next, Prev1(s), q)
        BY <1>3, <2>2 DEF OneAck
    <3>2. Holds(from_next[t], x) \/ (t = Prev1(s) /\ x = q)
        BY <1>4, <1>7, <1>11, <3>1, HoldsPushed
    <3> QED
        BY <1>7, <1>8, <2>2, <3>2
  <2> QED
      BY <2>1, <2>2
<1> QED
    BY <1>10, <1>11, AcksStep

\* Acknowledgements are passed on, to the front and to the payer's bank.
LEMMA RecAckConfirms ==
    ASSUME NoResends, FreshCopies, AcksConfirmed, [Next]_vars, NEW s \in Servers, RecAck(s)
    PROVE  AcksConfirmed'
<1>1. TypeOK /\ TopologyInit
    BY DEF FreshCopies, HeadFrame
<1>0. PICK q : q = Head(from_next[s])
    OBVIOUS
<1>9. PICK rest : rest = Pop(from_next, s)
    OBVIOUS
<1>10. PICK mails :
          mails = IF my_type[s] = "HEAD" /\ Receives(s, q) THEN AckTransfer(s, q) ELSE {}
    OBVIOUS
<1>2. /\ from_next[s] # <<>>
      /\ from_next' = IF Heads(s) THEN rest ELSE AckToPre(rest, s, q)
      /\ to_server' = Deliver(to_server, mails)
    BY <1>0, <1>9, <1>10 DEF RecAck
<1>3. from_next \in [Servers -> Seq(Request)]
    BY <1>1 DEF TypeOK, ServerTypeOK
<1>4. /\ rest \in [Servers -> Seq(Request)] /\ q \in Request /\ Holds(from_next[s], q)
      /\ \A t \in Servers : \A x : Holds(rest[t], x) => Holds(from_next[t], x)
    BY <1>0, <1>2, <1>3, <1>9, HoldsPopped
<1>5. ASSUME NEW x \in mails PROVE Receives(s, q) /\ x.req = q
    BY <1>5, <1>10 DEF AckTransfer, Mail
<1>6. ASSUME Receives(s, q) PROVE Confirmed(q.dest_bank_id, q)'
  <2>1. Confirmed(Bank(s), q) /\ q.dest_bank_id = Bank(s)
      BY <1>4, <1>6 DEF AcksConfirmed, Holds, Receives
  <2> QED
      BY <2>1, ConfirmedStays
<1>7. ASSUME NEW x, x \in Acks(to_server')
      PROVE  x \in Acks(to_server) \/ Confirmed(x.req.dest_bank_id, x.req)'
    BY <1>2, <1>5, <1>6, <1>7, DeliverProperty DEF Acks, MailsIn
<1>8. ASSUME NEW t \in Servers, NEW x, Holds(from_next'[t], x)
      PROVE  \E u \in Servers : Bank(u) = Bank(t) /\ Holds(from_next[u], x)
  <2>1. CASE Heads(s)
      BY <1>2, <1>4, <1>8, <2>1
  <2>2. CASE ~Heads(s)
    <3>1. pre_fd[s] = Prev1(s) /\ Prev1(s) \in Servers /\ Bank(Prev1(s)) = Bank(s)
          /\ Prev1(s) # NoServer
        BY <1>1, <2>2, Places
    <3>2. OneAck(from_next', rest, Prev1(s), q)
        BY <1>2, <2>2, <3>1 DEF AckToPre, Push, OneAck
    <3>3. Holds(rest[t], x) \/ (t = Prev1(s) /\ x = q)
        BY <1>4, <1>8, <3>1, <3>2, HoldsPushed
    <3> QED
        BY <1>4, <3>1, <3>3
  <2> QED
      BY <2>1, <2>2
<1> QED
    BY <1>7, <1>8, AcksStep

\* The payer's tail passes on what no server of its bank has to acknowledge abroad.
LEMMA RecOtherBankConfirms ==
    ASSUME NoResends, PaysOthers, FreshCopies, RightBanks, AcksConfirmed,
           [Next]_vars, NEW s \in Servers, RecOtherBank(s)
    PROVE  AcksConfirmed'
<1>1. TypeOK /\ TopologyInit
    BY DEF FreshCopies, HeadFrame
<1>2. PICK m \in DOMAIN to_server :
         /\ m.to = s /\ m.op = "TRANS_ACK"
         /\ from_next' = IF Heads(s) THEN from_next ELSE AckToPre(from_next, s, m.req)
         /\ to_server' = Take(to_server, m)
    BY DEF RecOtherBank
<1>0. PICK q : q = m.req
    OBVIOUS
<1>3. from_next \in [Servers -> Seq(Request)] /\ q \in Request
    BY <1>0, <1>1 DEF TypeOK, ServerTypeOK, Mails
<1>4. /\ q \in Reached(BankOf[q.client_port]) /\ q.type = "transfer"
      /\ s = LastServer(BankOf[q.client_port])
    BY <1>0, <1>2 DEF RightBanks, RightMail
<1>5. q.dest_bank_id # Bank(s)
  <2>1. Bank(s) = Home(NameOf(q))
      BY <1>4 DEF Bank, LastServer, Home, NameOf
  <2> QED
      BY <1>4, <2>1, TransferBanks
<1>6. \A x : x \in Acks(to_server') => x \in Acks(to_server)
    BY <1>2, TakeProperty DEF Acks, MailsIn
<1>7. ASSUME NEW t \in Servers, NEW x, Holds(from_next'[t], x)
      PROVE  Holds(from_next[t], x) \/ ~Receives(t, x)
  <2>1. CASE Heads(s)
      BY <1>2, <1>7, <2>1
  <2>2. CASE ~Heads(s)
    <3>1. pre_fd[s] = Prev1(s) /\ Prev1(s) \in Servers /\ Bank(Prev1(s)) = Bank(s)
          /\ Prev1(s) # NoServer
        BY <1>1, <2>2, Places
    <3>2. OneAck(from_next', from_next, Prev1(s), q)
        BY <1>0, <1>2, <2>2, <3>1 DEF AckToPre, Push, OneAck
    <3>3. \A u \in Servers : \A y : Holds(from_next'[u], y) =>
             Holds(from_next[u], y) \/ (u = Prev1(s) /\ y = q)
      <4>1. Prev1(s) \in Servers /\ q \in Request
          BY <1>3, <3>1
      <4> HIDE DEF Prev1
      <4> QED
          BY <1>3, <3>2, <4>1, HoldsPushed
    <3>4. Holds(from_next[t], x) \/ (t = Prev1(s) /\ x = q)
        BY <1>7, <3>3
    <3> QED
        BY <1>5, <3>1, <3>4 DEF Receives
  <2> QED
      BY <2>1, <2>2
<1> QED
    BY <1>6, <1>7, AcksStep

\* Every step keeps acknowledgements confirmed.
LEMMA AcksConfirmedStep ==
    ASSUME NoResends, PaysOthers, FreshCopies, RightBanks, HistoriesExplain, BooksSound,
           StreamsJudged, AcksConfirmed, [Next]_vars
    PROVE  AcksConfirmed'
<1>1. ASSUME from_next' = from_next,
             \A x \in DOMAIN to_server' : x \in DOMAIN to_server \/ x.op = "REQUEST"
      PROVE  AcksConfirmed'
  <2>1. \A x : x \in Acks(to_server') => x \in Acks(to_server)
      BY <1>1 DEF Acks, MailsIn
  <2>2. \A t \in Servers : \A x : Holds(from_next'[t], x) => Holds(from_next[t], x)
      BY <1>1
  <2> QED
      BY <2>1, <2>2, AcksStep
<1>2. ASSUME NEW s \in Servers, ServerStep(s) PROVE AcksConfirmed'
  <2>1. CASE RecUpdate(s)
      BY <2>1, RecUpdateConfirms
  <2>2. CASE RecQuery(s) \/ RecUnknown(s)
    <3>1. from_next' = from_next /\ DOMAIN to_server' \subseteq DOMAIN to_server
        BY <2>2, TakeProperty DEF RecQuery, RecUnknown, serverState
    <3> QED
        BY <1>1, <3>1
  <2>3. CASE RecForward(s)
      BY <2>3, RecForwardConfirms
  <2>4. CASE RecAck(s)
      BY <2>4, RecAckConfirms
  <2>5. CASE RecOtherBank(s)
      BY <2>5, RecOtherBankConfirms
  <2> QED
      BY <1>2, <2>1, <2>2, <2>3, <2>4, <2>5 DEF ServerStep, ReceiveStep, RecClient
<1>3. ASSUME NEW c \in Clients, ClientStep(c) PROVE AcksConfirmed'
  <2>1. ASSUME NEW received, SendRequest(c, received)
        PROVE  \A x \in DOMAIN to_server' : x \in DOMAIN to_server \/ x.op = "REQUEST"
      BY <2>1, DeliverProperty DEF SendRequest, SendTo, Mail
  <2>2. CASE StartClient(c)
      BY <1>1, <2>1, <2>2 DEF StartClient, serverState
  <2>3. CASE RecvReply(c)
      BY <1>1, <2>1, <2>3 DEF RecvReply, serverState
  <2>4. CASE RecvSetHeadTail(c)
      BY <1>1, <2>4 DEF RecvSetHeadTail, serverState
  <2>5. ASSUME NEW k \in 1 .. Len(Queue(c)), CheckReceive(c, k) PROVE FALSE
    <3>1. whether_resend_newhead[c] /\ my_resend_time[c][k] < resend_times[c]
        BY <2>5 DEF CheckReceive
    <3>2. my_resend_time[c][k] \in Nat
        BY DEF FreshCopies, HeadFrame, TypeOK, ClientTypeOK
    <3> QED
        BY <3>1, <3>2 DEF NoResends
  <2> QED
      BY <1>3, <2>2, <2>3, <2>4, <2>5 DEF ClientStep, RecvMsg
<1>4. CASE Lose
  <2>1. from_next' = from_next /\ DOMAIN to_server' \subseteq DOMAIN to_server
      BY <1>4, TakeProperty DEF Lose, serverState
  <2> QED
      BY <1>1, <2>1
<1>5. CASE UNCHANGED vars
    BY <1>1, <1>5 DEF vars, serverState, network
<1> QED
    BY <1>2, <1>3, <1>4, <1>5 DEF Next

--------------------------------------------------------------------------------
\* What the ledger sees of a step.

\* The tails keep their balances, their histories and their lists.
TailsRest ==
    \A b \in Banks :
       /\ balance_map'[LastServer(b)] = balance_map[LastServer(b)]
       /\ processed_trans'[LastServer(b)] = processed_trans[LastServer(b)]
       /\ insuf_funds_trans'[LastServer(b)] = insuf_funds_trans[LastServer(b)]
       /\ sent'[LastServer(b)] = sent[LastServer(b)]

\* The balances of server s take update r.
Balances(s, r) ==
    /\ balance_map'[s] \in [Accounts -> Int]
    /\ \A a \in Accounts : balance_map'[s][a] =
          balance_map[s][a] + IF r.status = "Need" THEN Effect(Bank(s), r, a) ELSE 0
    /\ \A t \in Servers \ {s} : balance_map'[t] = balance_map[t]

\* The tail s files update r, and then answers it, ships it or acknowledges it.
TailFiles(s, r) ==
    /\ IsLast(s) /\ r \in Reached(Bank(s)) /\ r.type \in Updates
    /\ Judges(Bank(s), processed_trans[s], insuf_funds_trans[s], r)
    /\ NameOf(r) \notin Names(sent[s])
    /\ \E e \in UnderWay :
          NameOf(e[1]) = NameOf(r) /\ Travels(e) /\ Bank(e[2]) = Bank(s)
    /\ processed_trans' = [processed_trans EXCEPT ![s] = Filing("Need", @, Forwarding(r))]
    /\ insuf_funds_trans' =
         [insuf_funds_trans EXCEPT ![s] = Filing("InsufficientFunds", @, Forwarding(r))]
    /\ Balances(s, r)
    /\ sent' = [sent EXCEPT ![s] = IF PaysAbroad(s, r) THEN Append(@, r) ELSE @]
    /\ to_client' = Deliver(to_client,
         IF ~PaysAbroad(s, r) /\ ~Receives(s, r)
         THEN {ReplyTo(r, Outcome(r), balance_map'[s])} ELSE {})
    /\ log' = log
    /\ MovesOn(s, r)

\* An update judged covered leaves no account overdrawn.
LEMMA CoveredEffect ==
    ASSUME NEW b, NEW P \in Seq(Request), NEW I, NEW q \in Request, Judges(b, P, I, q),
           q.status = "Need", NEW balances \in [Accounts -> Int],
           \A a \in Accounts : balances[a] = BalanceOf(b, P, a) /\ balances[a] >= 0,
           NEW a \in Accounts
    PROVE  balances[a] + Effect(b, q, a) >= 0
<1>1. q.amount \in Nat /\ q.account_num \in Accounts /\ balances[a] \in Int /\ balances[a] >= 0
    BY DEF Request
<1>2. Draws(b, q) => balances[q.account_num] >= q.amount
    BY <1>1 DEF Judges
<1>3. Effect(b, q, a) >= 0 \/ (Draws(b, q) /\ a = q.account_num /\ Effect(b, q, a) = -q.amount)
    BY <1>1 DEF Effect, Draws
<1>4. Effect(b, q, a) \in Int
    BY <1>1 DEF Effect
<1> QED
    BY <1>1, <1>2, <1>3, <1>4

\* rec_client as the ledger sees it.
LEMMA RecUpdateSeen ==
    ASSUME ProperEntries, FreshCopies, RightBanks, HistoriesExplain, BooksSound,
           NEW s \in Servers, RecUpdate(s), UNCHANGED clientState
    PROVE  /\ IsLast(s) => \E r \in Request : TailFiles(s, r)
           /\ ~IsLast(s) => TailsRest /\ to_client' = Deliver(to_client, {}) /\ log' = log
<1>1. TypeOK /\ TopologyInit
    BY DEF FreshCopies, HeadFrame
<1>2. PICK m \in LettersIn(to_server), r \in Request :
         /\ HeadHandles(s, m, r) /\ IsFirst(s)
         /\ NameOf(r) \notin Names(sent[s])
         /\ <<m.req, s, "letter">> \in UnderWay
         /\ MovesOn(s, r)
    BY RecUpdateMoves
<1>3. /\ Judges(Bank(s), processed_trans[s], insuf_funds_trans[s], r)
      /\ SameAsk(r, m.req) /\ r \in Reached(Bank(s)) /\ m.req \in Reached(Bank(s))
      /\ NameOf(r) = NameOf(m.req)
    BY <1>2, HeadVerdict
<1>4. /\ balance_map \in [Servers -> [Accounts -> Int]] /\ sent \in [Servers -> Seq(Request)]
      /\ processed_trans \in [Servers -> Seq(Request)]
      /\ insuf_funds_trans \in [Servers -> Seq(Request)]
    BY <1>1 DEF TypeOK, ServerTypeOK
<1> DEFINE P == processed_trans[s]
           same == CheckSameReq(P, insuf_funds_trans[s], m.req)
           judged == ProcessUpdate(Bank(s), balance_map[s], same, m.req)
<1>5. m.req.type \in Updates /\ balance_map' = [balance_map EXCEPT ![s] = judged.balances]
      /\ r = [m.req EXCEPT !.status = judged.status, !.req_seq = req_seq[s] + 1]
    BY <1>2 DEF HeadHandles
<1>6. m.req \in Request /\ r.type = m.req.type /\ r.status = judged.status
      /\ \A a : Effect(Bank(s), r, a) = Effect(Bank(s), m.req, a)
  <2>1. m.req \in Request
      BY <1>3 DEF Reached
  <2> HIDE DEF judged
  <2>2. \A a : Effect(Bank(s), r, a) = Effect(Bank(s), m.req, a)
      BY <1>5, <2>1, EffectOfRecord
  <2> QED
      BY <1>5, <2>1, <2>2 DEF Request
<1>7. Balances(s, r)
  <2>1. Bank(s) \in Banks /\ balance_map[s] \in [Accounts -> Int]
      BY <1>1, <1>4, Places
  <2>2. \A a \in Accounts : balance_map[s][a] >= 0
      BY <1>4, ExplainedNow DEF HistoriesExplain
  <2>3. judged.balances \in [Accounts -> Int]
      BY <1>6, <2>1, ProcessUpdateType
  <2>4. \A a \in Accounts : judged.balances[a] =
           balance_map[s][a] + IF judged.status = "Need" THEN Effect(Bank(s), m.req, a) ELSE 0
    <3> TAKE a \in Accounts
    <3> HIDE DEF same
    <3> QED
        BY <1>3, <1>5, <2>1, <2>2, HeadBalances
  <2> HIDE DEF judged
  <2>5. balance_map'[s] = judged.balances
      BY <1>4, <1>5
  <2> QED
      BY <1>4, <1>5, <1>6, <2>3, <2>4, <2>5 DEF Balances
<1> HIDE DEF P, same, judged
<1>8. log' = log
    BY DEF clientState
<1>9. ASSUME IsLast(s) PROVE TailFiles(s, r)
  <2>1. my_type[s] = "HEAD_TAIL"
      BY <1>1, <1>2, <1>9, Places
  <2>2. sent' = [sent EXCEPT ![s] = IF PaysAbroad(s, r) THEN Append(@, r) ELSE @]
      BY <1>2, <2>1 DEF HeadHandles
  <2>3. balance_map'[s] = judged.balances
      BY <1>4, <1>5
  <2>4. to_client' = Deliver(to_client,
          IF ~PaysAbroad(s, r) /\ ~Receives(s, r)
          THEN {ReplyTo(r, Outcome(r), judged.balances)} ELSE {})
    <3>1. to_client' = Deliver(to_client,
             IF my_type[s] = "HEAD_TAIL" /\ ~(my_type[s] = "HEAD_TAIL" /\ PaysAbroad(s, r))
                /\ ~(my_type[s] = "HEAD_TAIL"
                     /\ ~(my_type[s] = "HEAD_TAIL" /\ PaysAbroad(s, r)) /\ Receives(s, r))
             THEN {ReplyTo(r, Outcome(r), judged.balances)} ELSE {})
        BY <1>2 DEF HeadHandles, judged, same, P
    <3> QED
        BY <2>1, <3>1
  <2>5. /\ processed_trans' = [processed_trans EXCEPT ![s] = Filing("Need", @, Forwarding(r))]
        /\ insuf_funds_trans' =
             [insuf_funds_trans EXCEPT ![s] = Filing("InsufficientFunds", @, Forwarding(r))]
      BY <1>2 DEF HeadHandles
  <2>6. \E e \in UnderWay :
          NameOf(e[1]) = NameOf(r) /\ Travels(e) /\ Bank(e[2]) = Bank(s)
      BY <1>2, <1>3, <1>5 DEF Travels
  <2> QED
      BY <1>2, <1>3, <1>5, <1>6, <1>7, <1>8, <1>9, <2>2, <2>3, <2>4, <2>5, <2>6 DEF TailFiles
<1>10. ASSUME ~IsLast(s) PROVE TailsRest /\ to_client' = Deliver(to_client, {})
  <2>1. my_type[s] # "HEAD_TAIL"
      BY <1>1, <1>10, Places
  <2>2. to_client' = Deliver(to_client, {})
      BY <1>2, <2>1 DEF HeadHandles
  <2>3. \A b \in Banks : LastServer(b) \in Servers /\ LastServer(b) # s
      BY <1>10, ChainEnds DEF IsLast, LastServer, Bank
  <2>4. \A t \in Servers \ {s} :
           /\ processed_trans'[t] = processed_trans[t]
           /\ insuf_funds_trans'[t] = insuf_funds_trans[t]
           /\ balance_map'[t] = balance_map[t] /\ sent'[t] = sent[t]
    <3>1. /\ \E h : processed_trans' = [processed_trans EXCEPT ![s] = h]
          /\ \E h : insuf_funds_trans' = [insuf_funds_trans EXCEPT ![s] = h]
          /\ \E h : sent' = [sent EXCEPT ![s] = h]
        BY <1>2 DEF HeadHandles
    <3> QED
        BY <1>4, <1>5, <3>1
  <2> QED
      BY <2>2, <2>3, <2>4 DEF TailsRest
<1> QED
    BY <1>2, <1>8, <1>9, <1>10

\* process_forwared_request as the ledger sees it.
LEMMA RecForwardSeen ==
    ASSUME ProperEntries, FreshCopies, RightBanks, HistoriesExplain, StreamsJudged,
           NEW s \in Servers, RecForward(s), UNCHANGED clientState
    PROVE  /\ IsLast(s) => \E r \in Request : TailFiles(s, r)
           /\ ~IsLast(s) => TailsRest /\ to_client' = Deliver(to_client, {}) /\ log' = log
<1>1. TypeOK /\ TopologyInit
    BY DEF FreshCopies, HeadFrame
<1>2. PICK q \in Request :
         /\ Relays(s, q) /\ ~IsFirst(s)
         /\ NameOf(q) \notin Names(sent[s])
         /\ <<q, s, "stream">> \in UnderWay
         /\ MovesOn(s, q)
    BY RecForwardMoves
<1>3. /\ balance_map \in [Servers -> [Accounts -> Int]] /\ sent \in [Servers -> Seq(Request)]
      /\ processed_trans \in [Servers -> Seq(Request)]
      /\ insuf_funds_trans \in [Servers -> Seq(Request)]
      /\ from_pre[s] \in Seq(Forwards)
    BY <1>1 DEF TypeOK, ServerTypeOK
<1>4. from_pre[s] # <<>> /\ q = Head(from_pre[s]).req
    BY <1>2 DEF Relays
<1>5. /\ Judges(Bank(s), processed_trans[s], insuf_funds_trans[s], q)
      /\ q \in Reached(Bank(s)) /\ Head(from_pre[s]) = Forwarding(q)
  <2>1. Judges(Bank(s), processed_trans[s], insuf_funds_trans[s], Head(from_pre[s]).req)
      BY <1>3, <1>4, StreamFirst DEF StreamsJudged
  <2>2. Head(from_pre[s]) \in Forwards
      BY <1>3, <1>4
  <2>3. q \in Reached(Bank(s))
      BY <1>1, <1>2, ReachedNames
  <2> QED
      BY <1>4, <2>1, <2>2, <2>3 DEF Forwards, Forwarding
<1>6. /\ processed_trans' = [processed_trans EXCEPT ![s] = Filing("Need", @, Forwarding(q))]
      /\ insuf_funds_trans' =
           [insuf_funds_trans EXCEPT ![s] = Filing("InsufficientFunds", @, Forwarding(q))]
      /\ balance_map' = [balance_map EXCEPT ![s] =
                           IF q.status = "Need" THEN UpdateBalance(Bank(s), @, q) ELSE @]
    BY <1>2, <1>5 DEF Relays
<1>7. Balances(s, q)
  <2>1. Bank(s) \in Banks /\ balance_map[s] \in [Accounts -> Int]
        /\ processed_trans[s] \in Seq(Request)
      BY <1>1, <1>3, Places
  <2>2. \A a \in Accounts :
           balance_map[s][a] = BalanceOf(Bank(s), processed_trans[s], a) /\ balance_map[s][a] >= 0
      BY <1>3, ExplainedNow DEF HistoriesExplain
  <2>3. CASE q.status = "Need"
    <3>1. balance_map'[s] = UpdateBalance(Bank(s), balance_map[s], q)
          /\ \A t \in Servers \ {s} : balance_map'[t] = balance_map[t]
        BY <1>3, <1>6, <2>3
    <3>2. \A a \in Accounts : balance_map[s][a] + Effect(Bank(s), q, a) >= 0
        BY <1>5, <2>1, <2>2, <2>3, CoveredEffect
    <3>3. \A a \in Accounts : UpdateBalance(Bank(s), balance_map[s], q)[a] =
                                 balance_map[s][a] + Effect(Bank(s), q, a)
        BY <1>5, <2>1, <3>2, FollowerBalances
    <3>4. UpdateBalance(Bank(s), balance_map[s], q) \in [Accounts -> Int]
        BY <2>1, UpdateBalanceType
    <3> QED
        BY <2>3, <3>1, <3>3, <3>4 DEF Balances
  <2>4. CASE q.status # "Need"
    <3>1. \A t \in Servers : balance_map'[t] = balance_map[t]
        BY <1>3, <1>6, <2>4
    <3>2. \A a \in Accounts : balance_map[s][a] + 0 = balance_map[s][a]
        BY <2>1
    <3> QED
        BY <2>1, <2>4, <3>1, <3>2 DEF Balances
  <2> QED
      BY <2>3, <2>4
<1>8. log' = log
    BY DEF clientState
<1>9. ASSUME IsLast(s) PROVE TailFiles(s, q)
  <2>1. my_type[s] = "TAIL"
      BY <1>1, <1>2, <1>9, Places
  <2>2. sent' = [sent EXCEPT ![s] = IF PaysAbroad(s, q) THEN Append(@, q) ELSE @]
      BY <1>2, <2>1 DEF Relays
  <2>3. to_client' = Deliver(to_client,
          IF ~PaysAbroad(s, q) /\ ~Receives(s, q)
          THEN {ReplyTo(q, Outcome(q), balance_map'[s])} ELSE {})
      BY <1>2, <2>1 DEF Relays
  <2>4. \E e \in UnderWay :
          NameOf(e[1]) = NameOf(q) /\ Travels(e) /\ Bank(e[2]) = Bank(s)
      BY <1>2 DEF Travels
  <2>5. q.type \in Updates
      BY <1>5 DEF Judges
  <2> QED
      BY <1>2, <1>5, <1>6, <1>7, <1>8, <1>9, <2>2, <2>3, <2>4, <2>5 DEF TailFiles
<1>10. ASSUME ~IsLast(s) PROVE TailsRest /\ to_client' = Deliver(to_client, {})
  <2>1. my_type[s] # "TAIL"
      BY <1>1, <1>10, Places
  <2>2. to_client' = Deliver(to_client, {})
      BY <1>2, <2>1 DEF Relays
  <2>3. \A b \in Banks : LastServer(b) \in Servers /\ LastServer(b) # s
      BY <1>10, ChainEnds DEF IsLast, LastServer, Bank
  <2>4. \A t \in Servers \ {s} :
           /\ processed_trans'[t] = processed_trans[t]
           /\ insuf_funds_trans'[t] = insuf_funds_trans[t]
           /\ balance_map'[t] = balance_map[t] /\ sent'[t] = sent[t]
    <3>1. \E h : sent' = [sent EXCEPT ![s] = h]
        BY <1>2 DEF Relays
    <3> QED
        BY <1>3, <1>6, <3>1
  <2> QED
      BY <2>2, <2>3, <2>4 DEF TailsRest
<1> QED
    BY <1>2, <1>8, <1>9, <1>10

\* The tail s answers the query q.
TailReports(s, q) ==
    /\ q \in Reached(Bank(s)) /\ q.type = "getBalance"
    /\ s = LastServer(BankOf[q.client_port])
    /\ NameOf(q) \notin Names(sent[s])
    /\ \E e \in UnderWay : NameOf(e[1]) = NameOf(q)
    /\ \A e \in UnderWay' : NameOf(e[1]) # NameOf(q)
    /\ TailsRest /\ sent' = sent
    /\ to_client' = Deliver(to_client, {ReplyTo(q, "Processed", balance_map[s])})
    /\ log' = log

\* The tail s closes the transfer q, which the payee's bank has acknowledged.
TailCloses(s, q) ==
    /\ q \in Reached(Bank(s)) /\ q.type = "transfer"
    /\ s = LastServer(BankOf[q.client_port])
    /\ Confirmed(q.dest_bank_id, q)
    /\ NameOf(q) \in Names(sent[s]) /\ DoneAbroad(NameOf(q))
    /\ \A e \in UnderWay' : NameOf(e[1]) # NameOf(q)
    /\ UNCHANGED <<balance_map, processed_trans, insuf_funds_trans>>
    /\ sent' = [sent EXCEPT ![s] = DeleteSent(@, q)]
    /\ to_client' = Deliver(to_client, {ReplyTo(q, Outcome(q), balance_map[s])})
    /\ log' = log

\* rec_client with a query as the ledger sees it.
LEMMA RecQuerySeen ==
    ASSUME FreshCopies, RightBanks, TailsKnown,
           NEW s \in Servers, RecQuery(s), UNCHANGED clientState
    PROVE  \E q \in Request : TailReports(s, q)
<1>1. TypeOK /\ TopologyInit /\ NotYetRead /\ OneCopy /\ Single(to_server)
    BY DEF FreshCopies, HeadFrame, OneCopy
<1>2. PICK m \in DOMAIN to_server : RecQuery(s)!(m)
    BY DEF RecQuery
<1>3. PICK q : q = m.req
    OBVIOUS
<1>4. /\ m \in LettersIn(to_server) /\ m.to = s /\ q.type = "getBalance" /\ q \in Request
      /\ m = [op |-> "REQUEST", to |-> s, req |-> q]
      /\ <<q, s, "letter">> \in UnderWay
      /\ to_server' = Take(to_server, m)
  <2>1. m \in LettersIn(to_server) /\ m.to = s
      BY <1>2 DEF LettersIn
  <2> QED
      BY <1>1, <1>2, <1>3, <2>1, UnderWayMember
<1>5. q \in Reached(Bank(s)) /\ s = LastServer(BankOf[q.client_port])
    BY <1>3, <1>4 DEF RightBanks, RightMail, TailsKnown, LettersIn
<1>6. sent \in [Servers -> Seq(Request)] /\ sent[s] \in Seq(Request)
    BY <1>1, ListTypes
<1>7. NameOf(q) \notin Names(sent[s]) /\ ~InSent(sent[s], q)
  <2>1. s \in Ahead(q, s)
      BY <1>1, Places DEF Ahead
  <2> QED
      BY <1>1, <1>4, <1>6, <2>1, InSentNames DEF NotYetRead
<1>8. PICK r : r = [q EXCEPT !.status = "Processed"]
    OBVIOUS
<1>9. /\ NameOf(r) = NameOf(q) /\ r.status = "Processed" /\ Outcome(r) = "Processed"
      /\ ReplyTo(r, "Processed", balance_map[s]) = ReplyTo(q, "Processed", balance_map[s])
    BY <1>4, <1>8 DEF Request, NameOf, Outcome, ReplyTo
<1>10. DeleteSent(sent[s], r) = sent[s]
    BY <1>6, <1>7, <1>9, NamesDelete
<1>11. /\ sent' = [sent EXCEPT ![s] =
                     IF my_type[s] = "HEAD_TAIL" THEN DeleteSent(@, r) ELSE @]
       /\ to_client' = Deliver(to_client,
            {ReplyTo(r, IF my_type[s] = "HEAD_TAIL" THEN Outcome(r) ELSE r.status,
                     balance_map[s])})
    BY <1>2, <1>3, <1>7, <1>8
<1>12. sent' = sent /\ to_client' = Deliver(to_client, {ReplyTo(q, "Processed", balance_map[s])})
    BY <1>6, <1>9, <1>10, <1>11
<1>13. /\ UNCHANGED <<balance_map, processed_trans, insuf_funds_trans, from_pre>>
       /\ log' = log
    BY DEF RecQuery, clientState
<1>14. ASSUME NEW e \in UnderWay', NameOf(e[1]) = NameOf(q) PROVE FALSE
  <2>1. /\ LettersIn(to_server') \subseteq LettersIn(to_server) \ {m}
    <3>1. m.op = "REQUEST"
        BY <1>4
    <3> QED
        BY <1>1, <1>4, <3>1, TakeLetters
  <2>2. e \in UnderWay
      BY <1>13, <2>1 DEF UnderWay, Posted
  <2>3. e = <<q, s, "letter">>
      BY <1>1, <1>4, <1>14, <2>2 DEF OneCopy
  <2>4. e \notin Streamed(from_pre')
    <3>1. from_pre' \in [Servers -> Seq(Forwards)]
        BY <1>1, <1>13, ListTypes
    <3> QED
        BY <2>3, <3>1, StreamedMember DEF Carries
  <2>5. PICK x \in LettersIn(to_server') : e = <<x.req, x.to, "letter">>
      BY <2>4 DEF UnderWay, Posted
  <2>6. x \in LettersIn(to_server) /\ x # m /\ x.req = q /\ x.to = s
      BY <2>1, <2>3, <2>5
  <2>7. x = [op |-> "REQUEST", to |-> x.to, req |-> x.req]
      BY <1>1, <2>6, UnderWayMember
  <2> QED
      BY <1>4, <2>6, <2>7
<1>15. TailsRest
    BY <1>12, <1>13 DEF TailsRest
<1>16. \E e \in UnderWay : NameOf(e[1]) = NameOf(q)
    BY <1>4
<1> QED
    BY <1>4, <1>5, <1>7, <1>12, <1>13, <1>14, <1>15, <1>16 DEF TailReports

\* rec_other_bank as the ledger sees it.
LEMMA RecOtherBankSeen ==
    ASSUME FreshCopies, RightBanks, SentAccounted, AcksConfirmed,
           NEW s \in Servers, RecOtherBank(s), UNCHANGED clientState
    PROVE  \E q \in Request : TailCloses(s, q)
<1>1. TypeOK /\ TopologyInit /\ AcksFinal /\ Single(to_server)
    BY DEF FreshCopies, HeadFrame, OneCopy, SentAccounted
<1>2. PICK m \in DOMAIN to_server : RecOtherBank(s)!(m)
    BY DEF RecOtherBank
<1>3. PICK q : q = m.req
    OBVIOUS
<1>4. m \in Acks(to_server) /\ m.to = s /\ m.op = "TRANS_ACK" /\ q \in Request
  <2>1. m \in Acks(to_server) /\ m.to = s /\ m.op = "TRANS_ACK"
      BY <1>2 DEF Acks, MailsIn
  <2> QED
      BY <1>1, <1>3, <2>1, NamedRequests
<1>5. /\ q \in Reached(BankOf[q.client_port]) /\ q.type = "transfer"
      /\ s = LastServer(BankOf[q.client_port])
    BY <1>3, <1>4 DEF RightBanks, RightMail
<1>6. Home(NameOf(q)) = BankOf[q.client_port] /\ Bank(s) = BankOf[q.client_port]
    BY <1>5 DEF Bank, LastServer, Home, NameOf
<1>7. Confirmed(q.dest_bank_id, q)
    BY <1>3, <1>4 DEF AcksConfirmed
<1>8. NameOf(q) \in Names(sent[s]) /\ DoneAbroad(NameOf(q))
      /\ \A e \in UnderWay : NameOf(e[1]) # NameOf(q)
    BY <1>1, <1>3, <1>4, <1>5, <1>6 DEF AcksFinal, Awaited
<1>9. /\ UNCHANGED <<balance_map, processed_trans, insuf_funds_trans, from_pre>>
      /\ log' = log
    BY DEF RecOtherBank, clientState
<1>10. /\ sent' = [sent EXCEPT ![s] = DeleteSent(@, q)]
       /\ to_client' = Deliver(to_client, {ReplyTo(q, Outcome(q), balance_map[s])})
       /\ to_server' = Take(to_server, m)
    BY <1>2, <1>3
<1>11. \A e \in UnderWay' : NameOf(e[1]) # NameOf(q)
  <2>1. LettersIn(to_server') \subseteq LettersIn(to_server)
      BY <1>1, <1>10, TakeLetters
  <2> QED
      BY <1>8, <1>9, <2>1 DEF UnderWay, Posted
<1>12. q \in Reached(Bank(s))
    BY <1>5, <1>6
<1> QED
    BY <1>4, <1>5, <1>7, <1>8, <1>9, <1>10, <1>11, <1>12 DEF TailCloses

\* The messages of a bag are counted.
Counted(bag) == \A m \in DOMAIN bag : bag[m] \in Nat \ {0}

\* Sending and receiving keep the counts.
LEMMA CountedMail ==
    ASSUME NEW bag, Counted(bag)
    PROVE  /\ \A mails : /\ Counted(Deliver(bag, mails))
                         /\ DOMAIN Deliver(bag, mails) =
                               DOMAIN bag \cup {m \in mails : m.to # NoServer}
           /\ \A m \in DOMAIN bag : /\ Counted(Take(bag, m))
                                    /\ DOMAIN Take(bag, m) \cup {m} = DOMAIN bag
<1>1. ASSUME NEW mails
      PROVE  /\ Counted(Deliver(bag, mails))
             /\ DOMAIN Deliver(bag, mails) = DOMAIN bag \cup {m \in mails : m.to # NoServer}
  <2> DEFINE S == {m \in mails : m.to # NoServer}
             more == Deliver(bag, mails)
  <2>1. /\ DOMAIN more = DOMAIN bag \cup S
        /\ \A x \in DOMAIN more :
              more[x] = (IF x \in DOMAIN bag THEN bag[x] ELSE 0) + (IF x \in S THEN 1 ELSE 0)
      BY DEF Deliver, SetToBag, (+)
  <2> HIDE DEF more, S
  <2>2. Counted(more)
      BY <2>1 DEF Counted
  <2> QED
      BY <2>1, <2>2 DEF more, S
<1>2. ASSUME NEW m \in DOMAIN bag
      PROVE  Counted(Take(bag, m)) /\ DOMAIN Take(bag, m) \cup {m} = DOMAIN bag
  <2> DEFINE rest == Take(bag, m)
             left == [e \in DOMAIN bag |-> IF e = m THEN bag[e] - 1 ELSE bag[e]]
  <2>1. /\ DOMAIN rest = {e \in DOMAIN bag : left[e] > 0}
        /\ \A x \in DOMAIN rest : rest[x] = left[x]
      BY DEF Take, SetToBag, (-)
  <2>2. /\ \A x \in DOMAIN bag : left[x] \in Int /\ (x # m => left[x] > 0)
      BY DEF Counted
  <2> HIDE DEF rest, left
  <2>3. Counted(rest)
      BY <2>1, <2>2 DEF Counted
  <2>4. DOMAIN rest \cup {m} = DOMAIN bag
      BY <2>1, <2>2
  <2> QED
      BY <2>3, <2>4 DEF rest
<1> QED
    BY <1>1, <1>2

\* A client gets the replies that a server sends it.
LEMMA RepliesSent ==
    ASSUME RepliesCounted, NEW mails, to_client' = Deliver(to_client, mails), log' = log,
           \A x \in mails : x.op = "SER_RPY" /\ x.to \in Clients
    PROVE  /\ RepliesCounted'
           /\ \A c \in Clients : Replies(c)' = Replies(c) \cup {x \in mails : x.to = c}
<1>1. /\ Counted(Deliver(to_client, mails))
      /\ DOMAIN Deliver(to_client, mails) = DOMAIN to_client \cup {m \in mails : m.to # NoServer}
    BY CountedMail DEF RepliesCounted, Counted
<1>2. {m \in mails : m.to # NoServer} = mails
    BY ClientPortAssumption
<1>3. DOMAIN to_client' = DOMAIN to_client \cup mails /\ RepliesCounted'
    BY <1>1, <1>2 DEF RepliesCounted, Counted
<1>4. ASSUME NEW c \in Clients PROVE Replies(c)' = Replies(c) \cup {x \in mails : x.to = c}
    BY <1>3 DEF Replies
<1> QED
    BY <1>3, <1>4

\* A client that reads a reply has it in its log instead.
LEMMA RepliesRead ==
    ASSUME TypeOK, RepliesCounted, NEW c \in Clients, ClientStep(c)
    PROVE  RepliesCounted' /\ \A d \in Clients : Replies(d)' = Replies(d)
<1>1. ASSUME to_client' = to_client, log' = log
      PROVE  RepliesCounted' /\ \A d \in Clients : Replies(d)' = Replies(d)
    BY <1>1 DEF RepliesCounted, Replies
<1>2. CASE StartClient(c)
    BY <1>1, <1>2 DEF StartClient
<1>3. CASE RecvSetHeadTail(c)
  <2>1. PICK m \in DOMAIN to_client : /\ m.op = "SET_HEAD_TAIL"
                                      /\ to_client' = Take(to_client, m) /\ log' = log
      BY <1>3 DEF RecvSetHeadTail
  <2>2. RepliesCounted' /\ DOMAIN to_client' \cup {m} = DOMAIN to_client
      BY <2>1, CountedMail DEF RepliesCounted, Counted
  <2>3. ASSUME NEW d PROVE Replies(d)' = Replies(d)
      BY <2>1, <2>2 DEF Replies
  <2> QED
      BY <2>2, <2>3
<1>4. CASE RecvReply(c)
  <2>1. PICK m \in DOMAIN to_client : /\ m.to = c /\ m.op = "SER_RPY"
                                      /\ to_client' = Take(to_client, m)
                                      /\ log' = [log EXCEPT ![c] = Append(@, m)]
      BY <1>4 DEF RecvReply
  <2>2. RepliesCounted' /\ DOMAIN to_client' \cup {m} = DOMAIN to_client
      BY <2>1, CountedMail DEF RepliesCounted, Counted
  <2>3. log \in [Clients -> Seq(Reply)] /\ log[c] \in Seq(Reply) /\ m \in Reply
      BY <2>1 DEF TypeOK, ClientTypeOK, SetHeadTails
  <2>4. /\ ToSet(log'[c]) = ToSet(log[c]) \cup {m}
        /\ \A d \in Clients \ {c} : log'[d] = log[d]
    <3>1. log'[c] = Append(log[c], m) /\ \A d \in Clients \ {c} : log'[d] = log[d]
        BY <2>1, <2>3
    <3>2. DOMAIN log[c] = 1 .. Len(log[c]) /\ DOMAIN Append(log[c], m) = 1 .. Len(log[c]) + 1
          /\ Len(log[c]) \in Nat
          /\ \A i \in 1 .. Len(log[c]) : Append(log[c], m)[i] = log[c][i]
          /\ Append(log[c], m)[Len(log[c]) + 1] = m
        BY <2>3
    <3>3. ToSet(Append(log[c], m)) = ToSet(log[c]) \cup {m}
        BY <3>2 DEF ToSet
    <3> QED
        BY <3>1, <3>3
  <2>5. ASSUME NEW d \in Clients PROVE Replies(d)' = Replies(d)
    <3>1. CASE d = c
        BY <2>1, <2>2, <2>4, <3>1 DEF Replies
    <3>2. CASE d # c
        BY <2>1, <2>2, <2>4, <3>2 DEF Replies
    <3> QED
        BY <3>1, <3>2
  <2> QED
      BY <2>2, <2>5
<1>5. ASSUME NEW k \in 1 .. Len(Queue(c)), CheckReceive(c, k)
      PROVE  RepliesCounted' /\ \A d \in Clients : Replies(d)' = Replies(d)
    BY <1>1, <1>5 DEF CheckReceive
<1> QED
    BY <1>2, <1>3, <1>4, <1>5 DEF ClientStep, RecvMsg

\* Losing a message to a client loses a reply at most.
LEMMA RepliesLost ==
    ASSUME RepliesCounted, Lose
    PROVE  /\ RepliesCounted'
           /\ \A d \in Clients : Replies(d)' \subseteq Replies(d)
           /\ "SER_RPY" \notin LossyOps => \A d \in Clients : Replies(d)' = Replies(d)
<1>1. log' = log
    BY DEF Lose, clientState
<1>2. CASE to_client' = to_client
    BY <1>1, <1>2 DEF RepliesCounted, Replies
<1>3. CASE to_client' # to_client
  <2>1. PICK m \in DOMAIN to_client : m.op \in LossyOps /\ to_client' = Take(to_client, m)
      BY <1>3 DEF Lose
  <2>2. RepliesCounted' /\ DOMAIN to_client' \cup {m} = DOMAIN to_client
      BY <2>1, CountedMail DEF RepliesCounted, Counted
  <2>3. ASSUME NEW d
        PROVE  /\ Replies(d)' \subseteq Replies(d)
               /\ "SER_RPY" \notin LossyOps => Replies(d)' = Replies(d)
      BY <1>1, <2>1, <2>2 DEF Replies
  <2> QED
      BY <2>2, <2>3
<1> QED
    BY <1>2, <1>3


--------------------------------------------------------------------------------
\* The steps of servers, seen by the ledger.

\* A step of a server that the ledger does not see.
Unseen ==
    /\ TailsRest /\ log' = log
    /\ to_client' = to_client \/ to_client' = Deliver(to_client, {})

\* A step of a server is one of a tail, or the ledger does not see it.
LEMMA ServerStepSeen ==
    ASSUME ProperEntries, FreshCopies, RightBanks, HistoriesExplain, SentAccounted,
           LedgerInvariant, NEW s \in Servers, ServerStep(s)
    PROVE  \/ Unseen
           \/ \E r \in Request : TailFiles(s, r)
           \/ \E q \in Request : TailReports(s, q)
           \/ \E q \in Request : TailCloses(s, q)
<1>0. /\ TypeOK /\ TopologyInit /\ ListsDivided
      /\ TailsKnown /\ BooksSound /\ StreamsJudged /\ AcksConfirmed
      /\ UNCHANGED clientState /\ log' = log
    BY DEF FreshCopies, HeadFrame, SentAccounted, LedgerInvariant, ServerStep, clientState
<1>1. CASE RecUpdate(s)
    BY <1>0, <1>1, RecUpdateSeen DEF Unseen
<1>2. CASE RecForward(s)
    BY <1>0, <1>2, RecForwardSeen DEF Unseen
<1>3. CASE RecQuery(s)
    BY <1>0, <1>3, RecQuerySeen
<1>4. CASE RecOtherBank(s)
    BY <1>0, <1>4, RecOtherBankSeen
<1>5. CASE RecUnknown(s)
    BY <1>0, <1>5 DEF RecUnknown, serverState, Unseen, TailsRest
<1>6. CASE RecAck(s)
  <2>1. ~IsLast(s)
      BY <1>0, <1>6, AckAtHand DEF RecAck
  <2>2. \A b \in Banks : LastServer(b) \in Servers /\ LastServer(b) # s
    <3>1. \A b : LastServer(b) = s => IsLast(s)
        BY DEF IsLast, LastServer, Bank
    <3> QED
        BY <2>1, <3>1, ChainEnds
  <2>3. \E h : sent' = [sent EXCEPT ![s] = h]
      BY <1>6 DEF RecAck
  <2>4. \A t \in Servers \ {s} : sent'[t] = sent[t]
      BY <1>0, <2>3, ListTypes
  <2> QED
      BY <1>0, <1>6, <2>2, <2>4 DEF RecAck, Unseen, TailsRest
<1> QED
    BY <1>1, <1>2, <1>3, <1>4, <1>5, <1>6 DEF ServerStep, ReceiveStep, RecClient

\* What a tail sends to clients when it answers a request, and who gets it.
LEMMA ReplySent ==
    ASSUME NEW q \in Request, NEW result, NEW balances
    PROVE  LET x == ReplyTo(q, result, balances)
           IN  /\ x.op = "SER_RPY" /\ x.to = q.client_port /\ q.client_port \in Clients
               /\ x.sent_id = q.sent_id /\ NameOf(q) = <<x.to, x.sent_id>>
    BY DEF ReplyTo, Request, NameOf

\* Servers send clients nothing but replies.
LEMMA ServerMail ==
    ASSUME TypeOK, RepliesCounted, NEW s \in Servers,
           \/ Unseen
           \/ \E r \in Request : TailFiles(s, r)
           \/ \E q \in Request : TailReports(s, q)
           \/ \E q \in Request : TailCloses(s, q)
    PROVE  /\ RepliesCounted'
           /\ \A x \in DOMAIN to_client' : x.op = "SET_HEAD_TAIL" => x \in DOMAIN to_client
<1>1. ASSUME NEW mails, to_client' = Deliver(to_client, mails), log' = log,
             \A x \in mails : x.op = "SER_RPY" /\ x.to \in Clients
      PROVE  /\ RepliesCounted'
             /\ \A x \in DOMAIN to_client' : x.op = "SET_HEAD_TAIL" => x \in DOMAIN to_client
    BY <1>1, RepliesSent, DeliverProperty
<1>2. CASE Unseen
  <2>1. CASE to_client' = to_client
      BY <2>1 DEF RepliesCounted
  <2>2. CASE to_client' = Deliver(to_client, {})
      BY <1>1, <1>2, <2>2 DEF Unseen
  <2> QED
      BY <1>2, <2>1, <2>2 DEF Unseen
<1>3. ASSUME NEW r \in Request, NEW result, NEW balances, log' = log,
             to_client' = Deliver(to_client, {ReplyTo(r, result, balances)})
      PROVE  /\ RepliesCounted'
             /\ \A x \in DOMAIN to_client' : x.op = "SET_HEAD_TAIL" => x \in DOMAIN to_client
  <2> DEFINE mails == {ReplyTo(r, result, balances)}
  <2>1. \A x \in mails : x.op = "SER_RPY" /\ x.to \in Clients
      BY ReplySent
  <2>2. to_client' = Deliver(to_client, mails)
      BY <1>3
  <2> HIDE DEF mails
  <2> QED
      BY <1>1, <1>3, <2>1, <2>2
<1>4. ASSUME NEW r \in Request, TailFiles(s, r)
      PROVE  /\ RepliesCounted'
             /\ \A x \in DOMAIN to_client' : x.op = "SET_HEAD_TAIL" => x \in DOMAIN to_client
  <2>1. log' = log
      BY <1>4 DEF TailFiles
  <2>2. CASE ~PaysAbroad(s, r) /\ ~Receives(s, r)
    <3>1. to_client' = Deliver(to_client, {ReplyTo(r, Outcome(r), balance_map'[s])})
        BY <1>4, <2>2 DEF TailFiles
    <3> QED
        BY <1>3, <2>1, <3>1
  <2>3. CASE ~(~PaysAbroad(s, r) /\ ~Receives(s, r))
    <3>1. to_client' = Deliver(to_client, {})
        BY <1>4, <2>3 DEF TailFiles
    <3> QED
        BY <1>1, <2>1, <3>1
  <2> QED
      BY <2>2, <2>3
<1>5. ASSUME NEW q \in Request, TailReports(s, q) \/ TailCloses(s, q)
      PROVE  /\ RepliesCounted'
             /\ \A x \in DOMAIN to_client' : x.op = "SET_HEAD_TAIL" => x \in DOMAIN to_client
  <2>1. /\ log' = log
        /\ \E result : to_client' = Deliver(to_client, {ReplyTo(q, result, balance_map[s])})
      BY <1>5 DEF TailReports, TailCloses
  <2> QED
      BY <1>3, <2>1
<1> QED
    BY <1>2, <1>4, <1>5

--------------------------------------------------------------------------------
\* Clients know the tails.

\* The letters with requests that a step adds.
LEMMA TailsKnownKept ==
    ASSUME TailsKnown,
           \A c \in Clients : tail_port'[c] \in {tail_port[c], LastServer(BankOf[c])},
           \A x \in DOMAIN to_client' : x.op = "SET_HEAD_TAIL" => x \in DOMAIN to_client,
           \A x \in LettersIn(to_server') :
              \/ x \in LettersIn(to_server)
              \/ x.req.type # "getBalance"
              \/ x.to = LastServer(BankOf[x.req.client_port])
    PROVE  TailsKnown'
<1>1. \A c \in Clients : tail_port'[c] \in {NoServer, LastServer(BankOf[c])}
    BY DEF TailsKnown
<1>2. \A x \in DOMAIN to_client' : x.op = "SET_HEAD_TAIL" =>
          x.tail_port = LastServer(x.bank_id)
    BY DEF TailsKnown
<1>3. \A x \in LettersIn(to_server') : x.req.type = "getBalance" =>
          x.to = LastServer(BankOf[x.req.client_port])
    BY DEF TailsKnown
<1> QED
    BY <1>1, <1>2, <1>3 DEF TailsKnown

\* A server posts no requests but transfers.
LEMMA ServerLetters ==
    ASSUME FreshCopies, NEW s \in Servers, ServerStep(s)
    PROVE  \A x \in LettersIn(to_server') :
              x \in LettersIn(to_server) \/ x.req.type = "transfer"
<1>1. /\ \A m : LettersIn(Take(to_server, m)) \subseteq LettersIn(to_server)
      /\ \A m, mails : \A x \in LettersIn(Deliver(Take(to_server, m), mails)) :
            x \in LettersIn(to_server) \/ x \in mails
      /\ \A mails : \A x \in LettersIn(Deliver(to_server, mails)) :
            x \in LettersIn(to_server) \/ x \in mails
    BY TakeProperty, DeliverProperty DEF LettersIn
<1>2. \A q : /\ \A x \in ShipTransfer(s, q) : x.op = "REQUEST" /\ x.req = q
             /\ \A x \in AckTransfer(s, q) : x.op = "TRANS_ACK"
    BY DEF ShipTransfer, AckTransfer, Mail
<1>3. \A x \in LettersIn(to_server') : x.op = "REQUEST"
    BY DEF LettersIn
<1>4. CASE RecUpdate(s)
  <2>1. PICK m \in LettersIn(to_server), r \in Request : HeadHandles(s, m, r)
      BY <1>4, RecUpdateFresh
  <2>2. PICK mails : /\ to_server' = Deliver(Take(to_server, m), mails)
                     /\ \A x \in mails : x.op = "REQUEST" => x.req.type = "transfer"
    <3> DEFINE ships == my_type[s] = "HEAD_TAIL" /\ PaysAbroad(s, r)
               settles == my_type[s] = "HEAD_TAIL" /\ ~ships /\ Receives(s, r)
               mails == CASE ships -> ShipTransfer(s, r)
                          [] settles -> AckTransfer(s, r)
                          [] OTHER -> {}
    <3>1. to_server' = Deliver(Take(to_server, m), mails)
        BY <2>1 DEF HeadHandles
    <3>2. ships => r.type = "transfer"
        BY DEF PaysAbroad
    <3>3. mails \in {ShipTransfer(s, r), AckTransfer(s, r), {}}
          /\ (mails = ShipTransfer(s, r) \/ \A x \in mails : x.op # "REQUEST" \/ ships)
      <4> HIDE DEF ships, settles
      <4> QED
          BY <1>2
    <3>4. \A x \in mails : x.op = "REQUEST" => x.req.type = "transfer"
      <4>1. CASE ships
          BY <1>2, <3>2, <4>1
      <4>2. CASE ~ships /\ settles
          BY <1>2, <4>2
      <4>3. CASE ~ships /\ ~settles
          BY <4>3
      <4> QED
          BY <4>1, <4>2, <4>3
    <3> QED
        BY <3>1, <3>4
  <2> QED
      BY <1>1, <1>3, <2>2
<1>5. CASE RecForward(s)
  <2>1. PICK q \in Request : Relays(s, q)
      BY <1>5, RecForwardFresh
  <2> DEFINE ships == my_type[s] = "TAIL" /\ PaysAbroad(s, q)
             mails == IF ships THEN ShipTransfer(s, q) ELSE {}
  <2>2. to_server' = Deliver(to_server, mails)
      BY <2>1 DEF Relays
  <2>3. \A x \in mails : x.req.type = "transfer"
      BY <1>2 DEF PaysAbroad
  <2> HIDE DEF mails
  <2> QED
      BY <1>1, <2>2, <2>3
<1>6. CASE RecQuery(s)
  <2>1. PICK m \in DOMAIN to_server : RecQuery(s)!(m)
      BY <1>6 DEF RecQuery
  <2>2. to_server' = Take(to_server, m)
      BY <2>1
  <2> QED
      BY <1>1, <2>2
<1>7. CASE RecUnknown(s)
    BY <1>1, <1>7 DEF RecUnknown
<1>8. CASE RecAck(s)
  <2>1. \E mails \in {AckTransfer(s, Head(from_next[s])), {}} :
           to_server' = Deliver(to_server, mails)
      BY <1>8 DEF RecAck
  <2> QED
      BY <1>1, <1>2, <1>3, <2>1
<1>9. CASE RecOtherBank(s)
    BY <1>1, <1>9 DEF RecOtherBank
<1> QED
    BY <1>4, <1>5, <1>6, <1>7, <1>8, <1>9 DEF ServerStep, ReceiveStep, RecClient

\* send_request: what enters the network is the next entry of the queue, under a
\* name that has not left yet, or nothing enters it.
LEMMA RequestLeaves ==
    ASSUME TypeOK, NEW c \in Clients, NEW received, SendRequest(c, received)
    PROVE  \/ next_req' = next_req /\ to_server' = to_server
           \/ \E q \in Request :
                /\ NameOf(q) = <<c, next_req[c] + 1>>
                /\ next_req' = [next_req EXCEPT ![c] = @ + 1]
                /\ DOMAIN to_server' \subseteq DOMAIN to_server \cup
                      {x \in {Mail("REQUEST", PortFor(c, q), q)} : x.to # NoServer}
<1>0. next_req \in [Clients -> Nat]
    BY DEF TypeOK, ClientTypeOK
<1> DEFINE q == Queue(c)[next_req[c] + 1]
<1>1. CASE next_req[c] < Len(Queue(c)) /\ received = next_req[c]
  <2>1. /\ next_req' = [next_req EXCEPT ![c] = @ + 1]
        /\ to_server' = Deliver(to_server, {Mail("REQUEST", PortFor(c, q), q)})
      BY <1>1 DEF SendRequest, SendTo
  <2>2. q \in Request /\ NameOf(q) = <<c, next_req[c] + 1>>
    <3>1. /\ Queue(c) \in Seq(Request)
          /\ \A k \in 1 .. Len(Queue(c)) :
                Queue(c)[k].sent_id = k /\ Queue(c)[k].client_port = c
        BY WorkloadAssumption DEF Queue
    <3>2. next_req[c] + 1 \in 1 .. Len(Queue(c))
        BY <1>0, <1>1, <3>1
    <3> HIDE DEF Queue
    <3> QED
        BY <3>1, <3>2 DEF NameOf
  <2> HIDE DEF q
  <2> QED
      BY <2>1, <2>2, DeliverProperty
<1>2. CASE ~(next_req[c] < Len(Queue(c)) /\ received = next_req[c])
    BY <1>2 DEF SendRequest
<1> QED
    BY <1>1, <1>2

\* A client that sends nothing again sends one request, or reads a message.
LEMMA ClientStepLeaves ==
    ASSUME NoResends, TypeOK, NEW c \in Clients, ClientStep(c)
    PROVE  /\ UNCHANGED serverState
           /\ \E received : SendRequest(c, received) \/ UNCHANGED <<next_req, to_server>>
           /\ DOMAIN to_client' \subseteq DOMAIN to_client
           /\ \/ tail_port' = tail_port
              \/ /\ to_server' = to_server
                 /\ \E m \in DOMAIN to_client :
                      /\ m.op = "SET_HEAD_TAIL"
                      /\ tail_port' = IF m.bank_id = BankOf[c]
                                      THEN [tail_port EXCEPT ![c] = m.tail_port] ELSE tail_port
<1>1. CASE StartClient(c)
    BY <1>1 DEF StartClient
<1>2. CASE RecvReply(c)
    BY <1>2, TakeProperty DEF RecvReply
<1>3. CASE RecvSetHeadTail(c)
    BY <1>3, TakeProperty DEF RecvSetHeadTail
<1>4. ASSUME NEW k \in 1 .. Len(Queue(c)), CheckReceive(c, k) PROVE FALSE
  <2>1. whether_resend_newhead[c] /\ my_resend_time[c][k] < resend_times[c]
      BY <1>4 DEF CheckReceive
  <2>2. my_resend_time[c][k] \in Nat
      BY DEF TypeOK, ClientTypeOK
  <2> QED
      BY <2>1, <2>2 DEF NoResends
<1> QED
    BY <1>1, <1>2, <1>3, <1>4 DEF ClientStep, RecvMsg

\* Clients go on knowing their tails, and their queries go there.
LEMMA TailsKnownStep ==
    ASSUME NoResends, ProperEntries, FreshCopies, RightBanks, HistoriesExplain,
           SentAccounted, LedgerInvariant, [Next]_vars
    PROVE  TailsKnown'
<1>0. /\ TypeOK /\ TailsKnown /\ RepliesCounted
      /\ tail_port \in [Clients -> Servers \cup {NoServer}]
    BY DEF FreshCopies, HeadFrame, LedgerInvariant, TypeOK, ClientTypeOK
<1>1. ASSUME NEW s \in Servers, ServerStep(s) PROVE TailsKnown'
  <2>1. \A x \in LettersIn(to_server') :
              x \in LettersIn(to_server) \/ x.req.type # "getBalance"
      BY <1>1, ServerLetters
  <2>2. \A x \in DOMAIN to_client' : x.op = "SET_HEAD_TAIL" => x \in DOMAIN to_client
      BY <1>0, <1>1, ServerStepSeen, ServerMail
  <2>3. tail_port' = tail_port
      BY <1>1 DEF ServerStep, clientState
  <2> QED
      BY <1>0, <2>1, <2>2, <2>3, TailsKnownKept
<1>2. ASSUME NEW c \in Clients, ClientStep(c) PROVE TailsKnown'
  <2>1. /\ DOMAIN to_client' \subseteq DOMAIN to_client
        /\ \E received : SendRequest(c, received) \/ UNCHANGED <<next_req, to_server>>
        /\ \/ tail_port' = tail_port
           \/ /\ to_server' = to_server
              /\ \E m \in DOMAIN to_client :
                      /\ m.op = "SET_HEAD_TAIL"
                      /\ tail_port' = IF m.bank_id = BankOf[c]
                                      THEN [tail_port EXCEPT ![c] = m.tail_port] ELSE tail_port
      BY <1>0, <1>2, ClientStepLeaves
  <2>2. ASSUME NEW x \in LettersIn(to_server'), x \notin LettersIn(to_server),
               x.req.type = "getBalance"
        PROVE  x.to = LastServer(BankOf[x.req.client_port])
    <3>1. PICK received : SendRequest(c, received) \/ UNCHANGED <<next_req, to_server>>
        BY <2>1
    <3>2. SendRequest(c, received) /\ to_server' # to_server
        BY <2>2, <3>1
    <3>3. PICK q \in Request :
                /\ NameOf(q) = <<c, next_req[c] + 1>>
                /\ DOMAIN to_server' \subseteq DOMAIN to_server \cup
                      {y \in {Mail("REQUEST", PortFor(c, q), q)} : y.to # NoServer}
        BY <1>0, <3>2, RequestLeaves
    <3>4. x = Mail("REQUEST", PortFor(c, q), q) /\ x.to # NoServer
        BY <2>2, <3>3 DEF LettersIn
    <3>5. x.req = q /\ x.to = tail_port[c] /\ q.client_port = c
        BY <2>2, <3>3, <3>4 DEF Mail, PortFor, NameOf
    <3> QED
        BY <1>0, <3>4, <3>5 DEF TailsKnown
  <2>3. ASSUME NEW d \in Clients
        PROVE  tail_port'[d] \in {tail_port[d], LastServer(BankOf[d])}
    <3>1. CASE tail_port' = tail_port
        BY <3>1
    <3>2. CASE tail_port' # tail_port
      <4>1. PICK m \in DOMAIN to_client :
               /\ m.op = "SET_HEAD_TAIL" /\ m.bank_id = BankOf[c]
               /\ tail_port' = [tail_port EXCEPT ![c] = m.tail_port]
          BY <2>1, <3>2
      <4>2. m.tail_port = LastServer(BankOf[c])
          BY <1>0, <4>1 DEF TailsKnown
      <4> QED
          BY <1>0, <4>1, <4>2
    <3> QED
        BY <3>1, <3>2
  <2> QED
      BY <1>0, <2>1, <2>2, <2>3, TailsKnownKept
<1>3. CASE Lose
  <2>1. /\ tail_port' = tail_port
        /\ DOMAIN to_client' \subseteq DOMAIN to_client
        /\ DOMAIN to_server' \subseteq DOMAIN to_server
      BY <1>3, TakeProperty DEF Lose, clientState
  <2> QED
      BY <1>0, <2>1, TailsKnownKept DEF LettersIn
<1>4. CASE UNCHANGED vars
    BY <1>0, <1>4 DEF vars, network, clientState, TailsKnown
<1> QED
    BY <1>1, <1>2, <1>3, <1>4 DEF Next

--------------------------------------------------------------------------------
\* Answers are final.

\* A name that has left its queue and is not under way does not come back.
LEMMA NamesStay ==
    ASSUME NEW n, LastServer(Home(n)) \in Servers, ~Pending(n),
           \A e \in UnderWay' : \/ NameOf(e[1]) # n
                                \/ \E g \in UnderWay : NameOf(g[1]) = NameOf(e[1]),
           \A t \in Servers : n \in Names(sent'[t]) =>
              n \in Names(sent[t]) \/ \E g \in UnderWay : NameOf(g[1]) = n
    PROVE  ~Pending(n)'
    BY DEF Pending, Awaited

\* An update that a server handles is one that was under way.
LEMMA HandledNames ==
    ASSUME TypeOK, TopologyInit, NEW s \in Servers, NEW r \in Request, MovesOn(s, r), NEW P,
           sent' = [sent EXCEPT ![s] = IF P THEN Append(@, r) ELSE @],
           \E e \in UnderWay : NameOf(e[1]) = NameOf(r)
    PROVE  /\ \A e \in UnderWay' : \E g \in UnderWay : NameOf(g[1]) = NameOf(e[1])
           /\ \A t \in Servers : \A n \in Names(sent'[t]) :
                 n \in Names(sent[t]) \/ \E g \in UnderWay : NameOf(g[1]) = n
<1>1. \A f \in Passed(s, r) : f[1] = r
    BY PassedAhead
<1>2. \A t \in Servers :
         \/ sent'[t] = sent[t]
         \/ t = s /\ Names(sent'[t]) = Names(sent[t]) \cup {NameOf(r)}
    BY SentName
<1> QED
    BY <1>1, <1>2 DEF MovesOn

\* No server makes up a name.
LEMMA ServerNames ==
    ASSUME FreshCopies, RightBanks, SentAccounted, NEW s \in Servers, ServerStep(s)
    PROVE  /\ \A e \in UnderWay' : \E g \in UnderWay : NameOf(g[1]) = NameOf(e[1])
           /\ \A t \in Servers : \A n \in Names(sent'[t]) :
                 n \in Names(sent[t]) \/ \E g \in UnderWay : NameOf(g[1]) = n
<1>0. /\ TypeOK /\ TopologyInit /\ Single(to_server) /\ UNCHANGED clientState
      /\ sent \in [Servers -> Seq(Request)]
    BY ListTypes DEF FreshCopies, HeadFrame, OneCopy, ServerStep
<1>1. ASSUME LettersIn(to_server') \subseteq LettersIn(to_server), from_pre' = from_pre,
             \A t \in Servers : Names(sent'[t]) \subseteq Names(sent[t])
      PROVE  /\ \A e \in UnderWay' : \E g \in UnderWay : NameOf(g[1]) = NameOf(e[1])
             /\ \A t \in Servers : \A n \in Names(sent'[t]) :
                   n \in Names(sent[t]) \/ \E g \in UnderWay : NameOf(g[1]) = n
  <2>1. UnderWay' \subseteq UnderWay
      BY <1>1 DEF UnderWay, Posted
  <2> QED
      BY <1>1, <2>1
<1>2. CASE RecUpdate(s)
  <2>1. PICK m \in LettersIn(to_server), r \in Request :
           /\ HeadHandles(s, m, r) /\ NameOf(r) = NameOf(m.req)
           /\ <<m.req, s, "letter">> \in UnderWay /\ MovesOn(s, r)
      BY <1>0, <1>2, RecUpdateMoves
  <2>2. \E P : sent' = [sent EXCEPT ![s] = IF P THEN Append(@, r) ELSE @]
      BY <2>1 DEF HeadHandles
  <2>3. \E e \in UnderWay : NameOf(e[1]) = NameOf(r)
      BY <2>1
  <2> QED
      BY <1>0, <2>1, <2>2, <2>3, HandledNames
<1>3. CASE RecForward(s)
  <2>1. PICK q \in Request :
           Relays(s, q) /\ <<q, s, "stream">> \in UnderWay /\ MovesOn(s, q)
      BY <1>0, <1>3, RecForwardMoves
  <2>2. \E P : sent' = [sent EXCEPT ![s] = IF P THEN Append(@, q) ELSE @]
      BY <2>1 DEF Relays
  <2>3. \E e \in UnderWay : NameOf(e[1]) = NameOf(q)
      BY <2>1
  <2> QED
      BY <1>0, <2>1, <2>2, <2>3, HandledNames
<1>4. CASE RecQuery(s)
  <2>1. PICK m \in DOMAIN to_server : RecQuery(s)!(m)
      BY <1>4 DEF RecQuery
  <2>2. to_server' = Take(to_server, m) /\ from_pre' = from_pre
      BY <1>4, <2>1 DEF RecQuery
  <2>3. \/ sent' = [sent EXCEPT ![s] = @]
        \/ \E r : sent' = [sent EXCEPT ![s] = DeleteSent(@, r)]
      BY <2>1
  <2>4. \A t \in Servers : Names(sent'[t]) \subseteq Names(sent[t])
      BY <1>0, <2>3, DeletedNames
  <2> QED
      BY <1>0, <1>1, <2>2, <2>4, TakeLetters
<1>5. CASE RecUnknown(s)
    BY <1>0, <1>1, <1>5, TakeLetters DEF RecUnknown, serverState
<1>6. CASE RecAck(s)
  <2>1. /\ sent' = [sent EXCEPT ![s] = DeleteSent(@, Head(from_next[s]))]
        /\ \E mails \in {AckTransfer(s, Head(from_next[s])), {}} :
              to_server' = Deliver(to_server, mails)
        /\ from_pre' = from_pre
      BY <1>6 DEF RecAck
  <2>2. PICK mails \in {AckTransfer(s, Head(from_next[s])), {}} :
              to_server' = Deliver(to_server, mails)
      BY <2>1
  <2>3. \A x \in mails : x.op # "REQUEST"
      BY <2>2 DEF AckTransfer, Mail
  <2>4. LettersIn(to_server') = LettersIn(to_server)
      BY <1>0, <2>2, <2>3, OtherMail
  <2> QED
      BY <1>0, <1>1, <2>1, <2>4, DeletedNames
<1>7. CASE RecOtherBank(s)
  <2>1. PICK m \in DOMAIN to_server : /\ sent' = [sent EXCEPT ![s] = DeleteSent(@, m.req)]
                                      /\ to_server' = Take(to_server, m)
                                      /\ from_pre' = from_pre
      BY <1>7 DEF RecOtherBank
  <2> QED
      BY <1>0, <1>1, <2>1, DeletedNames, TakeLetters
<1> QED
    BY <1>2, <1>3, <1>4, <1>5, <1>6, <1>7 DEF ServerStep, ReceiveStep, RecClient

\* What has left stays left, and what is not pending any more stays so.
LEMMA PendingFalls ==
    ASSUME NoResends, FreshCopies, RightBanks, SentAccounted, [Next]_vars,
           NEW c \in Clients, NEW k \in Nat, HasLeft(<<c, k>>)
    PROVE  HasLeft(<<c, k>>)' /\ (Pending(<<c, k>>)' => Pending(<<c, k>>))
<1> DEFINE n == <<c, k>>
<1>0. /\ TypeOK /\ next_req \in [Clients -> Nat]
      /\ n[1] = c /\ n[2] = k
    BY DEF FreshCopies, HeadFrame, TypeOK, ClientTypeOK
<1>1. LastServer(Home(n)) \in Servers
  <2>1. BankOf[c] \in Banks
      BY BankOfAssumption
  <2> QED
      BY <2>1, ChainEnds DEF Home
<1> HIDE DEF n
<1>2. ASSUME next_req' = next_req, LettersIn(to_server') \subseteq LettersIn(to_server),
             from_pre' = from_pre, sent' = sent
      PROVE  HasLeft(n)' /\ (Pending(n)' => Pending(n))
  <2>1. UnderWay' \subseteq UnderWay
      BY <1>2 DEF UnderWay, Posted
  <2> QED
      BY <1>2, <2>1 DEF HasLeft, Pending, Awaited, n
<1>3. ASSUME NEW s \in Servers, ServerStep(s)
      PROVE  HasLeft(n)' /\ (Pending(n)' => Pending(n))
  <2>1. next_req' = next_req
      BY <1>3 DEF ServerStep, clientState
  <2>2. ~Pending(n) => ~Pending(n)'
      BY <1>1, <1>3, ServerNames, NamesStay
  <2> QED
      BY <2>1, <2>2 DEF HasLeft, n
<1>4. ASSUME NEW d \in Clients, ClientStep(d)
      PROVE  HasLeft(n)' /\ (Pending(n)' => Pending(n))
  <2>1. /\ UNCHANGED serverState
        /\ \E received : SendRequest(d, received) \/ UNCHANGED <<next_req, to_server>>
      BY <1>0, <1>4, ClientStepLeaves
  <2>2. sent' = sent /\ from_pre' = from_pre
      BY <2>1 DEF serverState
  <2>3. CASE next_req' = next_req /\ to_server' = to_server
      BY <1>2, <2>2, <2>3
  <2>4. CASE ~(next_req' = next_req /\ to_server' = to_server)
    <3>1. PICK q \in Request :
                /\ NameOf(q) = <<d, next_req[d] + 1>>
                /\ next_req' = [next_req EXCEPT ![d] = @ + 1]
                /\ DOMAIN to_server' \subseteq DOMAIN to_server \cup
                      {x \in {Mail("REQUEST", PortFor(d, q), q)} : x.to # NoServer}
        BY <1>0, <2>1, <2>4, RequestLeaves
    <3>2. HasLeft(n)'
        BY <1>0, <3>1 DEF HasLeft
    <3>3. NameOf(q) # n
        BY <1>0, <3>1 DEF HasLeft, n
    <3>4. \A x \in LettersIn(to_server') : x \in LettersIn(to_server) \/ x.req = q
        BY <3>1 DEF LettersIn, Mail
    <3>5. \A e \in UnderWay' : e \in UnderWay \/ e[1] = q
        BY <2>2, <3>4 DEF UnderWay, Posted
    <3> QED
        BY <2>2, <3>2, <3>3, <3>5 DEF Pending, Awaited
  <2> QED
      BY <2>3, <2>4
<1>5. CASE Lose
  <2>1. /\ DOMAIN to_server' \subseteq DOMAIN to_server
        /\ next_req' = next_req /\ from_pre' = from_pre /\ sent' = sent
      BY <1>5, TakeProperty DEF Lose, clientState, serverState
  <2> QED
      BY <1>2, <2>1 DEF LettersIn, n
<1>6. CASE UNCHANGED vars
    BY <1>2, <1>6 DEF vars, network, clientState, serverState, n
<1> QED
    BY <1>3, <1>4, <1>5, <1>6 DEF Next, n

\* The reply x ends the request q of a tail's step.
Ends(q, x) ==
    /\ x.op = "SER_RPY" /\ NameOf(q) = <<x.to, x.sent_id>> /\ x.to \in Clients
    /\ HasLeft(NameOf(q))' /\ Pending(NameOf(q)) /\ ~Pending(NameOf(q))'
    /\ to_client' = Deliver(to_client, {x}) /\ log' = log

\* The update that a tail answers when it files it is done with.
LEMMA FiledEnds ==
    ASSUME FreshCopies, next_req' = next_req, NEW s \in Servers, NEW r \in Request, TailFiles(s, r),
           ~PaysAbroad(s, r), ~Receives(s, r)
    PROVE  Ends(r, ReplyTo(r, Outcome(r), balance_map'[s]))
<1>0. TypeOK /\ TopologyInit /\ Unsent
    BY DEF FreshCopies, HeadFrame
<1>1. /\ to_client' = Deliver(to_client, {ReplyTo(r, Outcome(r), balance_map'[s])})
      /\ log' = log
    BY DEF TailFiles
<1>2. HasLeft(NameOf(r)) /\ Pending(NameOf(r))
    BY <1>0 DEF TailFiles, Unsent, Pending
<1>3. HasLeft(NameOf(r))'
    BY <1>2 DEF HasLeft
<1>4. Bank(s) = Home(NameOf(r)) /\ s = LastServer(Home(NameOf(r)))
    BY DEF TailFiles, Reached, Receives, Home, NameOf, IsLast
<1>5. NameOf(r) \notin Names(sent'[s])
  <2>1. sent'[s] = sent[s]
      BY <1>0, ListTypes DEF TailFiles
  <2> QED
      BY <2>1 DEF TailFiles
<1>6. Passed(s, r) = {}
  <2>1. my_type[s] \notin {"HEAD", "INTER"}
      BY <1>0, Places DEF TailFiles
  <2> QED
      BY <2>1 DEF Passed
<1>7. \A e \in UnderWay' : NameOf(e[1]) # NameOf(r)
    BY <1>6 DEF TailFiles, MovesOn
<1>8. ~Pending(NameOf(r))'
    BY <1>4, <1>5, <1>7 DEF Pending, Awaited
<1> QED
    BY <1>1, <1>2, <1>3, <1>8, ReplySent DEF Ends

\* So is a query that is answered.
LEMMA ReportedEnds ==
    ASSUME FreshCopies, next_req' = next_req, NEW s \in Servers, NEW q \in Request, TailReports(s, q)
    PROVE  Ends(q, ReplyTo(q, "Processed", balance_map[s]))
<1>0. TypeOK /\ TopologyInit /\ Unsent
    BY DEF FreshCopies, HeadFrame
<1>1. /\ to_client' = Deliver(to_client, {ReplyTo(q, "Processed", balance_map[s])})
      /\ log' = log
    BY DEF TailReports
<1>2. HasLeft(NameOf(q)) /\ Pending(NameOf(q))
    BY <1>0 DEF TailReports, Unsent, Pending
<1>3. HasLeft(NameOf(q))'
    BY <1>2 DEF HasLeft
<1>4. s = LastServer(Home(NameOf(q)))
    BY DEF TailReports, Home, NameOf
<1>5. ~Pending(NameOf(q))'
    BY <1>4 DEF TailReports, Pending, Awaited
<1> QED
    BY <1>1, <1>2, <1>3, <1>5, ReplySent DEF Ends

\* So is a transfer that the payee's bank has acknowledged.
LEMMA ClosedEnds ==
    ASSUME FreshCopies, SentAccounted, next_req' = next_req,
           NEW s \in Servers, NEW q \in Request, TailCloses(s, q)
    PROVE  /\ Ends(q, ReplyTo(q, Outcome(q), balance_map[s]))
           /\ s = LastServer(Home(NameOf(q)))
           /\ Names(sent'[s]) = Names(sent[s]) \ {NameOf(q)}
           /\ \A t \in Servers \ {s} : sent'[t] = sent[t]
<1>0. TypeOK /\ TopologyInit /\ Unsent /\ ListsDivided
    BY DEF FreshCopies, HeadFrame, SentAccounted
<1>1. /\ to_client' = Deliver(to_client, {ReplyTo(q, Outcome(q), balance_map[s])})
      /\ log' = log
    BY DEF TailCloses
<1>2. s = LastServer(Home(NameOf(q)))
    BY DEF TailCloses, Home, NameOf
<1>3. HasLeft(NameOf(q)) /\ Pending(NameOf(q))
    BY <1>0, <1>2 DEF TailCloses, Unsent, Pending, Awaited
<1>4. HasLeft(NameOf(q))'
    BY <1>3 DEF HasLeft
<1>5. /\ Names(sent'[s]) = Names(sent[s]) \ {NameOf(q)}
      /\ \A t \in Servers \ {s} : sent'[t] = sent[t]
    BY <1>0, SentDistinctDelete DEF TailCloses, ListsDivided
<1>6. ~Pending(NameOf(q))'
    BY <1>2, <1>5 DEF TailCloses, Pending, Awaited
<1> QED
    BY <1>1, <1>2, <1>3, <1>4, <1>5, <1>6, ReplySent DEF Ends

\* Replies are answers to requests of their client.
LEMMA RepliesNamed ==
    ASSUME TypeOK, NEW c \in Clients, NEW m \in Replies(c)
    PROVE  m \in Reply /\ m.sent_id \in Nat
<1>1. CASE m \in DOMAIN to_client /\ m.op = "SER_RPY"
    BY <1>1 DEF TypeOK, ClientTypeOK, SetHeadTails, Reply
<1>2. CASE m \in ToSet(log[c])
  <2>1. log[c] \in Seq(Reply)
      BY DEF TypeOK, ClientTypeOK
  <2>2. PICK i \in DOMAIN log[c] : m = log[c][i]
      BY <1>2 DEF ToSet
  <2>3. m \in Reply
      BY <2>1, <2>2
  <2> QED
      BY <2>3 DEF Reply
<1> QED
    BY <1>1, <1>2 DEF Replies

\* What clients may have been told in a step of a server.
LEMMA ServerReplies ==
    ASSUME ProperEntries, FreshCopies, RightBanks, HistoriesExplain, SentAccounted,
           LedgerInvariant, NEW s \in Servers, ServerStep(s)
    PROVE  \/ \A c \in Clients : Replies(c)' = Replies(c)
           \/ \E q \in Request : \E x :
                 /\ Ends(q, x)
                 /\ \A c \in Clients : Replies(c)' = Replies(c) \cup {y \in {x} : y.to = c}
<1>0. /\ next_req' = next_req /\ RepliesCounted
    BY DEF ServerStep, clientState, LedgerInvariant
<1>1. ASSUME to_client' = to_client \/ to_client' = Deliver(to_client, {}), log' = log
      PROVE  \A c \in Clients : Replies(c)' = Replies(c)
  <2>1. CASE to_client' = to_client
      BY <1>1, <2>1 DEF Replies
  <2>2. CASE to_client' = Deliver(to_client, {})
    <3> DEFINE mails == {}
    <3>1. to_client' = Deliver(to_client, mails)
          /\ \A x \in mails : x.op = "SER_RPY" /\ x.to \in Clients
        BY <2>2
    <3> HIDE DEF mails
    <3>2. \A c \in Clients : Replies(c)' = Replies(c) \cup {x \in mails : x.to = c}
        BY <1>0, <1>1, <3>1, RepliesSent
    <3> QED
        BY <3>2 DEF mails
  <2> QED
      BY <1>1, <2>1, <2>2
<1>2. ASSUME NEW q \in Request, NEW x, Ends(q, x)
      PROVE  \A c \in Clients : Replies(c)' = Replies(c) \cup {y \in {x} : y.to = c}
  <2> DEFINE mails == {x}
  <2>1. /\ to_client' = Deliver(to_client, mails) /\ log' = log
        /\ \A y \in mails : y.op = "SER_RPY" /\ y.to \in Clients
      BY <1>2 DEF Ends
  <2> HIDE DEF mails
  <2>2. \A c \in Clients : Replies(c)' = Replies(c) \cup {y \in mails : y.to = c}
      BY <1>0, <2>1, RepliesSent
  <2> QED
      BY <2>2 DEF mails
<1>3. CASE Unseen
    BY <1>1, <1>3 DEF Unseen
<1>4. ASSUME NEW r \in Request, TailFiles(s, r)
      PROVE  \/ \A c \in Clients : Replies(c)' = Replies(c)
             \/ \E x : Ends(r, x)
  <2>1. CASE ~PaysAbroad(s, r) /\ ~Receives(s, r)
      BY <1>0, <1>4, <2>1, FiledEnds
  <2>2. CASE ~(~PaysAbroad(s, r) /\ ~Receives(s, r))
    <3>1. to_client' = Deliver(to_client, {}) /\ log' = log
        BY <1>4, <2>2 DEF TailFiles
    <3> QED
        BY <1>1, <3>1
  <2> QED
      BY <2>1, <2>2
<1>5. ASSUME NEW q \in Request, TailReports(s, q) \/ TailCloses(s, q)
      PROVE  \E x : Ends(q, x)
    BY <1>0, <1>5, ReportedEnds, ClosedEnds
<1> QED
    BY <1>2, <1>3, <1>4, <1>5, ServerStepSeen

\* A request that is answered stays so, and is under way no more.
LEMMA AnswersFinalStep ==
    ASSUME NoResends, ProperEntries, FreshCopies, RightBanks, HistoriesExplain,
           SentAccounted, LedgerInvariant, [Next]_vars
    PROVE  RepliesCounted' /\ AnswersFinal'
<1>0. TypeOK /\ RepliesCounted /\ AnswersFinal
    BY DEF FreshCopies, HeadFrame, LedgerInvariant
<1>1. ASSUME NEW c \in Clients, NEW m \in Replies(c)
      PROVE  m.to = c /\ HasLeft(<<c, m.sent_id>>)' /\ ~Pending(<<c, m.sent_id>>)'
  <2>1. m.sent_id \in Nat
      BY <1>0, RepliesNamed
  <2>2. m.to = c /\ HasLeft(<<c, m.sent_id>>) /\ ~Pending(<<c, m.sent_id>>)
      BY <1>0 DEF AnswersFinal
  <2> QED
      BY <2>1, <2>2, PendingFalls
<1>2. ASSUME \A c \in Clients : Replies(c)' \subseteq Replies(c)
      PROVE  AnswersFinal'
    BY <1>1, <1>2 DEF AnswersFinal
<1>3. ASSUME NEW s \in Servers, ServerStep(s)
      PROVE  RepliesCounted' /\ AnswersFinal'
  <2>1. RepliesCounted'
      BY <1>0, <1>3, ServerStepSeen, ServerMail
  <2>2. CASE \A c \in Clients : Replies(c)' = Replies(c)
      BY <1>2, <2>1, <2>2
  <2>3. CASE ~\A c \in Clients : Replies(c)' = Replies(c)
    <3>0. PICK q \in Request : \E x :
             /\ Ends(q, x)
             /\ \A c \in Clients : Replies(c)' = Replies(c) \cup {y \in {x} : y.to = c}
        BY <1>3, <2>3, ServerReplies
    <3>1. PICK x :
             /\ Ends(q, x)
             /\ \A c \in Clients : Replies(c)' = Replies(c) \cup {y \in {x} : y.to = c}
        BY <3>0
    <3>2. ASSUME NEW c \in Clients, NEW m \in Replies(c)'
          PROVE  m.to = c /\ HasLeft(<<c, m.sent_id>>)' /\ ~Pending(<<c, m.sent_id>>)'
      <4>1. CASE m \in Replies(c)
          BY <1>1, <4>1
      <4>2. CASE m \notin Replies(c)
        <5>1. m = x /\ x.to = c
            BY <3>1, <4>2
        <5>2. NameOf(q) = <<c, m.sent_id>>
            BY <3>1, <5>1 DEF Ends
        <5> QED
            BY <3>1, <5>1, <5>2 DEF Ends
      <4> QED
          BY <4>1, <4>2
    <3> QED
        BY <2>1, <3>2 DEF AnswersFinal
  <2> QED
      BY <2>2, <2>3
<1>4. ASSUME NEW c \in Clients, ClientStep(c)
      PROVE  RepliesCounted' /\ AnswersFinal'
    BY <1>0, <1>2, <1>4, RepliesRead
<1>5. CASE Lose
    BY <1>0, <1>2, <1>5, RepliesLost
<1>6. CASE UNCHANGED vars
    BY <1>0, <1>2, <1>6 DEF vars, network, clientState, RepliesCounted, Replies
<1> QED
    BY <1>3, <1>4, <1>5, <1>6 DEF Next

--------------------------------------------------------------------------------
\* The ledger's state, and what a step of a tail makes of it.

\* Two records of one request.
Asks(q, r) ==
    /\ q.type = r.type /\ q.req_id = r.req_id /\ q.account_num = r.account_num
    /\ q.amount = r.amount /\ q.dest_bank_id = r.dest_bank_id
    /\ q.dest_account_num = r.dest_account_num /\ Content(q) = Content(r)

\* Every copy is made from an entry of a queue.
LEMMA EntryOf ==
    ASSUME NEW b, NEW r \in Reached(b)
    PROVE  /\ r.client_port \in Clients /\ r.sent_id \in 1 .. Len(Workload[r.client_port])
           /\ Asks(Workload[r.client_port][r.sent_id], r)
           /\ NameOf(r) = <<r.client_port, r.sent_id>>
           /\ Home(NameOf(r)) = BankOf[r.client_port] /\ r \in Request
<1>1. r \in Request /\ Genuine(r)
    BY DEF Reached
<1> DEFINE entry == Workload[r.client_port][r.sent_id]
<1>2. /\ r.client_port \in Clients /\ r.sent_id \in 1 .. Len(Workload[r.client_port])
      /\ r.type = entry.type /\ r.req_id = entry.req_id
      /\ r.account_num = entry.account_num /\ r.amount = entry.amount
      /\ r.dest_bank_id = entry.dest_bank_id
      /\ r.dest_account_num = entry.dest_account_num
    BY <1>1, GenuineEntry DEF Queue
<1> HIDE DEF entry
<1>3. Content(entry) = Content(r)
    BY <1>2 DEF Content
<1> QED
    BY <1>1, <1>2, <1>3 DEF Asks, NameOf, Home, entry

\* The tail of a bank.
LEMMA TailOf ==
    ASSUME TypeOK, NEW s \in Servers, IsLast(s)
    PROVE  /\ Bank(s) \in Banks /\ s = LastServer(Bank(s))
           /\ \A b \in Banks : LastServer(b) \in Servers /\ (b # Bank(s) => LastServer(b) # s)
           /\ TailAccounts[Bank(s)] = balance_map[s]
           /\ TailBooks[Bank(s)] = BookOf(processed_trans[s], insuf_funds_trans[s])
<1>1. Bank(s) \in Banks /\ s = LastServer(Bank(s))
    BY ChainEnds DEF IsLast
<1>2. \A b \in Banks : LastServer(b) \in Servers /\ (b # Bank(s) => LastServer(b) # s)
  <2>1. \A b : LastServer(b) = s => b = Bank(s)
      BY DEF LastServer, Bank
  <2> QED
      BY <2>1, ChainEnds
<1> QED
    BY <1>1, <1>2 DEF TailAccounts, TailBooks

\* An account on its own.
LEMMA AccountMoves ==
    ASSUME NEW f \in [Accounts -> Int], NEW g \in [Accounts -> Int],
           NEW acc \in Accounts, NEW amount \in Int,
           \A a \in Accounts : g[a] = f[a] + IF a = acc THEN amount ELSE 0
    PROVE  g = [f EXCEPT ![acc] = @ + amount]
<1> DEFINE h == [f EXCEPT ![acc] = @ + amount]
<1>1. h \in [Accounts -> Int] /\ \A a \in Accounts : h[a] = f[a] + IF a = acc THEN amount ELSE 0
    OBVIOUS
<1> HIDE DEF h
<1>2. \A a \in Accounts : g[a] = h[a]
    BY <1>1
<1>3. g = h
    BY <1>1, <1>2
<1> QED
    BY <1>3 DEF h

\* The ledger after the tail s has filed an update.
LEMMA FiledState ==
    ASSUME TypeOK, NEW s \in Servers, NEW r \in Request, TailFiles(s, r)
    PROVE  /\ TailBooks' = [TailBooks EXCEPT ![Bank(s)] =
                 BookOf(Filing("Need", processed_trans[s], Forwarding(r)),
                        Filing("InsufficientFunds", insuf_funds_trans[s], Forwarding(r)))]
           /\ TailAccounts' = [TailAccounts EXCEPT ![Bank(s)] = balance_map'[s]]
           /\ OpenTransfers' =
                 OpenTransfers \cup IF PaysAbroad(s, r) THEN {NameOf(r)} ELSE {}
<1>0. /\ processed_trans \in [Servers -> Seq(Request)]
      /\ insuf_funds_trans \in [Servers -> Seq(Request)]
      /\ sent \in [Servers -> Seq(Request)]
    BY DEF TypeOK, ServerTypeOK
<1>1. /\ Bank(s) \in Banks /\ s = LastServer(Bank(s))
      /\ \A b \in Banks : LastServer(b) \in Servers /\ (b # Bank(s) => LastServer(b) # s)
    BY TailOf DEF TailFiles
<1> DEFINE P == Filing("Need", processed_trans[s], Forwarding(r))
           I == Filing("InsufficientFunds", insuf_funds_trans[s], Forwarding(r))
<1>2. /\ processed_trans'[s] = P /\ insuf_funds_trans'[s] = I
      /\ \A t \in Servers \ {s} : /\ processed_trans'[t] = processed_trans[t]
                                  /\ insuf_funds_trans'[t] = insuf_funds_trans[t]
                                  /\ balance_map'[t] = balance_map[t]
    BY <1>0 DEF TailFiles, Balances
<1> HIDE DEF P, I
<1>3. TailBooks' = [TailBooks EXCEPT ![Bank(s)] = BookOf(P, I)]
  <2>1. \A b \in Banks :
           BookOf(processed_trans'[LastServer(b)], insuf_funds_trans'[LastServer(b)])
             = IF b = Bank(s) THEN BookOf(P, I) ELSE TailBooks[b]
      BY <1>1, <1>2 DEF TailBooks
  <2>2. TailBooks' = [b \in Banks |->
           BookOf(processed_trans'[LastServer(b)], insuf_funds_trans'[LastServer(b)])]
      BY DEF TailBooks
  <2>3. DOMAIN TailBooks = Banks
      BY DEF TailBooks
  <2> QED
      BY <2>1, <2>2, <2>3
<1>4. TailAccounts' = [TailAccounts EXCEPT ![Bank(s)] = balance_map'[s]]
  <2>1. \A b \in Banks : balance_map'[LastServer(b)] =
           IF b = Bank(s) THEN balance_map'[s] ELSE TailAccounts[b]
      BY <1>1, <1>2 DEF TailAccounts
  <2>2. TailAccounts' = [b \in Banks |-> balance_map'[LastServer(b)]]
      BY DEF TailAccounts
  <2>3. DOMAIN TailAccounts = Banks
      BY DEF TailAccounts
  <2> QED
      BY <2>1, <2>2, <2>3
<1>5. OpenTransfers' = OpenTransfers \cup IF PaysAbroad(s, r) THEN {NameOf(r)} ELSE {}
  <2>1. /\ \A t \in Servers \ {s} : sent'[t] = sent[t]
        /\ Names(sent'[s]) = Names(sent[s]) \cup IF PaysAbroad(s, r) THEN {NameOf(r)} ELSE {}
    <3>1. Names(Append(sent[s], r)) = Names(sent[s]) \cup {NameOf(r)}
        BY <1>0, NamesAppend
    <3> QED
        BY <1>0, <3>1 DEF TailFiles
  <2>2. \A b \in Banks : Names(sent'[LastServer(b)]) = Names(sent[LastServer(b)]) \cup
           IF b = Bank(s) /\ PaysAbroad(s, r) THEN {NameOf(r)} ELSE {}
      BY <1>1, <2>1
  <2>3. \A n : /\ n \in OpenTransfers' <=> \E b \in Banks : n \in Names(sent'[LastServer(b)])
               /\ n \in OpenTransfers <=> \E b \in Banks : n \in Names(sent[LastServer(b)])
      BY DEF OpenTransfers
  <2>4. \A n : n \in OpenTransfers' <=>
                  n \in OpenTransfers \/ (PaysAbroad(s, r) /\ n = NameOf(r))
      BY <1>1, <2>2, <2>3
  <2> QED
      BY <2>4
<1> QED
    BY <1>3, <1>4, <1>5 DEF P, I

\* A reply as the ledger records it.
AnswerOf(m) ==
    [client |-> m.to, sent_id |-> m.sent_id, outcome |-> m.outcome, balance |-> m.balance]

\* A reply that ends a request adds its answer.
LEMMA AnswerAdded ==
    ASSUME RepliesCounted, NEW q, NEW x, Ends(q, x)
    PROVE  Answers' = Answers \cup {AnswerOf(x)}
<1> DEFINE mails == {x}
<1>1. /\ to_client' = Deliver(to_client, mails) /\ log' = log
      /\ \A y \in mails : y.op = "SER_RPY" /\ y.to \in Clients
    BY DEF Ends
<1> HIDE DEF mails
<1>2. \A c \in Clients : Replies(c)' = Replies(c) \cup {y \in mails : y.to = c}
    BY <1>1, RepliesSent
<1>3. \A a : /\ a \in Answers' <=> \E c \in Clients : \E m \in Replies(c)' : a = AnswerOf(m)
             /\ a \in Answers <=> \E c \in Clients : \E m \in Replies(c) : a = AnswerOf(m)
    BY DEF Answers, AnswerOf
<1>4. x.to \in Clients
    BY DEF Ends
<1>5. \A a : a \in Answers' <=> a \in Answers \/ a = AnswerOf(x)
    BY <1>2, <1>3, <1>4 DEF mails
<1> QED
    BY <1>5

\* The same replies are the same answers.
LEMMA AnswersSame ==
    ASSUME \A c \in Clients : Replies(c)' = Replies(c)
    PROVE  Answers' = Answers
    BY DEF Answers

\* A request that is pending has no answer.
LEMMA NoAnswer ==
    ASSUME AnswersFinal, NEW c, NEW k, Pending(<<c, k>>)
    PROVE  ~ \E a \in Answers : a.client = c /\ a.sent_id = k
<1> SUFFICES ASSUME NEW a \in Answers, a.client = c, a.sent_id = k PROVE FALSE
    OBVIOUS
<1>1. PICK d \in Clients : \E m \in Replies(d) : a = AnswerOf(m)
    BY DEF Answers, AnswerOf
<1>2. PICK m \in Replies(d) : a = AnswerOf(m)
    BY <1>1
<1>3. m.to = c /\ m.sent_id = k
    BY <1>2 DEF AnswerOf
<1> QED
    BY <1>3 DEF AnswersFinal

--------------------------------------------------------------------------------
\* A step of a tail is a step of the ledger.

\* A bound id as the ledger writes it.
LEMMA LedgerBind ==
    ASSUME NEW b \in Banks, NEW q, NEW r, Asks(q, r), NEW result
    PROVE  L!Bind(b, q, result) = [TailBooks EXCEPT ![b] = Bound(TailBooks[b], r, result)]
<1>1. Bound(TailBooks[b], r, result) =
        [id \in DOMAIN TailBooks[b] \cup {q.req_id} |->
           IF id = q.req_id THEN [content |-> Content(q), outcome |-> result]
                            ELSE TailBooks[b][id]]
    BY DEF Bound, Item, Asks
<1> DEFINE B == TailBooks[b]
<1>2. b \in DOMAIN TailBooks
    BY DEF TailBooks
<1>3. L!Bind(b, q, result) = [TailBooks EXCEPT ![b] =
         [id \in DOMAIN B \cup {q.req_id} |->
            IF id = q.req_id THEN [content |-> Content(q), outcome |-> result] ELSE B[id]]]
    BY <1>2 DEF L!Bind, L!Content, Content
<1> HIDE DEF B
<1> QED
    BY <1>1, <1>3 DEF B

\* The ledger's verdict on a request.
LEMMA LedgerVerdict ==
    ASSUME NEW b, NEW q, NEW r, Asks(q, r)
    PROVE  L!Verdict(b, q) = Ruling(TailBooks[b], r)
<1>1. q.req_id = r.req_id /\ Content(q) = Content(r)
    BY DEF Asks
<1>2. L!Verdict(b, q) = IF TailBooks[b][q.req_id].content = Content(q)
                        THEN TailBooks[b][q.req_id].outcome ELSE "InconsistentWithHistory"
    BY DEF L!Verdict, L!Content, Content
<1> QED
    BY <1>1, <1>2 DEF Ruling

\* Answering a request that is pending.
LEMMA LedgerAnswer ==
    ASSUME RepliesCounted, AnswersFinal, NEW c, NEW k, NEW q \in Request,
           NameOf(q) = <<c, k>>, NEW result, NEW balances,
           Ends(q, ReplyTo(q, result, balances)), NEW balance, balance = balances[q.account_num]
    PROVE  L!Answer(c, k, result, balance)
<1> DEFINE x == ReplyTo(q, result, balances)
<1>1. Answers' = Answers \cup {AnswerOf(x)}
    BY AnswerAdded
<1>2. AnswerOf(x) = [client |-> c, sent_id |-> k, outcome |-> result, balance |-> balance]
    BY DEF AnswerOf, ReplyTo, NameOf
<1>3. ~ \E a \in Answers : a.client = c /\ a.sent_id = k
    BY NoAnswer DEF Ends
<1> QED
    BY <1>1, <1>2, <1>3 DEF L!Answer

\* A query that a tail answers is one of the ledger's.
LEMMA ReportedStep ==
    ASSUME FreshCopies, LedgerInvariant, next_req' = next_req,
           NEW s \in Servers, NEW q \in Request, TailReports(s, q)
    PROVE  L!LedgerNext
<1>0. TypeOK /\ RepliesCounted /\ AnswersFinal
    BY DEF FreshCopies, HeadFrame, LedgerInvariant
<1>1. PICK c, k, e : c = q.client_port /\ k = q.sent_id /\ e = Workload[c][k]
    OBVIOUS
<1>2. /\ c \in Clients /\ k \in 1 .. Len(Workload[c]) /\ Asks(e, q)
      /\ NameOf(q) = <<c, k>>
    BY <1>1, EntryOf DEF TailReports
<1>3. e.type = "getBalance" /\ e.account_num = q.account_num
    BY <1>2 DEF Asks, TailReports
<1>4. TailAccounts[BankOf[c]] = balance_map[s]
    BY <1>1, <1>2, BankOfAssumption DEF TailReports, TailAccounts
<1>5. L!Answer(c, k, "Processed", TailAccounts[BankOf[c]][e.account_num])
    BY <1>0, <1>2, <1>3, <1>4, ReportedEnds, LedgerAnswer
<1>6. /\ TailAccounts' = TailAccounts /\ TailBooks' = TailBooks
      /\ OpenTransfers' = OpenTransfers
    BY DEF TailReports, TailsRest, TailAccounts, TailBooks, OpenTransfers
<1>7. L!Query(c, k)
    BY <1>1, <1>3, <1>5, <1>6 DEF L!Query
<1> QED
    BY <1>2, <1>7 DEF L!LedgerNext

\* A transfer that a tail closes is closed by the ledger.
LEMMA ClosedStep ==
    ASSUME FreshCopies, SentAccounted, LedgerInvariant, next_req' = next_req,
           NEW s \in Servers, NEW q \in Request, TailCloses(s, q)
    PROVE  L!LedgerNext
<1>0. TypeOK /\ RepliesCounted /\ AnswersFinal /\ BooksSound
    BY DEF FreshCopies, HeadFrame, LedgerInvariant
<1>1. PICK c, k, e : c = q.client_port /\ k = q.sent_id /\ e = Workload[c][k]
    OBVIOUS
<1>2. /\ c \in Clients /\ k \in 1 .. Len(Workload[c]) /\ Asks(e, q)
      /\ NameOf(q) = <<c, k>> /\ Home(NameOf(q)) = BankOf[c]
    BY <1>1, EntryOf DEF TailCloses
<1>3. /\ e.account_num = q.account_num /\ e.dest_bank_id = q.dest_bank_id
      /\ e.req_id = q.req_id
    BY <1>2 DEF Asks
<1>4. /\ Ends(q, ReplyTo(q, Outcome(q), balance_map[s]))
      /\ s = LastServer(BankOf[c])
      /\ Names(sent'[s]) = Names(sent[s]) \ {<<c, k>>}
      /\ \A t \in Servers \ {s} : sent'[t] = sent[t]
    BY <1>2, ClosedEnds
<1>5. TailAccounts[BankOf[c]] = balance_map[s] /\ BankOf[c] \in Banks
    BY <1>2, <1>4, BankOfAssumption DEF TailAccounts
<1>6. L!Answer(c, k, Outcome(q), TailAccounts[BankOf[c]][e.account_num])
    BY <1>0, <1>2, <1>3, <1>4, <1>5, LedgerAnswer
<1> DEFINE b == q.dest_bank_id
           P == processed_trans[LastServer(b)]
           I == insuf_funds_trans[LastServer(b)]
<1>7. q.req_id \in DOMAIN TailBooks[b] /\ Ruling(TailBooks[b], q) = Outcome(q)
  <2>1. Confirmed(b, q) /\ b \in Banks
      BY DEF TailCloses, Confirmed
  <2>2. LastServer(b) \in Servers /\ Bank(LastServer(b)) = b
      BY <2>1, ChainEnds DEF LastServer, Bank
  <2>3. P \in Seq(Request) /\ I \in Seq(Request) /\ SoundBook(b, P, I)
      BY <1>0, <2>2 DEF TypeOK, ServerTypeOK, BooksSound
  <2>4. TailBooks[b] = BookOf(P, I)
      BY <2>1 DEF TailBooks
  <2>5. Reflects(TailBooks[b], P, I)
      BY <2>3, <2>4, BookEntry
  <2>6. \/ Outcome(q) = "Processed" /\ Alike(P, q)
        \/ Outcome(q) = "InconsistentWithHistory" /\ (Unlike(P, q) \/ Unlike(I, q))
      BY <2>1 DEF Confirmed
  <2> HIDE DEF P, I, b
  <2> QED
      BY <2>5, <2>6, BookRules
<1> HIDE DEF P, I, b
<1>8. L!Verdict(b, e) = Outcome(q)
    BY <1>2, <1>7, LedgerVerdict
<1>9. OpenTransfers' = OpenTransfers \ {<<c, k>>} /\ <<c, k>> \in OpenTransfers
  <2>1. \A n : /\ n \in OpenTransfers' <=> \E d \in Banks : n \in Names(sent'[LastServer(d)])
               /\ n \in OpenTransfers <=> \E d \in Banks : n \in Names(sent[LastServer(d)])
      BY DEF OpenTransfers
  <2>2. <<c, k>> \in Names(sent[s])
      BY <1>2 DEF TailCloses
  <2>3. ASSUME NEW d \in Banks
        PROVE  \A n : n \in Names(sent'[LastServer(d)]) <=>
                         n \in Names(sent[LastServer(d)]) /\ n # <<c, k>>
    <3>1. CASE d = BankOf[c]
        BY <1>4, <3>1
    <3>2. CASE d # BankOf[c]
      <4>1. LastServer(d) \in Servers /\ LastServer(d) # s /\ Bank(LastServer(d)) = d
          BY <1>4, <3>2, ChainEnds DEF LastServer, Bank
      <4>2. <<c, k>> \notin Names(sent[LastServer(d)])
          BY <1>2, <3>2, <4>1 DEF TailCloses, DoneAbroad
      <4> QED
          BY <1>4, <4>1, <4>2
    <3> QED
        BY <3>1, <3>2
  <2>4. \A n : n \in OpenTransfers' <=> n \in OpenTransfers /\ n # <<c, k>>
      BY <2>1, <2>3
  <2>5. <<c, k>> \in OpenTransfers
      BY <1>4, <1>5, <2>1, <2>2
  <2> QED
      BY <2>4, <2>5
<1>10. TailAccounts' = TailAccounts /\ TailBooks' = TailBooks
    BY DEF TailCloses, TailAccounts, TailBooks
<1>11. b = e.dest_bank_id
    BY <1>3 DEF b
<1>12. L!CloseTransfer(c, k)
    BY <1>1, <1>3, <1>6, <1>7, <1>8, <1>9, <1>10, <1>11 DEF L!CloseTransfer
<1> QED
    BY <1>2, <1>12 DEF L!LedgerNext

\* An account of one bank moves.
LEMMA FiledMove ==
    ASSUME TypeOK, NEW s \in Servers, NEW r \in Request, TailFiles(s, r), r.status = "Need",
           NEW acc \in Accounts, NEW amount \in Int,
           \A a \in Accounts : Effect(Bank(s), r, a) = IF a = acc THEN amount ELSE 0
    PROVE  TailAccounts' = L!Move(Bank(s), acc, amount)
<1>1. /\ TailAccounts' = [TailAccounts EXCEPT ![Bank(s)] = balance_map'[s]]
      /\ TailAccounts[Bank(s)] = balance_map[s]
    BY FiledState, TailOf DEF TailFiles
<1>2. balance_map[s] \in [Accounts -> Int] /\ balance_map'[s] \in [Accounts -> Int]
    BY DEF TypeOK, ServerTypeOK, TailFiles, Balances
<1>3. \A a \in Accounts :
         balance_map'[s][a] = balance_map[s][a] + IF a = acc THEN amount ELSE 0
    BY DEF TailFiles, Balances
<1>4. balance_map'[s] = [balance_map[s] EXCEPT ![acc] = @ + amount]
    BY <1>2, <1>3, AccountMoves
<1>5. L!Move(Bank(s), acc, amount) =
         [TailAccounts EXCEPT ![Bank(s)] = [TailAccounts[Bank(s)] EXCEPT ![acc] = @ + amount]]
    BY DEF L!Move
<1> QED
    BY <1>1, <1>4, <1>5

\* Refused updates and those found in the histories leave the accounts alone.
LEMMA FiledStill ==
    ASSUME TypeOK, NEW s \in Servers, NEW r \in Request, TailFiles(s, r), r.status # "Need"
    PROVE  /\ balance_map'[s] = balance_map[s]
           /\ TailAccounts' = TailAccounts /\ OpenTransfers' = OpenTransfers
<1>1. /\ TailAccounts' = [TailAccounts EXCEPT ![Bank(s)] = balance_map'[s]]
      /\ OpenTransfers' = OpenTransfers
      /\ TailAccounts[Bank(s)] = balance_map[s]
    BY FiledState, TailOf DEF TailFiles, PaysAbroad
<1>2. balance_map[s] \in [Accounts -> Int] /\ balance_map'[s] \in [Accounts -> Int]
    BY DEF TypeOK, ServerTypeOK, TailFiles, Balances
<1>3. \A a \in Accounts : balance_map'[s][a] = balance_map[s][a]
    BY <1>2 DEF TailFiles, Balances
<1>4. balance_map'[s] = balance_map[s]
    BY <1>2, <1>3
<1>5. TailAccounts = [b \in Banks |-> TailAccounts[b]]
    BY DEF TailAccounts
<1> QED
    BY <1>1, <1>4, <1>5

\* The book after an update has been filed.
LEMMA FiledBook ==
    ASSUME TypeOK, BooksSound, NEW s \in Servers, NEW r \in Request, TailFiles(s, r)
    PROVE  LET b == Bank(s)
               P == processed_trans[s]
               I == insuf_funds_trans[s]
           IN  /\ r.req_id \in DOMAIN TailBooks[b] <=> HasId(P, r.req_id) \/ HasId(I, r.req_id)
               /\ r.status = "Need" =>
                     TailBooks' = [TailBooks EXCEPT ![b] = Bound(TailBooks[b], r, "Processed")]
               /\ r.status = "InsufficientFunds" /\ ~HasId(I, r.req_id) =>
                     TailBooks' = [TailBooks EXCEPT ![b] =
                                     Bound(TailBooks[b], r, "InsufficientFunds")]
               /\ r.status = "InsufficientFunds" /\ Alike(I, r) =>
                     TailBooks' = TailBooks /\ Ruling(TailBooks[b], r) = r.status
               /\ r.status \notin {"Need", "InsufficientFunds"} =>
                     TailBooks' = TailBooks /\ Ruling(TailBooks[b], r) = r.status
<1> DEFINE b == Bank(s)
           P == processed_trans[s]
           I == insuf_funds_trans[s]
<1>1. /\ P \in Seq(Request) /\ I \in Seq(Request) /\ SoundBook(b, P, I)
      /\ Judges(b, P, I, r)
    BY DEF TypeOK, ServerTypeOK, BooksSound, TailFiles
<1>2. TailBooks[b] = BookOf(P, I)
    BY TailOf DEF TailFiles
<1>3. TailBooks' = [TailBooks EXCEPT ![b] =
                      BookOf(Filing("Need", P, Forwarding(r)),
                             Filing("InsufficientFunds", I, Forwarding(r)))]
    BY FiledState
<1>4. Reflects(TailBooks[b], P, I)
    BY <1>1, <1>2, BookEntry
<1>5. TailBooks = [d \in Banks |-> TailBooks[d]]
    BY DEF TailBooks
<1>6. /\ r.status = "Need" => /\ Filing("Need", P, Forwarding(r)) = Record(P, r)
                              /\ Filing("InsufficientFunds", I, Forwarding(r)) = I
      /\ r.status = "InsufficientFunds" =>
            /\ Filing("Need", P, Forwarding(r)) = P
            /\ Filing("InsufficientFunds", I, Forwarding(r)) = Append(I, r)
      /\ r.status \notin {"Need", "InsufficientFunds"} =>
            /\ Filing("Need", P, Forwarding(r)) = P
            /\ Filing("InsufficientFunds", I, Forwarding(r)) = I
    BY DEF Filing, Forwarding
<1> HIDE DEF b, P, I
<1>7. [TailBooks EXCEPT ![b] = TailBooks[b]] = TailBooks
    BY <1>5
<1>8. CASE r.status = "Need"
  <2>1. BookOf(Record(P, r), I) = Bound(BookOf(P, I), r, "Processed")
      BY <1>1, <1>8, BookExecutes DEF Judges
  <2> QED
      BY <1>2, <1>3, <1>4, <1>6, <1>8, <2>1, BookRules DEF b, P, I
<1>9. CASE r.status = "InsufficientFunds"
  <2>1. /\ ~HasId(I, r.req_id) =>
             BookOf(P, Append(I, r)) = Bound(BookOf(P, I), r, "InsufficientFunds")
        /\ Alike(I, r) => BookOf(P, Append(I, r)) = BookOf(P, I)
      BY <1>1, <1>9, BookRefuses DEF Judges
  <2> QED
      BY <1>2, <1>3, <1>4, <1>6, <1>7, <1>9, <2>1, BookRules DEF b, P, I
<1>10. CASE r.status \notin {"Need", "InsufficientFunds"}
  <2>1. Ruling(TailBooks[b], r) = r.status
      BY <1>1, <1>4, <1>10, BookRules DEF Judges
  <2> QED
      BY <1>2, <1>3, <1>4, <1>6, <1>7, <1>10, <2>1, BookRules DEF b, P, I
<1> QED
    BY <1>8, <1>9, <1>10

\* At home an update comes to the tail before anybody waits for it abroad.
LEMMA FiledClosed ==
    ASSUME SentAccounted, NEW s \in Servers, NEW r \in Request, TailFiles(s, r),
           Bank(s) = Home(NameOf(r))
    PROVE  NameOf(r) \notin OpenTransfers
<1> SUFFICES ASSUME NEW d \in Banks, NameOf(r) \in Names(sent[LastServer(d)])
             PROVE  FALSE
    BY DEF OpenTransfers
<1>1. /\ LastServer(d) \in Servers /\ Bank(LastServer(d)) = d
      /\ s = LastServer(Home(NameOf(r))) /\ NameOf(r) \notin Names(sent[s])
  <2>1. \A x : Bank(LastServer(x)) = x
      BY DEF LastServer, Bank
  <2> QED
      BY <2>1, ChainEnds DEF TailFiles, IsLast
<1>2. CASE d = Home(NameOf(r))
    BY <1>1, <1>2
<1>3. CASE d # Home(NameOf(r))
    BY <1>1, <1>3 DEF SentAccounted, AbroadAwaited, Awaited
<1> QED
    BY <1>2, <1>3

\* A step without a reply gives no answer.
LEMMA NothingSaid ==
    ASSUME RepliesCounted, to_client' = Deliver(to_client, {}), log' = log
    PROVE  /\ Answers' = Answers
           /\ \A c \in Clients : Replies(c)' = Replies(c)
<1> DEFINE mails == {}
<1>1. \A x \in mails : x.op = "SER_RPY" /\ x.to \in Clients
    OBVIOUS
<1>2. to_client' = Deliver(to_client, mails)
    OBVIOUS
<1> HIDE DEF mails
<1>3. \A c \in Clients : Replies(c)' = Replies(c) \cup {x \in mails : x.to = c}
    BY <1>1, <1>2, RepliesSent
<1>4. \A c \in Clients : Replies(c)' = Replies(c)
    BY <1>3 DEF mails
<1> QED
    BY <1>4, AnswersSame

\* An update that the tail of its client's bank files is one of the ledger's
\* steps: it is executed or refused, or its id is in the book already.
LEMMA FiledAtHome ==
    ASSUME FreshCopies, HistoriesExplain, SentAccounted, LedgerInvariant, next_req' = next_req,
           NEW s \in Servers, NEW r \in Request, TailFiles(s, r), ~Receives(s, r)
    PROVE  L!LedgerNext
<1>0. TypeOK /\ RepliesCounted /\ AnswersFinal /\ BooksSound
    BY DEF FreshCopies, HeadFrame, LedgerInvariant
<1>1. PICK c, k, e : c = r.client_port /\ k = r.sent_id /\ e = Workload[c][k]
    OBVIOUS
<1>2. /\ c \in Clients /\ k \in 1 .. Len(Workload[c]) /\ Asks(e, r)
      /\ NameOf(r) = <<c, k>> /\ Home(NameOf(r)) = BankOf[c]
    BY <1>1, EntryOf DEF TailFiles
<1>3. /\ e.type = r.type /\ e.account_num = r.account_num /\ e.amount = r.amount
      /\ e.req_id = r.req_id
    BY <1>2 DEF Asks
<1>4. PICK b \in Banks : b = Bank(s)
    BY TailOf, <1>0 DEF TailFiles
<1>5. b = BankOf[c]
    BY <1>1, <1>4 DEF TailFiles, Reached, Receives
<1> DEFINE P == processed_trans[s]
           I == insuf_funds_trans[s]
<1>6. Judges(b, P, I, r) /\ r.type \in Updates
    BY <1>4 DEF TailFiles
<1>7. \A a \in Accounts : TailAccounts[b][a] = BalanceOf(b, P, a)
  <2>1. P \in Seq(Request) /\ Explains(P, b, balance_map[s])
      BY <1>0, <1>4 DEF TypeOK, ServerTypeOK, HistoriesExplain
  <2>2. TailAccounts[b] = balance_map[s]
      BY <1>0, <1>4, TailOf DEF TailFiles
  <2> QED
      BY <2>1, <2>2, ExplainedNow
<1>8. /\ r.account_num \in Accounts /\ r.amount \in Nat
      /\ TailAccounts[b] \in [Accounts -> Int]
  <2>1. r.account_num \in Accounts /\ r.amount \in Nat
      BY DEF Request
  <2>2. balance_map[s] \in [Accounts -> Int]
      BY <1>0 DEF TypeOK, ServerTypeOK
  <2>3. TailAccounts[b] = balance_map[s]
      BY <1>0, <1>4, TailOf DEF TailFiles
  <2> QED
      BY <2>1, <2>2, <2>3
<1>9. TailAccounts'[b] = balance_map'[s]
    BY <1>0, <1>4, FiledState DEF TailAccounts
<1>10. ~PaysAbroad(s, r) => L!Answer(c, k, Outcome(r), TailAccounts'[b][e.account_num])
  <2>1. ASSUME ~PaysAbroad(s, r)
        PROVE  Ends(r, ReplyTo(r, Outcome(r), balance_map'[s]))
      BY <2>1, FiledEnds
  <2> QED
      BY <1>0, <1>2, <1>3, <1>9, <2>1, LedgerAnswer
<1>11. \A result : L!Bind(b, e, result) =
          [TailBooks EXCEPT ![b] = Bound(TailBooks[b], r, result)]
    BY <1>2, LedgerBind
<1>12. L!Verdict(b, e) = Ruling(TailBooks[b], r)
    BY <1>2, LedgerVerdict
<1>13. /\ r.req_id \in DOMAIN TailBooks[b] <=> HasId(P, r.req_id) \/ HasId(I, r.req_id)
       /\ r.status = "Need" => TailBooks' = L!Bind(b, e, "Processed")
       /\ r.status = "InsufficientFunds" /\ ~HasId(I, r.req_id) =>
             TailBooks' = L!Bind(b, e, "InsufficientFunds")
       /\ r.status = "InsufficientFunds" /\ Alike(I, r) =>
             TailBooks' = TailBooks /\ L!Verdict(b, e) = r.status
       /\ r.status \notin {"Need", "InsufficientFunds"} =>
             TailBooks' = TailBooks /\ L!Verdict(b, e) = r.status
    BY <1>0, <1>4, <1>11, <1>12, FiledBook
<1>14. <<c, k>> \notin OpenTransfers
    BY <1>2, <1>4, <1>5, FiledClosed
<1> HIDE DEF P, I
<1>15. CASE r.status = "Need"
  <2>1. e.req_id \notin DOMAIN TailBooks[b] /\ TailBooks' = L!Bind(b, e, "Processed")
      BY <1>3, <1>6, <1>13, <1>15 DEF Judges
  <2>2. OpenTransfers' = OpenTransfers \cup IF PaysAbroad(s, r) THEN {<<c, k>>} ELSE {}
      BY <1>0, <1>2, FiledState
  <2>3. Outcome(r) = "Processed"
      BY <1>15 DEF Outcome
  <2>4. CASE r.type = "deposit"
    <3>1. \A a \in Accounts :
             Effect(Bank(s), r, a) = IF a = r.account_num THEN r.amount ELSE 0
        BY <2>4 DEF Effect
    <3>2. TailAccounts' = L!Move(b, e.account_num, e.amount)
        BY <1>0, <1>3, <1>4, <1>8, <1>15, <3>1, FiledMove
    <3>3. ~PaysAbroad(s, r)
        BY <2>4 DEF PaysAbroad
    <3>4. L!Deposit(c, k)
        BY <1>1, <1>3, <1>5, <1>10, <2>1, <2>2, <2>3, <2>4, <3>2, <3>3 DEF L!Deposit
    <3> QED
        BY <1>2, <3>4 DEF L!LedgerNext
  <2>5. ASSUME Draws(b, r)
        PROVE  /\ TailAccounts[b][e.account_num] >= e.amount
               /\ TailAccounts' = L!Move(b, e.account_num, -e.amount)
    <3>1. \A a \in Accounts :
             Effect(Bank(s), r, a) = IF a = r.account_num THEN -r.amount ELSE 0
        BY <1>4, <2>5 DEF Effect, Draws
    <3>2. TailAccounts' = L!Move(b, e.account_num, -e.amount)
      <4>1. -r.amount \in Int
          BY <1>8
      <4> QED
          BY <1>0, <1>3, <1>4, <1>8, <1>15, <3>1, <4>1, FiledMove
    <3>3. BalanceOf(b, P, r.account_num) >= r.amount
        BY <1>6, <1>15, <2>5 DEF Judges
    <3> QED
        BY <1>3, <1>7, <1>8, <3>2, <3>3
  <2>6. CASE r.type = "withdraw"
    <3>1. Draws(b, r) /\ ~PaysAbroad(s, r)
        BY <2>6 DEF Draws, PaysAbroad
    <3>2. L!Withdraw(c, k)
        BY <1>1, <1>3, <1>5, <1>10, <2>1, <2>2, <2>3, <2>5, <2>6, <3>1 DEF L!Withdraw
    <3> QED
        BY <1>2, <3>2 DEF L!LedgerNext
  <2>7. CASE r.type = "transfer"
    <3>1. Draws(b, r) /\ PaysAbroad(s, r)
        BY <1>4, <1>15, <2>7 DEF Draws, PaysAbroad, Receives
    <3>2. Answers' = Answers
      <4>1. to_client' = Deliver(to_client, {}) /\ log' = log
          BY <3>1 DEF TailFiles
      <4> QED
          BY <1>0, <4>1, NothingSaid
    <3>3. L!Pay(c, k)
        BY <1>1, <1>3, <1>5, <2>1, <2>2, <2>5, <2>7, <3>1, <3>2 DEF L!Pay
    <3> QED
        BY <1>2, <3>3 DEF L!LedgerNext
  <2> QED
      BY <1>6, <2>4, <2>6, <2>7 DEF Updates
<1>16. ASSUME r.status # "Need"
       PROVE  /\ TailAccounts' = TailAccounts /\ OpenTransfers' = OpenTransfers
              /\ Outcome(r) = r.status
              /\ L!Answer(c, k, r.status, TailAccounts[b][e.account_num])
  <2>1. TailAccounts' = TailAccounts /\ OpenTransfers' = OpenTransfers
      BY <1>0, <1>16, FiledStill
  <2>2. Outcome(r) = r.status /\ ~PaysAbroad(s, r)
      BY <1>16 DEF Outcome, PaysAbroad
  <2> QED
      BY <1>10, <2>1, <2>2
<1>17. ASSUME r.status # "Need", TailBooks' = TailBooks, L!Verdict(b, e) = r.status,
              r.req_id \in DOMAIN TailBooks[b]
       PROVE  L!LedgerNext
  <2>1. L!Repeat(c, k)
      BY <1>1, <1>3, <1>5, <1>6, <1>14, <1>16, <1>17 DEF L!Repeat, L!Updates, Updates
  <2> QED
      BY <1>2, <2>1 DEF L!LedgerNext
<1>18. \A h : Alike(h, r) \/ Unlike(h, r) => HasId(h, r.req_id)
    BY DEF Alike, Unlike, HasId
<1>19. CASE r.status = "InsufficientFunds"
  <2>1. Draws(b, r) /\ ~HasId(P, r.req_id)
      BY <1>6, <1>19 DEF Judges
  <2>2. CASE Alike(I, r)
      BY <1>13, <1>17, <1>18, <1>19, <2>2
  <2>3. CASE ~HasId(I, r.req_id) /\ BalanceOf(b, P, r.account_num) < r.amount
    <3>1. e.type \in {"withdraw", "transfer"}
        BY <1>3, <2>1 DEF Draws
    <3>2. TailAccounts[b][e.account_num] < e.amount
        BY <1>3, <1>7, <1>8, <2>3
    <3>3. e.req_id \notin DOMAIN TailBooks[b]
        BY <1>3, <1>13, <2>1, <2>3
    <3>4. L!Refuse(c, k)
        BY <1>1, <1>5, <1>13, <1>16, <1>19, <2>3, <3>1, <3>2, <3>3 DEF L!Refuse
    <3> QED
        BY <1>2, <3>4 DEF L!LedgerNext
  <2> QED
      BY <1>6, <1>19, <2>2, <2>3 DEF Judges
<1>20. CASE r.status \notin {"Need", "InsufficientFunds"}
  <2>1. r.req_id \in DOMAIN TailBooks[b]
      BY <1>6, <1>13, <1>18, <1>20 DEF Judges
  <2> QED
      BY <1>13, <1>17, <1>20, <2>1
<1> QED
    BY <1>15, <1>19, <1>20

\* What the payee's bank files is booked by the ledger while the transfer is
\* open, once; a copy whose id the book has is no step of it.
LEMMA FiledAbroad ==
    ASSUME PaysOthers, FreshCopies, SentAccounted, LedgerInvariant,
           NEW s \in Servers, NEW r \in Request, TailFiles(s, r), Receives(s, r)
    PROVE  L!LedgerNext \/ UNCHANGED L!ledger
<1>0. TypeOK /\ RepliesCounted /\ AnswersFinal /\ BooksSound
    BY DEF FreshCopies, HeadFrame, LedgerInvariant
<1>1. PICK c, k, e : c = r.client_port /\ k = r.sent_id /\ e = Workload[c][k]
    OBVIOUS
<1>2. /\ c \in Clients /\ k \in 1 .. Len(Workload[c]) /\ Asks(e, r)
      /\ NameOf(r) = <<c, k>> /\ Home(NameOf(r)) = BankOf[c]
    BY <1>1, EntryOf DEF TailFiles
<1>3. PICK b \in Banks : b = Bank(s)
    BY TailOf, <1>0 DEF TailFiles
<1>4. /\ e.dest_account_num = r.dest_account_num /\ e.amount = r.amount
      /\ e.req_id = r.req_id /\ e.dest_bank_id = b /\ r.type = "transfer"
      /\ r.dest_bank_id = b
    BY <1>2, <1>3 DEF Asks, Receives
<1>5. <<c, k>> \in OpenTransfers
  <2>1. r \in Reached(b)
      BY <1>3 DEF TailFiles
  <2>2. b # BankOf[c]
      BY <1>2, <1>4, <2>1, TransferBanks
  <2>3. PICK x \in UnderWay : NameOf(x[1]) = <<c, k>> /\ Travels(x) /\ Bank(x[2]) = b
      BY <1>2, <1>3 DEF TailFiles
  <2>4. Awaited(<<c, k>>)
      BY <1>2, <2>2, <2>3 DEF SentAccounted, AbroadAwaited
  <2> QED
      BY <1>2, <2>4, BankOfAssumption DEF Awaited, OpenTransfers
<1>6. Answers' = Answers
  <2>1. to_client' = Deliver(to_client, {}) /\ log' = log
      BY DEF TailFiles
  <2> QED
      BY <1>0, <2>1, NothingSaid
<1>7. Judges(b, processed_trans[s], insuf_funds_trans[s], r)
    BY <1>3 DEF TailFiles
<1>8. CASE r.status = "Need"
  <2>1. r.req_id \notin DOMAIN TailBooks[b]
      BY <1>0, <1>3, <1>7, <1>8, FiledBook DEF Judges
  <2>2. TailBooks' = L!Bind(b, e, "Processed")
      BY <1>0, <1>2, <1>3, <1>8, FiledBook, LedgerBind
  <2>3. OpenTransfers' = OpenTransfers
      BY <1>0, <1>3, <1>4, FiledState DEF PaysAbroad
  <2>4. TailAccounts' = L!Move(b, r.dest_account_num, r.amount)
    <3>1. \A a \in Accounts :
             Effect(Bank(s), r, a) = IF a = r.dest_account_num THEN r.amount ELSE 0
        BY <1>3, <1>4 DEF Effect
    <3>2. r.dest_account_num \in Accounts /\ r.amount \in Int
        BY DEF Request
    <3> QED
        BY <1>0, <1>3, <1>8, <3>1, <3>2, FiledMove
  <2>5. L!BookPayee(c, k)
      BY <1>1, <1>4, <1>5, <1>6, <2>1, <2>2, <2>3, <2>4 DEF L!BookPayee
  <2> QED
      BY <1>2, <2>5 DEF L!LedgerNext
<1>9. CASE r.status # "Need"
  <2>1. r.status # "InsufficientFunds"
      BY <1>4, <1>7 DEF Judges, Draws
  <2>2. TailBooks' = TailBooks
      BY <1>0, <1>9, <2>1, FiledBook
  <2>3. TailAccounts' = TailAccounts /\ OpenTransfers' = OpenTransfers
      BY <1>0, <1>9, FiledStill
  <2> QED
      BY <1>6, <2>2, <2>3 DEF L!ledger
<1> QED
    BY <1>8, <1>9

--------------------------------------------------------------------------------
\* Every step of the chains is a step of the ledger, or none.

\* What no tail does leaves the ledger alone.
LEMMA RestUnseen ==
    ASSUME \A c \in Clients : Replies(c)' = Replies(c), TailsRest
    PROVE  UNCHANGED L!ledger
<1>1. TailAccounts' = TailAccounts /\ TailBooks' = TailBooks /\ OpenTransfers' = OpenTransfers
    BY DEF TailsRest, TailAccounts, TailBooks, OpenTransfers
<1>2. Answers' = Answers
    BY AnswersSame
<1> QED
    BY <1>1, <1>2 DEF L!ledger

\* The step of the refinement: of all that servers and clients do, the ledger
\* sees what tails file, report and close.
LEMMA LedgerStep ==
    ASSUME PaysOthers, "SER_RPY" \notin LossyOps, NoResends, ProperEntries,
           FreshCopies, RightBanks, HistoriesExplain, SentAccounted, LedgerInvariant,
           [Next]_vars
    PROVE  [L!LedgerNext]_(L!ledger)
<1>0. TypeOK /\ RepliesCounted
    BY DEF FreshCopies, HeadFrame, LedgerInvariant
<1>1. ASSUME UNCHANGED serverState
      PROVE  TailsRest
    BY <1>1 DEF TailsRest, serverState
<1>2. ASSUME NEW s \in Servers, ServerStep(s)
      PROVE  [L!LedgerNext]_(L!ledger)
  <2>1. next_req' = next_req
      BY <1>2 DEF ServerStep, clientState
  <2>2. CASE Unseen
    <3>1. TailsRest
        BY <2>2 DEF Unseen
    <3>2. \A c \in Clients : Replies(c)' = Replies(c)
      <4>1. CASE to_client' = to_client
          BY <2>2, <4>1 DEF Unseen, Replies
      <4>2. CASE to_client' = Deliver(to_client, {})
          BY <1>0, <2>2, <4>2, NothingSaid DEF Unseen
      <4> QED
          BY <2>2, <4>1, <4>2 DEF Unseen
    <3> QED
        BY <3>1, <3>2, RestUnseen
  <2>3. CASE \E r \in Request : TailFiles(s, r)
    <3>1. PICK r \in Request : TailFiles(s, r)
        BY <2>3
    <3> QED
        BY <2>1, <3>1, FiledAtHome, FiledAbroad
  <2>4. CASE \E q \in Request : TailReports(s, q)
      BY <2>1, <2>4, ReportedStep
  <2>5. CASE \E q \in Request : TailCloses(s, q)
      BY <2>1, <2>5, ClosedStep
  <2> QED
      BY <1>2, <2>2, <2>3, <2>4, <2>5, ServerStepSeen
<1>3. ASSUME NEW c \in Clients, ClientStep(c)
      PROVE  UNCHANGED L!ledger
    BY <1>0, <1>1, <1>3, ClientStepLeaves, RepliesRead, RestUnseen
<1>4. ASSUME Lose
      PROVE  UNCHANGED L!ledger
  <2>1. TailsRest
      BY <1>1, <1>4 DEF Lose
  <2> QED
      BY <1>0, <1>4, <2>1, RepliesLost, RestUnseen
<1>5. ASSUME UNCHANGED vars
      PROVE  UNCHANGED L!ledger
  <2>1. \A c \in Clients : Replies(c)' = Replies(c)
      BY <1>5 DEF vars, Replies, clientState, network
  <2>2. TailsRest
      BY <1>1, <1>5 DEF vars
  <2> QED
      BY <2>1, <2>2, RestUnseen
<1> QED
    BY <1>2, <1>3, <1>4, <1>5 DEF Next

--------------------------------------------------------------------------------
\* The invariant from the start, and the refinement.

\* At first nobody has been told, sent or answered anything.
LEMMA LedgerInvariantInit ==
    ASSUME Init
    PROVE  LedgerInvariant
<1>1. DOMAIN to_server = {}
    BY DEF Init, ServerInit, ServersStart, EmptyBag, SetToBag
<1>2. \A s \in Servers : /\ processed_trans[s] = <<>> /\ insuf_funds_trans[s] = <<>>
                         /\ from_pre[s] = <<>> /\ from_next[s] = <<>>
    BY DEF Init, ServerInit, ServersStart
<1>3. /\ \A m \in DOMAIN to_client : /\ to_client[m] = 1 /\ m.op = "SET_HEAD_TAIL"
                                     /\ m.tail_port = LastServer(m.bank_id)
      /\ \A c \in Clients : tail_port[c] = NoServer /\ log[c] = <<>>
    BY DEF Init, ClientInit, ClientsStart, SetToBag, LoginAnswer
<1>4. TailsKnown
    BY <1>1, <1>3 DEF TailsKnown, LettersIn
<1>5. RepliesCounted
    BY <1>3 DEF RepliesCounted
<1>6. Len(<<>>) = 0 /\ 1 .. 0 = {}
    OBVIOUS
<1>7. BooksSound
  <2>1. \A b : SoundBook(b, <<>>, <<>>)
      BY <1>6 DEF SoundBook
  <2> QED
      BY <1>2, <2>1 DEF BooksSound
<1>8. StreamsJudged
  <2>1. \A b : StreamJudged(b, <<>>, <<>>, <<>>)
      BY <1>6 DEF StreamJudged
  <2> QED
      BY <1>2, <2>1 DEF StreamsJudged
<1>9. AcksConfirmed
    BY <1>1, <1>2, <1>6 DEF AcksConfirmed, Acks, MailsIn
<1>10. AnswersFinal
  <2>1. ToSet(<<>>) = {}
      BY DEF ToSet
  <2>2. \A c \in Clients : Replies(c) = {}
      BY <1>3, <2>1 DEF Replies
  <2> QED
      BY <2>2 DEF AnswersFinal
<1> QED
    BY <1>4, <1>5, <1>7, <1>8, <1>9, <1>10 DEF LedgerInvariant

\* Every step keeps the invariant.
LEMMA LedgerInvariantStep ==
    ASSUME NoResends, ProperEntries, PaysOthers, FreshCopies, RightBanks, UpdatePropagation,
           HistoriesExplain, SentAccounted, LedgerInvariant, [Next]_vars
    PROVE  LedgerInvariant'
<1>1. BooksSound /\ StreamsJudged /\ AcksConfirmed
    BY DEF LedgerInvariant
<1>2. BooksSound' /\ StreamsJudged'
    BY <1>1, JudgedStep
<1>3. AcksConfirmed'
    BY <1>1, AcksConfirmedStep
<1>4. TailsKnown'
    BY TailsKnownStep
<1>5. RepliesCounted' /\ AnswersFinal'
    BY AnswersFinalStep
<1> QED
    BY <1>2, <1>3, <1>4, <1>5 DEF LedgerInvariant

\* Empty books.
LEMMA LedgerStarts ==
    ASSUME Init
    PROVE  L!LedgerInit
<1>1. \A b \in Banks : LastServer(b) \in Servers
    BY ChainEnds
<1>2. \A s \in Servers : /\ processed_trans[s] = <<>> /\ insuf_funds_trans[s] = <<>>
                         /\ balance_map[s] = [a \in Accounts |-> 0] /\ sent[s] = <<>>
    BY DEF Init, ServerInit, ServersStart
<1>3. TailAccounts = [b \in Banks |-> [a \in Accounts |-> 0]]
    BY <1>1, <1>2 DEF TailAccounts
<1>4. ToSet(<<>>) = {} /\ Names(<<>>) = {}
    BY DEF ToSet, Names
<1>5. TailBooks = [b \in Banks |-> [id \in {} |-> {}]]
  <2>1. BookOf(<<>>, <<>>) = [id \in {} |-> {}]
      BY <1>4 DEF BookOf
  <2> QED
      BY <1>1, <1>2, <2>1 DEF TailBooks
<1>6. OpenTransfers = {}
    BY <1>1, <1>2, <1>4 DEF OpenTransfers
<1>7. Answers = {}
  <2>1. \A c \in Clients : log[c] = <<>>
      BY DEF Init, ClientInit, ClientsStart
  <2>2. \A m \in DOMAIN to_client : m.op = "SET_HEAD_TAIL"
      BY DEF Init, ClientInit, SetToBag, LoginAnswer
  <2>3. \A c \in Clients : Replies(c) = {}
      BY <1>4, <2>1, <2>2 DEF Replies
  <2> QED
      BY <2>3 DEF Answers
<1> QED
    BY <1>3, <1>5, <1>6, <1>7 DEF L!LedgerInit

\* What the theorems about the chains without resends have shown, and the
\* invariant on top.
LedgerFrame ==
    /\ FreshCopies /\ RightBanks /\ UpdatePropagation
    /\ HistoriesExplain /\ SentAccounted /\ LedgerInvariant

\* Where nothing is sent again, a tail answers from a sound book, every update on
\* its way down a chain carries the verdict its readers will come to, what the
\* payee's bank has acknowledged is in its book, and what is answered is nowhere
\* under way any more (process_update, process_forwared_request, reply_to_client,
\* ack_to_source_bank).
THEOREM LedgerInvariantCorrect ==
    NoResends /\ ProperEntries /\ PaysOthers => (Spec => []LedgerFrame)
<1> SUFFICES ASSUME NoResends, ProperEntries, PaysOthers PROVE Spec => []LedgerFrame
    OBVIOUS
<1>1. Init => LedgerFrame
    BY FreshCopiesInit, RightBanksInit, NeighboursInit, ExplainsInit, SentAccountedInit,
       LedgerInvariantInit DEF LedgerFrame
<1>2. LedgerFrame /\ [Next]_vars => LedgerFrame'
    BY FreshCopiesStep, RightBanksStep, UpdatePropagationStep, ExplainedStep,
       SentAccountedStep, LedgerInvariantStep DEF LedgerFrame
<1> QED
    BY <1>1, <1>2, PTL DEF Spec

(* Without resends and lost replies the chains of all banks are, seen by their *)
(* clients, one book per bank: every answer is what the book says when the tail *)
(* gives it, though the head decided when the chain was at another point, other *)
(* requests were under way and other banks shipped transfers in                 *)
(* (process_forwared_request, rec_client, rec_other_bank).                      *)
THEOREM RefinementCorrect ==
    NoResends /\ ProperEntries /\ PaysOthers /\ "SER_RPY" \notin LossyOps
        => (Spec => ImplementsLedger)
<1> SUFFICES ASSUME NoResends, ProperEntries, PaysOthers, "SER_RPY" \notin LossyOps
             PROVE  Spec => ImplementsLedger
    OBVIOUS
<1>1. Init => L!LedgerInit
    BY LedgerStarts
<1>2. LedgerFrame /\ [Next]_vars => [L!LedgerNext]_(L!ledger)
    BY LedgerStep DEF LedgerFrame
<1>3. Spec => []LedgerFrame
    BY LedgerInvariantCorrect
<1> QED
    BY <1>1, <1>2, <1>3, PTL DEF Spec, ImplementsLedger, L!LedgerSpec

================================================================================
