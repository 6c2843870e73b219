------------------------------- MODULE ReplyProofs -------------------------------
(***************************************************************************)
(* What a reply is worth where nobody makes transfers, for every chain and *)
(* every queue, any resending and loss: it vouches for all servers of the  *)
(* bank, and the replies to a request agree.                               *)
(*                                                                         *)
(* A resend may overtake nothing: streams keep their order.  So a copy     *)
(* that says Processed finds its update executed, or queued in front of it *)
(* to be executed (`Ahead`), at every server it reaches; and a server that *)
(* takes a copy for a resend, because `sent` names it, has recorded what   *)
(* `sent` says (`SentBacked`).  All copies of a request agree because each *)
(* agrees with the histories of the head (`Decided`), which never change   *)
(* their mind.                                                             *)
(***************************************************************************)
EXTENDS HeadProofs

\* The deployments of this module.
NoTransfers ==
    \A c \in Clients : \A k \in 1 .. Len(Queue(c)) : Queue(c)[k].type # "transfer"

\* The request of the queue that q is a copy of.
Original(q) == Queue(q.client_port)[q.sent_id]

\* A copy keeps what its client asked for.
Copies ==
    {q \in OwnRequests : /\ q.type = Original(q).type
                         /\ q.account_num = Original(q).account_num
                         /\ q.amount = Original(q).amount}

\* The updates that the servers of bank b handle.
UpdatesOf(b) == {q \in Copies : q.type \in Updates /\ BankOf[q.client_port] = b}

ForwardsOf(b) == [op : {"FORWARD"}, req : UpdatesOf(b)]

\* Every update is on its way to the head of its client's bank, or in there.
CopiesKept ==
    /\ \A s \in Servers : /\ sent[s] \in Seq(UpdatesOf(Bank(s)))
                          /\ from_pre[s] \in Seq(ForwardsOf(Bank(s)))
                          /\ from_next[s] \in Seq(UpdatesOf(Bank(s)))
    /\ \A m \in DOMAIN to_server :
          /\ m.op = "REQUEST"
          /\ m.req \in Copies
          /\ m.req.type \in Updates => m.to = FirstServer(BankOf[m.req.client_port])
    /\ \A c \in Clients : head_port[c] \in {NoServer, FirstServer(BankOf[c])}
    /\ \A m \in DOMAIN to_client :
          m.op = "SET_HEAD_TAIL" => m.head_port = FirstServer(m.bank_id)

Granted == {"Need", "Processed"}

\* Server s has recorded what the status of q says.
Vouched(s, q) ==
    /\ q.status \in Granted => Recorded(processed_trans[s], q)
    /\ q.status = "InsufficientFunds" => Recorded(insuf_funds_trans[s], q)

\* Head h knows the id of q for another request.
Mismatch(h, q) ==
    /\ HasId(processed_trans[h], q.req_id) \/ HasId(insuf_funds_trans[h], q.req_id)
    /\ ~Recorded(processed_trans[h], q)
    /\ ~Recorded(insuf_funds_trans[h], q)

\* The status of q is the verdict of head h.
Decided(h, q) ==
    /\ q.status # "none"
    /\ Vouched(h, q)
    /\ q.status = "InconsistentWithHistory" => Mismatch(h, q)

\* The servers of a bank in front of s.
Before(s) == {t \in Servers : Bank(t) = Bank(s) /\ t[2] < s[2]}

BackedBefore(s, q) ==
    /\ Decided(FirstServer(Bank(s)), q)
    /\ \A t \in Before(s) : Vouched(t, q)

BackedAt(s, q) == BackedBefore(s, q) /\ Vouched(s, q)

\* What a head has refused under an id is one request, and no deposit.
RefusalsAlike ==
    \A b \in Banks :
      LET I == insuf_funds_trans[FirstServer(b)]
      IN  /\ \A i \in 1 .. Len(I) : I[i].type # "deposit"
          /\ \A i, j \in 1 .. Len(I) : I[i].req_id = I[j].req_id => Content(I[i]) = Content(I[j])

StreamsBacked ==
    \A s \in Servers : \A i \in 1 .. Len(from_pre[s]) : BackedBefore(s, from_pre[s][i].req)

SentBacked ==
    \A s \in Servers : \A i \in 1 .. Len(sent[s]) : BackedAt(s, sent[s][i])

Alike(q, r) == q.req_id = r.req_id /\ Content(q) = Content(r)

\* Server s has executed q, or reads it among the next n messages and will.
Ahead(s, q, n) ==
    \/ Recorded(processed_trans[s], q)
    \/ \E i \in 1 .. Len(from_pre[s]) : /\ i <= n
                                         /\ from_pre[s][i].req.status = "Need"
                                         /\ Alike(from_pre[s][i].req, q)

\* No copy that says Processed overtakes the one that is still to be executed.
OrderKept ==
    \A s \in Servers : \A i \in 1 .. Len(from_pre[s]) :
       from_pre[s][i].req.status \in Granted => Ahead(s, from_pre[s][i].req, i)

\* What a server has executed its successor has executed or will.
NothingLost ==
    \A e \in Neighbours : \A i \in 1 .. Len(processed_trans[e[1]]) :
       Ahead(e[2], processed_trans[e[1]][i], Len(from_pre[e[2]]))

\* The request a reply is about, with the outcome it reports.
Answered(m) == [Queue(m.to)[m.sent_id] EXCEPT !.status = m.outcome]

AnswerBacked(m) ==
    /\ m.sent_id \in 1 .. Len(Queue(m.to))
    /\ Answered(m).type \notin Updates => m.outcome = "Processed"
    /\ Answered(m).type \in Updates =>
          /\ m.outcome # "Need"
          /\ BackedAt(LastServer(BankOf[m.to]), Answered(m))

AnswersBacked ==
    \A c \in Clients : \A m \in Replies(c) : m.to = c /\ AnswerBacked(m)

ReplyInvariant ==
    /\ HeadInvariant
    /\ CopiesKept
    /\ RefusalsAlike
    /\ StreamsBacked
    /\ SentBacked
    /\ OrderKept
    /\ NothingLost
    /\ AnswersBacked

--------------------------------------------------------------------------------
\* Copies of a request.

\* Whether a history records a request depends on id and content alone.
LEMMA RecordedAlike ==
    ASSUME NEW H, NEW q, NEW r, Alike(q, r)
    PROVE  /\ Recorded(H, q) <=> Recorded(H, r)
           /\ HasId(H, q.req_id) <=> HasId(H, r.req_id)
BY DEF Alike, Recorded, HasId

\* process.cpp's comparison is one of contents, transfers aside.
LEMMA SameTransactionContent ==
    ASSUME NEW q, NEW h, q.type # "transfer"
    PROVE  SameTransaction(q, h) <=> Content(q) = Content(h)
<1>1. SameTransaction(q, h) => Content(q) = Content(h)
    BY DEF SameTransaction, Content
<1>2. Content(q) = Content(h) =>
         /\ Content(q).type = Content(h).type
         /\ Content(q).account_num = Content(h).account_num
         /\ Content(q).amount = Content(h).amount
    OBVIOUS
<1> QED
    BY <1>1, <1>2 DEF SameTransaction, Content

\* Another status makes no other request of a copy.
LEMMA StatusAside ==
    ASSUME NEW q \in Copies, NEW st \in Statuses
    PROVE  /\ [q EXCEPT !.status = st] \in Copies
           /\ [q EXCEPT !.status = st].status = st
           /\ [q EXCEPT !.status = st].type = q.type
           /\ [q EXCEPT !.status = st].sent_id = q.sent_id
           /\ [q EXCEPT !.status = st].client_port = q.client_port
           /\ Alike([q EXCEPT !.status = st], q)
<1> DEFINE r == [q EXCEPT !.status = st]
<1>1. q \in Request
    BY DEF Copies, OwnRequests
<1>2. /\ r \in Request
      /\ r.status = st
      /\ r.type = q.type /\ r.account_num = q.account_num /\ r.amount = q.amount
      /\ r.req_id = q.req_id
      /\ r.sent_id = q.sent_id /\ r.client_port = q.client_port
      /\ r.dest_bank_id = q.dest_bank_id /\ r.dest_account_num = q.dest_account_num
    BY <1>1 DEF Request
<1> HIDE DEF r
<1>3. r \in Copies
    BY <1>2 DEF Copies, OwnRequests, Original
<1>4. Alike(r, q)
    BY <1>2 DEF Alike, Content
<1> QED
    BY <1>2, <1>3, <1>4 DEF r

\* A copy is no transfer.
LEMMA CopyType ==
    ASSUME NoTransfers, NEW q \in Copies
    PROVE  /\ q \in Request
           /\ q.type # "transfer"
           /\ q.type \in Updates => q.type \in {"deposit", "withdraw"}
<1>1. /\ q \in Request
      /\ q.sent_id \in 1 .. Len(Queue(q.client_port))
      /\ q.type = Queue(q.client_port)[q.sent_id].type
    BY DEF Copies, OwnRequests, Original
<1>2. q.client_port \in Clients
    BY <1>1 DEF Request
<1> QED
    BY <1>1, <1>2 DEF NoTransfers, Updates

\* Copies with one name are copies of one request.
LEMMA SameNameAlike ==
    ASSUME NoTransfers, NEW q \in Copies, NEW r \in Copies, SameSent(q, r)
    PROVE  /\ Alike(q, r)
           /\ q.type = r.type
<1>1. /\ q.client_port = r.client_port /\ q.sent_id = r.sent_id
      /\ q.type = Original(q).type /\ r.type = Original(r).type
      /\ q.account_num = Original(q).account_num /\ r.account_num = Original(r).account_num
      /\ q.amount = Original(q).amount /\ r.amount = Original(r).amount
      /\ q.req_id = Original(q).req_id /\ r.req_id = Original(r).req_id
    BY DEF Copies, OwnRequests, Original, SameSent
<1>2. Original(q) = Original(r)
    BY <1>1 DEF Original
<1>3. q.type # "transfer"
    BY CopyType
<1> QED
    BY <1>1, <1>2, <1>3 DEF Alike, Content

--------------------------------------------------------------------------------
\* Verdicts.

\* Histories of a head as check_same_req needs them.
SoundHistories(P, I) ==
    /\ P \in Seq(Request) /\ I \in Seq(Request)
    /\ \A i, j \in 1 .. Len(P) : P[i].req_id = P[j].req_id => i = j
    /\ \A i \in 1 .. Len(P), j \in 1 .. Len(I) : P[i].req_id # I[j].req_id
    /\ \A i, j \in 1 .. Len(I) : I[i].req_id = I[j].req_id => Content(I[i]) = Content(I[j])
    /\ \A i \in 1 .. Len(I) : I[i].type # "deposit"

\* What the verdict of a head on an update says of the head's histories.
LEMMA VerdictMeaning ==
    ASSUME NEW b, NEW balances, NEW q, q.type \in {"deposit", "withdraw"},
           NEW P, NEW I, SoundHistories(P, I),
           NEW st, st = ProcessUpdate(b, balances, CheckSameReq(P, I, q), q).status
    PROVE  /\ st \in {"Need", "Processed", "InsufficientFunds", "InconsistentWithHistory"}
           /\ st = "Need" => ~HasId(P, q.req_id) /\ ~HasId(I, q.req_id)
           /\ st = "Processed" => Recorded(P, q)
           /\ st = "InsufficientFunds" =>
                /\ q.type # "deposit"
                /\ Recorded(I, q) \/ (~HasId(P, q.req_id) /\ ~HasId(I, q.req_id))
           /\ st = "InconsistentWithHistory" =>
                /\ HasId(P, q.req_id) \/ HasId(I, q.req_id)
                /\ ~Recorded(P, q) /\ ~Recorded(I, q)
<1> DEFINE i == FirstWithId(I, q)
           j == FirstWithId(P, q)
           same == CheckSameReq(P, I, q)
<1>0. /\ P \in Seq(Request) /\ I \in Seq(Request)
      /\ \A m, n \in 1 .. Len(P) : P[m].req_id = P[n].req_id => m = n
      /\ \A m \in 1 .. Len(P), n \in 1 .. Len(I) : P[m].req_id # I[n].req_id
      /\ \A m, n \in 1 .. Len(I) : I[m].req_id = I[n].req_id => Content(I[m]) = Content(I[n])
      /\ \A m \in 1 .. Len(I) : I[m].type # "deposit"
    BY DEF SoundHistories
<1>1. /\ \A h : SameTransaction(q, h) <=> Content(q) = Content(h)
      /\ DOMAIN P = 1 .. Len(P) /\ DOMAIN I = 1 .. Len(I)
      /\ i \in Nat /\ j \in Nat
    BY <1>0, SameTransactionContent, FirstWithIdProperty
<1>2. CASE i # 0
  <2>1. i \in 1 .. Len(I) /\ I[i].req_id = q.req_id
      BY <1>0, <1>2, FirstWithIdProperty
  <2>2. same = IF SameTransaction(q, I[i]) THEN "EXACTLY_SAME_INSUF" ELSE "ONLY_SAME_REQID"
      BY <1>2 DEF CheckSameReq
  <2> HIDE DEF i, j, same
  <2>3. HasId(I, q.req_id) /\ ~HasId(P, q.req_id)
      BY <1>0, <2>1 DEF HasId
  <2>4. ~Recorded(P, q)
      BY <1>1, <2>3 DEF Recorded, HasId
  <2>5. Recorded(I, q) <=> Content(q) = Content(I[i])
      BY <1>0, <1>1, <2>1 DEF Recorded
  <2>6. Content(q) = Content(I[i]) => q.type = I[i].type
      BY <1>1 DEF SameTransaction
  <2>7. Content(q) = Content(I[i]) => q.type = "withdraw" /\ st = "InsufficientFunds"
      BY <1>0, <1>1, <2>1, <2>2, <2>6 DEF same, ProcessUpdate, ProcessWithdraw
  <2>8. Content(q) # Content(I[i]) => st = "InconsistentWithHistory"
      BY <1>0, <1>1, <2>1, <2>2 DEF same, ProcessUpdate, ProcessWithdraw, ProcessDeposit
  <2> QED
      BY <2>3, <2>4, <2>5, <2>7, <2>8
<1>3. CASE i = 0 /\ j # 0
  <2>1. j \in 1 .. Len(P) /\ P[j].req_id = q.req_id
      BY <1>0, <1>3, FirstWithIdProperty
  <2>2. same = IF SameTransaction(q, P[j]) THEN "EXACTLY_SAME_PROCESS" ELSE "ONLY_SAME_REQID"
      BY <1>3 DEF CheckSameReq
  <2>3. ~HasId(I, q.req_id)
      BY <1>0, <1>3, FirstWithIdProperty DEF HasId
  <2> HIDE DEF i, j, same
  <2>4. HasId(P, q.req_id)
      BY <1>0, <2>1 DEF HasId
  <2>5. ~Recorded(I, q)
      BY <1>1, <2>3 DEF Recorded, HasId
  <2>6. Recorded(P, q) <=> Content(q) = Content(P[j])
      BY <1>0, <1>1, <2>1 DEF Recorded
  <2>7. Content(q) = Content(P[j]) => st = "Processed"
      BY <1>1, <2>2 DEF same, ProcessUpdate, ProcessWithdraw, ProcessDeposit
  <2>8. Content(q) # Content(P[j]) => st = "InconsistentWithHistory"
      BY <1>1, <2>2 DEF same, ProcessUpdate, ProcessWithdraw, ProcessDeposit
  <2> QED
      BY <2>4, <2>5, <2>6, <2>7, <2>8
<1>4. CASE i = 0 /\ j = 0
  <2>1. same = "NOT_YET"
      BY <1>4 DEF CheckSameReq
  <2>2. ~HasId(I, q.req_id) /\ ~HasId(P, q.req_id)
      BY <1>0, <1>4, FirstWithIdProperty DEF HasId
  <2> HIDE DEF i, j, same
  <2>3. st \in {"Need", "InsufficientFunds"} /\ (st = "InsufficientFunds" => q.type # "deposit")
      BY <2>1 DEF same, ProcessUpdate, ProcessWithdraw, ProcessDeposit
  <2> QED
      BY <2>2, <2>3
<1> QED
    BY <1>1, <1>2, <1>3, <1>4

--------------------------------------------------------------------------------
\* The lists.

\* delete_sent leaves requests of the kind the list holds.
LEMMA DeleteSentKind ==
    ASSUME NEW T, T \subseteq Request, NEW list \in Seq(T), NEW q
    PROVE  /\ DeleteSent(list, q) \in Seq(T)
           /\ \A i \in 1 .. Len(DeleteSent(list, q)) :
                 \E j \in 1 .. Len(list) : DeleteSent(list, q)[i] = list[j]
<1>1. list \in Seq(Request)
    OBVIOUS
<1> DEFINE left == DeleteSent(list, q)
<1>2. /\ left \in Seq(Request)
      /\ \A i \in 1 .. Len(left) : \E j \in 1 .. Len(list) : left[i] = list[j]
    BY <1>1, DeleteSentProperty
<1> HIDE DEF left
<1>3. \A j \in 1 .. Len(list) : list[j] \in T
    OBVIOUS
<1>4. \A i \in 1 .. Len(left) : left[i] \in T
    BY <1>2, <1>3
<1>5. left \in Seq(T)
    BY <1>2, <1>4, SeqDef
<1> QED
    BY <1>2, <1>5 DEF left

\* The entry a resend finds is a copy of the same request.
LEMMA ListedCopy ==
    ASSUME NoTransfers, CopiesKept, NEW s \in Servers, NEW q \in Copies, InSent(sent[s], q)
    PROVE  \E i \in 1 .. Len(sent[s]) :
              /\ sent[s][i] \in UpdatesOf(Bank(s))
              /\ Alike(q, sent[s][i])
              /\ q.type = sent[s][i].type
              /\ PreSendStatus(sent[s], q) = sent[s][i].status
<1> DEFINE i == FirstSent(sent[s], q)
<1>1. sent[s] \in Seq(UpdatesOf(Bank(s))) /\ sent[s] \in Seq(Request)
  <2>1. UpdatesOf(Bank(s)) \subseteq Request
      BY DEF UpdatesOf, Copies, OwnRequests
  <2> QED
      BY <2>1 DEF CopiesKept
<1>2. i \in 1 .. Len(sent[s]) /\ SameSent(q, sent[s][i])
    BY <1>1, FirstSentProperty DEF InSent
<1>3. PreSendStatus(sent[s], q) = sent[s][i].status
    BY DEF PreSendStatus
<1> HIDE DEF i
<1>4. sent[s][i] \in UpdatesOf(Bank(s)) /\ sent[s][i] \in Copies
    BY <1>1, <1>2 DEF UpdatesOf
<1> QED
    BY <1>2, <1>3, <1>4, SameNameAlike

\* The first server of a bank is its head.
LEMMA FirstIsHead ==
    ASSUME TopologyInit, NEW b \in Banks
    PROVE  /\ FirstServer(b) \in Servers
           /\ Bank(FirstServer(b)) = b
           /\ Heads(FirstServer(b))
           /\ my_type[FirstServer(b)] \in {"HEAD", "HEAD_TAIL"}
<1>1. FirstServer(b) \in Servers /\ Bank(FirstServer(b)) = b
    BY ChainLengthAssumption DEF FirstServer, Servers, Bank
<1>2. my_type[FirstServer(b)] = Role(FirstServer(b)) /\ IsFirst(FirstServer(b))
    BY <1>1 DEF TopologyInit, IsFirst
<1> QED
    BY <1>1, <1>2 DEF Heads, Role

\* In the invariant the histories of every head are such.
LEMMA HeadHistories ==
    ASSUME ReplyInvariant, NEW b \in Banks
    PROVE  SoundHistories(processed_trans[FirstServer(b)], insuf_funds_trans[FirstServer(b)])
<1> DEFINE P == processed_trans[FirstServer(b)]
           I == insuf_funds_trans[FirstServer(b)]
<1>1. FirstServer(b) \in Servers /\ Heads(FirstServer(b))
    BY FirstIsHead DEF ReplyInvariant, HeadInvariant, HeadFrame
<1>2. P \in Seq(Request) /\ I \in Seq(Request)
    BY <1>1 DEF ReplyInvariant, HeadInvariant, HeadFrame, TypeOK, ServerTypeOK
<1>3. DOMAIN P = 1 .. Len(P) /\ DOMAIN I = 1 .. Len(I)
    BY <1>2
<1>4. /\ \A i, j \in DOMAIN P : P[i].req_id = P[j].req_id => i = j
      /\ \A i \in DOMAIN P, j \in DOMAIN I : P[i].req_id # I[j].req_id
    BY <1>1 DEF ReplyInvariant, HeadInvariant, HeadExecutesOnce, HeadHasOneVerdict
<1>5. /\ \A i, j \in 1 .. Len(I) : I[i].req_id = I[j].req_id => Content(I[i]) = Content(I[j])
      /\ \A i \in 1 .. Len(I) : I[i].type # "deposit"
    BY DEF ReplyInvariant, RefusalsAlike
<1> HIDE DEF P, I
<1>6. SoundHistories(P, I)
    BY <1>2, <1>3, <1>4, <1>5 DEF SoundHistories
<1> QED
    BY <1>6 DEF P, I

--------------------------------------------------------------------------------
\* What the two handlers of updates do.

\* The verdict r of head s, which it may owe to `sent`, and what it records.
Ruled(s, r) ==
    /\ s = FirstServer(Bank(s))
    /\ r \in UpdatesOf(Bank(s))
    /\ r.status # "none"
    /\ \/ processed_trans' = processed_trans
       \/ /\ r.status = "Need"
          /\ ~HasId(processed_trans[s], r.req_id) /\ ~HasId(insuf_funds_trans[s], r.req_id)
          /\ processed_trans' =
               [processed_trans EXCEPT ![s] = Record(processed_trans[s], r)]
    /\ \/ insuf_funds_trans' = insuf_funds_trans
       \/ /\ r.status = "InsufficientFunds" /\ r.type # "deposit"
          /\ \/ Recorded(insuf_funds_trans[s], r)
             \/ /\ ~HasId(processed_trans[s], r.req_id)
                /\ ~HasId(insuf_funds_trans[s], r.req_id)
          /\ insuf_funds_trans' =
               [insuf_funds_trans EXCEPT ![s] = Append(insuf_funds_trans[s], r)]
    /\ r.status = "Need" =>
         \/ Recorded(processed_trans[s], r)
         \/ processed_trans' = [processed_trans EXCEPT ![s] = Record(processed_trans[s], r)]
    /\ r.status = "Processed" => Recorded(processed_trans[s], r)
    /\ r.status = "InsufficientFunds" =>
         \/ Recorded(insuf_funds_trans[s], r)
         \/ insuf_funds_trans' =
              [insuf_funds_trans EXCEPT ![s] = Append(insuf_funds_trans[s], r)]
    /\ r.status = "InconsistentWithHistory" => Mismatch(s, r)

\* The verdict of a head on an update it takes for a resend, or judges.
LEMMA RulingStep ==
    ASSUME NoTransfers, ReplyInvariant, NEW s \in Servers, NEW m \in DOMAIN to_server,
           RecUpdate(s)!(m)
    PROVE  Ruled(s, Judged(s, m.req))
<1> DEFINE q == m.req
           r == Judged(s, m.req)
           P == processed_trans[s]
           I == insuf_funds_trans[s]
           st == ProcessUpdate(Bank(s), balance_map[s], CheckSameReq(P, I, q), q).status
<1>1. /\ q \in Copies /\ q.type \in Updates
      /\ s = FirstServer(BankOf[q.client_port])
      /\ ServerTypeOK /\ TopologyInit
    BY DEF ReplyInvariant, CopiesKept, HeadInvariant, HeadFrame, TypeOK
<1>2. BankOf[q.client_port] \in Banks
  <2>1. q.client_port \in Clients
      BY <1>1 DEF Copies, OwnRequests, Request
  <2> QED
      BY <2>1, BankOfAssumption
<1>3. Bank(s) = BankOf[q.client_port] /\ Bank(s) \in Banks /\ s = FirstServer(Bank(s)) /\ Heads(s)
    BY <1>1, <1>2, FirstIsHead
<1>4. /\ q \in OwnRequests
      /\ Judge(s, q).status \in Statuses
    BY <1>1, JudgedOwn DEF Copies, OwnRequests, Request
<1>5. /\ r.status = Judge(s, q).status
      /\ r.type = q.type
      /\ r \in Copies
      /\ r.client_port = q.client_port
      /\ Alike(r, q)
  <2>1. /\ r \in OwnRequests
        /\ r.status = Judge(s, q).status
        /\ r.type = q.type
        /\ r.req_id = q.req_id
      BY <1>1, <1>4, JudgedOwn
  <2>2. q \in Request
      BY <1>4 DEF OwnRequests
  <2>3. /\ r.account_num = q.account_num /\ r.amount = q.amount
        /\ r.client_port = q.client_port /\ r.sent_id = q.sent_id
        /\ r.dest_bank_id = q.dest_bank_id /\ r.dest_account_num = q.dest_account_num
      BY <2>2 DEF Judged, Request
  <2> HIDE DEF q, r
  <2> QED
      BY <1>1, <2>1, <2>3 DEF Copies, Original, Alike, Content
<1>6. r \in UpdatesOf(Bank(s))
    BY <1>1, <1>3, <1>5 DEF UpdatesOf
<1>7. /\ processed_trans' = IF Heads(s) /\ ~InSent(sent[s], q) /\ r.status = "Need"
                            THEN [processed_trans EXCEPT ![s] = Record(P, r)]
                            ELSE processed_trans
      /\ insuf_funds_trans' = IF r.type # "deposit" /\ r.status = "InsufficientFunds"
                              THEN [insuf_funds_trans EXCEPT ![s] = Append(I, r)]
                              ELSE insuf_funds_trans
    OBVIOUS
<1>8. CASE InSent(sent[s], q)
  <2>1. PICK i \in 1 .. Len(sent[s]) :
             /\ sent[s][i] \in UpdatesOf(Bank(s))
             /\ Alike(q, sent[s][i])
             /\ PreSendStatus(sent[s], q) = sent[s][i].status
      BY <1>1, <1>8, ListedCopy DEF ReplyInvariant
  <2>2. r.status = sent[s][i].status
      BY <1>5, <1>8, <2>1 DEF Judge
  <2>3. Decided(s, sent[s][i])
      BY <1>3 DEF ReplyInvariant, SentBacked, BackedAt, BackedBefore
  <2>4. Alike(r, sent[s][i])
      BY <1>5, <2>1 DEF Alike
  <2> DEFINE e == sent[s][i]
  <2> HIDE DEF e, q, r, P, I
  <2>5. /\ \A H : Recorded(H, r) <=> Recorded(H, e)
        /\ \A H : HasId(H, r.req_id) <=> HasId(H, e.req_id)
      BY <2>4, RecordedAlike DEF e
  <2>6. /\ r.status # "none"
        /\ r.status \in Granted => Recorded(P, r)
        /\ r.status = "InsufficientFunds" => Recorded(I, r)
        /\ r.status = "InconsistentWithHistory" => Mismatch(s, r)
      BY <2>2, <2>3, <2>5 DEF Decided, Vouched, Mismatch, e, P, I
  <2> QED
      BY <1>3, <1>6, <1>7, <1>8, <2>6 DEF Ruled, Granted, P, I, q, r
<1>9. CASE ~InSent(sent[s], q)
  <2>1. r.status = st
      BY <1>5, <1>9 DEF Judge
  <2>2. q.type \in {"deposit", "withdraw"}
      BY <1>1, CopyType
  <2>3. SoundHistories(P, I)
    <3>1. SoundHistories(processed_trans[FirstServer(Bank(s))],
                         insuf_funds_trans[FirstServer(Bank(s))])
        BY <1>3, HeadHistories
    <3> QED
        BY <1>3, <3>1
  <2> HIDE DEF P, I
  <2>4. /\ st \in {"Need", "Processed", "InsufficientFunds", "InconsistentWithHistory"}
        /\ st = "Need" => ~HasId(P, q.req_id) /\ ~HasId(I, q.req_id)
        /\ st = "Processed" => Recorded(P, q)
        /\ st = "InsufficientFunds" =>
             /\ q.type # "deposit"
             /\ Recorded(I, q) \/ (~HasId(P, q.req_id) /\ ~HasId(I, q.req_id))
        /\ st = "InconsistentWithHistory" =>
             /\ HasId(P, q.req_id) \/ HasId(I, q.req_id)
             /\ ~Recorded(P, q) /\ ~Recorded(I, q)
    <3>1. st = ProcessUpdate(Bank(s), balance_map[s], CheckSameReq(P, I, q), q).status
        OBVIOUS
    <3> HIDE DEF q, st
    <3> QED
        BY <2>2, <2>3, <3>1, VerdictMeaning
  <2> HIDE DEF st, q, r
  <2>5. /\ \A H : Recorded(H, r) <=> Recorded(H, q)
        /\ \A H : HasId(H, r.req_id) <=> HasId(H, q.req_id)
      BY <1>5, RecordedAlike
  <2>6. /\ r.status # "none"
        /\ r.status = "Need" => ~HasId(P, r.req_id) /\ ~HasId(I, r.req_id)
        /\ r.status = "Processed" => Recorded(P, r)
        /\ r.status = "InsufficientFunds" =>
             /\ r.type # "deposit"
             /\ Recorded(I, r) \/ (~HasId(P, r.req_id) /\ ~HasId(I, r.req_id))
        /\ r.status = "InconsistentWithHistory" => Mismatch(s, r)
      BY <1>5, <2>1, <2>4, <2>5 DEF Mismatch, P, I
  <2>7. /\ \/ processed_trans' = processed_trans
           \/ /\ r.status = "Need"
              /\ processed_trans' = [processed_trans EXCEPT ![s] = Record(P, r)]
        /\ r.status = "Need" =>
              processed_trans' = [processed_trans EXCEPT ![s] = Record(P, r)]
      BY <1>3, <1>7, <1>9
  <2>8. /\ \/ insuf_funds_trans' = insuf_funds_trans
           \/ /\ r.status = "InsufficientFunds" /\ r.type # "deposit"
              /\ insuf_funds_trans' = [insuf_funds_trans EXCEPT ![s] = Append(I, r)]
        /\ r.status = "InsufficientFunds" =>
              insuf_funds_trans' = [insuf_funds_trans EXCEPT ![s] = Append(I, r)]
      BY <1>7, <2>6
  <2> QED
      BY <1>3, <1>6, <2>6, <2>7, <2>8 DEF Ruled, P, I, q, r
<1> QED
    BY <1>8, <1>9

--------------------------------------------------------------------------------
\* What histories remember.

\* A history that grows by a request records that one and what it did before.
LEMMA AppendRecorded ==
    ASSUME NEW H \in Seq(Request), NEW x \in Request
    PROVE  \A q : Recorded(Append(H, x), q) <=> Recorded(H, q) \/ Alike(x, q)
<1>1. /\ DOMAIN H = 1 .. Len(H)
      /\ DOMAIN Append(H, x) = 1 .. Len(H) + 1
      /\ \A i \in 1 .. Len(H) : Append(H, x)[i] = H[i]
      /\ Append(H, x)[Len(H) + 1] = x
      /\ Len(H) \in Nat
    OBVIOUS
<1>2. \A i : i \in 1 .. Len(H) + 1 <=> i \in 1 .. Len(H) \/ i = Len(H) + 1
    BY <1>1
<1> QED
    BY <1>1, <1>2 DEF Recorded, Alike

\* So does one that records an execution.
LEMMA RecordRecorded ==
    ASSUME NEW H \in Seq(Request), NEW x \in Request
    PROVE  \A q : Recorded(Record(H, x), q) <=> Recorded(H, q) \/ Alike(x, q)
<1> DEFINE y == [x EXCEPT !.status = "Processed"]
<1>1. y \in Request /\ Alike(y, x)
    BY DEF Request, Statuses, Alike, Content
<1>2. \A q : Alike(y, q) <=> Alike(x, q)
    BY <1>1 DEF Alike
<1>3. Record(H, x) = Append(H, y)
    BY DEF Record
<1> HIDE DEF y
<1> QED
    BY <1>1, <1>2, <1>3, AppendRecorded

\* Nothing recorded is forgotten and no head changes its mind.
Steady ==
    /\ \A t \in Servers : \A q :
          /\ Recorded(processed_trans[t], q) => Recorded(processed_trans'[t], q)
          /\ Recorded(insuf_funds_trans[t], q) => Recorded(insuf_funds_trans'[t], q)
    /\ \A b \in Banks : \A q :
          Decided(FirstServer(b), q) => Decided(FirstServer(b), q)'

\* What stands behind a copy goes on to stand behind it.
LEMMA BackingStays ==
    ASSUME Steady, NEW s \in Servers, NEW q
    PROVE  /\ Vouched(s, q) => Vouched(s, q)'
           /\ BackedBefore(s, q) => BackedBefore(s, q)'
           /\ BackedAt(s, q) => BackedAt(s, q)'
<1>1. \A t \in Servers : Vouched(t, q) => Vouched(t, q)'
    BY DEF Steady, Vouched
<1>2. Bank(s) \in Banks
    BY DEF Servers, Bank
<1>3. Before(s) \subseteq Servers /\ Before(s)' = Before(s)
    BY DEF Before
<1>4. BackedBefore(s, q) => BackedBefore(s, q)'
    BY <1>1, <1>2, <1>3 DEF Steady, BackedBefore
<1> QED
    BY <1>1, <1>4 DEF BackedAt

\* A ruling keeps what the histories say, and itself stands.
LEMMA RulingStands ==
    ASSUME TypeOK, NEW s \in Servers, NEW r, Ruled(s, r)
    PROVE  /\ Steady
           /\ Decided(s, r)'
           /\ \A t \in Servers \ {s} : /\ processed_trans'[t] = processed_trans[t]
                                       /\ insuf_funds_trans'[t] = insuf_funds_trans[t]
<1> DEFINE P == processed_trans[s]
           I == insuf_funds_trans[s]
           P1 == processed_trans'[s]
           I1 == insuf_funds_trans'[s]
<1>1. /\ P \in Seq(Request) /\ I \in Seq(Request)
      /\ processed_trans \in [Servers -> Seq(Request)]
      /\ insuf_funds_trans \in [Servers -> Seq(Request)]
    BY DEF TypeOK, ServerTypeOK
<1>2. r \in Request /\ r.status \in Statuses
  <2>1. r \in Request
      BY DEF Ruled, UpdatesOf, Copies, OwnRequests
  <2> QED
      BY <2>1 DEF Request
<1>3. \A t \in Servers \ {s} : /\ processed_trans'[t] = processed_trans[t]
                               /\ insuf_funds_trans'[t] = insuf_funds_trans[t]
    BY <1>1 DEF Ruled
<1>4. \/ P1 = P
      \/ r.status = "Need" /\ ~HasId(P, r.req_id) /\ ~HasId(I, r.req_id) /\ P1 = Record(P, r)
    BY <1>1 DEF Ruled
<1>5. \/ I1 = I
      \/ /\ r.status = "InsufficientFunds"
         /\ Recorded(I, r) \/ (~HasId(P, r.req_id) /\ ~HasId(I, r.req_id))
         /\ I1 = Append(I, r)
    BY <1>1 DEF Ruled
<1>6. /\ r.status = "Need" => Recorded(P, r) \/ P1 = Record(P, r)
      /\ r.status = "Processed" => Recorded(P, r)
      /\ r.status = "InsufficientFunds" => Recorded(I, r) \/ I1 = Append(I, r)
      /\ r.status # "none"
      /\ r.status = "InconsistentWithHistory" => Mismatch(s, r)
    BY <1>1 DEF Ruled
<1> HIDE DEF P, I, P1, I1
<1>7. /\ \A q : Recorded(Append(I, r), q) <=> Recorded(I, q) \/ Alike(r, q)
      /\ \A q : Recorded(Record(P, r), q) <=> Recorded(P, q) \/ Alike(r, q)
      /\ \A id : HasId(Append(I, r), id) <=> HasId(I, id) \/ id = r.req_id
      /\ \A id : HasId(Record(P, r), id) <=> HasId(P, id) \/ id = r.req_id
    BY <1>1, <1>2, AppendRecorded, RecordRecorded, AppendId, RecordId
<1>8. Alike(r, r)
    BY DEF Alike
<1>9. \A q : /\ Recorded(P, q) => Recorded(P1, q)
             /\ Recorded(I, q) => Recorded(I1, q)
             /\ HasId(P, q.req_id) => HasId(P1, q.req_id)
             /\ HasId(I, q.req_id) => HasId(I1, q.req_id)
    BY <1>4, <1>5, <1>7
<1>10. ASSUME NEW q, Mismatch(s, q) PROVE Mismatch(s, q)'
  <2>1. /\ HasId(P, q.req_id) \/ HasId(I, q.req_id)
        /\ ~Recorded(P, q) /\ ~Recorded(I, q)
      BY <1>10 DEF Mismatch, P, I
  <2>2. ~Recorded(P1, q)
    <3>1. CASE P1 = P
        BY <2>1, <3>1
    <3>2. CASE ~HasId(P, r.req_id) /\ ~HasId(I, r.req_id) /\ P1 = Record(P, r)
      <4>1. q.req_id # r.req_id
          BY <2>1, <3>2
      <4> QED
          BY <1>7, <2>1, <3>2, <4>1 DEF Alike
    <3> QED
        BY <1>4, <3>1, <3>2
  <2>3. ~Recorded(I1, q)
    <3>1. CASE I1 = I
        BY <2>1, <3>1
    <3>2. CASE Recorded(I, r) /\ I1 = Append(I, r)
      <4>1. ~Alike(r, q)
          BY <2>1, <3>2, RecordedAlike
      <4> QED
          BY <1>7, <2>1, <3>2, <4>1
    <3>3. CASE ~HasId(P, r.req_id) /\ ~HasId(I, r.req_id) /\ I1 = Append(I, r)
      <4>1. q.req_id # r.req_id
          BY <2>1, <3>3
      <4> QED
          BY <1>7, <2>1, <3>3, <4>1 DEF Alike
    <3> QED
        BY <1>5, <3>1, <3>2, <3>3
  <2> QED
      BY <1>9, <2>1, <2>2, <2>3 DEF Mismatch, P1, I1
<1>11. ASSUME NEW q, Vouched(s, q) PROVE Vouched(s, q)'
    BY <1>9, <1>11 DEF Vouched, P, I, P1, I1
<1>12. ASSUME NEW q, Decided(s, q) PROVE Decided(s, q)'
    BY <1>10, <1>11, <1>12 DEF Decided
<1>13. ASSUME NEW t \in Servers \ {s}, NEW q, Decided(t, q) PROVE Decided(t, q)'
    BY <1>3, <1>13 DEF Decided, Vouched, Mismatch
<1>14. ASSUME NEW b \in Banks, NEW q, Decided(FirstServer(b), q)
       PROVE  Decided(FirstServer(b), q)'
  <2>1. FirstServer(b) \in Servers
      BY ChainLengthAssumption DEF FirstServer, Servers
  <2> QED
      BY <1>12, <1>13, <1>14, <2>1
<1>15. ASSUME NEW t \in Servers, NEW q
       PROVE  /\ Recorded(processed_trans[t], q) => Recorded(processed_trans'[t], q)
              /\ Recorded(insuf_funds_trans[t], q) => Recorded(insuf_funds_trans'[t], q)
    BY <1>3, <1>9 DEF P, I, P1, I1
<1>16. Decided(s, r)'
  <2>1. /\ r.status \in Granted => Recorded(P1, r)
        /\ r.status = "InsufficientFunds" => Recorded(I1, r)
      BY <1>6, <1>7, <1>8, <1>9 DEF Granted
  <2>2. Vouched(s, r)'
      BY <2>1 DEF Vouched, P1, I1
  <2> QED
      BY <1>6, <1>10, <2>2 DEF Decided
<1> QED
    BY <1>3, <1>14, <1>15, <1>16 DEF Steady

--------------------------------------------------------------------------------
\* A copy behind the head.

\* Copies that bear verdicts of one head bear the same.
LEMMA CopiesAgree ==
    ASSUME NEW h, SoundHistories(processed_trans[h], insuf_funds_trans[h]),
           NEW q, NEW e, q.status \in Statuses, e.status \in Statuses,
           Decided(h, q), Decided(h, e), Alike(q, e)
    PROVE  /\ q.status \in Granted <=> e.status \in Granted
           /\ q.status = "InsufficientFunds" <=> e.status = "InsufficientFunds"
           /\ q.status = "InconsistentWithHistory" <=> e.status = "InconsistentWithHistory"
<1> DEFINE P == processed_trans[h]
           I == insuf_funds_trans[h]
<1>1. \A x : ~ (Recorded(P, x) /\ Recorded(I, x))
    BY DEF SoundHistories, Recorded
<1>2. /\ Recorded(P, q) <=> Recorded(P, e)
      /\ Recorded(I, q) <=> Recorded(I, e)
    BY RecordedAlike
<1>3. \A x \in {q, e} :
        /\ x.status \in Granted => Recorded(P, x)
        /\ x.status = "InsufficientFunds" => Recorded(I, x)
        /\ x.status = "InconsistentWithHistory" => ~Recorded(P, x) /\ ~Recorded(I, x)
        /\ x.status \in Granted \cup {"InsufficientFunds", "InconsistentWithHistory"}
    BY DEF Decided, Vouched, Mismatch, Statuses, Granted
<1> HIDE DEF P, I
<1> QED
    BY <1>1, <1>2, <1>3 DEF Granted

\* The bank of a copy a server reads, and the copy.
LEMMA ReadCopy ==
    ASSUME NoTransfers, ReplyInvariant, NEW s \in Servers, RecForward(s),
           NEW q, q = Head(from_pre[s]).req
    PROVE  /\ q \in UpdatesOf(Bank(s)) /\ q \in Copies /\ q \in Request /\ q.status \in Statuses
           /\ Bank(s) \in Banks
           /\ my_type[s] \in {"INTER", "TAIL"}
           /\ BackedBefore(s, q)
           /\ q.status = "Processed" => Recorded(processed_trans[s], q)
           /\ q.type # "transfer"
<1>1. /\ from_pre[s] \in Seq(ForwardsOf(Bank(s)))
      /\ from_pre[s] # <<>>
    BY DEF RecForward, ReplyInvariant, CopiesKept
<1>2. /\ from_pre[s][1] = Head(from_pre[s])
      /\ Head(from_pre[s]) \in ForwardsOf(Bank(s))
      /\ 1 \in 1 .. Len(from_pre[s])
      /\ Len(from_pre[s]) \in Nat
    BY <1>1
<1>3. /\ q \in UpdatesOf(Bank(s)) /\ q \in Copies /\ q \in Request
    BY <1>2 DEF ForwardsOf, UpdatesOf, Copies, OwnRequests
<1>4. q.status \in Statuses /\ q.type # "transfer"
    BY <1>3, CopyType DEF Request
<1>5. BackedBefore(s, q)
    BY <1>2 DEF ReplyInvariant, StreamsBacked
<1>6. my_type[s] \in {"INTER", "TAIL"}
    BY <1>1 DEF ReplyInvariant, HeadInvariant, HeadFrame, HeadsReadNoStream, Heads,
                TypeOK, ServerTypeOK, TopologyTypeOK, Roles
<1>7. ASSUME q.status = "Processed" PROVE Recorded(processed_trans[s], q)
  <2>1. Ahead(s, q, 1)
      BY <1>2, <1>7 DEF ReplyInvariant, OrderKept, Granted
  <2>2. ~ \E i \in 1 .. Len(from_pre[s]) : i <= 1 /\ from_pre[s][i].req.status = "Need"
      BY <1>2, <1>7
  <2> QED
      BY <2>1, <2>2 DEF Ahead
<1>8. Bank(s) \in Banks
    BY DEF Servers, Bank
<1> QED
    BY <1>3, <1>4, <1>5, <1>6, <1>7, <1>8

\* What a server behind the head does with the copy q it reads, known as r.
Passed(s, q, r) ==
    /\ from_pre[s] # <<>> /\ q = Head(from_pre[s]).req
    /\ my_type[s] \in {"INTER", "TAIL"}
    /\ q \in UpdatesOf(Bank(s)) /\ r \in UpdatesOf(Bank(s))
    /\ \/ processed_trans' = processed_trans
       \/ /\ q.status = "Need"
          /\ processed_trans' =
               [processed_trans EXCEPT ![s] = Record(processed_trans[s], q)]
    /\ \/ insuf_funds_trans' = insuf_funds_trans
       \/ insuf_funds_trans' =
            [insuf_funds_trans EXCEPT ![s] = Append(insuf_funds_trans[s], q)]
    /\ q.status \in Granted => Recorded(processed_trans'[s], q)
    /\ q.status = "Processed" => Recorded(processed_trans[s], q)
    /\ q.status = "InsufficientFunds" => Recorded(insuf_funds_trans'[s], q)
    /\ BackedBefore(s, q)
    /\ r = q \/ BackedAt(s, r)

\* A server records what it had not, and what `sent` knows it has recorded.
LEMMA PassingStep ==
    ASSUME NoTransfers, ReplyInvariant, NEW s \in Servers, RecForward(s),
           NEW q, q = Head(from_pre[s]).req,
           NEW r, r = IF my_type[s] = "TAIL" /\ InSent(sent[s], q)
                      THEN [q EXCEPT !.status = PreSendStatus(sent[s], q)] ELSE q
    PROVE  Passed(s, q, r)
<1> DEFINE P == processed_trans[s]
           I == insuf_funds_trans[s]
<1>1. /\ q \in UpdatesOf(Bank(s)) /\ q \in Copies /\ q \in Request /\ q.status \in Statuses
      /\ Bank(s) \in Banks
      /\ my_type[s] \in {"INTER", "TAIL"}
      /\ BackedBefore(s, q)
      /\ q.status = "Processed" => Recorded(processed_trans[s], q)
    BY ReadCopy
<1>2. /\ P \in Seq(Request) /\ I \in Seq(Request)
      /\ processed_trans \in [Servers -> Seq(Request)]
      /\ insuf_funds_trans \in [Servers -> Seq(Request)]
    BY DEF ReplyInvariant, HeadInvariant, HeadFrame, TypeOK, ServerTypeOK
<1>3. /\ from_pre[s] # <<>>
      /\ processed_trans' = IF q.status = "Need" /\ ~InSent(sent[s], q)
                            THEN [processed_trans EXCEPT ![s] = Record(P, q)]
                            ELSE processed_trans
      /\ insuf_funds_trans' = IF q.status = "InsufficientFunds" /\ ~InSent(sent[s], q)
                              THEN [insuf_funds_trans EXCEPT ![s] = Append(I, q)]
                              ELSE insuf_funds_trans
    BY DEF RecForward
<1>4. CASE ~InSent(sent[s], q)
  <2>1. q.status = "Need" => processed_trans'[s] = Record(P, q)
      BY <1>2, <1>3, <1>4
  <2>2. q.status = "InsufficientFunds" => insuf_funds_trans'[s] = Append(I, q)
      BY <1>2, <1>3, <1>4
  <2>3. q.status = "Processed" => processed_trans'[s] = P
      BY <1>2, <1>3, <1>4
  <2>4. Recorded(Record(P, q), q) /\ Recorded(Append(I, q), q)
      BY <1>1, <1>2, AppendRecorded, RecordRecorded DEF Alike
  <2>5. /\ q.status \in Granted => Recorded(processed_trans'[s], q)
        /\ q.status = "InsufficientFunds" => Recorded(insuf_funds_trans'[s], q)
      BY <1>1, <2>1, <2>2, <2>3, <2>4 DEF Granted
  <2>6. r = q
      BY <1>4
  <2> QED
      BY <1>1, <1>3, <2>5, <2>6 DEF Passed
<1>5. CASE InSent(sent[s], q)
  <2>1. PICK i \in 1 .. Len(sent[s]) :
             /\ sent[s][i] \in UpdatesOf(Bank(s))
             /\ Alike(q, sent[s][i])
             /\ q.type = sent[s][i].type
             /\ PreSendStatus(sent[s], q) = sent[s][i].status
      BY <1>1, <1>5, ListedCopy DEF ReplyInvariant
  <2>2. PICK e : e = sent[s][i]
      OBVIOUS
  <2>3. /\ e \in Copies /\ e.status \in Statuses
        /\ BackedAt(s, e)
        /\ Alike(q, e)
    <3>1. BackedAt(s, sent[s][i])
        BY DEF ReplyInvariant, SentBacked
    <3>2. e \in Copies /\ e \in Request
        BY <2>1, <2>2 DEF UpdatesOf, Copies, OwnRequests
    <3> QED
        BY <2>1, <2>2, <3>1, <3>2 DEF Request
  <2>4. SoundHistories(processed_trans[FirstServer(Bank(s))],
                       insuf_funds_trans[FirstServer(Bank(s))])
      BY <1>1, HeadHistories
  <2>5. /\ q.status \in Granted <=> e.status \in Granted
        /\ q.status = "InsufficientFunds" <=> e.status = "InsufficientFunds"
      BY <1>1, <2>3, <2>4, CopiesAgree DEF BackedAt, BackedBefore
  <2>6. /\ processed_trans' = processed_trans
        /\ insuf_funds_trans' = insuf_funds_trans
      BY <1>3, <1>5
  <2>7. /\ q.status \in Granted => Recorded(P, q)
        /\ q.status = "InsufficientFunds" => Recorded(I, q)
      BY <2>3, <2>5, RecordedAlike DEF BackedAt, Vouched
  <2>8. r = q \/ (r \in UpdatesOf(Bank(s)) /\ BackedAt(s, r))
    <3>1. CASE my_type[s] = "TAIL"
      <4> PICK st \in Statuses : st = e.status
          BY <2>3
      <4>1. r = [q EXCEPT !.status = st]
          BY <1>5, <2>1, <2>2, <3>1
      <4>2. /\ r \in Copies /\ r.status = e.status /\ r.type = q.type
            /\ r.client_port = q.client_port
            /\ Alike(r, q)
        <5>1. /\ [q EXCEPT !.status = st] \in Copies
              /\ [q EXCEPT !.status = st].status = st
              /\ [q EXCEPT !.status = st].type = q.type
              /\ [q EXCEPT !.status = st].client_port = q.client_port
              /\ Alike([q EXCEPT !.status = st], q)
            BY <1>1, StatusAside
        <5> QED
            BY <4>1, <5>1, Zenon
      <4>3. Alike(r, e)
          BY <2>3, <4>2 DEF Alike
      <4>4. \A H : /\ Recorded(H, r) <=> Recorded(H, e)
                   /\ HasId(H, r.req_id) <=> HasId(H, e.req_id)
        <5> SUFFICES ASSUME NEW H
                     PROVE  /\ Recorded(H, r) <=> Recorded(H, e)
                            /\ HasId(H, r.req_id) <=> HasId(H, e.req_id)
            OBVIOUS
        <5>1. r.req_id = e.req_id /\ Content(r) = Content(e)
            BY <4>3 DEF Alike
        <5>2. Recorded(H, r) <=> Recorded(H, e)
            BY <5>1, Zenon DEF Recorded
        <5>3. HasId(H, r.req_id) <=> HasId(H, e.req_id)
            BY <5>1, Zenon
        <5> QED
            BY <5>2, <5>3, Zenon
      <4>5. \A t : /\ Vouched(t, e) => Vouched(t, r)
                   /\ Decided(t, e) => Decided(t, r)
          BY <4>2, <4>4 DEF Vouched, Decided, Mismatch
      <4>6. BackedAt(s, r)
          BY <2>3, <4>5 DEF BackedAt, BackedBefore
      <4>7. r \in UpdatesOf(Bank(s))
          BY <1>1, <4>2 DEF UpdatesOf
      <4> QED
          BY <4>6, <4>7
    <3>2. CASE my_type[s] # "TAIL"
        BY <3>2
    <3> QED
        BY <3>1, <3>2
  <2> QED
      BY <1>1, <1>3, <2>6, <2>7, <2>8 DEF Passed
<1> QED
    BY <1>4, <1>5

\* So the histories stay steady, and the copy is backed here as well.
LEMMA PassingStands ==
    ASSUME ReplyInvariant, NEW s \in Servers, NEW q, NEW r, Passed(s, q, r)
    PROVE  /\ Steady
           /\ BackedAt(s, q)' /\ BackedAt(s, r)'
           /\ \A t \in Servers \ {s} : /\ processed_trans'[t] = processed_trans[t]
                                       /\ insuf_funds_trans'[t] = insuf_funds_trans[t]
<1>1. /\ processed_trans \in [Servers -> Seq(Request)]
      /\ insuf_funds_trans \in [Servers -> Seq(Request)]
      /\ q \in Request
    BY DEF ReplyInvariant, HeadInvariant, HeadFrame, TypeOK, ServerTypeOK, Passed,
           UpdatesOf, Copies, OwnRequests
<1>2. \A t \in Servers \ {s} : /\ processed_trans'[t] = processed_trans[t]
                               /\ insuf_funds_trans'[t] = insuf_funds_trans[t]
    BY <1>1 DEF Passed
<1>3. /\ processed_trans'[s] \in {processed_trans[s], Record(processed_trans[s], q)}
      /\ insuf_funds_trans'[s] \in {insuf_funds_trans[s], Append(insuf_funds_trans[s], q)}
    BY <1>1 DEF Passed
<1>4. \A x : /\ Recorded(processed_trans[s], x) => Recorded(processed_trans'[s], x)
             /\ Recorded(insuf_funds_trans[s], x) => Recorded(insuf_funds_trans'[s], x)
  <2>1. processed_trans[s] \in Seq(Request) /\ insuf_funds_trans[s] \in Seq(Request)
      BY <1>1
  <2> QED
      BY <1>1, <1>3, <2>1, AppendRecorded, RecordRecorded
<1>5. ASSUME NEW b \in Banks, NEW x, Decided(FirstServer(b), x)
      PROVE  Decided(FirstServer(b), x)'
  <2>1. /\ FirstServer(b) \in Servers
        /\ my_type[FirstServer(b)] \in {"HEAD", "HEAD_TAIL"}
      BY FirstIsHead DEF ReplyInvariant, HeadInvariant, HeadFrame
  <2>2. FirstServer(b) # s
      BY <2>1 DEF Passed
  <2> QED
      BY <1>2, <1>5, <2>1, <2>2 DEF Decided, Vouched, Mismatch
<1>6. Steady
    BY <1>2, <1>4, <1>5 DEF Steady
<1>7. BackedAt(s, q)'
  <2>1. BackedBefore(s, q)'
      BY <1>6, BackingStays DEF Passed
  <2>2. Vouched(s, q)'
      BY DEF Passed, Vouched
  <2> QED
      BY <2>1, <2>2 DEF BackedAt
<1>8. BackedAt(s, r)'
    BY <1>6, <1>7, BackingStays DEF Passed
<1> QED
    BY <1>2, <1>6, <1>7, <1>8

--------------------------------------------------------------------------------
\* The streams.

\* Between two neighbours there is no server.
LEMMA NextBefore ==
    ASSUME NEW s \in Servers, Next1(s) \in Servers
    PROVE  /\ Next1(s) # s
           /\ Bank(Next1(s)) = Bank(s)
           /\ Before(Next1(s)) = Before(s) \cup {s}
<1>1. \A u \in Servers : u = <<u[1], u[2]>> /\ u[2] \in Int
    BY ChainLengthAssumption DEF Servers
<1>2. Next1(s)[1] = s[1] /\ Next1(s)[2] = s[2] + 1
    BY DEF Next1
<1>3. ASSUME NEW u \in Servers
      PROVE  u \in Before(Next1(s)) <=> u \in Before(s) \/ u = s
  <2>1. u[1] = s[1] /\ u[2] = s[2] => u = s
      BY <1>1
  <2>2. u[2] < s[2] + 1 <=> u[2] < s[2] \/ u[2] = s[2]
      BY <1>1
  <2> QED
      BY <1>2, <2>1, <2>2 DEF Before, Bank
<1>4. Before(s) \subseteq Servers /\ Before(Next1(s)) \subseteq Servers
    BY DEF Before
<1>5. Before(Next1(s)) = Before(s) \cup {s}
    BY <1>3, <1>4
<1>6. s[2] + 1 # s[2]
    BY <1>1
<1> QED
    BY <1>2, <1>5, <1>6 DEF Bank

\* Who has a successor.
LEMMA Successor ==
    ASSUME TopologyInit, NEW s \in Servers
    PROVE  /\ Next1(s) \in Servers => next_fd[s] = Next1(s)
           /\ Next1(s) \notin Servers => next_fd[s] = NoServer
           /\ NoServer \notin Servers
<1>1. next_fd[s] = IF IsLast(s) THEN NoServer ELSE Next1(s)
    BY DEF TopologyInit
<1>2. ~IsLast(s) => Next1(s) \in Servers
    BY ChainEnds
<1>3. ASSUME IsLast(s) PROVE Next1(s) \notin Servers
  <2>1. s[2] = ChainLength[s[1]] /\ s[1] \in Banks
      BY <1>3 DEF IsLast, LastServer, Bank, Servers
  <2>2. ChainLength[s[1]] + 1 \notin 1 .. ChainLength[s[1]]
      BY <2>1, ChainLengthAssumption
  <2>3. \A u \in Servers : u[2] \in 1 .. ChainLength[u[1]]
      BY DEF Servers
  <2> QED
      BY <2>1, <2>2, <2>3 DEF Next1
<1>4. NoServer \notin Servers
    BY NoBankAssumption DEF NoServer, Servers
<1> QED
    BY <1>1, <1>2, <1>3, <1>4

\* A copy enters the stream of the successor; it may have been read for that.
Moves(s, q) ==
    /\ \A t \in Servers : t # s /\ t # Next1(s) => from_pre'[t] = from_pre[t]
    /\ \/ from_pre'[s] = from_pre[s]
       \/ /\ from_pre[s] # <<>> /\ Head(from_pre[s]).req = q
          /\ from_pre'[s] = Tail(from_pre[s])
    /\ Next1(s) \in Servers =>
          from_pre'[Next1(s)] =
             Append(from_pre[Next1(s)], [op |-> "FORWARD", req |-> q])

\* forward_req_to_next_server does that, and nothing where there is none.
LEMMA ForwardMoves ==
    ASSUME TopologyInit, NEW s \in Servers, NEW q, NEW rest, DOMAIN from_pre = Servers,
           \/ rest = from_pre
           \/ /\ from_pre[s] # <<>> /\ Head(from_pre[s]).req = q
              /\ rest = Pop(from_pre, s),
           from_pre' = Forward(rest, s, q)
    PROVE  Moves(s, q)
<1>1. /\ DOMAIN rest = Servers
      /\ \A t \in Servers : t # s => rest[t] = from_pre[t]
      /\ \/ rest[s] = from_pre[s]
         \/ /\ from_pre[s] # <<>> /\ Head(from_pre[s]).req = q
            /\ rest[s] = Tail(from_pre[s])
    BY DEF Pop
<1>2. CASE Next1(s) \in Servers
  <2>1. next_fd[s] = Next1(s) /\ next_fd[s] # NoServer /\ Next1(s) # s
      BY <1>2, Successor, NextBefore
  <2>2. from_pre' =
          [rest EXCEPT ![Next1(s)] = Append(@, [op |-> "FORWARD", req |-> q])]
      BY <2>1 DEF Forward, Push
  <2> QED
      BY <1>1, <1>2, <2>1, <2>2 DEF Moves
<1>3. CASE Next1(s) \notin Servers
  <2>1. from_pre' = rest
      BY <1>3, Successor DEF Forward, Push
  <2> QED
      BY <1>1, <1>3, <2>1 DEF Moves
<1> QED
    BY <1>2, <1>3

\* What server s does to the histories and streams when it handles copy q.
Transmits(s, q) ==
    /\ q \in UpdatesOf(Bank(s))
    /\ \/ processed_trans' = processed_trans
       \/ /\ q.status = "Need"
          /\ processed_trans' =
               [processed_trans EXCEPT ![s] = Record(processed_trans[s], q)]
    /\ q.status = "Processed" => Recorded(processed_trans[s], q)
    /\ q.status \in Granted => Recorded(processed_trans'[s], q)
    /\ Moves(s, q)

\* What is ahead of one copy of a request is ahead of the others.
LEMMA AheadAlike ==
    ASSUME NEW t, NEW x, NEW y, Alike(x, y), NEW n
    PROVE  Ahead(t, x, n) <=> Ahead(t, y, n)
<1>1. /\ Recorded(processed_trans[t], x) <=> Recorded(processed_trans[t], y)
      /\ \A e : Alike(e, x) <=> Alike(e, y)
    BY RecordedAlike DEF Alike
<1> QED
    BY <1>1 DEF Ahead

\* It stays so when the stream grows behind.
LEMMA AheadStays ==
    ASSUME NEW t \in Servers, NEW x, NEW n \in Nat, NEW m \in Nat, n <= m, NEW T, NEW z \in T,
           from_pre[t] \in Seq(T), from_pre'[t] \in {from_pre[t], Append(from_pre[t], z)},
           \A q : Recorded(processed_trans[t], q) => Recorded(processed_trans'[t], q),
           Ahead(t, x, n)
    PROVE  Ahead(t, x, m)'
<1>1. CASE Recorded(processed_trans[t], x)
    BY <1>1 DEF Ahead
<1>2. CASE ~Recorded(processed_trans[t], x)
  <2>1. PICK i \in 1 .. Len(from_pre[t]) : /\ i <= n
                                           /\ from_pre[t][i].req.status = "Need"
                                           /\ Alike(from_pre[t][i].req, x)
      BY <1>2 DEF Ahead
  <2>2. from_pre'[t][i] = from_pre[t][i] /\ i \in 1 .. Len(from_pre'[t]) /\ i <= m
    <3> DEFINE old == from_pre[t]
               new == from_pre'[t]
    <3>1. old \in Seq(T) /\ new \in {old, Append(old, z)} /\ i \in 1 .. Len(old)
        OBVIOUS
    <3>2. i <= n
        BY <2>1
    <3> HIDE DEF old, new
    <3>3. new[i] = old[i] /\ i \in 1 .. Len(new)
        BY <3>1
    <3> QED
        BY <3>2, <3>3 DEF old, new
  <2>3. from_pre'[t][i].req.status = "Need" /\ Alike(from_pre'[t][i].req, x)
      BY <2>1, <2>2
  <2> QED
      BY <2>2, <2>3 DEF Ahead
<1> QED
    BY <1>1, <1>2

\* And when the first copy is read, which is recorded then.
LEMMA AheadPops ==
    ASSUME NEW t \in Servers, NEW x, NEW n \in Nat, NEW T,
           from_pre[t] \in Seq(T), from_pre[t] # <<>>,
           from_pre'[t] = Tail(from_pre[t]),
           \A q : Recorded(processed_trans[t], q) => Recorded(processed_trans'[t], q),
           Head(from_pre[t]).req.status = "Need" =>
              Recorded(processed_trans'[t], Head(from_pre[t]).req),
           Ahead(t, x, n + 1)
    PROVE  Ahead(t, x, n)'
<1>1. CASE Recorded(processed_trans[t], x)
    BY <1>1 DEF Ahead
<1>2. CASE ~Recorded(processed_trans[t], x)
  <2>1. PICK i \in 1 .. Len(from_pre[t]) : /\ i <= n + 1
                                           /\ from_pre[t][i].req.status = "Need"
                                           /\ Alike(from_pre[t][i].req, x)
      BY <1>2 DEF Ahead
  <2>2. CASE i = 1
    <3>1. from_pre[t][1] = Head(from_pre[t])
        OBVIOUS
    <3>2. Recorded(processed_trans'[t], Head(from_pre[t]).req)
        BY <2>1, <2>2, <3>1
    <3>3. Recorded(processed_trans'[t], x)
        BY <2>1, <2>2, <3>1, <3>2, RecordedAlike
    <3> QED
        BY <3>3 DEF Ahead
  <2>3. CASE i # 1
    <3>1. /\ i - 1 \in 1 .. Len(from_pre'[t])
          /\ from_pre'[t][i - 1] = from_pre[t][i]
          /\ i - 1 <= n
        BY <2>1, <2>3
    <3>2. from_pre'[t][i - 1].req.status = "Need" /\ Alike(from_pre'[t][i - 1].req, x)
        BY <2>1, <3>1
    <3> QED
        BY <3>1, <3>2 DEF Ahead
  <2> QED
      BY <2>2, <2>3
<1> QED
    BY <1>1, <1>2

\* A message more or a message less in a stream.
LEMMA StreamItems ==
    ASSUME NEW T, NEW old \in Seq(T), NEW z \in T
    PROVE  /\ \A i \in 1 .. Len(Append(old, z)) :
                 \/ i \in 1 .. Len(old) /\ Append(old, z)[i] = old[i]
                 \/ i = Len(old) + 1 /\ Append(old, z)[i] = z
           /\ Len(Append(old, z)) = Len(old) + 1
           /\ old # <<>> =>
                /\ Len(Tail(old)) \in Nat
                /\ Len(old) = Len(Tail(old)) + 1
                /\ \A i \in 1 .. Len(Tail(old)) :
                      i + 1 \in 1 .. Len(old) /\ Tail(old)[i] = old[i + 1]
           /\ Len(old) \in Nat
OBVIOUS

\* The streams as a transmission leaves them.
LEMMA TransmissionStreams ==
    ASSUME ReplyInvariant, NEW s \in Servers, NEW q, Transmits(s, q), NEW t \in Servers
    PROVE  LET old == from_pre[t]
               new == from_pre'[t]
           IN  /\ old \in Seq(ForwardsOf(Bank(t)))
               /\ \/ new = old
                  \/ /\ t = Next1(s)
                     /\ [op |-> "FORWARD", req |-> q] \in ForwardsOf(Bank(t))
                     /\ new = Append(old, [op |-> "FORWARD", req |-> q])
                  \/ t = s /\ old # <<>> /\ Head(old).req = q /\ new = Tail(old)
<1>1. from_pre[t] \in Seq(ForwardsOf(Bank(t)))
    BY DEF ReplyInvariant, CopiesKept
<1>2. t = Next1(s) => [op |-> "FORWARD", req |-> q] \in ForwardsOf(Bank(t))
    BY NextBefore DEF Transmits, ForwardsOf
<1> QED
    BY <1>1, <1>2 DEF Transmits, Moves

\* What was ahead of the end of a stream is so after a transmission.
LEMMA TransmissionAhead ==
    ASSUME ReplyInvariant, Steady, NEW s \in Servers, NEW q, Transmits(s, q),
           NEW t \in Servers, NEW x, Ahead(t, x, Len(from_pre[t])),
           NEW n, n = Len(from_pre'[t])
    PROVE  Ahead(t, x, n)'
<1> PICK m : m = Len(from_pre[t])
    OBVIOUS
<1> PICK z : z = [op |-> "FORWARD", req |-> q]
    OBVIOUS
<1> DEFINE T == ForwardsOf(Bank(t))
<1>1. /\ from_pre[t] \in Seq(T)
      /\ \/ from_pre'[t] = from_pre[t]
         \/ z \in T /\ from_pre'[t] = Append(from_pre[t], z)
         \/ /\ t = s /\ from_pre[t] # <<>> /\ Head(from_pre[t]).req = q
            /\ from_pre'[t] = Tail(from_pre[t])
    BY TransmissionStreams
<1>2. \A y : Recorded(processed_trans[t], y) => Recorded(processed_trans'[t], y)
    BY DEF Steady
<1>3. Ahead(t, x, m)
    OBVIOUS
<1> HIDE DEF T
<1>4. CASE from_pre'[t] = from_pre[t]
  <2>1. m = n /\ m \in Nat
      BY <1>1, <1>4
  <2> QED
      BY <1>2, <1>3, <1>4, <2>1 DEF Ahead
<1>5. CASE z \in T /\ from_pre'[t] = Append(from_pre[t], z)
  <2>1. n = m + 1 /\ m \in Nat
      BY <1>1, <1>5
  <2>2. from_pre'[t] \in {from_pre[t], Append(from_pre[t], z)}
      BY <1>5
  <2>3. z \in T /\ m \in Nat /\ n \in Nat /\ m <= n
      BY <1>5, <2>1
  <2> QED
      BY <1>1, <1>2, <1>3, <2>2, <2>3, AheadStays
<1>6. CASE /\ t = s /\ from_pre[t] # <<>> /\ Head(from_pre[t]).req = q
           /\ from_pre'[t] = Tail(from_pre[t])
  <2>1. m = n + 1 /\ n \in Nat
      BY <1>1, <1>6, StreamItems
  <2>2. Head(from_pre[t]).req.status = "Need" =>
           Recorded(processed_trans'[t], Head(from_pre[t]).req)
      BY <1>6 DEF Transmits, Granted
  <2>3. Ahead(t, x, n + 1)
      BY <1>3, <2>1
  <2> QED
      BY <1>1, <1>2, <1>6, <2>1, <2>2, <2>3, AheadPops
<1> QED
    BY <1>1, <1>4, <1>5, <1>6

\* A transmission delivers no copy that says Processed too early.
LEMMA TransmissionOrder ==
    ASSUME ReplyInvariant, Steady, NEW s \in Servers, NEW q, Transmits(s, q)
    PROVE  OrderKept'
<1> SUFFICES ASSUME NEW t \in Servers, NEW i \in 1 .. Len(from_pre'[t]),
                    NEW x, x = from_pre'[t][i].req, x.status \in Granted
             PROVE  Ahead(t, x, i)'
    BY DEF OrderKept, Ahead
<1> PICK z : z = [op |-> "FORWARD", req |-> q]
    OBVIOUS
<1> DEFINE T == ForwardsOf(Bank(t))
           old == from_pre[t]
           new == from_pre'[t]
<1>1. /\ old \in Seq(T)
      /\ \/ new = old
         \/ t = Next1(s) /\ z \in T /\ new = Append(old, z)
         \/ t = s /\ old # <<>> /\ Head(old).req = q /\ new = Tail(old)
    BY TransmissionStreams
<1>2. \A y : Recorded(processed_trans[t], y) => Recorded(processed_trans'[t], y)
    BY DEF Steady
<1>3. \A k \in 1 .. Len(old) : old[k].req.status \in Granted => Ahead(t, old[k].req, k)
    BY DEF ReplyInvariant, OrderKept
<1>4. i \in 1 .. Len(new) /\ x = new[i].req /\ i \in Nat
    OBVIOUS
<1> HIDE DEF T, old, new
<1>5. CASE new = old
  <2>1. Ahead(t, x, i)
      BY <1>3, <1>4, <1>5
  <2>2. from_pre'[t] = from_pre[t]
      BY <1>5 DEF old, new
  <2> QED
      BY <1>2, <2>1, <2>2 DEF Ahead
<1>6. CASE t = Next1(s) /\ z \in T /\ new = Append(old, z)
  <2>1. \/ i \in 1 .. Len(old) /\ new[i] = old[i]
        \/ i = Len(old) + 1 /\ new[i] = z
      BY <1>1, <1>4, <1>6, StreamItems
  <2>2. /\ from_pre[t] \in Seq(T) /\ from_pre'[t] \in {from_pre[t], Append(from_pre[t], z)}
        /\ Len(old) \in Nat
      BY <1>1, <1>6 DEF old, new
  <2>3. CASE i \in 1 .. Len(old) /\ new[i] = old[i]
    <3>1. Ahead(t, x, i)
        BY <1>3, <1>4, <2>3
    <3>2. z \in T /\ i \in Nat /\ i <= i
        BY <1>4, <1>6
    <3> QED
        BY <1>2, <2>2, <3>1, <3>2, AheadStays
  <2>4. CASE i = Len(old) + 1 /\ new[i] = z /\ q.status = "Need"
      BY <1>4, <2>4 DEF Ahead, Alike, new
  <2>5. CASE i = Len(old) + 1 /\ new[i] = z /\ q.status = "Processed"
    <3>1. PICK k \in 1 .. Len(processed_trans[s]) : Alike(processed_trans[s][k], q)
      <4>1. processed_trans[s] \in Seq(Request)
          BY DEF ReplyInvariant, HeadInvariant, HeadFrame, TypeOK, ServerTypeOK
      <4> QED
          BY <2>5, <4>1 DEF Transmits, Recorded, Alike
    <3>2. <<s, t>> \in Neighbours
        BY <1>6 DEF Neighbours
    <3> PICK e : e = processed_trans[s][k]
        OBVIOUS
    <3> PICK m : m = Len(old)
        OBVIOUS
    <3>3. Ahead(t, e, m)
        BY <3>2 DEF ReplyInvariant, NothingLost, old
    <3>4. x = q
        BY <1>4, <2>5
    <3>5. Ahead(t, x, m)
        BY <3>1, <3>3, <3>4, AheadAlike
    <3>6. m \in Nat /\ m <= i
        BY <2>2, <2>5
    <3> QED
        BY <1>2, <1>4, <1>6, <2>2, <3>5, <3>6, AheadStays
  <2>6. i = Len(old) + 1 /\ new[i] = z => x = q
      BY <1>4
  <2> QED
      BY <2>1, <2>3, <2>4, <2>5, <2>6 DEF Granted
<1>7. CASE t = s /\ old # <<>> /\ Head(old).req = q /\ new = Tail(old)
  <2>1. i + 1 \in 1 .. Len(old) /\ new[i] = old[i + 1]
      BY <1>1, <1>4, <1>7, StreamItems
  <2>2. Ahead(t, x, i + 1)
      BY <1>3, <1>4, <2>1
  <2>3. Head(old).req.status = "Need" => Recorded(processed_trans'[t], Head(old).req)
      BY <1>7 DEF Transmits, Granted
  <2> QED
      BY <1>1, <1>2, <1>4, <1>7, <2>2, <2>3, AheadPops DEF old, new
<1> QED
    BY <1>1, <1>5, <1>6, <1>7

\* And loses nothing that is still to be executed.
LEMMA TransmissionLosesNothing ==
    ASSUME ReplyInvariant, Steady, NEW s \in Servers, NEW q, Transmits(s, q)
    PROVE  NothingLost'
<1> SUFFICES ASSUME NEW e \in Neighbours, NEW k \in 1 .. Len(processed_trans'[e[1]]),
                    NEW x, x = processed_trans'[e[1]][k],
                    NEW n, n = Len(from_pre'[e[2]])
             PROVE  Ahead(e[2], x, n)'
    BY DEF NothingLost, Ahead, Neighbours
<1>1. e[1] \in Servers /\ e[2] \in Servers /\ e[2] = Next1(e[1])
    BY DEF Neighbours
<1>2. CASE k \in 1 .. Len(processed_trans[e[1]]) /\ x = processed_trans[e[1]][k]
  <2>1. Ahead(e[2], x, Len(from_pre[e[2]]))
      BY <1>2 DEF ReplyInvariant, NothingLost
  <2> QED
      BY <1>1, <2>1, TransmissionAhead
<1>3. CASE ~ (k \in 1 .. Len(processed_trans[e[1]]) /\ x = processed_trans[e[1]][k])
  <2>1. /\ processed_trans \in [Servers -> Seq(Request)]
        /\ q \in Request
      BY DEF ReplyInvariant, HeadInvariant, HeadFrame, TypeOK, ServerTypeOK, Transmits,
             UpdatesOf, Copies, OwnRequests
  <2>2. e[1] = s /\ q.status = "Need" /\ x = [q EXCEPT !.status = "Processed"]
    <3>1. processed_trans' # processed_trans
        BY <1>3
    <3>2. /\ q.status = "Need"
          /\ processed_trans' =
               [processed_trans EXCEPT ![s] = Record(processed_trans[s], q)]
        BY <3>1 DEF Transmits
    <3>3. e[1] = s
        BY <1>1, <1>3, <2>1, <3>2
    <3>4. [q EXCEPT !.status = "Processed"] \in Request
        BY <2>1 DEF Request, Statuses
    <3>5. processed_trans'[s] =
             Append(processed_trans[s], [q EXCEPT !.status = "Processed"])
        BY <2>1, <3>2 DEF Record
    <3> QED
        BY <1>3, <2>1, <3>2, <3>3, <3>4, <3>5, StreamItems
  <2>3. Alike(q, x)
      BY <2>1, <2>2 DEF Request, Alike, Content
  <2>4. from_pre'[e[2]] = Append(from_pre[e[2]], [op |-> "FORWARD", req |-> q])
      BY <1>1, <2>2 DEF Transmits, Moves
  <2>5. from_pre[e[2]] \in Seq(ForwardsOf(Bank(e[2])))
      BY <1>1 DEF ReplyInvariant, CopiesKept
  <2>6. n \in 1 .. n /\ n <= n /\ from_pre'[e[2]][n] = [op |-> "FORWARD", req |-> q]
      BY <2>4, <2>5
  <2> QED
      BY <2>2, <2>3, <2>6 DEF Ahead
<1> QED
    BY <1>2, <1>3

\* What goes behind a server is backed up to there.
LEMMA TransmissionBacked ==
    ASSUME ReplyInvariant, Steady, NEW s \in Servers, NEW q, Transmits(s, q),
           BackedAt(s, q)'
    PROVE  StreamsBacked'
<1> SUFFICES ASSUME NEW t \in Servers, NEW i \in 1 .. Len(from_pre'[t]),
                    NEW x, x = from_pre'[t][i].req
             PROVE  BackedBefore(t, x)'
    BY DEF StreamsBacked, BackedBefore, Decided, Vouched, Mismatch
<1> DEFINE old == from_pre[t]
           new == from_pre'[t]
           z == [op |-> "FORWARD", req |-> q]
           T == ForwardsOf(Bank(t))
<1>1. /\ old \in Seq(T)
      /\ \/ new = old
         \/ t = Next1(s) /\ z \in T /\ new = Append(old, z)
         \/ t = s /\ old # <<>> /\ new = Tail(old)
    BY TransmissionStreams
<1>2. i \in 1 .. Len(new) /\ x = new[i].req
    OBVIOUS
<1> HIDE DEF old, new, z, T
<1>3. \/ \E k \in 1 .. Len(old) : new[i] = old[k]
      \/ t = Next1(s) /\ new[i] = z
    BY <1>1, <1>2, StreamItems, SMTT(30)
<1>4. CASE \E k \in 1 .. Len(old) : new[i] = old[k]
  <2>1. PICK k \in 1 .. Len(old) : x = old[k].req
      BY <1>2, <1>4
  <2>2. BackedBefore(t, x)
      BY <2>1 DEF ReplyInvariant, StreamsBacked, old
  <2> QED
      BY <2>2, BackingStays
<1>5. CASE t = Next1(s) /\ new[i] = z
  <2>1. x = q
      BY <1>2, <1>5 DEF z
  <2>2. Bank(t) = Bank(s) /\ Before(t) = Before(s) \cup {s}
      BY <1>5, NextBefore
  <2>3. BackedBefore(s, q)' /\ Vouched(s, q)'
      BY DEF BackedAt
  <2> QED
      BY <2>1, <2>2, <2>3 DEF BackedBefore, Before
<1> QED
    BY <1>3, <1>4, <1>5

--------------------------------------------------------------------------------
\* Handlers of updates, as the rest of the system sees them.

\* Message m tells the client of r the outcome of r.
Tells(m, r) ==
    /\ m.op = "SER_RPY" /\ m.to = r.client_port
    /\ m.sent_id = r.sent_id /\ m.outcome = Outcome(r)

\* Server s has passed on copy q, filed it as r, and answered if it is the tail.
Handled(s, q, r) ==
    /\ Transmits(s, q)
    /\ r \in UpdatesOf(Bank(s))
    /\ \A t \in Servers : t # s => sent'[t] = sent[t]
    /\ sent'[s] \in Seq(UpdatesOf(Bank(s)))
    /\ \A i \in 1 .. Len(sent'[s]) :
          \/ sent'[s][i] = r
          \/ \E j \in 1 .. Len(sent[s]) : sent'[s][i] = sent[s][j]
    /\ from_next' \in {from_next, Push(from_next, pre_fd[s], r)}
    /\ DOMAIN to_server' \subseteq DOMAIN to_server
    /\ \A m \in DOMAIN to_client' :
          m \in DOMAIN to_client \/ (IsLast(s) /\ Tells(m, r))

\* The list old of updates of bank b takes in q, or not, and loses r, or not.
Files(b, old, q, r, listed, new) ==
    /\ old \in Seq(UpdatesOf(b)) /\ q \in UpdatesOf(b)
    /\ listed = old \/ listed = Append(old, q)
    /\ new = listed \/ new = DeleteSent(listed, r)

\* What it holds then was there or is q.
LEMMA Filed ==
    ASSUME NEW b, NEW old, NEW q, NEW r, NEW listed, NEW new,
           Files(b, old, q, r, listed, new)
    PROVE  /\ new \in Seq(UpdatesOf(b))
           /\ \A i \in 1 .. Len(new) :
                 \/ listed # old /\ new[i] = q
                 \/ \E j \in 1 .. Len(old) : new[i] = old[j]
<1> DEFINE T == UpdatesOf(b)
<1>0. T \subseteq Request
    BY DEF UpdatesOf, Copies, OwnRequests
<1> HIDE DEF T
<1>1. listed \in Seq(T)
    BY DEF T, Files
<1>2. /\ new \in Seq(T)
      /\ \A i \in 1 .. Len(new) : \E j \in 1 .. Len(listed) : new[i] = listed[j]
    BY <1>0, <1>1, DeleteSentKind DEF Files
<1>3. \A j \in 1 .. Len(listed) :
         \/ listed # old /\ listed[j] = q
         \/ \E k \in 1 .. Len(old) : listed[j] = old[k]
  <2>1. CASE listed = old
      BY <2>1
  <2>2. CASE listed # old
    <3>1. listed = Append(old, q)
        BY <2>2 DEF Files
    <3>2. \A j \in 1 .. Len(Append(old, q)) :
             \/ j \in 1 .. Len(old) /\ Append(old, q)[j] = old[j]
             \/ j = Len(old) + 1 /\ Append(old, q)[j] = q
        BY StreamItems DEF T, Files
    <3> QED
        BY <2>2, <3>1, <3>2
  <2> QED
      BY <2>1, <2>2
<1> QED
    BY <1>2, <1>3 DEF T

\* The roles and where they are.
LEMMA RoleOf ==
    ASSUME TopologyInit, NEW s \in Servers
    PROVE  /\ my_type[s] \in {"HEAD_TAIL", "TAIL"} => IsLast(s) /\ next_fd[s] = NoServer
           /\ IsFirst(s) => my_type[s] \in {"HEAD", "HEAD_TAIL"}
<1>1. /\ my_type[s] = Role(s)
      /\ next_fd[s] = IF IsLast(s) THEN NoServer ELSE Next1(s)
    BY DEF TopologyInit
<1> QED
    BY <1>1 DEF Role

\* A reply to a client is one.
LEMMA ReplyTells ==
    ASSUME NEW q, NEW balances
    PROVE  Tells(ReplyTo(q, Outcome(q), balances), q)
BY DEF Tells, ReplyTo

\* rec_client hands an update on as its verdict.
LEMMA UpdateHandled ==
    ASSUME NoTransfers, ReplyInvariant, NEW s \in Servers, RecUpdate(s)
    PROVE  \E r : Ruled(s, r) /\ Handled(s, r, r)
<1>1. PICK m \in DOMAIN to_server : RecUpdate(s)!(m)
    BY DEF RecUpdate
<1> DEFINE r == Judged(s, m.req)
           balances == Judge(s, m.req).balances
           T == UpdatesOf(Bank(s))
<1>2. Ruled(s, r)
    BY <1>1, RulingStep
<1>3. /\ r \in T /\ r.type # "transfer" /\ s = FirstServer(Bank(s))
      /\ T \subseteq Request
    BY <1>2, CopyType DEF Ruled, UpdatesOf, Copies, OwnRequests
<1>4. /\ my_type[s] \in {"HEAD", "HEAD_TAIL"}
      /\ my_type[s] = "HEAD_TAIL" => IsLast(s) /\ next_fd[s] = NoServer
      /\ TopologyInit /\ DOMAIN from_pre = Servers
      /\ sent \in [Servers -> Seq(Request)] /\ sent[s] \in Seq(T)
      /\ processed_trans \in [Servers -> Seq(Request)]
    BY <1>3, RoleOf DEF ReplyInvariant, HeadInvariant, HeadFrame, TypeOK, ServerTypeOK,
                        IsFirst, CopiesKept
<1>5. ~PaysAbroad(s, r) /\ ~Receives(s, r)
    BY <1>3 DEF PaysAbroad, Receives
<1>6. PICK listed \in {sent[s], Append(sent[s], r)} :
        \/ sent' = [sent EXCEPT ![s] = listed]
        \/ sent' = [sent EXCEPT ![s] = DeleteSent(listed, r)]
    BY <1>1
<1>7. /\ from_pre' = IF my_type[s] = "HEAD" THEN Forward(from_pre, s, r) ELSE from_pre
      /\ from_next' = from_next
    BY <1>1
<1>8. /\ to_server' = Deliver(Take(to_server, m), {})
      /\ to_client' = Deliver(to_client,
           IF my_type[s] = "HEAD_TAIL" THEN {ReplyTo(r, Outcome(r), balances)} ELSE {})
  <2> HIDE DEF r, balances
  <2>1. my_type[s] # "TAIL"
      BY <1>4
  <2> QED
      BY <1>1, <1>4, <1>5, <2>1 DEF r, balances
<1> HIDE DEF r, balances, T
<1>9. Moves(s, r)
  <2>1. from_pre' = Forward(from_pre, s, r)
      BY <1>4, <1>7 DEF Forward, Push
  <2> QED
      BY <1>4, <2>1, ForwardMoves
<1>10. Transmits(s, r)
  <2>1. Recorded(processed_trans[s], r) => Recorded(processed_trans'[s], r)
      BY <1>2, RulingStands DEF ReplyInvariant, HeadInvariant, HeadFrame, Steady
  <2>2. r.status \in Granted => Recorded(processed_trans'[s], r)
      BY <1>2, RulingStands DEF ReplyInvariant, HeadInvariant, HeadFrame, Decided, Vouched
  <2> QED
      BY <1>2, <1>3, <1>9, <2>2 DEF Transmits, Ruled, T
<1>11. /\ \A t \in Servers : t # s => sent'[t] = sent[t]
       /\ sent'[s] \in {listed, DeleteSent(listed, r)}
    BY <1>4, <1>6
<1>12. /\ sent'[s] \in Seq(T)
       /\ \A i \in 1 .. Len(sent'[s]) :
             \/ sent'[s][i] = r
             \/ \E j \in 1 .. Len(sent[s]) : sent'[s][i] = sent[s][j]
  <2> PICK old : old = sent[s]
      OBVIOUS
  <2> PICK new : new = sent'[s]
      OBVIOUS
  <2>0. Files(Bank(s), old, r, r, listed, new)
      BY <1>3, <1>4, <1>11 DEF Files, T
  <2>1. /\ new \in Seq(T)
        /\ \A i \in 1 .. Len(new) :
              (listed # old /\ new[i] = r) \/ \E j \in 1 .. Len(old) : new[i] = old[j]
      BY <2>0, Filed DEF T
  <2> QED
      BY <2>1
<1>13. DOMAIN to_server' \subseteq DOMAIN to_server
    BY <1>8, TakeProperty, DeliverProperty
<1>14. \A x \in DOMAIN to_client' : x \in DOMAIN to_client \/ (IsLast(s) /\ Tells(x, r))
    BY <1>4, <1>8, DeliverProperty, ReplyTells
<1>15. Handled(s, r, r)
    BY <1>3, <1>7, <1>10, <1>11, <1>12, <1>13, <1>14 DEF Handled, T
<1> QED
    BY <1>2, <1>15 DEF r

\* process_forwared_request hands a copy on as it came.
LEMMA ForwardHandled ==
    ASSUME NoTransfers, ReplyInvariant, NEW s \in Servers, RecForward(s)
    PROVE  \E q, r : Passed(s, q, r) /\ Handled(s, q, r)
<1> PICK q : q = Head(from_pre[s]).req
    OBVIOUS
<1> DEFINE known == InSent(sent[s], q)
           T == UpdatesOf(Bank(s))
           rest == Pop(from_pre, s)
<1> PICK r : r = IF my_type[s] = "TAIL" /\ known
                 THEN [q EXCEPT !.status = PreSendStatus(sent[s], q)] ELSE q
    OBVIOUS
<1>1. Passed(s, q, r)
    BY PassingStep
<1>2. /\ q \in T /\ r \in T /\ q.type # "transfer" /\ r.type # "transfer"
      /\ T \subseteq Request
      /\ my_type[s] \in {"INTER", "TAIL"}
      /\ from_pre[s] # <<>>
    BY <1>1, CopyType DEF Passed, UpdatesOf, Copies, OwnRequests
<1>3. /\ my_type[s] = "TAIL" => IsLast(s) /\ next_fd[s] = NoServer
      /\ TopologyInit /\ DOMAIN from_pre = Servers
      /\ sent \in [Servers -> Seq(Request)] /\ sent[s] \in Seq(T)
    BY RoleOf DEF ReplyInvariant, HeadInvariant, HeadFrame, TypeOK, ServerTypeOK,
                  CopiesKept
<1>4. ~PaysAbroad(s, r) /\ ~Receives(s, r)
    BY <1>2 DEF PaysAbroad, Receives
<1>5. PICK balances :
        /\ from_pre' = IF my_type[s] = "INTER" THEN Forward(rest, s, q) ELSE rest
        /\ from_next' \in {from_next, AckToPre(from_next, s, r)}
        /\ to_server' = Deliver(to_server, {})
        /\ to_client' = Deliver(to_client,
             IF my_type[s] = "TAIL" THEN {ReplyTo(r, Outcome(r), balances)} ELSE {})
    BY <1>4 DEF RecForward
<1>6. PICK listed \in {sent[s], Append(sent[s], q)} :
        /\ listed # sent[s] => ~known
        /\ sent' \in {[sent EXCEPT ![s] = listed],
                      [sent EXCEPT ![s] = DeleteSent(listed, r)]}
    BY DEF RecForward
<1>7. listed # sent[s] => r = q
    BY <1>6
<1> HIDE DEF known, rest, T
<1>8. Moves(s, q)
  <2>1. from_pre' = Forward(rest, s, q)
      BY <1>2, <1>3, <1>5 DEF Forward, Push
  <2> QED
      BY <1>2, <1>3, <2>1, ForwardMoves DEF rest
<1>9. Transmits(s, q)
    BY <1>1, <1>8 DEF Transmits, Passed
<1>10. /\ \A t \in Servers : t # s => sent'[t] = sent[t]
       /\ sent'[s] \in {listed, DeleteSent(listed, r)}
    BY <1>3, <1>6
<1>11. /\ sent'[s] \in Seq(T)
       /\ \A i \in 1 .. Len(sent'[s]) :
             \/ sent'[s][i] = r
             \/ \E j \in 1 .. Len(sent[s]) : sent'[s][i] = sent[s][j]
  <2> PICK old : old = sent[s]
      OBVIOUS
  <2> PICK new : new = sent'[s]
      OBVIOUS
  <2>1. /\ new \in Seq(T)
        /\ \A i \in 1 .. Len(new) :
              (listed # old /\ new[i] = q) \/ \E j \in 1 .. Len(old) : new[i] = old[j]
    <3>1. Files(Bank(s), old, q, r, listed, new)
        BY <1>2, <1>3, <1>10 DEF Files, T
    <3> QED
        BY <3>1, Filed DEF T
  <2> QED
      BY <1>7, <2>1
<1>12. DOMAIN to_server' \subseteq DOMAIN to_server
    BY <1>5, DeliverProperty
<1>13. \A x \in DOMAIN to_client' : x \in DOMAIN to_client \/ (IsLast(s) /\ Tells(x, r))
  <2> PICK mails :
        /\ to_client' = Deliver(to_client, mails)
        /\ \A x \in mails : my_type[s] = "TAIL" /\ x = ReplyTo(r, Outcome(r), balances)
      BY <1>5
  <2>1. DOMAIN to_client' \subseteq DOMAIN to_client \cup mails
      BY DeliverProperty
  <2> QED
      BY <1>3, <2>1, ReplyTells
<1>14. from_next' \in {from_next, Push(from_next, pre_fd[s], r)}
    BY <1>5 DEF AckToPre
<1>15. Handled(s, q, r)
    BY <1>2, <1>9, <1>10, <1>11, <1>12, <1>13, <1>14 DEF Handled, T
<1> QED
    BY <1>1, <1>15

--------------------------------------------------------------------------------
\* What they keep.

\* Acks go to a predecessor in the same bank.
LEMMA AcksKept ==
    ASSUME TopologyInit, NEW s \in Servers, NEW r \in UpdatesOf(Bank(s)), NEW streams,
           DOMAIN streams = Servers,
           \A t \in Servers : streams[t] \in Seq(UpdatesOf(Bank(t)))
    PROVE  \A t \in Servers : Push(streams, pre_fd[s], r)[t] \in Seq(UpdatesOf(Bank(t)))
<1>1. pre_fd[s] = NoServer \/ Bank(pre_fd[s]) = Bank(s)
    BY DEF TopologyInit, Prev1, Bank
<1> SUFFICES ASSUME NEW t \in Servers
             PROVE  Push(streams, pre_fd[s], r)[t] \in Seq(UpdatesOf(Bank(t)))
    OBVIOUS
<1>2. \/ Push(streams, pre_fd[s], r)[t] = streams[t]
      \/ /\ Push(streams, pre_fd[s], r)[t] = Append(streams[t], r)
         /\ Bank(t) = Bank(s)
    BY <1>1 DEF Push
<1> DEFINE T == UpdatesOf(Bank(t))
           old == streams[t]
           new == Push(streams, pre_fd[s], r)[t]
<1>3. old \in Seq(T) /\ (new = old \/ (new = Append(old, r) /\ r \in T))
    BY <1>2
<1> HIDE DEF T, old, new
<1>4. CASE new = old
    BY <1>3, <1>4 DEF T, new
<1>5. CASE new = Append(old, r) /\ r \in T
  <2>1. Append(old, r) \in Seq(T)
      BY <1>3, <1>5
  <2> QED
      BY <1>5, <2>1 DEF T, new
<1> QED
    BY <1>3, <1>4, <1>5

\* Copies stay in their bank.
LEMMA HandledCopies ==
    ASSUME ReplyInvariant, NEW s \in Servers, NEW q, NEW r, Handled(s, q, r),
           UNCHANGED clientState
    PROVE  CopiesKept'
<1>1. \A t \in Servers : sent'[t] \in Seq(UpdatesOf(Bank(t)))
    BY DEF Handled, ReplyInvariant, CopiesKept
<1>2. ASSUME NEW t \in Servers PROVE from_pre'[t] \in Seq(ForwardsOf(Bank(t)))
  <2> DEFINE T == ForwardsOf(Bank(t))
             old == from_pre[t]
             new == from_pre'[t]
             z == [op |-> "FORWARD", req |-> q]
  <2>1. /\ old \in Seq(T)
        /\ \/ new = old
           \/ z \in T /\ new = Append(old, z)
           \/ old # <<>> /\ new = Tail(old)
      BY TransmissionStreams DEF Handled
  <2> HIDE DEF T, old, new, z
  <2>2. new \in Seq(T)
      BY <2>1
  <2> QED
      BY <2>2 DEF T, new
<1>3. \A t \in Servers : from_next'[t] \in Seq(UpdatesOf(Bank(t)))
  <2>1. /\ TopologyInit /\ DOMAIN from_next = Servers
        /\ \A t \in Servers : from_next[t] \in Seq(UpdatesOf(Bank(t)))
        /\ r \in UpdatesOf(Bank(s))
      BY DEF ReplyInvariant, CopiesKept, HeadInvariant, HeadFrame, TypeOK, ServerTypeOK,
             Handled
  <2>2. \A t \in Servers : Push(from_next, pre_fd[s], r)[t] \in Seq(UpdatesOf(Bank(t)))
      BY <2>1, AcksKept
  <2> QED
      BY <2>1, <2>2 DEF Handled
<1>4. \A m \in DOMAIN to_server' :
         /\ m.op = "REQUEST"
         /\ m.req \in Copies
         /\ m.req.type \in Updates => m.to = FirstServer(BankOf[m.req.client_port])
    BY DEF Handled, ReplyInvariant, CopiesKept
<1>5. /\ \A c \in Clients : head_port'[c] \in {NoServer, FirstServer(BankOf[c])}
      /\ \A m \in DOMAIN to_client' :
            m.op = "SET_HEAD_TAIL" => m.head_port = FirstServer(m.bank_id)
    BY DEF Handled, ReplyInvariant, CopiesKept, clientState, Tells
<1> QED
    BY <1>1, <1>2, <1>3, <1>4, <1>5 DEF CopiesKept

\* The lists are backed.
LEMMA HandledSent ==
    ASSUME ReplyInvariant, Steady, NEW s \in Servers, NEW q, NEW r, Handled(s, q, r),
           BackedAt(s, r)'
    PROVE  SentBacked'
<1> SUFFICES ASSUME NEW t \in Servers, NEW i \in 1 .. Len(sent'[t]),
                    NEW x, x = sent'[t][i]
             PROVE  BackedAt(t, x)'
    BY DEF SentBacked, BackedAt, BackedBefore, Decided, Vouched, Mismatch
<1>1. \/ t = s /\ x = r
      \/ \E j \in 1 .. Len(sent[t]) : x = sent[t][j]
    BY DEF Handled
<1>2. ASSUME NEW j \in 1 .. Len(sent[t]), x = sent[t][j] PROVE BackedAt(t, x)'
  <2>1. BackedAt(t, x)
      BY <1>2 DEF ReplyInvariant, SentBacked
  <2> QED
      BY <2>1, BackingStays
<1> QED
    BY <1>1, <1>2

\* What a reply says goes on to be so.
LEMMA AnswerStays ==
    ASSUME Steady, NEW m, m.to \in Clients, AnswerBacked(m)
    PROVE  AnswerBacked(m)'
<1>1. LastServer(BankOf[m.to]) \in Servers
    BY BankOfAssumption, ChainEnds
<1> PICK q : q = Answered(m)
    OBVIOUS
<1> PICK s : s = LastServer(BankOf[m.to])
    OBVIOUS
<1>2. BackedAt(s, q) => BackedAt(s, q)'
    BY <1>1, BackingStays
<1>3. AnswerBacked(m) <=>
        /\ m.sent_id \in 1 .. Len(Queue(m.to))
        /\ q.type \notin Updates => m.outcome = "Processed"
        /\ q.type \in Updates => m.outcome # "Need" /\ BackedAt(s, q)
    BY DEF AnswerBacked
<1>4. AnswerBacked(m)' <=>
        /\ m.sent_id \in 1 .. Len(Queue(m.to))
        /\ q.type \notin Updates => m.outcome = "Processed"
        /\ q.type \in Updates => m.outcome # "Need" /\ BackedAt(s, q)'
    BY DEF AnswerBacked
<1> QED
    BY <1>2, <1>3, <1>4

\* The outcome that is told stands as the status does.
LEMMA ToldBacked ==
    ASSUME NoTransfers, NEW s \in Servers, IsLast(s), NEW r \in UpdatesOf(Bank(s)),
           BackedAt(s, r)', NEW m, Tells(m, r)
    PROVE  AnswerBacked(m)'
<1>1. /\ r \in Copies /\ r.type \in Updates /\ BankOf[r.client_port] = Bank(s)
      /\ r \in Request /\ r.type # "transfer"
    BY CopyType DEF UpdatesOf
<1>2. /\ m.to = r.client_port /\ m.sent_id = r.sent_id /\ m.outcome = Outcome(r)
      /\ LastServer(BankOf[m.to]) = s
    BY <1>1 DEF Tells, IsLast
<1>3. /\ m.to \in Clients
      /\ m.sent_id \in 1 .. Len(Queue(m.to))
      /\ Queue(m.to)[m.sent_id] = Original(r)
      /\ Original(r) \in Request
  <2>1. r.client_port \in Clients /\ r.sent_id \in 1 .. Len(Queue(r.client_port))
      BY <1>1 DEF Copies, OwnRequests, Request
  <2>2. Queue(r.client_port)[r.sent_id] \in Request
      BY <2>1, WorkloadAssumption DEF Queue
  <2> QED
      BY <1>2, <2>1, <2>2 DEF Original
<1> PICK o : o = Original(r)
    OBVIOUS
<1> PICK x : x = Answered(m)
    OBVIOUS
<1>4. x = [o EXCEPT !.status = m.outcome]
    BY <1>3 DEF Answered
<1>5. /\ o \in Request
      /\ o.req_id = r.req_id /\ o.type = r.type
      /\ o.account_num = r.account_num /\ o.amount = r.amount
    BY <1>1, <1>3 DEF Copies, OwnRequests, Original
<1>6. /\ x.status = m.outcome /\ x.type = r.type
      /\ Alike(x, r)
    BY <1>1, <1>4, <1>5 DEF Request, Alike, Content
<1>7. \A H : /\ Recorded(H, x) <=> Recorded(H, r)
             /\ HasId(H, x.req_id) <=> HasId(H, r.req_id)
    BY <1>6, RecordedAlike
<1>8. /\ x.status \in Granted <=> r.status \in Granted
      /\ x.status # "Need"
      /\ x.status # r.status => r.status = "Need" /\ x.status = "Processed"
    BY <1>2, <1>6 DEF Outcome, Granted
<1>9. \A t : /\ Vouched(t, r)' => Vouched(t, x)'
             /\ Decided(t, r)' => Decided(t, x)'
    BY <1>7, <1>8 DEF Vouched, Decided, Mismatch
<1>10. BackedAt(s, x)'
    BY <1>9 DEF BackedAt, BackedBefore
<1> QED
    BY <1>1, <1>2, <1>3, <1>6, <1>8, <1>10 DEF AnswerBacked

\* Replies are backed.
LEMMA HandledAnswers ==
    ASSUME NoTransfers, ReplyInvariant, Steady, NEW s \in Servers, NEW q, NEW r,
           Handled(s, q, r), BackedAt(s, r)', UNCHANGED clientState
    PROVE  AnswersBacked'
<1> SUFFICES ASSUME NEW c \in Clients, NEW m, m \in Replies(c)'
             PROVE  m.to = c /\ AnswerBacked(m)'
    BY DEF AnswersBacked
<1>1. m \in Replies(c) \/ (m.to = c /\ IsLast(s) /\ Tells(m, r))
    BY DEF Replies, Handled, clientState
<1>2. ASSUME m \in Replies(c) PROVE m.to = c /\ AnswerBacked(m)'
    BY <1>2, AnswerStays DEF ReplyInvariant, AnswersBacked
<1>3. ASSUME IsLast(s), Tells(m, r) PROVE AnswerBacked(m)'
    BY <1>3, ToldBacked DEF Handled
<1> QED
    BY <1>1, <1>2, <1>3

\* The refusals of heads stay alike.
LEMMA RuledRefusals ==
    ASSUME NoTransfers, ReplyInvariant, NEW s \in Servers, NEW r, Ruled(s, r)
    PROVE  RefusalsAlike'
<1> SUFFICES ASSUME NEW b \in Banks
             PROVE  LET I == insuf_funds_trans'[FirstServer(b)]
                    IN  /\ \A i \in 1 .. Len(I) : I[i].type # "deposit"
                        /\ \A i, j \in 1 .. Len(I) :
                              I[i].req_id = I[j].req_id => Content(I[i]) = Content(I[j])
    BY DEF RefusalsAlike
<1> DEFINE I == insuf_funds_trans[FirstServer(b)]
           I1 == insuf_funds_trans'[FirstServer(b)]
<1>1. FirstServer(b) \in Servers
    BY ChainEnds
<1>2. /\ insuf_funds_trans \in [Servers -> Seq(Request)]
      /\ I \in Seq(Request)
    BY <1>1 DEF ReplyInvariant, HeadInvariant, HeadFrame, TypeOK, ServerTypeOK
<1>3. /\ \A i \in 1 .. Len(I) : I[i].type # "deposit"
      /\ \A i, j \in 1 .. Len(I) : I[i].req_id = I[j].req_id => Content(I[i]) = Content(I[j])
    BY DEF ReplyInvariant, RefusalsAlike
<1>4. \/ I1 = I
      \/ /\ r.type # "deposit"
         /\ Recorded(I, r) \/ ~HasId(I, r.req_id)
         /\ I1 = Append(I, r)
    BY <1>1, <1>2 DEF Ruled
<1>5. r \in Request
    BY DEF Ruled, UpdatesOf, Copies, OwnRequests
<1> HIDE DEF I, I1
<1>6. CASE I1 = I
    BY <1>3, <1>6 DEF I1
<1>7. CASE /\ r.type # "deposit"
           /\ Recorded(I, r) \/ ~HasId(I, r.req_id)
           /\ I1 = Append(I, r)
  <2>1. \A i \in 1 .. Len(I) : I[i].req_id = r.req_id => Content(I[i]) = Content(r)
    <3>1. CASE ~HasId(I, r.req_id)
        BY <3>1 DEF HasId
    <3>2. CASE Recorded(I, r)
      <4>1. PICK k \in 1 .. Len(I) : I[k].req_id = r.req_id /\ Content(I[k]) = Content(r)
          BY <1>2, <3>2 DEF Recorded
      <4> QED
          BY <1>3, <4>1
    <3> QED
        BY <1>7, <3>1, <3>2
  <2>2. \A i \in 1 .. Len(I1) : (i \in 1 .. Len(I) /\ I1[i] = I[i]) \/ I1[i] = r
      BY <1>2, <1>5, <1>7, StreamItems
  <2>3. /\ \A i \in 1 .. Len(I1) : I1[i].type # "deposit"
        /\ \A i, j \in 1 .. Len(I1) :
              I1[i].req_id = I1[j].req_id => Content(I1[i]) = Content(I1[j])
      BY <1>3, <1>7, <2>1, <2>2
  <2> QED
      BY <2>3 DEF I1
<1> QED
    BY <1>4, <1>6, <1>7

\* Every rec_client of an update keeps the invariant.
LEMMA UpdateKeeps ==
    ASSUME NoTransfers, ReplyInvariant, HeadInvariant', NEW s \in Servers, RecUpdate(s),
           UNCHANGED clientState
    PROVE  ReplyInvariant'
<1>1. PICK r : Ruled(s, r) /\ Handled(s, r, r)
    BY UpdateHandled
<1>2. Steady /\ Decided(s, r)'
    BY <1>1, RulingStands DEF ReplyInvariant, HeadInvariant, HeadFrame
<1>3. BackedAt(s, r)'
  <2>1. s = FirstServer(Bank(s)) /\ s[2] = 1
      BY <1>1 DEF Ruled, FirstServer
  <2>2. \A t \in Servers : ~ (t[2] < 1)
      BY ChainLengthAssumption DEF Servers
  <2>3. Before(s) = {}
      BY <2>1, <2>2 DEF Before
  <2>4. Vouched(s, r)'
      BY <1>2 DEF Decided
  <2> QED
      BY <1>2, <2>1, <2>3, <2>4 DEF BackedAt, BackedBefore, Before
<1>4. Transmits(s, r)
    BY <1>1 DEF Handled
<1>5. CopiesKept' /\ SentBacked' /\ AnswersBacked' /\ RefusalsAlike'
    BY <1>1, <1>2, <1>3, HandledCopies, HandledSent, HandledAnswers, RuledRefusals
<1>6. StreamsBacked' /\ OrderKept' /\ NothingLost'
    BY <1>2, <1>3, <1>4, TransmissionBacked, TransmissionOrder, TransmissionLosesNothing
<1> QED
    BY <1>5, <1>6 DEF ReplyInvariant

\* Every process_forwared_request keeps it.
LEMMA ForwardKeeps ==
    ASSUME NoTransfers, ReplyInvariant, HeadInvariant', NEW s \in Servers, RecForward(s),
           UNCHANGED clientState
    PROVE  ReplyInvariant'
<1>1. PICK q, r : Passed(s, q, r) /\ Handled(s, q, r)
    BY ForwardHandled
<1>2. /\ Steady
      /\ BackedAt(s, q)' /\ BackedAt(s, r)'
      /\ \A t \in Servers \ {s} : insuf_funds_trans'[t] = insuf_funds_trans[t]
    BY <1>1, PassingStands
<1>3. Transmits(s, q)
    BY <1>1 DEF Handled
<1>4. CopiesKept' /\ SentBacked' /\ AnswersBacked'
    BY <1>1, <1>2, HandledCopies, HandledSent, HandledAnswers
<1>5. StreamsBacked' /\ OrderKept' /\ NothingLost'
    BY <1>2, <1>3, TransmissionBacked, TransmissionOrder, TransmissionLosesNothing
<1>6. RefusalsAlike'
  <2>1. ASSUME NEW b \in Banks
        PROVE  insuf_funds_trans'[FirstServer(b)] = insuf_funds_trans[FirstServer(b)]
    <3>1. /\ FirstServer(b) \in Servers
          /\ my_type[FirstServer(b)] \in {"HEAD", "HEAD_TAIL"}
        BY FirstIsHead DEF ReplyInvariant, HeadInvariant, HeadFrame
    <3>2. FirstServer(b) # s
        BY <1>1, <3>1 DEF Passed
    <3> QED
        BY <1>2, <3>1, <3>2
  <2> QED
      BY <2>1 DEF ReplyInvariant, RefusalsAlike
<1> QED
    BY <1>4, <1>5, <1>6 DEF ReplyInvariant

--------------------------------------------------------------------------------
\* Steps that handle no update.

\* They leave histories and streams alone, and at most shorten the lists.
Quiet ==
    /\ UNCHANGED <<processed_trans, insuf_funds_trans, from_pre>>
    /\ \A t \in Servers : \A i \in 1 .. Len(sent'[t]) :
          \E j \in 1 .. Len(sent[t]) : sent'[t][i] = sent[t][j]
    /\ \A t \in Servers : sent'[t] \in Seq(UpdatesOf(Bank(t)))

\* So what was backed is.
LEMMA QuietKeeps ==
    ASSUME ReplyInvariant, Quiet
    PROVE  /\ Steady
           /\ RefusalsAlike' /\ StreamsBacked' /\ SentBacked'
           /\ OrderKept' /\ NothingLost'
<1>1. Steady
    BY DEF Quiet, Steady, Decided, Vouched, Mismatch
<1>2. RefusalsAlike' /\ OrderKept' /\ NothingLost'
    BY DEF Quiet, ReplyInvariant, RefusalsAlike, OrderKept, NothingLost, Ahead
<1>3. StreamsBacked'
    BY DEF Quiet, ReplyInvariant, StreamsBacked, BackedBefore, Decided, Vouched, Mismatch,
           Before
<1>4. SentBacked'
  <2> SUFFICES ASSUME NEW t \in Servers, NEW i \in 1 .. Len(sent'[t]),
                      NEW x, x = sent'[t][i]
               PROVE  BackedAt(t, x)'
      BY DEF SentBacked, BackedAt, BackedBefore, Decided, Vouched, Mismatch
  <2>1. PICK j \in 1 .. Len(sent[t]) : x = sent[t][j]
      BY DEF Quiet
  <2>2. BackedAt(t, x)
      BY <2>1 DEF ReplyInvariant, SentBacked
  <2> QED
      BY <1>1, <2>2, BackingStays
<1> QED
    BY <1>1, <1>2, <1>3, <1>4

\* A step that takes an entry from one list, or none, is such.
LEMMA ShortensList ==
    ASSUME ReplyInvariant, NEW s \in Servers, NEW q,
           UNCHANGED <<processed_trans, insuf_funds_trans, from_pre>>,
           sent' \in {sent, [sent EXCEPT ![s] = DeleteSent(sent[s], q)]}
    PROVE  Quiet
<1>1. /\ \A t \in Servers : sent[t] \in Seq(UpdatesOf(Bank(t)))
      /\ DOMAIN sent = Servers
    BY DEF ReplyInvariant, CopiesKept, HeadInvariant, HeadFrame, TypeOK, ServerTypeOK
<1>2. UpdatesOf(Bank(s)) \subseteq Request
    BY DEF UpdatesOf, Copies, OwnRequests
<1> PICK old : old = sent[s]
    OBVIOUS
<1> DEFINE T == UpdatesOf(Bank(s))
<1>3. old \in Seq(T) /\ T \subseteq Request
    BY <1>1, <1>2
<1> HIDE DEF T
<1>4. /\ DeleteSent(old, q) \in Seq(T)
      /\ \A i \in 1 .. Len(DeleteSent(old, q)) :
            \E j \in 1 .. Len(old) : DeleteSent(old, q)[i] = old[j]
    BY <1>3, DeleteSentKind
<1>5. ASSUME NEW t \in Servers
      PROVE  sent'[t] = sent[t] \/ (t = s /\ sent'[t] = DeleteSent(old, q))
    BY <1>1
<1>6. ASSUME NEW t \in Servers
      PROVE  /\ \A i \in 1 .. Len(sent'[t]) :
                   \E j \in 1 .. Len(sent[t]) : sent'[t][i] = sent[t][j]
             /\ sent'[t] \in Seq(UpdatesOf(Bank(t)))
  <2>1. CASE sent'[t] = sent[t]
      BY <1>1, <2>1
  <2>2. CASE t = s /\ sent'[t] = DeleteSent(old, q)
      BY <1>4, <2>2 DEF T
  <2> QED
      BY <1>5, <2>1, <2>2
<1> QED
    BY <1>6 DEF Quiet

\* The copies stay in their bank when nothing new is sent.
LEMMA QuietCopies ==
    ASSUME ReplyInvariant, Quiet, head_port' = head_port,
           \A t \in Servers : from_next'[t] \in Seq(UpdatesOf(Bank(t))),
           DOMAIN to_server' \subseteq DOMAIN to_server,
           \A m \in DOMAIN to_client' : m \in DOMAIN to_client \/ m.op = "SER_RPY"
    PROVE  CopiesKept'
<1>1. /\ \A t \in Servers : from_pre'[t] \in Seq(ForwardsOf(Bank(t)))
      /\ \A t \in Servers : sent'[t] \in Seq(UpdatesOf(Bank(t)))
    BY DEF Quiet, ReplyInvariant, CopiesKept
<1>2. \A m \in DOMAIN to_server' :
         /\ m.op = "REQUEST"
         /\ m.req \in Copies
         /\ m.req.type \in Updates => m.to = FirstServer(BankOf[m.req.client_port])
    BY DEF ReplyInvariant, CopiesKept
<1>3. /\ \A c \in Clients : head_port'[c] \in {NoServer, FirstServer(BankOf[c])}
      /\ \A m \in DOMAIN to_client' :
            m.op = "SET_HEAD_TAIL" => m.head_port = FirstServer(m.bank_id)
    BY DEF ReplyInvariant, CopiesKept
<1> QED
    BY <1>1, <1>2, <1>3 DEF CopiesKept

\* What remains to be shown of such a step.
LEMMA QuietInvariant ==
    ASSUME ReplyInvariant, HeadInvariant', Quiet, CopiesKept',
           \A c \in Clients : \A m \in Replies(c)' :
              m \in Replies(c) \/ (m.to = c /\ AnswerBacked(m)')
    PROVE  ReplyInvariant'
<1>1. /\ Steady
      /\ RefusalsAlike' /\ StreamsBacked' /\ SentBacked'
      /\ OrderKept' /\ NothingLost'
    BY QuietKeeps
<1>2. AnswersBacked'
  <2> SUFFICES ASSUME NEW c \in Clients, NEW m, m \in Replies(c)'
               PROVE  m.to = c /\ AnswerBacked(m)'
      BY DEF AnswersBacked
  <2>1. ASSUME m \in Replies(c) PROVE m.to = c /\ AnswerBacked(m)'
      BY <1>1, <2>1, AnswerStays DEF ReplyInvariant, AnswersBacked
  <2> QED
      BY <2>1
<1> QED
    BY <1>1, <1>2 DEF ReplyInvariant

\* The answer to a query says Processed.
LEMMA QueryKeeps ==
    ASSUME NoTransfers, ReplyInvariant, HeadInvariant', NEW s \in Servers, RecQuery(s),
           UNCHANGED clientState
    PROVE  ReplyInvariant'
<1>1. PICK m \in DOMAIN to_server : RecQuery(s)!(m)
    BY DEF RecQuery
<1>2. PICK q : q = m.req
    OBVIOUS
<1>3. q \in Copies /\ q.type = "getBalance" /\ q \in Request
    BY <1>1, <1>2 DEF ReplyInvariant, CopiesKept, Copies, OwnRequests
<1>4. ~InSent(sent[s], q)
  <2> SUFFICES ASSUME InSent(sent[s], q) PROVE FALSE
      OBVIOUS
  <2>1. \E i \in 1 .. Len(sent[s]) :
           sent[s][i] \in UpdatesOf(Bank(s)) /\ q.type = sent[s][i].type
      BY <1>3, ListedCopy DEF ReplyInvariant
  <2> QED
      BY <1>3, <2>1 DEF UpdatesOf, Updates
<1>5. PICK r : r = [q EXCEPT !.status = "Processed"]
    OBVIOUS
<1>6. /\ r.status = "Processed" /\ Outcome(r) = "Processed"
      /\ r.client_port = q.client_port /\ r.sent_id = q.sent_id
    BY <1>3, <1>5 DEF Request, Outcome
<1>7. /\ sent' \in {sent, [sent EXCEPT ![s] = DeleteSent(sent[s], r)]}
      /\ to_client' = Deliver(to_client, {ReplyTo(r, "Processed", balance_map[s])})
      /\ to_server' = Take(to_server, m)
      /\ UNCHANGED <<processed_trans, insuf_funds_trans, from_pre, from_next>>
  <2>1. sent \in [Servers -> Seq(Request)]
      BY DEF ReplyInvariant, HeadInvariant, HeadFrame, TypeOK, ServerTypeOK
  <2> QED
      BY <1>1, <1>2, <1>4, <1>5, <1>6, <2>1
<1>8. Quiet
    BY <1>7, ShortensList
<1>9. PICK x : x = ReplyTo(r, "Processed", balance_map[s])
    OBVIOUS
<1>10. /\ x.op = "SER_RPY" /\ x.outcome = "Processed"
       /\ x.to = q.client_port /\ x.sent_id = q.sent_id
    BY <1>6, <1>9 DEF ReplyTo
<1>11. DOMAIN to_client' \subseteq DOMAIN to_client \cup {x}
    BY <1>7, <1>9, DeliverProperty
<1>12. AnswerBacked(x)'
  <2>1. /\ q.client_port \in Clients /\ q.sent_id \in 1 .. Len(Queue(q.client_port))
        /\ q.type = Queue(q.client_port)[q.sent_id].type
      BY <1>3 DEF Copies, OwnRequests, Original, Request
  <2>2. Queue(q.client_port)[q.sent_id] \in Request
      BY <2>1, WorkloadAssumption DEF Queue
  <2>3. Answered(x).type = "getBalance"
      BY <1>3, <1>10, <2>1, <2>2 DEF Answered, Request
  <2> QED
      BY <1>10, <2>1, <2>3 DEF AnswerBacked, Updates
<1>13. \A c \in Clients : \A y \in Replies(c)' :
          y \in Replies(c) \/ (y.to = c /\ AnswerBacked(y)')
    BY <1>11, <1>12 DEF Replies, clientState
<1>14. CopiesKept'
  <2>1. \A t \in Servers : from_next'[t] \in Seq(UpdatesOf(Bank(t)))
      BY <1>7 DEF ReplyInvariant, CopiesKept
  <2>2. DOMAIN to_server' \subseteq DOMAIN to_server
      BY <1>7, TakeProperty
  <2>3. head_port' = head_port
      BY DEF clientState
  <2> QED
      BY <1>8, <1>10, <1>11, <2>1, <2>2, <2>3, QuietCopies
<1> QED
    BY <1>8, <1>13, <1>14, QuietInvariant

\* An ack only takes from `sent` and goes on to the predecessor.
LEMMA AckKeeps ==
    ASSUME NoTransfers, ReplyInvariant, HeadInvariant', NEW s \in Servers, RecAck(s),
           UNCHANGED clientState
    PROVE  ReplyInvariant'
<1> PICK q : q = Head(from_next[s])
    OBVIOUS
<1> DEFINE rest == Pop(from_next, s)
<1>1. /\ from_next[s] # <<>>
      /\ sent' = [sent EXCEPT ![s] = DeleteSent(sent[s], q)]
      /\ from_next' \in {rest, Push(rest, pre_fd[s], q)}
      /\ to_server' = Deliver(to_server,
           IF my_type[s] = "HEAD" /\ Receives(s, q) THEN AckTransfer(s, q) ELSE {})
      /\ UNCHANGED <<processed_trans, insuf_funds_trans, from_pre, to_client>>
    BY DEF RecAck, AckToPre
<1>2. /\ \A t \in Servers : from_next[t] \in Seq(UpdatesOf(Bank(t)))
      /\ TopologyInit /\ DOMAIN from_next = Servers
    BY DEF ReplyInvariant, CopiesKept, HeadInvariant, HeadFrame, TypeOK, ServerTypeOK
<1>3. /\ q \in UpdatesOf(Bank(s))
      /\ Tail(from_next[s]) \in Seq(UpdatesOf(Bank(s)))
    BY <1>1, <1>2
<1>4. q.type # "transfer"
    BY <1>3, CopyType DEF UpdatesOf
<1>5. /\ DOMAIN rest = Servers
      /\ \A t \in Servers : rest[t] \in Seq(UpdatesOf(Bank(t)))
  <2>1. \A t \in Servers : rest[t] = IF t = s THEN Tail(from_next[s]) ELSE from_next[t]
      BY <1>2 DEF Pop
  <2>2. DOMAIN rest = Servers
      BY <1>2 DEF Pop
  <2> HIDE DEF rest
  <2> QED
      BY <1>2, <1>3, <2>1, <2>2
<1> HIDE DEF rest
<1>6. \A t \in Servers : from_next'[t] \in Seq(UpdatesOf(Bank(t)))
  <2>1. \A t \in Servers : Push(rest, pre_fd[s], q)[t] \in Seq(UpdatesOf(Bank(t)))
      BY <1>2, <1>3, <1>5, AcksKept
  <2> QED
      BY <1>1, <1>5, <2>1
<1>7. Quiet
    BY <1>1, ShortensList
<1>8. DOMAIN to_server' \subseteq DOMAIN to_server
    BY <1>1, <1>4, DeliverProperty DEF Receives
<1>9. CopiesKept'
  <2>1. head_port' = head_port
      BY DEF clientState
  <2> QED
      BY <1>1, <1>6, <1>7, <1>8, <2>1, QuietCopies
<1>10. \A c \in Clients : Replies(c)' = Replies(c)
    BY <1>1 DEF Replies, clientState
<1> QED
    BY <1>7, <1>9, <1>10, QuietInvariant

\* A step of the network or of a client tells nothing new.
LEMMA SilentKeeps ==
    ASSUME ReplyInvariant, HeadInvariant', UNCHANGED serverState, head_port' = head_port,
           DOMAIN to_server' \subseteq DOMAIN to_server,
           DOMAIN to_client' \subseteq DOMAIN to_client,
           UNCHANGED log
    PROVE  ReplyInvariant'
<1>1. UNCHANGED <<processed_trans, insuf_funds_trans, from_pre, from_next, sent>>
    BY DEF serverState
<1>2. Quiet
    BY <1>1 DEF Quiet, ReplyInvariant, CopiesKept
<1>3. CopiesKept'
  <2>1. \A t \in Servers : from_next'[t] \in Seq(UpdatesOf(Bank(t)))
      BY <1>1 DEF ReplyInvariant, CopiesKept
  <2> QED
      BY <1>2, <2>1, QuietCopies
<1>4. \A c \in Clients : \A m \in Replies(c)' : m \in Replies(c)
    BY DEF Replies
<1> QED
    BY <1>2, <1>3, <1>4, QuietInvariant

\* What a client sends is a request of its queue, an update to its head.
LEMMA ClientSends ==
    ASSUME ReplyInvariant, NEW c \in Clients, ClientStep(c)
    PROVE  \A x \in DOMAIN to_server' :
              \/ x \in DOMAIN to_server
              \/ /\ x.op = "REQUEST"
                 /\ x.req \in Copies
                 /\ x.req.type \in Updates =>
                       x.to = FirstServer(BankOf[x.req.client_port])
<1> DEFINE Fine(x) == /\ x.op = "REQUEST"
                      /\ x.req \in Copies
                      /\ x.req.type \in Updates =>
                            x.to = FirstServer(BankOf[x.req.client_port])
<1>0. TypeOK /\ head_port[c] \in {NoServer, FirstServer(BankOf[c])}
    BY DEF ReplyInvariant, CopiesKept, HeadInvariant, HeadFrame
<1>1. ASSUME NEW k \in 1 .. Len(Queue(c)), NEW g \in Leftovers,
             NEW q, q = [Queue(c)[k] EXCEPT !.req_seq = 0,
                                            !.dest_bank_id = g.dest_bank_id,
                                            !.dest_account_num = g.dest_account_num,
                                            !.source_bank_id = g.source_bank_id]
      PROVE  q \in Copies /\ q.client_port = c
  <2> PICK o : o = Queue(c)[k]
      OBVIOUS
  <2>1. o \in Request /\ o.sent_id = k /\ o.client_port = c
      BY WorkloadAssumption DEF Queue
  <2>2. /\ g.dest_bank_id \in Banks \cup {NoBank}
        /\ g.dest_account_num \in Accounts
        /\ g.source_bank_id \in Banks \cup {NoBank}
      BY ClientAssumption
  <2>3. q = [o EXCEPT !.req_seq = 0,
                      !.dest_bank_id = g.dest_bank_id,
                      !.dest_account_num = g.dest_account_num,
                      !.source_bank_id = g.source_bank_id]
      BY <1>1
  <2>4. /\ q \in Request
        /\ q.sent_id = k /\ q.client_port = c
        /\ q.req_id = o.req_id /\ q.type = o.type
        /\ q.account_num = o.account_num /\ q.amount = o.amount
      BY <2>1, <2>2, <2>3 DEF Request
  <2> QED
      BY <2>4 DEF Copies, OwnRequests, Original
<1>2. ASSUME NEW k \in 1 .. Len(Queue(c)), NEW q, q = Queue(c)[k]
      PROVE  q \in Copies /\ q.client_port = c
  <2>1. q \in Request /\ q.sent_id = k /\ q.client_port = c
      BY <1>2, WorkloadAssumption DEF Queue
  <2> QED
      BY <1>2, <2>1 DEF Copies, OwnRequests, Original
<1>3. ASSUME NEW q \in Copies, q.client_port = c, to_server' = SendTo(PortFor(c, q), q)
      PROVE  \A x \in DOMAIN to_server' : x \in DOMAIN to_server \/ Fine(x)
  <2> PICK p : p = PortFor(c, q)
      OBVIOUS
  <2> PICK y : y = Mail("REQUEST", p, q)
      OBVIOUS
  <2>1. DOMAIN to_server' \subseteq DOMAIN to_server \cup {z \in {y} : z.to # NoServer}
      BY <1>3, DeliverProperty DEF SendTo
  <2>2. y.op = "REQUEST" /\ y.req = q /\ y.to = p
      BY DEF Mail
  <2>3. q.type \in Updates => p = head_port[c]
      BY DEF PortFor, Updates
  <2>4. y.to # NoServer => Fine(y)
      BY <1>0, <1>3, <2>2, <2>3
  <2> HIDE DEF Fine
  <2> QED
      BY <2>1, <2>4
<1>4. ASSUME NEW received, SendRequest(c, received)
      PROVE  \A x \in DOMAIN to_server' : x \in DOMAIN to_server \/ Fine(x)
  <2>1. CASE next_req[c] < Len(Queue(c)) /\ received = next_req[c]
    <3>1. next_req[c] + 1 \in 1 .. Len(Queue(c))
        BY <1>0, <2>1, WorkloadAssumption DEF TypeOK, ClientTypeOK, Queue
    <3>2. PICK q : q = Queue(c)[next_req[c] + 1]
        OBVIOUS
    <3>3. to_server' = SendTo(PortFor(c, q), q)
        BY <1>4, <2>1, <3>2 DEF SendRequest
    <3>4. q \in Copies /\ q.client_port = c
        BY <1>2, <3>1, <3>2
    <3> HIDE DEF Fine
    <3> QED
        BY <1>3, <3>3, <3>4
  <2>2. CASE ~ (next_req[c] < Len(Queue(c)) /\ received = next_req[c])
      BY <1>4, <2>2 DEF SendRequest
  <2> QED
      BY <2>1, <2>2
<1>5. ASSUME NEW k \in 1 .. Len(Queue(c)), CheckReceive(c, k)
      PROVE  \A x \in DOMAIN to_server' : x \in DOMAIN to_server \/ Fine(x)
  <2>1. PICK g \in Leftovers : CheckReceive(c, k)!7!(g)
      BY <1>5 DEF CheckReceive
  <2>2. PICK q : q = [Queue(c)[k] EXCEPT !.req_seq = 0,
                                         !.dest_bank_id = g.dest_bank_id,
                                         !.dest_account_num = g.dest_account_num,
                                         !.source_bank_id = g.source_bank_id]
      OBVIOUS
  <2>3. to_server' \in {to_server, SendTo(PortFor(c, q), q)}
      BY <2>1, <2>2
  <2>4. q \in Copies /\ q.client_port = c
      BY <1>1, <2>2
  <2> HIDE DEF Fine
  <2> QED
      BY <1>3, <2>3, <2>4
<1>6. ASSUME RecvSetHeadTail(c) PROVE to_server' = to_server
    BY <1>6 DEF RecvSetHeadTail
<1> HIDE DEF Fine
<1>7. \A x \in DOMAIN to_server' : x \in DOMAIN to_server \/ Fine(x)
    BY <1>4, <1>5, <1>6 DEF ClientStep, StartClient, RecvMsg, RecvReply
<1> QED
    BY <1>7 DEF Fine

\* A client takes the ends of its chain from the master, and logs replies.
LEMMA ClientTakes ==
    ASSUME ReplyInvariant, NEW c \in Clients, ClientStep(c)
    PROVE  /\ UNCHANGED serverState
           /\ DOMAIN to_client' \subseteq DOMAIN to_client
           /\ \A d \in Clients : head_port'[d] \in {NoServer, FirstServer(BankOf[d])}
           /\ \A d \in Clients : \A m \in Replies(d)' : m \in Replies(d)
<1>1. /\ \A d \in Clients : head_port[d] \in {NoServer, FirstServer(BankOf[d])}
      /\ \A m \in DOMAIN to_client :
            m.op = "SET_HEAD_TAIL" => m.head_port = FirstServer(m.bank_id)
      /\ log \in [Clients -> Seq(Reply)] /\ DOMAIN head_port = Clients
      /\ DOMAIN to_client \subseteq Reply \cup SetHeadTails
    BY DEF ReplyInvariant, CopiesKept, HeadInvariant, HeadFrame, TypeOK, ClientTypeOK
<1>2. CASE RecvReply(c)
  <2>1. PICK m \in DOMAIN to_client :
          /\ m.to = c /\ m.op = "SER_RPY"
          /\ log' = [log EXCEPT ![c] = Append(log[c], m)]
          /\ to_client' = Take(to_client, m)
          /\ UNCHANGED <<serverState, head_port>>
      BY <1>2 DEF RecvReply
  <2>2. DOMAIN to_client' \subseteq DOMAIN to_client
      BY <2>1, TakeProperty
  <2>3. m \in Reply
      BY <1>1, <2>1 DEF SetHeadTails
  <2>4. ASSUME NEW d \in Clients PROVE ToSet(log'[d]) \subseteq ToSet(log[d]) \cup {m}
                                       /\ (d # c => log'[d] = log[d])
    <3>1. CASE d = c
      <4>1. log'[d] = Append(log[d], m) /\ log[d] \in Seq(Reply)
          BY <1>1, <2>1, <3>1
      <4> PICK old : old = log[d]
          OBVIOUS
      <4>2. \A i \in 1 .. Len(Append(old, m)) :
               \/ i \in 1 .. Len(old) /\ Append(old, m)[i] = old[i]
               \/ i = Len(old) + 1 /\ Append(old, m)[i] = m
          BY <2>3, <4>1, StreamItems
      <4>3. /\ DOMAIN Append(old, m) = 1 .. Len(Append(old, m))
            /\ DOMAIN old = 1 .. Len(old)
          BY <2>3, <4>1
      <4> QED
          BY <3>1, <4>1, <4>2, <4>3 DEF ToSet
    <3>2. CASE d # c
        BY <1>1, <2>1, <3>2
    <3> QED
        BY <3>1, <3>2
  <2>5. ASSUME NEW d \in Clients, NEW x, x \in Replies(d)' PROVE x \in Replies(d)
      BY <2>1, <2>2, <2>4, <2>5 DEF Replies
  <2> QED
      BY <1>1, <2>1, <2>2, <2>5
<1>3. CASE RecvSetHeadTail(c)
  <2>1. PICK m \in DOMAIN to_client :
          /\ m.op = "SET_HEAD_TAIL"
          /\ head_port' = IF m.bank_id = BankOf[c]
                          THEN [head_port EXCEPT ![c] = m.head_port] ELSE head_port
          /\ to_client' = Take(to_client, m)
          /\ UNCHANGED <<serverState, log>>
      BY <1>3 DEF RecvSetHeadTail
  <2>2. DOMAIN to_client' \subseteq DOMAIN to_client
      BY <2>1, TakeProperty
  <2>3. \A d \in Clients : \A x \in Replies(d)' : x \in Replies(d)
      BY <2>1, <2>2 DEF Replies
  <2>4. \A d \in Clients : head_port'[d] \in {NoServer, FirstServer(BankOf[d])}
      BY <1>1, <2>1
  <2> QED
      BY <2>1, <2>2, <2>3, <2>4
<1>4. ASSUME StartClient(c) \/ \E k \in 1 .. Len(Queue(c)) : CheckReceive(c, k)
      PROVE  UNCHANGED <<serverState, to_client, head_port, log>>
    BY <1>4 DEF StartClient, CheckReceive
<1>5. CASE UNCHANGED <<serverState, to_client, head_port, log>>
    BY <1>1, <1>5 DEF Replies
<1> QED
    BY <1>2, <1>3, <1>4, <1>5 DEF ClientStep, RecvMsg

\* So every step of a client keeps the invariant.
LEMMA ClientKeeps ==
    ASSUME ReplyInvariant, HeadInvariant', NEW c \in Clients, ClientStep(c)
    PROVE  ReplyInvariant'
<1>1. UNCHANGED <<processed_trans, insuf_funds_trans, from_pre, from_next, sent>>
    BY ClientTakes DEF serverState
<1>2. Quiet
    BY <1>1 DEF Quiet, ReplyInvariant, CopiesKept
<1>3. CopiesKept'
  <2>1. \A s \in Servers : /\ sent'[s] \in Seq(UpdatesOf(Bank(s)))
                           /\ from_pre'[s] \in Seq(ForwardsOf(Bank(s)))
                           /\ from_next'[s] \in Seq(UpdatesOf(Bank(s)))
      BY <1>1 DEF ReplyInvariant, CopiesKept
  <2>2. \A m \in DOMAIN to_server' :
           /\ m.op = "REQUEST"
           /\ m.req \in Copies
           /\ m.req.type \in Updates => m.to = FirstServer(BankOf[m.req.client_port])
      BY ClientSends DEF ReplyInvariant, CopiesKept
  <2>3. /\ \A d \in Clients : head_port'[d] \in {NoServer, FirstServer(BankOf[d])}
        /\ \A m \in DOMAIN to_client' :
              m.op = "SET_HEAD_TAIL" => m.head_port = FirstServer(m.bank_id)
      BY ClientTakes DEF ReplyInvariant, CopiesKept
  <2> QED
      BY <2>1, <2>2, <2>3 DEF CopiesKept
<1>4. \A d \in Clients : \A m \in Replies(d)' : m \in Replies(d)
    BY ClientTakes
<1> QED
    BY <1>2, <1>3, <1>4, QuietInvariant

--------------------------------------------------------------------------------
\* The invariant holds at first and is kept by every step.
LEMMA ReplyInvariantStep ==
    ASSUME NoTransfers, ReplyInvariant, HeadInvariant', [Next]_vars
    PROVE  ReplyInvariant'
<1>1. ASSUME NEW s \in Servers, ServerStep(s) PROVE ReplyInvariant'
  <2>0. UNCHANGED clientState
      BY <1>1 DEF ServerStep
  <2>1. CASE RecUpdate(s)
      BY <2>0, <2>1, UpdateKeeps
  <2>2. CASE RecQuery(s)
      BY <2>0, <2>2, QueryKeeps
  <2>3. CASE RecUnknown(s)
    <3>1. /\ UNCHANGED <<serverState, to_client>>
          /\ DOMAIN to_server' \subseteq DOMAIN to_server
        BY <2>3, TakeProperty DEF RecUnknown
    <3> QED
        BY <2>0, <3>1, SilentKeeps DEF clientState
  <2>4. CASE RecForward(s)
      BY <2>0, <2>4, ForwardKeeps
  <2>5. CASE RecAck(s)
      BY <2>0, <2>5, AckKeeps
  <2>6. CASE RecOtherBank(s)
    <3>1. PICK m \in DOMAIN to_server : m.op = "TRANS_ACK"
        BY <2>6 DEF RecOtherBank
    <3> QED
        BY <3>1 DEF ReplyInvariant, CopiesKept
  <2> QED
      BY <1>1, <2>1, <2>2, <2>3, <2>4, <2>5, <2>6 DEF ServerStep, ReceiveStep, RecClient
<1>2. ASSUME NEW c \in Clients, ClientStep(c) PROVE ReplyInvariant'
    BY <1>2, ClientKeeps
<1>3. CASE Lose
  <2>1. /\ UNCHANGED <<serverState, clientState>>
        /\ DOMAIN to_server' \subseteq DOMAIN to_server
        /\ DOMAIN to_client' \subseteq DOMAIN to_client
      BY <1>3, TakeProperty DEF Lose
  <2> QED
      BY <2>1, SilentKeeps DEF clientState
<1>4. CASE UNCHANGED vars
    BY <1>4, SilentKeeps DEF vars, network, clientState
<1> QED
    BY <1>1, <1>2, <1>3, <1>4 DEF Next

\* At first nothing is recorded, listed, under way or answered.
LEMMA ReplyInvariantInit ==
    ASSUME Init, HeadInvariant
    PROVE  ReplyInvariant
<1>0. \A c \in Clients : /\ LoginAnswer(c).op = "SET_HEAD_TAIL"
                         /\ LoginAnswer(c).head_port = FirstServer(LoginAnswer(c).bank_id)
    BY DEF LoginAnswer
<1> USE DEF Init, ServerInit, ServersStart, ClientInit, ClientsStart
<1>1. DOMAIN to_client = {LoginAnswer(c) : c \in Clients} /\ DOMAIN to_server = {}
    BY DEF SetToBag, EmptyBag
<1>2. \A m \in DOMAIN to_client :
         m.op = "SET_HEAD_TAIL" /\ m.head_port = FirstServer(m.bank_id)
    BY <1>0, <1>1, Zenon
<1>3. CopiesKept
    BY <1>1, <1>2, SMTT(30) DEF CopiesKept
<1>4. \A c \in Clients : Replies(c) = {}
  <2>1. \A c \in Clients : ToSet(log[c]) = {}
      BY DEF ToSet
  <2> QED
      BY <1>2, <2>1 DEF Replies
<1>5. AnswersBacked
    BY <1>4 DEF AnswersBacked
<1>6. StreamsBacked /\ SentBacked /\ OrderKept
    BY DEF StreamsBacked, SentBacked, OrderKept
<1>7. NothingLost
    BY DEF NothingLost, Neighbours
<1>8. RefusalsAlike
  <2>1. \A b \in Banks : insuf_funds_trans[FirstServer(b)] = <<>>
      BY ChainEnds
  <2>2. 1 .. Len(<<>>) = {}
      OBVIOUS
  <2> QED
      BY <2>1, <2>2, Zenon DEF RefusalsAlike
<1> QED
    BY <1>3, <1>5, <1>6, <1>7, <1>8 DEF ReplyInvariant

(* The inductive invariant behind the two promises below.                   *)
THEOREM ReplyInvariantCorrect ==
    ASSUME NoTransfers
    PROVE  Spec => []ReplyInvariant
<1>1. Init /\ HeadInvariant => ReplyInvariant
    BY ReplyInvariantInit
<1>2. ReplyInvariant /\ HeadInvariant' /\ [Next]_vars => ReplyInvariant'
    BY ReplyInvariantStep
<1> QED
    BY <1>1, <1>2, HeadInvariantCorrect, PTL DEF Spec

\* What a reply to an update says of the servers of its bank.
LEMMA ReplyVouches ==
    ASSUME ReplyInvariant
    PROVE  ReplyMeansRecorded
<1> SUFFICES ASSUME NEW c \in Clients, NEW m \in Replies(c),
                    NEW q, q = Queue(c)[m.sent_id], q.type \in Updates,
                    NEW s \in Chain(BankOf[c])
             PROVE  /\ m.outcome = "Processed" => Recorded(processed_trans[s], q)
                    /\ m.outcome = "InsufficientFunds" => Recorded(insuf_funds_trans[s], q)
    BY DEF ReplyMeansRecorded
<1>1. m.to = c /\ AnswerBacked(m)
    BY DEF ReplyInvariant, AnswersBacked
<1>2. m.sent_id \in 1 .. Len(Queue(c)) /\ q \in Request
    BY <1>1, WorkloadAssumption DEF AnswerBacked, Queue
<1>3. PICK x : x = Answered(m)
    OBVIOUS
<1>4. /\ x.type = q.type /\ x.status = m.outcome
      /\ Alike(x, q)
    BY <1>1, <1>2, <1>3 DEF Answered, Alike, Content, Request
<1>5. BackedAt(LastServer(BankOf[c]), x)
    BY <1>1, <1>3, <1>4 DEF AnswerBacked
<1>6. /\ s \in Servers /\ s[1] = BankOf[c] /\ s = <<s[1], s[2]>>
      /\ s[2] \in 1 .. ChainLength[s[1]]
    BY DEF Chain, Bank, Servers
<1>7. s = LastServer(BankOf[c]) \/ s \in Before(LastServer(BankOf[c]))
  <2>1. ChainLength[s[1]] \in Nat
      BY <1>6, BankOfAssumption, ChainLengthAssumption
  <2>2. s[2] = ChainLength[s[1]] \/ s[2] < ChainLength[s[1]]
      BY <1>6, <2>1
  <2> QED
      BY <1>6, <2>2 DEF Before, LastServer, Bank
<1>8. Vouched(s, x)
    BY <1>5, <1>7 DEF BackedAt, BackedBefore
<1> QED
    BY <1>4, <1>8, RecordedAlike DEF Vouched, Granted

(* Once a client is told Processed (InsufficientFunds), every server of its *)
(* bank has recorded the request as executed (refused), in every deployment *)
(* without transfers, with any number of resends and losses.                *)
THEOREM ReplyMeansRecordedCorrect ==
    ASSUME NoTransfers
    PROVE  Spec => []ReplyMeansRecorded
<1>1. ReplyInvariant => ReplyMeansRecorded
    BY ReplyVouches
<1> QED
    BY <1>1, ReplyInvariantCorrect, PTL

\* Replies to one request are agreed.
LEMMA RepliesAgree ==
    ASSUME ReplyInvariant
    PROVE  OutcomeStable
<1> SUFFICES ASSUME NEW c \in Clients, NEW m \in Replies(c), NEW n \in Replies(c),
                    m.sent_id = n.sent_id
             PROVE  m.outcome = n.outcome
    BY DEF OutcomeStable
<1>1. m.to = c /\ AnswerBacked(m) /\ n.to = c /\ AnswerBacked(n)
    BY DEF ReplyInvariant, AnswersBacked
<1> PICK q : q = Queue(c)[m.sent_id]
    OBVIOUS
<1>2. m.sent_id \in 1 .. Len(Queue(c)) /\ q \in Request
    BY <1>1, WorkloadAssumption DEF AnswerBacked, Queue
<1> PICK b : b = BankOf[c]
    OBVIOUS
<1>3. PICK x, y : x = Answered(m) /\ y = Answered(n)
    OBVIOUS
<1>4. /\ x = [q EXCEPT !.status = m.outcome] /\ y = [q EXCEPT !.status = n.outcome]
    BY <1>1, <1>3 DEF Answered
<1>5. /\ x.type = q.type /\ x.status = m.outcome
      /\ y.type = q.type /\ y.status = n.outcome
      /\ Alike(x, y)
    BY <1>2, <1>4 DEF Request, Alike, Content
<1>6. CASE q.type \notin Updates
    BY <1>1, <1>3, <1>5, <1>6 DEF AnswerBacked
<1>7. CASE q.type \in Updates
  <2>1. /\ m.outcome # "Need" /\ n.outcome # "Need"
        /\ BackedAt(LastServer(b), x) /\ BackedAt(LastServer(b), y)
      BY <1>1, <1>3, <1>5, <1>7 DEF AnswerBacked
  <2>2. b \in Banks /\ Bank(LastServer(b)) = b
      BY BankOfAssumption DEF LastServer, Bank
  <2>3. Decided(FirstServer(b), x) /\ Decided(FirstServer(b), y)
      BY <2>1, <2>2 DEF BackedAt, BackedBefore
  <2>4. x.status \in Statuses /\ y.status \in Statuses
    <3>1. TypeOK
        BY DEF ReplyInvariant, HeadInvariant, HeadFrame
    <3>2. \A d \in Clients : \A i \in DOMAIN log[d] : log[d][i] \in Reply
        BY <3>1 DEF TypeOK, ClientTypeOK
    <3>3. \A z \in DOMAIN to_client : z.op = "SER_RPY" => z \in Reply
        BY <3>1 DEF TypeOK, ClientTypeOK, SetHeadTails
    <3>4. m \in Reply /\ n \in Reply
        BY <3>2, <3>3 DEF Replies, ToSet
    <3> QED
        BY <1>5, <3>4 DEF Reply
  <2>5. SoundHistories(processed_trans[FirstServer(b)], insuf_funds_trans[FirstServer(b)])
      BY <2>2, HeadHistories
  <2>6. /\ x.status \in Granted <=> y.status \in Granted
        /\ x.status = "InsufficientFunds" <=> y.status = "InsufficientFunds"
        /\ x.status = "InconsistentWithHistory" <=> y.status = "InconsistentWithHistory"
      BY <1>5, <2>3, <2>4, <2>5, CopiesAgree
  <2>7. x.status # "none" /\ y.status # "none"
      BY <2>3 DEF Decided
  <2> QED
      BY <1>5, <2>1, <2>4, <2>6, <2>7 DEF Granted, Statuses
<1> QED
    BY <1>6, <1>7

(* The replies to a request agree on its outcome, in every deployment       *)
(* without transfers, however often it is resent.                           *)
THEOREM OutcomeStableCorrect ==
    ASSUME NoTransfers
    PROVE  Spec => []OutcomeStable
<1>1. ReplyInvariant => OutcomeStable
    BY RepliesAgree
<1> QED
    BY <1>1, ReplyInvariantCorrect, PTL

================================================================================
