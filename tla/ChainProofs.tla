------------------------------- MODULE ChainProofs -------------------------------
(***************************************************************************)
(* Theorems of Chain, for every number of banks, servers, clients and      *)
(* requests: its types, and the two properties of a head.                  *)
(***************************************************************************)
EXTENDS Chain, SequenceTheorems, WellFoundedInduction, TLAPS

--------------------------------------------------------------------------------
\* What the operators of Process return, for all lists and requests.

\* A nonempty set of natural numbers has a least element, and Min is it.
LEMMA MinOfNat ==
    ASSUME NEW I \in SUBSET Nat, I # {}
    PROVE  Min(I) \in I /\ \A m \in I : Min(I) <= m
<1> DEFINE Less == {e \in Nat \X Nat : e[1] < e[2]}
<1>1. IsWellFoundedOn(Less, Nat)
    BY NatLessThanWellFounded, Zenon DEF OpToRel
<1>2. PICK x \in I : \A y \in I : ~ (<<y, x>> \in Less)
    BY <1>1, WFMin
<1>3. ASSUME NEW y \in I PROVE x <= y
  <2>1. x \in Nat /\ y \in Nat
      OBVIOUS
  <2>2. y < x => <<y, x>> \in Less
      BY <2>1
  <2> QED
      BY <1>2, <2>1, <2>2
<1> QED
    BY <1>3 DEF Min

\* check_in_sent finds a request exactly when the list holds its name, and the
\* entry found bears that name.
LEMMA FirstSentProperty ==
    ASSUME NEW list \in Seq(Request), NEW q
    PROVE  /\ FirstSent(list, q) \in 0 .. Len(list)
           /\ FirstSent(list, q) # 0 => SameSent(q, list[FirstSent(list, q)])
           /\ FirstSent(list, q) = 0 => \A i \in 1 .. Len(list) : ~SameSent(q, list[i])
<1> DEFINE I == {i \in 1 .. Len(list) : SameSent(q, list[i])}
<1>1. FirstSent(list, q) = IF I # {} THEN Min(I) ELSE 0
    BY DEF FirstSent, SelectInSeq
<1>2. I \in SUBSET Nat
    OBVIOUS
<1>3. CASE I = {}
    BY <1>1, <1>3
<1>4. CASE I # {}
  <2>1. FirstSent(list, q) \in I
      BY <1>1, <1>2, <1>4, MinOfNat
  <2> QED
      BY <2>1
<1> QED
    BY <1>3, <1>4

\* The first request of a history under an id, likewise.
LEMMA FirstWithIdProperty ==
    ASSUME NEW history \in Seq(Request), NEW q
    PROVE  /\ FirstWithId(history, q) \in 0 .. Len(history)
           /\ FirstWithId(history, q) # 0 =>
                 /\ FirstWithId(history, q) \in 1 .. Len(history)
                 /\ history[FirstWithId(history, q)].req_id = q.req_id
           /\ FirstWithId(history, q) = 0 =>
                 \A i \in 1 .. Len(history) : history[i].req_id # q.req_id
<1> DEFINE I == {i \in 1 .. Len(history) : history[i].req_id = q.req_id}
<1>1. FirstWithId(history, q) = IF I # {} THEN Min(I) ELSE 0
    BY DEF FirstWithId, SelectInSeq
<1>2. I \in SUBSET Nat
    OBVIOUS
<1>3. CASE I = {}
    BY <1>1, <1>3
<1>4. CASE I # {}
  <2>1. FirstWithId(history, q) \in I
      BY <1>1, <1>2, <1>4, MinOfNat
  <2> QED
      BY <2>1
<1> QED
    BY <1>3, <1>4

\* delete_sent leaves a list of requests that were in the list before.
LEMMA DeleteSentProperty ==
    ASSUME NEW list \in Seq(Request), NEW q
    PROVE  /\ DeleteSent(list, q) \in Seq(Request)
           /\ \A i \in 1 .. Len(DeleteSent(list, q)) :
                 \E j \in 1 .. Len(list) : DeleteSent(list, q)[i] = list[j]
<1> DEFINE n == FirstSent(list, q)
<1>1. n \in 0 .. Len(list) /\ Len(list) \in Nat
    BY FirstSentProperty
<1>2. CASE ~ \E i \in 1 .. Len(list) : SameSent(q, list[i])
  <2>1. DeleteSent(list, q) = list
      BY <1>2 DEF DeleteSent, RemoveFirstMatch
  <2> QED
      BY <2>1
<1>3. CASE \E i \in 1 .. Len(list) : SameSent(q, list[i])
  <2> DEFINE front == SubSeq(list, 1, n - 1)
             back == SubSeq(list, n + 1, Len(list))
  <2>1. DeleteSent(list, q) = front \o back
      BY <1>3 DEF DeleteSent, RemoveFirstMatch, RemoveAt, FirstSent
  <2>2. n \in 1 .. Len(list)
      BY <1>1, <1>3, FirstSentProperty
  <2>3. /\ front \in Seq(Request)
        /\ Len(front) = n - 1
        /\ \A i \in 1 .. n - 1 : front[i] = list[i]
      BY <1>1, <2>2
  <2>4. /\ back \in Seq(Request)
        /\ Len(back) = Len(list) - n
        /\ \A i \in 1 .. Len(list) - n : back[i] = list[n + i]
      BY <1>1, <2>2
  <2> HIDE DEF n, front, back
  <2>5. /\ front \o back \in Seq(Request)
        /\ Len(front \o back) = Len(list) - 1
        /\ \A i \in 1 .. Len(list) - 1 :
              (front \o back)[i] = IF i <= n - 1 THEN front[i] ELSE back[i - (n - 1)]
    <3>1. /\ front \o back \in Seq(Request)
          /\ Len(front \o back) = Len(front) + Len(back)
          /\ \A i \in 1 .. Len(front) + Len(back) :
               (front \o back)[i] =
                  IF i <= Len(front) THEN front[i] ELSE back[i - Len(front)]
        BY <2>3, <2>4, ConcatProperties
    <3>2. Len(front) + Len(back) = Len(list) - 1
        BY <1>1, <2>2, <2>3, <2>4
    <3> QED
        BY <2>3, <3>1, <3>2
  <2>6. ASSUME NEW i \in 1 .. Len(list) - 1
        PROVE  \E j \in 1 .. Len(list) : (front \o back)[i] = list[j]
    <3>1. CASE i <= n - 1
        BY <1>1, <2>2, <2>3, <2>5, <3>1
    <3>2. CASE i > n - 1
      <4>1. i - (n - 1) \in 1 .. Len(list) - n /\ i + 1 \in 1 .. Len(list)
          BY <1>1, <2>2, <3>2
      <4>2. (front \o back)[i] = list[i + 1]
          BY <1>1, <2>2, <2>4, <2>5, <3>2, <4>1
      <4> QED
          BY <4>1, <4>2
    <3>3. i <= n - 1 \/ i > n - 1
        BY <1>1
    <3> QED
        BY <3>1, <3>2, <3>3
  <2>7. 1 .. Len(front \o back) = 1 .. Len(list) - 1
      BY <2>5
  <2> QED
      BY <2>1, <2>5, <2>6, <2>7, Zenon
<1> QED
    BY <1>2, <1>3

\* A resend finds a status that is one.
LEMMA PreSendStatusType ==
    ASSUME NEW list \in Seq(Request), NEW q
    PROVE  PreSendStatus(list, q) \in Statuses
<1>1. CASE InSent(list, q)
  <2>1. FirstSent(list, q) \in 1 .. Len(list)
      BY <1>1, FirstSentProperty DEF InSent
  <2>2. list[FirstSent(list, q)] \in Request
      BY <2>1
  <2> QED
      BY <1>1, <2>2 DEF PreSendStatus, Request
<1>2. CASE ~InSent(list, q)
    BY <1>2 DEF PreSendStatus, Statuses
<1> QED
    BY <1>1, <1>2

--------------------------------------------------------------------------------
\* Every execution leaves integers in the accounts and gives a known status.
LEMMA ProcessUpdateType ==
    ASSUME NEW b, NEW balances \in [Accounts -> Int], NEW same, NEW q \in Request
    PROVE  /\ ProcessUpdate(b, balances, same, q).status \in Statuses
           /\ ProcessUpdate(b, balances, same, q).balances \in [Accounts -> Int]
<1>1. /\ q.amount \in Int
      /\ q.account_num \in Accounts
      /\ q.dest_account_num \in Accounts
    BY DEF Request
<1>2. \A a \in Accounts : /\ Credit(balances, a, q.amount) \in [Accounts -> Int]
                         /\ Debit(balances, a, q.amount) \in [Accounts -> Int]
    BY <1>1 DEF Credit, Debit
<1>3. /\ ProcessDeposit(b, balances, same, q).status \in Statuses
      /\ ProcessDeposit(b, balances, same, q).balances \in [Accounts -> Int]
    BY <1>1, <1>2 DEF ProcessDeposit, Statuses
<1>4. /\ ProcessWithdraw(balances, same, q).status \in Statuses
      /\ ProcessWithdraw(balances, same, q).balances \in [Accounts -> Int]
    BY <1>1, <1>2 DEF ProcessWithdraw, Statuses
<1> QED
    BY <1>3, <1>4 DEF ProcessUpdate, ProcessTransfer

\* So does the execution behind the head.
LEMMA UpdateBalanceType ==
    ASSUME NEW b, NEW balances \in [Accounts -> Int], NEW q \in Request
    PROVE  UpdateBalance(b, balances, q) \in [Accounts -> Int]
<1>1. /\ q.amount \in Int
      /\ q.account_num \in Accounts
      /\ q.dest_account_num \in Accounts
    BY DEF Request
<1>2. \A a \in Accounts : /\ Credit(balances, a, q.amount) \in [Accounts -> Int]
                         /\ Debit(balances, a, q.amount) \in [Accounts -> Int]
    BY <1>1 DEF Credit, Debit
<1> QED
    BY <1>1, <1>2 DEF UpdateBalance

\* A history names an id.
HasId(history, id) == \E i \in 1 .. Len(history) : history[i].req_id = id

\* A request is executed at a head only under an id no history of it names.
LEMMA NeedIsNew ==
    ASSUME NEW b, NEW balances, NEW q,
           NEW processed \in Seq(Request), NEW insuf \in Seq(Request),
           ProcessUpdate(b, balances, CheckSameReq(processed, insuf, q), q).status = "Need"
    PROVE  ~HasId(processed, q.req_id) /\ ~HasId(insuf, q.req_id)
<1> DEFINE same == CheckSameReq(processed, insuf, q)
<1>1. same = "NOT_YET"
    BY DEF ProcessUpdate, ProcessTransfer, ProcessDeposit, ProcessWithdraw
<1>2. FirstWithId(insuf, q) = 0 /\ FirstWithId(processed, q) = 0
  <2>1. /\ FirstWithId(insuf, q) \in Nat
        /\ FirstWithId(processed, q) \in Nat
      BY FirstWithIdProperty
  <2> QED
      BY <1>1, <2>1 DEF CheckSameReq
<1> QED
    BY <1>2, FirstWithIdProperty DEF HasId

\* A request is refused under an id that is new or was refused before.
LEMMA RefusalIsNewOrOld ==
    ASSUME NEW b, NEW balances, NEW q,
           NEW processed \in Seq(Request), NEW insuf \in Seq(Request),
           ProcessUpdate(b, balances, CheckSameReq(processed, insuf, q), q).status
              = "InsufficientFunds"
    PROVE  /\ q.type # "deposit"
           /\ ~HasId(processed, q.req_id) \/ HasId(insuf, q.req_id)
<1> DEFINE same == CheckSameReq(processed, insuf, q)
<1>1. q.type # "deposit"
    BY DEF ProcessUpdate, ProcessDeposit
<1>2. same # "EXACTLY_SAME_PROCESS" /\ same # "ONLY_SAME_REQID"
    BY DEF ProcessUpdate, ProcessTransfer, ProcessDeposit, ProcessWithdraw
<1>3. /\ FirstWithId(insuf, q) \in Nat
      /\ FirstWithId(processed, q) \in Nat
    BY FirstWithIdProperty
<1>4. CASE FirstWithId(insuf, q) # 0
    BY <1>1, <1>4, FirstWithIdProperty DEF HasId
<1>5. CASE FirstWithId(insuf, q) = 0
  <2>1. FirstWithId(processed, q) = 0
      BY <1>2, <1>3, <1>5 DEF CheckSameReq
  <2> QED
      BY <1>1, <2>1, FirstWithIdProperty DEF HasId
<1> QED
    BY <1>4, <1>5

\* Every set of places in a list has a last one, and Max is it.
LEMMA MaxOfRange ==
    ASSUME NEW k \in Nat, NEW s \in SUBSET (1 .. k), s # {}
    PROVE  Max(s) \in s /\ \A y \in s : Max(s) >= y
<1> DEFINE I == {n \in Nat : \A y \in s : n >= y}
<1>1. k \in I
    OBVIOUS
<1>2. I \in SUBSET Nat
    OBVIOUS
<1>3. Min(I) \in I /\ \A m \in I : Min(I) <= m
    BY <1>1, <1>2, MinOfNat
<1>4. Min(I) \in s
  <2> SUFFICES ASSUME Min(I) \notin s PROVE FALSE
      OBVIOUS
  <2>1. \A y \in s : y \in Nat /\ y # 0 /\ y # Min(I) /\ Min(I) >= y
      BY <1>3
  <2>0. PICK y \in s : TRUE
      OBVIOUS
  <2>2. Min(I) \in Nat /\ Min(I) # 0
    <3>1. y >= 1 /\ Min(I) >= y /\ y \in Nat /\ Min(I) \in Nat
        BY <1>3, <2>0, <2>1
    <3> QED
        BY <3>1
  <2>3. Min(I) - 1 \in I
      BY <2>1, <2>2
  <2> QED
      BY <1>3, <2>2, <2>3
<1> QED
    BY <1>3, <1>4 DEF Max

--------------------------------------------------------------------------------
\* Numbers, and the recursion by which the library folds a list.

\* Induction over a set of numbers: what holds of 0, and of n + 1 when it holds
\* of n, holds of all.
LEMMA Induction ==
    ASSUME NEW T, 0 \in T, \A n \in T \cap Nat : n + 1 \in T
    PROVE  Nat \subseteq T
<1> SUFFICES ASSUME Nat \ T # {} PROVE FALSE
    OBVIOUS
<1> DEFINE I == Nat \ T
<1>1. Min(I) \in I /\ \A m \in I : Min(I) <= m
    BY MinOfNat
<1>2. /\ Min(I) # 0 /\ Min(I) - 1 \in Nat /\ Min(I) - 1 \in T
    BY <1>1
<1>3. (Min(I) - 1) + 1 = Min(I)
    BY <1>1
<1> QED
    BY <1>1, <1>2, <1>3

\* What each of n items does to a value of V.
StepsOn(n, V) == [1 .. n -> [V -> V]]

(* f solves the recursion by which the folds of the library are defined: a  *)
(* value of V for every set of the first n numbers, where step[i] is what    *)
(* item i does to a value.                                                   *)
Solves(f, n, V, base, step) ==
    /\ f \in [SUBSET (1 .. n) -> V]
    /\ \A s \in SUBSET (1 .. n) :
          f[s] = IF s = {} THEN base ELSE step[Max(s)][f[s \ {Max(s)}]]

\* Such a recursion has a solution.
LEMMA RecursionExists ==
    ASSUME NEW n \in Nat, NEW V, NEW base \in V, NEW step \in StepsOn(n, V)
    PROVE  \E f : Solves(f, n, V, base, step)
<1>0. step \in [1 .. n -> [V -> V]]
    BY DEF StepsOn
<1> DEFINE Solved(k, f) ==
              /\ f \in [SUBSET (1 .. k) -> V]
              /\ \A s \in SUBSET (1 .. k) :
                    f[s] = IF s = {} THEN base ELSE step[Max(s)][f[s \ {Max(s)}]]
           T == {k \in Nat : k <= n => \E f : Solved(k, f)}
<1>1. 0 \in T
  <2>1. \A s \in SUBSET (1 .. 0) : s = {}
      OBVIOUS
  <2>2. Solved(0, [s \in SUBSET (1 .. 0) |-> base])
      BY <2>1
  <2> QED
      BY <2>2
<1> HIDE DEF Solved
<1>2. ASSUME NEW k \in Nat, k \in T PROVE k + 1 \in T
  <2> SUFFICES ASSUME k + 1 <= n PROVE \E f : Solved(k + 1, f)
      OBVIOUS
  <2>0. k \in Nat /\ k + 1 \in Nat /\ k <= n
      OBVIOUS
  <2>1. PICK f : Solved(k, f)
      BY <1>2, <2>0
  <2> USE DEF Solved
  <2> HIDE DEF T
  <2> DEFINE g == [s \in SUBSET (1 .. k + 1) |->
                     IF s = {} THEN base ELSE step[Max(s)][f[s \ {Max(s)}]]]
  <2>2. ASSUME NEW s \in SUBSET (1 .. k + 1), s # {}
        PROVE  /\ Max(s) \in s /\ s \ {Max(s)} \in SUBSET (1 .. k)
               /\ Max(s) \in 1 .. n
    <3>1. Max(s) \in s /\ \A y \in s : Max(s) >= y
        BY <2>0, <2>2, MaxOfRange
    <3>2. ASSUME NEW y \in s, y # Max(s) PROVE y \in 1 .. k
      <4>1. y \in 1 .. k + 1 /\ Max(s) \in 1 .. k + 1 /\ Max(s) >= y
          BY <3>1
      <4> QED
          BY <2>0, <3>2, <4>1
    <3>3. Max(s) \in 1 .. k + 1
        BY <3>1
    <3>4. Max(s) \in 1 .. n
        BY <2>0, <3>3
    <3> QED
        BY <3>1, <3>2, <3>4
  <2>3. g \in [SUBSET (1 .. k + 1) -> V]
    <3>1. ASSUME NEW s \in SUBSET (1 .. k + 1), s # {}
          PROVE  step[Max(s)][f[s \ {Max(s)}]] \in V
        BY <1>0, <2>1, <2>2, <3>1
    <3> QED
        BY <3>1
  <2>4. \A s \in SUBSET (1 .. k) : g[s] = f[s]
    <3>1. SUBSET (1 .. k) \subseteq SUBSET (1 .. k + 1)
        BY <2>0
    <3> QED
        BY <2>1, <3>1
  <2>5. \A s \in SUBSET (1 .. k + 1) :
           g[s] = IF s = {} THEN base ELSE step[Max(s)][g[s \ {Max(s)}]]
    <3>1. ASSUME NEW s \in SUBSET (1 .. k + 1), s # {}
          PROVE  g[s] = step[Max(s)][g[s \ {Max(s)}]]
      <4>1. g[s] = step[Max(s)][f[s \ {Max(s)}]]
          BY <3>1
      <4>2. g[s \ {Max(s)}] = f[s \ {Max(s)}]
          BY <2>2, <2>4, <3>1
      <4> QED
          BY <4>1, <4>2
    <3> QED
        BY <3>1
  <2> HIDE DEF g
  <2> QED
      BY <2>3, <2>5
<1>3. n \in T
  <2> HIDE DEF T
  <2> QED
      BY <1>1, <1>2, Induction
<1>4. PICK f : Solved(n, f)
    BY <1>3
<1> QED
    BY <1>4 DEF Solved, Solves

\* The last of the first k items is the k-th; without it they are the first k - 1.
LEMMA FirstItems ==
    ASSUME NEW n \in Nat, NEW k \in 1 .. n
    PROVE  /\ 1 .. k \in SUBSET (1 .. n) /\ 1 .. k # {}
           /\ Max(1 .. k) = k
           /\ (1 .. k) \ {k} = 1 .. k - 1
<1>1. k \in 1 .. k /\ k \in Nat
    OBVIOUS
<1>2. Max(1 .. k) \in 1 .. k /\ \A y \in 1 .. k : Max(1 .. k) >= y
    BY <1>1, MaxOfRange
<1>3. Max(1 .. k) = k
    BY <1>1, <1>2
<1> QED
    BY <1>1, <1>3

\* Two walks through n items agree.
Agree(n, v, w) == \A i \in 0 .. n : v[i] = w[i]

\* Two walks that start alike and go on alike agree.
LEMMA SameWalk ==
    ASSUME NEW n \in Nat, NEW v, NEW w, v[0] = w[0],
           \A i \in 1 .. n : v[i - 1] = w[i - 1] => v[i] = w[i]
    PROVE  Agree(n, v, w)
<1> DEFINE T == {i \in Nat : i <= n => v[i] = w[i]}
<1>1. 0 \in T
    OBVIOUS
<1>2. ASSUME NEW i \in T \cap Nat PROVE i + 1 \in T
  <2>1. i + 1 <= n => i + 1 \in 1 .. n /\ i <= n /\ (i + 1) - 1 = i
      OBVIOUS
  <2> QED
      BY <2>1
<1>3. Nat \subseteq T
  <2> HIDE DEF T
  <2> QED
      BY <1>1, <1>2, Induction
<1> QED
    BY <1>3 DEF Agree

--------------------------------------------------------------------------------
\* What the network and the streams hold after a handler has sent.

\* A datagram in the network was there before or was just sent to a process.
LEMMA DeliverProperty ==
    ASSUME NEW bag, NEW mails
    PROVE  DOMAIN Deliver(bag, mails) \subseteq
              DOMAIN bag \cup {m \in mails : m.to # NoServer}
BY DEF Deliver, SetToBag, (+)

\* Taking a datagram out of the network adds none.
LEMMA TakeProperty ==
    ASSUME NEW bag, NEW mail
    PROVE  DOMAIN Take(bag, mail) \subseteq DOMAIN bag
BY DEF Take, SetToBag, (-)

\* A stream of messages stays one when a message is sent on it.
LEMMA PushType ==
    ASSUME NEW T, NEW streams \in [Servers -> Seq(T)],
           NEW port \in Servers \cup {NoServer}, NEW message \in T
    PROVE  Push(streams, port, message) \in [Servers -> Seq(T)]
BY DEF Push

\* A stream of messages stays one when its first message is read.
LEMMA PopType ==
    ASSUME NEW T, NEW streams \in [Servers -> Seq(T)],
           NEW s \in Servers, streams[s] # <<>>
    PROVE  /\ Pop(streams, s) \in [Servers -> Seq(T)]
           /\ Head(streams[s]) \in T
BY DEF Pop

\* Where a head or tail is looked up there is a server, or nobody.
LEMMA PortType ==
    ASSUME TopologyTypeOK, NEW s \in Servers, NEW b
    PROVE  /\ HeadOfBank(s, b) \in Servers \cup {NoServer}
           /\ TailOfBank(s, b) \in Servers \cup {NoServer}
BY DEF TopologyTypeOK, HeadOfBank, TailOfBank

\* What is sent to another bank is mail for a server, if it arrives anywhere.
LEMMA MailType ==
    ASSUME TopologyTypeOK, NEW s \in Servers, NEW q \in Request
    PROVE  /\ \A m \in ShipTransfer(s, q) : m.to # NoServer => m \in Mails
           /\ \A m \in AckTransfer(s, q) : m.to # NoServer => m \in Mails
BY PortType DEF ShipTransfer, AckTransfer, Mail, Mails

\* A reply about a request is one.
LEMMA ReplyToType ==
    ASSUME NEW q \in Request, NEW result \in Statuses,
           NEW balances \in [Accounts -> Int]
    PROVE  ReplyTo(q, result, balances) \in Reply
BY DEF ReplyTo, Reply, Request

\* So is the outcome it reports.
LEMMA OutcomeType ==
    ASSUME NEW q \in Request
    PROVE  Outcome(q) \in Statuses
BY DEF Request, Outcome, Statuses

(* The types with streams of messages M and answers P of the master: those  *)
(* of Chain are ServerTypes(Forwards) and ClientTypes(SetHeadTails); a       *)
(* system with failures has more kinds of both.                             *)
ServerTypes(M) ==
    /\ TopologyTypeOK
    /\ req_seq \in [Servers -> Nat]
    /\ last_received_id \in [Servers -> Nat]
    /\ balance_map \in [Servers -> [Accounts -> Int]]
    /\ processed_trans \in [Servers -> Seq(Request)]
    /\ insuf_funds_trans \in [Servers -> Seq(Request)]
    /\ sent \in [Servers -> Seq(Request)]
    /\ from_pre \in [Servers -> Seq(M)]
    /\ from_next \in [Servers -> Seq(Request)]
    /\ DOMAIN to_server \subseteq Mails

\* The clients' part of them.
ClientTypes(P) ==
    /\ started \in [Clients -> BOOLEAN]
    /\ head_port \in [Clients -> Servers \cup {NoServer}]
    /\ tail_port \in [Clients -> Servers \cup {NoServer}]
    /\ next_req \in [Clients -> Nat]
    /\ \A c \in Clients : next_req[c] <= Len(Queue(c))
    /\ recv_table \in [Clients -> SUBSET Nat]
    /\ last_rec_id \in [Clients -> Nat]
    /\ DOMAIN my_resend_time = Clients
    /\ \A c \in Clients : my_resend_time[c] \in [1 .. Len(Queue(c)) -> Nat]
    /\ log \in [Clients -> Seq(Reply)]
    /\ DOMAIN to_client \subseteq Reply \cup P

Typed(M, P) == ServerTypes(M) /\ ClientTypes(P)

\* What the handlers need of M and P.
Fits(M, P) ==
    /\ Forwards \subseteq M
    /\ \A m \in M : m.op = "FORWARD" => m.req \in Request
    /\ \A n \in P : /\ n.op = "SET_HEAD_TAIL"
                    /\ n.head_port \in Servers \cup {NoServer}
                    /\ n.tail_port \in Servers \cup {NoServer}

\* A request that a head has judged is still a request, of known status.
LEMMA JudgedTypes ==
    ASSUME NEW M, ServerTypes(M), NEW s \in Servers, NEW q \in Request
    PROVE  /\ Judge(s, q).balances \in [Accounts -> Int]
           /\ Judged(s, q) \in Request
<1>1. /\ balance_map[s] \in [Accounts -> Int]
      /\ sent[s] \in Seq(Request)
      /\ req_seq[s] + 1 \in Nat
    BY DEF ServerTypes
<1>2. /\ Judge(s, q).status \in Statuses
      /\ Judge(s, q).balances \in [Accounts -> Int]
    BY <1>1, PreSendStatusType, ProcessUpdateType DEF Judge
<1>3. Judged(s, q) \in Request
    BY <1>1, <1>2 DEF Judged, Request
<1> QED
    BY <1>2, <1>3

\* The same in Chain.
LEMMA JudgedType ==
    ASSUME ServerTypeOK, NEW s \in Servers, NEW q \in Request
    PROVE  /\ Judge(s, q).balances \in [Accounts -> Int]
           /\ Judged(s, q) \in Request
<1>1. ServerTypes(Forwards)
    BY DEF ServerTypes, ServerTypeOK
<1> QED
    BY <1>1, JudgedTypes

\* A request recorded as executed extends a history.
LEMMA RecordType ==
    ASSUME NEW history \in Seq(Request), NEW q \in Request
    PROVE  Record(history, q) \in Seq(Request)
<1>1. [q EXCEPT !.status = "Processed"] \in Request
    BY DEF Request, Statuses
<1> QED
    BY <1>1 DEF Record

--------------------------------------------------------------------------------
\* Balances.

\* The balances an account of bank b goes through as history h says.
IsBalanceWalk(w, b, h, a) ==
    /\ w \in [0 .. Len(h) -> Int]
    /\ w[0] = 0
    /\ \A i \in 1 .. Len(h) : w[i] = w[i - 1] + Effect(b, h[i], a)
    /\ BalanceOf(b, h, a) = w[Len(h)]

\* BalanceOf sums the effects of a history one after the other.
LEMMA BalanceWalk ==
    ASSUME NEW b, NEW a, NEW h \in Seq(Request)
    PROVE  \E w : IsBalanceWalk(w, b, h, a)
<1> DEFINE n == Len(h)
           Equation(f) == f = [s \in SUBSET DOMAIN h |->
              IF s = {} THEN 0 ELSE f[s \ {Max(s)}] + Effect(b, h[Max(s)], a)]
           iter == CHOOSE f : Equation(f)
           step == [i \in 1 .. n |-> [v \in Int |-> v + Effect(b, h[i], a)]]
           w == [k \in 0 .. n |-> iter[1 .. k]]
<1>1. BalanceOf(b, h, a) = iter[DOMAIN h]
    BY DEF BalanceOf, FoldLeft, MapThenFoldSet
<1>2. DOMAIN h = 1 .. n /\ n \in Nat
    OBVIOUS
<1>3. \A i \in 1 .. n : Effect(b, h[i], a) \in Int
  <2>1. \A q \in Request : q.amount \in Int /\ -q.amount \in Int
      BY DEF Request
  <2>2. \A q \in Request : Effect(b, q, a) \in Int
      BY <2>1 DEF Effect
  <2> QED
      BY <2>2
<1>4. Equation(iter)
  <2>1. n \in Nat /\ 0 \in Int /\ step \in StepsOn(n, Int)
      BY <1>2, <1>3 DEF StepsOn
  <2>2. PICK f : Solves(f, n, Int, 0, step)
    <3> HIDE DEF n, step
    <3> QED
        BY <2>1, RecursionExists
  <2>3. ASSUME NEW s \in SUBSET (1 .. n), s # {}
        PROVE  f[s] = f[s \ {Max(s)}] + Effect(b, h[Max(s)], a)
    <3>1. Max(s) \in 1 .. n /\ s \ {Max(s)} \in SUBSET (1 .. n)
        BY <1>2, <2>3, MaxOfRange
    <3>2. f[s \ {Max(s)}] \in Int
        BY <2>2, <3>1 DEF Solves
    <3> QED
        BY <2>2, <2>3, <3>1, <3>2 DEF Solves
  <2>4. Equation(f)
      BY <1>2, <2>2, <2>3 DEF Solves
  <2> HIDE DEF Equation
  <2> QED
      BY <2>4
<1> HIDE DEF iter
<1>5. iter[{}] = 0
    BY <1>4
<1>6. ASSUME NEW k \in 1 .. n
      PROVE  iter[1 .. k] = iter[1 .. k - 1] + Effect(b, h[k], a)
  <2>1. /\ 1 .. k \in SUBSET DOMAIN h /\ 1 .. k # {}
        /\ Max(1 .. k) = k /\ (1 .. k) \ {k} = 1 .. k - 1
      BY <1>2, FirstItems
  <2>2. iter[1 .. k] = iter[(1 .. k) \ {Max(1 .. k)}] + Effect(b, h[Max(1 .. k)], a)
      BY <1>4, <2>1
  <2> QED
      BY <2>1, <2>2
<1>7. w[0] = 0 /\ \A k \in 1 .. n : w[k] = w[k - 1] + Effect(b, h[k], a)
    BY <1>2, <1>5, <1>6
<1>8. w \in [0 .. n -> Int]
  <2> DEFINE T == {k \in Nat : k <= n => w[k] \in Int}
  <2>1. 0 \in T
      BY <1>7
  <2>2. ASSUME NEW k \in T \cap Nat PROVE k + 1 \in T
    <3>1. k + 1 <= n => k + 1 \in 1 .. n /\ k <= n /\ (k + 1) - 1 = k
        BY <1>2
    <3> HIDE DEF w
    <3> QED
        BY <1>3, <1>7, <3>1
  <2>3. Nat \subseteq T
    <3> HIDE DEF T
    <3> QED
        BY <2>1, <2>2, Induction
  <2>4. \A k \in 0 .. n : w[k] \in Int
    <3> HIDE DEF w
    <3> QED
        BY <1>2, <2>3
  <2> QED
      BY <2>4
<1>9. BalanceOf(b, h, a) = w[n]
    BY <1>1, <1>2
<1> HIDE DEF w
<1> QED
    BY <1>7, <1>8, <1>9 DEF IsBalanceWalk

\* A history that is one update longer explains a balance that differs by the
\* effect of that update.
LEMMA BalanceAppend ==
    ASSUME NEW b, NEW a, NEW h \in Seq(Request), NEW q \in Request
    PROVE  /\ BalanceOf(b, <<>>, a) = 0
           /\ BalanceOf(b, h, a) \in Int
           /\ BalanceOf(b, Append(h, q), a) = BalanceOf(b, h, a) + Effect(b, q, a)
<1>1. BalanceOf(b, <<>>, a) = 0
  <2>1. <<>> \in Seq(Request) /\ Len(<<>>) = 0
      OBVIOUS
  <2>2. PICK w : IsBalanceWalk(w, b, <<>>, a)
      BY <2>1, BalanceWalk
  <2> QED
      BY <2>1, <2>2 DEF IsBalanceWalk
<1>2. PICK v : IsBalanceWalk(v, b, h, a)
    BY BalanceWalk
<1> DEFINE g == Append(h, q)
<1>3. /\ g \in Seq(Request) /\ Len(g) = Len(h) + 1 /\ Len(h) \in Nat
      /\ \A i \in 1 .. Len(h) : g[i] = h[i]
      /\ g[Len(h) + 1] = q
    OBVIOUS
<1> HIDE DEF g
<1>4. PICK w : IsBalanceWalk(w, b, g, a)
    BY <1>3, BalanceWalk
<1>5. Agree(Len(h), v, w)
  <2>1. ASSUME NEW i \in 1 .. Len(h), v[i - 1] = w[i - 1] PROVE v[i] = w[i]
    <3>1. i \in 1 .. Len(g) /\ g[i] = h[i]
        BY <1>3
    <3> QED
        BY <1>2, <1>4, <2>1, <3>1 DEF IsBalanceWalk
  <2>2. v[0] = w[0] /\ Len(h) \in Nat
      BY <1>2, <1>3, <1>4 DEF IsBalanceWalk
  <2> QED
      BY <2>1, <2>2, SameWalk
<1>6. w[Len(h) + 1] = w[Len(h)] + Effect(b, q, a)
  <2>1. Len(h) + 1 \in 1 .. Len(g) /\ (Len(h) + 1) - 1 = Len(h)
      BY <1>3
  <2> QED
      BY <1>3, <1>4, <2>1 DEF IsBalanceWalk
<1>7. v[Len(h)] = w[Len(h)] /\ v[Len(h)] \in Int
    BY <1>2, <1>3, <1>5 DEF Agree, IsBalanceWalk
<1>8. BalanceOf(b, g, a) = w[Len(h) + 1] /\ BalanceOf(b, h, a) = v[Len(h)]
    BY <1>2, <1>3, <1>4 DEF IsBalanceWalk
<1> QED
    BY <1>1, <1>6, <1>7, <1>8 DEF g

--------------------------------------------------------------------------------
\* Readings.

\* A history stays one when a message is filed in it.
LEMMA FilingType ==
    ASSUME NEW status, NEW history \in Seq(Request), NEW f \in Forwards
    PROVE  Filing(status, history, f) \in Seq(Request)
<1>1. f.req \in Request
    BY DEF Forwards
<1>2. Record(history, f.req) \in Seq(Request)
    BY <1>1, RecordType
<1> QED
    BY <1>1, <1>2 DEF Filing

\* The histories a server goes through as it reads a stream.
IsReadingWalk(w, status, history, stream) ==
    /\ w \in [0 .. Len(stream) -> Seq(Request)]
    /\ w[0] = history
    /\ \A i \in 1 .. Len(stream) : w[i] = Filing(status, w[i - 1], stream[i])
    /\ AfterReading(status, history, stream) = w[Len(stream)]

\* AfterReading files the messages of a stream one after the other.
LEMMA ReadingWalk ==
    ASSUME NEW status, NEW history \in Seq(Request), NEW stream \in Seq(Forwards)
    PROVE  \E w : IsReadingWalk(w, status, history, stream)
<1> DEFINE n == Len(stream)
           Histories == Seq(Request)
           Equation(f) == f = [s \in SUBSET DOMAIN stream |->
              IF s = {} THEN history
                        ELSE Filing(status, f[s \ {Max(s)}], stream[Max(s)])]
           iter == CHOOSE f : Equation(f)
           step == [i \in 1 .. n |-> [h \in Histories |-> Filing(status, h, stream[i])]]
           w == [k \in 0 .. n |-> iter[1 .. k]]
<1>1. AfterReading(status, history, stream) = iter[DOMAIN stream]
    BY DEF AfterReading, FoldLeft, MapThenFoldSet
<1>2. DOMAIN stream = 1 .. n /\ n \in Nat
    OBVIOUS
<1>3. \A i \in 1 .. n : \A h \in Histories : Filing(status, h, stream[i]) \in Histories
    BY FilingType
<1>4. Equation(iter)
  <2>1. n \in Nat /\ history \in Histories /\ step \in StepsOn(n, Histories)
      BY <1>2, <1>3 DEF StepsOn
  <2>2. PICK f : Solves(f, n, Histories, history, step)
    <3> HIDE DEF n, step, Histories
    <3> QED
        BY <2>1, RecursionExists
  <2>3. ASSUME NEW s \in SUBSET (1 .. n), s # {}
        PROVE  f[s] = Filing(status, f[s \ {Max(s)}], stream[Max(s)])
    <3>1. Max(s) \in 1 .. n /\ s \ {Max(s)} \in SUBSET (1 .. n)
        BY <1>2, <2>3, MaxOfRange
    <3>2. f[s \ {Max(s)}] \in Histories
        BY <2>2, <3>1 DEF Solves
    <3> HIDE DEF Histories
    <3> QED
        BY <2>2, <2>3, <3>1, <3>2 DEF Solves
  <2>4. Equation(f)
      BY <1>2, <2>2, <2>3 DEF Solves
  <2> HIDE DEF Equation
  <2> QED
      BY <2>4
<1> HIDE DEF iter
<1>5. iter[{}] = history
    BY <1>4
<1>6. ASSUME NEW k \in 1 .. n
      PROVE  iter[1 .. k] = Filing(status, iter[1 .. k - 1], stream[k])
  <2>1. /\ 1 .. k \in SUBSET DOMAIN stream /\ 1 .. k # {}
        /\ Max(1 .. k) = k /\ (1 .. k) \ {k} = 1 .. k - 1
      BY <1>2, FirstItems
  <2>2. iter[1 .. k] = Filing(status, iter[(1 .. k) \ {Max(1 .. k)}], stream[Max(1 .. k)])
      BY <1>4, <2>1
  <2> QED
      BY <2>1, <2>2
<1>7. w[0] = history /\ \A k \in 1 .. n : w[k] = Filing(status, w[k - 1], stream[k])
    BY <1>2, <1>5, <1>6
<1>8. w \in [0 .. n -> Histories]
  <2> DEFINE T == {k \in Nat : k <= n => w[k] \in Histories}
  <2> HIDE DEF Histories
  <2>1. 0 \in T
      BY <1>7 DEF Histories
  <2>2. ASSUME NEW k \in T \cap Nat PROVE k + 1 \in T
    <3>1. k + 1 <= n => k + 1 \in 1 .. n /\ k <= n /\ (k + 1) - 1 = k
        BY <1>2
    <3> HIDE DEF w
    <3> QED
        BY <1>3, <1>7, <3>1
  <2>3. Nat \subseteq T
    <3> HIDE DEF T
    <3> QED
        BY <2>1, <2>2, Induction
  <2>4. \A k \in 0 .. n : w[k] \in Histories
    <3> HIDE DEF w
    <3> QED
        BY <1>2, <2>3
  <2> QED
      BY <2>4
<1>9. AfterReading(status, history, stream) = w[n]
    BY <1>1, <1>2
<1> HIDE DEF w
<1> QED
    BY <1>7, <1>8, <1>9 DEF IsReadingWalk

\* A server that reads nothing keeps its history.
LEMMA EmptyReading ==
    ASSUME NEW status, NEW history \in Seq(Request)
    PROVE  AfterReading(status, history, <<>>) = history
<1>1. <<>> \in Seq(Forwards) /\ Len(<<>>) = 0
    OBVIOUS
<1>2. PICK w : IsReadingWalk(w, status, history, <<>>)
    BY <1>1, ReadingWalk
<1> QED
    BY <1>1, <1>2 DEF IsReadingWalk

\* A message sent on a stream is read last.
LEMMA ReadingLast ==
    ASSUME NEW status, NEW history \in Seq(Request), NEW stream \in Seq(Forwards),
           NEW f \in Forwards
    PROVE  /\ AfterReading(status, history, <<>>) = history
           /\ AfterReading(status, history, stream) \in Seq(Request)
           /\ AfterReading(status, history, Append(stream, f)) =
                 Filing(status, AfterReading(status, history, stream), f)
<1>1. AfterReading(status, history, <<>>) = history
    BY EmptyReading
<1>2. PICK v : IsReadingWalk(v, status, history, stream)
    BY ReadingWalk
<1> DEFINE longer == Append(stream, f)
<1>3. /\ longer \in Seq(Forwards) /\ Len(longer) = Len(stream) + 1 /\ Len(stream) \in Nat
      /\ \A i \in 1 .. Len(stream) : longer[i] = stream[i]
      /\ longer[Len(stream) + 1] = f
    OBVIOUS
<1> HIDE DEF longer
<1>4. PICK w : IsReadingWalk(w, status, history, longer)
    BY <1>3, ReadingWalk
<1>5. Agree(Len(stream), v, w)
  <2>1. ASSUME NEW i \in 1 .. Len(stream), v[i - 1] = w[i - 1] PROVE v[i] = w[i]
    <3>1. i \in 1 .. Len(longer) /\ longer[i] = stream[i]
        BY <1>3
    <3> QED
        BY <1>2, <1>4, <2>1, <3>1 DEF IsReadingWalk
  <2>2. v[0] = w[0] /\ Len(stream) \in Nat
      BY <1>2, <1>3, <1>4 DEF IsReadingWalk
  <2> QED
      BY <2>1, <2>2, SameWalk
<1>6. w[Len(stream) + 1] = Filing(status, w[Len(stream)], f)
  <2>1. Len(stream) + 1 \in 1 .. Len(longer) /\ (Len(stream) + 1) - 1 = Len(stream)
      BY <1>3
  <2> QED
      BY <1>3, <1>4, <2>1 DEF IsReadingWalk
<1>7. v[Len(stream)] = w[Len(stream)] /\ v[Len(stream)] \in Seq(Request)
    BY <1>2, <1>3, <1>5 DEF Agree, IsReadingWalk
<1>8. /\ AfterReading(status, history, longer) = w[Len(stream) + 1]
      /\ AfterReading(status, history, stream) = v[Len(stream)]
    BY <1>2, <1>3, <1>4 DEF IsReadingWalk
<1> QED
    BY <1>1, <1>6, <1>7, <1>8 DEF longer

\* The first message of a stream is read first.
LEMMA ReadingFirst ==
    ASSUME NEW status, NEW history \in Seq(Request), NEW stream \in Seq(Forwards),
           stream # <<>>
    PROVE  AfterReading(status, history, stream) =
              AfterReading(status, Filing(status, history, Head(stream)), Tail(stream))
<1>1. PICK v : IsReadingWalk(v, status, history, stream)
    BY ReadingWalk
<1> DEFINE rest == Tail(stream)
           next == Filing(status, history, Head(stream))
           u == [i \in 0 .. Len(stream) - 1 |-> v[i + 1]]
<1>2. /\ rest \in Seq(Forwards) /\ Len(rest) = Len(stream) - 1 /\ Len(rest) \in Nat
      /\ \A i \in 1 .. Len(rest) : rest[i] = stream[i + 1]
      /\ Head(stream) \in Forwards /\ Head(stream) = stream[1] /\ Len(stream) \in Nat \ {0}
    OBVIOUS
<1>3. next \in Seq(Request)
    BY <1>2, FilingType
<1>4. u[0] = next /\ u[Len(rest)] = v[Len(stream)]
    BY <1>1, <1>2 DEF IsReadingWalk
<1>5. \A i \in 1 .. Len(rest) : u[i] = Filing(status, u[i - 1], rest[i])
  <2> SUFFICES ASSUME NEW i \in 1 .. Len(rest)
               PROVE  u[i] = Filing(status, u[i - 1], rest[i])
      OBVIOUS
  <2>1. /\ i + 1 \in 1 .. Len(stream) /\ (i + 1) - 1 = i
        /\ u[i] = v[i + 1] /\ u[i - 1] = v[i]
      BY <1>2
  <2> QED
      BY <1>1, <1>2, <2>1 DEF IsReadingWalk
<1> HIDE DEF rest, next, u
<1>6. PICK w : IsReadingWalk(w, status, next, rest)
    BY <1>2, <1>3, ReadingWalk
<1>7. Agree(Len(rest), u, w)
  <2>1. \A i \in 1 .. Len(rest) : u[i - 1] = w[i - 1] => u[i] = w[i]
      BY <1>5, <1>6 DEF IsReadingWalk
  <2>2. u[0] = w[0] /\ Len(rest) \in Nat
      BY <1>2, <1>4, <1>6 DEF IsReadingWalk
  <2> QED
      BY <2>1, <2>2, SameWalk
<1>8. u[Len(rest)] = w[Len(rest)]
    BY <1>2, <1>7 DEF Agree
<1>9. /\ AfterReading(status, history, stream) = v[Len(stream)]
      /\ AfterReading(status, next, rest) = w[Len(rest)]
    BY <1>1, <1>6 DEF IsReadingWalk
<1> QED
    BY <1>4, <1>8, <1>9 DEF rest, next

\* Reading only adds to a history.
LEMMA ReadingExtends ==
    ASSUME NEW status, NEW history \in Seq(Request), NEW stream \in Seq(Forwards)
    PROVE  /\ Len(history) <= Len(AfterReading(status, history, stream))
           /\ \A i \in 1 .. Len(history) :
                 AfterReading(status, history, stream)[i] = history[i]
<1>1. PICK w : IsReadingWalk(w, status, history, stream)
    BY ReadingWalk
<1> DEFINE Extends(h) == /\ Len(history) <= Len(h)
                         /\ \A i \in 1 .. Len(history) : h[i] = history[i]
           T == {k \in Nat : k <= Len(stream) => Extends(w[k])}
<1>2. w[0] = history /\ Len(stream) \in Nat
    BY <1>1 DEF IsReadingWalk
<1>3. 0 \in T
    BY <1>2
<1> HIDE DEF Extends
<1>4. ASSUME NEW k \in Nat, k + 1 <= Len(stream), Extends(w[k])
      PROVE  Extends(w[k + 1])
  <2>1. k + 1 \in 1 .. Len(stream) /\ k \in 0 .. Len(stream) /\ (k + 1) - 1 = k
      BY <1>2, <1>4
  <2>2. w[k + 1] = Filing(status, w[k], stream[k + 1]) /\ w[k] \in Seq(Request)
      BY <1>1, <2>1 DEF IsReadingWalk
  <2>3. CASE w[k + 1] = w[k]
      BY <1>4, <2>3
  <2>4. CASE \E q : w[k + 1] = Append(w[k], q)
      BY <1>4, <2>2, <2>4 DEF Extends
  <2> QED
      BY <2>2, <2>3, <2>4 DEF Filing, Record
<1>5. \A k \in T \cap Nat : k + 1 \in T
    BY <1>2, <1>4
<1>6. Nat \subseteq T
  <2> HIDE DEF T
  <2> QED
      BY <1>3, <1>5, Induction
<1>7. Extends(w[Len(stream)])
    BY <1>2, <1>6
<1> QED
    BY <1>1, <1>7 DEF Extends, IsReadingWalk

--------------------------------------------------------------------------------
\* Lists of requests and the names in them.

\* What delete_sent and check_in_sent identify a request by.
NameOf(q) == <<q.client_port, q.sent_id>>

\* The requests of a stream.
Carried(stream) == [i \in DOMAIN stream |-> stream[i].req]

\* No two requests of a list bear one name.
Distinct(list) ==
    \A i, j \in DOMAIN list : NameOf(list[i]) = NameOf(list[j]) => i = j

\* A name is in a list when one of its entries bears it.
LEMMA NamesOfList ==
    ASSUME NEW list \in Seq(Request)
    PROVE  Names(list) = {NameOf(list[i]) : i \in 1 .. Len(list)}
BY DEF Names, NameOf, ToSet

\* delete_sent and check_in_sent take two copies for one when they bear one name.
LEMMA SameSentNames ==
    ASSUME NEW q, NEW r
    PROVE  SameSent(q, r) <=> NameOf(q) = NameOf(r)
BY DEF SameSent, NameOf

\* check_in_sent looks for a name.
LEMMA InSentNames ==
    ASSUME NEW list \in Seq(Request), NEW q
    PROVE  InSent(list, q) <=> NameOf(q) \in Names(list)
<1>1. CASE InSent(list, q)
  <2>1. FirstSent(list, q) \in 1 .. Len(list) /\ SameSent(q, list[FirstSent(list, q)])
      BY <1>1, FirstSentProperty DEF InSent
  <2> QED
      BY <1>1, <2>1, NamesOfList, SameSentNames
<1>2. CASE ~InSent(list, q)
    BY <1>2, NamesOfList, SameSentNames, FirstSentProperty DEF InSent
<1> QED
    BY <1>1, <1>2

\* Append enters a name at the end.
LEMMA NamesAppend ==
    ASSUME NEW list \in Seq(Request), NEW q \in Request
    PROVE  /\ Append(list, q) \in Seq(Request)
           /\ Len(Append(list, q)) = Len(list) + 1
           /\ Names(Append(list, q)) = Names(list) \cup {NameOf(q)}
           /\ Distinct(list) /\ NameOf(q) \notin Names(list) => Distinct(Append(list, q))
<1> DEFINE longer == Append(list, q)
<1>1. /\ longer \in Seq(Request) /\ Len(longer) = Len(list) + 1 /\ Len(list) \in Nat
      /\ \A i \in 1 .. Len(list) : longer[i] = list[i]
      /\ longer[Len(list) + 1] = q
    OBVIOUS
<1> HIDE DEF longer
<1>2. 1 .. Len(longer) = (1 .. Len(list)) \cup {Len(list) + 1}
    BY <1>1
<1>3. Names(longer) = Names(list) \cup {NameOf(q)}
    BY <1>1, <1>2, NamesOfList
<1>4. ASSUME Distinct(list), NameOf(q) \notin Names(list),
             NEW i \in 1 .. Len(longer), NEW j \in 1 .. Len(longer),
             NameOf(longer[i]) = NameOf(longer[j])
      PROVE  i = j
  <2>1. \A k \in 1 .. Len(list) : NameOf(list[k]) \in Names(list)
      BY NamesOfList
  <2> QED
      BY <1>1, <1>2, <1>4, <2>1 DEF Distinct
<1> QED
    BY <1>1, <1>3, <1>4 DEF longer, Distinct

\* Tail drops the name at the front.
LEMMA NamesTail ==
    ASSUME NEW list \in Seq(Request), list # <<>>
    PROVE  /\ Tail(list) \in Seq(Request) /\ Head(list) \in Request
           /\ Len(Tail(list)) = Len(list) - 1
           /\ NameOf(Head(list)) \in Names(list)
           /\ Names(Tail(list)) \subseteq Names(list)
           /\ Distinct(list) => /\ Distinct(Tail(list))
                                /\ Names(Tail(list)) = Names(list) \ {NameOf(Head(list))}
<1> DEFINE rest == Tail(list)
<1>1. /\ rest \in Seq(Request) /\ Len(rest) = Len(list) - 1 /\ Len(list) \in Nat \ {0}
      /\ \A i \in 1 .. Len(rest) : i + 1 \in 1 .. Len(list) /\ rest[i] = list[i + 1]
      /\ Head(list) = list[1] /\ Head(list) \in Request /\ 1 \in 1 .. Len(list)
    OBVIOUS
<1> HIDE DEF rest
<1>2. NameOf(Head(list)) \in Names(list)
    BY <1>1, NamesOfList
<1>3. Names(rest) \subseteq Names(list)
    BY <1>1, NamesOfList
<1>4. ASSUME Distinct(list)
      PROVE  Distinct(rest) /\ Names(rest) = Names(list) \ {NameOf(Head(list))}
  <2>1. ASSUME NEW i \in 1 .. Len(rest), NEW j \in 1 .. Len(rest),
               NameOf(rest[i]) = NameOf(rest[j])
        PROVE  i = j
    <3>1. \A k, l \in DOMAIN list : NameOf(list[k]) = NameOf(list[l]) => k = l
        BY <1>4, Zenon DEF Distinct
    <3>2. i + 1 \in DOMAIN list /\ j + 1 \in DOMAIN list
        BY <1>1
    <3>3. rest[i] = list[i + 1] /\ rest[j] = list[j + 1]
        BY <1>1, Zenon
    <3>4. i + 1 = j + 1
        BY <2>1, <3>1, <3>2, <3>3, Zenon
    <3> QED
        BY <3>4
  <2>2. \A i \in 1 .. Len(rest) : NameOf(rest[i]) # NameOf(Head(list))
    <3> SUFFICES ASSUME NEW i \in 1 .. Len(rest), NameOf(rest[i]) = NameOf(Head(list))
                 PROVE  FALSE
        OBVIOUS
    <3>1. \A k, l \in DOMAIN list : NameOf(list[k]) = NameOf(list[l]) => k = l
        BY <1>4, Zenon DEF Distinct
    <3>2. i + 1 \in DOMAIN list /\ 1 \in DOMAIN list
        BY <1>1
    <3>3. rest[i] = list[i + 1] /\ Head(list) = list[1]
        BY <1>1, Zenon
    <3>4. i + 1 = 1
        BY <3>1, <3>2, <3>3, Zenon
    <3> QED
        BY <3>4
  <2>3. ASSUME NEW i \in 1 .. Len(list), NameOf(list[i]) # NameOf(Head(list))
        PROVE  NameOf(list[i]) \in Names(rest)
    <3>1. i # 1 /\ i - 1 \in 1 .. Len(rest) /\ (i - 1) + 1 = i
        BY <1>1, <2>3
    <3>2. rest[i - 1] = list[i]
        BY <1>1, <3>1
    <3> QED
        BY <1>1, <3>1, <3>2, NamesOfList
  <2>4. Distinct(rest)
      BY <1>1, <2>1 DEF Distinct
  <2>5. ASSUME NEW x
        PROVE  x \in Names(rest) <=> x \in Names(list) /\ x # NameOf(Head(list))
    <3>1. x \in Names(list) <=> \E i \in 1 .. Len(list) : x = NameOf(list[i])
        BY NamesOfList
    <3>2. x \in Names(rest) <=> \E i \in 1 .. Len(rest) : x = NameOf(rest[i])
        BY <1>1, NamesOfList
    <3> QED
        BY <1>3, <2>2, <2>3, <3>1, <3>2
  <2> QED
      BY <2>4, <2>5
<1> QED
    BY <1>1, <1>2, <1>3, <1>4 DEF rest

\* delete_sent erases an entry at a place of its name, if the name is listed.
LEMMA DeleteSentPlace ==
    ASSUME NEW list \in Seq(Request), NEW q
    PROVE  /\ DeleteSent(list, q) \in Seq(Request)
           /\ ~InSent(list, q) => DeleteSent(list, q) = list
           /\ InSent(list, q) =>
                LET n == FirstSent(list, q)
                IN  /\ n \in 1 .. Len(list)
                    /\ NameOf(list[n]) = NameOf(q)
                    /\ Len(DeleteSent(list, q)) = Len(list) - 1
                    /\ \A i \in 1 .. Len(list) - 1 :
                         DeleteSent(list, q)[i] = IF i < n THEN list[i] ELSE list[i + 1]
<1> DEFINE n == FirstSent(list, q)
<1>1. n \in 0 .. Len(list) /\ Len(list) \in Nat
    BY FirstSentProperty
<1>2. CASE ~InSent(list, q)
  <2>1. ~ \E i \in 1 .. Len(list) : SameSent(q, list[i])
      BY <1>2, FirstSentProperty DEF InSent
  <2> QED
      BY <1>2, <2>1 DEF DeleteSent, RemoveFirstMatch
<1>3. CASE InSent(list, q)
  <2> DEFINE front == SubSeq(list, 1, n - 1)
             back == SubSeq(list, n + 1, Len(list))
  <2>0. n \in 1 .. Len(list) /\ SameSent(q, list[n])
      BY <1>3, FirstSentProperty DEF InSent
  <2>1. DeleteSent(list, q) = front \o back
      BY <2>0 DEF DeleteSent, RemoveFirstMatch, RemoveAt, FirstSent
  <2>3. /\ front \in Seq(Request)
        /\ Len(front) = n - 1
        /\ \A i \in 1 .. n - 1 : front[i] = list[i]
      BY <1>1, <2>0
  <2>4. /\ back \in Seq(Request)
        /\ Len(back) = Len(list) - n
        /\ \A i \in 1 .. Len(list) - n : back[i] = list[n + i]
      BY <1>1, <2>0
  <2> HIDE DEF n, front, back
  <2>5. /\ front \o back \in Seq(Request)
        /\ Len(front \o back) = Len(front) + Len(back)
        /\ \A i \in 1 .. Len(front) + Len(back) :
              (front \o back)[i] =
                 IF i <= Len(front) THEN front[i] ELSE back[i - Len(front)]
      BY <2>3, <2>4, ConcatProperties
  <2>6. Len(front) + Len(back) = Len(list) - 1
      BY <1>1, <2>0, <2>3, <2>4
  <2>7. ASSUME NEW i \in 1 .. Len(list) - 1
        PROVE  (front \o back)[i] = IF i < n THEN list[i] ELSE list[i + 1]
    <3>1. CASE i < n
        BY <1>1, <2>0, <2>3, <2>5, <2>6, <3>1
    <3>2. CASE ~(i < n)
      <4>1. /\ i - (n - 1) \in 1 .. Len(list) - n
            /\ n + (i - (n - 1)) = i + 1
            /\ ~(i <= n - 1)
          BY <1>1, <2>0, <3>2
      <4> QED
          BY <2>3, <2>4, <2>5, <2>6, <3>2, <4>1
    <3> QED
        BY <3>1, <3>2
  <2>8. NameOf(list[n]) = NameOf(q)
      BY <2>0 DEF SameSent, NameOf
  <2> QED
      BY <1>3, <2>0, <2>1, <2>5, <2>6, <2>7, <2>8 DEF n
<1> QED
    BY <1>2, <1>3

\* Of a list with distinct names delete_sent removes one name and nothing else.
LEMMA NamesDelete ==
    ASSUME NEW list \in Seq(Request), NEW q
    PROVE  /\ DeleteSent(list, q) \in Seq(Request)
           /\ NameOf(q) \notin Names(list) => DeleteSent(list, q) = list
           /\ NameOf(q) \in Names(list) => Len(DeleteSent(list, q)) = Len(list) - 1
           /\ Names(DeleteSent(list, q)) \subseteq Names(list)
           /\ Distinct(list) =>
                 /\ Distinct(DeleteSent(list, q))
                 /\ Names(DeleteSent(list, q)) = Names(list) \ {NameOf(q)}
<1> DEFINE rest == DeleteSent(list, q)
           n == FirstSent(list, q)
<1>1. CASE NameOf(q) \notin Names(list)
  <2>1. rest = list
      BY <1>1, InSentNames, DeleteSentPlace
  <2> QED
      BY <1>1, <2>1
<1>2. CASE NameOf(q) \in Names(list)
  <2>1. /\ n \in 1 .. Len(list) /\ NameOf(list[n]) = NameOf(q)
        /\ rest \in Seq(Request) /\ Len(rest) = Len(list) - 1
        /\ \A i \in 1 .. Len(list) - 1 : rest[i] = IF i < n THEN list[i] ELSE list[i + 1]
      BY <1>2, InSentNames, DeleteSentPlace
  <2> HIDE DEF rest, n
  <2>2. \A i \in 1 .. Len(rest) :
           \E k \in 1 .. Len(list) : k = (IF i < n THEN i ELSE i + 1) /\ rest[i] = list[k]
    <3> SUFFICES ASSUME NEW i \in 1 .. Len(rest)
                 PROVE  \E k \in 1 .. Len(list) :
                           k = (IF i < n THEN i ELSE i + 1) /\ rest[i] = list[k]
        OBVIOUS
    <3>1. i \in 1 .. Len(list) /\ i + 1 \in 1 .. Len(list)
        BY <2>1
    <3> QED
        BY <2>1, <3>1
  <2>3. Names(rest) \subseteq Names(list)
      BY <2>1, <2>2, NamesOfList, SMTT(30)
  <2>4. ASSUME Distinct(list)
        PROVE  Distinct(rest) /\ Names(rest) = Names(list) \ {NameOf(q)}
    <3>1. ASSUME NEW i \in 1 .. Len(rest), NEW j \in 1 .. Len(rest),
                 NameOf(rest[i]) = NameOf(rest[j])
          PROVE  i = j
      <4>1. (IF i < n THEN i ELSE i + 1) = (IF j < n THEN j ELSE j + 1)
          BY <2>2, <2>4, <3>1 DEF Distinct
      <4> QED
          BY <2>1, <4>1
    <3>2. ASSUME NEW i \in 1 .. Len(rest)
          PROVE  NameOf(rest[i]) # NameOf(q)
      <4>1. PICK k \in 1 .. Len(list) :
              k = (IF i < n THEN i ELSE i + 1) /\ rest[i] = list[k]
          BY <2>2
      <4>2. k # n
          BY <2>1, <4>1
      <4> QED
          BY <2>1, <2>4, <4>1, <4>2, SMTT(30) DEF Distinct
    <3>3. ASSUME NEW k \in 1 .. Len(list), NameOf(list[k]) # NameOf(q)
          PROVE  NameOf(list[k]) \in Names(rest)
      <4>1. CASE k < n
        <5>1. k \in 1 .. Len(rest) /\ rest[k] = list[k]
            BY <2>1, <4>1
        <5> QED
            BY <2>1, <5>1, NamesOfList
      <4>2. CASE ~(k < n)
        <5>1. k # n
            BY <2>1, <3>3
        <5>2. k - 1 \in 1 .. Len(rest) /\ ~(k - 1 < n) /\ (k - 1) + 1 = k
            BY <2>1, <4>2, <5>1
        <5>3. rest[k - 1] = list[k]
            BY <2>1, <5>2
        <5> QED
            BY <2>1, <5>2, <5>3, NamesOfList
      <4> QED
          BY <4>1, <4>2
    <3>4. Distinct(rest)
        BY <2>1, <3>1 DEF Distinct
    <3>5. ASSUME NEW x
          PROVE  x \in Names(rest) <=> x \in Names(list) /\ x # NameOf(q)
      <4>1. x \in Names(list) <=> \E i \in 1 .. Len(list) : x = NameOf(list[i])
          BY NamesOfList
      <4>2. x \in Names(rest) <=> \E i \in 1 .. Len(rest) : x = NameOf(rest[i])
          BY <2>1, NamesOfList
      <4> QED
          BY <2>3, <3>2, <3>3, <4>1, <4>2
    <3> QED
        BY <3>4, <3>5
  <2> QED
      BY <1>2, <2>1, <2>3, <2>4 DEF rest
<1> QED
    BY <1>1, <1>2

\* What was just entered at the end under a new name is what delete_sent erases.
LEMMA DeleteAppended ==
    ASSUME NEW list \in Seq(Request), NEW q \in Request, NEW r,
           NameOf(q) = NameOf(r), NameOf(q) \notin Names(list)
    PROVE  DeleteSent(Append(list, q), r) = list
<1> DEFINE longer == Append(list, q)
           rest == DeleteSent(longer, r)
           n == FirstSent(longer, r)
<1>1. /\ longer \in Seq(Request) /\ Len(longer) = Len(list) + 1 /\ Len(list) \in Nat
      /\ \A i \in 1 .. Len(list) : longer[i] = list[i]
      /\ longer[Len(list) + 1] = q
      /\ NameOf(r) \in Names(longer)
    BY NamesAppend
<1> HIDE DEF longer
<1>2. /\ n \in 1 .. Len(longer) /\ NameOf(longer[n]) = NameOf(r)
      /\ rest \in Seq(Request) /\ Len(rest) = Len(longer) - 1
      /\ \A i \in 1 .. Len(longer) - 1 :
            rest[i] = IF i < n THEN longer[i] ELSE longer[i + 1]
    BY <1>1, InSentNames, DeleteSentPlace
<1> HIDE DEF rest, n
<1>3. n = Len(list) + 1
  <2>1. n \in 1 .. Len(list) => NameOf(list[n]) \in Names(list)
      BY NamesOfList
  <2> QED
      BY <1>1, <1>2, <2>1
<1>4. Len(rest) = Len(list) /\ \A i \in 1 .. Len(list) : rest[i] = list[i]
    BY <1>1, <1>2, <1>3
<1>5. rest = list
    BY <1>2, <1>4
<1> QED
    BY <1>5 DEF longer, rest

\* The requests of a stream form a list, which grows and shrinks with it.
LEMMA CarriedList ==
    ASSUME NEW stream \in Seq(Forwards)
    PROVE  /\ Carried(stream) \in Seq(Request)
           /\ Len(Carried(stream)) = Len(stream)
           /\ \A x \in Forwards : Carried(Append(stream, x)) = Append(Carried(stream), x.req)
           /\ stream # <<>> => /\ Carried(stream) # <<>>
                               /\ Head(stream) \in Forwards /\ Head(stream).req \in Request
                               /\ Head(Carried(stream)) = Head(stream).req
                               /\ Carried(Tail(stream)) = Tail(Carried(stream))
<1>0. \A x \in Forwards : x.req \in Request
    BY DEF Forwards
<1>1. \A i \in DOMAIN stream : stream[i] \in Forwards /\ stream[i].req \in Request
    BY <1>0
<1>2. /\ Carried(stream) \in Seq(Request)
      /\ Len(Carried(stream)) = Len(stream)
    BY <1>1 DEF Carried
<1>3. ASSUME NEW x \in Forwards
      PROVE  Carried(Append(stream, x)) = Append(Carried(stream), x.req)
  <2>1. x.req \in Request
      BY DEF Forwards
  <2>2. /\ Append(stream, x) \in Seq(Forwards)
        /\ Carried(Append(stream, x)) \in Seq(Request)
    <3>1. \A i \in DOMAIN Append(stream, x) : Append(stream, x)[i].req \in Request
        BY <1>0
    <3> QED
        BY <3>1 DEF Carried
  <2> QED
      BY <1>2, <2>1, <2>2 DEF Carried
<1>4. ASSUME stream # <<>>
      PROVE  /\ Carried(stream) # <<>>
             /\ Head(stream) \in Forwards /\ Head(stream).req \in Request
             /\ Head(Carried(stream)) = Head(stream).req
             /\ Carried(Tail(stream)) = Tail(Carried(stream))
  <2>1. /\ Len(stream) \in Nat \ {0} /\ Head(stream) = stream[1] /\ Tail(stream) \in Seq(Forwards)
        /\ Len(Tail(stream)) = Len(stream) - 1
        /\ \A i \in 1 .. Len(stream) - 1 : Tail(stream)[i] = stream[i + 1]
        /\ Head(stream) \in Forwards /\ DOMAIN stream = 1 .. Len(stream)
      BY <1>4
  <2>2. Carried(stream) # <<>> /\ Head(Carried(stream)) = stream[1].req
      BY <1>2, <2>1 DEF Carried
  <2>3. \A i \in DOMAIN Tail(stream) : Tail(stream)[i].req \in Request
      BY <1>0, <2>1
  <2>4. Carried(Tail(stream)) \in Seq(Request) /\ Len(Carried(Tail(stream))) = Len(stream) - 1
      BY <2>1, <2>3 DEF Carried
  <2>5. \A i \in 1 .. Len(stream) - 1 : Carried(Tail(stream))[i] = stream[i + 1].req
      BY <2>1, <2>4 DEF Carried
  <2>6. /\ Tail(Carried(stream)) \in Seq(Request)
        /\ Len(Tail(Carried(stream))) = Len(stream) - 1
        /\ \A i \in 1 .. Len(stream) - 1 : Tail(Carried(stream))[i] = Carried(stream)[i + 1]
      BY <1>2, <2>1, <2>2
  <2>7. \A i \in 1 .. Len(stream) - 1 : Carried(stream)[i + 1] = stream[i + 1].req
      BY <2>1 DEF Carried
  <2>8. Carried(Tail(stream)) = Tail(Carried(stream))
    <3> HIDE DEF Carried
    <3>1. \A i \in 1 .. Len(stream) - 1 : Carried(Tail(stream))[i] = Tail(Carried(stream))[i]
        BY <2>5, <2>6, <2>7
    <3> QED
        BY <2>4, <2>6, <3>1
  <2> QED
      BY <1>0, <2>1, <2>2, <2>8
<1> QED
    BY <1>2, <1>3, <1>4

--------------------------------------------------------------------------------
\* Every handler keeps the types.

\* The handlers of Chain keep the types, one after the other.
LEMMA RecUpdateType ==
    ASSUME NEW M, NEW P, Fits(M, P), Typed(M, P), NEW s \in Servers, RecUpdate(s), UNCHANGED clientState
    PROVE  Typed(M, P)'
<1> USE DEF Typed
<1>1. PICK m \in DOMAIN to_server : RecUpdate(s)!(m)
    BY DEF RecUpdate
<1> DEFINE r == Judged(s, m.req)
           balances == Judge(s, m.req).balances
           listed == IF Heads(s) /\ ~InSent(sent[s], m.req)
                     THEN Append(sent[s], r) ELSE sent[s]
<1>2. /\ m \in Mails /\ m.req \in Request
      /\ r \in Request
      /\ balances \in [Accounts -> Int]
    BY JudgedTypes DEF ServerTypes, Mails
<1>3. /\ listed \in Seq(Request)
      /\ DeleteSent(listed, r) \in Seq(Request)
  <2>1. listed \in Seq(Request)
      BY <1>2 DEF ServerTypes
  <2> QED
      BY <2>1, DeleteSentProperty
<1>4. /\ r.status \in Statuses /\ Outcome(r) \in Statuses
      /\ \A result \in Statuses : ReplyTo(r, result, balances) \in Reply
    BY <1>2, ReplyToType, OutcomeType DEF Request
<1> HIDE DEF r, balances, listed
<1>5. /\ req_seq' \in [Servers -> Nat]
      /\ balance_map' \in [Servers -> [Accounts -> Int]]
      /\ insuf_funds_trans' \in [Servers -> Seq(Request)]
      /\ sent' \in [Servers -> Seq(Request)]
    BY <1>1, <1>2, <1>3, SMTT(30) DEF ServerTypes, r, balances, listed
<1>6. processed_trans' \in [Servers -> Seq(Request)]
    BY <1>1, <1>2, RecordType DEF ServerTypes, r
<1>7. from_pre' \in [Servers -> Seq(M)]
  <2>1. [op |-> "FORWARD", req |-> r] \in M
      BY <1>2 DEF Fits, Forwards
  <2> QED
      BY <1>1, <2>1, PushType DEF ServerTypes, TopologyTypeOK, Forward, r
<1>8. DOMAIN to_server' \subseteq Mails
  <2>1. PICK mails \in {ShipTransfer(s, r), AckTransfer(s, r), {}} :
          to_server' = Deliver(Take(to_server, m), mails)
      BY <1>1, Zenon DEF r
  <2>2. \A x \in mails : x.to # NoServer => x \in Mails
      BY <1>2, <2>1, MailType DEF ServerTypes
  <2>3. DOMAIN Take(to_server, m) \subseteq Mails
      BY TakeProperty DEF ServerTypes
  <2> QED
      BY <2>1, <2>2, <2>3, DeliverProperty
<1>9. DOMAIN to_client' \subseteq Reply \cup P
    BY <1>1, <1>4, DeliverProperty DEF ClientTypes, r, balances
<1>10. UNCHANGED <<topology, last_received_id, from_next, clientState>>
    BY DEF RecUpdate
<1> QED
    BY <1>5, <1>6, <1>7, <1>8, <1>9, <1>10
    DEF ServerTypes, ClientTypes, TopologyTypeOK, topology, clientState, Queue

\* A query.
LEMMA RecQueryType ==
    ASSUME NEW M, NEW P, Fits(M, P), Typed(M, P), NEW s \in Servers, RecQuery(s), UNCHANGED clientState
    PROVE  Typed(M, P)'
<1> USE DEF Typed
<1>1. PICK m \in DOMAIN to_server : RecQuery(s)!(m)
    BY DEF RecQuery
<1> DEFINE r == [m.req EXCEPT !.status = IF InSent(sent[s], m.req)
                                        THEN PreSendStatus(sent[s], m.req)
                                        ELSE "Processed"]
<1>2. /\ m.req \in Request
      /\ sent[s] \in Seq(Request)
      /\ balance_map[s] \in [Accounts -> Int]
    BY DEF ServerTypes, Mails
<1>3. r \in Request /\ r.status \in Statuses
    BY <1>2, PreSendStatusType DEF Request, Statuses
<1> HIDE DEF r
<1>4. \A result \in {r.status, Outcome(r)} :
         ReplyTo(r, result, balance_map[s]) \in Reply
    BY <1>2, <1>3, ReplyToType, OutcomeType
<1>5. sent' \in [Servers -> Seq(Request)]
    BY <1>1, <1>2, <1>3, DeleteSentProperty DEF ServerTypes, r
<1>6. DOMAIN to_server' \subseteq Mails
    BY <1>1, TakeProperty DEF ServerTypes
<1>7. DOMAIN to_client' \subseteq Reply \cup P
  <2>1. PICK result \in {r.status, Outcome(r)} :
          to_client' = Deliver(to_client, {ReplyTo(r, result, balance_map[s])})
      BY <1>1, Zenon DEF r
  <2> QED
      BY <1>4, <2>1, DeliverProperty DEF ClientTypes
<1>8. UNCHANGED <<topology, req_seq, last_received_id, balance_map, processed_trans,
                  insuf_funds_trans, from_pre, from_next, clientState>>
    BY <1>1
<1> QED
    BY <1>5, <1>6, <1>7, <1>8
    DEF ServerTypes, ClientTypes, TopologyTypeOK, topology, clientState, Queue

\* A request of no type.
LEMMA RecUnknownType ==
    ASSUME NEW M, NEW P, Fits(M, P), Typed(M, P), NEW s \in Servers, RecUnknown(s), UNCHANGED clientState
    PROVE  Typed(M, P)'
<1>1. DOMAIN to_server' \subseteq DOMAIN to_server
    BY TakeProperty DEF RecUnknown
<1>2. UNCHANGED <<serverState, to_client, clientState>>
    BY DEF RecUnknown
<1> QED
    BY <1>1, <1>2 DEF Typed, ServerTypes, ClientTypes, TopologyTypeOK,
                      serverState, topology, clientState, Queue

\* A request read from the predecessor.
LEMMA RecForwardType ==
    ASSUME NEW M, NEW P, Fits(M, P), Typed(M, P), NEW s \in Servers, RecForward(s), UNCHANGED clientState
    PROVE  Typed(M, P)'
<1> USE DEF Typed
<1> DEFINE q == Head(from_pre[s]).req
           known == InSent(sent[s], q)
           tail == my_type[s] = "TAIL"
           inter == my_type[s] = "INTER"
           balances == IF q.status = "Need" /\ ~known
                       THEN UpdateBalance(Bank(s), balance_map[s], q)
                       ELSE balance_map[s]
           r == IF tail /\ known THEN [q EXCEPT !.status = PreSendStatus(sent[s], q)]
                                 ELSE q
           listed == IF (inter \/ tail) /\ ~known THEN Append(sent[s], q) ELSE sent[s]
           rest == Pop(from_pre, s)
<1>1. q \in Request /\ rest \in [Servers -> Seq(M)]
  <2>1. Head(from_pre[s]) \in M /\ rest \in [Servers -> Seq(M)]
      BY PopType DEF RecForward, ServerTypes
  <2>2. Head(from_pre[s]).op = "FORWARD"
      BY DEF RecForward
  <2> QED
      BY <2>1, <2>2 DEF Fits
<1>2. balances \in [Accounts -> Int]
    BY <1>1, UpdateBalanceType DEF ServerTypes
<1>3. r \in Request
    BY <1>1, PreSendStatusType DEF ServerTypes, Request
<1>4. listed \in Seq(Request) /\ DeleteSent(listed, r) \in Seq(Request)
  <2>1. listed \in Seq(Request)
      BY <1>1 DEF ServerTypes
  <2> QED
      BY <2>1, DeleteSentProperty
<1>5. q.req_seq \in Nat
    BY <1>1 DEF Request
<1>6. ReplyTo(r, Outcome(r), balances) \in Reply
    BY <1>2, <1>3, ReplyToType, OutcomeType
<1> HIDE DEF q, balances, r, listed, rest
<1>7. /\ last_received_id' \in [Servers -> Nat]
      /\ balance_map' \in [Servers -> [Accounts -> Int]]
    BY <1>2, <1>5 DEF RecForward, ServerTypes, q, balances
<1>8. sent' \in [Servers -> Seq(Request)]
  <2>1. PICK list \in {listed, DeleteSent(listed, r)} :
          sent' = [sent EXCEPT ![s] = list]
      BY Zenon DEF RecForward, q, r, listed
  <2> QED
      BY <1>4, <2>1 DEF ServerTypes
<1>9. /\ processed_trans' \in [Servers -> Seq(Request)]
      /\ insuf_funds_trans' \in [Servers -> Seq(Request)]
  <2>1. /\ processed_trans \in [Servers -> Seq(Request)]
        /\ insuf_funds_trans \in [Servers -> Seq(Request)]
      BY DEF ServerTypes
  <2>2. Record(processed_trans[s], q) \in Seq(Request)
      BY <1>1, <2>1, RecordType
  <2>3. \/ processed_trans' = processed_trans
        \/ processed_trans' = [processed_trans EXCEPT ![s] = Record(processed_trans[s], q)]
      BY DEF RecForward, q
  <2>4. \/ insuf_funds_trans' = insuf_funds_trans
        \/ insuf_funds_trans' = [insuf_funds_trans EXCEPT ![s] = Append(insuf_funds_trans[s], q)]
      BY DEF RecForward, q
  <2>5. Append(insuf_funds_trans[s], q) \in Seq(Request)
      BY <1>1, <2>1
  <2>6. processed_trans' \in [Servers -> Seq(Request)]
      BY <2>1, <2>2, <2>3
  <2>7. insuf_funds_trans' \in [Servers -> Seq(Request)]
      BY <2>1, <2>4, <2>5
  <2> QED
      BY <2>6, <2>7
<1>10. from_pre' \in [Servers -> Seq(M)]
  <2>1. [op |-> "FORWARD", req |-> q] \in M
      BY <1>1 DEF Fits, Forwards
  <2> QED
      BY <1>1, <2>1, PushType DEF RecForward, ServerTypes, TopologyTypeOK, Forward, q, rest
<1>11. from_next' \in [Servers -> Seq(Request)]
  <2>1. from_next' \in {from_next, AckToPre(from_next, s, r)}
      BY DEF RecForward, q, r
  <2>2. /\ pre_fd[s] \in Servers \cup {NoServer}
        /\ from_next \in [Servers -> Seq(Request)]
      BY DEF ServerTypes, TopologyTypeOK
  <2>3. Push(from_next, pre_fd[s], r) \in [Servers -> Seq(Request)]
      BY <1>3, <2>2, PushType
  <2> QED
      BY <2>1, <2>2, <2>3 DEF AckToPre
<1>12. DOMAIN to_server' \subseteq Mails
  <2>1. PICK mails \in {ShipTransfer(s, r), {}} : to_server' = Deliver(to_server, mails)
      BY Zenon DEF RecForward, q, r
  <2>2. \A x \in mails : x.to # NoServer => x \in Mails
      BY <1>3, <2>1, MailType DEF ServerTypes
  <2> QED
      BY <2>1, <2>2, DeliverProperty DEF ServerTypes
<1>13. DOMAIN to_client' \subseteq Reply \cup P
  <2>1. PICK mails \in SUBSET {ReplyTo(r, Outcome(r), balances)} :
          to_client' = Deliver(to_client, mails)
      BY DEF RecForward, q, r, balances
  <2> QED
      BY <1>6, <2>1, DeliverProperty DEF ClientTypes
<1>14. UNCHANGED <<topology, req_seq, clientState>>
    BY DEF RecForward
<1> QED
    BY <1>7, <1>8, <1>9, <1>10, <1>11, <1>12, <1>13, <1>14
    DEF ServerTypes, ClientTypes, TopologyTypeOK, topology, clientState, Queue

\* An ack read from the successor.
LEMMA RecAckType ==
    ASSUME NEW M, NEW P, Fits(M, P), Typed(M, P), NEW s \in Servers, RecAck(s), UNCHANGED clientState
    PROVE  Typed(M, P)'
<1> USE DEF Typed
<1> DEFINE q == Head(from_next[s])
           rest == Pop(from_next, s)
<1>1. q \in Request /\ rest \in [Servers -> Seq(Request)]
    BY PopType DEF RecAck, ServerTypes
<1> HIDE DEF q, rest
<1>2. sent' \in [Servers -> Seq(Request)]
    BY <1>1, DeleteSentProperty DEF RecAck, ServerTypes, q
<1>3. from_next' \in [Servers -> Seq(Request)]
  <2>1. from_next' \in {rest, AckToPre(rest, s, q)}
      BY DEF RecAck, q, rest
  <2>2. pre_fd[s] \in Servers \cup {NoServer}
      BY DEF ServerTypes, TopologyTypeOK
  <2>3. Push(rest, pre_fd[s], q) \in [Servers -> Seq(Request)]
      BY <1>1, <2>2, PushType
  <2> QED
      BY <1>1, <2>1, <2>3 DEF AckToPre
<1>4. DOMAIN to_server' \subseteq Mails
  <2>1. PICK mails \in {AckTransfer(s, q), {}} : to_server' = Deliver(to_server, mails)
      BY Zenon DEF RecAck, q
  <2>2. \A x \in mails : x.to # NoServer => x \in Mails
      BY <1>1, <2>1, MailType DEF ServerTypes
  <2> QED
      BY <2>1, <2>2, DeliverProperty DEF ServerTypes
<1>5. UNCHANGED <<topology, req_seq, last_received_id, balance_map, processed_trans,
                  insuf_funds_trans, from_pre, to_client, clientState>>
    BY DEF RecAck
<1> QED
    BY <1>2, <1>3, <1>4, <1>5
    DEF ServerTypes, ClientTypes, TopologyTypeOK, topology, clientState, Queue

\* A datagram from another bank.
LEMMA RecOtherBankType ==
    ASSUME NEW M, NEW P, Fits(M, P), Typed(M, P), NEW s \in Servers, RecOtherBank(s), UNCHANGED clientState
    PROVE  Typed(M, P)'
<1> USE DEF Typed
<1>1. PICK m \in DOMAIN to_server : RecOtherBank(s)!(m)
    BY DEF RecOtherBank
<1>2. m.req \in Request /\ balance_map[s] \in [Accounts -> Int]
    BY DEF ServerTypes, Mails
<1>3. ReplyTo(m.req, Outcome(m.req), balance_map[s]) \in Reply
    BY <1>2, ReplyToType, OutcomeType
<1>4. sent' \in [Servers -> Seq(Request)]
    BY <1>1, <1>2, DeleteSentProperty DEF ServerTypes
<1>5. from_next' \in [Servers -> Seq(Request)]
    BY <1>1, <1>2, PushType DEF ServerTypes, TopologyTypeOK, AckToPre
<1>6. DOMAIN to_server' \subseteq Mails
    BY <1>1, TakeProperty DEF ServerTypes
<1>7. DOMAIN to_client' \subseteq Reply \cup P
    BY <1>1, <1>3, DeliverProperty DEF ClientTypes
<1>8. UNCHANGED <<topology, req_seq, last_received_id, balance_map, processed_trans,
                  insuf_funds_trans, from_pre, clientState>>
    BY <1>1
<1> QED
    BY <1>4, <1>5, <1>6, <1>7, <1>8
    DEF ServerTypes, ClientTypes, TopologyTypeOK, topology, clientState, Queue

--------------------------------------------------------------------------------
\* Every step of a client keeps the types.

\* A request of a client's queue, sent to the port chosen for it, is mail.
LEMMA SendToType ==
    ASSUME NEW M, NEW P, Fits(M, P), Typed(M, P), NEW c \in Clients, NEW q \in Request
    PROVE  DOMAIN SendTo(PortFor(c, q), q) \subseteq Mails
<1>1. PortFor(c, q) \in Servers \cup {NoServer}
    BY DEF PortFor, Typed, ClientTypes
<1>2. Mail("REQUEST", PortFor(c, q), q).to # NoServer =>
         Mail("REQUEST", PortFor(c, q), q) \in Mails
    BY <1>1 DEF Mail, Mails
<1> QED
    BY <1>2, DeliverProperty DEF SendTo, Typed, ServerTypes

\* send_request takes one request from the queue, or none.
LEMMA SendRequestType ==
    ASSUME NEW M, NEW P, Fits(M, P), Typed(M, P), NEW c \in Clients, NEW received, SendRequest(c, received)
    PROVE  /\ next_req' \in [Clients -> Nat]
           /\ \A d \in Clients : next_req'[d] <= Len(Queue(d))
           /\ DOMAIN to_server' \subseteq Mails
<1>0. /\ next_req \in [Clients -> Nat]
      /\ \A d \in Clients : next_req[d] <= Len(Queue(d))
      /\ DOMAIN to_server \subseteq Mails
      /\ \A d \in Clients : Queue(d) \in Seq(Request)
    BY WorkloadAssumption DEF Typed, ClientTypes, ServerTypes, Queue
<1>1. CASE next_req[c] < Len(Queue(c)) /\ received = next_req[c]
  <2> DEFINE q == Queue(c)[next_req[c] + 1]
  <2>1. q \in Request
      BY <1>0, <1>1
  <2>2. /\ next_req' = [next_req EXCEPT ![c] = next_req[c] + 1]
        /\ to_server' = SendTo(PortFor(c, q), q)
      BY <1>1 DEF SendRequest
  <2>3. \A d \in Clients : Len(Queue(d)) \in Nat
      BY <1>0
  <2>4. /\ next_req' \in [Clients -> Nat]
        /\ \A d \in Clients : next_req'[d] <= Len(Queue(d))
      BY <1>0, <1>1, <2>2, <2>3
  <2> QED
      BY <2>1, <2>2, <2>4, SendToType
<1>2. CASE ~ (next_req[c] < Len(Queue(c)) /\ received = next_req[c])
    BY <1>0, <1>2 DEF SendRequest
<1> QED
    BY <1>1, <1>2

\* A client.
LEMMA ClientStepType ==
    ASSUME NEW M, NEW P, Fits(M, P), Typed(M, P), NEW c \in Clients, ClientStep(c)
    PROVE  Typed(M, P)'
<1> USE DEF Typed
<1>1. CASE StartClient(c)
  <2>1. SendRequest(c, last_rec_id[c])
      BY <1>1 DEF StartClient
  <2>2. started' \in [Clients -> BOOLEAN]
      BY <1>1 DEF StartClient, ClientTypes
  <2>3. UNCHANGED <<serverState, to_client, head_port, tail_port, recv_table,
                    last_rec_id, my_resend_time, log>>
      BY <1>1 DEF StartClient
  <2> QED
      BY <2>1, <2>2, <2>3, SendRequestType
      DEF ServerTypes, ClientTypes, TopologyTypeOK, serverState, topology, Queue
<1>2. CASE RecvReply(c)
  <2>1. PICK m \in DOMAIN to_client : RecvReply(c)!(m)
      BY <1>2 DEF RecvReply
  <2>2. m \in Reply /\ m.sent_id \in Nat
      BY <2>1 DEF ClientTypes, Fits, Reply
  <2>3. /\ recv_table' \in [Clients -> SUBSET Nat]
        /\ last_rec_id' \in [Clients -> Nat]
        /\ log' \in [Clients -> Seq(Reply)]
      BY <2>1, <2>2 DEF ClientTypes
  <2>4. DOMAIN to_client' \subseteq Reply \cup P
      BY <2>1, TakeProperty DEF ClientTypes
  <2>5. SendRequest(c, last_rec_id[c] + 1)
      BY <2>1
  <2>6. UNCHANGED <<serverState, started, head_port, tail_port, my_resend_time>>
      BY <2>1
  <2> QED
      BY <2>3, <2>4, <2>5, <2>6, SendRequestType
      DEF ServerTypes, ClientTypes, TopologyTypeOK, serverState, topology, Queue
<1>3. CASE RecvSetHeadTail(c)
  <2>1. PICK m \in DOMAIN to_client : RecvSetHeadTail(c)!(m)
      BY <1>3 DEF RecvSetHeadTail
  <2>2. /\ m.head_port \in Servers \cup {NoServer}
        /\ m.tail_port \in Servers \cup {NoServer}
    <3>1. m \in P
        BY <2>1 DEF ClientTypes, Reply
    <3> QED
        BY <3>1 DEF Fits
  <2>3. /\ head_port' \in [Clients -> Servers \cup {NoServer}]
        /\ tail_port' \in [Clients -> Servers \cup {NoServer}]
      BY <2>1, <2>2 DEF ClientTypes
  <2>4. DOMAIN to_client' \subseteq Reply \cup P
      BY <2>1, TakeProperty DEF ClientTypes
  <2>5. UNCHANGED <<serverState, to_server, started, next_req, recv_table,
                    last_rec_id, my_resend_time, log>>
      BY <2>1
  <2> QED
      BY <2>3, <2>4, <2>5
      DEF ServerTypes, ClientTypes, TopologyTypeOK, serverState, topology, Queue
<1>4. ASSUME NEW k \in 1 .. Len(Queue(c)), CheckReceive(c, k)
      PROVE  Typed(M, P)'
  <2>1. Queue(c)[k] \in Request
      BY WorkloadAssumption DEF Queue
  <2>2. DOMAIN to_server' \subseteq Mails
    <3>1. PICK g \in Leftovers : CheckReceive(c, k)!7!(g)
        BY <1>4 DEF CheckReceive
    <3> DEFINE q == [Queue(c)[k] EXCEPT !.req_seq = 0,
                                        !.dest_bank_id = g.dest_bank_id,
                                        !.dest_account_num = g.dest_account_num,
                                        !.source_bank_id = g.source_bank_id]
    <3>2. q \in Request
        BY <2>1, ClientAssumption DEF Request
    <3>3. to_server' \in {to_server, SendTo(PortFor(c, q), q)}
        BY <3>1
    <3> QED
        BY <3>2, <3>3, SendToType DEF ServerTypes
  <2>3. DOMAIN my_resend_time' = Clients
      BY <1>4 DEF CheckReceive, ClientTypes
  <2>4. ASSUME NEW d \in Clients
        PROVE  my_resend_time'[d] \in [1 .. Len(Queue(d)) -> Nat]
    <3>1. /\ my_resend_time[d] \in [1 .. Len(Queue(d)) -> Nat]
          /\ DOMAIN my_resend_time = Clients
        BY DEF ClientTypes
    <3>2. my_resend_time'[d] =
            IF d = c THEN [my_resend_time[d] EXCEPT ![k] = my_resend_time[d][k] + 1]
                     ELSE my_resend_time[d]
        BY <1>4, <3>1 DEF CheckReceive
    <3> HIDE DEF Queue
    <3> QED
        BY <3>1, <3>2
  <2>5. UNCHANGED <<serverState, to_client, started, head_port, tail_port, next_req,
                    recv_table, last_rec_id, log>>
      BY <1>4 DEF CheckReceive
  <2> QED
      BY <2>2, <2>3, <2>4, <2>5
      DEF ServerTypes, ClientTypes, TopologyTypeOK, serverState, topology, Queue
<1> QED
    BY <1>1, <1>2, <1>3, <1>4 DEF ClientStep, RecvMsg

\* The network.
LEMMA LoseType ==
    ASSUME NEW M, NEW P, Fits(M, P), Typed(M, P), Lose
    PROVE  Typed(M, P)'
<1>1. /\ DOMAIN to_server' \subseteq DOMAIN to_server
      /\ DOMAIN to_client' \subseteq DOMAIN to_client
    BY TakeProperty DEF Lose
<1>2. UNCHANGED <<serverState, clientState>>
    BY DEF Lose
<1> QED
    BY <1>1, <1>2 DEF Typed, ServerTypes, ClientTypes, TopologyTypeOK,
                      serverState, topology, clientState, Queue

--------------------------------------------------------------------------------
\* The chains of a configuration file.

\* Every bank has a first and a last server, and neighbours are servers.
LEMMA ChainEnds ==
    /\ \A b \in Banks : FirstServer(b) \in Servers /\ LastServer(b) \in Servers
    /\ \A s \in Servers : /\ ~IsLast(s) => Next1(s) \in Servers
                          /\ ~IsFirst(s) => Prev1(s) \in Servers
                          /\ ~IsFirst(Next1(s))
                          /\ Bank(s) \in Banks
<1>1. ASSUME NEW b \in Banks
      PROVE  FirstServer(b) \in Servers /\ LastServer(b) \in Servers
  <2>1. ChainLength[b] \in Nat \ {0}
      BY ChainLengthAssumption
  <2>2. 1 \in 1 .. ChainLength[b] /\ ChainLength[b] \in 1 .. ChainLength[b]
      BY <2>1
  <2> QED
      BY <2>2 DEF FirstServer, LastServer, Servers
<1>2. ASSUME NEW s \in Servers
      PROVE  /\ ~IsLast(s) => Next1(s) \in Servers
             /\ ~IsFirst(s) => Prev1(s) \in Servers
             /\ ~IsFirst(Next1(s))
             /\ Bank(s) \in Banks
  <2>0. PICK b \in Banks : s \in {<<b, i>> : i \in 1 .. ChainLength[b]}
      BY DEF Servers
  <2>1. PICK i \in 1 .. ChainLength[b] : s = <<b, i>>
      BY <2>0
  <2>2. ChainLength[b] \in Nat \ {0} /\ i \in Nat
      BY ChainLengthAssumption
  <2>3. /\ i # ChainLength[b] => i + 1 \in 1 .. ChainLength[b]
        /\ i # 1 => i - 1 \in 1 .. ChainLength[b]
        /\ i + 1 # 1
      BY <2>2
  <2>4. /\ ~IsLast(s) => i # ChainLength[b]
        /\ ~IsFirst(s) => i # 1
      BY <2>1 DEF IsLast, IsFirst, FirstServer, LastServer, Bank
  <2>5. /\ \A j \in 1 .. ChainLength[b] : <<b, j>> \in Servers
        /\ Next1(s) = <<b, i + 1>>
        /\ Prev1(s) = <<b, i - 1>>
      BY <2>1 DEF Servers, Next1, Prev1
  <2>6. ~IsFirst(Next1(s))
      BY <2>3, <2>5 DEF IsFirst, FirstServer, Bank
  <2> QED
      BY <2>1, <2>3, <2>4, <2>5, <2>6 DEF Bank
<1> QED
    BY <1>1, <1>2

\* The chains start out well typed.
LEMMA InitType == Init => TypeOK
<1> SUFFICES ASSUME Init PROVE TypeOK
    OBVIOUS
<1>1. TopologyTypeOK
  <2>1. /\ my_type = [s \in Servers |-> Role(s)]
        /\ \A s \in Servers : Role(s) \in Roles
      BY DEF Init, ServerInit, TopologyInit, Role, Roles
  <2>2. /\ next_fd \in [Servers -> Servers \cup {NoServer}]
        /\ pre_fd \in [Servers -> Servers \cup {NoServer}]
      BY ChainEnds DEF Init, ServerInit, TopologyInit
  <2>3. /\ all_heads \in [Servers -> [Banks -> Servers]]
        /\ all_tails \in [Servers -> [Banks -> Servers]]
      BY ChainEnds DEF Init, ServerInit, TopologyInit
  <2> QED
      BY <2>1, <2>2, <2>3 DEF TopologyTypeOK
<1>2. ServerTypeOK
    BY <1>1 DEF Init, ServerInit, ServersStart, ServerTypeOK, EmptyBag, SetToBag
<1>3. DOMAIN to_client \subseteq SetHeadTails
    BY ChainEnds, BankOfAssumption
    DEF Init, ClientInit, LoginAnswer, SetHeadTails, SetToBag
<1>4. \A c \in Clients : Len(Queue(c)) \in Nat
    BY WorkloadAssumption DEF Queue
<1> HIDE DEF Queue
<1>5. ClientTypeOK
    BY <1>3, <1>4 DEF Init, ClientInit, ClientsStart, ClientTypeOK
<1> QED
    BY <1>2, <1>5 DEF TypeOK

\* The types of Chain are an instance of those the handlers keep.
LEMMA TypesOfChain ==
    /\ Fits(Forwards, SetHeadTails)
    /\ TypeOK <=> Typed(Forwards, SetHeadTails)
<1>1. Fits(Forwards, SetHeadTails)
    BY DEF Fits, Forwards, SetHeadTails
<1>2. TypeOK <=> Typed(Forwards, SetHeadTails)
    BY DEF TypeOK, Typed, ServerTypeOK, ServerTypes, ClientTypeOK, ClientTypes
<1> QED
    BY <1>1, <1>2

\* Every step keeps such types.
LEMMA TypesStep ==
    ASSUME NEW M, NEW P, Fits(M, P), Typed(M, P), [Next]_vars
    PROVE  Typed(M, P)'
<1>1. ASSUME NEW s \in Servers, ServerStep(s) PROVE Typed(M, P)'
    BY <1>1, RecUpdateType, RecQueryType, RecUnknownType, RecForwardType,
       RecAckType, RecOtherBankType
    DEF ServerStep, ReceiveStep, RecClient
<1>2. ASSUME NEW c \in Clients, ClientStep(c) PROVE Typed(M, P)'
    BY <1>2, ClientStepType
<1>3. CASE UNCHANGED vars
    BY <1>3 DEF vars, Typed, ServerTypes, ClientTypes, TopologyTypeOK,
                serverState, topology, network, clientState, Queue
<1> QED
    BY <1>1, <1>2, <1>3, LoseType DEF Next

\* Those of Chain among them.
LEMMA TypeOKStep ==
    ASSUME TypeOK, [Next]_vars
    PROVE  TypeOK'
<1>1. Typed(Forwards, SetHeadTails)'
    BY TypesOfChain, TypesStep
<1> QED
    BY <1>1 DEF TypeOK, Typed, ServerTypeOK, ServerTypes, ClientTypeOK, ClientTypes

(* The types of Server and Client hold in every state, whatever a client    *)
(* asks for, however often it resends and whatever the network loses.       *)
THEOREM TypeCorrect == Spec => []TypeOK
<1>1. Init => TypeOK
    BY InitType
<1>2. TypeOK /\ [Next]_vars => TypeOK'
    BY TypeOKStep
<1> QED
    BY <1>1, <1>2, PTL DEF Spec

================================================================================
