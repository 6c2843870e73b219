------------------------------ MODULE CopyProofs -------------------------------
(***************************************************************************)
(* What the servers of a chain promise one another where nothing is sent   *)
(* again, for every number of banks, servers, clients and requests, any    *)
(* transfers and any loss: a successor executes what its predecessor has   *)
(* executed, in its order, and the numbers on the stream have no gap.      *)
(*                                                                         *)
(* Both rest on one fact, which is not inductive by itself: a server never *)
(* takes a first copy for a resend.  The invariant (`FreshCopies`) follows *)
(* the one copy of every request: where it is under way, who has still to  *)
(* read it (`Ahead`), and that none of these has it in `sent`.             *)
(***************************************************************************)
EXTENDS HeadProofs

--------------------------------------------------------------------------------
\* Copies of requests.

\* No client sends anything again: resending is switched off, or used up.
NoResends ==
    \A c \in Clients : ~whether_resend_newhead[c] \/ resend_times[c] = 0

\* The datagrams of a kind.
MailsIn(kind, bag) == {m \in DOMAIN bag : m.op = kind}

\* No datagram of the kind is there twice.
Singly(kind, bag) == \A m \in MailsIn(kind, bag) : bag[m] = 1

\* The datagrams with a request.
LettersIn(bag) == {m \in DOMAIN bag : m.op = "REQUEST"}

\* No datagram with a request is there twice.
Single(bag) == \A m \in LettersIn(bag) : bag[m] = 1

\* The copies in the network, each with its next reader.
Posted(bag) == {<<m.req, m.to, "letter">> : m \in LettersIn(bag)}

\* The copies in the streams, each with its next reader.
Streamed(streams) ==
    UNION {{<<q, s, "stream">> : q \in ToSet(Carried(streams[s]))} : s \in Servers}

\* All copies that a server has still to read.
UnderWay == Posted(to_server) \cup Streamed(from_pre)

(* The servers that may still read a copy that s reads next: s, those behind *)
(* it, and all of the bank a transfer goes to.                               *)
Ahead(q, s) ==
    {t \in Servers :
       \/ Bank(t) = Bank(s) /\ s[2] <= t[2]
       \/ q.type = "transfer" /\ q.dest_bank_id # Bank(s) /\ Bank(t) = q.dest_bank_id}

\* Clients know the heads, and updates are sent to heads and to nobody else.
HeadsKnown ==
    /\ \A c \in Clients : head_port[c] \in {NoServer, FirstServer(BankOf[c])}
    /\ \A m \in DOMAIN to_client : m.op = "SET_HEAD_TAIL" =>
          m.head_port = FirstServer(m.bank_id)
    /\ \A m \in LettersIn(to_server) : m.req.type \in Updates => IsFirst(m.to)

\* Of every request at most one copy is under way.
OneCopy ==
    /\ \A e, f \in UnderWay : NameOf(e[1]) = NameOf(f[1]) => e = f
    /\ Single(to_server)
    /\ \A s \in Servers : Distinct(Carried(from_pre[s]))

\* The request of a name has left its client's queue.
HasLeft(name) == name[2] <= next_req[name[1]]

\* What a client has not sent yet is nowhere.
Unsent ==
    /\ \A e \in UnderWay : HasLeft(NameOf(e[1]))
    /\ \A s \in Servers : \A name \in Names(sent[s]) : HasLeft(name)

\* No copy under way has been read by a server it will come to.
NotYetRead ==
    \A e \in UnderWay : \A t \in Ahead(e[1], e[2]) : NameOf(e[1]) \notin Names(sent[t])

--------------------------------------------------------------------------------
\* The network.

\* Taking a datagram out leaves no more of a kind, and none that was there once.
LEMMA TakeMails ==
    ASSUME NEW kind, NEW bag, NEW m, Singly(kind, bag)
    PROVE  /\ Singly(kind, Take(bag, m))
           /\ MailsIn(kind, Take(bag, m)) \subseteq MailsIn(kind, bag)
           /\ m.op = kind => m \notin MailsIn(kind, Take(bag, m))
<1> DEFINE rest == Take(bag, m)
<1>1. ASSUME NEW x \in DOMAIN rest
      PROVE  /\ x \in DOMAIN bag
             /\ x # m => rest[x] = bag[x]
             /\ x = m => bag[m] - 1 > 0
    BY <1>1 DEF Take, SetToBag, (-)
<1> HIDE DEF rest
<1>2. ASSUME NEW x \in MailsIn(kind, rest)
      PROVE  x \in MailsIn(kind, bag) /\ x # m /\ rest[x] = 1
  <2>1. x \in DOMAIN rest /\ x.op = kind
      BY DEF MailsIn
  <2>2. x \in MailsIn(kind, bag) /\ bag[x] = 1
      BY <1>1, <2>1 DEF MailsIn, Singly
  <2> QED
      BY <1>1, <2>1, <2>2
<1> QED
    BY <1>2 DEF rest, Singly, MailsIn

\* Delivering adds the datagrams of a kind that are sent to somebody.
LEMMA DeliverMails ==
    ASSUME NEW kind, NEW bag, NEW mails, Singly(kind, bag),
           \A x \in mails : x.op = kind => x \notin MailsIn(kind, bag)
    PROVE  /\ Singly(kind, Deliver(bag, mails))
           /\ MailsIn(kind, Deliver(bag, mails)) =
                 MailsIn(kind, bag) \cup {x \in mails : x.op = kind /\ x.to # NoServer}
<1> DEFINE more == Deliver(bag, mails)
           S == {x \in mails : x.to # NoServer}
<1>1. /\ DOMAIN more = DOMAIN bag \cup S
      /\ \A x \in DOMAIN more :
            more[x] = (IF x \in DOMAIN bag THEN bag[x] ELSE 0) + (IF x \in S THEN 1 ELSE 0)
    BY DEF Deliver, SetToBag, (+)
<1> HIDE DEF more
<1>2. \A x \in S : x.op = kind => x \notin MailsIn(kind, bag)
    OBVIOUS
<1> HIDE DEF S
<1>3. ASSUME NEW x \in MailsIn(kind, more) PROVE more[x] = 1
  <2>1. x \in DOMAIN more /\ x.op = kind
      BY DEF MailsIn
  <2>2. CASE x \in S
    <3>1. x \notin DOMAIN bag
        BY <1>2, <2>1, <2>2 DEF MailsIn
    <3> QED
        BY <1>1, <2>1, <2>2, <3>1
  <2>3. CASE x \notin S
    <3>1. x \in DOMAIN bag /\ bag[x] = 1
        BY <1>1, <2>1, <2>3 DEF MailsIn, Singly
    <3> QED
        BY <1>1, <2>1, <2>3, <3>1
  <2> QED
      BY <2>2, <2>3
<1>4. MailsIn(kind, more) = MailsIn(kind, bag) \cup {x \in S : x.op = kind}
    BY <1>1 DEF MailsIn
<1>5. {x \in S : x.op = kind} = {x \in mails : x.op = kind /\ x.to # NoServer}
    BY DEF S
<1> QED
    BY <1>3, <1>4, <1>5 DEF more, Singly

\* The same for the datagrams with requests: taken ...
LEMMA TakeLetters ==
    ASSUME NEW bag, NEW m, Single(bag)
    PROVE  /\ Single(Take(bag, m))
           /\ LettersIn(Take(bag, m)) \subseteq LettersIn(bag)
           /\ m.op = "REQUEST" => m \notin LettersIn(Take(bag, m))
<1>1. Singly("REQUEST", bag)
    BY DEF Single, Singly, LettersIn, MailsIn
<1>2. /\ Singly("REQUEST", Take(bag, m))
      /\ MailsIn("REQUEST", Take(bag, m)) \subseteq MailsIn("REQUEST", bag)
      /\ m.op = "REQUEST" => m \notin MailsIn("REQUEST", Take(bag, m))
    BY <1>1, TakeMails
<1> QED
    BY <1>2 DEF Single, Singly, LettersIn, MailsIn

\* ... and delivered.
LEMMA DeliverLetters ==
    ASSUME NEW bag, NEW mails, Single(bag),
           \A x \in mails : x.op = "REQUEST" => x \notin LettersIn(bag)
    PROVE  /\ Single(Deliver(bag, mails))
           /\ LettersIn(Deliver(bag, mails)) =
                 LettersIn(bag) \cup {x \in mails : x.op = "REQUEST" /\ x.to # NoServer}
<1>1. /\ Singly("REQUEST", bag)
      /\ \A x \in mails : x.op = "REQUEST" => x \notin MailsIn("REQUEST", bag)
    BY DEF Single, Singly, LettersIn, MailsIn
<1>2. /\ Singly("REQUEST", Deliver(bag, mails))
      /\ MailsIn("REQUEST", Deliver(bag, mails)) = MailsIn("REQUEST", bag)
             \cup {x \in mails : x.op = "REQUEST" /\ x.to # NoServer}
    BY <1>1, DeliverMails
<1> QED
    BY <1>2 DEF Single, Singly, LettersIn, MailsIn

--------------------------------------------------------------------------------
\* The chains.

\* The topology says of a server's place what its type says, and names as its
\* neighbours the servers before and behind it.
LEMMA Places ==
    ASSUME TopologyInit, NEW s \in Servers
    PROVE  /\ Bank(s) \in Banks /\ s[2] \in Nat \ {0} /\ s = <<Bank(s), s[2]>>
           /\ s # NoServer
           /\ IsFirst(s) <=> Heads(s)
           /\ IsFirst(s) <=> s[2] = 1
           /\ IsFirst(s) <=> my_type[s] \in {"HEAD", "HEAD_TAIL"}
           /\ ~IsFirst(s) <=> my_type[s] \in {"INTER", "TAIL"}
           /\ my_type[s] \in {"HEAD", "INTER"} =>
                 /\ next_fd[s] = Next1(s) /\ Next1(s) \in Servers
                 /\ Bank(Next1(s)) = Bank(s) /\ Next1(s)[2] = s[2] + 1
                 /\ Next1(s) # s /\ Next1(s) # NoServer
                 /\ ~IsFirst(Next1(s))
           /\ my_type[s] \in {"TAIL", "HEAD_TAIL"} <=> IsLast(s)
           /\ ~IsFirst(s) =>
                 /\ pre_fd[s] = Prev1(s) /\ Prev1(s) \in Servers
                 /\ Bank(Prev1(s)) = Bank(s) /\ Prev1(s)[2] = s[2] - 1
                 /\ Prev1(s) # s /\ Prev1(s) # NoServer
                 /\ Next1(Prev1(s)) = s
           /\ \A b \in Banks : /\ all_heads[s][b] = FirstServer(b)
                               /\ all_tails[s][b] = LastServer(b)
<1>1. PICK b \in Banks : s \in {<<b, i>> : i \in 1 .. ChainLength[b]}
    BY DEF Servers
<1>2. PICK i \in 1 .. ChainLength[b] : s = <<b, i>>
    BY <1>1
<1>3. ChainLength[b] \in Nat \ {0}
    BY ChainLengthAssumption
<1>4. /\ Bank(s) = b /\ s[2] = i /\ i \in Nat \ {0} /\ s = <<Bank(s), s[2]>>
      /\ Next1(s) = <<b, i + 1>> /\ Prev1(s) = <<b, i - 1>>
      /\ IsFirst(s) <=> i = 1
      /\ s # NoServer
    BY <1>2, <1>3, NoBankAssumption
    DEF Bank, Next1, Prev1, IsFirst, FirstServer, NoServer
<1>5. /\ my_type[s] = Role(s)
      /\ next_fd[s] = IF IsLast(s) THEN NoServer ELSE Next1(s)
      /\ pre_fd[s] = IF IsFirst(s) THEN NoServer ELSE Prev1(s)
      /\ \A d \in Banks : all_heads[s][d] = FirstServer(d) /\ all_tails[s][d] = LastServer(d)
    BY DEF TopologyInit
<1>6. /\ IsFirst(s) <=> my_type[s] \in {"HEAD", "HEAD_TAIL"}
      /\ ~IsFirst(s) <=> my_type[s] \in {"INTER", "TAIL"}
      /\ IsLast(s) <=> my_type[s] \in {"TAIL", "HEAD_TAIL"}
      /\ IsFirst(s) <=> Heads(s)
      /\ my_type[s] \in {"HEAD", "INTER"} => ~IsLast(s)
    BY <1>5 DEF Role, Heads
<1>7. /\ Bank(Next1(s)) = b /\ Next1(s)[2] = i + 1 /\ Next1(s) # s /\ Next1(s) # NoServer
      /\ Bank(Prev1(s)) = b /\ Prev1(s)[2] = i - 1 /\ Prev1(s) # s /\ Prev1(s) # NoServer
      /\ Next1(Prev1(s)) = s
    BY <1>2, <1>4, NoBankAssumption DEF Bank, NoServer, Next1
<1>8. /\ ~IsLast(s) => Next1(s) \in Servers
      /\ ~IsFirst(s) => Prev1(s) \in Servers
      /\ ~IsFirst(Next1(s))
    BY ChainEnds
<1> QED
    BY <1>4, <1>5, <1>6, <1>7, <1>8

--------------------------------------------------------------------------------
\* Members of the streams and of the network.

\* A copy is in the stream that s reads.
Carries(streams, s, e) ==
    \E i \in 1 .. Len(streams[s]) : e = <<streams[s][i].req, s, "stream">>

\* A copy is in a stream exactly when it has a place there.
LEMMA StreamedMember ==
    ASSUME NEW streams \in [Servers -> Seq(Forwards)]
    PROVE  /\ \A e : e \in Streamed(streams) <=> \E s \in Servers : Carries(streams, s, e)
           /\ \A e \in Streamed(streams) : e[1] \in Request /\ e[2] \in Servers
           /\ \A s \in Servers : \A n \in Names(Carried(streams[s])) :
                 \E e \in Streamed(streams) :
                    e[2] = s /\ e[3] = "stream" /\ NameOf(e[1]) = n
<1>1. ASSUME NEW s \in Servers
      PROVE  /\ ToSet(Carried(streams[s])) = {streams[s][i].req : i \in 1 .. Len(streams[s])}
             /\ \A i \in 1 .. Len(streams[s]) : streams[s][i].req \in Request
             /\ \A n \in Names(Carried(streams[s])) :
                   \E i \in 1 .. Len(streams[s]) : n = NameOf(streams[s][i].req)
  <2>1. DOMAIN streams[s] = 1 .. Len(streams[s])
      OBVIOUS
  <2>2. \A i \in 1 .. Len(streams[s]) : streams[s][i].req \in Request
    <3>1. \A x \in Forwards : x.req \in Request
        BY DEF Forwards
    <3> QED
        BY <3>1
  <2>3. ToSet(Carried(streams[s])) = {streams[s][i].req : i \in 1 .. Len(streams[s])}
      BY <2>1, <2>2 DEF ToSet, Carried
  <2> QED
      BY <2>2, <2>3 DEF Names, NameOf
<1>2. ASSUME NEW e
      PROVE  e \in Streamed(streams) <=> \E s \in Servers : Carries(streams, s, e)
  <2> DEFINE Copies(s) == {<<q, s, "stream">> : q \in ToSet(Carried(streams[s]))}
  <2>1. \A s \in Servers : e \in Copies(s) <=> Carries(streams, s, e)
      BY <1>1 DEF Carries
  <2>2. e \in Streamed(streams) <=> \E s \in Servers : e \in Copies(s)
      BY DEF Streamed
  <2> HIDE DEF Copies
  <2> QED
      BY <2>1, <2>2
<1>3. \A e \in Streamed(streams) : e[1] \in Request /\ e[2] \in Servers
    BY <1>1, <1>2 DEF Carries
<1>4. ASSUME NEW s \in Servers, NEW n \in Names(Carried(streams[s]))
      PROVE  \E e \in Streamed(streams) :
                e[2] = s /\ e[3] = "stream" /\ NameOf(e[1]) = n
  <2>1. PICK i \in 1 .. Len(streams[s]) : n = NameOf(streams[s][i].req)
      BY <1>1
  <2>2. <<streams[s][i].req, s, "stream">> \in Streamed(streams)
      BY <1>2 DEF Carries
  <2> QED
      BY <2>1, <2>2
<1> QED
    BY <1>2, <1>3, <1>4

\* A copy is in the network exactly when a datagram holds it.
LEMMA PostedMember ==
    ASSUME NEW bag, DOMAIN bag \subseteq Mails
    PROVE  /\ \A m \in LettersIn(bag) :
                 /\ m \in DOMAIN bag /\ m.op = "REQUEST"
                 /\ m.req \in Request /\ m.to \in Servers
                 /\ m = [op |-> "REQUEST", to |-> m.to, req |-> m.req]
                 /\ <<m.req, m.to, "letter">> \in Posted(bag)
           /\ \A e \in Posted(bag) :
                 \E m \in LettersIn(bag) : e = <<m.req, m.to, "letter">>
BY DEF LettersIn, Mails, Posted

\* The copies under way are requests for servers.
LEMMA UnderWayMember ==
    ASSUME TypeOK
    PROVE  /\ \A m \in LettersIn(to_server) :
                 /\ m \in DOMAIN to_server /\ m.op = "REQUEST"
                 /\ m.req \in Request /\ m.to \in Servers
                 /\ m = [op |-> "REQUEST", to |-> m.to, req |-> m.req]
                 /\ <<m.req, m.to, "letter">> \in UnderWay
           /\ \A s \in Servers : \A i \in 1 .. Len(from_pre[s]) :
                 <<from_pre[s][i].req, s, "stream">> \in UnderWay
           /\ \A e \in UnderWay : e[1] \in Request /\ e[2] \in Servers
<1>1. /\ DOMAIN to_server \subseteq Mails
      /\ from_pre \in [Servers -> Seq(Forwards)]
    BY DEF TypeOK, ServerTypeOK
<1>2. \A e \in Posted(to_server) : e[1] \in Request /\ e[2] \in Servers
    BY <1>1, PostedMember
<1> QED
    BY <1>1, <1>2, PostedMember, StreamedMember DEF UnderWay, Carries

\* A stream has got one more message.
OneMore(longer, streams, t, x) ==
    /\ streams \in [Servers -> Seq(Forwards)]
    /\ longer = [streams EXCEPT ![t] = Append(@, x)]

\* A stream has lost its first message.
OneLess(shorter, streams, t) ==
    /\ streams \in [Servers -> Seq(Forwards)]
    /\ streams[t] # <<>>
    /\ shorter = Pop(streams, t)

\* A message sent on a stream adds its copy to those under way.
LEMMA PushStream ==
    ASSUME NEW streams, NEW t \in Servers, NEW x \in Forwards,
           NEW longer, OneMore(longer, streams, t, x)
    PROVE  /\ longer \in [Servers -> Seq(Forwards)]
           /\ Streamed(longer) = Streamed(streams) \cup {<<x.req, t, "stream">>}
           /\ /\ \A s \in Servers : Distinct(Carried(streams[s]))
              /\ NameOf(x.req) \notin Names(Carried(streams[t]))
              => \A s \in Servers : Distinct(Carried(longer[s]))
<1>1. /\ longer \in [Servers -> Seq(Forwards)]
      /\ longer[t] = Append(streams[t], x)
      /\ \A s \in Servers \ {t} : longer[s] = streams[s]
      /\ streams[t] \in Seq(Forwards)
    BY DEF OneMore
<1>2. /\ Len(longer[t]) = Len(streams[t]) + 1 /\ Len(streams[t]) \in Nat
      /\ \A i \in 1 .. Len(streams[t]) : longer[t][i] = streams[t][i]
      /\ longer[t][Len(streams[t]) + 1] = x
    BY <1>1
<1>3. 1 .. Len(longer[t]) = 1 .. Len(streams[t]) \cup {Len(streams[t]) + 1}
    BY <1>2
<1>4. ASSUME NEW e
      PROVE  e \in Streamed(longer) <=> e \in Streamed(streams) \/ e = <<x.req, t, "stream">>
  <2>1. e \in Streamed(longer) <=> \E s \in Servers : Carries(longer, s, e)
      BY <1>1, StreamedMember
  <2>2. e \in Streamed(streams) <=> \E s \in Servers : Carries(streams, s, e)
      BY StreamedMember DEF OneMore
  <2>3. Carries(longer, t, e) <=> Carries(streams, t, e) \/ e = <<x.req, t, "stream">>
      BY <1>2, <1>3 DEF Carries
  <2>4. \A s \in Servers \ {t} : Carries(longer, s, e) <=> Carries(streams, s, e)
      BY <1>1 DEF Carries
  <2> QED
      BY <2>1, <2>2, <2>3, <2>4
<1>5. ASSUME \A s \in Servers : Distinct(Carried(streams[s])),
             NameOf(x.req) \notin Names(Carried(streams[t])), NEW s \in Servers
      PROVE  Distinct(Carried(longer[s]))
  <2>1. CASE s = t
    <3>1. /\ Carried(longer[t]) = Append(Carried(streams[t]), x.req)
          /\ Carried(streams[t]) \in Seq(Request) /\ x.req \in Request
        BY <1>1, CarriedList DEF Forwards
    <3> QED
        BY <1>5, <2>1, <3>1, NamesAppend
  <2>2. CASE s # t
      BY <1>1, <1>5, <2>2
  <2> QED
      BY <2>1, <2>2
<1> QED
    BY <1>1, <1>4, <1>5

\* A message read from a stream takes its copy from those under way.
LEMMA PopStream ==
    ASSUME NEW streams, NEW t \in Servers, NEW shorter, OneLess(shorter, streams, t),
           \A s \in Servers : Distinct(Carried(streams[s]))
    PROVE  /\ shorter \in [Servers -> Seq(Forwards)]
           /\ Streamed(shorter) \subseteq
                 {e \in Streamed(streams) :
                    e[2] = t => NameOf(e[1]) # NameOf(Head(streams[t]).req)}
           /\ \A s \in Servers : Distinct(Carried(shorter[s]))
<1> DEFINE x == Head(streams[t])
<1>1. /\ shorter \in [Servers -> Seq(Forwards)]
      /\ shorter[t] = Tail(streams[t])
      /\ \A s \in Servers \ {t} : shorter[s] = streams[s]
      /\ streams[t] \in Seq(Forwards) /\ streams[t] # <<>>
      /\ streams \in [Servers -> Seq(Forwards)]
    BY DEF Pop, OneLess
<1> HIDE DEF x
<1>2. /\ Carried(streams[t]) \in Seq(Request) /\ Carried(streams[t]) # <<>>
      /\ x.req = Head(Carried(streams[t]))
      /\ Carried(shorter[t]) = Tail(Carried(streams[t]))
    BY <1>1, CarriedList DEF x
<1>3. /\ Distinct(Carried(shorter[t]))
      /\ Names(Carried(shorter[t])) = Names(Carried(streams[t])) \ {NameOf(x.req)}
    BY <1>2, NamesTail
<1>4. \A i \in 1 .. Len(shorter[t]) :
         i + 1 \in 1 .. Len(streams[t]) /\ shorter[t][i] = streams[t][i + 1]
    BY <1>1
<1>5. \A i \in 1 .. Len(shorter[t]) : NameOf(shorter[t][i].req) # NameOf(x.req)
  <2>1. Carried(shorter[t]) \in Seq(Request) /\ Len(Carried(shorter[t])) = Len(shorter[t])
      BY <1>1, CarriedList
  <2>2. \A i \in 1 .. Len(shorter[t]) : Carried(shorter[t])[i] = shorter[t][i].req
      BY <1>1 DEF Carried
  <2>3. \A i \in 1 .. Len(shorter[t]) :
           NameOf(Carried(shorter[t])[i]) \in Names(Carried(shorter[t]))
      BY <2>1, NamesOfList
  <2> QED
      BY <1>3, <2>2, <2>3
<1>6. ASSUME NEW e \in Streamed(shorter)
      PROVE  e \in Streamed(streams) /\ (e[2] = t => NameOf(e[1]) # NameOf(x.req))
  <2>1. PICK s \in Servers : Carries(shorter, s, e)
      BY <1>1, StreamedMember
  <2>2. PICK i \in 1 .. Len(shorter[s]) : e = <<shorter[s][i].req, s, "stream">>
      BY <2>1 DEF Carries
  <2>3. Carries(streams, s, e)
    <3>1. CASE s = t
        BY <1>4, <2>2, <3>1 DEF Carries
    <3>2. CASE s # t
        BY <1>1, <2>1, <3>2 DEF Carries
    <3> QED
        BY <3>1, <3>2
  <2>4. e \in Streamed(streams)
      BY <1>1, <2>3, StreamedMember
  <2> QED
      BY <1>5, <2>2, <2>4
<1> QED
    BY <1>1, <1>3, <1>6 DEF x

--------------------------------------------------------------------------------
\* How a step changes the copies under way.

\* A copy e is read: at most one copy F of the same request takes its place,
\* ahead of fewer servers, and its name enters the `sent` of its reader or none.
\* There is still one copy of every request, and it is new to those ahead of it.
LEMMA Passage ==
    ASSUME OneCopy, Unsent, NotYetRead, next_req' = next_req,
           NEW e \in UnderWay, NEW F, \A f, g \in F : f = g,
           UnderWay' \subseteq {g \in UnderWay : NameOf(g[1]) # NameOf(e[1])} \cup F,
           \A f \in F : /\ NameOf(f[1]) = NameOf(e[1])
                       /\ Ahead(f[1], f[2]) \subseteq Ahead(e[1], e[2]) \ {e[2]},
           \A t \in Servers : \/ Names(sent'[t]) \subseteq Names(sent[t])
                              \/ /\ t = e[2]
                                 /\ Names(sent'[t]) \subseteq Names(sent[t]) \cup {NameOf(e[1])}
    PROVE  /\ \A g, h \in UnderWay' : NameOf(g[1]) = NameOf(h[1]) => g = h
           /\ Unsent' /\ NotYetRead'
<1>1. \A g, h \in UnderWay' : NameOf(g[1]) = NameOf(h[1]) => g = h
    BY DEF OneCopy
<1>2. \A n : HasLeft(n)' <=> HasLeft(n)
    BY DEF HasLeft
<1>3. Unsent'
    BY <1>2 DEF Unsent
<1>4. ASSUME NEW g \in UnderWay', NEW t \in Ahead(g[1], g[2])
      PROVE  NameOf(g[1]) \notin Names(sent'[t])
  <2>0. t \in Servers
      BY DEF Ahead
  <2>1. CASE g \in F
      BY <1>4, <2>0, <2>1 DEF NotYetRead
  <2>2. CASE g \notin F
      BY <1>4, <2>0, <2>2 DEF NotYetRead
  <2> QED
      BY <2>1, <2>2
<1> QED
    BY <1>1, <1>3, <1>4 DEF NotYetRead

\* The same, where nothing is added to the copies under way and to `sent`.
LEMMA Quiet ==
    ASSUME OneCopy, Unsent, NotYetRead, next_req' = next_req,
           UnderWay' \subseteq UnderWay,
           \A t \in Servers : Names(sent'[t]) \subseteq Names(sent[t])
    PROVE  /\ \A g, h \in UnderWay' : NameOf(g[1]) = NameOf(h[1]) => g = h
           /\ Unsent' /\ NotYetRead'
<1>1. \A g, h \in UnderWay' : NameOf(g[1]) = NameOf(h[1]) => g = h
    BY DEF OneCopy
<1>2. \A n : HasLeft(n)' <=> HasLeft(n)
    BY DEF HasLeft
<1>3. Unsent'
    BY <1>2 DEF Unsent
<1>4. ASSUME NEW g \in UnderWay', NEW t \in Ahead(g[1], g[2])
      PROVE  NameOf(g[1]) \notin Names(sent'[t])
    BY <1>4 DEF NotYetRead, Ahead
<1> QED
    BY <1>1, <1>3, <1>4 DEF NotYetRead

\* The same, where a client sends a request it has not sent before.
LEMMA Leaves ==
    ASSUME TypeOK, OneCopy, Unsent, NotYetRead, NEW c \in Clients,
           next_req' = [next_req EXCEPT ![c] = @ + 1], sent' = sent, NEW f,
           UnderWay' \subseteq UnderWay \cup {f},
           NameOf(f[1]) = <<c, next_req[c] + 1>>
    PROVE  /\ ~HasLeft(NameOf(f[1]))
           /\ \A g, h \in UnderWay' : NameOf(g[1]) = NameOf(h[1]) => g = h
           /\ Unsent' /\ NotYetRead'
<1>0. next_req \in [Clients -> Nat]
    BY DEF TypeOK, ClientTypeOK
<1>1. ~HasLeft(NameOf(f[1])) /\ HasLeft(NameOf(f[1]))'
    BY <1>0 DEF HasLeft
<1>2. \A g, h \in UnderWay' : NameOf(g[1]) = NameOf(h[1]) => g = h
    BY <1>1 DEF OneCopy, Unsent
<1>3. ASSUME NEW n, n[1] \in Clients, n[2] \in Nat, HasLeft(n) PROVE HasLeft(n)'
    BY <1>0, <1>3 DEF HasLeft
<1>4. /\ \A e \in UnderWay : e[1] \in Request
      /\ \A q \in Request : NameOf(q)[1] \in Clients /\ NameOf(q)[2] \in Nat
      /\ \A s \in Servers : \A n \in Names(sent[s]) : n[1] \in Clients /\ n[2] \in Nat
  <2>1. \A q \in Request : NameOf(q)[1] \in Clients /\ NameOf(q)[2] \in Nat
      BY DEF Request, NameOf
  <2>2. ASSUME NEW s \in Servers, NEW n \in Names(sent[s])
        PROVE  n[1] \in Clients /\ n[2] \in Nat
    <3>1. sent[s] \in Seq(Request)
        BY DEF TypeOK, ServerTypeOK
    <3>2. PICK i \in 1 .. Len(sent[s]) : n = NameOf(sent[s][i])
        BY <3>1, NamesOfList
    <3> QED
        BY <2>1, <3>1, <3>2
  <2> QED
      BY <2>1, <2>2, UnderWayMember
<1>5. Unsent'
    BY <1>1, <1>3, <1>4 DEF Unsent
<1>6. ASSUME NEW g \in UnderWay', NEW t \in Ahead(g[1], g[2])
      PROVE  NameOf(g[1]) \notin Names(sent'[t])
  <2>1. t \in Servers
      BY DEF Ahead
  <2>2. CASE g \in UnderWay
      BY <1>6, <2>2 DEF NotYetRead
  <2>3. CASE g \notin UnderWay
    <3>1. g = f
        BY <2>3
    <3> QED
        BY <1>1, <2>1, <3>1 DEF Unsent
  <2> QED
      BY <2>2, <2>3
<1> QED
    BY <1>1, <1>2, <1>5, <1>6 DEF NotYetRead

\* Without resends every server reads an update once: at most one copy of a
\* request is under way, and no server ahead of it has it in `sent`.
FreshCopies ==
    /\ HeadFrame
    /\ HeadsKnown
    /\ OneCopy
    /\ Unsent
    /\ NotYetRead

\* What forward_req_to_next_server sends.
Forwarding(q) == [op |-> "FORWARD", req |-> q]

--------------------------------------------------------------------------------
\* The two handlers that take updates up, as they behave here.

\* rec_client at a head, when the update is no resend: m is the letter, r the
\* request as it is judged.
HeadHandles(s, m, r) ==
    LET judged == ProcessUpdate(Bank(s), balance_map[s],
                     CheckSameReq(processed_trans[s], insuf_funds_trans[s], m.req), m.req)
        ships == my_type[s] = "HEAD_TAIL" /\ PaysAbroad(s, r)
        settles == my_type[s] = "HEAD_TAIL" /\ ~ships /\ Receives(s, r)
    IN  /\ m.to = s /\ m.req.type \in Updates
        /\ r = [m.req EXCEPT !.status = judged.status, !.req_seq = req_seq[s] + 1]
        /\ req_seq' = [req_seq EXCEPT ![s] = @ + 1]
        /\ balance_map' = [balance_map EXCEPT ![s] = judged.balances]
        /\ processed_trans' = [processed_trans EXCEPT ![s] = Filing("Need", @, Forwarding(r))]
        /\ insuf_funds_trans' =
             [insuf_funds_trans EXCEPT ![s] = Filing("InsufficientFunds", @, Forwarding(r))]
        /\ sent' = [sent EXCEPT ![s] =
                      IF my_type[s] = "HEAD" \/ ships THEN Append(@, r) ELSE @]
        /\ from_pre' = IF my_type[s] = "HEAD"
                       THEN [from_pre EXCEPT ![Next1(s)] = Append(@, Forwarding(r))]
                       ELSE from_pre
        /\ to_server' = Deliver(Take(to_server, m),
                          CASE ships -> ShipTransfer(s, r)
                            [] settles -> AckTransfer(s, r)
                            [] OTHER -> {})
        /\ to_client' = Deliver(to_client,
             IF my_type[s] = "HEAD_TAIL" /\ ~ships /\ ~settles
             THEN {ReplyTo(r, Outcome(r), judged.balances)} ELSE {})
        /\ UNCHANGED <<last_received_id, from_next>>

\* process_forwared_request, when the update is no resend.
Relays(s, q) ==
    LET inter == my_type[s] = "INTER"
        ships == my_type[s] = "TAIL" /\ PaysAbroad(s, q)
        closes == my_type[s] = "TAIL" /\ ~ships
    IN  /\ from_pre[s] # <<>>
        /\ q = Head(from_pre[s]).req
        /\ last_received_id' = [last_received_id EXCEPT ![s] = q.req_seq]
        /\ balance_map' = [balance_map EXCEPT ![s] =
                             IF q.status = "Need" THEN UpdateBalance(Bank(s), @, q) ELSE @]
        /\ processed_trans' =
             [processed_trans EXCEPT ![s] = Filing("Need", @, Head(from_pre[s]))]
        /\ insuf_funds_trans' =
             [insuf_funds_trans EXCEPT ![s] = Filing("InsufficientFunds", @, Head(from_pre[s]))]
        /\ sent' = [sent EXCEPT ![s] = IF inter \/ ships THEN Append(@, q) ELSE @]
        /\ from_pre' = IF inter
                       THEN [Pop(from_pre, s) EXCEPT ![Next1(s)] = Append(@, Head(from_pre[s]))]
                       ELSE Pop(from_pre, s)
        /\ from_next' = IF closes THEN [from_next EXCEPT ![Prev1(s)] = Append(@, q)]
                                  ELSE from_next
        /\ to_server' = Deliver(to_server, IF ships THEN ShipTransfer(s, q) ELSE {})
        /\ to_client' = Deliver(to_client,
             IF closes /\ ~Receives(s, q)
             THEN {ReplyTo(q, Outcome(q), balance_map'[s])} ELSE {})
        /\ UNCHANGED req_seq

\* What rec_client does with an update when check_in_sent does not find it, as it
\* never does here.
LEMMA RecUpdateFresh ==
    ASSUME FreshCopies, NEW s \in Servers, RecUpdate(s)
    PROVE  \E m \in LettersIn(to_server), r \in Request :
              /\ HeadHandles(s, m, r)
              /\ IsFirst(s)
              /\ NameOf(r) = NameOf(m.req)
              /\ NameOf(r) \notin Names(sent[s])
              /\ DOMAIN to_client' \subseteq DOMAIN to_client \cup Reply
<1>1. PICK m \in DOMAIN to_server : RecUpdate(s)!(m)
    BY DEF RecUpdate
<1>2. m \in LettersIn(to_server) /\ m.req.type \in Updates /\ m.to = s
    BY <1>1 DEF LettersIn
<1>3. /\ TypeOK /\ ServerTypeOK /\ TopologyInit /\ m.req \in Request
      /\ sent[s] \in Seq(Request) /\ processed_trans[s] \in Seq(Request)
      /\ insuf_funds_trans[s] \in Seq(Request)
    BY <1>2, UnderWayMember DEF FreshCopies, HeadFrame, TypeOK, ServerTypeOK
<1>4. IsFirst(s)
    BY <1>2 DEF FreshCopies, HeadsKnown
<1>5. Heads(s) /\ my_type[s] \in {"HEAD", "HEAD_TAIL"}
    BY <1>3, <1>4, Places
<1>6. ~InSent(sent[s], m.req)
  <2>1. <<m.req, s, "letter">> \in UnderWay
      BY <1>2, <1>3, UnderWayMember
  <2>2. s \in Ahead(m.req, s)
      BY <1>3, Places DEF Ahead
  <2>3. NameOf(m.req) \notin Names(sent[s])
      BY <2>1, <2>2 DEF FreshCopies, NotYetRead
  <2> QED
      BY <1>3, <2>3, InSentNames
<1> DEFINE r == Judged(s, m.req)
           judged == Judge(s, m.req)
<1>7. /\ judged = ProcessUpdate(Bank(s), balance_map[s],
                     CheckSameReq(processed_trans[s], insuf_funds_trans[s], m.req), m.req)
      /\ r = [m.req EXCEPT !.status = judged.status, !.req_seq = req_seq[s] + 1]
    BY <1>6 DEF Judge, Judged
<1>8. r \in Request /\ NameOf(r) = NameOf(m.req) /\ r.type = m.req.type /\ r.status = judged.status
    BY <1>3, <1>7, JudgedType DEF Request, NameOf
<1>9. r.status = "InsufficientFunds" => r.type # "deposit"
  <2>1. ProcessUpdate(Bank(s), balance_map[s],
            CheckSameReq(processed_trans[s], insuf_funds_trans[s], m.req), m.req).status
               = "InsufficientFunds" => m.req.type # "deposit"
      BY <1>3, RefusalIsNewOrOld
  <2> QED
      BY <1>7, <1>8, <2>1
<1>10. /\ NameOf(r) \notin Names(sent[s])
       /\ DeleteSent(Append(sent[s], r), r) = sent[s]
    BY <1>3, <1>6, <1>8, InSentNames, DeleteAppended
<1> HIDE DEF r, judged
<1>11. /\ req_seq' = [req_seq EXCEPT ![s] = @ + 1]
       /\ balance_map' = [balance_map EXCEPT ![s] = judged.balances]
       /\ UNCHANGED <<last_received_id, from_next>>
    BY <1>1, <1>6 DEF judged
<1>12. processed_trans' = [processed_trans EXCEPT ![s] = Filing("Need", @, Forwarding(r))]
  <2>1. processed_trans' = IF r.status = "Need"
                  THEN [processed_trans EXCEPT ![s] = Record(@, r)]
                  ELSE processed_trans
      BY <1>1, <1>5, <1>6 DEF r
  <2> QED
      BY <1>3, <2>1 DEF Filing, Forwarding, ServerTypeOK
<1>13. insuf_funds_trans' =
             [insuf_funds_trans EXCEPT ![s] = Filing("InsufficientFunds", @, Forwarding(r))]
  <2>1. insuf_funds_trans' = IF r.type # "deposit" /\ r.status = "InsufficientFunds"
                  THEN [insuf_funds_trans EXCEPT ![s] = Append(@, r)]
                  ELSE insuf_funds_trans
      BY <1>1 DEF r
  <2> QED
      BY <1>3, <1>9, <2>1 DEF Filing, Forwarding, ServerTypeOK
<1> DEFINE ships == my_type[s] = "HEAD_TAIL" /\ PaysAbroad(s, r)
           settles == my_type[s] = "HEAD_TAIL" /\ ~ships /\ Receives(s, r)
<1>14. sent' = [sent EXCEPT ![s] =
                      IF my_type[s] = "HEAD" \/ ships THEN Append(@, r) ELSE @]
  <2>1. sent' = [sent EXCEPT ![s] =
           IF my_type[s] = "HEAD_TAIL" /\ ~ships THEN DeleteSent(Append(sent[s], r), r)
                                                 ELSE Append(sent[s], r)]
      BY <1>1, <1>5, <1>6 DEF r
  <2> QED
      BY <1>5, <1>10, <2>1
<1>15. from_pre' = IF my_type[s] = "HEAD"
                       THEN [from_pre EXCEPT ![Next1(s)] = Append(@, Forwarding(r))]
                       ELSE from_pre
  <2>1. from_pre' = IF my_type[s] = "HEAD" THEN Forward(from_pre, s, r) ELSE from_pre
      BY <1>1 DEF r
  <2>2. my_type[s] = "HEAD" => next_fd[s] = Next1(s) /\ Next1(s) # NoServer
      BY <1>3, Places
  <2> QED
      BY <2>1, <2>2 DEF Forward, Push, Forwarding
<1>16. to_server' = Deliver(Take(to_server, m),
                          CASE ships -> ShipTransfer(s, r)
                            [] settles -> AckTransfer(s, r)
                            [] OTHER -> {})
    BY <1>1 DEF r
<1>17. DOMAIN to_client' \subseteq DOMAIN to_client \cup Reply
  <2>1. r.status \in Statuses /\ judged.balances \in [Accounts -> Int] /\ Outcome(r) \in Statuses
      BY <1>3, <1>8, JudgedType, OutcomeType DEF Request, judged
  <2>2. /\ ReplyTo(r, r.status, judged.balances) \in Reply
        /\ ReplyTo(r, Outcome(r), judged.balances) \in Reply
      BY <1>8, <2>1, ReplyToType
  <2>3. PICK mails \in SUBSET {ReplyTo(r, r.status, judged.balances),
                               ReplyTo(r, Outcome(r), judged.balances)} :
          to_client' = Deliver(to_client, mails)
      BY <1>1 DEF r, judged
  <2> QED
      BY <2>2, <2>3, DeliverProperty
<1>18. to_client' = Deliver(to_client,
             IF my_type[s] = "HEAD_TAIL" /\ ~ships /\ ~settles
             THEN {ReplyTo(r, Outcome(r), judged.balances)} ELSE {})
    BY <1>1, <1>5 DEF r, judged
<1> QED
    BY <1>2, <1>4, <1>7, <1>8, <1>10, <1>11, <1>12, <1>13, <1>14, <1>15, <1>16, <1>17, <1>18
    DEF HeadHandles

\* What process_forwared_request does when check_in_sent does not find the update,
\* as it never does here.
LEMMA RecForwardFresh ==
    ASSUME FreshCopies, NEW s \in Servers, RecForward(s)
    PROVE  \E q \in Request :
              /\ Relays(s, q)
              /\ ~IsFirst(s)
              /\ NameOf(q) \notin Names(sent[s])
              /\ <<q, s, "stream">> \in UnderWay
              /\ DOMAIN to_client' \subseteq DOMAIN to_client \cup Reply
<1> DEFINE q == Head(from_pre[s]).req
<1>1. /\ TypeOK /\ ServerTypeOK /\ TopologyInit
      /\ sent[s] \in Seq(Request) /\ from_pre[s] \in Seq(Forwards) /\ from_pre[s] # <<>>
      /\ balance_map[s] \in [Accounts -> Int]
    BY DEF FreshCopies, HeadFrame, TypeOK, ServerTypeOK, RecForward
<1>2. /\ q \in Request /\ Head(from_pre[s]) = Forwarding(q)
      /\ 1 \in 1 .. Len(from_pre[s]) /\ from_pre[s][1].req = q
  <2>1. Head(from_pre[s]) \in Forwards /\ Head(from_pre[s]) = from_pre[s][1]
        /\ 1 \in 1 .. Len(from_pre[s])
      BY <1>1
  <2> QED
      BY <2>1 DEF Forwards, Forwarding
<1>3. <<q, s, "stream">> \in UnderWay
    BY <1>1, <1>2, UnderWayMember
<1>4. ~IsFirst(s) /\ my_type[s] \in {"INTER", "TAIL"}
    BY <1>1, Places DEF FreshCopies, HeadFrame, HeadsReadNoStream
<1>5. NameOf(q) \notin Names(sent[s])
  <2>1. s \in Ahead(q, s)
      BY <1>1, Places DEF Ahead
  <2> QED
      BY <1>3, <2>1 DEF FreshCopies, NotYetRead
<1>6. ~InSent(sent[s], q)
    BY <1>1, <1>5, InSentNames
<1>7. DeleteSent(Append(sent[s], q), q) = sent[s]
    BY <1>1, <1>2, <1>5, DeleteAppended
<1> DEFINE inter == my_type[s] = "INTER"
           ships == my_type[s] = "TAIL" /\ PaysAbroad(s, q)
           closes == my_type[s] = "TAIL" /\ ~ships
           balances == IF q.status = "Need" THEN UpdateBalance(Bank(s), balance_map[s], q)
                                            ELSE balance_map[s]
<1>8. /\ last_received_id' = [last_received_id EXCEPT ![s] = q.req_seq]
      /\ balance_map' = [balance_map EXCEPT ![s] = balances]
      /\ processed_trans' = IF q.status = "Need"
                                 THEN [processed_trans EXCEPT ![s] = Record(@, q)]
                                 ELSE processed_trans
      /\ insuf_funds_trans' = IF q.status = "InsufficientFunds"
                                   THEN [insuf_funds_trans EXCEPT ![s] = Append(@, q)]
                                   ELSE insuf_funds_trans
      /\ sent' = [sent EXCEPT ![s] = IF closes THEN DeleteSent(Append(sent[s], q), q)
                                               ELSE Append(sent[s], q)]
      /\ from_pre' = IF inter THEN Forward(Pop(from_pre, s), s, q) ELSE Pop(from_pre, s)
      /\ from_next' = IF closes THEN AckToPre(from_next, s, q) ELSE from_next
      /\ to_server' = Deliver(to_server, IF ships THEN ShipTransfer(s, q) ELSE {})
      /\ to_client' = Deliver(to_client,
            IF closes /\ ~Receives(s, q) THEN {ReplyTo(q, Outcome(q), balances)} ELSE {})
      /\ UNCHANGED req_seq
    BY <1>4, <1>6 DEF RecForward
<1>9. DOMAIN to_client' \subseteq DOMAIN to_client \cup Reply
  <2>1. balances \in [Accounts -> Int]
      BY <1>1, <1>2, UpdateBalanceType
  <2>2. ReplyTo(q, Outcome(q), balances) \in Reply
      BY <1>2, <2>1, ReplyToType, OutcomeType
  <2> QED
      BY <1>8, <2>2, DeliverProperty, SMTT(30)
<1> HIDE DEF q
<1>10. /\ processed_trans' =
             [processed_trans EXCEPT ![s] = Filing("Need", @, Head(from_pre[s]))]
       /\ insuf_funds_trans' =
             [insuf_funds_trans EXCEPT ![s] = Filing("InsufficientFunds", @, Head(from_pre[s]))]
  <2>1. /\ processed_trans \in [Servers -> Seq(Request)]
        /\ insuf_funds_trans \in [Servers -> Seq(Request)]
      BY <1>1 DEF ServerTypeOK
  <2>2. Head(from_pre[s]).req = q
      BY DEF q
  <2>3. /\ Filing("Need", processed_trans[s], Head(from_pre[s])) =
              IF q.status = "Need" THEN Record(processed_trans[s], q) ELSE processed_trans[s]
        /\ Filing("InsufficientFunds", insuf_funds_trans[s], Head(from_pre[s])) =
              IF q.status = "InsufficientFunds" THEN Append(insuf_funds_trans[s], q)
                                                ELSE insuf_funds_trans[s]
      BY <2>2 DEF Filing
  <2>4. processed_trans' =
             [processed_trans EXCEPT ![s] = Filing("Need", @, Head(from_pre[s]))]
      BY <1>8, <2>1, <2>3
  <2>5. insuf_funds_trans' =
             [insuf_funds_trans EXCEPT ![s] = Filing("InsufficientFunds", @, Head(from_pre[s]))]
      BY <1>8, <2>1, <2>3
  <2> QED
      BY <2>4, <2>5
<1>11. sent' = [sent EXCEPT ![s] = IF inter \/ ships THEN Append(@, q) ELSE @]
    BY <1>4, <1>7, <1>8
<1>12. /\ from_pre' = IF inter
                       THEN [Pop(from_pre, s) EXCEPT ![Next1(s)] = Append(@, Head(from_pre[s]))]
                       ELSE Pop(from_pre, s)
       /\ from_next' = IF closes THEN [from_next EXCEPT ![Prev1(s)] = Append(@, q)]
                                 ELSE from_next
  <2>1. inter => next_fd[s] = Next1(s) /\ Next1(s) # NoServer
      BY <1>1, Places
  <2>2. pre_fd[s] = Prev1(s) /\ Prev1(s) # NoServer
      BY <1>1, <1>4, Places
  <2> QED
      BY <1>2, <1>8, <2>1, <2>2 DEF Forward, AckToPre, Push, Forwarding
<1>13. balance_map' = [balance_map EXCEPT ![s] =
                             IF q.status = "Need" THEN UpdateBalance(Bank(s), @, q) ELSE @]
    BY <1>8
<1>14. to_client' = Deliver(to_client,
             IF closes /\ ~Receives(s, q)
             THEN {ReplyTo(q, Outcome(q), balance_map'[s])} ELSE {})
  <2>1. balance_map'[s] = balances
      BY <1>1, <1>8 DEF ServerTypeOK
  <2> QED
      BY <1>8, <2>1
<1>15. Relays(s, q)
    BY <1>1, <1>8, <1>10, <1>11, <1>12, <1>13, <1>14 DEF Relays, q
<1> QED
    BY <1>2, <1>3, <1>4, <1>5, <1>9, <1>15

--------------------------------------------------------------------------------
\* Where copies go.

\* The copy that send_transfer_dest_head makes, if the payee's bank exists.
Shipped(r) == {<<r, FirstServer(b), "letter">> : b \in Banks \cap {r.dest_bank_id}}

\* The copy of r in the next hands when s has executed it: its successor's, or
\* those of the payee's head.
Passed(s, r) ==
    IF my_type[s] \in {"HEAD", "INTER"} THEN {<<r, Next1(s), "stream">>}
    ELSE IF PaysAbroad(s, r) THEN Shipped(r) ELSE {}

\* The copies named like q have moved on to the place s passes them to.
MovesOn(s, q) ==
    UnderWay' \subseteq {g \in UnderWay : NameOf(g[1]) # NameOf(q)} \cup Passed(s, q)

\* send_transfer_dest_head adds one copy to those under way, at the head of the
\* payee's bank.
LEMMA ShipLetters ==
    ASSUME TopologyInit, NEW s \in Servers, NEW r \in Request, NEW bag, Single(bag),
           \A x \in LettersIn(bag) : NameOf(x.req) # NameOf(r)
    PROVE  LET more == Deliver(bag, ShipTransfer(s, r))
           IN  /\ Single(more)
               /\ \A x \in LettersIn(more) :
                     \/ x \in LettersIn(bag)
                     \/ /\ r.dest_bank_id \in Banks /\ x.to = FirstServer(r.dest_bank_id)
                        /\ x.req = r
               /\ Posted(more) \subseteq Posted(bag) \cup Shipped(r)
<1> DEFINE more == Deliver(bag, ShipTransfer(s, r))
           port == HeadOfBank(s, r.dest_bank_id)
           mail == Mail("REQUEST", port, r)
<1>1. /\ Single(more)
      /\ LettersIn(more) = LettersIn(bag)
            \cup {x \in ShipTransfer(s, r) : x.op = "REQUEST" /\ x.to # NoServer}
  <2>1. \A x \in ShipTransfer(s, r) : x.req = r
      BY DEF ShipTransfer, Mail
  <2> QED
      BY <2>1, DeliverLetters
<1>2. port = IF r.dest_bank_id \in Banks THEN FirstServer(r.dest_bank_id) ELSE NoServer
    BY Places DEF HeadOfBank
<1> HIDE DEF port, more
<1>3. ASSUME NEW x \in LettersIn(more), x \notin LettersIn(bag)
      PROVE  /\ r.dest_bank_id \in Banks /\ x.to = FirstServer(r.dest_bank_id)
             /\ x.req = r
    BY <1>1, <1>2, <1>3 DEF ShipTransfer, Mail, port
<1>4. \A x \in LettersIn(more) :
         \/ x \in LettersIn(bag)
         \/ /\ r.dest_bank_id \in Banks /\ x.to = FirstServer(r.dest_bank_id)
            /\ x.req = r
    BY <1>3
<1>5. Posted(more) \subseteq Posted(bag) \cup Shipped(r)
    BY <1>4 DEF Posted, Shipped
<1> QED
    BY <1>1, <1>4, <1>5 DEF more

\* Datagrams without requests add no copy.
LEMMA OtherMail ==
    ASSUME NEW bag, Single(bag), NEW mails, \A x \in mails : x.op # "REQUEST"
    PROVE  /\ Single(Deliver(bag, mails))
           /\ LettersIn(Deliver(bag, mails)) = LettersIn(bag)
           /\ Posted(Deliver(bag, mails)) = Posted(bag)
<1>1. /\ Single(Deliver(bag, mails))
      /\ LettersIn(Deliver(bag, mails)) = LettersIn(bag)
    BY DeliverLetters
<1> QED
    BY <1>1 DEF Posted

\* A copy on its way to a server's successor is ahead of the servers behind that
\* server only.
LEMMA AheadNext ==
    ASSUME TopologyInit, NEW s \in Servers, my_type[s] \in {"HEAD", "INTER"},
           NEW q, NEW r, r.type = q.type, r.dest_bank_id = q.dest_bank_id
    PROVE  Ahead(r, Next1(s)) \subseteq Ahead(q, s) \ {s}
<1>1. /\ Bank(Next1(s)) = Bank(s) /\ Next1(s)[2] = s[2] + 1
      /\ \A t \in Servers : t[2] \in Nat
    BY Places
<1> QED
    BY <1>1 DEF Ahead

\* A copy on its way to the payee's bank is ahead of that bank only.
LEMMA AheadShipped ==
    ASSUME TopologyInit, NEW s \in Servers, NEW q, NEW r, PaysAbroad(s, r),
           r.type = q.type, r.dest_bank_id = q.dest_bank_id
    PROVE  /\ \A f, g \in Shipped(r) : f = g
           /\ \A f \in Shipped(r) : f[1] = r /\ Ahead(f[1], f[2]) \subseteq Ahead(q, s) \ {s}
<1>1. \A f \in Shipped(r) : f = <<r, FirstServer(r.dest_bank_id), "letter">>
    BY DEF Shipped
<1>2. Bank(FirstServer(r.dest_bank_id)) = r.dest_bank_id
    BY DEF Bank, FirstServer
<1>3. Ahead(r, FirstServer(r.dest_bank_id)) \subseteq Ahead(q, s) \ {s}
    BY <1>2 DEF Ahead, PaysAbroad
<1> QED
    BY <1>1, <1>3

\* An entry made in `sent` adds its name, nothing else does.
LEMMA SentStep ==
    ASSUME TypeOK, NEW s \in Servers, NEW r \in Request, NEW P,
           sent' = [sent EXCEPT ![s] = IF P THEN Append(@, r) ELSE @]
    PROVE  \A t \in Servers : \/ Names(sent'[t]) \subseteq Names(sent[t])
                              \/ /\ t = s
                                 /\ Names(sent'[t]) \subseteq Names(sent[t]) \cup {NameOf(r)}
<1>1. sent \in [Servers -> Seq(Request)] /\ sent[s] \in Seq(Request)
    BY DEF TypeOK, ServerTypeOK
<1>2. Names(Append(sent[s], r)) = Names(sent[s]) \cup {NameOf(r)}
    BY <1>1, NamesAppend
<1> QED
    BY <1>1, <1>2

\* A copy that is passed on is ahead of fewer servers than before.
LEMMA PassedAhead ==
    ASSUME TopologyInit, NEW s \in Servers, NEW q, NEW r,
           r.type = q.type, r.dest_bank_id = q.dest_bank_id
    PROVE  /\ \A f, g \in Passed(s, r) : f = g
           /\ \A f \in Passed(s, r) : f[1] = r /\ Ahead(f[1], f[2]) \subseteq Ahead(q, s) \ {s}
<1>1. CASE my_type[s] \in {"HEAD", "INTER"}
  <2>1. Passed(s, r) = {<<r, Next1(s), "stream">>}
      BY <1>1 DEF Passed
  <2>2. Ahead(r, Next1(s)) \subseteq Ahead(q, s) \ {s}
      BY <1>1, AheadNext
  <2> QED
      BY <2>1, <2>2
<1>2. CASE my_type[s] \notin {"HEAD", "INTER"} /\ PaysAbroad(s, r)
  <2>1. Passed(s, r) = Shipped(r)
      BY <1>2 DEF Passed
  <2> QED
      BY <1>2, <2>1, AheadShipped
<1>3. CASE my_type[s] \notin {"HEAD", "INTER"} /\ ~PaysAbroad(s, r)
    BY <1>3 DEF Passed
<1> QED
    BY <1>1, <1>2, <1>3

\* An update that rec_client takes up at a head moves on, and leaves no copy.
LEMMA RecUpdateMoves ==
    ASSUME FreshCopies, NEW s \in Servers, RecUpdate(s), UNCHANGED clientState
    PROVE  \E m \in LettersIn(to_server), r \in Request :
              /\ HeadHandles(s, m, r)
              /\ IsFirst(s)
              /\ NameOf(r) = NameOf(m.req)
              /\ NameOf(r) \notin Names(sent[s])
              /\ <<m.req, s, "letter">> \in UnderWay
              /\ MovesOn(s, r)
              /\ Single(to_server')
              /\ \A t \in Servers : Distinct(Carried(from_pre'[t]))
              /\ HeadsKnown'
<1>0. /\ TypeOK /\ TopologyInit /\ OneCopy /\ Unsent /\ NotYetRead /\ HeadsKnown
      /\ Single(to_server) /\ from_pre \in [Servers -> Seq(Forwards)]
      /\ \A t \in Servers : Distinct(Carried(from_pre[t]))
      /\ next_req' = next_req /\ head_port' = head_port
    BY DEF FreshCopies, HeadFrame, OneCopy, TypeOK, ServerTypeOK, clientState
<1>1. PICK m \in LettersIn(to_server), r \in Request :
              /\ HeadHandles(s, m, r)
              /\ IsFirst(s)
              /\ NameOf(r) = NameOf(m.req)
              /\ NameOf(r) \notin Names(sent[s])
              /\ DOMAIN to_client' \subseteq DOMAIN to_client \cup Reply
    BY RecUpdateFresh
<1> DEFINE e == <<m.req, s, "letter">>
           rest == Take(to_server, m)
           ships == my_type[s] = "HEAD_TAIL" /\ PaysAbroad(s, r)
           settles == my_type[s] = "HEAD_TAIL" /\ ~ships /\ Receives(s, r)
<1>2. /\ m.to = s /\ m.req \in Request /\ e \in UnderWay
      /\ r.type = m.req.type /\ r.dest_bank_id = m.req.dest_bank_id
      /\ m.op = "REQUEST" /\ r.type \in Updates
    BY <1>0, <1>1, UnderWayMember DEF HeadHandles, Request
<1>3. /\ Single(rest) /\ LettersIn(rest) \subseteq LettersIn(to_server)
      /\ m \notin LettersIn(rest)
    BY <1>0, <1>2, TakeLetters
<1> HIDE DEF rest
<1>4. /\ \A x \in LettersIn(rest) : NameOf(x.req) # NameOf(r)
      /\ \A g \in Streamed(from_pre) : NameOf(g[1]) # NameOf(r)
  <2>1. ASSUME NEW x \in LettersIn(rest), NameOf(x.req) = NameOf(r) PROVE FALSE
    <3>1. /\ <<x.req, x.to, "letter">> \in UnderWay
          /\ x = [op |-> "REQUEST", to |-> x.to, req |-> x.req]
          /\ m = [op |-> "REQUEST", to |-> m.to, req |-> m.req]
        BY <1>0, <1>3, UnderWayMember
    <3>2. <<x.req, x.to, "letter">> = e
        BY <1>0, <1>1, <1>2, <2>1, <3>1 DEF OneCopy
    <3> QED
        BY <1>2, <1>3, <3>1, <3>2
  <2>2. ASSUME NEW g \in Streamed(from_pre), NameOf(g[1]) = NameOf(r) PROVE FALSE
    <3>1. g[3] = "stream"
        BY <1>0, StreamedMember DEF Carries
    <3>2. g = e
        BY <1>0, <1>1, <1>2, <2>2 DEF OneCopy, UnderWay
    <3> QED
        BY <3>1, <3>2
  <2> QED
      BY <2>1, <2>2
<1>5. Posted(rest) \cup Streamed(from_pre)
         \subseteq {g \in UnderWay : NameOf(g[1]) # NameOf(e[1])}
    BY <1>1, <1>3, <1>4 DEF Posted, UnderWay
<1>7. to_server' = Deliver(rest, CASE ships -> ShipTransfer(s, r)
                                   [] settles -> AckTransfer(s, r)
                                   [] OTHER -> {})
    BY <1>1 DEF HeadHandles, rest
<1>8. ASSUME ~ships
      PROVE  /\ Single(to_server') /\ LettersIn(to_server') = LettersIn(rest)
             /\ Posted(to_server') = Posted(rest)
  <2>1. \A x \in AckTransfer(s, r) : x.op # "REQUEST"
      BY DEF AckTransfer, Mail
  <2>2. PICK mails \in {AckTransfer(s, r), {}} : to_server' = Deliver(rest, mails)
      BY <1>7, <1>8
  <2>3. \A x \in mails : x.op # "REQUEST"
      BY <2>1, <2>2
  <2> QED
      BY <1>3, <2>2, <2>3, OtherMail
<1>9. ASSUME ships
      PROVE  /\ Single(to_server') /\ Posted(to_server') \subseteq Posted(rest) \cup Shipped(r)
             /\ \A x \in LettersIn(to_server') :
                     \/ x \in LettersIn(rest)
                     \/ /\ r.dest_bank_id \in Banks /\ x.to = FirstServer(r.dest_bank_id)
                        /\ x.req = r
  <2>1. to_server' = Deliver(rest, ShipTransfer(s, r))
      BY <1>7, <1>9
  <2> QED
      BY <1>0, <1>3, <1>4, <2>1, ShipLetters
<1>10. HeadsKnown'
  <2>1. \A x \in LettersIn(to_server') : x.req.type \in Updates => IsFirst(x.to)
    <3>1. \A x \in LettersIn(rest) : x.req.type \in Updates => IsFirst(x.to)
        BY <1>0, <1>3 DEF HeadsKnown
    <3>2. \A b \in Banks : IsFirst(FirstServer(b))
        BY DEF IsFirst, FirstServer, Bank
    <3> QED
        BY <1>8, <1>9, <3>1, <3>2
  <2>2. \A x \in DOMAIN to_client' : x.op = "SET_HEAD_TAIL" => x \in DOMAIN to_client
      BY <1>1 DEF Reply
  <2> QED
      BY <1>0, <2>1, <2>2 DEF HeadsKnown
<1>11. /\ MovesOn(s, r)
       /\ Single(to_server')
       /\ \A t \in Servers : Distinct(Carried(from_pre'[t]))
  <2>1. CASE my_type[s] = "HEAD"
    <3> DEFINE t == Next1(s)
               f == <<r, t, "stream">>
    <3>1. /\ from_pre' = [from_pre EXCEPT ![t] = Append(@, Forwarding(r))]
          /\ t \in Servers /\ Forwarding(r) \in Forwards /\ Forwarding(r).req = r
        BY <1>0, <1>1, <2>1, Places DEF HeadHandles, Forwarding, Forwards
    <3> HIDE DEF t
    <3>2. NameOf(r) \notin Names(Carried(from_pre[t]))
      <4>1. \A u \in Servers : \A n \in Names(Carried(from_pre[u])) :
               \E g \in Streamed(from_pre) :
                  g[2] = u /\ g[3] = "stream" /\ NameOf(g[1]) = n
          BY <1>0, StreamedMember
      <4> QED
          BY <1>4, <3>1, <4>1
    <3>3. /\ Streamed(from_pre') = Streamed(from_pre) \cup {f}
          /\ \A u \in Servers : Distinct(Carried(from_pre'[u]))
      <4>1. /\ from_pre \in [Servers -> Seq(Forwards)]
            /\ \A u \in Servers : Distinct(Carried(from_pre[u]))
          BY <1>0
      <4> DEFINE x == Forwarding(r)
      <4>2. /\ x \in Forwards /\ x.req = r /\ t \in Servers
            /\ from_pre' = [from_pre EXCEPT ![t] = Append(@, x)]
            /\ NameOf(x.req) \notin Names(Carried(from_pre[t]))
            /\ OneMore(from_pre', from_pre, t, x)
          BY <3>1, <3>2, <4>1 DEF OneMore
      <4> HIDE DEF x
      <4> DEFINE longer == from_pre'
      <4>4. OneMore(longer, from_pre, t, x)
          BY <4>2
      <4> HIDE DEF longer
      <4>5. Streamed(longer) = Streamed(from_pre) \cup {<<x.req, t, "stream">>}
          BY <4>2, <4>4, PushStream
      <4>6. \A u \in Servers : Distinct(Carried(longer[u]))
          BY <4>1, <4>2, <4>4, PushStream
      <4>3. /\ Streamed(from_pre') = Streamed(from_pre) \cup {<<x.req, t, "stream">>}
            /\ \A u \in Servers : Distinct(Carried(from_pre'[u]))
          BY <4>5, <4>6 DEF longer
      <4> QED
          BY <4>2, <4>3
    <3>4. Passed(s, r) = {f}
        BY <2>1 DEF Passed, t
    <3>5. ~ships
        BY <2>1
    <3>6. UnderWay' \subseteq {g \in UnderWay : NameOf(g[1]) # NameOf(r)} \cup {f}
        BY <1>1, <1>5, <1>8, <3>3, <3>5 DEF UnderWay
    <3> HIDE DEF f, ships
    <3> QED
        BY <1>8, <3>3, <3>4, <3>5, <3>6 DEF MovesOn
  <2>2. CASE my_type[s] # "HEAD"
    <3>1. from_pre' = from_pre
        BY <1>1, <2>2 DEF HeadHandles
    <3>2. my_type[s] = "HEAD_TAIL"
        BY <1>0, <1>1, <2>2, Places
    <3>3. CASE ships
      <4>1. UnderWay' \subseteq {g \in UnderWay : NameOf(g[1]) # NameOf(r)} \cup Shipped(r)
          BY <1>1, <1>5, <1>9, <3>1, <3>3 DEF UnderWay
      <4>2. Passed(s, r) = Shipped(r)
          BY <3>2, <3>3 DEF Passed
      <4> HIDE DEF ships
      <4> QED
          BY <1>0, <1>9, <3>1, <3>3, <4>1, <4>2 DEF MovesOn
    <3>4. CASE ~ships
      <4>1. UnderWay' \subseteq {g \in UnderWay : NameOf(g[1]) # NameOf(r)}
          BY <1>1, <1>5, <1>8, <3>1, <3>4 DEF UnderWay
      <4> HIDE DEF ships
      <4> QED
          BY <1>0, <1>8, <3>1, <3>4, <4>1 DEF MovesOn
    <3> QED
        BY <3>3, <3>4
  <2> QED
      BY <2>1, <2>2
<1> QED
    BY <1>1, <1>2, <1>10, <1>11

\* rec_client of an update keeps the copies fresh.
LEMMA RecUpdateCopies ==
    ASSUME FreshCopies, NEW s \in Servers, RecUpdate(s), UNCHANGED clientState
    PROVE  OneCopy' /\ Unsent' /\ NotYetRead' /\ HeadsKnown'
<1>1. PICK m \in LettersIn(to_server), r \in Request :
              /\ HeadHandles(s, m, r)
              /\ NameOf(r) = NameOf(m.req)
              /\ <<m.req, s, "letter">> \in UnderWay
              /\ MovesOn(s, r)
              /\ Single(to_server')
              /\ \A t \in Servers : Distinct(Carried(from_pre'[t]))
              /\ HeadsKnown'
    BY RecUpdateMoves
<1> DEFINE e == <<m.req, s, "letter">>
           F == Passed(s, r)
           keeps == my_type[s] = "HEAD" \/ (my_type[s] = "HEAD_TAIL" /\ PaysAbroad(s, r))
<1>2. /\ TypeOK /\ TopologyInit /\ OneCopy /\ Unsent /\ NotYetRead /\ next_req' = next_req
      /\ r.type = m.req.type /\ r.dest_bank_id = m.req.dest_bank_id /\ e \in UnderWay
  <2>1. m.req \in Request
      BY UnderWayMember DEF FreshCopies, HeadFrame
  <2> QED
      BY <1>1, <2>1 DEF FreshCopies, HeadFrame, HeadHandles, clientState, Request
<1>3. \A t \in Servers : \/ Names(sent'[t]) \subseteq Names(sent[t])
                         \/ /\ t = e[2]
                            /\ Names(sent'[t]) \subseteq Names(sent[t]) \cup {NameOf(e[1])}
  <2>1. sent' = [sent EXCEPT ![s] = IF keeps THEN Append(@, r) ELSE @]
      BY <1>1 DEF HeadHandles
  <2> HIDE DEF keeps
  <2> QED
      BY <1>1, <1>2, <2>1, SentStep
<1>4. /\ \A f, g \in F : f = g
      /\ \A f \in F : /\ NameOf(f[1]) = NameOf(e[1])
                      /\ Ahead(f[1], f[2]) \subseteq Ahead(e[1], e[2]) \ {e[2]}
    BY <1>1, <1>2, PassedAhead
<1>5. UnderWay' \subseteq {g \in UnderWay : NameOf(g[1]) # NameOf(e[1])} \cup F
    BY <1>1 DEF MovesOn
<1> HIDE DEF e, F
<1>6. /\ \A g, h \in UnderWay' : NameOf(g[1]) = NameOf(h[1]) => g = h
      /\ Unsent' /\ NotYetRead'
    BY <1>2, <1>3, <1>4, <1>5, Passage, Zenon
<1> QED
    BY <1>1, <1>6 DEF OneCopy

--------------------------------------------------------------------------------
\* An update that is forwarded.

\* An update that process_forwared_request takes up moves on likewise.
LEMMA RecForwardMoves ==
    ASSUME FreshCopies, NEW s \in Servers, RecForward(s), UNCHANGED clientState
    PROVE  \E q \in Request :
              /\ Relays(s, q)
              /\ ~IsFirst(s)
              /\ NameOf(q) \notin Names(sent[s])
              /\ <<q, s, "stream">> \in UnderWay
              /\ MovesOn(s, q)
              /\ Single(to_server')
              /\ \A t \in Servers : Distinct(Carried(from_pre'[t]))
              /\ HeadsKnown'
<1>0. /\ TypeOK /\ TopologyInit /\ OneCopy /\ Unsent /\ NotYetRead /\ HeadsKnown
      /\ Single(to_server) /\ from_pre \in [Servers -> Seq(Forwards)]
      /\ \A t \in Servers : Distinct(Carried(from_pre[t]))
      /\ next_req' = next_req /\ head_port' = head_port
    BY DEF FreshCopies, HeadFrame, OneCopy, TypeOK, ServerTypeOK, clientState
<1>1. PICK q \in Request :
              /\ Relays(s, q)
              /\ ~IsFirst(s)
              /\ NameOf(q) \notin Names(sent[s])
              /\ <<q, s, "stream">> \in UnderWay
              /\ DOMAIN to_client' \subseteq DOMAIN to_client \cup Reply
    BY RecForwardFresh
<1> DEFINE e == <<q, s, "stream">>
           rest == Pop(from_pre, s)
           ships == my_type[s] = "TAIL" /\ PaysAbroad(s, q)
<1>2. /\ OneLess(rest, from_pre, s)
      /\ q = Head(from_pre[s]).req /\ Head(from_pre[s]) \in Forwards
    BY <1>0, <1>1 DEF Relays, OneLess
<1>3. /\ rest \in [Servers -> Seq(Forwards)]
      /\ Streamed(rest) \subseteq
            {g \in Streamed(from_pre) : g[2] = s => NameOf(g[1]) # NameOf(q)}
      /\ \A t \in Servers : Distinct(Carried(rest[t]))
  <2> HIDE DEF rest
  <2> QED
      BY <1>0, <1>2, PopStream
<1> HIDE DEF rest
<1>4. /\ \A x \in LettersIn(to_server) : NameOf(x.req) # NameOf(q)
      /\ \A g \in Streamed(rest) : NameOf(g[1]) # NameOf(q)
  <2>1. ASSUME NEW x \in LettersIn(to_server), NameOf(x.req) = NameOf(q) PROVE FALSE
    <3>1. <<x.req, x.to, "letter">> \in UnderWay
        BY <1>0, UnderWayMember
    <3>2. <<x.req, x.to, "letter">> = e
        BY <1>0, <1>1, <2>1, <3>1 DEF OneCopy
    <3> QED
        BY <3>2
  <2>2. ASSUME NEW g \in Streamed(rest), NameOf(g[1]) = NameOf(q) PROVE FALSE
    <3>1. g \in UnderWay /\ g[2] # s
        BY <1>3, <2>2 DEF UnderWay
    <3>2. g = e
        BY <1>0, <1>1, <2>2, <3>1 DEF OneCopy
    <3> QED
        BY <3>1, <3>2
  <2> QED
      BY <2>1, <2>2
<1>5. Posted(to_server) \cup Streamed(rest)
         \subseteq {g \in UnderWay : NameOf(g[1]) # NameOf(e[1])}
    BY <1>3, <1>4 DEF Posted, UnderWay
<1>7. to_server' = Deliver(to_server, IF ships THEN ShipTransfer(s, q) ELSE {})
    BY <1>1 DEF Relays
<1>8. ASSUME ~ships
      PROVE  /\ Single(to_server') /\ LettersIn(to_server') = LettersIn(to_server)
             /\ Posted(to_server') = Posted(to_server)
  <2>1. to_server' = Deliver(to_server, {})
      BY <1>7, <1>8
  <2> QED
      BY <1>0, <2>1, OtherMail
<1>9. ASSUME ships
      PROVE  /\ Single(to_server') /\ Posted(to_server') \subseteq Posted(to_server) \cup Shipped(q)
             /\ \A x \in LettersIn(to_server') :
                     \/ x \in LettersIn(to_server)
                     \/ /\ q.dest_bank_id \in Banks /\ x.to = FirstServer(q.dest_bank_id)
                        /\ x.req = q
  <2>1. to_server' = Deliver(to_server, ShipTransfer(s, q))
      BY <1>7, <1>9
  <2> QED
      BY <1>0, <1>4, <2>1, ShipLetters
<1>10. HeadsKnown'
  <2>1. \A x \in LettersIn(to_server') : x.req.type \in Updates => IsFirst(x.to)
    <3>1. \A b \in Banks : IsFirst(FirstServer(b))
        BY DEF IsFirst, FirstServer, Bank
    <3> QED
        BY <1>0, <1>8, <1>9, <3>1 DEF HeadsKnown
  <2>2. \A x \in DOMAIN to_client' : x.op = "SET_HEAD_TAIL" => x \in DOMAIN to_client
      BY <1>1 DEF Reply
  <2> QED
      BY <1>0, <2>1, <2>2 DEF HeadsKnown
<1>11. /\ MovesOn(s, q)
       /\ Single(to_server')
       /\ \A t \in Servers : Distinct(Carried(from_pre'[t]))
  <2>1. CASE my_type[s] = "INTER"
    <3> DEFINE t == Next1(s)
               f == <<q, t, "stream">>
               x == Head(from_pre[s])
    <3>1. /\ from_pre' = [rest EXCEPT ![t] = Append(@, x)]
          /\ t \in Servers /\ x \in Forwards /\ x.req = q
        BY <1>0, <1>1, <1>2, <2>1, Places DEF Relays, rest
    <3> HIDE DEF t, x
    <3>2. NameOf(x.req) \notin Names(Carried(rest[t]))
      <4>1. \A u \in Servers : \A n \in Names(Carried(rest[u])) :
               \E g \in Streamed(rest) :
                  g[2] = u /\ g[3] = "stream" /\ NameOf(g[1]) = n
          BY <1>3, StreamedMember
      <4> QED
          BY <1>4, <3>1, <4>1
    <3>3. /\ Streamed(from_pre') = Streamed(rest) \cup {f}
          /\ \A u \in Servers : Distinct(Carried(from_pre'[u]))
      <4> DEFINE longer == from_pre'
      <4>1. OneMore(longer, rest, t, x)
          BY <1>3, <3>1 DEF OneMore
      <4> HIDE DEF longer
      <4>2. Streamed(longer) = Streamed(rest) \cup {<<x.req, t, "stream">>}
          BY <3>1, <4>1, PushStream
      <4>3. \A u \in Servers : Distinct(Carried(longer[u]))
          BY <1>3, <3>1, <3>2, <4>1, PushStream
      <4> QED
          BY <3>1, <4>2, <4>3 DEF longer
    <3>4. Passed(s, q) = {f}
        BY <2>1 DEF Passed, t
    <3>5. ~ships
        BY <2>1
    <3>6. UnderWay' \subseteq {g \in UnderWay : NameOf(g[1]) # NameOf(q)} \cup {f}
        BY <1>5, <1>8, <3>3, <3>5 DEF UnderWay
    <3> HIDE DEF f, ships
    <3> QED
        BY <1>8, <3>3, <3>4, <3>5, <3>6 DEF MovesOn
  <2>2. CASE my_type[s] # "INTER"
    <3>1. from_pre' = rest
        BY <1>1, <2>2 DEF Relays, rest
    <3>2. my_type[s] = "TAIL"
        BY <1>0, <1>1, <2>2, Places
    <3>3. CASE ships
      <4>1. UnderWay' \subseteq {g \in UnderWay : NameOf(g[1]) # NameOf(q)} \cup Shipped(q)
          BY <1>5, <1>9, <3>1, <3>3 DEF UnderWay
      <4>2. Passed(s, q) = Shipped(q)
          BY <3>2, <3>3 DEF Passed
      <4> HIDE DEF ships
      <4> QED
          BY <1>3, <1>9, <3>1, <3>3, <4>1, <4>2 DEF MovesOn
    <3>4. CASE ~ships
      <4>1. UnderWay' \subseteq {g \in UnderWay : NameOf(g[1]) # NameOf(q)}
          BY <1>5, <1>8, <3>1, <3>4 DEF UnderWay
      <4> HIDE DEF ships
      <4> QED
          BY <1>3, <1>8, <3>1, <3>4, <4>1 DEF MovesOn
    <3> QED
        BY <3>3, <3>4
  <2> QED
      BY <2>1, <2>2
<1> QED
    BY <1>1, <1>10, <1>11

\* process_forwared_request keeps the copies fresh.
LEMMA RecForwardCopies ==
    ASSUME FreshCopies, NEW s \in Servers, RecForward(s), UNCHANGED clientState
    PROVE  OneCopy' /\ Unsent' /\ NotYetRead' /\ HeadsKnown'
<1>1. PICK q \in Request :
              /\ Relays(s, q)
              /\ <<q, s, "stream">> \in UnderWay
              /\ MovesOn(s, q)
              /\ Single(to_server')
              /\ \A t \in Servers : Distinct(Carried(from_pre'[t]))
              /\ HeadsKnown'
    BY RecForwardMoves
<1> DEFINE e == <<q, s, "stream">>
           F == Passed(s, q)
           keeps == my_type[s] = "INTER" \/ (my_type[s] = "TAIL" /\ PaysAbroad(s, q))
<1>2. /\ TypeOK /\ TopologyInit /\ OneCopy /\ Unsent /\ NotYetRead /\ next_req' = next_req
      /\ e \in UnderWay
    BY <1>1 DEF FreshCopies, HeadFrame, clientState
<1>3. \A t \in Servers : \/ Names(sent'[t]) \subseteq Names(sent[t])
                         \/ /\ t = e[2]
                            /\ Names(sent'[t]) \subseteq Names(sent[t]) \cup {NameOf(e[1])}
  <2>1. sent' = [sent EXCEPT ![s] = IF keeps THEN Append(@, q) ELSE @]
      BY <1>1 DEF Relays
  <2> HIDE DEF keeps
  <2> QED
      BY <1>1, <1>2, <2>1, SentStep
<1>4. /\ \A f, g \in F : f = g
      /\ \A f \in F : /\ NameOf(f[1]) = NameOf(e[1])
                      /\ Ahead(f[1], f[2]) \subseteq Ahead(e[1], e[2]) \ {e[2]}
    BY <1>1, <1>2, PassedAhead
<1>5. UnderWay' \subseteq {g \in UnderWay : NameOf(g[1]) # NameOf(e[1])} \cup F
    BY <1>1 DEF MovesOn
<1> HIDE DEF e, F
<1>6. /\ \A g, h \in UnderWay' : NameOf(g[1]) = NameOf(h[1]) => g = h
      /\ Unsent' /\ NotYetRead'
    BY <1>2, <1>3, <1>4, <1>5, Passage, Zenon
<1> QED
    BY <1>1, <1>6 DEF OneCopy

\* Steps after which fewer copies are under way and fewer names in `sent`.
LEMMA QuietCopies ==
    ASSUME FreshCopies, next_req' = next_req, from_pre' = from_pre,
           Single(to_server'), LettersIn(to_server') \subseteq LettersIn(to_server),
           \A t \in Servers : Names(sent'[t]) \subseteq Names(sent[t]),
           \A c \in Clients : head_port'[c] \in {head_port[c], FirstServer(BankOf[c])},
           DOMAIN to_client' \subseteq DOMAIN to_client \cup Reply
    PROVE  OneCopy' /\ Unsent' /\ NotYetRead' /\ HeadsKnown'
<1>1. OneCopy /\ Unsent /\ NotYetRead /\ HeadsKnown
    BY DEF FreshCopies
<1>2. UnderWay' \subseteq UnderWay
    BY DEF UnderWay, Posted
<1>3. /\ \A g, h \in UnderWay' : NameOf(g[1]) = NameOf(h[1]) => g = h
      /\ Unsent' /\ NotYetRead'
    BY <1>1, <1>2, Quiet
<1>4. HeadsKnown'
  <2>1. \A x \in DOMAIN to_client' : x.op = "SET_HEAD_TAIL" => x \in DOMAIN to_client
      BY DEF Reply
  <2> QED
      BY <1>1, <2>1 DEF HeadsKnown
<1> QED
    BY <1>1, <1>3, <1>4 DEF OneCopy

--------------------------------------------------------------------------------
\* The other steps.

\* delete_sent adds no name.
LEMMA DeletedNames ==
    ASSUME TypeOK, NEW s \in Servers, NEW q,
           sent' = [sent EXCEPT ![s] = DeleteSent(@, q)]
    PROVE  \A t \in Servers : Names(sent'[t]) \subseteq Names(sent[t])
<1>1. sent \in [Servers -> Seq(Request)] /\ sent[s] \in Seq(Request)
    BY DEF TypeOK, ServerTypeOK
<1>2. Names(DeleteSent(sent[s], q)) \subseteq Names(sent[s])
    BY <1>1, NamesDelete
<1> QED
    BY <1>1, <1>2

\* The other handlers of a server keep the copies fresh.
LEMMA OtherServerStepCopies ==
    ASSUME FreshCopies, NEW s \in Servers, UNCHANGED clientState,
           RecQuery(s) \/ RecUnknown(s) \/ RecAck(s) \/ RecOtherBank(s)
    PROVE  OneCopy' /\ Unsent' /\ NotYetRead' /\ HeadsKnown'
<1>0. /\ TypeOK /\ ServerTypeOK /\ Single(to_server)
      /\ next_req' = next_req /\ \A c \in Clients : head_port'[c] = head_port[c]
      /\ sent \in [Servers -> Seq(Request)]
    BY DEF FreshCopies, HeadFrame, OneCopy, TypeOK, ServerTypeOK, clientState
<1>1. CASE RecQuery(s)
  <2>1. PICK m \in DOMAIN to_server : RecQuery(s)!(m)
      BY <1>1 DEF RecQuery
  <2> DEFINE q == m.req
             known == InSent(sent[s], q)
             r == [q EXCEPT !.status = IF known THEN PreSendStatus(sent[s], q) ELSE "Processed"]
             alone == my_type[s] = "HEAD_TAIL"
             result == IF alone THEN Outcome(r) ELSE r.status
  <2>2. m.op = "REQUEST" /\ q \in Request
      BY <1>0, <2>1, UnderWayMember DEF LettersIn
  <2>3. /\ Single(to_server') /\ LettersIn(to_server') \subseteq LettersIn(to_server)
        /\ from_pre' = from_pre
      BY <1>0, <2>1, TakeLetters
  <2>4. \A t \in Servers : Names(sent'[t]) \subseteq Names(sent[t])
    <3>1. CASE alone
      <4>1. sent' = [sent EXCEPT ![s] = DeleteSent(@, r)]
          BY <2>1, <3>1
      <4> QED
          BY <1>0, <4>1, DeletedNames
    <3>2. CASE ~alone
      <4>1. sent' = [sent EXCEPT ![s] = @]
          BY <2>1, <3>2
      <4> QED
          BY <1>0, <4>1
    <3> QED
        BY <3>1, <3>2
  <2>5. DOMAIN to_client' \subseteq DOMAIN to_client \cup Reply
    <3>1. sent[s] \in Seq(Request) /\ balance_map[s] \in [Accounts -> Int]
        BY <1>0 DEF ServerTypeOK
    <3>2. r \in Request
        BY <2>2, <3>1, PreSendStatusType DEF Request, Statuses
    <3>3. result \in Statuses
        BY <3>2, OutcomeType DEF Request
    <3>4. ReplyTo(r, result, balance_map[s]) \in Reply
        BY <3>1, <3>2, <3>3, ReplyToType
    <3>5. to_client' = Deliver(to_client, {ReplyTo(r, result, balance_map[s])})
        BY <2>1
    <3> QED
        BY <3>4, <3>5, DeliverProperty
  <2> QED
      BY <1>0, <2>3, <2>4, <2>5, QuietCopies
<1>2. CASE RecUnknown(s)
  <2>1. PICK m \in DOMAIN to_server : to_server' = Take(to_server, m)
      BY <1>2 DEF RecUnknown
  <2>2. UNCHANGED <<serverState, to_client>>
      BY <1>2 DEF RecUnknown
  <2>3. /\ Single(to_server') /\ LettersIn(to_server') \subseteq LettersIn(to_server)
      BY <1>0, <2>1, TakeLetters
  <2> QED
      BY <1>0, <2>2, <2>3, QuietCopies DEF serverState
<1>3. CASE RecAck(s)
  <2> DEFINE q == Head(from_next[s])
  <2>1. /\ sent' = [sent EXCEPT ![s] = DeleteSent(@, q)]
        /\ to_server' \in {Deliver(to_server, AckTransfer(s, q)), Deliver(to_server, {})}
        /\ from_pre' = from_pre /\ to_client' = to_client
      BY <1>3 DEF RecAck
  <2>2. \A x \in AckTransfer(s, q) : x.op # "REQUEST"
      BY DEF AckTransfer, Mail
  <2> HIDE DEF q
  <2>3. PICK mails \in {AckTransfer(s, q), {}} : to_server' = Deliver(to_server, mails)
      BY <2>1
  <2>4. \A x \in mails : x.op # "REQUEST"
      BY <2>2, <2>3
  <2>5. Single(to_server') /\ LettersIn(to_server') = LettersIn(to_server)
      BY <1>0, <2>3, <2>4, OtherMail
  <2>6. \A t \in Servers : Names(sent'[t]) \subseteq Names(sent[t])
      BY <1>0, <2>1, DeletedNames
  <2> QED
      BY <1>0, <2>1, <2>5, <2>6, QuietCopies
<1>4. CASE RecOtherBank(s)
  <2>1. PICK m \in DOMAIN to_server : RecOtherBank(s)!(m)
      BY <1>4 DEF RecOtherBank
  <2>2. Single(to_server') /\ LettersIn(to_server') \subseteq LettersIn(to_server)
        /\ from_pre' = from_pre
      BY <1>0, <2>1, TakeLetters
  <2>3. \A t \in Servers : Names(sent'[t]) \subseteq Names(sent[t])
      BY <1>0, <2>1, DeletedNames
  <2>4. DOMAIN to_client' \subseteq DOMAIN to_client \cup Reply
    <3>1. m.req \in Request /\ balance_map[s] \in [Accounts -> Int]
        BY <1>0 DEF ServerTypeOK, Mails
    <3>2. ReplyTo(m.req, Outcome(m.req), balance_map[s]) \in Reply
        BY <3>1, ReplyToType, OutcomeType
    <3>3. to_client' = Deliver(to_client, {ReplyTo(m.req, Outcome(m.req), balance_map[s])})
        BY <2>1
    <3> QED
        BY <3>2, <3>3, DeliverProperty
  <2> QED
      BY <1>0, <2>2, <2>3, <2>4, QuietCopies
<1> QED
    BY <1>1, <1>2, <1>3, <1>4

\* A datagram lost is a copy less.
LEMMA LoseCopies ==
    ASSUME FreshCopies, Lose
    PROVE  OneCopy' /\ Unsent' /\ NotYetRead' /\ HeadsKnown'
<1>0. /\ Single(to_server)
      /\ UNCHANGED <<serverState, clientState>>
      /\ next_req' = next_req /\ \A c \in Clients : head_port'[c] = head_port[c]
      /\ from_pre' = from_pre /\ sent' = sent
    BY DEF FreshCopies, OneCopy, Lose, clientState, serverState
<1>1. Single(to_server') /\ LettersIn(to_server') \subseteq LettersIn(to_server)
  <2>1. CASE to_server' = to_server
      BY <1>0, <2>1
  <2>2. CASE to_server' # to_server
    <3>1. PICK m \in DOMAIN to_server : to_server' = Take(to_server, m)
        BY <2>2 DEF Lose
    <3> QED
        BY <1>0, <3>1, TakeLetters
  <2> QED
      BY <2>1, <2>2
<1>2. DOMAIN to_client' \subseteq DOMAIN to_client
    BY TakeProperty DEF Lose
<1> QED
    BY <1>0, <1>1, <1>2, QuietCopies

\* send_request under a name nobody has seen, or nothing.
LEMMA SendRequestCopies ==
    ASSUME FreshCopies, NEW c \in Clients, NEW received \in Nat, SendRequest(c, received),
           UNCHANGED <<serverState, head_port>>,
           DOMAIN to_client' \subseteq DOMAIN to_client \cup Reply
    PROVE  OneCopy' /\ Unsent' /\ NotYetRead' /\ HeadsKnown'
<1>0. /\ TypeOK /\ OneCopy /\ Unsent /\ NotYetRead /\ HeadsKnown
      /\ Single(to_server) /\ next_req \in [Clients -> Nat]
      /\ from_pre' = from_pre /\ sent' = sent /\ head_port' = head_port
      /\ tail_port \in [Clients -> Servers \cup {NoServer}]
    BY DEF FreshCopies, HeadFrame, OneCopy, serverState, TypeOK, ClientTypeOK
<1>1. CASE UNCHANGED <<next_req, to_server>>
    BY <1>0, <1>1, QuietCopies
<1>2. CASE ~UNCHANGED <<next_req, to_server>>
  <2> DEFINE q == Queue(c)[next_req[c] + 1]
             x == Mail("REQUEST", PortFor(c, q), q)
             f == <<q, PortFor(c, q), "letter">>
  <2>1. /\ next_req[c] < Len(Queue(c))
        /\ next_req' = [next_req EXCEPT ![c] = @ + 1]
        /\ to_server' = Deliver(to_server, {x})
      BY <1>2 DEF SendRequest, SendTo
  <2>2. q \in Request /\ NameOf(q) = <<c, next_req[c] + 1>>
    <3>1. /\ Queue(c) \in Seq(Request)
          /\ \A k \in 1 .. Len(Queue(c)) :
                Queue(c)[k].sent_id = k /\ Queue(c)[k].client_port = c
        BY WorkloadAssumption DEF Queue
    <3>2. next_req[c] + 1 \in 1 .. Len(Queue(c))
        BY <1>0, <2>1, <3>1
    <3> HIDE DEF Queue
    <3> QED
        BY <3>1, <3>2 DEF NameOf
  <2> HIDE DEF q
  <2>3. x \notin LettersIn(to_server)
    <3> SUFFICES ASSUME x \in LettersIn(to_server) PROVE FALSE
        OBVIOUS
    <3>1. f \in UnderWay
        BY <1>0, UnderWayMember DEF Mail
    <3>2. HasLeft(NameOf(q))
        BY <1>0, <3>1 DEF Unsent
    <3> QED
        BY <1>0, <2>2, <3>2 DEF HasLeft
  <2>4. /\ Single(to_server')
        /\ LettersIn(to_server') \subseteq LettersIn(to_server) \cup {x}
        /\ x \in LettersIn(to_server') \/ LettersIn(to_server') = LettersIn(to_server)
        /\ x \in LettersIn(to_server') /\ x \notin LettersIn(to_server) => x.to # NoServer
    <3>1. \A y \in {x} : y.op = "REQUEST" => y \notin LettersIn(to_server)
        BY <2>3
    <3>2. /\ Single(Deliver(to_server, {x}))
          /\ LettersIn(Deliver(to_server, {x})) =
                 LettersIn(to_server) \cup {y \in {x} : y.op = "REQUEST" /\ y.to # NoServer}
      <4> HIDE DEF x
      <4> QED
          BY <1>0, <3>1, DeliverLetters
    <3> QED
        BY <2>1, <3>2
  <2>5. UnderWay' \subseteq UnderWay \cup {f}
      BY <1>0, <2>4 DEF UnderWay, Posted, Mail
  <2>6. /\ \A g, h \in UnderWay' : NameOf(g[1]) = NameOf(h[1]) => g = h
        /\ Unsent' /\ NotYetRead'
    <3>1. NameOf(f[1]) = <<c, next_req[c] + 1>>
        BY <2>2
    <3> HIDE DEF f
    <3> QED
        BY <1>0, <2>1, <2>5, <3>1, Leaves
  <2>7. HeadsKnown'
    <3>1. q.type \in Updates => PortFor(c, q) = head_port[c]
        BY DEF PortFor, Updates
    <3>2. IsFirst(FirstServer(BankOf[c]))
        BY DEF IsFirst, FirstServer, Bank
    <3>3. ASSUME NEW y \in LettersIn(to_server'), y.req.type \in Updates PROVE IsFirst(y.to)
      <4>1. CASE y \in LettersIn(to_server)
          BY <1>0, <3>3, <4>1 DEF HeadsKnown
      <4>2. CASE y \notin LettersIn(to_server)
        <5>1. y = x /\ x.to # NoServer
            BY <2>4, <3>3, <4>2
        <5>2. x.to = head_port[c] /\ head_port[c] \in {NoServer, FirstServer(BankOf[c])}
            BY <1>0, <3>1, <3>3, <5>1 DEF Mail, HeadsKnown
        <5> QED
            BY <3>2, <5>1, <5>2
      <4> QED
          BY <4>1, <4>2
    <3>4. \A y \in DOMAIN to_client' : y.op = "SET_HEAD_TAIL" => y \in DOMAIN to_client
        BY DEF Reply
    <3> QED
        BY <1>0, <3>3, <3>4 DEF HeadsKnown
  <2> QED
      BY <1>0, <2>4, <2>6, <2>7 DEF OneCopy
<1> QED
    BY <1>1, <1>2

\* A client that sends nothing again keeps the copies fresh.
LEMMA ClientStepCopies ==
    ASSUME NoResends, FreshCopies, NEW c \in Clients, ClientStep(c)
    PROVE  OneCopy' /\ Unsent' /\ NotYetRead' /\ HeadsKnown'
<1>0. /\ TypeOK /\ Single(to_server) /\ last_rec_id[c] \in Nat
      /\ head_port \in [Clients -> Servers \cup {NoServer}]
    BY DEF FreshCopies, HeadFrame, OneCopy, TypeOK, ClientTypeOK
<1>1. CASE StartClient(c)
  <2>1. /\ SendRequest(c, last_rec_id[c]) /\ UNCHANGED <<serverState, head_port>>
        /\ to_client' = to_client
      BY <1>1 DEF StartClient
  <2> QED
      BY <1>0, <2>1, SendRequestCopies
<1>2. CASE RecvReply(c)
  <2>1. PICK m \in DOMAIN to_client : RecvReply(c)!(m)
      BY <1>2 DEF RecvReply
  <2>2. /\ SendRequest(c, last_rec_id[c] + 1) /\ UNCHANGED <<serverState, head_port>>
        /\ DOMAIN to_client' \subseteq DOMAIN to_client
      BY <2>1, TakeProperty
  <2> QED
      BY <1>0, <2>2, SendRequestCopies
<1>3. CASE RecvSetHeadTail(c)
  <2>1. PICK m \in DOMAIN to_client : RecvSetHeadTail(c)!(m)
      BY <1>3 DEF RecvSetHeadTail
  <2>2. /\ next_req' = next_req /\ from_pre' = from_pre /\ sent' = sent /\ to_server' = to_server
        /\ DOMAIN to_client' \subseteq DOMAIN to_client
      BY <2>1, TakeProperty DEF serverState
  <2>3. m.bank_id = BankOf[c] => m.head_port = FirstServer(BankOf[c])
      BY <2>1 DEF FreshCopies, HeadsKnown
  <2>4. \A d \in Clients : head_port'[d] \in {head_port[d], FirstServer(BankOf[d])}
      BY <1>0, <2>1, <2>3
  <2> QED
      BY <1>0, <2>2, <2>4, QuietCopies
<1>4. ASSUME NEW k \in 1 .. Len(Queue(c)), CheckReceive(c, k) PROVE FALSE
  <2>1. whether_resend_newhead[c] /\ my_resend_time[c][k] < resend_times[c]
      BY <1>4 DEF CheckReceive
  <2>2. my_resend_time[c][k] \in Nat
      BY DEF FreshCopies, HeadFrame, TypeOK, ClientTypeOK
  <2> QED
      BY <2>1, <2>2 DEF NoResends
<1> QED
    BY <1>1, <1>2, <1>3, <1>4 DEF ClientStep, RecvMsg

\* HeadFrame is kept as the theorems about heads say.
LEMMA HeadFrameStep ==
    ASSUME HeadFrame, [Next]_vars
    PROVE  HeadFrame'
<1>1. TypeOK'
    BY TypeOKStep DEF HeadFrame
<1>2. TopologyInit'
    BY TopologyFixed DEF HeadFrame, TopologyInit, topology
<1> QED
    BY <1>1, <1>2, IdsKeptStep, HeadsReadNoStreamStep DEF HeadFrame

\* At first nothing is under way.
LEMMA FreshCopiesInit ==
    ASSUME Init
    PROVE  FreshCopies
<1>1. HeadFrame
  <2>1. TypeOK /\ TopologyInit
      BY InitType DEF Init, ServerInit
  <2>2. IdsKept
      BY DEF Init, ServerInit, ServersStart, IdsKept, EmptyBag, SetToBag
  <2>3. HeadsReadNoStream
      BY DEF Init, ServerInit, ServersStart, HeadsReadNoStream
  <2> QED
      BY <2>1, <2>2, <2>3 DEF HeadFrame
<1>2. LettersIn(to_server) = {} /\ Single(to_server)
    BY DEF Init, ServerInit, ServersStart, LettersIn, Single, EmptyBag, SetToBag
<1>3. \A s \in Servers : from_pre[s] = <<>> /\ sent[s] = <<>>
    BY DEF Init, ServerInit, ServersStart
<1>4. UnderWay = {}
  <2>0. from_pre \in [Servers -> Seq(Forwards)]
      BY <1>1 DEF HeadFrame, TypeOK, ServerTypeOK
  <2>1. ASSUME NEW e, e \in Streamed(from_pre) PROVE FALSE
    <3>1. PICK s \in Servers : Carries(from_pre, s, e)
        BY <2>0, <2>1, StreamedMember
    <3> QED
        BY <1>3, <3>1 DEF Carries
  <2> QED
      BY <1>2, <2>1 DEF UnderWay, Posted
<1>5. HeadsKnown
  <2>1. \A c \in Clients : head_port[c] = NoServer
      BY DEF Init, ClientInit, ClientsStart
  <2>2. \A m \in DOMAIN to_client : m.head_port = FirstServer(m.bank_id)
      BY DEF Init, ClientInit, SetToBag, LoginAnswer
  <2> QED
      BY <1>2, <2>1, <2>2 DEF HeadsKnown
<1>6. \A s \in Servers : Distinct(Carried(from_pre[s])) /\ Names(sent[s]) = {}
    BY <1>3 DEF Distinct, Carried, Names, ToSet
<1> QED
    BY <1>1, <1>2, <1>4, <1>5, <1>6 DEF FreshCopies, OneCopy, Unsent, NotYetRead

\* Every step keeps the copies fresh.
LEMMA FreshCopiesStep ==
    ASSUME NoResends, FreshCopies, [Next]_vars
    PROVE  FreshCopies'
<1>1. HeadFrame'
    BY HeadFrameStep DEF FreshCopies
<1>2. ASSUME NEW s \in Servers, ServerStep(s)
      PROVE  OneCopy' /\ Unsent' /\ NotYetRead' /\ HeadsKnown'
    BY <1>2, RecUpdateCopies, RecForwardCopies, OtherServerStepCopies
    DEF ServerStep, ReceiveStep, RecClient
<1>3. ASSUME UNCHANGED vars
      PROVE  OneCopy' /\ Unsent' /\ NotYetRead' /\ HeadsKnown'
    BY <1>3, QuietCopies DEF vars, serverState, clientState, network, FreshCopies, OneCopy
<1> QED
    BY <1>1, <1>2, <1>3, ClientStepCopies, LoseCopies DEF Next, FreshCopies

\* Where nothing is sent again, every server of a bank reads an update once:
\* check_in_sent (server.cpp) never takes a first copy for a resend, whatever
\* queries, losses and transfers are under way.
THEOREM FreshCopiesCorrect == NoResends => (Spec => []FreshCopies)
<1> SUFFICES ASSUME NoResends PROVE Spec => []FreshCopies
    OBVIOUS
<1>1. Init => FreshCopies
    BY FreshCopiesInit
<1>2. FreshCopies /\ [Next]_vars => FreshCopies'
    BY FreshCopiesStep
<1> QED
    BY <1>1, <1>2, PTL DEF Spec

--------------------------------------------------------------------------------
\* Two neighbours.

\* Two neighbours: the first has a successor, the second a predecessor.
LEMMA NeighboursLinked ==
    ASSUME TopologyInit, NEW e \in Neighbours
    PROVE  /\ e[1] \in Servers /\ e[2] \in Servers /\ e[2] = Next1(e[1]) /\ e[1] # e[2]
           /\ my_type[e[1]] \in {"HEAD", "INTER"}
           /\ ~IsFirst(e[2]) /\ Prev1(e[2]) = e[1]
           /\ \A x \in Servers : Next1(x) = e[2] => x = e[1]
           /\ my_type[e[1]] = "INTER" =>
                 <<Prev1(e[1]), e[1]>> \in Neighbours
<1>1. e[1] \in Servers /\ e[2] \in Servers /\ e[2] = Next1(e[1])
    BY DEF Neighbours
<1>2. PICK b \in Banks : e[2] \in {<<b, i>> : i \in 1 .. ChainLength[b]}
    BY <1>1 DEF Servers
<1>3. PICK i \in 1 .. ChainLength[b] : e[2] = <<b, i>>
    BY <1>2
<1>4. ChainLength[b] \in Nat \ {0} /\ i \in Nat
    BY ChainLengthAssumption
<1>5. /\ \A x \in Servers : x = <<Bank(x), x[2]>> /\ x[2] \in Nat
      /\ e[1][2] + 1 = i /\ Bank(e[1]) = b
  <2>1. \A x \in Servers : x = <<Bank(x), x[2]>> /\ x[2] \in Nat
      BY Places
  <2>2. <<b, i>> = <<e[1][1], e[1][2] + 1>>
      BY <1>1, <1>3 DEF Next1
  <2>3. e[1][2] + 1 = i /\ Bank(e[1]) = b
      BY <2>2 DEF Bank
  <2> QED
      BY <2>1, <2>3
<1>6. ~IsLast(e[1])
    BY <1>3, <1>4, <1>5 DEF IsLast, LastServer, Bank
<1>7. my_type[e[1]] \in {"HEAD", "INTER"}
    BY <1>1, <1>6, Places
<1>8. /\ ~IsFirst(e[2]) /\ e[1] # e[2]
    BY <1>1, <1>7, Places
<1>9. ASSUME NEW x \in Servers, Next1(x) = e[2] PROVE x = e[1]
    BY <1>1, <1>5, <1>9 DEF Next1, Bank
<1>10. Prev1(e[2]) = e[1]
    BY <1>1, <1>8, <1>9, Places
<1>11. ASSUME my_type[e[1]] = "INTER" PROVE <<Prev1(e[1]), e[1]>> \in Neighbours
    BY <1>1, <1>11, Places DEF Neighbours
<1> QED
    BY <1>1, <1>7, <1>8, <1>9, <1>10, <1>11

\* What can happen between two neighbours.  The first takes up an update ...
PassesOn(p, s, f) ==
    /\ processed_trans'[p] = Filing("Need", processed_trans[p], f)
    /\ insuf_funds_trans'[p] = Filing("InsufficientFunds", insuf_funds_trans[p], f)
    /\ from_pre'[s] = Append(from_pre[s], f)
    /\ my_type[p] = "HEAD" => req_seq'[p] = req_seq[p] + 1 /\ f.req.req_seq = req_seq'[p]
    /\ my_type[p] = "INTER" => /\ from_pre[p] # <<>> /\ f = Head(from_pre[p])
                               /\ f.req.req_seq = last_received_id'[p]

\* ... or the second does ...
Reads(s) ==
    LET f == Head(from_pre[s])
    IN  /\ from_pre[s] # <<>> /\ from_pre'[s] = Tail(from_pre[s])
        /\ processed_trans'[s] = Filing("Need", processed_trans[s], f)
        /\ insuf_funds_trans'[s] = Filing("InsufficientFunds", insuf_funds_trans[s], f)
        /\ last_received_id'[s] = f.req.req_seq

\* ... or neither: the first takes nothing up, ...
FirstRests(p) ==
    /\ processed_trans'[p] = processed_trans[p]
    /\ insuf_funds_trans'[p] = insuf_funds_trans[p]
    /\ my_type[p] = "HEAD" => req_seq'[p] = req_seq[p]
    /\ my_type[p] = "INTER" => last_received_id'[p] = last_received_id[p]

\* ... and the second reads nothing.
SecondRests(s) ==
    /\ processed_trans'[s] = processed_trans[s]
    /\ insuf_funds_trans'[s] = insuf_funds_trans[s]
    /\ last_received_id'[s] = last_received_id[s]

\* Every step is one of the three between any two neighbours: the first takes up
\* an update, the second reads one, or neither does.
LEMMA NeighbourStep ==
    ASSUME NoResends, FreshCopies, [Next]_vars, NEW p, NEW s, <<p, s>> \in Neighbours
    PROVE  \/ FirstRests(p) /\ SecondRests(s) /\ from_pre'[s] = from_pre[s]
           \/ SecondRests(s) /\ \E f \in Forwards : PassesOn(p, s, f)
           \/ FirstRests(p) /\ Reads(s)
<1>0. /\ TopologyInit
      /\ processed_trans \in [Servers -> Seq(Request)]
      /\ insuf_funds_trans \in [Servers -> Seq(Request)]
      /\ from_pre \in [Servers -> Seq(Forwards)]
      /\ req_seq \in [Servers -> Nat] /\ last_received_id \in [Servers -> Nat]
    BY DEF FreshCopies, HeadFrame, TypeOK, ServerTypeOK
<1>1. /\ p \in Servers /\ s \in Servers /\ s = Next1(p) /\ p # s
      /\ my_type[p] \in {"HEAD", "INTER"}
      /\ ~IsFirst(s) /\ Prev1(s) = p
      /\ \A x \in Servers : Next1(x) = s => x = p
  <2> DEFINE e == <<p, s>>
  <2>1. /\ e[1] \in Servers /\ e[2] \in Servers /\ e[2] = Next1(e[1]) /\ e[1] # e[2]
        /\ my_type[e[1]] \in {"HEAD", "INTER"}
        /\ ~IsFirst(e[2]) /\ Prev1(e[2]) = e[1]
        /\ \A x \in Servers : Next1(x) = e[2] => x = e[1]
    <3> HIDE DEF e
    <3> QED
        BY <1>0, NeighboursLinked DEF e
  <2> QED
      BY <2>1
<1>2. ASSUME NEW x \in Servers, RecUpdate(x)
      PROVE  \/ FirstRests(p) /\ SecondRests(s) /\ from_pre'[s] = from_pre[s]
             \/ SecondRests(s) /\ \E f \in Forwards : PassesOn(p, s, f)
  <2>1. PICK m \in LettersIn(to_server), r \in Request : HeadHandles(x, m, r) /\ IsFirst(x)
      BY <1>2, RecUpdateFresh
  <2> DEFINE f == Forwarding(r)
  <2>2. /\ req_seq' = [req_seq EXCEPT ![x] = @ + 1]
        /\ processed_trans' = [processed_trans EXCEPT ![x] = Filing("Need", @, f)]
        /\ insuf_funds_trans' =
             [insuf_funds_trans EXCEPT ![x] = Filing("InsufficientFunds", @, f)]
        /\ from_pre' = IF my_type[x] = "HEAD"
                       THEN [from_pre EXCEPT ![Next1(x)] = Append(@, f)] ELSE from_pre
        /\ last_received_id' = last_received_id
        /\ r.req_seq = req_seq[x] + 1
        /\ f \in Forwards /\ f.req = r
      BY <2>1 DEF HeadHandles, Forwarding, Forwards, Request
  <2> HIDE DEF f
  <2>3. x # s
      BY <1>1, <2>1
  <2>4. SecondRests(s)
      BY <1>0, <1>1, <2>2, <2>3 DEF SecondRests
  <2>5. CASE x = p
    <3>1. my_type[p] = "HEAD"
        BY <1>0, <1>1, <2>1, <2>5, Places
    <3>2. PassesOn(p, s, f)
        BY <1>0, <1>1, <2>2, <2>5, <3>1 DEF PassesOn
    <3> QED
        BY <2>2, <2>4, <3>2
  <2>6. CASE x # p
    <3>1. FirstRests(p)
        BY <1>0, <1>1, <2>2, <2>6 DEF FirstRests
    <3>2. from_pre'[s] = from_pre[s]
        BY <1>0, <1>1, <2>2, <2>6
    <3> QED
        BY <2>4, <3>1, <3>2
  <2> QED
      BY <2>5, <2>6
<1>3. ASSUME NEW x \in Servers, RecForward(x)
      PROVE  \/ FirstRests(p) /\ SecondRests(s) /\ from_pre'[s] = from_pre[s]
             \/ SecondRests(s) /\ \E f \in Forwards : PassesOn(p, s, f)
             \/ FirstRests(p) /\ Reads(s)
  <2>1. PICK q \in Request : Relays(x, q) /\ ~IsFirst(x)
      BY <1>3, RecForwardFresh
  <2> DEFINE f == Head(from_pre[x])
  <2>2. /\ from_pre[x] # <<>> /\ q = f.req
        /\ last_received_id' = [last_received_id EXCEPT ![x] = q.req_seq]
        /\ processed_trans' = [processed_trans EXCEPT ![x] = Filing("Need", @, f)]
        /\ insuf_funds_trans' =
             [insuf_funds_trans EXCEPT ![x] = Filing("InsufficientFunds", @, f)]
        /\ from_pre' = IF my_type[x] = "INTER"
                       THEN [Pop(from_pre, x) EXCEPT ![Next1(x)] = Append(@, f)]
                       ELSE Pop(from_pre, x)
        /\ req_seq' = req_seq
      BY <2>1 DEF Relays
  <2>3. /\ Pop(from_pre, x) \in [Servers -> Seq(Forwards)]
        /\ Pop(from_pre, x)[x] = Tail(from_pre[x])
        /\ \A y \in Servers \ {x} : Pop(from_pre, x)[y] = from_pre[y]
        /\ f \in Forwards
      BY <1>0, <2>2 DEF Pop
  <2>4. CASE x = s
    <3>1. from_pre'[s] = Tail(from_pre[s])
      <4>1. Next1(s) # s \/ my_type[s] # "INTER"
          BY <1>0, <1>1, Places
      <4> QED
          BY <1>1, <2>2, <2>3, <2>4, <4>1
    <3>2. FirstRests(p)
        BY <1>0, <1>1, <2>2, <2>4 DEF FirstRests
    <3>3. Reads(s)
        BY <1>0, <1>1, <2>2, <2>4, <3>1 DEF Reads
    <3> QED
        BY <3>2, <3>3
  <2>5. CASE x = p
    <3>1. my_type[p] = "INTER"
        BY <1>0, <1>1, <2>1, <2>5, Places
    <3>2. from_pre'[s] = Append(from_pre[s], f)
        BY <1>1, <2>2, <2>3, <2>5, <3>1
    <3>3. SecondRests(s)
        BY <1>0, <1>1, <2>2, <2>5 DEF SecondRests
    <3>4. /\ processed_trans'[p] = Filing("Need", processed_trans[p], f)
          /\ insuf_funds_trans'[p] = Filing("InsufficientFunds", insuf_funds_trans[p], f)
          /\ last_received_id'[p] = f.req.req_seq /\ from_pre[p] # <<>>
          /\ f = Head(from_pre[p])
        BY <1>0, <1>1, <2>2, <2>5
    <3> HIDE DEF f
    <3>5. PassesOn(p, s, f)
        BY <3>1, <3>2, <3>4 DEF PassesOn
    <3> QED
        BY <2>3, <3>3, <3>5
  <2>6. CASE x # s /\ x # p
    <3>1. FirstRests(p) /\ SecondRests(s)
        BY <1>0, <1>1, <2>2, <2>6 DEF FirstRests, SecondRests
    <3>2. from_pre'[s] = from_pre[s]
      <4>1. Next1(x) # s
          BY <1>1, <2>6
      <4> QED
          BY <1>1, <2>2, <2>3, <2>6, <4>1
    <3> QED
        BY <3>1, <3>2
  <2> QED
      BY <2>4, <2>5, <2>6
<1>4. ASSUME \/ \E x \in Servers : RecQuery(x) \/ RecUnknown(x) \/ RecAck(x) \/ RecOtherBank(x)
             \/ \E c \in Clients : ClientStep(c)
             \/ Lose
             \/ UNCHANGED vars
      PROVE  FirstRests(p) /\ SecondRests(s) /\ from_pre'[s] = from_pre[s]
  <2>1. UNCHANGED <<processed_trans, insuf_funds_trans, from_pre, req_seq, last_received_id>>
    <3>1. ASSUME NEW x \in Servers, RecQuery(x) \/ RecUnknown(x) \/ RecAck(x) \/ RecOtherBank(x)
          PROVE  UNCHANGED <<processed_trans, insuf_funds_trans, from_pre, req_seq,
                             last_received_id>>
        BY <3>1 DEF RecQuery, RecUnknown, RecAck, RecOtherBank, serverState
    <3>2. ASSUME NEW c \in Clients, ClientStep(c) PROVE UNCHANGED serverState
        BY <3>2 DEF ClientStep, StartClient, RecvMsg, RecvReply, RecvSetHeadTail, CheckReceive
    <3>3. ASSUME Lose \/ UNCHANGED vars PROVE UNCHANGED serverState
        BY <3>3 DEF Lose, vars, serverState
    <3> QED
        BY <1>4, <3>1, <3>2, <3>3 DEF serverState
  <2> QED
      BY <2>1 DEF FirstRests, SecondRests
<1> QED
    BY <1>2, <1>3, <1>4 DEF Next, ServerStep, ReceiveStep, RecClient

--------------------------------------------------------------------------------
\* The promises.

\* Neighbours agree at first: there is nothing to agree on.
LEMMA NeighboursInit ==
    ASSUME Init
    PROVE  UpdatePropagation /\ NumbersWithoutGaps
<1> SUFFICES ASSUME NEW e \in Neighbours
             PROVE  /\ UpdatePropagation!(e)
                    /\ NumbersWithoutGaps!(e)
    BY DEF UpdatePropagation, NumbersWithoutGaps
<1>1. TopologyInit
    BY DEF Init, ServerInit
<1>2. e[1] \in Servers /\ e[2] \in Servers
    BY <1>1, NeighboursLinked
<1>3. /\ processed_trans[e[1]] = <<>> /\ processed_trans[e[2]] = <<>>
      /\ insuf_funds_trans[e[1]] = <<>> /\ insuf_funds_trans[e[2]] = <<>>
      /\ from_pre[e[2]] = <<>> /\ req_seq[e[1]] = 0
      /\ last_received_id[e[1]] = 0 /\ last_received_id[e[2]] = 0
    BY <1>2 DEF Init, ServerInit, ServersStart
<1>4. /\ AfterReading("Need", <<>>, <<>>) = <<>>
      /\ AfterReading("InsufficientFunds", <<>>, <<>>) = <<>>
  <2>1. <<>> \in Seq(Request) /\ <<>> \in Seq(Forwards)
      OBVIOUS
  <2> QED
      BY <2>1, EmptyReading
<1>5. DOMAIN from_pre[e[2]] = {} /\ Len(from_pre[e[2]]) = 0
    BY <1>3
<1> QED
    BY <1>3, <1>4, <1>5

\* A step keeps the histories of two neighbours and their stream in agreement.
LEMMA UpdatePropagationStep ==
    ASSUME NoResends, FreshCopies, UpdatePropagation, [Next]_vars
    PROVE  UpdatePropagation'
<1> SUFFICES ASSUME NEW e \in Neighbours
             PROVE  UpdatePropagation!(e)'
    BY DEF UpdatePropagation, Neighbours
<1> DEFINE p == e[1]
           s == e[2]
<1>1. p \in Servers /\ s \in Servers /\ p # s /\ e = <<p, s>>
  <2>1. TopologyInit
      BY DEF FreshCopies, HeadFrame
  <2>2. e = <<e[1], e[2]>>
      BY DEF Neighbours
  <2> QED
      BY <2>1, <2>2, NeighboursLinked
<1>2. /\ processed_trans[s] \in Seq(Request) /\ insuf_funds_trans[s] \in Seq(Request)
      /\ from_pre[s] \in Seq(Forwards)
    BY <1>1 DEF FreshCopies, HeadFrame, TypeOK, ServerTypeOK
<1>3. /\ processed_trans[p] = AfterReading("Need", processed_trans[s], from_pre[s])
      /\ insuf_funds_trans[p] =
           AfterReading("InsufficientFunds", insuf_funds_trans[s], from_pre[s])
    BY <1>1 DEF UpdatePropagation
<1>4. \/ FirstRests(p) /\ SecondRests(s) /\ from_pre'[s] = from_pre[s]
      \/ SecondRests(s) /\ \E f \in Forwards : PassesOn(p, s, f)
      \/ FirstRests(p) /\ Reads(s)
  <2> HIDE DEF p, s
  <2> QED
      BY <1>1, NeighbourStep
<1> HIDE DEF p, s
<1>5. /\ processed_trans'[p] = AfterReading("Need", processed_trans'[s], from_pre'[s])
      /\ insuf_funds_trans'[p] =
           AfterReading("InsufficientFunds", insuf_funds_trans'[s], from_pre'[s])
  <2>1. CASE FirstRests(p) /\ SecondRests(s) /\ from_pre'[s] = from_pre[s]
      BY <1>3, <2>1 DEF FirstRests, SecondRests
  <2>2. ASSUME SecondRests(s), NEW f \in Forwards, PassesOn(p, s, f)
        PROVE  /\ processed_trans'[p] = AfterReading("Need", processed_trans'[s], from_pre'[s])
               /\ insuf_funds_trans'[p] =
                    AfterReading("InsufficientFunds", insuf_funds_trans'[s], from_pre'[s])
    <3>1. /\ from_pre'[s] = Append(from_pre[s], f)
          /\ processed_trans'[s] = processed_trans[s]
          /\ insuf_funds_trans'[s] = insuf_funds_trans[s]
          /\ processed_trans'[p] = Filing("Need", processed_trans[p], f)
          /\ insuf_funds_trans'[p] = Filing("InsufficientFunds", insuf_funds_trans[p], f)
        BY <2>2 DEF PassesOn, SecondRests
    <3>2. /\ AfterReading("Need", processed_trans[s], Append(from_pre[s], f)) =
               Filing("Need", AfterReading("Need", processed_trans[s], from_pre[s]), f)
          /\ AfterReading("InsufficientFunds", insuf_funds_trans[s], Append(from_pre[s], f)) =
               Filing("InsufficientFunds",
                  AfterReading("InsufficientFunds", insuf_funds_trans[s], from_pre[s]), f)
        BY <1>2, ReadingLast
    <3> QED
        BY <1>3, <3>1, <3>2
  <2>3. CASE FirstRests(p) /\ Reads(s)
      BY <1>2, <1>3, <2>3, ReadingFirst DEF Reads, FirstRests
  <2> QED
      BY <1>4, <2>1, <2>2, <2>3
<1> QED
    BY <1>5 DEF p, s

\* A step keeps the numbers on the stream between two neighbours in order.
LEMMA NumbersStep ==
    ASSUME NoResends, FreshCopies, NumbersWithoutGaps, [Next]_vars
    PROVE  NumbersWithoutGaps'
<1>0. TopologyInit /\ TopologyInit'
    BY HeadFrameStep DEF FreshCopies, HeadFrame
<1> SUFFICES ASSUME NEW e \in Neighbours
             PROVE  NumbersWithoutGaps!(e)'
    BY DEF NumbersWithoutGaps, Neighbours
<1> DEFINE p == e[1]
           s == e[2]
           handled == IF my_type[p] = "HEAD" THEN req_seq[p] ELSE last_received_id[p]
<1>1. /\ p \in Servers /\ s \in Servers /\ p # s /\ e = <<p, s>>
      /\ my_type[p] \in {"HEAD", "INTER"}
      /\ my_type[p] = "INTER" => <<Prev1(p), p>> \in Neighbours
  <2>1. e = <<e[1], e[2]>>
      BY DEF Neighbours
  <2> QED
      BY <1>0, <2>1, NeighboursLinked
<1>2. /\ from_pre[s] \in Seq(Forwards) /\ from_pre[p] \in Seq(Forwards)
      /\ last_received_id[s] \in Nat /\ last_received_id[p] \in Nat /\ req_seq[p] \in Nat
      /\ my_type'[p] = my_type[p]
    BY <1>0, <1>1 DEF FreshCopies, HeadFrame, TypeOK, ServerTypeOK, TopologyInit
<1>3. /\ \A i \in 1 .. Len(from_pre[s]) : from_pre[s][i].req.req_seq = last_received_id[s] + i
      /\ last_received_id[s] + Len(from_pre[s]) = handled
      /\ handled \in Nat /\ Len(from_pre[s]) \in Nat /\ last_received_id[s] \in Nat
  <2>1. DOMAIN from_pre[e[2]] = 1 .. Len(from_pre[e[2]]) /\ Len(from_pre[e[2]]) \in Nat
      BY <1>2
  <2>2. NumbersWithoutGaps!(e)
      BY DEF NumbersWithoutGaps
  <2> QED
      BY <1>2, <2>1, <2>2
<1>4. my_type[p] = "INTER" /\ from_pre[p] # <<>> =>
         Head(from_pre[p]).req.req_seq = last_received_id[p] + 1
  <2> SUFFICES ASSUME my_type[p] = "INTER", from_pre[p] # <<>>
               PROVE  Head(from_pre[p]).req.req_seq = last_received_id[p] + 1
      OBVIOUS
  <2>1. 1 \in DOMAIN from_pre[p] /\ Head(from_pre[p]) = from_pre[p][1]
      BY <1>2
  <2>2. \A i \in DOMAIN from_pre[p] : from_pre[p][i].req.req_seq = last_received_id[p] + i
    <3> DEFINE d == <<Prev1(p), p>>
    <3>1. d \in Neighbours /\ d[2] = p
        BY <1>1
    <3> HIDE DEF d, p
    <3> QED
        BY <3>1 DEF NumbersWithoutGaps
  <2> QED
      BY <2>1, <2>2
<1>5. \/ FirstRests(p) /\ SecondRests(s) /\ from_pre'[s] = from_pre[s]
      \/ SecondRests(s) /\ \E f \in Forwards : PassesOn(p, s, f)
      \/ FirstRests(p) /\ Reads(s)
  <2> HIDE DEF p, s
  <2> QED
      BY <1>1, NeighbourStep
<1> HIDE DEF p, s
<1>6. /\ \A i \in 1 .. Len(from_pre'[s]) :
           from_pre'[s][i].req.req_seq = last_received_id'[s] + i
      /\ last_received_id'[s] + Len(from_pre'[s]) = handled'
      /\ DOMAIN from_pre'[s] = 1 .. Len(from_pre'[s])
  <2>1. CASE FirstRests(p) /\ SecondRests(s) /\ from_pre'[s] = from_pre[s]
      BY <1>1, <1>2, <1>3, <2>1 DEF FirstRests, SecondRests
  <2>2. ASSUME SecondRests(s), NEW f \in Forwards, PassesOn(p, s, f)
        PROVE  /\ \A i \in 1 .. Len(from_pre'[s]) :
                    from_pre'[s][i].req.req_seq = last_received_id'[s] + i
               /\ last_received_id'[s] + Len(from_pre'[s]) = handled'
               /\ DOMAIN from_pre'[s] = 1 .. Len(from_pre'[s])
    <3>1. /\ from_pre'[s] = Append(from_pre[s], f)
          /\ last_received_id'[s] = last_received_id[s]
        BY <2>2 DEF PassesOn, SecondRests
    <3>2. handled' = handled + 1 /\ f.req.req_seq = handled + 1
        BY <1>1, <1>2, <1>4, <2>2 DEF PassesOn
    <3>3. /\ Len(from_pre'[s]) = Len(from_pre[s]) + 1
          /\ DOMAIN from_pre'[s] = 1 .. Len(from_pre'[s])
          /\ \A i \in 1 .. Len(from_pre[s]) : from_pre'[s][i] = from_pre[s][i]
          /\ from_pre'[s][Len(from_pre[s]) + 1] = f
          /\ Len(from_pre[s]) \in Nat
        BY <1>2, <2>2, <3>1
    <3> HIDE DEF handled
    <3>4. ASSUME NEW i \in 1 .. Len(from_pre'[s])
          PROVE  from_pre'[s][i].req.req_seq = last_received_id'[s] + i
      <4>1. CASE i = Len(from_pre[s]) + 1
        <5>1. from_pre'[s][i].req.req_seq = handled + 1
            BY <3>2, <3>3, <4>1, Zenon
        <5>2. \A m, n \in Nat : (m + n) + 1 = m + (n + 1)
            OBVIOUS
        <5>3. handled + 1 = last_received_id[s] + (Len(from_pre[s]) + 1)
            BY <1>3, <5>2, Zenon
        <5> QED
            BY <3>1, <4>1, <5>1, <5>3, Zenon
      <4>2. CASE i # Len(from_pre[s]) + 1
        <5>1. i \in 1 .. Len(from_pre[s])
            BY <3>3, <4>2
        <5> QED
            BY <1>3, <3>1, <3>3, <5>1
      <4> QED
          BY <4>1, <4>2
    <3>5. last_received_id'[s] + Len(from_pre'[s]) = handled'
      <4>1. \A m, n \in Nat : (m + n) + 1 = m + (n + 1)
          OBVIOUS
      <4> QED
          BY <1>3, <3>1, <3>2, <3>3, <4>1, Zenon
    <3> QED
        BY <3>3, <3>4, <3>5
  <2>3. CASE FirstRests(p) /\ Reads(s)
    <3>1. /\ from_pre[s] # <<>> /\ from_pre'[s] = Tail(from_pre[s])
          /\ last_received_id'[s] = Head(from_pre[s]).req.req_seq
        BY <2>3 DEF Reads
    <3>2. handled' = handled
        BY <1>1, <1>2, <2>3 DEF FirstRests
    <3>3. /\ Len(from_pre'[s]) = Len(from_pre[s]) - 1
          /\ DOMAIN from_pre'[s] = 1 .. Len(from_pre'[s])
          /\ \A i \in 1 .. Len(from_pre'[s]) : from_pre'[s][i] = from_pre[s][i + 1]
          /\ Head(from_pre[s]) = from_pre[s][1]
          /\ Len(from_pre[s]) \in Nat \ {0}
        BY <1>2, <3>1
    <3> HIDE DEF handled
    <3>4. last_received_id'[s] = last_received_id[s] + 1
        BY <1>3, <3>1, <3>3
    <3>5. ASSUME NEW i \in 1 .. Len(from_pre'[s])
          PROVE  from_pre'[s][i].req.req_seq = last_received_id'[s] + i
      <4>1. i + 1 \in 1 .. Len(from_pre[s])
          BY <3>3
      <4>2. from_pre[s][i + 1].req.req_seq = last_received_id[s] + (i + 1)
          BY <1>3, <4>1
      <4>3. last_received_id[s] + (i + 1) = (last_received_id[s] + 1) + i
          BY <1>2
      <4> QED
          BY <3>3, <3>4, <4>2, <4>3, Zenon
    <3>6. last_received_id'[s] + Len(from_pre'[s]) = handled'
      <4>0. \A m, n \in Nat : (m + 1) + (n - 1) = m + n
          OBVIOUS
      <4>1. /\ last_received_id[s] + Len(from_pre[s]) = handled
            /\ (last_received_id[s] + 1) + (Len(from_pre[s]) - 1) =
                  last_received_id[s] + Len(from_pre[s])
          BY <1>3, <4>0, Zenon
      <4>2. Len(from_pre'[s]) = Len(from_pre[s]) - 1
          BY <3>3
      <4> QED
          BY <3>2, <3>4, <4>1, <4>2, Zenon
    <3> QED
        BY <3>3, <3>5, <3>6
  <2> QED
      BY <1>5, <2>1, <2>2, <2>3
<1> QED
    BY <1>6 DEF p, s

\* Without resends the replicas of a bank agree: what a server has executed and
\* refused is what its successor will have executed and refused, in this order,
\* when it has read the stream between them (process_forwared_request,
\* forward_req_to_next_server).
THEOREM UpdatePropagationCorrect == NoResends => (Spec => []UpdatePropagation)
<1> SUFFICES ASSUME NoResends PROVE Spec => []UpdatePropagation
    OBVIOUS
<1>1. Init => UpdatePropagation
    BY NeighboursInit
<1>2. FreshCopies /\ UpdatePropagation /\ [Next]_vars => UpdatePropagation'
    BY UpdatePropagationStep
<1>3. Spec => []FreshCopies
    BY FreshCopiesCorrect
<1> QED
    BY <1>1, <1>2, <1>3, PTL DEF Spec

\* Without resends the sequence numbers on the stream between two neighbours have
\* no gap, and lead from the last number read to the last one sent, so that a
\* server can tell by the number what its successor is missing (last_received_id).
THEOREM NumbersWithoutGapsCorrect == NoResends => (Spec => []NumbersWithoutGaps)
<1> SUFFICES ASSUME NoResends PROVE Spec => []NumbersWithoutGaps
    OBVIOUS
<1>1. Init => NumbersWithoutGaps
    BY NeighboursInit
<1>2. FreshCopies /\ NumbersWithoutGaps /\ [Next]_vars => NumbersWithoutGaps'
    BY NumbersStep
<1>3. Spec => []FreshCopies
    BY FreshCopiesCorrect
<1> QED
    BY <1>1, <1>2, <1>3, PTL DEF Spec

================================================================================
