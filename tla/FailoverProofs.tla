----------------------------- MODULE FailoverProofs -----------------------------
(***************************************************************************)
(* Theorems of Failover: its types, whatever fails, starts, is suspected   *)
(* or lost; and, for chains that fall apart, where the master's notices    *)
(* lead.                                                                   *)
(***************************************************************************)
EXTENDS Failover, ChainProofs

--------------------------------------------------------------------------------
\* The types.

\* What the master says about the ends of a chain; an empty list has none.
EndNotices == [op : {"SET_HEAD_TAIL"}, to : Clients, bank_id : Banks,
               head_port : Servers \cup {NoServer}, tail_port : Servers \cup {NoServer}]

Entries == [port : Servers, round_flag : {"LIVE", "DIE"}]

(* The types of Failover with what keeps them: a receive thread that has not *)
(* started yet finds a connection, and the bank whose new head has just been *)
(* told has a head.                                                          *)
FTypes ==
    /\ Typed(Streamed, EndNotices)
    /\ MasterTypeOK
    /\ MemberTypeOK
    /\ ended \subseteq Servers \ alive
    /\ starting > 0 => serfd \in Servers
    /\ telling # NoBank => server_list[telling] # <<>>

\* The handlers can live with these messages.
LEMMA StreamedFits == Fits(Streamed, EndNotices)
BY DEF Fits, Forwards, Streamed, EndNotices

\* The strengthened types imply those the runs check.
LEMMA FTypesEnough ==
    ASSUME FTypes
    PROVE  FTypeOK
BY DEF FTypes, FTypeOK, Typed, ServerTypes

--------------------------------------------------------------------------------
\* Lists.

\* A list without its i-th entry.
LEMMA RemoveAtProperty ==
    ASSUME NEW S, NEW list \in Seq(S), NEW i \in 1 .. Len(list)
    PROVE  /\ RemoveAt(list, i) \in Seq(S)
           /\ Len(RemoveAt(list, i)) = Len(list) - 1
           /\ \A j \in 1 .. Len(list) - 1 :
                 RemoveAt(list, i)[j] = IF j < i THEN list[j] ELSE list[j + 1]
<1> DEFINE front == SubSeq(list, 1, i - 1)
           back == SubSeq(list, i + 1, Len(list))
<1>1. Len(list) \in Nat /\ i \in Nat /\ i >= 1 /\ i <= Len(list)
    OBVIOUS
<1>2. /\ front \in Seq(S) /\ Len(front) = i - 1
      /\ \A j \in 1 .. i - 1 : front[j] = list[j]
    BY <1>1
<1>3. /\ back \in Seq(S) /\ Len(back) = Len(list) - i
      /\ \A j \in 1 .. Len(list) - i : back[j] = list[i + j]
    BY <1>1
<1>4. RemoveAt(list, i) = front \o back
    BY DEF RemoveAt
<1> HIDE DEF front, back
<1>5. /\ front \o back \in Seq(S)
      /\ Len(front \o back) = Len(front) + Len(back)
      /\ \A j \in 1 .. Len(front) + Len(back) :
            (front \o back)[j] = IF j <= Len(front) THEN front[j] ELSE back[j - Len(front)]
    BY <1>2, <1>3, ConcatProperties
<1>6. Len(front) + Len(back) = Len(list) - 1
    BY <1>1, <1>2, <1>3
<1>7. ASSUME NEW j \in 1 .. Len(list) - 1
      PROVE  (front \o back)[j] = IF j < i THEN list[j] ELSE list[j + 1]
  <2>1. CASE j < i
    <3>1. j <= Len(front) /\ j \in 1 .. i - 1 /\ j \in 1 .. Len(front) + Len(back)
        BY <1>1, <1>2, <1>6, <2>1
    <3> QED
        BY <1>2, <1>5, <2>1, <3>1
  <2>2. CASE ~ (j < i)
    <3>1. /\ ~ (j <= Len(front)) /\ j - Len(front) \in 1 .. Len(list) - i
          /\ i + (j - Len(front)) = j + 1 /\ j \in 1 .. Len(front) + Len(back)
        BY <1>1, <1>2, <1>6, <2>2
    <3> QED
        BY <1>3, <1>5, <2>2, <3>1
  <2> QED
      BY <2>1, <2>2
<1> QED
    BY <1>4, <1>5, <1>6, <1>7

\* The requests send_next_larger_sn picks are requests of `sent`.
LEMMA LargerThanType ==
    ASSUME NEW s, NEW sn, sent[s] \in Seq(Request)
    PROVE  LargerThan(s, sn) \in Seq(Request)
<1> DEFINE list == sent[s]
           n == Len(list)
           V == Seq(Request)
           Equation(f) == f = [t \in SUBSET DOMAIN list |->
              IF t = {} THEN <<>> ELSE WithLarger(sn, f[t \ {Max(t)}], list[Max(t)])]
           iter == CHOOSE f : Equation(f)
           step == [i \in 1 .. n |-> [v \in V |-> WithLarger(sn, v, list[i])]]
<1>1. LargerThan(s, sn) = iter[DOMAIN list]
    BY DEF LargerThan, FoldLeft, MapThenFoldSet
<1>2. DOMAIN list = 1 .. n /\ n \in Nat
    OBVIOUS
<1>3. \A i \in 1 .. n : \A v \in V : WithLarger(sn, v, list[i]) \in V
    BY DEF WithLarger
<1>4. n \in Nat /\ <<>> \in V /\ step \in StepsOn(n, V)
    BY <1>2, <1>3 DEF StepsOn
<1>5. PICK f : Solves(f, n, V, <<>>, step)
  <2> HIDE DEF n, step, V
  <2> QED
      BY <1>4, RecursionExists
<1>6. ASSUME NEW t \in SUBSET (1 .. n), t # {}
      PROVE  f[t] = WithLarger(sn, f[t \ {Max(t)}], list[Max(t)])
  <2>1. Max(t) \in 1 .. n /\ t \ {Max(t)} \in SUBSET (1 .. n)
      BY <1>2, <1>6, MaxOfRange
  <2>2. f[t \ {Max(t)}] \in V
      BY <1>5, <2>1 DEF Solves
  <2> HIDE DEF V
  <2> QED
      BY <1>5, <1>6, <2>1, <2>2 DEF Solves
<1>7. Equation(f)
    BY <1>2, <1>5, <1>6 DEF Solves
<1>8. Equation(iter)
  <2> HIDE DEF Equation
  <2> QED
      BY <1>7
<1> HIDE DEF iter
<1>9. ASSUME NEW k \in 1 .. n
      PROVE  iter[1 .. k] = WithLarger(sn, iter[1 .. k - 1], list[k])
  <2>1. /\ 1 .. k \in SUBSET DOMAIN list /\ 1 .. k # {}
        /\ Max(1 .. k) = k /\ (1 .. k) \ {k} = 1 .. k - 1
      BY <1>2, FirstItems
  <2>2. iter[1 .. k] = WithLarger(sn, iter[(1 .. k) \ {Max(1 .. k)}], list[Max(1 .. k)])
      BY <1>8, <2>1
  <2> QED
      BY <2>1, <2>2
<1> DEFINE T == {k \in Nat : k <= n => iter[1 .. k] \in V}
<1>10. 0 \in T
    BY <1>8
<1>11. ASSUME NEW k \in T \cap Nat PROVE k + 1 \in T
  <2>1. k + 1 <= n => k + 1 \in 1 .. n /\ k <= n /\ (k + 1) - 1 = k
      BY <1>2
  <2> HIDE DEF V
  <2> QED
      BY <1>3, <1>9, <2>1
<1>12. Nat \subseteq T
  <2> HIDE DEF T
  <2> QED
      BY <1>10, <1>11, Induction
<1>13. iter[1 .. n] \in V
    BY <1>2, <1>12
<1> QED
    BY <1>1, <1>2, <1>13

--------------------------------------------------------------------------------
\* The master.

\* The ends of a list of the master are servers, if there are any.
LEMMA EndsType ==
    ASSUME NEW list \in Seq(Entries)
    PROVE  /\ GetHeadServer(list) \in Servers \cup {NoServer}
           /\ GetTailServer(list) \in Servers \cup {NoServer}
           /\ list # <<>> => GetHeadServer(list) \in Servers /\ GetTailServer(list) \in Servers
           /\ \A i \in 1 .. Len(list) : list[i].port \in Servers
<1>1. \A e \in Entries : e.port \in Servers
    BY DEF Entries
<1>2. list # <<>> => /\ Head(list) \in Entries
                     /\ Len(list) \in 1 .. Len(list)
                     /\ Last(list) \in Entries
    BY DEF Last
<1> QED
    BY <1>1, <1>2 DEF GetHeadServer, GetTailServer

\* A notice sent is in a stream of notices.
LEMMA NotifyType ==
    ASSUME NEW streams \in [Servers -> Seq(Notices)], alive \subseteq Servers,
           NEW notice \in Notices
    PROVE  /\ \A s : Notify(streams, s, notice) \in [Servers -> Seq(Notices)]
           /\ \A group : NotifyAll(streams, group, notice) \in [Servers -> Seq(Notices)]
BY DEF Notify, NotifyAll

\* What the clients are told are the ends of a chain.
LEMMA MulticastType ==
    ASSUME DOMAIN to_client \subseteq Reply \cup EndNotices, NEW b \in Banks,
           NEW list \in Seq(Entries)
    PROVE  /\ DOMAIN MulticastClient(b, list) \subseteq Reply \cup EndNotices
           /\ \A c \in Clients : SetHeadTail(c, b, list) \in EndNotices
<1>1. \A c \in Clients : SetHeadTail(c, b, list) \in EndNotices
    BY EndsType DEF SetHeadTail, EndNotices
<1> QED
    BY <1>1, DeliverProperty DEF MulticastClient

\* The types of the servers and clients, when only clients are written to.
LEMMA TypedKept ==
    ASSUME Typed(Streamed, EndNotices), UNCHANGED <<serverState, clientState, to_server>>,
           DOMAIN to_client' \subseteq Reply \cup EndNotices
    PROVE  Typed(Streamed, EndNotices)'
BY DEF Typed, ServerTypes, ClientTypes, TopologyTypeOK, serverState, topology, clientState,
       Queue

\* A login is answered.
LEMMA RecvLoginTypes ==
    ASSUME FTypes, NEW c \in Clients, RecvLogin(c), UNCHANGED <<clientState, memberState, ended>>
    PROVE  FTypes'
<1>1. /\ DOMAIN to_client \subseteq Reply \cup EndNotices
      /\ BankOf[c] \in Banks
      /\ server_list[BankOf[c]] \in Seq(Entries)
    BY BankOfAssumption DEF FTypes, Typed, ClientTypes, MasterTypeOK, Entries
<1>2. DOMAIN to_client' \subseteq Reply \cup EndNotices
    BY <1>1, MulticastType, DeliverProperty DEF RecvLogin
<1>3. Typed(Streamed, EndNotices)'
    BY <1>2, TypedKept DEF RecvLogin, FTypes
<1>4. /\ logins' \subseteq Clients
      /\ UNCHANGED <<from_pre, alive, server_list, fail_pre_fd, telling, connects, serfd,
                     starting, readers, masterStreams, memberState, ended>>
    BY DEF RecvLogin, FTypes, MasterTypeOK, serverState
<1> QED
    BY <1>3, <1>4 DEF FTypes, MasterTypeOK, MemberTypeOK, masterStreams, memberState

\* A list of the master with the flag of one entry changed.
LEMMA FlagTypes ==
    ASSUME FTypes, NEW b \in Banks, NEW i \in DOMAIN server_list[b],
           NEW flag \in {"LIVE", "DIE"},
           server_list' = [server_list EXCEPT ![b][i].round_flag = flag],
           UNCHANGED <<serverState, network, alive, fail_pre_fd, telling, connects, serfd,
                       starting, readers, logins, masterStreams, clientState, memberState,
                       ended>>
    PROVE  FTypes'
<1>1. server_list \in [Banks -> Seq(Entries)] /\ server_list[b] \in Seq(Entries)
    BY DEF FTypes, MasterTypeOK, Entries
<1>2. i \in 1 .. Len(server_list[b]) /\ server_list[b][i] \in Entries
    BY <1>1
<1> DEFINE list == [server_list[b] EXCEPT ![i] = [server_list[b][i] EXCEPT !.round_flag = flag]]
<1>3. [server_list[b][i] EXCEPT !.round_flag = flag] \in Entries
    BY <1>2 DEF Entries
<1>4. list \in Seq(Entries) /\ Len(list) = Len(server_list[b])
    BY <1>1, <1>2, <1>3, ExceptSeq
<1>5. server_list' = [server_list EXCEPT ![b] = list]
    BY <1>1
<1>6. list # <<>>
    BY <1>1, <1>2, <1>4
<1> HIDE DEF list
<1>7. /\ server_list' \in [Banks -> Seq(Entries)]
      /\ \A k \in Banks : server_list[k] # <<>> => server_list'[k] # <<>>
    BY <1>1, <1>4, <1>5, <1>6
<1>8. Typed(Streamed, EndNotices)'
    BY TypedKept DEF FTypes, Typed, ClientTypes, network
<1>9. UNCHANGED from_pre
    BY DEF serverState
<1> QED
    BY <1>7, <1>8, <1>9
    DEF FTypes, MasterTypeOK, MemberTypeOK, masterStreams, memberState, Entries

\* A ping comes.
LEMMA RoundAskReceiveTypes ==
    ASSUME FTypes, NEW s \in Servers, RoundAskReceive(s),
           UNCHANGED <<clientState, memberState, ended>>
    PROVE  FTypes'
<1>1. Bank(s) \in Banks
    BY ChainEnds
<1>2. PICK i \in DOMAIN server_list[Bank(s)] :
        server_list' = [server_list EXCEPT ![Bank(s)][i].round_flag = "LIVE"]
    BY DEF RoundAskReceive
<1> QED
    BY <1>1, <1>2, FlagTypes DEF RoundAskReceive

\* A server is visited that was heard.
LEMMA VisitLiveTypes ==
    ASSUME FTypes, NEW b \in Banks, NEW i \in DOMAIN server_list[b], VisitLive(b, i),
           UNCHANGED <<clientState, memberState, ended>>
    PROVE  FTypes'
BY FlagTypes DEF VisitLive

\* The removal of an entry, and what the neighbours are told.
LEMMA RemovalTypes ==
    ASSUME FTypes, NEW b \in Banks, NEW i \in 1 .. Len(server_list[b]),
           telling = NoBank,
           server_list' = [server_list EXCEPT ![b] = Without(b, i)],
           from_master' \in [Servers -> Seq(Notices)],
           fail_pre_fd' \in Servers \cup {NoServer},
           telling' \in {NoBank, b}, telling' = b => Len(server_list[b]) > 1,
           to_client' \in {to_client, MulticastClient(b, Without(b, i))},
           UNCHANGED <<serverState, to_server, alive, connects, serfd, starting, readers,
                       logins, to_master, clientState, memberState, ended>>
    PROVE  FTypes'
<1>1. server_list \in [Banks -> Seq(Entries)] /\ server_list[b] \in Seq(Entries)
    BY DEF FTypes, MasterTypeOK, Entries
<1>2. Without(b, i) \in Seq(Entries) /\ Len(Without(b, i)) = Len(server_list[b]) - 1
    BY <1>1, RemoveAtProperty DEF Without
<1>3. DOMAIN to_client' \subseteq Reply \cup EndNotices
    BY <1>2, MulticastType DEF FTypes, Typed, ClientTypes
<1>4. Typed(Streamed, EndNotices)'
    BY <1>3, TypedKept DEF FTypes
<1>5. telling' # NoBank => server_list'[telling'] # <<>>
  <2> SUFFICES ASSUME telling' # NoBank PROVE server_list'[telling'] # <<>>
      OBVIOUS
  <2>1. telling' = b /\ Len(server_list[b]) > 1
      OBVIOUS
  <2>2. Len(Without(b, i)) > 0
      BY <1>1, <1>2, <2>1
  <2>3. server_list'[b] = Without(b, i)
      BY <1>1
  <2> QED
      BY <1>2, <2>1, <2>2, <2>3
<1>6. server_list' \in [Banks -> Seq(Entries)] /\ telling' \in Banks \cup {NoBank}
    BY <1>1, <1>2
<1>7. UNCHANGED from_pre
    BY DEF serverState
<1> QED
    BY <1>4, <1>5, <1>6, <1>7
    DEF FTypes, MasterTypeOK, MemberTypeOK, masterStreams, memberState, Entries

\* A punctual server stays: so do the notices the removals send.
LEMMA RemoveOnlyTypes ==
    ASSUME FTypes, NEW b \in Banks, RemoveOnly(b), UNCHANGED <<clientState, memberState, ended>>
    PROVE  FTypes'
<1>1. 1 \in 1 .. Len(server_list[b])
    BY DEF RemoveOnly
<1>2. /\ from_master \in [Servers -> Seq(Notices)]
      /\ fail_pre_fd \in Servers \cup {NoServer}
    BY DEF FTypes, MasterTypeOK
<1>3. /\ telling = NoBank
      /\ server_list' = [server_list EXCEPT ![b] = Without(b, 1)]
      /\ to_client' = MulticastClient(b, Without(b, 1))
      /\ UNCHANGED <<serverState, to_server, alive, fail_pre_fd, telling, connects, serfd,
                     starting, readers, logins, from_master, to_master>>
    BY DEF RemoveOnly, Silent, masterStreams
<1>4. /\ from_master' \in [Servers -> Seq(Notices)]
      /\ fail_pre_fd' \in Servers \cup {NoServer}
      /\ telling' \in {NoBank, b} /\ telling' # b
    BY <1>2, <1>3, NoBankAssumption
<1> QED
    BY <1>1, <1>3, <1>4, RemovalTypes

\* The head is removed: the one behind it is told.
LEMMA RemoveHeadTypes ==
    ASSUME FTypes, NEW b \in Banks, RemoveHead(b), UNCHANGED <<clientState, memberState, ended>>
    PROVE  FTypes'
<1>1. /\ server_list[b] \in Seq(Entries)
      /\ from_master \in [Servers -> Seq(Notices)]
      /\ fail_pre_fd \in Servers \cup {NoServer}
      /\ alive \subseteq Servers
    BY DEF FTypes, MasterTypeOK, Entries
<1>2. 1 \in 1 .. Len(server_list[b])
    BY <1>1 DEF RemoveHead
<1>3. [op |-> "HEAD_FAIL"] \in Notices
    BY DEF Notices
<1>4. from_master' \in [Servers -> Seq(Notices)]
    BY <1>1, <1>3, NotifyType DEF RemoveHead
<1>5. /\ telling = NoBank
      /\ server_list' = [server_list EXCEPT ![b] = Without(b, 1)]
      /\ telling' = b /\ Len(server_list[b]) > 1
      /\ UNCHANGED <<serverState, to_server, to_client, alive, fail_pre_fd, connects, serfd,
                     starting, readers, logins, to_master>>
    BY DEF RemoveHead, Silent, network
<1> QED
    BY <1>1, <1>2, <1>4, <1>5, RemovalTypes

\* The tail is removed: the one in front is told, and the other banks.
LEMMA RemoveTailTypes ==
    ASSUME FTypes, NEW b \in Banks, RemoveTail(b), UNCHANGED <<clientState, memberState, ended>>
    PROVE  FTypes'
<1> DEFINE i == Len(server_list[b])
           pre == server_list[b][i - 1].port
<1>1. /\ server_list[b] \in Seq(Entries)
      /\ from_master \in [Servers -> Seq(Notices)]
      /\ fail_pre_fd \in Servers \cup {NoServer}
      /\ alive \subseteq Servers
    BY DEF FTypes, MasterTypeOK, Entries
<1>2. i \in 1 .. Len(server_list[b]) /\ i - 1 \in 1 .. Len(server_list[b])
    BY <1>1 DEF RemoveTail
<1>3. pre \in Servers
    BY <1>1, <1>2, EndsType
<1>4. [op |-> "TAIL_FAIL"] \in Notices
    BY DEF Notices
<1>5. [op |-> "TRANS_TAIL_FAIL", bank_id |-> b, port |-> pre] \in Notices
    BY <1>3 DEF Notices
<1>6. from_master' \in [Servers -> Seq(Notices)]
    BY <1>1, <1>4, <1>5, NotifyType DEF RemoveTail
<1>7. /\ telling = NoBank
      /\ server_list' = [server_list EXCEPT ![b] = Without(b, i)]
      /\ to_client' = MulticastClient(b, Without(b, i))
      /\ UNCHANGED <<serverState, to_server, alive, fail_pre_fd, telling, connects, serfd,
                     starting, readers, logins, to_master>>
    BY DEF RemoveTail, Silent
<1>8. /\ fail_pre_fd' \in Servers \cup {NoServer}
      /\ telling' \in {NoBank, b} /\ telling' # b
    BY <1>1, <1>7, NoBankAssumption
<1> QED
    BY <1>2, <1>6, <1>7, <1>8, RemovalTypes

\* An inner server is removed: both neighbours are told.
LEMMA RemoveInterTypes ==
    ASSUME FTypes, NEW b \in Banks, NEW i \in DOMAIN server_list[b], RemoveInter(b, i),
           UNCHANGED <<clientState, memberState, ended>>
    PROVE  FTypes'
<1> DEFINE pre == server_list[b][i - 1].port
           next == server_list[b][i + 1].port
<1>1. /\ server_list[b] \in Seq(Entries)
      /\ from_master \in [Servers -> Seq(Notices)]
      /\ alive \subseteq Servers
    BY DEF FTypes, MasterTypeOK, Entries
<1>2. /\ i \in 1 .. Len(server_list[b])
      /\ i - 1 \in 1 .. Len(server_list[b]) /\ i + 1 \in 1 .. Len(server_list[b])
    BY <1>1 DEF RemoveInter
<1>3. pre \in Servers /\ next \in Servers
    BY <1>1, <1>2, EndsType
<1>4. /\ [op |-> "INTER_NEXT_FAIL", port |-> next] \in Notices
      /\ [op |-> "INTER_PRE_FAIL", port |-> pre] \in Notices
    BY <1>3 DEF Notices
<1>5. InterNotices(pre, next) \in [Servers -> Seq(Notices)]
  <2>1. Notify(from_master, pre, [op |-> "INTER_NEXT_FAIL", port |-> next])
          \in [Servers -> Seq(Notices)]
      BY <1>1, <1>4, NotifyType
  <2> QED
      BY <1>1, <1>4, <2>1, NotifyType DEF InterNotices
<1>6. /\ telling = NoBank
      /\ server_list' = [server_list EXCEPT ![b] = Without(b, i)]
      /\ from_master' = InterNotices(pre, next)
      /\ fail_pre_fd' = pre
      /\ to_client' = MulticastClient(b, Without(b, i))
      /\ UNCHANGED <<serverState, to_server, alive, telling, connects, serfd,
                     starting, readers, logins, to_master>>
    BY DEF RemoveInter, Silent
<1>7. telling' \in {NoBank, b} /\ telling' # b
    BY <1>6, NoBankAssumption
<1> QED
    BY <1>2, <1>3, <1>5, <1>6, <1>7, RemovalTypes

\* The new head is named to the other banks and to the clients.
LEMMA TellNewHeadTypes ==
    ASSUME FTypes, NEW b \in Banks, TellNewHead(b), UNCHANGED <<clientState, memberState, ended>>
    PROVE  FTypes'
<1> DEFINE head == GetHeadServer(server_list[b])
<1>1. /\ server_list[b] \in Seq(Entries)
      /\ from_master \in [Servers -> Seq(Notices)]
      /\ alive \subseteq Servers
      /\ server_list[b] # <<>>
      /\ DOMAIN to_client \subseteq Reply \cup EndNotices
    BY NoBankAssumption DEF FTypes, MasterTypeOK, Entries, TellNewHead, Typed, ClientTypes
<1>2. head \in Servers
    BY <1>1, EndsType
<1>3. [op |-> "TRANS_HEAD_FAIL", bank_id |-> b, port |-> head] \in Notices
    BY <1>2 DEF Notices
<1>4. from_master' \in [Servers -> Seq(Notices)]
    BY <1>1, <1>3, NotifyType DEF TellNewHead
<1>5. DOMAIN to_client' \subseteq Reply \cup EndNotices
    BY <1>1, MulticastType DEF TellNewHead
<1>6. Typed(Streamed, EndNotices)'
    BY <1>5, TypedKept DEF FTypes, TellNewHead
<1>7. /\ telling' = NoBank
      /\ UNCHANGED <<from_pre, alive, server_list, fail_pre_fd, connects, serfd, starting,
                     readers, logins, to_master, memberState, ended>>
    BY DEF TellNewHead, serverState
<1> QED
    BY <1>4, <1>6, <1>7 DEF FTypes, MasterTypeOK, MemberTypeOK, memberState

\* The checking thread.
LEMMA RoundAskCheckTypes ==
    ASSUME FTypes, RoundAskCheck, UNCHANGED <<clientState, memberState, ended>>
    PROVE  FTypes'
<1>1. PICK b \in Banks :
        \/ \E i \in DOMAIN server_list[b] : VisitLive(b, i) \/ RemoveInter(b, i)
        \/ RemoveOnly(b) \/ RemoveHead(b) \/ TellNewHead(b) \/ RemoveTail(b)
    BY DEF RoundAskCheck
<1>2. CASE \E i \in DOMAIN server_list[b] : VisitLive(b, i) \/ RemoveInter(b, i)
    BY <1>2, VisitLiveTypes, RemoveInterTypes
<1> QED
    BY <1>1, <1>2, RemoveOnlyTypes, RemoveHeadTypes, TellNewHeadTypes, RemoveTailTypes

\* A server is accepted.
LEMMA AcceptServerTypes ==
    ASSUME FTypes, AcceptServer, UNCHANGED <<clientState, memberState, ended>>
    PROVE  FTypes'
<1> DEFINE s == Head(connects)
           b == Bank(s)
           list == IF s = FirstServer(b) THEN Append(server_list[b], Listed(s))
                                         ELSE server_list[b]
<1>1. /\ s \in Servers /\ Tail(connects) \in Seq(Servers)
      /\ server_list \in [Banks -> Seq(Entries)]
      /\ from_master \in [Servers -> Seq(Notices)]
      /\ alive \subseteq Servers
      /\ DOMAIN to_client \subseteq Reply \cup EndNotices
  <2>1. connects \in Seq(Servers) /\ connects # <<>>
      BY DEF FTypes, MasterTypeOK, AcceptServer
  <2>2. s \in Servers /\ Tail(connects) \in Seq(Servers)
      BY <2>1
  <2> QED
      BY <2>2 DEF FTypes, MasterTypeOK, Entries, Typed, ClientTypes
<1>2. b \in Banks
    BY <1>1, ChainEnds
<1>3. Listed(s) \in Entries
    BY <1>1 DEF Listed, Entries
<1>4. list \in Seq(Entries) /\ (server_list[b] # <<>> => list # <<>>)
    BY <1>1, <1>2, <1>3
<1>5. GetTailServer(list) \in Servers \cup {NoServer}
    BY <1>4, EndsType
<1>6. /\ connects' = Tail(connects) /\ serfd' = s /\ starting' = starting + 1
      /\ server_list' = [server_list EXCEPT ![b] = list]
      /\ to_client' \in {to_client, MulticastClient(b, list)}
      /\ from_master' = Notify(from_master, s, [op |-> "GET_PRE", port |-> GetTailServer(list)])
      /\ UNCHANGED <<serverState, to_server, alive, fail_pre_fd, telling, readers, logins,
                     to_master>>
    BY DEF AcceptServer
<1> HIDE DEF s, b, list
<1>7. [op |-> "GET_PRE", port |-> GetTailServer(list)] \in Notices
    BY <1>5 DEF Notices
<1>8. from_master' \in [Servers -> Seq(Notices)]
    BY <1>1, <1>6, <1>7, NotifyType
<1>9. DOMAIN to_client' \subseteq Reply \cup EndNotices
    BY <1>1, <1>2, <1>4, <1>6, MulticastType
<1>10. Typed(Streamed, EndNotices)'
    BY <1>6, <1>9, TypedKept DEF FTypes
<1>11. /\ server_list' \in [Banks -> Seq(Entries)]
       /\ \A k \in Banks : server_list[k] # <<>> => server_list'[k] # <<>>
    BY <1>1, <1>2, <1>4, <1>6
<1>12. UNCHANGED from_pre
    BY <1>6 DEF serverState
<1>13. telling' # NoBank => server_list'[telling'] # <<>>
    BY <1>6, <1>11 DEF FTypes, MasterTypeOK
<1>14. serfd' \in Servers /\ starting' \in Nat
    BY <1>1, <1>6 DEF FTypes, MasterTypeOK
<1>15. ended' \subseteq Servers \ alive'
    BY <1>6 DEF FTypes
<1>16. MasterTypeOK'
    BY <1>1, <1>6, <1>8, <1>11, <1>14 DEF FTypes, MasterTypeOK, Entries
<1>17. MemberTypeOK'
    BY <1>6, <1>12 DEF FTypes, MemberTypeOK, memberState
<1> QED
    BY <1>10, <1>13, <1>14, <1>15, <1>16, <1>17 DEF FTypes

\* Its receive thread starts.
LEMMA StartReaderTypes ==
    ASSUME FTypes, StartReader, UNCHANGED <<clientState, memberState, ended>>
    PROVE  FTypes'
<1>1. Typed(Streamed, EndNotices)'
    BY TypedKept DEF FTypes, StartReader, network, Typed, ClientTypes
<1>2. /\ starting > 0 /\ starting' = starting - 1
      /\ readers' = readers \cup {serfd} /\ serfd \in Servers
      /\ UNCHANGED <<from_pre, alive, server_list, fail_pre_fd, telling, connects, serfd,
                     logins, masterStreams, memberState, ended>>
    BY DEF StartReader, FTypes, serverState
<1>3. starting' \in Nat /\ readers' \subseteq Servers
    BY <1>2 DEF FTypes, MasterTypeOK
<1>4. MasterTypeOK'
    BY <1>2, <1>3 DEF FTypes, MasterTypeOK, masterStreams
<1>5. MemberTypeOK' /\ ended' \subseteq Servers \ alive'
    BY <1>2 DEF FTypes, MemberTypeOK, memberState
<1> QED
    BY <1>1, <1>2, <1>4, <1>5 DEF FTypes

\* A report of a server is read.
LEMMA ReportRead ==
    ASSUME FTypes, NEW s \in Servers, NEW operation, Arrives(s, operation)
    PROVE  /\ Pop(to_master, s) \in [Servers -> Seq(Reports)]
           /\ Head(to_master[s]) \in Reports
           /\ operation = "ACK_LAST" => Head(to_master[s]).sn \in Int
<1>1. /\ Pop(to_master, s) \in [Servers -> Seq(Reports)]
      /\ Head(to_master[s]) \in Reports
    BY PopType DEF FTypes, MasterTypeOK, Arrives
<1> QED
    BY <1>1 DEF Reports, Arrives

\* A number is passed on.
LEMMA RecAckLastTypes ==
    ASSUME FTypes, NEW s \in Servers, RecAckLast(s), UNCHANGED <<clientState, memberState, ended>>
    PROVE  FTypes'
<1>1. /\ Pop(to_master, s) \in [Servers -> Seq(Reports)]
      /\ Head(to_master[s]).sn \in Int
    BY ReportRead DEF RecAckLast
<1>2. [op |-> "NEXT_SN", sn |-> Head(to_master[s]).sn] \in Notices
    BY <1>1 DEF Notices
<1>3. from_master' \in [Servers -> Seq(Notices)]
    BY <1>2, NotifyType DEF RecAckLast, FTypes, MasterTypeOK
<1>4. /\ to_master' = Pop(to_master, s)
      /\ UNCHANGED <<serverState, network, alive, masterState, memberState, ended>>
    BY DEF RecAckLast
<1>5. Typed(Streamed, EndNotices)'
    BY <1>4, TypedKept DEF FTypes, network, Typed, ClientTypes
<1> QED
    BY <1>1, <1>3, <1>4, <1>5
    DEF FTypes, MasterTypeOK, MemberTypeOK, masterState, memberState, serverState

\* A new tail is listed.
LEMMA RecNewTailTypes ==
    ASSUME FTypes, NEW s \in Servers, RecNewTail(s), UNCHANGED <<clientState, memberState, ended>>
    PROVE  FTypes'
<1> DEFINE b == Bank(s)
           list == Append(server_list[b], Listed(s))
<1>1. /\ server_list \in [Banks -> Seq(Entries)]
      /\ DOMAIN to_client \subseteq Reply \cup EndNotices
    BY DEF FTypes, MasterTypeOK, Entries, Typed, ClientTypes
<1>2. b \in Banks /\ Listed(s) \in Entries
    BY ChainEnds DEF Listed, Entries
<1>3. list \in Seq(Entries) /\ list # <<>>
    BY <1>1, <1>2
<1>4. Pop(to_master, s) \in [Servers -> Seq(Reports)]
    BY ReportRead DEF RecNewTail
<1>5. /\ server_list' = [server_list EXCEPT ![b] = list]
      /\ to_client' = MulticastClient(b, list)
      /\ to_master' = Pop(to_master, s)
      /\ UNCHANGED <<serverState, to_server, alive, fail_pre_fd, telling, connects, serfd,
                     starting, readers, logins, from_master>>
    BY DEF RecNewTail
<1> HIDE DEF b, list
<1>6. DOMAIN to_client' \subseteq Reply \cup EndNotices
    BY <1>1, <1>2, <1>3, <1>5, MulticastType
<1>7. Typed(Streamed, EndNotices)'
    BY <1>5, <1>6, TypedKept DEF FTypes
<1>8. /\ server_list' \in [Banks -> Seq(Entries)]
      /\ \A k \in Banks : server_list[k] # <<>> => server_list'[k] # <<>>
    BY <1>1, <1>2, <1>3, <1>5
<1>9. telling' # NoBank => server_list'[telling'] # <<>>
    BY <1>5, <1>8 DEF FTypes, MasterTypeOK
<1>10. UNCHANGED from_pre
    BY <1>5 DEF serverState
<1> QED
    BY <1>4, <1>5, <1>7, <1>8, <1>9, <1>10
    DEF FTypes, MasterTypeOK, MemberTypeOK, memberState, Entries

\* Every step of the master keeps the types.
LEMMA MasterStepTypes ==
    ASSUME FTypes, FMasterStep
    PROVE  FTypes'
BY RecvLoginTypes, RoundAskReceiveTypes, RecAckLastTypes, RecNewTailTypes, RoundAskCheckTypes,
   AcceptServerTypes, StartReaderTypes
DEF FMasterStep, MasterStep, RecFromServer

--------------------------------------------------------------------------------
\* Servers that enter, leave and repair their chain.

\* The master's part, when only streams with servers and who runs change.
LEMMA MasterKept ==
    ASSUME MasterTypeOK, UNCHANGED masterState, alive' \subseteq Servers,
           from_master' \in [Servers -> Seq(Notices)],
           to_master' \in [Servers -> Seq(Reports)]
    PROVE  MasterTypeOK'
BY DEF MasterTypeOK, masterState

\* The servers' part, when only connections and what is under way change.
LEMMA TypedRewired ==
    ASSUME Typed(Streamed, EndNotices), UNCHANGED <<books, to_client, clientState>>,
           TopologyTypeOK',
           from_pre' \in [Servers -> Seq(Streamed)],
           from_next' \in [Servers -> Seq(Request)],
           DOMAIN to_server' \subseteq Mails
    PROVE  Typed(Streamed, EndNotices)'
BY DEF Typed, ServerTypes, ClientTypes, books, clientState, Queue

\* The handful of facts about types that the following need.
LEMMA FTypesFacts ==
    ASSUME FTypes
    PROVE  /\ TopologyTypeOK
           /\ from_pre \in [Servers -> Seq(Streamed)]
           /\ from_next \in [Servers -> Seq(Request)]
           /\ DOMAIN to_server \subseteq Mails
           /\ alive \subseteq Servers /\ connecting \subseteq Servers /\ accepting \subseteq alive
           /\ from_master \in [Servers -> Seq(Notices)]
           /\ to_master \in [Servers -> Seq(Reports)]
           /\ pre_port \in [Servers -> Servers \cup {NoServer}]
           /\ hist \in [Servers -> DOMAIN AfterPart \cup {"SEND_END", "none"}]
BY DEF FTypes, Typed, ServerTypes, MasterTypeOK, MemberTypeOK

\* An empty stream is one.
LEMMA EmptyStreams ==
    ASSUME FTypes
    PROVE  \A s \in Servers : /\ [from_pre EXCEPT ![s] = <<>>] \in [Servers -> Seq(Streamed)]
                              /\ [from_next EXCEPT ![s] = <<>>] \in [Servers -> Seq(Request)]
                              /\ [from_master EXCEPT ![s] = <<>>] \in [Servers -> Seq(Notices)]
<1>1. <<>> \in Seq(Streamed) /\ <<>> \in Seq(Request) /\ <<>> \in Seq(Notices)
    OBVIOUS
<1> QED
    BY <1>1, FTypesFacts

\* A server starts.
LEMMA StartServerTypes ==
    ASSUME FTypes, NEW s \in Servers, s \notin ended, StartServer(s), UNCHANGED ended
    PROVE  FTypes'
<1>1. /\ alive' = alive \cup {s} /\ connects' = Append(connects, s)
      /\ accepting' = accepting \cup {s}
      /\ DOMAIN to_server' \subseteq DOMAIN to_server
      /\ UNCHANGED <<serverState, to_client, clientState, server_list, fail_pre_fd, telling,
                     serfd, starting, readers, logins, masterStreams, pre_port, connecting,
                     hist>>
    BY DEF StartServer
<1>2. Typed(Streamed, EndNotices)'
    BY <1>1 DEF FTypes, Typed, ServerTypes, ClientTypes, TopologyTypeOK, serverState, topology,
                clientState, Queue
<1>3. connects' \in Seq(Servers)
    BY <1>1 DEF FTypes, MasterTypeOK
<1>4. MasterTypeOK'
    BY <1>1, <1>3 DEF FTypes, MasterTypeOK, masterStreams
<1>5. MemberTypeOK'
    BY <1>1 DEF FTypes, MemberTypeOK, serverState
<1> QED
    BY <1>1, <1>2, <1>4, <1>5 DEF FTypes

\* A server dies.
LEMMA CrashTypes ==
    ASSUME FTypes, NEW s \in Servers, Crash(s), ended' = ended \cup {s}
    PROVE  FTypes'
<1>1. /\ s \in alive /\ alive' = alive \ {s}
      /\ next_fd' = [p \in Servers |-> IF p = s \/ next_fd[p] = s THEN NoServer ELSE next_fd[p]]
      /\ pre_fd' = [t \in Servers |-> IF t = s \/ pre_fd[t] = s THEN NoServer ELSE pre_fd[t]]
      /\ from_pre' = [from_pre EXCEPT ![s] = <<>>]
      /\ from_next' = [from_next EXCEPT ![s] = <<>>]
      /\ from_master' = [from_master EXCEPT ![s] = <<>>]
      /\ connecting' \subseteq connecting
      /\ accepting' = accepting \ {s}
      /\ hist' = [hist EXCEPT ![s] = "none"]
      /\ UNCHANGED <<my_type, all_heads, all_tails, books, network, clientState, masterState,
                     to_master, pre_port>>
    BY DEF Crash, elsewhere
<1>2. TopologyTypeOK'
    BY <1>1, FTypesFacts DEF TopologyTypeOK
<1>3. Typed(Streamed, EndNotices)'
    BY <1>1, <1>2, FTypesFacts, EmptyStreams, TypedRewired DEF FTypes, network
<1>4. MasterTypeOK'
    BY <1>1, FTypesFacts, EmptyStreams, MasterKept DEF FTypes
<1>5. MemberTypeOK'
    BY <1>1, FTypesFacts, EmptyStreams DEF MemberTypeOK
<1>6. UNCHANGED <<starting, serfd, telling, server_list>>
    BY <1>1 DEF masterState
<1> QED
    BY <1>1, <1>3, <1>4, <1>5, <1>6 DEF FTypes

\* A notice that is read.
LEMMA NoticeRead ==
    ASSUME FTypes, NEW s \in Servers, NEW operation, ReadNotice(s, operation)
    PROVE  /\ from_master' \in [Servers -> Seq(Notices)]
           /\ Notice(s) \in Notices /\ Notice(s).op = operation
           /\ s \in alive
BY PopType, FTypesFacts DEF ReadNotice, Notice

\* The steps that follow change nothing but what MemberStep names.
LEMMA MemberKept ==
    ASSUME FTypes, Typed(Streamed, EndNotices)', MemberTypeOK',
           UNCHANGED <<masterState, alive, ended>>,
           from_master' \in [Servers -> Seq(Notices)],
           to_master' \in [Servers -> Seq(Reports)]
    PROVE  FTypes'
<1>1. MasterTypeOK'
    BY MasterKept, FTypesFacts DEF FTypes
<1> QED
    BY <1>1 DEF FTypes, masterState

\* GET_PRE
LEMMA GetPreTypes ==
    ASSUME FTypes, NEW s \in Servers, GetPre(s), UNCHANGED ended
    PROVE  FTypes'
<1>1. /\ from_master' \in [Servers -> Seq(Notices)]
      /\ Notice(s) \in Notices /\ Notice(s).op = "GET_PRE"
    BY NoticeRead DEF GetPre
<1>2. Notice(s).port \in Servers \cup {NoServer}
    BY <1>1 DEF Notices
<1>3. /\ pre_port' \in {pre_port, [pre_port EXCEPT ![s] = Notice(s).port]}
      /\ connecting' \in {connecting, connecting \cup {s}}
      /\ UNCHANGED <<serverState, network, clientState, masterState, alive, to_master,
                     accepting, hist>>
    BY DEF GetPre, elsewhere
<1>4. Typed(Streamed, EndNotices)'
    BY <1>3, TypedKept DEF FTypes, network, Typed, ClientTypes
<1>5. MemberTypeOK'
    BY <1>2, <1>3, FTypesFacts DEF MemberTypeOK, serverState
<1> QED
    BY <1>1, <1>3, <1>4, <1>5, FTypesFacts, MemberKept

\* A connection that is closed leaves types.
LEMMA CloseTypes ==
    ASSUME FTypes, NEW s \in Servers
    PROVE  /\ ClosePre(s) => /\ pre_fd' \in [Servers -> Servers \cup {NoServer}]
                             /\ next_fd' \in [Servers -> Servers \cup {NoServer}]
                             /\ from_pre' \in [Servers -> Seq(Streamed)]
           /\ CloseNext(s) => /\ pre_fd' \in [Servers -> Servers \cup {NoServer}]
                              /\ next_fd' \in [Servers -> Servers \cup {NoServer}]
                              /\ from_next' \in [Servers -> Seq(Request)]
<1>1. /\ pre_fd \in [Servers -> Servers \cup {NoServer}]
      /\ next_fd \in [Servers -> Servers \cup {NoServer}]
    BY FTypesFacts DEF TopologyTypeOK
<1>2. ASSUME ClosePre(s)
      PROVE  /\ pre_fd' \in [Servers -> Servers \cup {NoServer}]
             /\ next_fd' \in [Servers -> Servers \cup {NoServer}]
    BY <1>1, <1>2 DEF ClosePre
<1>3. ASSUME ClosePre(s)
      PROVE  from_pre' \in [Servers -> Seq(Streamed)]
    BY <1>3, EmptyStreams DEF ClosePre
<1>4. ASSUME CloseNext(s)
      PROVE  /\ pre_fd' \in [Servers -> Servers \cup {NoServer}]
             /\ next_fd' \in [Servers -> Servers \cup {NoServer}]
    BY <1>1, <1>4 DEF CloseNext
<1>5. ASSUME CloseNext(s)
      PROVE  from_next' \in [Servers -> Seq(Request)]
    BY <1>5, EmptyStreams DEF CloseNext
<1> QED
    BY <1>2, <1>3, <1>4, <1>5

\* HEAD_FAIL
LEMMA HeadFailTypes ==
    ASSUME FTypes, NEW s \in Servers, HeadFail(s), UNCHANGED ended
    PROVE  FTypes'
<1>1. from_master' \in [Servers -> Seq(Notices)]
    BY NoticeRead DEF HeadFail
<1>2. my_type' \in [Servers -> Roles]
    BY FTypesFacts DEF HeadFail, TopologyTypeOK, Roles
<1>3. ClosePre(s)
    BY DEF HeadFail
<1>4. UNCHANGED <<all_heads, all_tails, books, from_next, network, clientState, masterState,
                  alive, to_master, memberState>>
    BY DEF HeadFail, elsewhere
<1>5. TopologyTypeOK'
    BY <1>2, <1>3, <1>4, CloseTypes, FTypesFacts DEF TopologyTypeOK
<1>6. from_pre' \in [Servers -> Seq(Streamed)]
    BY <1>3, CloseTypes
<1>7. Typed(Streamed, EndNotices)'
    BY <1>4, <1>5, <1>6, FTypesFacts, TypedRewired DEF FTypes, network
<1>8. MemberTypeOK'
    BY <1>4, <1>6, FTypesFacts DEF MemberTypeOK, memberState
<1> QED
    BY <1>1, <1>4, <1>7, <1>8, FTypesFacts, MemberKept

\* A server that listens again runs.
LEMMA ListenAgainTypes ==
    ASSUME FTypes, NEW s \in alive, ListenAgain(s)
    PROVE  /\ accepting' \subseteq alive
           /\ hist' \in [Servers -> DOMAIN AfterPart \cup {"SEND_END", "none"}]
BY FTypesFacts DEF ListenAgain

\* TAIL_FAIL
LEMMA TailFailTypes ==
    ASSUME FTypes, NEW s \in Servers, TailFail(s), UNCHANGED ended
    PROVE  FTypes'
<1>1. from_master' \in [Servers -> Seq(Notices)] /\ s \in alive
    BY NoticeRead DEF TailFail
<1>2. my_type' \in [Servers -> Roles]
    BY FTypesFacts DEF TailFail, TopologyTypeOK, Roles
<1>3. CloseNext(s) /\ ListenAgain(s)
    BY DEF TailFail
<1>4. UNCHANGED <<all_heads, all_tails, books, from_pre, network, clientState, masterState,
                  alive, to_master, pre_port, connecting>>
    BY DEF TailFail, elsewhere
<1>5. TopologyTypeOK'
    BY <1>2, <1>3, <1>4, CloseTypes, FTypesFacts DEF TopologyTypeOK
<1>6. from_next' \in [Servers -> Seq(Request)]
    BY <1>3, CloseTypes
<1>7. Typed(Streamed, EndNotices)'
    BY <1>4, <1>5, <1>6, FTypesFacts, TypedRewired DEF FTypes, network
<1>8. MemberTypeOK'
    BY <1>1, <1>3, <1>4, ListenAgainTypes, FTypesFacts DEF MemberTypeOK
<1> QED
    BY <1>1, <1>4, <1>7, <1>8, FTypesFacts, MemberKept

\* A number that goes through a char is a number.
LEMMA AsCharType ==
    ASSUME NEW n \in Nat
    PROVE  AsChar(n) \in Int
<1>1. n % CharValues \in Int /\ CharValues \in Int
    BY MemberAssumption
<1> QED
    BY <1>1 DEF AsChar

\* INTER_PRE_FAIL
LEMMA InterPreFailTypes ==
    ASSUME FTypes, NEW s \in Servers, InterPreFail(s), UNCHANGED ended
    PROVE  FTypes'
<1>1. /\ from_master' \in [Servers -> Seq(Notices)] /\ s \in alive
      /\ Notice(s) \in Notices /\ Notice(s).op = "INTER_PRE_FAIL"
    BY NoticeRead DEF InterPreFail
<1>2. Notice(s).port \in Servers \cup {NoServer}
    BY <1>1 DEF Notices
<1>3. ClosePre(s)
    BY DEF InterPreFail
<1>4. /\ pre_port' = [pre_port EXCEPT ![s] = Notice(s).port]
      /\ connecting' = connecting \cup {s}
      /\ UNCHANGED <<my_type, all_heads, all_tails, books, from_next, network, clientState,
                     masterState, alive, accepting, hist>>
    BY DEF InterPreFail, elsewhere
<1>5. TopologyTypeOK'
    BY <1>3, <1>4, CloseTypes, FTypesFacts DEF TopologyTypeOK
<1>6. from_pre' \in [Servers -> Seq(Streamed)]
    BY <1>3, CloseTypes
<1>7. Typed(Streamed, EndNotices)'
    BY <1>4, <1>5, <1>6, FTypesFacts, TypedRewired DEF FTypes, network
<1>8. MemberTypeOK'
    BY <1>2, <1>4, <1>6, FTypesFacts DEF MemberTypeOK
<1>9. to_master' \in [Servers -> Seq(Reports)]
  <2>1. last_received_id[s] \in Nat
      BY DEF FTypes, Typed, ServerTypes
  <2>2. [op |-> "ACK_LAST", sn |-> AsChar(last_received_id[s])] \in Reports
      BY <2>1, AsCharType DEF Reports
  <2> QED
      BY <2>2, FTypesFacts DEF InterPreFail
<1> QED
    BY <1>1, <1>4, <1>7, <1>8, <1>9, MemberKept

\* INTER_NEXT_FAIL
LEMMA InterNextFailTypes ==
    ASSUME FTypes, NEW s \in Servers, InterNextFail(s), UNCHANGED ended
    PROVE  FTypes'
<1>1. from_master' \in [Servers -> Seq(Notices)] /\ s \in alive
    BY NoticeRead DEF InterNextFail
<1>2. CloseNext(s) /\ ListenAgain(s)
    BY DEF InterNextFail
<1>3. UNCHANGED <<my_type, all_heads, all_tails, books, from_pre, network, clientState,
                  masterState, alive, to_master, pre_port, connecting>>
    BY DEF InterNextFail, elsewhere
<1>4. TopologyTypeOK'
    BY <1>2, <1>3, CloseTypes, FTypesFacts DEF TopologyTypeOK
<1>5. from_next' \in [Servers -> Seq(Request)]
    BY <1>2, CloseTypes
<1>6. Typed(Streamed, EndNotices)'
    BY <1>3, <1>4, <1>5, FTypesFacts, TypedRewired DEF FTypes, network
<1>7. MemberTypeOK'
    BY <1>1, <1>2, <1>3, ListenAgainTypes, FTypesFacts DEF MemberTypeOK
<1> QED
    BY <1>1, <1>3, <1>6, <1>7, FTypesFacts, MemberKept

\* NEXT_SN
LEMMA NextSnTypes ==
    ASSUME FTypes, NEW s \in Servers, NextSn(s), UNCHANGED ended
    PROVE  FTypes'
<1> DEFINE missing == LargerThan(s, Notice(s).sn)
           messages == [i \in DOMAIN missing |-> [op |-> "LARGER_SN_LIST", req |-> missing[i]]]
<1>1. from_master' \in [Servers -> Seq(Notices)]
    BY NoticeRead DEF NextSn
<1>2. missing \in Seq(Request)
    BY LargerThanType DEF FTypes, Typed, ServerTypes
<1> HIDE DEF missing
<1>3. messages \in Seq(Streamed)
  <2>1. DOMAIN missing = 1 .. Len(missing) /\ Len(missing) \in Nat
      BY <1>2
  <2>2. \A i \in DOMAIN missing : [op |-> "LARGER_SN_LIST", req |-> missing[i]] \in Streamed
      BY <1>2 DEF Streamed
  <2> QED
      BY <2>1, <2>2
<1>4. /\ from_pre' = IF next_fd[s] = NoServer THEN from_pre
                     ELSE [from_pre EXCEPT ![next_fd[s]] = @ \o messages]
      /\ UNCHANGED <<topology, books, from_next, network, clientState, masterState, alive,
                     to_master, memberState>>
    BY DEF NextSn, missing, elsewhere
<1> HIDE DEF messages
<1>5. from_pre' \in [Servers -> Seq(Streamed)]
    BY <1>3, <1>4, FTypesFacts DEF TopologyTypeOK
<1>6. TopologyTypeOK'
    BY <1>4, FTypesFacts DEF TopologyTypeOK, topology
<1>7. Typed(Streamed, EndNotices)'
    BY <1>4, <1>5, <1>6, FTypesFacts, TypedRewired DEF FTypes, network
<1>8. MemberTypeOK'
    BY <1>4, <1>5, FTypesFacts DEF MemberTypeOK, memberState
<1> QED
    BY <1>1, <1>4, <1>7, <1>8, FTypesFacts, MemberKept

\* A tail that learns of a new head ships to it again.
LEMMA TransHeadFailTypes ==
    ASSUME FTypes, NEW s \in Servers, TransHeadFail(s), UNCHANGED ended
    PROVE  FTypes'
<1> DEFINE b == Notice(s).bank_id
           port == Notice(s).port
<1>1. /\ from_master' \in [Servers -> Seq(Notices)]
      /\ Notice(s) \in Notices /\ Notice(s).op = "TRANS_HEAD_FAIL"
    BY NoticeRead DEF TransHeadFail
<1>2. b \in Banks /\ port \in Servers
    BY <1>1 DEF Notices
<1>3. /\ all_heads' = [all_heads EXCEPT ![s][b] = port]
      /\ to_server' = Deliver(to_server, ResendTransfers(s, b, port))
      /\ UNCHANGED <<my_type, next_fd, pre_fd, all_tails, books, from_pre, from_next,
                     to_client, clientState, masterState, alive, to_master, memberState>>
    BY DEF TransHeadFail
<1> HIDE DEF b, port
<1>4. \A m \in ResendTransfers(s, b, port) : m \in Mails
  <2>1. sent[s] \in Seq(Request)
      BY DEF FTypes, Typed, ServerTypes
  <2>2. \A q \in ToSet(sent[s]) : q \in Request
      BY <2>1 DEF ToSet
  <2>3. \A q \in Request : Mail("REQUEST", port, q) \in Mails
      BY <1>2 DEF Mail, Mails
  <2> QED
      BY <2>2, <2>3 DEF ResendTransfers
<1>5. DOMAIN to_server' \subseteq Mails
    BY <1>3, <1>4, FTypesFacts, DeliverProperty
<1>6. all_heads' \in [Servers -> [Banks -> Servers]]
    BY <1>2, <1>3, FTypesFacts DEF TopologyTypeOK
<1>7. TopologyTypeOK'
    BY <1>3, <1>6, FTypesFacts DEF TopologyTypeOK
<1>8. Typed(Streamed, EndNotices)'
    BY <1>3, <1>5, <1>7, FTypesFacts, TypedRewired DEF FTypes
<1>9. MemberTypeOK'
    BY <1>3, FTypesFacts DEF MemberTypeOK, memberState
<1> QED
    BY <1>1, <1>3, <1>8, <1>9, FTypesFacts, MemberKept

\* And a server that learns of a new tail writes it down.
LEMMA TransTailFailTypes ==
    ASSUME FTypes, NEW s \in Servers, TransTailFail(s), UNCHANGED ended
    PROVE  FTypes'
<1> DEFINE b == Notice(s).bank_id
           port == Notice(s).port
<1>1. /\ from_master' \in [Servers -> Seq(Notices)]
      /\ Notice(s) \in Notices /\ Notice(s).op = "TRANS_TAIL_FAIL"
    BY NoticeRead DEF TransTailFail
<1>2. b \in Banks /\ port \in Servers
    BY <1>1 DEF Notices
<1>3. /\ all_tails' = [all_tails EXCEPT ![s][b] = port]
      /\ UNCHANGED <<my_type, next_fd, pre_fd, all_heads, books, from_pre, from_next,
                     network, clientState, masterState, alive, to_master, memberState>>
    BY DEF TransTailFail, elsewhere
<1> HIDE DEF b, port
<1>6. all_tails' \in [Servers -> [Banks -> Servers]]
    BY <1>2, <1>3, FTypesFacts DEF TopologyTypeOK
<1>7. TopologyTypeOK'
    BY <1>3, <1>6, FTypesFacts DEF TopologyTypeOK
<1>8. Typed(Streamed, EndNotices)'
    BY <1>3, <1>7, FTypesFacts, TypedRewired DEF FTypes, network
<1>9. MemberTypeOK'
    BY <1>3, FTypesFacts DEF MemberTypeOK, memberState
<1> QED
    BY <1>1, <1>3, <1>8, <1>9, FTypesFacts, MemberKept

\* Whatever the master's notice is.
LEMMA NoticeTypes ==
    ASSUME FTypes, NEW s \in Servers, RecMsgFromMaster(s), UNCHANGED ended
    PROVE  FTypes'
BY GetPreTypes, HeadFailTypes, TailFailTypes, InterPreFailTypes, InterNextFailTypes, NextSnTypes,
   TransHeadFailTypes, TransTailFailTypes
DEF RecMsgFromMaster

\* A server connects to its predecessor.
LEMMA JoinTypes ==
    ASSUME FTypes, NEW s \in Servers, Join(s), UNCHANGED ended
    PROVE  FTypes'
<1> DEFINE p == pre_port[s]
<1>1. /\ s \in connecting /\ p \in accepting /\ p \in Servers
      /\ pre_fd' = [pre_fd EXCEPT ![s] = p]
      /\ next_fd' = [next_fd EXCEPT ![p] = s]
      /\ from_pre' = [from_pre EXCEPT ![s] = <<>>]
      /\ from_next' = [from_next EXCEPT ![p] = <<>>]
      /\ accepting' = accepting \ {p}
      /\ hist' = [hist EXCEPT ![p] = IF Tails(p) THEN "SEND_PROCE" ELSE "none"]
      /\ connecting' = connecting \ {s}
      /\ UNCHANGED <<my_type, all_heads, all_tails, books, network, clientState, masterState,
                     alive, masterStreams, pre_port>>
    BY FTypesFacts DEF Join, elsewhere
<1> HIDE DEF p
<1>2. /\ pre_fd' \in [Servers -> Servers \cup {NoServer}]
      /\ next_fd' \in [Servers -> Servers \cup {NoServer}]
    BY <1>1, FTypesFacts DEF TopologyTypeOK
<1>3. TopologyTypeOK'
    BY <1>1, <1>2, FTypesFacts DEF TopologyTypeOK
<1>4. /\ from_pre' \in [Servers -> Seq(Streamed)]
      /\ from_next' \in [Servers -> Seq(Request)]
    BY <1>1, EmptyStreams
<1>5. Typed(Streamed, EndNotices)'
    BY <1>1, <1>3, <1>4, FTypesFacts, TypedRewired DEF FTypes, network
<1>6. hist' \in [Servers -> DOMAIN AfterPart \cup {"SEND_END", "none"}]
  <2>1. (IF Tails(p) THEN "SEND_PROCE" ELSE "none") \in DOMAIN AfterPart \cup {"SEND_END", "none"}
      BY DEF AfterPart
  <2> QED
      BY <1>1, <2>1, FTypesFacts
<1>7. MemberTypeOK'
    BY <1>1, <1>4, <1>6, FTypesFacts DEF MemberTypeOK
<1> QED
    BY <1>1, <1>5, <1>7, FTypesFacts, MemberKept DEF masterStreams

\* A part of the history is a message on a stream.
LEMMA HistMessageType ==
    ASSUME FTypes, NEW s \in Servers, hist[s] \in DOMAIN AfterPart
    PROVE  HistMessage(s) \in Streamed
<1>1. /\ processed_trans[s] \in Seq(Request) /\ insuf_funds_trans[s] \in Seq(Request)
      /\ sent[s] \in Seq(Request) /\ balance_map[s] \in [Accounts -> Int]
    BY DEF FTypes, Typed, ServerTypes
<1>2. hist[s] \in {"SEND_PROCE", "SEND_INSUF", "SEND_SENT", "SEND_MAP"}
    BY DEF AfterPart
<1> QED
    BY <1>1, <1>2 DEF HistMessage, Streamed

\* One list goes to a new tail.
LEMMA SendHistPartTypes ==
    ASSUME FTypes, NEW s \in Servers, SendHistPart(s), UNCHANGED ended
    PROVE  FTypes'
<1>1. /\ hist[s] \in DOMAIN AfterPart
      /\ from_pre' = Push(from_pre, next_fd[s], HistMessage(s))
      /\ hist' = [hist EXCEPT ![s] = AfterPart[@]]
      /\ UNCHANGED <<topology, books, from_next, network, clientState, masterState, alive,
                     masterStreams, pre_port, connecting, accepting>>
    BY DEF SendHistPart, elsewhere
<1>2. next_fd[s] \in Servers \cup {NoServer}
    BY FTypesFacts DEF TopologyTypeOK
<1>3. from_pre' \in [Servers -> Seq(Streamed)]
    BY <1>1, <1>2, HistMessageType, PushType, FTypesFacts
<1>4. TopologyTypeOK'
    BY <1>1, FTypesFacts DEF TopologyTypeOK, topology
<1>5. Typed(Streamed, EndNotices)'
    BY <1>1, <1>3, <1>4, FTypesFacts, TypedRewired DEF FTypes, network
<1>6. \A h \in DOMAIN AfterPart : AfterPart[h] \in DOMAIN AfterPart \cup {"SEND_END", "none"}
    BY DEF AfterPart
<1>7. hist' \in [Servers -> DOMAIN AfterPart \cup {"SEND_END", "none"}]
    BY <1>1, <1>6, FTypesFacts
<1>8. MemberTypeOK'
    BY <1>1, <1>3, <1>7, FTypesFacts DEF MemberTypeOK
<1> QED
    BY <1>1, <1>5, <1>8, FTypesFacts, MemberKept DEF masterStreams

\* The history ends.
LEMMA SendHistEndTypes ==
    ASSUME FTypes, NEW s \in Servers, SendHistEnd(s), UNCHANGED ended
    PROVE  FTypes'
<1>1. /\ from_pre' = Push(from_pre, next_fd[s], [op |-> "SEND_END"])
      /\ my_type' \in {my_type, [my_type EXCEPT ![s] = BeforeTheTail(@)]}
      /\ hist' = [hist EXCEPT ![s] = "none"]
      /\ UNCHANGED <<next_fd, pre_fd, all_heads, all_tails, books, from_next, network,
                     clientState, masterState, alive, masterStreams, pre_port, connecting,
                     accepting>>
    BY DEF SendHistEnd, elsewhere
<1>2. next_fd[s] \in Servers \cup {NoServer} /\ [op |-> "SEND_END"] \in Streamed
    BY FTypesFacts DEF TopologyTypeOK, Streamed
<1>3. from_pre' \in [Servers -> Seq(Streamed)]
    BY <1>1, <1>2, PushType, FTypesFacts
<1>4. \A type \in Roles : BeforeTheTail(type) \in Roles
    BY DEF BeforeTheTail, Roles
<1>5. my_type' \in [Servers -> Roles]
  <2>1. my_type \in [Servers -> Roles] /\ BeforeTheTail(my_type[s]) \in Roles
      BY <1>4, FTypesFacts DEF TopologyTypeOK
  <2>2. [my_type EXCEPT ![s] = BeforeTheTail(@)] \in [Servers -> Roles]
      BY <2>1
  <2> QED
      BY <1>1, <2>1, <2>2
<1>6. TopologyTypeOK'
    BY <1>1, <1>5, FTypesFacts DEF TopologyTypeOK
<1>7. Typed(Streamed, EndNotices)'
    BY <1>1, <1>3, <1>6, FTypesFacts, TypedRewired DEF FTypes, network
<1>8. MemberTypeOK'
    BY <1>1, <1>3, FTypesFacts DEF MemberTypeOK
<1> QED
    BY <1>1, <1>7, <1>8, FTypesFacts, MemberKept DEF masterStreams

--------------------------------------------------------------------------------
\* What a server reads from its predecessor during a repair.

\* The message read, and what is left of the stream.
LEMMA RepairRead ==
    ASSUME FTypes, NEW s \in Servers, NEW operation, ReadPre(s, operation)
    PROVE  /\ from_pre' \in [Servers -> Seq(Streamed)]
           /\ Head(from_pre[s]) \in Streamed /\ Head(from_pre[s]).op = operation
BY PopType, FTypesFacts DEF ReadPre

\* The books, when a server has read something into them.
LEMMA BooksRead ==
    ASSUME FTypes,
           UNCHANGED <<topology, req_seq, last_received_id, from_next, network, clientState,
                       masterState, alive, masterStreams, memberState, ended>>,
           from_pre' \in [Servers -> Seq(Streamed)],
           balance_map' \in [Servers -> [Accounts -> Int]],
           processed_trans' \in [Servers -> Seq(Request)],
           insuf_funds_trans' \in [Servers -> Seq(Request)],
           sent' \in [Servers -> Seq(Request)]
    PROVE  FTypes'
<1>1. TopologyTypeOK'
    BY FTypesFacts DEF TopologyTypeOK, topology
<1>2. ServerTypes(Streamed)'
    BY <1>1 DEF FTypes, Typed, ServerTypes, network
<1>3. ClientTypes(EndNotices)'
    BY DEF FTypes, Typed, ClientTypes, clientState, network, Queue
<1>4. MemberTypeOK'
    BY FTypesFacts DEF MemberTypeOK, memberState
<1> QED
    BY <1>2, <1>3, <1>4, FTypesFacts, MemberKept DEF Typed, masterStreams

\* An update that was sent again is taken in.
LEMMA RecLargerSnTypes ==
    ASSUME FTypes, NEW s \in Servers, RecLargerSn(s), UNCHANGED ended
    PROVE  FTypes'
<1> DEFINE q == Head(from_pre[s]).req
           known == InSent(sent[s], q)
<1>1. /\ from_pre' \in [Servers -> Seq(Streamed)]
      /\ q \in Request
    BY RepairRead DEF RecLargerSn, Streamed
<1>2. /\ sent' = IF known THEN sent ELSE [sent EXCEPT ![s] = Append(@, q)]
      /\ balance_map' = IF ~known /\ q.status = "Need"
            THEN [balance_map EXCEPT ![s] = UpdateBalance(Bank(s), @, q)]
            ELSE balance_map
      /\ processed_trans' = IF ~known /\ q.status = "Need"
            THEN [processed_trans EXCEPT ![s] = Record(@, q)]
            ELSE processed_trans
      /\ insuf_funds_trans' = IF ~known /\ q.status = "InsufficientFunds"
            THEN [insuf_funds_trans EXCEPT ![s] = Append(@, q)]
            ELSE insuf_funds_trans
      /\ UNCHANGED <<topology, req_seq, last_received_id, from_next, network, clientState,
                     masterState, alive, masterStreams, memberState>>
    BY DEF RecLargerSn, elsewhere
<1> HIDE DEF q, known
<1>3. /\ processed_trans \in [Servers -> Seq(Request)]
      /\ insuf_funds_trans \in [Servers -> Seq(Request)]
      /\ sent \in [Servers -> Seq(Request)]
      /\ balance_map \in [Servers -> [Accounts -> Int]]
    BY DEF FTypes, Typed, ServerTypes
<1>4. UpdateBalance(Bank(s), balance_map[s], q) \in [Accounts -> Int]
    BY <1>1, <1>3, UpdateBalanceType
<1>5. Record(processed_trans[s], q) \in Seq(Request)
    BY <1>1, <1>3, RecordType
<1>6. balance_map' \in [Servers -> [Accounts -> Int]]
    BY <1>2, <1>3, <1>4
<1>7. processed_trans' \in [Servers -> Seq(Request)]
    BY <1>2, <1>3, <1>5
<1>8. insuf_funds_trans' \in [Servers -> Seq(Request)] /\ sent' \in [Servers -> Seq(Request)]
    BY <1>1, <1>2, <1>3
<1> QED
    BY <1>1, <1>2, <1>6, <1>7, <1>8, BooksRead

\* A list of the history is taken over.
LEMMA RecHistoryTypes ==
    ASSUME FTypes, NEW s \in Servers, RecHistory(s), UNCHANGED ended
    PROVE  FTypes'
<1>1. /\ processed_trans \in [Servers -> Seq(Request)]
      /\ insuf_funds_trans \in [Servers -> Seq(Request)]
      /\ sent \in [Servers -> Seq(Request)]
      /\ balance_map \in [Servers -> [Accounts -> Int]]
    BY DEF FTypes, Typed, ServerTypes
<1>2. UNCHANGED <<topology, req_seq, last_received_id, from_next, network, clientState,
                  masterState, alive, masterStreams, memberState>>
    BY DEF RecHistory, elsewhere
<1>3. PICK operation \in {"SEND_PROCE", "SEND_INSUF", "SEND_SENT", "SEND_MAP"} :
        ReadPre(s, operation)
    BY DEF RecHistory
<1>4. from_pre' \in [Servers -> Seq(Streamed)]
    BY <1>3, RepairRead
<1>5. CASE /\ ReadPre(s, "SEND_PROCE")
           /\ processed_trans' = [processed_trans EXCEPT ![s] = @ \o Head(from_pre[s]).list]
           /\ UNCHANGED <<insuf_funds_trans, sent, balance_map>>
  <2>1. Head(from_pre[s]).list \in Seq(Request)
      BY <1>5, RepairRead DEF Streamed
  <2>2. processed_trans' \in [Servers -> Seq(Request)]
      BY <1>1, <1>5, <2>1
  <2> QED
      BY <1>1, <1>2, <1>4, <1>5, <2>2, BooksRead
<1>6. CASE /\ ReadPre(s, "SEND_INSUF")
           /\ insuf_funds_trans' = [insuf_funds_trans EXCEPT ![s] = @ \o Head(from_pre[s]).list]
           /\ UNCHANGED <<processed_trans, sent, balance_map>>
  <2>1. Head(from_pre[s]).list \in Seq(Request)
      BY <1>6, RepairRead DEF Streamed
  <2>2. insuf_funds_trans' \in [Servers -> Seq(Request)]
      BY <1>1, <1>6, <2>1
  <2> QED
      BY <1>1, <1>2, <1>4, <1>6, <2>2, BooksRead
<1>7. CASE /\ ReadPre(s, "SEND_SENT")
           /\ sent' = [sent EXCEPT ![s] = @ \o Head(from_pre[s]).list]
           /\ UNCHANGED <<processed_trans, insuf_funds_trans, balance_map>>
  <2>1. Head(from_pre[s]).list \in Seq(Request)
      BY <1>7, RepairRead DEF Streamed
  <2>2. sent' \in [Servers -> Seq(Request)]
      BY <1>1, <1>7, <2>1
  <2> QED
      BY <1>1, <1>2, <1>4, <1>7, <2>2, BooksRead
<1>8. CASE /\ ReadPre(s, "SEND_MAP")
           /\ balance_map' = [balance_map EXCEPT ![s] = Head(from_pre[s]).balances]
           /\ UNCHANGED <<processed_trans, insuf_funds_trans, sent>>
  <2>1. Head(from_pre[s]).balances \in [Accounts -> Int]
      BY <1>8, RepairRead DEF Streamed
  <2>2. balance_map' \in [Servers -> [Accounts -> Int]]
      BY <1>1, <1>8, <2>1
  <2> QED
      BY <1>1, <1>2, <1>4, <1>8, <2>2, BooksRead
<1> QED
    BY <1>5, <1>6, <1>7, <1>8 DEF RecHistory

\* A new tail has its history.
LEMMA RecHistoryEndTypes ==
    ASSUME FTypes, NEW s \in Servers, RecHistoryEnd(s), UNCHANGED ended
    PROVE  FTypes'
<1>1. from_pre' \in [Servers -> Seq(Streamed)]
    BY RepairRead DEF RecHistoryEnd
<1>2. /\ my_type' = [my_type EXCEPT ![s] = "TAIL"]
      /\ to_master' = [to_master EXCEPT ![s] = Append(@, [op |-> "NEW_TAIL"])]
      /\ UNCHANGED <<next_fd, pre_fd, all_heads, all_tails, books, from_next, network,
                     clientState, masterState, alive, from_master, memberState>>
    BY DEF RecHistoryEnd, elsewhere
<1>3. to_master' \in [Servers -> Seq(Reports)]
  <2>1. [op |-> "NEW_TAIL"] \in Reports
      BY DEF Reports
  <2> QED
      BY <1>2, <2>1, FTypesFacts
<1>4. my_type' \in [Servers -> Roles]
    BY <1>2, FTypesFacts DEF TopologyTypeOK, Roles
<1>5. TopologyTypeOK'
    BY <1>2, <1>4, FTypesFacts DEF TopologyTypeOK
<1>6. Typed(Streamed, EndNotices)'
    BY <1>1, <1>2, <1>5, FTypesFacts, TypedRewired DEF FTypes, network
<1>7. MemberTypeOK'
    BY <1>1, <1>2, FTypesFacts DEF MemberTypeOK, memberState
<1> QED
    BY <1>2, <1>3, <1>6, <1>7, FTypesFacts, MemberKept

--------------------------------------------------------------------------------
\* All steps.

\* The steps of Chain change nothing but what Chain has.
LEMMA ChainStepTypes ==
    ASSUME FTypes, Typed(Streamed, EndNotices)', UNCHANGED processes
    PROVE  FTypes'
<1>1. from_pre' \in [Servers -> Seq(Streamed)]
    BY DEF Typed, ServerTypes
<1>2. MemberTypeOK'
    BY <1>1, FTypesFacts DEF processes, MemberTypeOK, memberState
<1>3. /\ from_master' \in [Servers -> Seq(Notices)]
      /\ to_master' \in [Servers -> Seq(Reports)]
    BY FTypesFacts DEF processes, masterStreams
<1> QED
    BY <1>2, <1>3, MemberKept DEF processes

\* The steps of one server.
LEMMA FServerStepTypes ==
    ASSUME FTypes, NEW s \in Servers, FServerStep(s)
    PROVE  FTypes'
<1>1. CASE ThreadClient(s)
    BY <1>1, RecUpdateType, RecQueryType, RecUnknownType, StreamedFits, ChainStepTypes
    DEF ThreadClient, RecClient, FTypes
<1>2. CASE s \in alive /\ RecForward(s) /\ UNCHANGED <<clientState, processes>>
    BY <1>2, RecForwardType, StreamedFits, ChainStepTypes DEF FTypes
<1>3. CASE RecRepair(s) /\ UNCHANGED ended
    BY <1>3, RecLargerSnTypes, RecHistoryTypes, RecHistoryEndTypes DEF RecRepair
<1>4. CASE ThreadNext(s)
    BY <1>4, RecAckType, StreamedFits, ChainStepTypes DEF ThreadNext, FTypes
<1>5. CASE ThreadOtherBank(s)
    BY <1>5, RecOtherBankType, StreamedFits, ChainStepTypes DEF ThreadOtherBank, FTypes
<1>6. CASE ThreadMaster(s)
    BY <1>6, NoticeTypes DEF ThreadMaster
<1>7. CASE ThreadConnect(s)
    BY <1>7, JoinTypes, CrashTypes DEF ThreadConnect, ConnectFails
<1>8. CASE ThreadAccept(s)
    BY <1>8, SendHistPartTypes, SendHistEndTypes DEF ThreadAccept
<1>9. CASE Start(s)
    BY <1>9, StartServerTypes DEF Start
<1>10. CASE Fail(s)
    BY <1>10, CrashTypes DEF Fail
<1> QED
    BY <1>1, <1>2, <1>3, <1>4, <1>5, <1>6, <1>7, <1>8, <1>9, <1>10 DEF FServerStep, ThreadPre

\* Every step keeps the types.
LEMMA FTypesStep ==
    ASSUME FTypes, [FNext]_fvars
    PROVE  FTypes'
<1>1. ASSUME NEW c \in Clients, FClientStep(c) PROVE FTypes'
  <2>1. ClientStep(c) /\ UNCHANGED processes
      BY <1>1 DEF FClientStep, ThreadMain, ThreadRecv, ThreadResend, ClientStep
  <2> QED
      BY <2>1, ClientStepType, StreamedFits, ChainStepTypes DEF FTypes
<1>2. CASE FLose
    BY <1>2, LoseType, StreamedFits, ChainStepTypes DEF FLose, FTypes
<1>3. CASE UNCHANGED fvars
  <2>1. Typed(Streamed, EndNotices)'
      BY <1>3, TypesStep, StreamedFits DEF fvars, FTypes
  <2> QED
      BY <1>3, <2>1, ChainStepTypes DEF fvars
<1> QED
    BY <1>1, <1>2, <1>3, FServerStepTypes, MasterStepTypes DEF FNext

--------------------------------------------------------------------------------
\* The chains formed.

\* The places of the servers of the configuration.
LEMMA Places ==
    ASSUME NEW s \in Servers
    PROVE  /\ s = <<Bank(s), s[2]>> /\ Bank(s) \in Banks
           /\ s[2] \in 1 .. ChainLength[Bank(s)]
           /\ ChainLength[Bank(s)] \in Nat /\ Formed[Bank(s)] \in Nat
           /\ Formed[Bank(s)] <= ChainLength[Bank(s)]
<1>1. PICK b \in Banks : s \in {<<b, i>> : i \in 1 .. ChainLength[b]}
    BY DEF Servers
<1>2. PICK i \in 1 .. ChainLength[b] : s = <<b, i>>
    BY <1>1
<1> QED
    BY <1>2, ChainLengthAssumption, FailoverAssumption DEF Bank

\* They form with the right types.
LEMMA FInitTypes ==
    ASSUME FInit
    PROVE  FTypes
<1>1. /\ NoServer \notin alive /\ alive \subseteq Servers /\ accepting \subseteq alive
  <2>1. alive = {s \in Servers : InChain(s)}
        /\ accepting = {s \in Servers : s[2] = Formed[Bank(s)]}
      BY DEF FInit, MembersInit
  <2>2. ASSUME NEW s \in Servers, s[2] = Formed[Bank(s)]
        PROVE  InChain(s)
      BY <2>2, Places DEF InChain
  <2>3. NoServer \notin Servers
      BY Places, NoBankAssumption DEF NoServer, Bank
  <2> QED
      BY <2>1, <2>2, <2>3
<1>2. TopologyTypeOK
  <2>1. \A i, n : RoleAt(i, n) \in Roles
      BY DEF RoleAt, Roles
  <2>2. my_type \in [Servers -> Roles]
    <3>1. "HEAD_TAIL" \in Roles /\ "TAIL" \in Roles
        BY DEF Roles
    <3> QED
        BY <2>1, <3>1 DEF FInit, MembersInit
  <2>3. \A s \in Servers : s[2] < Formed[Bank(s)] => Next1(s) \in Servers
    <3>1. SUFFICES ASSUME NEW s \in Servers, s[2] < Formed[Bank(s)]
                   PROVE  ~IsLast(s)
        BY ChainEnds
    <3>2. s[2] # ChainLength[Bank(s)]
        BY <3>1, Places
    <3> QED
        BY <3>2 DEF IsLast, LastServer
  <2>4. /\ next_fd \in [Servers -> Servers \cup {NoServer}]
        /\ pre_fd \in [Servers -> Servers \cup {NoServer}]
      BY <2>3, ChainEnds DEF FInit, MembersInit
  <2>5. /\ all_heads \in [Servers -> [Banks -> Servers]]
        /\ all_tails \in [Servers -> [Banks -> Servers]]
      BY ChainEnds DEF FInit, MembersInit
  <2> QED
      BY <2>2, <2>4, <2>5 DEF TopologyTypeOK
<1>3. ServerTypes(Streamed)
    BY <1>2 DEF FInit, ServersStart, ServerTypes, EmptyBag, SetToBag
<1>4. DOMAIN to_client = {}
    BY DEF FInit, EmptyBag, SetToBag
<1>5. \A c \in Clients : Len(Queue(c)) \in Nat
    BY WorkloadAssumption DEF Queue
<1>6. ClientTypes(EndNotices)
  <2> HIDE DEF Queue
  <2> QED
      BY <1>4, <1>5 DEF FInit, ClientsStart, ClientTypes
<1>7. \A b \in Banks : [i \in 1 .. Formed[b] |-> Listed(<<b, i>>)] \in Seq(Entries)
  <2> SUFFICES ASSUME NEW b \in Banks
               PROVE  [i \in 1 .. Formed[b] |-> Listed(<<b, i>>)] \in Seq(Entries)
      OBVIOUS
  <2>1. /\ Formed[b] \in Nat /\ ChainLength[b] \in Nat /\ Formed[b] <= ChainLength[b]
      BY ChainLengthAssumption, FailoverAssumption
  <2>2. ASSUME NEW i \in 1 .. Formed[b]
        PROVE  Listed(<<b, i>>) \in Entries
    <3>1. i \in 1 .. ChainLength[b]
        BY <2>1
    <3>2. <<b, i>> \in Servers
        BY <3>1 DEF Servers
    <3> QED
        BY <3>2 DEF Listed, Entries
  <2>3. [i \in 1 .. Formed[b] |-> Listed(<<b, i>>)] \in [1 .. Formed[b] -> Entries]
      BY <2>2
  <2>4. \A n \in Nat : [1 .. n -> Entries] \subseteq Seq(Entries)
      OBVIOUS
  <2> QED
      BY <2>1, <2>3, <2>4
<1>8. server_list \in [Banks -> Seq(Entries)]
    BY <1>7 DEF FInit, MasterInit
<1>9. MasterTypeOK
  <2>1. /\ from_master = [s \in Servers |-> <<>>] /\ to_master = [s \in Servers |-> <<>>]
        /\ readers \subseteq Servers /\ logins = Clients /\ connects = <<>>
        /\ fail_pre_fd = NoServer /\ telling = NoBank /\ serfd = NoServer /\ starting = 0
      BY DEF FInit, MasterInit
  <2>2. <<>> \in Seq(Notices) /\ <<>> \in Seq(Reports) /\ <<>> \in Seq(Servers)
      OBVIOUS
  <2>3. /\ from_master \in [Servers -> Seq(Notices)]
        /\ to_master \in [Servers -> Seq(Reports)]
        /\ connects \in Seq(Servers)
      BY <2>1, <2>2
  <2> QED
      BY <1>1, <1>8, <2>1, <2>3 DEF MasterTypeOK, Entries
<1>10. MemberTypeOK
  <2>1. /\ from_pre = [s \in Servers |-> <<>>]
        /\ connecting = {} /\ hist = [s \in Servers |-> "none"]
        /\ pre_port = [s \in Servers |-> IF InChain(s) /\ ~IsFirst(s) THEN Prev1(s) ELSE NoServer]
      BY DEF FInit, MembersInit, ServersStart
  <2> QED
      BY <1>1, <2>1, ChainEnds DEF MemberTypeOK
<1>11. starting = 0 /\ telling = NoBank /\ ended = {}
    BY DEF FInit, MasterInit
<1> QED
    BY <1>3, <1>6, <1>9, <1>10, <1>11 DEF FTypes, Typed

(* The types of Failover hold in every state, whatever fails and whenever,  *)
(* whoever starts late or is suspected wrongly: no notice ever names a      *)
(* server that is none as the new end of a chain, and a receive thread      *)
(* never starts without a connection.                                       *)
THEOREM FTypeCorrect == FSpec => []FTypeOK
<1>1. FInit => FTypes
    BY FInitTypes
<1>2. FTypes /\ [FNext]_fvars => FTypes'
    BY FTypesStep
<1>3. FTypes => FTypeOK
    BY FTypesEnough
<1> QED
    BY <1>1, <1>2, <1>3, PTL DEF FSpec

--------------------------------------------------------------------------------
\* Where a stream of notices leads a server.

\* A role and a predecessor.
ChainPlaces == [type : Roles, pre : Servers \cup {NoServer}]

\* The place a server gets from its own when it reads a stream of notices.
Come(place, stream) == FoldLeft(PlaceAfter, place, stream)

\* A notice makes a place of a place.
LEMMA PlaceAfterType ==
    ASSUME NEW place \in ChainPlaces, NEW n \in Notices
    PROVE  PlaceAfter(place, n) \in ChainPlaces
<1>1. place.type \in Roles /\ place.pre \in Servers \cup {NoServer}
    BY DEF ChainPlaces
<1>2. RoleAfter(place.type, n) \in Roles
    BY <1>1 DEF RoleAfter, Roles
<1>3. PreAfter(place.pre, n) \in Servers \cup {NoServer}
  <2>1. n.op = "INTER_PRE_FAIL" => n.port \in Servers \cup {NoServer}
      BY DEF Notices
  <2> QED
      BY <1>1, <2>1 DEF PreAfter
<1> QED
    BY <1>2, <1>3 DEF PlaceAfter, ChainPlaces

\* The places along the way.
IsWay(w, place, stream) ==
    /\ w \in [0 .. Len(stream) -> ChainPlaces]
    /\ w[0] = place
    /\ \A i \in 1 .. Len(stream) : w[i] = PlaceAfter(w[i - 1], stream[i])
    /\ Come(place, stream) = w[Len(stream)]

\* Notices are read one after the other.
LEMMA WayExists ==
    ASSUME NEW place \in ChainPlaces, NEW stream \in Seq(Notices)
    PROVE  \E w : IsWay(w, place, stream)
<1> DEFINE n == Len(stream)
           V == ChainPlaces
           Equation(f) == f = [s \in SUBSET DOMAIN stream |->
              IF s = {} THEN place ELSE PlaceAfter(f[s \ {Max(s)}], stream[Max(s)])]
           iter == CHOOSE f : Equation(f)
           step == [i \in 1 .. n |-> [v \in V |-> PlaceAfter(v, stream[i])]]
           w == [k \in 0 .. n |-> iter[1 .. k]]
<1>1. Come(place, stream) = iter[DOMAIN stream]
    BY DEF Come, FoldLeft, MapThenFoldSet
<1>2. DOMAIN stream = 1 .. n /\ n \in Nat
    OBVIOUS
<1>3. \A i \in 1 .. n : \A v \in V : PlaceAfter(v, stream[i]) \in V
    BY PlaceAfterType
<1>4. Equation(iter)
  <2>1. n \in Nat /\ place \in V /\ step \in StepsOn(n, V)
      BY <1>2, <1>3 DEF StepsOn
  <2>2. PICK f : Solves(f, n, V, place, step)
    <3> HIDE DEF n, step, V
    <3> QED
        BY <2>1, RecursionExists
  <2>3. ASSUME NEW s \in SUBSET (1 .. n), s # {}
        PROVE  f[s] = PlaceAfter(f[s \ {Max(s)}], stream[Max(s)])
    <3>1. Max(s) \in 1 .. n /\ s \ {Max(s)} \in SUBSET (1 .. n)
        BY <1>2, <2>3, MaxOfRange
    <3>2. f[s \ {Max(s)}] \in V
        BY <2>2, <3>1 DEF Solves
    <3> HIDE DEF V
    <3> QED
        BY <2>2, <2>3, <3>1, <3>2 DEF Solves
  <2>4. Equation(f)
      BY <1>2, <2>2, <2>3 DEF Solves
  <2> HIDE DEF Equation
  <2> QED
      BY <2>4
<1> HIDE DEF iter
<1>5. iter[{}] = place
    BY <1>4
<1>6. ASSUME NEW k \in 1 .. n
      PROVE  iter[1 .. k] = PlaceAfter(iter[1 .. k - 1], stream[k])
  <2>1. /\ 1 .. k \in SUBSET DOMAIN stream /\ 1 .. k # {}
        /\ Max(1 .. k) = k /\ (1 .. k) \ {k} = 1 .. k - 1
      BY <1>2, FirstItems
  <2>2. iter[1 .. k] = PlaceAfter(iter[(1 .. k) \ {Max(1 .. k)}], stream[Max(1 .. k)])
      BY <1>4, <2>1
  <2> QED
      BY <2>1, <2>2
<1>7. w[0] = place /\ \A k \in 1 .. n : w[k] = PlaceAfter(w[k - 1], stream[k])
    BY <1>2, <1>5, <1>6
<1>8. w \in [0 .. n -> V]
  <2> DEFINE T == {k \in Nat : k <= n => w[k] \in V}
  <2> HIDE DEF V
  <2>1. 0 \in T
      BY <1>7 DEF V
  <2>2. ASSUME NEW k \in T \cap Nat PROVE k + 1 \in T
    <3>1. k + 1 <= n => k + 1 \in 1 .. n /\ k <= n /\ (k + 1) - 1 = k
        BY <1>2
    <3> HIDE DEF w
    <3> QED
        BY <1>3, <1>7, <3>1
  <2>3. Nat \subseteq T
    <3> HIDE DEF T
    <3> QED
        BY <2>1, <2>2, Induction
  <2>4. \A k \in 0 .. n : w[k] \in V
    <3> HIDE DEF w
    <3> QED
        BY <1>2, <2>3
  <2> QED
      BY <2>4
<1>9. Come(place, stream) = w[n]
    BY <1>1, <1>2
<1> HIDE DEF w
<1> QED
    BY <1>7, <1>8, <1>9 DEF IsWay

\* Without notices a server stays where it is.
LEMMA NoWay ==
    ASSUME NEW place \in ChainPlaces
    PROVE  Come(place, <<>>) = place
<1>1. <<>> \in Seq(Notices) /\ Len(<<>>) = 0
    OBVIOUS
<1>2. PICK w : IsWay(w, place, <<>>)
    BY <1>1, WayExists
<1> QED
    BY <1>1, <1>2 DEF IsWay

\* A notice sent last changes the place that the others lead to.
LEMMA LastOfWay ==
    ASSUME NEW place \in ChainPlaces, NEW stream \in Seq(Notices), NEW n \in Notices
    PROVE  /\ Come(place, stream) \in ChainPlaces
           /\ Come(place, Append(stream, n)) = PlaceAfter(Come(place, stream), n)
<1>2. PICK v : IsWay(v, place, stream)
    BY WayExists
<1> DEFINE longer == Append(stream, n)
<1>3. /\ longer \in Seq(Notices) /\ Len(longer) = Len(stream) + 1 /\ Len(stream) \in Nat
      /\ \A i \in 1 .. Len(stream) : longer[i] = stream[i]
      /\ longer[Len(stream) + 1] = n
    OBVIOUS
<1> HIDE DEF longer
<1>4. PICK w : IsWay(w, place, longer)
    BY <1>3, WayExists
<1>5. Agree(Len(stream), v, w)
  <2>1. ASSUME NEW i \in 1 .. Len(stream), v[i - 1] = w[i - 1] PROVE v[i] = w[i]
    <3>1. i \in 1 .. Len(longer) /\ longer[i] = stream[i]
        BY <1>3
    <3> QED
        BY <1>2, <1>4, <2>1, <3>1 DEF IsWay
  <2>2. v[0] = w[0] /\ Len(stream) \in Nat
      BY <1>2, <1>3, <1>4 DEF IsWay
  <2> QED
      BY <2>1, <2>2, SameWalk
<1>6. w[Len(stream) + 1] = PlaceAfter(w[Len(stream)], n)
  <2>1. Len(stream) + 1 \in 1 .. Len(longer) /\ (Len(stream) + 1) - 1 = Len(stream)
      BY <1>3
  <2> QED
      BY <1>3, <1>4, <2>1 DEF IsWay
<1>7. v[Len(stream)] = w[Len(stream)] /\ v[Len(stream)] \in ChainPlaces
    BY <1>2, <1>3, <1>5 DEF Agree, IsWay
<1>8. /\ Come(place, longer) = w[Len(stream) + 1]
      /\ Come(place, stream) = v[Len(stream)]
    BY <1>2, <1>3, <1>4 DEF IsWay
<1> QED
    BY <1>6, <1>7, <1>8 DEF longer

\* A server that has read the first notice of a stream is led on by the others.
LEMMA FirstOfWay ==
    ASSUME NEW place \in ChainPlaces, NEW stream \in Seq(Notices), stream # <<>>
    PROVE  Come(place, stream) = Come(PlaceAfter(place, Head(stream)), Tail(stream))
<1>1. PICK v : IsWay(v, place, stream)
    BY WayExists
<1> DEFINE rest == Tail(stream)
           next == PlaceAfter(place, Head(stream))
           u == [i \in 0 .. Len(stream) - 1 |-> v[i + 1]]
<1>2. /\ rest \in Seq(Notices) /\ Len(rest) = Len(stream) - 1 /\ Len(rest) \in Nat
      /\ \A i \in 1 .. Len(rest) : rest[i] = stream[i + 1]
      /\ Head(stream) \in Notices /\ Head(stream) = stream[1] /\ Len(stream) \in Nat \ {0}
    OBVIOUS
<1>3. next \in ChainPlaces
    BY <1>2, PlaceAfterType
<1>4. u[0] = next /\ u[Len(rest)] = v[Len(stream)]
    BY <1>1, <1>2 DEF IsWay
<1>5. \A i \in 1 .. Len(rest) : u[i] = PlaceAfter(u[i - 1], rest[i])
  <2> SUFFICES ASSUME NEW i \in 1 .. Len(rest)
               PROVE  u[i] = PlaceAfter(u[i - 1], rest[i])
      OBVIOUS
  <2>1. /\ i + 1 \in 1 .. Len(stream) /\ (i + 1) - 1 = i
        /\ u[i] = v[i + 1] /\ u[i - 1] = v[i]
      BY <1>2
  <2> QED
      BY <1>1, <1>2, <2>1 DEF IsWay
<1> HIDE DEF rest, next, u
<1>6. PICK w : IsWay(w, next, rest)
    BY <1>2, <1>3, WayExists
<1>7. Agree(Len(rest), u, w)
  <2>1. \A i \in 1 .. Len(rest) : u[i - 1] = w[i - 1] => u[i] = w[i]
      BY <1>5, <1>6 DEF IsWay
  <2>2. u[0] = w[0] /\ Len(rest) \in Nat
      BY <1>2, <1>4, <1>6 DEF IsWay
  <2> QED
      BY <2>1, <2>2, SameWalk
<1>8. u[Len(rest)] = w[Len(rest)]
    BY <1>2, <1>7 DEF Agree
<1>9. Come(place, stream) = v[Len(stream)] /\ Come(next, rest) = w[Len(rest)]
    BY <1>1, <1>6 DEF IsWay
<1> QED
    BY <1>4, <1>8, <1>9 DEF rest, next

\* Notices that change no place.
Neutral == {"GET_PRE", "INTER_NEXT_FAIL", "TRANS_HEAD_FAIL", "TRANS_TAIL_FAIL", "NEXT_SN"}

\* They change none.
LEMMA NeutralOnTheWay ==
    ASSUME NEW place \in ChainPlaces, NEW n, n.op \in Neutral
    PROVE  PlaceAfter(place, n) = place
<1>1. RoleAfter(place.type, n) = place.type /\ PreAfter(place.pre, n) = place.pre
    BY DEF RoleAfter, PreAfter, Neutral
<1>2. place = [type |-> place.type, pre |-> place.pre]
    BY DEF ChainPlaces
<1> QED
    BY <1>1, <1>2 DEF PlaceAfter

--------------------------------------------------------------------------------
\* Roles by place.

\* A server in the chain's inside is removed: nobody's role changes.
LEMMA RoleWithoutInter ==
    ASSUME NEW n \in Nat, NEW i \in 1 .. n, i > 1, i < n, NEW j \in 1 .. n - 1
    PROVE  RoleAt(IF j < i THEN j ELSE j + 1, n) = RoleAt(j, n - 1)
<1>1. CASE j < i
    BY <1>1 DEF RoleAt
<1>2. CASE ~ (j < i)
    BY <1>2 DEF RoleAt
<1> QED
    BY <1>1, <1>2

\* The head is removed: HEAD_FAIL tells the next its role, the others keep theirs.
LEMMA RoleWithoutHead ==
    ASSUME NEW n \in Nat, n > 1, NEW j \in 1 .. n - 1
    PROVE  /\ j = 1 => RoleAfter(RoleAt(2, n), [op |-> "HEAD_FAIL"]) = RoleAt(1, n - 1)
           /\ j > 1 => RoleAt(j + 1, n) = RoleAt(j, n - 1)
BY DEF RoleAt, RoleAfter

\* The tail is removed: TAIL_FAIL tells the one before.
LEMMA RoleWithoutTail ==
    ASSUME NEW n \in Nat, n > 1, NEW j \in 1 .. n - 1
    PROVE  /\ j = n - 1 => RoleAfter(RoleAt(j, n), [op |-> "TAIL_FAIL"]) = RoleAt(j, n - 1)
           /\ j < n - 1 => RoleAt(j, n) = RoleAt(j, n - 1)
BY DEF RoleAt, RoleAfter

--------------------------------------------------------------------------------
(* The inductive invariant of NoticesLeadToList and OneHeadOneTail.  All     *)
(* servers have joined and only those that are dead are ever silent, so the  *)
(* list of the master shrinks and keeps its order.                           *)

\* Nobody is left who could start, and nobody's call waits at the master.
NobodyNew == Servers \ alive \subseteq ended /\ connects = <<>>

\* What neighbours and the master are sent while no server joins.
Repairs == [op : {"FORWARD", "LARGER_SN_LIST"}, req : Request]

Numbers == [op : {"ACK_LAST"}, sn : Int]

\* No history is under way to a new tail, and none has reported.
NoNewTail ==
    /\ hist = [s \in Servers |-> "none"]
    /\ from_pre \in [Servers -> Seq(Repairs)]
    /\ to_master \in [Servers -> Seq(Numbers)]

\* p is a server of the same bank as s that the configuration puts before it.
Earlier(p, s) == p \in Servers /\ Bank(p) = Bank(s) /\ p[2] < s[2]

ListedInOrder ==
    \A b \in Banks : \A i \in DOMAIN server_list[b] :
       /\ Bank(server_list[b][i].port) = b
       /\ \A j \in DOMAIN server_list[b] :
             j < i => Earlier(server_list[b][j].port, server_list[b][i].port)

\* The master never finds a server silent that runs.
RunningListed ==
    \A s \in alive : \E i \in DOMAIN server_list[Bank(s)] : server_list[Bank(s)][i] = Listed(s)

StartsList(s) ==
    server_list[Bank(s)] # <<>> /\ server_list[Bank(s)][1].port = s

EndsList(s) ==
    server_list[Bank(s)] # <<>> /\ server_list[Bank(s)][Len(server_list[Bank(s)])].port = s

RolesListed == \A s \in alive : (Heads(s) => StartsList(s)) /\ (Tails(s) => EndsList(s))

\* The notices that can be under way to s.
Expected(s) ==
    {n \in Notices : /\ n.op # "GET_PRE"
                     /\ n.op = "INTER_PRE_FAIL" => Earlier(n.port, s)
                     /\ n.op = "HEAD_FAIL" /\ s \in alive => StartsList(s)
                     /\ n.op = "TAIL_FAIL" /\ s \in alive => EndsList(s)}

NoticesExpected == \A s \in Servers : from_master[s] \in Seq(Expected(s))

\* Who is called as a predecessor stands before the caller.
PreEarlier == \A s \in Servers : pre_port[s] = NoServer \/ Earlier(pre_port[s], s)

ShrinkingOnly ==
    /\ NobodyNew
    /\ NoNewTail
    /\ ListedInOrder
    /\ RunningListed
    /\ RolesListed
    /\ NoticesExpected
    /\ PreEarlier

FInv == FTypes /\ ShrinkingOnly /\ NoticesLeadToList

\* The circumstances: the chains are complete and no server that runs is suspected.
Complete == Formed = ChainLength /\ Punctual = Servers

\* One end of a list is one server.
LEMMA EndsAreOne ==
    ASSUME FInv
    PROVE  OneHeadOneTail
BY DEF FInv, ShrinkingOnly, RolesListed, StartsList, EndsList, OneHeadOneTail

--------------------------------------------------------------------------------
\* The list.

\* What the types say of the list, and of its entries' order.
LEMMA ListFacts ==
    ASSUME FInv, NEW b \in Banks
    PROVE  /\ server_list \in [Banks -> Seq(Entries)]
           /\ server_list[b] \in Seq(Entries)
           /\ Len(server_list[b]) \in Nat
           /\ DOMAIN server_list[b] = 1 .. Len(server_list[b])
           /\ \A i \in 1 .. Len(server_list[b]) :
                 /\ server_list[b][i] \in Entries
                 /\ server_list[b][i].port \in Servers
                 /\ Bank(server_list[b][i].port) = b
                 /\ \A j \in 1 .. Len(server_list[b]) :
                      server_list[b][i].port = server_list[b][j].port => i = j
<1>1. server_list \in [Banks -> Seq(Entries)]
    BY DEF FInv, FTypes, MasterTypeOK, Entries
<1> DEFINE list == server_list[b]
<1>2. list \in Seq(Entries)
    BY <1>1
<1>3. \A i \in 1 .. Len(list) : list[i] \in Entries /\ list[i].port \in Servers
  <2>1. \A i \in 1 .. Len(list) : list[i] \in Entries
      BY <1>2
  <2> QED
      BY <1>2, <2>1, EndsType
<1>4. \A i \in 1 .. Len(list) :
        /\ Bank(list[i].port) = b
        /\ \A j \in 1 .. Len(list) : j < i => Earlier(list[j].port, list[i].port)
    BY <1>2 DEF FInv, ShrinkingOnly, ListedInOrder
<1>5. \A i, j \in 1 .. Len(list) : j < i => list[i].port # list[j].port
  <2> SUFFICES ASSUME NEW i \in 1 .. Len(list), NEW j \in 1 .. Len(list), j < i
               PROVE  list[i].port # list[j].port
      OBVIOUS
  <2>1. list[j].port[2] < list[i].port[2]
      BY <1>4 DEF Earlier
  <2>2. list[i].port[2] \in Int
      BY <1>3, Places
  <2> HIDE DEF list
  <2> QED
      BY <2>1, <2>2
<1>6. Len(list) \in Nat
    BY <1>2
<1>7. \A i, j \in 1 .. Len(list) : list[i].port = list[j].port => i = j
    BY <1>5, <1>6
<1> HIDE DEF list
<1> QED
    BY <1>1, <1>2, <1>3, <1>4, <1>6, <1>7 DEF list

\* A server that runs is listed once, and as one that was heard.
LEMMA RunningEntry ==
    ASSUME FInv, NEW b \in Banks, NEW i \in 1 .. Len(server_list[b]),
           server_list[b][i].port \in alive
    PROVE  server_list[b][i] = Listed(server_list[b][i].port)
<1> DEFINE s == server_list[b][i].port
<1>1. Bank(s) = b
    BY ListFacts
<1>2. PICK k \in DOMAIN server_list[b] : server_list[b][k] = Listed(s)
    BY <1>1 DEF FInv, ShrinkingOnly, RunningListed
<1>3. k \in 1 .. Len(server_list[b]) /\ server_list[b][k].port = s
    BY <1>2, ListFacts DEF Listed
<1>4. k = i
    BY <1>3, ListFacts
<1> QED
    BY <1>2, <1>4

\* A server that runs has an entry.
LEMMA RunningPlace ==
    ASSUME FInv, NEW s \in alive
    PROVE  /\ s \in Servers /\ Bank(s) \in Banks
           /\ \E i \in 1 .. Len(server_list[Bank(s)]) : server_list[Bank(s)][i] = Listed(s)
<1>1. s \in Servers /\ Bank(s) \in Banks
    BY ChainEnds, FTypesFacts DEF FInv
<1>2. DOMAIN server_list[Bank(s)] = 1 .. Len(server_list[Bank(s)])
    BY <1>1, ListFacts
<1> QED
    BY <1>1, <1>2 DEF FInv, ShrinkingOnly, RunningListed

--------------------------------------------------------------------------------
\* Steps that leave the lists in order.

\* The place a server has.
PlaceNow(s) == [type |-> my_type[s], pre |-> pre_port[s]]

\* A place to come is one.
LEMMA PlaceToComeType ==
    ASSUME FTypes, NEW s \in Servers
    PROVE  /\ PlaceNow(s) \in ChainPlaces
           /\ from_master[s] \in Seq(Notices)
           /\ PlaceToCome(s) = Come(PlaceNow(s), from_master[s])
           /\ PlaceToCome(s) \in ChainPlaces
<1>1. PlaceNow(s) \in ChainPlaces
    BY FTypesFacts DEF PlaceNow, ChainPlaces, TopologyTypeOK
<1>2. from_master[s] \in Seq(Notices)
    BY FTypesFacts
<1>3. PlaceToCome(s) = Come(PlaceNow(s), from_master[s])
    BY DEF PlaceToCome, Come, PlaceNow
<1>4. <<>> \in Seq(Notices)
    OBVIOUS
<1>5. Come(PlaceNow(s), from_master[s]) \in ChainPlaces
  <2>1. PICK n : n \in Notices
    <3>1. [op |-> "HEAD_FAIL"] \in Notices
        BY DEF Notices
    <3> QED
        BY <3>1
  <2> QED
      BY <1>1, <1>2, <2>1, LastOfWay
<1> QED
    BY <1>1, <1>2, <1>3, <1>5

\* Notices that change no place are all that is sent, if anything.
SentNeutral(s) ==
    \/ from_master'[s] = from_master[s]
    \/ \E n \in Notices : n.op \in Neutral \ {"GET_PRE"}
                          /\ from_master'[s] = Append(from_master[s], n)

\* They leave a server where it was going.
LEMMA NeutralSent ==
    ASSUME FTypes, NEW s \in Servers, SentNeutral(s), UNCHANGED <<my_type, pre_port>>
    PROVE  PlaceToCome(s)' = PlaceToCome(s)
<1>1. /\ PlaceNow(s) \in ChainPlaces
      /\ from_master[s] \in Seq(Notices)
      /\ PlaceToCome(s) = Come(PlaceNow(s), from_master[s])
      /\ PlaceToCome(s) \in ChainPlaces
    BY PlaceToComeType
<1>2. PlaceToCome(s)' = Come(PlaceNow(s), from_master'[s])
    BY DEF PlaceToCome, Come, PlaceNow
<1>3. CASE from_master'[s] = from_master[s]
    BY <1>1, <1>2, <1>3
<1>4. ASSUME NEW n \in Notices, n.op \in Neutral, from_master'[s] = Append(from_master[s], n)
      PROVE  PlaceToCome(s)' = PlaceToCome(s)
    BY <1>1, <1>2, <1>4, LastOfWay, NeutralOnTheWay
<1> QED
    BY <1>3, <1>4 DEF SentNeutral

\* What is expected stays so when the ports listed stay.
LEMMA SameLists ==
    ASSUME FInv, FTypes', RunningListed', NoNewTail',
           UNCHANGED <<my_type, pre_port, alive, ended, connects>>,
           \A b \in Banks :
              /\ Len(server_list'[b]) = Len(server_list[b])
              /\ \A i \in 1 .. Len(server_list[b]) :
                    server_list'[b][i].port = server_list[b][i].port,
           \A s \in Servers : SentNeutral(s)
    PROVE  FInv'
<1>1. \A b \in Banks : /\ server_list[b] \in Seq(Entries) /\ server_list'[b] \in Seq(Entries)
                       /\ DOMAIN server_list[b] = 1 .. Len(server_list[b])
                       /\ DOMAIN server_list'[b] = 1 .. Len(server_list[b])
  <2>1. server_list \in [Banks -> Seq(Entries)] /\ server_list' \in [Banks -> Seq(Entries)]
      BY DEF FInv, FTypes, MasterTypeOK, Entries
  <2> QED
      BY <2>1
<1>2. ListedInOrder'
    BY <1>1 DEF FInv, ShrinkingOnly, ListedInOrder
<1>3. ASSUME NEW s \in Servers
      PROVE  (StartsList(s) => StartsList(s)') /\ (EndsList(s) => EndsList(s)')
  <2>1. Bank(s) \in Banks
      BY ChainEnds
  <2> DEFINE list == server_list[Bank(s)]
             list2 == server_list'[Bank(s)]
  <2>2. /\ list \in Seq(Entries) /\ list2 \in Seq(Entries) /\ Len(list2) = Len(list)
        /\ \A i \in 1 .. Len(list) : list2[i].port = list[i].port
      BY <1>1, <2>1
  <2> HIDE DEF list, list2
  <2>3. /\ Len(list) \in Nat
        /\ list # <<>> => list2 # <<>> /\ 1 \in 1 .. Len(list) /\ Len(list) \in 1 .. Len(list)
      BY <2>2
  <2>4. /\ list # <<>> /\ list[1].port = s => list2 # <<>> /\ list2[1].port = s
        /\ list # <<>> /\ list[Len(list)].port = s => list2 # <<>> /\ list2[Len(list2)].port = s
      BY <2>2, <2>3
  <2> QED
      BY <2>4 DEF StartsList, EndsList, list, list2
<1>4. alive \subseteq Servers
    BY FTypesFacts DEF FInv
<1>5. RolesListed'
    BY <1>3, <1>4 DEF FInv, ShrinkingOnly, RolesListed, Heads, Tails
<1>6. \A s \in Servers : Expected(s) \subseteq Expected(s)'
    BY <1>3 DEF Expected
<1>7. ASSUME NEW s \in Servers
      PROVE  from_master'[s] \in Seq(Expected(s)')
  <2>1. from_master[s] \in Seq(Expected(s))
      BY DEF FInv, ShrinkingOnly, NoticesExpected
  <2>2. Expected(s) \subseteq Expected(s)'
      BY <1>6
  <2>3. \A n \in Notices : n.op \in Neutral \ {"GET_PRE"} => n \in Expected(s)'
      BY DEF Expected, Neutral
  <2> DEFINE E == Expected(s)
             E2 == Expected(s)'
  <2> HIDE DEF E, E2
  <2>4. /\ from_master[s] \in Seq(E2)
        /\ \A n \in E2 : Append(from_master[s], n) \in Seq(E2)
    <3>1. from_master[s] \in Seq(E) /\ E \subseteq E2
        BY <2>1, <2>2 DEF E, E2
    <3> QED
        BY <3>1
  <2>5. SentNeutral(s)
      OBVIOUS
  <2> QED
      BY <2>3, <2>4, <2>5 DEF E2, SentNeutral
<1>8. NoticesExpected'
    BY <1>7 DEF NoticesExpected
<1>9. PreEarlier' /\ NobodyNew'
    BY DEF FInv, ShrinkingOnly, PreEarlier, NobodyNew
<1>10. \A s \in Servers : PlaceToCome(s)' = PlaceToCome(s)
    BY NeutralSent DEF FInv
<1>11. NoticesLeadToList'
  <2> SUFFICES ASSUME NEW b \in Banks, NEW i \in DOMAIN server_list'[b], NEW s \in alive,
                      s = server_list'[b][i].port
               PROVE  /\ PlaceToCome(s)'.type = RoleAt(i, Len(server_list'[b]))
                      /\ i > 1 => PlaceToCome(s)'.pre = server_list'[b][i - 1].port
      BY DEF NoticesLeadToList
  <2>1. /\ i \in DOMAIN server_list[b] /\ i \in 1 .. Len(server_list[b])
        /\ server_list[b][i].port = s /\ s \in Servers
      BY <1>1, <1>4
  <2>2. /\ PlaceToCome(s).type = RoleAt(i, Len(server_list[b]))
        /\ i > 1 => PlaceToCome(s).pre = server_list[b][i - 1].port
      BY <2>1 DEF FInv, NoticesLeadToList
  <2>3. i > 1 => i - 1 \in 1 .. Len(server_list[b])
      BY <1>1, <2>1
  <2> QED
      BY <1>10, <2>1, <2>2, <2>3
<1> QED
    BY <1>2, <1>5, <1>8, <1>9, <1>11 DEF FInv, ShrinkingOnly

--------------------------------------------------------------------------------
\* A server is removed from a list.

\* The removal of the i-th server of b, which was silent.
Removal(b, i) ==
    /\ server_list[b][i].round_flag = "DIE"
    /\ server_list' = [server_list EXCEPT ![b] = Without(b, i)]
    /\ UNCHANGED <<my_type, pre_port, alive, ended, connects, hist, from_pre, to_master>>

\* Where the j-th server stood before.
PlaceBefore(i, j) == IF j < i THEN j ELSE j + 1

\* The list that is left.
LEMMA ListLeft ==
    ASSUME FInv, NEW b \in Banks, NEW i \in 1 .. Len(server_list[b]), Removal(b, i)
    PROVE  /\ server_list[b][i].port \notin alive
           /\ server_list'[b] \in Seq(Entries)
           /\ Len(server_list'[b]) = Len(server_list[b]) - 1
           /\ DOMAIN server_list'[b] = 1 .. Len(server_list[b]) - 1
           /\ \A j \in 1 .. Len(server_list[b]) - 1 :
                 /\ PlaceBefore(i, j) \in 1 .. Len(server_list[b])
                 /\ server_list'[b][j] = server_list[b][PlaceBefore(i, j)]
           /\ \A k \in 1 .. Len(server_list[b]) : k # i =>
                 \E j \in 1 .. Len(server_list[b]) - 1 : PlaceBefore(i, j) = k
           /\ \A k \in Banks : k # b => server_list'[k] = server_list[k]
<1> DEFINE list == server_list[b]
           n == Len(list)
<1>1. /\ server_list \in [Banks -> Seq(Entries)] /\ list \in Seq(Entries) /\ n \in Nat
      /\ i \in 1 .. n
    BY ListFacts
<1>2. server_list'[b] = RemoveAt(list, i)
    BY <1>1 DEF Removal, Without
<1>3. \A k \in Banks : k # b => server_list'[k] = server_list[k]
    BY <1>1 DEF Removal
<1>4. list[i].port \notin alive
  <2> SUFFICES ASSUME list[i].port \in alive PROVE FALSE
      OBVIOUS
  <2>1. list[i] = Listed(list[i].port)
      BY RunningEntry
  <2>2. list[i].round_flag = "LIVE"
      BY <2>1 DEF Listed
  <2> QED
      BY <2>2 DEF Removal
<1> HIDE DEF list
<1>5. /\ RemoveAt(list, i) \in Seq(Entries)
      /\ Len(RemoveAt(list, i)) = n - 1
      /\ \A j \in 1 .. n - 1 : RemoveAt(list, i)[j] = IF j < i THEN list[j] ELSE list[j + 1]
    BY <1>1, RemoveAtProperty
<1>6. \A j \in 1 .. n - 1 :
        /\ PlaceBefore(i, j) \in 1 .. n
        /\ RemoveAt(list, i)[j] = list[PlaceBefore(i, j)]
    BY <1>1, <1>5 DEF PlaceBefore
<1>7. ASSUME NEW k \in 1 .. n, k # i
      PROVE  \E j \in 1 .. n - 1 : PlaceBefore(i, j) = k
  <2>1. CASE k < i
    <3>1. k \in 1 .. n - 1 /\ PlaceBefore(i, k) = k
        BY <1>1, <2>1 DEF PlaceBefore
    <3> QED
        BY <3>1
  <2>2. CASE ~ (k < i)
    <3>1. k - 1 \in 1 .. n - 1 /\ PlaceBefore(i, k - 1) = k
        BY <1>1, <1>7, <2>2 DEF PlaceBefore
    <3> QED
        BY <3>1
  <2> QED
      BY <2>1, <2>2
<1>8. DOMAIN RemoveAt(list, i) = 1 .. n - 1
    BY <1>5
<1> QED
    BY <1>2, <1>3, <1>4, <1>5, <1>6, <1>7, <1>8 DEF list

\* The order is kept, and whoever runs is still listed.
LEMMA OrderLeft ==
    ASSUME FInv, NEW b \in Banks, NEW i \in 1 .. Len(server_list[b]), Removal(b, i)
    PROVE  ListedInOrder' /\ RunningListed'
<1> DEFINE n == Len(server_list[b])
<1>1. /\ n \in Nat /\ DOMAIN server_list[b] = 1 .. n
      /\ DOMAIN server_list'[b] = 1 .. n - 1
      /\ \A j \in 1 .. n - 1 : /\ PlaceBefore(i, j) \in 1 .. n
                               /\ server_list'[b][j] = server_list[b][PlaceBefore(i, j)]
      /\ \A k \in 1 .. n : k # i => \E j \in 1 .. n - 1 : PlaceBefore(i, j) = k
      /\ \A k \in Banks : k # b => server_list'[k] = server_list[k]
      /\ server_list[b][i].port \notin alive
    BY ListLeft, ListFacts
<1>2. \A j, k \in 1 .. n - 1 : k < j => PlaceBefore(i, k) < PlaceBefore(i, j)
    BY <1>1 DEF PlaceBefore
<1> HIDE DEF n
<1>3. ASSUME NEW k \in Banks, NEW j \in DOMAIN server_list'[k]
      PROVE  /\ Bank(server_list'[k][j].port) = k
             /\ \A h \in DOMAIN server_list'[k] :
                  h < j => Earlier(server_list'[k][h].port, server_list'[k][j].port)
  <2>0. ListedInOrder
      BY DEF FInv, ShrinkingOnly
  <2>1. CASE k # b
      BY <1>1, <1>3, <2>0, <2>1 DEF ListedInOrder
  <2>2. CASE k = b
    <3>1. j \in 1 .. n - 1 /\ PlaceBefore(i, j) \in DOMAIN server_list[b]
        BY <1>1, <1>3, <2>2
    <3>2. Bank(server_list'[b][j].port) = b
        BY <1>1, <2>0, <3>1 DEF ListedInOrder
    <3>3. ASSUME NEW h \in DOMAIN server_list'[b], h < j
          PROVE  Earlier(server_list'[b][h].port, server_list'[b][j].port)
      <4>1. h \in 1 .. n - 1 /\ PlaceBefore(i, h) \in DOMAIN server_list[b]
          BY <1>1
      <4>2. PlaceBefore(i, h) < PlaceBefore(i, j)
          BY <1>2, <3>1, <3>3, <4>1
      <4>3. Earlier(server_list[b][PlaceBefore(i, h)].port, server_list[b][PlaceBefore(i, j)].port)
          BY <2>0, <3>1, <4>1, <4>2 DEF ListedInOrder
      <4> QED
          BY <1>1, <3>1, <4>1, <4>3
    <3> QED
        BY <2>2, <3>2, <3>3
  <2> QED
      BY <2>1, <2>2
<1>4. ListedInOrder'
    BY <1>3 DEF ListedInOrder
<1>5. ASSUME NEW s \in alive
      PROVE  \E j \in DOMAIN server_list'[Bank(s)] : server_list'[Bank(s)][j] = Listed(s)
  <2>1. PICK k \in 1 .. Len(server_list[Bank(s)]) : server_list[Bank(s)][k] = Listed(s)
      BY RunningPlace
  <2>2. Bank(s) \in Banks /\ server_list[Bank(s)][k].port = s
      BY <2>1, RunningPlace DEF Listed
  <2>3. CASE Bank(s) # b
    <3>1. server_list'[Bank(s)] = server_list[Bank(s)]
          /\ k \in DOMAIN server_list[Bank(s)]
        BY <1>1, <2>2, <2>3, ListFacts
    <3> QED
        BY <2>1, <3>1
  <2>4. CASE Bank(s) = b
    <3>1. k \in 1 .. n /\ k # i
        BY <1>1, <2>1, <2>2, <2>4 DEF n
    <3>2. PICK j \in 1 .. n - 1 : PlaceBefore(i, j) = k
        BY <1>1, <3>1
    <3>3. j \in DOMAIN server_list'[b] /\ server_list'[b][j] = Listed(s)
        BY <1>1, <2>1, <2>4, <3>2
    <3> QED
        BY <2>4, <3>3
  <2> QED
      BY <2>3, <2>4
<1>6. RunningListed'
    BY <1>5 DEF RunningListed, Removal
<1> QED
    BY <1>4, <1>6

\* A server that runs stays at the end where it was.
LEMMA EndsLeft ==
    ASSUME FInv, NEW b \in Banks, NEW i \in 1 .. Len(server_list[b]), Removal(b, i),
           NEW s \in alive
    PROVE  (StartsList(s) => StartsList(s)') /\ (EndsList(s) => EndsList(s)')
<1> DEFINE n == Len(server_list[b])
           old == server_list[b]
           left == server_list'[b]
<1>1. /\ old \in Seq(Entries) /\ left \in Seq(Entries)
      /\ n \in Nat /\ Len(left) = n - 1 /\ i \in 1 .. n
      /\ \A j \in 1 .. n - 1 : left[j] = old[PlaceBefore(i, j)]
      /\ old[i].port \notin alive
      /\ \A k \in Banks : k # b => server_list'[k] = server_list[k]
  <2>1. old \in Seq(Entries) /\ n \in Nat /\ i \in 1 .. n
      BY ListFacts
  <2>2. /\ left \in Seq(Entries) /\ Len(left) = n - 1
        /\ \A j \in 1 .. n - 1 : left[j] = old[PlaceBefore(i, j)]
        /\ old[i].port \notin alive
        /\ \A k \in Banks : k # b => server_list'[k] = server_list[k]
      BY ListLeft
  <2> QED
      BY <2>1, <2>2
<1>2. CASE Bank(s) # b
  <2>1. server_list'[Bank(s)] = server_list[Bank(s)]
      BY <1>1, <1>2, RunningPlace
  <2> QED
      BY <2>1 DEF StartsList, EndsList
<1>3. CASE Bank(s) = b
  <2>1. ASSUME StartsList(s) PROVE StartsList(s)'
    <3>1. old[1].port = s
        BY <1>3, <2>1 DEF StartsList
    <3> HIDE DEF old, left, n
    <3>2. i # 1 /\ 1 \in 1 .. n - 1 /\ PlaceBefore(i, 1) = 1
        BY <1>1, <3>1 DEF PlaceBefore
    <3>3. left # <<>> /\ left[1].port = s
        BY <1>1, <3>1, <3>2
    <3> QED
        BY <1>3, <3>3 DEF StartsList, left
  <2>2. ASSUME EndsList(s) PROVE EndsList(s)'
    <3>1. old[n].port = s
        BY <1>3, <2>2 DEF EndsList
    <3> HIDE DEF old, left, n
    <3>2. i # n /\ n - 1 \in 1 .. n - 1 /\ PlaceBefore(i, n - 1) = n
        BY <1>1, <3>1 DEF PlaceBefore
    <3>3. left # <<>> /\ left[Len(left)].port = s
        BY <1>1, <3>1, <3>2
    <3> QED
        BY <1>3, <3>3 DEF EndsList, left
  <2> QED
      BY <2>1, <2>2
<1> QED
    BY <1>2, <1>3

\* What was expected still is, and roles stay.
LEMMA ExpectedLeft ==
    ASSUME FInv, NEW b \in Banks, NEW i \in 1 .. Len(server_list[b]), Removal(b, i)
    PROVE  /\ RolesListed' /\ NobodyNew' /\ NoNewTail' /\ PreEarlier'
           /\ \A s \in Servers : Expected(s) \subseteq Expected(s)'
<1>1. alive' = alive
    BY DEF Removal
<1>2. RolesListed'
    BY <1>1, EndsLeft DEF FInv, ShrinkingOnly, RolesListed, Heads, Tails, Removal
<1>3. NobodyNew' /\ NoNewTail' /\ PreEarlier'
    BY DEF FInv, ShrinkingOnly, NobodyNew, NoNewTail, PreEarlier, Removal
<1>4. ASSUME NEW s \in Servers
      PROVE  Expected(s) \subseteq Expected(s)'
  <2>1. CASE s \in alive
      BY <1>1, <2>1, EndsLeft DEF Expected
  <2>2. CASE s \notin alive
      BY <1>1, <2>2 DEF Expected
  <2> QED
      BY <2>1, <2>2
<1> QED
    BY <1>2, <1>3, <1>4

--------------------------------------------------------------------------------
\* The notices a removal sends.

\* Where streams m of notices lead a server from its place.
Led(m, s) == Come(PlaceNow(s), m[s])

\* A notice to t leads t on and nobody else.
LEMMA LedByNotify ==
    ASSUME FTypes, NEW m \in [Servers -> Seq(Notices)], NEW t \in Servers, NEW n \in Notices
    PROVE  /\ Notify(m, t, n) \in [Servers -> Seq(Notices)]
           /\ \A s \in Servers :
                 Led(Notify(m, t, n), s) = IF s = t /\ t \in alive THEN PlaceAfter(Led(m, s), n)
                                                                   ELSE Led(m, s)
<1>1. Notify(m, t, n) \in [Servers -> Seq(Notices)]
    BY NotifyType, FTypesFacts
<1>2. ASSUME NEW s \in Servers
      PROVE  Led(Notify(m, t, n), s) = IF s = t /\ t \in alive THEN PlaceAfter(Led(m, s), n)
                                                               ELSE Led(m, s)
  <2>1. PlaceNow(s) \in ChainPlaces /\ m[s] \in Seq(Notices)
      BY PlaceToComeType
  <2>2. CASE s = t /\ t \in alive
    <3>1. Notify(m, t, n)[s] = Append(m[s], n)
        BY <2>2 DEF Notify
    <3> QED
        BY <2>1, <2>2, <3>1, LastOfWay DEF Led
  <2>3. CASE ~ (s = t /\ t \in alive)
    <3>1. Notify(m, t, n)[s] = m[s]
        BY <2>3 DEF Notify
    <3> QED
        BY <2>3, <3>1 DEF Led
  <2> QED
      BY <2>2, <2>3
<1> QED
    BY <1>1, <1>2

\* A notice that changes no place leads nobody on.
LEMMA LedByNeutral ==
    ASSUME FTypes, NEW m \in [Servers -> Seq(Notices)], NEW group, NEW n \in Notices,
           n.op \in Neutral
    PROVE  /\ NotifyAll(m, group, n) \in [Servers -> Seq(Notices)]
           /\ \A s \in Servers : Led(NotifyAll(m, group, n), s) = Led(m, s)
<1>1. NotifyAll(m, group, n) \in [Servers -> Seq(Notices)]
    BY NotifyType, FTypesFacts
<1>2. ASSUME NEW s \in Servers
      PROVE  Led(NotifyAll(m, group, n), s) = Led(m, s)
  <2>1. PlaceNow(s) \in ChainPlaces /\ m[s] \in Seq(Notices)
      BY PlaceToComeType
  <2>2. NotifyAll(m, group, n)[s] \in {m[s], Append(m[s], n)}
      BY DEF NotifyAll
  <2>3. Come(PlaceNow(s), Append(m[s], n)) = Come(PlaceNow(s), m[s])
    <3>1. /\ Come(PlaceNow(s), m[s]) \in ChainPlaces
          /\ Come(PlaceNow(s), Append(m[s], n)) = PlaceAfter(Come(PlaceNow(s), m[s]), n)
        BY <2>1, LastOfWay
    <3> QED
        BY <3>1, NeutralOnTheWay
  <2> QED
      BY <2>2, <2>3 DEF Led
<1> QED
    BY <1>1, <1>2

\* Where the streams as they are lead is where a server comes to.
LEMMA LedNow ==
    ASSUME FTypes, NEW s \in Servers
    PROVE  /\ Led(from_master, s) = PlaceToCome(s)
           /\ UNCHANGED <<my_type, pre_port>> => PlaceToCome(s)' = Led(from_master', s)
BY PlaceToComeType DEF Led, PlaceToCome, Come, PlaceNow

\* What is sent is expected, if the notice is.
LEMMA ExpectedSent ==
    ASSUME NEW E, NEW m \in [Servers -> Seq(Notices)], \A s \in Servers : m[s] \in Seq(E[s]),
           NEW n
    PROVE  /\ \A t \in Servers : n \in E[t] => \A s \in Servers : Notify(m, t, n)[s] \in Seq(E[s])
           /\ (\A t \in Servers : n \in E[t]) =>
                 \A group : \A s \in Servers : NotifyAll(m, group, n)[s] \in Seq(E[s])
<1>1. \A s \in Servers : n \in E[s] => Append(m[s], n) \in Seq(E[s])
    OBVIOUS
<1>2. \A t \in Servers : \A s \in Servers :
        Notify(m, t, n)[s] = m[s] \/ (s = t /\ Notify(m, t, n)[s] = Append(m[s], n))
  <2> SUFFICES ASSUME NEW t \in Servers, NEW s \in Servers
               PROVE  \/ Notify(m, t, n)[s] = m[s]
                      \/ s = t /\ Notify(m, t, n)[s] = Append(m[s], n)
      OBVIOUS
  <2>1. Notify(m, t, n) = IF t \in alive THEN [m EXCEPT ![t] = Append(m[t], n)] ELSE m
      BY DEF Notify
  <2> DEFINE x == Append(m[t], n)
  <2> HIDE DEF x
  <2>2. Notify(m, t, n) = IF t \in alive THEN [m EXCEPT ![t] = x] ELSE m
      BY <2>1 DEF x
  <2>3. Notify(m, t, n)[s] = IF t \in alive /\ s = t THEN x ELSE m[s]
      BY <2>2
  <2>4. s = t => x = Append(m[s], n)
      BY DEF x
  <2> QED
      BY <2>3, <2>4
<1>3. \A group : \A s \in Servers :
        NotifyAll(m, group, n)[s] = m[s] \/ NotifyAll(m, group, n)[s] = Append(m[s], n)
    BY DEF NotifyAll
<1>4. ASSUME NEW t \in Servers, n \in E[t], NEW s \in Servers
      PROVE  Notify(m, t, n)[s] \in Seq(E[s])
  <2>1. m[s] \in Seq(E[s]) /\ (s = t => Append(m[s], n) \in Seq(E[s]))
      BY <1>1, <1>4
  <2>2. Notify(m, t, n)[s] = m[s] \/ (s = t /\ Notify(m, t, n)[s] = Append(m[s], n))
      BY <1>2, <1>4
  <2> QED
      BY <2>1, <2>2
<1>5. ASSUME \A t \in Servers : n \in E[t], NEW group, NEW s \in Servers
      PROVE  NotifyAll(m, group, n)[s] \in Seq(E[s])
  <2>1. m[s] \in Seq(E[s]) /\ Append(m[s], n) \in Seq(E[s])
      BY <1>1, <1>5
  <2>2. NotifyAll(m, group, n)[s] = m[s] \/ NotifyAll(m, group, n)[s] = Append(m[s], n)
      BY <1>3, <1>5
  <2> QED
      BY <2>1, <2>2
<1> QED
    BY <1>4, <1>5

\* What a removal has to show.
LEMMA RemovalDone ==
    ASSUME FInv, FTypes', NEW b \in Banks, NEW i \in 1 .. Len(server_list[b]), Removal(b, i),
           NoticesExpected',
           \A s \in alive : Bank(s) # b => Led(from_master', s) = PlaceToCome(s),
           \A j \in 1 .. Len(server_list[b]) - 1 : \A s \in alive :
              s = server_list[b][PlaceBefore(i, j)].port =>
                 /\ Led(from_master', s).type = RoleAt(j, Len(server_list[b]) - 1)
                 /\ j > 1 => Led(from_master', s).pre =
                                server_list[b][PlaceBefore(i, j - 1)].port
    PROVE  FInv'
<1> DEFINE n == Len(server_list[b])
<1>0. \A s \in alive : s \in Servers /\ Bank(s) \in Banks
    BY RunningPlace
<1>1. \A s \in alive : PlaceToCome(s)' = Led(from_master', s)
  <2>1. UNCHANGED <<my_type, pre_port>> /\ FTypes
      BY DEF Removal, FInv
  <2> QED
      BY <1>0, <2>1, LedNow
<1>2. /\ n \in Nat
      /\ DOMAIN server_list'[b] = 1 .. n - 1 /\ Len(server_list'[b]) = n - 1
      /\ \A j \in 1 .. n - 1 : server_list'[b][j] = server_list[b][PlaceBefore(i, j)]
      /\ \A k \in Banks : k # b => server_list'[k] = server_list[k]
      /\ alive' = alive
  <2>1. n \in Nat
      BY ListFacts
  <2> QED
      BY <2>1, ListLeft DEF Removal
<1>3. ASSUME NEW k \in Banks, NEW j \in DOMAIN server_list'[k], NEW s \in alive,
             s = server_list'[k][j].port
      PROVE  /\ PlaceToCome(s)'.type = RoleAt(j, Len(server_list'[k]))
             /\ j > 1 => PlaceToCome(s)'.pre = server_list'[k][j - 1].port
  <2>1. CASE k = b
    <3>1. j \in 1 .. n - 1 /\ (j > 1 => j - 1 \in 1 .. n - 1)
        BY <1>2, <1>3, <2>1
    <3>2. s = server_list[b][PlaceBefore(i, j)].port
        BY <1>2, <1>3, <2>1, <3>1
    <3>3. /\ Led(from_master', s).type = RoleAt(j, n - 1)
          /\ j > 1 => Led(from_master', s).pre = server_list[b][PlaceBefore(i, j - 1)].port
        BY <3>1, <3>2
    <3> HIDE DEF n
    <3> QED
        BY <1>1, <1>2, <2>1, <3>1, <3>3
  <2>2. CASE k # b
    <3>1. server_list'[k] = server_list[k]
        BY <1>2, <2>2
    <3>2. Bank(s) = k
        BY <1>3, <3>1, ListFacts
    <3>3. PlaceToCome(s)' = PlaceToCome(s)
        BY <1>1, <2>2, <3>2
    <3>4. /\ PlaceToCome(s).type = RoleAt(j, Len(server_list[k]))
          /\ j > 1 => PlaceToCome(s).pre = server_list[k][j - 1].port
        BY <1>3, <3>1 DEF FInv, NoticesLeadToList
    <3> QED
        BY <3>1, <3>3, <3>4
  <2> QED
      BY <2>1, <2>2
<1>4. NoticesLeadToList'
    BY <1>2, <1>3 DEF NoticesLeadToList
<1>5. ShrinkingOnly'
    BY OrderLeft, ExpectedLeft DEF ShrinkingOnly
<1> QED
    BY <1>4, <1>5 DEF FInv

\* What a server of the list had to expect before.
LEMMA LedBefore ==
    ASSUME FInv, NEW b \in Banks, NEW i \in 1 .. Len(server_list[b]), Removal(b, i),
           NEW j \in 1 .. Len(server_list[b]) - 1, NEW s \in alive,
           s = server_list[b][PlaceBefore(i, j)].port
    PROVE  /\ Led(from_master, s).type = RoleAt(PlaceBefore(i, j), Len(server_list[b]))
           /\ PlaceBefore(i, j) > 1 =>
                Led(from_master, s).pre = server_list[b][PlaceBefore(i, j) - 1].port
           /\ \A k \in 1 .. Len(server_list[b]) : server_list[b][k].port = s => k = PlaceBefore(i, j)
<1>1. PlaceBefore(i, j) \in 1 .. Len(server_list[b])
    BY ListLeft
<1>2. PlaceBefore(i, j) \in DOMAIN server_list[b]
    BY <1>1, ListFacts
<1>3. /\ PlaceToCome(s).type = RoleAt(PlaceBefore(i, j), Len(server_list[b]))
      /\ PlaceBefore(i, j) > 1 =>
            PlaceToCome(s).pre = server_list[b][PlaceBefore(i, j) - 1].port
    BY <1>2 DEF FInv, NoticesLeadToList
<1>4. Led(from_master, s) = PlaceToCome(s)
    BY LedNow, RunningPlace DEF FInv
<1>5. \A k \in 1 .. Len(server_list[b]) : server_list[b][k].port = s => k = PlaceBefore(i, j)
    BY <1>1, ListFacts
<1> QED
    BY <1>3, <1>4, <1>5

\* A removal in the code is one.
LEMMA IsRemoval ==
    ASSUME FInv, NEW b \in Banks, NEW i \in 1 .. Len(server_list[b]), Silent(b, i),
           server_list' = [server_list EXCEPT ![b] = Without(b, i)],
           UNCHANGED <<serverState, alive, connects, to_master, memberState, ended>>
    PROVE  Removal(b, i)
BY DEF Silent, Removal, serverState, topology, memberState

\* What is sent beforehand is expected afterwards.
LEMMA ExpectedAfter ==
    ASSUME FInv, NEW b \in Banks, NEW i \in 1 .. Len(server_list[b]), Removal(b, i)
    PROVE  /\ \A s \in Servers : from_master[s] \in Seq(Expected(s)')
           /\ from_master \in [Servers -> Seq(Notices)]
<1>1. ASSUME NEW s \in Servers
      PROVE  from_master[s] \in Seq(Expected(s)')
  <2>1. from_master[s] \in Seq(Expected(s)) /\ Expected(s) \subseteq Expected(s)'
      BY ExpectedLeft DEF FInv, ShrinkingOnly, NoticesExpected
  <2> QED
      BY <2>1
<1> QED
    BY <1>1, FTypesFacts DEF FInv

\* The only server is removed: nobody is told.
LEMMA RemoveOnlyInv ==
    ASSUME FInv, FTypes', NEW b \in Banks, RemoveOnly(b),
           UNCHANGED <<clientState, memberState, ended>>
    PROVE  FInv'
<1>1. Len(server_list[b]) = 1 /\ 1 \in 1 .. Len(server_list[b])
    BY DEF RemoveOnly
<1>2. Removal(b, 1)
    BY <1>1, IsRemoval DEF RemoveOnly, masterStreams
<1>3. from_master' = from_master
    BY DEF RemoveOnly, masterStreams
<1>4. NoticesExpected'
    BY <1>1, <1>2, <1>3, ExpectedAfter DEF NoticesExpected
<1>5. \A s \in alive : Led(from_master', s) = PlaceToCome(s)
    BY <1>3, LedNow, RunningPlace DEF FInv
<1>6. \A j \in 1 .. Len(server_list[b]) - 1 : FALSE
    BY <1>1
<1> QED
    BY <1>1, <1>2, <1>4, <1>5, <1>6, RemovalDone

\* The head is removed; the next becomes head, or head and tail.
LEMMA RemoveHeadInv ==
    ASSUME FInv, FTypes', NEW b \in Banks, RemoveHead(b),
           UNCHANGED <<clientState, memberState, ended>>
    PROVE  FInv'
<1> DEFINE n == Len(server_list[b])
           notice == [op |-> "HEAD_FAIL"]
<1>1. n \in Nat /\ n > 1 /\ 1 \in 1 .. n /\ 2 \in 1 .. n
    BY ListFacts DEF RemoveHead
<1>2. Removal(b, 1)
    BY <1>1, IsRemoval DEF RemoveHead, network
<1>3. SUFFICES ASSUME NEW t \in Servers, t = server_list[b][2].port
               PROVE  FInv'
    BY <1>1, ListFacts
<1>4. Bank(t) = b /\ from_master' = Notify(from_master, t, notice)
    BY <1>1, <1>3, ListFacts DEF RemoveHead
<1>5. notice \in Notices /\ notice.op = "HEAD_FAIL"
    BY DEF Notices
<1>6. /\ \A s \in Servers : from_master[s] \in Seq(Expected(s)')
      /\ from_master \in [Servers -> Seq(Notices)]
    BY <1>1, <1>2, ExpectedAfter
<1>7. notice \in Expected(t)'
  <2>1. /\ server_list'[b][1] = server_list[b][2] /\ server_list'[b] # <<>>
    <3>1. 1 \in 1 .. n - 1 /\ PlaceBefore(1, 1) = 2
        BY <1>1 DEF PlaceBefore
    <3>2. /\ \A j \in 1 .. n - 1 : server_list'[b][j] = server_list[b][PlaceBefore(1, j)]
          /\ server_list'[b] \in Seq(Entries) /\ Len(server_list'[b]) = n - 1
        BY <1>1, <1>2, ListLeft
    <3> HIDE DEF n
    <3> QED
        BY <1>1, <3>1, <3>2
  <2>2. StartsList(t)'
      BY <1>3, <1>4, <2>1 DEF StartsList
  <2> QED
      BY <1>5, <2>2 DEF Expected
<1> HIDE DEF n, notice
<1>8. NoticesExpected'
  <2> DEFINE E == [s \in Servers |-> Expected(s)']
  <2>1. \A s \in Servers : E[s] = Expected(s)'
      OBVIOUS
  <2> HIDE DEF E
  <2>2. \A s \in Servers : from_master[s] \in Seq(E[s])
      BY <1>6, <2>1
  <2>3. \A x \in Servers : notice \in E[x] =>
           \A s \in Servers : Notify(from_master, x, notice)[s] \in Seq(E[s])
      BY <1>6, <2>2, ExpectedSent
  <2>4. \A s \in Servers : from_master'[s] \in Seq(Expected(s)')
      BY <1>4, <1>7, <2>1, <2>3
  <2> QED
      BY <2>4 DEF NoticesExpected
<1>9. \A s \in Servers :
        Led(from_master', s) = IF s = t /\ t \in alive THEN PlaceAfter(Led(from_master, s), notice)
                                                       ELSE Led(from_master, s)
    BY <1>4, <1>5, <1>6, LedByNotify DEF FInv
<1>10. \A s \in alive : Bank(s) # b => Led(from_master', s) = PlaceToCome(s)
    BY <1>4, <1>9, LedNow, RunningPlace DEF FInv
<1>11. ASSUME NEW j \in 1 .. n - 1, NEW s \in alive,
              s = server_list[b][PlaceBefore(1, j)].port
       PROVE  /\ Led(from_master', s).type = RoleAt(j, n - 1)
              /\ j > 1 => Led(from_master', s).pre = server_list[b][PlaceBefore(1, j - 1)].port
  <2>1. PlaceBefore(1, j) = j + 1 /\ (j > 1 => PlaceBefore(1, j - 1) = j)
      BY <1>1 DEF PlaceBefore
  <2>2. /\ Led(from_master, s).type = RoleAt(j + 1, n)
        /\ j + 1 > 1 => Led(from_master, s).pre = server_list[b][(j + 1) - 1].port
        /\ \A k \in 1 .. n : server_list[b][k].port = s => k = j + 1
      BY <1>1, <1>2, <1>11, <2>1, LedBefore DEF n
  <2>3. s \in Servers
      BY RunningPlace
  <2>4. CASE j = 1
    <3>1. s = t
        BY <1>3, <1>11, <2>1, <2>4
    <3>2. Led(from_master', s).type = RoleAfter(Led(from_master, s).type, notice)
        BY <1>9, <2>3, <3>1 DEF PlaceAfter
    <3>3. RoleAfter(RoleAt(2, n), notice) = RoleAt(1, n - 1)
        BY <1>1, RoleWithoutHead DEF notice
    <3> QED
        BY <2>2, <2>4, <3>2, <3>3
  <2>5. CASE j > 1
    <3>1. s # t
        BY <1>1, <1>3, <2>2, <2>5
    <3>2. Led(from_master', s) = Led(from_master, s)
        BY <1>9, <2>3, <3>1
    <3>3. RoleAt(j + 1, n) = RoleAt(j, n - 1)
        BY <1>1, <2>5, RoleWithoutHead
    <3>4. (j + 1) - 1 = j
        OBVIOUS
    <3> QED
        BY <2>1, <2>2, <2>5, <3>2, <3>3, <3>4
  <2> QED
      BY <2>4, <2>5
<1> QED
    BY <1>1, <1>2, <1>8, <1>10, <1>11, RemovalDone DEF n

\* The tail is removed; the one in front becomes tail, or head and tail.
LEMMA RemoveTailInv ==
    ASSUME FInv, FTypes', NEW b \in Banks, RemoveTail(b),
           UNCHANGED <<clientState, memberState, ended>>
    PROVE  FInv'
<1> DEFINE n == Len(server_list[b])
           notice == [op |-> "TAIL_FAIL"]
<1>1. n \in Nat /\ n > 1 /\ n \in 1 .. n /\ n - 1 \in 1 .. n
    BY ListFacts DEF RemoveTail
<1>2. Removal(b, n)
    BY <1>1, IsRemoval DEF RemoveTail
<1>3. SUFFICES ASSUME NEW t \in Servers, t = server_list[b][n - 1].port
               PROVE  FInv'
    BY <1>1, ListFacts
<1> DEFINE other == [op |-> "TRANS_TAIL_FAIL", bank_id |-> b, port |-> t]
           first == Notify(from_master, t, notice)
<1>4. Bank(t) = b /\ from_master' = NotifyAll(first, OtherServers(b), other)
    BY <1>1, <1>3, ListFacts DEF RemoveTail
<1>5. /\ notice \in Notices /\ notice.op = "TAIL_FAIL"
      /\ other \in Notices /\ other.op = "TRANS_TAIL_FAIL" /\ other.op \in Neutral
    BY DEF Notices, Neutral
<1>6. /\ \A s \in Servers : from_master[s] \in Seq(Expected(s)')
      /\ from_master \in [Servers -> Seq(Notices)]
    BY <1>1, <1>2, ExpectedAfter
<1>7. notice \in Expected(t)'
  <2>1. server_list'[b][n - 1] = server_list[b][n - 1]
        /\ server_list'[b] # <<>> /\ Len(server_list'[b]) = n - 1
    <3>1. n - 1 \in 1 .. n - 1 /\ PlaceBefore(n, n - 1) = n - 1
        BY <1>1 DEF PlaceBefore
    <3>2. /\ \A j \in 1 .. n - 1 : server_list'[b][j] = server_list[b][PlaceBefore(n, j)]
          /\ server_list'[b] \in Seq(Entries) /\ Len(server_list'[b]) = n - 1
        BY <1>1, <1>2, ListLeft
    <3> HIDE DEF n
    <3> QED
        BY <1>1, <3>1, <3>2
  <2>2. EndsList(t)'
      BY <1>3, <1>4, <2>1 DEF EndsList
  <2> QED
      BY <1>5, <2>2 DEF Expected
<1>8. \A s \in Servers : other \in Expected(s)'
    BY <1>5 DEF Expected
<1>9. /\ first \in [Servers -> Seq(Notices)]
      /\ \A s \in Servers :
            Led(first, s) = IF s = t /\ t \in alive THEN PlaceAfter(Led(from_master, s), notice)
                                                    ELSE Led(from_master, s)
    BY <1>5, <1>6, LedByNotify DEF FInv
<1> HIDE DEF n, notice, other
<1>10. NoticesExpected'
  <2> DEFINE E == [s \in Servers |-> Expected(s)']
  <2>1. \A s \in Servers : E[s] = Expected(s)'
      OBVIOUS
  <2> HIDE DEF E
  <2>2. \A s \in Servers : from_master[s] \in Seq(E[s])
      BY <1>6, <2>1
  <2>3. \A x \in Servers : notice \in E[x] =>
           \A s \in Servers : Notify(from_master, x, notice)[s] \in Seq(E[s])
      BY <1>6, <2>2, ExpectedSent
  <2>4. \A s \in Servers : first[s] \in Seq(E[s])
      BY <1>7, <2>1, <2>3
  <2> HIDE DEF first
  <2>5. (\A x \in Servers : other \in E[x]) =>
           \A group : \A s \in Servers : NotifyAll(first, group, other)[s] \in Seq(E[s])
      BY <1>9, <2>4, ExpectedSent
  <2>6. \A s \in Servers : from_master'[s] \in Seq(Expected(s)')
      BY <1>4, <1>8, <2>1, <2>5
  <2> QED
      BY <2>6 DEF NoticesExpected
<1> HIDE DEF first
<1>11. \A s \in Servers : Led(from_master', s) = Led(first, s)
    BY <1>4, <1>5, <1>9, LedByNeutral DEF FInv
<1>12. \A s \in alive : Bank(s) # b => Led(from_master', s) = PlaceToCome(s)
    BY <1>4, <1>9, <1>11, LedNow, RunningPlace DEF FInv
<1>13. ASSUME NEW j \in 1 .. n - 1, NEW s \in alive,
              s = server_list[b][PlaceBefore(n, j)].port
       PROVE  /\ Led(from_master', s).type = RoleAt(j, n - 1)
              /\ j > 1 => Led(from_master', s).pre = server_list[b][PlaceBefore(n, j - 1)].port
  <2>1. PlaceBefore(n, j) = j /\ (j > 1 => PlaceBefore(n, j - 1) = j - 1)
      BY <1>1 DEF PlaceBefore
  <2>2. /\ Led(from_master, s).type = RoleAt(j, n)
        /\ j > 1 => Led(from_master, s).pre = server_list[b][j - 1].port
        /\ \A k \in 1 .. n : server_list[b][k].port = s => k = j
      BY <1>1, <1>2, <1>13, <2>1, LedBefore DEF n
  <2>3. s \in Servers
      BY RunningPlace
  <2>4. Led(from_master', s).pre = Led(from_master, s).pre
      BY <1>9, <1>11, <2>3 DEF PlaceAfter, PreAfter, notice
  <2>5. CASE j = n - 1
    <3>1. s = t
        BY <1>3, <1>13, <2>1, <2>5 DEF n
    <3>2. Led(from_master', s).type = RoleAfter(Led(from_master, s).type, notice)
        BY <1>9, <1>11, <2>3, <3>1 DEF PlaceAfter
    <3>3. RoleAfter(RoleAt(j, n), notice) = RoleAt(j, n - 1)
        BY <1>1, <2>5, RoleWithoutTail DEF notice
    <3> QED
        BY <2>1, <2>2, <2>4, <3>2, <3>3
  <2>6. CASE j < n - 1
    <3>1. s # t
        BY <1>1, <1>3, <2>2, <2>6 DEF n
    <3>2. Led(from_master', s) = Led(from_master, s)
        BY <1>9, <1>11, <2>3, <3>1
    <3>3. RoleAt(j, n) = RoleAt(j, n - 1)
        BY <1>1, <2>6, RoleWithoutTail
    <3> QED
        BY <2>1, <2>2, <3>2, <3>3
  <2> QED
      BY <1>1, <2>5, <2>6
<1> QED
    BY <1>1, <1>2, <1>10, <1>12, <1>13, RemovalDone DEF n

\* An inner server is removed; the one behind it gets another predecessor.
LEMMA RemoveInterInv ==
    ASSUME FInv, FTypes', NEW b \in Banks, NEW i \in DOMAIN server_list[b], RemoveInter(b, i),
           UNCHANGED <<clientState, memberState, ended>>
    PROVE  FInv'
<1> DEFINE n == Len(server_list[b])
<1>1. /\ n \in Nat /\ i \in 1 .. n /\ i > 1 /\ i < n
      /\ i - 1 \in 1 .. n /\ i + 1 \in 1 .. n
  <2>1. n \in Nat /\ i \in 1 .. n
      BY ListFacts
  <2> QED
      BY <2>1 DEF RemoveInter
<1>2. Removal(b, i)
    BY <1>1, IsRemoval DEF RemoveInter
<1>3. SUFFICES ASSUME NEW p \in Servers, p = server_list[b][i - 1].port,
                      NEW t \in Servers, t = server_list[b][i + 1].port
               PROVE  FInv'
    BY <1>1, ListFacts
<1> DEFINE one == [op |-> "INTER_NEXT_FAIL", port |-> t]
           two == [op |-> "INTER_PRE_FAIL", port |-> p]
           first == Notify(from_master, p, one)
<1>4. /\ Bank(t) = b /\ from_master' = Notify(first, t, two)
      /\ Earlier(p, t)
  <2>1. Bank(t) = b
      BY <1>1, <1>3, ListFacts
  <2>2. from_master' = Notify(first, t, two)
      BY <1>3 DEF RemoveInter, InterNotices
  <2>3. /\ i - 1 \in DOMAIN server_list[b] /\ i + 1 \in DOMAIN server_list[b]
        /\ i - 1 < i + 1
      BY <1>1, ListFacts
  <2>4. Earlier(p, t)
      BY <1>3, <2>3 DEF FInv, ShrinkingOnly, ListedInOrder
  <2> QED
      BY <2>1, <2>2, <2>4
<1>5. /\ one \in Notices /\ one.op = "INTER_NEXT_FAIL" /\ one.op \in Neutral
      /\ two \in Notices /\ two.op = "INTER_PRE_FAIL" /\ two.port = p
    BY DEF Notices, Neutral
<1>6. /\ \A s \in Servers : from_master[s] \in Seq(Expected(s)')
      /\ from_master \in [Servers -> Seq(Notices)]
    BY <1>1, <1>2, ExpectedAfter
<1>7. one \in Expected(p)' /\ two \in Expected(t)'
    BY <1>4, <1>5 DEF Expected
<1>8. /\ first \in [Servers -> Seq(Notices)]
      /\ \A s \in Servers : Led(first, s) = Led(from_master, s)
  <2>1. /\ first \in [Servers -> Seq(Notices)]
        /\ \A s \in Servers :
            Led(first, s) = IF s = p /\ p \in alive THEN PlaceAfter(Led(from_master, s), one)
                                                    ELSE Led(from_master, s)
      BY <1>5, <1>6, LedByNotify DEF FInv
  <2>2. \A s \in Servers : Led(from_master, s) \in ChainPlaces
      BY PlaceToComeType, LedNow DEF FInv
  <2>3. \A place \in ChainPlaces : PlaceAfter(place, one) = place
      BY <1>5, NeutralOnTheWay
  <2> QED
      BY <2>1, <2>2, <2>3
<1> HIDE DEF n, one, two
<1>9. NoticesExpected'
  <2> DEFINE E == [s \in Servers |-> Expected(s)']
  <2>1. \A s \in Servers : E[s] = Expected(s)'
      OBVIOUS
  <2> HIDE DEF E
  <2>2. \A s \in Servers : from_master[s] \in Seq(E[s])
      BY <1>6, <2>1
  <2>3. \A x \in Servers : one \in E[x] =>
           \A s \in Servers : Notify(from_master, x, one)[s] \in Seq(E[s])
      BY <1>6, <2>2, ExpectedSent
  <2>4. \A s \in Servers : first[s] \in Seq(E[s])
      BY <1>7, <2>1, <2>3
  <2> HIDE DEF first
  <2>5. \A x \in Servers : two \in E[x] =>
           \A s \in Servers : Notify(first, x, two)[s] \in Seq(E[s])
      BY <1>8, <2>4, ExpectedSent
  <2>6. \A s \in Servers : from_master'[s] \in Seq(Expected(s)')
      BY <1>4, <1>7, <2>1, <2>5
  <2> QED
      BY <2>6 DEF NoticesExpected
<1> HIDE DEF first
<1>10. \A s \in Servers :
         Led(from_master', s) = IF s = t /\ t \in alive THEN PlaceAfter(Led(from_master, s), two)
                                                        ELSE Led(from_master, s)
  <2>1. \A s \in Servers :
          Led(Notify(first, t, two), s) = IF s = t /\ t \in alive THEN PlaceAfter(Led(first, s), two)
                                                                 ELSE Led(first, s)
      BY <1>5, <1>8, LedByNotify DEF FInv
  <2> SUFFICES ASSUME NEW s \in Servers
               PROVE  Led(Notify(first, t, two), s) =
                        IF s = t /\ t \in alive THEN PlaceAfter(Led(from_master, s), two)
                                               ELSE Led(from_master, s)
      BY <1>4
  <2>2. Led(first, s) = Led(from_master, s)
      BY <1>8
  <2> QED
      BY <2>1, <2>2
<1>11. \A s \in alive : Bank(s) # b => Led(from_master', s) = PlaceToCome(s)
    BY <1>4, <1>10, LedNow, RunningPlace DEF FInv
<1>12. ASSUME NEW j \in 1 .. n - 1, NEW s \in alive,
              s = server_list[b][PlaceBefore(i, j)].port
       PROVE  /\ Led(from_master', s).type = RoleAt(j, n - 1)
              /\ j > 1 => Led(from_master', s).pre = server_list[b][PlaceBefore(i, j - 1)].port
  <2>1. /\ Led(from_master, s).type = RoleAt(PlaceBefore(i, j), n)
        /\ PlaceBefore(i, j) > 1 =>
              Led(from_master, s).pre = server_list[b][PlaceBefore(i, j) - 1].port
        /\ \A k \in 1 .. n : server_list[b][k].port = s => k = PlaceBefore(i, j)
      BY <1>1, <1>2, <1>12, LedBefore DEF n
  <2>2. s \in Servers
      BY RunningPlace
  <2>3. RoleAt(PlaceBefore(i, j), n) = RoleAt(j, n - 1)
      BY <1>1, RoleWithoutInter DEF PlaceBefore
  <2>4. Led(from_master', s).type = Led(from_master, s).type
      BY <1>10, <2>2 DEF PlaceAfter, RoleAfter, two
  <2>5. CASE j = i
    <3>1. PlaceBefore(i, j) = i + 1 /\ PlaceBefore(i, j - 1) = i - 1
        BY <1>1, <2>5 DEF PlaceBefore
    <3>2. s = t
        BY <1>3, <1>12, <3>1
    <3>3. Led(from_master', s).pre = p
        BY <1>10, <2>2, <3>2 DEF PlaceAfter, PreAfter, two
    <3> QED
        BY <1>3, <2>1, <2>3, <2>4, <3>1, <3>3
  <2>6. CASE j # i
    <3>1. /\ j < i => PlaceBefore(i, j) = j /\ PlaceBefore(i, j - 1) = j - 1
          /\ j > i => PlaceBefore(i, j) = j + 1 /\ PlaceBefore(i, j - 1) = j
      <4>1. i \in Nat /\ j \in Nat
          BY <1>1
      <4> QED
          BY <4>1 DEF PlaceBefore
    <3>2. s # t
      <4>1. PlaceBefore(i, j) # i + 1
          BY <1>1, <2>6, <3>1
      <4> QED
          BY <1>1, <1>3, <2>1, <4>1
    <3>3. Led(from_master', s) = Led(from_master, s)
        BY <1>10, <2>2, <3>2
    <3>4. j > 1 => PlaceBefore(i, j) > 1 /\ PlaceBefore(i, j) - 1 = PlaceBefore(i, j - 1)
        BY <1>1, <2>6, <3>1
    <3> QED
        BY <2>1, <2>3, <3>3, <3>4
  <2> QED
      BY <2>5, <2>6
<1> QED
    BY <1>1, <1>2, <1>9, <1>11, <1>12, RemovalDone DEF n

--------------------------------------------------------------------------------
\* The master's other steps.

\* A step that leaves lists and streams alone keeps the invariant.
LEMMA ListsKept ==
    ASSUME FInv, FTypes', NoNewTail',
           UNCHANGED <<my_type, pre_port, alive, ended, connects, server_list>>,
           \A s \in Servers : SentNeutral(s)
    PROVE  FInv'
<1>1. RunningListed'
    BY DEF FInv, ShrinkingOnly, RunningListed
<1> QED
    BY <1>1, SameLists

\* A flag that changes: the ports stay.
LEMMA FlagChanged ==
    ASSUME FInv, NEW b \in Banks, NEW i \in DOMAIN server_list[b], NEW flag,
           server_list' = [server_list EXCEPT ![b][i].round_flag = flag]
    PROVE  /\ \A k \in Banks :
                /\ Len(server_list'[k]) = Len(server_list[k])
                /\ DOMAIN server_list'[k] = DOMAIN server_list[k]
                /\ \A j \in 1 .. Len(server_list[k]) :
                      server_list'[k][j].port = server_list[k][j].port
           /\ \A k \in Banks : \A j \in DOMAIN server_list[k] :
                 server_list'[k][j] # server_list[k][j] =>
                    /\ k = b /\ j = i
                    /\ server_list'[k][j] = [port |-> server_list[b][i].port, round_flag |-> flag]
<1>1. /\ server_list \in [Banks -> Seq(Entries)]
      /\ server_list[b] \in Seq(Entries)
      /\ \A k \in Banks : DOMAIN server_list[k] = 1 .. Len(server_list[k])
    BY ListFacts
<1> DEFINE list == server_list[b]
           new == [list EXCEPT ![i].round_flag = flag]
<1>2. server_list' = [server_list EXCEPT ![b] = new]
    OBVIOUS
<1>3. list \in Seq(Entries) /\ list[i] \in Entries /\ i \in DOMAIN list
    BY <1>1
<1>4. /\ Len(new) = Len(list) /\ DOMAIN new = DOMAIN list
      /\ \A j \in DOMAIN list : j # i => new[j] = list[j]
      /\ new[i] = [list[i] EXCEPT !.round_flag = flag]
    BY <1>3
<1>5. new[i] = [port |-> list[i].port, round_flag |-> flag] /\ new[i].port = list[i].port
    BY <1>3, <1>4 DEF Entries
<1>6. \A k \in Banks : server_list'[k] = IF k = b THEN new ELSE server_list[k]
    BY <1>1, <1>2
<1> HIDE DEF new
<1>7. \A j \in DOMAIN list : new[j].port = list[j].port
    BY <1>4, <1>5
<1>8. DOMAIN list = 1 .. Len(list)
    BY <1>1
<1> QED
    BY <1>4, <1>5, <1>6, <1>7, <1>8

\* The datagram of a server that runs.
LEMMA RoundAskReceiveInv ==
    ASSUME FInv, FTypes', NEW s \in Servers, RoundAskReceive(s),
           UNCHANGED <<clientState, memberState, ended>>
    PROVE  FInv'
<1>1. PICK i \in DOMAIN server_list[Bank(s)] :
        /\ server_list[Bank(s)][i] = [port |-> s, round_flag |-> "DIE"]
        /\ server_list' = [server_list EXCEPT ![Bank(s)][i].round_flag = "LIVE"]
    BY DEF RoundAskReceive
<1>2. Bank(s) \in Banks
    BY ChainEnds
<1>3. \A k \in Banks : \A j \in DOMAIN server_list[k] :
        server_list'[k][j] # server_list[k][j] => server_list'[k][j] = Listed(s)
    BY <1>1, <1>2, FlagChanged DEF Listed
<1>4. /\ UNCHANGED <<my_type, pre_port, alive, ended, connects, from_master, hist, from_pre,
                     to_master>>
    BY DEF RoundAskReceive, serverState, topology, memberState, masterStreams
<1>5. RunningListed'
  <2> SUFFICES ASSUME NEW t \in alive
               PROVE  \E j \in DOMAIN server_list'[Bank(t)] :
                         server_list'[Bank(t)][j] = [port |-> t, round_flag |-> "LIVE"]
      BY <1>4 DEF RunningListed, Listed
  <2>1. t \in Servers /\ Bank(t) \in Banks
      BY RunningPlace
  <2>2. PICK j \in DOMAIN server_list[Bank(t)] : server_list[Bank(t)][j] = Listed(t)
      BY DEF FInv, ShrinkingOnly, RunningListed
  <2>3. j \in DOMAIN server_list'[Bank(t)] /\ j \in 1 .. Len(server_list[Bank(t)])
      BY <1>1, <1>2, <2>1, FlagChanged, ListFacts
  <2>4. server_list'[Bank(t)][j].port = server_list[Bank(t)][j].port
      BY <1>1, <1>2, <2>1, <2>3, FlagChanged
  <2>5. server_list'[Bank(t)][j] = Listed(t)
    <3>1. CASE server_list'[Bank(t)][j] # server_list[Bank(t)][j]
      <4>1. server_list'[Bank(t)][j] = Listed(s)
          BY <1>3, <2>1, <2>2, <3>1
      <4>2. s = t
          BY <2>2, <2>4, <4>1 DEF Listed
      <4> QED
          BY <4>1, <4>2
    <3> QED
        BY <2>2, <3>1
  <2> QED
      BY <2>3, <2>5 DEF Listed
<1>6. NoNewTail'
    BY <1>4 DEF FInv, ShrinkingOnly, NoNewTail
<1>7. \A k \in Banks :
        /\ Len(server_list'[k]) = Len(server_list[k])
        /\ \A j \in 1 .. Len(server_list[k]) : server_list'[k][j].port = server_list[k][j].port
    BY <1>1, <1>2, FlagChanged
<1>8. \A t \in Servers : SentNeutral(t)
    BY <1>4 DEF SentNeutral
<1> QED
    BY <1>4, <1>5, <1>6, <1>7, <1>8, SameLists

\* Only the flag of a dead server is cleared.
LEMMA VisitLiveInv ==
    ASSUME FInv, FTypes', Punctual = Servers, NEW b \in Banks, NEW i \in DOMAIN server_list[b],
           VisitLive(b, i), UNCHANGED <<clientState, memberState, ended>>
    PROVE  FInv'
<1>1. /\ server_list' = [server_list EXCEPT ![b][i].round_flag = "DIE"]
      /\ server_list[b][i].port \notin Punctual \cap alive
    BY DEF VisitLive
<1>2. i \in 1 .. Len(server_list[b]) /\ server_list[b][i].port \in Servers
    BY ListFacts
<1>3. server_list[b][i].port \notin alive
    BY <1>1, <1>2
<1>4. /\ UNCHANGED <<my_type, pre_port, alive, ended, connects, from_master, hist, from_pre,
                     to_master>>
    BY DEF VisitLive, serverState, topology, memberState, masterStreams
<1>5. RunningListed'
  <2> SUFFICES ASSUME NEW t \in alive
               PROVE  \E j \in DOMAIN server_list'[Bank(t)] :
                         server_list'[Bank(t)][j] = [port |-> t, round_flag |-> "LIVE"]
      BY <1>4 DEF RunningListed, Listed
  <2>1. t \in Servers /\ Bank(t) \in Banks
      BY RunningPlace
  <2>2. PICK j \in DOMAIN server_list[Bank(t)] : server_list[Bank(t)][j] = Listed(t)
      BY DEF FInv, ShrinkingOnly, RunningListed
  <2>3. j \in DOMAIN server_list'[Bank(t)]
      BY <1>1, <2>1, FlagChanged
  <2>4. ~ (Bank(t) = b /\ j = i)
      BY <1>3, <2>2 DEF Listed
  <2>5. server_list'[Bank(t)][j] = server_list[Bank(t)][j]
      BY <1>1, <2>1, <2>4, FlagChanged
  <2> QED
      BY <2>2, <2>3, <2>5 DEF Listed
<1>6. NoNewTail'
    BY <1>4 DEF FInv, ShrinkingOnly, NoNewTail
<1>7. \A k \in Banks :
        /\ Len(server_list'[k]) = Len(server_list[k])
        /\ \A j \in 1 .. Len(server_list[k]) : server_list'[k][j].port = server_list[k][j].port
    BY <1>1, FlagChanged
<1>8. \A t \in Servers : SentNeutral(t)
    BY <1>4 DEF SentNeutral
<1> QED
    BY <1>4, <1>5, <1>6, <1>7, <1>8, SameLists

\* One notice that changes no place, to some.
LEMMA NeutralToAll ==
    ASSUME FTypes, NEW n \in Notices, n.op \in Neutral \ {"GET_PRE"}, NEW s \in Servers
    PROVE  /\ \A group : from_master' = NotifyAll(from_master, group, n) => SentNeutral(s)
           /\ \A t : from_master' = Notify(from_master, t, n) => SentNeutral(s)
<1>1. from_master \in [Servers -> Seq(Notices)]
    BY FTypesFacts
<1>2. ASSUME NEW group, from_master' = NotifyAll(from_master, group, n)
      PROVE  SentNeutral(s)
  <2>1. from_master'[s] \in {from_master[s], Append(from_master[s], n)}
      BY <1>2 DEF NotifyAll
  <2> QED
      BY <2>1 DEF SentNeutral
<1>3. ASSUME NEW t, from_master' = Notify(from_master, t, n)
      PROVE  SentNeutral(s)
  <2> DEFINE x == Append(from_master[t], n)
  <2>1. from_master' = IF t \in alive THEN [from_master EXCEPT ![t] = x] ELSE from_master
      BY <1>3 DEF Notify
  <2>2. s = t => x = Append(from_master[s], n)
      OBVIOUS
  <2> HIDE DEF x
  <2>3. from_master'[s] = from_master[s] \/ (s = t /\ from_master'[s] = x)
      BY <1>1, <2>1
  <2>4. from_master'[s] = from_master[s] \/ from_master'[s] = Append(from_master[s], n)
      BY <2>2, <2>3
  <2> QED
      BY <2>4 DEF SentNeutral
<1> QED
    BY <1>2, <1>3

\* The other banks hear of a new head.
LEMMA TellNewHeadInv ==
    ASSUME FInv, FTypes', NEW b \in Banks, TellNewHead(b),
           UNCHANGED <<clientState, memberState, ended>>
    PROVE  FInv'
<1> DEFINE head == GetHeadServer(server_list[b])
           notice == [op |-> "TRANS_HEAD_FAIL", bank_id |-> b, port |-> head]
<1>1. server_list[b] \in Seq(Entries) /\ server_list[b] # <<>>
  <2>1. telling = b /\ telling # NoBank
      BY NoBankAssumption DEF TellNewHead
  <2> QED
      BY <2>1, ListFacts DEF FInv, FTypes
<1>2. head \in Servers
    BY <1>1, EndsType
<1>3. notice \in Notices /\ notice.op \in Neutral \ {"GET_PRE"}
    BY <1>2 DEF Notices, Neutral
<1>4. from_master' = NotifyAll(from_master, OtherTails(b), notice)
    BY DEF TellNewHead
<1> HIDE DEF notice
<1>5. \A s \in Servers : SentNeutral(s)
    BY <1>3, <1>4, NeutralToAll DEF FInv
<1>6. UNCHANGED <<my_type, pre_port, alive, ended, connects, server_list, hist, from_pre,
                  to_master>>
    BY DEF TellNewHead, serverState, topology, memberState
<1>7. NoNewTail'
    BY <1>6 DEF FInv, ShrinkingOnly, NoNewTail
<1> QED
    BY <1>5, <1>6, <1>7, ListsKept

\* A number is passed on.
LEMMA RecAckLastInv ==
    ASSUME FInv, FTypes', NEW s \in Servers, RecAckLast(s),
           UNCHANGED <<clientState, memberState, ended>>
    PROVE  FInv'
<1> DEFINE notice == [op |-> "NEXT_SN", sn |-> Head(to_master[s]).sn]
<1>1. notice \in Notices /\ notice.op \in Neutral \ {"GET_PRE"}
  <2>1. Head(to_master[s]).sn \in Int
      BY ReportRead DEF RecAckLast, FInv
  <2> QED
      BY <2>1 DEF Notices, Neutral
<1>2. from_master' = Notify(from_master, AskedServer(s), notice)
    BY DEF RecAckLast
<1> HIDE DEF notice
<1>3. \A t \in Servers : SentNeutral(t)
    BY <1>1, <1>2, NeutralToAll DEF FInv
<1>4. UNCHANGED <<my_type, pre_port, alive, ended, connects, server_list, hist, from_pre>>
    BY DEF RecAckLast, serverState, topology, memberState, masterState
<1>5. to_master' \in [Servers -> Seq(Numbers)]
  <2>1. to_master \in [Servers -> Seq(Numbers)]
      BY DEF FInv, ShrinkingOnly, NoNewTail
  <2>2. to_master' = [to_master EXCEPT ![s] = Tail(to_master[s])] /\ to_master[s] # <<>>
      BY DEF RecAckLast, Arrives, Pop
  <2>3. Tail(to_master[s]) \in Seq(Numbers)
      BY <2>1, <2>2
  <2> QED
      BY <2>1, <2>2, <2>3
<1>6. NoNewTail'
    BY <1>4, <1>5 DEF FInv, ShrinkingOnly, NoNewTail
<1> QED
    BY <1>3, <1>4, <1>6, ListsKept

\* Every step of the master.
LEMMA MasterStepInv ==
    ASSUME FInv, FTypes', Punctual = Servers, FMasterStep
    PROVE  FInv'
<1> USE DEF FMasterStep
<1>1. ASSUME NEW c \in Clients, RecvLogin(c)
      PROVE  FInv'
  <2>1. UNCHANGED <<my_type, pre_port, alive, ended, connects, server_list, hist, from_pre,
                    to_master, from_master>>
      BY <1>1 DEF RecvLogin, serverState, topology, memberState, masterStreams
  <2>2. NoNewTail' /\ \A s \in Servers : SentNeutral(s)
      BY <2>1 DEF FInv, ShrinkingOnly, NoNewTail, SentNeutral
  <2> QED
      BY <2>1, <2>2, ListsKept
<1>2. ASSUME NEW s \in Servers, RoundAskReceive(s)
      PROVE  FInv'
    BY <1>2, RoundAskReceiveInv
<1>3. ASSUME NEW s \in Servers, RecFromServer(s)
      PROVE  FInv'
  <2>1. CASE RecAckLast(s)
      BY <2>1, RecAckLastInv
  <2>2. CASE RecNewTail(s)
    <3>1. to_master[s] \in Seq(Numbers)
        BY DEF FInv, ShrinkingOnly, NoNewTail
    <3>2. to_master[s] # <<>> /\ Head(to_master[s]).op = "NEW_TAIL"
        BY <2>2 DEF RecNewTail, Arrives
    <3>3. Head(to_master[s]) \in Numbers
        BY <3>1, <3>2
    <3> QED
        BY <3>2, <3>3 DEF Numbers
  <2> QED
      BY <1>3, <2>1, <2>2 DEF RecFromServer
<1>4. ASSUME RoundAskCheck
      PROVE  FInv'
  <2>1. PICK b \in Banks :
          \/ \E i \in DOMAIN server_list[b] : VisitLive(b, i) \/ RemoveInter(b, i)
          \/ RemoveOnly(b)
          \/ RemoveHead(b)
          \/ TellNewHead(b)
          \/ RemoveTail(b)
      BY <1>4 DEF RoundAskCheck
  <2>2. ASSUME NEW i \in DOMAIN server_list[b], VisitLive(b, i)
        PROVE  FInv'
      BY <2>2, VisitLiveInv
  <2>3. ASSUME NEW i \in DOMAIN server_list[b], RemoveInter(b, i)
        PROVE  FInv'
      BY <2>3, RemoveInterInv
  <2> QED
      BY <2>1, <2>2, <2>3, RemoveOnlyInv, RemoveHeadInv, TellNewHeadInv, RemoveTailInv
<1>5. ASSUME AcceptServer
      PROVE  FInv'
    BY <1>5 DEF AcceptServer, FInv, ShrinkingOnly, NobodyNew
<1>6. ASSUME StartReader
      PROVE  FInv'
  <2>1. UNCHANGED <<my_type, pre_port, alive, ended, connects, server_list, hist, from_pre,
                    to_master, from_master>>
      BY <1>6 DEF StartReader, serverState, topology, memberState, masterStreams
  <2>2. NoNewTail' /\ \A s \in Servers : SentNeutral(s)
      BY <2>1 DEF FInv, ShrinkingOnly, NoNewTail, SentNeutral
  <2> QED
      BY <2>1, <2>2, ListsKept
<1> QED
    BY <1>1, <1>2, <1>3, <1>4, <1>5, <1>6 DEF MasterStep

--------------------------------------------------------------------------------
\* Steps of servers and clients that have nothing to do with the master.

\* While no server joins, these are all the messages between neighbours.
LEMMA RepairsTyped ==
    /\ Fits(Repairs, EndNotices)
    /\ FInv => Typed(Repairs, EndNotices)
<1>1. Fits(Repairs, EndNotices)
    BY DEF Fits, Forwards, Repairs, EndNotices
<1>2. FInv => Typed(Repairs, EndNotices)
    BY DEF FInv, FTypes, ShrinkingOnly, NoNewTail, Typed, ServerTypes
<1> QED
    BY <1>1, <1>2

\* A step of Chain: the master and the roles have no part in it.
LEMMA ChainStepInv ==
    ASSUME FInv, FTypes', Typed(Repairs, EndNotices)', UNCHANGED <<processes, my_type>>
    PROVE  FInv'
<1>1. UNCHANGED <<pre_port, alive, ended, connects, server_list, from_master, hist, to_master>>
    BY DEF processes, masterState, masterStreams, memberState
<1>2. NoNewTail'
    BY <1>1 DEF FInv, ShrinkingOnly, NoNewTail, Typed, ServerTypes
<1>3. \A s \in Servers : SentNeutral(s)
    BY <1>1 DEF SentNeutral
<1> QED
    BY <1>1, <1>2, <1>3, ListsKept

\* A server takes in what was sent again.
LEMMA RecLargerSnInv ==
    ASSUME FInv, FTypes', NEW s \in Servers, RecLargerSn(s), UNCHANGED ended
    PROVE  FInv'
<1>1. UNCHANGED <<my_type, pre_port, alive, ended, connects, server_list, from_master, hist,
                  to_master>>
    BY DEF RecLargerSn, topology, elsewhere, masterState, masterStreams, memberState
<1>2. from_pre' = Pop(from_pre, s) /\ from_pre[s] # <<>>
    BY DEF RecLargerSn, ReadPre
<1>3. from_pre' \in [Servers -> Seq(Repairs)]
    BY <1>2, PopType DEF FInv, ShrinkingOnly, NoNewTail
<1>4. NoNewTail'
    BY <1>1, <1>3 DEF FInv, ShrinkingOnly, NoNewTail
<1>5. \A t \in Servers : SentNeutral(t)
    BY <1>1 DEF SentNeutral
<1> QED
    BY <1>1, <1>4, <1>5, ListsKept

\* No history comes.
LEMMA NoHistoryComes ==
    ASSUME FInv, NEW s \in Servers
    PROVE  ~RecHistory(s) /\ ~RecHistoryEnd(s) /\ ~SendHistPart(s) /\ ~SendHistEnd(s)
<1>1. ASSUME NEW operation, ReadPre(s, operation)
      PROVE  operation \in {"FORWARD", "LARGER_SN_LIST"}
  <2>1. from_pre[s] \in Seq(Repairs) /\ from_pre[s] # <<>> /\ Head(from_pre[s]).op = operation
      BY <1>1 DEF FInv, ShrinkingOnly, NoNewTail, ReadPre
  <2>2. Head(from_pre[s]) \in Repairs
      BY <2>1
  <2> QED
      BY <2>1, <2>2 DEF Repairs
<1>2. ~RecHistory(s) /\ ~RecHistoryEnd(s)
  <2>1. ~ReadPre(s, "SEND_PROCE") /\ ~ReadPre(s, "SEND_INSUF") /\ ~ReadPre(s, "SEND_SENT")
      BY <1>1
  <2>2. ~ReadPre(s, "SEND_MAP") /\ ~ReadPre(s, "SEND_END")
      BY <1>1
  <2> QED
      BY <2>1, <2>2 DEF RecHistory, RecHistoryEnd
<1>3. hist[s] = "none"
    BY DEF FInv, ShrinkingOnly, NoNewTail
<1> QED
    BY <1>2, <1>3 DEF SendHistPart, SendHistEnd, AfterPart

\* A server connects to the predecessor it was told: that is not the tail.
LEMMA JoinInv ==
    ASSUME FInv, FTypes', NEW s \in Servers, Join(s), UNCHANGED ended
    PROVE  FInv'
<1>1. s \in alive /\ pre_port[s] \in alive
    BY FTypesFacts DEF FInv, Join
<1>2. Earlier(pre_port[s], s)
  <2>1. pre_port[s] \in Servers
      BY <1>1, FTypesFacts DEF FInv
  <2>2. pre_port[s] # NoServer
      BY <2>1, Places, NoBankAssumption DEF NoServer, Bank
  <2> QED
      BY <2>2 DEF FInv, ShrinkingOnly, PreEarlier
<1> DEFINE b == Bank(s)
           n == Len(server_list[Bank(s)])
<1>3. b \in Banks /\ n \in Nat /\ DOMAIN server_list[b] = 1 .. n
    BY ChainEnds, ListFacts
<1>4. SUFFICES ASSUME NEW p \in Servers, p = pre_port[s]
               PROVE  FInv'
    BY <1>2 DEF Earlier
<1>5. p \in alive /\ Bank(p) = b /\ p[2] < s[2]
    BY <1>1, <1>2, <1>4 DEF Earlier
<1>6. PICK j \in 1 .. n : server_list[b][j].port = p
  <2>1. PICK j \in 1 .. Len(server_list[Bank(p)]) : server_list[Bank(p)][j] = Listed(p)
      BY <1>5, RunningPlace
  <2> QED
      BY <1>5, <2>1 DEF Listed
<1>7. PICK i \in 1 .. n : server_list[b][i].port = s
  <2>1. PICK i \in 1 .. n : server_list[b][i] = Listed(s)
      BY <1>1, RunningPlace
  <2> QED
      BY <2>1 DEF Listed
<1>8. ~ Tails(p)
  <2> SUFFICES ASSUME Tails(p)
               PROVE  FALSE
      OBVIOUS
  <2>1. EndsList(p)
      BY <1>5 DEF FInv, ShrinkingOnly, RolesListed
  <2>2. server_list[b][n].port = p /\ n \in 1 .. n
      BY <1>3, <1>5, <1>6, <2>1 DEF EndsList
  <2>3. n # i
      BY <1>5, <1>7, <2>2, Places
  <2>4. Earlier(server_list[b][i].port, server_list[b][n].port)
      BY <1>3, <2>2, <2>3 DEF FInv, ShrinkingOnly, ListedInOrder
  <2>5. s[2] < p[2]
      BY <1>7, <2>2, <2>4 DEF Earlier
  <2> QED
      BY <1>5, <2>5, Places
<1>9. hist' = hist
    BY <1>4, <1>8 DEF Join, FInv, ShrinkingOnly, NoNewTail
<1>10. UNCHANGED <<my_type, pre_port, alive, ended, connects, server_list, from_master,
                   to_master>>
    BY DEF Join, elsewhere, masterState, masterStreams
<1>11. from_pre' = [from_pre EXCEPT ![s] = <<>>]
    BY DEF Join
<1>12. from_pre' \in [Servers -> Seq(Repairs)]
  <2>1. <<>> \in Seq(Repairs)
      OBVIOUS
  <2> QED
      BY <1>11, <2>1 DEF FInv, ShrinkingOnly, NoNewTail
<1>13. NoNewTail'
    BY <1>9, <1>10, <1>12 DEF FInv, ShrinkingOnly, NoNewTail
<1>14. \A t \in Servers : SentNeutral(t)
    BY <1>10 DEF SentNeutral
<1> QED
    BY <1>10, <1>13, <1>14, ListsKept

--------------------------------------------------------------------------------
\* A server reads a notice.

\* The first notice under way is expected, and so are those behind it.
LEMMA FirstExpected ==
    ASSUME FInv, NEW s \in Servers, from_master[s] # <<>>
    PROVE  /\ Notice(s) \in Expected(s) /\ Notice(s) \in Notices
           /\ Tail(from_master[s]) \in Seq(Expected(s))
<1> DEFINE E == Expected(s)
<1>1. from_master[s] \in Seq(E)
    BY DEF FInv, ShrinkingOnly, NoticesExpected
<1>2. E \subseteq Notices
    BY DEF Expected
<1> HIDE DEF E
<1>3. Head(from_master[s]) \in E /\ Tail(from_master[s]) \in Seq(E)
    BY <1>1
<1> QED
    BY <1>2, <1>3 DEF E, Notice

(* Reading a notice brings a server to the place the notice leads to; the    *)
(* place to come stays.                                                      *)
LEMMA NoticeDone ==
    ASSUME FInv, FTypes', NEW s \in alive, from_master[s] # <<>>,
           from_master' = Pop(from_master, s),
           my_type' = [my_type EXCEPT ![s] = RoleAfter(my_type[s], Notice(s))],
           pre_port' = [pre_port EXCEPT ![s] = PreAfter(pre_port[s], Notice(s))],
           UNCHANGED <<alive, ended, connects, server_list>>,
           NoNewTail'
    PROVE  FInv'
<1> DEFINE n == Notice(s)
<1>1. s \in Servers
    BY RunningPlace
<1>2. /\ n \in Expected(s) /\ n \in Notices
      /\ Tail(from_master[s]) \in Seq(Expected(s))
    BY <1>1, FirstExpected
<1>3. /\ from_master \in [Servers -> Seq(Notices)]
      /\ my_type \in [Servers -> Roles]
      /\ pre_port \in [Servers -> Servers \cup {NoServer}]
    BY FTypesFacts DEF FInv, TopologyTypeOK
<1> HIDE DEF n
<1>4. /\ \A t \in Servers : from_master'[t] = IF t = s THEN Tail(from_master[s])
                                                       ELSE from_master[t]
      /\ \A t \in Servers : my_type'[t] = IF t = s THEN RoleAfter(my_type[s], n) ELSE my_type[t]
      /\ \A t \in Servers : pre_port'[t] = IF t = s THEN PreAfter(pre_port[s], n)
                                                    ELSE pre_port[t]
    BY <1>1, <1>3 DEF Pop, n
<1>5. \A t \in Servers : PlaceToCome(t)' = PlaceToCome(t)
  <2> SUFFICES ASSUME NEW t \in Servers
               PROVE  PlaceToCome(t)' = PlaceToCome(t)
      OBVIOUS
  <2>1. /\ PlaceNow(t) \in ChainPlaces
        /\ from_master[t] \in Seq(Notices)
        /\ PlaceToCome(t) = Come(PlaceNow(t), from_master[t])
      BY PlaceToComeType DEF FInv
  <2>2. PlaceToCome(t)' = Come([type |-> my_type'[t], pre |-> pre_port'[t]], from_master'[t])
      BY DEF PlaceToCome, Come
  <2>3. CASE t # s
      BY <1>4, <2>1, <2>2, <2>3 DEF PlaceNow
  <2>4. CASE t = s
    <3>1. [type |-> my_type'[t], pre |-> pre_port'[t]] = PlaceAfter(PlaceNow(s), n)
        BY <1>1, <1>4, <2>4 DEF PlaceAfter, PlaceNow
    <3>2. Come(PlaceNow(s), from_master[s]) = Come(PlaceAfter(PlaceNow(s), n), Tail(from_master[s]))
        BY <2>1, <2>4, FirstOfWay DEF n, Notice
    <3> QED
        BY <1>4, <2>1, <2>2, <2>4, <3>1, <3>2
  <2> QED
      BY <2>3, <2>4
<1>6. \A t \in Servers : /\ StartsList(t)' = StartsList(t) /\ EndsList(t)' = EndsList(t)
                         /\ Expected(t)' = Expected(t)
    BY DEF StartsList, EndsList, Expected
<1>7. RolesListed'
  <2> SUFFICES ASSUME NEW t \in alive
               PROVE  /\ my_type'[t] \in {"HEAD", "HEAD_TAIL"} => StartsList(t)
                      /\ my_type'[t] \in {"TAIL", "HEAD_TAIL"} => EndsList(t)
      BY <1>6, RunningPlace DEF RolesListed, Heads, Tails
  <2>1. /\ t \in Servers
        /\ my_type[t] \in {"HEAD", "HEAD_TAIL"} => StartsList(t)
        /\ my_type[t] \in {"TAIL", "HEAD_TAIL"} => EndsList(t)
      BY RunningPlace DEF FInv, ShrinkingOnly, RolesListed, Heads, Tails
  <2>2. CASE t # s
      BY <1>4, <2>1, <2>2
  <2>3. CASE t = s
    <3>1. /\ n.op = "HEAD_FAIL" => StartsList(s)
          /\ n.op = "TAIL_FAIL" => EndsList(s)
        BY <1>2 DEF Expected
    <3>2. my_type'[t] = RoleAfter(my_type[s], n) /\ my_type[s] \in Roles
        BY <1>1, <1>3, <1>4, <2>3
    <3> QED
        BY <2>1, <2>3, <3>1, <3>2 DEF RoleAfter, Roles
  <2> QED
      BY <2>2, <2>3
<1>8. NoticesExpected'
  <2> SUFFICES ASSUME NEW t \in Servers
               PROVE  from_master'[t] \in Seq(Expected(t)')
      BY DEF NoticesExpected
  <2>1. from_master[t] \in Seq(Expected(t))
      BY DEF FInv, ShrinkingOnly, NoticesExpected
  <2>2. from_master'[t] \in Seq(Expected(t))
      BY <1>2, <1>4, <2>1
  <2> QED
      BY <1>6, <2>2
<1>9. PreEarlier'
  <2> SUFFICES ASSUME NEW t \in Servers
               PROVE  pre_port'[t] = NoServer \/ Earlier(pre_port'[t], t)
      BY DEF PreEarlier, Earlier
  <2>1. pre_port[t] = NoServer \/ Earlier(pre_port[t], t)
      BY DEF FInv, ShrinkingOnly, PreEarlier
  <2>2. n.op = "INTER_PRE_FAIL" => Earlier(n.port, s)
      BY <1>2 DEF Expected
  <2> QED
      BY <1>4, <2>1, <2>2 DEF PreAfter
<1>10. NobodyNew' /\ ListedInOrder' /\ RunningListed'
    BY DEF FInv, ShrinkingOnly, NobodyNew, ListedInOrder, RunningListed
<1>11. NoticesLeadToList'
  <2>1. \A b \in Banks : \A i \in DOMAIN server_list[b] : \A t \in alive :
          t = server_list[b][i].port =>
             /\ PlaceToCome(t)'.type = RoleAt(i, Len(server_list[b]))
             /\ i > 1 => PlaceToCome(t)'.pre = server_list[b][i - 1].port
      BY <1>5, RunningPlace DEF FInv, NoticesLeadToList
  <2> QED
      BY <2>1 DEF NoticesLeadToList
<1> QED
    BY <1>7, <1>8, <1>9, <1>10, <1>11 DEF FInv, ShrinkingOnly

(* What a handler has to show: how the notice changes the place, and that no *)
(* history begins.                                                           *)
LEMMA NoticeHandled ==
    ASSUME FInv, FTypes', NEW s \in Servers, NEW operation, ReadNotice(s, operation),
           UNCHANGED <<masterState, alive, ended>>,
           my_type' = [my_type EXCEPT ![s] = RoleAfter(my_type[s], Notice(s))],
           pre_port' = [pre_port EXCEPT ![s] = PreAfter(pre_port[s], Notice(s))],
           hist' = hist \/ hist' = [hist EXCEPT ![s] = "none"],
           from_pre' \in [Servers -> Seq(Repairs)],
           to_master' \in [Servers -> Seq(Numbers)]
    PROVE  FInv'
<1>1. hist' = [t \in Servers |-> "none"]
    BY DEF FInv, ShrinkingOnly, NoNewTail
<1>2. NoNewTail'
    BY <1>1 DEF NoNewTail
<1>3. /\ UNCHANGED <<alive, ended, connects, server_list>>
      /\ s \in alive /\ from_master[s] # <<>> /\ from_master' = Pop(from_master, s)
    BY DEF masterState, ReadNotice
<1> QED
    BY <1>2, <1>3, NoticeDone

\* Notices that leave the role, and those that leave the predecessor.
LEMMA PlaceStays ==
    ASSUME FInv, NEW s \in Servers, NEW operation, ReadNotice(s, operation)
    PROVE  /\ operation \notin {"HEAD_FAIL", "TAIL_FAIL"} =>
                my_type = [my_type EXCEPT ![s] = RoleAfter(my_type[s], Notice(s))]
           /\ operation # "INTER_PRE_FAIL" =>
                pre_port = [pre_port EXCEPT ![s] = PreAfter(pre_port[s], Notice(s))]
           /\ Notice(s).op = operation
<1>1. Notice(s).op = operation
    BY DEF ReadNotice, Notice
<1>2. my_type \in [Servers -> Roles] /\ pre_port \in [Servers -> Servers \cup {NoServer}]
    BY FTypesFacts DEF FInv, TopologyTypeOK
<1>3. operation \notin {"HEAD_FAIL", "TAIL_FAIL"} => RoleAfter(my_type[s], Notice(s)) = my_type[s]
    BY <1>1 DEF RoleAfter
<1>4. operation # "INTER_PRE_FAIL" => PreAfter(pre_port[s], Notice(s)) = pre_port[s]
    BY <1>1 DEF PreAfter
<1> QED
    BY <1>1, <1>2, <1>3, <1>4

\* Messages between neighbours that are dropped leave messages of these kinds.
LEMMA RepairsLeft ==
    ASSUME FInv
    PROVE  /\ from_pre \in [Servers -> Seq(Repairs)]
           /\ to_master \in [Servers -> Seq(Numbers)]
           /\ \A s \in Servers : [from_pre EXCEPT ![s] = <<>>] \in [Servers -> Seq(Repairs)]
<1>1. from_pre \in [Servers -> Seq(Repairs)] /\ to_master \in [Servers -> Seq(Numbers)]
    BY DEF FInv, ShrinkingOnly, NoNewTail
<1>2. <<>> \in Seq(Repairs)
    OBVIOUS
<1> QED
    BY <1>1, <1>2

\* HEAD_FAIL
LEMMA HeadFailInv ==
    ASSUME FInv, FTypes', NEW s \in Servers, HeadFail(s), UNCHANGED ended
    PROVE  FInv'
<1>1. ReadNotice(s, "HEAD_FAIL")
    BY DEF HeadFail
<1>2. my_type' = [my_type EXCEPT ![s] = RoleAfter(my_type[s], Notice(s))]
  <2>1. RoleAfter(my_type[s], Notice(s)) = IF my_type[s] = "TAIL" THEN "HEAD_TAIL" ELSE "HEAD"
      BY <1>1, PlaceStays DEF RoleAfter
  <2>2. my_type' = [my_type EXCEPT ![s] = IF my_type[s] = "TAIL" THEN "HEAD_TAIL" ELSE "HEAD"]
      BY DEF HeadFail
  <2> QED
      BY <2>1, <2>2
<1>3. UNCHANGED <<masterState, alive, ended, pre_port, hist, to_master>>
    BY DEF HeadFail, elsewhere, memberState
<1>4. pre_port' = [pre_port EXCEPT ![s] = PreAfter(pre_port[s], Notice(s))]
    BY <1>1, <1>3, PlaceStays
<1>5. from_pre' \in [Servers -> Seq(Repairs)] /\ to_master' \in [Servers -> Seq(Numbers)]
    BY <1>3, RepairsLeft DEF HeadFail, ClosePre
<1> QED
    BY <1>1, <1>2, <1>3, <1>4, <1>5, NoticeHandled

\* TAIL_FAIL
LEMMA TailFailInv ==
    ASSUME FInv, FTypes', NEW s \in Servers, TailFail(s), UNCHANGED ended
    PROVE  FInv'
<1>1. ReadNotice(s, "TAIL_FAIL")
    BY DEF TailFail
<1>2. my_type' = [my_type EXCEPT ![s] = RoleAfter(my_type[s], Notice(s))]
  <2>1. RoleAfter(my_type[s], Notice(s)) = IF my_type[s] = "HEAD" THEN "HEAD_TAIL" ELSE "TAIL"
      BY <1>1, PlaceStays DEF RoleAfter
  <2>2. my_type' = [my_type EXCEPT ![s] = IF my_type[s] = "HEAD" THEN "HEAD_TAIL" ELSE "TAIL"]
      BY DEF TailFail
  <2> QED
      BY <2>1, <2>2
<1>3. /\ UNCHANGED <<masterState, alive, ended, pre_port, from_pre, to_master>>
      /\ hist' = [hist EXCEPT ![s] = "none"]
    BY DEF TailFail, elsewhere, ListenAgain
<1>4. pre_port' = [pre_port EXCEPT ![s] = PreAfter(pre_port[s], Notice(s))]
    BY <1>1, <1>3, PlaceStays
<1>5. from_pre' \in [Servers -> Seq(Repairs)] /\ to_master' \in [Servers -> Seq(Numbers)]
    BY <1>3, RepairsLeft
<1> QED
    BY <1>1, <1>2, <1>3, <1>4, <1>5, NoticeHandled

\* INTER_PRE_FAIL
LEMMA InterPreFailInv ==
    ASSUME FInv, FTypes', NEW s \in Servers, InterPreFail(s), UNCHANGED ended
    PROVE  FInv'
<1>1. ReadNotice(s, "INTER_PRE_FAIL")
    BY DEF InterPreFail
<1>2. UNCHANGED <<masterState, alive, ended, my_type, hist>>
    BY DEF InterPreFail, elsewhere
<1>3. my_type' = [my_type EXCEPT ![s] = RoleAfter(my_type[s], Notice(s))]
    BY <1>1, <1>2, PlaceStays
<1>4. pre_port' = [pre_port EXCEPT ![s] = PreAfter(pre_port[s], Notice(s))]
  <2>1. PreAfter(pre_port[s], Notice(s)) = Notice(s).port
      BY <1>1, PlaceStays DEF PreAfter
  <2>2. pre_port' = [pre_port EXCEPT ![s] = Notice(s).port]
      BY DEF InterPreFail
  <2> QED
      BY <2>1, <2>2
<1>5. from_pre' \in [Servers -> Seq(Repairs)]
    BY RepairsLeft DEF InterPreFail, ClosePre
<1>6. to_master' \in [Servers -> Seq(Numbers)]
  <2> DEFINE report == [op |-> "ACK_LAST", sn |-> AsChar(last_received_id[s])]
  <2>1. last_received_id[s] \in Nat
      BY DEF FInv, FTypes, Typed, ServerTypes
  <2>2. report \in Numbers
      BY <2>1, AsCharType DEF Numbers
  <2>3. to_master' = [to_master EXCEPT ![s] = Append(to_master[s], report)]
      BY DEF InterPreFail
  <2> HIDE DEF report
  <2>4. to_master \in [Servers -> Seq(Numbers)]
      BY RepairsLeft
  <2>5. Append(to_master[s], report) \in Seq(Numbers)
      BY <2>2, <2>4
  <2> QED
      BY <2>3, <2>4, <2>5
<1> QED
    BY <1>1, <1>2, <1>3, <1>4, <1>5, <1>6, NoticeHandled

\* INTER_NEXT_FAIL
LEMMA InterNextFailInv ==
    ASSUME FInv, FTypes', NEW s \in Servers, InterNextFail(s), UNCHANGED ended
    PROVE  FInv'
<1>1. ReadNotice(s, "INTER_NEXT_FAIL")
    BY DEF InterNextFail
<1>2. /\ UNCHANGED <<masterState, alive, ended, my_type, pre_port, from_pre, to_master>>
      /\ hist' = [hist EXCEPT ![s] = "none"]
    BY DEF InterNextFail, elsewhere, ListenAgain
<1>3. /\ my_type' = [my_type EXCEPT ![s] = RoleAfter(my_type[s], Notice(s))]
      /\ pre_port' = [pre_port EXCEPT ![s] = PreAfter(pre_port[s], Notice(s))]
    BY <1>1, <1>2, PlaceStays
<1>4. from_pre' \in [Servers -> Seq(Repairs)] /\ to_master' \in [Servers -> Seq(Numbers)]
    BY <1>2, RepairsLeft
<1> QED
    BY <1>1, <1>2, <1>3, <1>4, NoticeHandled

\* NEXT_SN
LEMMA NextSnInv ==
    ASSUME FInv, FTypes', NEW s \in Servers, NextSn(s), UNCHANGED ended
    PROVE  FInv'
<1> DEFINE missing == LargerThan(s, Notice(s).sn)
           messages == [i \in DOMAIN missing |-> [op |-> "LARGER_SN_LIST", req |-> missing[i]]]
<1>1. ReadNotice(s, "NEXT_SN")
    BY DEF NextSn
<1>2. missing \in Seq(Request)
    BY LargerThanType DEF FInv, FTypes, Typed, ServerTypes
<1> HIDE DEF missing
<1>3. messages \in Seq(Repairs)
  <2>1. DOMAIN missing = 1 .. Len(missing) /\ Len(missing) \in Nat
      BY <1>2
  <2>2. \A i \in DOMAIN missing : [op |-> "LARGER_SN_LIST", req |-> missing[i]] \in Repairs
      BY <1>2 DEF Repairs
  <2> QED
      BY <2>1, <2>2
<1>4. /\ from_pre' = IF next_fd[s] = NoServer THEN from_pre
                     ELSE [from_pre EXCEPT ![next_fd[s]] = @ \o messages]
      /\ UNCHANGED <<masterState, alive, ended, my_type, pre_port, hist, to_master>>
    BY DEF NextSn, missing, elsewhere, topology, memberState
<1> HIDE DEF messages
<1>5. next_fd[s] \in Servers \cup {NoServer}
    BY FTypesFacts DEF FInv, TopologyTypeOK
<1>6. from_pre' \in [Servers -> Seq(Repairs)] /\ to_master' \in [Servers -> Seq(Numbers)]
    BY <1>3, <1>4, <1>5, RepairsLeft
<1>7. /\ my_type' = [my_type EXCEPT ![s] = RoleAfter(my_type[s], Notice(s))]
      /\ pre_port' = [pre_port EXCEPT ![s] = PreAfter(pre_port[s], Notice(s))]
    BY <1>1, <1>4, PlaceStays
<1> QED
    BY <1>1, <1>4, <1>6, <1>7, NoticeHandled

\* TRANS_HEAD_FAIL and TRANS_TAIL_FAIL
LEMMA OtherBankInv ==
    ASSUME FInv, FTypes', NEW s \in Servers, TransHeadFail(s) \/ TransTailFail(s), UNCHANGED ended
    PROVE  FInv'
<1>1. ReadNotice(s, "TRANS_HEAD_FAIL") \/ ReadNotice(s, "TRANS_TAIL_FAIL")
    BY DEF TransHeadFail, TransTailFail
<1>2. UNCHANGED <<masterState, alive, ended, my_type, pre_port, hist, from_pre, to_master>>
    BY DEF TransHeadFail, TransTailFail, elsewhere, memberState
<1>3. /\ my_type' = [my_type EXCEPT ![s] = RoleAfter(my_type[s], Notice(s))]
      /\ pre_port' = [pre_port EXCEPT ![s] = PreAfter(pre_port[s], Notice(s))]
    BY <1>1, <1>2, PlaceStays
<1>4. from_pre' \in [Servers -> Seq(Repairs)] /\ to_master' \in [Servers -> Seq(Numbers)]
    BY <1>2, RepairsLeft
<1> QED
    BY <1>1, <1>2, <1>3, <1>4, NoticeHandled

\* Whatever the notice is; GET_PRE is not among them.
LEMMA NoticeInv ==
    ASSUME FInv, FTypes', NEW s \in Servers, RecMsgFromMaster(s), UNCHANGED ended
    PROVE  FInv'
<1>1. CASE GetPre(s)
  <2>1. from_master[s] # <<>> /\ Notice(s).op = "GET_PRE"
      BY <1>1 DEF GetPre, ReadNotice, Notice
  <2>2. Notice(s) \in Expected(s)
      BY <2>1, FirstExpected
  <2> QED
      BY <2>1, <2>2 DEF Expected
<1> QED
    BY <1>1, HeadFailInv, TailFailInv, InterPreFailInv, InterNextFailInv, NextSnInv, OtherBankInv
    DEF RecMsgFromMaster

--------------------------------------------------------------------------------
\* A server dies.

(* Less is asked of the servers that are left; what is under way to them     *)
(* leads them where it led them.                                             *)
LEMMA CrashInv ==
    ASSUME FInv, FTypes', NEW s \in Servers, Crash(s), ended' = ended \cup {s}
    PROVE  FInv'
<1>1. /\ alive' = alive \ {s}
      /\ UNCHANGED <<my_type, pre_port, server_list, connects, to_master>>
    BY DEF Crash, elsewhere, masterState
<1>2. /\ from_pre' = [from_pre EXCEPT ![s] = <<>>]
      /\ from_master' = [from_master EXCEPT ![s] = <<>>]
      /\ hist' = [hist EXCEPT ![s] = "none"]
    BY DEF Crash
<1>3. NobodyNew'
    BY <1>1 DEF FInv, ShrinkingOnly, NobodyNew
<1>4. NoNewTail'
    BY <1>1, <1>2, RepairsLeft DEF FInv, ShrinkingOnly, NoNewTail
<1>5. ListedInOrder' /\ RunningListed' /\ PreEarlier'
    BY <1>1 DEF FInv, ShrinkingOnly, ListedInOrder, RunningListed, PreEarlier
<1>6. \A t : StartsList(t)' = StartsList(t) /\ EndsList(t)' = EndsList(t)
    BY <1>1 DEF StartsList, EndsList
<1>7. RolesListed'
    BY <1>1, <1>6 DEF FInv, ShrinkingOnly, RolesListed, Heads, Tails
<1>8. \A t \in Servers : Expected(t) \subseteq Expected(t)'
    BY <1>1, <1>6 DEF Expected
<1>9. from_master \in [Servers -> Seq(Notices)]
    BY FTypesFacts DEF FInv
<1>10. NoticesExpected'
  <2> SUFFICES ASSUME NEW t \in Servers
               PROVE  from_master'[t] \in Seq(Expected(t)')
      BY DEF NoticesExpected
  <2> DEFINE E == Expected(t)
             E2 == Expected(t)'
  <2>1. from_master[t] \in Seq(E) /\ E \subseteq E2
      BY <1>8 DEF FInv, ShrinkingOnly, NoticesExpected
  <2> HIDE DEF E, E2
  <2>2. from_master[t] \in Seq(E2) /\ <<>> \in Seq(E2)
      BY <2>1
  <2>3. from_master'[t] \in Seq(E2)
      BY <1>2, <1>9, <2>2
  <2> QED
      BY <2>3 DEF E2
<1>11. \A t \in alive' : PlaceToCome(t)' = PlaceToCome(t)
  <2> SUFFICES ASSUME NEW t \in alive'
               PROVE  PlaceToCome(t)' = PlaceToCome(t)
      OBVIOUS
  <2>1. t \in Servers /\ t # s
      BY <1>1, RunningPlace
  <2>2. from_master'[t] = from_master[t]
      BY <1>2, <1>9, <2>1
  <2> QED
      BY <1>1, <2>2 DEF PlaceToCome
<1>12. NoticesLeadToList'
  <2>1. \A b \in Banks : \A i \in DOMAIN server_list[b] : \A t \in alive' :
          t = server_list[b][i].port =>
             /\ PlaceToCome(t)'.type = RoleAt(i, Len(server_list[b]))
             /\ i > 1 => PlaceToCome(t)'.pre = server_list[b][i - 1].port
      BY <1>1, <1>11 DEF FInv, NoticesLeadToList
  <2> QED
      BY <1>1, <2>1 DEF NoticesLeadToList
<1> QED
    BY <1>3, <1>4, <1>5, <1>7, <1>10, <1>12 DEF FInv, ShrinkingOnly

--------------------------------------------------------------------------------
\* All steps.

\* The steps of one server.
LEMMA FServerStepInv ==
    ASSUME FInv, FTypes', NEW s \in Servers, FServerStep(s)
    PROVE  FInv'
<1>1. CASE ThreadClient(s)
  <2>1. UNCHANGED <<processes, my_type>>
      BY <1>1 DEF ThreadClient, RecClient, RecUpdate, RecQuery, RecUnknown, serverState, topology
  <2>2. Typed(Repairs, EndNotices)'
      BY <1>1, RecUpdateType, RecQueryType, RecUnknownType, RepairsTyped
      DEF ThreadClient, RecClient
  <2> QED
      BY <2>1, <2>2, ChainStepInv
<1>2. CASE s \in alive /\ RecForward(s) /\ UNCHANGED <<clientState, processes>>
  <2>1. UNCHANGED <<processes, my_type>>
      BY <1>2 DEF RecForward, topology
  <2>2. Typed(Repairs, EndNotices)'
      BY <1>2, RecForwardType, RepairsTyped
  <2> QED
      BY <2>1, <2>2, ChainStepInv
<1>3. CASE RecRepair(s) /\ UNCHANGED ended
    BY <1>3, RecLargerSnInv, NoHistoryComes DEF RecRepair
<1>4. CASE ThreadNext(s)
  <2>1. UNCHANGED <<processes, my_type>>
      BY <1>4 DEF ThreadNext, RecAck, topology
  <2>2. Typed(Repairs, EndNotices)'
      BY <1>4, RecAckType, RepairsTyped DEF ThreadNext
  <2> QED
      BY <2>1, <2>2, ChainStepInv
<1>5. CASE ThreadOtherBank(s)
  <2>1. UNCHANGED <<processes, my_type>>
      BY <1>5 DEF ThreadOtherBank, RecOtherBank, topology
  <2>2. Typed(Repairs, EndNotices)'
      BY <1>5, RecOtherBankType, RepairsTyped DEF ThreadOtherBank
  <2> QED
      BY <2>1, <2>2, ChainStepInv
<1>6. CASE ThreadMaster(s)
    BY <1>6, NoticeInv DEF ThreadMaster
<1>7. CASE ThreadConnect(s)
    BY <1>7, JoinInv, CrashInv DEF ThreadConnect, ConnectFails
<1>8. CASE ThreadAccept(s)
    BY <1>8, NoHistoryComes DEF ThreadAccept
<1>9. CASE Start(s)
    BY <1>9 DEF Start, StartServer, FInv, ShrinkingOnly, NobodyNew
<1>10. CASE Fail(s)
    BY <1>10, CrashInv DEF Fail
<1> QED
    BY <1>1, <1>2, <1>3, <1>4, <1>5, <1>6, <1>7, <1>8, <1>9, <1>10 DEF FServerStep, ThreadPre

\* Every step.
LEMMA FInvStep ==
    ASSUME FInv, Punctual = Servers, [FNext]_fvars
    PROVE  FInv'
<1>0. FTypes'
    BY FTypesStep DEF FInv
<1>1. ASSUME NEW c \in Clients, FClientStep(c) PROVE FInv'
  <2>1. ClientStep(c) /\ UNCHANGED processes
      BY <1>1 DEF FClientStep, ThreadMain, ThreadRecv, ThreadResend, ClientStep
  <2>2. Typed(Repairs, EndNotices)'
      BY <2>1, ClientStepType, RepairsTyped
  <2>3. UNCHANGED my_type
      BY <2>1 DEF ClientStep, StartClient, RecvMsg, RecvReply, RecvSetHeadTail, CheckReceive,
                  serverState, topology
  <2> QED
      BY <1>0, <2>1, <2>2, <2>3, ChainStepInv
<1>2. CASE FLose
  <2>1. Typed(Repairs, EndNotices)'
      BY <1>2, LoseType, RepairsTyped DEF FLose
  <2>2. UNCHANGED <<processes, my_type>>
      BY <1>2 DEF FLose, Lose, serverState, topology
  <2> QED
      BY <1>0, <2>1, <2>2, ChainStepInv
<1>3. CASE UNCHANGED fvars
  <2>1. Typed(Repairs, EndNotices)'
      BY <1>3, TypesStep, RepairsTyped DEF fvars
  <2>2. UNCHANGED <<processes, my_type>>
      BY <1>3 DEF fvars, vars, serverState, topology
  <2> QED
      BY <1>0, <2>1, <2>2, ChainStepInv
<1> QED
    BY <1>0, <1>1, <1>2, <1>3, FServerStepInv, MasterStepInv DEF FNext

--------------------------------------------------------------------------------
\* The chains as they form.

\* The list of a complete chain.
LEMMA ListFormed ==
    ASSUME FInit, Formed = ChainLength, NEW b \in Banks
    PROVE  /\ ChainLength[b] \in Nat \ {0}
           /\ server_list[b] \in Seq(Entries)
           /\ Len(server_list[b]) = ChainLength[b]
           /\ DOMAIN server_list[b] = 1 .. ChainLength[b]
           /\ \A i \in 1 .. ChainLength[b] : /\ server_list[b][i] = Listed(<<b, i>>)
                                             /\ server_list[b][i].port = <<b, i>>
                                             /\ <<b, i>> \in Servers
<1>1. server_list[b] = [i \in 1 .. ChainLength[b] |-> Listed(<<b, i>>)]
    BY DEF FInit, MasterInit
<1>2. ChainLength[b] \in Nat \ {0}
    BY ChainLengthAssumption
<1>3. \A i \in 1 .. ChainLength[b] : <<b, i>> \in Servers /\ Listed(<<b, i>>) \in Entries
    BY DEF Servers, Listed, Entries
<1>4. server_list[b] \in Seq(Entries)
    BY FInitTypes DEF FTypes, MasterTypeOK, Entries
<1>5. DOMAIN server_list[b] = 1 .. ChainLength[b]
    BY <1>1
<1>6. Len(server_list[b]) = ChainLength[b]
    BY <1>2, <1>4, <1>5
<1> QED
    BY <1>1, <1>2, <1>3, <1>4, <1>5, <1>6 DEF Listed

\* Every server has its place in it.
LEMMA MemberFormed ==
    ASSUME FInit, Formed = ChainLength, NEW s \in Servers
    PROVE  /\ s \in alive
           /\ my_type[s] = RoleAt(s[2], ChainLength[Bank(s)])
           /\ pre_port[s] = IF s[2] = 1 THEN NoServer ELSE <<Bank(s), s[2] - 1>>
           /\ s[2] > 1 => Earlier(pre_port[s], s)
<1>1. /\ s = <<Bank(s), s[2]>> /\ Bank(s) \in Banks
      /\ s[2] \in 1 .. ChainLength[Bank(s)] /\ ChainLength[Bank(s)] \in Nat
    BY Places
<1>2. InChain(s) /\ Formed[Bank(s)] = ChainLength[Bank(s)]
    BY <1>1 DEF InChain
<1>3. s \in alive /\ my_type[s] = RoleAt(s[2], ChainLength[Bank(s)])
    BY <1>2 DEF FInit, MembersInit
<1>4. IsFirst(s) <=> s[2] = 1
    BY <1>1 DEF IsFirst, FirstServer
<1>5. Prev1(s) = <<Bank(s), s[2] - 1>>
    BY DEF Prev1, Bank
<1>6. pre_port[s] = IF s[2] = 1 THEN NoServer ELSE <<Bank(s), s[2] - 1>>
    BY <1>2, <1>4, <1>5 DEF FInit, MembersInit
<1>7. ASSUME s[2] > 1
      PROVE  Earlier(<<Bank(s), s[2] - 1>>, s)
  <2> DEFINE i == s[2] - 1
  <2>1. i \in 1 .. ChainLength[Bank(s)] /\ i < s[2]
      BY <1>1, <1>7
  <2> HIDE DEF i
  <2>2. <<Bank(s), i>> \in Servers
      BY <1>1, <2>1 DEF Servers
  <2>3. Bank(<<Bank(s), i>>) = Bank(s) /\ <<Bank(s), i>>[2] < s[2]
      BY <2>1 DEF Bank
  <2> QED
      BY <2>2, <2>3 DEF Earlier, i
<1>8. s[2] > 1 => Earlier(pre_port[s], s)
    BY <1>6, <1>7
<1> QED
    BY <1>3, <1>6, <1>8

\* The invariant holds when all chains are complete.
LEMMA FInvInit ==
    ASSUME FInit, Formed = ChainLength
    PROVE  FInv
<1>1. FTypes
    BY FInitTypes
<1>2. NobodyNew
  <2>1. connects = <<>>
      BY DEF FInit, MasterInit
  <2> QED
      BY <2>1, MemberFormed DEF NobodyNew
<1>3. from_master = [s \in Servers |-> <<>>]
    BY DEF FInit, MasterInit
<1>4. NoNewTail
  <2>1. /\ hist = [s \in Servers |-> "none"] /\ from_pre = [s \in Servers |-> <<>>]
        /\ to_master = [s \in Servers |-> <<>>]
      BY DEF FInit, MembersInit, MasterInit, ServersStart
  <2>2. <<>> \in Seq(Repairs) /\ <<>> \in Seq(Numbers)
      OBVIOUS
  <2> QED
      BY <2>1, <2>2 DEF NoNewTail
<1>5. ListedInOrder
  <2> SUFFICES ASSUME NEW b \in Banks, NEW i \in DOMAIN server_list[b]
               PROVE  /\ Bank(server_list[b][i].port) = b
                      /\ \A j \in DOMAIN server_list[b] :
                            j < i => Earlier(server_list[b][j].port, server_list[b][i].port)
      BY DEF ListedInOrder
  <2>1. \A j \in DOMAIN server_list[b] :
          server_list[b][j].port = <<b, j>> /\ <<b, j>> \in Servers
      BY ListFormed
  <2>2. \A j : Bank(<<b, j>>) = b /\ <<b, j>>[2] = j
      BY DEF Bank
  <2>3. \A j \in DOMAIN server_list[b] : j < i => Earlier(<<b, j>>, <<b, i>>)
      BY <2>1, <2>2 DEF Earlier
  <2> QED
      BY <2>1, <2>2, <2>3
<1>6. RunningListed
  <2> SUFFICES ASSUME NEW s \in Servers
               PROVE  /\ s[2] \in DOMAIN server_list[Bank(s)]
                      /\ server_list[Bank(s)][s[2]] = Listed(s)
      BY <1>1, FTypesFacts DEF RunningListed
  <2>1. s = <<Bank(s), s[2]>> /\ Bank(s) \in Banks /\ s[2] \in 1 .. ChainLength[Bank(s)]
      BY Places
  <2> QED
      BY <2>1, ListFormed
<1>7. RolesListed
  <2> SUFFICES ASSUME NEW s \in Servers
               PROVE  (Heads(s) => StartsList(s)) /\ (Tails(s) => EndsList(s))
      BY <1>1, FTypesFacts DEF RolesListed
  <2> DEFINE b == Bank(s)
             n == ChainLength[Bank(s)]
  <2>1. s = <<b, s[2]>> /\ b \in Banks /\ s[2] \in 1 .. n
      BY Places
  <2>2. /\ n \in Nat \ {0} /\ Len(server_list[b]) = n /\ server_list[b] # <<>>
        /\ \A i \in 1 .. n : server_list[b][i].port = <<b, i>>
    <3>1. /\ n \in Nat \ {0} /\ Len(server_list[b]) = n /\ server_list[b] \in Seq(Entries)
          /\ \A i \in 1 .. n : server_list[b][i].port = <<b, i>>
        BY <2>1, ListFormed
    <3> QED
        BY <3>1
  <2>3. Heads(s) => s[2] = 1
      BY <2>1, MemberFormed DEF Heads, RoleAt
  <2>4. Tails(s) => s[2] = n
      BY <2>1, MemberFormed DEF Tails, RoleAt
  <2>5. Heads(s) => StartsList(s)
      BY <2>1, <2>2, <2>3 DEF StartsList
  <2>6. Tails(s) => EndsList(s)
      BY <2>1, <2>2, <2>4 DEF EndsList
  <2> QED
      BY <2>5, <2>6
<1>8. NoticesExpected
  <2>1. \A E : <<>> \in Seq(E)
      OBVIOUS
  <2> QED
      BY <1>3, <2>1 DEF NoticesExpected
<1>9. PreEarlier
  <2> SUFFICES ASSUME NEW s \in Servers, s[2] # 1
               PROVE  Earlier(pre_port[s], s)
      BY MemberFormed DEF PreEarlier
  <2>1. s[2] > 1
      BY Places
  <2> QED
      BY <2>1, MemberFormed
<1>10. NoticesLeadToList
  <2> SUFFICES ASSUME NEW b \in Banks, NEW i \in DOMAIN server_list[b], NEW s \in alive,
                      s = server_list[b][i].port
               PROVE  /\ PlaceToCome(s).type = RoleAt(i, Len(server_list[b]))
                      /\ i > 1 => PlaceToCome(s).pre = server_list[b][i - 1].port
      BY DEF NoticesLeadToList
  <2>1. /\ i \in 1 .. ChainLength[b] /\ Len(server_list[b]) = ChainLength[b]
        /\ s = <<b, i>> /\ s \in Servers /\ ChainLength[b] \in Nat
      BY ListFormed
  <2>2. PlaceToCome(s) = PlaceNow(s)
    <3>1. PlaceNow(s) \in ChainPlaces /\ PlaceToCome(s) = Come(PlaceNow(s), from_master[s])
        BY <1>1, <2>1, PlaceToComeType
    <3> QED
        BY <1>3, <2>1, <3>1, NoWay
  <2>3. Bank(s) = b /\ s[2] = i
      BY <2>1 DEF Bank
  <2>4. PlaceToCome(s).type = RoleAt(i, ChainLength[b])
    <3>1. my_type[s] = RoleAt(s[2], ChainLength[Bank(s)])
        BY <2>1, MemberFormed
    <3> QED
        BY <2>2, <2>3, <3>1 DEF PlaceNow
  <2>5. ASSUME i > 1
        PROVE  PlaceToCome(s).pre = server_list[b][i - 1].port
    <3>1. pre_port[s] = IF s[2] = 1 THEN NoServer ELSE <<Bank(s), s[2] - 1>>
        BY <2>1, MemberFormed
    <3>2. PlaceToCome(s).pre = <<b, i - 1>>
        BY <2>2, <2>3, <2>5, <3>1 DEF PlaceNow
    <3>3. i - 1 \in 1 .. ChainLength[b]
        BY <2>1, <2>5
    <3> QED
        BY <3>2, <3>3, ListFormed
  <2> QED
      BY <2>1, <2>4, <2>5
<1> QED
    BY <1>1, <1>2, <1>4, <1>5, <1>6, <1>7, <1>8, <1>9, <1>10 DEF FInv, ShrinkingOnly

(* A notice goes to one neighbour or to two, once, and each works out its new *)
(* role from its old one: still, whatever fails in whatever order and however  *)
(* far the notices are, every server that runs is on its way to the place the  *)
(* master's list gives it (round_ask_check, rec_msg_from_master).  For chains  *)
(* that are complete at the beginning and servers that are never suspected     *)
(* while they run.                                                             *)
THEOREM NoticesLeadCorrect == Complete => (FSpec => []NoticesLeadToList)
<1> SUFFICES ASSUME Complete PROVE FSpec => []NoticesLeadToList
    OBVIOUS
<1>1. FInit => FInv
    BY FInvInit DEF Complete
<1>2. FInv /\ [FNext]_fvars => FInv'
    BY FInvStep DEF Complete
<1>3. FInv => NoticesLeadToList
    BY DEF FInv
<1> QED
    BY <1>1, <1>2, <1>3, PTL DEF FSpec

(* At no moment of any repair do two servers of a bank that run take           *)
(* themselves for its head, or for its tail: the notice that makes a new one   *)
(* goes out when the old one is dead (server_fail_notice, round_ask_check).    *)
THEOREM OneHeadOneTailCorrect == Complete => (FSpec => []OneHeadOneTail)
<1> SUFFICES ASSUME Complete PROVE FSpec => []OneHeadOneTail
    OBVIOUS
<1>1. FInit => FInv
    BY FInvInit DEF Complete
<1>2. FInv /\ [FNext]_fvars => FInv'
    BY FInvStep DEF Complete
<1>3. FInv => OneHeadOneTail
    BY EndsAreOne
<1> QED
    BY <1>1, <1>2, <1>3, PTL DEF FSpec
================================================================================
