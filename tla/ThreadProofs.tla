------------------------------- MODULE ThreadProofs -------------------------------
(***************************************************************************)
(* What the races between rec_client and the threads that read             *)
(* acknowledgements leave of the promises of a head.                       *)
(*                                                                         *)
(* With resends it may execute a resend again, but it never gives an id    *)
(* two verdicts.  With an acknowledgement between the test of `sent` and   *)
(* what follows, a resend is handled on the word of an entry that is gone. *)
(* The argument is that the histories remember what `sent` forgets:        *)
(* whatever status an entry of `sent` has, the history for it names its    *)
(* id, and an update that is still to be recorded as executed has never    *)
(* been refused.                                                           *)
(*                                                                         *)
(* Without resends nothing is lost by taking rec_client as one step: what  *)
(* the other threads do commutes with the rest of the handler.  That needs *)
(* the invariants of Chain, which hold of the state as the handlers under  *)
(* way will leave it (Whole), and it yields them: what is proved of Chain, *)
(* as that transfers conserve money, holds with threads as well.           *)
(***************************************************************************)
EXTENDS Threads, TransferProofs

\* The updates at work, by the stage rec_client is at.
Hands == [at : {"status", "list", "pass"}, req : OwnRequests]

\* The histories P and I of a head remember what its list S says, and agree.
Consistent(P, I, S) ==
    /\ \A i \in 1 .. Len(S) : S[i].status = "Need" => HasId(P, S[i].req_id)
    /\ \A i \in 1 .. Len(S) : S[i].status = "InsufficientFunds" => HasId(I, S[i].req_id)
    /\ \A id : ~ (HasId(P, id) /\ HasId(I, id))

\* An update that waits for the second test of `sent` has been judged.
Ready(I, q) ==
    /\ q.status = "Need" => ~HasId(I, q.req_id)
    /\ q.status = "InsufficientFunds" => HasId(I, q.req_id)

ThreadInvariant ==
    /\ HeadFrame
    /\ hand \in [Servers -> {Idler} \cup Hands]
    /\ \A s \in Servers : hand[s] # Idler => Heads(s)
    /\ \A s \in Servers : Heads(s) =>
          Consistent(processed_trans[s], insuf_funds_trans[s], sent[s])
    /\ \A s \in Servers : InHand(s, "list") =>
          Ready(insuf_funds_trans[s], hand[s].req)

--------------------------------------------------------------------------------
\* Histories.

\* Two histories without a common id, entry by entry.
LEMMA ApartById ==
    ASSUME NEW P \in Seq(Request), NEW I \in Seq(Request),
           \A id : ~ (HasId(P, id) /\ HasId(I, id))
    PROVE  \A i \in DOMAIN P, j \in DOMAIN I : P[i].req_id # I[j].req_id
<1>1. DOMAIN P = 1 .. Len(P) /\ DOMAIN I = 1 .. Len(I)
    OBVIOUS
<1> QED
    BY <1>1 DEF HasId

\* The status a resend finds in `sent` is one a history of the head explains.
LEMMA ResendExplained ==
    ASSUME HeadFrame, NEW s \in Servers, NEW q \in OwnRequests, NEW P, NEW I,
           Consistent(P, I, sent[s])
    PROVE  /\ PreSendStatus(sent[s], q) = "Need" => HasId(P, q.req_id)
           /\ PreSendStatus(sent[s], q) = "InsufficientFunds" => HasId(I, q.req_id)
<1> DEFINE i == FirstSent(sent[s], q)
<1>1. sent[s] \in Seq(Request) /\ sent[s] \in Seq(OwnRequests)
    BY DEF HeadFrame, TypeOK, ServerTypeOK, IdsKept
<1>2. CASE InSent(sent[s], q)
  <2>1. i \in 1 .. Len(sent[s]) /\ SameSent(q, sent[s][i])
      BY <1>1, <1>2, FirstSentProperty DEF InSent
  <2>2. PreSendStatus(sent[s], q) = sent[s][i].status
      BY <1>2 DEF PreSendStatus
  <2>3. sent[s][i].req_id = q.req_id
    <3>1. sent[s][i] \in OwnRequests
        BY <1>1, <2>1
    <3> HIDE DEF i
    <3> QED
        BY <2>1, <3>1 DEF OwnRequests, SameSent
  <2> HIDE DEF i
  <2> QED
      BY <2>1, <2>2, <2>3 DEF Consistent
<1>3. CASE ~InSent(sent[s], q)
    BY <1>3 DEF PreSendStatus
<1> QED
    BY <1>2, <1>3

--------------------------------------------------------------------------------
\* Steps that leave the hands of the heads alone.

\* The clients, the network and the threads of other servers keep the invariant.
LEMMA QuietStepKeeps ==
    ASSUME ThreadInvariant, [Next]_vars, QuietStep, UNCHANGED hand
    PROVE  ThreadInvariant'
<1>1. HeadFrame'
  <2>1. TypeOK' /\ IdsKept' /\ HeadsReadNoStream'
      BY TypeOKStep, IdsKeptStep, HeadsReadNoStreamStep DEF ThreadInvariant, HeadFrame
  <2>2. TopologyInit'
      BY TopologyFixed DEF ThreadInvariant, HeadFrame, TopologyInit, topology
  <2> QED
      BY <2>1, <2>2 DEF HeadFrame
<1>2. \A h \in Servers : Heads(h)' <=> Heads(h)
    BY TopologyFixed DEF Heads, topology
<1>3. ASSUME NEW h \in Servers, Heads(h)
      PROVE  /\ Consistent(processed_trans[h], insuf_funds_trans[h], sent[h])'
             /\ insuf_funds_trans'[h] = insuf_funds_trans[h]
  <2>1. /\ processed_trans'[h] = processed_trans[h]
        /\ insuf_funds_trans'[h] = insuf_funds_trans[h]
        /\ \A i \in 1 .. Len(sent'[h]) : \E j \in 1 .. Len(sent[h]) : sent'[h][i] = sent[h][j]
      BY <1>3, QuietAtHead DEF ThreadInvariant
  <2>2. Consistent(processed_trans[h], insuf_funds_trans[h], sent[h])
      BY <1>3 DEF ThreadInvariant
  <2> QED
      BY <2>1, <2>2 DEF Consistent
<1>4. ASSUME NEW h \in Servers, InHand(h, "list")'
      PROVE  Ready(insuf_funds_trans[h], hand[h].req)'
  <2>1. InHand(h, "list") /\ hand[h] # Idler
      BY <1>4 DEF InHand, Idler
  <2>2. Heads(h) /\ Ready(insuf_funds_trans[h], hand[h].req)
      BY <2>1 DEF ThreadInvariant
  <2> QED
      BY <1>3, <2>2 DEF Ready
<1> QED
    BY <1>1, <1>2, <1>3, <1>4 DEF ThreadInvariant

\* The handlers that Threads takes over from Chain as they are.
LEMMA OtherThreadsKeep ==
    ASSUME ThreadInvariant, NEW s \in Servers,
           \/ OtherThreads(s)
           \/ (RecQuery(s) \/ RecUnknown(s)) /\ UNCHANGED <<clientState, hand>>
    PROVE  ThreadInvariant'
<1>1. QuietStep /\ UNCHANGED hand /\ UNCHANGED clientState
    BY DEF QuietStep, OtherThreads
<1>2. ReceiveStep(s)
    BY DEF OtherThreads, ReceiveStep, RecClient
<1>3. [Next]_vars
    BY <1>1, <1>2 DEF Next, ServerStep
<1> QED
    BY <1>1, <1>3, QuietStepKeeps

--------------------------------------------------------------------------------
\* Steps of rec_client at an update.

\* What a step of rec_client has to see to for the frame.
LEMMA FrameKept ==
    ASSUME HeadFrame,
           UNCHANGED <<topology, last_received_id, from_next, clientState>>,
           req_seq' \in [Servers -> Nat],
           balance_map' \in [Servers -> [Accounts -> Int]],
           processed_trans' \in [Servers -> Seq(Request)],
           insuf_funds_trans' \in [Servers -> Seq(Request)],
           sent' \in [Servers -> Seq(OwnRequests)],
           from_pre' \in [Servers -> Seq(OwnForwards)],
           \A h \in Servers : Heads(h) => from_pre'[h] = from_pre[h],
           DOMAIN to_server' \subseteq Mails,
           \A m \in DOMAIN to_server' : m.op = "REQUEST" => m.req \in OwnRequests,
           DOMAIN to_client' \subseteq Reply \cup SetHeadTails
    PROVE  HeadFrame'
<1>1. sent' \in [Servers -> Seq(Request)]
  <2>1. ASSUME NEW list \in Seq(OwnRequests) PROVE list \in Seq(Request)
      BY DEF OwnRequests
  <2> QED
      BY <2>1
<1>2. from_pre' \in [Servers -> Seq(Forwards)]
  <2>1. OwnForwards \subseteq Forwards
      BY DEF OwnForwards, Forwards, OwnRequests
  <2> QED
      BY <2>1
<1>3. TypeOK'
    BY <1>1, <1>2
    DEF HeadFrame, TypeOK, ServerTypeOK, ClientTypeOK, TopologyTypeOK, topology,
        clientState, Queue
<1>4. TopologyInit' /\ HeadsReadNoStream'
    BY DEF HeadFrame, TopologyInit, HeadsReadNoStream, Heads, topology
<1> QED
    BY <1>3, <1>4 DEF HeadFrame, IdsKept

\* And for the histories of its head; those of the others stay.
LEMMA HandStep ==
    ASSUME ThreadInvariant, HeadFrame', UNCHANGED topology,
           NEW s \in Servers, Heads(s),
           NEW g \in {Idler} \cup Hands, hand' = [hand EXCEPT ![s] = g],
           \A h \in Servers \ {s} : /\ processed_trans'[h] = processed_trans[h]
                                    /\ insuf_funds_trans'[h] = insuf_funds_trans[h]
                                    /\ sent'[h] = sent[h],
           Consistent(processed_trans'[s], insuf_funds_trans'[s], sent'[s]),
           g.at = "list" => Ready(insuf_funds_trans'[s], g.req)
    PROVE  ThreadInvariant'
<1>1. \A h \in Servers : Heads(h)' <=> Heads(h)
    BY DEF Heads, topology
<1>2. /\ hand \in [Servers -> {Idler} \cup Hands]
      /\ hand' \in [Servers -> {Idler} \cup Hands]
      /\ hand'[s] = g
      /\ \A h \in Servers \ {s} : hand'[h] = hand[h]
    BY DEF ThreadInvariant
<1>3. \A h \in Servers : hand'[h] # Idler => Heads(h)'
    BY <1>1, <1>2 DEF ThreadInvariant
<1>4. ASSUME NEW h \in Servers, Heads(h)
      PROVE  Consistent(processed_trans[h], insuf_funds_trans[h], sent[h])'
  <2>1. CASE h = s
      BY <2>1
  <2>2. CASE h # s
    <3>1. Consistent(processed_trans[h], insuf_funds_trans[h], sent[h])
        BY <1>4 DEF ThreadInvariant
    <3> QED
        BY <2>2, <3>1
  <2> QED
      BY <2>1, <2>2
<1>5. ASSUME NEW h \in Servers, InHand(h, "list")'
      PROVE  Ready(insuf_funds_trans[h], hand[h].req)'
  <2>1. CASE h = s
      BY <1>2, <1>5, <2>1 DEF InHand
  <2>2. CASE h # s
    <3>1. InHand(h, "list")
        BY <1>2, <1>5, <2>2 DEF InHand
    <3>2. Ready(insuf_funds_trans[h], hand[h].req)
        BY <3>1 DEF ThreadInvariant
    <3> QED
        BY <1>2, <2>2, <3>2
  <2> QED
      BY <2>1, <2>2
<1> QED
    BY <1>1, <1>2, <1>3, <1>4, <1>5 DEF ThreadInvariant

\* The types a step of rec_client starts from.
LEMMA FrameTypes ==
    ASSUME HeadFrame
    PROVE  /\ ServerTypeOK
           /\ req_seq \in [Servers -> Nat]
           /\ balance_map \in [Servers -> [Accounts -> Int]]
           /\ processed_trans \in [Servers -> Seq(Request)]
           /\ insuf_funds_trans \in [Servers -> Seq(Request)]
           /\ sent \in [Servers -> Seq(OwnRequests)]
           /\ from_pre \in [Servers -> Seq(OwnForwards)]
           /\ next_fd \in [Servers -> Servers \cup {NoServer}]
           /\ DOMAIN to_server \subseteq Mails
           /\ \A m \in DOMAIN to_server : m.op = "REQUEST" => m.req \in OwnRequests
           /\ DOMAIN to_client \subseteq Reply \cup SetHeadTails
           /\ OwnRequests \subseteq Request
BY DEF HeadFrame, TypeOK, ServerTypeOK, ClientTypeOK, TopologyTypeOK, IdsKept, OwnRequests

\* recvfrom, the first check_in_sent, check_same_req and the judgement.
LEMMA TestSentKeeps ==
    ASSUME ThreadInvariant, NEW s \in Servers, TestSent(s)
    PROVE  ThreadInvariant'
<1>1. PICK m \in DOMAIN to_server : TestSent(s)!(m)
    BY DEF TestSent
<1> DEFINE r == Judged(s, m.req)
           P == processed_trans[s]
           I == insuf_funds_trans[s]
<1>2. HeadFrame /\ Heads(s) /\ Consistent(P, I, sent[s])
    BY <1>1 DEF ThreadInvariant
<1>3. m.req \in OwnRequests /\ m.req \in Request
    BY <1>1, <1>2, FrameTypes
<1>4. /\ r \in OwnRequests /\ r \in Request
      /\ r.req_id = m.req.req_id /\ r.type = m.req.type
      /\ r.status = Judge(s, m.req).status
      /\ Judge(s, m.req).balances \in [Accounts -> Int]
    BY <1>2, <1>3, JudgedOwn, JudgedType, FrameTypes
<1>5. /\ DOMAIN to_server' \subseteq DOMAIN to_server
      /\ UNCHANGED <<topology, last_received_id, from_next, clientState>>
      /\ UNCHANGED <<processed_trans, sent, from_pre, to_client>>
    BY <1>1, TakeProperty
<1> HIDE DEF r
<1>6. CASE InSent(sent[s], m.req)
  <2> DEFINE g == [at |-> "status", req |-> m.req]
  <2>1. /\ hand' = [hand EXCEPT ![s] = g]
        /\ UNCHANGED <<req_seq, balance_map, insuf_funds_trans>>
      BY <1>1, <1>6
  <2>2. HeadFrame'
      BY <1>2, <1>5, <2>1, FrameTypes, FrameKept
  <2>3. g \in {Idler} \cup Hands /\ g.at # "list"
      BY <1>3 DEF Hands
  <2> HIDE DEF g
  <2> QED
      BY <1>2, <1>5, <2>1, <2>2, <2>3, HandStep
<1>7. CASE ~InSent(sent[s], m.req)
  <2> DEFINE g == [at |-> "list", req |-> r]
             refused == r.type # "deposit" /\ r.status = "InsufficientFunds"
  <2>1. /\ req_seq' = [req_seq EXCEPT ![s] = @ + 1]
        /\ balance_map' = [balance_map EXCEPT ![s] = Judge(s, m.req).balances]
        /\ insuf_funds_trans' =
              IF refused THEN [insuf_funds_trans EXCEPT ![s] = Append(@, r)]
              ELSE insuf_funds_trans
        /\ hand' = [hand EXCEPT ![s] = g]
      BY <1>1, <1>7 DEF r, Refuse, Proceed, After
  <2>2. /\ req_seq' \in [Servers -> Nat]
        /\ balance_map' \in [Servers -> [Accounts -> Int]]
        /\ insuf_funds_trans' \in [Servers -> Seq(Request)]
      BY <1>2, <1>4, <2>1, FrameTypes
  <2>3. HeadFrame'
      BY <1>2, <1>5, <2>2, FrameTypes, FrameKept
  <2>4. g \in {Idler} \cup Hands
      BY <1>4 DEF Hands
  <2>5. P \in Seq(Request) /\ I \in Seq(Request)
      BY <1>2, FrameTypes
  <2>6. r.status = "Need" => ~HasId(P, r.req_id) /\ ~HasId(I, r.req_id)
    <3>1. r.status = ProcessUpdate(Bank(s), balance_map[s],
                                   CheckSameReq(P, I, m.req), m.req).status
        BY <1>4, <1>7 DEF Judge
    <3> QED
        BY <1>4, <2>5, <3>1, NeedIsNew
  <2>7. r.status = "InsufficientFunds" =>
           refused /\ (~HasId(P, r.req_id) \/ HasId(I, r.req_id))
    <3>1. r.status = ProcessUpdate(Bank(s), balance_map[s],
                                   CheckSameReq(P, I, m.req), m.req).status
        BY <1>4, <1>7 DEF Judge
    <3> QED
        BY <1>4, <2>5, <3>1, RefusalIsNewOrOld
  <2>8. /\ insuf_funds_trans'[s] = IF refused THEN Append(I, r) ELSE I
        /\ \A h \in Servers \ {s} : insuf_funds_trans'[h] = insuf_funds_trans[h]
        /\ processed_trans'[s] = P /\ sent'[s] = sent[s]
      BY <1>2, <1>5, <2>1, FrameTypes
  <2> HIDE DEF P, I
  <2>9. \A id : HasId(Append(I, r), id) <=> HasId(I, id) \/ id = r.req_id
      BY <1>4, <2>5, AppendId
  <2>10. Consistent(processed_trans'[s], insuf_funds_trans'[s], sent'[s])
    <3>1. CASE refused
        BY <1>2, <2>7, <2>8, <2>9, <3>1 DEF Consistent
    <3>2. CASE ~refused
        BY <1>2, <2>8, <3>2
    <3> QED
        BY <3>1, <3>2
  <2>11. Ready(insuf_funds_trans'[s], r)
      BY <2>6, <2>7, <2>8, <2>9 DEF Ready
  <2> HIDE DEF refused
  <2> QED
      BY <1>2, <1>5, <2>1, <2>3, <2>4, <2>8, <2>10, <2>11, HandStep
<1> QED
    BY <1>6, <1>7

\* get_pre_send_status: the entry may be gone, or stand for an update the
\* histories know.
LEMMA ReadStatusKeeps ==
    ASSUME ThreadInvariant, NEW s \in Servers, ReadStatus(s)
    PROVE  ThreadInvariant'
<1> DEFINE P == processed_trans[s]
           I == insuf_funds_trans[s]
           p == hand[s].req
           q == [p EXCEPT !.status = PreSendStatus(sent[s], p)]
           g == [at |-> "list", req |-> q]
           refused == q.type # "deposit" /\ q.status = "InsufficientFunds"
<1>1. /\ hand[s] # Idler /\ hand[s] \in Hands
      /\ HeadFrame /\ Heads(s) /\ Consistent(P, I, sent[s])
    BY DEF ReadStatus, InHand, Idler, ThreadInvariant
<1>2. /\ q \in OwnRequests /\ q \in Request
      /\ q.req_id = p.req_id /\ q.status = PreSendStatus(sent[s], p)
      /\ p \in OwnRequests
  <2>1. p \in OwnRequests /\ p \in Request
      BY <1>1 DEF Hands, OwnRequests
  <2>2. PreSendStatus(sent[s], p) \in Statuses
    <3>1. sent[s] \in Seq(Request)
        BY <1>1 DEF HeadFrame, TypeOK, ServerTypeOK
    <3> QED
        BY <3>1, PreSendStatusType
  <2> QED
      BY <2>1, <2>2 DEF OwnRequests, Request
<1>3. /\ insuf_funds_trans' =
            IF refused THEN [insuf_funds_trans EXCEPT ![s] = Append(@, q)]
            ELSE insuf_funds_trans
      /\ hand' = [hand EXCEPT ![s] = g]
      /\ UNCHANGED <<topology, last_received_id, from_next, clientState>>
      /\ UNCHANGED <<req_seq, balance_map, processed_trans, sent, from_pre,
                     to_server, to_client>>
    BY DEF ReadStatus, Refuse, Proceed, After, network
<1>4. /\ q.status = "Need" => HasId(P, q.req_id)
      /\ q.status = "InsufficientFunds" => HasId(I, q.req_id)
    BY <1>1, <1>2, ResendExplained
<1> HIDE DEF q
<1>5. HeadFrame'
  <2>1. insuf_funds_trans' \in [Servers -> Seq(Request)]
      BY <1>1, <1>2, <1>3, FrameTypes
  <2> HIDE DEF refused
  <2> QED
      BY <1>1, <1>3, <2>1, FrameTypes, FrameKept
<1>6. /\ insuf_funds_trans'[s] = IF refused THEN Append(I, q) ELSE I
      /\ \A h \in Servers \ {s} : insuf_funds_trans'[h] = insuf_funds_trans[h]
      /\ I \in Seq(Request)
    BY <1>1, <1>3, FrameTypes
<1> HIDE DEF P, I
<1>7. \A id : HasId(Append(I, q), id) <=> HasId(I, id) \/ id = q.req_id
    BY <1>2, <1>6, AppendId
<1>8. Consistent(P, insuf_funds_trans'[s], sent[s])
    BY <1>1, <1>4, <1>6, <1>7 DEF Consistent
<1>9. Ready(insuf_funds_trans'[s], q)
    BY <1>1, <1>4, <1>6, <1>7 DEF Ready, Consistent
<1>10. g \in {Idler} \cup Hands
    BY <1>2 DEF Hands
<1> HIDE DEF refused
<1> QED
    BY <1>1, <1>3, <1>5, <1>6, <1>8, <1>9, <1>10, HandStep DEF P

\* The second check_in_sent: what is taken into the history of executions has
\* never been refused, whether or not it has been executed.
LEMMA ListKeeps ==
    ASSUME ThreadInvariant, NEW s \in Servers, List(s)
    PROVE  ThreadInvariant'
<1> DEFINE P == processed_trans[s]
           I == insuf_funds_trans[s]
           S == sent[s]
           q == hand[s].req
           g == [at |-> "pass", req |-> q]
           first == ~InSent(S, q)
<1>1. /\ InHand(s, "list") /\ hand[s] # Idler /\ hand[s] \in Hands
      /\ HeadFrame /\ Heads(s) /\ Consistent(P, I, S) /\ Ready(I, q)
  <2>1. InHand(s, "list") /\ hand[s] # Idler
      BY DEF List, InHand, Idler
  <2> QED
      BY <2>1 DEF ThreadInvariant
<1>2. q \in OwnRequests /\ q \in Request
    BY <1>1 DEF Hands, OwnRequests
<1>3. /\ sent' = IF first THEN [sent EXCEPT ![s] = Append(@, q)] ELSE sent
      /\ processed_trans' = IF first /\ q.status = "Need"
                            THEN [processed_trans EXCEPT ![s] = Record(@, q)]
                            ELSE processed_trans
      /\ hand' = [hand EXCEPT ![s] = g]
      /\ UNCHANGED <<topology, last_received_id, from_next, clientState>>
      /\ UNCHANGED <<req_seq, balance_map, insuf_funds_trans, from_pre, to_server, to_client>>
    BY DEF List, Proceed, After, network
<1>4. /\ P \in Seq(Request) /\ S \in Seq(OwnRequests)
      /\ processed_trans \in [Servers -> Seq(Request)]
      /\ sent \in [Servers -> Seq(OwnRequests)]
    BY <1>1, FrameTypes
<1>5. Record(P, q) \in Seq(Request)
    BY <1>2, <1>4, RecordType
<1>6. g \in {Idler} \cup Hands
    BY <1>2 DEF Hands
<1> HIDE DEF q, g, first
<1>7. /\ sent' \in [Servers -> Seq(OwnRequests)]
      /\ sent'[s] = IF first THEN Append(S, q) ELSE S
      /\ \A h \in Servers \ {s} : sent'[h] = sent[h]
    BY <1>2, <1>3, <1>4
<1>8. /\ processed_trans' \in [Servers -> Seq(Request)]
      /\ processed_trans'[s] = IF first /\ q.status = "Need" THEN Record(P, q) ELSE P
      /\ \A h \in Servers \ {s} : processed_trans'[h] = processed_trans[h]
    BY <1>3, <1>4, <1>5
<1>9. HeadFrame'
    BY <1>1, <1>3, <1>7, <1>8, FrameTypes, FrameKept
<1>10. \A i \in 1 .. Len(sent'[s]) :
          \/ i \in 1 .. Len(S) /\ sent'[s][i] = S[i]
          \/ first /\ sent'[s][i] = q
    BY <1>2, <1>4, <1>7
<1> HIDE DEF P, I, S
<1>11. \A id : HasId(Record(P, q), id) <=> HasId(P, id) \/ id = q.req_id
    BY <1>2, <1>4, RecordId
<1>12. Consistent(processed_trans'[s], I, sent'[s])
  <2>1. \A i \in 1 .. Len(sent'[s]) : sent'[s][i].status = "Need" =>
           HasId(processed_trans'[s], sent'[s][i].req_id)
      BY <1>1, <1>8, <1>10, <1>11 DEF Consistent
  <2>2. \A i \in 1 .. Len(sent'[s]) : sent'[s][i].status = "InsufficientFunds" =>
           HasId(I, sent'[s][i].req_id)
      BY <1>1, <1>10 DEF Consistent, Ready, q
  <2>3. \A id : ~ (HasId(processed_trans'[s], id) /\ HasId(I, id))
      BY <1>1, <1>8, <1>11 DEF Consistent, Ready, q
  <2> QED
      BY <2>1, <2>2, <2>3 DEF Consistent
<1>13. g.at # "list"
    BY DEF g
<1> QED
    BY <1>1, <1>3, <1>6, <1>7, <1>8, <1>9, <1>12, <1>13, HandStep DEF I

\* The end of the handler: what it sends goes to no head, and `sent` shrinks.
LEMMA PassKeeps ==
    ASSUME ThreadInvariant, NEW s \in Servers, Pass(s)
    PROVE  ThreadInvariant'
<1> DEFINE q == hand[s].req
           message == [op |-> "FORWARD", req |-> q]
<1>1. /\ hand[s] # Idler /\ hand[s] \in Hands
      /\ HeadFrame /\ Heads(s)
      /\ Consistent(processed_trans[s], insuf_funds_trans[s], sent[s])
    BY DEF Pass, InHand, Idler, ThreadInvariant
<1>2. q \in OwnRequests /\ q \in Request
    BY <1>1 DEF Hands, OwnRequests
<1>3. /\ from_pre' \in {from_pre, Push(from_pre, next_fd[s], message)}
      /\ sent' \in {sent, [sent EXCEPT ![s] = DeleteSent(@, q)]}
      /\ to_server' = Deliver(to_server, LeavingFor(s, q))
      /\ to_client' = Deliver(to_client, RepliesLeaving(s, q))
      /\ hand' = [hand EXCEPT ![s] = Idler]
      /\ UNCHANGED <<topology, last_received_id, from_next, clientState>>
      /\ UNCHANGED <<req_seq, balance_map, processed_trans, insuf_funds_trans>>
    BY DEF Pass, Proceed, After, Forward
<1> HIDE DEF q
<1>4. /\ sent' \in [Servers -> Seq(OwnRequests)]
      /\ \A h \in Servers \ {s} : sent'[h] = sent[h]
      /\ sent'[s] \in {sent[s], DeleteSent(sent[s], q)}
  <2>1. sent \in [Servers -> Seq(OwnRequests)] /\ sent[s] \in Seq(OwnRequests)
      BY <1>1, FrameTypes
  <2>2. DeleteSent(sent[s], q) \in Seq(OwnRequests)
      BY <2>1, DeleteSentOwn
  <2> QED
      BY <1>3, <2>1, <2>2
<1>5. /\ from_pre' \in [Servers -> Seq(OwnForwards)]
      /\ \A h \in Servers : Heads(h) => from_pre'[h] = from_pre[h]
  <2>1. from_pre \in [Servers -> Seq(OwnForwards)] /\ next_fd[s] \in Servers \cup {NoServer}
      BY <1>1, FrameTypes
  <2>2. message \in OwnForwards
      BY <1>2 DEF OwnForwards
  <2> HIDE DEF message
  <2>3. Push(from_pre, next_fd[s], message) \in [Servers -> Seq(OwnForwards)]
      BY <2>1, <2>2, PushType
  <2>4. \A h \in Servers : Heads(h) =>
           Push(from_pre, next_fd[s], message)[h] = from_pre[h]
      BY <1>1, <2>1, PushToNoHead DEF HeadFrame
  <2> QED
      BY <1>3, <2>1, <2>3, <2>4
<1>6. /\ DOMAIN to_server' \subseteq Mails
      /\ \A x \in DOMAIN to_server' : x.op = "REQUEST" => x.req \in OwnRequests
  <2>1. LeavingFor(s, q) \in {ShipTransfer(s, q), AckTransfer(s, q), {}}
      BY DEF LeavingFor
  <2>2. \A x \in LeavingFor(s, q) : x.req = q /\ (x.to # NoServer => x \in Mails)
    <3>1. TopologyTypeOK
        BY <1>1 DEF HeadFrame, TypeOK, ServerTypeOK
    <3>2. \A x \in ShipTransfer(s, q) \cup AckTransfer(s, q) : x.req = q
        BY DEF ShipTransfer, AckTransfer, Mail
    <3> QED
        BY <1>2, <2>1, <3>1, <3>2, MailType
  <2>3. DOMAIN to_server' \subseteq
           DOMAIN to_server \cup {x \in LeavingFor(s, q) : x.to # NoServer}
      BY <1>3, DeliverProperty
  <2> QED
      BY <1>1, <1>2, <2>2, <2>3, FrameTypes
<1>7. DOMAIN to_client' \subseteq Reply \cup SetHeadTails
  <2>1. balance_map[s] \in [Accounts -> Int]
      BY <1>1, FrameTypes
  <2>2. RepliesLeaving(s, q) \subseteq Reply
      BY <1>2, <2>1, ReplyToType, OutcomeType DEF RepliesLeaving
  <2>3. DOMAIN to_client' \subseteq DOMAIN to_client \cup RepliesLeaving(s, q)
      BY <1>3, DeliverProperty
  <2> QED
      BY <1>1, <2>2, <2>3, FrameTypes
<1>8. HeadFrame'
    BY <1>1, <1>3, <1>4, <1>5, <1>6, <1>7, FrameTypes, FrameKept
<1>9. Consistent(processed_trans[s], insuf_funds_trans[s], sent'[s])
  <2>1. sent[s] \in Seq(Request)
      BY <1>1 DEF HeadFrame, TypeOK, ServerTypeOK
  <2>2. \A i \in 1 .. Len(DeleteSent(sent[s], q)) :
           \E j \in 1 .. Len(sent[s]) : DeleteSent(sent[s], q)[i] = sent[s][j]
      BY <2>1, DeleteSentProperty
  <2>3. Consistent(processed_trans[s], insuf_funds_trans[s], DeleteSent(sent[s], q))
      BY <1>1, <2>2 DEF Consistent
  <2> QED
      BY <1>1, <1>4, <2>3
<1>10. Idler.at # "list"
    BY DEF Idler
<1> QED
    BY <1>1, <1>3, <1>4, <1>8, <1>9, <1>10, HandStep

--------------------------------------------------------------------------------
\* The invariant holds at first and is kept by every step.
THEOREM ThreadInvariantCorrect == TSpec => []ThreadInvariant
<1>1. TInit => ThreadInvariant
  <2> SUFFICES ASSUME TInit PROVE ThreadInvariant
      OBVIOUS
  <2>1. HeadFrame
    <3>1. TypeOK /\ TopologyInit
        BY InitType DEF TInit, Init, ServerInit
    <3>2. IdsKept /\ HeadsReadNoStream
        BY DEF TInit, Init, ServerInit, ServersStart, IdsKept, HeadsReadNoStream,
               EmptyBag, SetToBag
    <3> QED
        BY <3>1, <3>2 DEF HeadFrame
  <2>2. \A s \in Servers : /\ hand[s] = Idler /\ ~InHand(s, "list")
                           /\ sent[s] = <<>> /\ processed_trans[s] = <<>>
      BY DEF TInit, Init, ServerInit, ServersStart, InHand, Idler
  <2>3. \A s \in Servers : Consistent(processed_trans[s], insuf_funds_trans[s], sent[s])
      BY <2>2 DEF Consistent, HasId
  <2>4. hand \in [Servers -> {Idler} \cup Hands]
      BY DEF TInit
  <2> QED
      BY <2>1, <2>2, <2>3, <2>4 DEF ThreadInvariant
<1>2. ThreadInvariant /\ [TNext]_tvars => ThreadInvariant'
  <2> SUFFICES ASSUME ThreadInvariant, [TNext]_tvars PROVE ThreadInvariant'
      OBVIOUS
  <2>1. ASSUME NEW s \in Servers, ClientThread(s) PROVE ThreadInvariant'
      BY <2>1, TestSentKeeps, ReadStatusKeeps, ListKeeps, PassKeeps, OtherThreadsKeep
      DEF ClientThread
  <2>2. ASSUME NEW s \in Servers, OtherThreads(s) PROVE ThreadInvariant'
      BY <2>2, OtherThreadsKeep
  <2>3. CASE \E c \in Clients : ClientStep(c) /\ UNCHANGED hand
      BY <2>3, QuietStepKeeps DEF QuietStep, Next
  <2>4. CASE Lose /\ UNCHANGED hand
      BY <2>4, QuietStepKeeps DEF QuietStep, Next
  <2>5. CASE UNCHANGED tvars
      BY <2>5, QuietStepKeeps DEF QuietStep, tvars
  <2> QED
      BY <2>1, <2>2, <2>3, <2>4, <2>5 DEF TNext
<1> QED
    BY <1>1, <1>2, PTL DEF TSpec

(* Whatever the threads of a head do between the steps of rec_client, and   *)
(* however often clients resend and datagrams are lost: no id is executed   *)
(* and refused, in every deployment.                                        *)
THEOREM ThreadsHaveOneVerdict == TSpec => []HeadHasOneVerdict
<1>1. ThreadInvariant => HeadHasOneVerdict
  <2> SUFFICES ASSUME ThreadInvariant, NEW s \in Servers, Heads(s)
      PROVE  \A i \in DOMAIN processed_trans[s], j \in DOMAIN insuf_funds_trans[s] :
                processed_trans[s][i].req_id # insuf_funds_trans[s][j].req_id
      BY DEF HeadHasOneVerdict
  <2>1. /\ processed_trans[s] \in Seq(Request) /\ insuf_funds_trans[s] \in Seq(Request)
        /\ \A id : ~ (HasId(processed_trans[s], id) /\ HasId(insuf_funds_trans[s], id))
      BY FrameTypes DEF ThreadInvariant, Consistent
  <2> QED
      BY <2>1, ApartById
<1> QED
    BY <1>1, ThreadInvariantCorrect, PTL

--------------------------------------------------------------------------------
\* Bags of datagrams.

\* How often a datagram is there.
CountIn(x, bag) == IF x \in DOMAIN bag THEN bag[x] ELSE 0

\* A delivery adds one to the copies of each datagram sent to somebody.
LEMMA CopiesDelivered ==
    ASSUME NEW bag, IsABag(bag), NEW mails
    PROVE  /\ IsABag(Deliver(bag, mails))
           /\ \A x : CountIn(x, Deliver(bag, mails)) =
                 CountIn(x, bag) + (IF x \in mails /\ x.to # NoServer THEN 1 ELSE 0)
           /\ DOMAIN bag \subseteq DOMAIN Deliver(bag, mails)
           /\ \A x \in mails : x.to # NoServer => x \in DOMAIN Deliver(bag, mails)
<1> DEFINE more == Deliver(bag, mails)
           S == {x \in mails : x.to # NoServer}
<1>1. /\ DOMAIN more = DOMAIN bag \cup S
      /\ \A x \in DOMAIN more :
            more[x] = (IF x \in DOMAIN bag THEN bag[x] ELSE 0) + (IF x \in S THEN 1 ELSE 0)
      /\ more = [x \in DOMAIN bag \cup S |-> more[x]]
    BY DEF Deliver, SetToBag, (+)
<1>2. \A x \in DOMAIN bag : bag[x] \in Nat /\ bag[x] > 0
    BY DEF IsABag
<1> HIDE DEF more
<1>3. \A x : x \in S <=> x \in mails /\ x.to # NoServer
    OBVIOUS
<1> HIDE DEF S
<1>4. \A x \in DOMAIN more : more[x] \in Nat /\ more[x] > 0
    BY <1>1, <1>2
<1>5. IsABag(more)
    BY <1>1, <1>4 DEF IsABag
<1>6. ASSUME NEW x
      PROVE  CountIn(x, more) = CountIn(x, bag) + (IF x \in S THEN 1 ELSE 0)
  <2>1. CASE x \in DOMAIN more
      BY <1>1, <1>2, <2>1 DEF CountIn
  <2>2. CASE x \notin DOMAIN more
    <3>1. x \notin DOMAIN bag /\ x \notin S
        BY <1>1, <2>2
    <3> QED
        BY <2>2, <3>1 DEF CountIn
  <2> QED
      BY <2>1, <2>2
<1> QED
    BY <1>1, <1>3, <1>5, <1>6 DEF more

\* Taking a datagram out leaves one copy less of it.
LEMMA CopiesTaken ==
    ASSUME NEW bag, IsABag(bag), NEW m \in DOMAIN bag
    PROVE  /\ IsABag(Take(bag, m))
           /\ \A x : CountIn(x, Take(bag, m)) =
                 CountIn(x, bag) - (IF x = m THEN 1 ELSE 0)
<1> DEFINE rest == Take(bag, m)
<1>1. \A x \in DOMAIN bag : bag[x] \in Nat /\ bag[x] > 0
    BY DEF IsABag
<1>2. /\ DOMAIN rest = {x \in DOMAIN bag : bag[x] - (IF x = m THEN 1 ELSE 0) > 0}
      /\ \A x \in DOMAIN rest : rest[x] = bag[x] - (IF x = m THEN 1 ELSE 0)
      /\ rest = [x \in DOMAIN rest |-> rest[x]]
    BY <1>1 DEF Take, SetToBag, (-)
<1> HIDE DEF rest
<1>3. \A x \in DOMAIN rest : rest[x] \in Nat /\ rest[x] > 0
    BY <1>1, <1>2
<1>4. IsABag(rest)
    BY <1>2, <1>3 DEF IsABag
<1>5. \A x : CountIn(x, rest) = CountIn(x, bag) - (IF x = m THEN 1 ELSE 0)
    BY <1>1, <1>2 DEF CountIn
<1> QED
    BY <1>4, <1>5 DEF rest

\* Bags with the same copies are the same.
LEMMA SameCopies ==
    ASSUME NEW A, NEW B, IsABag(A), IsABag(B), \A x : CountIn(x, A) = CountIn(x, B)
    PROVE  A = B
<1>1. /\ A = [x \in DOMAIN A |-> A[x]] /\ B = [x \in DOMAIN B |-> B[x]]
      /\ \A x \in DOMAIN A : A[x] \in Nat /\ A[x] > 0
      /\ \A x \in DOMAIN B : B[x] \in Nat /\ B[x] > 0
    BY DEF IsABag
<1>2. ASSUME NEW x
      PROVE  /\ x \in DOMAIN A <=> x \in DOMAIN B
             /\ x \in DOMAIN A => A[x] = B[x]
    BY <1>1 DEF CountIn
<1>3. DOMAIN A = DOMAIN B
    BY <1>2
<1> QED
    BY <1>1, <1>2, <1>3

\* Nothing delivered changes nothing.
LEMMA DeliverNothing ==
    ASSUME NEW bag, IsABag(bag)
    PROVE  Deliver(bag, {}) = bag
<1>1. IsABag(Deliver(bag, {})) /\ \A x : CountIn(x, Deliver(bag, {})) = CountIn(x, bag)
  <2>1. /\ IsABag(Deliver(bag, {}))
        /\ \A x : CountIn(x, Deliver(bag, {})) =
              CountIn(x, bag) + (IF x \in {} /\ x.to # NoServer THEN 1 ELSE 0)
      BY CopiesDelivered
  <2>2. \A x : CountIn(x, bag) \in Nat
      BY DEF IsABag, CountIn
  <2> QED
      BY <2>1, <2>2
<1> QED
    BY <1>1, SameCopies

\* Two deliveries of different datagrams are one.
LEMMA DeliverBoth ==
    ASSUME NEW bag, IsABag(bag), NEW M, NEW N, M \cap N = {}
    PROVE  Deliver(Deliver(bag, M), N) = Deliver(bag, M \cup N)
<1> DEFINE one == Deliver(bag, M)
           two == Deliver(one, N)
           both == Deliver(bag, M \cup N)
<1>1. IsABag(one) /\ \A x : CountIn(x, one) =
                 CountIn(x, bag) + (IF x \in M /\ x.to # NoServer THEN 1 ELSE 0)
    BY CopiesDelivered
<1>2. IsABag(both) /\ \A x : CountIn(x, both) =
                 CountIn(x, bag) + (IF x \in M \cup N /\ x.to # NoServer THEN 1 ELSE 0)
    BY CopiesDelivered
<1>3. \A x : CountIn(x, bag) \in Nat
    BY DEF IsABag, CountIn
<1> HIDE DEF one, both
<1>4. IsABag(two) /\ \A x : CountIn(x, two) =
                 CountIn(x, one) + (IF x \in N /\ x.to # NoServer THEN 1 ELSE 0)
    BY <1>1, CopiesDelivered
<1> HIDE DEF two
<1>5. \A x : CountIn(x, two) = CountIn(x, both)
    BY <1>1, <1>2, <1>3, <1>4
<1>6. two = both
    BY <1>2, <1>4, <1>5, SameCopies
<1> QED
    BY <1>6 DEF one, two, both

\* Deliveries can come in either order.
LEMMA DeliverSwap ==
    ASSUME NEW bag, IsABag(bag), NEW M, NEW N
    PROVE  Deliver(Deliver(bag, M), N) = Deliver(Deliver(bag, N), M)
<1> DEFINE m == Deliver(bag, M)
           n == Deliver(bag, N)
           mn == Deliver(m, N)
           nm == Deliver(n, M)
<1>1. IsABag(m) /\ \A x : CountIn(x, m) =
                 CountIn(x, bag) + (IF x \in M /\ x.to # NoServer THEN 1 ELSE 0)
    BY CopiesDelivered
<1>2. IsABag(n) /\ \A x : CountIn(x, n) =
                 CountIn(x, bag) + (IF x \in N /\ x.to # NoServer THEN 1 ELSE 0)
    BY CopiesDelivered
<1>3. \A x : CountIn(x, bag) \in Nat
    BY DEF IsABag, CountIn
<1> HIDE DEF m, n
<1>4. IsABag(mn) /\ \A x : CountIn(x, mn) =
                 CountIn(x, m) + (IF x \in N /\ x.to # NoServer THEN 1 ELSE 0)
    BY <1>1, CopiesDelivered
<1>5. IsABag(nm) /\ \A x : CountIn(x, nm) =
                 CountIn(x, n) + (IF x \in M /\ x.to # NoServer THEN 1 ELSE 0)
    BY <1>2, CopiesDelivered
<1> HIDE DEF mn, nm
<1>6. \A x : CountIn(x, mn) = CountIn(x, nm)
    BY <1>1, <1>2, <1>3, <1>4, <1>5
<1>7. mn = nm
    BY <1>4, <1>5, <1>6, SameCopies
<1> QED
    BY <1>7 DEF m, n, mn, nm

\* A datagram can be taken out before or after a delivery.
LEMMA TakeSwap ==
    ASSUME NEW bag, IsABag(bag), NEW m \in DOMAIN bag, NEW M
    PROVE  Deliver(Take(bag, m), M) = Take(Deliver(bag, M), m)
<1> DEFINE t == Take(bag, m)
           d == Deliver(bag, M)
           td == Deliver(t, M)
           dt == Take(d, m)
<1>1. IsABag(t) /\ \A x : CountIn(x, t) = CountIn(x, bag) - (IF x = m THEN 1 ELSE 0)
    BY CopiesTaken
<1>2. /\ IsABag(d) /\ m \in DOMAIN d
      /\ \A x : CountIn(x, d) =
                 CountIn(x, bag) + (IF x \in M /\ x.to # NoServer THEN 1 ELSE 0)
    BY CopiesDelivered
<1>3. \A x : CountIn(x, bag) \in Nat
    BY DEF IsABag, CountIn
<1> HIDE DEF t, d
<1>4. IsABag(td) /\ \A x : CountIn(x, td) =
                 CountIn(x, t) + (IF x \in M /\ x.to # NoServer THEN 1 ELSE 0)
    BY <1>1, CopiesDelivered
<1>5. IsABag(dt) /\ \A x : CountIn(x, dt) = CountIn(x, d) - (IF x = m THEN 1 ELSE 0)
    BY <1>2, CopiesTaken
<1> HIDE DEF td, dt
<1>6. \A x : CountIn(x, td) = CountIn(x, dt)
    BY <1>1, <1>2, <1>3, <1>4, <1>5
<1>7. td = dt
    BY <1>4, <1>5, <1>6, SameCopies
<1> QED
    BY <1>7 DEF t, d, td, dt

--------------------------------------------------------------------------------
\* Chain's handlers with the update in hand handled to its end.

\* The operators of the handlers look at nothing that is in hand.
LEMMA SameOperators ==
    /\ Handlers!Updates = Updates
    /\ Handlers!NoServer = NoServer
    /\ \A s : Handlers!Bank(s) = Bank(s)
    /\ \A l, q : Handlers!InSent(l, q) = InSent(l, q)
    /\ \A l, q : Handlers!DeleteSent(l, q) = DeleteSent(l, q)
    /\ \A l, q : Handlers!PreSendStatus(l, q) = PreSendStatus(l, q)
    /\ \A p, i, q : Handlers!CheckSameReq(p, i, q) = CheckSameReq(p, i, q)
    /\ \A b, k, j, q : Handlers!ProcessUpdate(b, k, j, q) = ProcessUpdate(b, k, j, q)
    /\ \A b, k, q : Handlers!UpdateBalance(b, k, q) = UpdateBalance(b, k, q)
    /\ \A B, M : Handlers!Deliver(B, M) = Deliver(B, M)
    /\ \A B, m : Handlers!Take(B, m) = Take(B, m)
    /\ \A o, p, q : Handlers!Mail(o, p, q) = Mail(o, p, q)
    /\ \A q, o, k : Handlers!ReplyTo(q, o, k) = ReplyTo(q, o, k)
    /\ \A q : Handlers!Outcome(q) = Outcome(q)
    /\ \A h, q : Handlers!Record(h, q) = Record(h, q)
    /\ \A f, p, q : Handlers!Push(f, p, q) = Push(f, p, q)
    /\ \A f, s : Handlers!Pop(f, s) = Pop(f, s)
    /\ \A s, q : Handlers!PaysAbroad(s, q) = PaysAbroad(s, q)
    /\ \A s, q : Handlers!Receives(s, q) = Receives(s, q)
    /\ \A s : Handlers!Heads(s) = Heads(s)
    /\ \A s : Handlers!Tails(s) = Tails(s)
    /\ \A f, s, q : Handlers!Forward(f, s, q) = Forward(f, s, q)
    /\ \A f, s, q : Handlers!AckToPre(f, s, q) = AckToPre(f, s, q)
    /\ \A s, q : Handlers!ShipTransfer(s, q) = ShipTransfer(s, q)
    /\ \A s, q : Handlers!AckTransfer(s, q) = AckTransfer(s, q)
    /\ \A c : Handlers!Queue(c) = Queue(c)
    /\ \A c, q : Handlers!PortFor(c, q) = PortFor(c, q)
<1>1. Handlers!Updates = Updates
    BY DEF Handlers!Updates, Updates
<1>2. Handlers!NoServer = NoServer
    BY DEF Handlers!NoServer, NoServer
<1>3. \A s : Handlers!Bank(s) = Bank(s)
    BY DEF Handlers!Bank, Bank
<1>4. \A l, q : Handlers!InSent(l, q) = InSent(l, q)
    BY DEF Handlers!InSent, InSent, Handlers!FirstSent, FirstSent, Handlers!SameSent, SameSent,
            Handlers!SelectInSeq, SelectInSeq, Handlers!Min, Min
<1>5. \A l, q : Handlers!DeleteSent(l, q) = DeleteSent(l, q)
    BY DEF Handlers!DeleteSent, DeleteSent, Handlers!SameSent, SameSent,
            Handlers!RemoveFirstMatch, RemoveFirstMatch, Handlers!RemoveAt, RemoveAt,
            Handlers!SelectInSeq, SelectInSeq, Handlers!Min, Min
<1>6. \A l, q : Handlers!PreSendStatus(l, q) = PreSendStatus(l, q)
    BY DEF Handlers!PreSendStatus, PreSendStatus, Handlers!InSent, InSent, Handlers!FirstSent,
            FirstSent, Handlers!SameSent, SameSent, Handlers!SelectInSeq, SelectInSeq,
            Handlers!Min, Min
<1>7. \A p, i, q : Handlers!CheckSameReq(p, i, q) = CheckSameReq(p, i, q)
    BY DEF Handlers!CheckSameReq, CheckSameReq, Handlers!FirstWithId, FirstWithId,
            Handlers!SelectInSeq, SelectInSeq, Handlers!Min, Min, Handlers!SameTransaction,
            SameTransaction
<1>8. \A b, k, j, q : Handlers!ProcessUpdate(b, k, j, q) = ProcessUpdate(b, k, j, q)
    BY DEF Handlers!ProcessUpdate, ProcessUpdate, Handlers!ProcessDeposit, ProcessDeposit,
            Handlers!ProcessWithdraw, ProcessWithdraw, Handlers!ProcessTransfer,
            ProcessTransfer, Handlers!Credit, Credit, Handlers!Debit, Debit
<1>9. \A b, k, q : Handlers!UpdateBalance(b, k, q) = UpdateBalance(b, k, q)
    BY DEF Handlers!UpdateBalance, UpdateBalance, Handlers!Credit, Credit, Handlers!Debit,
            Debit
<1>10. \A B, M : Handlers!Deliver(B, M) = Deliver(B, M)
    BY DEF Handlers!Deliver, Deliver, Handlers!SetToBag, SetToBag, Handlers!(+), (+),
            Handlers!NoServer, NoServer
<1>11. \A B, m : Handlers!Take(B, m) = Take(B, m)
    BY DEF Handlers!Take, Take, Handlers!SetToBag, SetToBag, Handlers!(-), (-)
<1>12. \A o, p, q : Handlers!Mail(o, p, q) = Mail(o, p, q)
    BY DEF Handlers!Mail, Mail
<1>13. \A q, o, k : Handlers!ReplyTo(q, o, k) = ReplyTo(q, o, k)
    BY DEF Handlers!ReplyTo, ReplyTo
<1>14. \A q : Handlers!Outcome(q) = Outcome(q)
    BY DEF Handlers!Outcome, Outcome
<1>15. \A h, q : Handlers!Record(h, q) = Record(h, q)
    BY DEF Handlers!Record, Record
<1>16. \A f, p, q : Handlers!Push(f, p, q) = Push(f, p, q)
    BY DEF Handlers!Push, Push, Handlers!NoServer, NoServer
<1>17. \A f, s : Handlers!Pop(f, s) = Pop(f, s)
    BY DEF Handlers!Pop, Pop
<1>18. \A s, q : Handlers!PaysAbroad(s, q) = PaysAbroad(s, q)
    BY DEF Handlers!PaysAbroad, PaysAbroad, Handlers!Bank, Bank
<1>19. \A s, q : Handlers!Receives(s, q) = Receives(s, q)
    BY DEF Handlers!Receives, Receives, Handlers!Bank, Bank
<1>20. \A s : Handlers!Heads(s) = Heads(s)
    BY DEF Handlers!Heads, Heads
<1>21. \A s : Handlers!Tails(s) = Tails(s)
    BY DEF Handlers!Tails, Tails
<1>22. \A f, s, q : Handlers!Forward(f, s, q) = Forward(f, s, q)
    BY DEF Handlers!Forward, Forward, Handlers!Push, Push, Handlers!NoServer, NoServer
<1>23. \A f, s, q : Handlers!AckToPre(f, s, q) = AckToPre(f, s, q)
    BY DEF Handlers!AckToPre, AckToPre, Handlers!Push, Push, Handlers!NoServer, NoServer
<1>24. \A s, q : Handlers!ShipTransfer(s, q) = ShipTransfer(s, q)
    BY DEF Handlers!ShipTransfer, ShipTransfer, Handlers!HeadOfBank, HeadOfBank, Handlers!Mail,
            Mail, Handlers!NoServer, NoServer
<1>25. \A s, q : Handlers!AckTransfer(s, q) = AckTransfer(s, q)
    BY DEF Handlers!AckTransfer, AckTransfer, Handlers!TailOfBank, TailOfBank, Handlers!Mail,
            Mail, Handlers!NoServer, NoServer
<1>26. \A c : Handlers!Queue(c) = Queue(c)
    BY DEF Handlers!Queue, Queue
<1>27. \A c, q : Handlers!PortFor(c, q) = PortFor(c, q)
    BY DEF Handlers!PortFor, PortFor
<1> QED
    BY <1>1, <1>2, <1>3, <1>4, <1>5, <1>6, <1>7, <1>8, <1>9, <1>10, <1>11, <1>12, <1>13, <1>14,
        <1>15, <1>16, <1>17, <1>18, <1>19, <1>20, <1>21, <1>22, <1>23, <1>24, <1>25, <1>26,
        <1>27

--------------------------------------------------------------------------------
\* delete_sent and the entry in hand.

\* check_in_sent finds the first entry of a name and nothing else.
LEMMA FirstSentIs ==
    ASSUME NEW list \in Seq(Request), NEW q, NEW n \in 1 .. Len(list),
           NameOf(list[n]) = NameOf(q), \A i \in 1 .. n - 1 : NameOf(list[i]) # NameOf(q)
    PROVE  FirstSent(list, q) = n
<1> DEFINE I == {i \in 1 .. Len(list) : SameSent(q, list[i])}
<1>1. FirstSent(list, q) = IF I # {} THEN Min(I) ELSE 0
    BY DEF FirstSent, SelectInSeq
<1>2. n \in I /\ I \in SUBSET Nat
    BY SameSentNames
<1>3. Min(I) \in I /\ \A m \in I : Min(I) <= m
    BY <1>2, MinOfNat
<1>4. Min(I) \in 1 .. Len(list) /\ Min(I) <= n /\ NameOf(list[Min(I)]) = NameOf(q)
    BY <1>2, <1>3, SameSentNames
<1> HIDE DEF I
<1>5. ~(Min(I) < n)
    BY <1>4
<1>6. Len(list) \in Nat
    OBVIOUS
<1> QED
    BY <1>1, <1>2, <1>4, <1>5, <1>6

\* The first entry of a name: no entry in front of it bears it.
LEMMA FirstSentFirst ==
    ASSUME NEW list \in Seq(Request), NEW q, InSent(list, q)
    PROVE  /\ FirstSent(list, q) \in 1 .. Len(list)
           /\ NameOf(list[FirstSent(list, q)]) = NameOf(q)
           /\ \A i \in 1 .. FirstSent(list, q) - 1 : NameOf(list[i]) # NameOf(q)
<1> DEFINE I == {i \in 1 .. Len(list) : SameSent(q, list[i])}
<1>1. FirstSent(list, q) = IF I # {} THEN Min(I) ELSE 0
    BY DEF FirstSent, SelectInSeq
<1>2. I \in SUBSET Nat
    OBVIOUS
<1>3. I # {} /\ FirstSent(list, q) = Min(I)
    BY <1>1 DEF InSent
<1>4. Min(I) \in I /\ \A m \in I : Min(I) <= m
    BY <1>2, <1>3, MinOfNat
<1>5. Min(I) \in 1 .. Len(list) /\ NameOf(list[Min(I)]) = NameOf(q)
    BY <1>4, SameSentNames
<1>6. ASSUME NEW i \in 1 .. Min(I) - 1 PROVE NameOf(list[i]) # NameOf(q)
  <2>1. i \in 1 .. Len(list) /\ i < Min(I)
      BY <1>5
  <2>2. i \notin I
      BY <1>4, <1>5, <2>1
  <2> QED
      BY <2>1, <2>2, SameSentNames
<1> QED
    BY <1>3, <1>5, <1>6

\* What is not the entry deleted stays, and nothing comes to the list.
LEMMA DeleteOther ==
    ASSUME NEW list \in Seq(Request), NEW q, NEW h, NameOf(h) # NameOf(q)
    PROVE  InSent(DeleteSent(list, q), h) <=> InSent(list, h)
<1> DEFINE rest == DeleteSent(list, q)
<1>1. rest \in Seq(Request)
    BY DeleteSentPlace
<1>2. CASE ~InSent(list, q)
    BY <1>2, DeleteSentPlace
<1>3. CASE InSent(list, q)
  <2> DEFINE n == FirstSent(list, q)
  <2>1. /\ n \in 1 .. Len(list) /\ NameOf(list[n]) = NameOf(q)
        /\ Len(rest) = Len(list) - 1 /\ Len(list) \in Nat
        /\ \A i \in 1 .. Len(list) - 1 : rest[i] = IF i < n THEN list[i] ELSE list[i + 1]
    <3>1. /\ n \in 1 .. Len(list) /\ NameOf(list[n]) = NameOf(q)
          /\ Len(rest) = Len(list) - 1
          /\ \A i \in 1 .. Len(list) - 1 : rest[i] = IF i < n THEN list[i] ELSE list[i + 1]
        BY <1>3, DeleteSentPlace
    <3>2. Len(list) \in Nat
        OBVIOUS
    <3> QED
        BY <3>1, <3>2
  <2>2. /\ InSent(list, h) <=> \E i \in 1 .. Len(list) : NameOf(list[i]) = NameOf(h)
        /\ InSent(rest, h) <=> \E i \in 1 .. Len(rest) : NameOf(rest[i]) = NameOf(h)
    <3>1. InSent(list, h) <=> \E i \in 1 .. Len(list) : NameOf(list[i]) = NameOf(h)
        BY InSentNames, NamesOfList
    <3>2. InSent(rest, h) <=> \E i \in 1 .. Len(rest) : NameOf(rest[i]) = NameOf(h)
        BY <1>1, InSentNames, NamesOfList
    <3> QED
        BY <3>1, <3>2
  <2> HIDE DEF n, rest
  <2>3. ASSUME NEW i \in 1 .. Len(list), NameOf(list[i]) = NameOf(h)
        PROVE  \E j \in 1 .. Len(rest) : NameOf(rest[j]) = NameOf(h)
    <3>1. i # n
        BY <2>1, <2>3
    <3>2. CASE i < n
      <4>1. i \in 1 .. Len(list) - 1 /\ rest[i] = list[i]
          BY <2>1, <3>2
      <4> QED
          BY <2>1, <2>3, <4>1
    <3>3. CASE i > n
      <4>1. i - 1 \in 1 .. Len(list) - 1 /\ ~(i - 1 < n) /\ (i - 1) + 1 = i
          BY <2>1, <3>3
      <4>2. rest[i - 1] = list[i]
          BY <2>1, <4>1
      <4> QED
          BY <2>1, <2>3, <4>1, <4>2
    <3> QED
        BY <2>1, <3>1, <3>2, <3>3
  <2>4. ASSUME NEW j \in 1 .. Len(rest), NameOf(rest[j]) = NameOf(h)
        PROVE  \E i \in 1 .. Len(list) : NameOf(list[i]) = NameOf(h)
    <3>1. j \in 1 .. Len(list) /\ j + 1 \in 1 .. Len(list)
        BY <2>1
    <3>2. rest[j] = list[j] \/ rest[j] = list[j + 1]
        BY <2>1
    <3> QED
        BY <2>4, <3>1, <3>2
  <2> QED
      BY <2>2, <2>3, <2>4 DEF rest
<1> QED
    BY <1>2, <1>3

\* An entry appended behind another name does not keep delete_sent from it.
LEMMA DeleteThenAppend ==
    ASSUME NEW list \in Seq(Request), NEW q, NEW h \in Request, NameOf(h) # NameOf(q)
    PROVE  DeleteSent(Append(list, h), q) = Append(DeleteSent(list, q), h)
<1> DEFINE longer == Append(list, h)
           rest == DeleteSent(list, q)
<1>1. /\ longer \in Seq(Request) /\ rest \in Seq(Request) /\ Append(rest, h) \in Seq(Request)
      /\ Len(longer) = Len(list) + 1 /\ Len(list) \in Nat
      /\ \A i \in 1 .. Len(list) : longer[i] = list[i]
      /\ longer[Len(list) + 1] = h
      /\ Names(longer) = Names(list) \cup {NameOf(h)}
  <2>1. rest \in Seq(Request)
      BY DeleteSentPlace
  <2>2. /\ longer \in Seq(Request) /\ Len(longer) = Len(list) + 1
        /\ Names(longer) = Names(list) \cup {NameOf(h)}
      BY NamesAppend
  <2>3. /\ Len(list) \in Nat /\ longer[Len(list) + 1] = h
        /\ \A i \in 1 .. Len(list) : longer[i] = list[i]
      OBVIOUS
  <2>4. Append(rest, h) \in Seq(Request)
      BY <2>1, NamesAppend
  <2> QED
      BY <2>1, <2>2, <2>3, <2>4
<1>2. CASE ~InSent(list, q)
  <2>1. ~InSent(longer, q)
      BY <1>1, <1>2, InSentNames
  <2> QED
      BY <1>1, <1>2, <2>1, DeleteSentPlace
<1>3. CASE InSent(list, q)
  <2> DEFINE n == FirstSent(list, q)
             shorter == DeleteSent(longer, q)
  <2>1. /\ n \in 1 .. Len(list) /\ NameOf(list[n]) = NameOf(q)
        /\ \A i \in 1 .. n - 1 : NameOf(list[i]) # NameOf(q)
      BY <1>3, FirstSentFirst
  <2>2. /\ Len(rest) = Len(list) - 1
        /\ \A i \in 1 .. Len(list) - 1 : rest[i] = IF i < n THEN list[i] ELSE list[i + 1]
      BY <1>3, DeleteSentPlace
  <2> HIDE DEF n, longer
  <2>3. InSent(longer, q)
      BY <1>1, <1>3, InSentNames
  <2>4. FirstSent(longer, q) = n
    <3>1. n \in 1 .. Len(longer) /\ NameOf(longer[n]) = NameOf(q)
        BY <1>1, <2>1
    <3>2. \A i \in 1 .. n - 1 : NameOf(longer[i]) # NameOf(q)
        BY <1>1, <2>1
    <3> QED
        BY <1>1, <3>1, <3>2, FirstSentIs
  <2>5. /\ Len(shorter) = Len(list) /\ shorter \in Seq(Request)
        /\ \A i \in 1 .. Len(list) : shorter[i] = IF i < n THEN longer[i] ELSE longer[i + 1]
    <3>1. shorter \in Seq(Request)
        BY <1>1, DeleteSentPlace
    <3>2. /\ Len(shorter) = Len(longer) - 1
          /\ \A i \in 1 .. Len(longer) - 1 :
                shorter[i] = IF i < n THEN longer[i] ELSE longer[i + 1]
        BY <1>1, <2>3, <2>4, DeleteSentPlace
    <3>3. Len(longer) - 1 = Len(list)
        BY <1>1
    <3> QED
        BY <3>1, <3>2, <3>3
  <2> HIDE DEF rest, shorter
  <2>6. /\ Len(Append(rest, h)) = Len(list)
        /\ \A i \in 1 .. Len(list) - 1 : Append(rest, h)[i] = rest[i]
        /\ Append(rest, h)[Len(list)] = h
      BY <1>1, <2>1, <2>2
  <2>7. ASSUME NEW i \in 1 .. Len(list) PROVE shorter[i] = Append(rest, h)[i]
    <3>1. CASE i < n
      <4>1. i \in 1 .. Len(list) - 1
          BY <1>1, <2>1, <3>1
      <4> QED
          BY <1>1, <2>2, <2>5, <2>6, <3>1, <4>1
    <3>2. CASE i = Len(list)
      <4>1. ~(i < n)
          BY <2>1, <3>2, <1>1
      <4> QED
          BY <1>1, <2>5, <2>6, <3>2, <4>1
    <3>3. CASE ~(i < n) /\ i # Len(list)
      <4>1. i \in 1 .. Len(list) - 1 /\ i + 1 \in 1 .. Len(list)
          BY <1>1, <3>3
      <4> QED
          BY <1>1, <2>2, <2>5, <2>6, <3>3, <4>1
    <3> QED
        BY <3>1, <3>2, <3>3
  <2>8. shorter = Append(rest, h)
      BY <1>1, <2>5, <2>6, <2>7
  <2> QED
      BY <2>8 DEF shorter, rest, longer
<1> QED
    BY <1>2, <1>3

\* Where an entry is after one in front of it, or behind it, is deleted.
LEMMA FirstSentAfter ==
    ASSUME NEW list \in Seq(Request), NEW q, NEW h, NameOf(h) # NameOf(q),
           InSent(list, q), InSent(list, h)
    PROVE  LET n == FirstSent(list, q)
               k == FirstSent(list, h)
           IN  /\ n # k
               /\ FirstSent(DeleteSent(list, q), h) = IF k < n THEN k ELSE k - 1
<1> DEFINE n == FirstSent(list, q)
           k == FirstSent(list, h)
           rest == DeleteSent(list, q)
<1>1. /\ n \in 1 .. Len(list) /\ NameOf(list[n]) = NameOf(q)
      /\ k \in 1 .. Len(list) /\ NameOf(list[k]) = NameOf(h)
      /\ \A i \in 1 .. k - 1 : NameOf(list[i]) # NameOf(h)
    BY FirstSentFirst
<1>2. rest \in Seq(Request) /\ Len(rest) = Len(list) - 1
    BY DeleteSentPlace
<1>3. \A i \in 1 .. Len(list) - 1 : rest[i] = IF i < n THEN list[i] ELSE list[i + 1]
    BY DeleteSentPlace
<1>4. Len(list) \in Nat
    OBVIOUS
<1> HIDE DEF n, k, rest
<1>5. n # k
    BY <1>1
<1>6. CASE k < n
  <2>1. k \in 1 .. Len(rest)
      BY <1>1, <1>2, <1>4, <1>6
  <2>2. \A i \in 1 .. k : rest[i] = list[i]
      BY <1>1, <1>2, <1>3, <1>4, <1>6
  <2>3. NameOf(rest[k]) = NameOf(h)
      BY <1>1, <2>1, <2>2
  <2>4. \A i \in 1 .. k - 1 : NameOf(rest[i]) # NameOf(h)
      BY <1>1, <2>1, <2>2
  <2>5. FirstSent(rest, h) = k
      BY <1>2, <2>1, <2>3, <2>4, FirstSentIs
  <2> QED
      BY <1>5, <1>6, <2>5 DEF rest, n, k
<1>7. CASE ~(k < n)
  <2>0. n < k
      BY <1>1, <1>5, <1>7
  <2>1. k - 1 \in 1 .. Len(rest) /\ k - 1 \in 1 .. Len(list) - 1 /\ ~(k - 1 < n)
      BY <1>1, <1>2, <1>4, <2>0
  <2>2. rest[k - 1] = list[k]
    <3>1. rest[k - 1] = list[(k - 1) + 1]
        BY <1>3, <2>1
    <3>2. (k - 1) + 1 = k
        BY <1>1
    <3> QED
        BY <3>1, <3>2
  <2>3. ASSUME NEW i \in 1 .. (k - 1) - 1 PROVE NameOf(rest[i]) # NameOf(h)
    <3>1. /\ i \in 1 .. Len(list) - 1
          /\ i \in 1 .. k - 1 /\ i + 1 \in 1 .. k - 1
        BY <1>1, <1>4
    <3>2. rest[i] = list[i] \/ rest[i] = list[i + 1]
        BY <1>3, <3>1
    <3> QED
        BY <1>1, <3>1, <3>2
  <2>4. FirstSent(rest, h) = k - 1
      BY <1>1, <1>2, <2>1, <2>2, <2>3, FirstSentIs
  <2> QED
      BY <1>5, <1>7, <2>4 DEF rest, n, k
<1> QED
    BY <1>6, <1>7

\* Two entries of one list are deleted in either order.
LEMMA DeleteBoth ==
    ASSUME NEW list \in Seq(Request), NEW q, NEW h
    PROVE  DeleteSent(DeleteSent(list, q), h) = DeleteSent(DeleteSent(list, h), q)
<1> DEFINE lq == DeleteSent(list, q)
           lh == DeleteSent(list, h)
<1>0. lq \in Seq(Request) /\ lh \in Seq(Request)
    BY DeleteSentPlace
<1>1. CASE NameOf(q) = NameOf(h)
  <2>1. \A e : SameSent(q, e) <=> SameSent(h, e)
      BY <1>1, SameSentNames
  <2>2. \A l : DeleteSent(l, q) = DeleteSent(l, h)
    <3>1. ASSUME NEW l PROVE FirstSent(l, q) = FirstSent(l, h)
        BY <2>1 DEF FirstSent, SelectInSeq
    <3> QED
        BY <2>1, <3>1 DEF DeleteSent, RemoveFirstMatch, FirstSent
  <2> QED
      BY <2>2
<1>2. CASE NameOf(q) # NameOf(h) /\ ~InSent(list, q)
  <2>1. lq = list /\ ~InSent(lh, q)
      BY <1>2, DeleteSentPlace, DeleteOther
  <2> QED
      BY <1>0, <2>1, DeleteSentPlace
<1>3. CASE NameOf(q) # NameOf(h) /\ ~InSent(list, h)
  <2>1. lh = list /\ ~InSent(lq, h)
      BY <1>3, DeleteSentPlace, DeleteOther
  <2> QED
      BY <1>0, <2>1, DeleteSentPlace
<1>4. CASE NameOf(q) # NameOf(h) /\ InSent(list, q) /\ InSent(list, h)
  <2> DEFINE n == FirstSent(list, q)
             k == FirstSent(list, h)
             both == DeleteSent(lq, h)
             htob == DeleteSent(lh, q)
  <2>1. InSent(lq, h) /\ InSent(lh, q)
      BY <1>4, DeleteOther
  <2>2. /\ n # k
        /\ FirstSent(lq, h) = IF k < n THEN k ELSE k - 1
        /\ FirstSent(lh, q) = IF n < k THEN n ELSE n - 1
      BY <1>4, FirstSentAfter
  <2>3. /\ n \in 1 .. Len(list) /\ Len(lq) = Len(list) - 1
        /\ \A i \in 1 .. Len(list) - 1 : lq[i] = IF i < n THEN list[i] ELSE list[i + 1]
      BY <1>4, DeleteSentPlace
  <2>4. /\ k \in 1 .. Len(list) /\ Len(lh) = Len(list) - 1
        /\ \A i \in 1 .. Len(list) - 1 : lh[i] = IF i < k THEN list[i] ELSE list[i + 1]
      BY <1>4, DeleteSentPlace
  <2>5. Len(list) \in Nat
      OBVIOUS
  <2> DEFINE kk == FirstSent(lq, h)
             nn == FirstSent(lh, q)
  <2>6. /\ both \in Seq(Request) /\ Len(both) = Len(lq) - 1
        /\ \A i \in 1 .. Len(lq) - 1 : both[i] = IF i < kk THEN lq[i] ELSE lq[i + 1]
      BY <1>0, <2>1, DeleteSentPlace
  <2>7. /\ htob \in Seq(Request) /\ Len(htob) = Len(lh) - 1
        /\ \A i \in 1 .. Len(lh) - 1 : htob[i] = IF i < nn THEN lh[i] ELSE lh[i + 1]
      BY <1>0, <2>1, DeleteSentPlace
  <2> HIDE DEF n, k, both, htob, kk, nn, lq, lh
  <2>8. kk = (IF k < n THEN k ELSE k - 1) /\ nn = (IF n < k THEN n ELSE n - 1)
      BY <2>2 DEF kk, nn
  <2>9. ASSUME NEW i \in 1 .. Len(list) - 2 PROVE both[i] = htob[i]
    <3>1. /\ i \in 1 .. Len(list) - 1 /\ i + 1 \in 1 .. Len(list) - 1
          /\ i \in 1 .. Len(lq) - 1 /\ i \in 1 .. Len(lh) - 1
        BY <2>3, <2>4, <2>5
    <3>2. /\ lq[i] = (IF i < n THEN list[i] ELSE list[i + 1])
          /\ lq[i + 1] = (IF i + 1 < n THEN list[i + 1] ELSE list[(i + 1) + 1])
          /\ lh[i] = (IF i < k THEN list[i] ELSE list[i + 1])
          /\ lh[i + 1] = (IF i + 1 < k THEN list[i + 1] ELSE list[(i + 1) + 1])
        BY <2>3, <2>4, <3>1
    <3>3. /\ both[i] = (IF i < kk THEN lq[i] ELSE lq[i + 1])
          /\ htob[i] = (IF i < nn THEN lh[i] ELSE lh[i + 1])
        BY <2>6, <2>7, <3>1
    <3>4. n \in Int /\ k \in Int /\ i \in Int
        BY <2>3, <2>4
    <3>5. CASE k < n
        BY <2>8, <3>2, <3>3, <3>4, <3>5
    <3>6. CASE n < k
        BY <2>8, <3>2, <3>3, <3>4, <3>6
    <3> QED
        BY <2>2, <3>4, <3>5, <3>6
  <2>10. Len(both) = Len(list) - 2 /\ Len(htob) = Len(list) - 2
      BY <2>3, <2>4, <2>5, <2>6, <2>7
  <2>11. both = htob
    <3>1. both \in Seq(Request) /\ htob \in Seq(Request) /\ Len(both) = Len(htob)
        BY <2>6, <2>7, <2>10
    <3>2. \A i \in 1 .. Len(both) : both[i] = htob[i]
        BY <2>9, <2>10
    <3> QED
        BY <3>1, <3>2
  <2> QED
      BY <2>11 DEF both, htob, lq, lh
<1> QED
    BY <1>1, <1>2, <1>3, <1>4

--------------------------------------------------------------------------------
\* The state in which every handler is at its end.

\* Without resends rec_client has only updates in hand that it reads for the first
\* time, and until they are listed their names are in no entry of `sent`.
HandFresh ==
    \A s \in Servers : hand[s] # Idler =>
       /\ hand[s].at # "status"
       /\ hand[s].at = "list" => ~InSent(sent[s], hand[s].req)
       /\ hand[s].req \in Reached(Bank(s)) /\ hand[s].req.type \in Updates

\* A bag of datagrams in which every acknowledgement is of a transfer to a bank.
Orderly(bag) ==
    /\ IsABag(bag)
    /\ \A m \in DOMAIN bag : m.op = "TRANS_ACK" => m.req.dest_bank_id \in Banks

\* What rec_client has in hand, and the network.
HandInvariant ==
    /\ ThreadInvariant
    /\ HandFresh
    /\ Orderly(to_server) /\ IsABag(to_client)

\* What the theorems about Chain promise of that state: every datagram is the right
\* bank's, a transfer that is still to be read is in no entry of `sent` and in no
\* acknowledgement, and no update is acknowledged to a server before its successor
\* has read it.
EndPromises ==
    /\ \A m \in DOMAIN EndToServer : RightMail(m)
    /\ \A m \in DOMAIN EndToServer :
          m.op = "REQUEST" => /\ m.to \in Servers
                              /\ NameOf(m.req) \notin Names(EndSent[m.to])
    /\ \A m, x \in DOMAIN EndToServer :
          m.op = "TRANS_ACK" /\ x.op = "REQUEST" => NameOf(m.req) # NameOf(x.req)
    /\ \A e \in Neighbours :
          Names(Carried(EndFromPre[e[2]])) \cap Names(from_next[e[1]]) = {}
    /\ \A s \in Servers : IsLast(s) => from_next[s] = <<>>
    /\ \A m \in DOMAIN EndToServer : m \in Mails

\* What every step of a thread may start from.
AtomicPremise == HandInvariant /\ EndPromises

\* What leaves the heads with the updates in hand.
LettersToLeave == UNION {LeavingFor(s, hand[s].req) : s \in Passing}

RepliesToLeave == UNION {RepliesLeaving(s, hand[s].req) : s \in Passing}

\* The servers into whose stream an update in hand goes.
Fed == {t \in Servers : ~IsFirst(t) /\ hand[Prev1(t)] # Idler}

\* What is known of every server and of the network.
LEMMA FrameOfHands ==
    ASSUME HandInvariant
    PROVE  /\ TopologyInit
           /\ from_pre \in [Servers -> Seq(Forwards)]
           /\ sent \in [Servers -> Seq(Request)]
           /\ processed_trans \in [Servers -> Seq(Request)]
           /\ from_next \in [Servers -> Seq(Request)]
           /\ balance_map \in [Servers -> [Accounts -> Int]]
           /\ DOMAIN to_server \subseteq Mails
           /\ \A s \in Servers : Heads(s) => from_pre[s] = <<>>
           /\ EndToServer = Deliver(to_server, LettersToLeave)
           /\ EndToClient = Deliver(to_client, RepliesToLeave)
           /\ hand \in [Servers -> {Idler} \cup Hands]
<1>1. /\ TopologyInit /\ ServerTypeOK /\ HeadsReadNoStream
      /\ hand \in [Servers -> {Idler} \cup Hands]
    BY DEF HandInvariant, ThreadInvariant, HeadFrame, TypeOK
<1> QED
    BY <1>1 DEF ServerTypeOK, HeadsReadNoStream, EndToServer, EndToClient, LettersToLeave,
                RepliesToLeave

\* A server that has nothing in hand is as it is, another is a head at its work.
LEMMA HandTells ==
    ASSUME HandInvariant, NEW s \in Servers
    PROVE  /\ hand[s] = Idler => /\ s \notin Passing /\ ~ToList(s) /\ ~ToPass(s)
                                 /\ EndSent[s] = sent[s]
                                 /\ EndProcessed[s] = processed_trans[s]
           /\ hand[s] # Idler => /\ s \in Passing /\ Heads(s) /\ ToPass(s)
                                 /\ InHand(s, "list") \/ InHand(s, "pass")
                                 /\ hand[s] \in Hands /\ hand[s].req \in Request
                                 /\ hand[s].req \in Reached(Bank(s))
                                 /\ hand[s].req.type \in Updates
           /\ ToList(s) <=> InHand(s, "list")
           /\ InHand(s, "waiting") <=> hand[s] = Idler
           /\ ~InHand(s, "status")
           /\ EndSent[s] = IF ToPass(s) /\ Closes(s, hand[s].req)
                           THEN DeleteSent(ListedSent(s), hand[s].req) ELSE ListedSent(s)
<1>1. hand[s] \in {Idler} \cup Hands /\ (hand[s] # Idler => Heads(s))
    BY DEF HandInvariant, ThreadInvariant
<1>2. CASE hand[s] = Idler
  <2>1. /\ hand[s].at = "waiting" /\ ~InHand(s, "list") /\ ~InHand(s, "pass")
        /\ InHand(s, "waiting") /\ ~InHand(s, "status")
      BY <1>2 DEF Idler, InHand
  <2>2. ~ToList(s) /\ ~ToPass(s)
      BY <2>1 DEF ToList, ToPass
  <2> QED
      BY <1>2, <2>1, <2>2 DEF Passing, EndSent, EndProcessed, ListedSent
<1>3. CASE hand[s] # Idler
  <2>1. hand[s] \in Hands /\ hand[s].req \in Request
      BY <1>1, <1>3 DEF Hands, OwnRequests
  <2>2. /\ hand[s].at # "status" /\ hand[s].req.type \in Updates
        /\ hand[s].at = "list" => ~InSent(sent[s], hand[s].req)
        /\ hand[s].req \in Reached(Bank(s))
      BY <1>3 DEF HandInvariant, HandFresh
  <2>3. hand[s].at \in {"list", "pass"}
      BY <2>1, <2>2 DEF Hands
  <2>4. /\ InHand(s, "list") \/ InHand(s, "pass")
        /\ ToPass(s)
        /\ ToList(s) <=> InHand(s, "list")
        /\ ~InHand(s, "waiting") /\ ~InHand(s, "status")
      BY <2>2, <2>3 DEF ToPass, ToList, InHand
  <2> QED
      BY <1>1, <1>3, <2>1, <2>2, <2>4 DEF Passing, EndSent, ToPass
<1> QED
    BY <1>2, <1>3

\* The server in front of one that is not a head.
LEMMA InFront ==
    ASSUME TopologyInit, NEW t \in Servers, ~IsFirst(t)
    PROVE  /\ Prev1(t) \in Servers /\ pre_fd[t] = Prev1(t) /\ Next1(Prev1(t)) = t
           /\ Prev1(t) # t /\ Bank(Prev1(t)) = Bank(t)
           /\ my_type[Prev1(t)] \in {"HEAD", "INTER"}
           /\ next_fd[Prev1(t)] = t
           /\ <<Prev1(t), t>> \in Neighbours
           /\ t # NoServer
<1>1. /\ Prev1(t) \in Servers /\ pre_fd[t] = Prev1(t) /\ Next1(Prev1(t)) = t
      /\ Prev1(t) # t /\ Bank(Prev1(t)) = Bank(t) /\ t # NoServer
    BY Places
<1>2. <<Prev1(t), t>> \in Neighbours
    BY <1>1 DEF Neighbours
<1>3. my_type[Prev1(t)] \in {"HEAD", "INTER"}
    BY <1>2, NeighbourPair
<1>4. next_fd[Prev1(t)] = Next1(Prev1(t))
    BY <1>1, <1>3, Places
<1> QED
    BY <1>1, <1>2, <1>3, <1>4

\* The streams with the updates in hand behind what they carry.
LEMMA StreamsTell ==
    ASSUME HandInvariant
    PROVE  EndFromPre = [t \in Servers |->
              IF t \in Fed THEN Append(from_pre[t], Forwarding(hand[Prev1(t)].req))
              ELSE from_pre[t]]
<1>0. TopologyInit /\ from_pre \in [Servers -> Seq(Forwards)]
    BY FrameOfHands
<1>1. ASSUME NEW t \in Servers, t \in Fed
      PROVE  /\ pre_fd[t] \in Passing /\ my_type[pre_fd[t]] = "HEAD"
             /\ Forward(from_pre, pre_fd[t], hand[pre_fd[t]].req)[t] =
                   Append(from_pre[t], Forwarding(hand[Prev1(t)].req))
  <2>1. ~IsFirst(t) /\ hand[Prev1(t)] # Idler
      BY <1>1 DEF Fed
  <2>2. /\ Prev1(t) \in Servers /\ pre_fd[t] = Prev1(t) /\ next_fd[Prev1(t)] = t
        /\ my_type[Prev1(t)] \in {"HEAD", "INTER"} /\ t # NoServer
      BY <1>0, <2>1, InFront
  <2>3. Prev1(t) \in Passing /\ Heads(Prev1(t))
      BY <2>1, <2>2, HandTells
  <2>4. my_type[Prev1(t)] = "HEAD"
      BY <2>2, <2>3 DEF Heads
  <2> QED
      BY <1>0, <2>2, <2>3, <2>4 DEF Forward, Push, Forwarding
<1>2. ASSUME NEW t \in Servers, t \notin Fed
      PROVE  ~(pre_fd[t] \in Passing /\ my_type[pre_fd[t]] = "HEAD")
  <2>1. CASE IsFirst(t)
    <3>1. pre_fd[t] = NoServer
        BY <1>0, <2>1 DEF TopologyInit
    <3>2. NoServer \notin Servers
        BY <1>0, Places
    <3> QED
        BY <3>1, <3>2 DEF Passing
  <2>2. CASE ~IsFirst(t)
    <3>1. Prev1(t) \in Servers /\ pre_fd[t] = Prev1(t)
        BY <1>0, <2>2, InFront
    <3>2. hand[Prev1(t)] = Idler
        BY <1>2, <2>2 DEF Fed
    <3> QED
        BY <3>1, <3>2, HandTells
  <2> QED
      BY <2>1, <2>2
<1> QED
    BY <1>1, <1>2 DEF EndFromPre

\* What leaves the heads other than s.
OtherLetters(s) == UNION {LeavingFor(t, hand[t].req) : t \in Passing \ {s}}

OtherReplies(s) == UNION {RepliesLeaving(t, hand[t].req) : t \in Passing \ {s}}

\* What a head sends at the end of rec_client tells its bank: requests and replies
\* are those of the bank's own clients, acknowledgements those of its payees.
LEMMA LeavingTells ==
    ASSUME NEW s, NEW q \in Reached(Bank(s)), q.type \in Updates
    PROVE  /\ \A x \in LeavingFor(s, q) :
                 \/ x.op = "REQUEST" /\ BankOf[x.req.client_port] = Bank(s)
                 \/ x.op = "TRANS_ACK" /\ x.req.dest_bank_id = Bank(s)
           /\ \A x \in RepliesLeaving(s, q) : BankOf[x.to] = Bank(s)
           /\ ~Receives(s, q) => BankOf[q.client_port] = Bank(s)
<1>1. ~Receives(s, q) => BankOf[q.client_port] = Bank(s)
    BY DEF Reached, Receives
<1>2. ASSUME NEW x \in LeavingFor(s, q)
      PROVE  \/ x.op = "REQUEST" /\ BankOf[x.req.client_port] = Bank(s)
             \/ x.op = "TRANS_ACK" /\ x.req.dest_bank_id = Bank(s)
  <2>1. CASE Ships(s, q)
    <3>1. x.op = "REQUEST" /\ x.req = q /\ ~Receives(s, q)
        BY <1>2, <2>1 DEF LeavingFor, ShipTransfer, Mail, Ships, PaysAbroad, Receives
    <3> QED
        BY <1>1, <3>1
  <2>2. CASE ~Ships(s, q) /\ Closes(s, q) /\ Receives(s, q)
      BY <1>2, <2>2 DEF LeavingFor, AckTransfer, Mail, Receives
  <2>3. CASE ~Ships(s, q) /\ ~(Closes(s, q) /\ Receives(s, q))
      BY <1>2, <2>3 DEF LeavingFor
  <2> QED
      BY <2>1, <2>2, <2>3
<1>3. ASSUME NEW x \in RepliesLeaving(s, q) PROVE BankOf[x.to] = Bank(s)
  <2>1. ~Receives(s, q) /\ x.to = q.client_port
      BY <1>3 DEF RepliesLeaving, ReplyTo
  <2> QED
      BY <1>1, <2>1
<1> QED
    BY <1>1, <1>2, <1>3

\* What leaves one head and what leaves the others are different datagrams.
LEMMA LeavingApart ==
    ASSUME HandInvariant, NEW s \in Servers
    PROVE  /\ hand[s] = Idler => /\ LettersToLeave = OtherLetters(s)
                                 /\ RepliesToLeave = OtherReplies(s)
           /\ hand[s] # Idler =>
                 /\ LettersToLeave = LeavingFor(s, hand[s].req) \cup OtherLetters(s)
                 /\ RepliesToLeave = RepliesLeaving(s, hand[s].req) \cup OtherReplies(s)
           /\ Heads(s) =>
                 /\ \A q \in Reached(Bank(s)) : q.type \in Updates =>
                       LeavingFor(s, q) \cap OtherLetters(s) = {}
                 /\ \A x \in OtherReplies(s) : BankOf[x.to] # Bank(s)
<1>0. TopologyInit
    BY FrameOfHands
<1>1. hand[s] = Idler => s \notin Passing
    BY HandTells
<1>2. hand[s] # Idler => s \in Passing
    BY HandTells
<1>3. ASSUME NEW t \in Passing \ {s}, Heads(s)
      PROVE  /\ t \in Servers /\ Bank(t) # Bank(s)
             /\ hand[t].req \in Reached(Bank(t)) /\ hand[t].req.type \in Updates
  <2>1. t \in Servers /\ hand[t] # Idler
    <3>1. t \in Servers
        BY DEF Passing
    <3> QED
        BY <3>1, HandTells
  <2>2. Heads(t) /\ hand[t].req \in Reached(Bank(t)) /\ hand[t].req.type \in Updates
      BY <2>1, HandTells
  <2>3. IsFirst(t) /\ IsFirst(s)
      BY <1>0, <1>3, <2>1, <2>2, Places
  <2> QED
      BY <2>1, <2>2, <2>3 DEF IsFirst
<1>4. ASSUME Heads(s), NEW q \in Reached(Bank(s)), q.type \in Updates,
             NEW x \in LeavingFor(s, q), x \in OtherLetters(s)
      PROVE  FALSE
  <2>1. PICK t \in Passing \ {s} : x \in LeavingFor(t, hand[t].req)
      BY <1>4 DEF OtherLetters
  <2>2. /\ t \in Servers /\ Bank(t) # Bank(s)
        /\ hand[t].req \in Reached(Bank(t)) /\ hand[t].req.type \in Updates
      BY <1>3, <1>4
  <2>3. \/ x.op = "REQUEST" /\ BankOf[x.req.client_port] = Bank(s)
        \/ x.op = "TRANS_ACK" /\ x.req.dest_bank_id = Bank(s)
      BY <1>4, LeavingTells
  <2>4. \/ x.op = "REQUEST" /\ BankOf[x.req.client_port] = Bank(t)
        \/ x.op = "TRANS_ACK" /\ x.req.dest_bank_id = Bank(t)
      BY <2>1, <2>2, LeavingTells
  <2> QED
      BY <2>2, <2>3, <2>4
<1>5. ASSUME Heads(s), NEW x \in OtherReplies(s) PROVE BankOf[x.to] # Bank(s)
  <2>1. PICK t \in Passing \ {s} : x \in RepliesLeaving(t, hand[t].req)
      BY <1>5 DEF OtherReplies
  <2>2. /\ t \in Servers /\ Bank(t) # Bank(s)
        /\ hand[t].req \in Reached(Bank(t)) /\ hand[t].req.type \in Updates
      BY <1>3, <1>5
  <2>3. BankOf[x.to] = Bank(t)
      BY <2>1, <2>2, LeavingTells
  <2> QED
      BY <2>2, <2>3
<1>6. hand[s] = Idler => /\ LettersToLeave = OtherLetters(s)
                         /\ RepliesToLeave = OtherReplies(s)
    BY <1>1 DEF LettersToLeave, OtherLetters, RepliesToLeave, OtherReplies
<1>7. hand[s] # Idler =>
         /\ LettersToLeave = LeavingFor(s, hand[s].req) \cup OtherLetters(s)
         /\ RepliesToLeave = RepliesLeaving(s, hand[s].req) \cup OtherReplies(s)
    BY <1>2 DEF LettersToLeave, OtherLetters, RepliesToLeave, OtherReplies
<1> QED
    BY <1>4, <1>5, <1>6, <1>7

\* A step of one server leaves alone what the others have in hand.
LEMMA OthersRest ==
    ASSUME NEW s \in Servers, UNCHANGED topology,
           \A t \in Servers \ {s} : /\ hand'[t] = hand[t] /\ sent'[t] = sent[t]
                                    /\ processed_trans'[t] = processed_trans[t]
                                    /\ balance_map'[t] = balance_map[t]
    PROVE  /\ OtherLetters(s)' = OtherLetters(s)
           /\ OtherReplies(s)' = OtherReplies(s)
           /\ \A t \in Servers \ {s} : /\ EndSent'[t] = EndSent[t]
                                       /\ EndProcessed'[t] = EndProcessed[t]
<1>1. \A t, q : /\ LeavingFor(t, q)' = LeavingFor(t, q)
                /\ Closes(t, q)' <=> Closes(t, q)
    BY DEF LeavingFor, Ships, Closes, ShipTransfer, AckTransfer, HeadOfBank, TailOfBank, topology
<1>2. \A q : \A t \in Servers \ {s} : RepliesLeaving(t, q)' = RepliesLeaving(t, q)
    BY <1>1 DEF RepliesLeaving
<1>3. \A t \in Servers \ {s} : /\ InHand(t, "list")' <=> InHand(t, "list")
                               /\ InHand(t, "pass")' <=> InHand(t, "pass")
    BY DEF InHand
<1>4. \A t \in Servers \ {s} : (ToList(t)' <=> ToList(t)) /\ (ToPass(t)' <=> ToPass(t))
    BY <1>3 DEF ToList, ToPass
<1>5. (Passing \ {s})' = Passing \ {s}
    BY <1>4 DEF Passing
<1>6. OtherLetters(s)' = OtherLetters(s)
  <2>1. \A t \in Passing \ {s} : LeavingFor(t, hand[t].req)' = LeavingFor(t, hand[t].req)
      BY <1>1 DEF Passing
  <2> QED
      BY <1>5, <2>1 DEF OtherLetters
<1>7. OtherReplies(s)' = OtherReplies(s)
  <2>1. \A t \in Passing \ {s} : RepliesLeaving(t, hand[t].req)' = RepliesLeaving(t, hand[t].req)
      BY <1>2 DEF Passing
  <2> QED
      BY <1>5, <2>1 DEF OtherReplies
<1>8. \A t \in Servers \ {s} : ListedSent(t)' = ListedSent(t)
    BY <1>4 DEF ListedSent
<1>9. \A t \in Servers \ {s} : EndSent'[t] = EndSent[t] /\ EndProcessed'[t] = EndProcessed[t]
    BY <1>1, <1>4, <1>8 DEF EndSent, EndProcessed
<1> QED
    BY <1>6, <1>7, <1>9

\* Deliveries and receipts keep a bag orderly.
LEMMA OrderlyDeliver ==
    ASSUME NEW bag, Orderly(bag), NEW mails,
           \A x \in mails : x.op = "TRANS_ACK" => x.req.dest_bank_id \in Banks
    PROVE  Orderly(Deliver(bag, mails))
<1>1. IsABag(Deliver(bag, mails))
    BY CopiesDelivered DEF Orderly
<1>2. DOMAIN Deliver(bag, mails) \subseteq DOMAIN bag \cup mails
    BY DeliverProperty
<1> QED
    BY <1>1, <1>2 DEF Orderly

LEMMA OrderlyTake ==
    ASSUME NEW bag, Orderly(bag), NEW m \in DOMAIN bag
    PROVE  Orderly(Take(bag, m))
<1>1. IsABag(Take(bag, m))
    BY CopiesTaken DEF Orderly
<1>2. DOMAIN Take(bag, m) \subseteq DOMAIN bag
    BY TakeProperty
<1> QED
    BY <1>1, <1>2 DEF Orderly

\* What a server has in hand, and what that makes of the state at the end.
AtWork(s) ==
    /\ hand[s] = Idler => /\ s \notin Passing /\ ~ToList(s) /\ ~ToPass(s)
                          /\ EndSent[s] = sent[s]
                          /\ EndProcessed[s] = processed_trans[s]
    /\ hand[s] # Idler => /\ s \in Passing /\ Heads(s) /\ ToPass(s)
                          /\ InHand(s, "list") \/ InHand(s, "pass")
    /\ ToList(s) <=> InHand(s, "list")

StreamsAtEnd ==
    EndFromPre = [t \in Servers |->
       IF t \in Fed THEN Append(from_pre[t], Forwarding(hand[Prev1(t)].req))
       ELSE from_pre[t]]

\* The state at the end, read off the state and the updates in hand.
EndTold ==
    /\ \A s \in Servers : AtWork(s)
    /\ StreamsAtEnd
    /\ EndToServer = Deliver(to_server, LettersToLeave)
    /\ EndToClient = Deliver(to_client, RepliesToLeave)
    /\ \A s \in Servers : /\ hand[s] = Idler => LettersToLeave = OtherLetters(s)
                          /\ hand[s] = Idler => RepliesToLeave = OtherReplies(s)
                          /\ hand[s] # Idler => LettersToLeave =
                                LeavingFor(s, hand[s].req) \cup OtherLetters(s)
                          /\ hand[s] # Idler => RepliesToLeave =
                                RepliesLeaving(s, hand[s].req) \cup OtherReplies(s)

LEMMA EndTells == HandInvariant => EndTold
<1> SUFFICES ASSUME HandInvariant PROVE EndTold
    OBVIOUS
<1>1. \A s \in Servers : AtWork(s)
    BY HandTells DEF AtWork
<1>2. StreamsAtEnd
    BY StreamsTell DEF StreamsAtEnd
<1>3. /\ EndToServer = Deliver(to_server, LettersToLeave)
      /\ EndToClient = Deliver(to_client, RepliesToLeave)
    BY FrameOfHands
<1>4. \A s \in Servers : /\ hand[s] = Idler => LettersToLeave = OtherLetters(s)
                         /\ hand[s] = Idler => RepliesToLeave = OtherReplies(s)
                         /\ hand[s] # Idler => LettersToLeave =
                               LeavingFor(s, hand[s].req) \cup OtherLetters(s)
                         /\ hand[s] # Idler => RepliesToLeave =
                               RepliesLeaving(s, hand[s].req) \cup OtherReplies(s)
    BY LeavingApart
<1> QED
    BY <1>1, <1>2, <1>3, <1>4 DEF EndTold

\* The same of the state after a step.
LEMMA EndTellsAfter ==
    ASSUME HandInvariant'
    PROVE  EndTold'
<1>1. (HandInvariant => EndTold)'
    BY EndTells, PTL
<1> QED
    BY <1>1

--------------------------------------------------------------------------------
\* The steps of rec_client that only carry on with what is in hand.

\* A step that changes neither the streams nor who has what in hand.
LEMMA StreamsRest ==
    ASSUME HandInvariant, HandInvariant', from_pre' = from_pre,
           \A p \in Servers : /\ hand'[p] = Idler <=> hand[p] = Idler
                              /\ hand[p] # Idler => hand'[p].req = hand[p].req
    PROVE  EndFromPre' = EndFromPre
<1>0. TopologyInit /\ StreamsAtEnd /\ StreamsAtEnd'
    BY FrameOfHands, EndTells, EndTellsAfter DEF EndTold
<1>1. \A t \in Servers : ~IsFirst(t) => Prev1(t) \in Servers
    BY <1>0, InFront
<1>2. \A t \in Servers : t \in Fed' <=> t \in Fed
    BY <1>1 DEF Fed
<1>3. \A t \in Fed : hand'[Prev1(t)].req = hand[Prev1(t)].req
    BY <1>1 DEF Fed
<1> QED
    BY <1>0, <1>2, <1>3 DEF StreamsAtEnd

\* Nothing but what the processes share at the end of their handlers matters.
LEMMA HandlersStutter ==
    ASSUME UNCHANGED <<topology, req_seq, last_received_id, balance_map, insuf_funds_trans,
                       from_next, clientState>>,
           \A t \in Servers : EndSent'[t] = EndSent[t] /\ EndProcessed'[t] = EndProcessed[t],
           EndFromPre' = EndFromPre, EndToServer' = EndToServer, EndToClient' = EndToClient
    PROVE  UNCHANGED Handlers!vars
<1>1. EndSent' = EndSent
    BY DEF EndSent
<1>2. EndProcessed' = EndProcessed
    BY DEF EndProcessed
<1> QED
    BY <1>1, <1>2 DEF Handlers!vars, Handlers!serverState, Handlers!topology, Handlers!network,
                      Handlers!clientState, topology, clientState

\* The second check_in_sent finds nothing, and the update is listed.
LEMMA ListStutters ==
    ASSUME AtomicPremise, NEW s \in Servers, List(s)
    PROVE  HandInvariant' /\ UNCHANGED Handlers!vars
<1> SUFFICES ASSUME NEW q, q = hand[s].req
             PROVE  HandInvariant' /\ UNCHANGED Handlers!vars
    OBVIOUS
<1>0. HandInvariant
    BY DEF AtomicPremise
<1>1. hand[s] # Idler /\ InHand(s, "list") /\ hand \in [Servers -> {Idler} \cup Hands]
    BY <1>0, FrameOfHands DEF List, InHand, Idler
<1>2. /\ ~InSent(sent[s], q) /\ q \in Reached(Bank(s)) /\ q.type \in Updates
      /\ q \in Request
    BY <1>0, <1>1, HandTells DEF HandInvariant, HandFresh, InHand
<1>3. /\ hand' = [hand EXCEPT ![s] = [at |-> "pass", req |-> q]]
      /\ sent' = [sent EXCEPT ![s] = Append(@, q)]
      /\ processed_trans' = IF q.status = "Need"
                            THEN [processed_trans EXCEPT ![s] = Record(@, q)]
                            ELSE processed_trans
    BY <1>2 DEF List, Proceed, After
<1>4. /\ sent \in [Servers -> Seq(Request)] /\ processed_trans \in [Servers -> Seq(Request)]
      /\ TopologyInit
    BY <1>0, FrameOfHands
<1>5. /\ hand'[s] = [at |-> "pass", req |-> q] /\ hand'[s] # Idler /\ sent'[s] = Append(sent[s], q)
      /\ \A t \in Servers \ {s} : /\ hand'[t] = hand[t] /\ sent'[t] = sent[t]
                                  /\ processed_trans'[t] = processed_trans[t]
    BY <1>1, <1>3, <1>4 DEF Idler
<1>6. HandInvariant'
  <2>1. ThreadInvariant'
      BY <1>0, ListKeeps DEF HandInvariant
  <2>2. HandFresh'
      BY <1>0, <1>2, <1>5 DEF HandInvariant, HandFresh
  <2>3. to_server' = to_server /\ to_client' = to_client
      BY DEF List, network
  <2> QED
      BY <1>0, <2>1, <2>2, <2>3 DEF HandInvariant, Orderly
<1>7. /\ EndFromPre' = EndFromPre
      /\ UNCHANGED <<topology, req_seq, last_received_id, balance_map, insuf_funds_trans,
                     from_next, clientState, network>>
  <2>1. UNCHANGED <<topology, req_seq, last_received_id, balance_map, insuf_funds_trans,
                    from_pre, from_next, clientState, network>>
      BY DEF List
  <2> QED
      BY <1>0, <1>1, <1>5, <1>6, <2>1, StreamsRest
<1>8. /\ OtherLetters(s)' = OtherLetters(s) /\ OtherReplies(s)' = OtherReplies(s)
      /\ \A t \in Servers \ {s} : EndSent'[t] = EndSent[t] /\ EndProcessed'[t] = EndProcessed[t]
    BY <1>5, <1>7, OthersRest
<1>9. EndSent'[s] = EndSent[s] /\ EndProcessed'[s] = EndProcessed[s]
  <2>1. /\ ToList(s) /\ ToPass(s) /\ ~ToList(s)' /\ ToPass(s)'
      BY <1>0, <1>1, <1>5, HandTells DEF ToList, ToPass, InHand
  <2>2. Closes(s, q)' <=> Closes(s, q)
      BY <1>7 DEF Closes, topology
  <2>3. EndSent'[s] = EndSent[s]
    <3>1. hand'[s].req = q
        BY <1>5
    <3>2. ListedSent(s)' = Append(sent[s], q) /\ ListedSent(s) = Append(sent[s], q)
        BY <1>5, <2>1 DEF ListedSent
    <3>3. EndSent[s] = IF Closes(s, q) THEN DeleteSent(ListedSent(s), q) ELSE ListedSent(s)
        BY <2>1 DEF EndSent
    <3>4. EndSent'[s] = IF Closes(s, q)' THEN DeleteSent(ListedSent(s)', q) ELSE ListedSent(s)'
        BY <2>1, <3>1 DEF EndSent
    <3> QED
        BY <2>2, <3>2, <3>3, <3>4
  <2>4. EndProcessed'[s] = EndProcessed[s]
      BY <1>3, <1>4, <1>5, <2>1 DEF EndProcessed
  <2> QED
      BY <2>3, <2>4
<1>10. LettersToLeave' = LettersToLeave /\ RepliesToLeave' = RepliesToLeave
  <2>1. /\ LettersToLeave = LeavingFor(s, q) \cup OtherLetters(s)
        /\ RepliesToLeave = RepliesLeaving(s, q) \cup OtherReplies(s)
      BY <1>0, <1>1, LeavingApart
  <2>2. /\ LettersToLeave' = LeavingFor(s, hand[s].req)' \cup OtherLetters(s)'
        /\ RepliesToLeave' = RepliesLeaving(s, hand[s].req)' \cup OtherReplies(s)'
      BY <1>5, <1>6, EndTellsAfter DEF EndTold
  <2>3. /\ LeavingFor(s, hand[s].req)' = LeavingFor(s, q)
        /\ RepliesLeaving(s, hand[s].req)' = RepliesLeaving(s, q)
      BY <1>5, <1>7 DEF LeavingFor, RepliesLeaving, Ships, Closes, ShipTransfer, AckTransfer,
                        HeadOfBank, TailOfBank, topology
  <2> QED
      BY <1>8, <2>1, <2>2, <2>3
<1>11. EndToServer' = EndToServer /\ EndToClient' = EndToClient
  <2>1. to_server' = to_server /\ to_client' = to_client
      BY <1>7 DEF network
  <2>2. /\ EndToServer = Deliver(to_server, LettersToLeave)
        /\ EndToClient = Deliver(to_client, RepliesToLeave)
      BY <1>0, FrameOfHands
  <2>3. /\ EndToServer' = Deliver(to_server', LettersToLeave')
        /\ EndToClient' = Deliver(to_client', RepliesToLeave')
      BY <1>6, EndTellsAfter DEF EndTold, Deliver
  <2> QED
      BY <1>10, <2>1, <2>2, <2>3
<1> QED
    BY <1>6, <1>7, <1>8, <1>9, <1>11, HandlersStutter

\* The streams when a head takes an update up, or lets go of it: what the one adds
\* is behind what the other had.
LEMMA StreamOfHand ==
    ASSUME TopologyInit, NEW s \in Servers, Heads(s), NEW q,
           NEW streams \in [Servers -> Seq(Forwards)], NEW t \in Servers
    PROVE  (IF my_type[s] = "HEAD" THEN Forward(streams, s, q) ELSE streams)[t] =
              IF ~IsFirst(t) /\ Prev1(t) = s THEN Append(streams[t], Forwarding(q))
              ELSE streams[t]
<1>1. CASE my_type[s] = "HEAD"
  <2>1. /\ next_fd[s] = Next1(s) /\ Next1(s) \in Servers /\ Next1(s) # NoServer
        /\ ~IsFirst(Next1(s))
      BY <1>1, Places
  <2>2. Prev1(Next1(s)) = s
    <3>1. <<s, Next1(s)>> \in Neighbours
        BY <2>1 DEF Neighbours
    <3> QED
        BY <3>1, NeighbourPair
  <2>3. ~IsFirst(t) /\ Prev1(t) = s => t = Next1(s)
      BY InFront
  <2>4. Forward(streams, s, q) =
           [streams EXCEPT ![Next1(s)] = Append(@, Forwarding(q))]
      BY <2>1 DEF Forward, Push, Forwarding
  <2> QED
      BY <1>1, <2>1, <2>2, <2>3, <2>4
<1>2. CASE my_type[s] # "HEAD"
  <2>1. ~IsFirst(t) => my_type[Prev1(t)] \in {"HEAD", "INTER"}
      BY InFront
  <2>2. my_type[s] = "HEAD_TAIL"
      BY <1>2 DEF Heads
  <2> QED
      BY <1>2, <2>1, <2>2
<1> QED
    BY <1>1, <1>2

\* The update is passed on, which is what was left to do.
LEMMA PassStutters ==
    ASSUME AtomicPremise, NEW s \in Servers, Pass(s)
    PROVE  HandInvariant' /\ UNCHANGED Handlers!vars
<1> SUFFICES ASSUME NEW q, q = hand[s].req
             PROVE  HandInvariant' /\ UNCHANGED Handlers!vars
    OBVIOUS
<1>0. HandInvariant
    BY DEF AtomicPremise
<1>1. hand[s] # Idler /\ InHand(s, "pass") /\ ~InHand(s, "list")
    BY DEF Pass, InHand, Idler
<1>2. Heads(s) /\ q \in Reached(Bank(s)) /\ q.type \in Updates /\ q \in Request
    BY <1>0, <1>1, HandTells
<1>3. /\ hand' = [hand EXCEPT ![s] = Idler]
      /\ from_pre' = IF my_type[s] = "HEAD" THEN Forward(from_pre, s, q) ELSE from_pre
      /\ sent' = IF Closes(s, q) THEN [sent EXCEPT ![s] = DeleteSent(@, q)] ELSE sent
      /\ to_server' = Deliver(to_server, LeavingFor(s, q))
      /\ to_client' = Deliver(to_client, RepliesLeaving(s, q))
      /\ UNCHANGED <<topology, req_seq, last_received_id, balance_map, processed_trans,
                     insuf_funds_trans, from_next, clientState>>
    BY DEF Pass, Proceed, After
<1>4. /\ sent \in [Servers -> Seq(Request)] /\ TopologyInit
      /\ from_pre \in [Servers -> Seq(Forwards)]
      /\ hand \in [Servers -> {Idler} \cup Hands]
      /\ EndToServer = Deliver(to_server, LettersToLeave)
      /\ EndToClient = Deliver(to_client, RepliesToLeave)
    BY <1>0, FrameOfHands
<1>5. /\ hand'[s] = Idler
      /\ sent'[s] = IF Closes(s, q) THEN DeleteSent(sent[s], q) ELSE sent[s]
      /\ \A t \in Servers \ {s} : /\ hand'[t] = hand[t] /\ sent'[t] = sent[t]
                                  /\ processed_trans'[t] = processed_trans[t]
                                  /\ balance_map'[t] = balance_map[t]
    BY <1>3, <1>4
<1>6. HandInvariant'
  <2>1. ThreadInvariant'
      BY <1>0, PassKeeps DEF HandInvariant
  <2>2. HandFresh'
      BY <1>0, <1>5 DEF HandInvariant, HandFresh
  <2>3. Orderly(to_server')
    <3>1. \A x \in LeavingFor(s, q) : x.op = "TRANS_ACK" => x.req.dest_bank_id \in Banks
      <4>1. Bank(s) \in Banks
          BY <1>4, Places
      <4> QED
          BY <1>2, <4>1, LeavingTells
    <3> QED
        BY <1>0, <1>3, <3>1, OrderlyDeliver DEF HandInvariant
  <2>4. IsABag(to_client')
      BY <1>0, <1>3, CopiesDelivered DEF HandInvariant
  <2> QED
      BY <2>1, <2>2, <2>3, <2>4 DEF HandInvariant, Orderly
<1>7. EndTold'
    BY <1>6, EndTellsAfter
<1>8. EndFromPre' = EndFromPre
  <2>1. StreamsAtEnd /\ StreamsAtEnd'
      BY <1>0, <1>7, EndTells DEF EndTold
  <2>2. ASSUME NEW t \in Servers
        PROVE  (IF t \in Fed THEN Append(from_pre[t], Forwarding(hand[Prev1(t)].req))
                ELSE from_pre[t])
               = (IF t \in Fed THEN Append(from_pre[t], Forwarding(hand[Prev1(t)].req))
                  ELSE from_pre[t])'
    <3>0. ~IsFirst(t) => Prev1(t) \in Servers
        BY <1>4, InFront
    <3>1. CASE ~IsFirst(t) /\ Prev1(t) = s
      <4>1. from_pre'[t] = Append(from_pre[t], Forwarding(q))
          BY <1>2, <1>3, <1>4, <3>1, StreamOfHand
      <4>2. t \in Fed /\ t \notin Fed' /\ hand[Prev1(t)].req = q
          BY <1>1, <1>5, <3>1 DEF Fed
      <4> QED
          BY <4>1, <4>2
    <3>2. CASE ~(~IsFirst(t) /\ Prev1(t) = s)
      <4>1. from_pre'[t] = from_pre[t]
          BY <1>2, <1>3, <1>4, <3>2, StreamOfHand
      <4>2. /\ t \in Fed <=> t \in Fed'
            /\ t \in Fed => hand'[Prev1(t)] = hand[Prev1(t)]
          BY <1>5, <3>0, <3>2 DEF Fed
      <4> QED
          BY <4>1, <4>2
    <3> QED
        BY <3>1, <3>2
  <2> QED
      BY <2>1, <2>2 DEF StreamsAtEnd
<1>9. /\ OtherLetters(s)' = OtherLetters(s) /\ OtherReplies(s)' = OtherReplies(s)
      /\ \A t \in Servers \ {s} : EndSent'[t] = EndSent[t] /\ EndProcessed'[t] = EndProcessed[t]
    BY <1>3, <1>5, OthersRest
<1>10. EndSent'[s] = EndSent[s] /\ EndProcessed'[s] = EndProcessed[s]
  <2>1. ~ToList(s) /\ ToPass(s)
      BY <1>1 DEF ToList, ToPass
  <2>2. EndSent'[s] = sent'[s] /\ EndProcessed'[s] = processed_trans'[s]
      BY <1>5, <1>7 DEF EndTold, AtWork
  <2>3. EndSent[s] = (IF Closes(s, q) THEN DeleteSent(sent[s], q) ELSE sent[s])
      BY <2>1 DEF EndSent, ListedSent
  <2>4. EndProcessed[s] = processed_trans[s]
      BY <2>1 DEF EndProcessed
  <2> QED
      BY <1>3, <1>5, <2>2, <2>3, <2>4
<1>11. EndToServer' = EndToServer /\ EndToClient' = EndToClient
  <2>1. /\ LettersToLeave = LeavingFor(s, q) \cup OtherLetters(s)
        /\ RepliesToLeave = RepliesLeaving(s, q) \cup OtherReplies(s)
        /\ LeavingFor(s, q) \cap OtherLetters(s) = {}
        /\ RepliesLeaving(s, q) \cap OtherReplies(s) = {}
    <3>1. /\ LettersToLeave = LeavingFor(s, q) \cup OtherLetters(s)
          /\ RepliesToLeave = RepliesLeaving(s, q) \cup OtherReplies(s)
          /\ LeavingFor(s, q) \cap OtherLetters(s) = {}
        BY <1>0, <1>1, <1>2, LeavingApart
    <3>2. \A x \in OtherReplies(s) : BankOf[x.to] # Bank(s)
        BY <1>0, <1>2, LeavingApart
    <3>3. \A x \in RepliesLeaving(s, q) : BankOf[x.to] = Bank(s)
        BY <1>2, LeavingTells
    <3> QED
        BY <3>1, <3>2, <3>3
  <2>2. /\ EndToServer' = Deliver(to_server', OtherLetters(s)')
        /\ EndToClient' = Deliver(to_client', OtherReplies(s)')
      BY <1>5, <1>7 DEF EndTold, Deliver
  <2>3. IsABag(to_server) /\ IsABag(to_client)
      BY <1>0 DEF HandInvariant, Orderly
  <2>4. Deliver(Deliver(to_server, LeavingFor(s, q)), OtherLetters(s)) =
           Deliver(to_server, LeavingFor(s, q) \cup OtherLetters(s))
      BY <2>1, <2>3, DeliverBoth
  <2>5. Deliver(Deliver(to_client, RepliesLeaving(s, q)), OtherReplies(s)) =
           Deliver(to_client, RepliesLeaving(s, q) \cup OtherReplies(s))
      BY <2>1, <2>3, DeliverBoth
  <2> QED
      BY <1>3, <1>4, <1>9, <2>1, <2>2, <2>4, <2>5
<1> QED
    BY <1>3, <1>6, <1>8, <1>9, <1>10, <1>11, HandlersStutter

--------------------------------------------------------------------------------
\* The step of rec_client that takes an update up is the whole handler.

\* What the handler of Chain does with an update that is new to a head.
LEMMA WholeUpdate ==
    ASSUME NEW s \in Servers, Heads(s),
           EndSent[s] = sent[s], EndProcessed[s] = processed_trans[s],
           NEW m \in DOMAIN EndToServer,
           m.to = s, m.op = "REQUEST", m.req.type \in Updates, ~InSent(sent[s], m.req),
           NEW r, r = Judged(s, m.req), NEW k, k = Judge(s, m.req).balances,
           req_seq' = [req_seq EXCEPT ![s] = @ + 1],
           balance_map' = [balance_map EXCEPT ![s] = k],
           insuf_funds_trans' = Refuse(s, r),
           EndProcessed' = IF r.status = "Need"
                           THEN [EndProcessed EXCEPT ![s] = Record(@, r)] ELSE EndProcessed,
           EndSent' = [EndSent EXCEPT ![s] =
                         IF Closes(s, r) THEN DeleteSent(Append(@, r), r) ELSE Append(@, r)],
           EndFromPre' = IF my_type[s] = "HEAD" THEN Forward(EndFromPre, s, r)
                                                ELSE EndFromPre,
           EndToServer' = Deliver(Take(EndToServer, m), LeavingFor(s, r)),
           EndToClient' = Deliver(EndToClient,
                             IF Closes(s, r) /\ ~Receives(s, r)
                             THEN {ReplyTo(r, Outcome(r), k)} ELSE {}),
           UNCHANGED <<topology, last_received_id, from_next>>
    PROVE  Handlers!RecUpdate(s)
<1>1. Handlers!Judge(s, m.req) = Judge(s, m.req)
    BY SameOperators DEF Handlers!Judge, Judge
<1>2. Handlers!Judged(s, m.req) = Judged(s, m.req)
    BY <1>1, SameOperators DEF Handlers!Judged, Judged
<1>3. my_type[s] # "TAIL"
    BY DEF Heads
<1>4. /\ m.to = s /\ m.op = "REQUEST" /\ m.req.type \in Handlers!Updates
      /\ ~Handlers!InSent(EndSent[s], m.req) /\ Handlers!Heads(s)
    BY SameOperators
<1>5. /\ Closes(s, r) <=> my_type[s] = "HEAD_TAIL" /\ ~Handlers!PaysAbroad(s, r)
      /\ Ships(s, r) <=> my_type[s] = "HEAD_TAIL" /\ Handlers!PaysAbroad(s, r)
      /\ Closes(s, r) <=> my_type[s] = "HEAD_TAIL" /\ ~Ships(s, r)
    BY SameOperators DEF Closes, Ships
<1>6. LeavingFor(s, r) = CASE Ships(s, r) -> Handlers!ShipTransfer(s, r)
                           [] Closes(s, r) /\ Handlers!Receives(s, r)
                                 -> Handlers!AckTransfer(s, r)
                           [] OTHER -> {}
    BY SameOperators DEF LeavingFor
<1>7. EndToServer' = Handlers!Deliver(Handlers!Take(EndToServer, m),
                        CASE Ships(s, r) -> Handlers!ShipTransfer(s, r)
                          [] Closes(s, r) /\ Handlers!Receives(s, r)
                                 -> Handlers!AckTransfer(s, r)
                          [] OTHER -> {})
    BY <1>6, SameOperators
<1>8. EndToClient' = Handlers!Deliver(EndToClient,
                        CASE my_type[s] = "TAIL" -> {Handlers!ReplyTo(r, r.status, k)}
                          [] Closes(s, r) /\ ~Handlers!Receives(s, r) ->
                                {Handlers!ReplyTo(r, Handlers!Outcome(r), k)}
                          [] OTHER -> {})
  <2>1. EndToClient' = Handlers!Deliver(EndToClient,
                          IF Closes(s, r) /\ ~Handlers!Receives(s, r)
                          THEN {Handlers!ReplyTo(r, Handlers!Outcome(r), k)} ELSE {})
      BY SameOperators
  <2> QED
      BY <1>3, <2>1
<1>9. /\ EndFromPre' = IF my_type[s] = "HEAD" THEN Handlers!Forward(EndFromPre, s, r)
                                              ELSE EndFromPre
      /\ EndProcessed' = IF r.status = "Need"
                         THEN [EndProcessed EXCEPT ![s] = Handlers!Record(@, r)]
                         ELSE EndProcessed
      /\ EndSent' = [EndSent EXCEPT ![s] =
                       IF Closes(s, r) THEN Handlers!DeleteSent(Append(EndSent[s], r), r)
                       ELSE Append(EndSent[s], r)]
    BY SameOperators
<1>10. insuf_funds_trans' = IF r.type # "deposit" /\ r.status = "InsufficientFunds"
                            THEN [insuf_funds_trans EXCEPT ![s] = Append(@, r)]
                            ELSE insuf_funds_trans
    BY DEF Refuse
<1>11. UNCHANGED <<Handlers!topology, last_received_id, from_next>>
    BY DEF topology, Handlers!topology
<1> QED
    BY <1>1, <1>2, <1>4, <1>5, <1>7, <1>8, <1>9, <1>10, <1>11 DEF Handlers!RecUpdate

\* The streams at the end are streams.
LEMMA StreamsType ==
    ASSUME HandInvariant
    PROVE  EndFromPre \in [Servers -> Seq(Forwards)]
<1>1. StreamsAtEnd /\ TopologyInit /\ from_pre \in [Servers -> Seq(Forwards)]
    BY EndTells, FrameOfHands DEF EndTold
<1>2. ASSUME NEW t \in Servers, t \in Fed
      PROVE  Append(from_pre[t], Forwarding(hand[Prev1(t)].req)) \in Seq(Forwards)
  <2>1. Prev1(t) \in Servers /\ hand[Prev1(t)] # Idler
      BY <1>1, <1>2, InFront DEF Fed
  <2>2. hand[Prev1(t)].req \in Request
      BY <2>1, HandTells
  <2>3. Forwarding(hand[Prev1(t)].req) \in Forwards
      BY <2>2 DEF Forwarding, Forwards
  <2> QED
      BY <1>1, <2>3
<1> QED
    BY <1>1, <1>2 DEF StreamsAtEnd

\* A datagram that is there is there at the end, and its bank is right.
LEMMA LetterTells ==
    ASSUME AtomicPremise, NEW m \in DOMAIN to_server
    PROVE  /\ m \in DOMAIN EndToServer /\ m \in Mails /\ RightMail(m)
           /\ m.to \in Servers /\ m.req \in Request
           /\ m.op = "REQUEST" => NameOf(m.req) \notin Names(EndSent[m.to])
<1>1. m \in DOMAIN EndToServer
  <2>1. EndToServer = Deliver(to_server, LettersToLeave) /\ IsABag(to_server)
      BY FrameOfHands DEF AtomicPremise, HandInvariant, Orderly
  <2> QED
      BY <2>1, CopiesDelivered
<1>2. m \in Mails /\ RightMail(m)
    BY <1>1 DEF AtomicPremise, EndPromises
<1>3. m.op = "REQUEST" => NameOf(m.req) \notin Names(EndSent[m.to])
    BY <1>1 DEF AtomicPremise, EndPromises
<1> QED
    BY <1>1, <1>2, <1>3 DEF Mails

\* The update that rec_client takes from the socket is new to the head, and stays so
\* until it is listed.
LEMMA TestSentTakes ==
    ASSUME AtomicPremise, NEW s \in Servers, TestSent(s)
    PROVE  \E m \in DOMAIN to_server : \E r \in Reached(Bank(s)) :
              /\ m.to = s /\ m.op = "REQUEST" /\ m.req.type \in Updates
              /\ hand[s] = Idler /\ Heads(s) /\ ~InSent(sent[s], m.req)
              /\ r = Judged(s, m.req) /\ r.type \in Updates /\ NameOf(r) = NameOf(m.req)
              /\ r \in Request
              /\ to_server' = Take(to_server, m)
              /\ req_seq' = [req_seq EXCEPT ![s] = @ + 1]
              /\ balance_map' = [balance_map EXCEPT ![s] = Judge(s, m.req).balances]
              /\ insuf_funds_trans' = Refuse(s, r)
              /\ hand' = [hand EXCEPT ![s] = [at |-> "list", req |-> r]]
              /\ UNCHANGED <<topology, last_received_id, processed_trans, sent, from_pre,
                             from_next, to_client, clientState>>
<1>0. HandInvariant
    BY DEF AtomicPremise
<1>1. PICK m \in DOMAIN to_server :
         /\ InHand(s, "waiting") /\ Heads(s)
         /\ m.to = s /\ m.op = "REQUEST" /\ m.req.type \in Updates
         /\ to_server' = Take(to_server, m)
         /\ IF InSent(sent[s], m.req)
            THEN /\ hand' = [hand EXCEPT ![s] = [at |-> "status", req |-> m.req]]
                 /\ UNCHANGED <<req_seq, balance_map, insuf_funds_trans>>
            ELSE /\ req_seq' = [req_seq EXCEPT ![s] = @ + 1]
                 /\ balance_map' = [balance_map EXCEPT ![s] = Judge(s, m.req).balances]
                 /\ insuf_funds_trans' = Refuse(s, Judged(s, m.req))
                 /\ Proceed(s, "test", Judged(s, m.req))
         /\ UNCHANGED <<topology, last_received_id, processed_trans, sent, from_pre, from_next,
                        to_client, clientState>>
    BY DEF TestSent
<1>2. hand[s] = Idler
    BY <1>0, <1>1, HandTells
<1>3. EndSent[s] = sent[s] /\ sent[s] \in Seq(Request)
    BY <1>0, <1>2, HandTells, FrameOfHands
<1>4. m.req \in Request /\ RightMail(m) /\ NameOf(m.req) \notin Names(sent[s])
    BY <1>1, <1>3, LetterTells
<1>5. m.req \in Reached(Bank(s))
    BY <1>1, <1>4 DEF RightMail
<1>6. ~InSent(sent[s], m.req)
    BY <1>3, <1>4, InSentNames
<1>7. Judged(s, m.req) \in Request
    BY <1>0, <1>4, JudgedType, FrameTypes DEF HandInvariant, ThreadInvariant
<1>8. Judged(s, m.req) = [m.req EXCEPT !.status = Judge(s, m.req).status,
                                       !.req_seq = req_seq[s] + 1]
    BY <1>6 DEF Judged
<1>9. Judged(s, m.req) \in Reached(Bank(s))
    BY <1>5, <1>7, <1>8, JudgedReached
<1>10. /\ Judged(s, m.req).type = m.req.type
       /\ NameOf(Judged(s, m.req)) = NameOf(m.req)
    BY <1>4, <1>8 DEF NameOf, Request
<1>11. hand' = [hand EXCEPT ![s] = [at |-> "list", req |-> Judged(s, m.req)]]
    BY <1>1, <1>6 DEF Proceed, After
<1> QED
    BY <1>1, <1>2, <1>6, <1>7, <1>9, <1>10, <1>11

\* What rec_client of a head has done when it has taken an update up, seen from the end.
LEMMA TestSentWhole ==
    ASSUME AtomicPremise, NEW s \in Servers, TestSent(s)
    PROVE  HandInvariant' /\ Handlers!RecUpdate(s) /\ UNCHANGED clientState
<1>0. HandInvariant
    BY DEF AtomicPremise
<1>1. PICK m0 \in DOMAIN to_server, r0 \in Reached(Bank(s)) :
              /\ m0.to = s /\ m0.op = "REQUEST" /\ m0.req.type \in Updates
              /\ hand[s] = Idler /\ Heads(s) /\ ~InSent(sent[s], m0.req)
              /\ r0 = Judged(s, m0.req) /\ r0.type \in Updates /\ NameOf(r0) = NameOf(m0.req)
              /\ r0 \in Request
              /\ to_server' = Take(to_server, m0)
              /\ req_seq' = [req_seq EXCEPT ![s] = @ + 1]
              /\ balance_map' = [balance_map EXCEPT ![s] = Judge(s, m0.req).balances]
              /\ insuf_funds_trans' = Refuse(s, r0)
              /\ hand' = [hand EXCEPT ![s] = [at |-> "list", req |-> r0]]
              /\ UNCHANGED <<topology, last_received_id, processed_trans, sent, from_pre,
                             from_next, to_client, clientState>>
    BY TestSentTakes
<1> SUFFICES ASSUME NEW m, m = m0, NEW r, r = r0, NEW k, k = Judge(s, m.req).balances
             PROVE  HandInvariant' /\ Handlers!RecUpdate(s) /\ UNCHANGED clientState
    OBVIOUS
<1>2. /\ m \in DOMAIN to_server /\ r \in Reached(Bank(s)) /\ r \in Request
      /\ m.to = s /\ m.op = "REQUEST" /\ m.req.type \in Updates
      /\ hand[s] = Idler /\ Heads(s) /\ ~InSent(sent[s], m.req)
      /\ r = Judged(s, m.req) /\ r.type \in Updates /\ NameOf(r) = NameOf(m.req)
      /\ to_server' = Take(to_server, m)
      /\ req_seq' = [req_seq EXCEPT ![s] = @ + 1]
      /\ balance_map' = [balance_map EXCEPT ![s] = k]
      /\ insuf_funds_trans' = Refuse(s, r)
      /\ hand' = [hand EXCEPT ![s] = [at |-> "list", req |-> r]]
      /\ UNCHANGED <<topology, last_received_id, processed_trans, sent, from_pre,
                     from_next, to_client, clientState>>
    BY <1>1
<1>3. /\ sent \in [Servers -> Seq(Request)] /\ TopologyInit
      /\ from_pre \in [Servers -> Seq(Forwards)]
      /\ hand \in [Servers -> {Idler} \cup Hands]
      /\ balance_map \in [Servers -> [Accounts -> Int]]
      /\ EndToServer = Deliver(to_server, LettersToLeave)
      /\ EndToClient = Deliver(to_client, RepliesToLeave)
      /\ IsABag(to_server) /\ IsABag(to_client)
    BY <1>0, FrameOfHands DEF HandInvariant, Orderly
<1>4. /\ hand'[s] = [at |-> "list", req |-> r] /\ hand'[s] # Idler
      /\ InHand(s, "list")' /\ hand'[s].req = r
      /\ balance_map'[s] = k
      /\ \A t \in Servers \ {s} : hand'[t] = hand[t] /\ balance_map'[t] = balance_map[t]
      /\ sent' = sent /\ processed_trans' = processed_trans /\ from_pre' = from_pre
      /\ to_client' = to_client
    BY <1>2, <1>3 DEF Idler, InHand
<1>5. ~InSent(sent[s], r)
    BY <1>2, <1>3, InSentNames
<1>6. HandInvariant'
  <2>1. ThreadInvariant'
      BY <1>0, TestSentKeeps DEF HandInvariant
  <2>2. HandFresh'
      BY <1>0, <1>2, <1>4, <1>5 DEF HandInvariant, HandFresh
  <2>3. Orderly(to_server')
      BY <1>0, <1>2, OrderlyTake DEF HandInvariant
  <2> QED
      BY <1>3, <1>4, <2>1, <2>2, <2>3 DEF HandInvariant, Orderly
<1>7. EndTold' /\ EndTold
    BY <1>0, <1>6, EndTells, EndTellsAfter
<1>8. EndSent[s] = sent[s] /\ EndProcessed[s] = processed_trans[s]
    BY <1>2, <1>7 DEF EndTold, AtWork
<1>9. /\ OtherLetters(s)' = OtherLetters(s) /\ OtherReplies(s)' = OtherReplies(s)
      /\ \A t \in Servers \ {s} : EndSent'[t] = EndSent[t] /\ EndProcessed'[t] = EndProcessed[t]
    BY <1>2, <1>4, OthersRest
<1>10. ToList(s)' /\ ToPass(s)' /\ (Closes(s, r)' <=> Closes(s, r))
  <2>1. ToList(s)' /\ ToPass(s)'
      BY <1>4, <1>5 DEF ToList, ToPass
  <2>2. Closes(s, r)' <=> Closes(s, r)
      BY <1>2 DEF Closes, topology
  <2> QED
      BY <2>1, <2>2
<1>11. EndSent' = [EndSent EXCEPT ![s] =
                     IF Closes(s, r) THEN DeleteSent(Append(@, r), r) ELSE Append(@, r)]
  <2>1. ListedSent(s)' = Append(sent[s], r)
      BY <1>4, <1>10 DEF ListedSent
  <2>2. EndSent'[s] = IF Closes(s, r)' THEN DeleteSent(ListedSent(s)', r) ELSE ListedSent(s)'
      BY <1>4, <1>10 DEF EndSent
  <2>3. EndSent'[s] = IF Closes(s, r) THEN DeleteSent(Append(EndSent[s], r), r)
                                      ELSE Append(EndSent[s], r)
      BY <1>8, <1>10, <2>1, <2>2
  <2>4. EndSent' = [t \in Servers |-> EndSent'[t]] /\ EndSent = [t \in Servers |-> EndSent[t]]
      BY DEF EndSent
  <2> QED
      BY <1>9, <2>3, <2>4
<1>12. EndProcessed' = IF r.status = "Need"
                       THEN [EndProcessed EXCEPT ![s] = Record(@, r)] ELSE EndProcessed
  <2>1. EndProcessed'[s] = IF r.status = "Need" THEN Record(processed_trans[s], r)
                                                ELSE processed_trans[s]
      BY <1>4, <1>10 DEF EndProcessed
  <2>2. /\ EndProcessed' = [t \in Servers |-> EndProcessed'[t]]
        /\ EndProcessed = [t \in Servers |-> EndProcessed[t]]
      BY DEF EndProcessed
  <2> QED
      BY <1>8, <1>9, <2>1, <2>2
<1>13. EndFromPre' = IF my_type[s] = "HEAD" THEN Forward(EndFromPre, s, r) ELSE EndFromPre
  <2> DEFINE G == IF my_type[s] = "HEAD" THEN Forward(EndFromPre, s, r) ELSE EndFromPre
  <2>0. EndFromPre \in [Servers -> Seq(Forwards)]
      BY <1>0, StreamsType
  <2>1. StreamsAtEnd /\ StreamsAtEnd'
      BY <1>7 DEF EndTold
  <2>2. G = [t \in Servers |-> G[t]]
    <3>1. Forward(EndFromPre, s, r) = [t \in Servers |-> Forward(EndFromPre, s, r)[t]]
        BY <2>0 DEF Forward, Push
    <3>2. EndFromPre = [t \in Servers |-> EndFromPre[t]]
        BY <2>0
    <3> QED
        BY <3>1, <3>2
  <2>3. \A t \in Servers : G[t] = IF ~IsFirst(t) /\ Prev1(t) = s
                                  THEN Append(EndFromPre[t], Forwarding(r)) ELSE EndFromPre[t]
    <3>1. TopologyInit /\ Heads(s)
        BY <1>2, <1>3
    <3> QED
        BY <2>0, <3>1, StreamOfHand
  <2> HIDE DEF G
  <2>4. ASSUME NEW t \in Servers PROVE EndFromPre'[t] = G[t]
    <3>0. ~IsFirst(t) => Prev1(t) \in Servers
        BY <1>3, InFront
    <3>1. /\ EndFromPre[t] = IF t \in Fed THEN Append(from_pre[t], Forwarding(hand[Prev1(t)].req))
                                          ELSE from_pre[t]
          /\ EndFromPre'[t] = IF t \in Fed'
                              THEN Append(from_pre[t], Forwarding(hand'[Prev1(t)].req))
                              ELSE from_pre[t]
        BY <1>4, <2>1 DEF StreamsAtEnd
    <3>2. CASE ~IsFirst(t) /\ Prev1(t) = s
      <4>1. t \notin Fed /\ t \in Fed' /\ hand'[Prev1(t)].req = r
          BY <1>2, <1>4, <3>2 DEF Fed
      <4> QED
          BY <2>3, <3>1, <3>2, <4>1
    <3>3. CASE ~(~IsFirst(t) /\ Prev1(t) = s)
      <4>1. /\ t \in Fed <=> t \in Fed'
            /\ t \in Fed => hand'[Prev1(t)] = hand[Prev1(t)]
          BY <1>4, <3>0, <3>3 DEF Fed
      <4> QED
          BY <2>3, <3>1, <3>3, <4>1
    <3> QED
        BY <3>2, <3>3
  <2>5. EndFromPre' = [t \in Servers |-> EndFromPre'[t]]
      BY DEF EndFromPre
  <2>6. EndFromPre' = G
      BY <2>2, <2>4, <2>5
  <2> QED
      BY <2>6 DEF G
<1>14. EndToServer' = Deliver(Take(EndToServer, m), LeavingFor(s, r))
  <2>1. EndToServer' = Deliver(to_server', LeavingFor(s, r)' \cup OtherLetters(s)')
      BY <1>4, <1>7 DEF EndTold, Deliver
  <2>2. LeavingFor(s, r)' = LeavingFor(s, r)
      BY <1>2 DEF LeavingFor, Ships, Closes, ShipTransfer, AckTransfer, HeadOfBank, TailOfBank,
                  topology
  <2>3. LeavingFor(s, r) \cap OtherLetters(s) = {} /\ LettersToLeave = OtherLetters(s)
      BY <1>0, <1>2, LeavingApart
  <2>4. EndToServer' = Deliver(Take(to_server, m), OtherLetters(s) \cup LeavingFor(s, r))
    <3>1. OtherLetters(s) \cup LeavingFor(s, r) = LeavingFor(s, r) \cup OtherLetters(s)
        OBVIOUS
    <3> QED
        BY <1>2, <1>9, <2>1, <2>2, <3>1
  <2>5. IsABag(Take(to_server, m))
      BY <1>2, <1>3, CopiesTaken
  <2>6. Deliver(Deliver(Take(to_server, m), OtherLetters(s)), LeavingFor(s, r)) =
           Deliver(Take(to_server, m), OtherLetters(s) \cup LeavingFor(s, r))
      BY <2>3, <2>5, DeliverBoth
  <2>7. Deliver(Take(to_server, m), OtherLetters(s)) = Take(EndToServer, m)
      BY <1>2, <1>3, <2>3, TakeSwap
  <2> QED
      BY <2>4, <2>6, <2>7
<1>15. EndToClient' = Deliver(EndToClient,
                         IF Closes(s, r) /\ ~Receives(s, r)
                         THEN {ReplyTo(r, Outcome(r), k)} ELSE {})
  <2> DEFINE M == IF Closes(s, r) /\ ~Receives(s, r) THEN {ReplyTo(r, Outcome(r), k)} ELSE {}
  <2>1. EndToClient' = Deliver(to_client', RepliesLeaving(s, hand[s].req)' \cup OtherReplies(s)')
      BY <1>4, <1>7 DEF EndTold, Deliver
  <2>2. RepliesLeaving(s, hand[s].req)' = M
      BY <1>4, <1>10 DEF RepliesLeaving
  <2>3. \A x \in M : x.to = r.client_port /\ ~Receives(s, r)
      BY DEF ReplyTo
  <2>4. RepliesToLeave = OtherReplies(s) /\ \A x \in OtherReplies(s) : BankOf[x.to] # Bank(s)
      BY <1>0, <1>2, LeavingApart
  <2>5. OtherReplies(s) \cap M = {}
      BY <1>2, <2>3, <2>4, LeavingTells
  <2> HIDE DEF M
  <2>6. EndToClient' = Deliver(to_client, OtherReplies(s) \cup M)
    <3>1. OtherReplies(s) \cup M = M \cup OtherReplies(s)
        OBVIOUS
    <3> QED
        BY <1>4, <1>9, <2>1, <2>2, <3>1
  <2>7. Deliver(Deliver(to_client, OtherReplies(s)), M) = Deliver(to_client, OtherReplies(s) \cup M)
    <3>1. IsABag(to_client)
        BY <1>3
    <3> QED
        BY <2>5, <3>1, DeliverBoth
  <2>8. EndToClient' = Deliver(EndToClient, M)
      BY <1>3, <2>4, <2>6, <2>7
  <2> QED
      BY <2>8 DEF M
<1>16. m \in DOMAIN EndToServer
    BY <1>2, LetterTells
<1>17. Handlers!RecUpdate(s)
    BY <1>2, <1>8, <1>11, <1>12, <1>13, <1>14, <1>15, <1>16, WholeUpdate
<1> QED
    BY <1>2, <1>6, <1>17

--------------------------------------------------------------------------------
\* The handlers that run while other updates are in hand.

\* A step that leaves everything in hand alone, at a server that has nothing in hand,
\* does at the end what it does.
LEMMA StepAtRest ==
    ASSUME HandInvariant, HandInvariant', NEW s \in Servers, hand[s] = Idler,
           UNCHANGED hand, UNCHANGED topology,
           \A t \in Servers \ {s} : /\ sent'[t] = sent[t]
                                    /\ processed_trans'[t] = processed_trans[t]
                                    /\ balance_map'[t] = balance_map[t]
    PROVE  /\ EndSent[s] = sent[s] /\ EndProcessed[s] = processed_trans[s]
           /\ EndSent' = [EndSent EXCEPT ![s] = sent'[s]]
           /\ EndProcessed' = [EndProcessed EXCEPT ![s] = processed_trans'[s]]
           /\ EndToServer = Deliver(to_server, LettersToLeave)
           /\ EndToClient = Deliver(to_client, RepliesToLeave)
           /\ EndToServer' = Deliver(to_server', LettersToLeave)
           /\ EndToClient' = Deliver(to_client', RepliesToLeave)
<1>1. EndTold /\ EndTold'
    BY EndTells, EndTellsAfter
<1>2. hand'[s] = Idler /\ \A t \in Servers \ {s} : hand'[t] = hand[t]
    OBVIOUS
<1>3. /\ EndSent[s] = sent[s] /\ EndProcessed[s] = processed_trans[s]
      /\ EndSent'[s] = sent'[s] /\ EndProcessed'[s] = processed_trans'[s]
    BY <1>1, <1>2 DEF EndTold, AtWork
<1>4. /\ OtherLetters(s)' = OtherLetters(s) /\ OtherReplies(s)' = OtherReplies(s)
      /\ \A t \in Servers \ {s} : EndSent'[t] = EndSent[t] /\ EndProcessed'[t] = EndProcessed[t]
    BY <1>2, OthersRest
<1>5. /\ EndSent' = [t \in Servers |-> EndSent'[t]] /\ EndSent = [t \in Servers |-> EndSent[t]]
      /\ EndProcessed' = [t \in Servers |-> EndProcessed'[t]]
      /\ EndProcessed = [t \in Servers |-> EndProcessed[t]]
    BY DEF EndSent, EndProcessed
<1>6. /\ EndSent' = [EndSent EXCEPT ![s] = sent'[s]]
      /\ EndProcessed' = [EndProcessed EXCEPT ![s] = processed_trans'[s]]
    BY <1>3, <1>4, <1>5
<1>7. /\ EndToServer = Deliver(to_server, LettersToLeave)
      /\ EndToClient = Deliver(to_client, RepliesToLeave)
      /\ LettersToLeave = OtherLetters(s) /\ RepliesToLeave = OtherReplies(s)
    BY <1>1 DEF EndTold
<1>8. /\ EndToServer' = Deliver(to_server', OtherLetters(s)')
      /\ EndToClient' = Deliver(to_client', OtherReplies(s)')
    BY <1>1, <1>2 DEF EndTold, Deliver
<1> QED
    BY <1>3, <1>4, <1>6, <1>7, <1>8

\* Nobody takes anything up or lets go of it, and nothing comes to the list of a head
\* at work.
LEMMA HandsRest ==
    ASSUME HandInvariant, ThreadInvariant', UNCHANGED hand,
           \A t \in Servers : hand[t] # Idler => Names(sent'[t]) \subseteq Names(sent[t]),
           Orderly(to_server'), IsABag(to_client')
    PROVE  HandInvariant'
<1>1. ASSUME NEW t \in Servers, hand[t] # Idler, hand[t].at = "list"
      PROVE  ~InSent(sent'[t], hand[t].req)
  <2>1. sent[t] \in Seq(Request) /\ sent'[t] \in Seq(Request)
    <3>1. sent[t] \in Seq(Request)
        BY FrameOfHands
    <3>2. (ThreadInvariant => sent \in [Servers -> Seq(Request)])'
      <4>1. ThreadInvariant' => sent' \in [Servers -> Seq(Request)]
          BY DEF ThreadInvariant, HeadFrame, TypeOK, ServerTypeOK
      <4> QED
          BY <4>1
    <3> QED
        BY <3>1, <3>2
  <2>2. ~InSent(sent[t], hand[t].req)
      BY <1>1 DEF HandInvariant, HandFresh
  <2> QED
      BY <1>1, <2>1, <2>2, InSentNames
<1>2. HandFresh'
    BY <1>1 DEF HandInvariant, HandFresh
<1> QED
    BY <1>2 DEF HandInvariant, Orderly

\* A query, and what is neither an update nor a query.
LEMMA QueryWhole ==
    ASSUME AtomicPremise, NEW s \in Servers, InHand(s, "waiting"),
           RecQuery(s) \/ RecUnknown(s), UNCHANGED <<clientState, hand>>
    PROVE  HandInvariant' /\ (Handlers!RecQuery(s) \/ Handlers!RecUnknown(s))
<1>0. HandInvariant /\ ThreadInvariant
    BY DEF AtomicPremise, HandInvariant
<1>1. hand[s] = Idler
    BY <1>0, HandTells
<1>2. /\ sent \in [Servers -> Seq(Request)] /\ balance_map \in [Servers -> [Accounts -> Int]]
      /\ Orderly(to_server) /\ IsABag(to_server) /\ IsABag(to_client)
    BY <1>0, FrameOfHands DEF HandInvariant, Orderly
<1>3. ThreadInvariant'
    BY <1>0, OtherThreadsKeep
<1>4. CASE RecQuery(s)
  <2> DEFINE R(q) == [q EXCEPT !.status = IF InSent(sent[s], q) THEN PreSendStatus(sent[s], q)
                                                               ELSE "Processed"]
             alone == my_type[s] = "HEAD_TAIL"
  <2>1. PICK m \in DOMAIN to_server :
           /\ m.to = s /\ m.op = "REQUEST" /\ m.req.type = "getBalance"
           /\ Tails(s)
           /\ sent' = [sent EXCEPT ![s] = IF alone THEN DeleteSent(@, R(m.req)) ELSE @]
           /\ to_client' = Deliver(to_client,
                 {ReplyTo(R(m.req), IF alone THEN Outcome(R(m.req)) ELSE R(m.req).status,
                          balance_map[s])})
           /\ to_server' = Take(to_server, m)
      BY <1>4 DEF RecQuery
  <2>2. UNCHANGED <<topology, req_seq, last_received_id, balance_map, processed_trans,
                    insuf_funds_trans, from_pre, from_next>>
      BY <1>4 DEF RecQuery
  <2>3. \A t \in Servers \ {s} : sent'[t] = sent[t]
      BY <1>2, <2>1
  <2>4. HandInvariant'
    <3>1. Orderly(to_server') /\ IsABag(to_client')
        BY <1>2, <2>1, OrderlyTake, CopiesDelivered
    <3>2. \A t \in Servers : hand[t] # Idler => Names(sent'[t]) \subseteq Names(sent[t])
        BY <1>1, <2>3
    <3> QED
        BY <1>0, <1>3, <3>1, <3>2, HandsRest
  <2>5. /\ EndSent[s] = sent[s]
        /\ EndSent' = [EndSent EXCEPT ![s] = sent'[s]]
        /\ EndProcessed' = [EndProcessed EXCEPT ![s] = processed_trans'[s]]
        /\ EndProcessed[s] = processed_trans[s]
        /\ EndToServer = Deliver(to_server, LettersToLeave)
        /\ EndToClient = Deliver(to_client, RepliesToLeave)
        /\ EndToServer' = Deliver(to_server', LettersToLeave)
        /\ EndToClient' = Deliver(to_client', RepliesToLeave)
      BY <1>0, <1>1, <2>2, <2>3, <2>4, StepAtRest
  <2>6. m \in DOMAIN EndToServer
      BY LetterTells
  <2>7. EndSent' = [EndSent EXCEPT ![s] = IF alone THEN DeleteSent(@, R(m.req)) ELSE @]
      BY <1>2, <2>1, <2>5
  <2>8. EndProcessed' = EndProcessed
    <3>1. EndProcessed = [t \in Servers |-> EndProcessed[t]]
        BY DEF EndProcessed
    <3> QED
        BY <2>2, <2>5, <3>1
  <2>9. EndToServer' = Take(EndToServer, m)
      BY <1>2, <2>1, <2>5, TakeSwap
  <2>10. EndToClient' = Deliver(EndToClient,
                 {ReplyTo(R(m.req), IF alone THEN Outcome(R(m.req)) ELSE R(m.req).status,
                          balance_map[s])})
      BY <1>2, <2>1, <2>5, DeliverSwap
  <2>11. EndFromPre' = EndFromPre
      BY <1>0, <2>2, <2>4, StreamsRest
  <2>12. R(m.req) = [m.req EXCEPT !.status =
                        IF Handlers!InSent(EndSent[s], m.req)
                        THEN Handlers!PreSendStatus(EndSent[s], m.req) ELSE "Processed"]
      BY <2>5, SameOperators
  <2> HIDE DEF R
  <2>13. /\ EndSent' = [EndSent EXCEPT ![s] =
                          IF alone THEN Handlers!DeleteSent(@, R(m.req)) ELSE @]
         /\ EndToServer' = Handlers!Take(EndToServer, m)
         /\ EndToClient' = Handlers!Deliver(EndToClient,
                 {Handlers!ReplyTo(R(m.req),
                     IF alone THEN Handlers!Outcome(R(m.req)) ELSE R(m.req).status,
                     balance_map[s])})
         /\ Handlers!Tails(s)
      BY <2>1, <2>7, <2>9, <2>10, SameOperators
  <2>14. UNCHANGED <<Handlers!topology, req_seq, last_received_id, balance_map, EndProcessed,
                     insuf_funds_trans, EndFromPre, from_next>>
      BY <2>2, <2>8, <2>11 DEF topology, Handlers!topology
  <2>15. Handlers!RecQuery(s)
      BY <2>1, <2>6, <2>12, <2>13, <2>14 DEF Handlers!RecQuery
  <2> QED
      BY <2>4, <2>15
<1>5. CASE RecUnknown(s)
  <2>1. PICK m \in DOMAIN to_server :
           /\ m.to = s /\ m.op = "REQUEST" /\ m.req.type \notin Updates
           /\ m.req.type = "getBalance" => ~Tails(s)
           /\ to_server' = Take(to_server, m)
           /\ UNCHANGED <<serverState, to_client>>
      BY <1>5 DEF RecUnknown
  <2>2. UNCHANGED <<topology, req_seq, last_received_id, balance_map, processed_trans, sent,
                    insuf_funds_trans, from_pre, from_next, to_client>>
      BY <2>1 DEF serverState
  <2>4. HandInvariant'
    <3>1. Orderly(to_server') /\ IsABag(to_client')
        BY <1>2, <2>1, OrderlyTake
    <3> QED
        BY <1>0, <1>3, <2>2, <3>1, HandsRest
  <2>5. /\ EndSent[s] = sent[s]
        /\ EndSent' = [EndSent EXCEPT ![s] = sent'[s]]
        /\ EndProcessed' = [EndProcessed EXCEPT ![s] = processed_trans'[s]]
        /\ EndProcessed[s] = processed_trans[s]
        /\ EndToServer = Deliver(to_server, LettersToLeave)
        /\ EndToClient = Deliver(to_client, RepliesToLeave)
        /\ EndToServer' = Deliver(to_server', LettersToLeave)
        /\ EndToClient' = Deliver(to_client', RepliesToLeave)
      BY <1>0, <1>1, <2>2, <2>4, StepAtRest
  <2>6. m \in DOMAIN EndToServer
      BY LetterTells
  <2>8. EndProcessed' = EndProcessed /\ EndSent' = EndSent
    <3>1. /\ EndProcessed = [t \in Servers |-> EndProcessed[t]]
          /\ EndSent = [t \in Servers |-> EndSent[t]]
        BY DEF EndProcessed, EndSent
    <3> QED
        BY <2>2, <2>5, <3>1
  <2>9. EndToServer' = Take(EndToServer, m)
      BY <1>2, <2>1, <2>5, TakeSwap
  <2>10. EndToClient' = EndToClient
      BY <2>2, <2>5
  <2>11. EndFromPre' = EndFromPre
      BY <1>0, <2>2, <2>4, StreamsRest
  <2>12. UNCHANGED <<Handlers!serverState, EndToClient>>
      BY <2>2, <2>8, <2>10, <2>11 DEF topology, Handlers!topology, Handlers!serverState
  <2>13. /\ EndToServer' = Handlers!Take(EndToServer, m)
         /\ m.req.type \notin Handlers!Updates
         /\ m.req.type = "getBalance" => ~Handlers!Tails(s)
      BY <2>1, <2>9, SameOperators
  <2>14. Handlers!RecUnknown(s)
      BY <2>1, <2>6, <2>12, <2>13 DEF Handlers!RecUnknown
  <2> QED
      BY <2>4, <2>14
<1> QED
    BY <1>4, <1>5

\* A server that is not a head reads what is first in its stream, whatever its
\* predecessor has in hand, and passes it on behind what its successor has not read.
LEMMA ForwardStreams ==
    ASSUME HandInvariant, HandInvariant', NEW s \in Servers, ~Heads(s), UNCHANGED hand,
           from_pre[s] # <<>>, NEW q,
           from_pre' = IF my_type[s] = "INTER" THEN Forward(Pop(from_pre, s), s, q)
                                               ELSE Pop(from_pre, s)
    PROVE  /\ EndFromPre[s] # <<>> /\ Head(EndFromPre[s]) = Head(from_pre[s])
           /\ EndFromPre' = IF my_type[s] = "INTER" THEN Forward(Pop(EndFromPre, s), s, q)
                                                    ELSE Pop(EndFromPre, s)
<1>0. /\ TopologyInit /\ from_pre \in [Servers -> Seq(Forwards)] /\ hand[s] = Idler
      /\ EndFromPre \in [Servers -> Seq(Forwards)]
      /\ StreamsAtEnd /\ StreamsAtEnd'
    BY FrameOfHands, HandTells, StreamsType, EndTells, EndTellsAfter DEF EndTold
<1>1. \A t \in Servers : ~IsFirst(t) => Prev1(t) \in Servers
    BY <1>0, InFront
<1>2. ASSUME NEW f \in Forwards
      PROVE  /\ Append(from_pre[s], f) # <<>>
             /\ Head(Append(from_pre[s], f)) = Head(from_pre[s])
             /\ Tail(Append(from_pre[s], f)) = Append(Tail(from_pre[s]), f)
  <2>1. from_pre[s] \in Seq(Forwards) /\ from_pre[s] # <<>>
      BY <1>0
  <2> QED
      BY <2>1
<1>3. \A t \in Fed : Forwarding(hand[Prev1(t)].req) \in Forwards
  <2> SUFFICES ASSUME NEW t \in Fed PROVE Forwarding(hand[Prev1(t)].req) \in Forwards
      OBVIOUS
  <2>1. Prev1(t) \in Servers /\ hand[Prev1(t)] # Idler
      BY <1>1 DEF Fed
  <2>2. hand[Prev1(t)].req \in Request
      BY <2>1, HandTells
  <2> QED
      BY <2>2 DEF Forwarding, Forwards
<1>4. EndFromPre[s] = IF s \in Fed THEN Append(from_pre[s], Forwarding(hand[Prev1(s)].req))
                                   ELSE from_pre[s]
    BY <1>0 DEF StreamsAtEnd
<1>5. EndFromPre[s] # <<>> /\ Head(EndFromPre[s]) = Head(from_pre[s])
    BY <1>2, <1>3, <1>4
<1>6. Fed' = Fed
    BY DEF Fed
<1>7. my_type[s] = "INTER" =>
         /\ next_fd[s] = Next1(s) /\ Next1(s) \in Servers /\ Next1(s) # s
         /\ Next1(s) # NoServer /\ Next1(s) \notin Fed
  <2> SUFFICES ASSUME my_type[s] = "INTER"
               PROVE  /\ next_fd[s] = Next1(s) /\ Next1(s) \in Servers /\ Next1(s) # s
                      /\ Next1(s) # NoServer /\ Next1(s) \notin Fed
      OBVIOUS
  <2>1. /\ next_fd[s] = Next1(s) /\ Next1(s) \in Servers /\ Next1(s) # s
        /\ Next1(s) # NoServer
      BY <1>0, Places
  <2>2. <<s, Next1(s)>> \in Neighbours
      BY <2>1 DEF Neighbours
  <2>3. Prev1(Next1(s)) = s
      BY <1>0, <2>2, NeighbourPair
  <2> QED
      BY <1>0, <2>1, <2>3 DEF Fed
<1>8. CASE my_type[s] = "INTER"
  <2>1. from_pre' = [from_pre EXCEPT ![s] = Tail(@), ![Next1(s)] = Append(@, Forwarding(q))]
      BY <1>0, <1>7, <1>8 DEF Forward, Push, Pop, Forwarding
  <2>2. Forward(Pop(EndFromPre, s), s, q) =
           [EndFromPre EXCEPT ![s] = Tail(@), ![Next1(s)] = Append(@, Forwarding(q))]
      BY <1>0, <1>7, <1>8 DEF Forward, Push, Pop, Forwarding
  <2>3. ASSUME NEW t \in Servers
        PROVE  EndFromPre'[t] =
                 [EndFromPre EXCEPT ![s] = Tail(@), ![Next1(s)] = Append(@, Forwarding(q))][t]
    <3>1. /\ EndFromPre[t] = IF t \in Fed THEN Append(from_pre[t], Forwarding(hand[Prev1(t)].req))
                                          ELSE from_pre[t]
          /\ EndFromPre'[t] = IF t \in Fed
                              THEN Append(from_pre'[t], Forwarding(hand[Prev1(t)].req))
                              ELSE from_pre'[t]
        BY <1>0, <1>6 DEF StreamsAtEnd
    <3>2. CASE t = s
      <4>1. from_pre'[s] = Tail(from_pre[s])
          BY <1>0, <1>7, <1>8, <2>1
      <4>2. EndFromPre'[s] = Tail(EndFromPre[s])
          BY <1>2, <1>3, <3>1, <3>2, <4>1
      <4> QED
          BY <1>0, <1>7, <1>8, <3>2, <4>2
    <3>3. CASE t = Next1(s)
      <4>1. from_pre'[t] = Append(from_pre[t], Forwarding(q))
          BY <1>0, <1>7, <1>8, <2>1, <3>3
      <4>2. t \notin Fed
          BY <1>7, <1>8, <3>3
      <4> QED
          BY <1>0, <1>7, <1>8, <3>1, <3>3, <4>1, <4>2
    <3>4. CASE t # s /\ t # Next1(s)
      <4>1. from_pre'[t] = from_pre[t]
          BY <1>0, <2>1, <3>4
      <4> QED
          BY <1>0, <3>1, <3>4, <4>1
    <3> QED
        BY <3>2, <3>3, <3>4
  <2>4. EndFromPre' = [t \in Servers |-> EndFromPre'[t]]
      BY DEF EndFromPre
  <2>5. EndFromPre' =
           [EndFromPre EXCEPT ![s] = Tail(@), ![Next1(s)] = Append(@, Forwarding(q))]
      BY <1>0, <2>3, <2>4
  <2> QED
      BY <1>5, <1>8, <2>2, <2>5
<1>9. CASE my_type[s] # "INTER"
  <2>1. from_pre' = [from_pre EXCEPT ![s] = Tail(@)]
      BY <1>9 DEF Pop
  <2>2. ASSUME NEW t \in Servers PROVE EndFromPre'[t] = [EndFromPre EXCEPT ![s] = Tail(@)][t]
    <3>1. /\ EndFromPre[t] = IF t \in Fed THEN Append(from_pre[t], Forwarding(hand[Prev1(t)].req))
                                          ELSE from_pre[t]
          /\ EndFromPre'[t] = IF t \in Fed
                              THEN Append(from_pre'[t], Forwarding(hand[Prev1(t)].req))
                              ELSE from_pre'[t]
        BY <1>0, <1>6 DEF StreamsAtEnd
    <3>2. CASE t = s
      <4>1. EndFromPre'[s] = Tail(EndFromPre[s])
          BY <1>0, <1>2, <1>3, <2>1, <3>1, <3>2
      <4> QED
          BY <1>0, <3>2, <4>1
    <3>3. CASE t # s
        BY <1>0, <2>1, <3>1, <3>3
    <3> QED
        BY <3>2, <3>3
  <2>3. EndFromPre' = [t \in Servers |-> EndFromPre'[t]]
      BY DEF EndFromPre
  <2>4. EndFromPre' = [EndFromPre EXCEPT ![s] = Tail(@)]
      BY <1>0, <2>2, <2>3
  <2> QED
      BY <1>5, <1>9, <2>4 DEF Pop
<1> QED
    BY <1>8, <1>9

\* process_forwared_request: the server it runs at has nothing in hand.
LEMMA ForwardWhole ==
    ASSUME AtomicPremise, NEW s \in Servers, RecForward(s), UNCHANGED <<clientState, hand>>
    PROVE  HandInvariant' /\ Handlers!RecForward(s)
<1>0. HandInvariant /\ ThreadInvariant
    BY DEF AtomicPremise, HandInvariant
<1>1. /\ sent \in [Servers -> Seq(Request)] /\ balance_map \in [Servers -> [Accounts -> Int]]
      /\ processed_trans \in [Servers -> Seq(Request)]
      /\ Orderly(to_server) /\ IsABag(to_server) /\ IsABag(to_client)
    BY <1>0, FrameOfHands DEF HandInvariant, Orderly
<1>2. from_pre[s] # <<>> /\ Head(from_pre[s]).op = "FORWARD"
    BY DEF RecForward
<1>3. ~Heads(s) /\ hand[s] = Idler
    BY <1>0, <1>2, FrameOfHands, HandTells
<1>4. ThreadInvariant'
    BY <1>0, OtherThreadsKeep DEF OtherThreads
<1> SUFFICES ASSUME NEW q, q = Head(from_pre[s]).req,
                    NEW known, known = InSent(sent[s], q),
                    NEW balances, balances = (IF q.status = "Need" /\ ~known
                                              THEN UpdateBalance(Bank(s), balance_map[s], q)
                                              ELSE balance_map[s]),
                    NEW r, r = IF my_type[s] = "TAIL" /\ known
                               THEN [q EXCEPT !.status = PreSendStatus(sent[s], q)] ELSE q
             PROVE  HandInvariant' /\ Handlers!RecForward(s)
    OBVIOUS
<1> DEFINE inter == my_type[s] = "INTER"
           tail == my_type[s] = "TAIL"
           executes == q.status = "Need" /\ ~known
           ships == tail /\ PaysAbroad(s, r)
           closes == tail /\ ~ships
           Listed(list) == IF (inter \/ tail) /\ ~known THEN Append(list, q) ELSE list
           letters == IF ships THEN ShipTransfer(s, r) ELSE {}
           answers == IF closes /\ ~Receives(s, r) THEN {ReplyTo(r, Outcome(r), balances)}
                      ELSE {}
<1>5. /\ last_received_id' = [last_received_id EXCEPT ![s] = q.req_seq]
      /\ balance_map' = [balance_map EXCEPT ![s] = balances]
      /\ processed_trans' = IF executes
                            THEN [processed_trans EXCEPT ![s] = Record(@, q)]
                            ELSE processed_trans
      /\ insuf_funds_trans' = IF q.status = "InsufficientFunds" /\ ~known
                              THEN [insuf_funds_trans EXCEPT ![s] = Append(@, q)]
                              ELSE insuf_funds_trans
      /\ sent' = [sent EXCEPT ![s] = IF closes THEN DeleteSent(Listed(sent[s]), r)
                                               ELSE Listed(sent[s])]
      /\ from_pre' = IF inter THEN Forward(Pop(from_pre, s), s, q) ELSE Pop(from_pre, s)
      /\ from_next' = IF closes THEN AckToPre(from_next, s, r) ELSE from_next
      /\ to_server' = Deliver(to_server, letters)
      /\ to_client' = Deliver(to_client, answers)
      /\ UNCHANGED <<topology, req_seq>>
    BY DEF RecForward
<1>6. \A t \in Servers \ {s} : /\ sent'[t] = sent[t]
                               /\ processed_trans'[t] = processed_trans[t]
                               /\ balance_map'[t] = balance_map[t]
    BY <1>1, <1>5
<1>7. sent'[s] = (IF closes THEN DeleteSent(Listed(sent[s]), r) ELSE Listed(sent[s]))
    BY <1>1, <1>5
<1>8. processed_trans'[s] = (IF executes THEN Record(processed_trans[s], q)
                                         ELSE processed_trans[s])
    BY <1>1, <1>5
<1>9. HandInvariant'
  <2>1. \A x \in letters : x.op # "TRANS_ACK"
      BY DEF ShipTransfer, Mail
  <2> HIDE DEF letters, answers
  <2>2. Orderly(to_server')
      BY <1>1, <1>5, <2>1, OrderlyDeliver
  <2>3. IsABag(to_client')
      BY <1>1, <1>5, CopiesDelivered
  <2>4. \A t \in Servers : hand[t] # Idler => Names(sent'[t]) \subseteq Names(sent[t])
      BY <1>3, <1>6
  <2> QED
      BY <1>0, <1>4, <2>2, <2>3, <2>4, HandsRest
<1> HIDE DEF inter, tail, executes, ships, closes, Listed, letters, answers
<1>10. /\ EndSent[s] = sent[s] /\ EndProcessed[s] = processed_trans[s]
       /\ EndSent' = [EndSent EXCEPT ![s] = sent'[s]]
       /\ EndProcessed' = [EndProcessed EXCEPT ![s] = processed_trans'[s]]
       /\ EndToServer = Deliver(to_server, LettersToLeave)
       /\ EndToClient = Deliver(to_client, RepliesToLeave)
       /\ EndToServer' = Deliver(to_server', LettersToLeave)
       /\ EndToClient' = Deliver(to_client', RepliesToLeave)
    BY <1>0, <1>3, <1>5, <1>6, <1>9, StepAtRest
<1>11. EndSent' = [EndSent EXCEPT ![s] = IF closes THEN DeleteSent(Listed(EndSent[s]), r)
                                                   ELSE Listed(EndSent[s])]
    BY <1>7, <1>10
<1>12. EndProcessed' = IF executes THEN [EndProcessed EXCEPT ![s] = Record(@, q)]
                                   ELSE EndProcessed
  <2>1. EndProcessed = [t \in Servers |-> EndProcessed[t]]
      BY DEF EndProcessed
  <2> QED
      BY <1>8, <1>10, <2>1
<1>13. EndToServer' = Deliver(EndToServer, letters)
    BY <1>1, <1>5, <1>10, DeliverSwap
<1>14. EndToClient' = Deliver(EndToClient, answers)
    BY <1>1, <1>5, <1>10, DeliverSwap
<1>15. /\ EndFromPre[s] # <<>> /\ Head(EndFromPre[s]) = Head(from_pre[s])
       /\ EndFromPre' = IF inter THEN Forward(Pop(EndFromPre, s), s, q)
                                 ELSE Pop(EndFromPre, s)
    BY <1>0, <1>2, <1>3, <1>5, <1>9, ForwardStreams DEF inter
<1>16. /\ Head(EndFromPre[s]).op = "FORWARD" /\ Head(EndFromPre[s]).req = q
       /\ known = Handlers!InSent(EndSent[s], q)
    BY <1>2, <1>10, <1>15, SameOperators
<1>17. /\ balances = (IF executes THEN Handlers!UpdateBalance(Bank(s), balance_map[s], q)
                                  ELSE balance_map[s])
       /\ r = IF tail /\ known
              THEN [q EXCEPT !.status = Handlers!PreSendStatus(EndSent[s], q)] ELSE q
    BY <1>10, SameOperators DEF executes, tail
<1>18. /\ EndSent' = [EndSent EXCEPT ![s] =
                        IF closes THEN Handlers!DeleteSent(Listed(EndSent[s]), r)
                                  ELSE Listed(EndSent[s])]
       /\ EndProcessed' = IF executes THEN [EndProcessed EXCEPT ![s] = Handlers!Record(@, q)]
                                      ELSE EndProcessed
       /\ EndFromPre' = IF inter
                        THEN Handlers!Forward(Handlers!Pop(EndFromPre, s), s, q)
                        ELSE Handlers!Pop(EndFromPre, s)
       /\ from_next' = IF closes THEN Handlers!AckToPre(from_next, s, r) ELSE from_next
    BY <1>5, <1>11, <1>12, <1>15, SameOperators
<1>19. /\ EndToServer' = Handlers!Deliver(EndToServer,
                             IF ships THEN Handlers!ShipTransfer(s, r) ELSE {})
       /\ EndToClient' = Handlers!Deliver(EndToClient,
                             IF closes /\ ~Handlers!Receives(s, r)
                             THEN {Handlers!ReplyTo(r, Handlers!Outcome(r), balances)} ELSE {})
    BY <1>13, <1>14, SameOperators DEF letters, answers
<1>20. ships <=> tail /\ Handlers!PaysAbroad(s, r)
    BY SameOperators DEF ships
<1>21. /\ last_received_id' = [last_received_id EXCEPT ![s] = q.req_seq]
       /\ balance_map' = [balance_map EXCEPT ![s] = balances]
       /\ insuf_funds_trans' = IF q.status = "InsufficientFunds" /\ ~known
                               THEN [insuf_funds_trans EXCEPT ![s] = Append(@, q)]
                               ELSE insuf_funds_trans
       /\ UNCHANGED <<Handlers!topology, req_seq>>
       /\ Handlers!Bank(s) = Bank(s)
    BY <1>5, SameOperators DEF topology, Handlers!topology
<1>22. Handlers!RecForward(s)
    BY <1>15, <1>16, <1>17, <1>18, <1>19, <1>20, <1>21
    DEF Handlers!RecForward, inter, tail, executes, closes, Listed
<1> QED
    BY <1>9, <1>22

--------------------------------------------------------------------------------
\* The threads that read acknowledgements, while rec_client has an update in hand.

\* What rec_client will have made of a list of s when it is done.
AtEnd(s, list) ==
    LET longer == IF InHand(s, "list") THEN Append(list, hand[s].req) ELSE list
    IN  IF ToPass(s) /\ Closes(s, hand[s].req) THEN DeleteSent(longer, hand[s].req) ELSE longer

\* What is in hand stays there, and only the list of one server may change.
LEMMA ListStep ==
    ASSUME HandInvariant, HandInvariant', NEW s \in Servers,
           UNCHANGED <<hand, topology, processed_trans, balance_map, from_pre>>,
           \A t \in Servers \ {s} : sent'[t] = sent[t]
    PROVE  /\ EndSent' = [EndSent EXCEPT ![s] = EndSent'[s]]
           /\ EndProcessed' = EndProcessed /\ EndFromPre' = EndFromPre
           /\ EndToServer = Deliver(to_server, LettersToLeave)
           /\ EndToClient = Deliver(to_client, RepliesToLeave)
           /\ EndToServer' = Deliver(to_server', LettersToLeave)
           /\ EndToClient' = Deliver(to_client', RepliesToLeave)
           /\ EndSent'[s] = AtEnd(s, sent'[s]) /\ EndSent[s] = AtEnd(s, sent[s])
<1>1. EndTold /\ EndTold'
    BY EndTells, EndTellsAfter
<1>2. \A t \in Servers : (InHand(t, "list")' <=> InHand(t, "list"))
                         /\ (InHand(t, "pass")' <=> InHand(t, "pass"))
    BY DEF InHand
<1>3. \A t \in Servers : (ToList(t)' <=> InHand(t, "list")) /\ (ToList(t) <=> InHand(t, "list"))
                         /\ (ToPass(t)' <=> ToPass(t))
    BY <1>1, <1>2 DEF EndTold, AtWork, ToPass
<1>4. \A t \in Servers \ {s} : EndSent'[t] = EndSent[t]
    BY OthersRest
<1>5. EndSent' = [t \in Servers |-> EndSent'[t]] /\ EndSent = [t \in Servers |-> EndSent[t]]
    BY DEF EndSent
<1>6. EndSent' = [EndSent EXCEPT ![s] = EndSent'[s]]
    BY <1>4, <1>5
<1>7. EndProcessed' = EndProcessed
    BY <1>3 DEF EndProcessed
<1>8. EndFromPre' = EndFromPre
    BY StreamsRest
<1>9. \A t, q : /\ LeavingFor(t, q)' = LeavingFor(t, q)
                /\ RepliesLeaving(t, q)' = RepliesLeaving(t, q)
                /\ Closes(t, q)' <=> Closes(t, q)
    BY DEF LeavingFor, RepliesLeaving, Ships, Closes, ShipTransfer, AckTransfer, HeadOfBank,
           TailOfBank, topology
<1>10. Passing' = Passing
    BY <1>3 DEF Passing
<1>11. LettersToLeave' = LettersToLeave /\ RepliesToLeave' = RepliesToLeave
    BY <1>9, <1>10 DEF LettersToLeave, RepliesToLeave
<1>12. /\ EndToServer = Deliver(to_server, LettersToLeave)
       /\ EndToClient = Deliver(to_client, RepliesToLeave)
    BY <1>1 DEF EndTold
<1>13. /\ EndToServer' = Deliver(to_server', LettersToLeave')
       /\ EndToClient' = Deliver(to_client', RepliesToLeave')
    BY <1>1 DEF EndTold, Deliver
<1>14. EndSent'[s] = AtEnd(s, sent'[s])
  <2>1. Closes(s, hand[s].req)' <=> Closes(s, hand[s].req)
      BY DEF Closes, topology
  <2>2. (ToList(s)' <=> InHand(s, "list")) /\ (ToPass(s)' <=> ToPass(s))
      BY <1>3
  <2>3. EndSent'[s] = IF ToPass(s)' /\ Closes(s, hand[s].req)'
                      THEN DeleteSent(IF ToList(s)' THEN Append(sent'[s], hand'[s].req)
                                      ELSE sent'[s], hand'[s].req)
                      ELSE IF ToList(s)' THEN Append(sent'[s], hand'[s].req) ELSE sent'[s]
      BY DEF EndSent, ListedSent
  <2>4. hand'[s] = hand[s]
      OBVIOUS
  <2> QED
      BY <2>1, <2>2, <2>3, <2>4 DEF AtEnd
<1>15. EndSent[s] = AtEnd(s, sent[s])
    BY <1>3 DEF EndSent, ListedSent, AtEnd
<1>16. /\ EndToServer' = Deliver(to_server', LettersToLeave)
       /\ EndToClient' = Deliver(to_client', RepliesToLeave)
    BY <1>11, <1>13
<1> QED
    BY <1>6, <1>7, <1>8, <1>12, <1>14, <1>15, <1>16

\* A deletion by another thread can come before or after the rest of rec_client, save
\* when it is of the update in hand, and that is to stay in the list.
LEMMA DeletedAtEnd ==
    ASSUME HandInvariant, HandInvariant', NEW s \in Servers,
           UNCHANGED <<hand, topology, processed_trans, balance_map, from_pre>>,
           NEW q, sent' = [sent EXCEPT ![s] = DeleteSent(@, q)],
           InHand(s, "list") /\ ~Closes(s, hand[s].req) => NameOf(q) # NameOf(hand[s].req)
    PROVE  EndSent' = [EndSent EXCEPT ![s] = DeleteSent(@, q)]
<1>0. sent \in [Servers -> Seq(Request)]
    BY FrameOfHands
<1>1. /\ sent[s] \in Seq(Request) /\ sent'[s] = DeleteSent(sent[s], q)
      /\ \A t \in Servers \ {s} : sent'[t] = sent[t]
    BY <1>0
<1>2. sent'[s] \in Seq(Request) /\ Names(sent'[s]) \subseteq Names(sent[s])
    BY <1>1, NamesDelete
<1>3. EndSent' = [EndSent EXCEPT ![s] = EndSent'[s]]
    BY <1>1, ListStep
<1>4. EndSent'[s] = AtEnd(s, DeleteSent(sent[s], q)) /\ EndSent[s] = AtEnd(s, sent[s])
    BY <1>1, ListStep
<1>5. EndSent'[s] = DeleteSent(EndSent[s], q)
  <2>1. CASE InHand(s, "list") /\ Closes(s, hand[s].req)
    <3>1. ToPass(s) /\ hand[s].req \in Request /\ hand[s] # Idler
        BY <2>1, HandTells DEF ToPass, InHand, Idler
    <3>2. NameOf(hand[s].req) \notin Names(sent[s])
      <4>1. ~InSent(sent[s], hand[s].req)
          BY <2>1, <3>1 DEF HandInvariant, HandFresh, InHand
      <4> QED
          BY <1>1, <4>1, InSentNames
    <3>3. DeleteSent(Append(sent[s], hand[s].req), hand[s].req) = sent[s]
        BY <1>1, <3>1, <3>2, DeleteAppended
    <3>4. DeleteSent(Append(sent'[s], hand[s].req), hand[s].req) = sent'[s]
        BY <1>2, <3>1, <3>2, DeleteAppended
    <3> QED
        BY <1>1, <1>4, <2>1, <3>1, <3>3, <3>4 DEF AtEnd
  <2>2. CASE InHand(s, "list") /\ ~Closes(s, hand[s].req)
    <3>1. hand[s].req \in Request
        BY <2>2, HandTells DEF InHand, Idler
    <3>2. DeleteSent(Append(sent[s], hand[s].req), q) = Append(DeleteSent(sent[s], q), hand[s].req)
        BY <1>1, <2>2, <3>1, DeleteThenAppend
    <3> QED
        BY <1>4, <2>2, <3>2, <1>1 DEF AtEnd
  <2>3. CASE ~InHand(s, "list") /\ ToPass(s) /\ Closes(s, hand[s].req)
    <3>1. DeleteSent(DeleteSent(sent[s], q), hand[s].req) =
             DeleteSent(DeleteSent(sent[s], hand[s].req), q)
        BY <1>1, DeleteBoth
    <3> QED
        BY <1>4, <2>3, <3>1 DEF AtEnd
  <2>4. CASE ~InHand(s, "list") /\ ~(ToPass(s) /\ Closes(s, hand[s].req))
      BY <1>4, <2>4 DEF AtEnd
  <2> QED
      BY <2>1, <2>2, <2>3, <2>4
<1> QED
    BY <1>3, <1>5

\* An acknowledgement that a head can read names nothing that rec_client still has to
\* list: what is in hand is behind what the successor has not read.
LEMMA AckBehind ==
    ASSUME AtomicPremise, NEW s \in Servers, hand[s] # Idler, from_next[s] # <<>>
    PROVE  NameOf(Head(from_next[s])) # NameOf(hand[s].req)
<1>0. HandInvariant /\ EndPromises
    BY DEF AtomicPremise
<1>1. /\ TopologyInit /\ from_pre \in [Servers -> Seq(Forwards)]
      /\ from_next[s] \in Seq(Request) /\ StreamsAtEnd
    BY <1>0, FrameOfHands, EndTells DEF EndTold
<1>2. Heads(s) /\ hand[s].req \in Request
    BY <1>0, HandTells
<1>3. ~IsLast(s)
    BY <1>0 DEF EndPromises
<1>4. my_type[s] = "HEAD"
    BY <1>1, <1>2, <1>3, Places DEF Heads
<1> SUFFICES ASSUME NEW t, t = Next1(s)
             PROVE  NameOf(Head(from_next[s])) # NameOf(hand[s].req)
    OBVIOUS
<1>5. t \in Servers /\ ~IsFirst(t)
    BY <1>1, <1>4, Places
<1>6. <<s, t>> \in Neighbours
    BY <1>5 DEF Neighbours
<1>7. Prev1(t) = s
    BY <1>1, <1>6, NeighbourPair
<1>8. EndFromPre[t] = Append(from_pre[t], Forwarding(hand[s].req))
    BY <1>1, <1>5, <1>7 DEF StreamsAtEnd, Fed
<1>9. NameOf(hand[s].req) \in Names(Carried(EndFromPre[t]))
  <2>1. Forwarding(hand[s].req) \in Forwards /\ Forwarding(hand[s].req).req = hand[s].req
      BY <1>2 DEF Forwarding, Forwards
  <2>2. from_pre[t] \in Seq(Forwards)
      BY <1>1, <1>5
  <2>3. /\ Carried(from_pre[t]) \in Seq(Request)
        /\ Carried(EndFromPre[t]) = Append(Carried(from_pre[t]), hand[s].req)
      BY <1>8, <2>1, <2>2, CarriedList
  <2>4. Names(Append(Carried(from_pre[t]), hand[s].req)) =
           Names(Carried(from_pre[t])) \cup {NameOf(hand[s].req)}
      BY <1>2, <2>3, NamesAppend
  <2> QED
      BY <2>3, <2>4
<1>10. NameOf(Head(from_next[s])) \in Names(from_next[s])
  <2>1. Names(from_next[s]) = {NameOf(from_next[s][i]) : i \in 1 .. Len(from_next[s])}
      BY <1>1, NamesOfList
  <2>2. 1 \in 1 .. Len(from_next[s]) /\ Head(from_next[s]) = from_next[s][1]
      BY <1>1
  <2> QED
      BY <2>1, <2>2
<1>11. Names(Carried(EndFromPre[t])) \cap Names(from_next[s]) = {}
  <2>1. \A e \in Neighbours : Names(Carried(EndFromPre[e[2]])) \cap Names(from_next[e[1]]) = {}
      BY <1>0 DEF EndPromises
  <2> QED
      BY <1>6, <2>1
<1> QED
    BY <1>9, <1>10, <1>11

\* rec_msg_from_next_server, ACK, whatever rec_client has in hand.
LEMMA AckWhole ==
    ASSUME AtomicPremise, NEW s \in Servers, RecAck(s), UNCHANGED <<clientState, hand>>
    PROVE  HandInvariant' /\ Handlers!RecAck(s)
<1>0. HandInvariant /\ ThreadInvariant
    BY DEF AtomicPremise, HandInvariant
<1>1. /\ sent \in [Servers -> Seq(Request)] /\ TopologyInit
      /\ Orderly(to_server) /\ IsABag(to_server) /\ IsABag(to_client)
    BY <1>0, FrameOfHands DEF HandInvariant, Orderly
<1>2. ThreadInvariant'
    BY <1>0, OtherThreadsKeep DEF OtherThreads
<1> SUFFICES ASSUME NEW q, q = Head(from_next[s]) PROVE HandInvariant' /\ Handlers!RecAck(s)
    OBVIOUS
<1> DEFINE letters == IF my_type[s] = "HEAD" /\ Receives(s, q) THEN AckTransfer(s, q) ELSE {}
<1>3. /\ from_next[s] # <<>>
      /\ sent' = [sent EXCEPT ![s] = DeleteSent(@, q)]
      /\ from_next' = IF Heads(s) THEN Pop(from_next, s) ELSE AckToPre(Pop(from_next, s), s, q)
      /\ to_server' = Deliver(to_server, letters)
      /\ UNCHANGED <<topology, req_seq, last_received_id, balance_map, processed_trans,
                     insuf_funds_trans, from_pre, to_client>>
    BY DEF RecAck
<1>4. \A t \in Servers \ {s} : sent'[t] = sent[t]
    BY <1>1, <1>3
<1>5. HandInvariant'
  <2>1. \A x \in letters : x.req.dest_bank_id \in Banks
    <3>1. Bank(s) \in Banks
        BY <1>1, Places
    <3> QED
        BY <3>1 DEF AckTransfer, Mail, Receives
  <2> HIDE DEF letters
  <2>2. Orderly(to_server')
      BY <1>1, <1>3, <2>1, OrderlyDeliver
  <2>3. IsABag(to_client')
      BY <1>1, <1>3
  <2>4. \A t \in Servers : Names(sent'[t]) \subseteq Names(sent[t])
    <3>1. sent[s] \in Seq(Request) /\ sent'[s] = DeleteSent(sent[s], q)
        BY <1>1, <1>3
    <3>2. Names(sent'[s]) \subseteq Names(sent[s])
        BY <3>1, NamesDelete
    <3> QED
        BY <1>4, <3>2
  <2>5. UNCHANGED hand
      OBVIOUS
  <2> QED
      BY <1>0, <1>2, <2>2, <2>3, <2>4, <2>5, HandsRest
<1>6. InHand(s, "list") => NameOf(q) # NameOf(hand[s].req)
  <2>1. InHand(s, "list") => hand[s] # Idler
      BY DEF InHand, Idler
  <2> QED
      BY <1>3, <2>1, AckBehind
<1> HIDE DEF letters
<1>7. UNCHANGED <<hand, topology, processed_trans, balance_map, from_pre>>
    BY <1>3
<1>8. EndSent' = [EndSent EXCEPT ![s] = DeleteSent(@, q)]
    BY <1>0, <1>3, <1>5, <1>6, <1>7, DeletedAtEnd
<1>9. /\ EndProcessed' = EndProcessed /\ EndFromPre' = EndFromPre
      /\ EndToServer = Deliver(to_server, LettersToLeave)
      /\ EndToClient = Deliver(to_client, RepliesToLeave)
      /\ EndToServer' = Deliver(to_server', LettersToLeave)
      /\ EndToClient' = Deliver(to_client', RepliesToLeave)
    BY <1>0, <1>4, <1>5, <1>7, ListStep
<1>10. EndToServer' = Deliver(EndToServer, letters)
    BY <1>1, <1>3, <1>9, DeliverSwap
<1>11. EndToClient' = EndToClient
    BY <1>3, <1>9
<1>12. /\ EndSent' = [EndSent EXCEPT ![s] = Handlers!DeleteSent(@, q)]
       /\ from_next' = IF Handlers!Heads(s) THEN Handlers!Pop(from_next, s)
                       ELSE Handlers!AckToPre(Handlers!Pop(from_next, s), s, q)
    BY <1>3, <1>8, SameOperators
<1>13. EndToServer' = Handlers!Deliver(EndToServer,
                         IF my_type[s] = "HEAD" /\ Handlers!Receives(s, q)
                         THEN Handlers!AckTransfer(s, q) ELSE {})
    BY <1>10, SameOperators DEF letters
<1>14. UNCHANGED <<Handlers!topology, req_seq, last_received_id, balance_map, EndProcessed,
                   insuf_funds_trans, EndFromPre, EndToClient>>
    BY <1>3, <1>9, <1>11 DEF topology, Handlers!topology
<1>15. Handlers!RecAck(s)
    BY <1>3, <1>12, <1>13, <1>14 DEF Handlers!RecAck
<1> QED
    BY <1>5, <1>15

\* Copies of one name are drawn on one queue entry, so they name one payee.
LEMMA SamePayee ==
    ASSUME NEW q \in Request, NEW r \in Request, Genuine(q), Genuine(r), NameOf(q) = NameOf(r)
    PROVE  q.dest_bank_id = r.dest_bank_id
<1>1. q.client_port = r.client_port /\ q.sent_id = r.sent_id
    BY DEF NameOf
<1> SUFFICES ASSUME NEW e, e = Queue(q.client_port)[q.sent_id]
             PROVE  q.dest_bank_id = r.dest_bank_id
    OBVIOUS
<1>2. /\ q = [e EXCEPT !.req_seq = q.req_seq, !.status = q.status]
      /\ r = [e EXCEPT !.req_seq = r.req_seq, !.status = r.status]
    BY <1>1 DEF Genuine
<1>3. e \in Request
  <2>1. /\ q.client_port \in Clients /\ q.sent_id \in 1 .. Len(Queue(q.client_port))
        /\ Queue(q.client_port) \in Seq(Request)
      BY WorkloadAssumption DEF Request, Genuine, Queue
  <2> QED
      BY <2>1
<1> QED
    BY <1>2, <1>3 DEF Request

\* The acknowledgement of a transfer does not name one that the single server of a bank
\* has debited and still has to list and to ship.
LEMMA AckOfOther ==
    ASSUME AtomicPremise, NEW s \in Servers, hand[s] # Idler, ~Closes(s, hand[s].req),
           NEW m \in DOMAIN to_server, m.op = "TRANS_ACK", m.to = s
    PROVE  NameOf(m.req) # NameOf(hand[s].req)
<1>0. HandInvariant /\ EndPromises
    BY DEF AtomicPremise
<1>1. TopologyInit /\ IsABag(to_server)
    BY <1>0, FrameOfHands DEF HandInvariant, Orderly
<1> SUFFICES ASSUME NEW h, h = hand[s].req, NameOf(m.req) = NameOf(h) PROVE FALSE
    OBVIOUS
<1>2. Heads(s) /\ h \in Request /\ h \in Reached(Bank(s))
    BY <1>0, HandTells
<1>3. RightMail(m) /\ m.req \in Request /\ m \in DOMAIN EndToServer
    BY LetterTells
<1>4. m.req \in Reached(BankOf[m.req.client_port]) /\ s = LastServer(BankOf[m.req.client_port])
    BY <1>3 DEF RightMail
<1>5. IsLast(s)
    BY <1>4 DEF IsLast, LastServer, Bank
<1>6. my_type[s] = "HEAD_TAIL"
    BY <1>1, <1>2, <1>5, Places DEF Heads
<1>7. Ships(s, h)
    BY <1>6 DEF Closes, Ships
<1>8. h.dest_bank_id \in Banks
  <2>1. m.req.dest_bank_id \in Banks
      BY <1>0 DEF HandInvariant, Orderly
  <2>2. Genuine(m.req) /\ Genuine(h)
      BY <1>2, <1>4 DEF Reached
  <2> QED
      BY <1>2, <1>3, <2>1, <2>2, SamePayee
<1>9. FirstServer(h.dest_bank_id) # NoServer
  <2>1. h.dest_bank_id # NoBank
      BY <1>8, NoBankAssumption
  <2> QED
      BY <2>1 DEF FirstServer, NoServer
<1> SUFFICES ASSUME NEW x, x = Mail("REQUEST", FirstServer(h.dest_bank_id), h) PROVE FALSE
    OBVIOUS
<1>10. LeavingFor(s, h) = {x}
  <2>1. HeadOfBank(s, h.dest_bank_id) = FirstServer(h.dest_bank_id)
      BY <1>1, <1>8 DEF HeadOfBank, TopologyInit
  <2> QED
      BY <1>7, <2>1 DEF LeavingFor, ShipTransfer
<1>11. x \in LettersToLeave
  <2>1. LettersToLeave = LeavingFor(s, h) \cup OtherLetters(s)
      BY <1>0, EndTells DEF EndTold
  <2> QED
      BY <1>10, <2>1
<1>12. x.to # NoServer /\ x.op = "REQUEST" /\ x.req = h
    BY <1>9 DEF Mail
<1>13. x \in DOMAIN EndToServer
  <2>1. EndToServer = Deliver(to_server, LettersToLeave)
      BY <1>0, EndTells DEF EndTold
  <2> QED
      BY <1>1, <1>11, <1>12, <2>1, CopiesDelivered
<1> QED
    BY <1>0, <1>3, <1>12, <1>13 DEF EndPromises

\* rec_other_bank, TRANS_ACK, whatever rec_client has in hand.
LEMMA OtherBankWhole ==
    ASSUME AtomicPremise, NEW s \in Servers, RecOtherBank(s), UNCHANGED <<clientState, hand>>
    PROVE  HandInvariant' /\ Handlers!RecOtherBank(s)
<1>0. HandInvariant /\ ThreadInvariant
    BY DEF AtomicPremise, HandInvariant
<1>1. /\ sent \in [Servers -> Seq(Request)] /\ TopologyInit
      /\ Orderly(to_server) /\ IsABag(to_server) /\ IsABag(to_client)
    BY <1>0, FrameOfHands DEF HandInvariant, Orderly
<1>2. ThreadInvariant'
    BY <1>0, OtherThreadsKeep DEF OtherThreads
<1>3. PICK m \in DOMAIN to_server :
         /\ m.to = s /\ m.op = "TRANS_ACK"
         /\ sent' = [sent EXCEPT ![s] = DeleteSent(@, m.req)]
         /\ from_next' = IF Heads(s) THEN from_next ELSE AckToPre(from_next, s, m.req)
         /\ to_server' = Take(to_server, m)
         /\ to_client' = Deliver(to_client, {ReplyTo(m.req, Outcome(m.req), balance_map[s])})
    BY DEF RecOtherBank
<1>4. UNCHANGED <<topology, req_seq, last_received_id, balance_map, processed_trans,
                  insuf_funds_trans, from_pre>>
    BY DEF RecOtherBank
<1> SUFFICES ASSUME NEW q, q = m.req PROVE HandInvariant' /\ Handlers!RecOtherBank(s)
    OBVIOUS
<1>5. \A t \in Servers \ {s} : sent'[t] = sent[t]
    BY <1>1, <1>3
<1>6. HandInvariant'
  <2>1. Orderly(to_server') /\ IsABag(to_client')
      BY <1>1, <1>3, OrderlyTake, CopiesDelivered
  <2>2. \A t \in Servers : Names(sent'[t]) \subseteq Names(sent[t])
    <3>1. sent[s] \in Seq(Request) /\ sent'[s] = DeleteSent(sent[s], q)
        BY <1>1, <1>3
    <3>2. Names(sent'[s]) \subseteq Names(sent[s])
        BY <3>1, NamesDelete
    <3> QED
        BY <1>5, <3>2
  <2>3. UNCHANGED hand
      OBVIOUS
  <2> QED
      BY <1>0, <1>2, <2>1, <2>2, <2>3, HandsRest
<1>7. InHand(s, "list") /\ ~Closes(s, hand[s].req) => NameOf(q) # NameOf(hand[s].req)
  <2>1. InHand(s, "list") => hand[s] # Idler
      BY DEF InHand, Idler
  <2> QED
      BY <1>3, <2>1, AckOfOther
<1>8. UNCHANGED <<hand, topology, processed_trans, balance_map, from_pre>>
    BY <1>4
<1>9. EndSent' = [EndSent EXCEPT ![s] = DeleteSent(@, q)]
  <2>1. sent' = [sent EXCEPT ![s] = DeleteSent(@, q)]
      BY <1>3
  <2> QED
      BY <1>0, <1>6, <1>7, <1>8, <2>1, DeletedAtEnd
<1>10. /\ EndProcessed' = EndProcessed /\ EndFromPre' = EndFromPre
       /\ EndToServer = Deliver(to_server, LettersToLeave)
       /\ EndToClient = Deliver(to_client, RepliesToLeave)
       /\ EndToServer' = Deliver(to_server', LettersToLeave)
       /\ EndToClient' = Deliver(to_client', RepliesToLeave)
    BY <1>0, <1>5, <1>6, <1>8, ListStep
<1>11. EndToServer' = Take(EndToServer, m)
    BY <1>1, <1>3, <1>10, TakeSwap
<1>12. EndToClient' = Deliver(EndToClient, {ReplyTo(q, Outcome(q), balance_map[s])})
    BY <1>1, <1>3, <1>10, DeliverSwap
<1>13. m \in DOMAIN EndToServer
    BY LetterTells
<1>14. /\ EndSent' = [EndSent EXCEPT ![s] = Handlers!DeleteSent(@, q)]
       /\ from_next' = IF Handlers!Heads(s) THEN from_next
                       ELSE Handlers!AckToPre(from_next, s, q)
       /\ EndToServer' = Handlers!Take(EndToServer, m)
       /\ EndToClient' = Handlers!Deliver(EndToClient,
                            {Handlers!ReplyTo(q, Handlers!Outcome(q), balance_map[s])})
    BY <1>3, <1>9, <1>11, <1>12, SameOperators
<1>15. UNCHANGED <<Handlers!topology, req_seq, last_received_id, balance_map, EndProcessed,
                   insuf_funds_trans, EndFromPre>>
    BY <1>4, <1>10 DEF topology, Handlers!topology
<1>16. Handlers!RecOtherBank(s)
    BY <1>3, <1>13, <1>14, <1>15 DEF Handlers!RecOtherBank
<1> QED
    BY <1>6, <1>16

--------------------------------------------------------------------------------
\* The clients and the network.

\* Nothing sent is a delivery of nothing.
LEMMA NothingPosted ==
    ASSUME to_server' = to_server
    PROVE  \E letters : /\ \A x \in letters : x.op # "TRANS_ACK"
                        /\ letters # {} => to_server' = Deliver(to_server, letters)
                        /\ letters = {} => to_server' = to_server
<1> SUFFICES ASSUME NEW letters, letters = {}
             PROVE  /\ \A x \in letters : x.op # "TRANS_ACK"
                    /\ letters # {} => to_server' = Deliver(to_server, letters)
                    /\ letters = {} => to_server' = to_server
    OBVIOUS
<1> QED
    OBVIOUS

\* A client sends a request, or nothing.
LEMMA RequestSent ==
    ASSUME NEW c, NEW n, SendRequest(c, n)
    PROVE  \E letters : /\ \A x \in letters : x.op # "TRANS_ACK"
                        /\ letters # {} => to_server' = Deliver(to_server, letters)
                        /\ letters = {} => to_server' = to_server
<1>1. CASE next_req[c] < Len(Queue(c)) /\ n = next_req[c]
  <2> SUFFICES ASSUME NEW letters,
                      letters = {Mail("REQUEST", PortFor(c, Queue(c)[next_req[c] + 1]),
                                      Queue(c)[next_req[c] + 1])}
               PROVE  /\ \A x \in letters : x.op # "TRANS_ACK"
                      /\ letters # {}
                      /\ to_server' = Deliver(to_server, letters)
      OBVIOUS
  <2> QED
      BY <1>1 DEF SendRequest, SendTo, Mail
<1>2. CASE ~(next_req[c] < Len(Queue(c)) /\ n = next_req[c])
  <2>1. to_server' = to_server
      BY <1>2 DEF SendRequest
  <2> QED
      BY <2>1, NothingPosted
<1> QED
    BY <1>1, <1>2

\* What a step of a client does to the network.
LEMMA ClientPosts ==
    ASSUME NEW c \in Clients, ClientStep(c)
    PROVE  /\ UNCHANGED serverState
           /\ \E letters : /\ \A x \in letters : x.op # "TRANS_ACK"
                           /\ letters # {} => to_server' = Deliver(to_server, letters)
                           /\ letters = {} => to_server' = to_server
           /\ \/ to_client' = to_client
              \/ \E m \in DOMAIN to_client : to_client' = Take(to_client, m)
<1>1. CASE StartClient(c)
    BY <1>1, RequestSent DEF StartClient
<1>2. CASE RecvReply(c)
    BY <1>2, RequestSent DEF RecvReply
<1>3. CASE RecvSetHeadTail(c)
    BY <1>3, NothingPosted DEF RecvSetHeadTail
<1>4. ASSUME NEW k \in 1 .. Len(Queue(c)), CheckReceive(c, k)
      PROVE  /\ UNCHANGED serverState /\ to_client' = to_client
             /\ \E letters : /\ \A x \in letters : x.op # "TRANS_ACK"
                             /\ letters # {} => to_server' = Deliver(to_server, letters)
                             /\ letters = {} => to_server' = to_server
  <2>1. \/ to_server' = to_server
        \/ \E q : to_server' = Deliver(to_server, {Mail("REQUEST", PortFor(c, q), q)})
      BY <1>4 DEF CheckReceive, SendTo
  <2>2. UNCHANGED serverState /\ to_client' = to_client
      BY <1>4 DEF CheckReceive
  <2>3. ASSUME NEW q, to_server' = Deliver(to_server, {Mail("REQUEST", PortFor(c, q), q)})
        PROVE  \E letters : /\ \A x \in letters : x.op # "TRANS_ACK"
                            /\ letters # {} => to_server' = Deliver(to_server, letters)
                            /\ letters = {} => to_server' = to_server
    <3>1. \A x \in {Mail("REQUEST", PortFor(c, q), q)} : x.op # "TRANS_ACK"
        BY DEF Mail
    <3> QED
        BY <2>3, <3>1
  <2> QED
      BY <2>1, <2>2, <2>3, NothingPosted
<1> QED
    BY <1>1, <1>2, <1>3, <1>4 DEF ClientStep, RecvMsg

\* Neither a client nor the loss of a datagram touches what is in hand.
LEMMA HandsInPeace ==
    ASSUME HandInvariant, UNCHANGED hand,
           Lose \/ (\E c \in Clients : ClientStep(c))
    PROVE  HandInvariant' /\ UNCHANGED serverState
<1>1. UNCHANGED serverState
    BY ClientPosts DEF Lose
<1>2. Orderly(to_server) /\ IsABag(to_client)
    BY DEF HandInvariant
<1>3. Orderly(to_server')
  <2>1. CASE Lose
      BY <1>2, <2>1, OrderlyTake DEF Lose
  <2>2. ASSUME NEW c \in Clients, ClientStep(c) PROVE Orderly(to_server')
    <3>1. PICK letters : /\ \A x \in letters : x.op # "TRANS_ACK"
                         /\ letters # {} => to_server' = Deliver(to_server, letters)
                         /\ letters = {} => to_server' = to_server
        BY <2>2, ClientPosts
    <3>2. Orderly(Deliver(to_server, letters))
        BY <1>2, <3>1, OrderlyDeliver
    <3> QED
        BY <1>2, <3>1, <3>2
  <2> QED
      BY <2>1, <2>2
<1>4. IsABag(to_client')
  <2>1. CASE Lose
      BY <1>2, <2>1, CopiesTaken DEF Lose
  <2>2. ASSUME NEW c \in Clients, ClientStep(c) PROVE IsABag(to_client')
      BY <1>2, <2>2, ClientPosts, CopiesTaken
  <2> QED
      BY <2>1, <2>2
<1>5. ThreadInvariant'
  <2>1. ThreadInvariant
      BY DEF HandInvariant
  <2>2. QuietStep /\ [Next]_vars
      BY DEF QuietStep, Next
  <2> QED
      BY <2>1, <2>2, QuietStepKeeps
<1>6. sent' = sent
    BY <1>1 DEF serverState
<1> QED
    BY <1>1, <1>3, <1>4, <1>5, <1>6, HandsRest

\* Where no server moves, what leaves the heads is the same.
LEMMA ServersRest ==
    ASSUME HandInvariant, HandInvariant', UNCHANGED <<serverState, hand>>
    PROVE  /\ UNCHANGED Handlers!serverState
           /\ EndToServer = Deliver(to_server, LettersToLeave)
           /\ EndToClient = Deliver(to_client, RepliesToLeave)
           /\ EndToServer' = Deliver(to_server', LettersToLeave)
           /\ EndToClient' = Deliver(to_client', RepliesToLeave)
<1>0. UNCHANGED <<topology, req_seq, last_received_id, balance_map, processed_trans,
                  insuf_funds_trans, sent, from_pre, from_next, hand>>
    BY DEF serverState
<1>1. EndTold /\ EndTold'
    BY EndTells, EndTellsAfter
<1>2. \A t, q : /\ LeavingFor(t, q)' = LeavingFor(t, q)
                /\ RepliesLeaving(t, q)' = RepliesLeaving(t, q)
                /\ Closes(t, q)' <=> Closes(t, q)
    BY <1>0 DEF LeavingFor, RepliesLeaving, Ships, Closes, ShipTransfer, AckTransfer,
                HeadOfBank, TailOfBank, topology
<1>3. \A t \in Servers : (ToPass(t)' <=> ToPass(t)) /\ (ToList(t)' <=> ToList(t))
    BY <1>0 DEF ToPass, ToList, InHand
<1>4. Passing' = Passing
    BY <1>3 DEF Passing
<1>5. LettersToLeave' = LettersToLeave /\ RepliesToLeave' = RepliesToLeave
    BY <1>0, <1>2, <1>4 DEF LettersToLeave, RepliesToLeave
<1>6. /\ EndToServer = Deliver(to_server, LettersToLeave)
      /\ EndToClient = Deliver(to_client, RepliesToLeave)
    BY <1>1 DEF EndTold
<1>7. /\ EndToServer' = Deliver(to_server', LettersToLeave')
      /\ EndToClient' = Deliver(to_client', RepliesToLeave')
    BY <1>1 DEF EndTold, Deliver
<1>8. /\ EndToServer' = Deliver(to_server', LettersToLeave)
      /\ EndToClient' = Deliver(to_client', RepliesToLeave)
    BY <1>5, <1>7
<1>9. EndFromPre' = EndFromPre
    BY <1>0, StreamsRest
<1>10. EndProcessed' = EndProcessed
    BY <1>0, <1>3 DEF EndProcessed
<1>11. EndSent' = EndSent
  <2>1. \A t \in Servers : ListedSent(t)' = ListedSent(t)
      BY <1>0, <1>3 DEF ListedSent
  <2> QED
      BY <1>0, <1>2, <1>3, <2>1 DEF EndSent
<1>12. UNCHANGED Handlers!serverState
    BY <1>0, <1>9, <1>10, <1>11 DEF topology, Handlers!topology, Handlers!serverState
<1> QED
    BY <1>6, <1>8, <1>12

\* A request that is sent is sent at the end too.
LEMMA SendWhole ==
    ASSUME IsABag(to_server), NEW L, EndToServer = Deliver(to_server, L),
           EndToServer' = Deliver(to_server', L), NEW c, NEW n, SendRequest(c, n)
    PROVE  Handlers!SendRequest(c, n)
<1>1. CASE next_req[c] < Len(Queue(c)) /\ n = next_req[c]
  <2> SUFFICES ASSUME NEW q, q = Queue(c)[next_req[c] + 1],
                      NEW x, x = {Mail("REQUEST", PortFor(c, q), q)}
               PROVE  Handlers!SendRequest(c, n)
      OBVIOUS
  <2>1. /\ next_req' = [next_req EXCEPT ![c] = @ + 1]
        /\ to_server' = Deliver(to_server, x)
      BY <1>1 DEF SendRequest, SendTo
  <2>2. EndToServer' = Deliver(EndToServer, x)
      BY <2>1, DeliverSwap
  <2>3. EndToServer' = Handlers!Deliver(EndToServer,
                          {Handlers!Mail("REQUEST", Handlers!PortFor(c, q), q)})
      BY <2>2, SameOperators
  <2>4. Handlers!Queue(c) = Queue(c)
      BY SameOperators
  <2> QED
      BY <1>1, <2>1, <2>3, <2>4 DEF Handlers!SendRequest, Handlers!SendTo
<1>2. CASE ~(next_req[c] < Len(Queue(c)) /\ n = next_req[c])
  <2>1. UNCHANGED <<next_req, to_server>>
      BY <1>2 DEF SendRequest
  <2>2. EndToServer' = EndToServer /\ Handlers!Queue(c) = Queue(c)
      BY <2>1, SameOperators
  <2> QED
      BY <1>2, <2>1, <2>2 DEF Handlers!SendRequest
<1> QED
    BY <1>1, <1>2

\* A step of a client is one at the end.
LEMMA ClientWhole ==
    ASSUME HandInvariant, NEW c \in Clients, ClientStep(c), UNCHANGED hand
    PROVE  HandInvariant' /\ Handlers!ClientStep(c)
<1>0. HandInvariant' /\ UNCHANGED serverState /\ IsABag(to_server) /\ IsABag(to_client)
    BY HandsInPeace DEF HandInvariant, Orderly
<1>1. /\ UNCHANGED Handlers!serverState
      /\ EndToServer = Deliver(to_server, LettersToLeave)
      /\ EndToClient = Deliver(to_client, RepliesToLeave)
      /\ EndToServer' = Deliver(to_server', LettersToLeave)
      /\ EndToClient' = Deliver(to_client', RepliesToLeave)
    BY <1>0, ServersRest
<1>2. \A n : SendRequest(c, n) => Handlers!SendRequest(c, n)
    BY <1>0, <1>1, SendWhole
<1>3. to_client' = to_client => EndToClient' = EndToClient
    BY <1>1
<1>4. \A m \in DOMAIN to_client : /\ m \in DOMAIN EndToClient
                                  /\ to_client' = Take(to_client, m) =>
                                        EndToClient' = Handlers!Take(EndToClient, m)
  <2>1. DOMAIN to_client \subseteq DOMAIN EndToClient
      BY <1>0, <1>1, CopiesDelivered
  <2>2. \A m \in DOMAIN to_client : to_client' = Take(to_client, m) =>
                                        EndToClient' = Take(EndToClient, m)
      BY <1>0, <1>1, TakeSwap
  <2> QED
      BY <2>1, <2>2, SameOperators
<1>5. CASE StartClient(c)
  <2>1. Handlers!NoServer = NoServer
      BY SameOperators
  <2>2. EndToClient' = EndToClient /\ Handlers!SendRequest(c, last_rec_id[c])
      BY <1>2, <1>3, <1>5 DEF StartClient
  <2>3. Handlers!StartClient(c)
      BY <1>1, <1>5, <2>1, <2>2 DEF StartClient, Handlers!StartClient
  <2> QED
      BY <1>0, <2>3 DEF Handlers!ClientStep
<1>6. CASE RecvReply(c)
  <2>1. PICK m \in DOMAIN to_client :
           /\ m.to = c /\ m.op = "SER_RPY"
           /\ recv_table' = [recv_table EXCEPT ![c] = @ \cup {m.sent_id}]
           /\ last_rec_id' = [last_rec_id EXCEPT ![c] = @ + 1]
           /\ log' = [log EXCEPT ![c] = Append(@, m)]
           /\ SendRequest(c, last_rec_id[c] + 1)
           /\ to_client' = Take(to_client, m)
      BY <1>6 DEF RecvReply
  <2>2. /\ Handlers!SendRequest(c, last_rec_id[c] + 1)
        /\ m \in DOMAIN EndToClient /\ EndToClient' = Handlers!Take(EndToClient, m)
      BY <1>2, <1>4, <2>1
  <2>3. UNCHANGED <<started, head_port, tail_port, my_resend_time>>
      BY <1>6 DEF RecvReply
  <2>4. Handlers!RecvReply(c)
      BY <1>1, <2>1, <2>2, <2>3 DEF Handlers!RecvReply
  <2> QED
      BY <1>0, <2>4 DEF Handlers!ClientStep, Handlers!RecvMsg
<1>7. CASE RecvSetHeadTail(c)
  <2>1. PICK m \in DOMAIN to_client :
           /\ m.to = c /\ m.op = "SET_HEAD_TAIL"
           /\ head_port' = IF m.bank_id = BankOf[c]
                           THEN [head_port EXCEPT ![c] = m.head_port] ELSE head_port
           /\ tail_port' = IF m.bank_id = BankOf[c]
                           THEN [tail_port EXCEPT ![c] = m.tail_port] ELSE tail_port
           /\ to_client' = Take(to_client, m)
      BY <1>7 DEF RecvSetHeadTail
  <2>2. m \in DOMAIN EndToClient /\ EndToClient' = Handlers!Take(EndToClient, m)
      BY <1>4, <2>1
  <2>3. UNCHANGED <<to_server, started, next_req, recv_table, last_rec_id, my_resend_time, log>>
      BY <1>7 DEF RecvSetHeadTail
  <2>4. EndToServer' = EndToServer
      BY <1>1, <2>3
  <2>5. Handlers!RecvSetHeadTail(c)
      BY <1>1, <2>1, <2>2, <2>3, <2>4 DEF Handlers!RecvSetHeadTail
  <2> QED
      BY <1>0, <2>5 DEF Handlers!ClientStep, Handlers!RecvMsg
<1>8. ASSUME NEW k \in 1 .. Len(Queue(c)), CheckReceive(c, k)
      PROVE  Handlers!ClientStep(c)
  <2> DEFINE Again(g) == [Queue(c)[k] EXCEPT !.req_seq = 0,
                                             !.dest_bank_id = g.dest_bank_id,
                                             !.dest_account_num = g.dest_account_num,
                                             !.source_bank_id = g.source_bank_id]
  <2>1. PICK g \in Leftovers :
           to_server' = IF Again(g).type = "" THEN to_server
                        ELSE SendTo(PortFor(c, Again(g)), Again(g))
      BY <1>8 DEF CheckReceive
  <2> SUFFICES ASSUME NEW q, q = Again(g),
                      NEW x, x = {Mail("REQUEST", PortFor(c, q), q)}
               PROVE  Handlers!ClientStep(c)
      OBVIOUS
  <2>2. to_server' = IF q.type = "" THEN to_server ELSE Deliver(to_server, x)
      BY <2>1 DEF SendTo
  <2>3. EndToServer' = IF q.type = "" THEN EndToServer ELSE Deliver(EndToServer, x)
    <3>1. CASE q.type = ""
        BY <1>1, <2>2, <3>1
    <3>2. CASE q.type # ""
      <4>1. to_server' = Deliver(to_server, x)
          BY <2>2, <3>2
      <4>2. Deliver(Deliver(to_server, x), LettersToLeave) =
               Deliver(Deliver(to_server, LettersToLeave), x)
          BY <1>0, DeliverSwap
      <4> QED
          BY <1>1, <3>2, <4>1, <4>2
    <3> QED
        BY <3>1, <3>2
  <2>4. EndToServer' = IF q.type = "" THEN EndToServer
                       ELSE Handlers!Deliver(EndToServer,
                               {Handlers!Mail("REQUEST", Handlers!PortFor(c, q), q)})
      BY <2>3, SameOperators
  <2>5. /\ k <= next_req[c] /\ whether_resend_newhead[c] /\ k \notin recv_table[c]
        /\ my_resend_time[c][k] < resend_times[c] /\ last_rec_id[c] = k - 1
        /\ my_resend_time' = [my_resend_time EXCEPT ![c][k] = @ + 1]
        /\ UNCHANGED <<to_client, started, head_port, tail_port, next_req, recv_table,
                       last_rec_id, log>>
      BY <1>8 DEF CheckReceive
  <2>6. EndToClient' = EndToClient
      BY <1>3, <2>5
  <2>7. Handlers!Queue(c) = Queue(c)
      BY SameOperators
  <2>8. Handlers!CheckReceive(c, k)
      BY <1>1, <2>4, <2>5, <2>6, <2>7 DEF Handlers!CheckReceive, Handlers!SendTo, Again
  <2> QED
      BY <2>7, <2>8 DEF Handlers!ClientStep
<1> QED
    BY <1>0, <1>5, <1>6, <1>7, <1>8 DEF ClientStep, RecvMsg

\* So is the loss of a datagram.
LEMMA LoseWhole ==
    ASSUME HandInvariant, Lose, UNCHANGED hand
    PROVE  HandInvariant' /\ Handlers!Lose
<1>0. HandInvariant' /\ UNCHANGED serverState /\ IsABag(to_server) /\ IsABag(to_client)
    BY HandsInPeace DEF HandInvariant, Orderly
<1>1. /\ UNCHANGED Handlers!serverState
      /\ EndToServer = Deliver(to_server, LettersToLeave)
      /\ EndToClient = Deliver(to_client, RepliesToLeave)
      /\ EndToServer' = Deliver(to_server', LettersToLeave)
      /\ EndToClient' = Deliver(to_client', RepliesToLeave)
    BY <1>0, ServersRest
<1>2. UNCHANGED Handlers!clientState
    BY DEF Lose, clientState, Handlers!clientState
<1>3. CASE \E m \in DOMAIN to_server : /\ m.op \in LossyOps
                                       /\ to_server' = Take(to_server, m)
                                       /\ UNCHANGED <<serverState, clientState, to_client>>
  <2>1. PICK m \in DOMAIN to_server : /\ m.op \in LossyOps
                                      /\ to_server' = Take(to_server, m)
                                      /\ to_client' = to_client
      BY <1>3
  <2>2. m \in DOMAIN EndToServer
      BY <1>0, <1>1, CopiesDelivered
  <2>3. EndToServer' = Take(EndToServer, m)
      BY <1>0, <1>1, <2>1, TakeSwap
  <2>4. EndToServer' = Handlers!Take(EndToServer, m) /\ EndToClient' = EndToClient
      BY <1>1, <2>1, <2>3, SameOperators
  <2> QED
      BY <1>0, <1>1, <1>2, <2>1, <2>2, <2>4 DEF Handlers!Lose
<1>4. CASE \E m \in DOMAIN to_client : /\ m.op \in LossyOps
                                       /\ to_client' = Take(to_client, m)
                                       /\ UNCHANGED <<serverState, clientState, to_server>>
  <2>1. PICK m \in DOMAIN to_client : /\ m.op \in LossyOps
                                      /\ to_client' = Take(to_client, m)
                                      /\ to_server' = to_server
      BY <1>4
  <2>2. m \in DOMAIN EndToClient
      BY <1>0, <1>1, CopiesDelivered
  <2>3. EndToClient' = Take(EndToClient, m)
      BY <1>0, <1>1, <2>1, TakeSwap
  <2>4. EndToClient' = Handlers!Take(EndToClient, m) /\ EndToServer' = EndToServer
      BY <1>1, <2>1, <2>3, SameOperators
  <2> QED
      BY <1>0, <1>1, <1>2, <2>1, <2>2, <2>4 DEF Handlers!Lose
<1> QED
    BY <1>3, <1>4 DEF Lose

--------------------------------------------------------------------------------
\* Every step of a thread is a step of Chain, or none, at the end.

\* A handler of Chain at the end is a step of Chain.
LEMMA HandlerSteps ==
    ASSUME NEW s \in Servers, UNCHANGED clientState,
           \/ Handlers!RecUpdate(s) \/ Handlers!RecQuery(s) \/ Handlers!RecUnknown(s)
           \/ Handlers!RecForward(s) \/ Handlers!RecAck(s) \/ Handlers!RecOtherBank(s)
    PROVE  Handlers!Next
<1>1. Handlers!ReceiveStep(s)
    BY DEF Handlers!ReceiveStep, Handlers!RecClient
<1>2. Handlers!ServerStep(s)
    BY <1>1 DEF Handlers!ServerStep, Handlers!clientState, clientState
<1>3. Handlers!Servers = Servers
    BY DEF Handlers!Servers, Servers
<1> QED
    BY <1>2, <1>3 DEF Handlers!Next

\* Every step of a thread is a step of Chain, or none, at the end.
LEMMA ThreadStep ==
    ASSUME AtomicPremise, [TNext]_tvars
    PROVE  HandInvariant' /\ [Handlers!Next]_Handlers!vars
<1>0. HandInvariant
    BY DEF AtomicPremise
<1>1. ASSUME NEW s \in Servers, ClientThread(s)
      PROVE  HandInvariant' /\ [Handlers!Next]_Handlers!vars
  <2>1. CASE TestSent(s)
      BY <2>1, TestSentWhole, HandlerSteps
  <2>2. ~ReadStatus(s)
      BY <1>0, HandTells DEF ReadStatus
  <2>3. CASE List(s)
      BY <2>3, ListStutters
  <2>4. CASE Pass(s)
      BY <2>4, PassStutters
  <2>5. CASE /\ InHand(s, "waiting")
             /\ RecQuery(s) \/ RecUnknown(s)
             /\ UNCHANGED <<clientState, hand>>
    <3>1. HandInvariant' /\ (Handlers!RecQuery(s) \/ Handlers!RecUnknown(s))
        BY <2>5, QueryWhole
    <3> QED
        BY <2>5, <3>1, HandlerSteps
  <2> QED
      BY <1>1, <2>1, <2>2, <2>3, <2>4, <2>5 DEF ClientThread
<1>2. ASSUME NEW s \in Servers, OtherThreads(s)
      PROVE  HandInvariant' /\ [Handlers!Next]_Handlers!vars
  <2>1. UNCHANGED <<clientState, hand>>
      BY <1>2 DEF OtherThreads
  <2>2. CASE RecForward(s)
      BY <2>1, <2>2, ForwardWhole, HandlerSteps
  <2>3. CASE RecAck(s)
      BY <2>1, <2>3, AckWhole, HandlerSteps
  <2>4. CASE RecOtherBank(s)
      BY <2>1, <2>4, OtherBankWhole, HandlerSteps
  <2> QED
      BY <1>2, <2>2, <2>3, <2>4 DEF OtherThreads
<1>3. ASSUME NEW c \in Clients, ClientStep(c), UNCHANGED hand
      PROVE  HandInvariant' /\ [Handlers!Next]_Handlers!vars
    BY <1>0, <1>3, ClientWhole DEF Handlers!Next
<1>4. ASSUME Lose, UNCHANGED hand
      PROVE  HandInvariant' /\ [Handlers!Next]_Handlers!vars
    BY <1>0, <1>4, LoseWhole DEF Handlers!Next
<1>5. ASSUME UNCHANGED tvars
      PROVE  HandInvariant' /\ [Handlers!Next]_Handlers!vars
  <2>1. UNCHANGED <<serverState, to_server, to_client, clientState, hand>> /\ UNCHANGED vars
      BY <1>5 DEF tvars, vars, network
  <2>2. ThreadInvariant'
      BY <1>0, <2>1, QuietStepKeeps DEF QuietStep, HandInvariant
  <2>3. HandInvariant'
    <3>1. Orderly(to_server') /\ IsABag(to_client')
        BY <1>0, <2>1 DEF HandInvariant
    <3>2. sent' = sent
        BY <2>1 DEF serverState
    <3> QED
        BY <1>0, <2>1, <2>2, <3>1, <3>2, HandsRest
  <2>4. /\ UNCHANGED Handlers!serverState
        /\ EndToServer' = EndToServer /\ EndToClient' = EndToClient
      BY <1>0, <2>1, <2>3, ServersRest
  <2>5. UNCHANGED Handlers!vars
      BY <2>1, <2>4 DEF Handlers!vars, Handlers!network, Handlers!clientState, clientState
  <2> QED
      BY <2>3, <2>5
<1> QED
    BY <1>1, <1>2, <1>3, <1>4, <1>5 DEF TNext

--------------------------------------------------------------------------------
\* The theorems about Chain, in the state in which every handler is at its end.

\* The invariants of Chain, of the state in which every handler is at its end.
Whole == INSTANCE TransferProofs WITH
    sent <- EndSent, processed_trans <- EndProcessed, from_pre <- EndFromPre,
    to_server <- EndToServer, to_client <- EndToClient

\* The theorems are about the same operators.
LEMMA WholeOperators ==
    /\ Whole!Updates = Handlers!Updates
    /\ Whole!NoServer = Handlers!NoServer
    /\ \A s : Whole!Bank(s) = Handlers!Bank(s)
    /\ \A l, q : Whole!InSent(l, q) = Handlers!InSent(l, q)
    /\ \A l, q : Whole!DeleteSent(l, q) = Handlers!DeleteSent(l, q)
    /\ \A l, q : Whole!PreSendStatus(l, q) = Handlers!PreSendStatus(l, q)
    /\ \A p, i, q : Whole!CheckSameReq(p, i, q) = Handlers!CheckSameReq(p, i, q)
    /\ \A b, k, j, q : Whole!ProcessUpdate(b, k, j, q) = Handlers!ProcessUpdate(b, k, j, q)
    /\ \A b, k, q : Whole!UpdateBalance(b, k, q) = Handlers!UpdateBalance(b, k, q)
    /\ \A B, M : Whole!Deliver(B, M) = Handlers!Deliver(B, M)
    /\ \A B, m : Whole!Take(B, m) = Handlers!Take(B, m)
    /\ \A o, p, q : Whole!Mail(o, p, q) = Handlers!Mail(o, p, q)
    /\ \A q, o, k : Whole!ReplyTo(q, o, k) = Handlers!ReplyTo(q, o, k)
    /\ \A q : Whole!Outcome(q) = Handlers!Outcome(q)
    /\ \A h, q : Whole!Record(h, q) = Handlers!Record(h, q)
    /\ \A f, p, q : Whole!Push(f, p, q) = Handlers!Push(f, p, q)
    /\ \A f, s : Whole!Pop(f, s) = Handlers!Pop(f, s)
    /\ \A s, q : Whole!PaysAbroad(s, q) = Handlers!PaysAbroad(s, q)
    /\ \A s, q : Whole!Receives(s, q) = Handlers!Receives(s, q)
    /\ \A s : Whole!Heads(s) = Handlers!Heads(s)
    /\ \A s : Whole!Tails(s) = Handlers!Tails(s)
    /\ \A f, s, q : Whole!Forward(f, s, q) = Handlers!Forward(f, s, q)
    /\ \A f, s, q : Whole!AckToPre(f, s, q) = Handlers!AckToPre(f, s, q)
    /\ \A s, q : Whole!ShipTransfer(s, q) = Handlers!ShipTransfer(s, q)
    /\ \A s, q : Whole!AckTransfer(s, q) = Handlers!AckTransfer(s, q)
    /\ \A c : Whole!Queue(c) = Handlers!Queue(c)
    /\ \A c, q : Whole!PortFor(c, q) = Handlers!PortFor(c, q)
<1>1. Whole!Updates = Handlers!Updates
    BY DEF Whole!Updates, Handlers!Updates
<1>2. Whole!NoServer = Handlers!NoServer
    BY DEF Whole!NoServer, Handlers!NoServer
<1>3. \A s : Whole!Bank(s) = Handlers!Bank(s)
    BY DEF Whole!Bank, Handlers!Bank
<1>4. \A l, q : Whole!InSent(l, q) = Handlers!InSent(l, q)
    BY DEF Whole!InSent, Handlers!InSent, Whole!FirstSent, Handlers!FirstSent, Whole!SameSent,
            Handlers!SameSent, Whole!SelectInSeq, Handlers!SelectInSeq, Whole!Min, Handlers!Min
<1>5. \A l, q : Whole!DeleteSent(l, q) = Handlers!DeleteSent(l, q)
    BY DEF Whole!DeleteSent, Handlers!DeleteSent, Whole!SameSent, Handlers!SameSent,
            Whole!RemoveFirstMatch, Handlers!RemoveFirstMatch, Whole!RemoveAt,
            Handlers!RemoveAt, Whole!SelectInSeq, Handlers!SelectInSeq, Whole!Min, Handlers!Min
<1>6. \A l, q : Whole!PreSendStatus(l, q) = Handlers!PreSendStatus(l, q)
    BY DEF Whole!PreSendStatus, Handlers!PreSendStatus, Whole!InSent, Handlers!InSent,
            Whole!FirstSent, Handlers!FirstSent, Whole!SameSent, Handlers!SameSent,
            Whole!SelectInSeq, Handlers!SelectInSeq, Whole!Min, Handlers!Min
<1>7. \A p, i, q : Whole!CheckSameReq(p, i, q) = Handlers!CheckSameReq(p, i, q)
    BY DEF Whole!CheckSameReq, Handlers!CheckSameReq, Whole!FirstWithId, Handlers!FirstWithId,
            Whole!SelectInSeq, Handlers!SelectInSeq, Whole!Min, Handlers!Min,
            Whole!SameTransaction, Handlers!SameTransaction
<1>8. \A b, k, j, q : Whole!ProcessUpdate(b, k, j, q) = Handlers!ProcessUpdate(b, k, j, q)
    BY DEF Whole!ProcessUpdate, Handlers!ProcessUpdate, Whole!ProcessDeposit,
            Handlers!ProcessDeposit, Whole!ProcessWithdraw, Handlers!ProcessWithdraw,
            Whole!ProcessTransfer, Handlers!ProcessTransfer, Whole!Credit, Handlers!Credit,
            Whole!Debit, Handlers!Debit
<1>9. \A b, k, q : Whole!UpdateBalance(b, k, q) = Handlers!UpdateBalance(b, k, q)
    BY DEF Whole!UpdateBalance, Handlers!UpdateBalance, Whole!Credit, Handlers!Credit,
            Whole!Debit, Handlers!Debit
<1>10. \A B, M : Whole!Deliver(B, M) = Handlers!Deliver(B, M)
    BY DEF Whole!Deliver, Handlers!Deliver, Whole!SetToBag, Handlers!SetToBag, Whole!(+),
            Handlers!(+), Whole!NoServer, Handlers!NoServer
<1>11. \A B, m : Whole!Take(B, m) = Handlers!Take(B, m)
    BY DEF Whole!Take, Handlers!Take, Whole!SetToBag, Handlers!SetToBag, Whole!(-),
            Handlers!(-)
<1>12. \A o, p, q : Whole!Mail(o, p, q) = Handlers!Mail(o, p, q)
    BY DEF Whole!Mail, Handlers!Mail
<1>13. \A q, o, k : Whole!ReplyTo(q, o, k) = Handlers!ReplyTo(q, o, k)
    BY DEF Whole!ReplyTo, Handlers!ReplyTo
<1>14. \A q : Whole!Outcome(q) = Handlers!Outcome(q)
    BY DEF Whole!Outcome, Handlers!Outcome
<1>15. \A h, q : Whole!Record(h, q) = Handlers!Record(h, q)
    BY DEF Whole!Record, Handlers!Record
<1>16. \A f, p, q : Whole!Push(f, p, q) = Handlers!Push(f, p, q)
    BY DEF Whole!Push, Handlers!Push, Whole!NoServer, Handlers!NoServer
<1>17. \A f, s : Whole!Pop(f, s) = Handlers!Pop(f, s)
    BY DEF Whole!Pop, Handlers!Pop
<1>18. \A s, q : Whole!PaysAbroad(s, q) = Handlers!PaysAbroad(s, q)
    BY DEF Whole!PaysAbroad, Handlers!PaysAbroad, Whole!Bank, Handlers!Bank
<1>19. \A s, q : Whole!Receives(s, q) = Handlers!Receives(s, q)
    BY DEF Whole!Receives, Handlers!Receives, Whole!Bank, Handlers!Bank
<1>20. \A s : Whole!Heads(s) = Handlers!Heads(s)
    BY DEF Whole!Heads, Handlers!Heads
<1>21. \A s : Whole!Tails(s) = Handlers!Tails(s)
    BY DEF Whole!Tails, Handlers!Tails
<1>22. \A f, s, q : Whole!Forward(f, s, q) = Handlers!Forward(f, s, q)
    BY DEF Whole!Forward, Handlers!Forward, Whole!Push, Handlers!Push, Whole!NoServer,
            Handlers!NoServer
<1>23. \A f, s, q : Whole!AckToPre(f, s, q) = Handlers!AckToPre(f, s, q)
    BY DEF Whole!AckToPre, Handlers!AckToPre, Whole!Push, Handlers!Push, Whole!NoServer,
            Handlers!NoServer
<1>24. \A s, q : Whole!ShipTransfer(s, q) = Handlers!ShipTransfer(s, q)
    BY DEF Whole!ShipTransfer, Handlers!ShipTransfer, Whole!HeadOfBank, Handlers!HeadOfBank,
            Whole!Mail, Handlers!Mail, Whole!NoServer, Handlers!NoServer
<1>25. \A s, q : Whole!AckTransfer(s, q) = Handlers!AckTransfer(s, q)
    BY DEF Whole!AckTransfer, Handlers!AckTransfer, Whole!TailOfBank, Handlers!TailOfBank,
            Whole!Mail, Handlers!Mail, Whole!NoServer, Handlers!NoServer
<1>26. \A c : Whole!Queue(c) = Handlers!Queue(c)
    BY DEF Whole!Queue, Handlers!Queue
<1>27. \A c, q : Whole!PortFor(c, q) = Handlers!PortFor(c, q)
    BY DEF Whole!PortFor, Handlers!PortFor
<1> QED
    BY <1>1, <1>2, <1>3, <1>4, <1>5, <1>6, <1>7, <1>8, <1>9, <1>10, <1>11, <1>12, <1>13, <1>14,
        <1>15, <1>16, <1>17, <1>18, <1>19, <1>20, <1>21, <1>22, <1>23, <1>24, <1>25, <1>26,
        <1>27

\* They are about the same judgement.
LEMMA WholeJudge ==
    ASSUME NEW s, NEW q
    PROVE  /\ Whole!Judge(s, q) = Handlers!Judge(s, q)
           /\ Whole!Judged(s, q) = Handlers!Judged(s, q)
BY WholeOperators DEF Whole!Judge, Handlers!Judge, Whole!Judged, Handlers!Judged

\* The same handler of updates.
LEMMA WholeRecUpdate ==
    ASSUME NEW s, Handlers!RecUpdate(s)
    PROVE  Whole!RecUpdate(s)
<1>1. PICK m \in DOMAIN EndToServer : Handlers!RecUpdate(s)!(m)
    BY DEF Handlers!RecUpdate
<1>2. Whole!RecUpdate(s)!(m)
    BY <1>1, WholeOperators, WholeJudge DEF Whole!topology, Handlers!topology
<1> QED
    BY <1>2 DEF Whole!RecUpdate

\* The same handler of what is forwarded.
LEMMA WholeRecForward ==
    ASSUME NEW s, Handlers!RecForward(s)
    PROVE  Whole!RecForward(s)
BY WholeOperators DEF Whole!RecForward, Handlers!RecForward, Whole!topology,
    Handlers!topology

\* The same handler of other banks' acknowledgements.
LEMMA WholeRecOtherBank ==
    ASSUME NEW s, Handlers!RecOtherBank(s)
    PROVE  Whole!RecOtherBank(s)
BY WholeOperators DEF Whole!RecOtherBank, Handlers!RecOtherBank, Whole!topology,
    Handlers!topology

\* The same handler of acknowledgements.
LEMMA WholeRecAck ==
    ASSUME NEW s, Handlers!RecAck(s)
    PROVE  Whole!RecAck(s)
BY WholeOperators DEF Whole!RecAck, Handlers!RecAck, Whole!topology, Handlers!topology

\* The same handler of queries.
LEMMA WholeRecQuery ==
    ASSUME NEW s, Handlers!RecQuery(s)
    PROVE  Whole!RecQuery(s)
BY WholeOperators DEF Whole!RecQuery, Handlers!RecQuery, Whole!topology, Handlers!topology

\* The same handler of anything else.
LEMMA WholeRecUnknown ==
    ASSUME NEW s, Handlers!RecUnknown(s)
    PROVE  Whole!RecUnknown(s)
BY WholeOperators DEF Whole!RecUnknown, Handlers!RecUnknown, Whole!serverState,
    Handlers!serverState, Whole!topology, Handlers!topology

\* Clients send in the same way.
LEMMA WholeSendRequest ==
    ASSUME NEW c, NEW n
    PROVE  Whole!SendRequest(c, n) = Handlers!SendRequest(c, n)
BY WholeOperators DEF Whole!SendRequest, Handlers!SendRequest, Whole!SendTo, Handlers!SendTo

\* They start in the same way.
LEMMA WholeStartClient ==
    ASSUME NEW c
    PROVE  Whole!StartClient(c) = Handlers!StartClient(c)
BY WholeOperators, WholeSendRequest DEF Whole!StartClient, Handlers!StartClient,
    Whole!serverState, Handlers!serverState, Whole!topology, Handlers!topology

\* They receive replies in the same way.
LEMMA WholeRecvReply ==
    ASSUME NEW c
    PROVE  Whole!RecvReply(c) = Handlers!RecvReply(c)
BY WholeOperators, WholeSendRequest DEF Whole!RecvReply, Handlers!RecvReply,
    Whole!serverState, Handlers!serverState, Whole!topology, Handlers!topology

\* They hear of the ends of the chain in the same way.
LEMMA WholeRecvSetHeadTail ==
    ASSUME NEW c
    PROVE  Whole!RecvSetHeadTail(c) = Handlers!RecvSetHeadTail(c)
BY WholeOperators DEF Whole!RecvSetHeadTail, Handlers!RecvSetHeadTail, Whole!serverState,
    Handlers!serverState, Whole!topology, Handlers!topology

\* They send again in the same way.
LEMMA WholeCheckReceive ==
    ASSUME NEW c, NEW k
    PROVE  Whole!CheckReceive(c, k) = Handlers!CheckReceive(c, k)
BY WholeOperators DEF Whole!CheckReceive, Handlers!CheckReceive, Whole!SendTo,
    Handlers!SendTo, Whole!serverState, Handlers!serverState, Whole!topology, Handlers!topology

\* The network loses the same datagrams.
LEMMA WholeLose ==
    ASSUME Handlers!Lose
    PROVE  Whole!Lose
BY WholeOperators DEF Whole!Lose, Handlers!Lose, Whole!serverState, Handlers!serverState,
    Whole!topology, Handlers!topology, Whole!clientState, Handlers!clientState

\* The theorems of Chain are about the steps of Handlers.
LEMMA WholeNext ==
    ASSUME [Handlers!Next]_Handlers!vars
    PROVE  [Whole!Next]_Whole!vars
<1>1. ASSUME NEW s \in Servers, Handlers!ServerStep(s)
      PROVE  Whole!ServerStep(s)
    BY <1>1, WholeRecUpdate, WholeRecForward, WholeRecOtherBank, WholeRecAck, WholeRecQuery,
       WholeRecUnknown
    DEF Whole!ServerStep, Handlers!ServerStep, Whole!ReceiveStep, Handlers!ReceiveStep,
        Whole!RecClient, Handlers!RecClient, Whole!clientState, Handlers!clientState
<1>2. ASSUME NEW c \in Clients, Handlers!ClientStep(c)
      PROVE  Whole!ClientStep(c)
    BY <1>2, WholeOperators, WholeStartClient, WholeRecvReply, WholeRecvSetHeadTail,
       WholeCheckReceive
    DEF Whole!ClientStep, Handlers!ClientStep, Whole!RecvMsg, Handlers!RecvMsg
<1>3. Whole!Servers = Handlers!Servers /\ Servers = Handlers!Servers
    BY DEF Whole!Servers, Handlers!Servers, Servers
<1>4. CASE Handlers!Next
    BY <1>1, <1>2, <1>3, <1>4, WholeLose DEF Whole!Next, Handlers!Next
<1>5. ASSUME UNCHANGED Handlers!vars
      PROVE  UNCHANGED Whole!vars
    BY <1>5 DEF Whole!vars, Handlers!vars, Whole!serverState, Handlers!serverState, Whole!topology,
        Handlers!topology, Whole!network, Handlers!network, Whole!clientState,
        Handlers!clientState
<1> QED
    BY <1>4, <1>5

\* What Chain's theorems say of a deployment without resends.
WholeInvariant == Whole!FreshCopies /\ Whole!RightBanks /\ Whole!SentAccounted

\* The deployment is the same.
LEMMA WholeDeployment ==
    /\ NoResends => Whole!NoResends
    /\ ProperEntries => Whole!ProperEntries
    /\ PaysOthers => Whole!PaysOthers
BY DEF NoResends, Whole!NoResends, ProperEntries, Whole!ProperEntries, PaysOthers,
       Whole!PaysOthers, Queue, Whole!Queue

\* The invariants of Chain hold at first,
LEMMA WholeInit ==
    ASSUME ProperEntries, Whole!Init
    PROVE  WholeInvariant
<1>1. Whole!FreshCopies
    BY ChainLengthAssumption, NoBankAssumption, BankOfAssumption, ClientPortAssumption,
       WorkloadAssumption, ClientAssumption, Whole!FreshCopiesInit
    DEF Whole!FreshCopiesInit, Request, Whole!Request, NoServer, Whole!NoServer,
        Statuses, Whole!Statuses, Types, Whole!Types
<1>2. Whole!RightBanks
    BY ChainLengthAssumption, NoBankAssumption, BankOfAssumption, ClientPortAssumption,
       WorkloadAssumption, ClientAssumption, Whole!RightBanksInit, WholeDeployment
    DEF Whole!RightBanksInit, Request, Whole!Request, NoServer, Whole!NoServer,
        Statuses, Whole!Statuses, Types, Whole!Types
<1>3. Whole!SentAccounted
    BY ChainLengthAssumption, NoBankAssumption, BankOfAssumption, ClientPortAssumption,
       WorkloadAssumption, ClientAssumption, Whole!SentAccountedInit
    DEF Whole!SentAccountedInit, Request, Whole!Request, NoServer, Whole!NoServer,
        Statuses, Whole!Statuses, Types, Whole!Types
<1> QED
    BY <1>1, <1>2, <1>3 DEF WholeInvariant

\* and every step that is one of Chain keeps them.
LEMMA WholeKept ==
    ASSUME NoResends, ProperEntries, PaysOthers, WholeInvariant,
           [Handlers!Next]_Handlers!vars
    PROVE  WholeInvariant'
<1>0. [Whole!Next]_Whole!vars /\ Whole!NoResends /\ Whole!ProperEntries /\ Whole!PaysOthers
    BY WholeNext, WholeDeployment
<1>1. Whole!FreshCopies'
    BY ChainLengthAssumption, NoBankAssumption, BankOfAssumption, ClientPortAssumption,
       WorkloadAssumption, ClientAssumption, Whole!FreshCopiesStep, <1>0
    DEF WholeInvariant, Whole!FreshCopiesStep, Request, Whole!Request, NoServer, Whole!NoServer,
        Statuses, Whole!Statuses, Types, Whole!Types
<1>2. Whole!RightBanks'
    BY ChainLengthAssumption, NoBankAssumption, BankOfAssumption, ClientPortAssumption,
       WorkloadAssumption, ClientAssumption, Whole!RightBanksStep, <1>0
    DEF WholeInvariant, Whole!RightBanksStep, Request, Whole!Request, NoServer, Whole!NoServer,
        Statuses, Whole!Statuses, Types, Whole!Types
<1>3. Whole!SentAccounted'
    BY ChainLengthAssumption, NoBankAssumption, BankOfAssumption, ClientPortAssumption,
       WorkloadAssumption, ClientAssumption, Whole!SentAccountedStep, <1>0
    DEF WholeInvariant, Whole!SentAccountedStep, Request, Whole!Request, NoServer,
        Whole!NoServer, Statuses, Whole!Statuses, Types, Whole!Types
<1> QED
    BY <1>1, <1>2, <1>3 DEF WholeInvariant

--------------------------------------------------------------------------------
\* What the invariants of Chain say about the update in hand.

\* Names are the same names.
LEMMA WholeNames ==
    /\ \A q : Whole!NameOf(q) = NameOf(q)
    /\ \A l : Whole!Names(l) = Names(l)
    /\ \A f : Whole!Carried(f) = Carried(f)
    /\ Whole!Servers = Servers
    /\ \A s : Whole!Bank(s) = Bank(s) /\ Whole!IsLast(s) = IsLast(s)
    /\ Whole!Neighbours = Neighbours
    /\ \A b : Whole!Reached(b) = Reached(b)
<1>1. /\ \A q : Whole!NameOf(q) = NameOf(q)
      /\ \A l : Whole!Names(l) = Names(l)
      /\ \A f : Whole!Carried(f) = Carried(f)
    BY DEF Whole!NameOf, NameOf, Whole!Names, Names, Whole!ToSet, ToSet, Whole!Carried, Carried
<1>2. Whole!Servers = Servers
    BY DEF Whole!Servers, Servers
<1>3. \A s : Whole!Bank(s) = Bank(s) /\ Whole!IsLast(s) = IsLast(s)
    BY DEF Whole!Bank, Bank, Whole!IsLast, IsLast, Whole!LastServer, LastServer
<1>4. Whole!Neighbours = Neighbours
    BY <1>2 DEF Whole!Neighbours, Neighbours, Whole!Next1, Next1
<1>5. ASSUME NEW b PROVE Whole!Reached(b) = Reached(b)
  <2>1. Whole!Request = Request /\ Whole!Updates = Updates
      BY DEF Whole!Request, Request, Whole!Statuses, Statuses, Whole!Types, Types,
             Whole!Updates, Updates
  <2>2. \A q : Whole!Genuine(q) <=> Genuine(q)
      BY DEF Whole!Genuine, Genuine, Whole!Queue, Queue
  <2> QED
      BY <2>1, <2>2 DEF Whole!Reached, Reached
<1> QED
    BY <1>1, <1>2, <1>3, <1>4, <1>5

\* Datagrams are where they belong; an update about to be read is new to the head;
\* acknowledgements under way, in streams or by datagram, name nothing that is
\* under way itself; no tail reads acknowledgements.
LEMMA WholeTells ==
    ASSUME WholeInvariant
    PROVE  EndPromises
<1>1. ASSUME NEW m \in DOMAIN EndToServer
      PROVE  RightMail(m)
  <2>1. Whole!RightMail(m)
      BY DEF WholeInvariant, Whole!RightBanks
  <2> QED
      BY <2>1, WholeNames DEF Whole!RightMail, RightMail, Whole!LastServer, LastServer
<1>2. DOMAIN EndToServer \subseteq Mails
  <2>1. DOMAIN EndToServer \subseteq Whole!Mails
      BY DEF WholeInvariant, Whole!FreshCopies, Whole!HeadFrame, Whole!TypeOK,
             Whole!ServerTypeOK
  <2>2. Whole!Request = Request
      BY DEF Whole!Request, Request, Whole!Statuses, Statuses, Whole!Types, Types
  <2> QED
      BY <2>1, <2>2, WholeNames DEF Whole!Mails, Mails
<1>3. ASSUME NEW x \in DOMAIN EndToServer, x.op = "REQUEST"
      PROVE  <<x.req, x.to, "letter">> \in Whole!UnderWay
    BY <1>3 DEF Whole!UnderWay, Whole!Posted, Whole!LettersIn
<1>4. ASSUME NEW m \in DOMAIN EndToServer, m.op = "REQUEST"
      PROVE  m.to \in Servers /\ NameOf(m.req) \notin Names(EndSent[m.to])
  <2> DEFINE e == <<m.req, m.to, "letter">>
  <2>1. m.to \in Servers
      BY <1>2 DEF Mails
  <2>2. e \in Whole!UnderWay
      BY <1>3, <1>4
  <2>3. m.to \in Whole!Ahead(e[1], e[2])
    <3>1. m.to[2] <= m.to[2]
      <4>1. PICK b \in Banks : m.to \in {<<b, i>> : i \in 1 .. ChainLength[b]}
          BY <2>1 DEF Servers
      <4>2. PICK i \in 1 .. ChainLength[b] : m.to = <<b, i>>
          BY <4>1
      <4>3. m.to[2] = i /\ i \in Int
          BY <4>2, ChainLengthAssumption
      <4> QED
          BY <4>3
    <3> QED
        BY <2>1, <3>1, WholeNames DEF Whole!Ahead
  <2>4. Whole!NameOf(e[1]) \notin Whole!Names(EndSent[m.to])
      BY <2>2, <2>3 DEF WholeInvariant, Whole!FreshCopies, Whole!NotYetRead
  <2> QED
      BY <2>1, <2>4, WholeNames
<1>5. ASSUME NEW m \in DOMAIN EndToServer, NEW x \in DOMAIN EndToServer,
             m.op = "TRANS_ACK", x.op = "REQUEST"
      PROVE  NameOf(m.req) # NameOf(x.req)
  <2>1. m \in Whole!Acks(EndToServer)
      BY <1>5 DEF Whole!Acks, Whole!MailsIn
  <2>2. Whole!NameOf(x.req) # Whole!NameOf(m.req)
      BY <1>3, <1>5, <2>1 DEF WholeInvariant, Whole!SentAccounted, Whole!AcksFinal
  <2> QED
      BY <2>2, WholeNames
<1>6. ASSUME NEW e \in Neighbours
      PROVE  Names(Carried(EndFromPre[e[2]])) \cap Names(from_next[e[1]]) = {}
  <2>1. Whole!Divided(e[1], e[2])
      BY WholeNames DEF WholeInvariant, Whole!SentAccounted, Whole!ListsDivided
  <2> QED
      BY <2>1, WholeNames DEF Whole!Divided, Whole!Shares
<1>7. ASSUME NEW s \in Servers, IsLast(s)
      PROVE  from_next[s] = <<>>
    BY <1>7, WholeNames DEF WholeInvariant, Whole!SentAccounted, Whole!ListsDivided
<1> QED
    BY <1>1, <1>2, <1>4, <1>5, <1>6, <1>7 DEF EndPromises

--------------------------------------------------------------------------------
\* The invariant of the refinement.

\* The invariant behind HandlersAreAtomic.
AtomicInvariant == HandInvariant /\ WholeInvariant

\* Every step keeps it and is a step of Chain, or none, at the end.
LEMMA AtomicStep ==
    ASSUME NoResends, ProperEntries, PaysOthers, AtomicInvariant, [TNext]_tvars
    PROVE  [Handlers!Next]_Handlers!vars /\ AtomicInvariant'
<1>1. AtomicPremise
    BY WholeTells DEF AtomicInvariant, AtomicPremise
<1>2. HandInvariant' /\ [Handlers!Next]_Handlers!vars
    BY <1>1, ThreadStep
<1>3. WholeInvariant'
    BY <1>2, WholeKept DEF AtomicInvariant
<1> QED
    BY <1>2, <1>3 DEF AtomicInvariant

\* The theorems start where Chain starts.
LEMMA WholeStart ==
    ASSUME Handlers!Init
    PROVE  Whole!Init
<1>1. /\ Whole!Servers = Handlers!Servers /\ Whole!NoServer = Handlers!NoServer
      /\ \A s : /\ Whole!Role(s) = Handlers!Role(s) /\ Whole!Next1(s) = Handlers!Next1(s)
                /\ Whole!Prev1(s) = Handlers!Prev1(s)
                /\ Whole!IsFirst(s) <=> Handlers!IsFirst(s)
                /\ Whole!IsLast(s) <=> Handlers!IsLast(s)
      /\ \A b : /\ Whole!FirstServer(b) = Handlers!FirstServer(b)
                /\ Whole!LastServer(b) = Handlers!LastServer(b)
    BY DEF Handlers!Servers, Whole!Servers, Handlers!NoServer, Whole!NoServer, Handlers!Role,
           Whole!Role, Handlers!Next1, Whole!Next1, Handlers!Prev1, Whole!Prev1,
           Handlers!IsFirst, Whole!IsFirst, Handlers!IsLast, Whole!IsLast,
           Handlers!FirstServer, Whole!FirstServer, Handlers!LastServer, Whole!LastServer,
           Handlers!Bank, Whole!Bank
<1>2. /\ \A c : /\ Whole!Queue(c) = Handlers!Queue(c)
                /\ Whole!LoginAnswer(c) = Handlers!LoginAnswer(c)
      /\ Whole!EmptyBag = Handlers!EmptyBag
      /\ \A S : Whole!SetToBag(S) = Handlers!SetToBag(S)
    BY DEF Whole!Queue, Handlers!Queue, Handlers!LoginAnswer, Whole!LoginAnswer,
           Handlers!FirstServer, Whole!FirstServer, Handlers!LastServer, Whole!LastServer,
           Handlers!EmptyBag, Whole!EmptyBag, Handlers!SetToBag, Whole!SetToBag
<1>3. Whole!TopologyInit
    BY <1>1 DEF Handlers!Init, Handlers!ServerInit, Handlers!TopologyInit, Whole!TopologyInit
<1>4. Whole!ServersStart
    BY <1>1, <1>2
    DEF Handlers!Init, Handlers!ServerInit, Handlers!ServersStart, Whole!ServersStart
<1>5. Whole!ClientInit
    BY <1>1, <1>2
    DEF Handlers!Init, Handlers!ClientInit, Handlers!ClientsStart, Whole!ClientInit,
        Whole!ClientsStart
<1> QED
    BY <1>3, <1>4, <1>5 DEF Whole!Init, Whole!ServerInit

\* At first nothing is in hand, and the state is the one Chain starts from.
LEMMA AtomicInit ==
    ASSUME ProperEntries, TInit, ThreadInvariant
    PROVE  Handlers!Init /\ AtomicInvariant
<1>1. Init /\ hand = [s \in Servers |-> Idler]
    BY DEF TInit
<1>2. to_server = EmptyBag /\ to_client = SetToBag({LoginAnswer(c) : c \in Clients})
    BY <1>1 DEF Init, ServerInit, ServersStart, ClientInit
<1>3. HandInvariant
  <2>1. Orderly(to_server) /\ IsABag(to_client)
      BY <1>2 DEF Orderly, IsABag, EmptyBag, SetToBag
  <2>2. HandFresh
      BY <1>1 DEF HandFresh
  <2> QED
      BY <2>1, <2>2 DEF HandInvariant
<1>4. \A s \in Servers : /\ s \notin Passing /\ EndSent[s] = sent[s]
                         /\ EndProcessed[s] = processed_trans[s]
    BY <1>1, <1>3, HandTells
<1>5. sent = [s \in Servers |-> <<>>] /\ processed_trans = [s \in Servers |-> <<>>]
    BY <1>1 DEF Init, ServerInit, ServersStart
<1>6. EndSent = sent /\ EndProcessed = processed_trans
  <2>1. EndSent = [s \in Servers |-> EndSent[s]] /\ EndProcessed = [s \in Servers |-> EndProcessed[s]]
      BY DEF EndSent, EndProcessed
  <2> QED
      BY <1>4, <1>5, <2>1
<1>7. EndFromPre = from_pre
  <2>1. from_pre = [s \in Servers |-> <<>>]
      BY <1>1 DEF Init, ServerInit, ServersStart
  <2>2. Passing = {}
      BY <1>4 DEF Passing
  <2> QED
      BY <2>1, <2>2 DEF EndFromPre
<1>8. EndToServer = to_server /\ EndToClient = to_client
  <2>1. LettersToLeave = {} /\ RepliesToLeave = {}
      BY <1>4 DEF LettersToLeave, RepliesToLeave, Passing
  <2>2. IsABag(to_server) /\ IsABag(to_client)
      BY <1>3 DEF HandInvariant, Orderly
  <2> QED
      BY <1>3, <2>1, <2>2, FrameOfHands, DeliverNothing
<1>9. Handlers!TopologyInit
  <2>1. /\ Handlers!Servers = Servers /\ Handlers!NoServer = NoServer
        /\ \A s : /\ Handlers!Role(s) = Role(s) /\ Handlers!Next1(s) = Next1(s)
                  /\ Handlers!Prev1(s) = Prev1(s)
                  /\ Handlers!IsFirst(s) <=> IsFirst(s)
                  /\ Handlers!IsLast(s) <=> IsLast(s)
        /\ \A b : /\ Handlers!FirstServer(b) = FirstServer(b)
                  /\ Handlers!LastServer(b) = LastServer(b)
      BY DEF Handlers!Servers, Servers, Handlers!NoServer, NoServer, Handlers!Role, Role,
             Handlers!Next1, Next1, Handlers!Prev1, Prev1, Handlers!IsFirst, IsFirst,
             Handlers!IsLast, IsLast, Handlers!FirstServer, FirstServer,
             Handlers!LastServer, LastServer, Handlers!Bank, Bank
  <2>2. TopologyInit
      BY <1>1 DEF Init, ServerInit
  <2> QED
      BY <2>1, <2>2 DEF TopologyInit, Handlers!TopologyInit
<1>10. Handlers!ServersStart
  <2>1. Handlers!Servers = Servers /\ Handlers!EmptyBag = EmptyBag
      BY DEF Handlers!Servers, Servers, Handlers!EmptyBag, EmptyBag, Handlers!SetToBag, SetToBag
  <2>2. ServersStart
      BY <1>1 DEF Init, ServerInit
  <2> QED
      BY <1>6, <1>7, <1>8, <2>1, <2>2 DEF ServersStart, Handlers!ServersStart
<1>11. Handlers!ClientInit
  <2>1. /\ Handlers!NoServer = NoServer
        /\ \A c : Handlers!Queue(c) = Queue(c) /\ Handlers!LoginAnswer(c) = LoginAnswer(c)
        /\ \A S : Handlers!SetToBag(S) = SetToBag(S)
      BY DEF Handlers!NoServer, NoServer, Handlers!Queue, Queue, Handlers!LoginAnswer,
             LoginAnswer, Handlers!FirstServer, FirstServer, Handlers!LastServer, LastServer,
             Handlers!SetToBag, SetToBag
  <2>2. ClientsStart
      BY <1>1 DEF Init, ClientInit
  <2>3. Handlers!ClientsStart
      BY <2>1, <2>2 DEF ClientsStart, Handlers!ClientsStart
  <2> QED
      BY <1>2, <1>8, <2>1, <2>3 DEF Handlers!ClientInit
<1>12. Handlers!Init
    BY <1>9, <1>10, <1>11 DEF Handlers!Init, Handlers!ServerInit
<1>13. Whole!Init
    BY <1>12, WholeStart
<1> QED
    BY <1>3, <1>12, <1>13, WholeInit DEF AtomicInvariant

--------------------------------------------------------------------------------
(* The refinement: where no client resends, and however many banks, servers *)
(* and clients there are and whatever they send, every behaviour in which   *)
(* the threads of a head run between the steps of rec_client is one in which*)
(* rec_client runs to its end; no deletion of an acknowledged update gets   *)
(* in front of its own entry.                                               *)
THEOREM HandlersAreAtomicCorrect ==
    NoResends /\ ProperEntries /\ PaysOthers => (TSpec => HandlersAreAtomic)
<1> SUFFICES ASSUME NoResends, ProperEntries, PaysOthers PROVE TSpec => HandlersAreAtomic
    OBVIOUS
<1>1. TInit /\ ThreadInvariant => Handlers!Init /\ AtomicInvariant
    BY AtomicInit
<1>2. AtomicInvariant /\ [TNext]_tvars => [Handlers!Next]_Handlers!vars /\ AtomicInvariant'
    BY AtomicStep
<1> QED
    BY <1>1, <1>2, ThreadInvariantCorrect, PTL DEF TSpec, HandlersAreAtomic, Handlers!Spec

--------------------------------------------------------------------------------
\* Money, an update in hand counted as the rest of its handler will leave it.

\* The queues of the clients are the same, and the deployment is as finite.
LEMMA WholeQueues ==
    /\ PaysBanks => Whole!PaysBanks
    /\ TransferIds => Whole!TransferIds
    /\ FiniteDeployment => Whole!FiniteDeployment
BY DEF PaysBanks, Whole!PaysBanks, TransferIds, Whole!TransferIds, FiniteDeployment,
       Whole!FiniteDeployment, IsFiniteSet, Whole!IsFiniteSet, Queue, Whole!Queue

\* What the theorem about Chain concludes is what Handlers promises.
LEMMA WholeMoney ==
    ASSUME Whole!MoneyConserved
    PROVE  Handlers!MoneyConserved
<1>1. Whole!TotalAtTails = Handlers!TotalAtTails
    BY DEF Whole!TotalAtTails, Handlers!TotalAtTails, Whole!MapThenSumSet,
           Handlers!MapThenSumSet, Whole!MapThenFoldSet, Handlers!MapThenFoldSet,
           Whole!LastServer, Handlers!LastServer
<1>2. Whole!MapThenSumSet(Whole!PaidIn, Banks) = Handlers!MapThenSumSet(Handlers!PaidIn, Banks)
    BY DEF Whole!MapThenSumSet, Handlers!MapThenSumSet, Whole!MapThenFoldSet,
           Handlers!MapThenFoldSet, Whole!PaidIn, Handlers!PaidIn, Whole!PaidInBy,
           Handlers!PaidInBy, Whole!FoldLeft, Handlers!FoldLeft, Whole!Max, Handlers!Max,
           Whole!FirstServer, Handlers!FirstServer
<1>3. Handlers!Idle => Whole!Idle
    BY DEF Whole!Idle, Handlers!Idle, Whole!EmptyBag, Handlers!EmptyBag, Whole!SetToBag,
           Handlers!SetToBag, Whole!Servers, Handlers!Servers
<1> QED
    BY <1>1, <1>2, <1>3 DEF Whole!MoneyConserved, Handlers!MoneyConserved

\* Transfers neither make nor lose money from a handler that the other threads of the
\* server interrupt: whenever nothing is under way once the updates in hand are handled
\* to their end, the accounts of all banks hold at the tails what clients paid in and
\* did not draw (rec_client, send_transfer_dest_head, update_balance).
THEOREM MoneyConservedInHandCorrect ==
    /\ NoResends /\ ProperEntries /\ PaysOthers /\ PaysBanks /\ TransferIds
    /\ FiniteDeployment /\ "REQUEST" \notin LossyOps
    => (TSpec => []MoneyConservedInHand)
<1> SUFFICES ASSUME NoResends, ProperEntries, PaysOthers, PaysBanks, TransferIds,
                    FiniteDeployment, "REQUEST" \notin LossyOps
             PROVE  TSpec => []MoneyConservedInHand
    OBVIOUS
<1>1. TSpec => Handlers!Spec
    BY HandlersAreAtomicCorrect, PTL DEF HandlersAreAtomic
<1>2. Handlers!Init => Whole!Init
    BY WholeStart
<1>3. [Handlers!Next]_Handlers!vars => [Whole!Next]_Whole!vars
    BY WholeNext
<1>4. Handlers!Spec => Whole!Spec
    BY <1>2, <1>3, PTL DEF Handlers!Spec, Whole!Spec
<1>5. /\ Whole!NoResends /\ Whole!ProperEntries /\ Whole!PaysOthers
      /\ Whole!PaysBanks /\ Whole!TransferIds /\ Whole!FiniteDeployment
    BY WholeDeployment, WholeQueues
<1>6. Whole!Spec => []Whole!MoneyConserved
    BY ChainLengthAssumption, NoBankAssumption, BankOfAssumption, ClientPortAssumption,
       WorkloadAssumption, ClientAssumption, <1>5, Whole!MoneyConservedCorrect, PTL
    DEF Whole!MoneyConservedCorrect, Request, Whole!Request, NoServer, Whole!NoServer,
        Statuses, Whole!Statuses, Types, Whole!Types
<1>7. Whole!MoneyConserved => MoneyConservedInHand
    BY WholeMoney DEF MoneyConservedInHand
<1> QED
    BY <1>1, <1>4, <1>6, <1>7, PTL

==================================================================================
