--------------------------------- MODULE Threads ---------------------------------
(***************************************************************************)
(* The receive threads of a head share `sent` without a lock.  Here the    *)
(* thread of rec_client handles an update in the steps between which the   *)
(* threads that read acknowledgements may run; Chain lets it run to its    *)
(* end.  Every other handler is that of Chain.                             *)
(***************************************************************************)
EXTENDS Chain

VARIABLE
    hand   \* hand[s]: the update rec_client of s is at work on, and how far it is

tvars == <<vars, hand>>

Idler == [at |-> "waiting"]

InHand(s, stage) == hand[s].at = stage

\* A variant of rec_client that forwards before it takes the update into `sent`.
AfterForwardFirst ==
    [test |-> "pass", status |-> "list", pass |-> "list", list |-> "waiting"]

\* What follows on each stage.
After == [test |-> "list", status |-> "list", list |-> "pass", pass |-> "waiting"]

Proceed(s, stage, q) ==
    hand' = [hand EXCEPT ![s] = IF After[stage] = "waiting" THEN Idler
                                ELSE [at |-> After[stage], req |-> q]]

Refuse(s, q) ==
    IF q.type # "deposit" /\ q.status = "InsufficientFunds"
    THEN [insuf_funds_trans EXCEPT ![s] = Append(@, q)] ELSE insuf_funds_trans

--------------------------------------------------------------------------------
(* recvfrom and the first check_in_sent.  An update that is not in `sent` is *)
(* numbered and judged at once: nobody else writes what that reads.  Clients *)
(* send their updates to heads only, and here no head changes.               *)
TestSent(s) ==
    \E m \in DOMAIN to_server :
      /\ InHand(s, "waiting") /\ Heads(s)
      /\ m.to = s /\ m.op = "REQUEST" /\ m.req.type \in Updates
      /\ to_server' = Take(to_server, m)
      /\ IF InSent(sent[s], m.req)
         THEN /\ hand' = [hand EXCEPT ![s] = [at |-> "status", req |-> m.req]]
              /\ UNCHANGED <<req_seq, balance_map, insuf_funds_trans>>
         ELSE /\ req_seq' = [req_seq EXCEPT ![s] = @ + 1]
              /\ balance_map' = [balance_map EXCEPT ![s] = Judge(s, m.req).balances]
              /\ insuf_funds_trans' = Refuse(s, Judged(s, m.req))
              /\ Proceed(s, "test", Judged(s, m.req))
      /\ UNCHANGED <<topology, last_received_id, processed_trans, sent, from_pre, from_next,
                     to_client, clientState>>

\* A resend: get_pre_send_status looks the status of the first copy up.
ReadStatus(s) ==
    /\ InHand(s, "status")
    /\ LET q == [hand[s].req EXCEPT !.status = PreSendStatus(sent[s], hand[s].req)]
       IN  /\ insuf_funds_trans' = Refuse(s, q)
           /\ Proceed(s, "status", q)
    /\ UNCHANGED <<topology, req_seq, last_received_id, balance_map, processed_trans, sent,
                   from_pre, from_next, network, clientState>>

\* The second check_in_sent, the entry in `sent` and in the history.
List(s) ==
    /\ InHand(s, "list")
    /\ LET q == hand[s].req
           first == ~InSent(sent[s], q)
       IN  /\ sent' = IF first THEN [sent EXCEPT ![s] = Append(@, q)] ELSE sent
           /\ processed_trans' = IF first /\ q.status = "Need"
                                 THEN [processed_trans EXCEPT ![s] = Record(@, q)]
                                 ELSE processed_trans
           /\ Proceed(s, "list", q)
    /\ UNCHANGED <<topology, req_seq, last_received_id, balance_map, insuf_funds_trans,
                   from_pre, from_next, network, clientState>>

\* What leaves the server at the end of the handler, by the kind of the message.
Ships(s, q) == my_type[s] = "HEAD_TAIL" /\ PaysAbroad(s, q)

Closes(s, q) == my_type[s] = "HEAD_TAIL" /\ ~PaysAbroad(s, q)

LeavingFor(s, q) ==
    CASE Ships(s, q) -> ShipTransfer(s, q)
      [] Closes(s, q) /\ Receives(s, q) -> AckTransfer(s, q)
      [] OTHER -> {}

RepliesLeaving(s, q) ==
    IF Closes(s, q) /\ ~Receives(s, q) THEN {ReplyTo(q, Outcome(q), balance_map[s])} ELSE {}

Pass(s) ==
    /\ InHand(s, "pass")
    /\ LET q == hand[s].req
       IN  /\ from_pre' = IF my_type[s] = "HEAD" THEN Forward(from_pre, s, q) ELSE from_pre
           /\ sent' = IF Closes(s, q) THEN [sent EXCEPT ![s] = DeleteSent(@, q)] ELSE sent
           /\ to_server' = Deliver(to_server, LeavingFor(s, q))
           /\ to_client' = Deliver(to_client, RepliesLeaving(s, q))
           /\ Proceed(s, "pass", q)
    /\ UNCHANGED <<topology, req_seq, last_received_id, balance_map, processed_trans,
                   insuf_funds_trans, from_next, clientState>>

ClientThread(s) ==
    \/ TestSent(s) \/ ReadStatus(s) \/ List(s) \/ Pass(s)
    \/ /\ InHand(s, "waiting")
       /\ RecQuery(s) \/ RecUnknown(s)
       /\ UNCHANGED <<clientState, hand>>

OtherThreads(s) ==
    (RecForward(s) \/ RecAck(s) \/ RecOtherBank(s)) /\ UNCHANGED <<clientState, hand>>

TInit == Init /\ hand = [s \in Servers |-> Idler]

TNext ==
    \/ \E s \in Servers : ClientThread(s) \/ OtherThreads(s)
    \/ \E c \in Clients : ClientStep(c) /\ UNCHANGED hand
    \/ Lose /\ UNCHANGED hand

TSpec == TInit /\ [][TNext]_tvars

\* Chain's Fairness, with the handler of a head going on whatever it is at.
TFairness ==
    /\ \A s \in Servers :
          /\ WF_tvars(ClientThread(s))
          /\ WF_tvars(RecForward(s) /\ UNCHANGED <<clientState, hand>>)
          /\ WF_tvars(RecAck(s) /\ UNCHANGED <<clientState, hand>>)
          /\ WF_tvars(RecOtherBank(s) /\ UNCHANGED <<clientState, hand>>)
    /\ \A c \in Clients :
          /\ WF_tvars(StartClient(c) /\ UNCHANGED hand)
          /\ WF_tvars(RecvMsg(c) /\ UNCHANGED hand)

TFairSpec == TSpec /\ TFairness

--------------------------------------------------------------------------------
(* The handlers of Chain, with the update in hand handled to its end.        *)

ToList(s) == InHand(s, "list") /\ ~InSent(sent[s], hand[s].req)

ToPass(s) == InHand(s, "list") \/ InHand(s, "pass")

ListedSent(s) == IF ToList(s) THEN Append(sent[s], hand[s].req) ELSE sent[s]

EndSent ==
    [s \in Servers |-> IF ToPass(s) /\ Closes(s, hand[s].req)
                       THEN DeleteSent(ListedSent(s), hand[s].req) ELSE ListedSent(s)]

EndProcessed ==
    [s \in Servers |-> IF ToList(s) /\ hand[s].req.status = "Need"
                       THEN Record(processed_trans[s], hand[s].req) ELSE processed_trans[s]]

Passing == {s \in Servers : ToPass(s)}

\* The stream into a server whose predecessor is a head with an update in hand.
EndFromPre ==
    [t \in Servers |->
       IF pre_fd[t] \in Passing /\ my_type[pre_fd[t]] = "HEAD"
       THEN Forward(from_pre, pre_fd[t], hand[pre_fd[t]].req)[t] ELSE from_pre[t]]

EndToServer ==
    Deliver(to_server, UNION {LeavingFor(s, hand[s].req) : s \in Passing})

EndToClient ==
    Deliver(to_client, UNION {RepliesLeaving(s, hand[s].req) : s \in Passing})

Handlers == INSTANCE Chain WITH
    sent <- EndSent, processed_trans <- EndProcessed, from_pre <- EndFromPre,
    to_server <- EndToServer, to_client <- EndToClient

(* As long as no client resends, running the handler of a head in one step  *)
(* loses nothing: whatever the threads that read acknowledgements do in     *)
(* between, every behaviour is one of Chain, where rec_client is one step.  *)
HandlersAreAtomic == Handlers!Spec

(* Transfers neither make nor lose money, as in Chain, an update in hand    *)
(* counted as the rest of its handler will leave it (send_transfer_dest_head*)
(* and update_balance, from a handler that others interrupt).               *)
MoneyConservedInHand == Handlers!MoneyConserved

==================================================================================
