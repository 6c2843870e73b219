# Distributed-Bank-System: specifications, model checking and proofs

The program is a banking service in which every bank is replicated by a chain of
servers. Clients send updates to the head of a chain; each server passes them on to
its successor, and the tail answers the clients and the queries. Acknowledgements
travel back from the tail to the head. A transfer is debited by the chain of the
paying bank, shipped as a datagram to the head of the receiving bank, credited by that
chain, and acknowledged to the payer's tail, which answers the client. A master
process watches the servers, tells their neighbours and the clients when one has
failed, and introduces new servers at the end of a chain.

This directory holds TLA+ modules of the whole of it: chains that process the requests
of resending clients over a network that loses datagrams; the receive threads of a head,
interleaved; the master; servers that fail, are suspected, or join. TLC checks them on
small instances, and TLAPS proves what can be proved of the chains, and of their repair, for all instances.
Every definition is translated from the code; `PROJECT.json` names the lines.

## The system

| component | code | state | operations |
|---|---|---|---|
| request processing | `server/process.cpp` | none of its own: works on the balances, the two histories and `sent` | `check_same_req`, `processDeposit`, `processWithdraw`, `processTransfer`, `update_balance`, `delete_sent`, `check_in_sent`, `get_pre_send_status` |
| server, requests | `server/server_client.cpp` | `req_seq`, `balance_map`, `processed_trans`, `insuf_funds_trans`, `sent` | `rec_client`, `reply_to_client` |
| server, chain | `server/server.cpp` | the same, `last_received_id`, `my_type`, the two connections | `process_forwared_request`, `rec_msg_from_next_server`, `rec_msg_from_pre_server`, accepting and connecting, sending the history to a new tail |
| server, other banks | `server/server.cpp` | `all_heads`, `all_tails` | `send_transfer_dest_head`, `ack_to_source_bank`, `rec_other_bank`, `transfer_resend_head_fail` |
| server, master | `server/server_master.cpp` | `my_type`, connections, `pre_port`, `next_port` | `rec_msg_from_master` (seven notices), `round_ask`, `send_to_master`, `tell_master_newtail` |
| client | `client/client.cpp` | `req_que`, `recv_table`, `last_rec_id`, head and tail ports | `send_request`, `recv_msg`, `check_receive` |
| master | `master/master.cpp` | the server and client lists, `fail_pre`, `fail_next`, `fail_pre_fd` | `recv_client`, `round_ask_check`, `round_ask_receive`, `rec_msg_from_server`, `accept_connect_from_server` |
| configuration | `*_read_conf.cpp`, `config/` | | read once |

How they interact: clients and servers of different banks exchange UDP datagrams;
neighbours in a chain, and the master with every server, keep TCP connections. Inside a
server every source of messages has a thread of its own, and these threads share the
lists without locks.

What is hard in it, with what makes it correct:

* **Replication.** Only the head decides; the servers behind it repeat its decision
  from the status a request carries. Correct if every history is a prefix of its
  predecessor's and the balances are what the history explains.
* **In-process requests.** `sent` must be exactly what the successor has not
  acknowledged, since recovery sends from it. Entries are inserted, named and removed
  in different orders by different threads.
* **Resending.** A client resends on a timer, so a resend meets its first copy in any
  stage. Correct if a request id is executed once and its replies agree.
* **Threads.** The thread that serves clients and the one that reads acks share
  `sent` without a lock. Correct if nothing depends on how they interleave.
* **Transfers.** Two chains and two datagrams. Correct if money is neither made nor
  lost and the client hears of the transfer in the end.
* **Recovery.** Every neighbour works out its new role from its old one and from a
  notice that is sent once. Correct if roles and connections agree with the
  master's list in the end, and if no neighbour misses an update and no client was
  told something the chain forgets.
* **Extension.** A new tail takes over four lists, one after the other. Correct if
  they arrive whole and exactly one server is the tail in the end.
* **The master.** One list of servers per bank, one flag per server, one global for the
  failure that is being repaired, one for the connection just accepted. It may
  suspect a server that runs.

The hazards, each at its line, are in `PROJECT.json`, with the properties that cover
them, or a note that says why none does.

## Modules

| module | models | theorems |
|---|---|---|
| `Requests` | the deployment as constants with their assumptions, requests and replies | |
| `Process` | `process.cpp` as operators | |
| `Server` | the state of all servers, the network, one action per handler | |
| `Client` | the clients, one action per handler and thread | |
| `Chain` | the system without failures: chains, clients, streams, datagrams; its properties | |
| `Threads` | the same with `rec_client` of a head split at its accesses to `sent` | |
| `Ledger` | the abstract specification: what the banks promise, without servers | |
| `ChainLedger` | the refinement mapping: `Chain` implements `Ledger` | |
| `Master` | `master.cpp`: pings, visits, the three kinds of failure, logins, new servers | |
| `Member` | `server_master.cpp` and the parts of `server.cpp` for repair and extension | |
| `Failover` | the system with failures: `Chain`, `Master`, `Member`, crashes, starts | |
| `MCChain`, `MCThreads`, `MCFailover` | the instances that TLC checks | |
| `ChainProofs` | facts about the operators of `Process`; induction and the existence of a fold's walk, for sets of numbers; the types of `Chain`, for any messages between neighbours; what balances, histories and lists of names do when a list grows or shrinks | `TypeCorrect` |
| `HeadProofs` | the head's two promises | `HeadInvariantCorrect`, `HeadExecutesOnceCorrect`, `HeadHasOneVerdictCorrect` |
| `ThreadProofs` | the promise that survives interleaved threads; `rec_client` is atomic where nobody resends, so money is conserved there too | `ThreadInvariantCorrect`, `ThreadsHaveOneVerdict`, `HandlersAreAtomicCorrect`, `MoneyConservedInHandCorrect` |
| `ReplyProofs` | what a reply means | `ReplyInvariantCorrect`, `ReplyMeansRecordedCorrect`, `OutcomeStableCorrect` |
| `CopyProofs` | one copy of every update; what neighbours have in common | `FreshCopiesCorrect`, `UpdatePropagationCorrect`, `NumbersWithoutGapsCorrect` |
| `TransferProofs` | where transfers are, balances, what `sent` is divided into; sums over finite sets, and money | `RightBanksCorrect`, `BalancesExplainedCorrect`, `InprocessRequestsCorrect`, `MoneyConservedCorrect` |
| `LedgerProofs` | the chains implement the ledger, step by step | `LedgerInvariantCorrect`, `RefinementCorrect` |
| `FailoverProofs` | the types of `Failover`; where the notices lead while chains fall apart | `FTypeCorrect`, `NoticesLeadCorrect`, `OneHeadOneTailCorrect` |

`Client` extends `Server`, which extends `Process` and `Requests`. `Chain` puts these
together. `Threads` extends `Chain` with one variable and instantiates it again, as
`Handlers`, with the update in hand handled to its end. `Member` extends `Client` and
`Master`, and `Failover` puts `Chain` and `Member` together. Three relations between
specifications are checked as properties: `Chain` implements `Ledger`
(`ImplementsLedger`), `Threads` implements `Chain` as long as nobody resends
(`HandlersAreAtomic`), and the abstract specification of `Failover` is the list of the
master, which the chain must come to agree with (`NoticesLeadToList`,
`ChainsRepaired`).

### How state and actions correspond to the code

Variables bear the code's names and are functions of the server `<<bank, place>>` or
the client. The exceptions are the channels: `from_pre[s]` is the TCP stream that s
reads from its predecessor, `from_next[s]` the stream of acks from its successor,
`from_master[s]` and `to_master[s]` the two streams of its connection with the master,
and `to_server` and `to_client` are the bags of datagrams in the network. `next_fd[s]`
and `pre_fd[s]` name the server at the other end of a connection. A client is known to
servers by its port, so `client_port` is the client itself. A datagram to a port of
no process disappears when it is sent (`Deliver`).

| action | handler |
|---|---|
| `RecUpdate`, `RecQuery`, `RecUnknown` | one turn of the loop of `rec_client`, by the type of the request |
| `TestSent`, `ReadStatus`, `List`, `Pass` | the same turn for an update at a head, in four stages (`Threads`) |
| `RecForward` | the `FORWORD_REQ` branch of `rec_msg_from_pre_server`, i.e. `process_forwared_request` |
| `RecAck` | the `ACK` branch of `rec_msg_from_next_server` |
| `RecOtherBank` | one turn of the loop of `rec_other_bank` |
| `StartClient` | `main` of the client after its `sleep(1)` |
| `RecvReply`, `RecvSetHeadTail` | the two branches of `recv_msg` |
| `CheckReceive(c, k)` | one timeout of the thread `check_receive` of request k |
| `Lose` | the network loses a datagram of a kind in `LossyOps` |
| `RecvLogin` | `recv_client` of the master |
| `RoundAskReceive`, `RoundAskCheck` | a ping sets a flag; one visit of a server by the checking thread, which removes it if its flag is not set |
| `RemoveOnly`, `RemoveHead` and `TellNewHead`, `RemoveTail`, `RemoveInter` | the kinds of removal; the checking thread sleeps between the two steps for a head (`telling`) |
| `AcceptServer`, `StartReader` | `accept_connect_from_server`, and the thread it starts, which reads the shared `serfd` |
| `RecAckLast`, `RecNewTail` | the two branches of `rec_msg_from_server` |
| `StartServer`, `Crash` | the start of a server's process; its end by `check_my_life` |
| `GetPre`, `HeadFail`, `TailFail`, `InterPreFail`, `InterNextFail`, `NextSn`, `TransHeadFail`, `TransTailFail` | the branches of `rec_msg_from_master` |
| `Join`, `ConnectFails` | `connect_pre_server` with `accept_connect_from_next_server` |
| `SendHistPart`, `SendHistEnd` | the four lists of `send_next_hist_sent`, and its end |
| `RecLargerSn`, `RecHistory`, `RecHistoryEnd` | the `LARGER_SN_LIST`, `SEND_...` and `SEND_END` branches of `rec_msg_from_pre_server` |

`Judge` and `Judged` are the part of `rec_client` that decides about an update. It is
a disjunction over the three update types in the code, with the same text for each;
here it is one definition.

What the translation abstracts:

* An amount is a natural number and a balance an integer. The code computes with
  `float`; rounding is not modelled.
* `balance_map` is total; the code creates an account with balance 0 at first use.
* Records that hold `std::string` are sent as raw memory. They are taken to arrive
  as they were sent, and every `recv` to return one whole message.
* In `Chain` and `Failover` a handler runs to its end in one step. `Threads` is about
  what that leaves out in the handler that reads `sent` and uses it later; there the
  other handlers are still one step each.
* `Chain` and `Threads` begin after the chains have formed, with the answer to each
  client's login on its way; `Failover` begins with the first `Formed[b]` servers of
  every bank in their chain and the logins on their way.
* The three transfer fields of a resend, which the code never assigns, are any member
  of the constant `Leftovers`.
* The sweep of the checking thread over all servers is a choice of one server per step,
  which allows the order of the code and others.
* Time is not modelled. Three assumptions of the code about it are constants of
  `Master` and `Failover` that a run can withdraw. `Punctual` are the servers
  whose pings, while they run, come between any two visits; a visit to such a server
  changes nothing and is left out. `Paced` says that the pauses written as `usleep` and
  `sleep` are long enough for what they wait for: 20 ms for a successor to connect
  before `send_next_larger_sn`, the pause of the checking thread before anybody hears
  of a new head, the client's second before its first request. `Calm` says that
  servers join when no client waits for an answer.
* The walk of `send_next_larger_sn` over `sent` is one step (`NextSn`), although it pauses 50 ms
  before each entry. What other threads forward comes before or after the whole walk, never
  between two of its entries, and no ack removes the entry the walk stands on, which in the code
  is undefined behaviour (server.cpp:173). A forward before the
  walk is enough to part the replicas (see the table under "Where the properties end").
* A visit of the checking thread that removes an inner server is one step (`RemoveInter`). The code sets
  `fail_pre_fd` just after the two notices (master.cpp:278-285); the model sets it with them, so an
  `ACK_LAST` that comes between the second notice and the assignment is left out.
* A server that has ended does not start again: every server of the configuration
  starts once, after its `startup_delay`.
* `CharValues` is the number of values of the `char` through which `ACK_LAST`
  carries a sequence number: 256 in the program.

## Runs

`CHECK_DEADLOCK FALSE` is set in all of them because the system does stop: when the
queues of the clients are empty (or a reply is lost and no resend is left, or all
servers of a bank are gone), every thread blocks in `recv`. Every instance is explored
completely.

| run | instance | checks | result |
|---|---|---|---|
| `ledger` | a bank of one server and a bank of three; transfers both ways, a repeated transfer, a transfer not covered, an id that clashes at the payee; requests and transfer acks may be lost; no resends | `TypeOK`, `UpdatePropagation`, `InprocessRequests`, `NumbersWithoutGaps`, `BalancesExplained`, `ImplementsLedger` | hold, 70 000 states |
| `chain_resend` | one bank of two servers; two clients, one resends each request once; its withdrawal may be refused or not, and the other uses its id; losses | `HeadExecutesOnce`, `HeadHasOneVerdict`, `ReplyMeansRecorded`, `OutcomeStable` | hold, 277 000 states |
| `threads_resend` | the same with the threads of the head interleaved | `HeadHasOneVerdict`, `ReplyMeansRecorded` | hold, 984 000 states |
| `transfer` | a bank of one server and a bank of two, three clients, threads interleaved, no losses, fairness | `MoneyConservedInHand`, `HandlersAreAtomic`, `EveryRequestAnswered`, `SentDrains` | hold, 19 000 states |
| `members` | a bank of four servers and one of two, no requests; all but the third server may crash, up to four of them; fairness | `FTypeOK`, `NoticesLeadToList`, `OneHeadOneTail`, `ChainsRepaired`, `TailsKnown` | hold, 63 000 states |
| `failover` | one bank of three; two clients, one resends; replies may be lost; any one server crashes at any point; a char has 4 values | `AnsweredSurvive`, `OutcomeStable`, `NothingMissing` | hold, 372 000 states |
| `suspicion` | the same without a crash, but the pings of the head may be lost, so the master may drop it while it runs and answers | `AnsweredSurvive`, `OutcomeStable` | hold, 80 000 states |
| `extend` | a chain of one server grows to three while two clients make requests, calm; fairness | `AnsweredSurvive`, `NothingMissing`, `ChainsRepaired` | hold, 57 000 states |
| `transfer_failover` | a bank of three pays into another of three, whose head may crash at any point; fairness | `MoneyKept`, `TransfersAnswered` | hold, 37 000 states |
| `resend_twice` | as `chain_resend`, without losses | `ReplicasExecuteOnce` | violated |
| `resend_transfer` | a transfer out of a bank of one server is resent | `TransferReplyStable` | violated |
| `transfer_both` | a bank of two pays into a bank of two; the payer's tail and the payee's head may crash | `TransferCompletes` | violated |

**Why these bounds.** Three servers are the least with a server of each role and two
streams in a row; the relations between neighbours are about one stream at a time, so
a longer chain adds no new case while nobody fails. `members` has four servers, so that
two failures can meet at one neighbour and chains of every length down to none occur.
Two banks are enough for a transfer, one of a single server because it has
code of its own. The queues are chosen so that the order of arrival decides who is
refused, that an id names two different requests, and that transfers in both
directions overlap and draw on each other's money. One resend is enough to meet the
first copy at every stage; a second would meet what the first meets. Crashes are
bounded by `MaxCrashes`, and each server crashes at most once. In
`failover` a char has 4 values instead of 256, so that the limit lies between the first
update and the second: a number read back beyond it is smaller than the one sent, so too
much is sent again, and nothing is missing. In the other runs no number reaches the limit.

**Fairness.** `Fairness` (of `Chain`, with `TFairness` and `FFairness` for the other two)
assumes weak fairness of each receive loop of a server, of `recv_msg` and of the start
of a client: each is a thread of its own that blocks in `recv` or `sleep` and is woken
by the operating system when it has something to do. `rec_client` is one thread, so
its actions share one assumption, in `Threads` with all stages of an update.
`FFairness` adds the thread of a server that reads the master's notices, those that
connect and accept, the start of a server when its delay is over, and the threads of
the master. Nothing is assumed of resends, losses, crashes and pings. Where liveness is
checked (`transfer`, `members`, `extend`, `transfer_failover`) nothing is lost, since
the code promises no answer when a datagram is lost and resending is off or used up.

### What the violated properties show

* `resend_twice`: the comment at `server.cpp:684` takes a resend for a request that
  `sent` holds. The tail deletes a request from its `sent` before it acks, while the
  head keeps it until the ack has come back. A copy resent in between is recognised by
  the head, which forwards it with the status `Need` of the first copy; the tail does not
  recognise it, executes and records it again. The replicas then differ for good.
* `resend_transfer`: `check_receive` copies a request field by field and leaves out
  `dest_bank_id`, `dest_account_num` and `source_bank_id`. `check_same_req` compares
  the payee, so the resend of a transfer that is finished looks like another
  transfer under the same id and is answered `InconsistentWithHistory` after the first
  answer said `Processed` (process.cpp:128 and testing.txt:13 promise the same reply).
* `transfer_both`: testing.txt:24-28 promises that a transfer succeeds although the
  payer's tail and the payee's head fail: the payer's new tail sends it again.
  `transfer_head_fail` tells only the server that is last in the payer's list at that
  moment (master.cpp:125). When the payee's head is found dead in one sweep and the
  payer's tail, whose last ping came a little later, only in the next, the notice goes
  to a server that is dead already, and nobody sends the transfer again.

`UpdatePropagation`, `InprocessRequests`, `NumbersWithoutGaps` and `BalancesExplained`
are therefore stated for clients that do not resend, and `MoneyConservedInHand` for
queues in which no client uses the id of another's transfer: `ledger` shows what happens when the payee
knows the id already (the debit stays and the client is told so).

### Where the properties end

The bounds of the runs that hold are chosen up to where the code stops doing what
the property says. Each of these changes to one run makes TLC report a violation:

| change | violated | because |
|---|---|---|
| `ledger` with a deposit that names the client's own bank in `dest_bank_id` | `BalancesExplained` | the random generator leaves that field as it lies (client_read_conf.cpp:154); the head then credits `dest_account_num` (process.cpp:91), the servers behind it `account_num` (process.cpp:194) |
| `ledger` with a transfer into the client's own bank of three servers | `InprocessRequests` | the head acknowledges the transfer to its own tail, whose ack comes back to the head, which acknowledges again, and the client is answered each time, without end (server.cpp:277-281, 785-803) |
| `threads_resend` also checks `HeadExecutesOnce` | it | an ack removes the first copy between a resend's look into `sent` and its second look before it enters it (server_client.cpp:151-153) |
| `threads_resend` also checks `OutcomeStable` | it | between the look into `sent` and the read of the status the ack of the first copy removes the entry; the status 0 that process.cpp:271 calls impossible goes down the chain, and the tail answers with an outcome that is none |
| `members` with `Mortal <- AllServers`, `MaxCrashes = 2` | `ChainsRepaired` | two neighbouring inner servers fail: the second `INTER_NEXT_FAIL` closes the connection that has just been made (server_master.cpp:147) |
| `failover` also checks `ReplicasExecuteOnce`, nobody resending and nothing lost | it | an update forwarded on the new connection before the head reads `NEXT_SN` is executed by the tail, answered and deleted from its `sent`; `ACK_LAST` named an older number, so the head sends it again with the missing ones, and `after_get_larger_sn` executes it again (server.cpp:640) |
| the same, checking instead `ReplicasExecuteOnce => (\A p, s \in Servers : Settled(p, s) => balance_map[p] = balance_map[s])` | it | a withdrawal forwarded on the new connection overtakes the deposit that covers it and is still to be sent again; the tail records it and does not execute it (process.cpp:219) |
| `failover` with `ChainLength`, `Formed <- Four` | `NothingMissing` | `after_get_larger_sn` executes what was missing but does not pass it on (server.cpp:636) |
| the same with `Mortal <- FirstAndThird`, `MaxCrashes = 2` | `NothingMissing` | a promoted head numbers from 1 again, so "larger than the last number received" loses its meaning (server_master.cpp:73) |
| `failover` with `Paced = FALSE` | `NothingMissing` | the missing updates are sent before the successor has connected, and dropped (server.cpp:164) |
| `failover` with `Banks <- TwoBanks`, `Clients = {c1}`, `Workload <- OneDeposit`, no resends or losses, `Mortal <- Seconds`, `MaxCrashes = 2` | `NothingMissing` | an inner server fails in each of two banks; the one `fail_pre_fd` sends the number of one bank to the predecessor in the other (master.cpp:285) |
| `extend` with `MaxCrashes = 1` | `ChainsRepaired` | a join that is broken off leaves one side changed (server.cpp:149) |
| `extend` with `Calm = FALSE` | `NothingMissing` | an update executed while the history is sent is in none of its parts (server.cpp:66, 353-356) |
| `extend` with `Banks <- TwoBanks`, `ChainLength <- Two`, `Clients = {}`, `Workload <- NoQueues` | `ChainsRepaired` | two servers are accepted before the first receive thread has read `serfd`; one connection is read by nobody (master.cpp:390, 432) |
| `transfer_failover` with `Mortal <- PayerTailPayeeHead`, `MaxCrashes = 2` | `MoneyKept` | as in `transfer_both` |
| `transfer_failover` with the balances of the tails (`TailNow`) in `MoneyKept` | `MoneyKept` | the transfer that is sent again comes while the new head waits for the ack of the first copy; it is forwarded with status `Need`, and the tail, which has closed the first copy, credits it again, as in `resend_twice` |
| `transfer_failover` with `Formed <- Two`, `MaxCrashes = 0`, `Calm = TRUE` | `TransfersAnswered` | until the payer's last server joins, the payee sends its ack to that server's port, which the configuration file names as the tail (server_read_conf.cpp:57) |

They mark the limits of the runs above and have no runs of their own. Most show what the
code leaves open. Three contradict a line of it: `OutcomeStable` of interleaved threads
the "impossible" of process.cpp:271, and `ReplicasExecuteOnce` after a repair and `MoneyKept` of the
tails the comment "if resend, no need to process again" (server.cpp:640, 684), which takes what
is sent again for something `sent` still holds. `resend_twice` is the smallest
instance of the last.

`OutcomeStable`, which `chain_resend`, `failover` and `suspicion` check, therefore holds where no ack
comes between two accesses of `rec_client` to `sent`, and `HeadExecutesOnce` too. `NothingMissing`
says which updates neighbours have recorded after a repair, neither how often nor in
which order.

## What is proved

From the assumptions of `Requests` and `Client`: every bank has a
server; `NoBank` is no bank; every client has a bank and a port; a queue is numbered from 1 and
stamped with its client's port and status 0, as `get_client_need_info` does; the
resend constants have their types. For every number of banks, servers, clients,
accounts and requests, any resends, leftovers and losses:

* `TypeCorrect`: `Spec => []TypeOK`. `TypeOK` is inductive; there is a lemma per
  handler.
* `HeadExecutesOnceCorrect`: `Spec => []HeadExecutesOnce`, a head never executes an id
  twice.
* `HeadHasOneVerdictCorrect`: `Spec => []HeadHasOneVerdict`, a head never executes an
  id it refused nor the reverse.
* `ThreadsHaveOneVerdict`: `TSpec => []HeadHasOneVerdict`, and it does not either when its
  threads interleave.

For every such deployment whose queues hold no transfer (`NoTransfers`):

* `ReplyMeansRecordedCorrect`: `Spec => []ReplyMeansRecorded`, an update that is
  reported as executed (refused) is recorded so by every server of the bank.
* `OutcomeStableCorrect`: `Spec => []OutcomeStable`, all replies to a request agree.

Without `NoTransfers` the latter is false, as `resend_transfer` shows.

For every such deployment in which no client resends (`NoResends`: resending is
switched off or `resend_times` is 0), with any transfers, queries and losses:

* `UpdatePropagationCorrect`: `Spec => []UpdatePropagation`, a server will have executed
  and refused what its predecessor has, in the same order, when it has read the stream
  between them.
* `NumbersWithoutGapsCorrect`: `Spec => []NumbersWithoutGaps`, the numbers on that
  stream have no gap.
* `BalancesExplainedCorrect`: `Spec => []BalancesExplained`, if the entries are proper
  (`ProperEntries`): every balance is the sum of the server's history, and no server ever
  executes an update that is not covered.
* `InprocessRequestsCorrect`: `Spec => []InprocessRequests`, if besides nobody pays into
  its own bank (`PaysOthers`): `sent` is exactly what the successor has not read,
  keeps, or has acknowledged.
* `HandlersAreAtomicCorrect`: `TSpec => HandlersAreAtomic`, under the same hypotheses: what the
  interleaved threads of a head do is what `Chain` does, in which `rec_client` is one step. So
  whatever is proved of `Chain` holds of them too, with the update in hand handled to its end.
* `MoneyConservedCorrect`: `Spec => []MoneyConserved`, if besides the deployment is finite, no
  request is lost (`"REQUEST" \notin LossyOps`; acknowledgements and replies may be), transfers are
  to banks of the configuration file (`PaysBanks`) and no client uses the id of another client's
  transfer (`TransferIds`): whenever nothing is under way, the accounts of all banks hold what
  clients paid in and did not draw. A client may use an id twice, as those of `transfer` do.
* `MoneyConservedInHandCorrect`: `TSpec => []MoneyConservedInHand`, the same of the interleaved
  threads, under the same hypotheses.
* `RefinementCorrect`: `Spec => ImplementsLedger`, if besides no reply is lost: the
  chains of all banks implement the abstract specification, and every bank is to its
  clients one book. Lost are requests and the acknowledgements of transfers, as in `ledger`.

For every deployment of `Failover` (the assumptions above and those of `Master`, `Member`
and `Failover`), with any servers that crash, are suspected or join, at any point:

* `FTypeCorrect`: `FSpec => []FTypeOK`.

For every such deployment whose chains are complete at the beginning and in which no running
server is suspected (`Complete`: `Formed` is `ChainLength` and all servers are `Punctual`), with any
crashes, at any point of any repair, and any requests, resends and losses, whether the
pauses of the master are kept (`Paced`) or not:

* `NoticesLeadCorrect`: `FSpec => []NoticesLeadToList`, every running server will, when it has
  read the notices under way to it, have the role its place in the master's list gives it.
* `OneHeadOneTailCorrect`: `FSpec => []OneHeadOneTail`, at no moment do two running servers of
  a bank take themselves for its head, or two for its tail.

None of the hypotheses is only for convenience. With resends the first four are false
(TLC finds each violated on the instance of `resend_twice`), and the ledger answers a
request once. It keeps every answer it gave, while the model remembers a
reply only until it is lost; hence the hypothesis about lost replies. `ProperEntries` says that a transfer is drawn on the client's bank and
that a deposit does not name that bank as a payee's; client_read_conf.cpp:117-129 makes all
entries of a configuration file so, and the random generator (lines 154-195) does not,
which is a defect (see the table above). A transfer into the client's own bank is legal in a
configuration file and ends in the endless exchange of that table. Without `PaysBanks` or with
lost requests, a transfer may be debited and go nowhere; without `TransferIds`, it may be debited
and refused by the payee: TLC finds `MoneyConserved` violated on the instance of `transfer` with
`LossyOps = {"REQUEST"}`, and with the `ClashQueues` of `ledger`.

**The head** (`HeadProofs`). Neither promise is inductive, nor follows from
`check_same_req` alone: a resend that is found in `sent` is not looked up in the
histories, but takes the status of the entry, and an entry is found by number and port
while histories are searched by id. `HeadInvariant` adds what is missing: wherever
a copy of a request is, its number and port determine its id (`IdsKept`), a refusal
that is in a head's `sent` is in its history of refusals (`RefusalsRecorded`), and the
topology is fixed with nothing forwarded to a head, so that `RecForward` never changes
a head's history (`HeadsReadNoStream`). `RecUpdateAtHead` says what the only other
handler can do, and `HistoriesStep` draws the conclusion.

**The threads** (`ThreadProofs`). `HeadExecutesOnce` is false for interleaved threads.
That a head keeps to one verdict is true, but for another reason than in `Chain`:
acks can remove an entry at any stage, so the update in hand has to carry the
evidence. `ThreadInvariant` says that an entry of `sent`, present or just read, has a status
the histories explain (`Consistent`), and that an update about to be recorded as
executed was never refused (`Ready`); acks only shorten `sent` and disturb neither.

That `rec_client` is one step all the same when nobody resends (`HandlersAreAtomicCorrect`) needs
the invariants of `Chain` for a state that is not there yet: the one the handlers under way will
leave. `Whole` is `TransferProofs` in that state, and `WholeInvariant` is `FreshCopies`,
`RightBanks` and `SentAccounted` of it. It needs no proof of its own: `ThreadStep` shows that a
step of a thread leaves the end of the handlers as it is or is a step of `Chain` there, and
`WholeKept` is then what `TransferProofs` proves of such a step. In return it supplies what
`ThreadStep` needs (`EndPromises`, by `WholeTells`):

* An update that is looked up in `sent` is not found there (`FreshCopies`), now or at the second
  look, so the answer of the first is still true when the handler ends (`HandFresh`,
  `TestSentWhole`).
* A thread that deletes from `sent` while an update is in hand commutes with the rest of
  `rec_client` (`DeleteThenAppend`, `DeleteBoth`), unless it deletes that very update. It does not:
  an ack from the successor names what the successor has read, and the update in hand is behind
  all of that (`AckBehind`, by `ListsDivided`); an ack of another bank names a transfer that was
  shipped, and this one is still to be (`AckOfOther`, by `AcksFinal`).
* What a handler still has to send goes into streams only it writes to, and into datagrams, whose
  order does not matter (`StreamOfHand`, `LeavingApart`, `ForwardStreams`).

**Replies** (`ReplyProofs`). A reply comes from the tail, which decides by the status a
copy carries and by its own `sent`, and either may be older than what the other servers
hold. `ReplyInvariant` gives every copy its evidence. The head's histories confirm for
good the status of every copy that is forwarded, listed or answered (`Decided`; that
they never change their mind is `Steady`), and all servers in front of a copy
have recorded it (`StreamsBacked`, `SentBacked`, `AnswersBacked`). The hard case is a
resend that the head, its first copy being acknowledged, finds in its history and
forwards as `Processed`: a server behind that has not executed the first copy would
answer for something it has not done. It cannot, because no copy that says `Processed`
overtakes the one still to be executed (`OrderKept`), and what a server has executed its
successor has executed or finds in its stream (`NothingLost`). Two copies of
one request then agree because each agrees with the same histories. The proof
follows what handlers do to copies: `RulingStep` for the head and `PassingStep` for
the others show the invariant kept by any step that records, lists and forwards as
these do; `Handled` and `Transmits` say that `RecUpdate` and `RecForward` are such
steps; all other actions only shorten the lists (`Quiet`) or belong to a client.

**Copies** (`CopyProofs`). Everything the neighbours have in common rests on one fact: a
server that reads an update does not find it in `sent`, so `check_in_sent` takes no
first copy for a resend. `FreshCopies` is its inductive form. At most one copy of a
request is under way, in a datagram or in one stream (`OneCopy`); what a client has not
sent yet is nowhere (`Unsent`); and no server that the copy has still
to reach has it in `sent` (`NotYetRead`), which for a transfer includes the chain of the
payee's bank. With it, every handler is to two neighbours one of three things
(`NeighbourStep`): the first passes an update on, the second reads one, or neither
changes. `UpdatePropagation` and `NumbersWithoutGaps` are inductive relative to it.

**Transfers** (`TransferProofs`). `RightBanks` says that every copy names the banks of the
entry it was made from, and is in a bank it concerns; what a server adds to its history
then changes a balance of its bank by `Effect`, at the head (`HeadBalances`) and behind
it (`FollowerBalances`). That a server behind the head can cover what it is told to
execute is not a matter of its balance alone: its history is a prefix of the
head's (`UpdatePropagation`), and the head covered every prefix of its own. So
`HistoriesExplain` speaks of all prefixes.

`SentAccounted` is the invariant behind `InprocessRequests`. Between two neighbours `sent`
of the first is divided, without a name twice, into the stream, `sent` of the second and the
acks under way (`ListsDivided`); by an induction over the places of a chain, whatever a server
has in `sent` those in front of it have too (`Nested`). What another bank acknowledges must be
in `sent` of the payer's tail, and once only: a transfer is at the payee's only while the
payer's tail waits for it (`AbroadAwaited`), and after the ack left, the payee's
servers have done with it and no copy is under way (`AcksFinal`). So the ack that comes by
datagram, in any order with those of the chain, removes one entry and opens no gap.

`MoneyAccounted` is the invariant behind `MoneyConserved`, which says nothing while anything is
under way. `MoneyBalanced` does: what the accounts hold at the heads, plus what is debited and
still to come to the payee's head (`Between`), is what the histories of the heads say was paid in.
It speaks of heads because there the money moves in one step; when nothing is under way the tails
have the same histories (`OneHistory`) and so the same balances (`BalancesExplained`). A head that
executes an update changes one account, one bank's payments and one entry of `Between`, and the
three make up for one another (`RecUpdateMoney`, `BalancedChange`); a server behind it only moves
a copy on (`RecForwardMoney`), and everything else rests. The hard case is the payee's head:
the money is lost unless it credits what comes. It does (`CreditTaken`), because a copy under
way has been filed by no head it is still to come to (`NotYetFiled`, which rests on `OneCopy`),
what comes to the payee is debited (`Charged`), and a debited transfer is in the
history of the payer's head (`DebitsRecorded`), which executes an id once (`HeadExecutesOnce`): a
request that the payee has filed under the same id would be a transfer of the same client, and in
that history as well. `TotalAtTails` and `PaidIn` add up by folds over sets and sequences, which
the provers cannot expand. `SumOfProperty` shows that the library's sum over a finite set solves
its recursion, by an induction over the subsets of the set (`SubsetInduction`), and `SumChanges`
that it changes by what one term does.

With threads interleaved nothing is left to prove (`MoneyConservedInHandCorrect`): a behaviour of
`Threads` is one of `Chain` with the update in hand handled to its end, and `MoneyConservedCorrect` is
used of that one, through `Whole`.

**The ledger** (`LedgerProofs`). The mapping looks at the tails: their balances and
histories are the accounts and books, the transfers in their `sent` are the open ones, and the
replies given are the answers. So the ledger decides when a tail files an
update, while the program decided at the head, with other requests and datagrams of other
banks in between. The two decisions are one because of `StreamsJudged`: the status a copy
carries in a stream is the verdict that the ledger comes to over the histories which the reader
will have by then, given that it has read all before it. It is kept as the head judges with the
histories that all readers will come to have (`UpdatePropagation`, `HistoriesExplain`). The book
drawn from two histories is well defined as they never contradict themselves (`BooksSound`);
what the payee's bank has acknowledged is in its tail's book and stays there (`AcksConfirmed`),
so that the ledger gives the verdict the payer's tail reports later; a query goes to the tail
itself (`TailsKnown`); and what has been answered is nowhere under way (`AnswersFinal`), so that
nothing is answered twice. `ServerStepSeen` sorts the steps of all servers by what a tail
does in them: it files an update (`TailFiles`), reports a balance (`TailReports`), closes a
transfer (`TailCloses`) or does nothing (`Unseen`); `FiledAtHome`, `FiledAbroad`, `ReportedStep`,
`ClosedStep` and `RestUnseen` find the step of the ledger for each.

**Repair** (`FailoverProofs`). `FTypeOK` needs the lemmas about types of `ChainProofs` for streams
that also carry the messages of repair, so these are stated for any set of messages between
neighbours (`Typed`). `NoticesLeadToList` speaks of what a server will be when it has applied the
notices in its stream one after the other; `RecursionExists` gives such a fold a walk, from which
follows what reading the first notice (`FirstOfWay`) and sending one more (`LastOfWay`) do to
its end. The property is not inductive: that the one notice a removal sends to a neighbour
is enough depends on who the neighbours are. `FInv` adds `ShrinkingOnly`, what is true as
long as chains only fall apart. Nobody starts or joins (`NobodyNew`, `NoNewTail`); the master's
list is in the order of places and holds every running server (`ListedInOrder`,
`RunningListed`); a running server that takes itself for the head (the tail) is the first (the
last) of that list, however many notices are still under way (`RolesListed`), from which
`OneHeadOneTail` follows; no notice under way is one that only a joining server is sent or that
its place rules out (`NoticesExpected`); and the predecessor a server knows has an earlier place
(`PreEarlier`), so it is no tail when the server connects to it and nobody becomes a new tail.
`RemovalDone` shows that the three kinds of removal keep the invariant, whoever is removed,
`NoticeDone` that reading any notice does, `CrashInv` that the end of a server at any point does.
`FInv` cannot do without either part of `Complete`. A server that has started and not
joined runs and is in no list; a head that is removed because its pings
are lost runs on as a head (`suspicion` is about what that does to clients).

**Induction.** The library's induction theorems cannot be used here (they take an
operator), and neither can a definition by recursion be expanded by the provers.
`ChainProofs` proves induction for sets of numbers from the least element of such a
set, and that a fold over a sequence has a walk: a function that begins at the fold's
base, makes one step per item and ends at its result (`RecursionExists`, `Solves`). So
`BalanceOf` and `AfterReading`, defined by folds, are proved to do what an induction over the
history shows (`BalanceAppend`, and the lemmas about reading a first and a last message).

All invariants were checked by TLC before they were proved: `ReplyInvariant` also on a chain
of three with two resends, `FreshCopies`, `RightBanks`, `HistoriesExplain`, `SentAccounted` and `LedgerInvariant` on
`ledger` (70 432 states), `HandFresh`, `WholeInvariant` and `MoneyAccounted` of `Whole` on `transfer` (19 417 states),
`MoneyAccounted` also on its instance without threads, with acknowledgements and replies
lost (25 612 states),
`FInv` on `members` (63 230 states).

Only model-checked:

* `AnsweredSurvive`, `NothingMissing` and `MoneyKept`, of `Failover`. They are true of the
  configurations of the runs and, as the table above shows, false of slightly larger ones.
* Liveness (`EveryRequestAnswered`, `SentDrains`, `ChainsRepaired`, `TailsKnown`,
  `TransfersAnswered`): liveness under fairness and `ENABLED` are beyond the prover.

## Not modelled

* TCP as a stream of bytes: a `recv` that returns a part of a record, or two records.
* A server that starts again under its old port.
* Races on the lists of the master: a visit and an insertion are one step each, though
  the code walks and changes the same list from several threads (master.cpp:377).
* `pthread_cancel` in the middle of `process_forwared_request` (server.cpp:663-692):
  the thread ends between two messages here.
* `float` rounding, the JSON parser, logging and time stamps, the address arithmetic
  of sockets, and the random generator of requests beyond the values it can produce.

## Plan

What is left, in the order of importance:

1. `process_forwared_request` split between the number and the execution, for the
   cancellation of its thread.
2. The walk of `send_next_larger_sn` entry by entry, with the outcomes of an ack that removes
   the entry it stands on.
3. `Failover` with a bound for the configurations in which `AnsweredSurvive` and `MoneyKept` hold,
   stated as a hypothesis, so that they can be proved.
