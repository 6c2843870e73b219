--------------------------------- MODULE Master ---------------------------------
(***************************************************************************)
(* The master (master/master.cpp): it keeps the servers of every bank in a *)
(* list, removes those that have been silent between two visits, and tells *)
(* neighbours, other banks and clients.  Each of its threads is a group of *)
(* actions here; a TCP connection with a server is a stream each way.      *)
(***************************************************************************)
EXTENDS Server

CONSTANTS
    Punctual, \* the servers that, while they run, are heard between any two visits
    Paced     \* the pauses of the code (usleep) are as long as they are meant to be

VARIABLES
    alive,        \* the servers whose process runs
    server_list,  \* server_list[b]: the ports of bank b with their round_flag
    fail_pre_fd,  \* the last server told INTER_NEXT_FAIL, NoServer at first
    telling,      \* the bank whose new head has been told and nobody else yet
    connects,     \* the servers whose connection waits to be accepted
    serfd,        \* the one variable that holds the last accepted connection
    starting,     \* how many receive threads have not read serfd yet
    readers,      \* the connections some receive thread reads
    logins,       \* the clients whose login is on its way
    from_master,  \* from_master[s]: the stream server s reads from the master
    to_master     \* to_master[s]: the stream the master reads from server s

masterState == <<server_list, fail_pre_fd, telling, connects, serfd, starting,
                 readers, logins>>

masterStreams == <<from_master, to_master>>

ASSUME MasterAssumption == Punctual \subseteq Servers /\ Paced \in BOOLEAN

--------------------------------------------------------------------------------
\* A variant that never sets the flag.
ListedUnset(s) == [port |-> s, round_flag |-> "unset"]

Listed(s) == [port |-> s, round_flag |-> "LIVE"]

Ports(list) == [i \in DOMAIN list |-> list[i].port]

(* get_head_server and get_tail_server.  front() of an empty list is        *)
(* whatever lies there: a port nobody listens on.                           *)
GetHeadServer(list) == IF list = <<>> THEN NoServer ELSE Head(list).port

GetTailServer(list) == IF list = <<>> THEN NoServer ELSE Last(list).port

\* send_client: the ends of a bank's chain, to one client.
SetHeadTail(c, b, list) ==
    [op |-> "SET_HEAD_TAIL", to |-> c, bank_id |-> b,
     head_port |-> GetHeadServer(list), tail_port |-> GetTailServer(list)]

\* multicast_client: to all clients the configuration file gives the bank.
MulticastClient(b, list) ==
    Deliver(to_client, {SetHeadTail(c, b, list) : c \in {c \in Clients : BankOf[c] = b}})

\* Sends on the connection with a server; to one that is gone they are lost.
Notify(streams, s, notice) ==
    IF s \in alive THEN [streams EXCEPT ![s] = Append(@, notice)] ELSE streams

NotifyAll(streams, group, notice) ==
    [s \in Servers |-> IF s \in group \cap alive THEN Append(streams[s], notice)
                                                 ELSE streams[s]]

OtherBanks(b) == Banks \ {b}

\* A variant of transfer_head_fail that tells the heads.
OtherHeads(b) == {GetHeadServer(server_list[k]) : k \in OtherBanks(b)}

\* transfer_head_fail: the tails that ship transfers to bank b.
OtherTails(b) == {GetTailServer(server_list[k]) : k \in OtherBanks(b)}

\* transfer_tail_fail: the servers that may acknowledge a transfer to bank b.
OtherServers(b) == UNION {ToSet(Ports(server_list[k])) : k \in OtherBanks(b)}

--------------------------------------------------------------------------------
\* recv_client: a login is answered with the ends of the chain.
RecvLogin(c) ==
    /\ c \in logins
    /\ logins' = logins \ {c}
    /\ to_client' = Deliver(to_client, {SetHeadTail(c, BankOf[c], server_list[BankOf[c]])})
    /\ UNCHANGED <<serverState, to_server, alive, server_list, fail_pre_fd, telling,
                   connects, serfd, starting, readers, masterStreams>>

(* round_ask of a server and round_ask_receive of the master: the datagram  *)
(* of a server that runs sets its flag; one that is lost is a step not taken.*)
RoundAskReceive(s) ==
    /\ s \in alive
    /\ \E i \in DOMAIN server_list[Bank(s)] :
          /\ server_list[Bank(s)][i] = [port |-> s, round_flag |-> "DIE"]
          /\ server_list' = [server_list EXCEPT ![Bank(s)][i].round_flag = "LIVE"]
    /\ UNCHANGED <<serverState, network, alive, fail_pre_fd, telling, connects, serfd,
                   starting, readers, logins, masterStreams>>

(* round_ask_check, a server that was heard: its flag is cleared until it is *)
(* heard again.  For a punctual server that runs this is undone before the   *)
(* next visit and is left out.                                               *)
VisitLive(b, i) ==
    /\ telling = NoBank
    /\ server_list[b][i].round_flag = "LIVE"
    /\ server_list[b][i].port \notin Punctual \cap alive
    /\ server_list' = [server_list EXCEPT ![b][i].round_flag = "DIE"]
    /\ UNCHANGED <<serverState, network, alive, fail_pre_fd, telling, connects, serfd,
                   starting, readers, logins, masterStreams>>

\* A variant that does not look at the flag.
SilentOrNot(b, i) == telling = NoBank

\* round_ask_check, a server not heard since the last visit, by its place.
Silent(b, i) == telling = NoBank /\ server_list[b][i].round_flag = "DIE"

Without(b, i) == RemoveAt(server_list[b], i)

RemoveOnly(b) ==
    /\ Len(server_list[b]) = 1
    /\ Silent(b, 1)
    /\ server_list' = [server_list EXCEPT ![b] = Without(b, 1)]
    /\ to_client' = MulticastClient(b, Without(b, 1))
    /\ UNCHANGED <<serverState, to_server, alive, fail_pre_fd, telling, connects, serfd,
                   starting, readers, logins, masterStreams>>

\* The new head is told first; the checker then sleeps (telling).
RemoveHead(b) ==
    /\ Len(server_list[b]) > 1
    /\ Silent(b, 1)
    /\ server_list' = [server_list EXCEPT ![b] = Without(b, 1)]
    /\ from_master' = Notify(from_master, server_list[b][2].port, [op |-> "HEAD_FAIL"])
    /\ telling' = b
    /\ UNCHANGED <<serverState, network, alive, fail_pre_fd, connects, serfd, starting,
                   readers, logins, to_master>>

\* After the pause: transfer_head_fail, then the clients.
TellNewHead(b) ==
    /\ telling = b
    /\ LET head == GetHeadServer(server_list[b])
       IN  /\ Paced => head \notin alive \/ [op |-> "HEAD_FAIL"] \notin ToSet(from_master[head])
           /\ from_master' = NotifyAll(from_master, OtherTails(b),
                  [op |-> "TRANS_HEAD_FAIL", bank_id |-> b, port |-> head])
    /\ to_client' = MulticastClient(b, server_list[b])
    /\ telling' = NoBank
    /\ UNCHANGED <<serverState, to_server, alive, server_list, fail_pre_fd, connects,
                   serfd, starting, readers, logins, to_master>>

\* server_fail_notice to the server before, then transfer_tail_fail.
RemoveTail(b) ==
    LET i == Len(server_list[b])
    IN  /\ i > 1
        /\ Silent(b, i)
        /\ server_list' = [server_list EXCEPT ![b] = Without(b, i)]
        /\ LET pre == server_list[b][i - 1].port
           IN  from_master' =
                 NotifyAll(Notify(from_master, pre, [op |-> "TAIL_FAIL"]), OtherServers(b),
                           [op |-> "TRANS_TAIL_FAIL", bank_id |-> b, port |-> pre])
        /\ to_client' = MulticastClient(b, Without(b, i))
        /\ UNCHANGED <<serverState, to_server, alive, fail_pre_fd, telling, connects,
                       serfd, starting, readers, logins, to_master>>

\* A variant that tells only the server in front.
InterNoticesOneSided(pre, next) ==
    Notify(from_master, pre, [op |-> "INTER_NEXT_FAIL", port |-> next])

InterNotices(pre, next) ==
    Notify(Notify(from_master, pre, [op |-> "INTER_NEXT_FAIL", port |-> next]),
           next, [op |-> "INTER_PRE_FAIL", port |-> pre])

(* Both neighbours are told; the one before is kept for the number to come.  *)
(* The code sets fail_pre_fd just after the two notices; here it is set with *)
(* them, so no ACK_LAST comes in between.                                    *)
RemoveInter(b, i) ==
    /\ i > 1 /\ i < Len(server_list[b])
    /\ Silent(b, i)
    /\ server_list' = [server_list EXCEPT ![b] = Without(b, i)]
    /\ from_master' = InterNotices(server_list[b][i - 1].port, server_list[b][i + 1].port)
    /\ fail_pre_fd' = server_list[b][i - 1].port
    /\ to_client' = MulticastClient(b, Without(b, i))
    /\ UNCHANGED <<serverState, to_server, alive, telling, connects, serfd, starting,
                   readers, logins, to_master>>

RoundAskCheck ==
    \E b \in Banks :
      \/ \E i \in DOMAIN server_list[b] : VisitLive(b, i) \/ RemoveInter(b, i)
      \/ RemoveOnly(b)
      \/ RemoveHead(b)
      \/ TellNewHead(b)
      \/ RemoveTail(b)

--------------------------------------------------------------------------------
(* accept_connect_from_server.  Only a first server, port ...1, enters the   *)
(* list at once; every server is told the tail of the moment.  The thread    *)
(* that shall read the connection is given the address of serfd.             *)
AcceptServer ==
    /\ connects # <<>>
    /\ LET s == Head(connects)
           b == Bank(s)
           list == IF s = FirstServer(b) THEN Append(server_list[b], Listed(s))
                                         ELSE server_list[b]
       IN  /\ serfd' = s
           /\ server_list' = [server_list EXCEPT ![b] = list]
           /\ to_client' = IF s = FirstServer(b) THEN MulticastClient(b, list) ELSE to_client
           /\ from_master' = Notify(from_master, s,
                                    [op |-> "GET_PRE", port |-> GetTailServer(list)])
    /\ connects' = Tail(connects)
    /\ starting' = starting + 1
    /\ UNCHANGED <<serverState, to_server, alive, fail_pre_fd, telling, readers, logins,
                   to_master>>

\* rec_msg_from_server, its first line.
StartReader ==
    /\ starting > 0
    /\ starting' = starting - 1
    /\ readers' = readers \cup {serfd}
    /\ UNCHANGED <<serverState, network, alive, server_list, fail_pre_fd, telling, connects,
                   serfd, logins, masterStreams>>

Arrives(s, operation) ==
    /\ s \in readers
    /\ to_master[s] # <<>>
    /\ Head(to_master[s]).op = operation

\* Whom send_sn_to_pre asks when the number comes from s.
AskedServer(s) == fail_pre_fd

\* rec_msg_from_server, ACK_LAST
RecAckLast(s) ==
    /\ Arrives(s, "ACK_LAST")
    /\ from_master' = Notify(from_master, AskedServer(s),
                             [op |-> "NEXT_SN", sn |-> Head(to_master[s]).sn])
    /\ to_master' = Pop(to_master, s)
    /\ UNCHANGED <<serverState, network, alive, masterState>>

\* rec_msg_from_server, NEW_TAIL
RecNewTail(s) ==
    /\ Arrives(s, "NEW_TAIL")
    /\ LET b == Bank(s)
           list == Append(server_list[b], Listed(s))
       IN  /\ server_list' = [server_list EXCEPT ![b] = list]
           /\ to_client' = MulticastClient(b, list)
    /\ to_master' = Pop(to_master, s)
    /\ UNCHANGED <<serverState, to_server, alive, fail_pre_fd, telling, connects, serfd,
                   starting, readers, logins, from_master>>

RecFromServer(s) == RecAckLast(s) \/ RecNewTail(s)

MasterStep ==
    \/ \E c \in Clients : RecvLogin(c)
    \/ \E s \in Servers : RoundAskReceive(s) \/ RecFromServer(s)
    \/ RoundAskCheck
    \/ AcceptServer
    \/ StartReader

--------------------------------------------------------------------------------
Notices ==
    [op : {"HEAD_FAIL", "TAIL_FAIL"}]
      \cup [op : {"GET_PRE", "INTER_PRE_FAIL", "INTER_NEXT_FAIL"},
            port : Servers \cup {NoServer}]
      \cup [op : {"TRANS_HEAD_FAIL", "TRANS_TAIL_FAIL"}, bank_id : Banks, port : Servers]
      \cup [op : {"NEXT_SN"}, sn : Int]

Reports == [op : {"NEW_TAIL"}] \cup [op : {"ACK_LAST"}, sn : Int]

MasterTypeOK ==
    /\ alive \subseteq Servers
    /\ server_list \in [Banks -> Seq([port : Servers, round_flag : {"LIVE", "DIE"}])]
    /\ fail_pre_fd \in Servers \cup {NoServer}
    /\ telling \in Banks \cup {NoBank}
    /\ connects \in Seq(Servers)
    /\ serfd \in Servers \cup {NoServer}
    /\ starting \in Nat
    /\ readers \subseteq Servers
    /\ logins \subseteq Clients
    /\ from_master \in [Servers -> Seq(Notices)]
    /\ to_master \in [Servers -> Seq(Reports)]

================================================================================
