------------------------------- MODULE MCFailover -------------------------------
(***************************************************************************)
(* Small instances of Failover for TLC.                                    *)
(***************************************************************************)
EXTENDS Failover

CONSTANTS b1, b2, c1, c2   \* model values

TheBanks == {b1}

TwoBanks == {b1, b2}

TheAccounts == {1, 2}

TheIds == {"id1", "id2", "id3", "id4"}

Entry(c, k, kind, id, acc, sum) ==
    [req_seq |-> 0, sent_id |-> k, client_port |-> c, type |-> kind,
     req_id |-> id, account_num |-> acc, amount |-> sum, status |-> "none",
     dest_bank_id |-> NoBank, dest_account_num |-> 1, source_bank_id |-> NoBank]

BankOne == [c \in Clients |-> b1]

Never == [c \in Clients |-> 0]

Off == [c \in Clients |-> FALSE]

OnlyFirst == [c \in Clients |-> c = c1]

Once == [c \in Clients |-> 1]

Nothing == {[dest_bank_id |-> NoBank, dest_account_num |-> 1, source_bank_id |-> NoBank]}

\* The deposit of c2 decides whether the withdrawal of c1 is covered.
RaceQueues == (c1 :> <<Entry(c1, 1, "withdraw", "id1", 1, 1)>>)
           @@ (c2 :> <<Entry(c2, 1, "deposit", "id2", 1, 1)>>)

OneDeposit == c1 :> <<Entry(c1, 1, "deposit", "id1", 1, 1)>>

\* Client c1 of b1 pays into b2, where c2 draws on the same account.
BankEach == [c \in Clients |-> IF c = c1 THEN b1 ELSE b2]

PayQueues == [c \in Clients |->
    IF c = c1
    THEN <<Entry(c1, 1, "deposit", "id1", 1, 2),
           [Entry(c1, 2, "transfer", "id2", 1, 1) EXCEPT
              !.dest_bank_id = b2, !.source_bank_id = b1]>>
    ELSE <<Entry(c2, 1, "withdraw", "id3", 1, 1)>>]

NoQueues == [c \in Clients |-> <<>>]

One == [b \in Banks |-> 1]

Two == [b \in Banks |-> 2]

Three == [b \in Banks |-> 3]

FourThenTwo == [b \in Banks |-> IF b = b1 THEN 4 ELSE 2]

Four == [b \in Banks |-> 4]

AllServers == Servers

NotFirst == Servers \ {<<b1, 1>>}

NotThird == Servers \ {<<b1, 3>>}

PayeeHead == {<<b2, 1>>}

PayerTailPayeeHead == {<<b1, 2>>, <<b2, 1>>}

Seconds == {<<b, 2>> : b \in Banks}

FirstAndThird == {<<b1, 1>>, <<b1, 3>>}

================================================================================
