--------------------------------- MODULE MCChain ---------------------------------
(***************************************************************************)
(* Small instances of Chain for TLC, with queues in the manner of          *)
(* bank_config.json: a second request under the id of the first, a         *)
(* withdrawal nobody can cover, a query.                                   *)
(***************************************************************************)
EXTENDS ChainLedger

CONSTANTS b1, b2, c1, c2, c3   \* model values

TheBanks == {b1}

TwoBanks == {b1, b2}

TheAccounts == {1, 2}

TheIds == {"id1", "id2", "id3", "id4", "id5", "id6", "id7", "id8"}

\* A request as client_read_conf.cpp builds it from an entry of the file.
Entry(c, k, kind, id, acc, sum) ==
    [req_seq |-> 0, sent_id |-> k, client_port |-> c, type |-> kind,
     req_id |-> id, account_num |-> acc, amount |-> sum, status |-> "none",
     dest_bank_id |-> NoBank, dest_account_num |-> 1, source_bank_id |-> NoBank]

TransferEntry(c, k, id, acc, sum, payee, payee_acc) ==
    [Entry(c, k, "transfer", id, acc, sum) EXCEPT
        !.dest_bank_id = payee, !.dest_account_num = payee_acc,
        !.source_bank_id = BankOf[c]]

Two == [b \in TheBanks |-> 2]

BankOne == [c \in Clients |-> b1]

Never == [c \in Clients |-> 0]

Off == [c \in Clients |-> FALSE]

Once == [c \in Clients |-> 1]

Nothing == {[dest_bank_id |-> NoBank, dest_account_num |-> 1, source_bank_id |-> NoBank]}

\* Only c1 resends.  Its withdrawal is refused or executed depending on the
\* deposit of c2, whose second request uses the withdrawal's id again and whose
\* third has no type.
ResendQueues == (c1 :> <<Entry(c1, 1, "withdraw", "id1", 1, 1),
                         Entry(c1, 2, "deposit", "id2", 1, 1)>>)
             @@ (c2 :> <<Entry(c2, 1, "deposit", "id3", 1, 1),
                         Entry(c2, 2, "withdraw", "id1", 1, 2),
                         Entry(c2, 3, "", "id4", 1, 1)>>)

OnlyFirst == [c \in Clients |-> c = c1]

OneThenThree == [b \in TwoBanks |-> IF b = b1 THEN 1 ELSE 3]

OneThenTwo == [b \in TwoBanks |-> IF b = b1 THEN 1 ELSE 2]

BankEach == [c \in Clients |-> IF c = c1 THEN b1 ELSE b2]

\* c1 and c2 pay into each other's bank and draw on what they got; c2 sends its
\* transfer again, and the first transfer of c1 comes too early to be covered.
MutualQueues == (c1 :> <<TransferEntry(c1, 1, "id1", 1, 1, b2, 2),
                         Entry(c1, 2, "deposit", "id2", 1, 2),
                         TransferEntry(c1, 3, "id3", 1, 1, b2, 2),
                         Entry(c1, 4, "getBalance", "id4", 1, 0)>>)
             @@ (c2 :> <<Entry(c2, 1, "deposit", "id5", 2, 1),
                         TransferEntry(c2, 2, "id6", 2, 2, b1, 1),
                         TransferEntry(c2, 3, "id6", 2, 2, b1, 1)>>)

\* A third client moves the account c2 draws on.
TrafficQueues == MutualQueues @@ (c3 :> <<Entry(c3, 1, "withdraw", "id7", 2, 1)>>)

\* A third client uses the id of a transfer of c1 at the payee's bank, maybe
\* first: then the transfer is answered InconsistentWithHistory.
ClashQueues == MutualQueues @@ (c3 :> <<Entry(c3, 1, "deposit", "id3", 2, 1)>>)

\* A transfer out of a bank of one server, resent.
ResentTransferQueues == (c1 :> <<Entry(c1, 1, "deposit", "id1", 1, 2),
                                 TransferEntry(c1, 2, "id2", 1, 1, b2, 2)>>)

================================================================================
