-------------------------------- MODULE ChainLedger -------------------------------
(***************************************************************************)
(* The chains implement the ledger: seen at the tails, their histories are *)
(* the books and their replies the answers.                                *)
(***************************************************************************)
EXTENDS Chain

\* The book two histories of a server amount to.
BookOf(processed, insuf) ==
    LET executed == ToSet(processed)
        refused == ToSet(insuf)
        entry(id) == CHOOSE q \in executed \cup refused : q.req_id = id
    IN  [id \in {q.req_id : q \in executed \cup refused} |->
           [content |-> Content(entry(id)),
            outcome |-> IF entry(id) \in executed THEN "Processed"
                                                  ELSE "InsufficientFunds"]]

\* The accounts and the books as the tails hold them.
TailAccounts == [b \in Banks |-> balance_map[LastServer(b)]]

TailBooks ==
    [b \in Banks |-> BookOf(processed_trans[LastServer(b)],
                            insuf_funds_trans[LastServer(b)])]

\* A tail keeps in `sent` the transfers the payee's bank has not acknowledged.
OpenTransfers == UNION {Names(sent[LastServer(b)]) : b \in Banks}

Answers ==
    {[client |-> m.to, sent_id |-> m.sent_id, outcome |-> m.outcome,
      balance |-> m.balance] : m \in UNION {Replies(c) : c \in Clients}}

L == INSTANCE Ledger WITH
        accounts <- TailAccounts,
        book <- TailBooks,
        open <- OpenTransfers,
        answers <- Answers

(* Without resends the chains of all banks behave, seen by their clients,   *)
(* like the ledger: the decisions heads take ahead of their tails are the   *)
(* ones the ledger takes when the tail answers (process_forwared_request,   *)
(* rec_client, rec_other_bank).                                             *)
ImplementsLedger == L!LedgerSpec

================================================================================
