--------------------------------- MODULE Process --------------------------------
(***************************************************************************)
(* The pure part of a server, server/process.cpp: what a request does to a *)
(* bank's balances, how a request id seen before is recognised, and the    *)
(* operations on the list `sent`.  A balance_map is total here: the code   *)
(* creates an account with balance 0 at its first use.                     *)
(***************************************************************************)
EXTENDS Requests, SequencesExt

\* process.cpp compares two requests with one id field by field.
SameTransaction(q, h) ==
    /\ q.type = h.type
    /\ q.account_num = h.account_num
    /\ q.amount = h.amount
    /\ q.type = "transfer" =>
          /\ q.dest_bank_id = h.dest_bank_id
          /\ q.dest_account_num = h.dest_account_num

\* The position of the first request of a history that carries q's id, or 0.
FirstWithId(history, q) ==
    SelectInSeq(history, LAMBDA h : h.req_id = q.req_id)

(* Variants of check_same_req that forget one of its two loops.              *)
CheckSameReqRefusedOnly(processed, insuf, q) ==
    LET i == FirstWithId(insuf, q)
    IN  IF i = 0 THEN "NOT_YET"
        ELSE IF SameTransaction(q, insuf[i]) THEN "EXACTLY_SAME_INSUF"
                                             ELSE "ONLY_SAME_REQID"

CheckSameReqExecutedOnly(processed, insuf, q) ==
    LET j == FirstWithId(processed, q)
    IN  IF j = 0 THEN "NOT_YET"
        ELSE IF SameTransaction(q, processed[j]) THEN "EXACTLY_SAME_PROCESS"
                                                 ELSE "ONLY_SAME_REQID"

\* check_same_req: the refused requests are searched before the executed ones.
CheckSameReq(processed, insuf, q) ==
    LET i == FirstWithId(insuf, q)
        j == FirstWithId(processed, q)
    IN  CASE i # 0 -> IF SameTransaction(q, insuf[i])
                      THEN "EXACTLY_SAME_INSUF" ELSE "ONLY_SAME_REQID"
          [] i = 0 /\ j # 0 -> IF SameTransaction(q, processed[j])
                               THEN "EXACTLY_SAME_PROCESS" ELSE "ONLY_SAME_REQID"
          [] OTHER -> "NOT_YET"

Credit(balances, acc, amount) == [balances EXCEPT ![acc] = @ + amount]

Debit(balances, acc, amount) == [balances EXCEPT ![acc] = @ - amount]

(* processDeposit, processWithdraw and processTransfer at a server of bank  *)
(* b: the status the request gets and the balances it leaves.               *)
ProcessDeposit(b, balances, same, q) ==
    LET acc == IF q.dest_bank_id = b THEN q.dest_account_num ELSE q.account_num
    IN  CASE same = "NOT_YET" ->
                [status |-> "Need", balances |-> Credit(balances, acc, q.amount)]
          [] same = "EXACTLY_SAME_PROCESS" ->
                [status |-> "Processed", balances |-> balances]
          [] OTHER ->
                [status |-> "InconsistentWithHistory", balances |-> balances]

ProcessWithdraw(balances, same, q) ==
    CASE same = "NOT_YET" /\ balances[q.account_num] >= q.amount ->
            [status |-> "Need",
             balances |-> Debit(balances, q.account_num, q.amount)]
      [] same = "EXACTLY_SAME_PROCESS" ->
            [status |-> "Processed", balances |-> balances]
      [] same = "ONLY_SAME_REQID" ->
            [status |-> "InconsistentWithHistory", balances |-> balances]
      [] OTHER ->
            [status |-> "InsufficientFunds", balances |-> balances]

ProcessTransfer(b, balances, same, q) ==
    IF q.dest_bank_id # b THEN ProcessWithdraw(balances, same, q)
                          ELSE ProcessDeposit(b, balances, same, q)

ProcessUpdate(b, balances, same, q) ==
    CASE q.type = "deposit"  -> ProcessDeposit(b, balances, same, q)
      [] q.type = "withdraw" -> ProcessWithdraw(balances, same, q)
      [] OTHER               -> ProcessTransfer(b, balances, same, q)

(* Variants of update_balance: a withdrawal of the whole balance is skipped;  *)
(* an incoming transfer is taken for an outgoing one.                        *)
UpdateBalanceStrict(b, balances, q) ==
    CASE q.type = "deposit" -> Credit(balances, q.account_num, q.amount)
      [] q.type = "transfer" /\ q.dest_bank_id = b ->
            Credit(balances, q.dest_account_num, q.amount)
      [] q.type \in {"withdraw", "transfer"} /\ balances[q.account_num] > q.amount ->
            Debit(balances, q.account_num, q.amount)
      [] OTHER -> balances

UpdateBalancePayerOnly(b, balances, q) ==
    CASE q.type = "deposit" -> Credit(balances, q.account_num, q.amount)
      [] /\ q.type = "withdraw" \/ (q.type = "transfer" /\ q.source_bank_id = b)
         /\ balances[q.account_num] >= q.amount ->
            Debit(balances, q.account_num, q.amount)
      [] OTHER -> balances

(* update_balance: how a server behind the head executes a request the head *)
(* has accepted.  A withdrawal it cannot cover is skipped without a word.   *)
UpdateBalance(b, balances, q) ==
    CASE q.type = "deposit" ->
            Credit(balances, q.account_num, q.amount)
      [] q.type = "transfer" /\ q.dest_bank_id = b ->
            Credit(balances, q.dest_account_num, q.amount)
      [] /\ \/ q.type = "withdraw"
            \/ q.type = "transfer" /\ q.dest_bank_id # b /\ q.source_bank_id = b
         /\ balances[q.account_num] >= q.amount ->
            Debit(balances, q.account_num, q.amount)
      [] OTHER -> balances

--------------------------------------------------------------------------------
\* A variant that ignores whose request it is.
SameSentByNumber(q, r) == q.sent_id = r.sent_id

\* Two requests are the same entry of `sent`: check_in_sent and delete_sent.
SameSent(q, r) == q.sent_id = r.sent_id /\ q.client_port = r.client_port

FirstSent(list, q) == SelectInSeq(list, LAMBDA e : SameSent(q, e))

InSent(list, q) == FirstSent(list, q) # 0

\* delete_sent: erase the first entry of that name.
DeleteSent(list, q) == RemoveFirstMatch(list, LAMBDA e : SameSent(q, e))

\* A variant of get_pre_send_status that does not look the status up.
PreSendStatusOfCopy(list, q) == q.status

\* get_pre_send_status: 0 when the request is absent.
PreSendStatus(list, q) ==
    IF InSent(list, q) THEN list[FirstSent(list, q)].status ELSE "none"

================================================================================
