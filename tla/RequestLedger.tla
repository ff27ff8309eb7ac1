---------------------------- MODULE RequestLedger ----------------------------
(***************************************************************************)
(* What POST /v1/chat/completions promises, without saying how.            *)
(*                                                                         *)
(* Every request has one answer and at most one row in the request log.    *)
(* The answer gets its status once; its outcome is open while a stream is  *)
(* running, and then settles once, as done or as error.  A row is written  *)
(* only for a settled answer, once, and repeats that answer.  A request    *)
(* refused before the handler runs is answered and never logged.  The      *)
(* process may stop at any point, and nothing happens after that.          *)
(*                                                                         *)
(* ChatHandler implements this specification.                              *)
(***************************************************************************)
EXTENDS Naturals

CONSTANTS
    Requests,       \* the requests the gateway receives
    ErrorStatuses   \* the HTTP statuses other than 200 an answer can have

VARIABLES
    answer,    \* answer[r]: the status line (0 before it) and the outcome
    ledger,    \* ledger[r]: the answer the log holds for r, or NoRecord
    stopped    \* TRUE once the process is gone

ledgerVars == <<answer, ledger, stopped>>

NoAnswer == [status |-> 0, outcome |-> "open"]
NoRecord == [status |-> 0, outcome |-> "none"]

Init == /\ answer  = [r \in Requests |-> NoAnswer]
        /\ ledger  = [r \in Requests |-> NoRecord]
        /\ stopped = FALSE

Unlogged(r) == ledger[r] = NoRecord

\* The first byte of a stream: the status is 200 and the outcome still open.
Begin(r) == /\ ~stopped
            /\ answer[r] = NoAnswer
            /\ answer' = [answer EXCEPT ![r].status = 200]
            /\ UNCHANGED <<ledger, stopped>>

\* The answer succeeds: its status is 200, sent now or when the stream began.
Succeed(r) == /\ ~stopped
              /\ answer[r].outcome = "open"
              /\ answer' = [answer EXCEPT ![r] = [status |-> 200, outcome |-> "done"]]
              /\ UNCHANGED <<ledger, stopped>>

\* The answer fails.  An error status needs a status line that is still
\* unsent; a stream that has begun keeps its 200.
FailWith(r, s) == /\ ~stopped
                  /\ answer[r].outcome = "open"
                  /\ s = answer[r].status \/ (answer[r].status = 0 /\ s \in ErrorStatuses)
                  /\ s # 0
                  /\ answer' = [answer EXCEPT ![r] = [status |-> s, outcome |-> "error"]]
                  /\ UNCHANGED <<ledger, stopped>>

\* The row repeats the settled answer, whatever it was, except that of a
\* request turned away at the door.
Record(r) == /\ ~stopped
             /\ Unlogged(r)
             /\ answer[r].outcome # "open"
             /\ answer[r].status # 401
             /\ ledger' = [ledger EXCEPT ![r] = answer[r]]
             /\ UNCHANGED <<answer, stopped>>

Stop == /\ ~stopped
        /\ stopped' = TRUE
        /\ UNCHANGED <<answer, ledger>>

Next == \/ Stop
        \/ \E r \in Requests : \/ Begin(r)
                               \/ Succeed(r)
                               \/ Record(r)
                               \/ \E s \in ErrorStatuses \cup {200} : FailWith(r, s)

LedgerSpec == Init /\ [][Next]_ledgerVars
==============================================================================
