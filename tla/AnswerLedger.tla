----------------------------- MODULE AnswerLedger -----------------------------
(* What the RAP adapter promises an agent runtime about each tool call: it gets  *)
(* one answer for good, "result" only when the work was done, and the runtime is *)
(* told an answer only after it was put on record.                               *)
EXTENDS Naturals

CONSTANT Calls

VARIABLES taken,   \* the calls that were accepted
          done,    \* those whose work was done
          answer,  \* per call: the answer on record, or "none"
          told     \* per call: the answers the runtime got

ledgerVars == <<taken, done, answer, told>>

LedgerInit ==
    /\ taken = {} /\ done = {}
    /\ answer = [k \in Calls |-> "none"]
    /\ told = [k \in Calls |-> {}]

(* A call stays taken; only the work of a taken call is done, and stays done. *)
Proceeds(k) ==
    /\ k \in taken => k \in taken'
    /\ k \in done => k \in done'
    /\ k \in done' => k \in done \/ k \in taken

(* A restart may settle several calls, so that every call takes a step of its own. *)
Settles(k) ==
    \/ answer'[k] = answer[k]
    \/ /\ k \in taken /\ answer[k] = "none"
       /\ answer'[k] = "result" => k \in done

Hears(k) ==
    \/ told'[k] = told[k]
    \/ answer[k] # "none" /\ told'[k] = told[k] \cup {answer[k]}

LedgerNext == \A k \in Calls : Proceeds(k) /\ Settles(k) /\ Hears(k)

LedgerSpec == LedgerInit /\ [][LedgerNext]_ledgerVars
=============================================================================
