-------------------------- MODULE LedgerRefinement --------------------------
(***************************************************************************)
(* The detailed cycle implements the atomic ledger: the orders table is    *)
(* what is booked, the newest snapshot's cash and the position row are     *)
(* what a reader finds.  It does so as long as executions do not overlap:  *)
(* one commit is one booking, every other step changes nothing a reader    *)
(* sees.                                                                   *)
(***************************************************************************)
EXTENDS TradingCycle

Abstract == INSTANCE AtomicLedger WITH
    booked <- orders,
    cash <- CashOnRecord,
    held <- Held(position)

(* Every behaviour of the job, projected on its three tables, is one of    *)
(* the atomic ledger: a hold, a replay, a rollback or a retry changes      *)
(* neither cash nor quantity, and a commit changes them by its order's     *)
(* fill, not by what its cycle read before.                                *)
ImplementsAtomicLedger == Abstract!Spec

(* An attempt that runs has booked its transaction when the snapshot of    *)
(* its cycle, dated by the instant it started, can be read.                *)
Stage(e) ==
    CASE pc[e] = "idle" -> "idle"
      [] pc[e] = "succeeded" -> "succeeded"
      [] pc[e] \in {"failed", "gave_up"} -> "failed"
      [] \E s \in snapshots : s.takenAt = cycle[e].now -> "booked"
      [] OTHER -> "running"

Promise(e) == INSTANCE JobAttempt WITH stage <- Stage(e)

(* Every attempt keeps the promise that main() makes in module Process: it *)
(* succeeds only after its transaction is booked, whatever conflicts.      *)
AttemptsKeepThePromise ==
    /\ \A e \in Executions : Promise(e)!Init
    /\ [][\A e \in Executions :
            Promise(e)!Next \/ UNCHANGED Stage(e)]_vars
=============================================================================
