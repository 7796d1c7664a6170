----------------------------- MODULE JobAttempt ------------------------------
(***************************************************************************)
(* What an attempt of the trading job promises to the platform that starts *)
(* it (main(), __main__.py): it books its transaction at most once, says   *)
(* success only of a booked transaction, and says failure otherwise.  An   *)
(* attempt may fail although its transaction is booked, and a failed one   *)
(* may be followed by another.                                             *)
(***************************************************************************)
VARIABLE stage

Init == stage \in {"idle", "running"}

Begin == stage \in {"idle", "failed"} /\ stage' = "running"

Book == stage = "running" /\ stage' = "booked"

Succeed == stage = "booked" /\ stage' = "succeeded"

Fail == stage \in {"running", "booked"} /\ stage' = "failed"

Next == Begin \/ Book \/ Succeed \/ Fail

Spec == Init /\ [][Next]_stage
=============================================================================
