------------------------------- MODULE Alerts -------------------------------
(***************************************************************************)
(* The three log alerts of infra/modules/alerts over the executions of the *)
(* scheduled trading job, in ticks of five minutes.  What an execution     *)
(* logs and books is one of the outcomes module Process allows; how late   *)
(* its lines reach Log Analytics is external.                              *)
(***************************************************************************)
EXTENDS Naturals, FiniteSets

CONSTANTS
    Outcomes,       \* how an execution may end, a subset of the outcomes below
    MaxDuration,    \* bound: ticks from the start of an execution to its end
    MaxDelay,       \* bound: ticks from a line to its ingestion
    Drawdowns       \* bound: drawdowns of a completed cycle, in basis points

Lines == [committed |-> {"cycle.completed"},
          commit_failed |-> {"cycle.completed", "cycle.failed"},
          failed |-> {"cycle.failed"},
          silent |-> {},                       \* killed, or refused settings
          killed_late |-> {"cycle.completed"}] \* killed while it commits

AlertsAssumption ==
    /\ Outcomes \subseteq DOMAIN Lines
    /\ MaxDuration \in Nat /\ MaxDelay \in Nat
    /\ Drawdowns \subseteq Nat

VARIABLES
    clock,          \* ticks since the last time the schedule was due, mod 3
    phase,          \* the clock at which the slow alerts are evaluated
    due,            \* what must still happen in this tick
    running,        \* the ages of the executions that run
    log,            \* lines written: event, age, drawdown, ingested?,
                    \* reported by an alert?, and, until it is ingested,
                    \* the executions missed before it
    firing,         \* firing[a]: the alert a has fired and is not mitigated
    missed,         \* executions due, the last ones in a row, of which none
                    \* completed promptly: missed, failed, or slow
    sinceCompleted  \* ticks since a cycle completed

vars == <<clock, phase, due, running, log, firing, missed, sinceCompleted>>

-----------------------------------------------------------------------------
Minutes(n) == n \div 5

Cadence == Minutes(15)              \* cron */15

(* An execution is prompt that ends this many ticks after its start; the   *)
(* platform lets it run for twice replica_timeout_seconds.                 *)
Prompt == Minutes(5)

AlertNames == {"cycle_failed", "no_cycle", "drawdown"}

\* Mutants of Window: no overlap of consecutive evaluations; two cycles.
WindowOfOnePeriod(a) ==
    CASE a = "cycle_failed" -> Minutes(5)
      [] a = "no_cycle" -> Minutes(45)
      [] a = "drawdown" -> Minutes(15)

WindowOfTwoCycles(a) ==
    CASE a = "cycle_failed" -> Minutes(15)
      [] a = "no_cycle" -> Minutes(30)
      [] a = "drawdown" -> Minutes(60)

(* window_duration of each alert. *)
Window(a) ==
    CASE a = "cycle_failed" -> Minutes(15)
      [] a = "no_cycle" -> Minutes(45)
      [] a = "drawdown" -> Minutes(60)

(* drawdown_alert_ratio. *)
AlertDrawdown == 500

(* A line is of use while some alert may still look at it.                 *)
Horizon == Window("drawdown") + Cadence + 1

\* Counters stop here, of ticks at Ceiling and of executions at two: beyond
\* it nothing is told apart.
Ceiling == Horizon

Capped(n) == IF n > Ceiling THEN Ceiling ELSE n

OneMore(n) == IF n < 2 THEN n + 1 ELSE n

(* The newest completed line is the one silence is measured from; the      *)
(* older ones matter until they are reported.                              *)
Forgotten(l, lines) ==
    \/ l.age > Horizon
    \/ l.event = "cycle.failed" /\ l.reported
    \/ /\ l.event = "cycle.completed"
       /\ l.ingested
       /\ l.reported \/ l.drawdown = 0
       /\ \E n \in lines : n.event = l.event /\ n.ingested /\ n.age < l.age

Keep(lines) == {l \in lines : ~Forgotten(l, lines)}

(* A line at the end of an execution; a failure carries no drawdown.       *)
Line(event, d) ==
    LET completed == event = "cycle.completed"
    IN  [event |-> event, age |-> 0,
         drawdown |-> IF completed THEN d ELSE 0,
         gap |-> IF completed THEN missed ELSE 0,
         ingested |-> FALSE, reported |-> FALSE]

-----------------------------------------------------------------------------
(* The job runs, and a cycle has just been completed and committed.        *)
Init ==
    /\ clock = 0
    /\ phase \in 0 .. Cadence - 1
    /\ due = {}
    /\ running = {}
    /\ log = {[event |-> "cycle.completed", age |-> 0, drawdown |-> 0, gap |-> 0,
                ingested |-> TRUE, reported |-> FALSE]}
    /\ firing = [a \in AlertNames |-> FALSE]
    /\ missed = 0
    /\ sinceCompleted = 0

(* The schedule starts an execution, or fails to: the job is gone.         *)
Start ==
    /\ "start" \in due
    /\ due' = due \ {"start"}
    /\ \/ running' = running \cup {0} /\ UNCHANGED missed
       \/ missed' = OneMore(missed) /\ UNCHANGED running
    /\ UNCHANGED <<clock, phase, log, firing, sinceCompleted>>

(* An execution ends, with its retry if it had one; a slow one has been    *)
(* counted already.                                                        *)
Finish ==
    \E age \in running, o \in Outcomes, d \in Drawdowns :
       LET completes == "cycle.completed" \in Lines[o] IN
       /\ running' = running \ {age}
       /\ log' = Keep(log \cup {Line(e, d) : e \in Lines[o]})
       /\ sinceCompleted' = IF completes THEN 0 ELSE sinceCompleted
       /\ missed' = IF age > Prompt THEN missed
                    ELSE IF completes THEN 0 ELSE OneMore(missed)
       /\ UNCHANGED <<clock, phase, due, firing>>

Ingest ==
    \E l \in log :
       /\ ~l.ingested
       /\ log' = Keep((log \ {l}) \cup {[l EXCEPT !.ingested = TRUE, !.gap = 0]})
       /\ UNCHANGED <<clock, phase, due, running, firing, missed,
                      sinceCompleted>>

(* The ingested lines in the window of an evaluation; a line as old as the *)
(* window is in it or not, by the order of events within its tick.         *)
InWindow(a, edge) ==
    {l \in log : l.ingested /\ l.age < Window(a) + edge}

\* A mutant: with a by clause there is no row to compare when nothing ran.
CountByFires(a, lines) ==
    CASE a = "cycle_failed" -> \E l \in lines : l.event = "cycle.failed"
      [] a = "no_cycle" -> FALSE
      [] a = "drawdown" ->
            \E l \in lines : l.event = "cycle.completed"
                             /\ l.drawdown > AlertDrawdown

(* The three queries with their operators and thresholds. *)
Fires(a, lines) ==
    CASE a = "cycle_failed" -> \E l \in lines : l.event = "cycle.failed"
      [] a = "no_cycle" -> ~ \E l \in lines : l.event = "cycle.completed"
      [] a = "drawdown" ->
            \E l \in lines : l.event = "cycle.completed"
                             /\ l.drawdown > AlertDrawdown

(* What a firing alert is about. *)
Reported(a, l) ==
    CASE a = "cycle_failed" -> l.event = "cycle.failed"
      [] a = "no_cycle" -> FALSE
      [] a = "drawdown" -> l.event = "cycle.completed"
                           /\ l.drawdown > AlertDrawdown

Evaluate(a) ==
    /\ a \in due
    /\ due' = due \ {a}
    /\ \E edge \in {0, 1} :
          LET lines == InWindow(a, edge)
          IN  /\ firing' = [firing EXCEPT ![a] = Fires(a, lines)]
              /\ log' = Keep((log \ lines) \cup
                    {[l EXCEPT !.reported = @ \/ Reported(a, l)] : l \in lines})
    /\ UNCHANGED <<clock, phase, running, missed, sinceCompleted>>

(* The fast alert is evaluated every five minutes, the others every        *)
(* fifteen; executions and ingestion keep their bounds.                    *)
Tick ==
    LET next == (clock + 1) % Cadence IN
    /\ due = {}
    /\ \A age \in running : age < MaxDuration
    /\ \A l \in log : ~l.ingested => l.age < MaxDelay
    /\ clock' = next
    /\ due' = {"cycle_failed"}
              \cup (IF next = 0 THEN {"start"} ELSE {})
              \cup (IF next = phase THEN {"no_cycle", "drawdown"} ELSE {})
    /\ running' = {age + 1 : age \in running}
    /\ log' = Keep({[l EXCEPT !.age = @ + 1] : l \in log})
    /\ sinceCompleted' = Capped(sinceCompleted + 1)
    /\ missed' = IF Prompt \in running THEN OneMore(missed) ELSE missed
    /\ UNCHANGED <<phase, firing>>

Next ==
    \/ Start \/ Finish \/ Ingest \/ Tick
    \/ \E a \in AlertNames : Evaluate(a)

Spec == Init /\ [][Next]_vars

-----------------------------------------------------------------------------
(* The latest moment a slow alert has looked: a window, the distance of    *)
(* two evaluations, and the rounding to ticks.                             *)
Latest(a) == Window(a) + Cadence

(* An hour without a completed cycle, for whatever reason, has made the    *)
(* absence alert fire.  It rests on a count that is zero, not missing,     *)
(* when nothing ran.                                                       *)
SilenceIsReported ==
    sinceCompleted > Latest("no_cycle") => firing["no_cycle"]

(* Every failure the bot logs, and every drawdown beyond the ratio, is     *)
(* seen by an evaluation, however short it was and although its line may   *)
(* be ingested late: windows longer than the evaluation period overlap.    *)
LinesAreReported ==
    \A l \in log :
        /\ l.event = "cycle.failed" =>
               l.age <= Window("cycle_failed") \/ l.reported
        /\ l.event = "cycle.completed" /\ l.drawdown > AlertDrawdown =>
               l.age <= Latest("drawdown") \/ l.reported

(* n executions in a row that were due did not complete promptly, as far   *)
(* as the ingested lines tell.                                             *)
Missed(n) == missed >= n \/ \E l \in log : ~l.ingested /\ l.gap >= n

StartsToFire(a) == ~firing[a] /\ firing'[a]

(* One missed execution is a transient (main.tf:71): the absence alert     *)
(* starts to fire only after two of those due, in a row, did not complete  *)
(* promptly.  A slow execution counts: one missed and a slow one next to   *)
(* it are enough for the alert.                                            *)
TransientsAreIgnored == [][StartsToFire("no_cycle") => Missed(2)]_vars
=============================================================================
