----------------------------- MODULE CostGuard ------------------------------
(***************************************************************************)
(* The runbook that stops the project's PostgreSQL servers when the budget *)
(* is spent (infra/governance/runbooks/stop-cost-drivers.ps1): one listing,*)
(* then one request per server of the listing, while the servers change    *)
(* state by themselves.  Azure is external.                                *)
(***************************************************************************)
EXTENDS Naturals, Sequences

CONSTANTS Project, Other, Untagged,   \* values of the tag project
          Count                       \* bound: servers in the subscription

CostGuardAssumption == Count \in Nat

VARIABLES
    servers,    \* servers[i]: its tag and its state now
    listing,    \* the servers as they were listed
    next,       \* the place of the loop in the listing
    run,        \* "connecting", "looping", "done", "failed"
    accepted,   \* the servers whose stop was accepted by this run
    halted      \* the servers that were down at some moment since the listing

vars == <<servers, listing, next, run, accepted, halted>>

-----------------------------------------------------------------------------
States == {"Ready", "Starting", "Updating", "Stopping", "Stopped"}

Down == {"Stopping", "Stopped"}

Servers == 1 .. Count

Init ==
    /\ servers \in [Servers -> [tag : {Project, Other, Untagged}, state : States]]
    /\ listing = <<>>
    /\ next = 1
    /\ run = "connecting"
    /\ accepted = {}
    /\ halted = {}

(* The login and the listing; either may fail.                             *)
ListServers ==
    /\ run = "connecting"
    /\ \/ run' = "failed" /\ UNCHANGED <<listing, halted>>
       \/ /\ listing' = servers
          /\ halted' = {i \in Servers : servers[i].state \in Down}
          /\ run' = IF Count = 0 THEN "done" ELSE "looping"
    /\ UNCHANGED <<servers, next, accepted>>

Foreign(s) == s.tag # Project

AlreadyStopped(s) == s.state = "Stopped"

Skip ==
    /\ run = "looping"
    /\ next <= Len(listing)
    /\ Foreign(listing[next]) \/ AlreadyStopped(listing[next])
    /\ next' = next + 1
    /\ UNCHANGED <<servers, listing, run, accepted, halted>>

\* A mutant: a refused request is reported and passed over.
StopOrGoOn ==
    /\ run = "looping"
    /\ next <= Len(listing)
    /\ ~Foreign(listing[next]) /\ ~AlreadyStopped(listing[next])
    /\ next' = next + 1
    /\ \/ /\ servers' = [servers EXCEPT ![next].state = "Stopping"]
          /\ accepted' = accepted \cup {next}
          /\ halted' = halted \cup {next}
       \/ UNCHANGED <<servers, accepted, halted>>
    /\ UNCHANGED <<listing, run>>

(* The request for one server.  Azure accepts it, or refuses it for the    *)
(* state the server has by now, or fails; any other status than 200 or 202 *)
(* throws, and with it the runbook ends.                                   *)
Stop ==
    /\ run = "looping"
    /\ next <= Len(listing)
    /\ ~Foreign(listing[next]) /\ ~AlreadyStopped(listing[next])
    /\ \/ /\ servers[next].state \in {"Ready", "Starting"}
          /\ servers' = [servers EXCEPT ![next].state = "Stopping"]
          /\ accepted' = accepted \cup {next}
          /\ halted' = halted \cup {next}
          /\ next' = next + 1
          /\ UNCHANGED run
       \/ /\ run' = "failed"
          /\ UNCHANGED <<servers, accepted, halted, next>>
    /\ UNCHANGED listing

Done ==
    /\ run = "looping"
    /\ next > Len(listing)
    /\ run' = "done"
    /\ UNCHANGED <<servers, listing, next, accepted, halted>>

(* A server goes on by itself, or by somebody else's hand: it is started,  *)
(* by hand or by Azure after seven days, and a stop that was accepted may  *)
(* still come to nothing.                                                  *)
ServerMoves ==
    \E i \in Servers :
       /\ \E to \in States :
             /\ <<servers[i].state, to>> \in
                   {<<"Starting", "Ready">>, <<"Updating", "Ready">>,
                    <<"Ready", "Updating">>, <<"Stopping", "Stopped">>,
                    <<"Ready", "Stopping">>, <<"Stopping", "Ready">>,
                    <<"Stopped", "Starting">>}
             /\ servers' = [servers EXCEPT ![i].state = to]
             /\ halted' = halted \cup {j \in {i} : to \in Down}
       /\ UNCHANGED <<listing, next, run, accepted>>

Next == ListServers \/ Skip \/ Stop \/ Done \/ ServerMoves

Spec == Init /\ [][Next]_vars

-----------------------------------------------------------------------------
ProjectServers == {i \in Servers : servers[i].tag = Project}

(* "a server belonging to something else is never touched", whatever the   *)
(* listing holds and whatever moves under the loop; and a run that says    *)
(* done has found or brought down every server of the project: each was    *)
(* down at some moment since the listing.  That none runs now it cannot    *)
(* say: one that was listed as stopped, or whose stop was accepted, may    *)
(* have been started since.                                                *)
StopsExactlyTheProject ==
    /\ accepted \subseteq ProjectServers
    /\ run = "done" => ProjectServers \subseteq halted
=============================================================================
