------------------------------ MODULE DualCapture ------------------------------
(***************************************************************************)
(* The supervisor of start-dual-capture: it starts the two agents, waits   *)
(* until one of them ends or until it is asked to stop, and then stops     *)
(* what still runs, first with SIGTERM and after five seconds with         *)
(* SIGKILL.  launchd starts it again.  The agents are AgentProcess; the    *)
(* supervisor reaches their process groups, but no recorder, which is in a *)
(* session of its own.                                                     *)
(***************************************************************************)
EXTENDS AgentProcess, Naturals

CONSTANTS
    First,     \* the role that is started first
    MaxFaults  \* bound: broken recorders, lost signals, failed starts, kills

ASSUME DualAssumption ==
    /\ First \in Role
    /\ MaxFaults \in Nat

VARIABLES
    sup,      \* "down", "starting", "watching", "stopping" or "waiting"
    started,  \* the agents it has started
    asked,    \* whether a signal asked it to stop: "no" or "yes"
    told,     \* the agents that got a SIGTERM
    faults    \* how many faults have happened (bounded by MaxFaults)

supVars == <<sup, started, asked, told>>
vars == <<agent, recorder, stray, sup, started, asked, told, faults>>

Fault == faults < MaxFaults /\ faults' = faults + 1

DualInit ==
    /\ Init
    /\ sup = "down"
    /\ started = {}
    /\ asked = "no"
    /\ told = {}
    /\ faults = 0

Alive == {r \in started : agent[r] # "down"}

--------------------------------------------------------------------------------
\* A variant of Begin: what the last supervisor did is not forgotten.
BeginWithOldMarks ==
    /\ sup = "down"
    /\ sup' = "starting"
    /\ started' = {}
    /\ asked' = "no"
    /\ UNCHANGED <<agentVars, told, faults>>

\* launchd starts the supervisor, which starts its children one after the other; a
\* signal is only noted, and looked at once they run.
Begin ==
    /\ sup = "down"
    /\ sup' = "starting"
    /\ started' = {}
    /\ asked' = "no"
    /\ told' = {}
    /\ UNCHANGED <<agentVars, faults>>

StartChild(r) ==
    /\ sup = "starting"
    /\ r \notin started
    /\ r = First \/ First \in started
    /\ Launch(r)
    /\ started' = started \cup {r}
    /\ sup' = IF started' = Role THEN "watching" ELSE "starting"
    /\ UNCHANGED <<asked, told, faults>>

StartFails ==
    /\ sup = "starting"
    /\ Fault
    /\ sup' = "stopping"
    /\ UNCHANGED <<agentVars, started, asked, told>>

Ask ==
    /\ sup # "down"
    /\ asked = "no"
    /\ asked' = "yes"
    /\ UNCHANGED <<agentVars, sup, started, told, faults>>

Notice ==
    /\ sup = "watching"
    /\ asked = "yes" \/ started \ Alive # {}
    /\ sup' = "stopping"
    /\ UNCHANGED <<agentVars, started, asked, told, faults>>

\* SIGTERM ends the agent's loop, or is taken for an upload error and lost, or kills an
\* agent that is ending already.
Terminate(r) ==
    /\ sup = "stopping"
    /\ r \in Alive \ told
    /\ told' = told \cup {r}
    /\ \/ Leave(r) /\ UNCHANGED faults
       \/ agent[r] = "up" /\ Fault /\ UNCHANGED agentVars
       \/ agent[r] = "leaving" /\ Kill(r) /\ UNCHANGED faults
    /\ UNCHANGED <<sup, started, asked>>

AllTold ==
    /\ sup = "stopping"
    /\ Alive \subseteq told
    /\ sup' = "waiting"
    /\ UNCHANGED <<agentVars, started, asked, told, faults>>

\* An agent is slow that never got the signal, or waits for a recorder that hangs: ten
\* seconds, while the supervisor waits five.
Slow(r) == agent[r] = "up" \/ recorder[r] = "hung"

\* A variant of KillGroup: the wait has no timeout.
KillNone(r) == FALSE /\ UNCHANGED vars

KillGroup(r) ==
    /\ sup = "waiting"
    /\ r \in Alive
    /\ Slow(r)
    /\ Kill(r)
    /\ UNCHANGED <<supVars, faults>>

\* A variant of Exit: it does not wait for the children it has told.
ExitAtOnce ==
    /\ sup = "waiting"
    /\ sup' = "down"
    /\ UNCHANGED <<agentVars, started, asked, told, faults>>

Exit ==
    /\ sup = "waiting"
    /\ Alive = {}
    /\ sup' = "down"
    /\ UNCHANGED <<agentVars, started, asked, told, faults>>

--------------------------------------------------------------------------------
\* What an agent does by itself, and what happens to it.
Child(r) ==
    \/ AgentStep(r) /\ UNCHANGED <<supVars, faults>>
    \/ (Break(r) \/ Kill(r)) /\ Fault /\ UNCHANGED supVars

Supervise ==
    \/ Begin \/ StartFails \/ Notice \/ AllTold \/ Exit
    \/ \E r \in Role : StartChild(r) \/ Terminate(r) \/ KillGroup(r)

DualNext == Ask \/ Supervise \/ \E r \in Role : Child(r)

DualSpec == DualInit /\ [][DualNext]_vars

\* launchd and the supervisor's loop run, and an agent that leaves comes to its end.
DualFairSpec ==
    /\ DualSpec
    /\ WF_vars(Supervise)
    /\ \A r \in Role : WF_vars(Finish(r) /\ UNCHANGED <<supVars, faults>>)

--------------------------------------------------------------------------------
TypeOK ==
    /\ agent \in [Role -> {"down", "up", "leaving"}]
    /\ recorder \in [Role -> {"none", "live", "hung", "exited"}]
    /\ stray \subseteq Role
    /\ sup \in {"down", "starting", "watching", "stopping", "waiting"}
    /\ started \subseteq Role
    /\ asked \in {"no", "yes"}
    /\ told \subseteq started
    /\ faults \in 0..MaxFaults

\* No agent outlives its supervisor, which launchd starts again with two new ones for
\* the same spools, unless the supervisor itself is killed (_run_dual_capture).
NoAgentLeft == sup = "down" => \A r \in Role : agent[r] = "down"

\* One microphone alone is never recorded for long: when a child has ended, or a signal
\* came, the other child ends too, also one that lost its signal or hangs in its
\* recorder (_run_dual_capture, _stop_child_processes).
BothOrNone ==
    sup = "watching" /\ (asked = "yes" \/ \E r \in Role : agent[r] = "down")
        ~> \A r \in Role : agent[r] = "down"
================================================================================
