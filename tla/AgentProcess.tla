------------------------------ MODULE AgentProcess ------------------------------
(***************************************************************************)
(* What the rest of a capture machine sees of its capture agents: whether  *)
(* an agent runs, the ffmpeg recorder it holds, and the recorders that     *)
(* nobody holds any more.  A recorder is started in a session of its own,  *)
(* so nothing but its agent ever stops it: one that its agent loses goes   *)
(* on recording.                                                           *)
(***************************************************************************)
CONSTANT Role  \* the agents of the machine

VARIABLES
    agent,     \* "down", "up", or "leaving" its loop for good
    recorder,  \* what the agent holds: "none", a "live", "hung" or "exited" ffmpeg
    stray      \* the roles of which an agent has lost a recorder that runs on

agentVars == <<agent, recorder, stray>>

Running == {"live", "hung"}

Init ==
    /\ agent = [r \in Role |-> "down"]
    /\ recorder = [r \in Role |-> "none"]
    /\ stray = {}

Launch(r) ==
    /\ agent[r] = "down"
    /\ agent' = [agent EXCEPT ![r] = "up"]
    /\ UNCHANGED <<recorder, stray>>

\* The loop starts a recorder, also in place of one that has exited, or stops it.
Record(r) ==
    /\ agent[r] = "up"
    /\ recorder[r] \in {"none", "exited"}
    /\ recorder' = [recorder EXCEPT ![r] = "live"]
    /\ UNCHANGED <<agent, stray>>

Halt(r) ==
    /\ agent[r] = "up"
    /\ recorder' = [recorder EXCEPT ![r] = "none"]
    /\ UNCHANGED <<agent, stray>>

\* ffmpeg no longer writes, or ends (external).
Break(r) ==
    /\ recorder[r] \in Running
    /\ \E state \in {"hung", "exited"} : recorder' = [recorder EXCEPT ![r] = state]
    /\ UNCHANGED <<agent, stray>>

Lose(r) == stray' = stray \cup {r}

\* A signal or an error ends the loop.  In the statement that starts a recorder the
\* process may exist before the agent holds it.
Leave(r) ==
    /\ agent[r] = "up"
    /\ agent' = [agent EXCEPT ![r] = "leaving"]
    /\ \/ UNCHANGED stray
       \/ recorder[r] \notin Running /\ Lose(r)
    /\ UNCHANGED recorder

Finish(r) ==
    /\ agent[r] = "leaving"
    /\ agent' = [agent EXCEPT ![r] = "down"]
    /\ recorder' = [recorder EXCEPT ![r] = "none"]
    /\ UNCHANGED stray

\* The agent is gone at once, its recorder is not.
Kill(r) ==
    /\ agent[r] # "down"
    /\ agent' = [agent EXCEPT ![r] = "down"]
    /\ recorder' = [recorder EXCEPT ![r] = "none"]
    /\ \/ recorder[r] \notin Running /\ UNCHANGED stray
       \/ recorder[r] \in Running /\ Lose(r)
       \/ agent[r] = "up" /\ recorder[r] \notin Running /\ Lose(r)

AgentStep(r) == Record(r) \/ Halt(r) \/ Leave(r) \/ Finish(r)

Next == \E r \in Role : Launch(r) \/ AgentStep(r) \/ Break(r) \/ Kill(r)

Spec == Init /\ [][Next]_agentVars
================================================================================
