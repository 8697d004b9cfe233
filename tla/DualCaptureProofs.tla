--------------------------- MODULE DualCaptureProofs ---------------------------
(***************************************************************************)
(* Theorems about DualCapture, for any agents and any number of faults.    *)
(***************************************************************************)
EXTENDS DualCapture, TLAPS

\* An agent that runs was started by the supervisor that runs now.
StartedHere ==
    /\ \A r \in Role : agent[r] # "down" => r \in started
    /\ sup = "down" => \A r \in Role : agent[r] = "down"

DualInv == TypeOK /\ StartedHere

LEMMA InitDualInv == DualInit => DualInv
BY DualAssumption DEF DualAssumption, DualInit, Init, DualInv, TypeOK, StartedHere

\* What an agent does by itself, or what ends it, starts no agent.
LEMMA AgentStepInv ==
    ASSUME DualInv, NEW r \in Role, AgentStep(r) \/ Break(r) \/ Kill(r),
           UNCHANGED <<sup, started, asked>>, told' \subseteq started, faults' \in 0..MaxFaults
    PROVE  DualInv'
<1> USE DEF DualInv, TypeOK, StartedHere
<1>1. CASE Record(r) \/ Halt(r)
  BY <1>1 DEF Record, Halt
<1>2. CASE Leave(r)
  BY <1>2 DEF Leave, Lose
<1>3. CASE Finish(r)
  BY <1>3 DEF Finish
<1>4. CASE Break(r)
  BY <1>4 DEF Break
<1>5. CASE Kill(r)
  BY <1>5 DEF Kill, Lose
<1> QED
  BY <1>1, <1>2, <1>3, <1>4, <1>5 DEF AgentStep

LEMMA NextDualInv == DualInv /\ [DualNext]_vars => DualInv'
<1> SUFFICES ASSUME DualInv, [DualNext]_vars PROVE DualInv'
  OBVIOUS
<1>1. faults \in 0..MaxFaults /\ told \subseteq started
  BY DEF DualInv, TypeOK
<1>2. Fault => faults' \in 0..MaxFaults
  BY <1>1, DualAssumption DEF Fault, DualAssumption
<1>3. CASE Ask
  BY <1>3 DEF Ask, DualInv, TypeOK, StartedHere, agentVars
<1>4. CASE Begin
  BY <1>4 DEF Begin, DualInv, TypeOK, StartedHere, agentVars
<1>5. CASE StartFails
  BY <1>2, <1>5 DEF StartFails, DualInv, TypeOK, StartedHere, agentVars
<1>6. CASE Notice \/ AllTold
  BY <1>6 DEF Notice, AllTold, DualInv, TypeOK, StartedHere, agentVars
<1>7. CASE Exit
  <2>1. \A r \in Role : agent[r] = "down"
    BY <1>7 DEF Exit, Alive, DualInv, StartedHere
  <2> QED
    BY <1>7, <2>1 DEF Exit, DualInv, TypeOK, StartedHere, agentVars
<1>8. ASSUME NEW r \in Role, StartChild(r) PROVE DualInv'
  BY <1>8 DEF StartChild, Launch, DualInv, TypeOK, StartedHere
<1>9. ASSUME NEW r \in Role, Terminate(r) PROVE DualInv'
  <2>1. told' \subseteq started /\ UNCHANGED <<sup, started, asked>>
    BY <1>1, <1>9 DEF Terminate, Alive
  <2>2. CASE (Leave(r) \/ Kill(r)) /\ UNCHANGED faults
    BY <1>1, <2>1, <2>2, AgentStepInv DEF AgentStep
  <2>3. CASE Fault /\ UNCHANGED agentVars
    BY <1>2, <2>1, <2>3 DEF DualInv, TypeOK, StartedHere, agentVars
  <2> QED
    BY <1>9, <2>2, <2>3 DEF Terminate
<1>10. ASSUME NEW r \in Role, KillGroup(r) PROVE DualInv'
  BY <1>1, <1>10, AgentStepInv DEF KillGroup, supVars
<1>11. ASSUME NEW r \in Role, Child(r) PROVE DualInv'
  BY <1>1, <1>2, <1>11, AgentStepInv DEF Child, supVars
<1>12. CASE UNCHANGED vars
  BY <1>12 DEF vars, DualInv, TypeOK, StartedHere
<1> QED
  BY <1>3, <1>4, <1>5, <1>6, <1>7, <1>8, <1>9, <1>10, <1>11, <1>12 DEF DualNext, Supervise

LEMMA DualInductive == DualSpec => []DualInv
BY InitDualInv, NextDualInv, PTL DEF DualSpec

\* Every variable of the supervisor and its agents keeps its type (_run_dual_capture).
THEOREM TypeCorrect == DualSpec => []TypeOK
BY DualInductive, PTL DEF DualInv

\* When the supervisor has ended no agent runs, however many agents it has, in whatever
\* order they end, fail to start, lose their signal or are killed (_run_dual_capture,
\* _stop_child_processes).
THEOREM NoAgentLeftCorrect == DualSpec => []NoAgentLeft
<1>1. DualInv => NoAgentLeft
  BY DEF DualInv, StartedHere, NoAgentLeft
<1> QED
  BY <1>1, DualInductive, PTL
================================================================================
