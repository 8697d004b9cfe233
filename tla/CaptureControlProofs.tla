-------------------------- MODULE CaptureControlProofs -------------------------
(***************************************************************************)
(* Theorems about CaptureControl, for any active window, any limits of the *)
(* backlog and the stall timeout, and any number of faults.                *)
(***************************************************************************)
EXTENDS CaptureControl, TLAPS

USE ControlAssumption DEF ControlAssumption

LEMMA InitType == Init => TypeOK
BY DEF Init, TypeOK

\* The end of the agent leaves a well-typed state.
LEMMA ExitType ==
    ASSUME TypeOK, NEW lost \in {0, 1}, Exit(lost), faults' \in 0..MaxFaults
    PROVE  TypeOK'
BY DEF TypeOK, Exit, StopCapture, spool, outside

LEMMA NextType == TypeOK /\ [Next]_vars => TypeOK'
<1> SUFFICES ASSUME TypeOK, [Next]_vars PROVE TypeOK'
  OBVIOUS
<1> USE DEF TypeOK, spool, watch, outside
<1>1. CASE OpenFile
  BY <1>1 DEF OpenFile
<1>2. CASE Break
  BY <1>2 DEF Break, Fault, Running
<1>3. CASE Tick
  BY <1>3 DEF Tick
<1>4. CASE NetChanges
  BY <1>4 DEF NetChanges
<1>5. CASE Launch
  BY <1>5 DEF Launch
<1>6. CASE Turn
  BY <1>6 DEF Turn
<1>7. CASE SyncStop
  BY <1>7 DEF SyncStop, StopCapture, GoOn
<1>8. CASE SyncKeep
  BY <1>8 DEF SyncKeep, GoOn
<1>9. CASE SyncReplace
  BY <1>9 DEF SyncReplace, StopCapture
<1>10. CASE Spawn
  BY <1>10 DEF Spawn
<1>11. CASE Hold
  BY <1>11 DEF Hold, GoOn
<1>12. CASE Upload
  <2>1. PICK left \in 0..root, kept \in 0..(retry + root) : Pass(left, kept)
    BY <1>12 DEF Upload
  <2> QED
    BY <2>1 DEF Pass, Files, AfterUpload, StopCapture
<1>13. CASE Heartbeat
  BY <1>13 DEF Heartbeat
<1>14. CASE Finish
  BY <1>14, ExitType DEF Finish
<1>15. CASE Error
  BY <1>15 DEF Error, Fault
<1>16. CASE Signal
  BY <1>16, ExitType DEF Signal, Fault, Held
<1>17. CASE Crash
  BY <1>17, ExitType DEF Crash, Fault, Held
<1>18. CASE UNCHANGED vars
  BY <1>18 DEF vars
<1> QED
  BY <1>1, <1>2, <1>3, <1>4, <1>5, <1>6, <1>7, <1>8, <1>9, <1>10, <1>11, <1>12, <1>13,
     <1>14, <1>15, <1>16, <1>17, <1>18
  DEF Next, Environment, Step

\* Every variable of the agent's loop keeps its type (run).
THEOREM TypeCorrect == Spec => []TypeOK
BY InitType, NextType, PTL DEF Spec

--------------------------------------------------------------------------------
\* What the loop may rely on where it is.

\* A recorder that is about to be started has no predecessor, and the turn is inside the
\* active window; past the first look a recorder runs only in the window.
LoopInv ==
    /\ pc \in {"spawn", "spawned"} => child \notin Running /\ Within(sampled)
    /\ pc \in {"upload", "beat"} /\ child \in Running => Within(sampled)
    /\ pc = "down" => child = "none"

LEMMA NextLoopInv == TypeOK /\ LoopInv /\ [Next]_vars => LoopInv'
<1> SUFFICES ASSUME TypeOK, LoopInv, [Next]_vars PROVE LoopInv'
  OBVIOUS
<1> USE DEF TypeOK, LoopInv, Running, Within, spool, watch, outside
<1>1. CASE OpenFile \/ Tick \/ NetChanges
  BY <1>1 DEF OpenFile, Tick, NetChanges
<1>2. CASE Break
  BY <1>2 DEF Break
<1>3. CASE Launch \/ Turn
  BY <1>3 DEF Launch, Turn
<1>4. CASE SyncStop
  BY <1>4 DEF SyncStop, StopCapture, GoOn
<1>5. CASE SyncKeep
  BY <1>5 DEF SyncKeep, GoOn
<1>6. CASE SyncReplace
  BY <1>6 DEF SyncReplace, StopCapture
<1>7. CASE Spawn \/ Hold
  BY <1>7 DEF Spawn, Hold, GoOn
<1>8. ASSUME NEW left, NEW kept, Pass(left, kept) PROVE LoopInv'
  BY <1>8 DEF Pass, AfterUpload, StopCapture
<1>9. CASE Heartbeat \/ Error
  BY <1>9 DEF Heartbeat, Error
<1>10. CASE Finish
  BY <1>10 DEF Finish, Exit, StopCapture
<1>11. CASE Signal
  BY <1>11 DEF Signal, Exit, StopCapture
<1>12. CASE Crash
  BY <1>12 DEF Crash, Exit, StopCapture
<1>13. CASE UNCHANGED vars
  BY <1>13 DEF vars
<1> QED
  BY <1>1, <1>2, <1>3, <1>4, <1>5, <1>6, <1>7, <1>8, <1>9, <1>10, <1>11, <1>12, <1>13
  DEF Next, Environment, Step, Upload

LEMMA LoopInductive == Spec => [](TypeOK /\ LoopInv)
<1>1. Init => LoopInv
  BY DEF Init, LoopInv
<1> QED
  BY <1>1, NextLoopInv, TypeCorrect, PTL DEF Spec

\* The two cases of the remainder that hours need.
LEMMA HourRemainder ==
    ASSUME NEW d \in Nat \ {0}, NEW h \in 0..(d - 1)
    PROVE  h % d = h /\ (d + h) % d = h
OBVIOUS

\* Every hour that the three cases of the code accept is met on the way from the start
\* to the end.
LEMMA WithinIsActive ==
    ASSUME NEW hour \in 0..(Day - 1), Within(hour)
    PROVE  hour \in ActiveHours
<1> DEFINE length == (Day + ActiveEnd - ActiveStart - 1) % Day
<1> SUFFICES \E n \in 0..length : hour = (ActiveStart + n) % Day
  BY DEF ActiveHours
<1>1. CASE ActiveStart = ActiveEnd
  <2>1. length = Day - 1
    <3>1. Day + ActiveEnd - ActiveStart - 1 = Day - 1 /\ Day - 1 \in 0..(Day - 1)
      BY <1>1
    <3> QED
      BY <3>1, HourRemainder
  <2>2. CASE hour >= ActiveStart
    <3>1. hour - ActiveStart \in 0..length /\ ActiveStart + (hour - ActiveStart) = hour
      BY <2>1, <2>2
    <3> QED
      BY <3>1, HourRemainder
  <2>3. CASE hour < ActiveStart
    <3>1. /\ Day + hour - ActiveStart \in 0..length
          /\ ActiveStart + (Day + hour - ActiveStart) = Day + hour
      BY <2>1, <2>3
    <3> QED
      BY <3>1, HourRemainder
  <2> QED
    BY <2>2, <2>3
<1>2. CASE ActiveStart < ActiveEnd
  <2>1. length = ActiveEnd - ActiveStart - 1
    <3>1. /\ ActiveEnd - ActiveStart - 1 \in 0..(Day - 1)
          /\ Day + ActiveEnd - ActiveStart - 1 = Day + (ActiveEnd - ActiveStart - 1)
      BY <1>2
    <3> QED
      BY <3>1, HourRemainder
  <2>2. hour - ActiveStart \in 0..length /\ ActiveStart + (hour - ActiveStart) = hour
    BY <1>2, <2>1 DEF Within
  <2> QED
    BY <2>2, HourRemainder
<1>3. CASE ActiveStart > ActiveEnd
  <2>1. length = Day + ActiveEnd - ActiveStart - 1
    <3>1. Day + ActiveEnd - ActiveStart - 1 \in 0..(Day - 1)
      BY <1>3
    <3> QED
      BY <3>1, HourRemainder
  <2>2. CASE hour >= ActiveStart
    <3>1. hour - ActiveStart \in 0..length /\ ActiveStart + (hour - ActiveStart) = hour
      BY <1>3, <2>1, <2>2
    <3> QED
      BY <3>1, HourRemainder
  <2>3. CASE hour < ActiveStart
    <3>1. /\ Day + hour - ActiveStart \in 0..length
          /\ ActiveStart + (Day + hour - ActiveStart) = Day + hour
      BY <1>3, <2>1, <2>3 DEF Within
    <3> QED
      BY <3>1, HourRemainder
  <2> QED
    BY <2>2, <2>3
<1> QED
  BY <1>1, <1>2, <1>3

\* Past the first look of a turn a recorder runs only in a turn that began in the active
\* window, for every window (run, is_within_active_window).
THEOREM WindowCorrect == Spec => []RecordsInWindow
<1>1. TypeOK /\ LoopInv => RecordsInWindow
  BY WithinIsActive DEF TypeOK, LoopInv, RecordsInWindow
<1> QED
  BY <1>1, LoopInductive, PTL

--------------------------------------------------------------------------------
\* A recorder is lost to a fault.

LEMMA NextLost == TypeOK /\ LostToFaults /\ [Next]_vars => LostToFaults'
<1> SUFFICES ASSUME TypeOK, LostToFaults, [Next]_vars PROVE LostToFaults'
  OBVIOUS
<1> USE DEF TypeOK, LostToFaults, spool, watch, outside
<1>1. CASE Signal \/ Crash
  BY <1>1 DEF Signal, Crash, Exit, Fault, Held
<1>2. CASE Break \/ Error
  BY <1>2 DEF Break, Error, Fault
<1>3. CASE Finish
  BY <1>3 DEF Finish, Exit
<1>4. CASE UNCHANGED <<stray, faults>>
  BY <1>4
<1> QED
  BY <1>1, <1>2, <1>3, <1>4
  DEF Next, Environment, Step, OpenFile, Tick, NetChanges, Launch, Turn, SyncStop, SyncKeep,
      SyncReplace, Spawn, Hold, Upload, Pass, Heartbeat, vars

\* Whatever happens, each fault loses one recorder at most, and nothing else loses one
\* (run, _stop_capture).
THEOREM LostCorrect == Spec => []LostToFaults
<1>1. Init => LostToFaults
  BY DEF Init, LostToFaults
<1> QED
  BY <1>1, NextLost, TypeCorrect, PTL DEF Spec

--------------------------------------------------------------------------------
\* The bound of the spool.

\* While a recorder writes, or is about to, the spool was below its limit at the last
\* look, and has grown by no more than what was opened since.
BacklogInv ==
    stray = 0 =>
        /\ Backlog <= MaxBacklog - 1 + MaxPerPass
        /\ child = "live" \/ pc \in {"spawn", "spawned"} => Backlog <= MaxBacklog - 1 + opened

LEMMA NextBacklogInv == TypeOK /\ BacklogInv /\ [Next]_vars => BacklogInv'
<1> SUFFICES ASSUME TypeOK, BacklogInv, [Next]_vars PROVE BacklogInv'
  OBVIOUS
<1> USE DEF TypeOK, BacklogInv, Backlog, Running, spool, watch, outside
<1>1. CASE OpenFile
  BY <1>1 DEF OpenFile
<1>2. CASE Break
  BY <1>2 DEF Break
<1>3. CASE Tick \/ NetChanges \/ Launch \/ Turn \/ Heartbeat
  BY <1>3 DEF Tick, NetChanges, Launch, Turn, Heartbeat
<1>4. CASE SyncStop
  BY <1>4 DEF SyncStop, StopCapture, GoOn
<1>5. CASE SyncKeep
  BY <1>5 DEF SyncKeep, GoOn, IsBacklogAtCapacity
<1>6. CASE SyncReplace
  BY <1>6 DEF SyncReplace, StopCapture, IsBacklogAtCapacity
<1>7. CASE Spawn \/ Hold
  BY <1>7 DEF Spawn, Hold, GoOn
<1>8. CASE Upload
  <2>1. PICK left \in 0..root, kept \in 0..(retry + root) : Pass(left, kept)
    BY <1>8 DEF Upload
  <2>2. Backlog' <= Backlog
    BY <2>1 DEF Pass, Files
  <2> QED
    BY <2>1, <2>2, NextType DEF Pass, AfterUpload, StopCapture
<1>9. CASE Finish
  BY <1>9 DEF Finish, Exit, StopCapture
<1>10. CASE Error
  BY <1>10 DEF Error
<1>11. CASE Signal
  BY <1>11 DEF Signal, Exit, StopCapture, Held
<1>12. CASE Crash
  BY <1>12 DEF Crash, Exit, StopCapture, Held
<1>13. CASE UNCHANGED vars
  BY <1>13 DEF vars
<1> QED
  BY <1>1, <1>2, <1>3, <1>4, <1>5, <1>6, <1>7, <1>8, <1>9, <1>10, <1>11, <1>12, <1>13
  DEF Next, Environment, Step

\* While no recorder is stray the spool exceeds its limit by no more than what is opened
\* between two looks, through any number of outages, restarts and files that are never
\* uploaded (_sync_capture_state, is_backlog_at_capacity).
THEOREM SpoolCorrect == Spec => []SpoolBounded
<1>1. Init => BacklogInv
  BY DEF Init, BacklogInv, Backlog
<1>2. BacklogInv => SpoolBounded
  BY DEF BacklogInv, SpoolBounded
<1> QED
  BY <1>1, <1>2, NextBacklogInv, TypeCorrect, PTL DEF Spec

--------------------------------------------------------------------------------
\* The agent's loop implements AgentProcess.

\* What a step of the loop does to that state.
AgentMoves ==
    \/ UNCHANGED <<AgentState, child, stray>>
    \/ AgentState = "down" /\ AgentState' = "up" /\ UNCHANGED <<child, stray>>
    \/ AgentState = "up" /\ child \in {"none", "exited"} /\ child' = "live"
       /\ UNCHANGED <<AgentState, stray>>
    \/ AgentState = "up" /\ child' = "none" /\ UNCHANGED <<AgentState, stray>>
    \/ child \in Running /\ child' \in {"hung", "exited"} /\ UNCHANGED <<AgentState, stray>>
    \/ /\ AgentState = "up" /\ AgentState' = "leaving" /\ UNCHANGED child
       /\ \/ UNCHANGED stray
          \/ child \notin Running /\ stray' = stray + 1
    \/ AgentState = "leaving" /\ AgentState' = "down" /\ child' = "none" /\ UNCHANGED stray
    \/ /\ AgentState # "down" /\ AgentState' = "down" /\ child' = "none"
       /\ \/ child \notin Running /\ UNCHANGED stray
          \/ child \in Running /\ stray' = stray + 1
          \/ AgentState = "up" /\ child \notin Running /\ stray' = stray + 1

\* Each statement of the loop is one move of the agent or none.
LEMMA StepMoves == TypeOK /\ LoopInv /\ [Next]_vars => AgentMoves
<1> SUFFICES ASSUME TypeOK, LoopInv, [Next]_vars PROVE AgentMoves
  OBVIOUS
<1> USE DEF TypeOK, LoopInv, AgentMoves, AgentState, Running, spool, watch, outside
<1>1. CASE OpenFile \/ Tick \/ NetChanges
  BY <1>1 DEF OpenFile, Tick, NetChanges
<1>2. CASE Break
  BY <1>2 DEF Break
<1>3. CASE Launch \/ Turn
  BY <1>3 DEF Launch, Turn
<1>4. CASE SyncStop
  BY <1>4 DEF SyncStop, StopCapture, GoOn
<1>5. CASE SyncKeep
  BY <1>5 DEF SyncKeep, GoOn
<1>6. CASE SyncReplace
  BY <1>6 DEF SyncReplace, StopCapture
<1>7. CASE Spawn \/ Hold
  BY <1>7 DEF Spawn, Hold, GoOn
<1>8. ASSUME NEW left, NEW kept, Pass(left, kept) PROVE AgentMoves
  BY <1>8 DEF Pass, AfterUpload, StopCapture
<1>9. CASE Heartbeat \/ Error
  BY <1>9 DEF Heartbeat, Error
<1>10. CASE Finish
  BY <1>10 DEF Finish, Exit, StopCapture
<1>11. CASE Signal
  BY <1>11 DEF Signal, Exit, StopCapture, Held
<1>12. CASE Crash
  BY <1>12 DEF Crash, Exit, StopCapture, Held
<1>13. CASE UNCHANGED vars
  BY <1>13 DEF vars
<1> QED
  BY <1>1, <1>2, <1>3, <1>4, <1>5, <1>6, <1>7, <1>8, <1>9, <1>10, <1>11, <1>12, <1>13
  DEF Next, Environment, Step, Upload

\* A move is a step of AgentProcess, or one it does not see.
LEMMA MovesAllowed ==
    ASSUME TypeOK, TypeOK', AgentMoves
    PROVE  [Outside!Next]_(Outside!agentVars)
<1> DEFINE a == [r \in {"agent"} |-> AgentState]
<1> DEFINE h == [r \in {"agent"} |-> child]
<1> DEFINE s == IF stray > 0 THEN {"agent"} ELSE {}
<1>1. a["agent"] = AgentState /\ h["agent"] = child
  OBVIOUS
<1>2. \A x : [a EXCEPT !["agent"] = x] = [r \in {"agent"} |-> x]
  OBVIOUS
<1>3. \A x : [h EXCEPT !["agent"] = x] = [r \in {"agent"} |-> x]
  OBVIOUS
<1>4. /\ stray' = stray => s' = s
      /\ stray' = stray + 1 => s' = s \cup {"agent"}
  BY DEF TypeOK
<1>5. CASE UNCHANGED <<AgentState, child, stray>>
  BY <1>5 DEF Outside!agentVars
<1>6. CASE AgentState = "down" /\ AgentState' = "up" /\ UNCHANGED <<child, stray>>
  BY <1>2, <1>4, <1>6 DEF Outside!Next, Outside!Launch
<1>7. CASE /\ AgentState = "up" /\ child \in {"none", "exited"} /\ child' = "live"
           /\ UNCHANGED <<AgentState, stray>>
  BY <1>3, <1>4, <1>7 DEF Outside!Next, Outside!AgentStep, Outside!Record
<1>8. CASE AgentState = "up" /\ child' = "none" /\ UNCHANGED <<AgentState, stray>>
  BY <1>3, <1>4, <1>8 DEF Outside!Next, Outside!AgentStep, Outside!Halt
<1>9. CASE child \in Running /\ child' \in {"hung", "exited"} /\ UNCHANGED <<AgentState, stray>>
  BY <1>3, <1>4, <1>9 DEF Outside!Next, Outside!Break, Outside!Running, Running
<1>10. CASE /\ AgentState = "up" /\ AgentState' = "leaving" /\ UNCHANGED child
            /\ \/ UNCHANGED stray
               \/ child \notin Running /\ stray' = stray + 1
  BY <1>2, <1>4, <1>10
  DEF Outside!Next, Outside!AgentStep, Outside!Leave, Outside!Lose, Outside!Running, Running
<1>11. CASE AgentState = "leaving" /\ AgentState' = "down" /\ child' = "none" /\ UNCHANGED stray
  BY <1>2, <1>3, <1>4, <1>11 DEF Outside!Next, Outside!AgentStep, Outside!Finish
<1>12. CASE /\ AgentState # "down" /\ AgentState' = "down" /\ child' = "none"
            /\ \/ child \notin Running /\ UNCHANGED stray
               \/ child \in Running /\ stray' = stray + 1
               \/ AgentState = "up" /\ child \notin Running /\ stray' = stray + 1
  BY <1>2, <1>3, <1>4, <1>12
  DEF Outside!Next, Outside!Kill, Outside!Lose, Outside!Running, Running
<1> QED
  BY <1>5, <1>6, <1>7, <1>8, <1>9, <1>10, <1>11, <1>12 DEF AgentMoves

\* Seen from outside the agent is the process of AgentProcess: it holds one recorder at
\* most, and loses one only when it is killed or interrupted as it starts it.
THEOREM AgentCorrect == Spec => ImplementsAgent
<1>1. Init => Outside!Init
  BY DEF Init, Outside!Init, AgentState
<1>2. /\ TypeOK /\ LoopInv /\ TypeOK' /\ LoopInv' /\ [Next]_vars
      => [Outside!Next]_(Outside!agentVars)
  BY StepMoves, MovesAllowed
<1> QED
  BY <1>1, <1>2, LoopInductive, PTL DEF Spec, ImplementsAgent, Outside!Spec
================================================================================
