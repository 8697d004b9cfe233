----------------------------- MODULE CaptureControl ----------------------------
(***************************************************************************)
(* The loop of the capture agent (run): it starts ffmpeg, replaces it when *)
(* it ended or stalls, stops it outside the active window and when the     *)
(* spool is full, makes an upload pass and sends a heartbeat.  An upload   *)
(* pass is one step here; CaptureUpload.tla has its statements.  Signals,  *)
(* errors and crashes come between any two steps.  The unit of time is one *)
(* segment, which is also the heartbeat interval.                          *)
(***************************************************************************)
EXTENDS Naturals

CONSTANTS
    Day,           \* bound: the hours of the wall clock
    ActiveStart, ActiveEnd,
    StallTimeout,  \* CAPTURE_STALL_TIMEOUT_SECONDS
    MaxBacklog,    \* max_backlog_files
    MaxPerPass,    \* bound: files opened between two looks at the backlog
    MaxFaults      \* bound: broken recorders, errors, signals and crashes

ASSUME ControlAssumption ==
    /\ Day \in Nat \ {0}
    /\ ActiveStart \in 0..(Day - 1) /\ ActiveEnd \in 0..(Day - 1)
    /\ StallTimeout \in Nat \ {0}
    /\ MaxBacklog \in Nat \ {0}
    /\ MaxPerPass \in Nat \ {0}
    /\ MaxFaults \in Nat

VARIABLES
    pc,       \* the step of the loop the agent is at, "leave" in its finally clause
    again,    \* "first" or "second" look at the recorder in one turn of the loop
    sampled,  \* the hour at which the turn began
    child,    \* the agent's ffmpeg: "none", "live", "hung" or "exited"
    stray,    \* recorders that run without an agent
    root,     \* wav files with data in the spool root
    retry,    \* wav files in the retry directory
    empties,  \* wav files without data, which no pass lists
    opened,   \* files opened since the last look at the backlog
    view,     \* whether the newest file of the root is the "same" as last observed
    quiet,    \* time since the last progress observed
    beat,     \* whether a heartbeat is "due" or the last one "fresh"
    net,      \* whether S3 and the database can be reached: "up" or "down"
    faults    \* how many faults have happened (bounded by MaxFaults)

spool == <<root, retry, empties, opened>>
watch == <<view, quiet>>
outside == <<beat, net>>
vars == <<pc, again, sampled, child, stray, root, retry, empties, opened,
          view, quiet, beat, net, faults>>

Running == {"live", "hung"}

Backlog == root + retry + empties

Fault == faults < MaxFaults /\ faults' = faults + 1

Init ==
    /\ pc = "down"
    /\ again = "first"
    /\ sampled = 0
    /\ child = "none"
    /\ stray = 0
    /\ root = 0 /\ retry = 0 /\ empties = 0 /\ opened = 0
    /\ view = "same" /\ quiet = 0
    /\ beat = "due"
    /\ net = "up"
    /\ faults = 0

--------------------------------------------------------------------------------
\* ffmpeg, the clock and the network (external).

OpenFile ==
    /\ opened < MaxPerPass
    /\ child = "live" \/ (stray > 0 /\ Backlog < MaxBacklog + MaxPerPass)
    /\ root' = root + 1
    /\ opened' = opened + 1
    /\ view' = "changed"
    /\ UNCHANGED <<pc, again, sampled, child, stray, retry, empties, quiet, outside, faults>>

\* ffmpeg hangs or ends; a file it has opened may have no data yet and never will.
Break ==
    /\ child \in Running
    /\ Fault
    /\ child' \in {"hung", "exited"}
    /\ \/ UNCHANGED <<root, empties>>
       \/ child = "live" /\ root > 0 /\ root' = root - 1 /\ empties' = empties + 1
    /\ UNCHANGED <<pc, again, sampled, stray, retry, opened, watch, outside>>

\* A recorder that is alive has written meanwhile.
Tick ==
    /\ quiet' = IF quiet < StallTimeout THEN quiet + 1 ELSE quiet
    /\ view' = IF child = "live" \/ stray > 0 THEN "changed" ELSE view
    /\ beat' = "due"
    /\ UNCHANGED <<pc, again, sampled, child, stray, spool, net, faults>>

NetChanges ==
    /\ net' = IF net = "up" THEN "down" ELSE "up"
    /\ UNCHANGED <<pc, again, sampled, child, stray, spool, watch, beat, faults>>

--------------------------------------------------------------------------------
\* Variants of Within: the window does not wrap around midnight; it includes its end.
WithinSameDay(hour) == ActiveStart <= hour /\ hour < ActiveEnd

WithinInclusive(hour) == hour >= ActiveStart \/ hour <= ActiveEnd

\* is_within_active_window
Within(hour) ==
    \/ ActiveStart = ActiveEnd
    \/ ActiveStart < ActiveEnd /\ ActiveStart <= hour /\ hour < ActiveEnd
    \/ ActiveStart > ActiveEnd /\ (hour >= ActiveStart \/ hour < ActiveEnd)

\* launchd starts the agent, or the supervisor does.
Launch ==
    /\ pc = "down"
    /\ pc' = "rest"
    /\ beat' = "due"
    /\ UNCHANGED <<again, sampled, child, stray, spool, watch, net, faults>>

\* A turn of the loop begins; its hour decides for all of it.
Turn ==
    /\ pc = "rest"
    /\ pc' = "sync"
    /\ again' = "first"
    /\ sampled' \in 0..(Day - 1)
    /\ UNCHANGED <<child, stray, spool, watch, outside, faults>>

\* A variant of StopCapture: the handle is kept for the next look.
StopCaptureLater == UNCHANGED <<child, view, quiet>>

\* ffmpeg is asked to end, and killed when it has not after ten seconds.
StopCapture ==
    /\ child' = "none"
    /\ view' = "same"
    /\ quiet' = 0

GoOn == pc' = IF again = "first" THEN "upload" ELSE "beat"

IsBacklogAtCapacity == Backlog >= MaxBacklog

\* A variant of Stalled: each look at the spool counts as progress.
StalledSinceLook == FALSE

\* What was observed last is compared first: any change restarts the timeout, also
\* a file that the uploader removed.
Stalled == view = "same" /\ quiet >= StallTimeout

\* _sync_capture_state: the recorder is stopped ...
SyncStop ==
    /\ pc = "sync"
    /\ ~Within(sampled) \/ IsBacklogAtCapacity
    /\ StopCapture
    /\ GoOn
    /\ opened' = 0
    /\ UNCHANGED <<again, sampled, stray, root, retry, empties, outside, faults>>

\* ... found well ...
SyncKeep ==
    /\ pc = "sync"
    /\ Within(sampled) /\ ~IsBacklogAtCapacity
    /\ child \in Running /\ ~Stalled
    /\ view' = "same"
    /\ quiet' = IF view = "changed" THEN 0 ELSE quiet
    /\ GoOn
    /\ opened' = 0
    /\ UNCHANGED <<again, sampled, child, stray, root, retry, empties, outside, faults>>

\* A variant of SyncReplace: the recorder that stalls is forgotten.
SyncForget ==
    /\ pc = "sync"
    /\ Within(sampled) /\ ~IsBacklogAtCapacity
    /\ child \notin Running \/ Stalled
    /\ child' = "none"
    /\ stray' = IF child \in Running THEN stray + 1 ELSE stray
    /\ pc' = "spawn"
    /\ opened' = 0
    /\ UNCHANGED <<again, sampled, root, retry, empties, watch, outside, faults>>

\* ... or replaced.
SyncReplace ==
    /\ pc = "sync"
    /\ Within(sampled) /\ ~IsBacklogAtCapacity
    /\ child \notin Running \/ Stalled
    /\ IF child \in Running THEN StopCapture ELSE UNCHANGED <<child, view, quiet>>
    /\ pc' = "spawn"
    /\ opened' = 0
    /\ UNCHANGED <<again, sampled, stray, root, retry, empties, outside, faults>>

\* The process exists before the agent holds it.
Spawn ==
    /\ pc = "spawn"
    /\ pc' = "spawned"
    /\ UNCHANGED <<again, sampled, child, stray, spool, watch, outside, faults>>

Hold ==
    /\ pc = "spawned"
    /\ child' = "live"
    /\ view' = "same" /\ quiet' = 0
    /\ GoOn
    /\ UNCHANGED <<again, sampled, stray, spool, outside, faults>>

\* A variant of Files: entries that fail are moved whatever the limit is.
FilesUnlimited(left, kept) == kept <= retry + left

\* Of the root files, left are uploaded, silent, or moved to the retry directory, which
\* then holds kept.  Without a network nothing leaves that directory.
Files(left, kept) ==
    /\ kept <= retry + left
    /\ kept <= MaxBacklog
    /\ net = "down" => kept >= retry

AfterUpload == IF Within(sampled) THEN "sync" ELSE "beat"

\* upload_ready: a retry directory that fills up in the pass stops the recorder.
Pass(left, kept) ==
    /\ pc = "upload"
    /\ Files(left, kept)
    /\ root' = root - left
    /\ retry' = kept
    /\ \/ /\ view' \in IF left > 0 THEN {view, "changed"} ELSE {view}
          /\ UNCHANGED <<child, quiet>>
       \/ /\ retry < MaxBacklog /\ kept = MaxBacklog /\ left < root
          /\ StopCapture
    /\ beat' \in IF net = "up" /\ kept < retry + left THEN {beat, "due"} ELSE {beat}
    /\ pc' = AfterUpload
    /\ again' = "second"
    /\ UNCHANGED <<sampled, stray, empties, opened, net, faults>>

Upload == \E left \in 0..root, kept \in 0..(retry + root) : Pass(left, kept)

\* One that is due and fails raises out of the loop.
Heartbeat ==
    /\ pc = "beat"
    /\ \/ beat = "fresh" /\ pc' = "rest" /\ UNCHANGED beat
       \/ beat = "due" /\ net = "up" /\ pc' = "rest" /\ beat' = "fresh"
       \/ beat = "due" /\ net = "down" /\ pc' = "leave" /\ UNCHANGED beat
    /\ UNCHANGED <<again, sampled, child, stray, spool, watch, net, faults>>

--------------------------------------------------------------------------------
\* The end of the agent.

Exit(lost) ==
    /\ pc' = "down"
    /\ again' = "first"
    /\ sampled' = 0
    /\ StopCapture
    /\ stray' = stray + lost
    /\ UNCHANGED <<spool, outside>>

\* A variant of Finish: the recorder is left to itself.
FinishOnly ==
    /\ pc = "leave"
    /\ Exit(IF child \in Running THEN 1 ELSE 0)
    /\ UNCHANGED faults

\* The finally clause.
Finish ==
    /\ pc = "leave"
    /\ Exit(0)
    /\ UNCHANGED faults

\* A device that is gone, a spool that cannot be read, a torn metadata file.
Error ==
    /\ pc \in {"sync", "spawn", "upload"}
    /\ Fault
    /\ pc' = "leave"
    /\ UNCHANGED <<again, sampled, child, stray, spool, watch, outside>>

Held == IF child \in Running THEN 1 ELSE 0

\* A signal ends the loop, leaving behind a process not held yet; in the upload it may
\* be taken for an upload error; in the finally clause it ends the agent at once.
Signal ==
    /\ pc # "down"
    /\ Fault
    /\ \/ /\ pc # "leave"
          /\ pc' = "leave"
          /\ stray' = IF pc = "spawned" THEN stray + 1 ELSE stray
          /\ UNCHANGED <<again, sampled, child, watch, spool, outside>>
       \/ /\ pc = "upload"
          /\ UNCHANGED <<pc, again, sampled, child, stray, watch, spool, outside>>
       \/ /\ pc = "leave"
          /\ Exit(Held)

Crash ==
    /\ pc # "down"
    /\ Fault
    /\ Exit(IF pc = "spawned" THEN 1 ELSE Held)

--------------------------------------------------------------------------------
Step ==
    \/ Turn \/ SyncStop \/ SyncKeep \/ SyncReplace \/ Spawn \/ Hold
    \/ Upload \/ Heartbeat \/ Finish

Environment == OpenFile \/ Break \/ Tick \/ NetChanges

Next == Environment \/ Launch \/ Step \/ Error \/ Signal \/ Crash

Spec == Init /\ [][Next]_vars

\* The network is back: a pass empties the spool of what no recorder writes.
Drain ==
    /\ net = "up"
    /\ Pass(root, 0)

FairSpec ==
    /\ Spec
    /\ WF_vars(Tick) /\ WF_vars(Launch)
    /\ WF_vars(Step)
    /\ SF_vars(Drain)

--------------------------------------------------------------------------------
TypeOK ==
    /\ pc \in {"down", "rest", "sync", "spawn", "spawned", "upload", "beat", "leave"}
    /\ again \in {"first", "second"}
    /\ sampled \in 0..(Day - 1)
    /\ child \in {"none", "live", "hung", "exited"}
    /\ root \in Nat /\ empties \in Nat
    /\ retry \in 0..MaxBacklog
    /\ opened \in 0..MaxPerPass
    /\ view \in {"same", "changed"}
    /\ quiet \in 0..StallTimeout
    /\ beat \in {"due", "fresh"}
    /\ net \in {"up", "down"}
    /\ stray \in Nat
    /\ faults \in 0..MaxFaults

\* The local backlog is bounded by the limit and what is recorded between two looks
\* at it, through outages, restarts and files that are never uploaded
\* (_sync_capture_state, is_backlog_at_capacity); a stray recorder knows no limit.
SpoolBounded == stray = 0 => Backlog <= MaxBacklog - 1 + MaxPerPass

\* A recorder is lost only to a crash or to a signal, one at most to each: an outage, a
\* failed heartbeat, a stall or the end of the window takes it along (run).
LostToFaults == stray <= faults

\* The hours from the start on, around midnight if need be, up to the end.
ActiveHours ==
    {(ActiveStart + n) % Day : n \in 0..((Day + ActiveEnd - ActiveStart - 1) % Day)}

\* Past the first look of a turn a recorder runs only if the turn began in the active
\* window, whatever state the turn found it in (run, is_within_active_window).
RecordsInWindow ==
    pc \in {"upload", "beat"} /\ child \in Running => sampled \in ActiveHours

\* A recorder that hangs is replaced or stopped, although the uploader's removals
\* look like progress; but not while a stray one writes to the same spool
\* (_capture_has_stalled, _capture_progress_observation).
HungIsReplaced == child = "hung" ~> child # "hung" \/ stray > 0

\* The agent keeps recording, or comes back to it, after ended recorders, errors,
\* signals, crashes and a full spool, unless an outage makes the heartbeat end it
\* again and again, files without data fill the spool for good, or a stray recorder
\* writes to it.
RecordsAgain ==
    []<>(\/ child = "live" \/ sampled \notin ActiveHours
         \/ net = "down" \/ empties >= MaxBacklog \/ stray > 0)

AgentState == IF pc = "down" THEN "down" ELSE IF pc = "leave" THEN "leaving" ELSE "up"

Outside ==
    INSTANCE AgentProcess WITH
        Role <- {"agent"},
        agent <- [r \in {"agent"} |-> AgentState],
        recorder <- [r \in {"agent"} |-> child],
        stray <- IF stray > 0 THEN {"agent"} ELSE {}

\* Seen from outside the agent is the process of AgentProcess: it holds one recorder
\* at most, and loses one only when it is killed or interrupted as it starts it.
ImplementsAgent == Outside!Spec
================================================================================
