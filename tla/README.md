# A specification of ambient-memory-log

ambient-memory-log records rooms and desks around the clock, uploads the
recording in 30-second chunks, transcribes the chunks with several vendors,
merges what several microphones heard into canonical utterances and answers
searches over them. This directory holds TLA+ modules that model its core, the
TLC configurations that check them and proofs of their main properties.
Line numbers refer to the sources under `src/src/ambient_memory/` unless a
longer path is given.

## 1. The system

```
  ffmpeg ----> spool/ ----> capture agent ----> S3  (audio objects)
  (own session)  *.wav        upload pass  ---> Postgres: aa_audio_chunks
                 retry/                          "uploaded"
                                                     |
                   pipeline worker (poll loop) <-----+
                     ordinary sources: windows of <= 60 s -> Deepgram, pyannote
                     room-1: batches of about 600 s       -> AssemblyAI
                     one transaction per window or batch:
                       candidates, canonical utterances, "processed" / "failed"
                                                     |
                   room enrichment (every 10 min) ---+---> search API (read only)
```

The processes share nothing but the local spool directory (ffmpeg and the
agent), the bucket and the database. No process holds a lock or claims a row
over more than one transaction. launchd restarts the agent, the worker, the API
and the dual-capture supervisor after every exit (`KeepAlive` in
`deploy/launchd/*.plist`), and starts room enrichment every ten minutes, one such
run at a time (`lockf`); a run by hand is not held off.

### Inventory

**Spool and uploader** (`capture/spool.py`, `capture/uploader.py`,
`integrations/s3_store.py`, `register_uploaded_chunk` in `db.py`).
State: wav files in the spool root and in `retry/`, a JSON metadata file per
failed entry, the two-poll observations in memory, the S3 objects, the rows of
`aa_audio_chunks`. Operations: list the entries that are settled, look at them
twice, measure their peak volume, put, register, commit, unlink; after any
error move to `retry/` and note the error. Hard: every statement may be the last
one before a crash; a commit may take effect and still raise; the registration
reads the status and writes it later; the retry directory has a limit; ffmpeg
is still writing one of the files. Correct when no audio is lost that is not
quiet, every row has its object, a processed chunk stays processed, the retry
directory stays bounded, and the spool drains.

**Capture control** (`capture/agent.py`, `capture/ffmpeg.py`,
`capture/device_discovery.py`). State: the ffmpeg process, the last progress
observation, the pause flag, the time of the last heartbeat. Operations: start,
restart after exit or stall, pause at the backlog limit, stop outside the active
window and at shutdown, heartbeat. Hard: stall detection reads the directory
that the uploader empties; signals are exceptions; a failed heartbeat ends the
agent. Correct when the agent holds one ffmpeg at most, replaces a dead
or stalled one, records in its window only, bounds the spool, and loses an ffmpeg
to nothing but a crash or a signal.

**Dual-capture supervisor** (`cli.py:233-339`). State: two child processes, a
requested signal. Operations: start both, stop the other when one ends, pass
signals on, kill after 5 s. Hard: the children's ffmpeg processes are in
sessions of their own and may take the agent 10 s to stop. Correct when neither
child survives the other and neither survives the supervisor.

**Processing windows** (`pipeline/windows.py`). A pure function: pending chunks
of all sources but the room, sorted, cut greedily into windows of at most 60 s.
Correct when it partitions the chunks and keeps overlapping chunks together,
since duplicates are merged within a window only.

**Room windows** (`pipeline/room_windows.py`). A pure function of the pending
room chunks and the clock: contiguous spans, full windows cut from their heads,
the rest flushed when idle. Hard: chunks arrive late and out of order, and the
passes happen whenever they happen. Correct when each chunk is in one batch,
batches have no gaps and bounded length, and nothing waits for ever.

**Pipeline worker** (`pipeline/worker.py`). State: the rows' status, transcript
candidates and canonical rows. Operations: load, cut, then one transaction per
unit, or a mark as failed after the rollback. Hard: minutes of vendor calls lie
between load and commit; two workers may run; an error may come after the
commit took effect. Correct when one worker publishes each chunk once and
wholly, and every chunk is settled.

**Deduplication** (`pipeline/dedup.py`). Candidates sorted by time join the
first group that accepts them; a group becomes one canonical utterance. Hard: the
relation is neither symmetric in its effect nor transitive. Correct when the
groups partition the candidates, and no group mixes two recognised speakers, a
denial with its opposite, or one microphone's own repetitions.

**Normalisation and speaker matching** (`pipeline/normalize.py`,
`pipeline/speaker_matching.py`). Pure functions from vendor payloads to segments
and from matches to a name.

**Room speech** (`pipeline/room_speech.py`). Seconds of speech in a batch; below
the threshold the batch is skipped.

**Room enrichment** (`pipeline/room_enrichment.py`). One transaction over all
fifteen-minute windows of the last hours: identifies tracks, re-transcribes, writes
an enrichment row per utterance and overwrites the canonical speaker. Hard: one
bad window rolls back all; two runs overlap, of one resolver version or of two;
a run reads rows that the worker or another run changes minutes later. Correct
when each utterance has one enrichment per resolver version, every published
speaker has a row that accounts for it, and names and words are those of the
voice that spoke.

**Track audio and track identity** (`pipeline/room_track_audio.py`,
`pipeline/room_track_identity.py`). Pools the audio of each diarization label and
decides between a teammate, a stranger of the window or unknown.

**Transcript alignment** (`pipeline/room_transcript_alignment.py`). Mutual best
overlap between canonical rows and re-transcribed segments.

**Vendor clients** (`integrations/`). AssemblyAI and pyannote poll a job a bounded
number of times; pyannote retries requests, also ones that create something.
Deepgram and OpenAI are one request each.

**Enrollment** (`enrollment/live.py`, `upsert_voiceprint` in `db.py`). Records a
sample, enrolls it, replaces the label's row and deletes duplicates. Hard: two
enrollments of one new label.

**Recording import** (`importing/recordings.py`, `cli.py:351-399`). Splits a file
into chunks in a fresh directory and makes one upload pass. Hard: what fails in
that pass is never retried.

**Search API** (`api/`). Read-only queries.

**Schema, configuration, logging, command line** (`models.py`, `config.py`,
`logging.py`, `cli.py`).

## 2. Modules

| module | models |
| --- | --- |
| `ChunkLedger` | abstract: the stages of a chunk and the moves between them |
| `CaptureUpload` | the upload path of one machine, statement by statement; implements `ChunkLedger` |
| `AgentProcess` | abstract: a capture agent and its recorder, seen from outside |
| `CaptureControl` | the agent's loop; implements `AgentProcess` |
| `DualCapture` | the supervisor of two agents; extends `AgentProcess` |
| `ProcessingWindows` | `group_processing_windows`, `_group_windows` (pure) |
| `Dedup` | `merge_transcript_candidates` (pure) |
| `Transcripts` | the candidates of a chunk, with their speakers (pure); extends `Dedup` |
| `PassOutput` | what a pass publishes; composes the three above |
| `RoomWindows` | `select_room_windows` (pure) |
| `RoomAssembly` | the room source over many passes; extends `RoomWindows` |
| `Worker` | passes of one or more workers; keeps `ChunkLedger` for every chunk |
| `RoomTranscript` | what a room batch becomes (pure) |
| `RoomTracks` | the audio tracks of a window and their identities (pure) |
| `TranscriptAlignment` | which new text an utterance gets (pure) |
| `RoomEnrichment` | runs of the enrichment job beside the worker; composes the three above |
| `...Proofs` | the theorems about `CaptureUpload`, `CaptureControl`, `DualCapture`, `Worker`, `PassOutput`, `RoomAssembly` and `RoomEnrichment` |
| `Counting` | lemmas about numbers, finite sets and their orders, shared by the proofs |
| `MC...` | instances for TLC |

Two abstract modules are where the parts meet. In `ChunkLedger` a chunk is
*unborn*, *spooled*, *discarded*, *uploaded*, *processed* or *failed*.
`CaptureUpload` implements the ledger under the mapping `Stages`: with a row the
stage is the row's status, without one it is where the file is. `Worker` keeps it
for every chunk separately (`KeepsLedger`), because one of its transactions
settles many chunks and the ledger moves one at a time. In `AgentProcess` an agent
is *down*, *up* or *leaving* and holds a recorder or has lost one (`stray`).
`CaptureControl` implements it for one agent (`ImplementsAgent`), and the
supervisor in `DualCapture` is checked against it instead of against two loops.

### CaptureUpload

| state | code |
| --- | --- |
| `loc`, `sidecar` | a wav in the root, in `retry/` or unlinked; its metadata file |
| `writing`, `size` | files ffmpeg has open; their length in blocks |
| `due` | `now >= started_at + segment_seconds` (`uploader.py:178-180`) |
| `object`, `row` | the S3 object and the status of the row |
| `pc`, `batch`, `cur`, `from`, `read` | where the agent's thread is, and its locals |
| `seen` | `_root_observations` |
| `shutdown` | a signal that reached the agent and did not end it |

`Poll` is the whole of `iter_ready`, including the observations it updates and
prunes and the metadata it parses. `Screen`, `PutObject`, `Lookup`, `Commit`,
`RemoveAudio`, `RemoveSidecar`, `MarkFailed`, `TruncateSidecar` and
`WriteSidecar` are the statements of an upload in the order of the code. `Raise`
is an error inside the `try` block; at the put and at the commit it may come
after the effect. `Signal` is SIGINT or SIGTERM: inside the `try` block it is
caught like any error, elsewhere it ends the agent. `Crash` may come before any
statement; it also stands for the errors that leave `run()`. `Lookup` and `Commit`
are apart because the status is read in one statement and written in another, and
the row is written only in the columns that changed, as SQLAlchemy does.

A file's content is its length: the two-poll test and the properties tell
nothing else apart. `settle_seconds` is a guess by the polling process whether an
open file was written lately, so `Poll` chooses which open files look settled.
`WriterMayStall` says whether an open file may stay unchanged for a whole poll
interval. A recorder that is alive writes more often than every poll, and then
(`WriterMayStall = FALSE`) the test never takes an open file for a closed one.

### CaptureControl and DualCapture

`CaptureControl` is one turn of `run()` after the other: `Turn` samples the hour,
a `Sync...` action is one call of `_sync_capture_state`, `Upload` is
`_upload_ready`, and inside the window a second `Sync...` follows before
`Heartbeat`. `Spawn` and `Hold` split the statement that starts ffmpeg, since a
signal may come between the process and its handle. The spool is three counts:
files with data in the root and in `retry/`, and files without data, which count
towards the backlog and are never listed. `view` is the comparison of the newest
file with the last observation, and `quiet` the time since it changed; any change
restarts the timeout, also one the uploader made. `Signal` is an exception
that may be swallowed in the upload, ends the loop elsewhere, and in the `finally`
clause, where the old handlers are back, ends the process.

`DualCapture` adds the supervisor: `StartChild` in order, `Notice` of a child that
ended or a signal that came, `Terminate` one by one, `KillGroup` for an agent that
is `Slow`, `Exit` when nobody is left. A `Terminate` may be lost in the agent's
upload, and may reach an agent in its `finally` clause and kill it.

### Windows, batches and the worker

`ProcessingWindows` and `RoomWindows` are functions of a set of chunk records. Both
put the chunks of the set in order by their rank: the place of a chunk is the number
of chunks of the set that come before it. That is what sorting by a key without ties
does, and what can be reasoned about for any set. The loops over the sorted chunks are
recursive functions on positions (`WindowsUpTo` and `GroupsUpTo` from the front,
`BatchesFrom` from the end of what is left).

`RoomAssembly` adds the clock, the arrival of chunks (in any order, up to
`MaxDelay` after their end) and passes at any moment; it notes whether any arrived
later than `Prompt`, or was overtaken (`Overtaken`): the chunks before and after it
were there already and follow each other without it.

`Worker` has the status of each row, the number of transactions that published a
chunk (`runs`), and for every worker the units of its pass that are left. `Load`
reads the pending rows and cuts them with the operators `Windows` and `Batches`,
which `MCWorker` defines by the two pure modules and the proofs leave open.
`Publish`, `Skip`, `Fail` with `GiveUp`, and `LoseAck` with `GiveUp` are the ways a
unit can end; `Crash` ends a worker anywhere. Nothing claims a chunk, so several
workers work on the same units. `Requeue` is an uploader that registers a chunk
again which failed meanwhile.

### What is published

`Transcripts` gives the candidates of a chunk: Deepgram's utterances, each with
the pyannote match that overlaps it most and a name if the match is good enough
for that microphone. `Dedup` has one operator per predicate of `dedup.py`; a text is
its sequence of tokens after normalisation, which may be empty for a text in
another script, and which tokens inform or deny are constants. A name is as it was
enrolled; `PlainName` gives what normalisation leaves of it, which is nothing
(`EmptyName`) for a name without letters a to z or digits. Scores are in hundredths;
percents are rounded, a half upwards, where the code rounds the floating-point
number. `PassOutput` puts windows, candidates and groups together as one pass does.

`RoomTranscript` represents audio by a sequence of sounds, one per unit of time;
a sound stands for the words of one voice. That is what the stitching, slicing
and aligning of the room path can get wrong, and nothing else of the audio is
used. What the vendors hear is external: the maximal runs of one sound, the set
of voices, and labels by first appearance within one request. `RoomTracks`
slices utterances out of their chunks, pools them by label and decides each
track's identity. The utterances of a window are a set; the order of the queries
is their rank in it (`Sorted`), and the one place for a guest goes to the first
label (`FirstTrack`).

### RoomEnrichment

| state | code |
| --- | --- |
| `speakers` | `speaker_name` of the canonical rows |
| `enriched` | the committed rows of `aa_canonical_utterance_enrichments` |
| `stage`, `todo` | where a run is, and the windows it has left |
| `read` | what it read for the window it is asking the vendors about |
| `held` | the rows it has flushed and not committed |

`Load`, `Read`, `Resolve` or `FallBack`, and `Commit` are the statements of a run
that read or write the database; minutes of vendor calls lie between `Read` and
`Resolve`. A flush waits for rows that another open transaction has inserted or
updated (`Unlocked`) and is refused by the unique constraint (`Taken`), which rolls
back all windows of the run. SQLAlchemy does not write a column whose value stays
what was read, which is why `renamed` compares with `read` and not with the row.

## 3. What is checked

| run | question | distinct states |
| --- | --- | --- |
| `capture_steady` | safety, refinement and draining of the upload path | 112,908 |
| `capture_torn_sidecar` | *violated*: a crash in `mark_failed` blocks the spool | |
| `capture_control` | safety, liveness and refinement of the agent's loop | 107,500 |
| `dual_capture` | the supervisor ends what it started | 8,169 |
| `pass_output` | every set of pending chunks of a small recording | 2,048 |
| `room_assembly` | the room source, with prompt and with late uploads | 5,476 |
| `worker_single` | safety, ledger and progress with one worker | 7,418 |
| `worker_two` | two workers, lost answers | 501,525 |
| `worker_failed_stays` | *violated*: a failed chunk is not retried | |
| `room_enrichment` | overlapping runs of two resolver versions | 502,827 |
| `enrichment_words` | *violated*: words of another utterance after a pause | |
| `enrichment_guest` | *violated*: a guest gets a teammate's name | |

### Properties

Upload path:

- `RetryBounded`. The limit is tested when a pass is listed and again at every
  move, and several entries of one pass can fail; a crash can come between.
- `RegisteredHasObject`. After any lost answer, retry or crash.
- `AudioKept`. A local file is deleted only when all of it is stored and
  registered, or when it was quiet. Needs a recorder that does not stall.
- `ProcessedIsFinal`. A chunk registered again never leaves `processed`, although
  the worker can settle it between the read and the write.
- `DrainsUnlessTorn`, `EveryChunkDrains`. See the findings.
- `ImplementsLedger`. Only quiet chunks are discarded, nothing is unregistered.

Agent and supervisor:

- `SpoolBounded`. The backlog exceeds its limit by no more than what is recorded
  between two looks at it. Only without stray recorders.
- `LostToFaults`. Heartbeat failures, outages, stalls and the end of the window
  never leave a recorder behind; a crash or a signal leaves one at most.
- `RecordsInWindow`. Against the set of active hours counted from the start.
- `HungIsReplaced`, although the uploader's removals restart the stall timeout:
  the spool it removes from is finite. A stray recorder that keeps writing to the
  spool does hide a hung one for ever, and is excluded.
- `RecordsAgain`. What is excluded is what really stops recording: an outage
  that ends the agent at every heartbeat, and empty files that fill the backlog.
  Both are in the code; without their exclusion TLC finds the agent stopped.
- `NoAgentLeft`, `BothOrNone`. With hung recorders, failed starts, lost SIGTERMs
  and agents that die by themselves.

A pass:

- `HeardOnce`. Every candidate is a member of exactly one utterance.
- `OverlapTogether`, `OnlyLastWindowGrows`. Which microphones are compared, and that
  recording on does not move the cuts.
- `OneSpeaker`, `DenialKept`, `MergedAcrossSources`. A group grows by matching one of
  its members; these relate all of them. `OneSpeaker` counts what normalisation leaves
  of the names, and a name of which it leaves nothing does not count. That no two
  members conflict, which is more, does not hold, see the divergences below.
- `OwnMicrophone`. Through scores, matches and merges, a teammate's microphone
  publishes no other name.

Room batches:

- `BatchedOnce`, `NoGapInBatch`, `BatchBounded`, `EveryChunkBatched`.
- `TimingIndependent`. While every upload is late by less than idle-flush minus
  adjacency minus chunk length (85 s with the defaults), the batches of any sequence of
  passes are a prefix of those one late pass over everything would cut. It does not hold
  beyond that: a flush that runs before a late chunk splits its span. It also leaves out
  chunks that are overtaken. When a recorder is restarted in mid-chunk, the first chunk
  of the new one overlaps the last of the old one, and the next may still follow the
  latter within the adjacency; a pass that sees those two cuts a batch without the one
  between them. With windows of 9 units, an adjacency of 1, an idle flush of 10 and
  chunks at 0 to 4, 1 to 5 and 5 to 9, a pass at 9 that runs before the second chunk has
  arrived cuts the first and the third, the late pass all three. Without this premise
  TLC shows such a run. See `TimingAssumption` in section 4, too.

Worker:

- `PublishedOncePerWorker`. One worker makes no duplicates; two make at most two.
- `FailedPublishedNothing`, `ProcessedIsAccounted`, `SettlesEventually`,
  `KeepsLedger`.

Enrichment:

- `EnrichedOnce`. "Re-running the same resolver version is idempotent"
  (`README.md:21`), also when runs overlap.
- `SpeakerAccountedFor`. The name of a canonical row is the published one or that
  of an enrichment row: no run leaves names without their rows behind. It is not
  always the name of the *last* run, see below.
- `WrongNameIsMixedTrack`. A teammate's name on another voice needs a slice with
  another voice under the same label in the same window: threshold and margin do
  not err on a pure track, as far as pyannote tells the voices in the room apart
  (`VoiceAssumption`).
- `OwnWordsWithoutGaps`. Where utterances follow each other without a pause or an
  overlap, in batches whose chunks do, alignment finds the right words, also for a
  run that loads only the end of a window while the audio is that of all of it.
  That the batches have no gap between their chunks cannot be left out: utterances
  are timed from the batch's start, so what comes after a gap is placed before its
  chunk, and a window that begins inside that chunk slices the wrong sounds although
  its utterances follow each other. The proof found this, and without the premise TLC
  shows it: chunks of 6 units at 0 and 7, the second with short utterances, and windows
  of 8 units.

### Findings

1. *A failed chunk is never retried* (`pipeline/worker.py:219`). The design
   (`docs/superpowers/specs/2026-04-02-ambient-memory-log-design.md:364`) says it
   is. Run `worker_failed_stays`. With a retry added, a unit whose commit took
   effect but raised would be published twice: `FailedPublishedNothing` fails with
   `AckLost`.
2. *A crash while the retry metadata is written blocks the spool*
   (`capture/spool.py:90`, `:136`). Run `capture_torn_sidecar`.
3. *After a pause, utterances are enriched with other utterances' words*
   (`pipeline/room_track_audio.py:161`, `pipeline/room_transcript_alignment.py:86`).
   Run `enrichment_words`.
4. *A guest is labelled as a teammate* when a label means the teammate in another
   batch of the same window (`pipeline/room_track_audio.py:168`). Run
   `enrichment_guest`.

Other divergences met while reading and modelling, without a run of their own:

- A speaker whose name has no letters a to z or digits is merged with another
  recognised speaker through a candidate without a name, since the name normalises to
  nothing and is discarded (`pipeline/dedup.py:328`); two such names do not even
  conflict as a pair. `tests/pipeline/test_dedup.py:235` and
  `tests/pipeline/test_worker.py:845` promise that conflicting speakers are not bridged.
  In the recording of `pass_output` chunks 7, 9 and 11 become one utterance of *dylan*
  and of a name in Cyrillic letters: TLC finds it at once when asked that no two members
  of an utterance satisfy `SpeakersConflict`.
- Empty files pause capture for good: no pass uploads or removes them
  (`capture/spool.py:53`), and they count towards the limit (`:65`).
  `docs/teammate-setup.md:174` says that capture resumes by itself.
- A heartbeat that fails ends the agent, so that an outage of the database stops
  recording (`capture/agent.py:267-269`); `docs/teammate-setup.md:174` says that the
  agent pauses at the backlog limit.
- Enrichment overwrites `speaker_name` of the canonical rows
  (`pipeline/room_enrichment.py:361-364`); `README.md:21` and
  `docs/ops-machine-setup.md:126` say that they stay unchanged.
- A room batch in which nobody is recognised is published under its diarization
  labels (`pipeline/worker.py:317-344`); `README.md:17` and
  `docs/ops-machine-setup.md:122` say it stays hidden.
- A SIGTERM inside the upload's `try` block is taken for an upload failure
  (`capture/uploader.py:137`), and the agent runs on;
  `docs/teammate-setup.md:142` says it stops cleanly.
- A run that would leave a name as it read it writes nothing, also when another
  run has changed the row since: the row then shows the name of the run that was
  flushed first, not that of the last one.
- A recorder survives when its agent is killed, by the supervisor after five
  seconds or by a second signal; the dual-capture design
  (`docs/superpowers/specs/2026-04-05-dual-capture-design.md:121`) asks for a
  clean stop of both children.
- An utterance without a track label is left out of the provenance and then
  makes every run over its window fail (`pipeline/room_track_audio.py:92-93`,
  `pipeline/room_enrichment.py:491`). No vendor answer in the model lacks a label.
- Runs of one version over a window that is still filling give the same label
  different identities, which the room-v2 design counts as a failure (line 380).
- Track scores are compared unscaled (`pipeline/room_track_identity.py:168`), while
  `speaker_matching.py:53` accepts percents; there a score of 1 percent is 1.00.
- Two repetitions on one microphone are merged when another microphone's
  candidate matches both, so `MergedAcrossSources` asks for several sources, not
  for one candidate of each.
- A merged utterance takes the name of its best-scored member, so a recognised
  name can be lost to a nameless one with a better score (`pipeline/dedup.py:220`).

### Bounds

- `CaptureUpload`: two chunks, one of them quiet, a retry directory of one. Two
  chunks and a limit of one give a pass in which the second failure finds the
  directory full. Files have up to two blocks, so that a file can grow after it
  was looked at. `MaxFaults` is 3: the deepest scenarios the properties guard
  against need a lost commit, a failing retry and a crash.
- `CaptureControl`: a day of three hours with a window around midnight, so that
  there are an hour before, an hour after and an hour outside. A stall takes three
  units, a backlog two files, one file is opened between two looks. Three faults:
  a stray recorder, a hung one and an error.
- `DualCapture`: the two agents the program has, three faults.
- `PassOutput`: eleven chunks of three microphones with overlaps, equal
  intervals, gaps below and above the adjacency and a restarted recorder.
  Intervals of six units, windows of twelve, adjacency and tolerance one: 30 s,
  60 s and 5 s in units of five. What is said is chosen so that a denial, a chain
  of similar texts, a repetition, percents, fractions, a match without bounds, a
  silent utterance, texts and a name in another script and a conflict of recognised
  speakers all meet.
- `RoomAssembly`: six chunks of four units, a window of thirteen, an adjacency of one,
  a chunk of a recorder restarted in mid-chunk that can be overtaken, a gap within the
  adjacency and a long pause. Prompt uploads are late by two chunk lengths at most, so
  that several chunks in a row can arrive in any order and still count as prompt.
- `Worker`: one ordinary and three room chunks for one worker, two and two for two
  workers. A pass has up to two windows, or a window and a batch while another
  room chunk waits; the unit of time is a chunk's length.
- `RoomEnrichment`: three batches in two windows, two teammates and a guest, two
  runs of one version and one of another, any cutoff of two, one failure. Labels
  change their meaning between batches, an utterance spans a gap, a run can find
  half a window published.
- `MaxNow`, `MaxSize`, `MaxFaults`, `MaxDelay`, `MaxPerPass`, `Day` are the bounds
  that the code does not have.

All chunks are equally long, as `DEFAULT_SEGMENT_SECONDS` makes them: a chunk's
claimed end is its start plus 30 s, even for the short last file of a recorder
that was stopped. `AssemblyAssumption` further requires chunks shorter than the
room window. With a window no longer than a chunk the loop at
`pipeline/room_windows.py:64-84` appends an empty batch for ever.

`SYMMETRY` is used in `room_enrichment` only, for the two runs of one version,
which differ in nothing; that run checks no liveness. `CHECK_DEADLOCK FALSE` is set
where a behaviour really ends: all chunks grouped, batched, settled or enriched,
and the bounded clock at its limit.

### Fairness

- `WF(Start)`, `WF(Launch)`, `WF(Supervise)`: launchd restarts agents, workers and the
  supervisor after every exit, and the supervisor's loop polls.
- `WF(Upload)`, `WF(Step)`, `WF(Pass)`: a thread that can run does.
- `WF(Age)`, `WF(Tick)`: time passes.
- `WF(Close)`: ffmpeg closes its segment when it ends, or ends itself.
- `WF(Finish)` in `DualCapture`: an agent that leaves its loop comes to its end, since
  `_stop_capture` waits twenty seconds at most.
- `SF(Drain)` in `CaptureControl`: if again and again there is a network when the
  agent uploads, then sometimes a whole pass succeeds. The network comes and goes
  between passes, so weak fairness would say nothing; that a pass over closed
  files with a network ends with an empty spool is what `DrainsUnlessTorn` shows of
  its statements.
- `WF(Arrive)`: uploads succeed in the end, which again is `DrainsUnlessTorn`.

No fairness is assumed of faults, signals, recording, registration, the network or
the enrichment job, of which no liveness is claimed: an operator starts it, and a
window that fails keeps failing.

## 4. What is proved

TLAPS checks the following for all values of the constants that satisfy the
assumptions of the modules: any finite set of chunks, any limits, any number of
faults, agents, workers or runs, and whatever the vendors answer.

| theorem | statement | extra assumption |
| --- | --- | --- |
| `CaptureUploadProofs!TypeCorrect` | `Spec => []TypeOK` | |
| `RegisteredCorrect` | `Spec => []RegisteredHasObject` | |
| `RetryCorrect` | `Spec => []RetryBounded` | |
| `ProcessedCorrect` | `Spec => ProcessedIsFinal` | |
| `AudioCorrect` | `Spec => []AudioKept` | `~WriterMayStall` |
| `LedgerCorrect` | `Spec => ImplementsLedger` | |
| `CaptureControlProofs!TypeCorrect` | `Spec => []TypeOK` | |
| `WindowCorrect` | `Spec => []RecordsInWindow` | |
| `LostCorrect` | `Spec => []LostToFaults` | |
| `SpoolCorrect` | `Spec => []SpoolBounded` | |
| `AgentCorrect` | `Spec => ImplementsAgent` | |
| `DualCaptureProofs!TypeCorrect` | `DualSpec => []TypeOK` | |
| `NoAgentLeftCorrect` | `DualSpec => []NoAgentLeft` | |
| `WorkerProofs!TypeCorrect` | `Spec => []TypeOK` | |
| `AccountedCorrect` | `Spec => []ProcessedIsAccounted` | |
| `OncePerWorkerCorrect` | `Spec => []PublishedOncePerWorker` | `~MayRequeue` |
| `OnceCorrect` | `Spec => []PublishedOncePerWorker` | one worker, `~AckLost` |
| `FailedCorrect` | `Spec => []FailedPublishedNothing` | one worker, `~AckLost` |
| `LedgerKept` | `Spec => KeepsLedger` | one worker, `~AckLost` |
| `PassOutputProofs!HeardOnceCorrect` | `Spec => []HeardOnce` | |
| `OneSpeakerCorrect` | `Spec => []OneSpeaker` | |
| `DenialCorrect` | `Spec => []DenialKept` | |
| `SourcesCorrect` | `Spec => []MergedAcrossSources` | |
| `OwnMicrophoneCorrect` | `Spec => []OwnMicrophone` | |
| `OverlapCorrect` | `Spec => []OverlapTogether` | `EndsInOrder` |
| `LastWindowGrows` | `Spec => OnlyLastWindowGrows` | |
| `RoomAssemblyProofs!BatchedOnceCorrect` | `Spec => []BatchedOnce` | |
| `NoGapCorrect` | `Spec => []NoGapInBatch` | |
| `BoundedCorrect` | `Spec => []BatchBounded` | |
| `TimingCorrect` | `Spec => []TimingIndependent` | `TimingAssumption` |
| `RoomEnrichmentProofs!OnceCorrect` | `Spec => []EnrichedOnce` | |
| `SpeakerCorrect` | `Spec => []SpeakerAccountedFor` | |
| `NamesCorrect` | `Spec => []WrongNameIsMixedTrack` | `VoiceAssumption` |
| `WordsCorrect` | `Spec => OwnWordsWithoutGaps` | |

### Assumptions

The assumptions on the constants say what kind of values they are: finitely many
chunks, natural numbers for times, limits and identifiers, identifiers that differ
(they are primary keys). Beyond that:

- `ControlAssumption`: the active window begins and ends at hours of the day.
- `WorkerAssumption`: windows and batches cut what is pending into sets that share no
  chunk. That the code's do is `WindowsSplit` in `PassOutputProofs` and `ReadyOnce` in
  `RoomAssemblyProofs`, for the functions `MCWorker` puts in.
- `PassAssumption`: Deepgram's utterances of a chunk are a sequence with times in
  numbers, and pyannote's scores are finitely many numbers.
- `AssemblyAssumption`: room chunks are shorter than the room window (see the bounds).
- `TimingAssumption`: chunks do not end before they start, and the idle flush is no
  longer than a window and the adjacency together (120 s against 605 s). The latter is
  needed, as TLC shows: with an idle flush of 16 units and chunks of 4 units at 0, 6 and
  10, the times of the passes decide where the run's windows of 8 units are cut.
  Nothing is assumed of restarts: chunks may overlap as they like. What can go wrong
  there is in the premise of the property, that no chunk arrives overtaken.
- `EnrichmentAssumption`: a batch is a sequence of recordings that is not empty, and a
  chunk is in one batch only, which is `BatchedOnce` of the room batches.
- `VoiceAssumption`: no batch has more voices than there are labels (four); teammates
  are enrolled by name, not as a label, `external-1` or `unknown`; and pyannote finds no
  voice as like another one's voiceprint as the threshold asks for. The last is about
  the vendor and not about the code. It is needed: with a guest as like a teammate as
  80 against a threshold of 70, TLC finds the guest under the teammate's name without
  another voice on the track, as long as the margin to other teammates is kept.
- `~WriterMayStall`: the recorder writes between two polls.
- `~MayRequeue`: no uploader registers a chunk again that failed meanwhile. With it a
  chunk is published again by workers that had published it before, since nothing of
  the earlier output is looked at. `OnceCorrect` needs no such assumption: with one
  worker whose commits are answered, nothing of a failed chunk was published.
- `EndsInOrder`: a chunk that starts later does not end earlier, which holds as
  all chunks are equally long. Without it a long chunk between two short ones
  that overlap can close the window before the second.

### Arguments

*Upload path.* None of the invariants is inductive, since all of them depend on
what the agent did in the statements before. `IndInv` adds `EntryInv` (the
entries of a pass still to come are non-empty files in the spool, and the
current one is until its own removal) and `RegistryInv` (at the statement where
a store is touched, the stores before it hold the chunk; at the commit, a row
read as missing or failed still is, because nothing but this agent writes such a
row). `AudioCorrect` adds `SteadyInv`: the entries being handled are closed and
their object, once put, has the whole file. `PollListsClosedFiles` is the heart of
it: a listed file of the root was seen at its present length before, which an
open file of a live recorder cannot be.

*Agent.* `LoopInv` ties the recorder to the place in the loop: where the next
statement starts a recorder none runs, and past the first look of a turn one runs
only if the turn began in the window. `WithinIsActive` shows that the three cases of
the code's comparison are the set of hours counted from the start, for every window.
`BacklogInv` says that while a recorder of this agent writes, the spool was below
its limit at the last look, and has grown by no more than was opened since.
For the refinement, `AgentMoves` lists what a step of the loop does to the state that
is seen from outside (`StepMoves`), and `MovesAllowed` shows that each is a step of
`AgentProcess` or none.

*Supervisor.* `StartedHere` says that every agent that is not down was started by
the supervisor that runs now, and that none is up when there is no supervisor. What
an agent does by itself, or what ends it, starts none (`AgentStepInv`), and a
supervisor leaves only when all that it started are down.

*Worker.* `UnitsCutPending` lifts the assumption on windows and batches to the
units of a pass. With one worker, `Ahead` says that the units still to come are
disjoint sets of uploaded chunks; with `Unpublished` (what is not processed has
no committed output) it gives `AtMostOnce`. The row's possible steps
(`RowSteps`) then give the ledger. With several workers and lost answers the count
is bounded by those that will not publish the chunk any more (`DoneWith`):
a transaction that publishes it adds its own worker to them (`DoneByOneMore`), and a
worker leaves them only by loading the chunk, which is pending and so was never
published (`OncePending`).

*A pass.* `WindowsCutUp` shows that the windows are cut from the sorted chunks at
increasing positions (`CutAt`), that a window's bounds are those of its chunks
(`Piece`), and that no window could have taken the chunk after it; `OverlapCorrect` is
what that refusal means for a chunk that overlaps the window. `GroupsSpread` shows that
the groups have every candidate once (`Spread`) and that all members of a group are
alike in what is left of the names they carry and in what they deny (`Alike`): a
candidate is compared with one member, and `CompatibleNames` and `JoinedAlike` carry
that over to the others. A group of more than one began with two microphones.
`MergeRows` and `PlacedOnce` put both together; candidates of different chunks differ in
their identifier. `OwnMicrophoneCorrect` rests on `SpeakerIs`: whatever the scores, the
name an owned microphone gives is its owner's or none, and a merged utterance has name
and source of the same member. `WindowsExtend` shows that the windows with a latest
chunk are those without it, extended once.

*Room batches.* `EndIs` says where the batch that begins at a position ends, without a
gap and within the limit (`Fits`); `BatchesCutUp` that what is cut off are parts of the
sorted chunks, one after the other. `AssemblyInv` adds that what waits is in no batch.
`TimingInv` compares the history with the one late pass: while no chunk was late, the
batches made are those that the late pass cuts first, up to some chunk (`Reaches`). A
chunk that is still to come when a batch is cut starts after the batch and cannot extend
it (`ToComeLater`): within the batch it would be overtaken (`LeftOut`), so the next
batch of a pass is the next one of the late pass (`CutAlike`), and `PassCuts` carries
that over all batches of a pass. By the time of the late pass every span has been idle,
so it cuts until nothing is left (`LateCuts`).

*Enrichment.* `OnceInv`: a run holds one row for each utterance of the windows it
is done with, no other run of its version holds or has committed one, and the windows
it has left share no utterance with those or each other (`HeldApart`, `Separate`).
The windows of a load are apart because an utterance is in the fixed window of its
start only. What a flush adds is not `Taken`, and waits until no other run holds it.
`SpeakerAccountedFor` is inductive by itself.

`NameInv` says for `WrongNameIsMixedTrack` that every row held or committed is named
rightly or from a mixed track (`NamedOrMixed`), that batches are published whole, so that
what a run reads is one of the pools, and that the pool a run asks about has published
utterances of the window only, its own among them (`Asking`). A teammate's name for a
track means that this teammate's voice is on it (`VerdictHeard`): a voiceprint reaches the
threshold only by its own voice. A voice on the track is in the slice of one of its
utterances (`VoicesJoined`), and `external-1`, `unknown` and the labels a failing pyannote
leaves are nobody's name (`IdentitiesHeard`, `RawHeard`).

`OwnWordsWithoutGaps` needs the same invariant, and is otherwise about one step. In an
unbroken batch the recording has at every time what the chunk of that time has
(`StitchedAt`), so that an utterance's slice is its own sound throughout (`SliceHas`).
Where nothing is missing between them, the slices of a window follow each other as the
utterances do: at every time of an utterance the stitched audio has its sound (`JoinedAt`).
A segment that has any time in common with the utterance therefore is of its sound
(`WordsOwn`), whichever the alignment chooses.

*Recursive definitions.* The library's induction theorems cannot be used here, so
an argument over positions looks at the least position where the claim fails, which
`LeastNat` or `FirstOf` gives, and shows that there is none. That a recursive function
has the value its equation says is proved the same way from its definition as a
`CHOOSE` (`WindowsUpToIs`, `GroupsUpToIs`, `FromTheEnd`). That every place of a sorted
sequence is taken comes from counting: ranks are an injection into as many places as
there are members (`RankTaken`), and a set is sorted in one way only (`SortsAlike`).

*Recordings.* `FlattenSteps` gives the sequence that `FlattenSeq` builds up from its
parts, and `FlattenAt` the place of each part in it.

*Only model-checked*: everything about liveness and what needs `ENABLED`, which is out
of the prover's reach (`DrainsUnlessTorn`, `HungIsReplaced`, `RecordsAgain`, `BothOrNone`,
`EveryChunkBatched`, `SettlesEventually`). Every other property that a passing run
checks is proved, under the assumptions of the table where it names one. What a
length of `SelectSeq` is (`Speech`) is not used in any proof: a verdict holds
whatever the measure of speech says.

## 5. Not modelled

- *Vendor clients.* Their bounded polling and retries have an outcome, an answer or
  an error, and that outcome is a choice in the models. What a retried POST
  creates twice lives at the vendor. Requests, parsing and encoding are left out.
- *Recording import.* One pass of the modelled upload path over a fresh directory;
  what fails stays there, which needs no model to see.
- *Voiceprint enrollment.* An interactive command. Its upsert can insert a new label
  twice when two enrollments race, and removes the duplicate at the next one.
- *Search API.* Read-only queries over committed rows, without state.
- *Schema, configuration, logging, command line.* Tables, settings, wiring and
  output. The transactions and the constraint that matter are in the models.
- *Hazards that no property covers.* A recorder that stalls with a file open is left out
  of `AudioKept` (`~WriterMayStall`): its file is taken for a closed one, uploaded and
  unlinked, and what is written later is lost. Empty files and outages stop capture and
  are left out of `RecordsAgain`. A stray recorder that goes on writing hides a hung one
  (`HungIsReplaced` leaves it out). With two workers or lost answers a status overwrites
  another one whatever it is: a published chunk may end as failed, two workers publish
  it twice, and `PublishedOncePerWorker` only bounds how often. `FailedPublishedNothing`
  and `KeepsLedger` are about one worker with answered commits. Which run's name a
  canonical row keeps is promised nowhere; `SpeakerAccountedFor` accepts that of any run
  on record. `PROJECT.json` names these at their lines.
- *Of modelled parts*: which device is chosen; the audio inside a wav and the
  parameters of its header; half-second pauses in the measure of speech;
  confidences and notes in enrichment rows; a SIGKILL of the supervisor, after
  which its agents would live on beside those of the next one.
