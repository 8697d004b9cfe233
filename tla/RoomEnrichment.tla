----------------------------- MODULE RoomEnrichment ----------------------------
(***************************************************************************)
(* The room enrichment job beside the worker: the worker publishes batches *)
(* of room utterances, and runs of enrich-room, which somebody starts when *)
(* they like, give every utterance an identity and a second transcript.  A *)
(* run loads the utterances its resolver version has not seen, works on    *)
(* one fixed window after the other, minutes of vendor calls each, and     *)
(* commits them all in one transaction.  It overwrites the speaker of the  *)
(* canonical rows.  Runs can overlap, of one version and of several.       *)
(***************************************************************************)
EXTENDS RoomTracks, TranscriptAlignment

CONSTANTS
    Batch,         \* the batches the worker makes of the room's chunks
    Run,           \* enrich-room processes
    VersionOf(_),  \* the resolver_version a run is started with
    Cutoff,        \* the times from which a run may look at utterances
    FixedWindow,   \* FIXED_WINDOW_MINUTES
    MaxFaults      \* bound: failures and crashes in one behaviour

ASSUME EnrichmentAssumption ==
    /\ IsFiniteSet(Batch)
    /\ \A b \in Batch :
          /\ b \in Seq([id : Nat, start : Nat, end : Nat]) /\ Len(b) > 0
          /\ \A i \in DOMAIN b : SoundsOf(b[i]) \in Seq(ToSet(SoundsOf(b[i])))
    /\ \A b, c \in Batch : \A i \in DOMAIN b, j \in DOMAIN c : b[i].id = c[j].id => b = c
    /\ FixedWindow \in Nat \ {0}
    /\ Margin \in Nat \ {0}
    /\ Cutoff \subseteq Nat
    /\ MaxFaults \in Nat

\* The voices in the room.
InTheRoom ==
    LET sounds == UNION {UNION {ToSet(SoundsOf(c)) : c \in ToSet(b)} : b \in Batch} IN
    {VoiceOf(x) : x \in sounds \ {Silence}}

\* What WrongNameIsMixedTrack rests on: there are labels for all voices of a request,
\* teammates are enrolled by name, and pyannote finds no voice as like another one's
\* voiceprint as the threshold asks for.
ASSUME VoiceAssumption ==
    /\ \A b \in Batch : Cardinality(Voices(Stitched(b))) <= Len(Labels)
    /\ (ToSet(Labels) \cup {"external-1", "unknown"}) \cap Enrolled = {}
    /\ Threshold \in Nat
    /\ \A v \in InTheRoom, l \in Enrolled :
          Likeness(v, l) \in Nat /\ (v # l => Likeness(v, l) < Threshold)

VARIABLES
    speakers,   \* the canonical rows: speaker_name of the published utterances
               \* (raw_speaker_name stays the name that was published)
    enriched,  \* the rows of aa_canonical_utterance_enrichments
    stage,     \* of a run: new, between two windows, asking the vendors, or done
    todo,      \* of a run: the windows that are left
    read,      \* of a run: what it has read for the window it is asking about
    held,      \* of a run: the enrichments it has written and not committed
    faults     \* how many faults have happened (bounded by MaxFaults)

vars == <<speakers, enriched, stage, todo, read, held, faults>>

Nothing == [pool |-> {}, names |-> <<>>]

Init ==
    /\ speakers = <<>>
    /\ enriched = {}
    /\ stage = [r \in Run |-> "new"]
    /\ todo = [r \in Run |-> <<>>]
    /\ read = [r \in Run |-> Nothing]
    /\ held = [r \in Run |-> {}]
    /\ faults = 0

Fault == faults < MaxFaults /\ faults' = faults + 1

Published == DOMAIN speakers

--------------------------------------------------------------------------------
UtterancesOf == [b \in Batch |-> RoomUtterances(b)]

\* One transaction of the worker (persist_canonical_utterances).
Publish(b) ==
    /\ UtterancesOf[b] \cap Published = {}
    /\ speakers' = [u \in Published \cup UtterancesOf[b] |->
                       IF u \in Published THEN speakers[u] ELSE PublishedName(u)]
    /\ UNCHANGED <<enriched, stage, todo, read, held, faults>>

Utterance == UNION {UtterancesOf[b] : b \in Batch}

\* _floor_to_fixed_window
WindowOf(u) == u.start - (u.start % FixedWindow)

\* The utterances that may be published in one window when a run reads them.
Pool ==
    {{u \in UNION {UtterancesOf[b] : b \in B} : WindowOf(u) = WindowOf(o)} :
        B \in SUBSET Batch, o \in Utterance}

\* What the vendors make of the audio of such utterances.
SegmentsOf == [pool \in Pool |-> Segments(Joined(pool))]
IdentitiesOf == [pool \in Pool |-> TrackIdentities(pool)]

\* What a version has not enriched yet (_load_pending_utterances).
Unseen(version, cutoff) ==
    {u \in Published :
        u.start >= cutoff /\ ~\E e \in enriched : e.utterance = u /\ e.version = version}

\* _group_fixed_windows
FixedWindows(S) ==
    LET starts == {WindowOf(u) : u \in S} IN
    [n \in 1..Cardinality(starts) |->
        LET start == CHOOSE t \in starts : Cardinality({o \in starts : o < t}) = n - 1 IN
        [start |-> start, utterances |-> {u \in S : WindowOf(u) = start}]]

Load(r) ==
    /\ stage[r] = "new"
    /\ \E cutoff \in Cutoff :
          /\ Unseen(VersionOf(r), cutoff) # {}
          /\ todo' = [todo EXCEPT ![r] = FixedWindows(Unseen(VersionOf(r), cutoff))]
    /\ stage' = [stage EXCEPT ![r] = "between"]
    /\ UNCHANGED <<speakers, enriched, read, held, faults>>

\* The tracks will be those of all utterances published in the window by now, the
\* rows those of the utterances the run has loaded.
Read(r) ==
    /\ stage[r] = "between" /\ todo[r] # <<>>
    /\ LET w == Head(todo[r]) IN
       read' = [read EXCEPT ![r] =
                   [pool |-> {u \in Published : WindowOf(u) = w.start},
                    names |-> [u \in w.utterances |-> speakers[u]]]]
    /\ stage' = [stage EXCEPT ![r] = "asking"]
    /\ UNCHANGED <<speakers, enriched, todo, held, faults>>

\* The rows of the window that a run is asking about.  A canonical row whose name
\* would stay the name that was read is not updated.
Enrichments(r, identities) ==
    LET w == Head(todo[r]) IN
    {[utterance |-> u, version |-> VersionOf(r), run |-> r,
      identity |-> identities[TrackOf(u)],
      renamed |-> identities[TrackOf(u)] # read[r].names[u],
      words |-> Words(u, w.utterances, SegmentsOf[read[r].pool], w.start)] :
        u \in w.utterances}

\* The rows another open transaction has inserted or updated are waited for.
Unlocked(r, rows) ==
    \A o \in Run \ {r} : \A e \in held[o] : \A f \in rows :
        e.utterance = f.utterance => e.version # f.version /\ ~(e.renamed /\ f.renamed)

\* A variant of Taken: the table has no unique constraint.
NeverTaken(rows) == FALSE

\* The unique constraint on utterance, vendor and version refuses a row.
Taken(rows) ==
    \E e \in enriched : \E f \in rows : e.utterance = f.utterance /\ e.version = f.version

EndRun(r) ==
    /\ stage' = [stage EXCEPT ![r] = "done"]
    /\ todo' = [todo EXCEPT ![r] = <<>>]
    /\ read' = [read EXCEPT ![r] = Nothing]
    /\ held' = [held EXCEPT ![r] = {}]

\* The vendors have answered and the window's rows are flushed, or refused, which
\* rolls every window of the run back.
Flush(r, identities) ==
    \E rows \in {Enrichments(r, identities)} :
        /\ Unlocked(r, rows)
        /\ \/ /\ ~Taken(rows)
              /\ held' = [held EXCEPT ![r] = @ \cup rows]
              /\ todo' = [todo EXCEPT ![r] = Tail(@)]
              /\ read' = [read EXCEPT ![r] = Nothing]
              /\ stage' = [stage EXCEPT ![r] = "between"]
           \/ Taken(rows) /\ EndRun(r)

Resolve(r) ==
    /\ stage[r] = "asking"
    /\ Flush(r, IdentitiesOf[read[r].pool])
    /\ UNCHANGED <<speakers, enriched, faults>>

\* pyannote fails (_resolve_window_track_identities).
FallBack(r) ==
    /\ stage[r] = "asking"
    /\ Fault
    /\ Flush(r, RawIdentities(read[r].pool))
    /\ UNCHANGED <<speakers, enriched>>

\* S3 or the transcription fails, or the process ends: all windows are rolled back.
Abort(r) ==
    /\ stage[r] \in {"between", "asking"}
    /\ Fault
    /\ EndRun(r)
    /\ UNCHANGED <<speakers, enriched>>

\* The canonical rows under the updates of a transaction.
Renamed(rows) ==
    [u \in Published |->
        IF \E e \in rows : e.utterance = u /\ e.renamed
        THEN (CHOOSE e \in rows : e.utterance = u).identity ELSE speakers[u]]

\* A variant of Commit: the rows are kept when the inserts are not.
CommitNames(r) ==
    /\ stage[r] = "between" /\ todo[r] = <<>>
    /\ speakers' = Renamed(held[r])
    /\ EndRun(r)
    /\ UNCHANGED <<enriched, faults>>

Commit(r) ==
    /\ stage[r] = "between" /\ todo[r] = <<>>
    /\ enriched' = enriched \cup held[r]
    /\ speakers' = Renamed(held[r])
    /\ EndRun(r)
    /\ UNCHANGED faults

Next ==
    \/ \E b \in Batch : Publish(b)
    \/ \E r \in Run : Load(r) \/ Read(r) \/ Resolve(r) \/ FallBack(r) \/ Abort(r) \/ Commit(r)

Spec == Init /\ [][Next]_vars

--------------------------------------------------------------------------------
\* Re-running is idempotent, also when two runs of one resolver version overlap and
\* have loaded the same utterances: no version enriches an utterance twice.
EnrichedOnce ==
    \A e, f \in enriched : e.utterance = f.utterance /\ e.version = f.version => e = f

\* Whatever runs overlap, fail or are refused, the speaker of a canonical row is the one
\* the worker published or one that an enrichment row on record accounts for.
SpeakerAccountedFor ==
    \A u \in Published :
        \/ speakers[u] = PublishedName(u)
        \/ \E e \in enriched : e.utterance = u /\ e.identity = speakers[u]

\* A teammate's name is given to another voice only when the audio pooled under the
\* label in that window holds several voices.
WrongNameIsMixedTrack ==
    \A e \in enriched :
        LET voice == VoiceOf(e.utterance.sound) IN
        e.identity \in Enrolled /\ e.identity # voice =>
            \E u \in Published :
                /\ WindowOf(u) = WindowOf(e.utterance)
                /\ TrackOf(u) = TrackOf(e.utterance)
                /\ Voices(Slice(u)) \ {voice} # {}

\* The chunks of a batch follow each other, and each has a file as long as its time.
Unbroken(batch) ==
    /\ \A i \in 1..(Len(batch) - 1) : batch[i + 1].start = batch[i].end
    /\ \A i \in DOMAIN batch : Len(SoundsOf(batch[i])) = batch[i].end - batch[i].start

\* The utterances of unbroken batches follow each other from the start of their window
\* without a pause or an overlap, and none reaches beyond its chunk.
Continuous(pool) ==
    /\ \A b \in Batch : UtterancesOf[b] \cap pool # {} => Unbroken(b)
    /\ \A u \in pool :
          /\ u.chunk.start <= u.start /\ u.end <= u.chunk.end
          /\ \A o \in pool \ {u} : o.end <= u.start \/ u.end <= o.start
          /\ \A t \in WindowOf(u)..(u.start - 1) : \E o \in pool : o.start <= t /\ t < o.end

\* Where the window's audio has no pauses to lose, every utterance gets its own words,
\* also in a run that has loaded only the last utterances of the window.
OwnWordsWithoutGaps ==
    [][\A r \in Run : \A e \in held'[r] \ held[r] :
          Continuous(read[r].pool) => e.words = e.utterance.sound]_vars

--------------------------------------------------------------------------------
\* The room enrichment design aligns "inferred transcript segments back onto the existing
\* room utterance timeline by time overlap": an utterance gets its own words.
OwnWords == \A e \in enriched : e.words = e.utterance.sound

\* The design counts it as a failure when "an external/remote participant is confidently
\* labeled as a teammate".
GuestNotTeammate ==
    \A e \in enriched : VoiceOf(e.utterance.sound) \notin Enrolled => e.identity \notin Enrolled
================================================================================
