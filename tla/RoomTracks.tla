------------------------------- MODULE RoomTracks ------------------------------
(***************************************************************************)
(* The audio-track part of room enrichment: the audio of the utterances of *)
(* a window, cut out of their chunks and stitched, as a whole and for each *)
(* diarization label, and the identity of each label's track.              *)
(***************************************************************************)
EXTENDS RoomTranscript

CONSTANTS
    Enrolled,        \* the labels of the voiceprints
    Likeness(_, _),  \* how much a voice is like a voiceprint, in hundredths
    MinSpeech,       \* ROOM_TRACK_MIN_SPEECH_SECONDS
    Threshold,       \* ROOM_TRACK_MATCH_THRESHOLD, in hundredths
    Margin           \* ROOM_TRACK_MATCH_MARGIN, in hundredths

\* _candidate_track_label: the hint, else the speaker of the vendor's answer.
TrackOf(u) == IF u.hint \in ToSet(Labels) THEN u.hint ELSE u.speaker

\* A variant of Slice: all of the chunk's file.
WholeChunk(u) == SoundsOf(u.chunk)

\* The audio of an utterance, as far as it lies in the file of its chunk.
Slice(u) ==
    LET audio == SoundsOf(u.chunk)
        at(t) == Max({0, Min({Len(audio), t - u.chunk.start})})
    IN  SubSeq(audio, at(u.start) + 1, at(u.end))

\* The key of the queries' order by.
Before(u, o) ==
    LET key(x) == <<x.start, x.end, x.chunk.id>> IN
    \E i \in 1..3 : key(u)[i] < key(o)[i] /\ \A j \in 1..(i - 1) : key(u)[j] = key(o)[j]

\* Utterances in that order.
Sorted(S) ==
    [n \in 1..Cardinality(S) |->
        CHOOSE u \in S : Cardinality({o \in S : Before(o, u)}) = n - 1]

\* Slices one after the other, without what lies between the utterances.
Joined(S) == FlattenSeq([n \in 1..Cardinality(S) |-> Slice(Sorted(S)[n])])

TrackAudio(S, label) == Joined({u \in S : TrackOf(u) = label})

\* measure_speech_seconds
Speech(audio) == Len(SelectSeq(audio, LAMBDA x : x # Silence))

--------------------------------------------------------------------------------
\* The identity of a track (resolve_track_identities).  pyannote tells the voices of a
\* recording apart and compares each with every voiceprint.

\* The best score of a voiceprint over the voices of the track (_build_match_audit).
BestScore(audio, l) == Max({Likeness(v, l) : v \in Voices(audio)})

\* A variant of IsTeammate: whoever is ahead is taken, however unlike.
IsTeammateByMargin(audio, l) ==
    \A m \in Enrolled \ {l} : BestScore(audio, l) - BestScore(audio, m) >= Margin

\* One voiceprint is alike enough and well ahead of all others.
IsTeammate(audio, l) ==
    /\ BestScore(audio, l) >= Threshold
    /\ BestScore(audio, l) >= Margin
    /\ \A m \in Enrolled \ {l} : BestScore(audio, l) - BestScore(audio, m) >= Margin

\* One voice that is like no voiceprint.
IsGuest(audio) ==
    /\ Cardinality(Voices(audio)) = 1
    /\ \A l \in Enrolled : BestScore(audio, l) < Threshold

\* The identity by itself, before the window's one place for a guest is given away.
Verdict(audio) ==
    IF Enrolled = {} \/ Speech(audio) < MinSpeech \/ Voices(audio) = {} THEN "unknown"
    ELSE IF \E l \in Enrolled : IsTeammate(audio, l)
         THEN CHOOSE l \in Enrolled : IsTeammate(audio, l)
    ELSE IF IsGuest(audio) THEN "external-1" ELSE "unknown"

\* The first of some tracks in the order of the labels, other names last.
FirstTrack(tracks) ==
    IF tracks \cap ToSet(Labels) = {} THEN CHOOSE l \in tracks : TRUE
    ELSE Labels[Min({i \in DOMAIN Labels : Labels[i] \in tracks})]

\* Only the first track of a guest is called external-1.
TrackIdentities(S) ==
    LET verdict == [l \in {TrackOf(u) : u \in S} |-> Verdict(TrackAudio(S, l))]
        guests == {l \in DOMAIN verdict : verdict[l] = "external-1"}
    IN  [l \in DOMAIN verdict |->
            IF l \in guests /\ l # FirstTrack(guests) THEN "unknown" ELSE verdict[l]]

\* What remains when pyannote fails: the labels themselves (_fallback_track_identity).
RawIdentities(S) == [l \in {TrackOf(u) : u \in S} |-> l]
================================================================================
