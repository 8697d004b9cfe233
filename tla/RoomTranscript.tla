----------------------------- MODULE RoomTranscript ----------------------------
(***************************************************************************)
(* What a batch of the room becomes (_process_room_batch): its chunks are  *)
(* stitched into one recording, AssemblyAI tells the utterances in it      *)
(* apart, and each becomes a canonical utterance that points to one chunk. *)
(* The utterances of one source are never merged with each other.  Audio   *)
(* is a sequence of sounds, one for each unit of time; a sound stands for  *)
(* the words of one voice.  A chunk is a record [id, start, end], a batch  *)
(* a sequence of chunks.                                                   *)
(***************************************************************************)
EXTENDS Integers, FiniteSets, SequencesExt

CONSTANTS
    SoundsOf(_),    \* the audio in a chunk's file
    Silence,        \* no sound
    VoiceOf(_),     \* whose voice a sound is
    Roster,         \* the names of ROOM_SPEAKER_ROSTER_PATH
    Identified(_),  \* the voices that AssemblyAI names in a request for a batch
    Nobody          \* no name

Labels == <<"A", "B", "C", "D">>

\* The files' audio, one after the other, whatever lies between the chunks.
Stitched(chunks) == FlattenSeq([i \in DOMAIN chunks |-> SoundsOf(chunks[i])])

\* A transcription service tells apart what it hears: the maximal runs of one sound.
Segments(audio) ==
    {[sound |-> audio[i], from |-> i - 1,
      to |-> Min({j \in i..Len(audio) : j = Len(audio) \/ audio[j + 1] # audio[i]})] :
        i \in {i \in DOMAIN audio : audio[i] # Silence /\ (i > 1 => audio[i - 1] # audio[i])}}

Voices(audio) == {VoiceOf(audio[i]) : i \in {i \in DOMAIN audio : audio[i] # Silence}}

\* The diarization labels of one request: voices in the order of their first sound.
LabelOf(audio, voice) ==
    LET first(v) == CHOOSE i \in DOMAIN audio :
            /\ audio[i] # Silence /\ VoiceOf(audio[i]) = v
            /\ \A k \in 1..(i - 1) : audio[k] = Silence \/ VoiceOf(audio[k]) # v
    IN  Labels[Cardinality({v \in Voices(audio) : first(v) <= first(voice)})]

Known(name) == IF name \in Roster THEN name ELSE Nobody

\* The speaker of an answer, a label or a name, under the answer's map from labels to
\* names (_resolve_speaker).
Resolved(speaker, names) ==
    LET same == {l \in DOMAIN names : Known(names[l]) = Known(speaker)} IN
    IF speaker \in DOMAIN names THEN [hint |-> speaker, name |-> Known(names[speaker])]
    ELSE IF Known(speaker) # Nobody /\ Cardinality(same) = 1
         THEN [hint |-> CHOOSE l \in same : TRUE, name |-> Known(speaker)]
    ELSE IF speaker \in ToSet(Labels) THEN [hint |-> speaker, name |-> Nobody]
    ELSE [hint |-> Nobody, name |-> Known(speaker)]

\* The chunk that an utterance overlaps most, else the first that ends after its start.
ChunkFor(batch, start, end) ==
    LET common(i) == Max({0, Min({end, batch[i].end}) - Max({start, batch[i].start})})
        most == Max({common(i) : i \in DOMAIN batch})
        later == {i \in DOMAIN batch : start < batch[i].end}
    IN  batch[IF most > 0 THEN Min({i \in DOMAIN batch : common(i) = most})
              ELSE IF later # {} THEN Min(later) ELSE Len(batch)]

\* The canonical utterance of a segment.  Times are offsets into the recording, added to
\* the start of the first chunk.
UtteranceOf(batch, s) ==
    LET audio == Stitched(batch)
        names == [l \in {LabelOf(audio, v) : v \in Identified(batch) \cap Voices(audio)} |->
                     CHOOSE v \in Voices(audio) : LabelOf(audio, v) = l]
        voice == VoiceOf(s.sound)
        speaker == IF voice \in Identified(batch) THEN voice ELSE LabelOf(audio, voice)
        who == Resolved(speaker, names)
        start == batch[1].start + s.from
        end == batch[1].start + s.to
    IN  [sound |-> s.sound, start |-> start, end |-> end, chunk |-> ChunkFor(batch, start, end),
         speaker |-> speaker, hint |-> who.hint, name |-> who.name]

\* The canonical utterances of a batch.
RoomUtterances(batch) == {UtteranceOf(batch, s) : s \in Segments(Stitched(batch))}

\* The speaker_name that is published: the label when nobody was recognised.
PublishedName(u) == IF u.name # Nobody THEN u.name ELSE u.hint
================================================================================
