------------------------------ MODULE Transcripts ------------------------------
(***************************************************************************)
(* What a chunk of an ordinary source becomes before duplicates are        *)
(* merged: Deepgram's utterances, each with the voiceprint match of        *)
(* pyannote that overlaps it most, and a name when the match is good       *)
(* enough for that source (_process_legacy_chunk, choose_speaker).  Scores *)
(* are in hundredths of the number the vendor sends, so that 88 percent is *)
(* 8800 and 0.88 is 88.                                                    *)
(***************************************************************************)
EXTENDS Dedup

CONSTANTS
    Heard(_),    \* Deepgram's utterances in a chunk: [blank, words, from, to, confidence],
                 \* blank if there is no text; words may be none all the same
    Matches(_),  \* pyannote's matches in it: [speaker, match, scores, from, to], with
                 \* from and to Untimed when it sends no bounds
    Untimed,
    OwnerOf(_),  \* device_owner of a source, or Nobody
    TypeOf(_)    \* source_type of a source

Clamp(n) == Max({0, Min({100, n})})

\* _normalize_confidence: percents and fractions are told apart by their size, and
\* percents rounded (a half upwards; in the code as the floating-point number falls).
NormalConfidence(score) == Clamp(IF score > 100 THEN (score + 50) \div 100 ELSE score)

OwnerDecides(source) == TypeOf(source) # "room" /\ OwnerOf(source) # Nobody

CombinedConfidence(source, match, score) ==
    LET plain == NormalConfidence(score) IN
    IF ~OwnerDecides(source) \/ match = Nobody THEN plain
    ELSE Clamp(IF match = OwnerOf(source) THEN plain + 10 ELSE plain - 30)

\* A variant of SpeakerName: the best match is believed on every microphone.
BestMatch(source, match, sure) == IF match = Nobody \/ sure < 60 THEN Nobody ELSE match

\* _final_speaker_name
SpeakerName(source, match, sure) ==
    IF \/ match = Nobody
       \/ sure < 75
       \/ OwnerDecides(source) /\ match # OwnerOf(source)
    THEN Nobody ELSE match

\* _match_confidence
MatchScore(m) ==
    IF m.match \in DOMAIN m.scores THEN m.scores[m.match]
    ELSE Max({0} \cup {m.scores[l] : l \in DOMAIN m.scores})

Timed(m) == m.from # Untimed /\ m.to # Untimed

Shared(u, m) == IF Timed(m) THEN Max({0, Min({u.to, m.to}) - Max({u.from, m.from})}) ELSE 0

\* What is known of an utterance's speaker; matches without a speaker are dropped.
MatchesOf(u, matches) ==
    LET known == {m \in matches : m.speaker # Nobody}
        overlapping == {m \in known : Shared(u, m) > 0}
        untimed == {m \in known : ~Timed(m)}
        key(m) == <<Shared(u, m), MatchScore(m), -m.from>>
    IN  IF overlapping # {} THEN {m \in overlapping :
                                    \A n \in overlapping : ~KeyBefore(key(m), key(n))}
        ELSE IF Cardinality(untimed) = 1 THEN untimed ELSE {}

\* The speaker of an utterance and how sure that is: 0 when nothing matches.
Speaker(chunk, u) ==
    LET found == MatchesOf(u, Matches(chunk)) IN
    IF found = {} THEN [name |-> Nobody, sure |-> 0]
    ELSE LET m == CHOOSE m \in found : TRUE
             sure == CombinedConfidence(chunk.source, m.match, MatchScore(m))
         IN  [name |-> SpeakerName(chunk.source, m.match, sure), sure |-> sure]

CandidateOf(chunk, n) ==
    LET u == Heard(chunk)[n]
        who == Speaker(chunk, u)
    IN  [id |-> <<chunk.id, n>>, source |-> chunk.source, owner |-> OwnerOf(chunk.source),
         start |-> chunk.start + u.from, end |-> chunk.start + u.to, words |-> u.words,
         name |-> who.name, sure |-> who.sure, confidence |-> u.confidence]

\* The candidates of a chunk; an utterance without text is none.
Candidates(chunk) ==
    {CandidateOf(chunk, n) : n \in {n \in DOMAIN Heard(chunk) : ~Heard(chunk)[n].blank}}
================================================================================
