-------------------------- MODULE TranscriptAlignment --------------------------
(***************************************************************************)
(* Which text of the second transcription an utterance gets                *)
(* (align_retranscribed_segments): the segment and the utterance overlap   *)
(* each other more than any other.  Segments have offsets into the         *)
(* window's stitched audio, utterances are measured from the window's      *)
(* start.                                                                  *)
(***************************************************************************)
EXTENDS Integers, FiniteSets, SequencesExt

\* _relative_span
Span(u, start) ==
    LET from == Max({0, u.start - start}) IN [from |-> from, to |-> Max({from, u.end - start})]

CommonTime(a, b) == Max({0, Min({a.to, b.to}) - Max({a.from, b.from})})

\* The members of T that overlap s most: one, or none has it all to itself.
Best(s, T) ==
    {t \in T : CommonTime(s, t) > 0 /\ \A o \in T \ {t} : CommonTime(s, o) < CommonTime(s, t)}

\* The segment that is u's text, if any: two utterances with one span share it with
\* nobody.
Aligned(u, utterances, segments, start) ==
    {s \in Best(Span(u, start), segments) :
        \A o \in utterances \ {u} : CommonTime(s, Span(o, start)) < CommonTime(s, Span(u, start))}

\* The words of u: its segment's, or the raw ones.
Words(u, utterances, segments, start) ==
    LET own == Aligned(u, utterances, segments, start) IN
    IF own = {} THEN u.sound ELSE (CHOOSE s \in own : TRUE).sound
================================================================================
