------------------------------- MODULE PassOutput ------------------------------
(***************************************************************************)
(* What one pass of the worker publishes of the ordinary sources: the      *)
(* pending chunks are cut into windows and the candidates of each window   *)
(* are merged into canonical utterances.  The state is the set of chunks   *)
(* that are registered when the pass loads them, in whatever order they    *)
(* arrived.                                                                *)
(***************************************************************************)
EXTENDS ProcessingWindows, Transcripts

\* What the vendors answer is finite, and its times and scores are numbers.
ASSUME PassAssumption ==
    \A c \in OrdinaryChunk :
        /\ Heard(c) \in Seq(ToSet(Heard(c)))
        /\ \A u \in ToSet(Heard(c)) : u.from \in Nat /\ u.to \in Nat /\ u.confidence \in Nat
        /\ \A m \in Matches(c) :
              IsFiniteSet(DOMAIN m.scores) /\ \A l \in DOMAIN m.scores : m.scores[l] \in Nat

VARIABLE pending  \* the chunks of the pass

Init == pending = {}

Upload(c) == c \notin pending /\ pending' = pending \cup {c}

Next == \E c \in OrdinaryChunk : Upload(c)

Spec == Init /\ [][Next]_pending

Windows(chunks) == GroupWindows(chunks)

Members(w) == ToSet(w.chunks)

\* The candidates that a window's chunks give (_process_window).
CandidatesOf(chunks) == UNION {Candidates(c) : c \in chunks}

\* The canonical utterances of a pass, window by window.
Published(chunks) ==
    LET windows == NewestFirst(Windows(chunks)) IN
    [n \in DOMAIN windows |-> MergeCandidates(CandidatesOf(Members(windows[n])))]

Utterances(chunks) == UNION {ToSet(Published(chunks)[n]) : n \in DOMAIN Published(chunks)}

--------------------------------------------------------------------------------
\* What every microphone heard is published exactly once, as a member of one utterance
\* of one window: nothing is lost between two windows or two groups, nothing is in two.
HeardOnce ==
    LET pass == Published(pending) IN
    /\ \A n \in DOMAIN pass : \A i \in DOMAIN pass[n] :
          ToSet(pass[n][i].members) \subseteq CandidatesOf(pending)
    /\ \A c \in CandidatesOf(pending) :
          \E n \in DOMAIN pass : \E i \in DOMAIN pass[n] : \E k \in DOMAIN pass[n][i].members :
              \A m \in DOMAIN pass : \A j \in DOMAIN pass[m] :
                  \A l \in DOMAIN pass[m][j].members :
                      pass[m][j].members[l] = c <=> m = n /\ j = i /\ l = k

\* Two chunks that overlap in time are compared for duplicates, whatever lies
\* between them, unless the window would become longer than max_window_seconds.
OverlapTogether ==
    \A c, d \in pending :
        Before(c, d) /\ d.start < c.end =>
            \E n \in DOMAIN Windows(pending) : LET w == Windows(pending)[n] IN
                /\ c \in Members(w)
                /\ d \in Members(w) \/ d.end - w.start > MaxWindow

\* A chunk that is later than all others leaves every window but the last as it
\* was: what recording goes on does not move the cuts already made.
OnlyLastWindowGrows ==
    [][\A c \in pending' \ pending :
          (\A d \in pending : Before(d, c)) /\ pending # {} =>
              IsPrefix(Front(Windows(pending)), Windows(pending'))]_pending

\* Two recognised speakers are not made one utterance, also not through a microphone
\* that recognised neither of them (_group_speakers_are_compatible), as long as there
\* is something left of their names when only a-z and digits are kept: names of which
\* nothing is left go with any other.
OneSpeaker == \A u \in Utterances(pending) : Cardinality(NamesIn(u.members)) <= 1

\* What was denied on one microphone is not published as said because of another:
\* all that is merged denies the same, however long the chain of similar texts.
DenialKept ==
    \A u \in Utterances(pending) : \A i, j \in DOMAIN u.members :
        Tokens(u.members[i]) \cap Negation = Tokens(u.members[j]) \cap Negation

\* One microphone's own repetitions are no duplicates of each other: what is merged was
\* heard by several microphones.
MergedAcrossSources ==
    \A u \in Utterances(pending) :
        Len(u.members) > 1 =>
            Cardinality({u.members[i].source : i \in DOMAIN u.members}) > 1

\* A teammate's microphone publishes nobody else's name: the others it hears stay
\* unnamed, whatever is merged with them (_final_speaker_name, _merge_group).
OwnMicrophone ==
    \A u \in Utterances(pending) :
        OwnerDecides(u.source) => u.name \in {Nobody, OwnerOf(u.source)}
================================================================================
