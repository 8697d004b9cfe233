--------------------------------- MODULE Dedup ---------------------------------
(***************************************************************************)
(* Which transcript candidates of a window are one utterance               *)
(* (merge_transcript_candidates).  A candidate is a record [id, source,    *)
(* owner, start, end, words, name, sure, confidence]; words is its         *)
(* normalised text, a sequence of tokens, and name the speaker's name as   *)
(* it was enrolled; id is a pair of numbers.  Confidences are in           *)
(* hundredths, 0 when the vendor gave none, times in any unit.             *)
(***************************************************************************)
EXTENDS Integers, FiniteSets, SequencesExt

CONSTANTS
    Informative,     \* the tokens that are not in NON_INFORMATIVE_TOKENS
    Negation,        \* NEGATION_TOKENS
    Tolerance,       \* DEDUP_TOLERANCE_SECONDS
    ShortTolerance,  \* LOW_SIGNAL_EXACT_MATCH_TOLERANCE_SECONDS
    Nobody,          \* no speaker is named
    PlainName(_),    \* what _normalize_text leaves of a name: letters a-z and digits
    EmptyName        \* what it leaves of a name that has none of them

ASSUME DedupAssumption ==
    /\ Negation \subseteq Informative
    /\ Tolerance \in Nat
    /\ ShortTolerance \in 0..Tolerance

CandidateKey(c) == <<c.start, c.end, c.source, c.id[1], c.id[2]>>

\* The lexicographic order of two tuples of integers of one length.
KeyBefore(k, l) == \E i \in DOMAIN k : k[i] < l[i] /\ \A j \in 1..(i - 1) : k[j] = l[j]

InKeyOrder(candidates) ==
    [n \in 1..Cardinality(candidates) |->
        CHOOSE c \in candidates :
            Cardinality({d \in candidates :
                            KeyBefore(CandidateKey(d), CandidateKey(c))}) = n - 1]

--------------------------------------------------------------------------------
\* What two texts have in common.

InformativeWords(words) == SelectSeq(words, LAMBDA w : w \in Informative)

Tokens(c) == ToSet(InformativeWords(c.words))

LowSignal(c) == Len(InformativeWords(c.words)) < 2 \/ Len(c.words) <= 2

\* A variant of UnsharedNegation: what is denied does not matter.
NeverUnshared(c, d) == FALSE

UnsharedNegation(c, d) == SymDiff(Tokens(c), Tokens(d)) \cap Negation # {}

\* The words of c, enough of them informative, one after the other in those of d.
Within(c, d) ==
    /\ Len(InformativeWords(c.words)) >= 3
    /\ \E i \in 0..(Len(d.words) - Len(c.words)) :
          SubSeq(d.words, i + 1, i + Len(c.words)) = c.words

\* At least three informative tokens each, and four in five are shared.
MostlyShared(c, d) ==
    LET sizes == {Cardinality(Tokens(c)), Cardinality(Tokens(d))} IN
    /\ Min(sizes) >= 3
    /\ 5 * Cardinality(Tokens(c) \cap Tokens(d)) >= 4 * Max(sizes)

Contradicting(c, d) == Tokens(c) \ Tokens(d) # {} /\ Tokens(d) \ Tokens(c) # {}

FuzzyMatch(c, d) ==
    /\ c.source # d.source
    /\ ~LowSignal(c) /\ ~LowSignal(d)
    /\ ~UnsharedNegation(c, d)
    /\ \/ Within(c, d) \/ Within(d, c)
       \/ ~Contradicting(c, d) /\ MostlyShared(c, d)

--------------------------------------------------------------------------------
\* Groups.

Close(c, d, tolerance) == c.start <= d.end + tolerance /\ c.end >= d.start - tolerance

\* A variant of ExactMatch: also two candidates of one source.
ExactMatchAnySource(c, d) ==
    Close(c, d, IF LowSignal(c) \/ LowSignal(d) THEN ShortTolerance ELSE Tolerance)

ExactMatch(c, d) ==
    /\ c.source # d.source
    /\ Close(c, d, IF LowSignal(c) \/ LowSignal(d) THEN ShortTolerance ELSE Tolerance)

Named(c) == c.name # Nobody

SpeakersConflict(c, d) == Named(c) /\ Named(d) /\ PlainName(c.name) # PlainName(d.name)

\* The names in a group; a name of which nothing is left does not count.
NamesIn(group) == {PlainName(m.name) : m \in {m \in ToSet(group) : Named(m)}} \ {EmptyName}

\* A variant of Compatible: each pair of candidates is looked at by itself.
CompatibleInPairs(c, group) == TRUE

Compatible(c, group) == Cardinality(NamesIn(Append(group, c))) <= 1

MatchesGroup(c, group) ==
    /\ Compatible(c, group)
    /\ \E i \in DOMAIN group :
          /\ Close(c, group[i], Tolerance)
          /\ ~SpeakersConflict(c, group[i])
          /\ IF c.words = group[i].words THEN ExactMatch(c, group[i])
                                         ELSE FuzzyMatch(c, group[i])

\* A variant of Join: a candidate goes into every group that matches.
JoinEvery(groups, c) ==
    IF \E i \in DOMAIN groups : MatchesGroup(c, groups[i])
    THEN [i \in DOMAIN groups |->
             IF MatchesGroup(c, groups[i]) THEN Append(groups[i], c) ELSE groups[i]]
    ELSE Append(groups, <<c>>)

\* A candidate joins the first group that matches, or opens one.
Join(groups, c) ==
    LET fitting == {i \in DOMAIN groups : MatchesGroup(c, groups[i])} IN
    IF fitting = {} THEN Append(groups, <<c>>)
    ELSE [groups EXCEPT ![Min(fitting)] = Append(@, c)]

\* _candidate_score, in two-hundredths.
Score(c) ==
    2 * c.confidence + c.sure
        + (IF c.owner # Nobody THEN 30 ELSE 0) + (IF c.name # Nobody THEN 10 ELSE 0)

Preferred(c, d) ==
    \/ Score(c) > Score(d)
    \/ Score(c) = Score(d) /\ KeyBefore(CandidateKey(c), CandidateKey(d))

Representative(group) ==
    CHOOSE c \in ToSet(group) : \A d \in ToSet(group) \ {c} : Preferred(c, d)

\* The canonical row and its provenance (_merge_group, persist_canonical_utterances).
Utterance(group) ==
    LET best == Representative(group) IN
    [words |-> best.words, name |-> best.name, source |-> best.source,
     start |-> Min({group[i].start : i \in DOMAIN group}),
     end |-> Max({group[i].end : i \in DOMAIN group}),
     canonical |-> best.id,
     members |-> InKeyOrder(ToSet(group))]

\* The groups of the first candidates of s, for every number of them.
GroupsUpTo(s) ==
    LET upTo[n \in 0..Len(s)] == IF n = 0 THEN <<>> ELSE Join(upTo[n - 1], s[n])
    IN  upTo

MergeCandidates(candidates) ==
    LET groups == GroupsUpTo(InKeyOrder(candidates))[Cardinality(candidates)] IN
    [i \in DOMAIN groups |-> Utterance(groups[i])]
================================================================================
