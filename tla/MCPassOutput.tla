------------------------------ MODULE MCPassOutput -----------------------------
(***************************************************************************)
(* A pass over every set of pending chunks of a small recording: the       *)
(* microphones of two teammates whose chunks overlap, a recorder restarted *)
(* in mid-chunk (overlapping chunks of one source), gaps shorter and       *)
(* longer than the adjacency, and a third microphone of nobody, which also *)
(* recognises a teammate enrolled in Cyrillic letters.  The unit is five   *)
(* seconds; all chunks are equally long, as DEFAULT_SEGMENT_SECONDS makes  *)
(* them.                                                                   *)
(***************************************************************************)
EXTENDS PassOutput

Row(id, source, start) == [id |-> id, source |-> source, start |-> start, end |-> start + 6]

Recorded ==
    {Row(1, 1, 0), Row(2, 1, 6), Row(3, 2, 3), Row(4, 2, 9), Row(5, 1, 13),
     Row(6, 1, 15), Row(7, 2, 23), Row(8, 2, 31), Row(9, 1, 25), Row(10, 3, 9), Row(11, 3, 24)}

Owner(source) == CASE source = 1 -> "dylan" [] source = 2 -> "alex" [] OTHER -> "nobody"

Type(source) == IF source = 3 THEN "room" ELSE "macbook"

Telling == {"ship", "index", "friday", "demo", "not"}

Denying == {"not"}

Ship == <<"we", "ship", "the", "index", "friday">>
ShipNot == <<"not", "ship", "the", "index", "friday">>
ShipPart == <<"ship", "the", "index", "friday">>
Demo == <<"ship", "the", "demo", "and", "index", "on", "friday">>
Sure == <<"yes">>

Unbounded == -1

\* A name in letters other than a to z.
Cyrillic == "cyrillic"

Plain(name) == IF name = Cyrillic THEN "" ELSE name

Said(words, from, to, confidence) ==
    [blank |-> FALSE, words |-> words, from |-> from, to |-> to, confidence |-> confidence]

Silence(from, to) ==
    [blank |-> TRUE, words |-> <<>>, from |-> from, to |-> to, confidence |-> 0]

\* What is said: the plan, denied once, and repeated; a word of assent, and one in other
\* letters; the demo, which the third microphone hears between the two others.
Spoken(chunk) ==
    CASE chunk.id = 1 -> <<Said(ShipPart, 4, 5, 80), Silence(5, 6)>>
      [] chunk.id = 2 -> <<Said(Ship, 0, 1, 90), Said(Sure, 2, 3, 50), Said(<<>>, 4, 5, 30)>>
      [] chunk.id = 3 -> <<Said(ShipNot, 1, 2, 70), Said(Ship, 2, 4, 60)>>
      [] chunk.id = 4 -> <<Said(<<>>, 1, 2, 40), Said(Demo, 5, 6, 90)>>
      [] chunk.id = 5 -> <<Said(Demo, 0, 1, 80), Said(Demo, 5, 6, 40)>>
      [] chunk.id = 7 -> <<Said(Sure, 1, 2, 70), Said(Ship, 3, 4, 50)>>
      [] chunk.id = 9 -> <<Said(Ship, 1, 2, 60)>>
      [] chunk.id = 11 -> <<Said(Ship, 2, 3, 90)>>
      [] chunk.id = 10 -> <<Said(Demo, 4, 5, 95), Said(Demo, 5, 6, 60)>>
      [] OTHER -> <<Said(Sure, 1, 2, 70)>>

Match(speaker, match, scores, from, to) ==
    [speaker |-> speaker, match |-> match, scores |-> scores, from |-> from, to |-> to]

\* Percents and fractions, one rounded up to the limit, one match of nobody enrolled
\* and one without bounds.
Recognised(chunk) ==
    CASE chunk.id = 1 -> {Match("S0", "dylan", [dylan |-> 81], 4, 6)}
      [] chunk.id = 2 -> {Match("S0", "alex", [alex |-> 9900, dylan |-> 400], 0, 1)}
      [] chunk.id = 3 -> {Match("S0", "dylan", [dylan |-> 9500], 1, 2),
                          Match("S1", "alex", [alex |-> 7200], 2, 4)}
      [] chunk.id = 4 -> {Match("S0", "alex", [alex |-> 88], -1, -1)}
      [] chunk.id = 5 -> {Match("S0", "dylan", [dylan |-> 9000], 0, 1),
                          Match("S1", "nobody", [alex |-> 30], 0, 6)}
      [] chunk.id = 9 -> {Match("S0", "dylan", [dylan |-> 85], 1, 2)}
      [] chunk.id = 11 -> {Match("S0", Cyrillic, [cyrillic |-> 7460], 2, 3)}
      [] OTHER -> {}
================================================================================
