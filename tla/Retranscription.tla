---------------------------- MODULE Retranscription ----------------------------
(***************************************************************************)
(* The second pass over a transcript (transcribe/engine.rs): blocks of     *)
(* segments of low confidence are found once, transcribed again, and       *)
(* replaced in place, in a vector whose length changes with every block.   *)
(***************************************************************************)
EXTENDS Naturals, Sequences

CONSTANTS MaxSegments, MaxNew \* bounds

VARIABLES
    low,     \* low[i]: the confidence of segment i is below the threshold
    merged,  \* the transcript: segments by their index, 0 for one of the second pass
    blocks,  \* the blocks that are left, as <<start, end>>: from start to end - 1
    replaced \* history: the segments a better transcription replaced

vars == <<low, merged, blocks, replaced>>

Low(conf, i) == i \in DOMAIN conf /\ conf[i]

\* One segment of high confidence between two of low confidence does not end a block.
Opens(conf, i) == Low(conf, i) /\ ~ Low(conf, i - 1) /\ ~ Low(conf, i - 2)
Closes(conf, i) == Low(conf, i - 1) /\ ~ Low(conf, i) /\ ~ Low(conf, i + 1)

\* find_low_confidence_blocks: from where one opens to where it is closed first.
LowConfidenceBlocks(conf) ==
    {b \in (1..Len(conf)) \X (2..(Len(conf) + 1)) :
        /\ b[1] < b[2] /\ Opens(conf, b[1]) /\ Closes(conf, b[2])
        /\ \A i \in (b[1] + 1)..(b[2] - 1) : ~ Closes(conf, i)}

Init ==
    /\ low \in UNION {[1..n -> BOOLEAN] : n \in 1..MaxSegments}
    /\ merged = [i \in 1..Len(low) |-> i]
    /\ blocks = LowConfidenceBlocks(low)
    /\ replaced = {}

\* Vec::splice; it panics if the range is not within the vector.
Splice(s, from, to, new) ==
    SubSeq(s, 1, from - 1) \o new \o SubSeq(s, to, Len(s))

\* Mutant: the blocks are taken from the front.
IsFirst(b) == \A c \in blocks : b[1] <= c[1]

\* `Process blocks in reverse order so index shifts don't affect earlier blocks'.
IsLast(b) == \A c \in blocks : c[1] <= b[1]

\* The audio of the block is transcribed: n segments, better than the old ones.
Replace(b, n) ==
    /\ IsLast(b)
    /\ merged' = Splice(merged, b[1], b[2], [i \in 1..n |-> 0])
    /\ replaced' = replaced \cup b[1]..(b[2] - 1)
    /\ blocks' = blocks \ {b}
    /\ UNCHANGED low

\* No segment came out, or they are no better.
Keep(b) ==
    /\ IsLast(b) /\ blocks' = blocks \ {b}
    /\ UNCHANGED <<low, merged, replaced>>

Next == \E b \in blocks : Keep(b) \/ \E n \in 1..MaxNew : Replace(b, n)

Spec == Init /\ [][Next]_vars

-----------------------------------------------------------------------------
(* Properties *)

\* At every time the transcript is the first one with exactly the replaced blocks
\* exchanged: no segment outside them is lost, moved or there twice, none inside stays,
\* each block that is left is still where it was found, and what was replaced was, or was
\* next to, a segment of low confidence.
OnlyBlocksReplaced ==
    /\ {merged[j] : j \in DOMAIN merged} \ {0} = (1..Len(low)) \ replaced
    /\ \A j, k \in DOMAIN merged :
         j < k /\ merged[j] # 0 /\ merged[k] # 0 => merged[j] < merged[k]
    /\ \A b \in blocks : \A i \in b[1]..(b[2] - 1) : merged[i] = i
    /\ \A i \in replaced : \E j \in {i - 1, i, i + 1} : Low(low, j)
=============================================================================
