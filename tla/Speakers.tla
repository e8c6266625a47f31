------------------------------- MODULE Speakers -------------------------------
(***************************************************************************)
(* Who speaks when, over the chunks of a recording (transcribe/diarize.rs):*)
(* within a chunk, segments without a voice go to a neighbour; then the    *)
(* speakers of each chunk are matched with those met so far.               *)
(***************************************************************************)
EXTENDS FiniteSets, Naturals, Sequences

CONSTANTS
    Voices,
    Similarity,   \* Similarity[v][w], in tenths; the threshold is 5
    Chunks,       \* number of chunks
    MaxSegments,  \* bound: segments of a chunk
    MaxSpeakers

Locals == 1..MaxSpeakers
Numbers == 1..Chunks

VARIABLES
    segments, \* segments[c]: the speaker of each segment of chunk c; 0: unknown
    voice,    \* voice[c]: the representative voice of each speaker of chunk c
    remap,    \* remap[c]: the global speaker of each of them, as far as known
    global,   \* the voices of the global speakers, in the order they were met
    chunk     \* the chunk that is being worked on; 0: neighbours are being assigned

vars == <<segments, voice, remap, global, chunk>>

Known(c) == {segments[c][i] : i \in DOMAIN segments[c]} \ {0}

Recordings == UNION {[1..n -> 0..MaxSpeakers] : n \in 1..MaxSegments}

Init ==
    /\ segments \in [Numbers -> Recordings]
    /\ voice \in [Numbers -> [Locals -> Voices]]
    /\ remap = [c \in Numbers |-> <<>>]
    /\ global = <<>> /\ chunk = 0

-----------------------------------------------------------------------------
(* Within a chunk *)

\* The speakers next to segment i of s: the one before it, which has just been assigned if
\* it was unknown, and the first one after it that is known.
Nearest(s, assigned, i) ==
    ({assigned[j] : j \in {i - 1} \cap DOMAIN s}
        \cup {s[j] : j \in {k \in DOMAIN s : k > i /\ \A l \in (i + 1)..(k - 1) : s[l] = 0}}) \ {0}

\* reassign_unknown_segments: an unknown segment goes to the nearest in time of the two, if
\* there are any.
Reassigned(s, assigned) ==
    \A i \in DOMAIN s :
        assigned[i] \in IF s[i] # 0 THEN {s[i]}
                        ELSE IF Nearest(s, assigned, i) = {} THEN {0}
                        ELSE Nearest(s, assigned, i)

Reassign ==
    /\ chunk = 0 /\ chunk' = 1
    /\ segments' \in [Numbers -> Recordings]
    /\ \A c \in Numbers : /\ DOMAIN segments'[c] = DOMAIN segments[c]
                          /\ Reassigned(segments[c], segments'[c])
    /\ UNCHANGED <<voice, remap, global>>

-----------------------------------------------------------------------------
(* Across the chunks: merge_cross_chunk_speakers *)

\* The most similar of the global speakers; of equals, or if none is similar at all, any, as
\* the map has no order.
Best(v) ==
    {g \in DOMAIN global : \A h \in DOMAIN global :
        Similarity[v][global[h]] <= 0 \/ Similarity[v][global[h]] <= Similarity[v][global[g]]}

\* Mutant: one speaker too many.
RoomOver == Len(global) <= MaxSpeakers

Room == Len(global) < MaxSpeakers

\* A representative voice finds its global speaker: one that is similar, a new one if
\* there is room, or else the most similar.  The speakers of a chunk come in any order.
Match(s) ==
    /\ chunk \in Numbers /\ s \in Known(chunk) \ DOMAIN remap[chunk]
    /\ LET v == voice[chunk][s]
           similar == {g \in Best(v) : Similarity[v][global[g]] >= 5}
           old == IF similar # {} THEN similar ELSE Best(v)
           new == similar = {} /\ Room
       IN \E g \in IF new THEN {Len(global) + 1} ELSE old :
            /\ remap' = [remap EXCEPT ![chunk] =
                            [t \in DOMAIN remap[chunk] \cup {s} |-> IF t = s THEN g ELSE remap[chunk][t]]]
            /\ global' = IF new THEN Append(global, v) ELSE global
    /\ UNCHANGED <<segments, voice, chunk>>

\* The segments of the chunk get the global speakers.
Apply ==
    /\ chunk \in Numbers /\ Known(chunk) = DOMAIN remap[chunk]
    /\ segments' = [segments EXCEPT ![chunk] =
                        [i \in DOMAIN @ |-> IF @[i] = 0 THEN 0 ELSE remap[chunk][@[i]]]]
    /\ chunk' = chunk + 1
    /\ UNCHANGED <<voice, remap, global>>

Next == Reassign \/ Apply \/ \E s \in Locals : Match(s)

Spec == Init /\ [][Next]_vars

-----------------------------------------------------------------------------
(* Properties *)

Same(v, w) == Similarity[v][w] >= 5
Heard == {h \in Numbers \X Locals : h[2] \in DOMAIN remap[h[1]]}
Persons == {{w \in Voices : Same(voice[h[1]][h[2]], w)} : h \in Heard}

\* Two voices are similar exactly if they are those of one person.
VoicesTell ==
    /\ \A u \in Voices : Same(u, u)
    /\ \A u, v \in Voices : Same(u, v) => Same(v, u)
    /\ \A u, v, w \in Voices : Same(u, v) /\ Same(v, w) => Same(u, w)

\* There are never more speakers than were asked for, a chunk in which anyone is known
\* has no unknown segment left, and as long as there are no more persons than speakers,
\* two speakers of two chunks become one exactly if their voices are similar: whatever the
\* order in which they are matched.
SpeakersTold ==
    /\ chunk > 0 => \A c \in Numbers : Known(c) # {} => \A i \in DOMAIN segments[c] : segments[c][i] # 0
    /\ \A c \in Numbers : c < chunk => Known(c) \subseteq 1..MaxSpeakers
    /\ VoicesTell /\ Cardinality(Persons) <= MaxSpeakers =>
         \A h, k \in Heard :
            (remap[h[1]][h[2]] = remap[k[1]][k[2]]) <=> Same(voice[h[1]][h[2]], voice[k[1]][k[2]])
=============================================================================
