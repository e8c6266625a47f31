------------------------------- MODULE Attribution -----------------------------
(***************************************************************************)
(* `--resolve-unknown' (transcribe/resolve.rs): the segments without a     *)
(* speaker are numbered and put to a language model, and the lines of its  *)
(* answer, in whatever order and however many, are applied one by one.     *)
(* The model is external: it may answer anything.                          *)
(***************************************************************************)
EXTENDS Naturals, Sequences, FiniteSets, FiniteSetsExt

CONSTANTS
    Names,     \* names the answer may contain, "Unknown" among them
    Folded,    \* Folded[n]: name n in lower case
    Labels,    \* Labels[id]: the name of speaker id
    MaxSegments, MaxLines \* bounds

VARIABLES
    segments, \* the speaker of each, 0 if unknown, and if it has any text
    first,    \* the segments as they were
    prompt,   \* the numbers put to the model, each with its segment
    answer,   \* the lines of the answer that were applied
    pc

vars == <<segments, first, prompt, answer, pc>>

Speakers == DOMAIN Labels
Segment == [who : {0} \cup Speakers, spoken : BOOLEAN]

Init ==
    /\ segments \in UNION {[1..n -> Segment] : n \in 1..MaxSegments}
    /\ first = segments /\ prompt = {} /\ answer = <<>> /\ pc = "start"

\* unknown_indices; a segment's number is its place among them.
Unknown == {i \in DOMAIN first : first[i].who = 0}
Number(i) == Cardinality({j \in Unknown : j <= i})

\* Mutant: segments without text are left out before they are numbered.
NumberedSpoken ==
    LET asked == {i \in Unknown : first[i].spoken}
    IN {<<Cardinality({j \in asked : j <= i}), i>> : i \in asked}

\* The number of a segment counts those without text, which are not put to the model.
Numbered == {<<Number(i), i>> : i \in {j \in Unknown : first[j].spoken}}

Ask ==
    /\ pc = "start"
    /\ prompt' = Numbered
    /\ pc' = IF Numbered = {} THEN "done" ELSE "answered"
    /\ UNCHANGED <<segments, first, answer>>

\* No key in the environment, the request fails, or the answer has not the expected form.
Fail == pc \in {"start", "answered"} /\ answer = <<>> /\ Unknown # {} /\ pc' = "failed"
        /\ UNCHANGED <<segments, first, prompt, answer>>

\* The speaker with that very name, or else one with the name in other letters; any of
\* several.
Named(name) ==
    LET exact == {s \in Speakers : Labels[s] = name}
    IN IF exact # {} THEN exact ELSE {s \in Speakers : Folded[Labels[s]] = Folded[name]}

\* A line `#n: name' gives the segment with that number a speaker of that name.
Gives(n, name, i, s) == name # "Unknown" /\ i \in Unknown /\ Number(i) = n /\ s \in Named(name)

\* The lines come in any order and more than once; the number may be one that was not
\* asked for.
Line(n, name) ==
    /\ pc = "answered" /\ Len(answer) < MaxLines
    /\ answer' = Append(answer, <<n, name>>)
    /\ \/ /\ \A i \in Unknown, s \in Speakers : ~ Gives(n, name, i, s)
          /\ UNCHANGED segments
       \/ \E i \in Unknown, s \in Speakers :
            Gives(n, name, i, s) /\ segments' = [segments EXCEPT ![i].who = s]
    /\ UNCHANGED <<first, prompt, pc>>

Done == pc = "answered" /\ pc' = "done" /\ UNCHANGED <<segments, first, prompt, answer>>

Next == Ask \/ Fail \/ Done \/ \E n \in 0..(MaxSegments + 1), name \in Names : Line(n, name)

Spec == Init /\ [][Next]_vars

-----------------------------------------------------------------------------
(* Properties *)

Answers(n) == {k \in DOMAIN answer : answer[k][1] = n /\ answer[k][2] # "Unknown"
                                      /\ Named(answer[k][2]) # {}}

\* A segment that was put to the model has the speaker of the last line with its number
\* that names one; every other segment that has text keeps its speaker, known or not.
OnlyAsAnswered ==
    \A i \in DOMAIN segments : first[i].spoken =>
        LET given == UNION {Answers(p[1]) : p \in {q \in prompt : q[2] = i}}
        IN IF given = {} THEN segments[i] = first[i]
           ELSE segments[i].who \in Named(answer[Max(given)][2])
=============================================================================
