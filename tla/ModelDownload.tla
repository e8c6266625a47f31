----------------------------- MODULE ModelDownload -----------------------------
(***************************************************************************)
(* The cache of speech models (transcribe/model.rs).  A transcription uses *)
(* the cached file or downloads it; all of them write to one temporary     *)
(* file and rename it, each at its own offset of the same contents.  A     *)
(* file that was opened stays the same file when it is renamed.            *)
(***************************************************************************)
EXTENDS Naturals, FiniteSets

CONSTANTS Procs, Size, MaxRuns \* bounds: the chunks of the model, the transcriptions

VARIABLES
    sized,    \* the server tells the length
    cached,   \* the file at the model's path; 0 if none
    temp,     \* the file at the path with `.download'; 0 if none
    data,     \* data[f]: the chunks written to file f
    file, at, \* file[p], at[p]: what p has open, and how far it is
    pc,       \* pc[p]: "idle", "asked" or "downloading"
    overlap, cut, \* history: two have downloaded at a time; one was broken off
    runs

vars == <<sized, cached, temp, data, file, at, pc, overlap, cut, runs>>

Files == 1..(MaxRuns + 1)
Whole == 1..Size
Unused == {f \in Files : f \notin {cached, temp} /\ \A p \in Procs : file[p] # f}

Init ==
    /\ sized \in BOOLEAN
    /\ cached = 0 /\ temp = 0
    /\ data = [f \in Files |-> {}]
    /\ file = [p \in Procs |-> 0] /\ at = [p \in Procs |-> 0]
    /\ pc = [p \in Procs |-> "idle"]
    /\ overlap = FALSE /\ cut = FALSE /\ runs = 0

\* resolve_model: a file that exists is used as it is.
Resolve(p) ==
    /\ pc[p] = "idle" /\ runs < MaxRuns /\ runs' = runs + 1
    /\ pc' = [pc EXCEPT ![p] = IF cached = 0 THEN "asked" ELSE "idle"]
    /\ UNCHANGED <<sized, cached, temp, data, file, at, overlap, cut>>

\* File::create, once the server has answered: it empties a file that is there.
Create(p) ==
    /\ pc[p] = "asked"
    /\ \E f \in IF temp = 0 THEN Unused ELSE {temp} :
          /\ temp = 0 => \A g \in Unused : f <= g
          /\ temp' = f /\ data' = [data EXCEPT ![f] = {}]
          /\ file' = [file EXCEPT ![p] = f]
    /\ at' = [at EXCEPT ![p] = 0]
    /\ pc' = [pc EXCEPT ![p] = "downloading"]
    /\ overlap' = (overlap \/ \E q \in Procs \ {p} : pc[q] = "downloading")
    /\ UNCHANGED <<sized, cached, cut, runs>>

Write(p) ==
    /\ pc[p] = "downloading" /\ at[p] < Size
    /\ at' = [at EXCEPT ![p] = @ + 1]
    /\ data' = [data EXCEPT ![file[p]] = @ \cup {at[p] + 1}]
    /\ UNCHANGED <<sized, cached, temp, file, pc, overlap, cut, runs>>

Leave(p) == pc' = [pc EXCEPT ![p] = "idle"] /\ file' = [file EXCEPT ![p] = 0]

\* Nothing more to read: whatever has the temporary name gets that of the model; another
\* download may have renamed it.
Rename(p) ==
    /\ Leave(p)
    /\ cached' = IF temp = 0 THEN cached ELSE temp
    /\ temp' = 0
    /\ UNCHANGED <<sized, data, at, overlap, runs>>

End(p) == pc[p] = "downloading" /\ at[p] = Size /\ Rename(p) /\ UNCHANGED cut

\* Mutant: that nothing more can be read passes for the end.
CutIsEnd(p) == pc[p] = "downloading" /\ at[p] < Size /\ Rename(p) /\ cut' = TRUE

\* The connection is closed early: an error if the length is known, else the end.
Cut(p) ==
    /\ pc[p] = "downloading" /\ at[p] < Size
    /\ cut' = TRUE
    /\ IF sized THEN Leave(p) /\ UNCHANGED <<sized, cached, temp, data, at, overlap, runs>>
       ELSE Rename(p)

\* The request fails, or the process is killed.
Fail(p) ==
    /\ pc[p] # "idle" /\ Leave(p)
    /\ cut' = (cut \/ pc[p] = "downloading")
    /\ UNCHANGED <<sized, cached, temp, data, at, overlap, runs>>

Next == \E p \in Procs : Resolve(p) \/ Create(p) \/ Write(p) \/ End(p) \/ Cut(p) \/ Fail(p)

Spec == Init /\ [][Next]_vars

-----------------------------------------------------------------------------
(* Properties *)

\* When no download is running, the cached model is whole: after downloads that were
\* broken off, for the rename comes last, and after downloads that overlapped, for each
\* fills what the other has emptied.  Not after both: then a cached file has a gap for good.
ModelIsWhole ==
    \/ cached = 0 \/ ~ sized \/ (overlap /\ cut)
    \/ \E p \in Procs : pc[p] = "downloading"
    \/ data[cached] = Whole
=============================================================================
