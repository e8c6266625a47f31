------------------------- MODULE SocialPublishProofs -------------------------
(***************************************************************************)
(* Machine-checked proofs about SocialPublish, for every set of drafts and *)
(* of processes and every bound.                                           *)
(***************************************************************************)
EXTENDS SocialPublish, TLAPS

\* Each action of Next, in the form every proof by cases below uses.
Step ==
    \/ \E p \in Procs :
           \/ Scan(p) \/ Prepare(p) \/ WriteMarker(p) \/ CreateOk(p)
           \/ CreateUnimplemented(p) \/ Checkpoint(p) \/ WriteFailed(p)
           \/ Reconcile(p) \/ Finish(p) \/ WriteEdit(p) \/ Bail(p) \/ WriteError(p)
    \/ \E p \in Procs, d \in Drafts :
           BeginQueued(p, d) \/ Refuse(p, d) \/ BeginManual(p, d) \/ BeginEdit(p, d)
    \/ \E p \in Procs, b \in BOOLEAN : Comment(p, b) \/ CreateErr(p, b) \/ Crash(p, b)
    \/ \E d \in Drafts : MarkReady(d) \/ Verify(d)

\* The case split is the next-state relation.
LEMMA NextIsStep == Next <=> Step
BY DEF Next, Work, Command, Fault, Step

-----------------------------------------------------------------------------
\* What the updates of a frontmatter do to its two fields.
LEMMA StatusUpdate ==
    ASSUME NEW f \in FileState, NEW s \in DraftStatus
    PROVE  /\ [f EXCEPT !.status = s] \in FileState
           /\ [f EXCEPT !.status = s].status = s
           /\ [f EXCEPT !.status = s].id = f.id
<1> DEFINE g == [f EXCEPT !.status = s]
<1>1. g \in [status : DraftStatus \cup {"torn"}, id : BOOLEAN]
  BY DEF FileState
<1>2. g.status = s
  BY DEF FileState
<1>3. g.id = f.id
  BY DEF FileState
<1> QED
  BY <1>1, <1>2, <1>3 DEF FileState

LEMMA IdUpdate ==
    ASSUME NEW f \in FileState, NEW b \in BOOLEAN
    PROVE  /\ [f EXCEPT !.id = b] \in FileState
           /\ [f EXCEPT !.id = b].status = f.status
           /\ [f EXCEPT !.id = b].id = b
BY DEF FileState

LEMMA FileFacts ==
    /\ Torn \in FileState /\ Torn.status = "torn" /\ Torn.id = FALSE
    /\ \A b \in BOOLEAN, s \in DraftStatus : [status |-> s, id |-> b] \in FileState
BY DEF FileState, Torn

\* The history of overlaps stays a Boolean per draft, and never forgets one.
LEMMA NoteOverlapType ==
    ASSUME NEW d \in Drafts, overlap \in [Drafts -> BOOLEAN], NoteOverlap(d)
    PROVE  /\ overlap' \in [Drafts -> BOOLEAN]
           /\ \A e \in Drafts : overlap[e] => overlap'[e]
<1> DEFINE b == overlap[d] \/ \E q \in Procs : Busy(q, d)
<1>1. b \in BOOLEAN
  OBVIOUS
<1>2. overlap' = [overlap EXCEPT ![d] = b]
  BY DEF NoteOverlap
<1>3. overlap[d] => b
  OBVIOUS
<1> HIDE DEF b
<1> QED
  BY <1>1, <1>2, <1>3

\* The initial state is well typed.
LEMMA TypeInit == Init => TypeOK
<1> USE PublishAssumption DEF TypeOK
<1> SUFFICES ASSUME Init PROVE TypeOK
  OBVIOUS
<1>1. file \in [Drafts -> FileState]
  BY [status : {"draft", "ready"}, id : {FALSE}] \subseteq FileState
     DEF Init, FileState, DraftStatus
<1>2. target \in [Procs -> Drafts]
  <2>1. (CHOOSE d \in Drafts : TRUE) \in Drafts
    OBVIOUS
  <2> QED
    BY <2>1 DEF Init
<1>3. mem \in [Procs -> FileState]
  BY [status |-> "draft", id |-> FALSE] \in FileState DEF Init, FileState, DraftStatus
<1>4. pc \in [Procs -> Pcs] /\ queue \in [Procs -> SUBSET Drafts]
  BY DEF Init, Pcs
<1>5. /\ posts \in [Drafts -> Nat] /\ comments \in [Drafts -> Nat]
      /\ lost \in [Drafts -> Nat] /\ overlap \in [Drafts -> BOOLEAN]
      /\ crashes \in 0..MaxCrashes /\ errors \in 0..MaxErrors /\ edits \in 0..MaxEdits
  BY DEF Init
<1> QED
  BY <1>1, <1>2, <1>3, <1>4, <1>5

\* Every step keeps every variable's type.
LEMMA TypeStep ==
    ASSUME TypeOK, Step
    PROVE  TypeOK'
<1> USE PublishAssumption DEF TypeOK
<1>1. ASSUME NEW p \in Procs, Scan(p) PROVE TypeOK'
  BY <1>1 DEF Scan
<1>2. ASSUME NEW p \in Procs, Prepare(p) PROVE TypeOK'
  BY <1>2 DEF Prepare, SetPc, AfterCreate, Pcs
<1>3. ASSUME NEW p \in Procs, WriteMarker(p) PROVE TypeOK'
  <2>1. mem' \in [Procs -> FileState]
    BY <1>3, StatusUpdate DEF WriteMarker, DraftStatus
  <2>2. file' \in [Drafts -> FileState]
    BY <1>3, <2>1 DEF WriteMarker, Save
  <2> QED
    BY <1>3, <2>1, <2>2 DEF WriteMarker, SetPc, Pcs
<1>4. ASSUME NEW p \in Procs, CreateOk(p) PROVE TypeOK'
  <2>1. mem' \in [Procs -> FileState]
    BY <1>4, IdUpdate DEF CreateOk
  <2>2. posts' \in [Drafts -> Nat]
    BY <1>4 DEF CreateOk
  <2> QED
    BY <1>4, <2>1, <2>2 DEF CreateOk, SetPc, Pcs
<1>5. ASSUME NEW p \in Procs, CreateUnimplemented(p) PROVE TypeOK'
  BY <1>5 DEF CreateUnimplemented, SetPc, Pcs
<1>6. ASSUME NEW p \in Procs, Checkpoint(p) PROVE TypeOK'
  BY <1>6 DEF Checkpoint, SetPc, Save, AfterCreate, Pcs
<1>7. ASSUME NEW p \in Procs, WriteFailed(p) PROVE TypeOK'
  <2>1. file' \in [Drafts -> FileState]
    BY <1>7, StatusUpdate DEF WriteFailed, Save, DraftStatus
  <2> QED
    BY <1>7, <2>1 DEF WriteFailed, SetPc, Pcs
<1>8. ASSUME NEW p \in Procs, Finish(p) PROVE TypeOK'
  <2>1. file' \in [Drafts -> FileState]
    BY <1>8, StatusUpdate DEF Finish, Save, DraftStatus
  <2> QED
    BY <1>8, <2>1 DEF Finish, SetPc, Pcs
<1>9. ASSUME NEW p \in Procs, Reconcile(p) PROVE TypeOK'
  BY <1>9 DEF Reconcile, SetPc, Pcs
<1>10. ASSUME NEW p \in Procs, WriteEdit(p) PROVE TypeOK'
  BY <1>10 DEF WriteEdit, SetPc, Save, Pcs
<1>11. ASSUME NEW p \in Procs, Bail(p) PROVE TypeOK'
  BY <1>11 DEF Bail, SetPc, Pcs
<1>12. ASSUME NEW p \in Procs, WriteError(p) PROVE TypeOK'
  <2>1. file' \in [Drafts -> FileState]
    BY <1>12, FileFacts DEF WriteError, MaybeTorn
  <2> QED
    BY <1>12, <2>1 DEF WriteError, SetPc, Pcs
<1>13. ASSUME NEW p \in Procs, NEW d \in Drafts,
              BeginQueued(p, d) \/ BeginManual(p, d) \/ BeginEdit(p, d)
       PROVE TypeOK'
  <2>1. queue' \in [Procs -> SUBSET Drafts]
    BY <1>13 DEF BeginQueued, BeginManual, BeginEdit
  <2>2. edits' \in 0..MaxEdits
    BY <1>13 DEF BeginQueued, BeginManual, BeginEdit
  <2>3. PICK l \in {"prepare", "edit"} : Open(p, d, l)
    BY <1>13 DEF BeginQueued, BeginManual, BeginEdit
  <2>4. pc' \in [Procs -> Pcs]
    BY <2>3 DEF Open, SetPc, Pcs
  <2>5. overlap' \in [Drafts -> BOOLEAN]
    BY <2>3, NoteOverlapType DEF Open
  <2>6. target' \in [Procs -> Drafts] /\ mem' \in [Procs -> FileState]
    BY <2>3 DEF Open
  <2> QED
    BY <2>1, <2>2, <2>3, <2>4, <2>5, <2>6 DEF Open
<1>14. ASSUME NEW p \in Procs, NEW d \in Drafts, Refuse(p, d) PROVE TypeOK'
  BY <1>14 DEF Refuse
<1>15. ASSUME NEW p \in Procs, NEW b \in BOOLEAN, Comment(p, b) PROVE TypeOK'
  BY <1>15 DEF Comment, SetPc, Pcs
<1>16. ASSUME NEW p \in Procs, NEW b \in BOOLEAN, CreateErr(p, b) PROVE TypeOK'
  BY <1>16 DEF CreateErr, SetPc, Pcs
<1>17. ASSUME NEW p \in Procs, NEW b \in BOOLEAN, Crash(p, b) PROVE TypeOK'
  <2>1. file' \in [Drafts -> FileState]
    BY <1>17, FileFacts DEF Crash, MaybeTorn
  <2>2. posts' \in [Drafts -> Nat] /\ queue' \in [Procs -> SUBSET Drafts]
    BY <1>17 DEF Crash
  <2>3. crashes' \in 0..MaxCrashes /\ pc' \in [Procs -> Pcs]
    BY <1>17 DEF Crash, SetPc, Pcs
  <2> QED
    BY <1>17, <2>1, <2>2, <2>3 DEF Crash
<1>18. ASSUME NEW d \in Drafts, MarkReady(d) \/ Verify(d) PROVE TypeOK'
  <2>1. PICK f \in FileState : Operator(d, f)
    BY <1>18, FileFacts, StatusUpdate DEF MarkReady, Verify, DraftStatus
  <2>2. overlap' \in [Drafts -> BOOLEAN]
    BY <2>1, NoteOverlapType DEF Operator
  <2>3. file' \in [Drafts -> FileState] /\ edits' \in 0..MaxEdits
    BY <2>1 DEF Operator
  <2> QED
    BY <2>1, <2>2, <2>3 DEF Operator
<1> QED
  BY <1>1, <1>2, <1>3, <1>4, <1>5, <1>6, <1>7, <1>8, <1>9, <1>10, <1>11, <1>12,
     <1>13, <1>14, <1>15, <1>16, <1>17, <1>18 DEF Step

\* Every variable keeps its type: in particular no step invents a status the
\* parser of draft.rs rejects, and no counter leaves its bound.
THEOREM TypeCorrect == Spec => []TypeOK
<1>1. TypeOK /\ [Next]_vars => TypeOK'
  BY TypeStep, NextIsStep DEF vars, TypeOK
<1> QED
  BY <1>1, TypeInit, PTL DEF Spec

-----------------------------------------------------------------------------
(* The inductive invariant *)

HasPost == {"checkpoint", "reconcile", "comment", "finish"}

\* Whatever the interleaving: reported errors never outnumber the posts, and no
\* copy of a frontmatter, on disk or in a process, claims a post that does not
\* exist.
Truthful ==
    /\ \A d \in Drafts : /\ lost[d] <= posts[d]
                         /\ file[d].id => posts[d] > 0
                         /\ file[d].status = "published" => file[d].id
    /\ \A p \in Procs : pc[p] # "idle" =>
           /\ mem[p].id => posts[target[p]] > 0
           /\ mem[p].status = "published" => mem[p].id
           /\ pc[p] \in HasPost => mem[p].id

\* What a process that is alone on draft d knows at each of its steps: its copy
\* is the file, but for the post_id it is about to write, and whether the post
\* of this attempt exists.
AloneAt(p, d) ==
    LET marked == file[d].status = "publishing" /\ ~ file[d].id
    IN
    /\ pc[p] \in {"prepare", "edit"} => mem[p] = file[d] /\ file[d].status # "torn"
    /\ pc[p] = "prepare" => file[d].status \in {"draft", "ready"} \/ file[d].id
    /\ pc[p] = "prepare" => file[d].status \in {"draft", "ready", "publishing"}
    /\ pc[p] = "edit" => file[d].id
    /\ pc[p] = "marker" => mem[p] = file[d] /\ file[d].status \in {"draft", "ready"}
    /\ pc[p] \in {"create", "fail"} => marked /\ mem[p] = file[d] /\ posts[d] = lost[d]
    /\ pc[p] = "checkpoint" => /\ marked /\ posts[d] = lost[d] + 1
                               /\ mem[p].status = "publishing" /\ mem[p].id
    /\ pc[p] \in {"reconcile", "comment", "finish"} =>
           file[d].status = "publishing" /\ file[d].id

\* While the actors on d take turns, at most one of them is at work, and an
\* attempt that left no marker and no post_id left no post either.
TakesTurns(d) ==
    /\ \A p, q \in Procs : Busy(p, d) /\ Busy(q, d) => p = q
    /\ \A p \in Procs : Busy(p, d) => AloneAt(p, d)
    /\ posts[d] <= 1 + lost[d]
    /\ file[d].status \in {"draft", "ready", "failed"} => ~ file[d].id /\ posts[d] = lost[d]

Turns == \A d \in Drafts : ~ overlap[d] => TakesTurns(d)

-----------------------------------------------------------------------------
\* What the starting actions have in common.
LEMMA OpenCases ==
    ASSUME NEW p \in Procs, NEW d \in Drafts,
           BeginQueued(p, d) \/ BeginManual(p, d) \/ BeginEdit(p, d)
    PROVE  \/ Open(p, d, "prepare") /\ CanPublish(file[d], d \in Scheduled)
           \/ Open(p, d, "edit") /\ file[d].id /\ file[d].status # "torn"
BY DEF BeginQueued, BeginManual, BeginEdit

\* What the operator's edits have in common.
LEMMA OperatorCases ==
    ASSUME TypeOK, NEW d \in Drafts, MarkReady(d) \/ Verify(d)
    PROVE  \E f \in FileState :
              /\ Operator(d, f)
              /\ \/ file[d].status \in {"draft", "failed"} /\ f.status = "ready" /\ f.id = file[d].id
                 \/ posts[d] > 0 /\ f.status = "published" /\ f.id
                 \/ ~ (posts[d] > 0) /\ f.status = "ready" /\ ~ f.id
<1>1. CASE MarkReady(d)
  <2> DEFINE f == [file[d] EXCEPT !.status = "ready"]
  <2>1. f \in FileState /\ f.status = "ready" /\ f.id = file[d].id
    BY StatusUpdate DEF TypeOK, DraftStatus
  <2> QED
    BY <1>1, <2>1 DEF MarkReady
<1>2. CASE Verify(d)
  <2>1. CASE posts[d] > 0
    <3> DEFINE f == [status |-> "published", id |-> TRUE]
    <3>1. f \in FileState /\ f.status = "published" /\ f.id
      BY DEF FileState, DraftStatus
    <3> QED
      BY <1>2, <2>1, <3>1 DEF Verify
  <2>2. CASE ~ (posts[d] > 0)
    <3> DEFINE f == [status |-> "ready", id |-> FALSE]
    <3>1. f \in FileState /\ f.status = "ready" /\ ~ f.id
      BY DEF FileState, DraftStatus
    <3> QED
      BY <1>2, <2>2, <3>1 DEF Verify
  <2> QED
    BY <2>1, <2>2
<1> QED
  BY <1>1, <1>2

\* Truthful holds initially and no step breaks it.
LEMMA TruthfulInit == Init => Truthful
<1> SUFFICES ASSUME Init PROVE Truthful
  OBVIOUS
<1>1. \A d \in Drafts : ~ file[d].id /\ file[d].status # "published"
  BY DEF Init
<1>2. \A d \in Drafts : lost[d] = 0 /\ posts[d] = 0
  BY DEF Init
<1>3. \A p \in Procs : pc[p] = "idle"
  BY DEF Init
<1> QED
  BY <1>1, <1>2, <1>3 DEF Truthful

LEMMA TruthfulStep ==
    ASSUME TypeOK, TypeOK', Truthful, Step
    PROVE  Truthful'
<1> USE DEF TypeOK, Truthful, HasPost
<1>1. ASSUME NEW p \in Procs, Scan(p) PROVE Truthful'
  BY <1>1 DEF Scan
<1>2. ASSUME NEW p \in Procs, Prepare(p) PROVE Truthful'
  BY <1>2 DEF Prepare, SetPc, AfterCreate, Pcs
<1>3. ASSUME NEW p \in Procs, WriteMarker(p) PROVE Truthful'
  BY <1>3 DEF WriteMarker, SetPc, Save, Pcs
<1>4. ASSUME NEW p \in Procs, CreateOk(p) PROVE Truthful'
  BY <1>4 DEF CreateOk, SetPc, Pcs
<1>5. ASSUME NEW p \in Procs, CreateUnimplemented(p) PROVE Truthful'
  BY <1>5 DEF CreateUnimplemented, SetPc
<1>6. ASSUME NEW p \in Procs, Checkpoint(p) PROVE Truthful'
  BY <1>6 DEF Checkpoint, SetPc, Save, AfterCreate
<1>7. ASSUME NEW p \in Procs, WriteFailed(p) PROVE Truthful'
  BY <1>7 DEF WriteFailed, SetPc, Save
<1>8. ASSUME NEW p \in Procs, Reconcile(p) PROVE Truthful'
  BY <1>8 DEF Reconcile, SetPc
<1>9. ASSUME NEW p \in Procs, Finish(p) PROVE Truthful'
  BY <1>9 DEF Finish, SetPc, Save
<1>10. ASSUME NEW p \in Procs, WriteEdit(p) PROVE Truthful'
  BY <1>10 DEF WriteEdit, SetPc, Save
<1>11. ASSUME NEW p \in Procs, Bail(p) PROVE Truthful'
  BY <1>11 DEF Bail, SetPc
<1>12. ASSUME NEW p \in Procs, WriteError(p) PROVE Truthful'
  BY <1>12, FileFacts DEF WriteError, MaybeTorn, SetPc
<1>13. ASSUME NEW p \in Procs, NEW d \in Drafts,
              BeginQueued(p, d) \/ BeginManual(p, d) \/ BeginEdit(p, d)
       PROVE Truthful'
  BY <1>13, OpenCases DEF Open, SetPc
<1>14. ASSUME NEW p \in Procs, NEW d \in Drafts, Refuse(p, d) PROVE Truthful'
  BY <1>14 DEF Refuse
<1>15. ASSUME NEW p \in Procs, NEW b \in BOOLEAN, Comment(p, b) PROVE Truthful'
  BY <1>15 DEF Comment, SetPc
<1>16. ASSUME NEW p \in Procs, NEW b \in BOOLEAN, CreateErr(p, b) PROVE Truthful'
  BY <1>16 DEF CreateErr, SetPc
<1>17. ASSUME NEW p \in Procs, NEW b \in BOOLEAN, Crash(p, b) PROVE Truthful'
  BY <1>17, FileFacts DEF Crash, MaybeTorn, SetPc
<1>18. ASSUME NEW d \in Drafts, MarkReady(d) \/ Verify(d) PROVE Truthful'
  BY <1>18, OperatorCases DEF Operator
<1> QED
  BY <1>1, <1>2, <1>3, <1>4, <1>5, <1>6, <1>7, <1>8, <1>9, <1>10, <1>11, <1>12,
     <1>13, <1>14, <1>15, <1>16, <1>17, <1>18 DEF Step

-----------------------------------------------------------------------------
\* The frame of a step of process p on the draft it works on.
Local(p) ==
    /\ pc[p] # "idle"
    /\ target' = target /\ overlap' = overlap
    /\ \A q \in Procs : q # p => pc'[q] = pc[q] /\ mem'[q] = mem[q]
    /\ \A d \in Drafts : d # target[p] =>
           file'[d] = file[d] /\ posts'[d] = posts[d] /\ lost'[d] = lost[d]

\* What p knows of draft d while it is the only one at work there.
Known(p, d) ==
    /\ pc[p] # "idle" => AloneAt(p, d)
    /\ posts[d] <= 1 + lost[d]
    /\ file[d].status \in {"draft", "ready", "failed"} => ~ file[d].id /\ posts[d] = lost[d]

\* It is enough to look at the draft and the process of a local step.
LEMMA LocalStep ==
    ASSUME TypeOK, Turns, NEW p \in Procs, Local(p),
           NEW e \in Drafts, e = target[p],
           ~ overlap[e] /\ TakesTurns(e) => Known(p, e)'
    PROVE  Turns'
<1> SUFFICES ASSUME NEW d \in Drafts, ~ overlap'[d] PROVE TakesTurns(d)'
  BY DEF Turns
<1>1. ~ overlap[d] /\ TakesTurns(d) /\ target[p] \in Drafts
  BY DEF Local, Turns, TypeOK
<1>2. CASE d # target[p]
  <2>1. file'[d] = file[d] /\ posts'[d] = posts[d] /\ lost'[d] = lost[d]
    BY <1>2 DEF Local
  <2>2. \A q \in Procs : Busy(q, d)' => /\ Busy(q, d) /\ q # p
                                       /\ pc'[q] = pc[q] /\ mem'[q] = mem[q]
    BY <1>2 DEF Local, Busy
  <2>3. \A q \in Procs : Busy(q, d)' => AloneAt(q, d)'
    BY <1>1, <2>1, <2>2 DEF AloneAt, TakesTurns
  <2> QED
    BY <1>1, <2>1, <2>2, <2>3 DEF TakesTurns
<1>3. CASE d = target[p]
  <2>1. \A q \in Procs : Busy(q, d)' => q = p
    BY <1>1, <1>3 DEF Local, Busy, TakesTurns
  <2>2. Known(p, d)'
    BY <1>1, <1>3
  <2>3. \A q \in Procs : Busy(q, d)' => AloneAt(q, d)'
    BY <2>1, <2>2 DEF Busy, Known
  <2> QED
    BY <1>1, <1>3, <2>1, <2>2, <2>3 DEF TakesTurns, Known
<1> QED
  BY <1>2, <1>3

LEMMA TurnsInit == Init => Turns
<1> SUFFICES ASSUME Init PROVE Turns
  OBVIOUS
<1>1. \A d \in Drafts : ~ file[d].id /\ file[d].status # "published"
  BY DEF Init
<1>2. \A d \in Drafts : lost[d] = 0 /\ posts[d] = 0
  BY DEF Init
<1>3. \A p \in Procs, d \in Drafts : ~ Busy(p, d)
  BY DEF Init, Busy
<1> QED
  BY <1>1, <1>2, <1>3 DEF Turns, TakesTurns

\* Starting on a draft: either nobody else is at work on it, or the overlap is noted.
LEMMA TurnsOpen ==
    ASSUME TypeOK, TypeOK', Truthful, Turns, NEW p \in Procs, NEW d \in Drafts,
           BeginQueued(p, d) \/ BeginManual(p, d) \/ BeginEdit(p, d)
    PROVE  Turns'
<1>1. PICK l \in {"prepare", "edit"} :
         /\ Open(p, d, l)
         /\ l = "prepare" => CanPublish(file[d], d \in Scheduled)
         /\ l = "edit" => file[d].id /\ file[d].status # "torn"
  BY OpenCases
<1>2. /\ pc' = [pc EXCEPT ![p] = l] /\ target' = [target EXCEPT ![p] = d]
      /\ mem' = [mem EXCEPT ![p] = file[d]]
      /\ file' = file /\ posts' = posts /\ lost' = lost /\ pc[p] = "idle"
  BY <1>1 DEF Open, SetPc
<1> SUFFICES ASSUME NEW e \in Drafts, ~ overlap'[e] PROVE TakesTurns(e)'
  BY DEF Turns
<1>3. ~ overlap[e] /\ TakesTurns(e)
  BY <1>1, NoteOverlapType DEF Open, Turns, TypeOK
<1>4. \A q \in Procs : q # p => /\ Busy(q, e)' <=> Busy(q, e)
                                /\ pc'[q] = pc[q] /\ mem'[q] = mem[q]
  BY <1>2 DEF Busy, TypeOK
<1>5. CASE e # d
  <2>1. ~ Busy(p, e)'
    BY <1>2, <1>5 DEF Busy, TypeOK
  <2>2. \A q \in Procs : Busy(q, e)' => AloneAt(q, e)'
    BY <1>2, <1>3, <1>4, <2>1 DEF TakesTurns, AloneAt
  <2> QED
    BY <1>2, <1>3, <1>4, <2>1, <2>2 DEF TakesTurns
<1>6. CASE e = d
  <2>1. \A q \in Procs : ~ Busy(q, d)
    BY <1>1, <1>6 DEF Open, NoteOverlap, TypeOK
  <2>2. AloneAt(p, d)'
    BY <1>1, <1>2, <1>3, <1>6 DEF AloneAt, CanPublish, TypeOK
  <2>3. \A q \in Procs : Busy(q, d)' => q = p
    BY <1>4, <1>6, <2>1
  <2> QED
    BY <1>2, <1>3, <1>6, <2>2, <2>3 DEF TakesTurns
<1> QED
  BY <1>5, <1>6

\* The operator either finds the draft unattended, or the overlap is noted.
LEMMA TurnsOperator ==
    ASSUME TypeOK, Truthful, Turns, NEW d \in Drafts, MarkReady(d) \/ Verify(d)
    PROVE  Turns'
<1>1. PICK f \in FileState :
         /\ Operator(d, f)
         /\ \/ file[d].status \in {"draft", "failed"} /\ f.status = "ready" /\ f.id = file[d].id
            \/ posts[d] > 0 /\ f.status = "published" /\ f.id
            \/ ~ (posts[d] > 0) /\ f.status = "ready" /\ ~ f.id
  BY OperatorCases
<1> SUFFICES ASSUME NEW e \in Drafts, ~ overlap'[e] PROVE TakesTurns(e)'
  BY DEF Turns
<1>2. ~ overlap[e] /\ TakesTurns(e)
  BY <1>1, NoteOverlapType DEF Operator, Turns, TypeOK
<1>3. /\ \A q \in Procs : Busy(q, e)' <=> Busy(q, e)
      /\ pc' = pc /\ mem' = mem /\ posts' = posts /\ lost' = lost
  BY <1>1 DEF Operator, Busy
<1>4. CASE e # d
  <2>1. file'[e] = file[e]
    BY <1>1, <1>4 DEF Operator, TypeOK
  <2>2. \A q \in Procs : Busy(q, e)' => AloneAt(q, e)'
    BY <1>2, <1>3, <2>1 DEF TakesTurns, AloneAt
  <2> QED
    BY <1>2, <1>3, <2>1, <2>2 DEF TakesTurns
<1>5. CASE e = d
  <2>1. \A q \in Procs : ~ Busy(q, d)
    BY <1>1, <1>5 DEF Operator, NoteOverlap, TypeOK
  <2>2. file'[d] = f
    BY <1>1 DEF Operator, TypeOK
  <2>3. lost[d] <= posts[d] /\ lost[d] \in Nat /\ posts[d] \in Nat
    BY DEF Truthful, TypeOK
  <2> QED
    BY <1>1, <1>2, <1>3, <1>5, <2>1, <2>2, <2>3 DEF TakesTurns
<1> QED
  BY <1>4, <1>5

\* The steps of a process on its own draft, one by one.
LEMMA TurnsLocal ==
    ASSUME TypeOK, TypeOK', Truthful, Turns, NEW p \in Procs,
           \/ Prepare(p) \/ WriteMarker(p) \/ CreateOk(p) \/ CreateUnimplemented(p)
           \/ Checkpoint(p) \/ WriteFailed(p) \/ Reconcile(p) \/ Finish(p)
           \/ WriteEdit(p) \/ Bail(p) \/ WriteError(p)
           \/ \E b \in BOOLEAN : Comment(p, b) \/ CreateErr(p, b) \/ Crash(p, b)
    PROVE  Turns'
<1> DEFINE d == target[p]
<1>0. d \in Drafts /\ pc[p] \in Pcs
  BY DEF TypeOK
<1>1. Local(p)
  <2> USE DEF Local, TypeOK, SetPc, Save
  <2>1. CASE Prepare(p) \/ WriteMarker(p) \/ CreateOk(p) \/ CreateUnimplemented(p)
    BY <2>1 DEF Prepare, WriteMarker, CreateOk, CreateUnimplemented
  <2>2. CASE Checkpoint(p) \/ WriteFailed(p) \/ Reconcile(p) \/ Finish(p) \/ WriteEdit(p)
    BY <2>2 DEF Checkpoint, WriteFailed, Reconcile, Finish, WriteEdit
  <2>3. CASE Bail(p)
    BY <2>3 DEF Bail
  <2>4. CASE WriteError(p)
    BY <2>4 DEF WriteError, MaybeTorn, Writing
  <2>5. ASSUME NEW b \in BOOLEAN, Comment(p, b) PROVE Local(p)
    BY <2>5 DEF Comment
  <2>6. ASSUME NEW b \in BOOLEAN, CreateErr(p, b) PROVE Local(p)
    BY <2>6 DEF CreateErr
  <2>7. ASSUME NEW b \in BOOLEAN, Crash(p, b) PROVE Local(p)
    BY <2>7 DEF Crash, MaybeTorn
  <2> QED
    BY <2>1, <2>2, <2>3, <2>4, <2>5, <2>6, <2>7
<1>2. ASSUME NEW e \in Drafts, e = target[p], ~ overlap[e], TakesTurns(e)
      PROVE  Known(p, e)'
  <2>1. Known(p, e) /\ AloneAt(p, e) /\ pc[p] # "idle"
    BY <1>1, <1>2 DEF TakesTurns, Busy, Known, Local
  <2>2. /\ file[e] \in FileState /\ mem[p] \in FileState
        /\ posts[e] \in Nat /\ lost[e] \in Nat
    BY DEF TypeOK
  <2> USE DEF TypeOK, Known, AloneAt, SetPc, Save
  <2>3. CASE Prepare(p)
    BY <1>2, <2>1, <2>2, <2>3 DEF Prepare, AfterCreate
  <2>4. CASE WriteMarker(p)
    <3> DEFINE g == [mem[p] EXCEPT !.status = "publishing"]
    <3>1. g.status = "publishing" /\ g.id = mem[p].id
      BY <2>2, StatusUpdate DEF DraftStatus
    <3>2. mem'[p] = g
      BY <2>4 DEF WriteMarker
    <3>3. file'[e] = g
      BY <1>2, <2>4, <3>2 DEF WriteMarker
    <3>4. pc'[p] = "create" /\ posts' = posts /\ lost' = lost
      BY <2>4 DEF WriteMarker
    <3>5. ~ file[e].id /\ posts[e] = lost[e] /\ mem[p] = file[e]
      BY <2>1, <2>4 DEF WriteMarker
    <3> HIDE DEF g
    <3> QED
      BY <2>2, <3>1, <3>2, <3>3, <3>4, <3>5
  <2>5. CASE CreateOk(p)
    BY <1>2, <2>1, <2>2, <2>5 DEF CreateOk
  <2>6. CASE CreateUnimplemented(p)
    BY <1>2, <2>1, <2>2, <2>6 DEF CreateUnimplemented
  <2>7. CASE Checkpoint(p)
    BY <1>2, <2>1, <2>2, <2>7 DEF Checkpoint, AfterCreate
  <2>8. CASE WriteFailed(p)
    BY <1>2, <2>1, <2>2, <2>8, StatusUpdate DEF WriteFailed, DraftStatus
  <2>9. CASE Reconcile(p)
    BY <1>2, <2>1, <2>2, <2>9 DEF Reconcile
  <2>10. CASE Finish(p)
    BY <1>2, <2>1, <2>2, <2>10, StatusUpdate DEF Finish, DraftStatus
  <2>11. CASE WriteEdit(p)
    BY <1>2, <2>1, <2>2, <2>11 DEF WriteEdit
  <2>12. CASE Bail(p)
    BY <1>2, <2>1, <2>2, <2>12 DEF Bail
  <2>13. CASE WriteError(p)
    BY <1>2, <2>1, <2>2, <2>13, FileFacts DEF WriteError, MaybeTorn
  <2>14. ASSUME NEW b \in BOOLEAN, Comment(p, b) PROVE Known(p, e)'
    BY <1>2, <2>1, <2>2, <2>14 DEF Comment
  <2>15. ASSUME NEW b \in BOOLEAN, CreateErr(p, b) PROVE Known(p, e)'
    BY <1>2, <2>1, <2>2, <2>15 DEF CreateErr
  <2>16. ASSUME NEW b \in BOOLEAN, Crash(p, b) PROVE Known(p, e)'
    BY <1>2, <2>1, <2>2, <2>16, FileFacts DEF Crash, MaybeTorn
  <2> QED
    BY <2>3, <2>4, <2>5, <2>6, <2>7, <2>8, <2>9, <2>10, <2>11, <2>12, <2>13, <2>14,
       <2>15, <2>16
<1> QED
  BY <1>0, <1>1, <1>2, LocalStep

\* Scanning and refusing touch the queue only.
LEMMA TurnsIdle ==
    ASSUME Turns, NEW p \in Procs, Scan(p) \/ \E d \in Drafts : Refuse(p, d)
    PROVE  Turns'
BY DEF Scan, Refuse, Turns, TakesTurns, AloneAt, Busy

-----------------------------------------------------------------------------
(* The theorems *)

\* The inductive invariant holds in every reachable state.
IInv == TypeOK /\ Truthful /\ Turns

THEOREM Inductive == Spec => []IInv
<1>1. Init => IInv
  BY TypeInit, TruthfulInit, TurnsInit DEF IInv
<1>2. IInv /\ [Next]_vars => IInv'
  <2>1. ASSUME IInv, Step PROVE IInv'
    <3>1. TypeOK' /\ Truthful'
      BY <2>1, TypeStep, TruthfulStep DEF IInv
    <3>2. Turns'
      BY <2>1, <3>1, TurnsLocal, TurnsIdle, TurnsOpen, TurnsOperator DEF IInv, Step
    <3> QED
      BY <3>1, <3>2 DEF IInv
  <2>2. ASSUME IInv, UNCHANGED vars PROVE IInv'
    BY <2>2 DEF IInv, vars, TypeOK, Truthful, Turns, TakesTurns, AloneAt, Busy
  <2> QED
    BY <2>1, <2>2, NextIsStep
<1> QED
  BY <1>1, <1>2, PTL DEF Spec

\* While the actors on a draft take turns, it is posted at most once, not counting
\* the posts whose creation was reported as an error: the marker written before the
\* create call and the post_id written after it suffice, whatever crashes.
THEOREM PostsAtMostOnce == Spec => []AtMostOnePost
<1>1. IInv => AtMostOnePost
  BY DEF IInv, Turns, TakesTurns, AtMostOnePost
<1> QED
  BY <1>1, Inductive, PTL

\* While the actors take turns, a post created without an error is never forgotten:
\* its draft has the id, or carries the marker, or its file is cut.
THEOREM PostsAreNotForgotten == Spec => []NoForgottenPost
<1>1. IInv => NoForgottenPost
  <2> SUFFICES ASSUME IInv, NEW d \in Drafts, ~ overlap[d], posts[d] > lost[d]
               PROVE  file[d].id \/ file[d].status \in {"publishing", "torn"}
    BY DEF NoForgottenPost
  <2>1. file[d].status \in DraftStatus \cup {"torn"} /\ posts[d] \in Nat /\ lost[d] \in Nat
    BY DEF IInv, TypeOK, FileState
  <2> QED
    BY <2>1 DEF IInv, Turns, TakesTurns, Truthful, DraftStatus
<1> QED
  BY <1>1, Inductive, PTL

\* However the actors interleave, the file never claims a post that does not exist.
THEOREM FileTellsTheTruth == Spec => []ClaimsAreTrue
<1>1. IInv => ClaimsAreTrue
  BY DEF IInv, Truthful, ClaimsAreTrue
<1> QED
  BY <1>1, Inductive, PTL

\* A process at work on d, alone there, knows what AloneAt says.
LEMMA AloneKnows ==
    ASSUME IInv, NEW p \in Procs, NEW d \in Drafts, ~ overlap[d],
           pc[p] # "idle", target[p] = d
    PROVE  AloneAt(p, d)
BY DEF IInv, Turns, TakesTurns, Busy

\* While the actors take turns, the platform creates a post for d only when the
\* marker is on disk and no post_id is.
THEOREM MarkerComesFirst == Spec => MarkerBeforeCreate
<1>1. ASSUME IInv, Step, NEW d \in Drafts, posts'[d] > posts[d], ~ overlap[d]
      PROVE  file[d].status = "publishing" /\ ~ file[d].id
  <2>1. posts' # posts
    BY <1>1 DEF IInv, TypeOK
  <2>2. \E p \in Procs : pc[p] = "create" /\ target[p] = d
    <3>1. PICK p \in Procs : CreateOk(p) \/ \E b \in BOOLEAN : CreateErr(p, b) \/ Crash(p, b)
      BY <1>1, <2>1 DEF Step, Scan, Prepare, WriteMarker, CreateUnimplemented, Checkpoint,
         WriteFailed, Reconcile, Finish, WriteEdit, Bail, WriteError, Comment,
         BeginQueued, BeginManual, BeginEdit, Open, Refuse, MarkReady, Verify, Operator
    <3>2. target[p] = d
      BY <1>1, <3>1 DEF CreateOk, CreateErr, Crash, IInv, TypeOK
    <3>3. CASE pc[p] = "create"
      BY <3>2, <3>3
    <3>4. CASE pc[p] # "create"
      <4>1. PICK b \in BOOLEAN : Crash(p, b) /\ ~ b
        BY <3>1, <3>4 DEF CreateOk, CreateErr, Crash
      <4>2. posts' = [posts EXCEPT ![target[p]] = posts[target[p]]]
        BY <4>1 DEF Crash
      <4> QED
        BY <1>1, <4>2 DEF IInv, TypeOK
    <3> QED
      BY <3>3, <3>4
  <2> QED
    BY <1>1, <2>2, AloneKnows DEF AloneAt
<1>2. IInv /\ [Next]_vars =>
        [\A d \in Drafts : posts'[d] > posts[d] /\ ~ overlap[d] =>
            file[d].status = "publishing" /\ ~ file[d].id]_vars
  BY <1>1, NextIsStep
<1> QED
  BY <1>2, Inductive, PTL DEF Spec, MarkerBeforeCreate

\* While the actors take turns, a published draft stays published, unless the
\* write-back of an edit is cut.
THEOREM PublishedStays == Spec => PublishedIsFinal
<1>1. ASSUME IInv, Step, NEW d \in Drafts, file[d].status = "published", ~ overlap[d]
      PROVE  file'[d].status \in {"published", "torn"}
  <2>1. \A p \in Procs : pc[p] # "idle" /\ target[p] = d => pc[p] = "edit" /\ mem[p] = file[d]
    <3> SUFFICES ASSUME NEW p \in Procs, pc[p] # "idle", target[p] = d
                 PROVE  pc[p] = "edit" /\ mem[p] = file[d]
      OBVIOUS
    <3>1. AloneAt(p, d) /\ pc[p] \in Pcs
      BY <1>1, AloneKnows DEF IInv, TypeOK
    <3> QED
      BY <1>1, <3>1 DEF AloneAt, Pcs
  <2>2. ASSUME NEW p \in Procs,
               WriteMarker(p) \/ Checkpoint(p) \/ WriteFailed(p) \/ Finish(p)
        PROVE  file'[d].status \in {"published", "torn"}
    <3>1. target[p] # d
      BY <2>1, <2>2 DEF WriteMarker, Checkpoint, WriteFailed, Finish
    <3> QED
      BY <1>1, <2>2, <3>1 DEF WriteMarker, Checkpoint, WriteFailed, Finish, Save, IInv, TypeOK
  <2>3. ASSUME NEW p \in Procs, WriteEdit(p) PROVE file'[d].status \in {"published", "torn"}
    BY <1>1, <2>1, <2>3 DEF WriteEdit, Save, IInv, TypeOK
  <2>4. ASSUME NEW p \in Procs, WriteError(p) \/ \E b \in BOOLEAN : Crash(p, b)
        PROVE  file'[d].status \in {"published", "torn"}
    <3>1. \/ file' = file
          \/ file' = [file EXCEPT ![target[p]] = Torn]
      BY <2>4 DEF WriteError, Crash, MaybeTorn
    <3> QED
      BY <1>1, <3>1, FileFacts DEF IInv, TypeOK
  <2>5. ASSUME NEW e \in Drafts, MarkReady(e) \/ Verify(e)
        PROVE  file'[d].status \in {"published", "torn"}
    <3>1. e # d
      BY <1>1, <2>5 DEF MarkReady, Verify
    <3> QED
      BY <1>1, <2>5, <3>1 DEF MarkReady, Verify, Operator, IInv, TypeOK
  <2> QED
    BY <1>1, <2>2, <2>3, <2>4, <2>5 DEF Step, Scan, Prepare, CreateOk, CreateUnimplemented,
       Reconcile, Bail, BeginQueued, BeginManual, BeginEdit, Open, Refuse, Comment, CreateErr
<1>2. IInv /\ [Next]_vars =>
        [\A d \in Drafts : file[d].status = "published" /\ ~ overlap[d] =>
            file'[d].status \in {"published", "torn"}]_vars
  BY <1>1, NextIsStep
<1> QED
  BY <1>2, Inductive, PTL DEF Spec, PublishedIsFinal
-----------------------------------------------------------------------------
(* What an interrupted attempt leaves behind *)

\* A process has asked for the first comment of d and not yet written the end.
Finishing(d) == \E p \in Procs : Busy(p, d) /\ pc[p] = "finish"

\* Until the end of an attempt is written, every comment beside the one of that
\* attempt has been paid for by a crash or a failed write.
Paid(d) ==
    /\ comments[d] <= 1 + crashes
    /\ \/ file[d].status \in {"published", "torn"}
       \/ Finishing(d)
       \/ comments[d] <= crashes

Remarks == \A d \in Drafts : ~ overlap[d] => Paid(d)

Leftover == Remarks /\ MarkerMeansInterrupted

\* The draft a step does not touch: its comments stay paid for.
LEMMA PaidElsewhere ==
    ASSUME TypeOK, TypeOK', NEW d \in Drafts, Paid(d),
           file'[d] = file[d], comments'[d] = comments[d], crashes' >= crashes,
           Finishing(d) => Finishing(d)'
    PROVE  Paid(d)'
BY DEF Paid, TypeOK

\* No step forgets a crash.
LEMMA CrashesGrow ==
    ASSUME TypeOK, Step
    PROVE  crashes' >= crashes
<1> USE DEF TypeOK
<1>1. crashes \in Nat
  BY PublishAssumption
<1>2. CASE crashes' = crashes
  BY <1>1, <1>2
<1>3. CASE crashes' = crashes + 1
  BY <1>1, <1>3
<1>4. crashes' = crashes \/ crashes' = crashes + 1
  BY DEF Step, Scan, Prepare, WriteMarker, CreateOk, CreateUnimplemented,
     Checkpoint, WriteFailed, Reconcile, Finish, WriteEdit, Bail, WriteError,
     BeginQueued, BeginManual, BeginEdit, Open, Refuse, Comment, CreateErr, Crash,
     MarkReady, Verify, Operator
<1> QED
  BY <1>2, <1>3, <1>4

\* Both parts hold initially: there are no comments and no markers.
LEMMA LeftoverInit == Init => Leftover
<1> SUFFICES ASSUME Init PROVE Leftover
  OBVIOUS
<1>1. \A d \in Drafts : file[d].status # "publishing" /\ comments[d] = 0
  BY DEF Init
<1>2. crashes = 0
  BY DEF Init
<1> QED
  BY <1>1, <1>2 DEF Leftover, Remarks, Paid, MarkerMeansInterrupted

\* The steps of a process on its own draft keep the account of the comments.
LEMMA RemarksLocal ==
    ASSUME IInv, TypeOK', Remarks, NEW p \in Procs,
           \/ Prepare(p) \/ WriteMarker(p) \/ CreateOk(p) \/ CreateUnimplemented(p)
           \/ Checkpoint(p) \/ WriteFailed(p) \/ Reconcile(p) \/ Finish(p)
           \/ WriteEdit(p) \/ Bail(p) \/ WriteError(p)
           \/ \E b \in BOOLEAN : Comment(p, b) \/ CreateErr(p, b) \/ Crash(p, b)
    PROVE  Remarks'
<1> SUFFICES ASSUME NEW d \in Drafts, ~ overlap'[d] PROVE Paid(d)'
  BY DEF Remarks
<1>1. Step
  BY DEF Step
<1>2. crashes' >= crashes /\ crashes \in Nat /\ crashes' \in Nat /\ comments[d] \in Nat
  BY <1>1, CrashesGrow, PublishAssumption DEF IInv, TypeOK
<1>3. /\ pc[p] # "idle" /\ target' = target /\ overlap' = overlap
      /\ \A q \in Procs : q # p => pc'[q] = pc[q]
      /\ target[p] # d => file'[d] = file[d] /\ comments'[d] = comments[d]
  <2> USE DEF IInv, TypeOK, SetPc, Save
  <2>1. CASE Prepare(p) \/ WriteMarker(p) \/ CreateOk(p) \/ CreateUnimplemented(p)
    BY <2>1 DEF Prepare, WriteMarker, CreateOk, CreateUnimplemented
  <2>2. CASE Checkpoint(p) \/ WriteFailed(p) \/ Reconcile(p) \/ Finish(p) \/ WriteEdit(p)
    BY <2>2 DEF Checkpoint, WriteFailed, Reconcile, Finish, WriteEdit
  <2>3. CASE Bail(p) \/ WriteError(p)
    BY <2>3 DEF Bail, WriteError, MaybeTorn, Writing
  <2>4. CASE \E b \in BOOLEAN : Comment(p, b) \/ CreateErr(p, b) \/ Crash(p, b)
    BY <2>4 DEF Comment, CreateErr, Crash, MaybeTorn
  <2> QED
    BY <2>1, <2>2, <2>3, <2>4
<1>4. ~ overlap[d] /\ Paid(d)
  BY <1>3 DEF Remarks
<1>5. CASE target[p] # d
  <2>1. Finishing(d) => Finishing(d)'
    BY <1>3, <1>5 DEF Finishing, Busy
  <2> QED
    BY <1>2, <1>3, <1>4, <1>5, <2>1, PaidElsewhere DEF IInv
<1>6. CASE target[p] = d
  <2>1. AloneAt(p, d) /\ Busy(p, d) /\ pc[p] \in Pcs
    BY <1>3, <1>4, <1>6, AloneKnows DEF Busy, IInv, TypeOK
  <2>2. \A q \in Procs : Busy(q, d) => q = p
    BY <1>4, <2>1 DEF IInv, Turns, TakesTurns
  <2>3. Finishing(d) <=> pc[p] = "finish"
    BY <2>1, <2>2 DEF Finishing
  <2>4. Finishing(d)' <=> pc'[p] = "finish"
    BY <1>3, <1>6, <2>2 DEF Finishing, Busy
  <2>5. comments[d] <= 1 + crashes
    BY <1>4 DEF Paid
  <2>6. \/ file[d].status \in {"published", "torn"}
        \/ pc[p] = "finish"
        \/ comments[d] <= crashes
    BY <1>4, <2>3 DEF Paid
  <2> USE <1>2, <1>6, <2>1, <2>4, <2>5, <2>6 DEF Paid
  <2>7. CASE Prepare(p) \/ CreateOk(p) \/ CreateUnimplemented(p) \/ Reconcile(p) \/ Bail(p)
    BY <2>7 DEF Prepare, CreateOk, CreateUnimplemented, Reconcile, Bail
  <2>8. CASE WriteMarker(p)
    BY <2>8 DEF WriteMarker, AloneAt
  <2>9. CASE Checkpoint(p)
    BY <2>9 DEF Checkpoint, AloneAt
  <2>10. CASE WriteFailed(p)
    BY <2>10 DEF WriteFailed, AloneAt
  <2>11. CASE Finish(p)
    <3>1. file'[d].status = "published"
      BY <2>11, StatusUpdate DEF Finish, Save, IInv, TypeOK, DraftStatus
    <3> QED
      BY <2>11, <3>1 DEF Finish
  <2>12. CASE WriteEdit(p)
    <3>1. file'[d] = file[d]
      BY <2>12 DEF WriteEdit, Save, AloneAt, IInv, TypeOK
    <3> QED
      BY <2>12, <3>1 DEF WriteEdit
  <2>13. CASE WriteError(p)
    <3>1. crashes' = crashes + 1 /\ comments' = comments
      BY <2>13 DEF WriteError
    <3> QED
      BY <3>1
  <2>14. ASSUME NEW b \in BOOLEAN, Comment(p, b) PROVE Paid(d)'
    <3>1. pc'[p] = "finish" /\ pc[p] = "comment" /\ crashes' = crashes
      BY <2>14 DEF Comment, SetPc, IInv, TypeOK
    <3>2. comments[d] <= crashes
      BY <3>1 DEF AloneAt
    <3>3. comments'[d] \in {comments[d], comments[d] + 1}
      BY <2>14 DEF Comment, IInv, TypeOK
    <3> QED
      BY <3>1, <3>2, <3>3
  <2>15. ASSUME NEW b \in BOOLEAN, CreateErr(p, b) PROVE Paid(d)'
    BY <2>15 DEF CreateErr
  <2>16. ASSUME NEW b \in BOOLEAN, Crash(p, b) PROVE Paid(d)'
    <3>1. crashes' = crashes + 1 /\ comments' = comments
      BY <2>16 DEF Crash
    <3> QED
      BY <3>1
  <2> QED
    BY <2>7, <2>8, <2>9, <2>10, <2>11, <2>12, <2>13, <2>14, <2>15, <2>16
<1> QED
  BY <1>5, <1>6

\* Starting on a draft, refusing it and scanning create no comment, and the
\* operator's edits turn neither a published nor a cut file into another.
LEMMA RemarksOthers ==
    ASSUME IInv, TypeOK', Remarks,
           \/ \E p \in Procs : Scan(p)
           \/ \E p \in Procs, d \in Drafts :
                  BeginQueued(p, d) \/ BeginManual(p, d) \/ BeginEdit(p, d) \/ Refuse(p, d)
           \/ \E d \in Drafts : MarkReady(d) \/ Verify(d)
    PROVE  Remarks'
<1> SUFFICES ASSUME NEW e \in Drafts, ~ overlap'[e] PROVE Paid(e)'
  BY DEF Remarks
<1>1. Step
  BY DEF Step
<1>2. crashes' >= crashes
  BY <1>1, CrashesGrow DEF IInv
<1>3. ASSUME NEW p \in Procs, Scan(p) \/ \E d \in Drafts : Refuse(p, d) PROVE Paid(e)'
  BY <1>3 DEF Scan, Refuse, Remarks, Paid, Finishing, Busy
<1>4. ASSUME NEW p \in Procs, NEW d \in Drafts,
             BeginQueued(p, d) \/ BeginManual(p, d) \/ BeginEdit(p, d)
      PROVE  Paid(e)'
  <2>1. PICK l \in {"prepare", "edit"} : Open(p, d, l)
    BY <1>4, OpenCases
  <2>2. ~ overlap[e] /\ Paid(e)
    BY <2>1, NoteOverlapType DEF Open, IInv, TypeOK, Remarks
  <2>3. Finishing(e) => Finishing(e)'
    BY <2>1 DEF Finishing, Busy, Open, SetPc, IInv, TypeOK
  <2> QED
    BY <1>2, <2>1, <2>2, <2>3, PaidElsewhere DEF Open, IInv
<1>5. ASSUME NEW d \in Drafts, MarkReady(d) \/ Verify(d) PROVE Paid(e)'
  <2>1. PICK f \in FileState : Operator(d, f)
    BY <1>5, OperatorCases DEF IInv
  <2>2. ~ overlap[e] /\ Paid(e)
    BY <2>1, NoteOverlapType DEF Operator, IInv, TypeOK, Remarks
  <2>3. Finishing(e) => Finishing(e)'
    BY <2>1 DEF Finishing, Busy, Operator
  <2>4. CASE e # d
    BY <1>2, <2>1, <2>2, <2>3, <2>4, PaidElsewhere DEF Operator, IInv, TypeOK
  <2>5. CASE e = d
    <3>1. file[e].status \notin {"published", "torn"}
      BY <1>5, <2>5 DEF MarkReady, Verify
    <3> QED
      BY <2>1, <2>2, <2>3, <3>1 DEF Paid, Operator
  <2> QED
    BY <2>4, <2>5
<1> QED
  BY <1>3, <1>4, <1>5

\* A step that leaves a marker without post_id on an unattended draft is a crash
\* or a failed write, or found it there.
LEMMA MarkerStep ==
    ASSUME IInv, TypeOK', MarkerMeansInterrupted, Step
    PROVE  MarkerMeansInterrupted'
<1> SUFFICES ASSUME NEW d \in Drafts,
                    file'[d].status = "publishing", ~ file'[d].id,
                    Platform[d] # "other",
                    ~ overlap'[d], \A p \in Procs : ~ Busy(p, d)'
             PROVE  crashes' > 0
  BY DEF MarkerMeansInterrupted
<1>1. crashes' >= crashes /\ crashes \in Nat /\ crashes' \in Nat
  BY CrashesGrow, PublishAssumption DEF IInv, TypeOK
<1> DEFINE Found == /\ ~ overlap[d] /\ file[d] = file'[d]
                    /\ \A p \in Procs : ~ Busy(p, d)
<1>2. ASSUME Found PROVE crashes' > 0
  BY <1>1, <1>2 DEF MarkerMeansInterrupted
<1>3. ASSUME NEW p \in Procs, WriteError(p) \/ \E b \in BOOLEAN : Crash(p, b)
      PROVE  crashes' > 0
  BY <1>1, <1>3 DEF WriteError, Crash
<1>4. ASSUME NEW p \in Procs, Scan(p) \/ \E e \in Drafts : Refuse(p, e)
      PROVE  Found
  BY <1>4 DEF Scan, Refuse, Busy
<1>5. ASSUME NEW p \in Procs, NEW e \in Drafts,
             BeginQueued(p, e) \/ BeginManual(p, e) \/ BeginEdit(p, e)
      PROVE  Found
  <2>1. PICK l \in {"prepare", "edit"} : Open(p, e, l)
    BY <1>5, OpenCases
  <2>2. Busy(p, e)'
    BY <2>1 DEF Open, SetPc, Busy, IInv, TypeOK
  <2>3. e # d
    BY <2>2
  <2>4. ~ overlap[d] /\ file[d] = file'[d]
    BY <2>1, NoteOverlapType DEF Open, IInv, TypeOK
  <2>5. \A q \in Procs : ~ Busy(q, d)
    BY <2>1 DEF Open, SetPc, Busy, IInv, TypeOK
  <2> QED
    BY <2>4, <2>5
<1>6. ASSUME NEW e \in Drafts, MarkReady(e) \/ Verify(e) PROVE Found
  <2>1. PICK f \in FileState :
           Operator(e, f) /\ (f.status = "ready" \/ f.status = "published")
    BY <1>6, OperatorCases DEF IInv
  <2>2. e # d
    BY <2>1 DEF Operator, IInv, TypeOK
  <2>3. ~ overlap[d] /\ file[d] = file'[d]
    BY <2>1, <2>2, NoteOverlapType DEF Operator, IInv, TypeOK
  <2>4. \A q \in Procs : ~ Busy(q, d)
    BY <2>1 DEF Operator, Busy
  <2> QED
    BY <2>3, <2>4
<1>7. ASSUME NEW p \in Procs,
             \/ Prepare(p) \/ WriteMarker(p) \/ CreateOk(p) \/ CreateUnimplemented(p)
             \/ Checkpoint(p) \/ WriteFailed(p) \/ Reconcile(p) \/ Finish(p)
             \/ WriteEdit(p) \/ Bail(p)
             \/ \E b \in BOOLEAN : Comment(p, b) \/ CreateErr(p, b)
      PROVE  Found
  <2>1. Local(p)
    <3> USE DEF Local, IInv, TypeOK, SetPc, Save
    <3>1. CASE Prepare(p) \/ WriteMarker(p) \/ CreateOk(p) \/ CreateUnimplemented(p)
      BY <3>1 DEF Prepare, WriteMarker, CreateOk, CreateUnimplemented
    <3>2. CASE Checkpoint(p) \/ WriteFailed(p) \/ Reconcile(p) \/ Finish(p) \/ WriteEdit(p)
      BY <3>2 DEF Checkpoint, WriteFailed, Reconcile, Finish, WriteEdit
    <3>3. CASE Bail(p)
      BY <3>3 DEF Bail
    <3>4. CASE \E b \in BOOLEAN : Comment(p, b) \/ CreateErr(p, b)
      BY <3>4 DEF Comment, CreateErr
    <3> QED
      BY <1>7, <3>1, <3>2, <3>3, <3>4
  <2>2. target[p] # d
    <3> SUFFICES ASSUME target[p] = d PROVE FALSE
      OBVIOUS
    <3>1. AloneAt(p, d)
      BY <2>1, AloneKnows DEF Local
    <3>2. pc'[p] = "idle"
      BY <2>1 DEF Local, Busy
    <3>3. \/ CreateUnimplemented(p) \/ WriteFailed(p) \/ Finish(p) \/ WriteEdit(p) \/ Bail(p)
      BY <1>7, <3>2 DEF Prepare, WriteMarker, CreateOk, Checkpoint, Reconcile, Comment,
         CreateErr, SetPc, AfterCreate, IInv, TypeOK
    <3>4. CASE CreateUnimplemented(p)
      BY <3>4 DEF CreateUnimplemented
    <3>5. CASE WriteFailed(p)
      <4>1. file'[d].status = "failed"
        BY <3>5, StatusUpdate DEF WriteFailed, Save, IInv, TypeOK, DraftStatus
      <4> QED
        BY <4>1
    <3>6. CASE Finish(p)
      <4>1. file'[d].status = "published"
        BY <3>6, StatusUpdate DEF Finish, Save, IInv, TypeOK, DraftStatus
      <4> QED
        BY <4>1
    <3>7. CASE WriteEdit(p)
      BY <3>1, <3>7 DEF WriteEdit, Save, AloneAt, IInv, TypeOK
    <3>8. CASE Bail(p)
      BY <3>1, <3>8 DEF Bail, AloneAt
    <3> QED
      BY <3>3, <3>4, <3>5, <3>6, <3>7, <3>8
  <2>3. ~ overlap[d] /\ file[d] = file'[d]
    BY <2>1, <2>2 DEF Local
  <2>4. \A q \in Procs : ~ Busy(q, d)
    BY <2>1, <2>2 DEF Local, Busy
  <2> QED
    BY <2>3, <2>4
<1> HIDE DEF Found
<1> QED
  BY <1>2, <1>3, <1>4, <1>5, <1>6, <1>7 DEF Step

\* The account of comments and markers is an invariant on top of IInv.
THEOREM LeftoverInductive == Spec => []Leftover
<1>1. ASSUME IInv, IInv', Leftover, [Next]_vars PROVE Leftover'
  <2>1. CASE Step
    <3>1. Remarks'
      BY <1>1, <2>1, RemarksLocal, RemarksOthers DEF Leftover, IInv, Step
    <3>2. MarkerMeansInterrupted'
      BY <1>1, <2>1, MarkerStep DEF Leftover, IInv
    <3> QED
      BY <3>1, <3>2 DEF Leftover
  <2>2. CASE UNCHANGED vars
    BY <1>1, <2>2 DEF Leftover, Remarks, Paid, Finishing, MarkerMeansInterrupted, Busy, vars
  <2> QED
    BY <1>1, <2>1, <2>2, NextIsStep
<1> QED
  BY <1>1, Inductive, LeftoverInit, PTL DEF Spec

\* While the actors take turns, the first comment of a draft is repeated at most
\* once for each crash or failed write: errors of the API and refusals repeat none.
THEOREM CommentsArePaid == Spec => []CommentsBounded
<1>1. Leftover => CommentsBounded
  BY DEF Leftover, Remarks, Paid, CommentsBounded
<1> QED
  BY <1>1, LeftoverInductive, PTL

\* A marker left on a draft of an implemented platform that nobody works on is the
\* trace of a crash or a failed write: no error path of publish() leaves one.
THEOREM MarkersAreTraces == Spec => []MarkerMeansInterrupted
<1>1. Leftover => MarkerMeansInterrupted
  BY DEF Leftover
<1> QED
  BY <1>1, LeftoverInductive, PTL
=============================================================================
