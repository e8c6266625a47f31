---------------------------- MODULE SocialPublish ----------------------------
(***************************************************************************)
(* Publishing of social drafts: publish() of social/publish.rs with the    *)
(* draft life cycle of social/draft.rs, the scheduler's scan and loop of   *)
(* schedule.rs, run_edit of social/mod.rs, and the operator who edits the  *)
(* draft file by hand, as the error messages tell him to.                  *)
(*                                                                         *)
(* The only state the attempts share is the draft file, which is read once *)
(* at the start of an attempt and rewritten whole, without a lock, after   *)
(* every phase.  A post is counted in posts when the platform has created  *)
(* it, whether or not the caller ever learns of it.                        *)
(***************************************************************************)
EXTENDS Integers

CONSTANTS
    Drafts,      \* the draft files of the social directory
    Procs,       \* corky processes that may touch them
    Daemon,      \* the process running `corky watch', whose tick scans the schedule
    Scheduled,   \* drafts whose scheduled_at is set and due
    Platform,    \* Platform[d] is "linkedin", "youtube" or "other"
    MaxCrashes,  \* bound on crashes and failed writes
    MaxErrors,   \* bound on failed API calls and lookups
    MaxEdits     \* bound on the operator's edits, by hand or with run_edit

ASSUME PublishAssumption ==
    /\ Daemon \in Procs
    /\ Drafts # {}
    /\ Scheduled \subseteq Drafts
    /\ Platform \in [Drafts -> {"linkedin", "youtube", "other"}]
    /\ MaxCrashes \in Nat /\ MaxErrors \in Nat /\ MaxEdits \in Nat

VARIABLES
    file,      \* file[d]: the frontmatter on disk
    pc,        \* pc[p]: what process p does next
    target,    \* target[p]: the draft p works on when pc[p] # "idle"
    mem,       \* mem[p]: the copy of the frontmatter p read and modifies
    queue,     \* queue[p]: the rest of the items a schedule run collected
    posts,     \* posts[d]: posts the platform has created for d
    comments,  \* comments[d]: first comments the platform has created for d
    lost,      \* history: posts whose create call reported an error
    overlap,   \* history: two actors have worked on d at the same time
    crashes, errors, edits

vars == <<file, pc, target, mem, queue, posts, comments, lost, overlap,
          crashes, errors, edits>>

DraftStatus == {"draft", "ready", "publishing", "published", "failed"}

\* id: post_id is recorded.  "torn" is a file left empty or cut by an interrupted
\* std::fs::write, which SocialDraft::parse rejects.
FileState == [status : DraftStatus \cup {"torn"}, id : BOOLEAN]
Torn == [status |-> "torn", id |-> FALSE]

Pcs == {"idle", "prepare", "marker", "create", "checkpoint", "fail",
        "reconcile", "comment", "finish", "edit"}
Writing == {"marker", "checkpoint", "fail", "finish", "edit"}

TypeOK ==
    /\ file \in [Drafts -> FileState]
    /\ pc \in [Procs -> Pcs]
    /\ target \in [Procs -> Drafts]
    /\ mem \in [Procs -> FileState]
    /\ queue \in [Procs -> SUBSET Drafts]
    /\ posts \in [Drafts -> Nat]
    /\ comments \in [Drafts -> Nat]
    /\ lost \in [Drafts -> Nat]
    /\ overlap \in [Drafts -> BOOLEAN]
    /\ crashes \in 0..MaxCrashes /\ errors \in 0..MaxErrors /\ edits \in 0..MaxEdits

Busy(p, d) == pc[p] # "idle" /\ target[p] = d

-----------------------------------------------------------------------------
(* The life cycle of a draft *)

\* Mutant: an interrupted draft is skipped by the scan as if it were terminal.
SkipsInterrupted(s) == s \in {"published", "failed", "publishing"}

IsTerminal(s) == s \in {"published", "failed"}

\* Mutant: an interrupted attempt is retried whether or not it has a post_id.
RetriesInterrupted(f, ready) ==
    f.status \in {"ready", "publishing"} \/ (f.status = "draft" /\ ready)

\* Mutant: the gate lets a published draft through.
AcceptsPublished(f, ready) ==
    f.status \in {"ready", "published"} \/ (f.status = "draft" /\ ready)

\* DraftStatus::can_publish with the refusal of an interrupted attempt that has
\* no post_id, which publish() makes right after it.
CanPublish(f, ready) ==
    \/ f.status = "ready"
    \/ f.status = "draft" /\ ready
    \/ f.status = "publishing" /\ f.id

\* The phase after the post exists: only LinkedIn reconciles and comments.
AfterCreate(d) == IF Platform[d] = "linkedin" THEN "reconcile" ELSE "finish"

Init ==
    /\ file \in [Drafts -> [status : {"draft", "ready"}, id : {FALSE}]]
    /\ pc = [p \in Procs |-> "idle"]
    /\ target = [p \in Procs |-> CHOOSE d \in Drafts : TRUE]
    /\ mem = [p \in Procs |-> [status |-> "draft", id |-> FALSE]]
    /\ queue = [p \in Procs |-> {}]
    /\ posts = [d \in Drafts |-> 0]
    /\ comments = [d \in Drafts |-> 0]
    /\ lost = [d \in Drafts |-> 0]
    /\ overlap = [d \in Drafts |-> FALSE]
    /\ crashes = 0 /\ errors = 0 /\ edits = 0

-----------------------------------------------------------------------------
(* Steps of a process *)

SetPc(p, l) == pc' = [pc EXCEPT ![p] = l]
Save(p, f) == file' = [file EXCEPT ![target[p]] = f]
NoteOverlap(d) ==
    overlap' = [overlap EXCEPT ![d] = @ \/ \E q \in Procs : Busy(q, d)]

\* scan_social_dir: unreadable files and terminal drafts are skipped.
Scan(p) ==
    /\ pc[p] = "idle" /\ queue[p] = {}
    /\ LET due == {d \in Scheduled : ~ IsTerminal(file[d].status) /\ file[d].status # "torn"}
       IN due # {} /\ queue' = [queue EXCEPT ![p] = due]
    /\ UNCHANGED <<file, pc, target, mem, posts, comments, lost, overlap,
                   crashes, errors, edits>>

\* p reads the file of d and starts on it with its own copy.
Open(p, d, l) ==
    /\ pc[p] = "idle"
    /\ SetPc(p, l)
    /\ target' = [target EXCEPT ![p] = d]
    /\ mem' = [mem EXCEPT ![p] = file[d]]
    /\ NoteOverlap(d)
    /\ UNCHANGED <<file, posts, comments, lost, crashes, errors>>

\* publish() of the next item of a schedule run, in whatever order the dates give.
BeginQueued(p, d) ==
    /\ d \in queue[p]
    /\ CanPublish(file[d], d \in Scheduled)
    /\ queue' = [queue EXCEPT ![p] = @ \ {d}]
    /\ UNCHANGED edits
    /\ Open(p, d, "prepare")

\* publish() refuses an item; the run goes on with the next one.
Refuse(p, d) ==
    /\ pc[p] = "idle" /\ d \in queue[p]
    /\ ~ CanPublish(file[d], d \in Scheduled)
    /\ queue' = [queue EXCEPT ![p] = @ \ {d}]
    /\ UNCHANGED <<file, pc, target, mem, posts, comments, lost, overlap,
                   crashes, errors, edits>>

\* `corky linkedin publish FILE' by hand.
BeginManual(p, d) ==
    /\ p # Daemon /\ queue[p] = {}
    /\ CanPublish(file[d], d \in Scheduled)
    /\ UNCHANGED <<queue, edits>>
    /\ Open(p, d, "prepare")

\* `corky linkedin edit FILE --body ...': run_edit up to the call of update_post.
BeginEdit(p, d) ==
    /\ p # Daemon /\ queue[p] = {}
    /\ file[d].id /\ file[d].status # "torn"
    /\ edits < MaxEdits /\ edits' = edits + 1
    /\ UNCHANGED queue
    /\ Open(p, d, "edit")

\* Mutant: a resumed attempt creates the post again.
PrepareRecreates(p) ==
    /\ pc[p] = "prepare"
    /\ SetPc(p, "marker")
    /\ UNCHANGED <<file, target, mem, queue, posts, comments, lost, overlap,
                   crashes, errors, edits>>

\* Author, token and images are found; an interrupted attempt skips the creation.
Prepare(p) ==
    /\ pc[p] = "prepare"
    /\ SetPc(p, IF mem[p].status = "publishing" /\ mem[p].id THEN AfterCreate(target[p]) ELSE "marker")
    /\ UNCHANGED <<file, target, mem, queue, posts, comments, lost, overlap,
                   crashes, errors, edits>>

\* Mutants: the marker is not written, is not a status, or claims the post_id.
MarkerInMemory(p) ==
    /\ pc[p] = "marker"
    /\ mem' = [mem EXCEPT ![p].status = "publishing"]
    /\ SetPc(p, "create")
    /\ UNCHANGED <<file, target, queue, posts, comments, lost, overlap,
                   crashes, errors, edits>>

MarkerAs(p, f) ==
    /\ pc[p] = "marker"
    /\ mem' = [mem EXCEPT ![p] = f]
    /\ Save(p, f)
    /\ SetPc(p, "create")
    /\ UNCHANGED <<target, queue, posts, comments, lost, overlap, crashes, errors, edits>>
MarkerUnknown(p) == MarkerAs(p, [status |-> "started", id |-> FALSE])
MarkerClaimsPost(p) == MarkerAs(p, [status |-> "publishing", id |-> TRUE])

\* PublishEvent::Start, written before the platform is called.
WriteMarker(p) ==
    /\ pc[p] = "marker"
    /\ mem' = [mem EXCEPT ![p].status = "publishing"]
    /\ Save(p, mem'[p])
    /\ SetPc(p, "create")
    /\ UNCHANGED <<target, queue, posts, comments, lost, overlap, crashes, errors, edits>>

CreateOk(p) ==
    /\ pc[p] = "create" /\ Platform[target[p]] # "other"
    /\ posts' = [posts EXCEPT ![target[p]] = @ + 1]
    /\ mem' = [mem EXCEPT ![p].id = TRUE]
    /\ SetPc(p, "checkpoint")
    /\ UNCHANGED <<file, target, queue, comments, lost, overlap, crashes, errors, edits>>

\* The create call returns Err.  The post may exist all the same: the reply was
\* lost, or a YouTube upload succeeded and its captions did not.
CreateErr(p, exists) ==
    /\ pc[p] = "create" /\ Platform[target[p]] # "other"
    /\ errors < MaxErrors /\ errors' = errors + 1
    /\ posts' = [posts EXCEPT ![target[p]] = IF exists THEN @ + 1 ELSE @]
    /\ lost' = [lost EXCEPT ![target[p]] = IF exists THEN @ + 1 ELSE @]
    /\ SetPc(p, "fail")
    /\ UNCHANGED <<file, target, mem, queue, comments, overlap, crashes, edits>>

\* The match on platform bails out, past the handler that would write `failed'.
CreateUnimplemented(p) ==
    /\ pc[p] = "create" /\ Platform[target[p]] = "other"
    /\ SetPc(p, "idle")
    /\ UNCHANGED <<file, target, mem, queue, posts, comments, lost, overlap,
                   crashes, errors, edits>>

\* The post_id is written while the draft is still `publishing'.
Checkpoint(p) ==
    /\ pc[p] = "checkpoint"
    /\ Save(p, mem[p])
    /\ SetPc(p, AfterCreate(target[p]))
    /\ UNCHANGED <<target, mem, queue, posts, comments, lost, overlap, crashes, errors, edits>>

\* Mutant: the failure is reported but not persisted.
FailureNotSaved(p) ==
    /\ pc[p] = "fail"
    /\ SetPc(p, "idle")
    /\ UNCHANGED <<file, target, mem, queue, posts, comments, lost, overlap,
                   crashes, errors, edits>>

WriteFailed(p) ==
    /\ pc[p] = "fail"
    /\ Save(p, [mem[p] EXCEPT !.status = "failed"])
    /\ SetPc(p, "idle")
    /\ UNCHANGED <<target, mem, queue, posts, comments, lost, overlap, crashes, errors, edits>>

Reconcile(p) ==
    /\ pc[p] = "reconcile"
    /\ SetPc(p, "comment")
    /\ UNCHANGED <<file, target, mem, queue, posts, comments, lost, overlap,
                   crashes, errors, edits>>

\* A first comment that is absent or fails is only a warning.
Comment(p, created) ==
    /\ pc[p] = "comment"
    /\ comments' = [comments EXCEPT ![target[p]] = IF created THEN @ + 1 ELSE @]
    /\ SetPc(p, "finish")
    /\ UNCHANGED <<file, target, mem, queue, posts, lost, overlap, crashes, errors, edits>>

\* Mutant: the terminal write forgets the transition to `published'.
FinishUntransitioned(p) ==
    /\ pc[p] = "finish"
    /\ Save(p, mem[p])
    /\ SetPc(p, "idle")
    /\ UNCHANGED <<target, mem, queue, posts, comments, lost, overlap, crashes, errors, edits>>

Finish(p) ==
    /\ pc[p] = "finish"
    /\ Save(p, [mem[p] EXCEPT !.status = "published"])
    /\ SetPc(p, "idle")
    /\ UNCHANGED <<target, mem, queue, posts, comments, lost, overlap, crashes, errors, edits>>

\* run_edit writes back the frontmatter it read before it called update_post.
WriteEdit(p) ==
    /\ pc[p] = "edit"
    /\ Save(p, mem[p])
    /\ SetPc(p, "idle")
    /\ UNCHANGED <<target, mem, queue, posts, comments, lost, overlap, crashes, errors, edits>>

-----------------------------------------------------------------------------
(* Failures *)

\* A lookup, an upload or update_post fails: the command returns and writes nothing.
Bail(p) ==
    /\ pc[p] \in {"prepare", "reconcile", "edit"}
    /\ errors < MaxErrors /\ errors' = errors + 1
    /\ SetPc(p, "idle")
    /\ UNCHANGED <<file, target, mem, queue, posts, comments, lost, overlap, crashes, edits>>

\* std::fs::write truncates, then writes: if it fails or is interrupted, the old
\* file is left, or a cut one.
MaybeTorn(p) ==
    \/ UNCHANGED file
    \/ pc[p] \in Writing /\ file' = [file EXCEPT ![target[p]] = Torn]

WriteError(p) ==
    /\ pc[p] \in Writing
    /\ crashes < MaxCrashes /\ crashes' = crashes + 1
    /\ MaybeTorn(p)
    /\ SetPc(p, "idle")
    /\ UNCHANGED <<target, mem, queue, posts, comments, lost, overlap, errors, edits>>

\* The process dies.  A create call in flight may have reached the platform.
Crash(p, exists) ==
    /\ pc[p] # "idle"
    /\ exists => pc[p] = "create" /\ Platform[target[p]] # "other"
    /\ crashes < MaxCrashes /\ crashes' = crashes + 1
    /\ MaybeTorn(p)
    /\ posts' = [posts EXCEPT ![target[p]] = IF exists THEN @ + 1 ELSE @]
    /\ SetPc(p, "idle")
    /\ queue' = [queue EXCEPT ![p] = {}]
    /\ UNCHANGED <<target, mem, comments, lost, overlap, errors, edits>>

-----------------------------------------------------------------------------
(* The operator edits the status in the file *)

Operator(d, f) ==
    /\ edits < MaxEdits /\ edits' = edits + 1
    /\ file' = [file EXCEPT ![d] = f]
    /\ NoteOverlap(d)
    /\ UNCHANGED <<pc, target, mem, queue, posts, comments, lost, crashes, errors>>

\* A draft is made ready, or a failed one is reset to retry.
MarkReady(d) ==
    /\ file[d].status \in {"draft", "failed"}
    /\ Operator(d, [file[d] EXCEPT !.status = "ready"])

\* `Verify on the platform, then either set status to "published" (with the
\* post_id) or "ready" to retry.'
Verify(d) ==
    /\ file[d].status = "publishing" /\ ~ file[d].id
    /\ Operator(d, IF posts[d] > 0 THEN [status |-> "published", id |-> TRUE]
                                   ELSE [status |-> "ready", id |-> FALSE])

-----------------------------------------------------------------------------
Work(p) ==
    \/ Scan(p)
    \/ \E d \in Drafts : BeginQueued(p, d) \/ Refuse(p, d)
    \/ Prepare(p) \/ WriteMarker(p)
    \/ CreateOk(p) \/ CreateUnimplemented(p)
    \/ Checkpoint(p) \/ WriteFailed(p) \/ Reconcile(p)
    \/ \E created \in BOOLEAN : Comment(p, created)
    \/ Finish(p)

Command(p) == WriteEdit(p) \/ \E d \in Drafts : BeginManual(p, d) \/ BeginEdit(p, d)

Fault(p) ==
    \/ Bail(p) \/ WriteError(p)
    \/ \E exists \in BOOLEAN : CreateErr(p, exists) \/ Crash(p, exists)

Next ==
    \/ \E p \in Procs : Work(p) \/ Command(p) \/ Fault(p)
    \/ \E d \in Drafts : MarkReady(d) \/ Verify(d)

Spec == Init /\ [][Next]_vars

\* The watch loop ticks for ever; nobody is obliged to run a command by hand.
FairSpec == Spec /\ WF_vars(Work(Daemon))

-----------------------------------------------------------------------------
(* Properties *)

\* While the actors on a draft take turns, the platform holds at most one post
\* for it beyond those whose create call reported an error: no crash, failed
\* write, retry or scheduler tick posts twice.
AtMostOnePost == \A d \in Drafts : ~ overlap[d] => posts[d] <= 1 + lost[d]

\* A post the platform created without reporting an error never goes unnoticed:
\* its id is on disk, or the draft is `publishing' (or its file is visibly cut),
\* which the scheduler and publish() refuse to run again.
NoForgottenPost ==
    \A d \in Drafts : ~ overlap[d] /\ posts[d] > lost[d] =>
        file[d].id \/ file[d].status \in {"publishing", "torn"}

\* Whatever the interleaving, the file never claims a post that does not exist:
\* `published' comes with a post_id, and a post_id with a post.
ClaimsAreTrue ==
    \A d \in Drafts : /\ file[d].status = "published" => file[d].id
                      /\ file[d].id => posts[d] > 0

\* Unless two actors overlapped, the platform is called to create a post only
\* while the marker is on disk and no post_id is.
MarkerBeforeCreate ==
    [][\A d \in Drafts : posts'[d] > posts[d] /\ ~ overlap[d] =>
           file[d].status = "publishing" /\ ~ file[d].id]_vars

\* A published draft is not worked on again: only an overlapping stale writer
\* or a cut write of an edit changes its status.
PublishedIsFinal ==
    [][\A d \in Drafts : file[d].status = "published" /\ ~ overlap[d] =>
           file'[d].status \in {"published", "torn"}]_vars

\* The first comment is repeated only by an attempt that resumes after a crash
\* or a failed terminal write, once for each.
CommentsBounded ==
    \A d \in Drafts : ~ overlap[d] => comments[d] <= 1 + crashes

\* On an implemented platform, an unattended `publishing' draft without post_id
\* is the trace of a crash or of a failed write.
MarkerMeansInterrupted ==
    \A d \in Drafts :
        /\ file[d].status = "publishing" /\ ~ file[d].id
        /\ Platform[d] # "other"
        /\ ~ overlap[d] /\ \A p \in Procs : ~ Busy(p, d)
        => crashes > 0

\* A scheduled draft whose post exists and whose id is recorded is eventually
\* finished by the watch loop, whatever was interrupted.
CheckpointedIsFinished ==
    \A d \in Scheduled :
        file[d].status = "publishing" /\ file[d].id
            ~> file[d].status \in {"published", "torn"} \/ overlap[d]

\* No draft is ever posted twice when no create call reported an error.
NoDoublePost == \A d \in Drafts : posts[d] <= 1 + lost[d]
=============================================================================
