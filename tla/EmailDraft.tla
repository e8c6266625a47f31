------------------------------ MODULE EmailDraft ------------------------------
(***************************************************************************)
(* Email drafts: draft push, push --send, send, attach, migrate and new of *)
(* corky-mail/src/draft, and the email half of the scheduler.              *)
(*                                                                         *)
(* A draft is a file that every command reads, and rewrites whole, without *)
(* a lock.  `push --send' and the scheduler deliver the mail first and set *)
(* the status to `sent' afterwards; `draft send' never looks at the status *)
(* and records nothing.  A mail counts as delivered when the server has    *)
(* accepted it, whether or not the sender learns of it.                    *)
(***************************************************************************)
EXTENDS Naturals, FiniteSets

CONSTANTS
    Drafts,      \* file names in the drafts directories
    Procs,       \* corky processes
    Daemon,      \* the one that runs the scheduler's tick
    MaxCrashes,  \* bound on crashes and failed writes
    MaxErrors,   \* bound on failed lookups and deliveries
    MaxEdits,    \* bound on the operator's edits
    MaxCommands  \* bound on commands given by hand

ASSUME EmailAssumption ==
    /\ Daemon \in Procs /\ Drafts # {}
    /\ MaxCrashes \in Nat /\ MaxErrors \in Nat /\ MaxEdits \in Nat /\ MaxCommands \in Nat

VARIABLES
    file,       \* file[d]: what a reader of the draft file finds
    late,       \* the later of the two dates a draft may be scheduled at has come
    queue,      \* queue[p]: the due drafts a schedule run has still to send
    pc,         \* pc[p]: what process p does next
    command,    \* command[p]: the command it carries out
    target,     \* target[p]: the draft it works on when pc[p] # "idle"
    copy,       \* copy[p]: the file as p has read it
    delivered,  \* delivered[d]: mails accepted by the server
    approvals,  \* history: how often the operator has released d for sending
    unrecorded, \* history: deliveries after which the status could not be, or is never, set
    overlap,    \* history: two actors have worked on d at the same time
    crashes, errors, edits, commands

faults == <<crashes, errors>>
history == <<approvals, unrecorded, overlap>>
vars == <<file, late, queue, pc, command, target, copy, delivered, history,
          faults, edits, commands>>

EmailDraftStatus == {"draft", "review", "approved", "scheduled", "sent", "failed"}

\* The status "none" is that of a legacy file without a Status line (and of what is
\* no draft).  "torn" is a file cut by an interrupted write so that it does not parse.
FileState == [form : {"absent", "torn", "legacy", "yaml"},
              status : EmailDraftStatus \cup {"none"},
              at : {"never", "early", "late"}]
Absent == [form |-> "absent", status |-> "none", at |-> "never"]
Torn == [form |-> "torn", status |-> "none", at |-> "never"]

Commands == {"push", "push --send", "send", "attach", "migrate", "new"}
Sends(c) == c \in {"push --send", "send"}
Pcs == {"idle", "compose", "mark", "marking", "edit", "migrate", "new"}

TypeOK ==
    /\ file \in [Drafts -> FileState]
    /\ late \in BOOLEAN
    /\ queue \in [Procs -> SUBSET Drafts]
    /\ pc \in [Procs -> Pcs]
    /\ command \in [Procs -> Commands]
    /\ target \in [Procs -> Drafts]
    /\ copy \in [Procs -> FileState]
    /\ delivered \in [Drafts -> Nat]
    /\ approvals \in [Drafts -> Nat] /\ unrecorded \in [Drafts -> Nat]
    /\ overlap \in [Drafts -> BOOLEAN]
    /\ crashes \in 0..MaxCrashes /\ errors \in 0..MaxErrors
    /\ edits \in 0..MaxEdits /\ commands \in 0..MaxCommands

Busy(p, d) == pc[p] # "idle" /\ target[p] = d

-----------------------------------------------------------------------------
(* The life cycle *)

IsSendEligible(s) == s \in {"review", "approved", "scheduled"}

\* parse_draft accepts the file.
Parses(f) == f.form \in {"legacy", "yaml"}

\* Mutant: the status is checked by the scan alone.
SendableUnchecked(f) == Parses(f)

\* The gate of run_internal for sending: a legacy file without a status passes.
Sendable(f) == Parses(f) /\ (IsSendEligible(f.status) \/ f.status = "none")

\* Mutant: the date is compared when the draft is scheduled, not when it is scanned.
DueWhenScheduled(f) == Parses(f) /\ f.status = "scheduled" /\ f.at = "early"

\* parse_email_scheduled.
Due(f) == /\ Parses(f) /\ f.status = "scheduled"
          /\ f.at = "early" \/ (f.at = "late" /\ late)

Init ==
    /\ file \in [Drafts -> {Absent} \cup
           [form : {"yaml"}, status : {"draft", "approved"}, at : {"never"}] \cup
           [form : {"legacy"}, status : {"none", "scheduled"}, at : {"early"}]]
    /\ late = FALSE
    /\ queue = [p \in Procs |-> {}]
    /\ pc = [p \in Procs |-> "idle"]
    /\ command = [p \in Procs |-> "push"]
    /\ target = [p \in Procs |-> CHOOSE d \in Drafts : TRUE]
    /\ copy = [p \in Procs |-> Absent]
    /\ delivered = [d \in Drafts |-> 0]
    /\ approvals = [d \in Drafts |-> IF IsSendEligible(file[d].status) THEN 1 ELSE 0]
    /\ unrecorded = [d \in Drafts |-> 0]
    /\ overlap = [d \in Drafts |-> FALSE]
    /\ crashes = 0 /\ errors = 0 /\ edits = 0 /\ commands = 0

-----------------------------------------------------------------------------
(* Reading *)

SetPc(p, l) == pc' = [pc EXCEPT ![p] = l]
Leave(p) ==
    /\ SetPc(p, "idle")
    /\ command' = [command EXCEPT ![p] = "push"] /\ copy' = [copy EXCEPT ![p] = Absent]
Save(p, f) == file' = [file EXCEPT ![target[p]] = f]
NoteOverlap(d) ==
    overlap' = [overlap EXCEPT ![d] = @ \/ \E q \in Procs : Busy(q, d)]

\* p reads the file of d and begins with c.
Open(p, d, c, l) ==
    /\ pc[p] = "idle"
    /\ SetPc(p, l)
    /\ command' = [command EXCEPT ![p] = c]
    /\ target' = [target EXCEPT ![p] = d]
    /\ copy' = [copy EXCEPT ![p] = file[d]]
    /\ NoteOverlap(d)
    /\ UNCHANGED <<file, late, delivered, approvals, unrecorded, faults, edits>>

\* scan_scheduled over drafts/ and mailboxes/*/drafts/.
Scan(p) ==
    /\ pc[p] = "idle" /\ queue[p] = {}
    /\ LET due == {d \in Drafts : Due(file[d])}
       IN due # {} /\ queue' = [queue EXCEPT ![p] = due]
    /\ UNCHANGED <<file, late, pc, command, target, copy, delivered, history,
                   faults, edits, commands>>

\* The scheduler's next item: draft::run(path, true) reads the file again.
BeginDue(p, d) ==
    /\ d \in queue[p] /\ Sendable(file[d])
    /\ queue' = [queue EXCEPT ![p] = @ \ {d}]
    /\ UNCHANGED commands
    /\ Open(p, d, "push --send", "compose")

\* The gate refuses the item; the schedule run goes on with the next one.
Refuse(p, d) ==
    /\ pc[p] = "idle" /\ d \in queue[p] /\ ~ Sendable(file[d])
    /\ queue' = [queue EXCEPT ![p] = @ \ {d}]
    /\ UNCHANGED <<file, late, pc, command, target, copy, delivered, history,
                   faults, edits, commands>>

ByHand(p, d, c, l) ==
    /\ p # Daemon /\ queue[p] = {}
    /\ commands < MaxCommands /\ commands' = commands + 1
    /\ UNCHANGED queue
    /\ Open(p, d, c, l)

\* `corky draft push FILE [--send]'.
BeginPush(p, d) ==
    \/ Parses(file[d]) /\ ByHand(p, d, "push", "compose")
    \/ Sendable(file[d]) /\ ByHand(p, d, "push --send", "compose")

\* `corky draft send FILE': YAML only, whatever the status.
BeginSend(p, d) == file[d].form = "yaml" /\ ByHand(p, d, "send", "compose")

BeginAttach(p, d) == file[d].form = "yaml" /\ ByHand(p, d, "attach", "edit")
BeginMigrate(p, d) == file[d].form = "legacy" /\ ByHand(p, d, "migrate", "migrate")

\* `corky draft new': unique_path looks for a name that is free.
BeginNew(p, d) == file[d].form = "absent" /\ ByHand(p, d, "new", "new")

-----------------------------------------------------------------------------
(* Delivering *)

\* drafts.create or IMAP APPEND: the draft file is left alone.
PushDraft(p) ==
    /\ pc[p] = "compose" /\ command[p] = "push"
    /\ Leave(p)
    /\ UNCHANGED <<file, late, queue, target, delivered, history,
                   faults, edits, commands>>

\* A legacy file without a Status line can be sent but not be marked.
HasStatus(f) == f.status # "none"

\* SMTP or messages.send accepts the mail of `push --send' or of the scheduler.
Deliver(p) ==
    /\ pc[p] = "compose" /\ command[p] = "push --send"
    /\ delivered' = [delivered EXCEPT ![target[p]] = @ + 1]
    /\ unrecorded' = [unrecorded EXCEPT ![target[p]] = IF HasStatus(copy[p]) THEN @ ELSE @ + 1]
    /\ SetPc(p, "mark")
    /\ UNCHANGED <<file, late, queue, command, target, copy, approvals, overlap,
                   faults, edits, commands>>

\* messages.send accepts the mail of `draft send', which ends there.
DeliverSend(p) ==
    /\ pc[p] = "compose" /\ command[p] = "send"
    /\ delivered' = [delivered EXCEPT ![target[p]] = @ + 1]
    /\ unrecorded' = [unrecorded EXCEPT ![target[p]] = @ + 1]
    /\ Leave(p)
    /\ UNCHANGED <<file, late, queue, target, approvals, overlap,
                   faults, edits, commands>>

Accepted(d, accepted) ==
    LET n == IF accepted THEN 1 ELSE 0
    IN /\ delivered' = [delivered EXCEPT ![d] = @ + n]
       /\ unrecorded' = [unrecorded EXCEPT ![d] = @ + n]

\* Mutant: the draft is marked although sending it failed.
MarksFailed(p, accepted) ==
    /\ pc[p] = "compose" /\ errors < MaxErrors /\ errors' = errors + 1
    /\ accepted => Sends(command[p])
    /\ Accepted(target[p], accepted)
    /\ SetPc(p, IF command[p] = "push --send" THEN "mark" ELSE "idle")
    /\ UNCHANGED <<file, late, queue, command, target, copy, approvals, overlap,
                   crashes, edits, commands>>

\* No account, no token, a bad address, a missing attachment, or an error of the
\* server: the command returns it.  The mail may have been accepted all the same.
DeliverErr(p, accepted) ==
    /\ pc[p] = "compose" /\ errors < MaxErrors /\ errors' = errors + 1
    /\ accepted => Sends(command[p])
    /\ Accepted(target[p], accepted)
    /\ Leave(p)
    /\ UNCHANGED <<file, late, queue, target, approvals, overlap,
                   crashes, edits, commands>>

\* update_draft_status reads the file again, and fails if it does not parse any more.
Mark(p) ==
    /\ pc[p] = "mark"
    /\ IF Parses(file[target[p]])
          THEN /\ copy' = [copy EXCEPT ![p] = file[target[p]]]
               /\ SetPc(p, "marking") /\ UNCHANGED command
          ELSE Leave(p)
    /\ UNCHANGED <<file, late, queue, target, delivered, history,
                   faults, edits, commands>>

-----------------------------------------------------------------------------
(* Writing *)

\* Mutants: the frontmatter is written back as it was read; the status is written as
\* the message has it; migrate starts every draft anew.
WritesOld(p) == IF pc[p] = "new" THEN [form |-> "yaml", status |-> "draft", at |-> "never"] ELSE copy[p]
WritesUnparsed(p) == [copy[p] EXCEPT !.status = "Sent"]
MigrateResets(p) ==
    CASE pc[p] = "marking" -> [copy[p] EXCEPT !.status = "sent"]
      [] pc[p] = "migrate" -> [copy[p] EXCEPT !.form = "yaml", !.status = "draft"]
      [] OTHER -> copy[p]

\* What p writes.  Without a Status line the substitution of update_draft_status
\* finds nothing to replace; migrate turns no status into `draft'.
Written(p) ==
    IF pc[p] = "marking" THEN
        [copy[p] EXCEPT !.status = IF @ = "none" THEN "none" ELSE "sent"]
    ELSE IF pc[p] = "migrate" THEN
        [copy[p] EXCEPT !.form = "yaml", !.status = IF @ = "none" THEN "draft" ELSE @]
    ELSE IF pc[p] = "new" THEN [form |-> "yaml", status |-> "draft", at |-> "never"]
    ELSE copy[p]

Writing == {"marking", "edit", "migrate", "new"}

\* std::fs::write of update_draft_status, add_to_draft, migrate or new.
Write(p) ==
    /\ pc[p] \in Writing
    /\ Save(p, Written(p))
    /\ Leave(p)
    /\ UNCHANGED <<late, queue, target, delivered, history,
                   faults, edits, commands>>

\* The write truncates first: if it fails or is cut off, the file is what it was,
\* no draft any more, or (with its body cut) the new one.
Interrupted(p) ==
    \/ UNCHANGED file
    \/ pc[p] \in Writing /\ (Save(p, Torn) \/ Save(p, Written(p)))

\* The process dies, or its write fails.  A mail in flight may have been accepted.
Crash(p, accepted) ==
    /\ pc[p] # "idle"
    /\ accepted => pc[p] = "compose" /\ Sends(command[p])
    /\ crashes < MaxCrashes /\ crashes' = crashes + 1
    /\ Interrupted(p)
    /\ LET n == IF accepted \/ (pc[p] \in {"mark", "marking"} /\ HasStatus(copy[p])) THEN 1 ELSE 0
       IN unrecorded' = [unrecorded EXCEPT ![target[p]] = @ + n]
    /\ delivered' = [delivered EXCEPT ![target[p]] = IF accepted THEN @ + 1 ELSE @]
    /\ Leave(p)
    /\ queue' = [queue EXCEPT ![p] = {}]
    /\ UNCHANGED <<late, target, approvals, overlap, errors, edits, commands>>

-----------------------------------------------------------------------------
(* The operator and the clock *)

\* The operator releases, withdraws or (re)schedules a draft in an editor.
Operator(d, s, when) ==
    /\ Parses(file[d]) /\ file[d].status # "none"
    /\ s \in {"draft", "review", "scheduled"} /\ when # "never"
    /\ file[d].status # s \/ file[d].at # when
    /\ edits < MaxEdits /\ edits' = edits + 1
    /\ file' = [file EXCEPT ![d].status = s, ![d].at = when]
    /\ approvals' = [approvals EXCEPT ![d] =
           IF IsSendEligible(s) /\ ~ IsSendEligible(file[d].status) THEN @ + 1 ELSE @]
    /\ NoteOverlap(d)
    /\ UNCHANGED <<late, queue, pc, command, target, copy, delivered, unrecorded,
                   faults, commands>>

Clock ==
    /\ ~ late /\ late' = TRUE
    /\ UNCHANGED <<file, queue, pc, command, target, copy, delivered, history,
                   faults, edits, commands>>

-----------------------------------------------------------------------------
Work(p) ==
    \/ Scan(p) \/ Deliver(p) \/ Mark(p) \/ Write(p)
    \/ \E d \in Drafts : BeginDue(p, d) \/ Refuse(p, d)

Command(p) ==
    \/ PushDraft(p) \/ DeliverSend(p)
    \/ \E d \in Drafts : BeginPush(p, d) \/ BeginSend(p, d) \/ BeginAttach(p, d)
                         \/ BeginMigrate(p, d) \/ BeginNew(p, d)

Fault(p) == \E accepted \in BOOLEAN : DeliverErr(p, accepted) \/ Crash(p, accepted)

Next ==
    \/ \E p \in Procs : Work(p) \/ Command(p) \/ Fault(p)
    \/ \E d \in Drafts, s \in EmailDraftStatus, when \in {"early", "late"} : Operator(d, s, when)
    \/ Clock

Spec == Init /\ [][Next]_vars

\* The watch loop ticks for ever, and time passes.
FairSpec == Spec /\ WF_vars(Work(Daemon)) /\ WF_vars(Clock)

-----------------------------------------------------------------------------
(* Properties *)

\* While the actors on a draft take turns, a mail goes out at most once each time the
\* operator releases it, but for the deliveries after which run_internal could not
\* (a crash, an error after the mail was accepted, a legacy file without a Status
\* line) or, for `draft send', would not set the status.
SentOncePerApproval ==
    \A d \in Drafts : ~ overlap[d] => delivered[d] <= approvals[d] + unrecorded[d]

\* Whatever the interleaving, no draft is marked sent whose mail never went out.
SentMeansDelivered == \A d \in Drafts : file[d].status = "sent" => delivered[d] > 0

\* A draft that the operator withdraws while it waits in the scheduler's list is not
\* sent, nor one that was sent meanwhile: run_internal looks at the status again.
\* (`draft send' does not look.)
WithdrawnIsNotSent ==
    [][\A p \in Procs : LET d == target[p] IN
          Deliver(p) /\ ~ overlap[d] => file[d].status \notin {"draft", "sent"}]_vars

\* Only the operator takes a sent draft out of its final state; attach, migrate and a
\* second sender leave it sent, unless they overlapped.
SentIsFinal ==
    [][\A d \in Drafts : file[d].status = "sent" /\ ~ overlap[d] /\ edits' = edits =>
          file'[d].status = "sent" \/ file'[d] = Torn]_vars

\* A draft that is scheduled and due does not stay so: the scheduler sends it in the
\* end, though runs fail, are killed, or meet drafts that are refused.
DueIsSent ==
    \A d \in Drafts : (file[d].status = "scheduled" /\ file[d].at # "never") ~> file[d].status # "scheduled"
=============================================================================
