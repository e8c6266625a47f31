--------------------------- MODULE EmailDraftProofs ---------------------------
(***************************************************************************)
(* Machine-checked proofs about EmailDraft, for every set of drafts and of *)
(* processes and every bound.                                              *)
(***************************************************************************)
EXTENDS EmailDraft, TLAPS

USE DEF history, faults

\* Each action of Next, in the form every proof by cases below uses.
Step ==
    \/ \E p \in Procs :
           \/ Scan(p) \/ Deliver(p) \/ Mark(p) \/ Write(p)
           \/ PushDraft(p) \/ DeliverSend(p)
    \/ \E p \in Procs, d \in Drafts :
           \/ BeginDue(p, d) \/ Refuse(p, d) \/ BeginPush(p, d) \/ BeginSend(p, d)
           \/ BeginAttach(p, d) \/ BeginMigrate(p, d) \/ BeginNew(p, d)
    \/ \E p \in Procs, b \in BOOLEAN : DeliverErr(p, b) \/ Crash(p, b)
    \/ \E d \in Drafts, s \in EmailDraftStatus, when \in {"early", "late"} : Operator(d, s, when)
    \/ Clock

\* The case split is the next-state relation.
LEMMA NextIsStep == Next <=> Step
BY DEF Next, Work, Command, Fault, Step

-----------------------------------------------------------------------------
(* What a process reads and writes *)

LEMMA FileFacts ==
    /\ Absent \in FileState /\ Absent.form = "absent" /\ Absent.status = "none"
    /\ Torn \in FileState /\ Torn.form = "torn" /\ Torn.status = "none"
    /\ \A f \in FileState : /\ f.form \in {"absent", "torn", "legacy", "yaml"}
                            /\ f.status \in EmailDraftStatus \cup {"none"}
BY DEF FileState, Absent, Torn

\* What the operator makes of it.
LEMMA EditedFacts ==
    ASSUME NEW f \in FileState, NEW s \in EmailDraftStatus, NEW when \in {"early", "late"}
    PROVE  /\ [f EXCEPT !.status = s, !.at = when] \in FileState
           /\ [f EXCEPT !.status = s, !.at = when].status = s
           /\ [f EXCEPT !.status = s, !.at = when].form = f.form
BY DEF FileState

\* What each of the four writers makes of the file it has read.
LEMMA WrittenFacts ==
    ASSUME TypeOK, NEW p \in Procs, pc[p] \in Writing
    PROVE  /\ Written(p) \in FileState
           /\ pc[p] = "marking" => /\ Written(p).form = copy[p].form
                                   /\ Written(p).status =
                                        IF copy[p].status = "none" THEN "none" ELSE "sent"
           /\ pc[p] = "migrate" => /\ Written(p).form = "yaml"
                                   /\ Written(p).status =
                                        IF copy[p].status = "none" THEN "draft" ELSE copy[p].status
           /\ pc[p] = "new" => Written(p).form = "yaml" /\ Written(p).status = "draft"
           /\ pc[p] = "edit" => Written(p) = copy[p]
<1> DEFINE f == copy[p]
<1>1. f \in FileState
  BY DEF TypeOK
<1>2. CASE pc[p] = "marking"
  <2> DEFINE s == IF f.status = "none" THEN "none" ELSE "sent"
  <2>1. Written(p) = [f EXCEPT !.status = s]
    BY <1>2 DEF Written
  <2>2. s \in EmailDraftStatus \cup {"none"}
    BY DEF EmailDraftStatus
  <2> HIDE DEF s, f
  <2>3. [f EXCEPT !.status = s] \in FileState /\ [f EXCEPT !.status = s].form = f.form
        /\ [f EXCEPT !.status = s].status = s
    BY <1>1, <2>2 DEF FileState
  <2> QED BY <1>2, <2>1, <2>3 DEF s, f
<1>3. CASE pc[p] = "migrate"
  <2> DEFINE s == IF f.status = "none" THEN "draft" ELSE f.status
             g == [f EXCEPT !.form = "yaml", !.status = s]
  <2>1. Written(p) = g
    BY <1>1, <1>3 DEF Written, FileState
  <2>2. s \in EmailDraftStatus \cup {"none"}
    BY <1>1 DEF EmailDraftStatus, FileState
  <2> HIDE DEF s, f
  <2>3. g \in FileState /\ g.form = "yaml" /\ g.status = s
    BY <1>1, <2>2 DEF FileState
  <2> QED BY <1>3, <2>1, <2>3 DEF s, f
<1>4. CASE pc[p] = "new"
  BY <1>4 DEF Written, FileState, EmailDraftStatus
<1>5. CASE pc[p] = "edit"
  BY <1>1, <1>5 DEF Written
<1> QED BY <1>2, <1>3, <1>4, <1>5 DEF Writing

-----------------------------------------------------------------------------
(* Types *)

\* The history of overlaps stays a Boolean per draft, and never forgets one.
LEMMA NoteOverlapType ==
    ASSUME NEW d \in Drafts, overlap \in [Drafts -> BOOLEAN], NoteOverlap(d)
    PROVE  /\ overlap' \in [Drafts -> BOOLEAN]
           /\ \A e \in Drafts : overlap[e] => overlap'[e]
           /\ (\E q \in Procs : Busy(q, d)) => overlap'[d]
<1> DEFINE b == overlap[d] \/ \E q \in Procs : Busy(q, d)
<1>1. b \in BOOLEAN /\ (overlap[d] => b) /\ ((\E q \in Procs : Busy(q, d)) => b)
  OBVIOUS
<1>2. overlap' = [overlap EXCEPT ![d] = b]
  BY DEF NoteOverlap
<1> HIDE DEF b
<1> QED BY <1>1, <1>2

\* A process that stops has an empty copy again.
LEMMA LeaveType ==
    ASSUME TypeOK, NEW p \in Procs, Leave(p)
    PROVE  /\ pc' \in [Procs -> Pcs] /\ command' \in [Procs -> Commands]
           /\ copy' \in [Procs -> FileState]
BY FileFacts DEF TypeOK, Leave, SetPc, Pcs, Commands

\* What the starting actions have in common.
Starts(p, d) ==
    \/ BeginDue(p, d) \/ BeginPush(p, d) \/ BeginSend(p, d)
    \/ BeginAttach(p, d) \/ BeginMigrate(p, d) \/ BeginNew(p, d)

LEMMA OpenCases ==
    ASSUME NEW p \in Procs, NEW d \in Drafts, Starts(p, d)
    PROVE  \/ Open(p, d, "push", "compose") /\ Parses(file[d])
           \/ Open(p, d, "push --send", "compose") /\ Sendable(file[d])
           \/ Open(p, d, "send", "compose") /\ file[d].form = "yaml"
           \/ Open(p, d, "attach", "edit") /\ file[d].form = "yaml"
           \/ Open(p, d, "migrate", "migrate") /\ file[d].form = "legacy"
           \/ Open(p, d, "new", "new") /\ file[d].form = "absent"
BY DEF Starts, BeginDue, BeginPush, BeginSend, BeginAttach, BeginMigrate, BeginNew, ByHand

\* The same, for what depends on the kind of command only by where it leads.
LEMMA OpenSomehow ==
    ASSUME NEW p \in Procs, NEW d \in Drafts, Starts(p, d)
    PROVE  \E c \in Commands, l \in Pcs : Open(p, d, c, l)
BY OpenCases DEF Commands, Pcs

LEMMA TypeInit == Init => TypeOK
<1> SUFFICES ASSUME Init PROVE TypeOK
  OBVIOUS
<1> USE EmailAssumption
<1>1. file \in [Drafts -> FileState]
  BY FileFacts DEF Init, FileState, EmailDraftStatus
<1>2. target \in [Procs -> Drafts]
  <2>1. (CHOOSE d \in Drafts : TRUE) \in Drafts
    OBVIOUS
  <2> QED BY <2>1 DEF Init
<1>3. pc \in [Procs -> Pcs] /\ command \in [Procs -> Commands] /\ queue \in [Procs -> SUBSET Drafts]
  BY DEF Init, Pcs, Commands
<1>4. copy \in [Procs -> FileState]
  BY FileFacts DEF Init
<1>5. approvals \in [Drafts -> Nat] /\ delivered \in [Drafts -> Nat] /\ unrecorded \in [Drafts -> Nat]
  BY DEF Init
<1>6. late \in BOOLEAN /\ overlap \in [Drafts -> BOOLEAN]
  BY DEF Init
<1>7. /\ crashes \in 0..MaxCrashes /\ errors \in 0..MaxErrors
      /\ edits \in 0..MaxEdits /\ commands \in 0..MaxCommands
  <2>1. crashes = 0 /\ errors = 0 /\ edits = 0 /\ commands = 0
    BY DEF Init
  <2> QED BY <2>1
<1> QED BY <1>1, <1>2, <1>3, <1>4, <1>5, <1>6, <1>7 DEF TypeOK

LEMMA TypeStep ==
    ASSUME TypeOK, Step
    PROVE  TypeOK'
<1> USE EmailAssumption DEF TypeOK
<1>1. ASSUME NEW p \in Procs, Scan(p) PROVE TypeOK'
  BY <1>1 DEF Scan
<1>2. ASSUME NEW p \in Procs, Deliver(p) PROVE TypeOK'
  <2>1. delivered' \in [Drafts -> Nat] /\ unrecorded' \in [Drafts -> Nat]
    <3> DEFINE n == IF HasStatus(copy[p]) THEN unrecorded[target[p]] ELSE unrecorded[target[p]] + 1
    <3>1. n \in Nat
      OBVIOUS
    <3>2. /\ delivered' = [delivered EXCEPT ![target[p]] = @ + 1]
          /\ unrecorded' = [unrecorded EXCEPT ![target[p]] = n]
      BY <1>2 DEF Deliver
    <3> HIDE DEF n
    <3> QED BY <3>1, <3>2
  <2> QED BY <1>2, <2>1 DEF Deliver, SetPc, Pcs
<1>3. ASSUME NEW p \in Procs, Mark(p) PROVE TypeOK'
  <2>1. CASE Parses(file[target[p]])
    BY <1>3, <2>1 DEF Mark, SetPc, Pcs
  <2>2. CASE ~ Parses(file[target[p]])
    BY <1>3, <2>2, LeaveType DEF Mark
  <2> QED BY <2>1, <2>2
<1>4. ASSUME NEW p \in Procs, Write(p) PROVE TypeOK'
  <2>1. file' \in [Drafts -> FileState]
    BY <1>4, WrittenFacts DEF Write, Save
  <2> QED BY <1>4, <2>1, LeaveType DEF Write
<1>5. ASSUME NEW p \in Procs, PushDraft(p) PROVE TypeOK'
  BY <1>5, LeaveType DEF PushDraft
<1>6. ASSUME NEW p \in Procs, DeliverSend(p) PROVE TypeOK'
  <2>1. delivered' \in [Drafts -> Nat] /\ unrecorded' \in [Drafts -> Nat]
    BY <1>6 DEF DeliverSend
  <2> QED BY <1>6, <2>1, LeaveType DEF DeliverSend
<1>7. ASSUME NEW p \in Procs, NEW d \in Drafts, Starts(p, d) PROVE TypeOK'
  <2>1. PICK c \in Commands, l \in Pcs : Open(p, d, c, l)
    BY <1>7, OpenSomehow
  <2>2. queue' \in [Procs -> SUBSET Drafts] /\ commands' \in 0..MaxCommands
    <3>1. CASE BeginDue(p, d)
      BY <3>1 DEF BeginDue
    <3>2. CASE ~ BeginDue(p, d)
      <4>1. queue' = queue /\ commands < MaxCommands /\ commands' = commands + 1
        BY <1>7, <3>2 DEF Starts, BeginPush, BeginSend, BeginAttach, BeginMigrate, BeginNew, ByHand
      <4> QED BY <4>1
    <3> QED BY <3>1, <3>2
  <2>3. overlap' \in [Drafts -> BOOLEAN]
    BY <2>1, NoteOverlapType DEF Open
  <2> QED BY <2>1, <2>2, <2>3 DEF Open, SetPc
<1>8. ASSUME NEW p \in Procs, NEW d \in Drafts, Refuse(p, d) PROVE TypeOK'
  BY <1>8 DEF Refuse
<1>9. ASSUME NEW p \in Procs, NEW b \in BOOLEAN, DeliverErr(p, b) PROVE TypeOK'
  <2>1. delivered' \in [Drafts -> Nat] /\ unrecorded' \in [Drafts -> Nat]
    BY <1>9 DEF DeliverErr, Accepted
  <2> QED BY <1>9, <2>1, LeaveType DEF DeliverErr
<1>10. ASSUME NEW p \in Procs, NEW b \in BOOLEAN, Crash(p, b) PROVE TypeOK'
  <2>1. file' \in [Drafts -> FileState]
    BY <1>10, WrittenFacts, FileFacts DEF Crash, Interrupted, Save
  <2>2. delivered' \in [Drafts -> Nat] /\ unrecorded' \in [Drafts -> Nat]
    BY <1>10 DEF Crash
  <2>3. queue' \in [Procs -> SUBSET Drafts] /\ crashes' \in 0..MaxCrashes
    BY <1>10 DEF Crash
  <2> QED BY <1>10, <2>1, <2>2, <2>3, LeaveType DEF Crash
<1>11. ASSUME NEW d \in Drafts, NEW s \in EmailDraftStatus, NEW when \in {"early", "late"},
              Operator(d, s, when)
       PROVE TypeOK'
  <2>1. [file[d] EXCEPT !.status = s, !.at = when] \in FileState
    BY EditedFacts
  <2>2. file' \in [Drafts -> FileState]
    BY <1>11, <2>1 DEF Operator
  <2>3. overlap' \in [Drafts -> BOOLEAN]
    BY <1>11, NoteOverlapType DEF Operator
  <2>4. approvals' \in [Drafts -> Nat] /\ edits' \in 0..MaxEdits
    BY <1>11 DEF Operator
  <2> QED BY <1>11, <2>2, <2>3, <2>4 DEF Operator
<1>12. CASE Clock
  BY <1>12 DEF Clock
<1> QED
  BY <1>1, <1>2, <1>3, <1>4, <1>5, <1>6, <1>7, <1>8, <1>9, <1>10, <1>11, <1>12 DEF Step, Starts

\* Every variable keeps its type: no writer leaves a status that the parser of draft/mod.rs
\* rejects, whatever it read, and no process holds a command that is none.
THEOREM TypeCorrect == Spec => []TypeOK
<1>1. TypeOK /\ [Next]_vars => TypeOK'
  BY TypeStep, NextIsStep DEF vars, TypeOK
<1> QED BY <1>1, TypeInit, PTL DEF Spec

-----------------------------------------------------------------------------
(* The inductive invariant *)

\* A file that says `sent' speaks of one of n > 0 deliveries, and what is no draft says nothing.
TrueOf(f, n) ==
    /\ f.status = "sent" => n > 0
    /\ f.form \in {"absent", "torn"} => f.status = "none"

\* So does every file, and every copy that a process works on; and nothing is marked
\* before it has gone out.
Truthful ==
    /\ \A d \in Drafts : TrueOf(file[d], delivered[d])
    /\ \A p \in Procs : pc[p] # "idle" =>
           /\ TrueOf(copy[p], delivered[target[p]])
           /\ pc[p] \in {"mark", "marking"} => delivered[target[p]] > 0

\* Deliveries of d do not outnumber what they may, and there is one to spare.
Settled(d) == delivered[d] <= approvals[d] + unrecorded[d]
Spare(d) == delivered[d] + 1 <= approvals[d] + unrecorded[d]

\* What a process that is alone on draft d knows at each of its steps: its copy is the
\* file, and a draft that may be sent has a release that no delivery has used up, until
\* the mail has gone out and the mark is due.
AloneAt(p, d) ==
    /\ copy[p] = file[d]
    /\ pc[p] = "compose" => Parses(file[d])
    /\ pc[p] = "compose" /\ command[p] = "push --send" => Sendable(file[d])
    /\ pc[p] = "edit" => file[d].form = "yaml"
    /\ pc[p] = "migrate" => file[d].form = "legacy"
    /\ pc[p] = "new" => file[d].form = "absent"
    /\ pc[p] \in {"mark", "marking"} => Sendable(file[d])
    /\ pc[p] \notin {"mark", "marking"} /\ IsSendEligible(file[d].status) => Spare(d)

TakesTurns(d) ==
    /\ Settled(d)
    /\ \A p, q \in Procs : Busy(p, d) /\ Busy(q, d) => p = q
    /\ \A p \in Procs : Busy(p, d) => AloneAt(p, d)
    /\ (\A p \in Procs : ~ Busy(p, d)) /\ IsSendEligible(file[d].status) => Spare(d)

Turns == \A d \in Drafts : ~ overlap[d] => TakesTurns(d)

IInv == TypeOK /\ Truthful /\ Turns

-----------------------------------------------------------------------------
(* Marks are true *)

LEMMA TruthfulInit == Init => Truthful
<1> SUFFICES ASSUME Init PROVE Truthful
  OBVIOUS
<1>1. \A d \in Drafts : file[d].status # "sent"
                         /\ (file[d].form \in {"absent", "torn"} => file[d].status = "none")
  BY FileFacts DEF Init
<1>2. \A p \in Procs : pc[p] = "idle"
  BY DEF Init
<1> QED BY <1>1, <1>2 DEF Truthful, TrueOf

\* What a writer saves is as true as what it has read.
LEMMA WrittenIsTrue ==
    ASSUME TypeOK, Truthful, NEW p \in Procs, pc[p] \in Writing
    PROVE  TrueOf(Written(p), delivered[target[p]])
BY WrittenFacts DEF Truthful, TrueOf, Writing

\* A mail that has gone out stays so.
Mails == \A d \in Drafts : delivered[d] <= delivered'[d]

\* It is enough that the process that moves, and the file that changes, tell the truth.
LEMMA TruthfulLocal ==
    ASSUME TypeOK, TypeOK', Truthful, Mails, NEW p \in Procs,
           \A q \in Procs : q # p => pc'[q] = pc[q] /\ copy'[q] = copy[q] /\ target'[q] = target[q],
           \A d \in Drafts : file'[d] = file[d] \/ TrueOf(file'[d], delivered'[d]),
           pc'[p] # "idle" => /\ TrueOf(copy'[p], delivered'[target'[p]])
                              /\ pc'[p] \in {"mark", "marking"} => delivered'[target'[p]] > 0
    PROVE  Truthful'
<1>1. \A d \in Drafts, f \in FileState : TrueOf(f, delivered[d]) => TrueOf(f, delivered'[d])
  BY DEF TrueOf, Mails, TypeOK
<1>2. \A d \in Drafts : TrueOf(file'[d], delivered'[d])
  BY <1>1 DEF Truthful, TypeOK
<1>3. ASSUME NEW q \in Procs, pc'[q] # "idle"
      PROVE  /\ TrueOf(copy'[q], delivered'[target'[q]])
             /\ pc'[q] \in {"mark", "marking"} => delivered'[target'[q]] > 0
  <2>1. CASE q = p
    BY <1>3, <2>1
  <2>2. CASE q # p
    BY <1>1, <1>3, <2>2 DEF Truthful, Mails, TypeOK
  <2> QED BY <2>1, <2>2
<1> QED BY <1>2, <1>3 DEF Truthful

LEMMA TruthfulStep ==
    ASSUME TypeOK, TypeOK', Truthful, Step
    PROVE  Truthful'
<1>1. ASSUME NEW p \in Procs, Scan(p) \/ \E d \in Drafts : Refuse(p, d) PROVE Truthful'
  BY <1>1 DEF Scan, Refuse, Truthful
<1>2. CASE Clock
  BY <1>2 DEF Clock, Truthful
<1>3. ASSUME NEW p \in Procs, Write(p) PROVE Truthful'
  <2>1. Mails /\ pc'[p] = "idle"
    BY <1>3 DEF Write, Leave, SetPc, Mails, TypeOK
  <2>2. \A d \in Drafts : file'[d] = file[d] \/ TrueOf(file'[d], delivered'[d])
    BY <1>3, WrittenIsTrue DEF Write, Save, TypeOK
  <2>3. \A q \in Procs : q # p => pc'[q] = pc[q] /\ copy'[q] = copy[q] /\ target'[q] = target[q]
    BY <1>3 DEF Write, Leave, SetPc, TypeOK
  <2> QED BY <2>1, <2>2, <2>3, TruthfulLocal
<1>4. ASSUME NEW p \in Procs, Deliver(p) PROVE Truthful'
  <2>1. Mails /\ delivered'[target'[p]] > 0
    <3>1. delivered' = [delivered EXCEPT ![target[p]] = @ + 1] /\ target' = target
      BY <1>4 DEF Deliver
    <3> QED BY <3>1 DEF Mails, TypeOK
  <2>2. TrueOf(copy'[p], delivered'[target'[p]])
    BY <1>4, <2>1 DEF Deliver, Truthful, TrueOf, TypeOK
  <2>3. file' = file /\ \A q \in Procs : q # p => pc'[q] = pc[q] /\ copy'[q] = copy[q] /\ target'[q] = target[q]
    BY <1>4 DEF Deliver, SetPc, TypeOK
  <2> QED BY <2>1, <2>2, <2>3, TruthfulLocal
<1>5. ASSUME NEW p \in Procs, Mark(p) PROVE Truthful'
  <2>1. Mails /\ file' = file /\ delivered' = delivered /\ target' = target
    BY <1>5 DEF Mark, Mails, TypeOK
  <2>2. \A q \in Procs : q # p => pc'[q] = pc[q] /\ copy'[q] = copy[q]
    BY <1>5 DEF Mark, Leave, SetPc, TypeOK
  <2>3. pc'[p] # "idle" => copy'[p] = file[target[p]]
    BY <1>5 DEF Mark, Leave, SetPc, TypeOK
  <2>4. delivered[target[p]] > 0
    BY <1>5 DEF Mark, Truthful
  <2> QED BY <2>1, <2>2, <2>3, <2>4, TruthfulLocal DEF Truthful, TypeOK
<1>6. ASSUME NEW p \in Procs,
             PushDraft(p) \/ DeliverSend(p) \/ \E b \in BOOLEAN : DeliverErr(p, b)
      PROVE  Truthful'
  <2>1. Mails /\ file' = file /\ target' = target
    <3>1. CASE PushDraft(p)
      BY <3>1 DEF PushDraft, Mails, TypeOK
    <3>2. CASE DeliverSend(p)
      BY <3>2 DEF DeliverSend, Mails, TypeOK
    <3>3. ASSUME NEW b \in BOOLEAN, DeliverErr(p, b) PROVE Mails /\ file' = file /\ target' = target
      BY <3>3 DEF DeliverErr, Accepted, Mails, TypeOK
    <3> QED BY <1>6, <3>1, <3>2, <3>3
  <2>2. Leave(p)
    BY <1>6 DEF PushDraft, DeliverSend, DeliverErr
  <2>3. pc'[p] = "idle" /\ \A q \in Procs : q # p => pc'[q] = pc[q] /\ copy'[q] = copy[q]
    BY <2>2 DEF Leave, SetPc, TypeOK
  <2> QED BY <2>1, <2>3, TruthfulLocal
<1>7. ASSUME NEW p \in Procs, NEW b \in BOOLEAN, Crash(p, b) PROVE Truthful'
  <2>1. Mails /\ target' = target /\ Leave(p)
    BY <1>7 DEF Crash, Mails, TypeOK
  <2>2. pc'[p] = "idle" /\ \A q \in Procs : q # p => pc'[q] = pc[q] /\ copy'[q] = copy[q]
    BY <2>1 DEF Leave, SetPc, TypeOK
  <2>3. ASSUME NEW d \in Drafts PROVE file'[d] = file[d] \/ TrueOf(file'[d], delivered'[d])
    <3>1. CASE file' = file
      BY <3>1
    <3>2. CASE pc[p] \in Writing /\ Save(p, Torn)
      BY <3>2, FileFacts DEF Save, TrueOf, TypeOK
    <3>3. CASE pc[p] \in Writing /\ Save(p, Written(p))
      <4>1. delivered' = delivered
        BY <1>7, <3>3 DEF Crash, Writing, TypeOK
      <4> QED BY <3>3, <4>1, WrittenIsTrue DEF Save, TypeOK
    <3> QED BY <1>7, <3>1, <3>2, <3>3 DEF Crash, Interrupted
  <2> QED BY <2>1, <2>2, <2>3, TruthfulLocal
<1>8. ASSUME NEW p \in Procs, NEW d \in Drafts, Starts(p, d) PROVE Truthful'
  <2>1. PICK c \in Commands, l \in Pcs \ {"mark", "marking"} : Open(p, d, c, l)
    BY <1>8, OpenCases DEF Commands, Pcs
  <2>2. Mails /\ file' = file /\ delivered' = delivered
    BY <2>1 DEF Open, Mails, TypeOK
  <2>3. copy'[p] = file[d] /\ target'[p] = d /\ pc'[p] = l
    BY <2>1 DEF Open, SetPc, TypeOK
  <2>4. \A q \in Procs : q # p => pc'[q] = pc[q] /\ copy'[q] = copy[q] /\ target'[q] = target[q]
    BY <2>1 DEF Open, SetPc, TypeOK
  <2> QED BY <2>1, <2>2, <2>3, <2>4, TruthfulLocal DEF Truthful
<1>9. ASSUME NEW d \in Drafts, NEW s \in EmailDraftStatus, NEW when \in {"early", "late"},
             Operator(d, s, when)
      PROVE  Truthful'
  <2>1. delivered' = delivered /\ pc' = pc /\ copy' = copy /\ target' = target
    BY <1>9 DEF Operator
  <2>2. ASSUME NEW e \in Drafts PROVE TrueOf(file'[e], delivered[e])
    <3>1. CASE e = d
      <4>1. file'[e].status = s /\ file'[e].form = file[d].form
        <5> DEFINE f == [file[d] EXCEPT !.status = s, !.at = when]
        <5>1. file' = [file EXCEPT ![d] = f]
          BY <1>9 DEF Operator
        <5>2. file[d] \in FileState
          BY DEF TypeOK
        <5>3. f.status = s /\ f.form = file[d].form
          BY <5>2, EditedFacts
        <5> HIDE DEF f
        <5> QED BY <3>1, <5>1, <5>3 DEF TypeOK
      <4> QED BY <1>9, <4>1 DEF Operator, TrueOf, Parses
    <3>2. CASE e # d
      BY <1>9, <3>2 DEF Operator, Truthful, TypeOK
    <3> QED BY <3>1, <3>2
  <2> QED BY <2>1, <2>2 DEF Truthful
<1> QED
  BY <1>1, <1>2, <1>3, <1>4, <1>5, <1>6, <1>7, <1>8, <1>9 DEF Step, Starts

-----------------------------------------------------------------------------
(* Taking turns *)

\* A step of p on its own draft: nothing else of any process or draft changes.
Local(p) ==
    /\ pc[p] # "idle" /\ overlap' = overlap /\ target' = target
    /\ \A q \in Procs : q # p => pc'[q] = pc[q] /\ copy'[q] = copy[q] /\ command'[q] = command[q]
    /\ approvals' = approvals
    /\ \A d \in Drafts : d # target[p] =>
           file'[d] = file[d] /\ delivered'[d] = delivered[d] /\ unrecorded'[d] = unrecorded[d]

\* What p knows of draft d while it is the only one at work there.
Known(p, d) ==
    /\ Settled(d)
    /\ pc[p] # "idle" => AloneAt(p, d)
    /\ pc[p] = "idle" /\ IsSendEligible(file[d].status) => Spare(d)

\* It is enough to look at the draft and the process of a local step.
LEMMA LocalStep ==
    ASSUME TypeOK, Turns, NEW p \in Procs, Local(p),
           NEW e \in Drafts, e = target[p],
           ~ overlap[e] /\ TakesTurns(e) => Known(p, e)'
    PROVE  Turns'
<1> SUFFICES ASSUME NEW d \in Drafts, ~ overlap'[d] PROVE TakesTurns(d)'
  BY DEF Turns
<1>1. ~ overlap[d] /\ TakesTurns(d)
  BY DEF Local, Turns
<1>2. CASE d # target[p]
  <2>1. /\ file'[d] = file[d] /\ delivered'[d] = delivered[d] /\ unrecorded'[d] = unrecorded[d]
        /\ approvals'[d] = approvals[d]
    BY <1>2 DEF Local
  <2>2. \A q \in Procs : /\ Busy(q, d)' <=> Busy(q, d)
                         /\ Busy(q, d) => q # p
    BY <1>2 DEF Local, Busy
  <2>3. Settled(d)' /\ (Spare(d)' <=> Spare(d))
    BY <1>1, <2>1 DEF TakesTurns, Settled, Spare
  <2>4. ASSUME NEW q \in Procs, Busy(q, d)' PROVE AloneAt(q, d)'
    <3>1. AloneAt(q, d) /\ pc'[q] = pc[q] /\ copy'[q] = copy[q] /\ command'[q] = command[q]
      BY <1>1, <2>2, <2>4 DEF TakesTurns, Local
    <3> QED BY <2>1, <2>3, <3>1 DEF AloneAt, Sendable, Parses
  <2> QED BY <1>1, <2>1, <2>2, <2>3, <2>4 DEF TakesTurns
<1>3. CASE d = target[p]
  <2>1. \A q \in Procs : Busy(q, d)' => q = p
    BY <1>1, <1>3 DEF Local, Busy, TakesTurns
  <2>2. Known(p, d)'
    BY <1>1, <1>3
  <2>3. Busy(p, d)' <=> pc'[p] # "idle"
    BY <1>3 DEF Local, Busy
  <2> QED BY <2>1, <2>2, <2>3 DEF TakesTurns, Known
<1> QED BY <1>2, <1>3

LEMMA TurnsInit == Init => Turns
<1> SUFFICES ASSUME Init, NEW d \in Drafts PROVE TakesTurns(d)
  BY DEF Turns
<1>1. \A p \in Procs : ~ Busy(p, d)
  BY DEF Init, Busy
<1>2. /\ delivered[d] = 0 /\ unrecorded[d] = 0
      /\ approvals[d] = IF IsSendEligible(file[d].status) THEN 1 ELSE 0
  BY DEF Init
<1>3. Settled(d) /\ (IsSendEligible(file[d].status) => Spare(d))
  BY <1>2 DEF Settled, Spare
<1> QED BY <1>1, <1>3 DEF TakesTurns

\* What else changes is nothing that the invariant is about.
LEMMA TurnsUnchanged ==
    ASSUME Turns,
           UNCHANGED <<file, delivered, unrecorded, approvals, overlap, pc, copy, command, target>>
    PROVE  Turns'
<1> SUFFICES ASSUME NEW d \in Drafts, ~ overlap'[d] PROVE TakesTurns(d)'
  BY DEF Turns
<1>2. TakesTurns(d)
  BY DEF Turns
<1>3. \A q \in Procs : Busy(q, d)' <=> Busy(q, d)
  BY DEF Busy
<1>4. Settled(d)' /\ (Spare(d)' <=> Spare(d))
  BY <1>2 DEF TakesTurns, Settled, Spare
<1>5. \A q \in Procs : AloneAt(q, d) => AloneAt(q, d)'
  BY <1>4 DEF AloneAt, Sendable, Parses
<1> QED BY <1>2, <1>3, <1>4, <1>5 DEF TakesTurns

\* Scanning, refusing and the clock change nothing of this.
LEMMA TurnsIdle ==
    ASSUME Turns, Clock \/ \E p \in Procs : Scan(p) \/ \E d \in Drafts : Refuse(p, d)
    PROVE  Turns'
BY TurnsUnchanged DEF Clock, Scan, Refuse

\* Starting on a draft: either nobody else is at work on it, or the overlap is noted.
LEMMA TurnsOpen ==
    ASSUME TypeOK, TypeOK', Truthful, Turns, NEW p \in Procs, NEW d \in Drafts, Starts(p, d)
    PROVE  Turns'
<1>1. PICK c \in Commands, l \in Pcs \ {"idle", "mark", "marking"} :
         /\ Open(p, d, c, l)
         /\ l = "compose" => Parses(file[d])
         /\ l = "compose" /\ c = "push --send" => Sendable(file[d])
         /\ l = "edit" => file[d].form = "yaml"
         /\ l = "migrate" => file[d].form = "legacy"
         /\ l = "new" => file[d].form = "absent"
  <2> DEFINE Fits(c, l) ==
         /\ Open(p, d, c, l)
         /\ l = "compose" => Parses(file[d])
         /\ l = "compose" /\ c = "push --send" => Sendable(file[d])
         /\ l = "edit" => file[d].form = "yaml"
         /\ l = "migrate" => file[d].form = "legacy"
         /\ l = "new" => file[d].form = "absent"
  <2>1. \/ Fits("push", "compose") \/ Fits("push --send", "compose") \/ Fits("send", "compose")
        \/ Fits("attach", "edit") \/ Fits("migrate", "migrate") \/ Fits("new", "new")
    BY OpenCases DEF Sendable, Parses
  <2>2. /\ {"push", "push --send", "send", "attach", "migrate", "new"} \subseteq Commands
        /\ {"compose", "edit", "migrate", "new"} \subseteq Pcs \ {"idle", "mark", "marking"}
    BY DEF Commands, Pcs
  <2> HIDE DEF Fits
  <2>3. \E c \in Commands, l \in Pcs \ {"idle", "mark", "marking"} : Fits(c, l)
    BY <2>1, <2>2
  <2> QED BY <2>3 DEF Fits
<1>2. /\ pc' = [pc EXCEPT ![p] = l] /\ target' = [target EXCEPT ![p] = d]
      /\ copy' = [copy EXCEPT ![p] = file[d]] /\ command' = [command EXCEPT ![p] = c]
      /\ file' = file /\ delivered' = delivered /\ approvals' = approvals
      /\ unrecorded' = unrecorded /\ pc[p] = "idle" /\ NoteOverlap(d)
  BY <1>1 DEF Open, SetPc
<1> SUFFICES ASSUME NEW e \in Drafts, ~ overlap'[e] PROVE TakesTurns(e)'
  BY DEF Turns
<1>3. ~ overlap[e] /\ TakesTurns(e)
  BY <1>2, NoteOverlapType DEF Turns, TypeOK
<1>4. \A q \in Procs : q # p => /\ Busy(q, e)' <=> Busy(q, e)
                                /\ pc'[q] = pc[q] /\ copy'[q] = copy[q] /\ command'[q] = command[q]
  BY <1>2 DEF Busy, TypeOK
<1>5. file'[e] = file[e] /\ Settled(e)' /\ (Spare(e)' <=> Spare(e))
  BY <1>2, <1>3 DEF TakesTurns, Settled, Spare
<1>6. CASE e # d
  <2>1. ~ Busy(p, e)' /\ ~ Busy(p, e)
    BY <1>2, <1>6 DEF Busy, TypeOK
  <2>2. ASSUME NEW q \in Procs, Busy(q, e)' PROVE AloneAt(q, e)'
    <3>1. AloneAt(q, e) /\ q # p
      BY <1>3, <1>4, <2>1, <2>2 DEF TakesTurns
    <3> QED BY <1>4, <1>5, <3>1 DEF AloneAt, Sendable, Parses
  <2> QED BY <1>3, <1>4, <1>5, <2>1, <2>2 DEF TakesTurns
<1>7. CASE e = d
  <2>1. \A q \in Procs : ~ Busy(q, d)
    BY <1>2, <1>7, NoteOverlapType DEF TypeOK
  <2>2. AloneAt(p, d)'
    <3>1. copy'[p] = file'[d] /\ pc'[p] = l /\ command'[p] = c /\ file'[d] = file[d]
      BY <1>2 DEF TypeOK
    <3>2. IsSendEligible(file[d].status) => Spare(d)'
      BY <1>3, <1>5, <1>7, <2>1 DEF TakesTurns
    <3> QED BY <1>1, <3>1, <3>2 DEF AloneAt, Sendable, Parses
  <2>3. \A q \in Procs : Busy(q, d)' => q = p
    BY <1>4, <1>7, <2>1
  <2>4. Busy(p, d)'
    BY <1>2 DEF Busy, TypeOK
  <2> QED BY <1>5, <1>7, <2>2, <2>3, <2>4 DEF TakesTurns
<1> QED BY <1>6, <1>7

\* The operator either finds the draft unattended, or the overlap is noted; and each time
\* a draft becomes one that may be sent, he has released it once more.
LEMMA TurnsOperator ==
    ASSUME TypeOK, TypeOK', Turns, NEW d \in Drafts, NEW s \in EmailDraftStatus,
           NEW when \in {"early", "late"}, Operator(d, s, when)
    PROVE  Turns'
<1> SUFFICES ASSUME NEW e \in Drafts, ~ overlap'[e] PROVE TakesTurns(e)'
  BY DEF Turns
<1>1. UNCHANGED <<pc, command, target, copy, delivered, unrecorded>> /\ NoteOverlap(d)
  BY DEF Operator
<1>2. ~ overlap[e] /\ TakesTurns(e)
  BY <1>1, NoteOverlapType DEF Turns, TypeOK
<1>3. \A q \in Procs : Busy(q, e)' <=> Busy(q, e)
  BY <1>1 DEF Busy
<1>4. CASE e # d
  <2>1. file'[e] = file[e] /\ approvals'[e] = approvals[e]
    BY <1>4 DEF Operator, TypeOK
  <2>2. Settled(e)' /\ (Spare(e)' <=> Spare(e))
    BY <1>1, <1>2, <2>1 DEF TakesTurns, Settled, Spare
  <2>3. \A q \in Procs : AloneAt(q, e) => AloneAt(q, e)'
    BY <1>1, <2>1, <2>2 DEF AloneAt, Sendable, Parses
  <2> QED BY <1>2, <1>3, <2>1, <2>2, <2>3 DEF TakesTurns
<1>5. CASE e = d
  <2>1. \A q \in Procs : ~ Busy(q, d)
    BY <1>1, <1>5, NoteOverlapType DEF TypeOK
  <2>2. file'[d].status = s
    <3> DEFINE f == [file[d] EXCEPT !.status = s, !.at = when]
    <3>1. file' = [file EXCEPT ![d] = f]
      BY DEF Operator
    <3>2. file[d] \in FileState
      BY DEF TypeOK
    <3>3. f.status = s
      BY <3>2, EditedFacts
    <3> HIDE DEF f
    <3> QED BY <3>1, <3>3 DEF TypeOK
  <2>3. approvals'[d] = IF IsSendEligible(s) /\ ~ IsSendEligible(file[d].status)
                        THEN approvals[d] + 1 ELSE approvals[d]
    BY DEF Operator, TypeOK
  <2>4. Settled(d)
    BY <1>2, <1>5 DEF TakesTurns
  <2>5. Settled(d)' /\ (IsSendEligible(s) => Spare(d)')
    <3>1. CASE IsSendEligible(s) /\ ~ IsSendEligible(file[d].status)
      BY <1>1, <2>3, <2>4, <3>1 DEF Settled, Spare, TypeOK
    <3>2. CASE ~ (IsSendEligible(s) /\ ~ IsSendEligible(file[d].status))
      BY <1>1, <1>2, <1>5, <2>1, <2>3, <2>4, <3>2 DEF TakesTurns, Settled, Spare, TypeOK
    <3> QED BY <3>1, <3>2
  <2> QED BY <1>3, <1>5, <2>1, <2>2, <2>5 DEF TakesTurns
<1> QED BY <1>4, <1>5

\* The steps of a process on its own draft, one by one.
LEMMA TurnsLocal ==
    ASSUME TypeOK, TypeOK', Truthful, Turns, NEW p \in Procs,
           \/ Deliver(p) \/ Mark(p) \/ Write(p) \/ PushDraft(p) \/ DeliverSend(p)
           \/ \E b \in BOOLEAN : DeliverErr(p, b) \/ Crash(p, b)
    PROVE  Turns'
<1>0. target[p] \in Drafts
  BY DEF TypeOK
<1>1. Local(p)
  <2> USE DEF Local, TypeOK, SetPc, Save, Leave
  <2>1. CASE Deliver(p)
    BY <2>1 DEF Deliver
  <2>2. CASE Mark(p)
    BY <2>2 DEF Mark
  <2>3. CASE Write(p)
    BY <2>3 DEF Write, Writing
  <2>4. CASE PushDraft(p) \/ DeliverSend(p)
    BY <2>4 DEF PushDraft, DeliverSend
  <2>5. ASSUME NEW b \in BOOLEAN, DeliverErr(p, b) PROVE Local(p)
    BY <2>5 DEF DeliverErr, Accepted
  <2>6. ASSUME NEW b \in BOOLEAN, Crash(p, b) PROVE Local(p)
    BY <2>6 DEF Crash, Interrupted
  <2> QED BY <2>1, <2>2, <2>3, <2>4, <2>5, <2>6
<1>2. ASSUME NEW e \in Drafts, e = target[p], ~ overlap[e], TakesTurns(e)
      PROVE  Known(p, e)'
  <2>1. Settled(e) /\ AloneAt(p, e) /\ pc[p] # "idle" /\ approvals'[e] = approvals[e]
    BY <1>1, <1>2 DEF TakesTurns, Busy, Local
  <2>2. /\ file[e] \in FileState /\ copy[p] \in FileState
        /\ delivered[e] \in Nat /\ approvals[e] \in Nat /\ unrecorded[e] \in Nat
    BY DEF TypeOK
  <2>3. CASE Deliver(p)
    <3>1. file' = file /\ copy' = copy /\ pc'[p] = "mark"
      BY <2>3 DEF Deliver, SetPc, TypeOK
    <3>2. /\ delivered'[e] = delivered[e] + 1
          /\ unrecorded'[e] = IF HasStatus(file[e]) THEN unrecorded[e] ELSE unrecorded[e] + 1
      BY <1>2, <2>1, <2>3 DEF Deliver, AloneAt, TypeOK
    <3>3. Sendable(file[e])
      BY <2>1, <2>3 DEF Deliver, AloneAt
    <3>4. Settled(e)'
      <4>1. CASE HasStatus(file[e])
        <5>1. Spare(e)
          BY <2>1, <2>3, <3>3, <4>1 DEF Deliver, AloneAt, Sendable, HasStatus
        <5> QED BY <2>1, <2>2, <3>2, <4>1, <5>1 DEF Settled, Spare
      <4>2. CASE ~ HasStatus(file[e])
        BY <2>1, <2>2, <3>2, <4>2 DEF Settled
      <4> QED BY <4>1, <4>2
    <3> QED BY <2>1, <3>1, <3>3, <3>4 DEF Known, AloneAt, Sendable, Parses
  <2>4. CASE Mark(p)
    <3>1. Parses(file[e]) /\ Sendable(file[e]) /\ pc[p] = "mark"
      BY <2>1, <2>4 DEF Mark, AloneAt, Sendable
    <3>2. pc'[p] = "marking" /\ copy'[p] = file[e]
      BY <1>2, <2>4, <3>1 DEF Mark, SetPc, TypeOK
    <3>3. UNCHANGED <<file, delivered, unrecorded, approvals>>
      BY <2>4 DEF Mark
    <3>4. Settled(e)'
      BY <2>1, <3>3 DEF Settled
    <3> QED BY <3>1, <3>2, <3>3, <3>4 DEF Known, AloneAt, Sendable, Parses
  <2>5. CASE Write(p)
    <3>1. pc'[p] = "idle" /\ file'[e] = Written(p) /\ pc[p] \in Writing
      BY <1>2, <2>5 DEF Write, Leave, SetPc, Save, TypeOK
    <3>2. UNCHANGED <<delivered, unrecorded, approvals>>
      BY <2>5 DEF Write
    <3>3. Settled(e)' /\ (Spare(e)' <=> Spare(e))
      BY <2>1, <3>2 DEF Settled, Spare
    <3>4. IsSendEligible(Written(p).status) => Spare(e)
      BY <2>1, <3>1, WrittenFacts, FileFacts DEF AloneAt, IsSendEligible, Writing
    <3> QED BY <3>1, <3>3, <3>4 DEF Known
  <2>6. CASE PushDraft(p)
    <3>1. pc'[p] = "idle" /\ UNCHANGED <<file, delivered, unrecorded, approvals>> /\ pc[p] = "compose"
      BY <2>6 DEF PushDraft, Leave, SetPc, TypeOK
    <3>2. Settled(e)' /\ (Spare(e)' <=> Spare(e))
      BY <2>1, <3>1 DEF Settled, Spare
    <3> QED BY <2>1, <3>1, <3>2 DEF Known, AloneAt
  <2>7. CASE DeliverSend(p)
    <3>1. pc'[p] = "idle" /\ file' = file /\ pc[p] = "compose"
      BY <2>7 DEF DeliverSend, Leave, SetPc, TypeOK
    <3>2. delivered'[e] = delivered[e] + 1 /\ unrecorded'[e] = unrecorded[e] + 1
      BY <1>2, <2>7 DEF DeliverSend, TypeOK
    <3>3. Settled(e)' /\ (Spare(e) => Spare(e)')
      BY <2>1, <2>2, <3>2 DEF Settled, Spare
    <3> QED BY <2>1, <3>1, <3>3 DEF Known, AloneAt
  <2>8. ASSUME NEW b \in BOOLEAN, DeliverErr(p, b) PROVE Known(p, e)'
    <3>1. pc'[p] = "idle" /\ file' = file /\ pc[p] = "compose"
      BY <2>8 DEF DeliverErr, Leave, SetPc, TypeOK
    <3>2. \E n \in {0, 1} : delivered'[e] = delivered[e] + n /\ unrecorded'[e] = unrecorded[e] + n
      BY <1>2, <2>8 DEF DeliverErr, Accepted, TypeOK
    <3>3. Settled(e)' /\ (Spare(e) => Spare(e)')
      BY <2>1, <2>2, <3>2 DEF Settled, Spare
    <3> QED BY <2>1, <3>1, <3>3 DEF Known, AloneAt
  <2>9. ASSUME NEW b \in BOOLEAN, Crash(p, b) PROVE Known(p, e)'
    <3>1. pc'[p] = "idle"
      BY <2>9 DEF Crash, Leave, SetPc, TypeOK
    <3>2. /\ b => pc[p] = "compose"
          /\ delivered'[e] = IF b THEN delivered[e] + 1 ELSE delivered[e]
          /\ \E n \in {0, 1} : /\ unrecorded'[e] = unrecorded[e] + n
                               /\ b \/ (pc[p] \in {"mark", "marking"} /\ HasStatus(copy[p])) => n = 1
      BY <1>2, <2>9 DEF Crash, TypeOK
    <3>3. Settled(e)' /\ (Spare(e) => Spare(e)')
      BY <2>1, <2>2, <3>2 DEF Settled, Spare
    <3>4. pc[p] \in {"mark", "marking"} /\ HasStatus(copy[p]) => Spare(e)'
      BY <2>1, <2>2, <3>2 DEF Settled, Spare
    <3>5. \/ file'[e] = file[e] \/ file'[e] = Torn
          \/ pc[p] \in Writing /\ file'[e] = Written(p)
      BY <1>2, <2>9 DEF Crash, Interrupted, Save, TypeOK
    <3>6. IsSendEligible(file'[e].status) => Spare(e)'
      <4>1. CASE file'[e] = file[e]
        BY <2>1, <3>3, <3>4, <4>1 DEF AloneAt, HasStatus, IsSendEligible
      <4>2. CASE file'[e] = Torn
        BY <4>2, FileFacts DEF IsSendEligible
      <4>3. CASE pc[p] \in Writing /\ file'[e] = Written(p)
        BY <2>1, <3>3, <4>3, WrittenFacts DEF AloneAt, IsSendEligible, Writing
      <4> QED BY <3>5, <4>1, <4>2, <4>3
    <3> QED BY <3>1, <3>3, <3>6 DEF Known
  <2> QED BY <2>3, <2>4, <2>5, <2>6, <2>7, <2>8, <2>9
<1> QED BY <1>0, <1>1, <1>2, LocalStep

-----------------------------------------------------------------------------
(* The theorems *)

\* The inductive invariant holds in every reachable state.
THEOREM Inductive == Spec => []IInv
<1>1. Init => IInv
  BY TypeInit, TruthfulInit, TurnsInit DEF IInv
<1>2. IInv /\ [Next]_vars => IInv'
  <2>1. ASSUME IInv, Step PROVE IInv'
    <3>1. TypeOK' /\ Truthful'
      BY <2>1, TypeStep, TruthfulStep DEF IInv
    <3>2. Turns'
      BY <2>1, <3>1, TurnsLocal, TurnsIdle, TurnsOpen, TurnsOperator DEF IInv, Step, Starts
    <3> QED BY <3>1, <3>2 DEF IInv
  <2>2. ASSUME IInv, UNCHANGED vars PROVE IInv'
    <3>1. TypeOK' /\ Truthful'
      BY <2>2 DEF IInv, vars, TypeOK, Truthful
    <3>2. Turns'
      <4>1. UNCHANGED <<file, delivered, unrecorded, approvals, overlap, pc, copy, command, target>>
        BY <2>2 DEF vars
      <4> QED BY <2>2, <4>1, TurnsUnchanged DEF IInv
    <3> QED BY <3>1, <3>2 DEF IInv
  <2> QED BY <2>1, <2>2, NextIsStep
<1> QED BY <1>1, <1>2, PTL DEF Spec

\* While the actors on a draft take turns, the mail goes out at most once for each release
\* of the operator, but for the deliveries that were not recorded.
THEOREM OncePerApproval == Spec => []SentOncePerApproval
<1>1. IInv => SentOncePerApproval
  BY DEF IInv, Turns, TakesTurns, Settled, SentOncePerApproval
<1> QED BY <1>1, Inductive, PTL

\* However the actors interleave, no draft is marked sent whose mail never went out.
THEOREM MarksAreTrue == Spec => []SentMeansDelivered
<1>1. IInv => SentMeansDelivered
  BY DEF IInv, Truthful, TrueOf, SentMeansDelivered
<1> QED BY <1>1, Inductive, PTL

\* While the actors take turns, the scheduler and `push --send' deliver no draft that the
\* operator has withdrawn, or that is sent already.
THEOREM WithdrawnStays == Spec => WithdrawnIsNotSent
<1>1. ASSUME IInv, NEW p \in Procs, Deliver(p), ~ overlap[target[p]]
      PROVE  file[target[p]].status \notin {"draft", "sent"}
  <2>1. AloneAt(p, target[p])
    BY <1>1 DEF IInv, TypeOK, Turns, TakesTurns, Busy, Deliver
  <2> QED BY <1>1, <2>1 DEF Deliver, AloneAt, Sendable, IsSendEligible
<1>2. IInv /\ [Next]_vars =>
        [\A p \in Procs : LET d == target[p] IN
            Deliver(p) /\ ~ overlap[d] => file[d].status \notin {"draft", "sent"}]_vars
  BY <1>1
<1> QED BY <1>2, Inductive, PTL DEF Spec, WithdrawnIsNotSent

\* While the actors take turns, only the operator takes a sent draft out of that state;
\* attach, migrate and another sender do not, though a write that is cut may.
THEOREM SentStays == Spec => SentIsFinal
<1>1. ASSUME IInv, Step, NEW d \in Drafts, file[d].status = "sent", ~ overlap[d], edits' = edits
      PROVE  file'[d].status = "sent" \/ file'[d] = Torn
  <2>1. ASSUME NEW p \in Procs, pc[p] \in Writing, target[p] = d
        PROVE  Written(p).status = "sent"
    <3>1. AloneAt(p, d)
      BY <1>1, <2>1 DEF IInv, Turns, TakesTurns, Busy, Writing
    <3>2. file[d].form \notin {"absent", "torn"}
      BY <1>1 DEF IInv, Truthful, TrueOf
    <3>3. pc[p] \in {"edit", "migrate"} /\ copy[p].status = "sent"
      BY <1>1, <2>1, <3>1, <3>2 DEF AloneAt, Sendable, IsSendEligible, Writing
    <3> QED BY <1>1, <2>1, <3>3, WrittenFacts DEF IInv
  <2>2. ASSUME NEW p \in Procs, Write(p) \/ \E b \in BOOLEAN : Crash(p, b)
        PROVE  file'[d].status = "sent" \/ file'[d] = Torn
    <3>1. \/ file' = file
          \/ pc[p] \in Writing /\ (Save(p, Torn) \/ Save(p, Written(p)))
      BY <2>2 DEF Write, Crash, Interrupted
    <3> QED BY <1>1, <2>1, <3>1 DEF Save, IInv, TypeOK
  <2>3. ASSUME NEW e \in Drafts, NEW s \in EmailDraftStatus, NEW when \in {"early", "late"},
               Operator(e, s, when)
        PROVE  FALSE
    BY <1>1, <2>3 DEF Operator, IInv, TypeOK
  <2>4. ASSUME NEW p \in Procs,
               \/ Scan(p) \/ Deliver(p) \/ Mark(p) \/ PushDraft(p) \/ DeliverSend(p)
               \/ \E e \in Drafts : Refuse(p, e) \/ Starts(p, e)
               \/ \E b \in BOOLEAN : DeliverErr(p, b)
        PROVE  file' = file
    BY <2>4, OpenSomehow DEF Scan, Deliver, Mark, PushDraft, DeliverSend, Refuse, DeliverErr, Open
  <2>5. CASE Clock
    BY <1>1, <2>5 DEF Clock
  <2> QED BY <1>1, <2>2, <2>3, <2>4, <2>5 DEF Step, Starts
<1>2. IInv /\ [Next]_vars =>
        [\A d \in Drafts : file[d].status = "sent" /\ ~ overlap[d] /\ edits' = edits =>
            file'[d].status = "sent" \/ file'[d] = Torn]_vars
  BY <1>1, NextIsStep
<1> QED BY <1>2, Inductive, PTL DEF Spec, SentIsFinal
=============================================================================
