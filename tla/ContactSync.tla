------------------------------ MODULE ContactSync ------------------------------
(***************************************************************************)
(* `corky contact sync' for one contact: its CLAUDE.md in contacts/ and in *)
(* the contacts/ of every mailbox (contact/sync.rs).  The hash of a text   *)
(* stands for the text; a new text is named by the time of its edit.       *)
(***************************************************************************)
EXTENDS Integers, Sequences

CONSTANTS
    Order,     \* the mailboxes that have a contacts/ directory, as they are sorted
    MaxTime    \* bound: edits and writes

Root == "root"
Mailboxes == {Order[i] : i \in DOMAIN Order}
Places == {Root} \cup Mailboxes
Empty == -1    \* what a write that breaks off leaves

Times == 0..MaxTime
Texts == Empty..MaxTime

VARIABLES
    text, mtime,  \* the files; text 0: there is none
    shared,       \* mailboxes with a conversation of the contact, or in its shared_with
    stored,       \* the base hashes of .sync-state.json; 0: none
    base, first,  \* those of the run, and as it loaded them
    mail,         \* those that a mail sync carries along since it loaded them
    run,          \* where the run is, in which mailbox, and what it has read there
    known,        \* the time of the root file when the run began; 0: there was none
    newest,       \* history: the text of the last edit
    lost,         \* history: that edit was made during a run, or a write broke off since
    now

vars == <<text, mtime, shared, stored, base, first, mail, run, known, newest, lost, now>>

None == [step |-> "none"]
Save == [step |-> "save"]

Runs ==
    {None, Save} \cup [step : {"look"}, at : DOMAIN Order]
    \cup [step : {"compare"}, at : DOMAIN Order, seen : Times]
    \cup [step : {"write", "stamp"}, at : DOMAIN Order, to : Places, text : Texts, time : Times]

TypeOK ==
    /\ text \in [Places -> Texts] /\ mtime \in [Places -> Times]
    /\ shared \subseteq Mailboxes
    /\ {stored, base, first, mail} \subseteq [Mailboxes -> Texts]
    /\ run \in Runs /\ known \in Times
    /\ newest \in Texts /\ lost \in BOOLEAN /\ now \in Times

Init ==
    /\ text = [x \in Places |-> 0] /\ mtime = text
    /\ shared \in SUBSET Mailboxes
    /\ stored = [b \in Mailboxes |-> 0] /\ base = stored /\ first = stored /\ mail = stored
    /\ run = None /\ known = 0 /\ newest = 0 /\ lost = FALSE /\ now = 0

-----------------------------------------------------------------------------
\* build_eligible_set.
Eligible(b) == b \in shared

\* The run goes on behind the mailbox at i.
After(i) == IF i < Len(Order) THEN [step |-> "look", at |-> i + 1] ELSE Save

Sync ==
    /\ run = None
    /\ run' = After(0) /\ known' = mtime[Root] /\ base' = stored /\ first' = stored
    /\ UNCHANGED <<text, mtime, shared, stored, mail, newest, lost, now>>

\* discover_contacts in the mailbox.
Look ==
    /\ run.step = "look"
    /\ run' = [step |-> "compare", at |-> run.at, seen |-> mtime[Order[run.at]]]
    /\ UNCHANGED <<text, mtime, shared, stored, base, first, mail, known, newest, lost, now>>

\* Mutant: the side that has not changed wins.
TakesUnchanged(b) ==
    \/ base[b] # 0 /\ text[Root] = base[b]
    \/ text[Root] # base[b] /\ text[b] # base[b] /\ known > run.seen

\* Both files exist and the contact is eligible: root wins if only it has changed, or
\* if both have, or nobody knows, and it was newer when it was looked up.
TakeRoot(b) ==
    /\ ~ (base[b] # 0 /\ text[Root] = base[b])
    /\ (base[b] # 0 /\ text[b] = base[b]) \/ known > run.seen

\* Both files exist and the contact is not eligible: only the mailbox may win.
TakeMailbox(b) ==
    /\ ~ (base[b] # 0 /\ text[b] = base[b])
    /\ (base[b] # 0 /\ text[Root] = base[b]) \/ run.seen > known

\* One text has been read, or both, and one is to be written to the other place.
Copies(from, to, time) ==
    /\ run' = [step |-> "write", at |-> run.at, to |-> to, text |-> text[from], time |-> time]
    /\ UNCHANGED base

Skip == run' = After(run.at) /\ UNCHANGED base

\* The decision on one mailbox.  Whether a file exists was looked up before.
Compare ==
    /\ run.step = "compare"
    /\ LET b == Order[run.at]
           toRoot == Copies(b, Root, run.seen)
           toMailbox == Copies(Root, b, known)
       IN IF known = 0 THEN IF run.seen = 0 THEN Skip ELSE toRoot
          ELSE IF run.seen = 0 THEN IF Eligible(b) THEN toMailbox ELSE Skip
          ELSE IF text[b] = text[Root]
             THEN base' = [base EXCEPT ![b] = text[b]] /\ run' = After(run.at)
          ELSE IF Eligible(b) THEN IF TakeRoot(b) THEN toMailbox ELSE toRoot
          ELSE IF TakeMailbox(b) THEN toRoot ELSE Skip
    /\ UNCHANGED <<text, mtime, shared, stored, first, mail, known, newest, lost, now>>

\* Somebody writes t to the file at x.
Put(x, t) ==
    /\ now < MaxTime /\ now' = now + 1
    /\ text' = [text EXCEPT ![x] = t] /\ mtime' = [mtime EXCEPT ![x] = now']

\* write_and_set_mtime: std::fs::write, ...
Write ==
    /\ run.step = "write" /\ run' = [run EXCEPT !.step = "stamp"]
    /\ Put(run.to, run.text)
    /\ UNCHANGED <<shared, stored, base, first, mail, known, newest, lost>>

\* ... which truncates the file first, and may get no further: killed, or the disk is full.
Cut ==
    /\ run.step = "write" /\ run' = None
    /\ Put(run.to, Empty)
    /\ lost' = TRUE
    /\ UNCHANGED <<shared, stored, base, first, mail, known, newest>>

\* ... then set_file_mtime, and the base hash.
Stamp ==
    /\ run.step = "stamp" /\ run' = After(run.at)
    /\ mtime' = [mtime EXCEPT ![run.to] = run.time]
    /\ base' = [base EXCEPT ![Order[run.at]] = run.text]
    /\ UNCHANGED <<text, shared, stored, first, mail, known, newest, lost, now>>

\* Mutant: the hashes of the one who saves replace those of the file.
MergeTakesAll(loaded, current, updated) == updated

\* merge_contact_states and merge_contact_mailboxes: a hash is written if the one who saves
\* has changed it and the file has not, or if there was none when it was loaded.
MergeContact(loaded, current, updated) ==
    [b \in Mailboxes |->
        IF updated[b] = 0 \/ updated[b] = loaded[b] THEN current[b]
        ELSE IF loaded[b] = 0 \/ current[b] = loaded[b] THEN updated[b] ELSE current[b]]

\* save_state_merged.
SaveState ==
    /\ run = Save /\ run' = None
    /\ stored' = MergeContact(first, stored, base)
    /\ UNCHANGED <<text, mtime, shared, base, first, mail, known, newest, lost, now>>

\* A mail sync loads the whole of .sync-state.json, and saves it much later.
MailSyncLoads ==
    /\ mail # stored /\ mail' = stored
    /\ UNCHANGED <<text, mtime, shared, stored, base, first, run, known, newest, lost, now>>

MailSyncSaves ==
    /\ stored' = MergeContact(mail, stored, mail)
    /\ UNCHANGED <<text, mtime, shared, base, first, mail, run, known, newest, lost, now>>

\* Killed, or an error on a file, also between the two halves of write_and_set_mtime: what
\* was copied stays, the hashes are not saved.
Stop ==
    /\ run # None /\ run' = None
    /\ UNCHANGED <<text, mtime, shared, stored, base, first, mail, known, newest, lost, now>>

\* Every copy is what the hashes say.
InStep == run = None /\ \A b \in Mailboxes : text[Root] = text[b] /\ text[b] = stored[b]

\* Somebody edits or creates the file at x, also during a run; the text n is new, or, if
\* nothing waits for a sync, one that there was before.
Edit(x, n) ==
    /\ Put(x, n)
    /\ n = now' \/ (n \in 1..now /\ n # text[x] /\ InStep)
    /\ newest' = n /\ lost' = (run # None)
    /\ UNCHANGED <<shared, stored, base, first, mail, run, known>>

Next ==
    \/ Sync \/ Look \/ Compare \/ Write \/ Cut \/ Stamp \/ SaveState \/ Stop
    \/ MailSyncLoads \/ MailSyncSaves
    \/ \E x \in Places, n \in 1..MaxTime : Edit(x, n)

Spec == Init /\ [][Next]_vars

-----------------------------------------------------------------------------
(* Properties *)

Completed == run = Save

\* `If both changed (conflict), falls back to newest-wins by mtime': when a run is
\* through, contacts/ has the newest of all edits, also of those made on both sides, of
\* those made after a run that broke off between a write, its time and the save of the
\* hashes, of those that restore an old text, and whatever old hashes a mail sync saves.
\* An edit made during a run may be overwritten, and one that a cut write meets may lose to
\* the empty file; both end with the next edit between two runs.
NewestWins == Completed /\ ~ lost => text[Root] = newest
=============================================================================
