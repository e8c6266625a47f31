------------------------------- MODULE TopicSync -------------------------------
(***************************************************************************)
(* `corky mailbox sync' for one file of a topic: the copy in topics/ and   *)
(* those in the topics/ of the mailboxes that list the topic               *)
(* (mailbox/sync.rs).  A copy gets the time it is made at, not that of its *)
(* source.  What git pull brings counts as an edit in the mailbox.         *)
(***************************************************************************)
EXTENDS Integers

CONSTANTS
    Mailboxes,
    MaxEdits,  \* bound: texts written
    MaxCopies  \* bound: files copied

Root == "root"
Places == {Root} \cup Mailboxes
Empty == -1    \* what a copy that breaks off leaves

VARIABLES
    text,   \* text[x]: named by the edit that made it; 0: there is no file
    mtime,
    at,     \* the mailbox that is being synced; Root: none
    step,   \* "forward", "reverse", or, once they are compared, "to mailbox", "to root"
    met,    \* history: the file to be replaced has been edited since
    edits, copies

vars == <<text, mtime, at, step, met, edits, copies>>

Init ==
    /\ text = [x \in Places |-> 0] /\ mtime = text
    /\ at = Root /\ step = "forward" /\ met = FALSE
    /\ edits = 0 /\ copies = 0

Now == edits + copies + 1

\* Mutant: the time is not compared.
CopiesAlways(from, to) == text[from] # 0

\* should_copy of copy_if_newer: the file exists, and the other does not or is older.
ShouldCopy(from, to) == text[from] # 0 /\ mtime[from] > mtime[to]

\* sync_one reaches sync_topics; the mailboxes come in any order.
Begin(b) ==
    /\ at = Root /\ at' = b
    /\ UNCHANGED <<text, mtime, step, met, edits, copies>>

Forward ==
    /\ at # Root /\ step = "forward"
    /\ step' = IF ShouldCopy(Root, at) THEN "to mailbox" ELSE "reverse"
    /\ UNCHANGED <<text, mtime, at, met, edits, copies>>

Reverse ==
    /\ at # Root /\ step = "reverse"
    /\ IF ShouldCopy(at, Root) THEN step' = "to root" /\ UNCHANGED at
                                ELSE step' = "forward" /\ at' = Root
    /\ UNCHANGED <<text, mtime, met, edits, copies>>

Copying == step \in {"to mailbox", "to root"}
Source == IF step = "to mailbox" THEN Root ELSE at
Target == IF step = "to mailbox" THEN at ELSE Root

\* std::fs::copy replaces whatever is there by now, and stamps it.
Replace(t) ==
    /\ Copying /\ copies < MaxCopies /\ copies' = copies + 1
    /\ text' = [text EXCEPT ![Target] = t] /\ mtime' = [mtime EXCEPT ![Target] = Now]
    /\ met' = FALSE
    /\ UNCHANGED edits

Copy ==
    /\ Replace(text[Source])
    /\ IF step = "to mailbox" THEN step' = "reverse" /\ UNCHANGED at
                              ELSE step' = "forward" /\ at' = Root

\* It truncates the target first, and may get no further: killed, or the disk is full.
Cut == Replace(Empty) /\ at' = Root /\ step' = "forward"

\* An error, or the process is killed.
Stop ==
    /\ at # Root /\ at' = Root /\ step' = "forward" /\ met' = FALSE
    /\ UNCHANGED <<text, mtime, edits, copies>>

\* Somebody edits the file at x, before, during or after a sync.
Edit(x) ==
    /\ edits < MaxEdits /\ edits' = edits + 1
    /\ text' = [text EXCEPT ![x] = edits'] /\ mtime' = [mtime EXCEPT ![x] = Now]
    /\ met' = (met \/ (Copying /\ x = Target))
    /\ UNCHANGED <<at, step, copies>>

Next ==
    \/ Forward \/ Reverse \/ Copy \/ Cut \/ Stop
    \/ (\E b \in Mailboxes : Begin(b))
    \/ (\E x \in Places : Edit(x))

Spec == Init /\ [][Next]_vars

-----------------------------------------------------------------------------
(* Properties *)

\* `Newer file wins (mtime comparison)': no copy puts an earlier edit over a later one,
\* unless that was made between the comparison and the copy.  A copy that breaks off leaves
\* an empty file, which is newer than the whole one and replaces it in the next sync.
NoOlderText ==
    \A x \in Places :
        text'[x] < text[x] => text'[x] = Empty \/ (met /\ x = Target)
NewerFileWins == [][NoOlderText]_vars
=============================================================================
