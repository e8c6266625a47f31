------------------------------- MODULE MailSync -------------------------------
(***************************************************************************)
(* How mail reaches the conversation files: `corky sync' (sync::run), the  *)
(* poll of `corky watch' (watch::poll_once), the IMAP and the Gmail        *)
(* provider, the cursors of .sync-state.json and the run markers of        *)
(* .sync-run-state.json, with the two commands running side by side.       *)
(*                                                                         *)
(* A mailbox is a sequence of mails.  For IMAP the position of a mail is   *)
(* its UID.  For Gmail the sequence is the history: a mail stands where it *)
(* was added and again wherever it was changed, and its historyId is its   *)
(* last position.  Each mail is a conversation of its own, and every mail  *)
(* lies within sync_days.                                                  *)
(***************************************************************************)
EXTENDS Integers, Sequences, FiniteSets, SyncState

CONSTANTS
    Accounts, Gmail,    \* all accounts, and those with provider = "gmail-api"
    Labels,             \* the labels every account syncs
    None,
    Cli, Watch,         \* processes running `corky sync', and `corky watch'
    Unreadable,         \* mails without a body or that cannot be parsed
    MaxMails,           \* bound: mails that arrive
    MaxEvents,          \* bound: mails changed or removed, UIDVALIDITY resets, errors the
                        \* code handles, signals
    MaxCrashes,         \* bound: processes killed
    MaxFaults           \* bound: events and crashes together

ASSUME SyncAssumption ==
    /\ Gmail \subseteq Accounts
    /\ Watch \notin Cli /\ None \notin Accounts \cup Labels
    /\ MaxMails \in Nat /\ Unreadable \subseteq 1..MaxMails
    /\ MaxEvents \in Nat /\ MaxCrashes \in Nat /\ MaxFaults \in Nat

Procs == Cli \cup {Watch}
Boxes == Accounts \X Labels
Mails == 1..MaxMails

VARIABLES
    \* the mail servers
    log, gone,      \* log[b]: the sequence of mailbox b; gone: mails removed from theirs
    uidvalidity,    \* uidvalidity[b]
    \* the files
    merged,         \* the mails in the conversation files
    disk, runs,     \* .sync-state.json; the phase of each account in .sync-run-state.json
    \* the processes
    pc,
    full, resume,   \* full[p]: --full; resume[p]: accounts left in flight by a crash
    base, state,    \* base_state and state of p
    todo, account,  \* accounts p has yet to visit; the one it is at
    left, label,    \* labels of the account p has yet to visit; the one it is at
    uids, cursor,   \* mails of the label p has yet to fetch; max_uid or max_history_id
    touched,        \* touched[p]: conversation files p has written
    scoped,         \* scoped[p]: --account was given with --full
    stop,           \* the shutdown flag of the watch
    \* history, for the properties
    crashed,        \* accounts a sync was killed in and that no sync has entered since
    unverified,     \* accounts a sync was killed in and that no full sync has completed since
    suspect,        \* mailboxes whose cursor may be wrong, see Renumber, Change and Abandon
    reaped,         \* mails whose file the orphan cleanup has removed
    events, crashes

server == <<log, gone, uidvalidity>>
files == <<merged, disk, runs>>
run == <<full, resume, base, touched, scoped>>
place == <<pc, todo, account, left, label, uids, cursor>>
history == <<crashed, unverified, suspect, reaped>>
bounds == <<events, crashes>>
vars == <<server, files, run, state, place, stop, history, bounds>>

Phases == {"idle", "fetching", "done", "error"}

TypeOK ==
    /\ log \in [Boxes -> Seq(Mails)]
    /\ gone \in SUBSET Mails /\ merged \in SUBSET Mails
    /\ uidvalidity \in [Boxes -> Nat]
    /\ LabelsOf(disk) \subseteq Boxes
    /\ \A b \in LabelsOf(disk) : disk[b[1]][b[2]] \in Cursor
    /\ runs \in [Accounts -> Phases]
    /\ pc \in [Procs -> {"idle", "account", "label", "fetch"}]
    /\ \A p \in Procs : \A b \in LabelsOf(state[p]) : b \in Boxes /\ state[p][b[1]][b[2]] \in Cursor
    /\ full \in [Procs -> BOOLEAN] /\ scoped \in [Procs -> BOOLEAN] /\ stop \in BOOLEAN
    /\ resume \in [Procs -> SUBSET Accounts] /\ todo \in [Procs -> SUBSET Accounts]
    /\ left \in [Procs -> SUBSET Labels]
    /\ account \in [Procs -> Accounts \cup {None}] /\ label \in [Procs -> Labels \cup {None}]
    /\ uids \in [Procs -> SUBSET Mails] /\ cursor \in [Procs -> Nat]
    /\ touched \in [Procs -> SUBSET Mails]
    /\ crashed \in SUBSET Accounts /\ unverified \in SUBSET Accounts
    /\ suspect \in SUBSET Boxes /\ reaped \in SUBSET Mails

\* Every box of a new server holds no mail, and nothing has been synced.
Init ==
    /\ log = [b \in Boxes |-> <<>>] /\ gone = {}
    /\ uidvalidity = [b \in Boxes |-> IF b[1] \in Gmail THEN 0 ELSE 1]
    /\ merged = {} /\ disk = EmptyMap
    /\ runs = [a \in Accounts |-> "idle"]
    /\ pc = [p \in Procs |-> "idle"]
    /\ full = [p \in Procs |-> FALSE] /\ scoped = [p \in Procs |-> FALSE]
    /\ resume = [p \in Procs |-> {}] /\ touched = [p \in Procs |-> {}]
    /\ base = [p \in Procs |-> EmptyMap] /\ state = [p \in Procs |-> EmptyMap]
    /\ todo = [p \in Procs |-> {}] /\ left = [p \in Procs |-> {}]
    /\ account = [p \in Procs |-> None] /\ label = [p \in Procs |-> None]
    /\ uids = [p \in Procs |-> {}] /\ cursor = [p \in Procs |-> 0]
    /\ stop = FALSE
    /\ crashed = {} /\ unverified = {} /\ suspect = {} /\ reaped = {}
    /\ events = 0 /\ crashes = 0

\* One more event, within the bounds.
Event ==
    /\ events < MaxEvents /\ events + crashes < MaxFaults
    /\ events' = events + 1

-----------------------------------------------------------------------------
(* The mail servers (external): what src/ assumes of IMAP and of the Gmail API *)

Position(b, m) == CHOOSE i \in DOMAIN log[b] :
    log[b][i] = m /\ \A j \in DOMAIN log[b] : log[b][j] = m => j <= i

Arrived(b) == {log[b][i] : i \in DOMAIN log[b]}

Present(b) == Arrived(b) \ gone

\* Mutant: the search starts one UID too late.
AddedLater(b, c) ==
    {m \in Present(b) : \A i \in 1..(c + 1) : i \in DOMAIN log[b] => log[b][i] # m}

\* The mails of b added after position c: UID c+1:*, or the history since c.
AddedAfter(b, c) ==
    {m \in Present(b) : \A i \in 1..c : i \in DOMAIN log[b] => log[b][i] # m}

\* p is fetching what it has listed of mailbox b.
Visits(p, b) == pc[p] = "fetch" /\ <<account[p], label[p]>> = b

Arrive(b) ==
    LET m == Cardinality(gone \cup UNION {Arrived(c) : c \in Boxes}) + 1
    IN /\ m \in Mails
       /\ log' = [log EXCEPT ![b] = Append(@, m)]
       /\ UNCHANGED <<gone, uidvalidity, files, run, state, place, stop, history, bounds>>

Remove(b) ==
    /\ Event
    /\ \E m \in Present(b) : gone' = gone \cup {m}
    /\ UNCHANGED <<log, uidvalidity, files, run, state, place, stop, history, crashes>>

\* A mail is read, starred or labelled: its historyId moves.  If a pass is under way
\* it can carry the cursor past a mail that was added after the listing.
Change(b) ==
    /\ b[1] \in Gmail
    /\ Event
    /\ \E m \in Present(b) : log' = [log EXCEPT ![b] = Append(@, m)]
    /\ suspect' = IF \E p \in Procs : Visits(p, b) THEN suspect \cup {b} ELSE suspect
    /\ UNCHANGED <<gone, uidvalidity, files, run, state, place, stop,
                   crashed, unverified, reaped, crashes>>

\* The sequences that hold each mail of S once.
Orders(S) == {s \in [1..Cardinality(S) -> S] : \A m \in S : \E i \in DOMAIN s : s[i] = m}

\* The server renumbers a mailbox under a new UIDVALIDITY (not while it is selected),
\* in whatever order.
Renumber(b) ==
    /\ b[1] \notin Gmail
    /\ \A p \in Procs : ~ Visits(p, b)
    /\ Event
    /\ uidvalidity' = [uidvalidity EXCEPT ![b] = @ + 1]
    /\ \E s \in Orders(Present(b)) : log' = [log EXCEPT ![b] = s]
    /\ suspect' = suspect \cup {b}
    /\ UNCHANGED <<gone, files, run, state, place, stop, crashed, unverified, reaped, crashes>>

-----------------------------------------------------------------------------
(* The runs: sync::run and watch::poll_once *)

\* Mutant: the first phase recorded is the second.
StartsMerging(phase, event) ==
    CASE event = "start" -> "merging"
      [] event = "complete" -> "done"
      [] event = "fail" -> "error"

\* SyncRunState::transition for the events that sync::run records, through
\* `let _ = record(..)': an edge that is rejected leaves the phase.
Transition(phase, event) ==
    CASE event = "start" -> "fetching"
      [] event = "complete" /\ phase = "fetching" -> "done"
      [] event = "fail" /\ phase = "fetching" -> "error"
      [] OTHER -> phase

\* Only `corky sync' records its runs.
Record(p, a, event) ==
    runs' = IF p \in Cli THEN [runs EXCEPT ![a] = Transition(@, event)] ELSE runs

\* Where p stands and what it holds; its locals are dropped when it returns.
Return(p) ==
    /\ pc' = [pc EXCEPT ![p] = "idle"]
    /\ todo' = [todo EXCEPT ![p] = {}] /\ left' = [left EXCEPT ![p] = {}]
    /\ uids' = [uids EXCEPT ![p] = {}] /\ cursor' = [cursor EXCEPT ![p] = 0]
    /\ full' = [full EXCEPT ![p] = FALSE] /\ scoped' = [scoped EXCEPT ![p] = FALSE]
    /\ resume' = [resume EXCEPT ![p] = {}] /\ touched' = [touched EXCEPT ![p] = {}]
    /\ base' = [base EXCEPT ![p] = EmptyMap] /\ state' = [state EXCEPT ![p] = EmptyMap]
    /\ account' = [account EXCEPT ![p] = None] /\ label' = [label EXCEPT ![p] = None]

\* The account p is at is synced in full: account_full.
InFull(p) == full[p] \/ account[p] \in resume[p]

\* Mutant: the run log is not consulted.
ForgetsCrashes(phases) == {}

\* run_state::interrupted_accounts
InterruptedAccounts(phases) == {a \in Accounts : phases[a] = "fetching"}

Begin(p, accounts, isFull, isScoped, interrupted) ==
    /\ pc[p] = "idle"
    /\ pc' = [pc EXCEPT ![p] = "account"]
    /\ full' = [full EXCEPT ![p] = isFull] /\ scoped' = [scoped EXCEPT ![p] = isScoped /\ isFull]
    /\ resume' = [resume EXCEPT ![p] = interrupted]
    /\ base' = [base EXCEPT ![p] = IF isFull THEN EmptyMap ELSE disk] /\ state' = [state EXCEPT ![p] = base'[p]]
    /\ todo' = [todo EXCEPT ![p] = accounts]
    /\ UNCHANGED <<server, files, touched, account, left, label, uids, cursor, stop, history, bounds>>

\* corky sync [--full] [--account NAME]
Sync(p) ==
    \E isFull \in BOOLEAN :
        \/ Begin(p, Accounts, isFull, FALSE, InterruptedAccounts(runs))
        \/ \E a \in Accounts : Begin(p, {a}, isFull, TRUE, InterruptedAccounts(runs))

\* poll_once does not look at the run log.
Poll == ~ stop /\ Begin(Watch, Accounts, FALSE, FALSE, {})

\* The provider is entered: the account has an entry in the state from here on.
Visit(p, a) ==
    /\ pc[p] = "account" /\ a \in todo[p]
    /\ Record(p, a, "start")
    /\ crashed' = IF p \in Cli THEN crashed \ {a} ELSE crashed
    /\ pc' = [pc EXCEPT ![p] = "label"]
    /\ todo' = [todo EXCEPT ![p] = @ \ {a}] /\ account' = [account EXCEPT ![p] = a]
    /\ left' = [left EXCEPT ![p] = Labels]
    /\ state' = [state EXCEPT ![p] = Put(@, a, Get(@, a, EmptyMap))]
    /\ UNCHANGED <<server, merged, disk, run, label, uids, cursor, stop,
                   unverified, suspect, reaped, bounds>>

\* resolve_password fails for an IMAP account, after which `corky sync' returns without
\* recording it, or a Gmail account has no token, which is recorded as a failure.
Refused(p, a) ==
    /\ pc[p] = "account" /\ a \in todo[p]
    /\ Event
    /\ IF p \in Cli
       THEN /\ runs' = [runs EXCEPT ![a] = IF a \in Gmail THEN "error" ELSE "fetching"]
            /\ crashed' = IF a \in Gmail THEN crashed \ {a} ELSE crashed
            /\ Return(p)
       ELSE /\ todo' = [todo EXCEPT ![p] = @ \ {a}]
            /\ UNCHANGED <<runs, crashed, pc, account, left, label, uids, cursor, run, state>>
    /\ UNCHANGED <<server, merged, disk, stop, unverified, suspect, reaped, crashes>>

\* The watch leaves an account before its end and goes on to the next.  The history
\* call has moved the cursor of a Gmail mailbox that is given up half-way.
Abandon(p) ==
    /\ pc' = [pc EXCEPT ![p] = "account"]
    /\ left' = [left EXCEPT ![p] = {}] /\ uids' = [uids EXCEPT ![p] = {}]
    /\ cursor' = [cursor EXCEPT ![p] = 0] /\ label' = [label EXCEPT ![p] = None]
    /\ suspect' = IF pc[p] = "fetch" /\ account[p] \in Gmail
                  THEN suspect \cup {<<account[p], label[p]>>} ELSE suspect
    /\ UNCHANGED <<todo, account, run, state>>

\* A connection, a search, a fetch or a write of a file fails.
Fails(p) ==
    /\ pc[p] = "fetch" \/ (pc[p] = "label" /\ left[p] # {})
    /\ Event
    /\ Record(p, account[p], "fail")
    /\ IF p \in Cli THEN Return(p) /\ UNCHANGED suspect ELSE Abandon(p)
    /\ UNCHANGED <<server, merged, disk, stop, crashed, unverified, reaped, crashes>>

\* The watch checks the shutdown flag before each mail, and before each IMAP label.
Interrupted ==
    /\ stop
    /\ \/ pc[Watch] = "fetch"
       \/ pc[Watch] = "label" /\ left[Watch] # {} /\ account[Watch] \notin Gmail
    /\ Abandon(Watch)
    /\ UNCHANGED <<server, files, stop, crashed, unverified, reaped, bounds>>

Heeds(p) == p = Watch => ~ stop

-----------------------------------------------------------------------------
(* One label: imap_sync::sync_label and the loop of gmail_api_sync::sync_account *)

Box(p) == <<account[p], label[p]>>

\* Mutant: the cursor is set to the end of the mailbox, not to the last mail fetched.
SetCursorToEnd(p, l, n) ==
    state' = [state EXCEPT ![p][account[p]] =
                 Put(@, l, [uidvalidity |-> uidvalidity[account[p], l], last |-> Len(log[account[p], l])])]

SetCursor(p, l, n) ==
    state' = [state EXCEPT ![p][account[p]] =
                 Put(@, l, [uidvalidity |-> uidvalidity[account[p], l], last |-> n])]

\* The last UID or historyId stored for the label, 0 if there is none.
LastOf(p, l) == Get(state[p][account[p]], l, [uidvalidity |-> 0, last |-> 0]).last

AtLabel(p, l) ==
    /\ pc[p] = "label" /\ l \in left[p]
    /\ left' = [left EXCEPT ![p] = @ \ {l}]
    /\ UNCHANGED <<server, files, run, todo, account, stop, history, crashes>>

Fetching(p, l, mails, from) ==
    IF mails = {} THEN UNCHANGED <<pc, label, uids, cursor>>
    ELSE /\ pc' = [pc EXCEPT ![p] = "fetch"]
         /\ label' = [label EXCEPT ![p] = l]
         /\ uids' = [uids EXCEPT ![p] = mails]
         /\ cursor' = [cursor EXCEPT ![p] = from]

\* session.select fails, for whatever reason: the label is taken not to exist.
LabelMissing(p, l) ==
    /\ AtLabel(p, l) /\ account[p] \notin Gmail /\ Heeds(p)
    /\ Event
    /\ UNCHANGED <<pc, label, uids, cursor, state>>

\* All mails of the label, or the UIDs above the stored one.  The last UID is carried
\* over from the stored cursor even when its UIDVALIDITY is another.
Search(p, l) ==
    LET b == <<account[p], l>>
        prior == Get(state[p][account[p]], l, [uidvalidity |-> -1, last |-> 0])
    IN IF InFull(p) \/ prior.uidvalidity # uidvalidity[b] THEN Present(b)
       ELSE AddedAfter(b, prior.last)

OpenImap(p, l) ==
    /\ AtLabel(p, l) /\ account[p] \notin Gmail /\ Heeds(p)
    /\ Fetching(p, l, Search(p, l), LastOf(p, l))
    /\ IF Search(p, l) = {} THEN SetCursor(p, l, LastOf(p, l)) ELSE UNCHANGED state
    /\ UNCHANGED events

\* The history since the stored historyId.  The entry takes the historyId of the
\* mailbox at once, before any mail is fetched.
OpenGmail(p, l) ==
    LET b == <<account[p], l>>
    IN /\ AtLabel(p, l) /\ account[p] \in Gmail
       /\ ~ InFull(p) /\ LastOf(p, l) # 0
       /\ SetCursor(p, l, Len(log[b]))
       /\ Fetching(p, l, AddedAfter(b, LastOf(p, l)), Len(log[b]))
       /\ UNCHANGED events

\* All mails of the label: in full, without a historyId, or because the history call
\* failed and the historyId was dropped.  (A listing cut short by the shutdown flag is
\* dropped at its first mail.)
ListGmail(p, l) ==
    LET b == <<account[p], l>>
        failed == ~ InFull(p) /\ LastOf(p, l) # 0
        from == IF failed THEN 0 ELSE LastOf(p, l)
    IN /\ AtLabel(p, l) /\ account[p] \in Gmail
       /\ IF failed THEN Event ELSE UNCHANGED events
       /\ SetCursor(p, l, from)
       /\ Fetching(p, l, Present(b), from)

\* One mail, in any order: it is merged into its conversation unless it was removed
\* since the listing or cannot be read, and then the cursor does not count it.  After
\* the last mail the cursor of the label is set in memory.
Fetch(p, m) ==
    LET b == Box(p)
        skipped == m \in gone \/ (m \in Unreadable /\ account[p] \notin Gmail)
        last == IF skipped THEN cursor[p] ELSE Larger(cursor[p], Position(b, m))
        done == uids[p] = {m}
    IN /\ pc[p] = "fetch" /\ m \in uids[p] /\ Heeds(p)
       /\ uids' = [uids EXCEPT ![p] = @ \ {m}]
       /\ merged' = IF skipped THEN merged ELSE merged \cup {m}
       /\ touched' = IF skipped \/ ~ full[p] THEN touched ELSE [touched EXCEPT ![p] = @ \cup {m}]
       /\ cursor' = [cursor EXCEPT ![p] = IF done THEN 0 ELSE last]
       /\ IF done
          THEN /\ SetCursor(p, label[p], last)
               /\ pc' = [pc EXCEPT ![p] = "label"] /\ label' = [label EXCEPT ![p] = None]
          ELSE UNCHANGED <<state, pc, label>>
       /\ UNCHANGED <<server, disk, runs, full, resume, base, scoped, todo, account, left,
                      stop, history, bounds>>

AccountDone(p) ==
    /\ pc[p] = "label" /\ left[p] = {}
    /\ pc' = [pc EXCEPT ![p] = "account"]
    /\ Record(p, account[p], "complete")
    /\ unverified' = IF p \in Cli /\ InFull(p) THEN unverified \ {account[p]} ELSE unverified
    /\ UNCHANGED <<server, merged, disk, run, state, todo, account, left, label, uids, cursor,
                   stop, crashed, suspect, reaped, bounds>>

-----------------------------------------------------------------------------
(* The end of a run *)

\* cleanup_orphans removes the files that a full sync of all accounts has not touched,
\* unless they are more than half of them.
Orphans(p) ==
    LET orphans == merged \ touched[p]
    IN IF ~ full[p] \/ scoped[p] \/ 2 * Cardinality(orphans) > Cardinality(merged) THEN {} ELSE orphans

\* Mutant: the state is saved as save_state does, without a merge.
SavesOwnState(p) == state[p]

\* save_state_merged, one read-merge-replace under the lock of the file.
Saved(p) == MergeAccounts(base[p], disk, state[p])

\* The cleanup, then the save.  The watch saves also when accounts have failed.
Save(p) ==
    /\ pc[p] = "account" /\ todo[p] = {}
    /\ merged' = merged \ Orphans(p)
    /\ reaped' = reaped \cup Orphans(p)
    /\ disk' = Saved(p)
    /\ Return(p)
    /\ UNCHANGED <<server, runs, stop, crashed, unverified, suspect, bounds>>

-----------------------------------------------------------------------------
(* Faults, and the specification *)

\* The process is killed.  What it had merged stays; nothing is saved.
Crash(p) ==
    /\ pc[p] # "idle"
    /\ crashes < MaxCrashes /\ events + crashes < MaxFaults
    /\ crashes' = crashes + 1
    /\ Return(p)
    /\ LET here == IF p \in Cli /\ pc[p] \in {"label", "fetch"} THEN {account[p]} ELSE {}
       IN crashed' = crashed \cup here /\ unverified' = unverified \cup here
    /\ UNCHANGED <<server, files, stop, suspect, reaped, events>>

\* Ctrl-C or SIGTERM to the watch, and its next start.
Shutdown ==
    /\ ~ stop /\ stop' = TRUE
    /\ Event
    /\ UNCHANGED <<server, files, run, state, place, history, crashes>>

Restart ==
    /\ stop /\ pc[Watch] = "idle" /\ stop' = FALSE
    /\ UNCHANGED <<server, files, run, state, place, history, bounds>>

Server == \E b \in Boxes : Arrive(b) \/ Remove(b) \/ Change(b) \/ Renumber(b)

Work(p) ==
    \/ \E a \in Accounts : Visit(p, a)
    \/ \E l \in Labels : OpenImap(p, l) \/ OpenGmail(p, l) \/ ListGmail(p, l)
    \/ \E m \in Mails : Fetch(p, m)
    \/ AccountDone(p) \/ Save(p)

Fault(p) ==
    \/ \E a \in Accounts : Refused(p, a)
    \/ \E l \in Labels : LabelMissing(p, l)
    \/ Fails(p)
    \/ Crash(p)

Next ==
    \/ Server
    \/ \E p \in Cli : Sync(p)
    \/ Poll \/ Interrupted \/ Shutdown \/ Restart
    \/ \E p \in Procs : Work(p) \/ Fault(p)

Spec == Init /\ [][Next]_vars

\* The watch goes on polling and works through a poll; nobody else has to move.
FairSpec == Spec /\ WF_vars(Poll) /\ WF_vars(Interrupted) /\ WF_vars(Work(Watch))

-----------------------------------------------------------------------------
(* Properties *)

\* The mails of b up to position n: no process fetches them again incrementally.
Passed(b, n) == {log[b][i] : i \in {j \in DOMAIN log[b] : j <= n}}

Delivered(b) == merged \cup gone \cup reaped
                \cup (IF b[1] \in Gmail THEN {} ELSE Unreadable)

\* A stored cursor never stands beyond a mail that has not reached its conversation
\* file: whatever the runs do to each other, and wherever they fail, are stopped or are
\* killed, the mails up to the cursor have been merged (or were removed, cannot be read,
\* or went with the orphan cleanup).  Mailboxes in `suspect' are left out: those are the
\* subject of NothingSkippedAfterReset and NothingSkippedByGmail.
NothingSkipped ==
    \A b \in LabelsOf(disk) \ suspect : Passed(b, disk[b[1]][b[2]].last) \subseteq Delivered(b)

\* A save never moves the cursor of an IMAP label back under the same UIDVALIDITY, not
\* even that of a run that started long ago or that started from an empty baseline.
CursorsAdvance ==
    \A b \in LabelsOf(disk) :
        /\ b \in LabelsOf(disk')
        /\ LET old == disk[b[1]][b[2]]
               new == disk'[b[1]][b[2]]
           IN b[1] \notin Gmail /\ new.uidvalidity = old.uidvalidity => new.last >= old.last
CursorNeverRegresses == [][CursorsAdvance]_vars

\* What is about to be saved is, for every label, the three-way merge of that label
\* alone: an update that another run made in the meantime to another label or account is
\* kept, and the shortcuts that sync::mod takes for whole accounts change nothing.
SavesKeepOthers ==
    \A p \in Procs : pc[p] = "account" /\ todo[p] = {} =>
        \A b \in Boxes :
            Entry(Saved(p), b[1], b[2]) =
            MergedEntry(Entry(base[p], b[1], b[2]), Entry(disk, b[1], b[2]), Entry(state[p], b[1], b[2]))

\* The first `corky sync' to enter an account after one was killed in it syncs it in
\* full, whether or not --full is given and whatever the watch has done in between.
EntersInFull ==
    \A p \in Cli, a \in Accounts :
        pc[p] = "account" /\ pc'[p] = "label" /\ account'[p] = a /\ a \in crashed => InFull(p)'
CrashedIsResumed == [][EntersInFull]_vars

\* The watch delivers every mail that stays in an IMAP mailbox and can be read, however
\* its polls are disturbed, as long as it is not shut down for good.
EventuallyDelivered ==
    \A b \in Boxes, m \in Mails :
        m \in Arrived(b) ~> \/ m \in Delivered(b)
                            \/ b \in suspect \/ stop

\* SPEC 6.2 answers a new UIDVALIDITY with a full sync, after which the stored UID
\* should again be one of the mailbox as it is now numbered.
NothingSkippedAfterReset ==
    \A b \in LabelsOf(disk) :
        b[1] \notin Gmail /\ disk[b[1]][b[2]].uidvalidity = uidvalidity[b]
            => Passed(b, disk[b[1]][b[2]].last) \subseteq Delivered(b)

\* SPEC 6.6: the state of a run that breaks off is not saved and the next run fetches
\* again.  So a Gmail cursor does not pass a mail that was not fetched.
NothingSkippedByGmail ==
    \A b \in LabelsOf(disk) :
        b[1] \in Gmail => Passed(b, disk[b[1]][b[2]].last) \subseteq Delivered(b)

\* SPEC 3.5: a successful run clears the marker of an interrupted account.  Until a full
\* sync of the account has succeeded, no sync of it succeeds as an incremental one.
CrashedIsReverified ==
    [][\A p \in Cli, a \in unverified :
          runs[a] = "fetching" /\ runs'[a] = "done" /\ account[p] = a /\ pc[p] = "label"
              /\ pc'[p] = "account" => InFull(p)]_vars
=============================================================================
