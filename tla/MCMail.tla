-------------------------------- MODULE MCMail --------------------------------
(* The two providers of MailSync, each on an instance of its own: an IMAP     *)
(* account with two labels, or a Gmail account with one.  A behaviour has one *)
(* of the two accounts, which `provider' tells.  The instances are those of   *)
(* MailSyncProofs, which extends MailSync, so that its lemmas hold of them.   *)
EXTENDS Naturals, TLC

CONSTANTS
    home, work,        \* an IMAP and a Gmail account
    inbox, sent, all,  \* labels
    sync, watch, none

ASSUME NamesDiffer == watch # sync /\ none \notin {home, work, inbox, sent, all}

VARIABLES
    provider,
    log, gone, uidvalidity, merged, disk, runs,
    pc, full, resume, base, state, todo, account, left, label, uids, cursor, touched, scoped, stop,
    crashed, unverified, suspect, reaped, events, crashes

Imap == INSTANCE MailSyncProofs WITH
    Accounts <- {home}, Gmail <- {}, Labels <- {inbox, sent}, None <- none,
    Cli <- {sync}, Watch <- watch, Unreadable <- {1},
    MaxMails <- 2, MaxEvents <- 1, MaxCrashes <- 1, MaxFaults <- 2

GmailApi == INSTANCE MailSyncProofs WITH
    Accounts <- {work}, Gmail <- {work}, Labels <- {all}, None <- none,
    Cli <- {sync}, Watch <- watch, Unreadable <- {},
    MaxMails <- 2, MaxEvents <- 1, MaxCrashes <- 1, MaxFaults <- 2

Swap == Permutations({inbox, sent})

Init ==
    \/ provider = "imap" /\ Imap!Init
    \/ provider = "gmail-api" /\ GmailApi!Init

Next ==
    \/ provider = "imap" /\ Imap!Next /\ UNCHANGED provider
    \/ provider = "gmail-api" /\ GmailApi!Next /\ UNCHANGED provider

Spec == Init /\ [][Next]_<<provider, Imap!vars>>

\* The state, the cursors and the run log of either provider have their types.
TypeOK == IF provider = "imap" THEN Imap!TypeOK ELSE GmailApi!TypeOK

\* No cursor stands beyond a mail that has not reached its file; see MailSync.
NothingSkipped == IF provider = "imap" THEN Imap!NothingSkipped ELSE GmailApi!NothingSkipped

\* A save is the three-way merge of each label alone; see MailSync.
SavesKeepOthers == IF provider = "imap" THEN Imap!SavesKeepOthers ELSE GmailApi!SavesKeepOthers

\* A save never moves an IMAP cursor back, and drops none of Gmail; see MailSync.
CursorNeverRegresses ==
    [][IF provider = "imap" THEN Imap!CursorsAdvance ELSE GmailApi!CursorsAdvance]_<<provider, Imap!vars>>

\* The sync after one that was killed is a full one; see MailSync.
CrashedIsResumed ==
    [][IF provider = "imap" THEN Imap!EntersInFull ELSE GmailApi!EntersInFull]_<<provider, Imap!vars>>
=============================================================================
