------------------------------- MODULE SheetPush -------------------------------
(***************************************************************************)
(* `corky sheets pull' and `push' of one tab (doc/sheets.rs).  A push      *)
(* takes a snapshot of the tab, clears it and writes the rows of the CSV   *)
(* file, in three requests; if the last one fails it saves the snapshot    *)
(* next to the file and puts it back.  Others edit the tab meanwhile.      *)
(***************************************************************************)
EXTENDS Naturals

CONSTANTS MaxEdits, MaxFaults \* bounds

VARIABLES
    tab,      \* the rows of the tab, named by the edit that made them; 0: none
    csv,      \* those of the file
    bak,      \* those of <file>.bak; 0: it is empty, cut, or not there
    pc,
    values,   \* the rows the push has read
    backup,   \* its snapshot
    previous, \* history: the rows of the tab when the last push began, or as edited since
    excused,  \* history: killed, edited behind the snapshot, cleared without an answer,
              \* or neither the file nor the tab could be restored
    edits, faults

push == <<pc, values, backup>>
vars == <<tab, csv, bak, push, previous, excused, edits, faults>>

Init ==
    /\ tab = 0 /\ csv = 0 /\ bak = 0
    /\ pc = "idle" /\ values = 0 /\ backup = 0
    /\ previous = 0 /\ excused = FALSE /\ edits = 0 /\ faults = 0

Fault == faults < MaxFaults /\ faults' = faults + 1

-----------------------------------------------------------------------------
(* Push *)

\* read_csv_values; a file without rows is not pushed.  ensure_tab_exists adds an empty tab.
Begin ==
    /\ pc = "idle" /\ csv # 0
    /\ pc' = "snapshot" /\ values' = csv
    /\ previous' = tab
    /\ excused' = FALSE
    /\ UNCHANGED <<tab, csv, bak, backup, edits, faults>>

Snapshot ==
    /\ pc = "snapshot" /\ pc' = "clear"
    /\ backup' = tab
    /\ UNCHANGED <<tab, csv, bak, values, previous, excused, edits, faults>>

\* Mutant: a push without a snapshot goes on.
GoesOn ==
    /\ pc = "snapshot" /\ pc' = "clear"
    /\ backup' = 0 /\ Fault
    /\ UNCHANGED <<tab, csv, bak, values, previous, excused, edits>>

\* `push aborted to avoid data loss'.
SnapshotFails ==
    /\ pc = "snapshot" /\ pc' = "idle" /\ Fault
    /\ UNCHANGED <<tab, csv, bak, values, backup, previous, excused, edits>>

\* clear_values.
ClearTab ==
    /\ pc = "clear" /\ pc' = "write"
    /\ tab' = 0
    /\ UNCHANGED <<csv, bak, values, backup, previous, excused, edits, faults>>

\* The push ends; the request may have been carried out, and then nothing is put back.
ClearFails ==
    /\ pc = "clear" /\ pc' = "idle" /\ Fault
    /\ tab' \in {tab, 0}
    /\ excused' = (excused \/ tab' # tab)
    /\ UNCHANGED <<csv, bak, values, backup, previous, edits>>

\* update_values.
WriteTab ==
    /\ pc = "write" /\ pc' = "idle"
    /\ tab' = values /\ previous' = values
    /\ UNCHANGED <<csv, bak, values, backup, excused, edits, faults>>

\* Without rows in the snapshot there is nothing to restore.
WriteFails ==
    /\ pc = "write" /\ Fault
    /\ pc' = IF backup = 0 THEN "idle" ELSE "backup"
    /\ tab' \in {tab, values}
    /\ UNCHANGED <<csv, bak, values, backup, previous, excused, edits>>

\* The snapshot is saved first, `so it survives even if the restore write also fails'.
SaveBackup ==
    /\ pc = "backup" /\ pc' = "restore"
    /\ bak' = backup
    /\ UNCHANGED <<tab, csv, values, backup, previous, excused, edits, faults>>

\* That it could not be saved is only a warning; an earlier .bak file may be cut by then.
SaveFails ==
    /\ pc = "backup" /\ pc' = "restore" /\ Fault
    /\ bak' \in {bak, 0}
    /\ UNCHANGED <<tab, csv, values, backup, previous, excused, edits>>

Restore ==
    /\ pc = "restore" /\ pc' = "idle"
    /\ tab' = backup
    /\ UNCHANGED <<csv, bak, values, backup, previous, excused, edits, faults>>

RestoreFails ==
    /\ pc = "restore" /\ pc' = "idle" /\ Fault
    /\ excused' = (excused \/ bak # backup)
    /\ UNCHANGED <<tab, csv, bak, values, backup, previous, edits>>

Kill ==
    /\ pc # "idle" /\ pc' = "idle" /\ Fault
    /\ excused' = TRUE
    /\ bak' \in IF pc = "backup" THEN {bak, 0} ELSE {bak}
    /\ UNCHANGED <<tab, csv, values, backup, previous, edits>>

-----------------------------------------------------------------------------
(* Pull, and the people who edit *)

\* pull_tab replaces the file.
Pull ==
    /\ pc = "idle" /\ csv' = tab
    /\ UNCHANGED <<tab, bak, push, previous, excused, edits, faults>>

Edit == edits < MaxEdits /\ edits' = edits + 1

EditTab ==
    /\ Edit /\ tab' = edits' /\ previous' = edits'
    /\ excused' = (excused \/ pc \notin {"idle", "snapshot"})
    /\ UNCHANGED <<csv, bak, push, faults>>

EditFile ==
    /\ Edit /\ csv' = edits'
    /\ UNCHANGED <<tab, bak, push, previous, excused, faults>>

Next ==
    \/ Begin \/ Snapshot \/ SnapshotFails \/ ClearTab \/ ClearFails \/ WriteTab \/ WriteFails
    \/ SaveBackup \/ SaveFails \/ Restore \/ RestoreFails \/ Kill
    \/ Pull \/ EditTab \/ EditFile

Spec == Init /\ [][Next]_vars

-----------------------------------------------------------------------------
(* Properties *)

\* When a push has ended, however many of its requests failed and whether or not they had
\* been carried out, the rows the tab had are in the tab or in the .bak file:
\* `a partial failure never silently discards the previous contents'.
PreviousContentsKept ==
    pc = "idle" /\ ~ excused /\ previous # 0 => tab = previous \/ bak = previous
=============================================================================
