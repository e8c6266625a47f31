------------------------------ MODULE ContactPush ------------------------------
(***************************************************************************)
(* `corky contact push' and `corky contact delete' (contact/push.rs,       *)
(* delete.rs): each push updates or creates the Google contacts of the     *)
(* local ones, and remembers the resource name of each in                  *)
(* .people-sync-state.json when it is through.                             *)
(***************************************************************************)
EXTENDS Naturals, FiniteSets

CONSTANTS
    Names,    \* local contacts
    Procs,
    MaxMade,  \* bound: Google contacts made
    MaxFaults \* bound: processes killed, and contacts made of which no answer came

VARIABLES
    google,    \* the contacts at Google: <<name, resource>>
    disk,      \* .people-sync-state.json: resource by name; 0: none
    mine,      \* mine[p]: what push p has of it in memory
    left,      \* left[p]: contacts p has still to push
    pc,
    changed,   \* history: names whose entry p has changed since it read the file
    lost,      \* lost[n]: history: contacts made whose resource name was not saved
    overlap,   \* history: two pushes have run at the same time
    made, faults

vars == <<google, disk, mine, left, pc, changed, lost, overlap, made, faults>>

None == [n \in Names |-> 0]

Init ==
    /\ google = {} /\ disk = None
    /\ mine = [p \in Procs |-> None] /\ left = [p \in Procs |-> {}]
    /\ pc = [p \in Procs |-> "idle"] /\ changed = [p \in Procs |-> {}]
    /\ lost = None /\ overlap = FALSE /\ made = 0 /\ faults = 0

\* run_google: the contacts to push are those named, or all.
Load(p, names) ==
    /\ pc[p] = "idle" /\ names # {}
    /\ pc' = [pc EXCEPT ![p] = "push"]
    /\ mine' = [mine EXCEPT ![p] = disk] /\ left' = [left EXCEPT ![p] = names]
    /\ changed' = [changed EXCEPT ![p] = {}]
    /\ overlap' = (overlap \/ \E q \in Procs : pc[q] # "idle")
    /\ UNCHANGED <<google, disk, lost, made, faults>>

Pushing(p, n) ==
    /\ pc[p] = "push" /\ n \in left[p]
    /\ left' = [left EXCEPT ![p] = @ \ {n}]

Known(p, n) == <<n, mine[p][n]>> \in google

Update(p, n) ==
    /\ Pushing(p, n) /\ Known(p, n)
    /\ UNCHANGED <<google, disk, mine, pc, changed, lost, overlap, made, faults>>

Make(n) ==
    /\ made < MaxMade /\ made' = made + 1
    /\ google' = google \cup {<<n, made'>>}

\* Mutant: the name of a contact made in place of a missing one is not kept.
CreateUnrecorded(p, n) ==
    /\ Pushing(p, n) /\ ~ Known(p, n) /\ Make(n)
    /\ mine' = IF mine[p][n] # 0 THEN mine ELSE [mine EXCEPT ![p][n] = made']
    /\ changed' = [changed EXCEPT ![p] = @ \cup {n}]
    /\ UNCHANGED <<disk, pc, lost, overlap, faults>>

\* There is no resource name, or Google answers 404 to it.
Create(p, n) ==
    /\ Pushing(p, n) /\ ~ Known(p, n) /\ Make(n)
    /\ mine' = [mine EXCEPT ![p][n] = made']
    /\ changed' = [changed EXCEPT ![p] = @ \cup {n}]
    /\ UNCHANGED <<disk, pc, lost, overlap, faults>>

\* An error of either request; the contact may have been made all the same.
PushErr(p, n) ==
    /\ Pushing(p, n) /\ faults < MaxFaults /\ faults' = faults + 1
    /\ \/ UNCHANGED <<google, made, lost>>
       \/ ~ Known(p, n) /\ Make(n) /\ lost' = [lost EXCEPT ![n] = @ + 1]
    /\ UNCHANGED <<disk, mine, pc, changed, overlap>>

\* Mutant: the file is replaced, as it was before the locked store.
SavesAlone(p) == mine[p]

\* merge_sync_state overlays every name of the run, changed or not.
Saved(p) == [n \in Names |-> IF mine[p][n] # 0 THEN mine[p][n] ELSE disk[n]]

Save(p) ==
    /\ pc[p] = "push" /\ left[p] = {}
    /\ disk' = Saved(p)
    /\ pc' = [pc EXCEPT ![p] = "idle"]
    /\ mine' = [mine EXCEPT ![p] = None] /\ changed' = [changed EXCEPT ![p] = {}]
    /\ UNCHANGED <<google, left, lost, overlap, made, faults>>

\* The push is killed: what it made is not remembered.
Kill(p) ==
    /\ pc[p] = "push" /\ faults < MaxFaults /\ faults' = faults + 1
    /\ lost' = [n \in Names |-> lost[n] + IF n \in changed[p] THEN 1 ELSE 0]
    /\ pc' = [pc EXCEPT ![p] = "idle"] /\ left' = [left EXCEPT ![p] = {}]
    /\ mine' = [mine EXCEPT ![p] = None] /\ changed' = [changed EXCEPT ![p] = {}]
    /\ UNCHANGED <<google, disk, overlap, made>>

\* `corky contact delete', or the user at Google; .people-sync-state.json is left alone.
Delete(r) ==
    /\ r \in google /\ google' = google \ {r}
    /\ UNCHANGED <<disk, mine, left, pc, changed, lost, overlap, made, faults>>

Next ==
    \/ \E p \in Procs :
          \/ \E names \in SUBSET Names : Load(p, names)
          \/ \E n \in Names : Update(p, n) \/ Create(p, n) \/ PushErr(p, n)
          \/ Save(p) \/ Kill(p)
    \/ \E r \in google : Delete(r)

Spec == Init /\ [][Next]_vars

-----------------------------------------------------------------------------
(* Properties *)

\* While pushes take turns, a contact is at Google once, but for those that were made
\* by a push that was killed or got no answer: also when it was deleted there and made
\* again, in whatever order.
OneContactPerName ==
    ~ overlap => \A n \in Names : Cardinality({r \in google : r[1] = n}) <= 1 + lost[n]

\* Whatever the interleaving, a contact whose resource name was saved is never forgotten
\* again, so that the next push updates it and makes no second one.
MappingKept == \A n \in Names : disk[n] # 0 => disk'[n] # 0
NoMappingLost == [][MappingKept]_disk
=============================================================================
