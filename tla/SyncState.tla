------------------------------- MODULE SyncState -------------------------------
(***************************************************************************)
(* The value of .sync-state.json and the three-way merge that saves it     *)
(* (sync/types.rs, sync/mod.rs).  A state maps accounts to maps from       *)
(* labels to cursors; a HashMap is a function on the keys it holds.        *)
(*                                                                         *)
(* A cursor is [uidvalidity, last].  For IMAP last is last_uid; for Gmail, *)
(* which has no UIDVALIDITY, uidvalidity is 0 and last is last_history_id, *)
(* with 0 for None.  An account uses one of the maps `labels' and          *)
(* `gmail_labels', so only that one is kept.                               *)
(***************************************************************************)
EXTENDS Integers

Cursor == [uidvalidity : Nat, last : Nat]

EmptyMap == [k \in {} |-> k]

\* m.get(k) == Some(v)
Has(m, k, v) == k \in DOMAIN m /\ m[k] = v

Get(m, k, default) == IF k \in DOMAIN m THEN m[k] ELSE default

Put(m, k, v) == [x \in DOMAIN m \cup {k} |-> IF x = k THEN v ELSE m[x]]

Larger(x, y) == IF x > y THEN x ELSE y

-----------------------------------------------------------------------------
(* The loop that merge_account_states, merge_label_states and                *)
(* merge_gmail_label_states share: an entry the writer has not changed since *)
(* its baseline keeps the file's value, one that nobody else has changed     *)
(* takes the writer's, and a conflict is resolved.                           *)
ThreeWay(base, current, updated, Resolve(_, _, _)) ==
    LET changed == {k \in DOMAIN updated : ~ Has(base, k, updated[k])}
    IN [k \in DOMAIN current \cup changed |->
          IF k \notin changed THEN current[k]
          ELSE IF k \notin DOMAIN current \/ Has(base, k, current[k]) THEN updated[k]
          ELSE Resolve(k, current[k], updated[k])]

\* Mutant: the last writer wins a conflict.
LastWriterWins(current, updated) == updated

\* Two writers have moved a cursor: the higher one, unless UIDVALIDITY differs.
NewerCursor(current, updated) ==
    IF current.uidvalidity = updated.uidvalidity
    THEN [updated EXCEPT !.last = Larger(current.last, @)]
    ELSE updated

MergeLabels(base, current, updated) ==
    ThreeWay(base, current, updated, LAMBDA l, c, u : NewerCursor(c, u))

\* Mutant: an account changed on both sides is taken from the writer.
MergeWholeAccounts(base, current, updated) ==
    ThreeWay(base, current, updated, LAMBDA a, c, u : u)

\* merge_account_states; an account without a baseline is merged as if that was empty.
MergeAccounts(base, current, updated) ==
    ThreeWay(base, current, updated,
             LAMBDA a, c, u : MergeLabels(Get(base, a, EmptyMap), c, u))

-----------------------------------------------------------------------------
(* What the merge promises, one label at a time and without the shortcuts    *)
(* taken for whole accounts.                                                 *)

LabelsOf(state) == UNION {{<<a, l>> : l \in DOMAIN state[a]} : a \in DOMAIN state}

\* The entry of label l of account a: a set of one cursor, or none.
Entry(state, a, l) ==
    IF a \in DOMAIN state /\ l \in DOMAIN state[a] THEN {state[a][l]} ELSE {}

\* What a save should leave of the label: a change of one side is kept, and of
\* two changes under the same UIDVALIDITY neither is undone.
MergedEntry(base, current, updated) ==
    IF updated = base THEN current
    ELSE IF current \in {base, {}} THEN updated
    ELSE {NewerCursor(c, u) : c \in current, u \in updated}
=============================================================================
