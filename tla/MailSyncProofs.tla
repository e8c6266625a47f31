---------------------------- MODULE MailSyncProofs ----------------------------
(***************************************************************************)
(* Machine-checked proofs about MailSync, for every set of accounts, of    *)
(* labels, of mails and of processes and every bound: a save keeps what    *)
(* other runs have written, a cursor never goes back and never passes a    *)
(* mail that is neither merged nor still to be fetched, and an account     *)
(* whose sync has crashed is resumed.                                      *)
(***************************************************************************)
EXTENDS MailSync, SyncState, FiniteSetTheorems, SequenceTheorems, WellFoundedInduction, TLAPS

-----------------------------------------------------------------------------
(* The merge of SyncState, taken account by account with its shortcuts, is the   *)
(* three-way merge of every label on its own.                                    *)

\* The entry of label l in the label map of one account.
LabelEntry(labels, l) == IF l \in DOMAIN labels THEN {labels[l]} ELSE {}

\* A writer never drops a label it has loaded.
Extends(m, old) == DOMAIN old \subseteq DOMAIN m

-----------------------------------------------------------------------------
\* merge_label_states merges each label on its own.
LEMMA LabelsMerge ==
    ASSUME NEW old, NEW current, NEW updated, NEW l, Extends(updated, old)
    PROVE  LabelEntry(MergeLabels(old, current, updated), l) =
           MergedEntry(LabelEntry(old, l), LabelEntry(current, l), LabelEntry(updated, l))
<1> DEFINE changed == {k \in DOMAIN updated : ~ Has(old, k, updated[k])}
           joint == MergeLabels(old, current, updated)
           b == LabelEntry(old, l)
           c == LabelEntry(current, l)
           u == LabelEntry(updated, l)
<1>1. joint = [k \in DOMAIN current \cup changed |->
                  IF k \notin changed THEN current[k]
                  ELSE IF k \notin DOMAIN current \/ Has(old, k, current[k]) THEN updated[k]
                  ELSE NewerCursor(current[k], updated[k])]
  BY DEF MergeLabels, ThreeWay
<1> HIDE DEF joint
<1>2. CASE l \notin changed
  <2>1. LabelEntry(joint, l) = c
    BY <1>1, <1>2 DEF LabelEntry
  <2>2. u = b
    <3>1. CASE l \in DOMAIN updated
      BY <1>2, <3>1 DEF LabelEntry, Has
    <3>2. CASE l \notin DOMAIN updated
      BY <3>2 DEF LabelEntry, Extends
    <3> QED BY <3>1, <3>2
  <2> QED BY <2>1, <2>2 DEF MergedEntry, joint
<1>3. CASE l \in changed
  <2>1. u # b /\ u = {updated[l]}
    BY <1>3 DEF LabelEntry, Has
  <2>2. CASE l \notin DOMAIN current \/ Has(old, l, current[l])
    <3>1. LabelEntry(joint, l) = u
      BY <1>1, <1>3, <2>1, <2>2 DEF LabelEntry
    <3>2. c \in {b, {}}
      BY <2>2 DEF LabelEntry, Has
    <3> QED BY <2>1, <3>1, <3>2 DEF MergedEntry, joint
  <2>3. CASE l \in DOMAIN current /\ ~ Has(old, l, current[l])
    <3>1. LabelEntry(joint, l) = {NewerCursor(current[l], updated[l])}
      BY <1>1, <1>3, <2>3 DEF LabelEntry
    <3>2. c = {current[l]} /\ c \notin {b, {}}
      BY <2>3 DEF LabelEntry, Has
    <3>3. {NewerCursor(x, y) : x \in c, y \in u} = {NewerCursor(current[l], updated[l])}
      BY <2>1, <3>2
    <3> HIDE DEF b, c, u
    <3>4. MergedEntry(b, c, u) = {NewerCursor(x, y) : x \in c, y \in u}
      BY <2>1, <3>2 DEF MergedEntry
    <3> QED BY <3>1, <3>3, <3>4 DEF joint, b, c, u
  <2> QED BY <2>2, <2>3
<1> QED BY <1>2, <1>3

\* Entries of a whole state are those of the label map of its account.
LEMMA EntryIsLabelEntry ==
    ASSUME NEW whole, NEW a, NEW l
    PROVE  /\ a \in DOMAIN whole => Entry(whole, a, l) = LabelEntry(whole[a], l)
           /\ a \notin DOMAIN whole => Entry(whole, a, l) = {}
BY DEF Entry, LabelEntry

\* A state extends the one it was started from.
StateExtends(whole, old) ==
    Extends(whole, old) /\ \A a \in DOMAIN old : Extends(whole[a], old[a])

\* merge_account_states is the merge of every label on its own, provided that the file
\* still has the accounts of the baseline and that the writer has dropped nothing.
THEOREM MergeIsPerLabel ==
    ASSUME NEW old, NEW current, NEW updated, NEW a, NEW l,
           Extends(current, old), StateExtends(updated, old)
    PROVE  Entry(MergeAccounts(old, current, updated), a, l) =
           MergedEntry(Entry(old, a, l), Entry(current, a, l), Entry(updated, a, l))
<1> DEFINE changed == {k \in DOMAIN updated : ~ Has(old, k, updated[k])}
           joint == MergeAccounts(old, current, updated)
<1>1. joint = [k \in DOMAIN current \cup changed |->
                  IF k \notin changed THEN current[k]
                  ELSE IF k \notin DOMAIN current \/ Has(old, k, current[k]) THEN updated[k]
                  ELSE MergeLabels(Get(old, k, EmptyMap), current[k], updated[k])]
  BY DEF MergeAccounts, ThreeWay
<1> HIDE DEF joint
<1>2. DOMAIN joint = DOMAIN current \cup changed
  BY <1>1
<1>3. CASE a \notin changed
  <2>1. Entry(joint, a, l) = Entry(current, a, l)
    BY <1>1, <1>2, <1>3 DEF Entry
  <2>2. Entry(updated, a, l) = Entry(old, a, l)
    <3>1. CASE a \in DOMAIN updated
      BY <1>3, <3>1 DEF Entry, Has
    <3>2. CASE a \notin DOMAIN updated
      BY <3>2 DEF Entry, StateExtends, Extends
    <3> QED BY <3>1, <3>2
  <2> QED BY <2>1, <2>2 DEF MergedEntry, joint
<1>4. CASE a \in changed /\ a \notin DOMAIN current
  <2>1. joint[a] = updated[a]
    BY <1>1, <1>4
  <2>2. Entry(joint, a, l) = Entry(updated, a, l)
    BY <1>2, <1>4, <2>1 DEF Entry
  <2>3. Entry(old, a, l) = {} /\ Entry(current, a, l) = {}
    BY <1>4 DEF Entry, Extends
  <2> QED BY <2>2, <2>3 DEF MergedEntry, joint
<1>5. CASE a \in changed /\ a \in DOMAIN current /\ Has(old, a, current[a])
  <2>1. joint[a] = updated[a]
    BY <1>1, <1>5
  <2>2. Entry(joint, a, l) = Entry(updated, a, l)
    BY <1>2, <1>5, <2>1 DEF Entry
  <2>3. Entry(old, a, l) = Entry(current, a, l)
    BY <1>5 DEF Entry, Has
  <2> QED BY <2>2, <2>3 DEF MergedEntry, joint
<1>6. CASE a \in changed /\ a \in DOMAIN current /\ ~ Has(old, a, current[a])
  <2> DEFINE labels == Get(old, a, EmptyMap)
  <2>1. joint[a] = MergeLabels(labels, current[a], updated[a])
    BY <1>1, <1>6
  <2>2. Extends(updated[a], labels)
    BY DEF Get, EmptyMap, StateExtends, Extends
  <2>3. LabelEntry(labels, l) = Entry(old, a, l)
    BY DEF Get, EmptyMap, LabelEntry, Entry
  <2>4. Entry(joint, a, l) = LabelEntry(joint[a], l)
    BY <1>2, <1>6, EntryIsLabelEntry
  <2>5. Entry(current, a, l) = LabelEntry(current[a], l) /\ Entry(updated, a, l) = LabelEntry(updated[a], l)
    BY <1>6, EntryIsLabelEntry
  <2> HIDE DEF labels
  <2>6. LabelEntry(joint[a], l) =
        MergedEntry(LabelEntry(labels, l), LabelEntry(current[a], l), LabelEntry(updated[a], l))
    BY <2>1, <2>2, LabelsMerge
  <2> QED BY <2>3, <2>4, <2>5, <2>6 DEF joint
<1> QED BY <1>3, <1>4, <1>5, <1>6

\* The merge keeps every account and label of the file.
LEMMA MergeExtends ==
    ASSUME NEW old, NEW current, NEW updated,
           StateExtends(updated, old)
    PROVE  Extends(MergeAccounts(old, current, updated), current)
BY DEF MergeAccounts, ThreeWay, Extends

-----------------------------------------------------------------------------
(* The runs *)

\* What a run holds extends its baseline, and so does the file that it will replace.
Grows ==
    /\ state = [p \in Procs |-> state[p]]
    /\ base = [p \in Procs |-> base[p]]
    /\ \A p \in Procs : Extends(disk, base[p]) /\ StateExtends(state[p], base[p])

\* The ways an action treats the states of the runs and the file.
Kept == UNCHANGED <<state, base, disk>>

Loads(p) ==
    \E s \in {EmptyMap, disk} :
        /\ base' = [base EXCEPT ![p] = s] /\ state' = [state EXCEPT ![p] = s]
        /\ UNCHANGED disk

Enters(p, a) ==
    /\ state' = [state EXCEPT ![p] = Put(@, a, Get(@, a, EmptyMap))]
    /\ UNCHANGED <<base, disk>>

Updates(p) ==
    /\ \E a, l, c : state' = [state EXCEPT ![p][a] = Put(@, l, c)]
    /\ UNCHANGED <<base, disk>>

Saves(p) ==
    /\ disk' = Saved(p)
    /\ base' = [base EXCEPT ![p] = EmptyMap] /\ state' = [state EXCEPT ![p] = EmptyMap]

\* Every step treats them in one of these ways.
LEMMA StepsOfStates ==
    ASSUME [Next]_vars, Grows
    PROVE  Kept \/ \E p \in Procs : \/ Loads(p) \/ Updates(p) \/ Saves(p)
                                    \/ \E a \in Accounts : Enters(p, a)
<1> USE DEF run, files
<1> DEFINE Changes(p) == Loads(p) \/ Updates(p) \/ Saves(p) \/ \E a \in Accounts : Enters(p, a)
<1> HIDE DEF Changes
<1> SUFFICES Kept \/ \E p \in Procs : Changes(p)
  BY DEF Changes
<1>1. CASE UNCHANGED vars
  BY <1>1 DEF vars, Kept
<1>2. CASE Server
  BY <1>2 DEF Server, Arrive, Remove, Change, Renumber, Kept
<1>3. ASSUME NEW p \in Procs, Return(p), UNCHANGED disk
      PROVE  Changes(p)
  BY <1>3 DEF Return, Loads, Changes
<1>4. ASSUME NEW p \in Procs, NEW accounts, NEW isFull, NEW isScoped, NEW interrupted,
             Begin(p, accounts, isFull, isScoped, interrupted)
      PROVE  Changes(p)
  BY <1>4 DEF Begin, Grows, Loads, Changes
<1>5. CASE \E p \in Cli : Sync(p)
  BY <1>4, <1>5 DEF Sync, Procs
<1>6. CASE Poll
  BY <1>4, <1>6 DEF Poll, Procs
<1>7. CASE Interrupted \/ Shutdown \/ Restart
  BY <1>7 DEF Interrupted, Abandon, Shutdown, Restart, Kept
<1>8. ASSUME NEW p \in Procs, Work(p)
      PROVE  Kept \/ Changes(p)
  <2>1. ASSUME NEW a \in Accounts, Visit(p, a)
        PROVE  Changes(p)
    BY <2>1 DEF Visit, Enters, Changes
  <2>2. ASSUME NEW l, NEW n, SetCursor(p, l, n), UNCHANGED <<base, disk>>
        PROVE  Changes(p)
    BY <2>2 DEF SetCursor, Updates, Changes
  <2>3. ASSUME NEW l \in Labels, OpenImap(p, l) \/ OpenGmail(p, l) \/ ListGmail(p, l)
        PROVE  Kept \/ Changes(p)
    <3>1. UNCHANGED <<base, disk>>
      BY <2>3 DEF OpenImap, OpenGmail, ListGmail, AtLabel
    <3>2. UNCHANGED state \/ \E n : SetCursor(p, l, n)
      BY <2>3 DEF OpenImap, OpenGmail, ListGmail
    <3> QED BY <2>2, <3>1, <3>2 DEF Kept
  <2>4. ASSUME NEW m \in Mails, Fetch(p, m)
        PROVE  Kept \/ Changes(p)
    <3>1. UNCHANGED <<base, disk>>
      BY <2>4 DEF Fetch
    <3>2. UNCHANGED state \/ \E l, n : SetCursor(p, l, n)
      BY <2>4 DEF Fetch
    <3> QED BY <2>2, <3>1, <3>2 DEF Kept
  <2>5. CASE AccountDone(p)
    BY <2>5 DEF AccountDone, Kept
  <2>6. CASE Save(p)
    BY <2>6 DEF Save, Return, Saves, Changes
  <2> QED BY <1>8, <2>1, <2>3, <2>4, <2>5, <2>6 DEF Work
<1>9. ASSUME NEW p \in Procs, Fault(p)
      PROVE  Kept \/ Changes(p)
  <2>1. ASSUME NEW a \in Accounts, Refused(p, a)
        PROVE  Kept \/ Changes(p)
    BY <1>3, <2>1 DEF Refused, Kept
  <2>2. ASSUME NEW l \in Labels, LabelMissing(p, l)
        PROVE  Kept
    BY <2>2 DEF LabelMissing, AtLabel, Kept
  <2>3. CASE Fails(p)
    BY <1>3, <2>3 DEF Fails, Abandon, Kept
  <2>4. CASE Crash(p)
    BY <1>3, <2>4 DEF Crash
  <2> QED BY <1>9, <2>1, <2>2, <2>3, <2>4 DEF Fault
<1> QED
  BY <1>1, <1>2, <1>5, <1>6, <1>7, <1>8, <1>9 DEF Next

-----------------------------------------------------------------------------
\* Every state extends the empty one.
LEMMA NothingIsExtended ==
    ASSUME NEW m
    PROVE  Extends(m, EmptyMap) /\ StateExtends(m, EmptyMap)
BY DEF StateExtends, Extends, EmptyMap

LEMMA GrowsInit == Init => Grows
BY NothingIsExtended DEF Init, Grows

LEMMA GrowsStep == Grows /\ [Next]_vars => Grows'
<1> SUFFICES ASSUME Grows, [Next]_vars PROVE Grows'
  OBVIOUS
<1>1. CASE Kept
  BY <1>1 DEF Kept, Grows
<1>2. ASSUME NEW p \in Procs, Loads(p)
      PROVE  Grows'
  <2>1. PICK s \in {EmptyMap, disk} :
            /\ base' = [base EXCEPT ![p] = s] /\ state' = [state EXCEPT ![p] = s]
            /\ UNCHANGED disk
    BY <1>2 DEF Loads
  <2>2. Extends(disk, s) /\ StateExtends(s, s)
    BY NothingIsExtended DEF StateExtends, Extends
  <2> QED BY <2>1, <2>2 DEF Grows
<1>3. ASSUME NEW p \in Procs, NEW a \in Accounts, Enters(p, a)
      PROVE  Grows'
  <2> DEFINE labels == Get(state[p], a, EmptyMap)
             s == Put(state[p], a, labels)
  <2>1. state' = [state EXCEPT ![p] = s] /\ UNCHANGED <<base, disk>>
    BY <1>3 DEF Enters
  <2>2. StateExtends(s, base[p])
    <3>1. StateExtends(state[p], base[p])
      BY DEF Grows
    <3>2. DOMAIN base[p] \subseteq DOMAIN s
      BY <3>1 DEF Put, StateExtends, Extends
    <3>3. ASSUME NEW x \in DOMAIN base[p] PROVE s[x] = state[p][x]
      <4>1. x \in DOMAIN state[p]
        BY <3>1 DEF StateExtends, Extends
      <4>2. CASE x = a
        BY <4>1, <4>2 DEF Put, Get
      <4>3. CASE x # a
        BY <4>1, <4>3 DEF Put
      <4> QED BY <4>2, <4>3
    <3> HIDE DEF s
    <3> QED BY <3>1, <3>2, <3>3 DEF StateExtends, Extends
  <2> HIDE DEF s
  <2> QED BY <2>1, <2>2 DEF Grows
<1>4. ASSUME NEW p \in Procs, Updates(p)
      PROVE  Grows'
  <2>1. PICK a, l, c : state' = [state EXCEPT ![p][a] = Put(@, l, c)]
    BY <1>4 DEF Updates
  <2> DEFINE s == [state[p] EXCEPT ![a] = Put(@, l, c)]
  <2>2. StateExtends(s, base[p])
    <3>1. StateExtends(state[p], base[p])
      BY DEF Grows
    <3>2. DOMAIN s = DOMAIN state[p]
      OBVIOUS
    <3>3. ASSUME NEW x \in DOMAIN state[p] PROVE DOMAIN state[p][x] \subseteq DOMAIN s[x]
      <4>1. CASE x = a
        <5>1. s[x] = Put(state[p][x], l, c)
          BY <4>1
        <5> QED BY <5>1 DEF Put
      <4>2. CASE x # a
        BY <4>2
      <4> QED BY <4>1, <4>2
    <3> HIDE DEF s
    <3> QED BY <3>1, <3>2, <3>3 DEF StateExtends, Extends
  <2>3. state' = [state EXCEPT ![p] = s] /\ UNCHANGED <<base, disk>>
    BY <1>4, <2>1 DEF Updates
  <2> HIDE DEF s
  <2> QED BY <2>2, <2>3 DEF Grows
<1>5. ASSUME NEW p \in Procs, Saves(p)
      PROVE  Grows'
  <2>1. Extends(disk', disk)
    BY <1>5, MergeExtends DEF Saves, Saved, Grows
  <2>2. \A q \in Procs : Extends(disk', base[q])
    BY <2>1 DEF Grows, Extends
  <2> QED BY <1>5, <2>2, NothingIsExtended DEF Saves, Grows
<1> QED BY <1>1, <1>2, <1>3, <1>4, <1>5, StepsOfStates

LEMMA GrowsMerges == Grows => SavesKeepOthers
BY MergeIsPerLabel DEF Grows, SavesKeepOthers, Saved

\* Every save of any run keeps, for each label, what other runs have written to it since
\* the run loaded the file: the shortcuts of merge_account_states lose nothing.
THEOREM SavesAreMerges == Spec => []SavesKeepOthers
BY GrowsInit, GrowsStep, GrowsMerges, PTL DEF Spec

-----------------------------------------------------------------------------
(* The mailboxes: positions and orders *)

\* A mail that stands in a mailbox has a last position in it.
LEMMA LastPosition ==
    ASSUME NEW s \in Seq(Mails), NEW m, \E i \in DOMAIN s : s[i] = m
    PROVE  \E i \in DOMAIN s : s[i] = m /\ \A j \in DOMAIN s : s[j] = m => j <= i
<1> DEFINE R == {r \in Nat \X Nat : r[1] < r[2]}
           T == {n \in Nat : \E i \in DOMAIN s : s[i] = m /\ n = Len(s) - i}
<1>1. IsWellFoundedOn(R, Nat)
  BY NatLessThanWellFounded DEF OpToRel
<1>2. DOMAIN s = 1..Len(s) /\ Len(s) \in Nat
  BY LenProperties
<1>3. T # {} /\ T \subseteq Nat
  <2>1. PICK i \in DOMAIN s : s[i] = m
    OBVIOUS
  <2>2. Len(s) - i \in T
    BY <1>2, <2>1
  <2> QED
    BY <2>2
<1>4. PICK n \in T : \A k \in T : ~ (<<k, n>> \in R)
  <2> HIDE DEF R, T
  <2> QED
    BY <1>1, <1>3, WFMin
<1>5. PICK i \in DOMAIN s : s[i] = m /\ n = Len(s) - i
  BY <1>4
<1>6. ASSUME NEW j \in DOMAIN s, s[j] = m PROVE j <= i
  <2>1. Len(s) - j \in T
    BY <1>2, <1>6
  <2>2. ~ (Len(s) - j < n)
    BY <1>3, <1>4, <2>1
  <2> QED
    BY <1>2, <1>5, <2>2
<1> QED
  BY <1>5, <1>6

\* Position is that one.
LEMMA PositionIsLast ==
    ASSUME NEW b \in Boxes, log \in [Boxes -> Seq(Mails)], NEW m \in Arrived(b)
    PROVE  Position(b, m) \in DOMAIN log[b] /\ log[b][Position(b, m)] = m
<1>1. \E i \in DOMAIN log[b] : log[b][i] = m /\ \A j \in DOMAIN log[b] : log[b][j] = m => j <= i
  BY LastPosition DEF Arrived
<1> QED
  BY <1>1 DEF Position

\* What an order of a set of mails is.
LEMMA OrdersAreSequences ==
    ASSUME NEW S \in SUBSET Mails, NEW s \in Orders(S)
    PROVE  s \in Seq(Mails) /\ {s[i] : i \in DOMAIN s} = S
<1>1. IsFiniteSet(Mails)
  BY FS_Interval, SyncAssumption DEF Mails
<1>2. Cardinality(S) \in Nat
  BY <1>1, FS_Subset, FS_CardinalityType
<1>3. s \in [1..Cardinality(S) -> S] /\ \A m \in S : \E i \in DOMAIN s : s[i] = m
  BY DEF Orders
<1>4. s \in Seq(S)
  BY <1>2, <1>3, IsASeq
<1>5. s \in Seq(Mails)
  BY <1>4, SeqMonotonic
<1> QED
  BY <1>3, <1>5

\* Appending keeps what stands in a mailbox where it is.
LEMMA Appended ==
    ASSUME NEW s \in Seq(Mails), NEW m \in Mails
    PROVE  /\ Append(s, m) \in Seq(Mails)
           /\ Len(s) \in Nat /\ DOMAIN s = 1..Len(s)
           /\ DOMAIN Append(s, m) = 1..(Len(s) + 1) /\ Len(Append(s, m)) = Len(s) + 1
           /\ \A i \in DOMAIN s : Append(s, m)[i] = s[i]
           /\ Append(s, m)[Len(s) + 1] = m
<1>1. /\ Append(s, m) \in Seq(Mails) /\ Len(Append(s, m)) = Len(s) + 1
      /\ \A i \in 1..Len(s) : Append(s, m)[i] = s[i]
      /\ Append(s, m)[Len(s) + 1] = m
  BY AppendProperties
<1>2. Len(s) \in Nat /\ DOMAIN s = 1..Len(s)
  BY LenProperties
<1>3. DOMAIN Append(s, m) = 1..Len(Append(s, m))
  BY <1>1, LenProperties
<1> QED
  BY <1>1, <1>2, <1>3

-----------------------------------------------------------------------------
(* The states: shape and merge *)

HasCursor(s, a, l) == a \in DOMAIN s /\ l \in DOMAIN s[a]

\* A state that holds cursors of the configured labels only.
WellFormed(s) ==
    \A a \in DOMAIN s : a \in Accounts /\ \A l \in DOMAIN s[a] : l \in Labels /\ s[a][l] \in Cursor

\* The labels of a state, and their types.
LEMMA LabelsAreCursors ==
    ASSUME NEW s
    PROVE  /\ \A b \in LabelsOf(s) : b = <<b[1], b[2]>> /\ HasCursor(s, b[1], b[2])
           /\ \A a, l : HasCursor(s, a, l) => <<a, l>> \in LabelsOf(s)
           /\ WellFormed(s) => /\ LabelsOf(s) \subseteq Boxes
                               /\ \A b \in LabelsOf(s) : b \in Boxes /\ s[b[1]][b[2]] \in Cursor
<1>1. ASSUME NEW b \in LabelsOf(s)
      PROVE  b = <<b[1], b[2]>> /\ HasCursor(s, b[1], b[2])
  <2>1. PICK a \in DOMAIN s : b \in {<<a, l>> : l \in DOMAIN s[a]}
    BY DEF LabelsOf
  <2>2. PICK l \in DOMAIN s[a] : b = <<a, l>>
    BY <2>1
  <2> QED
    BY <2>2 DEF HasCursor
<1>2. ASSUME NEW a, NEW l, HasCursor(s, a, l)
      PROVE  <<a, l>> \in LabelsOf(s)
  <2>1. <<a, l>> \in {<<a, k>> : k \in DOMAIN s[a]} /\ a \in DOMAIN s
    BY <1>2 DEF HasCursor
  <2> QED
    BY <2>1 DEF LabelsOf
<1>3. ASSUME WellFormed(s), NEW b \in LabelsOf(s)
      PROVE  b \in Boxes /\ s[b[1]][b[2]] \in Cursor
  BY <1>1, <1>3 DEF WellFormed, HasCursor, Boxes
<1> QED
  BY <1>1, <1>2, <1>3

LEMMA EmptyIsWellFormed == WellFormed(EmptyMap)
BY DEF WellFormed, EmptyMap

\* Entering an account adds no cursor.
LEMMA EnteredState ==
    ASSUME NEW s, NEW a \in Accounts
    PROVE  LET t == Put(s, a, Get(s, a, EmptyMap))
           IN /\ a \in DOMAIN t
              /\ WellFormed(s) => WellFormed(t)
              /\ \A x, l : HasCursor(t, x, l) <=> HasCursor(s, x, l)
              /\ \A x, l : HasCursor(s, x, l) => t[x][l] = s[x][l]
<1> DEFINE t == Put(s, a, Get(s, a, EmptyMap))
<1>1. DOMAIN t = DOMAIN s \cup {a}
  BY DEF Put
<1>2. \A x \in DOMAIN s : t[x] = s[x]
  BY DEF Put, Get
<1>3. a \notin DOMAIN s => t[a] = EmptyMap
  BY DEF Put, Get
<1>4. DOMAIN EmptyMap = {}
  BY DEF EmptyMap
<1> HIDE DEF t
<1>5. \A x, l : HasCursor(t, x, l) <=> HasCursor(s, x, l)
  BY <1>1, <1>2, <1>3, <1>4 DEF HasCursor
<1>6. \A x, l : HasCursor(s, x, l) => t[x][l] = s[x][l]
  BY <1>2 DEF HasCursor
<1>7. WellFormed(s) => WellFormed(t)
  BY <1>1, <1>2, <1>3, <1>4 DEF WellFormed
<1> QED
  BY <1>1, <1>5, <1>6, <1>7 DEF t

\* Setting a cursor changes that cursor.
LEMMA UpdatedState ==
    ASSUME NEW s, NEW a \in DOMAIN s, NEW l \in Labels, NEW c \in Cursor
    PROVE  LET t == [s EXCEPT ![a] = Put(@, l, c)]
           IN /\ DOMAIN t = DOMAIN s
              /\ WellFormed(s) => WellFormed(t)
              /\ HasCursor(t, a, l) /\ t[a][l] = c
              /\ \A x, k : <<x, k>> # <<a, l>> =>
                    /\ HasCursor(t, x, k) <=> HasCursor(s, x, k)
                    /\ HasCursor(s, x, k) => t[x][k] = s[x][k]
<1> DEFINE t == [s EXCEPT ![a] = Put(@, l, c)]
<1>1. DOMAIN t = DOMAIN s
  OBVIOUS
<1>2. \A x \in DOMAIN s : x # a => t[x] = s[x]
  OBVIOUS
<1>3. t[a] = Put(s[a], l, c)
  OBVIOUS
<1>4. DOMAIN t[a] = DOMAIN s[a] \cup {l}
  BY <1>3 DEF Put
<1>5. t[a][l] = c
  BY <1>3 DEF Put
<1>6. \A k \in DOMAIN s[a] : k # l => t[a][k] = s[a][k]
  BY <1>3 DEF Put
<1> HIDE DEF t
<1>7. WellFormed(s) => WellFormed(t)
  <2> SUFFICES ASSUME WellFormed(s), NEW x \in DOMAIN t
               PROVE  x \in Accounts /\ \A k \in DOMAIN t[x] : k \in Labels /\ t[x][k] \in Cursor
    BY DEF WellFormed
  <2>1. CASE x = a
    BY <1>1, <1>4, <1>5, <1>6, <2>1 DEF WellFormed
  <2>2. CASE x # a
    BY <1>1, <1>2, <2>2 DEF WellFormed
  <2> QED
    BY <2>1, <2>2
<1>8. ASSUME NEW x, NEW k, <<x, k>> # <<a, l>>
      PROVE  /\ HasCursor(t, x, k) <=> HasCursor(s, x, k)
             /\ HasCursor(s, x, k) => t[x][k] = s[x][k]
  <2>1. CASE x = a
    BY <1>1, <1>4, <1>6, <1>8, <2>1 DEF HasCursor
  <2>2. CASE x # a
    BY <1>1, <1>2, <2>2 DEF HasCursor
  <2> QED
    BY <2>1, <2>2
<1>9. HasCursor(t, a, l)
  BY <1>1, <1>4 DEF HasCursor
<1> QED
  BY <1>1, <1>5, <1>7, <1>8, <1>9 DEF t

\* Where a merged cursor comes from: the file, the run, or the newer of the two; the
\* run's replaces the one of the file only if that is still the one of the baseline.
LEMMA MergedCursor ==
    ASSUME NEW s, NEW current, NEW updated,
           Extends(current, s), StateExtends(updated, s), NEW a, NEW l
    PROVE  LET m == MergeAccounts(s, current, updated)
           IN /\ HasCursor(current, a, l) => HasCursor(m, a, l)
              /\ HasCursor(m, a, l) =>
                   \/ HasCursor(current, a, l) /\ m[a][l] = current[a][l]
                   \/ /\ HasCursor(updated, a, l) /\ m[a][l] = updated[a][l]
                      /\ HasCursor(current, a, l) =>
                            HasCursor(s, a, l) /\ s[a][l] = current[a][l]
                   \/ /\ HasCursor(current, a, l) /\ HasCursor(updated, a, l)
                      /\ m[a][l] = NewerCursor(current[a][l], updated[a][l])
<1> DEFINE m == MergeAccounts(s, current, updated)
           e == Entry(m, a, l)
           old == Entry(s, a, l)
           c == Entry(current, a, l)
           u == Entry(updated, a, l)
<1>1. e = MergedEntry(old, c, u)
  BY MergeIsPerLabel
<1>2. /\ HasCursor(m, a, l) => e = {m[a][l]}
      /\ ~ HasCursor(m, a, l) => e = {}
  BY DEF Entry, HasCursor
<1>3. /\ HasCursor(current, a, l) => c = {current[a][l]}
      /\ ~ HasCursor(current, a, l) => c = {}
  BY DEF Entry, HasCursor
<1>4. /\ HasCursor(updated, a, l) => u = {updated[a][l]}
      /\ ~ HasCursor(updated, a, l) => u = {}
  BY DEF Entry, HasCursor
<1>5. /\ HasCursor(s, a, l) => old = {s[a][l]}
      /\ ~ HasCursor(s, a, l) => old = {}
  BY DEF Entry, HasCursor
<1>6. HasCursor(s, a, l) => HasCursor(updated, a, l)
  BY DEF HasCursor, StateExtends, Extends
<1> HIDE DEF m, e, old, c, u
<1>7. CASE u = old
  <2>1. e = c
    BY <1>1, <1>7 DEF MergedEntry
  <2> QED
    BY <1>2, <1>3, <2>1 DEF m
<1>8. CASE u # old /\ c \in {old, {}}
  <2>1. e = u /\ HasCursor(updated, a, l)
    BY <1>1, <1>4, <1>5, <1>6, <1>8 DEF MergedEntry
  <2>2. HasCursor(current, a, l) => HasCursor(s, a, l) /\ s[a][l] = current[a][l]
    BY <1>3, <1>5, <1>8
  <2> QED
    BY <1>2, <1>4, <2>1, <2>2 DEF m
<1>9. CASE u # old /\ c \notin {old, {}}
  <2>1. HasCursor(current, a, l) /\ HasCursor(updated, a, l)
    BY <1>3, <1>4, <1>5, <1>6, <1>9
  <2>2. e = {NewerCursor(x, y) : x \in c, y \in u}
    BY <1>1, <1>9 DEF MergedEntry
  <2>3. e = {NewerCursor(current[a][l], updated[a][l])}
    BY <1>3, <1>4, <2>1, <2>2
  <2>4. HasCursor(m, a, l) /\ m[a][l] = NewerCursor(current[a][l], updated[a][l])
    BY <1>2, <2>3
  <2> QED
    BY <2>1, <2>4 DEF m
<1> QED
  BY <1>7, <1>8, <1>9

\* The newer of two cursors is a cursor, stands at one of the two, and is not behind the
\* one of the file under the same UIDVALIDITY.
LEMMA NewerIsEither ==
    ASSUME NEW c \in Cursor, NEW u \in Cursor
    PROVE  /\ NewerCursor(c, u) \in Cursor
           /\ NewerCursor(c, u).last \in {c.last, u.last}
           /\ NewerCursor(c, u).uidvalidity = c.uidvalidity => NewerCursor(c, u).last >= c.last
<1> DEFINE n == Larger(c.last, u.last)
           v == [u EXCEPT !.last = n]
<1>1. n \in Nat /\ n >= c.last /\ n \in {c.last, u.last}
  BY DEF Larger, Cursor
<1>2. NewerCursor(c, u) = IF c.uidvalidity = u.uidvalidity THEN v ELSE u
  BY DEF NewerCursor
<1> HIDE DEF n
<1>3. v \in Cursor /\ v.last = n
  BY <1>1 DEF Cursor
<1> HIDE DEF v
<1> QED
  BY <1>1, <1>2, <1>3 DEF Cursor

LEMMA MergeIsWellFormed ==
    ASSUME NEW s, NEW current, NEW updated,
           Extends(current, s), StateExtends(updated, s),
           WellFormed(current), WellFormed(updated)
    PROVE  WellFormed(MergeAccounts(s, current, updated))
<1> DEFINE m == MergeAccounts(s, current, updated)
<1>1. DOMAIN m \subseteq DOMAIN current \cup DOMAIN updated
  BY DEF MergeAccounts, ThreeWay
<1>2. ASSUME NEW a \in DOMAIN m, NEW l \in DOMAIN m[a]
      PROVE  l \in Labels /\ m[a][l] \in Cursor
  <2>1. HasCursor(m, a, l)
    BY DEF HasCursor
  <2>2. /\ HasCursor(current, a, l) => l \in Labels /\ current[a][l] \in Cursor
        /\ HasCursor(updated, a, l) => l \in Labels /\ updated[a][l] \in Cursor
    BY DEF WellFormed, HasCursor
  <2> HIDE DEF m
  <2> QED
    BY <2>1, <2>2, MergedCursor, NewerIsEither DEF m
<1> HIDE DEF m
<1>3. WellFormed(m)
  BY <1>1, <1>2 DEF WellFormed
<1> QED
  BY <1>3 DEF m

-----------------------------------------------------------------------------
(* Types *)

\* The variables that hold neither a state nor the file of one.
Plain ==
    /\ log \in [Boxes -> Seq(Mails)]
    /\ gone \in SUBSET Mails /\ merged \in SUBSET Mails
    /\ uidvalidity \in [Boxes -> Nat]
    /\ runs \in [Accounts -> Phases]
    /\ pc \in [Procs -> {"idle", "account", "label", "fetch"}]
    /\ full \in [Procs -> BOOLEAN] /\ scoped \in [Procs -> BOOLEAN] /\ stop \in BOOLEAN
    /\ resume \in [Procs -> SUBSET Accounts] /\ todo \in [Procs -> SUBSET Accounts]
    /\ left \in [Procs -> SUBSET Labels]
    /\ account \in [Procs -> Accounts \cup {None}] /\ label \in [Procs -> Labels \cup {None}]
    /\ uids \in [Procs -> SUBSET Mails] /\ cursor \in [Procs -> Nat]
    /\ touched \in [Procs -> SUBSET Mails]
    /\ crashed \in SUBSET Accounts /\ unverified \in SUBSET Accounts
    /\ suspect \in SUBSET Boxes /\ reaped \in SUBSET Mails

\* The states of the runs and the file hold cursors of configured labels.
Shaped == WellFormed(disk) /\ \A p \in Procs : WellFormed(state[p])

\* A process inside an account has an entry for it, and fetches mails of its mailbox.
Placed(p) ==
    /\ pc[p] \in {"label", "fetch"} => account[p] \in Accounts /\ account[p] \in DOMAIN state[p]
    /\ pc[p] = "fetch" => label[p] \in Labels /\ uids[p] \subseteq Arrived(Box(p))

\* The mails are numbered as they arrive.
Ever == gone \cup UNION {Arrived(b) : b \in Boxes}
Numbered == \E k \in Nat : Ever = 1..k

Typed == Grows /\ Plain /\ Shaped /\ Numbered /\ \A p \in Procs : Placed(p)

\* Typed is TypeOK and more.
LEMMA TypedIsTypeOK == Typed => TypeOK
BY LabelsAreCursors DEF Typed, Plain, Shaped, TypeOK

LEMMA TypedInit == Init => Typed
<1> USE SyncAssumption
<1> SUFFICES ASSUME Init PROVE Typed
  OBVIOUS
<1>1. Grows
  BY GrowsInit
<1>2. log \in [Boxes -> Seq(Mails)]
  BY EmptySeq DEF Init
<1>3. uidvalidity \in [Boxes -> Nat]
  BY DEF Init
<1>4. Plain
  BY <1>2, <1>3 DEF Init, Plain, Phases
<1>5. Shaped
  BY EmptyIsWellFormed DEF Init, Shaped
<1>6. Numbered
  <2>1. \A b \in Boxes : Arrived(b) = {}
    BY DEF Init, Arrived
  <2>2. Ever = {}
    BY <2>1 DEF Init, Ever
  <2>3. 1..0 = {} /\ 0 \in Nat
    OBVIOUS
  <2> QED
    BY <2>2, <2>3 DEF Numbered
<1>7. \A p \in Procs : Placed(p)
  BY DEF Init, Placed
<1> QED
  BY <1>1, <1>4, <1>5, <1>6, <1>7 DEF Typed

-----------------------------------------------------------------------------
(* What the servers do *)

\* What of the code's state a step of a server leaves alone: all of it.
Outside == UNCHANGED <<files, run, state, place, stop, crashed, unverified, reaped>>

\* Mailbox b only grows.
Appends(b) ==
    /\ Len(log'[b]) >= Len(log[b])
    /\ \A i \in DOMAIN log[b] : i \in DOMAIN log'[b] /\ log'[b][i] = log[b][i]

\* A step of a server: mails that stand in a mailbox stay there while a process visits it;
\* a mailbox that is not suspect only grows, and by mails that were not in it before if a
\* process is visiting it.
ServerStep ==
    /\ Outside
    /\ log' \in [Boxes -> Seq(Mails)] /\ gone' \in SUBSET Mails
    /\ uidvalidity' \in [Boxes -> Nat] /\ suspect' \in SUBSET Boxes
    /\ gone \subseteq gone' /\ suspect \subseteq suspect'
    /\ Numbered'
    /\ \A b \in Boxes : (\E p \in Procs : Visits(p, b)) => Arrived(b) \subseteq Arrived(b)'
    /\ \A b \in Boxes \ suspect' :
          /\ Appends(b)
          /\ (\E p \in Procs : Visits(p, b)) =>
                \A i \in DOMAIN log'[b] : i > Len(log[b]) => log'[b][i] \notin Arrived(b)

\* A mailbox that gets one more mail.
LEMMA OneMore ==
    ASSUME Plain, NEW b \in Boxes, NEW m \in Mails, log' = [log EXCEPT ![b] = Append(@, m)]
    PROVE  /\ log' \in [Boxes -> Seq(Mails)]
           /\ Arrived(b)' = Arrived(b) \cup {m}
           /\ \A c \in Boxes : c # b => Arrived(c)' = Arrived(c)
           /\ \A c \in Boxes : Appends(c)
           /\ \A c \in Boxes : \A i \in DOMAIN log'[c] : i > Len(log[c]) => c = b /\ log'[c][i] = m
<1> USE DEF Plain
<1> DEFINE s == Append(log[b], m)
<1>1. /\ s \in Seq(Mails) /\ Len(log[b]) \in Nat
      /\ DOMAIN log[b] = 1..Len(log[b])
      /\ DOMAIN s = 1..(Len(log[b]) + 1) /\ Len(s) = Len(log[b]) + 1
      /\ \A i \in DOMAIN log[b] : s[i] = log[b][i]
      /\ s[Len(log[b]) + 1] = m
  BY Appended
<1>2. log' = [log EXCEPT ![b] = s]
  OBVIOUS
<1> HIDE DEF s
<1>3. log'[b] = s /\ \A c \in Boxes : c # b => log'[c] = log[c]
  BY <1>2
<1>4. log' \in [Boxes -> Seq(Mails)]
  BY <1>1, <1>2
<1>5. Arrived(b)' = Arrived(b) \cup {m}
  <2>1. Arrived(b)' = {s[i] : i \in DOMAIN s}
    BY <1>3 DEF Arrived
  <2>2. DOMAIN s = DOMAIN log[b] \cup {Len(log[b]) + 1}
    BY <1>1
  <2>3. {s[i] : i \in DOMAIN s} = {s[i] : i \in DOMAIN log[b]} \cup {m}
    BY <1>1, <2>2
  <2>4. {s[i] : i \in DOMAIN log[b]} = {log[b][i] : i \in DOMAIN log[b]}
    BY <1>1
  <2> QED
    BY <2>1, <2>3, <2>4 DEF Arrived
<1>6. \A c \in Boxes : Len(log[c]) \in Nat /\ DOMAIN log[c] = 1..Len(log[c])
  BY LenProperties
<1>7. \A c \in Boxes : Appends(c)
  BY <1>1, <1>3, <1>6 DEF Appends
<1>8. ASSUME NEW c \in Boxes, NEW i \in DOMAIN log'[c], i > Len(log[c])
      PROVE  c = b /\ log'[c][i] = m
  <2>1. c = b
    BY <1>3, <1>6, <1>8
  <2>2. i = Len(log[b]) + 1
    BY <1>1, <1>3, <1>8, <2>1
  <2> QED
    BY <1>1, <1>3, <2>1, <2>2
<1>9. \A c \in Boxes : c # b => Arrived(c)' = Arrived(c)
  BY <1>3 DEF Arrived
<1> QED
  BY <1>4, <1>5, <1>7, <1>8, <1>9

\* Ever when one mailbox changes.
LEMMA EverOneMore ==
    ASSUME NEW b \in Boxes, NEW S, Arrived(b)' \cup gone' = Arrived(b) \cup gone \cup S,
           gone \subseteq gone', gone' \subseteq Ever \cup S,
           \A c \in Boxes : c # b => Arrived(c)' = Arrived(c)
    PROVE  Ever' = Ever \cup S
<1>1. Ever' = gone' \cup UNION {Arrived(c)' : c \in Boxes}
  BY DEF Ever
<1>2. ASSUME NEW x \in Ever' PROVE x \in Ever \cup S
  <2>1. CASE x \in gone'
    BY <2>1
  <2>2. CASE x \notin gone'
    <3>1. PICK c \in Boxes : x \in Arrived(c)'
      BY <1>1, <2>2
    <3>2. CASE c = b
      BY <3>1, <3>2 DEF Ever
    <3>3. CASE c # b
      BY <3>1, <3>3 DEF Ever
    <3> QED
      BY <3>2, <3>3
  <2> QED
    BY <2>1, <2>2
<1>3. ASSUME NEW x \in Ever \cup S PROVE x \in Ever'
  <2>1. CASE x \in S \cup gone
    BY <1>1, <2>1
  <2>2. CASE x \notin S \cup gone
    <3>1. PICK c \in Boxes : x \in Arrived(c)
      BY <2>2 DEF Ever
    <3>2. CASE c = b
      BY <1>1, <3>1, <3>2
    <3>3. CASE c # b
      BY <1>1, <3>1, <3>3
    <3> QED
      BY <3>2, <3>3
  <2> QED
    BY <2>1, <2>2
<1> QED
  BY <1>2, <1>3

LEMMA ArriveStep ==
    ASSUME Plain, Numbered, NEW b \in Boxes, Arrive(b)
    PROVE  ServerStep
<1> DEFINE m == Cardinality(Ever) + 1
<1>1. PICK k \in Nat : Ever = 1..k
  BY DEF Numbered
<1>2. m = k + 1
  <2>1. Cardinality(1..k) = IF 1 > k THEN 0 ELSE k - 1 + 1
    BY FS_Interval
  <2>2. Cardinality(1..k) = k
    BY <2>1
  <2> QED
    BY <1>1, <2>2
<1>3. m \in Mails /\ log' = [log EXCEPT ![b] = Append(@, m)]
  BY DEF Arrive, Ever
<1>4. UNCHANGED <<gone, uidvalidity, files, run, state, place, stop, history>>
  BY DEF Arrive
<1> HIDE DEF m
<1>5. m \notin Ever /\ Ever \cup {m} = 1..(k + 1)
  BY <1>1, <1>2
<1>6. /\ log' \in [Boxes -> Seq(Mails)]
      /\ Arrived(b)' = Arrived(b) \cup {m}
      /\ \A c \in Boxes : c # b => Arrived(c)' = Arrived(c)
      /\ \A c \in Boxes : Appends(c)
      /\ \A c \in Boxes : \A i \in DOMAIN log'[c] : i > Len(log[c]) => c = b /\ log'[c][i] = m
  BY <1>3, OneMore
<1>7. gone' = gone /\ suspect' = suspect /\ uidvalidity' = uidvalidity /\ Outside
  BY <1>4 DEF history, Outside
<1>8. Ever' = Ever \cup {m}
  BY <1>6, <1>7, EverOneMore DEF Ever
<1>9. Numbered'
  BY <1>5, <1>8 DEF Numbered
<1>10. \A c \in Boxes : m \notin Arrived(c)
  BY <1>5 DEF Ever
<1> QED
  BY <1>6, <1>7, <1>9, <1>10 DEF ServerStep, Plain

LEMMA RemoveStep ==
    ASSUME Plain, Numbered, NEW b \in Boxes, Remove(b)
    PROVE  ServerStep
<1>1. PICK m \in Present(b) : gone' = gone \cup {m}
  BY DEF Remove
<1>2. log' = log /\ uidvalidity' = uidvalidity /\ suspect' = suspect /\ Outside
  BY DEF Remove, history, Outside
<1>3. \A c \in Boxes : Arrived(c)' = Arrived(c)
  BY <1>2 DEF Arrived
<1>4. m \in Arrived(b)
  BY <1>1 DEF Present
<1>5. m \in Mails
  BY <1>4, LenProperties, ElementOfSeq DEF Arrived, Plain
<1>6. Ever' = Ever
  <2>1. Arrived(b)' \cup gone' = Arrived(b) \cup gone \cup {}
    BY <1>1, <1>3, <1>4
  <2>2. gone' \subseteq Ever \cup {}
    BY <1>1, <1>4 DEF Ever
  <2>3. Ever' = Ever \cup {}
    BY <1>1, <1>3, <2>1, <2>2, EverOneMore
  <2> QED
    BY <2>3
<1>7. \A c \in Boxes : Appends(c)
  BY <1>2, LenProperties DEF Appends, Plain
<1>8. \A c \in Boxes : \A i \in DOMAIN log'[c] : ~ (i > Len(log[c]))
  BY <1>2, LenProperties DEF Plain
<1> QED
  BY <1>1, <1>2, <1>3, <1>5, <1>6, <1>7, <1>8 DEF ServerStep, Plain, Numbered

LEMMA ChangeStep ==
    ASSUME Plain, Numbered, NEW b \in Boxes, Change(b)
    PROVE  ServerStep
<1>1. PICK m \in Present(b) : log' = [log EXCEPT ![b] = Append(@, m)]
  BY DEF Change
<1>2. gone' = gone /\ uidvalidity' = uidvalidity /\ Outside
  BY DEF Change, Outside
<1>3. suspect' = IF \E p \in Procs : Visits(p, b) THEN suspect \cup {b} ELSE suspect
  BY DEF Change
<1>4. m \in Arrived(b)
  BY <1>1 DEF Present
<1>5. m \in Mails
  BY <1>4, LenProperties, ElementOfSeq DEF Arrived, Plain
<1>6. /\ log' \in [Boxes -> Seq(Mails)]
      /\ Arrived(b)' = Arrived(b) \cup {m}
      /\ \A c \in Boxes : c # b => Arrived(c)' = Arrived(c)
      /\ \A c \in Boxes : Appends(c)
      /\ \A c \in Boxes : \A i \in DOMAIN log'[c] : i > Len(log[c]) => c = b /\ log'[c][i] = m
  BY <1>1, <1>5, OneMore
<1>7. Ever' = Ever
  <2>1. gone' \subseteq Ever \cup {}
    BY <1>2 DEF Ever
  <2>2. Arrived(b)' \cup gone' = Arrived(b) \cup gone \cup {}
    BY <1>2, <1>4, <1>6
  <2>3. Ever' = Ever \cup {}
    BY <1>2, <1>6, <2>1, <2>2, EverOneMore
  <2> QED
    BY <2>3
<1>8. suspect' \in SUBSET Boxes /\ suspect \subseteq suspect'
  BY <1>3 DEF Plain
<1>9. ASSUME NEW c \in Boxes \ suspect', \E p \in Procs : Visits(p, c)
      PROVE  \A i \in DOMAIN log'[c] : ~ (i > Len(log[c]))
  BY <1>3, <1>6, <1>9
<1> QED
  BY <1>2, <1>4, <1>6, <1>7, <1>8, <1>9 DEF ServerStep, Plain, Numbered

LEMMA RenumberStep ==
    ASSUME Plain, Numbered, NEW b \in Boxes, Renumber(b)
    PROVE  ServerStep
<1>1. PICK s \in Orders(Present(b)) : log' = [log EXCEPT ![b] = s]
  BY DEF Renumber
<1>2. gone' = gone /\ Outside /\ suspect' = suspect \cup {b}
  BY DEF Renumber, Outside
<1>3. uidvalidity' = [uidvalidity EXCEPT ![b] = @ + 1]
  BY DEF Renumber
<1>4. Present(b) \subseteq Mails
  BY LenProperties, ElementOfSeq DEF Present, Arrived, Plain
<1>5. s \in Seq(Mails) /\ {s[i] : i \in DOMAIN s} = Present(b)
  BY <1>4, OrdersAreSequences
<1>6. log' \in [Boxes -> Seq(Mails)] /\ log'[b] = s /\ \A c \in Boxes : c # b => log'[c] = log[c]
  BY <1>1, <1>5 DEF Plain
<1>7. Arrived(b)' = Present(b) /\ \A c \in Boxes : c # b => Arrived(c)' = Arrived(c)
  BY <1>5, <1>6 DEF Arrived
<1>8. Ever' = Ever
  <2>1. gone' \subseteq Ever \cup {}
    BY <1>2 DEF Ever
  <2>2. Arrived(b)' \cup gone' = Arrived(b) \cup gone \cup {}
    BY <1>2, <1>7 DEF Present
  <2>3. Ever' = Ever \cup {}
    BY <1>2, <1>7, <2>1, <2>2, EverOneMore
  <2> QED
    BY <2>3
<1>9. \A c \in Boxes \ suspect' : c # b /\ log'[c] = log[c]
  BY <1>2, <1>6
<1>10. ASSUME NEW c \in Boxes \ suspect'
       PROVE  Appends(c) /\ \A i \in DOMAIN log'[c] : ~ (i > Len(log[c]))
  <2>1. Len(log[c]) \in Nat /\ DOMAIN log[c] = 1..Len(log[c])
    BY LenProperties DEF Plain
  <2> QED
    BY <1>9, <2>1 DEF Appends
<1>11. \A c \in Boxes : (\E p \in Procs : Visits(p, c)) => c # b
  BY DEF Renumber
<1>12. uidvalidity' \in [Boxes -> Nat]
  BY <1>3 DEF Plain
<1> QED
  BY <1>2, <1>6, <1>7, <1>8, <1>10, <1>11, <1>12 DEF ServerStep, Plain, Numbered

LEMMA ServerSteps ==
    ASSUME Plain, Numbered, Server
    PROVE  ServerStep
BY ArriveStep, RemoveStep, ChangeStep, RenumberStep DEF Server

-----------------------------------------------------------------------------
(* What the processes do *)

\* The steps of process p.
Begins(p) ==
    \E accounts \in SUBSET Accounts, isFull \in BOOLEAN, isScoped \in BOOLEAN,
       interrupted \in SUBSET Accounts :
        /\ Begin(p, accounts, isFull, isScoped, interrupted)
        /\ p \in Cli => interrupted = InterruptedAccounts(runs)

Opens(p, l) == OpenImap(p, l) \/ OpenGmail(p, l) \/ ListGmail(p, l)

Gives(p) == Fails(p) \/ (p = Watch /\ Interrupted)

Acts(p) ==
    \/ Begins(p)
    \/ \E a \in Accounts : Visit(p, a) \/ Refused(p, a)
    \/ \E l \in Labels : Opens(p, l) \/ LabelMissing(p, l)
    \/ \E m \in Mails : Fetch(p, m)
    \/ AccountDone(p) \/ Save(p) \/ Gives(p) \/ Crash(p)

\* Every step is one of a server, of a process, or of the shutdown flag.
LEMMA NextIsActs ==
    ASSUME Next
    PROVE  Server \/ Shutdown \/ Restart \/ \E p \in Procs : Acts(p)
<1>1. ASSUME NEW p \in Cli, Sync(p)
      PROVE  Acts(p) /\ p \in Procs
  <2>1. InterruptedAccounts(runs) \in SUBSET Accounts
    BY DEF InterruptedAccounts
  <2>2. PICK isFull \in BOOLEAN :
            \/ Begin(p, Accounts, isFull, FALSE, InterruptedAccounts(runs))
            \/ \E a \in Accounts : Begin(p, {a}, isFull, TRUE, InterruptedAccounts(runs))
    BY <1>1 DEF Sync
  <2>3. PICK accounts \in SUBSET Accounts, isScoped \in BOOLEAN :
            Begin(p, accounts, isFull, isScoped, InterruptedAccounts(runs))
    <3>1. CASE Begin(p, Accounts, isFull, FALSE, InterruptedAccounts(runs))
      BY <3>1
    <3>2. ASSUME NEW a \in Accounts, Begin(p, {a}, isFull, TRUE, InterruptedAccounts(runs))
          PROVE  \E accounts \in SUBSET Accounts, isScoped \in BOOLEAN :
                    Begin(p, accounts, isFull, isScoped, InterruptedAccounts(runs))
      <4>1. {a} \in SUBSET Accounts /\ TRUE \in BOOLEAN
        OBVIOUS
      <4> QED
        BY <3>2, <4>1
    <3> QED
      BY <2>2, <3>1, <3>2
  <2>4. Begins(p)
    BY <2>1, <2>3 DEF Begins
  <2> QED
    BY <2>4 DEF Acts, Procs
<1>2. ASSUME Poll
      PROVE  Acts(Watch) /\ Watch \in Procs
  <2>1. Begin(Watch, Accounts, FALSE, FALSE, {})
    BY <1>2 DEF Poll
  <2>2. Watch \notin Cli
    BY SyncAssumption
  <2>3. {} \in SUBSET Accounts /\ Accounts \in SUBSET Accounts /\ FALSE \in BOOLEAN
    OBVIOUS
  <2>4. Begins(Watch)
    BY <2>1, <2>2, <2>3 DEF Begins
  <2> QED
    BY <2>4 DEF Acts, Procs
<1>3. ASSUME NEW p \in Procs, Work(p) \/ Fault(p)
      PROVE  Acts(p)
  BY <1>3 DEF Work, Fault, Acts, Opens, Gives
<1>4. Interrupted => Acts(Watch) /\ Watch \in Procs
  BY DEF Acts, Gives, Procs
<1> QED
  BY <1>1, <1>2, <1>3, <1>4 DEF Next

\* What process q knows and holds.
Same(q) ==
    /\ pc'[q] = pc[q] /\ account'[q] = account[q] /\ label'[q] = label[q]
    /\ uids'[q] = uids[q] /\ cursor'[q] = cursor[q] /\ state'[q] = state[q]
    /\ base'[q] = base[q] /\ todo'[q] = todo[q]
    /\ full'[q] = full[q] /\ resume'[q] = resume[q]

\* A step of p is its own: the servers and the other processes do not move.
LEMMA ActsAlone ==
    ASSUME Grows, Plain, NEW p \in Procs, Acts(p)
    PROVE  UNCHANGED server /\ \A q \in Procs : q # p => Same(q)
<1> USE DEF Grows, Plain, server, run, place, files, Same
<1>1. CASE Begins(p)
  BY <1>1 DEF Begins, Begin
<1>2. ASSUME NEW a \in Accounts, Visit(p, a)
      PROVE  UNCHANGED server /\ \A q \in Procs : q # p => Same(q)
  BY <1>2 DEF Visit
<1>3. ASSUME NEW a \in Accounts, Refused(p, a)
      PROVE  UNCHANGED server /\ \A q \in Procs : q # p => Same(q)
  BY <1>3 DEF Refused, Return
<1>4. ASSUME NEW l \in Labels, Opens(p, l) \/ LabelMissing(p, l)
      PROVE  UNCHANGED server /\ \A q \in Procs : q # p => Same(q)
  <2>1. /\ UNCHANGED <<server, todo, account, full, resume, base>>
        /\ \A q \in Procs : q # p => state'[q] = state[q]
    BY <1>4 DEF Opens, OpenImap, OpenGmail, ListGmail, LabelMissing, AtLabel, SetCursor
  <2>2. \A q \in Procs : q # p => /\ pc'[q] = pc[q] /\ label'[q] = label[q]
                                  /\ uids'[q] = uids[q] /\ cursor'[q] = cursor[q]
    BY <1>4 DEF Opens, OpenImap, OpenGmail, ListGmail, LabelMissing, Fetching
  <2> QED
    BY <2>1, <2>2
<1>5. ASSUME NEW m \in Mails, Fetch(p, m)
      PROVE  UNCHANGED server /\ \A q \in Procs : q # p => Same(q)
  BY <1>5 DEF Fetch, SetCursor
<1>6. CASE AccountDone(p)
  BY <1>6 DEF AccountDone
<1>7. CASE Save(p)
  BY <1>7 DEF Save, Return
<1>8. CASE Gives(p)
  BY <1>8 DEF Gives, Fails, Interrupted, Return, Abandon
<1>9. CASE Crash(p)
  BY <1>9 DEF Crash, Return
<1> QED
  BY <1>1, <1>2, <1>3, <1>4, <1>5, <1>6, <1>7, <1>8, <1>9 DEF Acts

\* A cursor that p sets is that of an account it has entered.
LEMMA CursorIsSet ==
    ASSUME Grows, NEW p \in Procs, account[p] \in DOMAIN state[p], NEW l \in Labels,
           NEW n \in Nat, SetCursor(p, l, n), Plain, account[p] \in Accounts
    PROVE  LET c == [uidvalidity |-> uidvalidity[account[p], l], last |-> n]
           IN c \in Cursor /\ state'[p] = [state[p] EXCEPT ![account[p]] = Put(@, l, c)]
<1> DEFINE c == [uidvalidity |-> uidvalidity[account[p], l], last |-> n]
<1>1. uidvalidity[account[p], l] \in Nat
  BY DEF Plain, Boxes
<1>2. c \in Cursor
  BY <1>1 DEF Cursor
<1>3. state' = [state EXCEPT ![p][account[p]] = Put(@, l, c)]
  BY DEF SetCursor
<1> HIDE DEF c
<1>4. state'[p] = [state[p] EXCEPT ![account[p]] = Put(@, l, c)]
  BY <1>3 DEF Grows
<1> QED
  BY <1>2, <1>4 DEF c

\* The last position stored for a label.
LEMMA LastIsNat ==
    ASSUME NEW p \in Procs, WellFormed(state[p]), account[p] \in DOMAIN state[p], NEW l
    PROVE  /\ LastOf(p, l) \in Nat
           /\ HasCursor(state[p], account[p], l) => LastOf(p, l) = state[p][account[p]][l].last
           /\ ~ HasCursor(state[p], account[p], l) => LastOf(p, l) = 0
BY DEF LastOf, Get, WellFormed, HasCursor, Cursor

\* What a process that opens a label does: it sets the cursor, or starts to fetch, or both.
LEMMA OpenedLabel ==
    ASSUME Typed, NEW p \in Procs, NEW l \in Labels, Opens(p, l)
    PROVE  /\ pc[p] = "label" /\ account[p] \in Accounts /\ account[p] \in DOMAIN state[p]
           /\ UNCHANGED <<server, files, run, todo, account, stop, history, crashes>>
           /\ \E n, from \in Nat, mails \in SUBSET Arrived(<<account[p], l>>) :
                 /\ UNCHANGED state \/ SetCursor(p, l, n)
                 /\ Fetching(p, l, mails, from)
<1> DEFINE b == <<account[p], l>>
<1>1. /\ pc[p] = "label" /\ UNCHANGED <<server, files, run, todo, account, stop, history, crashes>>
  BY DEF Opens, OpenImap, OpenGmail, ListGmail, AtLabel
<1>2. account[p] \in Accounts /\ account[p] \in DOMAIN state[p] /\ WellFormed(state[p])
  BY <1>1 DEF Typed, Placed, Shaped
<1>3. LastOf(p, l) \in Nat /\ Len(log[b]) \in Nat /\ 0 \in Nat
  BY <1>2, LastIsNat, LenProperties DEF Typed, Plain, Boxes
<1>4. /\ Present(b) \in SUBSET Arrived(b)
      /\ \A c : AddedAfter(b, c) \in SUBSET Arrived(b)
      /\ Search(p, l) \in SUBSET Arrived(b)
  BY DEF Present, AddedAfter, Search
<1> HIDE DEF b
<1>5. CASE OpenImap(p, l)
  <2>1. UNCHANGED state \/ SetCursor(p, l, LastOf(p, l))
    BY <1>5 DEF OpenImap
  <2>2. Fetching(p, l, Search(p, l), LastOf(p, l))
    BY <1>5 DEF OpenImap
  <2> QED
    BY <1>1, <1>2, <1>3, <1>4, <2>1, <2>2 DEF b
<1>6. CASE OpenGmail(p, l)
  <2>1. SetCursor(p, l, Len(log[b]))
    BY <1>6 DEF OpenGmail, b
  <2>2. Fetching(p, l, AddedAfter(b, LastOf(p, l)), Len(log[b]))
    BY <1>6 DEF OpenGmail, b
  <2> QED
    BY <1>1, <1>2, <1>3, <1>4, <2>1, <2>2 DEF b
<1>7. CASE ListGmail(p, l)
  <2>1. PICK from \in {0, LastOf(p, l)} : SetCursor(p, l, from) /\ Fetching(p, l, Present(b), from)
    BY <1>7 DEF ListGmail, b
  <2> QED
    BY <1>1, <1>2, <1>3, <1>4, <2>1 DEF b
<1> QED
  BY <1>5, <1>6, <1>7 DEF Opens

\* Where a process that fetches a mail stands.
LEMMA FetchedMail ==
    ASSUME Typed, NEW p \in Procs, NEW m \in Mails, Fetch(p, m)
    PROVE  /\ pc[p] = "fetch" /\ m \in uids[p] /\ uids[p] \subseteq Arrived(Box(p))
           /\ account[p] \in Accounts /\ account[p] \in DOMAIN state[p] /\ label[p] \in Labels
           /\ Box(p) \in Boxes /\ cursor[p] \in Nat
           /\ Position(Box(p), m) \in Nat
           /\ Position(Box(p), m) \in DOMAIN log[Box(p)]
           /\ log[Box(p)][Position(Box(p), m)] = m
<1>1. pc[p] = "fetch" /\ m \in uids[p]
  BY DEF Fetch
<1>2. /\ account[p] \in Accounts /\ account[p] \in DOMAIN state[p]
      /\ label[p] \in Labels /\ uids[p] \subseteq Arrived(Box(p))
  BY <1>1 DEF Typed, Placed
<1>3. Box(p) \in Boxes /\ cursor[p] \in Nat
  BY <1>2 DEF Box, Boxes, Typed, Plain
<1>4. Position(Box(p), m) \in DOMAIN log[Box(p)] /\ log[Box(p)][Position(Box(p), m)] = m
  BY <1>1, <1>2, <1>3, PositionIsLast DEF Typed, Plain
<1>5. DOMAIN log[Box(p)] \subseteq Nat
  BY <1>3, LenProperties DEF Typed, Plain
<1> QED
  BY <1>1, <1>2, <1>3, <1>4, <1>5

\* How a fetched mail moves the cursor of the pass.
Reached(p, m) ==
    IF m \in gone \/ (m \in Unreadable /\ account[p] \notin Gmail)
    THEN cursor[p] ELSE Larger(cursor[p], Position(Box(p), m))

LEMMA ReachedIsNat ==
    ASSUME Typed, NEW p \in Procs, NEW m \in Mails, Fetch(p, m)
    PROVE  Reached(p, m) \in Nat /\ Reached(p, m) >= cursor[p]
BY FetchedMail DEF Reached, Larger

\* The two ends of a fetch: more mails to come, or the cursor of the label set.
LEMMA FetchEnds ==
    ASSUME Typed, NEW p \in Procs, NEW m \in Mails, Fetch(p, m)
    PROVE  /\ uids' = [uids EXCEPT ![p] = @ \ {m}]
           /\ \/ /\ uids[p] # {m} /\ UNCHANGED <<state, pc, label>>
                 /\ cursor' = [cursor EXCEPT ![p] = Reached(p, m)]
              \/ /\ uids[p] = {m} /\ SetCursor(p, label[p], Reached(p, m))
                 /\ pc' = [pc EXCEPT ![p] = "label"] /\ label' = [label EXCEPT ![p] = None]
                 /\ cursor' = [cursor EXCEPT ![p] = 0]
BY DEF Fetch, Reached

\* The plain variables keep their types.
LEMMA PlainActs ==
    ASSUME Typed, NEW p \in Procs, Acts(p)
    PROVE  Plain'
<1> USE SyncAssumption DEF Typed, Plain, server, run, place, files, history, Phases
<1>1. CASE Begins(p)
  BY <1>1 DEF Begins, Begin
<1>2. ASSUME NEW a \in Accounts, Visit(p, a) PROVE Plain'
  BY <1>2 DEF Visit, Record, Transition
<1>3. ASSUME Return(p)
      PROVE  /\ pc' \in [Procs -> {"idle", "account", "label", "fetch"}]
             /\ full' \in [Procs -> BOOLEAN] /\ scoped' \in [Procs -> BOOLEAN]
             /\ resume' \in [Procs -> SUBSET Accounts] /\ todo' \in [Procs -> SUBSET Accounts]
             /\ left' \in [Procs -> SUBSET Labels]
             /\ account' \in [Procs -> Accounts \cup {None}]
             /\ label' \in [Procs -> Labels \cup {None}]
             /\ uids' \in [Procs -> SUBSET Mails] /\ cursor' \in [Procs -> Nat]
             /\ touched' \in [Procs -> SUBSET Mails]
  BY <1>3 DEF Return
<1>4. ASSUME Abandon(p), pc[p] = "fetch" => account[p] \in Accounts /\ label[p] \in Labels
      PROVE  /\ pc' \in [Procs -> {"idle", "account", "label", "fetch"}]
             /\ left' \in [Procs -> SUBSET Labels] /\ label' \in [Procs -> Labels \cup {None}]
             /\ uids' \in [Procs -> SUBSET Mails] /\ cursor' \in [Procs -> Nat]
             /\ suspect' \in SUBSET Boxes
             /\ UNCHANGED <<todo, account, run>>
  BY <1>4 DEF Abandon, Boxes
<1>5. ASSUME NEW a \in Accounts, Refused(p, a) PROVE Plain'
  <2>1. CASE p \in Cli
    <3>1. Return(p)
      BY <1>5, <2>1 DEF Refused
    <3>2. runs' \in [Accounts -> Phases] /\ crashed' \in SUBSET Accounts
      BY <1>5, <2>1 DEF Refused
    <3> QED
      BY <1>3, <1>5, <3>1, <3>2 DEF Refused
  <2>2. CASE p \notin Cli
    <3>1. todo' \in [Procs -> SUBSET Accounts]
      <4>1. todo' = [todo EXCEPT ![p] = @ \ {a}]
        BY <1>5, <2>2 DEF Refused
      <4> QED
        BY <4>1
    <3>2. /\ UNCHANGED <<server, merged, stop, history, runs, run>>
          /\ UNCHANGED <<pc, account, left, label, uids, cursor>>
      BY <1>5, <2>2 DEF Refused
    <3> QED
      BY <3>1, <3>2
  <2> QED
    BY <2>1, <2>2
<1>6. ASSUME NEW l \in Labels, Opens(p, l) PROVE Plain'
  <2>1. left' = [left EXCEPT ![p] = @ \ {l}]
    BY <1>6 DEF Opens, OpenImap, OpenGmail, ListGmail, AtLabel
  <2>2. PICK from \in Nat, mails \in SUBSET Arrived(<<account[p], l>>) : Fetching(p, l, mails, from)
    BY <1>6, OpenedLabel
  <2>3. UNCHANGED <<server, files, run, todo, account, stop, history>> /\ account[p] \in Accounts
    BY <1>6, OpenedLabel
  <2>4. mails \in SUBSET Mails
    BY <2>3, LenProperties, ElementOfSeq DEF Arrived, Boxes
  <2>5. /\ pc' \in [Procs -> {"idle", "account", "label", "fetch"}]
        /\ label' \in [Procs -> Labels \cup {None}]
        /\ uids' \in [Procs -> SUBSET Mails] /\ cursor' \in [Procs -> Nat]
    <3>1. CASE mails = {}
      BY <2>2, <3>1 DEF Fetching
    <3>2. CASE mails # {}
      <4>1. /\ pc' = [pc EXCEPT ![p] = "fetch"] /\ label' = [label EXCEPT ![p] = l]
            /\ uids' = [uids EXCEPT ![p] = mails] /\ cursor' = [cursor EXCEPT ![p] = from]
        BY <2>2, <3>2 DEF Fetching
      <4> QED
        BY <2>4, <4>1
    <3> QED
      BY <3>1, <3>2
  <2> QED
    BY <2>1, <2>3, <2>5
<1>7. ASSUME NEW l \in Labels, LabelMissing(p, l) PROVE Plain'
  BY <1>7 DEF LabelMissing, AtLabel
<1>8. ASSUME NEW m \in Mails, Fetch(p, m) PROVE Plain'
  <2>1. /\ UNCHANGED <<server, runs, full, resume, scoped, todo, account, left, stop, history>>
        /\ merged' \in SUBSET Mails /\ touched' \in [Procs -> SUBSET Mails]
        /\ uids' \in [Procs -> SUBSET Mails]
    BY <1>8 DEF Fetch
  <2>2. Reached(p, m) \in Nat
    BY <1>8, ReachedIsNat
  <2>3. /\ cursor' \in [Procs -> Nat]
        /\ pc' \in [Procs -> {"idle", "account", "label", "fetch"}]
        /\ label' \in [Procs -> Labels \cup {None}]
    <3>1. CASE UNCHANGED <<pc, label>> /\ cursor' = [cursor EXCEPT ![p] = Reached(p, m)]
      BY <2>2, <3>1
    <3>2. CASE /\ pc' = [pc EXCEPT ![p] = "label"] /\ label' = [label EXCEPT ![p] = None]
               /\ cursor' = [cursor EXCEPT ![p] = 0]
      BY <3>2
    <3> QED
      BY <1>8, <3>1, <3>2, FetchEnds
  <2> QED
    BY <2>1, <2>3
<1>9. CASE AccountDone(p)
  BY <1>9 DEF AccountDone, Record, Transition
<1>10. CASE Save(p)
  BY <1>3, <1>10 DEF Save, Orphans
<1>11. CASE Gives(p)
  <2>1. pc[p] = "fetch" => account[p] \in Accounts /\ label[p] \in Labels
    BY DEF Placed
  <2>2. CASE Fails(p)
    <3>1. /\ UNCHANGED <<server, merged, disk, stop, crashed, unverified, reaped>>
          /\ Record(p, account[p], "fail")
      BY <2>2 DEF Fails
    <3>2. runs' \in [Accounts -> Phases]
      BY <3>1 DEF Record, Transition
    <3>3. (Return(p) /\ UNCHANGED suspect) \/ Abandon(p)
      BY <2>2 DEF Fails
    <3> QED
      BY <1>3, <1>4, <2>1, <3>1, <3>2, <3>3
  <2>3. CASE Interrupted /\ p = Watch
    BY <1>4, <2>1, <2>3 DEF Interrupted
  <2> QED
    BY <1>11, <2>2, <2>3 DEF Gives
<1>12. CASE Crash(p)
  <2>1. crashed' \in SUBSET Accounts /\ unverified' \in SUBSET Accounts
    BY <1>12 DEF Crash, Placed
  <2> QED
    BY <1>3, <1>12, <2>1 DEF Crash
<1> QED
  BY <1>1, <1>2, <1>5, <1>6, <1>7, <1>8, <1>9, <1>10, <1>11, <1>12 DEF Acts

\* A process that returns holds nothing; one that gives an account up is past it.
LEMMA Returned ==
    ASSUME Grows, Plain, NEW p \in Procs, Return(p)
    PROVE  pc'[p] = "idle" /\ state'[p] = EmptyMap /\ full'[p] = FALSE /\ resume'[p] = {}
BY DEF Return, Grows, Plain

LEMMA Abandoned ==
    ASSUME Plain, NEW p \in Procs, Abandon(p)
    PROVE  /\ pc'[p] = "account" /\ UNCHANGED <<todo, account, full, resume, base, state>>
           /\ suspect \subseteq suspect'
           /\ pc[p] = "fetch" /\ account[p] \in Gmail => Box(p) \in suspect'
BY DEF Abandon, Plain, run, Box

\* A process that gives up: `corky sync' returns, the watch goes on.
LEMMA GivenUp ==
    ASSUME Plain, NEW p \in Procs, Gives(p)
    PROVE  /\ UNCHANGED <<server, disk, merged, crashed, unverified, reaped>>
           /\ pc[p] \in {"label", "fetch"}
           /\ (Return(p) /\ UNCHANGED suspect) \/ Abandon(p)
BY DEF Gives, Fails, Interrupted, files

\* The states and the file keep their shape.
LEMMA ShapedActs ==
    ASSUME Typed, NEW p \in Procs, Acts(p)
    PROVE  Shaped'
<1>1. WellFormed(disk) /\ WellFormed(state[p]) /\ Grows /\ Plain
  BY DEF Typed, Shaped
<1>2. SUFFICES WellFormed(disk') /\ WellFormed(state'[p])
  BY ActsAlone DEF Typed, Shaped, Same
<1>3. CASE Begins(p)
  BY <1>1, <1>3, EmptyIsWellFormed DEF Begins, Begin, files, Grows
<1>4. ASSUME NEW a \in Accounts, Visit(p, a) PROVE WellFormed(disk') /\ WellFormed(state'[p])
  <2>1. state'[p] = Put(state[p], a, Get(state[p], a, EmptyMap)) /\ disk' = disk
    BY <1>1, <1>4 DEF Visit, Grows
  <2> QED
    BY <1>1, <2>1, EnteredState
<1>5. ASSUME NEW a \in Accounts, Refused(p, a) PROVE WellFormed(disk') /\ WellFormed(state'[p])
  BY <1>1, <1>5, Returned, EmptyIsWellFormed DEF Refused
<1>6. ASSUME NEW l \in Labels, NEW n \in Nat, SetCursor(p, l, n),
             account[p] \in Accounts, account[p] \in DOMAIN state[p]
      PROVE  WellFormed(state'[p])
  <2> DEFINE c == [uidvalidity |-> uidvalidity[account[p], l], last |-> n]
  <2>1. c \in Cursor /\ state'[p] = [state[p] EXCEPT ![account[p]] = Put(@, l, c)]
    BY <1>1, <1>6, CursorIsSet
  <2> HIDE DEF c
  <2> QED
    BY <1>1, <1>6, <2>1, UpdatedState
<1>7. ASSUME NEW l \in Labels, Opens(p, l) PROVE WellFormed(disk') /\ WellFormed(state'[p])
  BY <1>1, <1>6, <1>7, OpenedLabel DEF files
<1>8. ASSUME NEW l \in Labels, LabelMissing(p, l) PROVE WellFormed(disk') /\ WellFormed(state'[p])
  BY <1>1, <1>8 DEF LabelMissing, AtLabel, files
<1>9. ASSUME NEW m \in Mails, Fetch(p, m) PROVE WellFormed(disk') /\ WellFormed(state'[p])
  <2>1. disk' = disk
    BY <1>9 DEF Fetch
  <2>2. UNCHANGED state \/ SetCursor(p, label[p], Reached(p, m))
    BY <1>9, FetchEnds
  <2> QED
    BY <1>1, <1>6, <1>9, <2>1, <2>2, FetchedMail, ReachedIsNat
<1>10. CASE AccountDone(p)
  BY <1>1, <1>10 DEF AccountDone
<1>11. CASE Save(p)
  <2>1. disk' = MergeAccounts(base[p], disk, state[p]) /\ Return(p)
    BY <1>11 DEF Save, Saved
  <2>2. Extends(disk, base[p]) /\ StateExtends(state[p], base[p])
    BY <1>1 DEF Grows
  <2> QED
    BY <1>1, <2>1, <2>2, MergeIsWellFormed, Returned, EmptyIsWellFormed
<1>12. CASE Gives(p)
  BY <1>1, <1>12, GivenUp, Returned, Abandoned, EmptyIsWellFormed
<1>13. CASE Crash(p)
  BY <1>1, <1>13, Returned, EmptyIsWellFormed DEF Crash, files
<1> QED
  BY <1>3, <1>4, <1>5, <1>7, <1>8, <1>9, <1>10, <1>11, <1>12, <1>13 DEF Acts

\* What opening a label leaves in the variables of p.
LEMMA Listing ==
    ASSUME Plain, NEW p \in Procs, NEW l \in Labels, NEW mails, NEW from, Fetching(p, l, mails, from)
    PROVE  \/ mails = {} /\ pc'[p] = pc[p] /\ UNCHANGED <<pc, label, uids, cursor>>
           \/ /\ mails # {} /\ pc'[p] = "fetch"
              /\ label'[p] = l /\ uids'[p] = mails /\ cursor'[p] = from
BY DEF Fetching, Plain

\* A process stays placed in the account it is at.
LEMMA PlacedActs ==
    ASSUME Typed, NEW p \in Procs, Acts(p)
    PROVE  Placed(p)'
<1>1. Grows /\ Plain /\ Placed(p)
  BY DEF Typed
<1>2. log' = log
  BY <1>1, ActsAlone DEF server
<1>3. ASSUME pc'[p] \in {"idle", "account"} PROVE Placed(p)'
  BY <1>3 DEF Placed
<1>4. CASE Begins(p)
  BY <1>1, <1>3, <1>4 DEF Begins, Begin, Plain
<1>5. ASSUME NEW a \in Accounts, Visit(p, a) PROVE Placed(p)'
  <2>1. state'[p] = Put(state[p], a, Get(state[p], a, EmptyMap))
    BY <1>1, <1>5 DEF Visit, Grows
  <2>2. pc'[p] = "label" /\ account'[p] = a
    BY <1>1, <1>5 DEF Visit, Plain
  <2> QED
    BY <2>1, <2>2, EnteredState DEF Placed
<1>6. ASSUME NEW a \in Accounts, Refused(p, a) PROVE Placed(p)'
  BY <1>1, <1>3, <1>6, Returned DEF Refused
<1>7. ASSUME NEW l \in Labels, NEW n \in Nat, SetCursor(p, l, n),
             account[p] \in Accounts, account[p] \in DOMAIN state[p]
      PROVE  DOMAIN state'[p] = DOMAIN state[p]
  BY <1>1, <1>7, CursorIsSet, UpdatedState
<1>8. ASSUME NEW l \in Labels, Opens(p, l) PROVE Placed(p)'
  <2>1. PICK n \in Nat, from \in Nat, mails \in SUBSET Arrived(<<account[p], l>>) :
            /\ UNCHANGED state \/ SetCursor(p, l, n)
            /\ Fetching(p, l, mails, from)
    BY <1>8, OpenedLabel
  <2>2. /\ account' = account /\ pc[p] = "label"
        /\ account[p] \in Accounts /\ account[p] \in DOMAIN state[p]
    BY <1>8, OpenedLabel
  <2>3. DOMAIN state'[p] = DOMAIN state[p]
    BY <1>7, <2>1, <2>2
  <2>4. Arrived(<<account[p], l>>)' = Arrived(<<account[p], l>>)
    BY <1>2, <2>2 DEF Arrived
  <2>5. CASE pc'[p] = "label"
    BY <2>2, <2>3, <2>5 DEF Placed
  <2>6. CASE pc'[p] = "fetch" /\ label'[p] = l /\ uids'[p] = mails
    BY <2>1, <2>2, <2>3, <2>4, <2>6 DEF Placed, Box
  <2> QED
    BY <1>1, <2>1, <2>2, <2>5, <2>6, Listing
<1>9. ASSUME NEW l \in Labels, LabelMissing(p, l) PROVE Placed(p)'
  <2>1. UNCHANGED <<pc, account, label, uids, state, log>>
    BY <1>2, <1>9 DEF LabelMissing, AtLabel
  <2> QED
    BY <1>1, <2>1 DEF Placed, Box, Arrived
<1>10. ASSUME NEW m \in Mails, Fetch(p, m) PROVE Placed(p)'
  <2>1. /\ account[p] \in Accounts /\ account[p] \in DOMAIN state[p] /\ label[p] \in Labels
        /\ uids[p] \subseteq Arrived(Box(p))
    BY <1>10, FetchedMail
  <2>2. account' = account
    BY <1>10 DEF Fetch
  <2>3. uids'[p] = uids[p] \ {m}
    BY <1>1, <1>10, FetchEnds DEF Plain
  <2>4. CASE UNCHANGED <<state, pc, label>>
    BY <1>2, <2>1, <2>2, <2>3, <2>4 DEF Placed, Box, Arrived
  <2>5. CASE SetCursor(p, label[p], Reached(p, m)) /\ pc' = [pc EXCEPT ![p] = "label"]
    <3>1. DOMAIN state'[p] = DOMAIN state[p]
      BY <1>7, <1>10, <2>1, <2>5, ReachedIsNat
    <3>2. pc'[p] = "label"
      BY <1>1, <2>5 DEF Plain
    <3> QED
      BY <2>1, <2>2, <3>1, <3>2 DEF Placed
  <2> QED
    BY <1>10, <2>4, <2>5, FetchEnds
<1>11. CASE AccountDone(p)
  BY <1>1, <1>3, <1>11 DEF AccountDone, Plain
<1>12. CASE Save(p) \/ Crash(p)
  BY <1>1, <1>3, <1>12, Returned DEF Save, Crash
<1>13. CASE Gives(p)
  BY <1>1, <1>3, <1>13, GivenUp, Returned, Abandoned
<1> QED
  BY <1>4, <1>5, <1>6, <1>8, <1>9, <1>10, <1>11, <1>12, <1>13 DEF Acts

\* A step of a process keeps the rest of the types.
LEMMA TypedActs ==
    ASSUME Typed, Grows', NEW p \in Procs, Acts(p)
    PROVE  Typed'
<1>1. Grows /\ Plain /\ Numbered /\ \A q \in Procs : Placed(q)
  BY DEF Typed
<1>2. UNCHANGED server /\ \A q \in Procs : q # p => Same(q)
  BY <1>1, ActsAlone
<1>3. log' = log /\ gone' = gone
  BY <1>2 DEF server
<1>4. Numbered'
  BY <1>1, <1>3 DEF Numbered, Ever, Arrived
<1>5. \A q \in Procs : q # p => Placed(q)'
  BY <1>1, <1>2, <1>3 DEF Same, Placed, Box, Arrived
<1> QED
  BY <1>4, <1>5, PlainActs, ShapedActs, PlacedActs DEF Typed

\* A step of a server keeps the types.
LEMMA TypedServer ==
    ASSUME Typed, ServerStep
    PROVE  Typed'
<1>1. UNCHANGED <<files, run, state, place, stop, crashed, unverified, reaped>>
  BY DEF ServerStep, Outside
<1>2. Grows' /\ Shaped'
  BY <1>1 DEF Typed, Grows, Shaped, files, run
<1>3. Plain'
  BY <1>1 DEF Typed, Plain, ServerStep, files, run, place
<1>4. ASSUME NEW p \in Procs PROVE Placed(p)'
  <2>1. /\ pc' = pc /\ account' = account /\ label' = label /\ uids' = uids /\ state' = state
    BY <1>1 DEF place
  <2>2. CASE pc[p] = "fetch"
    <3>1. Box(p) \in Boxes /\ Visits(p, Box(p)) /\ Placed(p)
      BY <2>2 DEF Typed, Placed, Box, Boxes, Visits
    <3>2. Arrived(Box(p)) \subseteq Arrived(Box(p))'
      BY <2>1, <3>1 DEF ServerStep, Box
    <3> QED
      BY <2>1, <3>1, <3>2 DEF Placed, Box
  <2>3. CASE pc[p] # "fetch"
    BY <2>1, <2>3 DEF Typed, Placed
  <2> QED
    BY <2>2, <2>3
<1> QED
  BY <1>2, <1>3, <1>4 DEF Typed, ServerStep

\* Only the shutdown flag changes, or nothing.
LEMMA TypedFrame ==
    ASSUME Typed, UNCHANGED <<server, files, run, state, place, history>>, stop' \in BOOLEAN
    PROVE  Typed'
<1>1. UNCHANGED <<log, gone, uidvalidity, merged, disk, runs, full, resume, base, touched,
                  scoped, state, pc, todo, account, left, label, uids, cursor,
                  crashed, unverified, suspect, reaped>>
  BY DEF server, files, run, place, history
<1>2. Grows'
  BY <1>1 DEF Typed, Grows
<1>3. Plain'
  BY <1>1 DEF Typed, Plain
<1>4. Shaped'
  BY <1>1 DEF Typed, Shaped
<1>5. Numbered'
  BY <1>1 DEF Typed, Numbered, Ever, Arrived
<1>6. \A p \in Procs : Placed(p)'
  BY <1>1 DEF Typed, Placed, Box, Arrived
<1> QED
  BY <1>2, <1>3, <1>4, <1>5, <1>6 DEF Typed

\* The shutdown flag is nobody's state.
LEMMA TypedFlag ==
    ASSUME Typed, Shutdown \/ Restart
    PROVE  Typed'
<1>1. /\ UNCHANGED <<server, files, run, state, place, history>> /\ stop' \in BOOLEAN
  BY DEF Shutdown, Restart
<1> QED
  BY <1>1, TypedFrame

LEMMA TypedStep == Typed /\ [Next]_vars => Typed'
<1> SUFFICES ASSUME Typed, [Next]_vars PROVE Typed'
  OBVIOUS
<1>1. Grows'
  BY GrowsStep DEF Typed
<1>2. CASE Next
  BY <1>1, <1>2, NextIsActs, ServerSteps, TypedServer, TypedFlag, TypedActs DEF Typed
<1>3. CASE UNCHANGED vars
  <2>1. UNCHANGED <<server, files, run, state, place, history>> /\ stop' = stop
    BY <1>3 DEF vars
  <2>2. stop' \in BOOLEAN
    BY <2>1 DEF Typed, Plain
  <2> QED
    BY <2>1, <2>2, TypedFrame
<1> QED
  BY <1>2, <1>3

\* Every variable keeps its type: in particular every cursor that a run holds or the file
\* stores is one of a configured label, whatever the merges and the mailboxes do.
THEOREM TypeCorrect == Spec => []TypeOK
<1>1. Spec => []Typed
  BY TypedInit, TypedStep, PTL DEF Spec
<1>2. Typed => TypeOK
  BY TypedIsTypeOK
<1> QED
  BY <1>1, <1>2, PTL

-----------------------------------------------------------------------------
(* No cursor stands beyond an undelivered mail *)

\* Every mail of b up to position n has reached its file, or need not.
Safe(b, n) ==
    /\ n \in Nat /\ n <= Len(log[b])
    /\ \A i \in DOMAIN log[b] : i <= n => log[b][i] \in Delivered(b)

SafeAt(s, a, l) == HasCursor(s, a, l) => Safe(<<a, l>>, s[a][l].last)

\* The pass of p over b: up to some position, all that is not delivered is yet to be
\* fetched, and all that is yet to be fetched, and the cursor, lie up to there.
Listed(p, b) ==
    \E n \in Nat :
        /\ n <= Len(log[b]) /\ cursor[p] <= n
        /\ \A i \in DOMAIN log[b] : /\ i <= n => log[b][i] \in Delivered(b) \cup uids[p]
                                    /\ log[b][i] \in uids[p] => i <= n

\* What p holds of mailbox <<a, l>>.  The cursor of a Gmail mailbox runs ahead while the
\* mailbox is visited; that of an IMAP mailbox does not.
Holds(p, a, l) ==
    /\ a \notin Gmail \/ ~ Visits(p, <<a, l>>) => SafeAt(state[p], a, l)
    /\ Visits(p, <<a, l>>) => Listed(p, <<a, l>>)

Sound ==
    \A a \in Accounts, l \in Labels : <<a, l>> \notin suspect =>
        SafeAt(disk, a, l) /\ \A p \in Procs : Holds(p, a, l)

\* What is delivered stays so, and a mailbox that is suspect too.
LEMMA DeliveredGrows ==
    ASSUME Typed, NEW p \in Procs, Acts(p)
    PROVE  /\ suspect \subseteq suspect'
           /\ \A b : Delivered(b) \subseteq Delivered(b)'
<1>1. merged \subseteq merged' \cup reaped' /\ reaped \subseteq reaped' /\ suspect \subseteq suspect'
  <2> USE DEF files, history
  <2>1. CASE Begins(p)
    BY <2>1 DEF Begins, Begin
  <2>2. CASE \E a \in Accounts : Visit(p, a) \/ Refused(p, a)
    BY <2>2 DEF Visit, Refused
  <2>3. CASE \E l \in Labels : Opens(p, l) \/ LabelMissing(p, l)
    BY <2>3 DEF Opens, OpenImap, OpenGmail, ListGmail, LabelMissing, AtLabel
  <2>4. CASE \E m \in Mails : Fetch(p, m)
    BY <2>4 DEF Fetch
  <2>5. CASE AccountDone(p) \/ Crash(p)
    BY <2>5 DEF AccountDone, Crash
  <2>6. CASE Save(p)
    BY <2>6 DEF Save
  <2>7. CASE Gives(p)
    BY <2>7, GivenUp, Abandoned DEF Typed
  <2> QED
    BY <2>1, <2>2, <2>3, <2>4, <2>5, <2>6, <2>7 DEF Acts
<1>2. gone' = gone
  BY ActsAlone DEF Typed, server
<1> QED
  BY <1>1, <1>2 DEF Delivered

\* A safe position stays safe while the mailbox only grows.
LEMMA SafeStays ==
    ASSUME NEW b \in Boxes, log \in [Boxes -> Seq(Mails)], log' \in [Boxes -> Seq(Mails)],
           Appends(b), Delivered(b) \subseteq Delivered(b)', NEW n, Safe(b, n)
    PROVE  Safe(b, n)'
<1>1. Len(log[b]) \in Nat /\ DOMAIN log[b] = 1..Len(log[b])
  BY LenProperties
<1>2. Len(log'[b]) \in Nat /\ DOMAIN log'[b] = 1..Len(log'[b])
  BY LenProperties
<1>3. ASSUME NEW i \in DOMAIN log'[b], i <= n PROVE log'[b][i] \in Delivered(b)'
  <2>1. i \in DOMAIN log[b]
    BY <1>1, <1>2, <1>3 DEF Safe
  <2> QED
    BY <1>3, <2>1 DEF Safe, Appends
<1> QED
  BY <1>1, <1>2, <1>3 DEF Safe, Appends

\* The steps of the servers.
LEMMA SoundServer ==
    ASSUME Typed, Sound, ServerStep
    PROVE  Sound'
<1> SUFFICES ASSUME NEW a \in Accounts, NEW l \in Labels, <<a, l>> \notin suspect'
             PROVE  SafeAt(disk, a, l)' /\ \A p \in Procs : Holds(p, a, l)'
  BY DEF Sound
<1> DEFINE b == <<a, l>>
<1>1. /\ UNCHANGED <<merged, reaped, disk, state, pc, account, label, uids, cursor>>
      /\ gone \subseteq gone'
  BY DEF ServerStep, Outside, files, place
<1>2. b \in Boxes /\ b \notin suspect /\ Appends(b)
  BY DEF Boxes, ServerStep
<1>3. SafeAt(disk, a, l) /\ \A p \in Procs : Holds(p, a, l)
  BY <1>2 DEF Sound
<1>4. Delivered(b) \subseteq Delivered(b)'
  BY <1>1 DEF Delivered
<1>5. log \in [Boxes -> Seq(Mails)] /\ log' \in [Boxes -> Seq(Mails)]
  BY DEF Typed, Plain, ServerStep
<1>6. \A n : Safe(b, n) => Safe(b, n)'
  BY <1>2, <1>4, <1>5, SafeStays
<1>7. SafeAt(disk, a, l)'
  BY <1>1, <1>3, <1>6 DEF SafeAt
<1>8. ASSUME NEW p \in Procs PROVE Holds(p, a, l)'
  <2>1. Visits(p, b)' <=> Visits(p, b)
    BY <1>1 DEF Visits
  <2>2. SafeAt(state[p], a, l) => SafeAt(state[p], a, l)'
    BY <1>1, <1>6 DEF SafeAt
  <2>3. ASSUME Visits(p, b) PROVE Listed(p, b)'
    <3>1. PICK n \in Nat :
            /\ n <= Len(log[b]) /\ cursor[p] <= n
            /\ \A i \in DOMAIN log[b] : /\ i <= n => log[b][i] \in Delivered(b) \cup uids[p]
                                        /\ log[b][i] \in uids[p] => i <= n
      BY <1>3, <2>3 DEF Holds, Listed
    <3>2. /\ Len(log[b]) \in Nat /\ DOMAIN log[b] = 1..Len(log[b])
          /\ Len(log'[b]) \in Nat /\ DOMAIN log'[b] = 1..Len(log'[b])
      BY <1>2, <1>5, LenProperties
    <3>3. uids[p] \subseteq Arrived(b)
      BY <2>3 DEF Typed, Placed, Visits, Box
    <3>4. \A i \in DOMAIN log'[b] : i > Len(log[b]) => log'[b][i] \notin Arrived(b)
      BY <1>2, <2>3 DEF ServerStep
    <3>5. ASSUME NEW i \in DOMAIN log'[b]
          PROVE  /\ i <= n => log'[b][i] \in Delivered(b)' \cup uids[p]
                 /\ log'[b][i] \in uids[p] => i <= n
      <4>1. CASE i \in DOMAIN log[b]
        BY <1>2, <1>4, <3>1, <4>1 DEF Appends
      <4>2. CASE i \notin DOMAIN log[b]
        BY <3>1, <3>2, <3>3, <3>4, <4>2
      <4> QED
        BY <4>1, <4>2
    <3>6. n <= Len(log'[b]) /\ cursor'[p] <= n /\ uids'[p] = uids[p]
      BY <1>1, <1>2, <3>1, <3>2 DEF Appends
    <3> QED
      BY <3>5, <3>6 DEF Listed
  <2> QED
    BY <1>1, <1>3, <2>1, <2>2, <2>3 DEF Holds
<1> QED
  BY <1>7, <1>8

\* While the mailboxes stand still, what is safe and what is listed stays so.
LEMMA StandStill ==
    ASSUME NEW b, log' = log, Delivered(b) \subseteq Delivered(b)'
    PROVE  /\ \A n : Safe(b, n) => Safe(b, n)'
           /\ \A q \in Procs : uids'[q] = uids[q] /\ cursor'[q] = cursor[q] /\ Listed(q, b)
                                 => Listed(q, b)'
BY DEF Safe, Listed

\* The last position stored for a label that is not being visited is safe.
LEMMA LastIsSafe ==
    ASSUME Typed, Sound, NEW p \in Procs, pc[p] = "label", NEW l \in Labels,
           <<account[p], l>> \notin suspect
    PROVE  Safe(<<account[p], l>>, LastOf(p, l)) /\ Safe(<<account[p], l>>, 0)
<1> DEFINE b == <<account[p], l>>
<1>1. account[p] \in Accounts /\ account[p] \in DOMAIN state[p] /\ WellFormed(state[p])
  BY DEF Typed, Placed, Shaped
<1>2. b \in Boxes
  BY <1>1 DEF Boxes
<1>3. Safe(b, 0)
  <2> HIDE DEF b
  <2>1. Len(log[b]) \in Nat /\ DOMAIN log[b] = 1..Len(log[b])
    BY <1>2, LenProperties DEF Typed, Plain
  <2> QED
    BY <2>1 DEF Safe
<1>4. SafeAt(state[p], account[p], l)
  BY <1>1 DEF Sound, Holds, Visits
<1> QED
  BY <1>1, <1>3, <1>4, LastIsNat DEF SafeAt

\* Each listing covers the mails that are not delivered.
LEMMA ListingCovers ==
    ASSUME NEW b, NEW mails,
           \/ mails = Present(b)
           \/ \E c \in Nat : Safe(b, c) /\ mails = AddedAfter(b, c)
    PROVE  \A i \in DOMAIN log[b] : log[b][i] \in Delivered(b) \cup mails
<1>1. gone \subseteq Delivered(b)
  BY DEF Delivered
<1>2. CASE mails = Present(b)
  BY <1>1, <1>2 DEF Present, Arrived
<1>3. ASSUME NEW c \in Nat, Safe(b, c), mails = AddedAfter(b, c), NEW i \in DOMAIN log[b]
      PROVE  log[b][i] \in Delivered(b) \cup mails
  <2>1. CASE log[b][i] \in Present(b)
    <3>1. CASE \A j \in 1..c : j \in DOMAIN log[b] => log[b][j] # log[b][i]
      BY <1>3, <2>1, <3>1 DEF AddedAfter
    <3>2. ASSUME NEW j \in 1..c, j \in DOMAIN log[b], log[b][j] = log[b][i]
          PROVE  log[b][i] \in Delivered(b)
      BY <1>3, <3>2 DEF Safe
    <3> QED
      BY <3>1, <3>2
  <2>2. CASE log[b][i] \notin Present(b)
    BY <1>1, <2>2 DEF Present, Arrived
  <2> QED
    BY <2>1, <2>2
<1> QED
  BY <1>2, <1>3

\* A listing of label l that is taken over from position `from': it leaves out only
\* delivered mails, and a cursor it moves is safe, unless it is that of a Gmail
\* mailbox with mails to fetch.
Taken(p, l, mails, from) ==
    LET b == <<account[p], l>>
    IN /\ Fetching(p, l, mails, from) /\ from \in Nat /\ from <= Len(log[b])
       /\ \A i \in DOMAIN log[b] : log[b][i] \in Delivered(b) \cup mails
       /\ \/ UNCHANGED state
          \/ \E n \in Nat : /\ SetCursor(p, l, n)
                            /\ account[p] \notin Gmail \/ mails = {} => Safe(b, n)

\* What a process that opens a label takes over from the last pass, for each provider.
LEMMA OpenedSafely ==
    ASSUME Typed, Sound, NEW p \in Procs, NEW l \in Labels, Opens(p, l),
           <<account[p], l>> \notin suspect
    PROVE  \E mails, from : Taken(p, l, mails, from)
<1> DEFINE b == <<account[p], l>>
           last == LastOf(p, l)
<1>1. pc[p] = "label" /\ account[p] \in Accounts /\ account[p] \in DOMAIN state[p]
  BY OpenedLabel
<1>2. Safe(b, last) /\ Safe(b, 0) /\ b \in Boxes
  BY <1>1, LastIsSafe DEF Boxes
<1>3. last \in Nat /\ last <= Len(log[b]) /\ Len(log[b]) \in Nat
  BY <1>2, LenProperties DEF Safe, Typed, Plain
<1> HIDE DEF last
<1>4. CASE OpenImap(p, l)
  <2>1. Search(p, l) \in {Present(b), AddedAfter(b, last)}
    <3> DEFINE prior == Get(state[p][account[p]], l, [uidvalidity |-> -1, last |-> 0])
    <3>1. uidvalidity[b] \in Nat
      BY <1>2 DEF Typed, Plain
    <3>2. CASE HasCursor(state[p], account[p], l)
      <4>1. prior.last = last
        BY <3>2 DEF HasCursor, Get, last, LastOf
      <4> QED
        BY <4>1 DEF Search
    <3>3. CASE ~ HasCursor(state[p], account[p], l)
      <4>1. prior.uidvalidity = -1
        BY <1>1, <3>3 DEF HasCursor, Get
      <4> QED
        BY <3>1, <4>1 DEF Search
    <3> QED
      BY <3>2, <3>3
  <2>2. \A i \in DOMAIN log[b] : log[b][i] \in Delivered(b) \cup Search(p, l)
    <3> HIDE DEF b
    <3> QED
      BY <1>2, <1>3, <2>1, ListingCovers
  <2>3. Fetching(p, l, Search(p, l), last)
    BY <1>4 DEF OpenImap, last
  <2>4. UNCHANGED state \/ SetCursor(p, l, last)
    BY <1>4 DEF OpenImap, last
  <2>5. Taken(p, l, Search(p, l), last)
    BY <1>2, <1>3, <2>2, <2>3, <2>4 DEF Taken
  <2> QED
    BY <2>5
<1>5. CASE OpenGmail(p, l)
  <2> DEFINE mails == AddedAfter(b, last)
             end == Len(log[b])
  <2>1. \A i \in DOMAIN log[b] : log[b][i] \in Delivered(b) \cup mails
    BY <1>2, <1>3, ListingCovers
  <2>2. SetCursor(p, l, end) /\ Fetching(p, l, mails, end) /\ account[p] \in Gmail
    BY <1>5 DEF OpenGmail, last
  <2>3. mails = {} => Safe(b, end)
    BY <1>3, <2>1 DEF Safe
  <2>4. end \in Nat /\ end <= end
    BY <1>3
  <2>5. end <= Len(log[b])
    BY <2>4
  <2> HIDE DEF mails, end
  <2>6. Taken(p, l, mails, end)
    BY <2>1, <2>2, <2>3, <2>4, <2>5 DEF Taken
  <2> QED
    BY <2>6
<1>6. CASE ListGmail(p, l)
  <2>1. \A i \in DOMAIN log[b] : log[b][i] \in Delivered(b) \cup Present(b)
    BY ListingCovers
  <2>2. PICK from \in {0, last} : SetCursor(p, l, from) /\ Fetching(p, l, Present(b), from)
    BY <1>6 DEF ListGmail, last
  <2>3. Safe(b, from) /\ from \in Nat /\ from <= Len(log[b])
    BY <1>2, <1>3, <2>2
  <2>4. \E n \in Nat : SetCursor(p, l, n) /\ Safe(b, n)
    BY <2>2, <2>3
  <2>5. Taken(p, l, Present(b), from)
    BY <2>1, <2>2, <2>3, <2>4 DEF Taken
  <2> QED
    BY <2>5
<1> QED
  BY <1>4, <1>5, <1>6 DEF Opens

\* Setting the cursor of one mailbox leaves the others.
LEMMA SetCursorSafely ==
    ASSUME Typed, NEW p \in Procs, NEW k \in Labels, NEW n \in Nat, SetCursor(p, k, n),
           account[p] \in Accounts, account[p] \in DOMAIN state[p],
           NEW a, NEW l, log' = log, Delivered(<<a, l>>) \subseteq Delivered(<<a, l>>)'
    PROVE  /\ <<a, l>> # <<account[p], k>> /\ SafeAt(state[p], a, l) => SafeAt(state[p], a, l)'
           /\ <<a, l>> = <<account[p], k>> /\ Safe(<<a, l>>, n)' => SafeAt(state[p], a, l)'
<1> DEFINE c == [uidvalidity |-> uidvalidity[account[p], k], last |-> n]
<1>1. c \in Cursor /\ state'[p] = [state[p] EXCEPT ![account[p]] = Put(@, k, c)] /\ c.last = n
  BY CursorIsSet DEF Typed
<1> HIDE DEF c
<1>2. CASE <<a, l>> # <<account[p], k>>
  <2>1. /\ HasCursor(state'[p], a, l) <=> HasCursor(state[p], a, l)
        /\ HasCursor(state[p], a, l) => state'[p][a][l] = state[p][a][l]
    BY <1>1, <1>2, UpdatedState
  <2> QED
    BY <1>2, <2>1, StandStill DEF SafeAt
<1>3. CASE <<a, l>> = <<account[p], k>>
  <2>1. state'[p][a][l] = c
    BY <1>1, <1>3, UpdatedState
  <2> QED
    BY <1>1, <1>3, <2>1 DEF SafeAt
<1> QED
  BY <1>2, <1>3

LEMMA SoundOpens ==
    ASSUME Typed, Sound, NEW p \in Procs, NEW k \in Labels, Opens(p, k),
           NEW a \in Accounts, NEW l \in Labels, <<a, l>> \notin suspect
    PROVE  Holds(p, a, l)'
<1> DEFINE b == <<a, l>>
<1>1. /\ pc[p] = "label" /\ account[p] \in Accounts /\ account[p] \in DOMAIN state[p]
      /\ UNCHANGED <<server, files, run, todo, account, stop, history, crashes>>
  BY OpenedLabel
<1>2. log' = log /\ \A x : Delivered(x)' = Delivered(x)
  BY <1>1 DEF server, files, history, Delivered
<1>3. SafeAt(state[p], a, l)
  BY <1>1 DEF Sound, Holds, Visits
<1>4. Plain /\ Grows
  BY DEF Typed
<1>5. CASE b # <<account[p], k>>
  <2>1. ~ Visits(p, b)'
    BY <1>1, <1>4, <1>5, OpenedLabel, Listing DEF Visits
  <2>2. PICK n \in Nat : UNCHANGED state \/ SetCursor(p, k, n)
    BY OpenedLabel
  <2>3. SafeAt(state[p], a, l)'
    <3>1. CASE UNCHANGED state
      BY <1>2, <1>3, <3>1, StandStill DEF SafeAt
    <3>2. CASE SetCursor(p, k, n)
      BY <1>1, <1>2, <1>3, <1>5, <3>2, SetCursorSafely
    <3> QED
      BY <2>2, <3>1, <3>2
  <2> QED
    BY <2>1, <2>3 DEF Holds
<1>6. CASE b = <<account[p], k>>
  <2>. PICK mails, from : Taken(p, k, mails, from)
    BY <1>6, OpenedSafely
  <2>1. /\ Fetching(p, k, mails, from) /\ from \in Nat /\ from <= Len(log[b])
        /\ \A i \in DOMAIN log[b] : log[b][i] \in Delivered(b) \cup mails
        /\ \/ UNCHANGED state
           \/ \E n \in Nat : /\ SetCursor(p, k, n)
                             /\ account[p] \notin Gmail \/ mails = {} => Safe(b, n)
    BY <1>6 DEF Taken
  <2>2. \/ mails = {} /\ pc'[p] = "label"
        \/ /\ mails # {} /\ pc'[p] = "fetch"
           /\ label'[p] = k /\ uids'[p] = mails /\ cursor'[p] = from
    BY <1>1, <1>4, <2>1, Listing
  <2>3. SafeAt(state[p], a, l)' \/ (a \in Gmail /\ mails # {})
    <3>1. CASE UNCHANGED state
      BY <1>2, <1>3, <3>1, StandStill DEF SafeAt
    <3>2. ASSUME NEW n \in Nat, SetCursor(p, k, n), Safe(b, n)
          PROVE  SafeAt(state[p], a, l)'
      <4>1. Safe(b, n)'
        BY <1>2, <3>2, StandStill
      <4> QED
        BY <1>1, <1>2, <1>6, <3>2, <4>1, SetCursorSafely
    <3> QED
      BY <1>6, <2>1, <3>1, <3>2
  <2>4. mails # {} => Visits(p, b)' /\ Listed(p, b)'
    <3> SUFFICES ASSUME mails # {} PROVE Visits(p, b)' /\ Listed(p, b)'
      OBVIOUS
    <3>1. pc'[p] = "fetch" /\ label'[p] = k /\ uids'[p] = mails /\ cursor'[p] = from
      BY <2>2
    <3>2. Len(log[b]) \in Nat /\ DOMAIN log[b] = 1..Len(log[b])
      BY LenProperties DEF Typed, Plain, Boxes
    <3>3. Listed(p, b)'
      BY <1>2, <2>1, <3>1, <3>2 DEF Listed
    <3> QED
      BY <1>1, <1>6, <3>1, <3>3 DEF Visits
  <2>5. mails = {} => ~ Visits(p, b)'
    BY <2>2 DEF Visits
  <2> QED
    BY <2>3, <2>4, <2>5 DEF Holds
<1> QED
  BY <1>5, <1>6


\* A fetched mail is delivered, or counts as such, and lies where the listing ends or before.
LEMMA FetchDelivers ==
    ASSUME Typed, NEW p \in Procs, NEW m \in Mails, Fetch(p, m),
           NEW b, b = Box(p), Listed(p, b)
    PROVE  \E n \in Nat :
              /\ n <= Len(log[b]) /\ Reached(p, m) <= n
              /\ \A i \in DOMAIN log[b] :
                    /\ i <= n => log[b][i] \in Delivered(b)' \cup uids'[p]
                    /\ log[b][i] \in uids'[p] => i <= n
<1> DEFINE k == Position(b, m)
<1>1. /\ m \in uids[p] /\ b \in Boxes /\ cursor[p] \in Nat
      /\ k \in Nat /\ k \in DOMAIN log[b] /\ log[b][k] = m
  BY FetchedMail
<1>2. PICK n \in Nat :
        /\ n <= Len(log[b]) /\ cursor[p] <= n
        /\ \A i \in DOMAIN log[b] : /\ i <= n => log[b][i] \in Delivered(b) \cup uids[p]
                                    /\ log[b][i] \in uids[p] => i <= n
  BY DEF Listed
<1>3. uids'[p] = uids[p] \ {m}
  BY FetchEnds DEF Typed, Plain
<1>4. Delivered(b) \subseteq Delivered(b)'
  <2>1. Acts(p)
    BY DEF Acts
  <2> QED
    BY <2>1, DeliveredGrows
<1>5. m \in Delivered(b)'
  <2>1. gone' = gone /\ b[1] = account[p]
    BY DEF Fetch, server, Box
  <2>2. CASE m \in gone
    BY <2>1, <2>2 DEF Delivered
  <2>3. CASE m \in Unreadable /\ account[p] \notin Gmail
    BY <2>1, <2>3 DEF Delivered
  <2>4. CASE m \notin gone /\ ~ (m \in Unreadable /\ account[p] \notin Gmail)
    BY <2>4 DEF Delivered, Fetch
  <2> QED
    BY <2>2, <2>3, <2>4
<1>6. Reached(p, m) <= n
  BY <1>1, <1>2 DEF Reached, Larger
<1>7. \A i \in DOMAIN log[b] : /\ i <= n => log[b][i] \in Delivered(b)' \cup uids'[p]
                               /\ log[b][i] \in uids'[p] => i <= n
  BY <1>2, <1>3, <1>4, <1>5
<1> QED
  BY <1>2, <1>6, <1>7

LEMMA SoundFetch ==
    ASSUME Typed, Sound, NEW p \in Procs, NEW m \in Mails, Fetch(p, m),
           NEW a \in Accounts, NEW l \in Labels, <<a, l>> \notin suspect
    PROVE  Holds(p, a, l)'
<1> DEFINE b == <<a, l>>
<1>1. /\ pc[p] = "fetch" /\ account[p] \in Accounts /\ account[p] \in DOMAIN state[p]
      /\ label[p] \in Labels
  BY FetchedMail
<1>2. log' = log /\ account' = account
  BY DEF Fetch, server
<1>3. Delivered(b) \subseteq Delivered(b)'
  <2>1. Acts(p)
    BY DEF Acts
  <2> QED
    BY <2>1, DeliveredGrows
<1>4. Reached(p, m) \in Nat
  BY ReachedIsNat
<1>5. Plain /\ Holds(p, a, l)
  BY DEF Typed, Sound
<1>6. CASE b # Box(p)
  <2>1. SafeAt(state[p], a, l)
    BY <1>5, <1>6 DEF Holds, Visits, Box
  <2>2. ~ Visits(p, b)'
    BY <1>2, <1>5, <1>6, FetchEnds DEF Visits, Box, Plain
  <2>3. SafeAt(state[p], a, l)'
    <3>1. CASE UNCHANGED state
      BY <1>2, <1>3, <2>1, <3>1, StandStill DEF SafeAt
    <3>2. CASE SetCursor(p, label[p], Reached(p, m))
      BY <1>1, <1>2, <1>3, <1>4, <1>6, <2>1, <3>2, SetCursorSafely DEF Box
    <3> QED
      BY <3>1, <3>2, FetchEnds
  <2> QED
    BY <2>2, <2>3 DEF Holds
<1>7. CASE b = Box(p)
  <2>1. Visits(p, b) /\ Listed(p, b)
    BY <1>1, <1>5, <1>7 DEF Holds, Visits, Box
  <2>2. PICK n \in Nat :
            /\ n <= Len(log[b]) /\ Reached(p, m) <= n
            /\ \A i \in DOMAIN log[b] : /\ i <= n => log[b][i] \in Delivered(b)' \cup uids'[p]
                                        /\ log[b][i] \in uids'[p] => i <= n
    BY <1>7, <2>1, FetchDelivers
  <2>3. CASE uids[p] # {m}
    <3>1. UNCHANGED <<state, pc, label>> /\ cursor'[p] = Reached(p, m)
      BY <1>5, <2>3, FetchEnds DEF Plain
    <3>2. Listed(p, b)'
      BY <1>2, <2>2, <3>1 DEF Listed
    <3>3. a \notin Gmail => SafeAt(state[p], a, l)'
      BY <1>2, <1>3, <1>5, <3>1, StandStill DEF SafeAt, Holds
    <3>4. Visits(p, b)'
      BY <1>2, <2>1, <3>1 DEF Visits
    <3> QED
      BY <3>2, <3>3, <3>4 DEF Holds
  <2>4. CASE uids[p] = {m}
    <3>1. SetCursor(p, label[p], Reached(p, m)) /\ pc'[p] = "label" /\ uids'[p] = {}
      BY <1>5, <2>4, FetchEnds DEF Plain
    <3>2. Len(log[b]) \in Nat /\ DOMAIN log[b] = 1..Len(log[b])
      BY <1>5, LenProperties DEF Plain, Boxes
    <3>. PICK r \in Nat : r = Reached(p, m)
      BY <1>4
    <3>3. Safe(b, r)'
      BY <1>2, <2>2, <3>1, <3>2 DEF Safe
    <3>4. SafeAt(state[p], a, l)'
      BY <1>1, <1>2, <1>3, <1>7, <3>1, <3>3, SetCursorSafely DEF Box
    <3>5. ~ Visits(p, b)'
      BY <3>1 DEF Visits
    <3> QED
      BY <3>4, <3>5 DEF Holds
  <2> QED
    BY <2>3, <2>4
<1> QED
  BY <1>6, <1>7

\* The state that a save writes is sound, if the file and the run are.
LEMMA SoundSave ==
    ASSUME Typed, Sound, NEW p \in Procs, Save(p),
           NEW a \in Accounts, NEW l \in Labels, <<a, l>> \notin suspect
    PROVE  SafeAt(disk, a, l)'
<1> DEFINE m == MergeAccounts(base[p], disk, state[p])
<1>1. disk' = m /\ log' = log /\ pc[p] = "account"
  BY DEF Save, Saved, server
<1>2. Delivered(<<a, l>>) \subseteq Delivered(<<a, l>>)'
  BY DeliveredGrows DEF Acts
<1>3. SafeAt(disk, a, l) /\ SafeAt(state[p], a, l)
  BY <1>1 DEF Sound, Holds, Visits
<1>4. Extends(disk, base[p]) /\ StateExtends(state[p], base[p])
  BY DEF Typed, Grows
<1> HIDE DEF m
<1>5. ASSUME HasCursor(m, a, l)
      PROVE  Safe(<<a, l>>, m[a][l].last)
  <2> DEFINE c == disk[a][l]
             u == state[p][a][l]
  <2>1. CASE HasCursor(disk, a, l) /\ m[a][l] = c
    BY <1>3, <2>1 DEF SafeAt
  <2>2. CASE HasCursor(state[p], a, l) /\ m[a][l] = u
    BY <1>3, <2>2 DEF SafeAt
  <2>3. CASE HasCursor(disk, a, l) /\ HasCursor(state[p], a, l) /\ m[a][l] = NewerCursor(c, u)
    <3>1. c \in Cursor /\ u \in Cursor
      BY <2>3 DEF Typed, Shaped, WellFormed, HasCursor
    <3>2. m[a][l].last \in {c.last, u.last}
      BY <2>3, <3>1, NewerIsEither
    <3> QED
      BY <1>3, <2>3, <3>2 DEF SafeAt
  <2> QED
    BY <1>4, <1>5, <2>1, <2>2, <2>3, MergedCursor DEF m
<1> QED
  BY <1>1, <1>2, <1>5, StandStill DEF SafeAt


\* A step of p that opens no label, fetches no mail, and keeps the file.
LEMMA SoundElse ==
    ASSUME Typed, Sound, NEW p \in Procs,
           \/ Begins(p) \/ AccountDone(p) \/ Gives(p) \/ Crash(p) \/ Save(p)
           \/ \E a \in Accounts : Visit(p, a) \/ Refused(p, a)
           \/ \E l \in Labels : LabelMissing(p, l),
           NEW a \in Accounts, NEW l \in Labels, <<a, l>> \notin suspect'
    PROVE  Holds(p, a, l)'
<1> DEFINE b == <<a, l>>
<1>1. log' = log /\ b \notin suspect /\ Delivered(b) \subseteq Delivered(b)'
  BY ActsAlone, DeliveredGrows DEF Acts, Typed, server
<1>2. Grows /\ Plain /\ SafeAt(disk, a, l) /\ Holds(p, a, l)
  BY <1>1 DEF Typed, Sound
<1>3. SUFFICES SafeAt(state[p], a, l)' /\ ~ Visits(p, b)'
  BY DEF Holds
<1>4. ASSUME SafeAt(state[p], a, l), state'[p] = state[p]
      PROVE  SafeAt(state[p], a, l)'
  BY <1>1, <1>4, StandStill DEF SafeAt
<1>5. ASSUME Return(p)
      PROVE  SafeAt(state[p], a, l)' /\ ~ Visits(p, b)'
  BY <1>2, <1>5, Returned DEF SafeAt, HasCursor, EmptyMap, Visits
<1>6. CASE Begins(p)
  <2>1. pc'[p] = "account" /\ (state'[p] = EmptyMap \/ state'[p] = disk)
    BY <1>2, <1>6 DEF Begins, Begin, Grows, Plain
  <2>2. SafeAt(state[p], a, l)'
    BY <1>1, <1>2, <2>1, StandStill DEF SafeAt, HasCursor, EmptyMap
  <2> QED
    BY <2>1, <2>2 DEF Visits
<1>7. ASSUME NEW x \in Accounts, Visit(p, x)
      PROVE  SafeAt(state[p], a, l)' /\ ~ Visits(p, b)'
  <2>1. /\ pc[p] = "account" /\ pc'[p] = "label"
        /\ state'[p] = Put(state[p], x, Get(state[p], x, EmptyMap))
    BY <1>2, <1>7 DEF Visit, Grows, Plain
  <2>2. SafeAt(state[p], a, l)
    BY <1>2, <2>1 DEF Holds, Visits
  <2>3. /\ HasCursor(state'[p], a, l) <=> HasCursor(state[p], a, l)
        /\ HasCursor(state[p], a, l) => state'[p][a][l] = state[p][a][l]
    BY <2>1, EnteredState
  <2> QED
    BY <1>1, <2>1, <2>2, <2>3, StandStill DEF SafeAt, Visits
<1>8. ASSUME NEW x \in Accounts, Refused(p, x)
      PROVE  SafeAt(state[p], a, l)' /\ ~ Visits(p, b)'
  <2>1. CASE Return(p)
    BY <1>5, <2>1
  <2>2. CASE UNCHANGED <<pc, state>>
    BY <1>2, <1>4, <1>8, <2>2 DEF Refused, Holds, Visits
  <2> QED
    BY <1>8, <2>1, <2>2 DEF Refused, run
<1>9. ASSUME NEW x \in Labels, LabelMissing(p, x)
      PROVE  SafeAt(state[p], a, l)' /\ ~ Visits(p, b)'
  BY <1>2, <1>4, <1>9 DEF LabelMissing, AtLabel, Holds, Visits
<1>10. CASE AccountDone(p)
  <2>1. pc[p] = "label" /\ pc'[p] = "account" /\ state' = state
    BY <1>2, <1>10 DEF AccountDone, Plain
  <2> QED
    BY <1>2, <1>4, <2>1 DEF Holds, Visits
<1>11. CASE Save(p) \/ Crash(p)
  BY <1>5, <1>11 DEF Save, Crash
<1>12. CASE Gives(p)
  <2>1. CASE Abandon(p)
    <3>1. /\ pc'[p] = "account" /\ state' = state
          /\ pc[p] = "fetch" /\ account[p] \in Gmail => Box(p) \in suspect'
      BY <1>2, <2>1, Abandoned
    <3>2. SafeAt(state[p], a, l)
      BY <1>2, <3>1 DEF Holds, Visits, Box
    <3> QED
      BY <1>4, <3>1, <3>2 DEF Visits
  <2> QED
    BY <1>2, <1>5, <1>12, <2>1, GivenUp
<1> QED
  BY <1>6, <1>7, <1>8, <1>9, <1>10, <1>11, <1>12

\* The steps of the processes.
LEMMA SoundActs ==
    ASSUME Typed, Sound, NEW p \in Procs, Acts(p)
    PROVE  Sound'
<1> SUFFICES ASSUME NEW a \in Accounts, NEW l \in Labels, <<a, l>> \notin suspect'
             PROVE  SafeAt(disk, a, l)' /\ \A q \in Procs : Holds(q, a, l)'
  BY DEF Sound
<1> DEFINE b == <<a, l>>
<1>1. /\ log' = log /\ b \notin suspect /\ Delivered(b) \subseteq Delivered(b)'
      /\ \A q \in Procs : q # p => Same(q)
  BY ActsAlone, DeliveredGrows DEF Typed, server
<1>2. SafeAt(disk, a, l)'
  <2>1. CASE Save(p)
    BY <1>1, <2>1, SoundSave
  <2>2. CASE disk' = disk
    BY <1>1, <2>2, StandStill DEF SafeAt, Sound
  <2>3. \A x \in Labels : Opens(p, x) => disk' = disk
    BY OpenedLabel DEF files
  <2>4. Save(p) \/ disk' = disk
    BY <2>3, GivenUp DEF Acts, Typed, Begins, Begin, Visit, Refused, LabelMissing, AtLabel, Fetch,
                         AccountDone, Crash, files
  <2> QED
    BY <2>1, <2>2, <2>4
<1>3. ASSUME NEW q \in Procs, q # p PROVE Holds(q, a, l)'
  <2>1. Same(q) /\ Holds(q, a, l)
    BY <1>1, <1>3 DEF Sound
  <2>2. Visits(q, b)' <=> Visits(q, b)
    BY <2>1 DEF Same, Visits
  <2>3. SafeAt(state[q], a, l) => SafeAt(state[q], a, l)'
    BY <1>1, <2>1, StandStill DEF Same, SafeAt
  <2>4. Listed(q, b) => Listed(q, b)'
    BY <1>1, <2>1, StandStill DEF Same
  <2> QED
    BY <2>1, <2>2, <2>3, <2>4 DEF Holds
<1>4. Holds(p, a, l)'
  BY <1>1, SoundOpens, SoundFetch, SoundElse DEF Acts
<1> QED
  BY <1>2, <1>3, <1>4

\* What the step leaves alone does not change what is sound.
LEMMA SoundFrame ==
    ASSUME Sound, UNCHANGED <<server, files, run, state, place, history>>
    PROVE  Sound'
<1>1. UNCHANGED <<log, gone, merged, reaped, disk, state, pc, account, label, uids, cursor, suspect>>
  BY DEF server, files, place, history
<1>2. \A b : Delivered(b)' = Delivered(b)
  BY <1>1 DEF Delivered
<1>3. \A b, n : Safe(b, n) => Safe(b, n)'
  BY <1>1, <1>2 DEF Safe
<1>4. /\ \A a, l : SafeAt(disk, a, l) => SafeAt(disk, a, l)'
      /\ \A p, a, l : SafeAt(state[p], a, l) => SafeAt(state[p], a, l)'
  BY <1>1, <1>3 DEF SafeAt
<1>5. ASSUME NEW p, NEW a, NEW l, Holds(p, a, l) PROVE Holds(p, a, l)'
  <2>. DEFINE b == <<a, l>>
  <2>1. /\ Listed(p, b) => Listed(p, b)'
        /\ Visits(p, b)' <=> Visits(p, b)
    BY <1>1, <1>2 DEF Listed, Visits
  <2>2. SafeAt(state[p], a, l) => SafeAt(state[p], a, l)'
    BY <1>4
  <2> QED
    BY <1>5, <2>1, <2>2 DEF Holds
<1> QED
  BY <1>1, <1>4, <1>5 DEF Sound

LEMMA SoundInit == Init => Sound
BY DEF Init, Sound, Holds, SafeAt, HasCursor, Visits, EmptyMap

LEMMA SoundStep == Typed /\ Sound /\ [Next]_vars => Sound'
<1> SUFFICES ASSUME Typed, Sound, [Next]_vars PROVE Sound'
  OBVIOUS
<1>1. CASE Server
  BY <1>1, ServerSteps, SoundServer DEF Typed
<1>2. CASE Shutdown \/ Restart \/ UNCHANGED vars
  BY <1>2, SoundFrame DEF Shutdown, Restart, vars
<1>3. ASSUME NEW p \in Procs, Acts(p) PROVE Sound'
  BY <1>3, SoundActs
<1> QED
  BY <1>1, <1>2, <1>3, NextIsActs

LEMMA SoundSkipsNothing ==
    ASSUME Typed, Sound
    PROVE  NothingSkipped
<1> SUFFICES ASSUME NEW b \in LabelsOf(disk), b \notin suspect
             PROVE  Passed(b, disk[b[1]][b[2]].last) \subseteq Delivered(b)
  BY DEF NothingSkipped
<1>1. b = <<b[1], b[2]>> /\ HasCursor(disk, b[1], b[2]) /\ b \in Boxes
  BY LabelsAreCursors DEF Typed, Shaped
<1>2. SafeAt(disk, b[1], b[2])
  BY <1>1 DEF Sound, Boxes
<1> QED
  BY <1>1, <1>2 DEF SafeAt, Safe, Passed

\* No stored cursor ever stands beyond a mail that has not reached its conversation file:
\* however many `corky sync' and the watch interleave, whatever fails, and whenever a
\* process is killed, for every mailbox that is not suspect.
THEOREM NothingIsSkipped == Spec => []NothingSkipped
BY SoundSkipsNothing, TypedInit, TypedStep, SoundInit, SoundStep, PTL DEF Spec

-----------------------------------------------------------------------------
(* No save moves an IMAP cursor back *)

\* The cursor that p holds for an IMAP label is not behind the one it started from.
Ahead(p, a, l) ==
    a \notin Gmail /\ HasCursor(base[p], a, l) =>
        /\ HasCursor(state[p], a, l)
        /\ base[p][a][l].last \in Nat /\ state[p][a][l].last >= base[p][a][l].last

\* The pass of p over an IMAP label is not behind the cursor that p holds for it.
Onward(p) == pc[p] = "fetch" /\ account[p] \notin Gmail => cursor[p] >= LastOf(p, label[p])

Forward == \A p \in Procs : Onward(p) /\ \A a \in Accounts, l \in Labels : Ahead(p, a, l)

\* Setting a cursor to where it stood, or further, keeps p ahead.
LEMMA SetCursorForward ==
    ASSUME Typed, NEW p \in Procs, NEW k \in Labels, NEW n \in Nat, SetCursor(p, k, n),
           account[p] \in Accounts, account[p] \in DOMAIN state[p], base' = base,
           account[p] \in Gmail \/ n >= LastOf(p, k),
           NEW a \in Accounts, NEW l \in Labels, Ahead(p, a, l)
    PROVE  Ahead(p, a, l)'
<1> DEFINE c == [uidvalidity |-> uidvalidity[account[p], k], last |-> n]
<1>1. c \in Cursor /\ state'[p] = [state[p] EXCEPT ![account[p]] = Put(@, k, c)] /\ c.last = n
  BY CursorIsSet DEF Typed
<1>2. WellFormed(state[p])
  BY DEF Typed, Shaped
<1> HIDE DEF c
<1>3. CASE <<a, l>> # <<account[p], k>>
  <2>1. /\ HasCursor(state'[p], a, l) <=> HasCursor(state[p], a, l)
        /\ HasCursor(state[p], a, l) => state'[p][a][l] = state[p][a][l]
    BY <1>1, <1>3, UpdatedState
  <2> QED
    BY <2>1 DEF Ahead
<1>4. CASE <<a, l>> = <<account[p], k>>
  <2>1. HasCursor(state'[p], a, l) /\ state'[p][a][l].last = n
    BY <1>1, <1>4, UpdatedState
  <2>2. HasCursor(state[p], a, l) => LastOf(p, k) = state[p][a][l].last /\ LastOf(p, k) \in Nat
    BY <1>2, <1>4, LastIsNat
  <2> QED
    BY <1>4, <2>1, <2>2 DEF Ahead
<1> QED
  BY <1>3, <1>4

LEMMA ForwardOpens ==
    ASSUME Typed, Forward, NEW p \in Procs, NEW k \in Labels, Opens(p, k)
    PROVE  Onward(p)' /\ \A a \in Accounts, l \in Labels : Ahead(p, a, l)'
<1>1. /\ pc[p] = "label" /\ account[p] \in Accounts /\ account[p] \in DOMAIN state[p]
      /\ account' = account /\ base' = base
  BY OpenedLabel DEF run
<1>2. LastOf(p, k) \in Nat /\ Plain
  BY <1>1, LastIsNat DEF Typed, Shaped
<1>3. CASE account[p] \in Gmail
  <2>1. PICK n \in Nat : UNCHANGED state \/ SetCursor(p, k, n)
    BY OpenedLabel
  <2>2. CASE UNCHANGED state
    BY <1>1, <1>3, <2>2 DEF Forward, Ahead, Onward
  <2>3. CASE SetCursor(p, k, n)
    <3>1. \A a \in Accounts, l \in Labels : Ahead(p, a, l)'
      BY <1>1, <1>3, <2>3, SetCursorForward DEF Forward
    <3> QED
      BY <1>1, <1>3, <3>1 DEF Onward
  <2> QED
    BY <2>1, <2>2, <2>3
<1>4. CASE account[p] \notin Gmail
  <2>1. /\ Fetching(p, k, Search(p, k), LastOf(p, k))
        /\ IF Search(p, k) = {} THEN SetCursor(p, k, LastOf(p, k)) ELSE UNCHANGED state
    BY <1>4 DEF Opens, OpenImap, OpenGmail, ListGmail
  <2>2. CASE Search(p, k) = {}
    <3>1. SetCursor(p, k, LastOf(p, k)) /\ pc'[p] = "label"
      BY <1>1, <1>2, <2>1, <2>2, Listing
    <3>2. LastOf(p, k) >= LastOf(p, k)
      BY <1>2
    <3>3. \A a \in Accounts, l \in Labels : Ahead(p, a, l)'
      BY <1>1, <1>2, <3>1, <3>2, SetCursorForward DEF Forward
    <3> QED
      BY <3>1, <3>3 DEF Onward
  <2>3. CASE Search(p, k) # {}
    <3>1. state' = state /\ label'[p] = k /\ cursor'[p] = LastOf(p, k)
      BY <1>2, <2>1, <2>3, Listing
    <3>2. LastOf(p, k)' = LastOf(p, k)
      BY <1>1, <3>1 DEF LastOf
    <3> QED
      BY <1>1, <1>2, <3>1, <3>2 DEF Onward, Forward, Ahead, LastOf
  <2> QED
    BY <2>2, <2>3
<1> QED
  BY <1>3, <1>4

LEMMA ForwardFetch ==
    ASSUME Typed, Forward, NEW p \in Procs, NEW m \in Mails, Fetch(p, m)
    PROVE  Onward(p)' /\ \A a \in Accounts, l \in Labels : Ahead(p, a, l)'
<1>1. /\ pc[p] = "fetch" /\ label[p] \in Labels /\ cursor[p] \in Nat
      /\ account[p] \in Accounts /\ account[p] \in DOMAIN state[p]
  BY FetchedMail
<1>2. Reached(p, m) \in Nat /\ Reached(p, m) >= cursor[p]
  BY ReachedIsNat
<1>3. LastOf(p, label[p]) \in Nat /\ Plain /\ base' = base /\ account' = account
  BY <1>1, LastIsNat DEF Typed, Shaped, Fetch
<1>4. account[p] \in Gmail \/ Reached(p, m) >= LastOf(p, label[p])
  BY <1>1, <1>2, <1>3 DEF Forward, Onward
<1>5. CASE UNCHANGED <<state, pc, label>> /\ cursor'[p] = Reached(p, m)
  <2>1. LastOf(p, label[p])' = LastOf(p, label[p])
    BY <1>3, <1>5 DEF LastOf
  <2> QED
    BY <1>3, <1>4, <1>5, <2>1 DEF Forward, Ahead, Onward
<1>6. CASE SetCursor(p, label[p], Reached(p, m)) /\ pc'[p] = "label"
  <2>1. \A a \in Accounts, l \in Labels : Ahead(p, a, l)'
    BY <1>1, <1>2, <1>3, <1>4, <1>6, SetCursorForward DEF Forward
  <2> QED
    BY <1>6, <2>1 DEF Onward
<1> QED
  BY <1>3, <1>5, <1>6, FetchEnds DEF Plain

\* The steps of the processes.
LEMMA ForwardActs ==
    ASSUME Typed, Forward, NEW p \in Procs, Acts(p)
    PROVE  Forward'
<1>1. Grows /\ Plain /\ WellFormed(state[p]) /\ WellFormed(disk)
  BY DEF Typed, Shaped
<1>2. ASSUME NEW q \in Procs, q # p
      PROVE  Onward(q)' /\ \A a \in Accounts, l \in Labels : Ahead(q, a, l)'
  BY <1>1, <1>2, ActsAlone DEF Same, Forward, Onward, Ahead, LastOf
<1>3. SUFFICES Onward(p)' /\ \A a \in Accounts, l \in Labels : Ahead(p, a, l)'
  BY <1>2 DEF Forward
<1>4. ASSUME Return(p)
      PROVE  Onward(p)' /\ \A a \in Accounts, l \in Labels : Ahead(p, a, l)'
  <2>1. pc'[p] = "idle" /\ base'[p] = EmptyMap
    BY <1>1, <1>4 DEF Return, Grows, Plain
  <2> QED
    BY <2>1 DEF Onward, Ahead, HasCursor, EmptyMap
<1>5. ASSUME state'[p] = state[p], base' = base, pc'[p] # "fetch"
      PROVE  Onward(p)' /\ \A a \in Accounts, l \in Labels : Ahead(p, a, l)'
  BY <1>5 DEF Onward, Ahead, Forward
<1>6. CASE Begins(p)
  <2>1. /\ pc'[p] = "account" /\ base'[p] = state'[p]
        /\ state'[p] = EmptyMap \/ state'[p] = disk
    BY <1>1, <1>6 DEF Begins, Begin, Grows, Plain
  <2>2. WellFormed(state'[p])
    BY <1>1, <2>1, EmptyIsWellFormed
  <2>3. \A a, l : HasCursor(state'[p], a, l) => state'[p][a][l].last \in Nat
    BY <2>2 DEF WellFormed, HasCursor, Cursor
  <2> QED
    BY <2>1, <2>3 DEF Onward, Ahead
<1>7. ASSUME NEW x \in Accounts, Visit(p, x)
      PROVE  Onward(p)' /\ \A a \in Accounts, l \in Labels : Ahead(p, a, l)'
  <2>1. /\ pc'[p] = "label" /\ base' = base
        /\ state'[p] = Put(state[p], x, Get(state[p], x, EmptyMap))
    BY <1>1, <1>7 DEF Visit, Grows, Plain, run
  <2>2. \A a, l : /\ HasCursor(state'[p], a, l) <=> HasCursor(state[p], a, l)
                  /\ HasCursor(state[p], a, l) => state'[p][a][l] = state[p][a][l]
    BY <2>1, EnteredState
  <2> QED
    BY <2>1, <2>2 DEF Onward, Ahead, Forward
<1>8. ASSUME NEW x \in Accounts, Refused(p, x)
      PROVE  Onward(p)' /\ \A a \in Accounts, l \in Labels : Ahead(p, a, l)'
  BY <1>4, <1>5, <1>8 DEF Refused, run
<1>9. ASSUME NEW x \in Labels, LabelMissing(p, x)
      PROVE  Onward(p)' /\ \A a \in Accounts, l \in Labels : Ahead(p, a, l)'
  BY <1>5, <1>9 DEF LabelMissing, AtLabel, run
<1>10. CASE AccountDone(p)
  BY <1>1, <1>5, <1>10 DEF AccountDone, run, Plain
<1>11. CASE Save(p) \/ Crash(p)
  BY <1>4, <1>11 DEF Save, Crash
<1>12. CASE Gives(p)
  BY <1>1, <1>4, <1>5, <1>12, GivenUp, Abandoned
<1> QED
  BY <1>6, <1>7, <1>8, <1>9, <1>10, <1>11, <1>12, ForwardOpens, ForwardFetch DEF Acts

LEMMA ForwardInit == Init => Forward
BY DEF Init, Forward, Onward, Ahead, HasCursor, EmptyMap

LEMMA ForwardStep == Typed /\ Forward /\ [Next]_vars => Forward'
<1> SUFFICES ASSUME Typed, Forward, [Next]_vars PROVE Forward'
  OBVIOUS
<1>1. ASSUME UNCHANGED <<run, state, place>> PROVE Forward'
  BY <1>1 DEF Forward, Onward, Ahead, LastOf, run, place
<1>2. CASE Server
  BY <1>1, <1>2, ServerSteps DEF Typed, ServerStep, Outside
<1>3. CASE Shutdown \/ Restart \/ UNCHANGED vars
  BY <1>1, <1>3 DEF Shutdown, Restart, vars
<1>4. ASSUME NEW p \in Procs, Acts(p) PROVE Forward'
  BY <1>4, ForwardActs
<1> QED
  BY <1>2, <1>3, <1>4, NextIsActs

\* The file changes only when a process saves.
LEMMA OnlySaves ==
    ASSUME Typed, [Next]_vars
    PROVE  disk' = disk \/ \E p \in Procs : Save(p)
<1>1. CASE Server
  BY <1>1, ServerSteps DEF Typed, ServerStep, Outside, files
<1>2. CASE Shutdown \/ Restart \/ UNCHANGED vars
  BY <1>2 DEF Shutdown, Restart, vars, files
<1>3. ASSUME NEW p \in Procs, Acts(p) PROVE disk' = disk \/ Save(p)
  <2>1. \A x \in Labels : Opens(p, x) => disk' = disk
    BY OpenedLabel DEF files
  <2> QED
    BY <1>3, <2>1, GivenUp DEF Acts, Typed, Begins, Begin, Visit, Refused, LabelMissing, AtLabel,
                               Fetch, AccountDone, Crash, files
<1> QED
  BY <1>1, <1>2, <1>3, NextIsActs

\* What a save does to the cursor of one label.
LEMMA SaveAdvances ==
    ASSUME Typed, Forward, NEW p \in Procs, Save(p),
           NEW a \in Accounts, NEW l \in Labels, HasCursor(disk, a, l)
    PROVE  /\ HasCursor(disk', a, l)
           /\ a \notin Gmail /\ disk'[a][l].uidvalidity = disk[a][l].uidvalidity =>
                 disk'[a][l].last >= disk[a][l].last
<1> DEFINE m == MergeAccounts(base[p], disk, state[p])
           c == disk[a][l]
           u == state[p][a][l]
<1>1. disk' = m
  BY DEF Save, Saved
<1>2. Extends(disk, base[p]) /\ StateExtends(state[p], base[p])
  BY DEF Typed, Grows
<1>3. c \in Cursor /\ c.last \in Nat
  BY DEF Typed, Shaped, WellFormed, HasCursor, Cursor
<1> HIDE DEF m, c, u
<1>4. HasCursor(m, a, l)
  BY <1>2, MergedCursor DEF m
<1>5. CASE m[a][l] = c
  BY <1>1, <1>3, <1>4, <1>5 DEF c
<1>6. CASE m[a][l] = u /\ HasCursor(base[p], a, l) /\ base[p][a][l] = c
  <2>1. a \notin Gmail => u.last >= c.last
    BY <1>6 DEF Forward, Ahead, u
  <2> QED
    BY <1>1, <1>4, <1>6, <2>1 DEF c
<1>7. CASE HasCursor(state[p], a, l) /\ m[a][l] = NewerCursor(c, u)
  <2>1. u \in Cursor
    BY <1>7 DEF Typed, Shaped, WellFormed, HasCursor, u
  <2>2. m[a][l].uidvalidity = c.uidvalidity => m[a][l].last >= c.last
    BY <1>3, <1>7, <2>1, NewerIsEither
  <2> QED
    BY <1>1, <1>4, <2>2 DEF c
<1> QED
  BY <1>2, <1>4, <1>5, <1>6, <1>7, MergedCursor DEF m, c, u

LEMMA ForwardAdvances ==
    ASSUME Typed, Forward, [Next]_vars
    PROVE  [CursorsAdvance]_vars
<1> SUFFICES ASSUME NEW b \in LabelsOf(disk)
             PROVE  /\ b \in LabelsOf(disk')
                    /\ b[1] \notin Gmail
                       /\ disk'[b[1]][b[2]].uidvalidity = disk[b[1]][b[2]].uidvalidity =>
                          disk'[b[1]][b[2]].last >= disk[b[1]][b[2]].last
  BY DEF CursorsAdvance
<1>1. /\ b = <<b[1], b[2]>> /\ HasCursor(disk, b[1], b[2])
      /\ b \in Boxes /\ disk[b[1]][b[2]] \in Cursor
  BY LabelsAreCursors DEF Typed, Shaped
<1>2. b[1] \in Accounts /\ b[2] \in Labels /\ disk[b[1]][b[2]].last \in Nat
  BY <1>1 DEF Boxes, Cursor
<1>3. CASE disk' = disk
  BY <1>2, <1>3
<1>4. ASSUME NEW p \in Procs, Save(p)
      PROVE  /\ HasCursor(disk', b[1], b[2])
             /\ b[1] \notin Gmail
                /\ disk'[b[1]][b[2]].uidvalidity = disk[b[1]][b[2]].uidvalidity =>
                   disk'[b[1]][b[2]].last >= disk[b[1]][b[2]].last
  BY <1>1, <1>2, <1>4, SaveAdvances
<1>5. HasCursor(disk', b[1], b[2]) => b \in LabelsOf(disk')
  BY <1>1, LabelsAreCursors
<1> QED
  BY <1>3, <1>4, <1>5, OnlySaves

\* No step drops the cursor of a label, and none moves that of an IMAP label back under
\* the same UIDVALIDITY: not a save of a run that loaded the file long ago, nor that of a
\* full sync, which starts from an empty baseline.
THEOREM CursorsOnlyAdvance == Spec => CursorNeverRegresses
BY ForwardAdvances, TypedInit, TypedStep, ForwardInit, ForwardStep, PTL
DEF Spec, CursorNeverRegresses

-----------------------------------------------------------------------------
(* An account in which `corky sync' was killed is synced in full *)

\* The run log knows the accounts in which a run was killed and those in which one is
\* under way, and a run that is under way knows the former.
InFlight ==
    /\ \A a \in crashed : runs[a] = "fetching"
    /\ \A p \in Cli :
          /\ pc[p] \in {"label", "fetch"} => account[p] \notin crashed /\ runs[account[p]] = "fetching"
          /\ pc[p] # "idle" => full[p] \/ crashed \subseteq resume[p]

\* The steps of the watch leave the run log alone.
LEMMA InFlightWatch ==
    ASSUME Typed, InFlight, Acts(Watch)
    PROVE  InFlight'
<1>1. Watch \in Procs /\ Watch \notin Cli /\ Plain /\ Grows
  BY SyncAssumption DEF Procs, Typed
<1>2. runs' = runs /\ crashed' = crashed
  <2>1. \A l \in Labels : Opens(Watch, l) => runs' = runs /\ crashed' = crashed
    BY <1>1, OpenedLabel DEF files, history
  <2>2. \A l \in Labels : LabelMissing(Watch, l) => runs' = runs /\ crashed' = crashed
    BY DEF LabelMissing, AtLabel, files, history
  <2>3. Gives(Watch) => runs' = runs /\ crashed' = crashed
    BY <1>1 DEF Gives, Fails, Interrupted, Record, files
  <2>4. Begins(Watch) \/ Save(Watch) \/ Crash(Watch) \/ AccountDone(Watch)
            => runs' = runs /\ crashed' = crashed
    BY <1>1 DEF Begins, Begin, Save, Crash, AccountDone, Record, files, history
  <2>5. \A a \in Accounts : Visit(Watch, a) \/ Refused(Watch, a) => runs' = runs /\ crashed' = crashed
    BY <1>1 DEF Visit, Refused, Record, history
  <2>6. \A m \in Mails : Fetch(Watch, m) => runs' = runs /\ crashed' = crashed
    BY DEF Fetch, history
  <2> QED
    BY <2>1, <2>2, <2>3, <2>4, <2>5, <2>6 DEF Acts
<1>3. \A p \in Cli : p # Watch /\ p \in Procs /\ Same(p)
  BY <1>1, ActsAlone DEF Procs
<1> QED
  BY <1>2, <1>3 DEF InFlight, Same

\* The steps of the only `corky sync'.
LEMMA InFlightCli ==
    ASSUME \A p, q \in Cli : p = q, Typed, InFlight, NEW p \in Cli, Acts(p)
    PROVE  InFlight'
<1>1. p \in Procs /\ p # Watch /\ Plain /\ Grows
  BY SyncAssumption DEF Procs, Typed
<1> DEFINE Known ==
             /\ \A a \in crashed' : runs'[a] = "fetching"
             /\ pc'[p] \in {"label", "fetch"} =>
                   account'[p] \notin crashed' /\ runs'[account'[p]] = "fetching"
             /\ pc'[p] # "idle" => full'[p] \/ crashed' \subseteq resume'[p]
<1>2. SUFFICES Known
  BY DEF InFlight
<1>3. /\ \A a \in crashed : runs[a] = "fetching"
      /\ pc[p] \in {"label", "fetch"} => /\ account[p] \notin crashed
                                         /\ account[p] \in Accounts /\ runs[account[p]] = "fetching"
      /\ pc[p] # "idle" => full[p] \/ crashed \subseteq resume[p]
      /\ crashed \subseteq Accounts
  BY <1>1 DEF InFlight, Typed, Plain, Placed
<1> USE DEF Plain, Grows
<1>4. CASE Begins(p)
  <2>1. PICK interrupted \in SUBSET Accounts :
            /\ interrupted = InterruptedAccounts(runs)
            /\ pc'[p] = "account" /\ resume'[p] = interrupted
            /\ UNCHANGED <<runs, crashed>>
    BY <1>1, <1>4 DEF Begins, Begin, files, history
  <2>2. crashed \subseteq interrupted
    BY <1>3, <2>1 DEF InterruptedAccounts
  <2> QED
    BY <1>3, <2>1, <2>2
<1>5. ASSUME NEW a \in Accounts, Visit(p, a)
      PROVE  Known
  <2>1. /\ pc[p] = "account" /\ pc'[p] = "label" /\ account'[p] = a
        /\ runs' = [runs EXCEPT ![a] = "fetching"] /\ crashed' = crashed \ {a}
        /\ UNCHANGED <<full, resume>>
    BY <1>1, <1>5 DEF Visit, Record, Transition, run
  <2>2. runs'[a] = "fetching" /\ \A x \in Accounts \ {a} : runs'[x] = runs[x]
    BY <1>1, <2>1
  <2>3. \A x \in crashed' : runs'[x] = "fetching"
    BY <1>3, <2>1, <2>2
  <2>4. full'[p] \/ crashed' \subseteq resume'[p]
    <3>1. pc[p] # "idle" /\ crashed' \subseteq crashed
      BY <2>1
    <3> QED
      BY <1>3, <2>1, <3>1
  <2> QED
    BY <2>1, <2>2, <2>3, <2>4
<1>6. ASSUME NEW a \in Accounts, Refused(p, a)
      PROVE  Known
  <2>1. /\ runs' = [runs EXCEPT ![a] = IF a \in Gmail THEN "error" ELSE "fetching"]
        /\ crashed' = IF a \in Gmail THEN crashed \ {a} ELSE crashed
        /\ Return(p)
    BY <1>6 DEF Refused
  <2>2. pc'[p] = "idle"
    BY <1>1, <2>1, Returned
  <2> QED
    BY <1>3, <2>1, <2>2
<1>7. ASSUME pc[p] \in {"label", "fetch"}, UNCHANGED <<runs, crashed, full, resume, account>>
      PROVE  Known
  BY <1>3, <1>7
<1>8. ASSUME NEW l \in Labels, Opens(p, l) \/ LabelMissing(p, l)
      PROVE  Known
  BY <1>1, <1>7, <1>8, OpenedLabel DEF LabelMissing, AtLabel, files, run, history
<1>9. ASSUME NEW m \in Mails, Fetch(p, m)
      PROVE  Known
  BY <1>7, <1>9 DEF Fetch, history
<1>10. ASSUME NEW e \in {"complete", "fail"}, Record(p, account[p], e),
              crashed' = crashed, pc[p] \in {"label", "fetch"}
       PROVE  \A a \in crashed' : runs'[a] = "fetching"
  <2>1. \A a \in crashed : a # account[p]
    BY <1>3, <1>10
  <2> QED
    BY <1>3, <1>10, <2>1 DEF Record
<1>11. CASE AccountDone(p)
  <2>1. /\ pc[p] = "label" /\ pc'[p] = "account" /\ Record(p, account[p], "complete")
        /\ UNCHANGED <<crashed, full, resume>>
    BY <1>1, <1>11 DEF AccountDone, run
  <2> QED
    BY <1>3, <1>10, <2>1
<1>12. CASE Save(p)
  BY <1>1, <1>2, <1>3, <1>12, Returned DEF Save
<1>13. CASE Gives(p)
  <2>1. Fails(p)
    BY <1>1, <1>13 DEF Gives
  <2>2. /\ pc[p] \in {"label", "fetch"} /\ Record(p, account[p], "fail")
        /\ Return(p) /\ crashed' = crashed
    BY <2>1 DEF Fails
  <2>3. pc'[p] = "idle"
    BY <1>1, <2>2, Returned
  <2> QED
    BY <1>10, <2>2, <2>3
<1>14. CASE Crash(p)
  <2>1. pc'[p] = "idle" /\ runs' = runs
    BY <1>1, <1>14, Returned DEF Crash, files
  <2>2. \A a \in crashed' : a \in crashed \/ (pc[p] \in {"label", "fetch"} /\ a = account[p])
    BY <1>14 DEF Crash
  <2> QED
    BY <1>3, <2>1, <2>2
<1> QED
  BY <1>4, <1>5, <1>6, <1>8, <1>9, <1>11, <1>12, <1>13, <1>14 DEF Acts

LEMMA InFlightInit == Init => InFlight
BY SyncAssumption DEF Init, InFlight, Procs

\* The steps, while at most one `corky sync' runs at a time.
LEMMA InFlightStep ==
    ASSUME \A p, q \in Cli : p = q, Typed, InFlight, [Next]_vars
    PROVE  InFlight'
<1>1. ASSUME UNCHANGED <<files, run, place, crashed>> PROVE InFlight'
  BY <1>1 DEF InFlight, files, run, place
<1>2. CASE Server
  BY <1>1, <1>2, ServerSteps DEF Typed, ServerStep, Outside
<1>3. CASE Shutdown \/ Restart \/ UNCHANGED vars
  BY <1>1, <1>3 DEF Shutdown, Restart, vars, history
<1>4. ASSUME NEW p \in Procs, Acts(p) PROVE InFlight'
  BY <1>4, InFlightWatch, InFlightCli DEF Procs
<1> QED
  BY <1>2, <1>3, <1>4, NextIsActs

\* `corky sync' enters an account by a Visit.
LEMMA EntersByVisit ==
    ASSUME Typed, NEW p \in Procs, [Next]_vars, pc[p] = "account", pc'[p] = "label"
    PROVE  UNCHANGED <<full, resume>>
<1>1. Plain
  BY DEF Typed
<1>2. ~ (Server \/ Shutdown \/ Restart \/ UNCHANGED vars)
  BY ServerSteps DEF Typed, ServerStep, Outside, Shutdown, Restart, vars, place
<1>3. PICK q \in Procs : Acts(q)
  BY <1>2, NextIsActs
<1>4. q = p
  BY <1>3, ActsAlone DEF Typed, Same
<1>5. PICK a \in Accounts : Visit(p, a)
  <2>1. \A l \in Labels : ~ Opens(p, l) /\ ~ LabelMissing(p, l)
    BY OpenedLabel DEF LabelMissing, AtLabel
  <2>2. \A m \in Mails : ~ Fetch(p, m)
    BY DEF Fetch
  <2>3. ~ Return(p)
    BY <1>1, Returned DEF Typed
  <2>4. \A a \in Accounts : ~ Refused(p, a)
    BY <2>3 DEF Refused
  <2>5. ~ (Begins(p) \/ AccountDone(p) \/ Save(p) \/ Gives(p) \/ Crash(p))
    BY <1>1, <2>3, GivenUp DEF Begins, Begin, AccountDone, Save, Crash
  <2> QED
    BY <1>3, <1>4, <2>1, <2>2, <2>4, <2>5 DEF Acts
<1> QED
  BY <1>5 DEF Visit, run

LEMMA InFlightIsResumed ==
    ASSUME Typed, InFlight, [Next]_vars
    PROVE  [EntersInFull]_vars
<1> SUFFICES ASSUME NEW p \in Cli, NEW a \in Accounts, pc[p] = "account", pc'[p] = "label",
                    account'[p] = a, a \in crashed
             PROVE  InFull(p)'
  BY DEF EntersInFull
<1>1. UNCHANGED <<full, resume>>
  BY EntersByVisit DEF Procs
<1>2. full[p] \/ crashed \subseteq resume[p]
  BY DEF InFlight
<1> QED
  BY <1>1, <1>2 DEF InFull

\* While at most one `corky sync' runs at a time, beside any watch: the first one to
\* enter an account after one was killed in it syncs it in full.
THEOREM CrashesAreResumed ==
    ASSUME \A p, q \in Cli : p = q
    PROVE  Spec => CrashedIsResumed
<1>1. Typed /\ InFlight /\ [Next]_vars => InFlight'
  BY InFlightStep
<1> QED
  BY <1>1, InFlightIsResumed, TypedInit, TypedStep, InFlightInit, PTL DEF Spec, CrashedIsResumed
=============================================================================
