---------------------------- MODULE ContentProofs ------------------------------
(***************************************************************************)
(* What the commands that handle contents do to them: the mails that are   *)
(* encoded, merged into conversations or imported, the video that is       *)
(* uploaded, spreadsheets and documents, the calendar, and the speakers of *)
(* a transcript.  Each part of Workspace has an inductive invariant of its *)
(* own.  Where an argument would go by induction over data, it goes by a   *)
(* least or a greatest element instead.                                    *)
(***************************************************************************)
EXTENDS Workspace, TextProofs

-----------------------------------------------------------------------------
(* Conversations: only the files of conversations/ matter, for nothing else is *)
(* read when a mail is merged there.                                           *)

ThreadIds == {NoId} \cup UNION {{ThreadKeys[i][m] : m \in Letters} : i \in Conv!Providers}
Threads == [id : ThreadIds, aliases : SUBSET ThreadIds, mails : SUBSET Letters,
            labels : SUBSET Conv!Labels, first : {NoId} \cup Conv!Providers]
LetterItems == [provider : Conv!Providers, mail : Letters, label : Conv!Labels, dir : Conv!Dirs]

KeysOf(t) == ({t.id} \cup t.aliases) \ {NoId}

ConvTyped ==
    /\ s1 \in [Conv!Dirs -> [Conv!Names -> Threads]]
    /\ s2 \subseteq LetterItems
    /\ s3 \subseteq {r \in Conv!Labels \X Conv!Dirs : r[2] \in Routing[r[1]]}
    /\ s4 \subseteq Letters /\ s5 \subseteq Letters

\* A file that is there has an id, no two claim one key, and what was merged is in one.
ConvInv ==
    /\ ConvTyped
    /\ \A n \in Conv!Names : s1[Conv!Main][n] = Conv!Absent \/ s1[Conv!Main][n].id # NoId
    /\ \A n, o \in Conv!Names : KeysOf(s1[Conv!Main][n]) \cap KeysOf(s1[Conv!Main][o]) # {} => n = o
    /\ \A m \in s5 \ s6 : LetterId[m] # NoId => \E n \in Conv!Names : m \in s1[Conv!Main][n].mails

LEMMA ConvMoves ==
    ASSUME part = "conversations", [WorkspaceNext]_wsVars
    PROVE  part' = part /\ (Conv!Next \/ UNCHANGED <<s1, s2, s3, s4, s5, s6, s7, s8>>)
BY DEF WorkspaceNext, wsVars, registers

LEMMA ConvStarts == WorkspaceInit /\ part = "conversations" => ConvInv
<1> SUFFICES ASSUME WorkspaceInit, part = "conversations" PROVE ConvInv
  OBVIOUS
<1>1. Conv!Init
  BY DEF WorkspaceInit, PartInit
<1>2. Conv!Absent \in Threads /\ KeysOf(Conv!Absent) = {} /\ Conv!Main \in Conv!Dirs
  BY DEF Conv!Absent, Threads, ThreadIds, KeysOf, Conv!Dirs
<1>3. s1 = [d \in Conv!Dirs |-> [n \in Conv!Names |-> Conv!Absent]]
  BY <1>1 DEF Conv!Init
<1>4. ConvTyped
  BY <1>1, <1>2, <1>3 DEF Conv!Init, ConvTyped
<1>5. \A n \in Conv!Names : s1[Conv!Main][n] = Conv!Absent
  BY <1>2, <1>3
<1> QED BY <1>1, <1>2, <1>4, <1>5 DEF Conv!Init, ConvInv

\* Not every name is taken: the ids are those of the mails' keys, two of each.
LEMMA NameIsFree ==
    ASSUME ConvInv
    PROVE  Conv!UniqueSlug(Conv!Main) \in Conv!Names
           /\ s1[Conv!Main][Conv!UniqueSlug(Conv!Main)] = Conv!Absent
<1> DEFINE free == {n \in Conv!Names : s1[Conv!Main][n] = Conv!Absent}
           K(i) == {ThreadKeys[i][m] : m \in Letters}
           f == [n \in Conv!Names |-> s1[Conv!Main][n].id]
<1>0. Conv!Cardinality(Letters) = Cardinality(Letters)
  BY DEF Conv!Cardinality, Cardinality
<1>1. Cardinality(Letters) \in Nat /\ Conv!Names = 1..(2 * Cardinality(Letters) + 1)
  BY <1>0, FS_CardinalityType, LetterAssumption DEF Conv!Names
<1>2. \A i : IsFiniteSet(K(i)) /\ Cardinality(K(i)) <= Cardinality(Letters)
  <2> SUFFICES ASSUME NEW i PROVE IsFiniteSet(K(i)) /\ Cardinality(K(i)) <= Cardinality(Letters)
    OBVIOUS
  <2> DEFINE g == [m \in Letters |-> ThreadKeys[i][m]]
  <2>1. g \in [Letters -> K(i)] /\ \A k \in K(i) : \E m \in Letters : g[m] = k
    OBVIOUS
  <2> HIDE DEF g
  <2>2. g \in Surjection(Letters, K(i))
    BY <2>1 DEF Surjection
  <2> QED BY <2>2, FS_Surjection, LetterAssumption DEF ExistsSurjection
<1>3. ASSUME free = {} PROVE FALSE
  <2> DEFINE A == K("imap") \cup K("gmail")
  <2>1. IsFiniteSet(A) /\ Cardinality(A) <= 2 * Cardinality(Letters)
    <3>1. /\ Cardinality(K("imap")) \in Nat /\ Cardinality(K("gmail")) \in Nat
          /\ Cardinality(K("imap") \cap K("gmail")) \in Nat
      BY <1>2, FS_Intersection, FS_CardinalityType
    <3>2. IsFiniteSet(A)
          /\ Cardinality(A) = Cardinality(K("imap")) + Cardinality(K("gmail"))
                                - Cardinality(K("imap") \cap K("gmail"))
      BY <1>2, FS_Union
    <3> HIDE DEF A, K
    <3> QED BY <1>1, <1>2, <3>1, <3>2
  <2>2. f \in [Conv!Names -> A]
    <3> SUFFICES ASSUME NEW n \in Conv!Names PROVE s1[Conv!Main][n].id \in A
      OBVIOUS
    <3>1. s1[Conv!Main][n].id \in ThreadIds /\ s1[Conv!Main][n].id # NoId
      BY <1>3 DEF ConvInv, ConvTyped, Threads, Conv!Dirs
    <3> QED BY <3>1 DEF ThreadIds, Conv!Providers
  <2>3. IsFiniteSet(Conv!Names) /\ Cardinality(Conv!Names) = 2 * Cardinality(Letters) + 1
    BY <1>1, FS_Interval
  <2>4. Cardinality(A) < Cardinality(Conv!Names)
    <3> HIDE DEF A
    <3> QED BY <1>1, <2>1, <2>3, FS_CardinalityType
  <2>5. \E n, o \in Conv!Names : n # o /\ f[n] = f[o]
    <3> HIDE DEF A, f
    <3> QED BY <2>1, <2>2, <2>3, <2>4, FS_PigeonHole
  <2>6. \A n \in Conv!Names : s1[Conv!Main][n].id \in KeysOf(s1[Conv!Main][n])
    BY <1>3 DEF ConvInv, KeysOf
  <2> QED BY <2>5, <2>6 DEF ConvInv
<1>4. free \in SUBSET Nat
  BY <1>1
<1>5. Conv!UniqueSlug(Conv!Main) = Conv!Min(free)
  BY DEF Conv!UniqueSlug, Conv!Exists
<1>6. Conv!Min(free) \in free
  <2> HIDE DEF free
  <2> QED BY <1>3, <1>4, Least DEF Conv!Min
<1> QED BY <1>5, <1>6

\* What a merge makes of the file it finds, or of a new one.
LEMMA MergeTyped ==
    ASSUME NEW item \in LetterItems, NEW t \in Threads
    PROVE  LET k == ThreadKeys[item.provider][item.mail]
               new == Conv!Merged(t, item)
               old == IF t = Conv!Absent THEN {k} ELSE {t.id}
           IN /\ new \in Threads /\ new.id \in old /\ new.aliases \subseteq t.aliases \cup {k}
              /\ new.mails = IF Conv!DedupKey(item.mail) \in {Conv!DedupKey(x) : x \in t.mails}
                             THEN t.mails ELSE t.mails \cup {item.mail}
<1> DEFINE k == ThreadKeys[item.provider][item.mail]
           new == Conv!Merged(t, item)
           known == IF t = Conv!Absent THEN [Conv!Absent EXCEPT !.id = k, !.first = item.provider] ELSE t
<1>1. /\ item.provider \in Conv!Providers /\ item.mail \in Letters /\ item.label \in Conv!Labels
      /\ k \in ThreadIds
  BY DEF LetterItems, ThreadIds
<1>2. /\ known \in Threads /\ known.mails = t.mails /\ known.aliases = t.aliases
      /\ known.id = IF t = Conv!Absent THEN k ELSE t.id
  BY <1>1 DEF Conv!Absent, Threads
<1>3. new = [known EXCEPT
        !.aliases = IF known.id = k THEN known.aliases ELSE known.aliases \cup {k},
        !.labels = known.labels \cup {item.label},
        !.mails = IF Conv!DedupKey(item.mail) \in {Conv!DedupKey(x) : x \in known.mails}
                  THEN known.mails ELSE known.mails \cup {item.mail}]
  BY DEF Conv!Merged
<1> HIDE DEF known, new, k
<1>4. /\ new \in Threads /\ new.id = known.id /\ new.aliases \subseteq known.aliases \cup {k}
      /\ new.mails = IF Conv!DedupKey(item.mail) \in {Conv!DedupKey(x) : x \in known.mails}
                     THEN known.mails ELSE known.mails \cup {item.mail}
  BY <1>1, <1>2, <1>3 DEF Threads
<1>5. new.id \in IF t = Conv!Absent THEN {k} ELSE {t.id}
  BY <1>2, <1>4
<1> QED BY <1>2, <1>4, <1>5 DEF new, k

\* A merge into one file adds the key of the mail to it, which no other file claims.
LEMMA MergeKeeps ==
    ASSUME ConvInv, NEW item \in LetterItems, item.dir = Conv!Main, NEW n \in Conv!Names,
           LET k == ThreadKeys[item.provider][item.mail]
           IN k \in KeysOf(s1[Conv!Main][n]) \/ \A o \in Conv!Names : k \notin KeysOf(s1[Conv!Main][o]),
           s1' = [s1 EXCEPT ![Conv!Main][n] = Conv!Merged(@, item)],
           s2' \subseteq s2, s3' = s3, s4' = s4, s5' = s5 \cup {item.mail}, s6' = s6
    PROVE  ConvInv'
<1> DEFINE k == ThreadKeys[item.provider][item.mail]
           t == s1[Conv!Main][n]
           new == Conv!Merged(t, item)
<1>1. /\ item.mail \in Letters /\ k # NoId /\ t \in Threads /\ Conv!Main \in Conv!Dirs
  BY LetterAssumption DEF LetterItems, Conv!Providers, ConvInv, ConvTyped, Conv!Dirs
<1>2. /\ new \in Threads /\ new.id \in (IF t = Conv!Absent THEN {k} ELSE {t.id})
      /\ new.aliases \subseteq t.aliases \cup {k}
  BY <1>1, MergeTyped
<1>3. new.mails = IF Conv!DedupKey(item.mail) \in {Conv!DedupKey(x) : x \in t.mails}
                  THEN t.mails ELSE t.mails \cup {item.mail}
  BY <1>1, MergeTyped
<1>4. new.id # NoId /\ KeysOf(new) \subseteq KeysOf(t) \cup {k} /\ t.mails \subseteq new.mails
  <2> HIDE DEF k, new, t
  <2>1. t = Conv!Absent \/ t.id # NoId
    BY DEF t, ConvInv
  <2> QED BY <1>1, <1>2, <1>3, <2>1 DEF KeysOf
<1>5. LetterId[item.mail] # NoId => item.mail \in new.mails
  <2> SUFFICES ASSUME LetterId[item.mail] # NoId, NEW x \in t.mails,
                      Conv!DedupKey(item.mail) = Conv!DedupKey(x)
               PROVE  item.mail = x
    BY <1>3
  <2>1. LetterId[x] # NoId /\ LetterId[x] = LetterId[item.mail]
    BY DEF Conv!DedupKey
  <2>2. x \in Letters
    BY <1>1 DEF Threads
  <2> QED BY <1>1, <2>1, <2>2, LetterAssumption
<1> HIDE DEF new
<1>6. /\ s1' \in [Conv!Dirs -> [Conv!Names -> Threads]] /\ s1'[Conv!Main][n] = new
      /\ \A o \in Conv!Names \ {n} : s1'[Conv!Main][o] = s1[Conv!Main][o]
  BY <1>1, <1>2 DEF ConvInv, ConvTyped, new
<1>7. ConvTyped'
  BY <1>1, <1>6 DEF ConvInv, ConvTyped
<1>8. \A o \in Conv!Names : s1'[Conv!Main][o] = Conv!Absent \/ s1'[Conv!Main][o].id # NoId
  BY <1>4, <1>6 DEF ConvInv
<1>9. ASSUME NEW o \in Conv!Names \ {n} PROVE KeysOf(s1'[Conv!Main][o]) \cap KeysOf(s1'[Conv!Main][n]) = {}
  <2>1. KeysOf(s1[Conv!Main][o]) \cap KeysOf(t) = {}
    BY DEF ConvInv
  <2>2. k \notin KeysOf(s1[Conv!Main][o])
    BY <2>1
  <2> QED BY <1>4, <1>6, <2>1, <2>2
<1>10. \A a, o \in Conv!Names : KeysOf(s1'[Conv!Main][a]) \cap KeysOf(s1'[Conv!Main][o]) # {} => a = o
  BY <1>6, <1>9 DEF ConvInv
<1>11. \A m \in s5' \ s6' : LetterId[m] # NoId => \E o \in Conv!Names : m \in s1'[Conv!Main][o].mails
  BY <1>4, <1>5, <1>6 DEF ConvInv
<1> QED BY <1>7, <1>8, <1>10, <1>11 DEF ConvInv

\* What leaves conversations/ alone, or removes a file whose mails it counts as removed.
LEMMA OthersKeep ==
    ASSUME ConvInv, ConvTyped', \A n \in Conv!Names : s1'[Conv!Main][n] = s1[Conv!Main][n],
           s6 \subseteq s6', s5' = s5
    PROVE  ConvInv'
BY DEF ConvInv

LEMMA RemovalKeeps ==
    ASSUME ConvInv, ConvTyped', NEW n \in Conv!Names, s1'[Conv!Main][n] = Conv!Absent,
           \A o \in Conv!Names \ {n} : s1'[Conv!Main][o] = s1[Conv!Main][o],
           s6' = s6 \cup s1[Conv!Main][n].mails, s5' = s5
    PROVE  ConvInv'
<1>1. KeysOf(Conv!Absent) = {}
  BY DEF KeysOf, Conv!Absent
<1> QED BY <1>1 DEF ConvInv

LEMMA ConvStep ==
    ASSUME ConvInv, Conv!Next \/ UNCHANGED <<s1, s2, s3, s4, s5, s6, s7, s8>>
    PROVE  ConvInv'
<1>0. /\ s1 \in [Conv!Dirs -> [Conv!Names -> Threads]] /\ s2 \subseteq LetterItems
      /\ s3 \subseteq {r \in Conv!Labels \X Conv!Dirs : r[2] \in Routing[r[1]]}
      /\ s4 \subseteq Letters /\ s5 \subseteq Letters /\ Conv!Absent \in Threads
      /\ Conv!Main \in Conv!Dirs /\ 0 \notin Conv!Names
  <2>1. Conv!Absent \in Threads /\ Conv!Main \in Conv!Dirs
    BY DEF Conv!Absent, Threads, ThreadIds, Conv!Dirs
  <2>2. Conv!Cardinality(Letters) = Cardinality(Letters)
    BY DEF Conv!Cardinality, Cardinality
  <2>3. 0 \notin Conv!Names
    BY <2>2, FS_CardinalityType, LetterAssumption DEF Conv!Names
  <2> QED BY <2>1, <2>3 DEF ConvInv, ConvTyped
<1>1. ASSUME NEW from \in Conv!Providers, NEW m \in Letters, NEW l \in Conv!Labels,
             Conv!Fetch(from, m, l)
      PROVE  ConvInv'
  <2>1. /\ s2' = Conv!Items(from, m, l) /\ UNCHANGED <<s1, s3, s4, s5, s6>>
    BY <1>1 DEF Conv!Fetch
  <2>2. Conv!Items(from, m, l) \subseteq LetterItems
    <3>1. \A o \in Conv!Labels : Routing[o] \subseteq Conv!Dirs
      BY DEF Conv!Dirs
    <3>2. LetterLabels[m] \subseteq Conv!Labels
      BY LetterAssumption DEF Conv!Labels
    <3>3. \A o \in Conv!Labels, d \in Conv!Dirs : Conv!Item(from, m, o, d) \in LetterItems
      BY DEF Conv!Item, LetterItems
    <3> QED BY <1>0, <3>1, <3>2, <3>3 DEF Conv!Items
  <2>3. ConvTyped'
    BY <1>0, <2>1, <2>2 DEF ConvTyped
  <2> QED BY <2>1, <2>3, OthersKeep
<1>2. ASSUME NEW item \in s2, Conv!Merge(item) PROVE ConvInv'
  <2> DEFINE k == ThreadKeys[item.provider][item.mail]
  <2>1. PICK n \in Conv!Candidates(item.dir, item.provider, item.mail) :
          s1' = [s1 EXCEPT ![item.dir][IF n = 0 THEN Conv!UniqueSlug(item.dir) ELSE n] = Conv!Merged(@, item)]
    BY <1>2 DEF Conv!Merge
  <2>2. /\ s2' = s2 \ {item} /\ s5' = (IF item.dir = Conv!Main THEN s5 \cup {item.mail} ELSE s5)
        /\ UNCHANGED <<s3, s4, s6>>
    BY <1>2 DEF Conv!Merge
  <2>3. item \in LetterItems
    BY <1>0
  <2>4. CASE item.dir = Conv!Main
    <3> DEFINE name == IF n = 0 THEN Conv!UniqueSlug(Conv!Main) ELSE n
    <3>1. /\ \A o : o \in Conv!FindThreadFile(Conv!Main, k) => o \in Conv!Names /\ k \in KeysOf(s1[Conv!Main][o])
          /\ \A o \in Conv!Names : k \in KeysOf(s1[Conv!Main][o]) => o \in Conv!FindThreadFile(Conv!Main, k)
      <4>1. k # NoId
        BY <2>3, LetterAssumption DEF LetterItems, Conv!Providers
      <4>2. KeysOf(Conv!Absent) = {}
        BY DEF KeysOf, Conv!Absent
      <4> HIDE DEF k
      <4> QED BY <4>1, <4>2 DEF Conv!FindThreadFile, Conv!Claims, KeysOf
    <3>2. name \in Conv!Names
      BY <2>1, <2>4, <3>1, NameIsFree DEF Conv!Candidates, Conv!FindByMessageId
    <3>3. k \in KeysOf(s1[Conv!Main][name]) \/ \A o \in Conv!Names : k \notin KeysOf(s1[Conv!Main][o])
      BY <1>0, <2>1, <2>4, <3>1 DEF Conv!Candidates
    <3>4. s1' = [s1 EXCEPT ![Conv!Main][name] = Conv!Merged(@, item)]
      BY <2>1, <2>4
    <3> HIDE DEF name
    <3> QED BY <2>2, <2>3, <2>4, <3>2, <3>3, <3>4, MergeKeeps
  <2>5. CASE item.dir # Conv!Main
    <3>1. \A t \in Threads : Conv!Merged(t, item) \in Threads
      BY <2>3, MergeTyped
    <3>2. s1' \in [Conv!Dirs -> [Conv!Names -> Threads]] /\ s1'[Conv!Main] = s1[Conv!Main]
      BY <1>0, <2>1, <2>5, <3>1
    <3>3. ConvTyped'
      BY <1>0, <2>2, <2>5, <3>2 DEF ConvTyped
    <3>4. s5' = s5 /\ s6' = s6
      BY <2>2, <2>5
    <3> QED BY <3>2, <3>3, <3>4, OthersKeep
  <2> QED BY <2>4, <2>5
<1>3. CASE Conv!Crash
  <2>1. s2' = {} /\ s3' = {} /\ s4' = {} /\ UNCHANGED <<s1, s5, s6>>
    BY <1>3 DEF Conv!Crash
  <2>2. ConvTyped'
    BY <1>0, <2>1 DEF ConvTyped
  <2> QED BY <2>1, <2>2, OthersKeep
<1>4. CASE Conv!RefetchDone
  <2>1. s4' = {} /\ UNCHANGED <<s1, s2, s3, s5, s6>>
    BY <1>4 DEF Conv!RefetchDone
  <2>2. ConvTyped'
    BY <1>0, <2>1 DEF ConvTyped
  <2> QED BY <2>1, <2>2, OthersKeep
<1>5. CASE Conv!RefreshRouted
  <2>1. PICK r \in s3 : LET l == r[1]
                            d == r[2]
                            found == {n \in Conv!Names : \E m \in s4 : Conv!Claims(s1[d][n], ThreadKeys["gmail"][m])}
                        IN /\ s1' = IF found = {} THEN s1 ELSE [s1 EXCEPT ![d] = Conv!Removed(d, found)]
                           /\ s2' = {Conv!Item("gmail", x, l, d) : x \in s4}
                           /\ s3' = s3 \ {r}
    BY <1>5 DEF Conv!RefreshRouted
  <2>2. UNCHANGED <<s4, s5, s6>>
    BY <1>5 DEF Conv!RefreshRouted
  <2>3. r[1] \in Conv!Labels /\ r[2] \in Conv!Dirs /\ r[2] # Conv!Main
    BY <1>0, LetterAssumption DEF Conv!Labels, Conv!Main
  <2>4. \A S : Conv!Removed(r[2], S) \in [Conv!Names -> Threads]
    BY <1>0, <2>3 DEF Conv!Removed
  <2>5. s1' \in [Conv!Dirs -> [Conv!Names -> Threads]] /\ s1'[Conv!Main] = s1[Conv!Main]
    BY <1>0, <2>1, <2>3, <2>4
  <2>6. s2' \subseteq LetterItems
    BY <1>0, <2>1, <2>3 DEF LetterItems, Conv!Item, Conv!Providers
  <2>7. ConvTyped'
    BY <1>0, <2>1, <2>2, <2>5, <2>6 DEF ConvTyped
  <2> QED BY <2>2, <2>5, <2>7, OthersKeep
<1>6. CASE Conv!Routes
  <2>1. /\ s1' = [d \in Conv!Dirs |-> [n \in Conv!Names |->
               IF d # Conv!Main /\ \E l \in s1[Conv!Main][n].labels : d \in Routing[l]
                  THEN s1[Conv!Main][n] ELSE s1[d][n]]]
        /\ UNCHANGED <<s2, s3, s4, s5, s6>>
    BY <1>6 DEF Conv!Routes
  <2>2. s1' \in [Conv!Dirs -> [Conv!Names -> Threads]]
    BY <1>0, <2>1
  <2>3. \A n \in Conv!Names : s1'[Conv!Main][n] = s1[Conv!Main][n]
    BY <1>0, <2>1
  <2>4. ConvTyped'
    BY <1>0, <2>1, <2>2 DEF ConvTyped
  <2> QED BY <2>1, <2>3, <2>4, OthersKeep
<1>7. ASSUME NEW m \in Letters, NEW selected \in BOOLEAN, Conv!Refetch(m, selected) PROVE ConvInv'
  <2> DEFINE k == ThreadKeys["gmail"][m]
             fetched == IF selected THEN {m} ELSE {x \in Letters : ThreadKeys["gmail"][x] = k}
             found == Conv!FindThreadFile(Conv!Main, k)
  <2>1. PICK n \in IF found = {} THEN {0} ELSE found :
          LET t == IF n = 0 THEN Conv!Absent ELSE s1[Conv!Main][n]
          IN /\ s1' = IF n = 0 THEN s1 ELSE [s1 EXCEPT ![Conv!Main][n] = Conv!Absent]
             /\ s6' = s6 \cup t.mails
             /\ s2' = {Conv!Item("gmail", x, Conv!FirstLabel(t.labels), Conv!Main) : x \in fetched}
             /\ s3' = {r \in t.labels \X Conv!Dirs : r[2] \in Routing[r[1]]}
             /\ s4' = fetched
    BY <1>7 DEF Conv!Refetch
  <2>2. s5' = s5
    BY <1>7 DEF Conv!Refetch
  <2> DEFINE t == IF n = 0 THEN Conv!Absent ELSE s1[Conv!Main][n]
  <2>3. n = 0 \/ n \in Conv!Names
    BY <2>1 DEF Conv!FindThreadFile
  <2>4. t \in Threads /\ fetched \subseteq Letters
    BY <1>0, <2>3
  <2>5. Conv!FirstLabel(t.labels) \in Conv!Labels
    BY <2>4, LetterAssumption DEF Conv!FirstLabel, Conv!Labels, Threads
  <2>6. s2' \subseteq LetterItems
    BY <1>0, <2>1, <2>4, <2>5 DEF LetterItems, Conv!Item, Conv!Providers
  <2>7. s3' \subseteq {r \in Conv!Labels \X Conv!Dirs : r[2] \in Routing[r[1]]}
    BY <2>1, <2>4 DEF Threads
  <2>8. s1' \in [Conv!Dirs -> [Conv!Names -> Threads]]
    BY <1>0, <2>1
  <2>9. ConvTyped'
    BY <1>0, <2>1, <2>2, <2>4, <2>6, <2>7, <2>8 DEF ConvTyped
  <2>10. CASE n = 0
    BY <2>1, <2>2, <2>9, <2>10, OthersKeep
  <2>11. CASE n \in Conv!Names
    <3>1. /\ s1'[Conv!Main][n] = Conv!Absent /\ s6' = s6 \cup s1[Conv!Main][n].mails
          /\ \A o \in Conv!Names \ {n} : s1'[Conv!Main][o] = s1[Conv!Main][o]
      BY <1>0, <2>1, <2>11
    <3> QED BY <2>2, <2>9, <2>11, <3>1, RemovalKeeps
  <2> QED BY <2>3, <2>10, <2>11
<1> QED BY <1>1, <1>2, <1>3, <1>4, <1>5, <1>6, <1>7 DEF Conv!Next, ConvInv, ConvTyped

\* Two that are in it are one: at most one.
LEMMA AtMostOne ==
    ASSUME NEW S, \A x, y \in S : x = y
    PROVE  IsFiniteSet(S) /\ Cardinality(S) <= 1
<1>1. CASE S = {}
  BY <1>1, FS_EmptySet
<1>2. CASE S # {}
  <2>1. PICK x \in S : TRUE
    BY <1>2
  <2>2. S = {x}
    BY <2>1
  <2>3. IsFiniteSet({x}) /\ Cardinality({x}) = 1
    BY FS_Singleton
  <2> QED BY <2>2, <2>3
<1> QED BY <1>1, <1>2

LEMMA ConvKept == ConvInv => Conv!OneFilePerKey /\ Conv!NothingDropped
<1> SUFFICES ASSUME ConvInv PROVE Conv!OneFilePerKey /\ Conv!NothingDropped
  OBVIOUS
<1>1. Conv!NothingDropped
  BY DEF ConvInv, Conv!NothingDropped
<1>2. ASSUME NEW k \in UNION {{ThreadKeys[i][m] : m \in Letters} : i \in Conv!Providers}
      PROVE  Conv!Cardinality({n \in Conv!Names : LET t == s1[Conv!Main][n] IN t.id = k \/ k \in t.aliases}) <= 1
  <2> DEFINE S == {n \in Conv!Names : LET t == s1[Conv!Main][n] IN t.id = k \/ k \in t.aliases}
  <2>1. k # NoId
    BY LetterAssumption DEF Conv!Providers
  <2>2. \A x, y \in S : x = y
    BY <2>1 DEF ConvInv, KeysOf
  <2>3. Conv!Cardinality(S) = Cardinality(S)
    BY DEF Conv!Cardinality, Cardinality
  <2> HIDE DEF S
  <2>4. Cardinality(S) <= 1
    BY <2>2, AtMostOne
  <2>5. Conv!Cardinality(S) <= 1
    BY <2>3, <2>4
  <2> QED BY <2>5 DEF S
<1> QED BY <1>1, <1>2 DEF Conv!OneFilePerKey

-----------------------------------------------------------------------------
(* Imports *)

ImportedKeys == {Import!DedupKey(m) : m \in Exports}

\* Each message once, and by time.
Chronicle(s) ==
    /\ s \in Seq(ImportedKeys)
    /\ \A i, j \in 1..Len(s) : i < j => s[i] # s[j] /\ s[i][2] <= s[j][2]

\* What an import has read and no longer has to merge is in the files.
ImportInv ==
    /\ s1 \in [Import!ChatKeys -> Seq(ImportedKeys)] /\ s3 \subseteq Exports /\ s4 \subseteq Exports
    /\ \A g \in s2 : g \subseteq Exports
    /\ \A k \in Import!ChatKeys : Chronicle(s1[k])
    /\ \A m \in s4 : Import!Seen(s1[Import!ThreadKey(m)], Import!DedupKey(m))
    /\ \A m \in s3 : (\E g \in s2 : m \in g) \/ Import!Seen(s1[Import!ThreadKey(m)], Import!DedupKey(m))

LEMMA ImportMoves ==
    ASSUME part = "imports", [WorkspaceNext]_wsVars
    PROVE  part' = part /\ (Import!Next \/ UNCHANGED <<s1, s2, s3, s4, s5>>)
BY DEF WorkspaceNext, wsVars, registers

LEMMA ImportStarts == WorkspaceInit /\ part = "imports" => ImportInv
<1> SUFFICES ASSUME WorkspaceInit, part = "imports" PROVE ImportInv
  OBVIOUS
<1>1. Import!Init
  BY DEF WorkspaceInit, PartInit
<1>2. Chronicle(<<>>)
  BY DEF Chronicle
<1> QED BY <1>1, <1>2 DEF Import!Init, ImportInv

LEMMA InsertionIs ==
    ASSUME NEW s, NEW e, NEW i
    PROVE  Import!InsertAt(s, i, e) = SubSeq(s, 1, i - 1) \o <<e>> \o SubSeq(s, i, Len(s))
BY DEF Import!InsertAt

\* What an element is put between stays, in its order.
LEMMA Inserted ==
    ASSUME NEW S, NEW s \in Seq(S), NEW e \in S, NEW p \in 0..Len(s),
           NEW new, new = Import!InsertAt(s, p + 1, e)
    PROVE  /\ new \in Seq(S) /\ Len(new) = Len(s) + 1
           /\ \A i \in 1..Len(new) : new[i] = IF i <= p THEN s[i] ELSE IF i = p + 1 THEN e ELSE s[i - 1]
<1> DEFINE a == SubSeq(s, 1, p)
           b == SubSeq(s, p + 1, Len(s))
           c == a \o <<e>>
<1>1. new = c \o b
  <2> DEFINE q == p + 1
  <2>1. new = SubSeq(s, 1, q - 1) \o <<e>> \o SubSeq(s, q, Len(s))
    <3> new = Import!InsertAt(s, q, e)
      OBVIOUS
    <3> HIDE DEF q
    <3> QED BY InsertionIs
  <2>2. q - 1 = p
    OBVIOUS
  <2>3. new = SubSeq(s, 1, p) \o <<e>> \o SubSeq(s, p + 1, Len(s))
    BY <2>1, <2>2, Zenon
  <2> QED BY <2>3, Zenon DEF a, b, c
<1>2. a \in Seq(S) /\ Len(a) = p /\ \A i \in 1..p : a[i] = s[i]
  OBVIOUS
<1>3. b \in Seq(S) /\ Len(b) = Len(s) - p /\ \A i \in 1..(Len(s) - p) : b[i] = s[p + i]
  OBVIOUS
<1> HIDE DEF a, b
<1>4. c \in Seq(S) /\ Len(c) = p + 1 /\ c[p + 1] = e /\ \A i \in 1..p : c[i] = s[i]
  <2>1. <<e>> \in Seq(S) /\ Len(<<e>>) = 1 /\ <<e>>[1] = e
    OBVIOUS
  <2>2. c \in Seq(S) /\ Len(c) = p + 1
    BY <1>2, <2>1
  <2>3. c[p + 1] = e
    BY <1>2, <2>1
  <2>4. \A i \in 1..p : c[i] = a[i]
    BY <1>2, <2>1
  <2> QED BY <1>2, <2>2, <2>3, <2>4
<1> HIDE DEF c
<1>5. new \in Seq(S) /\ Len(new) = Len(s) + 1
  <2>1. new \in Seq(S) /\ Len(new) = Len(c) + Len(b)
    BY <1>1, <1>3, <1>4, ConcatProperties, ZenonT(40)
  <2>2. Len(s) \in Nat
    OBVIOUS
  <2> QED BY <1>3, <1>4, <2>1, <2>2
<1>6. ASSUME NEW i \in 1..Len(new)
      PROVE  new[i] = IF i <= p THEN s[i] ELSE IF i = p + 1 THEN e ELSE s[i - 1]
  <2>1. CASE i <= p + 1
    <3>1. new[i] = c[i]
      BY <1>1, <1>3, <1>4, <1>5, <2>1
    <3> QED BY <1>4, <2>1, <3>1
  <2>2. CASE i > p + 1
    <3>1. new[i] = b[i - Len(c)]
      <4>1. i \in 1..Len(c) + Len(b) /\ ~ (i <= Len(c))
        BY <1>3, <1>4, <1>5, <2>2
      <4>2. (c \o b)[i] = IF i <= Len(c) THEN c[i] ELSE b[i - Len(c)]
        BY <1>3, <1>4, <4>1, ConcatProperties
      <4> QED BY <1>1, <4>1, <4>2
    <3>2. p + (i - (p + 1)) = i - 1
      OBVIOUS
    <3>3. i - (p + 1) \in 1..(Len(s) - p)
      BY <1>5, <2>2
    <3> QED BY <1>3, <1>4, <2>2, <3>1, <3>2, <3>3, SMTT(40)
  <2> QED BY <1>5, <2>1, <2>2
<1> QED BY <1>5, <1>6

\* A message takes its place behind those that are not later.
LEMMA MergeInOrder ==
    ASSUME NEW m \in Exports, NEW s, Chronicle(s)
    PROVE  /\ Chronicle(Import!Merged(s, m))
           /\ Import!Seen(Import!Merged(s, m), Import!DedupKey(m))
           /\ \A k : Import!Seen(s, k) => Import!Seen(Import!Merged(s, m), k)
<1> DEFINE entry == Import!DedupKey(m)
           before == {i \in DOMAIN s : s[i][2] <= m.time}
           p == Import!Max({0} \cup before)
           new == Import!InsertAt(s, p + 1, entry)
<1>0. /\ s \in Seq(ImportedKeys) /\ entry \in ImportedKeys /\ entry[2] = m.time
      /\ \A k \in ImportedKeys : k[2] \in Int
  BY ExportAssumption DEF Chronicle, ImportedKeys, Import!DedupKey
<1>1. CASE Import!Seen(s, entry)
  <2>1. Import!Merged(s, m) = s
    BY <1>1 DEF Import!Merged
  <2> QED BY <1>1, <2>1
<1>2. CASE ~ Import!Seen(s, entry)
  <2>1. Import!Merged(s, m) = new
    BY <1>2 DEF Import!Merged
  <2>2. /\ p \in 0..Len(s) /\ (p = 0 \/ p \in before)
        /\ \A i \in before : i <= p
    <3>1. {0} \cup before \in SUBSET Int /\ \A i \in {0} \cup before : i <= Len(s)
      BY <1>0
    <3>2. PICK q \in {0} \cup before : \A i \in {0} \cup before : i <= q
      <4> HIDE DEF before
      <4>1. Len(s) \in Int /\ {0} \cup before # {}
        BY <1>0
      <4> QED BY <3>1, <4>1, Greatest
    <3>3. p \in {0} \cup before /\ \A i \in {0} \cup before : p >= i
      <4> HIDE DEF before
      <4> QED BY <3>1, <3>2 DEF Import!Max
    <3> QED BY <1>0, <3>1, <3>3
  <2> HIDE DEF p
  <2>3. \A i \in 1..Len(s) : i <= p <=> s[i][2] <= m.time
    <3> SUFFICES ASSUME NEW i \in 1..Len(s) PROVE i <= p <=> s[i][2] <= m.time
      OBVIOUS
    <3>1. s[i][2] \in Int /\ (p # 0 => s[p][2] \in Int)
      BY <1>0, <2>2
    <3>2. CASE i <= p
      <4>1. p \in 1..Len(s) /\ s[p][2] <= m.time
        BY <2>2, <3>2
      <4>2. s[i][2] <= s[p][2]
        BY <3>1, <3>2, <4>1 DEF Chronicle
      <4> QED BY <3>1, <3>2, <4>1, <4>2, ExportAssumption
    <3> QED BY <1>0, <2>2, <3>2
  <2>4. /\ new \in Seq(ImportedKeys) /\ Len(new) = Len(s) + 1
        /\ \A i \in 1..Len(new) : new[i] = IF i <= p THEN s[i] ELSE IF i = p + 1 THEN entry ELSE s[i - 1]
    BY <1>0, <2>2, Inserted
  <2> HIDE DEF new, entry
  <2>5. ASSUME NEW i \in 1..Len(new), NEW j \in 1..Len(new), i < j
        PROVE  new[i] # new[j] /\ new[i][2] <= new[j][2]
    <3>1. \A x \in 1..Len(s) : s[x] # entry /\ s[x][2] \in Int
      BY <1>0, <1>2 DEF Import!Seen, entry
    <3>2. CASE j <= p
      <4>1. new[i] = s[i] /\ new[j] = s[j] /\ i \in 1..Len(s) /\ j \in 1..Len(s)
        BY <1>0, <2>2, <2>4, <2>5, <3>2
      <4> QED BY <2>5, <4>1 DEF Chronicle
    <3>3. CASE j = p + 1
      BY <1>0, <2>2, <2>3, <2>4, <2>5, <3>1, <3>3, ExportAssumption
    <3>4. CASE j > p + 1 /\ i = p + 1
      <4>1. new[i] = entry /\ new[j] = s[j - 1] /\ j - 1 \in 1..Len(s) /\ ~ (j - 1 <= p)
        BY <1>0, <2>2, <2>4, <3>4
      <4> QED BY <1>0, <2>3, <3>1, <4>1, ExportAssumption
    <3>5. CASE j > p + 1 /\ i <= p
      <4>1. new[i] = s[i] /\ new[j] = s[j - 1] /\ j - 1 \in 1..Len(s) /\ i \in 1..Len(s) /\ i < j - 1
        BY <1>0, <2>2, <2>4, <3>5
      <4> QED BY <4>1 DEF Chronicle
    <3>6. CASE j > p + 1 /\ i > p + 1
      <4>1. /\ new[i] = s[i - 1] /\ new[j] = s[j - 1] /\ j - 1 \in 1..Len(s) /\ i - 1 \in 1..Len(s)
            /\ i - 1 < j - 1
        BY <1>0, <2>2, <2>4, <2>5, <3>6
      <4> QED BY <4>1 DEF Chronicle
    <3> QED BY <2>2, <2>5, <3>2, <3>3, <3>4, <3>5, <3>6
  <2>6. Chronicle(new)
    BY <2>4, <2>5 DEF Chronicle
  <2>7. Import!Seen(new, entry)
    <3>1. p + 1 \in 1..Len(new) /\ new[p + 1] = entry
      BY <1>0, <2>2, <2>4
    <3> QED BY <3>1 DEF Import!Seen
  <2>8. ASSUME NEW k, Import!Seen(s, k) PROVE Import!Seen(new, k)
    <3>1. PICK i \in 1..Len(s) : s[i] = k
      BY <2>8 DEF Import!Seen
    <3>2. CASE i <= p
      BY <1>0, <2>2, <2>4, <3>1, <3>2 DEF Import!Seen
    <3>3. CASE i > p
      <4>1. i + 1 \in 1..Len(new) /\ new[i + 1] = s[i]
        BY <1>0, <2>2, <2>4, <3>3
      <4> QED BY <3>1, <4>1 DEF Import!Seen
    <3> QED BY <2>2, <3>2, <3>3
  <2> QED BY <2>1, <2>6, <2>7, <2>8 DEF entry
<1> QED BY <1>1, <1>2

LEMMA ImportStep ==
    ASSUME ImportInv, Import!Next \/ UNCHANGED <<s1, s2, s3, s4, s5>>
    PROVE  ImportInv'
<1>0. /\ s1 \in [Import!ChatKeys -> Seq(ImportedKeys)] /\ s3 \subseteq Exports /\ s4 \subseteq Exports
      /\ \A g \in s2 : g \subseteq Exports
  BY DEF ImportInv
<1>1. ASSUME NEW export \in SUBSET Exports, Import!Begin(export) PROVE ImportInv'
  <2> DEFINE got == {m \in export : Import!Imported(m)}
  <2>1. /\ s3' = got /\ s2' = {{m \in got : Import!ThreadKey(m) = k} : k \in {Import!ThreadKey(m) : m \in got}}
        /\ UNCHANGED <<s1, s4>>
    BY <1>1 DEF Import!Begin
  <2>2. ASSUME NEW m \in got PROVE \E g \in s2' : m \in g
    <3>1. {x \in got : Import!ThreadKey(x) = Import!ThreadKey(m)} \in s2'
      BY <2>1
    <3> QED BY <3>1
  <2>3. \A g \in s2' : g \subseteq Exports
    BY <2>1
  <2> QED BY <2>1, <2>2, <2>3 DEF ImportInv
<1>2. ASSUME NEW m \in Exports, NEW group \in s2, Import!Merge(group, m) PROVE ImportInv'
  <2> DEFINE c == Import!ThreadKey(m)
             new == Import!Merged(s1[c], m)
  <2>1. /\ s1' = [s1 EXCEPT ![c] = new]
        /\ s2' = (s2 \ {group}) \cup ({group \ {m}} \ {{}}) /\ UNCHANGED <<s3, s4>>
    BY <1>2 DEF Import!Merge
  <2>2. c \in Import!ChatKeys
    BY DEF Import!ChatKeys
  <2>3. /\ Chronicle(new) /\ Import!Seen(new, Import!DedupKey(m))
        /\ \A k : Import!Seen(s1[c], k) => Import!Seen(new, k)
    BY <2>2, MergeInOrder DEF ImportInv
  <2> HIDE DEF new, c
  <2>4. s1' \in [Import!ChatKeys -> Seq(ImportedKeys)] /\ s1'[c] = new
        /\ \A k \in Import!ChatKeys \ {c} : s1'[k] = s1[k]
    BY <1>0, <2>1, <2>2, <2>3 DEF Chronicle
  <2>5. \A k \in Import!ChatKeys : Chronicle(s1'[k])
    BY <2>3, <2>4 DEF ImportInv
  <2>6. \A k \in Import!ChatKeys : \A d : Import!Seen(s1[k], d) => Import!Seen(s1'[k], d)
    BY <2>3, <2>4
  <2>7. \A x \in Exports : Import!ThreadKey(x) \in Import!ChatKeys
    BY DEF Import!ChatKeys
  <2>8. \A x \in s4 : Import!Seen(s1'[Import!ThreadKey(x)], Import!DedupKey(x))
    BY <1>0, <2>6, <2>7 DEF ImportInv
  <2>9. ASSUME NEW x \in s3
        PROVE  (\E g \in s2' : x \in g) \/ Import!Seen(s1'[Import!ThreadKey(x)], Import!DedupKey(x))
    <3>1. CASE Import!Seen(s1[Import!ThreadKey(x)], Import!DedupKey(x))
      BY <1>0, <2>6, <2>7, <3>1
    <3>2. CASE \E g \in s2 : x \in g
      <4>1. PICK g \in s2 : x \in g
        BY <3>2
      <4>2. CASE g # group
        BY <2>1, <4>1, <4>2
      <4>3. CASE g = group /\ x # m
        BY <2>1, <4>1, <4>3
      <4>4. CASE x = m
        BY <2>3, <2>4, <4>4 DEF c
      <4> QED BY <4>2, <4>3, <4>4
    <3> QED BY <3>1, <3>2 DEF ImportInv
  <2>10. \A g \in s2' : g \subseteq Exports
    BY <1>0, <2>1
  <2> QED BY <1>0, <2>1, <2>4, <2>5, <2>8, <2>9, <2>10 DEF ImportInv
<1>3. CASE Import!Complete
  BY <1>3 DEF Import!Complete, ImportInv
<1>4. CASE Import!BreakOff
  BY <1>4 DEF Import!BreakOff, ImportInv
<1>5. CASE UNCHANGED <<s1, s2, s3, s4, s5>>
  BY <1>5 DEF ImportInv
<1> QED BY <1>1, <1>2, <1>3, <1>4, <1>5 DEF Import!Next

-----------------------------------------------------------------------------
(* Videos *)

FileBytes == Nat \X Nat

\* The bytes of an upload are those of the file, from the first on.
InPlace(r) == r \in Seq(FileBytes) /\ \A i \in 1..Len(r) : r[i][2] = i

\* They are all of the file as it is.
WholeFile(r) == Len(r) = s1 /\ \A i \in 1..s1 : r[i][1] = s2

\* While nothing disturbs an upload, it knows how much YouTube has, and it is not at the
\* end of the file; what came of it is whole.
VideoInv ==
    /\ s1 \in Nat /\ s2 \in Nat /\ s5 \in Nat /\ s6 \in Nat /\ s12 \in Nat
    /\ s4 \in {"idle", "sending", "captions"}
    /\ InPlace(s7)
    /\ s8 \in Seq(Seq(FileBytes)) /\ \A k \in 1..Len(s8) : InPlace(s8[k])
    /\ Len(s8) <= s12 /\ (s4 = "sending" => Len(s8) < s12)
    /\ s9 \in 0..Len(s8) /\ (s9 # 0 => s4 = "idle")
    /\ s4 = "idle" /\ s12 > 0 /\ s9 = 0 => s10 # {}
    /\ s4 = "sending" /\ s10 = {} =>
         s5 = s1 /\ s6 = Len(s7) /\ s6 < s1 /\ \A i \in 1..s6 : s7[i][1] = s2
    /\ s4 = "captions" => Len(s8) > 0 /\ (s10 = {} => WholeFile(s8[Len(s8)]))
    /\ s9 # 0 /\ s10 = {} => WholeFile(s8[s9])

LEMMA VideoMoves ==
    ASSUME part = "youtube", [WorkspaceNext]_wsVars
    PROVE  part' = part /\ (YouTube!Next \/ UNCHANGED registers)
BY DEF WorkspaceNext, wsVars, registers

LEMMA VideoStarts == WorkspaceInit /\ part = "youtube" => VideoInv
BY VideoAssumption DEF WorkspaceInit, PartInit, YouTube!Init, VideoInv, InPlace, WholeFile

\* The chunk at the offset.
LEMMA ChunkIs ==
    ASSUME VideoInv, s6 < s1
    PROVE  /\ YouTube!ReadBytes \in Nat \ {0} /\ s6 + YouTube!ReadBytes <= s1
           /\ YouTube!Chunk \in Seq(FileBytes) /\ Len(YouTube!Chunk) = YouTube!ReadBytes
           /\ \A i \in 1..YouTube!ReadBytes : YouTube!Chunk[i] = <<s2, s6 + i>>
<1>1. YouTube!ReadBytes \in Nat \ {0} /\ s6 + YouTube!ReadBytes <= s1
  BY VideoAssumption DEF VideoInv, YouTube!ReadBytes
<1>2. \A i \in 1..YouTube!ReadBytes : <<s2, s6 + i>> \in FileBytes
  BY <1>1 DEF VideoInv, FileBytes
<1>3. YouTube!Chunk = [i \in 1..YouTube!ReadBytes |-> <<s2, s6 + i>>]
  BY DEF YouTube!Chunk
<1> QED BY <1>1, <1>2, <1>3

\* A chunk, or its beginning, that YouTube accepts stands where it belongs.
LEMMA Continued ==
    ASSUME VideoInv, s6 < s1, YouTube!Accepted, NEW k \in 0..YouTube!ReadBytes
    PROVE  LET r == s7 \o SubSeq(YouTube!Chunk, 1, k)
           IN /\ s6 = Len(s7) /\ InPlace(r) /\ Len(r) = s6 + k
              /\ \A i \in 1..(s6 + k) : r[i][1] = IF i <= s6 THEN s7[i][1] ELSE s2
<1> DEFINE c == SubSeq(YouTube!Chunk, 1, k)
           r == s7 \o c
<1>1. s6 = Len(s7)
  BY DEF YouTube!Accepted, YouTube!ContentRange
<1>2. /\ c \in Seq(FileBytes) /\ Len(c) = k
      /\ \A i \in 1..k : c[i] = <<s2, s6 + i>>
  BY ChunkIs
<1>3. s7 \in Seq(FileBytes) /\ s6 \in Nat /\ \A i \in 1..s6 : s7[i][2] = i
  BY <1>1 DEF VideoInv, InPlace
<1> HIDE DEF c
<1>4. /\ r \in Seq(FileBytes) /\ Len(r) = s6 + k
      /\ \A i \in 1..(s6 + k) : r[i] = IF i <= s6 THEN s7[i] ELSE c[i - s6]
  BY <1>1, <1>2, <1>3, ConcatProperties
<1>5. ASSUME NEW i \in 1..(s6 + k), ~ (i <= s6) PROVE c[i - s6] = <<s2, i>>
  <2>1. i - s6 \in 1..k /\ s6 + (i - s6) = i
    BY <1>3, <1>5
  <2> QED BY <1>2, <2>1
<1>6. ASSUME NEW i \in 1..(s6 + k)
      PROVE  r[i][2] = i /\ r[i][1] = IF i <= s6 THEN s7[i][1] ELSE s2
  <2>1. CASE i <= s6
    BY <1>3, <1>4, <2>1
  <2>2. CASE ~ (i <= s6)
    BY <1>4, <1>5, <2>2
  <2> QED BY <2>1, <2>2
<1> HIDE DEF r
<1>7. InPlace(r)
  BY <1>4, <1>6 DEF InPlace
<1> QED BY <1>1, <1>4, <1>6, <1>7 DEF r, c

\* Of an undisturbed upload every chunk is accepted.
LEMMA Undisturbed ==
    ASSUME VideoInv, s4 = "sending", s10 = {}
    PROVE  YouTube!Accepted
<1>1. s5 = s1 /\ s6 = Len(s7) /\ s6 < s1 /\ s6 \in Nat /\ s1 \in Nat
  BY DEF VideoInv
<1> QED BY <1>1, ChunkIs DEF YouTube!Accepted, YouTube!ContentRange

LEMMA VideoStep ==
    ASSUME VideoInv, YouTube!Next \/ UNCHANGED registers
    PROVE  VideoInv'
<1>0. /\ s1 \in Nat /\ s2 \in Nat /\ s5 \in Nat /\ s6 \in Nat /\ s12 \in Nat
      /\ InPlace(s7) /\ s8 \in Seq(Seq(FileBytes)) /\ \A k \in 1..Len(s8) : InPlace(s8[k])
      /\ Len(s8) \in Nat
  BY DEF VideoInv
<1>1. CASE YouTube!Start
  <2>1. InPlace(<<>>)
    BY DEF InPlace
  <2> QED BY <1>0, <1>1, <2>1 DEF YouTube!Start, YouTube!file, VideoInv, WholeFile
\* What an accepted chunk makes of the upload, and of the videos if it was the last.
<1>2. ASSUME s4 = "sending", s6 < s1, YouTube!Accepted, s7' = s7 \o YouTube!Chunk,
             UNCHANGED <<s1, s2>>
      PROVE  /\ InPlace(s7') /\ s6 = Len(s7) /\ Len(s7') = s6 + YouTube!ReadBytes
             /\ YouTube!ReadBytes \in Nat \ {0} /\ s6 + YouTube!ReadBytes <= s1
             /\ s10 = {} => s5 = s1 /\ \A i \in 1..Len(s7') : s7'[i][1] = s2
  <2>1. /\ YouTube!ReadBytes \in Nat \ {0} /\ s6 + YouTube!ReadBytes <= s1
        /\ YouTube!Chunk \in Seq(FileBytes) /\ Len(YouTube!Chunk) = YouTube!ReadBytes
    BY <1>2, ChunkIs
  <2>2. SubSeq(YouTube!Chunk, 1, YouTube!ReadBytes) = YouTube!Chunk
    BY <2>1
  <2>3. YouTube!ReadBytes \in 0..YouTube!ReadBytes
    BY <2>1
  <2>4. /\ s6 = Len(s7) /\ InPlace(s7') /\ Len(s7') = s6 + YouTube!ReadBytes
        /\ \A i \in 1..(s6 + YouTube!ReadBytes) : s7'[i][1] = IF i <= s6 THEN s7[i][1] ELSE s2
    BY <1>2, <2>2, <2>3, Continued
  <2>5. s10 = {} => s5 = s1 /\ \A i \in 1..s6 : s7[i][1] = s2
    BY <1>2 DEF VideoInv
  <2> QED BY <1>0, <2>1, <2>4, <2>5
<1>3. ASSUME s4 = "sending", s8' = Append(s8, s7'), InPlace(s7'), UNCHANGED s12
      PROVE  /\ s8' \in Seq(Seq(FileBytes)) /\ Len(s8') = Len(s8) + 1 /\ s8'[Len(s8')] = s7'
             /\ \A k \in 1..Len(s8') : InPlace(s8'[k])
             /\ Len(s8') <= s12' /\ s9 = 0
  <2>1. s7' \in Seq(FileBytes)
    BY <1>3 DEF InPlace
  <2>2. /\ s8' \in Seq(Seq(FileBytes)) /\ Len(s8') = Len(s8) + 1 /\ s8'[Len(s8')] = s7'
        /\ \A k \in 1..Len(s8) : s8'[k] = s8[k]
    BY <1>0, <1>3, <2>1
  <2>3. Len(s8) < s12 /\ s9 = 0
    BY <1>3 DEF VideoInv
  <2>4. ASSUME NEW k \in 1..Len(s8') PROVE InPlace(s8'[k])
    <3>1. CASE k \in 1..Len(s8)
      BY <1>0, <2>2, <3>1
    <3>2. CASE k = Len(s8')
      BY <1>3, <2>2, <3>2
    <3> QED BY <1>0, <2>2, <3>1, <3>2
  <2> QED BY <1>0, <1>3, <2>2, <2>3, <2>4
<1>4. CASE YouTube!SendChunk
  <2>0. /\ s4 = "sending" /\ s6 < s1 /\ UNCHANGED <<s1, s2, s3, s5, s9, s10, s11, s12>> /\ s9 = 0
        /\ Len(s8) < s12
    BY <1>4 DEF YouTube!SendChunk, YouTube!file, VideoInv
  <2>1. CASE ~ YouTube!Accepted
    <3>1. s4' = "idle" /\ UNCHANGED <<s6, s7, s8>>
      BY <1>4, <2>1 DEF YouTube!SendChunk
    <3>2. s10 # {}
      BY <2>0, <2>1, Undisturbed
    <3> QED BY <1>0, <2>0, <3>1, <3>2 DEF VideoInv, InPlace
  <2>2. CASE YouTube!Accepted
    <3>0. s7' = s7 \o YouTube!Chunk
      BY <1>4, <2>2 DEF YouTube!SendChunk
    <3>1. /\ InPlace(s7') /\ s6 = Len(s7) /\ Len(s7') = s6 + YouTube!ReadBytes
          /\ YouTube!ReadBytes \in Nat \ {0} /\ s6 + YouTube!ReadBytes <= s1
          /\ s10 = {} => s5 = s1 /\ \A i \in 1..Len(s7') : s7'[i][1] = s2
      BY <1>2, <2>0, <2>2, <3>0
    <3>2. CASE Len(s7') = s5
      <4>1. s8' = Append(s8, s7') /\ s4' = "captions" /\ s6' = s6
        BY <1>4, <2>2, <3>2 DEF YouTube!SendChunk, YouTube!Complete
      <4>2. /\ s8' \in Seq(Seq(FileBytes)) /\ Len(s8') = Len(s8) + 1 /\ s8'[Len(s8')] = s7'
            /\ \A k \in 1..Len(s8') : InPlace(s8'[k])
            /\ Len(s8') <= s12'
        BY <1>3, <2>0, <3>1, <4>1
      <4>3. s10' = {} => WholeFile(s8[Len(s8)])'
        BY <2>0, <3>1, <3>2, <4>2 DEF WholeFile
      <4> QED BY <1>0, <2>0, <3>1, <4>1, <4>2, <4>3 DEF VideoInv
    <3>3. CASE Len(s7') # s5
      <4>1. s6' = s6 + YouTube!ReadBytes /\ UNCHANGED <<s4, s8>>
        BY <1>4, <2>2, <3>3 DEF YouTube!SendChunk, YouTube!Complete
      <4>2. s10' = {} => /\ s5' = s1' /\ s6' = Len(s7') /\ s6' < s1'
                         /\ \A i \in 1..s6' : s7'[i][1] = s2'
        BY <1>0, <2>0, <3>1, <3>3, <4>1
      <4> QED BY <1>0, <2>0, <3>1, <4>1, <4>2 DEF VideoInv
    <3> QED BY <3>2, <3>3
  <2> QED BY <2>1, <2>2
<1>5. CASE YouTube!KeptInPart
  <2>1. /\ s4 = "sending" /\ s6 < s1 /\ YouTube!Accepted /\ s10' = s10 \cup {"kept in part"}
        /\ s6' = s6 + YouTube!ReadBytes
        /\ UNCHANGED <<s1, s2, s3, s4, s5, s8, s9, s11, s12>>
    BY <1>5 DEF YouTube!KeptInPart, YouTube!file
  <2>2. PICK k \in 0..(YouTube!ReadBytes - 1) : s7' = s7 \o SubSeq(YouTube!Chunk, 1, k)
    BY <1>5 DEF YouTube!KeptInPart
  <2>3. YouTube!ReadBytes \in Nat /\ k \in 0..YouTube!ReadBytes
    <3>1. YouTube!ReadBytes \in Nat \ {0}
      BY <2>1, ChunkIs
    <3> QED BY <2>2, <3>1
  <2>4. InPlace(s7')
    BY <2>1, <2>2, <2>3, Continued
  <2>5. s6' \in Nat /\ s10' # {}
    <3>1. "kept in part" \in s10'
      BY <2>1
    <3>2. s6 \in Nat /\ s6' = s6 + YouTube!ReadBytes
      BY <1>0, <2>1
    <3>3. s6' \in Nat
      BY <2>3, <3>2
    <3> QED BY <3>1, <3>3
  <2>6. Len(s8) < s12 /\ s9 = 0
    BY <2>1 DEF VideoInv
  <2> QED BY <1>0, <2>1, <2>4, <2>5, <2>6 DEF VideoInv
<1>6. CASE YouTube!RequestFails
  <2>1. /\ s4 \in {"sending", "captions"} /\ s4' = "idle" /\ s10' = s10 \cup {"request"}
        /\ UNCHANGED <<s1, s2, s3, s5, s6, s9, s11, s12>>
    BY <1>6 DEF YouTube!RequestFails, YouTube!file
  <2>2. CASE UNCHANGED <<s7, s8>>
    BY <1>0, <2>1, <2>2 DEF VideoInv, InPlace
  <2>3. CASE ~ UNCHANGED <<s7, s8>>
    <3>1. /\ s4 = "sending" /\ s6 < s1 /\ YouTube!Accepted /\ s7' = s7 \o YouTube!Chunk
          /\ s8' = IF Len(s7') = s5 THEN Append(s8, s7') ELSE s8
      BY <1>6, <2>3 DEF YouTube!RequestFails, YouTube!Complete
    <3>2. InPlace(s7')
      BY <1>2, <2>1, <3>1
    <3>3. s9 = 0 /\ Len(s8) < s12
      BY <3>1 DEF VideoInv
    <3>4. CASE s8' = Append(s8, s7')
      <4>1. /\ s8' \in Seq(Seq(FileBytes)) /\ Len(s8') = Len(s8) + 1
            /\ \A k \in 1..Len(s8') : InPlace(s8'[k]) /\ Len(s8') <= s12'
        BY <1>3, <2>1, <3>1, <3>2, <3>4
      <4> QED BY <1>0, <2>1, <3>2, <3>3, <4>1 DEF VideoInv
    <3>5. CASE s8' = s8
      BY <1>0, <2>1, <3>2, <3>3, <3>5 DEF VideoInv
    <3> QED BY <3>1, <3>4, <3>5
  <2> QED BY <2>2, <2>3
<1>7. CASE YouTube!EndOfFile
  <2>1. /\ s4 = "sending" /\ s6 >= s1 /\ s4' = "idle"
        /\ UNCHANGED <<s1, s2, s3, s5, s6, s7, s8, s9, s10, s11, s12>>
    BY <1>7 DEF YouTube!EndOfFile, YouTube!file
  <2>2. s10 # {}
    BY <1>0, <2>1 DEF VideoInv
  <2> QED BY <1>0, <2>1, <2>2 DEF VideoInv, InPlace
<1>8. CASE YouTube!UploadCaptions
  <2>1. /\ s4 = "captions" /\ s4' = "idle"
        /\ UNCHANGED <<s1, s2, s3, s5, s6, s7, s8, s11, s12>>
        /\ IF s3 = "missing" THEN s10' = s10 \cup {"captions"} /\ UNCHANGED s9
           ELSE s9' = Len(s8) /\ UNCHANGED s10
    BY <1>8 DEF YouTube!UploadCaptions, YouTube!file
  <2>2. Len(s8) > 0 /\ (s10 = {} => WholeFile(s8[Len(s8)])) /\ s9 = 0
    BY <2>1 DEF VideoInv
  <2>3. CASE s3 = "missing"
    BY <1>0, <2>1, <2>2, <2>3 DEF VideoInv, InPlace
  <2>4. CASE s3 # "missing"
    BY <1>0, <2>1, <2>2, <2>4 DEF VideoInv, InPlace, WholeFile
  <2> QED BY <2>3, <2>4
<1>9. ASSUME NEW n \in 0..MaxVideo, YouTube!Render(n) PROVE VideoInv'
  <2>1. /\ s1' = n /\ s2' = s2 + 1 /\ s10' = s10 \cup {"edited"}
        /\ UNCHANGED <<s3, s4, s5, s6, s7, s8, s9, s12>>
    BY <1>9 DEF YouTube!Render
  <2>2. n \in Nat
    BY VideoAssumption
  <2> QED BY <1>0, <2>1, <2>2 DEF VideoInv, InPlace
<1>10. CASE UNCHANGED registers
  BY <1>10 DEF registers, VideoInv, InPlace, WholeFile
<1> QED BY <1>1, <1>4, <1>5, <1>6, <1>7, <1>8, <1>9, <1>10 DEF YouTube!Next

LEMMA VideosTold == VideoInv => YouTube!VideoIsWhole
<1> SUFFICES ASSUME VideoInv PROVE YouTube!VideoIsWhole
  OBVIOUS
<1>1. s9 # 0 => s9 \in 1..Len(s8)
  BY DEF VideoInv
<1>2. s9 # 0 => InPlace(s8[s9])
  BY <1>1 DEF VideoInv
<1> QED BY <1>2 DEF VideoInv, InPlace, WholeFile, YouTube!VideoIsWhole

-----------------------------------------------------------------------------
(* The encoded mail *)

MimeChars == Seq(Nat) \X ({"raw", "quote", "thread"} \cup 0..3)

\* The bytes between two places.
LEMMA BytesAre ==
    ASSUME NEW a \in Nat, NEW b \in Nat, a <= b
    PROVE  /\ Mime!Bytes(a, b) \in Seq(Nat) /\ Len(Mime!Bytes(a, b)) = b - a
           /\ \A i \in 1..(b - a) : Mime!Bytes(a, b)[i] = a + i
<1>1. Mime!Bytes(a, b) = [i \in 1..(b - a) |-> a + i]
  BY DEF Mime!Bytes
<1>2. b - a \in Nat
  OBVIOUS
<1> QED BY <1>1, <1>2

LEMMA BytesJoin ==
    ASSUME NEW a \in Nat, NEW b \in Nat, NEW c \in Nat, a <= b, b <= c
    PROVE  Mime!Bytes(a, b) \o Mime!Bytes(b, c) = Mime!Bytes(a, c)
<1> DEFINE x == Mime!Bytes(a, b)
           y == Mime!Bytes(b, c)
           z == Mime!Bytes(a, c)
<1>1. x \in Seq(Nat) /\ Len(x) = b - a /\ \A i \in 1..(b - a) : x[i] = a + i
  BY BytesAre
<1>2. y \in Seq(Nat) /\ Len(y) = c - b /\ \A i \in 1..(c - b) : y[i] = b + i
  BY BytesAre
<1>3. z \in Seq(Nat) /\ Len(z) = c - a /\ \A i \in 1..(c - a) : z[i] = a + i
  BY BytesAre
<1> HIDE DEF x, y, z
<1>4. /\ x \o y \in Seq(Nat) /\ Len(x \o y) = c - a
      /\ \A i \in 1..(c - a) : (x \o y)[i] = IF i <= b - a THEN x[i] ELSE y[i - (b - a)]
  <2>1. /\ x \o y \in Seq(Nat) /\ Len(x \o y) = Len(x) + Len(y)
        /\ \A i \in 1..Len(x) + Len(y) : (x \o y)[i] = IF i <= Len(x) THEN x[i] ELSE y[i - Len(x)]
    BY <1>1, <1>2, ConcatProperties
  <2>2. Len(x) + Len(y) = c - a
    BY <1>1, <1>2
  <2> QED BY <1>1, <2>1, <2>2
<1>5. ASSUME NEW i \in 1..(c - a) PROVE (x \o y)[i] = z[i]
  <2>1. CASE i <= b - a
    BY <1>1, <1>3, <1>4, <2>1
  <2>2. CASE ~ (i <= b - a)
    <3>1. i - (b - a) \in 1..(c - b) /\ b + (i - (b - a)) = a + i
      BY <2>2
    <3> QED BY <1>2, <1>3, <1>4, <2>2, <3>1
  <2> QED BY <2>1, <2>2
<1>6. x \o y = z
  BY <1>3, <1>4, <1>5, SeqEqual
<1> QED BY <1>6 DEF x, y, z

LEMMA BytesWithin ==
    ASSUME NEW a \in Nat, NEW b \in Nat, a <= b, NEW i \in Nat, NEW j \in Nat, i <= j, j <= b - a
    PROVE  SubSeq(Mime!Bytes(a, b), i + 1, j) = Mime!Bytes(a + i, a + j)
<1> DEFINE x == Mime!Bytes(a, b)
           y == Mime!Bytes(a + i, a + j)
           z == SubSeq(x, i + 1, j)
<1>1. x \in Seq(Nat) /\ Len(x) = b - a /\ \A k \in 1..(b - a) : x[k] = a + k
  BY BytesAre
<1>2. y \in Seq(Nat) /\ Len(y) = j - i /\ \A k \in 1..(j - i) : y[k] = a + i + k
  <2>1. a + i \in Nat /\ a + j \in Nat /\ a + i <= a + j /\ (a + j) - (a + i) = j - i
    OBVIOUS
  <2> QED BY <2>1, BytesAre
<1> HIDE DEF x, y
<1>3. z \in Seq(Nat) /\ Len(z) = j - i /\ \A k \in 1..(j - i) : z[k] = x[i + k]
  BY <1>1
<1> HIDE DEF z
<1>4. ASSUME NEW k \in 1..(j - i) PROVE z[k] = y[k]
  <2>1. i + k \in 1..(b - a) /\ a + (i + k) = a + i + k
    OBVIOUS
  <2> QED BY <1>1, <1>2, <1>3, <2>1
<1>5. z = y
  BY <1>2, <1>3, <1>4, SeqEqual
<1> QED BY <1>5 DEF x, y, z

\* The character of the encoding of the first n bytes at a place.
Char(n, i) ==
    LET g == 3 * ((i - 1) \div 4)
    IN <<Mime!Bytes(g, IF g + 3 < n THEN g + 3 ELSE n), (i - 1) % 4>>

LEMMA LengthIs ==
    ASSUME NEW n \in Nat
    PROVE  /\ Mime!EncodedLength(n) \in Nat
           /\ \A i \in 1..Mime!EncodedLength(n) : (i - 1) \div 4 \in Nat /\ 3 * ((i - 1) \div 4) < n
           /\ n % 3 = 0 => Mime!EncodedLength(n) = 4 * (n \div 3) /\ n = 3 * (n \div 3)
           /\ \A k \in Nat : k % 3 = 0 =>
                Mime!EncodedLength(k + n) = Mime!EncodedLength(k) + Mime!EncodedLength(n)
<1>1. n \div 3 \in Nat /\ n % 3 \in 0..2 /\ n = 3 * (n \div 3) + (n % 3)
  <2>1. n \div 3 \in Nat
    OBVIOUS
  <2>2. n % 3 \in 0..2
    OBVIOUS
  <2>3. n = 3 * (n \div 3) + (n % 3)
    OBVIOUS
  <2> QED BY <2>1, <2>2, <2>3
<1>2. Mime!EncodedLength(n) = 4 * (n \div 3) + (IF n % 3 = 0 THEN 0 ELSE (n % 3) + 1)
  BY DEF Mime!EncodedLength
<1>3. ASSUME NEW i \in 1..Mime!EncodedLength(n)
      PROVE  (i - 1) \div 4 \in Nat /\ 3 * ((i - 1) \div 4) < n
  BY <1>1, <1>2
<1>4. ASSUME NEW k \in Nat, k % 3 = 0
      PROVE  Mime!EncodedLength(k + n) = Mime!EncodedLength(k) + Mime!EncodedLength(n)
  <2>1. (k + n) % 3 = n % 3 /\ (k + n) \div 3 = k \div 3 + n \div 3 /\ k \div 3 \in Nat
    BY <1>4
  <2> QED BY <1>1, <1>4, <2>1 DEF Mime!EncodedLength
<1> QED BY <1>1, <1>2, <1>3, <1>4

\* The bytes from a place between two groups on.
LEMMA EncodeIs ==
    ASSUME NEW a \in Nat, NEW b \in Nat, a <= b, a % 3 = 0
    PROVE  /\ Mime!Encode(Mime!Bytes(a, b)) \in Seq(MimeChars)
           /\ Len(Mime!Encode(Mime!Bytes(a, b))) = Mime!EncodedLength(b - a)
           /\ \A i \in 1..Mime!EncodedLength(b - a) :
                Mime!Encode(Mime!Bytes(a, b))[i] = Char(b, i + 4 * (a \div 3))
<1> DEFINE x == Mime!Bytes(a, b)
           n == b - a
           g(i) == 3 * ((i - 1) \div 4)
           end(i) == IF g(i) + 3 < n THEN g(i) + 3 ELSE n
<1>1. n \in Nat /\ x \in Seq(Nat) /\ Len(x) = n
  <2>1. x \in Seq(Nat) /\ Len(x) = n
    BY BytesAre
  <2>2. n \in Nat
    OBVIOUS
  <2> QED BY <2>1, <2>2
<1>2. Mime!Encode(x) = [i \in 1..Mime!EncodedLength(n) |-> <<SubSeq(x, g(i) + 1, end(i)), (i - 1) % 4>>]
  BY <1>1 DEF Mime!Encode
<1>3. ASSUME NEW i \in 1..Mime!EncodedLength(n)
      PROVE  /\ SubSeq(x, g(i) + 1, end(i)) \in Seq(Nat) /\ (i - 1) % 4 \in 0..3
             /\ <<SubSeq(x, g(i) + 1, end(i)), (i - 1) % 4>> = Char(b, i + 4 * (a \div 3))
  <2>0. i \in Nat \ {0}
    BY <1>1, LengthIs
  <2>1. (i - 1) \div 4 \in Nat /\ g(i) \in Nat /\ g(i) < n /\ end(i) \in Nat /\ g(i) <= end(i) /\ end(i) <= n
    <3>1. (i - 1) \div 4 \in Nat /\ g(i) < n
      <4> HIDE DEF n
      <4> QED BY <1>1, LengthIs
    <3>2. g(i) \in Nat
      BY <3>1
    <3> HIDE DEF g, n
    <3> QED BY <1>1, <3>1, <3>2
  <2>2. (i - 1) % 4 \in 0..3
    BY <2>0
  <2>3. SubSeq(x, g(i) + 1, end(i)) = Mime!Bytes(a + g(i), a + end(i))
    <3> HIDE DEF g, end
    <3> QED BY <2>1, BytesWithin, ZenonT(40)
  <2>4. a = 3 * (a \div 3) /\ a \div 3 \in Nat
    OBVIOUS
  <2> DEFINE j == i + 4 * (a \div 3)
  <2>5. (j - 1) % 4 = (i - 1) % 4 /\ (j - 1) \div 4 = (i - 1) \div 4 + a \div 3
    BY <2>0, <2>4
  <2>6. g(j) = a + g(i)
    BY <2>1, <2>4, <2>5
  <2>7. (IF g(j) + 3 < b THEN g(j) + 3 ELSE b) = a + end(i)
    BY <2>1, <2>6
  <2>8. Char(b, j) = <<Mime!Bytes(a + g(i), a + end(i)), (i - 1) % 4>>
    BY <2>5, <2>6, <2>7 DEF Char
  <2>9. SubSeq(x, g(i) + 1, end(i)) \in Seq(Nat)
    <3>1. a + g(i) \in Nat /\ a + end(i) \in Nat /\ a + g(i) <= a + end(i)
      <4> HIDE DEF g, end
      <4> QED BY <2>1
    <3> HIDE DEF g, end
    <3> QED BY <2>3, <3>1, BytesAre
  <2> QED BY <2>2, <2>3, <2>8, <2>9
<1> HIDE DEF x, g, end
<1>4. Mime!EncodedLength(n) \in Nat
  BY <1>1, LengthIs
<1>5. \A i \in 1..Mime!EncodedLength(n) : <<SubSeq(x, g(i) + 1, end(i)), (i - 1) % 4>> \in MimeChars
  BY <1>3 DEF MimeChars
<1> HIDE DEF n
<1>6. Mime!Encode(x) \in Seq(MimeChars) /\ Len(Mime!Encode(x)) = Mime!EncodedLength(n)
  BY <1>2, <1>4, <1>5
<1>7. \A i \in 1..Mime!EncodedLength(n) : Mime!Encode(x)[i] = Char(b, i + 4 * (a \div 3))
  BY <1>2, <1>3, <1>4
<1> QED BY <1>6, <1>7 DEF x, n

\* Groups do not depend on where the message was cut between them.
LEMMA EncodeJoin ==
    ASSUME NEW a \in Nat, NEW b \in Nat, a <= b, a % 3 = 0
    PROVE  Mime!Encode(Mime!Bytes(0, a)) \o Mime!Encode(Mime!Bytes(a, b)) = Mime!Encode(Mime!Bytes(0, b))
<1> DEFINE x == Mime!Encode(Mime!Bytes(0, a))
           y == Mime!Encode(Mime!Bytes(a, b))
           z == Mime!Encode(Mime!Bytes(0, b))
           m == Mime!EncodedLength(a)
           n == Mime!EncodedLength(b - a)
<1>0. /\ a - 0 = a /\ b - 0 = b /\ 4 * (0 \div 3) = 0 /\ 0 % 3 = 0 /\ b - a \in Nat /\ a + (b - a) = b
      /\ 0 \in Nat /\ 0 <= a /\ 0 <= b
  OBVIOUS
<1>1. /\ m \in Nat /\ n \in Nat /\ Mime!EncodedLength(b) = m + n
      /\ m = 4 * (a \div 3) /\ a = 3 * (a \div 3) /\ a \div 3 \in Nat
  <2>1. m \in Nat /\ m = 4 * (a \div 3) /\ a = 3 * (a \div 3)
    BY LengthIs
  <2>2. n \in Nat /\ Mime!EncodedLength(a + (b - a)) = m + n
    BY <1>0, LengthIs
  <2>3. a \div 3 \in Nat
    OBVIOUS
  <2> QED BY <1>0, <2>1, <2>2, <2>3
<1>2. x \in Seq(MimeChars) /\ Len(x) = m /\ \A i \in 1..m : x[i] = Char(a, i)
  <2>1. /\ x \in Seq(MimeChars) /\ Len(x) = Mime!EncodedLength(a - 0)
        /\ \A i \in 1..Mime!EncodedLength(a - 0) : x[i] = Char(a, i + 4 * (0 \div 3))
    BY <1>0, EncodeIs
  <2>2. \A i \in 1..m : i + 0 = i
    BY <1>1
  <2> QED BY <1>0, <2>1, <2>2
<1>3. y \in Seq(MimeChars) /\ Len(y) = n /\ \A i \in 1..n : y[i] = Char(b, i + m)
  BY <1>1, EncodeIs
<1>4. z \in Seq(MimeChars) /\ Len(z) = m + n /\ \A i \in 1..(m + n) : z[i] = Char(b, i)
  <2>1. /\ z \in Seq(MimeChars) /\ Len(z) = Mime!EncodedLength(b - 0)
        /\ \A i \in 1..Mime!EncodedLength(b - 0) : z[i] = Char(b, i + 4 * (0 \div 3))
    BY <1>0, EncodeIs
  <2>2. \A i \in 1..(m + n) : i + 0 = i
    BY <1>1
  <2> QED BY <1>0, <1>1, <2>1, <2>2
<1> HIDE DEF x, y, z, m, n
<1>5. ASSUME NEW i \in 1..m PROVE Char(a, i) = Char(b, i)
  <2> DEFINE g == 3 * ((i - 1) \div 4)
  <2>1. g + 3 <= a /\ g \in Nat
    BY <1>1
  <2>2. (IF g + 3 < a THEN g + 3 ELSE a) = (IF g + 3 < b THEN g + 3 ELSE b)
    BY <2>1
  <2> QED BY <2>2 DEF Char
<1>6. /\ x \o y \in Seq(MimeChars) /\ Len(x \o y) = m + n
      /\ \A i \in 1..(m + n) : (x \o y)[i] = IF i <= m THEN x[i] ELSE y[i - m]
  <2>1. /\ x \o y \in Seq(MimeChars) /\ Len(x \o y) = Len(x) + Len(y)
        /\ \A i \in 1..Len(x) + Len(y) : (x \o y)[i] = IF i <= Len(x) THEN x[i] ELSE y[i - Len(x)]
    <3>1. x \in Seq(MimeChars) /\ y \in Seq(MimeChars)
      BY <1>2, <1>3
    <3> QED BY <3>1, ConcatProperties
  <2> QED BY <1>2, <1>3, <2>1
<1>7. ASSUME NEW i \in 1..(m + n) PROVE (x \o y)[i] = z[i]
  <2>1. CASE i <= m
    BY <1>1, <1>2, <1>4, <1>5, <1>6, <2>1
  <2>2. CASE ~ (i <= m)
    <3>1. i - m \in 1..n /\ (i - m) + m = i
      BY <1>1, <2>2
    <3> QED BY <1>3, <1>4, <1>6, <2>2, <3>1
  <2> QED BY <2>1, <2>2
<1>8. x \o y = z
  BY <1>4, <1>6, <1>7, SeqEqual
<1> QED BY <1>8 DEF x, y, z

LEMMA Regrouped ==
    ASSUME NEW s \in Seq(MimeChars), NEW t \in Seq(MimeChars), NEW u \in Seq(MimeChars)
    PROVE  (s \o t) \o u = s \o (t \o u) /\ s \o t \in Seq(MimeChars)
<1> HIDE DEF MimeChars
<1> QED BY ConcatAssociative, ConcatProperties

EncodedTo(n) == Mime!Encode(Mime!Bytes(0, n))

\* What has been handed out or is ready, of the JSON body.
BodyInv ==
    /\ s2 \in Nat /\ s3 \in 0..s2 /\ s7 \in BOOLEAN
    /\ s4 \in {"Header", "Base64", "Tail", "Done"}
    /\ s5 \in Seq(MimeChars) /\ s8 \in Seq(MimeChars)
    /\ s4 \in {"Header", "Base64"} /\ ~ s7 =>
         \E m \in 0..s3 : /\ m % 3 = 0 /\ s6 = Mime!Bytes(m, s3)
                          /\ s8 \o s5 = Mime!Opening \o EncodedTo(m)
    /\ s4 = "Header" => ~ s7
    /\ s4 = "Base64" /\ s7 => s8 \o s5 = Mime!Opening \o EncodedTo(s2)
    /\ s4 \in {"Tail", "Done"} => s8 \o s5 = (Mime!Opening \o EncodedTo(s2)) \o Mime!Ending
    /\ s4 = "Done" => s5 = <<>>

FullLine(i) == Mime!Bytes(RawChunk * (i - 1), IF RawChunk * i < s2 THEN RawChunk * i ELSE s2)

\* The lines of an attachment, and the one that is being filled.
LineInv ==
    /\ s2 \in Nat /\ s3 \in 0..s2 /\ s4 \in {"Fill", "Done"} /\ s5 = <<>>
    /\ s8 \in Seq(Seq(Nat)) /\ \A i \in 1..Len(s8) : s8[i] = FullLine(i)
    /\ s4 = "Fill" => /\ RawChunk * Len(s8) <= s3 /\ s3 <= RawChunk * Len(s8) + RawChunk
                      /\ s6 = Mime!Bytes(RawChunk * Len(s8), s3)
    /\ s4 = "Done" => RawChunk * Len(s8) >= s2

MimeInv ==
    /\ s1 \in {"body", "part"}
    /\ s1 = "body" => BodyInv
    /\ s1 = "part" => LineInv

LEMMA MimeMoves ==
    ASSUME part = "mime", [WorkspaceNext]_wsVars
    PROVE  part' = part /\ (Mime!Next \/ UNCHANGED <<s1, s2, s3, s4, s5, s6, s7, s8>>)
BY DEF WorkspaceNext, wsVars, registers

LEMMA Framed == /\ Mime!Opening \in Seq(MimeChars) /\ Mime!Ending \in Seq(MimeChars)
                /\ \A n \in Nat : EncodedTo(n) \in Seq(MimeChars)
<1>1. Mime!Opening \in Seq(MimeChars) /\ Mime!Ending \in Seq(MimeChars)
  <2>1. <<>> \in Seq(Nat)
    OBVIOUS
  <2>2. \A c \in {"raw", "quote", "thread"} : <<<<>>, c>> \in MimeChars
    BY <2>1 DEF MimeChars
  <2> QED BY <2>2 DEF Mime!Opening, Mime!Ending
<1>2. ASSUME NEW n \in Nat PROVE EncodedTo(n) \in Seq(MimeChars)
  <2>1. 0 <= n /\ 0 % 3 = 0 /\ 0 \in Nat
    OBVIOUS
  <2> QED BY <2>1, EncodeIs DEF EncodedTo
<1> QED BY <1>1, <1>2

LEMMA MimeStarts == WorkspaceInit /\ part = "mime" => MimeInv
<1> SUFFICES ASSUME WorkspaceInit, part = "mime" PROVE MimeInv
  OBVIOUS
<1>1. Mime!Init
  BY DEF WorkspaceInit, PartInit
<1>2. s2 \in Nat /\ s3 = 0 /\ s6 = <<>> /\ s7 = FALSE /\ s8 = <<>>
  BY <1>1, MimeAssumption DEF Mime!Init
<1>3. Mime!Bytes(0, 0) = <<>>
  BY DEF Mime!Bytes
<1>4. CASE s1 = "body"
  <2>1. s4 = "Header" /\ s5 = Mime!Opening
    BY <1>1, <1>4 DEF Mime!Init
  <2>2. EncodedTo(0) = <<>>
    <3>1. 0 <= 0 /\ 0 % 3 = 0 /\ 0 \in Nat /\ 0 - 0 = 0
      OBVIOUS
    <3>2. Mime!EncodedLength(0) = 0
      BY DEF Mime!EncodedLength
    <3>3. EncodedTo(0) \in Seq(MimeChars) /\ Len(EncodedTo(0)) = 0
      BY <3>1, <3>2, EncodeIs DEF EncodedTo
    <3> QED BY <3>3, EmptySeq
  <2>3. s8 \o s5 = Mime!Opening \o EncodedTo(0)
    BY <1>2, <2>1, <2>2, Framed, ConcatEmptySeq
  <2>4. 0 % 3 = 0 /\ 0 \in 0..s3
    BY <1>2
  <2>5. \E m \in 0..s3 : m % 3 = 0 /\ s6 = Mime!Bytes(m, s3) /\ s8 \o s5 = Mime!Opening \o EncodedTo(m)
    BY <1>2, <1>3, <2>3, <2>4
  <2>6. s5 \in Seq(MimeChars) /\ s8 \in Seq(MimeChars) /\ s3 \in 0..s2
    BY <1>2, <2>1, Framed
  <2> QED BY <1>2, <1>4, <2>1, <2>5, <2>6 DEF MimeInv, BodyInv
<1>5. CASE s1 = "part"
  <2>1. s4 = "Fill" /\ s5 = <<>>
    BY <1>1, <1>5 DEF Mime!Init
  <2>2. RawChunk * Len(s8) = 0 /\ RawChunk \in Nat
    BY <1>2, MimeAssumption
  <2> QED BY <1>2, <1>3, <1>5, <2>1, <2>2 DEF MimeInv, LineInv
<1> QED BY <1>1, <1>4, <1>5 DEF Mime!Init

\* What is ready changes, what is handed out does not.
LEMMA Readied ==
    ASSUME NEW b \in Seq(MimeChars), s8 \in Seq(MimeChars), s5 = <<>>,
           s8 \o s5 = b, NEW p \in Seq(MimeChars), s5' = p, s8' = s8
    PROVE  s8' \o s5' = b \o p /\ s5' \in Seq(MimeChars) /\ s8' \in Seq(MimeChars)
BY ConcatEmptySeq

LEMMA BodyRead ==
    ASSUME BodyInv, s1 = "body", NEW n \in 1..MaxRead, Mime!Read(n)
    PROVE  BodyInv'
<1> DEFINE k == IF n < Len(s5) THEN n ELSE Len(s5)
<1>1. /\ s5 # <<>> /\ s8' = s8 \o SubSeq(s5, 1, k) /\ s5' = SubSeq(s5, k + 1, Len(s5))
      /\ UNCHANGED <<s1, s2, s3, s4, s6, s7>>
  BY DEF Mime!Read
<1>2. s5 \in Seq(MimeChars) /\ s8 \in Seq(MimeChars)
  BY DEF BodyInv
<1>3. k \in 0..Len(s5)
  BY <1>2, MimeAssumption
<1> HIDE DEF k
<1>4. SubSeq(s5, 1, k) \in Seq(MimeChars) /\ SubSeq(s5, k + 1, Len(s5)) \in Seq(MimeChars)
  BY <1>2, <1>3
<1>5. SubSeq(s5, 1, k) \o SubSeq(s5, k + 1, Len(s5)) = s5
  <2>1. 1 \in 1..Len(s5) + 1 /\ k \in 1 - 1..Len(s5) /\ Len(s5) \in k..Len(s5)
    BY <1>2, <1>3
  <2>2. SubSeq(s5, 1, k) \o SubSeq(s5, k + 1, Len(s5)) = SubSeq(s5, 1, Len(s5))
    BY <1>2, <2>1, ConcatAdjacentSubSeq
  <2> QED BY <1>2, <2>2, SubSeqFull
<1>6. s8' \o s5' = s8 \o s5
  <2>1. (s8 \o SubSeq(s5, 1, k)) \o SubSeq(s5, k + 1, Len(s5))
          = s8 \o (SubSeq(s5, 1, k) \o SubSeq(s5, k + 1, Len(s5)))
    BY <1>2, <1>4, Regrouped
  <2> QED BY <1>1, <1>5, <2>1, Zenon
<1>7. s8' \in Seq(MimeChars) /\ s5' \in Seq(MimeChars)
  BY <1>1, <1>2, <1>4, ConcatProperties
<1>8. s4 # "Done"
  BY <1>1 DEF BodyInv
<1> QED BY <1>1, <1>6, <1>7, <1>8 DEF BodyInv

LEMMA BodyRefill ==
    ASSUME BodyInv, Mime!Refill
    PROVE  BodyInv'
<1> DEFINE total == IF s3 + RawChunk < s2 THEN RawChunk ELSE s2 - s3
           combined == s6 \o Mime!Bytes(s3, s3 + total)
           aligned == 3 * (Len(combined) \div 3)
<1>1. /\ s4 = "Base64" /\ s5 = <<>> /\ ~ s7 /\ s3 < s2
      /\ s3' = s3 + total /\ s5' = Mime!Encode(SubSeq(combined, 1, aligned))
      /\ s6' = SubSeq(combined, aligned + 1, Len(combined))
      /\ UNCHANGED <<s1, s2, s4, s7, s8>>
  BY DEF Mime!Refill
<1>2. /\ s2 \in Nat /\ s3 \in Nat /\ total \in Nat /\ s3 + total \in Nat /\ s3 + total <= s2
      /\ s3 <= s3 + total
  BY <1>1, MimeAssumption DEF BodyInv
<1>3. PICK m \in 0..s3 : m % 3 = 0 /\ s6 = Mime!Bytes(m, s3) /\ s8 \o s5 = Mime!Opening \o EncodedTo(m)
  BY <1>1 DEF BodyInv
<1> HIDE DEF total
<1> DEFINE end == s3 + total
           new == m + aligned
<1>4. m \in Nat /\ m <= s3 /\ m <= end
  BY <1>2, <1>3
<1>5. combined = Mime!Bytes(m, end)
  BY <1>2, <1>3, <1>4, BytesJoin
<1>6. Len(combined) = end - m /\ end - m \in Nat
  <2>1. end \in Nat
    BY <1>2
  <2> HIDE DEF end, combined
  <2>2. Len(Mime!Bytes(m, end)) = end - m
    BY <1>4, <2>1, BytesAre
  <2> QED BY <1>4, <1>5, <2>1, <2>2
<1> HIDE DEF combined
<1>7. aligned \in Nat /\ aligned <= end - m /\ aligned % 3 = 0
  BY <1>6
<1> HIDE DEF aligned
<1>8. new \in Nat /\ m <= new /\ new <= end /\ new % 3 = 0 /\ m + (end - m) = end
  <2>1. end \in Nat
    BY <1>2
  <2> HIDE DEF end
  <2> QED BY <1>3, <1>4, <1>7, <2>1
<1>9. SubSeq(combined, 1, aligned) = Mime!Bytes(m, new)
  <2>1. SubSeq(Mime!Bytes(m, end), 0 + 1, aligned) = Mime!Bytes(m + 0, new)
    <3>1. 0 \in Nat /\ 0 <= aligned /\ end \in Nat
      BY <1>2, <1>7
    <3> HIDE DEF end
    <3> QED BY <1>4, <1>7, <3>1, BytesWithin, ZenonT(40)
  <2> QED BY <1>4, <1>5, <2>1
<1>10. s6' = Mime!Bytes(new, end)
  <2>1. SubSeq(Mime!Bytes(m, end), aligned + 1, end - m) = Mime!Bytes(new, m + (end - m))
    <3>1. end \in Nat /\ end - m \in Nat /\ end - m <= end - m
      BY <1>2, <1>6
    <3> HIDE DEF end
    <3> QED BY <1>4, <1>7, <3>1, BytesWithin, ZenonT(40)
  <2> QED BY <1>1, <1>5, <1>6, <1>8, <2>1
<1> HIDE DEF end, new
<1>11. s5' \in Seq(MimeChars) /\ s5' = Mime!Encode(Mime!Bytes(m, new))
  BY <1>1, <1>3, <1>4, <1>8, <1>9, EncodeIs
<1>12. EncodedTo(m) \o s5' = EncodedTo(new)
  BY <1>3, <1>4, <1>8, <1>11, EncodeJoin DEF EncodedTo
<1>13. s8 \in Seq(MimeChars) /\ Mime!Opening \in Seq(MimeChars) /\ EncodedTo(m) \in Seq(MimeChars)
  BY <1>4, Framed DEF BodyInv
<1>14. s8' \o s5' = Mime!Opening \o EncodedTo(new)
  <2>1. s8' \o s5' = (Mime!Opening \o EncodedTo(m)) \o s5'
    BY <1>1, <1>3, <1>13, ConcatEmptySeq
  <2>2. (Mime!Opening \o EncodedTo(m)) \o s5' = Mime!Opening \o (EncodedTo(m) \o s5')
    BY <1>11, <1>13, Regrouped
  <2> QED BY <1>12, <2>1, <2>2, Zenon
<1>15. s3' = end /\ new \in 0..s3' /\ s3' \in 0..s2'
  BY <1>1, <1>2, <1>8 DEF end
<1> QED BY <1>1, <1>2, <1>8, <1>10, <1>11, <1>13, <1>14, <1>15 DEF BodyInv

LEMMA BodyFlush ==
    ASSUME BodyInv, Mime!Flush
    PROVE  BodyInv'
<1>1. /\ s4 = "Base64" /\ s5 = <<>> /\ ~ s7 /\ s3 = s2 /\ s7' = TRUE
      /\ s5' = Mime!Encode(s6) /\ UNCHANGED <<s1, s2, s3, s4, s8>>
  BY DEF Mime!Flush
<1>2. PICK m \in 0..s3 : m % 3 = 0 /\ s6 = Mime!Bytes(m, s3) /\ s8 \o s5 = Mime!Opening \o EncodedTo(m)
  BY <1>1 DEF BodyInv
<1>3. m \in Nat /\ s2 \in Nat /\ m <= s2 /\ s3 \in 0..s2
  BY <1>1, <1>2 DEF BodyInv
<1>4. s5' \in Seq(MimeChars) /\ s5' = Mime!Encode(Mime!Bytes(m, s2))
  BY <1>1, <1>2, <1>3, EncodeIs
<1>5. EncodedTo(m) \o s5' = EncodedTo(s2)
  BY <1>2, <1>3, <1>4, EncodeJoin DEF EncodedTo
<1>6. s8 \in Seq(MimeChars) /\ Mime!Opening \in Seq(MimeChars) /\ EncodedTo(m) \in Seq(MimeChars)
  BY <1>3, Framed DEF BodyInv
<1>7. s8' \o s5' = Mime!Opening \o EncodedTo(s2)
  <2>1. s8' \o s5' = (Mime!Opening \o EncodedTo(m)) \o s5'
    BY <1>1, <1>2, <1>6, ConcatEmptySeq
  <2>2. (Mime!Opening \o EncodedTo(m)) \o s5' = Mime!Opening \o (EncodedTo(m) \o s5')
    BY <1>4, <1>6, Regrouped
  <2> QED BY <1>5, <2>1, <2>2, Zenon
<1> QED BY <1>1, <1>3, <1>4, <1>6, <1>7 DEF BodyInv

LEMMA BodyNextPhase ==
    ASSUME BodyInv, Mime!NextPhase
    PROVE  BodyInv'
<1>1. s5 = <<>> /\ UNCHANGED <<s1, s2, s3, s6, s7, s8>>
  BY DEF Mime!NextPhase
<1>2. CASE s4 = "Header" /\ s4' = "Base64" /\ s5' = s5
  BY <1>1, <1>2 DEF BodyInv
<1>3. CASE s4 = "Base64" /\ s7 /\ s4' = "Tail" /\ s5' = Mime!Ending
  <2>1. s8 \o s5 = Mime!Opening \o EncodedTo(s2) /\ s8 \in Seq(MimeChars)
    BY <1>3 DEF BodyInv
  <2>2. Mime!Opening \o EncodedTo(s2) \in Seq(MimeChars)
    BY Framed, ConcatProperties DEF BodyInv
  <2>3. s8' \o s5' = (Mime!Opening \o EncodedTo(s2)) \o Mime!Ending
    BY <1>1, <1>3, <2>1, ConcatEmptySeq
  <2> QED BY <1>1, <1>3, <2>3, Framed DEF BodyInv
<1>4. CASE s4 = "Tail" /\ s4' = "Done" /\ s5' = s5
  BY <1>1, <1>4 DEF BodyInv
<1> QED BY <1>2, <1>3, <1>4 DEF Mime!NextPhase

LEMMA LineFill ==
    ASSUME LineInv, NEW n \in 1..MaxRead, Mime!Fill(n)
    PROVE  LineInv'
<1> DEFINE most == IF RawChunk - Len(s6) < s2 - s3 THEN RawChunk - Len(s6) ELSE s2 - s3
           k == IF n < most THEN n ELSE most
           start == RawChunk * Len(s8)
<1>1. /\ s4 = "Fill" /\ Len(s6) < RawChunk /\ s3 < s2
      /\ s6' = s6 \o Mime!Bytes(s3, s3 + k) /\ s3' = s3 + k
      /\ UNCHANGED <<s1, s2, s4, s5, s7, s8>>
  BY DEF Mime!Fill
<1>2. /\ s2 \in Nat /\ s3 \in 0..s2 /\ Len(s8) \in Nat /\ RawChunk \in Nat /\ n \in Nat
      /\ start <= s3 /\ s3 <= start + RawChunk /\ s6 = Mime!Bytes(start, s3)
  BY <1>1, MimeAssumption DEF LineInv
<1>3. start \in Nat
  BY <1>2
<1> HIDE DEF start
<1>4. Len(s6) = s3 - start
  <2>1. s3 \in Nat
    BY <1>2
  <2> QED BY <1>2, <1>3, <2>1, BytesAre
<1>5. k \in Nat /\ k <= s2 - s3 /\ s3 + k <= start + RawChunk
  BY <1>1, <1>2, <1>3, <1>4
<1> HIDE DEF k, most
<1>6. s3 + k \in Nat /\ s3 <= s3 + k
  BY <1>2, <1>5
<1>7. s6' = Mime!Bytes(start, s3 + k)
  <2>1. s3 \in Nat
    BY <1>2
  <2>2. Mime!Bytes(start, s3) \o Mime!Bytes(s3, s3 + k) = Mime!Bytes(start, s3 + k)
    BY <1>2, <1>3, <1>6, <2>1, BytesJoin
  <2> QED BY <1>1, <1>2, <2>2
<1>8. s3' \in 0..s2'
  BY <1>1, <1>2, <1>5
<1>9. start <= s3' /\ s3' <= start + RawChunk /\ s6' = Mime!Bytes(start, s3')
  BY <1>1, <1>2, <1>3, <1>5, <1>7
<1> QED BY <1>1, <1>8, <1>9 DEF LineInv, FullLine, start

LEMMA LineWritten ==
    ASSUME LineInv, Mime!WriteLine
    PROVE  LineInv'
<1> DEFINE count == Len(s8)
           start == RawChunk * count
<1>1. /\ s4 = "Fill" /\ (Len(s6) = RawChunk \/ s3 = s2)
      /\ s8' = IF s6 = <<>> THEN s8 ELSE Append(s8, s6)
      /\ s6' = <<>> /\ s4' = IF Len(s6) < RawChunk THEN "Done" ELSE "Fill"
      /\ UNCHANGED <<s1, s2, s3, s5, s7>>
  BY DEF Mime!WriteLine
<1>2. /\ s2 \in Nat /\ s3 \in 0..s2 /\ count \in Nat /\ RawChunk \in Nat \ {0}
      /\ start <= s3 /\ s3 <= start + RawChunk /\ s6 = Mime!Bytes(start, s3)
      /\ s8 \in Seq(Seq(Nat)) /\ \A i \in 1..count : s8[i] = FullLine(i)
  BY <1>1, MimeAssumption DEF LineInv
<1>3. /\ start \in Nat /\ RawChunk * (count + 1) = start + RawChunk /\ RawChunk * ((count + 1) - 1) = start
  BY <1>2
<1>4. \A i : FullLine(i)' = FullLine(i)
  BY <1>1 DEF FullLine
<1> HIDE DEF start
<1>5. Len(s6) = s3 - start /\ s6 \in Seq(Nat)
  <2>1. s3 \in Nat
    BY <1>2
  <2> QED BY <1>2, <1>3, <2>1, BytesAre
<1>6. CASE s6 = <<>>
  <2>1. s3 = start /\ s3 = s2 /\ s8' = s8 /\ s4' = "Done"
    BY <1>1, <1>2, <1>3, <1>5, <1>6
  <2> QED BY <1>1, <1>2, <1>4, <2>1 DEF LineInv, start
<1>7. CASE s6 # <<>>
  <2>1. /\ s8' = Append(s8, s6) /\ s8' \in Seq(Seq(Nat)) /\ Len(s8') = count + 1
        /\ s8'[count + 1] = s6 /\ \A i \in 1..count : s8'[i] = s8[i]
    BY <1>1, <1>2, <1>5, <1>7
  <2>2. s3 = IF start + RawChunk < s2 THEN start + RawChunk ELSE s2
    BY <1>1, <1>2, <1>3, <1>5
  <2>3. s6 = FullLine(count + 1)
    BY <1>2, <1>3, <2>2 DEF FullLine
  <2>4. ASSUME NEW i \in 1..(count + 1) PROVE s8'[i] = FullLine(i)
    <3>1. CASE i \in 1..count
      BY <1>2, <2>1, <3>1
    <3>2. CASE i = count + 1
      BY <2>1, <2>3, <3>2
    <3> QED BY <1>2, <3>1, <3>2
  <2>5. \A i \in 1..Len(s8') : s8'[i] = FullLine(i)'
    BY <1>4, <2>1, <2>4
  <2>6. RawChunk * Len(s8') = start + RawChunk
    BY <1>3, <2>1
  <2>7. CASE Len(s6) = RawChunk
    <3>1. s4' = "Fill" /\ s3 = start + RawChunk
      BY <1>1, <1>2, <1>3, <1>5, <2>7
    <3>2. Mime!Bytes(s3, s3) = <<>>
      <4>1. s3 \in Nat /\ s3 <= s3 /\ s3 - s3 = 0
        BY <1>2
      <4>2. Mime!Bytes(s3, s3) \in Seq(Nat) /\ Len(Mime!Bytes(s3, s3)) = 0
        BY <4>1, BytesAre
      <4> QED BY <4>2, EmptySeq
    <3>3. RawChunk * Len(s8') <= s3' /\ s3' <= RawChunk * Len(s8') + RawChunk
      BY <1>1, <1>2, <1>3, <2>6, <3>1
    <3>4. s6' = Mime!Bytes(RawChunk * Len(s8'), s3')
      BY <1>1, <2>6, <3>1, <3>2
    <3> QED BY <1>1, <1>2, <2>1, <2>5, <3>1, <3>3, <3>4 DEF LineInv
  <2>8. CASE Len(s6) # RawChunk
    <3>1. s4' = "Done" /\ s3 = s2
      BY <1>1, <1>2, <1>3, <1>5, <2>8
    <3>2. RawChunk * Len(s8') >= s2'
      BY <1>1, <1>2, <1>3, <2>6, <3>1
    <3> QED BY <1>1, <1>2, <2>1, <2>5, <3>1, <3>2 DEF LineInv
  <2> QED BY <2>7, <2>8
<1> QED BY <1>6, <1>7

LEMMA MimeStep ==
    ASSUME MimeInv, Mime!Next \/ UNCHANGED <<s1, s2, s3, s4, s5, s6, s7, s8>>
    PROVE  MimeInv'
<1>1. ASSUME NEW n \in 1..MaxRead, Mime!Read(n) PROVE MimeInv'
  <2>1. s1' = s1 /\ s1 = "body"
    BY <1>1 DEF Mime!Read, MimeInv, LineInv
  <2> QED BY <1>1, <2>1, BodyRead DEF MimeInv
<1>2. ASSUME NEW n \in 1..MaxRead, Mime!Fill(n) PROVE MimeInv'
  <2>1. s1' = s1 /\ s1 = "part"
    BY <1>2 DEF Mime!Fill, MimeInv, BodyInv
  <2> QED BY <1>2, <2>1, LineFill DEF MimeInv
<1>3. CASE Mime!Refill
  <2>1. s1' = s1 /\ s1 = "body"
    BY <1>3 DEF Mime!Refill, MimeInv, LineInv
  <2> QED BY <1>3, <2>1, BodyRefill DEF MimeInv
<1>4. CASE Mime!Flush
  <2>1. s1' = s1 /\ s1 = "body"
    BY <1>4 DEF Mime!Flush, MimeInv, LineInv
  <2> QED BY <1>4, <2>1, BodyFlush DEF MimeInv
<1>5. CASE Mime!NextPhase
  <2>1. s1' = s1 /\ s1 = "body"
    BY <1>5 DEF Mime!NextPhase
  <2> QED BY <1>5, <2>1, BodyNextPhase DEF MimeInv
<1>6. CASE Mime!WriteLine
  <2>1. s1' = s1 /\ s1 = "part"
    BY <1>6 DEF Mime!WriteLine, MimeInv, BodyInv
  <2> QED BY <1>6, <2>1, LineWritten DEF MimeInv
<1>7. CASE UNCHANGED <<s1, s2, s3, s4, s5, s6, s7, s8>>
  BY <1>7 DEF MimeInv, BodyInv, LineInv, FullLine
<1> QED BY <1>1, <1>2, <1>3, <1>4, <1>5, <1>6, <1>7 DEF Mime!Next

\* The first part of a sequence is a prefix of it.
LEMMA PrefixIs ==
    ASSUME NEW s \in Seq(MimeChars), NEW t \in Seq(MimeChars)
    PROVE  Mime!IsPrefix(s, s \o t)
<1>1. Len(s) \in Nat /\ Len(t) \in Nat /\ Len(s \o t) = Len(s) + Len(t)
  BY ConcatProperties
<1>2. SubSeq(s \o t, 1, Len(s)) = SubSeq(s, 1, Len(s))
  <2>1. 1 \in 1..Len(s) + 1 /\ Len(s) \in 1 - 1..Len(s)
    BY <1>1
  <2> QED BY <2>1, SubSeqOfConcat1
<1> QED BY <1>1, <1>2 DEF Mime!IsPrefix

LEMMA MimeTold == MimeInv => Mime!EncodingIsWhole
<1> SUFFICES ASSUME MimeInv PROVE Mime!EncodingIsWhole
  OBVIOUS
<1>1. CASE s1 = "body"
  <2> DEFINE start == Mime!Opening \o EncodedTo(s2)
             body == start \o Mime!Ending
  <2>0. BodyInv /\ s2 \in Nat /\ s5 \in Seq(MimeChars) /\ s8 \in Seq(MimeChars)
    BY <1>1 DEF MimeInv, BodyInv
  <2>1. /\ Mime!Opening \in Seq(MimeChars) /\ Mime!Ending \in Seq(MimeChars)
        /\ EncodedTo(s2) \in Seq(MimeChars) /\ start \in Seq(MimeChars) /\ body \in Seq(MimeChars)
    BY <2>0, Framed, ConcatProperties
  \* Whatever is there, the rest of the body goes behind it.
  <2>2. ASSUME NEW a \in Seq(MimeChars), NEW b \in Seq(MimeChars), s8 \o s5 = a, a \o b = body
        PROVE  Mime!IsPrefix(s8, body)
    <3>1. s8 \o (s5 \o b) = body /\ s5 \o b \in Seq(MimeChars)
      <4>1. (s8 \o s5) \o b = s8 \o (s5 \o b) /\ s5 \o b \in Seq(MimeChars)
        BY <2>0, Regrouped
      <4> QED BY <2>2, <4>1, Zenon
    <3> QED BY <2>0, <3>1, PrefixIs
  <2>3. CASE s4 \in {"Header", "Base64"} /\ ~ s7
    <3>1. PICK m \in 0..s3 : m % 3 = 0 /\ s8 \o s5 = Mime!Opening \o EncodedTo(m)
      BY <2>0, <2>3 DEF BodyInv
    <3>2. m \in Nat /\ m <= s2
      BY <2>0, <3>1 DEF BodyInv
    <3> DEFINE rest == Mime!Encode(Mime!Bytes(m, s2))
    <3>3. EncodedTo(m) \in Seq(MimeChars) /\ rest \in Seq(MimeChars) /\ EncodedTo(m) \o rest = EncodedTo(s2)
      BY <2>0, <3>1, <3>2, Framed, EncodeIs, EncodeJoin DEF EncodedTo
    <3> HIDE DEF rest
    <3>4. (Mime!Opening \o EncodedTo(m)) \o rest = start
      <4>1. (Mime!Opening \o EncodedTo(m)) \o rest = Mime!Opening \o (EncodedTo(m) \o rest)
        <5>1. Mime!Opening \in Seq(MimeChars) /\ EncodedTo(m) \in Seq(MimeChars) /\ rest \in Seq(MimeChars)
          BY <2>1, <3>3
        <5> QED BY <5>1, Regrouped
      <4> QED BY <3>3, <4>1, Zenon
    <3>5. Mime!Opening \o EncodedTo(m) \in Seq(MimeChars) /\ rest \o Mime!Ending \in Seq(MimeChars)
      BY <2>1, <3>3, ConcatProperties
    <3>6. (Mime!Opening \o EncodedTo(m)) \o (rest \o Mime!Ending) = body
      <4>1. ((Mime!Opening \o EncodedTo(m)) \o rest) \o Mime!Ending
              = (Mime!Opening \o EncodedTo(m)) \o (rest \o Mime!Ending)
        <5>1. /\ Mime!Opening \o EncodedTo(m) \in Seq(MimeChars) /\ rest \in Seq(MimeChars)
              /\ Mime!Ending \in Seq(MimeChars)
          BY <2>1, <3>3, <3>5
        <5> QED BY <5>1, Regrouped
      <4> QED BY <3>4, <4>1, Zenon
    <3>7. Mime!IsPrefix(s8, body)
      BY <2>2, <3>1, <3>5, <3>6
    <3> QED BY <1>1, <2>3, <3>7 DEF Mime!EncodingIsWhole, EncodedTo
  <2>4. CASE s4 = "Base64" /\ s7
    <3>1. s8 \o s5 = start
      BY <2>0, <2>4 DEF BodyInv
    <3>2. Mime!IsPrefix(s8, body)
      BY <2>1, <2>2, <3>1
    <3> QED BY <1>1, <2>4, <3>2 DEF Mime!EncodingIsWhole, EncodedTo
  <2>5. CASE s4 \in {"Tail", "Done"}
    <3>1. s8 \o s5 = body
      BY <2>0, <2>5 DEF BodyInv
    <3>2. Mime!IsPrefix(s8, body)
      BY <2>0, <3>1, PrefixIs
    <3>3. s4 = "Done" => s8 = body
      BY <2>0, <3>1, ConcatEmptySeq DEF BodyInv
    <3> QED BY <1>1, <3>2, <3>3 DEF Mime!EncodingIsWhole, EncodedTo
  <2> QED BY <2>0, <2>3, <2>4, <2>5 DEF BodyInv
<1>2. CASE s1 = "part"
  BY <1>2 DEF MimeInv, LineInv, FullLine, Mime!EncodingIsWhole
<1> QED BY <1>1, <1>2 DEF MimeInv

LEMMA SendersAlike == Mime!SendersAgree
<1> SUFFICES ASSUME NEW images \in 1..MaxParts, NEW attachments \in 0..MaxParts
             PROVE  Mime!Written(images, attachments) = Mime!Composed(images, attachments)
  BY DEF Mime!SendersAgree
<1>1. images # 0
  BY MimeAssumption
<1> QED BY <1>1, Zenon DEF Mime!Written, Mime!Composed

-----------------------------------------------------------------------------
(* The tabs of a spreadsheet *)

\* What a push may rely on: the rows the tab had are in the tab until it is cleared, in the
\* snapshot from then on, and in the tab or the .bak file at the end.
RowsKept ==
    CASE s4 = "idle" -> s7 = 0 \/ s1 = s7 \/ s3 = s7
      [] s4 = "snapshot" -> s1 = s7
      [] s4 = "clear" -> s1 = s7 /\ s6 = s7
      [] s4 \in {"write", "backup", "restore"} -> s6 = s7

SheetInv ==
    /\ s4 \in {"idle", "snapshot", "clear", "write", "backup", "restore"}
    /\ s8 \in BOOLEAN
    /\ ~ s8 => RowsKept

LEMMA SheetMoves ==
    ASSUME part = "sheets", [WorkspaceNext]_wsVars
    PROVE  part' = part /\ (Sheets!Next \/ UNCHANGED <<s1, s2, s3, s4, s5, s6, s7, s8, s9, s10>>)
BY DEF WorkspaceNext, wsVars, registers

LEMMA SheetStarts == WorkspaceInit /\ part = "sheets" => SheetInv
<1> SUFFICES ASSUME WorkspaceInit, part = "sheets"
             PROVE  SheetInv
  OBVIOUS
<1>1. Sheets!Init
  BY DEF WorkspaceInit, PartInit
<1> QED BY <1>1 DEF Sheets!Init, SheetInv, RowsKept

LEMMA SheetStep ==
    ASSUME SheetInv, Sheets!Next \/ UNCHANGED <<s1, s2, s3, s4, s5, s6, s7, s8, s9, s10>>
    PROVE  SheetInv'
<1> USE DEF SheetInv, RowsKept, Sheets!push
<1>1. CASE Sheets!Begin \/ Sheets!Snapshot \/ Sheets!SnapshotFails
  BY <1>1 DEF Sheets!Begin, Sheets!Snapshot, Sheets!SnapshotFails
<1>2. CASE Sheets!ClearTab \/ Sheets!ClearFails
  BY <1>2 DEF Sheets!ClearTab, Sheets!ClearFails
<1>3. CASE Sheets!WriteTab \/ Sheets!WriteFails
  BY <1>3 DEF Sheets!WriteTab, Sheets!WriteFails
<1>4. CASE Sheets!SaveBackup \/ Sheets!SaveFails
  BY <1>4 DEF Sheets!SaveBackup, Sheets!SaveFails
<1>5. CASE Sheets!Restore \/ Sheets!RestoreFails
  BY <1>5 DEF Sheets!Restore, Sheets!RestoreFails
<1>6. CASE Sheets!Kill
  BY <1>6 DEF Sheets!Kill
<1>7. CASE Sheets!Pull \/ Sheets!EditFile
  BY <1>7 DEF Sheets!Pull, Sheets!EditFile
<1>8. CASE Sheets!EditTab
  BY <1>8 DEF Sheets!EditTab
<1>9. CASE UNCHANGED <<s1, s2, s3, s4, s5, s6, s7, s8, s9, s10>>
  BY <1>9
<1> QED BY <1>1, <1>2, <1>3, <1>4, <1>5, <1>6, <1>7, <1>8, <1>9 DEF Sheets!Next

-----------------------------------------------------------------------------
(* The files in Drive *)

Former == {"old", "edit"}
Latter == {"new", "edit"}

\* The content of a document is never a mixture, as long as a batch is applied to what was
\* read; what was written but not by a command of these is nowhere.
ContentsKept ==
    /\ s2 \in Seq(Former \cup Latter)
    /\ ~ s6 => s2 \in Seq(Former) \/ s2 \in Seq(Latter)
    /\ ~ s6 /\ s7 = "written" => s2 \in Seq(Latter)
    /\ s1 \notin Drive!Binary \cup {"document"} => s2 \in Seq(Former)

\* What a command that runs may rely on.
Underway ==
    /\ s3 # "idle" => s7 = "none"
    /\ s3 = "media" => s1 \in Drive!Binary
    /\ s3 = "update" => s1 = "document" /\ (~ s6 => s5 = Len(s2))
    /\ s3 = "share" => s8 # <<>>
    /\ s7 = "shared" => s8 # <<>> /\ s8[Len(s8)]

DriveInv ==
    /\ s1 \in Drive!Kinds /\ s3 \in {"idle", "length", "update", "media", "share"}
    /\ s4 \in Seq({"new"}) /\ s5 \in Nat /\ s6 \in BOOLEAN /\ s8 \in Seq(BOOLEAN)
    /\ ContentsKept
    /\ Underway

LEMMA DriveMoves ==
    ASSUME part = "drive", [WorkspaceNext]_wsVars
    PROVE  part' = part /\ (Drive!Next \/ UNCHANGED <<s1, s2, s3, s4, s5, s6, s7, s8, s9, s10, s11>>)
BY DEF WorkspaceNext, wsVars, registers

LEMMA DriveStarts == WorkspaceInit /\ part = "drive" => DriveInv
<1> SUFFICES ASSUME WorkspaceInit, part = "drive"
             PROVE  DriveInv
  OBVIOUS
<1>1. Drive!Init
  BY DEF WorkspaceInit, PartInit
<1>2. s2 \in {<<>>, <<"old">>, <<"old", "old">>}
  BY <1>1 DEF Drive!Init
<1>3. ASSUME NEW S, "old" \in S PROVE s2 \in Seq(S)
  <2>1. <<>> \in Seq(S) /\ <<"old">> \in Seq(S) /\ <<"old", "old">> \in Seq(S)
    BY <1>3
  <2> QED BY <1>2, <2>1
<1>4. s2 \in Seq(Former) /\ s2 \in Seq(Former \cup Latter)
  BY <1>3 DEF Former
<1>5. /\ s1 \in Drive!Kinds /\ s3 = "idle" /\ s4 = <<>> /\ s5 = 0 /\ s6 = FALSE
      /\ s7 = "none" /\ s8 = <<>>
  BY <1>1 DEF Drive!Init
<1>6. s4 \in Seq({"new"}) /\ s8 \in Seq(BOOLEAN)
  BY <1>5, EmptySeq
<1>7. ContentsKept /\ Underway
  BY <1>4, <1>5 DEF ContentsKept, Underway
<1> QED BY <1>5, <1>6, <1>7 DEF DriveInv

\* An edit adds nothing but what others type.
LEMMA EditKeeps ==
    ASSUME NEW S, "edit" \in S, s2 \in Seq(S), Drive!Edit
    PROVE  s2' \in Seq(S)
<1>1. s2' = <<"edit">> \o s2 \/ s2' = Append(s2, "edit") \/ (s2 # <<>> /\ s2' = Drive!Front(s2))
  BY DEF Drive!Edit
<1>2. CASE s2' = <<"edit">> \o s2
  BY <1>2
<1>3. CASE s2' = Append(s2, "edit")
  BY <1>3
<1>4. CASE s2 # <<>> /\ s2' = Drive!Front(s2)
  BY <1>4 DEF Drive!Front
<1> QED BY <1>1, <1>2, <1>3, <1>4

LEMMA NewIsLatter ==
    ASSUME NEW c \in Seq({"new"})
    PROVE  c \in Seq(Latter) /\ c \in Seq(Former \cup Latter)
BY DEF Former, Latter

\* A command that leaves the text alone.
LEMMA ElsewhereStep ==
    ASSUME DriveInv, UNCHANGED <<s1, s2, s6>>, s7' # "written" \/ s7' = s7,
           s3' \in {"idle", "length", "update", "media", "share"},
           s4' \in Seq({"new"}), s5' \in Nat, s8' \in Seq(BOOLEAN), Underway'
    PROVE  DriveInv'
<1>1. ContentsKept'
  BY DEF DriveInv, ContentsKept, Drive!Binary
<1> QED BY <1>1 DEF DriveInv

LEMMA DriveStep ==
    ASSUME DriveInv, Drive!Next \/ UNCHANGED <<s1, s2, s3, s4, s5, s6, s7, s8, s9, s10, s11>>
    PROVE  DriveInv'
<1>0. /\ s1 \in Drive!Kinds /\ s3 \in {"idle", "length", "update", "media", "share"}
      /\ s4 \in Seq({"new"}) /\ s5 \in Nat /\ s6 \in BOOLEAN /\ s8 \in Seq(BOOLEAN)
      /\ s2 \in Seq(Former \cup Latter) /\ Len(s2) \in Nat
      /\ ContentsKept /\ Underway
  BY DEF DriveInv, ContentsKept
<1>1. ASSUME NEW h \in Drive!Hints, NEW c \in Drive!Contents, Drive!BeginWrite(h, c) PROVE DriveInv'
  <2>1. /\ Drive!WriteVia(h) = "media" => s1 \in Drive!Binary
        /\ Drive!WriteVia(h) \in {"document", "spreadsheet", "media", s1}
    BY <1>0 DEF Drive!WriteVia, Drive!Hints, Drive!Kinds, Drive!Binary
  <2>t. /\ s4' = c /\ s7' \in {"failed", "none"} /\ UNCHANGED <<s1, s2, s5, s6, s8>>
        /\ s3' \in {"idle", "length", "media"} /\ (s3' # "idle" => s7' = "none")
        /\ s3' = "media" => s1 \in Drive!Binary
    BY <1>1, <2>1 DEF Drive!BeginWrite, Drive!Start
  <2>2. c \in Seq({"new"})
    BY DEF Drive!Contents
  <2>3. Underway'
    BY <2>t DEF Underway, Drive!Binary
  <2> QED BY <1>0, <2>t, <2>2, <2>3, ElsewhereStep
<1>2. ASSUME NEW h \in Drive!Hints, Drive!Read(h) PROVE DriveInv'
  <2>1. s3' = "idle" /\ s7' \in {"read", "failed"} /\ UNCHANGED <<s1, s2, s4, s5, s6, s8>>
    BY <1>2 DEF Drive!Read, Drive!Start
  <2>2. Underway'
    BY <2>1 DEF Underway
  <2> QED BY <1>0, <2>1, <2>2, ElsewhereStep
<1>3. CASE Drive!ReadLength
  <2>1. /\ s3 = "length" /\ UNCHANGED <<s1, s2, s4, s6, s8>>
        /\ \/ s1 = "document" /\ s3' = "update" /\ s5' = Len(s2) /\ s7' = s7
           \/ s3' = "idle" /\ s7' = "failed" /\ s5' = s5
    BY <1>3 DEF Drive!ReadLength
  <2>2. Underway'
    BY <1>0, <2>1 DEF Underway
  <2> QED BY <1>0, <2>1, <2>2, ElsewhereStep
<1>4. CASE Drive!RequestFails
  <2>1. s3' = "idle" /\ s7' = "failed" /\ UNCHANGED <<s1, s2, s4, s5, s6, s8>>
    BY <1>4 DEF Drive!RequestFails, Drive!Finish
  <2>2. Underway'
    BY <2>1 DEF Underway
  <2> QED BY <1>0, <2>1, <2>2, ElsewhereStep
<1>5. CASE Drive!Edit
  <2>1. s6' = (s6 \/ s3 = "update") /\ UNCHANGED <<s1, s3, s4, s5, s7, s8>>
    BY <1>5 DEF Drive!Edit
  <2>2. /\ s2' \in Seq(Former \cup Latter)
        /\ s2 \in Seq(Former) => s2' \in Seq(Former)
        /\ s2 \in Seq(Latter) => s2' \in Seq(Latter)
    BY <1>0, <1>5, EditKeeps DEF Former, Latter
  <2>3. ContentsKept'
    BY <1>0, <2>1, <2>2 DEF ContentsKept, Drive!Binary
  <2>4. Underway'
    BY <1>0, <2>1 DEF Underway, Drive!Binary
  <2> QED BY <1>0, <2>1, <2>3, <2>4 DEF DriveInv
<1>6. ASSUME NEW answered \in BOOLEAN, Drive!Update(answered) PROVE DriveInv'
  <2>1. /\ s3 = "update" /\ s2' = s4 \o SubSeq(s2, s5 + 1, Len(s2)) /\ s3' = "idle"
        /\ s7' \in {"written", "failed"} /\ UNCHANGED <<s1, s4, s5, s6, s8>>
    BY <1>6 DEF Drive!Update, Drive!Replaced, Drive!Finish
  <2>2. SubSeq(s2, s5 + 1, Len(s2)) \in Seq(Former \cup Latter)
    BY <1>0
  <2>3. s2' \in Seq(Former \cup Latter)
    BY <1>0, <2>1, <2>2, NewIsLatter
  <2>4. ~ s6 => s2' = s4
    <3> SUFFICES ASSUME ~ s6 PROVE s2' = s4
      OBVIOUS
    <3>1. s5 = Len(s2)
      BY <1>0, <2>1 DEF Underway
    <3>2. SubSeq(s2, s5 + 1, Len(s2)) = <<>>
      BY <1>0, <3>1, SubSeqEmpty
    <3>3. s4 \o <<>> = s4
      BY <1>0, ConcatEmptySeq
    <3> QED BY <2>1, <3>2, <3>3
  <2>5. ContentsKept'
    BY <1>0, <2>1, <2>3, <2>4, NewIsLatter DEF ContentsKept, Underway
  <2>6. Underway'
    BY <2>1 DEF Underway
  <2> QED BY <1>0, <2>1, <2>5, <2>6 DEF DriveInv
<1>7. ASSUME NEW answered \in BOOLEAN, Drive!ReplaceMedia(answered) PROVE DriveInv'
  <2>1. /\ s3 = "media" /\ s2' = s4 /\ s3' = "idle" /\ s7' \in {"written", "failed"}
        /\ UNCHANGED <<s1, s4, s5, s6, s8>>
    BY <1>7 DEF Drive!ReplaceMedia, Drive!Finish
  <2>2. ContentsKept'
    BY <1>0, <2>1, NewIsLatter DEF ContentsKept, Underway, Drive!Binary
  <2>3. Underway'
    BY <2>1 DEF Underway
  <2> QED BY <1>0, <2>1, <2>2, <2>3 DEF DriveInv
<1>8. ASSUME NEW answered \in BOOLEAN, Drive!Share(answered) PROVE DriveInv'
  <2>1. /\ s3 = "share" /\ s8' = [s8 EXCEPT ![Len(s8)] = TRUE] /\ s3' = "idle"
        /\ s7' \in {"shared", "failed"} /\ UNCHANGED <<s1, s2, s4, s5, s6>>
    BY <1>8 DEF Drive!Share, Drive!Finish
  <2>2. s8 # <<>> /\ Len(s8) \in 1..Len(s8)
    BY <1>0, <2>1 DEF Underway
  <2>3. s8' \in Seq(BOOLEAN) /\ Len(s8') = Len(s8) /\ s8'[Len(s8)] = TRUE
    BY <1>0, <2>1, <2>2
  <2>4. Underway'
    BY <2>1, <2>2, <2>3 DEF Underway
  <2> QED BY <1>0, <2>1, <2>3, <2>4, ElsewhereStep
<1>9. ASSUME NEW share \in BOOLEAN, NEW answered \in BOOLEAN, Drive!Upload(share, answered) PROVE DriveInv'
  <2>1. /\ s3' \in {"idle", "share"} /\ s8' = Append(s8, FALSE) /\ s7' \in {"failed", "none", "uploaded"}
        /\ (s3' = "share" => s7' = "none") /\ UNCHANGED <<s1, s2, s4, s5, s6>>
    BY <1>9 DEF Drive!Upload, Drive!Start
  <2>2. s8' \in Seq(BOOLEAN) /\ s8' # <<>>
    <3>1. s8 \in Seq(BOOLEAN) /\ FALSE \in BOOLEAN
      BY <1>0
    <3>2. Append(s8, FALSE) \in Seq(BOOLEAN) /\ Append(s8, FALSE) # <<>>
      BY <3>1, AppendProperties
    <3> QED BY <2>1, <3>2
  <2>3. Underway'
    BY <2>1, <2>2 DEF Underway
  <2> QED BY <1>0, <2>1, <2>2, <2>3, ElsewhereStep
<1>10. ASSUME NEW f, Drive!Export(f) PROVE DriveInv'
  <2>1. s3' = "idle" /\ s7' = "exported" /\ UNCHANGED <<s1, s2, s4, s5, s6, s8>>
    BY <1>10 DEF Drive!Export, Drive!Start
  <2>2. Underway'
    BY <2>1 DEF Underway
  <2> QED BY <1>0, <2>1, <2>2, ElsewhereStep
<1>11. CASE UNCHANGED <<s1, s2, s3, s4, s5, s6, s7, s8, s9, s10, s11>>
  <2>1. Underway'
    BY <1>0, <1>11 DEF Underway, Drive!Binary
  <2> QED BY <1>0, <1>11, <2>1, ElsewhereStep
<1> QED BY <1>1, <1>2, <1>3, <1>4, <1>5, <1>6, <1>7, <1>8, <1>9, <1>10, <1>11 DEF Drive!Next

\* What the invariant says of the characters in the document.
LEMMA OnlyOf ==
    ASSUME NEW S, NEW s \in Seq(S), NEW x, x \notin S
    PROVE  x \notin Drive!ToSet(s)
BY DEF Drive!ToSet

LEMMA DriveIsWhole == DriveInv => Drive!WrittenWhole
<1> SUFFICES ASSUME DriveInv PROVE Drive!WrittenWhole
  OBVIOUS
<1>1. s2 \in Seq(Former) => "new" \notin Drive!ToSet(s2)
  BY OnlyOf DEF Former
<1>2. s2 \in Seq(Latter) => "old" \notin Drive!ToSet(s2)
  BY OnlyOf DEF Latter
<1> QED BY <1>1, <1>2 DEF DriveInv, ContentsKept, Underway, Drive!WrittenWhole, Drive!Last

\* However many requests of a push fail, the rows the tab had are in it or in the .bak file
\* (doc/sheets.rs); and a write that nobody disturbs leaves old text nowhere next to new, nor
\* in a file it cannot write (doc/drive.rs, gdocs.rs).
THEOREM DocumentsStayWhole == WorkspaceSpec => []DocumentsAreWhole
<1> DEFINE I == /\ part = "sheets" => SheetInv
                /\ part = "drive" => DriveInv
<1>1. WorkspaceInit => I
  BY SheetStarts, DriveStarts
<1>2. I /\ [WorkspaceNext]_wsVars => I'
  <2>1. [WorkspaceNext]_wsVars => part' = part
    BY DEF WorkspaceNext, wsVars
  <2> QED BY <2>1, SheetMoves, SheetStep, DriveMoves, DriveStep
<1>3. I => DocumentsAreWhole
  <2>1. SheetInv => Sheets!PreviousContentsKept
    BY DEF SheetInv, RowsKept, Sheets!PreviousContentsKept
  <2> QED BY <2>1, DriveIsWhole DEF DocumentsAreWhole
<1> QED BY <1>1, <1>2, <1>3, PTL DEF WorkspaceSpec

-----------------------------------------------------------------------------
(* The calendar *)

Occasions == DOMAIN Meetings

Apart(list, series) == {e \in Occasions : series /\ \E f \in list : SeriesOf[e] = SeriesOf[f]}

\* What is to be deleted are the events listed or their series; a report says no more than
\* there is for as long as the calendar stays as it was.
CalInv ==
    /\ s1 \subseteq Occasions /\ s8 \subseteq Occasions
    /\ s4 \in {"idle", "list", "delete"}
    /\ s6 \subseteq Cal!Doomed(s8)
    /\ s4 = "list" => s9 = {}
    /\ s9 \subseteq s8 \cup Apart(s8, s5)
    /\ \A id \in s7 : Cal!Under(id) = {}
    /\ s4 # "idle" => s10 = <<0, 0, 0>>
    /\ Cal!Cardinality(Cal!Touching(s10[1], s10[2])) <= CheckLimit =>
         s10[3] <= Cal!Cardinality(Cal!Minutes(s10[1], s10[2], s1))

LEMMA CalMoves ==
    ASSUME part = "calendar", [WorkspaceNext]_wsVars
    PROVE  part' = part /\ (Cal!Next \/ UNCHANGED registers)
BY DEF WorkspaceNext, wsVars

LEMMA CalCounts == \A S : Cal!Cardinality(S) = Cardinality(S)
BY DEF Cal!Cardinality, Cardinality

\* No report says nothing wrong.
LEMMA NothingSaid ==
    ASSUME NEW es
    PROVE  Cal!Cardinality(Cal!Minutes(0, 0, es)) = 0
<1>1. Cal!Minutes(0, 0, es) = {}
  BY DEF Cal!Minutes
<1> QED BY <1>1, CalCounts, FS_EmptySet

LEMMA CalStarts == WorkspaceInit /\ part = "calendar" => CalInv
<1> SUFFICES ASSUME WorkspaceInit, part = "calendar" PROVE CalInv
  OBVIOUS
<1>1. Cal!Init
  BY DEF WorkspaceInit, PartInit
<1> QED BY <1>1, NothingSaid DEF Cal!Init, CalInv, Occasions

\* What an event takes of the range: no more than the range, and no less than what it is
\* under way of it.
LEMMA ClampedIs ==
    ASSUME NEW e \in Occasions, NEW from \in Nat, NEW to \in Nat
    PROVE  LET c == Cal!Clamped(e, from, to)
           IN /\ c[1] \in Nat /\ c[2] \in Nat /\ c[1] >= from /\ c[2] <= to
              /\ \A m \in from..(to - 1) :
                   Meetings[e][1] <= m /\ m < Meetings[e][2] => c[1] <= m /\ m < c[2]
<1> DEFINE a == Meetings[e][1]
           b == Meetings[e][2]
<1>1. a \in Nat /\ b \in Nat
  BY CalendarAssumption DEF Occasions
<1>2. Cal!Max({a, from}) = IF a >= from THEN a ELSE from
  <2>1. ASSUME NEW x \in {a, from}, \A y \in {a, from} : x >= y
        PROVE  x = IF a >= from THEN a ELSE from
    BY <1>1, <2>1
  <2>2. (IF a >= from THEN a ELSE from) \in {a, from}
    OBVIOUS
  <2>3. \A y \in {a, from} : (IF a >= from THEN a ELSE from) >= y
    BY <1>1
  <2> HIDE DEF a
  <2> QED BY <2>1, <2>2, <2>3, Zenon DEF Cal!Max
<1>3. Cal!Min({b, to}) = IF b <= to THEN b ELSE to
  <2>1. ASSUME NEW x \in {b, to}, \A y \in {b, to} : x <= y
        PROVE  x = IF b <= to THEN b ELSE to
    BY <1>1, <2>1
  <2>2. (IF b <= to THEN b ELSE to) \in {b, to}
    OBVIOUS
  <2>3. \A y \in {b, to} : (IF b <= to THEN b ELSE to) <= y
    BY <1>1
  <2> HIDE DEF b
  <2> QED BY <2>1, <2>2, <2>3, Zenon DEF Cal!Min
<1>4. CASE e \in WholeDay
  <2>1. Cal!Clamped(e, from, to) = <<from, to>>
    BY <1>4 DEF Cal!Clamped
  <2> QED BY <2>1
<1>5. CASE e \notin WholeDay
  <2>1. Cal!Clamped(e, from, to) = <<IF a >= from THEN a ELSE from, IF b <= to THEN b ELSE to>>
    BY <1>2, <1>3, <1>5 DEF Cal!Clamped
  <2> QED BY <1>1, <2>1
<1> QED BY <1>4, <1>5

\* No more minutes of a range are taken than its events add up to.
LEMMA TakenAreCounted ==
    ASSUME NEW from \in Nat, NEW to \in Nat, from < to, s1 \subseteq Occasions
    PROVE  LET busy == Cal!Busy(from, to, Cal!Touching(from, to))
               free == Cal!Minutes(from, to, s1)
           IN /\ IsFiniteSet(busy) /\ IsFiniteSet(free)
              /\ to - from <= Cardinality(busy) + Cardinality(free)
<1> DEFINE R == from..(to - 1)
           T == Cal!Touching(from, to)
           busy == Cal!Busy(from, to, T)
           free == Cal!Minutes(from, to, s1)
           taken == R \ free
           by(m) == CHOOSE e \in T : Meetings[e][1] <= m /\ m < Meetings[e][2]
           f == [m \in taken |-> <<by(m), m>>]
<1>1. IsFiniteSet(R) /\ Cardinality(R) = to - from
  <2>1. to - 1 \in Int /\ from <= to - 1 /\ (to - 1) - from + 1 = to - from
    OBVIOUS
  <2> QED BY <2>1, FS_Interval
<1>2. T \subseteq Occasions /\ IsFiniteSet(T)
  <2>1. T \subseteq Occasions
    BY DEF Cal!Touching
  <2> QED BY <2>1, FS_Subset, CalendarAssumption DEF Occasions
<1>3. busy \subseteq T \X R /\ IsFiniteSet(busy)
  <2>1. ASSUME NEW e \in T, NEW m \in Cal!Clamped(e, from, to)[1]..(Cal!Clamped(e, from, to)[2] - 1)
        PROVE  m \in R
    <3>1. Meetings[e][1] \in Nat /\ Meetings[e][2] \in Nat
      BY <1>2, CalendarAssumption DEF Occasions
    <3> QED BY <1>2, <2>1, <3>1, ClampedIs
  <2>2. busy \subseteq T \X R
    BY <2>1 DEF Cal!Busy
  <2> HIDE DEF busy, T, R
  <2> QED BY <1>1, <1>2, <2>2, FS_Product, FS_Subset
<1>4. free \subseteq R /\ IsFiniteSet(free) /\ IsFiniteSet(taken)
      /\ Cardinality(free) + Cardinality(taken) = to - from
  <2>1. free \subseteq R
    BY DEF Cal!Minutes
  <2> HIDE DEF free, R
  <2>2. IsFiniteSet(free) /\ IsFiniteSet(taken)
    BY <1>1, <2>1, FS_Subset
  <2>3. free \cup taken = R /\ free \cap taken = {}
    BY <2>1
  <2>4. Cardinality(free) + Cardinality(taken) = Cardinality(R)
    <3>1. Cardinality(free \cup taken) = Cardinality(free) + Cardinality(taken) - Cardinality(free \cap taken)
      BY <2>2, FS_Union
    <3>2. Cardinality({}) = 0
      BY FS_EmptySet
    <3>3. Cardinality(free) \in Nat /\ Cardinality(taken) \in Nat
      BY <2>2, FS_CardinalityType
    <3>4. Cardinality(free \cup taken) = Cardinality(R) /\ Cardinality(free \cap taken) = 0
      BY <2>3, <3>2, Zenon
    <3> HIDE DEF taken
    <3> QED BY <3>1, <3>3, <3>4
  <2> QED BY <1>1, <2>1, <2>2, <2>4
<1>5. ASSUME NEW m \in taken PROVE <<by(m), m>> \in busy
  <2>1. m \in R /\ \E e \in s1 : ~ (m < Meetings[e][1] \/ m >= Meetings[e][2])
    BY DEF Cal!Minutes
  <2>2. PICK e \in s1 : ~ (m < Meetings[e][1] \/ m >= Meetings[e][2])
    BY <2>1
  <2>3. e \in Occasions /\ Meetings[e][1] \in Nat /\ Meetings[e][2] \in Nat
    BY CalendarAssumption DEF Occasions
  <2>4. Meetings[e][1] <= m /\ m < Meetings[e][2] /\ Meetings[e][1] < to /\ Meetings[e][2] > from
    BY <2>1, <2>2, <2>3
  <2>5. e \in T
    BY <2>4 DEF Cal!Touching
  <2>6. by(m) \in T /\ Meetings[by(m)][1] <= m /\ m < Meetings[by(m)][2]
    <3> HIDE DEF T
    <3> QED BY <2>4, <2>5
  <2> DEFINE d == by(m)
  <2> HIDE DEF by
  <2>7. d \in Occasions /\ Meetings[d][1] \in Nat /\ Meetings[d][2] \in Nat
    BY <1>2, <2>6, CalendarAssumption DEF Occasions
  <2>8. m \in Cal!Clamped(d, from, to)[1]..(Cal!Clamped(d, from, to)[2] - 1)
    BY <2>1, <2>6, <2>7, ClampedIs
  <2> QED BY <2>6, <2>8 DEF Cal!Busy
<1>6. Cardinality(taken) <= Cardinality(busy)
  <2>1. f \in [taken -> busy]
    BY <1>5
  <2>2. \A m, n \in taken : f[m] = f[n] => m = n
    OBVIOUS
  <2> HIDE DEF f, taken, busy
  <2>3. f \in Injection(taken, busy)
    BY <2>1, <2>2 DEF Injection, IsInjective
  <2> QED BY <1>3, <2>3, FS_Injection
<1>7. Cardinality(free) \in Nat /\ Cardinality(taken) \in Nat /\ Cardinality(busy) \in Nat
  BY <1>3, <1>4, FS_CardinalityType
<1> HIDE DEF busy, free, taken
<1>8. to - from <= Cardinality(busy) + Cardinality(free)
  BY <1>4, <1>6, <1>7
<1> QED BY <1>3, <1>4, <1>8 DEF busy, free

LEMMA ListStep ==
    ASSUME CalInv, NEW found \in SUBSET Occasions, NEW dry \in BOOLEAN, Cal!List(found, dry)
    PROVE  CalInv'
<1>1. /\ s4 = "list" /\ s8' = found /\ s6' = (IF dry THEN {} ELSE Cal!Doomed(found))
      /\ s4' \in {"idle", "delete"} /\ UNCHANGED <<s1, s2, s3, s5, s7, s9, s10, s11, s12>>
  BY DEF Cal!List
<1>2. s9 = {} /\ s10 = <<0, 0, 0>>
  BY <1>1 DEF CalInv
<1>3. s6' \subseteq Cal!Doomed(s8)'
  BY <1>1 DEF Cal!Doomed
<1> QED BY <1>1, <1>2, <1>3, NothingSaid DEF CalInv, Cal!Under, Cal!Touching, Cal!Minutes

LEMMA DeleteStep ==
    ASSUME CalInv, NEW id \in Occasions \cup Recurring, NEW answer \in Cal!Answers(id),
           Cal!Delete(id, answer)
    PROVE  CalInv'
<1>1. /\ s4 = "delete" /\ id \in s6
      /\ s7' = (IF Cal!Counts(answer) THEN s7 \cup {id} ELSE s7) /\ s6' = s6 \ {id}
      /\ s4' \in {"idle", "delete"} /\ UNCHANGED <<s2, s3, s5, s8, s10, s11, s12>>
  BY DEF Cal!Delete
<1>2. PICK arrives \in BOOLEAN :
        /\ answer = "deleted" => arrives
        /\ s1' = IF arrives THEN s1 \ Cal!Under(id) ELSE s1
        /\ s9' = IF arrives THEN s9 \cup Cal!Under(id) ELSE s9
  BY DEF Cal!Delete
<1>3. s10' = <<0, 0, 0>>
  BY <1>1 DEF CalInv
<1>4. Cal!Under(id) \subseteq s8 \cup Apart(s8, s5)
  <2> SUFFICES ASSUME NEW e \in s1, e = id \/ SeriesOf[e] = id
               PROVE  e \in s8 \cup Apart(s8, s5)
    BY DEF Cal!Under
  <2>1. id \in Cal!Doomed(s8) /\ s8 \subseteq Occasions /\ e \in Occasions
    BY <1>1 DEF CalInv
  <2>2. CASE s5
    <3>1. PICK f \in s8 : id = SeriesOf[f]
      BY <2>1, <2>2 DEF Cal!Doomed
    <3>2. CASE e = id
      BY <2>1, <3>1, <3>2, CalendarAssumption DEF Occasions
    <3>3. CASE SeriesOf[e] = id
      BY <2>1, <2>2, <3>1, <3>3 DEF Apart
    <3> QED BY <3>2, <3>3
  <2>3. CASE ~ s5
    <3>1. id \in s8
      BY <2>1, <2>3 DEF Cal!Doomed
    <3> QED BY <2>1, <3>1, CalendarAssumption DEF Occasions
  <2> QED BY <2>2, <2>3
<1>5. s9' \subseteq s8' \cup Apart(s8', s5')
  BY <1>1, <1>2, <1>4 DEF CalInv
<1>6. s1' \subseteq s1
  BY <1>2
<1>7. ASSUME NEW d \in s7' PROVE Cal!Under(d)' = {}
  <2>1. CASE d \in s7
    BY <1>6, <2>1 DEF CalInv, Cal!Under
  <2>2. CASE d = id /\ Cal!Counts(answer)
    <3>1. CASE answer = "deleted"
      BY <1>2, <2>2, <3>1 DEF Cal!Under
    <3>2. CASE answer \in {"404", "410"}
      <4>1. Cal!Under(id) = {}
        BY <3>2 DEF Cal!Answers
      <4> QED BY <1>6, <2>2, <4>1 DEF Cal!Under
    <3> QED BY <2>2, <3>1, <3>2 DEF Cal!Counts
  <2> QED BY <1>1, <2>1, <2>2
<1>8. s6' \subseteq Cal!Doomed(s8)'
  BY <1>1 DEF CalInv, Cal!Doomed
<1>9. s10'[3] <= Cal!Cardinality(Cal!Minutes(s10'[1], s10'[2], s1'))
  BY <1>3, NothingSaid
<1>10. Cal!Cardinality(Cal!Minutes(s10[1], s10[2], s1))' = Cal!Cardinality(Cal!Minutes(s10'[1], s10'[2], s1'))
  BY DEF Cal!Minutes
<1> QED BY <1>1, <1>3, <1>5, <1>6, <1>7, <1>8, <1>9, <1>10 DEF CalInv

LEMMA CheckStep ==
    ASSUME CalInv, NEW from \in 0..Horizon, NEW to \in 0..Horizon, NEW found \in SUBSET Occasions,
           Cal!Check(from, to, found)
    PROVE  CalInv'
<1> DEFINE busy == Cal!Cardinality(Cal!Busy(from, to, found))
           T == Cal!Touching(from, to)
<1>1. /\ s4 = "idle" /\ from < to /\ found \subseteq T
      /\ Cal!Cardinality(found) = Cal!Min({CheckLimit, Cal!Cardinality(T)})
      /\ s10' = <<from, to, IF busy > to - from THEN 0 ELSE to - from - busy>>
      /\ s6' = {} /\ s7' = {} /\ s8' = {} /\ s9' = {} /\ s4' = "idle" /\ UNCHANGED <<s1, s2, s5, s11>>
  BY DEF Cal!Check, Cal!Start
<1>2. from \in Nat /\ to \in Nat /\ s1 \subseteq Occasions
  BY CalendarAssumption DEF CalInv
<1>3. IsFiniteSet(T)
  <2>1. T \subseteq Occasions
    BY <1>2 DEF Cal!Touching
  <2> QED BY <2>1, FS_Subset, CalendarAssumption DEF Occasions
<1>4. ASSUME Cardinality(T) <= CheckLimit PROVE found = T
  <2>1. Cardinality(T) \in Nat /\ CheckLimit \in Nat
    BY <1>3, FS_CardinalityType, CalendarAssumption
  <2>2. Cal!Min({CheckLimit, Cardinality(T)}) = Cardinality(T)
    <3> HIDE DEF T
    <3>1. \A x \in {CheckLimit, Cardinality(T)} :
            (\A y \in {CheckLimit, Cardinality(T)} : x <= y) => x = Cardinality(T)
      BY <1>4, <2>1
    <3>2. \A y \in {CheckLimit, Cardinality(T)} : Cardinality(T) <= y
      BY <1>4, <2>1
    <3> QED BY <3>1, <3>2, Zenon DEF Cal!Min
  <2>3. Cardinality(found) = Cardinality(T)
    <3> HIDE DEF T
    <3> QED BY <1>1, <2>2, CalCounts
  <2> HIDE DEF T
  <2> QED BY <1>1, <1>3, <2>3, FS_Subset
<1>5. ASSUME Cardinality(T) <= CheckLimit
      PROVE  s10'[3] <= Cardinality(Cal!Minutes(from, to, s1))
  <2>1. /\ IsFiniteSet(Cal!Busy(from, to, T)) /\ IsFiniteSet(Cal!Minutes(from, to, s1))
        /\ to - from <= Cardinality(Cal!Busy(from, to, T)) + Cardinality(Cal!Minutes(from, to, s1))
    BY <1>1, <1>2, TakenAreCounted
  <2>2. busy = Cardinality(Cal!Busy(from, to, T))
    <3>1. found = T
      BY <1>4, <1>5
    <3> QED BY <3>1, CalCounts
  <2>3. Cardinality(Cal!Busy(from, to, T)) \in Nat /\ Cardinality(Cal!Minutes(from, to, s1)) \in Nat
    BY <2>1, FS_CardinalityType
  <2>4. s10'[3] = IF busy > to - from THEN 0 ELSE to - from - busy
    BY <1>1
  <2> HIDE DEF busy, T
  <2> QED BY <1>1, <1>2, <2>1, <2>2, <2>3, <2>4
<1>6. s10'[1] = from /\ s10'[2] = to
  BY <1>1
<1>7. Cal!Touching(s10[1], s10[2])' = T /\ Cal!Minutes(s10[1], s10[2], s1)' = Cal!Minutes(from, to, s1)
  BY <1>1, <1>6 DEF Cal!Touching, Cal!Minutes
<1>8. (Cal!Cardinality(Cal!Touching(s10[1], s10[2])) <= CheckLimit =>
         s10[3] <= Cal!Cardinality(Cal!Minutes(s10[1], s10[2], s1)))'
  BY <1>5, <1>7, CalCounts
<1> QED BY <1>1, <1>2, <1>8 DEF CalInv

LEMMA CalStep ==
    ASSUME CalInv, Cal!Next \/ UNCHANGED registers
    PROVE  CalInv'
<1>1. ASSUME NEW series \in BOOLEAN, Cal!BeginDelete(series) PROVE CalInv'
  BY <1>1, NothingSaid DEF Cal!BeginDelete, Cal!Start, CalInv
<1>2. ASSUME NEW e \in Occasions, NEW arrives \in BOOLEAN, Cal!Create(e, arrives) PROVE CalInv'
  BY <1>2, NothingSaid DEF Cal!Create, Cal!Start, CalInv
<1>3. CASE Cal!Change
  <2>1. /\ s10' = <<0, 0, 0>> /\ s1' \subseteq s1 /\ UNCHANGED <<s4, s5, s6, s7, s8, s9>>
    BY <1>3 DEF Cal!Change
  <2>2. \A id \in s7' : Cal!Under(id)' = {}
    BY <2>1 DEF CalInv, Cal!Under
  <2>3. s6' \subseteq Cal!Doomed(s8)' /\ s9' \subseteq s8' \cup Apart(s8', s5')
    BY <2>1 DEF CalInv, Cal!Doomed
  <2> QED BY <2>1, <2>2, <2>3, NothingSaid DEF CalInv
<1>4. CASE UNCHANGED registers
  BY <1>4 DEF registers, CalInv, Cal!Under, Cal!Doomed, Cal!Touching, Cal!Minutes
<1> QED BY <1>1, <1>2, <1>3, <1>4, ListStep, DeleteStep, CheckStep DEF Cal!Next, Occasions

LEMMA CalendarTold == CalInv => Cal!CalendarIsAsTold
BY DEF CalInv, Cal!CalendarIsAsTold, Apart, Occasions

-----------------------------------------------------------------------------
(* The second pass over a transcript *)

\* The transcript is as it was found before the end of each block that is left.
AgainInv ==
    /\ \E n \in Nat : s1 \in [1..n -> BOOLEAN]
    /\ s2 \in Seq(Nat)
    /\ s3 \subseteq Again!LowConfidenceBlocks(s1)
    /\ {s2[j] : j \in DOMAIN s2} \ {0} = (1..Len(s1)) \ s4
    /\ \A j, k \in DOMAIN s2 : j < k /\ s2[j] # 0 /\ s2[k] # 0 => s2[j] < s2[k]
    /\ \A b \in s3 : b[2] - 1 <= Len(s2) /\ \A i \in 1..(b[2] - 1) : s2[i] = i
    /\ \A i \in s4 : \E j \in {i - 1, i, i + 1} : Again!Low(s1, j)

LEMMA AgainMoves ==
    ASSUME part = "transcript", [WorkspaceNext]_wsVars
    PROVE  part' = part /\ (Again!Next \/ UNCHANGED registers)
BY DEF WorkspaceNext, wsVars

LEMMA AgainStarts == WorkspaceInit /\ part = "transcript" => AgainInv
<1> SUFFICES ASSUME WorkspaceInit, part = "transcript" PROVE AgainInv
  OBVIOUS
<1>1. Again!Init
  BY DEF WorkspaceInit, PartInit
<1>2. PICK n \in 1..MaxLow : s1 \in [1..n -> BOOLEAN]
  BY <1>1 DEF Again!Init
<1>3. n \in Nat /\ Len(s1) = n
  BY <1>2
<1>4. s2 = [i \in 1..n |-> i]
  BY <1>1, <1>3 DEF Again!Init
<1>5. s2 \in Seq(Nat) /\ Len(s2) = n /\ DOMAIN s2 = 1..n
  BY <1>3, <1>4
<1>6. s3 = Again!LowConfidenceBlocks(s1) /\ s4 = {}
  BY <1>1 DEF Again!Init
<1>7. {s2[j] : j \in DOMAIN s2} \ {0} = (1..Len(s1)) \ s4
  <2>1. \A j \in 1..n : s2[j] = j /\ j # 0
    BY <1>4
  <2> QED BY <1>3, <1>5, <1>6, <2>1
<1>8. \A b \in s3 : b[2] - 1 <= Len(s2) /\ \A i \in 1..(b[2] - 1) : s2[i] = i
  <2> SUFFICES ASSUME NEW b \in s3
               PROVE  b[2] - 1 <= Len(s2) /\ \A i \in 1..(b[2] - 1) : s2[i] = i
    OBVIOUS
  <2>1. b[2] \in 2..(n + 1)
    BY <1>3, <1>6 DEF Again!LowConfidenceBlocks
  <2> QED BY <1>3, <1>4, <1>5, <2>1
<1>9. \A j, k \in DOMAIN s2 : j < k /\ s2[j] # 0 /\ s2[k] # 0 => s2[j] < s2[k]
  BY <1>4
<1> QED BY <1>2, <1>3, <1>5, <1>6, <1>7, <1>8, <1>9 DEF AgainInv

-----------------------------------------------------------------------------
(* Blocks *)

\* What a block is.
LEMMA BlockIs ==
    ASSUME NEW n \in Nat, NEW t \in [1..n -> BOOLEAN], NEW b \in Again!LowConfidenceBlocks(t)
    PROVE  /\ b = <<b[1], b[2]>> /\ b[1] \in 1..n /\ b[2] \in 2..(n + 1) /\ b[1] < b[2]
           /\ Again!Low(t, b[1]) /\ ~ Again!Low(t, b[1] - 1) /\ ~ Again!Low(t, b[1] - 2)
           /\ Again!Low(t, b[2] - 1) /\ ~ Again!Low(t, b[2])
           /\ \A i \in (b[1] + 1)..(b[2] - 1) : ~ Again!Closes(t, i)
<1>1. Len(t) = n
  OBVIOUS
<1> QED BY <1>1 DEF Again!LowConfidenceBlocks, Again!Opens, Again!Closes

\* Where a low segment is followed by two that are not low, further on, a block closes in
\* between.
LEMMA ClosesBetween ==
    ASSUME NEW t, NEW a \in Nat, NEW s \in Nat, a + 1 < s,
           Again!Low(t, a), ~ Again!Low(t, s), ~ Again!Low(t, s - 1)
    PROVE  \E i \in (a + 1)..(s - 1) : Again!Closes(t, i)
<1> DEFINE T == {k \in a..(s - 2) : Again!Low(t, k)}
<1>1. T \in SUBSET Int /\ T # {} /\ \A k \in T : k <= s
  <2>1. a \in T
    OBVIOUS
  <2> QED BY <2>1
<1>2. \E k \in T : \A m \in T : m <= k
  <2>1. s \in Int
    OBVIOUS
  <2> HIDE DEF T
  <2> QED BY <1>1, <2>1, Greatest
<1>3. PICK k \in a..(s - 2) : Again!Low(t, k) /\ \A m \in T : m <= k
  BY <1>2
<1>4. ASSUME NEW m \in (k + 1)..s PROVE ~ Again!Low(t, m)
  <2>1. CASE m = s \/ m = s - 1
    BY <2>1
  <2>2. CASE m \in a..(s - 2)
    BY <1>3, <1>4, <2>2
  <2> QED BY <1>3, <1>4, <2>1, <2>2
<1>5. k + 1 \in (a + 1)..(s - 1) /\ k + 1 \in (k + 1)..s /\ k + 2 \in (k + 1)..s
  BY <1>3
<1>6. k + 1 - 1 = k /\ k + 1 + 1 = k + 2
  BY <1>3
<1>7. Again!Closes(t, k + 1)
  BY <1>3, <1>4, <1>5, <1>6 DEF Again!Closes
<1> QED BY <1>5, <1>7

\* Of two blocks one ends before the other starts.
LEMMA BlocksApart ==
    ASSUME NEW n \in Nat, NEW t \in [1..n -> BOOLEAN],
           NEW b \in Again!LowConfidenceBlocks(t), NEW c \in Again!LowConfidenceBlocks(t),
           c # b, c[1] <= b[1]
    PROVE  c[2] <= b[1]
<1>1. b[1] \in Nat /\ b[2] \in Nat /\ c[1] \in Nat /\ c[2] \in Nat /\ b[1] < b[2] /\ c[1] < c[2]
      /\ b[1] >= 1
  BY BlockIs
<1>2. ASSUME c[1] = b[1] PROVE FALSE
  <2>1. b[2] # c[2]
    BY <1>2, BlockIs
  <2>2. ASSUME NEW x \in Again!LowConfidenceBlocks(t), NEW y \in Again!LowConfidenceBlocks(t),
               x[1] = y[1], x[2] < y[2]
        PROVE  FALSE
    <3>1. Again!Closes(t, x[2])
      BY DEF Again!LowConfidenceBlocks
    <3>2. x[1] \in Nat /\ x[2] \in Nat /\ x[1] < x[2] /\ y[1] \in Nat /\ y[2] \in Nat
      <4>1. x[1] \in 1..n /\ x[2] \in 2..(n + 1) /\ x[1] < x[2]
        BY BlockIs
      <4>2. y[1] \in 1..n /\ y[2] \in 2..(n + 1)
        BY BlockIs
      <4> QED BY <4>1, <4>2
    <3>3. x[2] \in (y[1] + 1)..(y[2] - 1)
      BY <2>2, <3>2
    <3> QED BY <3>1, <3>3, BlockIs
  <2>3. b[2] < c[2] \/ c[2] < b[2]
    BY <1>1, <2>1
  <2> QED BY <1>2, <2>2, <2>3
<1>3. ASSUME c[1] < b[1], b[1] < c[2] PROVE FALSE
  <2>1. ~ Again!Low(t, b[1] - 1) /\ ~ Again!Low(t, b[1] - 2) /\ Again!Low(t, c[1])
    BY BlockIs
  <2>2. c[1] # b[1] - 1 /\ c[1] # b[1] - 2
    BY <2>1
  <2> DEFINE s == b[1] - 1
  <2>3. s \in Nat /\ c[1] + 1 < s /\ s - 1 = b[1] - 2
    BY <1>1, <1>3, <2>2
  <2>4. ~ Again!Low(t, s - 1) /\ ~ Again!Low(t, s)
    BY <2>1, <2>3
  <2> HIDE DEF s
  <2>5. PICK i \in (c[1] + 1)..(s - 1) : Again!Closes(t, i)
    BY <1>1, <2>1, <2>3, <2>4, ClosesBetween
  <2>6. i \in (c[1] + 1)..(c[2] - 1)
    BY <1>1, <1>3, <2>5 DEF s
  <2> QED BY <2>5, <2>6, BlockIs
<1> QED BY <1>1, <1>2, <1>3

\* A segment of a block is of low confidence or next to one that is.
LEMMA BlockIsLow ==
    ASSUME NEW n \in Nat, NEW t \in [1..n -> BOOLEAN], NEW b \in Again!LowConfidenceBlocks(t),
           NEW i \in b[1]..(b[2] - 1)
    PROVE  \E j \in {i - 1, i, i + 1} : Again!Low(t, j)
<1> SUFFICES ASSUME ~ Again!Low(t, i - 1), ~ Again!Low(t, i) PROVE FALSE
  OBVIOUS
<1>1. b[1] \in Nat /\ b[2] \in Nat /\ i \in Nat /\ Again!Low(t, b[1])
  BY BlockIs
<1>2. b[1] # i /\ b[1] # i - 1
  BY <1>1
<1>3. b[1] + 1 < i
  BY <1>1, <1>2
<1>4. PICK k \in (b[1] + 1)..(i - 1) : Again!Closes(t, k)
  BY <1>1, <1>3, ClosesBetween
<1>5. k \in (b[1] + 1)..(b[2] - 1)
  BY <1>1, <1>4
<1> QED BY <1>4, <1>5, BlockIs

-----------------------------------------------------------------------------
(* Replacing a block *)

\* What a splice leaves where.
LEMMA Spliced ==
    ASSUME NEW t \in Seq(Nat), NEW y \in Seq({0}), NEW f \in 1..Len(t), NEW e \in 1..(Len(t) + 1),
           f < e
    PROVE  LET u == Again!Splice(t, f, e, y) IN
           /\ u \in Seq(Nat) /\ Len(u) = Len(t) + Len(y) - (e - f)
           /\ \A j \in 1..(f - 1) : u[j] = t[j]
           /\ \A j \in f..(f + Len(y) - 1) : u[j] = 0
           /\ \A j \in (f + Len(y))..Len(u) : u[j] = t[j - Len(y) + (e - f)]
<1> DEFINE u == Again!Splice(t, f, e, y)
           n == Len(y)
           x == SubSeq(t, 1, f - 1)
           z == SubSeq(t, e, Len(t))
<1>1. x \in Seq(Nat) /\ Len(x) = f - 1 /\ \A j \in 1..(f - 1) : x[j] = t[j]
  OBVIOUS
<1>2. y \in Seq(Nat) /\ Len(y) = n /\ n \in Nat /\ \A j \in 1..n : y[j] = 0
  OBVIOUS
<1>3. z \in Seq(Nat) /\ Len(z) = Len(t) - e + 1 /\ \A j \in 1..(Len(t) - e + 1) : z[j] = t[e + j - 1]
  OBVIOUS
<1>4. u = (x \o y) \o z
  BY DEF Again!Splice
<1> HIDE DEF x, z, u, n
<1> DEFINE v == x \o y
<1>5. v \in Seq(Nat) /\ Len(v) = f - 1 + n
      /\ (\A j \in 1..(f - 1) : v[j] = t[j]) /\ \A j \in f..(f + n - 1) : v[j] = 0
  <2>1. /\ v \in Seq(Nat) /\ Len(v) = Len(x) + Len(y)
        /\ \A j \in 1..(Len(x) + Len(y)) : v[j] = IF j <= Len(x) THEN x[j] ELSE y[j - Len(x)]
    <3>1. x \in Seq(Nat) /\ y \in Seq(Nat)
      BY <1>1, <1>2
    <3> QED BY <3>1, ConcatProperties, Zenon
  <2> HIDE DEF v
  <2>2. ASSUME NEW j \in 1..(f - 1) PROVE v[j] = t[j]
    BY <1>1, <1>2, <2>1, <2>2
  <2>3. ASSUME NEW j \in f..(f + n - 1) PROVE v[j] = 0
    <3>1. j \in 1..(Len(x) + Len(y)) /\ ~ (j <= Len(x)) /\ j - Len(x) \in 1..n
      BY <1>1, <1>2, <2>3
    <3> QED BY <1>2, <2>1, <3>1
  <2> QED BY <1>1, <1>2, <2>1, <2>2, <2>3
<1>6. u = v \o z
  BY <1>4
<1> HIDE DEF v
<1>7. /\ u \in Seq(Nat) /\ Len(u) = Len(v) + Len(z)
      /\ \A j \in 1..(Len(v) + Len(z)) : u[j] = IF j <= Len(v) THEN v[j] ELSE z[j - Len(v)]
  <2>1. v \in Seq(Nat) /\ z \in Seq(Nat)
    BY <1>3, <1>5
  <2> DEFINE w == v \o z
  <2>2. /\ w \in Seq(Nat) /\ Len(w) = Len(v) + Len(z)
        /\ \A j \in 1..(Len(v) + Len(z)) : w[j] = IF j <= Len(v) THEN v[j] ELSE z[j - Len(v)]
    BY <2>1, ConcatProperties
  <2>3. u = w
    BY <1>6
  <2> HIDE DEF w
  <2> QED BY <2>2, <2>3
<1>8. Len(u) = Len(t) + n - (e - f) /\ Len(v) = f + n - 1 /\ Len(z) \in Nat /\ Len(t) \in Nat
  <2>1. Len(t) \in Nat
    OBVIOUS
  <2>2. Len(u) = Len(v) + Len(z) /\ Len(v) = f - 1 + n /\ Len(z) = Len(t) - e + 1
    BY <1>3, <1>5, <1>7
  <2>3. n \in Nat /\ f \in Nat /\ e \in Nat /\ e <= Len(t) + 1
    BY <1>2, <2>1
  <2> QED BY <2>1, <2>2, <2>3
<1>9. \A j \in 1..(f + n - 1) : u[j] = v[j]
  <2>1. ASSUME NEW j \in 1..(f + n - 1) PROVE j \in 1..(Len(v) + Len(z)) /\ j <= Len(v)
    BY <1>8
  <2> QED BY <1>7, <2>1
<1>10. ASSUME NEW j \in (f + n)..Len(u) PROVE u[j] = t[j - n + (e - f)]
  <2>0. /\ j \in Int /\ f + n <= j /\ j <= Len(u)
        /\ Len(v) = f + n - 1 /\ Len(u) = Len(v) + Len(z) /\ n \in Nat /\ f \in Nat \ {0}
    BY <1>2, <1>7, <1>8, <1>10
  <2>1. j \in 1..(Len(v) + Len(z)) /\ ~ (j <= Len(v))
    BY <2>0
  <2>2. u[j] = z[j - Len(v)]
    BY <1>7, <2>1
  <2>3. j - Len(v) \in 1..(Len(t) - e + 1) /\ e + (j - Len(v)) - 1 = j - n + (e - f)
    BY <1>2, <1>7, <1>8, <1>10
  <2> QED BY <1>3, <2>2, <2>3
<1>11. ASSUME NEW j \in 1..(f - 1) PROVE u[j] = t[j]
  <2>1. j \in 1..(f + n - 1)
    BY <1>2
  <2> QED BY <1>5, <1>9, <2>1
<1>12. ASSUME NEW j \in f..(f + n - 1) PROVE u[j] = 0
  <2>1. j \in 1..(f + n - 1)
    BY <1>2
  <2> QED BY <1>5, <1>9, <2>1
<1> QED BY <1>7, <1>8, <1>10, <1>11, <1>12 DEF u, n

LEMMA AgainReplace ==
    ASSUME AgainInv, NEW b \in s3, NEW n \in 1..MaxNew, Again!Replace(b, n)
    PROVE  AgainInv'
<1> PICK z \in Nat : s1 \in [1..z -> BOOLEAN]
  BY DEF AgainInv
<1> DEFINE f == b[1]
           e == b[2]
           L == Len(s2)
<1>1. /\ s2 \in Seq(Nat) /\ DOMAIN s2 = 1..L /\ L \in Nat
      /\ s3 \subseteq Again!LowConfidenceBlocks(s1)
      /\ {s2[j] : j \in 1..L} \ {0} = (1..Len(s1)) \ s4
      /\ (\A j, k \in 1..L : j < k /\ s2[j] # 0 /\ s2[k] # 0 => s2[j] < s2[k])
      /\ e - 1 <= L /\ \A i \in 1..(e - 1) : s2[i] = i
  BY DEF AgainInv
<1>2. f \in Nat /\ e \in Nat /\ 1 <= f /\ f < e /\ n \in Nat
  BY <1>1, BlockIs, LowAssumption
<1>3. UNCHANGED s1 /\ s3' = s3 \ {b} /\ s4' = s4 \cup f..(e - 1)
      /\ s2' = Again!Splice(s2, f, e, [i \in 1..n |-> 0]) /\ Again!IsLast(b)
  BY DEF Again!Replace
<1> HIDE DEF f, e, L
<1>4. /\ s2' \in Seq(Nat) /\ Len(s2') = L + n - (e - f)
      /\ \A j \in 1..(f - 1) : s2'[j] = s2[j]
      /\ \A j \in f..(f + n - 1) : s2'[j] = 0
      /\ \A j \in (f + n)..Len(s2') : s2'[j] = s2[j - n + (e - f)]
  <2>1. e - 1 <= Len(s2)
    BY <1>1 DEF L
  <2>2. s2 \in Seq(Nat)
    BY <1>1
  <2> DEFINE u == s2'
             y == [i \in 1..n |-> 0]
  <2>3. u = Again!Splice(s2, f, e, y)
    BY <1>3
  <2>5. y \in Seq({0}) /\ Len(y) = n
    BY <1>2
  <2> HIDE DEF u, y
  <2>4. /\ u \in Seq(Nat) /\ Len(u) = Len(s2) + n - (e - f)
        /\ \A j \in 1..(f - 1) : u[j] = s2[j]
        /\ \A j \in f..(f + n - 1) : u[j] = 0
        /\ \A j \in (f + n)..Len(u) : u[j] = s2[j - n + (e - f)]
    <3>1. f \in 1..Len(s2) /\ e \in 1..(Len(s2) + 1) /\ f < e
      BY <1>2, <2>1, <2>2
    <3>2. LET w == Again!Splice(s2, f, e, y) IN
           /\ w \in Seq(Nat) /\ Len(w) = Len(s2) + Len(y) - (e - f)
           /\ \A j \in 1..(f - 1) : w[j] = s2[j]
           /\ \A j \in f..(f + Len(y) - 1) : w[j] = 0
           /\ \A j \in (f + Len(y))..Len(w) : w[j] = s2[j - Len(y) + (e - f)]
      BY <2>2, <2>5, <3>1, Spliced, ZenonT(40)
    <3> QED BY <2>3, <2>5, <3>2
  <2> QED BY <2>4 DEF u, L
<1> DEFINE M == L + n - (e - f)
           old(j) == IF j < f THEN j ELSE j - n + (e - f)
<1>5. DOMAIN s2' = 1..M /\ M \in Nat /\ Len(s2') = M
  BY <1>1, <1>2, <1>4
<1>6. ASSUME NEW j \in 1..M, s2'[j] # 0
      PROVE  old(j) \in 1..L /\ old(j) \notin f..(e - 1) /\ s2'[j] = s2[old(j)]
             /\ (j < f \/ j >= f + n)
  <2>1. j < f \/ j >= f + n
    BY <1>2, <1>4, <1>5, <1>6
  <2>2. CASE j < f
    BY <1>1, <1>2, <1>4, <1>6, <2>2
  <2>3. CASE j >= f + n
    BY <1>1, <1>2, <1>4, <1>5, <1>6, <2>3
  <2> QED BY <2>1, <2>2, <2>3
<1>7. ASSUME NEW j \in 1..M, NEW k \in 1..M, j < k, s2'[j] # 0, s2'[k] # 0
      PROVE  s2'[j] < s2'[k]
  <2>1. old(j) \in 1..L /\ old(k) \in 1..L /\ s2'[j] = s2[old(j)] /\ s2'[k] = s2[old(k)]
        /\ (j < f \/ j >= f + n) /\ (k < f \/ k >= f + n)
    BY <1>6, <1>7
  <2>2. old(j) < old(k)
    BY <1>2, <1>7, <2>1
  <2> HIDE DEF old
  <2> QED BY <1>1, <1>7, <2>1, <2>2
<1>8. \A i \in f..(e - 1) : i \in 1..L /\ s2[i] = i
  BY <1>1, <1>2
<1>9. ASSUME NEW j \in 1..L, NEW k \in 1..L, j # k, s2[j] # 0, s2[k] # 0 PROVE s2[j] # s2[k]
  <2>1. j < k \/ k < j
    BY <1>1, <1>9
  <2>2. s2[j] < s2[k] \/ s2[k] < s2[j]
    BY <1>1, <1>9, <2>1
  <2>3. s2[j] \in Nat /\ s2[k] \in Nat
    BY <1>1
  <2> QED BY <2>2, <2>3
<1>10. ASSUME NEW j \in 1..M, s2'[j] # 0 PROVE s2'[j] \in (1..Len(s1)) \ s4'
  <2>1. old(j) \in 1..L /\ old(j) \notin f..(e - 1) /\ s2'[j] = s2[old(j)]
    BY <1>6, <1>10
  <2> HIDE DEF old
  <2>2. s2'[j] \in (1..Len(s1)) \ s4
    BY <1>1, <1>10, <2>1
  <2>3. ASSUME s2'[j] \in f..(e - 1) PROVE FALSE
    <3>1. s2[s2'[j]] = s2'[j] /\ s2'[j] \in 1..L
      BY <1>8, <2>3
    <3> QED BY <1>9, <1>10, <2>1, <2>3, <3>1
  <2> QED BY <1>3, <2>2, <2>3
<1>11. ASSUME NEW i \in (1..Len(s1)) \ s4' PROVE \E j \in 1..M : s2'[j] = i
  <2>1. i \in (1..Len(s1)) \ s4 /\ i \notin f..(e - 1)
    BY <1>3, <1>11
  <2>2. PICK k \in 1..L : s2[k] = i
    BY <1>1, <2>1
  <2>3. k \notin f..(e - 1)
    BY <1>8, <2>1, <2>2
  <2>4. CASE k < f
    <3>1. k \in 1..(f - 1) /\ k \in 1..M
      BY <1>1, <1>2, <2>4
    <3> QED BY <1>4, <2>2, <3>1
  <2>5. CASE k >= e
    <3> DEFINE j == k + n - (e - f)
    <3>1. j \in (f + n)..M /\ j - n + (e - f) = k /\ j \in 1..M
      BY <1>1, <1>2, <2>5
    <3> HIDE DEF j
    <3> QED BY <1>4, <1>5, <2>2, <3>1
  <2> QED BY <1>2, <2>3, <2>4, <2>5
<1>12. {s2'[j] : j \in 1..M} \ {0} = (1..Len(s1)) \ s4'
  <2>1. 0 \notin (1..Len(s1)) \ s4'
    OBVIOUS
  <2> HIDE DEF M
  <2> QED BY <1>10, <1>11, <2>1
<1>13. ASSUME NEW c \in s3' PROVE c[2] - 1 <= M /\ \A i \in 1..(c[2] - 1) : s2'[i] = i
  <2>1. c \in s3 /\ c # b /\ c[1] <= f
    BY <1>3, <1>13 DEF Again!IsLast, f
  <2>2. c[2] <= f
    BY <1>1, <2>1, BlocksApart DEF f
  <2>3. c[2] \in Nat
    BY <1>1, <2>1, BlockIs
  <2>4. \A i \in 1..(c[2] - 1) : i \in 1..(f - 1) /\ i \in 1..(e - 1)
    BY <1>2, <2>2, <2>3
  <2>5. c[2] - 1 <= M
    BY <1>1, <1>2, <2>2, <2>3
  <2> QED BY <1>1, <1>4, <2>4, <2>5
<1>14. ASSUME NEW i \in s4' PROVE \E j \in {i - 1, i, i + 1} : Again!Low(s1, j)
  <2>1. CASE i \in s4
    BY <2>1 DEF AgainInv
  <2>2. CASE i \in f..(e - 1)
    BY <1>1, <2>2, BlockIsLow DEF f, e
  <2> QED BY <1>3, <1>14, <2>1, <2>2
<1>15. s3' \subseteq Again!LowConfidenceBlocks(s1)
  BY <1>1, <1>3
<1> HIDE DEF M
<1>16. \E k \in Nat : s1' \in [1..k -> BOOLEAN]
  BY <1>3
<1>17. {s2'[j] : j \in DOMAIN s2'} \ {0} = (1..Len(s1')) \ s4'
  BY <1>3, <1>5, <1>12
<1>18. \A j, k \in DOMAIN s2' : j < k /\ s2'[j] # 0 /\ s2'[k] # 0 => s2'[j] < s2'[k]
  BY <1>5, <1>7
<1>19. \A c \in s3' : c[2] - 1 <= Len(s2') /\ \A i \in 1..(c[2] - 1) : s2'[i] = i
  BY <1>5, <1>13
<1>20. \A i \in s4' : \E j \in {i - 1, i, i + 1} : Again!Low(s1', j)
  BY <1>3, <1>14
<1> QED BY <1>3, <1>4, <1>15, <1>16, <1>17, <1>18, <1>19, <1>20 DEF AgainInv

LEMMA AgainStep ==
    ASSUME part = "transcript", AgainInv, [WorkspaceNext]_wsVars
    PROVE  AgainInv'
<1>1. CASE UNCHANGED registers
  BY <1>1 DEF AgainInv, registers
<1>2. ASSUME NEW b \in s3, Again!Keep(b) PROVE AgainInv'
  BY <1>2, ZenonT(40) DEF AgainInv, Again!Keep
<1> QED BY <1>1, <1>2, AgainMoves, AgainReplace DEF Again!Next

LEMMA AgainTold == AgainInv => Again!OnlyBlocksReplaced
<1> SUFFICES ASSUME AgainInv PROVE Again!OnlyBlocksReplaced
  OBVIOUS
<1>1. ASSUME NEW b \in s3, NEW i \in b[1]..(b[2] - 1) PROVE s2[i] = i
  <2>1. PICK n \in Nat : s1 \in [1..n -> BOOLEAN]
    BY DEF AgainInv
  <2>2. b[1] \in Nat /\ b[2] \in Nat /\ b[1] >= 1
    BY <2>1, BlockIs DEF AgainInv
  <2>3. i \in 1..(b[2] - 1)
    BY <2>2
  <2> QED BY <2>3 DEF AgainInv
<1> QED BY <1>1 DEF AgainInv, Again!OnlyBlocksReplaced

-----------------------------------------------------------------------------
(* Speakers over the chunks of a recording *)

VoiceOf(h) == s2[h[1]][h[2]]
SpeakerOf(h) == s3[h[1]][h[2]]
Remaps == UNION {[D -> Nat] : D \in SUBSET Voices!Locals}

\* A global speaker has one of the voices that were heard, and no two of them are similar; as
\* long as there is one for each person, everybody heard was matched with one who is similar.
VoicesInv ==
    /\ s5 \in Nat /\ s1 \in [Voices!Numbers -> Voices!Recordings]
    /\ s2 \in [Voices!Numbers -> [Voices!Locals -> VoiceNames]]
    /\ s3 \in [Voices!Numbers -> Remaps]
    /\ s4 \in Seq(VoiceNames) /\ Len(s4) <= SpeakerLimit
    /\ s5 > 0 => \A c \in Voices!Numbers :
                    Voices!Known(c) # {} => \A i \in DOMAIN s1[c] : s1[c][i] # 0
    /\ \A h \in Voices!Heard : SpeakerOf(h) \in 1..Len(s4)
    /\ \A g \in 1..Len(s4) : \E h \in Voices!Heard : s4[g] = VoiceOf(h)
    /\ Voices!VoicesTell => \A g, h \in 1..Len(s4) : Voices!Same(s4[g], s4[h]) => g = h
    /\ Voices!VoicesTell /\ Voices!Cardinality(Voices!Persons) <= SpeakerLimit =>
         \A h \in Voices!Heard : Voices!Same(VoiceOf(h), s4[SpeakerOf(h)])

LEMMA VoicesMoves ==
    ASSUME part = "speakers", [WorkspaceNext]_wsVars
    PROVE  part' = part /\ (Voices!Next \/ UNCHANGED registers)
BY DEF WorkspaceNext, wsVars

LEMMA VoicesStarts == WorkspaceInit /\ part = "speakers" => VoicesInv
<1> SUFFICES ASSUME WorkspaceInit, part = "speakers" PROVE VoicesInv
  OBVIOUS
<1>1. Voices!Init
  BY DEF WorkspaceInit, PartInit
<1>2. s3 \in [Voices!Numbers -> Remaps] /\ Voices!Heard = {}
  <2>1. \A c \in Voices!Numbers : s3[c] = <<>>
    BY <1>1 DEF Voices!Init
  <2>2. <<>> \in [{} -> Nat] /\ {} \in SUBSET Voices!Locals
    OBVIOUS
  <2>3. <<>> \in Remaps
    BY <2>2 DEF Remaps
  <2>4. s3 = [c \in Voices!Numbers |-> <<>>]
    BY <1>1 DEF Voices!Init
  <2>5. \A c \in Voices!Numbers : DOMAIN s3[c] = {}
    BY <2>1
  <2>6. Voices!Heard = {}
    BY <2>5 DEF Voices!Heard
  <2> QED BY <2>3, <2>4, <2>6
<1>3. s4 = <<>> /\ s5 = 0 /\ Len(s4) = 0 /\ s4 \in Seq(VoiceNames)
  BY <1>1 DEF Voices!Init
<1> QED BY <1>1, <1>2, <1>3, VoiceAssumption DEF VoicesInv, Voices!Init

\* Once the segments without a voice went to a neighbour, a chunk in which anyone is known
\* has no unknown segment.
LEMMA NoneUnknown ==
    ASSUME NEW n \in Nat, NEW t, DOMAIN t = 1..n, NEW u, Voices!Reassigned(t, u),
           NEW k \in 1..n, u[k] # 0, NEW i \in 1..n
    PROVE  u[i] # 0
<1> SUFFICES ASSUME u[i] = 0 PROVE FALSE
  OBVIOUS
<1>1. ASSUME NEW j \in 1..n, u[j] = 0 PROVE t[j] = 0 /\ Voices!Nearest(t, u, j) = {}
  <2>1. u[j] \in IF t[j] # 0 THEN {t[j]}
                 ELSE IF Voices!Nearest(t, u, j) = {} THEN {0} ELSE Voices!Nearest(t, u, j)
    BY DEF Voices!Reassigned
  <2>2. 0 \notin Voices!Nearest(t, u, j)
    BY DEF Voices!Nearest
  <2> QED BY <1>1, <2>1, <2>2
<1>2. CASE k < i
  <2> DEFINE T == {j \in 1..(i - 1) : u[j] # 0}
  <2>1. T \in SUBSET Int /\ T # {} /\ (\A j \in T : j <= i) /\ i \in Int
    <3>1. k \in T
      BY <1>2
    <3> QED BY <3>1
  <2>2. \E j \in T : \A m \in T : m <= j
    <3> HIDE DEF T
    <3> QED BY <2>1, Greatest
  <2>3. PICK j \in 1..(i - 1) : u[j] # 0 /\ \A m \in T : m <= j
    BY <2>2
  <2>4. j + 1 \in 1..n /\ u[j + 1] = 0 /\ j \in 1..n
    <3>1. CASE j + 1 = i
      BY <3>1, <2>3
    <3>2. CASE j + 1 # i
      <4>1. j + 1 \in 1..(i - 1) /\ ~ (j + 1 <= j)
        BY <2>3, <3>2
      <4>2. j + 1 \notin T
        BY <2>3, <4>1
      <4> QED BY <4>1, <4>2
    <3> QED BY <3>1, <3>2
  <2>5. j \in {j + 1 - 1} \cap DOMAIN t
    BY <2>4
  <2>6. u[j] \in Voices!Nearest(t, u, j + 1)
    BY <2>3, <2>5 DEF Voices!Nearest
  <2> QED BY <1>1, <2>4, <2>6
<1>3. CASE k > i
  <2> DEFINE T == {j \in (i + 1)..n : t[j] # 0}
  <2>1. ASSUME T = {} PROVE FALSE
    <3> DEFINE X == {j \in (i + 1)..k : u[j] # 0}
    <3>1. X \in SUBSET Nat /\ X # {}
      <4>1. k \in X
        BY <1>3
      <4> QED BY <4>1
    <3>2. \E j \in X : \A m \in X : j <= m
      <4> HIDE DEF X
      <4> QED BY <3>1, Least
    <3>3. PICK j \in (i + 1)..k : u[j] # 0 /\ \A m \in X : j <= m
      BY <3>2
    <3>4. j \in 1..n /\ j - 1 \in 1..n /\ u[j - 1] = 0
      <4>1. CASE j - 1 = i
        BY <4>1
      <4>2. CASE j - 1 # i
        <5>1. j - 1 \in (i + 1)..k /\ ~ (j <= j - 1)
          BY <4>2
        <5>2. j - 1 \notin X
          BY <3>3, <5>1
        <5> QED BY <5>1, <5>2
      <4> QED BY <4>1, <4>2
    <3>5. t[j] = 0
      <4>1. j \in (i + 1)..n
        BY <3>4
      <4> QED BY <2>1, <4>1
    <3>6. u[j] \in Voices!Nearest(t, u, j)
      BY <3>3, <3>4, <3>5 DEF Voices!Reassigned
    <3>7. ASSUME NEW m \in {l \in DOMAIN t : l > j /\ \A x \in (j + 1)..(l - 1) : t[x] = 0}
          PROVE  t[m] = 0
      <4>1. m \in (i + 1)..n
        BY <3>4
      <4> QED BY <2>1, <4>1
    <3>8. ASSUME NEW m \in {j - 1} \cap DOMAIN t PROVE u[m] = 0
      BY <3>4
    <3> QED BY <3>6, <3>7, <3>8 DEF Voices!Nearest
  <2>2. PICK j \in T : \A m \in T : j <= m
    <3>1. CASE T = {}
      BY <2>1, <3>1
    <3>2. CASE T # {}
      <4>1. T \in SUBSET Nat
        OBVIOUS
      <4> HIDE DEF T
      <4> QED BY <3>2, <4>1, Least
    <3> QED BY <3>1, <3>2
  <2>3. j \in DOMAIN t /\ j > i /\ t[j] # 0
    OBVIOUS
  <2>4. ASSUME NEW l \in (i + 1)..(j - 1) PROVE t[l] = 0
    <3>1. l \in (i + 1)..n /\ ~ (j <= l)
      BY <2>3
    <3> QED BY <2>2, <3>1
  <2>5. t[j] \in Voices!Nearest(t, u, i)
    BY <2>3, <2>4 DEF Voices!Nearest
  <2> QED BY <1>1, <2>5
<1>4. k # i
  OBVIOUS
<1> QED BY <1>2, <1>3, <1>4

\* Who is most similar, where there is anyone.
LEMMA SomeBest ==
    ASSUME VoicesInv, NEW v \in VoiceNames, NEW h \in 1..Len(s4)
    PROVE  \E g \in Voices!Best(v) : Alike[v][s4[h]] <= 0 \/ Alike[v][s4[h]] <= Alike[v][s4[g]]
<1> DEFINE T == {Alike[v][s4[g]] : g \in 1..Len(s4)}
<1>1. s4 \in Seq(VoiceNames) /\ DOMAIN s4 = 1..Len(s4)
  BY DEF VoicesInv
<1>2. \A g \in 1..Len(s4) : Alike[v][s4[g]] \in -10..10
  BY <1>1, VoiceAssumption
<1>3. T \in SUBSET Int /\ T # {} /\ \A m \in T : m <= 10
  <2>1. Alike[v][s4[h]] \in T
    OBVIOUS
  <2>2. \A m \in T : m \in -10..10
    BY <1>2
  <2> HIDE DEF T
  <2> QED BY <2>1, <2>2
<1>4. \E n \in T : \A m \in T : m <= n
  <2>1. 10 \in Int
    OBVIOUS
  <2> HIDE DEF T
  <2> QED BY <1>3, <2>1, Greatest
<1>5. PICK g \in 1..Len(s4) : \A m \in T : m <= Alike[v][s4[g]]
  BY <1>4
<1>6. \A k \in 1..Len(s4) : Alike[v][s4[k]] <= Alike[v][s4[g]]
  BY <1>5
<1>7. g \in Voices!Best(v)
  BY <1>1, <1>6 DEF Voices!Best
<1> QED BY <1>6, <1>7

LEMMA PersonsCounted ==
    ASSUME VoicesInv
    PROVE  /\ IsFiniteSet(Voices!Persons) /\ Voices!Cardinality(Voices!Persons) \in Nat
           /\ Voices!Cardinality(Voices!Persons) = Cardinality(Voices!Persons)
<1>1. Voices!Persons \in SUBSET SUBSET VoiceNames
  BY DEF Voices!Persons
<1>2. IsFiniteSet(SUBSET VoiceNames)
  BY VoiceAssumption, FS_SUBSET
<1>3. IsFiniteSet(Voices!Persons)
  BY <1>1, <1>2, FS_Subset
<1>4. Voices!Cardinality(Voices!Persons) = Cardinality(Voices!Persons)
  BY DEF Voices!Cardinality, Cardinality
<1> QED BY <1>3, <1>4, FS_CardinalityType

\* A voice that is similar to none of the global speakers is that of one more person.
LEMMA OneMore ==
    ASSUME VoicesInv, Voices!VoicesTell, NEW v \in VoiceNames, NEW T, IsFiniteSet(T),
           \A g \in 1..Len(s4) : ~ Voices!Same(v, s4[g]),
           Voices!Persons \subseteq T, {w \in VoiceNames : Voices!Same(v, w)} \in T
    PROVE  Cardinality(T) > Len(s4)
<1> DEFINE L == Len(s4)
           Of(u) == {w \in VoiceNames : Voices!Same(u, w)}
           f == [g \in 1..(L + 1) |-> IF g = L + 1 THEN Of(v) ELSE Of(s4[g])]
<1>1. L \in Nat /\ \A g \in 1..L : s4[g] \in VoiceNames
  BY DEF VoicesInv
<1>2. \A h \in Voices!Heard : VoiceOf(h) \in VoiceNames /\ Of(VoiceOf(h)) \in T
  BY DEF VoicesInv, Voices!Heard, Voices!Persons, VoiceOf
<1>3. \A g \in 1..L : Of(s4[g]) \in T
  BY <1>2 DEF VoicesInv
<1>4. \A u, w \in VoiceNames : Of(u) = Of(w) => Voices!Same(u, w)
  BY DEF Voices!VoicesTell
<1> HIDE DEF Of, L
<1>5. \A g \in 1..(L + 1) : f[g] \in T
  <2>1. Of(v) \in T
    BY DEF Of
  <2> QED BY <1>1, <1>3, <2>1
<1>6. ASSUME NEW g \in 1..(L + 1), NEW h \in 1..(L + 1), f[g] = f[h], g < h PROVE FALSE
  <2>1. g \in 1..L /\ f[g] = Of(s4[g])
    BY <1>1, <1>6
  <2>2. CASE h = L + 1
    <3>1. f[h] = Of(v)
      BY <2>2
    <3>2. Voices!Same(v, s4[g])
      BY <1>1, <1>2, <1>4, <1>6, <2>1, <3>1
    <3> QED BY <2>1, <3>2 DEF L
  <2>3. CASE h # L + 1
    <3>1. h \in 1..L /\ f[h] = Of(s4[h])
      BY <1>1, <2>3
    <3>2. Voices!Same(s4[g], s4[h])
      BY <1>1, <1>4, <1>6, <2>1, <3>1
    <3>3. g = h
      BY <2>1, <3>1, <3>2 DEF VoicesInv, L
    <3> QED BY <1>1, <1>6, <3>3
  <2> QED BY <2>2, <2>3
<1>7. \A g, h \in 1..(L + 1) : f[g] = f[h] => g = h
  <2>1. \A g, h \in 1..(L + 1) : g = h \/ g < h \/ h < g
    BY <1>1
  <2> HIDE DEF f
  <2> QED BY <1>6, <2>1
<1>8. f \in Injection(1..(L + 1), T)
  <2>1. f \in [1..(L + 1) -> T]
    BY <1>5
  <2> HIDE DEF f
  <2> QED BY <1>7, <2>1 DEF Injection, IsInjective
<1>10. Cardinality(1..(L + 1)) <= Cardinality(T)
  BY <1>8, FS_Injection
<1>11. Cardinality(1..(L + 1)) = L + 1
  <2>1. L + 1 \in Int /\ 1 \in Int /\ 1 <= L + 1
    BY <1>1
  <2>2. Cardinality(1..(L + 1)) = (L + 1) - 1 + 1
    BY <2>1, FS_Interval
  <2> QED BY <1>1, <2>2
<1>12. Cardinality(T) \in Nat
  BY FS_CardinalityType
<1>13. Cardinality(T) > L
  BY <1>1, <1>10, <1>11, <1>12
<1> QED BY <1>13 DEF L

LEMMA VoicesReassign == VoicesInv /\ Voices!Reassign => VoicesInv'
<1> SUFFICES ASSUME VoicesInv, Voices!Reassign PROVE VoicesInv'
  OBVIOUS
<1>1. UNCHANGED <<s2, s3, s4>> /\ s5' = 1 /\ s1' \in [Voices!Numbers -> Voices!Recordings]
  BY DEF Voices!Reassign
<1>2. ASSUME NEW c \in Voices!Numbers, Voices!Known(c)' # {}, NEW i \in DOMAIN s1'[c]
      PROVE  s1'[c][i] # 0
  <2>1. DOMAIN s1'[c] = DOMAIN s1[c] /\ Voices!Reassigned(s1[c], s1'[c])
    BY DEF Voices!Reassign
  <2>2. PICK n \in 1..MaxUtterances : DOMAIN s1'[c] = 1..n
    <3>1. s1'[c] \in Voices!Recordings
      BY <1>1
    <3> QED BY <3>1 DEF Voices!Recordings
  <2>3. PICK k \in DOMAIN s1'[c] : s1'[c][k] # 0
    BY <1>2 DEF Voices!Known
  <2>4. n \in Nat /\ k \in 1..n /\ i \in 1..n
    BY <1>2, <2>2, <2>3
  <2> QED BY <2>1, <2>2, <2>3, <2>4, NoneUnknown
<1>3. Voices!Heard' = Voices!Heard /\ Voices!Persons' = Voices!Persons
  BY <1>1 DEF Voices!Heard, Voices!Persons, Voices!Same
<1>4. Voices!Cardinality(Voices!Persons)' = Voices!Cardinality(Voices!Persons)
  BY <1>3 DEF Voices!Cardinality
<1>5. \A h : VoiceOf(h)' = VoiceOf(h) /\ SpeakerOf(h)' = SpeakerOf(h)
  BY <1>1 DEF VoiceOf, SpeakerOf
<1> QED BY <1>1, <1>2, <1>3, <1>4, <1>5 DEF VoicesInv, Voices!VoicesTell, Voices!Same

LEMMA VoicesApply == VoicesInv /\ Voices!Apply => VoicesInv'
<1> SUFFICES ASSUME VoicesInv, Voices!Apply PROVE VoicesInv'
  OBVIOUS
<1>1. UNCHANGED <<s2, s3, s4>> /\ s5' = s5 + 1 /\ s5 \in Nat /\ s5 \in Voices!Numbers /\ s5 > 0
  BY DEF Voices!Apply, VoicesInv, Voices!Numbers
<1> DEFINE t == s1[s5]
           u == [i \in DOMAIN t |-> IF t[i] = 0 THEN 0 ELSE s3[s5][t[i]]]
<1>2. s1' = [s1 EXCEPT ![s5] = u] /\ Voices!Known(s5) = DOMAIN s3[s5]
  BY DEF Voices!Apply
<1>3. PICK n \in 1..MaxUtterances : t \in [1..n -> 0..SpeakerLimit]
  <2>1. t \in Voices!Recordings
    BY <1>1 DEF VoicesInv
  <2> QED BY <2>1 DEF Voices!Recordings
<1>4. ASSUME NEW i \in 1..n, t[i] # 0 PROVE u[i] \in 1..SpeakerLimit
  <2>1. t[i] \in Voices!Known(s5)
    BY <1>3, <1>4 DEF Voices!Known
  <2>2. t[i] \in Voices!Locals
    BY <1>3, <1>4 DEF Voices!Locals
  <2>3. <<s5, t[i]>> \in Voices!Heard
    BY <1>1, <1>2, <2>1, <2>2 DEF Voices!Heard
  <2>4. s3[s5][t[i]] \in 1..Len(s4)
    BY <2>3 DEF VoicesInv, SpeakerOf
  <2>5. Len(s4) <= SpeakerLimit /\ Len(s4) \in Nat
    BY DEF VoicesInv
  <2>6. s3[s5][t[i]] \in 1..SpeakerLimit
    BY <2>4, <2>5, VoiceAssumption
  <2> QED BY <1>3, <1>4, <2>6
<1>5. u \in Voices!Recordings
  <2>1. ASSUME NEW i \in 1..n PROVE u[i] \in 0..SpeakerLimit
    <3>1. CASE t[i] = 0
      BY <1>3, <3>1, VoiceAssumption
    <3>2. CASE t[i] # 0
      <4>1. u[i] \in 1..SpeakerLimit
        BY <1>4, <3>2
      <4> HIDE DEF u
      <4> QED BY <4>1, VoiceAssumption
    <3> QED BY <3>1, <3>2
  <2>2. u \in [1..n -> 0..SpeakerLimit]
    BY <1>3, <2>1
  <2> HIDE DEF u
  <2> QED BY <2>2 DEF Voices!Recordings
<1>6. \A i \in 1..n : (t[i] = 0) <=> (u[i] = 0)
  <2>1. \A i \in 1..n : t[i] = 0 => u[i] = 0
    BY <1>3
  <2> QED BY <1>4, <2>1
<1> HIDE DEF u
<1>7. s1' \in [Voices!Numbers -> Voices!Recordings]
  BY <1>2, <1>5 DEF VoicesInv
<1>8. ASSUME NEW c \in Voices!Numbers, Voices!Known(c)' # {}, NEW i \in DOMAIN s1'[c]
      PROVE  s1'[c][i] # 0
  <2>1. CASE c # s5
    <3>1. s1'[c] = s1[c]
      BY <1>2, <1>7, <2>1 DEF VoicesInv
    <3>2. Voices!Known(c)' = Voices!Known(c)
      BY <3>1 DEF Voices!Known
    <3> QED BY <1>1, <1>8, <3>1, <3>2 DEF VoicesInv
  <2>2. CASE c = s5
    <3>1. s1'[c] = u /\ DOMAIN u = 1..n
      BY <1>1, <1>2, <1>3, <2>2 DEF VoicesInv, u
    <3>2. PICK k \in 1..n : u[k] # 0
      BY <1>8, <3>1 DEF Voices!Known
    <3>3. t[k] # 0 /\ t[k] \in Voices!Known(c)
      BY <1>3, <1>6, <2>2, <3>2 DEF Voices!Known
    <3>4. \A j \in DOMAIN t : t[j] # 0
      BY <1>1, <2>2, <3>3 DEF VoicesInv
    <3> QED BY <1>3, <1>6, <1>8, <3>1, <3>4
  <2> QED BY <2>1, <2>2
<1>9. Voices!Heard' = Voices!Heard /\ Voices!Persons' = Voices!Persons
  BY <1>1 DEF Voices!Heard, Voices!Persons, Voices!Same
<1>10. Voices!Cardinality(Voices!Persons)' = Voices!Cardinality(Voices!Persons)
  BY <1>9 DEF Voices!Cardinality
<1>11. \A h : VoiceOf(h)' = VoiceOf(h) /\ SpeakerOf(h)' = SpeakerOf(h)
  BY <1>1 DEF VoiceOf, SpeakerOf
<1>12. Voices!VoicesTell' = Voices!VoicesTell
       /\ \A v, w : Voices!Same(v, w)' = Voices!Same(v, w)
  BY DEF Voices!VoicesTell, Voices!Same
<1>13. s5' \in Nat
  BY <1>1
<1> HIDE DEF t
<1>14. /\ \A h \in Voices!Heard' : SpeakerOf(h)' \in 1..Len(s4')
       /\ \A g \in 1..Len(s4') : \E h \in Voices!Heard' : s4'[g] = VoiceOf(h)'
  BY <1>1, <1>9, <1>11 DEF VoicesInv
<1>15. /\ Voices!VoicesTell => \A g, h \in 1..Len(s4') : Voices!Same(s4'[g], s4'[h]) => g = h
       /\ Voices!VoicesTell /\ Voices!Cardinality(Voices!Persons)' <= SpeakerLimit =>
            \A h \in Voices!Heard' : Voices!Same(VoiceOf(h)', s4'[SpeakerOf(h)'])
  BY <1>1, <1>9, <1>10, <1>11 DEF VoicesInv
<1> QED BY <1>1, <1>7, <1>8, <1>12, <1>13, <1>14, <1>15 DEF VoicesInv, Voices!Same

LEMMA VoicesMatch ==
    ASSUME VoicesInv, NEW s \in Voices!Locals, Voices!Match(s)
    PROVE  VoicesInv'
<1> DEFINE c == s5
           L == Len(s4)
           v == s2[s5][s]
           similar == {g \in Voices!Best(v) : Alike[v][s4[g]] >= 5}
           new == similar = {} /\ Voices!Room
<1>0. PICK k : k = <<s5, s>>
  OBVIOUS
<1>1. c \in Voices!Numbers /\ c \in Nat /\ s \in Voices!Known(c) /\ s \notin DOMAIN s3[c]
      /\ UNCHANGED <<s1, s2, s5>>
  BY DEF Voices!Match, VoicesInv
<1>2. PICK g \in IF new THEN {L + 1} ELSE IF similar # {} THEN similar ELSE Voices!Best(v) :
        /\ s3' = [s3 EXCEPT ![c] = [t \in DOMAIN s3[c] \cup {s} |-> IF t = s THEN g ELSE s3[c][t]]]
        /\ s4' = IF new THEN Append(s4, v) ELSE s4
  BY DEF Voices!Match
<1>3. v \in VoiceNames /\ s4 \in Seq(VoiceNames) /\ L \in Nat /\ L <= SpeakerLimit
  BY <1>1 DEF VoicesInv
<1>4. ~ new => g \in 1..L /\ (similar # {} => Voices!Same(v, s4[g]))
  <2>1. Voices!Best(v) \subseteq 1..L
    BY <1>3 DEF Voices!Best
  <2> QED BY <1>2, <2>1 DEF Voices!Same
<1>5. ASSUME similar = {}, NEW h \in 1..L PROVE ~ Voices!Same(v, s4[h])
  <2>1. PICK b \in Voices!Best(v) : Alike[v][s4[h]] <= 0 \/ Alike[v][s4[h]] <= Alike[v][s4[b]]
    BY <1>3, SomeBest
  <2>2. ~ (Alike[v][s4[b]] >= 5)
    BY <1>5, <2>1
  <2>3. b \in 1..L
    BY <1>3 DEF Voices!Best
  <2>4. s4[h] \in VoiceNames /\ s4[b] \in VoiceNames
    BY <1>3, <1>5, <2>3
  <2>5. Alike[v][s4[b]] \in Int /\ Alike[v][s4[h]] \in Int
    <3>1. Alike[v] \in [VoiceNames -> -10..10]
      BY <1>3, VoiceAssumption
    <3>2. Alike[v][s4[b]] \in -10..10 /\ Alike[v][s4[h]] \in -10..10
      BY <2>4, <3>1
    <3>3. \A x \in -10..10 : x \in Int
      OBVIOUS
    <3> HIDE DEF v
    <3> QED BY <3>2, <3>3, Zenon
  <2>6. ~ (Alike[v][s4[h]] >= 5)
    BY <2>1, <2>2, <2>5
  <2> QED BY <2>6 DEF Voices!Same
<1>6. s3[c] \in Remaps /\ s \in Voices!Locals
  BY <1>1 DEF VoicesInv
<1> DEFINE K == Len(s4')
<1>7. /\ s4' \in Seq(VoiceNames) /\ K \in Nat /\ K <= SpeakerLimit /\ L <= K /\ g \in 1..K
      /\ \A j \in 1..L : s4'[j] = s4[j]
      /\ K = IF new THEN L + 1 ELSE L
      /\ new => s4'[K] = v
  <2>1. CASE new
    <3>1. s4' = Append(s4, v) /\ g = L + 1
      BY <1>2, <2>1
    <3>2. L < SpeakerLimit
      BY <2>1 DEF Voices!Room
    <3> HIDE DEF new
    <3> QED BY <1>3, <2>1, <3>1, <3>2, VoiceAssumption
  <2>2. CASE ~ new
    <3>1. s4' = s4 /\ g \in 1..L
      BY <1>2, <1>4, <2>2
    <3> HIDE DEF new
    <3> QED BY <1>3, <2>2, <3>1
  <2> QED BY <2>1, <2>2
<1> HIDE DEF new, similar, v, K, L
<1>8. s3' \in [Voices!Numbers -> Remaps]
  <2> DEFINE r == [t \in DOMAIN s3[c] \cup {s} |-> IF t = s THEN g ELSE s3[c][t]]
  <2>1. PICK D \in SUBSET Voices!Locals : s3[c] \in [D -> Nat]
    BY <1>6 DEF Remaps
  <2>2. D \cup {s} \in SUBSET Voices!Locals
    OBVIOUS
  <2>3. g \in Nat
    BY <1>7
  <2>4. r \in [D \cup {s} -> Nat]
    BY <2>1, <2>3
  <2>5. r \in Remaps
    BY <2>2, <2>4 DEF Remaps
  <2> HIDE DEF r
  <2>6. s3' = [s3 EXCEPT ![c] = r]
    BY <1>2 DEF r
  <2> QED BY <2>5, <2>6 DEF VoicesInv
<1>9. Voices!Heard' = Voices!Heard \cup {k} /\ k \notin Voices!Heard
      /\ SpeakerOf(k)' = g
      /\ \A h \in Voices!Heard : SpeakerOf(h)' = SpeakerOf(h)
  <2>1. s3'[c] = [t \in DOMAIN s3[c] \cup {s} |-> IF t = s THEN g ELSE s3[c][t]]
        /\ \A d \in Voices!Numbers : d # c => s3'[d] = s3[d]
    BY <1>1, <1>2 DEF VoicesInv
  <2>2. DOMAIN s3'[c] = DOMAIN s3[c] \cup {s} /\ s3'[c][s] = g
        /\ \A t \in DOMAIN s3[c] : s3'[c][t] = s3[c][t]
    BY <1>1, <2>1
  <2>3. ASSUME NEW d \in Voices!Numbers, NEW t \in Voices!Locals
        PROVE  <<d, t>> \in Voices!Heard' <=> (<<d, t>> \in Voices!Heard \/ <<d, t>> = k)
    BY <1>0, <2>1, <2>2 DEF Voices!Heard
  <2>4. Voices!Heard \subseteq Voices!Numbers \X Voices!Locals
        /\ Voices!Heard' \subseteq Voices!Numbers \X Voices!Locals
        /\ k \in Voices!Numbers \X Voices!Locals
    BY <1>0, <1>1 DEF Voices!Heard
  <2>5. Voices!Heard' = Voices!Heard \cup {k}
    BY <2>3, <2>4
  <2>6. k \notin Voices!Heard
    BY <1>0, <1>1 DEF Voices!Heard
  <2>7. ASSUME NEW h \in Voices!Heard PROVE SpeakerOf(h)' = SpeakerOf(h)
    <3>1. h[1] \in Voices!Numbers /\ h[2] \in DOMAIN s3[h[1]]
      BY DEF Voices!Heard
    <3>2. s3'[h[1]][h[2]] = s3[h[1]][h[2]]
      BY <2>1, <2>2, <3>1
    <3> QED BY <3>2 DEF SpeakerOf
  <2>8. SpeakerOf(k)' = g
    BY <1>0, <1>1, <2>2 DEF SpeakerOf
  <2> QED BY <2>5, <2>6, <2>7, <2>8
<1>10. \A h : VoiceOf(h)' = VoiceOf(h)
  BY <1>1 DEF VoiceOf
<1>11. VoiceOf(k) = v
  BY <1>0 DEF VoiceOf, v
<1>12. \A h \in Voices!Heard' : SpeakerOf(h)' \in 1..K
  <2>1. \A h \in Voices!Heard : SpeakerOf(h) \in 1..L
    BY DEF VoicesInv, L
  <2>2. \A j \in 1..L : j \in 1..K
    BY <1>3, <1>7
  <2> QED BY <1>7, <1>9, <2>1, <2>2
<1>13. ASSUME NEW j \in 1..K PROVE \E h \in Voices!Heard' : s4'[j] = VoiceOf(h)'
  <2>1. CASE j \in 1..L
    <3>1. \E h \in Voices!Heard : s4[j] = VoiceOf(h)
      BY <2>1 DEF VoicesInv, L
    <3> QED BY <1>7, <1>9, <1>10, <2>1, <3>1
  <2>2. CASE j \notin 1..L
    <3>1. new /\ j = K
      BY <1>3, <1>7, <2>2
    <3> QED BY <1>7, <1>9, <1>10, <1>11, <3>1
  <2> QED BY <2>1, <2>2
<1>14. ASSUME Voices!VoicesTell, NEW i \in 1..K, NEW j \in 1..K, Voices!Same(s4'[i], s4'[j])
       PROVE  i = j
  <2>1. \A x \in 1..L : s4[x] \in VoiceNames
    BY <1>3 DEF L
  <2>2. CASE i \in 1..L /\ j \in 1..L
    BY <1>7, <1>14, <2>2 DEF VoicesInv, L
  <2>3. CASE i \notin 1..L \/ j \notin 1..L
    <3>1. new
      BY <1>3, <1>7, <2>3
    <3>2. \A x \in 1..K : x \in 1..L \/ x = K
      BY <1>3, <1>7, <3>1
    <3>3. similar = {}
      BY <3>1 DEF new
    <3>4. ASSUME NEW x \in 1..L PROVE ~ Voices!Same(v, s4[x]) /\ ~ Voices!Same(s4[x], v)
      <4>1. ~ Voices!Same(v, s4[x])
        BY <1>5, <3>3
      <4> QED BY <1>3, <1>14, <2>1, <4>1 DEF Voices!VoicesTell
    <3>5. CASE i \in 1..L /\ j = K
      BY <1>7, <1>14, <3>1, <3>4, <3>5
    <3>6. CASE i = K /\ j \in 1..L
      BY <1>7, <1>14, <3>1, <3>4, <3>6
    <3> QED BY <2>3, <3>2, <3>5, <3>6
  <2> QED BY <2>2, <2>3
<1>15. Voices!Persons \subseteq Voices!Persons'
  <2>1. \A h \in Voices!Heard : {w \in VoiceNames : Voices!Same(s2[h[1]][h[2]], w)} \in Voices!Persons'
    BY <1>1, <1>9 DEF Voices!Persons, Voices!Same
  <2> QED BY <2>1 DEF Voices!Persons
<1>16. IsFiniteSet(Voices!Persons') /\ Cardinality(Voices!Persons) \in Nat
       /\ Cardinality(Voices!Persons') \in Nat
       /\ Cardinality(Voices!Persons) <= Cardinality(Voices!Persons')
  <2>1. Voices!Persons' \in SUBSET SUBSET VoiceNames
    BY DEF Voices!Persons
  <2>2. IsFiniteSet(SUBSET VoiceNames)
    BY VoiceAssumption, FS_SUBSET
  <2>3. IsFiniteSet(Voices!Persons')
    BY <2>1, <2>2, FS_Subset
  <2>4. IsFiniteSet(Voices!Persons)
    BY PersonsCounted
  <2> QED BY <1>15, <2>3, <2>4, FS_Subset, FS_CardinalityType
<1>17. Voices!Cardinality(Voices!Persons)' = Cardinality(Voices!Persons')
  BY DEF Voices!Cardinality, Cardinality
<1>18. ASSUME Voices!VoicesTell, Cardinality(Voices!Persons') <= SpeakerLimit,
              NEW h \in Voices!Heard'
       PROVE  Voices!Same(VoiceOf(h), s4'[SpeakerOf(h)'])
  <2>1. CASE h \in Voices!Heard
    <3>1. Voices!Cardinality(Voices!Persons) <= SpeakerLimit
      BY <1>16, <1>18, PersonsCounted, VoiceAssumption
    <3>2. Voices!Same(VoiceOf(h), s4[SpeakerOf(h)]) /\ SpeakerOf(h) \in 1..L
      BY <1>18, <2>1, <3>1 DEF VoicesInv, L
    <3> QED BY <1>7, <1>9, <2>1, <3>2
  <2>2. CASE h = k
    <3>1. SpeakerOf(h)' = g /\ VoiceOf(h) = v
      BY <1>9, <1>11, <2>2
    <3>2. CASE new
      <4>1. g = K
        BY <1>2, <1>7, <3>2
      <4>2. s4'[g] = v
        BY <1>7, <3>2, <4>1
      <4> QED BY <1>3, <1>18, <3>1, <4>2 DEF Voices!VoicesTell
    <3>3. CASE ~ new /\ similar # {}
      BY <1>4, <1>7, <3>1, <3>3
    <3>4. CASE ~ new /\ similar = {}
      <4>1. L = SpeakerLimit
        <5>1. ~ (L < SpeakerLimit)
          BY <3>4 DEF new, Voices!Room, L
        <5> QED BY <1>3, <5>1, VoiceAssumption
      <4>2. {w \in VoiceNames : Voices!Same(v, w)} \in Voices!Persons'
        <5>1. {w \in VoiceNames : Voices!Same(s2'[k[1]][k[2]], w)} \in Voices!Persons'
          BY <1>9 DEF Voices!Persons, Voices!Same
        <5> QED BY <1>0, <1>1, <5>1 DEF v
      <4>3. \A j \in 1..L : ~ Voices!Same(v, s4[j])
        BY <1>5, <3>4
      <4> DEFINE T == Voices!Persons'
      <4>4. IsFiniteSet(T) /\ Voices!Persons \subseteq T
        BY <1>15, <1>16
      <4>5. {w \in VoiceNames : Voices!Same(v, w)} \in T
        BY <4>2
      <4>6. Cardinality(T) \in Nat /\ Cardinality(T) <= SpeakerLimit
        BY <1>16, <1>18
      <4> HIDE DEF T
      <4>7. Cardinality(T) > Len(s4)
        BY <1>3, <1>18, <4>3, <4>4, <4>5, OneMore DEF L
      <4> QED BY <4>1, <4>6, <4>7, VoiceAssumption DEF L
    <3> QED BY <3>2, <3>3, <3>4
  <2> QED BY <1>9, <1>18, <2>1, <2>2
<1>19. s5' > 0 => \A d \in Voices!Numbers :
                    Voices!Known(d)' # {} => \A i \in DOMAIN s1'[d] : s1'[d][i] # 0
  BY <1>1 DEF VoicesInv, Voices!Known
<1>20. Voices!VoicesTell' = Voices!VoicesTell
  BY DEF Voices!VoicesTell, Voices!Same
<1>21. \A u, w : Voices!Same(u, w)' = Voices!Same(u, w)
  BY DEF Voices!Same
<1>22. Voices!VoicesTell' => \A i, j \in 1..Len(s4') : Voices!Same(s4'[i], s4'[j]) => i = j
  BY <1>14, <1>20 DEF K
<1>23. Voices!VoicesTell' /\ Voices!Cardinality(Voices!Persons)' <= SpeakerLimit =>
         \A h \in Voices!Heard' : Voices!Same(VoiceOf(h)', s4'[SpeakerOf(h)'])
  BY <1>10, <1>17, <1>18, <1>20
<1>24. /\ \A h \in Voices!Heard' : SpeakerOf(h)' \in 1..Len(s4')
       /\ \A j \in 1..Len(s4') : \E h \in Voices!Heard' : s4'[j] = VoiceOf(h)'
       /\ s4' \in Seq(VoiceNames) /\ Len(s4') <= SpeakerLimit
  BY <1>7, <1>12, <1>13 DEF K
<1> QED BY <1>1, <1>8, <1>19, <1>22, <1>23, <1>24 DEF VoicesInv, Voices!Same

LEMMA VoicesStep ==
    ASSUME part = "speakers", VoicesInv, [WorkspaceNext]_wsVars
    PROVE  VoicesInv'
<1>1. CASE UNCHANGED registers
  <2>1. UNCHANGED <<s1, s2, s3, s4, s5>>
    BY <1>1 DEF registers
  <2>2. Voices!Heard' = Voices!Heard /\ Voices!Persons' = Voices!Persons
        /\ \A c : Voices!Known(c)' = Voices!Known(c)
    BY <2>1 DEF Voices!Heard, Voices!Persons, Voices!Same, Voices!Known
  <2>3. Voices!Cardinality(Voices!Persons)' = Voices!Cardinality(Voices!Persons)
    BY <2>2 DEF Voices!Cardinality
  <2>4. \A h : VoiceOf(h)' = VoiceOf(h) /\ SpeakerOf(h)' = SpeakerOf(h)
    BY <2>1 DEF VoiceOf, SpeakerOf
  <2> QED BY <2>1, <2>2, <2>3, <2>4 DEF VoicesInv, Voices!VoicesTell, Voices!Same
<1> QED BY <1>1, VoicesMoves, VoicesReassign, VoicesApply, VoicesMatch DEF Voices!Next

LEMMA VoicesTold == VoicesInv => Voices!SpeakersTold
<1> SUFFICES ASSUME VoicesInv PROVE Voices!SpeakersTold
  OBVIOUS
<1>1. ASSUME NEW c \in Voices!Numbers PROVE Voices!Known(c) \subseteq 1..SpeakerLimit
  <2>1. PICK n \in 1..MaxUtterances : s1[c] \in [1..n -> 0..SpeakerLimit]
    <3>1. s1[c] \in Voices!Recordings
      BY DEF VoicesInv
    <3> QED BY <3>1 DEF Voices!Recordings
  <2>2. \A i \in 1..n : s1[c][i] = 0 \/ s1[c][i] \in 1..SpeakerLimit
    BY <2>1, VoiceAssumption
  <2> QED BY <2>1, <2>2 DEF Voices!Known
<1>2. ASSUME Voices!VoicesTell, Voices!Cardinality(Voices!Persons) <= SpeakerLimit,
             NEW h \in Voices!Heard, NEW k \in Voices!Heard
      PROVE  (SpeakerOf(h) = SpeakerOf(k)) <=> Voices!Same(VoiceOf(h), VoiceOf(k))
  <2>1. VoiceOf(h) \in VoiceNames /\ VoiceOf(k) \in VoiceNames
    BY DEF VoicesInv, VoiceOf, Voices!Heard
  <2>2. SpeakerOf(h) \in 1..Len(s4) /\ SpeakerOf(k) \in 1..Len(s4)
    BY DEF VoicesInv
  <2>3. s4[SpeakerOf(h)] \in VoiceNames /\ s4[SpeakerOf(k)] \in VoiceNames
    BY <2>2 DEF VoicesInv
  <2>4. Voices!Same(VoiceOf(h), s4[SpeakerOf(h)]) /\ Voices!Same(VoiceOf(k), s4[SpeakerOf(k)])
    BY <1>2 DEF VoicesInv
  <2>5. ASSUME SpeakerOf(h) = SpeakerOf(k) PROVE Voices!Same(VoiceOf(h), VoiceOf(k))
    <3>1. Voices!Same(s4[SpeakerOf(k)], VoiceOf(k))
      BY <1>2, <2>1, <2>3, <2>4 DEF Voices!VoicesTell
    <3> QED BY <1>2, <2>1, <2>3, <2>4, <2>5, <3>1 DEF Voices!VoicesTell
  <2>6. ASSUME Voices!Same(VoiceOf(h), VoiceOf(k)) PROVE SpeakerOf(h) = SpeakerOf(k)
    <3>1. Voices!Same(s4[SpeakerOf(h)], VoiceOf(h))
      BY <1>2, <2>1, <2>3, <2>4 DEF Voices!VoicesTell
    <3>2. Voices!Same(s4[SpeakerOf(h)], VoiceOf(k))
      BY <1>2, <2>1, <2>3, <2>6, <3>1 DEF Voices!VoicesTell
    <3>3. Voices!Same(s4[SpeakerOf(h)], s4[SpeakerOf(k)])
      BY <1>2, <2>1, <2>3, <2>4, <3>2 DEF Voices!VoicesTell
    <3> QED BY <1>2, <2>2, <3>3 DEF VoicesInv
  <2> QED BY <2>5, <2>6
<1> QED BY <1>1, <1>2 DEF Voices!SpeakersTold, VoicesInv, VoiceOf, SpeakerOf

-----------------------------------------------------------------------------
(* The attribution of segments without a speaker *)

\* Once a line of the answer was applied, the prompt is what is numbered; an unknown segment
\* has a speaker of the last line with its number that names one, and every other is as
\* it was.
AttrInv ==
    /\ \E n \in Nat : s1 \in [1..n -> Named!Segment] /\ s2 \in [1..n -> Named!Segment]
    /\ s4 \in Seq(Nat \X AnswerNames)
    /\ s3 \subseteq Named!Numbered
    /\ s5 = "answered" \/ s4 # <<>> => s3 = Named!Numbered
    /\ \A i \in DOMAIN s1 :
         IF i \in Named!Unknown /\ Named!Answers(Named!Number(i)) # {}
         THEN s1[i].who \in Named!Named(s4[Named!Max(Named!Answers(Named!Number(i)))][2])
         ELSE s1[i] = s2[i]

LEMMA AttrMoves ==
    ASSUME part = "attribution", [WorkspaceNext]_wsVars
    PROVE  part' = part /\ (Named!Next \/ UNCHANGED registers)
BY DEF WorkspaceNext, wsVars

LEMMA AttrStarts == WorkspaceInit /\ part = "attribution" => AttrInv
<1> SUFFICES ASSUME WorkspaceInit, part = "attribution" PROVE AttrInv
  OBVIOUS
<1>1. Named!Init
  BY DEF WorkspaceInit, PartInit
<1>2. PICK n \in 1..MaxNumbered : s1 \in [1..n -> Named!Segment]
  BY <1>1 DEF Named!Init
<1>3. n \in Nat
  OBVIOUS
<1>4. \A m : Named!Answers(m) = {}
  BY <1>1 DEF Named!Init, Named!Answers
<1>5. s2 = s1 /\ s3 = {} /\ s4 = <<>> /\ s5 = "start"
  BY <1>1 DEF Named!Init
<1> QED BY <1>2, <1>3, <1>4, <1>5 DEF AttrInv

\* Two segments without a speaker have two numbers.
LEMMA NumbersDiffer ==
    ASSUME AttrInv, NEW i \in Named!Unknown, NEW j \in Named!Unknown, i # j
    PROVE  Named!Number(i) # Named!Number(j) /\ Named!Number(i) \in Nat
<1> PICK n \in Nat : s2 \in [1..n -> Named!Segment]
  BY DEF AttrInv
<1> DEFINE Upto(k) == {u \in Named!Unknown : u <= k}
<1>1. Named!Unknown \subseteq 1..n
  BY DEF Named!Unknown
<1>2. ASSUME NEW k PROVE IsFiniteSet(Upto(k)) /\ Cardinality(Upto(k)) \in Nat
  <2>1. Upto(k) \subseteq 1..n
    BY <1>1
  <2>2. IsFiniteSet(1..n)
    BY FS_Interval
  <2>3. IsFiniteSet(Upto(k))
    BY <2>1, <2>2, FS_Subset
  <2> QED BY <2>3, FS_CardinalityType
<1>3. \A k : Named!Number(k) = Cardinality(Upto(k))
  BY DEF Named!Number, Named!Cardinality, Cardinality
<1>4. ASSUME NEW a \in Named!Unknown, NEW b \in Named!Unknown, a < b
      PROVE  Cardinality(Upto(a)) # Cardinality(Upto(b))
  <2>1. a \in Nat /\ b \in Nat /\ Named!Unknown \subseteq Nat
    BY <1>1
  <2>2. \A u \in Upto(a) : u \in Upto(b)
    BY <1>4, <2>1
  <2>3. b \in Upto(b) /\ b \notin Upto(a)
    BY <1>4, <2>1
  <2>4. IsFiniteSet(Upto(b))
    BY <1>2
  <2> HIDE DEF Upto
  <2> QED BY <2>2, <2>3, <2>4, FS_Subset
<1> HIDE DEF Upto
<1>5. i \in Nat /\ j \in Nat
  BY <1>1
<1> QED BY <1>2, <1>3, <1>4, <1>5

\* The last of some numbers of lines.
LEMMA LastAnswer ==
    ASSUME AttrInv, NEW m, Named!Answers(m) # {}
    PROVE  Named!Max(Named!Answers(m)) \in 1..Len(s4)
<1>1. Named!Answers(m) \subseteq 1..Len(s4)
  BY DEF AttrInv, Named!Answers
<1>2. Len(s4) \in Int
  BY DEF AttrInv
<1>3. \E x \in Named!Answers(m) : \A y \in Named!Answers(m) : y <= x
  <2> DEFINE T == Named!Answers(m)
  <2>1. T \in SUBSET Int /\ T # {} /\ \A x \in T : x <= Len(s4)
    BY <1>1, <1>2
  <2> HIDE DEF T
  <2>2. \E x \in T : \A y \in T : y <= x
    BY <1>2, <2>1, Greatest
  <2> QED BY <2>2 DEF T
<1>4. \E x \in Named!Answers(m) : \A y \in Named!Answers(m) : x >= y
  BY <1>1, <1>3
<1> QED BY <1>1, <1>4 DEF Named!Max

LEMMA AttrLine ==
    ASSUME AttrInv, NEW n \in 0..(MaxNumbered + 1), NEW name \in AnswerNames,
           Named!Line(n, name)
    PROVE  AttrInv'
<1> PICK z \in Nat : s1 \in [1..z -> Named!Segment] /\ s2 \in [1..z -> Named!Segment]
  BY DEF AttrInv
<1> DEFINE last == Len(s4) + 1
           names == name # "Unknown" /\ Named!Named(name) # {}
           A(i) == Named!Answers(Named!Number(i))
<1>1. s4 \in Seq(Nat \X AnswerNames) /\ s4' = Append(s4, <<n, name>>) /\ n \in Nat
  BY DEF AttrInv, Named!Line
<1>2. s2' = s2 /\ s3' = s3 /\ s5' = s5 /\ s5 = "answered"
  BY DEF Named!Line
<1>3. s4' \in Seq(Nat \X AnswerNames) /\ Len(s4') = last /\ s4'[last] = <<n, name>>
      /\ \A k \in 1..Len(s4) : s4'[k] = s4[k]
  BY <1>1
<1>4. Named!Unknown' = Named!Unknown /\ Named!Numbered' = Named!Numbered
      /\ \A i : Named!Number(i)' = Named!Number(i)
  BY <1>2 DEF Named!Unknown, Named!Numbered, Named!Number
<1>5. DOMAIN s4 = 1..Len(s4) /\ DOMAIN s4' = 1..last /\ Len(s4) \in Nat
  BY <1>1, <1>3
<1>6. ASSUME NEW m PROVE Named!Answers(m)' = Named!Answers(m)
                            \cup {k \in {last} : m = n /\ names}
  <2>1. \A k \in 1..last : k \in 1..Len(s4) \/ k = last
    BY <1>5
  <2>2. \A k \in 1..Len(s4) : k \in 1..last /\ k # last
    BY <1>5
  <2>3. last \in 1..last
    BY <1>5
  <2>4. ASSUME NEW k \in 1..Len(s4) PROVE k \in Named!Answers(m)' <=> k \in Named!Answers(m)
    BY <1>3, <1>5, <2>2, <2>4 DEF Named!Answers, Named!Named
  <2>5. last \in Named!Answers(m)' <=> (m = n /\ names)
    BY <1>3, <1>5, <2>3 DEF Named!Answers, Named!Named
  <2>6. Named!Answers(m) \subseteq 1..Len(s4) /\ Named!Answers(m)' \subseteq 1..last
    BY <1>5 DEF Named!Answers
  <2> HIDE DEF last, names
  <2> QED BY <2>1, <2>2, <2>4, <2>5, <2>6
<1>7. ASSUME NEW i, A(i)' = A(i), A(i) # {}, NEW who
      PROVE  who \in Named!Named(s4[Named!Max(A(i))][2])
               => who \in Named!Named(s4'[Named!Max(A(i)')][2])
  <2>1. Named!Max(A(i)) \in 1..Len(s4)
    BY <1>7, LastAnswer
  <2>2. s4'[Named!Max(A(i)')] = s4[Named!Max(A(i))]
    BY <1>3, <1>7, <2>1
  <2> QED BY <2>2
<1>8. ASSUME NEW i \in Named!Unknown, Named!Number(i) # n \/ ~ names
      PROVE  A(i)' = A(i)
  BY <1>4, <1>6, <1>8
<1> DEFINE Right(i) == IF i \in Named!Unknown /\ A(i) # {}
                       THEN s1[i].who \in Named!Named(s4[Named!Max(A(i))][2])
                       ELSE s1[i] = s2[i]
<1>9. \A i \in DOMAIN s1 : Right(i)
  BY DEF AttrInv
<1>10. ASSUME NEW i \in DOMAIN s1, s1'[i] = s1[i], A(i)' = A(i) \/ i \notin Named!Unknown
       PROVE  Right(i)'
  <2>1. CASE i \notin Named!Unknown
    BY <1>2, <1>4, <1>9, <1>10, <2>1
  <2>2. CASE i \in Named!Unknown /\ A(i) = {}
    BY <1>2, <1>4, <1>9, <1>10, <2>2
  <2>3. CASE i \in Named!Unknown /\ A(i) # {}
    <3>1. s1[i].who \in Named!Named(s4[Named!Max(A(i))][2])
      BY <1>9, <2>3
    <3>2. A(i)' = A(i)
      BY <1>10, <2>3
    <3>3. s1[i].who \in Named!Named(s4'[Named!Max(A(i)')][2])
      BY <1>7, <2>3, <3>1, <3>2
    <3> QED BY <1>4, <1>10, <2>3, <3>2, <3>3
  <2> QED BY <2>1, <2>2, <2>3
<1>11. s1' \in [1..z -> Named!Segment] /\ \A i \in DOMAIN s1 : Right(i)'
  <2>1. CASE /\ \A i \in Named!Unknown, s \in Named!Speakers : ~ Named!Gives(n, name, i, s)
             /\ UNCHANGED s1
    <3>1. ASSUME NEW i \in Named!Unknown PROVE A(i)' = A(i)
      <4>1. Named!Named(name) \subseteq Named!Speakers
        BY DEF Named!Named
      <4>2. Named!Number(i) # n \/ ~ names
        BY <2>1, <4>1 DEF Named!Gives
      <4> QED BY <1>8, <4>2
    <3> HIDE DEF A, Right
    <3> QED BY <1>10, <2>1, <3>1
  <2>2. ASSUME NEW j \in Named!Unknown, NEW s \in Named!Speakers,
               Named!Gives(n, name, j, s), s1' = [s1 EXCEPT ![j].who = s]
        PROVE  s1' \in [1..z -> Named!Segment] /\ \A i \in DOMAIN s1 : Right(i)'
    <3>1. j \in 1..z /\ Named!Number(j) = n /\ names /\ s \in Named!Named(name)
      BY <2>2 DEF Named!Unknown, Named!Gives
    <3>2. s1'[j] = [s1[j] EXCEPT !.who = s] /\ \A i \in 1..z : i # j => s1'[i] = s1[i]
      BY <2>2, <3>1
    <3>3. s1[j] \in Named!Segment
      BY <3>1
    <3>4. s1'[j].who = s /\ s1'[j] \in Named!Segment
      BY <3>2, <3>3 DEF Named!Segment
    <3>5. s1' \in [1..z -> Named!Segment]
      BY <2>2, <3>2, <3>4
    <3>6. ASSUME NEW i \in 1..z, i # j PROVE Right(i)'
      <4>1. s1'[i] = s1[i]
        BY <3>2, <3>6
      <4>2. ASSUME i \in Named!Unknown PROVE A(i)' = A(i)
        <5>1. Named!Number(i) # n
          BY <3>1, <3>6, <4>2, NumbersDiffer
        <5> QED BY <1>8, <4>2, <5>1
      <4> HIDE DEF A, Right
      <4> QED BY <1>10, <3>6, <4>1, <4>2
    <3>7. Right(j)'
      <4>1. A(j)' = A(j) \cup {last}
        BY <1>4, <1>6, <3>1
      <4>2. A(j) \subseteq 1..Len(s4)
        BY <1>5 DEF Named!Answers
      <4>3. \A y \in A(j)' : last >= y
        BY <1>5, <4>1, <4>2
      <4>4. \A x \in A(j)' : (\A y \in A(j)' : x >= y) => x = last
        <5>1. last \in A(j)' /\ \A x \in A(j)' : x \in Int
          BY <1>5, <4>1, <4>2
        <5>2. last \in Int
          BY <1>5
        <5> HIDE DEF A, last
        <5> QED BY <4>3, <5>1, <5>2
      <4> HIDE DEF A
      <4>5. Named!Max(A(j)') = last
        BY <4>1, <4>3, <4>4 DEF Named!Max
      <4>6. s4'[Named!Max(A(j)')][2] = name
        BY <1>3, <4>5
      <4>7. s1'[j].who \in Named!Named(s4'[Named!Max(A(j)')][2])
        BY <3>1, <3>4, <4>6
      <4> QED BY <1>4, <4>1, <4>7
    <3> QED BY <3>5, <3>6, <3>7
  <2> QED BY <2>1, <2>2 DEF Named!Line
<1>12. \A i \in DOMAIN s1' : Right(i)'
  BY <1>11
<1>13. s3 = Named!Numbered
  BY <1>2 DEF AttrInv
<1>14. s1' \in [1..z -> Named!Segment] /\ s2' \in [1..z -> Named!Segment]
  BY <1>2, <1>11
<1> QED BY <1>2, <1>3, <1>4, <1>12, <1>13, <1>14 DEF AttrInv

LEMMA AttrStep ==
    ASSUME part = "attribution", AttrInv, [WorkspaceNext]_wsVars
    PROVE  AttrInv'
<1>1. CASE UNCHANGED registers
  <2>1. UNCHANGED <<s1, s2, s3, s4, s5>>
    BY <1>1 DEF registers
  <2>2. Named!Unknown' = Named!Unknown /\ Named!Numbered' = Named!Numbered
        /\ (\A i : Named!Number(i)' = Named!Number(i))
        /\ \A m : Named!Answers(m)' = Named!Answers(m)
    BY <2>1 DEF Named!Unknown, Named!Numbered, Named!Number, Named!Answers, Named!Named
  <2> QED BY <2>1, <2>2 DEF AttrInv
<1>2. ASSUME Named!Ask \/ Named!Fail \/ Named!Done PROVE AttrInv'
  <2>1. UNCHANGED <<s1, s2, s4>>
    BY <1>2 DEF Named!Ask, Named!Fail, Named!Done
  <2>2. Named!Unknown' = Named!Unknown /\ Named!Numbered' = Named!Numbered
        /\ (\A i : Named!Number(i)' = Named!Number(i))
        /\ \A m : Named!Answers(m)' = Named!Answers(m)
    BY <2>1 DEF Named!Unknown, Named!Numbered, Named!Number, Named!Answers, Named!Named
  <2>3. s3' \subseteq Named!Numbered /\ (s5' = "answered" \/ s4 # <<>> => s3' = Named!Numbered)
    <3>1. CASE Named!Ask
      BY <3>1 DEF AttrInv, Named!Ask
    <3>2. CASE Named!Fail \/ Named!Done
      BY <3>2 DEF AttrInv, Named!Fail, Named!Done
    <3> QED BY <1>2, <3>1, <3>2
  <2> QED BY <2>1, <2>2, <2>3 DEF AttrInv
<1>3. QED
  BY <1>1, <1>2, AttrMoves, AttrLine DEF Named!Next

LEMMA AttributionTold == AttrInv => Named!OnlyAsAnswered
<1> SUFFICES ASSUME AttrInv, NEW i \in DOMAIN s1, s2[i].spoken
             PROVE  LET given == UNION {Named!Answers(p[1]) : p \in {q \in s3 : q[2] = i}}
                    IN IF given = {} THEN s1[i] = s2[i]
                       ELSE s1[i].who \in Named!Named(s4[Named!Max(given)][2])
  BY DEF Named!OnlyAsAnswered
<1> DEFINE asked == {q \in s3 : q[2] = i}
           given == UNION {Named!Answers(p[1]) : p \in asked}
           A == Named!Answers(Named!Number(i))
<1>1. \A q \in Named!Numbered : q = <<Named!Number(q[2]), q[2]>> /\ q[2] \in Named!Unknown
  BY DEF Named!Numbered
<1>2. \A q \in asked : q = <<Named!Number(i), i>> /\ i \in Named!Unknown
  BY <1>1 DEF AttrInv
<1>3. IF i \in Named!Unknown /\ A # {}
      THEN s1[i].who \in Named!Named(s4[Named!Max(A)][2])
      ELSE s1[i] = s2[i]
  BY DEF AttrInv
<1>4. CASE i \notin Named!Unknown
  BY <1>2, <1>3, <1>4
<1>5. CASE i \in Named!Unknown /\ s4 = <<>>
  <2>1. \A m : Named!Answers(m) = {}
    BY <1>5 DEF Named!Answers
  <2>2. given = {} /\ s1[i] = s2[i]
    BY <1>3, <2>1
  <2> QED BY <2>2
<1>6. CASE i \in Named!Unknown /\ s4 # <<>>
  <2>1. <<Named!Number(i), i>> \in Named!Numbered
    BY <1>6 DEF Named!Numbered
  <2>2. s3 = Named!Numbered
    BY <1>6 DEF AttrInv
  <2>3. <<Named!Number(i), i>> \in asked
    BY <2>1, <2>2
  <2>4. given = A
    <3>1. \A p \in asked : p[1] = Named!Number(i)
      BY <1>2
    <3>2. \E p \in asked : p[1] = Named!Number(i)
      BY <2>3
    <3> HIDE DEF asked
    <3> QED BY <3>1, <3>2
  <2> HIDE DEF given, A
  <2> QED BY <1>3, <1>6, <2>4 DEF given
<1> QED BY <1>4, <1>5, <1>6

-----------------------------------------------------------------------------
(* The theorems *)

\* Read errors and short reads leave no gap and no padding in what is sent: the encoded mail
\* and the lines of an attachment are the bytes of the file, and `draft send' and `draft push'
\* compose a mail with inline images alike, whatever the sizes (draft/send.rs, push.rs).
THEOREM MessagesStayWhole == WorkspaceSpec => []MessagesAreWhole
<1> DEFINE I == part = "mime" => MimeInv
<1>1. WorkspaceInit => I
  BY MimeStarts
<1>2. I /\ [WorkspaceNext]_wsVars => I'
  <2>1. [WorkspaceNext]_wsVars => part' = part
    BY DEF WorkspaceNext, wsVars
  <2> QED BY <2>1, MimeMoves, MimeStep
<1>3. I => MessagesAreWhole
  BY MimeTold, SendersAlike DEF MessagesAreWhole
<1> QED BY <1>1, <1>2, <1>3, PTL DEF WorkspaceSpec

\* In whatever order mails come, by IMAP and by Gmail, merged, refetched and cleaned up, one
\* file claims a thread key and a merged mail with a Message-ID stays in a file
\* (imap_sync.rs); and overlapping or broken imports leave each message once and by time.
THEOREM ConversationsStay == WorkspaceSpec => []ConversationsAreKept
<1> DEFINE I == /\ part = "conversations" => ConvInv
                /\ part = "imports" => ImportInv
<1>1. WorkspaceInit => I
  BY ConvStarts, ImportStarts
<1>2. I /\ [WorkspaceNext]_wsVars => I'
  <2>1. [WorkspaceNext]_wsVars => part' = part
    BY DEF WorkspaceNext, wsVars
  <2> QED BY <2>1, ConvMoves, ConvStep, ImportMoves, ImportStep
<1>3. I => ConversationsAreKept
  <2>1. ImportInv => Import!ImportedOnce
    BY DEF ImportInv, Chronicle, Import!ImportedOnce
  <2> QED BY <2>1, ConvKept DEF ConversationsAreKept
<1> QED BY <1>1, <1>2, <1>3, PTL DEF WorkspaceSpec

\* Whatever requests fail, an upload that ends without an id was disturbed, and the video of
\* a draft has every byte of its file in its place, of one version if nobody replaced the
\* file meanwhile, for every size and length of chunks (social/youtube.rs).
THEOREM VideosStayWhole == WorkspaceSpec => []VideosAreWhole
<1> DEFINE I == part = "youtube" => VideoInv
<1>1. WorkspaceInit => I
  BY VideoStarts
<1>2. I /\ [WorkspaceNext]_wsVars => I'
  <2>1. [WorkspaceNext]_wsVars => part' = part
    BY DEF WorkspaceNext, wsVars
  <2> QED BY <2>1, VideoMoves, VideoStep
<1>3. I => VideosAreWhole
  BY VideosTold DEF VideosAreWhole
<1> QED BY <1>1, <1>2, <1>3, PTL DEF WorkspaceSpec

\* Whatever Google answers and others change meanwhile, what a deletion counts as deleted is
\* gone with everything under it, it touches only what was listed, and the free time of a
\* check is no more than there is (cal/delete.rs, check.rs).
THEOREM CalendarIsTold == WorkspaceSpec => []CalendarIsAsTold
<1> DEFINE I == part = "calendar" => CalInv
<1>1. WorkspaceInit => I
  BY CalStarts
<1>2. I /\ [WorkspaceNext]_wsVars => I'
  <2>1. [WorkspaceNext]_wsVars => part' = part
    BY DEF WorkspaceNext, wsVars
  <2> QED BY <2>1, CalMoves, CalStep
<1>3. I => CalendarIsAsTold
  BY CalendarTold DEF CalendarIsAsTold
<1> QED BY <1>1, <1>2, <1>3, PTL DEF WorkspaceSpec

\* The second pass replaces exactly the blocks it found, whatever their number and the length
\* of what replaces them (engine.rs); the speakers of the chunks are matched as their voices
\* are similar, in any order and to any number of speakers (diarize.rs); and an answer of the
\* language model gives each segment the name it was asked for (resolve.rs).
THEOREM SpeakersStay == WorkspaceSpec => []SpeakersAreTold
<1> DEFINE I == /\ part = "transcript" => AgainInv
                /\ part = "speakers" => VoicesInv
                /\ part = "attribution" => AttrInv
<1>1. WorkspaceInit => I
  BY AgainStarts, VoicesStarts, AttrStarts
<1>2. I /\ [WorkspaceNext]_wsVars => I'
  <2>1. [WorkspaceNext]_wsVars => part' = part
    BY DEF WorkspaceNext, wsVars
  <2> QED BY <2>1, AgainStep, VoicesStep, AttrStep
<1>3. I => SpeakersAreTold
  BY AgainTold, VoicesTold, AttributionTold DEF SpeakersAreTold
<1> QED BY <1>1, <1>2, <1>3, PTL DEF WorkspaceSpec

=============================================================================
