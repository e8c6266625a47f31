---------------------------- MODULE WorkspaceProofs ----------------------------
(***************************************************************************)
(* Machine-checked proofs about the token store and the parts of           *)
(* Workspace, for every value of its constants.  For each part there is    *)
(* an invariant, which is shown to hold while that part runs; the theorems *)
(* follow from these.  ContentProofs has those about what is done to       *)
(* contents.                                                               *)
(***************************************************************************)
EXTENDS Workspace, TextProofs

-----------------------------------------------------------------------------
(* The token store: for every set of processes, keys and tokens, the merge of    *)
(* save_to makes tokens.json a register per key, whatever the interleaving of    *)
(* loads, logins, saves and clearings.                                           *)

\* Each kind of action of Next, in the form the proofs by cases use.
Step ==
    \/ \E p \in Procs, k \in Keys : Load(p, k)
    \/ \E p \in Procs, t \in Tokens : Renew(p, t)
    \/ \E p \in Procs : \/ UseCached(p) \/ Save(p) \/ CallOk(p) \/ Call401(p)
                        \/ ClearByValue(p) \/ ClearByKey(p) \/ Quit(p)
    \/ \E t \in Tokens : Expire(t) \/ Revoke(t)

LEMMA NextIsStep == Next <=> Step
BY DEF Next, Step

\* A process works for one of the keys of the store.
Keyed == \A p \in Procs : pc[p] # "idle" => key[p] \in Keys

\* Whatever is on disk has been counted as seen.
DiskSeen == \A k \in Keys : disk[k] # NoToken => disk[k] \in seen

\* Between load and save a store differs from what was loaded only at the key
\* its process renews, and nothing is marked for deletion.
StoresAreNarrow ==
    \A p \in Procs :
        /\ pc[p] = "loaded" => tokens[p] = loaded[p] /\ dirty[p] = {} /\ deleted[p] = {}
        /\ pc[p] = "save" =>
              /\ tokens[p] = [loaded[p] EXCEPT ![key[p]] = token[p]]
              /\ dirty[p] = {key[p]} /\ deleted[p] = {}

\* The token a process is about to save was issued to it alone.
RenewedIsFresh ==
    \A p \in Procs : pc[p] = "save" =>
        /\ token[p] \in issued /\ token[p] \notin seen
        /\ \A q \in Procs : pc[q] = "save" /\ token[q] = token[p] => q = p

\* A process clears a token only after the provider has refused it.
ClearedWasRejected ==
    \A p \in Procs : pc[p] = "clear" => token[p] \in expired \cup revoked

IInv == TypeOK /\ Keyed /\ DiskSeen /\ StoresAreNarrow /\ RenewedIsFresh /\ ClearedWasRejected

-----------------------------------------------------------------------------
\* What a save writes: the key the process renewed, and nothing else, however
\* old the copy it loaded is.
LEMMA MergedWritesOneKey ==
    ASSUME IInv, NEW p \in Procs, pc[p] = "save"
    PROVE  Merged(p, disk) = [disk EXCEPT ![key[p]] = token[p]]
<1>1. /\ key[p] \in Keys /\ token[p] \in Tokens /\ token[p] # NoToken
      /\ tokens[p] = [loaded[p] EXCEPT ![key[p]] = token[p]]
      /\ dirty[p] = {key[p]} /\ deleted[p] = {}
      /\ loaded[p] \in Map /\ disk \in Map
  BY TokenAssumption DEF IInv, TypeOK, Keyed, StoresAreNarrow, RenewedIsFresh
<1> QED
  BY <1>1 DEF Merged, Map

LEMMA SaveEffect ==
    ASSUME IInv, NEW p \in Procs, Save(p)
    PROVE  /\ disk' = [disk EXCEPT ![key[p]] = token[p]]
           /\ seen' = seen \cup {token[p]}
           /\ key[p] \in Keys /\ token[p] \in Tokens /\ token[p] \notin seen
<1>1. pc[p] = "save" /\ disk' = [disk EXCEPT ![key[p]] = token[p]]
  BY MergedWritesOneKey DEF Save
<1>2. key[p] \in Keys /\ token[p] \in Tokens /\ token[p] \notin seen /\ token[p] # NoToken
  BY <1>1, TokenAssumption DEF IInv, TypeOK, Keyed, RenewedIsFresh
<1>3. disk \in [Keys -> Tokens \cup {NoToken}] /\ \A k \in Keys : disk[k] # NoToken => disk[k] \in seen
  BY DEF IInv, TypeOK, Map, DiskSeen
<1>4. seen' = seen \cup ({disk'[k] : k \in Keys} \ {NoToken})
  BY DEF Save
<1>5. disk'[key[p]] = token[p] /\ \A k \in Keys : k # key[p] => disk'[k] = disk[k]
  BY <1>1, <1>2, <1>3
<1>6. seen' = seen \cup {token[p]}
  BY <1>2, <1>3, <1>4, <1>5
<1> QED
  BY <1>1, <1>2, <1>6

LEMMA InvInit == Init => IInv
BY DEF Init, IInv, TypeOK, Map, Empty, Keyed, DiskSeen, StoresAreNarrow, RenewedIsFresh,
   ClearedWasRejected

\* The invariant is inductive: one step per action.
LEMMA InvStep ==
    ASSUME IInv, Step
    PROVE  IInv'
<1> USE TokenAssumption DEF IInv, TypeOK, Map
<1>1. ASSUME NEW p \in Procs, NEW k \in Keys, Load(p, k) PROVE IInv'
  BY <1>1 DEF Load, provider, Keyed, DiskSeen, StoresAreNarrow, RenewedIsFresh, ClearedWasRejected
<1>2. ASSUME NEW p \in Procs, NEW t \in Tokens, Renew(p, t) PROVE IInv'
  <2>1. /\ pc[p] = "loaded" /\ key[p] \in Keys /\ tokens[p] \in Map
        /\ tokens[p] = loaded[p] /\ dirty[p] = {} /\ deleted[p] = {}
    BY <1>2 DEF Renew, Keyed, StoresAreNarrow
  <2>2. /\ tokens' = [tokens EXCEPT ![p] = [loaded[p] EXCEPT ![key[p]] = t]]
        /\ dirty' = [dirty EXCEPT ![p] = {key[p]}]
        /\ deleted' = [deleted EXCEPT ![p] = {}]
    BY <1>2, <2>1 DEF Renew
  <2>3. TypeOK'
    BY <1>2, <2>1, <2>2 DEF Renew
  <2>4. Keyed' /\ DiskSeen' /\ ClearedWasRejected'
    BY <1>2 DEF Renew, Keyed, DiskSeen, ClearedWasRejected
  <2>5. StoresAreNarrow'
    <3>a. /\ pc' = [pc EXCEPT ![p] = "save"] /\ token' = [token EXCEPT ![p] = t]
          /\ UNCHANGED <<loaded, key>>
      BY <1>2 DEF Renew
    <3>1. ASSUME NEW q \in Procs, q # p
          PROVE  /\ pc'[q] = pc[q] /\ tokens'[q] = tokens[q] /\ loaded'[q] = loaded[q]
                 /\ dirty'[q] = dirty[q] /\ deleted'[q] = deleted[q]
                 /\ key'[q] = key[q] /\ token'[q] = token[q]
      BY ONLY <3>a, <2>2, <3>1, TypeOK DEF TypeOK, Map
    <3>2. /\ pc'[p] = "save" /\ tokens'[p] = [loaded[p] EXCEPT ![key[p]] = t]
          /\ loaded'[p] = loaded[p] /\ key'[p] = key[p] /\ token'[p] = t
          /\ dirty'[p] = {key[p]} /\ deleted'[p] = {}
      BY <1>2, <2>2 DEF Renew
    <3>3. ASSUME NEW q \in Procs, q # p
          PROVE  /\ pc'[q] = "loaded" => tokens'[q] = loaded'[q] /\ dirty'[q] = {} /\ deleted'[q] = {}
                 /\ pc'[q] = "save" =>
                       /\ tokens'[q] = [loaded'[q] EXCEPT ![key'[q]] = token'[q]]
                       /\ dirty'[q] = {key'[q]} /\ deleted'[q] = {}
      BY ONLY <3>1, <3>3, StoresAreNarrow DEF StoresAreNarrow
    <3>4. /\ pc'[p] = "loaded" => tokens'[p] = loaded'[p] /\ dirty'[p] = {} /\ deleted'[p] = {}
          /\ pc'[p] = "save" =>
                /\ tokens'[p] = [loaded'[p] EXCEPT ![key'[p]] = token'[p]]
                /\ dirty'[p] = {key'[p]} /\ deleted'[p] = {}
      BY ONLY <3>2
    <3> QED
      BY ONLY <3>3, <3>4 DEF StoresAreNarrow
  <2>6. RenewedIsFresh'
    BY <1>2 DEF Renew, RenewedIsFresh
  <2> QED
    BY <2>3, <2>4, <2>5, <2>6 DEF IInv
<1>3. ASSUME NEW p \in Procs, UseCached(p) PROVE IInv'
  BY <1>3 DEF UseCached, store, provider, Keyed, DiskSeen, StoresAreNarrow, RenewedIsFresh,
     ClearedWasRejected
<1>4. ASSUME NEW p \in Procs, Save(p) PROVE IInv'
  <2>1. /\ disk' = [disk EXCEPT ![key[p]] = token[p]] /\ seen' = seen \cup {token[p]}
        /\ key[p] \in Keys /\ token[p] \in Tokens
    BY <1>4, SaveEffect
  <2>2. /\ pc[p] = "save" /\ pc' = [pc EXCEPT ![p] = "call"]
        /\ UNCHANGED <<tokens, loaded, dirty, deleted, key, token, issued, expired, revoked>>
    BY <1>4 DEF Save, store, provider
  <2>3. TypeOK'
    BY <2>1, <2>2 DEF RenewedIsFresh
  <2>4. Keyed' /\ DiskSeen' /\ ClearedWasRejected'
    BY <2>1, <2>2 DEF Keyed, DiskSeen, ClearedWasRejected
  <2>5. StoresAreNarrow'
    BY <2>2 DEF StoresAreNarrow
  <2>6. RenewedIsFresh'
    BY <2>1, <2>2 DEF RenewedIsFresh
  <2> QED
    BY <2>3, <2>4, <2>5, <2>6 DEF IInv
<1>5. ASSUME NEW p \in Procs, CallOk(p) \/ Call401(p) \/ Quit(p) PROVE IInv'
  <2>1. PICK v \in {"idle", "clear"} :
            /\ pc' = [pc EXCEPT ![p] = v] /\ pc[p] # "idle"
            /\ v = "clear" => token[p] \in expired \cup revoked
    BY <1>5 DEF CallOk, Call401, Quit
  <2>2. UNCHANGED <<disk, store, key, token, provider, seen>>
    BY <1>5 DEF CallOk, Call401, Quit
  <2>3. TypeOK'
    BY <2>1, <2>2 DEF store, provider
  <2>4. Keyed' /\ DiskSeen'
    BY <2>1, <2>2 DEF store, provider, Keyed, DiskSeen
  <2>5. StoresAreNarrow'
    BY <2>1, <2>2 DEF store, provider, StoresAreNarrow
  <2>6. RenewedIsFresh'
    BY <2>1, <2>2 DEF store, provider, RenewedIsFresh
  <2>7. ClearedWasRejected'
    BY <2>1, <2>2 DEF store, provider, ClearedWasRejected
  <2> QED
    BY ONLY <2>3, <2>4, <2>5, <2>6, <2>7 DEF IInv
<1>6. ASSUME NEW p \in Procs, ClearByValue(p) \/ ClearByKey(p) PROVE IInv'
  <2>1. /\ pc[p] = "clear" /\ pc' = [pc EXCEPT ![p] = "idle"]
        /\ UNCHANGED <<store, key, token, provider, seen>>
    BY <1>6 DEF ClearByValue, ClearByKey
  <2>2. disk' \in Map /\ \A k \in Keys : disk'[k] \in {disk[k], NoToken}
    BY <1>6 DEF ClearByValue, ClearByKey
  <2>3. TypeOK'
    BY <2>1, <2>2 DEF store, provider
  <2>4. Keyed' /\ DiskSeen'
    BY <2>1, <2>2 DEF store, provider, Keyed, DiskSeen
  <2>5. StoresAreNarrow'
    BY <2>1 DEF store, provider, StoresAreNarrow
  <2>6. RenewedIsFresh'
    BY <2>1 DEF store, provider, RenewedIsFresh
  <2>7. ClearedWasRejected'
    BY <2>1 DEF store, provider, ClearedWasRejected
  <2> QED
    BY ONLY <2>3, <2>4, <2>5, <2>6, <2>7 DEF IInv
<1>7. ASSUME NEW t \in Tokens, Expire(t) \/ Revoke(t) PROVE IInv'
  BY <1>7 DEF Expire, Revoke, store, Keyed, DiskSeen, StoresAreNarrow, RenewedIsFresh,
     ClearedWasRejected
<1> QED
  BY <1>1, <1>2, <1>3, <1>4, <1>5, <1>6, <1>7 DEF Step

THEOREM Inductive == Spec => []IInv
<1>1. IInv /\ [Next]_vars => IInv'
  <2>1. ASSUME IInv, UNCHANGED vars PROVE IInv'
    BY <2>1 DEF vars, store, provider, IInv, TypeOK, Keyed, DiskSeen, StoresAreNarrow,
       RenewedIsFresh, ClearedWasRejected
  <2> QED
    BY <2>1, InvStep, NextIsStep
<1> QED
  BY <1>1, InvInit, PTL DEF Spec

-----------------------------------------------------------------------------
(* The theorems *)

\* Every variable keeps its type; in particular only issued tokens are stored.
THEOREM TypeCorrect == Spec => []TypeOK
BY Inductive, PTL DEF IInv

\* tokens.json implements one register per key: each save writes exactly the key
\* its process renewed, with a token that was never stored before, and clearing
\* empties; so concurrent logins never lose each other's keys and a stale writer
\* never restores a token that was cleared.
THEOREM StoreImplementsRegisters == Spec => ImplementsRegisters
<1>1. Init => Registers!Init
  BY DEF Init, Registers!Init, Empty
<1>2. ASSUME IInv, Step PROVE [Registers!Next]_<<disk, seen>>
  <2>1. ASSUME NEW p \in Procs, Save(p) PROVE Registers!Next
    BY <1>2, <2>1, SaveEffect DEF Registers!Next, Registers!Put
  <2>2. ASSUME NEW p \in Procs, ClearByValue(p) PROVE [Registers!Next]_<<disk, seen>>
    <3>1. token[p] \in Tokens
      BY <1>2, <2>2 DEF ClearByValue, IInv, TypeOK, ClearedWasRejected
    <3> QED
      BY <2>2, <3>1 DEF ClearByValue, Registers!Next, Registers!Forget
  <2>3. ASSUME NEW p \in Procs, ClearByKey(p) PROVE Registers!Next
    BY <1>2, <2>3 DEF ClearByKey, IInv, Keyed, Registers!Next, Registers!Empty
  <2> QED
    BY <1>2, <2>1, <2>2, <2>3 DEF Step, Load, Renew, UseCached, CallOk, Call401, Quit,
       Expire, Revoke
<1>3. IInv /\ [Next]_vars => [Registers!Next]_<<disk, seen>>
  BY <1>2, NextIsStep DEF vars
<1> QED
  BY <1>1, <1>3, Inductive, PTL DEF Spec, ImplementsRegisters, Registers!Spec

\* Clearing by value costs nobody a good token: what disappears from a key that
\* is not a send key had been refused by the provider.
THEOREM ClearingIsSafe == Spec => OnlyRejectedIsCleared
<1>1. ASSUME IInv, Step, NEW k \in Keys \ SendKeys, disk[k] # NoToken, disk'[k] = NoToken
      PROVE  disk[k] \in expired \cup revoked
  <2>1. \A p \in Procs : ~ Save(p)
    <3> SUFFICES ASSUME NEW p \in Procs, Save(p) PROVE FALSE
      OBVIOUS
    <3>1. disk' = [disk EXCEPT ![key[p]] = token[p]] /\ token[p] \in Tokens
      BY <1>1, SaveEffect
    <3> QED
      BY <1>1, <3>1, TokenAssumption DEF IInv, TypeOK, Map
  <2>2. \A p \in Procs : ~ ClearByKey(p)
    BY <1>1 DEF ClearByKey, IInv, TypeOK, Map
  <2>3. PICK p \in Procs : ClearByValue(p)
    BY <1>1, <2>1, <2>2 DEF Step, Load, Renew, UseCached, CallOk, Call401, Quit, Expire, Revoke
  <2>4. disk[k] = token[p]
    BY <1>1, <2>3 DEF ClearByValue
  <2> QED
    BY <1>1, <2>3, <2>4 DEF ClearByValue, IInv, ClearedWasRejected
<1>2. IInv /\ [Next]_vars =>
        [\A k \in Keys \ SendKeys :
            disk[k] # NoToken /\ disk'[k] = NoToken => disk[k] \in expired \cup revoked]_vars
  BY <1>1, NextIsStep
<1> QED
  BY <1>2, Inductive, PTL DEF Spec, OnlyRejectedIsCleared

-----------------------------------------------------------------------------
(* The watch *)

\* The cycles a phase waits longer after n panics in a row.
ExtraCycles(n) == IF n = 0 THEN 0 ELSE 2 ^ (Watch!Min({n, MaxExp}) - 1)

\* The pace of a phase that does not run is kept in its counters; one that runs has just
\* begun to count anew.
WatchInv ==
    /\ s2 \in [Watch!Phases -> [since : 0..(Every - 1), failures : Nat, backoff : Nat]]
    /\ s6 \in [Watch!Phases -> Nat]
    /\ s4 \in BOOLEAN
    /\ \A f \in Watch!Phases : s4 /\ s3 = f => s2[f].since = 0 /\ s6[f] = 0
    /\ \A f \in Watch!Phases : ~ (s4 /\ s3 = f) =>
          s6[f] - s2[f].since + s2[f].backoff = ExtraCycles(s2[f].failures)

LEMMA WatchMoves ==
    ASSUME part = "watch", [WorkspaceNext]_wsVars
    PROVE  part' = part /\ (Watch!Next \/ UNCHANGED <<s1, s2, s3, s4, s5, s6, s7>>)
BY DEF WorkspaceNext, wsVars, registers

LEMMA MinOfTwo ==
    ASSUME NEW a \in Int, NEW b \in Int
    PROVE  Watch!Min({a, b}) = IF a <= b THEN a ELSE b
<1> DEFINE m == IF a <= b THEN a ELSE b
<1>1. m \in {a, b} /\ \A y \in {a, b} : m <= y
  OBVIOUS
<1>2. \A x \in {a, b} : (\A y \in {a, b} : x <= y) => x = m
  OBVIOUS
<1> QED BY <1>1, <1>2 DEF Watch!Min

\* After a panic the backoff is what the number of panics in a row asks for.
LEMMA BackoffIsDue ==
    ASSUME NEW n \in Nat \ {0}
    PROVE  Watch!BackoffOf(n) \in Nat /\ Watch!BackoffOf(n) = ExtraCycles(n)
<1> DEFINE e == Watch!Min({n, MaxExp})
<1>1. e \in 1..MaxExp
  BY MinOfTwo, WatchAssumption DEF WatchAssumption
<1>2. 2 ^ (e - 1) \in 1..MaxBackoff /\ MaxBackoff \in Nat
  BY <1>1, WatchAssumption DEF WatchAssumption
<1> DEFINE b == 2 ^ (e - 1)
<1>3. b \in 1..MaxBackoff /\ MaxBackoff \in Nat
  BY <1>2
<1>4. Watch!BackoffOf(n) = Watch!Min({b, MaxBackoff})
  BY DEF Watch!BackoffOf
<1> HIDE DEF b
<1>5. Watch!Min({b, MaxBackoff}) = b /\ b \in Nat
  BY <1>3, MinOfTwo
<1> QED BY <1>4, <1>5 DEF b, ExtraCycles

LEMMA AnHourHasCycles == Every \in Nat \ {0} /\ ExtraCycles(0) = 0
BY WatchAssumption DEF WatchAssumption, ExtraCycles

LEMMA NextInRound ==
    ASSUME NEW n \in 0..(Every - 1)
    PROVE  (n + 1) % Every = IF n + 1 >= Every THEN 0 ELSE n + 1
BY AnHourHasCycles

LEMMA NewPhaseIsOne ==
    /\ Watch!NewPhase \in [since : 0..(Every - 1), failures : Nat, backoff : Nat]
    /\ Watch!NewPhase.since = 0 /\ Watch!NewPhase.backoff = 0 /\ Watch!NewPhase.failures = 0
BY AnHourHasCycles DEF Watch!NewPhase

LEMMA NewPhasesAreInPace ==
    ASSUME NEW ph, ph = [f \in Watch!Phases |-> Watch!NewPhase],
           NEW w, w = [f \in Watch!Phases |-> 0]
    PROVE  /\ ph \in [Watch!Phases -> [since : 0..(Every - 1), failures : Nat, backoff : Nat]]
           /\ w \in [Watch!Phases -> Nat]
           /\ \A f \in Watch!Phases : w[f] - ph[f].since + ph[f].backoff = ExtraCycles(ph[f].failures)
<1>1. \A f \in Watch!Phases : ph[f] = Watch!NewPhase /\ w[f] = 0
  OBVIOUS
<1>2. 0 - 0 + 0 = ExtraCycles(0)
  BY AnHourHasCycles
<1> QED BY <1>1, <1>2, NewPhaseIsOne

LEMMA WatchStarts == WorkspaceInit /\ part = "watch" => WatchInv
<1> SUFFICES ASSUME WorkspaceInit, part = "watch"
             PROVE  WatchInv
  OBVIOUS
<1>1. Watch!Init
  BY DEF WorkspaceInit, PartInit
<1>2. /\ s2 = [f \in Watch!Phases |-> Watch!NewPhase] /\ s6 = [f \in Watch!Phases |-> 0]
      /\ s4 = FALSE
  BY <1>1 DEF Watch!Init
<1> QED BY <1>2, NewPhasesAreInPace DEF WatchInv

LEMMA WatchGoes ==
    ASSUME WatchInv, NEW s \in DOMAIN Watch!Follows, Watch!Go(s)
    PROVE  WatchInv'
<1> USE AnHourHasCycles DEF WatchInv
<1>1. CASE s \notin Watch!Phases \/ (s = "upgrade" /\ ~ s1)
  <2>1. UNCHANGED <<s2, s6>> /\ s4' \in BOOLEAN /\ (s4' => s3' \notin Watch!Phases)
    BY <1>1 DEF Watch!Go, Watch!Phases, Watch!Follows
  <2>2. ~ s4
    BY DEF Watch!Go
  <2> QED BY <2>1, <2>2
<1>2. CASE s \in Watch!Phases /\ ~ (s = "upgrade" /\ ~ s1)
  <2> DEFINE ph == s2[s]
  <2>1. /\ ~ s4 /\ s3 = s
        /\ s2' = [s2 EXCEPT ![s] = Watch!Ticked(ph)]
        /\ s4' = Watch!Due(ph)
        /\ s3' = IF s4' THEN s ELSE Watch!Follows[s]
        /\ s6' = [s6 EXCEPT ![s] = IF s4' THEN 0 ELSE s6[s] + 1]
    BY <1>2 DEF Watch!Go
  <2>2. /\ ph \in [since : 0..(Every - 1), failures : Nat, backoff : Nat]
        /\ s6[s] \in Nat
    BY <1>2
  <2>3. /\ Watch!Ticked(ph) \in [since : 0..(Every - 1), failures : Nat, backoff : Nat]
        /\ Watch!Ticked(ph).failures = ph.failures
        /\ Watch!Due(ph) => Watch!Ticked(ph).since = 0
        /\ ~ Watch!Due(ph) =>
              Watch!Ticked(ph).since - Watch!Ticked(ph).backoff = ph.since - ph.backoff + 1
    <3>1. (ph.since + 1) % Every = IF ph.since + 1 >= Every THEN 0 ELSE ph.since + 1
      BY <2>2, NextInRound
    <3> HIDE DEF ph
    <3> QED BY <2>2, <3>1 DEF Watch!Ticked, Watch!Due
  <2> DEFINE new == Watch!Ticked(ph)
  <2>4. /\ s2' \in [Watch!Phases -> [since : 0..(Every - 1), failures : Nat, backoff : Nat]]
        /\ s2'[s] = new /\ \A f \in Watch!Phases \ {s} : s2'[f] = s2[f]
    <3> HIDE DEF new
    <3> QED BY <1>2, <2>1, <2>3 DEF new
  <2>5. /\ s4' \in BOOLEAN
        /\ \A f \in Watch!Phases : s4' /\ s3' = f => f = s
        /\ s4' => s3' = s /\ Watch!Due(ph)
        /\ ~ s4' => ~ Watch!Due(ph)
    BY <1>2, <2>1 DEF Watch!Due
  <2>6. /\ s6' \in [Watch!Phases -> Nat] /\ s6'[s] = IF s4' THEN 0 ELSE s6[s] + 1
        /\ \A f \in Watch!Phases \ {s} : s6'[f] = s6[f]
    BY <1>2, <2>1, <2>2
  <2>7. s6[s] - ph.since + ph.backoff = ExtraCycles(ph.failures)
    BY <1>2, <2>1
  <2> HIDE DEF ph
  <2>8. ~ s4' => s6'[s] - s2'[s].since + s2'[s].backoff = ExtraCycles(s2'[s].failures)
    <3> HIDE DEF new
    <3>1. /\ new \in [since : 0..(Every - 1), failures : Nat, backoff : Nat]
          /\ ~ s4' => new.since - new.backoff = ph.since - ph.backoff + 1 /\ new.failures = ph.failures
      BY <2>3, <2>5 DEF new
    <3> QED BY <2>2, <2>4, <2>6, <2>7, <3>1
  <2>9. \A f \in Watch!Phases \ {s} :
          s6'[f] - s2'[f].since + s2'[f].backoff = ExtraCycles(s2'[f].failures)
    BY <2>1, <2>4, <2>6
  <2>10. s4' => s2'[s].since = 0 /\ s6'[s] = 0
    BY <2>3, <2>4, <2>5, <2>6
  <2> QED BY <2>1, <2>4, <2>5, <2>6, <2>8, <2>9, <2>10
<1> QED BY <1>1, <1>2

LEMMA WatchFinishes ==
    ASSUME WatchInv, NEW panicked \in BOOLEAN, Watch!Finish(panicked)
    PROVE  WatchInv'
<1> USE AnHourHasCycles DEF WatchInv
<1>1. CASE s3 \notin Watch!Phases
  BY <1>1 DEF Watch!Finish
<1>2. CASE s3 \in Watch!Phases
  <2> DEFINE n == IF panicked THEN s2[s3].failures + 1 ELSE 0
             b == IF panicked THEN Watch!BackoffOf(n) ELSE 0
  <2>1. /\ s4 /\ ~ s4' /\ UNCHANGED s6
        /\ s2' = [s2 EXCEPT ![s3].failures = n, ![s3].backoff = b]
    BY <1>2 DEF Watch!Finish
  <2>2. n \in Nat /\ (panicked => n # 0) /\ (~ panicked => n = 0)
    BY <1>2
  <2> HIDE DEF n
  <2>3. b \in Nat /\ b = ExtraCycles(n)
    BY <2>2, BackoffIsDue
  <2> HIDE DEF b
  <2>4. s2' \in [Watch!Phases -> [since : 0..(Every - 1), failures : Nat, backoff : Nat]]
    BY <1>2, <2>1, <2>2, <2>3
  <2>5. s6[s3] = 0 /\ s2'[s3].since = 0 /\ s2'[s3].failures = n /\ s2'[s3].backoff = b
    BY <1>2, <2>1
  <2>6. \A f \in Watch!Phases \ {s3} : s2'[f] = s2[f]
    BY <1>2, <2>1
  <2>7. ASSUME NEW f \in Watch!Phases
        PROVE  s6'[f] - s2'[f].since + s2'[f].backoff = ExtraCycles(s2'[f].failures)
    <3>1. CASE f = s3
      BY <2>1, <2>2, <2>3, <2>5, <3>1
    <3>2. CASE f # s3
      BY <2>1, <2>6, <3>2
    <3> QED BY <3>1, <3>2
  <2>8. s4' = FALSE /\ s6' \in [Watch!Phases -> Nat]
    BY <1>2, <2>1 DEF Watch!Finish
  <2> QED BY <2>4, <2>7, <2>8
<1> QED BY <1>1, <1>2

LEMMA WatchKeepsPace ==
    ASSUME WatchInv, Watch!Next \/ UNCHANGED <<s1, s2, s3, s4, s5, s6, s7>>
    PROVE  WatchInv'
<1>1. ASSUME NEW s \in DOMAIN Watch!Follows, Watch!Go(s) PROVE WatchInv'
  BY <1>1, WatchGoes
<1>2. ASSUME NEW panicked \in BOOLEAN, Watch!Finish(panicked) PROVE WatchInv'
  BY <1>2, WatchFinishes
<1>3. CASE Watch!Replace
  <2>1. /\ s2' = [f \in Watch!Phases |-> Watch!NewPhase] /\ s6' = [f \in Watch!Phases |-> 0]
        /\ s4' = FALSE
    BY <1>3 DEF Watch!Replace
  <2> QED BY <2>1, NewPhasesAreInPace DEF WatchInv
<1>4. CASE Watch!Wake \/ Watch!Stop
  BY <1>4 DEF WatchInv, Watch!Wake, Watch!Stop, Watch!Phases
<1>5. CASE Watch!Interrupt \/ UNCHANGED <<s1, s2, s3, s4, s5, s6, s7>>
  BY <1>5 DEF WatchInv, Watch!Interrupt, Watch!Phases
<1> QED BY <1>1, <1>2, <1>3, <1>4, <1>5 DEF Watch!Next

\* The periodic phases of the watch run exactly as often as the panics they have had
\* allow, for every interval and every cap of the backoff (PeriodicPhase of watch.rs).
THEOREM PhasesArePaced == WorkspaceSpec => []Paced
<1> DEFINE I == part = "watch" => WatchInv
<1>1. WorkspaceInit => I
  BY WatchStarts
<1>2. I /\ [WorkspaceNext]_wsVars => I'
  <2>1. [WorkspaceNext]_wsVars => part' = part
    BY DEF WorkspaceNext, wsVars
  <2> QED BY <2>1, WatchMoves, WatchKeepsPace
<1>3. I => Paced
  BY DEF Paced, WatchInv, Watch!Paced, ExtraCycles
<1> QED BY <1>1, <1>2, <1>3, PTL DEF WorkspaceSpec

-----------------------------------------------------------------------------
(* The upgrade *)

Versions == [version : Nat, whole : BOOLEAN]
Sessions ==
    [pc : {"idle", "watch", "fetch", "download", "unpack", "unpacking", "install",
           "copying", "exec"},
     daemon : BOOLEAN, current : Nat, wants : Nat]

UpgradeTyped ==
    /\ s1 \in Nat /\ s2 \in [version : Nat, fresh : BOOLEAN]
    /\ s3 \in Versions /\ s4 \in Versions /\ s5 \in Versions
    /\ s7 \in [Procs -> Sessions] /\ s8 \in BOOLEAN /\ s9 \in BOOLEAN

\* The processes that are between the download and the end of the rename or the copy.
AtTemporaryFile(p) == s7[p].pc \in {"unpack", "unpacking", "install", "copying"}

\* Until two runs meet, one at most is at the temporary file, which is that run's own: tar
\* has it while it unpacks, and it is whole when it has ended.  Without a copy over it, the
\* program stays whole.
OneAtATime ==
    /\ \A p, q \in Procs : AtTemporaryFile(p) /\ AtTemporaryFile(q) => p = q
    /\ \A p \in Procs : s7[p].pc = "unpacking" => s6 = {p} /\ ~ s5.whole
    /\ \A p \in Procs : s7[p].pc \in {"install", "copying"} => s5.whole
    /\ ~ s9 => s3.whole

UpgradeInv == UpgradeTyped /\ (~ s8 => OneAtATime)

LEMMA UpgradeMoves ==
    ASSUME part = "upgrade", [WorkspaceNext]_wsVars
    PROVE  part' = part /\ (Upgrades!Next \/ UNCHANGED <<s1, s2, s3, s4, s5, s6, s7, s8, s9, s10>>)
BY DEF WorkspaceNext, wsVars, registers

LEMMA UpgradeStarts == WorkspaceInit /\ part = "upgrade" => UpgradeInv
<1> SUFFICES ASSUME WorkspaceInit, part = "upgrade"
             PROVE  UpgradeInv
  OBVIOUS
<1>1. Upgrades!Init
  BY DEF WorkspaceInit, PartInit
<1>2. UpgradeTyped
  BY <1>1 DEF UpgradeTyped, Upgrades!Init, Upgrades!File, Upgrades!None, Upgrades!Idle, Versions, Sessions
<1>3. OneAtATime
  BY <1>1 DEF OneAtATime, AtTemporaryFile, Upgrades!Init, Upgrades!File, Upgrades!Idle
<1> QED BY <1>2, <1>3 DEF UpgradeInv

LEMMA UpgradeTypedStep ==
    ASSUME UpgradeTyped, Upgrades!Next
    PROVE  UpgradeTyped'
<1> USE DEF UpgradeTyped, Versions, Sessions, Upgrades!File, Upgrades!None, Upgrades!Idle
<1>1. ASSUME NEW p \in Procs, NEW daemon \in BOOLEAN, Upgrades!Begin(p, daemon) PROVE UpgradeTyped'
  BY <1>1 DEF Upgrades!Begin
<1>2. ASSUME NEW p \in Procs PROVE Upgrades!Returns(p) => s7' \in [Procs -> Sessions]
  BY DEF Upgrades!Returns
<1>3. ASSUME NEW p \in Procs, Upgrades!CheckForUpdate(p) PROVE UpgradeTyped'
  BY <1>3 DEF Upgrades!CheckForUpdate
<1>4. ASSUME NEW p \in Procs, Upgrades!Fetch(p) PROVE UpgradeTyped'
  <2>1. s7' \in [Procs -> Sessions]
    BY <1>2, <1>4 DEF Upgrades!Fetch
  <2> QED BY <1>4, <2>1 DEF Upgrades!Fetch
<1>5. ASSUME NEW p \in Procs, Upgrades!Download(p) PROVE UpgradeTyped'
  BY <1>5 DEF Upgrades!Download, Upgrades!Moves, Upgrades!Others
<1>6. ASSUME NEW p \in Procs, Upgrades!Unpack(p) PROVE UpgradeTyped'
  BY <1>6 DEF Upgrades!Unpack, Upgrades!Moves
<1>7. ASSUME NEW p \in Procs, Upgrades!Unpacked(p) PROVE UpgradeTyped'
  BY <1>7 DEF Upgrades!Unpacked, Upgrades!Moves
<1>8. ASSUME NEW p \in Procs, Upgrades!Install(p) PROVE UpgradeTyped'
  <2>1. s7' \in [Procs -> Sessions]
    BY <1>2, <1>8 DEF Upgrades!Install
  <2> QED BY <1>8, <2>1 DEF Upgrades!Install
<1>14. ASSUME NEW p \in Procs, Upgrades!CopyOver(p) PROVE UpgradeTyped'
  BY <1>14 DEF Upgrades!CopyOver, Upgrades!Moves
<1>15. ASSUME NEW p \in Procs, Upgrades!Copied(p) PROVE UpgradeTyped'
  <2>1. s7' \in [Procs -> Sessions]
    BY <1>2, <1>15 DEF Upgrades!Copied
  <2> QED BY <1>15, <2>1 DEF Upgrades!Copied
<1>9. ASSUME NEW p \in Procs, Upgrades!FallBack(p) PROVE UpgradeTyped'
  <2>1. s7' \in [Procs -> Sessions]
    BY <1>2, <1>9 DEF Upgrades!FallBack
  <2>2. s3' \in Versions /\ s4' \in Versions /\ s5' \in Versions
    <3>1. Upgrades!None \in Versions /\ Upgrades!File(s1, TRUE) \in Versions
      OBVIOUS
    <3> QED BY <1>9, <3>1 DEF Upgrades!FallBack
  <2> QED BY <1>9, <2>1, <2>2 DEF Upgrades!FallBack
<1>10. ASSUME NEW p \in Procs, Upgrades!Exec(p) PROVE UpgradeTyped'
  <2>1. PICK v \in {s7[p].current} \cup {s3.version} :
           s7' = [s7 EXCEPT ![p].pc = "watch", ![p].current = v]
    BY <1>10 DEF Upgrades!Exec
  <2>2. v \in Nat
    BY <1>10
  <2>3. s7' \in [Procs -> Sessions]
    BY <2>1, <2>2
  <2> QED BY <1>10, <2>3 DEF Upgrades!Exec
<1>11. ASSUME NEW p \in Procs, Upgrades!Kill(p) PROVE UpgradeTyped'
  BY <1>11 DEF Upgrades!Kill
<1>12. CASE Upgrades!Release
  BY <1>12 DEF Upgrades!Release
<1>13. CASE Upgrades!Age
  BY <1>13 DEF Upgrades!Age
<1> QED BY <1>1, <1>3, <1>4, <1>5, <1>6, <1>7, <1>8, <1>9, <1>10, <1>11, <1>12, <1>13, <1>14, <1>15 DEF Upgrades!Next

LEMMA UpgradeStaysApart ==
    ASSUME UpgradeInv, Upgrades!Next, ~ s8'
    PROVE  OneAtATime'
<1> USE DEF Upgrades!File, Upgrades!None, Upgrades!Idle
<1>0. UpgradeTyped /\ (~ s8 => OneAtATime)
  BY DEF UpgradeInv
<1> DEFINE StaysOut(p) ==
      /\ \A q \in Procs \ {p} : s7'[q] = s7[q]
      /\ s7'[p].pc \notin {"unpack", "unpacking", "install", "copying"}
<1>1. ASSUME NEW p \in Procs, StaysOut(p), ~ s8, s6' = s6 \/ s6' = s6 \ {p}, ~ s9' => s3'.whole,
             UNCHANGED s5 \/ AtTemporaryFile(p)
      PROVE  OneAtATime'
  BY <1>0, <1>1 DEF OneAtATime, AtTemporaryFile
<1>2. ASSUME NEW p \in Procs, Upgrades!Returns(p) PROVE StaysOut(p)
  BY <1>0, <1>2 DEF Upgrades!Returns, UpgradeTyped, Sessions
<1>3. ASSUME NEW p \in Procs, NEW daemon \in BOOLEAN, Upgrades!Begin(p, daemon) PROVE OneAtATime'
  <2>1. StaysOut(p)
    BY <1>0, <1>3 DEF Upgrades!Begin, UpgradeTyped
  <2> QED BY <1>0, <1>1, <1>3, <2>1 DEF Upgrades!Begin, OneAtATime
<1>4. ASSUME NEW p \in Procs, Upgrades!CheckForUpdate(p) PROVE OneAtATime'
  <2>1. StaysOut(p)
    BY <1>0, <1>4 DEF Upgrades!CheckForUpdate, UpgradeTyped, Sessions
  <2> QED BY <1>0, <1>1, <1>4, <2>1 DEF Upgrades!CheckForUpdate, OneAtATime
<1>5. ASSUME NEW p \in Procs, Upgrades!Fetch(p) PROVE OneAtATime'
  <2>1. StaysOut(p)
    BY <1>0, <1>2, <1>5 DEF Upgrades!Fetch, UpgradeTyped, Sessions
  <2> QED BY <1>0, <1>1, <1>5, <2>1 DEF Upgrades!Fetch, OneAtATime
<1>6. ASSUME NEW p \in Procs, Upgrades!Download(p) PROVE OneAtATime'
  <2>1. ~ s8 /\ \A q \in Procs \ {p} : ~ AtTemporaryFile(q)
    BY <1>6 DEF Upgrades!Download, Upgrades!Others, AtTemporaryFile
  <2>2. s7'[p].pc = "unpack" /\ \A q \in Procs \ {p} : s7'[q] = s7[q]
    BY <1>0, <1>6 DEF Upgrades!Download, Upgrades!Moves, UpgradeTyped, Sessions
  <2> QED BY <1>0, <1>6, <2>1, <2>2 DEF Upgrades!Download, OneAtATime, AtTemporaryFile
<1>7. ASSUME NEW p \in Procs, Upgrades!Unpack(p) PROVE OneAtATime'
  <2>1. /\ s7[p].pc = "unpack" /\ s7'[p].pc = "unpacking"
        /\ \A q \in Procs \ {p} : s7'[q] = s7[q]
    BY <1>0, <1>7 DEF Upgrades!Unpack, Upgrades!Moves, UpgradeTyped, Sessions
  <2> QED BY <1>0, <1>7, <2>1 DEF Upgrades!Unpack, OneAtATime, AtTemporaryFile
<1>8. ASSUME NEW p \in Procs, Upgrades!Unpacked(p) PROVE OneAtATime'
  <2>1. /\ s7[p].pc = "unpacking" /\ s7'[p].pc = "install"
        /\ \A q \in Procs \ {p} : s7'[q] = s7[q]
    BY <1>0, <1>8 DEF Upgrades!Unpacked, Upgrades!Moves, UpgradeTyped, Sessions
  <2>2. s6 = {p} /\ s5 # Upgrades!None
    BY <1>0, <1>8, <2>1 DEF Upgrades!Unpacked, OneAtATime
  <2>3. s5'.whole /\ s3' = s3 /\ s9' = s9
    BY <1>8, <2>2 DEF Upgrades!Unpacked
  <2> QED BY <1>0, <1>8, <2>1, <2>3 DEF Upgrades!Unpacked, OneAtATime, AtTemporaryFile
<1>9. ASSUME NEW p \in Procs, Upgrades!Install(p) PROVE OneAtATime'
  <2>1. StaysOut(p)
    BY <1>0, <1>2, <1>9 DEF Upgrades!Install, UpgradeTyped, Sessions
  <2>2. AtTemporaryFile(p) /\ ~ s8 /\ s3'.whole
    BY <1>0, <1>9 DEF Upgrades!Install, Upgrades!Ready, AtTemporaryFile, OneAtATime
  <2> QED BY <1>1, <1>9, <2>1, <2>2 DEF Upgrades!Install
<1>14. ASSUME NEW p \in Procs, Upgrades!CopyOver(p) PROVE OneAtATime'
  <2>1. /\ s7[p].pc = "install" /\ s7'[p].pc = "copying"
        /\ \A q \in Procs \ {p} : s7'[q] = s7[q]
    BY <1>0, <1>14 DEF Upgrades!CopyOver, Upgrades!Moves, UpgradeTyped, Sessions
  <2>2. s9' = TRUE /\ UNCHANGED <<s5, s6, s8>>
    BY <1>14 DEF Upgrades!CopyOver
  <2> QED BY <1>0, <2>1, <2>2 DEF OneAtATime, AtTemporaryFile
<1>15. ASSUME NEW p \in Procs, Upgrades!Copied(p) PROVE OneAtATime'
  <2>1. StaysOut(p)
    BY <1>0, <1>2, <1>15 DEF Upgrades!Copied, UpgradeTyped, Sessions
  <2>2. AtTemporaryFile(p) /\ ~ s8 /\ s3'.whole
    BY <1>0, <1>15 DEF Upgrades!Copied, AtTemporaryFile, OneAtATime
  <2> QED BY <1>1, <1>15, <2>1, <2>2 DEF Upgrades!Copied
<1>10. ASSUME NEW p \in Procs, Upgrades!FallBack(p) PROVE OneAtATime'
  <2>1. StaysOut(p)
    BY <1>0, <1>2, <1>10 DEF Upgrades!FallBack, UpgradeTyped, Sessions
  <2>2. ~ s8 /\ (~ s9' => s3'.whole) /\ s6' = s6 \ {p}
    BY <1>0, <1>10 DEF Upgrades!FallBack, OneAtATime
  <2>3. UNCHANGED s5 \/ AtTemporaryFile(p)
    BY <1>10 DEF Upgrades!FallBack, AtTemporaryFile
  <2> QED BY <1>1, <2>1, <2>2, <2>3
<1>11. ASSUME NEW p \in Procs, Upgrades!Exec(p) PROVE OneAtATime'
  <2>1. StaysOut(p)
    BY <1>0, <1>11 DEF Upgrades!Exec, UpgradeTyped, Sessions
  <2> QED BY <1>0, <1>1, <1>11, <2>1 DEF Upgrades!Exec, OneAtATime
<1>12. ASSUME NEW p \in Procs, Upgrades!Kill(p) PROVE OneAtATime'
  <2>1. StaysOut(p)
    BY <1>0, <1>12 DEF Upgrades!Kill, UpgradeTyped
  <2> QED BY <1>0, <1>1, <1>12, <2>1 DEF Upgrades!Kill, OneAtATime
<1>13. CASE Upgrades!Release \/ Upgrades!Age
  BY <1>0, <1>13 DEF Upgrades!Release, Upgrades!Age, OneAtATime, AtTemporaryFile
<1> QED BY <1>3, <1>4, <1>5, <1>6, <1>7, <1>8, <1>9, <1>10, <1>11, <1>12, <1>13, <1>14, <1>15 DEF Upgrades!Next

LEMMA UpgradeInductive == WorkspaceSpec => [](part = "upgrade" => UpgradeInv)
<1> DEFINE I == part = "upgrade" => UpgradeInv
<1>1. WorkspaceInit => I
  BY UpgradeStarts
<1>2. I /\ [WorkspaceNext]_wsVars => I'
  <2>1. [WorkspaceNext]_wsVars => part' = part
    BY DEF WorkspaceNext, wsVars
  <2>2. ASSUME UpgradeInv, Upgrades!Next PROVE UpgradeInv'
    BY <2>2, UpgradeTypedStep, UpgradeStaysApart DEF UpgradeInv
  <2>3. ASSUME UpgradeInv, UNCHANGED <<s1, s2, s3, s4, s5, s6, s7, s8, s9, s10>> PROVE UpgradeInv'
    BY <2>3 DEF UpgradeInv, UpgradeTyped, OneAtATime, AtTemporaryFile
  <2> QED BY <2>1, <2>2, <2>3, UpgradeMoves
<1> QED BY <1>1, <1>2, PTL DEF WorkspaceSpec


-----------------------------------------------------------------------------
(* The cache of models *)

Chunks == 1..ModelSize
ModelFiles == 1..(MaxDownloads + 1)

DownloadsTyped ==
    /\ s1 \in BOOLEAN /\ s2 \in ModelFiles \cup {0} /\ s3 \in ModelFiles \cup {0}
    /\ s4 \in [ModelFiles -> SUBSET Chunks]
    /\ s5 \in [Procs -> ModelFiles \cup {0}] /\ s6 \in [Procs -> 0..ModelSize]
    /\ s7 \in [Procs -> {"idle", "asked", "downloading"}]
    /\ s8 \in BOOLEAN /\ s9 \in BOOLEAN
    /\ \A p \in Procs : s7[p] = "downloading" => s5[p] # 0

\* Downloads that take turns: the one that runs has the temporary file, and has filled it as
\* far as it is; the cached file is another one, and whole.
InTurn ==
    /\ \A p, q \in Procs : s7[p] = "downloading" /\ s7[q] = "downloading" => p = q
    /\ \A p \in Procs : s7[p] = "downloading" => s3 = s5[p] /\ s4[s5[p]] = 1..s6[p]
    /\ s2 # 0 => s2 # s3 /\ s4[s2] = Chunks

\* Somebody is going to write the chunk c of file f.
Coming(f, c) == \E p \in Procs : s7[p] = "downloading" /\ s5[p] = f /\ s6[p] < c

\* Downloads that all come to their ends: what a file lacks is coming.
FillsUp == \A f \in {s2, s3} \ {0} : \A c \in Chunks : c \in s4[f] \/ Coming(f, c)

DownloadInv ==
    /\ DownloadsTyped
    /\ s1 /\ ~ s8 => InTurn
    /\ s1 /\ ~ s9 => FillsUp

LEMMA DownloadMoves ==
    ASSUME part = "models", [WorkspaceNext]_wsVars
    PROVE  part' = part /\ (Model!Next \/ UNCHANGED <<s1, s2, s3, s4, s5, s6, s7, s8, s9, s10>>)
BY DEF WorkspaceNext, wsVars, registers

LEMMA DownloadStarts == WorkspaceInit /\ part = "models" => DownloadInv
<1> SUFFICES ASSUME WorkspaceInit, part = "models"
             PROVE  DownloadInv
  OBVIOUS
<1>1. Model!Init
  BY DEF WorkspaceInit, PartInit
<1>2. DownloadsTyped
  <2>1. /\ s4 = [f \in ModelFiles |-> {}] /\ s5 = [p \in Procs |-> 0] /\ s6 = [p \in Procs |-> 0]
        /\ s7 = [p \in Procs |-> "idle"]
        /\ s1 \in BOOLEAN /\ s2 = 0 /\ s3 = 0 /\ s8 = FALSE /\ s9 = FALSE
    BY <1>1 DEF Model!Init, Model!Files, ModelFiles
  <2>2. s6 \in [Procs -> 0..ModelSize]
    BY <2>1, ModelAssumption DEF ModelAssumption
  <2>3. s4 \in [ModelFiles -> SUBSET Chunks]
    BY <2>1
  <2> QED BY <2>1, <2>2, <2>3 DEF DownloadsTyped
<1>3. InTurn
  BY <1>1 DEF Model!Init, InTurn
<1>4. FillsUp
  BY <1>1 DEF Model!Init, FillsUp
<1> QED BY <1>2, <1>3, <1>4 DEF DownloadInv

LEMMA DownloadTypedStep ==
    ASSUME DownloadsTyped, NEW p \in Procs,
           \/ Model!Resolve(p) \/ Model!Create(p) \/ Model!Write(p) \/ Model!End(p) \/ Model!Cut(p)
           \/ Model!Fail(p)
    PROVE  DownloadsTyped'
<1> USE ModelAssumption DEF ModelAssumption, DownloadsTyped, ModelFiles
<1>1. CASE Model!Resolve(p)
  BY <1>1 DEF Model!Resolve
<1>2. CASE Model!Create(p)
  <2>1. PICK f \in ModelFiles :
          /\ s3' = f /\ s4' = [s4 EXCEPT ![f] = {}] /\ s5' = [s5 EXCEPT ![p] = f]
    BY <1>2 DEF Model!Create, Model!Unused, Model!Files
  <2> QED BY <1>2, <2>1 DEF Model!Create
<1>3. CASE Model!Write(p)
  <2>1. s6[p] + 1 \in Chunks
    BY <1>3 DEF Model!Write, Chunks
  <2>2. s4' \in [ModelFiles -> SUBSET Chunks]
    BY <1>3, <2>1 DEF Model!Write
  <2>3. s6' \in [Procs -> 0..ModelSize]
    BY <1>3 DEF Model!Write
  <2> QED BY <1>3, <2>2, <2>3 DEF Model!Write
<1>4. CASE Model!End(p)
  BY <1>4 DEF Model!End, Model!Rename, Model!Leave
<1>5. CASE Model!Cut(p)
  BY <1>5 DEF Model!Cut, Model!Rename, Model!Leave
<1>6. CASE Model!Fail(p)
  BY <1>6 DEF Model!Fail, Model!Leave
<1> QED BY <1>1, <1>2, <1>3, <1>4, <1>5, <1>6

LEMMA TurnsAreKept ==
    ASSUME DownloadsTyped, DownloadsTyped', NEW p \in Procs, s1, ~ s8', s8 \/ InTurn,
           \/ Model!Resolve(p) \/ Model!Create(p) \/ Model!Write(p) \/ Model!End(p) \/ Model!Cut(p)
           \/ Model!Fail(p)
    PROVE  InTurn'
<1> USE ModelAssumption DEF ModelAssumption
<1>1. CASE Model!Resolve(p)
  BY <1>1 DEF Model!Resolve, InTurn, DownloadsTyped
<1>2. CASE Model!Create(p)
  <2>1. PICK f \in ModelFiles :
          /\ s3' = f /\ s4' = [s4 EXCEPT ![f] = {}] /\ s5' = [s5 EXCEPT ![p] = f]
          /\ f # s2 \/ f = s3
    BY <1>2 DEF Model!Create, Model!Unused, Model!Files, ModelFiles, DownloadsTyped
  <2>2. /\ ~ s8 /\ \A q \in Procs \ {p} : s7[q] # "downloading"
        /\ s7' = [s7 EXCEPT ![p] = "downloading"] /\ s6' = [s6 EXCEPT ![p] = 0] /\ s2' = s2
    BY <1>2 DEF Model!Create
  <2>3. s4'[f] = {} /\ s6'[p] = 0 /\ s5'[p] = f
    BY <2>1, <2>2 DEF DownloadsTyped
  <2>4. s2 # 0 => s2 # f /\ s4'[s2] = Chunks
    BY <2>1, <2>2 DEF InTurn, DownloadsTyped, ModelFiles
  <2> QED BY <2>1, <2>2, <2>3, <2>4 DEF InTurn, DownloadsTyped
<1>3. CASE Model!Write(p)
  <2>1. /\ ~ s8 /\ s7[p] = "downloading" /\ UNCHANGED <<s2, s3, s5, s7>>
        /\ s6' = [s6 EXCEPT ![p] = s6[p] + 1]
        /\ s4' = [s4 EXCEPT ![s5[p]] = s4[s5[p]] \cup {s6[p] + 1}]
    BY <1>3 DEF Model!Write
  <2>2. s3 = s5[p] /\ s5[p] \in ModelFiles /\ s4[s5[p]] = 1..s6[p] /\ s6[p] \in 0..ModelSize
    BY <2>1 DEF InTurn, DownloadsTyped
  <2>3. s4'[s5[p]] = 1..s6'[p]
    BY <2>1, <2>2 DEF DownloadsTyped
  <2>4. s2 # 0 => s2 # s3 /\ s4'[s2] = Chunks
    BY <2>1, <2>2 DEF InTurn, DownloadsTyped
  <2> QED BY <2>1, <2>3, <2>4 DEF InTurn
<1>4. CASE Model!End(p)
  <2>1. /\ ~ s8 /\ s7[p] = "downloading" /\ s6[p] = ModelSize /\ UNCHANGED <<s4, s6>>
        /\ s7' = [s7 EXCEPT ![p] = "idle"]
        /\ s2' = (IF s3 = 0 THEN s2 ELSE s3) /\ s3' = 0
    BY <1>4 DEF Model!End, Model!Rename, Model!Leave
  <2>2. \A q \in Procs : s7'[q] # "downloading"
    BY <2>1 DEF InTurn, DownloadsTyped
  <2>3. s2' = s5[p] /\ s4[s5[p]] = Chunks /\ s5[p] # 0
    BY <2>1 DEF InTurn, DownloadsTyped, Chunks
  <2> QED BY <2>1, <2>2, <2>3 DEF InTurn
<1>5. CASE Model!Cut(p) \/ Model!Fail(p)
  <2>1. /\ ~ s8 /\ UNCHANGED <<s2, s3, s4, s6>>
        /\ s7' = [s7 EXCEPT ![p] = "idle"] /\ s5' = [s5 EXCEPT ![p] = 0]
    <3>1. CASE Model!Cut(p)
      BY <3>1 DEF Model!Cut, Model!Leave
    <3>2. CASE Model!Fail(p)
      BY <3>2 DEF Model!Fail, Model!Leave
    <3> QED BY <1>5, <3>1, <3>2
  <2>2. \A q \in Procs : s7'[q] = "downloading" => s7[q] = "downloading" /\ s5'[q] = s5[q]
    BY <2>1 DEF DownloadsTyped
  <2> QED BY <2>1, <2>2 DEF InTurn
<1> QED BY <1>1, <1>2, <1>3, <1>4, <1>5

LEMMA FilesFillUp ==
    ASSUME DownloadsTyped, DownloadsTyped', NEW p \in Procs, s1, ~ s9', s9 \/ FillsUp,
           \/ Model!Resolve(p) \/ Model!Create(p) \/ Model!Write(p) \/ Model!End(p) \/ Model!Cut(p)
           \/ Model!Fail(p)
    PROVE  FillsUp'
<1> USE ModelAssumption DEF ModelAssumption
<1>1. ASSUME NEW f \in {s2', s3'} \ {0}, f \in {s2, s3}, ~ s9, NEW c \in Chunks, c \notin s4'[f],
             s4[f] \subseteq s4'[f],
             \A q \in Procs \ {p} : s7'[q] = s7[q] /\ s5'[q] = s5[q] /\ s6'[q] = s6[q],
             s7[p] = "downloading" /\ s5[p] = f /\ s6[p] < c =>
                s7'[p] = "downloading" /\ s5'[p] = f /\ s6'[p] < c
      PROVE  Coming(f, c)'
  <2>1. Coming(f, c)
    BY <1>1 DEF FillsUp
  <2>2. PICK q \in Procs : s7[q] = "downloading" /\ s5[q] = f /\ s6[q] < c
    BY <2>1 DEF Coming
  <2>3. s7'[q] = "downloading" /\ s5'[q] = f /\ s6'[q] < c
    BY <1>1, <2>2
  <2> QED BY <2>3 DEF Coming
<1>2. CASE Model!Resolve(p)
  BY <1>1, <1>2 DEF Model!Resolve, FillsUp, DownloadsTyped
<1>3. CASE Model!Create(p)
  <2>1. PICK g \in ModelFiles :
          /\ s3' = g /\ s4' = [s4 EXCEPT ![g] = {}] /\ s5' = [s5 EXCEPT ![p] = g]
    BY <1>3 DEF Model!Create, Model!Unused, Model!Files, ModelFiles, DownloadsTyped
  <2>2. /\ ~ s9 /\ s7[p] = "asked" /\ s2' = s2
        /\ s7' = [s7 EXCEPT ![p] = "downloading"] /\ s6' = [s6 EXCEPT ![p] = 0]
    BY <1>3 DEF Model!Create
  <2>3. ASSUME NEW c \in Chunks PROVE Coming(g, c)'
    <3>1. s7'[p] = "downloading" /\ s5'[p] = g /\ s6'[p] < c
      BY <2>1, <2>2 DEF DownloadsTyped, Chunks
    <3> QED BY <3>1 DEF Coming
  <2>4. ASSUME NEW f \in {s2', s3'} \ {0}, f # g, NEW c \in Chunks, c \notin s4'[f]
        PROVE  Coming(f, c)'
    <3>1. f = s2 /\ f \in ModelFiles /\ s4'[f] = s4[f]
      BY <2>1, <2>2, <2>4 DEF DownloadsTyped
    <3>2. \A q \in Procs \ {p} : s7'[q] = s7[q] /\ s5'[q] = s5[q] /\ s6'[q] = s6[q]
      BY <2>1, <2>2 DEF DownloadsTyped
    <3> QED BY <1>1, <2>2, <2>4, <3>1, <3>2
  <2> QED BY <2>3, <2>4 DEF FillsUp
<1>4. CASE Model!Write(p)
  <2>1. /\ ~ s9 /\ s7[p] = "downloading" /\ UNCHANGED <<s2, s3, s5, s7>>
        /\ s6' = [s6 EXCEPT ![p] = s6[p] + 1]
        /\ s4' = [s4 EXCEPT ![s5[p]] = s4[s5[p]] \cup {s6[p] + 1}]
    BY <1>4 DEF Model!Write
  <2>2. ASSUME NEW f \in {s2', s3'} \ {0}, NEW c \in Chunks, c \notin s4'[f] PROVE Coming(f, c)'
    <3>1. f \in ModelFiles /\ s4[f] \subseteq s4'[f]
      BY <2>1, <2>2 DEF DownloadsTyped
    <3>2. s5[p] = f /\ s6[p] < c => s6'[p] < c
      <4> SUFFICES ASSUME s5[p] = f, s6[p] < c
                   PROVE  s6'[p] < c
        OBVIOUS
      <4>1. c # s6[p] + 1
        BY <2>1, <2>2, <3>1 DEF DownloadsTyped
      <4>2. s6[p] \in Nat /\ c \in Nat /\ s6'[p] = s6[p] + 1
        BY <2>1 DEF DownloadsTyped, Chunks
      <4> QED BY <4>1, <4>2
    <3>3. \A q \in Procs \ {p} : s7'[q] = s7[q] /\ s5'[q] = s5[q] /\ s6'[q] = s6[q]
      BY <2>1 DEF DownloadsTyped
    <3> QED BY <1>1, <2>1, <2>2, <3>1, <3>2, <3>3
  <2> QED BY <2>2 DEF FillsUp
<1>5. CASE Model!End(p)
  <2>1. /\ ~ s9 /\ s7[p] = "downloading" /\ s6[p] = ModelSize /\ UNCHANGED <<s4, s6>>
        /\ s7' = [s7 EXCEPT ![p] = "idle"] /\ s5' = [s5 EXCEPT ![p] = 0]
        /\ s2' = (IF s3 = 0 THEN s2 ELSE s3) /\ s3' = 0
    BY <1>5 DEF Model!End, Model!Rename, Model!Leave
  <2>2. ASSUME NEW f \in {s2', s3'} \ {0}, NEW c \in Chunks, c \notin s4'[f] PROVE Coming(f, c)'
    <3>1. f \in {s2, s3} /\ ~ (s6[p] < c)
      BY <2>1, <2>2 DEF Chunks
    <3>2. \A q \in Procs \ {p} : s7'[q] = s7[q] /\ s5'[q] = s5[q] /\ s6'[q] = s6[q]
      BY <2>1 DEF DownloadsTyped
    <3> QED BY <1>1, <2>1, <2>2, <3>1, <3>2
  <2> QED BY <2>2 DEF FillsUp
<1>6. CASE Model!Fail(p)
  <2>1. /\ ~ s9 /\ s7[p] # "downloading" /\ UNCHANGED <<s2, s3, s4, s6>>
        /\ s7' = [s7 EXCEPT ![p] = "idle"] /\ s5' = [s5 EXCEPT ![p] = 0]
    BY <1>6 DEF Model!Fail, Model!Leave
  <2>2. \A q \in Procs \ {p} : s7'[q] = s7[q] /\ s5'[q] = s5[q] /\ s6'[q] = s6[q]
    BY <2>1 DEF DownloadsTyped
  <2> QED BY <1>1, <2>1, <2>2 DEF FillsUp
<1>7. ~ Model!Cut(p)
  BY DEF Model!Cut
<1> QED BY <1>2, <1>3, <1>4, <1>5, <1>6, <1>7

LEMMA DownloadInductive == WorkspaceSpec => [](part = "models" => DownloadInv)
<1> DEFINE I == part = "models" => DownloadInv
<1>1. WorkspaceInit => I
  BY DownloadStarts
<1>2. I /\ [WorkspaceNext]_wsVars => I'
  <2>1. [WorkspaceNext]_wsVars => part' = part
    BY DEF WorkspaceNext, wsVars
  <2>2. ASSUME DownloadInv, NEW p \in Procs,
               \/ Model!Resolve(p) \/ Model!Create(p) \/ Model!Write(p) \/ Model!End(p) \/ Model!Cut(p)
               \/ Model!Fail(p)
        PROVE  DownloadInv'
    <3>1. DownloadsTyped'
      BY <2>2, DownloadTypedStep DEF DownloadInv
    <3>2. s1' = s1
      BY <2>2 DEF Model!Resolve, Model!Create, Model!Write, Model!End, Model!Cut, Model!Rename, Model!Fail
    <3>3. s1 /\ ~ s8' => InTurn'
      BY <2>2, <3>1, TurnsAreKept DEF DownloadInv
    <3>4. s1 /\ ~ s9' => FillsUp'
      BY <2>2, <3>1, FilesFillUp DEF DownloadInv
    <3> QED BY <3>1, <3>2, <3>3, <3>4 DEF DownloadInv
  <2>3. ASSUME DownloadInv, UNCHANGED <<s1, s2, s3, s4, s5, s6, s7, s8, s9, s10>> PROVE DownloadInv'
    BY <2>3 DEF DownloadInv, DownloadsTyped, InTurn, FillsUp, Coming
  <2> QED BY <2>1, <2>2, <2>3, DownloadMoves DEF Model!Next
<1> QED BY <1>1, <1>2, PTL DEF WorkspaceSpec

\* Whatever fails in an upgrade, the program stays runnable, unless two upgrades overlap or a
\* copy over the program breaks off; and whatever is broken off or overlaps, the cached model
\* is whole in the end, for any number of processes and any size (upgrade.rs,
\* transcribe/model.rs).
THEOREM DownloadsEndWhole == WorkspaceSpec => []DownloadsAreWhole
<1>1. (part = "upgrade" => UpgradeInv) => (part = "upgrade" => Upgrades!StaysRunnable)
  BY DEF UpgradeInv, OneAtATime, Upgrades!StaysRunnable
<1>2. (part = "models" => DownloadInv) => (part = "models" => Model!ModelIsWhole)
  <2> SUFFICES ASSUME DownloadInv, s2 # 0, s1, ~ (s8 /\ s9), \A p \in Procs : s7[p] # "downloading"
               PROVE  s4[s2] = Chunks
    BY DEF Model!ModelIsWhole, Model!Whole, Chunks
  <2>1. s4[s2] \subseteq Chunks
    BY DEF DownloadInv, DownloadsTyped
  <2> QED BY <2>1 DEF DownloadInv, InTurn, FillsUp, Coming
<1> QED BY <1>1, <1>2, UpgradeInductive, DownloadInductive, PTL DEF DownloadsAreWhole


-----------------------------------------------------------------------------
(* The files of contact pushes and topics *)

\* A whole file that is newer has the later edit, and what is about to be copied is no
\* earlier edit than what it replaces, unless that was edited since.  It takes one mailbox: the
\* time of a copy is that of the copying, so that a third place may have an edit that is older
\* than a copy and later than its text.
NewerIsLater ==
    \A x, y \in Topics!Places : s2[x] > s2[y] /\ s1[x] # Topics!Empty => s1[x] >= s1[y]

TopicTyped ==
    /\ s1 \in [Topics!Places -> Int] /\ s2 \in [Topics!Places -> Nat]
    /\ s3 \in Topics!Places /\ s5 \in BOOLEAN /\ s6 \in Nat /\ s7 \in Nat
    /\ \A x \in Topics!Places : s1[x] <= s6 /\ s2[x] <= s6 + s7

TopicInv ==
    /\ TopicTyped /\ NewerIsLater
    /\ Topics!Copying =>
         /\ s3 = "team"
         /\ s5 \/ s1[Topics!Source] = Topics!Empty \/ s1[Topics!Source] >= s1[Topics!Target]

LEMMA TopicMoves ==
    ASSUME part = "topics", [WorkspaceNext]_wsVars
    PROVE  part' = part /\ (Topics!Next \/ UNCHANGED <<s1, s2, s3, s4, s5, s6, s7>>)
BY DEF WorkspaceNext, wsVars, registers

LEMMA TwoPlaces == Topics!Places = {"root", "team"} /\ Topics!Root = "root" /\ Topics!Empty = -1
BY DEF Topics!Places, Topics!Root, Topics!Empty

LEMMA TopicStarts == WorkspaceInit /\ part = "topics" => TopicInv
<1> SUFFICES ASSUME WorkspaceInit, part = "topics"
             PROVE  TopicInv
  OBVIOUS
<1>1. Topics!Init
  BY DEF WorkspaceInit, PartInit
<1>2. /\ s1 = [x \in Topics!Places |-> 0] /\ s2 = [x \in Topics!Places |-> 0]
      /\ s3 \in Topics!Places /\ s5 \in BOOLEAN /\ s6 = 0 /\ s7 = 0 /\ ~ Topics!Copying
  BY <1>1, TwoPlaces DEF Topics!Init, Topics!Copying
<1>3. TopicTyped
  BY <1>2 DEF TopicTyped
<1>4. NewerIsLater
  BY <1>2 DEF NewerIsLater
<1> QED BY <1>2, <1>3, <1>4 DEF TopicInv

LEMMA NothingOlder == TopicInv /\ s1' = s1 => Topics!NoOlderText
BY DEF Topics!NoOlderText, TopicInv, TopicTyped

\* A comparison, after which the newer of the two files is to be copied, if any.
LEMMA ComparisonTells ==
    ASSUME TopicInv, UNCHANGED <<s1, s2, s5, s6, s7>>, s3' \in Topics!Places,
           Topics!Copying' =>
               /\ s3' = "team"
               /\ s2[Topics!Source'] > s2[Topics!Target']
    PROVE  TopicInv' /\ Topics!NoOlderText
<1>1. Topics!Copying' => Topics!Source' \in Topics!Places /\ Topics!Target' \in Topics!Places
  BY TwoPlaces DEF Topics!Source, Topics!Target
<1>2. Topics!Copying' => s1[Topics!Source'] = Topics!Empty \/ s1[Topics!Source'] >= s1[Topics!Target']
  BY <1>1 DEF TopicInv, NewerIsLater
<1>3. Topics!Copying' => s1'[Topics!Source'] = Topics!Empty \/ s1'[Topics!Source'] >= s1'[Topics!Target']
  BY <1>2
<1>4. TopicTyped' /\ NewerIsLater'
  BY DEF TopicInv, TopicTyped, NewerIsLater
<1>5. Topics!NoOlderText
  BY NothingOlder
<1> QED BY <1>3, <1>4, <1>5 DEF TopicInv

\* A copy, whole or cut.
LEMMA CopiesKeepOrder ==
    ASSUME TopicInv, NEW t \in {s1[Topics!Source], Topics!Empty}, Topics!Replace(t),
           s3' \in Topics!Places, s4' \in {"forward", "reverse"}
    PROVE  TopicInv' /\ Topics!NoOlderText
<1> DEFINE from == Topics!Source
           to == Topics!Target
<1>1. /\ Topics!Copying /\ ~ Topics!Copying' /\ s5' = FALSE /\ s6' = s6 /\ s7' = s7 + 1
      /\ s1' = [s1 EXCEPT ![to] = t] /\ s2' = [s2 EXCEPT ![to] = s6 + s7 + 1]
  BY DEF Topics!Replace, Topics!Now, Topics!Copying
<1>2. {from, to} = Topics!Places /\ from # to
  BY <1>1, TwoPlaces DEF TopicInv, Topics!Source, Topics!Target, Topics!Copying
<1>3. s5 \/ s1[from] = Topics!Empty \/ s1[from] >= s1[to]
  BY <1>1 DEF TopicInv
<1>4. /\ s1 \in [Topics!Places -> Int] /\ s2 \in [Topics!Places -> Nat] /\ s6 \in Nat /\ s7 \in Nat
      /\ \A x \in Topics!Places : s1[x] <= s6 /\ s2[x] <= s6 + s7
  BY DEF TopicInv, TopicTyped
<1> HIDE DEF from, to
<1>5. t = s1[from] \/ t = Topics!Empty
  BY DEF from
<1>6. to = Topics!Target
  BY DEF to
<1>7. /\ s1'[to] = t /\ s1'[from] = s1[from]
      /\ s2'[to] = s6 + s7 + 1 /\ s2'[from] = s2[from]
  BY <1>1, <1>2, <1>4
<1>8. t \in Int /\ t <= s6
  BY <1>2, <1>4, <1>5, TwoPlaces
<1>9. s1' \in [Topics!Places -> Int] /\ s2' \in [Topics!Places -> Nat] /\ s7' \in Nat
  <2>1. s6 + s7 + 1 \in Nat /\ s7 + 1 \in Nat
    BY <1>4
  <2> QED BY <1>1, <1>4, <1>8, <2>1
<1>10. \A x \in Topics!Places : s1'[x] <= s6' /\ s2'[x] <= s6' + s7'
  BY <1>1, <1>2, <1>4, <1>7, <1>8
<1>11. NewerIsLater'
  BY <1>2, <1>4, <1>5, <1>7, <1>8 DEF NewerIsLater
<1>12. Topics!NoOlderText
  BY <1>2, <1>3, <1>4, <1>5, <1>6, <1>7 DEF Topics!NoOlderText
<1>13. TopicTyped'
  BY <1>1, <1>4, <1>9, <1>10 DEF TopicTyped
<1> QED BY <1>1, <1>11, <1>12, <1>13 DEF TopicInv

LEMMA TopicStep ==
    ASSUME TopicInv, Topics!Next \/ UNCHANGED <<s1, s2, s3, s4, s5, s6, s7>>
    PROVE  TopicInv' /\ Topics!NoOlderText
<1>0. s3 \in Topics!Places
  BY DEF TopicInv, TopicTyped
<1>1. CASE Topics!Forward
  <2>1. /\ UNCHANGED <<s1, s2, s3, s5, s6, s7>> /\ s3 # "root"
        /\ s4' = IF Topics!ShouldCopy("root", s3) THEN "to mailbox" ELSE "reverse"
    BY <1>1, TwoPlaces DEF Topics!Forward
  <2>2. Topics!Copying' => s3' = "team" /\ s2[Topics!Source'] > s2[Topics!Target']
    BY <1>0, <2>1, TwoPlaces DEF Topics!Copying, Topics!Source, Topics!Target, Topics!ShouldCopy
  <2> QED BY <1>0, <2>1, <2>2, ComparisonTells
<1>2. CASE Topics!Reverse
  <2>1. /\ UNCHANGED <<s1, s2, s5, s6, s7>> /\ s3 # "root"
        /\ \/ Topics!ShouldCopy(s3, "root") /\ s4' = "to root" /\ s3' = s3
           \/ s4' = "forward" /\ s3' = "root"
    BY <1>2, TwoPlaces DEF Topics!Reverse
  <2>2. Topics!Copying' => s3' = "team" /\ s2[Topics!Source'] > s2[Topics!Target']
    BY <1>0, <2>1, TwoPlaces DEF Topics!Copying, Topics!Source, Topics!Target, Topics!ShouldCopy
  <2>3. s3' \in Topics!Places
    BY <1>0, <2>1, TwoPlaces
  <2> QED BY <2>1, <2>2, <2>3, ComparisonTells
<1>3. CASE Topics!Copy
  <2>1. Topics!Replace(s1[Topics!Source]) /\ s3' \in Topics!Places /\ s4' \in {"forward", "reverse"}
    BY <1>0, <1>3, TwoPlaces DEF Topics!Copy
  <2> QED BY <2>1, CopiesKeepOrder
<1>4. CASE Topics!Cut
  <2>1. Topics!Replace(Topics!Empty) /\ s3' \in Topics!Places /\ s4' \in {"forward", "reverse"}
    BY <1>4, TwoPlaces DEF Topics!Cut
  <2> QED BY <2>1, CopiesKeepOrder
<1>5. CASE Topics!Stop
  <2>1. UNCHANGED <<s1, s2, s6, s7>> /\ s3' = "root" /\ s4' = "forward" /\ s5' = FALSE
    BY <1>5, TwoPlaces DEF Topics!Stop
  <2> QED BY <2>1, TwoPlaces, NothingOlder DEF TopicInv, TopicTyped, NewerIsLater, Topics!Copying
<1>6. ASSUME NEW b \in {"team"}, Topics!Begin(b) PROVE TopicInv' /\ Topics!NoOlderText
  <2>1. UNCHANGED <<s1, s2, s4, s5, s6, s7>> /\ s3 = "root" /\ s3' = "team"
    BY <1>6, TwoPlaces DEF Topics!Begin
  <2>2. ~ Topics!Copying
    BY <2>1 DEF TopicInv
  <2> QED BY <2>1, <2>2, TwoPlaces, NothingOlder DEF TopicInv, TopicTyped, NewerIsLater, Topics!Copying
<1>7. ASSUME NEW x \in Topics!Places, Topics!Edit(x) PROVE TopicInv' /\ Topics!NoOlderText
  <2>1. /\ s6' = s6 + 1 /\ s7' = s7 /\ s3' = s3 /\ s4' = s4
        /\ s1' = [s1 EXCEPT ![x] = s6 + 1] /\ s2' = [s2 EXCEPT ![x] = s6 + s7 + 1]
        /\ s5' = (s5 \/ (Topics!Copying /\ x = Topics!Target))
    BY <1>7 DEF Topics!Edit, Topics!Now
  <2>2. TopicTyped' /\ NewerIsLater' /\ Topics!NoOlderText
    BY <2>1 DEF TopicInv, TopicTyped, NewerIsLater, Topics!NoOlderText
  <2>3. /\ Topics!Copying' = Topics!Copying
        /\ Topics!Source' = Topics!Source /\ Topics!Target' = Topics!Target
    BY <2>1 DEF Topics!Copying, Topics!Source, Topics!Target
  <2>4. ASSUME Topics!Copying, ~ s5'
        PROVE  s1'[Topics!Source] = Topics!Empty \/ s1'[Topics!Source] >= s1'[Topics!Target]
    <3>1. Topics!Source \in Topics!Places /\ Topics!Target \in Topics!Places
      BY <1>0, TwoPlaces DEF Topics!Source, Topics!Target
    <3>2. ~ s5 /\ x # Topics!Target
      BY <2>1, <2>4
    <3>3. s1'[Topics!Target] = s1[Topics!Target]
      BY <2>1, <3>1, <3>2 DEF TopicInv, TopicTyped
    <3>4. CASE x = Topics!Source
      BY <2>1, <3>1, <3>3, <3>4 DEF TopicInv, TopicTyped
    <3>5. CASE x # Topics!Source
      BY <2>1, <2>4, <3>1, <3>2, <3>3, <3>5 DEF TopicInv, TopicTyped
    <3> QED BY <3>4, <3>5
  <2> QED BY <2>1, <2>2, <2>3, <2>4 DEF TopicInv
<1>8. CASE UNCHANGED <<s1, s2, s3, s4, s5, s6, s7>>
  BY <1>8, NothingOlder DEF TopicInv, TopicTyped, NewerIsLater, Topics!Copying, Topics!Source,
                            Topics!Target
<1> QED BY <1>1, <1>2, <1>3, <1>4, <1>5, <1>6, <1>7, <1>8 DEF Topics!Next

LEMMA PushKeepsNames ==
    ASSUME part = "people", [WorkspaceNext]_wsVars
    PROVE  People!MappingKept
<1>1. People!Next \/ UNCHANGED s2
  BY DEF WorkspaceNext, wsVars, registers
<1>2. ASSUME NEW p \in Procs, People!Save(p) PROVE People!MappingKept
  BY <1>2 DEF People!Save, People!Saved, People!MappingKept
<1>3. People!Next => (\E p \in Procs : People!Save(p)) \/ UNCHANGED s2
  BY DEF People!Next, People!Load, People!Update, People!Create, People!PushErr, People!Kill, People!Delete
<1> QED BY <1>1, <1>2, <1>3 DEF People!MappingKept

\* However contact pushes overlap, none forgets a resource name that was saved
\* (merge_sync_state of contact/push.rs); and with one mailbox no copy of a topic that is
\* whole replaces a later edit, but for one made since the comparison: not after syncs that
\* broke off, not with edits of either file at any time, not with a cut file that is newer
\* (copy_if_newer of mailbox/sync.rs).
THEOREM OthersFilesAreKept == WorkspaceSpec => FilesAreKept
<1> DEFINE I == part = "topics" => TopicInv
<1>1. WorkspaceInit => I
  BY TopicStarts
<1>2. I /\ [WorkspaceNext]_wsVars => I' /\ [part = "topics" => Topics!NoOlderText]_wsVars
  <2>1. [WorkspaceNext]_wsVars => part' = part
    BY DEF WorkspaceNext, wsVars
  <2> QED BY <2>1, TopicMoves, TopicStep
<1>3. [WorkspaceNext]_wsVars => [part = "people" => People!MappingKept]_wsVars
  BY PushKeepsNames
<1> QED BY <1>1, <1>2, <1>3, PTL DEF WorkspaceSpec, FilesAreKept


-----------------------------------------------------------------------------
(* The Google login *)

Entries == [there : BOOLEAN, scopes : SUBSET Scopes, fresh : BOOLEAN, refresh : SUBSET Scopes]
LoginSessions ==
    [pc : {"idle", "refresh", "bind", "browser", "save"}, kind : {"use", "quiet", "login"},
     want : SUBSET Scopes, loaded : Entries, consent : BOOLEAN, answer : Entries]

LoginTyped ==
    /\ s1 \in Entries /\ s2 \in SUBSET Scopes /\ s3 \in [Procs -> LoginSessions] /\ s5 \in BOOLEAN

\* A command that is going to replace the entry will have a refresh token to put there: the
\* one it has read, or that of an answer it has asked consent for.
BringsGrant(s) ==
    /\ s.loaded.refresh # {} => s.loaded.there
    /\ s.pc = "refresh" => s.loaded.refresh # {}
    /\ s.pc \in {"bind", "browser"} => s.consent \/ s.loaded.refresh # {}
    /\ s.pc = "save" => s.answer.there /\ (s.answer.refresh # {} \/ s.loaded.refresh # {})

\* What the entry e records has been allowed.
IsGranted(e, granted) == e.scopes \subseteq granted /\ e.refresh \subseteq granted

LoginInv ==
    /\ LoginTyped
    /\ s1.refresh # {} => s1.there
    /\ \A p \in Procs : BringsGrant(s3[p])
    /\ ~ s5 => /\ IsGranted(s1, s2)
               /\ \A p \in Procs : IsGranted(s3[p].loaded, s2) /\ IsGranted(s3[p].answer, s2)

LEMMA LoginMoves ==
    ASSUME part = "login", [WorkspaceNext]_wsVars
    PROVE  part' = part /\ (Login!Next \/ UNCHANGED <<s1, s2, s3, s4, s5, s6>>)
BY DEF WorkspaceNext, wsVars, registers

LEMMA IdleLogin ==
    /\ Login!Idle \in LoginSessions /\ BringsGrant(Login!Idle) /\ Login!NoEntry \in Entries
    /\ Login!NoEntry.refresh = {} /\ Login!NoEntry.there = FALSE
    /\ \A g \in SUBSET Scopes : /\ IsGranted(Login!NoEntry, g) /\ IsGranted(Login!Idle.loaded, g)
                                /\ IsGranted(Login!Idle.answer, g)
BY DEF Login!Idle, Login!NoEntry, Login!Entry, LoginSessions, Entries, BringsGrant, IsGranted

LEMMA LoginStarts == WorkspaceInit /\ part = "login" => LoginInv
<1> SUFFICES ASSUME WorkspaceInit, part = "login"
             PROVE  LoginInv
  OBVIOUS
<1>1. Login!Init
  BY DEF WorkspaceInit, PartInit
<1> QED BY <1>1, IdleLogin DEF Login!Init, LoginInv, LoginTyped

\* A step that changes one session only.
LEMMA OneSession ==
    ASSUME LoginInv, NEW p \in Procs, NEW s \in LoginSessions, BringsGrant(s),
           s3' = [s3 EXCEPT ![p] = s], UNCHANGED s5,
           s1' \in Entries, s1'.refresh # {} => s1'.there,
           s2' \in SUBSET Scopes, s2 \subseteq s2',
           ~ s5 => IsGranted(s1', s2') /\ IsGranted(s.loaded, s2') /\ IsGranted(s.answer, s2')
    PROVE  LoginInv'
<1>1. s3' \in [Procs -> LoginSessions] /\ s3'[p] = s /\ \A q \in Procs \ {p} : s3'[q] = s3[q]
  BY DEF LoginInv, LoginTyped
<1>2. LoginTyped'
  BY <1>1 DEF LoginInv, LoginTyped
<1>3. \A q \in Procs : BringsGrant(s3'[q])
  BY <1>1 DEF LoginInv
<1>4. ~ s5 => \A q \in Procs : IsGranted(s3'[q].loaded, s2') /\ IsGranted(s3'[q].answer, s2')
  BY <1>1 DEF LoginInv, IsGranted
<1> QED BY <1>2, <1>3, <1>4 DEF LoginInv, BringsGrant, IsGranted

LEMMA LoginStep ==
    ASSUME LoginInv, Login!Next \/ UNCHANGED <<s1, s2, s3, s4, s5, s6>>
    PROVE  LoginInv' /\ Login!GrantKept
<1>0. /\ LoginTyped /\ s1 \in Entries /\ s2 \in SUBSET Scopes
      /\ \A p \in Procs : s3[p] \in LoginSessions /\ BringsGrant(s3[p])
      /\ s1.refresh # {} => s1.there
      /\ ~ s5 => IsGranted(s1, s2)
      /\ ~ s5 => \A p \in Procs : IsGranted(s3[p].loaded, s2) /\ IsGranted(s3[p].answer, s2)
  BY DEF LoginInv, LoginTyped
<1>1. ASSUME NEW p \in Procs, NEW s \in LoginSessions, BringsGrant(s), s3' = [s3 EXCEPT ![p] = s],
             UNCHANGED <<s1, s2, s5>>,
             ~ s5 => IsGranted(s.loaded, s2) /\ IsGranted(s.answer, s2)
      PROVE  LoginInv' /\ Login!GrantKept
  BY <1>0, <1>1, OneSession DEF Login!GrantKept
<1>2. ASSUME NEW p \in Procs, Login!Ends(p), UNCHANGED <<s1, s2, s5>>
      PROVE  LoginInv' /\ Login!GrantKept
  BY <1>0, <1>1, <1>2, IdleLogin DEF Login!Ends
<1>3. ASSUME NEW p \in Procs, NEW k \in {"use", "quiet", "login"}, NEW w \in SUBSET Scopes \ {{}},
             Login!Load(p, k, w)
      PROVE  LoginInv' /\ Login!GrantKept
  <2>1. CASE s3' = s3
    BY <1>3, <2>1 DEF Login!Load, Login!GrantKept, LoginInv, LoginTyped, BringsGrant, IsGranted
  <2>2. CASE s3' # s3
    <3> DEFINE covered == k = "quiet" \/ w \subseteq s1.scopes
               refreshes == k # "login" /\ ~ s1.fresh /\ s1.refresh # {} /\ covered
               s == [Login!Idle EXCEPT !.pc = IF refreshes THEN "refresh" ELSE "bind",
                        !.kind = k, !.want = w, !.loaded = s1,
                        !.consent = Login!PromptConsent(s1, k = "login")]
    <3>1. s3' = [s3 EXCEPT ![p] = s] /\ UNCHANGED <<s1, s2, s5>>
      BY <1>3, <2>2 DEF Login!Load, Login!ScopeCovered
    <3>2. s \in LoginSessions /\ BringsGrant(s) /\ s.loaded = s1 /\ s.answer = Login!NoEntry
      BY <1>0, IdleLogin DEF LoginSessions, BringsGrant, Login!Idle, Login!PromptConsent
    <3> HIDE DEF s
    <3> QED BY <1>0, <1>1, <3>1, <3>2, IdleLogin
  <2> QED BY <2>1, <2>2
<1>4. ASSUME NEW p \in Procs, NEW allowed \in SUBSET Scopes, Login!Authorize(p, allowed)
      PROVE  LoginInv' /\ Login!GrantKept
  <2>1. PICK refresh \in IF s3[p].consent THEN {s2'} ELSE {{}, s2'},
             response \in Login!Responses(s2', allowed = s3[p].want) :
          s3' = [s3 EXCEPT ![p].pc = "save",
                    ![p].answer = Login!Entry(TRUE, Login!ParsedScopes(response, s3[p].want), TRUE, refresh)]
    BY <1>4 DEF Login!Authorize
  <2>2. /\ s3[p].pc = "browser" /\ UNCHANGED <<s1, s5>>
        /\ s2' = s2 \cup allowed /\ s2' # {}
    BY <1>4 DEF Login!Authorize
  <2> DEFINE scopes == Login!ParsedScopes(response, s3[p].want)
             e == Login!Entry(TRUE, scopes, TRUE, refresh)
             s == [s3[p] EXCEPT !.pc = "save", !.answer = e]
  <2>3. scopes \subseteq s2'
    BY <2>1, <2>2 DEF Login!Responses, Login!ParsedScopes
  <2>4. s3' = [s3 EXCEPT ![p] = s]
    BY <1>0, <2>1 DEF LoginTyped
  <2> HIDE DEF scopes
  <2>5. e \in Entries /\ e.there /\ IsGranted(e, s2') /\ (s3[p].consent => e.refresh # {})
    BY <1>0, <2>1, <2>2, <2>3 DEF Login!Entry, Entries, IsGranted
  <2> HIDE DEF e
  <2>6. s \in LoginSessions /\ BringsGrant(s) /\ s.answer = e /\ s.loaded = s3[p].loaded
    BY <1>0, <2>2, <2>5 DEF LoginSessions, BringsGrant
  <2> HIDE DEF s
  <2>7. ~ s5 => IsGranted(s1', s2') /\ IsGranted(s.loaded, s2') /\ IsGranted(s.answer, s2')
    BY <1>0, <2>2, <2>5, <2>6 DEF IsGranted
  <2>8. LoginInv'
    BY <1>0, <2>2, <2>4, <2>6, <2>7, OneSession
  <2> QED BY <2>2, <2>8 DEF Login!GrantKept
<1>5. ASSUME NEW p \in Procs, Login!Refresh(p) PROVE LoginInv' /\ Login!GrantKept
  <2>1. /\ s3[p].pc = "refresh" /\ Login!Ends(p) /\ UNCHANGED <<s2, s5>>
        /\ \E response \in {{}, s3[p].loaded.refresh} :
              s1' = Login!Entry(TRUE, Login!ParsedScopes(response, s3[p].loaded.scopes), TRUE,
                                s3[p].loaded.refresh)
    BY <1>5 DEF Login!Refresh, Login!Responses
  <2>2. s3[p].loaded.refresh # {} /\ s3[p].loaded \in Entries
    BY <1>0, <2>1 DEF BringsGrant, LoginSessions
  <2>3. s1' \in Entries /\ s1'.there /\ s1'.refresh # {} /\ (~ s5 => IsGranted(s1', s2'))
    <3>1. \E scopes \in {s3[p].loaded.scopes, s3[p].loaded.refresh} :
            s1' = Login!Entry(TRUE, scopes, TRUE, s3[p].loaded.refresh)
      BY <2>1 DEF Login!ParsedScopes
    <3> QED BY <1>0, <2>1, <2>2, <3>1 DEF Login!Entry, Entries, IsGranted
  <2>4. LoginInv'
    BY <1>0, <2>1, <2>3, OneSession, IdleLogin DEF Login!Ends
  <2> QED BY <2>3, <2>4 DEF Login!GrantKept
<1>6. ASSUME NEW p \in Procs, Login!RefreshFails(p) PROVE LoginInv' /\ Login!GrantKept
  <2>1. CASE s3[p].kind = "quiet"
    BY <1>2, <1>6, <2>1 DEF Login!RefreshFails
  <2>2. CASE s3[p].kind # "quiet"
    <3> DEFINE s == [s3[p] EXCEPT !.pc = "bind", !.consent = TRUE]
    <3>1. s3' = [s3 EXCEPT ![p] = s] /\ UNCHANGED <<s1, s2, s5>>
      BY <1>0, <1>6, <2>2 DEF Login!RefreshFails, LoginTyped
    <3>2. s \in LoginSessions /\ BringsGrant(s) /\ s.loaded = s3[p].loaded /\ s.answer = s3[p].answer
      BY <1>0 DEF LoginSessions, BringsGrant
    <3> HIDE DEF s
    <3> QED BY <1>0, <1>1, <3>1, <3>2
  <2> QED BY <2>1, <2>2
<1>7. ASSUME NEW p \in Procs, Login!Bind(p) PROVE LoginInv' /\ Login!GrantKept
  <2>0. /\ s3[p].pc = "bind" /\ UNCHANGED <<s1, s2, s5>>
        /\ Login!Ends(p) \/ s3' = [s3 EXCEPT ![p].pc = "browser"]
    BY <1>7 DEF Login!Bind
  <2>1. CASE Login!Ends(p)
    BY <1>2, <2>0, <2>1
  <2>2. CASE s3' = [s3 EXCEPT ![p].pc = "browser"]
    <3> DEFINE s == [s3[p] EXCEPT !.pc = "browser"]
    <3>1. s3' = [s3 EXCEPT ![p] = s] /\ UNCHANGED <<s1, s2, s5>> /\ s3[p].pc = "bind"
      BY <1>0, <2>0, <2>2 DEF LoginTyped
    <3>2. s \in LoginSessions /\ BringsGrant(s) /\ s.loaded = s3[p].loaded /\ s.answer = s3[p].answer
      BY <1>0, <3>1 DEF LoginSessions, BringsGrant
    <3> HIDE DEF s
    <3> QED BY <1>0, <1>1, <3>1, <3>2
  <2> QED BY <2>0, <2>1, <2>2
<1>8. ASSUME NEW p \in Procs, Login!Save(p) PROVE LoginInv' /\ Login!GrantKept
  <2> DEFINE t == Login!MergeCachedGrant(s3[p].answer, s3[p].loaded)
  <2>1. /\ s3[p].pc = "save" /\ Login!Ends(p) /\ UNCHANGED <<s2, s5>>
        /\ s1' = t \/ s1' = s1
    BY <1>8 DEF Login!Save, Login!ScopeCovered
  <2>2. /\ s3[p].answer \in Entries /\ s3[p].loaded \in Entries
        /\ s3[p].loaded.refresh # {} => s3[p].loaded.there
        /\ s3[p].answer.there
        /\ s3[p].answer.refresh # {} \/ s3[p].loaded.refresh # {}
        /\ ~ s5 => IsGranted(s3[p].answer, s2) /\ IsGranted(s3[p].loaded, s2)
    BY <1>0, <2>1 DEF BringsGrant, LoginSessions
  <2>3. t \in Entries /\ t.there /\ t.refresh # {} /\ (~ s5 => IsGranted(t, s2))
    BY <2>2 DEF Login!MergeCachedGrant, Login!MergeScopes, Entries, IsGranted
  <2> HIDE DEF t
  <2>4. LoginInv'
    BY <1>0, <2>1, <2>3, OneSession, IdleLogin DEF Login!Ends
  <2> QED BY <2>1, <2>3, <2>4 DEF Login!GrantKept
<1>9. ASSUME NEW p \in Procs, Login!BreakOff(p) PROVE LoginInv' /\ Login!GrantKept
  BY <1>2, <1>9 DEF Login!BreakOff
<1>10. ASSUME UNCHANGED <<s2, s3, s5>>, s1' \in Entries, s1'.refresh # {} => s1'.there,
              ~ s5 => IsGranted(s1', s2), s1.refresh # {} /\ s1'.there => s1'.refresh # {}
       PROVE  LoginInv' /\ Login!GrantKept
  BY <1>0, <1>10 DEF LoginInv, LoginTyped, BringsGrant, IsGranted, Login!GrantKept
<1>11. CASE Login!Clear
  BY <1>0, <1>10, <1>11, IdleLogin DEF Login!Clear
<1>12. CASE Login!Expire
  <2>1. UNCHANGED <<s2, s3, s5>> /\ s1' = [s1 EXCEPT !.fresh = FALSE]
    BY <1>12 DEF Login!Expire
  <2>2. /\ s1' \in Entries /\ s1'.refresh = s1.refresh /\ s1'.there = s1.there
        /\ s1'.scopes = s1.scopes
    BY <1>0, <2>1 DEF Entries
  <2> QED BY <1>0, <1>10, <2>1, <2>2 DEF IsGranted
<1>13. CASE Login!Revoke
  BY <1>0, <1>13 DEF Login!Revoke, LoginInv, LoginTyped, BringsGrant, Login!GrantKept
<1>14. CASE UNCHANGED <<s1, s2, s3, s4, s5, s6>>
  BY <1>14 DEF LoginInv, LoginTyped, BringsGrant, IsGranted, Login!GrantKept
<1> QED BY <1>3, <1>4, <1>5, <1>6, <1>7, <1>8, <1>9, <1>11, <1>12, <1>13, <1>14 DEF Login!Next

-----------------------------------------------------------------------------
(* The tokens of the calendar and of Search Console *)

ServiceInv ==
    /\ s2 \in [there : BOOLEAN, fresh : BOOLEAN, refresh : Nat] /\ s9 \in Nat
    /\ s2.there => s2.refresh # 0
    /\ s7 # "idle" => s9 # 0 /\ s8[1] # "service account"
    /\ s7 = "refresh" => s2.refresh # 0

LEMMA ServiceMoves ==
    ASSUME part = "service", [WorkspaceNext]_wsVars
    PROVE  part' = part /\ (Service!Next \/ UNCHANGED <<s1, s2, s3, s4, s5, s6, s7, s8, s9, s10>>)
BY DEF WorkspaceNext, wsVars, registers

LEMMA ServiceStarts == WorkspaceInit /\ part = "service" => ServiceInv
<1> SUFFICES ASSUME WorkspaceInit, part = "service"
             PROVE  ServiceInv
  OBVIOUS
<1>1. Service!Init
  BY DEF WorkspaceInit, PartInit
<1> QED BY <1>1 DEF Service!Init, Service!NoEntry, ServiceInv

LEMMA ServiceStep ==
    ASSUME ServiceInv, Service!Next \/ UNCHANGED <<s1, s2, s3, s4, s5, s6, s7, s8, s9, s10>>
    PROVE  ServiceInv' /\ Service!GivenWorks
<1> USE DEF ServiceInv, Service!GivenWorks, Service!EntryRenewable, Service!ServiceTokenWorks, Service!Hand
<1>1. CASE Service!Begin
  <2>1. s9' \in Nat \ {0} /\ s2' = s2 /\ s7 = "idle"
    <3>1. s9' = s9 + 1 /\ s2' = s2 /\ s7 = "idle"
      BY <1>1, Zenon DEF Service!Begin
    <3> HIDE DEF Service!GivenWorks
    <3> QED BY <3>1
  <2>2. CASE s7' = "idle" /\ s8' = <<"stored", "none">>
    BY <2>1, <2>2
  <2>3. CASE /\ s7' = IF s2.there /\ s2.refresh # 0 THEN "refresh" ELSE "service account"
             /\ s8' = <<"none", "none">>
    BY <2>1, <2>3
  <2> QED BY <1>1, <2>2, <2>3 DEF Service!Begin
<1>2. CASE Service!Refresh
  BY <1>2 DEF Service!Refresh, Service!Refreshed
<1>3. CASE Service!RefreshFails \/ Service!NoServiceAccount
  BY <1>3 DEF Service!RefreshFails, Service!NoServiceAccount
<1>4. CASE Service!TryCached
  <2>1. s7 # "idle" /\ UNCHANGED <<s2, s4, s5, s9>>
    BY <1>4 DEF Service!TryCached
  <2>2. CASE s7' = "idle" /\ s8' = <<"service account", s4>> /\ s4 \in s5
    BY <2>1, <2>2
  <2>3. CASE s7' = "browser" /\ s8' = s8
    BY <2>1, <2>3
  <2>4. \/ s7' = "idle" /\ s8' = <<"service account", s4>> /\ s4 \in s5
        \/ s7' = "browser" /\ s8' = s8
    BY ONLY <1>4 DEF Service!TryCached, Service!Works, Service!Hand
  <2> HIDE DEF ServiceInv, Service!GivenWorks
  <2> QED BY ONLY <2>2, <2>3, <2>4
<1>5. CASE Service!TryNew
  <2>1. s7 # "idle" /\ UNCHANGED <<s2, s4, s5, s9>>
    BY <1>5 DEF Service!TryNew
  <2>2. CASE s7' = "idle" /\ s8' = <<"service account", s4>> /\ s4 \in s5
    BY <2>1, <2>2
  <2>3. CASE s7' = "browser" /\ s8' = s8
    BY <2>1, <2>3
  <2>4. \/ s7' = "idle" /\ s8' = <<"service account", s4>> /\ s4 \in s5
        \/ s7' = "browser" /\ s8' = s8
    BY ONLY <1>5 DEF Service!TryNew, Service!Works, Service!Hand
  <2> HIDE DEF ServiceInv, Service!GivenWorks
  <2> QED BY ONLY <2>2, <2>3, <2>4
<1>6. CASE Service!LogIn
  BY <1>6 DEF Service!LogIn, Service!LoggedIn
<1>7. CASE Service!RunAuth
  BY <1>7 DEF Service!RunAuth, Service!LoggedIn
<1>8. CASE Service!Fail
  BY <1>8 DEF Service!Fail
<1>9. CASE Service!Event
  <2>1. UNCHANGED <<s7, s8, s9>> /\ s2' \in {s2, [s2 EXCEPT !.fresh = FALSE]}
    BY <1>9 DEF Service!Event
  <2> QED BY <2>1
<1>10. CASE Service!Clear
  BY <1>10 DEF Service!Clear, Service!NoEntry
<1>11. CASE UNCHANGED <<s1, s2, s3, s4, s5, s6, s7, s8, s9, s10>>
  BY <1>11
<1> QED BY <1>1, <1>2, <1>3, <1>4, <1>5, <1>6, <1>7, <1>8, <1>9, <1>10, <1>11 DEF Service!Next

\* However logins overlap and whatever Google leaves out of its answers, no entry loses its
\* refresh token (merge_cached_grant of gmail_auth.rs; cal/auth.rs, gsc/auth.rs), and the
\* token of a service account that is handed out works.
THEOREM GrantsAreKept == WorkspaceSpec => TokensAreKept
<1> DEFINE I == /\ part = "login" => LoginInv
                /\ part = "service" => ServiceInv
<1>1. WorkspaceInit => I
  BY LoginStarts, ServiceStarts
<1>2. I /\ [WorkspaceNext]_wsVars =>
        /\ I'
        /\ [part = "login" => Login!GrantKept]_wsVars
        /\ [part = "service" => Service!GivenWorks]_wsVars
  <2>1. [WorkspaceNext]_wsVars => part' = part
    BY DEF WorkspaceNext, wsVars
  <2> QED BY <2>1, LoginMoves, LoginStep, ServiceMoves, ServiceStep
<1> QED BY <1>1, <1>2, PTL DEF WorkspaceSpec, TokensAreKept


-----------------------------------------------------------------------------
(* The logins of social profiles *)

ProfileEntries == [handle : Accounts \cup {"none", ""}, urn : Accounts \cup {"none"}]
Registries == [Profiles -> ProfileEntries]
SocialSessions ==
    [pc : {"idle", "browser", "profile", "write", "store"}, profile : Profiles \cup {"none"},
     login : Nat, urn : Accounts \cup {"none"}, read : Registries \cup {<<>>}]

SocialTyped ==
    /\ s1 \in Registries /\ s2 \in Registries /\ s4 \in [Procs -> SocialSessions]
    /\ s6 \in SUBSET (Nat \X Profiles \X BOOLEAN) /\ s11 \in Nat
    /\ s7 \in BOOLEAN /\ s9 \in BOOLEAN /\ s10 \in BOOLEAN

\* Every account of the registry r was let in on a page for its profile.
Owned(r, allowed) == \A f \in Profiles : r[f].urn = "none" \/ <<f, r[f].urn>> \in allowed

\* A login that waits has a page of its own; one that is answered has an account that was let
\* in for its profile, and has read a registry of such accounts.
OwnAnswer(s, pages, allowed, logins) ==
    /\ s.login <= logins
    /\ s.pc = "browser" =>
         s.profile \in Profiles /\ \A page \in pages : page[1] = s.login => page[2] = s.profile
    /\ s.pc \in {"profile", "write", "store"} =>
         s.profile \in Profiles /\ <<s.profile, s.urn>> \in allowed
    /\ s.pc = "write" => s.read \in Registries /\ Owned(s.read, allowed)

\* An account of .corky.toml has its token, or the login that named it is about to store it.
TokensFollow ==
    \A f \in Profiles : s1[f] # Social!NoEntry =>
        s1[f].urn \in s3 \/ \E p \in Procs : s4[p].pc = "store" /\ s4[p].urn = s1[f].urn

SocialInv ==
    /\ SocialTyped
    /\ \A page \in s6 : page[1] <= s11
    /\ \A p \in Procs : OwnAnswer(s4[p], s6, s8, s11)
    /\ Owned(s1, s8) /\ Owned(s2, s8)
    /\ ~ s9 /\ ~ s10 => TokensFollow
    /\ s7 => Social!Errors = {}

LEMMA SocialMoves ==
    ASSUME part = "social", [WorkspaceNext]_wsVars
    PROVE  part' = part /\ (Social!Next \/ UNCHANGED <<s1, s2, s3, s4, s5, s6, s7, s8, s9, s10, s11>>)
BY DEF WorkspaceNext, wsVars, registers

LEMMA IdleSocial ==
    /\ Social!Idle \in SocialSessions /\ Social!NoEntry \in ProfileEntries
    /\ \A pages, allowed : \A logins \in Nat : OwnAnswer(Social!Idle, pages, allowed, logins)
BY DEF Social!Idle, Social!NoEntry, SocialSessions, ProfileEntries, OwnAnswer

LEMMA SocialStarts == WorkspaceInit /\ part = "social" => SocialInv
<1> SUFFICES ASSUME WorkspaceInit, part = "social"
             PROVE  SocialInv
  OBVIOUS
<1>1. Social!Init
  BY DEF WorkspaceInit, PartInit
<1>2. s2 \in Registries /\ Owned(s2, s8)
  <2>1. /\ s2 \in [Profiles -> {Social!NoEntry} \cup {[handle |-> a, urn |-> a] : a \in Accounts}]
        /\ s8 = {<<f, s2[f].urn>> : f \in Profiles}
    BY <1>1 DEF Social!Init
  <2>2. \A a \in Accounts : [handle |-> a, urn |-> a] \in ProfileEntries
    BY DEF ProfileEntries
  <2>3. s2 \in Registries
    BY <2>1, <2>2, IdleSocial DEF Registries
  <2>4. Owned(s2, s8)
    BY <2>1 DEF Owned
  <2> QED BY <2>3, <2>4
<1>3. s1 \in Registries /\ \A f \in Profiles : s1[f] = Social!NoEntry
  BY <1>1, IdleSocial DEF Social!Init, Registries
<1>4. Owned(s1, s8) /\ TokensFollow
  BY <1>3 DEF Owned, TokensFollow, Social!NoEntry
<1>5. s4 = [p \in Procs |-> Social!Idle] /\ s6 = {} /\ s11 = 0 /\ s7 = FALSE /\ s9 = FALSE /\ s10 = FALSE
  BY <1>1 DEF Social!Init
<1> QED BY <1>2, <1>3, <1>4, <1>5, IdleSocial DEF SocialInv, SocialTyped

\* Errors, where they matter, is a matter of .corky.toml and profiles.toml.
LEMMA ErrorsStay == UNCHANGED <<s1, s2>> => Social!Errors' = Social!Errors
BY DEF Social!Errors, Social!Registry, Social!NoEntry

\* A step that leaves .corky.toml alone and changes one session only.
LEMMA OneLogin ==
    ASSUME SocialInv, NEW p \in Procs, NEW s \in SocialSessions, s4' = [s4 EXCEPT ![p] = s],
           UNCHANGED <<s1, s2>>, s8 \subseteq s8', s11' \in Nat, s11 <= s11',
           s6' \in SUBSET (Nat \X Profiles \X BOOLEAN), \A page \in s6' : page[1] <= s11',
           OwnAnswer(s, s6', s8', s11'),
           \A page \in s6' \ s6 : page[1] > s11,
           s7' => s7, s7' \in BOOLEAN, s9' \in BOOLEAN, s10' \in BOOLEAN,
           \/ s9'
           \/ s10'
           \/ ~ s9 /\ ~ s10 /\ s3 \subseteq s3' /\ (s4[p].pc = "store" => s4[p].urn \in s3')
    PROVE  SocialInv'
<1>1. s4' \in [Procs -> SocialSessions] /\ s4'[p] = s /\ \A q \in Procs \ {p} : s4'[q] = s4[q]
  BY DEF SocialInv, SocialTyped
<1>2. SocialTyped'
  BY <1>1 DEF SocialInv, SocialTyped
<1>3. ASSUME NEW q \in Procs \ {p} PROVE OwnAnswer(s4[q], s6', s8', s11')
  <2>1. OwnAnswer(s4[q], s6, s8, s11) /\ s4[q] \in SocialSessions /\ s11 \in Nat
    BY DEF SocialInv, SocialTyped
  <2>2. s4[q].login \in Nat /\ s4[q].login <= s11
    BY <2>1 DEF SocialSessions, OwnAnswer
  <2>3. ASSUME NEW page \in s6', page[1] = s4[q].login PROVE page \in s6
    BY <2>1, <2>2, <2>3
  <2>4. Owned(s4[q].read, s8) => Owned(s4[q].read, s8')
    BY DEF Owned
  <2> QED BY <2>1, <2>2, <2>3, <2>4 DEF OwnAnswer
<1>4. \A q \in Procs : OwnAnswer(s4'[q], s6', s8', s11')
  BY <1>1, <1>3
<1>5. Owned(s1', s8') /\ Owned(s2', s8')
  BY DEF SocialInv, Owned
<1>6. ~ s9' /\ ~ s10' => TokensFollow'
  <2> SUFFICES ASSUME ~ s9', ~ s10', NEW f \in Profiles, s1[f] # Social!NoEntry, s1[f].urn \notin s3'
               PROVE  \E q \in Procs : s4'[q].pc = "store" /\ s4'[q].urn = s1[f].urn
    BY DEF TokensFollow, Social!NoEntry
  <2>1. PICK q \in Procs : s4[q].pc = "store" /\ s4[q].urn = s1[f].urn
    BY DEF SocialInv, TokensFollow
  <2>2. q # p
    BY <2>1
  <2> QED BY <1>1, <2>1, <2>2
<1>7. s7' => Social!Errors' = {}
  BY ErrorsStay DEF SocialInv
<1> QED BY <1>2, <1>4, <1>5, <1>6, <1>7 DEF SocialInv

LEMMA SocialStep ==
    ASSUME SocialInv, Social!Next \/ UNCHANGED <<s1, s2, s3, s4, s5, s6, s7, s8, s9, s10, s11>>
    PROVE  SocialInv'
<1>0. /\ SocialTyped /\ \A page \in s6 : page[1] <= s11
      /\ \A p \in Procs : s4[p] \in SocialSessions /\ OwnAnswer(s4[p], s6, s8, s11)
      /\ Owned(s1, s8) /\ Owned(s2, s8)
  BY DEF SocialInv, SocialTyped
<1>t. /\ s6 \in SUBSET (Nat \X Profiles \X BOOLEAN) /\ s11 \in Nat /\ s1 \in Registries
      /\ s7 \in BOOLEAN /\ s9 \in BOOLEAN /\ s10 \in BOOLEAN
  BY <1>0 DEF SocialTyped
<1>1. ASSUME NEW p \in Procs, NEW s \in SocialSessions, s4' = [s4 EXCEPT ![p] = s],
             UNCHANGED <<s1, s2, s8, s9, s10, s11>>, s6' \subseteq s6, s7' = s7,
             OwnAnswer(s, s6', s8, s11), s3 \subseteq s3',
             s4[p].pc = "store" => s4[p].urn \in s3' \/ s9
      PROVE  SocialInv'
  <2>1. /\ s8 \subseteq s8' /\ s11' \in Nat /\ s11 <= s11' /\ s6' \in SUBSET (Nat \X Profiles \X BOOLEAN)
        /\ s7' \in BOOLEAN /\ s9' \in BOOLEAN /\ s10' \in BOOLEAN
    BY <1>1, <1>t
  <2>2. \A page \in s6' : page[1] <= s11'
    BY <1>0, <1>1
  <2>3. \A page \in s6' \ s6 : page[1] > s11
    BY <1>1
  <2>4. OwnAnswer(s, s6', s8', s11') /\ (s7' => s7)
    BY <1>1
  <2>5. \/ s9'
        \/ s10'
        \/ ~ s9 /\ ~ s10 /\ s3 \subseteq s3' /\ (s4[p].pc = "store" => s4[p].urn \in s3')
    BY <1>1, <1>t
  <2> QED BY <1>1, <2>1, <2>2, <2>3, <2>4, <2>5, OneLogin
<1>2. ASSUME NEW p \in Procs, NEW f \in Profiles, Social!Open(p, f) PROVE SocialInv'
  <2> DEFINE s == [Social!Idle EXCEPT !.pc = "browser", !.profile = f, !.login = s11 + 1]
  <2>1. /\ s4[p].pc = "idle" /\ s11' = s11 + 1 /\ s6' = s6 \cup {<<s11 + 1, f, s5 # {}>>}
        /\ s4' = [s4 EXCEPT ![p] = s] /\ UNCHANGED <<s1, s2, s3, s7, s8, s9, s10>>
    BY <1>2 DEF Social!Open, Social!Step
  <2>2. s \in SocialSessions /\ s.pc = "browser" /\ s.profile = f /\ s.login = s11 + 1
    <3>1. Social!Idle \in SocialSessions /\ f \in Profiles \cup {"none"} /\ s11 + 1 \in Nat
      BY <1>t, IdleSocial
    <3> QED BY <3>1 DEF SocialSessions
  <2>3. \A page \in s6 : page[1] \in Nat /\ page[1] <= s11 /\ page[1] # s11 + 1
    BY <1>0, <1>t
  <2> HIDE DEF s
  <2>4. \A page \in s6' : page[1] = s11 + 1 => page[2] = f
    BY <2>1, <2>3
  <2>5. OwnAnswer(s, s6', s8', s11')
    BY <1>t, <2>1, <2>2, <2>4 DEF OwnAnswer
  <2>6. /\ s6' \in SUBSET (Nat \X Profiles \X BOOLEAN) /\ s11' \in Nat /\ s11 <= s11'
        /\ \A page \in s6' : page[1] <= s11'
        /\ \A page \in s6' \ s6 : page[1] > s11
    <3> DEFINE own == (s5 # {})
               new == <<s11 + 1, f, own>>
    <3>1. s6' = s6 \cup {new} /\ s11' = s11 + 1
      BY <2>1
    <3>2. own \in BOOLEAN /\ s11 + 1 \in Nat
      BY <1>t
    <3> HIDE DEF own
    <3>3. new \in Nat \X Profiles \X BOOLEAN /\ new[1] = s11 + 1
      BY <3>2
    <3> HIDE DEF new
    <3> QED BY <1>t, <2>3, <3>1, <3>3
  <2>7. s8 \subseteq s8' /\ (s7' => s7) /\ s7' \in BOOLEAN /\ s9' \in BOOLEAN /\ s10' \in BOOLEAN
    BY <1>t, <2>1
  <2>8. \/ s9'
        \/ s10'
        \/ ~ s9 /\ ~ s10 /\ s3 \subseteq s3' /\ (s4[p].pc = "store" => s4[p].urn \in s3')
    BY <1>t, <2>1
  <2> QED BY <1>2, <2>1, <2>2, <2>5, <2>6, <2>7, <2>8, OneLogin
<1>3. ASSUME NEW p \in Procs, NEW a \in Accounts, NEW page \in s6, Social!Authorize(p, page, a)
      PROVE  SocialInv'
  <2>1. /\ s4[p].pc = "browser" /\ s6' = s6 \ {page} /\ s8' = s8 \cup {<<page[2], a>>}
        /\ UNCHANGED <<s1, s2, s3, s7, s9, s10, s11>>
    BY <1>3 DEF Social!Authorize, Social!Step
  <2>2. ASSUME NEW s \in SocialSessions, s4' = [s4 EXCEPT ![p] = s], OwnAnswer(s, s6', s8', s11)
        PROVE  SocialInv'
    <3>1. /\ s8 \subseteq s8' /\ s11' \in Nat /\ s11 <= s11' /\ s6' \in SUBSET (Nat \X Profiles \X BOOLEAN)
          /\ s7' \in BOOLEAN /\ s9' \in BOOLEAN /\ s10' \in BOOLEAN /\ (s7' => s7)
      BY <1>t, <2>1
    <3>2. \A other \in s6' : other[1] <= s11'
      BY <1>0, <2>1
    <3>3. \A other \in s6' \ s6 : other[1] > s11
      BY <2>1
    <3>4. OwnAnswer(s, s6', s8', s11')
      BY <2>1, <2>2
    <3>5. \/ s9'
          \/ s10'
          \/ ~ s9 /\ ~ s10 /\ s3 \subseteq s3' /\ (s4[p].pc = "store" => s4[p].urn \in s3')
      BY <1>t, <2>1
    <3> QED BY <1>3, <2>1, <2>2, <3>1, <3>2, <3>3, <3>4, <3>5, OneLogin
  <2>3. CASE s4[p].login = page[1] /\ s4' = [s4 EXCEPT ![p] = [s4[p] EXCEPT !.pc = "profile", !.urn = a]]
    <3> DEFINE s == [s4[p] EXCEPT !.pc = "profile", !.urn = a]
    <3>1. s \in SocialSessions /\ s.pc = "profile" /\ s.urn = a /\ s.profile = s4[p].profile /\ s.login = s4[p].login
      BY <1>0 DEF SocialSessions
    <3> HIDE DEF s
    <3>2. s4[p].profile = page[2] /\ page[2] \in Profiles
      BY <1>0, <1>t, <2>1, <2>3 DEF OwnAnswer
    <3>3. OwnAnswer(s, s6', s8', s11)
      BY <1>0, <2>1, <3>1, <3>2 DEF OwnAnswer
    <3>4. s4' = [s4 EXCEPT ![p] = s]
      BY <2>3 DEF s
    <3> QED BY <2>2, <3>1, <3>3, <3>4
  <2>4. CASE s4' = [s4 EXCEPT ![p] = Social!Idle]
    BY <1>t, <2>2, <2>4, IdleSocial
  <2> QED BY <1>3, <2>3, <2>4 DEF Social!Authorize, Social!Step, Social!StateMatches
<1>4. ASSUME NEW p \in Procs, Social!ReadConfig(p) PROVE SocialInv'
  <2> DEFINE s == [s4[p] EXCEPT !.pc = "write", !.read = s1]
  <2>1. /\ s4[p].pc = "profile" /\ s4' = [s4 EXCEPT ![p] = s]
        /\ UNCHANGED <<s1, s2, s3, s6, s7, s8, s9, s10, s11>>
    BY <1>4 DEF Social!ReadConfig, Social!Step
  <2>2. /\ s \in SocialSessions /\ s.pc = "write" /\ s.urn = s4[p].urn /\ s.profile = s4[p].profile
        /\ s.login = s4[p].login /\ s.read = s1
    BY <1>0, <1>t DEF SocialSessions
  <2> HIDE DEF s
  <2>3. OwnAnswer(s, s6', s8, s11)
    BY <1>0, <1>t, <2>1, <2>2 DEF OwnAnswer
  <2> QED BY <1>1, <2>1, <2>2, <2>3
<1>5. ASSUME NEW p \in Procs, Social!StoreToken(p) PROVE SocialInv'
  <2>1. /\ s4' = [s4 EXCEPT ![p] = Social!Idle] /\ s3' = s3 \cup {s4[p].urn}
        /\ UNCHANGED <<s1, s2, s6, s7, s8, s9, s10, s11>>
    BY <1>5 DEF Social!StoreToken, Social!Step
  <2> QED BY <1>1, <1>t, <2>1, IdleSocial
<1>6. ASSUME NEW p \in Procs, Social!BreakOff(p) PROVE SocialInv'
  <2>1. /\ s4' = [s4 EXCEPT ![p] = Social!Idle] /\ s9' = (s9 \/ s4[p].pc = "store")
        /\ UNCHANGED <<s1, s2, s3, s6, s7, s8, s10, s11>>
    BY <1>6 DEF Social!BreakOff
  <2>2. OwnAnswer(Social!Idle, s6', s8', s11')
    BY <1>t, <2>1, IdleSocial
  <2>3. /\ s8 \subseteq s8' /\ s11' \in Nat /\ s11 <= s11' /\ s6' \in SUBSET (Nat \X Profiles \X BOOLEAN)
        /\ s7' \in BOOLEAN /\ s9' \in BOOLEAN /\ s10' \in BOOLEAN /\ (s7' => s7)
    BY <1>t, <2>1
  <2>4. \A page \in s6' : page[1] <= s11'
    BY <1>0, <2>1
  <2>5. \A page \in s6' \ s6 : page[1] > s11
    BY <2>1
  <2>6. \/ s9'
        \/ s10'
        \/ ~ s9 /\ ~ s10 /\ s3 \subseteq s3' /\ (s4[p].pc = "store" => s4[p].urn \in s3')
    BY <1>t, <2>1
  <2> QED BY <1>6, <2>1, <2>2, <2>3, <2>4, <2>5, <2>6, IdleSocial, OneLogin
<1>7. ASSUME NEW p \in Procs, Social!WriteConfig(p) PROVE SocialInv'
  <2> DEFINE s == [s4[p] EXCEPT !.pc = "store"]
             f == s4[p].profile
             new == [handle |-> IF s4[p].read[f] = Social!NoEntry THEN "" ELSE s4[p].read[f].handle,
                     urn |-> s4[p].urn]
  <2>1. /\ s4[p].pc = "write" /\ s4' = [s4 EXCEPT ![p] = s]
        /\ s1' = [s4[p].read EXCEPT ![f] = new]
        /\ s10' = (s10 \/ s1 # s4[p].read) /\ s7' = FALSE
        /\ UNCHANGED <<s2, s3, s6, s8, s9, s11>>
    BY <1>7 DEF Social!WriteConfig, Social!Step, Social!Updated
  <2>2. /\ f \in Profiles /\ <<f, s4[p].urn>> \in s8 /\ s4[p].urn \in Accounts \cup {"none"}
        /\ s4[p].read \in Registries /\ Owned(s4[p].read, s8)
    BY <1>0, <2>1 DEF OwnAnswer, SocialSessions
  <2>3. new \in ProfileEntries /\ new.urn = s4[p].urn
    BY <2>2 DEF ProfileEntries, Registries
  <2>4. /\ s \in SocialSessions /\ s.pc = "store" /\ s.urn = s4[p].urn /\ s.profile = f
        /\ s.login = s4[p].login
    BY <1>0 DEF SocialSessions
  <2> HIDE DEF s, new
  <2>5. OwnAnswer(s, s6', s8', s11')
    BY <1>0, <2>1, <2>2, <2>4 DEF OwnAnswer
  <2>6. /\ s4' \in [Procs -> SocialSessions] /\ s4'[p] = s
        /\ \A q \in Procs \ {p} : s4'[q] = s4[q]
    BY <1>0, <2>1, <2>4 DEF SocialTyped
  <2>7. \A q \in Procs : OwnAnswer(s4'[q], s6', s8', s11')
    BY <1>0, <2>1, <2>5, <2>6
  <2>8. /\ s1' \in Registries /\ s1'[f] = new
        /\ \A g \in Profiles \ {f} : s1'[g] = s4[p].read[g]
    BY <2>1, <2>2, <2>3 DEF Registries
  <2>9. Owned(s1', s8')
    BY <2>1, <2>2, <2>3, <2>8 DEF Owned
  <2>10. ~ s9' /\ ~ s10' => TokensFollow'
    <3> SUFFICES ASSUME ~ s9, ~ s10, s1 = s4[p].read, NEW g \in Profiles, s1'[g] # Social!NoEntry,
                        s1'[g].urn \notin s3
                 PROVE  \E q \in Procs : s4'[q].pc = "store" /\ s4'[q].urn = s1'[g].urn
      BY <2>1 DEF TokensFollow, Social!NoEntry
    <3>1. CASE g = f
      BY <2>3, <2>4, <2>6, <2>8, <3>1
    <3>2. CASE g # f
      <4>1. s1[g] = s1'[g]
        BY <2>8, <3>2
      <4>2. PICK q \in Procs : s4[q].pc = "store" /\ s4[q].urn = s1'[g].urn
        BY <4>1 DEF SocialInv, TokensFollow
      <4>3. q # p
        BY <2>1, <4>2
      <4> QED BY <2>6, <4>2, <4>3
    <3> QED BY <3>1, <3>2
  <2>11. SocialTyped'
    BY <1>0, <1>t, <2>1, <2>6, <2>8 DEF SocialTyped
  <2>12. Owned(s2', s8') /\ \A page \in s6' : page[1] <= s11'
    BY <1>0, <2>1
  <2> QED BY <2>1, <2>7, <2>9, <2>10, <2>11, <2>12 DEF SocialInv
<1>8. CASE Social!Check
  <2>1. /\ UNCHANGED <<s1, s2, s3, s4, s6, s8, s9, s10, s11>>
        /\ s7' \in BOOLEAN /\ (s7' => Social!Errors = {})
    BY <1>8 DEF Social!Check
  <2>2. s7' => Social!Errors' = {}
    BY <2>1, ErrorsStay
  <2>3. (~ s9 /\ ~ s10 => TokensFollow) => (~ s9' /\ ~ s10' => TokensFollow')
    BY <2>1 DEF TokensFollow, Social!NoEntry
  <2> QED BY <2>1, <2>2, <2>3 DEF SocialInv, SocialTyped, OwnAnswer, Owned
<1>9. CASE UNCHANGED <<s1, s2, s3, s4, s5, s6, s7, s8, s9, s10, s11>>
  <2>1. s7' => Social!Errors' = {}
    BY <1>9, ErrorsStay DEF SocialInv
  <2>2. (~ s9 /\ ~ s10 => TokensFollow) => (~ s9' /\ ~ s10' => TokensFollow')
    BY <1>9 DEF TokensFollow, Social!NoEntry
  <2> QED BY <1>9, <2>1, <2>2 DEF SocialInv, SocialTyped, OwnAnswer, Owned
<1> QED BY <1>2, <1>3, <1>4, <1>5, <1>6, <1>7, <1>8, <1>9 DEF Social!Next

LEMMA OwnProfiles == SocialInv => Social!ProfilesAreTheirOwn
<1> SUFFICES ASSUME SocialInv PROVE Social!ProfilesAreTheirOwn
  OBVIOUS
<1>1. Social!Registry = s1 \/ Social!Registry = s2
  BY DEF Social!Registry
<1>2. ASSUME NEW f \in Profiles PROVE <<f, Social!Account(f)>> \in s8 \/ Social!Account(f) = "none"
  BY <1>1 DEF SocialInv, Owned, Social!Account
<1>3. ASSUME ~ s9, ~ s10, NEW f \in Profiles, s1[f] # Social!NoEntry
      PROVE  s1[f].urn \in s3 \cup {s4[p].urn : p \in Procs}
  BY <1>3 DEF SocialInv, TokensFollow
<1>4. ASSUME s7, NEW f \in Profiles, NEW g \in Profiles, f # g
      PROVE  Social!Account(f) # Social!Account(g) \/ Social!Account(f) = "none"
  <2>1. <<f, g>> \notin Social!Errors
    BY <1>4 DEF SocialInv
  <2>2. \/ Social!NoEntry \in {Social!Registry[f], Social!Registry[g]}
        \/ Social!Registry[f].urn # Social!Registry[g].urn
    BY <1>4, <2>1 DEF Social!Errors
  <2> QED BY <2>2 DEF Social!Account, Social!NoEntry
<1> QED BY <1>2, <1>3, <1>4 DEF Social!ProfilesAreTheirOwn

\* What the cache records is what was allowed (merge_scopes), and a profile publishes only with
\* an account that was let in for it (the state check of social/auth.rs), through any overlap
\* of logins and with every login that breaks off.
THEOREM LoginsGetTheirOwn == WorkspaceSpec => []LoginsAreAsGranted
<1> DEFINE I == /\ part = "login" => LoginInv
                /\ part = "social" => SocialInv
<1>1. WorkspaceInit => I
  BY LoginStarts, SocialStarts
<1>2. I /\ [WorkspaceNext]_wsVars => I'
  <2>1. [WorkspaceNext]_wsVars => part' = part
    BY DEF WorkspaceNext, wsVars
  <2> QED BY <2>1, LoginMoves, LoginStep, SocialMoves, SocialStep
<1>3. I => LoginsAreAsGranted
  <2>1. LoginInv => Login!ScopesAreGranted
    BY DEF LoginInv, IsGranted, Login!ScopesAreGranted
  <2> QED BY <2>1, OwnProfiles DEF LoginsAreAsGranted
<1> QED BY <1>1, <1>2, <1>3, PTL DEF WorkspaceSpec


-----------------------------------------------------------------------------
(* The shared mailboxes *)

\* What a regular command has left between its two steps: the directories are what the
\* configuration will be.
Ahead ==
    s1 = IF s4 = Boxes!NoCommand THEN s2
         ELSE IF s4.op = "add" THEN s2 \cup {s4.name}
         ELSE IF s4.op = "rename" THEN Boxes!Replaced(s2, s4.name, s4.to)
         ELSE s2 \ {s4.name}

\* A sync and a command that overlap are irregular, so otherwise the routes of a sync are
\* directories, and nobody renames or removes them before it ends.
BoxesInv ==
    /\ s3 \in [UserLabels -> SUBSET s2]
    /\ (s4 = Boxes!NoCommand \/ s4.op \in {"add", "rename", "remove"})
    /\ s6 \in BOOLEAN
    /\ ~ s6 => Ahead /\ (s5 = {} \/ (s4 = Boxes!NoCommand /\ s5 \subseteq s1))

LEMMA BoxesMove ==
    ASSUME part = "mailboxes", [WorkspaceNext]_wsVars
    PROVE  part' = part /\ (Boxes!Next \/ UNCHANGED <<s1, s2, s3, s4, s5, s6, s7>>)
BY DEF WorkspaceNext, wsVars, registers

LEMMA NoCommandOp == Boxes!NoCommand.op = "none"
BY DEF Boxes!NoCommand

LEMMA BoxesStart == WorkspaceInit /\ part = "mailboxes" => BoxesInv
<1> SUFFICES ASSUME WorkspaceInit, part = "mailboxes"
             PROVE  BoxesInv
  OBVIOUS
<1>1. Boxes!Init
  BY DEF WorkspaceInit, PartInit
<1> QED BY <1>1 DEF Boxes!Init, BoxesInv, Ahead

\* A command as Start leaves it; regular commands are given their names in lower case.
LEMMA CommandStarts ==
    ASSUME BoxesInv, NEW op \in {"add", "rename", "remove"}, NEW n \in BoxNames, NEW to \in BoxNames,
           NEW ls, Boxes!Start(op, n, to, ls),
           LowerCase[n] = n /\ LowerCase[to] = to =>
               s1' = IF op = "add" THEN s1 \cup {n}
                     ELSE IF op = "rename" THEN Boxes!Replaced(s1, n, to)
                     ELSE s1 \ {n}
    PROVE  BoxesInv'
<1>1. /\ s4 = Boxes!NoCommand /\ s4'.op = op /\ s4'.name = n /\ s4'.to = to /\ UNCHANGED <<s2, s3, s5>>
      /\ s6' = (s6 \/ s5 # {} \/ {n, to} # {LowerCase[n], LowerCase[to]})
  BY DEF Boxes!Start
<1>2. s4' # Boxes!NoCommand
  BY <1>1, NoCommandOp
<1>3. {n, to} = {LowerCase[n], LowerCase[to]} => LowerCase[n] = n /\ LowerCase[to] = to
  BY LowerAssumption
<1>4. ~ s6' => s5 = {} /\ ~ s6 /\ LowerCase[n] = n /\ LowerCase[to] = to
  BY <1>1, <1>3
<1>5. ~ s6' => Ahead'
  <2> SUFFICES ASSUME ~ s6' PROVE Ahead'
    OBVIOUS
  <2>1. s1 = s2
    BY <1>1, <1>4 DEF BoxesInv, Ahead
  <2> QED BY <1>1, <1>2, <1>4, <2>1 DEF Ahead, Boxes!Replaced, Boxes!NoCommand
<1> QED BY <1>1, <1>4, <1>5 DEF BoxesInv

\* A command that ends as it was begun.
LEMMA CommandEnds ==
    ASSUME BoxesInv, NEW op \in {"add", "rename", "remove"}, NEW tables, NEW table \in [UserLabels -> SUBSET tables],
           Boxes!Configure(op, tables, table),
           tables = IF op = "add" THEN s2 \cup {s4.name}
                    ELSE IF op = "rename" THEN Boxes!Replaced(s2, s4.name, s4.to)
                    ELSE s2 \ {s4.name}
    PROVE  BoxesInv'
<1>1. s4.op = op /\ s2' = tables /\ s3' = table /\ s4' = Boxes!NoCommand /\ UNCHANGED <<s1, s5, s6>>
  BY DEF Boxes!Configure
<1>2. s4 # Boxes!NoCommand
  BY <1>1, NoCommandOp
<1>3. ~ s6 => s1 = tables /\ s5 = {}
  BY <1>1, <1>2 DEF BoxesInv, Ahead
<1>4. ~ s6' => Ahead'
  BY <1>1, <1>3 DEF Ahead, Boxes!NoCommand
<1> QED BY <1>1, <1>3, <1>4 DEF BoxesInv, Boxes!NoCommand

LEMMA BoxesStep ==
    ASSUME BoxesInv, Boxes!Next \/ UNCHANGED <<s1, s2, s3, s4, s5, s6, s7>>
    PROVE  BoxesInv'
<1>0. /\ s3 \in [UserLabels -> SUBSET s2] /\ s6 \in BOOLEAN
      /\ \A n \in BoxNames : LowerCase[n] \in BoxNames /\ LowerCase[LowerCase[n]] = LowerCase[n]
  BY LowerAssumption DEF BoxesInv
<1>1. ASSUME NEW n \in BoxNames, NEW ls, Boxes!Add(n, ls) PROVE BoxesInv'
  <2>1. s1' = s1 \cup {LowerCase[n]} /\ Boxes!Start("add", LowerCase[n], LowerCase[n], ls)
    BY <1>1 DEF Boxes!Add, Boxes!Dir
  <2> QED BY <1>0, <2>1, CommandStarts
<1>2. ASSUME NEW n \in BoxNames, NEW to \in BoxNames, Boxes!Rename(n, to) PROVE BoxesInv'
  <2>1. LowerCase[n] = n /\ LowerCase[to] = to => s1' = Boxes!Replaced(s1, n, to)
    BY <1>2 DEF Boxes!Rename, Boxes!Dir, Boxes!Replaced
  <2>2. Boxes!Start("rename", n, to, {})
    BY <1>2 DEF Boxes!Rename
  <2> QED BY <2>1, <2>2, CommandStarts
<1>3. ASSUME NEW n \in BoxNames, Boxes!Remove(n) PROVE BoxesInv'
  <2>1. LowerCase[n] = n => s1' = s1 \ {n}
    BY <1>3 DEF Boxes!Remove, Boxes!Dir
  <2>2. Boxes!Start("remove", n, n, {})
    BY <1>3 DEF Boxes!Remove
  <2> QED BY <2>1, <2>2, CommandStarts
<1>4. CASE Boxes!ConfigAdd
  <2> DEFINE table == [l \in UserLabels |-> IF l \in s4.labels THEN s3[l] \cup {s4.name} ELSE s3[l]]
  <2>1. Boxes!Configure("add", s2 \cup {s4.name}, table)
    BY <1>4 DEF Boxes!ConfigAdd
  <2>2. table \in [UserLabels -> SUBSET (s2 \cup {s4.name})]
    BY <1>0
  <2> QED BY <2>1, <2>2, CommandEnds
<1>5. CASE Boxes!ConfigRename
  <2> DEFINE table == [l \in UserLabels |-> Boxes!Replaced(s3[l], s4.name, s4.to)]
  <2>1. Boxes!Configure("rename", Boxes!Replaced(s2, s4.name, s4.to), table)
    BY <1>5 DEF Boxes!ConfigRename
  <2>2. ASSUME NEW l \in UserLabels PROVE Boxes!Replaced(s3[l], s4.name, s4.to) \subseteq Boxes!Replaced(s2, s4.name, s4.to)
    BY <1>0 DEF Boxes!Replaced
  <2>3. table \in [UserLabels -> SUBSET Boxes!Replaced(s2, s4.name, s4.to)]
    BY <2>2
  <2> QED BY <2>1, <2>3, CommandEnds
<1>6. CASE Boxes!ConfigRemove
  <2> DEFINE table == [l \in UserLabels |-> s3[l] \ {s4.name}]
  <2>1. Boxes!Configure("remove", s2 \ {s4.name}, table)
    BY <1>6 DEF Boxes!ConfigRemove
  <2>2. table \in [UserLabels -> SUBSET (s2 \ {s4.name})]
    BY <1>0
  <2> QED BY <2>1, <2>2, CommandEnds
<1>7. CASE Boxes!BreakOff
  BY <1>0, <1>7 DEF Boxes!BreakOff, BoxesInv
<1>8. CASE Boxes!LoadRoutes
  <2>1. /\ s5 = {} /\ s5' = UNION {s3[l] : l \in UserLabels} /\ UNCHANGED <<s1, s2, s3, s4>>
        /\ s6' = (s6 \/ (s5' # {} /\ s4 # Boxes!NoCommand))
    BY <1>8 DEF Boxes!LoadRoutes
  <2>2. s5' \subseteq s2
    BY <1>0, <2>1
  <2>3. ~ s6' => Ahead /\ (s5' = {} \/ s4 = Boxes!NoCommand)
    BY <2>1 DEF BoxesInv
  <2>4. Ahead /\ s4 = Boxes!NoCommand => s1 = s2
    BY DEF Ahead
  <2>5. Ahead => Ahead'
    BY <2>1 DEF Ahead, Boxes!NoCommand, Boxes!Replaced
  <2> QED BY <1>0, <2>1, <2>2, <2>3, <2>4, <2>5 DEF BoxesInv, Boxes!NoCommand
<1>9. ASSUME NEW n \in BoxNames, Boxes!MergeInto(n) PROVE BoxesInv'
  <2>1. n \in s5 /\ s1' = s1 \cup {n} /\ UNCHANGED <<s2, s3, s4, s5, s6>>
    BY <1>9 DEF Boxes!MergeInto
  <2>2. ~ s6 => s1' = s1
    BY <2>1 DEF BoxesInv
  <2>3. Ahead /\ s1' = s1 => Ahead'
    BY <2>1 DEF Ahead, Boxes!NoCommand, Boxes!Replaced
  <2> QED BY <2>1, <2>2, <2>3 DEF BoxesInv, Boxes!NoCommand
<1>10. CASE Boxes!SyncEnds
  <2>1. s5' = {} /\ UNCHANGED <<s1, s2, s3, s4, s6>>
    BY <1>10 DEF Boxes!SyncEnds
  <2>2. Ahead => Ahead'
    BY <2>1 DEF Ahead, Boxes!NoCommand, Boxes!Replaced
  <2> QED BY <2>1, <2>2 DEF BoxesInv, Boxes!NoCommand
<1>11. CASE UNCHANGED <<s1, s2, s3, s4, s5, s6, s7>>
  <2>1. Ahead => Ahead'
    BY <1>11 DEF Ahead, Boxes!NoCommand, Boxes!Replaced
  <2> QED BY <1>11, <2>1 DEF BoxesInv, Boxes!NoCommand
<1> QED BY <1>1, <1>2, <1>3, <1>4, <1>5, <1>6, <1>7, <1>8, <1>9, <1>10, <1>11 DEF Boxes!Next

\* Routes never name a mailbox that .corky.toml does not have, and unless a command broke off,
\* met a sync or was given capitals, the directories are those of the mailboxes
\* (mailbox/add.rs, rename.rs and remove.rs).
THEOREM MailboxNamesAgree == WorkspaceSpec => []NamesAgree
<1> DEFINE I == part = "mailboxes" => BoxesInv
<1>1. WorkspaceInit => I
  BY BoxesStart
<1>2. I /\ [WorkspaceNext]_wsVars => I'
  <2>1. [WorkspaceNext]_wsVars => part' = part
    BY DEF WorkspaceNext, wsVars
  <2> QED BY <2>1, BoxesMove, BoxesStep
<1>3. I => NamesAgree
  BY DEF NamesAgree, Boxes!NamesAgree, Boxes!RoutesAreConfigured, Boxes!DirectoriesMatch, BoxesInv, Ahead
<1> QED BY <1>1, <1>2, <1>3, PTL DEF WorkspaceSpec


-----------------------------------------------------------------------------
(* The filters of Gmail *)

Ids(g) == {e[1] : e \in g}

\* The filters in g are those of fs, each once.
EachOnce(g, fs) ==
    /\ {e[2] : e \in g} = fs
    /\ \A e, d \in g : e[2] = d[2] => e = d

\* A push that nobody disturbs deletes all that is there before it creates the first filter.
Replacing ==
    /\ s8 \subseteq s5
    /\ s7 # {} => s8 = s5 /\ s7 = Ids(s2)
    /\ s7 = {} => EachOnce(s2, s5 \ s8)

FilterInv ==
    /\ s10 \in Nat /\ IsFiniteSet(s2) /\ s9 \in BOOLEAN
    /\ s4 \in {"idle", "labels", "delete"}
    /\ s4 = "labels" => ~ s9
    /\ s4 = "delete" /\ s9 => Replacing
    /\ s4 = "idle" /\ s9 => EachOnce(s2, s5)

LEMMA FilterMoves ==
    ASSUME part = "filters", [WorkspaceNext]_wsVars
    PROVE  part' = part /\ (Filters!Next \/ UNCHANGED <<s1, s2, s3, s4, s5, s6, s7, s8, s9, s10, s11>>)
BY DEF WorkspaceNext, wsVars, registers

LEMMA FilterStarts == WorkspaceInit /\ part = "filters" => FilterInv
<1> SUFFICES ASSUME WorkspaceInit, part = "filters"
             PROVE  FilterInv
  OBVIOUS
<1>1. Filters!Init
  BY DEF WorkspaceInit, PartInit
<1> QED BY <1>1, FS_EmptySet DEF Filters!Init, FilterInv

\* Filters that are there each once are as many as there are different ones.
LEMMA AsMany ==
    ASSUME NEW g, IsFiniteSet(g), NEW fs, EachOnce(g, fs)
    PROVE  Cardinality(g) = Cardinality(fs)
<1> DEFINE f == [e \in g |-> e[2]]
<1>1. f \in [g -> fs] /\ \A e, d \in g : f[e] = f[d] => e = d
  BY DEF EachOnce
<1>2. \A x \in fs : \E e \in g : f[e] = x
  BY DEF EachOnce
<1> HIDE DEF f
<1>3. f \in Bijection(g, fs)
  BY <1>1, <1>2 DEF Bijection, Injection, Surjection, IsInjective
<1> QED BY <1>3, FS_Bijection DEF ExistsBijection

LEMMA MadeStaysFinite ==
    ASSUME FilterInv, NEW f, Filters!Make(f)
    PROVE  s10' \in Nat /\ s2' = s2 \cup {<<s10', f>>} /\ IsFiniteSet(s2')
<1>1. s10' \in Nat /\ s2' = s2 \cup {<<s10', f>>} /\ IsFiniteSet(s2)
  BY DEF Filters!Make, FilterInv
<1> QED BY <1>1, FS_AddElement

LEMMA FilterStep ==
    ASSUME FilterInv, Filters!Next \/ UNCHANGED <<s1, s2, s3, s4, s5, s6, s7, s8, s9, s10, s11>>
    PROVE  FilterInv'
<1>0. s10 \in Nat /\ IsFiniteSet(s2) /\ s9 \in BOOLEAN
  BY DEF FilterInv
<1>1. CASE Filters!Begin
  BY <1>0, <1>1 DEF Filters!Begin, FilterInv
<1>2. CASE Filters!FetchExisting
  <2>1. /\ s4 = "labels" /\ s4' = "delete" /\ s8' = s5 /\ s7' = Ids(s2) /\ s9' = TRUE
        /\ UNCHANGED <<s2, s5, s10>>
    BY <1>2 DEF Filters!FetchExisting, Ids
  <2>2. s7' = {} => s2' = {} /\ s5' \ s8' = {}
    BY <2>1 DEF Ids
  <2>3. s7' = Ids(s2') /\ s8' = s5'
    BY <2>1 DEF Ids
  <2>4. Replacing'
    BY <2>2, <2>3 DEF Replacing, EachOnce
  <2> QED BY <1>0, <2>1, <2>4 DEF FilterInv
<1>3. CASE Filters!Done
  <2>1. /\ s4 = "delete" /\ s7 = {} /\ s8 = {} /\ s4' = "idle" /\ UNCHANGED <<s2, s5, s9, s10>>
    BY <1>3 DEF Filters!Done
  <2>2. s9 => EachOnce(s2', s5')
    BY <2>1 DEF FilterInv, Replacing
  <2> QED BY <1>0, <2>1, <2>2 DEF FilterInv, EachOnce
<1>4. CASE Filters!Fail
  <2>1. /\ s4' = "idle" /\ s9' = FALSE
        /\ \/ UNCHANGED <<s2, s10>>
           \/ \E f \in s8 : Filters!Make(f)
           \/ \E i \in s7 : s2' = {e \in s2 : e[1] # i} /\ s10' = s10
    BY <1>4 DEF Filters!Fail
  <2>2. CASE UNCHANGED <<s2, s10>>
    BY <1>0, <2>1, <2>2 DEF FilterInv
  <2>3. CASE \E f \in s8 : Filters!Make(f)
    BY <2>1, <2>3, MadeStaysFinite DEF FilterInv
  <2>4. CASE \E i \in s7 : s2' = {e \in s2 : e[1] # i} /\ s10' = s10
    <3>1. s2' \in SUBSET s2
      BY <2>4
    <3> QED BY <1>0, <2>1, <2>4, <3>1, FS_Subset DEF FilterInv
  <2> QED BY <2>1, <2>2, <2>3, <2>4
<1>5. ASSUME NEW l \in UserLabels, Filters!EnsureLabel(l) PROVE FilterInv'
  BY <1>0, <1>5 DEF Filters!EnsureLabel, FilterInv
<1>6. ASSUME NEW i \in 1..MaxFilters, Filters!DeleteFilter(i) PROVE FilterInv'
  <2> DEFINE there == {e \in s2 : e[1] = i}
  <2>1. /\ s4 = "delete" /\ i \in s7 /\ s2' = s2 \ there /\ UNCHANGED <<s5, s8, s9, s10>>
        /\ IF there = {} THEN s4' = "idle" /\ s7' = s7 ELSE s7' = s7 \ {i} /\ s4' = s4
    BY <1>6 DEF Filters!DeleteFilter
  <2>2. IsFiniteSet(s2')
    <3>1. s2' \in SUBSET s2
      BY <2>1
    <3> QED BY <1>0, <3>1, FS_Subset
  <2>3. s9 => there # {}
    BY <2>1 DEF FilterInv, Replacing, Ids
  <2>4. s9 => Replacing'
    <3> SUFFICES ASSUME s9 PROVE Replacing'
      OBVIOUS
    <3>1. s8 = s5 /\ s7 = Ids(s2)
      BY <2>1 DEF FilterInv, Replacing
    <3>2. s7' = Ids(s2') /\ s8' = s5'
      BY <2>1, <2>3, <3>1 DEF Ids
    <3>3. s7' = {} => s2' = {}
      BY <3>2 DEF Ids
    <3> QED BY <3>2, <3>3 DEF Replacing, EachOnce
  <2> QED BY <1>0, <2>1, <2>2, <2>3, <2>4 DEF FilterInv
<1>7. ASSUME NEW f, Filters!CreateFilter(f) PROVE FilterInv'
  <2>1. /\ s4 = "delete" /\ s7 = {} /\ f \in s8 /\ s8' = s8 \ {f} /\ Filters!Make(f)
        /\ UNCHANGED <<s4, s5, s7, s9>>
    BY <1>7 DEF Filters!CreateFilter
  <2>2. s10' \in Nat /\ s2' = s2 \cup {<<s10', f>>} /\ IsFiniteSet(s2')
    BY <2>1, MadeStaysFinite
  <2>3. s9 => Replacing'
    <3> SUFFICES ASSUME s9 PROVE Replacing'
      OBVIOUS
    <3>1. s8 \subseteq s5 /\ EachOnce(s2, s5 \ s8)
      BY <2>1 DEF FilterInv, Replacing
    <3>2. \A e \in s2 : e[2] # f
      BY <2>1, <3>1 DEF EachOnce
    <3>3. s5' \ s8' = (s5 \ s8) \cup {f}
      BY <2>1, <3>1
    <3>4. EachOnce(s2', s5' \ s8')
      <4>1. <<s10', f>>[2] = f
        OBVIOUS
      <4>2. {e[2] : e \in s2'} = {e[2] : e \in s2} \cup {f}
        BY <2>2, <4>1
      <4> QED BY <2>2, <3>1, <3>2, <3>3, <4>1, <4>2 DEF EachOnce
    <3> QED BY <2>1, <3>1, <3>4 DEF Replacing
  <2> QED BY <1>0, <2>1, <2>2, <2>3 DEF FilterInv
<1>8. ASSUME NEW f, Filters!Configure(f) PROVE FilterInv'
  <2>1. UNCHANGED <<s2, s4, s5, s7, s8, s9, s10>> /\ s4 = "idle"
    BY <1>8 DEF Filters!Configure, Filters!push
  <2> QED BY <2>1 DEF FilterInv, EachOnce
<1>9. ASSUME NEW f, Filters!WebCreate(f) PROVE FilterInv'
  <2>1. s4' = s4 /\ s9' = FALSE /\ Filters!Make(f)
    BY <1>9 DEF Filters!WebCreate, Filters!push
  <2> QED BY <2>1, MadeStaysFinite DEF FilterInv
<1>10. ASSUME NEW e, Filters!WebDelete(e) PROVE FilterInv'
  <2>1. s4' = s4 /\ s9' = FALSE /\ s2' = s2 \ {e} /\ s10' = s10
    BY <1>10 DEF Filters!WebDelete, Filters!push
  <2> QED BY <1>0, <2>1, FS_RemoveElement DEF FilterInv
<1>11. CASE UNCHANGED <<s1, s2, s3, s4, s5, s6, s7, s8, s9, s10, s11>>
  <2>1. Replacing => Replacing'
    BY <1>11 DEF Replacing, EachOnce, Ids
  <2> QED BY <1>11, <2>1 DEF FilterInv, EachOnce
<1> QED BY <1>1, <1>2, <1>3, <1>4, <1>5, <1>6, <1>7, <1>8, <1>9, <1>10, <1>11 DEF Filters!Next

\* The instance has a Cardinality of its own.
LEMMA SameCardinality == \A S : Filters!Cardinality(S) = Cardinality(S)
BY DEF Filters!Cardinality, Cardinality

LEMMA Replaced ==
    ASSUME FilterInv
    PROVE  Filters!PushReplacesAll
<1> SUFFICES ASSUME s4 = "idle", s9
             PROVE  /\ {e[2] : e \in s2} = s5
                    /\ Cardinality(s2) = Cardinality(s5)
                    /\ s1 = s5 => Filters!InSync
  BY SameCardinality DEF Filters!PushReplacesAll
<1>1. EachOnce(s2, s5) /\ IsFiniteSet(s2)
  BY DEF FilterInv
<1>2. Cardinality(s2) = Cardinality(s5)
  BY <1>1, AsMany
<1>3. {e[2] : e \in s2} = s5
  BY <1>1 DEF EachOnce
<1>4. {f.match : f \in s5} = {e[2].match : e \in s2}
  BY <1>3
<1> QED BY <1>2, <1>3, <1>4 DEF Filters!InSync

\* However earlier pushes broke off, one that comes through, and that nobody disturbs between
\* its fetch and its end, leaves each configured filter once and nothing else (filter/push.rs).
THEOREM FiltersAreReplaced == WorkspaceSpec => []PushReplacesAll
<1> DEFINE I == part = "filters" => FilterInv
<1>1. WorkspaceInit => I
  BY FilterStarts
<1>2. I /\ [WorkspaceNext]_wsVars => I'
  <2>1. [WorkspaceNext]_wsVars => part' = part
    BY DEF WorkspaceNext, wsVars
  <2> QED BY <2>1, FilterMoves, FilterStep
<1>3. I => PushReplacesAll
  BY Replaced DEF PushReplacesAll
<1> QED BY <1>1, <1>2, <1>3, PTL DEF WorkspaceSpec


-----------------------------------------------------------------------------
(* The copies of a contact *)

Files == {"root", "team"}
Other(x) == IF x = "root" THEN "team" ELSE "root"

CopyTyped ==
    /\ s1 \in [Files -> Int] /\ s2 \in [Files -> Nat]
    /\ s4 \in [{"team"} -> Int] /\ s5 \in [{"team"} -> Int]
    /\ s9 \in Nat /\ s10 \in Int /\ s11 \in BOOLEAN /\ s12 \in Nat
    /\ \A x \in Files : s1[x] <= s12 /\ s2[x] <= s12 /\ (s1[x] = 0 <=> s2[x] = 0)
    /\ s4["team"] <= s12 /\ s5["team"] <= s12 /\ s9 <= s12

\* A file that was there when the run looked is still there.
RunTyped ==
    /\ s8.step \in {"none", "save", "look", "compare", "write", "stamp"}
    /\ s8.step = "none" => s8 = Synced!None
    /\ s8.step = "save" => s8 = Synced!Save
    /\ s8.step \notin {"none", "save"} => s8.at = 1
    /\ s8.step \in {"look", "compare"} /\ s9 # 0 => s1["root"] # 0
    /\ s8.step = "compare" => s8.seen \in 0..s12 /\ (s8.seen # 0 => s1["team"] # 0)
    /\ s8.step \in {"write", "stamp"} =>
         /\ s8 = [step |-> s8.step, at |-> 1, to |-> s8.to, text |-> s8.text, time |-> s8.time]
         /\ s8.to \in Files /\ s8.time \in 1..s12
         /\ s8.text \in Int /\ s8.text # 0 /\ s8.text <= s12
    /\ s8.step = "stamp" => s1[s8.to] # 0

\* The side that has the later time has the newest text, and unless both have it, it is not the
\* one whose hash was saved: so neither the hashes nor the times take the other for newer.
EditsTell ==
    /\ s2["root"] >= s2["team"] => s10 = s1["root"]
    /\ s2["root"] <= s2["team"] => s10 = s1["team"]
    /\ s1["root"] # s1["team"] => s10 # s4["team"]

\* What the run has read is still so; what it copies is the newest text.
RunTells ==
    /\ s8.step # "none" => s6 = s4
    /\ s8.step \in {"look", "compare", "write", "stamp"} => s5 = s4
    /\ s8.step \in {"look", "compare"} => s9 = s2["root"]
    /\ s8.step = "compare" => s8.seen = s2["team"]
    /\ s8.step \in {"write", "stamp"} =>
         s8.text = s10 /\ s8.text = s1[Other(s8.to)] /\ s8.time = s2[Other(s8.to)]
    /\ s8.step = "stamp" => s1["root"] = s1["team"]
    /\ s8.step = "save" => s10 = s1["root"] /\ (s5["team"] = s4["team"] \/ s1["root"] = s1["team"])

CopyInv == CopyTyped /\ RunTyped /\ (~ s11 => EditsTell /\ RunTells)

LEMMA CopyMoves ==
    ASSUME part = "contacts", [WorkspaceNext]_wsVars
    PROVE  part' = part /\ (Synced!Next \/ UNCHANGED <<s1, s2, s3, s4, s5, s6, s7, s8, s9, s10, s11, s12>>)
BY DEF WorkspaceNext, wsVars, registers

LEMMA OneMailbox ==
    /\ Synced!Mailboxes = {"team"} /\ Synced!Places = Files /\ Synced!Root = "root"
    /\ <<"team">>[1] = "team"
    /\ Synced!After(0) = [step |-> "look", at |-> 1] /\ Synced!After(1) = Synced!Save
    /\ Synced!None = [step |-> "none"] /\ Synced!Save = [step |-> "save"]
    /\ Synced!Empty = -1
<1>1. DOMAIN <<"team">> = {1} /\ Len(<<"team">>) = 1 /\ <<"team">>[1] = "team"
  OBVIOUS
<1> QED BY <1>1 DEF Synced!Mailboxes, Synced!Places, Synced!Root, Synced!After, Synced!None,
                    Synced!Save, Synced!Empty, Files

LEMMA CopyStarts == WorkspaceInit /\ part = "contacts" => CopyInv
<1> SUFFICES ASSUME WorkspaceInit, part = "contacts"
             PROVE  CopyInv
  OBVIOUS
<1>1. Synced!Init
  BY DEF WorkspaceInit, PartInit
<1>2. /\ s1 = [x \in Files |-> 0] /\ s2 = [x \in Files |-> 0]
      /\ s4 = [b \in {"team"} |-> 0] /\ s5 = [b \in {"team"} |-> 0]
      /\ s8 = Synced!None /\ s9 = 0 /\ s10 = 0 /\ s11 \in BOOLEAN /\ s12 = 0
  BY <1>1, OneMailbox DEF Synced!Init
<1>3. CopyTyped
  BY <1>2 DEF CopyTyped
<1>4. s8.step = "none"
  BY <1>2, OneMailbox
<1>5. RunTyped
  BY <1>2, <1>4 DEF RunTyped
<1>6. EditsTell /\ RunTells
  BY <1>2, <1>4 DEF EditsTell, RunTells, Files
<1> QED BY <1>3, <1>5, <1>6 DEF CopyInv

\* The run has decided to write the text of one place to the other.
LEMMA CopyBegins ==
    ASSUME CopyInv, s8.step = "compare", NEW to \in Files, NEW time \in 1..s12,
           Synced!Copies(Other(to), to, time), s1[Other(to)] # 0,
           ~ s11 => s10 = s1[Other(to)] /\ time = s2[Other(to)],
           UNCHANGED <<s1, s2, s3, s4, s6, s7, s9, s10, s11, s12>>
    PROVE  CopyInv'
<1>1. Other(to) \in Files
  BY DEF Other, Files
<1> DEFINE t == s1[Other(to)]
<1>2. t \in Int /\ t # 0 /\ t <= s12
  BY <1>1 DEF CopyInv, CopyTyped
<1>3. s8' = [step |-> "write", at |-> 1, to |-> to, text |-> t, time |-> time] /\ s5' = s5
  BY DEF Synced!Copies, CopyInv, RunTyped
<1> HIDE DEF t
<1>4. /\ s8'.step = "write" /\ s8'.at = 1 /\ s8'.to = to /\ s8'.text = t /\ s8'.time = time
      /\ s8' = [step |-> s8'.step, at |-> 1, to |-> s8'.to, text |-> s8'.text, time |-> s8'.time]
  BY <1>3
<1>5. CopyTyped'
  BY <1>3 DEF CopyInv, CopyTyped
<1>6. RunTyped'
  BY <1>2, <1>4 DEF RunTyped
<1>7. ~ s11' => EditsTell' /\ RunTells'
  BY <1>3, <1>4 DEF CopyInv, EditsTell, RunTells, t
<1> QED BY <1>5, <1>6, <1>7 DEF CopyInv

\* The comparison: unless an edit has met the run, it is the newest text that is copied, or that
\* stays in the root.
LEMMA ComparisonCopies ==
    ASSUME CopyInv, Synced!Compare
    PROVE  CopyInv'
<1> DEFINE toRoot == Synced!Copies("team", "root", s8.seen)
           toMailbox == Synced!Copies("root", "team", s9)
           looked == s8.seen
<1>1. /\ s8.step = "compare" /\ s8.at = 1 /\ looked \in 0..s12
      /\ UNCHANGED <<s1, s2, s3, s4, s6, s7, s9, s10, s11, s12>>
  BY DEF Synced!Compare, Synced!Eligible, CopyInv, RunTyped
<1>2. IF s9 = 0 THEN IF looked = 0 THEN Synced!Skip ELSE toRoot
      ELSE IF looked = 0 THEN IF "team" \in s3 THEN toMailbox ELSE Synced!Skip
      ELSE IF s1["team"] = s1["root"]
         THEN s5' = [s5 EXCEPT !["team"] = s1["team"]] /\ s8' = Synced!Save
      ELSE IF "team" \in s3 THEN IF Synced!TakeRoot("team") THEN toMailbox ELSE toRoot
      ELSE IF Synced!TakeMailbox("team") THEN toRoot ELSE Synced!Skip
  BY <1>1, OneMailbox DEF Synced!Compare, Synced!Eligible
<1>3. /\ s9 # 0 => s1["root"] # 0
      /\ looked # 0 => s1["team"] # 0
      /\ ~ s11 => s9 = s2["root"] /\ looked = s2["team"] /\ s5["team"] = s4["team"]
      /\ ~ s11 => EditsTell
  BY <1>1 DEF CopyInv, RunTyped, RunTells
<1>4. /\ s1["root"] \in Int /\ s1["team"] \in Int /\ s2["root"] \in Nat /\ s2["team"] \in Nat
      /\ s9 \in 0..s12 /\ s12 \in Nat
      /\ s1["root"] = 0 <=> s2["root"] = 0
      /\ s1["team"] = 0 <=> s2["team"] = 0
  BY DEF CopyInv, CopyTyped, Files
<1>5. ASSUME s8' = Synced!Save, s5' \in [{"team"} -> Int], s5'["team"] <= s12,
             ~ s11 => s10 = s1["root"] /\ (s5'["team"] = s4["team"] \/ s1["root"] = s1["team"])
      PROVE  CopyInv'
  <2>1. s8'.step = "save"
    BY <1>5, OneMailbox
  <2>2. CopyTyped'
    BY <1>1, <1>5 DEF CopyInv, CopyTyped
  <2>3. RunTyped'
    BY <1>5, <2>1 DEF RunTyped
  <2>4. ~ s11' => EditsTell' /\ RunTells'
    BY <1>1, <1>5, <2>1 DEF CopyInv, EditsTell, RunTells
  <2> QED BY <2>2, <2>3, <2>4 DEF CopyInv
<1>6. ASSUME Synced!Skip, ~ s11 => s10 = s1["root"] PROVE CopyInv'
  <2>1. s8' = Synced!Save /\ s5' = s5
    BY <1>1, <1>6, OneMailbox DEF Synced!Skip
  <2> QED BY <1>3, <1>5, <1>6, <2>1 DEF CopyInv, CopyTyped
<1>7. ASSUME toRoot, looked # 0, ~ s11 => s10 = s1["team"] PROVE CopyInv'
  BY <1>1, <1>3, <1>7, CopyBegins DEF Other, Files
<1>8. ASSUME toMailbox, s9 # 0, ~ s11 => s10 = s1["root"] PROVE CopyInv'
  BY <1>1, <1>3, <1>4, <1>8, CopyBegins DEF Other, Files
<1> HIDE DEF toRoot, toMailbox
<1>9. CASE s9 = 0
  <2>1. looked = 0 => (~ s11 => s10 = s1["root"])
    BY <1>3, <1>4, <1>9 DEF EditsTell
  <2>2. looked # 0 => (~ s11 => s10 = s1["team"])
    BY <1>3, <1>4, <1>9 DEF EditsTell
  <2> QED BY <1>2, <1>6, <1>7, <1>9, <2>1, <2>2
<1>10. CASE s9 # 0 /\ looked = 0
  <2>1. ~ s11 => s10 = s1["root"]
    BY <1>3, <1>4, <1>10 DEF EditsTell
  <2> QED BY <1>2, <1>6, <1>8, <1>10, <2>1
<1>11. CASE s9 # 0 /\ looked # 0 /\ s1["team"] = s1["root"]
  <2>1. s5' = [s5 EXCEPT !["team"] = s1["team"]] /\ s8' = Synced!Save
    BY <1>2, <1>11
  <2>2. s5' \in [{"team"} -> Int] /\ s5'["team"] <= s12
    BY <1>4, <2>1 DEF CopyInv, CopyTyped, Files
  <2>3. ~ s11 => s10 = s1["root"]
    BY <1>3, <1>4, <1>11 DEF EditsTell
  <2> QED BY <1>5, <1>11, <2>1, <2>2, <2>3
<1>12. CASE s9 # 0 /\ looked # 0 /\ s1["team"] # s1["root"]
  <2>1. ASSUME ~ s11, Synced!TakeRoot("team") PROVE s10 = s1["root"]
    BY <1>3, <1>4, <1>12, <2>1, OneMailbox DEF EditsTell, Synced!TakeRoot
  <2>2. ASSUME ~ s11, ~ Synced!TakeRoot("team") PROVE s10 = s1["team"]
    BY <1>3, <1>4, <1>12, <2>2, OneMailbox DEF EditsTell, Synced!TakeRoot
  <2>3. ASSUME ~ s11, Synced!TakeMailbox("team") PROVE s10 = s1["team"]
    BY <1>3, <1>4, <1>12, <2>3, OneMailbox DEF EditsTell, Synced!TakeMailbox
  <2>4. ASSUME ~ s11, ~ Synced!TakeMailbox("team") PROVE s10 = s1["root"]
    BY <1>3, <1>4, <1>12, <2>4, OneMailbox DEF EditsTell, Synced!TakeMailbox
  <2> QED BY <1>2, <1>6, <1>7, <1>8, <1>12, <2>1, <2>2, <2>3, <2>4
<1> QED BY <1>9, <1>10, <1>11, <1>12

\* The write of a run, whole or cut, and an edit.
LEMMA Puts ==
    ASSUME CopyTyped, NEW x \in Files, NEW n \in Int, n # 0, n <= s12 + 1, Synced!Put(x, n),
           UNCHANGED <<s4, s5, s9>>, s10' \in Int, s11' \in BOOLEAN
    PROVE  /\ CopyTyped' /\ s12' = s12 + 1
           /\ s1'[x] = n /\ s2'[x] = s12 + 1
           /\ \A y \in Files \ {x} : s1'[y] = s1[y] /\ s2'[y] = s2[y]
<1>1. s12' = s12 + 1 /\ s1' = [s1 EXCEPT ![x] = n] /\ s2' = [s2 EXCEPT ![x] = s12 + 1]
  BY DEF Synced!Put
<1>2. s1' \in [Files -> Int] /\ s2' \in [Files -> Nat] /\ s12' \in Nat
  BY <1>1 DEF CopyTyped
<1>3. /\ s1'[x] = n /\ s2'[x] = s12 + 1
      /\ \A y \in Files \ {x} : s1'[y] = s1[y] /\ s2'[y] = s2[y]
  BY <1>1 DEF CopyTyped
<1>4. \A y \in Files : s1'[y] <= s12' /\ s2'[y] <= s12' /\ (s1'[y] = 0 <=> s2'[y] = 0)
  BY <1>1, <1>3 DEF CopyTyped
<1> QED BY <1>1, <1>2, <1>3, <1>4 DEF CopyTyped

LEMMA WriteStep ==
    ASSUME CopyInv, Synced!Write
    PROVE  CopyInv'
<1>1. /\ s8.step = "write" /\ s8' = [s8 EXCEPT !.step = "stamp"] /\ Synced!Put(s8.to, s8.text)
      /\ UNCHANGED <<s3, s4, s5, s6, s7, s9, s10, s11>>
  BY DEF Synced!Write
<1> DEFINE to == s8.to
           n == s8.text
           time == s8.time
<1>2. /\ s8 = [step |-> "write", at |-> 1, to |-> to, text |-> n, time |-> time]
      /\ to \in Files /\ time \in 1..s12 /\ n \in Int /\ n # 0 /\ n <= s12 /\ s12 \in Nat
  BY <1>1 DEF CopyInv, RunTyped, CopyTyped
<1>3. /\ CopyTyped' /\ s12' = s12 + 1 /\ s1'[to] = n
      /\ \A y \in Files \ {to} : s1'[y] = s1[y] /\ s2'[y] = s2[y]
  BY <1>1, <1>2, Puts DEF CopyInv, CopyTyped
<1>4. Synced!Put(to, n)
  BY <1>1
<1> HIDE DEF to, n, time
<1>5. s8' = [step |-> "stamp", at |-> 1, to |-> to, text |-> n, time |-> time]
  BY <1>1, <1>2
<1>6. /\ s8'.step = "stamp" /\ s8'.at = 1 /\ s8'.to = to /\ s8'.text = n /\ s8'.time = time
      /\ s8' = [step |-> s8'.step, at |-> 1, to |-> s8'.to, text |-> s8'.text, time |-> s8'.time]
  BY <1>5
<1>7. RunTyped'
  BY <1>2, <1>3, <1>6 DEF RunTyped
<1>8. ASSUME ~ s11 PROVE EditsTell' /\ RunTells'
  <2>1. /\ n = s10 /\ n = s1[Other(to)] /\ time = s2[Other(to)] /\ s6 = s4 /\ s5 = s4
    BY <1>1, <1>2, <1>8 DEF CopyInv, RunTells
  <2>2. Other(to) \in Files \ {to} /\ Files = {to, Other(to)}
    BY <1>2 DEF Other, Files
  <2>3. s1'["root"] = n /\ s1'["team"] = n
    BY <1>3, <2>1, <2>2 DEF Files
  <2>4. s1'[Other(to)] = n /\ s2'[Other(to)] = time
    BY <1>3, <2>1, <2>2
  <2>5. EditsTell'
    BY <1>1, <2>1, <2>3 DEF EditsTell
  <2> QED BY <1>1, <1>6, <2>1, <2>3, <2>4, <2>5 DEF RunTells
<1> QED BY <1>1, <1>3, <1>7, <1>8 DEF CopyInv

LEMMA StampStep ==
    ASSUME CopyInv, Synced!Stamp
    PROVE  CopyInv'
<1> DEFINE to == s8.to
           n == s8.text
           time == s8.time
<1>1. /\ s8.step = "stamp" /\ s8.at = 1
      /\ to \in Files /\ time \in 1..s12 /\ n \in Int /\ n # 0 /\ n <= s12 /\ s12 \in Nat
  BY DEF Synced!Stamp, CopyInv, RunTyped, CopyTyped
<1>2. /\ s8' = Synced!Save /\ s2' = [s2 EXCEPT ![to] = time] /\ s5' = [s5 EXCEPT !["team"] = n]
      /\ UNCHANGED <<s1, s3, s4, s6, s7, s9, s10, s11, s12>>
  BY <1>1, OneMailbox DEF Synced!Stamp
<1>3. s8'.step = "save"
  BY <1>2, OneMailbox
<1>4. s1[to] # 0
  BY <1>1 DEF CopyInv, RunTyped
<1>5. RunTyped'
  BY <1>2, <1>3 DEF RunTyped
<1>6. ~ s11 => /\ n = s10 /\ n = s1[Other(to)] /\ time = s2[Other(to)] /\ s6 = s4
              /\ s1["root"] = s1["team"]
  BY <1>1 DEF CopyInv, RunTells
<1> HIDE DEF to, n, time
<1>7. CopyTyped'
  BY <1>1, <1>2, <1>4 DEF CopyInv, CopyTyped
<1>8. ASSUME ~ s11 PROVE EditsTell' /\ RunTells'
  <2>1. /\ s1["root"] = n /\ s1["team"] = n /\ n = s10 /\ s6 = s4
    BY <1>1, <1>6, <1>8 DEF Other, Files
  <2> QED BY <1>2, <1>3, <2>1 DEF EditsTell, RunTells
<1> QED BY <1>2, <1>5, <1>7, <1>8 DEF CopyInv

LEMMA EditStep ==
    ASSUME CopyInv, NEW x \in Files, NEW n \in 1..MaxContactTime, Synced!Edit(x, n)
    PROVE  CopyInv'
<1>1. /\ Synced!Put(x, n) /\ s10' = n /\ s12' = s12 + 1 /\ s11' \in BOOLEAN
      /\ (~ s11' => s8 = Synced!None)
      /\ UNCHANGED <<s3, s4, s5, s6, s7, s8, s9>>
  BY DEF Synced!Edit, Synced!Put
<1>2. /\ n \in Int /\ n # 0 /\ s12 \in Nat /\ n <= s12 + 1
      /\ \/ n = s12 + 1
         \/ n # s1[x] /\ s1["root"] = s1["team"] /\ s1["team"] = s4["team"]
  BY <1>1, OneMailbox DEF Synced!Edit, Synced!InStep, CopyInv, CopyTyped
<1>3. /\ CopyTyped' /\ s1'[x] = n /\ s2'[x] = s12 + 1
      /\ \A y \in Files \ {x} : s1'[y] = s1[y] /\ s2'[y] = s2[y]
  BY <1>1, <1>2, Puts DEF CopyInv
<1>4. \A y \in Files : s1[y] # 0 => s1'[y] # 0
  BY <1>2, <1>3
<1>5. RunTyped'
  <2>1. 0..s12 \subseteq 0..s12' /\ 1..s12 \subseteq 1..s12'
    BY <1>1, <1>2
  <2>2. (s1["root"] # 0 => s1'["root"] # 0) /\ (s1["team"] # 0 => s1'["team"] # 0)
    BY <1>4 DEF Files
  <2> QED BY <1>1, <1>2, <1>4, <2>1, <2>2 DEF CopyInv, RunTyped
<1>6. ASSUME ~ s11' PROVE EditsTell' /\ RunTells'
  <2>1. s8'.step = "none"
    BY <1>1, <1>6, OneMailbox
  <2> DEFINE y == Other(x)
  <2>2. y \in Files \ {x} /\ Files = {x, y}
    BY DEF Other, Files
  <2>3. /\ s2[y] <= s12 /\ s2[y] \in Nat /\ s1[y] \in Int /\ n # s1[y] /\ n # s4["team"]
    <3>1. s2[y] <= s12 /\ s2[y] \in Nat /\ s1[y] \in Int /\ s1[y] <= s12 /\ s4["team"] <= s12 /\ s4["team"] \in Int
      BY <2>2 DEF CopyInv, CopyTyped
    <3>2. s1["root"] = s1["team"] => s1[x] = s1[y]
      BY <2>2 DEF Files, Other
    <3>3. x \in {"root", "team"}
      BY DEF Files
    <3> QED BY <1>2, <3>1, <3>2, <3>3
  <2>4. s1'[y] = s1[y] /\ s2'[y] = s2[y]
    BY <1>3, <2>2
  <2>5. EditsTell'
    <3>1. CASE x = "root"
      BY <1>1, <1>2, <1>3, <2>3, <2>4, <3>1 DEF EditsTell, Other
    <3>2. CASE x = "team"
      BY <1>1, <1>2, <1>3, <2>3, <2>4, <3>2 DEF EditsTell, Other
    <3> QED BY <3>1, <3>2 DEF Files
  <2> QED BY <2>1, <2>5 DEF RunTells
<1> QED BY <1>3, <1>5, <1>6 DEF CopyInv

LEMMA CopyStep ==
    ASSUME CopyInv, Synced!Next \/ UNCHANGED <<s1, s2, s3, s4, s5, s6, s7, s8, s9, s10, s11, s12>>
    PROVE  CopyInv'
<1>0. CopyTyped /\ RunTyped /\ (~ s11 => EditsTell /\ RunTells)
  BY DEF CopyInv
<1>1. ASSUME UNCHANGED <<s1, s2, s4, s5, s10, s11, s12>>, s8' = Synced!None, s9' = s9 PROVE CopyInv'
  <2>1. s8'.step = "none"
    BY <1>1, OneMailbox
  <2> QED BY <1>0, <1>1, <2>1 DEF CopyInv, CopyTyped, RunTyped, EditsTell, RunTells
<1>2. CASE Synced!Sync
  <2>1. /\ s8' = [step |-> "look", at |-> 1] /\ s9' = s2["root"] /\ s5' = s4 /\ s6' = s4
        /\ UNCHANGED <<s1, s2, s3, s4, s7, s10, s11, s12>>
    BY <1>2, OneMailbox DEF Synced!Sync
  <2>2. s8'.step = "look" /\ s8'.at = 1
    BY <2>1
  <2>3. s9' \in Nat /\ s9' <= s12 /\ (s9' # 0 => s1["root"] # 0)
    BY <1>0, <2>1 DEF CopyTyped, Files
  <2>4. CopyTyped'
    BY <1>0, <2>1, <2>3 DEF CopyTyped
  <2>5. RunTyped'
    BY <2>1, <2>2, <2>3 DEF RunTyped
  <2>6. ~ s11' => EditsTell' /\ RunTells'
    BY <1>0, <2>1, <2>2 DEF EditsTell, RunTells
  <2> QED BY <2>4, <2>5, <2>6 DEF CopyInv
<1>3. CASE Synced!Look
  <2>1. /\ s8.step = "look" /\ s8.at = 1
        /\ s8' = [step |-> "compare", at |-> 1, seen |-> s2["team"]]
        /\ UNCHANGED <<s1, s2, s3, s4, s5, s6, s7, s9, s10, s11, s12>>
    BY <1>0, <1>3, OneMailbox DEF Synced!Look, RunTyped
  <2>2. s8'.step = "compare" /\ s8'.at = 1 /\ s8'.seen = s2["team"]
    BY <2>1
  <2>3. s2["team"] \in 0..s12 /\ (s2["team"] # 0 => s1["team"] # 0)
    BY <1>0 DEF CopyTyped, Files
  <2>4. CopyTyped'
    BY <1>0, <2>1 DEF CopyTyped
  <2>5. RunTyped'
    BY <1>0, <2>1, <2>2, <2>3 DEF RunTyped
  <2>6. ~ s11' => EditsTell' /\ RunTells'
    BY <1>0, <2>1, <2>2 DEF EditsTell, RunTells
  <2> QED BY <2>4, <2>5, <2>6 DEF CopyInv
<1>4. CASE Synced!Cut
  <2>1. /\ s8.step = "write" /\ s8' = Synced!None /\ Synced!Put(s8.to, Synced!Empty) /\ s11' = TRUE
        /\ UNCHANGED <<s3, s4, s5, s6, s7, s9, s10>>
    BY <1>4 DEF Synced!Cut
  <2>2. s8.to \in Files /\ Synced!Empty \in Int /\ Synced!Empty # 0 /\ Synced!Empty <= s12 + 1
        /\ s10 \in Int
    BY <1>0, <2>1, OneMailbox DEF RunTyped, CopyTyped
  <2>3. CopyTyped'
    BY <1>0, <2>1, <2>2, Puts
  <2>4. s8'.step = "none"
    BY <2>1, OneMailbox
  <2>5. RunTyped'
    BY <2>1, <2>4 DEF RunTyped
  <2> QED BY <2>1, <2>3, <2>5 DEF CopyInv
<1>5. CASE Synced!SaveState
  <2>1. s8 = Synced!Save /\ s8' = Synced!None /\ UNCHANGED <<s1, s2, s3, s5, s6, s7, s9, s10, s11, s12>>
    BY <1>5 DEF Synced!SaveState
  <2>2. s4' \in [{"team"} -> Int] /\ s4'["team"] \in {s4["team"], s5["team"]}
    BY <1>0, <1>5, OneMailbox DEF Synced!SaveState, Synced!MergeContact, CopyTyped
  <2>3. s8.step = "save" /\ s8'.step = "none"
    BY <2>1, OneMailbox
  <2>4. CopyTyped'
    BY <1>0, <2>1, <2>2 DEF CopyTyped
  <2>5. RunTyped'
    BY <2>1, <2>3 DEF RunTyped
  <2>6. ASSUME ~ s11 PROVE EditsTell' /\ RunTells'
    <3>1. s1["root"] # s1["team"] => s4'["team"] = s4["team"]
      BY <1>0, <2>2, <2>3, <2>6 DEF RunTells
    <3> QED BY <1>0, <2>1, <2>3, <2>6, <3>1 DEF EditsTell, RunTells
  <2> QED BY <2>1, <2>4, <2>5, <2>6 DEF CopyInv
<1>6. CASE Synced!Stop
  BY <1>1, <1>6 DEF Synced!Stop
<1>7. ASSUME UNCHANGED <<s1, s2, s4, s5, s6, s8, s9, s10, s11, s12>> PROVE CopyInv'
  BY <1>0, <1>7 DEF CopyInv, CopyTyped, RunTyped, EditsTell, RunTells
<1>8. CASE Synced!MailSyncLoads
  BY <1>7, <1>8 DEF Synced!MailSyncLoads
<1>9. CASE Synced!MailSyncSaves
  <2>1. s4' = [b \in {"team"} |-> s4[b]]
    BY <1>9, OneMailbox DEF Synced!MailSyncSaves, Synced!MergeContact
  <2>2. s4' = s4
    BY <1>0, <2>1 DEF CopyTyped
  <2> QED BY <1>7, <1>9, <2>2 DEF Synced!MailSyncSaves
<1> QED BY <1>2, <1>3, <1>4, <1>5, <1>6, <1>7, <1>8, <1>9, ComparisonCopies, WriteStep, StampStep,
           EditStep, OneMailbox DEF Synced!Next


-----------------------------------------------------------------------------
(* The contacts at Google *)

\* Those of the name n that a push which knows the resource r would not update.
Strays(g, n, r) == {e \in g : e[1] = n /\ e[2] # r}

PeopleTyped ==
    /\ s1 \in SUBSET (Contacts \X Nat) /\ IsFiniteSet(s1)
    /\ s2 \in [Contacts -> Nat] /\ s3 \in [Procs -> [Contacts -> Nat]]
    /\ s5 \in [Procs -> {"idle", "push"}]
    /\ s6 \in [Procs -> SUBSET Contacts] /\ s7 \in [Contacts -> Nat]
    /\ s8 \in BOOLEAN /\ s9 \in Nat

\* The strays are those whose resource name was lost: beside what a push at work has in memory,
\* which is what the file has for the names it has not changed, or else beside the file.
InTurns ==
    /\ \A p, q \in Procs : p # q => s5[p] = "idle" \/ s5[q] = "idle"
    /\ \A p \in Procs, n \in Contacts : s5[p] = "push" =>
         /\ n \notin s6[p] => s3[p][n] = s2[n]
         /\ s3[p][n] = 0 => s2[n] = 0
         /\ Cardinality(Strays(s1, n, s3[p][n])) <= s7[n]
    /\ (\A p \in Procs : s5[p] = "idle") =>
         \A n \in Contacts : Cardinality(Strays(s1, n, s2[n])) <= s7[n]

PeopleInv == PeopleTyped /\ (~ s8 => InTurns)

LEMMA PeopleMove ==
    ASSUME part = "people", [WorkspaceNext]_wsVars
    PROVE  part' = part /\ (People!Next \/ UNCHANGED <<s1, s2, s3, s4, s5, s6, s7, s8, s9, s10>>)
BY DEF WorkspaceNext, wsVars, registers

LEMMA PeopleStart == WorkspaceInit /\ part = "people" => PeopleInv
<1> SUFFICES ASSUME WorkspaceInit, part = "people"
             PROVE  PeopleInv
  OBVIOUS
<1>1. People!Init
  BY DEF WorkspaceInit, PartInit
<1>2. /\ s1 = {} /\ s2 = [n \in Contacts |-> 0] /\ s3 = [p \in Procs |-> s2]
      /\ s5 = [p \in Procs |-> "idle"] /\ s6 = [p \in Procs |-> {}]
      /\ s7 = [n \in Contacts |-> 0] /\ s8 = FALSE /\ s9 = 0
  BY <1>1 DEF People!Init, People!None
<1>3. PeopleTyped
  BY <1>2, FS_EmptySet DEF PeopleTyped
<1>4. \A n \in Contacts : Strays(s1, n, s2[n]) = {}
  BY <1>2 DEF Strays
<1>5. InTurns
  BY <1>2, <1>4, FS_EmptySet DEF InTurns
<1> QED BY <1>3, <1>5 DEF PeopleInv

\* One more contact is one more stray at most; none, if it is of another name or known.
LEMMA OneMore ==
    ASSUME NEW g, IsFiniteSet(g), NEW m, NEW k
    PROVE  /\ \A n, r : Cardinality(Strays(g, n, r)) \in Nat
           /\ \A n, r : Cardinality(Strays(g \cup {<<m, k>>}, n, r)) <= Cardinality(Strays(g, n, r)) + 1
           /\ \A n, r : n # m \/ r = k => Strays(g \cup {<<m, k>>}, n, r) = Strays(g, n, r)
<1>1. ASSUME NEW n, NEW r
      PROVE  /\ IsFiniteSet(Strays(g, n, r)) /\ Cardinality(Strays(g, n, r)) \in Nat
             /\ Cardinality(Strays(g \cup {<<m, k>>}, n, r)) <= Cardinality(Strays(g, n, r)) + 1
  <2>1. Strays(g, n, r) \in SUBSET g
    BY DEF Strays
  <2>2. IsFiniteSet(Strays(g, n, r)) /\ Cardinality(Strays(g, n, r)) \in Nat
    BY <2>1, FS_Subset, FS_CardinalityType
  <2>3. \/ Strays(g \cup {<<m, k>>}, n, r) = Strays(g, n, r)
        \/ Strays(g \cup {<<m, k>>}, n, r) = Strays(g, n, r) \cup {<<m, k>>}
    BY DEF Strays
  <2>4. \/ Cardinality(Strays(g, n, r) \cup {<<m, k>>}) = Cardinality(Strays(g, n, r))
        \/ Cardinality(Strays(g, n, r) \cup {<<m, k>>}) = Cardinality(Strays(g, n, r)) + 1
    BY <2>2, FS_AddElement
  <2>5. \/ Cardinality(Strays(g \cup {<<m, k>>}, n, r)) = Cardinality(Strays(g, n, r))
        \/ Cardinality(Strays(g \cup {<<m, k>>}, n, r)) = Cardinality(Strays(g, n, r)) + 1
    BY Zenon, <2>3, <2>4
  <2> QED BY <2>2, <2>5
<1>2. ASSUME NEW n, NEW r, n # m \/ r = k PROVE Strays(g \cup {<<m, k>>}, n, r) = Strays(g, n, r)
  BY <1>2 DEF Strays
<1> QED BY <1>1, <1>2

\* Fewer contacts, or those beside another resource, of which there is one.
LEMMA Fewer ==
    ASSUME NEW g, IsFiniteSet(g), NEW h \in SUBSET g, g \in SUBSET (Contacts \X Nat), NEW n
    PROVE  /\ \A r : Cardinality(Strays(h, n, r)) <= Cardinality(Strays(g, n, r))
           /\ \A r, t : Cardinality(Strays(g, n, t)) <= Cardinality(Strays(g, n, r)) + 1
           /\ \A r : Cardinality({e \in g : e[1] = n}) <= Cardinality(Strays(g, n, r)) + 1
<1>1. ASSUME NEW r PROVE Strays(g, n, r) \in SUBSET g /\ Strays(h, n, r) \in SUBSET Strays(g, n, r)
  BY DEF Strays
<1>2. ASSUME NEW r PROVE IsFiniteSet(Strays(g, n, r)) /\ Cardinality(Strays(g, n, r)) \in Nat
  BY <1>1, FS_Subset, FS_CardinalityType
<1>3. ASSUME NEW r PROVE Cardinality(Strays(h, n, r)) <= Cardinality(Strays(g, n, r))
  BY <1>1, <1>2, FS_Subset
<1>4. ASSUME NEW r PROVE Cardinality({e \in g : e[1] = n}) <= Cardinality(Strays(g, n, r)) + 1
  <2>1. {e \in g : e[1] = n} \in SUBSET (Strays(g, n, r) \cup {<<n, r>>})
    BY DEF Strays
  <2>2. /\ IsFiniteSet(Strays(g, n, r) \cup {<<n, r>>})
        /\ \/ Cardinality(Strays(g, n, r) \cup {<<n, r>>}) = Cardinality(Strays(g, n, r))
           \/ Cardinality(Strays(g, n, r) \cup {<<n, r>>}) = Cardinality(Strays(g, n, r)) + 1
    BY <1>2, FS_AddElement
  <2>3. /\ Cardinality({e \in g : e[1] = n}) <= Cardinality(Strays(g, n, r) \cup {<<n, r>>})
        /\ IsFiniteSet({e \in g : e[1] = n})
    BY <2>1, <2>2, FS_Subset
  <2>4. Cardinality({e \in g : e[1] = n}) \in Nat
    BY <2>3, FS_CardinalityType
  <2> QED BY <1>2, <2>2, <2>3, <2>4
<1>5. ASSUME NEW r, NEW t PROVE Cardinality(Strays(g, n, t)) <= Cardinality(Strays(g, n, r)) + 1
  <2>1. Strays(g, n, t) \in SUBSET {e \in g : e[1] = n} /\ {e \in g : e[1] = n} \in SUBSET g
    BY DEF Strays
  <2>2. IsFiniteSet({e \in g : e[1] = n}) /\ Cardinality({e \in g : e[1] = n}) \in Nat
    BY <2>1, FS_Subset, FS_CardinalityType
  <2>3. Cardinality(Strays(g, n, t)) <= Cardinality({e \in g : e[1] = n})
    BY <2>1, <2>2, FS_Subset
  <2> QED BY <1>2, <1>4, <2>2, <2>3
<1> QED BY <1>3, <1>4, <1>5

LEMMA PeopleStep ==
    ASSUME PeopleInv, People!Next \/ UNCHANGED <<s1, s2, s3, s4, s5, s6, s7, s8, s9, s10>>
    PROVE  PeopleInv'
<1>0. /\ s1 \in SUBSET (Contacts \X Nat) /\ IsFiniteSet(s1)
      /\ s2 \in [Contacts -> Nat] /\ s3 \in [Procs -> [Contacts -> Nat]]
      /\ s5 \in [Procs -> {"idle", "push"}]
      /\ s6 \in [Procs -> SUBSET Contacts] /\ s7 \in [Contacts -> Nat]
      /\ s8 \in BOOLEAN /\ s9 \in Nat
      /\ ~ s8 => InTurns
  BY DEF PeopleInv, PeopleTyped
<1>1. ASSUME NEW p \in Procs, NEW names \in SUBSET Contacts, People!Load(p, names) PROVE PeopleInv'
  <2>1. /\ s5[p] = "idle" /\ s5' = [s5 EXCEPT ![p] = "push"] /\ s3' = [s3 EXCEPT ![p] = s2]
        /\ s6' = [s6 EXCEPT ![p] = {}] /\ s8' = (s8 \/ \E q \in Procs : s5[q] # "idle")
        /\ UNCHANGED <<s1, s2, s7, s9>>
    BY <1>1 DEF People!Load
  <2>2. PeopleTyped'
    <3>1. s8' \in BOOLEAN
      BY <2>1
    <3> QED BY <1>0, <2>1, <3>1 DEF PeopleTyped
  <2>3. ~ s8' => InTurns'
    <3> SUFFICES ASSUME ~ s8' PROVE InTurns'
      OBVIOUS
    <3>1. ~ s8 /\ \A q \in Procs : s5[q] = "idle"
      BY <2>1
    <3>2. \A n \in Contacts : Cardinality(Strays(s1, n, s2[n])) <= s7[n]
      BY <1>0, <3>1 DEF InTurns
    <3>3. /\ s5'[p] = "push" /\ s3'[p] = s2 /\ s6'[p] = {} /\ \A q \in Procs \ {p} : s5'[q] = "idle"
      BY <1>0, <2>1, <3>1
    <3> QED BY <2>1, <3>2, <3>3 DEF InTurns
  <2> QED BY <2>2, <2>3 DEF PeopleInv
<1>2. ASSUME NEW p \in Procs, NEW n \in Contacts, People!Update(p, n) PROVE PeopleInv'
  <2>1. UNCHANGED <<s1, s2, s3, s5, s6, s7, s8, s9>>
    BY <1>2 DEF People!Update
  <2> QED BY <1>0, <2>1 DEF PeopleInv, PeopleTyped, InTurns
<1>3. ASSUME NEW n \in Contacts, People!Make(n)
      PROVE  /\ s9' \in Nat /\ s9' # 0 /\ s1' = s1 \cup {<<n, s9'>>}
             /\ s1' \in SUBSET (Contacts \X Nat) /\ IsFiniteSet(s1')
  <2>1. s9' = s9 + 1 /\ s1' = s1 \cup {<<n, s9'>>}
    BY <1>3 DEF People!Make
  <2>2. s9' \in Nat /\ s9' # 0
    BY <1>0, <2>1
  <2>3. IsFiniteSet(s1')
    BY <1>0, <2>1, FS_AddElement
  <2>4. s1' \in SUBSET (Contacts \X Nat)
    BY <1>0, <2>1, <2>2
  <2> QED BY <2>1, <2>2, <2>3, <2>4
<1>4. ASSUME NEW p \in Procs, NEW n \in Contacts, People!Create(p, n) PROVE PeopleInv'
  <2>1. /\ s5[p] = "push" /\ <<n, s3[p][n]>> \notin s1 /\ People!Make(n)
        /\ s3' = [s3 EXCEPT ![p][n] = s9'] /\ s6' = [s6 EXCEPT ![p] = @ \cup {n}]
        /\ UNCHANGED <<s2, s5, s7, s8>>
    BY <1>4 DEF People!Create, People!Pushing, People!Known
  <2>2. /\ s9' \in Nat /\ s9' # 0 /\ s1' = s1 \cup {<<n, s9'>>}
        /\ s1' \in SUBSET (Contacts \X Nat) /\ IsFiniteSet(s1')
    BY <1>3, <2>1
  <2>3. /\ s3' \in [Procs -> [Contacts -> Nat]] /\ s3'[p][n] = s9'
        /\ \A m \in Contacts \ {n} : s3'[p][m] = s3[p][m]
        /\ \A q \in Procs \ {p} : s3'[q] = s3[q]
        /\ s6' \in [Procs -> SUBSET Contacts] /\ s6'[p] = s6[p] \cup {n}
    BY <1>0, <2>1, <2>2
  <2>4. PeopleTyped'
    BY <1>0, <2>1, <2>2, <2>3 DEF PeopleTyped
  <2>5. ~ s8' => InTurns'
    <3> SUFFICES ASSUME ~ s8 PROVE InTurns'
      BY <2>1
    <3>1. InTurns
      BY <1>0
    <3>2. ASSUME NEW m \in Contacts PROVE Cardinality(Strays(s1', m, s3'[p][m])) <= s7[m]
      <4>1. Cardinality(Strays(s1, m, s3[p][m])) <= s7[m]
        BY <2>1, <3>1 DEF InTurns
      <4>2. CASE m # n
        <5>1. Strays(s1', m, s3'[p][m]) = Strays(s1, m, s3[p][m])
          BY <2>2, <2>3, <4>2 DEF Strays
        <5> QED BY <4>1, <5>1
      <4>3. CASE m = n
        <5>1. Strays(s1', n, s9') = Strays(s1, n, s9')
          BY <2>2 DEF Strays
        <5>2. Strays(s1, n, s9') \in SUBSET {e \in s1 : e[1] = n} /\ {e \in s1 : e[1] = n} \in SUBSET s1
          BY DEF Strays
        <5>3. Strays(s1, n, s3[p][n]) = {e \in s1 : e[1] = n}
          <6>1. \A e \in s1 : e = <<e[1], e[2]>>
            BY <1>0
          <6> QED BY <2>1, <6>1 DEF Strays
        <5>4. IsFiniteSet({e \in s1 : e[1] = n})
          BY <1>0, <5>2, FS_Subset
        <5>5. Cardinality(Strays(s1, n, s9')) <= Cardinality({e \in s1 : e[1] = n})
          BY <5>2, <5>4, FS_Subset
        <5>6. Cardinality(Strays(s1, n, s9')) \in Nat /\ Cardinality({e \in s1 : e[1] = n}) \in Nat
          BY <5>2, <5>4, FS_Subset, FS_CardinalityType
        <5>7. s7[n] \in Nat
          BY <1>0
        <5> QED BY <2>3, <4>1, <4>3, <5>1, <5>3, <5>5, <5>6, <5>7
      <4> QED BY <4>2, <4>3
    <3>3. ASSUME NEW q \in Procs, s5'[q] = "push" PROVE q = p
      BY <2>1, <3>1, <3>3 DEF InTurns
    <3>4. \A m \in Contacts : /\ m \notin s6'[p] => s3'[p][m] = s2'[m]
                              /\ s3'[p][m] = 0 => s2'[m] = 0
      BY <2>1, <2>2, <2>3, <3>1 DEF InTurns
    <3> QED BY <2>1, <3>1, <3>2, <3>3, <3>4 DEF InTurns
  <2> QED BY <2>4, <2>5 DEF PeopleInv
<1>5. ASSUME NEW p \in Procs, NEW n \in Contacts, People!PushErr(p, n) PROVE PeopleInv'
  <2>1. /\ s5[p] = "push" /\ UNCHANGED <<s2, s3, s5, s6, s8>>
        /\ \/ UNCHANGED <<s1, s7, s9>>
           \/ People!Make(n) /\ s7' = [s7 EXCEPT ![n] = @ + 1]
    BY <1>5 DEF People!PushErr, People!Pushing
  <2>2. CASE UNCHANGED <<s1, s7, s9>>
    BY <1>0, <2>1, <2>2 DEF PeopleInv, PeopleTyped, InTurns
  <2>3. CASE People!Make(n) /\ s7' = [s7 EXCEPT ![n] = @ + 1]
    <3>1. /\ s9' \in Nat /\ s9' # 0 /\ s1' = s1 \cup {<<n, s9'>>}
          /\ s1' \in SUBSET (Contacts \X Nat) /\ IsFiniteSet(s1')
      BY <1>3, <2>3
    <3>2. s7' \in [Contacts -> Nat] /\ s7'[n] = s7[n] + 1 /\ \A m \in Contacts \ {n} : s7'[m] = s7[m]
      BY <1>0, <2>3
    <3>3. ASSUME NEW m \in Contacts, NEW r, Cardinality(Strays(s1, m, r)) <= s7[m]
          PROVE  Cardinality(Strays(s1', m, r)) <= s7'[m]
      <4>1. Cardinality(Strays(s1, m, r)) \in Nat /\ Cardinality(Strays(s1', m, r)) \in Nat
        BY <1>0, <3>1, OneMore
      <4>2. CASE m # n
        <5>1. Strays(s1', m, r) = Strays(s1, m, r)
          BY <3>1, <4>2 DEF Strays
        <5> QED BY <3>2, <3>3, <4>2, <5>1
      <4>3. CASE m = n
        <5>1. Cardinality(Strays(s1', m, r)) <= Cardinality(Strays(s1, m, r)) + 1
          BY <1>0, <3>1, <4>3, OneMore
        <5>2. s7[n] \in Nat
          BY <1>0
        <5> QED BY <3>2, <3>3, <4>1, <4>3, <5>1, <5>2
      <4> QED BY <4>2, <4>3
    <3>4. InTurns => InTurns'
      BY <2>1, <3>3 DEF InTurns
    <3>5. PeopleTyped'
      BY <1>0, <2>1, <3>1, <3>2 DEF PeopleTyped
    <3> QED BY <1>0, <2>1, <3>4, <3>5 DEF PeopleInv
  <2> QED BY <2>1, <2>2, <2>3
<1>6. ASSUME NEW p \in Procs, People!Save(p) PROVE PeopleInv'
  <2>1. /\ s5[p] = "push" /\ s2' = [n \in Contacts |-> IF s3[p][n] # 0 THEN s3[p][n] ELSE s2[n]]
        /\ s5' = [s5 EXCEPT ![p] = "idle"] /\ s3' = [s3 EXCEPT ![p] = [n \in Contacts |-> 0]]
        /\ s6' = [s6 EXCEPT ![p] = {}] /\ UNCHANGED <<s1, s7, s8, s9>>
    BY <1>6 DEF People!Save, People!Saved, People!None
  <2>2. PeopleTyped'
    <3>1. s2' \in [Contacts -> Nat] /\ s3' \in [Procs -> [Contacts -> Nat]]
      BY <1>0, <2>1
    <3> QED BY <1>0, <2>1, <3>1 DEF PeopleTyped
  <2>3. ~ s8' => InTurns'
    <3> SUFFICES ASSUME ~ s8 PROVE InTurns'
      BY <2>1
    <3>1. InTurns
      BY <1>0
    <3>2. \A q \in Procs : s5'[q] = "idle"
      BY <1>0, <2>1, <3>1 DEF InTurns
    <3>3. \A n \in Contacts : s2'[n] = s3[p][n]
      BY <2>1, <3>1 DEF InTurns
    <3>4. \A n \in Contacts : Cardinality(Strays(s1, n, s3[p][n])) <= s7[n]
      BY <2>1, <3>1 DEF InTurns
    <3> QED BY <2>1, <3>2, <3>3, <3>4 DEF InTurns
  <2> QED BY <2>2, <2>3 DEF PeopleInv
<1>7. ASSUME NEW p \in Procs, People!Kill(p) PROVE PeopleInv'
  <2>1. /\ s5[p] = "push" /\ s7' = [n \in Contacts |-> s7[n] + IF n \in s6[p] THEN 1 ELSE 0]
        /\ s5' = [s5 EXCEPT ![p] = "idle"] /\ s3' = [s3 EXCEPT ![p] = [n \in Contacts |-> 0]]
        /\ s6' = [s6 EXCEPT ![p] = {}] /\ UNCHANGED <<s1, s2, s8, s9>>
    BY <1>7 DEF People!Kill, People!None
  <2>2. s7' \in [Contacts -> Nat]
    BY <1>0, <2>1
  <2>3. PeopleTyped'
    BY <1>0, <2>1, <2>2 DEF PeopleTyped
  <2>4. ~ s8' => InTurns'
    <3> SUFFICES ASSUME ~ s8 PROVE InTurns'
      BY <2>1
    <3>1. InTurns
      BY <1>0
    <3>2. \A q \in Procs : s5'[q] = "idle"
      BY <1>0, <2>1, <3>1 DEF InTurns
    <3>3. ASSUME NEW n \in Contacts PROVE Cardinality(Strays(s1, n, s2[n])) <= s7'[n]
      <4>1. Cardinality(Strays(s1, n, s3[p][n])) <= s7[n]
        BY <2>1, <3>1 DEF InTurns
      <4>2. CASE n \notin s6[p]
        <5>1. s3[p][n] = s2[n]
          BY <2>1, <3>1, <4>2 DEF InTurns
        <5>2. s7'[n] = s7[n]
          BY <1>0, <2>1, <4>2
        <5> QED BY <4>1, <5>1, <5>2
      <4>3. CASE n \in s6[p]
        <5>1. Cardinality(Strays(s1, n, s2[n])) <= Cardinality(Strays(s1, n, s3[p][n])) + 1
          BY <1>0, Fewer
        <5>2. /\ Cardinality(Strays(s1, n, s2[n])) \in Nat
              /\ Cardinality(Strays(s1, n, s3[p][n])) \in Nat
          BY <1>0, OneMore
        <5>3. s7[n] \in Nat /\ s7'[n] = s7[n] + 1
          BY <1>0, <2>1, <4>3
        <5> QED BY <4>1, <5>1, <5>2, <5>3
      <4> QED BY <4>2, <4>3
    <3> QED BY <2>1, <3>2, <3>3 DEF InTurns
  <2> QED BY <2>3, <2>4 DEF PeopleInv
<1>8. ASSUME NEW r \in s1, People!Delete(r) PROVE PeopleInv'
  <2>1. s1' = s1 \ {r} /\ UNCHANGED <<s2, s3, s5, s6, s7, s8, s9>>
    BY <1>8 DEF People!Delete
  <2>2. s1' \in SUBSET s1 /\ IsFiniteSet(s1')
    BY <1>0, <2>1, FS_RemoveElement
  <2>3. ASSUME NEW n \in Contacts, NEW t, Cardinality(Strays(s1, n, t)) <= s7[n]
        PROVE  Cardinality(Strays(s1', n, t)) <= s7[n]
    <3>1. Cardinality(Strays(s1', n, t)) <= Cardinality(Strays(s1, n, t))
      BY <1>0, <2>2, Fewer
    <3>2. Cardinality(Strays(s1', n, t)) \in Nat /\ Cardinality(Strays(s1, n, t)) \in Nat /\ s7[n] \in Nat
      BY <1>0, <2>2, OneMore
    <3> QED BY <2>3, <3>1, <3>2
  <2>4. InTurns => InTurns'
    BY <2>1, <2>3 DEF InTurns
  <2> QED BY <1>0, <2>1, <2>2, <2>4 DEF PeopleInv, PeopleTyped
<1>9. CASE UNCHANGED <<s1, s2, s3, s4, s5, s6, s7, s8, s9, s10>>
  BY <1>0, <1>9 DEF PeopleInv, PeopleTyped, InTurns
<1> QED BY <1>1, <1>2, <1>4, <1>5, <1>6, <1>7, <1>8, <1>9 DEF People!Next

LEMMA PeopleOnce == PeopleInv => People!OneContactPerName
<1> SUFFICES ASSUME PeopleInv, ~ s8, NEW n \in Contacts
             PROVE  Cardinality({e \in s1 : e[1] = n}) <= 1 + s7[n]
  <2>1. \A S : People!Cardinality(S) = Cardinality(S)
    BY DEF People!Cardinality, Cardinality
  <2> QED BY <2>1 DEF People!OneContactPerName
<1>1. /\ s1 \in SUBSET (Contacts \X Nat) /\ IsFiniteSet(s1) /\ s7[n] \in Nat /\ InTurns
  BY DEF PeopleInv, PeopleTyped
<1>2. \E r : Cardinality(Strays(s1, n, r)) <= s7[n]
  <2>1. CASE \A p \in Procs : s5[p] = "idle"
    BY <1>1, <2>1 DEF InTurns
  <2>2. ASSUME NEW p \in Procs, s5[p] # "idle" PROVE Cardinality(Strays(s1, n, s3[p][n])) <= s7[n]
    <3>1. s5[p] = "push"
      BY <2>2 DEF PeopleInv, PeopleTyped
    <3> QED BY <1>1, <3>1 DEF InTurns
  <2> QED BY <2>1, <2>2
<1>3. PICK r : Cardinality(Strays(s1, n, r)) <= s7[n]
  BY <1>2
<1>4. Cardinality({e \in s1 : e[1] = n}) <= Cardinality(Strays(s1, n, r)) + 1
  BY <1>1, Fewer
<1>5. Cardinality(Strays(s1, n, r)) \in Nat
  BY <1>1, OneMore
<1>6. Cardinality({e \in s1 : e[1] = n}) \in Nat
  <2>1. {e \in s1 : e[1] = n} \in SUBSET s1
    OBVIOUS
  <2> QED BY <1>1, <2>1, FS_Subset, FS_CardinalityType
<1> QED BY <1>1, <1>3, <1>4, <1>5, <1>6


-----------------------------------------------------------------------------
(* The contacts and labels of .corky.toml *)

Emails == {"new@x"} \cup {q.email : q \in Correspondents}
ContactJobs == [name : Config!Names, email : Emails]
LabelJobs == [label : UserLabels]
Jobs == ContactJobs \cup LabelJobs
Job(j) == CHOOSE k \in j : TRUE
Configs == [contacts : SUBSET ContactJobs, labels : SUBSET SUBSET LabelJobs]
NamesOf(c) == {k.name : k \in c.contacts}

\* A configuration with one entry for each contact, which has its directory.
Settled(c, d) ==
    /\ c \in Configs /\ IsFiniteSet(c.contacts)
    /\ \A x, y \in c.contacts : x.name = y.name => x = y
    /\ \A x \in c.contacts : d[x.name] = "linked"

\* A command writes an entry only after it has made the directory.
AtWork(l, j, d) ==
    l # "idle" =>
      /\ Job(j) \in Jobs
      /\ l \in {"directory", "link"} => Job(j) \in ContactJobs
      /\ l \in {"read", "write"} /\ Job(j) \in ContactJobs => d[Job(j).name] = "linked"

ConfigTyped ==
    /\ s2 \in [Config!Names -> {"none", "text", "linked"}]
    /\ s3 \in [Procs -> {"idle", "directory", "link", "read", "write"}]
    /\ s4 \in [Procs -> SUBSET Jobs] /\ s5 \in [Procs -> Configs] /\ s6 \in SUBSET Jobs
    /\ s7 \in BOOLEAN /\ s8 \in BOOLEAN

Told ==
    \A k \in s6 : /\ k \in LabelJobs => \A ls \in s1.labels : k \in ls
                  /\ k \in ContactJobs => k \in s1.contacts

\* The one command at work adds a name that was free, and nobody writes between its reading
\* and its writing.
Alone ==
    /\ \A p, q \in Procs : p # q => s3[p] = "idle" \/ s3[q] = "idle"
    /\ \A p \in Procs :
         /\ s3[p] = "write" => s5[p] = s1
         /\ s3[p] # "idle" /\ Job(s4[p]) \in ContactJobs => Job(s4[p]).name \notin NamesOf(s1)
         /\ s3[p] = "directory" => s2[Job(s4[p]).name] = "none"
         /\ s3[p] = "link" => s2[Job(s4[p]).name] = "text"

NoStrays ==
    \A n \in Config!Names : \/ s2[n] = "none"
                            \/ n \in NamesOf(s1)
                            \/ \E p \in Procs : s3[p] # "idle" /\ Job(s4[p]) \in ContactJobs /\ Job(s4[p]).name = n

ConfigInv ==
    /\ ConfigTyped
    /\ Settled(s1, s2)
    /\ \A p \in Procs : Settled(s5[p], s2) /\ AtWork(s3[p], s4[p], s2)
    /\ ~ s7 /\ ~ s8 => Told /\ Alone /\ NoStrays

LEMMA ConfigMoves ==
    ASSUME part = "config", [WorkspaceNext]_wsVars
    PROVE  part' = part /\ (Config!Next \/ UNCHANGED <<s1, s2, s3, s4, s5, s6, s7, s8, s9>>)
BY DEF WorkspaceNext, wsVars, registers

LEMMA JobKinds ==
    /\ \A k \in ContactJobs : ~ Config!IsLabel(k) /\ k.name \in Config!Names /\ k \notin LabelJobs
    /\ \A k \in LabelJobs : Config!IsLabel(k) /\ k \notin ContactJobs
<1>1. ASSUME NEW k \in ContactJobs PROVE DOMAIN k = {"name", "email"} /\ k.name \in Config!Names
  BY DEF ContactJobs
<1>2. ASSUME NEW k \in LabelJobs PROVE DOMAIN k = {"label"}
  BY DEF LabelJobs
<1>3. {"name", "email"} # {"label"}
  OBVIOUS
<1> QED BY <1>1, <1>2, <1>3 DEF Config!IsLabel

LEMMA OneJob == \A k : Job({k}) = k
BY DEF Job

\* A directory that is made or linked leaves a configuration as it is.
LEMMA StaysSettled ==
    ASSUME NEW c, NEW d, NEW e, Settled(c, d),
           \A n \in Config!Names : d[n] = "linked" => e[n] = "linked"
    PROVE  Settled(c, e)
BY JobKinds DEF Settled, Configs

LEMMA NothingSettled == \A d : Settled(Config!Nothing, d)
<1>1. Config!Nothing \in Configs /\ Config!Nothing.contacts = {}
  BY DEF Config!Nothing, Configs
<1> QED BY <1>1, FS_EmptySet DEF Settled

LEMMA ConfigStarts == WorkspaceInit /\ part = "config" => ConfigInv
<1> SUFFICES ASSUME WorkspaceInit, part = "config"
             PROVE  ConfigInv
  OBVIOUS
<1>1. Config!Init
  BY DEF WorkspaceInit, PartInit
<1>2. s1 \in Configs /\ s1.contacts = {}
  BY <1>1 DEF Config!Init, Configs
<1>3. Settled(s1, s2)
  BY <1>2, FS_EmptySet DEF Settled
<1>4. Config!Nothing \in Configs
  BY NothingSettled DEF Settled
<1>5. /\ s2 = [n \in Config!Names |-> "none"] /\ s3 = [p \in Procs |-> "idle"]
      /\ s4 = [p \in Procs |-> {}] /\ s5 = [p \in Procs |-> Config!Nothing]
      /\ s6 = {} /\ s7 = FALSE /\ s8 = FALSE
  BY <1>1 DEF Config!Init
<1>6. ConfigTyped
  BY <1>4, <1>5 DEF ConfigTyped
<1>7. \A p \in Procs : Settled(s5[p], s2) /\ AtWork(s3[p], s4[p], s2)
  BY <1>5, NothingSettled DEF AtWork
<1>8. Told /\ Alone /\ NoStrays
  BY <1>5 DEF Told, Alone, NoStrays
<1> QED BY <1>3, <1>6, <1>7, <1>8 DEF ConfigInv

\* The command that process p begins.
LEMMA Starts ==
    ASSUME ConfigInv, NEW p \in Procs, NEW k \in Jobs, NEW l \in {"directory", "read"},
           Config!Start(p, k, l), UNCHANGED <<s1, s2, s5, s6, s8>>,
           l = "directory" => k \in ContactJobs /\ k.name \notin NamesOf(s1) /\ s2[k.name] = "none",
           l = "read" => k \in LabelJobs
    PROVE  ConfigInv'
<1>0. ConfigTyped
  BY DEF ConfigInv
<1>1. /\ s3[p] = "idle" /\ s3' = [s3 EXCEPT ![p] = l] /\ s4' = [s4 EXCEPT ![p] = {k}]
      /\ s7' = (s7 \/ \E q \in Procs \ {p} : s3[q] # "idle")
  BY DEF Config!Start, Config!Goto
<1>2. /\ s3'[p] = l /\ s4'[p] = {k} /\ Job(s4'[p]) = k
      /\ \A q \in Procs \ {p} : s3'[q] = s3[q] /\ s4'[q] = s4[q]
  BY <1>0, <1>1, OneJob DEF ConfigTyped
<1>3. s7' \in BOOLEAN
  BY <1>0, <1>1 DEF ConfigTyped
<1>4. ConfigTyped'
  BY <1>0, <1>1, <1>3 DEF ConfigTyped
<1>5. \A q \in Procs : Settled(s5'[q], s2') /\ AtWork(s3'[q], s4'[q], s2')
  BY <1>2, JobKinds DEF ConfigInv, AtWork
<1>6. ~ s7' /\ ~ s8' => Told' /\ Alone' /\ NoStrays'
  <2> SUFFICES ASSUME ~ s7', ~ s8' PROVE Told' /\ Alone' /\ NoStrays'
    OBVIOUS
  <2>1. ~ s7 /\ ~ s8 /\ \A q \in Procs \ {p} : s3[q] = "idle"
    BY <1>1
  <2>2. Told /\ Alone /\ NoStrays
    BY <2>1 DEF ConfigInv
  <2>3. Told'
    BY <2>2 DEF Told
  <2>4. Alone'
    BY <1>2, <2>1, JobKinds DEF Alone, NamesOf
  <2>5. NoStrays'
    BY <1>1, <2>1, <2>2 DEF NoStrays, NamesOf
  <2> QED BY <2>3, <2>4, <2>5
<1> QED BY <1>4, <1>5, <1>6 DEF ConfigInv, Settled

LEMMA ConfigStep ==
    ASSUME ConfigInv, Config!Next \/ UNCHANGED <<s1, s2, s3, s4, s5, s6, s7, s8, s9>>
    PROVE  ConfigInv'
<1>0. /\ ConfigTyped /\ Settled(s1, s2)
      /\ \A p \in Procs : Settled(s5[p], s2) /\ AtWork(s3[p], s4[p], s2)
      /\ ~ s7 /\ ~ s8 => Told /\ Alone /\ NoStrays
      /\ s2 \in [Config!Names -> {"none", "text", "linked"}]
      /\ s3 \in [Procs -> {"idle", "directory", "link", "read", "write"}]
      /\ s4 \in [Procs -> SUBSET Jobs] /\ s5 \in [Procs -> Configs] /\ s6 \in SUBSET Jobs
      /\ s7 \in BOOLEAN /\ s8 \in BOOLEAN
  BY DEF ConfigInv, ConfigTyped
<1>t. \A p \in Procs : Config!The(p) = Job(s4[p])
  BY DEF Config!The, Job
<1>1. ASSUME NEW p \in Procs, NEW n \in Config!Names, NEW e \in Emails, Config!AddContact(p, n, e)
      PROVE  ConfigInv'
  <2>1. /\ n \notin NamesOf(s1) /\ s2[n] = "none" /\ Config!Start(p, Config!Contact(n, e), "directory")
        /\ UNCHANGED <<s1, s2, s5, s6, s8>>
    BY <1>1 DEF Config!AddContact, Config!Free, Config!Configured, NamesOf
  <2>2. Config!Contact(n, e) \in ContactJobs /\ Config!Contact(n, e).name = n
    BY DEF Config!Contact, ContactJobs
  <2> QED BY <2>1, <2>2, Starts DEF Jobs
<1>2. ASSUME NEW p \in Procs, NEW q \in Config!Participants, Config!FromConversation(p, q) PROVE ConfigInv'
  <2>1. q.email \in Emails /\ Slug[q.name] \in Config!Names
    BY DEF Emails, Config!Names, Config!Participants
  <2> QED BY <1>1, <1>2, <2>1 DEF Config!FromConversation
<1>3. ASSUME NEW p \in Procs, NEW l \in UserLabels, Config!AddLabel(p, l) PROVE ConfigInv'
  <2>1. Config!Start(p, Config!Label(l), "read") /\ UNCHANGED <<s1, s2, s5, s6, s8>>
    BY <1>3 DEF Config!AddLabel
  <2>2. Config!Label(l) \in LabelJobs
    BY DEF Config!Label, LabelJobs
  <2> QED BY <2>1, <2>2, Starts DEF Jobs
<1>4. ASSUME NEW p \in Procs, Config!MakeDirectory(p) PROVE ConfigInv'
  <2> DEFINE n == Job(s4[p]).name
  <2>1. /\ s3[p] = "directory" /\ s3' = [s3 EXCEPT ![p] = "link"]
        /\ s2' = [s2 EXCEPT ![n] = IF s2[n] = "none" THEN "text" ELSE s2[n]]
        /\ UNCHANGED <<s1, s4, s5, s6, s7, s8>>
    BY <1>4, <1>t DEF Config!MakeDirectory, Config!Goto
  <2>2. Job(s4[p]) \in ContactJobs /\ n \in Config!Names
    BY <1>0, <2>1, JobKinds DEF AtWork
  <2> HIDE DEF n
  <2>3. /\ s2' \in [Config!Names -> {"none", "text", "linked"}]
        /\ \A m \in Config!Names \ {n} : s2'[m] = s2[m]
        /\ \A m \in Config!Names : s2[m] = "linked" => s2'[m] = "linked"
        /\ s2[n] = "none" => s2'[n] = "text"
    BY <1>0, <2>1, <2>2
  <2>4. s3'[p] = "link" /\ \A q \in Procs \ {p} : s3'[q] = s3[q]
    BY <1>0, <2>1
  <2>5. ConfigTyped'
    BY <1>0, <2>1, <2>3 DEF ConfigTyped
  <2>6. \A q \in Procs : Settled(s5[q], s2') /\ AtWork(s3'[q], s4[q], s2')
    <3>1. AtWork(s3'[p], s4[p], s2')
      BY <2>2, <2>4 DEF AtWork, Jobs
    <3>2. \A q \in Procs : Settled(s5[q], s2')
      BY <1>0, <2>3, StaysSettled
    <3>3. \A q \in Procs \ {p} : AtWork(s3'[q], s4[q], s2')
      BY <1>0, <2>3, <2>4, JobKinds DEF AtWork
    <3> QED BY <3>1, <3>2, <3>3
  <2>7. Settled(s1, s2')
    BY <1>0, <2>3, StaysSettled
  <2>8. ~ s7 /\ ~ s8 => Told' /\ Alone' /\ NoStrays'
    <3> SUFFICES ASSUME ~ s7, ~ s8 PROVE Told' /\ Alone' /\ NoStrays'
      OBVIOUS
    <3>1. Told /\ Alone /\ NoStrays
      BY <1>0
    <3>2. s2[n] = "none" /\ \A q \in Procs \ {p} : s3[q] = "idle"
      BY <2>1, <3>1 DEF Alone, n
    <3>3. Told'
      BY <2>1, <3>1 DEF Told
    <3>4. Alone'
      BY <2>1, <2>2, <2>3, <2>4, <3>1, <3>2 DEF Alone, NamesOf, n
    <3>5. NoStrays'
      BY <2>1, <2>2, <2>3, <2>4, <3>1, <3>2 DEF NoStrays, NamesOf, n
    <3> QED BY <3>3, <3>4, <3>5
  <2> QED BY <2>1, <2>5, <2>6, <2>7, <2>8 DEF ConfigInv
<1>5. ASSUME NEW p \in Procs, Config!Link(p) PROVE ConfigInv'
  <2> DEFINE n == Job(s4[p]).name
  <2>1. /\ s3[p] = "link" /\ s3' = [s3 EXCEPT ![p] = IF s2[n] = "linked" THEN "idle" ELSE "read"]
        /\ s2' = [s2 EXCEPT ![n] = "linked"]
        /\ UNCHANGED <<s1, s4, s5, s6, s7, s8>>
    BY <1>5, <1>t DEF Config!Link, Config!Goto
  <2>2. Job(s4[p]) \in ContactJobs /\ n \in Config!Names
    BY <1>0, <2>1, JobKinds DEF AtWork
  <2> HIDE DEF n
  <2>3. /\ s2' \in [Config!Names -> {"none", "text", "linked"}] /\ s2'[n] = "linked"
        /\ \A m \in Config!Names \ {n} : s2'[m] = s2[m]
        /\ \A m \in Config!Names : s2[m] = "linked" => s2'[m] = "linked"
    BY <1>0, <2>1, <2>2
  <2>4. /\ s3'[p] = IF s2[n] = "linked" THEN "idle" ELSE "read"
        /\ \A q \in Procs \ {p} : s3'[q] = s3[q]
    BY <1>0, <2>1
  <2>5. ConfigTyped'
    BY <1>0, <2>1, <2>3 DEF ConfigTyped
  <2>6. \A q \in Procs : Settled(s5[q], s2') /\ AtWork(s3'[q], s4[q], s2')
    <3>1. AtWork(s3'[p], s4[p], s2')
      BY <2>2, <2>3, <2>4 DEF AtWork, Jobs, n
    <3> QED BY <1>0, <2>3, <2>4, <3>1, StaysSettled, JobKinds DEF AtWork
  <2>7. Settled(s1, s2')
    BY <1>0, <2>3, StaysSettled
  <2>8. ~ s7 /\ ~ s8 => Told' /\ Alone' /\ NoStrays'
    <3> SUFFICES ASSUME ~ s7, ~ s8 PROVE Told' /\ Alone' /\ NoStrays'
      OBVIOUS
    <3>1. Told /\ Alone /\ NoStrays
      BY <1>0
    <3>2. s2[n] = "text" /\ s3'[p] = "read" /\ \A q \in Procs \ {p} : s3[q] = "idle"
      BY <2>1, <2>4, <3>1 DEF Alone, n
    <3>3. Told'
      BY <2>1, <3>1 DEF Told
    <3>4. Alone'
      BY <2>1, <2>2, <2>3, <2>4, <3>1, <3>2 DEF Alone, NamesOf, n
    <3>5. NoStrays'
      BY <2>1, <2>2, <2>3, <2>4, <3>1, <3>2 DEF NoStrays, NamesOf, n
    <3> QED BY <3>3, <3>4, <3>5
  <2> QED BY <2>1, <2>5, <2>6, <2>7, <2>8 DEF ConfigInv
<1>6. ASSUME NEW p \in Procs, Config!Read(p) PROVE ConfigInv'
  <2>1. /\ s3[p] = "read" /\ s3' = [s3 EXCEPT ![p] = "write"] /\ s5' = [s5 EXCEPT ![p] = s1]
        /\ UNCHANGED <<s1, s2, s4, s6, s7, s8>>
    BY <1>6 DEF Config!Read, Config!Goto
  <2>2. /\ s3'[p] = "write" /\ s5'[p] = s1
        /\ \A q \in Procs \ {p} : s3'[q] = s3[q] /\ s5'[q] = s5[q]
    BY <1>0, <2>1
  <2>3. ConfigTyped'
    BY <1>0, <2>1 DEF ConfigTyped, Settled
  <2>4. \A q \in Procs : Settled(s5'[q], s2) /\ AtWork(s3'[q], s4[q], s2)
    BY <1>0, <2>1, <2>2 DEF AtWork
  <2>5. ~ s7 /\ ~ s8 => Told' /\ Alone' /\ NoStrays'
    <3>1. Told => Told'
      BY <2>1 DEF Told
    <3>2. Alone => Alone'
      BY <2>1, <2>2 DEF Alone, NamesOf
    <3>3. NoStrays => NoStrays'
      BY <2>1, <2>2 DEF NoStrays, NamesOf
    <3> QED BY <1>0, <3>1, <3>2, <3>3
  <2> QED BY <1>0, <2>1, <2>3, <2>4, <2>5 DEF ConfigInv
<1>7. ASSUME NEW p \in Procs, Config!Write(p) PROVE ConfigInv'
  <2> DEFINE k == Job(s4[p])
  <2>1. /\ s3[p] = "write" /\ s3' = [s3 EXCEPT ![p] = "idle"] /\ s1' = Config!Edited(s5[p], k)
        /\ s6' = s6 \cup {k} /\ UNCHANGED <<s2, s4, s5, s7, s8>>
    BY <1>7, <1>t DEF Config!Write, Config!Goto
  <2>2. k \in Jobs /\ (k \in ContactJobs => s2[k.name] = "linked") /\ Settled(s5[p], s2)
    BY <1>0, <2>1 DEF AtWork
  <2>3. s3'[p] = "idle" /\ \A q \in Procs \ {p} : s3'[q] = s3[q]
    BY <1>0, <2>1
  <2>4. ConfigTyped'
    BY <1>0, <2>1, <2>2 DEF ConfigTyped
  <2>5. \A q \in Procs : Settled(s5[q], s2) /\ AtWork(s3'[q], s4[q], s2)
    BY <1>0, <2>3 DEF AtWork
  <2> HIDE DEF k
  <2>6. CASE k \in ContactJobs
    <3>1. /\ s1'.contacts = {x \in s5[p].contacts : x.name # k.name} \cup {k}
          /\ s1'.labels = s5[p].labels /\ s1' \in Configs
      BY <2>1, <2>2, <2>6, JobKinds DEF Config!Edited, Settled, Configs
    <3>2. IsFiniteSet(s1'.contacts)
      <4>1. {x \in s5[p].contacts : x.name # k.name} \in SUBSET s5[p].contacts
        OBVIOUS
      <4>2. IsFiniteSet({x \in s5[p].contacts : x.name # k.name})
        BY <2>2, <4>1, FS_Subset DEF Settled
      <4> QED BY <3>1, <4>2, FS_AddElement
    <3>3. Settled(s1', s2)
      BY <2>2, <2>6, <3>1, <3>2 DEF Settled
    <3>4. ~ s7 /\ ~ s8 => Told' /\ Alone' /\ NoStrays'
      <4> SUFFICES ASSUME ~ s7, ~ s8 PROVE Told' /\ Alone' /\ NoStrays'
        OBVIOUS
      <4>1. Told /\ Alone /\ NoStrays
        BY <1>0
      <4>2. /\ s5[p] = s1 /\ k.name \notin NamesOf(s1) /\ \A q \in Procs \ {p} : s3[q] = "idle"
        BY <2>1, <2>6, <4>1 DEF Alone, k
      <4>3. s1'.contacts = s1.contacts \cup {k} /\ s1'.labels = s1.labels
        BY <3>1, <4>2 DEF NamesOf
      <4>4. Told'
        BY <2>1, <2>6, <4>1, <4>3, JobKinds DEF Told
      <4>5. Alone'
        BY <2>3, <4>2 DEF Alone
      <4>6. NamesOf(s1') = NamesOf(s1) \cup {k.name}
        BY <4>3 DEF NamesOf
      <4>7. NoStrays'
        BY <2>1, <2>3, <4>1, <4>2, <4>6 DEF NoStrays, k
      <4> QED BY <4>4, <4>5, <4>7
    <3> QED BY <2>1, <2>4, <2>5, <3>3, <3>4 DEF ConfigInv
  <2>7. CASE k \in LabelJobs
    <3>1. /\ s1'.contacts = s5[p].contacts /\ s1'.labels = {ls \cup {k} : ls \in s5[p].labels}
          /\ s1' = [s5[p] EXCEPT !.labels = {ls \cup {k} : ls \in s5[p].labels}]
      BY <2>1, <2>2, <2>7, JobKinds DEF Config!Edited, Settled, Configs
    <3>2. s1' \in Configs
      <4>1. {ls \cup {k} : ls \in s5[p].labels} \in SUBSET SUBSET LabelJobs
        BY <2>2, <2>7 DEF Settled, Configs
      <4> QED BY <2>2, <3>1, <4>1 DEF Settled, Configs
    <3>3. Settled(s1', s2)
      BY <2>2, <3>1, <3>2 DEF Settled
    <3>4. ~ s7 /\ ~ s8 => Told' /\ Alone' /\ NoStrays'
      <4> SUFFICES ASSUME ~ s7, ~ s8 PROVE Told' /\ Alone' /\ NoStrays'
        OBVIOUS
      <4>1. Told /\ Alone /\ NoStrays
        BY <1>0
      <4>2. s5[p] = s1 /\ \A q \in Procs \ {p} : s3[q] = "idle"
        BY <2>1, <4>1 DEF Alone
      <4>3. Told'
        BY <2>1, <2>7, <3>1, <4>1, <4>2, JobKinds DEF Told
      <4>4. Alone'
        BY <2>3, <4>2 DEF Alone
      <4>5. NamesOf(s1') = NamesOf(s1)
        BY <3>1, <4>2 DEF NamesOf
      <4>6. NoStrays'
        BY <2>1, <2>3, <2>7, <4>1, <4>2, <4>5, JobKinds DEF NoStrays, k
      <4> QED BY <4>3, <4>4, <4>6
    <3> QED BY <2>1, <2>4, <2>5, <3>3, <3>4 DEF ConfigInv
  <2> QED BY <2>2, <2>6, <2>7 DEF Jobs
<1>8. ASSUME NEW p \in Procs, Config!Kill(p) PROVE ConfigInv'
  <2>1. /\ s3' = [s3 EXCEPT ![p] = "idle"] /\ s8' = TRUE /\ s1' \in {s1, Config!Nothing}
        /\ UNCHANGED <<s2, s4, s5, s6, s7>>
    BY <1>8 DEF Config!Kill, Config!Goto
  <2>2. ConfigTyped'
    BY <1>0, <2>1 DEF ConfigTyped
  <2>3. Settled(s1', s2')
    BY <1>0, <2>1, NothingSettled
  <2>4. \A q \in Procs : AtWork(s3'[q], s4[q], s2)
    BY <1>0, <2>1 DEF AtWork
  <2> QED BY <1>0, <2>1, <2>2, <2>3, <2>4 DEF ConfigInv
<1>9. CASE UNCHANGED <<s1, s2, s3, s4, s5, s6, s7, s8, s9>>
  BY <1>0, <1>9 DEF ConfigInv, ConfigTyped, Told, Alone, NoStrays, Settled, AtWork, NamesOf
<1>10. "new@x" \in Emails
  BY DEF Emails
<1> QED BY <1>1, <1>2, <1>3, <1>4, <1>5, <1>6, <1>7, <1>8, <1>9, <1>10 DEF Config!Next

LEMMA ToldConfig == ConfigInv => Config!ConfigIsAsTold
<1> SUFFICES ASSUME ConfigInv PROVE Config!ConfigIsAsTold
  OBVIOUS
<1>0. Settled(s1, s2) /\ ConfigTyped
  BY DEF ConfigInv
<1>1. Config!ContactsHaveDirectories
  <2> DEFINE f == [k \in s1.contacts |-> k.name]
  <2>1. \A S : Config!Cardinality(S) = Cardinality(S)
    BY DEF Config!Cardinality, Cardinality
  <2>2. /\ f \in [s1.contacts -> NamesOf(s1)] /\ \A x, y \in s1.contacts : f[x] = f[y] => x = y
        /\ \A n \in NamesOf(s1) : \E x \in s1.contacts : f[x] = n
    BY <1>0 DEF Settled, NamesOf
  <2> HIDE DEF f
  <2>3. f \in Bijection(s1.contacts, NamesOf(s1))
    BY <2>2 DEF Bijection, Injection, Surjection, IsInjective
  <2>4. Cardinality(NamesOf(s1)) = Cardinality(s1.contacts)
    BY <1>0, <2>3, FS_Bijection DEF ExistsBijection, Settled
  <2>5. Config!Configured(s1) = NamesOf(s1)
    BY DEF Config!Configured, NamesOf
  <2> QED BY <1>0, <2>1, <2>4, <2>5 DEF Config!ContactsHaveDirectories, Settled
<1>2. Config!AddedIsConfigured
  BY JobKinds DEF ConfigInv, ConfigTyped, Told, Jobs, Config!AddedIsConfigured
<1>3. Config!NoStrayDirectories
  BY DEF ConfigInv, NoStrays, NamesOf, Config!Configured, Config!NoStrayDirectories
<1> QED BY <1>1, <1>2, <1>3 DEF Config!ConfigIsAsTold

\* With one mailbox, a contact sync ends with the newest edit, if that was made between two
\* runs and no write was cut since: whatever broke off before, between a write and its time
\* too, whatever was edited during earlier runs, and whatever hashes a mail sync saves
\* (contact/sync.rs); as long as pushes take turns, Google
\* has a contact once, but for those whose resource name was lost (contact/push.rs); and what
\* `contact add' and `add-label' reported is in .corky.toml (contact/add.rs, config_edit.rs).
THEOREM ContactsStayTrue == WorkspaceSpec => []ContactsAreKept
<1> DEFINE I == /\ part = "contacts" => CopyInv
                /\ part = "people" => PeopleInv
                /\ part = "config" => ConfigInv
<1>1. WorkspaceInit => I
  BY CopyStarts, PeopleStart, ConfigStarts
<1>2. I /\ [WorkspaceNext]_wsVars => I'
  <2>1. [WorkspaceNext]_wsVars => part' = part
    BY DEF WorkspaceNext, wsVars
  <2> QED BY <2>1, CopyMoves, CopyStep, PeopleMove, PeopleStep, ConfigMoves, ConfigStep
<1>3. I => ContactsAreKept
  <2>1. CopyInv => Synced!NewestWins
    BY OneMailbox DEF CopyInv, RunTells, Synced!NewestWins, Synced!Completed
  <2> QED BY <2>1, PeopleOnce, ToldConfig DEF ContactsAreKept
<1> QED BY <1>1, <1>2, <1>3, PTL DEF WorkspaceSpec

-----------------------------------------------------------------------------
(* The text and the images of a post *)

\* The images that were uploaded are the first of the draft, and all of those that a post
\* has; a post shows the body it was last given.
PostInv ==
    /\ s1 \in LinkedIn!Bodies /\ s6 \in LinkedIn!Bodies
    /\ s2 \in LinkedIn!SeqOf(BOOLEAN, ImageLimit + 1)
    /\ s3 \in Seq(Nat) /\ Len(s3) <= Len(s2)
    /\ \A i \in 1..Len(s3) : s3[i] = i /\ s2[i]
    /\ s5 = "images" => s4 = {}
    /\ \A p \in s4 : /\ p = [text |-> p.text, images |-> p.images]
                     /\ p.text = LinkedIn!Stripped(s6) /\ p.images = s3 /\ Len(s3) = Len(s2)

\* What a bounded sequence is.
LEMMA BoundedText ==
    ASSUME NEW S, NEW n \in Nat, NEW s \in LinkedIn!SeqOf(S, n)
    PROVE  s \in Seq(S) /\ DOMAIN s = 1..Len(s) /\ Len(s) \in Nat
<1>1. PICK m \in 0..n : s \in [1..m -> S]
  BY DEF LinkedIn!SeqOf
<1> QED BY <1>1

\* LinkedIn shows the text that corky has escaped.
LEMMA CommentaryIsShown ==
    ASSUME TextsAssumption, NEW s \in LinkedIn!Bodies
    PROVE  LinkedIn!Shown(LinkedIn!Commentary(s)) = LinkedIn!Stripped(s)
<1>1. LinkedIn!Chars = Chars /\ LinkedIn!Reserved = Reserved
  BY DEF LinkedIn!Chars, Chars, LinkedIn!Reserved, Reserved
<1>2. \A t, I : LinkedIn!At(t, I) = At(t, I)
  BY DEF LinkedIn!At, At, LinkedIn!InOrder, InOrder
<1>3. \A t, i : LinkedIn!RunStart(t, i) = RunStart(t, i)
  BY DEF LinkedIn!RunStart, RunStart, LinkedIn!Min, Min
<1>4. \A t : LinkedIn!Stripped(t) = Stripped(t)
  BY <1>2, <1>3 DEF LinkedIn!Stripped, Stripped, LinkedIn!WithoutBold, WithoutBold,
                    LinkedIn!WithoutTicks, WithoutTicks
<1>5. \A t : LinkedIn!Escaped(t) = Escaped(t)
  BY <1>1 DEF LinkedIn!Escaped, Escaped, LinkedIn!FlattenSeq, FlattenSeq
<1>6. \A t, i : LinkedIn!Escapes(t, i) = Escapes(t, i) /\ LinkedIn!IsEscaped(t, i) = IsEscaped(t, i)
  BY <1>3 DEF LinkedIn!Escapes, Escapes, LinkedIn!IsEscaped, IsEscaped
<1>7. \A t : LinkedIn!Cuts(t) = Cuts(t)
  BY <1>1, <1>6 DEF LinkedIn!Cuts, Cuts
<1>8. \A t : LinkedIn!Shown(t) = Shown(t)
  BY <1>2, <1>6, <1>7 DEF LinkedIn!Shown, Shown
<1>9. s \in Seq(Chars)
  BY <1>1, BoundedText DEF LinkedIn!Bodies, TextsAssumption, LinkedIn!PostAssumption
<1>10. Stripped(s) \in Seq(Chars)
  BY <1>9, StrippedIsText
<1>11. Shown(Escaped(Stripped(s))) = Stripped(s)
  BY <1>10, EscapedIsShown
<1> QED BY <1>4, <1>5, <1>8, <1>11 DEF LinkedIn!Commentary

\* What is stripped has the words of the body and no marker.
LEMMA StrippedIsShort ==
    ASSUME TextsAssumption, NEW s \in LinkedIn!Bodies
    PROVE  /\ LinkedIn!Words(LinkedIn!Stripped(s)) = LinkedIn!Words(s)
           /\ ~ LinkedIn!HasMarkers(LinkedIn!Stripped(s))
<1>1. LinkedIn!Chars = Chars
  BY DEF LinkedIn!Chars, Chars
<1>2. \A t, I : LinkedIn!At(t, I) = At(t, I)
  BY DEF LinkedIn!At, At, LinkedIn!InOrder, InOrder
<1>3. \A t, i : LinkedIn!RunStart(t, i) = RunStart(t, i)
  BY DEF LinkedIn!RunStart, RunStart, LinkedIn!Min, Min
<1>4. \A t : LinkedIn!Stripped(t) = Stripped(t)
  BY <1>2, <1>3 DEF LinkedIn!Stripped, Stripped, LinkedIn!WithoutBold, WithoutBold,
                    LinkedIn!WithoutTicks, WithoutTicks
<1>5. \A t : LinkedIn!Words(t) = Words(t) /\ LinkedIn!HasMarkers(t) = HasMarkers(t)
  BY <1>2 DEF LinkedIn!Words, Words, LinkedIn!HasMarkers, HasMarkers
<1>6. s \in Seq(Chars)
  BY <1>1, BoundedText DEF LinkedIn!Bodies, TextsAssumption, LinkedIn!PostAssumption
<1>7. Words(Stripped(s)) = Words(s) /\ ~ HasMarkers(Stripped(s))
  BY <1>6, StrippedHasNoMarkers
<1> QED BY <1>4, <1>5, <1>7

\* Nothing is uploaded or posted at first.
LEMMA PostInit == TextsAssumption /\ LinkedIn!Init => PostInv
<1> SUFFICES ASSUME TextsAssumption, LinkedIn!Init PROVE PostInv
  OBVIOUS
<1>1. s1 \in LinkedIn!Bodies /\ s2 \in LinkedIn!SeqOf(BOOLEAN, ImageLimit + 1)
      /\ s3 = <<>> /\ s4 = {} /\ s6 = <<>>
  BY DEF LinkedIn!Init
<1>2. ImageLimit + 1 \in Nat /\ MaxPostBody \in Nat
  BY DEF TextsAssumption, LinkedIn!PostAssumption
<1>3. s6 \in LinkedIn!Bodies
  <2>1. s6 \in [1..0 -> LinkedIn!Chars] /\ 0 \in 0..MaxPostBody
    BY <1>1, <1>2
  <2> QED BY <2>1 DEF LinkedIn!Bodies, LinkedIn!SeqOf
<1>4. Len(s2) \in Nat
  BY <1>1, <1>2, BoundedText
<1>5. s3 \in Seq(Nat) /\ Len(s3) = 0
  BY <1>1
<1> QED BY <1>1, <1>3, <1>4, <1>5 DEF PostInv

\* In the part of the posts, every step is one of LinkedInPost.
LEMMA PostMoves ==
    ASSUME part = "linkedin", [WorkspaceNext]_wsVars
    PROVE  part' = part /\ (LinkedIn!Next \/ UNCHANGED <<s1, s2, s3, s4, s5, s6, s7>>)
BY DEF WorkspaceNext, wsVars, registers

\* A post that is created has the body and the images of the draft.
LEMMA CreatedPost ==
    ASSUME TextsAssumption, PostInv, Len(s3) = Len(s2), s1' = s1, s2' = s2, s3' = s3, s6' = s1,
           s4' = {[text |-> LinkedIn!Shown(LinkedIn!Commentary(s1)), images |-> s3]},
           s5' # "images"
    PROVE  PostInv'
<1>1. s1 \in LinkedIn!Bodies
  BY DEF PostInv
<1>2. LinkedIn!Shown(LinkedIn!Commentary(s1)) = LinkedIn!Stripped(s1)
  BY <1>1, CommentaryIsShown
<1>3. /\ s1' \in LinkedIn!Bodies /\ s6' \in LinkedIn!Bodies
      /\ s2' \in LinkedIn!SeqOf(BOOLEAN, ImageLimit + 1)
      /\ s3' \in Seq(Nat) /\ Len(s3') <= Len(s2')
      /\ \A i \in 1..Len(s3') : s3'[i] = i /\ s2'[i]
  BY <1>1 DEF PostInv
<1>4. ASSUME NEW p \in s4'
      PROVE  /\ p = [text |-> p.text, images |-> p.images]
             /\ p.text = LinkedIn!Stripped(s6') /\ p.images = s3' /\ Len(s3') = Len(s2')
  BY <1>2
<1> QED BY <1>3, <1>4 DEF PostInv

\* Every step of a post keeps its invariant, a request that fails before or after LinkedIn
\* has carried it out among them.
LEMMA PostStep ==
    ASSUME TextsAssumption, PostInv, LinkedIn!Next \/ UNCHANGED <<s1, s2, s3, s4, s5, s6, s7>>
    PROVE  PostInv'
<1>1. CASE UNCHANGED <<s1, s2, s3, s4, s5, s6, s7>>
  BY <1>1 DEF PostInv
<1>2. CASE LinkedIn!UploadImage
  <2>1. /\ s5 = "images" /\ Len(s3) < Len(s2) /\ s4 = {} /\ s4' = {}
        /\ s1' = s1 /\ s2' = s2 /\ s6' = s6
    BY <1>2 DEF LinkedIn!UploadImage, PostInv
  <2>2. CASE s2[Len(s3) + 1]
    <3>1. s3' = Append(s3, Len(s3) + 1)
      BY <1>2, <2>2 DEF LinkedIn!UploadImage
    <3>2. Len(s2) \in Nat /\ Len(s3) \in Nat /\ s3 \in Seq(Nat)
      <4>1. s2 \in LinkedIn!SeqOf(BOOLEAN, ImageLimit + 1) /\ ImageLimit + 1 \in Nat
        BY DEF PostInv, TextsAssumption, LinkedIn!PostAssumption
      <4>2. Len(s2) \in Nat
        BY <4>1, BoundedText
      <4> QED BY <4>2 DEF PostInv
    <3>3. /\ s3' \in Seq(Nat) /\ Len(s3') = Len(s3) + 1 /\ s3'[Len(s3) + 1] = Len(s3) + 1
          /\ \A i \in 1..Len(s3) : s3'[i] = s3[i]
      BY <3>1, <3>2
    <3>4. ASSUME NEW i \in 1..Len(s3') PROVE s3'[i] = i /\ s2'[i]
      <4>1. CASE i = Len(s3) + 1
        BY <4>1, <3>3, <2>1, <2>2
      <4>2. CASE i # Len(s3) + 1
        <5>1. i \in 1..Len(s3)
          BY <4>2, <3>2, <3>3
        <5> QED BY <5>1, <3>3, <2>1 DEF PostInv
      <4> QED BY <4>1, <4>2
    <3>5. Len(s3') <= Len(s2')
      BY <2>1, <3>2, <3>3
    <3> QED BY <2>1, <3>3, <3>4, <3>5 DEF PostInv
  <2>3. CASE ~ s2[Len(s3) + 1]
    <3>1. s3' = s3
      BY <1>2, <2>3 DEF LinkedIn!UploadImage
    <3> QED BY <2>1, <3>1 DEF PostInv
  <2> QED BY <2>2, <2>3
<1>3. CASE LinkedIn!CreatePost
  <2>1. s1' = s1 /\ s2' = s2 /\ s3' = s3 /\ Len(s3) = Len(s2) /\ s5 = "images"
    BY <1>3 DEF LinkedIn!CreatePost
  <2>2. CASE LinkedIn!Fits /\ Len(s2) <= ImageLimit
    <3>1. /\ s4' = {[text |-> LinkedIn!Shown(LinkedIn!Commentary(s1)), images |-> s3]}
          /\ s6' = s1 /\ s5' # "images"
      BY <1>3, <2>2 DEF LinkedIn!CreatePost
    <3> QED BY <2>1, <3>1, CreatedPost
  <2>3. CASE ~ (LinkedIn!Fits /\ Len(s2) <= ImageLimit)
    <3>1. s4' = s4 /\ s6' = s6 /\ s5' = "failed"
      BY <1>3, <2>3 DEF LinkedIn!CreatePost
    <3> QED BY <2>1, <3>1 DEF PostInv
  <2> QED BY <2>2, <2>3
<1>4. CASE LinkedIn!UpdatePost
  <2>1. s1' = s1 /\ s2' = s2 /\ s3' = s3 /\ s4 # {} /\ s5 # "images"
    BY <1>4 DEF LinkedIn!UpdatePost
  <2>2. CASE LinkedIn!Fits
    <3>1. /\ s4' = {[p EXCEPT !.text = LinkedIn!Shown(LinkedIn!Commentary(s1))] : p \in s4}
          /\ s6' = s1 /\ s5' # "images"
      BY <1>4, <2>2 DEF LinkedIn!UpdatePost
    <3>2. Len(s3) = Len(s2)
      BY <2>1 DEF PostInv
    <3> DEFINE x == LinkedIn!Shown(LinkedIn!Commentary(s1))
    <3>3. s4' = {[p EXCEPT !.text = x] : p \in s4}
      BY <3>1
    <3> HIDE DEF x
    <3>4. \A p \in s4 : [p EXCEPT !.text = x] = [text |-> x, images |-> s3]
      <4>1. TAKE p \in s4
      <4>2. p = [text |-> p.text, images |-> p.images] /\ p.images = s3
        BY DEF PostInv
      <4> QED BY <4>2
    <3>5. s4' = {[text |-> x, images |-> s3]}
      BY <3>3, <3>4, <2>1
    <3> QED BY <2>1, <3>1, <3>2, <3>5, CreatedPost DEF x
  <2>3. CASE ~ LinkedIn!Fits
    <3>1. s4' = s4 /\ s6' = s6 /\ s5' = s5
      BY <1>4, <2>3 DEF LinkedIn!UpdatePost
    <3> QED BY <2>1, <3>1 DEF PostInv
  <2> QED BY <2>2, <2>3
<1>5. CASE LinkedIn!RequestFails
  <2>1. s1' = s1 /\ s2' = s2 /\ s3' = s3 /\ s5' # "images"
    BY <1>5 DEF LinkedIn!RequestFails
  <2>2. CASE s4' = s4
    <3>1. s6' = s6
      BY <1>5, <2>2 DEF LinkedIn!RequestFails
    <3> QED BY <2>1, <2>2, <3>1 DEF PostInv
  <2>3. CASE s4' # s4
    <3>1. /\ s4' = {[text |-> LinkedIn!Shown(LinkedIn!Commentary(s1)), images |-> s3]}
          /\ Len(s3) = Len(s2) /\ s6' = s1
      BY <1>5, <2>3 DEF LinkedIn!RequestFails
    <3> QED BY <2>1, <3>1, CreatedPost
  <2> QED BY <2>2, <2>3
<1>6. ASSUME NEW s \in LinkedIn!Bodies, LinkedIn!Edit(s) PROVE PostInv'
  <2>1. s1' = s /\ s2' = s2 /\ s3' = s3 /\ s4' = s4 /\ s5' = s5 /\ s6' = s6
    BY <1>6 DEF LinkedIn!Edit
  <2> QED BY <2>1 DEF PostInv
<1> QED BY <1>1, <1>2, <1>3, <1>4, <1>5, <1>6 DEF LinkedIn!Next

\* The invariant says that a post is whole.
LEMMA PostKept ==
    ASSUME TextsAssumption, PostInv PROVE LinkedIn!PostIsWhole
<1>1. ASSUME NEW p \in s4
      PROVE  /\ LinkedIn!Words(p.text) = LinkedIn!Words(s6) /\ ~ LinkedIn!HasMarkers(p.text)
             /\ p.images = [i \in 1..Len(s2) |-> i] /\ \A i \in DOMAIN s2 : s2[i]
  <2>0. s6 \in LinkedIn!Bodies
    BY DEF PostInv
  <2>1. p.text = LinkedIn!Stripped(s6) /\ p.images = s3 /\ Len(s3) = Len(s2) /\ s3 \in Seq(Nat)
        /\ \A i \in 1..Len(s3) : s3[i] = i /\ s2[i]
    BY DEF PostInv
  <2>2. s2 \in LinkedIn!SeqOf(BOOLEAN, ImageLimit + 1) /\ ImageLimit + 1 \in Nat
    BY DEF PostInv, TextsAssumption, LinkedIn!PostAssumption
  <2>3. DOMAIN s2 = 1..Len(s2)
    BY <2>2, BoundedText
  <2>4. s3 = [i \in 1..Len(s2) |-> i]
    BY <2>1
  <2> QED BY <2>0, <2>1, <2>3, <2>4, StrippedIsShort
<1> QED BY <1>1 DEF LinkedIn!PostIsWhole

-----------------------------------------------------------------------------
(* The text of an email draft *)

\* The lines of a legacy draft, which may be marked as sent.
LegacyTexts == Seq(Draft!LegacyLines \cup {Draft!Meta("Status", "sent")})

\* The front matter that serde reads.
IsFrontMatter(m) ==
    /\ m = [to |-> m.to, subject |-> m.subject, status |-> m.status, attachments |-> m.attachments]
    /\ m.to \in Recipients \cup {Draft!Missing} /\ m.status \in Draft!Statuses

IsLegacy(t) == t = [form |-> "legacy", lines |-> t.lines, meta |-> {}] /\ t.lines \in LegacyTexts
IsYaml(t) ==
    /\ t = [form |-> "yaml", lines |-> t.lines, meta |-> t.meta]
    /\ t.meta = {} \/ \E m : t.meta = {m} /\ IsFrontMatter(m)

\* A draft has one of the two formats; what the last command did to it is as it should be.
DraftInv == (IsLegacy(s1) \/ IsYaml(s1)) /\ Draft!DraftIsReadAlike

\* In the part of the drafts, every step is one of DraftText.
LEMMA DraftMoves ==
    ASSUME part = "drafts", [WorkspaceNext]_wsVars
    PROVE  part' = part /\ (Draft!Next \/ UNCHANGED <<s1, s2, s3, s4, s5>>)
BY DEF WorkspaceNext, wsVars, registers

\* Least and greatest lines, under the names that DraftText gives them.
LEMMA DraftBounds ==
    /\ \A T \in SUBSET Nat : T # {} => Draft!Min(T) \in T /\ \A m \in T : Draft!Min(T) <= m
    /\ \A b \in Nat, T \in SUBSET Nat : T # {} /\ (\A m \in T : m <= b) =>
          Draft!Max(T) \in T /\ \A m \in T : m <= Draft!Max(T)
<1>1. \A T : Draft!Min(T) = Min(T) /\ Draft!Max(T) = Max(T)
  BY DEF Draft!Min, Min, Draft!Max, Max
<1>2. \A T \in SUBSET Nat : T # {} => Min(T) \in T /\ \A m \in T : Min(T) <= m
  BY MinIs
<1>3. \A b \in Nat, T \in SUBSET Nat : T # {} /\ (\A m \in T : m <= b) =>
          Max(T) \in T /\ \A m \in T : m <= Max(T)
  BY MaxIs
<1> QED BY <1>1, <1>2, <1>3

\* The value of a header is that of one of its lines.
LEMMA DraftValueIs ==
    ASSUME NEW S, NEW l \in Seq(S), NEW k, Draft!Values(l, k) # {}
    PROVE  \E i \in 1..Len(l) : l[i] \in S /\ l[i][1] = "meta" /\ l[i][2] = k /\ Draft!Value(l, k) = l[i][3]
<1> DEFINE V == Draft!Values(l, k)
<1>1. Len(l) \in Nat /\ DOMAIN l = 1..Len(l) /\ \A i \in 1..Len(l) : l[i] \in S
  BY ElementOfSeq
<1>2. V \in SUBSET Nat /\ \A m \in V : m <= Len(l)
  BY <1>1 DEF Draft!Values
<1>3. Draft!Value(l, k) = l[Draft!Max(V)][3]
  BY DEF Draft!Value
<1>4. Draft!Max(V) \in V
  <2> HIDE DEF V
  <2>1. V # {}
    BY DEF V
  <2> QED BY <2>1, <1>1, <1>2, DraftBounds
<1>5. Draft!Max(V) \in 1..Len(l) /\ l[Draft!Max(V)][1] = "meta" /\ l[Draft!Max(V)][2] = k
  BY <1>1, <1>4 DEF Draft!Values
<1> QED BY <1>1, <1>3, <1>5

\* A legacy draft names a recipient or none.
LEMMA RecipientIs ==
    ASSUME NEW l \in LegacyTexts, Draft!Value(l, "To") # Draft!NoLine
    PROVE  Draft!Value(l, "To") \in Recipients
<1> DEFINE S == Draft!LegacyLines \cup {Draft!Meta("Status", "sent")}
<1>1. Draft!Values(l, "To") # {}
  BY DEF Draft!Value
<1>2. PICK i \in 1..Len(l) : l[i] \in S /\ l[i][1] = "meta" /\ l[i][2] = "To" /\ Draft!Value(l, "To") = l[i][3]
  <2> HIDE DEF S
  <2>1. l \in Seq(S)
    BY DEF LegacyTexts, S
  <2> QED BY <2>1, <1>1, DraftValueIs
<1>3. \E p \in Recipients : l[i] = <<"meta", "To", p>>
  BY <1>2 DEF Draft!LegacyLines, Draft!Meta, Draft!Rule, Draft!Prose, Draft!Heading
<1> QED BY <1>2, <1>3

\* Every draft that a user can start from has one of the two formats.
LEMMA DraftInit == TextsAssumption /\ Draft!Init => DraftInv
<1> SUFFICES ASSUME TextsAssumption, Draft!Init PROVE DraftInv
  OBVIOUS
<1>1. Draft!DraftIsReadAlike
  <2>1. s3 = "none"
    BY DEF Draft!Init
  <2> QED BY <2>1 DEF Draft!DraftIsReadAlike, Draft!ValidatedIsRead, Draft!MigratedIsRead,
                      Draft!MarkedIsSent, Draft!AttachedIsRead
<1>2. CASE \E s \in Draft!SeqOf(Draft!LegacyLines, MaxDraftLines) : s1 = Draft!Legacy(s)
  <2>1. PICK s \in Draft!SeqOf(Draft!LegacyLines, MaxDraftLines) : s1 = Draft!Legacy(s)
    BY <1>2
  <2>2. MaxDraftLines \in Nat
    BY DEF TextsAssumption, Draft!DraftAssumption
  <2>3. s \in Seq(Draft!LegacyLines)
    <3>1. PICK m \in 0..MaxDraftLines : s \in [1..m -> Draft!LegacyLines]
      BY DEF Draft!SeqOf
    <3> QED BY <3>1, <2>2
  <2>4. s \in LegacyTexts
    BY <2>3, SeqMonotonic DEF LegacyTexts
  <2> QED BY <1>1, <2>1, <2>4 DEF DraftInv, IsLegacy, Draft!Legacy
<1>3. CASE \E m \in Draft!FrontMatter, s \in Draft!SeqOf(Draft!BodyLines, 2) : s1 = Draft!Yaml({m}, s)
  <2>1. PICK m \in Draft!FrontMatter, s \in Draft!SeqOf(Draft!BodyLines, 2) : s1 = Draft!Yaml({m}, s)
    BY <1>3
  <2>2. IsFrontMatter(m)
    BY DEF IsFrontMatter, Draft!FrontMatter, Draft!Statuses
  <2> QED BY <1>1, <2>1, <2>2 DEF DraftInv, IsYaml, Draft!Yaml
<1>4. CASE s1 = Draft!Yaml({}, <<>>)
  BY <1>1, <1>4 DEF DraftInv, IsYaml, Draft!Yaml
<1>5. s1 \in Draft!LegacyFiles => \E s \in Draft!SeqOf(Draft!LegacyLines, MaxDraftLines) : s1 = Draft!Legacy(s)
  BY DEF Draft!LegacyFiles
<1>6. s1 \in Draft!YamlFiles =>
         \/ \E m \in Draft!FrontMatter, s \in Draft!SeqOf(Draft!BodyLines, 2) : s1 = Draft!Yaml({m}, s)
         \/ s1 = Draft!Yaml({}, <<>>)
  <2> SUFFICES ASSUME s1 \in Draft!YamlFiles, s1 # Draft!Yaml({}, <<>>)
               PROVE  \E m \in Draft!FrontMatter, s \in Draft!SeqOf(Draft!BodyLines, 2) : s1 = Draft!Yaml({m}, s)
    OBVIOUS
  <2>1. s1 \in UNION {{Draft!Yaml({m}, s) : m \in Draft!FrontMatter} : s \in Draft!SeqOf(Draft!BodyLines, 2)}
    BY DEF Draft!YamlFiles
  <2>2. PICK s \in Draft!SeqOf(Draft!BodyLines, 2) : s1 \in {Draft!Yaml({m}, s) : m \in Draft!FrontMatter}
    BY <2>1
  <2>3. PICK m \in Draft!FrontMatter : s1 = Draft!Yaml({m}, s)
    BY <2>2
  <2> QED BY <2>3
<1>7. s1 \in Draft!LegacyFiles \/ s1 \in Draft!YamlFiles
  BY DEF Draft!Init
<1>8. s1 \in Draft!LegacyFiles => DraftInv
  BY <1>2, <1>5
<1>9. s1 \in Draft!YamlFiles => DraftInv
  BY <1>3, <1>4, <1>6
<1> QED BY <1>7, <1>8, <1>9

\* A draft in which validate finds nothing is read, in either format.
LEMMA ValidDraft ==
    ASSUME NEW t, IsLegacy(t) \/ IsYaml(t), NEW issues, issues \subseteq {"warning"},
           issues = IF t.form = "legacy" THEN Draft!LegacyIssues(t.lines)
                    ELSE IF t.meta = {} THEN {"YAML"}
                    ELSE UNION {Draft!YamlIssues(m, t.lines) : m \in t.meta}
    PROVE  \E d \in Draft!Read(t) : /\ d.to \in Recipients
                                    /\ d.status \in Draft!Statuses \cup {Draft!NoLine}
<1>1. CASE IsLegacy(t)
  <2>1. t.form = "legacy" /\ t.lines \in LegacyTexts
    BY <1>1 DEF IsLegacy
  <2> DEFINE l == t.lines
  <2>2. Draft!LegacyIssues(l) \subseteq {"warning"}
    BY <2>1
  <2> HIDE DEF l
  <2>3. /\ Draft!Value(l, "To") # Draft!NoLine
        /\ Draft!Value(l, "Status") \in Draft!Statuses \cup {Draft!NoLine}
        /\ Draft!Rules(l) # {}
    BY <2>2 DEF Draft!LegacyIssues, Draft!If
  <2> DEFINE d == [to |-> Draft!Value(l, "To"), status |-> Draft!Value(l, "Status"),
                   subject |-> Draft!Subject(l), body |-> Draft!AfterRule(l)]
  <2>4. d \in Draft!Read(t)
    BY <2>1, <2>3 DEF Draft!Read, l
  <2>5. d.to \in Recipients
    BY <2>1, <2>3, RecipientIs DEF l
  <2> QED BY <2>3, <2>4, <2>5
<1>2. CASE IsYaml(t)
  <2>1. t.form = "yaml"
    BY <1>2 DEF IsYaml
  <2>2. t.meta # {}
    BY <2>1
  <2>3. PICK m : t.meta = {m} /\ IsFrontMatter(m)
    BY <1>2, <2>2 DEF IsYaml
  <2>4. Draft!YamlIssues(m, t.lines) \subseteq {"warning"}
    BY <2>1, <2>3
  <2>5. m.to # Draft!Missing
    BY <2>4 DEF Draft!YamlIssues, Draft!If
  <2> DEFINE d == [to |-> m.to, status |-> m.status, body |-> Draft!WithoutHeading(t.lines),
                   subject |-> IF m.subject # Draft!Missing THEN m.subject ELSE Draft!Subject(t.lines)]
  <2>6. d \in Draft!Read(t)
    BY <2>1, <2>3 DEF Draft!Read
  <2>7. d.to \in Recipients /\ d.status \in Draft!Statuses
    BY <2>3, <2>5 DEF IsFrontMatter
  <2> QED BY <2>6, <2>7
<1> QED BY <1>1, <1>2

\* Validation changes nothing and reads what is there.
LEMMA ValidateKeeps ==
    ASSUME DraftInv, Draft!Validate
    PROVE  DraftInv'
<1>1. s1' = s1 /\ s3' = "validate"
  BY DEF Draft!Validate, Draft!Run
<1>2. s4' = IF s1.form = "legacy" THEN Draft!LegacyIssues(s1.lines)
            ELSE IF s1.meta = {} THEN {"YAML"}
            ELSE UNION {Draft!YamlIssues(m, s1.lines) : m \in s1.meta}
  BY DEF Draft!Validate
<1>3. IsLegacy(s1) \/ IsYaml(s1)
  BY DEF DraftInv
<1>4. Draft!ValidatedIsRead'
  <2>1. ASSUME s4' \subseteq {"warning"}
        PROVE  \E d \in Draft!Read(s1) : /\ d.to \in Recipients
                                         /\ d.status \in Draft!Statuses \cup {Draft!NoLine}
    BY <1>2, <1>3, <2>1, ValidDraft
  <2> QED BY <1>1, <2>1 DEF Draft!ValidatedIsRead
<1>5. (Draft!MigratedIsRead /\ Draft!MarkedIsSent /\ Draft!AttachedIsRead)'
  BY <1>1 DEF Draft!MigratedIsRead, Draft!MarkedIsSent, Draft!AttachedIsRead
<1>6. IsLegacy(s1') \/ IsYaml(s1')
  BY <1>1, <1>3
<1> QED BY <1>4, <1>5, <1>6 DEF DraftInv, Draft!DraftIsReadAlike

\* A command that does nothing.
LEMMA FailedCommand ==
    ASSUME DraftInv, s1' = s1, s3' = "none"
    PROVE  DraftInv'
<1>1. Draft!DraftIsReadAlike'
  BY DEF Draft!DraftIsReadAlike, Draft!ValidatedIsRead, Draft!MigratedIsRead,
         Draft!MarkedIsSent, Draft!AttachedIsRead
<1>2. IsLegacy(s1') \/ IsYaml(s1')
  BY DEF DraftInv
<1> QED BY <1>1, <1>2 DEF DraftInv

\* The body of a migrated draft has its subject for a heading.
LEMMA MigratedText ==
    ASSUME NEW S, NEW l \in Seq(S), NEW title
    PROVE  LET b == <<Draft!Heading(title)>> \o l IN
           /\ Draft!Subject(b) = title
           /\ title # Draft!Missing => Draft!WithoutHeading(b) = l
<1> DEFINE h == Draft!Heading(title)
           b == <<h>> \o l
           U == S \cup {h}
<1>1. h[1] = "#" /\ h[2] = title
  BY DEF Draft!Heading
<1>2. l \in Seq(U) /\ <<h>> \in Seq(U) /\ Len(<<h>>) = 1 /\ <<h>>[1] = h
  <2>1. l \in Seq(U)
    BY SeqMonotonic
  <2> HIDE DEF h
  <2>2. h \in U
    OBVIOUS
  <2> HIDE DEF U
  <2> QED BY <2>1, <2>2
<1> HIDE DEF h, U
<1>3. /\ b \in Seq(U) /\ Len(b) = 1 + Len(l) /\ b[1] = h
      /\ \A j \in 1..Len(l) : b[1 + j] = l[j]
  BY <1>2, ConcatElements
<1> HIDE DEF b
<1>4. Len(l) \in Nat /\ DOMAIN b = 1..Len(b) /\ b # <<>>
  <2>1. Len(l) \in Nat
    BY LenProperties
  <2>2. Len(b) # 0
    BY <2>1, <1>3
  <2> QED BY <2>1, <2>2, <1>3, LenProperties
<1>5. Draft!Subject(b) = title
  <2> DEFINE H == Draft!Headings(b)
  <2>1. 1 \in H /\ H \in SUBSET Nat
    BY <1>1, <1>3, <1>4 DEF Draft!Headings
  <2>2. Draft!Min(H) = 1
    <3> HIDE DEF H
    <3>1. Draft!Min(H) \in H /\ Draft!Min(H) <= 1
      BY <2>1, DraftBounds
    <3>2. \A i \in H : 1 <= i
      BY <1>4 DEF H, Draft!Headings
    <3> DEFINE x == Draft!Min(H)
    <3>3. x \in Nat /\ x <= 1 /\ 1 <= x
      BY <2>1, <3>1, <3>2
    <3> HIDE DEF x
    <3>4. x = 1
      BY <3>3
    <3> QED BY <3>4 DEF x
  <2>3. Draft!Subject(b) = b[Draft!Min(H)][2]
    BY <2>1 DEF Draft!Subject
  <2> QED BY <2>2, <2>3, <1>1, <1>3
<1>6. Head(b) = h
  BY <1>3, <1>4
<1>7. Tail(b) = l
  <2>1. Tail(b) \in Seq(U) /\ Len(Tail(b)) = Len(b) - 1 /\ \A i \in 1..Len(Tail(b)) : Tail(b)[i] = b[i + 1]
    BY <1>3, <1>4, HeadTailProperties
  <2>2. Len(Tail(b)) = Len(l)
    BY <2>1, <1>3, <1>4
  <2>3. ASSUME NEW i \in 1..Len(l) PROVE Tail(b)[i] = l[i]
    <3>1. i + 1 = 1 + i
      BY <1>4
    <3> QED BY <3>1, <2>1, <2>2, <1>3
  <2> QED BY <2>1, <2>2, <2>3, <1>2, SeqEqual
<1>8. title # Draft!Missing => Draft!WithoutHeading(b) = l
  BY <1>1, <1>4, <1>6, <1>7 DEF Draft!WithoutHeading
<1> QED BY <1>5, <1>8 DEF b, h

\* What comes after the rule of a legacy draft are lines of it.
LEMMA AfterRuleIs ==
    ASSUME NEW S, NEW l \in Seq(S)
    PROVE  /\ Draft!AfterRule(l) \in Seq(S)
           /\ Draft!Rules(l) # {} =>
                LET r == Draft!Min(Draft!Rules(l)) IN
                /\ r \in Draft!Rules(l) /\ r \in 1..Len(l)
                /\ Len(Draft!AfterRule(l)) = Len(l) - r
                /\ \A i \in 1..Len(l) - r : Draft!AfterRule(l)[i] = l[r + i]
<1>1. Len(l) \in Nat /\ DOMAIN l = 1..Len(l) /\ \A i \in 1..Len(l) : l[i] \in S
  BY ElementOfSeq
<1>2. CASE Draft!Rules(l) = {}
  BY <1>2 DEF Draft!AfterRule
<1>3. CASE Draft!Rules(l) # {}
  <2> DEFINE r == Draft!Min(Draft!Rules(l))
             n == Len(l)
  <2>1. Draft!Rules(l) \in SUBSET Nat
    BY <1>1 DEF Draft!Rules
  <2>2. r \in Draft!Rules(l)
    BY <1>3, <2>1, DraftBounds
  <2>3. r \in 1..n
    BY <1>1, <2>2 DEF Draft!Rules
  <2>4. Draft!AfterRule(l) = SubSeq(l, r + 1, n)
    BY <1>3 DEF Draft!AfterRule
  <2> HIDE DEF r
  <2>5. \A i \in r + 1..n : l[i] \in S
    BY <1>1, <2>3
  <2>6. r + 1 \in Int /\ n \in Int
    BY <1>1, <2>3
  <2>7. /\ SubSeq(l, r + 1, n) \in Seq(S)
        /\ Len(SubSeq(l, r + 1, n)) = IF r + 1 <= n THEN n - (r + 1) + 1 ELSE 0
        /\ \A i \in 1..n - (r + 1) + 1 : SubSeq(l, r + 1, n)[i] = l[(r + 1) + i - 1]
    BY <2>5, <2>6, SubSeqProperties
  <2> DEFINE a == SubSeq(l, r + 1, n)
  <2>8. a \in Seq(S) /\ Len(a) = n - r /\ \A i \in 1..n - r : a[i] = l[r + i]
    <3> HIDE DEF n
    <3>1. n \in Nat /\ r \in 1..n
      BY <1>1, <2>3 DEF n
    <3>2. n - (r + 1) + 1 = n - r /\ (~ r + 1 <= n => n - r = 0)
      BY <3>1
    <3>3. \A i \in 1..n - r : (r + 1) + i - 1 = r + i
      BY <3>1
    <3> QED BY <2>7, <3>2, <3>3
  <2> QED BY <2>2, <2>3, <2>4, <2>8 DEF r
<1> QED BY <1>2, <1>3

\* A migrated draft has front matter that is read as the old headers were.
LEMMA MigrateKeeps ==
    ASSUME DraftInv, Draft!Migrate
    PROVE  DraftInv'
<1> DEFINE l == s1.lines
           title == Draft!Subject(l)
           body == <<Draft!Heading(title)>> \o Draft!AfterRule(l)
           meta == [to |-> Draft!Value(l, "To"), subject |-> Draft!Missing, attachments |-> {},
                    status |-> Draft!MigratedStatus(l)]
           new == IF s1.form = "legacy" /\ meta.to # Draft!NoLine THEN {Draft!Yaml({meta}, body)} ELSE {}
<1>1. Draft!Run("migrate", new)
  BY DEF Draft!Migrate
<1>2. CASE new = {}
  <2>1. s1' = s1 /\ s3' = "none"
    <3> HIDE DEF new
    <3> QED BY <1>1, <1>2 DEF Draft!Run
  <2> QED BY <2>1, FailedCommand
<1>3. CASE new # {}
  <2>1. s1.form = "legacy" /\ Draft!Value(l, "To") # Draft!NoLine /\ new = {Draft!Yaml({meta}, body)}
    BY <1>3
  <2>2. s2' = s1 /\ s3' = "migrate" /\ s1' = Draft!Yaml({meta}, body)
    <3> HIDE DEF new, meta, body
    <3> QED BY <1>1, <1>3, <2>1 DEF Draft!Run
  <2>3. l \in LegacyTexts
    BY <2>1 DEF DraftInv, IsLegacy, IsYaml
  <2> HIDE DEF l, new
  <2>4. Draft!Value(l, "To") \in Recipients
    BY <2>1, <2>3, RecipientIs
  <2>5. Draft!MigratedStatus(l) \in Draft!Statuses
    BY DEF Draft!MigratedStatus, Draft!Statuses
  <2>6. IsFrontMatter(meta)
    BY <2>4, <2>5 DEF IsFrontMatter
  <2>7. IsYaml(s1')
    <3> HIDE DEF meta, body
    <3> QED BY <2>2, <2>6 DEF IsYaml, Draft!Yaml
  <2>8. ASSUME NEW d \in Draft!Read(s1), d.subject # Draft!Missing
        PROVE  Draft!Read(s1') = {[d EXCEPT !.status = IF @ \in Draft!Statuses THEN @ ELSE "draft"]}
    <3>1. d = [to |-> Draft!Value(l, "To"), status |-> Draft!Value(l, "Status"),
               subject |-> title, body |-> Draft!AfterRule(l)]
      BY <2>1, <2>8 DEF Draft!Read, l
    <3>2. title # Draft!Missing
      BY <2>8, <3>1
    <3>3. Draft!Subject(body) = title /\ Draft!WithoutHeading(body) = Draft!AfterRule(l)
      <4> DEFINE S == Draft!LegacyLines \cup {Draft!Meta("Status", "sent")}
      <4>1. l \in Seq(S)
        BY <2>3 DEF LegacyTexts
      <4> HIDE DEF S, title
      <4>2. Draft!AfterRule(l) \in Seq(S)
        BY <4>1, AfterRuleIs
      <4> QED BY <3>2, <4>2, MigratedText
    <3> HIDE DEF title, body
    <3>4. s1'.form # "legacy" /\ s1'.lines = body /\ s1'.meta = {meta}
      BY <2>2 DEF Draft!Yaml
    <3>5. Draft!Read(s1') = {[to |-> meta.to, status |-> meta.status, body |-> Draft!WithoutHeading(body),
                              subject |-> IF meta.subject # Draft!Missing THEN meta.subject
                                          ELSE Draft!Subject(body)]}
      <4> HIDE DEF meta
      <4> QED BY <3>4 DEF Draft!Read
    <3>6. meta.to = Draft!Value(l, "To") /\ meta.subject = Draft!Missing
          /\ meta.status = IF Draft!Value(l, "Status") \in Draft!Statuses THEN Draft!Value(l, "Status") ELSE "draft"
      BY DEF Draft!MigratedStatus
    <3>7. Draft!Read(s1') = {[to |-> Draft!Value(l, "To"), body |-> Draft!AfterRule(l), subject |-> title,
                              status |-> meta.status]}
      <4> HIDE DEF meta
      <4> QED BY <3>3, <3>5, <3>6
    <3>8. [d EXCEPT !.status = IF @ \in Draft!Statuses THEN @ ELSE "draft"] =
             [to |-> Draft!Value(l, "To"), body |-> Draft!AfterRule(l), subject |-> title,
              status |-> meta.status]
      <4> HIDE DEF meta
      <4> QED BY <3>1, <3>6
    <3> QED BY <3>7, <3>8
  <2>9. Draft!MigratedIsRead'
    BY <2>2, <2>8 DEF Draft!MigratedIsRead
  <2>10. (Draft!ValidatedIsRead /\ Draft!MarkedIsSent /\ Draft!AttachedIsRead)'
    BY <2>2 DEF Draft!ValidatedIsRead, Draft!MarkedIsSent, Draft!AttachedIsRead
  <2> QED BY <2>7, <2>9, <2>10 DEF DraftInv, Draft!DraftIsReadAlike
<1> QED BY <1>2, <1>3

\* The commands on front matter.
LEMMA ReadYaml ==
    ASSUME NEW t, t.form = "yaml", NEW m, t.meta = {m}
    PROVE  Draft!Read(t) = {[to |-> m.to, status |-> m.status, body |-> Draft!WithoutHeading(t.lines),
                             subject |-> IF m.subject # Draft!Missing THEN m.subject
                                         ELSE Draft!Subject(t.lines)]}
BY DEF Draft!Read

\* Attaching files keeps the format and what else is read.
LEMMA AttachKeeps ==
    ASSUME DraftInv, Draft!Attach
    PROVE  DraftInv'
<1> DEFINE new == IF s1.form = "yaml"
                  THEN {[s1 EXCEPT !.meta = {[m EXCEPT !.attachments = {"file"}]}] : m \in s1.meta}
                  ELSE {}
<1>1. Draft!Run("attach", new)
  BY DEF Draft!Attach
<1>2. CASE new = {}
  <2>1. s1' = s1 /\ s3' = "none"
    <3> HIDE DEF new
    <3> QED BY <1>1, <1>2 DEF Draft!Run
  <2> QED BY <2>1, FailedCommand
<1>3. CASE new # {}
  <2>1. s2' = s1 /\ s3' = "attach" /\ s1' \in new
    <3> HIDE DEF new
    <3> QED BY <1>1, <1>3 DEF Draft!Run
  <2>2. s1.form = "yaml" /\ s1.meta # {}
    BY <1>3
  <2>3. IsYaml(s1)
    BY <2>2 DEF DraftInv, IsLegacy
  <2>4. PICK m : s1.meta = {m} /\ IsFrontMatter(m)
    BY <2>2, <2>3 DEF IsYaml
  <2> DEFINE n == [m EXCEPT !.attachments = {"file"}]
  <2>5. /\ n = [to |-> n.to, subject |-> n.subject, status |-> n.status, attachments |-> n.attachments]
        /\ n.to = m.to /\ n.subject = m.subject /\ n.status = m.status
    BY <2>4 DEF IsFrontMatter
  <2>6. s1' = [s1 EXCEPT !.meta = {n}]
    BY <2>1, <2>2, <2>4
  <2> HIDE DEF n, new
  <2>7. s1'.form = "yaml" /\ s1'.lines = s1.lines /\ s1'.meta = {n}
        /\ s1' = [form |-> "yaml", lines |-> s1'.lines, meta |-> s1'.meta]
    BY <2>3, <2>6 DEF IsYaml
  <2>8. IsFrontMatter(n)
    BY <2>4, <2>5 DEF IsFrontMatter
  <2>9. IsYaml(s1')
    BY <2>7, <2>8 DEF IsYaml
  <2>10. Draft!Read(s1') = Draft!Read(s1)
    BY <2>2, <2>4, <2>5, <2>7, ReadYaml
  <2>11. Draft!DraftIsReadAlike'
    BY <2>1, <2>10 DEF Draft!DraftIsReadAlike, Draft!ValidatedIsRead, Draft!MigratedIsRead,
                       Draft!MarkedIsSent, Draft!AttachedIsRead
  <2> QED BY <2>9, <2>11 DEF DraftInv
<1> QED BY <1>2, <1>3

\* The mark on the only line with a status, above the body, changes what is read of that.
LEMMA MarkedText ==
    ASSUME NEW S, NEW l \in Seq(S), NEW i \in 1..Len(l), Draft!Values(l, "Status") = {i},
           \A r \in Draft!Rules(l) : i < r,
           NEW n, n = [l EXCEPT ![i] = Draft!Meta("Status", "sent")]
    PROVE  /\ Draft!Value(n, "To") = Draft!Value(l, "To") /\ Draft!Value(n, "Status") = "sent"
           /\ Draft!Subject(n) = Draft!Subject(l) /\ Draft!Rules(n) = Draft!Rules(l)
           /\ Draft!AfterRule(n) = Draft!AfterRule(l)
<1> DEFINE mark == Draft!Meta("Status", "sent")
           U == S \cup {mark}
<1>1. mark[1] = "meta" /\ mark[2] = "Status" /\ mark[3] = "sent" /\ mark # Draft!Rule
  BY DEF Draft!Meta, Draft!Rule
<1>2. Len(l) \in Nat /\ DOMAIN l = 1..Len(l) /\ l \in Seq(U)
  BY SeqMonotonic, LenProperties
<1>3. n \in Seq(U) /\ Len(n) = Len(l) /\ n[i] = mark /\ \A j \in 1..Len(l) : j # i => n[j] = l[j]
  <2>1. mark \in U
    OBVIOUS
  <2> HIDE DEF mark, U
  <2>2. n = [l EXCEPT ![i] = mark]
    BY DEF mark
  <2> QED BY <2>1, <2>2, <1>2, ExceptSeq
<1>4. DOMAIN n = 1..Len(l)
  BY <1>3, LenProperties
<1>5. l[i][1] = "meta" /\ l[i][2] = "Status"
  BY DEF Draft!Values
<1> HIDE DEF mark, U
<1>6. Draft!Headings(n) = Draft!Headings(l)
  <2>1. \A j \in 1..Len(l) : n[j][1] = "#" <=> l[j][1] = "#"
    <3>1. TAKE j \in 1..Len(l)
    <3>2. CASE j = i
      BY <3>2, <1>1, <1>3, <1>5
    <3>3. CASE j # i
      BY <3>3, <1>3
    <3> QED BY <3>2, <3>3
  <2> QED BY <2>1, <1>2, <1>4 DEF Draft!Headings
<1>7. Draft!Subject(n) = Draft!Subject(l)
  <2>1. CASE Draft!Headings(l) = {}
    BY <2>1, <1>6 DEF Draft!Subject
  <2>2. CASE Draft!Headings(l) # {}
    <3> DEFINE h == Draft!Min(Draft!Headings(l))
    <3>1. Draft!Headings(l) \in SUBSET Nat
      BY <1>2 DEF Draft!Headings
    <3>2. h \in Draft!Headings(l)
      BY <2>2, <3>1, DraftBounds
    <3>3. h \in 1..Len(l) /\ h # i
      BY <3>2, <1>2, <1>5 DEF Draft!Headings
    <3>4. n[h] = l[h]
      BY <3>3, <1>3
    <3>5. Draft!Subject(l) = l[h][2]
      BY <2>2 DEF Draft!Subject
    <3>6. Draft!Subject(n) = n[h][2]
      BY <2>2, <1>6 DEF Draft!Subject
    <3> QED BY <3>4, <3>5, <3>6
  <2> QED BY <2>1, <2>2
<1>8. Draft!Values(n, "To") = Draft!Values(l, "To") /\ i \notin Draft!Values(l, "To")
  <2>1. \A j \in 1..Len(l) : n[j][1] = "meta" /\ n[j][2] = "To" <=> l[j][1] = "meta" /\ l[j][2] = "To"
    <3>1. TAKE j \in 1..Len(l)
    <3>2. CASE j = i
      BY <3>2, <1>1, <1>3, <1>5
    <3>3. CASE j # i
      BY <3>3, <1>3
    <3> QED BY <3>2, <3>3
  <2> QED BY <2>1, <1>2, <1>4, <1>5 DEF Draft!Values
<1>9. Draft!Value(n, "To") = Draft!Value(l, "To")
  <2> DEFINE V == Draft!Values(l, "To")
  <2>1. CASE V = {}
    BY <2>1, <1>8 DEF Draft!Value
  <2>2. CASE V # {}
    <3>1. V \in SUBSET Nat /\ \A m \in V : m <= Len(l)
      BY <1>2 DEF Draft!Values
    <3>2. \A m \in V : m \in 1..Len(l)
      BY <1>2 DEF Draft!Values
    <3>3. Draft!Max(V) \in V
      <4> HIDE DEF V
      <4> QED BY <2>2, <3>1, <1>2, DraftBounds
    <3>4. n[Draft!Max(V)] = l[Draft!Max(V)]
      <4>1. Draft!Max(V) # i
        BY <3>3, <1>8
      <4> QED BY <4>1, <3>2, <3>3, <1>3
    <3>5. Draft!Value(l, "To") = l[Draft!Max(V)][3]
      BY <2>2 DEF Draft!Value
    <3>6. Draft!Value(n, "To") = n[Draft!Max(V)][3]
      BY <2>2, <1>8 DEF Draft!Value
    <3> QED BY <3>4, <3>5, <3>6
  <2> QED BY <2>1, <2>2
<1>10. Draft!Value(n, "Status") = "sent"
  <2>1. Draft!Values(n, "Status") = {i}
    <3>1. \A j \in 1..Len(l) : n[j][1] = "meta" /\ n[j][2] = "Status" <=> l[j][1] = "meta" /\ l[j][2] = "Status"
      <4>1. TAKE j \in 1..Len(l)
      <4>2. CASE j = i
        BY <4>2, <1>1, <1>3, <1>5
      <4>3. CASE j # i
        BY <4>3, <1>3
      <4> QED BY <4>2, <4>3
    <3> QED BY <3>1, <1>2, <1>4 DEF Draft!Values
  <2>2. Draft!Max({i}) = i
    <3>1. {i} \in SUBSET Nat /\ \A m \in {i} : m <= i
      BY <1>2
    <3>2. Draft!Max({i}) \in {i}
      BY <3>1, DraftBounds
    <3> QED BY <3>2
  <2> QED BY <2>1, <2>2, <1>1, <1>3 DEF Draft!Value
<1>11. Draft!Rules(n) = Draft!Rules(l)
  <2>1. l[i] # Draft!Rule
    BY <1>5 DEF Draft!Rule
  <2>2. \A j \in 1..Len(l) : n[j] = Draft!Rule <=> l[j] = Draft!Rule
    BY <2>1, <1>1, <1>3
  <2> QED BY <2>2, <1>2, <1>4 DEF Draft!Rules
<1>12. Draft!AfterRule(n) = Draft!AfterRule(l)
  <2>1. CASE Draft!Rules(l) = {}
    BY <2>1, <1>11 DEF Draft!AfterRule
  <2>2. CASE Draft!Rules(l) # {}
    <3> DEFINE r == Draft!Min(Draft!Rules(l))
    <3>1. /\ Draft!AfterRule(l) \in Seq(U) /\ r \in Draft!Rules(l) /\ r \in 1..Len(l)
          /\ Len(Draft!AfterRule(l)) = Len(l) - r
          /\ \A j \in 1..Len(l) - r : Draft!AfterRule(l)[j] = l[r + j]
      BY <2>2, <1>2, AfterRuleIs
    <3>2. /\ Draft!AfterRule(n) \in Seq(U)
          /\ Len(Draft!AfterRule(n)) = Len(l) - r
          /\ \A j \in 1..Len(l) - r : Draft!AfterRule(n)[j] = n[r + j]
      BY <2>2, <1>3, <1>11, AfterRuleIs
    <3> HIDE DEF r
    <3>3. i < r
      BY <3>1
    <3>4. ASSUME NEW j \in 1..Len(l) - r PROVE n[r + j] = l[r + j]
      <4>1. r + j \in 1..Len(l) /\ r + j # i
        BY <3>1, <3>3, <1>2
      <4> QED BY <4>1, <1>3
    <3>5. \A j \in 1..Len(Draft!AfterRule(n)) : Draft!AfterRule(n)[j] = Draft!AfterRule(l)[j]
      BY <3>1, <3>2, <3>4
    <3> QED BY <3>1, <3>2, <3>5, SeqEqual
  <2> QED BY <2>1, <2>2
<1> QED BY <1>7, <1>9, <1>10, <1>11, <1>12

\* Marking a draft as sent keeps the format, and the draft is then read as sent.
LEMMA MarkKeeps ==
    ASSUME DraftInv, Draft!Mark
    PROVE  DraftInv'
<1> DEFINE at == Draft!Values(s1.lines, "Status")
           new == IF s1.form = "yaml"
                  THEN {[s1 EXCEPT !.meta = {[m EXCEPT !.status = "sent"]}] : m \in s1.meta}
                  ELSE {IF at = {} THEN s1
                        ELSE [s1 EXCEPT !.lines[Draft!Min(at)] = Draft!Meta("Status", "sent")]}
<1>1. Draft!Run("mark", new)
  BY DEF Draft!Mark
<1>2. CASE new = {}
  <2>1. s1' = s1 /\ s3' = "none"
    <3> HIDE DEF new
    <3> QED BY <1>1, <1>2 DEF Draft!Run
  <2> QED BY <2>1, FailedCommand
<1>3. ASSUME new # {} PROVE s2' = s1 /\ s3' = "mark" /\ s1' \in new
  <2> HIDE DEF new
  <2> QED BY <1>1, <1>3 DEF Draft!Run
<1>4. ASSUME s3' = "mark", Draft!MarkedIsSent' PROVE Draft!DraftIsReadAlike'
  BY <1>4 DEF Draft!DraftIsReadAlike, Draft!ValidatedIsRead, Draft!MigratedIsRead, Draft!AttachedIsRead
<1>5. CASE new # {} /\ IsYaml(s1)
  <2>1. s1.form = "yaml"
    BY <1>5 DEF IsYaml
  <2>2. s1.meta # {}
    BY <1>5, <2>1
  <2>3. PICK m : s1.meta = {m} /\ IsFrontMatter(m)
    BY <1>5, <2>2 DEF IsYaml
  <2> DEFINE n == [m EXCEPT !.status = "sent"]
  <2>4. /\ n = [to |-> n.to, subject |-> n.subject, status |-> n.status, attachments |-> n.attachments]
        /\ n.to = m.to /\ n.subject = m.subject /\ n.status = "sent"
    BY <2>3 DEF IsFrontMatter
  <2>5. s1' = [s1 EXCEPT !.meta = {n}]
    BY <1>3, <1>5, <2>1, <2>3
  <2> HIDE DEF n, new
  <2>6. s1'.form = "yaml" /\ s1'.lines = s1.lines /\ s1'.meta = {n}
        /\ s1' = [form |-> "yaml", lines |-> s1'.lines, meta |-> s1'.meta]
    BY <1>5, <2>5 DEF IsYaml
  <2>7. IsFrontMatter(n)
    BY <2>3, <2>4 DEF IsFrontMatter, Draft!Statuses
  <2>8. IsYaml(s1')
    BY <2>6, <2>7 DEF IsYaml
  <2> DEFINE subject == IF m.subject # Draft!Missing THEN m.subject ELSE Draft!Subject(s1.lines)
             body == Draft!WithoutHeading(s1.lines)
  <2>9. Draft!Read(s1) = {[to |-> m.to, status |-> m.status, body |-> body, subject |-> subject]}
    BY <2>1, <2>3, ReadYaml
  <2>10. Draft!Read(s1') = {[to |-> m.to, status |-> "sent", body |-> body, subject |-> subject]}
    BY <2>4, <2>6, ReadYaml
  <2> HIDE DEF subject, body
  <2>11. \A d \in Draft!Read(s1) : Draft!Read(s1') = {[d EXCEPT !.status = "sent"]}
    BY <2>9, <2>10
  <2>12. Draft!MarkedIsSent'
    BY <1>3, <1>5, <2>11 DEF Draft!MarkedIsSent
  <2> QED BY <1>3, <1>4, <1>5, <2>8, <2>12 DEF DraftInv
<1>6. CASE new # {} /\ IsLegacy(s1)
  <2>1. s1.form = "legacy" /\ s1.lines \in LegacyTexts /\ s1 = [form |-> "legacy", lines |-> s1.lines, meta |-> {}]
    BY <1>6 DEF IsLegacy
  <2> DEFINE l == s1.lines
             mark == Draft!Meta("Status", "sent")
             S == Draft!LegacyLines \cup {mark}
             n == IF at = {} THEN l ELSE [l EXCEPT ![Draft!Min(at)] = mark]
  <2>2. s1' = [form |-> "legacy", lines |-> n, meta |-> {}]
    <3>1. s1' = IF at = {} THEN s1 ELSE [s1 EXCEPT !.lines[Draft!Min(at)] = mark]
      BY <1>3, <1>6, <2>1
    <3> HIDE DEF at, mark
    <3> QED BY <3>1, <2>1
  <2>3. l \in Seq(S) /\ Len(l) \in Nat /\ DOMAIN l = 1..Len(l)
    BY <2>1, LenProperties DEF LegacyTexts
  <2>4. at # {} => Draft!Min(at) \in at /\ at \in SUBSET Nat /\ Draft!Min(at) \in 1..Len(l)
    <3>1. at \in SUBSET Nat /\ \A j \in at : j \in 1..Len(l)
      BY <2>3 DEF Draft!Values
    <3> HIDE DEF at
    <3> QED BY <3>1, DraftBounds
  <2>5. n \in Seq(S)
    <3>1. mark \in S
      OBVIOUS
    <3> HIDE DEF S, mark, at, l
    <3> QED BY <3>1, <2>3, <2>4, ExceptSeq
  <2>6. IsLegacy(s1')
    <3>1. n \in LegacyTexts
      BY <2>5 DEF LegacyTexts
    <3> HIDE DEF n
    <3> QED BY <3>1, <2>2 DEF IsLegacy
  <2>7. ASSUME Draft!MarksOnce(l), NEW d \in Draft!Read(s1)
        PROVE  Draft!Read(s1') = {[d EXCEPT !.status = "sent"]}
    <3>1. PICK i \in 1..Len(l) : at = {i} /\ \A r \in Draft!Rules(l) : i < r
      BY <2>3, <2>7 DEF Draft!MarksOnce
    <3>2. n = [l EXCEPT ![i] = mark]
      <4>1. Draft!Min(at) = i
        BY <2>4, <3>1
      <4> HIDE DEF mark
      <4> QED BY <3>1, <4>1
    <3> HIDE DEF S, n
    <3>3. /\ Draft!Value(n, "To") = Draft!Value(l, "To") /\ Draft!Value(n, "Status") = "sent"
          /\ Draft!Subject(n) = Draft!Subject(l) /\ Draft!Rules(n) = Draft!Rules(l)
          /\ Draft!AfterRule(n) = Draft!AfterRule(l)
      <4>1. Draft!Values(l, "Status") = {i} /\ n = [l EXCEPT ![i] = Draft!Meta("Status", "sent")]
        BY <3>1, <3>2
      <4>2. \A r \in Draft!Rules(l) : i < r
        BY <3>1
      <4> HIDE DEF l, at, mark
      <4> QED BY <2>3, <4>1, <4>2, MarkedText
    <3>4. /\ d = [to |-> Draft!Value(l, "To"), status |-> Draft!Value(l, "Status"),
                  subject |-> Draft!Subject(l), body |-> Draft!AfterRule(l)]
          /\ Draft!Value(l, "To") # Draft!NoLine /\ Draft!Rules(l) # {}
      BY <2>1, <2>7 DEF Draft!Read
    <3>5. s1'.form = "legacy" /\ s1'.lines = n
      BY <2>2
    <3>6. Draft!Read(s1') = {[to |-> Draft!Value(l, "To"), status |-> "sent",
                              subject |-> Draft!Subject(l), body |-> Draft!AfterRule(l)]}
      BY <3>3, <3>4, <3>5 DEF Draft!Read
    <3> QED BY <3>4, <3>6
  <2>8. Draft!MarkedIsSent'
    BY <1>3, <1>6, <2>1, <2>7 DEF Draft!MarkedIsSent
  <2> QED BY <1>3, <1>4, <1>6, <2>6, <2>8 DEF DraftInv
<1> QED BY <1>2, <1>5, <1>6 DEF DraftInv

\* Every command on a draft keeps its invariant.
LEMMA DraftStep ==
    ASSUME DraftInv, Draft!Next \/ UNCHANGED <<s1, s2, s3, s4, s5>>
    PROVE  DraftInv'
<1>1. CASE UNCHANGED <<s1, s2, s3, s4, s5>>
  <2>1. Draft!DraftIsReadAlike' <=> Draft!DraftIsReadAlike
    BY <1>1 DEF Draft!DraftIsReadAlike, Draft!ValidatedIsRead, Draft!MigratedIsRead,
                Draft!MarkedIsSent, Draft!AttachedIsRead
  <2> QED BY <1>1, <2>1 DEF DraftInv
<1> QED BY <1>1, ValidateKeeps, MigrateKeeps, MarkKeeps, AttachKeeps DEF Draft!Next

-----------------------------------------------------------------------------
(* The texts.  The proofs about ThreadText are those of this instance of it.      *)

Texts == INSTANCE ThreadTextProofs WITH
    text <- s1, subject <- s2, merged <- s3, merges <- s4,
    Mails <- MailTexts, Contacts <- AddressBook, Instants <- MailInstants, MaxTime <- LastInstant,
    MaxMerges <- MaxMailMerges


\* Both instances are of the same definitions, with the same registers.
LEMMA SameThread ==
    /\ Thread!TextAssumption <=> Texts!TextAssumption
    /\ Thread!Init <=> Texts!Init
    /\ [Thread!Next]_(Thread!vars) <=> [Texts!Next]_(Texts!vars)
    /\ Thread!ConversationIsReadBack <=> Texts!ConversationIsReadBack
<1>1. Thread!Missing = Texts!Missing /\ Thread!ThreadKey = Texts!ThreadKey /\ Thread!Rule = Texts!Rule
  BY DEF Thread!Missing, Texts!Missing, Thread!ThreadKey, Texts!ThreadKey, Thread!Rule, Texts!Rule
<1>2. \A x : Thread!ToSet(x) = Texts!ToSet(x) /\ Thread!Min(x) = Texts!Min(x) /\ Thread!Max(x) = Texts!Max(x)
  BY DEF Thread!ToSet, Texts!ToSet, Thread!Min, Texts!Min, Thread!Max, Texts!Max
<1>3. \A x : Thread!FlattenSeq(x) = Texts!FlattenSeq(x)
  BY DEF Thread!FlattenSeq, Texts!FlattenSeq
<1>4. \A x, y : Thread!At(x, y) = Texts!At(x, y) /\ Thread!InOrder(x, y) = Texts!InOrder(x, y)
  BY DEF Thread!At, Texts!At, Thread!InOrder, Texts!InOrder
<1>5. /\ \A x, y : Thread!Meta(x, y) = Texts!Meta(x, y) /\ Thread!Heading(x, y) = Texts!Heading(x, y)
      /\ \A x : Thread!Title(x) = Texts!Title(x) /\ Thread!Time(x) = Texts!Time(x)
  BY DEF Thread!Meta, Texts!Meta, Thread!Heading, Texts!Heading, Thread!Title, Texts!Title, Thread!Time, Texts!Time
<1>6. \A x, y, z : Thread!MetaUnless(x, y, z) = Texts!MetaUnless(x, y, z)
  BY <1>5 DEF Thread!MetaUnless, Texts!MetaUnless
<1>7. \A x : Thread!WriteMessage(x) = Texts!WriteMessage(x)
  BY <1>1, <1>5, <1>6 DEF Thread!WriteMessage, Texts!WriteMessage
<1>8. \A x : Thread!ThreadToMarkdown(x) = Texts!ThreadToMarkdown(x)
  BY <1>3, <1>5, <1>6, <1>7 DEF Thread!ThreadToMarkdown, Texts!ThreadToMarkdown
<1>9. \A x, y : Thread!MetaLines(x, y) = Texts!MetaLines(x, y) /\ Thread!IsMeta(x, y) = Texts!IsMeta(x, y)
  BY DEF Thread!MetaLines, Texts!MetaLines, Thread!IsMeta, Texts!IsMeta
<1>10. /\ \A x, y, z : Thread!FirstValue(x, y, z) = Texts!FirstValue(x, y, z)
       /\ \A x, y, z : Thread!LastValue(x, y, z) = Texts!LastValue(x, y, z)
  BY <1>2 DEF Thread!FirstValue, Texts!FirstValue, Thread!LastValue, Texts!LastValue
<1>11. \A x : Thread!NamesSender(x) = Texts!NamesSender(x) /\ Thread!IsHeading(x) = Texts!IsHeading(x)
  BY <1>1 DEF Thread!NamesSender, Texts!NamesSender, Thread!IsHeading, Texts!IsHeading
<1>12. \A x : Thread!Headings(x) = Texts!Headings(x)
  BY <1>11 DEF Thread!Headings, Texts!Headings
<1>13. \A x, y : Thread!End(x, y) = Texts!End(x, y)
  BY <1>2, <1>12 DEF Thread!End, Texts!End
<1>14. \A x, y : Thread!Header(x, y) = Texts!Header(x, y)
  BY <1>13 DEF Thread!Header, Texts!Header
<1>15. \A x, y : Thread!Content(x, y) = Texts!Content(x, y)
  BY <1>1, <1>13, <1>14 DEF Thread!Content, Texts!Content
<1>16. \A x, y : Thread!MessageAt(x, y) = Texts!MessageAt(x, y)
  BY <1>1, <1>4, <1>9, <1>10, <1>14, <1>15 DEF Thread!MessageAt, Texts!MessageAt
<1>17. \A x : Thread!ParseMessages(x) = Texts!ParseMessages(x)
  BY <1>4, <1>12, <1>16 DEF Thread!ParseMessages, Texts!ParseMessages
<1>18. /\ Thread!NewThread = Texts!NewThread
       /\ \A x : Thread!Unreadable(x) = Texts!Unreadable(x)
  BY <1>1, <1>5 DEF Thread!NewThread, Texts!NewThread, Thread!Unreadable, Texts!Unreadable
<1>19. \A x : Thread!ParseThreadMarkdown(x) = Texts!ParseThreadMarkdown(x)
  BY <1>1, <1>9, <1>10, <1>17, <1>18 DEF Thread!ParseThreadMarkdown, Texts!ParseThreadMarkdown
<1>20. \A x, y : Thread!Claims(x, y) = Texts!Claims(x, y)
  BY <1>1, <1>9, <1>10 DEF Thread!Claims, Texts!Claims
<1>21. \A x : Thread!DedupKey(x) = Texts!DedupKey(x)
  BY <1>1, <1>5 DEF Thread!DedupKey, Texts!DedupKey
<1>22. \A x : Thread!Sorted(x) = Texts!Sorted(x)
  BY <1>3, <1>4, <1>5 DEF Thread!Sorted, Texts!Sorted
<1>23. \A x : Thread!Merge(x) <=> Texts!Merge(x)
  BY <1>1, <1>8, <1>18, <1>19, <1>20, <1>21, <1>22 DEF Thread!Merge, Texts!Merge
<1>24. Thread!Next <=> Texts!Next
  BY <1>23 DEF Thread!Next, Texts!Next
<1>25. Thread!Init <=> Texts!Init
  BY <1>1 DEF Thread!Init, Texts!Init
<1>26. Thread!TextAssumption <=> Texts!TextAssumption
  BY <1>1, <1>2 DEF Thread!TextAssumption, Texts!TextAssumption
<1>27. \A x : Thread!LastSender(x) = Texts!LastSender(x) /\ Thread!ManifestContacts(x) = Texts!ManifestContacts(x)
  BY <1>1, <1>2, <1>11, <1>17, <1>18 DEF Thread!LastSender, Texts!LastSender, Thread!ManifestContacts, Texts!ManifestContacts
<1>28. \A x : Thread!Quoted(x) = Texts!Quoted(x)
  BY <1>2 DEF Thread!Quoted, Texts!Quoted
<1>29. \A x : Thread!Unmistakable(x) = Texts!Unmistakable(x)
  BY <1>1, <1>5, <1>9, <1>11, <1>21, <1>28 DEF Thread!Unmistakable, Texts!Unmistakable
<1>30. \A x : Thread!Plain(x) = Texts!Plain(x)
  BY <1>1, <1>5, <1>28, <1>29 DEF Thread!Plain, Texts!Plain
<1>31. Thread!MailsReadBack <=> Texts!MailsReadBack
  BY <1>1, <1>2, <1>5, <1>17, <1>30 DEF Thread!MailsReadBack, Texts!MailsReadBack
<1>32. Thread!FileIsFound <=> Texts!FileIsFound
  BY <1>1, <1>20 DEF Thread!FileIsFound, Texts!FileIsFound
<1>33. Thread!Latest = Texts!Latest
  BY <1>5 DEF Thread!Latest, Texts!Latest
<1>34. Thread!QuotesArePast <=> Texts!QuotesArePast
  BY <1>5, <1>11, <1>28 DEF Thread!QuotesArePast, Texts!QuotesArePast
<1>35. Thread!LastSenderTold <=> Texts!LastSenderTold
  BY <1>27, <1>30, <1>33, <1>34 DEF Thread!LastSenderTold, Texts!LastSenderTold
<1>36. Thread!ContactsListed <=> Texts!ContactsListed
  BY <1>27, <1>30 DEF Thread!ContactsListed, Texts!ContactsListed
<1>37. \A x : Thread!NoBlanks(x) <=> Texts!NoBlanks(x)
  BY <1>1, <1>9, <1>28 DEF Thread!NoBlanks, Texts!NoBlanks
<1>38. Thread!ConversationIsReadBack <=> Texts!ConversationIsReadBack
  BY <1>1, <1>31, <1>32, <1>35, <1>36, <1>37 DEF Thread!ConversationIsReadBack, Texts!ConversationIsReadBack
<1> QED BY <1>24, <1>25, <1>26, <1>38 DEF Thread!vars, Texts!vars

\* In the part of the threads, every step is one of ThreadText.
LEMMA ThreadMoves ==
    ASSUME part = "threads", [WorkspaceNext]_wsVars
    PROVE  [Thread!Next]_(Thread!vars)
BY DEF WorkspaceNext, wsVars, registers, Thread!vars

\* Whatever mails are merged and however often, a conversation is read back as it was
\* written, as far as its mails can be told apart (sync/markdown.rs, imap_sync.rs); what
\* migrate, attach, validate and the mark of a sent draft write is read alike by all of them
\* (draft/mod.rs); and a post shows all the words of its draft, whatever is to be escaped
\* in it, no backtick and no bold marker, and all its images (social/linkedin.rs).
THEOREM TextsStay == WorkspaceSpec => []TextsAreReadBack
<1> DEFINE I == /\ part = "threads" => Texts!ThreadInv
                /\ part = "drafts" => DraftInv
                /\ part = "linkedin" => PostInv
<1>0. TextsAssumption /\ Texts!TextAssumption
  BY TextsAssumption, SameThread DEF TextsAssumption
<1>1. WorkspaceInit => I
  <2> SUFFICES ASSUME WorkspaceInit PROVE I
    OBVIOUS
  <2>1. /\ part = "threads" => Thread!Init
        /\ part = "drafts" => Draft!Init
        /\ part = "linkedin" => LinkedIn!Init
    BY DEF WorkspaceInit, PartInit
  <2>2. Thread!Init => Texts!ThreadInv
    BY SameThread, Texts!ThreadInit
  <2> QED BY <1>0, <2>1, <2>2, DraftInit, PostInit
<1>2. I /\ [WorkspaceNext]_wsVars => I'
  <2> SUFFICES ASSUME I, [WorkspaceNext]_wsVars PROVE I'
    OBVIOUS
  <2>1. part' = part
    BY DEF WorkspaceNext, wsVars
  <2>2. ASSUME part = "threads" PROVE Texts!ThreadInv'
    <3>1. Texts!ThreadInv /\ [Texts!Next]_(Texts!vars)
      BY <2>2, ThreadMoves, SameThread
    <3> QED BY <1>0, <3>1, Texts!ThreadStep
  <2>3. ASSUME part = "drafts" PROVE DraftInv'
    BY <2>3, DraftMoves, DraftStep
  <2>4. ASSUME part = "linkedin" PROVE PostInv'
    BY <1>0, <2>4, PostMoves, PostStep
  <2> QED BY <2>1, <2>2, <2>3, <2>4
<1>3. I => TextsAreReadBack
  <2>1. Texts!ThreadInv => Thread!ConversationIsReadBack
    BY <1>0, SameThread, Texts!ThreadIsReadBack
  <2>2. DraftInv => Draft!DraftIsReadAlike
    BY DEF DraftInv
  <2>3. PostInv => LinkedIn!PostIsWhole
    BY <1>0, PostKept
  <2> QED BY <2>1, <2>2, <2>3 DEF TextsAreReadBack
<1> QED BY <1>1, <1>2, <1>3, PTL DEF WorkspaceSpec
=============================================================================
