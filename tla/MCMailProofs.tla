----------------------------- MODULE MCMailProofs -----------------------------
(***************************************************************************)
(* What MailSyncProofs proves of MailSync, of the two instances of MCMail: *)
(* each of its invariants and step properties holds of either provider.    *)
(***************************************************************************)
EXTENDS MCMail, TLAPS

mcVars == <<provider, Imap!vars>>

ImapInv == Imap!Typed /\ Imap!Sound /\ Imap!Forward /\ Imap!InFlight

LEMMA ImapInit == Imap!Init => ImapInv
BY Imap!TypedInit, Imap!SoundInit, Imap!ForwardInit, Imap!InFlightInit, NamesDiffer DEF ImapInv

LEMMA ImapStep == ImapInv /\ [Imap!Next]_Imap!vars => ImapInv'
<1> SUFFICES ASSUME ImapInv, [Imap!Next]_Imap!vars PROVE ImapInv'
  OBVIOUS
<1>1. Imap!Typed' /\ Imap!Sound' /\ Imap!Forward'
  BY Imap!TypedStep, Imap!SoundStep, Imap!ForwardStep, NamesDiffer DEF ImapInv
<1>2. Imap!InFlight'
  BY Imap!InFlightStep, NamesDiffer DEF ImapInv
<1> QED
  BY <1>1, <1>2 DEF ImapInv

LEMMA ImapHolds ==
    ASSUME ImapInv
    PROVE  Imap!TypeOK /\ Imap!NothingSkipped /\ Imap!SavesKeepOthers
BY Imap!TypedIsTypeOK, Imap!SoundSkipsNothing, Imap!GrowsMerges, NamesDiffer DEF ImapInv, Imap!Typed

LEMMA ImapMoves ==
    ASSUME ImapInv, [Imap!Next]_Imap!vars
    PROVE  [Imap!CursorsAdvance /\ Imap!EntersInFull]_Imap!vars
BY Imap!ForwardAdvances, Imap!InFlightIsResumed, NamesDiffer DEF ImapInv

GmailApiInv == GmailApi!Typed /\ GmailApi!Sound /\ GmailApi!Forward /\ GmailApi!InFlight

LEMMA GmailApiInit == GmailApi!Init => GmailApiInv
BY GmailApi!TypedInit, GmailApi!SoundInit, GmailApi!ForwardInit, GmailApi!InFlightInit, NamesDiffer DEF GmailApiInv

LEMMA GmailApiStep == GmailApiInv /\ [GmailApi!Next]_GmailApi!vars => GmailApiInv'
<1> SUFFICES ASSUME GmailApiInv, [GmailApi!Next]_GmailApi!vars PROVE GmailApiInv'
  OBVIOUS
<1>1. GmailApi!Typed' /\ GmailApi!Sound' /\ GmailApi!Forward'
  BY GmailApi!TypedStep, GmailApi!SoundStep, GmailApi!ForwardStep, NamesDiffer DEF GmailApiInv
<1>2. GmailApi!InFlight'
  BY GmailApi!InFlightStep, NamesDiffer DEF GmailApiInv
<1> QED
  BY <1>1, <1>2 DEF GmailApiInv

LEMMA GmailApiHolds ==
    ASSUME GmailApiInv
    PROVE  GmailApi!TypeOK /\ GmailApi!NothingSkipped /\ GmailApi!SavesKeepOthers
BY GmailApi!TypedIsTypeOK, GmailApi!SoundSkipsNothing, GmailApi!GrowsMerges, NamesDiffer DEF GmailApiInv, GmailApi!Typed

LEMMA GmailApiMoves ==
    ASSUME GmailApiInv, [GmailApi!Next]_GmailApi!vars
    PROVE  [GmailApi!CursorsAdvance /\ GmailApi!EntersInFull]_GmailApi!vars
BY GmailApi!ForwardAdvances, GmailApi!InFlightIsResumed, NamesDiffer DEF GmailApiInv

-----------------------------------------------------------------------------

Inv == \/ provider = "imap" /\ ImapInv
       \/ provider = "gmail-api" /\ GmailApiInv

LEMMA InvInit == Init => Inv
BY ImapInit, GmailApiInit DEF Init, Inv

LEMMA SameVars == Imap!vars = GmailApi!vars /\ Imap!vars' = GmailApi!vars'
BY DEF Imap!vars, Imap!server, Imap!files, Imap!run, Imap!place, Imap!history, Imap!bounds,
       GmailApi!vars, GmailApi!server, GmailApi!files, GmailApi!run, GmailApi!place,
       GmailApi!history, GmailApi!bounds

\* A step of a behaviour is one of the instance that it is a behaviour of.
LEMMA StepOfOne ==
    ASSUME Inv, [Next]_mcVars
    PROVE  /\ provider' = provider
           /\ provider = "imap" => [Imap!Next]_Imap!vars
           /\ provider = "gmail-api" => [GmailApi!Next]_GmailApi!vars
<1>1. CASE UNCHANGED mcVars
  <2>1. provider' = provider /\ UNCHANGED Imap!vars
    BY <1>1 DEF mcVars
  <2>2. UNCHANGED GmailApi!vars
    BY <2>1, SameVars
  <2> QED
    BY <2>1, <2>2
<1>2. CASE Next
  BY <1>2 DEF Next
<1> QED
  BY <1>1, <1>2

LEMMA InvStep == Inv /\ [Next]_mcVars => Inv'
<1> SUFFICES ASSUME Inv, [Next]_mcVars PROVE Inv'
  OBVIOUS
<1>1. CASE provider = "imap" /\ ImapInv
  BY <1>1, ImapStep, StepOfOne DEF Inv
<1>2. CASE provider = "gmail-api" /\ GmailApiInv
  BY <1>2, GmailApiStep, StepOfOne DEF Inv
<1> QED
  BY <1>1, <1>2 DEF Inv

LEMMA SpecHolds == Spec => []Inv
BY InvInit, InvStep, PTL DEF Spec, mcVars

\* The variables of either provider keep their types.
THEOREM TypeCorrect == Spec => []TypeOK
<1>1. Inv => TypeOK
  BY ImapHolds, GmailApiHolds DEF Inv, TypeOK
<1> QED
  BY <1>1, SpecHolds, PTL

\* No stored cursor of either provider stands beyond a mail that has not reached its
\* conversation file, whatever fails and whenever a process is killed.
THEOREM NothingIsSkipped == Spec => []NothingSkipped
<1>1. Inv => NothingSkipped
  BY ImapHolds, GmailApiHolds DEF Inv, NothingSkipped
<1> QED
  BY <1>1, SpecHolds, PTL

\* A save of either provider merges each label on its own.
THEOREM SavesAreMerges == Spec => []SavesKeepOthers
<1>1. Inv => SavesKeepOthers
  BY ImapHolds, GmailApiHolds DEF Inv, SavesKeepOthers
<1> QED
  BY <1>1, SpecHolds, PTL

\* What a step does to the cursors, and how it enters an account.
LEMMA Moves ==
    ASSUME Inv, [Next]_mcVars
    PROVE  /\ [IF provider = "imap" THEN Imap!CursorsAdvance ELSE GmailApi!CursorsAdvance]_mcVars
           /\ [IF provider = "imap" THEN Imap!EntersInFull ELSE GmailApi!EntersInFull]_mcVars
<1>1. CASE provider = "imap" /\ ImapInv
  BY <1>1, ImapMoves, StepOfOne DEF mcVars
<1>2. CASE provider = "gmail-api" /\ GmailApiInv
  BY <1>2, GmailApiMoves, StepOfOne, SameVars DEF mcVars
<1> QED
  BY <1>1, <1>2 DEF Inv

\* No step drops a cursor, and none moves that of an IMAP label back.
THEOREM CursorsOnlyAdvance == Spec => CursorNeverRegresses
BY Moves, SpecHolds, PTL DEF Spec, CursorNeverRegresses, mcVars

\* The first `corky sync' to enter an account after one was killed in it syncs it in full.
THEOREM CrashesAreResumed == Spec => CrashedIsResumed
BY Moves, SpecHolds, PTL DEF Spec, CrashedIsResumed, mcVars
=============================================================================
