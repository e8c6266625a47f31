------------------------------- MODULE WatchLoop -------------------------------
(***************************************************************************)
(* The loop of `corky watch' (watch.rs): in every cycle the sync and the   *)
(* schedule, and about once an hour the upgrade and the filter check, each *)
(* with a breaker that makes it wait longer after a panic.  What the ticks *)
(* do is in MailSync, EmailDraft, SocialPublish, Upgrade and GmailFilters; *)
(* here they complete or panic.                                            *)
(***************************************************************************)
EXTENDS Integers, FiniteSetsExt

CONSTANTS
    Every,              \* the cycles of an hour: max(3600 / interval, 1)
    MaxExp, MaxBackoff, \* 6 and 64 in the code
    MaxCycles           \* bound

VARIABLES
    autoUpgrade, \* auto_upgrade of the configuration
    phases,      \* of "upgrade" and "filter": [since, failures, backoff]
    stage,       \* the tick that runs or comes next, "sleep", or "stopped"
    running,     \* it runs
    shutdown,    \* Ctrl-C has set the flag
    waited,      \* history: the cycles a phase has been skipped since it last ran
    cycles

vars == <<autoUpgrade, phases, stage, running, shutdown, waited, cycles>>

Phases == {"upgrade", "filter"}

\* PeriodicPhase::new.
NewPhase == [since |-> 0, failures |-> 0, backoff |-> 0]

Init ==
    /\ autoUpgrade \in BOOLEAN /\ phases = [f \in Phases |-> NewPhase]
    /\ stage = "sync" /\ running = FALSE /\ shutdown = FALSE
    /\ waited = [f \in Phases |-> 0] /\ cycles = 0

Follows == [sync |-> "schedule", schedule |-> "upgrade", upgrade |-> "filter", filter |-> "sleep"]

\* Mutant: the cadence goes on during the backoff.
TickedOn(ph) ==
    LET since == (ph.since + 1) % Every
    IN [ph EXCEPT !.since = since, !.backoff = IF @ > 0 THEN @ - 1 ELSE 0]

\* PeriodicPhase::tick: the cadence is held while the phase backs off.
Ticked(ph) ==
    IF ph.backoff > 0 THEN [ph EXCEPT !.backoff = @ - 1]
    ELSE [ph EXCEPT !.since = (@ + 1) % Every]

Due(ph) == ph.backoff = 0 /\ ph.since + 1 >= Every

\* record_failure: 1, 2, 4 ... cycles.
BackoffOf(failures) == Min({2 ^ (Min({failures, MaxExp}) - 1), MaxBackoff})

\* The flag is read before each tick, and a phase counts the cycle.
Go(s) ==
    /\ stage = s /\ ~ running /\ ~ shutdown /\ s # "sleep"
    /\ IF s \notin Phases THEN running' = TRUE /\ UNCHANGED <<stage, phases, waited>>
       ELSE IF s = "upgrade" /\ ~ autoUpgrade
       THEN stage' = Follows[s] /\ UNCHANGED <<running, phases, waited>>
       ELSE /\ phases' = [phases EXCEPT ![s] = Ticked(@)]
            /\ running' = Due(phases[s])
            /\ stage' = IF running' THEN s ELSE Follows[s]
            /\ waited' = [waited EXCEPT ![s] = IF running' THEN 0 ELSE @ + 1]
    /\ UNCHANGED <<autoUpgrade, shutdown, cycles>>

\* run_tick catches a panic; update_phase_breaker counts it.  A phase that has failed
\* without a panic has completed.
Finish(panicked) ==
    /\ running /\ running' = FALSE /\ stage' = Follows[stage]
    /\ IF stage \notin Phases THEN UNCHANGED phases
       ELSE LET failures == IF panicked THEN phases[stage].failures + 1 ELSE 0
            IN phases' = [phases EXCEPT ![stage].failures = failures,
                            ![stage].backoff = IF panicked THEN BackoffOf(failures) ELSE 0]
    /\ UNCHANGED <<autoUpgrade, shutdown, waited, cycles>>

\* After an upgrade the process replaces itself: exec keeps nothing of its memory, not
\* even a Ctrl-C that came during the tick.
Replace ==
    /\ stage = "upgrade" /\ running
    /\ phases' = [f \in Phases |-> NewPhase] /\ waited' = [f \in Phases |-> 0]
    /\ stage' = "sync" /\ running' = FALSE /\ shutdown' = FALSE
    /\ UNCHANGED <<autoUpgrade, cycles>>

\* The sleep is over.
Wake ==
    /\ stage = "sleep" /\ ~ shutdown /\ cycles < MaxCycles /\ cycles' = cycles + 1
    /\ stage' = "sync"
    /\ UNCHANGED <<autoUpgrade, phases, running, shutdown, waited>>

\* The flag is set, or the channel wakes the sleep.
Stop ==
    /\ shutdown /\ ~ running /\ stage # "stopped" /\ stage' = "stopped"
    /\ UNCHANGED <<autoUpgrade, phases, running, shutdown, waited, cycles>>

\* Ctrl-C, perhaps between the reading of the flag and the tick.
Interrupt ==
    /\ ~ shutdown /\ stage # "stopped" /\ shutdown' = TRUE
    /\ UNCHANGED <<autoUpgrade, phases, stage, running, waited, cycles>>

Next ==
    \/ \E s \in DOMAIN Follows : Go(s)
    \/ \E panicked \in BOOLEAN : Finish(panicked)
    \/ Replace \/ Wake \/ Stop \/ Interrupt

Spec == Init /\ [][Next]_vars

-----------------------------------------------------------------------------
(* Properties *)

\* A phase runs exactly `Every' cycles after it last ran, and after the n-th panic in a row
\* 2^(n-1) more, up to 2^(MaxExp-1): it is neither starved nor retried in every cycle.
Paced == \A f \in Phases :
    LET ph == phases[f]
        extra == IF ph.failures = 0 THEN 0 ELSE 2 ^ (Min({ph.failures, MaxExp}) - 1)
    IN ~ (running /\ stage = f) => waited[f] - ph.since + ph.backoff = extra
=============================================================================
