------------------------------- MODULE SocialLogin ------------------------------
(***************************************************************************)
(* `corky linkedin auth' and `corky youtube auth' (social/auth.rs) and the *)
(* registry of profiles that publishing takes its account from             *)
(* (social/profiles.rs).  A login opens a page in the browser, waits on    *)
(* the loopback port for the answer of that page, writes the account into  *)
(* .corky.toml and then its token into the token store.                    *)
(***************************************************************************)
EXTENDS FiniteSets, Naturals

CONSTANTS Procs, Profiles, Accounts, MaxLogins \* bound

VARIABLES
    config,  \* [profiles] of .corky.toml; "none": no entry
    legacy,  \* profiles.toml, which is read if the former is empty
    tokens,  \* the accounts with a token in the store
    session, \* session[p]: what the login of p is at
    port,    \* the process that listens on the default port
    pages,   \* pages left open in the browser: the login and the profile they are for, and
             \* whether that login listens on a port of its own
    checked, \* the profiles have been checked, without errors
    allowed, \* history: <<f, a>>: a was authorised on a page for profile f
    broken,  \* history: a login was broken off between its two writes
    overlap, \* history: another login wrote .corky.toml after this one had read it
    logins

vars == <<config, legacy, tokens, session, port, pages, checked, allowed, broken, overlap, logins>>

NoEntry == [handle |-> "none", urn |-> "none"]
Idle == [pc |-> "idle", profile |-> "none", login |-> 0, urn |-> "none", read |-> <<>>]

Init ==
    /\ config = [f \in Profiles |-> NoEntry]
    /\ legacy \in [Profiles -> {NoEntry} \cup {[handle |-> a, urn |-> a] : a \in Accounts}]
    /\ tokens = {} /\ session = [p \in Procs |-> Idle] /\ port = {} /\ pages = {}
    /\ checked = FALSE /\ allowed = {<<f, legacy[f].urn>> : f \in Profiles}
    /\ broken = FALSE /\ overlap = FALSE /\ logins = 0

Step(p, pc, next) == session[p].pc = pc /\ session' = [session EXCEPT ![p] = next]

\* LoopbackServer::bind and build_auth_url, whose state is new for every login.  While
\* another holds the port, a login for YouTube gets one of its own if the environment opts
\* in; any other ends.
Open(p, f) ==
    /\ logins < MaxLogins /\ logins' = logins + 1
    /\ Step(p, "idle", [Idle EXCEPT !.pc = "browser", !.profile = f, !.login = logins'])
    /\ port' = IF port = {} THEN {p} ELSE port
    /\ pages' = pages \cup {<<logins', f, port # {}>>}
    /\ UNCHANGED <<config, legacy, tokens, checked, allowed, broken, overlap>>

\* Mutant: the state of the answer is not compared.
AnyAnswer(login, answered) == TRUE

\* The state verification of run.
StateMatches(login, answered) == login = answered

\* The user lets an account in on a page, perhaps one that an earlier login has left open:
\* the answer goes to whoever listens on its port.  exchange_code and get_user_urn may fail.
Authorize(p, page, a) ==
    /\ page \in pages /\ IF page[3] THEN session[p].login = page[1] ELSE p \in port
    /\ pages' = pages \ {page} /\ port' = port \ {p}
    /\ allowed' = allowed \cup {<<page[2], a>>}
    /\ \/ StateMatches(session[p].login, page[1])
          /\ Step(p, "browser", [session[p] EXCEPT !.pc = "profile", !.urn = a])
       \/ Step(p, "browser", Idle)
    /\ UNCHANGED <<config, legacy, tokens, checked, broken, overlap, logins>>

\* update_profile_urn reads the whole file ...
ReadConfig(p) ==
    /\ Step(p, "profile", [session[p] EXCEPT !.pc = "write", !.read = config])
    /\ UNCHANGED <<config, legacy, tokens, port, pages, checked, allowed, broken, overlap, logins>>

\* ... and writes it back; a new entry has an empty handle.
Updated(read, f, urn) ==
    [read EXCEPT ![f] = [handle |-> IF @ = NoEntry THEN "" ELSE @.handle, urn |-> urn]]

WriteConfig(p) ==
    /\ Step(p, "write", [session[p] EXCEPT !.pc = "store"])
    /\ config' = Updated(session[p].read, session[p].profile, session[p].urn)
    /\ overlap' = (overlap \/ config # session[p].read) /\ checked' = FALSE
    /\ UNCHANGED <<legacy, tokens, port, pages, allowed, broken, logins>>

\* The token is saved under the account it was asked for.
StoreToken(p) ==
    /\ Step(p, "store", Idle)
    /\ tokens' = tokens \cup {session[p].urn}
    /\ UNCHANGED <<config, legacy, port, pages, checked, allowed, broken, overlap, logins>>

\* The time is up, a write fails, or the login is killed; a page may stay open.
BreakOff(p) ==
    /\ session[p] # Idle /\ session' = [session EXCEPT ![p] = Idle] /\ port' = port \ {p}
    /\ broken' = (broken \/ session[p].pc = "store")
    /\ UNCHANGED <<config, legacy, tokens, pages, checked, allowed, overlap, logins>>

\* ProfilesFile::load: profiles.toml counts only while .corky.toml has no profile at all.
Registry == IF \E f \in Profiles : config[f] # NoEntry THEN config ELSE legacy

\* validate, P1 and P2: a handle or an account of two profiles.
Errors ==
    {e \in Profiles \X Profiles :
        LET f == e[1]
            g == e[2]
        IN /\ f # g /\ NoEntry \notin {Registry[f], Registry[g]}
           /\ \/ Registry[f].handle = Registry[g].handle
              \/ Registry[f].urn = Registry[g].urn}

Check ==
    /\ checked' = (Errors = {})
    /\ UNCHANGED <<config, legacy, tokens, session, port, pages, allowed, broken, overlap, logins>>

Next ==
    \/ \E p \in Procs, f \in Profiles : Open(p, f)
    \/ \E p \in Procs, a \in Accounts : \E page \in pages : Authorize(p, page, a)
    \/ \E p \in Procs : ReadConfig(p) \/ WriteConfig(p) \/ StoreToken(p) \/ BreakOff(p)
    \/ Check

Spec == Init /\ [][Next]_vars

-----------------------------------------------------------------------------
(* Properties *)

\* resolve_urn.
Account(f) == Registry[f].urn

\* A profile publishes with an account that was let in on a page for this profile, never
\* with the answer of another login's page; its token is there, unless a login was
\* broken off after it had named the account or two wrote at once; and once checked,
\* no two profiles share an account.
ProfilesAreTheirOwn ==
    /\ \A f \in Profiles : <<f, Account(f)>> \in allowed \/ Account(f) = "none"
    /\ ~ broken /\ ~ overlap => \A f \in Profiles :
         config[f] # NoEntry =>
            config[f].urn \in tokens \cup {session[p].urn : p \in Procs}
    /\ checked => \A f, g \in Profiles : f # g => Account(f) # Account(g) \/ Account(f) = "none"
=============================================================================
