------------------------------ MODULE ServiceTokens -----------------------------
(***************************************************************************)
(* How the calendar and Search Console commands come by an access token    *)
(* (cal/auth.rs, gsc/auth.rs): from the store, by a refresh, for Search    *)
(* Console from a service account, and last from the browser.  One         *)
(* process, which may ask several times; saving is an entry of the token   *)
(* store (TokenStore).  Google is external.                                *)
(***************************************************************************)
EXTENDS FiniteSets, Naturals

CONSTANTS
    ServiceAccounts, \* keys of service accounts that may stand in [gsc]
    MaxCalls, MaxEvents \* bounds: calls of get_access_token, events at Google's side

VARIABLES
    service, \* "calendar" or "gsc"
    stored,  \* the entry of the store: [there, fresh, refresh]
    refresh, \* Google: the refresh tokens that work
    config,  \* the key in [gsc]; "none": there is none
    sees,    \* Google: the service accounts that see a property
    cache,   \* SA_TOKEN_CACHE: the keys with a cached token, "fresh" or "late"
    pc, handed, \* the source of the token handed out; the service account it is of
    calls, events

vars == <<service, stored, refresh, config, sees, cache, pc, handed, calls, events>>

NoEntry == [there |-> FALSE, fresh |-> FALSE, refresh |-> 0]

Init ==
    /\ service \in {"calendar", "gsc"} /\ stored = NoEntry /\ refresh = {}
    /\ config \in ServiceAccounts \cup {"none"} /\ sees \in SUBSET ServiceAccounts
    /\ cache = [k \in ServiceAccounts |-> "none"]
    /\ pc = "idle" /\ handed = <<"none", "none">> /\ calls = 0 /\ events = 0

Hand(source, account) == pc' = "idle" /\ handed' = <<source, account>>

\* get_access_token: a stored token that is not about to expire, or else a refresh.
Begin ==
    /\ pc = "idle" /\ calls < MaxCalls /\ calls' = calls + 1
    /\ IF stored.there /\ stored.fresh THEN Hand("stored", "none")
       ELSE /\ pc' = IF stored.there /\ stored.refresh # 0 THEN "refresh" ELSE "service account"
            /\ handed' = <<"none", "none">>
    /\ UNCHANGED <<service, stored, refresh, config, sees, cache, events>>

\* Mutant: the entry is what the answer holds, which has no refresh token.
RefreshedOnly(token) == [there |-> TRUE, fresh |-> TRUE, refresh |-> 0]

\* refresh_access_token puts the refresh token it has used into the new entry.
Refreshed(token) == [there |-> TRUE, fresh |-> TRUE, refresh |-> token]

Refresh ==
    /\ pc = "refresh" /\ stored.refresh \in refresh
    /\ stored' = Refreshed(stored.refresh) /\ Hand("refreshed", "none")
    /\ UNCHANGED <<service, refresh, config, sees, cache, calls, events>>

RefreshFails ==
    /\ pc = "refresh" /\ pc' = "service account"
    /\ UNCHANGED <<service, stored, refresh, config, sees, cache, handed, calls, events>>

\* There is no service account, or none is configured.
NoServiceAccount ==
    /\ pc = "service account" /\ (service = "calendar" \/ config = "none")
    /\ pc' = "browser"
    /\ UNCHANGED <<service, stored, refresh, config, sees, cache, handed, calls, events>>

\* verify_service_account_access, of a cached token as well: it lists the properties.
Works(k) == k \in sees

\* try_service_account with a token of the cache, whose key has the fingerprint of the
\* configured key; one that fails leaves the cache, and the browser is next.
TryCached ==
    /\ pc = "service account" /\ service = "gsc" /\ config # "none" /\ cache[config] = "fresh"
    /\ IF Works(config) THEN Hand("service account", config) /\ UNCHANGED cache
       ELSE /\ cache' = [cache EXCEPT ![config] = "none"]
            /\ pc' = "browser" /\ UNCHANGED handed
    /\ UNCHANGED <<service, stored, refresh, config, sees, calls, events>>

\* ... or with a new one, which goes into the cache only when it has been seen to work; the
\* exchange may fail.
TryNew ==
    /\ pc = "service account" /\ service = "gsc" /\ config # "none" /\ cache[config] # "fresh"
    /\ \/ /\ config \in sees
          /\ cache' = [cache EXCEPT ![config] = "fresh"]
          /\ Hand("service account", config)
       \/ /\ cache' = [cache EXCEPT ![config] = "none"]
          /\ pc' = "browser" /\ UNCHANGED handed
    /\ UNCHANGED <<service, stored, refresh, config, sees, calls, events>>

\* run_auth_flow: prompt=consent always brings a refresh token.
LoggedIn ==
    /\ stored' = [there |-> TRUE, fresh |-> TRUE, refresh |-> calls']
    /\ refresh' = refresh \cup {calls'}
    /\ UNCHANGED <<service, config, sees, cache, events>>

\* The end of get_access_token.
LogIn == pc = "browser" /\ UNCHANGED calls /\ LoggedIn /\ Hand("browser", "none")

\* `corky cal auth', `corky gsc auth'.
RunAuth ==
    /\ pc = "idle" /\ calls < MaxCalls /\ calls' = calls + 1
    /\ LoggedIn /\ UNCHANGED <<pc, handed>>

\* The key in [gsc] cannot be read; or the time for the callback is up, its state is not
\* that of this login, or the exchange fails.
Fail ==
    /\ pc \in {"service account", "browser"} /\ pc' = "idle"
    /\ UNCHANGED <<service, stored, refresh, config, sees, cache, handed, calls, events>>

\* Time passes, the user takes the grant back or changes the key, and Search Console what
\* a service account sees.
Event ==
    /\ events < MaxEvents /\ events' = events + 1
    /\ \/ /\ stored' = [stored EXCEPT !.fresh = FALSE]
          /\ cache' = [k \in ServiceAccounts |-> IF cache[k] = "fresh" THEN "late" ELSE cache[k]]
          /\ UNCHANGED <<refresh, config, sees>>
       \/ refresh' = {} /\ UNCHANGED <<stored, cache, config, sees>>
       \/ \E k \in ServiceAccounts \cup {"none"} : config' = k
          /\ UNCHANGED <<stored, refresh, cache, sees>>
       \/ \E k \in ServiceAccounts : sees' = (sees \ {k}) \cup ({k} \ sees)
          /\ UNCHANGED <<stored, refresh, cache, config>>
    /\ UNCHANGED <<service, pc, handed, calls>>

\* clear_access_token after a 401: the entry goes, with its refresh token.
Clear ==
    /\ pc = "idle" /\ stored.there /\ stored' = NoEntry
    /\ UNCHANGED <<service, refresh, config, sees, cache, pc, handed, calls, events>>

Next ==
    \/ Begin \/ Refresh \/ RefreshFails \/ NoServiceAccount \/ TryCached \/ TryNew
    \/ LogIn \/ RunAuth \/ Fail \/ Event \/ Clear

Spec == Init /\ [][Next]_vars

-----------------------------------------------------------------------------
(* Properties *)

\* An entry never loses its refresh token, though a refresh is answered without one; and
\* a service account's token is handed out only if the account is the configured one and
\* sees a property at that moment, though its token may have been cached long before.
EntryRenewable == stored'.there => stored'.refresh # 0
ServiceTokenWorks == pc # "idle" /\ handed'[1] = "service account" => handed'[2] = config /\ config \in sees
GivenWorks == EntryRenewable /\ ServiceTokenWorks
TokensWork == [][GivenWorks]_vars
=============================================================================
