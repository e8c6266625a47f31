------------------------------ MODULE GoogleLogin ------------------------------
(***************************************************************************)
(* What the cached Google token of one key goes through                    *)
(* (filter/gmail_auth.rs, oauth_loopback.rs): commands that take it from   *)
(* the cache, refresh it, or send the user to the browser and wait on the  *)
(* one loopback port, in several processes.  A command saves its entry     *)
(* only, under the lock of the store (TokenStore).                         *)
(***************************************************************************)
EXTENDS FiniteSets, Naturals

CONSTANTS Procs, Scopes, MaxCommands \* bound

VARIABLES
    disk,     \* the entry under the key
    granted,  \* Google: the scopes the user has allowed
    session,  \* session[p]: what the command of p is at
    port,     \* the process that holds the default loopback port
    revoked,  \* history: the user has taken scopes back
    commands

vars == <<disk, granted, session, port, revoked, commands>>

\* An entry: is there one, the scopes recorded, is the access token within its time, and
\* the scopes of the refresh token; {}: there is no refresh token.
Entry(there, scopes, fresh, refresh) ==
    [there |-> there, scopes |-> scopes, fresh |-> fresh, refresh |-> refresh]
NoEntry == Entry(FALSE, {}, FALSE, {})

\* loaded: the entry the command has read; consent: the URL has prompt=consent; answer:
\* the token of the exchange.
Idle == [pc |-> "idle", kind |-> "use", want |-> {}, loaded |-> NoEntry,
         consent |-> FALSE, answer |-> NoEntry]

Init ==
    /\ disk = NoEntry /\ granted = {}
    /\ session = [p \in Procs |-> Idle]
    /\ port = {} /\ revoked = FALSE /\ commands = 0

-----------------------------------------------------------------------------
(* What comes of the answers *)

\* merge_scopes.
MergeScopes(primary, secondary) == primary \cup secondary

\* Mutant: a grant that comes without a refresh token loses the one there was.
MergeForgets(token, previous) ==
    IF previous.there /\ previous.refresh # {}
       THEN [token EXCEPT !.scopes = MergeScopes(token.scopes, previous.scopes)]
       ELSE token

\* merge_cached_grant.
MergeCachedGrant(token, previous) ==
    IF previous.there /\ previous.refresh # {}
       THEN [token EXCEPT !.refresh = IF token.refresh = {} THEN previous.refresh ELSE token.refresh,
                          !.scopes = MergeScopes(token.scopes, previous.scopes)]
       ELSE token

\* prompt_consent_for.
PromptConsent(previous, force) == force \/ previous.refresh = {}

\* Mutant: the scopes that were asked for are taken for granted.
TakesRequested(response, requested) == requested

\* parse_token_response: the scopes of the response; if it names none, those asked for.
ParsedScopes(response, requested) == IF response = {} THEN requested ELSE response

\* OAuth lets an answer leave the scopes out if they are the ones asked for.
Responses(scopes, asked) == IF asked THEN {{}, scopes} ELSE {scopes}

\* scope_covered, for scopes of which none is the read-only form of another.
ScopeCovered(scopes, requested) == requested \subseteq scopes

-----------------------------------------------------------------------------
(* A command *)

Ends(p) == session' = [session EXCEPT ![p] = Idle]

\* The entry is read.  "use": get_access_token_for_user; "quiet": the noninteractive
\* form, which does not look at the scopes; "login": `corky auth'.
Load(p, k, w) ==
    /\ session[p] = Idle /\ commands < MaxCommands /\ commands' = commands + 1
    /\ LET covered == k = "quiet" \/ ScopeCovered(disk.scopes, w)
           refreshes == k # "login" /\ ~ disk.fresh /\ disk.refresh # {} /\ covered
           asks == k = "login" \/ (k = "use" /\ ~ (disk.fresh /\ covered) /\ ~ refreshes)
       IN session' = IF ~ (refreshes \/ asks) THEN session ELSE
            [session EXCEPT ![p] = [Idle EXCEPT
                !.pc = IF refreshes THEN "refresh" ELSE "bind",
                !.kind = k, !.want = w, !.loaded = disk,
                !.consent = PromptConsent(disk, k = "login")]]
    /\ UNCHANGED <<disk, granted, port, revoked>>

\* refresh_access_token: it works while Google has the grant, and the answer is saved.
Refresh(p) ==
    /\ session[p].pc = "refresh"
    /\ LET loaded == session[p].loaded
       IN /\ loaded.refresh \subseteq granted
          /\ \E response \in Responses(loaded.refresh, TRUE) :
                disk' = Entry(TRUE, ParsedScopes(response, loaded.scopes), TRUE, loaded.refresh)
    /\ Ends(p)
    /\ UNCHANGED <<granted, port, revoked, commands>>

\* It can always fail: then the user is asked, with prompt=consent.
RefreshFails(p) ==
    /\ session[p].pc = "refresh"
    /\ IF session[p].kind = "quiet" THEN Ends(p)
       ELSE session' = [session EXCEPT ![p].pc = "bind", ![p].consent = TRUE]
    /\ UNCHANGED <<disk, granted, port, revoked, commands>>

\* LoopbackServer::bind; while another login holds the port, the command ends or, if the
\* environment opts in, listens on a port of its own.
Bind(p) ==
    /\ session[p].pc = "bind"
    /\ \/ port = {} /\ port' = {p} /\ session' = [session EXCEPT ![p].pc = "browser"]
       \/ port # {} /\ UNCHANGED port
          /\ (Ends(p) \/ session' = [session EXCEPT ![p].pc = "browser"])
    /\ UNCHANGED <<disk, granted, revoked, commands>>

\* The user allows some of the scopes; recv_callback gets the code, and exchange_code a
\* token with all scopes allowed so far (include_granted_scopes).  There is a refresh
\* token in the answer if the user was asked for consent, and may be one otherwise.
Authorize(p, allowed) ==
    /\ session[p].pc = "browser" /\ allowed \subseteq session[p].want
    /\ granted' = granted \cup allowed /\ granted' # {}
    /\ \E refresh \in IF session[p].consent THEN {granted'} ELSE {{}, granted'} :
       \E response \in Responses(granted', allowed = session[p].want) :
        session' = [session EXCEPT ![p].pc = "save",
            ![p].answer = Entry(TRUE, ParsedScopes(response, session[p].want), TRUE, refresh)]
    /\ port' = port \ {p}
    /\ UNCHANGED <<disk, revoked, commands>>

\* merge_cached_grant with the entry read at the beginning; ensure_scope_covered; save.
Save(p) ==
    /\ session[p].pc = "save"
    /\ LET token == MergeCachedGrant(session[p].answer, session[p].loaded)
       IN disk' = IF ScopeCovered(token.scopes, session[p].want) THEN token ELSE disk
    /\ Ends(p)
    /\ UNCHANGED <<granted, port, revoked, commands>>

\* No callback within the time, an error in it, a failed exchange, or a kill.
BreakOff(p) ==
    /\ session[p] # Idle /\ Ends(p) /\ port' = port \ {p}
    /\ UNCHANGED <<disk, granted, revoked, commands>>

\* clear_send_token, clear_rejected_user_token.
Clear ==
    /\ disk.there /\ disk' = NoEntry
    /\ UNCHANGED <<granted, session, port, revoked, commands>>

-----------------------------------------------------------------------------
(* Time and the user *)

Expire ==
    /\ disk.fresh /\ disk' = [disk EXCEPT !.fresh = FALSE]
    /\ UNCHANGED <<granted, session, port, revoked, commands>>

Revoke ==
    /\ granted # {} /\ granted' = {} /\ revoked' = TRUE
    /\ UNCHANGED <<disk, session, port, commands>>

Next ==
    \/ \E p \in Procs, k \in {"use", "quiet", "login"}, w \in SUBSET Scopes \ {{}} : Load(p, k, w)
    \/ \E p \in Procs, allowed \in SUBSET Scopes : Authorize(p, allowed)
    \/ \E p \in Procs : Refresh(p) \/ RefreshFails(p) \/ Bind(p) \/ Save(p) \/ BreakOff(p)
    \/ Clear \/ Expire \/ Revoke

Spec == Init /\ [][Next]_vars

-----------------------------------------------------------------------------
(* Properties *)

\* An entry that has a refresh token is never replaced by one that has none, however
\* logins overlap and whatever Google leaves out: `keep the refresh grant we already have'.
GrantKept == disk.refresh # {} /\ disk'.there => disk'.refresh # {}
RefreshTokenKept == [][GrantKept]_vars

\* Until the user takes scopes back, the entry records only scopes he has allowed, so
\* that a token taken from the cache by its scopes works.
ScopesAreGranted == ~ revoked => disk.scopes \subseteq granted
=============================================================================
