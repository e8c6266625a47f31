------------------------------ MODULE TokenStore ------------------------------
(***************************************************************************)
(* The OAuth token cache of social/token_store.rs as the corky commands    *)
(* use it through filter/gmail_auth.rs: load tokens.json, use or renew the *)
(* token of one key, save, call the API, and forget the token if the       *)
(* server answers 401.  Every process holds its own TokenStore; only the   *)
(* read-merge-replace of save_json_with_lock is atomic, so a store may be  *)
(* arbitrarily stale when it is saved (the browser flow waits for a user). *)
(***************************************************************************)
EXTENDS FiniteSets

CONSTANTS
    Procs,      \* corky processes
    Keys,       \* keys of the store: "gmail:user", "gmail:account:send", ...
    SendKeys,   \* the keys cleared by `draft send'
    Tokens,     \* access tokens the provider may issue
    NoToken

ASSUME TokenAssumption == SendKeys \subseteq Keys /\ NoToken \notin Tokens

VARIABLES
    disk,       \* tokens.json
    tokens,     \* tokens[p]: the map of p's TokenStore
    loaded,     \* loaded[p]: loaded_tokens, the map as it was read
    dirty,      \* dirty[p]: dirty_tokens
    deleted,    \* deleted[p]: deleted_tokens
    pc, key,    \* what p does, and for which key
    token,      \* token[p]: the access token p calls the API with
    issued,     \* tokens the provider has issued
    expired,    \* issued tokens whose expires_at has passed
    revoked,    \* issued tokens the provider no longer accepts
    seen        \* history: tokens that have been on disk

store == <<tokens, loaded, dirty, deleted>>
provider == <<issued, expired, revoked>>
vars == <<disk, store, pc, key, token, provider, seen>>

Map == [Keys -> Tokens \cup {NoToken}]

\* Mutant: a missing file is read as a map of empty entries.
EmptyEntries == [k \in Keys |-> {}]

\* load_json_or_default without a file.
Empty == [k \in Keys |-> NoToken]

TypeOK ==
    /\ disk \in Map
    /\ tokens \in [Procs -> Map] /\ loaded \in [Procs -> Map]
    /\ dirty \in [Procs -> SUBSET Keys] /\ deleted \in [Procs -> SUBSET Keys]
    /\ pc \in [Procs -> {"idle", "loaded", "save", "call", "clear"}]
    /\ key \in [Procs -> Keys \cup {NoToken}]
    /\ token \in [Procs -> Tokens \cup {NoToken}]
    /\ issued \in SUBSET Tokens
    /\ expired \in SUBSET issued /\ revoked \in SUBSET issued
    /\ seen \in SUBSET issued

Init ==
    /\ disk = Empty
    /\ tokens = [p \in Procs |-> Empty] /\ loaded = [p \in Procs |-> Empty]
    /\ dirty = [p \in Procs |-> {}] /\ deleted = [p \in Procs |-> {}]
    /\ pc = [p \in Procs |-> "idle"]
    /\ key = [p \in Procs |-> NoToken] /\ token = [p \in Procs |-> NoToken]
    /\ issued = {} /\ expired = {} /\ revoked = {} /\ seen = {}

-----------------------------------------------------------------------------
(* The operations of TokenStore *)

\* load_from: loaded_tokens remembers what was read.
Load(p, k) ==
    /\ pc[p] = "idle"
    /\ pc' = [pc EXCEPT ![p] = "loaded"]
    /\ key' = [key EXCEPT ![p] = k]
    /\ tokens' = [tokens EXCEPT ![p] = disk]
    /\ loaded' = [loaded EXCEPT ![p] = disk]
    /\ dirty' = [dirty EXCEPT ![p] = {}]
    /\ deleted' = [deleted EXCEPT ![p] = {}]
    /\ UNCHANGED <<disk, token, provider, seen>>

\* Mutant: the closure of save_to writes the whole in-memory map.
SavesAll(p, current) == tokens[p]

\* The closure save_to runs on the file as it is under the lock: keys that p read
\* and has dropped are removed, keys that p changed or marked dirty are written.
Merged(p, current) ==
    LET Dropped(k) == loaded[p][k] # NoToken /\ (tokens[p][k] = NoToken \/ k \in deleted[p])
        Changed(k) == tokens[p][k] # NoToken /\ (loaded[p][k] # tokens[p][k] \/ k \in dirty[p])
    IN [k \in Keys |-> IF Changed(k) THEN tokens[p][k]
                       ELSE IF Dropped(k) THEN NoToken ELSE current[k]]

-----------------------------------------------------------------------------
(* get_access_token_for_user and its siblings *)

\* get_valid: the cached token has not expired; nothing tells p that it is revoked.
UseCached(p) ==
    /\ pc[p] = "loaded"
    /\ tokens[p][key[p]] \notin expired \cup {NoToken}
    /\ token' = [token EXCEPT ![p] = tokens[p][key[p]]]
    /\ pc' = [pc EXCEPT ![p] = "call"]
    /\ UNCHANGED <<disk, store, key, provider, seen>>

\* The token is missing, expired or lacks a scope: the provider issues a new one,
\* by a refresh or in the browser, and upsert puts it in p's store.
Renew(p, t) ==
    /\ pc[p] = "loaded"
    /\ t \notin issued /\ issued' = issued \cup {t}
    /\ tokens' = [tokens EXCEPT ![p][key[p]] = t]
    /\ dirty' = [dirty EXCEPT ![p] = @ \cup {key[p]}]
    /\ deleted' = [deleted EXCEPT ![p] = @ \ {key[p]}]
    /\ token' = [token EXCEPT ![p] = t]
    /\ pc' = [pc EXCEPT ![p] = "save"]
    /\ UNCHANGED <<disk, loaded, key, expired, revoked, seen>>

Save(p) ==
    /\ pc[p] = "save"
    /\ disk' = Merged(p, disk)
    /\ seen' = seen \cup ({disk'[k] : k \in Keys} \ {NoToken})
    /\ pc' = [pc EXCEPT ![p] = "call"]
    /\ UNCHANGED <<store, key, token, provider>>

CallOk(p) ==
    /\ pc[p] = "call" /\ token[p] \notin expired \cup revoked
    /\ pc' = [pc EXCEPT ![p] = "idle"]
    /\ UNCHANGED <<disk, store, key, token, provider, seen>>

Call401(p) ==
    /\ pc[p] = "call" /\ token[p] \in expired \cup revoked
    /\ pc' = [pc EXCEPT ![p] = "clear"]
    /\ UNCHANGED <<disk, store, key, token, provider, seen>>

\* Mutant: the key is cleared, whatever it holds by now.
ClearWholeKey(p) ==
    /\ pc[p] = "clear" /\ key[p] \notin SendKeys
    /\ disk' = [disk EXCEPT ![key[p]] = NoToken]
    /\ pc' = [pc EXCEPT ![p] = "idle"]
    /\ UNCHANGED <<store, key, token, provider, seen>>

\* clear_access_token: every key that holds the rejected token is removed.
ClearByValue(p) ==
    /\ pc[p] = "clear" /\ key[p] \notin SendKeys
    /\ disk' = [k \in Keys |-> IF disk[k] = token[p] THEN NoToken ELSE disk[k]]
    /\ pc' = [pc EXCEPT ![p] = "idle"]
    /\ UNCHANGED <<store, key, token, provider, seen>>

\* clear_send_token: whatever the key holds is removed (remove_persisted_from).
ClearByKey(p) ==
    /\ pc[p] = "clear" /\ key[p] \in SendKeys
    /\ disk' = [disk EXCEPT ![key[p]] = NoToken]
    /\ pc' = [pc EXCEPT ![p] = "idle"]
    /\ UNCHANGED <<store, key, token, provider, seen>>

\* The process is killed, or the user gives up the login.
Quit(p) ==
    /\ pc[p] # "idle"
    /\ pc' = [pc EXCEPT ![p] = "idle"]
    /\ UNCHANGED <<disk, store, key, token, provider, seen>>

-----------------------------------------------------------------------------
(* The provider and the clock *)

Expire(t) ==
    /\ t \in issued \ expired /\ expired' = expired \cup {t}
    /\ UNCHANGED <<disk, store, pc, key, token, issued, revoked, seen>>

Revoke(t) ==
    /\ t \in issued \ revoked /\ revoked' = revoked \cup {t}
    /\ UNCHANGED <<disk, store, pc, key, token, issued, expired, seen>>

Next ==
    \/ \E p \in Procs :
          \/ \E k \in Keys : Load(p, k)
          \/ \E t \in Tokens : Renew(p, t)
          \/ UseCached(p) \/ Save(p) \/ CallOk(p) \/ Call401(p)
          \/ ClearByValue(p) \/ ClearByKey(p) \/ Quit(p)
    \/ \E t \in Tokens : Expire(t) \/ Revoke(t)

Spec == Init /\ [][Next]_vars

-----------------------------------------------------------------------------
(* Properties *)

\* However stale the stores of the processes are when they are saved, the file
\* behaves as one register per key: no save touches a key its process did not
\* renew, and none brings back a token that was cleared or replaced.
Registers == INSTANCE KeyedTokens WITH
    Keys <- Keys, Tokens <- Tokens, NoToken <- NoToken, disk <- disk, seen <- seen
ImplementsRegisters == Registers!Spec

\* A 401 never costs another process its new token: a key cleared by value loses
\* a token only if the provider no longer accepts that token.
OnlyRejectedIsCleared ==
    [][\A k \in Keys \ SendKeys :
           disk[k] # NoToken /\ disk'[k] = NoToken => disk[k] \in expired \cup revoked]_vars

\* The same for the keys of `draft send', which SPEC.md says are cleared the same way.
OnlyRejectedSendIsCleared ==
    [][\A k \in SendKeys :
           disk[k] # NoToken /\ disk'[k] = NoToken => disk[k] \in expired \cup revoked]_vars
=============================================================================
