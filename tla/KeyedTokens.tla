----------------------------- MODULE KeyedTokens -----------------------------
(***************************************************************************)
(* What the token store promises its users: tokens.json behaves as one     *)
(* register per key.  A step stores one new token under one key, or empties *)
(* one key, or forgets one token; a token that left the store never returns. *)
(***************************************************************************)
CONSTANTS Keys, Tokens, NoToken

VARIABLES disk,   \* disk[k]: the token stored under k
          seen    \* every token that has ever been stored

Init ==
    /\ disk = [k \in Keys |-> NoToken]
    /\ seen = {}

Put(k, t) ==
    /\ t \notin seen
    /\ disk' = [disk EXCEPT ![k] = t]
    /\ seen' = seen \cup {t}

Empty(k) ==
    /\ disk' = [disk EXCEPT ![k] = NoToken]
    /\ UNCHANGED seen

Forget(t) ==
    /\ disk' = [k \in Keys |-> IF disk[k] = t THEN NoToken ELSE disk[k]]
    /\ UNCHANGED seen

Next ==
    \/ \E k \in Keys : Empty(k) \/ \E t \in Tokens : Put(k, t)
    \/ \E t \in Tokens : Forget(t)

Spec == Init /\ [][Next]_<<disk, seen>>
=============================================================================
