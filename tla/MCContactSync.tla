----------------------------- MODULE MCContactSync -----------------------------
(* Two mailboxes that share a contact. *)
EXTENDS ContactSync

CONSTANTS alpha, beta

MCOrder == <<alpha, beta>>
=============================================================================
