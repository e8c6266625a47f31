------------------------------ MODULE MCMailSync ------------------------------
EXTENDS MailSync, TLC

CONSTANTS home, work, inbox, sent, sync, watch, none

Swap == Permutations(Labels)
=============================================================================
