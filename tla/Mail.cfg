\* An IMAP account with two labels, and a Gmail account.
SPECIFICATION Spec
CONSTANTS
    home = home
    work = work
    inbox = inbox
    sent = sent
    all = all
    sync = sync
    watch = watch
    none = none
INVARIANTS
    TypeOK
    NothingSkipped
    SavesKeepOthers
PROPERTIES
    CursorNeverRegresses
    CrashedIsResumed
SYMMETRY Swap
