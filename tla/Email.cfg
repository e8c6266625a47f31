SPECIFICATION FairSpec
CONSTANTS
    Drafts = {note}
    Procs = {watch, cli}
    Daemon = watch
    MaxCrashes = 1
    MaxErrors = 1
    MaxEdits = 2
    MaxCommands = 1
INVARIANTS
    TypeOK
    SentOncePerApproval
    SentMeansDelivered
PROPERTIES
    WithdrawnIsNotSent
    SentIsFinal
    DueIsSent
CHECK_DEADLOCK FALSE
