\* The resumed sync of an interrupted account fails.
SPECIFICATION Spec
CONSTANTS
    home = home
    work = work
    inbox = inbox
    sent = sent
    sync = sync
    watch = watch
    none = none
    None = none
    Accounts = {home}
    Gmail = {}
    Labels = {inbox}
    Cli = {sync}
    Watch = watch
    Unreadable = {}
    MaxMails = 1
    MaxEvents = 1
    MaxCrashes = 1
    MaxFaults = 2
PROPERTIES
    CrashedIsReverified
