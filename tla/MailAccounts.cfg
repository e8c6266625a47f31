\* An IMAP and a Gmail account, and what the watch must get done.
SPECIFICATION FairSpec
CONSTANTS
    home = home
    work = work
    inbox = inbox
    sent = sent
    sync = sync
    watch = watch
    none = none
    None = none
    Accounts = {home, work}
    Gmail = {work}
    Labels = {inbox}
    Cli = {sync}
    Watch = watch
    Unreadable = {}
    MaxMails = 1
    MaxEvents = 1
    MaxCrashes = 1
    MaxFaults = 1
INVARIANTS
    SavesKeepOthers
PROPERTIES
    EventuallyDelivered
