\* A mailbox is renumbered under a new UIDVALIDITY.
SPECIFICATION Spec
CONSTANTS
    home = home
    work = work
    inbox = inbox
    sent = sent
    sync = sync
    watch = watch
    none = none
    None = none
    Accounts = {home}
    Gmail = {}
    Labels = {inbox}
    Cli = {sync}
    Watch = watch
    Unreadable = {}
    MaxMails = 3
    MaxEvents = 2
    MaxCrashes = 0
    MaxFaults = 2
INVARIANTS
    NothingSkippedAfterReset
