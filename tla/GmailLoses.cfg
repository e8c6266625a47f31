\* A Gmail pass of the watch breaks off.
SPECIFICATION Spec
CONSTANTS
    home = home
    work = work
    inbox = inbox
    sent = sent
    sync = sync
    watch = watch
    none = none
    None = none
    Accounts = {work}
    Gmail = {work}
    Labels = {inbox}
    Cli = {sync}
    Watch = watch
    Unreadable = {}
    MaxMails = 2
    MaxEvents = 1
    MaxCrashes = 0
    MaxFaults = 1
INVARIANTS
    NothingSkippedByGmail
