\* Two mailboxes that list the same topic.
SPECIFICATION Spec
CONSTANTS
    Mailboxes = {alpha, beta}
    MaxEdits = 3
    MaxCopies = 4
PROPERTIES
    NewerFileWins
CHECK_DEADLOCK FALSE
