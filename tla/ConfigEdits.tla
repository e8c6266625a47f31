------------------------------ MODULE ConfigEdits ------------------------------
(***************************************************************************)
(* Commands that write .corky.toml: `contact add', by hand or from the     *)
(* participants of a conversation, and `add-label'.  Each reads the file,  *)
(* changes it and writes it whole, without a lock; a new contact gets its  *)
(* directory first.                                                        *)
(***************************************************************************)
EXTENDS Naturals, FiniteSets

CONSTANTS
    Procs,
    Persons,    \* the participants of the conversation: name and email of each
    Owner,      \* the emails of the configured accounts
    Slug,       \* Slug[n]: the directory name made of the display name n
    Labels,
    MaxCommands \* bound

VARIABLES
    config,  \* contacts: name and email of each; labels: the array of the account, in {},
             \* or {} if the account has none
    dirs,    \* dirs[n]: what there is of the directory of contact n
    pc,      \* pc[p]: what p does next
    job,     \* job[p]: the contact or label it adds
    read,    \* read[p]: the configuration as p has read it
    told,    \* the contacts and labels that commands reported as added
    overlap, \* history: two commands have run at a time
    killed,  \* history: a process was killed
    commands

vars == <<config, dirs, pc, job, read, told, overlap, killed, commands>>

Contact(n, e) == [name |-> n, email |-> e]
Label(l) == [label |-> l]
IsLabel(k) == DOMAIN k = {"label"}
Participants == {q \in Persons : q.email \notin Owner}
Names == {q.name : q \in Participants} \cup {Slug[q.name] : q \in Participants}
Nothing == [contacts |-> {}, labels |-> {}]

Init ==
    /\ config \in [contacts : {{}}, labels : {{}, {{}}}]
    /\ dirs = [n \in Names |-> "none"]
    /\ pc = [p \in Procs |-> "idle"]
    /\ job = [p \in Procs |-> {}]
    /\ read = [p \in Procs |-> Nothing]
    /\ told = {} /\ overlap = FALSE /\ killed = FALSE /\ commands = 0

Configured(c) == {k.name : k \in c.contacts}
Goto(p, l) == pc' = [pc EXCEPT ![p] = l]

Start(p, what, l) ==
    /\ pc[p] = "idle" /\ commands < MaxCommands /\ commands' = commands + 1
    /\ Goto(p, l) /\ job' = [job EXCEPT ![p] = {what}]
    /\ overlap' = (overlap \/ \E q \in Procs \ {p} : pc[q] # "idle")

-----------------------------------------------------------------------------
(* contact add *)

\* run_with_agents_md refuses a name that is configured or has a directory.
Free(n) == n \notin Configured(config) /\ dirs[n] = "none"

AddContact(p, n, e) ==
    /\ Free(n) /\ Start(p, Contact(n, e), "directory")
    /\ UNCHANGED <<config, dirs, read, told, killed>>

\* select_participant: any with that name, be it written as a directory's.
Matching(n) == {q \in Participants : n \in {q.name, Slug[q.name]}}

\* from_conversation: with a name, that of the contact, or without.  A single participant
\* is taken under any name.
FromConversation(p, q) ==
    \/ \E n \in Names : (Participants = {q} \/ q \in Matching(n)) /\ AddContact(p, n, q.email)
    \/ Participants = {q} /\ AddContact(p, Slug[q.name], q.email)

The(p) == CHOOSE k \in job[p] : TRUE

MakeDirectory(p) ==
    /\ pc[p] = "directory" /\ Goto(p, "link")
    /\ dirs' = [dirs EXCEPT ![The(p).name] = IF @ = "none" THEN "text" ELSE @]
    /\ UNCHANGED <<config, job, read, told, overlap, killed, commands>>

\* The symbolic link next to the text: an error if there is one.
Link(p) ==
    LET n == The(p).name
    IN /\ pc[p] = "link"
       /\ Goto(p, IF dirs[n] = "linked" THEN "idle" ELSE "read")
       /\ dirs' = [dirs EXCEPT ![n] = "linked"]
       /\ UNCHANGED <<config, job, read, told, overlap, killed, commands>>

-----------------------------------------------------------------------------
(* add-label *)

\* add_label_to_account ends if the account has the label; an empty file has no account.
AddLabel(p, l) ==
    /\ killed => config # Nothing
    /\ \A ls \in config.labels : Label(l) \notin ls
    /\ Start(p, Label(l), "read")
    /\ UNCHANGED <<config, dirs, read, told, killed>>

-----------------------------------------------------------------------------
(* .corky.toml *)

Read(p) ==
    /\ pc[p] = "read" /\ Goto(p, "write")
    /\ read' = [read EXCEPT ![p] = config]
    /\ UNCHANGED <<config, dirs, job, told, overlap, killed, commands>>

\* Mutant: the table of contacts is made anew.
EditedAnew(c, k) ==
    IF IsLabel(k) THEN [c EXCEPT !.labels = {ls \cup {k} : ls \in @}]
    ELSE [c EXCEPT !.contacts = {k}]

\* save_contact replaces the entry of that name; a label needs an array to go to.
Edited(c, k) ==
    IF IsLabel(k) THEN [c EXCEPT !.labels = {ls \cup {k} : ls \in @}]
    ELSE [c EXCEPT !.contacts = {x \in @ : x.name # k.name} \cup {k}]

Write(p) ==
    /\ pc[p] = "write" /\ Goto(p, "idle")
    /\ config' = Edited(read[p], The(p))
    /\ told' = told \cup {The(p)}
    /\ UNCHANGED <<dirs, job, read, overlap, killed, commands>>

\* The process is killed; in std::fs::write this can leave an empty file.
Kill(p) ==
    /\ pc[p] # "idle" /\ Goto(p, "idle") /\ killed' = TRUE
    /\ config' \in IF pc[p] = "write" THEN {config, Nothing} ELSE {config}
    /\ UNCHANGED <<dirs, job, read, told, overlap, commands>>

Next == \E p \in Procs :
    \/ MakeDirectory(p) \/ Link(p) \/ Read(p) \/ Write(p) \/ Kill(p)
    \/ \E l \in Labels : AddLabel(p, l)
    \/ \E n \in Names : AddContact(p, n, "new@x")
    \/ \E q \in Participants : FromConversation(p, q)

Spec == Init /\ [][Next]_vars

-----------------------------------------------------------------------------
(* Properties *)

\* Whatever overlaps or is killed, a configured contact has its directory, with the link,
\* and no two entries.
ContactsHaveDirectories ==
    /\ \A k \in config.contacts : dirs[k.name] = "linked"
    /\ Cardinality(Configured(config)) = Cardinality(config.contacts)

\* What was reported as added is configured, if commands took turns and none was killed;
\* but a label only where the account has a list of labels.
AddedIsConfigured ==
    overlap \/ killed \/ \A k \in told :
        IF IsLabel(k) THEN \A ls \in config.labels : k \in ls ELSE k \in config.contacts

\* Then a directory without an entry is that of a command at work.
NoStrayDirectories ==
    overlap \/ killed \/ \A n \in Names : dirs[n] = "none" \/ n \in Configured(config)
        \/ \E p \in Procs : pc[p] # "idle"

ConfigIsAsTold == ContactsHaveDirectories /\ AddedIsConfigured /\ NoStrayDirectories
=============================================================================
