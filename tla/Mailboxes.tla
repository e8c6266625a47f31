------------------------------- MODULE Mailboxes -------------------------------
(***************************************************************************)
(* `corky mailbox add', `rename' and `remove', and the other commands that *)
(* rewrite .corky.toml: each changes a directory under mailboxes/ first    *)
(* and the configuration afterwards.  A mail sync reads the routes when it *)
(* begins and creates the directories they name.                           *)
(***************************************************************************)
EXTENDS FiniteSets, Naturals

CONSTANTS
    Names,
    Lower,      \* Lower[n]: n in lower case
    Labels,
    MaxCommands \* bound

VARIABLES
    dirs,        \* directories under mailboxes/
    configured,  \* the tables of [mailboxes]
    routing,     \* routing[l]: the mailboxes [routing] sends label l to
    command,     \* the command that is running
    routes,      \* the directories a running sync was told
    irregular,   \* history: a command broke off, met a running sync, or was given capitals
    commands

vars == <<dirs, configured, routing, command, routes, irregular, commands>>

NoCommand == [op |-> "none", name |-> CHOOSE n \in Names : TRUE,
              to |-> CHOOSE n \in Names : TRUE, labels |-> {}]

Init ==
    /\ dirs = {} /\ configured = {} /\ routing = [l \in Labels |-> {}]
    /\ command = NoCommand /\ routes = {}
    /\ irregular = FALSE /\ commands = 0

-----------------------------------------------------------------------------
(* The directory *)

\* resolve::mailbox_dir.
Dir(n) == Lower[n]

Start(op, n, to, ls) ==
    /\ command = NoCommand
    /\ commands < MaxCommands /\ commands' = commands + 1
    /\ command' = [op |-> op, name |-> n, to |-> to, labels |-> ls]
    /\ irregular' = (irregular \/ routes # {} \/ {n, to} # {Lower[n], Lower[to]})
    /\ UNCHANGED <<configured, routing, routes>>

\* add: the name is put in lower case; the directory is made, or is a new submodule.
Add(n, ls) ==
    /\ Dir(n) \notin dirs
    /\ dirs' = dirs \cup {Dir(n)}
    /\ Start("add", Lower[n], Lower[n], ls)

\* rename: git mv, if there is a directory; the names are taken as they are given.
Rename(n, to) ==
    /\ Dir(to) \notin dirs
    /\ dirs' = IF Dir(n) \in dirs THEN (dirs \ {Dir(n)}) \cup {Dir(to)} ELSE dirs
    /\ Start("rename", n, to, {})

Remove(n) ==
    /\ dirs' = dirs \ {Dir(n)}
    /\ Start("remove", n, n, {})

-----------------------------------------------------------------------------
(* .corky.toml *)

Configure(op, tables, table) ==
    /\ command.op = op
    /\ configured' = tables /\ routing' = table
    /\ command' = NoCommand
    /\ UNCHANGED <<dirs, routes, irregular, commands>>

\* update_config of add.
ConfigAdd ==
    LET n == command.name
    IN Configure("add", configured \cup {n},
           [l \in Labels |-> IF l \in command.labels THEN routing[l] \cup {n} ELSE routing[l]])

Replaced(s, n, to) == IF n \in s THEN (s \ {n}) \cup {to} ELSE s

\* Mutant: the table is renamed and the routes are not.
ConfigRenameTable ==
    Configure("rename", Replaced(configured, command.name, command.to), routing)

\* update_config of rename.
ConfigRename ==
    LET n == command.name
        to == command.to
    IN Configure("rename", Replaced(configured, n, to), [l \in Labels |-> Replaced(routing[l], n, to)])

\* remove_from_config; a label that is routed nowhere any more loses its entry.
ConfigRemove ==
    Configure("remove", configured \ {command.name}, [l \in Labels |-> routing[l] \ {command.name}])

\* A file cannot be written, or the process is killed: the configuration is what it was.
BreakOff ==
    /\ command # NoCommand /\ command' = NoCommand /\ irregular' = TRUE
    /\ UNCHANGED <<dirs, configured, routing, routes, commands>>

-----------------------------------------------------------------------------
(* The mail sync *)

\* build_label_routes: the paths as [routing] has them.
LoadRoutes ==
    /\ routes = {}
    /\ routes' = UNION {routing[l] : l \in Labels}
    /\ irregular' = (irregular \/ (routes' # {} /\ command # NoCommand))
    /\ UNCHANGED <<dirs, configured, routing, command, commands>>

\* merge_message_to_file makes the directory it writes to.
MergeInto(n) ==
    /\ n \in routes /\ dirs' = dirs \cup {n}
    /\ UNCHANGED <<configured, routing, command, routes, irregular, commands>>

SyncEnds ==
    /\ routes # {} /\ routes' = {}
    /\ UNCHANGED <<dirs, configured, routing, command, irregular, commands>>

Next ==
    \/ \E n \in Names : Remove(n) \/ MergeInto(n)
    \/ \E n \in Names, ls \in SUBSET Labels : Add(n, ls)
    \/ \E n, to \in Names : Rename(n, to)
    \/ ConfigAdd \/ ConfigRename \/ ConfigRemove \/ BreakOff
    \/ LoadRoutes \/ SyncEnds

Spec == Init /\ [][Next]_vars

-----------------------------------------------------------------------------
(* Properties *)

\* No label is routed to a mailbox that [mailboxes] does not know, through any series
\* of adds, renames and removals, also ones that broke off and were given again.
RoutesAreConfigured == \A l \in Labels : routing[l] \subseteq configured

\* Between commands there is a directory for each configured mailbox and for no other,
\* unless a command broke off, met a running sync (which creates the directory of a
\* mailbox that has gone), or was given a name with capitals.
DirectoriesMatch == command = NoCommand /\ ~ irregular => dirs = configured

\* The three places that name a mailbox agree.
NamesAgree == RoutesAreConfigured /\ DirectoriesMatch
=============================================================================
