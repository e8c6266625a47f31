-------------------------------- MODULE Calendar -------------------------------
(***************************************************************************)
(* `corky cal create', `delete' and `check' on a calendar that others      *)
(* change at the same time (create.rs, delete.rs, list.rs, check.rs).      *)
(* A deletion lists the events that match and then deletes them one by     *)
(* one, or with --all the series they belong to.  The Calendar API is      *)
(* external: an event is an instance, a series the root of its instances.  *)
(***************************************************************************)
EXTENDS Naturals, FiniteSetsExt

CONSTANTS
    Events, Series, \* ids of instances and of the roots of recurring series
    SeriesOf,       \* SeriesOf[e]: the series of an instance, or else e
    Time,           \* Time[e]: its first minute and the minute behind its last
    AllDay,         \* the events that have dates instead of times
    ListLimit, CheckLimit, \* 25 and 50 in the code
    Horizon,        \* the minutes of the model are 0 to Horizon
    MaxChanges, MaxCommands \* bounds: what others do, commands

VARIABLES
    present,  \* the events in the calendar
    matching, \* those whose text the query finds
    valid,    \* Google accepts the access token
    pc,       \* "idle", "list" or "delete"
    all,      \* --all
    todo,     \* ids that remain to be deleted
    counted,  \* ids the command counts as deleted
    listed,   \* history: the events it listed
    gone,     \* history: events that went by its requests
    report,   \* what `check' said: the range and its free minutes
    changes, commands

vars == <<present, matching, valid, pc, all, todo, counted, listed, gone, report, changes,
          commands>>

Init ==
    /\ present \in SUBSET Events /\ matching \in SUBSET Events
    /\ valid = TRUE /\ pc = "idle" /\ all = FALSE
    /\ todo = {} /\ counted = {} /\ listed = {} /\ gone = {}
    /\ report = <<0, 0, 0>> /\ changes = 0 /\ commands = 0

Start(next) ==
    /\ pc = "idle" /\ commands < MaxCommands /\ commands' = commands + 1
    /\ pc' = next /\ valid' = TRUE

BeginDelete(series) ==
    /\ Start("list") /\ all' = series
    /\ todo' = {} /\ counted' = {} /\ listed' = {} /\ gone' = {}
    /\ report' = <<0, 0, 0>>
    /\ UNCHANGED <<present, matching, changes>>

\* What is to be deleted for the events found: with --all, each series once.
Doomed(found) == IF all THEN {SeriesOf[e] : e \in found} ELSE found

\* fetch_events: up to 25 of the events that match.  A dry run ends here.
List(found, dry) ==
    /\ pc = "list"
    /\ found \subseteq present \cap matching
    /\ Cardinality(found) = Min({ListLimit, Cardinality(present \cap matching)})
    /\ listed' = found
    /\ todo' = IF dry THEN {} ELSE Doomed(found)
    /\ pc' = IF todo' = {} THEN "idle" ELSE "delete"
    /\ UNCHANGED <<present, matching, valid, all, counted, gone, report, changes, commands>>

\* The events a deletion of this id removes.
Under(id) == {e \in present : e = id \/ SeriesOf[e] = id}

\* Mutant: any answer of the server counts as a deletion.
CountsAny(answer) == answer # "none"

\* api_delete: 404 and 410 say that the event has gone before.
Counts(answer) == answer \in {"deleted", "404", "410"}

\* The answer a request can get: an error of the server leaves the events there, a lost
\* answer may or may not.
Answers(id) ==
    IF ~valid THEN {"401"}
    ELSE {"500", "none"} \cup (IF Under(id) # {} THEN {"deleted"} ELSE {"404", "410"})

Delete(id, answer) ==
    /\ pc = "delete" /\ id \in todo /\ answer \in Answers(id)
    /\ \E arrives \in BOOLEAN :
        /\ answer = "deleted" => arrives
        /\ arrives => answer \in {"deleted", "none"}
        /\ present' = IF arrives THEN present \ Under(id) ELSE present
        /\ gone' = IF arrives THEN gone \cup Under(id) ELSE gone
    /\ counted' = IF Counts(answer) THEN counted \cup {id} ELSE counted
    /\ todo' = todo \ {id}
    /\ pc' = IF todo' = {} THEN "idle" ELSE "delete"
    /\ UNCHANGED <<matching, valid, all, listed, report, changes, commands>>

\* cal create: one request; without its answer the user does not know.
Create(e, arrives) ==
    /\ Start("idle") /\ e \notin present
    /\ present' = IF arrives THEN present \cup {e} ELSE present
    /\ todo' = {} /\ counted' = {} /\ listed' = {} /\ gone' = {}
    /\ report' = <<0, 0, 0>>
    /\ UNCHANGED <<matching, all, changes>>

\* parse_event_times: an event counts from `from' to `to' at most, and one without times for
\* all of it.
Clamped(e, from, to) ==
    IF e \in AllDay THEN <<from, to>>
    ELSE <<Max({Time[e][1], from}), Min({Time[e][2], to})>>

\* fetch_events_in_range: up to 50 of the events that touch the range.
Touching(from, to) == {e \in present : Time[e][1] < to /\ Time[e][2] > from}

\* The minutes each event takes of the range.
Busy(from, to, es) ==
    UNION {{<<e, m>> : m \in Clamped(e, from, to)[1]..(Clamped(e, from, to)[2] - 1)} : e \in es}

\* cal check: the minutes of the events are added up, those of two events twice.
Check(from, to, found) ==
    /\ Start("idle") /\ from < to
    /\ found \subseteq Touching(from, to)
    /\ Cardinality(found) = Min({CheckLimit, Cardinality(Touching(from, to))})
    /\ LET busy == Cardinality(Busy(from, to, found))
       IN report' = <<from, to, IF busy > to - from THEN 0 ELSE to - from - busy>>
    /\ todo' = {} /\ counted' = {} /\ listed' = {} /\ gone' = {}
    /\ UNCHANGED <<present, matching, all, changes>>

\* Others delete or rename an event, or revoke the access.
Change ==
    /\ changes < MaxChanges /\ changes' = changes + 1
    /\ \/ \E e \in present : present' = present \ {e} /\ UNCHANGED <<matching, valid>>
       \/ \E e \in Events : matching' = (matching \ {e}) \cup ({e} \ matching)
                            /\ UNCHANGED <<present, valid>>
       \/ valid' = FALSE /\ UNCHANGED <<present, matching>>
    /\ report' = <<0, 0, 0>>
    /\ UNCHANGED <<pc, all, todo, counted, listed, gone, commands>>

Next ==
    \/ \E series \in BOOLEAN : BeginDelete(series)
    \/ \E found \in SUBSET Events, dry \in BOOLEAN : List(found, dry)
    \/ \E id \in Events \cup Series : \E answer \in Answers(id) : Delete(id, answer)
    \/ \E e \in Events, arrives \in BOOLEAN : Create(e, arrives)
    \/ \E from, to \in 0..Horizon, found \in SUBSET Events : Check(from, to, found)
    \/ Change

Spec == Init /\ [][Next]_vars

-----------------------------------------------------------------------------
(* Properties *)

Minutes(from, to, es) == {m \in from..(to - 1) : \A e \in es : m < Time[e][1] \/ m >= Time[e][2]}

\* A deletion removes nothing but events it has listed or, with --all, their series; what
\* it counts as deleted is not in the calendar, whoever deleted it.  `check' never says
\* that there is more free time than there is, unless the range has more events than
\* it asks for.
CalendarIsAsTold ==
    /\ gone \subseteq listed \cup {e \in Events : all /\ \E f \in listed : SeriesOf[e] = SeriesOf[f]}
    /\ \A id \in counted : Under(id) = {}
    /\ Cardinality(Touching(report[1], report[2])) <= CheckLimit =>
         report[3] <= Cardinality(Minutes(report[1], report[2], present))
=============================================================================
