------------------------------ MODULE GmailFilters ------------------------------
(***************************************************************************)
(* `corky filter push' and `check' (filter/push.rs, check.rs): a push      *)
(* deletes every filter Gmail has and creates those of .corky.toml anew,   *)
(* one request each, while the user may change filters in Gmail's web      *)
(* interface.                                                              *)
(***************************************************************************)
EXTENDS FiniteSets, Naturals

CONSTANTS
    Matches,     \* the criteria a filter may have, as convert_one renders them
    Labels,      \* labels of the user
    MaxFilters,  \* bound: filters made
    MaxFaults    \* bound: failed requests and kills

VARIABLES
    config,   \* [[gmail.filters]]
    gmail,    \* Gmail's filters: <<id, filter>>
    labels,   \* Gmail's labels
    pc,
    wanted,   \* the filters the push has read
    known,    \* its map of labels
    doomed,   \* ids it has still to delete
    todo,     \* filters it has still to create
    settled,  \* history: the last push came through and nobody changed a filter since its fetch
    made, faults

push == <<pc, wanted, known, doomed, todo>>
vars == <<config, gmail, labels, push, settled, made, faults>>

Filters == [match : Matches, label : Labels]

Init ==
    /\ config \in SUBSET Filters
    /\ gmail = {} /\ labels = {}
    /\ pc = "idle" /\ wanted = {} /\ known = {} /\ doomed = {} /\ todo = {}
    /\ settled = FALSE /\ made = 0 /\ faults = 0

-----------------------------------------------------------------------------
(* Push *)

\* load_config and fetch_label_map; without filters there is nothing to push.
Begin ==
    /\ pc = "idle" /\ config # {}
    /\ pc' = "labels" /\ wanted' = config /\ known' = labels
    /\ settled' = FALSE
    /\ UNCHANGED <<config, gmail, labels, doomed, todo, made, faults>>

Missing == {f.label : f \in wanted} \ known

\* ensure_labels; Gmail refuses a label that has come into being since, and the push ends.
EnsureLabel(l) ==
    /\ pc = "labels" /\ l \in Missing
    /\ IF l \in labels THEN pc' = "idle" /\ UNCHANGED <<labels, known>>
       ELSE labels' = labels \cup {l} /\ known' = known \cup {l} /\ UNCHANGED pc
    /\ UNCHANGED <<config, gmail, wanted, doomed, todo, settled, made, faults>>

\* Mutant: what is there already is spared and created again.
FetchOthers ==
    /\ pc = "labels" /\ Missing = {}
    /\ pc' = "delete" /\ todo' = wanted
    /\ doomed' = {e[1] : e \in {x \in gmail : x[2] \notin wanted}}
    /\ settled' = TRUE
    /\ UNCHANGED <<config, gmail, labels, wanted, known, made, faults>>

\* convert_filters and fetch_existing_filters.
FetchExisting ==
    /\ pc = "labels" /\ Missing = {}
    /\ pc' = "delete" /\ todo' = wanted
    /\ doomed' = {e[1] : e \in gmail}
    /\ settled' = TRUE
    /\ UNCHANGED <<config, gmail, labels, wanted, known, made, faults>>

\* delete_filter; a filter that has gone answers 404, and the push ends.
DeleteFilter(i) ==
    /\ pc = "delete" /\ i \in doomed
    /\ LET there == {e \in gmail : e[1] = i}
       IN /\ gmail' = gmail \ there
          /\ IF there = {} THEN pc' = "idle" /\ UNCHANGED doomed
             ELSE doomed' = doomed \ {i} /\ UNCHANGED pc
    /\ UNCHANGED <<config, labels, wanted, known, todo, settled, made, faults>>

Make(f) ==
    /\ made < MaxFilters /\ made' = made + 1
    /\ gmail' = gmail \cup {<<made', f>>}

CreateFilter(f) ==
    /\ pc = "delete" /\ doomed = {} /\ f \in todo
    /\ Make(f) /\ todo' = todo \ {f}
    /\ UNCHANGED <<config, labels, pc, wanted, known, doomed, settled, faults>>

Done ==
    /\ pc = "delete" /\ doomed = {} /\ todo = {} /\ pc' = "idle"
    /\ UNCHANGED <<config, gmail, labels, wanted, known, doomed, todo, settled, made, faults>>

\* A request fails, or the push is killed; the request may have been carried out.
Fail ==
    /\ pc # "idle" /\ pc' = "idle" /\ settled' = FALSE
    /\ faults < MaxFaults /\ faults' = faults + 1
    /\ \/ UNCHANGED <<gmail, labels, made>>
       \/ doomed = {} /\ (\E f \in todo : Make(f)) /\ UNCHANGED labels
       \/ (\E i \in doomed : gmail' = {e \in gmail : e[1] # i}) /\ UNCHANGED <<labels, made>>
       \/ pc = "labels" /\ (\E l \in Missing : labels' = labels \cup {l}) /\ UNCHANGED <<gmail, made>>
    /\ UNCHANGED <<config, wanted, known, doomed, todo>>

-----------------------------------------------------------------------------
(* The user *)

\* In .corky.toml.
Configure(f) ==
    /\ pc = "idle"
    /\ config' = IF f \in config THEN config \ {f} ELSE config \cup {f}
    /\ UNCHANGED <<gmail, labels, push, settled, made, faults>>

\* In Gmail, which makes the label if need be.
WebCreate(f) ==
    /\ Make(f) /\ labels' = labels \cup {f.label} /\ settled' = FALSE
    /\ UNCHANGED <<config, push, faults>>

WebDelete(e) ==
    /\ e \in gmail /\ gmail' = gmail \ {e} /\ settled' = FALSE
    /\ UNCHANGED <<config, labels, push, made, faults>>

Next ==
    \/ Begin \/ FetchExisting \/ Done \/ Fail
    \/ \E l \in Labels : EnsureLabel(l)
    \/ \E i \in 1..MaxFilters : DeleteFilter(i)
    \/ \E f \in Filters : CreateFilter(f) \/ Configure(f) \/ WebCreate(f)
    \/ \E e \in gmail : WebDelete(e)

Spec == Init /\ [][Next]_vars

-----------------------------------------------------------------------------
(* Properties *)

\* check: the criteria alone are compared, in both directions.
InSync == {f.match : f \in config} = {e[2].match : e \in gmail}

\* A push that comes through leaves exactly the configured filters, each once, and the
\* drift check finds nothing: also after pushes that broke off between the deletions and
\* the creations, or whose requests were carried out without an answer.
PushReplacesAll ==
    pc = "idle" /\ settled =>
        /\ {e[2] : e \in gmail} = wanted
        /\ Cardinality(gmail) = Cardinality(wanted)
        /\ config = wanted => InSync
=============================================================================
