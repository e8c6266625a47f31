----------------------------- MODULE Conversations -----------------------------
(***************************************************************************)
(* The conversation files: how a mail finds its file, when the same        *)
(* conversation comes from IMAP (keyed by its subject) and from Gmail      *)
(* (keyed by the thread id), and what `corky sync refetch' and             *)
(* `corky sync routes' do to the files.                                    *)
(*                                                                         *)
(* One command runs at a time.  All mails here have one subject, so their  *)
(* files share a slug and are told apart by the number unique_slug gives.  *)
(***************************************************************************)
EXTENDS Naturals, FiniteSets, FiniteSetsExt

CONSTANTS
    Mails, None,
    MessageId,  \* MessageId[m]: or None
    Stamp,      \* Stamp[m]: the address of the sender and the second of the date
    Key,        \* Key[provider][m]: the thread key the provider gives m
    LabelsOf,   \* LabelsOf[m]: the labels m carries
    Route,      \* Route[l]: the mailbox directories [routing] sends label l to
    MaxFetches, \* bound: mails taken up by a sync
    MaxCommands \* bound: refetch and routes

VARIABLES
    files,   \* files[d][n]: the conversation in the n-th file of directory d
    batch,   \* what the command has still to merge
    routed,  \* the mailbox directories a refetch has still to refresh
    target,  \* the mails of the refetch that is carried out
    handed,  \* history: mails merged into conversations/
    removed, \* history: mails in the files that refetches removed
    fetches, commands

bounds == <<fetches, commands>>
vars == <<files, batch, routed, target, handed, removed, bounds>>

Providers == {"imap", "gmail"}
Main == "conversations"
Labels == DOMAIN Route
Dirs == {Main} \cup UNION {Route[l] : l \in Labels}
Names == 1..(2 * Cardinality(Mails) + 1) \* each mail has two keys

Absent == [id |-> None, aliases |-> {}, mails |-> {}, labels |-> {}, first |-> None]
Item(provider, m, l, d) == [provider |-> provider, mail |-> m, label |-> l, dir |-> d]

Init ==
    /\ files = [d \in Dirs |-> [n \in Names |-> Absent]]
    /\ batch = {} /\ routed = {}
    /\ target = {}
    /\ handed = {} /\ removed = {}
    /\ fetches = 0 /\ commands = 0

-----------------------------------------------------------------------------
(* Which file *)

Exists(d, n) == files[d][n] # Absent

\* Mutant: only the id of a thread is compared, not its aliases.
ClaimsById(t, k) == t # Absent /\ t.id = k

\* claims_key.
Claims(t, k) == t # Absent /\ (t.id = k \/ k \in t.aliases)

FindThreadFile(d, k) == {n \in Names : Claims(files[d][n], k)}

FindByMessageId(d, m) ==
    IF MessageId[m] = None THEN {}
    ELSE {n \in Names : \E x \in files[d][n].mails : MessageId[x] = MessageId[m]}

\* Any of the files that match, in the order of the directory; 0 for a new one.
Candidates(d, provider, m) ==
    LET byKey == FindThreadFile(d, Key[provider][m])
        byId == FindByMessageId(d, m)
    IN IF byKey # {} THEN byKey ELSE IF byId # {} THEN byId ELSE {0}

UniqueSlug(d) == Min({n \in Names : ~ Exists(d, n)})

-----------------------------------------------------------------------------
(* Merging *)

\* Mutant: sender and second stand for the mail even if it has a Message-ID.
DedupByStamp(m) == <<"fd", Stamp[m]>>

DedupKey(m) == IF MessageId[m] = None THEN <<"fd", Stamp[m]>> ELSE <<"mid", MessageId[m]>>

\* What merge_message_to_file makes of thread t.
Merged(t, item) ==
    LET k == Key[item.provider][item.mail]
        known == IF t = Absent THEN [Absent EXCEPT !.id = k, !.first = item.provider] ELSE t
        seen == {DedupKey(x) : x \in known.mails}
    IN [known EXCEPT
          !.aliases = IF known.id = k THEN @ ELSE @ \cup {k},
          !.labels = @ \cup {item.label},
          !.mails = IF DedupKey(item.mail) \in seen THEN @ ELSE @ \cup {item.mail}]

Merging == batch # {} \/ routed # {}
Idle == ~ Merging /\ target = {}

\* The directories of a mail met under label l; Gmail knows its other labels as well.
Items(provider, m, l) ==
    LET out == {Main} \cup Route[l]
        others == IF provider = "gmail" THEN LabelsOf[m] \ {l} ELSE {}
    IN {Item(provider, m, l, d) : d \in out} \cup
       UNION {{Item(provider, m, o, d) : d \in Route[o] \ out} : o \in others}

\* A sync fetches a mail, for the first time or again.
Fetch(provider, m, l) ==
    /\ Idle /\ fetches < MaxFetches /\ fetches' = fetches + 1
    /\ l \in LabelsOf[m]
    /\ batch' = Items(provider, m, l)
    /\ UNCHANGED <<files, routed, target, handed, removed, commands>>

\* merge_message_to_file: the file is found, read, and replaced, or a new one takes a
\* free name.  file_store::atomic_write leaves the old file or the new one.
Merge(item) ==
    /\ \E n \in Candidates(item.dir, item.provider, item.mail) :
          LET name == IF n = 0 THEN UniqueSlug(item.dir) ELSE n
          IN files' = [files EXCEPT ![item.dir][name] = Merged(@, item)]
    /\ batch' = batch \ {item}
    /\ handed' = IF item.dir = Main THEN handed \cup {item.mail} ELSE handed
    /\ UNCHANGED <<routed, target, removed, bounds>>

\* The process is killed between two of them.
Crash ==
    /\ Merging
    /\ batch' = {} /\ routed' = {} /\ target' = {}
    /\ UNCHANGED <<files, handed, removed, bounds>>

-----------------------------------------------------------------------------
(* Commands *)

Removed(d, ns) == [files[d] EXCEPT ![CHOOSE n \in ns : TRUE] = Absent]
FirstLabel(ls) == IF ls = {} THEN CHOOSE l \in Labels : TRUE ELSE CHOOSE l \in ls : TRUE

\* refetch of a raw thread id, or of the mail a Gmail URL names: the files that claim
\* the thread are removed before the mails just fetched are merged.  A thread that IMAP
\* was the first to bring is refused, for the account of the file decides; not so for a
\* selected mail, whose own id finds no file unless it began the thread.
Refetch(m, selected) ==
    LET k == Key["gmail"][m]
        found == FindThreadFile(Main, k)
        fetched == IF selected THEN {m} ELSE {x \in Mails : Key["gmail"][x] = k}
    IN /\ Idle /\ commands < MaxCommands /\ commands' = commands + 1
       /\ selected \/ \A n \in found : files[Main][n].first = "gmail"
       /\ \E n \in IF found = {} THEN {0} ELSE found :
             LET t == IF n = 0 THEN Absent ELSE files[Main][n]
             IN /\ files' = IF n = 0 THEN files ELSE [files EXCEPT ![Main][n] = Absent]
                /\ removed' = removed \cup t.mails
                /\ batch' = {Item("gmail", x, FirstLabel(t.labels), Main) : x \in fetched}
                /\ routed' = {r \in t.labels \X Dirs : r[2] \in Route[r[1]]}
                /\ target' = fetched
    /\ UNCHANGED <<handed, fetches>>

\* refresh_routed_dirs.
RefreshRouted ==
    /\ batch = {}
    /\ \E r \in routed :
          LET l == r[1]
              d == r[2]
              found == {n \in Names : \E m \in target : Claims(files[d][n], Key["gmail"][m])}
          IN /\ files' = IF found = {} THEN files ELSE [files EXCEPT ![d] = Removed(d, found)]
             /\ batch' = {Item("gmail", x, l, d) : x \in target}
             /\ routed' = routed \ {r}
    /\ UNCHANGED <<target, handed, removed, bounds>>

RefetchDone ==
    /\ target # {} /\ ~ Merging
    /\ target' = {}
    /\ UNCHANGED <<files, batch, routed, handed, removed, bounds>>

\* `corky sync routes' copies every routed file under its own name, over whatever
\* conversation has that name there.
Routes ==
    /\ Idle /\ commands < MaxCommands /\ commands' = commands + 1
    /\ files' = [d \in Dirs |-> [n \in Names |->
           IF d # Main /\ \E l \in files[Main][n].labels : d \in Route[l]
              THEN files[Main][n] ELSE files[d][n]]]
    /\ UNCHANGED <<batch, routed, target, handed, removed, fetches>>

Next ==
    \/ \E provider \in Providers, m \in Mails, l \in Labels : Fetch(provider, m, l)
    \/ \E item \in batch : Merge(item)
    \/ Crash \/ RefreshRouted \/ RefetchDone \/ Routes
    \/ \E m \in Mails, selected \in BOOLEAN : Refetch(m, selected)

Spec == Init /\ [][Next]_vars

-----------------------------------------------------------------------------
(* Properties *)

\* At most one file of conversations/ claims a thread key, so that the order of the
\* directory never decides which file a mail goes to: not after the views of the two
\* providers were bridged, a refetch, or a crash between any of the merges.
OneFilePerKey ==
    \A k \in UNION {{Key[i][m] : m \in Mails} : i \in Providers} :
        Cardinality({n \in Names : LET t == files[Main][n] IN t.id = k \/ k \in t.aliases}) <= 1

\* A mail with a Message-ID that was merged stays in a conversation, whatever is merged
\* after it, but for the files that a refetch removes.
NothingDropped ==
    \A m \in handed \ removed :
        MessageId[m] # None => \E n \in Names : m \in files[Main][n].mails
=============================================================================
