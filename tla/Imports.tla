-------------------------------- MODULE Imports --------------------------------
(***************************************************************************)
(* `corky sync import': exports of Slack, SMS Backup & Restore and         *)
(* Telegram, merged message by message into conversations that earlier     *)
(* exports may have filled (slack_import.rs, sms_import.rs,                *)
(* telegram_import.rs, imports.rs).  No message has a Message-ID.          *)
(***************************************************************************)
EXTENDS Integers, SequencesExt, FiniteSetsExt

CONSTANTS
    Messages,  \* records [chat, parent, from, time, kind]; time in the resolution of a
               \* date in the file, the second; parent: time of the message replied to
    MaxImports \* bound

VARIABLES
    files,   \* files[k]: the messages of the conversation with key k, as dedup keys
    todo,    \* the groups of the running import, with the messages that are left
    started, \* the messages it has read
    owed,    \* history: what completed imports have read
    imports

vars == <<files, todo, started, owed, imports>>

\* thread_key: slack:<channel>:<thread_ts, or else ts>.  An SMS or Telegram chat is one
\* thread: all its messages have the same parent.
ThreadKey(m) == <<m.chat, m.parent>>

ChatKeys == {ThreadKey(m) : m \in Messages}

\* dedup_key without a Message-ID.
DedupKey(m) == <<m.from, m.time>>

\* Slack messages with a subtype, service messages, and those without text are skipped.
Imported(m) == m.kind = "text"

Init ==
    /\ files = [k \in ChatKeys |-> <<>>]
    /\ todo = {} /\ started = {} /\ owed = {} /\ imports = 0

\* An export is read and grouped: group_into_threads, the map by phone number, the chats.
Begin(export) ==
    /\ todo = {} /\ started = {} /\ imports < MaxImports /\ imports' = imports + 1
    /\ LET read == {m \in export : Imported(m)}
       IN /\ started' = read
          /\ todo' = {{m \in read : ThreadKey(m) = k} : k \in {ThreadKey(m) : m \in read}}
    /\ UNCHANGED <<files, owed>>

\* Mutant: two entries are the same only if they follow each other.
SeenLast(s, key) == s # <<>> /\ s[Len(s)] = key

\* The `seen' set of merge_message_to_file.
Seen(s, key) == \E i \in 1..Len(s) : s[i] = key

\* merge_message_to_file puts the message behind those of its second.
Merged(s, m) ==
    IF Seen(s, DedupKey(m)) THEN s
    ELSE LET before == {i \in DOMAIN s : s[i][2] <= m.time}
         IN InsertAt(s, Max({0} \cup before) + 1, DedupKey(m))

\* The groups come in any order.  Slack sorts the messages of one by time, SMS by the
\* text of their dates, Telegram has them as in the export: here any order.
Merge(group, m) ==
    /\ group \in todo /\ m \in group
    /\ files' = [files EXCEPT ![ThreadKey(m)] = Merged(@, m)]
    /\ todo' = (todo \ {group}) \cup ({group \ {m}} \ {{}})
    /\ UNCHANGED <<started, owed, imports>>

Complete ==
    /\ todo = {} /\ started # {}
    /\ owed' = owed \cup started /\ started' = {}
    /\ UNCHANGED <<files, todo, imports>>

\* A file cannot be written, or the process is killed: what has been merged stays.
BreakOff ==
    /\ started # {}
    /\ todo' = {} /\ started' = {}
    /\ UNCHANGED <<files, owed, imports>>

Next ==
    \/ \E export \in SUBSET Messages : Begin(export)
    \/ \E m \in Messages : \E group \in todo : Merge(group, m)
    \/ Complete \/ BreakOff

Spec == Init /\ [][Next]_vars

-----------------------------------------------------------------------------
(* Properties *)

\* Whatever exports have been imported, overlapping, partly or again, a conversation has
\* each message once and by time, and lacks none of a completed import; messages of one
\* sender within one second are one.
ImportedOnce ==
    /\ \A k \in ChatKeys : \A i, j \in 1..Len(files[k]) :
         i < j => files[k][i] # files[k][j] /\ files[k][i][2] <= files[k][j][2]
    /\ \A m \in owed : Seen(files[ThreadKey(m)], DedupKey(m))
=============================================================================
