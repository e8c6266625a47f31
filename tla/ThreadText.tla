------------------------------- MODULE ThreadText ------------------------------
(***************************************************************************)
(* The text of a conversation file (sync/markdown.rs): every mail that is  *)
(* merged is the occasion to read the file back and to write it anew, and  *)
(* `corky unanswered' and the manifest read it in ways of their own.  The  *)
(* body of a mail may hold lines that look like those corky writes.        *)
(*                                                                         *)
(* A file is a sequence of lines; blank lines are left out, for they only  *)
(* matter to the layout.  One conversation, whose mails share a key.       *)
(***************************************************************************)
EXTENDS Naturals, SequencesExt, Positions

CONSTANTS
    Mails,     \* from, date, mid, to and body of each; Missing for a header that is not there
    Contacts,  \* the addresses of [contacts]
    Instants, MaxTime, \* the instant of each text that is a date, from 1 to MaxTime
    MaxMerges  \* bound

Missing == ""

\* A text that is a date is not empty.
TextAssumption ==
    /\ MaxTime \in Nat /\ Missing \notin DOMAIN Instants
    /\ \A d \in DOMAIN Instants : Instants[d] \in 1..MaxTime
    /\ \A m \in Mails : /\ m = [from |-> m.from, date |-> m.date, mid |-> m.mid, to |-> m.to,
                                 body |-> m.body]
                         /\ m.body \in Seq(ToSet(m.body))

VARIABLES
    text,    \* <<>> while there is no file
    subject, \* of the mails
    merged,  \* history: the mails that were merged
    merges

vars == <<text, subject, merged, merges>>

ThreadKey == "key"
Title(s) == <<"#", s>>
Meta(k, v) == <<"meta", k, v>>
Heading(from, date) == <<"##", from, date>>
Rule == <<"---">>

\* parse_msg_date: what is no date is the epoch.
Time(date) == IF date \in DOMAIN Instants THEN Instants[date] ELSE 0

Init == text = <<>> /\ subject \in {Missing, "Plan"} /\ merged = {} /\ merges = 0

-----------------------------------------------------------------------------
(* Writing *)

MetaUnless(missing, k, v) == IF v = missing THEN <<>> ELSE <<Meta(k, v)>>

WriteMessage(m) ==
    <<Rule, Heading(m.from, m.date)>> \o MetaUnless(Missing, "Message-ID", m.mid)
        \o MetaUnless(Missing, "To", m.to) \o m.body

\* thread_to_markdown.
ThreadToMarkdown(t) ==
    <<Title(t.subject), Meta("Thread-ID", t.id)>> \o MetaUnless({}, "Thread-Aliases", t.aliases)
        \o FlattenSeq([i \in DOMAIN t.messages |-> WriteMessage(t.messages[i])])

-----------------------------------------------------------------------------
(* Reading *)

IsMeta(l, k) == l[1] = "meta" /\ l[2] = k
MetaLines(lines, k) == {i \in DOMAIN lines : IsMeta(lines[i], k)}
FirstValue(lines, I, d) == IF I = {} THEN d ELSE lines[Min(I)][3]
LastValue(lines, I, d) == IF I = {} THEN d ELSE lines[Max(I)][3]

\* A heading with a sender and a date ends the message before it and starts one.
NamesSender(l) == l[1] = "##" /\ l[2] # Missing
IsHeading(l) == NamesSender(l) /\ l[3] # Missing
Headings(lines) == {i \in DOMAIN lines : IsHeading(lines[i])}
End(lines, i) == Min({j \in Headings(lines) : j > i} \cup {Len(lines) + 1}) - 1

\* Mutant: metadata in the body counts, too.
HeaderAnywhere(lines, i) == {j \in i + 1..End(lines, i) : lines[j][1] = "meta"}

\* The first lines of a message are its headers, up to one that is no metadata.
Header(lines, i) == {j \in i + 1..End(lines, i) : \A k \in i + 1..j : lines[k][1] = "meta"}

\* What is no header is its body, without the rules.
Content(lines, i) ==
    {j \in i + 1..End(lines, i) : j \notin Header(lines, i) /\ lines[j] # Rule}

MessageAt(lines, i) ==
    LET value(k) == LastValue(lines, Header(lines, i) \cap MetaLines(lines, k), Missing)
    IN [from |-> lines[i][2], date |-> lines[i][3], mid |-> value("Message-ID"),
        to |-> value("To"), body |-> At(lines, Content(lines, i))]

ParseMessages(lines) ==
    LET at == InOrder(Headings(lines), Len(lines))
    IN [n \in DOMAIN at |-> MessageAt(lines, at[n])]

NewThread == [id |-> ThreadKey, subject |-> subject, aliases |-> {}, messages |-> <<>>]

\* parse_thread_markdown: a thread without a subject cannot be read, and the last line
\* with a key counts, be it in a body.
Unreadable(lines) == Head(lines) = Title(Missing)
ParseThreadMarkdown(lines) ==
    IF Unreadable(lines) THEN NewThread
    ELSE [id |-> LastValue(lines, MetaLines(lines, "Thread-ID"), Missing), subject |-> Head(lines)[2],
          aliases |-> LastValue(lines, MetaLines(lines, "Thread-Aliases"), {}),
          messages |-> ParseMessages(lines)]

\* parse_thread_identity and claims_key: here the first line counts.
Claims(lines, k) ==
    \/ FirstValue(lines, MetaLines(lines, "Thread-ID"), Missing) = k
    \/ k \in FirstValue(lines, MetaLines(lines, "Thread-Aliases"), {})

\* SENDER_RE of `corky unanswered': a date is not asked for.
LastSender(lines) ==
    LET senders == {i \in DOMAIN lines : NamesSender(lines[i])}
    IN IF senders = {} THEN Missing ELSE lines[Max(senders)][2]

\* generate_manifest: the contacts that the messages of a thread name.
ManifestContacts(lines) ==
    IF Unreadable(lines) THEN {}
    ELSE Contacts \cap UNION {{m.from, m.to} : m \in ToSet(ParseMessages(lines))}

-----------------------------------------------------------------------------
(* Merging *)

DedupKey(m) == IF m.mid # Missing THEN <<"mid", m.mid>> ELSE <<"fd", m.from, Time(m.date)>>

\* sort_by_key is stable.
Sorted(ms) ==
    FlattenSeq([t \in 1..MaxTime + 1 |-> At(ms, {i \in DOMAIN ms : Time(ms[i].date) = t - 1})])

\* merge_message_to_file.
Merge(m) ==
    LET found == text # <<>> /\ Claims(text, ThreadKey)
        t == IF found THEN ParseThreadMarkdown(text) ELSE NewThread
        known == [t EXCEPT !.aliases = IF t.id \in {Missing, ThreadKey} THEN @ ELSE @ \cup {ThreadKey}]
        seen == {DedupKey(t.messages[i]) : i \in DOMAIN t.messages}
    IN /\ merges < MaxMerges /\ merges' = merges + 1
       /\ text' = ThreadToMarkdown([known EXCEPT !.messages =
                      IF DedupKey(m) \in seen THEN @ ELSE Sorted(Append(@, m))])
       /\ merged' = merged \cup {m}
       /\ UNCHANGED subject

Next == \E m \in Mails : Merge(m)

Spec == Init /\ [][Next]_vars

-----------------------------------------------------------------------------
(* Properties *)

Quoted(x) == ToSet(x.body)

\* No other mail passes for m: none has its Message-ID or, if it has none, its sender and
\* instant, and no body quotes that line.
Unmistakable(m) ==
    \A x \in merged :
        /\ DedupKey(x) = DedupKey(m) => x = m
        /\ \A l \in Quoted(x) :
              IF m.mid # Missing THEN IsMeta(l, "Message-ID") => l[3] # m.mid
              ELSE IsHeading(l) /\ l[2] = m.from => Time(l[3]) # Time(m.date)

\* A mail corky can read back: it has a sender and a date, its body starts with text and
\* holds neither a heading nor a rule, and no other mail passes for it.
Plain(m) ==
    /\ m.from # Missing /\ Time(m.date) > 0
    /\ m.body # <<>> /\ Head(m.body)[1] = "text"
    /\ \A l \in Quoted(m) : l[1] \in {"text", "meta"}
    /\ Unmistakable(m)

Latest == {m \in merged : \A x \in merged : Time(x.date) <= Time(m.date)}

\* Such a mail is read back as it was merged, once, and in its place by date, however
\* often the file is rewritten and whatever the bodies of the other mails look like, with
\* or without a date.  (A mail without a sender is taken for part of the one before it.)
MailsReadBack ==
    LET ms == ParseMessages(text)
        plain == {m \in merged : Plain(m)}
    IN /\ (\A m \in merged : m.from # Missing) => plain \subseteq ToSet(ms)
       /\ \A i, j \in DOMAIN ms : i < j /\ ms[i] \in plain => ms[i] # ms[j]
       /\ \A i, j \in DOMAIN ms : i < j /\ {ms[i], ms[j]} \subseteq plain
              => Time(ms[i].date) <= Time(ms[j].date)

\* The file keeps claiming the key of its mails, even after a body was taken for its
\* identity.
FileIsFound == text # <<>> => Claims(text, ThreadKey)

\* `corky unanswered' names the sender of the latest mail, as long as a mail quotes only
\* what was written before it.
QuotesArePast ==
    \A x \in merged : \A l \in Quoted(x) : IsHeading(l) => Time(l[3]) <= Time(x.date)
LastSenderTold ==
    merged # {} /\ QuotesArePast /\ (\A m \in Latest : Plain(m)) =>
        \E m \in Latest : LastSender(text) = m.from

\* The manifest names every contact.
ContactsListed ==
    \A m \in merged : Plain(m) => Contacts \cap {m.from, m.to} \subseteq ManifestContacts(text)

\* All of this for a conversation that has a subject, and bodies whose metadata have values.
\* One without a subject is forgotten whenever it is read back, so only the mail that came
\* last is in it; one in which a body has a `Thread ID' of blanks loses its key.
NoBlanks(x) ==
    \A l \in Quoted(x) : IsMeta(l, "Thread-ID") \/ IsMeta(l, "Message-ID") => l[3] # Missing
ConversationIsReadBack ==
    subject # Missing /\ (\A x \in merged : NoBlanks(x)) =>
        MailsReadBack /\ FileIsFound /\ LastSenderTold /\ ContactsListed
=============================================================================
