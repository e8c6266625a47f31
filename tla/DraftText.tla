------------------------------- MODULE DraftText -------------------------------
(***************************************************************************)
(* The text of an email draft, in its two formats, and the commands that   *)
(* each read and rewrite it in a way of their own: validate, migrate,      *)
(* attach, the mark that a draft was sent, and the reader of push and      *)
(* send.  In a legacy draft a line of the body can look like metadata.     *)
(*                                                                         *)
(* What the commands do to one file at the same time is in EmailDraft.     *)
(***************************************************************************)
EXTENDS Naturals, FiniteSetsExt, SequencesExt

CONSTANTS
    Persons, Titles, \* that the header To and the headings name
    Words,           \* of Status lines
    MaxLines, MaxTools \* bounds: lines of the file, commands

Missing == ""
NoLine == "none"

\* A header with nothing in it is none.
DraftAssumption ==
    MaxLines \in Nat /\ Missing \notin Persons /\ NoLine \notin Persons \cup Words

VARIABLES
    text,   \* the file: a legacy one has lines, one with front matter has meta and a body
    before, \* the file that the last command has read
    tool,   \* the last command that succeeded, "none" if it did not
    report, \* the issues that validate has told
    tools

vars == <<text, before, tool, report, tools>>

Statuses == {"draft", "approved", "sent"}
Rule == <<"---">>
Heading(s) == <<"#", s>>
Meta(k, v) == <<"meta", k, v>>
Prose == <<"text">>

LegacyLines ==
    {Rule, Prose} \cup {Heading(s) : s \in Titles} \cup {Meta("To", p) : p \in Persons}
        \cup {Meta("Status", w) : w \in Words}
BodyLines == {Rule, Prose} \cup {Heading(s) : s \in Titles} \cup {Meta("Status", "approved")}

Legacy(lines) == [form |-> "legacy", lines |-> lines, meta |-> {}]
Yaml(meta, lines) == [form |-> "yaml", lines |-> lines, meta |-> meta]

\* Front matter that serde accepts is one record; {} stands for any other.
FrontMatter ==
    [to : Persons \cup {Missing}, subject : {Missing, "Title"}, status : {"draft", "approved"},
     attachments : {{}}]

\* A file that starts with a rule is none of the legacy format.
LegacyFiles ==
    {Legacy(s) : s \in {l \in SeqOf(LegacyLines, MaxLines) : l # <<>> => Head(l) # Rule}}
YamlFiles ==
    {Yaml({}, <<>>)} \cup UNION {{Yaml({m}, s) : m \in FrontMatter} : s \in SeqOf(BodyLines, 2)}

Init ==
    /\ text \in LegacyFiles \cup YamlFiles
    /\ before = text /\ tool = "none" /\ report = {} /\ tools = 0

-----------------------------------------------------------------------------
(* Reading *)

Headings(lines) == {i \in DOMAIN lines : lines[i][1] = "#"}
Subject(lines) == IF Headings(lines) = {} THEN Missing ELSE lines[Min(Headings(lines))][2]

\* The last line with a header counts.
Values(lines, k) == {i \in DOMAIN lines : lines[i][1] = "meta" /\ lines[i][2] = k}
Value(lines, k) == IF Values(lines, k) = {} THEN NoLine ELSE lines[Max(Values(lines, k))][3]

Rules(lines) == {i \in DOMAIN lines : lines[i] = Rule}
AfterRule(lines) ==
    IF Rules(lines) = {} THEN <<>> ELSE SubSeq(lines, Min(Rules(lines)) + 1, Len(lines))

\* The heading at the top of the body is the subject; `# ' alone does not count.
WithoutHeading(lines) ==
    IF lines # <<>> /\ Head(lines)[1] = "#" /\ Head(lines)[2] # Missing THEN Tail(lines) ELSE lines

\* parse_draft: an empty set if the draft cannot be read.
Read(t) ==
    IF t.form = "legacy"
    THEN {d \in {[to |-> Value(t.lines, "To"), status |-> Value(t.lines, "Status"),
                  subject |-> Subject(t.lines), body |-> AfterRule(t.lines)]} :
             d.to # NoLine /\ Rules(t.lines) # {}}
    ELSE {[to |-> m.to, status |-> m.status, body |-> WithoutHeading(t.lines),
           subject |-> IF m.subject # Missing THEN m.subject ELSE Subject(t.lines)] : m \in t.meta}

-----------------------------------------------------------------------------
(* The commands *)

\* A command that reads the file and writes new; it fails if there is none.
Run(name, new) ==
    /\ tools < MaxTools /\ tools' = tools + 1
    /\ before' = text
    /\ IF new = {} THEN tool' = "none" /\ UNCHANGED text
       ELSE tool' = name /\ text' \in new

If(p, issue) == IF p THEN {issue} ELSE {}

LegacyIssues(lines) ==
    LET status == Value(lines, "Status")
    IN If(Headings(lines) = {}, "subject") \cup If(Value(lines, "To") = NoLine, "To")
       \cup If(status \notin Statuses \cup {NoLine}, "status")
       \cup If(Rules(lines) = {}, "separator")
       \cup If(status = NoLine \/ AfterRule(lines) = <<>>, "warning")

YamlIssues(m, lines) ==
    If(Headings(lines) = {}, "subject") \cup If(m.to = Missing, "To")
    \cup If(m.status = "draft" \/ (\A i \in DOMAIN lines : lines[i][1] = "#"), "warning")

\* validate_draft.
Validate ==
    /\ Run("validate", {text})
    /\ report' = IF text.form = "legacy" THEN LegacyIssues(text.lines)
                 ELSE IF text.meta = {} THEN {"YAML"}
                 ELSE UNION {YamlIssues(m, text.lines) : m \in text.meta}

\* Mutant: the first line with a status counts.
FirstStatus(lines) ==
    LET at == Values(lines, "Status")
    IN IF at # {} /\ lines[Min(at)][3] \in Statuses THEN lines[Min(at)][3] ELSE "draft"

\* What is no status becomes `draft'.
MigratedStatus(lines) ==
    IF Value(lines, "Status") \in Statuses THEN Value(lines, "Status") ELSE "draft"

\* convert_legacy_to_yaml, for the files that are not converted yet.
Migrate ==
    LET meta == [to |-> Value(text.lines, "To"), subject |-> Missing, attachments |-> {},
                 status |-> MigratedStatus(text.lines)]
        body == <<Heading(Subject(text.lines))>> \o AfterRule(text.lines)
    IN /\ Run("migrate", IF text.form = "legacy" /\ meta.to # NoLine THEN {Yaml({meta}, body)}
                         ELSE {})
       /\ UNCHANGED report

\* update_draft_status: of a legacy file it replaces the first line with a status.
Mark ==
    LET at == Values(text.lines, "Status")
    IN /\ Run("mark",
              IF text.form = "yaml"
              THEN {[text EXCEPT !.meta = {[m EXCEPT !.status = "sent"]}] : m \in text.meta}
              ELSE {IF at = {} THEN text
                     ELSE [text EXCEPT !.lines[Min(at)] = Meta("Status", "sent")]})
       /\ UNCHANGED report

\* add_to_draft.
Attach ==
    /\ Run("attach",
           IF text.form = "yaml"
           THEN {[text EXCEPT !.meta = {[m EXCEPT !.attachments = {"file"}]}] : m \in text.meta}
           ELSE {})
    /\ UNCHANGED report

Next == Validate \/ Migrate \/ Mark \/ Attach

Spec == Init /\ [][Next]_vars

-----------------------------------------------------------------------------
(* Properties *)

\* A draft in which validate finds no error can be pushed: it is read, has a recipient and
\* a status that is one.
ValidatedIsRead ==
    tool = "validate" /\ report \subseteq {"warning"} =>
        \E d \in Read(text) : d.to \in Persons /\ d.status \in Statuses \cup {NoLine}

\* A draft that push could read is read alike after migrate: to the same person, with the
\* same subject, body and status.  (What push cannot read loses its body if there is no
\* separator, and a draft without a subject gains a line.)
MigratedIsRead ==
    tool = "migrate" => \A d \in Read(before) : d.subject # Missing =>
        Read(text) = {[d EXCEPT !.status = IF @ \in Statuses THEN @ ELSE "draft"]}

\* After the mark the draft is read as sent, and as before in all else, so that no later
\* run of the scheduler sends it again.  A legacy draft needs a status line for this, and
\* only one, above its body: with another in the body it stays what it was.
MarksOnce(lines) ==
    \E i \in DOMAIN lines : Values(lines, "Status") = {i} /\ \A r \in Rules(lines) : i < r
MarkedIsSent ==
    tool = "mark" /\ (before.form = "legacy" => MarksOnce(before.lines)) =>
        \A d \in Read(before) : Read(text) = {[d EXCEPT !.status = "sent"]}

AttachedIsRead == tool = "attach" => Read(text) = Read(before)

DraftIsReadAlike == ValidatedIsRead /\ MigratedIsRead /\ MarkedIsSent /\ AttachedIsRead
=============================================================================
