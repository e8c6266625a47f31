------------------------------- MODULE DriveFiles ------------------------------
(***************************************************************************)
(* `corky doc write', `read', `export' and `upload' (drive.rs, gdocs.rs,   *)
(* upload.rs) on a file in Drive that others edit at the same time.  The   *)
(* command finds out how to write from the URL, or else from the type of   *)
(* the file; a Google Doc is cleared and filled in one batch, with the     *)
(* length it had when it was read.  Drive and the Docs API are external.   *)
(***************************************************************************)
EXTENDS Naturals, SequencesExt

CONSTANTS MaxEdits, MaxCommands, MaxContent \* bounds: edits of others, commands, characters

VARIABLES
    kind,     \* the type of the file in Drive
    text,     \* its characters: "old", those of the local file "new", of others "edit"
    pc,       \* "idle", or what the running command does next
    content,  \* of the local file, when the command read it
    seen,     \* the length of the document, as read
    disturbed, \* history: someone edited between that reading and the batch
    outcome,  \* what the last command told the user
    copies,   \* the uploaded copies: TRUE if anyone can read it
    output,   \* what was read or exported: its format and text
    edits, commands

vars == <<kind, text, pc, content, seen, disturbed, outcome, copies, output, edits, commands>>

\* kind_for_mime; "pdf" stands for images, office files and any other file too.
Binary == {"pdf", "plain text"}
Kinds == {"document", "spreadsheet", "presentation", "drawing", "form"} \cup Binary

\* The part of a URL before the file's id; "none" for a bare id and other URLs.
Hints == {"document", "spreadsheet", "none"}

\* export_mime: the formats Drive converts to; the first is that of Auto.
ExportFormats ==
    [document |-> <<"docx", "text", "markdown", "pdf">>, spreadsheet |-> <<"xlsx", "csv", "pdf">>,
     presentation |-> <<"pptx", "text", "pdf">>, drawing |-> <<"png", "svg", "pdf">>]

Init ==
    /\ kind \in Kinds /\ text \in {<<>>, <<"old">>, <<"old", "old">>}
    /\ pc = "idle" /\ content = <<>> /\ seen = 0 /\ disturbed = FALSE /\ outcome = "none"
    /\ copies = <<>> /\ output = <<"none", <<>>>> /\ edits = 0 /\ commands = 0

Start(next) == pc = "idle" /\ commands < MaxCommands /\ commands' = commands + 1 /\ pc' = next

\* drive::write: the hint of a URL decides before the type of the file is asked for.
WriteVia(hint) ==
    IF hint # "none" THEN hint ELSE IF kind \in Binary THEN "media" ELSE kind

BeginWrite(hint, c) ==
    /\ Start(IF WriteVia(hint) = "document" THEN "length"
             ELSE IF WriteVia(hint) = "media" THEN "media" ELSE "idle")
    /\ content' = c /\ outcome' = IF pc' = "idle" THEN "failed" ELSE "none"
    /\ UNCHANGED <<kind, text, seen, disturbed, copies, output, edits>>

\* gdocs::write gets the document: its last index counts the text and a newline.
ReadLength ==
    /\ pc = "length"
    /\ IF kind = "document" THEN pc' = "update" /\ seen' = Len(text) /\ outcome' = outcome
       ELSE pc' = "idle" /\ outcome' = "failed" /\ UNCHANGED seen
    /\ UNCHANGED <<kind, text, content, disturbed, copies, output, edits, commands>>

Finish(told) == pc' = "idle" /\ outcome' = told

\* Mutant: the range to delete is one too short.
ReplacedShort == content \o (IF seen = 0 THEN text ELSE SubSeq(text, seen, Len(text)))

\* The batch deletes as many characters as there were, and inserts the new ones in front.
Replaced == content \o SubSeq(text, seen + 1, Len(text))

\* Docs refuses, as a whole, a batch that deletes beyond the end or inserts nothing.
Acceptable == seen <= Len(text) /\ content # <<>>

Update(answered) ==
    /\ pc = "update" /\ Acceptable
    /\ text' = Replaced
    /\ Finish(IF answered THEN "written" ELSE "failed")
    /\ UNCHANGED <<kind, content, seen, disturbed, copies, output, edits, commands>>

\* files.update with media replaces a binary file.
ReplaceMedia(answered) ==
    /\ pc = "media"
    /\ text' = content
    /\ Finish(IF answered THEN "written" ELSE "failed")
    /\ UNCHANGED <<kind, content, seen, disturbed, copies, output, edits, commands>>

\* A request is refused or does not arrive.
RequestFails ==
    /\ pc # "idle" /\ Finish("failed")
    /\ UNCHANGED <<kind, text, content, seen, disturbed, copies, output, edits, commands>>

\* doc export: the file is downloaded whole, then the output is written.
Export(format) ==
    /\ Start("idle") /\ outcome' = "exported"
    /\ IF kind \in Binary THEN format = "as is"
       ELSE kind \in DOMAIN ExportFormats /\ format \in ToSet(ExportFormats[kind])
    /\ output' = <<format, text>>
    /\ UNCHANGED <<kind, text, content, seen, disturbed, copies, edits>>

\* doc read: the hint of a URL decides here, too; each service refuses files of other types.
Read(hint) ==
    /\ Start("idle")
    /\ LET service == IF hint # "none" THEN hint ELSE kind
       IN IF service = kind /\ kind \in {"document", "spreadsheet", "presentation", "plain text"}
          THEN output' = <<"text", text>> /\ outcome' = "read"
          ELSE outcome' = "failed" /\ UNCHANGED output
    /\ UNCHANGED <<kind, text, content, seen, disturbed, copies, edits>>

\* doc upload: every run makes a new file; with --share another request follows.
Upload(share, answered) ==
    /\ Start(IF share /\ answered THEN "share" ELSE "idle")
    /\ copies' = Append(copies, FALSE)
    /\ outcome' = IF ~answered THEN "failed" ELSE IF share THEN "none" ELSE "uploaded"
    /\ UNCHANGED <<kind, text, content, seen, disturbed, output, edits>>

\* set_anyone_reader.
Share(answered) ==
    /\ pc = "share"
    /\ copies' = [copies EXCEPT ![Len(copies)] = TRUE]
    /\ Finish(IF answered THEN "shared" ELSE "failed")
    /\ UNCHANGED <<kind, text, content, seen, disturbed, output, edits, commands>>

\* Someone types at the front or at the end, or deletes the last character.
Edit ==
    /\ edits < MaxEdits /\ edits' = edits + 1
    /\ \/ text' = <<"edit">> \o text \/ text' = Append(text, "edit")
       \/ text # <<>> /\ text' = Front(text)
    /\ disturbed' = (disturbed \/ pc = "update")
    /\ UNCHANGED <<kind, pc, content, seen, outcome, copies, output, commands>>

Contents == {[i \in 1..n |-> "new"] : n \in 0..MaxContent}

Next ==
    \/ \E h \in Hints, c \in Contents : BeginWrite(h, c)
    \/ \E h \in Hints : Read(h)
    \/ ReadLength \/ RequestFails \/ Edit
    \/ \E answered \in BOOLEAN : Update(answered) \/ ReplaceMedia(answered) \/ Share(answered)
    \/ \E share, answered \in BOOLEAN : Upload(share, answered)
    \/ \E f \in {"docx", "pdf", "csv", "text", "png", "as is"} : Export(f)

Spec == Init /\ [][Next]_vars

-----------------------------------------------------------------------------
(* Properties *)

\* Unless someone edits between its two requests, a write replaces a document as a whole:
\* old text never stays next to new, nor after a success.  No write reaches a Google
\* file of another type, and what is reported as shared can be read.
WrittenWhole ==
    /\ ~disturbed => ~({"old", "new"} \subseteq ToSet(text))
    /\ ~disturbed /\ outcome = "written" => "old" \notin ToSet(text)
    /\ kind \notin Binary \cup {"document"} => "new" \notin ToSet(text)
    /\ outcome = "shared" => Last(copies)
=============================================================================
