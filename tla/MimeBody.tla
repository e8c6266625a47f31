------------------------------- MODULE MimeBody -------------------------------
(***************************************************************************)
(* How `draft send' produces a mail of any size (draft/send.rs): the MIME  *)
(* parts, the base64 lines of an attachment, and the JSON body whose raw   *)
(* field is the base64url of the whole message, encoded while it is read.  *)
(* Reads may return less than was asked for, at every place.               *)
(***************************************************************************)
EXTENDS Naturals, SequencesExt

CONSTANTS
    MaxBytes,  \* length of the longest message or attachment
    RawChunk,  \* bytes a refill encodes; a multiple of 3, as 57 * 64 and 57 are
    MaxRead,   \* the most one read of the file or of the body returns
    MaxParts   \* most images, and most attachments

VARIABLES
    job,     \* "body": StreamingRawBody; "part": write_base64_stream
    size,    \* length of what is read
    next,    \* bytes of it that have been read
    phase,   \* of StreamingRawBody, or "Fill" and "Done" for a part
    pending, \* what the header, the tail or the encoder has ready
    carry,   \* bytes read and not encoded
    eof,
    output   \* history: everything handed out

vars == <<job, size, next, phase, pending, carry, eof, output>>

Bytes(a, b) == [i \in 1..(b - a) |-> a + i]

\* Base64 without padding: four characters for three bytes, and for the rest one
\* more than its bytes.  A character is named by its group of bytes and its index.
EncodedLength(n) == 4 * (n \div 3) + (IF n % 3 = 0 THEN 0 ELSE (n % 3) + 1)
Encode(bytes) ==
    [i \in 1..EncodedLength(Len(bytes)) |->
        LET g == 3 * ((i - 1) \div 4)
        IN <<SubSeq(bytes, g + 1, IF g + 3 < Len(bytes) THEN g + 3 ELSE Len(bytes)), (i - 1) % 4>>]

\* The JSON around the raw field: characters that stand for no bytes.
Opening == <<<<<<>>, "raw">>, <<<<>>, "quote">>>>
Ending == <<<<<<>>, "quote">>, <<<<>>, "thread">>>>

Init ==
    /\ job \in {"body", "part"} /\ size \in 0..MaxBytes
    /\ next = 0 /\ carry = <<>> /\ eof = FALSE /\ output = <<>>
    /\ phase = IF job = "body" THEN "Header" ELSE "Fill"
    /\ pending = IF job = "body" THEN Opening ELSE <<>>

-----------------------------------------------------------------------------
(* The JSON body *)

\* StreamingRawBody::read hands out at most n of what is ready.
Read(n) ==
    /\ pending # <<>>
    /\ LET k == IF n < Len(pending) THEN n ELSE Len(pending)
       IN /\ output' = output \o SubSeq(pending, 1, k)
          /\ pending' = SubSeq(pending, k + 1, Len(pending))
    /\ UNCHANGED <<job, size, next, phase, carry, eof>>

\* Base64UrlReader::refill: a full chunk, or what is left, goes behind the carry; whole
\* groups are encoded and the other one or two bytes carried on.
Refill ==
    /\ phase = "Base64" /\ pending = <<>> /\ ~ eof /\ next < size
    /\ LET total == IF next + RawChunk < size THEN RawChunk ELSE size - next
           combined == carry \o Bytes(next, next + total)
           aligned == 3 * (Len(combined) \div 3)
       IN /\ next' = next + total
          /\ pending' = Encode(SubSeq(combined, 1, aligned))
          /\ carry' = SubSeq(combined, aligned + 1, Len(combined))
    /\ UNCHANGED <<job, size, phase, eof, output>>

\* Mutant: what does not fill a group of three is lost at the end.
FlushDrops ==
    /\ phase = "Base64" /\ pending = <<>> /\ ~ eof /\ next = size
    /\ eof' = TRUE /\ pending' = <<>> /\ carry' = <<>>
    /\ UNCHANGED <<job, size, next, phase, output>>

\* Base64UrlReader::read at the end of the message: the carry is encoded, once.
Flush ==
    /\ phase = "Base64" /\ pending = <<>> /\ ~ eof /\ next = size
    /\ eof' = TRUE /\ pending' = Encode(carry) /\ carry' = <<>>
    /\ UNCHANGED <<job, size, next, phase, output>>

\* A phase that has nothing more to give is left.
NextPhase ==
    /\ job = "body" /\ pending = <<>>
    /\ \/ phase = "Header" /\ phase' = "Base64" /\ UNCHANGED pending
       \/ phase = "Base64" /\ eof /\ phase' = "Tail" /\ pending' = Ending
       \/ phase = "Tail" /\ phase' = "Done" /\ UNCHANGED pending
    /\ UNCHANGED <<job, size, next, carry, eof, output>>

-----------------------------------------------------------------------------
(* An attachment *)

\* The inner loop of write_base64_stream: one read of the file.
Fill(n) ==
    /\ phase = "Fill" /\ Len(carry) < RawChunk /\ next < size
    /\ LET most == IF RawChunk - Len(carry) < size - next THEN RawChunk - Len(carry) ELSE size - next
           k == IF n < most THEN n ELSE most
       IN carry' = carry \o Bytes(next, next + k) /\ next' = next + k
    /\ UNCHANGED <<job, size, phase, pending, eof, output>>

\* One line of padded base64; a line that is not full is the last.
WriteLine ==
    /\ phase = "Fill" /\ (Len(carry) = RawChunk \/ next = size)
    /\ output' = IF carry = <<>> THEN output ELSE Append(output, carry)
    /\ carry' = <<>>
    /\ phase' = IF Len(carry) < RawChunk THEN "Done" ELSE "Fill"
    /\ UNCHANGED <<job, size, next, pending, eof>>

Next == \/ \E n \in 1..MaxRead : Read(n) \/ Fill(n)
        \/ Refill \/ Flush \/ NextPhase \/ WriteLine

Spec == Init /\ [][Next]_vars

-----------------------------------------------------------------------------
(* The parts of the mail, as the sequence of what is opened, contained and closed *)

In(kind, parts) == <<<<"open", kind>>>> \o parts \o <<<<"close", kind>>>>
Parts(kind, n) == [i \in 1..n |-> <<kind, i>>]
Text == <<<<"text", "plain">>>>
Alternative == In("alternative", Text \o <<<<"text", "html">>>>)

\* compose_email of `draft push'.
Composed(images, attachments) ==
    LET body == IF images = 0 THEN Alternative
                ELSE In("related", Alternative \o Parts("image", images))
    IN IF attachments = 0 THEN body ELSE In("mixed", body \o Parts("attachment", attachments))

\* Mutant: the related block is closed after the attachments.
WrittenUnclosed(images, attachments) ==
    LET related == <<<<"open", "related">>>> \o Alternative \o Parts("image", images)
    IN IF images = 0 THEN In("mixed", Text \o Parts("attachment", attachments))
       ELSE In("mixed", related \o Parts("attachment", attachments) \o <<<<"close", "related">>>>)

\* build_mime_to_writer of `draft send'.
Written(images, attachments) ==
    LET related == In("related", Alternative \o Parts("image", images))
    IN IF images = 0
       THEN IF attachments = 0 THEN Text ELSE In("mixed", Text \o Parts("attachment", attachments))
       ELSE IF attachments = 0 THEN related
            ELSE In("mixed", related \o Parts("attachment", attachments))

-----------------------------------------------------------------------------
(* Properties *)

\* However the reads fall, nothing is handed out that is not the beginning of the
\* header, the base64url of the whole message and the tail, and in the end all of it; and
\* the lines of an attachment have the bytes of the file one after the other, all but the
\* last as many as fit without padding, and in the end all of them.
EncodingIsWhole ==
    IF job = "body"
    THEN LET body == Opening \o Encode(Bytes(0, size)) \o Ending
         IN IsPrefix(output, body) /\ (phase = "Done" => output = body)
    ELSE /\ \A i \in 1..Len(output) :
              LET end == IF RawChunk * i < size THEN RawChunk * i ELSE size
              IN output[i] = Bytes(RawChunk * (i - 1), end)
         /\ phase = "Done" => RawChunk * Len(output) >= size

\* The two senders agree on the structure of a mail with inline images.
SendersAgree ==
    \A images \in 1..MaxParts, attachments \in 0..MaxParts :
        Written(images, attachments) = Composed(images, attachments)
=============================================================================
