------------------------------ MODULE VideoUpload ------------------------------
(***************************************************************************)
(* Publishing a YouTube draft (social/publish.rs, social/youtube.rs): the  *)
(* size of the file is declared, the file is sent chunk by chunk, YouTube  *)
(* answers the last chunk with the video's id, and the captions follow.    *)
(* The draft gets the id when all of that came through.  YouTube is        *)
(* external: it takes a chunk that continues what it has and stays within  *)
(* the declared size.                                                      *)
(***************************************************************************)
EXTENDS Naturals, Sequences

CONSTANTS ChunkSize,                    \* of the code, scaled down
          MaxSize, MaxEdits, MaxUploads \* bounds

VARIABLES
    size, version,      \* of the file
    captions,           \* "none", or the file named by the draft is "there" or "missing"
    pc, declared, offset,
    received,           \* what YouTube has of this upload: <<version, position>> of each byte
    videos,             \* what it has made of them
    postId,             \* of the draft: 0 or the position of its video
    excused,            \* history: why this upload may fail
    edits, uploads

vars == <<size, version, captions, pc, declared, offset, received, videos, postId, excused, edits, uploads>>

file == <<size, version, captions>>

Init ==
    /\ size \in 0..MaxSize /\ version = 0 /\ captions \in {"none", "there", "missing"}
    /\ pc = "idle" /\ declared = 0 /\ offset = 0 /\ received = <<>>
    /\ videos = <<>> /\ postId = 0 /\ excused = {} /\ edits = 0 /\ uploads = 0

-----------------------------------------------------------------------------
(* The upload *)

\* publish_youtube, and the first request of upload_video, which declares the size.
Start ==
    /\ pc = "idle" /\ postId = 0 /\ uploads < MaxUploads /\ uploads' = uploads + 1
    /\ pc' = "sending" /\ declared' = size /\ offset' = 0 /\ received' = <<>>
    /\ excused' = IF size = 0 THEN {"empty"} ELSE {}
    /\ UNCHANGED <<file, videos, postId, edits>>

ReadBytes == IF size - offset < ChunkSize THEN size - offset ELSE ChunkSize
Chunk == [i \in 1..ReadBytes |-> <<version, offset + i>>]

\* Mutant: the range ends one byte after the chunk.
RangeOver(n) == [first |-> offset, last |-> offset + n]

\* Content-Range.
ContentRange(n) == [first |-> offset, last |-> offset + n - 1]

Accepted == LET range == ContentRange(ReadBytes)
            IN range.first = Len(received) /\ range.last < declared /\ ReadBytes = range.last + 1 - range.first
Complete == Len(received') = declared

\* A chunk is sent, and answered with 308 or with the video.
SendChunk ==
    /\ pc = "sending" /\ offset < size
    /\ IF Accepted
       THEN /\ received' = received \o Chunk
            /\ IF Complete
               THEN videos' = Append(videos, received') /\ pc' = "captions" /\ UNCHANGED offset
               ELSE offset' = offset + ReadBytes /\ UNCHANGED <<videos, pc>>
       ELSE pc' = "idle" /\ UNCHANGED <<received, videos, offset>>
    /\ UNCHANGED <<file, declared, postId, excused, edits, uploads>>

\* YouTube has kept a part of the chunk only; its 308 says so in a header that is not read.
KeptInPart ==
    /\ pc = "sending" /\ offset < size /\ Accepted
    /\ \E k \in 0..(ReadBytes - 1) : received' = received \o SubSeq(Chunk, 1, k)
    /\ offset' = offset + ReadBytes /\ excused' = excused \cup {"kept in part"}
    /\ UNCHANGED <<file, pc, declared, videos, postId, edits, uploads>>

\* A request fails, or the answer to a chunk that was taken is lost or empty.
RequestFails ==
    /\ pc \in {"sending", "captions"}
    /\ pc' = "idle" /\ excused' = excused \cup {"request"}
    /\ \/ UNCHANGED <<received, videos>>
       \/ /\ pc = "sending" /\ offset < size /\ Accepted /\ received' = received \o Chunk
          /\ videos' = IF Complete THEN Append(videos, received') ELSE videos
    /\ UNCHANGED <<file, declared, offset, postId, edits, uploads>>

\* The file is at its end, and no answer had an id.
EndOfFile ==
    /\ pc = "sending" /\ offset >= size /\ pc' = "idle"
    /\ UNCHANGED <<file, declared, offset, received, videos, postId, excused, edits, uploads>>

\* upload_captions; the draft has its post_id when that is done.
UploadCaptions ==
    /\ pc = "captions" /\ pc' = "idle"
    /\ IF captions = "missing"
       THEN excused' = excused \cup {"captions"} /\ UNCHANGED postId
       ELSE postId' = Len(videos) /\ UNCHANGED excused
    /\ UNCHANGED <<file, declared, offset, received, videos, edits, uploads>>

\* The video is rendered anew, at any time.
Render(n) ==
    /\ edits < MaxEdits /\ edits' = edits + 1
    /\ size' = n /\ version' = version + 1
    /\ excused' = excused \cup {"edited"}
    /\ UNCHANGED <<captions, pc, declared, offset, received, videos, postId, uploads>>

Next ==
    \/ Start \/ SendChunk \/ KeptInPart \/ RequestFails \/ EndOfFile \/ UploadCaptions
    \/ \E n \in 0..MaxSize : Render(n)

Spec == Init /\ [][Next]_vars

-----------------------------------------------------------------------------
(* Properties *)

\* An upload that ends without an id for the draft has a reason outside the code; the
\* draft's video has every byte of the file in its place, of the file as it was if nobody
\* replaced it meanwhile; and no upload makes more than one video.
VideoIsWhole ==
    /\ (pc = "idle" /\ uploads > 0 /\ postId = 0) => excused # {}
    /\ Len(videos) <= uploads
    /\ postId # 0 =>
        /\ \A i \in DOMAIN videos[postId] : videos[postId][i][2] = i
        /\ excused = {} => /\ Len(videos[postId]) = size
                           /\ \A i \in 1..size : videos[postId][i][1] = version
=============================================================================
