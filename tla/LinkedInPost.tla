------------------------------ MODULE LinkedInPost -----------------------------
(***************************************************************************)
(* What LinkedIn gets to see of a draft (social/linkedin.rs): the images   *)
(* are uploaded one by one, the post is created with the text of the body, *)
(* and the text is set again after that and by `social edit'.  LinkedIn is *)
(* external.  What it shows of a text is in LittleText.                    *)
(***************************************************************************)
EXTENDS LittleText

CONSTANTS MaxBodyLength, MaxImages, \* limits of the code, scaled down
          MaxBody, MaxEdits         \* bounds

PostAssumption == MaxBody \in Nat /\ MaxImages \in Nat

VARIABLES
    body,    \* of the draft, character by character
    images,  \* its images: each has a file or not
    urns,    \* the images that were uploaded
    post,    \* {} or the post: its text as it is shown, and its images
    pc,      \* what publish does next
    changed, \* history: the body the post was last given
    edits

vars == <<body, images, urns, post, pc, changed, edits>>

Bodies == SeqOf(Chars, MaxBody)

Init ==
    /\ body \in Bodies /\ images \in SeqOf(BOOLEAN, MaxImages + 1)
    /\ urns = <<>> /\ post = {} /\ pc = "images" /\ changed = <<>> /\ edits = 0

-----------------------------------------------------------------------------
(* Publishing *)

\* upload_images: a file that is missing, or a request that fails, ends it.
UploadImage ==
    /\ pc = "images" /\ Len(urns) < Len(images)
    /\ IF images[Len(urns) + 1]
       THEN urns' = Append(urns, Len(urns) + 1) /\ UNCHANGED pc
       ELSE pc' = "failed" /\ UNCHANGED urns
    /\ UNCHANGED <<body, images, post, changed, edits>>

\* create_post: the body must fit before its markers are stripped.
Fits == Len(body) <= MaxBodyLength
CreatePost ==
    /\ pc = "images" /\ Len(urns) = Len(images)
    /\ IF Fits /\ Len(images) <= MaxImages
       THEN /\ post' = {[text |-> Shown(Commentary(body)), images |-> urns]}
            /\ pc' = "reconcile" /\ changed' = body
       ELSE pc' = "failed" /\ UNCHANGED <<post, changed>>
    /\ UNCHANGED <<body, images, urns, edits>>

\* update_post, from the body of the draft: after the creation, and by `social edit'.
UpdatePost ==
    /\ post # {} /\ pc \in {"reconcile", "published"} /\ (body # <<>> \/ pc = "reconcile")
    /\ IF Fits
       THEN /\ post' = {[p EXCEPT !.text = Shown(Commentary(body))] : p \in post}
            /\ changed' = body /\ pc' = "published"
       ELSE UNCHANGED <<post, changed, pc>>
    /\ UNCHANGED <<body, images, urns, edits>>

\* A request fails, before or after LinkedIn has carried it out.
RequestFails ==
    /\ pc \in {"images", "reconcile"}
    /\ pc' = IF pc = "images" THEN "failed" ELSE "published"
    /\ post' \in IF pc = "images" /\ Len(urns) = Len(images) /\ Fits /\ Len(images) <= MaxImages
                 THEN {post, {[text |-> Shown(Commentary(body)), images |-> urns]}} ELSE {post}
    /\ changed' = IF post' = post THEN changed ELSE body
    /\ UNCHANGED <<body, images, urns, edits>>

Edit(s) ==
    /\ pc = "published" /\ edits < MaxEdits /\ edits' = edits + 1
    /\ body' = s
    /\ UNCHANGED <<images, urns, post, pc, changed>>

Next == UploadImage \/ CreatePost \/ UpdatePost \/ RequestFails \/ \E s \in Bodies : Edit(s)

Spec == Init /\ [][Next]_vars

-----------------------------------------------------------------------------
(* Properties *)

\* A post shows the whole text it was last given, without backticks and bold markers and
\* with every character that is of no marker, none escaped twice; it has all the images of
\* the draft, in order.  Of italics, which strip_linkedin_markdown is said to strip as
\* well, the markers are shown.
PostIsWhole ==
    \A p \in post : /\ Words(p.text) = Words(changed) /\ ~ HasMarkers(p.text)
                    /\ p.images = [i \in 1..Len(images) |-> i]
                    /\ \A i \in DOMAIN images : images[i]
=============================================================================
