--------------------------- MODULE MCSocialPublish ---------------------------
(* Small instances of SocialPublish: a scheduled LinkedIn draft, a YouTube   *)
(* draft published by hand, and a scheduled draft for a platform whose       *)
(* creation is not implemented.                                              *)
EXTENDS SocialPublish

CONSTANTS post, video, tweet, watch, cli

MCPlatform ==
    [d \in Drafts |-> IF d = post THEN "linkedin" ELSE IF d = video THEN "youtube" ELSE "other"]
=============================================================================
