SPECIFICATION FairSpec
CONSTANTS
    post = post
    video = video
    tweet = tweet
    watch = watch
    cli = cli
    Drafts = {post, tweet}
    Procs = {watch, cli}
    Daemon = watch
    Scheduled = {post, tweet}
    Platform <- MCPlatform
    MaxCrashes = 1
    MaxErrors = 1
    MaxEdits = 1
INVARIANTS
    TypeOK
    AtMostOnePost
    NoForgottenPost
    ClaimsAreTrue
    CommentsBounded
    MarkerMeansInterrupted
PROPERTIES
    MarkerBeforeCreate
    PublishedIsFinal
    CheckpointedIsFinished
CHECK_DEADLOCK FALSE
