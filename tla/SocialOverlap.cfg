SPECIFICATION Spec
CONSTANTS
    post = post
    video = video
    tweet = tweet
    watch = watch
    cli = cli
    Drafts = {post}
    Procs = {watch, cli}
    Daemon = watch
    Scheduled = {post}
    Platform <- MCPlatform
    MaxCrashes = 0
    MaxErrors = 0
    MaxEdits = 0
INVARIANTS
    NoDoublePost
