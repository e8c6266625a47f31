------------------------------- MODULE Workspace -------------------------------
(***************************************************************************)
(* The parts of a workspace that are checked on small instances of their   *)
(* own: the token store and, next to it, the commands that keep their      *)
(* state in other files.  No two of them share a file, so a behaviour is   *)
(* one of one part, which `part' names; the others stay where they start.  *)
(*                                                                         *)
(* The token store has its own variables.  Those of every other part are   *)
(* s1 to s12, in the order in which its module declares them; those it     *)
(* does not need stay 0.                                                   *)
(***************************************************************************)
EXTENDS TokenStore, Integers, TLC

CONSTANTS
    Every, MaxExp, MaxBackoff, MaxCycles, \* of WatchLoop
    MaxVersion, MaxUpgrades,              \* bounds of Upgrade
    ModelSize, MaxDownloads,              \* bounds of ModelDownload
    Contacts, MaxMade, MaxFaults,         \* of ContactPush
    MaxEdits, MaxCopies,                  \* bounds of TopicSync
    Scopes, MaxCommands,                  \* of GoogleLogin
    ServiceAccounts, MaxCalls, MaxEvents, \* of ServiceTokens
    Profiles, Accounts, MaxLogins,        \* of SocialLogin
    BoxNames, LowerCase, MaxBoxCommands,  \* of Mailboxes
    UserLabels, Matches, MaxFilters,      \* of GmailFilters; the labels are others', too
    MaxSheetEdits, MaxSheetFaults,        \* bounds of SheetPush
    MaxDocEdits, MaxDocCommands, MaxContent, \* bounds of DriveFiles
    MaxContactTime,                       \* bound of ContactSync
    Correspondents, Owner, Slug, MaxAdditions, \* of ConfigEdits
    MaxMailBytes, RawChunk, MaxRead, MaxParts, \* of MimeBody
    Letters, NoId, LetterId, LetterStamp, ThreadKeys, LetterLabels, Routing,
    MaxFetches, MaxRefetches,             \* of Conversations
    Exports, MaxImports,                  \* of Imports
    VideoChunk, MaxVideo, MaxVideoEdits, MaxUploads, \* of VideoUpload
    Meetings, Recurring, SeriesOf, WholeDay, ListLimit, CheckLimit, Horizon,
    MaxChanges, MaxCalendarCommands,      \* of Calendar
    VoiceNames, Alike, MaxChunks, MaxUtterances, SpeakerLimit, \* of Speakers
    MaxLow, MaxNew,                       \* bounds of Retranscription
    MailTexts, AddressBook, MailInstants, LastInstant, MaxMailMerges, \* of ThreadText
    Recipients, Titles, StatusWords, MaxDraftLines, MaxDraftTools, \* of DraftText
    PostLimit, ImageLimit, MaxPostBody, MaxPostEdits, \* of LinkedInPost
    AnswerNames, LowerName, SpeakerNames, MaxNumbered, MaxLines \* of Attribution

\* Below the cap of its exponent the backoff does not reach MaxBackoff, as 2^5 and 64.
ASSUME WatchAssumption ==
    /\ Every \in Nat \ {0} /\ MaxExp \in Nat \ {0} /\ MaxBackoff \in Nat
    /\ \A n \in 1..MaxExp : 2 ^ (n - 1) \in 1..MaxBackoff

ASSUME ModelAssumption == ModelSize \in Nat /\ MaxDownloads \in Nat

\* to_lowercase leaves alone what it returns.
ASSUME LowerAssumption ==
    /\ LowerCase \in [BoxNames -> BoxNames]
    /\ \A n \in BoxNames : LowerCase[LowerCase[n]] = LowerCase[n]

\* 57 * 64 bytes of a message, 57 of an attachment.
ASSUME MimeAssumption ==
    /\ MaxMailBytes \in Nat /\ MaxRead \in Nat /\ MaxParts \in Nat
    /\ RawChunk \in Nat \ {0} /\ RawChunk % 3 = 0

\* Two mails have two Message-IDs, and [routing] leads to the directories of mailboxes.
ASSUME LetterAssumption ==
    /\ IsFiniteSet(Letters) /\ LetterLabels \in [Letters -> SUBSET DOMAIN Routing]
    /\ DOMAIN Routing # {}
    /\ \A i \in {"imap", "gmail"}, m \in Letters : ThreadKeys[i][m] # NoId
    /\ \A m, n \in Letters : LetterId[m] = LetterId[n] /\ LetterId[m] # NoId => m = n
    /\ \A l \in DOMAIN Routing : "conversations" \notin Routing[l]

ASSUME ExportAssumption == \A m \in Exports : m.time \in Int

ASSUME VideoAssumption == VideoChunk \in Nat \ {0} /\ MaxVideo \in Nat /\ MaxUploads \in Nat

\* No meeting ends before it starts, and the root of a series is none of its instances.
ASSUME CalendarAssumption ==
    /\ IsFiniteSet(DOMAIN Meetings) /\ CheckLimit \in Nat /\ Horizon \in Nat
    /\ Meetings \in [DOMAIN Meetings -> Nat \X Nat]
    /\ \A e \in DOMAIN Meetings : Meetings[e][1] <= Meetings[e][2]
    /\ \A e, f \in DOMAIN Meetings : SeriesOf[e] = f => e = f

\* Cosines in tenths.
ASSUME VoiceAssumption ==
    /\ IsFiniteSet(VoiceNames) /\ Alike \in [VoiceNames -> [VoiceNames -> -10..10]]
    /\ MaxChunks \in Nat /\ MaxUtterances \in Nat /\ SpeakerLimit \in Nat \ {0}

ASSUME LowAssumption == MaxLow \in Nat /\ MaxNew \in Nat

VARIABLES part, s1, s2, s3, s4, s5, s6, s7, s8, s9, s10, s11, s12

-----------------------------------------------------------------------------
(* The instances *)

\* Three mails of one conversation, within one second, of which one has no Message-ID.
\* The label `vip' is routed to a mailbox.
MCLetters == {"a", "b", "c"}
MCLetterId == [m \in MCLetters |-> IF m = "c" THEN "none" ELSE m]
MCLetterStamp == [m \in MCLetters |-> 1]
MCThreadKeys == [imap |-> [m \in MCLetters |-> "subject"], gmail |-> [m \in MCLetters |-> "thread"]]
MCLetterLabels == [m \in MCLetters |-> IF m = "a" THEN {"in"} ELSE {"in", "vip"}]
MCRouting == [in |-> {}, vip |-> {"box"}]

MCLowerCase == [work |-> "work", team |-> "team", Team |-> "team"]

\* Two voices are those of one person.
MCVoiceNames == {"ann", "ann on the phone", "bob", "cy"}
MCAlike == [v \in MCVoiceNames |-> [w \in MCVoiceNames |->
    IF v = w THEN 10 ELSE IF {v, w} = {"ann", "ann on the phone"} THEN 7 ELSE 2]]

\* A thread of three, another that starts in the same second, and an SMS chat.
MCExports ==
    {[chat |-> e[1], parent |-> e[2], from |-> e[3], time |-> e[4], kind |-> e[5]] : e \in
        {<<"general", 1, "ann", 1, "text">>, <<"general", 1, "bob", 2, "text">>,
         <<"general", 1, "ann", 3, "text">>, <<"general", 2, "cy", 2, "text">>,
         <<"sms", 0, "ann", 1, "text">>, <<"sms", 0, "ann", 2, "service">>}}

\* Mails of one conversation: one quotes a heading and one a header, one has no
\* Message-ID, one no date and one no sender.
MCMailTexts ==
    {[from |-> e[1], date |-> e[2], mid |-> e[3], to |-> e[4], body |-> e[5]] : e \in
        {<<"ann", "Mon", "m1", "bob", <<<<"text", "hi">>>>>>,
         <<"bob", "Tue", "", "ann", <<<<"text", "re">>, <<"##", "ann", "Mon">>, <<"text", "quoted">>,
                                      <<"meta", "Thread-ID", "other">>>>>>,
         <<"bob", "Tue", "m2", "", <<<<"meta", "Message-ID", "m9">>, <<"---">>,
                                     <<"meta", "Thread-Aliases", {"other"}>>>>>>,
         <<"cy", "", "m4", "ann", <<<<"text", "undated">>>>>>,
         <<"", "Mon", "m5", "", <<>>>>,
         <<"ann", "Wed", "m3", "cy", <<<<"text", "ok">>, <<"meta", "To", "you">>>>>>,
         <<"cy", "Tue", "", "", <<<<"text", "no id">>>>>>}}

MCMailInstants == [Mon |-> 1, Tue |-> 2, Wed |-> 3]

\* A correspondent and the owner of the account.
MCCorrespondents == {[name |-> "Ann", email |-> "ann@x"], [name |-> "Me", email |-> "me@x"]}
MCSlug == [Ann |-> "ann", Me |-> "me"]

\* Two meetings of a series that overlap, and a day.
MCMeetings == [a |-> <<0, 2>>, b |-> <<1, 3>>, c |-> <<3, 4>>]

MCSeriesOf == [a |-> "weekly", b |-> "weekly", c |-> "c"]

\* A name of the answer that is a speaker's but for its letters, one that is, and none.
MCSpeakerNames == <<"Ann", "Bob">>
MCLowerName == [n \in {"Ann", "ann", "Bob", "Unknown"} |-> IF n = "Ann" THEN "ann" ELSE n]

Mime == INSTANCE MimeBody WITH
    job <- s1, size <- s2, next <- s3, phase <- s4, pending <- s5, carry <- s6, eof <- s7,
    output <- s8,
    MaxBytes <- MaxMailBytes

Conv == INSTANCE Conversations WITH
    files <- s1, batch <- s2, routed <- s3, target <- s4, handed <- s5, removed <- s6,
    fetches <- s7, commands <- s8,
    Mails <- Letters, None <- NoId, MessageId <- LetterId, Stamp <- LetterStamp,
    Key <- ThreadKeys, LabelsOf <- LetterLabels, Route <- Routing,
    MaxCommands <- MaxRefetches

Synced == INSTANCE ContactSync WITH
    text <- s1, mtime <- s2, shared <- s3, stored <- s4, base <- s5, first <- s6,
    mail <- s7, run <- s8, known <- s9, newest <- s10, lost <- s11, now <- s12,
    Order <- <<"team">>, MaxTime <- MaxContactTime

People == INSTANCE ContactPush WITH
    google <- s1, disk <- s2, mine <- s3, left <- s4, pc <- s5, changed <- s6, lost <- s7,
    overlap <- s8, made <- s9, faults <- s10,
    Names <- Contacts

Topics == INSTANCE TopicSync WITH
    text <- s1, mtime <- s2, at <- s3, step <- s4, met <- s5, edits <- s6, copies <- s7,
    Mailboxes <- {"team"}

Boxes == INSTANCE Mailboxes WITH
    dirs <- s1, configured <- s2, routing <- s3, command <- s4, routes <- s5,
    irregular <- s6, commands <- s7,
    Names <- BoxNames, Lower <- LowerCase, Labels <- UserLabels, MaxCommands <- MaxBoxCommands

Filters == INSTANCE GmailFilters WITH
    config <- s1, gmail <- s2, labels <- s3, pc <- s4, wanted <- s5, known <- s6,
    doomed <- s7, todo <- s8, settled <- s9, made <- s10, faults <- s11,
    Labels <- UserLabels, MaxFaults <- 1

Login == INSTANCE GoogleLogin WITH
    disk <- s1, granted <- s2, session <- s3, port <- s4, revoked <- s5, commands <- s6

Sheets == INSTANCE SheetPush WITH
    tab <- s1, csv <- s2, bak <- s3, pc <- s4, values <- s5, backup <- s6, previous <- s7,
    excused <- s8, edits <- s9, faults <- s10,
    MaxEdits <- MaxSheetEdits, MaxFaults <- MaxSheetFaults

Again == INSTANCE Retranscription WITH
    low <- s1, merged <- s2, blocks <- s3, replaced <- s4,
    MaxSegments <- MaxLow

Voices == INSTANCE Speakers WITH
    segments <- s1, voice <- s2, remap <- s3, global <- s4, chunk <- s5,
    Voices <- VoiceNames, Similarity <- Alike, Chunks <- MaxChunks, MaxSegments <- MaxUtterances,
    MaxSpeakers <- SpeakerLimit

Import == INSTANCE Imports WITH
    files <- s1, todo <- s2, started <- s3, owed <- s4, imports <- s5,
    Messages <- Exports

Thread == INSTANCE ThreadText WITH
    text <- s1, subject <- s2, merged <- s3, merges <- s4,
    Mails <- MailTexts, Contacts <- AddressBook, Instants <- MailInstants, MaxTime <- LastInstant,
    MaxMerges <- MaxMailMerges

Draft == INSTANCE DraftText WITH
    text <- s1, before <- s2, tool <- s3, report <- s4, tools <- s5,
    Persons <- Recipients, Words <- StatusWords, MaxLines <- MaxDraftLines,
    MaxTools <- MaxDraftTools

Config == INSTANCE ConfigEdits WITH
    config <- s1, dirs <- s2, pc <- s3, job <- s4, read <- s5, told <- s6, overlap <- s7,
    killed <- s8, commands <- s9,
    Persons <- Correspondents, Labels <- UserLabels, MaxCommands <- MaxAdditions

Drive == INSTANCE DriveFiles WITH
    kind <- s1, text <- s2, pc <- s3, content <- s4, seen <- s5, disturbed <- s6,
    outcome <- s7, copies <- s8, output <- s9, edits <- s10, commands <- s11,
    MaxEdits <- MaxDocEdits, MaxCommands <- MaxDocCommands

Cal == INSTANCE Calendar WITH
    present <- s1, matching <- s2, valid <- s3, pc <- s4, all <- s5, todo <- s6,
    counted <- s7, listed <- s8, gone <- s9, report <- s10, changes <- s11, commands <- s12,
    Events <- DOMAIN Meetings, Series <- Recurring, Time <- Meetings, AllDay <- WholeDay,
    MaxCommands <- MaxCalendarCommands

Service == INSTANCE ServiceTokens WITH
    service <- s1, stored <- s2, refresh <- s3, config <- s4, sees <- s5, cache <- s6,
    pc <- s7, handed <- s8, calls <- s9, events <- s10

Social == INSTANCE SocialLogin WITH
    config <- s1, legacy <- s2, tokens <- s3, session <- s4, port <- s5, pages <- s6,
    checked <- s7, allowed <- s8, broken <- s9, overlap <- s10, logins <- s11

LinkedIn == INSTANCE LinkedInPost WITH
    body <- s1, images <- s2, urns <- s3, post <- s4, pc <- s5, changed <- s6, edits <- s7,
    MaxBodyLength <- PostLimit, MaxImages <- ImageLimit, MaxBody <- MaxPostBody,
    MaxEdits <- MaxPostEdits

YouTube == INSTANCE VideoUpload WITH
    size <- s1, version <- s2, captions <- s3, pc <- s4, declared <- s5, offset <- s6,
    received <- s7, videos <- s8, postId <- s9, excused <- s10, edits <- s11,
    uploads <- s12,
    ChunkSize <- VideoChunk, MaxSize <- MaxVideo, MaxEdits <- MaxVideoEdits

Watch == INSTANCE WatchLoop WITH
    autoUpgrade <- s1, phases <- s2, stage <- s3, running <- s4, shutdown <- s5,
    waited <- s6, cycles <- s7

Upgrades == INSTANCE Upgrade WITH
    released <- s1, cache <- s2, program <- s3, archive <- s4, unpacked <- s5, writer <- s6,
    session <- s7, overlap <- s8, cut <- s9, runs <- s10,
    MaxRuns <- MaxUpgrades

Model == INSTANCE ModelDownload WITH
    sized <- s1, cached <- s2, temp <- s3, data <- s4, file <- s5, at <- s6, pc <- s7,
    overlap <- s8, cut <- s9, runs <- s10,
    Size <- ModelSize, MaxRuns <- MaxDownloads

Named == INSTANCE Attribution WITH
    segments <- s1, first <- s2, prompt <- s3, answer <- s4, pc <- s5,
    Names <- AnswerNames, Folded <- LowerName, Labels <- SpeakerNames, MaxSegments <- MaxNumbered

\* What the texts of mails, drafts and posts are.
ASSUME TextsAssumption ==
    Thread!TextAssumption /\ Draft!DraftAssumption /\ LinkedIn!PostAssumption

-----------------------------------------------------------------------------
(* One part at a time *)

registers == <<s1, s2, s3, s4, s5, s6, s7, s8, s9, s10, s11, s12>>
wsVars == <<part, vars, registers>>

PartInit ==
    \/ /\ part = "tokens" /\ s1 = 0 /\ s2 = 0 /\ s3 = 0 /\ s4 = 0 /\ s5 = 0 /\ s6 = 0 /\ s7 = 0 /\ s8 = 0 /\ s9 = 0 /\ s10 = 0 /\ s11 = 0 /\ s12 = 0
    \/ part = "mime" /\ Mime!Init /\ s9 = 0 /\ s10 = 0 /\ s11 = 0 /\ s12 = 0
    \/ part = "conversations" /\ Conv!Init /\ s9 = 0 /\ s10 = 0 /\ s11 = 0 /\ s12 = 0
    \/ part = "contacts" /\ Synced!Init
    \/ part = "people" /\ People!Init /\ s11 = 0 /\ s12 = 0
    \/ part = "topics" /\ Topics!Init /\ s8 = 0 /\ s9 = 0 /\ s10 = 0 /\ s11 = 0 /\ s12 = 0
    \/ part = "mailboxes" /\ Boxes!Init /\ s8 = 0 /\ s9 = 0 /\ s10 = 0 /\ s11 = 0 /\ s12 = 0
    \/ part = "filters" /\ Filters!Init /\ s12 = 0
    \/ part = "login" /\ Login!Init /\ s7 = 0 /\ s8 = 0 /\ s9 = 0 /\ s10 = 0 /\ s11 = 0 /\ s12 = 0
    \/ part = "sheets" /\ Sheets!Init /\ s11 = 0 /\ s12 = 0
    \/ part = "transcript" /\ Again!Init /\ s5 = 0 /\ s6 = 0 /\ s7 = 0 /\ s8 = 0 /\ s9 = 0 /\ s10 = 0 /\ s11 = 0 /\ s12 = 0
    \/ part = "speakers" /\ Voices!Init /\ s6 = 0 /\ s7 = 0 /\ s8 = 0 /\ s9 = 0 /\ s10 = 0 /\ s11 = 0 /\ s12 = 0
    \/ part = "imports" /\ Import!Init /\ s6 = 0 /\ s7 = 0 /\ s8 = 0 /\ s9 = 0 /\ s10 = 0 /\ s11 = 0 /\ s12 = 0
    \/ part = "threads" /\ Thread!Init /\ s5 = 0 /\ s6 = 0 /\ s7 = 0 /\ s8 = 0 /\ s9 = 0 /\ s10 = 0 /\ s11 = 0 /\ s12 = 0
    \/ part = "drafts" /\ Draft!Init /\ s6 = 0 /\ s7 = 0 /\ s8 = 0 /\ s9 = 0 /\ s10 = 0 /\ s11 = 0 /\ s12 = 0
    \/ part = "config" /\ Config!Init /\ s10 = 0 /\ s11 = 0 /\ s12 = 0
    \/ part = "drive" /\ Drive!Init /\ s12 = 0
    \/ part = "calendar" /\ Cal!Init
    \/ part = "service" /\ Service!Init /\ s11 = 0 /\ s12 = 0
    \/ part = "social" /\ Social!Init /\ s12 = 0
    \/ part = "linkedin" /\ LinkedIn!Init /\ s8 = 0 /\ s9 = 0 /\ s10 = 0 /\ s11 = 0 /\ s12 = 0
    \/ part = "youtube" /\ YouTube!Init
    \/ part = "watch" /\ Watch!Init /\ s8 = 0 /\ s9 = 0 /\ s10 = 0 /\ s11 = 0 /\ s12 = 0
    \/ part = "upgrade" /\ Upgrades!Init /\ s11 = 0 /\ s12 = 0
    \/ part = "models" /\ Model!Init /\ s11 = 0 /\ s12 = 0
    \/ part = "attribution" /\ Named!Init /\ s6 = 0 /\ s7 = 0 /\ s8 = 0 /\ s9 = 0 /\ s10 = 0 /\ s11 = 0 /\ s12 = 0

WorkspaceInit == Init /\ PartInit

WorkspaceNext ==
    /\ UNCHANGED part
    /\ \/ part = "tokens" /\ Next /\ UNCHANGED registers
       \/ part = "mime" /\ Mime!Next /\ UNCHANGED <<vars, s9, s10, s11, s12>>
       \/ part = "conversations" /\ Conv!Next /\ UNCHANGED <<vars, s9, s10, s11, s12>>
       \/ part = "contacts" /\ Synced!Next /\ UNCHANGED vars
       \/ part = "people" /\ People!Next /\ UNCHANGED <<vars, s11, s12>>
       \/ part = "topics" /\ Topics!Next /\ UNCHANGED <<vars, s8, s9, s10, s11, s12>>
       \/ part = "mailboxes" /\ Boxes!Next /\ UNCHANGED <<vars, s8, s9, s10, s11, s12>>
       \/ part = "filters" /\ Filters!Next /\ UNCHANGED <<vars, s12>>
       \/ part = "login" /\ Login!Next /\ UNCHANGED <<vars, s7, s8, s9, s10, s11, s12>>
       \/ part = "sheets" /\ Sheets!Next /\ UNCHANGED <<vars, s11, s12>>
       \/ part = "transcript" /\ Again!Next /\ UNCHANGED <<vars, s5, s6, s7, s8, s9, s10, s11, s12>>
       \/ part = "speakers" /\ Voices!Next /\ UNCHANGED <<vars, s6, s7, s8, s9, s10, s11, s12>>
       \/ part = "imports" /\ Import!Next /\ UNCHANGED <<vars, s6, s7, s8, s9, s10, s11, s12>>
       \/ part = "threads" /\ Thread!Next /\ UNCHANGED <<vars, s5, s6, s7, s8, s9, s10, s11, s12>>
       \/ part = "drafts" /\ Draft!Next /\ UNCHANGED <<vars, s6, s7, s8, s9, s10, s11, s12>>
       \/ part = "config" /\ Config!Next /\ UNCHANGED <<vars, s10, s11, s12>>
       \/ part = "drive" /\ Drive!Next /\ UNCHANGED <<vars, s12>>
       \/ part = "calendar" /\ Cal!Next /\ UNCHANGED vars
       \/ part = "service" /\ Service!Next /\ UNCHANGED <<vars, s11, s12>>
       \/ part = "social" /\ Social!Next /\ UNCHANGED <<vars, s12>>
       \/ part = "linkedin" /\ LinkedIn!Next /\ UNCHANGED <<vars, s8, s9, s10, s11, s12>>
       \/ part = "youtube" /\ YouTube!Next /\ UNCHANGED vars
       \/ part = "watch" /\ Watch!Next /\ UNCHANGED <<vars, s8, s9, s10, s11, s12>>
       \/ part = "upgrade" /\ Upgrades!Next /\ UNCHANGED <<vars, s11, s12>>
       \/ part = "models" /\ Model!Next /\ UNCHANGED <<vars, s11, s12>>
       \/ part = "attribution" /\ Named!Next /\ UNCHANGED <<vars, s6, s7, s8, s9, s10, s11, s12>>

WorkspaceSpec == WorkspaceInit /\ [][WorkspaceNext]_wsVars

Symmetry == Permutations(Procs) \cup Permutations(Tokens)

-----------------------------------------------------------------------------
(* The properties of the parts; each is stated and explained in its module *)

\* The encoded mail and its attachments are whole, however the reads fall, and `draft send'
\* and `draft push' agree on the parts of a mail with inline images.
MessagesAreWhole ==
    /\ part = "mime" => Mime!EncodingIsWhole
    /\ part = "mime" => Mime!SendersAgree

\* At most one file claims a thread key, a merged mail stays in a conversation, and
\* overlapping exports leave each message once, in order.
ConversationsAreKept ==
    /\ part = "conversations" => Conv!OneFilePerKey
    /\ part = "conversations" => Conv!NothingDropped
    /\ part = "imports" => Import!ImportedOnce

\* A conversation is read back as it was written, what one draft command writes or accepts
\* the others read alike, and a post shows the words of its draft.
TextsAreReadBack ==
    /\ part = "threads" => Thread!ConversationIsReadBack
    /\ part = "drafts" => Draft!DraftIsReadAlike
    /\ part = "linkedin" => LinkedIn!PostIsWhole

\* The newest edit of a contact wins unless it met a run or a cut file, pushes make one
\* Google contact for each local one, and what a command reported as added is in
\* .corky.toml.
ContactsAreKept ==
    /\ part = "contacts" => Synced!NewestWins
    /\ part = "people" => People!OneContactPerName
    /\ part = "config" => Config!ConfigIsAsTold

\* Routes, tables and directories name the same mailboxes.
NamesAgree == part = "mailboxes" => Boxes!NamesAgree

\* A filter push that comes through leaves exactly the configured filters.
PushReplacesAll == part = "filters" => Filters!PushReplacesAll

\* The cache records only scopes that were allowed, and a profile only the account that was
\* authorised for it.
LoginsAreAsGranted ==
    /\ part = "login" => Login!ScopesAreGranted
    /\ part = "social" => Social!ProfilesAreTheirOwn

\* A push that fails leaves the former rows in the tab or in the .bak file; a write to a
\* document leaves what was written.
DocumentsAreWhole ==
    /\ part = "sheets" => Sheets!PreviousContentsKept
    /\ part = "drive" => Drive!WrittenWhole

\* The calendar commands do what they tell.
CalendarIsAsTold == part = "calendar" => Cal!CalendarIsAsTold

\* A video has the bytes of its file.
VideosAreWhole == part = "youtube" => YouTube!VideoIsWhole

\* The periodic phases of the watch run as often as their failures allow.
Paced == part = "watch" => Watch!Paced

\* The program stays runnable unless a copy over it breaks off, and a cached model is a
\* whole one.
DownloadsAreWhole ==
    /\ part = "upgrade" => Upgrades!StaysRunnable
    /\ part = "models" => Model!ModelIsWhole

\* Persons and speakers correspond across chunks, second pass and attribution.
SpeakersAreTold ==
    /\ part = "transcript" => Again!OnlyBlocksReplaced
    /\ part = "speakers" => Voices!SpeakersTold
    /\ part = "attribution" => Named!OnlyAsAnswered

\* No contact push makes another forget a resource name; with one mailbox, no copy of a
\* topic replaces a later edit, but for one made since the comparison and a cut copy.
FilesAreKept ==
    /\ [][part = "people" => People!MappingKept]_wsVars
    /\ [][part = "topics" => Topics!NoOlderText]_wsVars

\* No login loses the refresh token of the cache, and a token that was handed out works.
TokensAreKept ==
    /\ [][part = "login" => Login!GrantKept]_wsVars
    /\ [][part = "service" => Service!GivenWorks]_wsVars
=============================================================================
