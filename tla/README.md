# Corky, specified in TLA+

Corky is a command-line program that keeps a person's mail as Markdown files. It
syncs IMAP and Gmail accounts into conversation files, sends drafts, publishes posts to
social networks, shares mailboxes and contacts, edits documents and calendars at Google, transcribes
recordings, and has a daemon, `corky watch`, that polls and works through a schedule. Everything it
knows lies in files. Any number of `corky` processes may work on these files at the same time, and
each can be killed, lose its network or be refused by a server at every step. There is
no database and no lock held across an operation. What makes the program correct is the
order in which each process reads and writes, how it merges what it finds, and what it makes of an answer that
fails, comes late or does not come: this is what the modules of this directory are about.

## 1. Inventory

| Component | State it keeps | Operations | Talks to |
|---|---|---|---|
| Social publishing (`corky-social`) | frontmatter of each draft: status, `post_id`; profiles | `publish`, `run_edit`, uploads of images and videos, login | LinkedIn, YouTube; token store |
| Scheduler (`schedule.rs`) | none; the due items of one tick | `scan_scheduled`, `run` | social publishing, email drafts |
| Token store (`token_store.rs`, `file_store.rs`) | `tokens.json`; a copy in each process with its dirty and deleted keys | load, upsert, save with merge, clear | every OAuth client |
| Google OAuth access (`gmail_auth.rs`, `oauth_loopback.rs`, `cal/auth.rs`, `gsc/auth.rs`) | entries of the store; a cache of service-account tokens | use, refresh, log in, react to a 401 | token store, Google, the browser |
| Mail sync runs (`sync/mod.rs`, `run_state.rs`) | `.sync-state.json` (cursors), `.sync-run-state.json` (the phase of each account) | `run`, `refetch`, orphan cleanup, merge of states | providers, conversation files |
| IMAP and Gmail providers | cursors of each label | `sync_account` | the servers |
| Conversation files (`markdown.rs`, `merge_message_to_file`, `routes.rs`) | one file per thread, its aliases and messages | find, parse, merge, rewrite, route, list unanswered | sync, importers, refetch |
| Email drafts (`draft/`, `validate_draft.rs`) | a draft file with its status | new, validate, migrate, attach, push, send, scheduled send | SMTP, Gmail API, scheduler |
| Watch daemon (`watch.rs`), upgrade (`upgrade.rs`) | shutdown flag, phases with circuit breakers; the program itself | `poll_once`, ticks, upgrade and exec | sync, scheduler, GitHub |
| Contacts (`contact/`) | copies in root and mailboxes, hashes, `.people-sync-state.json`, `.corky.toml` | sync, push, delete, add, from conversation | mailboxes, Google People |
| Shared mailboxes, topics (`mailbox/`) | directories, `.corky.toml`, copies of topic files | add, rename, remove, sync | git, GitHub |
| Gmail filters (`filter/`) | `.corky.toml`; the filters at Gmail | push, check | Gmail API |
| Importers | conversation files | import of Slack, SMS, Telegram exports | merge |
| Google workspace (`corky-google`) | CSV and `.bak` files; documents and calendars at Google | sheets push and pull, doc read, write, export, upload, cal commands | Google APIs |
| Transcription (`corky-transcribe`) | cache of models; a transcript in memory | download, diarize, transcribe again, name speakers | model servers |

The watch daemon calls the providers and the scheduler; the scheduler calls `publish` and the email sender;
every network client goes through the token store; importers, providers and `refetch` end in
`merge_message_to_file`. Between processes there is no call at all: they
interact only through files and through what they have done at a server.

What is hard, and what has to be right:

- **Publishing** cannot be undone and the platform offers no idempotency key. A crash
  between the marker, the call and the checkpoint, a lost reply, or a cut file
  (`std::fs::write` truncates first) must not make a later run post again, nor may
  a post that exists be forgotten or a claimed post not exist. The text a reader sees is that of the draft.
- **Email** is sent, then marked as sent: it goes out once for each approval, not after it was withdrawn, and
  in the end; the MIME encoder must produce the whole message however its reads fall.
- **The token store** is loaded once and saved much later, perhaps after a browser login.
  A save must not undo what other processes have saved, a late 401 must not
  throw away a good token, no login may lose the refresh token or claim scopes the user did not allow.
- **Mail sync** advances cursors past mails that it will never look at again. A cursor
  must not pass a mail that has not reached its file, whatever fails, is interrupted
  or runs beside it; it must not move back; an account in which a run was killed must be verified in full; mail must
  arrive in the end.
- **Conversation files** have an identity (a key and aliases) under which mails of two providers must meet, and are
  read back and rewritten for every mail, although bodies may contain what looks like structure.
- **Pushes** to Google (contacts, filters, sheets, documents) are several requests: an error, a lost answer or
  another push in between must not lose or double anything.
- **Commands in two steps** (a directory, then `.corky.toml`; a temporary file, then a rename) can be broken off or overlap.
- **The watch loop** must retry a failing phase without hammering it and without starving it.
- **Transcription** replaces parts of a list by parts of other length and matches speakers by similarity: an index off by one gives
  someone the words of another.

`PROJECT.json` lists the components and, under `hazards`, each of these at its line,
with the properties that would catch it or the reason why none does.

## 2. Modules

Each module's head says what it models; the comments on the actions name the functions, and `map` in
`PROJECT.json` gives the lines of every definition. An action is one stretch of a function between two
effects that another process, a server or a crash can see.

| Module | Code | State and actions |
|---|---|---|
| `SocialPublish` | `publish.rs`, `draft.rs`, `schedule.rs`, `run_edit` | `file[d]` on disk, `mem[p]` the copy in a process, `posts[d]` at the platform; see below |
| `EmailDraft` | `draft/*.rs`, the email half of `schedule.rs` | `file`, `copy`, `delivered`; `Scan`, `BeginDue`, `Deliver`, `Mark`, `Save` for the scheduler and `push --send`; `DeliverSend` (never looks at the status), `PushDraft`, `BeginAttach`, `BeginMigrate`, `BeginNew` with `Write`; `DeliverErr`, `Crash`; `Operator`, `Clock` |
| `MimeBody` | `draft/send.rs`, `compose_email` | the readers as state machines: `Refill`, `Flush`, `NextPhase` for the JSON body, `Fill`, `WriteLine` for an attachment; `Written` and `Composed` are the part trees of the two senders |
| `DraftText` | `validate_draft.rs`, `migrate.rs`, `attach.rs`, the parsers of `draft/mod.rs` | the lines of a draft in both formats; `Validate`, `Migrate`, `Mark`, `Attach`, and `Read` as push reads it |
| `KeyedTokens` | what the token store promises | one register per key |
| `TokenStore` | `token_store.rs`, `file_store.rs`, 401 handling | stale stores of several processes; implements `KeyedTokens` |
| `GoogleLogin` | `gmail_auth.rs`, `oauth_loopback.rs` | the entry of one key: `Load`, `Refresh`, `Bind`, `Authorize`, `Save` of processes that share one port or, if the environment opts in, take one of their own; `MergeCachedGrant`, `PromptConsent`, `ParsedScopes` of an answer that names its scopes or not |
| `ServiceTokens` | `cal/auth.rs`, `gsc/auth.rs` | stored, refreshed, service-account (`TryCached`, `TryNew`) and browser tokens, in the order the code tries them |
| `SocialLogin` | `social/auth.rs`, `profiles.rs` | `Open` (on the shared port or one of its own), `Authorize` (pages may be answered late), `ReadConfig`, `WriteConfig`, `StoreToken`; `Registry` and `Errors` |
| `SyncState` | the merge in `sync/mod.rs` | one operator, `ThreeWay`, for accounts and for labels |
| `MailSync` | `sync/mod.rs`, `run_state.rs`, both providers, `poll_once` | see below |
| `Conversations` | `merge_message_to_file`, refetch, `sync routes` | files by directory; `Fetch`, `Merge` (find by key, by Message-ID, dedup), `Refetch`, `RefreshRouted`, `Routes`, `Crash` |
| `ThreadText` | `markdown.rs`, `find_unanswered.rs`, `manifest.rs` | a file as lines; `ThreadToMarkdown`, `ParseThreadMarkdown` and the other readers; `Merge` reads, merges and rewrites. The line loop of the parser is stated by positions: `Headings`, the `Header` and the `Content` below each |
| `Imports` | the three importers | `Begin` (read and group), `Merge` in any order of groups, `Complete`, `BreakOff` |
| `WatchLoop` | `watch.rs` | phases with cadence and backoff: `Go`, `Finish`, `Replace` (exec), `Wake`, `Stop`, `Interrupt` |
| `Upgrade` | `upgrade.rs`, `try_auto_upgrade` | the program file, the shared temporary files; `Download`, `Unpack`, `Install`, or `CopyOver` and `Copied` where the rename fails, `FallBack`, `Exec` |
| `ContactSync` | `contact/sync.rs`, the merge of contact state in `sync/mod.rs` | texts, times and base hashes, also those a mail sync carries along; per mailbox `Look`, `Compare` (with `TakeRoot`, `TakeMailbox`), then `Write` and `Stamp`, the two halves of `write_and_set_mtime`, or `Cut`; `SaveState` with `MergeContact`; `Edit` and `Stop` at any point |
| `ContactPush` | `contact/push.rs`, `delete.rs` | Google's contacts and the saved resource names; `Update`, `Create`, `PushErr`, `Save`, `Delete` |
| `ConfigEdits` | `contact/add.rs`, `from_conversation.rs`, the writers of `.corky.toml` | `MakeDirectory`, `Link`, then `Read` and `Write` of the whole file |
| `TopicSync` | `sync_topics` in `mailbox/sync.rs` | texts and times; `Forward`, `Reverse` compare (`ShouldCopy`), then `Copy` or `Cut`; `Edit` and `Stop` at any point |
| `Mailboxes` | `mailbox/add.rs`, `rename.rs`, `remove.rs` | directories, tables, routes; the directory and `Configure` as two steps |
| `GmailFilters` | `filter/push.rs`, `check.rs` | one action per request: `EnsureLabel`, `FetchExisting`, `DeleteFilter`, `CreateFilter` |
| `SheetPush` | `doc/sheets.rs` | snapshot, clear, write, backup, restore, each with its error |
| `DriveFiles` | `doc/drive.rs`, `gdocs.rs`, `upload.rs` | which service writes a file (`WriteVia`); `ReadLength` and `Update` of a document; `Upload`, `Share`, `Export`, `Read` |
| `Calendar` | `cal/*.rs` | `List`, `Delete` with the answers a request can get, `Create`, `Check` |
| `LittleText` | `linkedin.rs` | characters that are `Stripped` and `Escaped`, what LinkedIn has `Shown` of the result, and what a reader expects of it (`Words`, `HasMarkers`); no variables |
| `LinkedInPost` | `linkedin.rs` | a post through `Commentary` and `Fits`; images; `CreatePost`, `UpdatePost` |
| `Positions` | | the lines or characters at a set of positions, in order; used by the two text modules |
| `VideoUpload` | `youtube.rs` | chunks with their `ContentRange`, the answers 308 and 200, captions |
| `Retranscription`, `Speakers`, `Attribution` | `engine.rs`, `diarize.rs`, `resolve.rs` | replacing blocks from the back; matching speakers over chunks; numbering segments for a prompt and applying any answer |
| `ModelDownload` | `model.rs` | the cached model and the `.download` file with several writers |
| `MC*`, `Workspace` | | instances for TLC |
| `*Proofs` | | theorems about the module of that name; `TextProofs` is about `Positions` and `LittleText`, `ContentProofs` holds the other half of those about `Workspace`, and `WorkspaceProofs` those about the token store as well |

### SocialPublish

`file[d]` is the frontmatter of draft `d` as far as it matters: the status and whether
`post_id` is there, or `"torn"` for a cut file that `SocialDraft::parse` rejects.

| Code (`publish.rs`) | Action |
|---|---|
| read, parse, `can_publish`, refusal of an interrupted attempt (16-39) | `BeginQueued`, `BeginManual`; `Refuse` if it fails |
| author, token, images (41-120) | `Prepare`, `Bail` |
| `PublishEvent::Start`, write (121-126) | `WriteMarker` |
| the call of the platform (128-144) | `CreateOk`, `CreateErr`, `CreateUnimplemented` (the `bail!` of line 137) |
| write of the `post_id` (146) | `Checkpoint` |
| the error handler (149-159) | `WriteFailed` |
| reconcile, first comment (163-192) | `Reconcile`, `Comment` |
| terminal write (194-201) | `Finish` |

`Scan` is the scheduler's directory scan, whose result (`queue`) grows stale while the
daemon works through it. `BeginEdit` and `WriteEdit` are `run_edit`. `MarkReady` and
`Verify` are edits by hand; `Verify` follows the message that `publish` prints for an
interrupted draft. `WriteError` and `Crash` leave the old file or a cut one. `lost[d]` counts the posts
whose create call reported an error.

`overlap[d]`, here and in `EmailDraft`, records that two actors have been at work on `d` at the same time. Neither sender
takes a lock, so most properties hold only without an overlap and say so; the run `social_overlap`
shows what happens with one. `ClaimsAreTrue` and `SentMeansDelivered` need no such condition.

### TokenStore and KeyedTokens

`disk` is `tokens.json`; `tokens`, `loaded`, `dirty` and `deleted` are the fields of each
process's `TokenStore`. `Merged` is the closure that `save_to` runs under the lock of
`save_json_with_lock`, which is why `Save` is one action. `UseCached` and `Renew` are the
`get_*access_token` functions: the cached token, or a new one from a refresh or a
browser login, which may take any time. `Call401` and then `ClearByValue` or `ClearByKey` are the
two reactions to a 401: `clear_access_token`, and `clear_send_token` of `draft send`. `KeyedTokens` is
the abstract specification: a step writes one new token, empties one key, or forgets
one token, and a token that has gone does not come back.

### SyncState and MailSync

`SyncState` has the merge of `sync/mod.rs:313-443` as one operator, `ThreeWay`, used
twice (accounts, and labels within an account) with a resolution for conflicts.
`MergedEntry` says what a merge of one label should give; `SavesKeepOthers` compares the two.

In `MailSync` a mailbox is a sequence. For IMAP the position of a mail is its UID. For
Gmail the sequence is the history, in which a mail that changes appears again, and the
historyId of a mail is its last position. A process goes from account to account
(`Visit`), from label to label (`OpenImap`, `OpenGmail`, `ListGmail`), from mail to mail
(`Fetch`) and ends with `Save`:

| Code | Action |
|---|---|
| `run` up to the loop; load of the state (`sync/mod.rs:194-225`) | `Sync`; for `poll_once`, `Poll` |
| body of the account loop, `record(Start)` | `Visit`; `Refused` if a password or a token is missing |
| select, UIDVALIDITY, search (`imap_sync.rs:491-557`) | `OpenImap`, `LabelMissing` |
| `fetch_new_message_ids_incremental`, which also moves the historyId (`gmail_api_sync.rs:375-397`) | `OpenGmail` |
| the listing, in full or after the history has expired (398-407) | `ListGmail` |
| one iteration of the fetch loop, with the update of the cursor after the last | `Fetch` |
| an error of any of these | `Fails`; the flag: `Interrupted`, `Heeds` |
| `record(Complete)` | `AccountDone` |
| `cleanup_orphans`, then `save_state_merged` | `Save` |

`uid_search` returns a set, so `Fetch` takes the mails in any order. `corky sync` returns at the
first error and saves nothing; the watch goes on to the next account (`Abandon`) and
saves at the end. `runs` is the run log, whose phase goes `fetching`, then `done` or `error`; only
`corky sync` writes and reads it.

Two history variables delimit `NothingSkipped`. `suspect` holds the mailboxes in which one of three
known ways to a wrong cursor has occurred: a new UIDVALIDITY (`sync_reset`), a Gmail pass that breaks off
(`gmail_loses`), and a Gmail mail that changes during a pass (a hazard). `reaped` holds mails whose files the
orphan cleanup has removed. The violation runs check the property without these exclusions.

### Workspace

Most commands share no file with any other. `Workspace` checks them in one run: a behaviour is one of one part, named by `part`,
whose module is instantiated with its variables mapped to the registers `s1` to `s12`, on an instance of its own. The token store keeps its own
variables. The parameters of the parts are constants of `Workspace`, with values in
`Workspace.cfg` (those that are functions as `MC*` definitions), so that what is proved of a part holds for all of them. Properties
of the parts are grouped by what they protect; each is stated and explained in its module.

## 3. Runs

Every bound is a constant or a line of an instance; nothing else is cut off. Counters of faults (`MaxCrashes`, `MaxErrors`,
`MaxEvents`, `MaxFaults`), of edits and commands (`MaxEdits`, `MaxCommands`) and the numbers of mails and tokens bound what happens in a behaviour.

| Run | Question | Instance |
|---|---|---|
| `social_publish` | Is a draft posted at most once, never forgotten, truthfully recorded, finished? | daemon and one manual process; a LinkedIn draft and one of a platform without publisher; 1 crash, 1 API error, 1 edit |
| `email_drafts` | Does an approved mail go out once, not after it was withdrawn, and in the end? | one draft, the scheduler and a manual process; 1 crash, 1 error, 2 edits, 1 command |
| `mail` | Cursors, merge of states, resume | an IMAP account with 2 labels, or a Gmail account; 2 mails (one IMAP mail cannot be read), 1 event, 1 crash; symmetry of labels |
| `mail_accounts` | Does one account's failure harm the other? Is mail delivered? | an IMAP and a Gmail account, 1 mail, 1 event or crash |
| `workspace` | The token store under stale saves; and each other command on its own | see the table below; symmetry of the store's processes and tokens |
| `social_overlap` | Does a manual publish beside a tick post twice? **Yes** | one draft, no faults |
| `token_send` | Does a 401 cost only rejected tokens, also for the key of `draft send`? **No** | 2 processes, a user and a send key, 3 tokens |
| `sync_reset` | Is the cursor right after a new UIDVALIDITY? **No** | 1 label |
| `gmail_loses` | Is a Gmail cursor right after a pass that breaks off? **No** | 1 label |
| `resume_forgotten` | Is a crashed account verified in full before it counts as done? **No** | 1 label |
| `contact_overwrites` | Does the newest edit win with two mailboxes? **No** | 2 mailboxes, 5 edits and writes |
| `topic_overwrites` | Does the newer topic file win with two mailboxes? **No** | 2 mailboxes, 3 edits, 4 copies |

The parts of `workspace`:

| Part | Property | Instance |
|---|---|---|
| `tokens` | `ImplementsRegisters`, `OnlyRejectedIsCleared`, `TypeOK` | 2 processes, 2 keys, 3 tokens |
| `mime` | `MessagesAreWhole` | raw mail of 10 bytes, chunks of 3, reads of up to 2; an attachment beside it |
| `conversations` | `ConversationsAreKept` | 3 mails of one thread within one second (one without Message-ID), IMAP and Gmail, 3 fetches, 1 command |
| `threads` | `TextsAreReadBack` | 7 mails with the oddities that the parsers meet (`MCMailTexts`), 3 dates; 4 merges |
| `imports` | `ConversationsAreKept` | 6 messages, 3 imports, broken off anywhere |
| `drafts` | `TextsAreReadBack` | both formats, up to 5 lines, three words for a status, one of them none; 2 commands |
| `contacts` | `ContactsAreKept` | 1 mailbox, 6 edits and writes, any of them cut |
| `people` | `ContactsAreKept`, `FilesAreKept` | 2 names, 2 pushes at a time, 3 contacts made, 1 fault |
| `config` | `ContactsAreKept` | 3 commands with crashes |
| `topics` | `FilesAreKept` | 1 mailbox, 3 edits, 4 copies, any of them cut |
| `mailboxes` | `NamesAgree` | 3 names (two differ in case), 5 commands |
| `filters` | `PushReplacesAll` | 4 filters made, 1 fault |
| `login` | `LoginsAreAsGranted`, `TokensAreKept` | 2 scopes, 3 commands |
| `social` | `LoginsAreAsGranted` | 2 profiles, 2 accounts, 2 logins |
| `service` | `TokensAreKept` | 2 accounts, 3 calls, 4 events |
| `sheets` | `DocumentsAreWhole` | 4 edits, 4 faults |
| `drive` | `DocumentsAreWhole` | 2 edits, 2 commands |
| `calendar` | `CalendarIsAsTold` | 3 events, one of them all day, 1 change, 2 commands |
| `linkedin` | `TextsAreReadBack` | bodies of up to 4 for a limit of 3, 1 image |
| `youtube` | `VideosAreWhole` | a file of 4, chunks of 2 |
| `watch` | `Paced` | a phase every 2 cycles, exponent cap 2, 16 cycles |
| `upgrade` | `DownloadsAreWhole` | 3 versions, 3 runs |
| `models` | `DownloadsAreWhole` | a model of 3, 4 runs |
| `transcript` | `SpeakersAreTold` | 7 segments |
| `speakers` | `SpeakersAreTold` | 2 chunks of 2 segments with 2 speakers each, 4 voices of 3 persons |
| `attribution` | `SpeakersAreTold` | 3 segments, 2 lines of an answer |

Why these bounds are enough to be interesting. One crash, one error and one edit can each fall
at every point of an attempt, and a second attempt, by either process, follows them;
in `email_drafts` a second edit lets the user withdraw what was approved and approve it again.
In `social_publish`, draft `tweet` adds the path of line 137 and makes the tick go through a queue of two.
Three tokens allow one process to hold a token, another to renew it and a third
renewal to race with the late 401. Two mails allow one to be fetched and one not, in both
orders; two labels, or two accounts, allow one entry to be changed by each process while both
are under way; one event is one error, removal, change, renumbering or shutdown at any point.
In `workspace`, each instance lets a command end, fail or be broken off at every step, another
of the same or the opposite kind follow or overlap it, and, where an index, a chunk or a limit is at issue, takes sizes on both sides of it:
reads that divide a chunk and reads that do not, a body of the limit and one above it, blocks that grow and blocks that shrink.

`SavesKeepOthers` is asked twice, because only `mail_accounts` has two accounts. The runs with a liveness property use
no symmetry. Deadlock is checked except in `social_publish`, `email_drafts`,
`workspace`, `contact_overwrites` and `topic_overwrites`: there everything may be published, or every edit and command used up, and nothing is left to do.

Each property has a mutant, a plausible mistake in one of the modelled functions, under which the same run
must fail; the mutants stand before the definitions they replace and are marked as such. In `workspace` a
property that protects several parts has one mutant for the property, in one of them.

### Fairness

- `SocialPublish`: weak fairness on the daemon's `Work`. The watch loop runs a
  tick for ever (`watch.rs:381-469`) and `schedule::run` continues after a failed item. Commands by hand,
  faults and edits are never obliged to occur.
- `EmailDraft`: the same for the daemon's `Work`, and weak fairness on `Clock`, for `scheduled_at` passes without anybody's help.
- `MailSync`: weak fairness on `Poll`, `Interrupted` and the watch's `Work`, for the same reason. `corky sync` may stop at any
  point for ever. After a shutdown nobody has to restart the watch, so `EventuallyDelivered` ends with `stop`.

All three need the faults to be finitely many, which the bounds state: an account
whose server always fails is never synced by any program.

### What the violation runs show

1. `social_overlap`: `publish` reads the draft once and writes the marker without a lock or
   a second look. Two attempts that both read `ready` both post.
2. `token_send`: `draft send` clears its key, not the rejected token; a token renewed
   meanwhile by another process is thrown away.
3. `sync_reset`: after a new UIDVALIDITY the label is fetched in full, but the maximum
   starts from the old `last_uid`; the new pair is (new UIDVALIDITY, old UID), and mails
   that arrive below that UID are not found.
4. `gmail_loses`: the history call advances `last_history_id` before any mail is fetched;
   when the pass fails or the shutdown flag stops it, the watch saves the state all the same.
5. `resume_forgotten`: a resumed run that fails records `error`, which is not in flight; the next
   run is incremental though nothing was verified.
6. `contact_overwrites`: the text and the time of the root copy are read once, before the loop over the mailboxes. After
   the newest edit has been copied to the root from one mailbox, an older edit of the next mailbox is compared
   with the old time and replaces it. With one mailbox `NewestWins` holds (`workspace`).
7. `topic_overwrites`: a copied topic file has the time of the copy. On its way to the next mailbox it passes for newer
   than an edit made there after the original, which is lost. With one mailbox `NoOlderText` holds (`workspace`).

`PROJECT.json` quotes the document or comment that each of these disagrees with.

## 4. Proofs

All proofs are checked by TLAPS, for every value of the constants that satisfies the ASSUME of the module. Counters like `MaxErrors`, which bound what TLC explores, are arbitrary
natural numbers in the proofs, or not restricted at all.

### What is assumed

- `PublishAssumption`, `EmailAssumption`, `SyncAssumption`, `TokenAssumption`: the daemon is one of the processes, there are drafts, the watch is
  not one of the `corky sync` processes, bounds are natural numbers, `NoToken` is not a token.
- `NamesDiffer` of `MCMail`: the model values of the instance are different, as TLC takes them to be.
- `WatchAssumption`: a phase has an interval and a cap of the exponent, and the cap of the backoff is not below the powers of two up to it (64 and 6 in
  `watch.rs`). The prover has no laws of exponentiation, so the powers that occur are assumed to be positive and within the cap.
- `ModelAssumption`, `ExportAssumption`, `VideoAssumption`, `LowAssumption`: sizes, times and limits are numbers, and a chunk of a video is not empty.
- `LowerAssumption`: what `to_lowercase` returns it leaves alone.
- `MimeAssumption`: a chunk is a positive multiple of three, as `57 * 64` and 57 are.
- `LetterAssumption`: finitely many mails, no two with one Message-ID (two that have one are the same mail), routes that do not lead to `conversations/`.
- `TextsAssumption`, for texts: a mail has the five fields and a finite body, and the empty text is no date; a recipient is not the empty text; limits are
  numbers. The bodies, the addresses, the dates and the bounds are arbitrary.
- `CalendarAssumption`: no meeting ends before it starts, the root of a series is not one of its instances.
- `VoiceAssumption`: similarities lie between -1 and 1, and there may be at least one speaker. That similar voices are those of one person is
  *not* assumed: similarity of cosines need not be transitive. `SpeakersTold` has it as the hypothesis `VoicesTell` of its last clause.

### Social publishing (`SocialPublishProofs`)

The invariants are not inductive: what an attempt does next depends on its copy of the file, not on the file. The strengthening has three
parts: `TypeOK`; `Truthful`, which says that every `post_id` in a file *or in a copy* belongs to a post and that `published`
comes with an id; and `Turns`, which says for a draft without overlap who works on it, that the worker's copy agrees with the file up to
what it has yet to write, and how many posts there are at each point. From it `PostsAtMostOnce`, `PostsAreNotForgotten`,
`FileTellsTheTruth`, and the action properties `MarkerComesFirst` and `PublishedStays`. `CommentsArePaid` and `MarkersAreTraces` rest on a second invariant beside
it, `Leftover`: a draft has a second first comment only for each attempt that was interrupted before its end was recorded, and a marker without
a worker only after an attempt was interrupted.

### Email drafts (`EmailDraftProofs`)

`IInv` is `TypeOK`, `Truthful` and `Turns`, as above; here a send is paid for by an approval (the status that made the draft eligible) or by a
status that could not be written, and `Turns` says where each unspent approval is: in the file, or with the one process that has read
it. A process that is alone on a draft has in its copy what is in the file (`AloneAt`). Theorems: `TypeCorrect`, `OncePerApproval`, `MarksAreTrue` (which holds with overlaps as well), `WithdrawnStays`, `SentStays`.

### Tokens (`WorkspaceProofs`, first part)

`TypeCorrect`, `StoreImplementsRegisters` (the refinement of `KeyedTokens`) and `ClearingIsSafe`. The refinement rests on an invariant of each
process: between load and save its store differs from what it loaded in at most the key it renewed, whose new token nobody
has seen yet.

### Mail (`MailSyncProofs`, `MCMailProofs`)

- `MergeIsPerLabel`: the merge of whole accounts, with its shortcuts, equals the merge of each label alone, provided that the
  file still has every account of the baseline and that the writer has dropped nothing that it loaded. Both provisos are needed.
- `SavesAreMerges`: the provisos hold in every run. The invariant `Grows` says that each run's state extends its baseline and
  so does the file; every step treats these three in one of five ways (`StepsOfStates`), and a save extends the file (`MergeExtends`).
- `NothingIsSkipped`, for both providers. A cursor in the file says too little: a run holds cursors in memory, and Gmail's runs
  ahead of the mails that are still to be fetched. `Sound` says of every mailbox that is not `suspect`: the cursor in the file is
  `Safe` (all up to it is delivered), so is that in the memory of every process, and a process that is in the
  mailbox has `Listed` all that is not delivered up to some position, behind which it will not move. A merge takes each cursor from
  one of three safe states.
- `CursorsOnlyAdvance`. `Forward` says that a cursor in memory is never behind the one the run started from (`Ahead`), and that the
  pass under way is not behind the one in memory (`Onward`). A conflict takes the maximum, so a save cannot go back.
- `CrashesAreResumed`. `InFlight`: an account in which `corky sync` crashed has the phase `fetching`, and a run that is under way has it in its
  list of accounts to be synced in full. The theorem has the hypothesis that there is a single `corky sync`; with two it is false (see the hazards).
- `MCMailProofs` lifts these to the instance of the runs, whose `Safety` properties are about both accounts, by showing that the instance
  meets `SyncAssumption` for each choice of providers.

### The other commands (`WorkspaceProofs`, `ContentProofs`)

A behaviour of `Workspace` is one of one part. For each part there is an invariant, a lemma that it holds initially, one that a step
preserves it (with a step per action below it), and one that it implies the property.

| Theorem | Property | The invariant and why it is needed |
|---|---|---|
| `PhasesArePaced` | `Paced` | what has passed since the start of a phase, what it has still to wait and its panics make one equation (`WatchInv`); the backoff is one of the assumed powers |
| `DownloadsEndWhole` | `DownloadsAreWhole` | until two upgrades meet, or a copy over the program breaks off, one at most is at the temporary file (`OneAtATime`); each chunk a cached model lacks is still to come from some writer (`Coming`) |
| `OthersFilesAreKept` | `FilesAreKept` | a push saves what is there, overlaid with its own names; with one mailbox, a whole file with a later time has no older text (`NewerIsLater`), and once the times are compared what is about to be copied is no older than what it replaces, unless that has been edited since (`TopicInv`) |
| `GrantsAreKept` | `TokensAreKept` | whatever a login is going to save has a refresh token: the one it has read, or that of an answer it asked consent for (`BringsGrant`) |
| `LoginsGetTheirOwn` | `LoginsAreAsGranted` | what entries and answers record has been allowed (`IsGranted`), the page a login takes carries its own state (`OwnAnswer`), and the account of a profile has its token or is about to (`TokensFollow`) |
| `MailboxNamesAgree` | `NamesAgree` | between its two steps a command has left the directories as the configuration will be (`Ahead`) |
| `FiltersAreReplaced` | `PushReplacesAll` | a push that nobody disturbs deletes all before it makes the first filter, and has each made filter once (`Replacing`, `EachOnce`) |
| `DocumentsStayWhole` | `DocumentsAreWhole` | the former rows are in the tab, the snapshot or the `.bak` file (`RowsKept`); the content of a document is never a mixture while a batch is applied to what was read (`ContentsKept`) |
| `ContactsStayTrue` | `ContactsAreKept` | base hash and times tell which side was edited (`EditsTell`), and what a run has read and not yet written is still so (`RunTells`), until an edit falls into a run or a write is cut; Google contacts whose resource name nobody knows, `Strays`, are as many as pushes were broken off; what a command has read of `.corky.toml` is what is there, while they take turns (`Alone`) |
| `MessagesStayWhole` | `MessagesAreWhole` | what was handed out, what is ready and the encoding of what is carried make the encoding of what was read. `EncodeJoin` is the law behind it: base64 of a multiple of three bytes can be cut anywhere between groups |
| `ConversationsStay` | `ConversationsAreKept` | no two files have a key in common (`KeysOf`), the number `unique_slug` takes is free because there are fewer files than names (`NameIsFree`); an import keeps a chronicle, into which `Inserted` puts one entry |
| `VideosStayWhole` | `VideosAreWhole` | an undisturbed upload knows how many bytes YouTube has, and every byte is in its place |
| `CalendarIsTold` | `CalendarIsAsTold` | what was counted stays gone; the minutes of the events that were found are those that are not free (`TakenAreCounted`) |
| `SpeakersStay` | `SpeakersAreTold` | a transcript is as it was found before the end of the last block that is left; each global speaker has a voice that was heard and no two are similar; the line that decides a segment is the last with its number |

### Texts (`TextProofs`, `ThreadTextProofs`, `WorkspaceProofs`)

`TextsStay` says that `TextsAreReadBack` holds for all mails, drafts and posts. The functions that write and read texts are loops over lines or
characters, and what a loop computes could only be shown by induction over its input. They are therefore stated by positions: the lines of a
message are those from its heading to the one before the next heading, and so on. `TextProofs` has what this needs, for sequences of every
length: the elements at a set of positions in order (`At`), what flattening puts where, and least positions in the place of induction.

- *Conversations.* `TextIsWritten`: the file is its first lines and, in order, a block per message, each of which lies where `Written` says.
  `ContentIs` and `HeadingIs`: what the parser takes for the content of a message are the lines of its body, and what it takes for a
  heading is the heading of a block or a line that a body quotes. The file is read before it is written again, so the invariant `ThreadInv` is
  about the text as it is *read*: every Message-ID and sender in it comes from a mail or from a line that a mail quotes (`Traced`), a mail that
  cannot be mistaken for another is there (`ReadBack`), once (`Once`) and in its place (`Ordered`), the last sender that is named is that of one
  of the latest mails (`LastOne`), and the file claims its key, wherever else a key is named in it (`Identified`). `ReadBack` alone is not inductive:
  `Traced` is why a mail that is new is not dropped as one that is known, and `Once` why what has the key of a mail is that mail when the file is written again.
  `WorkspaceProofs` uses these proofs through an instance of `ThreadTextProofs` (`Texts`) with the registers of the part; `SameThread` says that it has the
  definitions of the instance that is checked.
- *Drafts.* `DraftInv`: a draft has one of the two formats, for which each reader is shown to agree with each writer. The mark of a
  sent draft needs a single status line above the body, as `MarksOnce` says.
- *Posts.* `EscapedIsShown`: LinkedIn shows an escaped text whole and unchanged. It rests on where backslashes stand in an escaped text
  (`EscapesAlternate`). `WordsStay` and `StrippedHasNoMarkers`: stripping takes only characters that can be of a marker and leaves neither a backtick nor
  a bold marker, also none that comes about when something between two asterisks goes. `PostInv`: the images that are uploaded are the first of the draft, and a post shows the body it was last given.

The proof showed which hypotheses these properties need, and TLC the counterexamples without them. No other mail may have the Message-ID of a
mail, or quote it as metadata; the last sender is told only if mails quote what was written before them; a body with an empty `Thread ID` line makes
the file lose its key at the next merge. They are stated in `Unmistakable`, `QuotesArePast` and `NoBlanks` of `ThreadText`.

### Techniques

Three techniques recur. Where a proof wants induction over the natural numbers (the first unknown segment, the block before another, the last event
of a set of minutes), it takes the least or greatest element of a finite set of numbers instead (`Least`, `Greatest`, from the well-foundedness of `Nat`
or from the theorems on finite sets). An INSTANCE has its own copy of `Cardinality` and `Max`; they are shown equal to the library's first. And the laws of
sequences that are needed (`Spliced`, `Inserted`, `BytesJoin`, `EncodeJoin`) are stated once, for all sequences.

`FilesAreKept` (topics) and `ContactsAreKept` (contact sync) are about one mailbox; with two the violation runs refute them. Both have edits, kills and cut writes
at every point, and name the cases in which the code loses a text even so (section 5).

### What is only model-checked

- Liveness: `CheckpointedIsFinished`, `DueIsSent` and `EventuallyDelivered`, since liveness under fairness is outside what the prover does.
- That the definitions by positions, with which texts are read, are what the loops of the code compute, beyond the mails, drafts and bodies of the run. The loops
  themselves would need induction over data, which is out of reach.
- The types of all registers of a part: each invariant types only what its argument needs. The violation runs are counterexamples and need no proof.

## 5. What is abstracted, and what is left out

General:

- Wording, layout and contents: a mail, a token or a draft is a value; a frontmatter is its status and the presence of an
  id, except in `ThreadText` and `DraftText`, which are about lines.
- The order in which the scheduler takes due items (by date) is left open. Dry runs change nothing and are omitted.
- A social draft starts without `post_id`, and the operator follows the printed advice.
- Mail: in `MailSync` each mail is a conversation of its own and lies within `sync_days`; merging a message into its file is one
  step; the Gmail history is kept per label; one output directory; the state file can be read. One `corky sync` runs
  beside the watch: with two, they share one record per account in the run log, and `CrashedIsResumed` does not hold
  (listed as a hazard). `Conversations` has the files, and one process at a time merges into them.
- Files: `.sync-state.json` and `tokens.json` are replaced by rename under `flock`, as on unix.
- Tokens: in `TokenStore`, scopes and refresh tokens are part of the key; `GoogleLogin` has them for one key.

While the code was modelled, the following was met. The modules contain it, and the properties are stated so that they
say what holds beside it; a property that excludes a case says so in its comment.

- **Conversation files.** A thread without a subject cannot be read back, so each merge forgets the mails before it, although
  `SPEC.md:1131` says that merged messages are never dropped. A mail without sender becomes part of the body before it. A
  mail without `Date` sorts first and is dropped at the next rewrite. The last `Thread ID` line decides when a file is
  parsed, the first when it is looked up. A heading quoted in a body passes for a mail. A body with a blank `Thread ID` line takes the file's key away. Mails of one second without Message-ID
  are taken for one. When a reply arrives through Gmail before its thread has an alias, the thread is split (`SPEC.md:402`). Refetching a
  merged thread drops mails that only IMAP had (for a selected mail this is not refused either when its thread came by IMAP first), and a crash between its removal and the merge loses the file. `sync routes` copies
  over another conversation of the same name. An alias with a comma is split on the next read.
- **Drafts.** `update_draft_status` replaces the first status line while the parser takes the last: a legacy draft with two
  goes on looking unsent and is sent again. Migrating a file without `---` drops its body. `draft validate` wants a heading
  even when the YAML has a subject. `draft send` drops `cc` and never looks at the status. A cut write leaves a cut body.
- **Configuration.** `add-label` reports success for an account without a `labels` array. A crash after the
  directory is made causes the rerun to refuse. A killed write can leave an empty `.corky.toml`. Writers take no lock
  (`contact.rs:52-57` says so). `rename` takes names as given while directories are lower case. A `rename` killed after `git mv` cannot be rerun. A
  sync that is under way makes the directory of a removed mailbox again.
- **Mailbox sync.** `sync_one` pushes only after a commit of its own: after a rejected push the next sync finds a clean tree
  and leaves the commits where they are until something else changes (`mailbox/sync.rs:227-248`).
- **Posts.** `linkedin.rs:33-35` says that the markers of bold, italics and code are stripped; the code takes backticks and `**` only, so a post shows the
  asterisks of `*a*`. `PostIsWhole` states what is left of the promise: no backtick, no bold marker, and every other character.
- **Contacts.** A sync takes no lock: an edit made between the comparison and the write is overwritten. `write_and_set_mtime` truncates the file, writes it, and sets
  its time after that; killed, or with a full disk, it leaves an empty file with a newer time. The next run sees a conflict which the empty file wins, so that the newest
  edit is lost, with one mailbox too. `NewestWins` leaves out these two cases by `lost`, and only until the next edit between two runs; a run that breaks off
  between the write and the time, or before the hashes are saved, it includes. A text put back to what the last sync saw counts as not edited, so an older edit of the other side wins; `Edit`
  restores a text only when nothing waits for a sync. A push killed before it saves makes the contacts twice; `delete` leaves the mapping; a save
  overlays the entries of others that have changed (`SPEC.md:850`).
- **Topics.** An edit of the target between the comparison of the times and the copy is overwritten. A copy that is cut leaves an empty file that is newer than
  the whole one and replaces it in the next sync. `NoOlderText` names both as exceptions.
- **Filters.** A push that fails after its deletions leaves Gmail without filters. `check` compares criteria only.
- **Logins.** `merge_scopes` claims too much after a revocation; the non-interactive path returns a token without looking at its scopes;
  an answer without scopes is taken to have those that were asked for;
  the former entry is read before the port is bound, or another taken in its place where that is allowed. `social auth --profile` writes `[profiles]` to `.corky.toml`, which
  hides the whole of `profiles.toml`; entries made by logins have no handle, so that two are reported as duplicates.
- **Sheets and documents.** The snapshot has formatted values. A second push that fails overwrites the `.bak` of the first, also when the write of the new one is cut. An edit
  between snapshot and clear is lost, and so is the tab when the clear is carried out but not answered. Running an upload again
  makes a second copy. Text inserted at the front of a document during a write is deleted and the old tail stays.
- **Calendar.** `create` without an answer, run again, makes two events. `check` counts an all-day event as the whole range (`Clamped`) and overlapping events twice and sees 50 events at
  most, `delete` lists 25 at most.
- **Watch and upgrade.** A comment gives 64 as the cap of the backoff, the exponent's cap makes it 32. The breaker counts panics, not errors of the
  login. A Ctrl-C during an upgrade is lost by the `exec`. `upgrade::run` succeeds although every strategy failed, so the same
  binary is started again every hour; so does a crates.io that gives no version. Where the rename fails, the new program is copied over the old one, which is truncated
  first: broken off there, no program is left (`StaysRunnable` leaves this out, by `cut`, and two upgrades at once). On Linux `current_exe` names a deleted
  file once the program has been replaced, so that the `exec` fails and the daemon goes on as the version it was.
- **Videos.** The `Range` of a 308 is ignored. When captions fail after the upload, the draft is marked failed without `post_id`, and
  publishing again uploads a second video.
- **Transcription.** Speakers of the first chunk need not keep their numbers, although `diarize.rs:289` says so. Overlapping model
  downloads of which one is broken off can leave a gap; a short body without `Content-Length` is accepted.
- **Imports.** Two messages of one sender within a second are one. Groups of SMS are sorted by the text of their dates. Telegram's JSON and HTML
  exports give one chat two keys.

Not modelled: the parsing of mail and of export formats, cleaning of bodies; search,
and the commands that only list (labels, tasks, sitemaps); `init`, command line, help and `doctor`; git and GitHub themselves;
decoding of audio, the models, notifications. They are pure input and output, or external.

## 6. Plan

Done: `SocialPublish`, `EmailDraft`, `MimeBody`, `DraftText`; `KeyedTokens`, `TokenStore`, `GoogleLogin`, `ServiceTokens`, `SocialLogin`;
`SyncState`, `MailSync`, `Conversations`, `ThreadText`, `Imports`; `WatchLoop`, `Upgrade`; the modules of contacts, mailboxes, Google and transcription.

All safety properties of the passing runs have their theorems (section 4). Next:

1. `MailSync` with two `corky sync` processes: which weaker form of `CrashedIsResumed` holds, as an invariant and a theorem.
2. The commuting of labels in `SyncState` (a save of one label leaves another's resolution alone) as lemmas of their own.

After that: two processes that merge into one conversation file, with `ThreadText` for the contents.
