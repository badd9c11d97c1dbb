# max-cli, modelled and proved

`max-cli` is a command line, an MCP server and a background server (`max serve`) for the MAX
messenger. This directory holds TLA+ modules of the parts of it where the order of things matters,
the TLC configurations that check them on small instances, and TLAPS proofs of what holds on every
instance. Every definition is translated from the code; `PROJECT.json` names the lines.

```
tlc -workers 2 -config MCSendGuard_hour.cfg MCSendGuard     # a run
tlapm SendGuardProofs.tla                                   # a proof module
```

## The system

| Component | State it keeps | Operations | What is hard |
|---|---|---|---|
| send guard and journal (`src/src/sends/`) | one file of lines per profile, a lock file beside it, the reservation of a write under way | `check`, `record`, `entries`, `locked` | several processes at the limit; a crash or a lost answer between the reservation and its outcome; repeats with a `cid`; messages scheduled into another hour |
| permissions and recipients (`config.ts`, `sends/`, `server/`) | settings and a list of recipients, in two files; what a server started with | ask, edit, forward | settings that change under a write; a server that has to read the write back from a request |
| `MaxClient` (`client.ts`) | the login, the wire, the cache handle | connect, send, forward, edit, delete, react, history, inbox, review, chat and folder changes | one retry with the same `cid`; an answer that never comes; a change beside the phone |
| connection (`protocol/connection.ts`) | the socket, `#seq`, `#pending`, `#lastPush` | `open`, `invoke`, `close`, pushes, the loss | late answers and timeouts over a seq that wraps; pushes sent again; an end while requests wait |
| frame codec (`protocol/`) | none | an LZ4 block and back | lengths at their limits; blocks another encoder made |
| `max serve` (`server/server.ts`) | the listener, the client, `#up`, `#retry`, `#refresh`, `#stopped`, the sockets, `#seen` | start, stop, connect, retry, refresh, forward, broadcast | logins started by timers, drops and pushes, that overlap with each other and with the stop |
| commands over the server (`server/server-connection.ts`, `server/start.ts`) | a socket, pending requests, a starting lock, a refused mark | ask, fall back, start a server, replace an old one | two servers of one profile; answers split over packets, late, or to nobody |
| message cache (`cache/`) | SQLite: messages, the stretches read | store, list, forget, back up, export | pages of history that race edits and a clear; messages of one millisecond |
| contacts and chats (`cache/store.ts`, `resolve.ts`) | SQLite: dialogs, people, the sync marker, the file's version and index | delta login, list, search, find by name | two logins that cross; a list read page by page beside them; a file two versions open |
| inbox and review (`commands/`) | a point per chat, in files | read what is new, save the point | a cap or a page that hides what the point then passes |
| session state (`session/`) | a JSON file, the keyring | sign in, rotate, end, start | processes that read, log in and write back under one another |
| browser login (`session/browser.ts`) | a browser process, a temporary profile | open, poll, clean up | signals and deadlines at every wait |
| MCP server (`mcp/`) | one held client, a queue, confirmation forms | use, release, confirm | idle and age limits against queued calls; a form sent twice or for another client |
| run records (`runs/`) | a directory of records | start, note, keep, prune | a command that dies; days that pass under it |
| files and speech | files beside their partials | download, install | a stall, a death, two processes at one name |
| installing, diagnosing, reporting | none | one-shot | not modelled |

A command checks its write with the guard, asks its wire to send it and records the outcome. The
wire is a connection of its own, or `max serve`, which checks again, reserves, sends and records.
The server's one connection carries every command's requests; its pushes go to the watchers. An
agent's calls go through the MCP server's queue to one held client, which is such a command.

What makes each part correct:

- the guard never lets an hour pass the limit, never forgets a message that went out, and a command
  never says "failed" of one that was delivered;
- no write goes out that the settings and the list forbid, and nothing an owner confirmed is done
  to another chat, at another time or twice;
- a connection settles every request with its own answer or an error and hands on every push once;
  a watcher hears of a message in the order it happened;
- the server always finds its way back to a connection, begins one login at a time and none that is
  not needed, and is the only one of its profile;
- what the copy of a chat calls read is whole, what an export leaves out is told, and a point that
  is saved has passed nothing unseen;
- a session is its account's own; a login leaves no profile, page or connection behind;
- a file has its name only when it is whole.

## The modules

A component has a module; MC modules put those together that one run checks.

| Module | Models | Its variables in the code |
|---|---|---|
| `SendJournal` | what journal lines mean to the limit: `entries`, `countsTowardLimit`, `weightOf`, `withinLimit` | none; a journal is a sequence of lines |
| `SendGuard` | every guarded write of a profile, from the command typed to the outcome recorded, on its own connection, over the server, or fallen back | `journal` is the file; `reservation` the guard's variable; `tries` the retry of `#deliver`; `delivered` what MAX did |
| `PlaceCounter` | what the lock promises: places read and taken in one step | - |
| `JournalLock` | the lock file, system call by system call, each of which may be the last, or may be refused its file | `lock` is the file, `pc` where each process is in `locked` |
| `MaxServer` | the life of one `max serve` | `client`, `resume`, `timers`/`retry`, `refresh`, `up`, `stopped` are the private fields; `phase` and `by` the calls of `#connect` under way |
| `Connection` | one WebSocket | `seq`, `pending`, `lastPush`, `closed`, `socket` are the fields; `timers` the requests whose timer runs |
| `LocalSocket` | the lines between a process and the server: ids, timeouts, reconnection | the pending map, the id last given, what each socket carries |
| `Frames` | a payload through its LZ4 block and back, and blocks of other encoders | none |
| `Transfers` | downloads and the install of a speech model | the partial files and the named ones |
| `MessageCache` | the copy of a chat: reads page by page, edits, clear, backup, export | the tables of messages and of stretches, and where each reader is |
| `ContactStore` | logins that bring only what changed, and their merge | dialogs, people and marker of the store |
| `CacheFile` | the file itself: made, upgraded, rebuilt, opened and searched by two processes | `db` is the file |
| `NameLookup` | chats by page and by name, beside logins | the listed rows, the marker a page starts from |
| `InboxReview` | `inbox` and `review` over messages that keep coming | the points saved |
| `OwnerWrites` | what an owner changes that is not a message: folders, sessions, profile, chats, reactions, and the line each leaves | MAX's folders, the journal lines, where each write is |
| `Permits` | what may be written, judged by the command and by the server | the settings and list files; what the server started with |
| `McpHost` | the calls of an agent over one client | `queue` is `#queue`, `held` is `#held`, the idle timer; `issued` the nonces, `forms` what each form showed and sealed, `clock` the minute |
| `ProfileSession` | the token and the account of a profile, and all who write them | the state file, the keyring, what each client holds |
| `SignIn` | the ways to a token: QR, SMS, password, a page of the browser | where the command is, what it has open |
| `BrowserLogin` | `tokenFromChromium`, its shutdown and its signals | the browser, the temporary profile, the handlers |
| `ServerStart` | one server per profile: the starting lock, the bind, replacing, refusing, signals | the socket path, the lock, the mark; `deaf` the servers whose `#stopped` was set before they had a listener |
| `PushRelay` | a push from MAX to the watchers, over logins that overlap | `#handing`, `#seen`, the early pushes |
| `LiveLogin` | the login a server hands out | the chats of the login, the marker it resumes from |
| `RunRecords` | the record of a command's run | the directory of records |
| `Settings` | what commands change in the configuration file | the file |

`MCSendGuard` and `MCJournalLock` add symmetry, `MCNameLookup` titles. `MCWaits`, `MCWire`,
`MCProfile` and `MCHost` are each a sum: a variable `part` is chosen at the start, the parts share
no state, and a behaviour moves one of them while the initial states of the others are pinned to
one. The modules named `...Proofs` hold the theorems. Each mapped module also has a few operators
called mutants: a definition with a plausible mistake, kept to show that the property named beside
it in `PROJECT.json` notices.

How a send goes through `SendGuard`: `Type`, `CommandCheck` (the command's own guard, reserving on
its own connection), `ServerCheck` (the server's guard), one of `MaxAnswers`, `MaxRefuses`,
`MaxNotReady`, `NoAnswer`, then `Record` or `RecordFails`. `Crash` may come anywhere. `NoAnswer`
covers a lost request, a lost answer and an answer too late; the retry is `tries = 2`.

Abstractions worth knowing:

- In `SendGuard` the kinds of write are the classes the guard tells apart; a pin that notifies is an
  "edit", a new group or added people a "delete" (both weigh a count), anything silent a "reaction".
  What `permitted()` refuses, and a lock that is not to be had, is one nondeterministic refusal;
  `Permits` has the first, `JournalLock` the second.
- In `SendGuard` the check and its line are one step; `JournalLock` is about that step. Time there
  passes only between writes: an hour is far longer than one.
- A random reservation id is the number of the line that made it.
- In `MaxServer` a timer is set or not and fires at any moment; backoff and the minute between
  refreshes are left out, so every order of timers, drops and answers is covered.
- In `Connection`, 65536 requests take longer than any answer or timeout: `SeqIsFree` keeps a seq
  from coming round while its last request waits or is with MAX. A push that cannot be read and a
  request whose arguments are refused never reach the state and are left out.
- In `MessageCache` and `InboxReview` a message is its number in the order of posting; its time is
  `TimeOf`, which several may share, and its text the version of its last edit.
- In `Frames` the constants of LZ4 are parameters, so that short payloads reach every length code, and
  the hash of the table is any function: which earlier bytes a place remembers is what it decides. A
  payload is no longer than the 24 bits of a frame's length tell.
- In `McpHost` a write's tool, text and options are its wording; its chat and its time are told apart,
  because both may mean something else when the owner agrees. The clock counts minutes, as `sendTime` does.
- In `JournalLock` a body takes less than the ten seconds a lock is good for: a lock grows old only when
  its maker has ended.
- `raced`, `spoilt`, `crossed`, `cut`, `unordered`, `overlap`, `overlapped`, `late`, `torn`,
  `overtaken`, `buried`, `outrun`, `off` are history, no variable of the code: they remember that something
  happened which a property then makes an exception of. Three are also read by actions. `spoilt` is the
  recorder's own flag as well: it writes no more events after one failed. In `ContactStore` no command
  or clear begins once `crossed` or `cut` is set (`Going`); those under way go on. And the `host` run moves
  no server once `raced` is set: what the exceptions lead to is not counted out. The theorems about
  `ServerStart` have no such limit.

## The runs

| Run | Configuration | Bounds | Shows |
|---|---|---|---|
| `send_hour` | `MCSendGuard_hour` | 3 commands, 2 chats, limit 1, one instant; repeats, uploads, refusals | two commands racing for the last place while a third repeats the cid of an unknown outcome, in the same chat or another, on both routes, with crashes and a journal that cannot be written: `HourlyLimit`, `HeldWhileAsking`, `DeliveredMessageCounts`, `ToldIsTrue` |
| `send_hours` | `MCSendGuard_hours` | 3 commands, limit 2, weights to 2, an hour of 2 ticks, 2 ticks and what is scheduled one ahead; the cache may fail | windows that overlap, filled from both sides: `HourlyLimit` |
| `waits` | `MCWaits` | 2 processes, both may die, and no lock need be removable, 3 pauses; 1 command, 3 failures, 2 pushes that cannot be followed, refusal, stop | the lock excludes, is the counter, and every check ends; the server has a way back, begins only logins it needs, one at a time, and connects again: `MutualExclusion`, `ImplementsCounter`, `EveryCheckEnds`, `WayBack`, `NoNeedlessLogin`, `WaitsForLogin`, `ConnectsAgain` |
| `wire` | `MCWire` | seq modulo 3, 4 requests, 4 pushes, each repeated up to one push later; 2 requests over 3 local sockets, 2 drops; payloads over {0,1} to 13 bytes, whose blocks may grow twofold, foreign blocks to 4; 2 processes, 2 attachments of 2 chunks, 3 fetches, 1 redirect | `OwnAnswer`, `EverySettles`, `PushesOnce`, `OwnLine`, `FramesReturn`, `NamedIsWhole`, `NothingReplaced` |
| `profile` | `MCProfile` | 4 messages of which two share a time and one of these is edited or deleted, pages of 3, 2 readers, 2 reads; 2 commands, 2 dialogs, 3 logins; 2 runners, 3 chats, 4 posts, 2 runs; 2 owners, 5 kinds of write; 2 processes on one file; 3 chats listed a row a page | `CopyTellsTruth`, `EditsStay`, `LoginsMergeWhole`, `PointsLoseNothing`, `OneTrueLine`, `OnlyCrossedEditsLost`, `FileAnswersTruly`, `PagesAreTheList` |
| `host` | `MCHost` | 2 calls over 2 clients, a delay and a time in 3 minutes, forms good for 1; 2 accounts, 2 workers, 3 errands; 3 pushes over 3 connections; every kind of write asked once, 2 edits of the settings; 2 polls, 2 signals; 3 servers, 2 callers; 2 runs, 2 notes, 2 days; 3 passwords; 2 settings changes; 2 chats, 3 moments, 2 logins | `ConfirmedOnClientHeld`, `SessionIsOurs`, `HeardInOrder`, `PermitsObeyed`, `ProfileGone`, `OneServer`, `RunsTellTruth`, `LoginLeavesNothing`, `ChangeIsWhatWasSaid`, `SnapshotTrue` |

`wire`, `profile` and `host` also check the types of their parts (`TypeOK`).

These end in a violation, each against a sentence of the docs or a comment:

| Run | What the code does |
|---|---|
| `serve_unheard` | A server that loses its connection while it reads the chats LOGIN left out keeps a dead client and never reconnects, against "Если MAX оборвал связь, сервер подключается снова" (`docs/usage.md:599`). |
| `upload_places` | A message whose upload is not ready takes a place each time it is asked again, against "that is one message" (`server.ts:490`). |
| `lock_steal` | A stale lock removed by name may be a fresh one, against "two sends at the limit must not both read 'one left'" (`journal.ts:82`). It takes three processes, one of them dead, at one moment. |
| `review_pages` | A chat with more new messages than two pages is cut, and the review says it is complete, against "misses nothing" (`client.ts:1265`). |
| `inbox_buried` | A message that was there at the login is pushed off the inbox's page of its chat by one that came after, and the saved point passes it, against "each message shows once" (`commands/inbox.ts:17`). |
| `quiet_guess` | A login writes the dialogs it brings without their names and moves the marker past them; the next command given a name finds only the group that has it and takes that, against "must not quietly take" (`resolve.ts:10`). |

Why the bounds are enough: the limit is judged pairwise between a check and the lines before it, so
three commands give a repeat, its original and a rival; two processes and a dead one's lock are every
role `locked` has but the second thief, which is `lock_steal`; three failures let a drop, a failed
retry and a loss under a refresh all happen to one server; with four requests over three seqs both
numberings wrap; four messages of which two share a millisecond give a page that begins, ends or is
cut inside them; three servers are one to replace, its replacement and a rival; three minutes let a form be shown,
answered later than it was shown and lapse. The proofs cover what larger instances would.

`CHECK_DEADLOCK FALSE`: commands end, a server that has stopped does nothing more, and the bounds on
the environment run out.

**Fairness.** `JournalLock`: a living process goes on with its loop, nobody is owed a crash.
`MaxServer`: every request of a login has a timeout, and timers fire, so a login settles and a timer
that is set is followed by its login; nobody has to ask, drop, refuse or stop. `Connection`: a
request's timer fires unless cleared. Nothing is assumed of MAX, the network or people.

**Exceptions.** Several properties grant what the code grants or gets wrong, and history variables
remember it. Each is raised only by a step that is the exception, and the comment of the property
says what is granted:

- `OneServer`, `raced`: a start slower than the 30 s of its lock; two commands that both found the lock
  of a crashed start too old, of which the second removes the one the first has made; a stop slower
  than the next bind; `max serve` typed while another starts; a deaf server (told to stop before it
  had a listener) replaced by hand.
- `NoNeedlessLogin`, `overlap`: the connection was lost with a background login due or under way.
- `EveryCheckEnds`: a process that finds a stale lock and cannot remove it, for ever.
- `LoginsMergeWhole`, `crossed`: a row that is counted on was put back: by a listing, whose rows are older
  than another login's merge, or by a late login while another was under way that had been asked for from
  the later marker; or a clear met a command, or stopped short. `cut`: a login's chats were not all
  read. Both are exceptions of the marker alone. `unordered`: people whose row, or whose chat's, was
  written since the order was derived; a late login that puts rows and marker back is no exception.
- `ConfirmedOnClientHeld`: a delay is reckoned again when the owner agrees, and comes to a time later than
  the form showed, by no more than the minutes a form is good for.
- `SessionIsOurs`, `crossed` (of `ProfileSession`): an account forgotten or set up beside another process.
- `HeardInOrder`, `overlapped`: MAX has pushed to two connections at once. `ProfileGone`, `late`: a signal
  after the browser's handlers were taken away. `RunsTellTruth`, `spoilt`: a write of a record
  failed. `CopyTellsTruth`, `torn`: a clear met a reader. `ChangeIsWhatWasSaid`, `overtaken`: another
  process saved since the read. `PointsLoseNothing`, `buried` and `outrun`: messages hidden from an inbox or
  past the pages of a review, the two violations above. `SnapshotTrue`, `off`: counts and last
  messages a login does not follow.

## What is proved

For every value of the constants, from the assumptions each module states:

| Theorem | Says | Under |
|---|---|---|
| `SendGuardProofs!TypeCorrect` | `TypeOK` | - |
| `SendGuardProofs!PlaceHeldWhileAsking` | `HeldWhileAsking` | - |
| `SendGuardProofs!DeliveredIsCounted` | `DeliveredMessageCounts` | the cache does not fail, nobody falls back |
| `SendGuardProofs!LimitHolds` | `HourlyLimit` | no cid is repeated, nobody falls back |
| `SendGuardProofs!LimitHoldsWithRepeats` | `HourlyLimit` | nothing is scheduled ahead, nobody falls back |
| `SendGuardProofs!AnswersAreTrue` | `ToldIsTrue` | the cache does not fail |
| `WaitsProofs!LockExcludes`, `!ReadStaysCurrent`, `!LockImplementsCounter` | `MutualExclusion`, `SeenIsCurrent`, `ImplementsCounter` (refinement of `PlaceCounter`) | nobody dies, and who made the lock can remove it: `MaxCrashes = 0`, `~UnlinkFails` |
| `WaitsProofs!CommandsWaitForLogin`, `!NeverStranded`, `!LoginsAreNeeded` | `WaitsForLogin`, `WayBack`, `NoNeedlessLogin` (of each step) | - |
| `WireProofs!ConnectionTypeCorrect`, `!PushesAreHeardOnce` | `ConnectionTypeOK`, `PushesOnce` | at least 3 seqs, a repeat within half of them: `SeqModulo >= 3`, `2 * Repeats <= SeqModulo + 2` |
| `WireProofs!AnswersAreTheirs` | `OwnAnswer` | - |
| `WireProofs!SocketTypeCorrect`, `!EachGetsItsOwnLine` | `SocketTypeOK`, `OwnLine` | the first: a process makes finitely many requests |
| `WireProofs!TransfersTypeCorrect`, `!WholeUnderTheirNames`, `!DownloadsReplaceNothing` | `TransfersTypeOK`, `NamedIsWhole`, `NothingReplaced` (of each step) | - |
| `FrameProofs!FramesTypeCorrect`, `!PayloadsReturn` | `FramesTypeOK`, `FramesReturn` | the second: a payload that may be decompressed at all, `Longest <= MaxDecompressed` |
| `MessageCacheProofs!CacheTypeCorrect`, `!NoEditUndone`, `!CopyIsTrue` | `CacheTypeOK`, `EditsStay` (of each step), `CopyTellsTruth` | - |
| `MessageCacheProofs!LookupTypeCorrect`, `!PagesShowTheList` | `LookupTypeOK`, `PagesAreTheList` | - |
| `ProfileProofs!OwnerTypeCorrect`, `!WritesLeaveOneLine`, `!EditsLoseOnlyWhatCrossed` | `OwnerTypeOK`, `OneTrueLine`, `OnlyCrossedEditsLost` (of each step) | - |
| `ProfileProofs!ContactTypeCorrect`, `!LoginsLeaveItWhole` | `ContactTypeOK`, `LoginsMergeWhole` | - |
| `ProfileProofs!FileTypeCorrect`, `!OpenFileIsTrue` | `CacheFileTypeOK`, `FileAnswersTruly` | - |
| `ProfileProofs!InboxTypeCorrect`, `!PointsAreSafe` | `InboxTypeOK`, `PointsLoseNothing` | - |
| `SessionProofs!SignInTypeCorrect`, `!LoginEndsClean` | `SignInTypeOK`, `LoginLeavesNothing` | - |
| `SessionProofs!BrowserTypeCorrect`, `!ProfileGoes` | `BrowserTypeOK`, `ProfileGone` | - |
| `SessionProofs!StartTypeCorrect`, `!OneServerListens` | `StartTypeOK`, `OneServer` | - |
| `SessionProofs!SessionTypeCorrect`, `!SessionOwned` | `SessionTypeOK`, `SessionIsOurs` | - |
| `SessionProofs!LiveTypeCorrect`, `!LoginHandedOnIsTrue` | `LiveTypeOK`, `SnapshotTrue` | - |
| `HostProofs!McpTypeCorrect`, `!OnlyWhatWasShown` | `McpTypeOK`, `ConfirmedOnClientHeld` | - |
| `HostProofs!PermitsTypeCorrect`, `!OwnerIsObeyed` | `PermitsTypeOK`, `PermitsObeyed` | - |
| `HostProofs!SettingsTypeCorrect`, `!SavedAsSaid` | `SettingsTypeOK`, `ChangeIsWhatWasSaid` (of each step) | - |
| `HostProofs!RunsTypeCorrect`, `!RecordsTellTruth` | `RunsTypeOK`, `RunsTellTruth` | - |
| `HostProofs!RelayTypeCorrect`, `!HeardAsItHappened` | `RelayTypeOK`, `HeardInOrder` | - |

Hardly any of these is inductive as the runs state it. What the proofs carry besides:

*The guard.* That a delivered message keeps a place depends on which reservation its line settles.
`PlacesInv` adds that lines are numbered and settle only earlier ones, that an open reservation is
one attempt's own and about its message, that a cid names one message, that an attempt whose request
is out holds a place or knows one nobody can settle any more (`PlaceInHand`), and that who can still
settle a delivered message's place will not call it failed (`DeliveredIsKept`). `LimitHolds` counts:
a line admitted by `withinLimit` leaves every window that contains it within the limit, because any
two lines of a window are within an hour of each other. A repeat takes no place:
where nothing is scheduled ahead `RepeatInv` keeps for every request that is out a place of its own
message within the last hour (`PlaceIsNear`), so the line that records it adds to no window that its
place is not already in. `ToldInv` is about the
end of an attempt: only unknown outcomes are repeated, so who is told "failed" never delivered.

*The lock.* `LockInv`: the file exists exactly while one process is between making and removing it.
With crashes this is false (`lock_steal`), and so it is of a lock nobody can remove, hence the
assumptions. From it every step of the lock is a
step of `PlaceCounter` or none.

*The server.* `ServerInv`: `#up` has settled exactly when there is a client, a login under way has its
connection, and no call of `#connect` is in the future. `WayBack` is then inductive for an account
whose chats LOGIN answers whole: no call is ever in the phase where a loss is not heard. `OneThingInv`:
until a connection is lost with a background login due or under way the server is at one thing: one
login, one timer while it has no connection, or the timer of a background login beside the one it
has (`AtOneThing`), and after a refusal it has stopped with none of them. So whatever timer fires finds
no login under way, and a connection exactly if it was the background's.

*The connection.* `RequestsInv`: a request that waits has its timer and its entry, and what MAX may
still answer under a seq is the request that last had it, because `SeqIsFree` lets no seq round
earlier. `PushesInv`: `#lastPush` is the newest push handed on, and what is repeated is behind it by
less than the numbering can hide; that is where the two inequalities come from.

*The local socket.* `SocketInv`: ids differ, lines are whole or begun, a line and a socket belong to
who asked, and to who waits an answer is still to come. `NumbersInv` counts: the last id given is the
number of requests that have one, hence the type.

*Frames.* A round trip is a proof by induction on a payload, which is out of reach; `PayloadInv` goes
round it. A block is cut at marks, each a place where a sequence begins and how many bytes of the payload
are written there: while `compressBlock` runs every mark but the last leads to another by a sequence that
lies in the block (`Leads`), and what is left behind the last is what `Encode` closes the block with
(`Closes`). `decompressBlock` is then always at a mark, with as many bytes of the payload as the mark says,
and what it reads there is that sequence (`LengthReads`, `LiteralsDecoded`, `MatchDecoded`). That a match
longer than its offset repeats the bytes before it (`PeriodRepeats`) is shown of a least byte that does
not. The arithmetic is that of the format: two nibbles fill a byte, and two bytes hold every offset,
`MaxOffset < (ByteTop + 1)^2`.

*Transfers.* `PartialIsWhatCame`: a partial file is exactly the chunks that came, so what is renamed
is whole; a name in use is never renamed over.

*The copy of a chat.* `CacheInv` is the largest. Each reader's `ReaderInv` says that the page in its
hands is everything between its ends, that what it has read so far reaches from where it began
(`ReadSoFar`, `Reached`), and what its last backup told was so (`ToldTruth`); `RangeIsRead` says of a
stored stretch that every message in it that is not gone is held. Messages posted or deleted
meanwhile only grow the sets these are about (`Grown`). The proof found that messages sharing a
millisecond at the seam of two stretches need an exception (below).

*Chats page by page.* `LookupInv`: no two chats share a time (`TimesTold`), one command at a time turns
the pages, and as long as no row changed what was shown after n pages is the first n pages' worth
of the list in its order (`PagesFit`); ranks, and the page that begins behind one, are lemmas about finite sets.

*Owners' writes.* `LineFits` goes by where the write is: what the journal, the server and MAX have of
it is fixed by that; `ReadFits` keeps that what a folder holds beyond what a command read was put in since.

*Logins.* `AllStored`: a marker, or one that a command is about to write, is behind rows that are
stored; a late login keeps that, because it puts back rows and marker together, unless another was asked for
from the later marker. The order of people follows the chats but for those `unordered`. `FileInv` says how far each
half-made or upgraded file is and that the index has the rows. `InboxInv` says that what an errand
has read, with what it could not, is everything between its point and where it will save.

*Sessions.* `SignInInv`, `BrowserInv` say what is open at each place of the body. `StartInv`: one
server starts at a time, by the lock or by hand, and nobody is about to take the socket of one that
listens; and a deaf server is never on its way out (`DeafGoOn`), so that it is always one that has its
socket, or that a start is about to give one.
`SessionInv`: tokens a process carries were taken by MAX for the account it read.

*The login a server hands out.* `LiveInv`: three lists are each told the truth, field by field, by what is
still on its way to them: the one the server holds, the one of a login under way, and the one kept to
resume from, whose chats MAX will not answer because nothing changed in them since. What two lists
share is pushed to both (`SharedTold`). Unread counts are counted, hence the lemmas on `Cardinality`.

*The agent and the owner.* `McpInv`: a form is spent once, and only the call at the head of the queue
holds the client. Each form shows the time its wording came to in the minute it was made (`FormsInTime`),
a call goes on to write only within `ValidFor` minutes of it, and carries what it showed, with the time
reckoned then (`Carries`). `PermitsInv` is about the time between asking and doing; the lemma `ReadBack` says
that the server reads back from every request the write its command asked about (the requests that
make and change a folder read alike, and forbid alike). `SettingsInv` ties what a terminal is about to write to
what it read. `RunsInv` says what a record holds at each place. `RelayInv`: until two connections are
pushed to at once there is one way for pushes, its stages in order with a deletion the last of its
message; and `#seen` has the last messages in their order.

Only model-checked, and why:

- `EverySettles`, `EveryCheckEnds`, `ConnectsAgain`: liveness under fairness, which the prover does not do.
- `HourlyLimit` where owners both repeat and schedule ahead: it is false there, by one (see below), which
  the instances of the runs do not reach.
- The `TypeOK` of the sums: it says of each part what the theorem about its type does.

## What the modules say besides

Facts found in these modules, by TLC or by a proof that did not go through, that no run claims:

*Sends.*
- A command built for the server that falls back to its own connection reserves nothing, so two of
  them can pass the limit (`Routes` with "fallback"); the comment in `sharedJournal` says as much.
- An unknown outcome repeated after a message was scheduled into its hour can pass the limit by one.
- A forward asks the guard without its cid (`client.ts:1058`), so at the limit its repeat is refused,
  although `docs/usage.md:386` advises it.
- With a cache that fails after MAX has answered (`CacheMayFail`), a command says "failed" of a
  delivered message and its place is released. So do adding, importing and deleting contacts.
- An edit, a deletion or a notifying pin whose answer was lost is journaled "failed" and stops counting.
- `docs/usage.md` says a scheduled message counts when it is queued; the code and `docs/security.md`
  count it in the hour it goes out.

*Server and wire.*
- `close()` of a connection that is still connecting takes away the listeners `open()` waits with:
  that promise never settles.
- A background login that ends while a retry is set makes the server log in twice; a drop during one
  can leave two retry timers, of which `stop()` clears the last (`server.ts:171`, `313`).
- Two commands that both find the starting lock of a crashed start too old: the second removes the one
  the first has just made (`start.ts:50`), and both start a server. The comment at `server.ts:556` says
  two commands do not start two.
- The signal handlers are there before the socket is (`serve.ts:66`): a signal in between sets `#stopped`,
  the server binds and logs in all the same, no later `stop()` does anything, and to a server started by
  hand it answers that it stops.
- A stale lock of the journal that cannot be removed is found stale again without a look at the deadline
  (`sends/journal.ts:95-100`): the check never ends.
- Two `#connected` calls at once make two sockets that share `#pending`. After `session end` and
  `start` under another account a held client's next request reaches the new account's server.
- A resumed login shares the objects of the chats it keeps with the one before: a message heard on
  both connections is counted unread twice, as is one that comes while the rest of a long list is read.
  An edited or removed message is counted as new (`client.ts:1536`). A deletion followed by a newer
  message is not asked anew although `server.ts:427` says so.

*The copy of a profile.*
- Three messages of one millisecond: a backup can say "complete" and miss the middle one, because
  stretches that end and begin there are taken for one. Found by the proof of `CopyTellsTruth`, whose
  `NotFirst` and `NotLast` except it; TLC agrees (`TimeOf` as <<1, 2, 2, 2, 3>>, pages of 2).
- A second check of the version under the lock compares with this program's alone: a file that a
  newer `max` upgraded meanwhile is rebuilt down (`schema.ts:248`). `max cache clear`, which the
  message for a newer file advises, opens the file the same way and fails.
- `chats.list` writes its chats a second time without deriving the order of people anew (`client.ts:287`),
  although it is to be "correct however the writes interleave" (`cache/store.ts:276`): after a merge that
  failed, or a clear in between, it lags until the next one.
- A row is written over a newer one (`putChat` compares no time): where a listing does it behind another
  login's merge, or a late login while a third asks from the later marker, the marker is ahead of the row
  until MAX changes that chat again. TLC needs twelve and fourteen steps.
- After a first full login of `messages list`, the list of contacts has only the people LOGIN named.
- An exact title does not settle a chat as `client.ts:295` says, though it settles a person.

*The agent.*
- A form shows what a delay comes to (`confirm.ts:84`), the seal binds the delay as it was written, and
  `max_messages_send` reckons it again (`tools.ts:424`): "in 30 minutes" goes out up to five minutes later
  than its owner was shown.

*Sessions.*
- A deadline during the password prompt leaves the process waiting at the terminal, against
  `deadline.ts:20`; a token issued as it fires may be kept after "timeout" was told.
- Ctrl-C after the handlers are removed leaves the browser's profile (`browser.ts:186`).
- Two processes that change the configuration, or the list of recipients, lose one of the changes.

## Not modelled, and the plan

Not modelled: installing, diagnosing and reporting, one-shot commands about the machine they run on;
parsing and printing; the conversions of what MAX answers (`domain/`), the shapes of requests
(`spec/`) but for the guards that read a write from them, msgpack, speech: sequential code that unit
tests cover. Two hazards have no property: `stop()` clears only the timer `#retry` names
(`server.ts:171`; what goes on after a stop ends with the process), and `account.update` sends the
first name of a login hours old (`client.ts:174`; no module has an account's names).

Next: the names of an account (`client.ts:174`) as a part of `LiveLogin`.
