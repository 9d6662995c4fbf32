# Verification of live-transcript-server

TLA+ models of the server under `src/`, checked with TLC on small instances and,
where it matters most, proved with TLAPS for every value of the constants.

- [1 The system](#1-the-system)
- [2 Modules and the code they model](#2-modules-and-the-code-they-model)
- [3 Runs](#3-runs)
- [4 Fairness](#4-fairness)
- [5 Proofs](#5-proofs)
- [6 Findings](#6-findings)
- [7 Not modelled, and observations without a run](#7-not-modelled-and-observations-without-a-run)
- [8 Plan](#8-plan)
- [9 How to run](#9-how-to-run)

## 1 The system

A worker transcribes live streams and posts them to the server; viewers follow
over WebSockets; admins steer a channel from a web page. Everything is kept per
channel. State is in SQLite (one writer, `BEGIN IMMEDIATE`), in media storage
(local disk or R2), and in memory (hub, change counter, notifier).

| Component | State | Operations | What is hard | What makes it correct |
|---|---|---|---|---|
| WebSocket hub `internal/ws/hub.go`, viewer connections `server/websocket.go` | clients, reserved slots, a send buffer and a `done` channel per client | Reserve, Unreserve, Add, Remove, Broadcast, TrySend, ReadLoop, writePump, Wait | handler, pump and broadcasters remove one client concurrently; slow and silent peers; shutdown | slots are exactly accounted; one closer; slow clients are dropped, never skipped; goroutines end |
| Stream lifecycle `server/lifecycle.go`, `handlers_worker.go`, `store/streams.go` | `streams` rows, storage folders | activate, deactivate, upsert of /sync, retention, background folder deletes | several calls without a transaction, errors that are only logged, restarts in between, sweeps and admins beside the worker | the live flag follows the worker; retention is bounded and spares live streams; viewers are told what is stored |
| Transcript and media `handlers_worker.go`, `store/transcripts.go` | `transcripts` rows with `media_available`, files | /line, /sync, /media, initial sync of a viewer | lost answers, abandoned requests, overlapping handlers, read-then-write windows | no holes; a flag means a file; no viewer misses a line; the server catches up |
| Long polls `notify/notify.go`, `handlers_events.go`; queue and restart flag `store/incoming.go`, `store/worker.go` | signal channel, change counters, `incoming_streams`, `worker_restart_requests` | Notify, Wait, Release, /events, /admin/poll, all writers of queue and flag | check versus park, counter versus commit, cursors of one-second granularity | no lost wakeup; pages get current data; signals are reported; shutdown ends polls |
| Admin API `handlers_admin.go` | none of its own | delete and edit a stream, VOD request, queue, restart, stop, membership keys | stale `is_live` check | see the tables it changes |
| Maintenance `maintenance.go` | none of its own | prune expired streams, remove orphans, expire queued URLs, worker alerts | probe storage, then delete | expired rows go |
| VOD builds `server/vod.go` | job registry, objects under `vod/` | start or join, merge, encode, upload, finish | two admins at once, stream edited or removed under a build, shutdown nobody waits with | one build at a time, a job ends with its build, artifacts are whole |
| Clips and trims `server/handlers_public.go` | temporary files, objects under `clips/` | look up a range, merge, encode, sidecar, upload; trim | missing media, failing steps, clients that leave | the clip has every line of its range; nothing stays behind |
| Media `internal/media` | goroutines, slots, download directory of a merge | parallel download, ordered append, cancellation; FFmpeg | order of results, error in one of many, waiting for everybody | chunks in order, bounded scratch space, nothing outlives the call, no deadlock |
| Discord bot `internal/discord` | session state | events, watchdog reconnect, webhooks | watchdog races the library | eventually connected |
| Storage, archive client, config, metrics, logging, command-line tools | files, counters | I/O | | |

Interactions: the worker's handlers write the database, then call
`Hub.Broadcast` and `bumpAdminChange`; a connecting viewer registers with the
hub, then reads the transcript; the bot and the admin page queue URLs that the
worker learns of through `/events`; VODs and clips are rendered from the files
and flags that /media leaves; sweeps run beside all of them. `PROJECT.json`
lists every hazard at its line with the properties that cover it.

## 2 Modules and the code they model

`PROJECT.json` ("map") gives the source lines of every definition.

**`Hub`** (abstract specifications: **`ConnPool`**, **`Feeds`**). One channel's hub with all
its goroutines: a wsHandler and a writePump per client, broadcasters, App.Close.
A lock region is one step. `Remove` is three (unlink under the lock,
`close(done)`, `conn.Close()`), shared by the three kinds of callers through
`stage`. The handler's program counter `handler` follows wsHandler and
syncClient line by line, `pump` follows writePump with its select. Messages are
the number of the Broadcast that sent them, so order and gaps can be told.
`ConnPool` knows only which attempts hold one of `maxConn` slots. `Feeds` is
what Broadcast promises: a viewer that is in gets every event since it joined,
one after the other; one that was too slow for an event is lagging, never gets
an old event and can only leave. The refinement mapping (`Delivery`) calls a
client lagging from the moment a Broadcast has found its buffer full, which is
before that Broadcast removes it: in between the client has a gap, and other
broadcasters may still send to it.

**`Lifecycle`**. The `streams` table of one channel: `rows`, `live`, `act`
(activated_time), plus `media`, `deleting` (background goroutines) and what
viewers were last told. A request is a record `req[r]` that holds what it read;
every database or storage call is a step, and can fail; the process can restart
between any two. Requesters are the worker (one request at a time, retried until
answered), an admin deleting a stream, and the pruning sweep. `Local` selects
retention by count or by probing R2. Activation time 0 marks a row that /sync
inserted.

**`Transcript`**. One stream: stored lines, availability flags, files; /line and
/sync handlers in `Slots`, a /media handler per line, viewers connecting. The
worker is external: it sends the next line, sends /sync after a 409, and may
lose an answer or abandon a request whose handler still runs. A line is its
number: text, segments and file ids are left out. What reaches a viewer is
queued in order and without loss, which is what `Feeds` states and `Hub` is
shown to implement.

**`LongPoll`**. The notifier, both long polls, the incoming queue and the
restart flags. A writing handler reads the clock, commits, bumps the counter,
notifies: four steps. A poll subscribes, checks, parks; of its signal channel
only "still open" matters. /events reads two values per channel, each its own
step. An admin page fetches /admin/info after an answer; the worker
acknowledges a restart with DELETE. A database call may fail in every one of
them. Time is in seconds, because the cursor is.

**`Merge`**. MergeRawAudio with its goroutines. `m[c]` is one call: `at` is
where the writer (the caller) is in its loop, `on` and `next` are the producer,
`chunk` holds what each downloader has done, `slots` the buffered channel that
bounds them, `cancelled` the context of the downloads, and `ctx` the contexts of
the callers. `disk` is what may be in the download directory: a chunk counts
from the start of its download until it is deleted, also when it failed half
way. `wg.Wait` is the guard `Quiet`. Every I/O call may fail, within `MaxFaults`.

**`Render`** (EXTENDS `Merge`). One stream and the requests that render it. A
request is identified with the call of MergeRawAudio it makes; a VOD request
that wins the claim goes on as the goroutine of buildVod. `req[r].at` names the
next step of the handler; every database read, storage call, ffmpeg run and
lock region is a step. `defers` are the deferred removals, carried out by
`Return`, with `job.finish` for a build. `job[r]` is the vodJob that `r`
installed and `registry` the one vodRegistry holds, so a job that was forgotten
still has its state. Beside the requests the stream changes: late media, the
admin's edit of the media type, activation, removal with and without the folder,
`App.Close` (which cancels the merges of builds and waits for none of them) and
restarts. `forgot` and `met` are history variables for two properties. A line's
file id is its number; an artifact is the sequence of chunks in it, beside the
sequence it was asked for.

The theorems about a module `M` are in `MProofs` (`HubProofs`,
`TranscriptProofs`, `MergeProofs`, `RenderProofs`, `LongPollProofs`,
`LifecycleProofs`); `OrderProofs` has the lemmas about sorted lists that
`RenderProofs` uses. Each model ends with the inductive invariant of its proofs,
as a conjunction of named parts. `MCHub`, `MCLifecycle`,
`MCTranscript`, `MCLongPoll` and `MCRender` the constants for TLC. Operators called "Faulty
variant" are the bugs the properties are tested against ("mutants" in
`PROJECT.json`): each property is violated when its variant replaces the
definition it varies.

## 3 Runs

Bounds are constants, named in the modules. Where they stop the environment
(no more lines, writes, clock ticks) the model may come to rest, so
`CHECK_DEADLOCK FALSE` is set there; the hub runs check for deadlock.

| Run | Instance | What it shows |
|---|---|---|
| `hub_slots` | 2 attempts, 1 slot, 1 broadcaster, buffer 1 | types, slot accounting, no leaked client, refinement of the pool |
| `hub_client` | 1 client, 2 broadcasters, buffer 2, 3 broadcasts | one closer, no silent gap, goroutines of a removed client stop, a disconnect frees the slot, Close ends, refinement of the feeds |
| `lifecycle_local` | 4 streams, 1 past stream kept, 2 faults (errors, restarts) | live flag, retention bound, announcements |
| `lifecycle_r2` | 2 streams, sweep and admin, 1 fault | expired streams are pruned, requests end |
| `lifecycle_reactivate` (violation) | 3 streams, no faults | an ended stream stays live |
| `transcript_table` | 2 lines, 2 handlers, 1 viewer, 2 faults of any kind | no holes, flags and files, no missed line |
| `transcript_catchup` | 3 lines, 3 lost answers or restarts | the server catches up for good |
| `transcript_stale_sync` (violation) | 2 lines, 1 viewer, no faults | a stale sync takes a line away |
| `transcript_media_lost` (violation) | 2 lines, 1 lost answer | acknowledged media loses its flag |
| `longpoll_pages` | 1 channel, page and worker, 2 writers, 2 writes, 1 error, 2 seconds | no lost wakeup, pages are current |
| `longpoll_signals` | 2 channels, worker, 2 writes, 1 error | signals are reported, polls end on release |
| `render` | 2 requests (VOD or clip beside VOD or trim), 3 lines, 2 slots, 1 change of the stream, 1 fault or crash besides an orderly stop | merge order, scratch bound, whole artifacts, clean TempDir, no rival build, no second copy but by overlap, nobody stuck, every request winds down |

Why the bounds are enough for the cases meant:

- Two attempts for one slot is the smallest contention; a broadcaster with a
  buffer of one makes every second message drop a client, while its handler and
  its pump may be removing it too, so all three callers of `Remove` meet.
  Two broadcasters are needed for two of them to have marked the same client;
  they are in `hub_client`, whose buffer of two holds a gap if one is made.
- Four streams with one kept make retention delete in two successive
  activations, with a fault inside either or both. `RetentionBound` counts the
  faults, since each may leave a row behind.
- Two lines are enough for a hole, a conflict and an overtaken /sync; two
  handlers for an abandoned request beside its retry. The catch-up run excludes
  "abandon": an abandoned /sync may commit after newer lines, which the next
  409 repairs only if there is a next line.
- Two seconds let a queue entry be older than the cursor and expire; one failing
  call reaches the half-done stop. Two writers are a write and an
  acknowledgement, or two writes, in one channel.

- Three chunks on two slots make the producer wait for the writer, and leave it
  waiting when the writer aborts; the third chunk is what a slot too many shows
  on. Two requests are the smallest contest for a claim, a rival build or a
  second copy; one change of the stream is a removal, an edit, an activation or
  late media at any point of both. The ranges are one below line 0, one
  backwards, one longer than `MaxClipSize` and a good one, which in half of the
  initial states misses the media of a line.

Writer, client, stream and handler symmetry is used only in runs without
liveness properties.

## 4 Fairness

Weak fairness on the steps of a goroutine, handler or sweep says that the Go
scheduler runs it and that the calls it makes return; it holds for every step of
the server's own code. Beyond that:

- `SF` on `PumpStops`: `select` chooses at random among ready cases, so a pump
  whose `done` channel is closed cannot pick the other case forever.
- No fairness on what peers do: `PumpWrote` (a peer may stop reading for good),
  `Ping`, `PeerLeaves`. `DisconnectFreesSlot` therefore starts from `gone`, and
  `CloseEnds` lets Close wait only for a pump that stays in a write for ever.
- `PruneStart` is fair because the ticker never stops; `ExpiredPruned` allows a
  bounded number of failures, and the sweep comes round again.
- The worker posts, retries and polls on (`WorkerRuns`, `MakeLine`, `SendLine`,
  `Wait`): its retry loop is the protocol the server's 409 and 208 answers rely
  on. Faults, new streams, deletes and clock ticks have no fairness.
- No fairness on a poll's timeout: `SignalReported` must be met by a wakeup.
- `Render` states no fairness. `NeverStuck` says instead that every request in
  flight has a step of its own that it can take without a fault, and
  `RendersWindDown` that each of its steps, faulty or not, takes it further on
  its way or uses up one of at most `5 * Len(files) + 1` steps of its merge. So a
  request that is scheduled ends, by whatever way. Both halves are proved.

## 5 Proofs

Every invariant a run checks is a theorem for all values of the constants
(`NeverStuck` in the form `AlwaysReady`, see Render below); so are both
refinements and the three action properties `RendersWindDown`, `NoLiveDelete`
and `AnnounceCommitted`. The
assumptions are the `ASSUME`s of the models (finite sets, positive capacities)
and, in four theorems about `Lifecycle`, the conditions named below. The
inductive invariants were also checked with TLC on the instances of the runs.

| Theorem | Property | | Theorem | Property |
|---|---|---|---|---|
| **`HubProofs`** | | | **`RenderProofs`** | |
| `TypeCorrect` | `TypeOK` | | `TypeCorrect` | `TypeOK` |
| `SlotsAccounted` | `SlotAccounting` | | `ArtifactsAreWhole` | `ArtifactsWhole` |
| `ClosedOnce` | `OneCloser` | | `TempIsClean` | `TempClean` |
| `NothingLeaked` | `NoLeakedClient` | | `JobsFollowBuilds` | `JobFollowsBuild` |
| `SlowMeansDropped` | `GapMeansDropped` | | `NoRivalBuilds` | `NoRival` |
| `HubImplementsPool` | `ImplementsPool` | | `CopiesAreOverlaps` | `CopiesOverlap` |
| `NeverBackwards` | (`FeedSorted`) | | `RendersInOrder` | `MergedInOrder` |
| `HubImplementsFeeds` | `ImplementsFeeds` | | `RendersBounded` | `ScratchBounded` |
| **`TranscriptProofs`** | | | `RendersReturnClean` | `NothingOutlives` |
| `TypeCorrect` | `TypeOK` | | `RendersEnd` | `RendersWindDown` |
| `NoHoles` | `Contiguous` | | `RendersNeverStuck` | (`AlwaysReady`) |
| `ViewersTold` | `NoLineMissed` | | **`LongPollProofs`** | |
| `FlagsCarried` | `MediaCarried` | | `TypeCorrect` | `TypeOK` |
| `MarkedIsStored` | `AvailHasFile` | | `WakeupsAreKept` | `NoLostWakeup` |
| **`MergeProofs`** | | | `PagesAreFresh` | `PageFresh` |
| `MergeInvariant` | (`MergeInv`) | | **`LifecycleProofs`** | |
| `MergeInOrder` | `MergedInOrder` | | `TypeCorrect` | `TypeOK` |
| `MergeBounded` | `ScratchBounded` | | `RetentionIsBounded` | `RetentionBound` |
| `MergeReturnsClean` | `NothingOutlives` | | `LiveIsWanted` | `LiveFollowsWorker` |
| `MergeWindsDown` | (`CallsWindDown`) | | `ViewersAreRight` | `ViewersAgree` |
| `MergeNeverStuck` | (`CallsReady`) | | `LiveRowsStay` | `NoLiveDelete` |
| | | | `AnnouncedIsCommitted` | `AnnounceCommitted` |

Properties in parentheses are not named in a run of their own: `CallsWindDown`
and `CallsReady` are the parts of `RendersWindDown` and `AlwaysReady` that
concern one merge, `FeedSorted` is what the refinement of `Feeds` rests on.

The arguments. In each module one lemma per part of the invariant, or per
action, shows that a step keeps it; facts about operators are lemmas of their own.

- **Hub.** `SlotAccounting` alone is not inductive: a second `Remove` of the same
  client would return its slot again. `IndInv` adds that a goroutine is inside
  Remove exactly when its program counter says so (`StageCoherent`), that a
  client not yet added has been touched by nobody (`FreshUntouched`), and that a
  client has at most one closer, after it left the list (`OneCloser`).
  `GapMeansDropped` needs `FeedFresh` beside it (a pump holds a message only
  while it writes it), that a pump which ends leaves no registered client
  (`NoLeakedClient`), and three facts about `Carries`: a message that is no
  broadcast may be put in or taken out anywhere, the next broadcast extends a
  feed, and the pump's steps leave the concatenation as it is.
  For the refinement of `Feeds`, a client that is in gets the next event because
  of `GapMeansDropped`; that property says nothing of clients being dropped or
  removed, whose feed may have gaps, so `FeedSorted` adds that no feed ever goes
  backwards. A write by the pump is then a `Deliver`, a Broadcast a `Publish`
  whose slow clients are the ones whose buffer was full, the unlinking step of
  Remove a `Leave`; every other step leaves the mapping as it is.
- **Transcript.** The four safety properties are strengthened with what handlers
  and viewers carry from an earlier read: `FilesFirst` (what will be marked
  available is stored), `CarryFresh` (what a /sync read covers all flags it may
  overwrite, except the raced ones) and `SnapCovers` (a snapshot that is read but
  not yet sent misses only lines that were told or are on their way).
- **Merge.** What is on disk is not bounded by itself: a chunk is there from its
  download to its removal, and only the window between writer and producer
  (`pos .. next - 1`) is. `Window` says that the slots taken are exactly that
  window, `Written` that the file has the chunks before `pos`, `Rested` that a
  call that returned has neither goroutine nor chunk.
  `StepsLeft` is the measure that every step of a running call lowers: three
  steps of the writer for each chunk it has not appended, one of the producer and
  one of a downloader for each chunk not asked for, and the return; it is
  `5 * Len(files) + 1` when a merge begins. That nobody waits for ever needs
  `Awaited` beside `MergeInv`: every chunk before `next` is or was fetched, and a
  producer that gives up early has seen its context end, in which case the
  writer's own wait ends too. `CallsReady` follows by cases on the writer: in
  `wait` its chunk is done, being fetched, or still to be asked for, and then the
  producer has a free slot, because the window is empty.
- **Render.** The merge is followed by a handler that trusts what it returned,
  so `ReqOK` says, for every point of a request, what it is about (`Stage`),
  which chunks it asked for (`Wanted`), how far its merge is (`Merging`) and
  what its deferred calls will remove (`Removes`). `Registered` (a build is the
  registered one or was forgotten) gives `NoRival`; `Met` carries the overlap
  from the time a request looked into the storage to the time it stores.
  `ArtifactsWhole` needs that a list of lines sorted by number with as many
  elements as the range has all of its lines; that is induction over a finite
  set, done in `OrderProofs` by a minimal counterexample, since the library
  states well-foundedness of sets and not only of operators.
  `RendersWindDown` orders the points of a request (`Phase`); a handler's step
  moves on in that order, a merge's step lowers `StepsLeft`. `AlwaysReady` is
  `NeverStuck` with the guards of the handler and of the merge (`HandlerReady`,
  `MergeReady`) in the place of ENABLED.
- **LongPoll.** `NoLostWakeup` speaks of parked polls, but a wakeup is lost
  earlier, while the check is under way: `WorkerInformed` says that what it has
  read so far it has reported, or a handler that committed after the read has yet
  to notify. For pages, `PageInformed` relates what was fetched to the counter
  the page was told: current as long as the counter is, no committed change is
  missing from it (`Unseen`) and no stop is half done (`Stopping`).
- **Lifecycle.** `Retained` counts the rows together with the worker's own stream
  (`Held`), because /sync may bring that row back after a delete; an activation
  may be one over until it has purged. `Ordered` (activation times tell rows
  apart and the worker's stream is the latest), `OneLive` (what is live at each
  step of a request) and `Told` hold while nothing disturbs the worker
  (`Undisturbed`). The conditions of the four theorems are: local disk (`Local`;
  R2 retention and its sweep drop streams by their files); for all but
  `AnnouncedIsCommitted` a worker that never goes back to an older stream
  (`~Reactivates`; `lifecycle_reactivate` shows why); and no admin delete, which
  checks `is_live` and deletes later (section 7). `lifecycle_local` satisfies
  them. That no call has failed is part of the properties themselves.

Only model-checked: the liveness properties (`RemovedClientStops`,
`DisconnectFreesSlot`, `CloseEnds`, `ExpiredPruned`, `RequestEnds`, `CatchesUp`,
`SignalReported`, `ReleasedPollsEnd`) and the ENABLED form of `NeverStuck`:
liveness under fairness and ENABLED are outside the prover's reach. That the
guards in `AlwaysReady` are those of the actions is read off the actions; on the
instance of `render`, whose invariant is the ENABLED form, TLC finds that both
hold.

## 6 Findings

| Run | The code | The text |
|---|---|---|
| `lifecycle_reactivate` | `UpsertStream` keeps the `activated_time` of a stream activated again, so `deactivateStream` finds another row as the most recent one and answers 208 without ending it | "server updates live to false" `README.md:71` |
| `transcript_stale_sync` | the client is registered before the transcript is read, so a newLine may be queued before the older sync, which replaces the whole state at the viewer | "the current state is sent to the client" `README.md:77` |
| `transcript_media_lost` | /sync reads the flags and replaces the transcript in two calls; media committed and answered 200 in between is overwritten as unavailable | "a 200 always means the media is actually retrievable" `internal/server/handlers_worker.go:170` |

The passing properties `NoLineMissed` and `MediaCarried` say precisely how far
the last two go: a viewer is always *told* of every line, and a flag is lost
*only* in that window.

## 7 Not modelled, and observations without a run

Not modelled: the Discord bot (its hard part, reconnecting, is the state machine
of discordgo's session, which is not in the repository; a model would describe
the library, not this code) and webhooks; the public read endpoints and the GET
of a VOD's state (they change nothing); what FFmpeg does inside, file and S3
calls, HTML, configuration, metrics, logging (I/O); membership keys and worker
heartbeats (single statements that only feed a display); the command-line tools
(sequential, outside the server). Overlapping activations of one channel are not
modelled either: the worker has one lifecycle request in flight. A folder's
delete is one step, or leaves some kinds of objects when it fails; a render that
meets a half deleted folder fails at the first chunk it misses, as it does in an
empty one.

What the models take for granted and a reader should know:

- A database error in `activateStream` is answered 208, like a stream that is
  already live; the worker does not retry. A failing demotion is logged and the
  activation goes on. `LiveFollowsWorker`, `NoLiveDelete` and `ViewersAgree` are
  therefore stated for behaviours without failing calls.
- The admin's delete checks `is_live` in one call and deletes in another; a
  stream activated in between is deleted. The step is in `Lifecycle`.
- A row inserted by /sync has activated_time 0, counts as old, and gets none of
  the sweep's 24 hours of grace.
- R2 retention drops every other stream that has no files, also media type
  "none", which the sweep spares.
- A folder deleted in the background may belong to a stream that is activated
  again meanwhile.
- The worker's acknowledgement deletes the restart request unconditionally, a
  newer one included. The /events cursor is one second-granular number for all
  channels, so a URL may fall behind it unreported; the worker's periodic
  /incoming refresh covers that, as the code says.
- The TTL sweep, and a stop that fails half way, change the queue without a
  bump; `PageFresh` names both exceptions. A page whose /admin/info failed keeps
  the new counter with the old data, and overlapping refreshes in the browser
  may be rendered out of order; both heal with the page's slow refresh.

- writePump looks at the context between writes only and `WriteJSON` has no
  deadline, so "The pump exits when the client is removed or ctx is done"
  (`internal/ws/hub.go:121`) does not hold against a peer that stopped reading,
  and App.Close waits for it in Hub.Wait. `CloseEnds` says that this is the only
  way for Close not to end.
- `vod.go:31` says "Exactly one copy is ever produced per stream" and "the output
  key is fixed per stream". The key has a random id. A request that looked into
  the storage before another request's build ended, and claims after it, builds
  a second copy (`CopiesOverlap` shows that overlapping is needed); an edit of
  the media type between two requests adds one of the other format; a stream
  that is removed and comes back under a running build gets a rival one
  (`NoRival` names that exception).
- A claim made after `forget` stays in the registry of a stream that no longer
  exists, and a build that uploads after the folder was deleted leaves an object
  that no row leads to.
- A full VOD consists of the chunks listed when it was asked for: media that
  arrives late is not in it, and it is not built again while it exists.
- postTrimHandler does not remove the output of a Trim that failed; `TempClean`
  leaves that file out.

## 8 Plan

Done: Hub with ConnPool and Feeds, Lifecycle, Transcript, LongPoll, Merge,
Render, and the proofs of their invariants, action properties and refinements.
What would come next, in this order:

1. Lifecycle: which of the conditions of its theorems R2 needs; the sweep and the
   admin's delete beside a worker (what remains true with them).
2. An abstract specification of the notifier (a subscriber is woken by every
   notify after it subscribed) and of the transcript (an append-only list), with
   the detailed ones shown to implement them.
3. Overlapping activations, media types in retention and sweep; composition of
   Transcript with Lifecycle's deletes.

## 9 How to run

    tlc -workers 2 -config MCHubSlots.cfg MCHub
    tlapm HubProofs.tla

The largest passing runs have two to three million states and take up to three
minutes; the proofs of a module take one to two minutes.
