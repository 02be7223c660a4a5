# GrokForge in TLA+

GrokForge is an OpenAI-compatible gateway in front of Grok: it spreads client
requests over a pool of upstream tokens, each with a quota per mode, retries on
other tokens when the upstream refuses, keeps the tokens' state in a database
and refreshes quotas in the background.  This directory holds TLA+ modules for
the parts where many goroutines meet, TLC configurations for small instances,
and TLAPS proofs of the main results for every size.

Contents: [inventory](#inventory), [modules](#modules-and-the-code),
[runs](#runs), [findings](#findings), [fairness](#fairness), [proofs](#proofs),
[what is left out](#not-modelled), [plan](#plan).

## Inventory

The core is `internal/token` and `internal/flow`.  Everything else either calls
them, feeds them constants, or keeps a small state of its own.

| Component (under `src/`) | State | Operations | Interacts with | Hard behaviour | Correct when |
|---|---|---|---|---|---|
| Token manager and pools, `internal/token/manager*.go`, `pool.go` | tokens with status, failure count, quota/limit/resume time per mode; `inflight`, `lastPickedAt`, `dirty` | pick, report success/failure/rate limit/expiry, refund, quota and resume updates, add, remove, snapshot | called under one mutex by every flow, the scheduler, the persister, the admin API | methods are atomic, but reports and updates are made of several | counts never lose a borrower, `max_inflight` holds, quota is charged and refunded once, a failing token is disabled |
| Chat flow, `internal/flow/chat.go`, `retry.go`, `chat_stream.go` | per request: current token, attempt and retry counters | pick over pools, call, stream, report, back off, give up | manager, upstream adapter, client channel | retries on the same or another token, errors before and inside the stream, cancellation and budget at three places | every borrowed token is given back once, retries are bounded, every request is answered |
| Persistence, `persist.go`, `manager_snapshot.go`, `service.go`, `normalization.go` | dirty set, rows | flush (two implementations), load with normalisation, mark and clear dirty | manager, database | flush is three steps without the lock, two flushes overlap, transactions fail, the process restarts | the database lags only by what is marked dirty |
| Quota scheduler, `refresh*.go`, `manager_refresh_target.go` | last refresh per token and mode, semaphore, running refreshes | periodic scan, refresh after a 429, administrator's refresh, stop | manager, upstream rate-limit endpoint | answers that are older than the picks made meanwhile, debounce, local windows read and written in separate sections | an exhausted mode is looked at again; an update never invents quota |
| Admin token API, `internal/httpapi/admin_token*.go` | rows | create, import, update, delete, refresh, batch | store, `SyncToken`, `AddToPool`, `RemoveFromPool` | read-modify-write of a whole row next to the persister; remove and re-add while requests hold the token | an administrator's change survives; memory and database name the same tokens |
| Image and video flows, `internal/flow/image*.go`, `video*.go` | cooldown per model and token | generate with recovery on other tokens, parallel images, poll a video | manager, WebSocket client, cache | several tokens in one request, failures in the middle | one release per pick |
| Client stream, `internal/httpapi/openai/stream.go` | channel of 64 events | send, heartbeat, stop on disconnect | chat flow | a reader that stops while the writer sends | the flow ends when its client is gone |
| Usage accounting, `internal/flow/usage_buffer.go`, store | bounded buffer | record, flush, requeue, final flush | flows, database | insert fails while records arrive, shutdown | order kept, only the oldest dropped |
| Rate limiters, API keys, `internal/httpapi/middleware.go`, `rate_limit.go` | window start and count as atomics per key | admit, count, reset, clean up | every HTTP request | check and reset without a lock | a window admits no more than its limit |
| Cloudflare refresh, `internal/cfrefresh` | pending trigger, time of last refresh | trigger, run, stop | flows (on 403), runtime configuration, database | coalesced triggers, a trigger during a refresh | one refresh per burst, none lost |
| Runtime configuration, `internal/config/runtime.go` | immutable snapshot | store, update | all | two writers, memory and database in different orders | no update is lost |
| Media cache, `internal/cache` | size per media type, files | save, evict, delete, clear, reconcile | flows, admin API | partial removal | the total equals what is on disk |
| Process, `cmd/grokforge/main.go` | start and shutdown order | load, start, stop | all | requests that outlive `Shutdown` | nothing is written after the last flush |
| Upstream adapters, `internal/upstream`, `internal/xai` | one connection per call; the image websocket's timer | start, read events, end | flows | a timer that races the reader, streams that break anywhere | a call ends and is answered once |
| Tool-call and tag parsers, `internal/flow/toolcall*.go`, `tag_filter.go`, `tool_usage_card.go` | held-back text of one stream | push, flush | chat flow, response | tags cut by the chunks | the chunks do not matter |

The model catalogue, the OpenAI request and response formats, the web interface,
logging and token counting are listed in `PROJECT.json` with the reason they are
left out.

Each behaviour that is hard to test is a hazard in `PROJECT.json`, at its line,
with the properties that cover it or the reason none does.

## Modules and the code

```
TokenManager            the manager's state and methods (no behaviour of its own)
  |                                    TokenManager_proofs: lemmas on the methods
  |-- ChatFlow          the chat requests' goroutines   -- refines --> TokenLease
  |     `-- MCChatFlow                 ChatFlow_proofs
  |-- TokenPersistence  flushes, database, restart
  |     |-- MCTokenPersistence
  |     `-- TokenAdmin  the administrator's operations next to flushes and requests
  |           `-- MCTokenAdmin         TokenAdmin_proofs: both modules
  |-- QuotaRefresh      the refresh scheduler and the requests' 429s
  |     `-- MCQuotaRefresh             QuotaRefresh_proofs
  `-- MediaFlow         image and video requests
        `-- MCMediaFlow                MediaFlow_proofs

StreamText              the parsers an answer's text goes through
  `-- StreamPipe        reader, flow and response around them
        `-- MCStreamPipe               StreamPipe_proofs

MediaCache  ImageStream                               `-- MCMediaIO    MediaIO_proofs
RateLimits  Credentials  RuntimeConfig  UsageBuffer   `-- MCServer     Server_proofs
```

**TokenManager** (`internal/token/manager*.go`, `pool.go`).  One variable per
map of the Go struct and one action per method.  Every method holds `m.mu` for
its whole body, so it is one step.  `Selectable(pool, mode)` is the set of
tokens `Pick` may return: saturated tokens are excluded, recently used ones are
excluded while others are left, the highest priority tier with a usable token
wins, the algorithm chooses in it.  Abstractions: a missing map entry is 0, as in Go;
`lastPickedAt` is the set `recent` and the end of the penalty window is an
action; `failCount` stops at `FailThreshold`, the only value it is compared
with; the round-robin position is any position, since all flows share it.
`ManagerInit` is a load of unused tokens with the catalogue's quotas.

**ChatFlow** (`executeWithRetry`).  One process per request, with the locals
`currentToken` (`tok`), `attempt` and `tokenRetries` (`retries`), and `pc` for
the place in the code:

| `pc` | code | leaves by |
|---|---|---|
| `head` | loop condition, budget and context tests, chat.go:131-149 | `Exhausted`, `AbandonAtHead`, `NeedToken`, `SameTokenAgain` |
| `pick` | loop over the pools, 151-184 | `PickToken`, `NextPool`, `NoTokenLeft` |
| `call` | `up.Chat` and the stream, 187-289 | `CallSucceeds`, `FailKeepingToken`, `FailReleasingToken`, `FailRefundingQuota`, `FailRateLimited` |
| `refunded`, `cleared` | between the two sections of `ReportError` and `ReportRateLimit`, service.go:102-117 | `FinishRefund`, `FinishRateLimit` |
| `backoff` | 214-243 | `BackoffEnds`, `AbandonInBackoff` |

Errors are the eight classes the retry policy tells apart; an error may come
from the call (a backoff follows) or from inside the stream (none does).
Classes are disjoint: an error whose text also carries a status number
(`extractStatusCode` searches the message) falls into the class its effect has;
an untyped 401 in a message behaves as `bad_request` does.  The retry
budget and the client's cancellation act alike and may strike wherever the code
looks.  The quota scheduler appears by its effect: `RefreshQuota` and
`RefreshResume` at any time, from an answer `clampRateLimits` can produce.

**TokenLease** is the abstract specification: a request holds at most one token
and no token is lent more than `MaxInflight` times.  ChatFlow implements it
under `lease <- Borrowed`, where a rate-limited request has already given its
token back when it clears the timestamp.

**TokenPersistence** (`persist.go`, `service.go`).  The manager's methods may be
called in any order by anyone, as long as a report is about a token that is in
use; a flush is `TakeSnapshots`, then `Commit` or `RollBack`, then `ClearDirty`;
several goroutines may be flushing (the persister, and an administrator's
refresh through `TokenService.FlushDirty`).  A commit is atomic: the rows are
written in one database transaction, and two transactions that write the same
rows are serialised by the database.  `Restart` may happen at any time and
loads the rows through `normalizeTokenQuotas` and `primeZeroModeResumeAts`.
`PrimedAt` stands for the time of the load.  `touched` and `late` are history
variables: what changed since a flush's snapshot, and what a flush cleared
although it had changed and is still behind.

**QuotaRefresh** (`refresh.go`, `refresh_apply.go`).  A refresh is a record in
`jobs` that steps through `acquireGlobal`, the upstream call and the two manager
calls of `applyRateLimits`, or through the separate reads and writes of
`refreshLocalQuota`; scans, the debounce, requested and forced refreshes, the
backoff of a failure and `Stop` are actions.  The clock is relative: it stands
at `Now` and `Tick` moves every stored instant into the past, so time never
runs out.  Debounce and scan interval are one unit.  A scan, a forced refresh and a late
request end with `Stop` here; in the code those already running go on
(refresh.go:88-96), outside what `Stop` waits for and `StopWaits` speaks of.  A
failed request's refund and its `MarkFailed` (service.go:112-117) are one step, without
the failure count, which no refresh reads; so they are in TokenAdmin.

**TokenAdmin** (`admin_token*.go`, `SyncToken`, `AddToPool`, `RemoveFromPool`).
Each operation is the sequence of database and manager calls of its handler:
an update is read, save, and the three steps of `SyncToken`; a batch update
writes one column; a deletion drops the row, then the token; an import creates
both.  An update with an unknown mode, a negative quota or one over the limit is
refused after the read.  Requests and a flush of TokenPersistence run in between.  `torn` and
`reset` are history variables: the tokens whose operations overlapped, and those
removed while requests held them.  The properties say that these overlaps are
the only way to get the consequences they name.

**MediaFlow** (`image*.go`, `video*.go`).  One process per request of one of
four kinds.  A websocket request picks tokens without a charge, checks their
cooldown, and after a blocked generation tries up to `MaxLegs` other tokens at
once; `leg[r][t]` is the attempt on a token.  Lite, edit and video requests keep
one charged token.  `own` and `blocked` are history variables.  The model is without
the recent-use penalty, which only narrows the choice among usable tokens: every
order of the tokens is taken anyway.

**StreamText** and **StreamPipe** (`chat_stream.go`, the parsers, `openai/stream*.go`).
A text is a sequence of symbols, and a tag is two of them, so that a chunk can
end inside a tag.  StreamText has the parsers as operators with the loop of the
code; StreamPipe runs the upstream's reader, the flow and the response as three
processes with two bounded channels, retries included.  The reader cuts the
answer into chunks in every way.  `Rendered` is the reference: the same answer in one
chunk per part.

A link is a scheme, itself two symbols, and the upstream's address; any other symbol
ends it, as the characters of `streamMediaDelimiters` do.  So the gate's rules can
be told apart: `ImageHold` keeps an image that has not ended, `LinkHold` a scheme, to
whatever host, that nothing has ended, `PartialHold` half a scheme at the end of the
text.  The rules for relative paths (`users/`) have the same form and are left out, as
is the one for a `!` at the end: the beginning of an image is one symbol.  A call keeps
whether its arguments hold a link: nothing rewrites them, and they are text again
(`CallText`) where a client asked for no tools.  Not modelled: a filtered tag that
closes itself (tag_filter.go:69-71), which is dropped like one with an end, and an
upstream event with both reasoning and content (upstream/grok/stream.go:106-109; an
image attached to a piece of reasoning).

**MediaCache** (`internal/cache`, `cacheVideo`).  Files on disk in the order of
modification, the byte count `total`, saves with their temporary file, the pipe
with its two ends, eviction to 60 % of the limit, deletion, clear, touch on access
and reconciliation at a restart.

**ImageStream** (`websocket_stream.go`, `generateSingle`).  The reader's goroutine
with its deferred calls one by one, the blocked timer's function, the mutex, the
channel and its consumer.

**RateLimits** (`middleware.go`, `rate_limit.go`).  The three limiters as steps on the
two atomics of an entry, `LoadOrStore`, and the cleanup; a behaviour is about one of
the three.  **Credentials** (`middleware.go`, `admin_auth.go`, `admin_apikey.go`,
`apikey_store.go`): the row of one API key under its requests, the administrator and
the daily reset; signed sessions and the revocations kept in memory.  A request with
the key ends by a counted use (`Succeed`), by one whose increment fails and is not
reported (`IncrementFails`), by an image or a video, which are never counted
(`ServeMedia`), or refused.  **RuntimeConfig** (`config`, `admin_config_update.go`,
`cfrefresh`, `main.run`): the configuration in memory and in the database with its two
writers, the Cloudflare scheduler, start, shutdown and crash.  Five settings stand for
all: one validated at start only, one copied to the token manager, one secret, one
both writers set, one that switches the scheduler.  Every start draws a key of its own
(`bootKey`) for want of a configured one, and refuses to start (`StartFails`) on a row
that `ApplyDBOverrides` refuses.  **UsageBuffer** (`usage_buffer.go`): numbered
records through buffer, hand and table.

*Compositions.*  TokenManager is shared state: ChatFlow, MediaFlow, QuotaRefresh,
TokenPersistence and TokenAdmin each put their own processes on it, next to the
ones of the others that matter to them (`RefreshQuota` in ChatFlow, `Take` and
`InstallQuota` in TokenAdmin).  MCMediaIO and MCServer put modules together
that share no state: the variable `part` says which one moves, the others
stay in their first state.  A property about the others is then about a state
that never changes, so nothing is lost, and the cost is a sum and not a product.

## Runs

| Run | Instance | Checks | Result |
|---|---|---|---|
| `chat_lease` | 2 requests, a super and a heavy token with 2 places, threshold 2, 1 token x 2 retries | `TypeOK`, `InflightCoversHolders`, `QuotaConserved`, `ThresholdDisables`, `ReleasedByHolder` | holds, 345,100 states |
| `chat_liveness` | 2 requests, 1 token with 1 place, refreshes to 0/1 and 1/1, 2 tokens x 2 retries, no threshold | `QuotaWithinLimit`, `RequestTerminates`, `ImplementsLease` | holds, 19,040 states |
| `persist_flush` | 2 flushers, 2 tokens, answer 0/1, restarts | `PersistTypeOK`, `OnlyLateChangesAreLost` | holds, 740,516 states |
| `quota_refresh` | a token with a local or an upstream mode, 2 refreshes at once, 2 answers | `RefreshInv`, `ExhaustedModeReturns` | holds, 83,297 states |
| `token_admin` | an empty database, 3 operations, 1 flusher, 2 requests, 1 place | `AdminInv`, `PoolMatchesRows`, `CleanMatchesRow`, `OnlyRemovalOvercommits`, `AdminChangeHolds` | holds, 1,353,495 states |
| `stream_pipe` | 7 answers, 4 kinds of request, channels of 1, 2 attempts | `PipeInv`, `ChunkingIrrelevant`, `TagsInOrder`, `TextIsRewritten`, `PipeDrains` | holds, 191,948 states |
| `media_flow` | 2 requests of any kinds, floor super, 3 heavy tokens with 2 places, 2 images, 2 attempts in a recovery | `MediaInv`, `NothingStaysLent`, `UnblockedAreCounted`, `BlameIsOwn` | holds, 760,145 states |
| `media_io` | 2 images, a video, limits 0, 1 and 3, one file that stays; a stream with 2 places | `MediaIOInv`, `PublishedIsWhole`, `NoBlockAfterFinal`, `PublishMakesRoom`, `CacheVideoEnds`, `StreamAnswers` | holds, 66,381 states |
| `server` | 2 requests on each limiter and key, 2 windows, 2 PUTs, 2 keys to draw, 5 records | `ServerInv`, `WindowHolds`, `CountedUsesStay`, `RestartKeepsSettings`, `NoEarlyRefusal`, `OnlyOldestDropped`, `ServerProgress` | holds, 346,996 states |
| `chat_leak` | 1 request, 2 tokens | `InflightIsActiveRequests` | violated |
| `persist_lost` | 1 flusher, 1 token | `CleanIsPersisted` | violated |
| `stream_media` | 3 answers, 4 kinds of request | `NoReferenceLeaks` | violated |

Some properties are conjunctions, to be checked in one go: `RefreshInv` is
`RefreshTypeOK` and `StopWaits`; `AdminInv` is `AdminTypeOK` and `RowsWithinLimit`;
`PipeInv` is `PipeTypeOK`, `ThinkBlocks` and `EndNamesCalls`; `TagsInOrder` says that calls
are numbered in order and reasoning is inside a think block; `MediaInv` is `MediaTypeOK` and
`MediaQuotaConserved`; `MediaIOInv` is the types of both modules, `CountMatchesDisk` and
`PanicNeedsEndedStream`; `ServerInv` is the types, `BootstrapStaysInMemory`,
`UsageInv` and `LoggedOutStaysOut`; `ServerProgress` is `TriggerIsServed`,
`ShutdownEnds` and `UsageStops`.

*What they show.*  The token runs: a token's count, quota and status survive every order
of picks, retries, reports, refreshes and failures; an exhausted mode of an active
token comes back; what the database holds differs from memory only where a flush
or an administrator's operation overlapped with a change.  `stream_pipe`: a client
gets the same answer whatever the chunks, with well-formed think blocks and
numbered calls and a finish reason that fits them; once its response has a
downloader, no text with a link to an upstream image; and the flow ends unless a
streaming response left early.
`media_flow`: several tokens in one request are each given back, and a token is
blamed for its own answer, unless its generation was blocked.  `media_io`: the
byte count is the disk's, only whole files are served, and no end of the
pipe or the channel waits for ever.  `server`: a window lets in at most its limit
and the requests in progress, except where an entry is cleared or removed under
them; a use of a key that the database has counted stays counted unless a PATCH with an
old copy overwrites it (which uses are counted is another matter, see the findings);
without overlapping writers a restart keeps the settings, but not a drawn
administrator's key, and is refused where the window in use is 0; the usage log keeps its
order and gives up only the oldest records.

*Bounds.*  The token models count nothing that the code does not bound: attempts and
retries end, quotas only fall between refreshes, and a finished request may arrive
again, so requests follow each other for ever.  The exception is the leak of
`chat_leak`: `inflight` never comes down again, and `max_inflight` bounds it.  Two
requests are the smallest number that interferes, two retries the smallest that keep a
token, a threshold of 2 lets a success come between two failures, two pools exercise
the pool loop.  The lease needs an instance in which `max_inflight` refuses somebody:
one place for two requests.  For two flushers and two tokens every order of snapshots
and commits occurs.  In QuotaRefresh, `MaxUse` bounds the requests and reports on a
token and `Now` how old an instant is seen to be; two refreshes are the smallest
number that overtake each other. In TokenAdmin an administrator's operation happens
once: an import and two more are the shortest story in which two of them overlap on a
token; `MaxUse` of 2 and one place let a removal overcommit.  Channels of one place
block soonest; the code's 64 and 16 block later.  The answers of `stream_pipe` hold a
call, a block that is none, a card, a filtered tag, an image, a link to the upstream
and one to elsewhere, a call with a link in its arguments and one that the end closes,
an unfinished tag and half a scheme; every cut of a link in its three symbols occurs.
Three tokens let a recovery use two that are not the first; two images let a request
change its token in the middle.  In MediaCache each save happens once, since files are
immutable; limits of 1 and 3 for files of 1, 2 and 2 bytes give a file that is too
large, an eviction and one that finds nothing to evict. `MaxClock`, `MaxCount` and
`Entries` bound the limiters: two windows, a count two over the limit, and one
replacement of an entry.  `MaxTime`, `MaxServed`, `Secrets`, `MaxPuts` and
`MaxRecords` bound the rest of `server`: a session that outlives its time, a reset and
a PATCH among four counted uses, two PUTs around a refresh, a drawn key that differs
from the last, and more records than the buffer holds twice.  The theorems below
remove the bounds for the properties they are about.

*Symmetry.*  Requests in `chat_lease`, where all have the same mode and floor,
flushers in `persist_flush`, administrators in `token_admin`, and requests and tokens in
`media_flow` are interchangeable; runs with liveness properties use no symmetry.

*Deadlock* is checked wherever the system goes on for ever, and does not occur.  It is
not checked in `token_admin`, `stream_pipe`, `media_io`, `server` and `stream_media`,
whose operations, answer, stream and records come to an end.

Every property of a passing run is shown to be sensitive to the code by a
mutant: an operator such as `SaturatedLate` or `RequeueBehind` that stands
before the definition it replaces and is used nowhere else.

## Findings

With a run of their own:

1. **A token stays counted for ever** (`chat_leak`).  The exit of the retry loop
   at its condition (chat.go:131, 293-298) does not release a token the last
   attempt kept.  With `max_inflight` set, each leak takes one place of the
   token until the process restarts.  That the counter is then only ever too
   high, never too low, is `InflightCoversHolders` (proved).
2. **A flush erases newer dirty marks** (`persist_lost`).  `ClearDirty` removes
   IDs, whatever has happened to the token since its snapshot.
   `OnlyLateChangesAreLost` (proved) says that this is the only way to lose a
   change.
3. **An upstream link reaches the client** (`stream_media`).  What the flow's
   parsers hold until the end is sent without the downloader that switches the
   rewriting on (chat_stream.go:60-82), against README.md:48.  A response that has
   seen a downloader rewrites all of its text (`TextIsRewritten`, proved).  The
   arguments of a call are a second way past that sentence: `guardChunk` leaves a chunk
   without content alone (stream_response_state.go:100), and a collected answer is
   rewritten in `Message.Content` only.  `NoReferenceLeaks` covers both; the run
   finds the first.

Seen while modelling; the models have these behaviours and the properties name
them as what they excuse, or say nothing of them:

- `retry.max_tokens` multiplies into a bound on attempts (retry.go:21): it does
  not bound the different tokens tried.  A token that answered 403 can be picked
  again at once, against the comment on `IsTokenLevel` (errors.go:25).
- A blocked websocket generation releases its token (image_generate.go:46-52) and,
  when the recovery fails too, image_ws.go:43 releases it again, or blames it for
  the error of another token: the count of manager.go:23 falls below the
  requests in progress.  `UnblockedAreCounted` and `BlameIsOwn` exempt exactly the
  blocked tokens.
- `SyncToken` of a token in use restarts its count (`OnlyRemovalOvercommits`); an update
  that overlaps a deletion brings the row back, one that overlaps a flush or another
  operation may undo it (`PoolMatchesRows`, `CleanMatchesRow`).
- middleware.go:111 says of the reset "avoids stale old-window count race".  A
  request between the CAS and the reset is judged by the old count
  (`NoEarlyRefusal` names this), and one that is counted there is forgotten.  The
  address limiters compare before they count, and clear count and start of a
  window without a CAS; the cleanup may remove an entry under a request, also one
  just created.
- A PATCH of an API key saves every column (admin_apikey.go:251): uses counted
  meanwhile are lost, a regenerated secret is undone, a deleted key is back.
- middleware.go:60 says of daily_limit "returning 429 when exceeded", and README.md:542
  offers it "to control daily usage per user".  Only uses that are
  counted come up to the limit: main.go:508-510 drops the error of `IncrementUsage`,
  which chat.go:266-267 calls with the request's context (a client that leaves at the end, a
  busy database), and the image and video flows never call it.  `CountedUsesStay`
  speaks of counted uses.
- Sessions name a second: a login in the second of a logout gets the revoked
  session.  A restart forgets the revocations.
- A PUT of the configuration stores its whole snapshot: cookies that a refresh has
  installed meanwhile, or another PUT, are undone in memory until a restart.  PUT
  accepts values (a window of 0) that `ApplyDBOverrides` refuses, after which the next
  start fails (`RestartKeepsSettings` says exactly then).  A restart without a configured
  administrator's key draws another, which ends the sessions signed with the last.
- A trigger that waits during a Cloudflare refresh runs right after it, against
  "minimum gap between triggered refreshes" (scheduler.go:18).
- The blocked timer of the image stream can get going while the deferred calls
  run; its select may then find the channel closed and send on it, which panics
  (`PanicNeedsEndedStream` says when).
- A temporary file whose writing fails stays on disk until a restart; `Clear` zeroes
  the count although files may stay (`CountMatchesDisk`).
- The parser of the streaming response is never flushed: text it holds at the end is
  dropped (`Held`).  A card's end tag that a chunk cuts is missed.  A retry after
  partial output repeats it.  `ChunkingIrrelevant` names all three.
- A tag without its end, like "<drop" without ">", stays in the filter that content
  and reasoning share (tag_filter.go:65): the reasoning that follows is held behind
  it and is given out at the end, as content.  Flow and response number the calls
  they find independently: in `<` `<tool>call</tool>` `tool>call</tool>` the flow's
  removal of a call makes a tag of what is around it, and the call that the
  response finds has the number 0 again.  `TagsInOrder` holds of answers without such
  pieces.  An image that begins in the content and ends in the reasoning would take the
  think tag between them with it when it is replaced; `ThinkBlocks` holds of answers in
  which reasoning has no images and nobody else writes think tags (`Labelled`).
- The flow's sends on its channel do not look at the context: a streaming response
  that returned early leaves it blocked, with its token (`PipeDrains` names this case).

## Fairness

- ChatFlow: weak fairness of each running request's step, and of nothing else.
  The Go scheduler, the mutex (no method blocks while holding it), timers that
  fire, and the deadline of `httpapi/request_timeout.go` justify it.  The sends
  on the client's channel are assumed to end; StreamPipe drops this assumption.
- QuotaRefresh: the goroutines and the clock go on.  Strong fairness of a scan of
  a due mode (the loop runs every minute and looks at all of them; it is
  disabled only while both `Jobs` of the instance are taken) and of a good answer of
  the upstream: one that is asked again and again some day has quota.
  `ExhaustedModeReturns` needs this of the upstream and nothing of the requests.
- StreamPipe: weak fairness of reader, flow and response.  The upstream need not
  break, and the client need not leave.
- MediaCache, ImageStream: the goroutines go on; reads end by their deadline and
  the request's context ends.
- RuntimeConfig, UsageBuffer: weak fairness of the goroutines; strong fairness of
  the branch of a `select` that finds the trigger or the closed channel,
  because Go chooses among ready cases at random.  In MCServer no action that
  is fair is enabled in the first state of its module, so fairness of one part
  asks nothing where another moves.

MediaFlow, TokenPersistence, TokenAdmin, RateLimits and Credentials have safety
properties only.

## Proofs

`tlapm` proves every theorem for all sizes, pools, priorities, quotas, limits and
selection algorithms.  What is assumed of the constants is named in the module
that declares them, and TLC evaluates it in every run:

| Assumption | Says | Because |
|---|---|---|
| `ManagerAssumption`, `ChatAssumption`, `PersistenceAssumption` | finite sets of tokens and requests, natural numbers where the configuration has them, refresh answers with remaining at most limit | `clampRateLimits` ensures the last |
| `RefreshAssumption` | finitely many refreshes, windows of at least one unit; the answers of the upstream are any integers | the semaphore is a channel; `clampRateLimits` takes negative values |
| `MediaAssumption` | finitely many requests, at least one attempt | the process serves finitely many at a time |
| `AdminAssumption` | stored tokens are tokens, a status asked for is a known one | handleUpdateToken refuses others (admin_token.go:365-378) |
| `RateLimitsAssumption`, `CredentialsAssumption` | finitely many requests and callers, positive limit and window | a limiter with another limit is not installed |
| `RuntimeConfigAssumption` | the keys a start draws are neither absent nor the configured one | `EnsureAdminAppKey` draws random keys |
| `CapAssumption`, `AnswerAssumption` | attempts and channel capacities are positive, no part of an answer is empty | `isEmptyEvent`: an upstream event without text is not sent |
| `Labelled` (a hypothesis of `PipeInvHolds` only) | the upstream writes no think tags itself, its reasoning has no content and no images | the upstream marks each piece as thinking or not; TLC evaluates it for the run's answers (`AnswersLabelled`) |
| `CacheAssumption`, `StreamAssumption` | sizes and limits are natural numbers (a file may be empty), a channel with at least one place; not that files or saves are finitely many | lengths and MiB; websocket.go:185 makes it with 16 |

`MaxUse`, `MaxClock` and `MaxTime` are arbitrary in the proofs: they bound the behaviours
TLC looks at and no property needs them.

An invariant that is checked is seldom inductive.  For each module there is one
inductive invariant, checked with TLC on the instance of its run before it was
proved; each action keeps it, and everything else follows from it:

* **`TokenManager_proofs`** holds lemmas on the methods: each keeps
  `ManagerTypeOK`, what a selectable token satisfies (`SelectableFacts`: it has
  quota and a free place), and what each does to the status, the limits and the
  dirty marks.
* **`ChatFlow_proofs`**
  - `TypeCorrect` and `RetriesBounded`.  They are one induction (`Base`): a pick
    keeps the quota a natural number only because selection and charge are one
    step, and a counter stays in range only because a request that comes back
    with a token has a retry left.
  - `NoReleaseBehindABorrower`, `DecrementsAreReleases`,
    `ChatImplementsLease`.  The key lemma `StepLease` says that each step of a
    request is a pick, a release or neutral on `Borrowed` and `inflight`
    together; `InflightCoversHolders` with `Base` is then inductive.  That
    `inflight` is at least the number of borrowers is what makes the saturation
    test, which looks at `inflight`, bound the number of borrowers.
  - `ThresholdHolds`, `LimitHolds`: every step of `Next` is one manager call
    (`NextIsOneCall`), and each method keeps them.
  - `QuotaIsConserved`: `Owes` counts the units that may still be refunded; each
    step moves at most one unit between quota and `Owes`, which is inductive
    with `Base`.
* **`TokenAdmin_proofs`**, part one: `PersistenceTypeCorrect` and `NothingElseIsLost`.
  `OnlyLateChangesAreLost` is not inductive: a commit writes snapshots that may
  be old.  The strengthening `IInv` adds that a snapshot of a token that has not
  been touched since is the token's content (`Faithful`), and that a token some flush
  has written and seen unchanged since is behind only if its lost change is
  already known, or another flush that holds an older snapshot has overwritten it
  and is about to clear its mark (`SettledAreSaved`).
* **`TokenAdmin_proofs`**, part two: `AdminAlwaysHolds` (no stored quota over its limit),
  `PoolAlwaysMatches`, `CleanAlwaysMatches`, `OvercommitNeedsRemoval`,
  `ChangesAlwaysTake`.  The properties speak of tokens nobody is working on, and
  say nothing of the steps that lead there.  `AdminIInv` says for each stage of an
  operation how row, pool and the data the administrator carries differ (`OpOK`),
  for every other token what a flush that holds it may still write (`RestOK`), and
  that any two that overlap have torn the token (`OneOperation`, `NoFlushOfBusy`).
  The limit on quotas must hold of snapshots and of rows carried by an operation
  too, since these are stored later (`AllWithin`).
* **`QuotaRefresh_proofs`**: `RefreshAlwaysHolds` (the semaphore, and no refresh left
  behind a `Stop` that returned) and `InflightCountsRequests`.  `RefreshIInv` adds
  what each refresh remembers at its stage and that a token's count is that of its
  requests (`RequestsCounted`), which bounds the counts that the types name.  The run
  starts with one of its two tokens in the database; the theorem's initial state is
  the one where the database has all of `Tokens`.
* **`MediaFlow_proofs`**: `MediaAlwaysHolds` (refunds at most once), `NothingEverStaysLent`,
  `UnblockedAlwaysCounted`, `BlameIsAlwaysOwn`.  The count of a token can be compared with
  the requests that have it only if each stage says what a request has: the token in
  hand, the one whose cooldown is looked up, the attempts of a recovery, the first
  token that is reported twice (`ReqOK`).  `StepOK` is then the form of every step:
  one request moves, and counter, quota and debt of a token move together.
* **`Server_proofs`**: `ServerInvariant`, `WindowAlwaysHolds`,
  `NeverRefusedEarly`, `CountedUsesAlwaysStay`, `RestartAlwaysKeeps`,
  `DropsOnlyOldest`, about MCServer with any instance of its four parts.
  - Limiters (`LimitIInv`): what an entry has let in *and* the requests that will be
    let in whatever its count, together, stay within the limit less one and the
    requests there are.  For a key these are the requests that have begun a
    window and not counted themselves; for an address those between their
    comparison and their count.
  - Credentials (`KeysIInv`, `SessionsIInv`): counted uses of a day and requests in progress
    together; a session that was logged out is revoked or has expired.
  - Configuration (`ConfigIInv`): without overlapping writers at most one is between
    its steps, and memory, the manager's copy and the rows differ by what it has
    still to do; the administrator's key in use is the saved one or the one drawn.
  - Usage buffer (`UsageIInv`): table, hand and buffer are in order, one behind the other,
    so that a cut at the old end drops the oldest.
* **`MediaIO_proofs`**: `MediaIOHolds`, `PublishedAlwaysWhole`, `AlwaysMakesRoom`,
  `NeverBlockedAfterFinal`.
  - What the cache computes.  A recursive function is, to the prover, *some* function
    that satisfies an equation.  `Induction` follows from the library's fact that `<` is
    well-founded on the natural numbers; `Recursion` and `SumsExist` use it to show that
    there is such a function, `SumsUnique` that it does not matter which.  Then
    `BytesWithout` (a sum over a set splits), `WithoutFacts` and `EvictFacts` say what the
    sum, a removal and an eviction return for every directory.
  - The cache (`CacheIInv`).  `CountMatchesDisk` and `PublishedIsWhole` need of each save
    what its stage says of its file: a save at "publish" has all its bytes, a download
    that ended well has delivered them, a save not begun has no file, a URL belongs to a
    save that is over (`CacheProtocol`).  One save moves at a time (`SaveMoves`).
  - The stream (`StreamIInv`).  The timer tests `hasFinal` and sends under one lock, so
    every "blocked" in the channel is ahead of the final image (`InOrder`), and the
    consumer that has taken the final image finds none behind it.

* **`StreamPipe_proofs`**: `TextAlwaysRewritten` (once there is a downloader, no text
  with an image of the upstream or a link to one is sent, in whatever pieces it came; calls
  and their arguments are not text), `PipeInvHolds` (think blocks do not nest, hold no content
  and are closed at the end, of `Labelled` answers), `EndNamesCallsHolds`, `PipeTypesHold`.
  - What the parsers compute.  A parser is a loop over the text.  There is one rule for
    each kind of loop: a predicate that holds at the start and that a round keeps holds
    at the end (`Rounds` for the loops of the tag parsers, `Solves` for a recursion over
    `1..n`).  Then one lemma for a round of each parser, one for each parser.
  - The gate, images.  `Scan` reads a text symbol by symbol and `held` is the image that has
    begun.  The first part that `StreamingSafeFlushIndex` cuts off is always settled
    (`held` is empty at its end), and the scan of a settled text followed by another is
    the two scans one after the other; so the images in what a client gets are those in
    the pieces, and a rewritten piece has none.
  - The gate, links.  A link may lie across a cut.  What has been sent and what the gate
    keeps are `Apart` if no link, and no beginning of one, goes on from the one into the
    other, whatever text follows: because no scheme at the end of the first part lacks its
    delimiter, and none is cut in two.  A cut keeps this, and rewriting does
    (`CutApart`, `LinksStay`); so the links in what a client gets are those in the
    pieces too, and `rewriteContent` fails on a piece that has one.
  - The invariant `IInv` is the types, `EndNamesCalls` and `Sent`: while a stream is
    being read, what has been sent is settled and apart from what the gate holds, and the
    reason counts the calls that have been sent.  Without "settled" and "apart" a
    reference could be put together from two pieces that have none.
  - Think blocks.  `Walk(t, a, b)` says that the text `t`, read from inside or outside a
    block (`a`), opens no block twice, has no content inside one and ends at `b`.  Two
    walks can be joined and a walk split anywhere (`WalkCat`, `WalkSplit`), and replacing
    images keeps a walk, because an image begins and ends outside (`WalkRewritten`).  So
    the gate, which cuts and rewrites, keeps one too.  The invariant `BInv` adds to `IInv`
    that what was sent is a walk and what the gate holds leads on to where the think
    writer stands (`Marked`), and that content and reasoning are not mixed up on their way
    (`Labels`).  The latter is the harder part: both pass the same tag filter, which may
    hold content back.  It may hold only a start tag that has begun, and drops it with its
    end (`Tame`, `DropTame`); what it gives up at the very end is content again.

Only model-checked:

* liveness (`RequestTerminates`, `ExhaustedModeReturns`, `PipeDrains`, `CacheVideoEnds`,
  `StreamAnswers`, `ServerProgress`): fairness and ENABLED are beyond this prover;
* StreamPipe: `ChunkingIrrelevant`, which compares two runs of every parser over the
  whole text, and `TagsInOrder`, which is not true of every answer (see the findings): it
  needs an answer that writes each of its tags in one piece, as those of the run do;
* the three violated claims, which are shown by counterexamples.

## Not modelled

The contents of messages, prompts and images; credentials; status reasons and
`last_used`; the number of milliseconds anything takes; headers, payloads, TLS
fingerprints and provider formats; listing, filtering and statistics, which only
read; priority, remark and the NSFW flag of a token.  The retry configuration is
constant in ChatFlow.  Video and image caches are two instances of
one module and only one is modelled; the proxy settings, like most others, stand
behind the five settings of RuntimeConfig.  Request validation and response
formatting are sequential functions of one request.  The whole process at once
(all parts, one shutdown) is not composed: it is out of TLC's reach, and the
parts meet only in the token manager, which each of them has.

## Plan

All components that keep state have a module, and a proof of what the code promises of
them.  Left to prove, in this order:

1. `StreamPipe`: `TagsInOrder`, for answers that write their tags in one piece.
2. Types of `QuotaRefresh` from any initial database.
