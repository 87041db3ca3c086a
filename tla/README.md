# A TLA+ verification of nclaw

nclaw is a personal-assistant client: a Rust core (`core/src`, built into every
app as libnclaw), a React Native app (`mobile/`), a Tauri desktop shell
(`desktop/`), a web app and thin iOS and Android apps (`apps/`), and a Go
retrieval service (`intelligence/`). This directory models the parts that carry
their own logic under concurrency, failure and reordering, checks them with TLC
and proves the invariants, action properties and refinements with TLAPS.

Every definition is translated from the source; `PROJECT.json` names the lines
each one stands for. The documents (`protocol/sync-protocol.md`, the module
headers, comments) supply what the properties claim, never what the models do.

## 1. The system

| Part | Keeps | Operations | What is hard |
| --- | --- | --- | --- |
| Hybrid clock, `core/src/sync/hlc.rs` | two atomics: wall time, counter | `tick`, `merge` | skewed clocks, clocks set back, restarts, threads |
| Conflict resolution, `sync/lww.rs` | nothing (pure) | `resolve`, `merge_field_updates` | any order of arrival, repeats, ties |
| Idempotency cache, `sync/idempotency.rs` | a bounded queue of event ids | `check_and_insert` | eviction at the limit |
| Sync network, `sync/network.rs`, `retry.rs` | nothing between calls | `push`, `pull`, `snapshot`, `ack`, and retrying forms | lost requests and replies, partial commits, retry budget |
| Prompt bridge, `bridge/router`, `bridge/orchestrator.rs` | nothing between prompts | `route`, `run`, `dispatch` | overrides against privacy, failover, ties in scores |
| Budget enforcer, `bridge/budget.rs` | two counters | `within_budget`, `record_spend`, `reset` | check and record are separate; u32 truncation |
| Model downloader, `core/src/models/downloader` | `.partial` and final files | download, resume, fallback, verify | dropped and shared downloads, servers that ignore Range |
| Model cache, `core/src/models/cache.rs` | models on disk and an index file | `register`, `touch`, `evict_lru`, `cleanup_orphans`, `open` | failing writes and kills between a file and its entry |
| Mobile offline queue, `mobile/services/offline-queue` | one AsyncStorage key, a lock flag | `enqueue`, `drain`, `clearQueue` | every await, kills, storage faults |
| Mobile network status and mutation hook, `mobile/hooks` | a module flag, a rendered flag | listeners, polls, `enqueueMutation`, `drainNow` | stale closures and late answers |
| Mobile message sending, `useSendMessage.ts`, the chat screen | a conversation, bubbles | `sendMessage`, its retries, `retryLast` | retries of half-done work, lost answers, replays, a throw after success |
| Mobile voice input, `useVoiceInput.ts`, the voice screen | a status, one recording | start, stop, cancel, unmount | awaits that outlive what started them |
| Mobile encrypted database and Flutter import, `encryptedDB.ts`, `migrationService.ts` | a key, a file, a flag, rows | `open`, `migrateFromFlutter`, writes | check-then-await, faults and kills between steps |
| Web onboarding, `OnboardingWizard.tsx`, `app-store.ts` | the step, an url, the settings | probe, continue, back, commit | late probes, repeated commits, exit animations |
| Web accounts, `PoolManager.tsx` | a dialog with an interval and a timeout | pick, poll, close | leaked timers, late lists |
| Web chat, `InputBar.tsx`, `chat-store.ts` | one stream, a controller per bar | send, stop, change of page | two streams, a bar that is replaced |
| Web voice call, `call/page.tsx` | a phase, a room, a transcript | start, hang up, reset, leave | answers of calls left behind |

The parts meet as follows. A local edit is stamped by `HlcGenerator::tick`,
joins an `EventEnvelope` log and is pushed through `SyncNetwork`. Another device
pulls it, absorbs the stamp with `merge`, drops it when `IdempotencyCache` has
seen it, and reads the entity through `resolve`. On mobile, mutations made
offline go through the offline queue; the network listeners and the hook decide
when it is drained. Messages and the Flutter import write the tables of the
encrypted database. A prompt goes through `Router::route`, which the orchestrator
executes and, when a cloud route fails, falls back from. A downloaded model is
registered in the cache. The web app's components share a store and a server.

`PROJECT.json` lists every component, the ones that are not modelled included,
and the hazards of the code, each at its line with the properties about it.

## 2. Modules

| Module | Models |
| --- | --- |
| `Hlc` | the timestamp order and what `tick` and `merge` compute, as operators |
| `HlcClock` | many devices, each with one generator, exchanging stamps over an arbitrary network, with clocks that move and processes that restart |
| `HlcGenerator` | abstract specification: each call is one step to the stamp it returns |
| `HlcAtomics` | one generator shared by threads, each load and store of the two atomics a step |
| `PushContract` | abstract specification of what a caller of push may rely on |
| `SyncNetwork` | the calls, their retry loops, the wire, and an external server |
| `Lww`, `Idempotency` | conflict resolution and the cache, as operators |
| `Replicas` | devices that edit one entity: composes `Hlc`, `Lww` and `Idempotency` |
| `Router`, `Bridge` | routing as operators; one prompt through the orchestrator |
| `Budget` | the enforcer under concurrent prompts |
| `ModelDownload`, `ModelCache`, `ModelStore` | downloads of one model; the cache of all; both |
| `OfflineQueue` | the queue: one action per stretch of code between two awaits |
| `OfflineMutation` | the hook and the network status on top of `OfflineQueue`, whose actions it takes as its own |
| `SendMessage`, `VoiceInput`, `MobileChat` | sending with its retries; recording; both screens |
| `LocalStore` | `open` and its key, the import at each launch, and the rows both write |
| `Onboarding`, `PoolManager`, `Chat`, `VoiceCall`, `WebApp` | the four stateful components of the web app, and all of them |
| `Hlc_proofs` | theorems about `Hlc`, `HlcClock`, `HlcAtomics` and its refinement of `HlcGenerator` |
| `Sync_proofs` | theorems about `SyncNetwork`, its refinement of `PushContract`, `Lww` and `Replicas` |
| `Bridge_proofs` | theorems about `Router`, `Bridge` and `Budget` |
| `OfflineMutation_proofs`, `ModelStore_proofs`, `LocalStore_proofs`, `MobileChat_proofs`, `WebApp_proofs` | theorems about the module of that name and those it composes |
| `MC*` | instances for TLC; they only supply constants |

State and steps. Variables carry the names of the code's fields where it has
them (`wall`, `lamport`, as
`aWall` and `aLamport` where they are shared by threads, `attempt`, `draining` for `_draining`, `lastKnown` for
`_isOnline`). A point where the code awaits, or touches an atomic, ends a step:
everything up to it is one action, and a response, a timer or an event that
arrives is another. A call is a record of its local variables with its program
counter (`drains[d]`, `sends[i]`, `calls[i]`, `tries[i]`), because calls go on
when the component that made them is gone; where their order matters they are
numbered by it. The sort of `resolve` is stated by the place of each event, the number of
those the stable sort puts before it, and its loop by the recursive function of
what it holds after each turn; both can be reasoned about, unlike the sorting
and folding operators of the libraries. Variables marked *history* in their comment exist for properties only; no
guard reads them, except where a bound does (`nIssued`, `calls` of `Budget`,
`lapses`, `restarts`). Definitions marked *mutated* are slips a programmer could
make there. No specification uses them: each shows that one of the properties
notices it.

`ModelStore`, `MobileChat` and `WebApp` put components side by side that share
no state in the code: a behaviour is one of either, chosen at the start, so that
one run checks them without multiplying their states.

What is external, modelled only as far as the code relies on it: the sync server
(one result per event, duplicates recognised by `event_id`, events that are always
rejected and others that meet a "store error" in one push and are stored by
another, 5xx possibly after part of a batch was stored, a pull that answers with
the events after the cursor it was given), the servers of models, messages,
accounts and calls (a request may fail after it was carried out), the offline
exchange of `@nself/graphql-client` (a mutation that failed may be replayed,
`mobile/services/chat.ts:170-184`) and the native bridge (a call may throw where
it stands), the network, the browser and React Native, the operating system that
kills a process, the client loop that hands pulled events to `merge`,
`check_and_insert` and `resolve` (sections 3 and 4 of the protocol; `client.rs` is
still a stub), and the callers of the budget enforcer.

## 3. Runs

| Run | Bounds | Shows |
| --- | --- | --- |
| `HlcClock` | 2 devices, 4 stamps, clock readings 0..2 that may step back, 1 restart | causal chains through both devices are ordered and no stamp is issued twice while no generator is rebuilt; no generator runs ahead of the highest clock or falls behind what it absorbed |
| `HlcAtomics` | 2 threads, 3 calls, 2 foreign stamps (smaller and larger device id) | `merge` always returns a later stamp than it was given; until two calls overlap the loads and stores implement `HlcGenerator` |
| `SyncNetwork` | 2 calls of any kind, 3 attempts, statuses 200, 403, 503, 2 events of which the server always rejects one and may reject the other | `Ok` is true, every call returns unless one of its requests hangs, and the pushes implement `PushContract` |
| `OfflineMutation` | 3 mutations, 2 drains, size limit 2, 1 kill or failed write, 2 network changes with NetInfo and 1 without, calls overlap, reads may fail, the app unmounts and mounts the hook | a mounted hook does not stay offline once the module knows better; the stored queue keeps its order; retry counts are earned; while calls are awaited one by one no stored mutation is lost, and each kill or failed write repeats a success at most once |
| `OfflineMutation_race` | 1 mutation, 4 drains, no faults | a violation, see below |
| `Replicas` | 2 devices, 3 events, clock readings 0..1, 1 restart, 1 repeated delivery per device, cache of 2; pushes at any time | last-writer-wins converges, tombstones hold, own writes are visible at once; every device comes to the same entity unless its cursor went past an event |
| `Bridge` | every request and context over prompt sizes 0, 2 and amounts 0, 2, 30 (below, at and above what the rates make of them) | where a prompt may go, and what a failure does |
| `Budget` | 3 callers, 5 prompts, 1 reset, a counter of 4 values | concurrent prompts overshoot by at most one prompt each |
| `ModelStore` | 2 downloads of 2 chunks, 3 starts, 1 wrong chunk; 3 models in 3 files, one of two units, cache target 2, one imported, 3 uses | an installed model is whole, a download ends or hangs at one point, no evicted model is counted unless a kill brought it back, eviction takes the least recently used and no more than it must |
| `LocalStore` | 2 openers, 3 launches, 2 faults, one replaced and one kept table with a row each and one of the user's | the stored key fits the file, the import is marked done only when complete, no edit is undone |
| `MobileChat` | 2 messages, 2 calls at once, 2 attempts, 2 presses of Retry; 3 recordings, 2 visits | sent means stored in the conversation shown, what was seen stored is not stored again; a microphone that is on is shown |
| `WebApp` | 2 urls, 1 act, 2 commits; 2 tries, 2 dialogs, 2 accounts, 1 poll in flight; 3 messages, 2 bars; 2 calls, 2 visits | what each component shows or saves is true in every order of answers, timers and clicks, outside the cases named in section 4 |

The bounds are small but reach the cases that matter. Three events and two devices
are enough for a concurrent pair and a third that depends on one of them; four
stamps for a causal chain that crosses devices twice; three attempts of the
client's calls for a retry that is neither the first nor the last (two of the
chat's, where the attempts between differ in nothing from the last but its end); a
size limit below the number of mutations for eviction under a stale copy; two
foreign stamps for each branch of `merge`; three launches for an import that
fails, fails after part of its work, and succeeds; two of each of the web app's
calls for an old one whose answer meets a new one, and a third message for a
stream that is neither. Every bound is a constant whose comment says *bound*, and
it stands in a guard. One act outside the wizard is enough for a commit that
undoes it, since commits only differ in whether they started before. The largest
runs are `OfflineMutation` (8.7 million states), `MobileChat` (3.2 million),
`WebApp` (450,000, with liveness), `ModelStore` (430,000) and `Replicas` (310,000,
with liveness). `CHECK_DEADLOCK FALSE` is set where the bounds or the end of what
is modelled stop the system. The symmetry sets hold values that are only compared.

## 4. Where the code and its comments disagree

`OfflineMutation_race` has a run of its own: the device reconnects while
`enqueue` is awaited. The listener drains a queue without the item, and the call,
holding the old `isOnline` (`useOfflineMutation.ts:131`), does not drain.
`useOfflineMutation.ts:5-6` promises the drain.

The others follow from definitions of the models. Where a property has an
*unless*, its history variable stands for one of them, and without it TLC finds
the case.

Core.

- A device merges a stamp ahead of its clock, restarts, and stamps the next
  event before it: the generator is never stored (`hlc.rs:84-92`), while
  `protocol/sync-protocol.md:187` states causality without exception
  (`CausalityWhileRunning`).
- With two threads on one generator, a call can return a stamp no later than one
  returned before it began.
- Two different events with one timestamp, possible after a restart with a clock
  set back, resolve in order of arrival (`ConvergedUnlessTied`).
- A pull asks for what is after the cursor (`network.rs:113-118`), and the cursor
  holds the wall and lamport of the last event, not its device. An event that is
  pushed after a later-stamped one was processed, or that shares wall and lamport
  with it, is never pulled (`Overtaken` in `EventuallyConverged`).
- The client has no timeout (`network.rs:187`): a server that neither answers nor
  closes holds a call, and its retries, for ever (`CallsReturnOrHang`). So has the
  downloader (`downloader/mod.rs:74-77`), whose stream moves only while it is
  polled (`DownloadsEndOrHang`).
- A session override sends a `LocalOnly` prompt to the cloud (`router/mod.rs:46`);
  `router/types.rs:31`: "Content must never leave the device."
- `max_cost_per_prompt_usd` is applied to frontier routes only, and the
  `AllowFrontier` boost (60) does not beat an online ServerMux (70).
- `within_budget` truncates milliseconds to 32 bits, so the limit on latency
  lapses when the counter wraps.
- `retry.rs:4` excludes all 4xx but 429 from retries; `is_retryable_status`
  also retries 408. The idempotency cache evicts first-in first-out, not least
  recently used (`idempotency.rs:4`).
- Two downloads of a model share one `.partial`; a file that was verified and
  renamed may still be written through the other's descriptor. A 200 answer to a
  Range request is appended. A hash that is not pinned yet is not verified
  (`InstalledIsWhole`).
- `register` asks for no file (`cache.rs:203-213`, and the test
  `cache_lru.rs:147-150` relies on it), and a kill between an eviction's removals
  and its write of the index brings the removed models back into the next
  process's index (`unbacked` and `revived` in `IndexedIsPresent`).

Mobile.

- Two queue calls that overlap read the queue before either writes it, and one
  write undoes the other (`index.ts:127`); `useOfflineMutation.ts:23` calls queue
  operations atomic. A `getItem` that rejects reads as an empty queue
  (`index.ts:92`), and the next write erases what was stored (`Durable`).
- `drain` removes successful items once, at its end, not "immediately"
  (`index.ts:160-161`). `SucceedsOncePerLapse` counts the consequence.
- Without NetInfo, an outage that no poll notices fires no listener afterwards. A
  hook reads `_isOnline` when it renders (`useNetworkStatus.ts:158`) and listens from
  its effect on (183): what the module hears between is lost on it, for good if the
  fallback polls (`missed` in `HookNotStuckOffline`).
- Two first calls of `open` both find no key: one stores its key and the other
  may make the file (`DataReadable`).
- A key store that cannot be read marks the import done, and the user's own rows
  make up for missing ones in its count (`MarkedOnlyIfComplete`). A failed write
  of the flag, or a partial import, runs it again: it overwrites drafts and
  messages edited since and brings back deleted actions (`EditsSurvive`). A
  partial `.bak` is never made whole. The comments say otherwise at
  `migrationService.ts:24-29` and `172-173`, `encryptedDB.ts:240` and `246`,
  `useEncryptedDB.ts:115-116`.
- Each attempt at a first message opens a new conversation id. A persist whose
  answer is lost, or whose mutation the offline exchange has queued, stores the turn
  again under a new row id and repeats the inference; one that mentions a rate limit
  is not retried although it is labelled `[Network]` (`useSendMessage.ts:149-156`,
  294). `insertMemory` is called inside the `try` (302-314): if the bridge throws
  where it stands, a turn that was stored and marked sent ends in "failed" with
  Retry, or sleeps and is sent again, a first one in a new conversation. While it
  sleeps the status is "sent", so the user can send another message beside it, and
  a Retry then sends the newest text, failed or not (`StoredOnce`, `SentIsStored`).
  Retry inserts the bubble again.
- The limit on a recording (`useVoiceInput.ts:22`: 60 s, auto-stop) never
  applies, because the timer's closure has the old status (lines 225-227).
  "error" never returns to "idle" (line 21), so voice input is dead until the
  screen is left. Leaving while a recording starts leaves the microphone on; a
  recording started after one that was too short and cancelled while it was being
  unloaded goes on without a button (`MicIsShown`). Leaving while one is
  transcribed still sends the text.

Web.

- A probe that ends after the url was edited marks the new url as valid; the
  server step can still be typed into while it moves out, past the check; and a
  second click while a step moves out skips the server step, or leads beyond the
  last one to a blank page (`ServerWasReached`, `DoneCompletes`).
- The last step commits again every second while `updateMe` is pending, and no page
  asks whether onboarding is complete. A commit that was in flight when the user
  changed a setting, or signed out, undoes it, and navigates from any page
  (`exposed` in `UserHasLastWord`).
- A second click on a provider leaks an interval, and timers set after the dialog
  closed are cleared by nobody (`NoStrayPolling`); the success of such a poll
  closes a dialog opened since. If the first list fails, the dialog waits for ever;
  so does one that is opened again while it fades out, after the poll that found the
  account has cleared its timers (`WaitingEnds`).
- After Stop the reader goes on until its pending read returns. A message sent
  before that mixes both texts, and the old stream's end clears the new one's flag
  and controller (`ShownIsOwn`). On the page of a new conversation Stop hides the
  stream and does not abort it (`StopReaches`). Two sends while the conversation
  is created make two conversations.
- The call page's handlers see the phase as it was when the call began, so an
  ordinary hang-up shows "Call disconnected unexpectedly" (`page.tsx:204-207`).
  A failed microphone, or leaving while connecting, leaves a room connected,
  against lines 14 and 175 ("no zombie rooms"); a late answer of an earlier call
  overwrites the phase of a new one, which then cannot be hung up
  (`LiveCallIsShown`). Lines that come in after a hang-up, and speech recognition
  that goes on after a drop, join the next transcript (`SavedIsOwn`).

## 5. Fairness

Safety assumes none, and no run assumes that a server answers. `SyncNetwork`
assumes that a sleeping call wakes, which the async runtime sees to; a send is
given no fairness, since the client is built without a timeout, so
`CallsReturnOrHang` leaves the call whose last request never settles.
`OfflineMutation` has a fair specification for what its actions do
(`OfflineMutation_race`): storage, the executor and an answered poll settle, and
React runs the effects of what it rendered; nothing makes the user enqueue, go
offline or open the app. `Replicas` assumes that a connected device pulls, again
and again, and that the pages arrive, but of pushes and of the subscription
nothing: the claim is about devices that have pushed all they wrote. `ModelStore`
assumes nothing at all: its liveness property says that what moves comes to an
end, not that anything moves. `WebApp` assumes that the timers of the browser fire
and its fetches settle, since the browser ends one whose connection dies: the last
step's timer and `updateMe`, and in the dialog the answers and the timeout of a
try; that a list arrives in time, or that the user does anything, is not assumed.

## 6. Proofs

TLAPS proves the following for every value of the constants, from the
assumptions named in the modules. Bounds are natural numbers, device ids are
numbers, the size limit is positive; callers, rows and downloads are finitely
many. A prompt has the fields of `PromptRequest` with any numbers in them
(`BridgeAssumption`), a status is one of HTTP's and a request is of one of the
client's kinds (`SyncNetworkAssumption`), and there is a file more than there are
downloads, as on a disk there always is (`ModelDownloadAssumption`).

**`Hlc_proofs`, many devices.** `TypeCorrect`; `CausalityHolds`, `DistinctStamps` and
`StaysCloseToWallTime`, that is, the three safety properties of the run for any
number of devices. Causality is not inductive: a step must know that the stamp
it returns is after everything in the device's past. `OrderInv` adds that a
running generator is at or after every stamp in its causal past
(`AfterItsPast`), that a device knows what it issued (`KnowsItsOwn`), and that
stamps and calls are equally many (`NoStampTwice`). A new stamp is strictly
after the old state of its generator, hence after all of its past; a repeat of an
earlier stamp would have been issued by the same device, so it would be in its
past. That the order is transitive, and that what tick and merge leave is later
than what they read, are lemmas, used for the atomics and for `Replicas` too.
`WallInv` bounds clocks, generators and stamps by the highest clock reading.

**`Hlc_proofs`, one generator** and any number of threads. `AtomicsTypeCorrect`;
`MergeIsLater`, from `ArgFits` (which calls are at which points);
`OrderedWithoutOverlap` and `LoadsAndStoresImplement`, the refinement of
`HlcGenerator`, from `SerialInv`: until two calls overlap, what the one call
under way has read is current, and everything settled is at or before the
generator's state, where a call between its two stores counts as not begun. That
reading of the state is also the refinement mapping, so a call takes effect at
its last store.

**`OfflineMutation_proofs`**: all five properties of the run.
`HookImplementsQueue` shows `Spec => QSpec`, so what concerns the queue alone is
proved of the queue. `TypeCorrect`, `DrainsAreExclusive`, `StoreStaysInOrder`,
`StoreStaysBounded` and `RetriesAreEarned` hold under overlapping calls, kills and
faults: stale copies are written back, but every copy in memory is in order
(`OrderInv`), within the limit (`BoundInv`) and counts only attempts that were
made (`EarnedInv`). `MutationsAreDurable` and `RepeatsAreLapses` hold while calls
are awaited one by one. Then no copy is stale: what an enqueue has read is all
that is stored, and so is what a drain has still to try, has kept or has executed
(`CopiesAreWhole`); and what any of them would write back was executed at most
once for each lapse so far (`OncePerLapse`), since a failed write or a kill, which
alone keeps an executed item stored, is a lapse itself. That ids are distinct, by
`OrderInv`, is what keeps the item just executed out of the rest.

**`Sync_proofs`, the client.** `OkIsAlwaysTruthful` by `NetworkInv`: what a reply
says is accepted or duplicate was in the server's log when it was sent, and what
can never be stored was rejected (`RepliesInv`); log and acks only grow
(`EveryStepKeeps`), so it is true when it is read and stays so after the return
(`ResultsInv`), however late it comes. Nothing follows from a "rejected" about the
log, which another push may have changed. `AttemptsAreBounded`.
`ImplementsPushContract` maps a call's start to making a push, a server's commit
to a growing log, and the answer that ends a push with `Ok` to its report; every
other step (a failed attempt, a lost message, a wait, a kill, all of ack, pull and
snapshot) is a stutter.

**`Sync_proofs`, the replicas.** `ResolveReturnsWinner` is about `resolve` alone:
of any log, in any order and with any repeats, it returns a latest event, and a
delete if one shares the latest stamp. The places are a permutation that respects
the order (`PlaceNumbers`, `SortedSorts`); what holds after each turn of the loop
(`TurnsInvariant`) is shown by taking the first turn at which it would not
(`LeastExists`), since the library's induction takes a predicate as a parameter.
`ReplicasConverge` and `TombstonesHold` follow with the types alone: two logs that
hold the same events have the same winner, unless stamps tie. `OwnWritesSeen` needs
`GenInv`: until a restart a generator is at or after everything its device holds,
because what arrives is merged before it joins the log, so an edit is stamped
strictly after all of it and wins.

**`Bridge_proofs`, prompts.** `PickIsBest`: of any candidates with the local model
among them, there is exactly one that is preferred to all others, and `Pick` is
it, so neither the order of the code's vector nor the stability of its sort
matters. `CloudOnlyAsAllowed` and `LocalIsAlwaysLast` by `BridgeInv`: the decision
stands for the whole prompt (`DecidedOnce`), and where the prompt is tells what was
tried and how it went (`RanFits`); a cloud route can be the decision only if an
override named it or it was eligible, and the failover only adds the local model.

**`Bridge_proofs`, the budget.** `BudgetTypeCorrect`; `OvershootIsBounded`, by
counting the callers that are between check and record: each carries at most one
prompt's cost.

**`ModelStore_proofs`, downloads.** `InstalledStaysWhole` by `DownloadInv`: as long
as no two downloads ran at once, the one under way writes to the file under
the `.partial` path, which is not the installed one, and what is verified,
renamed or installed under a pinned hash is whole (`AloneInv`). A download that
opens a new `.partial` finds a file in nobody's use, by counting (`UnusedIsFree`).

**`ModelStore_proofs`, the cache.** `IndexedStaysPresent` by `PresentInv`: the
index on disk lists at most what was evicted since it was written beside the index
in memory, so the next process counts no more than that and what this one counts;
and what is counted has its file, or was registered without one, or was brought
back. `EvictionIsNeeded` by `EvictInv`: the entries still to look at are those of
the index and newer than all that went; what the sweep passed over is loaded or
imported; and with the last one removed put back the sizes exceed the target. That
there is an oldest entry at all is the least-number principle again
(`OldestIsOldest`).

**`LocalStore_proofs`**: all three properties of the run. `DataStaysReadable` by
`KeyInv`: while no two calls found the key store empty, a call that made a key is
alone in this, and every other that goes on has the stored one. `EditsAreKept` by
`EditInv`: without a fault the counts are right and the import brings every row
(`Smooth`), hence it verifies and marks in the launch it ran in, before the user
can edit. `MarkedIsComplete` by `CompleteInv`: but for the excused cases the rows
present came over (`Sound`), and as many of finitely many are all of them.

**`MobileChat_proofs`**: all three. `SentMeansStored` and `StoredOncePerAnswer` by
`SendInv`: a message marked sent has a row whatever happens (`SentHasRow`), and
until sends cross all is calm (`Calm`): one call runs at a time, seen in the
status unless it has thrown and sleeps (`OneCall`, `StatusTells`); a call that
opens a conversation is the first of the screen (`InConversation`); and the rows
of a message that may still be sent are all owed to attempts that failed although
their row was kept, those of any other but for one (`RowsAreOwed`).
`MicrophoneIsShown` by `VoiceInv`: no take outlives its visit without an excuse
(`NoneLeftBehind`), and in a visit without haste one take at most is active and
the status tells how far it is (`OneTake`).

**`WebApp_proofs`**: the eight safety properties. Onboarding: while the url stays,
every probe is one of it, and the verdict is on it, also in the step that moves out
(`ProbedIsTyped`); a commit holds the settings of the user's last act unless it was
in flight then (`CommitsAreCurrent`).
Accounts: a list in flight, like the one that is, is no longer than the base and
what was added since account for (`AddedSince`); in a dialog that never had two
tries the one there is has the refs (`OneAtATime`). Chat: unless messages crowd,
the one in flight is the newest (`FlightIsNewest`), and while a stream is shown
its own bar can abort it (`NewestIsAbortable`). Calls: a room that is connected
belongs to a call that awaits its microphone, is up, or was left (`CallLife`); a
page in a call holds the newest one (`RoomIsHeld`, `DialIsShown`); its lines, and
what was sent of them, are the call's own (`LinesAreOwn`, `SentIsOwn`).

Every inductive invariant was checked by TLC on the run's instance before its
proof.

Only model-checked: the five liveness properties (`CallsReturnOrHang`,
`EventuallyConverged`, `DownloadsEndOrHang`, `DoneCompletes`, `WaitingEnds`), since
liveness under fairness is out of the prover's reach, and the violation of
`OfflineMutation_race`. Every other property of a run is the statement of a
theorem. The proofs are about the models as they are: what is left out of a
model (section 7) is left out of its theorems, and the *unless* of a property
(section 4) is part of what is proved.

## 7. What is not modelled

`PROJECT.json` lists each part with its reason. In short:

- Most of the TypeScript is views, and wrappers that send one request and show
  its answer (the sidebar, the model picker, the knowledge pages, `lib/api.ts`, the
  desktop settings). They keep no state that outlives a request, and what is right
  for them is decided by a server outside the repository. The four web components
  and the six mobile ones that are modelled are those whose timers, closures or
  requests outlive what started them.
- Stubs that nothing drives yet: the sync client's push and queue, the storage
  of its cursor and its snapshot; the ambient sensors, whose switch no caller sets.
- Encryption, signing, SQL, inference and platform glue, whose results enter the
  models as inputs. The iOS token refresh depends on what the token server does
  with a used refresh token.
- The database migrations: whether one may be applied twice depends on its SQL.
  The desktop's socket keeps the sender of a dead connection after a reconnect
  (`ws_client.rs:151-155`), on one fixed sequence of steps.

Within what is modelled: payloads are never looked at; prompts are their size;
token counts and costs are small numbers; the widths of the clock's counters are
left out (an incoming counter of 2^64 - 1 would overflow in `merge`), as are
delays and jitter; the atomics of `HlcAtomics` are sequentially consistent, while
the relaxed loads of the code may be staler still; one mounted hook stands for
all; `merge_field_updates`, a plain overwrite, is left out.

## 8. Order of the work

1. The clock, the queue, the network, resolution, the bridge and the budget, with
   the proofs of the clock and the queue.
2. The model store, the local store, the mobile chat and the web app, with the
   proofs of the last three, and of the mutation hook.
3. The proofs of the network client and its contract, of resolution and the
   replicas, of the router and the orchestrator, and of the model store.
4. Left: how often an event may join a log again once the cache has forgotten it,
   which no property states yet; the iOS token refresh and the desktop
   socket once what their servers do is fixed by the repository.
