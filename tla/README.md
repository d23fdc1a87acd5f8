# Curtilage: a TLA+ model

Curtilage sits between Frigate (an NVR that tracks objects on camera streams
and reports them over MQTT) and household clients. It turns tracked objects into
*events*, keeps them in memory, streams them to clients over gRPC, serves the
media (snapshots, clips, stitched renders) that belong to them, records all it
hears to be able to start again, and decides who may ask.

This directory holds TLA+ modules translated from the Go source, the TLC
configurations that check them on small instances, and TLAPS proofs of the
safety properties, for every instance. `PROJECT.json` maps every
definition to its source lines and lists runs, mutants, hazards, findings and
theorems.

    tlc -workers 2 -config Occupancy.cfg MCOccupancy
    tlapm StoreProofs.tla

## 1. The system's parts

```
 Frigate --MQTT--> mqtt.Client --chan--> pump --+--> recorder (files) --> rebuild at start
                                                |
                                                +--> engines --> store --+--> WatchEvents / ListEvents / house pages
                                                                         +--> warmer --> media cache
 Frigate --HTTP--> fetch  <------- media serving, warmer, stitch worker -----------^
 devices, admins --> authorize / admin pages --> registry (one file)
```

| Component | State | Operations | Hard behaviour |
|---|---|---|---|
| Broker session `internal/mqtt/client.go` | subscription, receive stamp | connect, deliver | handlers run concurrently, so receive times may run backwards; messages are lost, repeated, dropped by a full queue |
| Occupancy engine `internal/policy/occupancy.go` | track table, ledger per (zone, label) | `Observe` = `absorb` + `tick` | two timers that flicker, restarts of Frigate that change object ids, boxes that supersede |
| Incident engine `internal/policy/incidents.go` | open incidents, members, closed objects | `Observe`, close after a gap | joining by adjacency, stragglers, moved starts and cameras |
| Passthrough engine `internal/policy/policy.go` | live objects | started / updated / ended | an update after the end starts the event again |
| State engine `internal/policy/states.go` | state, candidate and alarm timers per model | `Observe`, `tick` | hold and alarm timers over times that run backwards |
| Ingest pipeline `cmd/curtilage/main.go` | two bounded channels | pump, shutdown | blocking sends, drain order, a recorder that has failed |
| Recorder, rebuild `internal/record`, `internal/store/rebuild.go` | recording files | rotate, replay, prune files | torn files, replay order, pruning a file being written, crashes |
| Store `internal/store/store.go` | `byID`, `ordered`, histories, subscribers | `Apply`, `Prune`, `SawCamera`, `Watch`, `drop`, `List` | snapshot against fan-out, bounded channels, a channel closed from two places, paging over a moving list |
| Event RPCs `internal/server/server.go` | none | `WatchEvents`, `ListEvents` | cut-off clients, retry |
| Media cache `internal/mediacache/mediacache.go` | entries, LRU numbers, byte counter, flights, fill slots, files | `Get`, `Fill`, `Put`, `Evict`, `shed`, `New` | single flight, cancellation, slots, file operations outside the lock, restart |
| Media serving `internal/server/media.go` | spool slots | `MediaHandler`, `GetMedia`, links | which cut is stable, falling back, spool slots on every way out |
| Warmer `internal/server/warm.go` | working set, goroutines, ladder | boot pass, follow, seal | `select` among ready channels, moved starts, eviction by key |
| Stitch worker `internal/server/stitch.go` | two queues | request, render, put | one worker that also requests, full queues, fills under final keys |
| Device registry `internal/devices` | secrets, devices, passkeys, one file | enrol, authenticate, revoke, add, remove | a failed save, one-time secrets, expiry, restart |
| Authorization, admin pages `internal/server/auth.go`, `internal/house/admin.go` | sessions, challenges | authorize, register, log in, administer | one lock per step: what was checked may have changed |
| Capability tokens `internal/captoken/captoken.go` | current and prior key | mint, verify | keys rotated over a pool of instances |
| House pages `internal/house/house.go` | none | who is calling, list, event, stitch | forwarded chains, paging, renders asked for |
| Edit list `internal/edl/edl.go` | none | choose shots | hysteresis, stale evidence, boundaries |
| Configuration `internal/config/config.go` | read once | rules, defaults, keys | edges of every range |
| Frigate client, WebAuthn, metrics, fixtures, descriptions | none | parse, verify, render | stateless |

The pump's goroutine is the only writer of events; the store's mutex makes
each of its operations atomic; clients, the warmer and the pruning timer run
concurrently with it. The media cache is shared by requests, by the warmer's
goroutines and by the stitch worker. Every request to the admin pages or the API
runs in its own goroutine over the registry's mutex.

What makes each modelled part correct:

* **Occupancy**: the believed count follows what is seen, neither sooner nor
  later than the two timers allow; an object is never counted twice; an
  announced departure says when the object was last seen; ids do not collide.
* **Incidents**: an object belongs to one incident; ended incidents stay ended while
  they are remembered; what is said of an id is a start, updates, an end; the counts are
  what was on screen together.
* **States and pipeline**: every event is earned by what was fed; a clean exit loses
  nothing; a restart remembers what was recorded, in order; queues drain and a
  shutdown ends.
* **Store**: map and list agree and stay sorted; a watcher's snapshot and stream
  fit together without a gap; each channel is closed once; paging misses nothing.
* **Media cache**: map, byte counter and directory agree; one download per key;
  the newest cut is kept; every call returns; every slot is given back.
* **Warmer and stitch worker**: the working set stays bounded and nothing in it is
  leaked; no cut is stored before the recording has settled; after the seal the final
  cuts and only they remain; rendering goes on.
* **Registry and access**: a device with a token is never forgotten, one expelled is
  never let in; secrets and challenges are used once; the bootstrap ends for good.
* **Links**: a rotation of keys breaks no link.
* **Edit list, caller, configuration**: the answers are what their definition says.

## 2. Modules and the code they model

Every operation under a mutex is one action. Where a goroutine can be overtaken
between two critical sections, a channel operation or a file operation, the
model has one action per piece. Mutated definitions (named in a comment
as mutants) stand directly before the definition they mutate and are used by
nothing else.

Loops over a sequence are recursive functions (`Shed`, `Snapshot`, `Chosen`, `SamplesOf`,
`Build`, `Rebuilt`): one turn of the loop per step, in the code's order, in a form
that can be proved about.

Several modules have a constant `Worlds`: a set of records of settings and bounds, of
which `Init` picks one for the whole behaviour. One run then covers several situations,
each with bounds that fit it.

| Module | Models | Composed with |
|---|---|---|
| `Occupancy`, `OccupancyProofs` | occupancy engine | |
| `Incidents`, `IncidentsProofs` | incident and passthrough engines | |
| `States` | state engine, as operators | driven by `Pipeline` |
| `Pipeline`, `PipelineProofs` | handlers, pump, recorder, shutdown, rebuild, retention | extends `States` |
| `Store`, `StoreProofs` | store, event RPCs, list page | |
| `MediaCache`, `MediaCacheProofs` | cache, media requests, stitch worker's Put | |
| `Warmer`, `WarmerProofs` | warmer, cuts, stitch queues and worker, event pages | |
| `Registry` | device registry | |
| `Access`, `AccessProofs` | interceptors, admin pages | extends `Registry`, implements `Membership` |
| `Membership` | what registry and interceptors promise (abstract) | |
| `Links`, `LinksProofs` | keyring and rotation | |
| `Follow`, `Gate`, `Settings` | edit list, caller, configuration, as operators | asked by `Questions`, proved about in `LinksProofs` |

### Occupancy (`Occupancy.tla`, `OccupancyProofs.tla`)

`tracks` is `Occupancy.tracks`, `ledgers` is `Occupancy.ledgers`, `changes` is
what the last `Observe` returned. `ObserveSighting`, `ObserveEnd` and
`ObserveOther` are `Observe` for a new/update message, an end, and everything
else; each first absorbs and then ticks *every* ledger, as the code does. `Tick`
picks the remembered object nondeterministically because the code takes it from
a map iteration. A watch is a record of a zone, labels and two timers;
`WatchOf` and `LedgerWatch` reproduce that `NewOccupancy` overwrites the watch of
a zone but keeps the ledgers of every entry.

Environment: any message at any time. Messages may be lost (an object whose end
never comes), repeated, or late; a receive time may lie up to `Skew` behind the
newest one, because `SetOrderMatters(false)` lets MQTT handlers run concurrently
and each stamps its own time before it queues. `held`, `dip` and `issued` are
history variables that no action reads: since when every message has placed an
object in a zone, since when a belief exceeds what is seen, and all identities
handed out.

Left out: plates, sub-labels, snapshot flags, scores (display data). The overlap
test is kept exactly, on integer boxes: `iou >= 0.7` is `10*inter >= 7*union`.

### Incidents (`Incidents.tla`)

`open` and `closed` are the fields of `Incidents`, `live` the table of the passthrough
engine behind it. `Settled` is the closing pass every message begins with;
`ObserveSighting` is a message that is taken into an incident (found by its object, else
the oldest within reach, else a new one), `ObserveDetection` one handed to the
passthrough engine, `ObserveTick` everything that only moves the clock: other topics,
false positives, stragglers, ends of objects never seen. `Build` and `SameActivity` decide
what is said. The environment is that of Occupancy, with one start time per object (`began`)
and an end reported up to `Lag` late.

An event's id is minted from its first member (or its object), so the object stands for the
id. The path is a set, because zones are only added; the media flags (snapshot, clip) are
one flag; the label, source ids and spans of an event are left out.

### States and Pipeline (`States.tla`, `Pipeline.tla`)

`States` has `Observe` as pure steps over the engine's state (`Heard`, `Settled`,
`Ticked`, `Observed`, `Events`); `Pipeline` runs it live and in the rebuild. The actions of
`Pipeline` are the goroutines: `Receive` and `Queue` (a handler stamps, then queues or
drops), `PumpFeeds`, `PumpSends` (may block), `PumpEnds`; `RecorderWrites`,
`RecorderRotates`, `RecorderFails`, `RecorderCloseFails`, `RecorderEnds`; `PruneFiles`;
`Stop`, `CloseRecords`, `Exit` (the close chain of `cmdRun`), `Refused` (the broker will
not have the session); `Crash` at any point, leaving any prefix of the open recording, and
`Restart`, which deletes what is past retention and replays the rest in name order.

A recording is its second, its suffix, whether its name is still in the directory, whether it is
torn, and its messages. `ReadFile` sorts a whole file by log time and takes a torn one as it was
written, as the reader does. A payload is the verdict it carries. `feed`, `accepted` and
`whole` are history: what this life's engine was fed, what was queued, and whether anything
was lost.

The MQTT library is assumed to wait for running handlers in `Disconnect`; a handler that
queued after `close(records)` would panic. Left out: running without a recording directory
(the recorder is then a drain), replay and trim commands, the listeners' own shutdown.

### Store (`Store.tla`)

`byID`, `ordered`, `cameras`, `applied` are the fields of `Store`; `subs` the
subscribers with their channel, `dead` flag and number of closes. `Apply`,
`Prune` and `SawCamera` are the operations; `Subscribe` is `Watch`
(snapshot and registration under one lock), `Drop` its goroutine, `Receive`,
`CutOff` and `Leave` the loop of the `WatchEvents` handler and its two ends. A
client that was cut off watches again with the same `since`, as the error text
tells it to. `ListEvents` and `HousePage` are the two readers that page: the house page
stops at the first event older than its window. An event is abstracted to its list position, its
camera and `rev`, the value of the applied counter at the time: two stored states are equal
exactly when their revs are. `Apply` takes any start, as the code does: `ChangesAlternate` of Incidents
shows that an id begun once only moves to earlier ones, but an incident reopened under the id of a
closed one may start later. It can then pass a reader that has not come to it yet
(`Overtakes`), which is no longer owed it; section 4 says what that means. The clock advances
by at most one between two operations.

Left out: metrics counters, reads without effect (`Get`, `History`, `Stats`,
`Cameras`), and the wire conversion.

### MediaCache (`MediaCache.tla`)

`cache` is the state under the mutex together with the completed files; `parts`
the part files; `inflight`, `slots` and `call` the flights, the fill slots and
where each caller stands; `spools` the spool slots. A `Fill` is `Hit`, or `Join` and wait, or
`Lead`, `TakeSlot`, `Fetch`, `Copy`, `Enter`, `Release`, `Unflight`, `Close`, `Return`,
in the order of the code's deferred calls. A request that finds no stable cut (`Unstable`), or
whose fill failed, is answered directly (`Direct`, `Answer`): spooled to a file when a slot
is free (`TakeSpool`, `Spool`), else streamed (`Stream`). `Cancelled` is the end of the
caller's own context, `Stitch` ... `Put` the stitch worker, `Restart` a crash at any point
followed by `New`. Last-use numbers are abstracted to the order they induce, files to their size.

Left out: fsync pacing and content of files; the work directory of a render.

### Warmer (`Warmer.tla`)

`store` and `feed` are what the warmer sees of the event store (its own
subscription included: a full channel closes and `Warm` returns), `order` and
`watching` the working set, `live` the goroutines, `cuts` the keys in the cache,
`mine` and `shed` (history) the keys a goroutine filled and those the cache's budget took out again,
`asked` the key each viewer's request has come to. `BootWarm`/`BootDone` are the pass
over known events before the loop, `WarmStarted` ... `WarmReturns` the loop,
`LiveGets` ... `EvictCheckpoints` the steps of `warmLive`, `warmFinal` and
`evictCheckpoints`. A viewer's request for one camera's clip is two steps, because the event and its
cut are read before the cache is filled: `ViewAsks` settles on a key, `ViewFills` finds it there, puts
it there whatever the warmer has done meanwhile, or fails. `Shed` is the cache over its budget, in
the worlds that have it (`sheds`): any cut may be the oldest. `ClipCached` is the house page's bolt. The choice
of `select` among ready channels is the choice among enabled actions. `EndEvent` may announce an
end that lies up to `lag` in the past, because an incident is closed a gap after its last
sighting, and a start may move earlier. Times are whole seconds, as in the keys.

`renders` is `stitchLo` and `stitchHi`, `worker` the stitch worker: it polls the lo queue,
else blocks on both, fills every camera's final cut, renders, puts, and requests the hi
variant. `StitchPage` and `EventPage` are the pages that ask for renders, the warmer asks
after a seal. A world with `hasty` has someone who opens the page of an event before it has
settled; the others do not.

Left out: the snapshot (filled like a final cut), the sizes and the order of use by which the cache
sheds (MediaCache has them), and an event that starts again after it ended, under the same id: an
event is begun once, and forgotten once.

### Registry, Access, Membership

`Registry` is the registry: each operation holds the mutex and is one action, with a
parameter `ok` that says whether its save reaches the file; a failed one leaves the change in
memory. `Access` adds the requests, one step per lock: `BeginCall`, `Authorized`,
`Served`, `Forget` for gRPC; `BeginRegister`, `Authed`, `TakeChallenge`, `FinishRegister`,
`CountLogin`, `OpenSession` for the ceremonies; `DoMint`, `DoRemove`, `DoRevoke` for a
session's requests. Secrets, sessions and challenges lapse in steps of their own, and
`Restart` keeps the file only. Random numbers are model values drawn from `fresh`, so they
never repeat; a device is named by its token; a ceremony verifies or does not.

`Membership` is the abstract specification: a device is a stranger, a member, suspended (revoked,
and not written down) or expelled; a call is admitted for members only unless there are none. The
refinement mapping `StandingOf` reads a standing off memory and file; there is no abstract
value for a device whose token was handed out and which the file has forgotten, so reaching
that would violate `ImplementsMembership`.

### Links

The keyrings of a pool of instances, each with the keys its environment had when it started, and
the operator who rotates as `captoken.go` says, one rotation at a time, and who may mistype: a
setting that a server refuses to start with leaves the old instance running. A key is a
number, and the MAC is injective.

### Follow, Gate, Settings, Questions

Pure operators: `Build` (edit list), `Caller`, `Allowed` and `Route` (who sees the house
pages), `SettingsAccepted` and `Filled` (configuration). `Questions` asks each of them
every question of a bounded set and holds the answer; the properties compare it with a
definition written differently (shots as tiles, the last stranger of a chain, `Usable` of the
settings). `Follow` takes the samples in the order they arrived, whatever their times, and walks
each camera's with a cursor as the code does: a sample that ran ahead of its time keeps those behind
it waiting. `ViewOf`, the reference, says the same without a cursor. Views are in hundredths.
The cameras of the run show no two views in the ratio 13 to 10 exactly, so floating-point
rounding decides nothing there; the iteration of a Go map is a choice, so `Build` is the set of
edits it may return.

## 3. What the runs check

| Run | Instance | Checks | States |
|---|---|---|---|
| `Occupancy` | two cars, one zone, timers 2 and 2, receive times 1..5, skew 1; or receive times 1..2 and three boxes: a spot, the spot re-tracked, the one beside it | `TypeOK`, `BeliefBracketed`, `DepartureAnchored`, `ArrivalDwelt`, `SpotCountedOnce`, `IdentityFresh` | 34 627 |
| `Incidents` | two people on one camera (gap 2, memory 1, skew 1, times 1..5); three people on a chain of cameras and a package | `CountsTogether`, `BoxesKeepOpening`, `OneIncident`, `StragglersStayOut`, `ClosesAfterGap`, `ChangesAlternate` | 42 186 |
| `IncidentsBoxOrder` | the two people on one camera | finding: `BoxesArriveInOrder` fails | |
| `Store` | three events, four changes, one paging reader, pruning; two events on two cameras, three changes, one client, two subscriptions, buffer 2 | `IndexConsistent`, `HistoryKeepsEnds`, `PagingMissesNothing`, `NothingSlips`, `ClosedOnce`, `CatchesUp` | 682 149 |
| `StoreWatchSnapshot` | the client with a buffer smaller than the snapshot | finding: `CatchesUp` fails | |
| `MediaCache` | two callers, two clip keys, one stitch key, sizes 1 and 3, budget 2, one fill slot, one spool slot | `SpoolsGivenBack`, `DiskAccounted`, `BudgetOrNewest`, `SingleFlight`, `FillReturns` | 124 112 |
| `Warmer` | two events and a working set of one, with or without one known at boot, and once with time to start in different seconds; one event on two cameras with two rungs, moved starts, late ends; a restart with two ended events and a stitch worker; a viewer of one event on two cameras, of two events after a restart, and of a cache that sheds | `WorkingSet`, `CutSettled`, `SealedClean`, `GoroutinesEnd`, `RendersGoOn` | 239 934 |
| `WarmerLostSeal` | one event, one rung | finding: `SealFollows` fails | |
| `WarmerStitch` | one event, a stitch worker, a page opened before the event has settled | finding: `CutSettled` fails | |
| `Access` | two requests; a household enrolling, a first start, a restart with a device on file | `DoorStaysShut`, `OneUse`, `ImplementsMembership` | 420 900 |
| `Pipeline` | three messages of one model, queues of one, hold 1, alarm 2, rotation 1, retention 1, clock 0..2, two lives, with and without overtaking | `EventsEarned`, `CleanExitKeepsAll`, `RebuildRemembers`, `PipelineDrains` | 919 931 |
| `Links` | two instances, three keys, lifetime 3, clock 0..9; every question | `LinksOutliveRoll`, `EditTiles`, `EditFollows`, `CallerIsLastStranger`, `FilledIsAccepted` | 289 220 |

Why the bounds are enough for the interesting cases to happen:

* *Occupancy*: five ticks hold an arrival (2), a departure (2) and a flicker
  between them; skew 1 with timers of 2 is the largest skew at which ids stay
  fresh. Two objects are needed for a count that falls without reaching zero. Where messages carry
  boxes, one message per object and a second to move a box are enough, hence the two ticks
  (`BoxedHorizon`); the theorem removes the bound.
* *Incidents*: five ticks hold one incident closed at 3 and a second closed at 5, whose
  closing forgets the first, so an object can come back. On the chain the third
  camera adjoins both others, so its object puts the younger incident's object within
  reach of the older one; all of this happens within one tick and the second closes
  them. Messages carry no media flag: the flag only accumulates. The two people on one camera
  are symmetric: nothing tells them apart, and no other world knows them.
* *Store*: three events give an entry a neighbour on both sides, equal starts
  included; four changes move one after all are stored; retention 1 in a clock of
  3 prunes them. `MaxHistory = 2` is the smallest history with a middle to drop. Buffer 2 is
  as large as the snapshot (the situation the code is sized for, 256 in the source) and smaller
  than the three changes, so both a client that keeps up and one that is cut off occur. Two
  subscriptions let a client watch again before the old one is dropped.
* *MediaCache*: one slot of each kind and two callers make every kind of wait occur; size 3
  over a budget of 2 is a cut larger than the whole cache; sizes 1, 1 fill it
  exactly.
* *Warmer*: a working set of one and two events overflow it, in three seconds; a fourth lets them
  start in different seconds, with keys of their own; two rungs are the fewest with a
  checkpoint that replaces another; five seconds let an event climb both, end and settle. One
  viewer is enough for a fill that began before an eviction and ends after it. A queue of one is full as soon as two renders are asked for.
* *Access*: two requests give every interleaving of two checks; two secrets with room for one
  make one evict the other; three challenges and two credentials let two registrations race, or one
  register, log in and add a second key, and then remove one of them. The
  theorems remove these bounds.
* *Pipeline*: with queues of one a blocked pump needs three messages; rotation 1 in a clock of 2
  gives two recordings of different seconds, requests give two of the same; retention 1
  deletes one of them; two lives are one rebuild.
* *Links*: three keys are two full rotations; nine seconds hold both, each with a lifetime of three
  before the prior key is dropped. The edit has eight looks, enough for three shots of the minimum
  of two with evidence going stale after three, and up to three samples of three cameras, in any
  order of their times, one of the cameras without a known resolution; chains have up to three addresses, malformed ones
  included; every duration is tried at both edges of its range and beside them.

Deadlock is checked everywhere but in the Warmer, Access, Pipeline and Links runs, where
everything may come to rest: the bounded clock has run out and the goroutines have ended, the
random numbers or the lives are used up, or the question is answered.

### Fairness

* Store: weak fairness of `Receive`, `CutOff` and `Drop` (loops and goroutines that
  the Go scheduler runs) and of watching again, which is the client that
  `CatchesUp` speaks of; writers have none. A client may leave at any time and
  is then owed nothing.
* MediaCache: weak fairness of a caller's steps: goroutines run, and a fetch ends
  with an answer, an error or its context. Strong fairness of `TakeSlot`: the slot
  is a channel send, and the Go runtime serves blocked senders first come first
  served, so no sender is passed over forever. Cancellation, eviction, restart and
  the stitch worker have none.
* Warmer: weak fairness of the loop, of each goroutine (a fetch ends), of the stitch worker
  (ffmpeg ends) and of the clock. Events need not end, and viewers need not ask.
* Pipeline: weak fairness of the handlers, the pump, the recorder, the closing of `records`
  and the exit: goroutines that run when they can. Messages, the clock, failures, the signal,
  crashes and restarts have none.

## 4. Findings

Four statements of the repository that the code does not keep; each has a run whose
counterexample is the scenario.

1. **A snapshot larger than the channel** (`StoreWatchSnapshot`). `Watch` offers the
   snapshot before it returns the channel, so nobody can read yet; with more touched
   events than `watchBuffer` the client is cut off at once, and again whenever it
   follows the advice to watch again. `curtilage.proto` promises that a client that
   reconnects "misses nothing".
2. **A seal that does not follow** (`WarmerLostSeal`). A rung's timer that fires
   just after the event ended makes `warmLive` return with the comment "the seal
   follows on OpEnded"; but `OpEnded` only closes the channel of that goroutine.
3. **A final cut filled before it settled** (`WarmerStitch`). The stitch worker fills every
   camera's final cut as soon as a page asks for the render; `warm.go` and `media.go` wait
   `clipMargin + warmGrace` for the same key, because "cutting before that recording exists would
   freeze a truncated clip under the final key". An incident closed while the end of a member
   was never reported ends at the closing message, so its page can be open that soon.
4. **Box evidence out of order** (`IncidentsBoxOrder`). `edl.go:45` takes the samples of a
   camera to be in time order, because "they arrive in order". A sample's time is its message's
   receive time, stamped by handlers that run concurrently, so a later one may be the earlier.
   The cursor at `edl.go:63` stops at the one that ran ahead, and those behind it go unheard until it
   is due: with samples of one camera at 5 and then 4, the look at 4 scores it blind.
   `EditTiles` and `EditFollows` hold of such evidence too, with what is heard defined as the code
   hears it.

### Smaller observations

Met while modelling, most of them confirmed on variants of the runs, and not kept as runs of
their own:

* `occupancy.go:113`: a second watch of one zone replaces the first, whose ledgers stay and never
  count; `config.proto:79` documents every entry as keeping its count, and nothing refuses the second.
* `occupancy.go:163`: an end that is lost, or overtaken by an update, leaves a track that is counted
  until another parked object claims its spot; tracks do not expire.
* `occupancy.go:295`: a departure sets the count to `max(q, raw)`, so that objects
  which have not dwelt count from then on; `config.proto:91` says an object must hold
  the zone that long "before it counts". `ArrivalDwelt` is stated for arrivals.
* `incidents.go:427`: `sameActivity` does not compare starts. A member that enters a
  zone already on the path can move the start earlier without an update; the store (and the
  warmer, whose keys carry the start) learns of it with the next update or the end.
* `incidents.go:285`: an object remembered for an hour and seen again after it opens a
  second incident under the id of the first, whose start may then lie later than the stored
  one: the one case in which an event moves forward in the store's list. A client that pages meanwhile
  and has not come to the event yet never sees it: it is behind the continuation token now.
  `curtilage.proto:57` promises "Events newest first, a page at a time, back to the edge of retention";
  new ones come by the stream (`WatchEvents`). `PagingMissesNothing` is stated up to this (`Overtakes`).
* `policy.go:268`: an update delivered after its object's end (the broker's handlers run
  concurrently) starts the same detection again, and nothing ends it.
* `store.go:338`: the filter looks at an event's present leading camera, which can
  change; a filtered client may then miss its end. `Owed` follows the code.
* `store.go:214`: `Prune` forgets a running event that started before the cutoff; its next update
  begins a new history.
* `house.go:247`: an event whose start moves between two pages may be counted twice in the page's
  total.
* `mediacache.go:134`: the leader's own context governs the shared fetch; when its client goes, the
  waiters get its error and fall back. `FillReturns` shows that they are woken.
* `mediacache.go:245`: `shed` keeps at least one entry, so a single cut may exceed
  the budget that `mediacache.go:79` calls a bound. `BudgetOrNewest` says exactly
  this.
* `mediacache.go:90`: `os.Remove` does not remove a non-empty work directory that a
  crash left behind (`stitch.go:156`).
* `media.go:433-435`: the direct path gives its answer the immutable tag of the final cut also
  while `media.go:198-204` holds that cut not to be settled yet.
* `warm.go:204`: when the end plus the margin falls on the last checkpoint's second,
  evicting that checkpoint evicts the final cut, whose key is the same. `SealedClean` has this as an
  exception (`OnRung`).
* `media.go:362`: a viewer's fill that began before a checkpoint was evicted may end after it and put
  the checkpoint back, where only the cache's budget takes it out again. `SealedClean` speaks of the
  cuts a goroutine put there.
* `warm.go:146`: a checkpoint's key is built from the present start; once the start
  has moved the older checkpoint is out of reach. `SealedClean` is stated up to this.
* `warm.go:57`: a burst that overflows the warmer's own channel ends `Warm` for good; and what starts
  or ends while the boot pass waits is never followed.
* `devices.go:165`: an enrolment whose save fails leaves the device in memory: the registry is armed
  by a device nobody can be, until a restart. Revoking the last device disarms it again.
* `devices.go:209`: `Revoke` and `Forget` ignore what the save reports; the device returns with a
  restart unless something else was saved (Membership's "suspended").
* `admin.go:248`: two bootstrap registrations in progress can both find no passkey and both add one.
  A session outlives the removal of its passkey; a sign count may move back when two logins race.
* `rebuild.go:130`: "name order == time order" fails for two recordings of one second (`-1` sorts
  before `.mcap`); `RebuildRemembers` is stated up to this and to handlers that overtake, where
  a whole file is read in log-time order and was fed in another.
* `main.go:204`: a recorder that failed wedges the pump once its queue is full, while the server goes on
  serving; the shutdown still ends (`PipelineDrains`). A registry that does not load makes `cmdRun` return
  without shutting the recorder down.
* `rebuild.go:95`: pruning goes by name and deletes the recording being written when retention is shorter
  than the rotation, which the configuration allows.
* `captoken.go:6-8`: during a roll, a link minted by a rolled instance is refused by one that is not yet.
  `LinksOutliveRoll` names this as the only reason.

## 5. What is proved

Eight proof modules, for every value of the constants that satisfies the modules' assumptions
(named `...Assumption`, beside the constants). The horizon and the other bounds of a run are
constants like any other: the theorems hold for all of them.

| Module | Theorem | States |
|---|---|---|
| `OccupancyProofs` | `TypeCorrect` | `Spec => []TypeOK` |
| | `BeliefIsBracketed` | `Spec => []BeliefBracketed` |
| | `DeparturesAnchored` | `Spec => []DepartureAnchored` |
| | `SpotsCountedOnce` | `Spec => []SpotCountedOnce` |
| | `ArrivalsDwelt` | `Spec => []ArrivalDwelt` |
| | `IdentitiesFresh` | `Spec => IdentityFresh`, if the skew is smaller than every timer |
| `AccessProofs` | `TypeCorrect` | `Spec => []TypeOK` |
| | `DoorShut` | `Spec => []DoorStaysShut` |
| | `AccessImplementsMembership` | `Spec => ImplementsMembership` |
| | `UsedOnce` | `Spec => []OneUse` |
| `IncidentsProofs` | `AlwaysOneIncident` | `Spec => []OneIncident` |
| | `CountsAlwaysTogether` | `Spec => []CountsTogether` |
| | `BoxesAlwaysKeepOpening` | `Spec => []BoxesKeepOpening` |
| | `StragglersAlwaysStayOut` | `Spec => StragglersStayOut` |
| | `ClosesAlwaysAfterGap` | `Spec => ClosesAfterGap`, if no skew exceeds its gap |
| | `ChangesAlwaysAlternate` | `Spec => ChangesAlternate` |
| `StoreProofs` | `IndexAlwaysConsistent` | `Spec => []IndexConsistent` |
| | `HistoryAlwaysKeepsEnds` | `Spec => []HistoryKeepsEnds` |
| | `AlwaysClosedOnce` | `Spec => []ClosedOnce` |
| | `NothingEverSlips` | `Spec => []NothingSlips` |
| | `PagingNeverMisses` | `Spec => []PagingMissesNothing` |
| `MediaCacheProofs` | `SpoolsAlwaysGivenBack` | `Spec => []SpoolsGivenBack` |
| | `SingleFlightAlways` | `Spec => []SingleFlight` |
| | `DiskAlwaysAccounted` | `Spec => []DiskAccounted` |
| | `AlwaysBudgetOrNewest` | `Spec => []BudgetOrNewest` |
| `WarmerProofs` | `WarmerTypes` | `Spec => []TypeOK` |
| | `WorkingSetAlways` | `Spec => []WorkingSet` |
| | `CutAlwaysSettled` | `Spec => [](world.hasty \/ CutSettled)` |
| | `SealAlwaysClean` | `Spec => []SealedClean` |
| `PipelineProofs` | `EventsAlwaysEarned` | `Spec => []EventsEarned` |
| | `CleanExitAlwaysKeepsAll` | `Spec => []CleanExitKeepsAll` |
| | `RebuildAlwaysRemembers` | `Spec => RebuildRemembers` |
| `LinksProofs` | `LinksOutliveEveryRoll` | `Spec => []LinksOutliveRoll` |
| | `CallerIsAlwaysLastStranger` | `QuestionsSpec => []CallerIsLastStranger` |
| | `FilledIsAlwaysAccepted` | `QuestionsSpec => []FilledIsAccepted` |
| | `EditAlwaysTiles` | `QuestionsSpec => []EditTiles` |
| | `EditAlwaysFollows` | `QuestionsSpec => []EditFollows` |

A recursive function is used in a proof through its steps: a predicate such as `Choosing` or
`Turns` says what the steps of a loop are, a lemma shows by a smallest counterexample
(`Smallest`) that a function with these steps exists, and a second one that a loop invariant
holds after each. The library's induction theorems are not needed.

**Occupancy.** The assumptions are what `config.go` validates (timers at least 1), what a message
can carry (boxes of four integers), finitely many objects and a bounded skew; the horizon only
bounds the set of times and can be any positive number. `Max` over a set of cardinalities is
defined with `CHOOSE`; the lemmas on `MaxPerCamera` show that such a maximum exists for every
finite set of naturals and that it is monotone in the counted set. From those:

* *Brackets.* `BeliefBracketed` is not inductive: it mentions the history `dip`, while
  the code decides on `belowSince`. `BracketInv` adds that the two are equal after
  every step. Then a low ledger that is old enough departs in the very tick that would
  violate the bound, and a departure leaves at least what is seen.
* *Anchors.* `AnchorInv` adds that a ledger with a positive belief has a remembered
  object and a `lastSeen`, not later than the latest time, and that `belowSince` is at
  most the skew before it: so the grace measured from `belowSince` is also, less the
  skew, a distance from `lastSeen`.
* *Spots.* `SpotCountedOnce` is inductive; the work is that overlap is symmetric, so
  the sweep by the newcomer removes exactly the pairs that would break it.
* *Dwell.* `DwellClocks` relates each `entered` time to the history `held`: while an
  `entered` clock runs, every message since has placed the object in the zone, and
  those sightings began at most the skew after the clock did (superseding a track
  stops its clock, not the sightings, so the two need not be equal).
* *Identities.* `FreshInv`: an identity carries a zone, a label and a time; as long as the clock
  can still fall back to that time, what its ledger would need to announce it again cannot happen
  (`Settled`), because a timer that is longer than the skew would have to run first. The code mints ids from nothing else. That the skew is smaller than every
  timer is justified outside the module: it is the time between two handlers of one process, and
  `config.go` refuses a timer under a second.

**Access.** The constants are arbitrary sets of tokens, secrets, credentials, sessions, challenges and
requests, any room for at least one secret, and any initial file and supply of random numbers in which
no fresh token is on file already. The lemma `StepParts` splits a step into what it
does to the registry (`RegistryStep`) and to the requests; `StepKinds` sorts the steps by what the
abstract specification sees of them.

* *Door.* Passkeys are never emptied in memory (`PasskeysStay`), and a registration is reported only
  with a save that wrote them (`ReportedSaved`); the file is only ever replaced by memory.
* *Membership.* `MemberInv` strengthens the types: a device whose token is out is on file
  (`Entered`), is not drawn again (`Undrawn`), and a call that waits at the door carries a token that was
  handed out or none (`Callers`). Then every step maps to a step of `Membership` or a stutter: one
  lemma for quiet steps, revocations, enrolments and calls let in.
* *One use.* `Spent`: a secret that bought a device is neither fresh nor pending, and no secret is
  pending twice. `Consumed`: a challenge that earned a ceremony is gone, and so is one that a
  request has taken, which holds it alone.

**Incidents.** For any finite set of objects, any camera graph, any overlap, and any cap of at
least two boxes. The lemmas `SightingRuns`, `QuietRuns` and `TickRuns` reduce the actions to what they
do to the list of incidents: the closing pass leaves those within their gap in their order (`Left`),
and a message enters one of them or begins one (`Entered`). From there:

* *One incident.* `OneInv`: the incidents' sources are apart, none twice, and none is remembered as
  closed. A message of a remembered object is ignored, and a target is the incident that holds the
  object whenever one does.
* *Stragglers.* `StragInv` relates `closed` to the history `ended`: an object closed at some
  time is remembered with that time until `Remember` has passed by the latest clock.
* *Counts.* No invariant is needed, only the types: a maximal set of members that were together is
  live when the last of them to start has been live for the overlap, and that member is an anchor of
  `Concurrent`; conversely the members an anchor counts were together.
* *Gaps.* `Sound`: an incident's `last` lies at most the skew behind `latest`, and the start that its
  zoned members give is not later than `latest`. The hypothesis that the clock runs back by no more
  than the gap (a minute in the program, against the time between two handlers) is what makes an end
  come no earlier than its start: an incident is closed at `last` plus the gap or later.
* *Changes.* `RunInv` relates `running` to the state: an id runs exactly while its incident is open
  and was sent, from the last announced start, and a detection's exactly while it is live. One
  message says the ends of the incidents it closes, all different ids, and then what it says of its own
  object, at most a start and an end (`Spoke`, `Talk`).

**Store.** For any set of ids, starts, cameras and clients, any channel capacity and page size, any
bound on histories of at least two.

* *Index and histories.* `ListInv`: the list is strictly sorted and holds exactly the stored
  entries; a history begins with the first revision and ascends to the newest. The place of an entry
  found by the binary search is the first that is not before it, so a removal and an insertion each
  keep the order.
* *Subscriptions.* `SubsInv`: a channel is closed when and only when its subscription is dead, and a
  subscription that is over has ended; a stream that was not cut off has, in its replica or in its channel,
  the stored revision of all that its client is owed (`StreamOK`). The snapshot's loop establishes it,
  event by event (`Told`); each later `Apply` keeps it by offering.
* *Paging.* `ScanInv`: of what a scan owes, what it has passed it has shown, and the rest lies
  ahead of its cursor. A change moves an owed event to a place ahead of the cursor, or past it, and
  then the event has overtaken the reader and is owed no longer.

**Media cache.** For any number of callers, keys, slots, and any budget and sizes.

* *Flights and slots.* `FlightInv`: who leads is who the flight names, and a slot is held exactly by a
  caller between the send and the receive; likewise for the spools.
* *Disk.* `DiskInv`: the order of use lists every entered key once, the counter is the sum of the
  entries, every entry has its whole file, and a file without an entry belongs to a caller or to
  the worker that is about to enter it. The sum is the library's `MapThenSumSet`; the lemmas on
  `Total` say what adding and dropping a key does to it. Shedding is the induction over `Shed`.

**Warmer.** For any ladder whose rungs ascend, any margins, working set and queues.

* *Working set.* `WorkInv`: an event in the working set has a goroutine that was told nothing yet, so one told of
  the end is never cancelled later. It rests on the type invariant, which knows where a goroutine is in
  its loops.
* *Cuts.* `CutInv`: a goroutine that fills final cuts knows that the grace has passed, one that cuts at a rung
  knows that its boundary is trusted, and, when nobody is hasty, every queued render is of a settled
  event. The property is proved under that condition because the program does not satisfy it otherwise
  (finding 3): `hasty` marks the worlds with a page opened too soon, and the run `Warmer` has none.
* *Seal.* Which keys a goroutine has filled depends on the history of its event's starts, so the invariant
  has four parts. `OnceInv`: an event starts once, so it has one goroutine, which hears of its end only
  when the store has it. `HeldInv` and `ClosedInv`: a copy of a record, in a goroutine, a queued change or a
  render job, is as the store has the event or as it had it, and two copies of an ended event are equal, so
  everyone makes the same final cuts. `SealInv`: of the keys filled under the start the goroutine knows, those
  not final end at or below the newest trusted boundary of their camera (`Trusted`), only that boundary's key
  is still cached beside final cuts (`Spared`), and a final cut once made stays. A start that moves back leaves
  the earlier keys under another start. What anyone else fills under the same start (a viewer, the stitch
  worker) is again the newest checkpoint or a final cut, or it takes the place of the goroutine's own
  (`mine` only shrinks: `FillsStay`); what a viewer asked for was settled when it asked
  (`AskedSettled`), so it still is when its cut arrives; another event can fill or evict such a key only if
  it shares the start, and those events `SealedClean` excludes (`Shared`). The theorem holds in hasty
  worlds too.

**Pipeline.** For any traffic, queue capacity, rotation, retention, models and timers.

* *Earned.* `EarnInv`: all that the engine's state knows was fed (`KnownBy`: the raw verdict and since
  when it stands unopposed, the belief and when it was said), live and after a rebuild, which is the same
  `Fed` over the records read.
* *Clean exit.* `ChainInv` and `KeptInv`: at each link of the close chain what is upstream is empty,
  and a record that was accepted is at every moment on its way to the engine or fed to it, and on
  its way to a recording or in one, unless something was lost.
* *Rebuild.* `RowInv`: when no handlers overtake, what is between the handlers and the pump is in the order
  of its stamps (`Queued`), and so is what is between the pump and the recordings, file after file
  (`Shelved`), up to two recordings of one second, whose names do not sort as they were written
  (`Scattered`). A file in the order of its stamps is read as it was written (`ReadRising`), so the rebuild
  feeds a part of what the life before it was fed, in that order. `WholeInv` says what that part has: a life
  that lost nothing has all it was fed in recordings or on its way there, and one that ended has it on
  disk. A second never runs out of names: among one more suffixes than there are files one is free
  (`FreeSuffix`).

**Links and questions.** `LinksInv` bounds an instance to one change behind the operator and a link
of the prior key to a lifetime from the roll. A question's theorem is about the operator that
answers it:

* *Caller.* The walk from the right ends at the last position that is no proxy's; what is put in front of
  the chain moves positions but adds none behind.
* *Settings.* Field by field, what fills a setting in is within its range.
* *Edits.* A look's score is the view of the newest sample the cursor of its camera has come to
  (`Heeds`, over the loop that sorts them by camera; `Told` says which it has come to, with no
  order of the times assumed); the best camera is one that no other outdoes (`BestIs`). `CutInv` holds after
  every look: the shots so far are a row that tiles from the clip's first second, each stood for the
  minimum and was not outdone past it, and the shot on show began where its camera took the cut, or
  at the top, in which case nobody was sighted before. That last part is what makes "settled" mean
  the same from the shot's start and from the moment the camera was chosen.

Strengthenings that were not plain from the code were checked with TLC before they were proved.

Only model-checked:

* Liveness (`CatchesUp`, `FillReturns`, `GoroutinesEnd`, `RendersGoOn`, `PipelineDrains`): fairness and
  `ENABLED` are outside the prover's reach. Every invariant and action property of the passing runs is
  stated by a theorem; `CutSettled` under the condition above.

## 6. What is not modelled

* Generated code (`src/gen`, 3 300 lines): message types and stubs.
* JSON, CBOR, text-format and MCAP encodings, HTTP requests and headers, page templates, wording,
  metrics, fixtures: parsing, formatting and I/O without state. What they can deliver is the
  environment of the modules.
* WebAuthn verification: a cryptographic check of one message; a ceremony verifies or does not.
* The commands beside `run` (replay, trim), and `run` without a recording directory, in which the
  recorder is a drain and there is no registry.
* The MQTT library's reconnecting, subscribing and will.
* Snapshots of events, which are fetched and cached as final cuts are.

## 7. Plan

1. An abstract specification of what a watcher is promised (its replica follows the store), and `Store`
   shown to implement it.
2. The engines behind `Pipeline` in one rebuild: the same statement for occupancy and incidents.
