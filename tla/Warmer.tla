-------------------------------- MODULE Warmer --------------------------------
(***************************************************************************)
(* The warmer, internal/server/warm.go, with the cuts of internal/server/  *)
(* media.go it shares with the viewers (clipCut, latestCheckpoint,         *)
(* serveCached) and the stitch worker of internal/server/stitch.go.        *)
(*                                                                         *)
(* The processes are the store's writer, the Warm loop reading the change  *)
(* stream, one goroutine per warmed event (warmLive, or warmFinal alone),  *)
(* the stitch worker and the viewers.  A goroutine's step is one action    *)
(* from one point where it can block to the next; a select with several    *)
(* ready cases takes any of them.                                          *)
(*                                                                         *)
(* The cache appears as the set of its keys (its own behaviour is          *)
(* MediaCache); a Fill may fail, and a cut may be shed for the budget.     *)
(* Events have a recording; their snapshot, filled like a final cut, is    *)
(* left out.  Time is in whole seconds, the precision of a key; 0 is the   *)
(* zero time, before the first tick.                                       *)
(***************************************************************************)
EXTENDS Integers, Sequences, FiniteSets, SequencesExt, FiniteSetsExt

CONSTANTS
  Events,
  SentEvents,   \* the events that go to someone (policy.Sent)
  Cameras,
  WarmSet,      \* warmSet
  Margin,       \* clipMargin
  Grace,        \* warmGrace
  WatchBuffer,  \* the change channel's capacity (store.watchBuffer)
  StitchQueue,  \* the capacity of stitchLo and stitchHi
  Viewers,      \* requests for a clip that may be under way at once
  None,
  Worlds        \* the settings and bounds a behaviour may have (below)

\* A world: the events that happen, the sequence of cameras each of them has
\* (eventCameras, the leading one at least), the ended ones the store was rebuilt
\* with (newest first), the rungs (warmLadder), how long after an event's EndedAt
\* its end may be applied, whether a running event's StartedAt may move earlier,
\* whether there is an ffmpeg (without one the worker has no effect), whether
\* anyone looks at an event before it has settled, who asks for clips, whether the
\* cache sheds cuts, and the clock's bound.
World ==
  [events : SUBSET Events, cameras : Seq(Cameras) \ {<<>>}, known : Seq(SentEvents),
   ladder : Seq(Nat \ {0}), lag : Nat, moves : BOOLEAN,
   ffmpeg : BOOLEAN, hasty : BOOLEAN, viewers : SUBSET Viewers, sheds : BOOLEAN,
   horizon : Nat]

ASSUME WarmerAssumption ==
  /\ SentEvents \subseteq Events /\ Worlds \subseteq World
  /\ \A w \in Worlds : \A i, j \in DOMAIN w.ladder : i < j => w.ladder[i] < w.ladder[j]
  /\ WarmSet \in Nat \ {0} /\ WatchBuffer \in Nat \ {0} /\ StitchQueue \in Nat \ {0}
  /\ Margin \in Nat /\ Grace \in Nat

VARIABLES
  world,   \* the world of this behaviour
  now,
  store,   \* event -> as the store has it
  feed,    \* the warmer's subscription: the queued changes, and if still open
  loop,    \* the Warm goroutine: "boot", "watch" or "returned"
  boot,    \* the known events still to warm before watching
  order,   \* order, oldest first
  watching,\* watching's keys
  live,    \* event -> its warming goroutine
  cuts,    \* the keys in the cache
  asked,   \* viewer -> the key of the cut its request has come to, or None
  renders, \* stitchLo and stitchHi: variant -> the queued jobs
  worker,  \* the stitch worker
  stitched,\* the renders in the cache: <<event, variant>>
  mine,    \* history: event -> the keys its goroutine put in the cache
  shed     \* history: the keys the cache has shed

vars == <<world, now, store, feed, loop, boot, order, watching, live, cuts,
          asked, renders, worker, stitched, mine, shed>>

stitchVars == <<renders, worker, stitched>>
viewVars == <<asked, shed>>

Variants == {"lo", "hi"}

EventCameras == world.cameras
Ladder == world.ladder
Horizon == world.horizon
Times == (-Margin) .. (Horizon + Margin)

------------------------------------------------------------------------------
(***************************************************************************)
(* Cuts.  An event is [state, start, end, boxes]; end is meaningful once   *)
(* ended, and only an activity has boxes, from its end on.                 *)
(***************************************************************************)
Absent == [state |-> "none", start |-> 0, end |-> 0, boxes |-> FALSE]

Running(e) == e.state = "running"

Key(cam, start, end) == <<cam, start, end>>

\* A mutant of LatestCheckpoint that trusts a boundary at once.
LatestWithoutGrace(started, t) ==
  {started + Ladder[i] : i \in {j \in DOMAIN Ladder : t - started >= Ladder[j]}}

\* latestCheckpoint: the boundaries trusted at t; the newest is their maximum.
LatestCheckpoint(started, t) ==
  {started + Ladder[i] : i \in {j \in DOMAIN Ladder : t - started >= Ladder[j] + Grace}}

\* clipCut with checkpoints on: the key of camera's stable cut at t, if any.
ClipCut(e, cam, t) ==
  IF ~Running(e) THEN {Key(cam, e.start - Margin, e.end + Margin)}
  ELSE LET cps == LatestCheckpoint(e.start, t)
       IN  IF cps = {} THEN {} ELSE {Key(cam, e.start - Margin, Max(cps))}

FinalCuts(id, e) == {Key(c, e.start - Margin, e.end + Margin) : c \in ToSet(EventCameras)}

Settled(e) == now >= e.end + Margin + Grace

------------------------------------------------------------------------------
(***************************************************************************)
(* The store's writer.  A change is offered to the warmer's channel, which *)
(* a full buffer closes for good (store.offer).                            *)
(***************************************************************************)
Offer(op, id) ==
  feed' = IF loop # "watch" \/ ~feed.open THEN feed
          ELSE IF Len(feed.queue) = WatchBuffer THEN [feed EXCEPT !.open = FALSE]
          ELSE [feed EXCEPT !.queue = Append(@, [op |-> op, id |-> id, e |-> store'[id]])]

Applied(id, op, e) ==
  /\ store' = [store EXCEPT ![id] = e]
  /\ Offer(op, id)
  /\ UNCHANGED <<world, now, loop, boot, order, watching, live, cuts, mine, stitchVars, viewVars>>

\* The final cut must be able to settle within the clock's bound.
CanSettle(end) == end + Margin + Grace <= Horizon

StartEvent(id) ==
  /\ store[id].state = "none" /\ CanSettle(now)
  /\ Applied(id, "started", [Absent EXCEPT !.state = "running", !.start = now])

\* An arrival or a state change: an event that starts ended.
InstantEvent(id) ==
  /\ store[id].state = "none" /\ CanSettle(now)
  /\ Applied(id, "started", [Absent EXCEPT !.state = "ended", !.start = now, !.end = now])

\* An earlier object turns out to belong to the incident.
UpdateEvent(id) ==
  /\ world.moves /\ Running(store[id]) /\ store[id].start > 1
  /\ Applied(id, "updated", [store[id] EXCEPT !.start = @ - 1])

\* An incident is closed a quiet while after the last thing in it ended, and ends
\* there, or at the close when some end in it was never reported.
EndEvent(id, end) ==
  /\ Running(store[id]) /\ CanSettle(end)
  /\ store[id].start <= end /\ end <= now /\ now - end <= world.lag
  /\ Applied(id, "ended", [store[id] EXCEPT !.state = "ended", !.end = end, !.boxes = TRUE])

\* Prune or the history bound forgets an event.
ForgetEvent(id) ==
  /\ store[id].state = "ended"
  /\ store' = [store EXCEPT ![id] = [Absent EXCEPT !.state = "gone"]]
  /\ UNCHANGED <<world, now, feed, loop, boot, order, watching, live, cuts, mine, stitchVars, viewVars>>

Tick ==
  /\ now < Horizon
  /\ now' = now + 1
  /\ UNCHANGED <<world, store, feed, loop, boot, order, watching, live, cuts, mine, stitchVars, viewVars>>

------------------------------------------------------------------------------
(***************************************************************************)
(* Warm.  A goroutine is [pc, e: its copy of the event, rung, cam: the     *)
(* indices of its loops, prev: camera -> checkpoint cached, 0 for none,    *)
(* ended, cancelled: its channel and context, seal: whether it follows a   *)
(* running event, warmed: whether warmFinal ran to its end, failed: some   *)
(* final Fill did].                                                        *)
(***************************************************************************)
NoPrev == [c \in Cameras |-> 0]

Idle == [pc |-> "none", e |-> Absent, rung |-> 1, cam |-> 1, prev |-> NoPrev,
         ended |-> FALSE, cancelled |-> FALSE, seal |-> FALSE,
         warmed |-> FALSE, failed |-> FALSE]

\* Warm warms what it knows, one event after the other, before it watches.
BootWarm ==
  /\ loop = "boot" /\ boot # <<>>
  /\ \A id \in Events : live[id].pc \in {"none", "done"}
  /\ live' = [live EXCEPT ![Head(boot)] = [Idle EXCEPT !.pc = "settle", !.e = store[Head(boot)]]]
  /\ boot' = Tail(boot)
  /\ UNCHANGED <<world, now, store, feed, loop, order, watching, cuts, mine, stitchVars, viewVars>>

BootDone ==
  /\ loop = "boot" /\ boot = <<>>
  /\ \A id \in Events : live[id].pc \in {"none", "done"}
  /\ loop' = "watch"
  /\ UNCHANGED <<world, now, store, feed, boot, order, watching, live, cuts, mine, stitchVars, viewVars>>

\* The next change: its operation, its event's id, and the event as it was.
Heard == Head(feed.queue)

Hears(op, id) ==
  /\ loop = "watch" /\ feed.queue # <<>>
  /\ Heard.op = op /\ Heard.id = id
  /\ feed' = [feed EXCEPT !.queue = Tail(@)]
  /\ UNCHANGED <<world, now, store, loop, boot, cuts, mine, stitchVars, viewVars>>

\* A mutant of Cancelled that drops the oldest from the set and lets it run.
CancelledNever(goroutines, ids) == goroutines

Cancelled(goroutines, ids) ==
  [i \in Events |-> IF i \in ids THEN [goroutines[i] EXCEPT !.cancelled = TRUE]
                    ELSE goroutines[i]]

\* The ids that leave the working set, oldest first: all but the last WarmSet.
\* A mutant with the bound off by one.
OverflowOffByOne(ids) == SubSeq(ids, 1, Len(ids) - WarmSet - 1)

Overflow(ids) == SubSeq(ids, 1, Len(ids) - WarmSet)

\* OpStarted of a running event: a goroutine for it, and the working set is
\* cut back to the newest WarmSet.
WarmStarted(id) ==
  /\ Hears("started", id) /\ Running(Heard.e)
  /\ id \in SentEvents /\ id \notin watching
  /\ LET ids == Append(order, id)
         old == Overflow(ids)
     IN  /\ order' = SubSeq(ids, Len(old) + 1, Len(ids))
         /\ watching' = (watching \cup {id}) \ ToSet(old)
         /\ live' = Cancelled([live EXCEPT ![id] = [Idle EXCEPT !.pc = "get", !.seal = TRUE]],
                              ToSet(old))

\* OpStarted of an instantaneous event: warmFinal in a goroutine of its own,
\* under the warmer's context.
WarmInstant(id) ==
  /\ Hears("started", id) /\ ~Running(Heard.e)
  /\ id \in SentEvents /\ id \notin watching
  /\ live' = [live EXCEPT ![id] = [Idle EXCEPT !.pc = "settle", !.e = Heard.e]]
  /\ UNCHANGED <<order, watching>>

\* deleteID: ids without the first id.
DeleteID(ids, id) ==
  LET i == SelectInSeq(ids, LAMBDA v : v = id)
  IN  IF i = 0 THEN ids ELSE RemoveAt(ids, i)

\* OpEnded of a watched event: its goroutine is told.
WarmEnded(id) ==
  /\ Hears("ended", id)
  /\ id \in SentEvents /\ id \in watching
  /\ live' = [live EXCEPT ![id] = [@ EXCEPT !.ended = TRUE]]
  /\ watching' = watching \ {id}
  /\ order' = DeleteID(order, id)

\* Updates, and what was not sent or is not watched.
WarmIgnores(op, id) ==
  /\ Hears(op, id)
  /\ \/ id \notin SentEvents
     \/ op = "updated"
     \/ op = "started" /\ id \in watching
     \/ op = "ended" /\ id \notin watching
  /\ UNCHANGED <<order, watching, live>>

\* The channel was closed and is drained: Warm returns.
WarmReturns ==
  /\ loop = "watch" /\ ~feed.open /\ feed.queue = <<>>
  /\ loop' = "returned"
  /\ UNCHANGED <<world, now, store, feed, boot, order, watching, live, cuts, mine, stitchVars, viewVars>>

------------------------------------------------------------------------------
(***************************************************************************)
(* warmLive and warmFinal.                                                 *)
(***************************************************************************)
At(id, pc) == live[id].pc = pc

Step(id, g) ==
  /\ live' = [live EXCEPT ![id] = g]
  /\ UNCHANGED <<world, now, store, feed, loop, boot, order, watching, worker, stitched, viewVars>>

Done(g) == [g EXCEPT !.pc = "done"]

Found(id) == store[id].state \in {"running", "ended"}

LiveGets(id) ==
  /\ At(id, "get")
  /\ Step(id, IF Found(id) THEN [live[id] EXCEPT !.pc = "sleep", !.e = store[id]]
              ELSE Done(live[id]))
  /\ UNCHANGED <<cuts, renders, mine>>

\* ctx.Done, on a rung or past the last.
LiveCancelled(id) ==
  /\ At(id, "sleep") /\ live[id].cancelled
  /\ Step(id, Done(live[id]))
  /\ UNCHANGED <<cuts, renders, mine>>

\* ended closes, on a rung or past the last: seal with warmFinal, or, when the
\* event is forgotten, go on with a zero event.
LiveEnded(id) ==
  /\ At(id, "sleep") /\ live[id].ended
  /\ Step(id, IF Found(id) THEN [live[id] EXCEPT !.pc = "settle", !.e = store[id]]
              ELSE [live[id] EXCEPT !.pc = "evict", !.e = Absent])
  /\ UNCHANGED <<cuts, renders, mine>>

\* The rung's timer fires: look again, and cut if the event is still running.
LiveTimer(id) ==
  /\ At(id, "sleep") /\ live[id].rung <= Len(Ladder)
  /\ now >= live[id].e.start + Ladder[live[id].rung] + Grace
  /\ Step(id, IF Running(store[id])
              THEN [live[id] EXCEPT !.pc = "cut", !.e = store[id], !.cam = 1]
              ELSE Done(live[id]))
  /\ UNCHANGED <<cuts, renders, mine>>

\* One turn of the camera loop of a rung: past the last camera, the next rung.
NextCamera(id, g) ==
  IF g.cam < Len(EventCameras) THEN [g EXCEPT !.cam = @ + 1]
  ELSE [g EXCEPT !.pc = "sleep", !.rung = @ + 1]

\* A mutant of Superseded that leaves the boundary before in the cache.
SupersededNever(g, cam) == {}

\* The key evicted once cam has the next checkpoint: the boundary before.
Superseded(g, cam) ==
  IF g.prev[cam] = 0 THEN {} ELSE {Key(cam, g.e.start - Margin, g.prev[cam])}

\* Fill the rung's cut for one camera and evict the one before; or Fill fails.
LiveCuts(id) ==
  LET g   == live[id]
      cam == EventCameras[g.cam]
      end == g.e.start + Ladder[g.rung]
      key == Key(cam, g.e.start - Margin, end)
  IN /\ At(id, "cut")
     /\ \/ /\ cuts' = (cuts \cup {key}) \ Superseded(g, cam)
           /\ mine' = [mine EXCEPT ![id] = @ \cup {key}]
           /\ Step(id, NextCamera(id, [g EXCEPT !.prev = [@ EXCEPT ![cam] = end]]))
        \/ Step(id, NextCamera(id, g)) /\ UNCHANGED <<cuts, mine>>
     /\ UNCHANGED renders

\* After warmFinal: warmLive goes on to evict, the others are done.
AfterFinal(g) == [g EXCEPT !.pc = IF g.seal THEN "evict" ELSE "done"]

\* RequestStitch: one more render, or none when the queue is full.  Without an
\* ffmpeg the worker takes what is queued and does nothing.
Requested(q, variant, job) ==
  IF world.ffmpeg /\ Len(q[variant]) < StitchQueue THEN [q EXCEPT ![variant] = Append(@, job)]
  ELSE q

\* warmFinal waits for the recording to be on disk, or for its context.
FinalSettles(id) ==
  /\ At(id, "settle")
  /\ \/ Settled(live[id].e) /\ Step(id, [live[id] EXCEPT !.pc = "final", !.cam = 1])
     \/ live[id].cancelled /\ Step(id, AfterFinal(live[id]))
  /\ UNCHANGED <<cuts, renders, mine>>

\* Fill the final cut of one camera; past the last, ask for the stitch.
NextFinal(id, g) ==
  IF g.cam < Len(EventCameras) THEN [g EXCEPT !.cam = @ + 1]
  ELSE AfterFinal([g EXCEPT !.warmed = TRUE])

FinalFills(id) ==
  LET g   == live[id]
      key == Key(EventCameras[g.cam], g.e.start - Margin, g.e.end + Margin)
  IN /\ At(id, "final")
     /\ renders' = IF g.cam < Len(EventCameras) THEN renders
                   ELSE Requested(renders, "lo", [id |-> id, e |-> g.e])
     /\ \/ /\ cuts' = cuts \cup {key} /\ mine' = [mine EXCEPT ![id] = @ \cup {key}]
           /\ Step(id, NextFinal(id, g))
        \/ Step(id, NextFinal(id, [g EXCEPT !.failed = TRUE])) /\ UNCHANGED <<cuts, mine>>

\* The keys evictCheckpoints evicts.
Checkpoints(g) ==
  {Key(c, g.e.start - Margin, g.prev[c]) : c \in {d \in Cameras : g.prev[d] # 0}}

EvictCheckpoints(id) ==
  /\ At(id, "evict")
  /\ cuts' = cuts \ Checkpoints(live[id])
  /\ Step(id, Done(live[id]))
  /\ UNCHANGED <<renders, mine>>

\* serveCached: a viewer asks for one camera's clip; the final cut is left alone
\* until it has settled.
ViewAsks(v, id, cam) ==
  /\ asked[v] = None
  /\ Found(id) /\ (Running(store[id]) \/ Settled(store[id]))
  /\ \E key \in ClipCut(store[id], cam, now) : asked' = [asked EXCEPT ![v] = key]
  /\ UNCHANGED <<world, now, store, feed, loop, boot, order, watching, live, cuts, mine,
                 stitchVars, shed>>

\* Its cut is there; or Fill puts it there, whatever has become of the event since,
\* or fails.  A cut it puts there is no longer any goroutine's.
ViewFills(v) ==
  /\ asked[v] # None
  /\ asked' = [asked EXCEPT ![v] = None]
  /\ \/ /\ asked[v] \notin cuts
        /\ cuts' = cuts \cup {asked[v]}
        /\ mine' = [id \in Events |-> mine[id] \ {asked[v]}]
     \/ UNCHANGED <<cuts, mine>>
  /\ UNCHANGED <<world, now, store, feed, loop, boot, order, watching, live, stitchVars, shed>>

\* mediacache.go: the directory is over its budget, and a cut is the oldest in it.
Shed(key) ==
  /\ world.sheds /\ key \in cuts
  /\ cuts' = cuts \ {key}
  /\ shed' = shed \cup {key}
  /\ UNCHANGED <<world, now, store, feed, loop, boot, order, watching, live, mine, stitchVars, asked>>

\* ClipCached: every camera's current cut is there, once it has settled.
ClipCached(id) ==
  LET e    == store[id]
      keys == UNION {ClipCut(e, c, now) : c \in ToSet(EventCameras)}
  IN  (Running(e) \/ Settled(e)) /\ keys # {} /\ keys \subseteq cuts

------------------------------------------------------------------------------
(***************************************************************************)
(* The stitch worker, and the pages whose readers ask for renders.  It is  *)
(* [pc, job, variant, cams: the cameras of the cut still to fetch].        *)
(***************************************************************************)
NoJob == [id |-> None, e |-> Absent]
Polling == [pc |-> "poll", job |-> NoJob, variant |-> "lo", cams |-> {}]

\* A page of an ended event finds that the render is not there, and asks for it.
Look(id, variant) ==
  /\ world.ffmpeg /\ store[id].state = "ended" /\ (world.hasty \/ Settled(store[id]))
  /\ <<id, variant>> \notin stitched
  /\ renders' = Requested(renders, variant, [id |-> id, e |-> store[id]])
  /\ UNCHANGED <<world, now, store, feed, loop, boot, order, watching, live, cuts, mine,
                 worker, stitched, viewVars>>

\* The stitch page asks for the variant it was asked for.
StitchPage(id) == \E variant \in Variants : Look(id, variant)

\* The event page asks for lo, once there is a cut to show.
EventPage(id) == store[id].boxes /\ Look(id, "lo")

Works(w) ==
  /\ worker' = w
  /\ UNCHANGED <<world, now, store, feed, loop, boot, order, watching, live, mine, viewVars>>

\* The outer select finds stitchLo empty and goes on to the inner one.
WorkerBlocks ==
  /\ world.ffmpeg /\ worker.pc = "poll" /\ renders["lo"] = <<>>
  /\ Works([worker EXCEPT !.pc = "block"])
  /\ UNCHANGED <<cuts, renders, stitched>>

\* Either select receives; only the inner one listens to stitchHi.
WorkerTakes(variant) ==
  /\ worker.pc \in (IF variant = "lo" THEN {"poll", "block"} ELSE {"block"})
  /\ renders[variant] # <<>>
  /\ renders' = [renders EXCEPT ![variant] = Tail(@)]
  /\ Works([worker EXCEPT !.pc = "stitch", !.job = Head(renders[variant]), !.variant = variant])
  /\ UNCHANGED <<cuts, stitched>>

\* A mutant of Finished whose send of hi waits for room in the queue.
FinishedBlocking(q) ==
  /\ worker.variant = "lo" => Len(q["hi"]) < StitchQueue
  /\ renders' = IF worker.variant = "lo" THEN Requested(q, "hi", worker.job) ELSE q
  /\ Works(Polling)

\* stitch returns without an error: a finished lo queues its own hi.
Finished(q) ==
  /\ renders' = IF worker.variant = "lo" THEN Requested(q, "hi", worker.job) ELSE q
  /\ Works(Polling)

\* stitch fails: the worker logs it and goes on.
Failed(q) == renders' = q /\ Works(Polling)

\* The render is cached already or has no usable cut; or edl.Build picks cameras,
\* which takes boxes.
WorkerStitches ==
  /\ worker.pc = "stitch"
  /\ \/ Finished(renders)
     \/ /\ worker.job.e.boxes /\ <<worker.job.id, worker.variant>> \notin stitched
        /\ \E cams \in SUBSET ToSet(EventCameras) \ {{}} :
             Works([worker EXCEPT !.pc = "cut", !.cams = cams])
        /\ UNCHANGED renders
  /\ UNCHANGED <<cuts, stitched>>

\* Every camera of the cut has its final cut filled, as soon as the worker is
\* here; one failure ends the render.
WorkerFills(cam) ==
  /\ worker.pc = "cut" /\ cam \in worker.cams
  /\ \/ /\ cuts' = cuts \cup {Key(cam, worker.job.e.start - Margin, worker.job.e.end + Margin)}
        /\ Works([worker EXCEPT !.cams = @ \ {cam}])
        /\ UNCHANGED renders
     \/ Failed(renders) /\ UNCHANGED cuts
  /\ UNCHANGED stitched

\* The shots, the concatenation and PutStitch; or one of them fails.
WorkerRenders ==
  /\ worker.pc = "cut" /\ worker.cams = {}
  /\ \/ stitched' = stitched \cup {<<worker.job.id, worker.variant>>} /\ Finished(renders)
     \/ UNCHANGED stitched /\ Failed(renders)
  /\ UNCHANGED cuts

Worker ==
  \/ WorkerBlocks \/ WorkerStitches \/ WorkerRenders
  \/ \E variant \in Variants : WorkerTakes(variant)
  \/ \E cam \in Cameras : WorkerFills(cam)

------------------------------------------------------------------------------
Init ==
  /\ now = 1
  /\ world \in Worlds
  /\ store = [id \in Events |-> IF id \in ToSet(world.known)
                                THEN [state |-> "ended", start |-> 1, end |-> 1, boxes |-> TRUE]
                                ELSE Absent]
  /\ boot = SubSeq(world.known, 1, Min({WarmSet, Len(world.known)}))
  /\ feed = [open |-> TRUE, queue |-> <<>>]
  /\ loop = "boot"
  /\ order = <<>> /\ watching = {}
  /\ live = [id \in Events |-> Idle]
  /\ renders = [variant \in Variants |-> <<>>] /\ worker = Polling /\ stitched = {}
  /\ cuts = {} /\ mine = [id \in Events |-> {}]
  /\ asked = [v \in Viewers |-> None] /\ shed = {}

Goroutine(id) ==
  \/ LiveGets(id) \/ LiveCancelled(id) \/ LiveEnded(id) \/ LiveTimer(id) \/ LiveCuts(id)
  \/ FinalSettles(id) \/ FinalFills(id) \/ EvictCheckpoints(id)

Warm ==
  \/ BootWarm \/ BootDone \/ WarmReturns
  \/ \E id \in Events : WarmStarted(id) \/ WarmInstant(id) \/ WarmEnded(id)
  \/ \E op \in {"started", "updated", "ended"}, id \in Events :
       WarmIgnores(op, id)

Apply ==
  \E id \in world.events :
    \/ StartEvent(id) \/ InstantEvent(id) \/ UpdateEvent(id) \/ ForgetEvent(id)
    \/ \E end \in 1..Horizon : EndEvent(id, end)

View ==
  \E v \in world.viewers :
    \/ ViewFills(v)
    \/ \E id \in Events, cam \in ToSet(EventCameras) : ViewAsks(v, id, cam)

Next ==
  \/ Apply \/ Warm \/ Worker \/ View \/ Tick
  \/ \E id \in Events : Goroutine(id) \/ StitchPage(id) \/ EventPage(id)
  \/ \E key \in cuts : Shed(key)

Spec == Init /\ [][Next]_vars

\* Goroutines are scheduled, fetches end, and the clock does not stop.
Fairness ==
  /\ WF_vars(Warm) /\ WF_vars(Worker) /\ WF_vars(Tick)
  /\ \A id \in Events : WF_vars(Goroutine(id))

FairSpec == Spec /\ Fairness

------------------------------------------------------------------------------
(***************************************************************************)
(* Properties.                                                             *)
(***************************************************************************)
Following(id) == live[id].pc \in {"get", "sleep", "cut"}

\* warm.go Warm: order and watching are the same set and hold at most warmSet
\* events; every goroutine that follows a running event is in it, has been told
\* of the end, or has been cancelled; and one told of the end is never cancelled
\* by newer events while it seals.
WorkingSet ==
  /\ ToSet(order) = watching /\ Len(order) = Cardinality(watching)
  /\ Cardinality(watching) <= WarmSet
  /\ \A id \in Events : Following(id) => id \in watching \/ live[id].ended \/ live[id].cancelled
  /\ \A id \in Events : ~(live[id].ended /\ live[id].cancelled)

\* media.go, warm.go: whoever fills it, a viewer or a warming goroutine, no
\* immutable cut is stored before Frigate has had warmGrace to write the recording
\* up to its end; nor by the stitch worker, as long as nobody opens the page of an
\* event that has not settled (a world that is not hasty).
CutSettled == \A k \in cuts : k[3] + Grace <= now

\* The final cut has the key of the last checkpoint: its end falls on a rung's
\* second.
OnRung(g) == \E c \in Cameras : g.prev[c] = g.e.end + Margin

\* A key says nothing of its event: another event that starts in the same second,
\* or whose start has moved past it or is forgotten, may share e's keys.
Shared(id, e) ==
  \E j \in Events \ {id} :
    \/ store[j].state = "gone"
    \/ store[j].state # "none" /\ store[j].start = e.start
    \/ store[j].state # "none" /\ world.moves /\ store[j].start < e.start

\* warm.go warmLive: each rung evicts the boundary before, the seal the last.  A
\* goroutine that has sealed its event leaves no cut of its own but the final
\* ones, save those a moved StartedAt has put out of reach of their key; and
\* those are there, so that the house page's bolt tells the truth, save when they
\* share a checkpoint's key and are evicted with it, or the cache shed one.  What two
\* events' keys share, each evicts and fetches again for the other.  A checkpoint a
\* viewer asked for before it was evicted may be put back after: it is not the
\* goroutine's, and only the cache's budget takes it out again.
SealedClean ==
  \A id \in Events :
    At(id, "done") /\ live[id].seal /\ live[id].warmed /\ ~Shared(id, live[id].e) =>
      /\ \A k \in cuts \cap mine[id] :
           k[2] = live[id].e.start - Margin => k \in FinalCuts(id, live[id].e)
      /\ \/ live[id].failed \/ OnRung(live[id]) \/ store[id] # live[id].e
         \/ FinalCuts(id, live[id].e) \cap shed # {}
         \/ ClipCached(id)

\* warm.go Warm: no goroutine is left behind: once its event has ended the
\* goroutine ends, told of the end or cancelled, unless the stream was cut off.
GoroutinesEnd ==
  \A id \in Events :
    live[id].pc # "none" /\ ~Running(store[id]) ~> At(id, "done") \/ ~feed.open

\* stitch.go stitchWorker: no failed render and no full queue stops the one
\* worker: again and again it is back at its queues, and it only waits there
\* while no lo render does.
RendersGoOn == []<>(worker.pc = "poll" \/ (worker.pc = "block" /\ renders["lo"] = <<>>))

\* warm.go warmLive: it "seals it with the final cut when the event ends"; an
\* event found ended is sealed because "the seal follows on OpEnded".
SealFollows ==
  \A id \in Events :
    Following(id) /\ store[id].state = "ended" ~>
      \/ live[id].warmed \/ live[id].cancelled
      \/ store[id].state = "gone" \/ ~feed.open
==============================================================================
