------------------------------ MODULE Incidents ------------------------------
(***************************************************************************)
(* The incident engine of internal/policy/incidents.go and the passthrough *)
(* engine of internal/policy/policy.go it hands everything else to.        *)
(*                                                                         *)
(* Objects whose label makes an activity are folded into incidents: an     *)
(* object joins the oldest open incident its camera can be walked to from, *)
(* or opens one of its own; an incident becomes an event once a member has *)
(* touched a named zone, and ends on the first message, of any topic, that *)
(* comes Gap after its last activity.  Any other object is a detection, an *)
(* event of its own from its first message to its end.                     *)
(*                                                                         *)
(* As in Occupancy the messages are an unconstrained environment: lost,    *)
(* repeated, late, with receive times that may run back by up to Skew.     *)
(* Times are natural numbers and 0 is Go's zero time.Time.                 *)
(*                                                                         *)
(* An activity's id is minted from its first member's id and a detection's *)
(* from its object's: the model uses the object itself as the event's id.  *)
(* Zones are only ever added, so the path, a list in order of first entry, *)
(* is kept as a set.  "media" stands for the flags a message carries and   *)
(* an event accumulates (a snapshot exists, a clip exists).                *)
(***************************************************************************)
EXTENDS Integers, Sequences, FiniteSets, SequencesExt, FiniteSetsExt

CONSTANTS
  Objects,    \* Frigate's object ids
  CameraOf,   \* the camera of an object id
  LabelOf,    \* its label
  Labels,     \* the labels that make an activity
  Neighbours, \* the configured camera graph: camera -> set of cameras
  Zones,      \* the named zones a message may carry
  Media,      \* the media flags a message may carry: a subset of BOOLEAN
  Overlap,    \* how long two objects must be live at once to be two
  MaxBoxes,   \* maxBoxSamples
  Lag,        \* bound on how late an end is reported
  Worlds      \* the settings and bounds a behaviour may have (below)

\* A world: the objects that appear and the start times they may have, whether
\* messages carry a box (a subset of BOOLEAN), the silence after which an incident
\* ends, how long its objects are remembered, how far a receive time may lie behind
\* an earlier one, and the bound on the clock.
World ==
  [objects : SUBSET Objects, starts : SUBSET (Nat \ {0}), boxed : SUBSET BOOLEAN,
   gap : Nat \ {0}, remember : Nat, skew : Nat, horizon : Nat \ {0}]

ASSUME IncidentsAssumption ==
  /\ IsFiniteSet(Objects) /\ Worlds \subseteq World
  /\ Overlap \in Nat \ {0} /\ MaxBoxes \in Nat \ {0, 1}
  /\ Media \subseteq BOOLEAN /\ Lag \in Nat

VARIABLES
  world,    \* the world of this behaviour
  open,     \* the open incidents, oldest first
  closed,   \* object -> when its incident ended; 0: not remembered
  live,     \* passthrough: object -> its event as last seen, or NotLive
  changes,  \* the changes the last Observe returned, in order
  at,       \* the receive time of the last message
  now,      \* the latest receive time so far
  began,    \* object -> the start time Frigate gives it (never changes)
  running,  \* history: id -> the start last announced while it runs, else 0
  ended     \* history: object -> when its incident was last closed; 0: never

vars == <<world, open, closed, live, changes, at, now, began, running, ended>>

Activities == {o \in Objects : LabelOf[o] \in Labels}
Detections == Objects \ Activities

Gap == world.gap
Remember == world.remember
Skew == world.skew
Horizon == world.horizon

------------------------------------------------------------------------------
(***************************************************************************)
(* The camera graph.                                                       *)
(***************************************************************************)
Cameras == {CameraOf[o] : o \in Objects}

\* NewIncidents makes the edges symmetric however they were written.
Adjacent ==
  [c \in Cameras |->
     {d \in Cameras : \/ c \in DOMAIN Neighbours /\ d \in Neighbours[c]
                      \/ d \in DOMAIN Neighbours /\ c \in Neighbours[d]}]

\* A camera with an edge, to whichever camera.
KnownCameras ==
  {c \in Cameras : \/ c \in DOMAIN Neighbours /\ Neighbours[c] # {}
                   \/ \E d \in DOMAIN Neighbours : c \in Neighbours[d]}

\* Without a graph, and for a camera it has never heard of, everything adjoins.
Reachable(inc, c) ==
  \/ DOMAIN Neighbours = {}
  \/ c \notin KnownCameras
  \/ \E i \in DOMAIN inc.members :
       LET d == CameraOf[inc.members[i].source]
       IN  d = c \/ d \in Adjacent[c] \/ d \notin KnownCameras

------------------------------------------------------------------------------
(***************************************************************************)
(* What an incident amounts to: concurrent and build.                      *)
(***************************************************************************)
LiveEnd(m, t) == IF m.end = 0 THEN t ELSE m.end

Alike(m, o) ==
  CameraOf[m.source] = CameraOf[o.source] /\ LabelOf[m.source] = LabelOf[o.source]

\* A mutant of Concurrent that also counts objects that started after m, so that
\* a chain of overlaps counts every link.
ConcurrentChain(ms, m, t) ==
  IF LiveEnd(m, t) < m.start + Overlap THEN 1
  ELSE Cardinality({i \in DOMAIN ms : Alike(m, ms[i]) /\ LiveEnd(ms[i], t) >= m.start + Overlap})

\* How many objects like m are live once m has been live for Overlap, of those
\* that started no later than m.
Concurrent(ms, m, t) ==
  IF LiveEnd(m, t) < m.start + Overlap THEN 1
  ELSE Cardinality({i \in DOMAIN ms : /\ Alike(m, ms[i]) /\ ms[i].start <= m.start
                                      /\ LiveEnd(ms[i], t) >= m.start + Overlap})

\* Objects: per label, the most over every member as the anchor.
Counts(ms, t) ==
  [l \in {LabelOf[ms[i].source] : i \in DOMAIN ms} |->
     Max({Concurrent(ms, ms[i], t) : i \in {j \in DOMAIN ms : LabelOf[ms[j].source] = l}})]

Zoned(m) == m.zones # {}

\* The cameras of zoned members lead, in order of joining; the others follow.
CamerasOf(ms) ==
  LET add(cs, m) == IF Contains(cs, CameraOf[m.source]) THEN cs
                    ELSE Append(cs, CameraOf[m.source])
  IN  FoldLeft(add, FoldLeft(add, <<>>, SelectSeq(ms, Zoned)),
               SelectSeq(ms, LAMBDA m : ~Zoned(m)))

\* Only zoned members anchor the start.
StartOf(ms) == Min({ms[i].start : i \in {j \in DOMAIN ms : Zoned(ms[j])}})

\* The event as the incident stands at t.
Build(inc, t, over) ==
  LET ms == inc.members
  IN  [start   |-> StartOf(ms),
       end     |-> IF over THEN Max({LiveEnd(ms[i], t) : i \in DOMAIN ms}) ELSE 0,
       cameras |-> CamerasOf(ms),
       path    |-> inc.path,
       objects |-> Counts(ms, t),
       media   |-> \E i \in DOMAIN ms : ms[i].media]

\* sameActivity: the start is not among what is worth an update.
SameActivity(e, f) ==
  /\ e.objects = f.objects /\ e.path = f.path /\ e.cameras = f.cameras
  /\ e.media = f.media /\ e.end = f.end

IdOf(inc) == inc.members[1].source

\* A change says the event's whole state; its times are what the properties read.
Change(op, id, start, end) == [op |-> op, id |-> id, start |-> start, end |-> end]

------------------------------------------------------------------------------
(***************************************************************************)
(* Observe's first part: close every incident that is past its gap.        *)
(***************************************************************************)
\* A mutant of Expired that measures the gap from the incident's start.
ExpiredFromStart(inc, t) == t - inc.members[1].start >= Gap

Expired(inc, t) == t - inc.last >= Gap

Sources(inc) == {inc.members[j].source : j \in DOMAIN inc.members}

MembersOf(incs) == UNION {Sources(incs[i]) : i \in DOMAIN incs}

\* Those at the positions K, in their order.
Chosen(incs, K) ==
  LET kept[n \in 0 .. Len(incs)] ==
        IF n = 0 THEN <<>> ELSE IF n \in K THEN Append(kept[n - 1], incs[n]) ELSE kept[n - 1]
  IN  kept[Len(incs)]

\* close: its objects are remembered, and those of long ago forgotten.
Remembered(gone, t) ==
  IF gone = {} THEN closed
  ELSE [o \in Objects |-> IF o \in gone THEN t
                          ELSE IF t - closed[o] > Remember THEN 0 ELSE closed[o]]

\* What is said of an incident that was sent.
Over(inc, t) == LET e == Build(inc, t, TRUE) IN Change("ended", IdOf(inc), e.start, e.end)

Due(t) == {i \in DOMAIN open : Expired(open[i], t)}

\* The engine after its closing pass at t.  An incident never sent just
\* disappears.
Settled(t) ==
  LET over == Chosen(open, {i \in Due(t) : open[i].sent})
  IN  [open    |-> Chosen(open, DOMAIN open \ Due(t)),
       closed  |-> Remembered(UNION {Sources(open[i]) : i \in Due(t)}, t),
       changes |-> [i \in DOMAIN over |-> Over(over[i], t)]]

------------------------------------------------------------------------------
(***************************************************************************)
(* Observe's second part for an activity's object.                         *)
(***************************************************************************)
\* What is read of a message; end is 0 except in an end message.  Frigate gives
\* an object one start time (began), never later than its messages.
Sightings(t) ==
  {m \in [object : Activities \cap world.objects, zones : SUBSET Zones, media : Media, box : world.boxed,
          end : {0} \cup ((t - Lag)..t)] :
     /\ began[m.object] <= t
     /\ m.end # 0 => began[m.object] <= m.end}

Holding(incs, o) == {i \in DOMAIN incs : o \in Sources(incs[i])}
Joinable(incs, o) == {i \in DOMAIN incs : Reachable(incs[i], CameraOf[o])}

\* A mutant of Ignored that does not look at the remembered objects.
IgnoredEndsOnly(s, m) == Holding(s.open, m.object) = {} /\ m.end # 0

\* A straggler, or the end of something never seen starting.
Ignored(s, m) ==
  \/ s.closed[m.object] # 0
  \/ Holding(s.open, m.object) = {} /\ m.end # 0

\* A mutant of Target that takes the oldest reachable incident first.
TargetReachable(incs, o) ==
  IF Joinable(incs, o) # {} THEN Min(Joinable(incs, o)) ELSE Len(incs) + 1

\* Its own incident, else the oldest it could have walked out of, else a new one.
Target(incs, o) ==
  IF Holding(incs, o) # {} THEN Min(Holding(incs, o))
  ELSE IF Joinable(incs, o) # {} THEN Min(Joinable(incs, o))
  ELSE Len(incs) + 1

NewIncident ==
  [members |-> <<>>, last |-> 0, path |-> {}, sent |-> FALSE, event |-> <<>>,
   boxes |-> <<>>,
   opening |-> 0,   \* history: when its first box came
   latest |-> 0]    \* history: the latest receive time of its messages

NewMember(m) ==
  [source |-> m.object, start |-> began[m.object], end |-> 0, zones |-> {}, media |-> FALSE]

\* A mutant of AddBox that drops the oldest at the cap.
AddBoxSliding(boxes, t) ==
  Append(IF Len(boxes) >= MaxBoxes THEN Tail(boxes) ELSE boxes, t)

\* addBox: at the cap every second sample goes.
AddBox(boxes, t) ==
  LET thin == [i \in 1..((Len(boxes) + 1) \div 2) |-> boxes[2 * i - 1]]
  IN  Append(IF Len(boxes) >= MaxBoxes THEN thin ELSE boxes, t)

\* The message taken into the incident.
Absorbed(inc, m, t) ==
  LET ms == IF m.object \in Sources(inc) THEN inc.members
            ELSE Append(inc.members, NewMember(m))
      told == [i \in DOMAIN ms |->
                 IF ms[i].source # m.object THEN ms[i]
                 ELSE [ms[i] EXCEPT !.media = @ \/ m.media,
                                    !.zones = @ \cup m.zones,
                                    !.end   = IF m.end # 0 THEN m.end ELSE @]]
  IN  [inc EXCEPT !.last    = t,
                  !.members = told,
                  !.path    = @ \cup m.zones,
                  !.boxes   = IF m.box THEN AddBox(@, t) ELSE @,
                  !.opening = IF m.box /\ inc.boxes = <<>> THEN t ELSE @,
                  !.latest  = IF t > @ THEN t ELSE @]

\* emit: not news until something happens in a named zone, nor when nothing
\* worth an update changed.
Said(inc, t) ==
  IF inc.path = {} THEN [inc |-> inc, changes |-> <<>>]
  ELSE LET next == Build(inc, t, FALSE)
       IN  IF inc.sent /\ SameActivity(inc.event, next) THEN [inc |-> inc, changes |-> <<>>]
           ELSE [inc     |-> [inc EXCEPT !.sent = TRUE, !.event = next],
                 changes |-> <<Change(IF inc.sent THEN "updated" ELSE "started",
                                      IdOf(inc), next.start, next.end)>>]

------------------------------------------------------------------------------
(***************************************************************************)
(* The passthrough engine: a detection per object.                         *)
(***************************************************************************)
NotLive == [zones |-> {}, media |-> FALSE, live |-> FALSE]

View(m) == [zones |-> m.zones, media |-> m.media, live |-> TRUE]

\* Only what a viewer would notice is kept of a detection.
Reports ==
  [object : Detections \cap world.objects, zones : SUBSET Zones, media : Media, type : {"new", "update", "end"}]

Known(o) == live[o].live

\* A mutant of Passed that starts a known object again on a repeated new.
PassedAgain(m) ==
  CASE m.type = "end"    -> IF Known(m.object) THEN <<"ended">> ELSE <<"started", "ended">>
    [] m.type = "new"    -> <<"started">>
    [] m.type = "update" -> IF ~Known(m.object) THEN <<"started">>
                            ELSE IF live[m.object] = View(m) THEN <<>> ELSE <<"updated">>

\* What Passthrough.Observe says: a repeated new says nothing, and an object
\* first seen in an update or in its end is started there.
Passed(m) ==
  CASE m.type = "end"    -> IF Known(m.object) THEN <<"ended">> ELSE <<"started", "ended">>
    [] m.type = "new"    -> IF Known(m.object) THEN <<>> ELSE <<"started">>
    [] m.type = "update" -> IF ~Known(m.object) THEN <<"started">>
                            ELSE IF live[m.object] = View(m) THEN <<>> ELSE <<"updated">>

------------------------------------------------------------------------------
(***************************************************************************)
(* Observe, one action per kind of message.                                *)
(***************************************************************************)
StartSaid(c) == IF c.op = "ended" THEN 0 ELSE c.start

Receive(t) ==
  /\ at' = t
  /\ now' = IF t > now THEN t ELSE now
  /\ running' = [o \in Objects |->
       LET told == {j \in DOMAIN changes' : changes'[j].id = o}
       IN  IF told = {} THEN running[o] ELSE StartSaid(changes'[Max(told)])]
  /\ ended' = [o \in Objects |-> IF o \in MembersOf(open) \ MembersOf(open') THEN t ELSE ended[o]]

\* A message of an activity's object that is taken into an incident.
ObserveSighting(m, t) ==
  LET s    == Settled(t)
      i    == Target(s.open, m.object)
      old  == IF i <= Len(s.open) THEN s.open[i] ELSE NewIncident
      said == Said(Absorbed(old, m, t), t)
  IN  /\ ~Ignored(s, m)
      /\ open' = IF i <= Len(s.open) THEN [s.open EXCEPT ![i] = said.inc]
                 ELSE Append(s.open, said.inc)
      /\ closed' = s.closed
      /\ changes' = s.changes \o said.changes
      /\ UNCHANGED <<world, live, began>>
      /\ Receive(t)

\* A straggler, an end without a start, another topic, an unparsable message or
\* a false positive: only a clock tick.
ObserveTick(t) ==
  LET s == Settled(t)
  IN  /\ open' = s.open /\ closed' = s.closed /\ changes' = s.changes
      /\ UNCHANGED <<world, live, began>>
      /\ Receive(t)

\* An object of any other label.
ObserveDetection(m, t) ==
  LET s == Settled(t)
  IN  /\ open' = s.open /\ closed' = s.closed
      /\ changes' = s.changes \o [i \in DOMAIN Passed(m) |->
                                   Change(Passed(m)[i], m.object, began[m.object],
                                          IF Passed(m)[i] = "ended" THEN t ELSE 0)]
      /\ live' = [live EXCEPT ![m.object] = IF m.type = "end" THEN NotLive
                                            ELSE IF m.type = "new" /\ Known(m.object) THEN @
                                            ELSE View(m)]
      /\ UNCHANGED <<world, began>>
      /\ Receive(t)

ReceiveTimes == {t \in 1..Horizon : t >= now - Skew}

Init ==
  /\ world \in Worlds
  /\ open = <<>> /\ closed = [o \in Objects |-> 0]
  /\ live = [o \in Objects |-> NotLive]
  /\ changes = <<>> /\ at = 1 /\ now = 1
  /\ began \in {f \in [Objects -> world.starts] :
                 \A o \in Objects \ world.objects : f[o] = Min(world.starts)}
  /\ running = [o \in Objects |-> 0] /\ ended = [o \in Objects |-> 0]

Next ==
  \E t \in ReceiveTimes :
    \/ \E m \in Sightings(t) : ObserveSighting(m, t)
    \/ \E m \in Reports : ObserveDetection(m, t)
    \/ ObserveTick(t)

Spec == Init /\ [][Next]_vars

------------------------------------------------------------------------------
(***************************************************************************)
(* Properties.                                                             *)
(***************************************************************************)
\* incidents.go Observe: an object is a member of one open incident, once, and
\* never of one while it is remembered as a straggler of another.
OneIncident ==
  /\ \A i \in DOMAIN open : IsInjective([j \in DOMAIN open[i].members |-> open[i].members[j].source])
  /\ \A i, j \in DOMAIN open : i # j => Sources(open[i]) \cap Sources(open[j]) = {}
  /\ \A o \in MembersOf(open) : closed[o] = 0

\* incidents.go closed: an object whose incident has ended is not taken into
\* another before Remember (less the clock's skew) has passed, however late its
\* stragglers come.
StragglersStayOut ==
  [][\A o \in MembersOf(open') \ MembersOf(open) :
       ended[o] # 0 => at' - ended[o] > Remember - Skew]_vars

\* incidents.go emit and close, policy.go Observe: what is said of one id is a
\* start, then updates, then an end, also within the changes of one message; an
\* id is started again only after its end, and nothing ends that did not start.
\* An activity's start only moves earlier on the way (build), which lets the store
\* page without missing an event; one started again may start later (Overtakes of
\* Store).
ChangesAlternate ==
  [][\A j \in DOMAIN changes' :
       LET c    == changes'[j]
           prev == {i \in 1..(j - 1) : changes'[i].id = c.id}
       IN  /\ c.op = "started" <=>
                IF prev = {} THEN running[c.id] = 0 ELSE changes'[Max(prev)].op = "ended"
           /\ c.id \in Activities /\ c.op # "started" /\ prev = {} => c.start <= running[c.id]]_vars

\* incidents.go Gap: an incident is closed only once Gap (less the clock's skew)
\* has passed since the latest message of any of its members, and what was sent
\* of it is ended, at a time not before its start.
ClosesAfterGap ==
  [][\A i \in DOMAIN open : IdOf(open[i]) \notin MembersOf(open') =>
       /\ at' - open[i].latest >= Gap - Skew
       /\ open[i].sent => \E j \in DOMAIN changes' :
            /\ changes'[j].op = "ended" /\ changes'[j].id = IdOf(open[i])
            /\ changes'[j].end >= changes'[j].start]_vars

\* The members of S are one kind of object on one camera, all on screen together
\* for Overlap.
Together(ms, S, t) ==
  /\ \A i, j \in S : Alike(ms[i], ms[j])
  /\ Min({LiveEnd(ms[i], t) : i \in S}) - Max({ms[i].start : i \in S}) >= Overlap

\* incidents.go concurrent: "the largest set that was genuinely on screen
\* together".  The count of a label is the size of the largest set of its members
\* that were live at once, on one camera, for Overlap; one, when there is none.
CountsTogether ==
  \A i \in DOMAIN open :
    LET ms == open[i].members
    IN  \A l \in DOMAIN Counts(ms, at) :
          Counts(ms, at)[l] =
            Max({1} \cup {Cardinality(S) : S \in
                   {R \in SUBSET {j \in DOMAIN ms : LabelOf[ms[j].source] = l} :
                      R # {} /\ Together(ms, R, at)}})

\* edl.go Build: "Per-camera samples, in time order (they arrive in order)".  The
\* evidence of an incident whose members are all on one camera is in time order.
BoxesArriveInOrder ==
  \A i \in DOMAIN open :
    LET b == open[i].boxes
    IN  (\A o, p \in Sources(open[i]) : CameraOf[o] = CameraOf[p]) =>
          \A j, k \in DOMAIN b : j < k => b[j] <= b[k]

\* incidents.go addBox: an incident's evidence stays within the cap, and thinning
\* never loses its opening.
BoxesKeepOpening ==
  \A i \in DOMAIN open :
    LET b == open[i].boxes
    IN  Len(b) <= MaxBoxes /\ (b # <<>> => b[1] = open[i].opening)
==============================================================================
