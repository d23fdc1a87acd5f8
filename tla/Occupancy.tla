------------------------------ MODULE Occupancy ------------------------------
(***************************************************************************)
(* The parked-object ledger of internal/policy/occupancy.go.               *)
(*                                                                         *)
(* Frigate reports tracked objects, one message per sighting; the engine   *)
(* keeps a table of live tracks and, for every watched (zone, label), a    *)
(* ledger of how many objects it BELIEVES are parked there.  An arrival is *)
(* believed after ArriveAfter of continuous dwell, a departure after       *)
(* DepartAfter of the visible count staying below the belief.  Every       *)
(* broker message, whatever its topic, is also the clock tick on which     *)
(* those timers are looked at.                                             *)
(*                                                                         *)
(* Messages are an unconstrained environment: they may be lost (an object  *)
(* whose end never comes), repeated, or delivered after the object's end,  *)
(* and their receive times may run backwards by up to Skew, since the MQTT *)
(* handlers run concurrently.                                              *)
(*                                                                         *)
(* Times are natural numbers and 0 is Go's zero time.Time.                 *)
(***************************************************************************)
EXTENDS Integers, Sequences, FiniteSets, FiniteSetsExt

CONSTANTS
  Watches,  \* the configured watches, in order: a sequence of records
            \* [zone, labels, arriveAfter, departAfter]
  Objects,  \* Frigate's object ids
  CameraOf, \* the camera an object id belongs to
  LabelOf,  \* the label of an object id
  Zones,    \* the zones a message may name, watched or not
  Boxes,    \* the bounding boxes <<x1, y1, x2, y2>> a message may carry
  Skew,     \* how far a receive time may lie behind an earlier one
  Horizon,  \* bound on the clock
  Nobody    \* no object: a ledger nothing has covered yet

NoBox == <<>>
NoZone == "no zone"

(***************************************************************************)
(* NewOccupancy: watches by zone (the last entry for a zone wins) and one  *)
(* ledger per (zone, label), which keeps the watch it was created from.    *)
(***************************************************************************)
WatchedZones == {Watches[i].zone : i \in DOMAIN Watches}

Ledgers == UNION {{<<Watches[i].zone, l>> : l \in Watches[i].labels} : i \in DOMAIN Watches}

LastWatch(P(_)) ==
  Watches[CHOOSE i \in DOMAIN Watches :
            P(Watches[i]) /\ \A j \in DOMAIN Watches : P(Watches[j]) => j <= i]

WatchOf == [z \in WatchedZones |-> LastWatch(LAMBDA w : w.zone = z)]

LedgerWatch == [k \in Ledgers |-> LastWatch(LAMBDA w : w.zone = k[1] /\ k[2] \in w.labels)]

WatchedLabels == UNION {WatchOf[z].labels : z \in WatchedZones}

ArriveAfter == [k \in Ledgers |-> LedgerWatch[k].arriveAfter]
DepartAfter == [k \in Ledgers |-> LedgerWatch[k].departAfter]

Cameras == {CameraOf[o] : o \in Objects}

\* config.validate refuses timers under a second.
ASSUME TimersAssumption ==
  \A k \in Ledgers : ArriveAfter[k] \in Nat \ {0} /\ DepartAfter[k] \in Nat \ {0}

ASSUME ObjectsAssumption ==
  /\ IsFiniteSet(Objects)
  /\ Nobody \notin Objects

ASSUME BoxesAssumption ==
  \A b \in Boxes : b \in Seq(Int) /\ Len(b) = 4

ASSUME ClockAssumption ==
  Skew \in Nat /\ Horizon \in Nat \ {0}

VARIABLES
  tracks,   \* Object -> its row of the track table (Absent: no row)
  ledgers,  \* <<zone, label>> -> its ledger
  changes,  \* the events the last Observe returned
  at,       \* the receive time of the last message
  now,      \* the latest receive time so far
  held,     \* history: since when every message has put an object in a zone
  dip,      \* history: since when a ledger's belief has exceeded what is seen
  issued    \* history: the identities of all events returned so far

vars == <<tracks, ledgers, changes, at, now, held, dip, issued>>

------------------------------------------------------------------------------
(***************************************************************************)
(* The track table: absorb and iou.                                        *)
(***************************************************************************)
Absent ==
  [live    |-> FALSE,
   entered |-> [z \in WatchedZones |-> 0],
   box     |-> NoBox,
   parked  |-> FALSE]   \* whether its last message was stationary (history)

\* What absorb reads of a new or update message.
Sightings ==
  [object     : Objects,
   zones      : SUBSET Zones,            \* current_zones
   last       : Zones \cup {NoZone},     \* the last of entered_zones
   stationary : BOOLEAN,
   box        : Boxes \cup {NoBox}]

\* Intersection over union at least 7/10, on integer pixel boxes.
Overlap(a, b) ==
  /\ a # NoBox /\ b # NoBox
  /\ LET lo(x, y) == IF x <= y THEN x ELSE y
         hi(x, y) == IF x <= y THEN y ELSE x
         ix    == lo(a[3], b[3]) - hi(a[1], b[1])
         iy    == lo(a[4], b[4]) - hi(a[2], b[2])
         inter == ix * iy
         union == (a[3] - a[1]) * (a[4] - a[2]) + (b[3] - b[1]) * (b[4] - b[2]) - inter
     IN  ix > 0 /\ iy > 0 /\ union > 0 /\ 10 * inter >= 7 * union

\* Current zones while moving; for a stationary object also the last one entered.
Claimed(m) ==
  {z \in WatchedZones : z \in m.zones \/ (m.stationary /\ z = m.last)}

\* Mutant of Sighted: a zone left is not deleted from entered.
SightedNeverLeaves(old, m, t) ==
  [live    |-> TRUE,
   entered |-> [z \in WatchedZones |-> IF z \in Claimed(m) /\ old.entered[z] = 0
                                       THEN t ELSE old.entered[z]],
   box     |-> IF m.box # NoBox THEN m.box ELSE old.box,
   parked  |-> m.stationary]

\* A zone left is deleted, so that re-entry restarts the dwell clock.
Sighted(old, m, t) ==
  [live    |-> TRUE,
   entered |-> [z \in WatchedZones |-> IF z \notin Claimed(m) THEN 0
                                       ELSE IF old.entered[z] # 0 THEN old.entered[z] ELSE t],
   box     |-> IF m.box # NoBox THEN m.box ELSE old.box,
   parked  |-> m.stationary]

Supersedes(new, o, other, p) ==
  /\ new.parked
  /\ p # o /\ other.live
  /\ CameraOf[p] = CameraOf[o] /\ LabelOf[p] = LabelOf[o]
  /\ Overlap(new.box, other.box)

\* Mutant of Absorb: the sweep runs on the box the object had before.
AbsorbStaleBox(trk, m, t) ==
  LET new == Sighted(trk[m.object], m, t)
      old == [new EXCEPT !.box = trk[m.object].box]
  IN  [p \in Objects |-> IF p = m.object THEN new
                         ELSE IF Supersedes(old, m.object, trk[p], p) THEN Absent
                         ELSE trk[p]]

Absorb(trk, m, t) ==
  LET new == Sighted(trk[m.object], m, t)
  IN  [p \in Objects |-> IF p = m.object THEN new
                         ELSE IF Supersedes(new, m.object, trk[p], p) THEN Absent
                         ELSE trk[p]]

------------------------------------------------------------------------------
(***************************************************************************)
(* The ledgers: counts, tick and event.                                    *)
(***************************************************************************)
Covering(trk, k) ==
  {o \in Objects : trk[o].live /\ LabelOf[o] = k[2] /\ trk[o].entered[k[1]] # 0}

Dwelt(trk, k, t) ==
  {o \in Covering(trk, k) : t - trk[o].entered[k[1]] >= ArriveAfter[k]}

\* The same object is often tracked by two cameras: never the sum over cameras.
MaxPerCamera(S) ==
  Max({0} \cup {Cardinality({o \in S : CameraOf[o] = c}) : c \in Cameras})

Raw(trk, k) == MaxPerCamera(Covering(trk, k))
Qualified(trk, k, t) == MaxPerCamera(Dwelt(trk, k, t))

NewLedger ==
  [present |-> 0, since |-> 0, lastSeen |-> 0, belowSince |-> 0, seenSource |-> Nobody]

\* Mutant of Compared: every low tick restarts the grace.
ComparedRestarting(l, raw, who, t) ==
  IF raw >= l.present
  THEN [l EXCEPT !.belowSince = 0,
                 !.lastSeen   = IF raw > 0 THEN t ELSE @,
                 !.seenSource = IF raw > 0 THEN who ELSE @]
  ELSE [l EXCEPT !.belowSince = t]

\* The first half of a ledger's tick: is the belief covered by what is seen?
Compared(l, raw, who, t) ==
  IF raw >= l.present
  THEN [l EXCEPT !.belowSince = 0,
                 !.lastSeen   = IF raw > 0 THEN t ELSE @,
                 !.seenSource = IF raw > 0 THEN who ELSE @]
  ELSE [l EXCEPT !.belowSince = IF @ = 0 THEN t ELSE @]

Arrives(l, q) == q > l.present

\* Mutant of Departs: the zero belowSince is taken for a time.
DepartsUnguarded(l, k, q, t) ==
  /\ ~Arrives(l, q)
  /\ l.present > 0
  /\ t - l.belowSince >= DepartAfter[k]

Departs(l, k, q, t) ==
  /\ ~Arrives(l, q)
  /\ l.present > 0 /\ l.belowSince # 0
  /\ t - l.belowSince >= DepartAfter[k]

\* Mutant of Ticked: one departure too many is believed.
TickedOneLess(l, k, q, raw, t) ==
  IF Arrives(l, q)
  THEN [l EXCEPT !.present = q, !.since = t, !.belowSince = 0]
  ELSE IF Departs(l, k, q, t)
  THEN [l EXCEPT !.present = raw - 1, !.belowSince = 0]
  ELSE l

\* The second half: the transition, if one is now believed.
Ticked(l, k, q, raw, t) ==
  IF Arrives(l, q)
  THEN [l EXCEPT !.present = q, !.since = t, !.belowSince = 0]
  ELSE IF Departs(l, k, q, t)
  THEN [l EXCEPT !.present = IF q > raw THEN q ELSE raw, !.belowSince = 0]
  ELSE l

\* Mutant of EventOf: the id is minted from the anchor, not from the tick.
EventOfAnchorId(kind, l, k, trk, t) ==
  LET start == IF kind = "departure" /\ l.lastSeen # 0 THEN l.lastSeen ELSE t
  IN  [kind |-> kind, ledger |-> k, at |-> start, count |-> l.present,
       startedAt |-> start, sources |-> Covering(trk, k)]

\* MintID hashes zone, label and time; a departure is anchored at lastSeen.
EventOf(kind, l, k, trk, t) ==
  LET anchored == kind = "departure" /\ l.lastSeen # 0
  IN  [kind      |-> kind,
       ledger    |-> k,
       at        |-> t,
       count     |-> l.present,
       startedAt |-> IF anchored THEN l.lastSeen ELSE t,
       sources   |-> Covering(trk, k) \cup
                       (IF anchored THEN {l.seenSource} \ {Nobody} ELSE {})]

\* Which covering track a ledger remembers is the map iteration's choice.
Remembered(trk) ==
  {who \in [Ledgers -> Objects \cup {Nobody}] :
     \A k \in Ledgers : IF Covering(trk, k) = {} THEN who[k] = Nobody
                                                 ELSE who[k] \in Covering(trk, k)}

\* Observe's second part: tick over every ledger, on the table as absorbed.
Tick(trk, t) ==
  \E who \in Remembered(trk) :
    LET q    == [k \in Ledgers |-> Qualified(trk, k, t)]
        raw  == [k \in Ledgers |-> Raw(trk, k)]
        comp == [k \in Ledgers |-> Compared(ledgers[k], raw[k], who[k], t)]
        next == [k \in Ledgers |-> Ticked(comp[k], k, q[k], raw[k], t)]
    IN  /\ ledgers' = next
        /\ changes' =
             {EventOf("arrival", next[k], k, trk, t) :
                k \in {j \in Ledgers : Arrives(comp[j], q[j])}}
             \cup
             {EventOf("departure", next[k], k, trk, t) :
                k \in {j \in Ledgers : Departs(comp[j], j, q[j], t)}}

------------------------------------------------------------------------------
(***************************************************************************)
(* Observe, one action per kind of message.                                *)
(***************************************************************************)
Identity(c) == <<c.ledger, c.at>>

Receive(t) ==
  /\ at' = t
  /\ now' = IF t > now THEN t ELSE now
  /\ issued' = issued \cup {Identity(c) : c \in changes'}
  /\ dip' = [k \in Ledgers |-> IF Raw(tracks', k) >= ledgers'[k].present THEN 0
                               ELSE IF dip[k] = 0 THEN t ELSE dip[k]]

Held(o, in, t) ==
  held' = [held EXCEPT ![o] = [z \in WatchedZones |->
             IF z \notin in THEN 0 ELSE IF @[z] = 0 THEN t ELSE @[z]]]

\* A new or update message of an object that is not a false positive.
ObserveSighting(m, t) ==
  /\ tracks' = IF LabelOf[m.object] \in WatchedLabels THEN Absorb(tracks, m, t) ELSE tracks
  /\ Tick(tracks', t)
  /\ Receive(t)
  /\ Held(m.object, Claimed(m), t)

\* An end message.
ObserveEnd(o, t) ==
  /\ tracks' = IF LabelOf[o] \in WatchedLabels THEN [tracks EXCEPT ![o] = Absent] ELSE tracks
  /\ Tick(tracks', t)
  /\ Receive(t)
  /\ Held(o, {}, t)

\* Any other topic, an unparsable event, a false positive: only a clock tick.
ObserveOther(t) ==
  /\ UNCHANGED <<tracks, held>>
  /\ Tick(tracks', t)
  /\ Receive(t)

\* Receive times: at most Skew behind the latest, within the bound.
ReceiveTimes == {t \in 1..Horizon : t >= now - Skew}

Init ==
  /\ tracks = [o \in Objects |-> Absent]
  /\ ledgers = [k \in Ledgers |-> NewLedger]
  /\ changes = {}
  /\ at = 1 /\ now = 1
  /\ held = [o \in Objects |-> [z \in WatchedZones |-> 0]]
  /\ dip = [k \in Ledgers |-> 0]
  /\ issued = {}

Next ==
  \E t \in ReceiveTimes :
    \/ \E m \in Sightings : ObserveSighting(m, t)
    \/ \E o \in Objects : ObserveEnd(o, t)
    \/ ObserveOther(t)

Spec == Init /\ [][Next]_vars

------------------------------------------------------------------------------
(***************************************************************************)
(* Properties.                                                             *)
(***************************************************************************)
Times == 0..Horizon

Track ==
  [live : BOOLEAN, entered : [WatchedZones -> Times],
   box : Boxes \cup {NoBox}, parked : BOOLEAN]

Ledger ==
  [present : Nat, since : Times, lastSeen : Times, belowSince : Times,
   seenSource : Objects \cup {Nobody}]

Event ==
  [kind : {"arrival", "departure"}, ledger : Ledgers, at : Times, count : Nat,
   startedAt : Times, sources : SUBSET Objects]

\* The type invariant of the engine's tables (Occupancy, occTrack, ledger).
TypeOK ==
  /\ tracks \in [Objects -> Track]
  /\ ledgers \in [Ledgers -> Ledger]
  /\ changes \in SUBSET Event
  /\ at \in Times \ {0} /\ now \in Times \ {0}
  /\ held \in [Objects -> [WatchedZones -> Times]]
  /\ dip \in [Ledgers -> Times]
  /\ issued \in SUBSET (Ledgers \X Times)

\* occupancy.go tick: after every Observe the belief is bracketed by what is
\* seen.  No object that has dwelt its ArriveAfter is missing from the count,
\* and the count has not exceeded the visible objects for a whole DepartAfter.
BeliefBracketed ==
  \A k \in Ledgers :
    /\ Qualified(tracks, k, at) <= ledgers[k].present
    /\ Raw(tracks, k) < ledgers[k].present =>
         at - dip[k] < DepartAfter[k]

\* occupancy.go event: a believed departure is anchored at a sighting, by a
\* remembered object, at least the whole grace (less the clock's skew) before
\* it is announced.
DepartureAnchored ==
  \A c \in changes : c.kind = "departure" =>
    /\ c.startedAt # 0 /\ c.sources # {}
    /\ c.at - c.startedAt >= DepartAfter[c.ledger] - Skew

\* occupancy.go tick: an arrival to a count of n is announced only when one
\* camera has n objects whose every message, for the last ArriveAfter (less the
\* clock's skew), placed them in the zone; an interrupted dwell never counts.
ArrivalDwelt ==
  \A c \in changes : c.kind = "arrival" =>
    \E cam \in Cameras :
      c.count <= Cardinality({o \in Objects :
                    /\ CameraOf[o] = cam /\ LabelOf[o] = c.ledger[2]
                    /\ held[o][c.ledger[1]] # 0
                    /\ c.at - held[o][c.ledger[1]] >= ArriveAfter[c.ledger] - Skew})

\* occupancy.go absorb: a spot is counted once.  Two tracks of one label on one
\* camera whose last messages were both stationary never keep overlapping
\* boxes, so an identity orphaned by a Frigate restart does not outlive the
\* return of its object.
SpotCountedOnce ==
  \A o, p \in Objects :
    /\ o # p /\ CameraOf[o] = CameraOf[p] /\ LabelOf[o] = LabelOf[p]
    /\ tracks[o].live /\ tracks[p].live
    /\ tracks[o].parked /\ tracks[p].parked
    => ~Overlap(tracks[o].box, tracks[p].box)

\* occupancy.go event: an event's id is minted from zone, label and time alone,
\* so no ledger may announce twice at one time (the store would replace the
\* first event by the second).
IdentityFresh ==
  [][\A c \in changes' : Identity(c) \notin issued]_<<changes, issued>>
==============================================================================
