------------------------------ MODULE WarmerProofs ------------------------------
(***************************************************************************)
(* Proofs about Warmer: for every set of events and cameras, every ladder, *)
(* working set, margin, grace and queue length.                            *)
(***************************************************************************)
EXTENDS Warmer, FiniteSetTheorems, WellFoundedInduction, TLAPS

------------------------------------------------------------------------------
(***************************************************************************)
(* Numbers and sequences.                                                  *)
(***************************************************************************)

\* A set of numbers that is not empty has a smallest one.
LEMMA Smallest ==
  ASSUME NEW B \in SUBSET Nat, B # {}
  PROVE  \E n \in B : \A i \in B : n <= i
<1>1. IsWellFoundedOn(OpToRel(<, Nat), Nat)
  BY NatLessThanWellFounded
<1>2. PICK n \in B : \A i \in B : <<i, n>> \notin OpToRel(<, Nat)
  BY <1>1, WFMin
<1>3. \A i \in B : ~ (i < n)
  BY <1>2 DEF OpToRel
<1> QED BY <1>3

\* The places of a part of a sequence.
LEMMA PartIs ==
  ASSUME NEW S, NEW s \in Seq(S), NEW i \in 1 .. Len(s) + 1, NEW n \in i - 1 .. Len(s)
  PROVE  /\ SubSeq(s, i, n) \in Seq(S) /\ Len(SubSeq(s, i, n)) = n - (i - 1)
         /\ \A j \in 1 .. n - (i - 1) : SubSeq(s, i, n)[j] = s[(i - 1) + j]
<1> DEFINE p == SubSeq(s, i, n)
<1>0. Len(s) \in Nat /\ i \in Nat /\ n \in Nat
  OBVIOUS
<1>1. p \in Seq(S)
  <2>1. \A j \in i .. n : s[j] \in S
    OBVIOUS
  <2> QED BY <1>0, <2>1
<1>2. Len(p) = IF i <= n THEN n - i + 1 ELSE 0
  BY <1>0
<1>3. \A j \in 1 .. n - i + 1 : p[j] = s[i + j - 1]
  BY <1>0
<1> HIDE DEF p
<1>4. Len(p) = n - (i - 1)
  BY <1>0, <1>2
<1>5. ASSUME NEW j \in 1 .. n - (i - 1) PROVE p[j] = s[(i - 1) + j]
  <2>1. j \in 1 .. n - i + 1 /\ i + j - 1 = (i - 1) + j
    BY <1>0
  <2> QED BY <1>3, <2>1
<1> QED BY <1>1, <1>4, <1>5 DEF p

\* A sequence without its element at place i.
LEMMA RemoveAtIs ==
  ASSUME NEW S, NEW s \in Seq(S), NEW i \in 1 .. Len(s)
  PROVE  /\ RemoveAt(s, i) \in Seq(S) /\ Len(RemoveAt(s, i)) = Len(s) - 1
         /\ \A j \in 1 .. Len(s) - 1 : RemoveAt(s, i)[j] = IF j < i THEN s[j] ELSE s[j + 1]
<1> DEFINE n == Len(s)
           a == SubSeq(s, 1, i - 1)
           b == SubSeq(s, i + 1, n)
           w == a \o b
<1>0. n \in Nat /\ i \in 1 .. n
  OBVIOUS
<1>1. a \in Seq(S) /\ Len(a) = i - 1 /\ \A j \in 1 .. i - 1 : a[j] = s[j]
  <2>1. 1 \in 1 .. Len(s) + 1 /\ i - 1 \in 1 - 1 .. Len(s)
    BY <1>0
  <2>2. /\ SubSeq(s, 1, i - 1) \in Seq(S) /\ Len(SubSeq(s, 1, i - 1)) = (i - 1) - (1 - 1)
        /\ \A j \in 1 .. (i - 1) - (1 - 1) : SubSeq(s, 1, i - 1)[j] = s[(1 - 1) + j]
    BY <2>1, PartIs
  <2> QED BY <1>0, <2>2
<1>2. b \in Seq(S) /\ Len(b) = n - i /\ \A j \in 1 .. n - i : b[j] = s[i + j]
  <2>1. i + 1 \in 1 .. Len(s) + 1 /\ Len(s) \in (i + 1) - 1 .. Len(s)
    BY <1>0
  <2>2. /\ SubSeq(s, i + 1, Len(s)) \in Seq(S) /\ Len(SubSeq(s, i + 1, Len(s))) = Len(s) - ((i + 1) - 1)
        /\ \A j \in 1 .. Len(s) - ((i + 1) - 1) : SubSeq(s, i + 1, Len(s))[j] = s[((i + 1) - 1) + j]
    BY <2>1, PartIs
  <2>3. Len(s) - ((i + 1) - 1) = n - i /\ (i + 1) - 1 = i
    BY <1>0
  <2> QED BY <2>2, <2>3
<1>3. RemoveAt(s, i) = w
  BY DEF RemoveAt
<1> HIDE DEF a, b, n
<1>4. /\ w \in Seq(S) /\ Len(w) = n - 1
      /\ \A j \in 1 .. i - 1 : w[j] = a[j]
      /\ \A j \in 1 .. n - i : w[(i - 1) + j] = b[j]
  <2>0. w = a \o b
    OBVIOUS
  <2> HIDE DEF w
  <2>1. w \in Seq(S) /\ Len(w) = Len(a) + Len(b)
    <3>1. a \in Seq(S) /\ b \in Seq(S)
      BY <1>1, <1>2
    <3> QED BY <2>0, <3>1
  <2>2. ASSUME NEW j \in 1 .. i - 1 PROVE w[j] = a[j]
    BY <1>0, <1>1, <1>2, <2>0
  <2>3. ASSUME NEW j \in 1 .. n - i PROVE w[(i - 1) + j] = b[j]
    <3>1. /\ a \in Seq(S) /\ b \in Seq(S) /\ Len(a) = i - 1
          /\ Len(b) = n - i /\ j \in 1 .. Len(b)
      BY <1>1, <1>2
    <3>2. (a \o b)[Len(a) + j] = b[j]
      BY <3>1
    <3> QED BY <2>0, <3>1, <3>2
  <2>4. Len(w) = n - 1
    BY <1>0, <1>1, <1>2, <2>1
  <2> QED BY <2>1, <2>2, <2>3, <2>4
<1> HIDE DEF w
<1>5. ASSUME NEW j \in 1 .. n - 1 PROVE w[j] = IF j < i THEN s[j] ELSE s[j + 1]
  <2>1. CASE j < i
    <3>1. j \in 1 .. i - 1
      BY <1>0, <2>1
    <3> QED BY <1>1, <1>4, <2>1, <3>1
  <2>2. CASE ~ (j < i)
    <3>1. j - (i - 1) \in 1 .. n - i /\ (i - 1) + (j - (i - 1)) = j /\ i + (j - (i - 1)) = j + 1
      BY <1>0, <2>2
    <3>2. w[j] = b[j - (i - 1)] /\ b[j - (i - 1)] = s[j + 1]
      BY <1>2, <1>4, <3>1
    <3> QED BY <2>2, <3>2
  <2> QED BY <2>1, <2>2
<1> QED BY <1>3, <1>4, <1>5 DEF n

------------------------------------------------------------------------------
(***************************************************************************)
(* The shape of the state.                                                 *)
(***************************************************************************)
EventRec == [state : {"none", "running", "ended", "gone"}, start : Nat, end : Nat, boxes : BOOLEAN]

Pcs == {"none", "get", "sleep", "cut", "settle", "final", "evict", "done"}

GoRec ==
  [pc : Pcs, e : EventRec, rung : Nat \ {0}, cam : Nat \ {0}, prev : [Cameras -> Nat],
   ended : BOOLEAN, cancelled : BOOLEAN, seal : BOOLEAN, warmed : BOOLEAN, failed : BOOLEAN]

Message == [op : {"started", "updated", "ended"}, id : Events, e : EventRec]

FeedRec == [open : BOOLEAN, queue : Seq(Message)]

Job == [id : Events \cup {None}, e : EventRec]

WorkerRec == [pc : {"poll", "block", "stitch", "cut"}, job : Job, variant : Variants, cams : SUBSET Cameras]

KeySet == Cameras \X Int \X Int

StoreOK ==
  /\ world \in World /\ now \in Nat /\ store \in [Events -> EventRec]
  /\ \A i, j \in DOMAIN Ladder : i < j => Ladder[i] < Ladder[j]

FeedOK ==
  /\ feed \in FeedRec /\ loop \in {"boot", "watch", "returned"}
  /\ boot \in Seq(Events) /\ order \in Seq(Events) /\ watching \in SUBSET Events

\* Where a goroutine is in its loops.
PlaceOK(g) ==
  /\ g.pc \in {"cut", "final"} => g.cam <= Len(EventCameras)
  /\ g.pc = "cut" => g.rung <= Len(Ladder)

LiveOK == live \in [Events -> GoRec] /\ \A id \in Events : PlaceOK(live[id])

CutsOK == cuts \in SUBSET KeySet /\ mine \in [Events -> SUBSET KeySet]

RendersOK == renders \in [Variants -> Seq(Job)] /\ worker \in WorkerRec

AskedOK == asked \in [Viewers -> KeySet \cup {None}] /\ shed \in SUBSET KeySet

TypeOK == StoreOK /\ FeedOK /\ LiveOK /\ CutsOK /\ RendersOK /\ AskedOK

\* A goroutine, field by field.
Go(pc, e, rung, cam, prev, ended, cancelled, seal, warmed, failed) ==
  [pc |-> pc, e |-> e, rung |-> rung, cam |-> cam, prev |-> prev, ended |-> ended,
   cancelled |-> cancelled, seal |-> seal, warmed |-> warmed, failed |-> failed]

\* A goroutine that goes to another place with, maybe, another copy of its event.
Goes(g, pc, e, rung, cam) ==
  Go(pc, e, rung, cam, g.prev, g.ended, g.cancelled, g.seal, g.warmed, g.failed)

\* The parts of a goroutine are as large as its record says.
LEMMA GoIs ==
  ASSUME NEW pc \in Pcs, NEW e \in EventRec, NEW rung \in Nat \ {0}, NEW cam \in Nat \ {0},
         NEW prev \in [Cameras -> Nat], NEW ended \in BOOLEAN, NEW cancelled \in BOOLEAN,
         NEW seal \in BOOLEAN, NEW warmed \in BOOLEAN, NEW failed \in BOOLEAN,
         NEW h, h = Go(pc, e, rung, cam, prev, ended, cancelled, seal, warmed, failed)
  PROVE  /\ h \in GoRec
         /\ h.pc = pc /\ h.e = e /\ h.rung = rung /\ h.cam = cam /\ h.prev = prev
         /\ h.ended = ended /\ h.cancelled = cancelled /\ h.seal = seal
         /\ h.warmed = warmed /\ h.failed = failed
BY DEF Go, GoRec

\* The fields of a goroutine are of their kinds.
LEMMA GoFields ==
  ASSUME NEW g \in GoRec
  PROVE  /\ g.pc \in Pcs /\ g.e \in EventRec /\ g.rung \in Nat \ {0} /\ g.cam \in Nat \ {0}
         /\ g.prev \in [Cameras -> Nat] /\ g.ended \in BOOLEAN /\ g.cancelled \in BOOLEAN
         /\ g.seal \in BOOLEAN /\ g.warmed \in BOOLEAN /\ g.failed \in BOOLEAN
BY DEF GoRec

\* The fields of an event are of their kinds.
LEMMA EventFields ==
  ASSUME NEW e \in EventRec
  PROVE  /\ e.state \in {"none", "running", "ended", "gone"}
         /\ e.start \in Nat /\ e.end \in Nat /\ e.boxes \in BOOLEAN
BY DEF EventRec

\* A goroutine that moves, field by field.
LEMMA GoesIs ==
  ASSUME NEW g \in GoRec, NEW pc \in Pcs, NEW e \in EventRec, NEW rung \in Nat \ {0},
         NEW cam \in Nat \ {0}, NEW h, h = Goes(g, pc, e, rung, cam)
  PROVE  /\ h \in GoRec
         /\ h.pc = pc /\ h.e = e /\ h.rung = rung /\ h.cam = cam /\ h.prev = g.prev
         /\ h.ended = g.ended /\ h.cancelled = g.cancelled /\ h.seal = g.seal
         /\ h.warmed = g.warmed /\ h.failed = g.failed
<1>1. h = Go(pc, e, rung, cam, g.prev, g.ended, g.cancelled, g.seal, g.warmed, g.failed)
  BY DEF Goes
<1>2. /\ g.prev \in [Cameras -> Nat] /\ g.ended \in BOOLEAN /\ g.cancelled \in BOOLEAN
      /\ g.seal \in BOOLEAN /\ g.warmed \in BOOLEAN /\ g.failed \in BOOLEAN
  BY GoFields
<1> HIDE DEF Goes
<1> QED BY <1>1, <1>2 DEF Go, GoRec

------------------------------------------------------------------------------
(***************************************************************************)
(* What each step of a goroutine does to it, with its record spelt out.    *)
(***************************************************************************)

\* warmLive's first look at the store finds the event, or the goroutine is done.
LEMMA GetsTo ==
  ASSUME TypeOK, NEW id \in Events, NEW g, g = live[id], LiveGets(id)
  PROVE  /\ g.pc = "get" /\ UNCHANGED <<cuts, renders, mine>>
         /\ \/ Found(id) /\ Step(id, Goes(g, "sleep", store[id], g.rung, g.cam))
            \/ ~Found(id) /\ Step(id, Goes(g, "done", g.e, g.rung, g.cam))
<1>1. g \in GoRec
  BY DEF TypeOK, LiveOK
<1>2. g.pc = "get" /\ UNCHANGED <<cuts, renders, mine>>
  BY DEF LiveGets, At
<1>3. CASE Found(id)
  <2>1. Step(id, [g EXCEPT !.pc = "sleep", !.e = store[id]])
    BY <1>3 DEF LiveGets
  <2>2. ASSUME NEW d, d = [g EXCEPT !.pc = "sleep", !.e = store[id]] PROVE d = Goes(g, "sleep", store[id], g.rung, g.cam)
    BY <1>1, <2>2 DEF GoRec, Go, Goes
  <2> QED BY <2>1, <2>2, <1>2, <1>3, Zenon
<1>4. CASE ~Found(id)
  <2>1. Step(id, [g EXCEPT !.pc = "done"])
    BY <1>4 DEF LiveGets, Done
  <2>2. ASSUME NEW d, d = [g EXCEPT !.pc = "done"] PROVE d = Goes(g, "done", g.e, g.rung, g.cam)
    BY <1>1, <2>2 DEF GoRec, Go, Goes
  <2> QED BY <2>1, <2>2, <1>2, <1>4, Zenon
<1> QED BY <1>3, <1>4

\* A cancelled goroutine that sleeps is done.
LEMMA CancelledTo ==
  ASSUME TypeOK, NEW id \in Events, NEW g, g = live[id], LiveCancelled(id)
  PROVE  /\ g.pc = "sleep" /\ g.cancelled /\ UNCHANGED <<cuts, renders, mine>>
         /\ Step(id, Goes(g, "done", g.e, g.rung, g.cam))
<1>1. g \in GoRec
  BY DEF TypeOK, LiveOK
<1>2. Step(id, [g EXCEPT !.pc = "done"])
  BY DEF LiveCancelled, Done
<1>3. g.pc = "sleep" /\ g.cancelled /\ UNCHANGED <<cuts, renders, mine>>
  BY DEF LiveCancelled, At
<1>4. ASSUME NEW d, d = [g EXCEPT !.pc = "done"] PROVE d = Goes(g, "done", g.e, g.rung, g.cam)
  BY <1>1, <1>4 DEF GoRec, Go, Goes
<1> QED BY <1>2, <1>3, <1>4, Zenon

\* A goroutine told of the end seals the event, or forgets it with the store.
LEMMA EndedTo ==
  ASSUME TypeOK, NEW id \in Events, NEW g, g = live[id], LiveEnded(id)
  PROVE  /\ g.pc = "sleep" /\ g.ended /\ UNCHANGED <<cuts, renders, mine>>
         /\ \/ Found(id) /\ Step(id, Goes(g, "settle", store[id], g.rung, g.cam))
            \/ ~Found(id) /\ Step(id, Goes(g, "evict", Absent, g.rung, g.cam))
<1>1. g \in GoRec
  BY DEF TypeOK, LiveOK
<1>2. g.pc = "sleep" /\ g.ended /\ UNCHANGED <<cuts, renders, mine>>
  BY DEF LiveEnded, At
<1>3. CASE Found(id)
  <2>1. Step(id, [g EXCEPT !.pc = "settle", !.e = store[id]])
    BY <1>3 DEF LiveEnded
  <2>2. ASSUME NEW d, d = [g EXCEPT !.pc = "settle", !.e = store[id]] PROVE d = Goes(g, "settle", store[id], g.rung, g.cam)
    BY <1>1, <2>2 DEF GoRec, Go, Goes
  <2> QED BY <2>1, <2>2, <1>2, <1>3, Zenon
<1>4. CASE ~Found(id)
  <2>1. Step(id, [g EXCEPT !.pc = "evict", !.e = Absent])
    BY <1>4 DEF LiveEnded
  <2>2. ASSUME NEW d, d = [g EXCEPT !.pc = "evict", !.e = Absent] PROVE d = Goes(g, "evict", Absent, g.rung, g.cam)
    BY <1>1, <2>2 DEF GoRec, Go, Goes
  <2> QED BY <2>1, <2>2, <1>2, <1>4, Zenon
<1> QED BY <1>3, <1>4

\* A rung's timer starts the cut of a running event, and ends the goroutine else.
LEMMA TimerTo ==
  ASSUME TypeOK, NEW id \in Events, NEW g, g = live[id], LiveTimer(id)
  PROVE  /\ g.pc = "sleep" /\ g.rung <= Len(Ladder) /\ now >= g.e.start + Ladder[g.rung] + Grace
         /\ UNCHANGED <<cuts, renders, mine>>
         /\ \/ Running(store[id]) /\ Step(id, Goes(g, "cut", store[id], g.rung, 1))
            \/ ~Running(store[id]) /\ Step(id, Goes(g, "done", g.e, g.rung, g.cam))
<1>1. g \in GoRec
  BY DEF TypeOK, LiveOK
<1>2. /\ g.pc = "sleep" /\ g.rung <= Len(Ladder) /\ now >= g.e.start + Ladder[g.rung] + Grace
      /\ UNCHANGED <<cuts, renders, mine>>
  BY DEF LiveTimer, At
<1>3. CASE Running(store[id])
  <2>1. Step(id, [g EXCEPT !.pc = "cut", !.e = store[id], !.cam = 1])
    BY <1>3 DEF LiveTimer
  <2>2. ASSUME NEW d, d = [g EXCEPT !.pc = "cut", !.e = store[id], !.cam = 1] PROVE d = Goes(g, "cut", store[id], g.rung, 1)
    BY <1>1, <2>2 DEF GoRec, Go, Goes
  <2> QED BY <2>1, <2>2, <1>2, <1>3, Zenon
<1>4. CASE ~Running(store[id])
  <2>1. Step(id, [g EXCEPT !.pc = "done"])
    BY <1>4 DEF LiveTimer, Done
  <2>2. ASSUME NEW d, d = [g EXCEPT !.pc = "done"] PROVE d = Goes(g, "done", g.e, g.rung, g.cam)
    BY <1>1, <2>2 DEF GoRec, Go, Goes
  <2> QED BY <2>1, <2>2, <1>2, <1>4, Zenon
<1> QED BY <1>3, <1>4

\* The cameras of an event are cameras, and a goroutine's are in range.
LEMMA CamerasOK ==
  ASSUME TypeOK
  PROVE  /\ EventCameras \in Seq(Cameras) /\ Len(EventCameras) \in Nat \ {0}
         /\ \A n \in 1..Len(EventCameras) : EventCameras[n] \in Cameras
         /\ Ladder \in Seq(Nat \ {0}) /\ Len(Ladder) \in Nat
         /\ \A n \in 1..Len(Ladder) : Ladder[n] \in Nat \ {0}
<1>1. EventCameras \in Seq(Cameras) \ {<<>>} /\ Ladder \in Seq(Nat \ {0})
  BY DEF TypeOK, StoreOK, World, EventCameras, Ladder
<1> DEFINE cs == EventCameras
           ls == Ladder
<1>2. cs \in Seq(Cameras) /\ cs # <<>> /\ ls \in Seq(Nat \ {0})
  BY <1>1
<1> HIDE DEF cs, ls
<1>3. /\ Len(cs) \in Nat \ {0} /\ \A n \in 1..Len(cs) : cs[n] \in Cameras
      /\ Len(ls) \in Nat /\ \A n \in 1..Len(ls) : ls[n] \in Nat \ {0}
  BY <1>2
<1> QED BY <1>2, <1>3 DEF cs, ls

\* A goroutine after a turn of the camera loop of a rung.
Turned(g, prev) ==
  IF g.cam < Len(EventCameras)
  THEN Go(g.pc, g.e, g.rung, g.cam + 1, prev, g.ended, g.cancelled, g.seal, g.warmed, g.failed)
  ELSE Go("sleep", g.e, g.rung + 1, g.cam, prev, g.ended, g.cancelled, g.seal, g.warmed, g.failed)

\* One turn of the camera loop of a rung, with prev as the cut left it.
LEMMA NextCameraIs ==
  ASSUME NEW id, NEW d, NEW g \in GoRec, NEW prev,
         d = Go(g.pc, g.e, g.rung, g.cam, prev, g.ended, g.cancelled, g.seal, g.warmed, g.failed)
  PROVE  NextCamera(id, d) = Turned(g, prev)
<1>1. d.cam = g.cam /\ d.rung = g.rung
  BY DEF Go
<1>2. CASE g.cam < Len(EventCameras)
  <2>1. NextCamera(id, d) = [d EXCEPT !.cam = d.cam + 1]
    BY <1>1, <1>2 DEF NextCamera
  <2>2. ASSUME NEW x, x = [d EXCEPT !.cam = d.cam + 1]
        PROVE  x = Go(g.pc, g.e, g.rung, g.cam + 1, prev, g.ended, g.cancelled, g.seal, g.warmed, g.failed)
    BY <2>2 DEF Go
  <2> QED BY <2>1, <2>2, <1>2, Zenon DEF Turned
<1>3. CASE ~(g.cam < Len(EventCameras))
  <2>1. NextCamera(id, d) = [d EXCEPT !.pc = "sleep", !.rung = d.rung + 1]
    BY <1>1, <1>3 DEF NextCamera
  <2>2. ASSUME NEW x, x = [d EXCEPT !.pc = "sleep", !.rung = d.rung + 1]
        PROVE  x = Go("sleep", g.e, g.rung + 1, g.cam, prev, g.ended, g.cancelled, g.seal, g.warmed, g.failed)
    BY <2>2 DEF Go
  <2> QED BY <2>1, <2>2, <1>3, Zenon DEF Turned
<1> QED BY <1>2, <1>3

\* A record is what its fields are.
LEMMA GoEta ==
  ASSUME NEW g \in GoRec
  PROVE  g = Go(g.pc, g.e, g.rung, g.cam, g.prev, g.ended, g.cancelled, g.seal, g.warmed, g.failed)
BY DEF GoRec, Go

\* The key a rung's turn fills, and the one warmFinal's turn does.
RungKey(g) == Key(EventCameras[g.cam], g.e.start - Margin, g.e.start + Ladder[g.rung])

FinalKey(g) == Key(EventCameras[g.cam], g.e.start - Margin, g.e.end + Margin)

\* A goroutine after warmFinal, and after one turn of it.
After(g) == IF g.seal THEN "evict" ELSE "done"

Finals(g, failed) ==
  IF g.cam < Len(EventCameras)
  THEN Go(g.pc, g.e, g.rung, g.cam + 1, g.prev, g.ended, g.cancelled, g.seal, g.warmed, failed)
  ELSE Go(After(g), g.e, g.rung, g.cam, g.prev, g.ended, g.cancelled, g.seal, TRUE, failed)

\* A goroutine in a loop is at a camera, and in a rung's at a rung.
LEMMA PlaceIs ==
  ASSUME TypeOK, NEW id \in Events, NEW g, g = live[id], g.pc \in {"cut", "final"}
  PROVE  /\ g.cam \in 1..Len(EventCameras) /\ EventCameras[g.cam] \in Cameras
         /\ g.pc = "cut" => (g.rung \in 1..Len(Ladder) /\ Ladder[g.rung] \in Nat \ {0})
<1>1. g.cam \in Nat \ {0} /\ g.rung \in Nat \ {0}
  BY GoFields DEF TypeOK, LiveOK
<1>2. g.cam <= Len(EventCameras) /\ (g.pc = "cut" => g.rung <= Len(Ladder))
  BY DEF TypeOK, LiveOK, PlaceOK
<1>3. g.cam \in 1..Len(EventCameras) /\ (g.pc = "cut" => g.rung \in 1..Len(Ladder))
  BY <1>1, <1>2, CamerasOK
<1> QED BY <1>3, CamerasOK

\* One turn of a rung: the cut is filled and the one before evicted, or Fill fails.
LEMMA CutsTo ==
  ASSUME TypeOK, NEW id \in Events, NEW g, g = live[id], LiveCuts(id)
  PROVE  /\ g.pc = "cut" /\ UNCHANGED renders
         /\ \/ /\ cuts' = (cuts \cup {RungKey(g)}) \ Superseded(g, EventCameras[g.cam])
               /\ mine' = [mine EXCEPT ![id] = mine[id] \cup {RungKey(g)}]
               /\ Step(id, Turned(g, [g.prev EXCEPT ![EventCameras[g.cam]] = g.e.start + Ladder[g.rung]]))
            \/ /\ UNCHANGED <<cuts, mine>>
               /\ Step(id, Turned(g, g.prev))
<1>1. g \in GoRec /\ g.pc = "cut" /\ UNCHANGED renders
  BY DEF TypeOK, LiveOK, LiveCuts, At
<1>2. PICK cam : cam = EventCameras[g.cam]
  OBVIOUS
<1>3. PICK end : end = g.e.start + Ladder[g.rung]
  OBVIOUS
<1>4. PICK p : p = [g.prev EXCEPT ![cam] = end]
  OBVIOUS
<1>5. PICK d : d = [g EXCEPT !.prev = p]
  OBVIOUS
<1>6. \/ /\ cuts' = (cuts \cup {RungKey(g)}) \ Superseded(g, cam)
         /\ mine' = [mine EXCEPT ![id] = mine[id] \cup {RungKey(g)}]
         /\ Step(id, NextCamera(id, d))
      \/ Step(id, NextCamera(id, g)) /\ UNCHANGED <<cuts, mine>>
  BY <1>2, <1>3, <1>4, <1>5, Zenon DEF LiveCuts, RungKey
<1>7. d = Go(g.pc, g.e, g.rung, g.cam, p, g.ended, g.cancelled, g.seal, g.warmed, g.failed)
  BY <1>1, <1>5 DEF GoRec, Go
<1>8. NextCamera(id, d) = Turned(g, p)
  BY <1>1, <1>7, NextCameraIs
<1>9. NextCamera(id, g) = Turned(g, g.prev)
  BY <1>1, GoEta, NextCameraIs
<1> QED BY <1>1, <1>2, <1>3, <1>4, <1>6, <1>8, <1>9, Zenon

\* warmFinal goes on once the recording is on disk, and gives up when cancelled.
LEMMA SettlesTo ==
  ASSUME TypeOK, NEW id \in Events, NEW g, g = live[id], FinalSettles(id)
  PROVE  /\ g.pc = "settle" /\ UNCHANGED <<cuts, renders, mine>>
         /\ \/ Settled(g.e) /\ Step(id, Goes(g, "final", g.e, g.rung, 1))
            \/ g.cancelled /\ Step(id, Goes(g, After(g), g.e, g.rung, g.cam))
<1>1. g \in GoRec /\ g.pc = "settle" /\ UNCHANGED <<cuts, renders, mine>>
  BY DEF TypeOK, LiveOK, FinalSettles, At
<1>2. \/ Settled(g.e) /\ Step(id, [g EXCEPT !.pc = "final", !.cam = 1])
      \/ g.cancelled /\ Step(id, [g EXCEPT !.pc = After(g)])
  BY DEF FinalSettles, AfterFinal, After
<1>3. ASSUME NEW d, d = [g EXCEPT !.pc = "final", !.cam = 1] PROVE d = Goes(g, "final", g.e, g.rung, 1)
  BY <1>1, <1>3 DEF GoRec, Go, Goes
<1>4. ASSUME NEW d, d = [g EXCEPT !.pc = After(g)] PROVE d = Goes(g, After(g), g.e, g.rung, g.cam)
  BY <1>1, <1>4 DEF GoRec, Go, Goes
<1> QED BY <1>1, <1>2, <1>3, <1>4, Zenon

\* The turn of warmFinal from a goroutine whose flag of failure is set or not.
LEMMA NextFinalIs ==
  ASSUME NEW id, NEW d, NEW g \in GoRec, NEW failed,
         d = Go(g.pc, g.e, g.rung, g.cam, g.prev, g.ended, g.cancelled, g.seal, g.warmed, failed)
  PROVE  NextFinal(id, d) = Finals(g, failed)
<1>1. d.cam = g.cam /\ d.seal = g.seal
  BY DEF Go
<1>2. CASE g.cam < Len(EventCameras)
  <2>1. NextFinal(id, d) = [d EXCEPT !.cam = d.cam + 1]
    BY <1>1, <1>2 DEF NextFinal
  <2>2. ASSUME NEW x, x = [d EXCEPT !.cam = d.cam + 1]
        PROVE  x = Go(g.pc, g.e, g.rung, g.cam + 1, g.prev, g.ended, g.cancelled, g.seal, g.warmed, failed)
    BY <2>2 DEF Go
  <2> QED BY <2>1, <2>2, <1>2, Zenon DEF Finals
<1>3. CASE ~(g.cam < Len(EventCameras))
  <2> DEFINE w == [d EXCEPT !.warmed = TRUE]
  <2>1. NextFinal(id, d) = [w EXCEPT !.pc = IF w.seal THEN "evict" ELSE "done"]
    BY <1>1, <1>3 DEF NextFinal, AfterFinal
  <2>2. w = Go(g.pc, g.e, g.rung, g.cam, g.prev, g.ended, g.cancelled, g.seal, TRUE, failed)
    <3>1. ASSUME NEW x, x = [d EXCEPT !.warmed = TRUE]
          PROVE  x = Go(g.pc, g.e, g.rung, g.cam, g.prev, g.ended, g.cancelled, g.seal, TRUE, failed)
      BY <3>1 DEF Go
    <3> QED BY <3>1
  <2> HIDE DEF w
  <2>3. w.seal = g.seal
    BY <2>2 DEF Go
  <2>4. NextFinal(id, d) = [w EXCEPT !.pc = After(g)]
    BY <2>1, <2>3 DEF After
  <2>5. ASSUME NEW x, x = [w EXCEPT !.pc = After(g)]
        PROVE  x = Go(After(g), g.e, g.rung, g.cam, g.prev, g.ended, g.cancelled, g.seal, TRUE, failed)
    BY <2>2, <2>5 DEF Go
  <2> QED BY <2>4, <2>5, <1>3, Zenon DEF Finals
<1> QED BY <1>2, <1>3

\* The job warmFinal asks a stitch for, past the last camera.
FinalJob(id, g) == [id |-> id, e |-> g.e]

\* One turn of warmFinal: the final cut is filled, or Fill fails.
LEMMA FillsTo ==
  ASSUME TypeOK, NEW id \in Events, NEW g, g = live[id], FinalFills(id)
  PROVE  /\ g.pc = "final"
         /\ renders' = IF g.cam < Len(EventCameras) THEN renders
                       ELSE Requested(renders, "lo", FinalJob(id, g))
         /\ \/ /\ cuts' = cuts \cup {FinalKey(g)}
               /\ mine' = [mine EXCEPT ![id] = mine[id] \cup {FinalKey(g)}]
               /\ Step(id, Finals(g, g.failed))
            \/ /\ UNCHANGED <<cuts, mine>>
               /\ Step(id, Finals(g, TRUE))
<1>1. g \in GoRec /\ g.pc = "final"
  BY DEF TypeOK, LiveOK, FinalFills, At
<1>2. renders' = IF g.cam < Len(EventCameras) THEN renders
                 ELSE Requested(renders, "lo", FinalJob(id, g))
  BY Zenon DEF FinalFills, FinalJob
<1>8. PICK d : d = [g EXCEPT !.failed = TRUE]
  OBVIOUS
<1>3. \/ /\ cuts' = cuts \cup {FinalKey(g)}
         /\ mine' = [mine EXCEPT ![id] = mine[id] \cup {FinalKey(g)}]
         /\ Step(id, NextFinal(id, g))
      \/ Step(id, NextFinal(id, d)) /\ UNCHANGED <<cuts, mine>>
  BY <1>8, Zenon DEF FinalFills, FinalKey
<1>4. PICK t : t = TRUE
  OBVIOUS
<1>5. d = Go(g.pc, g.e, g.rung, g.cam, g.prev, g.ended, g.cancelled, g.seal, g.warmed, t)
  BY <1>1, <1>8, <1>4 DEF GoRec, Go
<1>6. NextFinal(id, d) = Finals(g, t)
  BY <1>1, <1>5, NextFinalIs
<1>7. NextFinal(id, g) = Finals(g, g.failed)
  BY <1>1, GoEta, NextFinalIs
<1> QED BY <1>1, <1>2, <1>3, <1>4, <1>6, <1>7, Zenon

\* The last step of warmLive evicts the checkpoints it still knows.
LEMMA EvictsTo ==
  ASSUME TypeOK, NEW id \in Events, NEW g, g = live[id], EvictCheckpoints(id)
  PROVE  /\ g.pc = "evict" /\ UNCHANGED <<renders, mine>>
         /\ cuts' = cuts \ Checkpoints(g)
         /\ Step(id, Goes(g, "done", g.e, g.rung, g.cam))
<1>1. g \in GoRec /\ g.pc = "evict" /\ UNCHANGED <<renders, mine>> /\ cuts' = cuts \ Checkpoints(g)
  BY DEF TypeOK, LiveOK, EvictCheckpoints, At
<1>2. Step(id, [g EXCEPT !.pc = "done"])
  BY DEF EvictCheckpoints, Done
<1>3. ASSUME NEW d, d = [g EXCEPT !.pc = "done"] PROVE d = Goes(g, "done", g.e, g.rung, g.cam)
  BY <1>1, <1>3 DEF GoRec, Go, Goes
<1> QED BY <1>1, <1>2, <1>3, Zenon

------------------------------------------------------------------------------
(***************************************************************************)
(* Types.                                                                  *)
(***************************************************************************)

\* Where a goroutine that takes a step may go: it keeps what it was told, never
\* becomes idle, and never starts following again.
Goroutined(g, h) ==
  /\ h \in GoRec /\ PlaceOK(h)
  /\ h.ended = g.ended /\ h.cancelled = g.cancelled /\ h.seal = g.seal
  /\ g.pc # "none" /\ g.pc # "done" /\ h.pc # "none"
  /\ h.pc \in {"get", "sleep", "cut"} => g.pc \in {"get", "sleep", "cut"}

\* A goroutine after a turn of a rung.
LEMMA TurnedOK ==
  ASSUME TypeOK, NEW id \in Events, NEW g, g = live[id], g.pc = "cut",
         NEW prev \in [Cameras -> Nat], NEW h, h = Turned(g, prev)
  PROVE  /\ Goroutined(g, h) /\ h.pc \in {"cut", "sleep"}
         /\ h.e = g.e /\ h.prev = prev /\ h.warmed = g.warmed /\ h.failed = g.failed
         /\ g.cam < Len(EventCameras) => (h.pc = "cut" /\ h.rung = g.rung /\ h.cam = g.cam + 1)
         /\ ~(g.cam < Len(EventCameras)) => (h.pc = "sleep" /\ h.rung = g.rung + 1)
<1>1. /\ g.pc \in Pcs /\ g.e \in EventRec /\ g.rung \in Nat \ {0} /\ g.cam \in Nat \ {0}
      /\ g.prev \in [Cameras -> Nat] /\ g.ended \in BOOLEAN /\ g.cancelled \in BOOLEAN
      /\ g.seal \in BOOLEAN /\ g.warmed \in BOOLEAN /\ g.failed \in BOOLEAN
  BY GoFields DEF TypeOK, LiveOK
<1>2. /\ g.cam <= Len(EventCameras) /\ g.rung <= Len(Ladder)
      /\ Len(EventCameras) \in Nat /\ Len(Ladder) \in Nat
  BY CamerasOK DEF TypeOK, LiveOK, PlaceOK
<1>3. CASE g.cam < Len(EventCameras)
  <2>1. h = Go(g.pc, g.e, g.rung, g.cam + 1, prev, g.ended, g.cancelled, g.seal, g.warmed, g.failed)
    BY <1>3 DEF Turned
  <2>2. /\ h \in GoRec /\ h.pc = g.pc /\ h.e = g.e /\ h.rung = g.rung /\ h.cam = g.cam + 1 /\ h.prev = prev
        /\ h.ended = g.ended /\ h.cancelled = g.cancelled /\ h.seal = g.seal
        /\ h.warmed = g.warmed /\ h.failed = g.failed
    BY <2>1, <1>1 DEF Go, GoRec
  <2>3. PlaceOK(h)
    BY <2>2, <1>1, <1>2, <1>3 DEF PlaceOK
  <2> QED BY <2>2, <2>3, <1>3 DEF Goroutined
<1>4. CASE ~(g.cam < Len(EventCameras))
  <2>1. h = Go("sleep", g.e, g.rung + 1, g.cam, prev, g.ended, g.cancelled, g.seal, g.warmed, g.failed)
    BY <1>4 DEF Turned
  <2>2. /\ h \in GoRec /\ h.pc = "sleep" /\ h.e = g.e /\ h.rung = g.rung + 1 /\ h.cam = g.cam /\ h.prev = prev
        /\ h.ended = g.ended /\ h.cancelled = g.cancelled /\ h.seal = g.seal
        /\ h.warmed = g.warmed /\ h.failed = g.failed
    BY <2>1, <1>1 DEF Go, GoRec, Pcs
  <2>3. PlaceOK(h)
    BY <2>2 DEF PlaceOK
  <2> QED BY <2>2, <2>3, <1>4 DEF Goroutined
<1> QED BY <1>3, <1>4

\* A goroutine after a turn of warmFinal.
LEMMA FinalsOK ==
  ASSUME TypeOK, NEW id \in Events, NEW g, g = live[id], g.pc = "final",
         NEW failed \in BOOLEAN, NEW h, h = Finals(g, failed)
  PROVE  /\ Goroutined(g, h) /\ h.pc \in {"final", "evict", "done"}
         /\ h.e = g.e /\ h.prev = g.prev /\ h.rung = g.rung /\ h.failed = failed
         /\ g.cam < Len(EventCameras) => (h.pc = "final" /\ h.cam = g.cam + 1 /\ h.warmed = g.warmed)
         /\ ~(g.cam < Len(EventCameras)) => (h.pc = After(g) /\ h.cam = g.cam /\ h.warmed = TRUE)
<1>1. /\ g.pc \in Pcs /\ g.e \in EventRec /\ g.rung \in Nat \ {0} /\ g.cam \in Nat \ {0}
      /\ g.prev \in [Cameras -> Nat] /\ g.ended \in BOOLEAN /\ g.cancelled \in BOOLEAN
      /\ g.seal \in BOOLEAN /\ g.warmed \in BOOLEAN /\ g.failed \in BOOLEAN
  BY GoFields DEF TypeOK, LiveOK
<1>2. /\ g.cam <= Len(EventCameras) /\ Len(EventCameras) \in Nat
  BY CamerasOK DEF TypeOK, LiveOK, PlaceOK
<1>3. CASE g.cam < Len(EventCameras)
  <2>1. h = Go(g.pc, g.e, g.rung, g.cam + 1, g.prev, g.ended, g.cancelled, g.seal, g.warmed, failed)
    BY <1>3 DEF Finals
  <2>2. /\ h \in GoRec /\ h.pc = g.pc /\ h.e = g.e /\ h.rung = g.rung /\ h.cam = g.cam + 1 /\ h.prev = g.prev
        /\ h.ended = g.ended /\ h.cancelled = g.cancelled /\ h.seal = g.seal
        /\ h.warmed = g.warmed /\ h.failed = failed
    BY <2>1, <1>1 DEF Go, GoRec
  <2>3. PlaceOK(h)
    BY <2>2, <1>1, <1>2, <1>3 DEF PlaceOK
  <2> QED BY <2>2, <2>3, <1>3 DEF Goroutined
<1>4. CASE ~(g.cam < Len(EventCameras))
  <2>1. h = Go(After(g), g.e, g.rung, g.cam, g.prev, g.ended, g.cancelled, g.seal, TRUE, failed)
    BY <1>4 DEF Finals
  <2>2. After(g) \in {"evict", "done"} /\ After(g) \in Pcs
    BY DEF After, Pcs
  <2>3. /\ h \in GoRec /\ h.pc = After(g) /\ h.e = g.e /\ h.rung = g.rung /\ h.cam = g.cam /\ h.prev = g.prev
        /\ h.ended = g.ended /\ h.cancelled = g.cancelled /\ h.seal = g.seal
        /\ h.warmed = TRUE /\ h.failed = failed
    BY <2>1, <2>2, <1>1 DEF Go, GoRec
  <2>4. PlaceOK(h)
    BY <2>2, <2>3 DEF PlaceOK
  <2> QED BY <2>2, <2>3, <2>4, <1>4 DEF Goroutined
<1> QED BY <1>3, <1>4

\* A goroutine that goes to a place outside the loops, or to the first camera.
LEMMA GoesOK ==
  ASSUME TypeOK, NEW id \in Events, NEW g, g = live[id], g.pc \in {"get", "sleep", "settle", "evict"},
         NEW pc \in {"sleep", "cut", "settle", "final", "evict", "done"}, NEW e \in EventRec,
         NEW cam \in {g.cam, 1}, NEW h, h = Goes(g, pc, e, g.rung, cam),
         pc \in {"cut", "final"} => cam = 1, pc = "cut" => g.rung <= Len(Ladder),
         pc \in {"sleep", "cut"} => g.pc \in {"get", "sleep"}
  PROVE  /\ Goroutined(g, h)
         /\ h.pc = pc /\ h.e = e /\ h.rung = g.rung /\ h.cam = cam /\ h.prev = g.prev
         /\ h.warmed = g.warmed /\ h.failed = g.failed
<1>1. g \in GoRec /\ g.rung \in Nat \ {0} /\ g.cam \in Nat \ {0}
  BY GoFields DEF TypeOK, LiveOK
<1>2. pc \in Pcs /\ cam \in Nat \ {0}
  BY <1>1 DEF Pcs
<1>0. PICK rung \in Nat \ {0} : rung = g.rung
  BY <1>1
<1>5. h = Goes(g, pc, e, rung, cam)
  BY <1>0
<1>6. /\ h \in GoRec
      /\ h.pc = pc /\ h.e = e /\ h.rung = rung /\ h.cam = cam /\ h.prev = g.prev
      /\ h.ended = g.ended /\ h.cancelled = g.cancelled /\ h.seal = g.seal
      /\ h.warmed = g.warmed /\ h.failed = g.failed
  BY <1>1, <1>2, <1>5, GoesIs
<1>3. /\ h \in GoRec
      /\ h.pc = pc /\ h.e = e /\ h.rung = g.rung /\ h.cam = cam /\ h.prev = g.prev
      /\ h.ended = g.ended /\ h.cancelled = g.cancelled /\ h.seal = g.seal
      /\ h.warmed = g.warmed /\ h.failed = g.failed
  BY <1>0, <1>6
<1>4. PlaceOK(h)
  BY <1>3, CamerasOK DEF PlaceOK
<1> QED BY <1>3, <1>4 DEF Goroutined

\* The records a goroutine may be given.
LEMMA RecordsOK ==
  ASSUME TypeOK, NEW id \in Events
  PROVE  /\ live[id] \in GoRec /\ store[id] \in EventRec /\ Absent \in EventRec
         /\ now \in Nat /\ Margin \in Nat /\ Grace \in Nat
BY WarmerAssumption DEF TypeOK, LiveOK, StoreOK, Absent, EventRec

\* Every step of a goroutine moves it alone, as Goroutined says.
LEMMA Moves ==
  ASSUME TypeOK, NEW id \in Events, Goroutine(id)
  PROVE  \E h : Step(id, h) /\ Goroutined(live[id], h)
<1>1. PICK g : g = live[id]
  OBVIOUS
<1>2. /\ g \in GoRec /\ store[id] \in EventRec /\ Absent \in EventRec
      /\ g.e \in EventRec /\ g.prev \in [Cameras -> Nat] /\ g.failed \in BOOLEAN
  BY <1>1, RecordsOK, GoFields
<1>3. CASE LiveGets(id)
  <2>1. CASE Found(id) /\ Step(id, Goes(g, "sleep", store[id], g.rung, g.cam))
    <3>1. PICK h : h = Goes(g, "sleep", store[id], g.rung, g.cam)
      OBVIOUS
    <3> QED BY <1>1, <1>2, <1>3, <2>1, <3>1, GetsTo, GoesOK
  <2>2. CASE Step(id, Goes(g, "done", g.e, g.rung, g.cam))
    <3>1. PICK h : h = Goes(g, "done", g.e, g.rung, g.cam)
      OBVIOUS
    <3> QED BY <1>1, <1>2, <1>3, <2>2, <3>1, GetsTo, GoesOK
  <2> QED BY <1>1, <1>3, <2>1, <2>2, GetsTo
<1>4. CASE LiveCancelled(id)
  <2>1. PICK h : h = Goes(g, "done", g.e, g.rung, g.cam)
    OBVIOUS
  <2> QED BY <1>1, <1>2, <1>4, <2>1, CancelledTo, GoesOK
<1>5. CASE LiveEnded(id)
  <2>1. CASE Found(id) /\ Step(id, Goes(g, "settle", store[id], g.rung, g.cam))
    <3>1. PICK h : h = Goes(g, "settle", store[id], g.rung, g.cam)
      OBVIOUS
    <3> QED BY <1>1, <1>2, <1>5, <2>1, <3>1, EndedTo, GoesOK
  <2>2. CASE Step(id, Goes(g, "evict", Absent, g.rung, g.cam))
    <3>1. PICK h : h = Goes(g, "evict", Absent, g.rung, g.cam)
      OBVIOUS
    <3> QED BY <1>1, <1>2, <1>5, <2>2, <3>1, EndedTo, GoesOK
  <2> QED BY <1>1, <1>5, <2>1, <2>2, EndedTo
<1>6. CASE LiveTimer(id)
  <2>0. g.pc = "sleep" /\ g.rung <= Len(Ladder)
    BY <1>1, <1>6, TimerTo
  <2>1. CASE Running(store[id]) /\ Step(id, Goes(g, "cut", store[id], g.rung, 1))
    <3>1. PICK h : h = Goes(g, "cut", store[id], g.rung, 1)
      OBVIOUS
    <3> QED BY <1>1, <1>2, <2>0, <2>1, <3>1, GoesOK
  <2>2. CASE Step(id, Goes(g, "done", g.e, g.rung, g.cam))
    <3>1. PICK h : h = Goes(g, "done", g.e, g.rung, g.cam)
      OBVIOUS
    <3> QED BY <1>1, <1>2, <2>0, <2>2, <3>1, GoesOK
  <2> QED BY <1>1, <1>6, <2>1, <2>2, TimerTo
<1>7. CASE LiveCuts(id)
  <2>0. g.pc = "cut" /\ EventCameras[g.cam] \in Cameras /\ Ladder[g.rung] \in Nat
    BY <1>1, <1>7, CutsTo, PlaceIs
  <2>1. PICK p : p = [g.prev EXCEPT ![EventCameras[g.cam]] = g.e.start + Ladder[g.rung]]
    OBVIOUS
  <2>2. p \in [Cameras -> Nat]
    BY <1>2, <2>0, <2>1, EventFields
  <2>3. Step(id, Turned(g, p)) \/ Step(id, Turned(g, g.prev))
    BY <1>1, <1>7, <2>1, CutsTo, Zenon
  <2>4. ASSUME NEW prev \in [Cameras -> Nat], Step(id, Turned(g, prev))
        PROVE  \E h : Step(id, h) /\ Goroutined(g, h)
    <3>1. PICK h : h = Turned(g, prev)
      OBVIOUS
    <3>2. Goroutined(g, h)
      BY <1>1, <2>0, <3>1, TurnedOK
    <3> QED BY <2>4, <3>1, <3>2
  <2> QED BY <1>1, <1>2, <2>2, <2>3, <2>4
<1>8. CASE FinalSettles(id)
  <2>0. g.pc = "settle"
    BY <1>1, <1>8, SettlesTo
  <2>1. CASE Step(id, Goes(g, "final", g.e, g.rung, 1))
    <3>1. PICK h : h = Goes(g, "final", g.e, g.rung, 1)
      OBVIOUS
    <3> QED BY <1>1, <1>2, <2>0, <2>1, <3>1, GoesOK
  <2>2. CASE Step(id, Goes(g, After(g), g.e, g.rung, g.cam))
    <3>0. PICK a : a = After(g)
      OBVIOUS
    <3>1. PICK h : h = Goes(g, a, g.e, g.rung, g.cam)
      OBVIOUS
    <3>2. a \in {"evict", "done"}
      BY <3>0 DEF After
    <3>3. Goroutined(g, h)
      BY <1>1, <1>2, <2>0, <3>1, <3>2, GoesOK
    <3> QED BY <1>1, <2>2, <3>0, <3>1, <3>3
  <2> QED BY <1>1, <1>8, <2>1, <2>2, SettlesTo
<1>9. CASE FinalFills(id)
  <2>1. g.pc = "final" /\ \E f \in BOOLEAN : Step(id, Finals(g, f))
    BY <1>1, <1>2, <1>9, FillsTo
  <2>2. PICK f \in BOOLEAN : Step(id, Finals(g, f))
    BY <2>1
  <2>3. PICK h : h = Finals(g, f)
    OBVIOUS
  <2>4. Goroutined(g, h)
    BY <1>1, <2>1, <2>3, FinalsOK
  <2> QED BY <1>1, <2>2, <2>3, <2>4
<1>10. CASE EvictCheckpoints(id)
  <2>1. PICK h : h = Goes(g, "done", g.e, g.rung, g.cam)
    OBVIOUS
  <2> QED BY <1>1, <1>2, <1>10, <2>1, EvictsTo, GoesOK
<1> QED BY <1>3, <1>4, <1>5, <1>6, <1>7, <1>8, <1>9, <1>10 DEF Goroutine

\* A step of one goroutine keeps LiveOK, and the others as they were.
LEMMA StepLiveOK ==
  ASSUME TypeOK, NEW id \in Events, NEW h, Step(id, h), Goroutined(live[id], h)
  PROVE  /\ LiveOK' /\ live'[id] = h
         /\ \A i \in Events \ {id} : live'[i] = live[i]
<1>1. /\ live' = [live EXCEPT ![id] = h] /\ world' = world
      /\ h \in GoRec /\ PlaceOK(h) /\ live \in [Events -> GoRec]
  BY DEF Step, Goroutined, TypeOK, LiveOK
<1>2. live' \in [Events -> GoRec] /\ live'[id] = h /\ \A i \in Events \ {id} : live'[i] = live[i]
  BY <1>1
<1>3. ASSUME NEW i \in Events PROVE PlaceOK(live[i])'
  <2>1. CASE i = id
    <3>1. live'[i] = h
      BY <1>2, <2>1
    <3> QED BY <1>1, <3>1 DEF PlaceOK, EventCameras, Ladder
  <2>2. CASE i # id
    <3>1. live'[i] = live[i] /\ PlaceOK(live[i])
      BY <1>2, <2>2 DEF TypeOK, LiveOK
    <3> QED BY <1>1, <3>1 DEF PlaceOK, EventCameras, Ladder
  <2> QED BY <2>1, <2>2
<1> QED BY <1>2, <1>3 DEF LiveOK

\* What StartEvent puts in the store.
LEMMA StartPuts ==
  ASSUME TypeOK, NEW id \in Events, StartEvent(id)
  PROVE  /\ store[id].state = "none" /\ CanSettle(now)
         /\ \E e \in EventRec : /\ Applied(id, "started", e)
                                /\ e.state = "running" /\ e.start = now /\ e.end = 0 /\ e.boxes = FALSE
<1>1. store[id].state = "none" /\ CanSettle(now) /\ now \in Nat
  BY RecordsOK DEF StartEvent
<1>2. PICK e : e = [Absent EXCEPT !.state = "running", !.start = now]
  OBVIOUS
<1>3. Applied(id, "started", e)
  BY <1>2, Zenon DEF StartEvent
<1>4. e \in EventRec /\ e.state = "running" /\ e.start = now /\ e.end = 0 /\ e.boxes = FALSE
  BY <1>1, <1>2 DEF Absent, EventRec
<1> QED BY <1>1, <1>3, <1>4

\* What InstantEvent puts in the store.
LEMMA InstantPuts ==
  ASSUME TypeOK, NEW id \in Events, InstantEvent(id)
  PROVE  /\ store[id].state = "none" /\ CanSettle(now)
         /\ \E e \in EventRec : /\ Applied(id, "started", e)
                                /\ e.state = "ended" /\ e.start = now /\ e.end = now /\ e.boxes = FALSE
<1>1. store[id].state = "none" /\ CanSettle(now) /\ now \in Nat
  BY RecordsOK DEF InstantEvent
<1>2. PICK e : e = [Absent EXCEPT !.state = "ended", !.start = now, !.end = now]
  OBVIOUS
<1>3. Applied(id, "started", e)
  BY <1>2, Zenon DEF InstantEvent
<1>4. e \in EventRec /\ e.state = "ended" /\ e.start = now /\ e.end = now /\ e.boxes = FALSE
  BY <1>1, <1>2 DEF Absent, EventRec
<1> QED BY <1>1, <1>3, <1>4

\* What UpdateEvent puts in the store: the event, started a second earlier.
LEMMA UpdatePuts ==
  ASSUME TypeOK, NEW id \in Events, UpdateEvent(id)
  PROVE  /\ Running(store[id]) /\ world.moves /\ store[id].start > 1
         /\ \E e \in EventRec : /\ Applied(id, "updated", e)
                                /\ e.state = "running" /\ e.start = store[id].start - 1
                                /\ e.end = store[id].end /\ e.boxes = store[id].boxes
<1>1. /\ Running(store[id]) /\ world.moves /\ store[id].start > 1 /\ store[id] \in EventRec
      /\ store[id].start \in Nat /\ store[id].end \in Nat /\ store[id].boxes \in BOOLEAN
  BY RecordsOK, EventFields DEF UpdateEvent
<1>2. PICK d : d = store[id]
  OBVIOUS
<1>3. PICK e : e = [d EXCEPT !.start = d.start - 1]
  OBVIOUS
<1>4. Applied(id, "updated", e)
  BY <1>2, <1>3, Zenon DEF UpdateEvent
<1>5. e \in EventRec /\ e.state = "running" /\ e.start = d.start - 1 /\ e.end = d.end /\ e.boxes = d.boxes
  BY <1>1, <1>2, <1>3 DEF EventRec, Running
<1> QED BY <1>1, <1>2, <1>4, <1>5

\* What EndEvent puts in the store.
LEMMA EndPuts ==
  ASSUME TypeOK, NEW id \in Events, NEW end \in 1..Horizon, EndEvent(id, end)
  PROVE  /\ Running(store[id]) /\ store[id].start <= end /\ end <= now
         /\ \E e \in EventRec : /\ Applied(id, "ended", e)
                                /\ e.state = "ended" /\ e.start = store[id].start
                                /\ e.end = end /\ e.boxes = TRUE
<1>1. /\ Running(store[id]) /\ store[id].start <= end /\ end <= now /\ store[id] \in EventRec
      /\ store[id].start \in Nat /\ end \in Nat
  BY RecordsOK, EventFields DEF EndEvent, TypeOK, StoreOK, World, Horizon
<1>2. PICK d : d = store[id]
  OBVIOUS
<1>3. PICK e : e = [d EXCEPT !.state = "ended", !.end = end, !.boxes = TRUE]
  OBVIOUS
<1>4. Applied(id, "ended", e)
  BY <1>2, <1>3, Zenon DEF EndEvent
<1>5. e \in EventRec /\ e.state = "ended" /\ e.start = d.start /\ e.end = end /\ e.boxes = TRUE
  BY <1>1, <1>2, <1>3 DEF EventRec
<1> QED BY <1>1, <1>2, <1>4, <1>5

\* What ForgetEvent puts in the store.
LEMMA ForgetPuts ==
  ASSUME TypeOK, NEW id \in Events, ForgetEvent(id)
  PROVE  /\ store[id].state = "ended"
         /\ UNCHANGED <<world, now, feed, loop, boot, order, watching, live, cuts, mine, stitchVars, viewVars>>
         /\ \E e \in EventRec : /\ store' = [store EXCEPT ![id] = e]
                                /\ e.state = "gone" /\ e.start = 0 /\ e.end = 0 /\ e.boxes = FALSE
<1>1. PICK e : e = [Absent EXCEPT !.state = "gone"]
  OBVIOUS
<1>2. e \in EventRec /\ e.state = "gone" /\ e.start = 0 /\ e.end = 0 /\ e.boxes = FALSE
  BY <1>1 DEF Absent, EventRec
<1>3. store' = [store EXCEPT ![id] = e]
  BY <1>1, Zenon DEF ForgetEvent
<1> QED BY <1>2, <1>3 DEF ForgetEvent

\* What an offer does to the warmer's subscription.
LEMMA OfferIs ==
  ASSUME TypeOK, NEW id \in Events, NEW op \in {"started", "updated", "ended"}, Offer(op, id),
         NEW m \in Message, m = [op |-> op, id |-> id, e |-> store'[id]]
  PROVE  /\ feed' \in FeedRec
         /\ \/ feed'.queue = feed.queue
            \/ feed'.queue = Append(feed.queue, m) /\ loop = "watch" /\ feed.open
<1>1. feed \in FeedRec
  BY DEF TypeOK, FeedOK
<1>2. CASE loop # "watch" \/ ~feed.open
  <2>1. feed' = feed
    BY <1>2, Zenon DEF Offer
  <2> QED BY <1>1, <2>1
<1>3. CASE ~(loop # "watch" \/ ~feed.open) /\ Len(feed.queue) = WatchBuffer
  <2>1. feed' = [feed EXCEPT !.open = FALSE]
    BY <1>3, Zenon DEF Offer
  <2> QED BY <1>1, <2>1 DEF FeedRec
<1>4. CASE ~(loop # "watch" \/ ~feed.open) /\ Len(feed.queue) # WatchBuffer
  <2>1. PICK q : q = Append(feed.queue, m)
    OBVIOUS
  <2>2. feed' = [feed EXCEPT !.queue = q]
    BY <1>4, <2>1 DEF Offer
  <2>3. q \in Seq(Message)
    BY <1>1, <2>1 DEF FeedRec
  <2> QED BY <1>1, <1>4, <2>1, <2>2, <2>3 DEF FeedRec
<1> QED BY <1>2, <1>3, <1>4

\* A change to the store keeps the types, and tells the warmer of it.
LEMMA AppliedOK ==
  ASSUME TypeOK, NEW id \in Events, NEW op \in {"started", "updated", "ended"},
         NEW e \in EventRec, Applied(id, op, e)
  PROVE  /\ TypeOK' /\ store' = [store EXCEPT ![id] = e]
         /\ UNCHANGED <<world, now, loop, boot, order, watching, live, cuts, mine, stitchVars, viewVars>>
         /\ \/ feed'.queue = feed.queue
            \/ /\ feed'.queue = Append(feed.queue, [op |-> op, id |-> id, e |-> e])
               /\ loop = "watch" /\ feed.open
<1>1. /\ store' = [store EXCEPT ![id] = e] /\ Offer(op, id)
      /\ UNCHANGED <<world, now, loop, boot, order, watching, live, cuts, mine, stitchVars, viewVars>>
  BY DEF Applied
<1>2. store \in [Events -> EventRec]
  BY DEF TypeOK, StoreOK
<1>3. store' \in [Events -> EventRec] /\ store'[id] = e
  BY <1>1, <1>2
<1>4. PICK m : m = [op |-> op, id |-> id, e |-> e]
  OBVIOUS
<1>5. m \in Message /\ m = [op |-> op, id |-> id, e |-> store'[id]]
  BY <1>3, <1>4 DEF Message
<1>6. /\ feed' \in FeedRec
      /\ \/ feed'.queue = feed.queue
         \/ feed'.queue = Append(feed.queue, m) /\ loop = "watch" /\ feed.open
  BY <1>1, <1>5, OfferIs
<1>7. StoreOK'
  BY <1>1, <1>3 DEF TypeOK, StoreOK, Ladder
<1>8. FeedOK'
  BY <1>1, <1>6 DEF TypeOK, FeedOK
<1>9. LiveOK'
  BY <1>1 DEF TypeOK, LiveOK, PlaceOK, EventCameras, Ladder
<1>10. CutsOK' /\ RendersOK' /\ AskedOK'
  BY <1>1 DEF TypeOK, CutsOK, RendersOK, AskedOK, stitchVars, viewVars
<1> QED BY <1>1, <1>4, <1>6, <1>7, <1>8, <1>9, <1>10 DEF TypeOK

\* A goroutine as Warm starts it for a running event.
LEMMA GetsIs ==
  ASSUME NEW h, h = [Idle EXCEPT !.pc = "get", !.seal = TRUE]
  PROVE  /\ h \in GoRec /\ PlaceOK(h) /\ h.rung = 1 /\ h.cam = 1 /\ h.prev = NoPrev
         /\ h.ended = FALSE /\ h.cancelled = FALSE /\ h.warmed = FALSE /\ h.failed = FALSE
         /\ h.pc = "get" /\ h.e = Absent /\ h.seal = TRUE
<1>1. NoPrev \in [Cameras -> Nat] /\ Absent \in EventRec
  BY DEF NoPrev, Absent, EventRec
<1>2. PICK x : x = Idle
  OBVIOUS
<1>3. /\ x \in GoRec /\ x.e = Absent /\ x.rung = 1 /\ x.cam = 1 /\ x.prev = NoPrev
      /\ x.ended = FALSE /\ x.cancelled = FALSE /\ x.seal = FALSE /\ x.warmed = FALSE /\ x.failed = FALSE
  BY <1>1, <1>2 DEF Idle, GoRec, Pcs
<1>4. h = [x EXCEPT !.pc = "get", !.seal = TRUE]
  BY <1>2
<1>5. /\ h \in GoRec /\ h.pc = "get" /\ h.e = Absent /\ h.rung = 1 /\ h.cam = 1 /\ h.prev = NoPrev
      /\ h.ended = FALSE /\ h.cancelled = FALSE /\ h.seal = TRUE /\ h.warmed = FALSE /\ h.failed = FALSE
  BY <1>3, <1>4 DEF GoRec, Pcs
<1>6. PlaceOK(h)
  BY <1>5 DEF PlaceOK
<1> QED BY <1>5, <1>6

\* A goroutine as Warm starts it for an event that does not run.
LEMMA SettlesIs ==
  ASSUME NEW e \in EventRec, NEW h, h = [Idle EXCEPT !.pc = "settle", !.e = e]
  PROVE  /\ h \in GoRec /\ PlaceOK(h) /\ h.rung = 1 /\ h.cam = 1 /\ h.prev = NoPrev
         /\ h.ended = FALSE /\ h.cancelled = FALSE /\ h.warmed = FALSE /\ h.failed = FALSE
         /\ h.pc = "settle" /\ h.e = e /\ h.seal = FALSE
<1>1. NoPrev \in [Cameras -> Nat] /\ Absent \in EventRec
  BY DEF NoPrev, Absent, EventRec
<1>2. PICK x : x = Idle
  OBVIOUS
<1>3. /\ x \in GoRec /\ x.rung = 1 /\ x.cam = 1 /\ x.prev = NoPrev
      /\ x.ended = FALSE /\ x.cancelled = FALSE /\ x.seal = FALSE /\ x.warmed = FALSE /\ x.failed = FALSE
  BY <1>1, <1>2 DEF Idle, GoRec, Pcs
<1>4. h = [x EXCEPT !.pc = "settle", !.e = e]
  BY <1>2
<1>5. /\ h \in GoRec /\ h.pc = "settle" /\ h.e = e /\ h.rung = 1 /\ h.cam = 1 /\ h.prev = NoPrev
      /\ h.ended = FALSE /\ h.cancelled = FALSE /\ h.seal = FALSE /\ h.warmed = FALSE /\ h.failed = FALSE
  BY <1>3, <1>4 DEF GoRec, Pcs
<1>6. PlaceOK(h)
  BY <1>5 DEF PlaceOK
<1> QED BY <1>5, <1>6

\* What BootWarm does: the next known event is warmed, as the store has it.
LEMMA BootIs ==
  ASSUME TypeOK, BootWarm
  PROVE  \E id \in Events, h \in GoRec :
           /\ live' = [live EXCEPT ![id] = h] /\ boot' \in Seq(Events)
           /\ id = Head(boot) /\ live[id].pc \in {"none", "done"} /\ loop = "boot"
           /\ h = [Idle EXCEPT !.pc = "settle", !.e = store[id]]
           /\ UNCHANGED <<world, now, store, feed, loop, order, watching, cuts, mine, stitchVars, viewVars>>
<1>1. boot \in Seq(Events) /\ boot # <<>> /\ loop = "boot"
  BY DEF BootWarm, TypeOK, FeedOK
<1>2. PICK b : b = boot
  OBVIOUS
<1>3. Head(b) \in Events /\ Tail(b) \in Seq(Events)
  BY <1>1, <1>2
<1>4. PICK id \in Events : id = Head(b)
  BY <1>3
<1>5. PICK h : h = [Idle EXCEPT !.pc = "settle", !.e = store[id]]
  OBVIOUS
<1>6. h \in GoRec
  BY <1>5, SettlesIs, RecordsOK
<1>7. /\ live' = [live EXCEPT ![id] = h] /\ boot' = Tail(b)
      /\ live[id].pc \in {"none", "done"}
      /\ UNCHANGED <<world, now, store, feed, loop, order, watching, cuts, mine, stitchVars, viewVars>>
  BY <1>2, <1>4, <1>5, Zenon DEF BootWarm
<1> QED BY <1>1, <1>2, <1>3, <1>4, <1>5, <1>6, <1>7

\* What hearing a change does to the subscription.
LEMMA HearsIs ==
  ASSUME TypeOK, NEW op, NEW id, Hears(op, id)
  PROVE  /\ loop = "watch" /\ feed.queue \in Seq(Message) /\ feed.queue # <<>>
         /\ Heard \in Message /\ Heard.op = op /\ Heard.id = id /\ id \in Events /\ Heard.e \in EventRec
         /\ feed' \in FeedRec /\ feed'.queue = Tail(feed.queue) /\ feed'.open = feed.open
         /\ UNCHANGED <<world, now, store, loop, boot, cuts, mine, stitchVars, viewVars>>
<1>1. /\ loop = "watch" /\ feed.queue # <<>> /\ Heard.op = op /\ Heard.id = id
      /\ UNCHANGED <<world, now, store, loop, boot, cuts, mine, stitchVars, viewVars>>
  BY DEF Hears
<1>2. PICK q : q = feed.queue
  OBVIOUS
<1>3. PICK t : t = Tail(q)
  OBVIOUS
<1>4. feed \in FeedRec /\ q \in Seq(Message)
  BY <1>2 DEF TypeOK, FeedOK, FeedRec
<1>5. Head(q) \in Message /\ t \in Seq(Message)
  BY <1>1, <1>2, <1>3, <1>4
<1>6. feed' = [feed EXCEPT !.queue = t]
  BY <1>2, <1>3, Zenon DEF Hears
<1>7. feed' \in FeedRec /\ feed'.queue = t /\ feed'.open = feed.open
  BY <1>4, <1>5, <1>6 DEF FeedRec
<1>8. Heard = Head(q) /\ Heard \in Message
  BY <1>2, <1>5 DEF Heard
<1>9. Heard.id \in Events /\ Heard.e \in EventRec
  BY <1>8 DEF Message
<1> QED BY <1>1, <1>2, <1>3, <1>4, <1>7, <1>8, <1>9

\* A goroutine whose context has been cancelled.
Abandoned(g) ==
  Go(g.pc, g.e, g.rung, g.cam, g.prev, g.ended, TRUE, g.seal, g.warmed, g.failed)

\* Every goroutine after id's is started as h, and those past the working set told to stop.
StartedAs(id, ids, h) ==
  /\ h = [Idle EXCEPT !.pc = "get", !.seal = TRUE]
  /\ \A i \in Events : \E g \in GoRec :
       /\ g = IF i = id THEN h ELSE live[i]
       /\ live'[i] = IF i \in ToSet(Overflow(ids)) THEN Abandoned(g) ELSE g

\* What OpStarted of a running event does to the goroutines.
LEMMA StartedIs ==
  ASSUME TypeOK, NEW id \in Events, WarmStarted(id), NEW ids, ids = Append(order, id)
  PROVE  /\ Hears("started", id) /\ Running(Heard.e) /\ id \in SentEvents /\ id \notin watching
         /\ order' = SubSeq(ids, Len(Overflow(ids)) + 1, Len(ids))
         /\ watching' = (watching \cup {id}) \ ToSet(Overflow(ids))
         /\ live' \in [Events -> GoRec]
         /\ \E h \in GoRec : StartedAs(id, ids, h)
<1>1. /\ Hears("started", id) /\ Running(Heard.e) /\ id \in SentEvents /\ id \notin watching
      /\ order' = SubSeq(ids, Len(Overflow(ids)) + 1, Len(ids))
      /\ watching' = (watching \cup {id}) \ ToSet(Overflow(ids))
      /\ live' = Cancelled([live EXCEPT ![id] = [Idle EXCEPT !.pc = "get", !.seal = TRUE]], ToSet(Overflow(ids)))
  BY Zenon DEF WarmStarted
<1>2. PICK h : h = [Idle EXCEPT !.pc = "get", !.seal = TRUE]
  OBVIOUS
<1>3. h \in GoRec
  BY <1>2, GetsIs
<1>4. PICK gs : gs = [live EXCEPT ![id] = h]
  OBVIOUS
<1>5. PICK old : old = ToSet(Overflow(ids))
  OBVIOUS
<1>6. gs \in [Events -> GoRec] /\ \A i \in Events : gs[i] = IF i = id THEN h ELSE live[i]
  BY <1>3, <1>4 DEF TypeOK, LiveOK
<1>7. live' = Cancelled(gs, old)
  BY <1>1, <1>2, <1>4, <1>5, Zenon
<1>8. ASSUME NEW i \in Events
      PROVE  live'[i] = (IF i \in old THEN [gs[i] EXCEPT !.cancelled = TRUE] ELSE gs[i])
  BY <1>7, Zenon DEF Cancelled
<1>9. ASSUME NEW i \in Events, NEW g, g = gs[i]
      PROVE  /\ live'[i] = IF i \in old
                           THEN Go(g.pc, g.e, g.rung, g.cam, g.prev, g.ended, TRUE, g.seal, g.warmed, g.failed)
                           ELSE g
             /\ live'[i] \in GoRec
  <2>1. g \in GoRec
    BY <1>6, <1>9
  <2>2. PICK d : d = [g EXCEPT !.cancelled = TRUE]
    OBVIOUS
  <2>3. /\ d = Go(g.pc, g.e, g.rung, g.cam, g.prev, g.ended, TRUE, g.seal, g.warmed, g.failed)
        /\ d \in GoRec
    BY <2>1, <2>2 DEF GoRec, Go
  <2>4. live'[i] = IF i \in old THEN d ELSE g
    BY <1>8, <1>9, <2>2
  <2> QED BY <2>1, <2>3, <2>4
<1>10. live' = [i \in Events |-> live'[i]]
  BY <1>7 DEF Cancelled
<1>11. live' \in [Events -> GoRec]
  BY <1>9, <1>10
<1>12. ASSUME NEW i \in Events
       PROVE  \E g \in GoRec : /\ g = IF i = id THEN h ELSE live[i]
                               /\ live'[i] = IF i \in ToSet(Overflow(ids)) THEN Abandoned(g) ELSE g
  <2>1. PICK g : g = gs[i]
    OBVIOUS
  <2>2. live'[i] = IF i \in old THEN Abandoned(g) ELSE g
    BY <1>9, <2>1 DEF Abandoned
  <2>3. g \in GoRec /\ g = IF i = id THEN h ELSE live[i]
    BY <1>6, <2>1
  <2> QED BY <1>5, <2>2, <2>3
<1>13. StartedAs(id, ids, h)
  BY <1>2, <1>12 DEF StartedAs
<1> QED BY <1>1, <1>3, <1>11, <1>13

\* What OpStarted of an instantaneous event does.
LEMMA InstantIs ==
  ASSUME TypeOK, NEW id \in Events, WarmInstant(id)
  PROVE  /\ Hears("started", id) /\ ~Running(Heard.e) /\ id \in SentEvents /\ id \notin watching
         /\ UNCHANGED <<order, watching>>
         /\ \E h \in GoRec : /\ h = [Idle EXCEPT !.pc = "settle", !.e = Heard.e]
                             /\ live' = [live EXCEPT ![id] = h]
<1>1. PICK h : h = [Idle EXCEPT !.pc = "settle", !.e = Heard.e]
  OBVIOUS
<1>2. /\ Hears("started", id) /\ ~Running(Heard.e) /\ id \in SentEvents /\ id \notin watching
      /\ UNCHANGED <<order, watching>> /\ live' = [live EXCEPT ![id] = h]
  BY <1>1, Zenon DEF WarmInstant
<1>3. Heard.e \in EventRec
  BY <1>2, HearsIs
<1>4. h \in GoRec
  BY <1>1, <1>3, SettlesIs
<1> QED BY <1>1, <1>2, <1>4

\* What OpEnded of a watched event does.
LEMMA ToldIs ==
  ASSUME TypeOK, NEW id \in Events, WarmEnded(id), NEW g, g = live[id]
  PROVE  /\ Hears("ended", id) /\ id \in SentEvents /\ id \in watching
         /\ watching' = watching \ {id} /\ order' = DeleteID(order, id)
         /\ \E h \in GoRec :
              /\ live' = [live EXCEPT ![id] = h]
              /\ h = Go(g.pc, g.e, g.rung, g.cam, g.prev, TRUE, g.cancelled, g.seal, g.warmed, g.failed)
<1>1. /\ Hears("ended", id) /\ id \in SentEvents /\ id \in watching
      /\ watching' = watching \ {id} /\ order' = DeleteID(order, id)
      /\ live' = [live EXCEPT ![id] = [g EXCEPT !.ended = TRUE]]
  BY Zenon DEF WarmEnded
<1>2. g \in GoRec
  BY RecordsOK
<1>3. PICK h : h = [g EXCEPT !.ended = TRUE]
  OBVIOUS
<1>4. /\ h = Go(g.pc, g.e, g.rung, g.cam, g.prev, TRUE, g.cancelled, g.seal, g.warmed, g.failed)
      /\ h \in GoRec
  BY <1>2, <1>3 DEF GoRec, Go
<1> QED BY <1>1, <1>3, <1>4

------------------------------------------------------------------------------
(***************************************************************************)
(* The order of the working set.                                           *)
(***************************************************************************)
Distinct(s) == \A i, j \in 1..Len(s) : s[i] = s[j] => i = j

\* The set of a sequence's elements.
LEMMA ElementsIs ==
  ASSUME NEW S, NEW s \in Seq(S)
  PROVE  ToSet(s) = {s[i] : i \in 1..Len(s)} /\ ToSet(s) \subseteq S
BY DEF ToSet

\* What stays in the working set.
Kept(ids) == SubSeq(ids, Len(Overflow(ids)) + 1, Len(ids))

\* The first k of ids, and what follows them.
SplitAt(ids, old, rest, k) ==
  /\ k = (IF Len(ids) > WarmSet THEN Len(ids) - WarmSet ELSE 0)
  /\ Len(old) = k /\ \A j \in 1..k : old[j] = ids[j]
  /\ Len(rest) = Len(ids) - k /\ \A j \in 1..(Len(ids) - k) : rest[j] = ids[k + j]

\* What leaves the working set is the oldest of it, and the others stay in order.
LEMMA OverflowIs ==
  ASSUME NEW ids \in Seq(Events), NEW rest, rest = Kept(ids)
  PROVE  /\ Overflow(ids) \in Seq(Events) /\ rest \in Seq(Events)
         /\ \E k \in Nat : SplitAt(ids, Overflow(ids), rest, k)
<1>0. WarmSet \in Nat /\ Len(ids) \in Nat
  BY WarmerAssumption
<1>1. PICK k : k = IF Len(ids) > WarmSet THEN Len(ids) - WarmSet ELSE 0
  OBVIOUS
<1>2. k \in 0..Len(ids)
  BY <1>0, <1>1
<1>3. PICK old : old = Overflow(ids)
  OBVIOUS
<1>4. old \in Seq(Events) /\ Len(old) = k /\ \A j \in 1..k : old[j] = ids[j]
  <2>1. CASE Len(ids) > WarmSet
    <3>1. 1 \in 1..Len(ids) + 1 /\ k \in 1 - 1..Len(ids)
      BY <1>0, <1>2
    <3>2. /\ SubSeq(ids, 1, k) \in Seq(Events) /\ Len(SubSeq(ids, 1, k)) = k - (1 - 1)
          /\ \A j \in 1..k - (1 - 1) : SubSeq(ids, 1, k)[j] = ids[(1 - 1) + j]
      BY <3>1, PartIs
    <3>3. old = SubSeq(ids, 1, k)
      BY <1>1, <1>3, <2>1 DEF Overflow
    <3> QED BY <1>2, <3>2, <3>3
  <2>2. CASE ~(Len(ids) > WarmSet)
    <3>1. old = <<>>
      <4>1. Len(ids) - WarmSet < 1 /\ Len(ids) - WarmSet \in Int
        BY <1>0, <2>2
      <4> QED BY <4>1, <1>3 DEF Overflow
    <3> QED BY <1>1, <2>2, <3>1
  <2> QED BY <2>1, <2>2
<1>5. /\ rest \in Seq(Events) /\ Len(rest) = Len(ids) - k
      /\ \A j \in 1..(Len(ids) - k) : rest[j] = ids[k + j]
  <2>1. k + 1 \in 1..Len(ids) + 1 /\ Len(ids) \in (k + 1) - 1..Len(ids)
    BY <1>0, <1>2
  <2>2. /\ SubSeq(ids, k + 1, Len(ids)) \in Seq(Events)
        /\ Len(SubSeq(ids, k + 1, Len(ids))) = Len(ids) - ((k + 1) - 1)
        /\ \A j \in 1..Len(ids) - ((k + 1) - 1) : SubSeq(ids, k + 1, Len(ids))[j] = ids[((k + 1) - 1) + j]
    BY <2>1, PartIs
  <2>3. rest = SubSeq(ids, k + 1, Len(ids)) /\ (k + 1) - 1 = k
    BY <1>2, <1>3, <1>4 DEF Kept
  <2> QED BY <2>2, <2>3
<1>6. SplitAt(ids, old, rest, k)
  BY <1>1, <1>4, <1>5 DEF SplitAt
<1> QED BY <1>0, <1>2, <1>3, <1>4, <1>5, <1>6

\* What stays is what does not leave.
LEMMA RestIs ==
  ASSUME NEW ids \in Seq(Events), Distinct(ids),
         NEW rest, rest = Kept(ids)
  PROVE  /\ rest \in Seq(Events) /\ Distinct(rest) /\ Len(rest) <= WarmSet
         /\ ToSet(rest) = ToSet(ids) \ ToSet(Overflow(ids))
<1>1. PICK old : old = Overflow(ids)
  OBVIOUS
<1>2. old \in Seq(Events) /\ rest \in Seq(Events) /\ Len(ids) \in Nat /\ WarmSet \in Nat
  BY <1>1, OverflowIs, WarmerAssumption
<1>10. PICK k \in Nat : SplitAt(ids, old, rest, k)
  BY <1>1, OverflowIs
<1>3. /\ k \in Nat /\ k <= Len(ids)
      /\ k = (IF Len(ids) > WarmSet THEN Len(ids) - WarmSet ELSE 0)
      /\ Len(old) = k /\ \A j \in 1..k : old[j] = ids[j]
      /\ Len(rest) = Len(ids) - k /\ \A j \in 1..(Len(ids) - k) : rest[j] = ids[k + j]
  BY <1>2, <1>10 DEF SplitAt
<1>4. Len(rest) <= WarmSet
  BY <1>2, <1>3
<1>5. ASSUME NEW i \in 1..Len(rest), NEW j \in 1..Len(rest), rest[i] = rest[j] PROVE i = j
  <2>0. i \in 1..(Len(ids) - k) /\ j \in 1..(Len(ids) - k)
    BY <1>3
  <2>1. k + i \in 1..Len(ids) /\ k + j \in 1..Len(ids) /\ ids[k + i] = ids[k + j]
    <3>1. rest[i] = ids[k + i] /\ rest[j] = ids[k + j]
      BY <1>3, <2>0
    <3>2. ids[k + i] = ids[k + j]
      BY <1>5, <3>1
    <3>3. k + i \in 1..Len(ids) /\ k + j \in 1..Len(ids)
      <4>1. PICK n \in Nat : n = Len(ids)
        BY <1>2
      <4>2. ASSUME NEW a \in 1..(n - k) PROVE k + a \in 1..n
        <5>1. k \in Nat /\ n \in Nat
          BY <1>10, <4>1
        <5>2. n - k \in Int /\ a \in Int /\ 1 <= a /\ a <= n - k
          BY <4>2, <5>1
        <5> QED BY <5>1, <5>2
      <4>3. i \in 1..(n - k) /\ j \in 1..(n - k)
        BY <2>0, <4>1
      <4>4. k + i \in 1..n /\ k + j \in 1..n
        BY <4>2, <4>3
      <4> QED BY <4>1, <4>4
    <3> QED BY <3>2, <3>3
  <2>2. k + i = k + j
    BY <2>1 DEF Distinct
  <2> QED BY <1>2, <2>2
<1>6. ASSUME NEW x \in ToSet(rest) PROVE x \in ToSet(ids) /\ x \notin ToSet(old)
  <2>1. PICK j \in 1..Len(rest) : x = rest[j]
    BY <1>2, <1>6, ElementsIs
  <2>2. k + j \in 1..Len(ids) /\ x = ids[k + j]
    BY <1>2, <1>3, <2>1
  <2>3. ASSUME NEW i \in 1..Len(old), x = old[i] PROVE FALSE
    <3>1. i \in 1..Len(ids) /\ ids[i] = ids[k + j] /\ i <= k
      BY <1>2, <1>3, <2>2, <2>3
    <3>2. i = k + j
      BY <2>2, <3>1 DEF Distinct
    <3> QED BY <1>2, <3>1, <3>2
  <2> QED BY <1>2, <2>2, <2>3, ElementsIs
<1>7. ASSUME NEW x \in ToSet(ids), x \notin ToSet(old) PROVE x \in ToSet(rest)
  <2>1. PICK i \in 1..Len(ids) : x = ids[i]
    BY <1>7, ElementsIs
  <2>2. i > k
    <3>1. SUFFICES ASSUME ~(i > k) PROVE FALSE
      OBVIOUS
    <3>2. i \in 1..k /\ i \in 1..Len(old)
      BY <1>2, <1>3, <3>1
    <3>3. x = old[i]
      BY <1>3, <2>1, <3>2
    <3> QED BY <1>2, <1>7, <3>2, <3>3, ElementsIs
  <2>3. PICK j : j = i - k
    OBVIOUS
  <2>4. j \in 1..(Len(ids) - k) /\ k + j = i /\ j \in 1..Len(rest)
    BY <1>2, <1>3, <2>2, <2>3
  <2>5. x = rest[j]
    BY <1>3, <2>1, <2>4
  <2> QED BY <1>2, <2>4, <2>5, ElementsIs
<1>8. ToSet(rest) = ToSet(ids) \ ToSet(old)
  BY <1>6, <1>7
<1>9. Distinct(rest)
  BY <1>5 DEF Distinct
<1> QED BY <1>1, <1>2, <1>4, <1>8, <1>9

\* deleteID takes out the one id, and keeps the others in order.
LEMMA DeleteIs ==
  ASSUME NEW ids \in Seq(Events), NEW id, NEW rest, rest = DeleteID(ids, id)
  PROVE  /\ rest \in Seq(Events) /\ Len(rest) <= Len(ids)
         /\ Distinct(ids) => (Distinct(rest) /\ ToSet(rest) = ToSet(ids) \ {id})
<1>0. Len(ids) \in Nat
  OBVIOUS
<1>1. PICK I : I = {j \in 1..Len(ids) : ids[j] = id}
  OBVIOUS
<1>2. CASE I = {}
  <2>1. SelectInSeq(ids, LAMBDA v : v = id) = 0
    BY <1>1, <1>2 DEF SelectInSeq
  <2>2. rest = ids
    BY <2>1 DEF DeleteID
  <2>3. id \notin ToSet(ids)
    BY <1>1, <1>2, ElementsIs
  <2> QED BY <1>0, <2>2, <2>3
<1>3. CASE I # {}
  <2>1. I \in SUBSET Nat
    BY <1>0, <1>1
  <2>2. \E n \in I : \A j \in I : n <= j
    BY <1>3, <2>1, Smallest
  <2>3. Min(I) \in I
    BY <2>2, Zenon DEF Min
  <2>4. PICK i : i = Min(I)
    OBVIOUS
  <2>5. i \in 1..Len(ids) /\ ids[i] = id /\ i # 0
    BY <1>1, <2>3, <2>4
  <2>6. SelectInSeq(ids, LAMBDA v : v = id) = i
    BY <1>1, <1>3, <2>4 DEF SelectInSeq
  <2>7. rest = RemoveAt(ids, i)
    BY <2>5, <2>6 DEF DeleteID
  <2>8. /\ rest \in Seq(Events) /\ Len(rest) = Len(ids) - 1
        /\ \A j \in 1..Len(ids) - 1 : rest[j] = IF j < i THEN ids[j] ELSE ids[j + 1]
    BY <2>5, <2>7, RemoveAtIs
  <2>9. ASSUME Distinct(ids) PROVE Distinct(rest)
    <3>1. ASSUME NEW a \in 1..Len(rest), NEW b \in 1..Len(rest), rest[a] = rest[b] PROVE a = b
      <4>1. PICK c : c = IF a < i THEN a ELSE a + 1
        OBVIOUS
      <4>2. PICK d : d = IF b < i THEN b ELSE b + 1
        OBVIOUS
      <4>3. c \in 1..Len(ids) /\ d \in 1..Len(ids) /\ ids[c] = ids[d]
        BY <1>0, <2>8, <3>1, <4>1, <4>2
      <4>4. c = d
        BY <2>9, <4>3 DEF Distinct
      <4> QED BY <1>0, <2>5, <2>8, <4>1, <4>2, <4>4
    <3> QED BY <3>1 DEF Distinct
  <2>10. ASSUME Distinct(ids), NEW x \in ToSet(rest) PROVE x \in ToSet(ids) /\ x # id
    <3>1. PICK j \in 1..Len(rest) : x = rest[j]
      BY <2>8, <2>10, ElementsIs
    <3>2. PICK c : c = IF j < i THEN j ELSE j + 1
      OBVIOUS
    <3>3. c \in 1..Len(ids) /\ x = ids[c] /\ c # i
      BY <1>0, <2>5, <2>8, <3>1, <3>2
    <3>4. ids[c] # id
      BY <2>5, <2>10, <3>3 DEF Distinct
    <3> QED BY <3>3, <3>4, ElementsIs
  <2>11. ASSUME NEW x \in ToSet(ids), x # id PROVE x \in ToSet(rest)
    <3>1. PICK c \in 1..Len(ids) : x = ids[c]
      BY <2>11, ElementsIs
    <3>2. PICK j : j = IF c < i THEN c ELSE c - 1
      OBVIOUS
    <3>3. c # i
      BY <2>5, <2>11, <3>1
    <3>4. j \in 1..Len(ids) - 1 /\ x = rest[j]
      BY <1>0, <2>5, <2>8, <3>1, <3>2, <3>3
    <3> QED BY <2>8, <3>4, ElementsIs
  <2> QED BY <1>0, <2>8, <2>9, <2>10, <2>11
<1> QED BY <1>2, <1>3

------------------------------------------------------------------------------
(***************************************************************************)
(* The stitch worker's queues.                                             *)
(***************************************************************************)
Queues == [Variants -> Seq(Job)]

\* A request adds its job at the end of its queue, or nothing.
LEMMA RequestedIs ==
  ASSUME NEW q \in Queues, NEW variant \in Variants, NEW job \in Job
  PROVE  /\ Requested(q, variant, job) \in Queues
         /\ \A v \in Variants :
              \/ Requested(q, variant, job)[v] = q[v]
              \/ Requested(q, variant, job)[v] = Append(q[v], job)
<1>1. PICK s : s = Append(q[variant], job)
  OBVIOUS
<1>2. s \in Seq(Job)
  BY <1>1 DEF Queues
<1>3. PICK r : r = [q EXCEPT ![variant] = s]
  OBVIOUS
<1>4. r \in Queues /\ r[variant] = s /\ \A v \in Variants : v # variant => r[v] = q[v]
  BY <1>2, <1>3 DEF Queues
<1>5. Requested(q, variant, job) = r \/ Requested(q, variant, job) = q
  BY <1>1, <1>3, Zenon DEF Requested
<1> QED BY <1>1, <1>4, <1>5

\* The records of the worker.
LEMMA WorkerIs ==
  ASSUME NEW w \in WorkerRec, NEW job \in Job, NEW variant \in Variants, NEW cams \in SUBSET Cameras
  PROVE  /\ Polling \in WorkerRec /\ Polling.pc = "poll"
         /\ [w EXCEPT !.pc = "block"] \in WorkerRec /\ [w EXCEPT !.pc = "block"].pc = "block"
         /\ [w EXCEPT !.pc = "stitch", !.job = job, !.variant = variant] \in WorkerRec
         /\ [w EXCEPT !.pc = "stitch", !.job = job, !.variant = variant].job = job
         /\ [w EXCEPT !.pc = "cut", !.cams = cams] \in WorkerRec
         /\ [w EXCEPT !.pc = "cut", !.cams = cams].job = w.job
         /\ [w EXCEPT !.cams = cams] \in WorkerRec
         /\ [w EXCEPT !.cams = cams].job = w.job
<1>1. ASSUME NEW d, d = Polling PROVE d \in WorkerRec /\ d.pc = "poll"
  <2>1. Absent \in EventRec
    BY DEF Absent, EventRec
  <2>2. NoJob \in Job
    BY <2>1 DEF NoJob, Job
  <2> QED BY <1>1, <2>2 DEF Polling, WorkerRec, Variants
<1>2. ASSUME NEW d, d = [w EXCEPT !.pc = "block"] PROVE d \in WorkerRec /\ d.pc = "block"
  BY <1>2 DEF WorkerRec
<1>3. ASSUME NEW d, d = [w EXCEPT !.pc = "stitch", !.job = job, !.variant = variant]
      PROVE  d \in WorkerRec /\ d.job = job
  BY <1>3 DEF WorkerRec
<1>4. ASSUME NEW d, d = [w EXCEPT !.pc = "cut", !.cams = cams] PROVE d \in WorkerRec /\ d.job = w.job
  BY <1>4 DEF WorkerRec
<1>5. ASSUME NEW d, d = [w EXCEPT !.cams = cams] PROVE d \in WorkerRec /\ d.job = w.job
  BY <1>5 DEF WorkerRec
<1> QED BY <1>1, <1>2, <1>3, <1>4, <1>5, Zenon

\* What a step of the worker does: it keeps its job or takes the first of a queue,
\* fills only final cuts of its job, and asks only for its own job again.
WorkerMoves ==
  /\ UNCHANGED <<world, now, store, feed, loop, boot, order, watching, live, mine, viewVars>>
  /\ worker' \in WorkerRec /\ renders' \in Queues
  /\ \A v \in Variants :
       \/ renders'[v] = renders[v]
       \/ renders[v] # <<>> /\ renders'[v] = Tail(renders[v])
       \/ renders'[v] = Append(renders[v], worker.job) /\ worker.pc \in {"stitch", "cut"}
  /\ \/ worker'.pc \in {"poll", "block"}
     \/ worker'.job = worker.job /\ worker.pc \in {"stitch", "cut"}
     \/ \E v \in Variants : renders[v] # <<>> /\ worker'.job = Head(renders[v])
  /\ \/ UNCHANGED cuts
     \/ /\ worker.pc = "cut"
        /\ \E cam \in Cameras :
             cuts' = cuts \cup {Key(cam, worker.job.e.start - Margin, worker.job.e.end + Margin)}

\* stitch returns, with or without its error.
LEMMA FinishedIs ==
  ASSUME TypeOK, Finished(renders) \/ Failed(renders), worker.pc \in {"stitch", "cut"}
  PROVE  /\ worker' = Polling /\ renders' \in Queues
         /\ \A v \in Variants : renders'[v] = renders[v] \/ renders'[v] = Append(renders[v], worker.job)
         /\ UNCHANGED <<world, now, store, feed, loop, boot, order, watching, live, mine, viewVars>>
<1>1. renders \in Queues /\ worker.job \in Job /\ "hi" \in Variants
  BY DEF TypeOK, RendersOK, Queues, WorkerRec, Variants
<1>2. /\ worker' = Polling
      /\ UNCHANGED <<world, now, store, feed, loop, boot, order, watching, live, mine, viewVars>>
      /\ renders' = renders \/ renders' = Requested(renders, "hi", worker.job)
  BY DEF Finished, Failed, Works
<1> QED BY <1>1, <1>2, RequestedIs

\* Every step of the worker is one of those.
LEMMA WorkerStep ==
  ASSUME TypeOK, Worker
  PROVE  WorkerMoves
<1>0. /\ renders \in Queues /\ worker \in WorkerRec /\ worker.job \in Job /\ worker.cams \in SUBSET Cameras
      /\ worker.variant \in Variants /\ worker.pc \in {"poll", "block", "stitch", "cut"}
  BY DEF TypeOK, RendersOK, Queues, WorkerRec
<1>1. CASE WorkerBlocks
  <2>1. PICK w : w = [worker EXCEPT !.pc = "block"]
    OBVIOUS
  <2>2. /\ worker' = w /\ UNCHANGED <<cuts, renders, stitched>>
        /\ UNCHANGED <<world, now, store, feed, loop, boot, order, watching, live, mine, viewVars>>
    BY <1>1, <2>1, Zenon DEF WorkerBlocks, Works
  <2>3. w \in WorkerRec /\ w.pc = "block"
    BY <1>0, <2>1, WorkerIs
  <2> QED BY <1>0, <2>2, <2>3 DEF WorkerMoves
<1>2. ASSUME NEW variant \in Variants, WorkerTakes(variant) PROVE WorkerMoves
  <2>1. PICK q : q = renders[variant]
    OBVIOUS
  <2>2. q \in Seq(Job) /\ q # <<>>
    BY <1>0, <1>2, <2>1 DEF WorkerTakes, Queues
  <2>3. PICK t : t = Tail(q)
    OBVIOUS
  <2>4. PICK job : job = Head(q)
    OBVIOUS
  <2>5. t \in Seq(Job) /\ job \in Job
    BY <2>2, <2>3, <2>4
  <2>6. PICK w : w = [worker EXCEPT !.pc = "stitch", !.job = job, !.variant = variant]
    OBVIOUS
  <2>7. /\ worker' = w /\ UNCHANGED cuts /\ renders' = [renders EXCEPT ![variant] = t]
        /\ UNCHANGED <<world, now, store, feed, loop, boot, order, watching, live, mine, viewVars>>
    BY <1>2, <2>1, <2>3, <2>4, <2>6, Zenon DEF WorkerTakes, Works
  <2>8. w \in WorkerRec /\ w.job = job
    BY <1>0, <2>5, <2>6 DEF WorkerRec
  <2>9. renders' \in Queues /\ renders'[variant] = t /\ \A v \in Variants : v # variant => renders'[v] = renders[v]
    BY <1>0, <2>5, <2>7 DEF Queues
  <2> QED BY <2>1, <2>2, <2>3, <2>4, <2>7, <2>8, <2>9 DEF WorkerMoves
<1>3. CASE WorkerStitches
  <2>0. worker.pc = "stitch" /\ UNCHANGED <<cuts, stitched>>
    BY <1>3 DEF WorkerStitches
  <2>1. CASE Finished(renders)
    <3>1. Polling.pc = "poll" /\ Polling \in WorkerRec
      BY <1>0, WorkerIs
    <3> QED BY <1>0, <2>0, <2>1, <3>1, FinishedIs DEF WorkerMoves
  <2>2. CASE ~Finished(renders)
    <3>1. PICK cams \in SUBSET ToSet(EventCameras) \ {{}} :
            Works([worker EXCEPT !.pc = "cut", !.cams = cams]) /\ UNCHANGED renders
      BY <1>3, <2>2, Zenon DEF WorkerStitches
    <3>2. cams \in SUBSET Cameras
      BY <3>1, CamerasOK, ElementsIs
    <3>3. PICK w : w = [worker EXCEPT !.pc = "cut", !.cams = cams]
      OBVIOUS
    <3>4. worker' = w /\ UNCHANGED <<world, now, store, feed, loop, boot, order, watching, live, mine, viewVars>>
      BY <3>1, <3>3, Zenon DEF Works
    <3>5. w \in WorkerRec /\ w.job = worker.job
      BY <1>0, <3>2, <3>3 DEF WorkerRec
    <3> QED BY <1>0, <2>0, <3>1, <3>4, <3>5 DEF WorkerMoves
  <2> QED BY <2>1, <2>2
<1>4. ASSUME NEW cam \in Cameras, WorkerFills(cam) PROVE WorkerMoves
  <2>0. worker.pc = "cut"
    BY <1>4 DEF WorkerFills
  <2>1. CASE Failed(renders) /\ UNCHANGED cuts
    <3>1. Polling.pc = "poll" /\ Polling \in WorkerRec
      BY <1>0, WorkerIs
    <3> QED BY <1>0, <2>0, <2>1, <3>1, FinishedIs DEF WorkerMoves
  <2>2. CASE ~(Failed(renders) /\ UNCHANGED cuts)
    <3>1. PICK cams : cams = worker.cams \ {cam}
      OBVIOUS
    <3>2. PICK w : w = [worker EXCEPT !.cams = cams]
      OBVIOUS
    <3>3. /\ cuts' = cuts \cup {Key(cam, worker.job.e.start - Margin, worker.job.e.end + Margin)}
          /\ worker' = w /\ UNCHANGED renders
          /\ UNCHANGED <<world, now, store, feed, loop, boot, order, watching, live, mine, viewVars>>
      BY <1>4, <2>2, <3>1, <3>2, Zenon DEF WorkerFills, Works
    <3>4. w \in WorkerRec /\ w.job = worker.job
      BY <1>0, <3>1, <3>2 DEF WorkerRec
    <3>5. /\ worker.pc = "cut"
          /\ \E c \in Cameras : cuts' = cuts \cup {Key(c, worker.job.e.start - Margin, worker.job.e.end + Margin)}
      BY <2>0, <3>3
    <3>6. worker'.job = worker.job /\ worker.pc \in {"stitch", "cut"}
      BY <2>0, <3>3, <3>4
    <3>7. worker' \in WorkerRec /\ renders' \in Queues /\ \A v \in Variants : renders'[v] = renders[v]
      BY <1>0, <3>3, <3>4
    <3> QED BY <3>3, <3>5, <3>6, <3>7, Zenon DEF WorkerMoves
  <2> QED BY <2>1, <2>2
<1>5. CASE WorkerRenders
  <2>1. worker.pc = "cut" /\ UNCHANGED cuts /\ (Finished(renders) \/ Failed(renders))
    BY <1>5 DEF WorkerRenders
  <2>2. Polling.pc = "poll" /\ Polling \in WorkerRec
    BY <1>0, WorkerIs
  <2> QED BY <1>0, <2>1, <2>2, FinishedIs DEF WorkerMoves
<1> QED BY <1>1, <1>2, <1>3, <1>4, <1>5 DEF Worker

------------------------------------------------------------------------------
(***************************************************************************)
(* Every step keeps the types.                                             *)
(***************************************************************************)

\* The keys a goroutine fills are keys.
LEMMA KeysOK ==
  ASSUME TypeOK, NEW id \in Events, NEW g, g = live[id]
  PROVE  /\ g.pc = "cut" => RungKey(g) \in KeySet
         /\ g.pc = "final" => FinalKey(g) \in KeySet
<1>1. g.e.start \in Nat /\ g.e.end \in Nat /\ Margin \in Nat
  BY RecordsOK, GoFields, EventFields
<1>2. g.pc \in {"cut", "final"} => EventCameras[g.cam] \in Cameras
  BY PlaceIs
<1>3. g.pc = "cut" => Ladder[g.rung] \in Nat
  BY PlaceIs
<1> QED BY <1>1, <1>2, <1>3 DEF RungKey, FinalKey, Key, KeySet

\* A viewer's cut is the final one, or ends at a rung trusted now.
LEMMA ClipCutIs ==
  ASSUME TypeOK, NEW e \in EventRec, NEW cam \in Cameras, NEW k \in ClipCut(e, cam, now)
  PROVE  /\ k \in KeySet /\ k[2] = e.start - Margin
         /\ ~Running(e) => k = Key(cam, e.start - Margin, e.end + Margin)
         /\ Running(e) => \E i \in DOMAIN Ladder :
                            k = Key(cam, e.start - Margin, e.start + Ladder[i])
                            /\ now - e.start >= Ladder[i] + Grace
         /\ Running(e) => \A i \in DOMAIN Ladder :
                            now - e.start >= Ladder[i] + Grace => e.start + Ladder[i] <= k[3]
<1>1. e.start \in Nat /\ e.end \in Nat /\ Margin \in Nat /\ Grace \in Nat /\ now \in Nat
  BY RecordsOK, EventFields, WarmerAssumption DEF TypeOK, StoreOK
<1>2. CASE ~Running(e)
  <2>1. k = Key(cam, e.start - Margin, e.end + Margin)
    BY <1>2 DEF ClipCut
  <2> QED BY <1>1, <1>2, <2>1 DEF Key, KeySet
<1>3. CASE Running(e)
  <2>1. PICK C : C = LatestCheckpoint(e.start, now)
    OBVIOUS
  <2>2. C # {} /\ k = Key(cam, e.start - Margin, Max(C))
    BY <1>3, <2>1 DEF ClipCut
  <2>3. \A x \in C : \E i \in DOMAIN Ladder : x = e.start + Ladder[i] /\ now - e.start >= Ladder[i] + Grace
    BY <2>1 DEF LatestCheckpoint
  <2>4. DOMAIN Ladder = 1..Len(Ladder) /\ \A i \in DOMAIN Ladder : Ladder[i] \in Nat
    BY CamerasOK
  <2>5. \A x \in C : x \in Nat /\ x <= now
    BY <1>1, <2>3, <2>4
  <2>6. \E m \in C : \A x \in C : m >= x
    <3>1. PICK B : B = {now - x : x \in C}
      OBVIOUS
    <3>2. B \in SUBSET Nat /\ B # {}
      BY <1>1, <2>2, <2>5, <3>1
    <3>3. PICK n \in B : \A b \in B : n <= b
      BY <3>2, Smallest
    <3>4. PICK m \in C : n = now - m
      BY <3>1, <3>3
    <3>5. ASSUME NEW x \in C PROVE m >= x
      <4>1. now - x \in B /\ n <= now - x
        BY <3>1, <3>3
      <4>2. x \in Nat /\ m \in Nat
        BY <2>5
      <4> QED BY <1>1, <3>4, <4>1, <4>2
    <3> QED BY <3>5
  <2>7. Max(C) \in C /\ \A x \in C : Max(C) >= x
    BY <2>6, Zenon DEF Max
  <2>8. PICK i \in DOMAIN Ladder : Max(C) = e.start + Ladder[i] /\ now - e.start >= Ladder[i] + Grace
    BY <2>3, <2>7
  <2>9. k \in KeySet /\ k[2] = e.start - Margin
    <3>1. Max(C) \in Int
      BY <2>5, <2>7
    <3> QED BY <1>1, <2>2, <3>1 DEF Key, KeySet
  <2>10. ASSUME NEW j \in DOMAIN Ladder, now - e.start >= Ladder[j] + Grace PROVE e.start + Ladder[j] <= k[3]
    <3>1. e.start + Ladder[j] \in C
      BY <2>1, <2>10 DEF LatestCheckpoint
    <3>2. e.start + Ladder[j] <= Max(C) /\ k[3] = Max(C)
      BY <1>1, <2>2, <2>4, <2>5, <2>7, <3>1 DEF Key
    <3> QED BY <3>2
  <2> QED BY <1>3, <2>2, <2>8, <2>9, <2>10
<1> QED BY <1>2, <1>3

\* A goroutine's step keeps the types.
LEMMA GoroutineType ==
  ASSUME TypeOK, NEW id \in Events, Goroutine(id)
  PROVE  TypeOK'
<1>1. PICK h : Step(id, h) /\ Goroutined(live[id], h)
  BY Moves
<1>2. LiveOK'
  BY <1>1, StepLiveOK
<1>3. UNCHANGED <<world, now, store, feed, loop, boot, order, watching, worker, stitched, viewVars>>
  BY <1>1 DEF Step
<1>4. StoreOK' /\ FeedOK' /\ AskedOK'
  BY <1>3 DEF TypeOK, StoreOK, FeedOK, AskedOK, Ladder, viewVars
<1>5. PICK g : g = live[id]
  OBVIOUS
<1>6. CutsOK'
  <2>1. \/ UNCHANGED mine /\ cuts' \subseteq cuts
        \/ \E k \in KeySet : cuts' \subseteq cuts \cup {k} /\ mine' = [mine EXCEPT ![id] = mine[id] \cup {k}]
    <3>1. CASE LiveGets(id) \/ LiveCancelled(id) \/ LiveEnded(id) \/ LiveTimer(id) \/ FinalSettles(id)
      BY <3>1 DEF LiveGets, LiveCancelled, LiveEnded, LiveTimer, FinalSettles
    <3>2. CASE LiveCuts(id)
      BY <1>5, <3>2, CutsTo, KeysOK
    <3>3. CASE FinalFills(id)
      BY <1>5, <3>3, FillsTo, KeysOK
    <3>4. CASE EvictCheckpoints(id)
      BY <1>5, <3>4, EvictsTo
    <3> QED BY <3>1, <3>2, <3>3, <3>4 DEF Goroutine
  <2> QED BY <2>1 DEF TypeOK, CutsOK
<1>7. RendersOK'
  <2>1. CASE FinalFills(id)
    <3>1. renders \in Queues /\ worker \in WorkerRec
      BY DEF TypeOK, RendersOK, Queues
    <3>2. FinalJob(id, g) \in Job
      BY <1>5, RecordsOK, GoFields DEF FinalJob, Job
    <3>3. "lo" \in Variants
      BY DEF Variants
    <3>4. renders' \in Queues
      BY <1>5, <2>1, <3>1, <3>2, <3>3, FillsTo, RequestedIs
    <3> QED BY <1>3, <3>1, <3>4 DEF RendersOK, Queues
  <2>2. CASE ~FinalFills(id)
    <3>1. UNCHANGED renders
      BY <2>2 DEF Goroutine, LiveGets, LiveCancelled, LiveEnded, LiveTimer, LiveCuts, FinalSettles, EvictCheckpoints
    <3> QED BY <1>3, <3>1 DEF TypeOK, RendersOK
  <2> QED BY <2>1, <2>2
<1> QED BY <1>2, <1>4, <1>6, <1>7 DEF TypeOK

\* The Warm loop starts, cancels and tells goroutines, one at a time or cancelled
\* with it; nothing it does moves one.
LEMMA WarmLiveOK ==
  ASSUME TypeOK, NEW id \in Events, NEW h \in GoRec, PlaceOK(h), live' = [live EXCEPT ![id] = h],
         UNCHANGED world
  PROVE  LiveOK' /\ live'[id] = h /\ \A i \in Events \ {id} : live'[i] = live[i]
<1>1. live' \in [Events -> GoRec] /\ live'[id] = h /\ \A i \in Events \ {id} : live'[i] = live[i]
  BY DEF TypeOK, LiveOK
<1>2. ASSUME NEW i \in Events PROVE PlaceOK(live[i])'
  <2>1. CASE i = id
    BY <1>1, <2>1 DEF PlaceOK, EventCameras, Ladder
  <2>2. CASE i # id
    <3>1. live'[i] = live[i] /\ PlaceOK(live[i])
      BY <1>1, <2>2 DEF TypeOK, LiveOK
    <3> QED BY <3>1 DEF PlaceOK, EventCameras, Ladder
  <2> QED BY <2>1, <2>2
<1> QED BY <1>1, <1>2 DEF LiveOK

\* What Warm's step leaves alone, and how it keeps the types.
LEMMA WarmType ==
  ASSUME TypeOK, Warm
  PROVE  TypeOK' /\ UNCHANGED <<world, now, store, cuts, mine, stitchVars, viewVars>>
<1>0. ASSUME UNCHANGED <<world, now, store, cuts, mine, stitchVars, viewVars>>, FeedOK', LiveOK'
      PROVE  TypeOK' /\ UNCHANGED <<world, now, store, cuts, mine, stitchVars, viewVars>>
  <2>1. StoreOK' /\ CutsOK' /\ RendersOK' /\ AskedOK'
    BY <1>0 DEF TypeOK, StoreOK, CutsOK, RendersOK, AskedOK, stitchVars, viewVars, Ladder
  <2> QED BY <1>0, <2>1 DEF TypeOK
<1>1. CASE BootWarm
  <2>1. PICK id \in Events, h \in GoRec :
           /\ live' = [live EXCEPT ![id] = h] /\ boot' \in Seq(Events)
           /\ h = [Idle EXCEPT !.pc = "settle", !.e = store[id]]
           /\ UNCHANGED <<world, now, store, feed, loop, order, watching, cuts, mine, stitchVars, viewVars>>
    BY <1>1, BootIs
  <2>2. PlaceOK(h)
    BY <2>1, SettlesIs, RecordsOK
  <2>3. LiveOK'
    BY <2>1, <2>2, WarmLiveOK
  <2>4. FeedOK'
    BY <2>1 DEF TypeOK, FeedOK
  <2> QED BY <1>0, <2>1, <2>3, <2>4
<1>2. CASE BootDone \/ WarmReturns
  <2>1. /\ UNCHANGED <<world, now, store, feed, boot, order, watching, live, cuts, mine, stitchVars, viewVars>>
        /\ loop' \in {"watch", "returned"}
    BY <1>2 DEF BootDone, WarmReturns
  <2>2. FeedOK' /\ LiveOK'
    BY <2>1 DEF TypeOK, FeedOK, LiveOK, PlaceOK, EventCameras, Ladder
  <2> QED BY <1>0, <2>1, <2>2
<1>3. ASSUME NEW id \in Events, WarmStarted(id)
      PROVE  TypeOK' /\ UNCHANGED <<world, now, store, cuts, mine, stitchVars, viewVars>>
  <2>1. PICK ids : ids = Append(order, id)
    OBVIOUS
  <2>2. ids \in Seq(Events)
    BY <2>1 DEF TypeOK, FeedOK
  <2>3. Hears("started", id) /\ order' = Kept(ids) /\ watching' \subseteq watching \cup {id}
    BY <1>3, <2>1, StartedIs DEF Kept
  <2>4. order' \in Seq(Events)
    BY <2>2, <2>3, OverflowIs
  <2>5. feed' \in FeedRec /\ UNCHANGED <<world, now, store, loop, boot, cuts, mine, stitchVars, viewVars>>
    BY <2>3, HearsIs
  <2>6. FeedOK'
    BY <2>3, <2>4, <2>5 DEF TypeOK, FeedOK
  <2>7. live' \in [Events -> GoRec]
    BY <1>3, <2>1, StartedIs
  <2>8. PICK h \in GoRec : StartedAs(id, ids, h)
    BY <1>3, <2>1, StartedIs
  <2>9. ASSUME NEW i \in Events PROVE PlaceOK(live[i])'
    <3>1. PICK g \in GoRec :
            /\ g = IF i = id THEN h ELSE live[i]
            /\ live'[i] = IF i \in ToSet(Overflow(ids)) THEN Abandoned(g) ELSE g
      BY <2>8 DEF StartedAs
    <3>2. PlaceOK(h) /\ PlaceOK(live[i])
      BY <2>8, GetsIs DEF TypeOK, LiveOK, StartedAs
    <3>3. PlaceOK(g)
      BY <3>1, <3>2
    <3>4. live'[i].pc = g.pc /\ live'[i].cam = g.cam /\ live'[i].rung = g.rung
      BY <3>1 DEF Abandoned, Go
    <3> QED BY <2>5, <3>3, <3>4 DEF PlaceOK, EventCameras, Ladder
  <2>10. LiveOK'
    BY <2>7, <2>9 DEF LiveOK
  <2> QED BY <1>0, <2>5, <2>6, <2>10
<1>4. ASSUME NEW id \in Events, WarmInstant(id)
      PROVE  TypeOK' /\ UNCHANGED <<world, now, store, cuts, mine, stitchVars, viewVars>>
  <2>1. Hears("started", id) /\ UNCHANGED <<order, watching>>
    BY <1>4, InstantIs
  <2>2. PICK h \in GoRec : h = [Idle EXCEPT !.pc = "settle", !.e = Heard.e] /\ live' = [live EXCEPT ![id] = h]
    BY <1>4, InstantIs
  <2>3. /\ Heard.e \in EventRec /\ feed' \in FeedRec
        /\ UNCHANGED <<world, now, store, loop, boot, cuts, mine, stitchVars, viewVars>>
    BY <2>1, HearsIs
  <2>4. PlaceOK(h)
    BY <2>2, <2>3, SettlesIs
  <2>5. LiveOK'
    BY <2>2, <2>3, <2>4, WarmLiveOK
  <2>6. FeedOK'
    BY <2>1, <2>3 DEF TypeOK, FeedOK
  <2> QED BY <1>0, <2>3, <2>5, <2>6
<1>5. ASSUME NEW id \in Events, WarmEnded(id)
      PROVE  TypeOK' /\ UNCHANGED <<world, now, store, cuts, mine, stitchVars, viewVars>>
  <2>0. PICK g : g = live[id]
    OBVIOUS
  <2>1. Hears("ended", id) /\ watching' = watching \ {id} /\ order' = DeleteID(order, id)
    BY <1>5, <2>0, ToldIs
  <2>2. PICK h \in GoRec :
          /\ live' = [live EXCEPT ![id] = h]
          /\ h = Go(g.pc, g.e, g.rung, g.cam, g.prev, TRUE, g.cancelled, g.seal, g.warmed, g.failed)
    BY <1>5, <2>0, ToldIs
  <2>3. feed' \in FeedRec /\ UNCHANGED <<world, now, store, loop, boot, cuts, mine, stitchVars, viewVars>>
    BY <2>1, HearsIs
  <2>4. h.pc = g.pc /\ h.cam = g.cam /\ h.rung = g.rung /\ PlaceOK(g)
    BY <2>0, <2>2 DEF Go, TypeOK, LiveOK
  <2>5. PlaceOK(h)
    BY <2>4 DEF PlaceOK
  <2>6. LiveOK'
    BY <2>2, <2>3, <2>5, WarmLiveOK
  <2>7. order \in Seq(Events) /\ order' \in Seq(Events)
    BY <2>1, DeleteIs DEF TypeOK, FeedOK
  <2>8. FeedOK'
    BY <2>1, <2>3, <2>7 DEF TypeOK, FeedOK
  <2> QED BY <1>0, <2>3, <2>6, <2>8
<1>6. ASSUME NEW op, NEW id \in Events, WarmIgnores(op, id)
      PROVE  TypeOK' /\ UNCHANGED <<world, now, store, cuts, mine, stitchVars, viewVars>>
  <2>1. Hears(op, id) /\ UNCHANGED <<order, watching, live>>
    BY <1>6 DEF WarmIgnores
  <2>2. feed' \in FeedRec /\ UNCHANGED <<world, now, store, loop, boot, cuts, mine, stitchVars, viewVars>>
    BY <2>1, HearsIs
  <2>3. FeedOK' /\ LiveOK'
    BY <2>1, <2>2 DEF TypeOK, FeedOK, LiveOK, PlaceOK, EventCameras, Ladder
  <2> QED BY <1>0, <2>2, <2>3
<1> QED BY <1>1, <1>2, <1>3, <1>4, <1>5, <1>6 DEF Warm

\* The cameras of an event are cameras.
LEMMA CameraIs ==
  ASSUME TypeOK, NEW cam \in ToSet(EventCameras)
  PROVE  cam \in Cameras
BY CamerasOK, ElementsIs

\* The steps that are neither the warmer's nor the stitch worker's: a viewer asks for
\* a cut, one is filled for it, the cache sheds one.
Views == View \/ \E key \in cuts : Shed(key)

\* What they leave alone, and what they do to the cuts: one that is filled becomes
\* nobody's, one that is shed is put down.
LEMMA ViewsKeep ==
  ASSUME TypeOK, Views
  PROVE  /\ UNCHANGED <<world, now, store, feed, loop, boot, order, watching, live, renders, worker, stitched>>
         /\ \A id \in Events : mine'[id] \subseteq mine[id]
         /\ \A id \in Events : \A k \in cuts' : k \in cuts \/ k \notin mine'[id]
         /\ \A k \in cuts : k \in cuts' \/ k \in shed'
         /\ shed \subseteq shed'
<1>1. UNCHANGED <<world, now, store, feed, loop, boot, order, watching, live, renders, worker, stitched>>
  BY DEF Views, View, ViewAsks, ViewFills, Shed, stitchVars
<1>2. mine \in [Events -> SUBSET KeySet]
  BY DEF TypeOK, CutsOK
<1>3. CASE \E key \in cuts : Shed(key)
  BY <1>1, <1>3 DEF Shed
<1>4. ASSUME NEW v, NEW id, NEW cam, ViewAsks(v, id, cam) PROVE UNCHANGED <<cuts, mine, shed>>
  BY <1>4 DEF ViewAsks
<1>5. ASSUME NEW v, ViewFills(v)
      PROVE  /\ UNCHANGED shed
             /\ \/ cuts' = cuts \cup {asked[v]} /\ mine' = [id \in Events |-> mine[id] \ {asked[v]}]
                \/ UNCHANGED <<cuts, mine>>
  BY <1>5 DEF ViewFills
<1>6. CASE View
  <2>1. \/ UNCHANGED <<cuts, mine, shed>>
        \/ \E k : /\ cuts' = cuts \cup {k} /\ mine' = [id \in Events |-> mine[id] \ {k}]
                  /\ UNCHANGED shed
    BY <1>4, <1>5, <1>6 DEF View
  <2> QED BY <1>1, <2>1
<1> QED BY <1>3, <1>6 DEF Views

\* They keep the types.
LEMMA ViewType ==
  ASSUME TypeOK, Views
  PROVE  TypeOK'
<1>1. UNCHANGED <<world, now, store, feed, loop, boot, order, watching, live, stitchVars>>
  BY ViewsKeep DEF stitchVars
<1>2. StoreOK' /\ FeedOK' /\ LiveOK' /\ RendersOK'
  BY <1>1 DEF TypeOK, StoreOK, FeedOK, LiveOK, PlaceOK, RendersOK, EventCameras, Ladder, stitchVars
<1>3. world.viewers \subseteq Viewers
  BY DEF TypeOK, StoreOK, World
<1>4. ASSUME NEW v \in world.viewers, NEW id \in Events, NEW cam \in ToSet(EventCameras), ViewAsks(v, id, cam)
      PROVE  CutsOK' /\ AskedOK'
  <2>1. ClipCut(store[id], cam, now) \subseteq KeySet
    BY CameraIs, ClipCutIs, RecordsOK
  <2>2. PICK key \in KeySet : asked' = [asked EXCEPT ![v] = key]
    BY <1>4, <2>1 DEF ViewAsks
  <2>3. UNCHANGED <<cuts, mine, shed>>
    BY <1>4 DEF ViewAsks
  <2> QED BY <1>3, <2>2, <2>3 DEF TypeOK, CutsOK, AskedOK
<1>5. ASSUME NEW v \in world.viewers, ViewFills(v) PROVE CutsOK' /\ AskedOK'
  <2>1. asked[v] \in KeySet
    BY <1>3, <1>5 DEF ViewFills, TypeOK, AskedOK
  <2>2. AskedOK'
    BY <1>3, <1>5 DEF ViewFills, TypeOK, AskedOK
  <2>3. CutsOK'
    BY <1>5, <2>1 DEF ViewFills, TypeOK, CutsOK
  <2> QED BY <2>2, <2>3
<1>6. ASSUME NEW key \in cuts, Shed(key) PROVE CutsOK' /\ AskedOK'
  BY <1>6 DEF Shed, TypeOK, CutsOK, AskedOK
<1>7. CutsOK' /\ AskedOK'
  BY <1>4, <1>5, <1>6 DEF Views, View
<1> QED BY <1>2, <1>7 DEF TypeOK

\* A page's step keeps the types.
LEMMA OthersType ==
  ASSUME TypeOK, NEW id \in Events, NEW v \in Variants, Look(id, v)
  PROVE  TypeOK'
<1>1. /\ UNCHANGED <<world, now, store, feed, loop, boot, order, watching, live, cuts, mine, worker, stitched, viewVars>>
      /\ renders' = Requested(renders, v, [id |-> id, e |-> store[id]])
  BY Zenon DEF Look
<1>2. renders \in Queues /\ [id |-> id, e |-> store[id]] \in Job
  BY RecordsOK DEF TypeOK, RendersOK, Queues, Job
<1>3. renders' \in Queues
  BY <1>1, <1>2, RequestedIs
<1>4. StoreOK' /\ FeedOK' /\ LiveOK' /\ CutsOK' /\ RendersOK' /\ AskedOK'
  BY <1>1, <1>3 DEF TypeOK, StoreOK, FeedOK, LiveOK, PlaceOK, CutsOK, RendersOK, AskedOK, EventCameras, Ladder, Queues, viewVars
<1> QED BY <1>4 DEF TypeOK

\* The stitch worker's step keeps the types.
LEMMA WorkerType ==
  ASSUME TypeOK, Worker
  PROVE  TypeOK'
<1>1. /\ UNCHANGED <<world, now, store, feed, loop, boot, order, watching, live, mine, viewVars>>
      /\ worker' \in WorkerRec /\ renders' \in Queues
      /\ \/ UNCHANGED cuts
         \/ \E cam \in Cameras :
              cuts' = cuts \cup {Key(cam, worker.job.e.start - Margin, worker.job.e.end + Margin)}
  BY WorkerStep DEF WorkerMoves
<1>2. worker.job.e \in EventRec /\ Margin \in Nat
  BY WarmerAssumption DEF TypeOK, RendersOK, WorkerRec, Job
<1>3. cuts' \in SUBSET KeySet
  <2>1. ASSUME NEW cam \in Cameras PROVE Key(cam, worker.job.e.start - Margin, worker.job.e.end + Margin) \in KeySet
    BY <1>2, EventFields DEF Key, KeySet
  <2> QED BY <1>1, <2>1 DEF TypeOK, CutsOK
<1>4. StoreOK' /\ FeedOK' /\ LiveOK' /\ CutsOK' /\ RendersOK' /\ AskedOK'
  BY <1>1, <1>3 DEF TypeOK, StoreOK, FeedOK, LiveOK, PlaceOK, CutsOK, RendersOK, AskedOK, EventCameras, Ladder, Queues, viewVars
<1> QED BY <1>4 DEF TypeOK

\* A change of the store is one of these five, on an event.
LEMMA ApplyType ==
  ASSUME TypeOK, Apply
  PROVE  TypeOK'
<1>1. PICK id \in world.events :
         \/ StartEvent(id) \/ InstantEvent(id) \/ UpdateEvent(id) \/ ForgetEvent(id)
         \/ \E end \in 1..Horizon : EndEvent(id, end)
  BY DEF Apply
<1>2. id \in Events
  BY <1>1 DEF TypeOK, StoreOK, World
<1>3. CASE ForgetEvent(id)
  <2>1. PICK e \in EventRec : store' = [store EXCEPT ![id] = e]
    BY <1>2, <1>3, ForgetPuts
  <2>2. UNCHANGED <<world, now, feed, loop, boot, order, watching, live, cuts, mine, stitchVars, viewVars>>
    BY <1>3 DEF ForgetEvent
  <2>3. StoreOK' /\ FeedOK' /\ LiveOK' /\ CutsOK' /\ RendersOK' /\ AskedOK'
    BY <2>1, <2>2 DEF TypeOK, StoreOK, FeedOK, LiveOK, PlaceOK, CutsOK, RendersOK, AskedOK, EventCameras, Ladder, stitchVars, viewVars
  <2> QED BY <2>3 DEF TypeOK
<1>4. CASE StartEvent(id) \/ InstantEvent(id)
  <2>1. PICK e \in EventRec : Applied(id, "started", e)
    BY <1>2, <1>4, StartPuts, InstantPuts
  <2> QED BY <1>2, <2>1, AppliedOK
<1>5. CASE UpdateEvent(id)
  <2>1. PICK e \in EventRec : Applied(id, "updated", e)
    BY <1>2, <1>5, UpdatePuts
  <2> QED BY <1>2, <2>1, AppliedOK
<1>6. CASE \E end \in 1..Horizon : EndEvent(id, end)
  <2>1. PICK e \in EventRec : Applied(id, "ended", e)
    BY <1>2, <1>6, EndPuts
  <2> QED BY <1>2, <2>1, AppliedOK
<1> QED BY <1>1, <1>3, <1>4, <1>5, <1>6

\* The clock's step keeps the types.
LEMMA TickType ==
  ASSUME TypeOK, Tick
  PROVE  TypeOK'
<1>1. now' = now + 1 /\ UNCHANGED <<world, store, feed, loop, boot, order, watching, live, cuts, mine, stitchVars, viewVars>>
  BY DEF Tick
<1>2. StoreOK' /\ FeedOK' /\ LiveOK' /\ CutsOK' /\ RendersOK' /\ AskedOK'
  BY <1>1 DEF TypeOK, StoreOK, FeedOK, LiveOK, PlaceOK, CutsOK, RendersOK, AskedOK, EventCameras, Ladder, stitchVars, viewVars
<1> QED BY <1>2 DEF TypeOK

\* The first state is of its types.
LEMMA TypeInit ==
  ASSUME Init
  PROVE  TypeOK
<1>1. world \in World /\ now = 1 /\ \A i, j \in DOMAIN Ladder : i < j => Ladder[i] < Ladder[j]
  BY WarmerAssumption DEF Init, Ladder
<1>2. store \in [Events -> EventRec]
  <2>1. ASSUME NEW d, d = [state |-> "ended", start |-> 1, end |-> 1, boxes |-> TRUE] PROVE d \in EventRec
    BY <2>1 DEF EventRec
  <2>2. Absent \in EventRec
    BY DEF Absent, EventRec
  <2> QED BY <2>1, <2>2 DEF Init
<1>3. boot \in Seq(Events)
  <2>1. PICK s : s = world.known
    OBVIOUS
  <2>2. s \in Seq(Events) /\ Len(s) \in Nat
    <3>1. s \in Seq(SentEvents) /\ SentEvents \subseteq Events
      BY <1>1, <2>1, WarmerAssumption DEF World
    <3> QED BY <3>1
  <2>3. PICK m : m = Min({WarmSet, Len(s)})
    OBVIOUS
  <2>4. m \in 0..Len(s)
    <3>1. \E x \in {WarmSet, Len(s)} : \A y \in {WarmSet, Len(s)} : x <= y
      BY <2>2, WarmerAssumption
    <3>2. m \in {WarmSet, Len(s)} /\ \A y \in {WarmSet, Len(s)} : m <= y
      BY <2>3, <3>1, Zenon DEF Min
    <3> QED BY <2>2, <3>2, WarmerAssumption
  <2>5. 1 \in 1..Len(s) + 1 /\ m \in 1 - 1..Len(s)
    BY <2>2, <2>4
  <2>6. SubSeq(s, 1, m) \in Seq(Events)
    BY <2>2, <2>5, PartIs
  <2> QED BY <2>1, <2>3, <2>6 DEF Init
<1>4. feed \in FeedRec /\ loop = "boot" /\ order \in Seq(Events) /\ watching \in SUBSET Events
  <2>1. ASSUME NEW d, d = [open |-> TRUE, queue |-> <<>>] PROVE d \in FeedRec
    BY <2>1 DEF FeedRec
  <2> QED BY <2>1 DEF Init
<1>5. live \in [Events -> GoRec] /\ \A id \in Events : live[id] = Idle
  <2>1. NoPrev \in [Cameras -> Nat] /\ Absent \in EventRec
    BY DEF NoPrev, Absent, EventRec
  <2>2. Idle \in GoRec
    BY <2>1 DEF Idle, GoRec, Pcs
  <2> QED BY <2>2 DEF Init
<1>6. \A id \in Events : PlaceOK(live[id])
  BY <1>5 DEF PlaceOK, Idle
<1>7. cuts \in SUBSET KeySet /\ mine \in [Events -> SUBSET KeySet]
  BY DEF Init
<1>8. renders \in Queues /\ worker \in WorkerRec
  <2>1. worker = Polling /\ renders = [variant \in Variants |-> <<>>]
    BY DEF Init
  <2>2. NoJob \in Job
    BY DEF NoJob, Job, Absent, EventRec
  <2>3. Polling \in WorkerRec
    BY <2>2 DEF Polling, WorkerRec, Variants
  <2> QED BY <2>1, <2>3 DEF Queues
<1>9. AskedOK
  BY DEF Init, AskedOK
<1> QED BY <1>1, <1>2, <1>3, <1>4, <1>5, <1>6, <1>7, <1>8, <1>9
        DEF TypeOK, StoreOK, FeedOK, LiveOK, CutsOK, RendersOK, Queues

\* Every step keeps the types.
LEMMA TypeStep ==
  ASSUME TypeOK, [Next]_vars
  PROVE  TypeOK'
<1>1. CASE UNCHANGED vars
  <2>1. StoreOK' /\ FeedOK' /\ LiveOK' /\ CutsOK' /\ RendersOK' /\ AskedOK'
    BY <1>1 DEF TypeOK, StoreOK, FeedOK, LiveOK, PlaceOK, CutsOK, RendersOK, AskedOK, EventCameras, Ladder, vars
  <2> QED BY <2>1 DEF TypeOK
<1>2. CASE Next
  <2>1. ASSUME NEW id \in Events, Goroutine(id) \/ StitchPage(id) \/ EventPage(id)
        PROVE  TypeOK'
    <3>1. EventPage(id) => \E v \in Variants : Look(id, v)
      BY DEF EventPage, Variants
    <3> QED BY <2>1, <3>1, GoroutineType, OthersType DEF StitchPage
  <2> QED BY <1>2, <2>1, ApplyType, WarmType, WorkerType, TickType, ViewType DEF Next, Views
<1> QED BY <1>1, <1>2

\* Type correctness: every variable keeps its shape, and a goroutine in a loop is
\* at one of its event's cameras and, cutting, at one of the rungs (warm.go
\* warmLive, warmFinal).
THEOREM WarmerTypes == Spec => []TypeOK
<1>1. Init => TypeOK
  BY TypeInit
<1>2. TypeOK /\ [Next]_vars => TypeOK'
  BY TypeStep
<1> QED BY <1>1, <1>2, PTL DEF Spec

------------------------------------------------------------------------------
(***************************************************************************)
(* The working set.                                                        *)
(***************************************************************************)

\* What order, watching and the goroutines' flags know of each other.  That a
\* watched event's goroutine has been told nothing is what keeps one told of the
\* end from being cancelled later: only what is watched is told or cancelled.
WorkInv ==
  /\ Distinct(order) /\ ToSet(order) = watching /\ Len(order) <= WarmSet
  /\ \A id \in Events :
       /\ id \in watching => (~live[id].ended /\ ~live[id].cancelled)
       /\ Following(id) => (id \in watching \/ live[id].ended \/ live[id].cancelled)
       /\ ~(live[id].ended /\ live[id].cancelled)

\* The first state.
LEMMA WorkInvInit ==
  ASSUME Init
  PROVE  WorkInv
<1>1. order = <<>> /\ watching = {} /\ WarmSet \in Nat /\ \A id \in Events : live[id] = Idle
  BY WarmerAssumption DEF Init
<1>2. Distinct(order) /\ ToSet(order) = watching /\ Len(order) <= WarmSet
  BY <1>1 DEF Distinct, ToSet
<1>3. \A id \in Events : live[id].pc = "none" /\ ~live[id].ended /\ ~live[id].cancelled
  BY <1>1 DEF Idle
<1> QED BY <1>1, <1>2, <1>3 DEF WorkInv, Following

\* A step that leaves the set alone and a goroutine what it was told.
LEMMA WorkGoes ==
  ASSUME TypeOK, WorkInv, NEW id \in Events, NEW h, Step(id, h), Goroutined(live[id], h)
  PROVE  WorkInv'
<1>1. UNCHANGED <<order, watching>>
  BY DEF Step
<1>2. live'[id] = h /\ \A i \in Events \ {id} : live'[i] = live[i]
  BY StepLiveOK
<1>3. ASSUME NEW i \in Events
      PROVE  /\ i \in watching' => (~live'[i].ended /\ ~live'[i].cancelled)
             /\ Following(i)' => (i \in watching' \/ live'[i].ended \/ live'[i].cancelled)
             /\ ~(live'[i].ended /\ live'[i].cancelled)
  <2>1. CASE i = id
    BY <1>1, <1>2, <2>1 DEF WorkInv, Following, Goroutined
  <2>2. CASE i # id
    BY <1>1, <1>2, <2>2 DEF WorkInv, Following
  <2> QED BY <2>1, <2>2
<1>4. Distinct(order)' /\ ToSet(order') = watching' /\ Len(order') <= WarmSet
  BY <1>1 DEF WorkInv, Distinct
<1> QED BY <1>3, <1>4 DEF WorkInv

\* OpStarted of a running event: the newest enters, the oldest past the bound is
\* cancelled, which no one had told of an end.
LEMMA WorkStarted ==
  ASSUME TypeOK, WorkInv, NEW id \in Events, WarmStarted(id)
  PROVE  WorkInv'
<1>1. PICK ids : ids = Append(order, id)
  OBVIOUS
<1>2. order \in Seq(Events) /\ Len(order) \in Nat
  BY DEF TypeOK, FeedOK
<1>3. /\ ids \in Seq(Events) /\ Len(ids) = Len(order) + 1
      /\ \A j \in 1..Len(order) : ids[j] = order[j]
      /\ ids[Len(order) + 1] = id
  BY <1>1, <1>2
<1>4. /\ id \notin watching /\ order' = Kept(ids)
      /\ watching' = (watching \cup {id}) \ ToSet(Overflow(ids))
  BY <1>1, StartedIs DEF Kept
<1>5. PICK h \in GoRec : StartedAs(id, ids, h)
  BY <1>1, StartedIs
<1>6. ToSet(ids) = watching \cup {id}
  <2>1. ASSUME NEW x \in ToSet(ids) PROVE x \in watching \cup {id}
    <3>1. PICK j \in 1..Len(ids) : x = ids[j]
      BY <1>3, <2>1, ElementsIs
    <3>2. CASE j \in 1..Len(order)
      <4>1. x = order[j]
        BY <1>3, <3>1, <3>2
      <4> QED BY <1>2, <3>2, <4>1, ElementsIs DEF WorkInv
    <3>3. CASE j \notin 1..Len(order)
      <4>1. j = Len(order) + 1
        BY <1>2, <1>3, <3>3
      <4> QED BY <1>3, <3>1, <4>1
    <3> QED BY <3>2, <3>3
  <2>2. ASSUME NEW x \in watching PROVE x \in ToSet(ids)
    <3>1. PICK j \in 1..Len(order) : x = order[j]
      BY <1>2, <2>2, ElementsIs DEF WorkInv
    <3>2. j \in 1..Len(ids) /\ x = ids[j]
      BY <1>2, <1>3, <3>1
    <3> QED BY <1>3, <3>2, ElementsIs
  <2>3. id \in ToSet(ids)
    <3>1. Len(order) + 1 \in 1..Len(ids)
      BY <1>2, <1>3
    <3> QED BY <1>3, <3>1, ElementsIs
  <2> QED BY <2>1, <2>2, <2>3
<1>7. Distinct(ids)
  <2>1. \A j \in 1..Len(order) : ids[j] # id
    BY <1>2, <1>3, <1>4, ElementsIs DEF WorkInv
  <2>2. ASSUME NEW i \in 1..Len(ids), NEW j \in 1..Len(ids), ids[i] = ids[j] PROVE i = j
    <3>1. CASE i \in 1..Len(order) /\ j \in 1..Len(order)
      <4>1. order[i] = order[j]
        BY <1>3, <2>2, <3>1
      <4> QED BY <3>1, <4>1 DEF WorkInv, Distinct
    <3>2. CASE i \notin 1..Len(order)
      <4>1. i = Len(order) + 1
        BY <1>2, <1>3, <3>2
      <4>2. j \notin 1..Len(order)
        BY <1>3, <2>1, <2>2, <4>1
      <4> QED BY <1>2, <1>3, <4>1, <4>2
    <3>3. CASE j \notin 1..Len(order)
      <4>1. j = Len(order) + 1
        BY <1>2, <1>3, <3>3
      <4>2. i \notin 1..Len(order)
        BY <1>3, <2>1, <2>2, <4>1
      <4> QED BY <1>2, <1>3, <4>1, <4>2
    <3> QED BY <3>1, <3>2, <3>3
  <2> QED BY <2>2 DEF Distinct
<1>8. /\ Distinct(order') /\ Len(order') <= WarmSet
      /\ ToSet(order') = ToSet(ids) \ ToSet(Overflow(ids))
  BY <1>3, <1>4, <1>7, RestIs
<1>9. ToSet(order') = watching'
  BY <1>4, <1>6, <1>8
<1>10. id \notin ToSet(Overflow(ids))
  <2>1. PICK old : old = Overflow(ids)
    OBVIOUS
  <2>2. PICK k \in Nat : old \in Seq(Events) /\ SplitAt(ids, old, Kept(ids), k)
    BY <1>3, <2>1, OverflowIs
  <2>3. k <= Len(order) /\ Len(old) = k /\ \A j \in 1..k : old[j] = ids[j]
    <3>1. k = IF Len(ids) > WarmSet THEN Len(ids) - WarmSet ELSE 0
      BY <2>2 DEF SplitAt
    <3>2. k <= Len(order)
      BY <1>2, <1>3, <3>1, WarmerAssumption
    <3> QED BY <2>2, <3>2 DEF SplitAt
  <2>4. ASSUME NEW j \in 1..Len(old), old[j] = id PROVE FALSE
    <3>1. j \in 1..Len(order) /\ ids[j] = id
      BY <1>2, <2>3, <2>4
    <3>2. Len(order) + 1 \in 1..Len(ids) /\ j \in 1..Len(ids)
      BY <1>2, <1>3, <3>1
    <3>3. j = Len(order) + 1
      BY <1>3, <1>7, <3>1, <3>2 DEF Distinct
    <3> QED BY <1>2, <3>1, <3>3
  <2> QED BY <2>1, <2>2, <2>4, ElementsIs
<1>11. ToSet(Overflow(ids)) \subseteq watching
  <2>1. PICK old : old = Overflow(ids)
    OBVIOUS
  <2>2. PICK k \in Nat : old \in Seq(Events) /\ SplitAt(ids, old, Kept(ids), k)
    BY <1>3, <2>1, OverflowIs
  <2>3. k <= Len(ids) /\ Len(old) = k /\ \A j \in 1..k : old[j] = ids[j]
    <3>1. k = IF Len(ids) > WarmSet THEN Len(ids) - WarmSet ELSE 0
      BY <2>2 DEF SplitAt
    <3>2. k <= Len(ids)
      BY <1>2, <1>3, <3>1, WarmerAssumption
    <3> QED BY <2>2, <3>2 DEF SplitAt
  <2>4. ASSUME NEW x \in ToSet(old) PROVE x \in watching
    <3>1. PICK j \in 1..Len(old) : x = old[j]
      BY <2>2, <2>4, ElementsIs
    <3>2. j \in 1..Len(ids) /\ x = ids[j]
      BY <1>2, <1>3, <2>3, <3>1
    <3>3. x \in ToSet(ids)
      BY <1>3, <3>2, ElementsIs
    <3> QED BY <1>6, <1>10, <2>1, <2>4, <3>3
  <2> QED BY <2>1, <2>4
<1>12. ASSUME NEW i \in Events
       PROVE  /\ i \in watching' => (~live'[i].ended /\ ~live'[i].cancelled)
              /\ Following(i)' => (i \in watching' \/ live'[i].ended \/ live'[i].cancelled)
              /\ ~(live'[i].ended /\ live'[i].cancelled)
  <2>1. PICK g \in GoRec :
          /\ g = IF i = id THEN h ELSE live[i]
          /\ live'[i] = IF i \in ToSet(Overflow(ids)) THEN Abandoned(g) ELSE g
    BY <1>5 DEF StartedAs
  <2>2. CASE i = id
    <3>1. ~h.ended /\ ~h.cancelled
      BY <1>5, GetsIs DEF StartedAs
    <3> QED BY <1>4, <1>10, <2>1, <2>2, <3>1
  <2>3. CASE i # id /\ i \in ToSet(Overflow(ids))
    <3>1. live'[i] = Abandoned(live[i])
      BY <2>1, <2>3
    <3>2. live'[i].ended = live[i].ended /\ live'[i].cancelled = TRUE
      BY <3>1 DEF Abandoned, Go
    <3>3. ~live[i].ended
      BY <1>11, <2>3 DEF WorkInv
    <3> QED BY <1>4, <2>3, <3>2, <3>3
  <2>4. CASE i # id /\ i \notin ToSet(Overflow(ids))
    <3>1. live'[i] = live[i] /\ (i \in watching' <=> i \in watching)
      BY <1>4, <2>1, <2>4
    <3> QED BY <3>1 DEF WorkInv, Following
  <2> QED BY <2>2, <2>3, <2>4
<1> QED BY <1>8, <1>9, <1>12 DEF WorkInv, Distinct

\* Warm starts a goroutine that follows nothing, for an event it does not watch.
LEMMA WorkUnwatched ==
  ASSUME TypeOK, WorkInv, NEW id \in Events, NEW h \in GoRec, live' = [live EXCEPT ![id] = h],
         NEW e \in EventRec, h = [Idle EXCEPT !.pc = "settle", !.e = e], UNCHANGED <<order, watching>>
  PROVE  WorkInv'
<1>1. h.pc = "settle" /\ h.ended = FALSE /\ h.cancelled = FALSE
  BY SettlesIs
<1>2. \A i \in Events : live'[i] = IF i = id THEN h ELSE live[i]
  BY DEF TypeOK, LiveOK
<1>3. ASSUME NEW i \in Events
      PROVE  /\ i \in watching' => (~live'[i].ended /\ ~live'[i].cancelled)
             /\ Following(i)' => (i \in watching' \/ live'[i].ended \/ live'[i].cancelled)
             /\ ~(live'[i].ended /\ live'[i].cancelled)
  <2>1. CASE i = id
    BY <1>1, <1>2, <2>1 DEF Following
  <2>2. CASE i # id
    BY <1>2, <2>2 DEF WorkInv, Following
  <2> QED BY <2>1, <2>2
<1> QED BY <1>3 DEF WorkInv, Distinct

\* The end of a watched event: it is told, and leaves the set.
LEMMA WorkTold ==
  ASSUME TypeOK, WorkInv, NEW id \in Events, WarmEnded(id)
  PROVE  WorkInv'
<1>0. PICK g : g = live[id]
  OBVIOUS
<1>1. id \in watching /\ watching' = watching \ {id} /\ order' = DeleteID(order, id)
  BY <1>0, ToldIs
<1>2. PICK h \in GoRec :
        /\ live' = [live EXCEPT ![id] = h]
        /\ h = Go(g.pc, g.e, g.rung, g.cam, g.prev, TRUE, g.cancelled, g.seal, g.warmed, g.failed)
  BY <1>0, ToldIs
<1>3. h.ended = TRUE /\ h.cancelled = g.cancelled
  BY <1>2 DEF Go
<1>4. ~g.cancelled
  BY <1>0, <1>1 DEF WorkInv
<1>5. \A i \in Events : live'[i] = IF i = id THEN h ELSE live[i]
  BY <1>2 DEF TypeOK, LiveOK
<1>6. order \in Seq(Events) /\ Len(order) \in Nat /\ Distinct(order)
  BY DEF TypeOK, FeedOK, WorkInv
<1>7. /\ order' \in Seq(Events) /\ Len(order') <= Len(order)
      /\ Distinct(order') /\ ToSet(order') = ToSet(order) \ {id}
  BY <1>1, <1>6, DeleteIs
<1>8. Distinct(order') /\ ToSet(order') = watching' /\ Len(order') <= WarmSet
  <2>1. Len(order') \in Nat /\ Len(order) <= WarmSet /\ WarmSet \in Nat
    BY <1>7, WarmerAssumption DEF WorkInv
  <2> QED BY <1>1, <1>6, <1>7, <2>1 DEF WorkInv
<1>9. ASSUME NEW i \in Events
      PROVE  /\ i \in watching' => (~live'[i].ended /\ ~live'[i].cancelled)
             /\ Following(i)' => (i \in watching' \/ live'[i].ended \/ live'[i].cancelled)
             /\ ~(live'[i].ended /\ live'[i].cancelled)
  <2>1. CASE i = id
    BY <1>1, <1>3, <1>4, <1>5, <2>1
  <2>2. CASE i # id
    BY <1>1, <1>5, <2>2 DEF WorkInv, Following
  <2> QED BY <2>1, <2>2
<1> QED BY <1>8, <1>9 DEF WorkInv, Distinct

\* Every step keeps the working set.
LEMMA WorkInvStep ==
  ASSUME TypeOK, WorkInv, [Next]_vars
  PROVE  WorkInv'
<1>0. ASSUME UNCHANGED <<order, watching, live>> PROVE WorkInv'
  BY <1>0 DEF WorkInv, Following, Distinct
<1>1. CASE UNCHANGED vars
  BY <1>0, <1>1 DEF vars
<1>2. CASE Apply
  BY <1>0, <1>2 DEF Apply, StartEvent, InstantEvent, UpdateEvent, EndEvent, ForgetEvent, Applied
<1>3. CASE Tick
  BY <1>0, <1>3 DEF Tick
<1>4. CASE Worker
  BY <1>0, <1>4, WorkerStep DEF WorkerMoves
<1>5. ASSUME Views \/ \E id \in Events : StitchPage(id) \/ EventPage(id) PROVE WorkInv'
  BY <1>0, <1>5, ViewsKeep DEF StitchPage, EventPage, Look
<1>6. ASSUME NEW id \in Events, Goroutine(id) PROVE WorkInv'
  BY <1>6, Moves, WorkGoes
<1>7. CASE BootWarm
  <2>1. PICK id \in Events, h \in GoRec :
           /\ live' = [live EXCEPT ![id] = h]
           /\ h = [Idle EXCEPT !.pc = "settle", !.e = store[id]]
           /\ UNCHANGED <<world, now, store, feed, loop, order, watching, cuts, mine, stitchVars, viewVars>>
    BY <1>7, BootIs
  <2>2. store[id] \in EventRec
    BY RecordsOK
  <2> QED BY <2>1, <2>2, WorkUnwatched
<1>8. CASE BootDone \/ WarmReturns
  BY <1>0, <1>8 DEF BootDone, WarmReturns
<1>9. ASSUME NEW id \in Events, WarmInstant(id) PROVE WorkInv'
  <2>1. Hears("started", id) /\ UNCHANGED <<order, watching>>
    BY <1>9, InstantIs
  <2>2. PICK h \in GoRec : h = [Idle EXCEPT !.pc = "settle", !.e = Heard.e] /\ live' = [live EXCEPT ![id] = h]
    BY <1>9, InstantIs
  <2>3. Heard.e \in EventRec
    BY <2>1, HearsIs
  <2> QED BY <2>1, <2>2, <2>3, WorkUnwatched
<1>10. ASSUME NEW op, NEW id \in Events, WarmIgnores(op, id) PROVE WorkInv'
  BY <1>0, <1>10 DEF WarmIgnores
<1> QED BY <1>1, <1>2, <1>3, <1>4, <1>5, <1>6, <1>7, <1>8, <1>9, <1>10, WorkStarted, WorkTold DEF Next, Warm, Views

\* An order without repeats is as long as its set is large.
LEMMA OrderCounts ==
  ASSUME NEW s \in Seq(Events), Distinct(s)
  PROVE  Cardinality(ToSet(s)) = Len(s)
<1>1. Len(s) \in Nat /\ DOMAIN s = 1..Len(s) /\ s \in [1..Len(s) -> ToSet(s)]
  BY DEF ToSet
<1>2. s \in Injection(1..Len(s), ToSet(s))
  BY <1>1 DEF Distinct, Injection, IsInjective
<1>3. s \in Surjection(1..Len(s), ToSet(s))
  BY <1>1 DEF Surjection, ToSet
<1>4. ExistsBijection(1..Len(s), ToSet(s))
  BY <1>2, <1>3 DEF ExistsBijection, Bijection
<1> QED BY <1>1, <1>4, FS_CountingElements

\* warm.go Warm: order and watching are one set of at most warmSet events; whoever
\* follows a running event is in it, told of the end or cancelled; and one told
\* of the end is never cancelled while it seals.
THEOREM WorkingSetAlways == Spec => []WorkingSet
<1>1. Init => TypeOK /\ WorkInv
  BY TypeInit, WorkInvInit
<1>2. (TypeOK /\ WorkInv) /\ [Next]_vars => (TypeOK /\ WorkInv)'
  BY TypeStep, WorkInvStep
<1>3. TypeOK /\ WorkInv => WorkingSet
  <2>1. SUFFICES ASSUME TypeOK, WorkInv PROVE WorkingSet
    OBVIOUS
  <2>2. order \in Seq(Events) /\ Distinct(order) /\ ToSet(order) = watching /\ Len(order) <= WarmSet
    BY <2>1 DEF TypeOK, FeedOK, WorkInv
  <2>3. Cardinality(watching) = Len(order)
    BY <2>2, OrderCounts
  <2> QED BY <2>1, <2>2, <2>3 DEF WorkInv, WorkingSet
<1> QED BY <1>1, <1>2, <1>3, PTL DEF Spec

------------------------------------------------------------------------------
(***************************************************************************)
(* Settled cuts.                                                           *)
(***************************************************************************)

\* What a goroutine knows of the time: warmFinal fills once the recording is on
\* disk; a rung cuts once its boundary is trusted, which it still is when the
\* event's start has moved earlier meanwhile.
GoSettled(id, g) ==
  /\ g.pc = "final" => Settled(g.e)
  /\ g.pc = "cut" => g.e.start + Ladder[g.rung] + Grace <= now
  /\ g.pc \in {"sleep", "cut"} =>
       /\ store[id].state # "none"
       /\ Running(store[id]) => store[id].start <= g.e.start

JobsSettled(q) == \A v \in Variants : \A i \in 1..Len(q[v]) : Settled(q[v][i].e)

CutInv ==
  /\ CutSettled /\ JobsSettled(renders)
  /\ worker.pc \in {"stitch", "cut"} => Settled(worker.job.e)
  /\ \A id \in Events : GoSettled(id, live[id])

\* The first state.
LEMMA CutInvInit ==
  ASSUME Init
  PROVE  CutInv
<1>1. cuts = {} /\ worker.pc = "poll"
  BY DEF Init, Polling
<1>2. JobsSettled(renders)
  BY DEF Init, JobsSettled
<1>3. \A id \in Events : live[id].pc = "none"
  BY DEF Init, Idle
<1> QED BY <1>1, <1>2, <1>3 DEF CutInv, CutSettled, GoSettled

\* The jobs queued are of events.
LEMMA JobsOK ==
  ASSUME TypeOK, NEW v \in Variants, NEW i \in 1..Len(renders[v])
  PROVE  renders[v][i] \in Job /\ renders[v][i].e \in EventRec
<1>1. PICK q : q = renders[v]
  OBVIOUS
<1>2. q \in Seq(Job)
  BY <1>1 DEF TypeOK, RendersOK
<1>3. q[i] \in Job
  BY <1>1, <1>2
<1> QED BY <1>1, <1>3 DEF Job

\* Time only settles more.
LEMMA CutTick ==
  ASSUME TypeOK, CutInv, Tick
  PROVE  CutInv'
<1>1. /\ now' = now + 1 /\ now \in Nat /\ Margin \in Nat /\ Grace \in Nat
      /\ UNCHANGED <<world, store, live, cuts, renders, worker>>
  BY WarmerAssumption DEF Tick, stitchVars, TypeOK, StoreOK
<1>2. ASSUME NEW e \in EventRec, Settled(e) PROVE Settled(e)'
  BY <1>1, <1>2, EventFields DEF Settled
<1>3. CutSettled'
  <2>1. ASSUME NEW k \in cuts PROVE k[3] + Grace <= now'
    <3>1. k[3] \in Int /\ k[3] + Grace <= now
      BY DEF TypeOK, CutsOK, KeySet, CutInv, CutSettled
    <3> QED BY <1>1, <3>1
  <2> QED BY <1>1, <2>1 DEF CutSettled
<1>4. JobsSettled(renders)'
  <2>1. ASSUME NEW v \in Variants, NEW i \in 1..Len(renders[v])
        PROVE  renders[v][i].e \in EventRec
    BY JobsOK
  <2>2. \A v \in Variants : \A i \in 1..Len(renders[v]) : Settled(renders[v][i].e)
    BY DEF CutInv, JobsSettled
  <2>3. \A v \in Variants : \A i \in 1..Len(renders[v]) : Settled(renders[v][i].e)'
    BY <1>1, <1>2, <2>1, <2>2 DEF Settled
  <2> QED BY <1>1, <2>3 DEF JobsSettled
<1>5. (worker.pc \in {"stitch", "cut"} => Settled(worker.job.e))'
  <2>1. worker.job.e \in EventRec
    BY DEF TypeOK, RendersOK, WorkerRec, Job
  <2> QED BY <1>1, <1>2, <2>1 DEF CutInv, Settled
<1>6. ASSUME NEW id \in Events PROVE GoSettled(id, live[id])'
  <2>0. PICK g : g = live[id]
    OBVIOUS
  <2>1. g.e \in EventRec /\ g.e.start \in Nat /\ (g.pc = "cut" => Ladder[g.rung] \in Nat)
    BY <2>0, RecordsOK, GoFields, EventFields, PlaceIs
  <2>2. GoSettled(id, g)
    BY <2>0 DEF CutInv
  <2>3. g.pc = "final" => Settled(g.e)'
    BY <1>2, <2>1, <2>2 DEF GoSettled
  <2>4. g.pc = "cut" => g.e.start + Ladder[g.rung] + Grace <= now'
    BY <1>1, <2>1, <2>2 DEF GoSettled
  <2>5. live'[id] = g /\ Ladder' = Ladder /\ store' = store
    BY <1>1, <2>0 DEF Ladder
  <2> QED BY <2>2, <2>3, <2>4, <2>5 DEF GoSettled, Running, Settled
<1> QED BY <1>3, <1>4, <1>5, <1>6 DEF CutInv

\* A change of the store moves only a running event's start, and earlier.
LEMMA CutApply ==
  ASSUME TypeOK, CutInv, Apply
  PROVE  CutInv'
<1>1. PICK id \in world.events :
         \/ StartEvent(id) \/ InstantEvent(id) \/ UpdateEvent(id) \/ ForgetEvent(id)
         \/ \E end \in 1..Horizon : EndEvent(id, end)
  BY DEF Apply
<1>2. id \in Events
  BY <1>1 DEF TypeOK, StoreOK, World
<1>3. UNCHANGED <<world, now, live, cuts, renders, worker>>
  BY <1>1 DEF StartEvent, InstantEvent, UpdateEvent, ForgetEvent, EndEvent, Applied, stitchVars
<1>4. /\ \A i \in Events \ {id} : store'[i] = store[i]
      /\ \/ store[id].state = "none"
         \/ /\ store'[id].state # "none"
            /\ Running(store'[id]) => (Running(store[id]) /\ store'[id].start <= store[id].start)
  <2>0. store \in [Events -> EventRec] /\ store[id].start \in Nat
    BY <1>2, EventFields DEF TypeOK, StoreOK
  <2>1. CASE StartEvent(id) \/ InstantEvent(id)
    <3>1. \E e : Applied(id, "started", e) /\ store[id].state = "none"
      BY <1>2, <2>1, StartPuts, InstantPuts
    <3> QED BY <1>2, <2>0, <3>1 DEF Applied
  <2>2. CASE UpdateEvent(id)
    <3>1. PICK e : /\ Applied(id, "updated", e) /\ Running(store[id])
                   /\ e.state = "running" /\ e.start = store[id].start - 1
      BY <1>2, <2>2, UpdatePuts
    <3>2. store' = [store EXCEPT ![id] = e]
      BY <3>1 DEF Applied
    <3> QED BY <1>2, <2>0, <3>1, <3>2
  <2>3. CASE ForgetEvent(id)
    <3>1. PICK e : store' = [store EXCEPT ![id] = e] /\ e.state = "gone"
      BY <1>2, <2>3, ForgetPuts
    <3> QED BY <1>2, <2>0, <3>1 DEF Running
  <2>4. CASE \E end \in 1..Horizon : EndEvent(id, end)
    <3>1. PICK e : Applied(id, "ended", e) /\ e.state = "ended"
      BY <1>2, <2>4, EndPuts
    <3>2. store' = [store EXCEPT ![id] = e]
      BY <3>1 DEF Applied
    <3> QED BY <1>2, <2>0, <3>1, <3>2 DEF Running
  <2> QED BY <1>1, <2>1, <2>2, <2>3, <2>4
<1>5. ASSUME NEW i \in Events PROVE GoSettled(i, live[i])'
  <2>0. PICK g : g = live[i]
    OBVIOUS
  <2>1. GoSettled(i, g) /\ live'[i] = g /\ Ladder' = Ladder /\ now' = now
    BY <1>3, <2>0 DEF CutInv, Ladder
  <2>2. g.e.start \in Nat /\ store[i].start \in Nat /\ store'[i].start \in Nat
    <3>1. TypeOK'
      BY ApplyType
    <3> QED BY <2>0, <3>1, RecordsOK, GoFields, EventFields DEF TypeOK, StoreOK
  <2>3. g.pc \in {"sleep", "cut"} =>
          /\ store'[i].state # "none"
          /\ Running(store'[i]) => store'[i].start <= g.e.start
    BY <1>4, <2>1, <2>2 DEF GoSettled
  <2> QED BY <2>1, <2>3 DEF GoSettled, Settled, Running
<1>6. CutSettled' /\ JobsSettled(renders)' /\ (worker.pc \in {"stitch", "cut"} => Settled(worker.job.e))'
  BY <1>3 DEF CutInv, CutSettled, JobsSettled, Settled
<1> QED BY <1>5, <1>6 DEF CutInv

\* A queue's jobs stay settled when one settled is added or the first is taken.
LEMMA QueueSettled ==
  ASSUME NEW q \in Queues, NEW r \in Queues, NEW job \in Job, JobsSettled(q), Settled(job.e) \/ job = NoJob,
         \A v \in Variants : \/ r[v] = q[v]
                             \/ q[v] # <<>> /\ r[v] = Tail(q[v])
                             \/ r[v] = Append(q[v], job) /\ Settled(job.e)
  PROVE  JobsSettled(r)
<1>1. ASSUME NEW v \in Variants, NEW i \in 1..Len(r[v]) PROVE Settled(r[v][i].e)
  <2>1. PICK a : a = q[v]
    OBVIOUS
  <2>2. PICK b : b = r[v]
    OBVIOUS
  <2>3. a \in Seq(Job) /\ b \in Seq(Job) /\ Len(a) \in Nat /\ i \in 1..Len(b)
    BY <1>1, <2>1, <2>2 DEF Queues
  <2>4. \A j \in 1..Len(a) : Settled(a[j].e)
    BY <2>1 DEF JobsSettled
  <2>5. CASE b = a
    BY <2>2, <2>3, <2>4, <2>5
  <2>6. CASE a # <<>> /\ b = Tail(a)
    <3>1. i + 1 \in 1..Len(a) /\ b[i] = a[i + 1]
      BY <2>3, <2>6
    <3> QED BY <2>2, <2>4, <3>1
  <2>7. CASE b = Append(a, job) /\ Settled(job.e)
    <3>1. CASE i \in 1..Len(a)
      <4>1. b[i] = a[i]
        BY <2>3, <2>7, <3>1
      <4> QED BY <2>2, <2>4, <3>1, <4>1
    <3>2. CASE i \notin 1..Len(a)
      <4>1. i = Len(a) + 1
        BY <2>3, <2>7, <3>2
      <4>2. b[i] = job
        BY <2>3, <2>7, <4>1
      <4> QED BY <2>2, <2>7, <4>2
    <3> QED BY <3>1, <3>2
  <2> QED BY <2>1, <2>2, <2>5, <2>6, <2>7
<1> QED BY <1>1 DEF JobsSettled

\* The worker fills, and asks for, what has settled.
LEMMA CutWorker ==
  ASSUME TypeOK, CutInv, Worker
  PROVE  CutInv'
<1>0. /\ renders \in Queues /\ worker \in WorkerRec /\ worker.job \in Job
  BY DEF TypeOK, RendersOK, Queues, WorkerRec
<1>1. /\ UNCHANGED <<world, now, store, feed, loop, boot, order, watching, live, mine, viewVars>>
      /\ worker' \in WorkerRec /\ renders' \in Queues
      /\ \A v \in Variants :
           \/ renders'[v] = renders[v]
           \/ renders[v] # <<>> /\ renders'[v] = Tail(renders[v])
           \/ renders'[v] = Append(renders[v], worker.job) /\ worker.pc \in {"stitch", "cut"}
      /\ \/ worker'.pc \in {"poll", "block"}
         \/ worker'.job = worker.job /\ worker.pc \in {"stitch", "cut"}
         \/ \E v \in Variants : renders[v] # <<>> /\ worker'.job = Head(renders[v])
      /\ \/ UNCHANGED cuts
         \/ /\ worker.pc = "cut"
            /\ \E cam \in Cameras :
                 cuts' = cuts \cup {Key(cam, worker.job.e.start - Margin, worker.job.e.end + Margin)}
  BY WorkerStep DEF WorkerMoves
<1>2. worker.pc \in {"stitch", "cut"} => Settled(worker.job.e)
  BY DEF CutInv
<1>3. JobsSettled(renders)'
  <2>1. JobsSettled(renders)
    BY DEF CutInv
  <2>2. PICK r : r = renders'
    OBVIOUS
  <2>3. JobsSettled(r)
    <3>1. CASE worker.pc \in {"stitch", "cut"}
      BY <1>0, <1>1, <1>2, <2>1, <2>2, <3>1, QueueSettled
    <3>2. CASE worker.pc \notin {"stitch", "cut"}
      <4>1. NoJob \in Job
        BY DEF NoJob, Job, Absent, EventRec
      <4> QED BY <1>0, <1>1, <2>1, <2>2, <3>2, <4>1, QueueSettled
    <3> QED BY <3>1, <3>2
  <2> QED BY <1>1, <2>2, <2>3 DEF JobsSettled, Settled
<1>4. CutSettled'
  <2>1. CASE UNCHANGED cuts
    BY <1>1, <2>1 DEF CutInv, CutSettled
  <2>2. ASSUME NEW cam \in Cameras, worker.pc = "cut",
               cuts' = cuts \cup {Key(cam, worker.job.e.start - Margin, worker.job.e.end + Margin)}
        PROVE  CutSettled'
    <3>1. worker.job.e.end \in Nat /\ Margin \in Nat /\ Grace \in Nat /\ now \in Nat
      BY <1>0, EventFields, WarmerAssumption DEF Job, TypeOK, StoreOK
    <3>2. worker.job.e.end + Margin + Grace <= now
      BY <1>2, <2>2, <3>1 DEF Settled
    <3> QED BY <1>1, <2>2, <3>1, <3>2 DEF CutInv, CutSettled, Key
  <2> QED BY <1>1, <2>1, <2>2
<1>5. (worker.pc \in {"stitch", "cut"} => Settled(worker.job.e))'
  <2>1. CASE worker'.pc \in {"poll", "block"}
    BY <2>1
  <2>2. CASE worker'.job = worker.job /\ worker.pc \in {"stitch", "cut"}
    BY <1>1, <1>2, <2>2 DEF Settled
  <2>3. ASSUME NEW v \in Variants, renders[v] # <<>>, worker'.job = Head(renders[v])
        PROVE  Settled(worker.job.e)'
    <3>1. PICK q : q = renders[v]
      OBVIOUS
    <3>2. q \in Seq(Job) /\ q # <<>>
      BY <1>0, <2>3, <3>1 DEF Queues
    <3>3. 1 \in 1..Len(q) /\ Head(q) = q[1]
      BY <3>2
    <3>4. Settled(q[1].e)
      BY <3>1, <3>3 DEF CutInv, JobsSettled
    <3> QED BY <1>1, <2>3, <3>1, <3>3, <3>4 DEF Settled
  <2> QED BY <1>1, <2>1, <2>2, <2>3
<1>6. \A id \in Events : GoSettled(id, live[id])'
  BY <1>1 DEF CutInv, GoSettled, Settled, Ladder, Running
<1> QED BY <1>3, <1>4, <1>5, <1>6 DEF CutInv

\* What a viewer's request has come to is immutable: a final cut once it has
\* settled, or a trusted checkpoint.
AskedSettled == \A v \in Viewers : asked[v] # None => asked[v][3] + Grace <= now

\* What a viewer is about to ask for is.
LEMMA AskSettled ==
  ASSUME TypeOK, NEW id \in Events, NEW cam \in Cameras, Running(store[id]) \/ Settled(store[id]),
         NEW k \in ClipCut(store[id], cam, now)
  PROVE  k[3] + Grace <= now
<1>1. PICK e \in EventRec : e = store[id]
  BY RecordsOK
<1>2. e.start \in Nat /\ e.end \in Nat /\ Margin \in Nat /\ Grace \in Nat /\ now \in Nat
  BY EventFields, RecordsOK
<1>3. CASE ~Running(e)
  <2>1. k = Key(cam, e.start - Margin, e.end + Margin)
    BY <1>1, <1>3, ClipCutIs
  <2>2. e.end + Margin + Grace <= now
    BY <1>1, <1>2, <1>3 DEF Settled
  <2> QED BY <1>2, <2>1, <2>2 DEF Key
<1>4. CASE Running(e)
  <2>1. PICK i \in DOMAIN Ladder : /\ k = Key(cam, e.start - Margin, e.start + Ladder[i])
                                   /\ now - e.start >= Ladder[i] + Grace
    BY <1>1, <1>4, ClipCutIs
  <2>2. Ladder[i] \in Nat
    BY <2>1, CamerasOK
  <2> QED BY <1>2, <2>1, <2>2 DEF Key
<1> QED BY <1>3, <1>4

\* Every step keeps it: only a viewer asks, and time only settles more.
LEMMA AskedStep ==
  ASSUME TypeOK, AskedSettled, [Next]_vars
  PROVE  AskedSettled'
<1>0. now \in Nat /\ Grace \in Nat /\ world.viewers \subseteq Viewers /\ asked \in [Viewers -> KeySet \cup {None}]
  BY WarmerAssumption DEF TypeOK, StoreOK, World, AskedOK
<1>1. ASSUME UNCHANGED <<now, viewVars>> PROVE AskedSettled'
  BY <1>1 DEF AskedSettled, viewVars
<1>2. CASE UNCHANGED vars
  BY <1>1, <1>2 DEF vars, viewVars
<1>3. CASE Apply
  BY <1>1, <1>3 DEF Apply, StartEvent, InstantEvent, UpdateEvent, EndEvent, ForgetEvent, Applied
<1>4. CASE Warm
  BY <1>1, <1>4, WarmType
<1>5. CASE Worker
  BY <1>1, <1>5, WorkerStep DEF WorkerMoves
<1>6. CASE Tick
  <2>1. now' = now + 1 /\ asked' = asked
    BY <1>6 DEF Tick, viewVars
  <2>2. ASSUME NEW v \in Viewers, asked[v] # None PROVE asked[v][3] + Grace <= now'
    <3>1. asked[v] \in KeySet
      BY <1>0, <2>2
    <3>2. asked[v][3] \in Int
      BY <3>1 DEF KeySet
    <3>3. asked[v][3] + Grace <= now
      BY <2>2 DEF AskedSettled
    <3> QED BY <1>0, <2>1, <3>2, <3>3
  <2> QED BY <2>1, <2>2 DEF AskedSettled
<1>7. ASSUME NEW id \in Events, Goroutine(id) PROVE AskedSettled'
  BY <1>1, <1>7, Moves DEF Step
<1>8. ASSUME NEW id \in Events, StitchPage(id) \/ EventPage(id) PROVE AskedSettled'
  BY <1>1, <1>8 DEF StitchPage, EventPage, Look
<1>9. CASE Views
  <2>1. now' = now
    BY <1>9, ViewsKeep
  <2>2. \/ asked' = asked
        \/ \E v \in Viewers : asked' = [asked EXCEPT ![v] = None]
        \/ \E v \in Viewers, k \in KeySet : k[3] + Grace <= now /\ asked' = [asked EXCEPT ![v] = k]
    <3>1. ASSUME NEW v \in world.viewers, NEW id \in Events, NEW cam \in ToSet(EventCameras), ViewAsks(v, id, cam)
          PROVE  \E k \in KeySet : k[3] + Grace <= now /\ asked' = [asked EXCEPT ![v] = k]
      <4>1. PICK k \in ClipCut(store[id], cam, now) : asked' = [asked EXCEPT ![v] = k]
        BY <3>1 DEF ViewAsks
      <4>2. cam \in Cameras /\ (Running(store[id]) \/ Settled(store[id]))
        BY <3>1, CameraIs DEF ViewAsks
      <4>3. k[3] + Grace <= now
        BY <4>2, AskSettled
      <4>4. k \in KeySet
        BY <4>2, ClipCutIs, RecordsOK
      <4> QED BY <4>1, <4>3, <4>4
    <3>2. ASSUME NEW v \in world.viewers, ViewFills(v) PROVE asked' = [asked EXCEPT ![v] = None]
      BY <3>2 DEF ViewFills
    <3>3. ASSUME NEW key \in cuts, Shed(key) PROVE asked' = asked
      BY <3>3 DEF Shed
    <3> QED BY <1>0, <1>9, <3>1, <3>2, <3>3 DEF Views, View
  <2> QED BY <1>0, <2>1, <2>2 DEF AskedSettled
<1> QED BY <1>2, <1>3, <1>4, <1>5, <1>6, <1>7, <1>8, <1>9 DEF Next, Views

\* What a viewer fills, it had asked for; what is shed is one cut less.
LEMMA CutView ==
  ASSUME TypeOK, CutInv, AskedSettled, Views
  PROVE  CutInv'
<1>1. UNCHANGED <<world, now, store, live, renders, worker>>
  BY ViewsKeep
<1>2. world.viewers \subseteq Viewers
  BY DEF TypeOK, StoreOK, World
<1>3. cuts' \subseteq cuts \/ \E v \in Viewers : asked[v] # None /\ cuts' = cuts \cup {asked[v]}
  BY <1>2 DEF Views, View, ViewAsks, ViewFills, Shed
<1>4. CutSettled'
  BY <1>1, <1>3 DEF CutInv, CutSettled, AskedSettled
<1>5. /\ JobsSettled(renders)' /\ (worker.pc \in {"stitch", "cut"} => Settled(worker.job.e))'
      /\ \A i \in Events : GoSettled(i, live[i])'
  BY <1>1 DEF CutInv, JobsSettled, GoSettled, Settled, Ladder, Running
<1> QED BY <1>4, <1>5 DEF CutInv

\* A page asks for a render of what has settled, in a world that is not hasty.
LEMMA CutLook ==
  ASSUME TypeOK, CutInv, ~world.hasty, NEW id \in Events, NEW v \in Variants, Look(id, v)
  PROVE  CutInv'
<1>1. /\ UNCHANGED <<world, now, store, feed, loop, boot, order, watching, live, cuts, mine, worker, stitched, viewVars>>
      /\ renders' = Requested(renders, v, [id |-> id, e |-> store[id]])
      /\ Settled(store[id])
  BY Zenon DEF Look
<1>2. PICK job : job = [id |-> id, e |-> store[id]]
  OBVIOUS
<1>3. renders \in Queues /\ job \in Job /\ job.e = store[id]
  BY <1>2, RecordsOK DEF TypeOK, RendersOK, Queues, Job
<1>4. PICK r : r = renders'
  OBVIOUS
<1>5. r \in Queues /\ \A w \in Variants : r[w] = renders[w] \/ r[w] = Append(renders[w], job)
  BY <1>1, <1>2, <1>3, <1>4, RequestedIs
<1>6. JobsSettled(r)
  <2>1. Settled(job.e) /\ JobsSettled(renders)
    BY <1>1, <1>3 DEF CutInv
  <2> QED BY <1>3, <1>5, <2>1, QueueSettled
<1>7. JobsSettled(renders)'
  BY <1>1, <1>4, <1>6 DEF JobsSettled, Settled
<1> QED BY <1>1, <1>7 DEF CutInv, CutSettled, GoSettled, Settled, Ladder, Running

\* Only the place, the event and the rung of a goroutine say what it has settled.
LEMMA CutKept ==
  ASSUME TypeOK, CutInv, UNCHANGED <<world, now, store>>, NEW id \in Events, NEW g \in GoRec,
         \/ g.pc = live[id].pc /\ g.e = live[id].e /\ g.rung = live[id].rung
         \/ g.pc \in {"get", "settle", "evict", "done"},
         live'[id] = g
  PROVE  GoSettled(id, live[id])'
<1>1. GoSettled(id, live[id])
  BY DEF CutInv
<1> QED BY <1>1 DEF GoSettled, Settled, Running, Ladder

\* The Warm loop fills nothing, and starts no goroutine that is about to.
LEMMA CutWarm ==
  ASSUME TypeOK, CutInv, Warm
  PROVE  CutInv'
<1>1. UNCHANGED <<world, now, store, cuts, renders, worker>>
  BY WarmType DEF stitchVars
<1>2. /\ CutSettled' /\ JobsSettled(renders)'
      /\ (worker.pc \in {"stitch", "cut"} => Settled(worker.job.e))'
  BY <1>1 DEF CutInv, CutSettled, JobsSettled, Settled
<1>0. ASSUME NEW i \in Events, live'[i] = live[i] PROVE GoSettled(i, live[i])'
  BY <1>0, <1>1, RecordsOK, CutKept
<1>3. CASE UNCHANGED live
  BY <1>0, <1>2, <1>3 DEF CutInv
<1>4. ASSUME NEW id \in Events, NEW h \in GoRec, live' = [live EXCEPT ![id] = h],
             \/ h.pc = live[id].pc /\ h.e = live[id].e /\ h.rung = live[id].rung
             \/ h.pc = "settle"
      PROVE  CutInv'
  <2>1. live'[id] = h /\ \A i \in Events \ {id} : live'[i] = live[i]
    BY <1>4 DEF TypeOK, LiveOK
  <2>2. GoSettled(id, live[id])'
    BY <1>1, <1>4, <2>1, CutKept
  <2> QED BY <1>0, <1>2, <2>1, <2>2 DEF CutInv
<1>5. CASE BootWarm
  <2>1. PICK id \in Events, h \in GoRec :
          live' = [live EXCEPT ![id] = h] /\ h = [Idle EXCEPT !.pc = "settle", !.e = store[id]]
    BY <1>5, BootIs
  <2>2. h.pc = "settle"
    BY <2>1, SettlesIs, RecordsOK
  <2> QED BY <1>4, <2>1, <2>2
<1>6. ASSUME NEW id \in Events, WarmInstant(id) PROVE CutInv'
  <2>1. PICK h \in GoRec : h = [Idle EXCEPT !.pc = "settle", !.e = Heard.e] /\ live' = [live EXCEPT ![id] = h]
    BY <1>6, InstantIs
  <2>2. Heard.e \in EventRec
    BY <1>6, InstantIs, HearsIs
  <2>3. h.pc = "settle"
    BY <2>1, <2>2, SettlesIs
  <2> QED BY <1>4, <2>1, <2>3
<1>7. ASSUME NEW id \in Events, WarmEnded(id) PROVE CutInv'
  <2>1. PICK g : g = live[id]
    OBVIOUS
  <2>2. PICK h \in GoRec :
          /\ live' = [live EXCEPT ![id] = h]
          /\ h = Go(g.pc, g.e, g.rung, g.cam, g.prev, TRUE, g.cancelled, g.seal, g.warmed, g.failed)
    BY <1>7, <2>1, ToldIs
  <2>3. h.pc = g.pc /\ h.e = g.e /\ h.rung = g.rung
    BY <2>2 DEF Go
  <2> QED BY <1>4, <2>1, <2>2, <2>3
<1>8. ASSUME NEW id \in Events, WarmStarted(id) PROVE CutInv'
  <2>1. PICK ids : ids = Append(order, id)
    OBVIOUS
  <2>2. PICK h \in GoRec : StartedAs(id, ids, h)
    BY <1>8, <2>1, StartedIs
  <2>3. h.pc = "get"
    BY <2>2, GetsIs DEF StartedAs
  <2>4. ASSUME NEW i \in Events PROVE GoSettled(i, live[i])'
    <3>1. PICK g \in GoRec :
            /\ g = IF i = id THEN h ELSE live[i]
            /\ live'[i] = IF i \in ToSet(Overflow(ids)) THEN Abandoned(g) ELSE g
      BY <2>2 DEF StartedAs
    <3>2. PICK d : d = live'[i]
      OBVIOUS
    <3>3. d \in GoRec
      BY <1>8, <2>1, <3>2, StartedIs
    <3>4. d.pc = g.pc /\ d.e = g.e /\ d.rung = g.rung
      BY <3>1, <3>2 DEF Abandoned, Go
    <3>5. \/ d.pc = live[i].pc /\ d.e = live[i].e /\ d.rung = live[i].rung
          \/ d.pc = "get"
      BY <2>3, <3>1, <3>4
    <3> QED BY <1>1, <3>2, <3>3, <3>5, CutKept
  <2> QED BY <1>2, <2>4 DEF CutInv
<1> QED BY <1>3, <1>5, <1>6, <1>7, <1>8 DEF Warm, BootDone, WarmReturns, WarmIgnores

\* A step of a goroutine that fills nothing and asks for nothing.
LEMMA CutMoves ==
  ASSUME TypeOK, CutInv, NEW id \in Events, NEW h, Step(id, h), Goroutined(live[id], h),
         GoSettled(id, h), JobsSettled(renders'), CutSettled'
  PROVE  CutInv'
<1>1. UNCHANGED <<world, now, store, worker>>
  BY DEF Step
<1>2. live'[id] = h /\ \A i \in Events \ {id} : live'[i] = live[i]
  BY StepLiveOK
<1>3. ASSUME NEW i \in Events PROVE GoSettled(i, live[i])'
  <2>1. GoSettled(i, live'[i])
    BY <1>2 DEF CutInv
  <2> QED BY <1>1, <2>1 DEF GoSettled, Settled, Running, Ladder
<1>4. JobsSettled(renders)' /\ (worker.pc \in {"stitch", "cut"} => Settled(worker.job.e))'
  BY <1>1 DEF CutInv, JobsSettled, Settled
<1> QED BY <1>3, <1>4 DEF CutInv

\* A goroutine fills a rung's cut once its boundary is trusted, the final one once
\* the recording is on disk, and asks for a render of what it has settled.
LEMMA CutGoroutine ==
  ASSUME TypeOK, CutInv, NEW id \in Events, Goroutine(id)
  PROVE  CutInv'
<1>1. PICK g : g = live[id]
  OBVIOUS
<1>2. /\ g \in GoRec /\ g.pc \in Pcs /\ g.e \in EventRec /\ g.prev \in [Cameras -> Nat] /\ g.failed \in BOOLEAN
      /\ store[id] \in EventRec /\ Absent \in EventRec
      /\ now \in Nat /\ Margin \in Nat /\ Grace \in Nat
      /\ g.e.start \in Nat /\ g.e.end \in Nat /\ store[id].start \in Nat
  BY <1>1, RecordsOK, GoFields, EventFields
<1>3. GoSettled(id, g) /\ JobsSettled(renders) /\ CutSettled
  BY <1>1 DEF CutInv
<1>0. UNCHANGED <<cuts, now>> => CutSettled'
  BY <1>3 DEF CutSettled
<1>4. CASE LiveGets(id)
  <2>0. g.pc = "get" /\ UNCHANGED <<cuts, renders>>
    BY <1>1, <1>4, GetsTo
  <2>1. CASE Found(id) /\ Step(id, Goes(g, "sleep", store[id], g.rung, g.cam))
    <3>1. PICK h : h = Goes(g, "sleep", store[id], g.rung, g.cam)
      OBVIOUS
    <3>2. Goroutined(g, h) /\ h.pc = "sleep" /\ h.e = store[id]
      BY <1>1, <1>2, <2>0, <3>1, GoesOK
    <3>3. GoSettled(id, h)
      BY <1>2, <2>1, <3>2 DEF GoSettled, Found
    <3> QED BY <1>0, <1>1, <1>3, <2>0, <2>1, <3>1, <3>2, <3>3, CutMoves DEF Step
  <2>2. CASE Step(id, Goes(g, "done", g.e, g.rung, g.cam))
    <3>1. PICK h : h = Goes(g, "done", g.e, g.rung, g.cam)
      OBVIOUS
    <3>2. Goroutined(g, h) /\ h.pc = "done"
      BY <1>1, <1>2, <2>0, <3>1, GoesOK
    <3>3. GoSettled(id, h)
      BY <3>2 DEF GoSettled
    <3> QED BY <1>0, <1>1, <1>3, <2>0, <2>2, <3>1, <3>2, <3>3, CutMoves DEF Step
  <2> QED BY <1>1, <1>4, <2>1, <2>2, GetsTo
<1>5. CASE LiveCancelled(id)
  <2>0. g.pc = "sleep" /\ UNCHANGED <<cuts, renders>> /\ Step(id, Goes(g, "done", g.e, g.rung, g.cam))
    BY <1>1, <1>5, CancelledTo
  <2>1. PICK h : h = Goes(g, "done", g.e, g.rung, g.cam)
    OBVIOUS
  <2>2. Goroutined(g, h) /\ h.pc = "done"
    BY <1>1, <1>2, <2>0, <2>1, GoesOK
  <2>3. GoSettled(id, h)
    BY <2>2 DEF GoSettled
  <2> QED BY <1>0, <1>1, <1>3, <2>0, <2>1, <2>2, <2>3, CutMoves DEF Step
<1>6. CASE LiveEnded(id)
  <2>0. g.pc = "sleep" /\ UNCHANGED <<cuts, renders>>
    BY <1>1, <1>6, EndedTo
  <2>1. ASSUME NEW e \in EventRec, NEW pc \in {"settle", "evict"}, Step(id, Goes(g, pc, e, g.rung, g.cam))
        PROVE  CutInv'
    <3>1. PICK h : h = Goes(g, pc, e, g.rung, g.cam)
      OBVIOUS
    <3>2. Goroutined(g, h) /\ h.pc = pc
      BY <1>1, <1>2, <2>0, <3>1, GoesOK
    <3>3. GoSettled(id, h)
      BY <3>2 DEF GoSettled
    <3> QED BY <1>0, <1>1, <1>3, <2>0, <2>1, <3>1, <3>2, <3>3, CutMoves DEF Step
  <2> QED BY <1>1, <1>2, <1>6, <2>1, EndedTo
<1>7. CASE LiveTimer(id)
  <2>0. /\ g.pc = "sleep" /\ UNCHANGED <<cuts, renders>> /\ g.rung <= Len(Ladder)
        /\ now >= g.e.start + Ladder[g.rung] + Grace
    BY <1>1, <1>7, TimerTo
  <2>1. CASE Running(store[id]) /\ Step(id, Goes(g, "cut", store[id], g.rung, 1))
    <3>1. PICK h : h = Goes(g, "cut", store[id], g.rung, 1)
      OBVIOUS
    <3>2. Goroutined(g, h) /\ h.pc = "cut" /\ h.e = store[id] /\ h.rung = g.rung
      BY <1>1, <1>2, <2>0, <3>1, GoesOK
    <3>3. Ladder[g.rung] \in Nat
      <4>1. g.rung \in 1..Len(Ladder)
        BY <1>2, <2>0, CamerasOK, GoFields
      <4> QED BY <4>1, CamerasOK
    <3>4. store[id].start <= g.e.start /\ store[id].state # "none"
      BY <1>3, <2>0, <2>1 DEF GoSettled
    <3>5. store[id].start + Ladder[g.rung] + Grace <= now
      BY <1>2, <2>0, <3>3, <3>4
    <3>6. GoSettled(id, h)
      BY <1>2, <3>2, <3>4, <3>5 DEF GoSettled
    <3> QED BY <1>0, <1>1, <1>3, <2>0, <2>1, <3>1, <3>2, <3>6, CutMoves DEF Step
  <2>2. CASE Step(id, Goes(g, "done", g.e, g.rung, g.cam))
    <3>1. PICK h : h = Goes(g, "done", g.e, g.rung, g.cam)
      OBVIOUS
    <3>2. Goroutined(g, h) /\ h.pc = "done"
      BY <1>1, <1>2, <2>0, <3>1, GoesOK
    <3>3. GoSettled(id, h)
      BY <3>2 DEF GoSettled
    <3> QED BY <1>0, <1>1, <1>3, <2>0, <2>2, <3>1, <3>2, <3>3, CutMoves DEF Step
  <2> QED BY <1>1, <1>7, <2>1, <2>2, TimerTo
<1>8. CASE LiveCuts(id)
  <2>0. g.pc = "cut" /\ UNCHANGED renders /\ EventCameras[g.cam] \in Cameras /\ Ladder[g.rung] \in Nat
    BY <1>1, <1>8, CutsTo, PlaceIs
  <2>1. PICK p : p = [g.prev EXCEPT ![EventCameras[g.cam]] = g.e.start + Ladder[g.rung]]
    OBVIOUS
  <2>2. p \in [Cameras -> Nat]
    BY <1>2, <2>0, <2>1
  <2>3. /\ Step(id, Turned(g, p)) \/ Step(id, Turned(g, g.prev))
        /\ cuts' \subseteq cuts \cup {RungKey(g)}
    <3>1. \/ cuts' = (cuts \cup {RungKey(g)}) \ Superseded(g, EventCameras[g.cam]) /\ Step(id, Turned(g, p))
          \/ UNCHANGED cuts /\ Step(id, Turned(g, g.prev))
      BY <1>1, <1>8, <2>1, CutsTo, Zenon
    <3> QED BY <3>1
  <2>4. g.e.start + Ladder[g.rung] + Grace <= now
    BY <1>3, <2>0 DEF GoSettled
  <2>5. ASSUME NEW prev \in [Cameras -> Nat], Step(id, Turned(g, prev)) PROVE CutInv'
    <3>1. PICK h : h = Turned(g, prev)
      OBVIOUS
    <3>2. Goroutined(g, h) /\ h.pc \in {"cut", "sleep"} /\ h.e = g.e /\ (h.pc = "cut" => h.rung = g.rung)
      BY <1>1, <2>0, <3>1, TurnedOK
    <3>3. GoSettled(id, h)
      BY <1>3, <2>0, <2>4, <3>2 DEF GoSettled
    <3>4. now' = now
      BY <2>5 DEF Step
    <3>5. RungKey(g)[3] = g.e.start + Ladder[g.rung]
      BY DEF RungKey, Key
    <3>6. CutSettled'
      BY <1>3, <2>3, <2>4, <3>4, <3>5 DEF CutSettled
    <3> QED BY <1>1, <1>3, <2>0, <2>5, <3>1, <3>2, <3>3, <3>6, CutMoves
  <2> QED BY <1>2, <2>2, <2>3, <2>5
<1>9. CASE FinalSettles(id)
  <2>0. g.pc = "settle" /\ UNCHANGED <<cuts, renders>>
    BY <1>1, <1>9, SettlesTo
  <2>1. CASE Settled(g.e) /\ Step(id, Goes(g, "final", g.e, g.rung, 1))
    <3>1. PICK h : h = Goes(g, "final", g.e, g.rung, 1)
      OBVIOUS
    <3>2. Goroutined(g, h) /\ h.pc = "final" /\ h.e = g.e
      BY <1>1, <1>2, <2>0, <3>1, GoesOK
    <3>3. GoSettled(id, h)
      BY <2>1, <3>2 DEF GoSettled
    <3> QED BY <1>0, <1>1, <1>3, <2>0, <2>1, <3>1, <3>2, <3>3, CutMoves DEF Step
  <2>2. CASE Step(id, Goes(g, After(g), g.e, g.rung, g.cam))
    <3>0. PICK a : a = After(g)
      OBVIOUS
    <3>1. PICK h : h = Goes(g, a, g.e, g.rung, g.cam)
      OBVIOUS
    <3>2. a \in {"evict", "done"}
      BY <3>0 DEF After
    <3>3. Goroutined(g, h) /\ h.pc = a
      BY <1>1, <1>2, <2>0, <3>1, <3>2, GoesOK
    <3>4. GoSettled(id, h)
      BY <3>2, <3>3 DEF GoSettled
    <3> QED BY <1>0, <1>1, <1>3, <2>0, <2>2, <3>0, <3>1, <3>3, <3>4, CutMoves DEF Step
  <2> QED BY <1>1, <1>9, <2>1, <2>2, SettlesTo
<1>10. CASE FinalFills(id)
  <2>0. /\ g.pc = "final" /\ cuts' \subseteq cuts \cup {FinalKey(g)}
        /\ renders' = IF g.cam < Len(EventCameras) THEN renders
                      ELSE Requested(renders, "lo", FinalJob(id, g))
        /\ \E f \in BOOLEAN : Step(id, Finals(g, f))
    BY <1>1, <1>2, <1>10, FillsTo
  <2>1. Settled(g.e)
    BY <1>3, <2>0 DEF GoSettled
  <2>2. PICK f \in BOOLEAN : Step(id, Finals(g, f))
    BY <2>0
  <2>3. PICK h : h = Finals(g, f)
    OBVIOUS
  <2>8. g.pc = "final"
    BY <2>0
  <2>4. Goroutined(g, h) /\ h.pc \in {"final", "evict", "done"} /\ h.e = g.e
    <3>1. Goroutined(g, h)
      BY <1>1, <2>3, <2>8, FinalsOK
    <3>2. h.pc \in {"final", "evict", "done"}
      BY <1>1, <2>3, <2>8, FinalsOK
    <3>3. h.e = g.e
      <4>1. h = Finals(g, f) /\ g = live[id] /\ g \in GoRec
        BY <1>1, <1>2, <2>3
      <4> QED BY <4>1 DEF Finals, Go
    <3> QED BY <3>1, <3>2, <3>3
  <2>5. GoSettled(id, h)
    BY <2>1, <2>4 DEF GoSettled
  <2>6. JobsSettled(renders')
    <3>1. PICK job : job = FinalJob(id, g)
      OBVIOUS
    <3>2. renders \in Queues /\ job \in Job /\ job.e = g.e /\ "lo" \in Variants
      BY <1>2, <3>1 DEF TypeOK, RendersOK, Queues, FinalJob, Job, Variants
    <3>3. PICK r : r = Requested(renders, "lo", job)
      OBVIOUS
    <3>4. r \in Queues /\ \A v \in Variants : r[v] = renders[v] \/ r[v] = Append(renders[v], job)
      BY <3>2, <3>3, RequestedIs
    <3>5. JobsSettled(r)
      BY <1>3, <2>1, <3>2, <3>4, QueueSettled
    <3> QED BY <1>3, <2>0, <3>1, <3>3, <3>5
  <2>7. CutSettled'
    <3>1. FinalKey(g)[3] = g.e.end + Margin
      BY DEF FinalKey, Key
    <3>2. (g.e.end + Margin) + Grace <= now
      BY <1>2, <2>1 DEF Settled
    <3>3. now' = now
      BY <2>2 DEF Step
    <3> QED BY <1>3, <2>0, <3>1, <3>2, <3>3 DEF CutSettled
  <2> QED BY <1>1, <2>2, <2>3, <2>4, <2>5, <2>6, <2>7, CutMoves
<1>11. CASE EvictCheckpoints(id)
  <2>0. g.pc = "evict" /\ UNCHANGED renders /\ cuts' \subseteq cuts /\ Step(id, Goes(g, "done", g.e, g.rung, g.cam))
    BY <1>1, <1>11, EvictsTo
  <2>1. PICK h : h = Goes(g, "done", g.e, g.rung, g.cam)
    OBVIOUS
  <2>2. Goroutined(g, h) /\ h.pc = "done"
    BY <1>1, <1>2, <2>0, <2>1, GoesOK
  <2>3. GoSettled(id, h)
    BY <2>2 DEF GoSettled
  <2>4. CutSettled'
    BY <1>3, <2>0 DEF CutSettled, Step
  <2> QED BY <1>1, <1>3, <2>0, <2>1, <2>2, <2>3, <2>4, CutMoves
<1> QED BY <1>4, <1>5, <1>6, <1>7, <1>8, <1>9, <1>10, <1>11 DEF Goroutine

\* media.go, warm.go: in a world where nobody asks for a render of what has not
\* settled, no immutable cut is ever stored before Frigate has had warmGrace to
\* write the recording up to its end.
THEOREM CutAlwaysSettled == Spec => [](world.hasty \/ CutSettled)
<1>1. Init => TypeOK /\ AskedSettled /\ (world.hasty \/ CutInv)
  BY TypeInit, CutInvInit DEF Init, AskedSettled
<1>2. ASSUME TypeOK, AskedSettled, world.hasty \/ CutInv, [Next]_vars PROVE (world.hasty \/ CutInv)'
  <2>1. UNCHANGED world
    <3>1. CASE UNCHANGED vars
      BY <3>1 DEF vars
    <3>2. CASE Apply
      BY <3>2 DEF Apply, StartEvent, InstantEvent, UpdateEvent, EndEvent, ForgetEvent, Applied
    <3>3. CASE Warm
      BY <1>2, <3>3, WarmType
    <3>4. CASE Worker \/ Tick
      BY <1>2, <3>4, WorkerStep DEF WorkerMoves, Tick
    <3>5. ASSUME NEW id \in Events, Goroutine(id) PROVE UNCHANGED world
      BY <1>2, <3>5, Moves DEF Step
    <3>6. ASSUME Views \/ \E id \in Events : StitchPage(id) \/ EventPage(id) PROVE UNCHANGED world
      BY <1>2, <3>6, ViewsKeep DEF StitchPage, EventPage, Look
    <3> QED BY <1>2, <3>1, <3>2, <3>3, <3>4, <3>5, <3>6 DEF Next, Views
  <2>2. ASSUME ~world.hasty PROVE CutInv'
    <3>0. CutInv
      BY <1>2, <2>2
    <3>1. CASE UNCHANGED vars
      BY <3>0, <3>1 DEF vars, CutInv, CutSettled, JobsSettled, GoSettled, Settled, Ladder, Running
    <3>2. ASSUME NEW id \in Events, StitchPage(id) \/ EventPage(id) PROVE CutInv'
      <4>1. PICK v \in Variants : Look(id, v)
        BY <3>2 DEF StitchPage, EventPage, Variants
      <4> QED BY <1>2, <2>2, <3>0, <4>1, CutLook
    <3> QED BY <1>2, <3>0, <3>1, <3>2, CutApply, CutWarm, CutWorker, CutTick, CutGoroutine, CutView DEF Next, Views
  <2> QED BY <1>2, <2>1, <2>2
<1>3. TypeOK /\ AskedSettled /\ [Next]_vars => (TypeOK /\ AskedSettled)'
  BY TypeStep, AskedStep
<1>4. TypeOK /\ AskedSettled /\ (world.hasty \/ CutInv) /\ [Next]_vars
      => (TypeOK /\ AskedSettled /\ (world.hasty \/ CutInv))'
  BY <1>2, <1>3
<1>5. TypeOK /\ AskedSettled /\ (world.hasty \/ CutInv) => (world.hasty \/ CutSettled)
  BY DEF CutInv
<1> QED BY <1>1, <1>4, <1>5, PTL DEF Spec

------------------------------------------------------------------------------
(***************************************************************************)
(* What the seal leaves.  First, whom the store's writer tells what: an    *)
(* event starts once, so it has one goroutine, which is told of its end    *)
(* once it is over.                                                        *)
(***************************************************************************)
\* A record of an event that is running or over.
Real(r) == r.state \in {"running", "ended"}

\* What a step of the store's writer makes of an event's record.
Onward(r, n) ==
  \/ n = r
  \/ r.state = "none" /\ Real(n)
  \/ Running(r) /\ Running(n) /\ n.start <= r.start /\ (world.moves \/ n.start = r.start)
  \/ Running(r) /\ n.state = "ended" /\ n.start = r.start
  \/ r.state = "ended" /\ n.state = "gone"

\* Only an event the store has heard of has a start.
Dated(r) == IF Real(r) THEN r.start >= 1 ELSE r.start = 0

\* The store has the end of an event, or has forgotten it.
Over(id) == store[id].state \in {"ended", "gone"}

\* What a queued change m says of event id: a start comes before the goroutine,
\* an end after the store has it.
HeardOnce(id, m) ==
  m.id = id =>
    /\ store[id].state # "none"
    /\ m.op = "started" => live[id].pc = "none"
    /\ m.op = "ended" => Over(id)

\* One start of an event at most is queued.
StartedOnce(id) ==
  \A i, j \in 1..Len(feed.queue) :
    (feed.queue[i].id = id /\ feed.queue[j].id = id /\ feed.queue[i].op = "started"
     /\ feed.queue[j].op = "started") => i = j

\* What is so of one event: nothing is filled before its goroutine starts, and
\* the goroutine, the boot list and the queue know of an end once it is over.
OnceAt(id) ==
  /\ Dated(store[id])
  /\ live[id].pc # "none" => store[id].state # "none"
  /\ live[id].pc = "none" => mine[id] = {}
  /\ live[id].ended => Over(id)
  /\ \A i \in 1..Len(boot) : boot[i] = id => Over(id)
  /\ \A i \in 1..Len(feed.queue) : HeardOnce(id, feed.queue[i])
  /\ StartedOnce(id)

\* The same of every event; nothing is queued before Warm watches.
OnceInv ==
  /\ now >= 1 /\ (loop = "boot" => feed.queue = <<>>)
  /\ \A id \in Events : OnceAt(id)

\* warm.go Warm: the queue of changes and the boot list hold what they should.
LEMMA QueueOK ==
  ASSUME TypeOK
  PROVE  /\ feed.queue \in Seq(Message) /\ Len(feed.queue) \in Nat
         /\ \A i \in 1..Len(feed.queue) :
              feed.queue[i] \in Message /\ feed.queue[i].id \in Events /\ feed.queue[i].e \in EventRec
              /\ feed.queue[i].op \in {"started", "updated", "ended"}
         /\ boot \in Seq(Events) /\ Len(boot) \in Nat
<1>1. feed.queue \in Seq(Message) /\ boot \in Seq(Events)
  BY DEF TypeOK, FeedOK, FeedRec
<1>2. \A i \in 1..Len(feed.queue) : feed.queue[i] \in Message
  BY <1>1
<1> QED BY <1>1, <1>2 DEF Message

\* Init.
LEMMA OnceInit ==
  ASSUME Init
  PROVE  OnceInv
<1>1. ASSUME NEW id \in Events PROVE OnceAt(id)
  <2>1. Idle.pc = "none" /\ Idle.ended = FALSE /\ Absent.start = 0 /\ Absent.state = "none"
    BY DEF Idle, Absent
  <2>2. /\ live[id] = Idle /\ mine[id] = {} /\ feed.queue = <<>> /\ now = 1
        /\ store[id] = IF id \in ToSet(world.known)
                       THEN [state |-> "ended", start |-> 1, end |-> 1, boxes |-> TRUE]
                       ELSE Absent
    BY DEF Init
  <2>3. Dated(store[id])
    BY <2>1, <2>2 DEF Dated, Real
  <2>4. ASSUME NEW i \in 1..Len(boot), boot[i] = id PROVE Over(id)
    <3>1. world.known \in Seq(SentEvents)
      BY WarmerAssumption DEF Init, World
    <3>2. PICK n : n = Len(world.known)
      OBVIOUS
    <3>3. PICK k : k = Min({WarmSet, n})
      OBVIOUS
    <3>4. k \in 0 .. n
      <4>1. n \in Nat /\ WarmSet \in Nat
        BY <3>1, <3>2, WarmerAssumption
      <4>2. k = IF WarmSet <= n THEN WarmSet ELSE n
        <5>1. PICK d : d = IF WarmSet <= n THEN WarmSet ELSE n
          OBVIOUS
        <5>2. d \in {WarmSet, n} /\ \A y \in {WarmSet, n} : d <= y
          BY <4>1, <5>1
        <5>3. \A x \in {WarmSet, n} : (\A y \in {WarmSet, n} : x <= y) => x = d
          BY <4>1, <5>2
        <5> QED BY <3>3, <5>1, <5>2, <5>3 DEF Min
      <4> QED BY <4>1, <4>2
    <3>5. boot = SubSeq(world.known, 1, k)
      BY <3>2, <3>3 DEF Init
    <3>6. Len(boot) = k /\ boot[i] = world.known[i] /\ i \in 1 .. n
      BY <2>4, <3>1, <3>2, <3>4, <3>5
    <3>7. id \in ToSet(world.known)
      BY <2>4, <3>1, <3>2, <3>6 DEF ToSet
    <3> QED BY <2>2, <3>7 DEF Over
  <2> QED BY <2>1, <2>2, <2>3, <2>4 DEF OnceAt, HeardOnce, StartedOnce
<1> QED BY <1>1 DEF Init, OnceInv

\* Steps that leave the store, its changes and what is to be warmed alone.
LEMMA OnceKept ==
  ASSUME OnceInv, UNCHANGED <<store, feed, boot, loop>>, now' >= 1,
         \A i \in Events : /\ live'[i].ended = live[i].ended
                           /\ live'[i].pc = "none" <=> live[i].pc = "none"
                           /\ live[i].pc = "none" => mine'[i] \subseteq mine[i]
  PROVE  OnceInv'
<1>1. ASSUME NEW id \in Events PROVE OnceAt(id)'
  <2>1. OnceAt(id)
    BY DEF OnceInv
  <2>2. ASSUME NEW i \in 1..Len(feed.queue) PROVE HeardOnce(id, feed.queue[i])'
    BY <2>1 DEF OnceAt, HeardOnce, Over
  <2> QED BY <2>1, <2>2 DEF OnceAt, Over, StartedOnce
<1> QED BY <1>1 DEF OnceInv

\* A change that is applied: an event's start, an update of a running one, its end.
LEMMA OnceApplied ==
  ASSUME TypeOK, OnceInv, NEW id \in Events, NEW op \in {"started", "updated", "ended"},
         NEW e \in EventRec, Applied(id, op, e), Real(e), e.start >= 1,
         op = "ended" => e.state = "ended", op = "started" => store[id].state = "none",
         store[id].state \in {"none", "running"}
  PROVE  OnceInv'
<1>0. /\ store' = [store EXCEPT ![id] = e]
      /\ UNCHANGED <<world, now, loop, boot, order, watching, live, cuts, mine, stitchVars, viewVars>>
  BY DEF Applied
<1>1. store'[id] = e /\ \A i \in Events \ {id} : store'[i] = store[i]
  BY <1>0 DEF TypeOK, StoreOK
<1>2. PICK q : q = feed.queue
  OBVIOUS
<1>3. q \in Seq(Message) /\ Len(q) \in Nat
  BY <1>2, QueueOK
<1>4. PICK m : m = [op |-> op, id |-> id, e |-> e]
  OBVIOUS
<1>5. m \in Message /\ m.op = op /\ m.id = id
  BY <1>4 DEF Message
<1>6. PICK r : r = feed'.queue
  OBVIOUS
<1>7. r = q \/ (r = Append(q, m) /\ loop = "watch")
  BY <1>2, <1>4, <1>6, AppliedOK
<1>8. ASSUME NEW k \in 1..Len(r) PROVE (k \in 1..Len(q) /\ r[k] = q[k]) \/ (k = Len(q) + 1 /\ r[k] = m)
  BY <1>3, <1>5, <1>7, <1>8
<1>9. ASSUME NEW i \in Events PROVE OnceAt(i)'
  <2>1. OnceAt(i) /\ OnceAt(id)
    BY DEF OnceInv
  <2>2. Dated(store'[i])
    BY <1>1, <2>1 DEF OnceAt, Dated
  <2>3. store'[i].state = "none" => store[i].state = "none"
    BY <1>1 DEF Real
  <2>4. Over(i) => store'[i].state \in {"ended", "gone"}
    BY <1>1 DEF Over
  <2>5. ASSUME NEW k \in 1..Len(r) PROVE HeardOnce(i, r[k])'
    <3>1. CASE k \in 1..Len(q) /\ r[k] = q[k]
      <4>1. HeardOnce(i, q[k])
        BY <1>2, <2>1, <3>1 DEF OnceAt
      <4> QED BY <1>0, <2>3, <2>4, <3>1, <4>1 DEF HeardOnce, Over
    <3>2. CASE r[k] = m
      <4>1. CASE i # id
        BY <1>5, <3>2, <4>1 DEF HeardOnce
      <4>2. CASE i = id
        <5>1. op = "started" => live'[id].pc = "none"
          BY <1>0, <2>1 DEF OnceAt
        <5>2. op = "ended" => store'[id].state = "ended"
          BY <1>1
        <5>3. store'[id].state # "none"
          BY <1>1 DEF Real
        <5> QED BY <1>5, <3>2, <4>2, <5>1, <5>2, <5>3 DEF HeardOnce, Over
      <4> QED BY <4>1, <4>2
    <3> QED BY <1>8, <3>1, <3>2
  <2>6. ASSUME NEW k \in 1..Len(r), NEW l \in 1..Len(r), r[k].id = i, r[l].id = i,
               r[k].op = "started", r[l].op = "started"
        PROVE  k = l
    <3>1. ASSUME NEW n \in 1..Len(q), q[n].id = id, op = "started" PROVE FALSE
      <4>1. HeardOnce(id, q[n])
        BY <1>2, <2>1 DEF OnceAt
      <4> QED BY <3>1, <4>1 DEF HeardOnce
    <3>2. CASE k \in 1..Len(q) /\ r[k] = q[k] /\ l \in 1..Len(q) /\ r[l] = q[l]
      BY <1>2, <2>1, <2>6, <3>2 DEF OnceAt, StartedOnce
    <3>3. CASE k = Len(q) + 1 /\ r[k] = m /\ l \in 1..Len(q) /\ r[l] = q[l]
      BY <1>5, <2>6, <3>1, <3>3
    <3>4. CASE k \in 1..Len(q) /\ r[k] = q[k] /\ l = Len(q) + 1 /\ r[l] = m
      BY <1>5, <2>6, <3>1, <3>4
    <3> QED BY <1>8, <3>2, <3>3, <3>4
  <2>7. \A k \in 1..Len(boot') : boot'[k] = i => Over(i)'
    BY <1>0, <2>1, <2>4 DEF OnceAt, Over
  <2>8. /\ live'[i].pc # "none" => store'[i].state # "none"
        /\ live'[i].pc = "none" => mine'[i] = {}
        /\ live'[i].ended => Over(i)'
    BY <1>0, <2>1, <2>3, <2>4 DEF OnceAt, Over
  <2>9. (\A k \in 1..Len(feed.queue) : HeardOnce(i, feed.queue[k]))'
    BY <1>6, <2>5
  <2>10. StartedOnce(i)'
    BY <1>6, <2>6 DEF StartedOnce
  <2> QED BY <2>2, <2>7, <2>8, <2>9, <2>10 DEF OnceAt
<1>10. loop' = "boot" => feed'.queue = <<>>
  BY <1>0, <1>2, <1>6, <1>7 DEF OnceInv
<1> QED BY <1>0, <1>9, <1>10 DEF OnceInv

\* What the writer does to a record; its changes keep the invariant.
LEMMA ApplyOnce ==
  ASSUME TypeOK, OnceInv, Apply
  PROVE  OnceInv'
<1>1. PICK id \in world.events :
        \/ StartEvent(id) \/ InstantEvent(id) \/ UpdateEvent(id) \/ ForgetEvent(id)
        \/ \E end \in 1..Horizon : EndEvent(id, end)
  BY DEF Apply
<1>2. id \in Events
  BY <1>1 DEF TypeOK, StoreOK, World
<1>3. now \in Nat /\ now >= 1 /\ store[id] \in EventRec /\ store[id].start \in Nat /\ Dated(store[id])
  BY <1>2, RecordsOK, EventFields DEF OnceInv, OnceAt
<1>4. CASE StartEvent(id)
  <2>1. PICK e \in EventRec : Applied(id, "started", e) /\ e.state = "running" /\ e.start = now
    BY <1>2, <1>4, StartPuts
  <2> QED BY <1>2, <1>3, <1>4, <2>1, StartPuts, OnceApplied DEF Real
<1>5. CASE InstantEvent(id)
  <2>1. PICK e \in EventRec : Applied(id, "started", e) /\ e.state = "ended" /\ e.start = now
    BY <1>2, <1>5, InstantPuts
  <2> QED BY <1>2, <1>3, <1>5, <2>1, InstantPuts, OnceApplied DEF Real
<1>6. CASE UpdateEvent(id)
  <2>1. PICK e \in EventRec : Applied(id, "updated", e) /\ e.state = "running" /\ e.start = store[id].start - 1
    BY <1>2, <1>6, UpdatePuts
  <2>2. Running(store[id]) /\ store[id].start > 1
    BY <1>2, <1>6, UpdatePuts
  <2>3. e.start >= 1
    BY <1>3, <2>1, <2>2
  <2> QED BY <1>2, <2>1, <2>2, <2>3, OnceApplied DEF Real, Running
<1>7. ASSUME NEW end \in 1..Horizon, EndEvent(id, end) PROVE OnceInv'
  <2>1. PICK e \in EventRec : Applied(id, "ended", e) /\ e.state = "ended" /\ e.start = store[id].start
    BY <1>2, <1>7, EndPuts
  <2>2. Running(store[id])
    BY <1>2, <1>7, EndPuts
  <2>3. e.start >= 1
    BY <1>3, <2>1, <2>2 DEF Dated, Real, Running
  <2> QED BY <1>2, <2>1, <2>2, <2>3, OnceApplied DEF Real, Running
<1>8. CASE ForgetEvent(id)
  <2>1. /\ store[id].state = "ended"
        /\ UNCHANGED <<world, now, feed, loop, boot, order, watching, live, cuts, mine, stitchVars, viewVars>>
    BY <1>2, <1>8, ForgetPuts
  <2>2. PICK e \in EventRec : store' = [store EXCEPT ![id] = e] /\ e.state = "gone" /\ e.start = 0
    BY <1>2, <1>8, ForgetPuts
  <2>3. store'[id] = e /\ \A i \in Events \ {id} : store'[i] = store[i]
    BY <1>2, <2>2 DEF TypeOK, StoreOK
  <2>4. ASSUME NEW i \in Events PROVE OnceAt(i)'
    <3>1. OnceAt(i)
      BY DEF OnceInv
    <3>2. Dated(store'[i])
      BY <2>2, <2>3, <3>1 DEF OnceAt, Dated, Real
    <3>3. store'[i].state = "none" => store[i].state = "none"
      BY <2>2, <2>3
    <3>4. Over(i) => Over(i)'
      BY <2>2, <2>3 DEF Over
    <3>5. ASSUME NEW k \in 1..Len(feed.queue) PROVE HeardOnce(i, feed.queue[k])'
      BY <2>1, <3>1, <3>3, <3>4 DEF OnceAt, HeardOnce
    <3> QED BY <2>1, <3>1, <3>2, <3>3, <3>4, <3>5 DEF OnceAt, StartedOnce
  <2> QED BY <2>1, <2>4 DEF OnceInv
<1> QED BY <1>1, <1>4, <1>5, <1>6, <1>7, <1>8

\* A change that is heard: the rest of the queue is as before.
LEMMA OnceHears ==
  ASSUME TypeOK, OnceInv, NEW op, NEW id, Hears(op, id),
         \A i \in Events : /\ live'[i].ended => live[i].ended \/ Over(i)
                           /\ live'[i].pc = "none" => live[i].pc = "none"
                           /\ live'[i].pc # "none" => live[i].pc # "none" \/ (i = id /\ op = "started")
  PROVE  OnceInv'
<1>0. /\ loop = "watch" /\ Heard.op = op /\ Heard.id = id /\ feed'.queue = Tail(feed.queue)
      /\ UNCHANGED <<world, now, store, loop, boot, cuts, mine, stitchVars, viewVars>>
  BY HearsIs
<1>1. PICK q : q = feed.queue
  OBVIOUS
<1>2. q \in Seq(Message) /\ q # <<>> /\ Len(q) \in Nat \ {0}
  BY <1>1, HearsIs
<1>3. PICK r : r = Tail(q)
  OBVIOUS
<1>4. feed'.queue = r /\ r \in Seq(Message) /\ Len(r) = Len(q) - 1
  BY <1>0, <1>1, <1>2, <1>3
<1>5. \A k \in 1..Len(r) : r[k] = q[k + 1] /\ k + 1 \in 1..Len(q) /\ k + 1 # 1
  BY <1>2, <1>3, <1>4
<1>6. 1 \in 1..Len(q) /\ q[1].id = id /\ q[1].op = op
  BY <1>0, <1>1, <1>2 DEF Heard
<1>7. ASSUME NEW i \in Events PROVE OnceAt(i)'
  <2>1. OnceAt(i)
    BY DEF OnceInv
  <2>2. i = id /\ op = "started" => (live[i].pc = "none" /\ store[i].state # "none")
    <3>1. HeardOnce(i, q[1])
      BY <1>1, <1>6, <2>1 DEF OnceAt
    <3> QED BY <1>6, <3>1 DEF HeardOnce
  <2>3. ASSUME NEW k \in 1..Len(r), i = id, op = "started", r[k].id = i, r[k].op = "started" PROVE FALSE
    <3>1. q[k + 1].id = id /\ q[k + 1].op = "started" /\ q[1].id = id /\ q[1].op = "started"
      BY <1>5, <1>6, <2>3
    <3>2. k + 1 = 1
      BY <1>1, <1>5, <1>6, <2>1, <2>3, <3>1 DEF OnceAt, StartedOnce
    <3> QED BY <1>5, <3>2
  <2>4. ASSUME NEW k \in 1..Len(r) PROVE HeardOnce(i, r[k])'
    <3>1. HeardOnce(i, r[k])
      BY <1>1, <1>5, <2>1 DEF OnceAt
    <3>2. r[k].id = i /\ r[k].op = "started" => live'[i].pc = "none"
      BY <2>3, <3>1 DEF HeardOnce
    <3> QED BY <1>0, <3>1, <3>2 DEF HeardOnce, Over
  <2>5. ASSUME NEW k \in 1..Len(r), NEW l \in 1..Len(r), r[k].id = i, r[l].id = i,
               r[k].op = "started", r[l].op = "started"
        PROVE  k = l
    <3>1. StartedOnce(i)
      BY <1>1, <2>1 DEF OnceAt
    <3>2. PICK m, n : m = k + 1 /\ n = l + 1
      OBVIOUS
    <3>3. /\ m \in 1..Len(feed.queue) /\ n \in 1..Len(feed.queue)
          /\ feed.queue[m] = r[k] /\ feed.queue[n] = r[l]
      BY <1>1, <1>5, <3>2
    <3>4. m = n
      BY <2>5, <3>1, <3>3 DEF StartedOnce
    <3>5. k \in Nat /\ l \in Nat
      OBVIOUS
    <3> QED BY <3>2, <3>4, <3>5
  <2>6. (\A k \in 1..Len(feed.queue) : HeardOnce(i, feed.queue[k]))' /\ StartedOnce(i)'
    BY <1>4, <2>4, <2>5 DEF StartedOnce
  <2>7. /\ live'[i].pc # "none" => store'[i].state # "none"
        /\ live'[i].pc = "none" => mine'[i] = {}
        /\ live'[i].ended => Over(i)'
        /\ \A k \in 1..Len(boot') : boot'[k] = i => Over(i)'
        /\ Dated(store'[i])
    BY <1>0, <2>1, <2>2 DEF OnceAt, Over
  <2> QED BY <2>6, <2>7 DEF OnceAt
<1> QED BY <1>0, <1>7 DEF OnceInv

\* warm.go Warm: a goroutine is started once for an event, and told of its end
\* once the end is stored.
LEMMA WarmOnce ==
  ASSUME TypeOK, OnceInv, Warm
  PROVE  OnceInv'
<1>0. \A i \in Events : OnceAt(i)
  BY DEF OnceInv
<1>1. CASE BootWarm
  <2>1. PICK id \in Events, h \in GoRec :
          /\ live' = [live EXCEPT ![id] = h] /\ id = Head(boot) /\ loop = "boot"
          /\ h = [Idle EXCEPT !.pc = "settle", !.e = store[id]]
          /\ UNCHANGED <<world, now, store, feed, loop, order, watching, cuts, mine, stitchVars, viewVars>>
    BY <1>1, BootIs
  <2>2. h.pc = "settle" /\ h.ended = FALSE
    <3>1. PICK e \in EventRec : e = store[id]
      BY RecordsOK
    <3>2. h = [Idle EXCEPT !.pc = "settle", !.e = e]
      BY <2>1, <3>1
    <3> QED BY <3>2, SettlesIs
  <2>3. live'[id] = h /\ \A i \in Events \ {id} : live'[i] = live[i]
    BY <2>1 DEF TypeOK, LiveOK
  <2>4. boot \in Seq(Events) /\ boot # <<>> /\ boot' = Tail(boot)
    BY <1>1, QueueOK DEF BootWarm
  <2>5. \A k \in 1..Len(boot') : boot'[k] = boot[k + 1] /\ k + 1 \in 1..Len(boot)
    BY <2>4
  <2>6. boot[1] = id /\ 1 \in 1..Len(boot)
    BY <2>1, <2>4
  <2>7. store[id].state # "none"
    BY <1>0, <2>6 DEF OnceAt, Over
  <2>8. feed.queue = <<>> /\ Len(feed.queue) = 0
    BY <2>1 DEF OnceInv
  <2>9. ASSUME NEW i \in Events PROVE OnceAt(i)'
    <3>1. OnceAt(i)
      BY <1>0
    <3>2. \A k \in 1..Len(boot') : boot'[k] = i => Over(i)'
      BY <2>1, <2>5, <3>1 DEF OnceAt, Over
    <3>3. /\ live'[i].pc # "none" => store'[i].state # "none"
          /\ live'[i].pc = "none" => mine'[i] = {}
          /\ live'[i].ended => Over(i)'
      BY <2>1, <2>2, <2>3, <2>7, <3>1 DEF OnceAt, Over
    <3>4. (\A k \in 1..Len(feed.queue) : HeardOnce(i, feed.queue[k]))' /\ StartedOnce(i)'
      BY <2>1, <2>8 DEF StartedOnce
    <3> QED BY <2>1, <3>1, <3>2, <3>3, <3>4 DEF OnceAt
  <2> QED BY <2>1, <2>9 DEF OnceInv
<1>2. CASE BootDone \/ WarmReturns
  <2>1. /\ UNCHANGED <<store, feed, boot, live, mine, now>> /\ loop' \in {"watch", "returned"}
    BY <1>2 DEF BootDone, WarmReturns
  <2>2. ASSUME NEW i \in Events PROVE OnceAt(i)'
    BY <1>0, <2>1 DEF OnceAt, HeardOnce, StartedOnce, Over
  <2> QED BY <2>1, <2>2 DEF OnceInv
<1>3. ASSUME NEW op, NEW id, WarmIgnores(op, id) PROVE OnceInv'
  <2>1. Hears(op, id) /\ live' = live
    BY <1>3 DEF WarmIgnores
  <2> QED BY <2>1, OnceHears
<1>4. ASSUME NEW id \in Events, NEW op, Hears(op, id), NEW h \in GoRec, live' = [live EXCEPT ![id] = h],
             h.pc = "none" => live[id].pc = "none",
             live[id].pc = "none" => (op = "started" \/ h.pc = "none"),
             h.ended => live[id].ended \/ Over(id)
      PROVE  OnceInv'
  <2>1. live'[id] = h /\ \A i \in Events \ {id} : live'[i] = live[i]
    BY <1>4 DEF TypeOK, LiveOK
  <2> QED BY <1>4, <2>1, OnceHears
<1>5. ASSUME NEW id \in Events, WarmInstant(id) PROVE OnceInv'
  <2>1. PICK h \in GoRec : h = [Idle EXCEPT !.pc = "settle", !.e = Heard.e] /\ live' = [live EXCEPT ![id] = h]
    BY <1>5, InstantIs
  <2>2. Hears("started", id) /\ Heard.e \in EventRec
    BY <1>5, InstantIs, HearsIs
  <2>3. h.pc = "settle" /\ h.ended = FALSE
    BY <2>1, <2>2, SettlesIs
  <2> QED BY <1>4, <2>1, <2>2, <2>3
<1>6. ASSUME NEW id \in Events, WarmEnded(id) PROVE OnceInv'
  <2>1. PICK g : g = live[id]
    OBVIOUS
  <2>2. PICK h \in GoRec :
          /\ live' = [live EXCEPT ![id] = h]
          /\ h = Go(g.pc, g.e, g.rung, g.cam, g.prev, TRUE, g.cancelled, g.seal, g.warmed, g.failed)
    BY <1>6, <2>1, ToldIs
  <2>3. h.pc = g.pc
    BY <2>2 DEF Go
  <2>4. Hears("ended", id)
    BY <1>6, ToldIs
  <2>5. Over(id)
    <3>1. /\ Heard.op = "ended" /\ Heard.id = id /\ feed.queue # <<>> /\ feed.queue \in Seq(Message)
      BY <2>4, HearsIs
    <3>2. 1 \in 1..Len(feed.queue) /\ feed.queue[1] = Heard
      BY <3>1 DEF Heard
    <3> QED BY <1>0, <3>1, <3>2 DEF OnceAt, HeardOnce
  <2> QED BY <1>4, <2>1, <2>2, <2>3, <2>4, <2>5
<1>7. ASSUME NEW id \in Events, WarmStarted(id) PROVE OnceInv'
  <2>1. PICK ids : ids = Append(order, id)
    OBVIOUS
  <2>2. PICK h \in GoRec : StartedAs(id, ids, h)
    BY <1>7, <2>1, StartedIs
  <2>3. h.pc = "get" /\ h.ended = FALSE
    BY <2>2, GetsIs DEF StartedAs
  <2>4. ASSUME NEW i \in Events
        PROVE  /\ live'[i].ended => live[i].ended
               /\ live'[i].pc = "none" => live[i].pc = "none"
               /\ live'[i].pc # "none" => live[i].pc # "none" \/ i = id
    <3>1. PICK g \in GoRec :
            /\ g = IF i = id THEN h ELSE live[i]
            /\ live'[i] = IF i \in ToSet(Overflow(ids)) THEN Abandoned(g) ELSE g
      BY <2>2 DEF StartedAs
    <3>2. live'[i].pc = g.pc /\ live'[i].ended = g.ended
      BY <3>1 DEF Abandoned, Go
    <3> QED BY <2>3, <3>1, <3>2
  <2>5. Hears("started", id)
    BY <1>7, <2>1, StartedIs
  <2> QED BY <2>4, <2>5, OnceHears
<1> QED BY <1>1, <1>2, <1>3, <1>5, <1>6, <1>7 DEF Warm

\* A goroutine fills under its own name.
LEMMA FillsOwn ==
  ASSUME TypeOK, NEW id \in Events, Goroutine(id)
  PROVE  \A i \in Events \ {id} : mine'[i] = mine[i]
<1>0. PICK g : g = live[id]
  OBVIOUS
<1>1. ASSUME NEW m, mine' = [mine EXCEPT ![id] = m] PROVE \A i \in Events \ {id} : mine'[i] = mine[i]
  BY <1>1 DEF TypeOK, CutsOK
<1>2. CASE LiveCuts(id)
  <2>1. UNCHANGED mine \/ mine' = [mine EXCEPT ![id] = mine[id] \cup {RungKey(g)}]
    BY <1>0, <1>2, CutsTo, Zenon
  <2> QED BY <1>1, <2>1
<1>3. CASE FinalFills(id)
  <2>1. UNCHANGED mine \/ mine' = [mine EXCEPT ![id] = mine[id] \cup {FinalKey(g)}]
    BY <1>0, <1>3, FillsTo, Zenon
  <2> QED BY <1>1, <2>1
<1>4. CASE ~LiveCuts(id) /\ ~FinalFills(id)
  BY <1>4 DEF Goroutine, LiveGets, LiveCancelled, LiveEnded, LiveTimer, FinalSettles, EvictCheckpoints
<1> QED BY <1>2, <1>3, <1>4

\* No step starts an event a second time or ends it early.
LEMMA OnceStep ==
  ASSUME TypeOK, OnceInv, [Next]_vars
  PROVE  OnceInv'
<1>0. now \in Nat /\ now >= 1
  BY DEF OnceInv, TypeOK, StoreOK
<1>1. CASE UNCHANGED vars
  BY <1>0, <1>1, OnceKept DEF vars
<1>2. CASE Tick
  <2>1. now' >= 1
    BY <1>0, <1>2 DEF Tick
  <2> QED BY <1>2, <2>1, OnceKept DEF Tick
<1>3. CASE Worker
  BY <1>0, <1>3, WorkerStep, OnceKept DEF WorkerMoves
<1>4. ASSUME NEW id \in Events, Goroutine(id) PROVE OnceInv'
  <2>1. PICK h : Step(id, h) /\ Goroutined(live[id], h)
    BY <1>4, Moves
  <2>2. live'[id] = h /\ \A i \in Events \ {id} : live'[i] = live[i]
    BY <2>1, StepLiveOK
  <2>3. \A i \in Events \ {id} : mine'[i] = mine[i]
    BY <1>4, FillsOwn
  <2>4. live[id].pc # "none" /\ h.pc # "none" /\ h.ended = live[id].ended
    BY <2>1 DEF Goroutined
  <2>5. UNCHANGED <<store, feed, boot, loop, now>>
    BY <2>1 DEF Step
  <2> QED BY <1>0, <2>2, <2>3, <2>4, <2>5, OnceKept
<1>5. ASSUME Views \/ \E id \in Events : StitchPage(id) \/ EventPage(id) PROVE OnceInv'
  <2>1. UNCHANGED <<store, feed, boot, loop, now, live>> /\ \A id \in Events : mine'[id] \subseteq mine[id]
    BY <1>5, ViewsKeep DEF StitchPage, EventPage, Look
  <2> QED BY <1>0, <2>1, OnceKept
<1> QED BY <1>1, <1>2, <1>3, <1>4, <1>5, ApplyOnce, WarmOnce DEF Next, Views

------------------------------------------------------------------------------
(***************************************************************************)
(* The copies of a record: a goroutine's, a change's, a job's.             *)
(***************************************************************************)
\* A job of the stitch worker, queued or at work.
JobOf(job) ==
  \/ \E v \in Variants : \E i \in 1..Len(renders[v]) : job = renders[v][i]
  \/ worker.pc \in {"stitch", "cut"} /\ job = worker.job

\* r is a copy of event id's record in the goroutine, a queued change or a job.
Held(id, r) ==
  \/ live[id].pc \notin {"none", "get"} /\ r = live[id].e
  \/ \E i \in 1..Len(feed.queue) : feed.queue[i].id = id /\ r = feed.queue[i].e
  \/ \E job \in Job : JobOf(job) /\ job.id = id /\ r = job.e

\* A copy is as the store has the event, or as it had it.
Sound(id, r) ==
  /\ Dated(r) /\ store[id].state # "none"
  /\ Real(r) => \/ store[id].state = "gone"
                \/ store[id].start <= r.start /\ (world.moves \/ store[id].start = r.start)
  /\ r.state = "ended" => store[id].state = "gone" \/ store[id] = r
  /\ ~Real(r) => store[id].state = "gone"

\* Every copy is sound, and two copies of an ended event are the same.
HeldInv ==
  /\ \A id \in Events : \A r \in EventRec : Held(id, r) => Sound(id, r)
  /\ \A id \in Events : \A r, s \in EventRec :
       Held(id, r) /\ Held(id, s) /\ r.state = "ended" /\ s.state = "ended" => r = s

\* Nobody makes a final cut of what is running, and jobs are about events.
ClosedInv ==
  /\ \A id \in Events : /\ live[id].pc \in {"settle", "final"} => ~Running(live[id].e)
                        /\ live[id].pc = "get" => live[id].e = Absent
  /\ \A job \in Job : JobOf(job) => ~Running(job.e) /\ job.id \in Events

\* The world is given and the clock does not run back.
LEMMA WorldTo ==
  ASSUME TypeOK, [Next]_vars
  PROVE  world' = world /\ now' \in Nat /\ now' >= now
<1>0. now \in Nat
  BY DEF TypeOK, StoreOK
<1>1. CASE UNCHANGED vars
  BY <1>0, <1>1 DEF vars
<1>2. CASE Apply
  <2>1. UNCHANGED <<world, now>>
    BY <1>2 DEF Apply, StartEvent, InstantEvent, UpdateEvent, EndEvent, ForgetEvent, Applied
  <2> QED BY <1>0, <2>1
<1>3. CASE Warm
  BY <1>0, <1>3, WarmType
<1>4. CASE Worker
  BY <1>0, <1>4, WorkerStep DEF WorkerMoves
<1>5. CASE Tick
  BY <1>0, <1>5 DEF Tick
<1>6. ASSUME NEW id \in Events, Goroutine(id) PROVE UNCHANGED <<world, now>>
  BY <1>6, Moves DEF Step
<1>7. ASSUME Views \/ \E id \in Events : StitchPage(id) \/ EventPage(id) PROVE UNCHANGED <<world, now>>
  BY <1>7, ViewsKeep DEF StitchPage, EventPage, Look
<1> QED BY <1>0, <1>1, <1>2, <1>3, <1>4, <1>5, <1>6, <1>7 DEF Next, Views

\* What the writer's step does to one record, and what it says of it.
ApplyParts(id) ==
  /\ Onward(store[id], store'[id])
  /\ UNCHANGED <<world, now, live, cuts, mine, renders, worker>>
  /\ \/ feed'.queue = feed.queue
     \/ \E op \in {"started", "updated", "ended"}, j \in Events :
          /\ feed'.queue = Append(feed.queue, [op |-> op, id |-> j, e |-> store'[j]])
          /\ Real(store'[j])

\* The store's writer: one event's record goes onward and what is queued is the
\* record as it now is.
LEMMA ApplyTo ==
  ASSUME TypeOK, NEW id \in Events, Apply
  PROVE  ApplyParts(id)
<1>1. PICK j \in world.events :
        \/ StartEvent(j) \/ InstantEvent(j) \/ UpdateEvent(j) \/ ForgetEvent(j)
        \/ \E end \in 1..Horizon : EndEvent(j, end)
  BY DEF Apply
<1>2. j \in Events
  BY <1>1 DEF TypeOK, StoreOK, World
<1>3. store[j] \in EventRec /\ store[j].start \in Nat
  BY <1>2, RecordsOK, EventFields
<1>4. ASSUME NEW op \in {"started", "updated", "ended"}, NEW e \in EventRec, Applied(j, op, e),
             Real(e), Onward(store[j], e)
      PROVE  ApplyParts(id)
  <2>1. /\ store' = [store EXCEPT ![j] = e]
        /\ UNCHANGED <<world, now, loop, boot, order, watching, live, cuts, mine, stitchVars, viewVars>>
        /\ \/ feed'.queue = feed.queue
           \/ feed'.queue = Append(feed.queue, [op |-> op, id |-> j, e |-> e])
    BY <1>2, <1>4, AppliedOK
  <2>2. store'[j] = e /\ \A i \in Events \ {j} : store'[i] = store[i]
    BY <1>2, <2>1 DEF TypeOK, StoreOK
  <2>3. Onward(store[id], store'[id])
    BY <1>4, <2>2 DEF Onward
  <2>4. UNCHANGED <<world, now, live, cuts, mine, renders, worker>>
    BY <2>1 DEF stitchVars
  <2>5. \/ feed'.queue = feed.queue
        \/ feed'.queue = Append(feed.queue, [op |-> op, id |-> j, e |-> store'[j]]) /\ Real(store'[j])
    BY <1>4, <2>1, <2>2
  <2> QED BY <1>2, <2>3, <2>4, <2>5 DEF ApplyParts
<1>5. CASE StartEvent(j)
  <2>1. PICK e \in EventRec : Applied(j, "started", e) /\ e.state = "running"
    BY <1>2, <1>5, StartPuts
  <2>2. store[j].state = "none"
    BY <1>2, <1>5, StartPuts
  <2> QED BY <1>4, <2>1, <2>2 DEF Onward, Real
<1>6. CASE InstantEvent(j)
  <2>1. PICK e \in EventRec : Applied(j, "started", e) /\ e.state = "ended"
    BY <1>2, <1>6, InstantPuts
  <2>2. store[j].state = "none"
    BY <1>2, <1>6, InstantPuts
  <2> QED BY <1>4, <2>1, <2>2 DEF Onward, Real
<1>7. CASE UpdateEvent(j)
  <2>1. PICK e \in EventRec : Applied(j, "updated", e) /\ e.state = "running" /\ e.start = store[j].start - 1
    BY <1>2, <1>7, UpdatePuts
  <2>2. Running(store[j]) /\ world.moves
    BY <1>2, <1>7, UpdatePuts
  <2>3. e.start <= store[j].start
    BY <1>3, <2>1
  <2> QED BY <1>4, <2>1, <2>2, <2>3 DEF Onward, Real, Running
<1>8. ASSUME NEW end \in 1..Horizon, EndEvent(j, end) PROVE ApplyParts(id)
  <2>1. PICK e \in EventRec : Applied(j, "ended", e) /\ e.state = "ended" /\ e.start = store[j].start
    BY <1>2, <1>8, EndPuts
  <2>2. Running(store[j])
    BY <1>2, <1>8, EndPuts
  <2> QED BY <1>4, <2>1, <2>2 DEF Onward, Real
<1>9. CASE ForgetEvent(j)
  <2>1. /\ store[j].state = "ended"
        /\ UNCHANGED <<world, now, feed, live, cuts, mine, renders, worker>>
    BY <1>2, <1>9, ForgetPuts DEF stitchVars
  <2>2. PICK e \in EventRec : store' = [store EXCEPT ![j] = e] /\ e.state = "gone"
    BY <1>2, <1>9, ForgetPuts
  <2>3. store'[j] = e /\ \A i \in Events \ {j} : store'[i] = store[i]
    BY <1>2, <2>2 DEF TypeOK, StoreOK
  <2>4. Onward(store[id], store'[id])
    BY <2>1, <2>2, <2>3 DEF Onward
  <2> QED BY <2>1, <2>4 DEF ApplyParts
<1> QED BY <1>1, <1>5, <1>6, <1>7, <1>8, <1>9

\* Every other step leaves the store alone, and adds nothing to the queue.
LEMMA StoreStays ==
  ASSUME TypeOK, [Next]_vars, ~Apply
  PROVE  /\ store' = store
         /\ feed'.queue = feed.queue \/ (feed.queue # <<>> /\ feed'.queue = Tail(feed.queue) /\ UNCHANGED <<renders, worker>>)
<1>1. CASE UNCHANGED vars
  BY <1>1 DEF vars
<1>3. CASE Warm
  <2>1. store' = store /\ UNCHANGED <<renders, worker>>
    BY <1>3, WarmType DEF stitchVars
  <2>2. ASSUME NEW op, NEW id, Hears(op, id) PROVE feed.queue # <<>> /\ feed'.queue = Tail(feed.queue)
    BY <2>2, HearsIs
  <2>3. CASE BootWarm \/ BootDone \/ WarmReturns
    BY <2>1, <2>3 DEF BootWarm, BootDone, WarmReturns
  <2> QED BY <1>3, <2>1, <2>2, <2>3 DEF Warm, WarmStarted, WarmInstant, WarmEnded, WarmIgnores
<1>4. CASE Worker
  BY <1>4, WorkerStep DEF WorkerMoves
<1>5. CASE Tick
  BY <1>5 DEF Tick
<1>6. ASSUME NEW id \in Events, Goroutine(id) PROVE UNCHANGED <<store, feed>>
  BY <1>6, Moves DEF Step
<1>7. ASSUME Views \/ \E id \in Events : StitchPage(id) \/ EventPage(id) PROVE UNCHANGED <<store, feed>>
  BY <1>7, ViewsKeep DEF StitchPage, EventPage, Look
<1> QED BY <1>1, <1>3, <1>4, <1>5, <1>6, <1>7 DEF Next, Views

\* Only the store's writer changes a record, and only onward.
LEMMA StoreTo ==
  ASSUME TypeOK, [Next]_vars, NEW id \in Events
  PROVE  Onward(store[id], store'[id])
<1>1. CASE Apply
  BY <1>1, ApplyTo DEF ApplyParts
<1>2. CASE ~Apply
  BY <1>2, StoreStays DEF Onward
<1> QED BY <1>1, <1>2

\* A goroutine's copy is the one it had, the store's, or that of the change it is started by.
LiveTo(id, g, h) ==
  \/ /\ h.e = g.e /\ (h.pc \notin {"none", "get"} => g.pc \notin {"none", "get"})
     /\ h.pc \in {"settle", "final"} => g.pc \in {"settle", "final"}
     /\ h.pc = "get" => g.pc = "get"
  \/ h.pc = "get" /\ h.e = Absent
  \/ g.pc = "get" /\ h.pc = "done" /\ h.e = g.e /\ store[id].state = "gone"
  \/ /\ h.pc # "get" /\ h.e = store[id] /\ store[id].state # "none" /\ store' = store
     /\ h.pc \in {"settle", "final"} => ~Running(h.e)
  \/ h.pc = "evict" /\ h.e = Absent /\ store[id].state = "gone"
  \/ /\ h.pc = "settle" /\ feed.queue # <<>> /\ feed.queue[1].id = id
     /\ h.e = feed.queue[1].e /\ ~Running(h.e)

\* warm.go warmLive: where a step of the goroutine has its record from.
LEMMA GoroutineTo ==
  ASSUME TypeOK, OnceInv, NEW id \in Events, Goroutine(id)
  PROVE  LiveTo(id, live[id], live'[id])
<1>1. PICK g : g = live[id]
  OBVIOUS
<1>2. /\ g \in GoRec /\ g.e \in EventRec /\ store[id] \in EventRec /\ Absent \in EventRec
      /\ g.prev \in [Cameras -> Nat] /\ g.failed \in BOOLEAN /\ g.pc \in Pcs
  BY <1>1, RecordsOK, GoFields
<1>3. OnceAt(id) /\ store[id].state \in {"none", "running", "ended", "gone"}
  BY <1>2, EventFields DEF OnceInv
<1>4. PICK h : Step(id, h) /\ Goroutined(g, h)
  BY <1>1, Moves
<1>5. live'[id] = h /\ store' = store
  BY <1>1, <1>4, StepLiveOK DEF Step
<1>6. h.pc # "none" /\ g.pc # "none" /\ store[id].state # "none"
  BY <1>1, <1>3, <1>4 DEF Goroutined, OnceAt
<1>0. ASSUME NEW pc, NEW e, NEW cam, Step(id, Goes(g, pc, e, g.rung, cam))
      PROVE  h = Goes(g, pc, e, g.rung, cam)
  <2>1. live'[id] = Goes(g, pc, e, g.rung, cam)
    BY <1>0 DEF Step, TypeOK, LiveOK
  <2> QED BY <1>5, <2>1
<1>7. CASE LiveGets(id)
  <2>0. g.pc = "get"
    BY <1>1, <1>7, GetsTo
  <2>1. CASE Found(id) /\ Step(id, Goes(g, "sleep", store[id], g.rung, g.cam))
    <3>1. h.pc = "sleep" /\ h.e = store[id]
      BY <1>0, <2>1 DEF Goes, Go
    <3> QED BY <1>1, <1>5, <1>6, <3>1 DEF LiveTo
  <2>2. CASE ~Found(id) /\ Step(id, Goes(g, "done", g.e, g.rung, g.cam))
    <3>1. h.pc = "done" /\ h.e = g.e
      BY <1>0, <2>2 DEF Goes, Go
    <3>2. store[id].state = "gone"
      BY <1>3, <1>6, <2>2 DEF Found
    <3> QED BY <1>1, <1>5, <2>0, <3>1, <3>2 DEF LiveTo
  <2> QED BY <1>1, <1>7, <2>1, <2>2, GetsTo
<1>8. CASE LiveCancelled(id)
  <2>1. g.pc = "sleep" /\ Step(id, Goes(g, "done", g.e, g.rung, g.cam))
    BY <1>1, <1>8, CancelledTo
  <2>2. h.pc = "done" /\ h.e = g.e
    BY <1>0, <2>1 DEF Goes, Go
  <2> QED BY <1>1, <1>5, <2>1, <2>2 DEF LiveTo
<1>9. CASE LiveEnded(id)
  <2>0. g.ended
    BY <1>1, <1>9, EndedTo
  <2>1. Over(id)
    BY <1>1, <1>3, <2>0 DEF OnceAt
  <2>2. CASE Found(id) /\ Step(id, Goes(g, "settle", store[id], g.rung, g.cam))
    <3>1. h.pc = "settle" /\ h.e = store[id]
      BY <1>0, <2>2 DEF Goes, Go
    <3> QED BY <1>1, <1>5, <1>6, <2>1, <3>1 DEF LiveTo, Over, Running
  <2>3. CASE ~Found(id) /\ Step(id, Goes(g, "evict", Absent, g.rung, g.cam))
    <3>1. h.pc = "evict" /\ h.e = Absent
      BY <1>0, <2>3 DEF Goes, Go
    <3>2. store[id].state = "gone"
      BY <1>3, <1>6, <2>3 DEF Found
    <3> QED BY <1>1, <1>5, <3>1, <3>2 DEF LiveTo
  <2> QED BY <1>1, <1>9, <2>2, <2>3, EndedTo
<1>10. CASE LiveTimer(id)
  <2>0. g.pc = "sleep"
    BY <1>1, <1>10, TimerTo
  <2>1. CASE Running(store[id]) /\ Step(id, Goes(g, "cut", store[id], g.rung, 1))
    <3>1. h.pc = "cut" /\ h.e = store[id]
      BY <1>0, <2>1 DEF Goes, Go
    <3> QED BY <1>1, <1>5, <1>6, <3>1 DEF LiveTo
  <2>2. CASE Step(id, Goes(g, "done", g.e, g.rung, g.cam))
    <3>1. h.pc = "done" /\ h.e = g.e
      BY <1>0, <2>2 DEF Goes, Go
    <3> QED BY <1>1, <1>5, <2>0, <3>1 DEF LiveTo
  <2> QED BY <1>1, <1>10, <2>1, <2>2, TimerTo
<1>11. CASE LiveCuts(id)
  <2>0. g.pc = "cut" /\ EventCameras[g.cam] \in Cameras /\ Ladder[g.rung] \in Nat
    BY <1>1, <1>11, CutsTo, PlaceIs
  <2>1. PICK p : p = [g.prev EXCEPT ![EventCameras[g.cam]] = g.e.start + Ladder[g.rung]]
    OBVIOUS
  <2>2. Step(id, Turned(g, p)) \/ Step(id, Turned(g, g.prev))
    BY <1>1, <1>11, <2>1, CutsTo, Zenon
  <2>3. p \in [Cameras -> Nat]
    BY <1>2, <2>0, <2>1, EventFields
  <2>4. ASSUME NEW prev \in [Cameras -> Nat], Step(id, Turned(g, prev)) PROVE LiveTo(id, live[id], live'[id])
    <3>1. PICK d : d = Turned(g, prev)
      OBVIOUS
    <3>2. d.pc \in {"cut", "sleep"} /\ d.e = g.e
      BY <1>1, <2>0, <3>1, TurnedOK
    <3>3. live'[id] = d
      BY <2>4, <3>1 DEF Step, TypeOK, LiveOK
    <3> QED BY <1>1, <2>0, <3>2, <3>3 DEF LiveTo
  <2> QED BY <1>2, <2>2, <2>3, <2>4
<1>12. CASE FinalSettles(id)
  <2>0. g.pc = "settle"
    BY <1>1, <1>12, SettlesTo
  <2>1. CASE Step(id, Goes(g, "final", g.e, g.rung, 1))
    <3>1. h.pc = "final" /\ h.e = g.e
      BY <1>0, <2>1 DEF Goes, Go
    <3> QED BY <1>1, <1>5, <2>0, <3>1 DEF LiveTo
  <2>2. CASE Step(id, Goes(g, After(g), g.e, g.rung, g.cam))
    <3>1. h.pc = After(g) /\ h.e = g.e
      BY <1>0, <2>2 DEF Goes, Go
    <3> QED BY <1>1, <1>5, <2>0, <3>1 DEF LiveTo, After
  <2> QED BY <1>1, <1>12, <2>1, <2>2, SettlesTo
<1>13. CASE FinalFills(id)
  <2>0. g.pc = "final"
    BY <1>1, <1>13, FillsTo
  <2>1. PICK f \in BOOLEAN : Step(id, Finals(g, f))
    BY <1>1, <1>2, <1>13, FillsTo
  <2>2. PICK d : d = Finals(g, f)
    OBVIOUS
  <2>3. d.pc \in {"final", "evict", "done"} /\ d.e = g.e
    <3>1. d.pc \in {"final", "evict", "done"}
      BY <1>1, <2>0, <2>2, FinalsOK
    <3>2. d.e = g.e
      BY <2>2 DEF Finals, Go
    <3> QED BY <3>1, <3>2
  <2>4. live'[id] = d
    BY <2>1, <2>2 DEF Step, TypeOK, LiveOK
  <2> QED BY <1>1, <2>0, <2>3, <2>4 DEF LiveTo
<1>14. CASE EvictCheckpoints(id)
  <2>1. g.pc = "evict" /\ Step(id, Goes(g, "done", g.e, g.rung, g.cam))
    BY <1>1, <1>14, EvictsTo
  <2>2. h.pc = "done" /\ h.e = g.e
    BY <1>0, <2>1 DEF Goes, Go
  <2> QED BY <1>1, <1>5, <2>1, <2>2 DEF LiveTo
<1> QED BY <1>7, <1>8, <1>9, <1>10, <1>11, <1>12, <1>13, <1>14 DEF Goroutine

\* The same of every step: no one else gives a goroutine its record.
LEMMA CopyTo ==
  ASSUME TypeOK, OnceInv, [Next]_vars, NEW id \in Events
  PROVE  LiveTo(id, live[id], live'[id])
<1>0. ASSUME live'[id] = live[id] PROVE LiveTo(id, live[id], live'[id])
  BY <1>0 DEF LiveTo
<1>1. CASE UNCHANGED vars
  BY <1>0, <1>1 DEF vars
<1>2. CASE Apply
  BY <1>0, <1>2, ApplyTo DEF ApplyParts
<1>3. CASE Worker \/ Tick
  BY <1>0, <1>3, WorkerStep DEF WorkerMoves, Tick
<1>4. ASSUME NEW j \in Events, Goroutine(j) PROVE LiveTo(id, live[id], live'[id])
  <2>1. CASE j = id
    BY <1>4, <2>1, GoroutineTo
  <2>2. CASE j # id
    <3>1. PICK h : Step(j, h) /\ Goroutined(live[j], h)
      BY <1>4, Moves
    <3>2. live'[id] = live[id]
      BY <2>2, <3>1, StepLiveOK
    <3> QED BY <1>0, <3>2
  <2> QED BY <2>1, <2>2
<1>5. ASSUME Views \/ \E j \in Events : StitchPage(j) \/ EventPage(j) PROVE LiveTo(id, live[id], live'[id])
  BY <1>0, <1>5, ViewsKeep DEF StitchPage, EventPage, Look
<1>6. ASSUME NEW j \in Events, NEW h \in GoRec, live' = [live EXCEPT ![j] = h]
      PROVE  live'[j] = h /\ (j # id => live'[id] = live[id])
  BY <1>6 DEF TypeOK, LiveOK
<1>7. CASE BootWarm
  <2>1. PICK j \in Events, h \in GoRec :
          /\ live' = [live EXCEPT ![j] = h] /\ j = Head(boot)
          /\ h = [Idle EXCEPT !.pc = "settle", !.e = store[j]]
          /\ UNCHANGED store
    BY <1>7, BootIs
  <2>2. h.pc = "settle" /\ h.e = store[j]
    BY <2>1 DEF Idle
  <2>3. Over(j)
    <3>1. boot # <<>> /\ boot \in Seq(Events)
      BY <1>7, QueueOK DEF BootWarm
    <3>2. boot[1] = j /\ 1 \in 1..Len(boot)
      BY <2>1, <3>1
    <3> QED BY <3>2 DEF OnceInv, OnceAt
  <2>4. CASE j = id
    BY <1>6, <2>1, <2>2, <2>3, <2>4 DEF LiveTo, Over, Running
  <2> QED BY <1>0, <1>6, <2>1, <2>4
<1>8. ASSUME NEW j \in Events, WarmInstant(j) PROVE LiveTo(id, live[id], live'[id])
  <2>1. PICK h \in GoRec : h = [Idle EXCEPT !.pc = "settle", !.e = Heard.e] /\ live' = [live EXCEPT ![j] = h]
    BY <1>8, InstantIs
  <2>2. Hears("started", j) /\ ~Running(Heard.e)
    BY <1>8, InstantIs
  <2>3. Heard.e \in EventRec /\ Heard.id = j /\ feed.queue # <<>> /\ feed.queue \in Seq(Message)
    BY <2>2, HearsIs
  <2>4. h.pc = "settle" /\ h.e = Heard.e
    BY <2>1, <2>3, SettlesIs
  <2>5. feed.queue[1] = Heard
    BY <2>3 DEF Heard
  <2>6. CASE j = id
    BY <1>6, <2>1, <2>2, <2>3, <2>4, <2>5, <2>6 DEF LiveTo
  <2> QED BY <1>0, <1>6, <2>1, <2>6
<1>9. ASSUME NEW j \in Events, WarmEnded(j) PROVE LiveTo(id, live[id], live'[id])
  <2>1. PICK g : g = live[j]
    OBVIOUS
  <2>2. PICK h \in GoRec :
          /\ live' = [live EXCEPT ![j] = h]
          /\ h = Go(g.pc, g.e, g.rung, g.cam, g.prev, TRUE, g.cancelled, g.seal, g.warmed, g.failed)
    BY <1>9, <2>1, ToldIs
  <2>3. h.pc = g.pc /\ h.e = g.e
    BY <2>2 DEF Go
  <2>4. CASE j = id
    <3>1. live'[id] = h /\ live[id] = g
      BY <1>6, <2>1, <2>2, <2>4
    <3> QED BY <2>3, <3>1 DEF LiveTo
  <2> QED BY <1>0, <1>6, <2>2, <2>4
<1>10. ASSUME NEW j \in Events, WarmStarted(j) PROVE LiveTo(id, live[id], live'[id])
  <2>1. PICK ids : ids = Append(order, j)
    OBVIOUS
  <2>2. PICK h \in GoRec : StartedAs(j, ids, h)
    BY <1>10, <2>1, StartedIs
  <2>3. h.pc = "get" /\ h.e = Absent
    BY <2>2, GetsIs DEF StartedAs
  <2>4. PICK g \in GoRec :
          /\ g = IF id = j THEN h ELSE live[id]
          /\ live'[id] = IF id \in ToSet(Overflow(ids)) THEN Abandoned(g) ELSE g
    BY <2>2 DEF StartedAs
  <2>5. live'[id].pc = g.pc /\ live'[id].e = g.e
    BY <2>4 DEF Abandoned, Go
  <2> QED BY <2>3, <2>4, <2>5 DEF LiveTo
<1>11. CASE BootDone \/ WarmReturns
  BY <1>0, <1>11 DEF BootDone, WarmReturns
<1>12. ASSUME NEW op, NEW j, WarmIgnores(op, j) PROVE LiveTo(id, live[id], live'[id])
  BY <1>0, <1>12 DEF WarmIgnores
<1> QED BY <1>1, <1>2, <1>3, <1>4, <1>5, <1>7, <1>8, <1>9, <1>10, <1>11, <1>12 DEF Next, Warm, Views

\* A queue after a send or a receive.
LEMMA QueueJobs ==
  ASSUME NEW s \in Seq(Job), NEW job \in Job, NEW t,
         t = s \/ (s # <<>> /\ t = Tail(s)) \/ t = Append(s, job), NEW i \in 1..Len(t)
  PROVE  (t = Append(s, job) /\ t[i] = job) \/ \E n \in 1..Len(s) : t[i] = s[n]
<1>1. Len(s) \in Nat
  OBVIOUS
<1>2. CASE t = s
  BY <1>2
<1>3. CASE s # <<>> /\ t = Tail(s)
  <2>1. i + 1 \in 1..Len(s) /\ t[i] = s[i + 1]
    BY <1>1, <1>3
  <2> QED BY <2>1
<1>4. CASE t = Append(s, job)
  <2>1. i \in 1..Len(s) + 1
    BY <1>1, <1>4
  <2>2. CASE i = Len(s) + 1
    BY <1>1, <1>4, <2>2
  <2>3. CASE i \in 1..Len(s)
    BY <1>1, <1>4, <2>3
  <2> QED BY <1>1, <2>1, <2>2, <2>3
<1> QED BY <1>2, <1>3, <1>4

\* stitch.go RequestStitch: a job that is queued now was queued before or is this one.
LEMMA RequestAdds ==
  ASSUME TypeOK, NEW variant \in Variants, NEW job \in Job, renders' = Requested(renders, variant, job),
         worker' = worker, NEW x, JobOf(x)'
  PROVE  JobOf(x) \/ x = job
<1>1. renders \in Queues
  BY DEF TypeOK, RendersOK, Queues
<1>2. PICK r : r = Requested(renders, variant, job)
  OBVIOUS
<1>3. \A v \in Variants : r[v] = renders[v] \/ r[v] = Append(renders[v], job)
  BY <1>1, <1>2, RequestedIs
<1>4. ASSUME NEW v \in Variants, NEW i \in 1..Len(r[v]), x = r[v][i] PROVE JobOf(x) \/ x = job
  <2>1. renders[v] \in Seq(Job)
    BY <1>1 DEF Queues
  <2>2. PICK t : t = r[v]
    OBVIOUS
  <2>3. t[i] = job \/ \E n \in 1..Len(renders[v]) : t[i] = renders[v][n]
    <3>1. t = renders[v] \/ t = Append(renders[v], job)
      BY <1>3, <2>2
    <3>2. i \in 1..Len(t)
      BY <1>4, <2>2
    <3> QED BY <2>1, <3>1, <3>2, QueueJobs
  <2> QED BY <1>4, <2>2, <2>3 DEF JobOf
<1>5. CASE worker.pc \in {"stitch", "cut"} /\ x = worker.job
  BY <1>5 DEF JobOf
<1> QED BY <1>2, <1>4, <1>5 DEF JobOf

\* A job is asked for by a goroutine that has made its final cuts, or by a page of an ended event.
LEMMA JobTo ==
  ASSUME TypeOK, [Next]_vars, NEW x, JobOf(x)'
  PROVE  \/ JobOf(x)
         \/ \E id \in Events : live[id].pc = "final" /\ x = FinalJob(id, live[id])
         \/ \E id \in Events : store[id].state = "ended" /\ store' = store /\ x = FinalJob(id, [e |-> store[id]])
<1>0. renders \in Queues /\ worker \in WorkerRec /\ worker.job \in Job
  BY DEF TypeOK, RendersOK, Queues, WorkerRec
<1>1. ASSUME UNCHANGED <<renders, worker>> PROVE JobOf(x)
  BY <1>1 DEF JobOf
<1>2. CASE Worker
  <2>1. WorkerMoves
    BY <1>2, WorkerStep
  <2>2. ASSUME NEW v \in Variants, NEW i \in 1..Len(renders'[v]), x = renders'[v][i] PROVE JobOf(x)
    <3>1. renders[v] \in Seq(Job)
      BY <1>0 DEF Queues
    <3>2. PICK t : t = renders'[v]
      OBVIOUS
    <3>3. \/ t = renders[v] \/ (renders[v] # <<>> /\ t = Tail(renders[v]))
          \/ t = Append(renders[v], worker.job) /\ worker.pc \in {"stitch", "cut"}
      BY <2>1, <3>2 DEF WorkerMoves
    <3>4. CASE t = Append(renders[v], worker.job) /\ worker.pc \in {"stitch", "cut"}
      <4>1. t[i] = worker.job \/ \E n \in 1..Len(renders[v]) : t[i] = renders[v][n]
        BY <1>0, <2>2, <3>1, <3>2, <3>4, QueueJobs
      <4> QED BY <2>2, <3>2, <3>4, <4>1 DEF JobOf
    <3>5. CASE t = renders[v]
      BY <2>2, <3>2, <3>5 DEF JobOf
    <3>6. CASE renders[v] # <<>> /\ t = Tail(renders[v])
      <4>1. i + 1 \in 1..Len(renders[v]) /\ t[i] = renders[v][i + 1]
        BY <2>2, <3>1, <3>2, <3>6
      <4> QED BY <2>2, <3>2, <4>1 DEF JobOf
    <3> QED BY <3>3, <3>4, <3>5, <3>6
  <2>3. CASE worker'.pc \in {"stitch", "cut"} /\ x = worker'.job
    <3>1. CASE worker'.job = worker.job /\ worker.pc \in {"stitch", "cut"}
      BY <2>3, <3>1 DEF JobOf
    <3>2. ASSUME NEW v \in Variants, renders[v] # <<>>, worker'.job = Head(renders[v]) PROVE JobOf(x)
      <4>1. renders[v] \in Seq(Job)
        BY <1>0 DEF Queues
      <4>2. 1 \in 1..Len(renders[v]) /\ x = renders[v][1]
        BY <2>3, <3>2, <4>1
      <4> QED BY <4>2 DEF JobOf
    <3> QED BY <2>1, <2>3, <3>1, <3>2 DEF WorkerMoves
  <2> QED BY <2>2, <2>3 DEF JobOf
<1>3. ASSUME NEW id \in Events, FinalFills(id) PROVE JobOf(x) \/ (live[id].pc = "final" /\ x = FinalJob(id, live[id]))
  <2>1. PICK g : g = live[id]
    OBVIOUS
  <2>2. /\ g.pc = "final" /\ worker' = worker
        /\ renders' = renders \/ renders' = Requested(renders, "lo", FinalJob(id, g))
    <3>1. g.pc = "final" /\ renders' = IF g.cam < Len(EventCameras) THEN renders
                                       ELSE Requested(renders, "lo", FinalJob(id, g))
      BY <1>3, <2>1, FillsTo
    <3>2. \E f \in BOOLEAN : Step(id, Finals(g, f))
      BY <1>3, <2>1, FillsTo, RecordsOK, GoFields
    <3> QED BY <3>1, <3>2 DEF Step
  <2>3. PICK job : job = FinalJob(id, g)
    OBVIOUS
  <2>4. job \in Job /\ "lo" \in Variants
    BY <2>1, <2>3, RecordsOK, GoFields DEF FinalJob, Job, Variants
  <2>5. CASE renders' = renders
    BY <1>1, <2>2, <2>5 DEF JobOf
  <2>6. CASE renders' = Requested(renders, "lo", job)
    BY <2>1, <2>2, <2>3, <2>4, <2>6, RequestAdds
  <2> QED BY <2>2, <2>3, <2>5, <2>6
<1>4. ASSUME NEW id \in Events, NEW v \in Variants, Look(id, v)
      PROVE  JobOf(x) \/ (store[id].state = "ended" /\ store' = store /\ x = FinalJob(id, [e |-> store[id]]))
  <2>1. PICK job : job = [id |-> id, e |-> store[id]]
    OBVIOUS
  <2>2. job \in Job
    BY <2>1, RecordsOK DEF Job
  <2>3. renders' = Requested(renders, v, job) /\ worker' = worker /\ store' = store /\ store[id].state = "ended"
    BY <1>4, <2>1 DEF Look
  <2>4. JobOf(x) \/ x = job
    BY <2>2, <2>3, RequestAdds
  <2>5. job = FinalJob(id, [e |-> store[id]])
    BY <2>1 DEF FinalJob
  <2> QED BY <2>3, <2>4, <2>5
<1>5. CASE Apply \/ Warm \/ Tick \/ UNCHANGED vars
  <2>1. CASE Apply
    <3>1. PICK id : id \in Events
      BY <2>1 DEF Apply, TypeOK, StoreOK, World
    <3> QED BY <1>1, <2>1, <3>1, ApplyTo DEF ApplyParts
  <2>2. CASE Warm
    BY <1>1, <2>2, WarmType DEF stitchVars
  <2> QED BY <1>1, <1>5, <2>1, <2>2 DEF Tick, vars, stitchVars
<1>6. ASSUME NEW id \in Events, Goroutine(id), ~FinalFills(id) PROVE JobOf(x)
  <2>1. PICK h : Step(id, h)
    BY <1>6, Moves
  <2>2. renders' = renders
    BY <1>6 DEF Goroutine, LiveGets, LiveCancelled, LiveEnded, LiveTimer, LiveCuts, FinalSettles, EvictCheckpoints
  <2> QED BY <1>1, <2>1, <2>2 DEF Step
<1>7. CASE Views
  BY <1>1, <1>7, ViewsKeep
<1>8. ASSUME NEW id \in Events, StitchPage(id) \/ EventPage(id) PROVE \E v \in Variants : Look(id, v)
  BY <1>8 DEF StitchPage, EventPage, Variants
<1> QED BY <1>2, <1>3, <1>4, <1>5, <1>6, <1>7, <1>8 DEF Next, Views

\* Init: there are no goroutines and no jobs.
LEMMA ClosedInit ==
  ASSUME Init
  PROVE  ClosedInv
<1>1. Idle.pc = "none" /\ Polling.pc = "poll"
  BY DEF Idle, Polling
<1>2. \A v \in Variants : renders[v] = <<>>
  BY DEF Init
<1>3. \A job : ~JobOf(job)
  BY <1>1, <1>2 DEF Init, JobOf
<1> QED BY <1>1, <1>3 DEF Init, ClosedInv

\* warm.go, stitch.go: final cuts and jobs are about events that do not run.
LEMMA ClosedStep ==
  ASSUME TypeOK, OnceInv, ClosedInv, [Next]_vars
  PROVE  ClosedInv'
<1>0. Absent.state = "none"
  BY DEF Absent
<1>1. ASSUME NEW id \in Events
      PROVE  /\ live'[id].pc \in {"settle", "final"} => ~Running(live'[id].e)
             /\ live'[id].pc = "get" => live'[id].e = Absent
  <2>1. LiveTo(id, live[id], live'[id])
    BY CopyTo
  <2>2. /\ live[id].pc \in {"settle", "final"} => ~Running(live[id].e)
        /\ live[id].pc = "get" => live[id].e = Absent
    BY DEF ClosedInv
  <2> QED BY <1>0, <2>1, <2>2 DEF LiveTo, Running
<1>2. ASSUME NEW job \in Job, JobOf(job)' PROVE ~Running(job.e) /\ job.id \in Events
  <2>1. CASE JobOf(job)
    BY <2>1 DEF ClosedInv
  <2>2. ASSUME NEW id \in Events, live[id].pc = "final", job = FinalJob(id, live[id])
        PROVE  ~Running(job.e) /\ job.id \in Events
    BY <2>2 DEF ClosedInv, FinalJob
  <2>3. ASSUME NEW id \in Events, store[id].state = "ended", job = FinalJob(id, [e |-> store[id]])
        PROVE  ~Running(job.e) /\ job.id \in Events
    BY <2>3 DEF FinalJob, Running
  <2> QED BY <1>2, <2>1, <2>2, <2>3, JobTo
<1> QED BY <1>1, <1>2 DEF ClosedInv, Running

\* A new copy is the store's.
LEMMA HeldTo ==
  ASSUME TypeOK, OnceInv, ClosedInv, [Next]_vars, NEW id \in Events, NEW r, Held(id, r)'
  PROVE  \/ Held(id, r)
         \/ r = store'[id] /\ store'[id].state # "none"
         \/ r = Absent /\ store[id].state = "gone"
<1>1. CASE live'[id].pc \notin {"none", "get"} /\ r = live'[id].e
  <2>1. LiveTo(id, live[id], live'[id])
    BY CopyTo
  <2>2. live[id].pc = "get" => live[id].e = Absent
    BY DEF ClosedInv
  <2>3. ASSUME feed.queue # <<>>, feed.queue[1].id = id, r = feed.queue[1].e PROVE Held(id, r)
    <3>1. 1 \in 1..Len(feed.queue)
      BY <2>3, QueueOK
    <3> QED BY <2>3, <3>1 DEF Held
  <2>4. ASSUME live[id].pc \notin {"none", "get"}, r = live[id].e PROVE Held(id, r)
    BY <2>4 DEF Held
  <2> QED BY <1>1, <2>1, <2>2, <2>3, <2>4 DEF LiveTo
<1>2. ASSUME NEW i \in 1..Len(feed'.queue), feed'.queue[i].id = id, r = feed'.queue[i].e
      PROVE  Held(id, r) \/ (r = store'[id] /\ store'[id].state # "none")
  <2>0. PICK q : q = feed.queue
    OBVIOUS
  <2>1. q \in Seq(Message) /\ Len(q) \in Nat
    BY <2>0, QueueOK
  <2>2. PICK t : t = feed'.queue
    OBVIOUS
  <2>3. ASSUME NEW k \in 1..Len(q), t[i] = q[k] PROVE Held(id, r)
    BY <1>2, <2>0, <2>2, <2>3 DEF Held
  <2>4. CASE t = q
    BY <1>2, <2>2, <2>3, <2>4
  <2>5. CASE q # <<>> /\ t = Tail(q)
    <3>1. i + 1 \in 1..Len(q) /\ t[i] = q[i + 1]
      BY <1>2, <2>1, <2>2, <2>5
    <3> QED BY <2>3, <3>1
  <2>6. ASSUME NEW op \in {"started", "updated", "ended"}, NEW j \in Events,
               t = Append(q, [op |-> op, id |-> j, e |-> store'[j]]), Real(store'[j])
        PROVE  Held(id, r) \/ (r = store'[id] /\ store'[id].state # "none")
    <3>1. i \in 1..Len(q) + 1
      BY <1>2, <2>1, <2>2, <2>6
    <3>2. CASE i \in 1..Len(q)
      BY <2>1, <2>3, <2>6, <3>2
    <3>3. CASE i = Len(q) + 1
      <4>1. t[i] = [op |-> op, id |-> j, e |-> store'[j]]
        BY <2>1, <2>6, <3>3
      <4>2. j = id /\ r = store'[j]
        BY <1>2, <2>2, <4>1
      <4> QED BY <2>6, <4>2 DEF Real
    <3> QED BY <2>1, <3>1, <3>2, <3>3
  <2>7. CASE Apply
    BY <2>0, <2>2, <2>4, <2>6, <2>7, ApplyTo DEF ApplyParts
  <2>8. CASE ~Apply
    BY <2>0, <2>2, <2>4, <2>5, <2>8, StoreStays
  <2> QED BY <2>7, <2>8
<1>3. ASSUME NEW job \in Job, JobOf(job)', job.id = id, r = job.e
      PROVE  Held(id, r) \/ (r = store'[id] /\ store'[id].state # "none")
  <2>1. CASE JobOf(job)
    BY <1>3, <2>1 DEF Held
  <2>2. ASSUME NEW j \in Events, live[j].pc = "final", job = FinalJob(j, live[j]) PROVE Held(id, r)
    BY <1>3, <2>2 DEF FinalJob, Held
  <2>3. ASSUME NEW j \in Events, store[j].state = "ended", store' = store, job = FinalJob(j, [e |-> store[j]])
        PROVE  r = store'[id] /\ store'[id].state # "none"
    BY <1>3, <2>3 DEF FinalJob
  <2> QED BY <1>3, <2>1, <2>2, <2>3, JobTo
<1> QED BY <1>1, <1>2, <1>3 DEF Held

\* Init: there are no copies.
LEMMA HeldInit ==
  ASSUME Init
  PROVE  HeldInv
<1>1. Idle.pc = "none" /\ Polling.pc = "poll"
  BY DEF Idle, Polling
<1>2. \A v \in Variants : renders[v] = <<>>
  BY DEF Init
<1>3. \A job : ~JobOf(job)
  BY <1>1, <1>2 DEF Init, JobOf
<1>4. ASSUME NEW id \in Events, NEW r PROVE ~Held(id, r)
  BY <1>1, <1>3 DEF Init, Held
<1> QED BY <1>4 DEF HeldInv

\* A step keeps every copy sound: it is taken from the store or from another copy,
\* and the store goes onward.
LEMMA HeldStep ==
  ASSUME TypeOK, OnceInv, ClosedInv, HeldInv, [Next]_vars
  PROVE  HeldInv'
<1>0. OnceInv' /\ TypeOK' /\ world' = world /\ (Absent.state = "none" /\ Absent.start = 0)
  BY OnceStep, TypeStep, WorldTo DEF Absent
<1>1. ASSUME NEW id \in Events, NEW r \in EventRec, Held(id, r)' PROVE Sound(id, r)'
  <2>1. Onward(store[id], store'[id]) /\ Dated(store'[id])
    BY <1>0, StoreTo DEF OnceInv, OnceAt
  <2>2. /\ r.start \in Nat /\ store[id].start \in Nat /\ store'[id].start \in Nat
        /\ store[id].state \in {"none", "running", "ended", "gone"}
        /\ store'[id].state \in {"none", "running", "ended", "gone"}
    BY <1>0, EventFields DEF TypeOK, StoreOK
  <2>3. CASE Held(id, r)
    <3>1. Sound(id, r)
      BY <2>3 DEF HeldInv
    <3>2. CASE store'[id] = store[id]
      BY <1>0, <3>1, <3>2 DEF Sound, Dated
    <3>3. CASE Running(store[id]) /\ Running(store'[id]) /\ store'[id].start <= store[id].start
               /\ (world.moves \/ store'[id].start = store[id].start)
      <4>1. Dated(r) /\ Real(r) /\ r.state # "ended"
        BY <3>1, <3>3 DEF Sound, Running
      <4>2. store'[id].start <= r.start /\ (world.moves \/ store'[id].start = r.start)
        <5>1. store[id].start <= r.start /\ (world.moves \/ store[id].start = r.start)
          BY <3>1, <3>3, <4>1 DEF Sound, Running
        <5> QED BY <2>2, <3>3, <5>1
      <4> QED BY <1>0, <3>3, <4>1, <4>2 DEF Sound, Running
    <3>4. CASE Running(store[id]) /\ store'[id].state = "ended" /\ store'[id].start = store[id].start
      <4>1. Dated(r) /\ Real(r) /\ r.state # "ended"
        BY <3>1, <3>4 DEF Sound, Running
      <4>2. store[id].start <= r.start /\ (world.moves \/ store[id].start = r.start)
        BY <3>1, <3>4, <4>1 DEF Sound, Running
      <4> QED BY <1>0, <3>4, <4>1, <4>2 DEF Sound
    <3>5. CASE store'[id].state = "gone"
      BY <3>1, <3>5 DEF Sound
    <3>6. store[id].state # "none"
      BY <3>1 DEF Sound
    <3> QED BY <2>1, <3>2, <3>3, <3>4, <3>5, <3>6 DEF Onward
  <2>4. CASE r = store'[id] /\ store'[id].state # "none"
    BY <2>1, <2>2, <2>4 DEF Sound, Real
  <2>5. CASE r = Absent /\ store[id].state = "gone"
    <3>1. store'[id].state = "gone"
      BY <2>1, <2>5 DEF Onward, Running
    <3> QED BY <1>0, <2>5, <3>1 DEF Sound, Dated, Real
  <2> QED BY <1>1, <2>3, <2>4, <2>5, HeldTo
<1>2. ASSUME NEW id \in Events, NEW r \in EventRec, NEW s \in EventRec, Held(id, r)', Held(id, s)',
             r.state = "ended", s.state = "ended"
      PROVE  r = s
  <2>1. Sound(id, r)' /\ Sound(id, s)'
    BY <1>1, <1>2
  <2>2. CASE store'[id].state # "gone"
    BY <1>2, <2>1, <2>2 DEF Sound
  <2>3. CASE store'[id].state = "gone"
    <3>1. Held(id, r) /\ Held(id, s)
      BY <1>0, <1>2, <2>3, HeldTo
    <3> QED BY <1>2, <3>1 DEF HeldInv
  <2> QED BY <2>2, <2>3
<1> QED BY <1>1, <1>2 DEF HeldInv

------------------------------------------------------------------------------
(***************************************************************************)
(* The seal.  Of what a goroutine put in the cache under its event's       *)
(* present start, only the newest checkpoints are there, and the final     *)
(* cuts; and those stay.                                                   *)
(***************************************************************************)
\* The record whose final cuts goroutine g makes, unless it is forgotten before.
Latest(id, g) == IF g.e.state = "ended" THEN g.e ELSE store[id]

\* Key k is of the start that goroutine g knows.
Own(g, k) == k[2] = g.e.start - Margin

\* Goroutine g has a record and has not given up.
AtWork(g) == g.pc \in {"sleep", "cut", "settle", "final"} \/ (g.pc \in {"evict", "done"} /\ g.warmed)

\* Key k ends at or below its camera's newest checkpoint, a rung that is reached.
Trusted(g, k) ==
  /\ k[3] <= g.prev[k[1]] /\ g.prev[k[1]] + Grace <= now
  /\ \E i \in 1..Len(Ladder) : i <= g.rung /\ g.prev[k[1]] = g.e.start + Ladder[i]

\* Key k is its camera's newest checkpoint or a final cut.
Spared(id, g, k) ==
  \/ g.pc # "done" /\ g.prev[k[1]] # 0 /\ k[3] = g.prev[k[1]]
  \/ Latest(id, g).state = "ended" /\ k \in FinalCuts(id, Latest(id, g))

\* The final cut of the i-th camera.
FinalOf(g, i) == Key(EventCameras[i], g.e.start - Margin, g.e.end + Margin)

\* What a goroutine g knows of the keys m it has filled.
Fills(g, m) ==
  /\ g.pc \in {"get", "sleep", "cut", "settle", "final"} => ~g.warmed
  /\ g.pc = "get" => m = {}
  /\ AtWork(g) => /\ Real(g.e)
                  /\ \A k \in m : k[2] >= g.e.start - Margin /\ k[1] \in ToSet(EventCameras)
  /\ g.pc \in {"sleep", "cut"} => \A k \in m : Own(g, k) => Trusted(g, k)
  /\ g.pc = "cut" => Running(g.e) /\ g.e.start + Ladder[g.rung] + Grace <= now
  /\ g.pc \in {"settle", "final"} \/ g.warmed => g.e.state = "ended"
  /\ g.pc = "final" \/ g.warmed => Settled(g.e)

\* Only the newest checkpoint and the final cuts are in the cache c.
Cleans(id, g, m, c) ==
  AtWork(g) /\ ~Shared(id, g.e) /\ Latest(id, g).state # "gone" =>
    \A k \in c \cap m : Own(g, k) => Spared(id, g, k)

\* The final cuts that are made are in the cache c, or have been shed.
Seals(id, g, c) ==
  AtWork(g) /\ ~Shared(id, g.e) =>
    \A i \in 1..Len(EventCameras) :
      (g.pc = "final" /\ i < g.cam) \/ g.warmed =>
        g.failed \/ (g.pc = "done" /\ OnRung(g)) \/ FinalOf(g, i) \in c \cup shed

\* All of it, of a goroutine that seals.
Sealing(id, g, m, c) == g.seal => Fills(g, m) /\ Cleans(id, g, m, c) /\ Seals(id, g, c)

\* And of every goroutine.
SealInv == \A id \in Events : Sealing(id, live[id], mine[id], cuts)

\* What is shed stays on record.
LEMMA ShedStays ==
  ASSUME TypeOK, [Next]_vars
  PROVE  shed \subseteq shed'
<1>1. CASE UNCHANGED vars
  BY <1>1 DEF vars
<1>2. CASE Apply
  BY <1>2 DEF Apply, StartEvent, InstantEvent, UpdateEvent, EndEvent, ForgetEvent, Applied, viewVars
<1>3. CASE Warm \/ Worker \/ Tick
  BY <1>3, WarmType, WorkerStep DEF WorkerMoves, Tick, viewVars
<1>4. ASSUME NEW id \in Events, Goroutine(id) PROVE UNCHANGED shed
  BY <1>4, Moves DEF Step, viewVars
<1>5. ASSUME NEW id \in Events, StitchPage(id) \/ EventPage(id) PROVE UNCHANGED shed
  BY <1>5 DEF StitchPage, EventPage, Look, viewVars
<1> QED BY <1>1, <1>2, <1>3, <1>4, <1>5, ViewsKeep DEF Next, Views

\* Sharing a key does not end.
LEMMA SharedStays ==
  ASSUME TypeOK, [Next]_vars, NEW id \in Events, NEW e \in EventRec, Shared(id, e)
  PROVE  Shared(id, e)'
<1>1. PICK j \in Events \ {id} :
        \/ store[j].state = "gone"
        \/ store[j].state # "none" /\ store[j].start = e.start
        \/ store[j].state # "none" /\ world.moves /\ store[j].start < e.start
  BY DEF Shared
<1>2. Onward(store[j], store'[j]) /\ world' = world
  BY <1>1, StoreTo, WorldTo
<1>3. store[j].start \in Nat /\ store'[j].start \in Nat /\ e.start \in Nat
  BY <1>1, TypeStep, EventFields DEF TypeOK, StoreOK
<1>4. \/ store'[j].state = "gone"
      \/ store'[j].state # "none" /\ store'[j].start = e.start
      \/ store'[j].state # "none" /\ world.moves /\ store'[j].start < e.start
  BY <1>1, <1>2, <1>3 DEF Onward, Real, Running
<1> QED BY <1>1, <1>2, <1>4 DEF Shared

\* A record of another event that shares no key with e has another start.
LEMMA Apart ==
  ASSUME TypeOK, HeldInv, NEW id \in Events, NEW e \in EventRec, ~Shared(id, e),
         NEW j \in Events \ {id}, NEW r \in EventRec, Held(j, r) \/ (r = store[j] /\ Real(r))
  PROVE  r.start # e.start
<1>1. /\ store[j].state # "gone"
      /\ store[j].state # "none" => store[j].start # e.start /\ ~(world.moves /\ store[j].start < e.start)
  BY DEF Shared
<1>2. store[j].start \in Nat /\ e.start \in Nat /\ r.start \in Nat
  BY EventFields DEF TypeOK, StoreOK
<1>3. CASE Held(j, r)
  <2>1. Sound(j, r)
    BY <1>3 DEF HeldInv
  <2>2. store[j].start <= r.start /\ (world.moves \/ store[j].start = r.start) /\ store[j].state # "none"
    BY <1>1, <2>1 DEF Sound
  <2> QED BY <1>1, <1>2, <2>2
<1>4. CASE r = store[j] /\ Real(r)
  BY <1>1, <1>4 DEF Real
<1> QED BY <1>3, <1>4

\* What a goroutine at work holds.
LEMMA HoldsLatest ==
  ASSUME TypeOK, HeldInv, NEW id \in Events, NEW g, g = live[id], AtWork(g), Real(g.e),
         NEW l, l = Latest(id, g), l.state # "gone"
  PROVE  /\ g \in GoRec /\ g.e \in EventRec /\ l \in EventRec /\ Held(id, g.e) /\ Sound(id, g.e)
         /\ g.e.start \in Nat /\ g.e.end \in Nat /\ g.e.start >= 1 /\ l.start \in Nat /\ l.end \in Nat
         /\ store[id].state \in {"running", "ended"} => l = store[id]
         /\ store[id].state # "none"
<1>1. /\ g \in GoRec /\ g.e \in EventRec /\ store[id] \in EventRec
      /\ g.e.start \in Nat /\ g.e.end \in Nat /\ store[id].start \in Nat /\ store[id].end \in Nat
  BY RecordsOK, GoFields, EventFields
<1>2. Held(id, g.e)
  BY DEF AtWork, Held
<1>3. Sound(id, g.e)
  BY <1>1, <1>2 DEF HeldInv
<1>4. l = g.e \/ l = store[id]
  BY DEF Latest
<1>5. store[id].state \in {"running", "ended"} => l = store[id]
  BY <1>3 DEF Sound, Latest
<1>6. g.e.start >= 1 /\ store[id].state # "none"
  BY <1>3 DEF Sound, Dated
<1>7. l \in EventRec /\ l.start \in Nat /\ l.end \in Nat
  BY <1>1, <1>4
<1> QED BY <1>1, <1>2, <1>3, <1>5, <1>6, <1>7

\* A final cut of one's own event, made by the stitch worker.
LEMMA OwnJob ==
  ASSUME TypeOK, HeldInv, NEW id \in Events, NEW g, g = live[id], AtWork(g), Fills(g, mine[id]),
         Latest(id, g).state # "gone", NEW r \in EventRec, Held(id, r), ~Running(r),
         NEW cam \in Cameras, NEW k, k = Key(cam, r.start - Margin, r.end + Margin), k \in mine[id], Own(g, k)
  PROVE  Spared(id, g, k)
<1>0. PICK l : l = Latest(id, g)
  OBVIOUS
<1>1. /\ l \in EventRec /\ Held(id, g.e) /\ g.e \in EventRec /\ g.e.start \in Nat /\ g.e.start >= 1
      /\ store[id].state \in {"running", "ended"} => l = store[id]
  BY <1>0, HoldsLatest DEF Fills
<1>2. r.start \in Nat /\ r.end \in Nat /\ Margin \in Nat /\ r.state \in {"none", "running", "ended", "gone"}
  BY EventFields, WarmerAssumption
<1>3. k[1] = cam /\ k[2] = r.start - Margin
  BY DEF Key
<1>4. Sound(id, r)
  BY DEF HeldInv
<1>5. r.start = g.e.start
  BY <1>1, <1>2, <1>3 DEF Own
<1>6. r.state = "ended"
  <2>1. Real(r)
    BY <1>1, <1>4, <1>5 DEF Sound, Dated
  <2> QED BY <2>1 DEF Real, Running
<1>7. l = r
  <2>1. CASE g.e.state = "ended"
    <3>1. r = g.e
      BY <1>1, <1>6, <2>1 DEF HeldInv
    <3> QED BY <1>0, <2>1, <3>1 DEF Latest
  <2>2. CASE g.e.state # "ended"
    BY <1>0, <1>4, <1>6, <2>2 DEF Latest, Sound
  <2> QED BY <2>1, <2>2
<1>8. cam \in ToSet(EventCameras)
  BY <1>3 DEF Fills
<1> QED BY <1>0, <1>6, <1>7, <1>8 DEF Spared, FinalCuts

\* Two states of a goroutine that differ in what it has been told only.
Alike(g, h) ==
  /\ h.pc = g.pc /\ h.e = g.e /\ h.rung = g.rung /\ h.cam = g.cam /\ h.prev = g.prev
  /\ h.seal = g.seal /\ h.warmed = g.warmed /\ h.failed = g.failed

\* Time passes, and what is trusted stays trusted.
LEMMA FillsStay ==
  ASSUME TypeOK, [Next]_vars, NEW id \in Events, NEW g, g = live[id], NEW h, Alike(g, h), Fills(g, mine[id]),
         mine'[id] \subseteq mine[id]
  PROVE  Fills(h, mine[id])'
<1>1. /\ g \in GoRec /\ g.e \in EventRec /\ g.e.start \in Nat /\ g.e.end \in Nat /\ g.prev \in [Cameras -> Nat]
      /\ now \in Nat /\ Margin \in Nat /\ Grace \in Nat
  BY RecordsOK, GoFields, EventFields
<1>2. world' = world /\ now' \in Nat /\ now' >= now
  BY WorldTo
<1>3. PICK m : m = mine[id]
  OBVIOUS
<1>4. \A k \in m : k[1] \in Cameras
  BY <1>3 DEF TypeOK, CutsOK, KeySet
<1>5. ASSUME NEW k \in m, Own(g, k), Trusted(g, k) PROVE Trusted(h, k)'
  <2>1. g.prev[k[1]] \in Nat
    BY <1>1, <1>4
  <2>2. g.prev[k[1]] + Grace <= now'
    BY <1>1, <1>2, <1>5, <2>1 DEF Trusted
  <2> QED BY <1>2, <1>5, <2>2 DEF Trusted, Alike, Ladder
<1>6. ASSUME g.pc = "cut" PROVE g.e.start + Ladder[g.rung] + Grace <= now'
  <2>1. g.e.start + Ladder[g.rung] + Grace <= now /\ Ladder[g.rung] \in Nat
    BY <1>6, PlaceIs DEF Fills
  <2> QED BY <1>1, <1>2, <2>1
<1>7. Settled(g.e) => now' >= g.e.end + Margin + Grace
  BY <1>1, <1>2 DEF Settled
<1>8. \A k \in m : Own(h, k)' => Own(g, k)
  BY DEF Own, Alike
<1>9. (Real(h.e) <=> Real(g.e)) /\ (Running(h.e) <=> Running(g.e)) /\ (AtWork(h) <=> AtWork(g))
  BY DEF Alike, Real, Running, AtWork
<1> DEFINE Pcs5 == {"get", "sleep", "cut", "settle", "final"}
<1>10. /\ (h.pc \in Pcs5 => ~h.warmed)
       /\ (h.pc = "get" => m = {})
       /\ (h.pc \in {"settle", "final"} \/ h.warmed => h.e.state = "ended")
  BY <1>3 DEF Fills, Alike
<1>11. AtWork(h) => /\ Real(h.e)
                    /\ \A k \in m : k[2] >= h.e.start - Margin /\ k[1] \in ToSet(EventCameras)
  BY <1>3, <1>9 DEF Fills, Alike
<1>12. h.pc \in {"sleep", "cut"} => \A k \in m : Own(h, k) => Trusted(h, k)'
  BY <1>3, <1>5 DEF Fills, Alike, Own
<1>13. h.pc = "cut" => Running(h.e) /\ h.e.start + Ladder[h.rung] + Grace <= now'
  BY <1>6, <1>9 DEF Fills, Alike
<1>14. h.pc = "final" \/ h.warmed => now' >= h.e.end + Margin + Grace
  BY <1>7 DEF Fills, Alike
<1>15. mine'[id] \subseteq m /\ EventCameras' = EventCameras /\ Ladder' = Ladder
  BY <1>2, <1>3 DEF EventCameras, Ladder
<1>16. (AtWork(h)' <=> AtWork(h)) /\ (Real(h.e)' <=> Real(h.e)) /\ (Running(h.e)' <=> Running(h.e))
       /\ (Settled(h.e)' <=> now' >= h.e.end + Margin + Grace)
  BY DEF AtWork, Real, Running, Settled
<1>17. \A k : Own(h, k)' <=> Own(h, k)
  BY DEF Own
<1> HIDE DEF Pcs5
<1>18. h.pc \in {"get", "sleep", "cut", "settle", "final"} => ~h.warmed
  BY <1>10 DEF Pcs5
<1> QED BY <1>10, <1>11, <1>12, <1>13, <1>14, <1>15, <1>16, <1>17, <1>18 DEF Fills

\* A goroutine that others leave alone, save that they add what it spares, take
\* what is not its own, or shed.
LEMMA SealKept ==
  ASSUME TypeOK, HeldInv, SealInv, [Next]_vars, NEW id \in Events, NEW g, g = live[id],
         Alike(g, live'[id]), mine'[id] \subseteq mine[id],
         g.seal /\ AtWork(g) /\ Fills(g, mine[id]) /\ ~Shared(id, g.e) =>
           /\ Latest(id, g).state # "gone" =>
                \A k \in cuts' : k \in cuts \/ (k \in mine'[id] /\ Own(g, k) => Spared(id, g, k))
           /\ \A k \in cuts : k \in cuts' \cup shed' \/ ~Own(g, k)
  PROVE  Sealing(id, live[id], mine[id], cuts)'
<1>1. PICK h : h = live'[id]
  OBVIOUS
<1>2. Alike(g, h) /\ Sealing(id, g, mine[id], cuts)
  BY <1>1 DEF SealInv
<1>3. CASE ~g.seal
  BY <1>1, <1>2, <1>3 DEF Alike, Sealing
<1>4. CASE g.seal
  <2>1. Fills(g, mine[id]) /\ Cleans(id, g, mine[id], cuts) /\ Seals(id, g, cuts)
    BY <1>2, <1>4 DEF Sealing
  <2>2. Fills(h, mine[id])'
    BY <1>2, <2>1, FillsStay
  <2>3. world' = world /\ g.e \in EventRec /\ h.e = g.e
    BY <1>2, RecordsOK, GoFields, WorldTo DEF Alike
  <2>4. AtWork(h) <=> AtWork(g)
    BY <1>2 DEF Alike, AtWork
  <2>5. Shared(id, g.e) => Shared(id, h.e)'
    BY <2>3, SharedStays
  <2>6. ASSUME AtWork(g), ~Shared(id, g.e), Latest(id, h)'.state # "gone", NEW k \in cuts' \cap mine'[id], Own(g, k)
        PROVE  Spared(id, h, k)'
    <3>1. Onward(store[id], store'[id])
      BY StoreTo
    <3>2. Latest(id, h)' = IF g.e.state = "ended" THEN g.e ELSE store'[id]
      BY <2>3 DEF Latest
    <3>3. Latest(id, g).state # "gone"
      BY <2>6, <3>1, <3>2 DEF Latest, Onward, Running, Real
    <3>4. Latest(id, g).state = "ended" => Latest(id, h)' = Latest(id, g)
      BY <2>6, <3>1, <3>2 DEF Latest, Onward, Running, Real
    <3>5. Spared(id, g, k)
      <4>1. CASE k \in cuts
        BY <2>1, <2>6, <3>3, <4>1 DEF Cleans
      <4>2. CASE k \notin cuts
        BY <1>4, <2>1, <2>6, <3>3, <4>2
      <4> QED BY <4>1, <4>2
    <3>6. \A e : FinalCuts(id, e)' = FinalCuts(id, e)
      BY <2>3 DEF FinalCuts, EventCameras
    <3>7. CASE g.pc # "done" /\ g.prev[k[1]] # 0 /\ k[3] = g.prev[k[1]]
      BY <1>2, <3>7 DEF Alike, Spared
    <3>8. CASE Latest(id, g).state = "ended" /\ k \in FinalCuts(id, Latest(id, g))
      <4>1. PICK l : l = Latest(id, g)
        OBVIOUS
      <4>2. Latest(id, h)' = l /\ k \in FinalCuts(id, l)' /\ l.state = "ended"
        BY <3>4, <3>6, <3>8, <4>1
      <4>3. l' = l => (Latest(id, h).state = "ended" /\ k \in FinalCuts(id, Latest(id, h)))'
        BY <2>3, <4>2 DEF FinalCuts, EventCameras
      <4> QED BY <2>3, <4>2 DEF Spared, FinalCuts, EventCameras
    <3> QED BY <3>5, <3>7, <3>8 DEF Spared
  <2>7. Cleans(id, h, mine[id], cuts)'
    <3>1. \A k : Own(h, k)' <=> Own(g, k)
      BY <2>3 DEF Own
    <3> QED BY <2>4, <2>5, <2>6, <3>1 DEF Cleans, AtWork
  <2>8. ASSUME AtWork(g), ~Shared(id, g.e), NEW i \in 1..Len(EventCameras), (h.pc = "final" /\ i < h.cam) \/ h.warmed
        PROVE  h.failed \/ (h.pc = "done" /\ OnRung(h)) \/ FinalOf(g, i) \in cuts' \cup shed'
    <3>1. g.failed \/ (g.pc = "done" /\ OnRung(g)) \/ FinalOf(g, i) \in cuts \cup shed
      BY <1>2, <2>1, <2>8 DEF Seals, Alike
    <3>2. CASE g.failed \/ (g.pc = "done" /\ OnRung(g))
      BY <1>2, <3>2 DEF Alike, OnRung
    <3>3. CASE FinalOf(g, i) \in cuts
      <4>1. Own(g, FinalOf(g, i))
        BY DEF Own, FinalOf, Key
      <4> QED BY <1>4, <2>1, <2>8, <3>3, <4>1
    <3>4. CASE FinalOf(g, i) \in shed
      BY <3>4, ShedStays
    <3> QED BY <3>1, <3>2, <3>3, <3>4
  <2>9. Seals(id, h, cuts)'
    <3>1. \A i : FinalOf(h, i)' = FinalOf(g, i)
      BY <2>3 DEF FinalOf, EventCameras
    <3>2. (OnRung(h)' <=> OnRung(h)) /\ (AtWork(h)' <=> AtWork(h)) /\ Len(EventCameras)' = Len(EventCameras)
      BY <2>3 DEF OnRung, AtWork, EventCameras
    <3> QED BY <2>4, <2>5, <2>8, <3>1, <3>2 DEF Seals
  <2> QED BY <1>1, <2>2, <2>7, <2>9 DEF Sealing
<1> QED BY <1>3, <1>4

\* Keys of other events are not one's own.
LEMMA OtherKey ==
  ASSUME TypeOK, HeldInv, NEW id \in Events, NEW g, g = live[id], ~Shared(id, g.e),
         NEW j \in Events \ {id}, NEW r \in EventRec, Held(j, r) \/ (r = store[j] /\ Real(r)),
         NEW k, k[2] = r.start - Margin
  PROVE  ~Own(g, k)
<1>1. g.e \in EventRec /\ g.e.start \in Nat /\ r.start \in Nat /\ Margin \in Nat
  BY RecordsOK, GoFields, EventFields
<1>2. r.start # g.e.start
  BY <1>1, Apart
<1> QED BY <1>1, <1>2 DEF Own

\* A step of another event's goroutine.
LEMMA SealBeside ==
  ASSUME TypeOK, HeldInv, SealInv, [Next]_vars, NEW id \in Events, NEW j \in Events \ {id}, Goroutine(j)
  PROVE  Sealing(id, live[id], mine[id], cuts)'
<1>1. PICK g : g = live[id]
  OBVIOUS
<1>2. PICK f : f = live[j]
  OBVIOUS
<1>3. PICK h : Step(j, h) /\ Goroutined(live[j], h)
  BY Moves
<1>4. live'[id] = live[id] /\ mine'[id] = mine[id]
  BY <1>3, StepLiveOK, FillsOwn
<1>6. f.e \in EventRec
  BY <1>2, RecordsOK, GoFields
<1>7. ASSUME ~Shared(id, g.e), f.pc \notin {"none", "get"}, NEW k, k[2] = f.e.start - Margin PROVE ~Own(g, k)
  <2>1. Held(j, f.e)
    BY <1>2, <1>7 DEF Held
  <2> QED BY <1>1, <1>6, <1>7, <2>1, OtherKey
<1>8. /\ \A k \in cuts' : k \in cuts \/ (f.pc \notin {"none", "get"} /\ k[2] = f.e.start - Margin)
      /\ \A k \in cuts : k \in cuts' \/ (f.pc \notin {"none", "get"} /\ k[2] = f.e.start - Margin)
  <2>1. CASE LiveCuts(j)
    <3>0. f.pc = "cut"
      BY <1>2, <2>1, CutsTo
    <3>1. \/ cuts' = (cuts \cup {RungKey(f)}) \ Superseded(f, EventCameras[f.cam])
          \/ UNCHANGED cuts
      BY <1>2, <2>1, CutsTo, Zenon
    <3>2. RungKey(f)[2] = f.e.start - Margin
      BY DEF RungKey, Key
    <3>3. \A k \in Superseded(f, EventCameras[f.cam]) : k[2] = f.e.start - Margin
      BY DEF Superseded, Key
    <3> QED BY <3>0, <3>1, <3>2, <3>3
  <2>2. CASE FinalFills(j)
    <3>1. f.pc = "final" /\ (cuts' = cuts \cup {FinalKey(f)} \/ UNCHANGED cuts)
      BY <1>2, <2>2, FillsTo
    <3>2. FinalKey(f)[2] = f.e.start - Margin
      BY DEF FinalKey, Key
    <3> QED BY <3>1, <3>2
  <2>3. CASE EvictCheckpoints(j)
    <3>1. f.pc = "evict" /\ cuts' = cuts \ Checkpoints(f)
      BY <1>2, <2>3, EvictsTo
    <3>2. \A k \in Checkpoints(f) : k[2] = f.e.start - Margin
      BY DEF Checkpoints, Key
    <3> QED BY <3>1, <3>2
  <2>4. CASE LiveGets(j) \/ LiveCancelled(j) \/ LiveEnded(j) \/ LiveTimer(j) \/ FinalSettles(j)
    <3>1. UNCHANGED cuts
      BY <2>4 DEF LiveGets, LiveCancelled, LiveEnded, LiveTimer, FinalSettles
    <3> QED BY <3>1
  <2> QED BY <2>1, <2>2, <2>3, <2>4 DEF Goroutine
<1>9. ~Shared(id, g.e) =>
        /\ \A k \in cuts' : k \in cuts \/ ~Own(g, k)
        /\ \A k \in cuts : k \in cuts' \/ ~Own(g, k)
  BY <1>7, <1>8
<1>10. Alike(g, live'[id])
  BY <1>1, <1>4 DEF Alike
<1> QED BY <1>1, <1>4, <1>9, <1>10, SealKept

\* stitch.go stitchWorker: it fills keys of ended records and evicts none.
LEMMA SealWorker ==
  ASSUME TypeOK, ClosedInv, HeldInv, SealInv, [Next]_vars, NEW id \in Events, Worker
  PROVE  Sealing(id, live[id], mine[id], cuts)'
<1>1. PICK g : g = live[id]
  OBVIOUS
<1>2. WorkerMoves
  BY WorkerStep
<1>3. PICK job : job = worker.job
  OBVIOUS
<1>4. job \in Job /\ job.e \in EventRec
  BY <1>3 DEF TypeOK, RendersOK, WorkerRec, Job
<1>5. live' = live /\ mine' = mine
  BY <1>2 DEF WorkerMoves
<1>6. Alike(g, live'[id])
  BY <1>1, <1>5 DEF Alike
<1>7. CASE UNCHANGED cuts
  BY <1>1, <1>5, <1>6, <1>7, SealKept
<1>8. ASSUME worker.pc = "cut", NEW cam \in Cameras,
             cuts' = cuts \cup {Key(cam, job.e.start - Margin, job.e.end + Margin)}
      PROVE  Sealing(id, live[id], mine[id], cuts)'
  <2>1. JobOf(job)
    BY <1>3, <1>8 DEF JobOf
  <2>2. job.id \in Events /\ ~Running(job.e) /\ Held(job.id, job.e)
    BY <1>4, <2>1 DEF ClosedInv, Held
  <2>3. PICK k : k = Key(cam, job.e.start - Margin, job.e.end + Margin)
    OBVIOUS
  <2>4. cuts' = cuts \cup {k} /\ k[2] = job.e.start - Margin
    BY <1>8, <2>3 DEF Key
  <2>5. ASSUME g.seal, AtWork(g), Fills(g, mine[id]), ~Shared(id, g.e), Latest(id, g).state # "gone",
               k \in mine[id], Own(g, k)
        PROVE  Spared(id, g, k)
    <3>1. CASE job.id = id
      BY <1>1, <1>4, <1>8, <2>2, <2>3, <2>5, <3>1, OwnJob
    <3>2. CASE job.id # id
      <4>1. ~Own(g, k)
        BY <1>1, <1>4, <2>2, <2>4, <2>5, <3>2, OtherKey
      <4> QED BY <2>5, <4>1
    <3> QED BY <3>1, <3>2
  <2> QED BY <1>1, <1>5, <1>6, <2>4, <2>5, SealKept
<1> QED BY <1>2, <1>3, <1>7, <1>8 DEF WorkerMoves

\* media.go serveCached, mediacache.go: what a viewer fills is no goroutine's any more,
\* and what is shed is on record.
LEMMA SealView ==
  ASSUME TypeOK, HeldInv, SealInv, [Next]_vars, NEW id \in Events, Views
  PROVE  Sealing(id, live[id], mine[id], cuts)'
<1>1. PICK g : g = live[id]
  OBVIOUS
<1>2. Alike(g, live'[id])
  BY <1>1, ViewsKeep DEF Alike
<1>3. /\ mine'[id] \subseteq mine[id] /\ \A k \in cuts' : k \in cuts \/ k \notin mine'[id]
      /\ \A k \in cuts : k \in cuts' \cup shed'
  BY ViewsKeep
<1> QED BY <1>1, <1>2, <1>3, SealKept

\* The Warm loop starts a goroutine, tells one, or leaves it alone.
LEMMA SealWarm ==
  ASSUME TypeOK, OnceInv, HeldInv, SealInv, [Next]_vars, NEW id \in Events, Warm
  PROVE  Sealing(id, live[id], mine[id], cuts)'
<1>1. PICK g : g = live[id]
  OBVIOUS
<1>2. /\ cuts' = cuts /\ mine' = mine
      /\ live' \in [Events -> GoRec]
  BY TypeStep, WarmType DEF TypeOK, LiveOK
<1>3. ASSUME Alike(g, live'[id]) PROVE Sealing(id, live[id], mine[id], cuts)'
  BY <1>1, <1>2, <1>3, SealKept
<1>4. ASSUME live'[id].seal = FALSE PROVE Sealing(id, live[id], mine[id], cuts)'
  BY <1>4 DEF Sealing
<1>5. ASSUME live'[id] = live[id] PROVE Sealing(id, live[id], mine[id], cuts)'
  BY <1>1, <1>3, <1>5 DEF Alike
<1>6. ASSUME NEW j \in Events, NEW h \in GoRec, live' = [live EXCEPT ![j] = h]
      PROVE  live'[j] = h /\ (j # id => live'[id] = live[id])
  BY <1>6 DEF TypeOK, LiveOK
<1>7. CASE BootWarm
  <2>1. PICK j \in Events, h \in GoRec :
          live' = [live EXCEPT ![j] = h] /\ h = [Idle EXCEPT !.pc = "settle", !.e = store[j]]
    BY <1>7, BootIs
  <2>2. h.seal = FALSE
    BY <2>1 DEF Idle
  <2> QED BY <1>4, <1>5, <1>6, <2>1, <2>2
<1>8. ASSUME NEW j \in Events, WarmInstant(j) PROVE Sealing(id, live[id], mine[id], cuts)'
  <2>1. PICK h \in GoRec : h = [Idle EXCEPT !.pc = "settle", !.e = Heard.e] /\ live' = [live EXCEPT ![j] = h]
    BY <1>8, InstantIs
  <2>2. h.seal = FALSE
    BY <2>1 DEF Idle
  <2> QED BY <1>4, <1>5, <1>6, <2>1, <2>2
<1>9. ASSUME NEW j \in Events, WarmEnded(j) PROVE Sealing(id, live[id], mine[id], cuts)'
  <2>1. PICK f : f = live[j]
    OBVIOUS
  <2>2. PICK h \in GoRec :
          /\ live' = [live EXCEPT ![j] = h]
          /\ h = Go(f.pc, f.e, f.rung, f.cam, f.prev, TRUE, f.cancelled, f.seal, f.warmed, f.failed)
    BY <1>9, <2>1, ToldIs
  <2>3. Alike(f, h)
    BY <2>2 DEF Go, Alike
  <2>4. CASE j = id
    <3>1. f = g /\ live'[id] = h
      BY <1>1, <1>6, <2>1, <2>2, <2>4
    <3> QED BY <1>3, <2>3, <3>1
  <2> QED BY <1>5, <1>6, <2>2, <2>4
<1>10. ASSUME NEW j \in Events, WarmStarted(j) PROVE Sealing(id, live[id], mine[id], cuts)'
  <2>1. PICK ids : ids = Append(order, j)
    OBVIOUS
  <2>2. PICK h \in GoRec : StartedAs(j, ids, h)
    BY <1>10, <2>1, StartedIs
  <2>3. h.pc = "get" /\ h.warmed = FALSE
    BY <2>2, GetsIs DEF StartedAs
  <2>4. PICK f \in GoRec :
          /\ f = IF id = j THEN h ELSE live[id]
          /\ live'[id] = IF id \in ToSet(Overflow(ids)) THEN Abandoned(f) ELSE f
    BY <2>2 DEF StartedAs
  <2>5. PICK d : d = live'[id]
    OBVIOUS
  <2>6. Alike(f, d)
    BY <2>4, <2>5 DEF Abandoned, Go, Alike
  <2>7. CASE id = j
    <3>1. d.pc = "get" /\ d.warmed = FALSE
      BY <2>3, <2>4, <2>6, <2>7 DEF Alike
    <3>2. live[id].pc = "none"
      <4>1. Hears("started", j)
        BY <1>10, <2>1, StartedIs
      <4>2. /\ Heard.op = "started" /\ Heard.id = j /\ feed.queue # <<>> /\ feed.queue \in Seq(Message)
        BY <4>1, HearsIs
      <4>3. 1 \in 1..Len(feed.queue) /\ feed.queue[1] = Heard
        BY <4>2 DEF Heard
      <4> QED BY <2>7, <4>2, <4>3 DEF OnceInv, OnceAt, HeardOnce
    <3>3. mine[id] = {}
      BY <3>2 DEF OnceInv, OnceAt
    <3>4. ~AtWork(d)
      BY <3>1 DEF AtWork
    <3>5. mine'[id] = {} /\ ~AtWork(d)'
      BY <1>2, <3>3, <3>4 DEF AtWork
    <3>6. Fills(d, mine[id])'
      BY <3>1, <3>5 DEF Fills
    <3>7. Cleans(id, d, mine[id], cuts)' /\ Seals(id, d, cuts)'
      BY <3>5 DEF Cleans, Seals
    <3> QED BY <2>5, <3>6, <3>7 DEF Sealing
  <2>8. CASE id # j
    <3>1. Alike(g, live'[id])
      BY <1>1, <2>4, <2>5, <2>6, <2>8
    <3> QED BY <1>3, <3>1
  <2> QED BY <2>7, <2>8
<1>11. CASE BootDone \/ WarmReturns
  BY <1>5, <1>11 DEF BootDone, WarmReturns
<1>12. ASSUME NEW op, NEW j, WarmIgnores(op, j) PROVE Sealing(id, live[id], mine[id], cuts)'
  BY <1>5, <1>12 DEF WarmIgnores
<1> QED BY <1>7, <1>8, <1>9, <1>10, <1>11, <1>12 DEF Warm

\* A step of the event's own goroutine, from the state it finds.
LEMMA SealMoves ==
  ASSUME NEW id \in Events, NEW h, Step(id, h), live'[id] = h,
         NEW m, NEW c, mine'[id] = m, cuts' = c, Sealing(id, h, m, c)
  PROVE  Sealing(id, live[id], mine[id], cuts)'
<1>1. UNCHANGED <<world, now, store, shed>>
  BY DEF Step, viewVars
<1>2. EventCameras' = EventCameras /\ Ladder' = Ladder
  BY <1>1 DEF EventCameras, Ladder
<1>3. (Shared(id, h.e)' <=> Shared(id, h.e)) /\ Latest(id, h)' = Latest(id, h)
  BY <1>1 DEF Shared, Latest
<1>4. \A k : (Own(h, k)' <=> Own(h, k)) /\ (Trusted(h, k)' <=> Trusted(h, k)) /\ (Spared(id, h, k)' <=> Spared(id, h, k))
  BY <1>1 DEF Own, Trusted, Spared, Ladder, Latest, FinalCuts, EventCameras
<1>5. \A i : FinalOf(h, i)' = FinalOf(h, i)
  BY <1>1 DEF FinalOf, EventCameras
<1>6. (Fills(h, m))' <=> Fills(h, m)
  BY <1>1, <1>2, <1>4 DEF Fills, AtWork, Real, Running, Settled, EventCameras, Ladder, Own, Trusted
<1>7. (Cleans(id, h, m, c))' <=> Cleans(id, h, m, c)
  BY <1>1, <1>2, <1>3, <1>4 DEF Cleans, AtWork
<1>8. (Seals(id, h, c))' <=> Seals(id, h, c)
  BY <1>1, <1>2, <1>3, <1>5 DEF Seals, AtWork, OnRung
<1>9. (Sealing(id, h, m, c))'
  BY <1>6, <1>7, <1>8 DEF Sealing
<1> QED BY <1>9 DEF Sealing, Fills, Cleans, Seals

\* Before the first fill, and after a goroutine that gave up.
LEMMA SealIdle ==
  ASSUME NEW id \in Events, NEW h, NEW m, NEW c, ~h.warmed, h.pc \in {"done", "evict"}
  PROVE  Sealing(id, h, m, c)
BY DEF Sealing, Fills, Cleans, Seals, AtWork

\* A goroutine looks at its event again: an earlier start leaves behind what it
\* has filled, the same start keeps it.
LEMMA SealLooks ==
  ASSUME TypeOK, HeldInv, NEW id \in Events, NEW g, g = live[id], g.seal, Sealing(id, g, mine[id], cuts),
         g.pc = "sleep", Found(id),
         NEW h, h.e = store[id], h.prev = g.prev, h.rung = g.rung, ~h.warmed, h.failed = g.failed,
         \/ h.pc = "settle" /\ store[id].state = "ended"
         \/ /\ h.pc = "cut" /\ Running(store[id]) /\ g.rung \in 1..Len(Ladder)
            /\ now >= g.e.start + Ladder[g.rung] + Grace
  PROVE  Sealing(id, h, mine[id], cuts)
<1>0. PICK m : m = mine[id]
  OBVIOUS
<1>1. /\ g.e \in EventRec /\ store[id] \in EventRec /\ g.e.start \in Nat /\ store[id].start \in Nat
      /\ now \in Nat /\ Margin \in Nat /\ Grace \in Nat
  BY RecordsOK, GoFields, EventFields
<1>2. Fills(g, m) /\ Cleans(id, g, m, cuts) /\ AtWork(g) /\ Real(g.e)
  BY <1>0 DEF Sealing, AtWork, Fills
<1>3. Held(id, g.e)
  BY DEF Held
<1>4. Sound(id, g.e)
  BY <1>1, <1>3 DEF HeldInv
<1>5. Real(store[id]) /\ Latest(id, g) = store[id] /\ Latest(id, h) = store[id]
  BY <1>4 DEF Found, Real, Latest, Sound
<1>6. store[id].start <= g.e.start
  BY <1>2, <1>4, <1>5 DEF Sound, Real
<1>7. \A k \in m : k \in KeySet /\ k[2] \in Int
  BY <1>0 DEF TypeOK, CutsOK, KeySet
<1>8. ASSUME NEW k \in m PROVE k[2] >= h.e.start - Margin /\ k[1] \in ToSet(EventCameras)
  <2>1. k[2] >= g.e.start - Margin /\ k[1] \in ToSet(EventCameras)
    BY <1>2 DEF Fills
  <2> QED BY <1>1, <1>6, <1>7, <2>1
<1>9. ASSUME NEW k \in m, Own(h, k) PROVE Own(g, k) /\ h.e.start = g.e.start
  <2>1. k[2] >= g.e.start - Margin /\ k[2] = store[id].start - Margin
    BY <1>2, <1>9 DEF Fills, Own
  <2>2. store[id].start = g.e.start
    BY <1>1, <1>6, <2>1
  <2> QED BY <1>9, <2>2 DEF Own
<1>10. ASSUME NEW k \in m, Own(h, k) PROVE Trusted(h, k)
  <2>1. Trusted(g, k) /\ h.e.start = g.e.start
    BY <1>2, <1>9, <1>10 DEF Fills
  <2> QED BY <2>1 DEF Trusted
<1>11. h.pc = "cut" => Running(h.e) /\ h.e.start + Ladder[h.rung] + Grace <= now
  <2> SUFFICES ASSUME h.pc = "cut" PROVE h.e.start + Ladder[h.rung] + Grace <= now
    OBVIOUS
  <2>1. Ladder[g.rung] \in Nat /\ now >= g.e.start + Ladder[g.rung] + Grace
    BY CamerasOK
  <2> QED BY <1>1, <1>6, <2>1
<1>12. Fills(h, m)
  BY <1>5, <1>8, <1>10, <1>11 DEF Fills
<1>13. ASSUME ~Shared(id, h.e), NEW k \in cuts \cap m, Own(h, k) PROVE Spared(id, h, k)
  <2>1. Own(g, k) /\ h.e.start = g.e.start
    BY <1>9, <1>13
  <2>2. ~Shared(id, g.e)
    BY <1>13, <2>1 DEF Shared
  <2>3. Latest(id, g).state # "gone"
    BY <1>5 DEF Real
  <2>4. Spared(id, g, k)
    BY <1>2, <1>13, <2>1, <2>2, <2>3 DEF Cleans
  <2> QED BY <1>5, <2>4 DEF Spared
<1>14. Cleans(id, h, m, cuts) /\ Seals(id, h, cuts)
  BY <1>13 DEF Cleans, Seals
<1> QED BY <1>0, <1>12, <1>14 DEF Sealing

\* A rung's cut for one camera: a newer checkpoint, and the one before goes.
LEMMA SealCuts ==
  ASSUME TypeOK, NEW id \in Events, NEW g, g = live[id], g.pc = "cut", Sealing(id, g, mine[id], cuts), g.seal,
         NEW cam, cam = EventCameras[g.cam], NEW end, end = g.e.start + Ladder[g.rung],
         NEW prev \in [Cameras -> Nat], NEW h, h = Turned(g, prev), NEW m, NEW c,
         \/ /\ prev = [g.prev EXCEPT ![cam] = end]
            /\ m = mine[id] \cup {RungKey(g)} /\ c = (cuts \cup {RungKey(g)}) \ Superseded(g, cam)
         \/ prev = g.prev /\ m = mine[id] /\ c = cuts
  PROVE  Sealing(id, h, m, c)
<1>1. /\ g \in GoRec /\ g.e \in EventRec /\ g.e.start \in Nat /\ g.prev \in [Cameras -> Nat]
      /\ now \in Nat /\ Margin \in Nat /\ Grace \in Nat /\ g.rung \in Nat
  BY RecordsOK, GoFields, EventFields
<1>2. /\ g.cam \in 1..Len(EventCameras) /\ cam \in Cameras /\ g.rung \in 1..Len(Ladder)
      /\ Ladder[g.rung] \in Nat \ {0} /\ Len(EventCameras) \in Nat
      /\ \A i \in 1..Len(Ladder) : Ladder[i] \in Nat \ {0}
  BY PlaceIs, CamerasOK
<1>3. /\ h.pc \in {"cut", "sleep"} /\ h.e = g.e /\ h.prev = prev /\ h.warmed = g.warmed
      /\ h.pc = "cut" => h.rung = g.rung
      /\ h.rung \in {g.rung, g.rung + 1}
  <2>1. h.pc \in {"cut", "sleep"} /\ h.e = g.e /\ h.prev = prev /\ h.warmed = g.warmed
    BY TurnedOK
  <2>2. (h.pc = "cut" => h.rung = g.rung) /\ h.rung \in {g.rung, g.rung + 1}
    BY TurnedOK
  <2> QED BY <2>1, <2>2
<1>4. Fills(g, mine[id]) /\ Cleans(id, g, mine[id], cuts) /\ AtWork(g)
  BY DEF Sealing, AtWork
<1>5. PICK k0 : k0 = RungKey(g)
  OBVIOUS
<1>6. k0[1] = cam /\ k0[2] = g.e.start - Margin /\ k0[3] = end
  BY <1>5 DEF RungKey, Key
<1>7. end \in Nat \ {0} /\ end + Grace <= now
  <2>1. g.e.start + Ladder[g.rung] + Grace <= now
    BY <1>4 DEF Fills
  <2>2. PICK r : r = Ladder[g.rung]
    OBVIOUS
  <2>3. r \in Nat \ {0} /\ end = g.e.start + r /\ g.e.start + r + Grace <= now
    BY <1>2, <2>1, <2>2
  <2> QED BY <1>1, <2>3
<1>8. cam \in ToSet(EventCameras)
  BY <1>2, CamerasOK, ElementsIs
<1>9. \A k \in mine[id] : k \in KeySet /\ k[1] \in Cameras /\ k[3] \in Int
  BY DEF TypeOK, CutsOK, KeySet
<1>10. Latest(id, h) = Latest(id, g) /\ (\A k : Own(h, k) <=> Own(g, k))
  BY <1>3 DEF Latest, Own
<1>11. ASSUME NEW k \in mine[id], Own(g, k)
       PROVE  /\ g.prev[k[1]] <= end /\ g.prev[k[1]] \in Nat /\ Trusted(g, k)
  <2>1. Trusted(g, k)
    BY <1>4, <1>11 DEF Fills
  <2>2. PICK i \in 1..Len(Ladder) : i <= g.rung /\ g.prev[k[1]] = g.e.start + Ladder[i]
    BY <2>1 DEF Trusted
  <2>3. i = g.rung \/ Ladder[i] < Ladder[g.rung]
    <3>1. i < g.rung => Ladder[i] < Ladder[g.rung]
      <4>1. \A a, b \in DOMAIN Ladder : a < b => Ladder[a] < Ladder[b]
        BY DEF TypeOK, StoreOK
      <4>2. DOMAIN Ladder = 1..Len(Ladder)
        BY CamerasOK
      <4>3. i \in DOMAIN Ladder /\ g.rung \in DOMAIN Ladder
        BY <1>2, <2>2, <4>2
      <4> QED BY <4>1, <4>3
    <3> QED BY <1>1, <2>2, <3>1
  <2>4. PICK x, r : x = Ladder[i] /\ r = Ladder[g.rung]
    OBVIOUS
  <2>5. x \in Nat /\ r \in Nat /\ x <= r
    <3>1. x \in Nat /\ r \in Nat
      BY <1>2, <2>4
    <3>2. x = r \/ x < r
      BY <2>3, <2>4
    <3> QED BY <3>1, <3>2
  <2>6. g.prev[k[1]] = g.e.start + x /\ end = g.e.start + r
    BY <2>2, <2>4
  <2>7. g.prev[k[1]] <= end /\ g.prev[k[1]] \in Nat
    <3>1. PICK z \in Nat : z = g.e.start
      BY <1>1
    <3>2. z + x \in Nat /\ z + x <= z + r
      BY <2>5
    <3> QED BY <2>6, <3>1, <3>2
  <2> QED BY <2>1, <2>7
<1>12. CASE prev = g.prev /\ m = mine[id] /\ c = cuts
  <2>1. ASSUME NEW k \in m, Own(h, k) PROVE Trusted(h, k)
    <3>1. Trusted(g, k)
      BY <1>10, <1>11, <1>12, <2>1
    <3>2. \A i \in 1..Len(Ladder) : i <= g.rung => i <= h.rung
      BY <1>1, <1>3
    <3> QED BY <1>3, <1>12, <3>1, <3>2 DEF Trusted
  <2>2. Fills(h, m)
    BY <1>3, <1>4, <1>12, <2>1 DEF Fills, AtWork
  <2>3. Cleans(id, h, m, c)
    BY <1>3, <1>4, <1>10, <1>12 DEF Cleans, Spared
  <2>4. Seals(id, h, c)
    BY <1>3, <1>4 DEF Seals, Fills
  <2> QED BY <2>2, <2>3, <2>4 DEF Sealing
<1>13. CASE /\ prev = [g.prev EXCEPT ![cam] = end]
            /\ m = mine[id] \cup {k0} /\ c = (cuts \cup {k0}) \ Superseded(g, cam)
  <2>0. prev[cam] = end /\ \A d \in Cameras \ {cam} : prev[d] = g.prev[d]
    BY <1>1, <1>2, <1>13
  <2>1. ASSUME NEW k \in m, Own(h, k) PROVE Trusted(h, k)
    <3>1. CASE k = k0
      <4>1. g.rung \in 1..Len(Ladder) /\ g.rung <= h.rung
        BY <1>1, <1>2, <1>3
      <4>2. h.prev[k[1]] = end /\ k[3] = end
        BY <1>3, <1>6, <2>0, <3>1
      <4>3. end = h.e.start + Ladder[g.rung]
        BY <1>3
      <4> QED BY <1>7, <4>1, <4>2, <4>3 DEF Trusted
    <3>2. CASE k \in mine[id]
      <4>1. Trusted(g, k) /\ g.prev[k[1]] <= end /\ g.prev[k[1]] \in Nat /\ k[3] \in Int /\ k[1] \in Cameras
        BY <1>9, <1>10, <1>11, <2>1, <3>2
      <4>2. CASE k[1] = cam
        <5>1. k[3] <= end
          BY <1>7, <4>1, <4>2 DEF Trusted
        <5>2. g.rung <= h.rung
          BY <1>1, <1>3
        <5> QED BY <1>2, <1>3, <1>7, <2>0, <4>2, <5>1, <5>2 DEF Trusted
      <4>3. CASE k[1] # cam
        <5>1. h.prev[k[1]] = g.prev[k[1]]
          BY <1>3, <2>0, <4>1, <4>3
        <5>2. \A i \in 1..Len(Ladder) : i <= g.rung => i <= h.rung
          BY <1>1, <1>3
        <5> QED BY <1>3, <4>1, <5>1, <5>2 DEF Trusted
      <4> QED BY <4>2, <4>3
    <3> QED BY <1>13, <2>1, <3>1, <3>2
  <2>2. \A k \in m : k[2] >= h.e.start - Margin /\ k[1] \in ToSet(EventCameras)
    <3>1. k0[2] >= h.e.start - Margin /\ k0[1] \in ToSet(EventCameras)
      BY <1>1, <1>3, <1>6, <1>8
    <3> QED BY <1>3, <1>4, <1>13, <3>1 DEF Fills
  <2>3. Fills(h, m)
    BY <1>3, <1>4, <2>1, <2>2 DEF Fills, AtWork
  <2>4. ASSUME ~Shared(id, h.e), Latest(id, h).state # "gone", NEW k \in c \cap m, Own(h, k)
        PROVE  Spared(id, h, k)
    <3>1. CASE k = k0
      BY <1>3, <1>6, <1>7, <2>0, <3>1 DEF Spared
    <3>2. CASE k # k0
      <4>1. k \in mine[id] /\ k \in cuts /\ k \notin Superseded(g, cam) /\ Own(g, k) /\ k \in KeySet
        BY <1>9, <1>10, <1>13, <2>4, <3>2
      <4>2. Spared(id, g, k)
        BY <1>3, <1>4, <1>10, <2>4, <4>1 DEF Cleans
      <4>3. CASE Latest(id, g).state = "ended" /\ k \in FinalCuts(id, Latest(id, g))
        BY <1>10, <4>3 DEF Spared
      <4>4. CASE g.prev[k[1]] # 0 /\ k[3] = g.prev[k[1]]
        <5>1. k[1] # cam
          <6> SUFFICES ASSUME k[1] = cam PROVE FALSE
            OBVIOUS
          <6>1. k = <<k[1], k[2], k[3]>>
            BY <4>1 DEF KeySet
          <6>2. k = Key(cam, g.e.start - Margin, g.prev[cam])
            BY <4>1, <4>4, <6>1 DEF Key, Own
          <6>3. k \in Superseded(g, cam)
            BY <4>4, <6>2 DEF Superseded
          <6> QED BY <4>1, <6>3
        <5>2. h.prev[k[1]] = g.prev[k[1]]
          BY <1>3, <1>9, <2>0, <4>1, <5>1
        <5> QED BY <1>3, <4>4, <5>2 DEF Spared
      <4> QED BY <4>2, <4>3, <4>4 DEF Spared
    <3> QED BY <3>1, <3>2
  <2>5. Cleans(id, h, m, c) /\ Seals(id, h, c)
    BY <1>3, <1>4, <2>4 DEF Cleans, Seals, Fills
  <2> QED BY <2>3, <2>5 DEF Sealing
<1> QED BY <1>5, <1>12, <1>13

\* The final cuts.
LEMMA SealFills ==
  ASSUME TypeOK, NEW id \in Events, NEW g, g = live[id], g.pc = "final", Sealing(id, g, mine[id], cuts), g.seal,
         NEW failed \in BOOLEAN, NEW h, h = Finals(g, failed), NEW m, NEW c,
         \/ failed = g.failed /\ m = mine[id] \cup {FinalKey(g)} /\ c = cuts \cup {FinalKey(g)}
         \/ failed = TRUE /\ m = mine[id] /\ c = cuts
  PROVE  Sealing(id, h, m, c)
<1>1. /\ g \in GoRec /\ g.e \in EventRec /\ g.e.start \in Nat /\ g.e.end \in Nat /\ Margin \in Nat
      /\ g.cam \in 1..Len(EventCameras) /\ Len(EventCameras) \in Nat /\ EventCameras[g.cam] \in ToSet(EventCameras)
  BY RecordsOK, GoFields, EventFields, PlaceIs, CamerasOK, ElementsIs
<1>2. /\ h.pc \in {"final", "evict"} /\ h.e = g.e /\ h.prev = g.prev /\ h.failed = failed
      /\ g.cam < Len(EventCameras) => (h.pc = "final" /\ h.cam = g.cam + 1 /\ h.warmed = g.warmed)
      /\ ~(g.cam < Len(EventCameras)) => (h.pc = "evict" /\ h.warmed = TRUE)
  BY DEF Finals, Go, After
<1>3. Fills(g, mine[id]) /\ Cleans(id, g, mine[id], cuts) /\ Seals(id, g, cuts) /\ AtWork(g) /\ ~g.warmed
  BY DEF Sealing, AtWork, Fills
<1>4. AtWork(h) /\ g.e.state = "ended" /\ Settled(g.e)
  BY <1>2, <1>3 DEF AtWork, Fills
<1>5. Latest(id, h) = g.e /\ Latest(id, g) = g.e
  BY <1>2, <1>4 DEF Latest
<1>6. PICK k0 : k0 = FinalKey(g)
  OBVIOUS
<1>7. /\ k0[1] = EventCameras[g.cam] /\ k0[2] = g.e.start - Margin /\ k0 = FinalOf(g, g.cam)
      /\ k0 \in FinalCuts(id, g.e)
  BY <1>1, <1>6 DEF FinalKey, FinalOf, Key, FinalCuts
<1>8. m \subseteq mine[id] \cup {k0} /\ c \subseteq cuts \cup {k0} /\ cuts \subseteq c
  BY <1>6
<1>9. \A k \in m : k[2] >= h.e.start - Margin /\ k[1] \in ToSet(EventCameras)
  <2>1. k0[2] >= g.e.start - Margin
    BY <1>1, <1>7
  <2> QED BY <1>1, <1>2, <1>3, <1>7, <1>8, <2>1 DEF Fills
<1>10. Fills(h, m)
  <2>1. Real(h.e)
    BY <1>2, <1>4 DEF Real
  <2> QED BY <1>2, <1>3, <1>4, <1>9, <2>1 DEF Fills
<1>11. ASSUME ~Shared(id, h.e), NEW k \in c \cap m, Own(h, k) PROVE Spared(id, h, k)
  <2>1. CASE k = k0
    BY <1>4, <1>5, <1>7, <2>1 DEF Spared
  <2>2. CASE k # k0
    <3>1. Spared(id, g, k)
      BY <1>2, <1>3, <1>4, <1>5, <1>8, <1>11, <2>2 DEF Cleans, Own
    <3> QED BY <1>2, <1>5, <3>1 DEF Spared
  <2> QED BY <2>1, <2>2
<1>12. Cleans(id, h, m, c)
  BY <1>11 DEF Cleans
<1>13. ASSUME ~Shared(id, h.e), NEW i \in 1..Len(EventCameras), (h.pc = "final" /\ i < h.cam) \/ h.warmed
       PROVE  h.failed \/ FinalOf(h, i) \in c \cup shed
  <2>1. i <= g.cam
    BY <1>1, <1>2, <1>3, <1>13
  <2>2. FinalOf(h, i) = FinalOf(g, i)
    BY <1>2 DEF FinalOf
  <2>3. CASE i = g.cam
    BY <1>2, <1>6, <1>7, <2>2, <2>3
  <2>4. CASE i < g.cam
    <3>1. g.failed \/ FinalOf(g, i) \in cuts \cup shed
      BY <1>2, <1>3, <1>13, <2>4 DEF Seals
    <3> QED BY <1>2, <1>8, <2>2, <3>1
  <2> QED BY <1>1, <2>1, <2>3, <2>4
<1>14. Seals(id, h, c)
  BY <1>13 DEF Seals
<1> QED BY <1>10, <1>12, <1>14 DEF Sealing

\* The last checkpoints go.
LEMMA SealEvicts ==
  ASSUME TypeOK, NEW id \in Events, NEW g, g = live[id], g.pc = "evict", g.seal, g.warmed,
         Sealing(id, g, mine[id], cuts), NEW c, c = cuts \ Checkpoints(g),
         NEW h, h.pc = "done", h.e = g.e, h.prev = g.prev, h.failed = g.failed, h.warmed
  PROVE  Sealing(id, h, mine[id], c)
<1>0. PICK m : m = mine[id]
  OBVIOUS
<1>1. Fills(g, m) /\ Cleans(id, g, m, cuts) /\ Seals(id, g, cuts) /\ AtWork(g)
  BY <1>0 DEF Sealing, AtWork
<1>2. AtWork(h) /\ g.e.state = "ended" /\ Real(g.e) /\ Latest(id, g) = g.e /\ Latest(id, h) = g.e
  BY <1>1 DEF AtWork, Fills, Latest
<1>3. Fills(h, m)
  BY <1>1, <1>2 DEF Fills
<1>4. \A k \in m : k \in KeySet /\ k[1] \in Cameras
  BY <1>0 DEF TypeOK, CutsOK, KeySet
<1>5. ASSUME ~Shared(id, h.e), NEW k \in c \cap m, Own(h, k) PROVE Spared(id, h, k)
  <2>1. Spared(id, g, k) /\ Own(g, k)
    BY <1>1, <1>2, <1>5 DEF Cleans, Own
  <2>2. CASE g.prev[k[1]] # 0 /\ k[3] = g.prev[k[1]]
    <3>1. k = <<k[1], k[2], k[3]>>
      BY <1>4, <1>5 DEF KeySet
    <3>2. k = Key(k[1], g.e.start - Margin, g.prev[k[1]])
      BY <2>1, <2>2, <3>1 DEF Key, Own
    <3>3. k \in Checkpoints(g)
      BY <1>4, <1>5, <2>2, <3>2 DEF Checkpoints
    <3> QED BY <1>5, <3>3
  <2>3. CASE Latest(id, g).state = "ended" /\ k \in FinalCuts(id, Latest(id, g))
    BY <1>2, <2>3 DEF Spared
  <2> QED BY <2>1, <2>2, <2>3 DEF Spared
<1>6. ASSUME ~Shared(id, h.e), NEW i \in 1..Len(EventCameras)
      PROVE  h.failed \/ OnRung(h) \/ FinalOf(h, i) \in c \cup shed
  <2>1. g.failed \/ FinalOf(g, i) \in cuts \cup shed
    BY <1>1, <1>6 DEF Seals
  <2>2. FinalOf(h, i) = FinalOf(g, i)
    BY DEF FinalOf
  <2>3. CASE FinalOf(g, i) \in Checkpoints(g)
    <3>1. PICK d \in Cameras : FinalOf(g, i) = Key(d, g.e.start - Margin, g.prev[d])
      BY <2>3 DEF Checkpoints
    <3>2. g.prev[d] = g.e.end + Margin
      BY <3>1 DEF FinalOf, Key
    <3> QED BY <3>2 DEF OnRung
  <2> QED BY <2>1, <2>2, <2>3
<1>7. Cleans(id, h, m, c) /\ Seals(id, h, c)
  BY <1>5, <1>6 DEF Cleans, Seals
<1> QED BY <1>0, <1>3, <1>7 DEF Sealing

\* warm.go warmLive: each step of the event's own goroutine.
LEMMA SealGoroutine ==
  ASSUME TypeOK, OnceInv, HeldInv, SealInv, [Next]_vars, NEW id \in Events, Goroutine(id)
  PROVE  Sealing(id, live[id], mine[id], cuts)'
<1>1. PICK g : g = live[id]
  OBVIOUS
<1>2. /\ g \in GoRec /\ g.pc \in Pcs /\ g.e \in EventRec /\ g.prev \in [Cameras -> Nat] /\ g.failed \in BOOLEAN
      /\ store[id] \in EventRec /\ g.rung \in Nat \ {0} /\ g.e.start \in Nat
  BY <1>1, RecordsOK, GoFields, EventFields
<1>3. Sealing(id, g, mine[id], cuts)
  BY <1>1 DEF SealInv
<1>4. PICK h : Step(id, h) /\ Goroutined(g, h)
  BY <1>1, Moves
<1>5. live'[id] = h /\ h.seal = g.seal
  BY <1>1, <1>4, StepLiveOK DEF Goroutined
<1>6. CASE ~g.seal
  BY <1>5, <1>6 DEF Sealing
<1>7. ASSUME NEW d, Step(id, d), NEW m, NEW c, mine'[id] = m, cuts' = c, Sealing(id, d, m, c)
      PROVE  Sealing(id, live[id], mine[id], cuts)'
  <2>1. live'[id] = d
    BY <1>7 DEF Step, TypeOK, LiveOK
  <2> QED BY <1>7, <2>1, SealMoves
<1>8. mine \in [Events -> SUBSET KeySet]
  BY DEF TypeOK, CutsOK
<1>9. CASE g.seal /\ LiveGets(id)
  <2>0. g.pc = "get" /\ UNCHANGED <<cuts, mine>>
    BY <1>1, <1>9, GetsTo
  <2>1. ~g.warmed /\ mine[id] = {}
    BY <1>3, <1>9, <2>0 DEF Sealing, Fills
  <2>2. CASE Found(id) /\ Step(id, Goes(g, "sleep", store[id], g.rung, g.cam))
    <3>1. PICK d : d = Goes(g, "sleep", store[id], g.rung, g.cam)
      OBVIOUS
    <3>2. d.pc = "sleep" /\ d.e = store[id] /\ d.warmed = g.warmed
      BY <3>1 DEF Goes, Go
    <3>3. Real(d.e)
      BY <2>2, <3>2 DEF Found, Real
    <3>4. Sealing(id, d, {}, cuts)
      BY <2>1, <3>2, <3>3 DEF Sealing, Fills, Cleans, Seals, AtWork
    <3> QED BY <1>7, <2>0, <2>1, <2>2, <3>1, <3>4
  <2>3. CASE Step(id, Goes(g, "done", g.e, g.rung, g.cam))
    <3>1. PICK d : d = Goes(g, "done", g.e, g.rung, g.cam)
      OBVIOUS
    <3>2. d.pc = "done" /\ ~d.warmed
      BY <2>1, <3>1 DEF Goes, Go
    <3> QED BY <1>7, <2>0, <2>3, <3>1, <3>2, SealIdle
  <2> QED BY <1>1, <1>9, <2>2, <2>3, GetsTo
<1>10. CASE g.seal /\ LiveCancelled(id)
  <2>0. g.pc = "sleep" /\ UNCHANGED <<cuts, mine>> /\ Step(id, Goes(g, "done", g.e, g.rung, g.cam))
    BY <1>1, <1>10, CancelledTo
  <2>1. PICK d : d = Goes(g, "done", g.e, g.rung, g.cam)
    OBVIOUS
  <2>2. d.pc = "done" /\ ~d.warmed
    BY <1>3, <1>10, <2>0, <2>1 DEF Goes, Go, Sealing, Fills
  <2> QED BY <1>7, <2>0, <2>1, <2>2, SealIdle
<1>11. CASE g.seal /\ LiveEnded(id)
  <2>0. g.pc = "sleep" /\ g.ended /\ UNCHANGED <<cuts, mine>>
    BY <1>1, <1>11, EndedTo
  <2>1. ~g.warmed
    BY <1>3, <1>11, <2>0 DEF Sealing, Fills
  <2>2. Over(id)
    BY <1>1, <2>0 DEF OnceInv, OnceAt
  <2>3. CASE Found(id) /\ Step(id, Goes(g, "settle", store[id], g.rung, g.cam))
    <3>1. PICK d : d = Goes(g, "settle", store[id], g.rung, g.cam)
      OBVIOUS
    <3>2. /\ d.pc = "settle" /\ d.e = store[id] /\ d.prev = g.prev /\ d.rung = g.rung
          /\ ~d.warmed /\ d.failed = g.failed
      BY <2>1, <3>1 DEF Goes, Go
    <3>3. store[id].state = "ended"
      BY <2>2, <2>3 DEF Over, Found
    <3>4. Sealing(id, d, mine[id], cuts)
      BY <1>1, <1>3, <1>11, <2>0, <2>3, <3>2, <3>3, SealLooks
    <3> QED BY <1>7, <2>0, <2>3, <3>1, <3>4
  <2>4. CASE Step(id, Goes(g, "evict", Absent, g.rung, g.cam))
    <3>1. PICK d : d = Goes(g, "evict", Absent, g.rung, g.cam)
      OBVIOUS
    <3>2. d.pc = "evict" /\ ~d.warmed
      BY <2>1, <3>1 DEF Goes, Go
    <3> QED BY <1>7, <2>0, <2>4, <3>1, <3>2, SealIdle
  <2> QED BY <1>1, <1>11, <2>3, <2>4, EndedTo
<1>12. CASE g.seal /\ LiveTimer(id)
  <2>0. /\ g.pc = "sleep" /\ UNCHANGED <<cuts, mine>> /\ g.rung <= Len(Ladder)
        /\ now >= g.e.start + Ladder[g.rung] + Grace
    BY <1>1, <1>12, TimerTo
  <2>1. ~g.warmed
    BY <1>3, <1>12, <2>0 DEF Sealing, Fills
  <2>2. CASE Running(store[id]) /\ Step(id, Goes(g, "cut", store[id], g.rung, 1))
    <3>1. PICK d : d = Goes(g, "cut", store[id], g.rung, 1)
      OBVIOUS
    <3>2. /\ d.pc = "cut" /\ d.e = store[id] /\ d.prev = g.prev /\ d.rung = g.rung
          /\ ~d.warmed /\ d.failed = g.failed
      BY <2>1, <3>1 DEF Goes, Go
    <3>3. Found(id) /\ g.rung \in 1..Len(Ladder)
      BY <1>2, <2>0, <2>2, CamerasOK DEF Found, Running
    <3>4. Sealing(id, d, mine[id], cuts)
      BY <1>1, <1>3, <1>12, <2>0, <2>2, <3>2, <3>3, SealLooks
    <3> QED BY <1>7, <2>0, <2>2, <3>1, <3>4
  <2>3. CASE Step(id, Goes(g, "done", g.e, g.rung, g.cam))
    <3>1. PICK d : d = Goes(g, "done", g.e, g.rung, g.cam)
      OBVIOUS
    <3>2. d.pc = "done" /\ ~d.warmed
      BY <2>1, <3>1 DEF Goes, Go
    <3> QED BY <1>7, <2>0, <2>3, <3>1, <3>2, SealIdle
  <2> QED BY <1>1, <1>12, <2>2, <2>3, TimerTo
<1>13. CASE g.seal /\ LiveCuts(id)
  <2>0. g.pc = "cut" /\ EventCameras[g.cam] \in Cameras /\ Ladder[g.rung] \in Nat
    BY <1>1, <1>13, CutsTo, PlaceIs
  <2>1. PICK cam : cam = EventCameras[g.cam]
    OBVIOUS
  <2>2. PICK end : end = g.e.start + Ladder[g.rung]
    OBVIOUS
  <2>3. PICK p : p = [g.prev EXCEPT ![cam] = end]
    OBVIOUS
  <2>4. p \in [Cameras -> Nat]
    BY <1>2, <2>0, <2>1, <2>2, <2>3
  <2>5. CASE /\ cuts' = (cuts \cup {RungKey(g)}) \ Superseded(g, cam)
             /\ mine' = [mine EXCEPT ![id] = mine[id] \cup {RungKey(g)}] /\ Step(id, Turned(g, p))
    <3>1. PICK d : d = Turned(g, p)
      OBVIOUS
    <3>2. PICK m : m = mine[id] \cup {RungKey(g)}
      OBVIOUS
    <3>3. PICK c : c = (cuts \cup {RungKey(g)}) \ Superseded(g, cam)
      OBVIOUS
    <3>4. Sealing(id, d, m, c)
      BY <1>1, <1>3, <1>13, <2>0, <2>1, <2>2, <2>3, <2>4, <3>1, <3>2, <3>3, SealCuts
    <3>5. mine'[id] = m
      BY <1>8, <2>5, <3>2
    <3> QED BY <1>7, <2>5, <3>1, <3>3, <3>4, <3>5
  <2>6. CASE UNCHANGED <<cuts, mine>> /\ Step(id, Turned(g, g.prev))
    <3>1. PICK d : d = Turned(g, g.prev)
      OBVIOUS
    <3>2. PICK prev : prev = g.prev
      OBVIOUS
    <3>3. Sealing(id, d, mine[id], cuts)
      BY <1>1, <1>2, <1>3, <1>13, <2>0, <2>1, <2>2, <3>1, <3>2, SealCuts
    <3> QED BY <1>7, <2>6, <3>1, <3>3
  <2> QED BY <1>1, <1>13, <2>1, <2>2, <2>3, <2>5, <2>6, CutsTo, Zenon
<1>14. CASE g.seal /\ FinalSettles(id)
  <2>0. g.pc = "settle" /\ UNCHANGED <<cuts, mine>>
    BY <1>1, <1>14, SettlesTo
  <2>1. Fills(g, mine[id]) /\ Cleans(id, g, mine[id], cuts) /\ ~g.warmed /\ AtWork(g) /\ g.e.state = "ended"
    BY <1>3, <1>14, <2>0 DEF Sealing, Fills, AtWork
  <2>2. CASE Settled(g.e) /\ Step(id, Goes(g, "final", g.e, g.rung, 1))
    <3>1. PICK d : d = Goes(g, "final", g.e, g.rung, 1)
      OBVIOUS
    <3>2. d.pc = "final" /\ d.e = g.e /\ d.prev = g.prev /\ ~d.warmed /\ d.cam = 1
      BY <2>1, <3>1 DEF Goes, Go
    <3>3. AtWork(d) /\ Latest(id, d) = Latest(id, g) /\ \A k : Own(d, k) <=> Own(g, k)
      BY <3>2 DEF AtWork, Latest, Own
    <3>4. Fills(d, mine[id])
      BY <2>1, <2>2, <3>2, <3>3 DEF Fills
    <3>5. Cleans(id, d, mine[id], cuts)
      BY <2>0, <2>1, <3>2, <3>3 DEF Cleans, Spared
    <3>6. Seals(id, d, cuts)
      BY <3>2 DEF Seals
    <3>7. Sealing(id, d, mine[id], cuts)
      BY <3>4, <3>5, <3>6 DEF Sealing
    <3> QED BY <1>7, <2>0, <2>2, <3>1, <3>7
  <2>3. CASE Step(id, Goes(g, After(g), g.e, g.rung, g.cam))
    <3>1. PICK d : d = Goes(g, After(g), g.e, g.rung, g.cam)
      OBVIOUS
    <3>2. d.pc = "evict" /\ ~d.warmed
      BY <1>14, <2>1, <3>1 DEF Goes, Go, After
    <3> QED BY <1>7, <2>0, <2>3, <3>1, <3>2, SealIdle
  <2> QED BY <1>1, <1>14, <2>2, <2>3, SettlesTo
<1>15. CASE g.seal /\ FinalFills(id)
  <2>0. g.pc = "final"
    BY <1>1, <1>15, FillsTo
  <2>1. CASE /\ cuts' = cuts \cup {FinalKey(g)} /\ Step(id, Finals(g, g.failed))
             /\ mine' = [mine EXCEPT ![id] = mine[id] \cup {FinalKey(g)}]
    <3>1. PICK d : d = Finals(g, g.failed)
      OBVIOUS
    <3>2. PICK m : m = mine[id] \cup {FinalKey(g)}
      OBVIOUS
    <3>3. PICK c : c = cuts \cup {FinalKey(g)}
      OBVIOUS
    <3>4. PICK f \in BOOLEAN : f = g.failed
      BY <1>2
    <3>5. Sealing(id, d, m, c)
      BY <1>1, <1>3, <1>15, <2>0, <3>1, <3>2, <3>3, <3>4, SealFills
    <3>6. mine'[id] = m
      BY <1>8, <2>1, <3>2
    <3> QED BY <1>7, <2>1, <3>1, <3>3, <3>5, <3>6
  <2>2. CASE UNCHANGED <<cuts, mine>> /\ Step(id, Finals(g, TRUE))
    <3>1. PICK d : d = Finals(g, TRUE)
      OBVIOUS
    <3>2. Sealing(id, d, mine[id], cuts)
      BY <1>1, <1>3, <1>15, <2>0, <3>1, SealFills
    <3> QED BY <1>7, <2>2, <3>1, <3>2
  <2> QED BY <1>1, <1>15, <2>1, <2>2, FillsTo, Zenon
<1>16. CASE g.seal /\ EvictCheckpoints(id)
  <2>0. g.pc = "evict" /\ UNCHANGED mine /\ cuts' = cuts \ Checkpoints(g) /\ Step(id, Goes(g, "done", g.e, g.rung, g.cam))
    BY <1>1, <1>16, EvictsTo
  <2>1. PICK d : d = Goes(g, "done", g.e, g.rung, g.cam)
    OBVIOUS
  <2>2. d.pc = "done" /\ d.e = g.e /\ d.prev = g.prev /\ d.failed = g.failed /\ d.warmed = g.warmed
    BY <2>1 DEF Goes, Go
  <2>3. PICK c : c = cuts \ Checkpoints(g)
    OBVIOUS
  <2>4. CASE g.warmed
    <3>1. Sealing(id, d, mine[id], c)
      BY <1>1, <1>3, <1>16, <2>0, <2>2, <2>3, <2>4, SealEvicts
    <3> QED BY <1>7, <2>0, <2>1, <2>3, <3>1
  <2>5. CASE ~g.warmed
    BY <1>7, <2>0, <2>1, <2>2, <2>5, SealIdle
  <2> QED BY <2>4, <2>5
<1> QED BY <1>6, <1>9, <1>10, <1>11, <1>12, <1>13, <1>14, <1>15, <1>16 DEF Goroutine

\* Every step of every process, of every event.
LEMMA SealStep ==
  ASSUME TypeOK, OnceInv, ClosedInv, HeldInv, SealInv, [Next]_vars
  PROVE  SealInv'
<1> SUFFICES ASSUME NEW id \in Events PROVE Sealing(id, live[id], mine[id], cuts)'
  BY DEF SealInv
<1>1. ASSUME UNCHANGED <<live, mine, cuts>> PROVE Sealing(id, live[id], mine[id], cuts)'
  <2>1. PICK g : g = live[id]
    OBVIOUS
  <2>2. Alike(g, live'[id])
    BY <1>1, <2>1 DEF Alike
  <2> QED BY <1>1, <2>1, <2>2, SealKept
<1>2. CASE Apply
  BY <1>1, <1>2, ApplyTo DEF ApplyParts
<1>3. CASE Tick \/ UNCHANGED vars
  BY <1>1, <1>3 DEF Tick, vars
<1>4. ASSUME NEW j \in Events, StitchPage(j) \/ EventPage(j) PROVE UNCHANGED <<live, mine, cuts>>
  BY <1>4 DEF StitchPage, EventPage, Look
<1>5. ASSUME NEW j \in Events, Goroutine(j) PROVE Sealing(id, live[id], mine[id], cuts)'
  BY <1>5, SealGoroutine, SealBeside
<1> QED BY <1>1, <1>2, <1>3, <1>4, <1>5, SealWorker, SealWarm, SealView DEF Next, Views

\* warm.go warmLive: of the cuts a sealed event's goroutine has fetched under the
\* event's start only the final ones stay, and they are all there unless a fetch
\* failed, one had the key of a checkpoint or one was shed: the house page's bolt
\* tells the truth.
THEOREM SealAlwaysClean == Spec => []SealedClean
<1> DEFINE Inv == TypeOK /\ OnceInv /\ ClosedInv /\ HeldInv /\ SealInv
<1>1. ASSUME Init PROVE SealInv
  <2>1. \A id \in Events : live[id].seal = FALSE
    BY <1>1 DEF Init, Idle
  <2> QED BY <2>1 DEF SealInv, Sealing
<1>2. Init => Inv
  BY <1>1, TypeInit, OnceInit, ClosedInit, HeldInit
<1>3. Inv /\ [Next]_vars => Inv'
  BY TypeStep, OnceStep, ClosedStep, HeldStep, SealStep
<1>4. ASSUME Inv PROVE SealedClean
  <2> SUFFICES ASSUME NEW id \in Events, NEW g, g = live[id], g.pc = "done", g.seal, g.warmed, ~Shared(id, g.e)
               PROVE  /\ \A k \in cuts \cap mine[id] :
                           k[2] = g.e.start - Margin => k \in FinalCuts(id, g.e)
                      /\ \/ g.failed \/ OnRung(g) \/ store[id] # g.e
                         \/ FinalCuts(id, g.e) \cap shed # {} \/ ClipCached(id)
    BY DEF SealedClean, At
  <2>1. Fills(g, mine[id]) /\ Cleans(id, g, mine[id], cuts) /\ Seals(id, g, cuts) /\ AtWork(g)
    BY <1>4 DEF SealInv, Sealing, AtWork
  <2>2. g.e.state = "ended" /\ Settled(g.e) /\ Latest(id, g) = g.e
    BY <2>1 DEF Fills, Latest
  <2>3. \A k \in cuts \cap mine[id] : k[2] = g.e.start - Margin => k \in FinalCuts(id, g.e)
    BY <2>1, <2>2 DEF Cleans, Own, Spared
  <2>4. ASSUME ~g.failed, ~OnRung(g), store[id] = g.e, FinalCuts(id, g.e) \cap shed = {} PROVE ClipCached(id)
    <3>1. \A i \in 1..Len(EventCameras) : FinalOf(g, i) \in cuts \cup shed
      BY <2>1, <2>4 DEF Seals
    <3>2. PICK C : C = ToSet(EventCameras)
      OBVIOUS
    <3>3. C = {EventCameras[i] : i \in 1..Len(EventCameras)} /\ 1 \in 1..Len(EventCameras)
      BY <1>4, <3>2, CamerasOK, ElementsIs
    <3>4. \A c \in C : ClipCut(g.e, c, now) = {Key(c, g.e.start - Margin, g.e.end + Margin)}
      BY <2>2 DEF ClipCut, Running
    <3>5. \A c \in C : Key(c, g.e.start - Margin, g.e.end + Margin) \in cuts
      <4>1. \A c \in C : Key(c, g.e.start - Margin, g.e.end + Margin) \in FinalCuts(id, g.e)
        BY <3>2 DEF FinalCuts
      <4> QED BY <2>4, <3>1, <3>3, <4>1 DEF FinalOf
    <3>6. PICK K : K = UNION {ClipCut(g.e, c, now) : c \in C}
      OBVIOUS
    <3>7. K # {}
      <4>1. EventCameras[1] \in C
        BY <3>3
      <4>2. Key(EventCameras[1], g.e.start - Margin, g.e.end + Margin) \in ClipCut(g.e, EventCameras[1], now)
        BY <3>4, <4>1
      <4> QED BY <3>6, <4>1, <4>2
    <3>8. K \subseteq cuts
      <4> SUFFICES ASSUME NEW k \in K PROVE k \in cuts
        OBVIOUS
      <4>1. PICK c \in C : k \in ClipCut(g.e, c, now)
        BY <3>6
      <4>2. k = Key(c, g.e.start - Margin, g.e.end + Margin)
        BY <3>4, <4>1
      <4> QED BY <3>5, <4>1, <4>2
    <3> QED BY <2>2, <2>4, <3>2, <3>6, <3>7, <3>8 DEF ClipCached
  <2> QED BY <2>3, <2>4
<1> QED BY <1>2, <1>3, <1>4, PTL DEF Spec
==============================================================================
