--------------------------- MODULE OccupancyProofs ---------------------------
(***************************************************************************)
(* Proofs about Occupancy: for every configuration of watches, every set   *)
(* of objects and cameras, and every skew of the receive times.            *)
(***************************************************************************)
EXTENDS Occupancy, FiniteSetTheorems, WellFoundedInduction, TLAPS

------------------------------------------------------------------------------
(***************************************************************************)
(* What MaxPerCamera returns.                                              *)
(***************************************************************************)
\* A bounded, nonempty set of natural numbers has a maximum, and Max is it.
LEMMA MaxOfBounded ==
  ASSUME NEW S, S \subseteq Nat, S # {}, NEW b \in Nat, \A x \in S : x <= b
  PROVE  Max(S) \in S /\ \A x \in S : x <= Max(S)
<1> DEFINE U == {n \in Nat : \A x \in S : x <= n}
           R == {ss \in Nat \X Nat : ss[1] < ss[2]}
<1>1. U \subseteq Nat /\ U # {}
  OBVIOUS
<1>2. IsWellFoundedOn(R, Nat)
  BY NatLessThanWellFounded DEF OpToRel
<1>3. PICK m \in U : \A n \in U : <<n, m>> \notin R
  <2> HIDE DEF U, R
  <2> QED BY <1>1, <1>2, WFMin
<1>4. \A n \in U : m <= n
  <2> TAKE n \in U
  <2>1. n \in Nat /\ m \in Nat
    OBVIOUS
  <2>2. n < m => <<n, m>> \in R
    BY <2>1
  <2> QED BY <1>3, <2>1, <2>2
<1>5. m \in S
  <2>1. SUFFICES ASSUME m \notin S PROVE FALSE
    OBVIOUS
  <2>2. m # 0
    <3>1. PICK x \in S : TRUE
      OBVIOUS
    <3>2. x \in Nat /\ x <= m /\ m \in Nat
      BY <3>1
    <3> QED BY <2>1, <3>2
  <2>3. m - 1 \in U
    BY <2>1, <2>2
  <2> QED BY <2>3, <1>4
<1>6. \A x \in S : m >= x
  OBVIOUS
<1> QED BY <1>5, <1>6 DEF Max

On(S, c) == {o \in S : CameraOf[o] = c}

\* MaxPerCamera(S) is some camera's count, or 0, and no camera's count exceeds
\* it.
LEMMA MaxPerCameraIsMax ==
  ASSUME NEW S \in SUBSET Objects
  PROVE  /\ MaxPerCamera(S) \in Nat
         /\ \A c \in Cameras : Cardinality(On(S, c)) <= MaxPerCamera(S)
         /\ MaxPerCamera(S) # 0 =>
              \E c \in Cameras : MaxPerCamera(S) = Cardinality(On(S, c))
<1> DEFINE N == {0} \cup {Cardinality(On(S, c)) : c \in Cameras}
<1>1. \A c \in Cameras : /\ Cardinality(On(S, c)) \in Nat
                         /\ Cardinality(On(S, c)) <= Cardinality(Objects)
  <2> TAKE c \in Cameras
  <2>1. On(S, c) \in SUBSET Objects
    BY DEF On
  <2> QED BY <2>1, ObjectsAssumption, FS_Subset, FS_CardinalityType
<1>2. Cardinality(Objects) \in Nat
  BY ObjectsAssumption, FS_CardinalityType
<1>3. N \subseteq Nat /\ N # {} /\ \A x \in N : x <= Cardinality(Objects)
  BY <1>1, <1>2
<1>4. Max(N) \in N /\ \A x \in N : x <= Max(N)
  <2> HIDE DEF N
  <2> QED BY <1>2, <1>3, MaxOfBounded
<1>5. MaxPerCamera(S) = Max(N)
  BY DEF MaxPerCamera, On
<1>6. MaxPerCamera(S) \in Nat /\ MaxPerCamera(S) \in N
  BY <1>3, <1>4, <1>5
<1>7. \A c \in Cameras : Cardinality(On(S, c)) <= MaxPerCamera(S)
  BY <1>4, <1>5
<1>8. MaxPerCamera(S) # 0 => \E c \in Cameras : MaxPerCamera(S) = Cardinality(On(S, c))
  BY <1>6
<1> QED BY <1>6, <1>7, <1>8

\* More objects never lower the count.
LEMMA MaxPerCameraMonotone ==
  ASSUME NEW T \in SUBSET Objects, NEW S \in SUBSET T
  PROVE  MaxPerCamera(S) <= MaxPerCamera(T)
<1>1. S \in SUBSET Objects
  OBVIOUS
<1>2. CASE MaxPerCamera(S) = 0
  BY <1>2, MaxPerCameraIsMax
<1>3. CASE MaxPerCamera(S) # 0
  <2>1. PICK c \in Cameras : MaxPerCamera(S) = Cardinality(On(S, c))
    BY <1>1, <1>3, MaxPerCameraIsMax
  <2>2. On(S, c) \in SUBSET On(T, c) /\ On(T, c) \in SUBSET Objects
    BY DEF On
  <2>3. IsFiniteSet(On(T, c))
    BY <2>2, ObjectsAssumption, FS_Subset
  <2>4. /\ Cardinality(On(S, c)) <= Cardinality(On(T, c))
        /\ Cardinality(On(T, c)) \in Nat /\ Cardinality(On(S, c)) \in Nat
    BY <2>2, <2>3, FS_Subset, FS_CardinalityType
  <2>5. Cardinality(On(T, c)) <= MaxPerCamera(T) /\ MaxPerCamera(T) \in Nat
    BY MaxPerCameraIsMax
  <2> QED BY <2>1, <2>4, <2>5
<1> QED BY <1>2, <1>3

\* Nothing counted: the count is 0.
LEMMA MaxPerCameraEmpty == MaxPerCamera({}) = 0
<1>1. \A c \in Cameras : Cardinality(On({}, c)) = 0
  BY FS_EmptySet DEF On
<1> QED BY <1>1, MaxPerCameraIsMax

\* What counts returns: natural numbers, qualified tracks among the raw ones,
\* and a covering track whenever there is a raw one.
LEMMA Counts ==
  ASSUME NEW trk, NEW k, NEW t
  PROVE  /\ Raw(trk, k) \in Nat /\ Qualified(trk, k, t) \in Nat
         /\ Qualified(trk, k, t) <= Raw(trk, k)
         /\ Covering(trk, k) = {} => Raw(trk, k) = 0
<1>1. Covering(trk, k) \in SUBSET Objects
  BY DEF Covering
<1>2. Dwelt(trk, k, t) \in SUBSET Covering(trk, k)
  BY DEF Dwelt
<1>3. Dwelt(trk, k, t) \in SUBSET Objects
  BY <1>1, <1>2
<1>4. Raw(trk, k) \in Nat /\ Qualified(trk, k, t) \in Nat
  BY <1>1, <1>3, MaxPerCameraIsMax DEF Raw, Qualified
<1>5. Qualified(trk, k, t) <= Raw(trk, k)
  BY <1>1, <1>2, MaxPerCameraMonotone DEF Raw, Qualified
<1>6. Covering(trk, k) = {} => Raw(trk, k) = 0
  BY MaxPerCameraEmpty DEF Raw
<1> QED BY <1>4, <1>5, <1>6

------------------------------------------------------------------------------
(***************************************************************************)
(* One ledger, one tick.                                                   *)
(***************************************************************************)
\* A ledger's part of the inductive invariant, n being the latest receive time:
\* whoever is believed present was seen, and a deficit begins no earlier, but
\* for the skew, than the last covering sighting.
Anchored(l, n) ==
  /\ l.present > 0 => l.lastSeen # 0 /\ l.seenSource # Nobody
  /\ l.belowSince # 0 => l.lastSeen <= l.belowSince + Skew
  /\ l.lastSeen <= n

Later(t, n) == IF t > n THEN t ELSE n

\* The facts a tick is called with.
LedgerTick(l, k, q, raw, who, t, n) ==
  /\ l \in Ledger /\ k \in Ledgers
  /\ q \in Nat /\ raw \in Nat /\ q <= raw
  /\ who \in Objects \cup {Nobody} /\ (raw > 0 => who # Nobody)
  /\ t \in Times \ {0} /\ n \in Times /\ t >= n - Skew

\* The first half of a tick keeps a ledger a ledger.
LEMMA ComparedType ==
  ASSUME NEW l, NEW k, NEW q, NEW raw, NEW who, NEW t, NEW n,
         LedgerTick(l, k, q, raw, who, t, n)
  PROVE  Compared(l, raw, who, t) \in Ledger
<1> DEFINE c == Compared(l, raw, who, t)
<1>1. /\ c = [present |-> c.present, since |-> c.since, lastSeen |-> c.lastSeen,
              belowSince |-> c.belowSince, seenSource |-> c.seenSource]
      /\ c.present = l.present /\ c.since = l.since
      /\ c.lastSeen \in {l.lastSeen, t} /\ c.belowSince \in {l.belowSince, t, 0}
      /\ c.seenSource \in {l.seenSource, who}
  BY DEF LedgerTick, Compared, Ledger
<1>2. 0 \in Times /\ t \in Times
  BY ClockAssumption DEF LedgerTick, Times
<1> HIDE DEF c
<1>3. c \in Ledger
  BY <1>1, <1>2 DEF LedgerTick, Ledger
<1> QED BY <1>3 DEF c

\* So does the second half.
LEMMA TickedType ==
  ASSUME NEW l, NEW k, NEW q, NEW raw, NEW who, NEW t, NEW n,
         LedgerTick(l, k, q, raw, who, t, n)
  PROVE  Ticked(l, k, q, raw, t) \in Ledger
<1> DEFINE m == Ticked(l, k, q, raw, t)
<1>1. /\ m = [present |-> m.present, since |-> m.since, lastSeen |-> m.lastSeen,
              belowSince |-> m.belowSince, seenSource |-> m.seenSource]
      /\ m.present \in {l.present, q, raw} /\ m.since \in {l.since, t}
      /\ m.lastSeen = l.lastSeen /\ m.belowSince \in {l.belowSince, 0}
      /\ m.seenSource = l.seenSource
  BY DEF LedgerTick, Ticked, Ledger
<1>2. 0 \in Times /\ t \in Times
  BY ClockAssumption DEF LedgerTick, Times
<1> HIDE DEF m
<1>3. m \in Ledger
  BY <1>1, <1>2 DEF LedgerTick, Ledger
<1> QED BY <1>3 DEF m

\* A tick keeps the ledger anchored, and a departure it announces is anchored
\* at a sighting at least the grace, less the skew, before.
LEMMA TickAnchored ==
  ASSUME NEW l, NEW k, NEW q, NEW raw, NEW who, NEW t, NEW n,
         LedgerTick(l, k, q, raw, who, t, n), Anchored(l, n)
  PROVE  LET c == Compared(l, raw, who, t)
             m == Ticked(c, k, q, raw, t)
         IN  /\ Anchored(m, Later(t, n))
             /\ Departs(c, k, q, t) =>
                  /\ m.lastSeen # 0 /\ m.seenSource # Nobody
                  /\ t - m.lastSeen >= DepartAfter[k] - Skew
<1> DEFINE c == Compared(l, raw, who, t)
           m == Ticked(c, k, q, raw, t)
<1>0. c \in Ledger /\ l \in Ledger
  BY ComparedType DEF LedgerTick
<1>1. Anchored(c, Later(t, n))
  BY ClockAssumption DEF LedgerTick, Anchored, Compared, Ledger, Times, Later
<1>2. q > 0 /\ Arrives(c, q) => c.lastSeen # 0 /\ c.seenSource # Nobody
  BY ClockAssumption DEF LedgerTick, Arrives, Anchored, Compared, Ledger, Times
<1>3. m.lastSeen = c.lastSeen /\ m.seenSource = c.seenSource
  BY <1>0 DEF Ticked, Ledger
<1>4. Anchored(m, Later(t, n))
  <2> HIDE DEF c
  <2> QED BY <1>0, <1>1, <1>2 DEF LedgerTick, Anchored, Ticked, Arrives, Departs, Ledger, Times, Later
<1>5. Departs(c, k, q, t) => /\ c.lastSeen # 0 /\ c.seenSource # Nobody
                            /\ t - c.lastSeen >= DepartAfter[k] - Skew
  <2> HIDE DEF c
  <2> QED BY <1>0, <1>1, ClockAssumption, TimersAssumption
          DEF LedgerTick, Anchored, Departs, Ledger, Times
<1> QED BY <1>3, <1>4, <1>5

\* A tick leaves the belief at or above the qualified count, and a deficit with
\* its clock running and not yet out.
LEMMA TickBracketed ==
  ASSUME NEW l, NEW k, NEW q, NEW raw, NEW who, NEW t, NEW n,
         LedgerTick(l, k, q, raw, who, t, n)
  PROVE  LET m == Ticked(Compared(l, raw, who, t), k, q, raw, t)
         IN  /\ q <= m.present
             /\ raw >= m.present => m.belowSince = 0
             /\ raw < m.present =>
                  /\ m.belowSince = IF l.belowSince = 0 THEN t ELSE l.belowSince
                  /\ t - m.belowSince < DepartAfter[k]
<1> DEFINE c == Compared(l, raw, who, t)
           m == Ticked(c, k, q, raw, t)
<1>0. c \in Ledger /\ l \in Ledger
  BY ComparedType DEF LedgerTick
<1>1. c.present = l.present
  BY DEF LedgerTick, Compared, Ledger
<1>2. /\ raw >= c.present => c.belowSince = 0
      /\ raw < c.present => /\ c.belowSince = IF l.belowSince = 0 THEN t ELSE l.belowSince
                            /\ c.belowSince # 0
  BY DEF LedgerTick, Compared, Ledger, Times
<1>3. DepartAfter[k] \in Nat \ {0}
  BY TimersAssumption DEF LedgerTick
<1> HIDE DEF c
<1>4. /\ q <= m.present
      /\ raw >= m.present => m.belowSince = 0
      /\ raw < m.present => /\ ~Arrives(c, q) /\ ~Departs(c, k, q, t)
                            /\ m = c
  BY <1>0, <1>2 DEF LedgerTick, Ticked, Arrives, Departs, Ledger, Times
<1>5. raw < m.present => t - m.belowSince < DepartAfter[k]
  BY <1>0, <1>2, <1>3, <1>4 DEF LedgerTick, Departs, Ledger, Times
<1> QED BY <1>2, <1>4, <1>5 DEF c

------------------------------------------------------------------------------
(***************************************************************************)
(* One message: tick over all ledgers, and the types.                      *)
(***************************************************************************)
\* What one tick does, ledger by ledger; c(k) is a ledger between its halves.
TickedAll(who, t) ==
  LET q(k) == Qualified(tracks', k, t)
      raw(k) == Raw(tracks', k)
      c(k) == Compared(ledgers[k], raw(k), who[k], t)
  IN  /\ \A k \in Ledgers : LedgerTick(ledgers[k], k, q(k), raw(k), who[k], t, now)
      /\ ledgers' = [k \in Ledgers |-> Ticked(c(k), k, q(k), raw(k), t)]
      /\ \A e \in changes' : \E k \in Ledgers :
           \/ Arrives(c(k), q(k)) /\ e = EventOf("arrival", ledgers'[k], k, tracks', t)
           \/ Departs(c(k), k, q(k), t) /\ e = EventOf("departure", ledgers'[k], k, tracks', t)

\* Every message's tick, in those terms.
LEMMA TickIsTickedAll ==
  ASSUME TypeOK, NEW t \in ReceiveTimes, Tick(tracks', t)
  PROVE  \E who : TickedAll(who, t)
<1>1. PICK who \in Remembered(tracks') :
        LET q    == [k \in Ledgers |-> Qualified(tracks', k, t)]
            raw  == [k \in Ledgers |-> Raw(tracks', k)]
            comp == [k \in Ledgers |-> Compared(ledgers[k], raw[k], who[k], t)]
            next == [k \in Ledgers |-> Ticked(comp[k], k, q[k], raw[k], t)]
        IN  /\ ledgers' = next
            /\ changes' =
                 {EventOf("arrival", next[k], k, tracks', t) :
                    k \in {j \in Ledgers : Arrives(comp[j], q[j])}}
                 \cup
                 {EventOf("departure", next[k], k, tracks', t) :
                    k \in {j \in Ledgers : Departs(comp[j], j, q[j], t)}}
  BY DEF Tick
<1>2. ASSUME NEW k \in Ledgers
      PROVE  LedgerTick(ledgers[k], k, Qualified(tracks', k, t), Raw(tracks', k), who[k], t, now)
  <2>1. /\ Raw(tracks', k) \in Nat /\ Qualified(tracks', k, t) \in Nat
        /\ Qualified(tracks', k, t) <= Raw(tracks', k)
        /\ Covering(tracks', k) = {} => Raw(tracks', k) = 0
    BY Counts
  <2>2. who[k] \in Objects \cup {Nobody} /\ (Raw(tracks', k) > 0 => who[k] # Nobody)
    BY <2>1, ObjectsAssumption DEF Remembered, Covering
  <2>3. t \in Times \ {0} /\ now \in Times /\ t >= now - Skew
    BY ClockAssumption DEF ReceiveTimes, TypeOK, Times
  <2>4. ledgers[k] \in Ledger
    BY DEF TypeOK
  <2> QED BY <2>1, <2>2, <2>3, <2>4 DEF LedgerTick
<1>3. TickedAll(who, t)
  BY <1>1, <1>2 DEF TickedAll
<1> QED BY <1>3

\* A ledger's zone is watched.
LEMMA LedgerZoneWatched == \A k \in Ledgers : k[1] \in WatchedZones
BY DEF Ledgers, WatchedZones

\* absorb keeps the track table well-formed.
LEMMA AbsorbType ==
  ASSUME NEW trk \in [Objects -> Track], NEW m \in Sightings, NEW t \in Times
  PROVE  Absorb(trk, m, t) \in [Objects -> Track] /\ Absent \in Track
<1>1. Absent \in Track
  BY ClockAssumption DEF Absent, Track, Times
<1>2. m.object \in Objects /\ m.stationary \in BOOLEAN /\ m.box \in Boxes \cup {NoBox}
  BY DEF Sightings
<1>3. Sighted(trk[m.object], m, t) \in Track
  <2> DEFINE old == trk[m.object]
  <2>1. old \in Track
    BY <1>2
  <2>2. old.entered \in [WatchedZones -> Times] /\ old.box \in Boxes \cup {NoBox} /\ 0 \in Times
    BY <2>1, ClockAssumption DEF Track, Times
  <2>3. [z \in WatchedZones |-> IF z \notin Claimed(m) THEN 0
                                ELSE IF old.entered[z] # 0 THEN old.entered[z] ELSE t]
          \in [WatchedZones -> Times]
    BY <2>2
  <2> QED BY <1>2, <2>2, <2>3 DEF Sighted, Track
<1> QED BY <1>1, <1>2, <1>3 DEF Absorb

\* Every action receives one message: it ticks, and moves the clock.
LEMMA NextReceives ==
  ASSUME TypeOK, Next
  PROVE  \E t \in ReceiveTimes : /\ Tick(tracks', t) /\ Receive(t)
                                 /\ tracks' \in [Objects -> Track]
                                 /\ held' \in [Objects -> [WatchedZones -> Times]]
<1>1. PICK t \in ReceiveTimes : \/ \E m \in Sightings : ObserveSighting(m, t)
                                \/ \E o \in Objects : ObserveEnd(o, t)
                                \/ ObserveOther(t)
  BY DEF Next
<1>2. t \in Times /\ 0 \in Times
  BY ClockAssumption DEF ReceiveTimes, Times
<1>3. /\ tracks \in [Objects -> Track]
      /\ held \in [Objects -> [WatchedZones -> Times]]
  BY DEF TypeOK
<1>4. ASSUME NEW o \in Objects, NEW in, Held(o, in, t)
      PROVE  held' \in [Objects -> [WatchedZones -> Times]]
  <2>1. [z \in WatchedZones |-> IF z \notin in THEN 0
                                ELSE IF held[o][z] = 0 THEN t ELSE held[o][z]]
          \in [WatchedZones -> Times]
    BY <1>2, <1>3
  <2> QED BY <1>3, <1>4, <2>1 DEF Held
<1>5. CASE \E m \in Sightings : ObserveSighting(m, t)
  <2>1. PICK m \in Sightings : ObserveSighting(m, t)
    BY <1>5
  <2>2. tracks' \in [Objects -> Track]
    BY <1>2, <1>3, <2>1, AbsorbType DEF ObserveSighting
  <2>3. m.object \in Objects
    BY DEF Sightings
  <2>4. held' \in [Objects -> [WatchedZones -> Times]]
    BY <1>4, <2>1, <2>3 DEF ObserveSighting
  <2> QED BY <2>1, <2>2, <2>4 DEF ObserveSighting
<1>6. CASE \E o \in Objects : ObserveEnd(o, t)
  <2>1. PICK o \in Objects : ObserveEnd(o, t)
    BY <1>6
  <2>2. Absent \in Track
    BY ClockAssumption DEF Absent, Track, Times
  <2>3. tracks' \in [Objects -> Track]
    BY <1>3, <2>1, <2>2 DEF ObserveEnd
  <2>4. held' \in [Objects -> [WatchedZones -> Times]]
    BY <1>4, <2>1 DEF ObserveEnd
  <2> QED BY <2>1, <2>3, <2>4 DEF ObserveEnd
<1>7. CASE ObserveOther(t)
  <2>1. Tick(tracks', t) /\ Receive(t)
    BY <1>7 DEF ObserveOther
  <2>2. tracks' = tracks /\ held' = held
    BY <1>7 DEF ObserveOther
  <2>3. /\ tracks' \in [Objects -> Track]
        /\ held' \in [Objects -> [WatchedZones -> Times]]
    BY <1>3, <2>2
  <2> QED BY <2>1, <2>3
<1> QED BY <1>1, <1>5, <1>6, <1>7

\* The events of a tick are well-formed.
LEMMA EventOfType ==
  ASSUME NEW l \in Ledger, NEW k \in Ledgers, NEW trk, NEW t \in Times,
         NEW kind \in {"arrival", "departure"}
  PROVE  EventOf(kind, l, k, trk, t) \in Event
<1>1. Covering(trk, k) \in SUBSET Objects
  BY DEF Covering
<1>2. ({l.seenSource} \ {Nobody}) \in SUBSET Objects
  BY DEF Ledger
<1> QED BY <1>1, <1>2 DEF EventOf, Event, Ledger

\* The tables of the engine keep their types through a step.
LEMMA TypeStep == TypeOK /\ [Next]_vars => TypeOK'
<1> SUFFICES ASSUME TypeOK, [Next]_vars PROVE TypeOK'
  OBVIOUS
<1>1. CASE Next
  <2>1. PICK t \in ReceiveTimes : /\ Tick(tracks', t) /\ Receive(t)
                                  /\ tracks' \in [Objects -> Track]
                                  /\ held' \in [Objects -> [WatchedZones -> Times]]
    BY <1>1, NextReceives
  <2>2. PICK who : TickedAll(who, t)
    BY <2>1, TickIsTickedAll
  <2>3. t \in Times \ {0} /\ 0 \in Times
    BY ClockAssumption DEF ReceiveTimes, Times
  <2>4. ledgers' \in [Ledgers -> Ledger]
    <3>1. ASSUME NEW k \in Ledgers
          PROVE  Ticked(Compared(ledgers[k], Raw(tracks', k), who[k], t), k,
                        Qualified(tracks', k, t), Raw(tracks', k), t) \in Ledger
      <4> DEFINE c == Compared(ledgers[k], Raw(tracks', k), who[k], t)
      <4>1. LedgerTick(ledgers[k], k, Qualified(tracks', k, t), Raw(tracks', k), who[k], t, now)
        BY <2>2 DEF TickedAll
      <4>2. c \in Ledger
        BY <4>1, ComparedType
      <4>3. LedgerTick(c, k, Qualified(tracks', k, t), Raw(tracks', k), who[k], t, now)
        BY <4>1, <4>2 DEF LedgerTick
      <4> QED BY <4>3, TickedType
    <3> QED BY <2>2, <3>1 DEF TickedAll
  <2>5. changes' \in SUBSET Event
    BY <2>2, <2>3, <2>4, EventOfType DEF TickedAll
  <2>6. at' \in Times \ {0} /\ now' \in Times \ {0}
    BY <2>1, <2>3 DEF Receive, TypeOK
  <2>7. dip' \in [Ledgers -> Times]
    BY <2>1, <2>3 DEF Receive, TypeOK
  <2>8. issued' \in SUBSET (Ledgers \X Times)
    BY <2>1, <2>5 DEF Receive, TypeOK, Identity, Event
  <2> QED BY <2>1, <2>4, <2>5, <2>6, <2>7, <2>8 DEF TypeOK
<1>2. CASE UNCHANGED vars
  BY <1>2 DEF vars, TypeOK
<1> QED BY <1>1, <1>2

\* The initial tables have their types.
LEMMA TypeInit == Init => TypeOK
<1> SUFFICES ASSUME Init PROVE TypeOK
  OBVIOUS
<1>1. 0 \in Times /\ 1 \in Times \ {0} /\ 0 \in Nat
  BY ClockAssumption DEF Times
<1>2. Absent \in Track /\ NewLedger \in Ledger
  BY <1>1 DEF Absent, Track, NewLedger, Ledger
<1> QED BY <1>1, <1>2 DEF Init, TypeOK

\* The engine's tables have their types in every reachable state, whatever the
\* watches and whatever Frigate sends (occupancy.go Observe).
THEOREM TypeCorrect == Spec => []TypeOK
BY TypeInit, TypeStep, PTL DEF Spec

------------------------------------------------------------------------------
(***************************************************************************)
(* The belief is bracketed by what is seen.                                *)
(***************************************************************************)
\* The strengthening: the engine's own deficit clock, belowSince, is the
\* history variable dip, so it runs exactly while the belief exceeds the
\* visible count.
BracketInv ==
  /\ TypeOK
  /\ \A k \in Ledgers : dip[k] = ledgers[k].belowSince
  /\ BeliefBracketed

\* Every step keeps the belief bracketed.
LEMMA BracketStep == BracketInv /\ [Next]_vars => BracketInv'
<1> SUFFICES ASSUME BracketInv, [Next]_vars PROVE BracketInv'
  OBVIOUS
<1>1. TypeOK /\ TypeOK'
  BY TypeStep DEF BracketInv
<1>2. CASE Next
  <2>1. PICK t \in ReceiveTimes : Tick(tracks', t) /\ Receive(t)
    BY <1>1, <1>2, NextReceives
  <2>2. PICK who : TickedAll(who, t)
    BY <1>1, <2>1, TickIsTickedAll
  <2>3. ASSUME NEW k \in Ledgers
        PROVE  /\ dip'[k] = ledgers'[k].belowSince
               /\ Qualified(tracks', k, at') <= ledgers'[k].present
               /\ Raw(tracks', k) < ledgers'[k].present => at' - dip'[k] < DepartAfter[k]
    <3> DEFINE q == Qualified(tracks', k, t)
               raw == Raw(tracks', k)
               m == ledgers'[k]
    <3>1. /\ LedgerTick(ledgers[k], k, q, raw, who[k], t, now)
          /\ m = Ticked(Compared(ledgers[k], raw, who[k], t), k, q, raw, t)
      BY <2>2 DEF TickedAll
    <3>2. /\ q <= m.present
          /\ raw >= m.present => m.belowSince = 0
          /\ raw < m.present =>
               /\ m.belowSince = IF ledgers[k].belowSince = 0 THEN t ELSE ledgers[k].belowSince
               /\ t - m.belowSince < DepartAfter[k]
      BY <3>1, TickBracketed
    <3>3. m.present \in Nat /\ raw \in Nat
      BY <1>1, Counts DEF TypeOK, Ledger
    <3>4. at' = t /\ dip'[k] = IF raw >= m.present THEN 0
                               ELSE IF dip[k] = 0 THEN t ELSE dip[k]
      BY <2>1 DEF Receive
    <3>5. dip[k] = ledgers[k].belowSince
      BY DEF BracketInv
    <3>6. dip'[k] = m.belowSince
      BY <3>2, <3>3, <3>4, <3>5
    <3> QED BY <3>2, <3>4, <3>6
  <2> QED BY <1>1, <2>3 DEF BracketInv, BeliefBracketed
<1>3. CASE UNCHANGED vars
  BY <1>3 DEF vars, BracketInv, TypeOK, BeliefBracketed
<1> QED BY <1>2, <1>3

\* Nothing seen and nothing believed is bracketed.
LEMMA BracketInit == Init => BracketInv
<1> SUFFICES ASSUME Init PROVE BracketInv
  OBVIOUS
<1>1. TypeOK
  BY TypeInit
<1>2. ASSUME NEW k \in Ledgers
      PROVE  /\ dip[k] = ledgers[k].belowSince
             /\ Qualified(tracks, k, at) <= ledgers[k].present
             /\ ~(Raw(tracks, k) < ledgers[k].present)
  <2>1. Covering(tracks, k) = {}
    BY DEF Init, Covering, Absent
  <2>2. Raw(tracks, k) = 0 /\ Qualified(tracks, k, at) <= 0
    BY <2>1, Counts
  <2> QED BY <2>2 DEF Init, NewLedger
<1> QED BY <1>1, <1>2 DEF BracketInv, BeliefBracketed

\* After every Observe no object that has dwelt is missing from the count, and
\* the count has not exceeded the visible objects for a whole DepartAfter
\* (occupancy.go tick).
THEOREM BeliefIsBracketed == Spec => []BeliefBracketed
<1>1. BracketInv => BeliefBracketed
  BY DEF BracketInv
<1> QED BY <1>1, BracketInit, BracketStep, PTL DEF Spec

------------------------------------------------------------------------------
(***************************************************************************)
(* A departure is anchored at a sighting.                                  *)
(***************************************************************************)
\* The strengthening: every ledger is Anchored.
AnchorInv ==
  /\ TypeOK
  /\ \A k \in Ledgers : Anchored(ledgers[k], now)
  /\ DepartureAnchored

\* Every step keeps the ledgers anchored, and announces only anchored
\* departures.
LEMMA AnchorStep == AnchorInv /\ [Next]_vars => AnchorInv'
<1> SUFFICES ASSUME AnchorInv, [Next]_vars PROVE AnchorInv'
  OBVIOUS
<1>1. TypeOK /\ TypeOK'
  BY TypeStep DEF AnchorInv
<1>2. CASE Next
  <2>1. PICK t \in ReceiveTimes : Tick(tracks', t) /\ Receive(t)
    BY <1>1, <1>2, NextReceives
  <2>2. PICK who : TickedAll(who, t)
    BY <1>1, <2>1, TickIsTickedAll
  <2> DEFINE c(k) == Compared(ledgers[k], Raw(tracks', k), who[k], t)
  <2>3. ASSUME NEW k \in Ledgers
        PROVE  /\ Anchored(ledgers'[k], now')
               /\ Departs(c(k), k, Qualified(tracks', k, t), t) =>
                    /\ ledgers'[k].lastSeen # 0 /\ ledgers'[k].seenSource # Nobody
                    /\ t - ledgers'[k].lastSeen >= DepartAfter[k] - Skew
    <3>1. /\ LedgerTick(ledgers[k], k, Qualified(tracks', k, t), Raw(tracks', k), who[k], t, now)
          /\ ledgers'[k] = Ticked(c(k), k, Qualified(tracks', k, t), Raw(tracks', k), t)
      BY <2>2 DEF TickedAll
    <3>2. Anchored(ledgers[k], now)
      BY DEF AnchorInv
    <3>3. now' = Later(t, now)
      BY <2>1 DEF Receive, Later
    <3> QED BY <3>1, <3>2, <3>3, TickAnchored
  <2>4. ASSUME NEW e \in changes', e.kind = "departure"
        PROVE  /\ e.startedAt # 0 /\ e.sources # {}
               /\ e.at - e.startedAt >= DepartAfter[e.ledger] - Skew
    <3>1. PICK k \in Ledgers : /\ Departs(c(k), k, Qualified(tracks', k, t), t)
                               /\ e = EventOf("departure", ledgers'[k], k, tracks', t)
      BY <2>2, <2>4 DEF TickedAll, EventOf
    <3>2. /\ e.at = t /\ e.ledger = k
          /\ ledgers'[k].lastSeen # 0 => /\ e.startedAt = ledgers'[k].lastSeen
                                         /\ {ledgers'[k].seenSource} \ {Nobody} \subseteq e.sources
      BY <3>1 DEF EventOf
    <3> QED BY <2>3, <3>1, <3>2
  <2> QED BY <1>1, <2>3, <2>4 DEF AnchorInv, DepartureAnchored
<1>3. CASE UNCHANGED vars
  BY <1>3 DEF vars, AnchorInv, TypeOK, DepartureAnchored
<1> QED BY <1>2, <1>3

\* The empty ledgers are anchored.
LEMMA AnchorInit == Init => AnchorInv
BY TypeInit, ClockAssumption DEF Init, AnchorInv, DepartureAnchored, Anchored, NewLedger

\* Every departure is anchored at a sighting by a remembered object, at least
\* DepartAfter less the clock's skew before it is announced (occupancy.go tick
\* and event).
THEOREM DeparturesAnchored == Spec => []DepartureAnchored
<1>1. AnchorInv => DepartureAnchored
  BY DEF AnchorInv
<1> QED BY <1>1, AnchorInit, AnchorStep, PTL DEF Spec

------------------------------------------------------------------------------
(***************************************************************************)
(* A spot is counted once.                                                 *)
(***************************************************************************)
\* iou does not depend on the order of its arguments.
LEMMA OverlapSymmetric ==
  ASSUME NEW a \in Boxes \cup {NoBox}, NEW b \in Boxes \cup {NoBox}, Overlap(a, b)
  PROVE  Overlap(b, a)
<1>1. a # NoBox /\ b # NoBox
  BY DEF Overlap
<1>2. \A i \in 1..4 : a[i] \in Int /\ b[i] \in Int
  BY <1>1, BoxesAssumption
<1> DEFINE lo(x, y) == IF x <= y THEN x ELSE y
           hi(x, y) == IF x <= y THEN y ELSE x
<1>3. /\ lo(a[3], b[3]) = lo(b[3], a[3]) /\ lo(a[4], b[4]) = lo(b[4], a[4])
      /\ hi(a[1], b[1]) = hi(b[1], a[1]) /\ hi(a[2], b[2]) = hi(b[2], a[2])
  BY <1>2
<1> DEFINE ix == lo(a[3], b[3]) - hi(a[1], b[1])
           iy == lo(a[4], b[4]) - hi(a[2], b[2])
           A == (a[3] - a[1]) * (a[4] - a[2])
           B == (b[3] - b[1]) * (b[4] - b[2])
<1>4. A \in Int /\ B \in Int /\ ix * iy \in Int
  BY <1>2
<1>5. A + B - ix * iy = B + A - ix * iy
  <2> HIDE DEF A, B, ix, iy
  <2> QED BY <1>4
<1>6. /\ ix = lo(b[3], a[3]) - hi(b[1], a[1])
      /\ iy = lo(b[4], a[4]) - hi(b[2], a[2])
  BY <1>3
<1>7. ix > 0 /\ iy > 0 /\ A + B - ix * iy > 0 /\ 10 * (ix * iy) >= 7 * (A + B - ix * iy)
  BY DEF Overlap
<1>8. ix > 0 /\ iy > 0 /\ B + A - ix * iy > 0 /\ 10 * (ix * iy) >= 7 * (B + A - ix * iy)
  BY <1>5, <1>7
<1> QED BY <1>1, <1>6, <1>8 DEF Overlap

\* Every step keeps parked tracks off each other's spots.
LEMMA SpotStep == TypeOK /\ SpotCountedOnce /\ [Next]_vars => SpotCountedOnce'
<1> SUFFICES ASSUME TypeOK, SpotCountedOnce, [Next]_vars,
                    NEW o \in Objects, NEW p \in Objects, o # p,
                    CameraOf[o] = CameraOf[p], LabelOf[o] = LabelOf[p],
                    tracks'[o].live, tracks'[p].live, tracks'[o].parked, tracks'[p].parked
             PROVE  ~Overlap(tracks'[o].box, tracks'[p].box)
  BY DEF SpotCountedOnce
<1>1. TypeOK'
  BY TypeStep
<1>2. /\ tracks'[o].box \in Boxes \cup {NoBox} /\ tracks'[p].box \in Boxes \cup {NoBox}
  BY <1>1 DEF TypeOK, Track
<1>3. ASSUME tracks'[o] = tracks[o], tracks'[p] = tracks[p]
      PROVE  ~Overlap(tracks'[o].box, tracks'[p].box)
  BY <1>3 DEF SpotCountedOnce
<1>4. ASSUME NEW t, NEW m \in Sightings, tracks' = Absorb(tracks, m, t)
      PROVE  ~Overlap(tracks'[o].box, tracks'[p].box)
  <2>1. m.object \in Objects
    BY DEF Sightings
  <2>2. \A x \in Objects : x # m.object /\ tracks'[x].live => tracks'[x] = tracks[x]
    BY <1>4 DEF Absorb, Absent
  <2>3. ASSUME NEW x \in Objects, x # m.object, tracks'[x].live,
               CameraOf[x] = CameraOf[m.object], LabelOf[x] = LabelOf[m.object],
               tracks'[m.object].parked
        PROVE  ~Overlap(tracks'[m.object].box, tracks'[x].box)
    <3>1. tracks'[m.object] = Sighted(tracks[m.object], m, t)
      BY <1>4, <2>1 DEF Absorb
    <3>2. ~Supersedes(tracks'[m.object], m.object, tracks[x], x)
      BY <1>4, <2>3, <3>1 DEF Absorb, Absent
    <3> QED BY <2>2, <2>3, <3>2 DEF Supersedes
  <2>4. CASE o # m.object /\ p # m.object
    BY <1>3, <2>2, <2>4
  <2>5. CASE o = m.object
    BY <2>3, <2>5
  <2>6. CASE p = m.object
    <3>1. ~Overlap(tracks'[p].box, tracks'[o].box)
      BY <2>3, <2>6
    <3> QED BY <1>2, <3>1, OverlapSymmetric
  <2> QED BY <2>4, <2>5, <2>6
<1>5. CASE Next
  <2>1. PICK t \in ReceiveTimes : \/ \E m \in Sightings : ObserveSighting(m, t)
                                  \/ \E x \in Objects : ObserveEnd(x, t)
                                  \/ ObserveOther(t)
    BY <1>5 DEF Next
  <2>2. CASE \E m \in Sightings : ObserveSighting(m, t)
    <3>1. PICK m \in Sightings : \/ tracks' = Absorb(tracks, m, t)
                                 \/ tracks' = tracks
      BY <2>2 DEF ObserveSighting
    <3> QED BY <1>3, <1>4, <3>1
  <2>3. CASE \E x \in Objects : ObserveEnd(x, t)
    <3>1. PICK x \in Objects : \/ tracks' = [tracks EXCEPT ![x] = Absent]
                               \/ tracks' = tracks
      BY <2>3 DEF ObserveEnd
    <3>2. tracks'[o] = tracks[o] /\ tracks'[p] = tracks[p]
      BY <3>1 DEF TypeOK, Absent
    <3> QED BY <1>3, <3>2
  <2>4. CASE ObserveOther(t)
    BY <1>3, <2>4 DEF ObserveOther
  <2> QED BY <2>1, <2>2, <2>3, <2>4
<1>6. CASE UNCHANGED vars
  BY <1>3, <1>6 DEF vars
<1> QED BY <1>5, <1>6

\* Two parked tracks of one label on one camera never keep overlapping boxes
\* (occupancy.go absorb), whatever identities Frigate gives and loses.
THEOREM SpotsCountedOnce == Spec => []SpotCountedOnce
<1>1. Init => SpotCountedOnce
  BY DEF Init, SpotCountedOnce, Absent
<1> QED BY <1>1, SpotStep, TypeCorrect, PTL DEF Spec

------------------------------------------------------------------------------
(***************************************************************************)
(* An arrival has dwelt.                                                   *)
(***************************************************************************)
\* The strengthening: a track's dwell clock never started before, but for the
\* skew, the history of uninterrupted reports did.
DwellClocks ==
  /\ \A o \in Objects : LabelOf[o] \notin WatchedLabels => tracks[o] = Absent
  /\ \A o \in Objects, z \in WatchedZones :
       /\ held[o][z] <= now
       /\ tracks[o].entered[z] # 0 =>
            held[o][z] # 0 /\ held[o][z] <= tracks[o].entered[z] + Skew

\* Every step keeps the dwell clocks behind the history.
LEMMA DwellStep == TypeOK /\ DwellClocks /\ [Next]_vars => DwellClocks'
<1> SUFFICES ASSUME TypeOK, DwellClocks, [Next]_vars PROVE DwellClocks'
  OBVIOUS
<1>1. TypeOK'
  BY TypeStep
<1>2. CASE Next
  <2>1. PICK t \in ReceiveTimes : \/ \E m \in Sightings : ObserveSighting(m, t)
                                  \/ \E x \in Objects : ObserveEnd(x, t)
                                  \/ ObserveOther(t)
    BY <1>2 DEF Next
  <2>2. /\ t \in Nat \ {0} /\ now \in Nat /\ t >= now - Skew /\ Skew \in Nat
    BY ClockAssumption DEF ReceiveTimes, TypeOK, Times
  <2>3. now' = IF t > now THEN t ELSE now
    BY <2>1 DEF ObserveSighting, ObserveEnd, ObserveOther, Receive
  <2>4. now' \in Nat /\ now <= now' /\ t <= now' /\ now <= t + Skew
    BY <2>2, <2>3
  <2>5. \A x \in Objects, z \in WatchedZones :
          /\ held[x][z] \in Nat /\ held[x][z] <= now
          /\ tracks[x].entered[z] \in Nat
          /\ tracks[x].entered[z] # 0 =>
               held[x][z] # 0 /\ held[x][z] <= tracks[x].entered[z] + Skew
    BY DEF DwellClocks, TypeOK, Track, Times
  <2>6. CASE \E m \in Sightings : ObserveSighting(m, t)
    <3>1. PICK m \in Sightings : ObserveSighting(m, t)
      BY <2>6
    <3>2. m.object \in Objects
      BY DEF Sightings
    <3>3. held' = [held EXCEPT ![m.object] = [z \in WatchedZones |->
                     IF z \notin Claimed(m) THEN 0
                     ELSE IF held[m.object][z] = 0 THEN t ELSE held[m.object][z]]]
      BY <3>1, <3>2 DEF ObserveSighting, Held, TypeOK
    <3>4. \A z \in WatchedZones :
            held'[m.object][z] = IF z \notin Claimed(m) THEN 0
                                 ELSE IF held[m.object][z] = 0 THEN t ELSE held[m.object][z]
      BY <3>2, <3>3 DEF TypeOK
    <3>5. \A x \in Objects : x # m.object => held'[x] = held[x]
      BY <3>2, <3>3 DEF TypeOK
    <3>6. \A x \in Objects, z \in WatchedZones : held'[x][z] <= now'
      BY <2>2, <2>4, <2>5, <3>4, <3>5
    <3>7. CASE LabelOf[m.object] \in WatchedLabels
      <4>1. tracks' = Absorb(tracks, m, t)
        BY <3>1, <3>7 DEF ObserveSighting
      <4>2. \A x \in Objects : x # m.object => tracks'[x] \in {tracks[x], Absent}
        BY <4>1 DEF Absorb
      <4>3. \A z \in WatchedZones : tracks'[m.object].entered[z] =
              IF z \notin Claimed(m) THEN 0
              ELSE IF tracks[m.object].entered[z] # 0 THEN tracks[m.object].entered[z] ELSE t
        BY <3>2, <4>1 DEF Absorb, Sighted
      <4>4. \A x \in Objects : LabelOf[x] \notin WatchedLabels => tracks'[x] = Absent
        BY <3>7, <4>2 DEF DwellClocks
      <4>5. \A z \in WatchedZones : tracks'[m.object].entered[z] # 0 =>
              held'[m.object][z] # 0 /\ held'[m.object][z] <= tracks'[m.object].entered[z] + Skew
        BY <2>2, <2>4, <2>5, <3>2, <3>4, <4>3
      <4>6. \A x \in Objects, z \in WatchedZones : x # m.object /\ tracks'[x].entered[z] # 0 =>
              held'[x][z] # 0 /\ held'[x][z] <= tracks'[x].entered[z] + Skew
        BY <2>5, <3>5, <4>2 DEF Absent
      <4> QED BY <3>6, <4>4, <4>5, <4>6 DEF DwellClocks
    <3>8. CASE LabelOf[m.object] \notin WatchedLabels
      <4>1. tracks' = tracks
        BY <3>1, <3>8 DEF ObserveSighting
      <4>2. tracks[m.object] = Absent
        BY <3>2, <3>8 DEF DwellClocks
      <4>3. \A x \in Objects, z \in WatchedZones : tracks'[x].entered[z] # 0 =>
              held'[x][z] # 0 /\ held'[x][z] <= tracks'[x].entered[z] + Skew
        BY <2>5, <3>5, <4>1, <4>2 DEF Absent
      <4>4. \A x \in Objects : LabelOf[x] \notin WatchedLabels => tracks'[x] = Absent
        BY <4>1 DEF DwellClocks
      <4> QED BY <3>6, <4>3, <4>4 DEF DwellClocks
    <3> QED BY <3>7, <3>8
  <2>7. CASE \E x \in Objects : ObserveEnd(x, t)
    <3>1. PICK o \in Objects : ObserveEnd(o, t)
      BY <2>7
    <3>2. /\ \A x \in Objects : x # o => held'[x] = held[x] /\ tracks'[x] = tracks[x]
          /\ \A z \in WatchedZones : held'[o][z] = 0
      BY <3>1 DEF ObserveEnd, Held, TypeOK
    <3>3. tracks'[o] = Absent
      BY <3>1 DEF ObserveEnd, TypeOK, DwellClocks
    <3>4. \A x \in Objects : LabelOf[x] \notin WatchedLabels => tracks'[x] = Absent
      BY <3>2, <3>3 DEF DwellClocks
    <3>5. \A x \in Objects, z \in WatchedZones : held'[x][z] <= now'
      BY <2>2, <2>4, <2>5, <3>2
    <3>6. \A x \in Objects, z \in WatchedZones : tracks'[x].entered[z] # 0 =>
            held'[x][z] # 0 /\ held'[x][z] <= tracks'[x].entered[z] + Skew
      BY <2>5, <3>2, <3>3 DEF Absent
    <3> QED BY <3>4, <3>5, <3>6 DEF DwellClocks
  <2>8. CASE ObserveOther(t)
    <3>1. tracks' = tracks /\ held' = held
      BY <2>8 DEF ObserveOther
    <3> QED BY <2>2, <2>4, <2>5, <3>1 DEF DwellClocks
  <2> QED BY <2>1, <2>6, <2>7, <2>8
<1>3. CASE UNCHANGED vars
  BY <1>3 DEF vars, DwellClocks
<1> QED BY <1>2, <1>3

\* An arrival announced in a step has dwelt by the clocks of the step's end.
LEMMA ArrivalStep == TypeOK /\ DwellClocks' /\ ArrivalDwelt /\ [Next]_vars => ArrivalDwelt'
<1> SUFFICES ASSUME TypeOK, DwellClocks', ArrivalDwelt, [Next]_vars PROVE ArrivalDwelt'
  OBVIOUS
<1>1. TypeOK'
  BY TypeStep
<1>2. CASE Next
  <2> SUFFICES ASSUME NEW e \in changes', e.kind = "arrival"
               PROVE  \E cam \in Cameras :
                        e.count <= Cardinality({o \in Objects :
                          /\ CameraOf[o] = cam /\ LabelOf[o] = e.ledger[2]
                          /\ held'[o][e.ledger[1]] # 0
                          /\ e.at - held'[o][e.ledger[1]] >= ArriveAfter[e.ledger] - Skew})
    BY DEF ArrivalDwelt
  <2>1. PICK t \in ReceiveTimes : Tick(tracks', t) /\ Receive(t)
    BY <1>2, NextReceives
  <2>2. PICK who : TickedAll(who, t)
    BY <2>1, TickIsTickedAll
  <2> DEFINE q(k) == Qualified(tracks', k, t)
             c(k) == Compared(ledgers[k], Raw(tracks', k), who[k], t)
  <2>3. PICK k \in Ledgers : /\ Arrives(c(k), q(k))
                             /\ e = EventOf("arrival", ledgers'[k], k, tracks', t)
    BY <2>2 DEF TickedAll, EventOf
  <2>4. /\ LedgerTick(ledgers[k], k, q(k), Raw(tracks', k), who[k], t, now)
        /\ ledgers'[k] = Ticked(c(k), k, q(k), Raw(tracks', k), t)
    BY <2>2 DEF TickedAll
  <2>5. c(k) \in Ledger
    BY <2>4, ComparedType
  <2>6. ledgers'[k].present = q(k) /\ q(k) # 0 /\ q(k) \in Nat
    BY <2>3, <2>4, <2>5 DEF Ticked, Arrives, Ledger, LedgerTick
  <2>7. e.count = q(k) /\ e.at = t /\ e.ledger = k
    BY <2>3, <2>6 DEF EventOf
  <2> DEFINE D == Dwelt(tracks', k, t)
  <2>8. D \in SUBSET Objects
    BY DEF Dwelt, Covering
  <2>9. PICK cam \in Cameras : q(k) = Cardinality(On(D, cam))
    BY <2>6, <2>8, MaxPerCameraIsMax DEF Qualified
  <2> DEFINE T == {o \in Objects :
                     /\ CameraOf[o] = cam /\ LabelOf[o] = k[2]
                     /\ held'[o][k[1]] # 0
                     /\ t - held'[o][k[1]] >= ArriveAfter[k] - Skew}
  <2>10. On(D, cam) \in SUBSET T
    <3> SUFFICES ASSUME NEW o \in On(D, cam) PROVE o \in T
      OBVIOUS
    <3>1. /\ o \in Objects /\ CameraOf[o] = cam /\ LabelOf[o] = k[2]
          /\ tracks'[o].entered[k[1]] # 0
          /\ t - tracks'[o].entered[k[1]] >= ArriveAfter[k]
      BY DEF On, Dwelt, Covering
    <3>2. k[1] \in WatchedZones
      BY LedgerZoneWatched
    <3>3. /\ held'[o][k[1]] \in Nat /\ tracks'[o].entered[k[1]] \in Nat
          /\ t \in Nat /\ Skew \in Nat /\ ArriveAfter[k] \in Nat
      BY <1>1, <3>1, <3>2, ClockAssumption, TimersAssumption
      DEF TypeOK, Track, Times, ReceiveTimes
    <3>4. held'[o][k[1]] # 0 /\ held'[o][k[1]] <= tracks'[o].entered[k[1]] + Skew
      BY <3>1, <3>2 DEF DwellClocks
    <3> QED BY <3>1, <3>3, <3>4
  <2>11. Cardinality(On(D, cam)) <= Cardinality(T)
    <3>1. T \in SUBSET Objects
      OBVIOUS
    <3>2. IsFiniteSet(T)
      BY <3>1, ObjectsAssumption, FS_Subset
    <3> QED BY <2>10, <3>2, FS_Subset
  <2> QED BY <2>7, <2>9, <2>11
<1>3. CASE UNCHANGED vars
  BY <1>3 DEF vars, ArrivalDwelt
<1> QED BY <1>2, <1>3

\* An arrival to a count of n is announced only when one camera has n objects
\* reported in the zone without interruption for ArriveAfter less the clock's
\* skew (occupancy.go absorb, counts and tick).
THEOREM ArrivalsDwelt == Spec => []ArrivalDwelt
<1>1. Init => DwellClocks /\ ArrivalDwelt
  BY ClockAssumption DEF Init, DwellClocks, ArrivalDwelt, Absent
<1>2. Spec => []DwellClocks
  BY <1>1, DwellStep, TypeCorrect, PTL DEF Spec
<1> QED BY <1>1, <1>2, ArrivalStep, TypeCorrect, PTL DEF Spec

------------------------------------------------------------------------------
(***************************************************************************)
(* No ledger announces twice at one time.                                  *)
(***************************************************************************)
\* A track that is in a zone is live.
LiveIn == \A o \in Objects, z \in WatchedZones : tracks[o].entered[z] # 0 => tracks[o].live

\* A message at t starts no dwell clock but at t.
Clocked(t) ==
  \A o \in Objects, z \in WatchedZones : tracks'[o].entered[z] # 0 =>
    tracks'[o].live /\ tracks'[o].entered[z] \in {t, tracks[o].entered[z]}

\* Every action receives one message, and moves the dwell clocks so.
LEMMA NextClocks ==
  ASSUME TypeOK, LiveIn, Next
  PROVE  \E t \in ReceiveTimes : Tick(tracks', t) /\ Receive(t) /\ Clocked(t)
<1>1. PICK t \in ReceiveTimes : \/ \E m \in Sightings : ObserveSighting(m, t)
                                \/ \E x \in Objects : ObserveEnd(x, t)
                                \/ ObserveOther(t)
  BY DEF Next
<1>2. \A z \in WatchedZones : Absent.entered[z] = 0
  BY DEF Absent
<1>0. ASSUME \A x \in Objects :
               \/ tracks'[x] \in {tracks[x], Absent}
               \/ /\ tracks'[x].live
                  /\ \A z \in WatchedZones : tracks'[x].entered[z] # 0 =>
                       tracks'[x].entered[z] \in {t, tracks[x].entered[z]}
      PROVE  Clocked(t)
  BY <1>0, <1>2 DEF Clocked, LiveIn
<1>3. CASE \E m \in Sightings : ObserveSighting(m, t)
  <2>1. PICK m \in Sightings : ObserveSighting(m, t)
    BY <1>3
  <2>2. m.object \in Objects
    BY DEF Sightings
  <2>3. CASE tracks' = Absorb(tracks, m, t)
    <3>1. \A x \in Objects : x # m.object => tracks'[x] \in {tracks[x], Absent}
      BY <2>3 DEF Absorb
    <3>2. tracks'[m.object] = Sighted(tracks[m.object], m, t)
      BY <2>2, <2>3 DEF Absorb
    <3>3. /\ tracks'[m.object].live
          /\ \A z \in WatchedZones : tracks'[m.object].entered[z] # 0 =>
               tracks'[m.object].entered[z] \in {t, tracks[m.object].entered[z]}
      BY <3>2 DEF Sighted
    <3>4. \A x \in Objects :
            \/ tracks'[x] \in {tracks[x], Absent}
            \/ /\ tracks'[x].live
               /\ \A z \in WatchedZones : tracks'[x].entered[z] # 0 =>
                    tracks'[x].entered[z] \in {t, tracks[x].entered[z]}
      BY <3>1, <3>3
    <3> QED BY <1>0, <2>1, <3>4, Zenon DEF ObserveSighting
  <2>4. CASE tracks' = tracks
    <3>1. \A x \in Objects : tracks'[x] \in {tracks[x], Absent}
      BY <2>4
    <3> QED BY <1>0, <2>1, <3>1, Zenon DEF ObserveSighting
  <2> QED BY <2>1, <2>3, <2>4 DEF ObserveSighting
<1>4. CASE \E x \in Objects : ObserveEnd(x, t)
  <2>1. PICK o \in Objects : ObserveEnd(o, t)
    BY <1>4
  <2>2. \A x \in Objects : tracks'[x] \in {tracks[x], Absent}
    BY <2>1 DEF ObserveEnd, TypeOK
  <2>3. Clocked(t)
    BY <1>0, <2>2
  <2> QED BY <2>1, <2>3 DEF ObserveEnd
<1>5. CASE ObserveOther(t)
  <2>1. tracks' = tracks
    BY <1>5 DEF ObserveOther
  <2>2. Clocked(t)
    BY <1>0, <2>1
  <2> QED BY <1>5, <2>2 DEF ObserveOther
<1> QED BY <1>1, <1>3, <1>4, <1>5

\* The time passing only adds to those that have dwelt.
LEMMA DwellGrows ==
  ASSUME NEW trk \in [Objects -> Track], NEW k \in Ledgers, NEW s \in Times, NEW t \in Times, s <= t
  PROVE  Qualified(trk, k, s) <= Qualified(trk, k, t)
<1>1. Dwelt(trk, k, t) \in SUBSET Objects
  BY DEF Dwelt, Covering
<1>2. ASSUME NEW o \in Dwelt(trk, k, s) PROVE o \in Dwelt(trk, k, t)
  <2>1. o \in Covering(trk, k) /\ s - trk[o].entered[k[1]] >= ArriveAfter[k]
    BY DEF Dwelt
  <2>2. trk[o].entered[k[1]] \in Nat /\ ArriveAfter[k] \in Nat /\ s \in Nat /\ t \in Nat
    BY <2>1, LedgerZoneWatched, TimersAssumption DEF Covering, Track, Times
  <2> QED BY <2>1, <2>2 DEF Dwelt
<1> QED BY <1>1, <1>2, MaxPerCameraMonotone DEF Qualified

\* With timers longer than the skew, a message adds nobody to those that had dwelt at
\* a time the clock has reached.
LEMMA DwellKept ==
  ASSUME TypeOK, TypeOK', LiveIn, NEW t \in ReceiveTimes, Clocked(t),
         NEW k \in Ledgers, Skew < ArriveAfter[k], NEW s \in Times, s <= now
  PROVE  Qualified(tracks', k, s) <= Qualified(tracks, k, s)
<1>1. Dwelt(tracks, k, s) \in SUBSET Objects
  BY DEF Dwelt, Covering
<1>2. ASSUME NEW o \in Dwelt(tracks', k, s) PROVE o \in Dwelt(tracks, k, s)
  <2>1. /\ o \in Objects /\ LabelOf[o] = k[2] /\ tracks'[o].entered[k[1]] # 0
        /\ s - tracks'[o].entered[k[1]] >= ArriveAfter[k]
    BY <1>2 DEF Dwelt, Covering
  <2>2. k[1] \in WatchedZones
    BY LedgerZoneWatched
  <2>3. /\ t \in Nat /\ t >= now - Skew /\ now \in Nat /\ Skew \in Nat /\ s \in Nat
        /\ ArriveAfter[k] \in Nat
    BY ClockAssumption, TimersAssumption DEF TypeOK, ReceiveTimes, Times
  <2>4. tracks'[o].entered[k[1]] # t
    BY <2>1, <2>3
  <2>5. tracks[o].entered[k[1]] = tracks'[o].entered[k[1]]
    BY <2>1, <2>2, <2>4 DEF Clocked
  <2>6. tracks[o].live
    BY <2>1, <2>2, <2>5 DEF LiveIn
  <2> QED BY <2>1, <2>5, <2>6 DEF Dwelt, Covering
<1> QED BY <1>1, <1>2, MaxPerCameraMonotone DEF Qualified

\* The strengthening: of the times a ledger announced at and the clock may still run
\* back to, none that had dwelt then is missing from the belief, and no deficit is older.
Settled(k, s) ==
  /\ Qualified(tracks, k, s) <= ledgers[k].present
  /\ ledgers[k].belowSince # 0 => ledgers[k].belowSince >= s - Skew

FreshInv ==
  /\ LiveIn
  /\ \A i \in issued : i[2] <= now /\ (i[2] >= now - Skew => Settled(i[1], i[2]))

\* One ledger's tick at t keeps what is settled of a time s, announces nothing at s
\* itself, and settles what it announces.
LEMMA TickSettles ==
  ASSUME NEW l, NEW k, NEW q, NEW raw, NEW who, NEW t, NEW n, LedgerTick(l, k, q, raw, who, t, n),
         Skew < DepartAfter[k],
         NEW c, c = Compared(l, raw, who, t), NEW m, m = Ticked(c, k, q, raw, t)
  PROVE  /\ Arrives(c, q) \/ Departs(c, k, q, t) => q <= m.present /\ m.belowSince = 0
         /\ \A s \in Times, p \in Nat :
              /\ t >= s - Skew /\ (t >= s => p <= q)
              /\ p <= l.present /\ (l.belowSince # 0 => l.belowSince >= s - Skew)
              => /\ p <= m.present /\ (m.belowSince # 0 => m.belowSince >= s - Skew)
                 /\ Arrives(c, q) => t # s \/ p # q
                 /\ Departs(c, k, q, t) => t # s
<1>1. /\ l \in Ledger /\ c \in Ledger /\ c.present = l.present
      /\ c.belowSince \in {0, l.belowSince, t} /\ q \in Nat /\ raw \in Nat /\ q <= raw
      /\ t \in Nat /\ DepartAfter[k] \in Nat /\ Skew \in Nat
  <2>1. c \in Ledger
    BY ComparedType
  <2>2. c.present = l.present /\ c.belowSince \in {0, l.belowSince, t}
    BY DEF LedgerTick, Compared, Ledger
  <2> QED BY <2>1, <2>2, TimersAssumption, ClockAssumption DEF LedgerTick, Times
<1>2. /\ Arrives(c, q) => m.present = q /\ m.belowSince = 0
      /\ Departs(c, k, q, t) => m.present = (IF q > raw THEN q ELSE raw) /\ m.belowSince = 0
      /\ ~Arrives(c, q) /\ ~Departs(c, k, q, t) => m = c
  BY <1>1 DEF Ticked, Departs, Ledger
<1>3. Arrives(c, q) \/ Departs(c, k, q, t) => q <= m.present /\ m.belowSince = 0
  BY <1>1, <1>2
<1>4. ASSUME NEW s \in Times, NEW p \in Nat, t >= s - Skew, t >= s => p <= q,
             p <= l.present, l.belowSince # 0 => l.belowSince >= s - Skew
      PROVE  /\ p <= m.present /\ (m.belowSince # 0 => m.belowSince >= s - Skew)
             /\ Arrives(c, q) => t # s \/ p # q
             /\ Departs(c, k, q, t) => t # s
  <2>1. s \in Nat /\ l.present \in Nat /\ l.belowSince \in Nat /\ c.belowSince \in Nat
    BY <1>1 DEF Ledger, Times
  <2>2. c.belowSince # 0 => c.belowSince >= s - Skew
    BY <1>1, <1>4
  <2>3. CASE Arrives(c, q)
    <3>1. q > l.present
      BY <1>1, <2>3 DEF Arrives
    <3>2. ~Departs(c, k, q, t)
      BY <2>3 DEF Departs
    <3> QED BY <1>1, <1>2, <1>4, <2>1, <2>3, <3>1, <3>2
  <2>4. CASE Departs(c, k, q, t)
    <3>1. c.belowSince # 0 /\ t - c.belowSince >= DepartAfter[k] /\ ~Arrives(c, q)
      BY <2>4 DEF Departs
    <3>2. t > s
      BY <1>1, <2>1, <2>2, <3>1
    <3> QED BY <1>1, <1>2, <1>4, <2>1, <2>4, <3>1, <3>2
  <2>5. CASE ~Arrives(c, q) /\ ~Departs(c, k, q, t)
    BY <1>1, <1>2, <1>4, <2>2, <2>5
  <2> QED BY <2>3, <2>4, <2>5
<1> QED BY <1>3, <1>4

\* A step's announcements are fresh, and settled at their time.
LEMMA FreshStep ==
  ASSUME \A k \in Ledgers : Skew < ArriveAfter[k] /\ Skew < DepartAfter[k],
         TypeOK, FreshInv, [Next]_vars
  PROVE  FreshInv' /\ (Next => \A c \in changes' : Identity(c) \notin issued)
<1>1. TypeOK'
  BY TypeStep
<1>2. CASE Next
  <2>1. PICK t \in ReceiveTimes : Tick(tracks', t) /\ Receive(t) /\ Clocked(t)
    BY <1>2, NextClocks DEF FreshInv
  <2>2. PICK who : TickedAll(who, t)
    BY <2>1, TickIsTickedAll
  <2>3. /\ t \in Times \ {0} /\ now \in Times /\ Skew \in Nat /\ t >= now - Skew
        /\ now' = IF t > now THEN t ELSE now
    BY <2>1, ClockAssumption DEF ReceiveTimes, Receive, TypeOK, Times
  <2>4. Times \in SUBSET Nat
    BY DEF Times
  <2> DEFINE q(k) == Qualified(tracks', k, t)
             c(k) == Compared(ledgers[k], Raw(tracks', k), who[k], t)
             Says(k) == Arrives(c(k), q(k)) \/ Departs(c(k), k, q(k), t)
  <2>5. ASSUME NEW k \in Ledgers
        PROVE  /\ LedgerTick(ledgers[k], k, q(k), Raw(tracks', k), who[k], t, now)
               /\ ledgers'[k] = Ticked(c(k), k, q(k), Raw(tracks', k), t)
    BY <2>2 DEF TickedAll
  <2>6. ASSUME NEW k \in Ledgers, Says(k) PROVE Settled(k, t)'
    <3>1. q(k) <= ledgers'[k].present /\ ledgers'[k].belowSince = 0
      BY <2>5, <2>6, TickSettles
    <3> QED BY <3>1 DEF Settled
  <2>7. ASSUME NEW k \in Ledgers, NEW s \in Times, s <= now, s >= now - Skew, Settled(k, s)
        PROVE  Settled(k, s)' /\ (Says(k) => t # s)
    <3>1. PICK p \in Nat : p = Qualified(tracks', k, s)
      BY Counts
    <3>2. p <= ledgers[k].present
      <4>1. p <= Qualified(tracks, k, s)
        BY <1>1, <2>1, <2>7, <3>1, DwellKept DEF FreshInv
      <4>2. Qualified(tracks, k, s) \in Nat /\ ledgers[k].present \in Nat
        BY Counts DEF TypeOK, Ledger
      <4> QED BY <2>7, <4>1, <4>2 DEF Settled
    <3>3. t >= s => p <= q(k)
      BY <1>1, <2>3, <3>1, DwellGrows DEF TypeOK
    <3>4. t >= s - Skew
      BY <2>3, <2>4, <2>7
    <3>5. /\ p <= ledgers'[k].present
          /\ ledgers'[k].belowSince # 0 => ledgers'[k].belowSince >= s - Skew
          /\ Arrives(c(k), q(k)) => t # s \/ p # q(k)
          /\ Departs(c(k), k, q(k), t) => t # s
      BY <2>5, <2>7, <3>2, <3>3, <3>4, TickSettles DEF Settled
    <3>6. Settled(k, s)'
      BY <3>1, <3>5 DEF Settled
    <3>7. t = s => p = q(k)
      BY <3>1
    <3> QED BY <3>5, <3>6, <3>7
  <2>8. ASSUME NEW e \in changes'
        PROVE  \E k \in Ledgers : Says(k) /\ Identity(e) = <<k, t>>
    <3>1. PICK k \in Ledgers :
            \/ Arrives(c(k), q(k)) /\ e = EventOf("arrival", ledgers'[k], k, tracks', t)
            \/ Departs(c(k), k, q(k), t) /\ e = EventOf("departure", ledgers'[k], k, tracks', t)
      BY <2>2, <2>8 DEF TickedAll
    <3>2. e.ledger = k /\ e.at = t
      BY <3>1 DEF EventOf
    <3> QED BY <3>1, <3>2 DEF Identity
  <2>9. ASSUME NEW e \in changes', Identity(e) \in issued PROVE FALSE
    <3>1. PICK k \in Ledgers : Says(k) /\ Identity(e) = <<k, t>>
      BY <2>8, <2>9
    <3>2. t <= now /\ Settled(k, t)
      BY <2>3, <2>9, <3>1 DEF FreshInv
    <3> QED BY <2>3, <2>7, <3>1, <3>2
  <2>10. LiveIn'
    BY <2>1 DEF Clocked, LiveIn
  <2>11. ASSUME NEW i \in issued'
         PROVE  i[2] <= now' /\ (i[2] >= now' - Skew => Settled(i[1], i[2])')
    <3>1. CASE i \in issued
      <4>1. PICK k \in Ledgers, s \in Times : k = i[1] /\ s = i[2]
        BY <3>1 DEF TypeOK
      <4>2. s <= now /\ (s >= now - Skew => Settled(k, s))
        BY <3>1, <4>1 DEF FreshInv
      <4>3. s \in Nat /\ now \in Nat /\ t \in Nat
        BY <2>3, <2>4
      <4>4. s <= now'
        BY <2>3, <4>2, <4>3
      <4>5. ASSUME s >= now' - Skew PROVE Settled(k, s)'
        <5>1. s >= now - Skew
          BY <2>3, <4>3, <4>5
        <5> QED BY <2>7, <4>2, <5>1
      <4> QED BY <4>1, <4>4, <4>5
    <3>2. CASE i \notin issued
      <4>1. PICK e \in changes' : i = Identity(e)
        BY <2>1, <2>11, <3>2 DEF Receive
      <4>2. PICK k \in Ledgers : Says(k) /\ i = <<k, t>>
        BY <2>8, <4>1
      <4>3. i[1] = k /\ i[2] = t
        BY <4>2
      <4>4. t <= now'
        BY <2>3, <2>4
      <4> QED BY <2>6, <4>2, <4>3, <4>4
    <3> QED BY <3>1, <3>2
  <2> QED BY <2>9, <2>10, <2>11 DEF FreshInv
<1>3. CASE UNCHANGED vars
  <2>1. FreshInv'
    BY <1>3 DEF vars, FreshInv, LiveIn, Settled
  <2> QED BY <1>2, <1>3, <2>1
<1> QED BY <1>2, <1>3

\* An event's id is minted from zone, label and time alone, and no ledger announces
\* twice at one time, as long as the timers are longer than the clock's skew
\* (occupancy.go event, tick; config.go validate refuses timers under a second).
THEOREM IdentitiesFresh ==
  ASSUME \A k \in Ledgers : Skew < ArriveAfter[k] /\ Skew < DepartAfter[k]
  PROVE  Spec => IdentityFresh
<1>1. Init => TypeOK /\ FreshInv
  <2>1. Init => FreshInv
    BY DEF Init, FreshInv, LiveIn, Absent
  <2> QED BY <2>1, TypeInit
<1>2. TypeOK /\ FreshInv /\ [Next]_vars => (TypeOK /\ FreshInv)'
  BY TypeStep, FreshStep
<1>3. TypeOK /\ FreshInv /\ [Next]_vars =>
        [\A c \in changes' : Identity(c) \notin issued]_<<changes, issued>>
  BY FreshStep DEF vars
<1> QED BY <1>1, <1>2, <1>3, PTL DEF Spec, IdentityFresh
==============================================================================
