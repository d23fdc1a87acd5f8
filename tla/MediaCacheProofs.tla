--------------------------- MODULE MediaCacheProofs ---------------------------
(***************************************************************************)
(* Proofs about MediaCache: for every set of keys, sizes and callers, every*)
(* budget and every number of slots.                                       *)
(***************************************************************************)
EXTENDS MediaCache, FiniteSetTheorems, TLAPS

------------------------------------------------------------------------------
(***************************************************************************)
(* The flights, the fill slots and the spool slots.                        *)
(***************************************************************************)
\* Where a call can be.
Places ==
  {"idle", "wait", "slot", "fetch", "copy", "enter", "release", "unflight", "close", "return",
   "open", "direct", "answer", "ranged", "spool", "stream"}

Call == [pc : Places, key : Keys \cup {None}, leader : Callers \cup {None}, ok : BOOLEAN]

Slotted == {"fetch", "copy", "enter", "release"}

CallsOK == call \in [Callers -> Call] /\ inflight \in [Keys -> Callers \cup {None}]

\* Whoever leads a flight is the one its key's flight names.
FlightsOK ==
  \A c \in Callers : call[c].pc \in Leading => call[c].key \in Keys /\ inflight[call[c].key] = c

\* A fill slot is held from the send to the receive, and by nobody else.
SlotsOK ==
  /\ slots = {c \in Callers : call[c].pc \in Slotted}
  /\ IsFiniteSet(slots) /\ Cardinality(slots) <= MaxFills

SpoolsOK ==
  /\ spools = {c \in Callers : call[c].pc = "spool"}
  /\ IsFiniteSet(spools) /\ Cardinality(spools) <= MaxSpools

\* The inductive invariant of the concurrent part.
FlightInv == CallsOK /\ FlightsOK /\ SlotsOK /\ SpoolsOK

\* Taking a slot when one is free, and giving it back, keep the count.
LEMMA SlotCount ==
  ASSUME NEW S, IsFiniteSet(S), NEW max \in Nat, NEW c
  PROVE  /\ Cardinality(S) < max => IsFiniteSet(S \cup {c}) /\ Cardinality(S \cup {c}) <= max
         /\ Cardinality(S) <= max => IsFiniteSet(S \ {c}) /\ Cardinality(S \ {c}) <= max
<1>1. Cardinality(S) \in Nat
  BY FS_CardinalityType
<1>2. IsFiniteSet(S \cup {c}) /\ Cardinality(S \cup {c}) \in {Cardinality(S), Cardinality(S) + 1}
  BY FS_AddElement, <1>1
<1>3. IsFiniteSet(S \ {c}) /\ Cardinality(S \ {c}) \in {Cardinality(S), Cardinality(S) - 1}
  BY FS_RemoveElement, <1>1
<1> QED BY <1>1, <1>2, <1>3

\* What a call may be: nothing, or started on a key.
LEMMA CallShapes ==
  /\ Idle \in Call /\ Idle.pc = "idle"
  /\ \A k \in Keys : /\ [Idle EXCEPT !.pc = "open", !.key = k, !.ok = TRUE] \in Call
                    /\ [Idle EXCEPT !.pc = "open", !.key = k, !.ok = TRUE].pc = "open"
                    /\ [Idle EXCEPT !.pc = "slot", !.key = k] \in Call
                    /\ [Idle EXCEPT !.pc = "slot", !.key = k].pc = "slot"
                    /\ [Idle EXCEPT !.pc = "slot", !.key = k].key = k
  BY DEF Idle, Call, Places

\* At the start nobody has called.
LEMMA FlightInvInit == Init => FlightInv
<1> SUFFICES ASSUME Init PROVE FlightInv
  OBVIOUS
<1>1. CallsOK
  BY CallShapes DEF Init, CallsOK
<1>2. \A c \in Callers : call[c].pc = "idle"
  BY DEF Init, Idle
<1>3. slots = {} /\ spools = {} /\ IsFiniteSet({}) /\ Cardinality({}) = 0
  BY FS_EmptySet DEF Init
<1> QED BY <1>1, <1>2, <1>3, CacheAssumption DEF FlightInv, FlightsOK, SlotsOK, SpoolsOK, Leading, Slotted

\* Caller c moved to pc, for the same key; the others stayed where they were.
MovedTo(c, pc) ==
  /\ call' \in [Callers -> Call]
  /\ \A d \in Callers \ {c} : call'[d] = call[d]
  /\ call'[c].pc = pc /\ call'[c].key = call[c].key

\* A caller that goes to a place, with or without a result, moves there alone.
LEMMA Moves ==
  ASSUME CallsOK, NEW c \in Callers, NEW pc \in Places
  PROVE  /\ Goto(c, pc) => MovedTo(c, pc)
         /\ Result(c, pc, TRUE) => MovedTo(c, pc)
         /\ Result(c, pc, FALSE) => MovedTo(c, pc)
<1>1. call[c] \in Call
  BY DEF CallsOK
<1>2. ASSUME NEW r \in Call, r.pc = pc, r.key = call[c].key, call' = [call EXCEPT ![c] = r]
      PROVE  MovedTo(c, pc)
  BY <1>2 DEF CallsOK, MovedTo
<1>3. ASSUME Goto(c, pc) PROVE MovedTo(c, pc)
  <2> DEFINE r == [call[c] EXCEPT !.pc = pc]
  <2>1. r \in Call /\ r.pc = pc /\ r.key = call[c].key
    BY <1>1 DEF Call
  <2>2. call' = [call EXCEPT ![c] = r]
    BY <1>3 DEF Goto, CallsOK
  <2> HIDE DEF r
  <2> QED BY <1>2, <2>1, <2>2
<1>4. ASSUME NEW ok \in BOOLEAN, Result(c, pc, ok) PROVE MovedTo(c, pc)
  <2> DEFINE r == [call[c] EXCEPT !.pc = pc, !.ok = ok]
  <2>1. r \in Call /\ r.pc = pc /\ r.key = call[c].key
    BY <1>1 DEF Call
  <2>2. call' = [call EXCEPT ![c] = r]
    BY <1>4 DEF Result, CallsOK
  <2> HIDE DEF r
  <2> QED BY <1>2, <2>1, <2>2
<1> QED BY <1>3, <1>4

\* What a call that starts anew, or is done, leaves as it was.
LEMMA Starts ==
  ASSUME CallsOK, NEW c \in Callers, NEW r \in Call, call' = [call EXCEPT ![c] = r]
  PROVE  /\ call' \in [Callers -> Call]
         /\ \A d \in Callers \ {c} : call'[d] = call[d]
         /\ call'[c] = r
  BY DEF CallsOK

\* One caller moved: its flight, its fill slot and its spool slot moved with it,
\* and the other flights were left alone.
LEMMA CallerMoved ==
  ASSUME FlightInv, NEW c \in Callers,
         call' \in [Callers -> Call],
         \A d \in Callers \ {c} : call'[d] = call[d],
         inflight' \in [Keys -> Callers \cup {None}],
         \A d \in Callers \ {c} : call[d].pc \in Leading => inflight'[call[d].key] = d,
         call'[c].pc \in Leading => call'[c].key \in Keys /\ inflight'[call'[c].key] = c,
         \/ slots' = slots /\ (call'[c].pc \in Slotted <=> call[c].pc \in Slotted)
         \/ slots' = slots \cup {c} /\ Cardinality(slots) < MaxFills /\ call'[c].pc \in Slotted
         \/ slots' = slots \ {c} /\ call'[c].pc \notin Slotted,
         \/ spools' = spools /\ (call'[c].pc = "spool" <=> call[c].pc = "spool")
         \/ spools' = spools \cup {c} /\ Cardinality(spools) < MaxSpools /\ call'[c].pc = "spool"
         \/ spools' = spools \ {c} /\ call'[c].pc # "spool"
  PROVE  FlightInv'
<1>1. CallsOK'
  BY DEF CallsOK
<1>2. FlightsOK'
  BY DEF FlightInv, FlightsOK
<1>3. IsFiniteSet(slots') /\ Cardinality(slots') <= MaxFills
  <2>1. IsFiniteSet(slots) /\ Cardinality(slots) <= MaxFills /\ MaxFills \in Nat
    BY CacheAssumption DEF FlightInv, SlotsOK
  <2>2. /\ Cardinality(slots) < MaxFills => /\ IsFiniteSet(slots \cup {c})
                                           /\ Cardinality(slots \cup {c}) <= MaxFills
        /\ IsFiniteSet(slots \ {c}) /\ Cardinality(slots \ {c}) <= MaxFills
    BY <2>1, SlotCount
  <2> QED BY <2>1, <2>2
<1>4. IsFiniteSet(spools') /\ Cardinality(spools') <= MaxSpools
  <2>1. IsFiniteSet(spools) /\ Cardinality(spools) <= MaxSpools /\ MaxSpools \in Nat
    BY CacheAssumption DEF FlightInv, SpoolsOK
  <2>2. /\ Cardinality(spools) < MaxSpools => /\ IsFiniteSet(spools \cup {c})
                                             /\ Cardinality(spools \cup {c}) <= MaxSpools
        /\ IsFiniteSet(spools \ {c}) /\ Cardinality(spools \ {c}) <= MaxSpools
    BY <2>1, SlotCount
  <2> QED BY <2>1, <2>2
<1>5. slots' = {d \in Callers : call'[d].pc \in Slotted}
  BY DEF FlightInv, SlotsOK
<1>6. spools' = {d \in Callers : call'[d].pc = "spool"}
  BY DEF FlightInv, SpoolsOK
<1> QED BY <1>1, <1>2, <1>3, <1>4, <1>5, <1>6 DEF FlightInv, SlotsOK, SpoolsOK

\* A call moves on; no flight starts or ends.
LEMMA MovesOn ==
  ASSUME FlightInv, NEW c \in Callers, NEW pc \in Places, MovedTo(c, pc), UNCHANGED inflight,
         pc \in Leading => call[c].pc \in Leading,
         \/ slots' = slots /\ (pc \in Slotted <=> call[c].pc \in Slotted)
         \/ slots' = slots \cup {c} /\ Cardinality(slots) < MaxFills /\ pc \in Slotted
         \/ slots' = slots \ {c} /\ pc \notin Slotted,
         \/ spools' = spools /\ (pc = "spool" <=> call[c].pc = "spool")
         \/ spools' = spools \cup {c} /\ Cardinality(spools) < MaxSpools /\ pc = "spool"
         \/ spools' = spools \ {c} /\ pc # "spool"
  PROVE  FlightInv'
<1>1. /\ call' \in [Callers -> Call]
      /\ \A d \in Callers \ {c} : call'[d] = call[d]
      /\ call'[c].pc = pc /\ call'[c].key = call[c].key
  BY DEF MovedTo
<1>2. inflight' \in [Keys -> Callers \cup {None}]
  BY DEF FlightInv, CallsOK
<1>3. \A d \in Callers : call[d].pc \in Leading => call[d].key \in Keys /\ inflight'[call[d].key] = d
  BY DEF FlightInv, FlightsOK
<1>4. call'[c].pc \in Leading => call'[c].key \in Keys /\ inflight'[call'[c].key] = c
  BY <1>1, <1>3
<1> QED BY <1>1, <1>2, <1>3, <1>4, CallerMoved

\* A call that leads no flight and holds no fill slot starts or ends.
LEMMA StartsOrEnds ==
  ASSUME FlightInv, NEW c \in Callers, NEW r \in Call, call' = [call EXCEPT ![c] = r],
         UNCHANGED <<inflight, slots>>,
         r.pc \notin Leading, call[c].pc \notin Slotted, r.pc \notin Slotted,
         \/ spools' = spools /\ (r.pc = "spool" <=> call[c].pc = "spool")
         \/ spools' = spools \ {c} /\ r.pc # "spool"
  PROVE  FlightInv'
<1>1. /\ call' \in [Callers -> Call]
      /\ \A d \in Callers \ {c} : call'[d] = call[d]
      /\ call'[c] = r
  BY Starts DEF FlightInv
<1>2. inflight' \in [Keys -> Callers \cup {None}]
  BY DEF FlightInv, CallsOK
<1>3. \A d \in Callers : call[d].pc \in Leading => inflight'[call[d].key] = d
  BY DEF FlightInv, FlightsOK
<1> QED BY <1>1, <1>2, <1>3, CallerMoved

\* The call is over.
LEMMA Ends ==
  ASSUME FlightInv, NEW c \in Callers, call' = [call EXCEPT ![c] = Idle],
         UNCHANGED <<inflight, slots>>, call[c].pc \notin Slotted,
         \/ spools' = spools /\ call[c].pc # "spool"
         \/ spools' = spools \ {c}
  PROVE  FlightInv'
<1>1. Idle \in Call /\ Idle.pc = "idle"
  BY CallShapes
<1>2. "idle" \notin Leading /\ "idle" \notin Slotted
  BY DEF Leading, Slotted
<1> QED BY <1>1, <1>2, StartsOrEnds

\* No step of any caller breaks it.
LEMMA FlightInvStep == FlightInv /\ [Next]_vars => FlightInv'
<1> SUFFICES ASSUME FlightInv, [Next]_vars PROVE FlightInv'
  OBVIOUS
<1> USE DEF At
<1>1. ASSUME NEW c \in Callers, TakeSlot(c) PROVE FlightInv'
  <2>1. MovedTo(c, "fetch")
    BY <1>1, Moves DEF TakeSlot, FlightInv, Places
  <2> QED BY <1>1, <2>1, MovesOn DEF TakeSlot, Leading, Slotted, Places
<1>2. ASSUME NEW c \in Callers, Release(c) PROVE FlightInv'
  <2>1. MovedTo(c, "unflight")
    BY <1>2, Moves DEF Release, FlightInv, Places
  <2> QED BY <1>2, <2>1, MovesOn DEF Release, Leading, Slotted, Places
<1>3. ASSUME NEW c \in Callers, Fetch(c) PROVE FlightInv'
  <2>1. CASE Goto(c, "copy")
    <3>1. MovedTo(c, "copy")
      BY <2>1, Moves DEF FlightInv, Places
    <3> QED BY <1>3, <2>1, <3>1, MovesOn DEF Fetch, Leading, Slotted, Places
  <2>2. CASE Result(c, "release", FALSE)
    <3>1. MovedTo(c, "release")
      BY <2>2, Moves DEF FlightInv, Places
    <3> QED BY <1>3, <2>2, <3>1, MovesOn DEF Fetch, Leading, Slotted, Places
  <2> QED BY <1>3, <2>1, <2>2 DEF Fetch
<1>4. ASSUME NEW c \in Callers, NEW m \in Sizes, Copy(c, m) PROVE FlightInv'
  <2>1. CASE Goto(c, "enter")
    <3>1. MovedTo(c, "enter")
      BY <2>1, Moves DEF FlightInv, Places
    <3> QED BY <1>4, <2>1, <3>1, MovesOn DEF Copy, Leading, Slotted, Places
  <2>2. CASE Result(c, "release", FALSE)
    <3>1. MovedTo(c, "release")
      BY <2>2, Moves DEF FlightInv, Places
    <3> QED BY <1>4, <2>2, <3>1, MovesOn DEF Copy, Leading, Slotted, Places
  <2> QED BY <1>4, <2>1, <2>2 DEF Copy
<1>5. ASSUME NEW c \in Callers, Enter(c) PROVE FlightInv'
  <2>1. MovedTo(c, "release")
    BY <1>5, Moves DEF Enter, FlightInv, Places
  <2> QED BY <1>5, <2>1, MovesOn DEF Enter, Leading, Slotted, Places
<1>6. ASSUME NEW c \in Callers, Unflight(c) PROVE FlightInv'
  <2>1. /\ call[c].pc = "unflight" /\ call[c].key \in Keys /\ inflight[call[c].key] = c
        /\ inflight' = [inflight EXCEPT ![call[c].key] = None]
        /\ slots' = slots /\ spools' = spools
    BY <1>6 DEF Unflight, FlightInv, FlightsOK, Leading
  <2>2. inflight' \in [Keys -> Callers \cup {None}]
    BY <2>1 DEF FlightInv, CallsOK
  <2>3. \A d \in Callers \ {c} : call[d].pc \in Leading => inflight'[call[d].key] = d
    BY <2>1 DEF FlightInv, CallsOK, FlightsOK
  <2>4. /\ call' \in [Callers -> Call]
        /\ \A d \in Callers \ {c} : call'[d] = call[d]
        /\ call'[c].pc = "close"
    BY <1>6, Moves DEF FlightInv, Places, Unflight, MovedTo
  <2>5. "close" \notin Leading /\ "close" \notin Slotted /\ call[c].pc \notin Slotted
    BY <2>1 DEF Leading, Slotted
  <2> QED BY <2>1, <2>2, <2>3, <2>4, <2>5, CallerMoved
<1>7. ASSUME NEW c \in Callers, Close(c) PROVE FlightInv'
  <2>1. /\ call' = [d \in Callers |-> call'[d]]
        /\ inflight' = inflight /\ slots' = slots /\ spools' = spools
    BY <1>7 DEF Close
  <2>2. \A d \in Callers : /\ call'[d] \in Call /\ call'[d].key = call[d].key
                          /\ \/ call'[d] = call[d]
                             \/ call[d].pc \in {"close", "wait"} /\ call'[d].pc = "return"
    <3> TAKE d \in Callers
    <3>1. call[d] \in Call /\ call[c] \in Call
      BY DEF FlightInv, CallsOK
    <3>2. CASE d = c
      <4>1. call'[d] = [call[d] EXCEPT !.pc = "return"] /\ call[d].pc = "close"
        BY <1>7, <3>2 DEF Close
      <4> QED BY <3>1, <4>1 DEF Call, Places
    <3>3. CASE d # c /\ call[d].pc = "wait" /\ call[d].leader = c
      <4>1. call'[d] = [call[d] EXCEPT !.pc = "return", !.ok = call[c].ok]
        BY <1>7, <3>3 DEF Close
      <4> QED BY <3>1, <3>3, <4>1 DEF Call, Places
    <3>4. CASE d # c /\ ~(call[d].pc = "wait" /\ call[d].leader = c)
      <4>1. call'[d] = call[d]
        BY <1>7, <3>4 DEF Close
      <4> QED BY <3>1, <4>1
    <3> QED BY <3>2, <3>3, <3>4
  <2>3. CallsOK'
    <3>1. call' \in [Callers -> Call]
      BY <2>1, <2>2
    <3> QED BY <2>1, <3>1 DEF FlightInv, CallsOK
  <2>4. FlightsOK'
    BY <2>1, <2>2 DEF FlightInv, FlightsOK, Leading
  <2>5. /\ \A d \in Callers : call'[d].pc \in Slotted <=> call[d].pc \in Slotted
        /\ \A d \in Callers : call'[d].pc = "spool" <=> call[d].pc = "spool"
    BY <2>2 DEF Slotted
  <2>6. SlotsOK' /\ SpoolsOK'
    BY <2>1, <2>5 DEF FlightInv, SlotsOK, SpoolsOK
  <2> QED BY <2>3, <2>4, <2>6 DEF FlightInv
<1>8. ASSUME NEW c \in Callers, Return(c) PROVE FlightInv'
  <2>1. CASE call' = [call EXCEPT ![c] = Idle]
    BY <1>8, <2>1, Ends DEF Return, Slotted
  <2>2. CASE Goto(c, "open") \/ Goto(c, "direct")
    <3>1. MovedTo(c, "open") \/ MovedTo(c, "direct")
      BY <2>2, Moves DEF FlightInv, Places
    <3> QED BY <1>8, <2>2, <3>1, MovesOn DEF Return, Leading, Slotted, Places
  <2> QED BY <1>8, <2>1, <2>2 DEF Return
<1>9. ASSUME NEW c \in Callers, Open(c) PROVE FlightInv'
  <2>1. CASE cache.files[call[c].key] = 0
    <3>1. Goto(c, "direct")
      BY <1>9, <2>1 DEF Open, Goto, FlightInv, CallsOK
    <3>2. MovedTo(c, "direct")
      BY <3>1, Moves DEF FlightInv, Places
    <3> QED BY <1>9, <3>2, MovesOn DEF Open, Leading, Slotted, Places
  <2>2. CASE cache.files[call[c].key] # 0
    BY <1>9, <2>2, Ends DEF Open, Slotted
  <2> QED BY <2>1, <2>2
<1>10. ASSUME NEW c \in Callers, Direct(c) PROVE FlightInv'
  <2>1. CASE call' = [call EXCEPT ![c] = Idle]
    BY <1>10, <2>1, Ends DEF Direct, Slotted
  <2>2. CASE Goto(c, "answer")
    <3>1. MovedTo(c, "answer")
      BY <2>2, Moves DEF FlightInv, Places
    <3> QED BY <1>10, <2>2, <3>1, MovesOn DEF Direct, Leading, Slotted, Places
  <2> QED BY <1>10, <2>1, <2>2 DEF Direct
<1>11. ASSUME NEW c \in Callers, Answer(c) PROVE FlightInv'
  <2>1. CASE call' = [call EXCEPT ![c] = Idle]
    BY <1>11, <2>1, Ends DEF Answer, Slotted
  <2>2. CASE Goto(c, "ranged")
    <3>1. MovedTo(c, "ranged")
      BY <2>2, Moves DEF FlightInv, Places
    <3> QED BY <1>11, <2>2, <3>1, MovesOn DEF Answer, Leading, Slotted, Places
  <2>3. CASE Goto(c, "stream")
    <3>1. MovedTo(c, "stream")
      BY <2>3, Moves DEF FlightInv, Places
    <3> QED BY <1>11, <2>3, <3>1, MovesOn DEF Answer, Leading, Slotted, Places
  <2> QED BY <1>11, <2>1, <2>2, <2>3 DEF Answer
<1>12. ASSUME NEW c \in Callers, TakeSpool(c) PROVE FlightInv'
  <2>1. CASE Goto(c, "spool") /\ spools' = spools \cup {c} /\ Cardinality(spools) < MaxSpools
    <3>1. MovedTo(c, "spool")
      BY <2>1, Moves DEF FlightInv, Places
    <3> QED BY <1>12, <2>1, <3>1, MovesOn DEF TakeSpool, Leading, Slotted, Places
  <2>2. CASE Goto(c, "stream") /\ UNCHANGED spools
    <3>1. MovedTo(c, "stream")
      BY <2>2, Moves DEF FlightInv, Places
    <3> QED BY <1>12, <2>2, <3>1, MovesOn DEF TakeSpool, Leading, Slotted, Places
  <2> QED BY <1>12, <2>1, <2>2 DEF TakeSpool
<1>13. ASSUME NEW c \in Callers, Spool(c) PROVE FlightInv'
  <2>1. CASE call' = [call EXCEPT ![c] = Idle]
    BY <1>13, <2>1, Ends DEF Spool, Slotted
  <2>2. CASE Goto(c, "stream")
    <3>1. MovedTo(c, "stream")
      BY <2>2, Moves DEF FlightInv, Places
    <3> QED BY <1>13, <2>2, <3>1, MovesOn DEF Spool, Leading, Slotted, Places
  <2> QED BY <1>13, <2>1, <2>2 DEF Spool
<1>14. ASSUME NEW c \in Callers, Stream(c) PROVE FlightInv'
  BY <1>14, Ends DEF Stream, Slotted
<1>15. ASSUME NEW c \in Callers, Cancelled(c) PROVE FlightInv'
  <2>1. CASE At(c, "wait") /\ Result(c, "return", FALSE)
    <3>1. MovedTo(c, "return")
      BY <2>1, Moves DEF FlightInv, Places
    <3> QED BY <1>15, <2>1, <3>1, MovesOn DEF Cancelled, Leading, Slotted, Places
  <2>2. CASE At(c, "slot") /\ Result(c, "unflight", FALSE)
    <3>1. MovedTo(c, "unflight")
      BY <2>2, Moves DEF FlightInv, Places
    <3> QED BY <1>15, <2>2, <3>1, MovesOn DEF Cancelled, Leading, Slotted, Places
  <2> QED BY <1>15, <2>1, <2>2 DEF Cancelled
<1>16. ASSUME NEW c \in Callers, GetMedia(c) PROVE FlightInv'
  <2>1. MovedTo(c, "stream")
    BY <1>16, Moves DEF GetMedia, FlightInv, Places
  <2> QED BY <1>16, <2>1, MovesOn DEF GetMedia, Leading, Slotted, Places
<1>17. ASSUME NEW c \in Callers, Unstable(c) PROVE FlightInv'
  <2>1. MovedTo(c, "direct")
    BY <1>17, Moves DEF Unstable, FlightInv, Places
  <2> QED BY <1>17, <2>1, MovesOn DEF Unstable, Leading, Slotted, Places
<1>18. ASSUME NEW c \in Callers, NEW k \in Keys, Hit(c, k) PROVE FlightInv'
  <2> DEFINE r == [Idle EXCEPT !.pc = "open", !.key = k, !.ok = TRUE]
  <2>1. r \in Call /\ r.pc = "open" /\ call' = [call EXCEPT ![c] = r] /\ call[c].pc = "idle"
    BY <1>18, CallShapes DEF Hit
  <2>2. UNCHANGED <<inflight, slots, spools>>
    BY <1>18 DEF Hit
  <2> HIDE DEF r
  <2> QED BY <2>1, <2>2, StartsOrEnds DEF Leading, Slotted
<1>19. ASSUME NEW c \in Callers, NEW k \in ClipKeys, Join(c, k) PROVE FlightInv'
  <2> DEFINE r == [Idle EXCEPT !.pc = "wait", !.key = k, !.leader = inflight[k]]
  <2>1. k \in Keys /\ inflight[k] \in Callers \cup {None}
    BY DEF FlightInv, CallsOK, Keys
  <2>2. r \in Call /\ r.pc = "wait" /\ call' = [call EXCEPT ![c] = r] /\ call[c].pc = "idle"
    <3>1. call' = [call EXCEPT ![c] = r] /\ call[c].pc = "idle"
      BY <1>19 DEF Join
    <3>2. r \in Call /\ r.pc = "wait"
      BY <2>1 DEF Idle, Call, Places
    <3> QED BY <3>1, <3>2
  <2>3. UNCHANGED <<inflight, slots, spools>>
    BY <1>19 DEF Join
  <2> HIDE DEF r
  <2> QED BY <2>2, <2>3, StartsOrEnds DEF Leading, Slotted
<1>20. ASSUME NEW c \in Callers, NEW k \in ClipKeys, Lead(c, k) PROVE FlightInv'
  <2> DEFINE r == [Idle EXCEPT !.pc = "slot", !.key = k]
  <2>1. k \in Keys /\ r \in Call /\ r.pc = "slot" /\ r.key = k
    BY CallShapes DEF Keys
  <2>2. /\ call' = [call EXCEPT ![c] = r] /\ call[c].pc = "idle" /\ inflight[k] = None
        /\ inflight' = [inflight EXCEPT ![k] = c] /\ slots' = slots /\ spools' = spools
    BY <1>20 DEF Lead
  <2> HIDE DEF r
  <2>3. /\ call' \in [Callers -> Call]
        /\ \A d \in Callers \ {c} : call'[d] = call[d]
        /\ call'[c] = r
    BY <2>1, <2>2, Starts DEF FlightInv
  <2>4. inflight' \in [Keys -> Callers \cup {None}] /\ inflight'[k] = c
    BY <2>1, <2>2 DEF FlightInv, CallsOK
  <2>5. \A d \in Callers \ {c} : call[d].pc \in Leading => inflight'[call[d].key] = d
    BY <2>1, <2>2, CacheAssumption DEF FlightInv, CallsOK, FlightsOK
  <2>6. "slot" \notin Slotted /\ "idle" \notin Slotted
    BY DEF Slotted
  <2> QED BY <2>1, <2>2, <2>3, <2>4, <2>5, <2>6, CallerMoved
<1>21. ASSUME UNCHANGED <<inflight, slots, spools, call>> PROVE FlightInv'
  BY <1>21 DEF FlightInv, CallsOK, FlightsOK, SlotsOK, SpoolsOK
<1>22. CASE Restart
  <2>1. CallsOK'
    BY <1>22, CallShapes DEF Restart, CallsOK
  <2>2. \A c \in Callers : call'[c].pc = "idle"
    BY <1>22 DEF Restart, Idle
  <2>3. slots' = {} /\ spools' = {} /\ IsFiniteSet({}) /\ Cardinality({}) = 0
    BY <1>22, FS_EmptySet DEF Restart
  <2> QED BY <2>1, <2>2, <2>3, CacheAssumption
      DEF FlightInv, FlightsOK, SlotsOK, SpoolsOK, Leading, Slotted
<1>23. CASE UNCHANGED vars
  BY <1>21, <1>23 DEF vars
<1>24. CASE \E k \in ClipKeys : Evict(k)
  BY <1>21, <1>24 DEF Evict
<1>25. CASE (\E k \in StitchKeys : Stitch(k)) \/ StitchFails \/ (\E m \in Sizes : PutRename(m)) \/ Put
  BY <1>21, <1>25 DEF Stitch, StitchFails, PutRename, Put
<1> QED BY <1>1, <1>2, <1>3, <1>4, <1>5, <1>6, <1>7, <1>8, <1>9, <1>10, <1>11, <1>12, <1>13, <1>14, <1>15, <1>16, <1>17, <1>18, <1>19, <1>20, <1>21, <1>22, <1>23, <1>24, <1>25
    DEF Next, Caller

\* The flights, the slots and the callers agree in every reachable state.
LEMMA FlightInvHolds == Spec => []FlightInv
  BY FlightInvInit, FlightInvStep, PTL DEF Spec

\* media.go serveRanged: with any number of requests and spool slots, a slot is
\* held exactly while its request spools, so the slots never run out for good.
THEOREM SpoolsAlwaysGivenBack == Spec => []SpoolsGivenBack
<1>1. FlightInv => SpoolsGivenBack
  BY DEF FlightInv, SpoolsOK, SpoolsGivenBack, At
<1> QED BY <1>1, FlightInvHolds, PTL

\* mediacache.go Fill: with any number of callers, keys and fill slots, no two
\* callers lead a flight for one key, and only slot holders download.
THEOREM SingleFlightAlways == Spec => []SingleFlight
<1>1. FlightInv => SingleFlight
  BY DEF FlightInv, FlightsOK, SlotsOK, SingleFlight, Slotted
<1> QED BY <1>1, FlightInvHolds, PTL

------------------------------------------------------------------------------
(***************************************************************************)
(* Sums over finite sets: MapThenSumSet's iteration exists, and how the sum*)
(* follows a change of one term.                                           *)
(***************************************************************************)
Pick(s) == CHOOSE x \in s : TRUE

\* f is MapThenSumSet's iteration over the subsets of S.
SumOver(e, S, f) ==
  f = [s \in SUBSET S |-> IF s = {} THEN 0 ELSE e[Pick(s)] + f[s \ {Pick(s)}]]

\* One turn of the iteration.
LEMMA SumTurn ==
  ASSUME NEW e, NEW S, NEW f, SumOver(e, S, f), NEW s \in SUBSET S
  PROVE  /\ s = {} => f[s] = 0
         /\ s # {} => /\ Pick(s) \in s /\ s \ {Pick(s)} \in SUBSET S
                      /\ <<s \ {Pick(s)}, s>> \in StrictSubsetOrdering(S)
                      /\ f[s] = e[Pick(s)] + f[s \ {Pick(s)}]
<1>1. s # {} => Pick(s) \in s
  BY DEF Pick
<1>2. f[s] = IF s = {} THEN 0 ELSE e[Pick(s)] + f[s \ {Pick(s)}]
  BY Zenon DEF SumOver
<1>3. s # {} => <<s \ {Pick(s)}, s>> \in StrictSubsetOrdering(S)
  BY <1>1 DEF StrictSubsetOrdering
<1> QED BY <1>1, <1>2, <1>3

\* The last one.
LEMMA SumTop ==
  ASSUME NEW e, NEW S, NEW f, SumOver(e, S, f)
  PROVE  /\ S = {} => f[S] = 0
         /\ S # {} => S \ {Pick(S)} \in SUBSET S /\ f[S] = e[Pick(S)] + f[S \ {Pick(S)}]
<1>1. f[S] = IF S = {} THEN 0 ELSE e[Pick(S)] + f[S \ {Pick(S)}]
  <2>1. S \in SUBSET S
    OBVIOUS
  <2> QED BY <2>1, Zenon DEF SumOver
<1> QED BY <1>1

\* Among the subsets of a finite set that are not as wanted there is a smallest.
LEMMA SmallestSubset ==
  ASSUME NEW S, IsFiniteSet(S), NEW B \in SUBSET SUBSET S, B # {}
  PROVE  \E t \in B : \A s \in B : <<s, t>> \notin StrictSubsetOrdering(S)
<1>1. IsWellFoundedOn(StrictSubsetOrdering(S), SUBSET S)
  BY FS_StrictSubsetOrderingWellFounded, FS_FiniteSubsetsOfFinite
<1> QED BY <1>1, WFMin

\* The iteration has one value for a set, whatever it started from.
LEMMA SumUnique ==
  ASSUME NEW e, NEW S, NEW f, SumOver(e, S, f), NEW T, NEW g, SumOver(e, T, g),
         IsFiniteSet(S), NEW s \in SUBSET S, s \in SUBSET T
  PROVE  f[s] = g[s]
<1> DEFINE B == {t \in SUBSET S : t \in SUBSET T /\ f[t] # g[t]}
<1>1. SUFFICES ASSUME B # {} PROVE FALSE
  OBVIOUS
<1>2. PICK t \in B : \A u \in B : <<u, t>> \notin StrictSubsetOrdering(S)
  <2>1. B \in SUBSET SUBSET S
    OBVIOUS
  <2> HIDE DEF B
  <2> QED BY <1>1, <2>1, SmallestSubset
<1>3. t \in SUBSET S /\ t \in SUBSET T /\ f[t] # g[t]
  OBVIOUS
<1> DEFINE u == t \ {Pick(t)}
<1>4. CASE t = {}
  BY <1>3, <1>4, SumTurn
<1>5. CASE t # {}
  <2>1. /\ u \in SUBSET S /\ <<u, t>> \in StrictSubsetOrdering(S) /\ f[t] = e[Pick(t)] + f[u]
        /\ u \in SUBSET T /\ g[t] = e[Pick(t)] + g[u]
    BY <1>3, <1>5, SumTurn
  <2>2. u \in B
    BY <1>3, <2>1
  <2> HIDE DEF u, B
  <2> QED BY <1>2, <2>1, <2>2
<1> QED BY <1>4, <1>5

\* It exists.
LEMMA SumExists ==
  ASSUME NEW e, NEW S, IsFiniteSet(S)
  PROVE  \E f : SumOver(e, S, f)
<1> DEFINE B == {t \in SUBSET S : ~ \E f : SumOver(e, t, f)}
<1>1. SUFFICES ASSUME B # {} PROVE FALSE
  BY DEF B
<1>2. PICK t \in B : \A u \in B : <<u, t>> \notin StrictSubsetOrdering(S)
  <2>1. B \in SUBSET SUBSET S
    OBVIOUS
  <2> HIDE DEF B
  <2> QED BY <1>1, <2>1, SmallestSubset
<1> DEFINE h(s) == CHOOSE f : SumOver(e, s, f)
           val(s) == IF s = {} THEN 0 ELSE e[Pick(s)] + h(s \ {Pick(s)})[s \ {Pick(s)}]
           g == [s \in SUBSET t |-> val(s)]
<1>3. t \in SUBSET S /\ IsFiniteSet(t)
  BY FS_Subset
<1>4. ASSUME NEW s \in SUBSET t, s # t PROVE SumOver(e, s, h(s)) /\ IsFiniteSet(s)
  <2>1. <<s, t>> \in StrictSubsetOrdering(S) /\ s \in SUBSET S
    BY <1>3, <1>4 DEF StrictSubsetOrdering
  <2>2. \E f : SumOver(e, s, f)
    BY <1>2, <2>1
  <2> QED BY <1>3, <2>2, FS_Subset
<1>5. ASSUME NEW s \in SUBSET t PROVE g[s] = IF s = {} THEN 0 ELSE e[Pick(s)] + g[s \ {Pick(s)}]
  <2> DEFINE u == s \ {Pick(s)}
  <2>1. CASE s = {}
    BY <2>1
  <2>2. CASE s # {}
    <3>1. Pick(s) \in s
      BY <2>2 DEF Pick
    <3>2. u \in SUBSET t /\ u # t
      BY <3>1
    <3>3. SumOver(e, u, h(u)) /\ IsFiniteSet(u)
      BY <1>4, <3>2
    <3>4. h(u)[u] = val(u)
      <4>0. /\ u = {} => h(u)[u] = 0
            /\ u # {} => u \ {Pick(u)} \in SUBSET u /\ h(u)[u] = e[Pick(u)] + h(u)[u \ {Pick(u)}]
        <5> HIDE DEF u, h
        <5> QED BY <3>3, SumTop
      <4>1. CASE u = {}
        <5> HIDE DEF h, u
        <5> QED BY <4>0, <4>1
      <4>2. CASE u # {}
        <5> DEFINE w == u \ {Pick(u)}
        <5>1. w \in SUBSET u /\ h(u)[u] = e[Pick(u)] + h(u)[w]
          BY <4>0, <4>2
        <5>2. Pick(u) \in u
          BY <4>2 DEF Pick
        <5>3. w \in SUBSET t /\ w # t
          BY <3>2, <5>1, <5>2
        <5>4. SumOver(e, w, h(w)) /\ IsFiniteSet(w)
          BY <1>4, <5>3
        <5>5. h(u)[w] = h(w)[w]
          <6> HIDE DEF u, w, h
          <6> QED BY <3>3, <5>1, <5>4, SumUnique
        <5> HIDE DEF h, u
        <5> QED BY <4>2, <5>1, <5>5
      <4> QED BY <4>1, <4>2
    <3>5. g[u] = val(u) /\ g[s] = val(s)
      <4> HIDE DEF val, u
      <4> QED BY <3>2
    <3>6. val(s) = e[Pick(s)] + h(u)[u]
      BY <2>2
    <3> HIDE DEF g, val, h
    <3> QED BY <2>2, <3>4, <3>5, <3>6
  <2> QED BY <2>1, <2>2
<1>6. SumOver(e, t, g)
  <2>1. g = [s \in SUBSET t |-> g[s]]
    OBVIOUS
  <2> HIDE DEF g
  <2> QED BY <1>5, <2>1 DEF SumOver
<1> QED BY <1>2, <1>6

\* The sum of e over S.
Total(e, S) == MapThenSumSet(LAMBDA k : e[k], S)

\* The community module's sum is the sum taken one key at a time.
LEMMA TotalIs ==
  ASSUME NEW e, NEW S, IsFiniteSet(S)
  PROVE  \E f : SumOver(e, S, f) /\ Total(e, S) = f[S]
<1> DEFINE iter == CHOOSE f : f = [s \in SUBSET S |->
                     IF s = {} THEN 0 ELSE e[CHOOSE x \in s : TRUE] + f[s \ {CHOOSE x \in s : TRUE}]]
<1>1. Total(e, S) = iter[S]
  BY DEF Total, MapThenSumSet, MapThenFoldSet
<1>2. iter = CHOOSE f : SumOver(e, S, f)
  BY DEF SumOver, Pick
<1>3. SumOver(e, S, iter)
  BY <1>2, SumExists
<1> QED BY <1>1, <1>3

\* A sum of integers is one, and a sum of zeros is 0.
LEMMA SumType ==
  ASSUME NEW S, IsFiniteSet(S), NEW e \in [S -> Int], NEW f, SumOver(e, S, f)
  PROVE  /\ \A s \in SUBSET S : f[s] \in Int
         /\ (\A x \in S : e[x] = 0) => \A s \in SUBSET S : f[s] = 0
<1> DEFINE good(s) == f[s] \in Int /\ ((\A x \in S : e[x] = 0) => f[s] = 0)
           B == {s \in SUBSET S : ~ good(s)}
<1>1. SUFFICES ASSUME B # {} PROVE FALSE
  OBVIOUS
<1>2. PICK t \in B : \A u \in B : <<u, t>> \notin StrictSubsetOrdering(S)
  <2>1. B \in SUBSET SUBSET S
    OBVIOUS
  <2> HIDE DEF B
  <2> QED BY <1>1, <2>1, SmallestSubset
<1>3. t \in SUBSET S /\ ~ good(t)
  OBVIOUS
<1>4. CASE t = {}
  <2>1. f[t] = 0
    <3> HIDE DEF B, good
    <3> QED BY <1>3, <1>4, SumTurn
  <2> QED BY <1>3, <2>1
<1>5. CASE t # {}
  <2> DEFINE u == t \ {Pick(t)}
  <2>1. /\ u \in SUBSET S /\ <<u, t>> \in StrictSubsetOrdering(S) /\ f[t] = e[Pick(t)] + f[u]
        /\ Pick(t) \in S
    BY <1>3, <1>5, SumTurn
  <2>2. u \notin B
    BY <1>2, <2>1
  <2> HIDE DEF u
  <2>3. f[u] \in Int /\ ((\A x \in S : e[x] = 0) => f[u] = 0) /\ e[Pick(t)] \in Int
    BY <2>1, <2>2
  <2> QED BY <1>3, <2>1, <2>3
<1> QED BY <1>4, <1>5

\* One turn of two iterations over the same set.
LEMMA SumTurns ==
  ASSUME NEW S, NEW e, NEW f, SumOver(e, S, f), NEW d, NEW g, SumOver(d, S, g), NEW s \in SUBSET S
  PROVE  /\ s = {} => f[s] = 0 /\ g[s] = 0
         /\ s # {} => /\ Pick(s) \in s /\ s \ {Pick(s)} \in SUBSET S
                      /\ <<s \ {Pick(s)}, s>> \in StrictSubsetOrdering(S)
                      /\ f[s] = e[Pick(s)] + f[s \ {Pick(s)}]
                      /\ g[s] = d[Pick(s)] + g[s \ {Pick(s)}]
<1>1. /\ s = {} => f[s] = 0
      /\ s # {} => /\ Pick(s) \in s /\ s \ {Pick(s)} \in SUBSET S
                   /\ <<s \ {Pick(s)}, s>> \in StrictSubsetOrdering(S)
                   /\ f[s] = e[Pick(s)] + f[s \ {Pick(s)}]
  BY SumTurn
<1>2. /\ s = {} => g[s] = 0
      /\ s # {} => /\ Pick(s) \in s /\ s \ {Pick(s)} \in SUBSET S
                   /\ <<s \ {Pick(s)}, s>> \in StrictSubsetOrdering(S)
                   /\ g[s] = d[Pick(s)] + g[s \ {Pick(s)}]
  BY SumTurn
<1> QED BY <1>1, <1>2

\* One term changes, and the sum by as much.
LEMMA SumChange ==
  ASSUME NEW S, IsFiniteSet(S), NEW e \in [S -> Int], NEW f, SumOver(e, S, f),
         NEW k \in S, NEW v \in Int, NEW d,
         d[k] = v, \A x \in S : x # k => d[x] = e[x],
         NEW g, SumOver(d, S, g), NEW s \in SUBSET S
  PROVE  g[s] = IF k \in s THEN f[s] - e[k] + v ELSE f[s]
<1> DEFINE want(t) == IF k \in t THEN f[t] - e[k] + v ELSE f[t]
           B == {t \in SUBSET S : g[t] # want(t)}
<1>1. SUFFICES ASSUME B # {} PROVE FALSE
  OBVIOUS
<1>2. PICK t \in B : \A u \in B : <<u, t>> \notin StrictSubsetOrdering(S)
  <2>1. B \in SUBSET SUBSET S
    OBVIOUS
  <2> QED BY <1>1, <2>1, SmallestSubset
<1>3. t \in SUBSET S /\ g[t] # want(t)
  OBVIOUS
<1> HIDE DEF B
<1>a. t \in SUBSET S
  BY <1>3
<1>b. /\ t = {} => f[t] = 0 /\ g[t] = 0
      /\ t # {} => /\ Pick(t) \in t /\ t \ {Pick(t)} \in SUBSET S
                   /\ <<t \ {Pick(t)}, t>> \in StrictSubsetOrdering(S)
                   /\ f[t] = e[Pick(t)] + f[t \ {Pick(t)}]
                   /\ g[t] = d[Pick(t)] + g[t \ {Pick(t)}]
  BY <1>a, SumTurns
<1>4. CASE t = {}
  <2>1. f[t] = 0 /\ g[t] = 0
    BY <1>b, <1>4
  <2> QED BY <1>3, <1>4, <2>1
<1>5. CASE t # {}
  <2> DEFINE u == t \ {Pick(t)}
  <2>1. /\ u \in SUBSET S /\ <<u, t>> \in StrictSubsetOrdering(S) /\ f[t] = e[Pick(t)] + f[u]
        /\ Pick(t) \in S
    BY <1>a, <1>b, <1>5
  <2>2. g[t] = d[Pick(t)] + g[u]
    BY <1>a, <1>b, <1>5
  <2>3. g[u] = want(u)
    BY <1>2, <2>1 DEF B
  <2>4. f[u] \in Int /\ f[t] \in Int /\ e[k] \in Int /\ e[Pick(t)] \in Int /\ v \in Int
    BY <1>3, <2>1, SumType
  <2>5. CASE Pick(t) = k
    <3>1. k \in t /\ k \notin u
      BY <1>5, <2>5 DEF Pick
    <3> HIDE DEF u
    <3> QED BY <1>3, <2>1, <2>2, <2>3, <2>4, <2>5, <3>1
  <2>6. CASE Pick(t) # k
    <3>1. k \in t <=> k \in u
      BY <2>6
    <3>2. d[Pick(t)] = e[Pick(t)]
      BY <2>1, <2>6
    <3> HIDE DEF u
    <3> QED BY <1>3, <2>1, <2>2, <2>3, <2>4, <3>1, <3>2
  <2> QED BY <2>5, <2>6
<1> QED BY <1>4, <1>5

\* The byte counter's sum when one entry changes, and of no entries.
LEMMA TotalChange ==
  ASSUME NEW S, IsFiniteSet(S), NEW e \in [S -> Int]
  PROVE  /\ Total(e, S) \in Int
         /\ (\A x \in S : e[x] = 0) => Total(e, S) = 0
         /\ \A k \in S, v \in Int : Total([e EXCEPT ![k] = v], S) = Total(e, S) - e[k] + v
<1>1. PICK f : SumOver(e, S, f) /\ Total(e, S) = f[S]
  BY TotalIs
<1>2. S \in SUBSET S
  OBVIOUS
<1>3. Total(e, S) \in Int /\ ((\A x \in S : e[x] = 0) => Total(e, S) = 0)
  <2>1. /\ \A s \in SUBSET S : f[s] \in Int
        /\ (\A x \in S : e[x] = 0) => \A s \in SUBSET S : f[s] = 0
    BY <1>1, SumType
  <2> QED BY <1>1, <1>2, <2>1, Zenon
<1>4. ASSUME NEW k \in S, NEW v \in Int
      PROVE  Total([e EXCEPT ![k] = v], S) = Total(e, S) - e[k] + v
  <2> DEFINE d == [e EXCEPT ![k] = v]
  <2>0. d \in [S -> Int] /\ d[k] = v /\ \A x \in S : x # k => d[x] = e[x]
    OBVIOUS
  <2> HIDE DEF d
  <2>1. PICK g : SumOver(d, S, g) /\ Total(d, S) = g[S]
    BY TotalIs
  <2>2. \A s \in SUBSET S : g[s] = IF k \in s THEN f[s] - e[k] + v ELSE f[s]
    <3> TAKE s \in SUBSET S
    <3> QED BY <1>1, <2>0, <2>1, SumChange
  <2>3. g[S] = IF k \in S THEN f[S] - e[k] + v ELSE f[S]
    BY <1>2, <2>2, Zenon
  <2> QED BY <1>1, <2>1, <2>3 DEF d
<1> QED BY <1>3, <1>4

------------------------------------------------------------------------------
(***************************************************************************)
(* The critical sections: the map, the counter, the order of use and the   *)
(* directory.                                                              *)
(***************************************************************************)
Distinct(s) == \A i, j \in 1 .. Len(s) : s[i] = s[j] => i = j

\* Taking a key out of the order of use leaves the others in their order.
LEMMA WithoutKey ==
  ASSUME NEW K, NEW s \in Seq(K), Distinct(s), NEW k
  PROVE  /\ Without(s, k) \in Seq(K) /\ Distinct(Without(s, k))
         /\ ToSet(Without(s, k)) = ToSet(s) \ {k}
         /\ k \in ToSet(s) => Len(Without(s, k)) = Len(s) - 1
         /\ k \notin ToSet(s) => Without(s, k) = s
<1>1. CASE k \notin ToSet(s)
  BY <1>1 DEF Without
<1>2. CASE k \in ToSet(s)
  <2> DEFINE n == Len(s)
             p == CHOOSE i \in DOMAIN s : s[i] = k
             w == RemoveAt(s, p)
  <2>1. n \in Nat /\ DOMAIN s = 1 .. n
    OBVIOUS
  <2>2. p \in 1 .. n /\ s[p] = k
    <3>1. \E i \in DOMAIN s : s[i] = k
      BY <1>2 DEF ToSet
    <3> QED BY <2>1, <3>1
  <2>3. Without(s, k) = w
    BY <1>2 DEF Without
  <2> HIDE DEF p
  <2>4. /\ w \in Seq(K) /\ Len(w) = n - 1 /\ DOMAIN w = 1 .. n - 1
        /\ \A i \in 1 .. n - 1 : w[i] = IF i < p THEN s[i] ELSE s[i + 1]
    <3> DEFINE a == SubSeq(s, 1, p - 1)
               b == SubSeq(s, p + 1, n)
    <3>1. /\ a \in Seq(K) /\ Len(a) = p - 1
          /\ \A i \in 1 .. p - 1 : a[i] = s[i]
      BY <2>1, <2>2
    <3>2. /\ b \in Seq(K) /\ Len(b) = n - p
          /\ \A i \in 1 .. n - p : b[i] = s[p + i]
      <4>1. b \in Seq(K) /\ Len(b) = n - p
        <5>1. p + 1 \in 1 .. n + 1 /\ n \in Nat
          BY <2>1, <2>2
        <5>2. \A i \in p + 1 .. n : s[i] \in K
          BY <2>1, <2>2
        <5>3. Len(b) = IF p + 1 <= n THEN n - (p + 1) + 1 ELSE 0
          BY <2>1, <2>2
        <5>4. b \in Seq(K)
          BY <5>1, <5>2
        <5> HIDE DEF b, n
        <5> QED BY <2>1, <2>2, <5>3, <5>4
      <4>2. \A i \in 1 .. n - p : b[i] = s[(p + 1) + i - 1]
        BY <2>1, <2>2
      <4>3. \A i \in 1 .. n - p : (p + 1) + i - 1 = p + i
        BY <2>1, <2>2
      <4> HIDE DEF a, b, n
      <4>4. \A i \in 1 .. n - p : b[i] = s[p + i]
        BY <4>2, <4>3
      <4> QED BY <4>1, <4>4
    <3>3. w = a \o b
      BY DEF RemoveAt
    <3> HIDE DEF a, b, w
    <3>4. w \in Seq(K) /\ Len(w) = n - 1
      <4>1. w \in Seq(K) /\ Len(w) = Len(a) + Len(b)
        BY <3>1, <3>2, <3>3
      <4> HIDE DEF n
      <4> QED BY <2>1, <2>2, <3>1, <3>2, <4>1
    <3>5. ASSUME NEW i \in 1 .. n - 1 PROVE w[i] = IF i < p THEN s[i] ELSE s[i + 1]
      <4>1. CASE i < p
        BY <2>1, <2>2, <3>1, <3>2, <3>3, <4>1
      <4>2. CASE ~(i < p)
        <5>1. i - (p - 1) \in 1 .. n - p /\ p + (i - (p - 1)) = i + 1
          BY <2>1, <2>2, <4>2
        <5>2. w[i] = b[i - (p - 1)]
          BY <2>1, <2>2, <3>1, <3>2, <3>3, <4>2
        <5> QED BY <3>2, <4>2, <5>1, <5>2
      <4> QED BY <4>1, <4>2
    <3> QED BY <2>1, <3>4, <3>5
  <2> HIDE DEF w
  <2>5. ASSUME NEW i \in 1 .. n - 1, NEW j \in 1 .. n - 1, w[i] = w[j] PROVE i = j
    <3>1. PICK x \in 1 .. n : x = IF i < p THEN i ELSE i + 1
      BY <2>1, <2>2
    <3>2. PICK y \in 1 .. n : y = IF j < p THEN j ELSE j + 1
      BY <2>1, <2>2
    <3>3. s[x] = w[i] /\ s[y] = w[j]
      BY <2>4, <3>1, <3>2
    <3>4. x = y
      BY <2>5, <3>3 DEF Distinct
    <3> QED BY <2>1, <2>2, <3>1, <3>2, <3>4
  <2>7. Distinct(w)
    BY <2>4, <2>5 DEF Distinct
  <2>6. ToSet(w) = ToSet(s) \ {k}
    <3>1. ASSUME NEW x \in ToSet(w) PROVE x \in ToSet(s) \ {k}
      <4>1. PICK i \in 1 .. n - 1 : x = w[i]
        BY <2>4 DEF ToSet
      <4>2. PICK j \in 1 .. n : j # p /\ x = s[j]
        BY <2>1, <2>2, <2>4, <4>1
      <4> QED BY <2>1, <2>2, <4>2 DEF Distinct, ToSet
    <3>2. ASSUME NEW x \in ToSet(s), x # k PROVE x \in ToSet(w)
      <4>1. PICK j \in 1 .. n : x = s[j]
        BY <2>1 DEF ToSet
      <4>2. j # p
        BY <2>2, <3>2, <4>1
      <4>3. \E i \in 1 .. n - 1 : w[i] = s[j]
        <5>1. CASE j < p
          BY <2>1, <2>2, <2>4, <5>1
        <5>2. CASE j > p
          <6>1. j - 1 \in 1 .. n - 1 /\ ~(j - 1 < p) /\ (j - 1) + 1 = j
            BY <2>1, <2>2, <5>2
          <6> QED BY <2>4, <6>1
        <5> QED BY <2>1, <2>2, <4>2, <5>1, <5>2
      <4> QED BY <2>4, <4>1, <4>3 DEF ToSet
    <3> QED BY <3>1, <3>2
  <2> QED BY <1>2, <2>3, <2>4, <2>6, <2>7
<1> QED BY <1>1, <1>2

\* Putting one that is not there at the end.
LEMMA AppendKey ==
  ASSUME NEW K, NEW s \in Seq(K), Distinct(s), NEW k \in K, k \notin ToSet(s)
  PROVE  /\ Append(s, k) \in Seq(K) /\ Distinct(Append(s, k))
         /\ ToSet(Append(s, k)) = ToSet(s) \cup {k}
         /\ Len(Append(s, k)) = Len(s) + 1
<1> DEFINE w == Append(s, k)
           n == Len(s)
<1>1. /\ w \in Seq(K) /\ Len(w) = n + 1 /\ n \in Nat /\ DOMAIN s = 1 .. n /\ DOMAIN w = 1 .. n + 1
      /\ w[n + 1] = k /\ \A i \in 1 .. n : w[i] = s[i]
  OBVIOUS
<1> HIDE DEF w, n
<1>2. \A i \in 1 .. n : s[i] # k
  BY <1>1 DEF ToSet
<1>3. Distinct(w)
  BY <1>1, <1>2 DEF Distinct, n
<1>4. ToSet(w) = ToSet(s) \cup {k}
  <2>1. \A x \in ToSet(w) : x \in ToSet(s) \cup {k}
    BY <1>1 DEF ToSet
  <2>2. \A x \in ToSet(s) : x \in ToSet(w)
    BY <1>1 DEF ToSet
  <2>3. k \in ToSet(w)
    BY <1>1 DEF ToSet
  <2> QED BY <2>1, <2>2, <2>3
<1> QED BY <1>1, <1>3, <1>4 DEF w, n

CacheRecord == [entries : [Keys -> Nat], lru : Seq(Keys), size : Int, files : [Keys -> Nat]]

\* The locked state is consistent: the order of use is of the entered keys, the
\* counter is their sum, and every entry has its whole file.
CacheOK(c) ==
  /\ c \in CacheRecord
  /\ Distinct(c.lru) /\ ToSet(c.lru) = {k \in Keys : c.entries[k] # 0}
  /\ c.size = Total(c.entries, Keys)
  /\ \A k \in Keys : c.entries[k] # 0 => c.files[k] = c.entries[k]

\* A new cache accounts for everything: it holds nothing.
LEMMA EmptyOK == CacheOK(Empty) /\ Empty.size = 0
<1>1. /\ Empty \in CacheRecord /\ Empty.lru = <<>> /\ Empty.size = 0
      /\ Empty.entries = [k \in Keys |-> 0]
  BY DEF Empty, CacheRecord
<1>2. Distinct(<<>>) /\ ToSet(<<>>) = {}
  BY DEF Distinct, ToSet
<1>3. Empty.entries \in [Keys -> Int] /\ \A k \in Keys : Empty.entries[k] = 0
  BY <1>1
<1>4. Total(Empty.entries, Keys) = 0
  BY <1>3, TotalChange, CacheAssumption
<1> QED BY <1>1, <1>2, <1>3, <1>4 DEF CacheOK

\* drop keeps it consistent.
LEMMA DropOK ==
  ASSUME NEW c, CacheOK(c), NEW k \in Keys
  PROVE  /\ CacheOK(DropEntry(c, k))
         /\ DropEntry(c, k).entries = [c.entries EXCEPT ![k] = 0]
         /\ DropEntry(c, k).files = [c.files EXCEPT ![k] = 0]
         /\ DropEntry(c, k).size = c.size - c.entries[k]
         /\ c.entries[k] # 0 => Len(DropEntry(c, k).lru) = Len(c.lru) - 1
<1> DEFINE d == DropEntry(c, k)
<1>1. /\ c.entries \in [Keys -> Nat] /\ c.lru \in Seq(Keys) /\ c.size \in Int
      /\ c.files \in [Keys -> Nat] /\ Distinct(c.lru)
      /\ ToSet(c.lru) = {x \in Keys : c.entries[x] # 0}
      /\ c.size = Total(c.entries, Keys)
      /\ \A x \in Keys : c.entries[x] # 0 => c.files[x] = c.entries[x]
  BY DEF CacheOK, CacheRecord
<1>2. /\ d.entries = [c.entries EXCEPT ![k] = 0] /\ d.files = [c.files EXCEPT ![k] = 0]
      /\ d.size = c.size - c.entries[k] /\ d.lru = Without(c.lru, k)
      /\ d = [entries |-> d.entries, lru |-> d.lru, size |-> d.size, files |-> d.files]
  BY DEF DropEntry
<1> HIDE DEF d
<1>3. /\ d.lru \in Seq(Keys) /\ Distinct(d.lru) /\ ToSet(d.lru) = ToSet(c.lru) \ {k}
      /\ c.entries[k] # 0 => Len(d.lru) = Len(c.lru) - 1
  <2>1. /\ Without(c.lru, k) \in Seq(Keys) /\ Distinct(Without(c.lru, k))
        /\ ToSet(Without(c.lru, k)) = ToSet(c.lru) \ {k}
        /\ k \in ToSet(c.lru) => Len(Without(c.lru, k)) = Len(c.lru) - 1
        /\ k \notin ToSet(c.lru) => Without(c.lru, k) = c.lru
    BY <1>1, WithoutKey
  <2> QED BY <1>1, <1>2, <2>1
<1>4. /\ d.entries \in [Keys -> Nat] /\ d.files \in [Keys -> Nat] /\ d.size \in Int
      /\ \A x \in Keys : d.entries[x] = IF x = k THEN 0 ELSE c.entries[x]
      /\ \A x \in Keys : d.files[x] = IF x = k THEN 0 ELSE c.files[x]
  BY <1>1, <1>2
<1>5. ToSet(d.lru) = {x \in Keys : d.entries[x] # 0}
  BY <1>1, <1>3, <1>4
<1>6. d.size = Total(d.entries, Keys)
  <2>1. c.entries \in [Keys -> Int] /\ IsFiniteSet(Keys) /\ c.entries[k] \in Int
    BY <1>1, CacheAssumption
  <2>2. Total(d.entries, Keys) = Total(c.entries, Keys) - c.entries[k] + 0
    BY <1>2, <2>1, TotalChange
  <2> QED BY <1>1, <1>2, <2>1, <2>2
<1>7. d \in CacheRecord
  BY <1>2, <1>3, <1>4 DEF CacheRecord
<1>8. CacheOK(d)
  BY <1>1, <1>3, <1>4, <1>5, <1>6, <1>7 DEF CacheOK
<1> QED BY <1>2, <1>3, <1>8 DEF d

\* So does an entry's use, the entry being new or not.
LEMMA UsedOK ==
  ASSUME NEW c \in CacheRecord, NEW k \in Keys, Distinct(c.lru), c.entries[k] # 0,
         ToSet(c.lru) \ {k} = {x \in Keys : c.entries[x] # 0} \ {k},
         c.size = Total(c.entries, Keys),
         \A x \in Keys : c.entries[x] # 0 => c.files[x] = c.entries[x]
  PROVE  /\ CacheOK(Used(c, k)) /\ Len(Used(c, k).lru) \in Nat /\ Len(Used(c, k).lru) >= 1
         /\ Used(c, k).entries = c.entries /\ Used(c, k).files = c.files /\ Used(c, k).size = c.size
         /\ k \in ToSet(c.lru) => Len(Used(c, k).lru) = Len(c.lru)
<1> DEFINE d == Used(c, k)
           w == Without(c.lru, k)
<1>1. c.lru \in Seq(Keys) /\ c.entries \in [Keys -> Nat] /\ c.size \in Int /\ c.files \in [Keys -> Nat]
      /\ c = [entries |-> c.entries, lru |-> c.lru, size |-> c.size, files |-> c.files]
  BY DEF CacheRecord
<1>2. w \in Seq(Keys) /\ Distinct(w) /\ ToSet(w) = ToSet(c.lru) \ {k}
      /\ (k \in ToSet(c.lru) => Len(w) = Len(c.lru) - 1)
  BY <1>1, WithoutKey
<1>3. d = [entries |-> c.entries, lru |-> Append(w, k), size |-> c.size, files |-> c.files]
  <2>1. d = [c EXCEPT !.lru = Append(w, k)]
    BY DEF Used
  <2> HIDE DEF d, w
  <2>2. ASSUME NEW s, d = [c EXCEPT !.lru = s]
        PROVE  d = [entries |-> c.entries, lru |-> s, size |-> c.size, files |-> c.files]
    BY <2>2 DEF CacheRecord
  <2> QED BY <2>1, <2>2
<1> HIDE DEF d, w
<1>4. /\ d.lru \in Seq(Keys) /\ Distinct(d.lru) /\ ToSet(d.lru) = ToSet(w) \cup {k}
      /\ Len(d.lru) = Len(w) + 1
  <2>1. k \notin ToSet(w)
    BY <1>2
  <2> QED BY <1>2, <1>3, <2>1, AppendKey
<1>5. d.entries = c.entries /\ d.files = c.files /\ d.size = c.size
  BY <1>3
<1>6. ToSet(d.lru) = {x \in Keys : d.entries[x] # 0}
  BY <1>2, <1>4, <1>5
<1>7. d \in CacheRecord
  BY <1>1, <1>3, <1>4 DEF CacheRecord
<1>8. CacheOK(d)
  BY <1>4, <1>5, <1>6, <1>7 DEF CacheOK
<1>9. Len(w) \in Nat /\ Len(c.lru) \in Nat
  BY <1>1, <1>2
<1> QED BY <1>2, <1>4, <1>5, <1>8, <1>9 DEF d

\* fill's and Put's new entry, before the shedding.
LEMMA NotedOK ==
  ASSUME NEW c, CacheOK(c), NEW k \in Keys, NEW n \in Nat \ {0}, c.files[k] = n
  PROVE  LET d == Used(Noted(c, k, n, n - c.entries[k]), k)
         IN  /\ CacheOK(d) /\ Len(d.lru) >= 1
             /\ d.entries = [c.entries EXCEPT ![k] = n] /\ d.files = c.files
<1> DEFINE b == Noted(c, k, n, n - c.entries[k])
<1>1. /\ c.entries \in [Keys -> Nat] /\ c.lru \in Seq(Keys) /\ c.size \in Int
      /\ c.files \in [Keys -> Nat] /\ Distinct(c.lru)
      /\ ToSet(c.lru) = {x \in Keys : c.entries[x] # 0}
      /\ c.size = Total(c.entries, Keys)
      /\ \A x \in Keys : c.entries[x] # 0 => c.files[x] = c.entries[x]
  BY DEF CacheOK, CacheRecord
<1>2. /\ b.entries = [c.entries EXCEPT ![k] = n] /\ b.files = c.files
      /\ b.size = c.size + (n - c.entries[k]) /\ b.lru = c.lru
      /\ b = [entries |-> b.entries, lru |-> b.lru, size |-> b.size, files |-> b.files]
  BY DEF Noted
<1> HIDE DEF b
<1>3. /\ b.entries \in [Keys -> Nat] /\ b.size \in Int /\ b.entries[k] = n
      /\ \A x \in Keys : x # k => b.entries[x] = c.entries[x]
  BY <1>1, <1>2
<1>4. b \in CacheRecord
  BY <1>1, <1>2, <1>3 DEF CacheRecord
<1>5. ToSet(b.lru) \ {k} = {x \in Keys : b.entries[x] # 0} \ {k}
  BY <1>1, <1>2, <1>3
<1>6. b.size = Total(b.entries, Keys)
  <2>1. c.entries \in [Keys -> Int] /\ IsFiniteSet(Keys) /\ c.entries[k] \in Int /\ n \in Int
    BY <1>1, CacheAssumption
  <2>2. Total(b.entries, Keys) = Total(c.entries, Keys) - c.entries[k] + n
    BY <1>2, <2>1, TotalChange
  <2> QED BY <1>1, <1>2, <2>1, <2>2
<1>7. \A x \in Keys : b.entries[x] # 0 => b.files[x] = b.entries[x]
  BY <1>1, <1>2, <1>3
<1>8. /\ CacheOK(Used(b, k)) /\ Len(Used(b, k).lru) \in Nat /\ Len(Used(b, k).lru) >= 1
      /\ Used(b, k).entries = b.entries /\ Used(b, k).files = b.files /\ Used(b, k).size = b.size
      /\ k \in ToSet(b.lru) => Len(Used(b, k).lru) = Len(b.lru)
  <2>1. Distinct(b.lru) /\ b.entries[k] # 0
    BY <1>1, <1>2, <1>3
  <2> QED BY <1>4, <1>5, <1>6, <1>7, <2>1, UsedOK
<1> QED BY <1>2, <1>8 DEF b

\* A set of numbers that is not empty has a smallest one.
LEMMA Smallest ==
  ASSUME NEW B \in SUBSET Nat, B # {}
  PROVE  \E n \in B : \A i \in B : ~ (i < n)
<1>1. IsWellFoundedOn(OpToRel(<, Nat), Nat)
  BY NatLessThanWellFounded
<1>2. PICK n \in B : \A i \in B : <<i, n>> \notin OpToRel(<, Nat)
  BY <1>1, WFMin
<1> QED BY <1>2 DEF OpToRel

\* The counter and the number of entries are numbers.
LEMMA CacheNumbers ==
  ASSUME NEW c, CacheOK(c)
  PROVE  c.lru \in Seq(Keys) /\ Len(c.lru) \in Nat /\ c.size \in Int
  BY DEF CacheOK, CacheRecord

\* One turn of shed's loop.
Turn(c) ==
  IF c.size > Budget /\ Len(c.lru) > 1 THEN DropEntry(c, Head(c.lru)) ELSE c

Turns(c, m, f) == f = [n \in 0 .. m |-> IF n = 0 THEN c ELSE Turn(f[n - 1])]

\* The loop runs: it has as many turns as it is given.
LEMMA ShedTurns ==
  ASSUME NEW c, NEW m \in Nat
  PROVE  \E f : Turns(c, m, f)
<1> DEFINE Bad == {n \in Nat : ~ \E f : Turns(c, n, f)}
<1>1. SUFFICES ASSUME Bad # {} PROVE FALSE
  OBVIOUS
<1>2. PICK n \in Bad : \A i \in Bad : ~ (i < n)
  <2>1. Bad \in SUBSET Nat
    OBVIOUS
  <2> QED BY <1>1, <2>1, Smallest
<1>3. CASE n = 0
  <2> DEFINE f == [i \in 0 .. 0 |-> c]
  <2>1. f = [i \in 0 .. 0 |-> IF i = 0 THEN c ELSE Turn(f[i - 1])]
    OBVIOUS
  <2> HIDE DEF f
  <2>2. Turns(c, 0, f)
    BY <2>1 DEF Turns
  <2> QED BY <1>2, <1>3, <2>2
<1>4. CASE n # 0
  <2>1. n - 1 \in Nat /\ n - 1 < n /\ n - 1 \notin Bad
    BY <1>2, <1>4
  <2>2. PICK f : Turns(c, n - 1, f)
    BY <2>1
  <2> DEFINE g == [i \in 0 .. n |-> IF i = n THEN Turn(f[n - 1]) ELSE f[i]]
  <2>3. \A i \in 0 .. n - 1 : f[i] = IF i = 0 THEN c ELSE Turn(f[i - 1])
    BY <2>2 DEF Turns
  <2>4. ASSUME NEW i \in 0 .. n
        PROVE  g[i] = IF i = 0 THEN c ELSE Turn(g[i - 1])
    <3>1. CASE i = n
      <4>1. g[i] = Turn(f[n - 1]) /\ i - 1 \in 0 .. n /\ i - 1 # n
        BY <2>1, <3>1
      <4>2. g[i - 1] = f[n - 1]
        BY <4>1, <3>1
      <4> QED BY <4>1, <4>2, <3>1, <1>4
    <3>2. CASE i # n
      <4>1. i \in 0 .. n - 1 /\ g[i] = f[i]
        BY <3>2, <1>2
      <4>2. CASE i = 0
        BY <4>1, <4>2, <2>3
      <4>3. CASE i # 0
        <5>1. i - 1 \in 0 .. n /\ i - 1 # n
          BY <4>3, <1>2
        <5>2. g[i - 1] = f[i - 1]
          BY <5>1
        <5> QED BY <4>1, <4>3, <5>2, <2>3
      <4> QED BY <4>2, <4>3
    <3> QED BY <3>1, <3>2
  <2>5. g = [i \in 0 .. n |-> g[i]]
    OBVIOUS
  <2> HIDE DEF g
  <2>6. g = [i \in 0 .. n |-> IF i = 0 THEN c ELSE Turn(g[i - 1])]
    BY <2>4, <2>5, Zenon
  <2>7. Turns(c, n, g)
    BY <2>6 DEF Turns
  <2> QED BY <1>2, <2>7
<1> QED BY <1>3, <1>4

\* What shedding may do to a key: nothing, or to drop its entry and its file.
Sheds(c, d) ==
  \A x \in Keys : \/ d.entries[x] = c.entries[x] /\ d.files[x] = c.files[x]
                  \/ c.entries[x] # 0 /\ d.entries[x] = 0 /\ d.files[x] = 0

\* A turn keeps the state consistent and never takes the last entry.
LEMMA TurnOK ==
  ASSUME NEW c, CacheOK(c), Len(c.lru) >= 1
  PROVE  /\ CacheOK(Turn(c)) /\ Sheds(c, Turn(c)) /\ Len(Turn(c).lru) >= 1
         /\ \/ Turn(c) = c /\ (c.size <= Budget \/ Len(c.lru) = 1)
            \/ ~ (c.size <= Budget) /\ Len(c.lru) # 1 /\ Len(Turn(c).lru) = Len(c.lru) - 1
<1>0. c.lru \in Seq(Keys) /\ Len(c.lru) \in Nat /\ c.size \in Int /\ Budget \in Int
  BY CacheAssumption DEF CacheOK, CacheRecord
<1>1. CASE c.size > Budget /\ Len(c.lru) > 1
  <2> DEFINE k == Head(c.lru)
             d == DropEntry(c, k)
  <2>1. k \in Keys /\ k \in ToSet(c.lru)
    <3>1. k = c.lru[1] /\ 1 \in DOMAIN c.lru
      BY <1>0, <1>1
    <3> QED BY <3>1, <1>0 DEF ToSet
  <2>2. c.entries[k] # 0 /\ c.entries \in [Keys -> Nat] /\ c.files \in [Keys -> Nat]
    BY <2>1 DEF CacheOK, CacheRecord
  <2> HIDE DEF k
  <2>3. /\ CacheOK(d)
        /\ d.entries = [c.entries EXCEPT ![k] = 0]
        /\ d.files = [c.files EXCEPT ![k] = 0]
        /\ d.size = c.size - c.entries[k]
        /\ c.entries[k] # 0 => Len(d.lru) = Len(c.lru) - 1
    BY <2>1, DropOK
  <2>4. Turn(c) = d
    BY <1>1 DEF Turn, k
  <2> HIDE DEF d
  <2>5. Sheds(c, d)
    BY <2>1, <2>2, <2>3 DEF Sheds
  <2>6. ASSUME NEW a \in Int, NEW l \in Nat, a > Budget /\ l > 1
        PROVE  ~ (a <= Budget) /\ l # 1 /\ l - 1 >= 1
    BY <1>0, <2>6
  <2>7. ~ (c.size <= Budget) /\ Len(c.lru) # 1 /\ Len(c.lru) - 1 >= 1
    BY <1>0, <1>1, <2>6
  <2> QED BY <2>2, <2>3, <2>4, <2>5, <2>7
<1>2. CASE ~ (c.size > Budget /\ Len(c.lru) > 1)
  <2>1. Turn(c) = c
    BY <1>2 DEF Turn
  <2>2. Sheds(c, c)
    BY DEF Sheds
  <2>3. ASSUME NEW a \in Int, NEW l \in Nat, l >= 1, ~ (a > Budget /\ l > 1)
        PROVE  a <= Budget \/ l = 1
    BY <1>0, <2>3
  <2>4. c.size <= Budget \/ Len(c.lru) = 1
    BY <1>0, <1>2, <2>3
  <2> QED BY <2>1, <2>2, <2>4
<1> QED BY <1>1, <1>2

\* mediacache.go shed, for any number of entries: it ends within the budget or
\* with one entry, and what it drops it drops from the map and from the disk.
LEMMA ShedOK ==
  ASSUME NEW c, CacheOK(c), Len(c.lru) >= 1
  PROVE  /\ CacheOK(Shed(c)) /\ Sheds(c, Shed(c))
         /\ Shed(c).size <= Budget \/ Len(Shed(c).lru) = 1
<1> DEFINE m == Len(c.lru)
<1>1. c.lru \in Seq(Keys) /\ m \in Nat
  BY DEF CacheOK, CacheRecord
<1>2. Shed(c) = (CHOOSE f : Turns(c, m, f))[m]
  BY DEF Shed, Turns, Turn
<1>3. PICK f : Turns(c, m, f) /\ Shed(c) = f[m]
  BY <1>1, <1>2, ShedTurns
<1>4. \A n \in 0 .. m : f[n] = IF n = 0 THEN c ELSE Turn(f[n - 1])
  BY <1>3 DEF Turns
<1> DEFINE good(n) == /\ CacheOK(f[n]) /\ Sheds(c, f[n]) /\ Len(f[n].lru) >= 1
                      /\ f[n].size <= Budget \/ Len(f[n].lru) = 1 \/ Len(f[n].lru) = m - n
           Bad == {n \in 0 .. m : ~ good(n)}
<1>5. ASSUME Bad # {} PROVE FALSE
  <2>1. PICK n \in Bad : \A i \in Bad : ~ (i < n)
    <3>1. Bad \in SUBSET Nat
      BY <1>1
    <3> HIDE DEF Bad
    <3> QED BY <1>5, <3>1, Smallest
  <2>2. CASE n = 0
    <3>1. f[0] = c
      BY <1>1, <1>4
    <3>2. good(0)
      BY <3>1, <1>1 DEF Sheds
    <3> QED BY <2>1, <2>2, <3>2
  <2>3. CASE n # 0
    <3>1. n \in 0 .. m /\ n - 1 \in 0 .. m /\ n - 1 < n /\ n - 1 \notin Bad
      BY <1>1, <2>1, <2>3
    <3>2. good(n - 1)
      BY <3>1
    <3> DEFINE b == f[n - 1]
               d == f[n]
    <3>3. d = Turn(b)
      BY <1>4, <2>3, <3>1
    <3>4. /\ CacheOK(b) /\ Sheds(c, b) /\ Len(b.lru) >= 1
          /\ b.size <= Budget \/ Len(b.lru) = 1 \/ Len(b.lru) = m - (n - 1)
      BY <3>2
    <3> HIDE DEF b, d
    <3>5. /\ CacheOK(Turn(b)) /\ Sheds(b, Turn(b)) /\ Len(Turn(b).lru) >= 1
          /\ \/ Turn(b) = b /\ (b.size <= Budget \/ Len(b.lru) = 1)
             \/ ~ (b.size <= Budget) /\ Len(b.lru) # 1 /\ Len(Turn(b).lru) = Len(b.lru) - 1
      BY <3>4, TurnOK
    <3>6. Sheds(c, d)
      BY <3>3, <3>4, <3>5 DEF Sheds
    <3>7. Len(b.lru) \in Nat /\ Len(d.lru) \in Nat
      <4>1. CacheOK(d)
        BY <3>3, <3>5
      <4> QED BY <3>4, <4>1, CacheNumbers
    <3>8. d.size <= Budget \/ Len(d.lru) = 1 \/ Len(d.lru) = m - n
      <4> HIDE DEF m, Bad
      <4>1. CASE d = b /\ (b.size <= Budget \/ Len(b.lru) = 1)
        BY <4>1
      <4>2. CASE ~ (b.size <= Budget) /\ Len(b.lru) # 1 /\ Len(d.lru) = Len(b.lru) - 1
        <5>1. Len(b.lru) = m - (n - 1)
          BY <3>4, <4>2
        <5> QED BY <4>2, <5>1, <3>1, <3>7, <1>1
      <4> QED BY <3>3, <3>5, <4>1, <4>2
    <3>9. good(n)
      BY <3>3, <3>5, <3>6, <3>8 DEF d
    <3> QED BY <2>1, <3>9
  <2> QED BY <2>2, <2>3
<1>6. good(m)
  BY <1>1, <1>5
<1>7. CacheOK(Shed(c)) /\ Sheds(c, Shed(c)) /\ Len(Shed(c).lru) >= 1
      /\ (Shed(c).size <= Budget \/ Len(Shed(c).lru) = 1 \/ Len(Shed(c).lru) = m - m)
  BY <1>3, <1>6
<1> QED BY <1>1, <1>7

\* Renaming a file into place changes nothing that is locked; an entered key's
\* file is not renamed over.
LEMMA RenamedOK ==
  ASSUME NEW c, CacheOK(c), NEW k \in Keys, c.entries[k] = 0, NEW n \in Nat
  PROVE  /\ CacheOK(Renamed(c, k, n))
         /\ Renamed(c, k, n).entries = c.entries /\ Renamed(c, k, n).lru = c.lru
         /\ Renamed(c, k, n).size = c.size
         /\ Renamed(c, k, n).files = [c.files EXCEPT ![k] = n]
<1> DEFINE d == Renamed(c, k, n)
<1>1. c \in CacheRecord
  BY DEF CacheOK
<1>2. d = [c EXCEPT !.files = [c.files EXCEPT ![k] = n]]
  BY DEF Renamed
<1> HIDE DEF d
<1>3. ASSUME NEW s, d = [c EXCEPT !.files = s]
      PROVE  d = [entries |-> c.entries, lru |-> c.lru, size |-> c.size, files |-> s]
  BY <1>1, <1>3 DEF CacheRecord
<1>4. d = [entries |-> c.entries, lru |-> c.lru, size |-> c.size, files |-> [c.files EXCEPT ![k] = n]]
  BY <1>2, <1>3
<1>5. d.entries = c.entries /\ d.lru = c.lru /\ d.size = c.size /\ d.files = [c.files EXCEPT ![k] = n]
  BY <1>4
<1>6. c.entries \in [Keys -> Nat] /\ c.lru \in Seq(Keys) /\ c.size \in Int /\ c.files \in [Keys -> Nat]
  BY <1>1 DEF CacheRecord
<1>7. d \in CacheRecord
  BY <1>4, <1>6 DEF CacheRecord
<1>8. \A x \in Keys : d.entries[x] # 0 => d.files[x] = d.entries[x]
  BY <1>5, <1>6 DEF CacheOK
<1>9. CacheOK(d)
  BY <1>5, <1>7, <1>8 DEF CacheOK
<1> QED BY <1>5, <1>9 DEF d

------------------------------------------------------------------------------
(***************************************************************************)
(* The directory, the map and the budget, under every user of the cache.   *)
(***************************************************************************)
Filling == {"slot", "fetch", "copy", "enter"}

\* A key that is being filled has no entry yet, and its file once it is renamed.
FillsOK ==
  \A c \in Callers : call[c].pc \in Filling =>
    /\ call[c].key \in ClipKeys /\ cache.entries[call[c].key] = 0
    /\ call[c].pc = "enter" => cache.files[call[c].key] # 0

\* So has the key that the worker renders: nobody else enters stitched renders.
StitchOK ==
  \/ stitcher = NoStitch
  \/ /\ stitcher \in [pc : {"render", "put"}, key : StitchKeys]
     /\ cache.entries[stitcher.key] = 0
     /\ stitcher.pc = "put" => cache.files[stitcher.key] # 0

\* A file without an entry is about to have one.
OrphansOK ==
  \A k \in Keys : cache.files[k] # 0 /\ cache.entries[k] = 0 =>
    \/ \E c \in Callers : call[c].pc = "enter" /\ call[c].key = k
    \/ stitcher = [pc |-> "put", key |-> k]

DiskInv == CacheOK(cache) /\ BudgetOrNewest /\ FillsOK /\ StitchOK /\ OrphansOK

\* A step of callers that leaves the cache alone: whoever fills was filling that
\* key, or starts on a key without an entry, and nobody passes through "enter".
LEMMA CallsKeepDisk ==
  ASSUME DiskInv, UNCHANGED <<cache, stitcher>>,
         \A d \in Callers :
           \/ call'[d] = call[d]
           \/ /\ call[d].pc # "enter" /\ call'[d].pc # "enter"
              /\ call'[d].pc \in Filling =>
                   \/ call[d].pc \in Filling /\ call'[d].key = call[d].key
                   \/ call'[d].key \in ClipKeys /\ cache.entries[call'[d].key] = 0
  PROVE  DiskInv'
<1>1. CacheOK(cache)' /\ BudgetOrNewest'
  BY DEF DiskInv, BudgetOrNewest, CacheOK
<1>2. StitchOK'
  BY DEF DiskInv, StitchOK
<1>3. FillsOK'
  BY DEF DiskInv, FillsOK
<1>4. OrphansOK'
  BY DEF DiskInv, OrphansOK
<1> QED BY <1>1, <1>2, <1>3, <1>4 DEF DiskInv

\* The same for one caller that moves on with its key.
LEMMA MoveKeepsDisk ==
  ASSUME DiskInv, UNCHANGED <<cache, stitcher>>, NEW c \in Callers, NEW pc \in Places, MovedTo(c, pc),
         call[c].pc # "enter", pc # "enter", pc \in Filling => call[c].pc \in Filling
  PROVE  DiskInv'
  BY CallsKeepDisk DEF MovedTo

\* And for one that starts anew, or is done.
LEMMA StartKeepsDisk ==
  ASSUME DiskInv, CallsOK, UNCHANGED <<cache, stitcher>>, NEW c \in Callers, NEW r \in Call,
         call' = [call EXCEPT ![c] = r], call[c].pc # "enter", r.pc # "enter",
         r.pc \in Filling => r.key \in ClipKeys /\ cache.entries[r.key] = 0
  PROVE  DiskInv'
<1>1. /\ call' \in [Callers -> Call]
      /\ \A d \in Callers \ {c} : call'[d] = call[d]
      /\ call'[c] = r
  BY Starts
<1> QED BY <1>1, CallsKeepDisk

\* The callers' steps that leave the cache alone.
LEMMA QuietKeepsDisk ==
  ASSUME DiskInv, FlightInv, NEW c \in Callers,
         \/ TakeSlot(c) \/ Fetch(c) \/ Release(c) \/ Unflight(c) \/ Close(c) \/ Return(c) \/ Open(c)
         \/ Direct(c) \/ Answer(c) \/ TakeSpool(c) \/ Spool(c) \/ Stream(c)
         \/ Cancelled(c) \/ GetMedia(c) \/ Unstable(c)
         \/ \E k \in ClipKeys : Join(c, k) \/ Lead(c, k)
  PROVE  DiskInv'
<1> USE DEF At
<1>0. CallsOK /\ UNCHANGED <<cache, stitcher>>
  BY DEF FlightInv, TakeSlot, Fetch, Release, Unflight, Close, Return, Open, Direct, Answer,
         TakeSpool, Spool, Stream, Cancelled, GetMedia, Unstable, Join, Lead
<1>1. ASSUME NEW pc \in Places, Goto(c, pc) \/ Result(c, pc, FALSE), call[c].pc # "enter", pc # "enter",
             pc \in Filling => call[c].pc \in Filling
      PROVE  DiskInv'
  <2>1. MovedTo(c, pc)
    BY <1>0, <1>1, Moves
  <2> QED BY <1>0, <1>1, <2>1, MoveKeepsDisk
<1>2. ASSUME call' = [call EXCEPT ![c] = Idle], call[c].pc # "enter" PROVE DiskInv'
  BY <1>0, <1>2, CallShapes, StartKeepsDisk DEF Filling
<1>3. CASE TakeSlot(c)
  BY <1>1, <1>3 DEF TakeSlot, Places, Filling
<1>4. CASE Fetch(c)
  BY <1>1, <1>4 DEF Fetch, Places, Filling
<1>5. CASE Release(c)
  BY <1>1, <1>5 DEF Release, Places, Filling
<1>6. CASE Unflight(c)
  BY <1>1, <1>6 DEF Unflight, Places, Filling
<1>7. CASE Close(c)
  <2>1. \A d \in Callers : \/ call'[d] = call[d]
                           \/ call[d].pc \in {"close", "wait"} /\ call'[d].pc = "return"
    <3> TAKE d \in Callers
    <3>1. call[d] \in Call /\ call[c] \in Call
      BY <1>0 DEF CallsOK
    <3>2. CASE d = c
      <4>1. call'[d] = [call[d] EXCEPT !.pc = "return"] /\ call[d].pc = "close"
        BY <1>7, <3>2 DEF Close
      <4> QED BY <3>1, <4>1 DEF Call, Places
    <3>3. CASE d # c /\ call[d].pc = "wait" /\ call[d].leader = c
      <4>1. call'[d] = [call[d] EXCEPT !.pc = "return", !.ok = call[c].ok]
        BY <1>7, <3>3 DEF Close
      <4> QED BY <3>1, <3>3, <4>1 DEF Call, Places
    <3>4. CASE d # c /\ ~(call[d].pc = "wait" /\ call[d].leader = c)
      BY <1>7, <3>4 DEF Close
    <3> QED BY <3>2, <3>3, <3>4
  <2>2. \A d \in Callers : \/ call'[d] = call[d]
                           \/ /\ call[d].pc # "enter" /\ call'[d].pc # "enter"
                              /\ call'[d].pc \notin Filling
    BY <2>1 DEF Filling
  <2> QED BY <1>0, <2>2, CallsKeepDisk
<1>8. CASE Return(c)
  BY <1>1, <1>2, <1>8 DEF Return, Places, Filling
<1>9. CASE Open(c)
  <2>1. CASE cache.files[call[c].key] = 0
    <3>1. Goto(c, "direct")
      BY <1>9, <2>1 DEF Open, Goto, FlightInv, CallsOK
    <3> QED BY <1>1, <1>9, <3>1 DEF Open, Places, Filling
  <2>2. CASE cache.files[call[c].key] # 0
    BY <1>2, <1>9, <2>2 DEF Open
  <2> QED BY <2>1, <2>2
<1>10. CASE Direct(c)
  BY <1>1, <1>2, <1>10 DEF Direct, Places, Filling
<1>11. CASE Answer(c)
  BY <1>1, <1>2, <1>11 DEF Answer, Places, Filling
<1>12. CASE TakeSpool(c)
  BY <1>1, <1>12 DEF TakeSpool, Places, Filling
<1>13. CASE Spool(c)
  BY <1>1, <1>2, <1>13 DEF Spool, Places, Filling
<1>14. CASE Stream(c)
  BY <1>2, <1>14 DEF Stream
<1>15. CASE Cancelled(c)
  BY <1>1, <1>15 DEF Cancelled, Places, Filling
<1>16. CASE GetMedia(c)
  BY <1>1, <1>16 DEF GetMedia, Places, Filling
<1>17. CASE Unstable(c)
  BY <1>1, <1>17 DEF Unstable, Places, Filling
<1>18. ASSUME NEW k \in ClipKeys, Join(c, k) PROVE DiskInv'
  <2> DEFINE r == [Idle EXCEPT !.pc = "wait", !.key = k, !.leader = inflight[k]]
  <2>1. k \in Keys /\ inflight[k] \in Callers \cup {None}
    BY DEF FlightInv, CallsOK, Keys
  <2>2. call' = [call EXCEPT ![c] = r] /\ call[c].pc = "idle"
    BY <1>18 DEF Join
  <2>3. r \in Call /\ r.pc = "wait"
    BY <2>1 DEF Idle, Call, Places
  <2> HIDE DEF r
  <2> QED BY <1>0, <2>2, <2>3, StartKeepsDisk DEF Filling
<1>19. ASSUME NEW k \in ClipKeys, Lead(c, k) PROVE DiskInv'
  <2> DEFINE r == [Idle EXCEPT !.pc = "slot", !.key = k]
  <2>1. k \in Keys /\ r \in Call /\ r.pc = "slot" /\ r.key = k
    BY CallShapes DEF Keys
  <2>2. call' = [call EXCEPT ![c] = r] /\ call[c].pc = "idle" /\ cache.entries[k] = 0
    BY <1>19 DEF Lead
  <2> HIDE DEF r
  <2> QED BY <1>0, <2>1, <2>2, StartKeepsDisk
<1> QED BY <1>3, <1>4, <1>5, <1>6, <1>7, <1>8, <1>9, <1>10, <1>11, <1>12, <1>13, <1>14, <1>15, <1>16,
           <1>17, <1>18, <1>19

\* What fill's and Put's last critical section does to the cache: the new entry
\* is there with its file, or neither is; the other keys are shed or left alone.
LEMMA EntersDisk ==
  ASSUME DiskInv, NEW k \in Keys, cache.entries[k] = 0, cache.files[k] # 0,
         \/ cache' = Entered(cache, k, cache.files[k])
         \/ cache' = Adopted(cache, k, cache.files[k])
  PROVE  /\ CacheOK(cache') /\ BudgetOrNewest'
         /\ cache'.entries[k] # 0 \/ cache'.files[k] = 0
         /\ \A x \in Keys \ {k} :
              \/ cache'.entries[x] = cache.entries[x] /\ cache'.files[x] = cache.files[x]
              \/ cache.entries[x] # 0 /\ cache'.entries[x] = 0 /\ cache'.files[x] = 0
<1> DEFINE n == cache.files[k]
           d == Used(Noted(cache, k, n, n - cache.entries[k]), k)
<1>1. /\ CacheOK(cache) /\ cache.entries \in [Keys -> Nat] /\ cache.files \in [Keys -> Nat]
      /\ n \in Nat \ {0} /\ n - cache.entries[k] = n
  BY DEF DiskInv, CacheOK, CacheRecord
<1>2. cache' = Shed(d)
  BY <1>1 DEF Entered, Adopted
<1>3. /\ CacheOK(d) /\ Len(d.lru) >= 1
      /\ d.entries = [cache.entries EXCEPT ![k] = n] /\ d.files = cache.files
  BY <1>1, NotedOK
<1> HIDE DEF d, n
<1>4. /\ CacheOK(cache') /\ Sheds(d, cache')
      /\ cache'.size <= Budget \/ Len(cache'.lru) = 1
  BY <1>2, <1>3, ShedOK
<1>5. /\ d.entries[k] = n /\ d.files[k] = n
      /\ \A x \in Keys \ {k} : d.entries[x] = cache.entries[x] /\ d.files[x] = cache.files[x]
  BY <1>1, <1>3 DEF n
<1>6. BudgetOrNewest'
  BY <1>4 DEF BudgetOrNewest
<1> QED BY <1>1, <1>4, <1>5, <1>6 DEF Sheds

\* The steps that change the cache or the worker.
LEMMA CacheStepKeepsDisk ==
  ASSUME DiskInv, FlightInv,
         \/ \E c \in Callers, k \in Keys : Hit(c, k)
         \/ \E c \in Callers, m \in Sizes : Copy(c, m)
         \/ \E c \in Callers : Enter(c)
         \/ \E k \in ClipKeys : Evict(k)
         \/ \E k \in StitchKeys : Stitch(k)
         \/ StitchFails \/ (\E m \in Sizes : PutRename(m)) \/ Put \/ Restart
  PROVE  DiskInv'
<1> USE DEF At
<1>0. /\ CallsOK /\ CacheOK(cache) /\ cache.entries \in [Keys -> Nat] /\ cache.files \in [Keys -> Nat]
      /\ cache.lru \in Seq(Keys) /\ cache.size \in Int /\ Len(cache.lru) \in Nat /\ Budget \in Nat
      /\ ClipKeys \subseteq Keys /\ StitchKeys \subseteq Keys /\ ClipKeys \cap StitchKeys = {}
  BY CacheAssumption DEF DiskInv, FlightInv, CacheOK, CacheRecord, Keys
<1>1. ASSUME NEW c \in Callers, NEW k \in Keys, Hit(c, k) PROVE DiskInv'
  <2> DEFINE r == [Idle EXCEPT !.pc = "open", !.key = k, !.ok = TRUE]
  <2>1. r \in Call /\ r.pc = "open" /\ call' = [call EXCEPT ![c] = r] /\ call[c].pc = "idle"
    BY <1>1, CallShapes DEF Hit
  <2> HIDE DEF r
  <2>2. /\ call' \in [Callers -> Call]
        /\ \A d \in Callers \ {c} : call'[d] = call[d]
        /\ call'[c] = r
    BY <1>0, <2>1, Starts
  <2>3. k \in ToSet(cache.lru) /\ cache.entries[k] # 0 /\ stitcher' = stitcher /\ cache' = Used(cache, k)
    BY <1>0, <1>1 DEF Hit, CacheOK
  <2>4. /\ CacheOK(Used(cache, k)) /\ Len(Used(cache, k).lru) \in Nat /\ Len(Used(cache, k).lru) >= 1
        /\ Used(cache, k).entries = cache.entries /\ Used(cache, k).files = cache.files
        /\ Used(cache, k).size = cache.size
        /\ k \in ToSet(cache.lru) => Len(Used(cache, k).lru) = Len(cache.lru)
    <3>1. /\ cache \in CacheRecord /\ Distinct(cache.lru)
          /\ ToSet(cache.lru) \ {k} = {x \in Keys : cache.entries[x] # 0} \ {k}
          /\ cache.size = Total(cache.entries, Keys)
          /\ \A x \in Keys : cache.entries[x] # 0 => cache.files[x] = cache.entries[x]
      BY <1>0 DEF CacheOK
    <3> QED BY <2>3, <3>1, UsedOK
  <2>5. /\ CacheOK(cache') /\ cache'.entries = cache.entries /\ cache'.files = cache.files
        /\ cache'.size = cache.size /\ Len(cache'.lru) = Len(cache.lru)
    BY <2>3, <2>4
  <2>6. BudgetOrNewest'
    BY <2>5 DEF DiskInv, BudgetOrNewest
  <2>7. FillsOK'
    BY <2>1, <2>2, <2>5 DEF DiskInv, FillsOK, Filling
  <2>8. StitchOK'
    BY <2>3, <2>5 DEF DiskInv, StitchOK
  <2>9. OrphansOK'
    BY <2>1, <2>2, <2>3, <2>5 DEF DiskInv, OrphansOK
  <2> QED BY <2>5, <2>6, <2>7, <2>8, <2>9 DEF DiskInv
<1>2. ASSUME NEW c \in Callers, NEW m \in Sizes, Copy(c, m) PROVE DiskInv'
  <2> DEFINE k == call[c].key
  <2>1. /\ call[c].pc = "copy" /\ stitcher' = stitcher /\ k \in ClipKeys /\ k \in Keys
        /\ cache.entries[k] = 0 /\ m \in Nat \ {0}
    BY <1>0, <1>2, CacheAssumption DEF Copy, DiskInv, FillsOK, Filling
  <2>2. CASE cache' = Renamed(cache, k, m) /\ Goto(c, "enter")
    <3>1. MovedTo(c, "enter")
      BY <1>0, <2>2, Moves DEF Places
    <3>2. /\ call'[c].pc = "enter" /\ call'[c].key = k
          /\ \A d \in Callers \ {c} : call'[d] = call[d]
      BY <3>1 DEF MovedTo
    <3> HIDE DEF k
    <3>3. /\ CacheOK(Renamed(cache, k, m))
          /\ Renamed(cache, k, m).entries = cache.entries /\ Renamed(cache, k, m).lru = cache.lru
          /\ Renamed(cache, k, m).size = cache.size
          /\ Renamed(cache, k, m).files = [cache.files EXCEPT ![k] = m]
      BY <1>0, <2>1, RenamedOK
    <3>4. /\ CacheOK(cache') /\ cache'.entries = cache.entries /\ cache'.lru = cache.lru
          /\ cache'.size = cache.size /\ cache'.files[k] = m
          /\ \A x \in Keys \ {k} : cache'.files[x] = cache.files[x]
      BY <1>0, <2>1, <2>2, <3>3
    <3>5. BudgetOrNewest'
      BY <3>4 DEF DiskInv, BudgetOrNewest
    <3>6. FillsOK'
      <4> SUFFICES ASSUME NEW d \in Callers, call'[d].pc \in Filling
                   PROVE  /\ call'[d].key \in ClipKeys /\ cache'.entries[call'[d].key] = 0
                          /\ call'[d].pc = "enter" => cache'.files[call'[d].key] # 0
        BY DEF FillsOK
      <4>1. CASE d = c
        BY <2>1, <3>2, <3>4, <4>1
      <4>2. CASE d # c
        <5>1. call'[d] = call[d]
          BY <3>2, <4>2
        <5>2. /\ call[d].key \in ClipKeys /\ cache.entries[call[d].key] = 0
              /\ call[d].pc = "enter" => cache.files[call[d].key] # 0
          BY <5>1 DEF DiskInv, FillsOK
        <5> QED BY <1>0, <2>1, <3>4, <5>1, <5>2
      <4> QED BY <4>1, <4>2
    <3>7. StitchOK'
      <4>1. CASE stitcher = NoStitch
        BY <2>1, <4>1 DEF StitchOK
      <4>2. CASE stitcher \in [pc : {"render", "put"}, key : StitchKeys]
        <5>1. stitcher.key \in Keys \ {k}
          BY <1>0, <2>1, <4>2
        <5>2. stitcher # NoStitch
          BY <4>2 DEF NoStitch
        <5> QED BY <2>1, <3>4, <4>2, <5>1, <5>2 DEF DiskInv, StitchOK
      <4> QED BY <4>1, <4>2 DEF DiskInv, StitchOK
    <3>8. OrphansOK'
      <4> SUFFICES ASSUME NEW x \in Keys, cache'.files[x] # 0, cache'.entries[x] = 0
                   PROVE  \/ \E d \in Callers : call'[d].pc = "enter" /\ call'[d].key = x
                          \/ stitcher' = [pc |-> "put", key |-> x]
        BY DEF OrphansOK
      <4>1. CASE x = k
        BY <3>2, <4>1
      <4>2. CASE x # k
        <5>1. \/ \E d \in Callers : call[d].pc = "enter" /\ call[d].key = x
              \/ stitcher = [pc |-> "put", key |-> x]
          BY <3>4, <4>2 DEF DiskInv, OrphansOK
        <5> QED BY <2>1, <3>2, <5>1
      <4> QED BY <4>1, <4>2
    <3> QED BY <3>4, <3>5, <3>6, <3>7, <3>8 DEF DiskInv
  <2>3. CASE cache' = cache /\ Result(c, "release", FALSE)
    <3>1. MovedTo(c, "release")
      BY <1>0, <2>3, Moves DEF Places
    <3> QED BY <2>1, <2>3, <3>1, MoveKeepsDisk DEF Places, Filling
  <2> QED BY <1>2, <2>2, <2>3 DEF Copy
<1>3. ASSUME NEW c \in Callers, Enter(c) PROVE DiskInv'
  <2> DEFINE k == call[c].key
  <2>1. /\ call[c].pc = "enter" /\ stitcher' = stitcher /\ k \in ClipKeys /\ k \in Keys
        /\ cache.entries[k] = 0 /\ cache.files[k] # 0 /\ cache' = Entered(cache, k, cache.files[k])
    BY <1>0, <1>3 DEF Enter, DiskInv, FillsOK, Filling
  <2>2. MovedTo(c, "release")
    BY <1>0, <1>3, Moves DEF Enter, Places
  <2>3. call'[c].pc = "release" /\ \A d \in Callers \ {c} : call'[d] = call[d]
    BY <2>2 DEF MovedTo
  <2>4. \A d \in Callers \ {c} : call[d].pc \in Filling => call[d].key # k
    BY <2>1 DEF FlightInv, FlightsOK, Leading, Filling
  <2> HIDE DEF k
  <2>5. /\ CacheOK(cache') /\ BudgetOrNewest'
        /\ cache'.entries[k] # 0 \/ cache'.files[k] = 0
        /\ \A x \in Keys \ {k} :
             \/ cache'.entries[x] = cache.entries[x] /\ cache'.files[x] = cache.files[x]
             \/ cache.entries[x] # 0 /\ cache'.entries[x] = 0 /\ cache'.files[x] = 0
    BY <2>1, EntersDisk
  <2>6. FillsOK'
    <3> SUFFICES ASSUME NEW d \in Callers, call'[d].pc \in Filling
                 PROVE  /\ call'[d].key \in ClipKeys /\ cache'.entries[call'[d].key] = 0
                        /\ call'[d].pc = "enter" => cache'.files[call'[d].key] # 0
      BY DEF FillsOK
    <3>1. d # c /\ call'[d] = call[d]
      BY <2>3 DEF Filling
    <3>2. /\ call[d].key \in ClipKeys /\ cache.entries[call[d].key] = 0 /\ call[d].key # k
          /\ call[d].pc = "enter" => cache.files[call[d].key] # 0
      BY <2>4, <3>1 DEF DiskInv, FillsOK
    <3> QED BY <1>0, <2>5, <3>1, <3>2
  <2>7. StitchOK'
    <3>1. CASE stitcher = NoStitch
      BY <2>1, <3>1 DEF StitchOK
    <3>2. CASE stitcher \in [pc : {"render", "put"}, key : StitchKeys]
      <4>1. stitcher.key \in Keys \ {k}
        BY <1>0, <2>1, <3>2
      <4>2. stitcher # NoStitch
        BY <3>2 DEF NoStitch
      <4> QED BY <2>1, <2>5, <3>2, <4>1, <4>2 DEF DiskInv, StitchOK
    <3> QED BY <3>1, <3>2 DEF DiskInv, StitchOK
  <2>8. OrphansOK'
    <3> SUFFICES ASSUME NEW x \in Keys, cache'.files[x] # 0, cache'.entries[x] = 0
                 PROVE  \/ \E d \in Callers : call'[d].pc = "enter" /\ call'[d].key = x
                        \/ stitcher' = [pc |-> "put", key |-> x]
      BY DEF OrphansOK
    <3>1. x # k /\ cache.files[x] # 0 /\ cache.entries[x] = 0
      BY <2>5
    <3>2. \/ \E d \in Callers : call[d].pc = "enter" /\ call[d].key = x
          \/ stitcher = [pc |-> "put", key |-> x]
      BY <3>1 DEF DiskInv, OrphansOK
    <3> QED BY <2>1, <2>3, <3>1, <3>2 DEF k
  <2> QED BY <2>5, <2>6, <2>7, <2>8 DEF DiskInv
<1>4. ASSUME NEW k \in ClipKeys, Evict(k) PROVE DiskInv'
  <2>1. k \in Keys /\ cache.entries[k] # 0 /\ cache' = DropEntry(cache, k)
        /\ call' = call /\ stitcher' = stitcher
    BY <1>0, <1>4 DEF Evict
  <2>2. /\ CacheOK(DropEntry(cache, k))
        /\ DropEntry(cache, k).entries = [cache.entries EXCEPT ![k] = 0]
        /\ DropEntry(cache, k).files = [cache.files EXCEPT ![k] = 0]
        /\ DropEntry(cache, k).size = cache.size - cache.entries[k]
        /\ cache.entries[k] # 0 => Len(DropEntry(cache, k).lru) = Len(cache.lru) - 1
    BY <1>0, <2>1, DropOK
  <2>3. /\ CacheOK(cache') /\ cache'.entries[k] = 0 /\ cache'.files[k] = 0
        /\ \A x \in Keys \ {k} : cache'.entries[x] = cache.entries[x] /\ cache'.files[x] = cache.files[x]
        /\ cache'.size = cache.size - cache.entries[k] /\ Len(cache'.lru) = Len(cache.lru) - 1
    BY <1>0, <2>1, <2>2
  <2>4. BudgetOrNewest'
    <3>1. CASE cache.size <= Budget
      <4>1. cache.size - cache.entries[k] <= Budget
        BY <1>0, <2>1, <3>1
      <4> QED BY <2>3, <4>1 DEF BudgetOrNewest
    <3>2. CASE Len(cache.lru) = 1
      <4>1. Len(cache'.lru) = 0 /\ cache'.lru \in Seq(Keys)
        BY <2>3, <3>2, CacheNumbers
      <4>2. ToSet(cache'.lru) = {}
        BY <4>1 DEF ToSet
      <4>3. /\ \A x \in Keys : cache'.entries[x] = 0
            /\ cache'.size = Total(cache'.entries, Keys)
            /\ cache'.entries \in [Keys -> Int]
        BY <2>3, <4>2 DEF CacheOK, CacheRecord
      <4>4. cache'.size = 0
        BY <4>3, TotalChange, CacheAssumption
      <4> QED BY <1>0, <4>4 DEF BudgetOrNewest
    <3> QED BY <3>1, <3>2 DEF DiskInv, BudgetOrNewest
  <2>5. FillsOK'
    BY <1>0, <2>1, <2>3 DEF DiskInv, FillsOK
  <2>6. StitchOK'
    <3>1. CASE stitcher = NoStitch
      BY <2>1, <3>1 DEF StitchOK
    <3>2. CASE stitcher \in [pc : {"render", "put"}, key : StitchKeys]
      <4>1. stitcher.key \in Keys \ {k}
        BY <1>0, <2>1, <3>2
      <4>2. stitcher # NoStitch
        BY <3>2 DEF NoStitch
      <4> QED BY <2>1, <2>3, <3>2, <4>1, <4>2 DEF DiskInv, StitchOK
    <3> QED BY <3>1, <3>2 DEF DiskInv, StitchOK
  <2>7. OrphansOK'
    BY <2>1, <2>3 DEF DiskInv, OrphansOK
  <2> QED BY <2>3, <2>4, <2>5, <2>6, <2>7 DEF DiskInv
<1>5. ASSUME NEW k \in StitchKeys, Stitch(k) PROVE DiskInv'
  <2>1. /\ cache' = cache /\ call' = call /\ stitcher' = [pc |-> "render", key |-> k]
        /\ stitcher.pc = "idle" /\ cache.entries[k] = 0
    BY <1>5 DEF Stitch
  <2>2. StitchOK'
    BY <2>1 DEF StitchOK
  <2>3. OrphansOK'
    BY <2>1 DEF DiskInv, OrphansOK
  <2> QED BY <2>1, <2>2, <2>3 DEF DiskInv, CacheOK, BudgetOrNewest, FillsOK
<1>6. CASE StitchFails
  <2>1. cache' = cache /\ call' = call /\ stitcher' = NoStitch /\ stitcher.pc = "render"
    BY <1>6 DEF StitchFails
  <2>2. StitchOK'
    BY <2>1 DEF StitchOK
  <2>3. OrphansOK'
    BY <2>1 DEF DiskInv, OrphansOK
  <2> QED BY <2>1, <2>2, <2>3 DEF DiskInv, CacheOK, BudgetOrNewest, FillsOK
<1>7. ASSUME NEW m \in Sizes, PutRename(m) PROVE DiskInv'
  <2> DEFINE k == stitcher.key
  <2>1. /\ stitcher.pc = "render" /\ k \in StitchKeys /\ k \in Keys /\ cache.entries[k] = 0
        /\ stitcher \in [pc : {"render", "put"}, key : StitchKeys]
        /\ call' = call /\ cache' = Renamed(cache, k, m) /\ m \in Nat \ {0}
    BY <1>0, <1>7, CacheAssumption DEF PutRename, DiskInv, StitchOK, NoStitch
  <2>2. stitcher' = [pc |-> "put", key |-> k]
    BY <1>7, <2>1 DEF PutRename
  <2> HIDE DEF k
  <2>3. /\ CacheOK(Renamed(cache, k, m))
        /\ Renamed(cache, k, m).entries = cache.entries /\ Renamed(cache, k, m).lru = cache.lru
        /\ Renamed(cache, k, m).size = cache.size
        /\ Renamed(cache, k, m).files = [cache.files EXCEPT ![k] = m]
    BY <1>0, <2>1, RenamedOK
  <2>4. /\ CacheOK(cache') /\ cache'.entries = cache.entries /\ cache'.lru = cache.lru
        /\ cache'.size = cache.size /\ cache'.files[k] = m
        /\ \A x \in Keys \ {k} : cache'.files[x] = cache.files[x]
    BY <1>0, <2>1, <2>3
  <2>5. BudgetOrNewest'
    BY <2>4 DEF DiskInv, BudgetOrNewest
  <2>6. FillsOK'
    BY <1>0, <2>1, <2>4 DEF DiskInv, FillsOK
  <2>7. StitchOK'
    BY <2>1, <2>2, <2>4 DEF StitchOK
  <2>8. OrphansOK'
    <3> SUFFICES ASSUME NEW x \in Keys, cache'.files[x] # 0, cache'.entries[x] = 0
                 PROVE  \/ \E d \in Callers : call'[d].pc = "enter" /\ call'[d].key = x
                        \/ stitcher' = [pc |-> "put", key |-> x]
      BY DEF OrphansOK
    <3>1. CASE x = k
      BY <2>2, <3>1
    <3>2. CASE x # k
      <4>1. \/ \E d \in Callers : call[d].pc = "enter" /\ call[d].key = x
            \/ stitcher = [pc |-> "put", key |-> x]
        BY <2>4, <3>2 DEF DiskInv, OrphansOK
      <4> QED BY <2>1, <4>1
    <3> QED BY <3>1, <3>2
  <2> QED BY <2>4, <2>5, <2>6, <2>7, <2>8 DEF DiskInv
<1>8. CASE Put
  <2> DEFINE k == stitcher.key
  <2>1. /\ stitcher.pc = "put" /\ k \in StitchKeys /\ k \in Keys /\ cache.entries[k] = 0
        /\ cache.files[k] # 0 /\ cache' = Adopted(cache, k, cache.files[k])
        /\ call' = call /\ stitcher' = NoStitch
    BY <1>0, <1>8 DEF Put, DiskInv, StitchOK, NoStitch
  <2> HIDE DEF k
  <2>2. /\ CacheOK(cache') /\ BudgetOrNewest'
        /\ cache'.entries[k] # 0 \/ cache'.files[k] = 0
        /\ \A x \in Keys \ {k} :
             \/ cache'.entries[x] = cache.entries[x] /\ cache'.files[x] = cache.files[x]
             \/ cache.entries[x] # 0 /\ cache'.entries[x] = 0 /\ cache'.files[x] = 0
    BY <2>1, EntersDisk
  <2>3. FillsOK'
    <3> SUFFICES ASSUME NEW d \in Callers, call'[d].pc \in Filling
                 PROVE  /\ call'[d].key \in ClipKeys /\ cache'.entries[call'[d].key] = 0
                        /\ call'[d].pc = "enter" => cache'.files[call'[d].key] # 0
      BY DEF FillsOK
    <3>1. /\ call[d].key \in ClipKeys /\ cache.entries[call[d].key] = 0 /\ call'[d] = call[d]
          /\ call[d].pc = "enter" => cache.files[call[d].key] # 0
      BY <2>1 DEF DiskInv, FillsOK
    <3> QED BY <1>0, <2>1, <2>2, <3>1
  <2>4. StitchOK'
    BY <2>1 DEF StitchOK
  <2>5. OrphansOK'
    <3> SUFFICES ASSUME NEW x \in Keys, cache'.files[x] # 0, cache'.entries[x] = 0
                 PROVE  \E d \in Callers : call'[d].pc = "enter" /\ call'[d].key = x
      BY DEF OrphansOK
    <3>1. x # k /\ cache.files[x] # 0 /\ cache.entries[x] = 0
      BY <2>2
    <3>2. \/ \E d \in Callers : call[d].pc = "enter" /\ call[d].key = x
          \/ stitcher = [pc |-> "put", key |-> x]
      BY <3>1 DEF DiskInv, OrphansOK
    <3> QED BY <2>1, <3>1, <3>2 DEF k
  <2> QED BY <2>2, <2>3, <2>4, <2>5 DEF DiskInv
<1>9. CASE Restart
  <2>1. cache' = Empty /\ stitcher' = NoStitch /\ \A c \in Callers : call'[c].pc = "idle"
    BY <1>9 DEF Restart, Idle
  <2>2. CacheOK(cache') /\ BudgetOrNewest'
    BY <1>0, <2>1, EmptyOK DEF BudgetOrNewest
  <2>3. FillsOK' /\ StitchOK'
    BY <2>1 DEF FillsOK, StitchOK, Filling
  <2>4. OrphansOK'
    BY <2>1 DEF OrphansOK, Empty
  <2> QED BY <2>2, <2>3, <2>4 DEF DiskInv
<1> QED BY <1>1, <1>2, <1>3, <1>4, <1>5, <1>6, <1>7, <1>8, <1>9

\* The order of use names each entered key once.
LEMMA LruCount ==
  ASSUME NEW s \in Seq(Keys), Distinct(s)
  PROVE  Len(s) = Cardinality(ToSet(s))
<1>1. Len(s) \in Nat /\ DOMAIN s = 1 .. Len(s) /\ s \in [1 .. Len(s) -> ToSet(s)]
  BY DEF ToSet
<1>2. s \in Injection(1 .. Len(s), ToSet(s))
  BY <1>1 DEF Distinct, Injection, IsInjective
<1>3. s \in Surjection(1 .. Len(s), ToSet(s))
  BY <1>1 DEF Surjection, ToSet
<1>4. ExistsBijection(1 .. Len(s), ToSet(s))
  BY <1>2, <1>3 DEF ExistsBijection, Bijection
<1> QED BY <1>1, <1>4, FS_CountingElements

\* The cache starts empty, and every step keeps the map and the disk together.
LEMMA DiskInvInit == Init => DiskInv
<1> SUFFICES ASSUME Init PROVE DiskInv
  OBVIOUS
<1>1. cache = Empty /\ stitcher = NoStitch /\ \A c \in Callers : call[c].pc = "idle"
  BY DEF Init, Idle
<1>2. CacheOK(cache) /\ BudgetOrNewest
  BY <1>1, EmptyOK, CacheAssumption DEF BudgetOrNewest
<1>3. FillsOK /\ StitchOK
  BY <1>1 DEF FillsOK, StitchOK, Filling
<1>4. OrphansOK
  BY <1>1 DEF OrphansOK, Empty
<1> QED BY <1>2, <1>3, <1>4 DEF DiskInv

\* No step of any caller, and no crash, breaks it.
LEMMA DiskInvStep == DiskInv /\ FlightInv /\ [Next]_vars => DiskInv'
<1> SUFFICES ASSUME DiskInv, FlightInv, [Next]_vars PROVE DiskInv'
  OBVIOUS
<1>1. CASE UNCHANGED vars
  BY <1>1 DEF vars, DiskInv, CacheOK, BudgetOrNewest, FillsOK, StitchOK, OrphansOK
<1>2. CASE Next
  BY <1>2, QuietKeepsDisk, CacheStepKeepsDisk DEF Next, Caller
<1> QED BY <1>1, <1>2

\* So it holds in every state.
LEMMA DiskInvHolds == Spec => []DiskInv
  BY DiskInvInit, DiskInvStep, FlightInvHolds, PTL DEF Spec

\* mediacache.go fill, Put, drop, shed: whatever the callers, the warmer, the
\* stitch worker and the crashes do, and in whatever order, the map, the byte
\* counter, the order of use and the directory agree.
THEOREM DiskAlwaysAccounted == Spec => []DiskAccounted
<1>1. DiskInv => DiskAccounted
  <2> SUFFICES ASSUME DiskInv PROVE DiskAccounted
    OBVIOUS
  <2>1. Len(cache.lru) = Cardinality(ToSet(cache.lru))
    BY LruCount DEF DiskInv, CacheOK, CacheRecord
  <2>2. cache.size = MapThenSumSet(LAMBDA k : cache.entries[k], Keys)
    BY DEF DiskInv, CacheOK, Total
  <2>3. \A k \in Keys : cache.files[k] # 0 /\ cache.entries[k] = 0 =>
          \/ \E c \in Callers : At(c, "enter") /\ call[c].key = k
          \/ stitcher = [pc |-> "put", key |-> k]
    BY DEF DiskInv, OrphansOK, At
  <2>4. /\ \A k \in Keys : cache.entries[k] # 0 => cache.files[k] = cache.entries[k]
        /\ ToSet(cache.lru) = {k \in Keys : cache.entries[k] # 0}
    BY DEF DiskInv, CacheOK
  <2> QED BY <2>1, <2>2, <2>3, <2>4 DEF DiskAccounted
<1> QED BY <1>1, DiskInvHolds, PTL

\* mediacache.go shed: for every budget and every set of sizes, outside the
\* critical sections the cache is within its budget or holds one cut.
THEOREM AlwaysBudgetOrNewest == Spec => []BudgetOrNewest
<1>1. DiskInv => BudgetOrNewest
  BY DEF DiskInv
<1> QED BY <1>1, DiskInvHolds, PTL
==============================================================================
