----------------------------- MODULE MCOccupancy -----------------------------
(***************************************************************************)
(* Small instances of Occupancy for TLC.                                   *)
(***************************************************************************)
EXTENDS Occupancy

CONSTANTS o1, o2, camA

Cars(zone) == [zone |-> zone, labels |-> {"car"}, arriveAfter |-> 2, departAfter |-> 2]

OneLot == <<Cars("lot")>>

SameCamera == [o \in Objects |-> camA]

AllCars == [o \in Objects |-> "car"]

\* A spot, the same spot as a re-track reports it, and the adjacent one.
GarageBoxes == {<<0, 0, 10, 10>>, <<1, 0, 11, 10>>, <<6, 0, 16, 10>>}

\* A garage, where messages carry boxes, or a lot, where none does; identities
\* need less of a clock than the timers do.
VARIABLE boxed

BoxedHorizon == 2

MCInit == Init /\ boxed \in BOOLEAN

MCNext ==
  /\ UNCHANGED boxed
  /\ \E t \in ReceiveTimes :
       /\ boxed => t <= BoxedHorizon
       /\ \/ \E m \in Sightings : (m.box = NoBox \/ boxed) /\ ObserveSighting(m, t)
          \/ \E o \in Objects : ObserveEnd(o, t)
          \/ ObserveOther(t)

MCSpec == MCInit /\ [][MCNext]_<<vars, boxed>>
==============================================================================
