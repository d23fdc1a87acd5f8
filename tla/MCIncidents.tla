----------------------------- MODULE MCIncidents -----------------------------
(***************************************************************************)
(* Small instances of Incidents for TLC.                                   *)
(***************************************************************************)
EXTENDS Incidents, TLC

CONSTANTS p1, p2, p3, p4, p5, d1, porch, drive, yard

\* The porch adjoins the drive, the drive the yard.
Chain == (porch :> {drive}) @@ (yard :> {drive})

\* The people of the chain stand one on each camera, the others on the porch.
Spread == [o \in Objects |-> IF o = p2 THEN yard ELSE IF o = p3 THEN drive ELSE porch]

PeopleAndPackage == [o \in Objects |-> IF o = d1 THEN "package" ELSE "person"]

\* Two people on one camera, long enough for their incidents to be forgotten.
OneCamera ==
  [objects |-> {p1, p4}, starts |-> {1, 2}, boxed |-> {TRUE}, gap |-> 2, remember |-> 1,
   skew |-> 1, horizon |-> 5]

\* Three people on a chain of cameras, and a package.
Apart ==
  [objects |-> {p2, p3, p5, d1}, starts |-> {1}, boxed |-> {FALSE}, gap |-> 1, remember |-> 0,
   skew |-> 0, horizon |-> 2]

MCWorlds == {OneCamera, Apart}

\* The same two people on one camera, for the order of its evidence.
OrderWorlds == {OneCamera}

\* The two people on one camera are alike; Apart knows neither.
LookAlikes == Permutations({p1, p4})
==============================================================================
