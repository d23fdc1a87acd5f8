------------------------------- MODULE MCStore -------------------------------
(***************************************************************************)
(* Small instances of Store for TLC.                                       *)
(***************************************************************************)
EXTENDS Store

CONSTANTS c1, s1, s2, p1, front, back

AnyOrFront == {{}, {front}}

\* One reader pages while events start, move and are pruned.
Paging ==
  [ids |-> {1, 2, 3}, starts |-> {1, 2}, cameras |-> {front}, clients |-> {},
   pagers |-> {p1}, sinces |-> {2}, maxApplied |-> 4, maxNow |-> 3]

\* A client watches, is cut off and watches again.
Watching ==
  [ids |-> {1, 2}, starts |-> {1}, cameras |-> {front, back}, clients |-> {c1},
   pagers |-> {}, sinces |-> {}, maxApplied |-> 3, maxNow |-> 2]

\* The same with one camera, for a channel of one.
Reconnecting == [Watching EXCEPT !.cameras = {front}, !.maxApplied = 2]

MCWorlds == {Paging, Watching}
SnapshotWorlds == {Reconnecting}
==============================================================================
