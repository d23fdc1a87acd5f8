------------------------------ MODULE MCWarmer ------------------------------
(***************************************************************************)
(* Small instances of Warmer for TLC.                                      *)
(***************************************************************************)
EXTENDS Warmer

CONSTANTS e1, e2, c1, c2, v1

\* Two events and a working set of one, after a first start or a restart with
\* what is known.
TwoEvents(known) ==
  [events |-> {e1, e2}, cameras |-> <<c1>>, known |-> known, ladder |-> <<1>>,
   lag |-> 2, moves |-> FALSE,
   ffmpeg |-> FALSE, hasty |-> FALSE, viewers |-> {}, sheds |-> FALSE, horizon |-> 3]

\* After a restart, with someone who asks for the clips.
Reopened == [TwoEvents(<<e2>>) EXCEPT !.viewers = {v1}]

\* The first start, long enough for the two to start in different seconds, and so
\* to have keys of their own; the ends are learnt at once.
TwoSeconds == [TwoEvents(<<>>) EXCEPT !.lag = 0, !.horizon = 4]

\* One event on two cameras, long enough for two rungs and a late end.
TwoRungs ==
  [events |-> {e1}, cameras |-> <<c1, c2>>, known |-> <<>>, ladder |-> <<1, 2>>,
   lag |-> 2, moves |-> TRUE,
   ffmpeg |-> FALSE, hasty |-> FALSE, viewers |-> {}, sheds |-> FALSE, horizon |-> 5]

\* One event on one camera, its end learnt at once.
OneRung ==
  [events |-> {e1}, cameras |-> <<c1>>, known |-> <<>>, ladder |-> <<1>>,
   lag |-> 0, moves |-> FALSE,
   ffmpeg |-> FALSE, hasty |-> FALSE, viewers |-> {}, sheds |-> FALSE, horizon |-> 5]

\* A restart with two ended events, of which one is warmed, and a stitch worker.
Restarted ==
  [events |-> {}, cameras |-> <<c1, c2>>, known |-> <<e1, e2>>, ladder |-> <<1>>,
   lag |-> 0, moves |-> FALSE,
   ffmpeg |-> TRUE, hasty |-> FALSE, viewers |-> {}, sheds |-> FALSE, horizon |-> 3]

\* A stitch worker, and someone who opens the page of an event just ended. An
\* incident that is closed while the end of a member was never reported ends at
\* the message that closed it.
Hasty == [OneRung EXCEPT !.ffmpeg = TRUE, !.hasty = TRUE]

\* One event on two cameras, and someone who asks for its clips.
Viewed == [OneRung EXCEPT !.cameras = <<c1, c2>>, !.moves = TRUE, !.viewers = {v1}]

\* One camera, someone who asks for its clip, and a cache that sheds.
Shedding == [OneRung EXCEPT !.sheds = TRUE, !.viewers = {v1}]

MCWorlds == {TwoEvents(<<>>), Reopened, TwoSeconds, TwoRungs, Restarted, Viewed, Shedding}
StitchWorlds == {Hasty}
SealWorlds == {OneRung}
==============================================================================
