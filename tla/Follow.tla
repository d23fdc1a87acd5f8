-------------------------------- MODULE Follow --------------------------------
(***************************************************************************)
(* The edit decision list of internal/edl/edl.go: which camera the follow  *)
(* view shows, when. Build scores the box evidence of an event at every    *)
(* edlStep of the clip and cuts to the biggest view, with hysteresis.      *)
(*                                                                         *)
(* Times are looks, multiples of edlStep from the clip's start; evidence   *)
(* may be older than the clip. A sample is [cam, at, view]: the view is    *)
(* the area of the box as a share of that camera's frame, in hundredths,   *)
(* and 0 for a box without area. The cameras are looked at in the order of *)
(* a Go map, so of equal views any may win: Build is the set of the edits  *)
(* it may return.                                                          *)
(***************************************************************************)
EXTENDS Integers, Sequences, SequencesExt

CONSTANTS
  Scorable,  \* the cameras whose detect resolution is known
  Unscored,  \* those whose resolution is not
  Stale,     \* edlStale, in looks
  MinShot,   \* edlMinShot, in looks
  NoCamera

ASSUME FollowAssumption ==
  Stale \in Nat /\ MinShot \in Nat \ {0} /\ NoCamera \notin Scorable

Blind == -1

\* The box evidence of an event, in the order it arrived. Build takes a camera's
\* samples to be in time order; nothing makes them so, and nothing here does.
Sample == [cam : Scorable \cup Unscored, at : Int, view : Nat]

\* perCam
SamplesOf(boxes, cam) ==
  LET per[n \in 0 .. Len(boxes)] ==
        IF n = 0 THEN <<>>
        ELSE IF boxes[n].cam = cam THEN Append(per[n - 1], boxes[n]) ELSE per[n - 1]
  IN  per[Len(boxes)]
Scored(boxes) == {b.cam : b \in ToSet(boxes)} \cap Scorable

\* A mutant of Heard whose cursor runs on to the end of the evidence.
HeardAll(samples, t) == Len(samples)

\* score's cursor: samples are passed up to the first that lies ahead.
Heard(samples, t) ==
  CHOOSE i \in 0 .. Len(samples) :
    /\ \A j \in 1 .. i : samples[j].at <= t
    /\ i < Len(samples) => samples[i + 1].at > t

Score(boxes, cam, t) ==
  LET samples == SamplesOf(boxes, cam)
      i       == Heard(samples, t)
  IN  IF i = 0 \/ t - samples[i].at > Stale \/ samples[i].view = 0
      THEN Blind ELSE samples[i].view

Best(boxes, t) ==
  {c \in Scored(boxes) :
     /\ Score(boxes, c, t) # Blind
     /\ \A d \in Scored(boxes) : Score(boxes, d, t) <= Score(boxes, c, t)}

\* emit, the camera on show from cut.start to "to".
Emitted(cut, to) ==
  IF cut.current = NoCamera \/ to <= cut.start THEN cut.segs
  ELSE IF cut.segs # <<>> /\ Last(cut.segs).cam = cut.current
       THEN [cut.segs EXCEPT ![Len(cut.segs)].e = to]
       ELSE Append(cut.segs, [cam |-> cut.current, s |-> cut.start, e |-> to])

Opening == [current |-> NoCamera, since |-> 0, start |-> 0, segs |-> <<>>]

\* edlAdvantage: the challenger's view is 1.3 times the incumbent's.
Outdoes(challenger, incumbent) == 10 * challenger >= 13 * incumbent

\* A mutant of Turn that lets any bigger view take the cut at once.
TurnAtOnce(cut, boxes, cam, t) ==
  CASE cut.current = NoCamera -> [cut EXCEPT !.current = cam, !.since = t]
    [] cut.current # NoCamera /\ cam # cut.current
       /\ Outdoes(Score(boxes, cam, t), Score(boxes, cut.current, t))
       -> [current |-> cam, since |-> t, start |-> t, segs |-> Emitted(cut, t)]
    [] OTHER -> cut

\* One look that found cam biggest. The opening shot reaches back to the top.
Turn(cut, boxes, cam, t) ==
  CASE cut.current = NoCamera -> [cut EXCEPT !.current = cam, !.since = t]
    [] /\ cut.current # NoCamera /\ cam # cut.current
       /\ t - cut.since >= MinShot
       /\ Outdoes(Score(boxes, cam, t), Score(boxes, cut.current, t))
       -> [current |-> cam, since |-> t, start |-> t, segs |-> Emitted(cut, t)]
    [] OTHER -> cut

\* With nothing fresh to go by the cut holds the camera it has.
Looked(cut, boxes, t) ==
  IF Best(boxes, t) = {} THEN {cut} ELSE {Turn(cut, boxes, cam, t) : cam \in Best(boxes, t)}

Build(boxes, end) ==
  LET cuts[t \in 0 .. end] ==
        IF t = 0 THEN {Opening}
        ELSE UNION {Looked(cut, boxes, t - 1) : cut \in cuts[t - 1]}
  IN  {Emitted(cut, end) : cut \in cuts[end]}

------------------------------------------------------------------------------
(***************************************************************************)
(* What an edit should be (the reference for Build).                       *)
(***************************************************************************)
\* What a viewer would call the view of a camera: the newest sample it has told by
\* t, unless that is too old or shows nothing. A sample is told once its time has
\* come, and that of every one its camera sent before it: one that ran ahead keeps
\* those after it waiting. (Reference for Score.)
ViewOf(boxes, cam, t) ==
  LET told == {j \in DOMAIN boxes :
                 /\ boxes[j].cam = cam /\ cam \in Scorable
                 /\ \A i \in 1 .. j : boxes[i].cam = cam => boxes[i].at <= t}
  IN  IF told = {} \/ boxes[Max(told)].at < t - Stale \/ boxes[Max(told)].view = 0
      THEN Blind ELSE boxes[Max(told)].view

Sighted(boxes, t) == \E c \in Scorable : ViewOf(boxes, c, t) # Blind

\* The shots tile the clip from its first second to its last, no two neighbours
\* show one camera, every hand-off waits until the shot before it has stood for
\* MinShot, and there is an edit exactly if some camera is sighted at some look.
Tiles(boxes, end, segs) ==
  /\ segs # <<>> <=> \E t \in 0 .. end - 1 : Sighted(boxes, t)
  /\ segs # <<>> => segs[1].s = 0 /\ Last(segs).e = end
  /\ \A i \in 1 .. Len(segs) - 1 :
       /\ segs[i + 1].s = segs[i].e
       /\ segs[i + 1].cam # segs[i].cam
       /\ segs[i].e - segs[i].s >= MinShot

\* Once a shot has stood for MinShot since its camera was sighted, it does not
\* go on showing a camera that another outdoes by the advantage, nor a blind
\* one while another sees the subject.
Follows(boxes, end, segs) ==
  \A i \in DOMAIN segs : \A t \in segs[i].s .. segs[i].e - 1 :
    LET settled == /\ t - segs[i].s >= MinShot
                   /\ \E u \in 0 .. t - MinShot : Sighted(boxes, u)
    IN  settled => \A c \in Scorable :
          ViewOf(boxes, c, t) # Blind =>
            ~Outdoes(ViewOf(boxes, c, t), ViewOf(boxes, segs[i].cam, t))
==============================================================================
