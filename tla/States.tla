-------------------------------- MODULE States --------------------------------
(***************************************************************************)
(* The state engine, internal/policy/states.go: classifier verdicts are    *)
(* believed once they have lasted, and a belief that lasts can alarm. Pure *)
(* steps over the engine's state; module Pipeline drives them, live and in *)
(* the rebuild.                                                            *)
(*                                                                         *)
(* The classes the models report and the cameras are model values; an      *)
(* event is its id, the text MintID hashes, with the time it started.      *)
(***************************************************************************)
EXTENDS Integers, FiniteSets

CONSTANTS
  Models,      \* watched classifiers
  Classes,     \* the classes they report
  News,        \* the models whose believed changes are events
  Hold,        \* model -> cfg.Hold
  AlarmClass,  \* model -> cfg.AlarmClass, or None
  AlarmAfter,  \* model -> cfg.AlarmAfter
  None

ASSUME StatesAssumption ==
  /\ None \notin Classes \cup Models
  /\ News \subseteq Models
  /\ Hold \in [Models -> Nat \ {0}] /\ AlarmAfter \in [Models -> Nat]
  /\ AlarmClass \in [Models -> Classes \cup {None}]

\* stateModel: the raw verdict and when it last changed, the belief and since
\* when it is held, whether this episode has alarmed.
ModelStates ==
  [raw : Classes \cup {None}, rawAt : Nat, held : Classes \cup {None}, heldAt : Nat,
   alarmed : BOOLEAN]

Unknown == [raw |-> None, rawAt |-> 0, held |-> None, heldAt |-> 0, alarmed |-> FALSE]

\* NewStates
Fresh == [m \in Models |-> Unknown]

\* A mutant of Heard that keeps the time of the verdict before.
HeardKeepsTime(s, at, class) ==
  LET t == [s EXCEPT !.raw = class, !.rawAt = IF s.raw = None THEN at ELSE @]
  IN IF s.held = None THEN [t EXCEPT !.held = class, !.heldAt = at] ELSE t

\* Observe's half for a verdict: the first is believed without ceremony.
Heard(s, at, class) ==
  LET t == IF class = s.raw THEN s ELSE [s EXCEPT !.raw = class, !.rawAt = at]
  IN IF s.held = None THEN [t EXCEPT !.held = class, !.heldAt = at] ELSE t

\* tick's two tests, in its order.
Lasted(m, s, at) == s.raw # s.held /\ at - s.rawAt >= Hold[m]
Believed(s) == [s EXCEPT !.held = s.raw, !.heldAt = s.rawAt, !.alarmed = FALSE]
Settled(m, s, at) == IF Lasted(m, s, at) THEN Believed(s) ELSE s

Alarms(m, s, at) ==
  /\ ~s.alarmed
  /\ s.held # None /\ s.held = AlarmClass[m]
  /\ at - s.heldAt >= AlarmAfter[m]

\* The state a tick leaves, and the events it starts.
Ticked(m, s, at) ==
  LET t == Settled(m, s, at) IN [t EXCEPT !.alarmed = @ \/ Alarms(m, t, at)]

Event(kind, m, s, at) == [kind |-> kind, model |-> m, class |-> s.held, from |-> s.heldAt, at |-> at]

Started(m, s, at) ==
  LET t == Settled(m, s, at)
  IN (IF Lasted(m, s, at) /\ m \in News THEN {Event("change", m, t, t.heldAt)} ELSE {})
     \cup (IF Alarms(m, t, at) THEN {Event("alarm", m, t, at)} ELSE {})

\* Observe: the verdict the message carries, if any, then a tick of every model.
Verdict(e, r) == IF r.model = None THEN e ELSE [e EXCEPT ![r.model] = Heard(@, r.at, r.class)]

Observed(e, r) == [m \in Models |-> Ticked(m, Verdict(e, r)[m], r.at)]

Events(e, r) == UNION {Started(m, Verdict(e, r)[m], r.at) : m \in Models}
==============================================================================
