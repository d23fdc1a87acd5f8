------------------------------- MODULE MCAccess -------------------------------
(***************************************************************************)
(* Small instances of Access for TLC.                                      *)
(***************************************************************************)
EXTENDS Access

CONSTANTS d1, d2, x1, x2, p1, p2, s1, h1, h2, h3, r1, r2

File(live, keys) ==
  [devices |-> [t \in Tokens |-> IF t \in live THEN "live" ELSE "none"], passkeys |-> keys]

\* A household with a passkey and a live session, enrolling its devices.
Enrolling ==
  [file |-> File({}, {p1}), sessions |-> {s1}, fresh |-> {d1, d2, x1, x2}]

\* A first start: the bootstrap, a login and a second key, one of them removed.
Bootstrap ==
  [file |-> File({}, {}), sessions |-> {}, fresh |-> {h1, h2, h3, s1}]

\* A restart with a device and a passkey on file.
Enrolled ==
  [file |-> File({d1}, {p1}), sessions |-> {s1}, fresh |-> {x1, d2}]

MCWorlds == {Enrolling, Bootstrap, Enrolled}

Symmetry == Permutations(Reqs) \cup Permutations(Challenges)
==============================================================================
