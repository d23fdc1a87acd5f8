------------------------------- MODULE Settings -------------------------------
(***************************************************************************)
(* The configuration file: Parse and applyDefaults of internal/config/     *)
(* config.go, as operators.  Durations are in seconds, -1 where the file   *)
(* is silent; a name, an address or a zone is whether it is given and      *)
(* well-formed; what only has a default and no rule is left out.           *)
(***************************************************************************)
EXTENDS Integers, Sequences

Unset == -1
Minute == 60
Hour == 60 * Minute
Day == 24 * Hour

Duration == Nat \cup {Unset}

StateModel == [model : BOOLEAN, hold : Duration, alarmClass : BOOLEAN, alarmAfter : Duration]
Watched == [zone : BOOLEAN, labels : Nat, arriveAfter : Duration, departAfter : Duration]

File ==
  [mqtt : BOOLEAN, host : BOOLEAN, port : Nat, subscriptions : Nat, keepalive : Duration,
   rotateEvery : Duration, retention : Duration, timezone : BOOLEAN,
   stateModels : Seq(StateModel), occupancy : Seq(Watched),
   cidrs : BOOLEAN, ttl : Duration]

Within(d, low, high) == d = Unset \/ (low <= d /\ d <= high)

\* applyDefaults' refusals (and ParseCIDRs').
SettingsAccepted(f) ==
  /\ f.mqtt /\ f.host /\ f.port <= 65535 /\ f.subscriptions > 0
  /\ Within(f.keepalive, 1, Hour)
  /\ f.rotateEvery = Unset \/ f.rotateEvery >= Minute
  /\ f.retention = Unset \/ f.retention >= Hour
  /\ f.timezone /\ f.cidrs
  /\ \A i \in DOMAIN f.stateModels :
       LET m == f.stateModels[i]
       IN /\ m.model /\ Within(m.hold, 1, Hour)
          /\ m.alarmClass <=> m.alarmAfter # Unset
          /\ Within(m.alarmAfter, Minute, 7 * Day)
  /\ \A i \in DOMAIN f.occupancy :
       LET o == f.occupancy[i]
       IN o.zone /\ Within(o.arriveAfter, 1, Hour) /\ Within(o.departAfter, 1, Day)
  /\ Within(f.ttl, Minute, 7 * Day)

Or(d, default) == IF d = Unset THEN default ELSE d

\* A mutant of Defaults with the retention of a week given in minutes.
DefaultsInMinutes ==
  [port |-> 1883, keepalive |-> 30, rotateEvery |-> Day, retention |-> 7 * 24,
   hold |-> 10 * Minute, arriveAfter |-> Minute, departAfter |-> 5 * Minute, ttl |-> 4 * Hour]

Defaults ==
  [port |-> 1883, keepalive |-> 30, rotateEvery |-> Day, retention |-> 7 * Day,
   hold |-> 10 * Minute, arriveAfter |-> Minute, departAfter |-> 5 * Minute, ttl |-> 4 * Hour]

\* What applyDefaults fills in where the file is silent: of a state model, of an
\* occupancy watch, of the rest.
FilledModel(m) == [m EXCEPT !.hold = Or(@, Defaults.hold)]

FilledWatch(o) ==
  [zone        |-> o.zone,
   labels      |-> IF o.labels = 0 THEN 1 ELSE o.labels,
   arriveAfter |-> Or(o.arriveAfter, Defaults.arriveAfter),
   departAfter |-> Or(o.departAfter, Defaults.departAfter)]

Filled(f) ==
  [mqtt |-> f.mqtt, host |-> f.host, subscriptions |-> f.subscriptions,
   timezone |-> f.timezone, cidrs |-> f.cidrs,
   port        |-> IF f.port = 0 THEN Defaults.port ELSE f.port,
   keepalive   |-> Or(f.keepalive, Defaults.keepalive),
   rotateEvery |-> Or(f.rotateEvery, Defaults.rotateEvery),
   retention   |-> Or(f.retention, Defaults.retention),
   stateModels |-> [i \in DOMAIN f.stateModels |-> FilledModel(f.stateModels[i])],
   occupancy   |-> [i \in DOMAIN f.occupancy |-> FilledWatch(f.occupancy[i])],
   ttl         |-> Or(f.ttl, Defaults.ttl)]

\* What the engines, the recorder and the keyring take for granted.
Usable(g) ==
  /\ g.port > 0 /\ g.keepalive > 0 /\ g.rotateEvery > 0 /\ g.retention > 0 /\ g.ttl > 0
  /\ \A i \in DOMAIN g.occupancy :
       LET o == g.occupancy[i] IN o.labels > 0 /\ o.arriveAfter > 0 /\ o.departAfter > 0
  /\ \A i \in DOMAIN g.stateModels :
       LET m == g.stateModels[i] IN m.hold > 0 /\ (m.alarmClass => m.alarmAfter > 0)
==============================================================================
