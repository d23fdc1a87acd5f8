----------------------------- MODULE PipelineProofs -----------------------------
(***************************************************************************)
(* Proofs about Pipeline and the state engine it feeds: for every set of   *)
(* models and classes, every hold and alarm, queue, rotation, retention    *)
(* and traffic, and any number of lives.                                   *)
(***************************************************************************)
EXTENDS Pipeline, FiniteSetTheorems, WellFoundedInduction, TLAPS

------------------------------------------------------------------------------
(***************************************************************************)
(* Sequences.                                                              *)
(***************************************************************************)

\* A set of numbers that is not empty has a smallest one.
LEMMA Smallest ==
  ASSUME NEW B \in SUBSET Nat, B # {}
  PROVE  \E n \in B : \A i \in B : ~ (i < n)
<1>1. IsWellFoundedOn(OpToRel(<, Nat), Nat)
  BY NatLessThanWellFounded
<1>2. PICK n \in B : \A i \in B : <<i, n>> \notin OpToRel(<, Nat)
  BY <1>1, WFMin
<1> QED BY <1>2 DEF OpToRel

\* A sequence holds m.
Holds(s, m) == \E i \in 1 .. Len(s) : s[i] = m

\* What a longer sequence holds.
LEMMA AppendHolds ==
  ASSUME NEW S, NEW s \in Seq(S), NEW x \in S, NEW t, t = Append(s, x)
  PROVE  /\ t \in Seq(S) /\ Holds(t, x)
         /\ \A m : Holds(s, m) => Holds(t, m)
<1>1. /\ t \in Seq(S) /\ Len(t) = Len(s) + 1 /\ Len(s) \in Nat /\ t[Len(s) + 1] = x
      /\ \A i \in 1 .. Len(s) : t[i] = s[i]
  OBVIOUS
<1>2. \A i \in 1 .. Len(s) : i \in 1 .. Len(t)
  BY <1>1
<1>3. Len(s) + 1 \in 1 .. Len(t)
  BY <1>1
<1> QED BY <1>1, <1>2, <1>3 DEF Holds

\* What a sequence holds is its head or in its tail.
LEMMA TailHolds ==
  ASSUME NEW S, NEW s \in Seq(S), s # <<>>
  PROVE  /\ Head(s) \in S /\ Tail(s) \in Seq(S)
         /\ \A m : Holds(s, m) => m = Head(s) \/ Holds(Tail(s), m)
<1>1. /\ Head(s) = s[1] /\ Head(s) \in S /\ Tail(s) \in Seq(S) /\ Len(Tail(s)) = Len(s) - 1
      /\ Len(s) \in Nat
  OBVIOUS
<1>2. PICK t : t = Tail(s)
  OBVIOUS
<1>3. \A i \in 1 .. Len(t) : t[i] = s[i + 1]
  BY <1>2
<1>4. ASSUME NEW m, NEW i \in 1 .. Len(s), s[i] = m, i # 1 PROVE Holds(t, m)
  <2>1. i - 1 \in 1 .. Len(t) /\ (i - 1) + 1 = i
    BY <1>1, <1>2, <1>4
  <2>2. t[i - 1] = m
    BY <1>3, <1>4, <2>1
  <2> QED BY <2>1, <2>2 DEF Holds
<1> QED BY <1>1, <1>2, <1>4 DEF Holds

\* f holds the concatenations of the first sequences of ss, up to each place.
Flattens(ss, n, f) ==
  f = [i \in 1 .. n |-> IF i = 1 THEN ss[i] ELSE f[i - 1] \o ss[i]]

\* Sequences of sequences can be concatenated.
LEMMA FlattenExists ==
  ASSUME NEW ss, NEW m \in Nat
  PROVE  \E f : Flattens(ss, m, f)
<1> DEFINE Bad == {n \in Nat : ~ \E f : Flattens(ss, n, f)}
<1>1. SUFFICES ASSUME Bad # {} PROVE FALSE
  OBVIOUS
<1>2. PICK n \in Bad : \A i \in Bad : ~ (i < n)
  <2>1. Bad \in SUBSET Nat
    OBVIOUS
  <2> QED BY <1>1, <2>1, Smallest
<1>3. CASE n = 0
  <2>1. PICK f : f = [i \in 1 .. 0 |-> <<>>]
    OBVIOUS
  <2>2. f = [i \in 1 .. 0 |-> f[i]]
    BY <2>1
  <2>5. ASSUME NEW i \in 1 .. 0 PROVE f[i] = IF i = 1 THEN ss[i] ELSE f[i - 1] \o ss[i]
    OBVIOUS
  <2>3. f = [i \in 1 .. 0 |-> IF i = 1 THEN ss[i] ELSE f[i - 1] \o ss[i]]
    BY <2>2, <2>5, Zenon
  <2>4. Flattens(ss, 0, f)
    BY <2>3 DEF Flattens
  <2> QED BY <1>2, <1>3, <2>4
<1>4. CASE n # 0
  <2>1. n - 1 \in Nat /\ n - 1 < n /\ n - 1 \notin Bad
    BY <1>2, <1>4
  <2>2. PICK f : Flattens(ss, n - 1, f)
    BY <2>1
  <2>3. \A i \in 1 .. n - 1 : f[i] = IF i = 1 THEN ss[i] ELSE f[i - 1] \o ss[i]
    BY <2>2 DEF Flattens
  <2> DEFINE top == IF n = 1 THEN ss[n] ELSE f[n - 1] \o ss[n]
             g == [i \in 1 .. n |-> IF i = n THEN top ELSE f[i]]
  <2>4. \A i \in 1 .. n : g[i] = IF i = n THEN top ELSE f[i]
    OBVIOUS
  <2>5. g = [i \in 1 .. n |-> g[i]]
    OBVIOUS
  <2>6. ASSUME NEW i \in 1 .. n
        PROVE  g[i] = IF i = 1 THEN ss[i] ELSE g[i - 1] \o ss[i]
    <3> HIDE DEF g
    <3>1. CASE i = 1
      BY <2>3, <2>4, <3>1, <1>4, <1>2
    <3>2. CASE i # 1
      <4>1. i - 1 \in 1 .. n /\ i - 1 # n
        BY <3>2, <1>2
      <4>2. g[i - 1] = f[i - 1]
        BY <2>4, <4>1
      <4>3. CASE i = n
        BY <2>4, <3>2, <4>2, <4>3
      <4>4. CASE i # n
        <5>1. i \in 1 .. n - 1
          BY <4>4, <1>2
        <5>2. g[i] = f[i]
          BY <2>4, <4>4
        <5> QED BY <2>3, <3>2, <4>2, <5>1, <5>2
      <4> QED BY <4>3, <4>4
    <3> QED BY <3>1, <3>2
  <2> HIDE DEF g
  <2>7. g = [i \in 1 .. n |-> IF i = 1 THEN ss[i] ELSE g[i - 1] \o ss[i]]
    BY <2>5, <2>6, Zenon
  <2>8. Flattens(ss, n, g)
    BY <2>7 DEF Flattens
  <2> QED BY <1>2, <2>8
<1> QED BY <1>3, <1>4

\* A concatenation of sequences is a sequence.
LEMMA FlattenIs ==
  ASSUME NEW S, NEW ss \in Seq(Seq(S))
  PROVE  FlattenSeq(ss) \in Seq(S)
<1>0. Len(ss) \in Nat /\ \A i \in 1 .. Len(ss) : ss[i] \in Seq(S)
  OBVIOUS
<1>1. CASE Len(ss) = 0
  <2>1. FlattenSeq(ss) = ss
    BY <1>1 DEF FlattenSeq
  <2>2. ss = <<>>
    BY <1>1
  <2> QED BY <2>1, <2>2
<1>2. CASE Len(ss) # 0
  <2>1. FlattenSeq(ss) = (CHOOSE f : Flattens(ss, Len(ss), f))[Len(ss)]
    BY <1>2 DEF FlattenSeq, Flattens
  <2>2. PICK f : Flattens(ss, Len(ss), f) /\ FlattenSeq(ss) = f[Len(ss)]
    <3>1. \E f : Flattens(ss, Len(ss), f)
      BY <1>0, FlattenExists
    <3> QED BY <2>1, <3>1
  <2>3. \A i \in 1 .. Len(ss) : f[i] = IF i = 1 THEN ss[i] ELSE f[i - 1] \o ss[i]
    BY <2>2 DEF Flattens
  <2> DEFINE Bad == {i \in 1 .. Len(ss) : f[i] \notin Seq(S)}
  <2>4. ASSUME Bad # {} PROVE FALSE
    <3>1. PICK n \in Bad : \A i \in Bad : ~ (i < n)
      <4>1. Bad \in SUBSET Nat
        BY <1>0
      <4> HIDE DEF Bad
      <4> QED BY <2>4, <4>1, Smallest
    <3>2. CASE n = 1
      BY <1>0, <2>3, <3>1, <3>2
    <3>3. CASE n # 1
      <4>1. n - 1 \in 1 .. Len(ss) /\ n - 1 < n
        BY <1>0, <3>1, <3>3
      <4>2. f[n - 1] \in Seq(S) /\ ss[n] \in Seq(S)
        BY <1>0, <3>1, <4>1
      <4>3. f[n] = f[n - 1] \o ss[n]
        BY <2>3, <3>1, <3>3
      <4>4. ASSUME NEW a \in Seq(S), NEW b \in Seq(S) PROVE a \o b \in Seq(S)
        OBVIOUS
      <4>5. f[n] \in Seq(S)
        BY <4>2, <4>3, <4>4
      <4> QED BY <3>1, <4>5
    <3> QED BY <3>2, <3>3
  <2>5. Len(ss) \in 1 .. Len(ss)
    BY <1>0, <1>2
  <2>6. f[Len(ss)] \in Seq(S)
    BY <2>4, <2>5
  <2> QED BY <2>2, <2>6
<1> QED BY <1>1, <1>2

------------------------------------------------------------------------------
(***************************************************************************)
(* The state engine, whatever it is fed.                                   *)
(***************************************************************************)
StateOf(raw, rawAt, held, heldAt, alarmed) ==
  [raw |-> raw, rawAt |-> rawAt, held |-> held, heldAt |-> heldAt, alarmed |-> alarmed]

IsState(s) == s = StateOf(s.raw, s.rawAt, s.held, s.heldAt, s.alarmed)

\* What Observe makes of a model's state on a verdict.
LEMMA HeardIs ==
  ASSUME NEW s, IsState(s), NEW at, NEW class, NEW t, t = Heard(s, at, class)
  PROVE  /\ IsState(t) /\ t.raw = class
         /\ t.rawAt = IF class = s.raw THEN s.rawAt ELSE at
         /\ t.held = IF s.held = None THEN class ELSE s.held
         /\ t.heldAt = IF s.held = None THEN at ELSE s.heldAt
<1>1. PICK u : u = IF class = s.raw THEN s ELSE [s EXCEPT !.raw = class, !.rawAt = at]
  OBVIOUS
<1>2. u = StateOf(class, IF class = s.raw THEN s.rawAt ELSE at, s.held, s.heldAt, s.alarmed)
  <2>1. CASE class = s.raw
    BY <1>1, <2>1 DEF IsState
  <2>2. CASE class # s.raw
    <3>1. PICK d : d = [s EXCEPT !.raw = class, !.rawAt = at]
      OBVIOUS
    <3>2. d = StateOf(class, at, s.held, s.heldAt, s.alarmed)
      BY <3>1 DEF IsState, StateOf
    <3> QED BY <1>1, <2>2, <3>1, <3>2, Zenon
  <2> QED BY <2>1, <2>2
<1>3. t = IF s.held = None THEN [u EXCEPT !.held = class, !.heldAt = at] ELSE u
  BY <1>1 DEF Heard
<1>4. CASE s.held = None
  <2>1. t = [u EXCEPT !.held = class, !.heldAt = at]
    BY <1>3, <1>4
  <2>2. t = StateOf(class, IF class = s.raw THEN s.rawAt ELSE at, class, at, s.alarmed)
    BY <1>2, <2>1 DEF StateOf
  <2> QED BY <1>4, <2>2 DEF IsState, StateOf
<1>5. CASE s.held # None
  BY <1>2, <1>3, <1>5 DEF IsState, StateOf
<1> QED BY <1>4, <1>5

\* What tick makes of a model's state before it looks for an alarm.
LEMMA SettledIs ==
  ASSUME NEW m, NEW s, IsState(s), NEW at, NEW t, t = Settled(m, s, at)
  PROVE  /\ IsState(t) /\ t.raw = s.raw /\ t.rawAt = s.rawAt
         /\ Lasted(m, s, at) => (t.held = s.raw /\ t.heldAt = s.rawAt)
         /\ ~Lasted(m, s, at) => t = s
<1>1. PICK d : d = [s EXCEPT !.held = s.raw, !.heldAt = s.rawAt, !.alarmed = FALSE]
  OBVIOUS
<1>2. d = StateOf(s.raw, s.rawAt, s.raw, s.rawAt, FALSE)
  BY <1>1 DEF IsState, StateOf
<1>3. t = IF Lasted(m, s, at) THEN d ELSE s
  BY <1>1, Zenon DEF Settled, Believed
<1>4. /\ IsState(d) /\ d.raw = s.raw /\ d.rawAt = s.rawAt /\ d.held = s.raw /\ d.heldAt = s.rawAt
  BY <1>2 DEF IsState, StateOf
<1>5. CASE Lasted(m, s, at)
  <2>1. t = d
    BY <1>3, <1>5
  <2> QED BY <1>4, <1>5, <2>1
<1>6. CASE ~Lasted(m, s, at)
  <2>1. t = s
    BY <1>3, <1>6
  <2> QED BY <1>6, <2>1
<1> QED BY <1>5, <1>6

\* What a tick leaves of it.
LEMMA TickedIs ==
  ASSUME NEW m, NEW s, IsState(s), NEW at, NEW t, t = Settled(m, s, at), NEW u, u = Ticked(m, s, at)
  PROVE  /\ IsState(u) /\ u.raw = t.raw /\ u.rawAt = t.rawAt /\ u.held = t.held /\ u.heldAt = t.heldAt
<1>1. IsState(t)
  BY SettledIs
<1>2. PICK a : a = (t.alarmed \/ Alarms(m, t, at))
  OBVIOUS
<1>3. PICK d : d = [t EXCEPT !.alarmed = a]
  OBVIOUS
<1>4. u = d
  BY <1>2, <1>3, Zenon DEF Ticked
<1>5. d = StateOf(t.raw, t.rawAt, t.held, t.heldAt, a)
  BY <1>1, <1>3 DEF IsState, StateOf
<1> QED BY <1>4, <1>5 DEF IsState, StateOf

\* A verdict on a model that was fed, and has not been contradicted since; a verdict
\* on it that was fed.
Unopposed(fd, m, class, at) ==
  \E i \in 1 .. Len(fd) :
    /\ fd[i].model = m /\ fd[i].class = class /\ fd[i].at = at
    /\ \A k \in i .. Len(fd) : fd[k].model = m => fd[k].class = class

Said(fd, m, class, at) ==
  \E i \in 1 .. Len(fd) : fd[i].model = m /\ fd[i].class = class /\ fd[i].at = at

\* What a model's state knows comes from what was fed: the raw verdict is the last
\* one, since when it was first said; the belief was said when it is held from.
KnownBy(fd, m, s) ==
  /\ IsState(s)
  /\ (s.raw = None /\ s.held = None) \/ Unopposed(fd, m, s.raw, s.rawAt)
  /\ s.held = None \/ Said(fd, m, s.held, s.heldAt)

EngineInv(e, fd) == e = [m \in Models |-> e[m]] /\ \A m \in Models : KnownBy(fd, m, e[m])

\* An event is earned by what was fed.
Earned(e, fd) ==
  e.kind \in {"change", "alarm"} /\ \E i, j \in 1 .. Len(fd) :
    /\ i <= j /\ fd[i].model = e.model /\ fd[i].class = e.class /\ fd[i].at = e.from
    /\ CASE e.kind = "change" ->
              /\ fd[j].at - e.from >= Hold[e.model]
              /\ \A k \in i .. j : fd[k].model = e.model => fd[k].class = e.class
         [] e.kind = "alarm" -> fd[j].at = e.at /\ e.at - e.from >= AlarmAfter[e.model]

\* A record fed later takes nothing back.
LEMMA EarnedLater ==
  ASSUME NEW S, NEW fd \in Seq(S), NEW r \in S, NEW f, f = Append(fd, r), NEW e, Earned(e, fd)
  PROVE  Earned(e, f)
<1>1. /\ Len(f) = Len(fd) + 1 /\ Len(fd) \in Nat /\ \A i \in 1 .. Len(fd) : f[i] = fd[i]
  OBVIOUS
<1>2. PICK i \in 1 .. Len(fd), j \in 1 .. Len(fd) :
        /\ i <= j /\ fd[i].model = e.model /\ fd[i].class = e.class /\ fd[i].at = e.from
        /\ CASE e.kind = "change" ->
                  /\ fd[j].at - e.from >= Hold[e.model]
                  /\ \A k \in i .. j : fd[k].model = e.model => fd[k].class = e.class
             [] e.kind = "alarm" -> fd[j].at = e.at /\ e.at - e.from >= AlarmAfter[e.model]
  BY DEF Earned
<1>3. i \in 1 .. Len(f) /\ j \in 1 .. Len(f) /\ f[i] = fd[i] /\ f[j] = fd[j]
  BY <1>1
<1>4. \A k \in i .. j : f[k] = fd[k]
  BY <1>1
<1>5. (\A k \in i .. j : fd[k].model = e.model => fd[k].class = e.class)
      <=> (\A k \in i .. j : f[k].model = e.model => f[k].class = e.class)
  BY <1>4
<1>6. \E n, l \in 1 .. Len(f) :
        /\ n <= l /\ f[n].model = e.model /\ f[n].class = e.class /\ f[n].at = e.from
        /\ CASE e.kind = "change" ->
                  /\ f[l].at - e.from >= Hold[e.model]
                  /\ \A k \in n .. l : f[k].model = e.model => f[k].class = e.class
             [] e.kind = "alarm" -> f[l].at = e.at /\ e.at - e.from >= AlarmAfter[e.model]
  <2> WITNESS i \in 1 .. Len(f)
  <2> WITNESS j \in 1 .. Len(f)
  <2>1. i <= j /\ f[i].model = e.model /\ f[i].class = e.class /\ f[i].at = e.from
    BY <1>2, <1>3
  <2>2. CASE e.kind = "change"
    BY <1>2, <1>3, <1>5, <2>1, <2>2
  <2>3. CASE e.kind = "alarm"
    BY <1>2, <1>3, <2>1, <2>3
  <2> QED BY <2>2, <2>3 DEF Earned
<1> QED BY <1>6 DEF Earned

\* A model's state after the verdict of a record, if it is on the model.
Told(m, s, r) == IF r.model = m THEN Heard(s, r.at, r.class) ELSE s

\* A verdict keeps what is known of its model, and of the others.
LEMMA VerdictIs ==
  ASSUME NEW S, NEW fd \in Seq(S), NEW r \in S, NEW f, f = Append(fd, r),
         NEW m \in Models, NEW s, KnownBy(fd, m, s),
         NEW t, t = Told(m, s, r)
  PROVE  KnownBy(f, m, t)
<1>1. /\ Len(f) = Len(fd) + 1 /\ Len(fd) \in Nat /\ \A i \in 1 .. Len(fd) : f[i] = fd[i]
      /\ f[Len(fd) + 1] = r /\ Len(f) \in 1 .. Len(f)
      /\ \A i \in 1 .. Len(fd) : i \in 1 .. Len(f)
  OBVIOUS
<1>2. IsState(s)
  BY DEF KnownBy
<1>3. s.held = None \/ Said(f, m, s.held, s.heldAt)
  BY <1>1 DEF KnownBy, Said
<1>4. ASSUME Unopposed(fd, m, s.raw, s.rawAt), r.model = m => r.class = s.raw
      PROVE  Unopposed(f, m, s.raw, s.rawAt)
  <2>1. PICK i \in 1 .. Len(fd) :
          /\ fd[i].model = m /\ fd[i].class = s.raw /\ fd[i].at = s.rawAt
          /\ \A k \in i .. Len(fd) : fd[k].model = m => fd[k].class = s.raw
    BY <1>4 DEF Unopposed
  <2>2. ASSUME NEW k \in i .. Len(f), f[k].model = m PROVE f[k].class = s.raw
    <3>1. CASE k = Len(f)
      BY <1>1, <1>4, <2>2, <3>1
    <3>2. CASE k # Len(f)
      <4>1. k \in i .. Len(fd) /\ k \in 1 .. Len(fd)
        BY <1>1, <3>2
      <4> QED BY <1>1, <2>1, <2>2, <4>1
    <3> QED BY <3>1, <3>2
  <2>3. i \in 1 .. Len(f) /\ f[i] = fd[i]
    BY <1>1
  <2> QED BY <2>1, <2>2, <2>3 DEF Unopposed
<1>5. CASE r.model # m
  <2>1. t = s
    BY <1>5 DEF Told
  <2> QED BY <1>2, <1>3, <1>4, <1>5, <2>1 DEF KnownBy
<1>6. CASE r.model = m
  <2>0. t = Heard(s, r.at, r.class)
    BY <1>6 DEF Told
  <2>1. /\ IsState(t) /\ t.raw = r.class
        /\ t.rawAt = IF r.class = s.raw THEN s.rawAt ELSE r.at
        /\ t.held = IF s.held = None THEN r.class ELSE s.held
        /\ t.heldAt = IF s.held = None THEN r.at ELSE s.heldAt
    BY <1>2, <2>0, HeardIs
  <2>2. Said(f, m, r.class, r.at)
    <3>1. f[Len(f)] = r
      BY <1>1
    <3> QED BY <1>1, <1>6, <3>1 DEF Said
  <2>3. Unopposed(f, m, r.class, r.at)
    <3>1. f[Len(f)] = r /\ \A k \in Len(f) .. Len(f) : k = Len(f)
      BY <1>1
    <3> QED BY <1>1, <1>6, <3>1 DEF Unopposed
  <2>4. t.held = None \/ Said(f, m, t.held, t.heldAt)
    BY <1>3, <2>1, <2>2
  <2>5. (t.raw = None /\ t.held = None) \/ Unopposed(f, m, t.raw, t.rawAt)
    <3>1. CASE r.class # s.raw
      BY <2>1, <2>3, <3>1
    <3>2. CASE r.class = s.raw
      <4>1. CASE s.raw = None /\ s.held = None
        BY <2>1, <3>2, <4>1
      <4>2. CASE Unopposed(fd, m, s.raw, s.rawAt)
        BY <1>4, <2>1, <3>2, <4>2
      <4> QED BY <4>1, <4>2 DEF KnownBy
    <3> QED BY <3>1, <3>2
  <2> QED BY <2>1, <2>4, <2>5 DEF KnownBy
<1> QED BY <1>5, <1>6

\* A tick at the record just fed keeps what is known, and starts what is earned.
LEMMA TickKnown ==
  ASSUME NEW S, NEW f \in Seq(S), f # <<>>, NEW r, r = f[Len(f)], NEW m \in Models, NEW s, KnownBy(f, m, s)
  PROVE  KnownBy(f, m, Ticked(m, s, r.at)) /\ \A e \in Started(m, s, r.at) : Earned(e, f)
<1>1. Len(f) \in 1 .. Len(f) /\ Len(f) \in Nat
  OBVIOUS
<1>2. PICK t : t = Settled(m, s, r.at)
  OBVIOUS
<1>3. PICK u : u = Ticked(m, s, r.at)
  OBVIOUS
<1>4. IsState(s)
  BY DEF KnownBy
<1>5. /\ IsState(t) /\ t.raw = s.raw /\ t.rawAt = s.rawAt
      /\ Lasted(m, s, r.at) => (t.held = s.raw /\ t.heldAt = s.rawAt)
      /\ ~Lasted(m, s, r.at) => t = s
  BY <1>2, <1>4, SettledIs
<1>6. /\ IsState(u) /\ u.raw = t.raw /\ u.rawAt = t.rawAt /\ u.held = t.held /\ u.heldAt = t.heldAt
  BY <1>2, <1>3, <1>4, TickedIs
<1>7. Lasted(m, s, r.at) => Unopposed(f, m, s.raw, s.rawAt)
  BY DEF Lasted, KnownBy
<1>8. t.held = None \/ Said(f, m, t.held, t.heldAt)
  BY <1>5, <1>7 DEF KnownBy, Said, Unopposed
<1>9. KnownBy(f, m, u)
  BY <1>5, <1>6, <1>7, <1>8 DEF KnownBy
<1>10. ASSUME NEW e, e = Event("change", m, t, t.heldAt), Lasted(m, s, r.at) PROVE Earned(e, f)
  <2>1. e.kind = "change" /\ e.model = m /\ e.class = s.raw /\ e.from = s.rawAt
    BY <1>5, <1>10 DEF Event
  <2>2. PICK i \in 1 .. Len(f) :
          /\ f[i].model = m /\ f[i].class = s.raw /\ f[i].at = s.rawAt
          /\ \A k \in i .. Len(f) : f[k].model = m => f[k].class = s.raw
    BY <1>7, <1>10 DEF Unopposed
  <2>3. f[Len(f)].at - s.rawAt >= Hold[m]
    BY <1>10 DEF Lasted
  <2>4. i <= Len(f)
    BY <1>1
  <2> QED BY <1>1, <2>1, <2>2, <2>3, <2>4 DEF Earned
<1>11. ASSUME NEW e, e = Event("alarm", m, t, r.at), Alarms(m, t, r.at) PROVE Earned(e, f)
  <2>1. e.kind = "alarm" /\ e.model = m /\ e.class = t.held /\ e.from = t.heldAt /\ e.at = r.at
    BY <1>11 DEF Event
  <2>2. t.held # None /\ r.at - t.heldAt >= AlarmAfter[m]
    BY <1>11 DEF Alarms
  <2>3. PICK i \in 1 .. Len(f) : f[i].model = m /\ f[i].class = t.held /\ f[i].at = t.heldAt
    BY <1>8, <2>2 DEF Said
  <2>4. i <= Len(f)
    BY <1>1
  <2> QED BY <1>1, <2>1, <2>2, <2>3, <2>4 DEF Earned
<1>12. ASSUME NEW e \in Started(m, s, r.at) PROVE Earned(e, f)
  <2>1. \/ e = Event("change", m, t, t.heldAt) /\ Lasted(m, s, r.at)
        \/ e = Event("alarm", m, t, r.at) /\ Alarms(m, t, r.at)
    BY <1>2, <1>12 DEF Started
  <2> QED BY <1>10, <1>11, <2>1
<1> QED BY <1>3, <1>9, <1>12

\* One record fed to the engine keeps what it knows, and starts what is earned.
LEMMA FedKnows ==
  ASSUME NEW S, NEW fd \in Seq(S), NEW r \in S, NEW f, f = Append(fd, r), NEW e, EngineInv(e, fd)
  PROVE  EngineInv(Observed(e, r), f) /\ \A v \in Events(e, r) : Earned(v, f)
<1>1. f \in Seq(S) /\ f # <<>> /\ r = f[Len(f)]
  OBVIOUS
<1>2. ASSUME NEW m \in Models PROVE KnownBy(f, m, Verdict(e, r)[m])
  <2>0. m # None
    BY StatesAssumption
  <2>1. PICK t : t = IF r.model = m THEN Heard(e[m], r.at, r.class) ELSE e[m]
    OBVIOUS
  <2>2. Verdict(e, r)[m] = t
    <3>1. CASE r.model = None
      BY <2>0, <2>1, <3>1 DEF Verdict
    <3>2. CASE r.model # None
      <4>1. PICK h : h = Heard(e[r.model], r.at, r.class)
        OBVIOUS
      <4>2. Verdict(e, r) = [e EXCEPT ![r.model] = h]
        BY <3>2, <4>1, Zenon DEF Verdict
      <4>3. PICK d : d = [e EXCEPT ![r.model] = h]
        OBVIOUS
      <4>4. d[m] = IF r.model = m THEN h ELSE e[m]
        BY <4>3 DEF EngineInv
      <4> QED BY <2>1, <4>1, <4>2, <4>3, <4>4
    <3> QED BY <3>1, <3>2
  <2>3. PICK s : s = e[m] /\ KnownBy(fd, m, s)
    BY DEF EngineInv
  <2>5. t = Told(m, s, r)
    BY <2>1, <2>3 DEF Told
  <2>4. KnownBy(f, m, t)
    <3>1. KnownBy(fd, m, s)
      BY <2>3
    <3> QED BY <2>5, <3>1, VerdictIs
  <2> QED BY <2>2, <2>4
<1>3. ASSUME NEW m \in Models
      PROVE  /\ KnownBy(f, m, Ticked(m, Verdict(e, r)[m], r.at))
             /\ \A v \in Started(m, Verdict(e, r)[m], r.at) : Earned(v, f)
  BY <1>1, <1>2, TickKnown
<1>4. PICK o : o = Observed(e, r)
  OBVIOUS
<1>5. o = [m \in Models |-> o[m]] /\ \A m \in Models : o[m] = Ticked(m, Verdict(e, r)[m], r.at)
  BY <1>4 DEF Observed
<1>6. EngineInv(o, f)
  BY <1>3, <1>5 DEF EngineInv
<1> QED BY <1>3, <1>4, <1>6 DEF Events

\* The engine is fresh before anything is fed.
LEMMA FreshKnows == EngineInv(Fresh, <<>>)
<1>1. \A m \in Models : Fresh[m] = Unknown
  BY DEF Fresh
<1>2. IsState(Unknown) /\ Unknown.raw = None /\ Unknown.held = None
  BY DEF Unknown, IsState, StateOf
<1> QED BY <1>1, <1>2 DEF EngineInv, KnownBy, Fresh

------------------------------------------------------------------------------
(***************************************************************************)
(* The rebuild.                                                            *)
(***************************************************************************)
Start == [engine |-> Fresh, events |-> {}]

\* f holds the engine and its events after each of the first n records.
Feeds(recs, n, f) == f = [i \in 0 .. n |-> IF i = 0 THEN Start ELSE Fed(f[i - 1], recs[i])]

\* Records can be fed one after the other.
LEMMA FeedsExists ==
  ASSUME NEW recs, NEW m \in Nat
  PROVE  \E f : Feeds(recs, m, f)
<1> DEFINE Bad == {n \in Nat : ~ \E f : Feeds(recs, n, f)}
<1>1. SUFFICES ASSUME Bad # {} PROVE FALSE
  OBVIOUS
<1>2. PICK n \in Bad : \A i \in Bad : ~ (i < n)
  <2>1. Bad \in SUBSET Nat
    OBVIOUS
  <2> QED BY <1>1, <2>1, Smallest
<1>3. CASE n = 0
  <2>1. PICK f : f = [i \in 0 .. 0 |-> Start]
    OBVIOUS
  <2>2. f = [i \in 0 .. 0 |-> f[i]]
    BY <2>1
  <2>3. ASSUME NEW i \in 0 .. 0 PROVE f[i] = IF i = 0 THEN Start ELSE Fed(f[i - 1], recs[i])
    BY <2>1
  <2>4. f = [i \in 0 .. 0 |-> IF i = 0 THEN Start ELSE Fed(f[i - 1], recs[i])]
    BY <2>2, <2>3, Zenon
  <2>5. Feeds(recs, 0, f)
    BY <2>4 DEF Feeds
  <2> QED BY <1>2, <1>3, <2>5
<1>4. CASE n # 0
  <2>1. n - 1 \in Nat /\ n - 1 < n /\ n - 1 \notin Bad
    BY <1>2, <1>4
  <2>2. PICK f : Feeds(recs, n - 1, f)
    BY <2>1
  <2>3. \A i \in 0 .. n - 1 : f[i] = IF i = 0 THEN Start ELSE Fed(f[i - 1], recs[i])
    BY <2>2 DEF Feeds
  <2>4. PICK g : g = [i \in 0 .. n |-> IF i = n THEN Fed(f[n - 1], recs[n]) ELSE f[i]]
    OBVIOUS
  <2>5. /\ g = [i \in 0 .. n |-> g[i]]
        /\ \A i \in 0 .. n : g[i] = IF i = n THEN Fed(f[n - 1], recs[n]) ELSE f[i]
    BY <2>4
  <2>6. ASSUME NEW i \in 0 .. n PROVE g[i] = IF i = 0 THEN Start ELSE Fed(g[i - 1], recs[i])
    <3>1. CASE i = 0
      <4>1. i \in 0 .. n - 1 /\ i # n
        BY <3>1, <1>2, <1>4
      <4> QED BY <2>3, <2>5, <3>1, <4>1
    <3>2. CASE i # 0
      <4>1. i - 1 \in 0 .. n /\ i - 1 # n
        BY <3>2, <1>2
      <4>2. g[i - 1] = f[i - 1]
        BY <2>5, <4>1
      <4>3. CASE i = n
        BY <2>5, <3>2, <4>2, <4>3
      <4>4. CASE i # n
        <5>1. i \in 0 .. n - 1 /\ g[i] = f[i]
          BY <2>5, <4>4, <1>2
        <5> QED BY <2>3, <3>2, <4>2, <5>1
      <4> QED BY <4>3, <4>4
    <3> QED BY <3>1, <3>2
  <2>7. g = [i \in 0 .. n |-> IF i = 0 THEN Start ELSE Fed(g[i - 1], recs[i])]
    BY <2>5, <2>6, Zenon
  <2>8. Feeds(recs, n, g)
    BY <2>7 DEF Feeds
  <2> QED BY <1>2, <2>8
<1> QED BY <1>3, <1>4

\* The first n records, and one more.
Firsts(recs, n) == [i \in 1 .. n |-> recs[i]]

\* The first records are a sequence, and one more is one appended.
LEMMA FirstsIs ==
  ASSUME NEW S, NEW recs \in Seq(S), NEW n \in 1 .. Len(recs)
  PROVE  /\ Firsts(recs, n - 1) \in Seq(S) /\ recs[n] \in S
         /\ Firsts(recs, n) = Append(Firsts(recs, n - 1), recs[n])
         /\ Firsts(recs, Len(recs)) = recs
<1>0. Len(recs) \in Nat /\ n \in Nat /\ n - 1 \in Nat /\ \A i \in 1 .. Len(recs) : recs[i] \in S
  OBVIOUS
<1>1. PICK a : a = Firsts(recs, n - 1)
  OBVIOUS
<1>2. PICK b : b = Firsts(recs, n)
  OBVIOUS
<1>3. a \in Seq(S) /\ Len(a) = n - 1 /\ \A i \in 1 .. n - 1 : a[i] = recs[i]
  BY <1>0, <1>1 DEF Firsts
<1>4. b \in Seq(S) /\ Len(b) = n /\ \A i \in 1 .. n : b[i] = recs[i]
  BY <1>0, <1>2 DEF Firsts
<1>5. PICK c : c = Append(a, recs[n])
  OBVIOUS
<1>6. c \in Seq(S) /\ Len(c) = n /\ \A i \in 1 .. n : c[i] = recs[i]
  <2>1. c \in Seq(S) /\ Len(c) = Len(a) + 1 /\ c[Len(a) + 1] = recs[n] /\ \A i \in 1 .. Len(a) : c[i] = a[i]
    BY <1>0, <1>3, <1>5
  <2> QED BY <1>0, <1>3, <2>1
<1>7. b = c
  BY <1>4, <1>6
<1>8. Firsts(recs, Len(recs)) = recs
  <2>1. PICK d : d = Firsts(recs, Len(recs))
    OBVIOUS
  <2>2. d \in Seq(S) /\ Len(d) = Len(recs) /\ \A i \in 1 .. Len(recs) : d[i] = recs[i]
    BY <1>0, <2>1 DEF Firsts
  <2>3. d = recs
    BY <2>2
  <2> QED BY <2>1, <2>3
<1> QED BY <1>0, <1>1, <1>2, <1>3, <1>5, <1>7, <1>8

\* What was fed, the engine and its events: what it knows and what is earned.
KnownInv(b, fd) == EngineInv(b.engine, fd) /\ \A e \in b.events : Earned(e, fd)

\* One record more.
LEMMA FedKnown ==
  ASSUME NEW S, NEW fd \in Seq(S), NEW r \in S, NEW f, f = Append(fd, r),
         NEW b, KnownInv(b, fd), NEW c, c = Fed(b, r)
  PROVE  KnownInv(c, f)
<1>1. c.engine = Observed(b.engine, r) /\ c.events = b.events \cup Events(b.engine, r)
  BY DEF Fed
<1>2. PICK e : e = b.engine
  OBVIOUS
<1>3. EngineInv(Observed(e, r), f) /\ \A v \in Events(e, r) : Earned(v, f)
  BY <1>2, FedKnows DEF KnownInv
<1>4. \A v \in b.events : Earned(v, f)
  BY EarnedLater DEF KnownInv
<1> QED BY <1>1, <1>2, <1>3, <1>4 DEF KnownInv

\* The rebuild knows what it was fed.
LEMMA RebuiltKnown ==
  ASSUME NEW S, NEW recs \in Seq(S)
  PROVE  KnownInv(Rebuilt(recs), recs)
<1>0. Len(recs) \in Nat
  OBVIOUS
<1>1. Rebuilt(recs) = (CHOOSE f : Feeds(recs, Len(recs), f))[Len(recs)]
  BY DEF Rebuilt, Feeds, Start
<1>2. PICK f : Feeds(recs, Len(recs), f) /\ Rebuilt(recs) = f[Len(recs)]
  BY <1>0, <1>1, FeedsExists
<1>3. \A i \in 0 .. Len(recs) : f[i] = IF i = 0 THEN Start ELSE Fed(f[i - 1], recs[i])
  BY <1>2 DEF Feeds
<1> DEFINE Bad == {n \in 0 .. Len(recs) : ~ KnownInv(f[n], Firsts(recs, n))}
<1>4. ASSUME Bad # {} PROVE FALSE
  <2>1. PICK n \in Bad : \A i \in Bad : ~ (i < n)
    <3>1. Bad \in SUBSET Nat
      BY <1>0
    <3> HIDE DEF Bad
    <3> QED BY <1>4, <3>1, Smallest
  <2>2. CASE n = 0
    <3>0. 0 \in 0 .. Len(recs)
      BY <1>0
    <3>3. f[0] = Start
      BY <1>3, <3>0
    <3>1. f[0] = Start /\ Start.engine = Fresh /\ Start.events = {}
      BY <3>3 DEF Start
    <3>2. Firsts(recs, 0) = <<>>
      <4>1. PICK a : a = Firsts(recs, 0)
        OBVIOUS
      <4>2. a \in Seq(S) /\ Len(a) = 0
        BY <4>1 DEF Firsts
      <4>3. a = <<>>
        BY <4>2
      <4> QED BY <4>1, <4>3
    <3> QED BY <2>1, <2>2, <3>1, <3>2, FreshKnows DEF KnownInv
  <2>3. CASE n # 0
    <3>1. n \in 1 .. Len(recs) /\ n - 1 \in 0 .. Len(recs) /\ n - 1 < n /\ n \in 0 .. Len(recs)
      BY <1>0, <2>1, <2>3
    <3>2. KnownInv(f[n - 1], Firsts(recs, n - 1))
      BY <2>1, <3>1
    <3>3. f[n] = Fed(f[n - 1], recs[n])
      BY <1>3, <2>3, <3>1
    <3>4. PICK a : a = Firsts(recs, n - 1)
      OBVIOUS
    <3>5. a \in Seq(S) /\ recs[n] \in S /\ Firsts(recs, n) = Append(a, recs[n])
      <4>1. /\ Firsts(recs, n - 1) \in Seq(S) /\ recs[n] \in S
            /\ Firsts(recs, n) = Append(Firsts(recs, n - 1), recs[n])
        BY <3>1, FirstsIs
      <4> QED BY <3>4, <4>1
    <3>7. PICK r \in S : r = recs[n]
      BY <3>5
    <3>8. PICK b : b = f[n - 1]
      OBVIOUS
    <3>9. PICK d : d = Append(a, r)
      OBVIOUS
    <3>10. KnownInv(Fed(b, r), d)
      <4>1. KnownInv(b, a)
        BY <3>2, <3>4, <3>8
      <4> QED BY <3>5, <3>9, <4>1, FedKnown
    <3>6. KnownInv(f[n], Firsts(recs, n))
      BY <3>3, <3>5, <3>7, <3>8, <3>9, <3>10
    <3> QED BY <2>1, <3>6
  <2> QED BY <2>2, <2>3
<1>5. KnownInv(f[Len(recs)], Firsts(recs, Len(recs)))
  BY <1>0, <1>4
<1>6. Firsts(recs, Len(recs)) = recs
  <2>1. CASE Len(recs) = 0
    <3>1. PICK a : a = Firsts(recs, 0)
      OBVIOUS
    <3>2. a \in Seq(S) /\ Len(a) = 0
      BY <3>1 DEF Firsts
    <3>3. a = <<>> /\ recs = <<>>
      BY <2>1, <3>2
    <3> QED BY <2>1, <3>1, <3>3
  <2>2. CASE Len(recs) # 0
    <3>1. 1 \in 1 .. Len(recs)
      BY <1>0, <2>2
    <3> QED BY <3>1, FirstsIs
  <2> QED BY <2>1, <2>2
<1> QED BY <1>2, <1>5, <1>6

------------------------------------------------------------------------------
(***************************************************************************)
(* Recordings and the shape of the state.                                  *)
(***************************************************************************)
Recording(sec, n, linked, torn, msgs) ==
  [sec |-> sec, n |-> n, linked |-> linked, torn |-> torn, msgs |-> msgs]

FileOK(f) == f = Recording(f.sec, f.n, f.linked, f.torn, f.msgs) /\ f.msgs \in Seq(Message)

\* The recordings a step makes of one.
LEMMA FileEdits ==
  ASSUME NEW f, FileOK(f), NEW torn, NEW msgs \in Seq(Message)
  PROVE  /\ FileOK([f EXCEPT !.torn = torn]) /\ [f EXCEPT !.torn = torn].torn = torn
         /\ [f EXCEPT !.torn = torn].msgs = f.msgs
         /\ FileOK([f EXCEPT !.linked = FALSE])
         /\ FileOK([f EXCEPT !.msgs = msgs]) /\ [f EXCEPT !.msgs = msgs].msgs = msgs
         /\ [f EXCEPT !.msgs = msgs].linked = f.linked
<1>1. ASSUME NEW d, d = [f EXCEPT !.torn = torn] PROVE FileOK(d) /\ d.torn = torn /\ d.msgs = f.msgs
  BY <1>1 DEF FileOK, Recording
<1>2. ASSUME NEW d, d = [f EXCEPT !.linked = FALSE] PROVE FileOK(d)
  BY <1>2 DEF FileOK, Recording
<1>3. ASSUME NEW d, d = [f EXCEPT !.msgs = msgs] PROVE FileOK(d) /\ d.msgs = msgs /\ d.linked = f.linked
  BY <1>3 DEF FileOK, Recording
<1> QED BY <1>1, <1>2, <1>3, Zenon

\* No recording, and a new one, are recordings of nothing.
LEMMA EmptyFiles ==
  /\ FileOK(NoFile) /\ NoFile.msgs = <<>>
  /\ FileOK(NewFile) /\ NewFile.msgs = <<>> /\ NewFile.linked
<1>1. FileOK(NoFile) /\ NoFile.msgs = <<>>
  BY DEF NoFile, FileOK, Recording
<1>2. PICK n : n = Suffix
  OBVIOUS
<1>3. NewFile = Recording(now, n, TRUE, FALSE, <<>>)
  BY <1>2 DEF NewFile, Recording
<1>4. FileOK(NewFile) /\ NewFile.msgs = <<>> /\ NewFile.linked
  BY <1>3 DEF FileOK, Recording
<1> QED BY <1>1, <1>4

\* What a closed recording leaves on disk.
LEMMA OnDiskIs ==
  ASSUME NEW f, FileOK(f), NEW torn, NEW D, D = OnDisk(f, torn)
  PROVE  /\ IsFiniteSet(D) /\ \A g \in D : FileOK(g)
         /\ f.linked => \E g \in D : g.torn = torn /\ g.msgs = f.msgs
<1>1. PICK d : d = [f EXCEPT !.torn = torn]
  OBVIOUS
<1>2. FileOK(d) /\ d.torn = torn /\ d.msgs = f.msgs
  BY <1>1 DEF FileOK, Recording
<1>3. D = IF f.linked THEN {d} ELSE {}
  BY <1>1, Zenon DEF OnDisk
<1>4. IsFiniteSet(D)
  BY <1>3, FS_EmptySet, FS_Singleton
<1> QED BY <1>2, <1>3, <1>4

\* What may be on disk of one that was never finished.
LEMMA TornFromIs ==
  ASSUME NEW f, FileOK(f), NEW D \in TornFrom(f)
  PROVE  IsFiniteSet(D) /\ \A g \in D : FileOK(g)
<1>0. f.msgs \in Seq(Message) /\ Len(f.msgs) \in Nat
  BY DEF FileOK
<1>1. PICK k \in 0 .. Len(f.msgs) : D = OnDisk([f EXCEPT !.msgs = SubSeq(f.msgs, 1, k)], TRUE)
  BY Zenon DEF TornFrom
<1>2. PICK p : p = SubSeq(f.msgs, 1, k)
  OBVIOUS
<1>3. p \in Seq(Message)
  <2>1. \A j \in 1 .. k : f.msgs[j] \in Message
    BY <1>0
  <2> QED BY <1>0, <1>2, <2>1
<1>4. PICK d : d = [f EXCEPT !.msgs = p]
  OBVIOUS
<1>5. FileOK(d)
  BY <1>3, <1>4, FileEdits
<1>6. D = OnDisk(d, TRUE)
  BY <1>1, <1>2, <1>4
<1> QED BY <1>5, <1>6, OnDiskIs

\* What is read of a recording is a sequence.
LEMMA ReadFileIs ==
  ASSUME NEW f, FileOK(f)
  PROVE  \E T : ReadFile(f) \in Seq(T)
<1>0. f.msgs \in Seq(Message)
  BY DEF FileOK
<1>1. CASE f.torn
  BY <1>0, <1>1 DEF ReadFile
<1>2. CASE ~f.torn
  <2>1. PICK ms : ms = f.msgs
    OBVIOUS
  <2>2. ms \in Seq(Message) /\ DOMAIN ms = 1 .. Len(ms) /\ Len(ms) \in Nat
    BY <1>0, <2>1
  <2>3. PICK at : at = [n \in 1 .. Len(ms) |-> ReadFile(f)[n]]
    OBVIOUS
  <2>4. DOMAIN ReadFile(f) = 1 .. Len(ms) /\ ReadFile(f) = [n \in DOMAIN ReadFile(f) |-> ReadFile(f)[n]]
    BY <1>2, <2>1, <2>2 DEF ReadFile
  <2>5. ReadFile(f) = at
    BY <2>3, <2>4
  <2>6. at \in Seq({at[n] : n \in 1 .. Len(ms)})
    BY <2>2, <2>3
  <2> QED BY <2>5, <2>6
<1> QED BY <1>1, <1>2

TypeOK ==
  /\ now \in Nat /\ sent \in Nat /\ traffic \in Seq(Verdicts)
  /\ handlers \in SUBSET Message /\ records \in Seq(Message) /\ pump \in Message \cup {None}
  /\ toRecorder \in Seq(Message) /\ accepted \in SUBSET Message
  /\ FileOK(open) /\ IsFiniteSet(disk) /\ \A f \in disk : FileOK(f)
  /\ \E S : feed \in Seq(S)

\* The first state.
LEMMA TypeInit ==
  ASSUME Init
  PROVE  TypeOK
<1>1. /\ now = 0 /\ sent = 0 /\ traffic \in Traffics /\ handlers = {} /\ records = <<>> /\ pump = None
      /\ toRecorder = <<>> /\ accepted = {} /\ open = NoFile /\ disk = {} /\ feed = <<>>
  BY DEF Init
<1>2. traffic \in Seq(Verdicts)
  BY <1>1, PipelineAssumption
<1>3. IsFiniteSet(disk)
  BY <1>1, FS_EmptySet
<1>4. feed \in Seq(Message)
  BY <1>1
<1> QED BY <1>1, <1>2, <1>3, <1>4, EmptyFiles DEF TypeOK

\* What is replayed is a sequence.
LEMMA ReplayedIs ==
  ASSUME TypeOK, NEW order \in ByName
  PROVE  \E T : Replayed(order) \in Seq(T)
<1>0. Cardinality(Kept) \in Nat /\ \A f \in Kept : FileOK(f)
  <2>1. Kept \in SUBSET disk
    BY DEF Kept
  <2>2. IsFiniteSet(Kept)
    BY <2>1, FS_Subset DEF TypeOK
  <2> QED BY <2>1, <2>2, FS_CardinalityType DEF TypeOK
<1>1. PICK c : c = Cardinality(Kept)
  OBVIOUS
<1>2. DOMAIN order = 1 .. c /\ c \in Nat /\ \A i \in 1 .. c : FileOK(order[i])
  BY <1>0, <1>1 DEF ByName, Orders
<1>3. PICK ss : ss = [i \in 1 .. c |-> ReadFile(order[i])]
  OBVIOUS
<1>4. PICK T : T = UNION {{ss[i][n] : n \in 1 .. Len(ss[i])} : i \in 1 .. c}
  OBVIOUS
<1>5. ASSUME NEW i \in 1 .. c PROVE ss[i] \in Seq(T)
  <2>1. PICK S : ss[i] \in Seq(S)
    BY <1>2, <1>3, <1>5, ReadFileIs
  <2>2. PICK s \in Seq(S) : s = ss[i]
    BY <2>1
  <2>3. \A n \in 1 .. Len(s) : s[n] \in T
    BY <1>4, <2>2
  <2>4. s \in Seq(T)
    BY <2>3
  <2> QED BY <2>2, <2>4
<1>6. ss \in Seq(Seq(T))
  BY <1>2, <1>3, <1>5
<1>7. Replayed(order) = FlattenSeq(ss)
  BY <1>2, <1>3 DEF Replayed
<1> QED BY <1>6, <1>7, FlattenIs

\* What a handler stamps is a message.
LEMMA HandlerStamps ==
  ASSUME TypeOK, sent < Len(traffic)
  PROVE  [id |-> sent + 1, at |-> now, model |-> traffic[sent + 1].model,
          class |-> traffic[sent + 1].class] \in Message
<1>1. traffic \in Seq(Verdicts) /\ sent \in Nat /\ now \in Nat
  BY DEF TypeOK
<1>2. sent + 1 \in 1 .. Len(traffic)
  BY <1>1
<1>3. PICK v \in Verdicts : v = traffic[sent + 1]
  BY <1>1, <1>2
<1>4. v.model \in Models \cup {None} /\ v.class \in Classes \cup {None}
  BY DEF Verdicts
<1> QED BY <1>1, <1>3, <1>4 DEF Message

\* The recording a record is written to.
LEMMA WrittenIs ==
  ASSUME TypeOK, NEW g, g = IF open = NoFile \/ OverAge THEN NewFile ELSE open,
         NEW m \in Message, NEW h, h = [g EXCEPT !.msgs = Append(@, m)]
  PROVE  /\ FileOK(g) /\ FileOK(h) /\ h.linked = g.linked
         /\ h.msgs = Append(g.msgs, m) /\ g.msgs \in Seq(Message)
         /\ g = NewFile \/ (g = open /\ open # NoFile /\ ~OverAge)
<1>1. FileOK(g) /\ (g = NewFile \/ (g = open /\ open # NoFile /\ ~OverAge))
  BY EmptyFiles DEF TypeOK
<1>2. g.msgs \in Seq(Message)
  BY <1>1 DEF FileOK
<1>3. PICK t : t = Append(g.msgs, m)
  OBVIOUS
<1>4. t \in Seq(Message)
  BY <1>2, <1>3
<1>5. PICK e : e = [g EXCEPT !.msgs = t]
  OBVIOUS
<1>6. FileOK(e) /\ e.msgs = t /\ e.linked = g.linked
  BY <1>1, <1>4, <1>5 DEF FileOK, Recording
<1>7. h = e
  BY <1>3, <1>5
<1> QED BY <1>1, <1>2, <1>3, <1>6, <1>7

\* Recordings joined by those a close leaves.
LEMMA DiskGrows ==
  ASSUME TypeOK, NEW D, IsFiniteSet(D), \A f \in D : FileOK(f), NEW E, E = disk \cup D
  PROVE  IsFiniteSet(E) /\ \A f \in E : FileOK(f)
BY FS_Union DEF TypeOK

\* Every step keeps the shape.
LEMMA TypeStep ==
  ASSUME TypeOK, [Next]_vars
  PROVE  TypeOK'
<1> USE DEF TypeOK, inputs, writer, engines
<1>0. FileOK(NoFile) /\ IsFiniteSet(OnDisk(open, FALSE)) /\ \A f \in OnDisk(open, FALSE) : FileOK(f)
  BY EmptyFiles, OnDiskIs
<1>1. ASSUME Receive PROVE TypeOK'
  <2>1. PICK m : m = [id |-> sent + 1, at |-> now, model |-> traffic[sent + 1].model,
                      class |-> traffic[sent + 1].class]
    OBVIOUS
  <2>2. m \in Message
    BY <1>1, <2>1, HandlerStamps DEF Receive
  <2>3. handlers' = handlers \cup {m} /\ sent' = sent + 1
    BY <1>1, <2>1, Zenon DEF Receive
  <2>4. UNCHANGED <<now, traffic, records, pump, toRecorder, writer, engines, accepted>>
    BY <1>1 DEF Receive
  <2> QED BY <2>2, <2>3, <2>4
<1>2. ASSUME NEW m \in handlers, Queue(m) PROVE TypeOK'
  <2>1. m \in Message
    <3>1. m \in handlers
      BY <1>2, Zenon DEF Queue
    <3>2. handlers \in SUBSET Message
      OBVIOUS
    <3> QED BY <3>1, <3>2
  <2>2. records' \in Seq(Message) /\ accepted' \in SUBSET Message
    <3>1. CASE Len(records) < QueueCap
      <4>1. records' = Append(records, m) /\ accepted' = accepted \cup {m}
        BY <1>2, <3>1, Zenon DEF Queue
      <4>2. records \in Seq(Message) /\ accepted \in SUBSET Message
        OBVIOUS
      <4>3. records' \in Seq(Message)
        BY <2>1, <4>1, <4>2
      <4>4. accepted' \in SUBSET Message
        BY <2>1, <4>1, <4>2
      <4> QED BY <4>3, <4>4
    <3>2. CASE ~(Len(records) < QueueCap)
      BY <1>2, <3>2 DEF Queue
    <3> QED BY <3>1, <3>2
  <2>3. handlers' \in SUBSET Message /\ UNCHANGED <<now, sent, traffic, pump, toRecorder, writer, engines>>
    BY <1>2 DEF Queue
  <2> QED BY <2>2, <2>3
<1>3. ASSUME PumpFeeds PROVE TypeOK'
  <2>1. Head(records) \in Message /\ Tail(records) \in Seq(Message)
    BY <1>3 DEF PumpFeeds
  <2>2. PICK S : feed \in Seq(S)
    OBVIOUS
  <2>3. feed' \in Seq(S \cup Message)
    <3>1. PICK fd \in Seq(S \cup Message) : fd = feed
      BY <2>2
    <3>2. feed' = Append(fd, Head(records))
      BY <1>3, <3>1 DEF PumpFeeds
    <3> QED BY <2>1, <3>1, <3>2
  <2>4. records' = Tail(records) /\ pump' = Head(records)
        /\ UNCHANGED <<now, sent, traffic, handlers, toRecorder, writer, accepted>>
    BY <1>3, Zenon DEF PumpFeeds
  <2>5. \E T : feed' \in Seq(T)
    BY <2>3
  <2> QED BY <2>1, <2>4, <2>5
<1>4. ASSUME PumpSends PROVE TypeOK'
  BY <1>4 DEF PumpSends
<1>5. ASSUME PumpEnds PROVE TypeOK'
  BY <1>5 DEF PumpEnds
<1>6. ASSUME NEW written \in BOOLEAN, RecorderWrites(written) PROVE TypeOK'
  <2>1. Head(toRecorder) \in Message /\ Tail(toRecorder) \in Seq(Message)
    BY <1>6 DEF RecorderWrites
  <2>2. PICK g : g = IF open = NoFile \/ OverAge THEN NewFile ELSE open
    OBVIOUS
  <2>3. PICK h : h = [g EXCEPT !.msgs = Append(@, Head(toRecorder))]
    OBVIOUS
  <2>4. FileOK(g) /\ FileOK(h)
    BY <2>1, <2>2, <2>3, WrittenIs
  <2>5. open' = IF written THEN h ELSE g
    BY <1>6, <2>2, <2>3, Zenon DEF RecorderWrites
  <2>6. disk' = IF OverAge THEN disk \cup OnDisk(open, FALSE) ELSE disk
    BY <1>6 DEF RecorderWrites
  <2>7. IsFiniteSet(disk') /\ \A f \in disk' : FileOK(f)
    BY <1>0, <2>6, DiskGrows
  <2>8. toRecorder' = Tail(toRecorder)
        /\ UNCHANGED <<now, sent, traffic, handlers, records, pump, accepted, engines>>
    BY <1>6 DEF RecorderWrites
  <2> QED BY <2>1, <2>4, <2>5, <2>7, <2>8
<1>7. ASSUME RecorderFails PROVE TypeOK'
  <2>1. toRecorder' \in Seq(Message)
    BY <1>7 DEF RecorderFails
  <2>2. disk' = IF OverAge THEN disk \cup OnDisk(open, FALSE) ELSE disk
    BY <1>7 DEF RecorderFails
  <2>3. IsFiniteSet(disk') /\ \A f \in disk' : FileOK(f)
    BY <1>0, <2>2, DiskGrows
  <2> QED BY <1>0, <1>7, <2>1, <2>3 DEF RecorderFails
<1>8. ASSUME NEW torn \in TornFrom(open), disk' = disk \cup torn
      PROVE  IsFiniteSet(disk') /\ \A f \in disk' : FileOK(f)
  BY <1>8, TornFromIs, DiskGrows
<1>9. ASSUME RecorderCloseFails PROVE TypeOK'
  <2>1. toRecorder' \in Seq(Message)
    <3>1. toRecorder' \in {toRecorder} \cup
            (IF OverAge /\ toRecorder # <<>> THEN {Tail(toRecorder)} ELSE {})
      BY <1>9, Zenon DEF RecorderCloseFails
    <3>2. CASE toRecorder # <<>>
      <4>1. Tail(toRecorder) \in Seq(Message) /\ toRecorder \in Seq(Message)
        BY <3>2, TailHolds
      <4>2. PICK t : t = Tail(toRecorder)
        OBVIOUS
      <4>3. toRecorder' \in {toRecorder, t}
        BY <3>1, <4>2
      <4> QED BY <4>1, <4>2, <4>3
    <3>3. CASE toRecorder = <<>>
      BY <3>1, <3>3
    <3> QED BY <3>2, <3>3
  <2>2. IsFiniteSet(disk') /\ \A f \in disk' : FileOK(f)
    BY <1>8, <1>9 DEF RecorderCloseFails
  <2> QED BY <1>0, <1>9, <2>1, <2>2 DEF RecorderCloseFails
<1>10. ASSUME RecorderRotates \/ RecorderEnds PROVE TypeOK'
  <2>1. disk' = disk \cup OnDisk(open, FALSE) /\ open' = NoFile
        /\ UNCHANGED <<now, traffic, inputs, pump, toRecorder, engines>>
    BY <1>10 DEF RecorderRotates, RecorderEnds
  <2>2. IsFiniteSet(disk') /\ \A f \in disk' : FileOK(f)
    BY <1>0, <2>1, DiskGrows
  <2> QED BY <1>0, <2>1, <2>2
<1>11. ASSUME PruneFiles PROVE TypeOK'
  <2>1. PICK d : d = [open EXCEPT !.linked = FALSE]
    OBVIOUS
  <2>2. FileOK(d)
    BY <2>1, FileEdits DEF FileOK
  <2>3. open' = IF open # NoFile /\ Old(open) THEN d ELSE open
    BY <1>11, <2>1, Zenon DEF PruneFiles
  <2>4. disk' \in SUBSET disk
    BY <1>11 DEF PruneFiles
  <2>5. IsFiniteSet(disk')
    BY <2>4, FS_Subset
  <2>6. UNCHANGED <<now, traffic, inputs, pump, toRecorder, engines>>
    BY <1>11 DEF PruneFiles
  <2> QED BY <2>2, <2>3, <2>4, <2>5, <2>6
<1>12. ASSUME Stop \/ CloseRecords \/ Refused \/ Exit PROVE TypeOK'
  BY <1>12 DEF Stop, CloseRecords, Refused, Exit
<1>13. ASSUME Crash PROVE TypeOK'
  <2>1. IsFiniteSet(disk') /\ \A f \in disk' : FileOK(f)
    BY <1>8, <1>13 DEF Crash
  <2> QED BY <1>0, <1>13, <2>1 DEF Crash
<1>14. ASSUME Restart PROVE TypeOK'
  <2>1. disk' \in SUBSET disk
    BY <1>14 DEF Restart, Kept
  <2>2. IsFiniteSet(disk')
    BY <2>1, FS_Subset
  <2>3. PICK order \in ByName : feed' = Replayed(order)
    BY <1>14, Zenon DEF Restart
  <2>4. \E T : feed' \in Seq(T)
    BY <2>3, ReplayedIs
  <2>5. /\ handlers' = {} /\ records' = <<>> /\ accepted' = {} /\ pump' = None /\ toRecorder' = <<>>
        /\ open' = NoFile /\ UNCHANGED <<now, traffic, sent>>
    BY <1>14 DEF Restart
  <2> QED BY <1>0, <2>1, <2>2, <2>4, <2>5
<1>15. ASSUME Advance PROVE TypeOK'
  BY <1>15 DEF Advance
<1>16. CASE UNCHANGED vars
  BY <1>16 DEF vars
<1> QED
  BY <1>1, <1>2, <1>3, <1>4, <1>5, <1>6, <1>7, <1>9, <1>10, <1>11, <1>12, <1>13, <1>14, <1>15, <1>16
  DEF Next, Handlers, Pump, Recorder

\* What one more record makes of what was fed.
LEMMA FeedGrows ==
  ASSUME TypeOK, PumpFeeds
  PROVE  \E S : /\ feed \in Seq(S) /\ Head(records) \in S /\ feed' = Append(feed, Head(records))
                /\ Holds(feed', Head(records)) /\ \A m : Holds(feed, m) => Holds(feed', m)
<1>1. PICK S : feed \in Seq(S)
  BY DEF TypeOK
<1>2. PICK T : T = S \cup {Head(records)}
  OBVIOUS
<1>3. PICK fd \in Seq(T) : fd = feed
  BY <1>1, <1>2
<1>4. PICK r \in T : r = Head(records)
  BY <1>2
<1>5. PICK f : f = Append(fd, r)
  OBVIOUS
<1>6. Holds(f, r) /\ \A m : Holds(fd, m) => Holds(f, m)
  BY <1>5, AppendHolds
<1>7. feed' = f
  BY <1>3, <1>4, <1>5, Zenon DEF PumpFeeds
<1> QED BY <1>3, <1>4, <1>5, <1>6, <1>7

(***************************************************************************)
(* Every event is earned.                                                  *)
(***************************************************************************)
\* The engine and its events, as they stand, know what was fed.
EarnInv == EngineInv(engine, feed) /\ \A e \in events : Earned(e, feed)

\* The first state.
LEMMA EarnInit ==
  ASSUME Init
  PROVE  EarnInv
<1>1. engine = Fresh /\ feed = <<>> /\ events = {}
  BY DEF Init
<1> QED BY <1>1, FreshKnows DEF EarnInv

\* Every step keeps it: only the pump and the rebuild feed the engine.
LEMMA EarnStep ==
  ASSUME TypeOK, EarnInv, [Next]_vars
  PROVE  EarnInv'
<1>1. ASSUME PumpFeeds PROVE EarnInv'
  <2>1. PICK S : feed \in Seq(S) /\ Head(records) \in S /\ feed' = Append(feed, Head(records))
    BY <1>1, FeedGrows
  <2>2. PICK r \in S : r = Head(records)
    BY <2>1
  <2>3. PICK fd \in Seq(S) : fd = feed
    BY <2>1
  <2>4. PICK f : f = Append(fd, r)
    OBVIOUS
  <2>5. PICK b : b = [engine |-> engine, events |-> events]
    OBVIOUS
  <2>6. b.engine = engine /\ b.events = events
    BY <2>5
  <2>7. KnownInv(b, fd)
    BY <2>3, <2>6 DEF KnownInv, EarnInv
  <2>8. PICK c : c = Fed(b, r)
    OBVIOUS
  <2>9. KnownInv(c, f)
    BY <2>4, <2>7, <2>8, FedKnown
  <2>10. feed' = f
    BY <2>1, <2>2, <2>3, <2>4
  <2>11. engine' = Observed(engine, r) /\ events' = events \cup Events(engine, r)
    BY <1>1, <2>2, Zenon DEF PumpFeeds
  <2>12. c.engine = engine' /\ c.events = events'
    BY <2>6, <2>8, <2>11 DEF Fed
  <2> QED BY <2>9, <2>10, <2>12 DEF KnownInv, EarnInv
<1>2. ASSUME Restart PROVE EarnInv'
  <2>1. PICK order \in ByName :
          /\ feed' = Replayed(order) /\ engine' = Rebuilt(Replayed(order)).engine
          /\ events' = Rebuilt(Replayed(order)).events
    BY <1>2, Zenon DEF Restart
  <2>2. PICK T : Replayed(order) \in Seq(T)
    BY ReplayedIs
  <2>3. PICK recs \in Seq(T) : recs = Replayed(order)
    BY <2>2
  <2>4. PICK b : b = Rebuilt(recs)
    OBVIOUS
  <2>5. KnownInv(b, recs)
    BY <2>4, RebuiltKnown
  <2>6. engine' = b.engine /\ events' = b.events /\ feed' = recs
    BY <2>1, <2>3, <2>4
  <2> QED BY <2>5, <2>6 DEF KnownInv, EarnInv
<1>3. ASSUME UNCHANGED engines PROVE EarnInv'
  BY <1>3 DEF EarnInv, engines
<1>4. (UNCHANGED engines) \/ PumpFeeds \/ Restart
  <2>1. CASE UNCHANGED vars
    BY <2>1 DEF vars, engines
  <2>2. CASE Next
    BY <2>2 DEF Next, Handlers, Pump, Recorder, Receive, Queue, PumpSends, PumpEnds, RecorderWrites,
      RecorderFails, RecorderEnds, RecorderRotates, RecorderCloseFails, PruneFiles, Stop, CloseRecords,
      Refused, Exit, Crash, Advance
  <2> QED BY <2>1, <2>2
<1> QED BY <1>1, <1>2, <1>3, <1>4

\* Every event the state engine starts is earned by what it was fed, live or in the
\* rebuild: a believed change by a verdict that lasted its hold, an alarm by a belief
\* that lasted (Observe and tick, states.go; Rebuild, rebuild.go).
THEOREM EventsAlwaysEarned == Spec => []EventsEarned
<1>1. Init => TypeOK /\ EarnInv
  BY TypeInit, EarnInit
<1>2. TypeOK /\ EarnInv /\ [Next]_vars => (TypeOK /\ EarnInv)'
  BY TypeStep, EarnStep
<1>3. EarnInv => EventsEarned
  BY DEF EarnInv, Earned, EventsEarned
<1> QED BY <1>1, <1>2, <1>3, PTL DEF Spec

(***************************************************************************)
(* A clean exit keeps everything.                                          *)
(***************************************************************************)
\* A closed, whole recording holds m.
Closed(m) == \E f \in disk : ~f.torn /\ Holds(f.msgs, m)

\* Where a record that was queued is: on its way to the engine or fed to it; on its
\* way to a recording or in one.
OnItsWay(m) == Holds(records, m) \/ Holds(feed, m)
Somewhere(m) ==
  Holds(records, m) \/ m = pump \/ Holds(toRecorder, m) \/ Holds(open.msgs, m) \/ Closed(m)

\* The close chain, link by link, and where what was queued is.
ChainInv ==
  /\ phase \in {"closed", "exited"} => handlers = {}
  /\ drained => phase \in {"closed", "exited"} /\ pump = None /\ records = <<>>
  /\ recorder = "done" =>
       \/ phase = "exited" /\ accepted = {}
       \/ drained /\ toRecorder = <<>> /\ open = NoFile

KeptInv ==
  /\ whole => open = NoFile \/ open.linked
  /\ \A m \in accepted : OnItsWay(m)
  /\ whole => \A m \in accepted : Somewhere(m)

\* The first state.
LEMMA KeepInit ==
  ASSUME Init
  PROVE  ChainInv /\ KeptInv
BY DEF Init, ChainInv, KeptInv

\* Every step keeps the chain.
LEMMA ChainStep ==
  ASSUME TypeOK, ChainInv, [Next]_vars
  PROVE  ChainInv'
<1> USE DEF ChainInv, inputs, writer
<1>1. ASSUME Receive PROVE ChainInv'
  BY <1>1 DEF Receive
<1>2. ASSUME NEW m \in handlers, Queue(m) PROVE ChainInv'
  BY <1>2 DEF Queue
<1>3. ASSUME PumpFeeds PROVE ChainInv'
  BY <1>3 DEF PumpFeeds
<1>4. ASSUME Alive, PumpSends PROVE ChainInv'
  BY <1>4 DEF PumpSends, Alive
<1>5. ASSUME PumpEnds PROVE ChainInv'
  BY <1>5 DEF PumpEnds
<1>6. ASSUME (\E written \in BOOLEAN : RecorderWrites(written)) \/ RecorderFails \/ RecorderCloseFails
             \/ RecorderRotates \/ RecorderEnds
      PROVE  ChainInv'
  <2>1. /\ UNCHANGED <<phase, handlers, drained, pump, records, accepted>>
        /\ recorder' # "done" \/ (drained /\ toRecorder' = <<>> /\ open' = NoFile)
    BY <1>6
    DEF RecorderWrites, RecorderFails, RecorderCloseFails, RecorderRotates, RecorderEnds, ChainInv, inputs
  <2> QED BY <2>1 DEF ChainInv
<1>7. ASSUME Alive, PruneFiles PROVE ChainInv'
  BY <1>7 DEF PruneFiles, Alive
<1>8. ASSUME Stop \/ CloseRecords \/ Refused \/ Exit PROVE ChainInv'
  BY <1>8 DEF Stop, CloseRecords, Refused, Exit
<1>9. ASSUME Crash \/ Restart PROVE ChainInv'
  BY <1>9 DEF Crash, Restart
<1>10. ASSUME Advance PROVE ChainInv'
  BY <1>10 DEF Advance
<1>11. CASE UNCHANGED vars
  BY <1>11 DEF vars
<1> QED
  BY <1>1, <1>2, <1>3, <1>4, <1>5, <1>6, <1>7, <1>8, <1>9, <1>10, <1>11
  DEF Next, Handlers, Pump, Recorder

\* Recordings are only added to, so what a closed one holds it keeps.
LEMMA ClosedGrows ==
  ASSUME disk \in SUBSET disk'
  PROVE  \A m : Closed(m) => Closed(m)'
BY DEF Closed

\* A close leaves what the open recording holds in a closed one.
LEMMA ClosedIs ==
  ASSUME TypeOK, open.linked, OnDisk(open, FALSE) \in SUBSET disk'
  PROVE  \A m : Holds(open.msgs, m) => Closed(m)'
<1>1. PICK g \in OnDisk(open, FALSE) : g.torn = FALSE /\ g.msgs = open.msgs
  BY OnDiskIs DEF TypeOK
<1>2. g \in disk'
  BY <1>1
<1>3. ASSUME NEW m, Holds(open.msgs, m) PROVE Closed(m)'
  BY <1>1, <1>2, <1>3 DEF Closed
<1> QED BY <1>3

\* Every step keeps what was queued somewhere.
LEMMA KeptStep ==
  ASSUME TypeOK, ChainInv, KeptInv, [Next]_vars
  PROVE  KeptInv'
<1>0. \A m : ~Holds(NoFile.msgs, m) /\ ~Holds(<<>>, m)
  BY EmptyFiles DEF Holds
<1>a. ASSUME accepted' = {}, open' = NoFile PROVE KeptInv'
  BY <1>a DEF KeptInv
<1>b. ASSUME UNCHANGED <<records, feed, accepted>>, whole' = FALSE PROVE KeptInv'
  BY <1>b DEF KeptInv, OnItsWay
<1>c. ASSUME UNCHANGED <<records, feed, accepted, pump, toRecorder, open, disk, whole>> PROVE KeptInv'
  BY <1>c DEF KeptInv, OnItsWay, Somewhere, Closed
<1>1. ASSUME NEW m \in handlers, Queue(m) PROVE KeptInv'
  <2>1. UNCHANGED <<feed, pump, toRecorder, open, disk, whole>>
    BY <1>1 DEF Queue, writer, engines
  <2>2. CASE Len(records) < QueueCap
    <3>1. records' = Append(records, m) /\ accepted' = accepted \cup {m}
      BY <1>1, <2>2, Zenon DEF Queue
    <3>2. m \in Message
      <4>1. m \in handlers
        BY <1>1, Zenon DEF Queue
      <4> QED BY <4>1 DEF TypeOK
    <3>3. Holds(records', m) /\ \A x : Holds(records, x) => Holds(records', x)
      BY <3>1, <3>2, AppendHolds DEF TypeOK
    <3> QED BY <2>1, <3>1, <3>3 DEF KeptInv, OnItsWay, Somewhere, Closed
  <2>3. CASE ~(Len(records) < QueueCap)
    <3>1. UNCHANGED <<records, accepted>>
      BY <1>1, <2>3 DEF Queue
    <3> QED BY <2>1, <3>1, <1>c
  <2> QED BY <2>2, <2>3
<1>2. ASSUME PumpFeeds PROVE KeptInv'
  <2>1. /\ pump = None /\ records # <<>> /\ records' = Tail(records) /\ pump' = Head(records)
        /\ UNCHANGED <<accepted, toRecorder, open, disk, whole>>
    BY <1>2, Zenon DEF PumpFeeds, writer
  <2>2. \A x : Holds(records, x) => x = Head(records) \/ Holds(records', x)
    BY <2>1, TailHolds DEF TypeOK
  <2>3. Holds(feed', Head(records)) /\ \A x : Holds(feed, x) => Holds(feed', x)
    BY <1>2, FeedGrows
  <2>4. \A x \in accepted : x # None
    BY PipelineAssumption DEF TypeOK
  <2>5. \A x \in accepted' : OnItsWay(x)'
    BY <2>1, <2>2, <2>3 DEF KeptInv, OnItsWay
  <2>6. ASSUME whole, NEW x \in accepted PROVE Somewhere(x)'
    BY <2>1, <2>2, <2>4, <2>6 DEF KeptInv, Somewhere, Closed
  <2> QED BY <2>1, <2>5, <2>6 DEF KeptInv
<1>3. ASSUME PumpSends PROVE KeptInv'
  <2>1. /\ pump # None /\ toRecorder' = Append(toRecorder, pump)
        /\ UNCHANGED <<records, feed, accepted, open, disk, whole>>
    BY <1>3 DEF PumpSends, inputs, writer, engines
  <2>2. Holds(toRecorder', pump) /\ \A x : Holds(toRecorder, x) => Holds(toRecorder', x)
    BY <2>1, AppendHolds DEF TypeOK
  <2> QED BY <2>1, <2>2 DEF KeptInv, OnItsWay, Somewhere, Closed
<1>4. ASSUME RecorderWrites(FALSE) PROVE KeptInv'
  BY <1>4, <1>b DEF RecorderWrites, inputs, engines
<1>5. ASSUME RecorderWrites(TRUE) PROVE KeptInv'
  <2>1. /\ toRecorder # <<>> /\ toRecorder' = Tail(toRecorder)
        /\ disk' = IF OverAge THEN disk \cup OnDisk(open, FALSE) ELSE disk
        /\ UNCHANGED <<records, feed, accepted, pump>>
    BY <1>5 DEF RecorderWrites, inputs, engines
  <2>0. whole' => whole
    BY <1>5, Zenon DEF RecorderWrites
  <2>2. PICK g : g = IF open = NoFile \/ OverAge THEN NewFile ELSE open
    OBVIOUS
  <2>3. PICK m : m = Head(toRecorder)
    OBVIOUS
  <2>4. m \in Message /\ \A x : Holds(toRecorder, x) => x = m \/ Holds(toRecorder', x)
    BY <2>1, <2>3, TailHolds DEF TypeOK
  <2>5. PICK h : h = [g EXCEPT !.msgs = Append(@, m)]
    OBVIOUS
  <2>6. open' = h
    BY <1>5, <2>2, <2>3, <2>5, Zenon DEF RecorderWrites
  <2>7. /\ h.linked = g.linked /\ h.msgs = Append(g.msgs, m) /\ g.msgs \in Seq(Message)
        /\ g = NewFile \/ (g = open /\ open # NoFile /\ ~OverAge)
    BY <2>2, <2>4, <2>5, WrittenIs
  <2>8. Holds(open'.msgs, m) /\ \A x : Holds(g.msgs, x) => Holds(open'.msgs, x)
    BY <2>4, <2>6, <2>7, AppendHolds
  <2>9. whole => open'.linked
    BY <2>6, <2>7, EmptyFiles DEF KeptInv
  <2>10. disk \in SUBSET disk'
    BY <2>1
  <2>11. \A x : Closed(x) => Closed(x)'
    BY <2>10, ClosedGrows
  <2>12. ASSUME whole PROVE \A x : Holds(open.msgs, x) => Holds(open'.msgs, x) \/ Closed(x)'
    <3>1. CASE open = NoFile
      BY <1>0, <3>1
    <3>2. CASE OverAge
      <4>1. open.linked /\ OnDisk(open, FALSE) \in SUBSET disk'
        BY <2>1, <2>12, <3>2 DEF KeptInv, OverAge
      <4> QED BY <4>1, ClosedIs
    <3>3. CASE open # NoFile /\ ~OverAge
      BY <2>2, <2>8, <3>3
    <3> QED BY <3>1, <3>2, <3>3
  <2>13. \A x \in accepted' : OnItsWay(x)'
    BY <2>1 DEF KeptInv, OnItsWay
  <2>14. ASSUME whole, NEW x \in accepted PROVE Somewhere(x)'
    BY <2>1, <2>4, <2>8, <2>11, <2>12, <2>14 DEF KeptInv, Somewhere
  <2> QED BY <2>0, <2>1, <2>9, <2>13, <2>14 DEF KeptInv
<1>6. ASSUME RecorderRotates \/ RecorderEnds PROVE KeptInv'
  <2>1. /\ disk' = disk \cup OnDisk(open, FALSE) /\ open' = NoFile
        /\ UNCHANGED <<records, feed, accepted, pump, toRecorder, whole>>
    BY <1>6 DEF RecorderRotates, RecorderEnds, inputs, engines
  <2>2. \A x : Closed(x) => Closed(x)'
    BY <2>1, ClosedGrows
  <2>3. ASSUME whole PROVE \A x : Holds(open.msgs, x) => Closed(x)'
    <3>1. CASE open = NoFile
      BY <1>0, <3>1
    <3>2. CASE open # NoFile
      BY <2>1, <2>3, <3>2, ClosedIs DEF KeptInv
    <3> QED BY <3>1, <3>2
  <2>4. ASSUME whole, NEW x \in accepted PROVE Somewhere(x)'
    BY <2>1, <2>2, <2>3, <2>4 DEF KeptInv, Somewhere
  <2> QED BY <2>1, <2>4 DEF KeptInv, OnItsWay
<1>7. ASSUME RecorderFails \/ RecorderCloseFails \/ PruneFiles PROVE KeptInv'
  BY <1>7, <1>b DEF RecorderFails, RecorderCloseFails, PruneFiles, inputs, engines
<1>8. ASSUME Crash \/ Restart PROVE KeptInv'
  BY <1>8, <1>a DEF Crash, Restart
<1>9. ASSUME Receive \/ PumpEnds \/ Stop \/ CloseRecords \/ Refused \/ Exit \/ Advance \/ UNCHANGED vars
      PROVE  KeptInv'
  BY <1>9, <1>c
  DEF Receive, PumpEnds, Stop, CloseRecords, Refused, Exit, Advance, vars, inputs, writer, engines
<1>10. ASSUME NEW written \in BOOLEAN, RecorderWrites(written) PROVE KeptInv'
  <2>1. written = TRUE \/ written = FALSE
    BY <1>10
  <2> QED BY <1>4, <1>5, <1>10, <2>1
<1> QED
  BY <1>1, <1>2, <1>3, <1>6, <1>7, <1>8, <1>9, <1>10 DEF Next, Handlers, Pump, Recorder

\* A shutdown the recorder finished loses nothing: every record queued has been fed
\* to the engine and is in a closed recording (the close chain of cmdRun: Run, pump,
\* Write, recErr).
THEOREM CleanExitAlwaysKeepsAll == Spec => []CleanExitKeepsAll
<1>1. Init => TypeOK /\ ChainInv /\ KeptInv
  BY TypeInit, KeepInit
<1>2. TypeOK /\ ChainInv /\ KeptInv /\ [Next]_vars => (TypeOK /\ ChainInv /\ KeptInv)'
  BY TypeStep, ChainStep, KeptStep
<1>3. TypeOK /\ ChainInv /\ KeptInv => CleanExitKeepsAll
  <2> SUFFICES ASSUME TypeOK, ChainInv, KeptInv, phase = "exited", recorder = "done", whole,
                      NEW m \in accepted
               PROVE  Holds(feed, m) /\ Closed(m)
    BY DEF CleanExitKeepsAll, Holds, Closed
  <2>1. drained /\ records = <<>> /\ pump = None /\ toRecorder = <<>> /\ open = NoFile
    BY DEF ChainInv
  <2>2. m # None
    BY PipelineAssumption DEF TypeOK
  <2>3. ~Holds(<<>>, m) /\ ~Holds(open.msgs, m)
    BY <2>1, EmptyFiles DEF Holds
  <2> QED BY <2>1, <2>2, <2>3 DEF KeptInv, OnItsWay, Somewhere
<1> QED BY <1>1, <1>2, <1>3, PTL DEF Spec

------------------------------------------------------------------------------
(***************************************************************************)
(* A rebuild remembers.                                                    *)
(***************************************************************************)
\* m was stamped before x.
Precedes(m, x) == m.id < x.id /\ m.at <= x.at

\* A sequence in the order of the stamps; everything in one before all in another.
Rising(s) == \A i, j \in 1 .. Len(s) : i < j => Precedes(s[i], s[j])
Leads(s, t) == \A m, x : Holds(s, m) /\ Holds(t, x) => Precedes(m, x)

\* Stamps have an order.
LEMMA StampsOrdered ==
  ASSUME NEW m \in Message, NEW x \in Message, NEW y \in Message
  PROVE  ~Precedes(m, m) /\ (Precedes(m, x) => ~Precedes(x, m))
         /\ (Precedes(m, x) /\ Precedes(x, y) => Precedes(m, y))
<1>1. /\ m.id \in Nat /\ m.at \in Nat /\ x.id \in Nat /\ x.at \in Nat /\ y.id \in Nat /\ y.at \in Nat
  BY DEF Message
<1> QED BY <1>1 DEF Precedes

\* t is s and x, in order if x comes after all of s.
Grown(s, x, t) ==
  /\ \A m : Holds(t, m) <=> Holds(s, m) \/ m = x
  /\ Rising(s) /\ (\A m : Holds(s, m) => Precedes(m, x)) => Rising(t)

\* One more at the end.
LEMMA AppendRises ==
  ASSUME NEW S, NEW s \in Seq(S), NEW x \in S, NEW t, t = Append(s, x)
  PROVE  t \in Seq(S) /\ Grown(s, x, t)
<1>1. /\ t \in Seq(S) /\ Len(t) = Len(s) + 1 /\ Len(s) \in Nat /\ t[Len(s) + 1] = x
      /\ \A i \in 1 .. Len(s) : t[i] = s[i]
  OBVIOUS
<1>2. PICK n \in Nat : n = Len(s)
  BY <1>1
<1>3. \A i \in 1 .. Len(t) : i \in 1 .. n \/ i = n + 1
  BY <1>1, <1>2
<1>4. \A m : Holds(t, m) => Holds(s, m) \/ m = x
  BY <1>1, <1>2, <1>3 DEF Holds
<1>5. \A m : Holds(s, m) \/ m = x => Holds(t, m)
  BY <1>1, AppendHolds
<1>6. ASSUME Rising(s), \A m : Holds(s, m) => Precedes(m, x), NEW i \in 1 .. Len(t),
             NEW j \in 1 .. Len(t), i < j
      PROVE  Precedes(t[i], t[j])
  <2>1. i \in 1 .. n
    BY <1>2, <1>3, <1>6
  <2>2. CASE j \in 1 .. n
    BY <1>1, <1>2, <1>6, <2>1, <2>2 DEF Rising
  <2>3. CASE j = n + 1
    <3>1. Holds(s, s[i])
      BY <1>2, <2>1 DEF Holds
    <3> QED BY <1>1, <1>2, <1>6, <2>1, <2>3, <3>1
  <2> QED BY <1>3, <2>2, <2>3
<1>7. Rising(s) /\ (\A m : Holds(s, m) => Precedes(m, x)) => Rising(t)
  BY <1>6 DEF Rising
<1> QED BY <1>1, <1>4, <1>5, <1>7 DEF Grown

\* Without the first.
LEMMA TailRises ==
  ASSUME NEW S, NEW s \in Seq(S), s # <<>>
  PROVE  /\ \A m : Holds(s, m) <=> m = Head(s) \/ Holds(Tail(s), m)
         /\ Rising(s) => Rising(Tail(s)) /\ \A m : Holds(Tail(s), m) => Precedes(Head(s), m)
<1>1. /\ Head(s) = s[1] /\ Tail(s) \in Seq(S) /\ Len(Tail(s)) = Len(s) - 1 /\ Len(s) \in Nat
      /\ Len(s) # 0
  OBVIOUS
<1>2. PICK t : t = Tail(s)
  OBVIOUS
<1>3. \A i \in 1 .. Len(t) : t[i] = s[i + 1]
  BY <1>2
<1>4. PICK n \in Nat : n = Len(t) /\ Len(s) = n + 1
  <2>1. Len(t) = Len(s) - 1 /\ Len(t) \in Nat
    BY <1>1, <1>2
  <2>2. PICK a, b : a = Len(t) /\ b = Len(s)
    OBVIOUS
  <2>3. a \in Nat /\ b = a + 1
    <3>1. b \in Nat /\ a \in Nat /\ a = b - 1
      BY <1>1, <2>1, <2>2
    <3> QED BY <3>1
  <2> QED BY <2>2, <2>3
<1>5. \A i \in 1 .. n : i + 1 \in 1 .. n + 1 /\ 1 < i + 1
  OBVIOUS
<1>6. \A m : Holds(t, m) => Holds(s, m)
  BY <1>3, <1>4, <1>5 DEF Holds
<1>7. Holds(s, Head(s))
  BY <1>1, <1>4 DEF Holds
<1>8. ASSUME Rising(s) PROVE Rising(t) /\ \A m : Holds(t, m) => Precedes(Head(s), m)
  <2>1. \A i, j \in 1 .. n : i < j => i + 1 < j + 1
    OBVIOUS
  <2>2. 1 \in 1 .. n + 1
    OBVIOUS
  <2> QED BY <1>1, <1>3, <1>4, <1>5, <1>8, <2>1, <2>2 DEF Rising, Holds
<1>9. \A m : Holds(s, m) => m = Head(s) \/ Holds(t, m)
  BY <1>2, TailHolds
<1> QED BY <1>2, <1>6, <1>7, <1>8, <1>9

\* t is in order if s is, and holds no more.
Trimmed(s, t) == (\A m : Holds(t, m) => Holds(s, m)) /\ (Rising(s) => Rising(t))

\* The first k.
LEMMA PrefixRises ==
  ASSUME NEW S, NEW s \in Seq(S), NEW k \in 0 .. Len(s), NEW t, t = SubSeq(s, 1, k)
  PROVE  t \in Seq(S) /\ Trimmed(s, t)
<1>1. \A i \in 1 .. k : s[i] \in S /\ i \in 1 .. Len(s)
  OBVIOUS
<1>2. t \in Seq(S) /\ Len(t) = k
  BY <1>1
<1>3. \A i \in 1 .. k : t[i] = s[i]
  BY <1>1
<1>4. \A m : Holds(t, m) => Holds(s, m)
  BY <1>1, <1>2, <1>3 DEF Holds
<1>5. Rising(s) => Rising(t)
  BY <1>1, <1>2, <1>3 DEF Rising
<1> QED BY <1>2, <1>4, <1>5 DEF Trimmed

\* Sequences that agree everywhere.
LEMMA SameSeq ==
  ASSUME NEW S, NEW s \in Seq(S), NEW t \in Seq(S), Len(s) = Len(t),
         \A i \in 1 .. Len(s) : s[i] = t[i]
  PROVE  s = t
OBVIOUS

\* A rising sequence whose messages are the last of another's is its suffix.
LEMMA SuffixIs ==
  ASSUME NEW s \in Seq(Message), NEW t \in Seq(Message), Rising(s), Rising(t),
         \A m : Holds(s, m) => Holds(t, m),
         \A m, x : Holds(s, m) /\ Holds(t, x) /\ Precedes(m, x) => Holds(s, x)
  PROVE  IsSuffix(s, t) /\ ((\A m : Holds(t, m) => Holds(s, m)) => s = t)
<1>1. PICK n \in Nat, l \in Nat : n = Len(s) /\ l = Len(t)
  OBVIOUS
<1>2. \A i \in 1 .. n : s[i] \in Message /\ Holds(s, s[i])
  BY <1>1 DEF Holds
<1>3. \A i \in 1 .. l : t[i] \in Message /\ Holds(t, t[i])
  BY <1>1 DEF Holds
<1>4. \A i, j \in 1 .. n : Precedes(s[i], s[j]) => i < j
  <2> SUFFICES ASSUME NEW i \in 1 .. n, NEW j \in 1 .. n, Precedes(s[i], s[j]), ~(i < j) PROVE FALSE
    OBVIOUS
  <2>1. CASE i = j
    BY <1>2, <2>1, StampsOrdered
  <2>2. CASE j < i
    <3>1. Precedes(s[j], s[i])
      BY <1>1, <2>2 DEF Rising
    <3> QED BY <1>2, <3>1, StampsOrdered
  <2> QED BY <2>1, <2>2
<1>5. \A i, j \in 1 .. l : Precedes(t[i], t[j]) => i < j
  <2> SUFFICES ASSUME NEW i \in 1 .. l, NEW j \in 1 .. l, Precedes(t[i], t[j]), ~(i < j) PROVE FALSE
    OBVIOUS
  <2>1. CASE i = j
    BY <1>3, <2>1, StampsOrdered
  <2>2. CASE j < i
    <3>1. Precedes(t[j], t[i])
      BY <1>1, <2>2 DEF Rising
    <3> QED BY <1>3, <3>1, StampsOrdered
  <2> QED BY <2>1, <2>2
<1> DEFINE Bad == {d \in 0 .. n - 1 : ~(d < l /\ s[n - d] = t[l - d])}
<1>6. ASSUME Bad # {} PROVE FALSE
  <2>1. PICK d \in Bad : \A e \in Bad : ~(e < d)
    <3>1. Bad \in SUBSET Nat
      OBVIOUS
    <3> HIDE DEF Bad
    <3> QED BY <1>6, <3>1, Smallest
  <2>2. d \in 0 .. n - 1 /\ n - d \in 1 .. n
    OBVIOUS
  <2>a. \A e : e < d => e \notin Bad
    <3> HIDE DEF Bad
    <3> QED BY <2>1
  <2>3. PICK k \in 1 .. l : t[k] = s[n - d]
    BY <1>1, <1>2, <2>2 DEF Holds
  <2>4. k <= l - d
    <3>1. CASE d = 0
      BY <3>1
    <3>2. CASE d # 0
      <4>1. d - 1 \in 0 .. n - 1 /\ d - 1 < d /\ d - 1 \notin Bad
        <5>1. d - 1 \in 0 .. n - 1 /\ d - 1 < d
          BY <2>2, <3>2
        <5> HIDE DEF Bad
        <5> QED BY <2>a, <5>1
      <4>2. d - 1 < l /\ s[n - (d - 1)] = t[l - (d - 1)]
        BY <4>1
      <4>3. n - (d - 1) \in 1 .. n /\ n - d < n - (d - 1)
        BY <2>2, <3>2
      <4>4. Precedes(s[n - d], s[n - (d - 1)])
        BY <1>1, <2>2, <4>3 DEF Rising
      <4>5. l - (d - 1) \in 1 .. l
        BY <4>1, <4>2
      <4>6. k < l - (d - 1)
        BY <1>5, <2>3, <4>2, <4>4, <4>5
      <4> QED BY <2>2, <2>3, <4>6
    <3> QED BY <3>1, <3>2
  <2>5. l - d \in 1 .. l
    BY <2>2, <2>3, <2>4
  <2>6. k # l - d
    <3> SUFFICES ASSUME k = l - d PROVE FALSE
      OBVIOUS
    <3>1. d < l
      BY <2>2, <2>5
    <3> QED BY <2>1, <2>3, <3>1
  <2>7. Precedes(t[k], t[l - d])
    BY <1>1, <2>4, <2>5, <2>6 DEF Rising
  <2>8. PICK j \in 1 .. n : s[j] = t[l - d]
    <3>1. Holds(s, t[l - d])
      BY <1>2, <1>3, <2>2, <2>3, <2>5, <2>7
    <3> QED BY <1>1, <3>1 DEF Holds
  <2>9. n - d < j
    BY <1>4, <2>2, <2>3, <2>7, <2>8
  <2>10. d # 0
    BY <2>8, <2>9
  <2>11. d - 1 \in 0 .. n - 1 /\ d - 1 < d /\ d - 1 \notin Bad
    <3>1. d - 1 \in 0 .. n - 1 /\ d - 1 < d
      BY <2>2, <2>10
    <3> HIDE DEF Bad
    <3> QED BY <2>a, <3>1
  <2>12. d - 1 < l /\ s[n - (d - 1)] = t[l - (d - 1)]
    BY <2>11
  <2>13. l - (d - 1) \in 1 .. l /\ l - d < l - (d - 1) /\ n - (d - 1) \in 1 .. n
    BY <2>2, <2>10, <2>11, <2>12
  <2>14. Precedes(t[l - d], t[l - (d - 1)])
    BY <1>1, <2>5, <2>13 DEF Rising
  <2>15. j < n - (d - 1)
    BY <1>4, <2>8, <2>12, <2>13, <2>14
  <2> QED BY <2>2, <2>8, <2>9, <2>15
<1>7. \A d \in 0 .. n - 1 : d < l /\ s[n - d] = t[l - d]
  BY <1>6
<1>8. n <= l
  <2>1. CASE n = 0
    BY <2>1
  <2>2. CASE n # 0
    BY <1>7, <2>2
  <2> QED BY <2>1, <2>2
<1>9. IsSuffix(s, t)
  <2>1. PICK a, b : a = Reverse(s) /\ b = Reverse(t)
    OBVIOUS
  <2>2. a = [i \in 1 .. n |-> s[(n - i) + 1]] /\ b = [i \in 1 .. l |-> t[(l - i) + 1]]
    BY <1>1, <2>1 DEF Reverse
  <2>3. a \in Seq(Message) /\ Len(a) = n
    BY <1>2, <2>2
  <2>4. b \in Seq(Message) /\ Len(b) = l
    BY <1>3, <2>2
  <2>5. ASSUME NEW i \in 1 .. n PROVE a[i] = b[i]
    <3>1. i - 1 \in 0 .. n - 1 /\ (n - i) + 1 = n - (i - 1) /\ (l - i) + 1 = l - (i - 1) /\ i \in 1 .. l
      BY <1>8
    <3>2. s[n - (i - 1)] = t[l - (i - 1)]
      BY <1>7, <3>1
    <3> QED BY <2>2, <3>1, <3>2
  <2>6. IsPrefix(a, b)
    <3> HIDE DEF Bad
    <3>1. PICK u, v : u = SubSeq(a, 1, n) /\ v = SubSeq(b, 1, n)
      OBVIOUS
    <3>2. u \in Seq(Message) /\ Len(u) = n /\ \A i \in 1 .. n : u[i] = a[i]
      <4>1. \A i \in 1 .. n : a[i] \in Message
        BY <2>3
      <4> QED BY <2>3, <3>1, <4>1
    <3>3. v \in Seq(Message) /\ Len(v) = n /\ \A i \in 1 .. n : v[i] = b[i]
      <4>1. \A i \in 1 .. n : b[i] \in Message /\ i \in 1 .. l
        BY <1>8, <2>4
      <4> QED BY <2>4, <3>1, <4>1
    <3>4. u = v
      BY <2>5, <3>2, <3>3
    <3> QED BY <1>8, <2>3, <2>4, <3>1, <3>4 DEF IsPrefix
  <2> QED BY <2>1, <2>6 DEF IsSuffix
<1>10. ASSUME \A m : Holds(t, m) => Holds(s, m) PROVE s = t
  <2>1. n = l
    <3> SUFFICES ASSUME n < l PROVE FALSE
      BY <1>8
    <3>1. 1 \in 1 .. l /\ l - n \in 1 .. l
      OBVIOUS
    <3>2. PICK j \in 1 .. n : s[j] = t[1]
      BY <1>1, <1>3, <1>10, <3>1 DEF Holds
    <3>3. n - j \in 0 .. n - 1 /\ n - (n - j) = j
      OBVIOUS
    <3>4. s[j] = t[l - (n - j)]
      BY <1>7, <3>3
    <3>5. l - (n - j) \in 1 .. l /\ 1 < l - (n - j)
      BY <3>2
    <3>6. Precedes(t[1], t[l - (n - j)])
      BY <1>1, <3>1, <3>5 DEF Rising
    <3> QED BY <1>3, <3>1, <3>2, <3>4, <3>6, StampsOrdered
  <2>2. \A i \in 1 .. n : s[i] = t[i]
    <3> TAKE i \in 1 .. n
    <3>1. n - i \in 0 .. n - 1 /\ n - (n - i) = i
      OBVIOUS
    <3> QED BY <1>7, <2>1, <3>1
  <2> QED BY <1>1, <2>1, <2>2, SameSeq
<1> QED BY <1>9, <1>10

\* What a concatenation of the first n sequences of ss holds, and in which order.
Laid(ss, n, w) ==
  /\ \A i, j \in 1 .. Len(w) : i < j =>
       \E a, b \in 1 .. n : \E k \in 1 .. Len(ss[a]), l \in 1 .. Len(ss[b]) :
         w[i] = ss[a][k] /\ w[j] = ss[b][l] /\ (a < b \/ (a = b /\ k < l))
  /\ \A m : Holds(w, m) => \E a \in 1 .. n : Holds(ss[a], m)
  /\ \A a \in 1 .. n : \A m : Holds(ss[a], m) => Holds(w, m)

\* One more sequence.
LEMMA LaidOn ==
  ASSUME NEW S, NEW ss, NEW n \in Nat \ {0}, NEW w \in Seq(S), NEW s \in Seq(S), s = ss[n],
         Laid(ss, n - 1, w), NEW v, v = w \o s
  PROVE  Laid(ss, n, v)
<1>1. PICK p \in Nat, q \in Nat : p = Len(w) /\ q = Len(s)
  OBVIOUS
<1>2. Len(v) = p + q /\ \A i \in 1 .. p + q : v[i] = IF i <= p THEN w[i] ELSE s[i - p]
  BY <1>1
<1>3. \A i \in 1 .. p : i \in 1 .. p + q /\ v[i] = w[i]
  BY <1>2
<1>4. \A i \in 1 .. q : i + p \in 1 .. p + q /\ v[i + p] = s[i]
  BY <1>2
<1>5. \A i \in 1 .. p + q : i \in 1 .. p \/ (i - p \in 1 .. q /\ (i - p) + p = i)
  OBVIOUS
<1>6. \A a \in 1 .. n - 1 : a \in 1 .. n /\ a < n
  OBVIOUS
<1>7. \A a \in 1 .. n : a \in 1 .. n - 1 \/ a = n
  OBVIOUS
<1>8. n \in 1 .. n
  OBVIOUS
<1> DEFINE Ordered(i, j) ==
             \E a, b \in 1 .. n : \E k \in 1 .. Len(ss[a]), l \in 1 .. Len(ss[b]) :
               v[i] = ss[a][k] /\ v[j] = ss[b][l] /\ (a < b \/ (a = b /\ k < l))
<1>9. ASSUME NEW i \in 1 .. p + q, NEW j \in 1 .. p + q, i < j
      PROVE  Ordered(i, j)
  <2>1. CASE j \in 1 .. p
    <3>1. i \in 1 .. p
      BY <1>9, <2>1
    <3>0. i \in 1 .. Len(w) /\ j \in 1 .. Len(w)
      BY <1>1, <2>1, <3>1
    <3>a. \E a, b \in 1 .. n - 1 : \E k \in 1 .. Len(ss[a]), l \in 1 .. Len(ss[b]) :
            w[i] = ss[a][k] /\ w[j] = ss[b][l] /\ (a < b \/ (a = b /\ k < l))
      BY <1>9, <3>0, Zenon DEF Laid
    <3>2. PICK a \in 1 .. n - 1, b \in 1 .. n - 1 : \E k \in 1 .. Len(ss[a]), l \in 1 .. Len(ss[b]) :
            w[i] = ss[a][k] /\ w[j] = ss[b][l] /\ (a < b \/ (a = b /\ k < l))
      BY <3>a
    <3>3. PICK k \in 1 .. Len(ss[a]), l \in 1 .. Len(ss[b]) :
            w[i] = ss[a][k] /\ w[j] = ss[b][l] /\ (a < b \/ (a = b /\ k < l))
      BY <3>2
    <3>4. a \in 1 .. n /\ b \in 1 .. n
      BY <1>6
    <3>5. v[i] = w[i] /\ v[j] = w[j]
      BY <1>3, <2>1, <3>1
    <3>6. v[i] = ss[a][k] /\ v[j] = ss[b][l] /\ (a < b \/ (a = b /\ k < l))
      BY <3>3, <3>5
    <3> QED BY <3>4, <3>6
  <2>2. CASE i \in 1 .. p /\ j \notin 1 .. p
    <3>1. j - p \in 1 .. q /\ v[j] = ss[n][j - p]
      BY <1>4, <1>5, <2>2
    <3>2. Holds(w, w[i])
      BY <1>1, <2>2 DEF Holds
    <3>3. PICK a \in 1 .. n - 1 : Holds(ss[a], w[i])
      BY <3>2 DEF Laid
    <3>4. PICK k \in 1 .. Len(ss[a]) : ss[a][k] = w[i]
      BY <3>3 DEF Holds
    <3> QED BY <1>1, <1>3, <1>6, <1>8, <2>2, <3>1, <3>4
  <2>3. CASE i \notin 1 .. p
    <3>1. j \notin 1 .. p
      BY <1>9, <2>3
    <3>2. i - p \in 1 .. q /\ v[i] = ss[n][i - p] /\ j - p \in 1 .. q /\ v[j] = ss[n][j - p]
      BY <1>4, <1>5, <2>3, <3>1
    <3>3. i - p < j - p
      BY <1>9
    <3> QED BY <1>1, <1>8, <3>2, <3>3
  <2> QED BY <2>1, <2>2, <2>3
<1>10. ASSUME NEW m, Holds(v, m) PROVE \E a \in 1 .. n : Holds(ss[a], m)
  <2>1. PICK i \in 1 .. p + q : v[i] = m
    BY <1>2, <1>10 DEF Holds
  <2>2. CASE i \in 1 .. p
    <3>1. Holds(w, m)
      BY <1>1, <1>3, <2>1, <2>2 DEF Holds
    <3> QED BY <1>6, <3>1 DEF Laid
  <2>3. CASE i \notin 1 .. p
    <3>1. Holds(ss[n], m)
      BY <1>1, <1>4, <1>5, <2>1, <2>3 DEF Holds
    <3> QED BY <1>8, <3>1
  <2> QED BY <2>2, <2>3
<1>11. ASSUME NEW a \in 1 .. n, NEW m, Holds(ss[a], m) PROVE Holds(v, m)
  <2>1. CASE a = n
    BY <1>1, <1>2, <1>4, <1>11, <2>1 DEF Holds
  <2>2. CASE a \in 1 .. n - 1
    <3>1. Holds(w, m)
      BY <1>11, <2>2 DEF Laid
    <3> QED BY <1>1, <1>2, <1>3, <3>1 DEF Holds
  <2> QED BY <1>7, <2>1, <2>2
<1> HIDE DEF Ordered
<1>12. \A i, j \in 1 .. Len(v) : i < j => Ordered(i, j)
  BY <1>2, <1>9
<1> QED BY <1>10, <1>11, <1>12, Zenon DEF Laid, Ordered

\* What a concatenation holds, and in which order.
LEMMA FlattenLaid ==
  ASSUME NEW S, NEW ss \in Seq(Seq(S)), NEW w, w = FlattenSeq(ss)
  PROVE  w \in Seq(S) /\ Laid(ss, Len(ss), w)
<1>0. PICK n \in Nat : n = Len(ss) /\ \A i \in 1 .. n : ss[i] \in Seq(S)
  OBVIOUS
<1>1. CASE n = 0
  <2>1. FlattenSeq(ss) = ss
    <3>1. Len(ss) = 0
      BY <1>0, <1>1
    <3> QED BY <3>1 DEF FlattenSeq
  <2>2. w = <<>> /\ Len(w) = 0
    <3>1. ss = <<>>
      <4>1. Len(ss) = 0
        BY <1>0, <1>1
      <4> QED BY <4>1
    <3> QED BY <2>1, <3>1
  <2>3. \A i \in 1 .. 0 : FALSE
    OBVIOUS
  <2> QED BY <1>0, <1>1, <2>2, <2>3 DEF Laid, Holds
<1>2. CASE n # 0
  <2>1. FlattenSeq(ss) = (CHOOSE f : Flattens(ss, n, f))[n]
    BY <1>0, <1>2 DEF FlattenSeq, Flattens
  <2>2. PICK f : Flattens(ss, n, f) /\ FlattenSeq(ss) = f[n]
    <3>1. \E f : Flattens(ss, n, f)
      BY <1>0, FlattenExists
    <3> QED BY <2>1, <3>1
  <2>3. \A i \in 1 .. n : f[i] = IF i = 1 THEN ss[i] ELSE f[i - 1] \o ss[i]
    BY <2>2 DEF Flattens
  <2> DEFINE Good(i) == f[i] \in Seq(S) /\ Laid(ss, i, f[i])
             Bad == {i \in 1 .. n : ~Good(i)}
  <2>4. ASSUME Bad # {} PROVE FALSE
    <3>1. PICK i \in Bad : \A j \in Bad : ~ (j < i)
      <4>1. Bad \in SUBSET Nat
        OBVIOUS
      <4> HIDE DEF Bad
      <4> QED BY <2>4, <4>1, Smallest
    <3>2. i \in 1 .. n /\ ~Good(i)
      OBVIOUS
    <3>a. \A j \in 1 .. n : j < i => Good(j)
      <4>1. \A j \in 1 .. n : j \notin Bad => Good(j)
        OBVIOUS
      <4> HIDE DEF Bad, Good
      <4> QED BY <3>1, <4>1
    <3>3. CASE i = 1
      <4>1. PICK s \in Seq(S) : s = ss[1] /\ f[1] = s
        BY <1>0, <2>3, <3>2, <3>3
      <4>2. 1 \in 1 .. 1 /\ \A a \in 1 .. 1 : a = 1
        OBVIOUS
      <4>3. \A k \in 1 .. Len(s) : k \in 1 .. Len(ss[1]) /\ s[k] = ss[1][k]
        BY <4>1
      <4>4. Laid(ss, 1, s)
        BY <4>1, <4>2, <4>3 DEF Laid
      <4> QED BY <3>2, <3>3, <4>1, <4>4
    <3>4. CASE i # 1
      <4>1. i - 1 \in 1 .. n /\ i - 1 < i /\ i \in Nat \ {0}
        BY <3>2, <3>4
      <4>2. Good(i - 1)
        <5> HIDE DEF Good, Bad
        <5> QED BY <3>a, <4>1
      <4>3. PICK u \in Seq(S), s \in Seq(S) : u = f[i - 1] /\ s = ss[i]
        BY <1>0, <3>2, <4>2
      <4>4. f[i] = u \o s
        BY <2>3, <3>2, <3>4, <4>3
      <4>5. Laid(ss, i, f[i])
        BY <4>1, <4>2, <4>3, <4>4, LaidOn
      <4>6. f[i] \in Seq(S)
        BY <4>3, <4>4
      <4> QED BY <3>2, <4>5, <4>6
    <3> QED BY <3>3, <3>4
  <2>5. Good(n)
    <3>1. n \in 1 .. n
      BY <1>2
    <3>2. n \notin Bad
      <4> HIDE DEF Bad
      <4> QED BY <2>4
    <3> HIDE DEF Good
    <3> QED BY <3>1, <3>2
  <2> QED BY <1>0, <2>2, <2>5
<1> QED BY <1>1, <1>2

\* The place of the i-th message in the log-time order.
Place(s, i) ==
  1 + Cardinality({k \in DOMAIN s : s[k].at < s[i].at \/ (s[k].at = s[i].at /\ k < i)})

\* A recording in the order of its stamps is read as it was written.
LEMMA ReadRising ==
  ASSUME NEW f, FileOK(f), Rising(f.msgs)
  PROVE  ReadFile(f) = f.msgs
<1>1. PICK s \in Seq(Message) : s = f.msgs
  BY DEF FileOK
<1>2. PICK n \in Nat : n = Len(s) /\ DOMAIN s = 1 .. n
  OBVIOUS
<1>3. SUFFICES ASSUME ~f.torn PROVE ReadFile(f) = s
  BY <1>1 DEF ReadFile
<1>4. ReadFile(f) = [x \in DOMAIN s |-> s[CHOOSE k \in DOMAIN s : Place(s, k) = x]]
  BY <1>1, <1>3 DEF ReadFile, Place
<1>5. \A i \in 1 .. n : s[i].at \in Nat
  <2>1. \A i \in 1 .. n : s[i] \in Message
    BY <1>2
  <2>2. \A m \in Message : m.at \in Nat
    BY DEF Message
  <2> QED BY <2>1, <2>2
<1>6. ASSUME NEW i \in 1 .. n PROVE Place(s, i) = i
  <2>1. ASSUME NEW k \in 1 .. n
        PROVE  (s[k].at < s[i].at \/ (s[k].at = s[i].at /\ k < i)) <=> k < i
    <3>1. CASE k < i
      <4>1. s[k].at <= s[i].at
        BY <1>1, <1>2, <3>1 DEF Rising, Precedes
      <4> QED BY <1>5, <3>1, <4>1
    <3>2. CASE k = i
      BY <1>5, <3>2
    <3>3. CASE i < k
      <4>1. s[i].at <= s[k].at
        BY <1>1, <1>2, <3>3 DEF Rising, Precedes
      <4> QED BY <1>5, <3>3, <4>1
    <3> QED BY <3>1, <3>2, <3>3
  <2>2. PICK B : B = {k \in DOMAIN s : s[k].at < s[i].at \/ (s[k].at = s[i].at /\ k < i)}
    OBVIOUS
  <2>3. B = 1 .. i - 1
    <3>1. \A k : k \in B <=> k \in 1 .. n /\ k < i
      BY <1>2, <2>1, <2>2
    <3>2. \A k : k \in 1 .. i - 1 <=> k \in 1 .. n /\ k < i
      OBVIOUS
    <3> QED BY <3>1, <3>2
  <2>4. Cardinality(1 .. i - 1) = IF 1 > i - 1 THEN 0 ELSE (i - 1) - 1 + 1
    BY FS_Interval
  <2>5. Place(s, i) = 1 + Cardinality(B)
    BY <2>2 DEF Place
  <2> QED BY <2>3, <2>4, <2>5
<1>7. ASSUME NEW x \in 1 .. n PROVE (CHOOSE k \in DOMAIN s : Place(s, k) = x) = x
  <2>1. PICK i : i = CHOOSE k \in DOMAIN s : Place(s, k) = x
    OBVIOUS
  <2>2. i \in 1 .. n /\ Place(s, i) = x
    <3>1. x \in DOMAIN s /\ Place(s, x) = x
      BY <1>2, <1>6
    <3> QED BY <1>2, <2>1, <3>1
  <2> QED BY <1>6, <2>1, <2>2
<1>8. PICK r : r = ReadFile(f)
  OBVIOUS
<1>9. r = [x \in 1 .. n |-> s[x]]
  BY <1>2, <1>4, <1>7, <1>8
<1>10. s = [x \in 1 .. n |-> s[x]]
  BY <1>2
<1> QED BY <1>8, <1>9, <1>10

\* The first free name exists, so a new recording has it.
LEMMA FreeSuffix ==
  ASSUME IsFiniteSet(disk)
  PROVE  /\ Suffix \in Nat
         /\ \A f \in disk : ~(f.sec = now /\ f.n = Suffix /\ f.linked)
<1> DEFINE files == disk \cup {open}
           Taken(n) == \E f \in files : f.sec = now /\ f.n = n /\ f.linked
<1>1. PICK c \in Nat : c = Cardinality(disk)
  BY FS_CardinalityType
<1>2. IsFiniteSet(files) /\ Cardinality(files) <= c + 1
  <2>1. /\ IsFiniteSet(files)
        /\ Cardinality(files) = IF open \in disk THEN Cardinality(disk) ELSE Cardinality(disk) + 1
    BY FS_AddElement, Zenon
  <2> HIDE DEF files
  <2> QED BY <1>1, <2>1
<1>3. \E n \in 0 .. c + 1 : ~Taken(n)
  <2> SUFFICES ASSUME \A n \in 0 .. c + 1 : Taken(n) PROVE FALSE
    OBVIOUS
  <2>1. PICK h : h = [n \in 0 .. c + 1 |-> CHOOSE f \in files : f.sec = now /\ f.n = n /\ f.linked]
    OBVIOUS
  <2>2. \A n \in 0 .. c + 1 : h[n] \in files /\ h[n].n = n
    BY <2>1
  <2>3. h \in Injection(0 .. c + 1, files)
    <3> HIDE DEF files
    <3>1. h \in [0 .. c + 1 -> files]
      BY <2>1, <2>2
    <3>2. \A a, b \in 0 .. c + 1 : h[a] = h[b] => a = b
      BY <2>2
    <3> QED BY <3>1, <3>2 DEF Injection, IsInjective
  <2>4. Cardinality(0 .. c + 1) <= Cardinality(files)
    <3> HIDE DEF files
    <3> QED BY <1>2, <2>3, FS_Injection
  <2>5. Cardinality(0 .. c + 1) = (IF 0 > c + 1 THEN 0 ELSE (c + 1) - 0 + 1)
    BY FS_Interval
  <2>6. Cardinality(files) \in Nat
    <3> HIDE DEF files
    <3> QED BY <1>2, FS_CardinalityType
  <2> QED BY <1>2, <2>4, <2>5, <2>6
<1>4. PICK n \in 0 .. c + 1 : ~Taken(n) /\ \A k \in 0 .. n - 1 : Taken(k)
  <2> DEFINE Free == {n \in 0 .. c + 1 : ~Taken(n)}
  <2>1. Free # {} /\ Free \in SUBSET Nat
    BY <1>3
  <2>2. PICK n \in Free : \A k \in Free : ~(k < n)
    <3> HIDE DEF Free
    <3> QED BY <2>1, Smallest
  <2>3. n \in 0 .. c + 1 /\ ~Taken(n)
    OBVIOUS
  <2>4. ASSUME NEW k \in 0 .. n - 1 PROVE Taken(k)
    <3>1. k \in 0 .. c + 1 /\ k < n
      BY <2>3
    <3>2. k \notin Free
      <4> HIDE DEF Free
      <4> QED BY <2>2, <3>1
    <3> QED BY <3>1, <3>2
  <2> QED BY <2>3, <2>4
<1>5. /\ Suffix \in 0 .. Cardinality(disk) + 1
      /\ \A f \in disk \cup {open} : ~(f.sec = now /\ f.n = Suffix /\ f.linked)
  <2>1. \E k \in 0 .. Cardinality(disk) + 1 :
          /\ \A f \in disk \cup {open} : ~(f.sec = now /\ f.n = k /\ f.linked)
          /\ \A j \in 0 .. k - 1 : \E f \in disk \cup {open} : f.sec = now /\ f.n = j /\ f.linked
    BY <1>1, <1>4
  <2> QED BY <2>1 DEF Suffix
<1> QED BY <1>1, <1>5

\* The recordings are told apart by their names, and their messages by theirs.
Row(d) ==
  /\ \A f \in d : Rising(f.msgs) /\ f.sec \in Nat /\ f.n \in Nat
  /\ \A f, g \in d : f # g => Leads(f.msgs, g.msgs) \/ Leads(g.msgs, f.msgs)
  /\ \A f, g \in d : f.sec < g.sec => Leads(f.msgs, g.msgs)

\* w is all that is kept, in the order of the stamps but for recordings of one second.
Replays(w) ==
  /\ \A m : Holds(w, m) <=> \E f \in Kept : Holds(f.msgs, m)
  /\ \A i, j \in 1 .. Len(w) : i < j =>
       \/ Precedes(w[i], w[j])
       \/ \E f, g \in Kept : f # g /\ f.sec = g.sec /\ Holds(f.msgs, w[i]) /\ Holds(g.msgs, w[j])

\* A rebuild replays that.
LEMMA ReplayedRow ==
  ASSUME TypeOK, Row(disk), NEW order \in ByName, NEW w, w = Replayed(order)
  PROVE  w \in Seq(Message) /\ Replays(w)
<1>0. /\ Kept \in SUBSET disk /\ IsFiniteSet(Kept) /\ \A f \in Kept : FileOK(f)
  <2>1. Kept \in SUBSET disk
    BY DEF Kept
  <2> QED BY <2>1, FS_Subset DEF TypeOK
<1>1. PICK c \in Nat : c = Cardinality(Kept)
  BY <1>0, FS_CardinalityType
<1>2. /\ order \in [1 .. c -> Kept]
      /\ \A i, j \in 1 .. c : i < j => NameBefore(order[i], order[j])
  <2>1. order \in [1 .. c -> Kept]
    BY <1>1 DEF ByName, Orders
  <2>2. \A i, j \in DOMAIN order : i < j => NameBefore(order[i], order[j])
    BY DEF ByName
  <2> QED BY <2>1, <2>2
<1>3. \A i \in 1 .. c : /\ order[i] \in Kept /\ FileOK(order[i]) /\ Rising(order[i].msgs)
                        /\ order[i].sec \in Nat /\ order[i].n \in Nat
  BY <1>0, <1>2 DEF Row
<1>4. ASSUME NEW i \in 1 .. c, NEW j \in 1 .. c, i < j PROVE order[i] # order[j]
  <2>1. NameBefore(order[i], order[j])
    BY <1>2, <1>4
  <2> QED BY <1>3, <2>1 DEF NameBefore
<1>5. \A f \in Kept : \E i \in 1 .. c : order[i] = f
  <2>1. \A i, j \in 1 .. c : order[i] = order[j] => i = j
    <3> SUFFICES ASSUME NEW i \in 1 .. c, NEW j \in 1 .. c, order[i] = order[j], i # j PROVE FALSE
      OBVIOUS
    <3>1. i < j \/ j < i
      OBVIOUS
    <3> QED BY <1>4, <3>1
  <2>2. order \in Injection(1 .. c, Kept)
    BY <1>2, <2>1 DEF Injection, IsInjective
  <2>3. Cardinality(1 .. c) = c
    BY FS_Interval
  <2>4. order \in Surjection(1 .. c, Kept)
    BY <1>0, <1>1, <2>2, <2>3, FS_Injection
  <2> QED BY <2>4 DEF Surjection
<1>6. PICK ss : ss = [i \in 1 .. c |-> order[i].msgs]
  OBVIOUS
<1>7. ss \in Seq(Seq(Message)) /\ Len(ss) = c
  BY <1>3, <1>6 DEF FileOK
<1>8. w = FlattenSeq(ss)
  <2>1. \A i \in 1 .. c : ReadFile(order[i]) = ss[i]
    BY <1>3, <1>6, ReadRising
  <2>2. DOMAIN order = 1 .. c
    BY <1>2
  <2>3. [i \in DOMAIN order |-> ReadFile(order[i])] = ss
    BY <1>6, <2>1, <2>2
  <2> QED BY <2>3 DEF Replayed
<1>9. w \in Seq(Message) /\ Laid(ss, c, w)
  BY <1>7, <1>8, FlattenLaid
<1> DEFINE Apart(i, j) ==
      \E a, b \in 1 .. c : \E k \in 1 .. Len(ss[a]), l \in 1 .. Len(ss[b]) :
        w[i] = ss[a][k] /\ w[j] = ss[b][l] /\ (a < b \/ (a = b /\ k < l))
<1>12. \A i, j \in 1 .. Len(w) : i < j => Apart(i, j)
  BY <1>9, Zenon DEF Laid
<1>10. ASSUME NEW m PROVE Holds(w, m) <=> \E f \in Kept : Holds(f.msgs, m)
  <2>1. ASSUME Holds(w, m) PROVE \E f \in Kept : Holds(f.msgs, m)
    <3>1. PICK a \in 1 .. c : Holds(ss[a], m)
      BY <1>9, <2>1 DEF Laid
    <3> QED BY <1>3, <1>6, <3>1
  <2>2. ASSUME NEW f \in Kept, Holds(f.msgs, m) PROVE Holds(w, m)
    <3>1. PICK i \in 1 .. c : order[i] = f
      BY <1>5
    <3>2. Holds(ss[i], m)
      BY <1>6, <2>2, <3>1
    <3> QED BY <1>9, <3>2 DEF Laid
  <2> QED BY <2>1, <2>2
<1>11. ASSUME NEW i \in 1 .. Len(w), NEW j \in 1 .. Len(w), i < j
       PROVE  \/ Precedes(w[i], w[j])
              \/ \E f, g \in Kept : f # g /\ f.sec = g.sec /\ Holds(f.msgs, w[i]) /\ Holds(g.msgs, w[j])
  <2>1. PICK a \in 1 .. c, b \in 1 .. c : \E k \in 1 .. Len(ss[a]), l \in 1 .. Len(ss[b]) :
          w[i] = ss[a][k] /\ w[j] = ss[b][l] /\ (a < b \/ (a = b /\ k < l))
    <3>1. Apart(i, j)
      <4> HIDE DEF Apart
      <4> QED BY <1>11, <1>12
    <3> QED BY <3>1
  <2>2. PICK k \in 1 .. Len(ss[a]), l \in 1 .. Len(ss[b]) :
          w[i] = ss[a][k] /\ w[j] = ss[b][l] /\ (a < b \/ (a = b /\ k < l))
    BY <2>1
  <2>3. PICK f \in Kept, g \in Kept : f = order[a] /\ g = order[b]
    BY <1>3
  <2>4. Holds(f.msgs, w[i]) /\ Holds(g.msgs, w[j])
    BY <1>6, <2>2, <2>3 DEF Holds
  <2>5. CASE a = b
    <3>1. k < l /\ Rising(ss[a])
      BY <1>3, <1>6, <2>2, <2>5
    <3> QED BY <2>2, <2>5, <3>1 DEF Rising
  <2>6. CASE a < b
    <3>1. f # g /\ NameBefore(f, g) /\ f \in disk /\ g \in disk
      BY <1>0, <1>2, <1>4, <2>3, <2>6
    <3>2. CASE f.sec = g.sec
      BY <2>4, <3>1, <3>2
    <3>3. CASE f.sec < g.sec
      BY <2>4, <3>1, <3>3 DEF Row, Leads
    <3> QED BY <3>1, <3>2, <3>3 DEF NameBefore
  <2>7. a = b \/ a < b
    BY <2>2
  <2> QED BY <2>5, <2>6, <2>7
<1> QED BY <1>9, <1>10, <1>11 DEF Replays

\* What is on its way to a recording or in the open one: o, the queue q, the pump's p.
Writing(o, q, p, m) == Holds(o.msgs, m) \/ Holds(q, m) \/ (p # None /\ m = p)

\* m and x were both replayed, from two recordings of one second if they are still there.
Scattered(d, o, q, p, m, x) ==
  /\ ~Writing(o, q, p, m) /\ ~Writing(o, q, p, x)
  /\ \A f, g \in d : Holds(f.msgs, m) /\ Holds(g.msgs, x) => f # g /\ f.sec = g.sec

\* From the recordings to the pump everything is in the order of the stamps, and was
\* fed; and so was all that was fed, but for what is scattered.
Shelved(d, o, q, p, fd, t) ==
  /\ Row(d)
  /\ Rising(o.msgs) /\ Rising(q)
  /\ Leads(o.msgs, q)
  /\ p # None => \A m : Holds(o.msgs, m) \/ Holds(q, m) => Precedes(m, p)
  /\ \A m : Writing(o, q, p, m) => Holds(fd, m)
  /\ \A f \in d : /\ f.sec <= t
                  /\ \A m : Holds(f.msgs, m) => Holds(fd, m)
                  /\ \A m, x : Holds(f.msgs, m) /\ Writing(o, q, p, x) => Precedes(m, x)
  /\ o # NoFile => o.sec \in Nat /\ o.sec <= t /\ o.n \in Nat /\ \A f \in d : f.sec <= o.sec
  /\ \A i, j \in 1 .. Len(fd) : i < j => Precedes(fd[i], fd[j]) \/ Scattered(d, o, q, p, fd[i], fd[j])

\* What a recording leaves on disk when it is closed.
Leaves(o, D) ==
  \A g \in D : /\ o # NoFile /\ g.sec = o.sec /\ g.n = o.n /\ Rising(g.msgs)
               /\ \A m : Holds(g.msgs, m) => Holds(o.msgs, m)
               /\ \A h \in D : g = h

\* record.go: a file that is closed, or torn by a crash after its last record, leaves
\* what it held.
LEMMA OnDiskLeaves ==
  ASSUME NEW o, FileOK(o), Rising(o.msgs), NEW torn, NEW D, D = OnDisk(o, torn)
  PROVE  Leaves(o, D)
<1>1. PICK d : d = [o EXCEPT !.torn = torn]
  OBVIOUS
<1>2. d.sec = o.sec /\ d.n = o.n /\ d.msgs = o.msgs
  BY <1>1 DEF FileOK, Recording
<1>3. D = IF o.linked THEN {d} ELSE {}
  BY <1>1, Zenon DEF OnDisk
<1>4. o.linked => o # NoFile
  BY DEF NoFile
<1> QED BY <1>2, <1>3, <1>4 DEF Leaves

\* A crash that tears a file leaves a beginning of it.
LEMMA TornLeaves ==
  ASSUME NEW o, FileOK(o), Rising(o.msgs), NEW D \in TornFrom(o)
  PROVE  Leaves(o, D)
<1>0. o.msgs \in Seq(Message)
  BY DEF FileOK
<1>1. PICK k \in 0 .. Len(o.msgs) : D = OnDisk([o EXCEPT !.msgs = SubSeq(o.msgs, 1, k)], TRUE)
  BY Zenon DEF TornFrom
<1>2. PICK s : s = SubSeq(o.msgs, 1, k)
  OBVIOUS
<1>3. s \in Seq(Message) /\ Rising(s) /\ \A m : Holds(s, m) => Holds(o.msgs, m)
  <2>1. s \in Seq(Message) /\ Trimmed(o.msgs, s)
    BY <1>0, <1>2, PrefixRises
  <2> QED BY <2>1 DEF Trimmed
<1>4. PICK e : e = [o EXCEPT !.msgs = s]
  OBVIOUS
<1>5. e.sec = o.sec /\ e.n = o.n /\ e.msgs = s /\ e.linked = o.linked /\ FileOK(e)
  BY <1>3, <1>4 DEF FileOK, Recording
<1>6. D = OnDisk(e, TRUE)
  BY <1>1, <1>2, <1>4
<1>7. Leaves(e, D)
  BY <1>3, <1>5, <1>6, OnDiskLeaves
<1>8. D # {} => o # NoFile
  <2>1. D # {} => e.linked
    BY <1>6 DEF OnDisk
  <2> QED BY <1>5, <2>1 DEF NoFile
<1> QED BY <1>3, <1>5, <1>7, <1>8 DEF Leaves

\* Less on its way.
LEMMA ShelvedLess ==
  ASSUME NEW d, NEW o, NEW q, NEW p, NEW fd, NEW t, Shelved(d, o, q, p, fd, t),
         NEW q2, Rising(q2), \A m : Holds(q2, m) => Holds(q, m), NEW p2 \in {p, None}
  PROVE  Shelved(d, o, q2, p2, fd, t)
<1>1. \A m : Writing(o, q2, p2, m) => Writing(o, q, p, m)
  BY DEF Writing
<1>2. \A m, x : Scattered(d, o, q, p, m, x) => Scattered(d, o, q2, p2, m, x)
  BY <1>1 DEF Scattered
<1>3. /\ Row(d) /\ Rising(o.msgs) /\ Leads(o.msgs, q2)
      /\ p2 # None => \A m : Holds(o.msgs, m) \/ Holds(q2, m) => Precedes(m, p2)
  BY DEF Shelved, Leads
<1>4. \A f \in d : /\ f.sec <= t
                   /\ \A m : Holds(f.msgs, m) => Holds(fd, m)
                   /\ \A m, x : Holds(f.msgs, m) /\ Writing(o, q2, p2, x) => Precedes(m, x)
  BY <1>1 DEF Shelved
<1>5. o # NoFile => o.sec \in Nat /\ o.sec <= t /\ o.n \in Nat /\ \A f \in d : f.sec <= o.sec
  BY DEF Shelved
<1>6. \A i, j \in 1 .. Len(fd) :
        i < j => Precedes(fd[i], fd[j]) \/ Scattered(d, o, q2, p2, fd[i], fd[j])
  BY <1>2 DEF Shelved
<1>7. \A m : Writing(o, q2, p2, m) => Holds(fd, m)
  BY <1>1 DEF Shelved
<1> QED BY <1>3, <1>4, <1>5, <1>6, <1>7 DEF Shelved

\* The open recording is closed.
LEMMA ShelvedClosed ==
  ASSUME NEW d, NEW o, NEW q, NEW p, NEW fd, NEW t, Shelved(d, o, q, p, fd, t),
         NEW D, Leaves(o, D), NEW e, e = d \cup D
  PROVE  Shelved(e, NoFile, q, p, fd, t)
<1>0. \A m : ~Holds(NoFile.msgs, m)
  BY EmptyFiles DEF Holds
<1>1. \A m : Writing(NoFile, q, p, m) => Writing(o, q, p, m)
  BY <1>0 DEF Writing
<1>2. \A g \in D : \A m : Holds(g.msgs, m) => Writing(o, q, p, m)
  BY DEF Leaves, Writing
<1>3. \A m, x : Scattered(d, o, q, p, m, x) => Scattered(e, NoFile, q, p, m, x)
  BY <1>1, <1>2 DEF Scattered
<1>4. \A f \in d, g \in D : Leads(f.msgs, g.msgs) /\ f.sec <= g.sec
  BY <1>2 DEF Shelved, Leads, Leaves
<1>5. \A g \in D : Rising(g.msgs) /\ g.sec \in Nat /\ g.n \in Nat /\ g.sec <= t
  BY DEF Shelved, Leaves
<1>6. Row(e)
  <2>1. \A f \in e : Rising(f.msgs) /\ f.sec \in Nat /\ f.n \in Nat
    BY <1>5 DEF Shelved, Row
  <2>2. \A f, g \in e : f # g => Leads(f.msgs, g.msgs) \/ Leads(g.msgs, f.msgs)
    BY <1>4 DEF Shelved, Row, Leaves
  <2>3. ASSUME NEW f \in e, NEW g \in e, f.sec < g.sec PROVE Leads(f.msgs, g.msgs)
    <3>1. CASE f \in d /\ g \in d
      BY <2>3, <3>1 DEF Shelved, Row
    <3>2. CASE f \in d /\ g \in D
      BY <1>4, <3>2
    <3>3. CASE f \in D /\ g \in D
      BY <1>5, <2>3, <3>3 DEF Leaves
    <3>4. CASE f \in D /\ g \in d
      <4>1. g.sec <= f.sec /\ g.sec \in Nat /\ f.sec \in Nat
        BY <1>4, <1>5, <2>1, <3>4
      <4> QED BY <2>3, <4>1
    <3> QED BY <3>1, <3>2, <3>3, <3>4
  <2> QED BY <2>1, <2>2, <2>3 DEF Row
<1>7. ASSUME NEW f \in e PROVE /\ f.sec <= t
                               /\ \A m : Holds(f.msgs, m) => Holds(fd, m)
                               /\ \A m, x : Holds(f.msgs, m) /\ Writing(NoFile, q, p, x) => Precedes(m, x)
  <2>1. CASE f \in d
    BY <1>1, <2>1 DEF Shelved
  <2>2. CASE f \in D
    <3>1. \A m : Holds(f.msgs, m) => Holds(fd, m)
      BY <1>2, <2>2 DEF Shelved
    <3>2. ASSUME NEW m, NEW x, Holds(f.msgs, m), Writing(NoFile, q, p, x) PROVE Precedes(m, x)
      <4>1. Holds(o.msgs, m)
        BY <2>2, <3>2 DEF Leaves
      <4>2. Holds(q, x) \/ (p # None /\ x = p)
        BY <1>0, <3>2 DEF Writing
      <4> QED BY <4>1, <4>2 DEF Shelved, Leads
    <3> QED BY <1>5, <2>2, <3>1, <3>2
  <2> QED BY <2>1, <2>2
<1>8. /\ Rising(NoFile.msgs) /\ Rising(q) /\ Leads(NoFile.msgs, q)
      /\ p # None => \A m : Holds(NoFile.msgs, m) \/ Holds(q, m) => Precedes(m, p)
      /\ \A m : Writing(NoFile, q, p, m) => Holds(fd, m)
  <2>1. Rising(NoFile.msgs)
    BY EmptyFiles DEF Rising
  <2> QED BY <1>0, <1>1, <2>1 DEF Shelved, Leads
<1>9. \A i, j \in 1 .. Len(fd) :
        i < j => Precedes(fd[i], fd[j]) \/ Scattered(e, NoFile, q, p, fd[i], fd[j])
  BY <1>3 DEF Shelved
<1> QED BY <1>6, <1>7, <1>8, <1>9 DEF Shelved

\* A new one is opened.
LEMMA ShelvedOpened ==
  ASSUME NEW d, NEW q, NEW p, NEW fd, Shelved(d, NoFile, q, p, fd, now), now \in Nat,
         IsFiniteSet(disk), NEW o, o = NewFile
  PROVE  Shelved(d, o, q, p, fd, now)
<1>1. o.msgs = NoFile.msgs
  BY EmptyFiles
<1>2. o.sec = now /\ o.n \in Nat
  BY FreeSuffix DEF NewFile
<1>3. \A m : Writing(o, q, p, m) <=> Writing(NoFile, q, p, m)
  BY <1>1 DEF Writing
<1>4. \A m, x : Scattered(d, NoFile, q, p, m, x) <=> Scattered(d, o, q, p, m, x)
  BY <1>3 DEF Scattered
<1>5. \A f \in d : f.sec <= now
  BY DEF Shelved
<1>6. /\ Row(d) /\ Rising(o.msgs) /\ Rising(q) /\ Leads(o.msgs, q)
      /\ p # None => \A m : Holds(o.msgs, m) \/ Holds(q, m) => Precedes(m, p)
      /\ \A m : Writing(o, q, p, m) => Holds(fd, m)
  BY <1>1, <1>3 DEF Shelved
<1>7. \A f \in d : /\ \A m : Holds(f.msgs, m) => Holds(fd, m)
                   /\ \A m, x : Holds(f.msgs, m) /\ Writing(o, q, p, x) => Precedes(m, x)
  BY <1>3 DEF Shelved
<1>8. \A i, j \in 1 .. Len(fd) :
        i < j => Precedes(fd[i], fd[j]) \/ Scattered(d, o, q, p, fd[i], fd[j])
  BY <1>4 DEF Shelved
<1>9. o.sec \in Nat /\ o.sec <= now
  BY <1>2
<1> QED BY <1>2, <1>5, <1>6, <1>7, <1>8, <1>9 DEF Shelved

\* The head of the queue is written to it.
LEMMA ShelvedWritten ==
  ASSUME NEW d, NEW o, NEW q \in Seq(Message), NEW p, NEW fd, NEW t, Shelved(d, o, q, p, fd, t),
         FileOK(o), o # NoFile, q # <<>>, NEW o2, o2 = [o EXCEPT !.msgs = Append(@, Head(q))],
         NEW q2, q2 = Tail(q)
  PROVE  Shelved(d, o2, q2, p, fd, t)
<1>0. PICK s \in Seq(Message), m0 \in Message : s = o.msgs /\ m0 = Head(q)
  BY DEF FileOK
<1>1. PICK u : u = Append(s, m0)
  OBVIOUS
<1>2. o2 = [o EXCEPT !.msgs = u]
  BY <1>0, <1>1
<1>3. o2.msgs = u /\ o2.sec = o.sec /\ o2.n = o.n
  BY <1>2 DEF FileOK, Recording
<1>4. /\ \A m : Holds(u, m) <=> Holds(s, m) \/ m = m0
      /\ Rising(s) /\ (\A m : Holds(s, m) => Precedes(m, m0)) => Rising(u)
  <2>1. Grown(s, m0, u)
    BY <1>1, AppendRises
  <2> QED BY <2>1 DEF Grown
<1>5. /\ \A m : Holds(q, m) <=> m = m0 \/ Holds(q2, m)
      /\ Rising(q) => Rising(q2) /\ \A m : Holds(q2, m) => Precedes(m0, m)
  BY <1>0, TailRises
<1>6. Rising(u) /\ Rising(q2) /\ Leads(u, q2)
  BY <1>0, <1>4, <1>5 DEF Shelved, Leads
<1>7. \A m : Writing(o2, q2, p, m) <=> Writing(o, q, p, m)
  BY <1>0, <1>3, <1>4, <1>5 DEF Writing
<1>8. \A m, x : Scattered(d, o, q, p, m, x) <=> Scattered(d, o2, q2, p, m, x)
  BY <1>7 DEF Scattered
<1>9. p # None => \A m : Holds(u, m) \/ Holds(q2, m) => Precedes(m, p)
  BY <1>0, <1>4, <1>5 DEF Shelved
<1>10. \A i, j \in 1 .. Len(fd) :
         i < j => Precedes(fd[i], fd[j]) \/ Scattered(d, o2, q2, p, fd[i], fd[j])
  BY <1>8 DEF Shelved
<1>11. \A f \in d : /\ f.sec <= t
                    /\ \A m : Holds(f.msgs, m) => Holds(fd, m)
                    /\ \A m, x : Holds(f.msgs, m) /\ Writing(o2, q2, p, x) => Precedes(m, x)
  BY <1>7 DEF Shelved
<1>12. o.sec \in Nat /\ o.sec <= t /\ o.n \in Nat /\ \A f \in d : f.sec <= o.sec
  BY DEF Shelved
<1>13. Row(d) /\ \A m : Writing(o2, q2, p, m) => Holds(fd, m)
  BY <1>7 DEF Shelved
<1> QED BY <1>3, <1>6, <1>9, <1>10, <1>11, <1>12, <1>13 DEF Shelved

\* The pump takes a record stamped after all that was fed, and feeds it.
LEMMA ShelvedFed ==
  ASSUME NEW d, NEW o, NEW q, NEW fd \in Seq(Message), NEW t, Shelved(d, o, q, None, fd, t),
         NEW r \in Message, \A m : Holds(fd, m) => Precedes(m, r), NEW fd2, fd2 = Append(fd, r)
  PROVE  Shelved(d, o, q, r, fd2, t)
<1>1. \A m : Holds(fd2, m) <=> Holds(fd, m) \/ m = r
  <2>1. Grown(fd, r, fd2)
    BY AppendRises
  <2> QED BY <2>1 DEF Grown
<1>2. \A m : Writing(o, q, r, m) <=> Writing(o, q, None, m) \/ (r # None /\ m = r)
  BY DEF Writing
<1>3. \A m : Holds(fd, m) => m # r
  BY StampsOrdered
<1>4. ASSUME NEW i \in 1 .. Len(fd2), NEW j \in 1 .. Len(fd2), i < j
      PROVE  Precedes(fd2[i], fd2[j]) \/ Scattered(d, o, q, r, fd2[i], fd2[j])
  <2>1. PICK n \in Nat : n = Len(fd)
    OBVIOUS
  <2>2. Len(fd2) = n + 1 /\ fd2[n + 1] = r /\ \A k \in 1 .. n : fd2[k] = fd[k]
    BY <2>1
  <2>3. i \in 1 .. n /\ Holds(fd, fd[i])
    BY <1>4, <2>1, <2>2 DEF Holds
  <2>4. CASE j = n + 1
    BY <2>2, <2>3, <2>4
  <2>5. CASE j # n + 1
    <3>1. j \in 1 .. n /\ Holds(fd, fd[j])
      BY <2>1, <2>2, <2>5 DEF Holds
    <3>2. fd[i] # r /\ fd[j] # r
      BY <1>3, <2>3, <3>1
    <3>3. Scattered(d, o, q, None, fd[i], fd[j]) => Scattered(d, o, q, r, fd[i], fd[j])
      BY <1>2, <3>2 DEF Scattered
    <3>4. Precedes(fd[i], fd[j]) \/ Scattered(d, o, q, None, fd[i], fd[j])
      BY <1>4, <2>1, <2>3, <3>1 DEF Shelved
    <3> QED BY <2>2, <2>3, <3>1, <3>3, <3>4
  <2> QED BY <2>4, <2>5
<1>5. \A m : Writing(o, q, r, m) => Holds(fd2, m)
  BY <1>1, <1>2 DEF Shelved
<1>6. \A m : Holds(o.msgs, m) \/ Holds(q, m) => Precedes(m, r)
  <2>1. \A m : Holds(o.msgs, m) \/ Holds(q, m) => Holds(fd, m)
    BY DEF Shelved, Writing
  <2> QED BY <2>1
<1>7. \A f \in d : /\ f.sec <= t
                   /\ \A m : Holds(f.msgs, m) => Holds(fd2, m)
                   /\ \A m, x : Holds(f.msgs, m) /\ Writing(o, q, r, x) => Precedes(m, x)
  BY <1>1, <1>2 DEF Shelved
<1>8. Row(d) /\ Rising(o.msgs) /\ Rising(q) /\ Leads(o.msgs, q)
  BY DEF Shelved
<1>9. o # NoFile => o.sec \in Nat /\ o.sec <= t /\ o.n \in Nat /\ \A f \in d : f.sec <= o.sec
  BY DEF Shelved
<1> QED BY <1>4, <1>5, <1>6, <1>7, <1>8, <1>9 DEF Shelved

\* It sends it on.
LEMMA ShelvedSent ==
  ASSUME NEW d, NEW o, NEW q \in Seq(Message), NEW p \in Message, p # None, NEW fd, NEW t,
         Shelved(d, o, q, p, fd, t), NEW q2, q2 = Append(q, p)
  PROVE  Shelved(d, o, q2, None, fd, t)
<1>1. /\ \A m : Holds(q2, m) <=> Holds(q, m) \/ m = p
      /\ Rising(q) /\ (\A m : Holds(q, m) => Precedes(m, p)) => Rising(q2)
  <2>1. Grown(q, p, q2)
    BY AppendRises
  <2> QED BY <2>1 DEF Grown
<1>2. \A m : Writing(o, q2, None, m) <=> Writing(o, q, p, m)
  BY <1>1 DEF Writing
<1>3. \A m, x : Scattered(d, o, q, p, m, x) <=> Scattered(d, o, q2, None, m, x)
  BY <1>2 DEF Scattered
<1>4. Row(d) /\ Rising(o.msgs) /\ Rising(q2) /\ Leads(o.msgs, q2)
  BY <1>1 DEF Shelved, Leads
<1>5. \A i, j \in 1 .. Len(fd) :
        i < j => Precedes(fd[i], fd[j]) \/ Scattered(d, o, q2, None, fd[i], fd[j])
  BY <1>3 DEF Shelved
<1>6. \A f \in d : /\ f.sec <= t
                   /\ \A m : Holds(f.msgs, m) => Holds(fd, m)
                   /\ \A m, x : Holds(f.msgs, m) /\ Writing(o, q2, None, x) => Precedes(m, x)
  BY <1>2 DEF Shelved
<1>7. o # NoFile => o.sec \in Nat /\ o.sec <= t /\ o.n \in Nat /\ \A f \in d : f.sec <= o.sec
  BY DEF Shelved
<1>8. \A m : Writing(o, q2, None, m) => Holds(fd, m)
  BY <1>2 DEF Shelved
<1> QED BY <1>4, <1>5, <1>6, <1>7, <1>8 DEF Shelved

\* Recordings are pruned, the open one's name too; time passes.
LEMMA ShelvedPruned ==
  ASSUME NEW d, NEW o, NEW q, NEW p, NEW fd, NEW t, Shelved(d, o, q, p, fd, t),
         NEW d2 \in SUBSET d, NEW o2, o2.msgs = o.msgs, o2.sec = o.sec, o2.n = o.n,
         o2 # NoFile => o # NoFile, NEW t2 \in Nat, t \in Nat, t <= t2
  PROVE  Shelved(d2, o2, q, p, fd, t2)
<1>1. \A m : Writing(o2, q, p, m) <=> Writing(o, q, p, m)
  BY DEF Writing
<1>2. \A m, x : Scattered(d, o, q, p, m, x) => Scattered(d2, o2, q, p, m, x)
  BY <1>1 DEF Scattered
<1>3. Row(d2) /\ Rising(o2.msgs) /\ Rising(q) /\ Leads(o2.msgs, q)
  BY DEF Shelved, Row
<1>4. \A f \in d2 : f.sec \in Nat /\ f.sec <= t2
  BY DEF Shelved, Row
<1>5. \A f \in d2 : /\ \A m : Holds(f.msgs, m) => Holds(fd, m)
                    /\ \A m, x : Holds(f.msgs, m) /\ Writing(o2, q, p, x) => Precedes(m, x)
  BY <1>1 DEF Shelved
<1>6. o2 # NoFile => o2.sec \in Nat /\ o2.sec <= t2 /\ o2.n \in Nat /\ \A f \in d2 : f.sec <= o2.sec
  BY DEF Shelved
<1>7. \A i, j \in 1 .. Len(fd) :
        i < j => Precedes(fd[i], fd[j]) \/ Scattered(d2, o2, q, p, fd[i], fd[j])
  BY <1>2 DEF Shelved
<1>8. /\ p # None => \A m : Holds(o2.msgs, m) \/ Holds(q, m) => Precedes(m, p)
      /\ \A m : Writing(o2, q, p, m) => Holds(fd, m)
  BY <1>1 DEF Shelved
<1> QED BY <1>3, <1>4, <1>5, <1>6, <1>7, <1>8 DEF Shelved

\* A message's stamp is behind the counter and the clock.
Stamped(m) == m.id <= sent /\ m.at <= now

\* In front of the pump: one handler at a time, and a queue in the order of the stamps,
\* all of them after what was fed.
Queued ==
  /\ feed \in Seq(Message)
  /\ \A m, x \in handlers : m = x
  /\ Rising(records) /\ Leads(feed, records)
  /\ \A m \in handlers : \A x : Holds(feed, x) \/ Holds(records, x) => Precedes(x, m)
  /\ \A m : m \in handlers \/ Holds(records, m) \/ Holds(feed, m) => m \in Message /\ Stamped(m)

RowInv ==
  ~reorder => Queued /\ Shelved(disk, open, toRecorder, pump, feed, now)

\* While nothing was lost, all that was fed is still somewhere, and a process that
\* ended had written it all.
WholeInv ==
  ~reorder /\ whole =>
    /\ recorder \in {"running", "done"} /\ (phase = "exited" => recorder = "done")
    /\ recorder = "done" => drained /\ toRecorder = <<>> /\ open = NoFile
    /\ open # NoFile => open.linked
    /\ \A m : Holds(feed, m) =>
         Writing(open, toRecorder, pump, m) \/ \E f \in disk : Holds(f.msgs, m)

\* Init: nothing is on its way and nothing on disk.
LEMMA RowInit ==
  ASSUME Init
  PROVE  RowInv /\ WholeInv
<1>1. /\ now = 0 /\ sent = 0 /\ handlers = {} /\ records = <<>> /\ pump = None /\ toRecorder = <<>>
      /\ recorder = "running" /\ open = NoFile /\ disk = {} /\ feed = <<>> /\ phase = "up"
  BY DEF Init
<1>2. feed \in Seq(Message) /\ \A m : ~Holds(feed, m) /\ ~Holds(records, m) /\ ~Holds(toRecorder, m)
  BY <1>1 DEF Holds
<1>3. \A m : ~Holds(open.msgs, m)
  BY <1>1, EmptyFiles DEF Holds
<1>4. Rising(records) /\ Rising(toRecorder) /\ Rising(open.msgs)
  BY <1>1, EmptyFiles DEF Rising
<1>5. Queued
  BY <1>1, <1>2, <1>4 DEF Queued, Leads
<1>6. \A m : ~Writing(open, toRecorder, pump, m)
  BY <1>1, <1>2, <1>3 DEF Writing
<1>7. \A i, j \in 1 .. Len(feed) : FALSE
  BY <1>1
<1>8. Shelved(disk, open, toRecorder, pump, feed, now)
  BY <1>1, <1>2, <1>3, <1>4, <1>6, <1>7 DEF Shelved, Row, Leads
<1> QED BY <1>1, <1>2, <1>5, <1>8 DEF RowInv, WholeInv

\* What is behind the handlers when nothing there moves.
LEMMA QueuedKept ==
  ASSUME Queued, UNCHANGED <<feed, records, sent>>, handlers' \in SUBSET handlers,
         now \in Nat, now' \in Nat, now <= now', TypeOK
  PROVE  Queued'
<1>1. \A m \in Message : m.at \in Nat
  BY DEF Message
<1>2. \A m \in Message : Stamped(m) => Stamped(m)'
  BY <1>1 DEF Stamped
<1> QED BY <1>2 DEF Queued

\* Every step keeps the order in front of the pump.
LEMMA QueuedStep ==
  ASSUME TypeOK, ~reorder, Queued, Next, ~Restart
  PROVE  Queued'
<1> USE DEF inputs, writer, engines
<1>0. now \in Nat /\ now <= now
  BY DEF TypeOK
<1>1. CASE Receive
  <2>1. PICK m : m = [id |-> sent + 1, at |-> now, model |-> traffic[sent + 1].model,
                      class |-> traffic[sent + 1].class]
    OBVIOUS
  <2>2. m \in Message /\ m.id = sent + 1 /\ m.at = now
    BY <1>1, <2>1, HandlerStamps DEF Receive
  <2>3. handlers' = {m} /\ sent' = sent + 1 /\ UNCHANGED <<now, records, feed>>
    <3>1. handlers = {} /\ handlers' = handlers \cup {m}
      BY <1>1, <2>1, Zenon DEF Receive
    <3> QED BY <1>1, <3>1 DEF Receive
  <2>4. \A x \in Message : x.id \in Nat /\ x.at \in Nat
    BY DEF Message
  <2>5. sent \in Nat
    BY DEF TypeOK
  <2>6. \A x : Holds(records, x) \/ Holds(feed, x) => Precedes(x, m) /\ x \in Message /\ Stamped(x)'
    BY <1>0, <2>2, <2>3, <2>4, <2>5 DEF Queued, Stamped, Precedes
  <2>7. Stamped(m)'
    BY <1>0, <2>2, <2>3, <2>5 DEF Stamped
  <2> QED BY <2>2, <2>3, <2>6, <2>7 DEF Queued
<1>2. ASSUME NEW m \in handlers, Queue(m) PROVE Queued'
  <2>1. handlers' = {} /\ UNCHANGED <<now, sent, feed>>
    BY <1>2 DEF Queue, Queued
  <2>2. CASE Len(records) < QueueCap
    <3>1. records' = Append(records, m) /\ m \in Message /\ records \in Seq(Message)
      <4>1. records' = Append(records, m)
        BY <1>2, <2>2, Zenon DEF Queue
      <4> QED BY <1>2, <4>1 DEF TypeOK
    <3>2. /\ \A x : Holds(records', x) <=> Holds(records, x) \/ x = m
          /\ Rising(records')
      <4>1. Grown(records, m, records')
        BY <3>1, AppendRises
      <4> QED BY <1>2, <4>1 DEF Grown, Queued
    <3>3. \A x : Stamped(x) <=> Stamped(x)'
      BY <2>1 DEF Stamped
    <3> QED BY <1>2, <2>1, <3>1, <3>2, <3>3 DEF Queued, Leads
  <2>3. CASE ~(Len(records) < QueueCap)
    <3>1. records' = records
      BY <1>2, <2>3 DEF Queue
    <3> QED BY <1>0, <2>1, <3>1, QueuedKept
  <2> QED BY <2>2, <2>3
<1>3. CASE PumpFeeds
  <2>1. /\ records # <<>> /\ records' = Tail(records) /\ feed' = Append(feed, Head(records))
        /\ UNCHANGED <<now, sent, handlers>>
    BY <1>3, Zenon DEF PumpFeeds
  <2>2. records \in Seq(Message) /\ Head(records) \in Message /\ feed \in Seq(Message)
    BY <2>1 DEF TypeOK, Queued
  <2>3. /\ \A x : Holds(records, x) <=> x = Head(records) \/ Holds(records', x)
        /\ Rising(records') /\ \A x : Holds(records', x) => Precedes(Head(records), x)
    BY <2>1, <2>2, TailRises DEF Queued
  <2>4. feed' \in Seq(Message) /\ \A x : Holds(feed', x) <=> Holds(feed, x) \/ x = Head(records)
    <3>1. feed' \in Seq(Message) /\ Grown(feed, Head(records), feed')
      BY <2>1, <2>2, AppendRises
    <3> QED BY <3>1 DEF Grown
  <2>5. \A x : Stamped(x) <=> Stamped(x)'
    BY <2>1 DEF Stamped
  <2> QED BY <2>1, <2>3, <2>4, <2>5 DEF Queued, Leads
<1>4. CASE Crash
  <2>1. handlers' = {} /\ records' = <<>> /\ UNCHANGED <<now, sent, feed>>
    BY <1>4 DEF Crash
  <2>2. Rising(records') /\ \A m : ~Holds(records', m)
    BY <2>1 DEF Rising, Holds
  <2>3. \A x : Stamped(x) <=> Stamped(x)'
    BY <2>1 DEF Stamped
  <2> QED BY <2>1, <2>2, <2>3 DEF Queued, Leads
<1>5. CASE Advance
  <2>1. now' = now + 1 /\ UNCHANGED <<feed, records, sent, handlers>>
    BY <1>5 DEF Advance
  <2> QED BY <1>0, <2>1, QueuedKept
<1>6. CASE UNCHANGED <<feed, records, sent, handlers, now>>
  BY <1>0, <1>6, QueuedKept
<1>7. \/ Receive \/ (\E m \in handlers : Queue(m)) \/ PumpFeeds \/ Crash \/ Advance
      \/ UNCHANGED <<feed, records, sent, handlers, now>>
  BY DEF Next, Handlers, Pump, Recorder, PumpSends, PumpEnds, RecorderWrites, RecorderFails,
    RecorderEnds, RecorderRotates, RecorderCloseFails, PruneFiles, Stop, CloseRecords, Refused, Exit
<1> QED BY <1>1, <1>2, <1>3, <1>4, <1>5, <1>6, <1>7

\* Every step but a rebuild keeps the order from the pump on.
LEMMA ShelvedStep ==
  ASSUME TypeOK, Queued, Shelved(disk, open, toRecorder, pump, feed, now), Next, ~Restart
  PROVE  Shelved(disk', open', toRecorder', pump', feed', now')
<1> USE DEF inputs, writer, engines
<1>0. /\ now \in Nat /\ now <= now /\ FileOK(open) /\ IsFiniteSet(disk) /\ toRecorder \in Seq(Message)
      /\ pump \in Message \cup {None} /\ records \in Seq(Message) /\ feed \in Seq(Message)
      /\ Rising(open.msgs) /\ Rising(toRecorder)
  BY DEF TypeOK, Queued, Shelved
<1>1. ASSUME NEW D, Leaves(open, D), NEW q, Rising(q), \A m : Holds(q, m) => Holds(toRecorder, m),
             NEW p \in {pump, None}, NEW d, d = disk \cup D
      PROVE  Shelved(d, NoFile, q, p, feed, now)
  <2>1. Shelved(d, NoFile, toRecorder, pump, feed, now)
    BY <1>1, ShelvedClosed
  <2> QED BY <1>1, <2>1, ShelvedLess
<1>2. Leaves(open, OnDisk(open, FALSE)) /\ \A D \in TornFrom(open) : Leaves(open, D)
  BY <1>0, OnDiskLeaves, TornLeaves
<1>3. PICK t : t = Tail(toRecorder)
  OBVIOUS
<1>4. toRecorder # <<>> => Rising(t) /\ \A m : Holds(t, m) => Holds(toRecorder, m)
  BY <1>0, <1>3, TailRises
<1>5. Leaves(open, {})
  BY DEF Leaves
<1>6. PICK d : d = IF OverAge THEN disk \cup OnDisk(open, FALSE) ELSE disk
  OBVIOUS
<1>7. ASSUME NEW q, Rising(q), \A m : Holds(q, m) => Holds(toRecorder, m), OverAge \/ open = NoFile
      PROVE  Shelved(d, NoFile, q, pump, feed, now)
  <2>1. CASE OverAge
    <3>1. d = disk \cup OnDisk(open, FALSE)
      BY <1>6, <2>1
    <3> QED BY <1>1, <1>2, <1>7, <3>1
  <2>2. CASE ~OverAge
    <3>1. d = disk /\ Shelved(disk, NoFile, toRecorder, pump, feed, now)
      BY <1>6, <1>7, <2>2
    <3> QED BY <1>7, <3>1, ShelvedLess
  <2> QED BY <2>1, <2>2
<1>8. ASSUME NEW written \in BOOLEAN, RecorderWrites(written)
      PROVE  Shelved(disk', open', toRecorder', pump', feed', now')
  <2>1. /\ toRecorder # <<>> /\ toRecorder' = t /\ disk' = d /\ UNCHANGED <<pump, feed, now>>
    BY <1>3, <1>6, <1>8, Zenon DEF RecorderWrites
  <2>2. PICK g : g = IF open = NoFile \/ OverAge THEN NewFile ELSE open
    OBVIOUS
  <2>3. PICK h : h = [g EXCEPT !.msgs = Append(@, Head(toRecorder))]
    OBVIOUS
  <2>4. open' = IF written THEN h ELSE g
    BY <1>8, <2>2, <2>3, Zenon DEF RecorderWrites
  <2>5. FileOK(g) /\ g # NoFile
    <3>1. NewFile # NoFile
      <4>1. NewFile.linked # NoFile.linked
        BY EmptyFiles DEF NoFile
      <4> QED BY <4>1
    <3> QED BY <1>0, <2>2, <3>1, EmptyFiles
  <2>6. Shelved(d, g, toRecorder, pump, feed, now)
    <3>1. CASE OverAge \/ open = NoFile
      <4>1. Shelved(d, NoFile, toRecorder, pump, feed, now)
        BY <1>0, <1>7, <3>1
      <4>2. g = NewFile
        BY <2>2, <3>1
      <4> QED BY <1>0, <4>1, <4>2, ShelvedOpened
    <3>2. CASE ~(OverAge \/ open = NoFile)
      BY <1>6, <2>2, <3>2
    <3> QED BY <3>1, <3>2
  <2>7. CASE written
    <3>1. Shelved(d, h, t, pump, feed, now)
      BY <1>0, <1>3, <2>1, <2>3, <2>5, <2>6, ShelvedWritten
    <3> QED BY <2>1, <2>4, <2>7, <3>1
  <2>8. CASE ~written
    <3>1. Shelved(d, g, t, pump, feed, now)
      BY <1>4, <2>1, <2>6, ShelvedLess
    <3> QED BY <2>1, <2>4, <2>8, <3>1
  <2> QED BY <2>7, <2>8
<1>9. CASE RecorderFails
  <2>1. /\ toRecorder # <<>> /\ toRecorder' = t /\ disk' = d /\ open' = NoFile
    BY <1>3, <1>6, <1>9, Zenon DEF RecorderFails
  <2>2. UNCHANGED <<pump, feed, now>> /\ (OverAge \/ open = NoFile)
    BY <1>9 DEF RecorderFails
  <2>3. Shelved(d, NoFile, t, pump, feed, now)
    BY <1>4, <1>7, <2>1, <2>2
  <2> QED BY <2>1, <2>2, <2>3
<1>10. CASE RecorderCloseFails
  <2>1. PICK D \in TornFrom(open) : disk' = disk \cup D
    BY <1>10, Zenon DEF RecorderCloseFails
  <2>2. open' = NoFile /\ UNCHANGED <<pump, feed, now>>
    BY <1>10 DEF RecorderCloseFails
  <2>3. toRecorder' = toRecorder \/ (toRecorder # <<>> /\ toRecorder' = t)
    <3>1. toRecorder' \in {toRecorder} \cup (IF OverAge /\ toRecorder # <<>> THEN {t} ELSE {})
      BY <1>3, <1>10, Zenon DEF RecorderCloseFails
    <3> QED BY <3>1
  <2>4. Rising(toRecorder') /\ \A m : Holds(toRecorder', m) => Holds(toRecorder, m)
    BY <1>0, <1>4, <2>3
  <2>5. PICK q, e : q = toRecorder' /\ e = disk'
    OBVIOUS
  <2>6. Shelved(e, NoFile, q, pump, feed, now)
    BY <1>1, <1>2, <2>1, <2>4, <2>5
  <2> QED BY <2>2, <2>5, <2>6
<1>11. CASE RecorderRotates \/ RecorderEnds
  <2>1. /\ disk' = disk \cup OnDisk(open, FALSE) /\ open' = NoFile
        /\ UNCHANGED <<toRecorder, pump, feed, now>>
    BY <1>11 DEF RecorderRotates, RecorderEnds
  <2>2. PICK e : e = disk'
    OBVIOUS
  <2>3. Shelved(e, NoFile, toRecorder, pump, feed, now)
    BY <1>0, <1>1, <1>2, <2>1, <2>2
  <2> QED BY <2>1, <2>2, <2>3
<1>12. CASE Crash
  <2>1. PICK D \in TornFrom(open) : disk' = disk \cup D
    BY <1>12, Zenon DEF Crash
  <2>2. open' = NoFile /\ toRecorder' = <<>> /\ pump' = None /\ UNCHANGED <<feed, now>>
    BY <1>12 DEF Crash
  <2>3. Rising(<<>>) /\ \A m : ~Holds(<<>>, m)
    BY DEF Rising, Holds
  <2>4. PICK e : e = disk'
    OBVIOUS
  <2>5. Shelved(e, NoFile, <<>>, None, feed, now)
    BY <1>1, <1>2, <2>1, <2>3, <2>4
  <2> QED BY <2>2, <2>4, <2>5
<1>13. CASE PumpFeeds
  <2>1. /\ pump = None /\ records # <<>> /\ pump' = Head(records) /\ feed' = Append(feed, Head(records))
        /\ UNCHANGED <<toRecorder, disk, open, now>>
    BY <1>13, Zenon DEF PumpFeeds
  <2>2. PICK r \in Message : r = Head(records)
    BY <1>0, <2>1, TailHolds
  <2>3. Holds(records, r)
    BY <1>0, <2>1, <2>2, TailRises
  <2>4. \A m : Holds(feed, m) => Precedes(m, r)
    BY <2>3 DEF Queued, Leads
  <2>5. PICK f : f = Append(feed, r)
    OBVIOUS
  <2>6. Shelved(disk, open, toRecorder, r, f, now)
    BY <1>0, <2>1, <2>4, <2>5, ShelvedFed
  <2> QED BY <2>1, <2>2, <2>5, <2>6
<1>14. CASE PumpSends
  <2>1. /\ pump # None /\ pump' = None /\ toRecorder' = Append(toRecorder, pump)
        /\ UNCHANGED <<disk, open, feed, now>>
    BY <1>14 DEF PumpSends
  <2>2. pump \in Message
    BY <1>0, <2>1
  <2>3. PICK q : q = Append(toRecorder, pump)
    OBVIOUS
  <2>4. Shelved(disk, open, q, None, feed, now)
    BY <1>0, <2>1, <2>2, <2>3, ShelvedSent
  <2> QED BY <2>1, <2>3, <2>4
<1>15. CASE PruneFiles
  <2>1. PICK c : c = [open EXCEPT !.linked = FALSE]
    OBVIOUS
  <2>2. c.msgs = open.msgs /\ c.sec = open.sec /\ c.n = open.n
    BY <1>0, <2>1 DEF FileOK, Recording
  <2>3. open' = (IF open # NoFile /\ Old(open) THEN c ELSE open) /\ disk' \in SUBSET disk
        /\ UNCHANGED <<toRecorder, pump, feed, now>>
    BY <1>15, <2>1, Zenon DEF PruneFiles
  <2>4. PICK o, e : o = open' /\ e = disk'
    OBVIOUS
  <2>5. o.msgs = open.msgs /\ o.sec = open.sec /\ o.n = open.n /\ (o # NoFile => open # NoFile)
    BY <2>2, <2>3, <2>4
  <2>6. Shelved(e, o, toRecorder, pump, feed, now)
    BY <1>0, <2>3, <2>4, <2>5, ShelvedPruned
  <2> QED BY <2>3, <2>4, <2>6
<1>16. CASE Advance
  <2>1. now' = now + 1 /\ UNCHANGED <<disk, open, toRecorder, pump, feed>>
    BY <1>16 DEF Advance
  <2>2. PICK n \in Nat : n = now + 1
    BY <1>0
  <2>3. Shelved(disk, open, toRecorder, pump, feed, n)
    <3>1. now <= n
      BY <1>0, <2>2
    <3> QED BY <1>0, <2>2, <3>1, ShelvedPruned
  <2> QED BY <2>1, <2>2, <2>3
<1>17. CASE UNCHANGED <<disk, open, toRecorder, pump, feed, now>>
  BY <1>17
<1>18. \/ \E written \in BOOLEAN : RecorderWrites(written)
       \/ RecorderFails \/ RecorderCloseFails \/ RecorderRotates \/ RecorderEnds \/ Crash \/ PumpFeeds
       \/ PumpSends \/ PruneFiles \/ Advance \/ UNCHANGED <<disk, open, toRecorder, pump, feed, now>>
  BY DEF Next, Handlers, Pump, Recorder, PumpEnds, Receive, Queue, Stop, CloseRecords, Refused, Exit
<1> QED BY <1>8, <1>9, <1>10, <1>11, <1>12, <1>13, <1>14, <1>15, <1>16, <1>17, <1>18

\* Messages are in one recording only.
LEMMA OneFile ==
  ASSUME NEW d, Row(d), NEW f \in d, NEW g \in d, NEW m \in Message, Holds(f.msgs, m), Holds(g.msgs, m)
  PROVE  f = g
<1> SUFFICES ASSUME f # g PROVE FALSE
  OBVIOUS
<1>1. Precedes(m, m)
  BY DEF Row, Leads
<1> QED BY <1>1, StampsOrdered

\* What a rebuild feeds is on disk, and scattered where it is out of order.
LEMMA RowRestart ==
  ASSUME TypeOK, Queued, Shelved(disk, open, toRecorder, pump, feed, now), Restart
  PROVE  Queued' /\ Shelved(disk', open', toRecorder', pump', feed', now')
<1>0. PICK order \in ByName : feed' = Replayed(order)
  BY Zenon DEF Restart
<1>1. PICK w : feed' = w /\ w = Replayed(order)
  BY <1>0
<1>2. /\ handlers' = {} /\ records' = <<>> /\ pump' = None /\ toRecorder' = <<>> /\ open' = NoFile
      /\ disk' = Kept /\ UNCHANGED <<now, sent>>
  BY DEF Restart
<1>3. Row(disk) /\ Kept \in SUBSET disk
  BY DEF Shelved, Kept
<1>4. /\ w \in Seq(Message)
      /\ \A m : Holds(w, m) <=> \E f \in Kept : Holds(f.msgs, m)
      /\ \A i, j \in 1 .. Len(w) : i < j =>
           \/ Precedes(w[i], w[j])
           \/ \E f, g \in Kept : f # g /\ f.sec = g.sec /\ Holds(f.msgs, w[i]) /\ Holds(g.msgs, w[j])
  <2>1. w \in Seq(Message) /\ Replays(w)
    BY <1>1, <1>3, ReplayedRow
  <2> QED BY <2>1, Zenon DEF Replays
<1>5. \A m : ~Holds(<<>>, m)
  BY DEF Holds
<1>6. Rising(<<>>)
  BY DEF Rising
<1>7. \A m : Holds(w, m) => Holds(feed, m)
  BY <1>3, <1>4 DEF Shelved
<1>8. Queued'
  <2>1. \A m : Stamped(m) => Stamped(m)'
    BY <1>2 DEF Stamped
  <2>2. \A m : Holds(w, m) => m \in Message /\ Stamped(m)'
    BY <1>7, <2>1 DEF Queued
  <2> QED BY <1>1, <1>2, <1>4, <1>5, <1>6, <2>2 DEF Queued, Leads
<1>9. NoFile.msgs = <<>>
  BY EmptyFiles
<1>10. \A m : ~Writing(NoFile, <<>>, None, m)
  BY <1>5, <1>9 DEF Writing
<1>11. ASSUME NEW i \in 1 .. Len(w), NEW j \in 1 .. Len(w), i < j
       PROVE  Precedes(w[i], w[j]) \/ Scattered(Kept, NoFile, <<>>, None, w[i], w[j])
  <2> SUFFICES ASSUME ~Precedes(w[i], w[j]) PROVE Scattered(Kept, NoFile, <<>>, None, w[i], w[j])
    OBVIOUS
  <2>1. PICK f \in Kept, g \in Kept :
          f # g /\ f.sec = g.sec /\ Holds(f.msgs, w[i]) /\ Holds(g.msgs, w[j])
    BY <1>4, <1>11
  <2>2. PICK m \in Message, x \in Message : m = w[i] /\ x = w[j]
    BY <1>4
  <2>3. \A e \in Kept : (Holds(e.msgs, m) => e = f) /\ (Holds(e.msgs, x) => e = g)
    BY <1>3, <2>1, <2>2, OneFile
  <2> QED BY <1>10, <2>1, <2>2, <2>3 DEF Scattered
<1>12. Row(Kept)
  BY <1>3 DEF Row
<1>13. \A f \in Kept : f.sec <= now /\ \A m : Holds(f.msgs, m) => Holds(w, m)
  BY <1>3, <1>4 DEF Shelved
<1>14. Shelved(Kept, NoFile, <<>>, None, w, now)
  BY <1>5, <1>6, <1>9, <1>10, <1>11, <1>12, <1>13 DEF Shelved, Leads
<1> QED BY <1>1, <1>2, <1>8, <1>14

\* Every step keeps the order of the stamps.
LEMMA RowStep ==
  ASSUME TypeOK, RowInv, [Next]_vars
  PROVE  RowInv'
<1>1. reorder' = reorder
  BY DEF vars, Next, Handlers, Pump, Recorder, Receive, Queue, PumpFeeds, PumpSends, PumpEnds,
    RecorderWrites, RecorderFails, RecorderEnds, RecorderRotates, RecorderCloseFails, PruneFiles, Stop,
    CloseRecords, Refused, Exit, Crash, Restart, Advance
<1>2. SUFFICES ASSUME ~reorder
               PROVE  Queued' /\ Shelved(disk', open', toRecorder', pump', feed', now')
  BY <1>1 DEF RowInv
<1>3. Queued /\ Shelved(disk, open, toRecorder, pump, feed, now)
  BY <1>2 DEF RowInv
<1>4. CASE Restart
  BY <1>3, <1>4, RowRestart
<1>5. CASE Next /\ ~Restart
  BY <1>2, <1>3, <1>5, QueuedStep, ShelvedStep
<1>6. CASE UNCHANGED vars
  <2>1. UNCHANGED <<disk, open, toRecorder, pump, feed, now, handlers, records, sent>>
    BY <1>6 DEF vars
  <2>2. now \in Nat /\ now' \in Nat /\ now <= now'
    BY <2>1 DEF TypeOK
  <2> QED BY <1>3, <2>1, <2>2, QueuedKept
<1> QED BY <1>4, <1>5, <1>6

\* What was fed is on its way to a recording, or in one.
Remains(m) == Writing(open, toRecorder, pump, m) \/ \E f \in disk : Holds(f.msgs, m)

\* It stays that way while nothing is lost.
LEMMA RemainsStep ==
  ASSUME TypeOK, Next, ~Restart, whole', open # NoFile => open.linked, NEW m, Remains(m)
  PROVE  Remains(m)'
<1> USE DEF inputs, writer, engines
<1>0. FileOK(open) /\ toRecorder \in Seq(Message) /\ pump \in Message \cup {None}
  BY DEF TypeOK
<1>1. open # NoFile => \A e : Holds(open.msgs, e) => \E f \in OnDisk(open, FALSE) : Holds(f.msgs, e)
  BY <1>0, OnDiskIs, ZenonT(60)
<1>2. NoFile.msgs = <<>> /\ \A e : ~Holds(<<>>, e)
  BY EmptyFiles DEF Holds
<1>3. CASE \E f \in disk : Holds(f.msgs, m)
  <2>1. disk \in SUBSET disk'
    BY DEF Next, Handlers, Pump, Recorder, Receive, Queue, PumpFeeds, PumpSends, PumpEnds, RecorderWrites,
      RecorderFails, RecorderEnds, RecorderRotates, RecorderCloseFails, PruneFiles, Stop, CloseRecords,
      Refused, Exit, Crash, Advance
  <2> QED BY <1>3, <2>1 DEF Remains
<1>4. SUFFICES ASSUME Writing(open, toRecorder, pump, m) PROVE Remains(m)'
  BY <1>3 DEF Remains
<1>5. ASSUME NEW written \in BOOLEAN, RecorderWrites(written) PROVE Remains(m)'
  <2>1. written /\ toRecorder # <<>> /\ toRecorder' = Tail(toRecorder) /\ pump' = pump
    BY <1>5 DEF RecorderWrites
  <2>2. PICK r \in Message, t \in Seq(Message) : r = Head(toRecorder) /\ t = Tail(toRecorder)
    BY <1>0, <2>1, TailHolds
  <2>3. Holds(toRecorder, m) => m = r \/ Holds(t, m)
    BY <1>0, <2>1, <2>2, TailHolds
  <2>4. PICK g : g = IF open = NoFile \/ OverAge THEN NewFile ELSE open
    OBVIOUS
  <2>5. PICK h : h = [g EXCEPT !.msgs = Append(@, r)]
    OBVIOUS
  <2>6. open' = h
    BY <1>5, <2>1, <2>2, <2>4, <2>5, Zenon DEF RecorderWrites
  <2>7. h.msgs = Append(g.msgs, r) /\ g.msgs \in Seq(Message)
    BY <2>4, <2>5, WrittenIs
  <2>8. PICK u, s : u = h.msgs /\ s = g.msgs /\ u = Append(s, r) /\ s \in Seq(Message)
    BY <2>7
  <2>9. Holds(u, r) /\ \A e : Holds(s, e) => Holds(u, e)
    BY <2>8, AppendHolds
  <2>10. CASE Holds(toRecorder, m) \/ (pump # None /\ m = pump)
    BY <2>1, <2>2, <2>3, <2>6, <2>8, <2>9, <2>10 DEF Remains, Writing
  <2>11. CASE Holds(open.msgs, m)
    <3>1. CASE OverAge
      <4>1. disk' = disk \cup OnDisk(open, FALSE) /\ open # NoFile
        BY <1>5, <3>1 DEF RecorderWrites, OverAge
      <4> QED BY <1>1, <2>11, <4>1 DEF Remains
    <3>2. CASE ~OverAge
      <4>1. open # NoFile
        BY <1>2, <2>11
      <4>2. g = open
        BY <2>4, <3>2, <4>1
      <4>3. Holds(u, m)
        BY <2>8, <2>9, <2>11, <4>2
      <4> QED BY <2>6, <2>8, <4>3 DEF Remains, Writing
    <3> QED BY <3>1, <3>2
  <2> QED BY <1>4, <2>10, <2>11 DEF Writing
<1>6. CASE RecorderRotates \/ RecorderEnds
  <2>1. disk' = disk \cup OnDisk(open, FALSE) /\ UNCHANGED <<toRecorder, pump>>
    BY <1>6 DEF RecorderRotates, RecorderEnds
  <2>2. CASE Holds(open.msgs, m)
    <3>1. open # NoFile
      BY <1>2, <2>2
    <3> QED BY <1>1, <2>1, <2>2, <3>1 DEF Remains
  <2>3. CASE Holds(toRecorder, m) \/ (pump # None /\ m = pump)
    BY <2>1, <2>3 DEF Remains, Writing
  <2> QED BY <1>4, <2>2, <2>3 DEF Writing
<1>7. CASE PumpFeeds
  BY <1>4, <1>7 DEF PumpFeeds, Remains, Writing
<1>8. CASE PumpSends
  <2>1. /\ pump # None /\ toRecorder' = Append(toRecorder, pump) /\ open' = open
    BY <1>8 DEF PumpSends
  <2>2. PICK q : q = Append(toRecorder, pump)
    OBVIOUS
  <2>3. Holds(q, pump) /\ \A e : Holds(toRecorder, e) => Holds(q, e)
    BY <1>0, <2>1, <2>2, AppendHolds
  <2> QED BY <1>4, <2>1, <2>2, <2>3 DEF Remains, Writing
<1>9. CASE UNCHANGED <<open, toRecorder, pump>>
  BY <1>4, <1>9 DEF Remains, Writing
<1>10. \/ \E written \in BOOLEAN : RecorderWrites(written)
       \/ RecorderRotates \/ RecorderEnds \/ PumpFeeds \/ PumpSends \/ UNCHANGED <<open, toRecorder, pump>>
  BY DEF Next, Handlers, Pump, Recorder, PumpEnds, Receive, Queue, Stop, CloseRecords, Refused, Exit,
    RecorderFails, RecorderCloseFails, PruneFiles, Crash, Advance
<1> QED BY <1>5, <1>6, <1>7, <1>8, <1>9, <1>10

\* Every step keeps WholeInv.
LEMMA WholeStep ==
  ASSUME TypeOK, ChainInv, RowInv, WholeInv, [Next]_vars
  PROVE  WholeInv'
<1> USE DEF inputs, writer, engines
<1>1. reorder' = reorder
  BY DEF vars, Next, Handlers, Pump, Recorder, Receive, Queue, PumpFeeds, PumpSends, PumpEnds,
    RecorderWrites, RecorderFails, RecorderEnds, RecorderRotates, RecorderCloseFails, PruneFiles, Stop,
    CloseRecords, Refused, Exit, Crash, Restart, Advance
<1>2. CASE Restart
  <2>1. /\ recorder' = "running" /\ phase' = "up" /\ open' = NoFile /\ disk' = Kept
    BY <1>2 DEF Restart
  <2>2. PICK order \in ByName : feed' = Replayed(order)
    BY <1>2, Zenon DEF Restart
  <2>3. PICK w : w = Replayed(order)
    OBVIOUS
  <2>4. ~reorder => Replays(w)
    BY <2>3, ReplayedRow DEF RowInv, Shelved
  <2> QED BY <1>1, <2>1, <2>2, <2>3, <2>4 DEF WholeInv, Replays
<1>3. CASE Next /\ ~Restart
  <2> SUFFICES ASSUME ~reorder, whole' PROVE WholeInv'
    BY <1>1 DEF WholeInv
  <2>1. whole
    BY <1>3 DEF Next, Handlers, Pump, Recorder, Receive, Queue, PumpFeeds, PumpSends, PumpEnds,
      RecorderWrites, RecorderFails, RecorderEnds, RecorderRotates, RecorderCloseFails, PruneFiles, Stop,
      CloseRecords, Refused, Exit, Crash, Advance
  <2>2. /\ recorder \in {"running", "done"} /\ (phase = "exited" => recorder = "done")
        /\ recorder = "done" => drained /\ toRecorder = <<>> /\ open = NoFile
        /\ open # NoFile => open.linked
        /\ \A m : Holds(feed, m) => Remains(m)
    BY <2>1 DEF WholeInv, Remains
  <2>3. recorder = "done" => pump = None /\ records = <<>>
    BY <2>2 DEF ChainInv
  <2>4. recorder' \in {"running", "done"} /\ (phase' = "exited" => recorder' = "done")
    BY <1>3, <2>2 DEF Next, Handlers, Pump, Recorder, Receive, Queue, PumpFeeds, PumpSends, PumpEnds,
      RecorderWrites, RecorderFails, RecorderEnds, RecorderRotates, RecorderCloseFails, PruneFiles, Stop,
      CloseRecords, Refused, Exit, Crash, Advance
  <2>5. recorder' = "done" => drained' /\ toRecorder' = <<>> /\ open' = NoFile
    BY <1>3, <2>2, <2>3 DEF Next, Handlers, Pump, Recorder, Receive, Queue, PumpFeeds, PumpSends, PumpEnds,
      RecorderWrites, RecorderFails, RecorderEnds, RecorderRotates, RecorderCloseFails, PruneFiles, Stop,
      CloseRecords, Refused, Exit, Crash, Advance
  <2>6. open' # NoFile => open'.linked
    <3>1. ASSUME NEW written \in BOOLEAN, RecorderWrites(written) PROVE open'.linked
      <4>1. toRecorder # <<>> /\ toRecorder \in Seq(Message)
        BY <3>1 DEF RecorderWrites, TypeOK
      <4>2. PICK r \in Message : r = Head(toRecorder)
        BY <4>1, TailHolds
      <4>3. PICK g : g = IF open = NoFile \/ OverAge THEN NewFile ELSE open
        OBVIOUS
      <4>4. PICK h : h = [g EXCEPT !.msgs = Append(@, r)]
        OBVIOUS
      <4>5. open' = IF written THEN h ELSE g
        BY <3>1, <4>2, <4>3, <4>4, Zenon DEF RecorderWrites
      <4>6. h.linked = g.linked /\ (g = NewFile \/ (g = open /\ open # NoFile))
        BY <4>3, <4>4, WrittenIs
      <4> QED BY <2>2, <4>5, <4>6, EmptyFiles
    <3>2. (\E written \in BOOLEAN : RecorderWrites(written)) \/ open' \in {open, NoFile}
      BY <1>3 DEF Next, Handlers, Pump, Recorder, Receive, Queue, PumpFeeds, PumpSends, PumpEnds,
        RecorderFails, RecorderEnds, RecorderRotates, RecorderCloseFails, PruneFiles, Stop,
        CloseRecords, Refused, Exit, Crash, Advance
    <3> QED BY <2>2, <3>1, <3>2
  <2>7. ASSUME NEW m, Holds(feed', m) PROVE Remains(m)'
    <3>1. CASE Holds(feed, m)
      BY <1>3, <2>2, <3>1, RemainsStep
    <3>2. CASE ~Holds(feed, m)
      <4>1. PumpFeeds
        <5>1. PumpFeeds \/ feed' = feed
          BY <1>3 DEF Next, Handlers, Pump, Recorder, Receive, Queue, PumpSends, PumpEnds,
            RecorderWrites, RecorderFails, RecorderEnds, RecorderRotates, RecorderCloseFails, PruneFiles,
            Stop, CloseRecords, Refused, Exit, Crash, Advance
        <5> QED BY <2>7, <3>2, <5>1
      <4>2. feed' = Append(feed, Head(records)) /\ pump' = Head(records) /\ records # <<>>
        BY <4>1 DEF PumpFeeds
      <4>3. feed \in Seq(Message) /\ Head(records) \in Message
        <5>1. records \in Seq(Message)
          BY DEF TypeOK
        <5> QED BY <4>2, <5>1, TailHolds DEF RowInv, Queued
      <4>4. PICK f : f = Append(feed, Head(records))
        OBVIOUS
      <4>5. Grown(feed, Head(records), f)
        BY <4>3, <4>4, AppendRises
      <4>6. m = Head(records)
        BY <2>7, <3>2, <4>2, <4>4, <4>5 DEF Grown
      <4>7. pump' # None
        BY <4>2, <4>3, PipelineAssumption
      <4> QED BY <4>2, <4>6, <4>7 DEF Remains, Writing
    <3> QED BY <3>1, <3>2
  <2> QED BY <2>4, <2>5, <2>6, <2>7 DEF WholeInv, Remains
<1>4. CASE UNCHANGED vars
  BY <1>4 DEF vars, WholeInv, Writing
<1> QED BY <1>2, <1>3, <1>4

\* A process that ended and lost nothing has all that it was fed on disk.
LEMMA WholeOnDisk ==
  ASSUME ChainInv, WholeInv, ~reorder, whole, phase = "exited", NEW m, Holds(feed, m)
  PROVE  \E f \in disk : Holds(f.msgs, m)
<1>1. drained /\ toRecorder = <<>> /\ open = NoFile /\ pump = None
  BY DEF WholeInv, ChainInv
<1>2. \A e : ~Holds(<<>>, e)
  BY DEF Holds
<1>3. ~Writing(open, toRecorder, pump, m)
  BY <1>1, <1>2, EmptyFiles DEF Writing
<1> QED BY <1>3 DEF WholeInv

\* A sequence is left of another that has its elements in the same order.
LEMMA LeftOfIs ==
  ASSUME NEW s \in Seq(Message), NEW t \in Seq(Message), Rising(s),
         \A m : Holds(s, m) => Holds(t, m),
         \A i, j \in 1 .. Len(t) :
           i < j /\ Holds(s, t[i]) /\ Holds(s, t[j]) => Precedes(t[i], t[j])
  PROVE  LeftOf(s, t)
<1>1. PICK n \in Nat, l \in Nat : n = Len(s) /\ l = Len(t) /\ DOMAIN s = 1 .. n /\ DOMAIN t = 1 .. l
  OBVIOUS
<1>2. PICK p : p = [i \in 1 .. n |-> CHOOSE k \in 1 .. l : t[k] = s[i]]
  OBVIOUS
<1>3. \A i \in 1 .. n : s[i] \in Message /\ Holds(s, s[i])
  BY <1>1 DEF Holds
<1>4. ASSUME NEW i \in 1 .. n PROVE p[i] \in 1 .. l /\ t[p[i]] = s[i]
  <2>1. \E k \in 1 .. l : t[k] = s[i]
    BY <1>1, <1>3 DEF Holds
  <2> QED BY <1>2, <2>1
<1>5. ASSUME NEW i \in 1 .. n, NEW j \in 1 .. n, i < j PROVE p[i] < p[j]
  <2> SUFFICES ASSUME ~(p[i] < p[j]) PROVE FALSE
    OBVIOUS
  <2>1. Precedes(s[i], s[j])
    BY <1>1, <1>5 DEF Rising
  <2>2. PICK a \in 1 .. l, b \in 1 .. l : a = p[i] /\ b = p[j] /\ t[a] = s[i] /\ t[b] = s[j]
    BY <1>4
  <2>3. CASE a = b
    BY <1>3, <2>1, <2>2, <2>3, StampsOrdered
  <2>4. CASE b < a
    <3>1. Precedes(t[b], t[a])
      BY <1>1, <1>3, <2>2, <2>4
    <3> QED BY <1>3, <2>1, <2>2, <3>1, StampsOrdered
  <2> QED BY <2>2, <2>3, <2>4
<1>6. p \in [1 .. n -> 1 .. l]
  BY <1>2, <1>4
<1>7. \A i, j \in DOMAIN s : s[i] = t[p[i]] /\ (i < j => p[i] < p[j])
  BY <1>1, <1>4, <1>5
<1> QED BY <1>1, <1>6, <1>7 DEF LeftOf

\* What a rebuild feeds is left of what the process before it was fed.
LEMMA RebuildLeaves ==
  ASSUME TypeOK, ChainInv, RowInv, WholeInv, Restart, Orderly
  PROVE  /\ LeftOf(feed', feed)
         /\ whole => IsSuffix(feed', feed)
         /\ whole /\ Kept = disk => feed' = feed
<1>1. PICK order \in ByName : feed' = Replayed(order)
  BY Zenon DEF Restart
<1>2. PICK w : w = Replayed(order)
  OBVIOUS
<1>3. ~reorder /\ (\A f, g \in disk : f.sec = g.sec => f = g) /\ phase = "exited"
  BY DEF Orderly, Restart
<1>4. /\ Queued /\ Row(disk) /\ feed \in Seq(Message)
      /\ \A i, j \in 1 .. Len(feed) : i < j =>
           Precedes(feed[i], feed[j]) \/ Scattered(disk, open, toRecorder, pump, feed[i], feed[j])
      /\ \A f \in disk : f.sec \in Nat /\ \A m : Holds(f.msgs, m) => Holds(feed, m)
  BY <1>3 DEF RowInv, Queued, Shelved, Row
<1>5. w \in Seq(Message) /\ Replays(w)
  BY <1>2, <1>4, ReplayedRow
<1>6. Kept \in SUBSET disk /\ \A f \in disk : f \in Kept <=> ~Old(f)
  BY DEF Kept
<1>7. \A m : Holds(w, m) <=> \E f \in Kept : Holds(f.msgs, m)
  BY <1>5 DEF Replays
<1>8. Rising(w)
  BY <1>3, <1>5, <1>6 DEF Replays, Rising
<1>9. \A m : Holds(w, m) => Holds(feed, m)
  BY <1>4, <1>6, <1>7
<1>10. ASSUME NEW i \in 1 .. Len(feed), NEW j \in 1 .. Len(feed), i < j,
              \E f \in disk : Holds(f.msgs, feed[i]), \E f \in disk : Holds(f.msgs, feed[j])
       PROVE  Precedes(feed[i], feed[j])
  <2>1. PICK f \in disk, g \in disk : Holds(f.msgs, feed[i]) /\ Holds(g.msgs, feed[j])
    BY <1>10
  <2>2. ~Scattered(disk, open, toRecorder, pump, feed[i], feed[j])
    BY <1>3, <2>1 DEF Scattered
  <2> QED BY <1>4, <1>10, <2>2
<1>11. LeftOf(w, feed)
  <2>1. \A m : Holds(w, m) => \E f \in disk : Holds(f.msgs, m)
    BY <1>6, <1>7
  <2>2. \A i, j \in 1 .. Len(feed) :
          i < j /\ Holds(w, feed[i]) /\ Holds(w, feed[j]) => Precedes(feed[i], feed[j])
    BY <1>10, <2>1
  <2> QED BY <1>4, <1>5, <1>8, <1>9, <2>2, LeftOfIs
<1>12. ASSUME whole PROVE IsSuffix(w, feed) /\ (Kept = disk => w = feed)
  <2>1. \A m : Holds(feed, m) => \E f \in disk : Holds(f.msgs, m)
    BY <1>3, <1>12, WholeOnDisk
  <2>2. Rising(feed)
    <3>1. \A i \in 1 .. Len(feed) : \E f \in disk : Holds(f.msgs, feed[i])
      BY <2>1 DEF Holds
    <3> QED BY <1>10, <3>1 DEF Rising
  <2>3. ASSUME NEW m, NEW x, Holds(w, m), Holds(feed, x), Precedes(m, x) PROVE Holds(w, x)
    <3>1. PICK f \in Kept : Holds(f.msgs, m)
      BY <1>7, <2>3
    <3>2. PICK g \in disk : Holds(g.msgs, x)
      BY <2>1, <2>3
    <3>3. CASE g \in Kept
      BY <1>7, <3>2, <3>3
    <3>4. CASE g \notin Kept
      <4>1. now \in Nat /\ Retention \in Nat /\ f.sec \in Nat /\ g.sec \in Nat /\ ~Old(f) /\ Old(g)
        BY <1>4, <1>6, <3>4, PipelineAssumption DEF TypeOK
      <4>2. g.sec < f.sec
        BY <4>1 DEF Old
      <4>3. Precedes(x, m)
        BY <1>4, <1>6, <3>1, <3>2, <4>2 DEF Row, Leads
      <4>4. m \in Message /\ x \in Message
        BY <1>4, <1>9, <2>3 DEF Queued
      <4> QED BY <2>3, <4>3, <4>4, StampsOrdered
    <3> QED BY <3>3, <3>4
  <2>4. IsSuffix(w, feed) /\ ((\A m : Holds(feed, m) => Holds(w, m)) => w = feed)
    BY <1>4, <1>5, <1>8, <1>9, <2>2, <2>3, SuffixIs
  <2>5. Kept = disk => \A m : Holds(feed, m) => Holds(w, m)
    BY <1>7, <2>1
  <2> QED BY <2>4, <2>5
<1> QED BY <1>1, <1>2, <1>11, <1>12

\* A restart feeds the engine what the process before it was fed, in that order, less
\* what was lost; and when nothing was, all of it but what is past retention (Rebuild
\* and PruneFiles, rebuild.go; Write, record.go; the pump and the close chain of cmdRun).
THEOREM RebuildAlwaysRemembers == Spec => RebuildRemembers
<1>1. Init => TypeOK /\ ChainInv /\ RowInv /\ WholeInv
  BY TypeInit, KeepInit, RowInit
<1>2. TypeOK /\ ChainInv /\ RowInv /\ WholeInv /\ [Next]_vars
        => (TypeOK /\ ChainInv /\ RowInv /\ WholeInv)'
  BY TypeStep, ChainStep, RowStep, WholeStep
<1>3. TypeOK /\ ChainInv /\ RowInv /\ WholeInv /\ [Next]_vars
        => [phase = "exited" /\ phase' = "up" /\ Orderly =>
              /\ LeftOf(feed', feed)
              /\ whole => IsSuffix(feed', feed)
              /\ whole /\ Kept = disk => feed' = feed]_vars
  <2>1. Next /\ phase = "exited" /\ phase' = "up" => Restart
    BY DEF Next, Alive, Receive, Handlers, Pump, Recorder, Advance
  <2> QED BY <2>1, RebuildLeaves
<1> QED BY <1>1, <1>2, <1>3, PTL DEF Spec, RebuildRemembers
==============================================================================
