---------------------------- MODULE IncidentsProofs ----------------------------
(***************************************************************************)
(* Proofs about Incidents: for every set of objects, camera graph, gap,    *)
(* memory and overlap, however far the clock runs back.                    *)
(***************************************************************************)
EXTENDS Incidents, FiniteSetTheorems, WellFoundedInduction, TLAPS

------------------------------------------------------------------------------
(***************************************************************************)
(* Numbers and sequences.                                                  *)
(***************************************************************************)

\* A set of numbers that is not empty has a smallest one.
LEMMA Smallest ==
  ASSUME NEW B \in SUBSET Nat, B # {}
  PROVE  \E n \in B : \A i \in B : ~ (i < n)
<1>1. IsWellFoundedOn(OpToRel(<, Nat), Nat)
  BY NatLessThanWellFounded
<1>2. PICK n \in B : \A i \in B : <<i, n>> \notin OpToRel(<, Nat)
  BY <1>1, WFMin
<1> QED BY <1>2 DEF OpToRel

\* The smallest of a set of numbers.
LEMMA MinIs ==
  ASSUME NEW B \in SUBSET Nat, B # {}
  PROVE  Min(B) \in B /\ \A i \in B : Min(B) <= i
<1>1. PICK n \in B : \A i \in B : n <= i
  <2>1. PICK n \in B : \A i \in B : ~ (i < n)
    BY Smallest
  <2>2. \A i \in B : n <= i
    BY <2>1
  <2> QED BY <2>2
<1> QED BY <1>1 DEF Min

\* The steps of Chosen's recursion, over the first n.
Choosing(s, K, n, f) ==
  f = [i \in 0 .. n |-> IF i = 0 THEN <<>> ELSE IF i \in K THEN Append(f[i - 1], s[i]) ELSE f[i - 1]]

\* Chosen's recursion has its function.
LEMMA ChoosingExists ==
  ASSUME NEW s, NEW K, NEW m \in Nat
  PROVE  \E f : Choosing(s, K, m, f)
<1> DEFINE Bad == {n \in Nat : ~ \E f : Choosing(s, K, n, f)}
<1>1. SUFFICES ASSUME Bad # {} PROVE FALSE
  OBVIOUS
<1>2. PICK n \in Bad : \A i \in Bad : ~ (i < n)
  <2>1. Bad \in SUBSET Nat
    OBVIOUS
  <2> QED BY <1>1, <2>1, Smallest
<1>3. CASE n = 0
  <2>1. PICK f : f = [i \in 0 .. 0 |-> <<>>]
    OBVIOUS
  <2>2. f = [i \in 0 .. 0 |-> f[i]]
    BY <2>1
  <2>3. ASSUME NEW i \in 0 .. 0
        PROVE  f[i] = IF i = 0 THEN <<>> ELSE IF i \in K THEN Append(f[i - 1], s[i]) ELSE f[i - 1]
    BY <2>1
  <2>4. f = [i \in 0 .. 0 |-> IF i = 0 THEN <<>> ELSE IF i \in K THEN Append(f[i - 1], s[i]) ELSE f[i - 1]]
    BY <2>2, <2>3, Zenon
  <2>5. Choosing(s, K, 0, f)
    BY <2>4 DEF Choosing
  <2> QED BY <1>2, <1>3, <2>5
<1>4. CASE n # 0
  <2>1. n - 1 \in Nat /\ n - 1 < n /\ n - 1 \notin Bad
    BY <1>2, <1>4
  <2>2. PICK f : Choosing(s, K, n - 1, f)
    BY <2>1
  <2>3. \A i \in 0 .. n - 1 :
          f[i] = IF i = 0 THEN <<>> ELSE IF i \in K THEN Append(f[i - 1], s[i]) ELSE f[i - 1]
    BY <2>2 DEF Choosing
  <2>4. PICK top : top = IF n \in K THEN Append(f[n - 1], s[n]) ELSE f[n - 1]
    OBVIOUS
  <2>5. PICK g : g = [i \in 0 .. n |-> IF i = n THEN top ELSE f[i]]
    OBVIOUS
  <2>6. \A i \in 0 .. n : g[i] = IF i = n THEN top ELSE f[i]
    BY <2>5
  <2>7. g = [i \in 0 .. n |-> g[i]]
    BY <2>5
  <2>8. ASSUME NEW i \in 0 .. n
        PROVE  g[i] = IF i = 0 THEN <<>> ELSE IF i \in K THEN Append(g[i - 1], s[i]) ELSE g[i - 1]
    <3>1. CASE i = 0
      BY <2>3, <2>6, <3>1, <1>4, <1>2
    <3>2. CASE i # 0
      <4>1. i - 1 \in 0 .. n /\ i - 1 # n
        BY <3>2, <1>2
      <4>2. g[i - 1] = f[i - 1]
        BY <2>6, <4>1
      <4>3. CASE i = n
        BY <2>4, <2>6, <3>2, <4>2, <4>3
      <4>4. CASE i # n
        <5>1. i \in 0 .. n - 1
          BY <4>4, <1>2
        <5>2. g[i] = f[i]
          BY <2>6, <4>4
        <5> QED BY <2>3, <3>2, <4>2, <5>1, <5>2
      <4> QED BY <4>3, <4>4
    <3> QED BY <3>1, <3>2
  <2>9. g = [i \in 0 .. n |-> IF i = 0 THEN <<>> ELSE IF i \in K THEN Append(g[i - 1], s[i]) ELSE g[i - 1]]
    BY <2>7, <2>8, Zenon
  <2>10. Choosing(s, K, n, g)
    BY <2>9 DEF Choosing
  <2> QED BY <1>2, <2>10
<1> QED BY <1>3, <1>4

\* r is what stands in s at the positions in K up to n, in their order.
Picks(s, K, n, r) ==
  \E f \in [1 .. Len(r) -> Nat] :
    /\ \A j \in 1 .. Len(r) : f[j] \in K /\ f[j] \in 1 .. n /\ r[j] = s[f[j]]
    /\ \A j, k \in 1 .. Len(r) : j < k => f[j] < f[k]
    /\ \A i \in 1 .. n : i \in K => \E j \in 1 .. Len(r) : f[j] = i

\* One position more.
LEMMA PicksMore ==
  ASSUME NEW S, NEW s \in Seq(S), NEW K, NEW n \in 1 .. Len(s), NEW r \in Seq(S), Picks(s, K, n - 1, r),
         NEW q, q = IF n \in K THEN Append(r, s[n]) ELSE r
  PROVE  q \in Seq(S) /\ Picks(s, K, n, q)
<1>1. PICK f \in [1 .. Len(r) -> Nat] :
        /\ \A j \in 1 .. Len(r) : f[j] \in K /\ f[j] \in 1 .. n - 1 /\ r[j] = s[f[j]]
        /\ \A j, k \in 1 .. Len(r) : j < k => f[j] < f[k]
        /\ \A i \in 1 .. n - 1 : i \in K => \E j \in 1 .. Len(r) : f[j] = i
  BY DEF Picks
<1>2. CASE n \in K
  <2>1. /\ q \in Seq(S) /\ Len(q) = Len(r) + 1 /\ Len(r) \in Nat /\ q[Len(r) + 1] = s[n]
        /\ \A j \in 1 .. Len(r) : q[j] = r[j]
    BY <1>2
  <2>2. PICK l \in Nat : l = Len(r)
    BY <2>1
  <2>3. PICK g : g = [j \in 1 .. l + 1 |-> IF j = l + 1 THEN n ELSE f[j]]
    OBVIOUS
  <2>4. g \in [1 .. Len(q) -> Nat] /\ g[l + 1] = n /\ \A j \in 1 .. l : g[j] = f[j]
    BY <2>1, <2>2, <2>3
  <2>5. \A j \in 1 .. Len(q) : j = l + 1 \/ j \in 1 .. l
    BY <2>1, <2>2
  <2>6. \A j \in 1 .. Len(q) : g[j] \in K /\ g[j] \in 1 .. n /\ q[j] = s[g[j]]
    BY <1>1, <1>2, <2>1, <2>2, <2>4, <2>5
  <2>7. \A j, k \in 1 .. Len(q) : j < k => g[j] < g[k]
    BY <1>1, <2>1, <2>2, <2>4, <2>5
  <2>8. ASSUME NEW i \in 1 .. n, i \in K PROVE \E j \in 1 .. Len(q) : g[j] = i
    <3>1. CASE i = n
      <4>1. l + 1 \in 1 .. Len(q)
        BY <2>1, <2>2
      <4> QED BY <3>1, <2>4, <4>1
    <3>2. CASE i # n
      <4>1. PICK j \in 1 .. l : f[j] = i
        BY <1>1, <2>2, <2>8, <3>2, SMTT(30)
      <4>2. j \in 1 .. Len(q) /\ g[j] = i
        BY <2>1, <2>2, <2>4, <4>1
      <4> QED BY <4>2
    <3> QED BY <3>1, <3>2
  <2> QED BY <2>1, <2>4, <2>6, <2>7, <2>8 DEF Picks
<1>3. CASE n \notin K
  <2>1. \A i \in 1 .. n : i \in K => i \in 1 .. n - 1
    BY <1>3
  <2>2. \A i \in 1 .. n - 1 : i \in 1 .. n
    OBVIOUS
  <2>3. \A j \in 1 .. Len(r) : f[j] \in K /\ f[j] \in 1 .. n /\ r[j] = s[f[j]]
    BY <1>1, <2>2
  <2>4. \A i \in 1 .. n : i \in K => \E j \in 1 .. Len(r) : f[j] = i
    BY <1>1, <2>1
  <2>5. Picks(s, K, n, r)
    BY <1>1, <2>3, <2>4, Zenon DEF Picks
  <2> QED BY <1>3, <2>5
<1> QED BY <1>2, <1>3

\* What Chosen picks.
LEMMA ChosenIs ==
  ASSUME NEW S, NEW s \in Seq(S), NEW K, NEW r, r = Chosen(s, K)
  PROVE  r \in Seq(S) /\ Picks(s, K, Len(s), r)
<1>0. PICK l \in Nat : l = Len(s)
  OBVIOUS
<1>1. PICK f : f = CHOOSE h : Choosing(s, K, l, h)
  OBVIOUS
<1>2. Choosing(s, K, l, f)
  BY <1>1, ChoosingExists
<1>3. r = f[l]
  BY <1>0, <1>1, Zenon DEF Chosen, Choosing
<1>4. \A i \in 0 .. l : f[i] = IF i = 0 THEN <<>> ELSE IF i \in K THEN Append(f[i - 1], s[i]) ELSE f[i - 1]
  BY <1>2 DEF Choosing
<1> DEFINE Bad == {n \in Nat : n <= l /\ ~ (f[n] \in Seq(S) /\ Picks(s, K, n, f[n]))}
<1>5. ASSUME Bad # {} PROVE FALSE
  <2>1. PICK n \in Bad : \A i \in Bad : ~ (i < n)
    <3>1. Bad \in SUBSET Nat
      OBVIOUS
    <3> QED BY <1>5, <3>1, Smallest
  <2>2. CASE n = 0
    <3>1. f[0] = <<>>
      BY <1>4
    <3>0. <<>> \in Seq(S)
      OBVIOUS
    <3>2. PICK e \in Seq(S) : e = <<>>
      BY <3>0, Zenon
    <3>3. PICK g : g = [j \in 1 .. 0 |-> 0]
      OBVIOUS
    <3>4. Len(e) = 0 /\ g \in [1 .. Len(e) -> Nat]
      BY <3>2, <3>3
    <3>5. \A j \in 1 .. Len(e) : FALSE
      BY <3>4
    <3>6. \A i \in 1 .. 0 : FALSE
      OBVIOUS
    <3>7. Picks(s, K, 0, e)
      BY <3>4, <3>5, <3>6, Zenon DEF Picks
    <3> QED BY <2>1, <2>2, <3>1, <3>2, <3>7
  <2>3. CASE n # 0
    <3>1. n - 1 \in Nat /\ n - 1 <= l /\ n - 1 \notin Bad /\ n \in 1 .. Len(s)
      BY <1>0, <2>1, <2>3
    <3>2. PICK q : q = f[n - 1]
      OBVIOUS
    <3>3. q \in Seq(S) /\ Picks(s, K, n - 1, q)
      BY <3>1, <3>2
    <3>4. f[n] = IF n \in K THEN Append(q, s[n]) ELSE q
      BY <1>4, <2>1, <2>3, <3>2
    <3>5. f[n] \in Seq(S) /\ Picks(s, K, n, f[n])
      BY <3>1, <3>3, <3>4, PicksMore
    <3> QED BY <2>1, <3>5
  <2> QED BY <2>2, <2>3
<1>6. f[l] \in Seq(S) /\ Picks(s, K, l, f[l])
  BY <1>5
<1> QED BY <1>0, <1>3, <1>6

------------------------------------------------------------------------------
(***************************************************************************)
(* Incidents.                                                              *)
(***************************************************************************)
Member ==
  [source : Activities, start : Nat \ {0}, end : Nat, zones : SUBSET Zones, media : BOOLEAN]

Incident(ms, last, path, sent, event, boxes, opening, latest) ==
  [members |-> ms, last |-> last, path |-> path, sent |-> sent, event |-> event, boxes |-> boxes,
   opening |-> opening, latest |-> latest]

\* Box evidence within the cap, that has kept its opening.
Opened(boxes, opening) ==
  boxes \in Seq(Nat) /\ Len(boxes) <= MaxBoxes /\ (boxes # <<>> => boxes[1] = opening)

\* An incident, of no or of some members.
IsIncident(inc) ==
  /\ inc = Incident(inc.members, inc.last, inc.path, inc.sent, inc.event, inc.boxes, inc.opening,
                    inc.latest)
  /\ inc.members \in Seq(Member) /\ Opened(inc.boxes, inc.opening)
  /\ inc.last \in Nat /\ inc.latest \in Nat /\ inc.path \in SUBSET Zones

\* A message as Sightings gives it, of an object whose start Frigate gives as s.
Message(m, s) ==
  /\ m.object \in Activities /\ m.zones \in SUBSET Zones /\ m.media \in BOOLEAN /\ m.end \in Nat
  /\ s \in Nat \ {0} /\ (m.end # 0 => s <= m.end)

\* The members a message of one of them, or of another object, makes.
Joined(inc, m) == IF m.object \in Sources(inc) THEN inc.members ELSE Append(inc.members, NewMember(m))

ToldMember(e, m) ==
  IF e.source # m.object THEN e
  ELSE [e EXCEPT !.media = @ \/ m.media, !.zones = @ \cup m.zones, !.end = IF m.end # 0 THEN m.end ELSE @]

\* A new incident.
LEMMA NewIs ==
  /\ IsIncident(NewIncident) /\ NewIncident.members = <<>> /\ NewIncident.boxes = <<>>
  /\ NewIncident.last = 0 /\ NewIncident.latest = 0 /\ NewIncident.sent = FALSE
  /\ NewIncident.path = {} /\ NewIncident.opening = 0
<1>1. MaxBoxes \in Nat
  BY IncidentsAssumption
<1>2. Opened(<<>>, 0)
  BY <1>1 DEF Opened
<1> QED BY <1>2 DEF NewIncident, IsIncident, Incident

\* A member a message is told to.
LEMMA ToldMemberIs ==
  ASSUME NEW e \in Member, NEW m, Message(m, began[m.object]), NEW d, d = ToldMember(e, m)
  PROVE  /\ d \in Member /\ d.source = e.source /\ d.start = e.start
         /\ e.zones \in SUBSET d.zones /\ d.zones \in SUBSET (e.zones \cup m.zones)
         /\ e.source = m.object => m.zones \in SUBSET d.zones
         /\ d.end = IF e.source = m.object /\ m.end # 0 THEN m.end ELSE e.end
<1>1. CASE e.source # m.object
  BY <1>1 DEF ToldMember
<1>2. CASE e.source = m.object
  <2>1. PICK md \in BOOLEAN : md = (e.media \/ m.media)
    BY DEF Member, Message
  <2>2. PICK z \in SUBSET Zones : z = e.zones \cup m.zones
    BY DEF Member, Message
  <2>3. PICK n \in Nat : n = IF m.end # 0 THEN m.end ELSE e.end
    BY DEF Member, Message
  <2>4. d = [e EXCEPT !.media = md, !.zones = z, !.end = n]
    BY <1>2, <2>1, <2>2, <2>3, Zenon DEF ToldMember
  <2>5. d = [source |-> e.source, start |-> e.start, end |-> n, zones |-> z, media |-> md]
    BY <2>4 DEF Member
  <2>6. d \in Member
    BY <2>5 DEF Member
  <2> QED BY <1>2, <2>2, <2>3, <2>5, <2>6
<1> QED BY <1>1, <1>2

\* The members after a message.
LEMMA JoinedIs ==
  ASSUME NEW inc, IsIncident(inc), NEW m, Message(m, began[m.object]), NEW ms, ms = Joined(inc, m)
  PROVE  /\ ms \in Seq(Member) /\ Len(ms) >= Len(inc.members)
         /\ \A j \in 1 .. Len(inc.members) : ms[j] = inc.members[j]
         /\ IF m.object \in Sources(inc) THEN Len(ms) = Len(inc.members)
            ELSE Len(ms) = Len(inc.members) + 1 /\ ms[Len(ms)].source = m.object
                 /\ ms[Len(ms)].start = began[m.object] /\ ms[Len(ms)].end = 0
<1>1. PICK e : e = NewMember(m)
  OBVIOUS
<1>2. e \in Member /\ e.source = m.object /\ e.start = began[m.object] /\ e.end = 0
  BY <1>1 DEF NewMember, Member, Message
<1>3. inc.members \in Seq(Member)
  BY DEF IsIncident
<1>4. CASE m.object \in Sources(inc)
  BY <1>3, <1>4 DEF Joined
<1>5. CASE m.object \notin Sources(inc)
  <2>1. ms = Append(inc.members, e)
    BY <1>1, <1>5 DEF Joined
  <2> QED BY <1>2, <1>3, <1>5, <2>1
<1> QED BY <1>4, <1>5

\* r is the incident with the message taken in, its members those of js, told.
Took(inc, m, t, r, js) ==
  /\ r = Incident(r.members, t, inc.path \cup m.zones, inc.sent, inc.event,
                  IF m.box THEN AddBox(inc.boxes, t) ELSE inc.boxes,
                  IF m.box /\ inc.boxes = <<>> THEN t ELSE inc.opening,
                  IF t > inc.latest THEN t ELSE inc.latest)
  /\ r.members \in Seq(Member) /\ Len(r.members) = Len(js)
  /\ \A j \in 1 .. Len(js) : r.members[j] = ToldMember(js[j], m)

\* An incident with a message taken in.
LEMMA AbsorbedIs ==
  ASSUME NEW inc, IsIncident(inc), NEW m, Message(m, began[m.object]), NEW t \in Nat,
         NEW r, r = Absorbed(inc, m, t), NEW js, js = Joined(inc, m)
  PROVE  Took(inc, m, t, r, js)
<1>1. js \in Seq(Member) /\ Len(js) \in Nat
  BY JoinedIs
<1>2. PICK told : told = [i \in 1 .. Len(js) |-> ToldMember(js[i], m)]
  OBVIOUS
<1>3. \A i \in 1 .. Len(js) : js[i] \in Member
  BY <1>1
<1>4. \A i \in 1 .. Len(js) : told[i] = ToldMember(js[i], m) /\ told[i] \in Member
  BY <1>2, <1>3, ToldMemberIs
<1>5. told \in Seq(Member) /\ Len(told) = Len(js)
  BY <1>1, <1>2, <1>4
<1>6. PICK bs, op, lt, pa :
        /\ bs = (IF m.box THEN AddBox(inc.boxes, t) ELSE inc.boxes)
        /\ op = (IF m.box /\ inc.boxes = <<>> THEN t ELSE inc.opening)
        /\ lt = (IF t > inc.latest THEN t ELSE inc.latest)
        /\ pa = inc.path \cup m.zones
  OBVIOUS
<1>7. DOMAIN js = 1 .. Len(js)
  BY <1>1
<1>8. told = [i \in DOMAIN js |-> IF js[i].source # m.object THEN js[i]
                ELSE [js[i] EXCEPT !.media = @ \/ m.media,
                                   !.zones = @ \cup m.zones,
                                   !.end   = IF m.end # 0 THEN m.end ELSE @]]
  BY <1>2, <1>7, Zenon DEF ToldMember
<1>9. r = [inc EXCEPT !.last = t, !.members = told, !.path = pa, !.boxes = bs, !.opening = op,
                      !.latest = lt]
  BY <1>6, <1>8, ZenonT(60) DEF Absorbed, Joined
<1>10. r = Incident(told, t, pa, inc.sent, inc.event, bs, op, lt)
  BY <1>9 DEF IsIncident, Incident
<1>11. r.members = told
  BY <1>10 DEF Incident
<1> QED BY <1>4, <1>5, <1>6, <1>10, <1>11 DEF Took

\* The box evidence after a sample: within the cap, with its opening.
LEMMA AddBoxIs ==
  ASSUME NEW boxes \in Seq(Nat), Len(boxes) <= MaxBoxes, NEW t \in Nat, NEW b, b = AddBox(boxes, t)
  PROVE  /\ b \in Seq(Nat) /\ Len(b) <= MaxBoxes /\ b # <<>>
         /\ b[1] = IF boxes = <<>> THEN t ELSE boxes[1]
<1>0. MaxBoxes \in Nat /\ MaxBoxes >= 2
  BY IncidentsAssumption
<1>1. PICK l \in Nat : l = Len(boxes)
  OBVIOUS
<1>2. PICK h \in Nat : h = (l + 1) \div 2
  OBVIOUS
<1>3. 2 * h <= l + 1 /\ (l >= 1 => h >= 1)
  BY <1>2
<1>4. PICK thin : thin = [i \in 1 .. h |-> boxes[2 * i - 1]]
  OBVIOUS
<1>5. \A i \in 1 .. h : 2 * i - 1 \in 1 .. l
  BY <1>3
<1>6. thin \in Seq(Nat) /\ Len(thin) = h
  <2>1. \A i \in 1 .. h : thin[i] \in Nat
    BY <1>1, <1>4, <1>5
  <2> QED BY <1>4, <2>1
<1>7. l >= 1 => thin[1] = boxes[1]
  <2>1. ASSUME l >= 1 PROVE thin[1] = boxes[2 * 1 - 1]
    BY <1>3, <1>4, <2>1
  <2> QED BY <2>1
<1>8. PICK base : base = IF l >= MaxBoxes THEN thin ELSE boxes
  OBVIOUS
<1>9. base \in Seq(Nat) /\ Len(base) + 1 <= MaxBoxes /\ (l >= 1 => Len(base) >= 1 /\ base[1] = boxes[1])
      /\ (l = 0 => base = <<>>)
  BY <1>0, <1>1, <1>3, <1>6, <1>7, <1>8
<1>10. b = Append(base, t)
  BY <1>1, <1>2, <1>4, <1>8, Zenon DEF AddBox
<1> QED BY <1>1, <1>9, <1>10, SMTT(30)

\* What is said of an incident changes nothing else of it.
LEMMA SaidIs ==
  ASSUME NEW inc, IsIncident(inc), NEW t, NEW r, r = Said(inc, t).inc
  PROVE  /\ IsIncident(r)
         /\ r.members = inc.members /\ r.last = inc.last /\ r.path = inc.path /\ r.boxes = inc.boxes
         /\ r.opening = inc.opening /\ r.latest = inc.latest
         /\ r.sent => inc.sent \/ r.path # {}
<1>1. CASE r = inc
  BY <1>1
<1>2. CASE r # inc
  <2>1. PICK next : next = Build(inc, t, FALSE)
    OBVIOUS
  <2>2. inc.path # {} /\ r = [inc EXCEPT !.sent = TRUE, !.event = next]
    BY <1>2, <2>1 DEF Said
  <2>3. r = Incident(inc.members, inc.last, inc.path, TRUE, next, inc.boxes, inc.opening, inc.latest)
    BY <2>2 DEF IsIncident, Incident
  <2> QED BY <2>2, <2>3 DEF IsIncident, Incident
<1> QED BY <1>1, <1>2

\* No object twice.
Distinct(inc) ==
  \A j, k \in 1 .. Len(inc.members) : inc.members[j].source = inc.members[k].source => j = k

\* Its members have the starts Frigate gives them, and no end before.
Begun(inc) ==
  \A j \in 1 .. Len(inc.members) :
    /\ inc.members[j].start = began[inc.members[j].source]
    /\ inc.members[j].end # 0 => inc.members[j].start <= inc.members[j].end

\* r holds the members of inc, which keep their starts and zones, with the message's
\* zones at its object; the others stand as they were.
Grown(inc, m, r) ==
  /\ \A j \in 1 .. Len(inc.members) :
       /\ r.members[j].source = inc.members[j].source /\ r.members[j].start = inc.members[j].start
       /\ inc.members[j].zones \in SUBSET r.members[j].zones
  /\ \A j \in 1 .. Len(r.members) :
       IF r.members[j].source = m.object THEN m.zones \in SUBSET r.members[j].zones
       ELSE j \in 1 .. Len(inc.members) /\ r.members[j] = inc.members[j]

\* An incident after a message, whatever was said of it.
LEMMA TakenIs ==
  ASSUME NEW inc, IsIncident(inc), NEW m, Message(m, began[m.object]), NEW t \in Nat,
         NEW r, r = Said(Absorbed(inc, m, t), t).inc
  PROVE  /\ IsIncident(r) /\ r.members # <<>> /\ Sources(r) = Sources(inc) \cup {m.object}
         /\ Distinct(inc) => Distinct(r)
         /\ r.last = t /\ r.path = inc.path \cup m.zones
         /\ r.latest = IF t > inc.latest THEN t ELSE inc.latest
         /\ r.sent => inc.sent \/ r.path # {}
         /\ Len(r.members) >= Len(inc.members)
         /\ Grown(inc, m, r)
         /\ Begun(inc) => Begun(r)
<1>0. inc.members \in Seq(Member) /\ Opened(inc.boxes, inc.opening) /\ inc.latest \in Nat
      /\ inc.path \in SUBSET Zones /\ m.zones \in SUBSET Zones
  BY DEF IsIncident, Message
<1>1. PICK a : a = Absorbed(inc, m, t)
  OBVIOUS
<1>2. PICK js : js = Joined(inc, m)
  OBVIOUS
<1>3. PICK bs, op, lt, pa :
        /\ bs = (IF m.box THEN AddBox(inc.boxes, t) ELSE inc.boxes)
        /\ op = (IF m.box /\ inc.boxes = <<>> THEN t ELSE inc.opening)
        /\ lt = (IF t > inc.latest THEN t ELSE inc.latest)
        /\ pa = inc.path \cup m.zones
  OBVIOUS
<1>4. /\ a = Incident(a.members, t, pa, inc.sent, inc.event, bs, op, lt)
      /\ a.members \in Seq(Member) /\ Len(a.members) = Len(js)
      /\ \A j \in 1 .. Len(js) : a.members[j] = ToldMember(js[j], m)
  <2>1. Took(inc, m, t, a, js)
    BY <1>1, <1>2, AbsorbedIs
  <2> QED BY <1>3, <2>1, Zenon DEF Took
<1>5. a.last = t /\ a.path = pa /\ a.sent = inc.sent /\ a.boxes = bs /\ a.opening = op /\ a.latest = lt
      /\ a = Incident(a.members, a.last, a.path, a.sent, a.event, a.boxes, a.opening, a.latest)
  BY <1>4 DEF Incident
<1>6. Opened(bs, op)
  BY <1>0, <1>3, AddBoxIs DEF Opened
<1>7. IsIncident(a)
  BY <1>0, <1>3, <1>4, <1>5, <1>6 DEF IsIncident
<1>8. /\ IsIncident(r) /\ r.members = a.members /\ r.last = t /\ r.path = pa /\ r.latest = lt
      /\ r.sent => inc.sent \/ r.path # {}
  BY <1>1, <1>5, <1>7, SaidIs
<1>9. PICK os, l : os = inc.members /\ l = Len(inc.members)
  OBVIOUS
<1>10. PICK ms : ms = a.members
  OBVIOUS
<1>11. /\ js \in Seq(Member) /\ Len(js) >= l /\ l \in Nat
       /\ \A j \in 1 .. l : js[j] = os[j]
       /\ IF m.object \in Sources(inc) THEN Len(js) = l
          ELSE Len(js) = l + 1 /\ js[Len(js)].source = m.object
               /\ js[Len(js)].start = began[m.object] /\ js[Len(js)].end = 0
  BY <1>0, <1>2, <1>9, JoinedIs
<1>12. \A j \in 1 .. Len(js) : js[j] \in Member
  BY <1>11
<1>13. ASSUME NEW j \in 1 .. Len(js)
       PROVE  /\ ms[j].source = js[j].source /\ ms[j].start = js[j].start
              /\ js[j].zones \in SUBSET ms[j].zones
              /\ js[j].source = m.object => m.zones \in SUBSET ms[j].zones
              /\ ms[j].end = IF js[j].source = m.object /\ m.end # 0 THEN m.end ELSE js[j].end
              /\ js[j].source # m.object => ms[j] = js[j]
  <2>1. PICK e \in Member : e = js[j]
    BY <1>12, <1>13
  <2>2. PICK d : d = ToldMember(e, m)
    OBVIOUS
  <2>3. ms[j] = d
    BY <1>4, <1>10, <1>13, <2>1, <2>2
  <2>4. e.source # m.object => d = e
    BY <2>2 DEF ToldMember
  <2>5. /\ d.source = e.source /\ d.start = e.start
        /\ e.zones \in SUBSET d.zones
        /\ e.source = m.object => m.zones \in SUBSET d.zones
        /\ d.end = IF e.source = m.object /\ m.end # 0 THEN m.end ELSE e.end
    BY <2>2, ToldMemberIs
  <2> QED BY <2>1, <2>3, <2>4, <2>5
<1>14. \A x : x \in Sources(inc) <=> \E j \in 1 .. l : os[j].source = x
  BY <1>0, <1>9 DEF Sources
<1>15. \A x : x \in Sources(r) <=> \E j \in 1 .. Len(js) : js[j].source = x
  <2>1. ms \in Seq(Member) /\ Len(ms) = Len(js) /\ r.members = ms
    BY <1>4, <1>8, <1>10
  <2>2. DOMAIN ms = 1 .. Len(js)
    BY <2>1
  <2>3. Sources(r) = {ms[j].source : j \in 1 .. Len(js)}
    BY <2>1, <2>2 DEF Sources
  <2> QED BY <1>13, <2>3
<1>16. Sources(r) = Sources(inc) \cup {m.object}
  <2>1. ASSUME NEW x \in Sources(r) PROVE x \in Sources(inc) \cup {m.object}
    <3>1. PICK j \in 1 .. Len(js) : js[j].source = x
      BY <1>15, <2>1
    <3>2. CASE j \in 1 .. l
      BY <1>11, <1>14, <3>1, <3>2
    <3>3. CASE j \notin 1 .. l
      BY <1>11, <3>1, <3>3
    <3> QED BY <3>2, <3>3
  <2>2. ASSUME NEW x \in Sources(inc) PROVE x \in Sources(r)
    <3>1. PICK j \in 1 .. l : os[j].source = x
      BY <1>14, <2>2
    <3>2. j \in 1 .. Len(js) /\ js[j].source = x
      BY <1>11, <3>1
    <3> QED BY <1>15, <3>2
  <2>3. m.object \in Sources(r)
    <3>1. CASE m.object \in Sources(inc)
      BY <2>2, <3>1
    <3>2. CASE m.object \notin Sources(inc)
      <4>1. Len(js) \in 1 .. Len(js) /\ js[Len(js)].source = m.object
        BY <1>11, <3>2
      <4> QED BY <1>15, <4>1
    <3> QED BY <3>1, <3>2
  <2> QED BY <2>1, <2>2, <2>3
<1>17. ASSUME Distinct(inc) PROVE Distinct(r)
  <2> SUFFICES ASSUME NEW j \in 1 .. Len(js), NEW k \in 1 .. Len(js), ms[j].source = ms[k].source
               PROVE  j = k
    BY <1>4, <1>8, <1>10 DEF Distinct
  <2>1. js[j].source = js[k].source
    BY <1>13
  <2>2. \A x, y \in 1 .. l : os[x].source = os[y].source => x = y
    BY <1>9, <1>17 DEF Distinct
  <2>3. CASE m.object \in Sources(inc)
    BY <1>11, <2>1, <2>2, <2>3
  <2>4. CASE m.object \notin Sources(inc)
    <3>1. \A x \in 1 .. Len(js) : x \in 1 .. l \/ x = Len(js)
      BY <1>11, <2>4
    <3>2. \A x \in 1 .. l : js[x].source # js[Len(js)].source
      BY <1>11, <1>14, <2>4
    <3>3. \A x \in 1 .. l : js[x] = os[x]
      BY <1>11
    <3> QED BY <2>1, <2>2, <3>1, <3>2, <3>3
  <2> QED BY <2>3, <2>4
<1>18. ms # <<>>
  <2>1. Len(js) >= 1
    <3>1. CASE m.object \in Sources(inc)
      <4>1. PICK j \in 1 .. l : os[j].source = m.object
        BY <1>14, <3>1
      <4> QED BY <1>11, <4>1
    <3>2. CASE m.object \notin Sources(inc)
      BY <1>11, <3>2
    <3> QED BY <3>1, <3>2
  <2> QED BY <1>4, <1>10, <2>1
<1>19. \A j \in 1 .. l :
         /\ ms[j].source = os[j].source /\ ms[j].start = os[j].start
         /\ os[j].zones \in SUBSET ms[j].zones
  <2> SUFFICES ASSUME NEW j \in 1 .. l
               PROVE  /\ ms[j].source = os[j].source /\ ms[j].start = os[j].start
                      /\ os[j].zones \in SUBSET ms[j].zones
    OBVIOUS
  <2>1. j \in 1 .. Len(js) /\ js[j] = os[j]
    BY <1>11
  <2> QED BY <1>13, <2>1
<1>20. ASSUME NEW j \in 1 .. Len(js)
       PROVE  IF ms[j].source = m.object THEN m.zones \in SUBSET ms[j].zones
              ELSE j \in 1 .. l /\ ms[j] = os[j]
  <2>1. CASE js[j].source = m.object
    BY <1>13, <2>1
  <2>2. CASE js[j].source # m.object
    <3>1. j \in 1 .. l
      BY <1>11, <2>2
    <3> QED BY <1>11, <1>13, <2>2, <3>1
  <2> QED BY <2>1, <2>2
<1>22. ASSUME Begun(inc), NEW j \in 1 .. Len(js)
       PROVE  ms[j].start = began[ms[j].source] /\ (ms[j].end # 0 => ms[j].start <= ms[j].end)
  <2>1. js[j].start = began[js[j].source] /\ (js[j].end # 0 => js[j].start <= js[j].end)
    <3>1. CASE j \in 1 .. l
      BY <1>9, <1>11, <1>22, <3>1 DEF Begun
    <3>2. CASE j \notin 1 .. l
      BY <1>11, <3>2
    <3> QED BY <3>1, <3>2
  <2>2. m.end # 0 => began[m.object] <= m.end
    BY DEF Message
  <2>3. /\ ms[j].source = js[j].source /\ ms[j].start = js[j].start
        /\ ms[j].end = IF js[j].source = m.object /\ m.end # 0 THEN m.end ELSE js[j].end
    BY <1>13
  <2> QED BY <2>1, <2>2, <2>3
<1>21. Len(r.members) = Len(js) /\ r.members = ms
  BY <1>4, <1>8, <1>10
<1>23. Begun(inc) => Begun(r)
  BY <1>21, <1>22 DEF Begun
<1>24. Grown(inc, m, r)
  BY <1>9, <1>19, <1>20, <1>21 DEF Grown
<1> QED
  BY <1>3, <1>8, <1>9, <1>11, <1>16, <1>17, <1>18, <1>21, <1>23, <1>24

------------------------------------------------------------------------------
(***************************************************************************)
(* Steps.                                                                  *)
(***************************************************************************)
TypeOK ==
  /\ world \in World /\ at \in Nat /\ now \in Nat /\ began \in [Objects -> Nat \ {0}]
  /\ closed \in [Objects -> Nat] /\ ended \in [Objects -> Nat]
  /\ \E S : open \in Seq(S)
  /\ \A i \in 1 .. Len(open) : IsIncident(open[i]) /\ open[i].members # <<>>

\* A receive time.
LEMMA TimeIs ==
  ASSUME TypeOK, NEW t \in ReceiveTimes
  PROVE  t \in Nat /\ t >= 1 /\ t >= now - Skew /\ Skew \in Nat /\ Gap \in Nat \ {0} /\ Remember \in Nat
BY DEF TypeOK, ReceiveTimes, Horizon, World, Skew, Gap, Remember

\* so is what is left of the open incidents: those not past their gap.
Left(so, t) ==
  /\ \E S : so \in Seq(S)
  /\ Picks(open, DOMAIN open \ Due(t), Len(open), so)
  /\ \A j \in 1 .. Len(so) : \E i \in 1 .. Len(open) : so[j] = open[i] /\ ~Expired(open[i], t)
  /\ \A i \in 1 .. Len(open) : ~Expired(open[i], t) => \E j \in 1 .. Len(so) : so[j] = open[i]

\* The open incidents after the closing pass.
LEMMA SettledIs ==
  ASSUME TypeOK, NEW t, NEW so, so = Settled(t).open
  PROVE  Left(so, t)
<1>1. PICK S : open \in Seq(S)
  BY DEF TypeOK
<1>2. PICK os \in Seq(S) : os = open
  BY <1>1
<1>3. PICK K : K = DOMAIN open \ Due(t)
  OBVIOUS
<1>4. so = Chosen(os, K)
  BY <1>2, <1>3 DEF Settled
<1>5. so \in Seq(S) /\ Picks(os, K, Len(os), so)
  BY <1>4, ChosenIs
<1>6. \A i \in 1 .. Len(os) : i \in K <=> ~Expired(os[i], t)
  <2>1. DOMAIN os = 1 .. Len(os)
    OBVIOUS
  <2> QED BY <1>2, <1>3, <2>1 DEF Due
<1>7. PICK f \in [1 .. Len(so) -> Nat] :
        /\ \A j \in 1 .. Len(so) : f[j] \in K /\ f[j] \in 1 .. Len(os) /\ so[j] = os[f[j]]
        /\ \A i \in 1 .. Len(os) : i \in K => \E j \in 1 .. Len(so) : f[j] = i
  BY <1>5, Zenon DEF Picks
<1>8. \A j \in 1 .. Len(so) : \E i \in 1 .. Len(os) : so[j] = os[i] /\ ~Expired(os[i], t)
  BY <1>6, <1>7
<1>9. \A i \in 1 .. Len(os) : ~Expired(os[i], t) => \E j \in 1 .. Len(so) : so[j] = os[i]
  BY <1>6, <1>7
<1> QED BY <1>2, <1>3, <1>5, <1>8, <1>9 DEF Left

\* What Sightings gives are messages.
LEMMA SightingIs ==
  ASSUME TypeOK, NEW t \in ReceiveTimes, NEW m \in Sightings(t)
  PROVE  m.object \in Objects /\ Message(m, began[m.object]) /\ began[m.object] <= t /\ m.box \in BOOLEAN
<1>1. m.object \in Activities /\ m.zones \in SUBSET Zones /\ m.media \in Media /\ m.box \in world.boxed
      /\ m.end \in {0} \cup ((t - Lag) .. t) /\ began[m.object] <= t
      /\ (m.end # 0 => began[m.object] <= m.end)
  BY DEF Sightings
<1>2. t \in Nat /\ Lag \in Nat /\ Media \in SUBSET BOOLEAN /\ world.boxed \in SUBSET BOOLEAN
  BY TimeIs, IncidentsAssumption DEF TypeOK, World
<1>3. m.object \in Objects /\ began[m.object] \in Nat \ {0}
  BY <1>1 DEF TypeOK, Activities
<1>4. m.end \in Nat
  BY <1>1, <1>2, <1>3
<1> QED BY <1>1, <1>2, <1>3, <1>4 DEF Message

\* Which incident a message goes into: one that holds its object, if any does.
LEMMA TargetIs ==
  ASSUME NEW S, NEW so \in Seq(S), NEW o, NEW i, i = Target(so, o)
  PROVE  /\ i \in 1 .. Len(so) + 1
         /\ (\E k \in 1 .. Len(so) : o \in Sources(so[k])) => i \in 1 .. Len(so) /\ o \in Sources(so[i])
<1>0. DOMAIN so = 1 .. Len(so) /\ Len(so) \in Nat
  OBVIOUS
<1>1. PICK H : H = Holding(so, o)
  OBVIOUS
<1>2. PICK J : J = Joinable(so, o)
  OBVIOUS
<1>3. H = {k \in 1 .. Len(so) : o \in Sources(so[k])} /\ J \in SUBSET (1 .. Len(so))
  BY <1>0, <1>1, <1>2 DEF Holding, Joinable
<1>4. i = IF H # {} THEN Min(H) ELSE IF J # {} THEN Min(J) ELSE Len(so) + 1
  BY <1>1, <1>2, Zenon DEF Target
<1>5. H \in SUBSET Nat /\ J \in SUBSET Nat
  BY <1>0, <1>3
<1>6. CASE H # {}
  <2>1. i \in H
    BY <1>4, <1>5, <1>6, MinIs
  <2> QED BY <1>0, <1>3, <2>1
<1>7. CASE H = {} /\ J # {}
  <2>1. i \in J
    BY <1>4, <1>5, <1>7, MinIs
  <2> QED BY <1>0, <1>3, <1>7, <2>1
<1>8. CASE H = {} /\ J = {}
  BY <1>0, <1>3, <1>4, <1>8
<1> QED BY <1>6, <1>7, <1>8

\* The message m enters the i-th of the incidents so, and op is what they become.
Entered(so, op, i, old, r, m, t) ==
  /\ i \in 1 .. Len(so) + 1 /\ old = (IF i <= Len(so) THEN so[i] ELSE NewIncident)
  /\ r = Said(Absorbed(old, m, t), t).inc
  /\ Len(op) = IF i <= Len(so) THEN Len(so) ELSE i
  /\ op[i] = r /\ \A k \in 1 .. Len(so) : k # i => op[k] = so[k]
  /\ (\E k \in 1 .. Len(so) : m.object \in Sources(so[k])) =>
       i \in 1 .. Len(so) /\ m.object \in Sources(so[i])

\* What a sighting does to the open incidents.
LEMMA Enters ==
  ASSUME TypeOK, NEW t \in ReceiveTimes, NEW m \in Sightings(t), ObserveSighting(m, t)
  PROVE  /\ \E so, i, old, r :
              /\ so = Settled(t).open /\ Entered(so, open', i, old, r, m, t)
              /\ changes' = Settled(t).changes \o Said(Absorbed(old, m, t), t).changes
         /\ \E S : open' \in Seq(S)
<1>1. PICK so : so = Settled(t).open
  OBVIOUS
<1>2. PICK i : i = Target(so, m.object)
  OBVIOUS
<1>3. PICK old : old = IF i <= Len(so) THEN so[i] ELSE NewIncident
  OBVIOUS
<1>4. PICK r : r = Said(Absorbed(old, m, t), t).inc
  OBVIOUS
<1>5. open' = IF i <= Len(so) THEN [so EXCEPT ![i] = r] ELSE Append(so, r)
  BY <1>1, <1>2, <1>3, <1>4, Zenon DEF ObserveSighting
<1>6. PICK T : so \in Seq(T)
  BY <1>1, SettledIs DEF Left
<1>7. PICK S : S = T \cup {r}
  OBVIOUS
<1>8. PICK ss \in Seq(S) : ss = so
  BY <1>6, <1>7
<1>9. i \in 1 .. Len(so) + 1 /\ ((\E k \in 1 .. Len(so) : m.object \in Sources(so[k])) =>
         i \in 1 .. Len(so) /\ m.object \in Sources(so[i]))
  BY <1>2, <1>6, TargetIs
<1>10. /\ open' \in Seq(S) /\ Len(open') = IF i <= Len(so) THEN Len(so) ELSE i
       /\ open'[i] = r /\ \A k \in 1 .. Len(so) : k # i => open'[k] = so[k]
  <2>1. CASE i <= Len(so)
    <3>1. open' = [ss EXCEPT ![i] = r] /\ i \in 1 .. Len(ss)
      BY <1>5, <1>8, <1>9, <2>1
    <3>2. r \in S
      BY <1>7
    <3> QED BY <1>8, <2>1, <3>1, <3>2
  <2>2. CASE ~(i <= Len(so))
    <3>1. open' = Append(ss, r) /\ i = Len(ss) + 1
      BY <1>5, <1>8, <1>9, <2>2
    <3>2. r \in S
      BY <1>7
    <3> QED BY <1>8, <2>2, <3>1, <3>2
  <2> QED BY <2>1, <2>2
<1>11. Entered(so, open', i, old, r, m, t)
  BY <1>3, <1>4, <1>9, <1>10 DEF Entered
<1>12. changes' = Settled(t).changes \o Said(Absorbed(old, m, t), t).changes
  BY <1>1, <1>2, <1>3, Zenon DEF ObserveSighting
<1> QED BY <1>1, <1>10, <1>11, <1>12

\* The objects of the incidents the closing pass at t closes.
Gone(t) == UNION {Sources(open[i]) : i \in Due(t)}

\* What the closing pass remembers and forgets.
LEMMA ClosedIs ==
  ASSUME TypeOK, NEW t \in Nat, NEW c, c = Settled(t).closed
  PROVE  /\ c \in [Objects -> Nat]
         /\ \A o \in Objects : o \in Gone(t) => c[o] = t
         /\ \A o \in Objects : o \notin Gone(t) =>
              c[o] = closed[o] \/ (c[o] = 0 /\ t - closed[o] > Remember)
<1>1. c = IF Gone(t) = {} THEN closed
          ELSE [o \in Objects |-> IF o \in Gone(t) THEN t
                                  ELSE IF t - closed[o] > Remember THEN 0 ELSE closed[o]]
  BY Zenon DEF Settled, Remembered, Gone
<1>2. PICK G : G = Gone(t)
  OBVIOUS
<1>3. closed \in [Objects -> Nat]
  BY DEF TypeOK
<1>4. CASE G = {}
  BY <1>1, <1>2, <1>3, <1>4
<1>5. CASE G # {}
  <2>1. c = [o \in Objects |-> IF o \in G THEN t
                               ELSE IF t - closed[o] > Remember THEN 0 ELSE closed[o]]
    BY <1>1, <1>2, <1>5
  <2> QED BY <1>2, <1>3, <2>1
<1> QED BY <1>4, <1>5

\* A message of any other kind changes the incidents by the closing pass alone.
Quiet(t) == (\E m \in Reports : ObserveDetection(m, t)) \/ ObserveTick(t)

\* What every message does.
LEMMA MessageIs ==
  ASSUME NEW t, Quiet(t) \/ \E m \in Sightings(t) : ObserveSighting(m, t)
  PROVE  /\ closed' = Settled(t).closed /\ UNCHANGED <<world, began>> /\ Receive(t)
         /\ Quiet(t) => open' = Settled(t).open
BY DEF Quiet, ObserveSighting, ObserveDetection, ObserveTick

\* An open incident after a step is one that stood, or one that a message entered.
LEMMA Stood ==
  ASSUME TypeOK, NEW t \in ReceiveTimes, Quiet(t) \/ \E m \in Sightings(t) : ObserveSighting(m, t)
  PROVE  /\ \E S : open' \in Seq(S)
         /\ \A k \in 1 .. Len(open') :
              \/ \E i \in 1 .. Len(open) : open'[k] = open[i] /\ ~Expired(open[i], t)
              \/ \E m \in Sightings(t) : \E old :
                   /\ ObserveSighting(m, t)
                   /\ old = NewIncident \/ \E i \in 1 .. Len(open) : old = open[i] /\ ~Expired(open[i], t)
                   /\ open'[k] = Said(Absorbed(old, m, t), t).inc
<1>1. CASE Quiet(t)
  <2>1. open' = Settled(t).open
    BY <1>1, MessageIs
  <2>2. PICK so : so = Settled(t).open
    OBVIOUS
  <2>0. Left(so, t)
    BY <2>2, SettledIs
  <2>3. (\E S : so \in Seq(S)) /\ \A k \in 1 .. Len(so) :
          \E i \in 1 .. Len(open) : so[k] = open[i] /\ ~Expired(open[i], t)
    BY <2>0, Zenon DEF Left
  <2> QED BY <2>1, <2>2, <2>3
<1>2. CASE \E m \in Sightings(t) : ObserveSighting(m, t)
  <2>1. PICK m \in Sightings(t) : ObserveSighting(m, t)
    BY <1>2
  <2>2. \E S : open' \in Seq(S)
    BY <2>1, Enters
  <2>3. PICK so, i, old, r : so = Settled(t).open /\ Entered(so, open', i, old, r, m, t)
    BY <2>1, Enters
  <2>4. /\ \E S : so \in Seq(S)
        /\ \A k \in 1 .. Len(so) : \E n \in 1 .. Len(open) : so[k] = open[n] /\ ~Expired(open[n], t)
    <3>1. Left(so, t)
      BY <2>3, SettledIs
    <3> QED BY <3>1, Zenon DEF Left
  <2>5. old = NewIncident \/ \E n \in 1 .. Len(open) : old = open[n] /\ ~Expired(open[n], t)
    BY <2>3, <2>4 DEF Entered
  <2>6. ASSUME NEW k \in 1 .. Len(open'), k # i PROVE k \in 1 .. Len(so) /\ open'[k] = so[k]
    BY <2>3, <2>4, <2>6 DEF Entered
  <2>7. open'[i] = Said(Absorbed(old, m, t), t).inc
    BY <2>3 DEF Entered
  <2>8. ASSUME NEW k \in 1 .. Len(open'), k # i
        PROVE  \E n \in 1 .. Len(open) : open'[k] = open[n] /\ ~Expired(open[n], t)
    BY <2>4, <2>6, <2>8
  <2> QED BY <2>1, <2>2, <2>5, <2>7, <2>8
<1> QED BY <1>1, <1>2

\* Every step is a message or nothing.
LEMMA Steps ==
  ASSUME [Next]_vars
  PROVE  \/ UNCHANGED vars
         \/ \E t \in ReceiveTimes : Quiet(t) \/ \E m \in Sightings(t) : ObserveSighting(m, t)
BY DEF Next, Quiet

\* The first state.
LEMMA TypeInit ==
  ASSUME Init
  PROVE  TypeOK
<1>1. world \in World /\ open = <<>> /\ at = 1 /\ now = 1
      /\ closed = [o \in Objects |-> 0] /\ ended = [o \in Objects |-> 0]
  BY IncidentsAssumption DEF Init
<1>2. world.starts \in SUBSET (Nat \ {0}) /\ began \in [Objects -> world.starts]
  BY <1>1 DEF Init, World
<1>0. <<>> \in Seq({})
  OBVIOUS
<1>3. PICK e \in Seq({}) : e = open
  BY <1>0, <1>1, Zenon
<1>4. (\E S : open \in Seq(S)) /\ Len(open) = 0
  BY <1>1, <1>3
<1> QED BY <1>1, <1>2, <1>4 DEF TypeOK

\* Every step keeps the types.
LEMMA TypeStep ==
  ASSUME TypeOK, [Next]_vars
  PROVE  TypeOK'
<1>1. CASE UNCHANGED vars
  BY <1>1 DEF TypeOK, vars
<1>2. ASSUME NEW t \in ReceiveTimes, Quiet(t) \/ \E m \in Sightings(t) : ObserveSighting(m, t)
      PROVE  TypeOK'
  <2>1. t \in Nat
    BY <1>2, TimeIs
  <2>2. closed' \in [Objects -> Nat] /\ world' = world /\ began' = began /\ Receive(t)
    BY <1>2, <2>1, MessageIs, ClosedIs
  <2>3. at' \in Nat /\ now' \in Nat /\ ended' \in [Objects -> Nat]
    BY <2>1, <2>2 DEF Receive, TypeOK
  <2>4. \E S : open' \in Seq(S)
    BY <1>2, Stood
  <2>5. ASSUME NEW k \in 1 .. Len(open') PROVE IsIncident(open'[k]) /\ open'[k].members # <<>>
    <3>1. CASE \E i \in 1 .. Len(open) : open'[k] = open[i]
      BY <3>1 DEF TypeOK
    <3>2. CASE \E m \in Sightings(t) : \E old :
                 /\ old = NewIncident \/ \E i \in 1 .. Len(open) : old = open[i]
                 /\ open'[k] = Said(Absorbed(old, m, t), t).inc
      <4>0. PICK m \in Sightings(t) : \E old :
              /\ old = NewIncident \/ \E i \in 1 .. Len(open) : old = open[i]
              /\ open'[k] = Said(Absorbed(old, m, t), t).inc
        BY <3>2
      <4>1. PICK old :
              /\ old = NewIncident \/ \E i \in 1 .. Len(open) : old = open[i]
              /\ open'[k] = Said(Absorbed(old, m, t), t).inc
        BY <4>0
      <4>2. IsIncident(old)
        BY <4>1, NewIs DEF TypeOK
      <4>3. Message(m, began[m.object])
        BY <1>2, SightingIs
      <4>4. PICK r : r = open'[k]
        OBVIOUS
      <4>5. IsIncident(r) /\ r.members # <<>>
        BY <2>1, <4>1, <4>2, <4>3, <4>4, TakenIs
      <4> QED BY <4>4, <4>5
    <3> QED BY <1>2, <2>5, <3>1, <3>2, Stood
  <2> QED BY <2>2, <2>3, <2>4, <2>5 DEF TypeOK
<1> QED BY <1>1, <1>2, Steps

------------------------------------------------------------------------------
(***************************************************************************)
(* An object belongs to one incident.                                      *)
(***************************************************************************)
Apart(incs) ==
  /\ \A i \in 1 .. Len(incs) : Distinct(incs[i])
  /\ \A i, k \in 1 .. Len(incs) : i # k => Sources(incs[i]) \cap Sources(incs[k]) = {}

Unremembered(incs, c) == \A i \in 1 .. Len(incs) : \A o \in Sources(incs[i]) : c[o] = 0

OneInv == Apart(open) /\ Unremembered(open, closed)

\* Members are objects of an activity.
LEMMA SourcesIn ==
  ASSUME NEW inc, IsIncident(inc)
  PROVE  Sources(inc) \in SUBSET Activities /\ Activities \in SUBSET Objects
<1>1. PICK ms \in Seq(Member) : ms = inc.members
  BY DEF IsIncident
<1>2. \A j \in DOMAIN ms : ms[j] \in Member
  BY <1>1
<1>3. \A e \in Member : e.source \in Activities
  BY DEF Member
<1>4. Sources(inc) = {ms[j].source : j \in DOMAIN ms}
  BY <1>1 DEF Sources
<1> QED BY <1>2, <1>3, <1>4 DEF Activities

\* The open incidents' positions.
LEMMA Positions ==
  ASSUME TypeOK
  PROVE  /\ DOMAIN open = 1 .. Len(open) /\ Len(open) \in Nat
         /\ \A o : o \in MembersOf(open) <=> \E i \in 1 .. Len(open) : o \in Sources(open[i])
         /\ \A t, o : o \in Gone(t) <=> \E i \in 1 .. Len(open) : Expired(open[i], t) /\ o \in Sources(open[i])
<1>1. PICK S : open \in Seq(S)
  BY DEF TypeOK
<1>2. DOMAIN open = 1 .. Len(open) /\ Len(open) \in Nat
  BY <1>1
<1>3. \A o : o \in MembersOf(open) <=> \E i \in 1 .. Len(open) : o \in Sources(open[i])
  BY <1>2 DEF MembersOf
<1>4. \A t, o : o \in Gone(t) <=> \E i \in 1 .. Len(open) : Expired(open[i], t) /\ o \in Sources(open[i])
  BY <1>2 DEF Gone, Due
<1> QED BY <1>2, <1>3, <1>4

\* The closing pass keeps the incidents apart, and remembers none of their objects.
LEMMA LeftOne ==
  ASSUME TypeOK, OneInv, NEW t \in Nat, NEW so, Left(so, t), NEW c, c = Settled(t).closed
  PROVE  /\ Apart(so) /\ Unremembered(so, c)
         /\ \A k \in 1 .. Len(so) : Sources(so[k]) \cap Gone(t) = {}
<1>1. PICK f \in [1 .. Len(so) -> Nat] :
        /\ \A j \in 1 .. Len(so) :
             f[j] \in DOMAIN open \ Due(t) /\ f[j] \in 1 .. Len(open) /\ so[j] = open[f[j]]
        /\ \A j, k \in 1 .. Len(so) : j < k => f[j] < f[k]
  BY Zenon DEF Left, Picks
<1>2. PICK S : so \in Seq(S)
  BY DEF Left
<1>3. \A j, k \in 1 .. Len(so) : j # k => f[j] # f[k]
  BY <1>1, <1>2
<1>4. \A k \in 1 .. Len(so) : ~Expired(open[f[k]], t)
  BY <1>1 DEF Due
<1>5. Apart(so)
  <2>1. ASSUME NEW k \in 1 .. Len(so) PROVE Distinct(so[k])
    BY <1>1, <2>1 DEF OneInv, Apart
  <2>2. ASSUME NEW j \in 1 .. Len(so), NEW k \in 1 .. Len(so), j # k
        PROVE  Sources(so[j]) \cap Sources(so[k]) = {}
    <3>1. f[j] # f[k] /\ f[j] \in 1 .. Len(open) /\ f[k] \in 1 .. Len(open)
      BY <1>1, <1>3, <2>2
    <3>2. so[j] = open[f[j]] /\ so[k] = open[f[k]]
      BY <1>1, <2>2
    <3> QED BY <3>1, <3>2 DEF OneInv, Apart
  <2> QED BY <2>1, <2>2 DEF Apart
<1>6. ASSUME NEW k \in 1 .. Len(so), NEW o \in Sources(so[k]), o \in Gone(t) PROVE FALSE
  <2>1. PICK i \in 1 .. Len(open) : Expired(open[i], t) /\ o \in Sources(open[i])
    BY <1>6, Positions
  <2>2. i # f[k] /\ f[k] \in 1 .. Len(open) /\ o \in Sources(open[f[k]])
    BY <1>1, <1>4, <1>6, <2>1
  <2> QED BY <2>1, <2>2 DEF OneInv, Apart
<1>7. ASSUME NEW k \in 1 .. Len(so), NEW o \in Sources(so[k]) PROVE c[o] = 0
  <2>1. f[k] \in 1 .. Len(open) /\ o \in Sources(open[f[k]])
    BY <1>1, <1>7
  <2>2. closed[o] = 0 /\ IsIncident(open[f[k]])
    BY <2>1 DEF OneInv, Unremembered, TypeOK
  <2>3. o \in Objects
    BY <2>1, <2>2, SourcesIn
  <2>4. o \notin Gone(t)
    BY <1>6, <1>7
  <2> QED BY <2>2, <2>3, <2>4, ClosedIs
<1> QED BY <1>5, <1>6, <1>7 DEF Unremembered

\* The incidents op hold what those of so hold, and o.
Widened(so, op, o) ==
  /\ \A k \in 1 .. Len(so) : k \in 1 .. Len(op) /\ Sources(so[k]) \in SUBSET Sources(op[k])
  /\ \A k \in 1 .. Len(op) :
       Sources(op[k]) \in SUBSET ((IF k \in 1 .. Len(so) THEN Sources(so[k]) ELSE {}) \cup {o})

\* What a sighting adds to its incident's objects is its own, which no other holds.
LEMMA EnteredOne ==
  ASSUME TypeOK, OneInv, NEW t \in ReceiveTimes, NEW m \in Sightings(t), ObserveSighting(m, t)
  PROVE  /\ Apart(open') /\ Unremembered(open', closed')
         /\ \E so : so = Settled(t).open /\ Widened(so, open', m.object)
         /\ Settled(t).closed[m.object] = 0
<1>1. PICK so, i, old, r : so = Settled(t).open /\ Entered(so, open', i, old, r, m, t)
  BY Enters
<1>2. Left(so, t) /\ t \in Nat
  BY <1>1, SettledIs, TimeIs
<1>3. PICK c : c = Settled(t).closed
  OBVIOUS
<1>4. Apart(so) /\ Unremembered(so, c)
  BY <1>2, <1>3, LeftOne
<1>5. c[m.object] = 0 /\ closed' = c
  BY <1>3 DEF ObserveSighting, Ignored
<1>6. PICK S : so \in Seq(S)
  BY <1>2 DEF Left
<1>7. PICK l \in Nat : l = Len(so)
  BY <1>6
<1>8. /\ i \in 1 .. l + 1 /\ old = (IF i <= l THEN so[i] ELSE NewIncident)
      /\ r = Said(Absorbed(old, m, t), t).inc
      /\ Len(open') = IF i <= l THEN l ELSE i
      /\ open'[i] = r /\ \A k \in 1 .. l : k # i => open'[k] = so[k]
      /\ (\E k \in 1 .. l : m.object \in Sources(so[k])) => i \in 1 .. l /\ m.object \in Sources(so[i])
  BY <1>1, <1>7 DEF Entered
<1>9. Sources(NewIncident) = {} /\ Distinct(NewIncident) /\ IsIncident(NewIncident)
  BY NewIs DEF Sources, Distinct
<1>10. IsIncident(old) /\ Distinct(old)
  <2>1. ASSUME NEW k \in 1 .. l PROVE IsIncident(so[k]) /\ Distinct(so[k])
    BY <1>2, <1>4, <1>7, <2>1 DEF Left, Apart, TypeOK
  <2> QED BY <1>8, <1>9, <2>1
<1>11. Message(m, began[m.object])
  BY SightingIs
<1>12. Sources(r) = Sources(old) \cup {m.object} /\ Distinct(r)
  <2>1. r = Said(Absorbed(old, m, t), t).inc
    BY <1>8
  <2> QED BY <1>2, <1>10, <1>11, <2>1, TakenIs, SMTT(30)
<1>13. Sources(old) = IF i \in 1 .. l THEN Sources(so[i]) ELSE {}
  BY <1>8, <1>9
<1>14. \A k \in 1 .. Len(open') : k = i \/ (k \in 1 .. l /\ k # i /\ open'[k] = so[k])
  BY <1>8
<1>15. ASSUME NEW k \in 1 .. l, k # i PROVE Sources(so[k]) \cap Sources(r) = {}
  <2>1. m.object \notin Sources(so[k])
    <3>1. ASSUME m.object \in Sources(so[k]) PROVE FALSE
      <4>1. i \in 1 .. l /\ m.object \in Sources(so[i])
        BY <1>8, <1>15, <3>1
      <4> QED BY <1>4, <1>7, <1>15, <3>1, <4>1 DEF Apart
    <3> QED BY <3>1
  <2>2. Sources(so[k]) \cap Sources(old) = {}
    BY <1>4, <1>7, <1>13, <1>15 DEF Apart
  <2> QED BY <1>12, <2>1, <2>2
<1>16. Apart(open')
  <2>1. \A k \in 1 .. Len(open') : Distinct(open'[k])
    BY <1>4, <1>7, <1>8, <1>12, <1>14 DEF Apart
  <2>2. ASSUME NEW j \in 1 .. Len(open'), NEW k \in 1 .. Len(open'), j # k
        PROVE  Sources(open'[j]) \cap Sources(open'[k]) = {}
    <3>1. CASE j = i
      BY <1>8, <1>14, <1>15, <2>2, <3>1
    <3>2. CASE k = i
      BY <1>8, <1>14, <1>15, <2>2, <3>2
    <3>3. CASE j # i /\ k # i
      BY <1>4, <1>7, <1>14, <2>2, <3>3 DEF Apart
    <3> QED BY <3>1, <3>2, <3>3
  <2> QED BY <2>1, <2>2 DEF Apart
<1>17. Unremembered(open', closed')
  <2>1. ASSUME NEW k \in 1 .. Len(open'), NEW o \in Sources(open'[k]) PROVE c[o] = 0
    <3>1. CASE k = i
      <4>1. o = m.object \/ (i \in 1 .. l /\ o \in Sources(so[i]))
        BY <1>8, <1>12, <1>13, <2>1, <3>1
      <4> QED BY <1>4, <1>5, <1>7, <4>1 DEF Unremembered
    <3>2. CASE k # i
      BY <1>4, <1>7, <1>14, <2>1, <3>2 DEF Unremembered
    <3> QED BY <3>1, <3>2
  <2> QED BY <1>5, <2>1 DEF Unremembered
<1>18. \A k \in 1 .. l : k \in 1 .. Len(open') /\ Sources(so[k]) \in SUBSET Sources(open'[k])
  <2>1. ASSUME NEW k \in 1 .. l PROVE k \in 1 .. Len(open') /\ Sources(so[k]) \in SUBSET Sources(open'[k])
    <3>1. k \in 1 .. Len(open')
      BY <1>8
    <3>2. CASE k = i
      BY <1>8, <1>12, <1>13, <3>1, <3>2
    <3>3. CASE k # i
      BY <1>8, <3>1, <3>3
    <3> QED BY <3>2, <3>3
  <2> QED BY <2>1
<1>19. \A k \in 1 .. Len(open') : Sources(open'[k]) \in SUBSET
         ((IF k \in 1 .. l THEN Sources(so[k]) ELSE {}) \cup {m.object})
  BY <1>8, <1>12, <1>13, <1>14
<1>20. Widened(so, open', m.object)
  BY <1>7, <1>18, <1>19 DEF Widened
<1> QED BY <1>1, <1>3, <1>5, <1>16, <1>17, <1>20

\* The members of a sequence of incidents.
LEMMA MembersIs ==
  ASSUME NEW S, NEW s \in Seq(S)
  PROVE  \A o : o \in MembersOf(s) <=> \E i \in 1 .. Len(s) : o \in Sources(s[i])
BY DEF MembersOf

\* Who leaves the open incidents in a step, and who comes.
LEMMA GoneIs ==
  ASSUME TypeOK, OneInv, NEW t \in ReceiveTimes, Quiet(t) \/ \E m \in Sightings(t) : ObserveSighting(m, t)
  PROVE  /\ MembersOf(open) \ MembersOf(open') = Gone(t)
         /\ \A o \in MembersOf(open') \ MembersOf(open) : o \in Objects /\ Settled(t).closed[o] = 0
<1>1. PICK so : so = Settled(t).open
  OBVIOUS
<1>2. t \in Nat /\ t >= 1 /\ Left(so, t)
  BY <1>1, SettledIs, TimeIs
<1>3. PICK c : c = Settled(t).closed
  OBVIOUS
<1>4. Apart(so) /\ Unremembered(so, c) /\ \A k \in 1 .. Len(so) : Sources(so[k]) \cap Gone(t) = {}
  BY <1>2, <1>3, LeftOne
<1>5. \A o : o \in MembersOf(open') <=> \E k \in 1 .. Len(open') : o \in Sources(open'[k])
  BY Stood, MembersIs
<1>6. /\ \A j \in 1 .. Len(so) : \E i \in 1 .. Len(open) : so[j] = open[i] /\ ~Expired(open[i], t)
      /\ \A i \in 1 .. Len(open) : ~Expired(open[i], t) => \E j \in 1 .. Len(so) : so[j] = open[i]
  BY <1>2, Zenon DEF Left
<1>7. ASSUME NEW o PROVE (\E j \in 1 .. Len(so) : o \in Sources(so[j])) <=> o \in MembersOf(open) \ Gone(t)
  <2>1. ASSUME NEW j \in 1 .. Len(so), o \in Sources(so[j]) PROVE o \in MembersOf(open) \ Gone(t)
    BY <1>4, <1>6, <2>1, Positions
  <2>2. ASSUME o \in MembersOf(open) \ Gone(t) PROVE \E j \in 1 .. Len(so) : o \in Sources(so[j])
    <3>1. PICK i \in 1 .. Len(open) : o \in Sources(open[i]) /\ ~Expired(open[i], t)
      BY <2>2, Positions
    <3> QED BY <1>6, <3>1
  <2> QED BY <2>1, <2>2
<1>8. Gone(t) \in SUBSET MembersOf(open)
  BY Positions
<1>9. CASE Quiet(t)
  <2>1. open' = so
    BY <1>1, <1>9, MessageIs
  <2>2. \A o : o \in MembersOf(open') <=> o \in MembersOf(open) \ Gone(t)
    BY <1>5, <1>7, <2>1
  <2> QED BY <1>8, <2>2
<1>10. CASE \E m \in Sightings(t) : ObserveSighting(m, t)
  <2>1. PICK m \in Sightings(t) : ObserveSighting(m, t)
    BY <1>10
  <2>2. PICK o : o = m.object
    OBVIOUS
  <2>3. Widened(so, open', o) /\ c[o] = 0 /\ o \in Objects
    BY <1>1, <1>3, <2>1, <2>2, EnteredOne, SightingIs
  <2>4. o \notin Gone(t)
    BY <1>2, <1>3, <2>3, ClosedIs
  <2>5. \A x : x \in MembersOf(open) \ Gone(t) => x \in MembersOf(open')
    <3>1. ASSUME NEW x \in MembersOf(open) \ Gone(t) PROVE x \in MembersOf(open')
      <4>1. PICK j \in 1 .. Len(so) : x \in Sources(so[j])
        BY <1>7, <3>1
      <4>2. j \in 1 .. Len(open') /\ x \in Sources(open'[j])
        BY <2>3, <4>1 DEF Widened
      <4> QED BY <1>5, <4>2
    <3> QED BY <3>1
  <2>6. \A x : x \in MembersOf(open') => x = o \/ x \in MembersOf(open) \ Gone(t)
    <3>1. ASSUME NEW x \in MembersOf(open'), x # o PROVE x \in MembersOf(open) \ Gone(t)
      <4>1. PICK k \in 1 .. Len(open') : x \in Sources(open'[k])
        BY <1>5, <3>1
      <4>2. k \in 1 .. Len(so) /\ x \in Sources(so[k])
        BY <2>3, <3>1, <4>1 DEF Widened
      <4> QED BY <1>7, <4>2
    <3> QED BY <3>1
  <2> QED BY <1>3, <1>8, <2>3, <2>4, <2>5, <2>6
<1> QED BY <1>9, <1>10

\* The first state.
LEMMA OneInit ==
  ASSUME Init
  PROVE  OneInv
<1>1. open = <<>>
  BY DEF Init
<1>2. Len(open) = 0
  BY <1>1
<1> QED BY <1>2 DEF OneInv, Apart, Unremembered

\* Every step keeps the incidents apart.
LEMMA OneStep ==
  ASSUME TypeOK, OneInv, [Next]_vars
  PROVE  OneInv'
<1>1. CASE UNCHANGED vars
  BY <1>1 DEF OneInv, Apart, Unremembered, vars
<1>2. ASSUME NEW t \in ReceiveTimes, Quiet(t) PROVE OneInv'
  <2>1. open' = Settled(t).open /\ closed' = Settled(t).closed
    BY <1>2, MessageIs
  <2>2. PICK so : so = Settled(t).open
    OBVIOUS
  <2>3. PICK c : c = Settled(t).closed
    OBVIOUS
  <2>4. Apart(so) /\ Unremembered(so, c)
    BY <1>2, <2>2, <2>3, SettledIs, TimeIs, LeftOne
  <2> QED BY <2>1, <2>2, <2>3, <2>4 DEF OneInv
<1>3. ASSUME NEW t \in ReceiveTimes, NEW m \in Sightings(t), ObserveSighting(m, t) PROVE OneInv'
  BY <1>3, EnteredOne DEF OneInv
<1> QED BY <1>1, <1>2, <1>3, Steps

\* An object is a member of one open incident, once, and never of one while it is
\* remembered as a straggler of another (incidents.go Observe).
THEOREM AlwaysOneIncident == Spec => []OneIncident
<1>1. Init => TypeOK /\ OneInv
  BY TypeInit, OneInit
<1>2. TypeOK /\ OneInv /\ [Next]_vars => (TypeOK /\ OneInv)'
  BY TypeStep, OneStep
<1>3. TypeOK /\ OneInv => OneIncident
  <2> SUFFICES ASSUME TypeOK, OneInv PROVE OneIncident
    OBVIOUS
  <2>1. DOMAIN open = 1 .. Len(open)
    BY Positions
  <2>2. ASSUME NEW i \in DOMAIN open
        PROVE  IsInjective([j \in DOMAIN open[i].members |-> open[i].members[j].source])
    <3>1. PICK ms \in Seq(Member) : ms = open[i].members
      BY <2>1, <2>2 DEF TypeOK, IsIncident
    <3>2. \A j, k \in 1 .. Len(ms) : ms[j].source = ms[k].source => j = k
      BY <2>1, <2>2, <3>1 DEF OneInv, Apart, Distinct
    <3>3. DOMAIN ms = 1 .. Len(ms)
      BY <3>1
    <3>4. IsInjective([j \in DOMAIN ms |-> ms[j].source])
      BY <3>2, <3>3 DEF IsInjective
    <3> QED BY <3>1, <3>4
  <2>3. \A i, j \in DOMAIN open : i # j => Sources(open[i]) \cap Sources(open[j]) = {}
    BY <2>1 DEF OneInv, Apart
  <2>4. \A o \in MembersOf(open) : closed[o] = 0
    BY Positions DEF OneInv, Unremembered
  <2> QED BY <2>2, <2>3, <2>4 DEF OneIncident
<1> QED BY <1>1, <1>2, <1>3, PTL DEF Spec

\* An incident's evidence stays within the cap, and thinning never loses its opening
\* (incidents.go addBox).
THEOREM BoxesAlwaysKeepOpening == Spec => []BoxesKeepOpening
<1>1. TypeOK => BoxesKeepOpening
  <2> SUFFICES ASSUME TypeOK PROVE BoxesKeepOpening
    OBVIOUS
  <2>1. DOMAIN open = 1 .. Len(open)
    BY Positions
  <2> QED BY <2>1 DEF BoxesKeepOpening, TypeOK, IsIncident, Opened
<1>2. Init => TypeOK
  BY TypeInit
<1>3. TypeOK /\ [Next]_vars => TypeOK'
  BY TypeStep
<1> QED BY <1>1, <1>2, <1>3, PTL DEF Spec

------------------------------------------------------------------------------
(***************************************************************************)
(* Stragglers stay out.                                                    *)
(***************************************************************************)
\* An object whose incident was closed is remembered since then, until Remember has
\* passed by the latest clock.
StragInv ==
  \A o \in Objects : ended[o] # 0 =>
    closed[o] = ended[o] \/ (closed[o] = 0 /\ now - ended[o] > Remember)

\* The first state.
LEMMA StragInit ==
  ASSUME Init
  PROVE  StragInv
BY DEF Init, StragInv

\* Every step keeps it.
LEMMA StragStep ==
  ASSUME TypeOK, OneInv, StragInv, [Next]_vars
  PROVE  StragInv'
<1>1. CASE UNCHANGED vars
  BY <1>1 DEF StragInv, vars, Remember
<1>2. ASSUME NEW t \in ReceiveTimes, Quiet(t) \/ \E m \in Sightings(t) : ObserveSighting(m, t)
      PROVE  StragInv'
  <2>1. t \in Nat /\ t >= 1 /\ Remember \in Nat /\ now \in Nat /\ ended \in [Objects -> Nat]
        /\ closed \in [Objects -> Nat]
    BY <1>2, TimeIs DEF TypeOK
  <2>2. closed' = Settled(t).closed /\ world' = world
    BY <1>2, MessageIs
  <2>3. MembersOf(open) \ MembersOf(open') = Gone(t)
    BY <1>2, GoneIs
  <2>4. /\ now' = IF t > now THEN t ELSE now
        /\ ended' = [o \in Objects |-> IF o \in MembersOf(open) \ MembersOf(open') THEN t ELSE ended[o]]
    BY <1>2, MessageIs, Zenon DEF Receive
  <2>5. Remember' = Remember
    BY <2>2 DEF Remember
  <2>6. ASSUME NEW o \in Objects, ended'[o] # 0
        PROVE  closed'[o] = ended'[o] \/ (closed'[o] = 0 /\ now' - ended'[o] > Remember)
    <3>1. CASE o \in Gone(t)
      BY <2>1, <2>2, <2>3, <2>4, <3>1, ClosedIs
    <3>2. CASE o \notin Gone(t)
      <4>1. ended'[o] = ended[o]
        BY <2>3, <2>4, <3>2
      <4>2. closed'[o] = closed[o] \/ (closed'[o] = 0 /\ t - closed[o] > Remember)
        BY <2>1, <2>2, <3>2, ClosedIs
      <4>3. closed[o] = ended[o] \/ (closed[o] = 0 /\ now - ended[o] > Remember)
        BY <2>6, <4>1 DEF StragInv
      <4>4. now' \in Nat /\ now' >= now /\ now' >= t /\ ended[o] \in Nat
        BY <2>1, <2>4
      <4> QED BY <2>1, <4>1, <4>2, <4>3, <4>4
    <3> QED BY <3>1, <3>2
  <2> QED BY <2>5, <2>6 DEF StragInv
<1> QED BY <1>1, <1>2, Steps

\* An object whose incident has ended is not taken into another before Remember, less
\* the clock's skew, has passed, however late its stragglers come (incidents.go closed).
THEOREM StragglersAlwaysStayOut == Spec => StragglersStayOut
<1>1. Init => TypeOK /\ OneInv /\ StragInv
  BY TypeInit, OneInit, StragInit
<1>2. TypeOK /\ OneInv /\ StragInv /\ [Next]_vars => (TypeOK /\ OneInv /\ StragInv)'
  BY TypeStep, OneStep, StragStep
<1>3. TypeOK /\ OneInv /\ StragInv /\ [Next]_vars =>
        [\A o \in MembersOf(open') \ MembersOf(open) : ended[o] # 0 => at' - ended[o] > Remember - Skew]_vars
  <2> SUFFICES ASSUME TypeOK, OneInv, StragInv, NEW t \in ReceiveTimes,
                      Quiet(t) \/ \E m \in Sightings(t) : ObserveSighting(m, t),
                      NEW o \in MembersOf(open') \ MembersOf(open), ended[o] # 0
               PROVE  at' - ended[o] > Remember - Skew
    BY Steps
  <2>1. /\ t \in Nat /\ t >= 1 /\ t >= now - Skew /\ Skew \in Nat /\ Remember \in Nat /\ now \in Nat
        /\ ended \in [Objects -> Nat] /\ closed \in [Objects -> Nat]
    BY TimeIs DEF TypeOK
  <2>2. at' = t
    BY MessageIs DEF Receive
  <2>3. o \in Objects /\ Settled(t).closed[o] = 0
    BY GoneIs
  <2>4. o \notin Gone(t)
    BY GoneIs
  <2>5. closed[o] = 0 \/ t - closed[o] > Remember
    BY <2>1, <2>3, <2>4, ClosedIs
  <2>6. closed[o] = ended[o] \/ (closed[o] = 0 /\ now - ended[o] > Remember)
    BY <2>3 DEF StragInv
  <2> QED BY <2>1, <2>2, <2>3, <2>5, <2>6
<1> QED BY <1>1, <1>2, <1>3, PTL DEF Spec, StragglersStayOut

------------------------------------------------------------------------------
(***************************************************************************)
(* The count of a label is what was on screen together.                    *)
(***************************************************************************)
\* The greatest of a bounded set of numbers.
LEMMA MaxIs ==
  ASSUME NEW B \in SUBSET Nat, B # {}, NEW N \in Nat, \A i \in B : i <= N
  PROVE  Max(B) \in B /\ \A i \in B : i <= Max(B)
<1>1. PICK U : U = {n \in Nat : \A i \in B : i <= n}
  OBVIOUS
<1>2. PICK n \in U : \A i \in U : ~ (i < n)
  BY <1>1, Smallest
<1>3. n \in B
  <2>1. ASSUME n \notin B PROVE FALSE
    <3>1. n \in Nat /\ \A i \in B : i < n
      BY <1>1, <1>2, <2>1
    <3>2. PICK b \in B : b \in Nat /\ b < n
      BY <3>1
    <3>3. PICK p \in Nat : p = n - 1
      BY <3>1, <3>2
    <3>4. \A i \in B : i <= p
      BY <3>1, <3>3
    <3>5. p \in U /\ p < n
      BY <1>1, <3>1, <3>3, <3>4
    <3> QED BY <1>2, <3>5
  <2> QED BY <2>1
<1> QED BY <1>1, <1>2, <1>3 DEF Max

\* Numbers in a list have a bound.
LEMMA Bounded ==
  ASSUME NEW v, NEW l \in Nat, \A i \in 1 .. l : v[i] \in Nat
  PROVE  \E N \in Nat : \A i \in 1 .. l : v[i] <= N
<1> DEFINE Bad == {n \in Nat : n <= l /\ ~ \E N \in Nat : \A i \in 1 .. n : v[i] <= N}
<1>1. ASSUME Bad # {} PROVE FALSE
  <2>1. PICK n \in Bad : \A i \in Bad : ~ (i < n)
    <3>1. Bad \in SUBSET Nat
      OBVIOUS
    <3> QED BY <1>1, <3>1, Smallest
  <2>2. n # 0
    <3>1. \A i \in 1 .. 0 : v[i] <= 0
      OBVIOUS
    <3>2. \E N \in Nat : \A i \in 1 .. 0 : v[i] <= N
      BY <3>1
    <3>3. ~ \E N \in Nat : \A i \in 1 .. n : v[i] <= N
      BY <2>1
    <3> QED BY <3>2, <3>3
  <2>a. n \in Nat /\ n <= l
    BY <2>1
  <2>3. n - 1 \in Nat /\ n - 1 <= l /\ n - 1 \notin Bad /\ n \in 1 .. l
    <3>1. n - 1 \in Nat /\ n - 1 <= l /\ n - 1 < n /\ n \in 1 .. l
      BY <2>2, <2>a
    <3> QED BY <2>1, <3>1
  <2>4. PICK N \in Nat : \A i \in 1 .. n - 1 : v[i] <= N
    BY <2>3
  <2>5. PICK M \in Nat : M >= N /\ M >= v[n]
    <3>1. CASE v[n] <= N
      BY <3>1
    <3>2. CASE ~(v[n] <= N)
      BY <2>3, <3>2
    <3> QED BY <3>1, <3>2
  <2>6. \A i \in 1 .. n : v[i] <= M
    <3>1. ASSUME NEW i \in 1 .. n PROVE v[i] <= M
      <4>1. CASE i = n
        BY <2>5, <4>1
      <4>2. CASE i # n
        BY <2>1, <2>3, <2>4, <2>5, <4>2
      <4> QED BY <4>1, <4>2
    <3> QED BY <3>1
  <2> QED BY <2>1, <2>6
<1>2. l \notin Bad
  BY <1>1
<1> QED BY <1>2

\* Together, said of every two members.
LEMMA TogetherIs ==
  ASSUME NEW ms \in Seq(Member), NEW t \in Nat, NEW S \in SUBSET (1 .. Len(ms)), S # {}
  PROVE  Together(ms, S, t) <=> \A i, j \in S :
           Alike(ms[i], ms[j]) /\ LiveEnd(ms[i], t) >= ms[j].start + Overlap
<1>0. Overlap \in Nat /\ Len(ms) \in Nat
  BY IncidentsAssumption
<1>1. \A i \in 1 .. Len(ms) : ms[i].start \in Nat /\ LiveEnd(ms[i], t) \in Nat
  <2>1. \A i \in 1 .. Len(ms) : ms[i] \in Member
    OBVIOUS
  <2>2. \A e \in Member : e.start \in Nat /\ LiveEnd(e, t) \in Nat
    BY DEF Member, LiveEnd
  <2> QED BY <2>1, <2>2
<1>2. PICK E : E = {LiveEnd(ms[i], t) : i \in S}
  OBVIOUS
<1>3. PICK B : B = {ms[i].start : i \in S}
  OBVIOUS
<1>4. E \in SUBSET Nat /\ E # {} /\ B \in SUBSET Nat /\ B # {}
  BY <1>1, <1>2, <1>3
<1>5. PICK v : v = [i \in 1 .. Len(ms) |-> ms[i].start]
  OBVIOUS
<1>6. PICK N \in Nat : \A i \in 1 .. Len(ms) : v[i] <= N
  BY <1>0, <1>1, <1>5, Bounded
<1>7. \A b \in B : b <= N
  BY <1>3, <1>5, <1>6
<1>8. Min(E) \in E /\ \A e \in E : Min(E) <= e
  BY <1>4, MinIs
<1>9. Max(B) \in B /\ \A b \in B : b <= Max(B)
  BY <1>4, <1>7, MaxIs
<1>10. Together(ms, S, t) <=> (\A i, j \in S : Alike(ms[i], ms[j])) /\ Min(E) - Max(B) >= Overlap
  BY <1>2, <1>3 DEF Together
<1>11. Min(E) - Max(B) >= Overlap <=> \A e \in E, b \in B : e >= b + Overlap
  <2>1. PICK x \in E : x = Min(E)
    BY <1>8
  <2>2. PICK y \in B : y = Max(B)
    BY <1>9
  <2>3. x \in Nat /\ y \in Nat /\ (\A e \in E : e \in Nat /\ x <= e) /\ \A b \in B : b \in Nat /\ b <= y
    BY <1>4, <1>8, <1>9, <2>1, <2>2
  <2>4. x - y >= Overlap <=> x >= y + Overlap
    BY <1>0, <2>3
  <2>5. ASSUME x >= y + Overlap, NEW e \in E, NEW b \in B PROVE e >= b + Overlap
    BY <1>0, <2>3, <2>5
  <2> QED BY <2>1, <2>2, <2>4, <2>5
<1>12. (\A e \in E, b \in B : e >= b + Overlap)
       <=> \A i, j \in S : LiveEnd(ms[i], t) >= ms[j].start + Overlap
  BY <1>2, <1>3
<1> QED BY <1>10, <1>11, <1>12

\* Those like the i-th member that started no later and are live once it has been for
\* Overlap.
With(ms, i, t) ==
  {k \in DOMAIN ms : /\ Alike(ms[i], ms[k]) /\ ms[k].start <= ms[i].start
                     /\ LiveEnd(ms[k], t) >= ms[i].start + Overlap}

\* What the i-th member anchors.
LEMMA WithIs ==
  ASSUME NEW ms \in Seq(Member), NEW t \in Nat, NEW i \in 1 .. Len(ms)
  PROVE  /\ \/ Concurrent(ms, ms[i], t) = 1 /\ ~(LiveEnd(ms[i], t) >= ms[i].start + Overlap)
            \/ /\ Concurrent(ms, ms[i], t) = Cardinality(With(ms, i, t))
               /\ i \in With(ms, i, t) /\ Together(ms, With(ms, i, t), t)
         /\ Concurrent(ms, ms[i], t) \in 1 .. Len(ms)
<1>0. Overlap \in Nat /\ Len(ms) \in Nat /\ DOMAIN ms = 1 .. Len(ms)
  BY IncidentsAssumption
<1>1. \A k \in 1 .. Len(ms) : ms[k].start \in Nat /\ LiveEnd(ms[k], t) \in Nat
  <2>1. \A k \in 1 .. Len(ms) : ms[k] \in Member
    OBVIOUS
  <2>2. \A e \in Member : e.start \in Nat /\ LiveEnd(e, t) \in Nat
    BY DEF Member, LiveEnd
  <2> QED BY <2>1, <2>2
<1>2. CASE LiveEnd(ms[i], t) < ms[i].start + Overlap
  <2>1. Concurrent(ms, ms[i], t) = 1
    BY <1>2 DEF Concurrent
  <2> QED BY <1>0, <1>1, <1>2, <2>1
<1>3. CASE ~(LiveEnd(ms[i], t) < ms[i].start + Overlap)
  <2>1. PICK W : W = With(ms, i, t)
    OBVIOUS
  <2>2. Concurrent(ms, ms[i], t) = Cardinality(W)
    BY <1>3, <2>1, Zenon DEF Concurrent, With
  <2>3. W \in SUBSET (1 .. Len(ms)) /\ i \in W
    BY <1>0, <1>1, <1>3, <2>1 DEF With, Alike
  <2>4. \A j, k \in W : Alike(ms[j], ms[k]) /\ LiveEnd(ms[j], t) >= ms[k].start + Overlap
    BY <1>0, <1>1, <2>1, <2>3, SMTT(30) DEF With, Alike
  <2>5. Together(ms, W, t)
    BY <2>3, <2>4, TogetherIs
  <2>6. IsFiniteSet(1 .. Len(ms)) /\ Cardinality(1 .. Len(ms)) = Len(ms)
    BY <1>0, FS_Interval, SMTT(30)
  <2>7. IsFiniteSet(W) /\ Cardinality(W) <= Len(ms) /\ Cardinality(W) \in Nat
    BY <2>3, <2>6, FS_Subset, FS_CardinalityType
  <2>8. Cardinality(W) # 0
    BY <2>3, <2>7, FS_EmptySet
  <2> QED BY <1>0, <2>1, <2>2, <2>3, <2>5, <2>7, <2>8
<1> QED BY <1>2, <1>3

\* Those together are all counted with the one of them that started last.
LEMMA LastCounts ==
  ASSUME NEW ms \in Seq(Member), NEW t \in Nat, NEW S \in SUBSET (1 .. Len(ms)), S # {},
         Together(ms, S, t)
  PROVE  \E i \in S : Cardinality(S) <= Concurrent(ms, ms[i], t)
<1>0. Len(ms) \in Nat /\ DOMAIN ms = 1 .. Len(ms)
  OBVIOUS
<1>1. \A k \in 1 .. Len(ms) : ms[k].start \in Nat /\ LiveEnd(ms[k], t) \in Nat
  <2>1. \A k \in 1 .. Len(ms) : ms[k] \in Member
    OBVIOUS
  <2>2. \A e \in Member : e.start \in Nat /\ LiveEnd(e, t) \in Nat
    BY DEF Member, LiveEnd
  <2> QED BY <2>1, <2>2
<1>2. PICK B : B = {ms[i].start : i \in S}
  OBVIOUS
<1>3. PICK v : v = [i \in 1 .. Len(ms) |-> ms[i].start]
  OBVIOUS
<1>4. PICK N \in Nat : \A i \in 1 .. Len(ms) : v[i] <= N
  BY <1>0, <1>1, <1>3, Bounded
<1>5. B \in SUBSET Nat /\ B # {} /\ \A b \in B : b <= N
  BY <1>1, <1>2, <1>3, <1>4
<1>6. Max(B) \in B /\ \A b \in B : b <= Max(B)
  BY <1>5, MaxIs
<1>7. PICK i \in S : \A k \in S : ms[k].start <= ms[i].start
  BY <1>2, <1>6
<1>8. \A k, j \in S : Alike(ms[k], ms[j]) /\ LiveEnd(ms[k], t) >= ms[j].start + Overlap
  BY TogetherIs
<1>9. PICK W : W = With(ms, i, t)
  OBVIOUS
<1>10. S \in SUBSET W
  BY <1>0, <1>7, <1>8, <1>9 DEF With
<1>11. LiveEnd(ms[i], t) >= ms[i].start + Overlap
  BY <1>8
<1>12. Concurrent(ms, ms[i], t) = Cardinality(W)
  BY <1>9, <1>11, WithIs
<1>13. IsFiniteSet(W)
  <2>1. IsFiniteSet(1 .. Len(ms))
    BY <1>0, FS_Interval
  <2>2. W \in SUBSET (1 .. Len(ms))
    BY <1>0, <1>9 DEF With
  <2> QED BY <2>1, <2>2, FS_Subset
<1>14. Cardinality(S) <= Cardinality(W)
  BY <1>10, <1>13, FS_Subset
<1> QED BY <1>12, <1>14

\* A set of numbers as far up as another has its maximum.
LEMMA SameMax ==
  ASSUME NEW B \in SUBSET Nat, NEW C \in SUBSET Nat, B # {}, C # {},
         NEW N \in Nat, \A b \in B : b <= N, \A c \in C : c <= N,
         \A b \in B : \E c \in C : b <= c, \A c \in C : \E b \in B : c <= b
  PROVE  Max(B) = Max(C)
<1>1. PICK x \in B : x = Max(B) /\ \A b \in B : b <= x
  BY MaxIs
<1>2. PICK y \in C : y = Max(C) /\ \A c \in C : c <= y
  BY MaxIs
<1>3. x <= y
  <2>1. PICK c \in C : x <= c
    OBVIOUS
  <2> QED BY <1>2, <2>1
<1>4. y <= x
  <2>1. PICK b \in B : y <= b
    OBVIOUS
  <2> QED BY <1>1, <2>1
<1> QED BY <1>1, <1>2, <1>3, <1>4

\* The sets of members of one label that were together.
Sets(ms, l, t) ==
  {R \in SUBSET {j \in DOMAIN ms : LabelOf[ms[j].source] = l} : R # {} /\ Together(ms, R, t)}

\* Taken over every member of a label, what they anchor comes to the largest set of
\* them that was together.
LEMMA CountIs ==
  ASSUME NEW ms \in Seq(Member), NEW t \in Nat, NEW l \in DOMAIN Counts(ms, t)
  PROVE  Counts(ms, t)[l] = Max({1} \cup {Cardinality(S) : S \in Sets(ms, l, t)})
<1>0. Len(ms) \in Nat /\ DOMAIN ms = 1 .. Len(ms)
  OBVIOUS
<1>1. PICK L : L = {j \in 1 .. Len(ms) : LabelOf[ms[j].source] = l}
  OBVIOUS
<1>2. l \in {LabelOf[ms[i].source] : i \in DOMAIN ms}
  BY DEF Counts
<1>3. L # {} /\ L \in SUBSET (1 .. Len(ms))
  BY <1>0, <1>1, <1>2
<1>4. PICK B : B = {Concurrent(ms, ms[i], t) : i \in L}
  OBVIOUS
<1>5. Counts(ms, t)[l] = Max(B)
  BY <1>0, <1>1, <1>2, <1>4 DEF Counts
<1>6. PICK C : C = {1} \cup {Cardinality(S) : S \in Sets(ms, l, t)}
  OBVIOUS
<1>7. \A S \in Sets(ms, l, t) : S \in SUBSET L /\ S # {} /\ Together(ms, S, t)
  BY <1>0, <1>1 DEF Sets
<1>8. \A S : S \in SUBSET L /\ S # {} /\ Together(ms, S, t) => S \in Sets(ms, l, t)
  BY <1>0, <1>1 DEF Sets
<1>9. \A i \in L : Concurrent(ms, ms[i], t) \in 1 .. Len(ms)
  BY <1>3, WithIs
<1>10. \A S \in Sets(ms, l, t) : Cardinality(S) \in 0 .. Len(ms)
  <2>0. PICK n \in Nat : n = Len(ms)
    BY <1>0
  <2>1. IsFiniteSet(1 .. Len(ms)) /\ Cardinality(1 .. Len(ms)) = Len(ms)
    <3>1. IsFiniteSet(1 .. n) /\ Cardinality(1 .. n) = n
      BY FS_Interval
    <3> QED BY <2>0, <3>1
  <2>2. ASSUME NEW S \in Sets(ms, l, t) PROVE Cardinality(S) \in 0 .. Len(ms)
    <3>1. S \in SUBSET (1 .. Len(ms))
      BY <1>3, <1>7, <2>2
    <3>2. IsFiniteSet(S) /\ Cardinality(S) <= Len(ms)
      BY <2>1, <3>1, FS_Subset
    <3>3. Cardinality(S) \in Nat
      BY <3>2, FS_CardinalityType
    <3> QED BY <1>0, <3>2, <3>3
  <2> QED BY <2>2
<1>11. Len(ms) >= 1
  <2>1. PICK n \in Nat : n = Len(ms)
    BY <1>0
  <2>2. PICK j \in 1 .. n : TRUE
    BY <1>3, <2>1
  <2>3. n >= 1
    BY <2>2
  <2> QED BY <2>1, <2>3
<1>12. /\ B \in SUBSET Nat /\ B # {} /\ \A b \in B : b <= Len(ms)
       /\ C \in SUBSET Nat /\ C # {} /\ \A c \in C : c <= Len(ms)
  <2>1. PICK n \in Nat : n = Len(ms)
    BY <1>0
  <2>2. \A i \in L : Concurrent(ms, ms[i], t) \in 1 .. n
    BY <1>9, <2>1
  <2>3. B \in SUBSET Nat /\ B # {} /\ \A b \in B : b <= n
    <3>1. ASSUME NEW b \in B PROVE b \in Nat /\ b <= n
      <4>1. PICK i \in L : b = Concurrent(ms, ms[i], t)
        BY <1>4, <3>1
      <4>2. b \in 1 .. n
        BY <2>2, <4>1
      <4> QED BY <4>2
    <3>2. PICK i \in L : TRUE
      BY <1>3
    <3>3. Concurrent(ms, ms[i], t) \in B
      BY <1>4, <3>2
    <3> QED BY <3>1, <3>3
  <2>4. \A S \in Sets(ms, l, t) : Cardinality(S) \in 0 .. n
    BY <1>10, <2>1
  <2>5. C \in SUBSET Nat /\ C # {} /\ \A c \in C : c <= n
    BY <1>6, <1>11, <2>1, <2>4
  <2> QED BY <2>1, <2>3, <2>5
<1>13. ASSUME NEW b \in B PROVE \E c \in C : b <= c
  <2>1. PICK i \in L : b = Concurrent(ms, ms[i], t)
    BY <1>4, <1>13
  <2>2. CASE b = 1
    BY <1>6, <2>2
  <2>3. CASE b # 1
    <3>1. PICK W : W = With(ms, i, t)
      OBVIOUS
    <3>2. b = Cardinality(W) /\ i \in W /\ Together(ms, W, t)
      BY <1>3, <2>1, <2>3, <3>1, WithIs
    <3>3. W \in SUBSET L
      BY <1>0, <1>1, <3>1 DEF With, Alike
    <3>4. W \in Sets(ms, l, t)
      BY <1>8, <3>2, <3>3
    <3>5. b \in C /\ b \in Nat
      BY <1>6, <1>12, <1>13, <3>2, <3>4
    <3>6. b <= b
      BY <3>5
    <3> QED BY <3>5, <3>6
  <2> QED BY <2>2, <2>3
<1>14. ASSUME NEW c \in C PROVE \E b \in B : c <= b
  <2>1. CASE c = 1
    <3>1. PICK i \in L : TRUE
      BY <1>3
    <3>2. Concurrent(ms, ms[i], t) \in B /\ Concurrent(ms, ms[i], t) >= 1
      BY <1>4, <1>9, <3>1
    <3> QED BY <2>1, <3>2
  <2>2. CASE c # 1
    <3>1. PICK S \in Sets(ms, l, t) : c = Cardinality(S)
      BY <1>6, <1>14, <2>2
    <3>2. S \in SUBSET (1 .. Len(ms)) /\ S \in SUBSET L /\ S # {} /\ Together(ms, S, t)
      BY <1>3, <1>7, <3>1
    <3>3. PICK i \in S : Cardinality(S) <= Concurrent(ms, ms[i], t)
      BY <3>2, LastCounts
    <3> QED BY <1>4, <3>1, <3>2, <3>3
  <2> QED BY <2>1, <2>2
<1>15. Max(B) = Max(C)
  BY <1>0, <1>12, <1>13, <1>14, SameMax
<1> QED BY <1>5, <1>6, <1>15

\* The count of a label is the size of the largest set of its members that were live
\* at once, on one camera, for Overlap; one, when there is none (incidents.go
\* concurrent, "the largest set that was genuinely on screen together").
THEOREM CountsAlwaysTogether == Spec => []CountsTogether
<1>1. TypeOK => CountsTogether
  <2> SUFFICES ASSUME TypeOK PROVE CountsTogether
    OBVIOUS
  <2>1. DOMAIN open = 1 .. Len(open)
    BY Positions
  <2>2. ASSUME NEW i \in DOMAIN open, NEW l \in DOMAIN Counts(open[i].members, at)
        PROVE  Counts(open[i].members, at)[l] =
                 Max({1} \cup {Cardinality(S) : S \in Sets(open[i].members, l, at)})
    <3>1. PICK ms \in Seq(Member) : ms = open[i].members
      BY <2>1, <2>2 DEF TypeOK, IsIncident
    <3>2. PICK t \in Nat : t = at
      BY DEF TypeOK
    <3>3. l \in DOMAIN Counts(ms, t)
      BY <2>2, <3>1, <3>2
    <3>4. Counts(ms, t)[l] = Max({1} \cup {Cardinality(S) : S \in Sets(ms, l, t)})
      BY <3>3, CountIs
    <3> QED BY <3>1, <3>2, <3>4
  <2> QED BY <2>2, Zenon DEF CountsTogether, Sets
<1>2. Init => TypeOK
  BY TypeInit
<1>3. TypeOK /\ [Next]_vars => TypeOK'
  BY TypeStep
<1> QED BY <1>1, <1>2, <1>3, PTL DEF Spec

------------------------------------------------------------------------------
(***************************************************************************)
(* An incident closes after its gap.                                       *)
(***************************************************************************)
\* What an incident knows at the clock n: its members' starts, how far its last message
\* lies behind the latest of them, and that what was sent of it touched a zone.
Sound(inc, n) ==
  /\ Begun(inc)
  /\ inc.latest <= n /\ inc.latest <= inc.last + Skew
  /\ \A j \in 1 .. Len(inc.members) : inc.members[j].start <= inc.latest
  /\ inc.sent => inc.path # {}
  /\ inc.path # {} => \E j \in 1 .. Len(inc.members) : inc.members[j].zones # {}

SoundInv == \A i \in 1 .. Len(open) : Sound(open[i], now)

\* A new incident knows nothing.
LEMMA SoundNew ==
  ASSUME TypeOK
  PROVE  Sound(NewIncident, now)
<1>1. Skew \in Nat /\ now \in Nat
  BY DEF TypeOK, Skew, World
<1>2. Len(NewIncident.members) = 0
  BY NewIs
<1> QED BY <1>1, <1>2, NewIs DEF Sound, Begun

\* A message keeps it.
LEMMA SoundTaken ==
  ASSUME TypeOK, NEW inc, IsIncident(inc), Sound(inc, now), NEW t \in ReceiveTimes, NEW m \in Sightings(t),
         NEW r, r = Said(Absorbed(inc, m, t), t).inc,
         NEW n, n = IF t > now THEN t ELSE now
  PROVE  Sound(r, n)
<1>0. /\ t \in Nat /\ t >= now - Skew /\ Skew \in Nat /\ now \in Nat
      /\ Message(m, began[m.object]) /\ began[m.object] <= t /\ began[m.object] \in Nat
  BY TimeIs, SightingIs DEF TypeOK, Message
<1>1. /\ IsIncident(r) /\ r.members # <<>> /\ Sources(r) = Sources(inc) \cup {m.object}
      /\ r.last = t /\ r.path = inc.path \cup m.zones
      /\ r.latest = IF t > inc.latest THEN t ELSE inc.latest
      /\ r.sent => inc.sent \/ r.path # {}
      /\ Len(r.members) >= Len(inc.members)
      /\ Begun(inc) => Begun(r)
  BY <1>0, TakenIs
<1>2. /\ \A j \in 1 .. Len(inc.members) : inc.members[j].zones \in SUBSET r.members[j].zones
      /\ \A j \in 1 .. Len(r.members) :
           IF r.members[j].source = m.object THEN m.zones \in SUBSET r.members[j].zones
           ELSE j \in 1 .. Len(inc.members) /\ r.members[j] = inc.members[j]
  <2>1. Grown(inc, m, r)
    BY <1>0, TakenIs
  <2> QED BY <2>1, Zenon DEF Grown
<1>3. inc.latest \in Nat /\ inc.members \in Seq(Member) /\ r.members \in Seq(Member)
  BY <1>1 DEF IsIncident
<1>4. Begun(r) /\ r.latest <= n /\ r.latest <= r.last + Skew /\ r.latest >= t /\ r.latest >= inc.latest
      /\ r.latest \in Nat
  BY <1>0, <1>1, <1>3 DEF Sound
<1>5. ASSUME NEW j \in 1 .. Len(r.members) PROVE r.members[j].start <= r.latest
  <2>1. CASE r.members[j].source = m.object
    <3>1. r.members[j].start = began[m.object]
      BY <1>4, <1>5, <2>1 DEF Begun
    <3> QED BY <1>0, <1>4, <3>1
  <2>2. CASE r.members[j].source # m.object
    <3>1. j \in 1 .. Len(inc.members) /\ r.members[j] = inc.members[j]
      BY <1>2, <1>5, <2>2
    <3>2. inc.members[j].start <= inc.latest /\ inc.members[j] \in Member
      BY <1>3, <3>1 DEF Sound
    <3>3. inc.members[j].start \in Nat
      BY <3>2 DEF Member
    <3> QED BY <1>3, <1>4, <3>1, <3>2, <3>3
  <2> QED BY <2>1, <2>2
<1>6. ASSUME r.path # {} PROVE \E j \in 1 .. Len(r.members) : r.members[j].zones # {}
  <2>1. CASE inc.path # {}
    <3>1. PICK j \in 1 .. Len(inc.members) : inc.members[j].zones # {}
      BY <2>1 DEF Sound
    <3>2. j \in 1 .. Len(r.members)
      BY <1>1, <1>3, <3>1
    <3>3. r.members[j].zones # {}
      BY <1>2, <3>1
    <3> QED BY <3>2, <3>3
  <2>2. CASE m.zones # {}
    <3>1. PICK j \in 1 .. Len(r.members) : r.members[j].source = m.object
      <4>1. m.object \in Sources(r) /\ DOMAIN r.members = 1 .. Len(r.members)
        BY <1>1, <1>3
      <4> QED BY <4>1 DEF Sources
    <3>2. m.zones \in SUBSET r.members[j].zones
      BY <1>2, <3>1
    <3> QED BY <2>2, <3>1, <3>2
  <2> QED BY <1>1, <1>6, <2>1, <2>2
<1>7. r.sent => r.path # {}
  BY <1>1 DEF Sound
<1> QED BY <1>4, <1>5, <1>6, <1>7 DEF Sound

\* A later clock takes nothing back.
LEMMA SoundLater ==
  ASSUME NEW inc, IsIncident(inc), NEW k \in Nat, NEW n \in Nat, k <= n, Sound(inc, k)
  PROVE  Sound(inc, n)
BY DEF Sound, IsIncident

\* Every step keeps it.
LEMMA SoundStep ==
  ASSUME TypeOK, SoundInv, [Next]_vars
  PROVE  SoundInv'
<1>1. CASE UNCHANGED vars
  BY <1>1 DEF SoundInv, Sound, Begun, Skew, vars
<1>2. ASSUME NEW t \in ReceiveTimes, Quiet(t) \/ \E m \in Sightings(t) : ObserveSighting(m, t)
      PROVE  SoundInv'
  <2>1. t \in Nat /\ now \in Nat
    BY <1>2, TimeIs DEF TypeOK
  <2>2. world' = world /\ began' = began /\ now' = IF t > now THEN t ELSE now
    BY <1>2, MessageIs, Zenon DEF Receive
  <2>3. PICK n \in Nat : n = (IF t > now THEN t ELSE now) /\ n >= now
    BY <2>1
  <2>4. ASSUME NEW k \in 1 .. Len(open') PROVE Sound(open'[k], n)
    <3>1. CASE \E i \in 1 .. Len(open) : open'[k] = open[i]
      <4>1. PICK i \in 1 .. Len(open) : open'[k] = open[i]
        BY <3>1
      <4>2. IsIncident(open[i]) /\ Sound(open[i], now)
        BY <4>1 DEF TypeOK, SoundInv
      <4> QED BY <2>1, <2>3, <4>1, <4>2, SoundLater
    <3>2. CASE \E m \in Sightings(t) : \E old :
                 /\ old = NewIncident \/ \E i \in 1 .. Len(open) : old = open[i]
                 /\ open'[k] = Said(Absorbed(old, m, t), t).inc
      <4>0. PICK m \in Sightings(t) : \E old :
              /\ old = NewIncident \/ \E i \in 1 .. Len(open) : old = open[i]
              /\ open'[k] = Said(Absorbed(old, m, t), t).inc
        BY <3>2
      <4>1. PICK old :
              /\ old = NewIncident \/ \E i \in 1 .. Len(open) : old = open[i]
              /\ open'[k] = Said(Absorbed(old, m, t), t).inc
        BY <4>0
      <4>2. IsIncident(old) /\ Sound(old, now)
        BY <4>1, NewIs, SoundNew DEF TypeOK, SoundInv
      <4>3. PICK r : r = open'[k]
        OBVIOUS
      <4>4. Sound(r, n)
        BY <1>2, <2>3, <4>1, <4>2, <4>3, SoundTaken
      <4> QED BY <4>3, <4>4
    <3> QED BY <1>2, <2>4, <3>1, <3>2, Stood
  <2>5. n = now'
    BY <2>2, <2>3
  <2> QED BY <2>2, <2>4, <2>5 DEF SoundInv, Sound, Begun, Skew
<1> QED BY <1>1, <1>2, Steps

\* The first state.
LEMMA SoundInit ==
  ASSUME Init
  PROVE  SoundInv
<1>1. open = <<>>
  BY DEF Init
<1>2. Len(open) = 0
  BY <1>1
<1> QED BY <1>2 DEF SoundInv

\* What is said at the end of an incident that was sent, if the clock runs back by no
\* more than the gap: an end no earlier than the start.
LEMMA OverIs ==
  ASSUME TypeOK, NEW inc, IsIncident(inc), Sound(inc, now), inc.sent, NEW t \in ReceiveTimes,
         Expired(inc, t), Skew <= Gap
  PROVE  /\ Over(inc, t).op = "ended" /\ Over(inc, t).id = IdOf(inc)
         /\ Over(inc, t).end >= Over(inc, t).start
<1>0. t \in Nat /\ Skew \in Nat /\ Gap \in Nat /\ inc.latest \in Nat /\ inc.last \in Nat
  BY TimeIs DEF IsIncident
<1>1. PICK ms \in Seq(Member) : ms = inc.members
  BY DEF IsIncident
<1>2. DOMAIN ms = 1 .. Len(ms) /\ Len(ms) \in Nat
  OBVIOUS
<1>3. PICK z \in 1 .. Len(ms) : ms[z].zones # {}
  BY <1>1 DEF Sound
<1>4. \A i \in 1 .. Len(ms) : ms[i].start \in Nat /\ ms[i].end \in Nat /\ LiveEnd(ms[i], t) \in Nat
  <2>1. \A i \in 1 .. Len(ms) : ms[i] \in Member
    OBVIOUS
  <2>2. \A e \in Member : e.start \in Nat /\ e.end \in Nat /\ LiveEnd(e, t) \in Nat
    BY <1>0 DEF Member, LiveEnd
  <2> QED BY <2>1, <2>2
<1>5. ms[z].start <= LiveEnd(ms[z], t)
  <2>1. ms[z].start <= inc.latest /\ (ms[z].end # 0 => ms[z].start <= ms[z].end)
    BY <1>1 DEF Sound, Begun
  <2>2. inc.latest <= t
    BY <1>0 DEF Sound, Expired
  <2> QED BY <1>0, <1>4, <2>1, <2>2 DEF LiveEnd
<1>6. PICK B : B = {ms[i].start : i \in {j \in DOMAIN ms : Zoned(ms[j])}}
  OBVIOUS
<1>7. PICK E : E = {LiveEnd(ms[i], t) : i \in DOMAIN ms}
  OBVIOUS
<1>8. B \in SUBSET Nat /\ ms[z].start \in B
  BY <1>2, <1>3, <1>4, <1>6 DEF Zoned
<1>9. E \in SUBSET Nat /\ LiveEnd(ms[z], t) \in E
  BY <1>2, <1>4, <1>7
<1>10. PICK v : v = [i \in 1 .. Len(ms) |-> LiveEnd(ms[i], t)]
  OBVIOUS
<1>11. PICK N \in Nat : \A i \in 1 .. Len(ms) : v[i] <= N
  BY <1>2, <1>4, <1>10, Bounded
<1>12. \A e \in E : e <= N
  BY <1>2, <1>7, <1>10, <1>11
<1>13. Min(B) <= ms[z].start /\ Min(B) \in Nat
  BY <1>8, MinIs
<1>14. LiveEnd(ms[z], t) <= Max(E) /\ Max(E) \in Nat
  BY <1>9, <1>12, MaxIs
<1>15. Min(B) <= Max(E)
  BY <1>4, <1>5, <1>13, <1>14
<1>16. Build(inc, t, TRUE).start = Min(B) /\ Build(inc, t, TRUE).end = Max(E)
  BY <1>1, <1>6, <1>7 DEF Build, StartOf
<1>17. Over(inc, t) = Change("ended", IdOf(inc), Min(B), Max(E))
  BY <1>16, Zenon DEF Over
<1> QED BY <1>13, <1>14, <1>15, <1>17 DEF Change

\* What a sequence holds stands at the head of its concatenations.
LEMMA HeadStands ==
  ASSUME NEW S, NEW a \in Seq(S), NEW T, NEW b \in Seq(T), NEW c, c = a \o b, NEW j \in DOMAIN a
  PROVE  j \in DOMAIN c /\ c[j] = a[j]
<1>1. a \in Seq(S \cup T) /\ b \in Seq(S \cup T)
  OBVIOUS
<1> QED BY <1>1

\* One thing or two make a sequence.
LEMMA Few ==
  ASSUME NEW S, NEW x \in S, NEW y \in S
  PROVE  <<>> \in Seq(S) /\ <<x>> \in Seq(S) /\ <<x, y>> \in Seq(S)
<1>1. <<>> \in Seq(S)
  OBVIOUS
<1>2. <<x>> \in Seq(S)
  OBVIOUS
<1>3. <<x, y>> \in Seq(S)
  OBVIOUS
<1> QED BY <1>1, <1>2, <1>3

\* What a detection's message says.
Words == {"started", "updated", "ended"}

\* A detection's message is told in at most two words.
LEMMA PassedIs ==
  ASSUME NEW m \in Reports
  PROVE  Passed(m) \in Seq(Words)
<1>1. m.type \in {"new", "update", "end"}
  BY DEF Reports
<1>2. <<>> \in Seq(Words) /\ <<"started">> \in Seq(Words) /\ <<"updated">> \in Seq(Words)
      /\ <<"ended">> \in Seq(Words) /\ <<"started", "ended">> \in Seq(Words)
  <2>1. "started" \in Words /\ "updated" \in Words /\ "ended" \in Words
    BY DEF Words
  <2> QED BY <2>1, Few, Zenon
<1>3. CASE m.type = "end"
  BY <1>2, <1>3 DEF Passed
<1>4. CASE m.type = "new"
  BY <1>2, <1>4 DEF Passed
<1>5. CASE m.type = "update"
  BY <1>2, <1>5 DEF Passed
<1> QED BY <1>1, <1>3, <1>4, <1>5

\* What the closing pass says, and the message after it.
LEMMA SaidFirst ==
  ASSUME TypeOK, NEW t \in ReceiveTimes, Quiet(t) \/ \E m \in Sightings(t) : ObserveSighting(m, t),
         NEW S, NEW ch \in Seq(S), ch = Settled(t).changes
  PROVE  \A j \in DOMAIN ch : j \in DOMAIN changes' /\ changes'[j] = ch[j]
<1>1. CASE changes' = ch
  BY <1>1
<1>2. ASSUME NEW T, NEW b \in Seq(T), changes' = ch \o b
      PROVE  \A j \in DOMAIN ch : j \in DOMAIN changes' /\ changes'[j] = ch[j]
  <2>1. PICK c : c = changes'
    OBVIOUS
  <2>2. c = ch \o b
    BY <1>2, <2>1
  <2>3. ASSUME NEW j \in DOMAIN ch PROVE j \in DOMAIN c /\ c[j] = ch[j]
    BY <2>2, HeadStands
  <2> QED BY <2>1, <2>3
<1>3. ASSUME NEW m \in Sightings(t), ObserveSighting(m, t)
      PROVE  \E T : \E b \in Seq(T) : changes' = ch \o b
  <2>1. PICK x, n : changes' = ch \o Said(x, n).changes
    BY <1>3, Zenon DEF ObserveSighting
  <2>2. PICK b : b = Said(x, n).changes
    OBVIOUS
  <2>3. b = <<>> \/ \E e : b = <<e>>
    BY <2>2 DEF Said
  <2>4. \E T : b \in Seq(T)
    <3>1. CASE b = <<>>
      BY <3>1
    <3>2. ASSUME NEW e, b = <<e>> PROVE b \in Seq({e})
      BY <3>2
    <3> QED BY <2>3, <3>1, <3>2
  <2> QED BY <2>1, <2>2, <2>4
<1>4. ASSUME NEW m \in Reports, ObserveDetection(m, t)
      PROVE  \E T : \E b \in Seq(T) : changes' = ch \o b
  <2>1. PICK p \in Seq(Words) : p = Passed(m)
    BY <1>4, PassedIs
  <2>2. PICK b : b = [i \in DOMAIN p |-> Change(p[i], m.object, began[m.object],
                                                IF p[i] = "ended" THEN t ELSE 0)]
    OBVIOUS
  <2>3. changes' = ch \o b
    BY <1>4, <2>1, <2>2, Zenon DEF ObserveDetection
  <2>4. DOMAIN p = 1 .. Len(p) /\ Len(p) \in Nat
    BY <2>1
  <2>5. b \in Seq({b[i] : i \in 1 .. Len(p)})
    BY <2>2, <2>4
  <2> QED BY <2>3, <2>5
<1>5. ASSUME ObserveTick(t) PROVE changes' = ch
  BY <1>5, Zenon DEF ObserveTick
<1> QED BY <1>1, <1>2, <1>3, <1>4, <1>5, Zenon DEF Quiet

\* Every incident that was sent and is past its gap is said to be over.
LEMMA SaidOver ==
  ASSUME TypeOK, NEW t \in ReceiveTimes, Quiet(t) \/ \E m \in Sightings(t) : ObserveSighting(m, t),
         NEW i \in 1 .. Len(open), Expired(open[i], t), open[i].sent
  PROVE  \E j \in DOMAIN changes' : changes'[j] = Over(open[i], t)
<1>1. PICK S : open \in Seq(S)
  BY DEF TypeOK
<1>2. PICK os \in Seq(S) : os = open
  BY <1>1
<1>3. PICK K : K = {k \in Due(t) : open[k].sent}
  OBVIOUS
<1>4. PICK over : over = Chosen(os, K)
  OBVIOUS
<1>5. over \in Seq(S) /\ Picks(os, K, Len(os), over)
  BY <1>4, ChosenIs
<1>6. i \in K /\ i \in 1 .. Len(os)
  BY <1>2, <1>3, Positions DEF Due
<1>7. PICK j \in 1 .. Len(over) : over[j] = os[i]
  <2>1. PICK f \in [1 .. Len(over) -> Nat] :
          /\ \A j \in 1 .. Len(over) : over[j] = os[f[j]]
          /\ \A n \in 1 .. Len(os) : n \in K => \E j \in 1 .. Len(over) : f[j] = n
    BY <1>5, Zenon DEF Picks
  <2> QED BY <1>6, <2>1
<1>8. PICK ch : ch = [n \in DOMAIN over |-> Over(over[n], t)]
  OBVIOUS
<1>9. ch = Settled(t).changes
  BY <1>2, <1>3, <1>4, <1>8 DEF Settled
<1>10. DOMAIN over = 1 .. Len(over) /\ Len(over) \in Nat
  BY <1>5
<1>11. ch \in Seq({ch[n] : n \in 1 .. Len(over)})
  BY <1>8, <1>10
<1>12. j \in DOMAIN ch /\ ch[j] = Over(open[i], t)
  BY <1>2, <1>7, <1>8, <1>10
<1> QED BY <1>9, <1>11, <1>12, SaidFirst

\* An incident is closed only once the gap, less the clock's skew, has passed since the
\* latest message of any of its members, and what was sent of it is ended, at a time not
\* before its start, as long as the clock runs back by no more than the gap
\* (incidents.go Observe, close, build).
THEOREM ClosesAlwaysAfterGap ==
  ASSUME \A w \in Worlds : w.skew <= w.gap
  PROVE  Spec => ClosesAfterGap
<1>1. Init => TypeOK /\ OneInv /\ SoundInv /\ world \in Worlds
  <2>1. Init => world \in Worlds
    BY DEF Init
  <2> QED BY <2>1, TypeInit, OneInit, SoundInit
<1>2. TypeOK /\ OneInv /\ SoundInv /\ world \in Worlds /\ [Next]_vars =>
        (TypeOK /\ OneInv /\ SoundInv /\ world \in Worlds)'
  <2>1. [Next]_vars => world' = world
    <3>1. ASSUME UNCHANGED vars PROVE world' = world
      BY <3>1 DEF vars
    <3> QED BY <3>1, Steps, MessageIs
  <2> QED BY <2>1, TypeStep, OneStep, SoundStep
<1>3. TypeOK /\ OneInv /\ SoundInv /\ world \in Worlds /\ [Next]_vars =>
        [\A i \in DOMAIN open : IdOf(open[i]) \notin MembersOf(open') =>
           /\ at' - open[i].latest >= Gap - Skew
           /\ open[i].sent => \E j \in DOMAIN changes' :
                /\ changes'[j].op = "ended" /\ changes'[j].id = IdOf(open[i])
                /\ changes'[j].end >= changes'[j].start]_vars
  <2> SUFFICES ASSUME TypeOK, OneInv, SoundInv, world \in Worlds, NEW t \in ReceiveTimes,
                      Quiet(t) \/ \E m \in Sightings(t) : ObserveSighting(m, t),
                      NEW i \in DOMAIN open, IdOf(open[i]) \notin MembersOf(open')
               PROVE  /\ at' - open[i].latest >= Gap - Skew
                      /\ open[i].sent => \E j \in DOMAIN changes' :
                           /\ changes'[j].op = "ended" /\ changes'[j].id = IdOf(open[i])
                           /\ changes'[j].end >= changes'[j].start
    BY Steps
  <2>1. i \in 1 .. Len(open)
    BY Positions
  <2>2. PICK inc : inc = open[i]
    OBVIOUS
  <2>3. IsIncident(inc) /\ Sound(inc, now) /\ inc.members # <<>>
    BY <2>1, <2>2 DEF TypeOK, SoundInv
  <2>4. IdOf(inc) \in Sources(inc)
    <3>1. PICK ms \in Seq(Member) : ms = inc.members
      BY <2>3 DEF IsIncident
    <3>2. 1 \in DOMAIN ms
      BY <2>3, <3>1
    <3> QED BY <3>1, <3>2 DEF IdOf, Sources
  <2>5. IdOf(inc) \in Gone(t)
    <3>1. IdOf(inc) \in MembersOf(open)
      BY <2>1, <2>2, <2>4, Positions
    <3> QED BY <2>2, <3>1, GoneIs
  <2>6. Expired(inc, t)
    <3>1. PICK k \in 1 .. Len(open) : Expired(open[k], t) /\ IdOf(inc) \in Sources(open[k])
      BY <2>5, Positions
    <3>2. k = i
      BY <2>1, <2>2, <2>4, <3>1 DEF OneInv, Apart
    <3> QED BY <2>2, <3>1, <3>2
  <2>7. t \in Nat /\ Skew \in Nat /\ Gap \in Nat /\ inc.latest \in Nat /\ inc.last \in Nat
    BY <2>3, TimeIs DEF IsIncident
  <2>8. at' = t
    BY MessageIs DEF Receive
  <2>9. at' - inc.latest >= Gap - Skew
    BY <2>3, <2>6, <2>7, <2>8 DEF Sound, Expired
  <2>10. ASSUME inc.sent
         PROVE  \E j \in DOMAIN changes' :
                  /\ changes'[j].op = "ended" /\ changes'[j].id = IdOf(inc)
                  /\ changes'[j].end >= changes'[j].start
    <3>1. Skew <= Gap
      BY DEF Skew, Gap
    <3>2. PICK o : o = Over(inc, t)
      OBVIOUS
    <3>3. o.op = "ended" /\ o.id = IdOf(inc) /\ o.end >= o.start
      BY <2>3, <2>6, <2>10, <3>1, <3>2, OverIs
    <3>4. PICK j \in DOMAIN changes' : changes'[j] = o
      BY <2>1, <2>2, <2>6, <2>10, <3>2, SaidOver
    <3> QED BY <3>3, <3>4
  <2> QED BY <2>2, <2>9, <2>10
<1> QED BY <1>1, <1>2, <1>3, PTL DEF Spec, ClosesAfterGap

------------------------------------------------------------------------------
(***************************************************************************)
(* What is said of an id is a start, then updates, then an end.            *)
(***************************************************************************)
\* An incident's id is its first member's.
LEMMA IdIs ==
  ASSUME NEW inc, IsIncident(inc), inc.members # <<>>
  PROVE  IdOf(inc) \in Sources(inc) /\ IdOf(inc) \in Activities /\ IdOf(inc) \in Objects
<1>1. PICK ms \in Seq(Member) : ms = inc.members
  BY DEF IsIncident
<1>2. 1 \in DOMAIN ms
  BY <1>1
<1>3. IdOf(inc) \in Sources(inc)
  BY <1>1, <1>2 DEF IdOf, Sources
<1> QED BY <1>3, SourcesIn

\* The members hold one that was in a zone.
Anchored(inc) == \E j \in 1 .. Len(inc.members) : inc.members[j].zones # {}

\* The start of what is said of an incident, if a member was in a zone.
LEMMA StartIs ==
  ASSUME NEW inc, IsIncident(inc), Anchored(inc)
  PROVE  /\ StartOf(inc.members) \in Nat \ {0}
         /\ \E j \in 1 .. Len(inc.members) :
              inc.members[j].zones # {} /\ inc.members[j].start = StartOf(inc.members)
         /\ \A j \in 1 .. Len(inc.members) :
              inc.members[j].zones # {} => StartOf(inc.members) <= inc.members[j].start
<1>1. PICK ms \in Seq(Member) : ms = inc.members
  BY DEF IsIncident
<1>2. DOMAIN ms = 1 .. Len(ms) /\ \A j \in 1 .. Len(ms) : ms[j].start \in Nat \ {0}
  <2>1. \A j \in 1 .. Len(ms) : ms[j] \in Member
    OBVIOUS
  <2>2. \A e \in Member : e.start \in Nat \ {0}
    BY DEF Member
  <2> QED BY <2>1, <2>2
<1>3. PICK B : B = {ms[i].start : i \in {j \in DOMAIN ms : Zoned(ms[j])}}
  OBVIOUS
<1>4. \A j \in 1 .. Len(ms) : ms[j].zones # {} => ms[j].start \in B
  BY <1>2, <1>3 DEF Zoned
<1>5. \A b \in B : b \in Nat \ {0} /\ \E j \in 1 .. Len(ms) : ms[j].zones # {} /\ ms[j].start = b
  BY <1>2, <1>3 DEF Zoned
<1>6. B \in SUBSET Nat /\ B # {}
  BY <1>1, <1>4, <1>5 DEF Anchored
<1>7. Min(B) \in B /\ \A b \in B : Min(B) <= b
  BY <1>6, MinIs
<1>8. StartOf(ms) = Min(B)
  BY <1>3 DEF StartOf
<1> QED BY <1>1, <1>4, <1>5, <1>7, <1>8

\* The start only moves earlier as the members grow.
LEMMA StartEarlier ==
  ASSUME NEW inc, IsIncident(inc), Anchored(inc), NEW r, IsIncident(r), NEW m, Grown(inc, m, r),
         Len(r.members) >= Len(inc.members)
  PROVE  Anchored(r) /\ StartOf(r.members) <= StartOf(inc.members)
<1>0. Len(inc.members) \in Nat /\ Len(r.members) \in Nat
  <2>1. inc.members \in Seq(Member) /\ r.members \in Seq(Member)
    BY DEF IsIncident
  <2> QED BY <2>1
<1>1. PICK j \in 1 .. Len(inc.members) :
        inc.members[j].zones # {} /\ inc.members[j].start = StartOf(inc.members)
  BY StartIs
<1>2. j \in 1 .. Len(r.members)
  BY <1>0
<1>3. r.members[j].zones # {} /\ r.members[j].start = StartOf(inc.members)
  <2>1. r.members[j].start = inc.members[j].start /\ inc.members[j].zones \in SUBSET r.members[j].zones
    BY DEF Grown
  <2> QED BY <1>1, <2>1
<1>4. Anchored(r)
  BY <1>2, <1>3 DEF Anchored
<1> QED BY <1>2, <1>3, <1>4, StartIs

\* What was announced of an incident, if run is the start last announced of its id.
Announced(inc, run) ==
  /\ inc.sent => Anchored(inc) /\ run \in Nat \ {0} /\ StartOf(inc.members) <= run
  /\ ~inc.sent => run = 0

\* What is said of an incident after a message.
LEMMA SaysIs ==
  ASSUME NEW a, IsIncident(a), NEW t, NEW s, s = Said(a, t)
  PROVE  \/ s.inc = a /\ s.changes = <<>> /\ (a.path = {} \/ a.sent)
         \/ /\ s.inc.sent /\ s.inc.members = a.members /\ a.path # {}
            /\ s.changes = <<Change(IF a.sent THEN "updated" ELSE "started", IdOf(a),
                                    StartOf(a.members), 0)>>
<1>1. PICK e : e = Build(a, t, FALSE)
  OBVIOUS
<1>2. e.start = StartOf(a.members) /\ e.end = 0
  BY <1>1 DEF Build
<1>3. s = IF a.path = {} THEN [inc |-> a, changes |-> <<>>]
          ELSE IF a.sent /\ SameActivity(a.event, e) THEN [inc |-> a, changes |-> <<>>]
          ELSE [inc     |-> [a EXCEPT !.sent = TRUE, !.event = e],
                changes |-> <<Change(IF a.sent THEN "updated" ELSE "started", IdOf(a), e.start, e.end)>>]
  BY <1>1, Zenon DEF Said
<1>4. PICK f : f = [a EXCEPT !.sent = TRUE, !.event = e]
  OBVIOUS
<1>5. f.sent = TRUE /\ f.members = a.members
  <2>1. f = Incident(a.members, a.last, a.path, TRUE, e, a.boxes, a.opening, a.latest)
    BY <1>4 DEF IsIncident, Incident
  <2> QED BY <2>1 DEF Incident
<1>6. CASE a.path = {} \/ (a.sent /\ SameActivity(a.event, e))
  <2>1. s = [inc |-> a, changes |-> <<>>]
    BY <1>3, <1>6
  <2> QED BY <1>6, <2>1
<1>7. CASE ~(a.path = {} \/ (a.sent /\ SameActivity(a.event, e)))
  <2>1. PICK cs : cs = <<Change(IF a.sent THEN "updated" ELSE "started", IdOf(a), e.start, e.end)>>
    OBVIOUS
  <2>2. s = [inc |-> f, changes |-> cs]
    BY <1>3, <1>4, <1>7, <2>1
  <2>3. s.inc = f /\ s.changes = cs
    BY <2>2
  <2> QED BY <1>2, <1>5, <1>7, <2>1, <2>3
<1> QED BY <1>6, <1>7

\* An incident with a message taken in is one.
LEMMA AbsorbedKeeps ==
  ASSUME NEW inc, IsIncident(inc), NEW m, Message(m, began[m.object]), NEW t \in Nat,
         NEW a, a = Absorbed(inc, m, t)
  PROVE  IsIncident(a) /\ (a.sent => inc.sent) /\ (inc.sent => a.sent) /\ a.path = inc.path \cup m.zones
<1>0. inc.members \in Seq(Member) /\ Opened(inc.boxes, inc.opening) /\ inc.latest \in Nat
      /\ inc.path \in SUBSET Zones /\ m.zones \in SUBSET Zones
  BY DEF IsIncident, Message
<1>1. PICK js : js = Joined(inc, m)
  OBVIOUS
<1>2. PICK bs, op, lt, pa :
        /\ bs = (IF m.box THEN AddBox(inc.boxes, t) ELSE inc.boxes)
        /\ op = (IF m.box /\ inc.boxes = <<>> THEN t ELSE inc.opening)
        /\ lt = (IF t > inc.latest THEN t ELSE inc.latest)
        /\ pa = inc.path \cup m.zones
  OBVIOUS
<1>3. a = Incident(a.members, t, pa, inc.sent, inc.event, bs, op, lt) /\ a.members \in Seq(Member)
  <2>1. Took(inc, m, t, a, js)
    BY <1>1, AbsorbedIs
  <2> QED BY <1>2, <2>1, Zenon DEF Took
<1>4. a.last = t /\ a.path = pa /\ a.sent = inc.sent /\ a.boxes = bs /\ a.opening = op /\ a.latest = lt
      /\ a = Incident(a.members, a.last, a.path, a.sent, a.event, a.boxes, a.opening, a.latest)
  BY <1>3 DEF Incident
<1>5. Opened(bs, op)
  BY <1>0, <1>2, AddBoxIs DEF Opened
<1> QED BY <1>0, <1>2, <1>3, <1>4, <1>5 DEF IsIncident

\* A member in a zone, if the path has one.
LEMMA SoundAnchored ==
  ASSUME NEW inc, NEW n, Sound(inc, n), inc.path # {}
  PROVE  Anchored(inc)
BY DEF Sound, Anchored

\* What is said of an incident whose last announced start is run, after a message: no
\* news, or a start if it had none and an update if it had one, no later.
LEMMA TakenSays ==
  ASSUME TypeOK, NEW inc, IsIncident(inc), Sound(inc, now), NEW t \in ReceiveTimes, NEW m \in Sightings(t),
         NEW a, a = Absorbed(inc, m, t), NEW s, s = Said(a, t), NEW r, r = s.inc, NEW run, Announced(inc, run)
  PROVE  /\ s.changes = <<>> => Announced(r, run)
         /\ s.changes = <<>> \/ \E c :
              /\ s.changes = <<c>> /\ c.id = IdOf(r) /\ c.op \in {"started", "updated"}
              /\ c.op = "started" <=> run = 0
              /\ c.op = "updated" => c.start <= run
              /\ Announced(r, c.start)
<1>1. t \in Nat /\ Message(m, began[m.object])
  BY TimeIs, SightingIs
<1>2. IsIncident(a) /\ (a.sent => inc.sent) /\ (inc.sent => a.sent)
  BY <1>1, AbsorbedKeeps
<1>3. r = Said(Absorbed(inc, m, t), t).inc
  OBVIOUS
<1>4. IsIncident(r) /\ Len(r.members) >= Len(inc.members) /\ Grown(inc, m, r)
  BY <1>1, <1>3, TakenIs
<1>5. PICK n : n = IF t > now THEN t ELSE now
  OBVIOUS
<1>6. Sound(r, n)
  BY <1>3, <1>5, SoundTaken
<1>7. Anchored(inc) => Anchored(r) /\ StartOf(r.members) <= StartOf(inc.members)
  BY <1>4, StartEarlier
<1>8. Anchored(inc) => StartOf(inc.members) \in Nat
  BY StartIs
<1>9. Anchored(r) => StartOf(r.members) \in Nat \ {0}
  BY <1>4, StartIs
<1>10. CASE r = a /\ s.changes = <<>> /\ (a.path = {} \/ a.sent)
  <2>1. CASE inc.sent
    BY <1>2, <1>7, <1>8, <1>9, <1>10, <2>1 DEF Announced
  <2>2. CASE ~inc.sent
    BY <1>2, <1>10, <2>2 DEF Announced
  <2> QED BY <1>10, <2>1, <2>2
<1>11. CASE /\ r.sent /\ r.members = a.members /\ a.path # {}
            /\ s.changes = <<Change(IF a.sent THEN "updated" ELSE "started", IdOf(a),
                                    StartOf(a.members), 0)>>
  <2>1. PICK c : c = Change(IF a.sent THEN "updated" ELSE "started", IdOf(a), StartOf(a.members), 0)
    OBVIOUS
  <2>2. /\ c.id = IdOf(r) /\ c.start = StartOf(r.members)
        /\ c.op = IF a.sent THEN "updated" ELSE "started"
    <3>1. IdOf(a) = IdOf(r)
      BY <1>11 DEF IdOf
    <3> QED BY <1>11, <2>1, <3>1 DEF Change
  <2>3. Anchored(r)
    <3>1. r.path # {}
      <4>1. r.sent => r.path # {}
        BY <1>6 DEF Sound
      <4> QED BY <1>11, <4>1
    <3> QED BY <1>6, <3>1, SoundAnchored
  <2>4. Announced(r, c.start)
    BY <1>9, <1>11, <2>2, <2>3 DEF Announced
  <2>5. CASE inc.sent
    <3>1. run # 0 /\ Anchored(inc) /\ run \in Nat /\ StartOf(inc.members) <= run
      BY <2>5 DEF Announced
    <3>2. c.op = "updated" /\ c.start <= run
      BY <1>2, <1>7, <1>8, <1>9, <2>2, <2>3, <2>5, <3>1
    <3>3. s.changes = <<c>>
      BY <1>11, <2>1
    <3> QED BY <2>2, <2>4, <3>1, <3>2, <3>3
  <2>6. CASE ~inc.sent
    <3>1. run = 0 /\ c.op = "started"
      BY <1>2, <2>2, <2>6 DEF Announced
    <3>2. s.changes = <<c>>
      BY <1>11, <2>1
    <3> QED BY <2>2, <2>4, <3>1, <3>2
  <2> QED BY <2>5, <2>6
<1> QED BY <1>2, <1>10, <1>11, SaysIs

\* What is said of an incident that is over.
LEMMA OverSays ==
  ASSUME NEW inc, NEW t
  PROVE  Over(inc, t).op = "ended" /\ Over(inc, t).id = IdOf(inc) /\ Over(inc, t).start = StartOf(inc.members)
<1>1. PICK e : e = Build(inc, t, TRUE)
  OBVIOUS
<1>2. e.start = StartOf(inc.members)
  BY <1>1 DEF Build
<1>3. Over(inc, t) = Change("ended", IdOf(inc), e.start, e.end)
  BY <1>1, Zenon DEF Over
<1> QED BY <1>2, <1>3 DEF Change

\* ch says the end of every incident past its gap that was sent, once.
Overs(ch, t) ==
  /\ \A n \in 1 .. Len(ch) : \E i \in 1 .. Len(open) :
       Expired(open[i], t) /\ open[i].sent /\ ch[n] = Over(open[i], t)
  /\ \A n, p \in 1 .. Len(ch) : ch[n].id = ch[p].id => n = p
  /\ \A i \in 1 .. Len(open) : Expired(open[i], t) /\ open[i].sent =>
       \E n \in 1 .. Len(ch) : ch[n] = Over(open[i], t)

\* An id names one open incident.
LEMMA IdsApart ==
  ASSUME TypeOK, OneInv, NEW i \in 1 .. Len(open), NEW k \in 1 .. Len(open), IdOf(open[i]) = IdOf(open[k])
  PROVE  i = k
<1>1. IdOf(open[i]) \in Sources(open[i]) /\ IdOf(open[k]) \in Sources(open[k])
  BY IdIs DEF TypeOK
<1> QED BY <1>1 DEF OneInv, Apart

\* What the closing pass says.
LEMMA OversAre ==
  ASSUME TypeOK, OneInv, NEW t \in ReceiveTimes
  PROVE  \E S : \E ch \in Seq(S) : ch = Settled(t).changes /\ Overs(ch, t)
<1>1. PICK S : open \in Seq(S)
  BY DEF TypeOK
<1>2. PICK os \in Seq(S) : os = open
  BY <1>1
<1>3. PICK K : K = {k \in Due(t) : open[k].sent}
  OBVIOUS
<1>4. PICK over : over = Chosen(os, K)
  OBVIOUS
<1>5. over \in Seq(S) /\ Picks(os, K, Len(os), over)
  BY <1>4, ChosenIs
<1>6. PICK f \in [1 .. Len(over) -> Nat] :
        /\ \A j \in 1 .. Len(over) : f[j] \in K /\ f[j] \in 1 .. Len(os) /\ over[j] = os[f[j]]
        /\ \A j, k \in 1 .. Len(over) : j < k => f[j] < f[k]
        /\ \A n \in 1 .. Len(os) : n \in K => \E j \in 1 .. Len(over) : f[j] = n
  BY <1>5, Zenon DEF Picks
<1>7. PICK ch : ch = [n \in DOMAIN over |-> Over(over[n], t)]
  OBVIOUS
<1>8. ch = Settled(t).changes
  BY <1>2, <1>3, <1>4, <1>7 DEF Settled
<1>9. DOMAIN over = 1 .. Len(over) /\ Len(over) \in Nat
  BY <1>5
<1>10. ch \in Seq({ch[n] : n \in 1 .. Len(over)}) /\ Len(ch) = Len(over)
  BY <1>7, <1>9
<1>11. PICK l \in Nat : l = Len(over)
  BY <1>9
<1>12. \A n \in 1 .. l : ch[n] = Over(open[f[n]], t) /\ f[n] \in 1 .. Len(open)
  BY <1>2, <1>6, <1>7, <1>9, <1>11
<1>13. \A i \in 1 .. Len(open) : i \in K <=> Expired(open[i], t) /\ open[i].sent
  BY <1>3, Positions DEF Due
<1>14. \A n \in 1 .. l : Expired(open[f[n]], t) /\ open[f[n]].sent
  BY <1>6, <1>11, <1>12, <1>13
<1>15. ASSUME NEW n \in 1 .. l, NEW p \in 1 .. l, ch[n].id = ch[p].id PROVE n = p
  <2>1. IdOf(open[f[n]]) = IdOf(open[f[p]])
    BY <1>12, <1>15, OverSays
  <2>2. f[n] = f[p]
    BY <1>12, <2>1, IdsApart
  <2>3. ~(n < p) /\ ~(p < n)
    BY <1>6, <1>11, <2>2
  <2> QED BY <2>3
<1>16. ASSUME NEW i \in 1 .. Len(open), Expired(open[i], t), open[i].sent
       PROVE  \E n \in 1 .. l : ch[n] = Over(open[i], t)
  <2>1. PICK n \in 1 .. l : f[n] = i
    BY <1>2, <1>6, <1>11, <1>13, <1>16
  <2> QED BY <1>12, <2>1
<1>17. Overs(ch, t)
  <2>1. \A n \in 1 .. l : \E i \in 1 .. Len(open) :
          Expired(open[i], t) /\ open[i].sent /\ ch[n] = Over(open[i], t)
    BY <1>12, <1>14
  <2> QED BY <1>10, <1>11, <1>15, <1>16, <2>1 DEF Overs
<1> QED BY <1>8, <1>10, <1>17

\* The changes cs: l of different ids, then d of another, o.
Talk(cs, l, d, o) ==
  /\ DOMAIN cs = 1 .. (l + d)
  /\ \A n, p \in 1 .. l : cs[n].id = cs[p].id => n = p
  /\ d # 0 => \A n \in 1 .. l : cs[n].id # o
  /\ \A n \in (l + 1) .. (l + d) : cs[n].id = o

\* The greatest of few.
LEMMA MaxOfFew ==
  ASSUME NEW n \in Nat
  PROVE  Max({n}) = n /\ Max({n, n + 1}) = n + 1
<1>1. Max({n}) = n
  <2>1. Max({n}) \in {n}
    BY MaxIs
  <2> QED BY <2>1
<1>2. Max({n, n + 1}) = n + 1
  <2>1. PICK B : B = {n, n + 1}
    OBVIOUS
  <2>2. B \in SUBSET Nat /\ B # {} /\ n + 1 \in Nat /\ \A i \in B : i <= n + 1
    BY <2>1
  <2>3. Max(B) \in B /\ \A i \in B : i <= Max(B)
    BY <2>2, MaxIs
  <2> QED BY <2>1, <2>3
<1> QED BY <1>1, <1>2

Prev(cs, j) == {i \in 1 .. (j - 1) : cs[i].id = cs[j].id}

\* What was said of an id before.
LEMMA PrevIs ==
  ASSUME NEW cs, NEW l \in Nat, NEW d \in 0 .. 2, NEW o, Talk(cs, l, d, o), NEW j \in DOMAIN cs
  PROVE  /\ j \in 1 .. (l + d)
         /\ j # l + 2 => Prev(cs, j) = {}
         /\ j = l + 2 => Prev(cs, j) # {} /\ Max(Prev(cs, j)) = l + 1
<1>0. PICK prev : prev = {i \in 1 .. (j - 1) : cs[i].id = cs[j].id} /\ prev = Prev(cs, j)
  BY DEF Prev
<1>1. j \in 1 .. (l + d)
  BY DEF Talk
<1>2. CASE j <= l
  BY <1>0, <1>1, <1>2 DEF Talk
<1>3. CASE j = l + 1
  BY <1>0, <1>1, <1>3 DEF Talk
<1>4. CASE j = l + 2
  <2>1. d = 2 /\ cs[l + 1].id = o /\ cs[j].id = o /\ \A n \in 1 .. l : cs[n].id # o
    BY <1>1, <1>4 DEF Talk
  <2>2. PICK k \in Nat : k = l + 1
    OBVIOUS
  <2>3. prev = {k}
    BY <1>0, <1>4, <2>1, <2>2
  <2>4. Max(prev) = k
    <3>1. Max({k}) = k
      BY MaxOfFew
    <3> QED BY <2>3, <3>1
  <2> QED BY <1>0, <1>1, <1>4, <2>2, <2>3, <2>4
<1> QED BY <1>1, <1>2, <1>3, <1>4

\* Where the changes leave the history of an id.
LEMMA RunsTo ==
  ASSUME TypeOK, NEW t, Receive(t), NEW l \in Nat, NEW d \in 0 .. 2, NEW o, Talk(changes', l, d, o),
         NEW x \in Objects
  PROVE  /\ \A n \in 1 .. l : changes'[n].id = x => running'[x] = StartSaid(changes'[n])
         /\ x = o /\ d # 0 => running'[x] = StartSaid(changes'[l + d])
         /\ (\A n \in 1 .. l : changes'[n].id # x) /\ (x # o \/ d = 0) => running'[x] = running[x]
<1>1. PICK cs : cs = changes'
  OBVIOUS
<1>2. PICK told : told = {j \in DOMAIN cs : cs[j].id = x}
  OBVIOUS
<1>3. running'[x] = IF told = {} THEN running[x] ELSE StartSaid(cs[Max(told)])
  BY <1>1, <1>2, Zenon DEF Receive
<1>4. /\ DOMAIN cs = 1 .. (l + d)
      /\ \A n, p \in 1 .. l : cs[n].id = cs[p].id => n = p
      /\ d # 0 => \A n \in 1 .. l : cs[n].id # o
      /\ \A n \in (l + 1) .. (l + d) : cs[n].id = o
  BY <1>1 DEF Talk
<1>5. ASSUME NEW n \in 1 .. l, cs[n].id = x PROVE running'[x] = StartSaid(cs[n])
  <2>1. told = {n}
    BY <1>2, <1>4, <1>5
  <2>2. Max(told) = n
    <3>1. n \in Nat
      OBVIOUS
    <3>2. Max({n}) = n
      BY <3>1, MaxOfFew
    <3> QED BY <2>1, <3>2
  <2> QED BY <1>3, <2>1, <2>2
<1>6. ASSUME x = o, d # 0 PROVE running'[x] = StartSaid(cs[l + d])
  <2>1. CASE d = 1
    <3>1. PICK k \in Nat : k = l + 1
      OBVIOUS
    <3>2. told = {k}
      BY <1>2, <1>4, <1>6, <2>1, <3>1
    <3>3. Max({k}) = k
      BY MaxOfFew
    <3> QED BY <1>3, <2>1, <3>1, <3>2, <3>3
  <2>2. CASE d = 2
    <3>1. told = {l + 1, l + 2}
      BY <1>2, <1>4, <1>6, <2>2
    <3>2. PICK k \in Nat : k = l + 1
      OBVIOUS
    <3>3. told = {k, k + 1} /\ l + d = k + 1
      BY <2>2, <3>1, <3>2
    <3>4. Max(told) = k + 1
      BY <3>3, MaxOfFew
    <3> QED BY <1>3, <3>3, <3>4
  <2> QED BY <1>6, <2>1, <2>2
<1>7. ASSUME \A n \in 1 .. l : cs[n].id # x, x # o \/ d = 0 PROVE running'[x] = running[x]
  <2>1. told = {}
    BY <1>2, <1>4, <1>7
  <2> QED BY <1>3, <2>1
<1> QED BY <1>1, <1>5, <1>6, <1>7

\* Changes after others.
LEMMA AfterIs ==
  ASSUME NEW S, NEW a \in Seq(S), NEW T, NEW b \in Seq(T), NEW c, c = a \o b
  PROVE  /\ DOMAIN c = 1 .. (Len(a) + Len(b)) /\ Len(a) \in Nat /\ Len(b) \in Nat
         /\ \A n \in 1 .. Len(a) : c[n] = a[n]
         /\ \A n \in 1 .. Len(b) : c[Len(a) + n] = b[n]
<1>1. a \in Seq(S \cup T) /\ b \in Seq(S \cup T)
  OBVIOUS
<1> QED BY <1>1

\* The history of what was announced: an open incident's id runs from its last
\* announced start if it was sent, no other activity's does, and a detection's does as
\* long as it is live.
RunInv ==
  /\ running \in [Objects -> Nat] /\ \E V : live \in [Objects -> V]
  /\ \A i \in 1 .. Len(open) : Announced(open[i], running[IdOf(open[i])])
  /\ \A x \in Activities : (\A i \in 1 .. Len(open) : IdOf(open[i]) # x) => running[x] = 0
  /\ \A x \in Detections : (Known(x) => running[x] # 0) /\ (~Known(x) => running[x] = 0)

\* What ChangesAlternate says of the j-th change.
Alternates(j) ==
  LET c    == changes'[j]
      prev == Prev(changes', j)
  IN  /\ c.op = "started" <=>
           IF prev = {} THEN running[c.id] = 0 ELSE changes'[Max(prev)].op = "ended"
      /\ c.id \in Activities /\ c.op # "started" /\ prev = {} => c.start <= running[c.id]

\* A step says the ends of the incidents it closes, then d changes of o.
Spoke(t, l, d, o) ==
  /\ Talk(changes', l, d, o)
  /\ \A n \in 1 .. l : \E i \in 1 .. Len(open) :
       Expired(open[i], t) /\ open[i].sent /\ changes'[n] = Over(open[i], t)
  /\ \A i \in 1 .. Len(open) : Expired(open[i], t) /\ open[i].sent =>
       \E n \in 1 .. l : changes'[n] = Over(open[i], t)

\* A message leaves its incident's id.
LEMMA IdKept ==
  ASSUME NEW old, IsIncident(old), old.members # <<>>, NEW m, NEW r, Grown(old, m, r)
  PROVE  IdOf(r) = IdOf(old)
<1>1. PICK ms \in Seq(Member) : ms = old.members
  BY DEF IsIncident
<1>2. 1 \in 1 .. Len(old.members)
  BY <1>1
<1> QED BY <1>2 DEF Grown, IdOf

\* The ids of the incidents a step closes are no member's after it, and those of the
\* others name incidents still.
LEMMA IdsMove ==
  ASSUME TypeOK, OneInv, NEW t \in ReceiveTimes, Quiet(t) \/ \E m \in Sightings(t) : ObserveSighting(m, t),
         NEW x \in 1 .. Len(open)
  PROVE  /\ Expired(open[x], t) => IdOf(open[x]) \notin MembersOf(open')
         /\ ~Expired(open[x], t) => \E k \in 1 .. Len(open') : IdOf(open'[k]) = IdOf(open[x])
<1>0. IsIncident(open[x]) /\ open[x].members # <<>>
  BY DEF TypeOK
<1>1. ASSUME Expired(open[x], t) PROVE IdOf(open[x]) \notin MembersOf(open')
  <2>1. IdOf(open[x]) \in Gone(t)
    BY <1>0, <1>1, IdIs, Positions
  <2> QED BY <2>1, GoneIs
<1>2. ASSUME ~Expired(open[x], t) PROVE \E k \in 1 .. Len(open') : IdOf(open'[k]) = IdOf(open[x])
  <2>1. PICK so : so = Settled(t).open
    OBVIOUS
  <2>2. Left(so, t)
    BY <2>1, SettledIs
  <2>3. PICK j \in 1 .. Len(so) : so[j] = open[x]
    BY <1>2, <2>2 DEF Left
  <2>4. CASE Quiet(t)
    <3>1. open' = so
      BY <2>1, <2>4, MessageIs
    <3> QED BY <2>3, <3>1
  <2>5. CASE \E m \in Sightings(t) : ObserveSighting(m, t)
    <3>1. PICK m \in Sightings(t) : ObserveSighting(m, t)
      BY <2>5
    <3>2. PICK i, old, r : Entered(so, open', i, old, r, m, t)
      BY <2>1, <3>1, Enters
    <3>3. PICK S : so \in Seq(S)
      BY <2>2 DEF Left
    <3>4. PICK l \in Nat : l = Len(so)
      BY <3>3
    <3>5. /\ i \in 1 .. l + 1 /\ Len(open') = (IF i <= l THEN l ELSE i)
          /\ old = (IF i <= l THEN so[i] ELSE NewIncident)
          /\ r = Said(Absorbed(old, m, t), t).inc
          /\ open'[i] = r /\ \A k \in 1 .. l : k # i => open'[k] = so[k]
      BY <3>2, <3>4, Zenon DEF Entered
    <3>6. j \in 1 .. Len(open')
      BY <2>3, <3>4, <3>5
    <3>7. CASE j # i
      BY <2>3, <3>4, <3>5, <3>6, <3>7
    <3>8. CASE j = i
      <4>1. old = open[x]
        BY <2>3, <3>4, <3>5, <3>8
      <4>2. t \in Nat /\ Message(m, began[m.object])
        BY TimeIs, SightingIs
      <4>3. Grown(old, m, r)
        BY <1>0, <3>5, <4>1, <4>2, TakenIs
      <4>4. IdOf(r) = IdOf(open[x])
        BY <1>0, <4>1, <4>3, IdKept
      <4> QED BY <3>5, <3>6, <3>8, <4>4
    <3> QED BY <3>7, <3>8
  <2> QED BY <2>4, <2>5
<1> QED BY <1>1, <1>2

\* Activities and detections.
LEMMA KindsApart ==
  /\ Activities \in SUBSET Objects /\ Detections \in SUBSET Objects
  /\ \A x \in Activities : x \notin Detections
BY DEF Activities, Detections

\* What a step leaves of what was announced, but for what it says last.
LEMMA RestRuns ==
  ASSUME TypeOK, OneInv, RunInv, TypeOK', NEW t \in ReceiveTimes,
         Quiet(t) \/ \E m \in Sightings(t) : ObserveSighting(m, t),
         NEW l \in Nat, NEW d \in 0 .. 2, NEW o, Spoke(t, l, d, o)
  PROVE  /\ \A k \in 1 .. Len(open') :
              (d = 0 \/ o # IdOf(open'[k]))
              /\ (\E y \in 1 .. Len(open) : open'[k] = open[y] /\ ~Expired(open[y], t))
              => Announced(open'[k], running'[IdOf(open'[k])])
         /\ \A x \in Activities :
              (d = 0 \/ o # x) /\ (\A k \in 1 .. Len(open') : IdOf(open'[k]) # x) => running'[x] = 0
         /\ \A x \in Detections : d = 0 \/ o # x => running'[x] = running[x]
         /\ \A n \in 1 .. l : Alternates(n)
<1>0. Receive(t) /\ Talk(changes', l, d, o)
  BY MessageIs DEF Spoke
<1>1. ASSUME NEW n \in 1 .. l
      PROVE  \E i \in 1 .. Len(open) :
               /\ Expired(open[i], t) /\ open[i].sent /\ changes'[n] = Over(open[i], t)
               /\ changes'[n].op = "ended" /\ changes'[n].id = IdOf(open[i])
               /\ changes'[n].start = StartOf(open[i].members)
               /\ changes'[n].id \in Activities
  <2>1. PICK i \in 1 .. Len(open) : Expired(open[i], t) /\ open[i].sent /\ changes'[n] = Over(open[i], t)
    BY <1>1 DEF Spoke
  <2>2. IdOf(open[i]) \in Activities
    BY IdIs DEF TypeOK
  <2> QED BY <2>1, <2>2, OverSays
<1>2. ASSUME NEW k \in 1 .. Len(open'), d = 0 \/ o # IdOf(open'[k]),
             NEW y \in 1 .. Len(open), open'[k] = open[y], ~Expired(open[y], t)
      PROVE  Announced(open'[k], running'[IdOf(open'[k])])
  <2>1. PICK x : x = IdOf(open[y])
    OBVIOUS
  <2>2. x \in Objects
    BY <2>1, IdIs DEF TypeOK
  <2>3. ASSUME NEW n \in 1 .. l PROVE changes'[n].id # x
    <3>1. PICK i \in 1 .. Len(open) : Expired(open[i], t) /\ changes'[n].id = IdOf(open[i])
      BY <1>1, <2>3
    <3> QED BY <1>2, <2>1, <3>1, IdsApart
  <2>4. running'[x] = running[x]
    BY <1>0, <1>2, <2>1, <2>2, <2>3, RunsTo
  <2>5. Announced(open[y], running[x])
    BY <2>1 DEF RunInv
  <2> QED BY <1>2, <2>1, <2>4, <2>5
<1>3. ASSUME NEW x \in Activities, d = 0 \/ o # x, \A k \in 1 .. Len(open') : IdOf(open'[k]) # x
      PROVE  running'[x] = 0
  <2>0. x \in Objects
    BY KindsApart
  <2>1. CASE \E n \in 1 .. l : changes'[n].id = x
    <3>1. PICK n \in 1 .. l : changes'[n].id = x
      BY <2>1
    <3>2. running'[x] = StartSaid(changes'[n]) /\ changes'[n].op = "ended"
      BY <1>0, <1>1, <2>0, <3>1, RunsTo
    <3> QED BY <3>2 DEF StartSaid
  <2>2. CASE \A n \in 1 .. l : changes'[n].id # x
    <3>1. running'[x] = running[x]
      BY <1>0, <1>3, <2>0, <2>2, RunsTo
    <3>2. CASE \A i \in 1 .. Len(open) : IdOf(open[i]) # x
      BY <3>1, <3>2 DEF RunInv
    <3>3. ASSUME NEW i \in 1 .. Len(open), IdOf(open[i]) = x PROVE running[x] = 0
      <4>1. Expired(open[i], t)
        BY <1>3, <3>3, IdsMove
      <4>2. ~open[i].sent
        <5>1. ASSUME open[i].sent PROVE FALSE
          <6>1. PICK n \in 1 .. l : changes'[n] = Over(open[i], t)
            BY <4>1, <5>1 DEF Spoke
          <6>2. changes'[n].id = x
            BY <3>3, <6>1, OverSays
          <6> QED BY <2>2, <6>2
        <5> QED BY <5>1
      <4> QED BY <3>3, <4>2 DEF RunInv, Announced
    <3> QED BY <3>1, <3>2, <3>3
  <2> QED BY <2>1, <2>2
<1>4. ASSUME NEW x \in Detections, d = 0 \/ o # x PROVE running'[x] = running[x]
  <2>1. x \in Objects /\ x \notin Activities
    BY KindsApart
  <2>2. ASSUME NEW n \in 1 .. l PROVE changes'[n].id # x
    BY <1>1, <2>1, <2>2
  <2> QED BY <1>0, <1>4, <2>1, <2>2, RunsTo
<1>5. ASSUME NEW n \in 1 .. l PROVE Alternates(n)
  <2>1. PICK i \in 1 .. Len(open) :
          /\ open[i].sent /\ changes'[n].op = "ended" /\ changes'[n].id = IdOf(open[i])
          /\ changes'[n].start = StartOf(open[i].members)
    BY <1>1, <1>5
  <2>2. PICK prev : prev = Prev(changes', n)
    OBVIOUS
  <2>3. prev = {}
    <3>1. PICK cs : cs = changes'
      OBVIOUS
    <3>2. n \in DOMAIN cs /\ Talk(cs, l, d, o) /\ n # l + 2
      BY <1>0, <3>1 DEF Talk
    <3>3. Prev(cs, n) = {}
      BY <3>2, PrevIs
    <3> QED BY <2>2, <3>1, <3>3
  <2>4. Announced(open[i], running[IdOf(open[i])])
    BY DEF RunInv
  <2>5. running[changes'[n].id] # 0 /\ changes'[n].start <= running[changes'[n].id]
    BY <2>1, <2>4 DEF Announced
  <2> QED BY <2>1, <2>2, <2>3, <2>5 DEF Alternates
<1> QED BY <1>2, <1>3, <1>4, <1>5

\* A history by id, if it is one for every kind of id.
LEMMA RunsTyped ==
  ASSUME TypeOK, TypeOK', NEW t, Receive(t),
         \A k \in 1 .. Len(open') : Announced(open'[k], running'[IdOf(open'[k])]),
         \A x \in Activities : (\A k \in 1 .. Len(open') : IdOf(open'[k]) # x) => running'[x] = 0,
         \A x \in Detections : running'[x] \in Nat
  PROVE  running' \in [Objects -> Nat]
<1>1. \E g : running' = [x \in Objects |-> g[x]]
  <2>1. PICK told : told = [x \in Objects |-> {j \in DOMAIN changes' : changes'[j].id = x}]
    OBVIOUS
  <2>2. PICK g : g = [x \in Objects |-> LET tl == {j \in DOMAIN changes' : changes'[j].id = x}
                                        IN  IF tl = {} THEN running[x] ELSE StartSaid(changes'[Max(tl)])]
    OBVIOUS
  <2>3. running' = g
    BY <2>2, Zenon DEF Receive
  <2>4. g = [x \in Objects |-> g[x]]
    BY <2>2
  <2> QED BY <2>3, <2>4
<1>2. ASSUME NEW x \in Activities PROVE running'[x] \in Nat
  <2>1. CASE \A k \in 1 .. Len(open') : IdOf(open'[k]) # x
    BY <2>1
  <2>2. ASSUME NEW k \in 1 .. Len(open'), IdOf(open'[k]) = x PROVE running'[x] \in Nat
    <3>1. Announced(open'[k], running'[x])
      BY <2>2
    <3> QED BY <3>1 DEF Announced
  <2> QED BY <2>1, <2>2
<1>3. \A x \in Objects : x \in Activities \/ x \in Detections
  BY DEF Detections
<1>4. \A x \in Objects : running'[x] \in Nat
  BY <1>2, <1>3
<1> QED BY <1>1, <1>4

\* A message's object is a member of the incident it entered.
LEMMA TakenHolds ==
  ASSUME NEW inc, IsIncident(inc), NEW m, Message(m, began[m.object]), NEW t \in Nat,
         NEW r, r = Said(Absorbed(inc, m, t), t).inc
  PROVE  IsIncident(r) /\ r.members # <<>> /\ Sources(r) = Sources(inc) \cup {m.object}
<1>1. IsIncident(r)
  BY TakenIs, SMTT(30)
<1>2. r.members # <<>>
  BY TakenIs, SMTT(30)
<1>3. Sources(r) = Sources(inc) \cup {m.object}
  BY TakenIs, SMTT(30)
<1> QED BY <1>1, <1>2, <1>3

\* The incident a message enters, before it: what was announced of its id.
LEMMA EntersRun ==
  ASSUME TypeOK, OneInv, SoundInv, RunInv, NEW t \in ReceiveTimes, NEW m \in Sightings(t),
         ObserveSighting(m, t), NEW so, NEW i, NEW old, NEW r,
         so = Settled(t).open, Entered(so, open', i, old, r, m, t)
  PROVE  IsIncident(old) /\ Sound(old, now) /\ Announced(old, running[IdOf(r)])
<1>1. t \in Nat /\ Message(m, began[m.object])
  BY TimeIs, SightingIs
<1>2. Left(so, t)
  BY SettledIs
<1>3. PICK l \in Nat : l = Len(so)
  <2>1. PICK S : so \in Seq(S)
    BY <1>2 DEF Left
  <2> QED BY <2>1
<1>4. /\ i \in 1 .. l + 1 /\ old = (IF i <= l THEN so[i] ELSE NewIncident)
      /\ r = Said(Absorbed(old, m, t), t).inc
      /\ (\E k \in 1 .. l : m.object \in Sources(so[k])) => i \in 1 .. l
  BY <1>3, Zenon DEF Entered
<1>7. ASSUME IsIncident(old)
      PROVE  IsIncident(r) /\ r.members # <<>> /\ Sources(r) = Sources(old) \cup {m.object}
  <2>1. r = Said(Absorbed(old, m, t), t).inc
    BY <1>4
  <2> QED BY <1>1, <1>7, <2>1, TakenHolds
<1>5. CASE i <= l
  <2>1. PICK y \in 1 .. Len(open) : so[i] = open[y]
    BY <1>2, <1>3, <1>4, <1>5 DEF Left
  <2>2. old = open[y] /\ IsIncident(old) /\ old.members # <<>> /\ Sound(old, now)
    BY <1>4, <1>5, <2>1 DEF TypeOK, SoundInv
  <2>3. Grown(old, m, r)
    BY <1>1, <1>4, <2>2, TakenIs
  <2>4. IdOf(r) = IdOf(old)
    BY <2>2, <2>3, IdKept
  <2> QED BY <2>2, <2>4 DEF RunInv
<1>6. CASE ~(i <= l)
  <2>1. old = NewIncident /\ IsIncident(old) /\ Sound(old, now) /\ old.sent = FALSE
    BY <1>4, <1>6, NewIs, SoundNew
  <2>2. IdOf(r) = m.object /\ m.object \in Activities /\ m.object \in Objects
    <3>1. Sources(old) = {}
      BY <2>1, NewIs DEF Sources
    <3>2. IsIncident(r) /\ r.members # <<>> /\ Sources(r) = Sources(old) \cup {m.object}
      BY <1>7, <2>1, Zenon
    <3>3. IdOf(r) \in Sources(r) /\ IdOf(r) \in Activities /\ IdOf(r) \in Objects
      BY <3>2, IdIs
    <3> QED BY <3>1, <3>2, <3>3
  <2>3. ASSUME NEW y \in 1 .. Len(open), IdOf(open[y]) = m.object PROVE FALSE
    <3>1. m.object \in Sources(open[y])
      BY <2>3, IdIs DEF TypeOK
    <3>2. Expired(open[y], t)
      <4>1. ASSUME ~Expired(open[y], t) PROVE FALSE
        <5>1. PICK j \in 1 .. l : so[j] = open[y]
          BY <1>2, <1>3, <4>1 DEF Left
        <5>2. i \in 1 .. l
          BY <1>4, <3>1, <5>1
        <5> QED BY <1>6, <5>2
      <4> QED BY <4>1
    <3>3. m.object \in Gone(t)
      BY <3>1, <3>2, Positions
    <3>4. Settled(t).closed[m.object] = t
      BY <1>1, <2>2, <3>3, ClosedIs
    <3>5. Settled(t).closed[m.object] = 0
      BY EnteredOne
    <3>6. t >= 1
      BY TimeIs
    <3> QED BY <1>1, <3>4, <3>5, <3>6
  <2>4. running[m.object] = 0
    BY <2>2, <2>3 DEF RunInv
  <2> QED BY <2>1, <2>2, <2>4 DEF Announced
<1> QED BY <1>4, <1>5, <1>6

\* What a step says after the ends of the incidents it closes.
LEMMA SpokeIs ==
  ASSUME NEW t, NEW S, NEW ch \in Seq(S), Overs(ch, t), NEW l \in Nat, l = Len(ch),
         NEW o, NEW d \in 0 .. 2, DOMAIN changes' = 1 .. (l + d),
         \A n \in 1 .. l : changes'[n] = ch[n], \A n \in 1 .. d : changes'[l + n].id = o,
         d # 0 => \A n \in 1 .. l : ch[n].id # o
  PROVE  Spoke(t, l, d, o)
<1>1. PICK cs : cs = changes'
  OBVIOUS
<1>3. /\ DOMAIN cs = 1 .. (l + d) /\ \A n \in 1 .. l : cs[n] = ch[n]
      /\ \A n \in 1 .. d : cs[l + n].id = o
  BY <1>1
<1>4. /\ \A n, p \in 1 .. Len(ch) : ch[n].id = ch[p].id => n = p
      /\ \A n \in 1 .. Len(ch) : \E x \in 1 .. Len(open) :
           Expired(open[x], t) /\ open[x].sent /\ ch[n] = Over(open[x], t)
      /\ \A x \in 1 .. Len(open) : Expired(open[x], t) /\ open[x].sent =>
           \E n \in 1 .. Len(ch) : ch[n] = Over(open[x], t)
  BY Zenon DEF Overs
<1>5. Talk(cs, l, d, o)
  <2>1. \A n, p \in 1 .. l : cs[n].id = cs[p].id => n = p
    BY <1>3, <1>4, ZenonT(60)
  <2>2. d # 0 => \A n \in 1 .. l : cs[n].id # o
    BY <1>3
  <2>3. ASSUME NEW n \in (l + 1) .. (l + d) PROVE cs[n].id = o
    <3>1. PICK k \in 1 .. d : n = l + k
      <4>1. n - l \in 1 .. d /\ n = l + (n - l)
        BY <2>3
      <4> QED BY <4>1
    <3> QED BY <1>3, <3>1
  <2> QED BY <1>3, <2>1, <2>2, <2>3 DEF Talk
<1>6. \A n \in 1 .. l : \E x \in 1 .. Len(open) :
        Expired(open[x], t) /\ open[x].sent /\ cs[n] = Over(open[x], t)
  BY <1>3, <1>4
<1>7. \A x \in 1 .. Len(open) : Expired(open[x], t) /\ open[x].sent =>
        \E n \in 1 .. l : cs[n] = Over(open[x], t)
  BY <1>3, <1>4
<1> QED BY <1>1, <1>5, <1>6, <1>7 DEF Spoke

\* A sighting.
LEMMA SightingRuns ==
  ASSUME TypeOK, OneInv, SoundInv, RunInv, TypeOK', OneInv', NEW t \in ReceiveTimes,
         NEW m \in Sightings(t), ObserveSighting(m, t)
  PROVE  RunInv' /\ \A j \in DOMAIN changes' : Alternates(j)
<1>1. PICK so, i, old, r :
        /\ so = Settled(t).open /\ Entered(so, open', i, old, r, m, t)
        /\ changes' = Settled(t).changes \o Said(Absorbed(old, m, t), t).changes
  BY Enters
<1>2. PICK S : \E ch \in Seq(S) : ch = Settled(t).changes /\ Overs(ch, t)
  BY OversAre
<1>3. PICK ch \in Seq(S) : ch = Settled(t).changes /\ Overs(ch, t)
  BY <1>2
<1>4. PICK a : a = Absorbed(old, m, t)
  OBVIOUS
<1>5. PICK s : s = Said(a, t)
  OBVIOUS
<1>6. PICK b : b = s.changes
  OBVIOUS
<1>7. PICK o : o = IdOf(r)
  OBVIOUS
<1>8. r = s.inc /\ open'[i] = r
  BY <1>1, <1>4, <1>5 DEF Entered
<1>9. IsIncident(old) /\ Sound(old, now) /\ Announced(old, running[o])
  BY <1>1, <1>7, EntersRun
<1>10. /\ b = <<>> => Announced(r, running[o])
       /\ b = <<>> \/ \E c :
            /\ b = <<c>> /\ c.id = o /\ c.op \in {"started", "updated"}
            /\ c.op = "started" <=> running[o] = 0
            /\ c.op = "updated" => c.start <= running[o]
            /\ Announced(r, c.start)
  BY <1>4, <1>5, <1>6, <1>7, <1>8, <1>9, TakenSays
<1>11. Receive(t) /\ changes' = ch \o b /\ live' = live
  BY <1>1, <1>3, <1>4, <1>5, <1>6 DEF ObserveSighting
<1>12. PICK l \in Nat : l = Len(ch)
  BY <1>3
<1>13. i \in 1 .. Len(open') /\ IsIncident(r) /\ r.members # <<>>
       /\ \A k \in 1 .. Len(open') : k # i => \E y \in 1 .. Len(open) :
            open'[k] = open[y] /\ ~Expired(open[y], t)
  <2>1. Left(so, t)
    BY <1>1, SettledIs
  <2>2. PICK n \in Nat : n = Len(so)
    <3>1. PICK U : so \in Seq(U)
      BY <2>1 DEF Left
    <3> QED BY <3>1
  <2>3. /\ i \in 1 .. n + 1 /\ Len(open') = (IF i <= n THEN n ELSE i)
        /\ \A k \in 1 .. n : k # i => open'[k] = so[k]
    BY <1>1, <2>2, Zenon DEF Entered
  <2>4. i \in 1 .. Len(open') /\ \A k \in 1 .. Len(open') : k # i => k \in 1 .. n
    BY <2>3
  <2>5. IsIncident(open'[i]) /\ open'[i].members # <<>>
    BY <2>4 DEF TypeOK
  <2>6. \A k \in 1 .. n : \E y \in 1 .. Len(open) : so[k] = open[y] /\ ~Expired(open[y], t)
    BY <2>1, <2>2, Zenon DEF Left
  <2> QED BY <1>8, <2>3, <2>4, <2>5, <2>6, ZenonT(60)
<1>14. o \in Activities /\ o \in Objects /\ o \in Sources(open'[i]) /\ o \in MembersOf(open')
  <2>1. o \in Activities /\ o \in Objects /\ o \in Sources(open'[i])
    BY <1>7, <1>8, <1>13, IdIs
  <2>2. PICK U : open' \in Seq(U)
    BY DEF TypeOK
  <2> QED BY <1>13, <2>1, <2>2, MembersIs
<1>15. ASSUME NEW k \in 1 .. Len(open'), k # i PROVE IdOf(open'[k]) # o
  <2>1. IdOf(open'[k]) \in Sources(open'[k])
    BY <1>15, IdIs DEF TypeOK
  <2> QED BY <1>13, <1>14, <1>15, <2>1 DEF OneInv, Apart
<1>16. ASSUME NEW n \in 1 .. l PROVE ch[n].id # o
  <2>1. PICK x \in 1 .. Len(open) : Expired(open[x], t) /\ ch[n] = Over(open[x], t)
    BY <1>3, <1>12, <1>16 DEF Overs
  <2>2. ch[n].id = IdOf(open[x]) /\ IdOf(open[x]) \notin MembersOf(open')
    BY <2>1, OverSays, IdsMove
  <2> QED BY <1>14, <2>2
<1>17. ASSUME NEW d \in 0 .. 1, NEW T, NEW bb \in Seq(T), bb = b, Len(bb) = d, d = 1 => bb[1].id = o
       PROVE  /\ Spoke(t, l, d, o) /\ (d = 1 => changes'[l + 1] = bb[1])
              /\ \A n \in 1 .. l : changes'[n].id # o
  <2>1. d \in 0 .. 2 /\ \A n \in 1 .. d : n = 1 /\ d = 1
    OBVIOUS
  <2>2. \A n \in 1 .. d : bb[n].id = o
    BY <1>17, <2>1
  <2>3. changes' = ch \o bb
    BY <1>11, <1>17
  <2>4. /\ DOMAIN changes' = 1 .. (l + d)
        /\ \A n \in 1 .. l : changes'[n] = ch[n]
        /\ \A n \in 1 .. d : changes'[l + n] = bb[n]
    <3>1. PICK cs : cs = changes'
      OBVIOUS
    <3>2. cs = ch \o bb
      BY <2>3, <3>1
    <3>3. /\ DOMAIN cs = 1 .. (Len(ch) + Len(bb))
          /\ \A n \in 1 .. Len(ch) : cs[n] = ch[n]
          /\ \A n \in 1 .. Len(bb) : cs[Len(ch) + n] = bb[n]
      BY <3>2, AfterIs
    <3> QED BY <1>12, <1>17, <3>1, <3>3
  <2>5. \A n \in 1 .. d : changes'[l + n].id = o
    BY <2>2, <2>4
  <2>6. Overs(ch, t) /\ d \in 0 .. 2 /\ \A n \in 1 .. l : ch[n].id # o
    BY <1>3, <1>16, <2>1
  <2>7. Spoke(t, l, d, o)
    BY <1>12, <2>4, <2>5, <2>6, SpokeIs, ZenonT(60)
  <2> QED BY <1>16, <2>4, <2>7
<1>18. ASSUME NEW d \in 0 .. 2, Spoke(t, l, d, o), Announced(r, running'[o]),
              d # 0 => d = 1 /\ Alternates(l + 1)
       PROVE  RunInv' /\ \A j \in DOMAIN changes' : Alternates(j)
  <2>1. /\ \A k \in 1 .. Len(open') :
             (d = 0 \/ o # IdOf(open'[k]))
             /\ (\E y \in 1 .. Len(open) : open'[k] = open[y] /\ ~Expired(open[y], t))
             => Announced(open'[k], running'[IdOf(open'[k])])
        /\ \A x \in Activities :
             (d = 0 \/ o # x) /\ (\A k \in 1 .. Len(open') : IdOf(open'[k]) # x) => running'[x] = 0
        /\ \A x \in Detections : d = 0 \/ o # x => running'[x] = running[x]
        /\ \A n \in 1 .. l : Alternates(n)
    BY <1>18, RestRuns
  <2>2. \A k \in 1 .. Len(open') : Announced(open'[k], running'[IdOf(open'[k])])
    BY <1>7, <1>8, <1>13, <1>15, <1>18, <2>1
  <2>3. \A x \in Activities : (\A k \in 1 .. Len(open') : IdOf(open'[k]) # x) => running'[x] = 0
    BY <1>7, <1>8, <1>13, <2>1
  <2>4. \A x \in Detections : running'[x] = running[x] /\ running[x] \in Nat
    BY <1>14, <2>1, KindsApart DEF RunInv
  <2>5. running' \in [Objects -> Nat]
    BY <1>11, <2>2, <2>3, <2>4, RunsTyped
  <2>6. \A x \in Detections : (Known(x)' => running'[x] # 0) /\ (~Known(x)' => running'[x] = 0)
    BY <1>11, <2>4 DEF RunInv, Known
  <2>7. \E V : live' \in [Objects -> V]
    BY <1>11 DEF RunInv
  <2>8. RunInv'
    BY <2>2, <2>3, <2>5, <2>6, <2>7 DEF RunInv
  <2>9. ASSUME NEW j \in DOMAIN changes' PROVE Alternates(j)
    <3>1. j \in 1 .. (l + d)
      BY <1>18, <2>9 DEF Spoke, Talk
    <3>2. CASE j <= l
      BY <2>1, <3>1, <3>2
    <3>3. CASE ~(j <= l)
      <4>1. d = 1 /\ j = l + 1
        BY <1>18, <3>1, <3>3
      <4> QED BY <1>18, <4>1
    <3> QED BY <3>2, <3>3
  <2> QED BY <2>8, <2>9
<1>19. CASE b = <<>>
  <2>1. PICK T : T = {0}
    OBVIOUS
  <2>2. PICK bb \in Seq(T) : bb = b /\ Len(bb) = 0
    <3>1. <<>> \in Seq(T) /\ Len(<<>>) = 0
      OBVIOUS
    <3> QED BY <1>19, <3>1
  <2>7. PICK d \in 0 .. 1 : d = 0
    OBVIOUS
  <2>8. Spoke(t, l, d, o) /\ \A n \in 1 .. l : changes'[n].id # o
    <3>1. Len(bb) = d /\ (d = 1 => bb[1].id = o)
      BY <2>2, <2>7
    <3> QED BY <1>17, <2>2, <3>1
  <2>9. Spoke(t, l, 0, o) /\ \A n \in 1 .. l : changes'[n].id # o
    BY <2>7, <2>8
  <2>3. running'[o] = running[o]
    <3>1. Talk(changes', l, 0, o)
      BY <2>9 DEF Spoke
    <3>2. 0 \in 0 .. 2 /\ o \in Objects
      BY <1>14
    <3> QED BY <1>11, <2>9, <3>1, <3>2, RunsTo
  <2>4. Announced(r, running'[o])
    BY <1>10, <1>19, <2>3
  <2> QED BY <1>18, <2>4, <2>9
<1>20. ASSUME NEW c, b = <<c>>, c.id = o, c.op \in {"started", "updated"},
              c.op = "started" <=> running[o] = 0, c.op = "updated" => c.start <= running[o],
              Announced(r, c.start)
       PROVE  RunInv' /\ \A j \in DOMAIN changes' : Alternates(j)
  <2>1. PICK T : T = {c}
    OBVIOUS
  <2>8. PICK bb \in Seq(T) : bb = b /\ Len(bb) = 1 /\ bb[1] = c
    <3>1. <<c>> \in Seq(T) /\ Len(<<c>>) = 1 /\ <<c>>[1] = c
      BY <2>1
    <3> QED BY <1>20, <3>1
  <2>9. PICK d \in 0 .. 1 : d = 1
    OBVIOUS
  <2>10. bb[1].id = o
    BY <1>20, <2>8
  <2>11. Spoke(t, l, d, o) /\ (d = 1 => changes'[l + 1] = bb[1])
    BY <1>17, <2>8, <2>9, <2>10
  <2>2. Spoke(t, l, 1, o) /\ changes'[l + 1] = c
    BY <2>8, <2>9, <2>11
  <2>3. PICK cs : cs = changes'
    OBVIOUS
  <2>4. Talk(cs, l, 1, o) /\ l + 1 \in DOMAIN cs /\ cs[l + 1] = c
    BY <2>2, <2>3 DEF Spoke, Talk
  <2>5. running'[o] = c.start
    <3>1. running'[o] = StartSaid(c)
      BY <1>11, <1>14, <2>3, <2>4, RunsTo
    <3> QED BY <1>20, <3>1 DEF StartSaid
  <2>6. Prev(cs, l + 1) = {}
    BY <2>4, PrevIs
  <2>7. Alternates(l + 1)
    BY <1>20, <2>3, <2>4, <2>6 DEF Alternates
  <2> QED BY <1>18, <1>20, <2>2, <2>5, <2>7
<1> QED BY <1>10, <1>19, <1>20

\* A message that touches no incident, from what it does to the detections.
LEMMA QuietRuns ==
  ASSUME TypeOK, OneInv, RunInv, TypeOK', NEW t \in ReceiveTimes, Quiet(t),
         NEW l \in Nat, NEW d \in 0 .. 2, NEW o, Spoke(t, l, d, o), d # 0 => o \in Detections,
         \E V : live' \in [Objects -> V],
         \A x \in Detections : /\ running'[x] \in Nat
                               /\ live'[x].live => running'[x] # 0
                               /\ ~live'[x].live => running'[x] = 0,
         \A n \in (l + 1) .. (l + d) : Alternates(n)
  PROVE  RunInv' /\ \A j \in DOMAIN changes' : Alternates(j)
<1>1. /\ \A k \in 1 .. Len(open') :
           (d = 0 \/ o # IdOf(open'[k]))
           /\ (\E y \in 1 .. Len(open) : open'[k] = open[y] /\ ~Expired(open[y], t))
           => Announced(open'[k], running'[IdOf(open'[k])])
      /\ \A x \in Activities :
           (d = 0 \/ o # x) /\ (\A k \in 1 .. Len(open') : IdOf(open'[k]) # x) => running'[x] = 0
      /\ \A n \in 1 .. l : Alternates(n)
  BY RestRuns
<1>2. \A x \in Activities : d = 0 \/ o # x
  BY KindsApart
<1>3. ASSUME NEW k \in 1 .. Len(open') PROVE Announced(open'[k], running'[IdOf(open'[k])])
  <2>1. Left(open', t)
    <3>1. open' = Settled(t).open
      BY MessageIs
    <3>2. PICK so : so = open'
      OBVIOUS
    <3>3. Left(so, t)
      BY <3>1, <3>2, SettledIs
    <3> QED BY <3>2, <3>3
  <2>2. PICK so : so = open'
    OBVIOUS
  <2>3. \E y \in 1 .. Len(open) : so[k] = open[y] /\ ~Expired(open[y], t)
    BY <1>3, <2>1, <2>2, Zenon DEF Left
  <2>4. PICK y \in 1 .. Len(open) : open'[k] = open[y] /\ ~Expired(open[y], t)
    BY <2>2, <2>3
  <2>5. IdOf(open'[k]) \in Activities
    BY <2>4, IdIs DEF TypeOK
  <2> QED BY <1>1, <1>2, <2>4, <2>5
<1>4. \A x \in Activities : (\A k \in 1 .. Len(open') : IdOf(open'[k]) # x) => running'[x] = 0
  BY <1>1, <1>2
<1>5. running' \in [Objects -> Nat]
  BY <1>3, <1>4, MessageIs, RunsTyped
<1>6. \A x \in Detections : (Known(x)' => running'[x] # 0) /\ (~Known(x)' => running'[x] = 0)
  BY DEF Known
<1>7. RunInv'
  BY <1>3, <1>4, <1>5, <1>6 DEF RunInv
<1>8. ASSUME NEW j \in DOMAIN changes' PROVE Alternates(j)
  <2>1. j \in 1 .. (l + d)
    BY <1>8 DEF Spoke, Talk
  <2>2. j \in 1 .. l \/ j \in (l + 1) .. (l + d)
    BY <2>1
  <2> QED BY <1>1, <2>2
<1> QED BY <1>7, <1>8

\* A clock tick.
LEMMA TickRuns ==
  ASSUME TypeOK, OneInv, RunInv, TypeOK', NEW t \in ReceiveTimes, ObserveTick(t)
  PROVE  RunInv' /\ \A j \in DOMAIN changes' : Alternates(j)
<1>1. PICK S : \E ch \in Seq(S) : ch = Settled(t).changes /\ Overs(ch, t)
  BY OversAre
<1>2. PICK ch \in Seq(S) : ch = Settled(t).changes /\ Overs(ch, t)
  BY <1>1
<1>3. Quiet(t) /\ live' = live
  BY Zenon DEF Quiet, ObserveTick
<1>4. changes' = ch
  BY <1>2, Zenon DEF ObserveTick
<1>5. PICK l \in Nat : l = Len(ch) /\ DOMAIN ch = 1 .. l
  BY <1>2
<1>6. PICK d \in 0 .. 2 : d = 0
  OBVIOUS
<1>7. /\ DOMAIN changes' = 1 .. (l + d) /\ \A n \in 1 .. l : changes'[n] = ch[n]
      /\ \A n \in 1 .. d : changes'[l + n].id = t
  BY <1>4, <1>5, <1>6
<1>8. Spoke(t, l, d, t)
  BY <1>2, <1>5, <1>6, <1>7, SpokeIs
<1>9. \A x \in Detections : running'[x] = running[x]
  BY <1>3, <1>6, <1>8, RestRuns
<1>10. \A x \in Detections : /\ running'[x] \in Nat
                             /\ live'[x].live => running'[x] # 0
                             /\ ~live'[x].live => running'[x] = 0
  BY <1>3, <1>9, KindsApart DEF RunInv, Known
<1>11. \E V : live' \in [Objects -> V]
  BY <1>3 DEF RunInv
<1>12. \A n \in (l + 1) .. (l + d) : Alternates(n)
  BY <1>6
<1> QED BY <1>3, <1>6, <1>8, <1>10, <1>11, <1>12, QuietRuns

\* What a detection's message says of its object.
LEMMA PassedSays ==
  ASSUME NEW m \in Reports, NEW o, o = m.object
  PROVE  \E d \in 0 .. 2 : \E p \in Seq(Words) :
           /\ p = Passed(m) /\ Len(p) = d
           /\ d = 0 => Known(o) /\ m.type # "end"
           /\ d = 1 => (p[1] = "started" <=> ~Known(o)) /\ (p[1] = "ended" <=> m.type = "end")
           /\ d = 2 => p[1] = "started" /\ p[2] = "ended" /\ ~Known(o) /\ m.type = "end"
<1>1. m.type \in {"new", "update", "end"}
  BY DEF Reports
<1>2. PICK p \in Seq(Words) : p = Passed(m)
  BY PassedIs
<1>3. CASE p = <<>> /\ Known(o) /\ m.type # "end"
  <2>1. Len(p) = 0
    BY <1>3
  <2>2. 0 \in 0 .. 2 /\ 0 # 1 /\ 0 # 2
    OBVIOUS
  <2> QED BY <1>2, <1>3, <2>1, <2>2
<1>4. ASSUME NEW w, p = <<w>>, w = "started" <=> ~Known(o), w = "ended" <=> m.type = "end"
      PROVE  \E d \in 0 .. 2 :
           /\ Len(p) = d
           /\ d = 0 => Known(o) /\ m.type # "end"
           /\ d = 1 => (p[1] = "started" <=> ~Known(o)) /\ (p[1] = "ended" <=> m.type = "end")
           /\ d = 2 => p[1] = "started" /\ p[2] = "ended" /\ ~Known(o) /\ m.type = "end"
  <2>1. Len(p) = 1 /\ p[1] = w
    BY <1>4
  <2>2. 1 \in 0 .. 2 /\ 1 # 0 /\ 1 # 2
    OBVIOUS
  <2>3. (p[1] = "started" <=> ~Known(o)) /\ (p[1] = "ended" <=> m.type = "end")
    BY <1>4, <2>1
  <2> QED BY <2>1, <2>2, <2>3
<1>5. CASE p = <<"started", "ended">> /\ ~Known(o) /\ m.type = "end"
  <2>1. Len(p) = 2 /\ p[1] = "started" /\ p[2] = "ended"
    BY <1>5
  <2>2. 2 \in 0 .. 2 /\ 2 # 0 /\ 2 # 1
    OBVIOUS
  <2> QED BY <1>2, <1>5, <2>1, <2>2
<1>6. CASE m.type = "end"
  <2>1. p = IF Known(o) THEN <<"ended">> ELSE <<"started", "ended">>
    BY <1>2, <1>6 DEF Passed
  <2>2. CASE Known(o)
    BY <1>2, <1>4, <1>6, <2>1, <2>2
  <2>3. CASE ~Known(o)
    BY <1>5, <1>6, <2>1, <2>3
  <2> QED BY <2>2, <2>3
<1>7. CASE m.type = "new"
  <2>1. p = IF Known(o) THEN <<>> ELSE <<"started">>
    BY <1>2, <1>7 DEF Passed
  <2>2. CASE Known(o)
    BY <1>3, <1>7, <2>1, <2>2
  <2>3. CASE ~Known(o)
    BY <1>2, <1>4, <1>7, <2>1, <2>3
  <2> QED BY <2>2, <2>3
<1>8. CASE m.type = "update"
  <2>1. p = IF ~Known(o) THEN <<"started">> ELSE IF live[o] = View(m) THEN <<>> ELSE <<"updated">>
    BY <1>2, <1>8 DEF Passed
  <2>2. CASE ~Known(o)
    BY <1>2, <1>4, <1>8, <2>1, <2>2
  <2>3. CASE Known(o) /\ live[o] = View(m)
    BY <1>3, <1>8, <2>1, <2>3
  <2>4. CASE Known(o) /\ live[o] # View(m)
    BY <1>2, <1>4, <1>8, <2>1, <2>4
  <2> QED BY <2>2, <2>3, <2>4
<1> QED BY <1>1, <1>6, <1>7, <1>8

\* A detection's message.
LEMMA DetectionRuns ==
  ASSUME TypeOK, OneInv, RunInv, TypeOK', NEW t \in ReceiveTimes, NEW m \in Reports,
         ObserveDetection(m, t)
  PROVE  RunInv' /\ \A j \in DOMAIN changes' : Alternates(j)
<1>1. PICK S : \E ch \in Seq(S) : ch = Settled(t).changes /\ Overs(ch, t)
  BY OversAre
<1>2. PICK ch \in Seq(S) : ch = Settled(t).changes /\ Overs(ch, t)
  BY <1>1
<1>3. PICK l \in Nat : l = Len(ch)
  BY <1>2
<1>4. PICK o : o = m.object
  OBVIOUS
<1>5. o \in Detections /\ o \in Objects /\ o \notin Activities
  BY <1>4, KindsApart DEF Reports
<1>6. PICK d \in 0 .. 2 : \E p \in Seq(Words) :
        /\ p = Passed(m) /\ Len(p) = d
        /\ d = 0 => Known(o) /\ m.type # "end"
        /\ d = 1 => (p[1] = "started" <=> ~Known(o)) /\ (p[1] = "ended" <=> m.type = "end")
        /\ d = 2 => p[1] = "started" /\ p[2] = "ended" /\ ~Known(o) /\ m.type = "end"
  BY <1>4, PassedSays
<1>7. PICK p \in Seq(Words) :
        /\ p = Passed(m) /\ Len(p) = d
        /\ d = 0 => Known(o) /\ m.type # "end"
        /\ d = 1 => (p[1] = "started" <=> ~Known(o)) /\ (p[1] = "ended" <=> m.type = "end")
        /\ d = 2 => p[1] = "started" /\ p[2] = "ended" /\ ~Known(o) /\ m.type = "end"
  BY <1>6
<1>8. PICK s : s = began[o]
  OBVIOUS
<1>9. s \in Nat \ {0}
  BY <1>5, <1>8 DEF TypeOK
<1>10. PICK b : b = [n \in DOMAIN p |-> Change(p[n], o, s, IF p[n] = "ended" THEN t ELSE 0)]
  OBVIOUS
<1>11. Quiet(t) /\ Receive(t) /\ changes' = ch \o b
  BY <1>2, <1>4, <1>7, <1>8, <1>10, Zenon DEF ObserveDetection, Quiet
<1>12. DOMAIN p = 1 .. d
  BY <1>7
<1>13. \A n \in 1 .. d : b[n].op = p[n] /\ b[n].id = o /\ b[n].start = s
  BY <1>10, <1>12 DEF Change
<1>14. PICK T : T = {b[n] : n \in 1 .. d}
  OBVIOUS
<1>15. b \in Seq(T) /\ Len(b) = d
  BY <1>10, <1>12, <1>14
<1>16. PICK cs : cs = changes'
  OBVIOUS
<1>17. /\ DOMAIN cs = 1 .. (l + d) /\ \A n \in 1 .. l : cs[n] = ch[n]
       /\ \A n \in 1 .. d : cs[l + n] = b[n]
  <2>1. cs = ch \o b
    BY <1>11, <1>16
  <2>2. /\ DOMAIN cs = 1 .. (Len(ch) + Len(b))
        /\ \A n \in 1 .. Len(ch) : cs[n] = ch[n]
        /\ \A n \in 1 .. Len(b) : cs[Len(ch) + n] = b[n]
    BY <1>15, <2>1, AfterIs
  <2> QED BY <1>3, <1>15, <2>2
<1>18. \A n \in 1 .. d : cs[l + n].op = p[n] /\ cs[l + n].id = o /\ cs[l + n].start = s
  BY <1>13, <1>17
<1>19. ASSUME NEW n \in 1 .. l PROVE ch[n].id # o
  <2>1. PICK x \in 1 .. Len(open) : ch[n] = Over(open[x], t)
    BY <1>2, <1>3, <1>19 DEF Overs
  <2>2. ch[n].id = IdOf(open[x]) /\ IdOf(open[x]) \in Activities
    BY <2>1, OverSays, IdIs DEF TypeOK
  <2> QED BY <1>5, <2>2
<1>20. Spoke(t, l, d, o) /\ Talk(cs, l, d, o)
  <2>1. DOMAIN changes' = 1 .. (l + d) /\ \A n \in 1 .. l : changes'[n] = ch[n]
    BY <1>16, <1>17
  <2>2. \A n \in 1 .. d : changes'[l + n].id = o
    BY <1>16, <1>18
  <2>3. Overs(ch, t) /\ (d # 0 => \A n \in 1 .. l : ch[n].id # o)
    BY <1>2, <1>19
  <2>4. Spoke(t, l, d, o)
    BY <1>3, <2>1, <2>2, <2>3, SpokeIs
  <2> QED BY <1>16, <2>4 DEF Spoke
<1>21. live[o].live => running[o] # 0
  BY <1>5 DEF RunInv, Known
<1>22. ~live[o].live => running[o] = 0
  BY <1>5 DEF RunInv, Known
<1>23. \A n \in 1 .. d : l + n \in DOMAIN cs
  BY <1>17
<1>24. ASSUME d # 0 PROVE Alternates(l + 1)
  <2>1. PICK k \in Nat : k = l + 1
    OBVIOUS
  <2>2. 1 \in 1 .. d
    BY <1>24
  <2>3. k \in DOMAIN cs /\ k # l + 2 /\ cs[k].op = p[1] /\ cs[k].id = o
    BY <1>18, <1>23, <2>1, <2>2
  <2>4. Prev(cs, k) = {}
    BY <1>20, <2>3, PrevIs
  <2>5. p[1] = "started" => running[o] = 0
    <3>1. d = 1 \/ d = 2
      BY <1>24
    <3> QED BY <1>7, <1>22, <3>1 DEF Known
  <2>6. running[o] = 0 => p[1] = "started"
    <3>1. d = 1 \/ d = 2
      BY <1>24
    <3> QED BY <1>7, <1>21, <3>1 DEF Known
  <2>7. Alternates(k)
    BY <1>5, <1>16, <2>3, <2>4, <2>5, <2>6 DEF Alternates
  <2> QED BY <2>1, <2>7
<1>25. ASSUME d = 2 PROVE Alternates(l + 2)
  <2>1. PICK k \in Nat : k = l + 2
    OBVIOUS
  <2>2. 1 \in 1 .. d /\ 2 \in 1 .. d
    BY <1>25
  <2>3. k \in DOMAIN cs /\ cs[k].op = "ended" /\ cs[k].id = o /\ cs[l + 1].op = "started"
    BY <1>7, <1>18, <1>23, <1>25, <2>1, <2>2
  <2>4. Prev(cs, k) # {} /\ Max(Prev(cs, k)) = l + 1
    BY <1>20, <2>1, <2>3, PrevIs
  <2>5. Alternates(k)
    BY <1>5, <1>16, <2>3, <2>4 DEF Alternates
  <2> QED BY <2>1, <2>5
<1>26. \A n \in (l + 1) .. (l + d) : Alternates(n)
  <2> SUFFICES ASSUME NEW n \in (l + 1) .. (l + d) PROVE Alternates(n)
    OBVIOUS
  <2>1. (n = l + 1 /\ d # 0) \/ (n = l + 2 /\ d = 2)
    OBVIOUS
  <2> QED BY <1>24, <1>25, <2>1
<1>27. PICK V : live \in [Objects -> V]
  BY DEF RunInv
<1>28. PICK v : live' = [live EXCEPT ![o] = v] /\ (m.type = "end" => ~v.live) /\ (m.type # "end" => v.live)
  <2>1. PICK v : v = IF m.type = "end" THEN NotLive
                     ELSE IF m.type = "new" /\ Known(m.object) THEN live[o] ELSE View(m)
    OBVIOUS
  <2>2. live' = [live EXCEPT ![o] = v]
    BY <1>4, <2>1 DEF ObserveDetection
  <2>3. m.type = "end" => ~v.live
    BY <2>1 DEF NotLive
  <2>4. m.type # "end" => v.live
    BY <1>4, <2>1 DEF View, Known
  <2> QED BY <2>2, <2>3, <2>4
<1>29. /\ live' \in [Objects -> V \cup {v}] /\ live'[o] = v
       /\ \A x \in Detections : x # o => live'[x] = live[x]
  BY <1>5, <1>27, <1>28, KindsApart
<1>30. /\ d = 0 => running'[o] = running[o]
       /\ d # 0 => running'[o] = StartSaid(cs[l + d])
  <2>1. \A n \in 1 .. l : changes'[n].id # o
    BY <1>16, <1>17, <1>19
  <2>2. Talk(changes', l, d, o)
    BY <1>16, <1>20
  <2> QED BY <1>5, <1>11, <1>16, <2>1, <2>2, RunsTo, ZenonT(60)
<1>31. running'[o] \in Nat /\ (v.live => running'[o] # 0) /\ (~v.live => running'[o] = 0)
  <2>1. CASE d = 0
    <3>1. running'[o] = running[o] /\ running[o] \in Nat
      BY <1>5, <1>30, <2>1 DEF RunInv
    <3>2. v.live /\ live[o].live
      BY <1>7, <1>28, <2>1 DEF Known
    <3> QED BY <1>21, <3>1, <3>2
  <2>2. CASE d # 0
    <3>1. PICK c : c = cs[l + d]
      OBVIOUS
    <3>2. d \in 1 .. d
      BY <2>2
    <3>3. c.op = p[d] /\ c.start = s
      BY <1>18, <3>1, <3>2
    <3>4. p[d] = "ended" => m.type = "end"
      BY <1>7, <2>2
    <3>5. m.type = "end" => p[d] = "ended"
      BY <1>7, <2>2
    <3>6. running'[o] = IF p[d] = "ended" THEN 0 ELSE s
      BY <1>30, <2>2, <3>1, <3>3 DEF StartSaid
    <3> QED BY <1>9, <1>28, <3>4, <3>5, <3>6
  <2> QED BY <2>1, <2>2
<1>32. \A x \in Detections : /\ running'[x] \in Nat
                             /\ live'[x].live => running'[x] # 0
                             /\ ~live'[x].live => running'[x] = 0
  <2>1. \A x \in Detections : x # o => running'[x] = running[x]
    BY <1>11, <1>20, RestRuns
  <2>2. ASSUME NEW x \in Detections, x # o
        PROVE  /\ running'[x] \in Nat
               /\ live'[x].live => running'[x] # 0
               /\ ~live'[x].live => running'[x] = 0
    BY <1>29, <2>1, <2>2, KindsApart DEF RunInv, Known
  <2> QED BY <1>29, <1>31, <2>2
<1> QED BY <1>5, <1>11, <1>20, <1>26, <1>29, <1>32, QuietRuns

\* Before the first message nothing was announced.
LEMMA RunInit == Init => RunInv
<1> SUFFICES ASSUME Init PROVE RunInv
  OBVIOUS
<1>1. /\ open = <<>> /\ live = [x \in Objects |-> NotLive] /\ running = [x \in Objects |-> 0]
  BY DEF Init
<1>2. Len(open) = 0
  BY <1>1
<1>3. running \in [Objects -> Nat] /\ live \in [Objects -> {NotLive}]
  BY <1>1
<1>4. \A x \in Detections : running[x] = 0 /\ ~Known(x)
  BY <1>1, KindsApart DEF Known, NotLive
<1>5. \A x \in Activities : running[x] = 0
  BY <1>1, KindsApart
<1>6. \E V : live \in [Objects -> V]
  BY <1>3
<1>7. \A i \in 1 .. Len(open) : Announced(open[i], running[IdOf(open[i])])
  BY <1>2
<1>8. \A x \in Activities : (\A i \in 1 .. Len(open) : IdOf(open[i]) # x) => running[x] = 0
  BY <1>5
<1>9. \A x \in Detections : (Known(x) => running[x] # 0) /\ (~Known(x) => running[x] = 0)
  BY <1>4
<1> QED BY <1>3, <1>6, <1>7, <1>8, <1>9, Zenon DEF RunInv

\* A step keeps the history, and what it says alternates.
LEMMA RunStep ==
  ASSUME TypeOK, OneInv, SoundInv, RunInv, TypeOK', OneInv', NEW t \in ReceiveTimes,
         Quiet(t) \/ \E m \in Sightings(t) : ObserveSighting(m, t)
  PROVE  RunInv' /\ \A j \in DOMAIN changes' : Alternates(j)
<1>1. ASSUME NEW m \in Sightings(t), ObserveSighting(m, t)
      PROVE  RunInv' /\ \A j \in DOMAIN changes' : Alternates(j)
  BY <1>1, SightingRuns
<1>2. ASSUME NEW m \in Reports, ObserveDetection(m, t)
      PROVE  RunInv' /\ \A j \in DOMAIN changes' : Alternates(j)
  BY <1>2, DetectionRuns
<1>3. CASE ObserveTick(t)
  BY <1>3, TickRuns
<1> QED BY <1>1, <1>2, <1>3, Zenon DEF Quiet

\* What is said of one id is a start, then updates, then an end, also within the
\* changes of one message; an id is started again only after its end, nothing ends that
\* did not start, and an activity's start only moves earlier (incidents.go emit and
\* close, policy.go Observe).
THEOREM ChangesAlwaysAlternate == Spec => ChangesAlternate
<1>1. Init => TypeOK /\ OneInv /\ SoundInv /\ RunInv
  BY TypeInit, OneInit, SoundInit, RunInit
<1>2. TypeOK /\ OneInv /\ SoundInv /\ RunInv /\ [Next]_vars => (TypeOK /\ OneInv /\ SoundInv /\ RunInv)'
  <2> SUFFICES ASSUME TypeOK, OneInv, SoundInv, RunInv, [Next]_vars
               PROVE  (TypeOK /\ OneInv /\ SoundInv /\ RunInv)'
    OBVIOUS
  <2>1. (TypeOK /\ OneInv /\ SoundInv)'
    BY TypeStep, OneStep, SoundStep
  <2>2. CASE UNCHANGED vars
    <3>1. /\ open' = open /\ running' = running /\ live' = live
      BY <2>2 DEF vars
    <3> QED BY <2>1, <3>1 DEF RunInv, Known, Announced, IdOf
  <2>3. ASSUME NEW t \in ReceiveTimes, Quiet(t) \/ \E m \in Sightings(t) : ObserveSighting(m, t)
        PROVE  RunInv'
    BY <2>1, <2>3, RunStep
  <2> QED BY <2>1, <2>2, <2>3, Steps
<1>3. TypeOK /\ OneInv /\ SoundInv /\ RunInv /\ [Next]_vars =>
        [\A j \in DOMAIN changes' :
           LET c    == changes'[j]
               prev == {i \in 1..(j - 1) : changes'[i].id = c.id}
           IN  /\ c.op = "started" <=>
                    IF prev = {} THEN running[c.id] = 0 ELSE changes'[Max(prev)].op = "ended"
               /\ c.id \in Activities /\ c.op # "started" /\ prev = {} => c.start <= running[c.id]]_vars
  <2> SUFFICES ASSUME TypeOK, OneInv, SoundInv, RunInv, [Next]_vars, vars' # vars, NEW j \in DOMAIN changes'
               PROVE  LET c    == changes'[j]
                          prev == {i \in 1..(j - 1) : changes'[i].id = c.id}
                      IN  /\ c.op = "started" <=>
                               IF prev = {} THEN running[c.id] = 0 ELSE changes'[Max(prev)].op = "ended"
                          /\ c.id \in Activities /\ c.op # "started" /\ prev = {} => c.start <= running[c.id]
    OBVIOUS
  <2>1. TypeOK' /\ OneInv'
    BY TypeStep, OneStep
  <2>2. PICK t \in ReceiveTimes : Quiet(t) \/ \E m \in Sightings(t) : ObserveSighting(m, t)
    BY Steps
  <2>3. Alternates(j)
    BY <2>1, <2>2, RunStep
  <2> QED BY <2>3, Zenon DEF Alternates, Prev
<1> QED BY <1>1, <1>2, <1>3, PTL DEF Spec, ChangesAlternate
==============================================================================
