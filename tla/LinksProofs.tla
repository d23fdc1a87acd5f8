------------------------------ MODULE LinksProofs ------------------------------
(***************************************************************************)
(* Proofs about Links, for every pool, every lifetime and any number of    *)
(* keys, and about Questions: for every chain of addresses and every       *)
(* configuration file.                                                     *)
(***************************************************************************)
EXTENDS Links, Questions, WellFoundedInduction, TLAPS

------------------------------------------------------------------------------
(***************************************************************************)
(* The rotation of the keys.                                               *)
(***************************************************************************)
\* What the operator means the pool to have: the newest key and, until a link's
\* lifetime after the roll, the one before it.
WantedOK ==
  /\ wanted.current \in 0 .. MaxKeys
  /\ wanted = [current |-> wanted.current, prior |-> wanted.prior]
  /\ wanted.prior # NoKey => wanted.prior = wanted.current - 1 /\ wanted.current >= 2

\* The ring an instance may still have when it has not been rolled: the one from
\* before the rotation, or the one that still knows the prior key.
Behind(ring) ==
  \/ /\ wanted.current > 0 /\ wanted.prior = (IF wanted.current = 1 THEN NoKey ELSE wanted.current - 1)
     /\ ring = [current |-> wanted.current - 1, prior |-> NoKey]
  \/ /\ wanted.current >= 2 /\ wanted.prior = NoKey
     /\ ring = [current |-> wanted.current, prior |-> wanted.current - 1]

\* The inductive invariant: a typing mistake is one no server starts with; an
\* instance is rolled or one change behind; an unexpired link is of the newest
\* key or of the prior one; and once the pool is rolled, no link of the prior key
\* outlives a lifetime from then.
LinksInv ==
  /\ now \in Nat /\ rolled \in Nat
  /\ WantedOK
  /\ KeysAccepted(env) => env = wanted
  /\ pool = [i \in Instances |-> pool[i]]
  /\ \A i \in Instances : pool[i] = wanted \/ Behind(pool[i])
  /\ \A l \in links :
       /\ Instances # {}
       /\ l.key \in Keys /\ l.key \in {wanted.current, wanted.prior}
       /\ l.expires \in Nat /\ now < l.expires /\ l.expires <= now + LinkTTL
       /\ Rolled(pool) /\ l.key = wanted.prior => l.expires <= rolled + LinkTTL

\* At the start there are neither keys nor links.
LEMMA LinksInit == Init => LinksInv
  BY LinksAssumption DEF Init, LinksInv, WantedOK, Off, NoKey, BadKey, Keys

\* No rotation, slip, roll or tick breaks it.
LEMMA LinksStep == LinksInv /\ [Next]_vars => LinksInv'
<1> SUFFICES ASSUME LinksInv, [Next]_vars PROVE LinksInv'
  OBVIOUS
<1> USE LinksAssumption DEF NoKey, BadKey, Keys
<1>1. CASE Rotate
  <2>1. wanted.prior = 0 /\ wanted.current \in 0 .. MaxKeys /\ wanted.current < MaxKeys
    BY <1>1 DEF Rotate, LinksInv, WantedOK
  <2>2. /\ wanted'.current = wanted.current + 1 /\ wanted'.prior = wanted.current
        /\ wanted' = [current |-> wanted.current + 1, prior |-> wanted.current]
    BY <1>1 DEF Rotate
  <2>3. WantedOK'
    BY <2>1, <2>2 DEF WantedOK
  <2>4. (KeysAccepted(env) => env = wanted)'
    <3>1. env' = wanted' \/ ~KeysAccepted(env')
      BY <1>1 DEF Rotate, Slips
    <3> QED BY <3>1 DEF KeysAccepted, CredentialsFromEnv, MediaSetup, New, ParseKey
  <2>5. \A i \in Instances : pool[i] = wanted /\ Behind(pool[i])' /\ pool'[i] # wanted'
    <3> TAKE i \in Instances
    <3>1. pool[i] = wanted /\ pool'[i] = wanted
      BY <1>1 DEF Rotate, Rolled
    <3>2. wanted = [current |-> wanted.current, prior |-> 0]
      BY <2>1 DEF LinksInv, WantedOK
    <3> QED BY <2>1, <2>2, <3>1, <3>2 DEF Behind
  <2> QED BY <1>1, <2>1, <2>2, <2>3, <2>4, <2>5 DEF Rotate, LinksInv, Rolled
<1>2. CASE Retype
  BY <1>2 DEF Retype, LinksInv, WantedOK, Behind, Rolled
<1>3. CASE DropPrior
  <2>1. /\ wanted.prior # 0 /\ wanted.prior = wanted.current - 1 /\ wanted.current >= 2
        /\ wanted.current \in 0 .. MaxKeys
        /\ wanted = [current |-> wanted.current, prior |-> wanted.current - 1]
    BY <1>3 DEF DropPrior, LinksInv, WantedOK
  <2>2. wanted' = [current |-> wanted.current, prior |-> 0]
    BY <1>3, <2>1 DEF DropPrior
  <2>3. WantedOK'
    BY <2>1, <2>2 DEF WantedOK
  <2>4. \A i \in Instances : Behind(pool[i])'
    BY <1>3, <2>1, <2>2 DEF DropPrior, Rolled, Behind
  <2>5. \A l \in links : l.key = wanted.current
    <3> TAKE l \in links
    <3>1. l.key = wanted.prior => l.expires <= rolled + LinkTTL
      BY <1>3 DEF DropPrior, LinksInv
    <3> QED BY <1>3, <3>1 DEF DropPrior, LinksInv
  <2> QED BY <1>3, <2>1, <2>2, <2>3, <2>4, <2>5
      DEF DropPrior, LinksInv, Rolled, KeysAccepted, CredentialsFromEnv, MediaSetup, New, ParseKey
<1>4. CASE Tick
  BY <1>4 DEF Tick, LinksInv, WantedOK, Behind, Rolled
<1>5. ASSUME NEW i \in Instances, Mint(i) PROVE LinksInv'
  <2> DEFINE l == Minted(pool[i], now + LinkTTL)
  <2>1. l.key = pool[i].current /\ l.expires = now + LinkTTL /\ links' = links \cup {l}
    BY <1>5 DEF Mint, Minted
  <2>2. /\ pool[i].current \in Keys /\ pool[i].current \in {wanted.current, wanted.prior}
        /\ Rolled(pool) => pool[i].current # wanted.prior
    BY <1>5 DEF LinksInv, WantedOK, Behind, Mint, Off, Rolled
  <2> HIDE DEF l
  <2> QED BY <1>5, <2>1, <2>2 DEF LinksInv, Mint, WantedOK, Behind, Rolled
<1>6. ASSUME NEW i \in Instances, Roll(i) PROVE LinksInv'
  <2>1. env = wanted /\ pool[i] # wanted /\ wanted' = wanted /\ now' = now /\ links' = links
    BY <1>6 DEF Roll, LinksInv
  <2>2. ~Rolled(pool)
    BY <2>1 DEF Rolled
  <2>3. \A j \in Instances : pool'[j] = wanted' \/ Behind(pool[j])'
    BY <1>6, <2>1 DEF Roll, LinksInv, Behind
  <2>4. rolled' \in Nat /\ (Rolled(pool') => rolled' = now)
    BY <1>6 DEF Roll, LinksInv
  <2>5. pool' = [j \in Instances |-> pool'[j]]
    BY <1>6 DEF Roll, LinksInv
  <2>6. \A l \in links : /\ Instances # {}
       /\ l.key \in Keys /\ l.key \in {wanted.current, wanted.prior}
       /\ l.expires \in Nat /\ now < l.expires /\ l.expires <= now + LinkTTL
    BY DEF LinksInv
  <2>7. Rolled(pool)' => Rolled(pool')
    BY <2>1 DEF Rolled
  <2>8. WantedOK' /\ (KeysAccepted(env) => env = wanted)' /\ now' \in Nat
    BY <1>6 DEF Roll, LinksInv, WantedOK
  <2> QED BY <2>1, <2>3, <2>4, <2>5, <2>6, <2>7, <2>8 DEF LinksInv
<1>7. CASE UNCHANGED vars
  BY <1>7 DEF vars, LinksInv, WantedOK, Behind, Rolled
<1> QED BY <1>1, <1>2, <1>3, <1>4, <1>5, <1>6, <1>7 DEF Next

\* captoken.go New, lookup, Verify: through every rotation, mistyped or not, with
\* any number of instances and keys, an unexpired link opens at every instance
\* but those its key has not reached yet.
THEOREM LinksOutliveEveryRoll == Spec => []LinksOutliveRoll
<1>1. LinksInv => LinksOutliveRoll
  <2> SUFFICES ASSUME LinksInv, NEW i \in Instances, NEW l \in links
               PROVE  \/ Opens(pool[i], l)
                      \/ l.key > pool[i].current /\ pool[i] # wanted
    BY DEF LinksOutliveRoll
  <2> USE LinksAssumption DEF NoKey, BadKey, Keys
  <2>1. /\ l.key \in 1 .. MaxKeys /\ l.key \in {wanted.current, wanted.prior}
        /\ ~(now >= l.expires)
    BY DEF LinksInv
  <2>2. CASE l.key \in {pool[i].current, pool[i].prior}
    BY <2>1, <2>2 DEF Opens, Verify, Lookup, Off
  <2>3. CASE l.key \notin {pool[i].current, pool[i].prior}
    BY <2>1, <2>3 DEF LinksInv, Behind, WantedOK
  <2> QED BY <2>2, <2>3
<1> QED BY <1>1, LinksInit, LinksStep, PTL DEF Spec

------------------------------------------------------------------------------
(***************************************************************************)
(* Who is calling.                                                         *)
(***************************************************************************)
\* The positions up to i of the addresses that are no proxy of ours.
StrangersTo(chain, proxies, i) == {j \in 1 .. i : chain[j] \notin proxies}

\* A nonempty set of positions has a last one, and Max is it.
LEMMA LastOfPositions ==
  ASSUME NEW n \in Nat, NEW S \in SUBSET (1 .. n), S # {}
  PROVE  Max(S) \in S /\ \A x \in S : x <= Max(S)
<1> DEFINE U == {m \in Nat : \A x \in S : x <= m}
           R == {ss \in Nat \X Nat : ss[1] < ss[2]}
<1>1. U \subseteq Nat /\ n \in U
  OBVIOUS
<1>2. IsWellFoundedOn(R, Nat)
  BY NatLessThanWellFounded DEF OpToRel
<1>3. PICK m \in U : \A k \in U : <<k, m>> \notin R
  <2> HIDE DEF U, R
  <2> QED BY <1>1, <1>2, WFMin
<1>4. \A k \in U : m <= k
  <2> TAKE k \in U
  <2>1. k \in Nat /\ m \in Nat
    OBVIOUS
  <2>2. k < m => <<k, m>> \in R
    BY <2>1
  <2> QED BY <1>3, <2>1, <2>2
<1>5. m \in S
  <2> SUFFICES ASSUME m \notin S PROVE FALSE
    OBVIOUS
  <2>1. m \in Nat /\ m # 0
    <3>1. PICK x : x \in S
      OBVIOUS
    <3>2. x \in 1 .. n /\ x <= m
      BY <3>1
    <3> QED BY <3>2
  <2>2. m - 1 \in U
    BY <2>1
  <2> QED BY <1>4, <2>2
<1>6. \A x \in S : m >= x
  OBVIOUS
<1> QED BY <1>5, <1>6 DEF Max

\* house.go Caller: the walk from the right, past the trusted proxies, ends at
\* the last address that is none.
LEMMA CallerIsLast ==
  ASSUME NEW peer, NEW S, NEW chain \in Seq(S), NEW proxies
  PROVE  Caller(peer, chain, proxies) = LastStranger(peer, chain, proxies)
<1> DEFINE n == Len(chain)
           X(i) == StrangersTo(chain, proxies, i)
           g == [i \in 0 .. n |-> IF X(i) = {} THEN peer ELSE chain[Max(X(i))]]
           F(f) == [i \in 0 .. n |-> IF i = 0 THEN peer
                                     ELSE IF chain[i] \notin proxies THEN chain[i]
                                     ELSE f[i - 1]]
           walk == CHOOSE f : f = F(f)
<1>1. n \in Nat /\ DOMAIN chain = 1 .. n
  OBVIOUS
<1>2. g = F(g)
  <2>1. SUFFICES ASSUME NEW i \in 0 .. n
                 PROVE  g[i] = IF i = 0 THEN peer
                               ELSE IF chain[i] \notin proxies THEN chain[i] ELSE g[i - 1]
    BY Zenon
  <2>2. CASE i = 0
    <3>1. X(0) = {}
      BY DEF StrangersTo
    <3> QED BY <2>2, <3>1
  <2>3. CASE i # 0 /\ chain[i] \notin proxies
    <3>1. X(i) \in SUBSET (1 .. i) /\ i \in X(i) /\ X(i) # {} /\ i \in Nat
      BY <2>3 DEF StrangersTo
    <3>2. Max(X(i)) \in X(i) /\ \A x \in X(i) : x <= Max(X(i))
      BY <3>1, LastOfPositions
    <3>3. Max(X(i)) = i
      BY <3>1, <3>2
    <3> QED BY <2>3, <3>1, <3>3
  <2>4. CASE i # 0 /\ chain[i] \in proxies
    <3>1. X(i) = X(i - 1) /\ i - 1 \in 0 .. n
      BY <2>4 DEF StrangersTo
    <3> QED BY <2>4, <3>1
  <2> QED BY <2>2, <2>3, <2>4
<1>3. walk = F(walk)
  <2> HIDE DEF g, F
  <2> QED BY <1>2
<1>4. \A i \in 0 .. n : walk[i] = g[i]
  <2> DEFINE B == {i \in 0 .. n : walk[i] # g[i]}
             R == {ss \in Nat \X Nat : ss[1] < ss[2]}
  <2>0. \A i \in 0 .. n :
          /\ walk[i] = IF i = 0 THEN peer ELSE IF chain[i] \notin proxies THEN chain[i] ELSE walk[i - 1]
          /\ g[i] = IF i = 0 THEN peer ELSE IF chain[i] \notin proxies THEN chain[i] ELSE g[i - 1]
    <3> HIDE DEF g, walk
    <3> QED BY <1>2, <1>3
  <2> HIDE DEF g, walk, F
  <2>1. SUFFICES ASSUME B # {} PROVE FALSE
    OBVIOUS
  <2>2. IsWellFoundedOn(R, Nat)
    BY NatLessThanWellFounded DEF OpToRel
  <2>3. B \subseteq Nat
    BY <1>1
  <2>4. PICK j \in B : \A k \in B : <<k, j>> \notin R
    <3> HIDE DEF B, R
    <3> QED BY <2>1, <2>2, <2>3, WFMin
  <2>5. j \in 0 .. n /\ walk[j] # g[j]
    BY <2>4
  <2>6. j # 0 /\ chain[j] \in proxies /\ walk[j - 1] # g[j - 1]
    BY <2>0, <2>5
  <2>7. j - 1 \in B /\ <<j - 1, j>> \in R
    BY <1>1, <2>5, <2>6
  <2> QED BY <2>4, <2>7
<1>5. walk[n] = g[n]
  BY <1>1, <1>4
<1>6. g[n] = IF X(n) = {} THEN peer ELSE chain[Max(X(n))]
  BY <1>1
<1>7. Caller(peer, chain, proxies) = IF peer \notin proxies THEN peer ELSE walk[n]
  BY DEF Caller
<1>8. LastStranger(peer, chain, proxies) =
        IF peer \in proxies /\ X(n) # {} THEN chain[Max(X(n))] ELSE peer
  BY <1>1 DEF LastStranger, StrangersTo
<1> HIDE DEF walk, g, n
<1> QED BY <1>5, <1>6, <1>7, <1>8

\* What the caller is does not depend on what stands ahead of the last stranger.
LEMMA ForgeryIsIgnored ==
  ASSUME NEW peer, NEW S, NEW chain \in Seq(S), NEW forged \in Seq(S), NEW proxies,
         NEW k \in DOMAIN chain, chain[k] \notin proxies
  PROVE  LastStranger(peer, forged \o chain, proxies) = LastStranger(peer, chain, proxies)
<1> DEFINE n == Len(chain)
           m == Len(forged)
           both == forged \o chain
           X == {i \in DOMAIN chain : chain[i] \notin proxies}
           Y == {i \in DOMAIN both : both[i] \notin proxies}
<1>1. /\ n \in Nat /\ m \in Nat /\ DOMAIN chain = 1 .. n /\ DOMAIN both = 1 .. m + n
      /\ \A i \in 1 .. n : both[m + i] = chain[i]
  OBVIOUS
<1>2. X \in SUBSET (1 .. n) /\ X # {} /\ Y \in SUBSET (1 .. m + n) /\ Y # {} /\ m + n \in Nat
      /\ \A i \in X : m + i \in Y
  <2> HIDE DEF both
  <2>1. \A i \in X : m + i \in Y
    <3> TAKE i \in X
    <3>1. i \in 1 .. n /\ chain[i] \notin proxies
      BY <1>1
    <3>2. m + i \in 1 .. m + n /\ both[m + i] = chain[i]
      BY <1>1, <3>1
    <3> QED BY <1>1, <3>1, <3>2
  <2>2. k \in X
    OBVIOUS
  <2> QED BY <1>1, <2>1, <2>2
<1>3. \A i \in Y : i > m => i - m \in X
  <2> HIDE DEF both
  <2> TAKE i \in Y
  <2> HAVE i > m
  <2>1. i \in 1 .. m + n /\ i - m \in 1 .. n /\ both[i] \notin proxies
    BY <1>1
  <2>2. both[m + (i - m)] = chain[i - m] /\ m + (i - m) = i
    BY <1>1, <2>1
  <2> QED BY <1>1, <2>1, <2>2
<1>4. Max(X) \in X /\ (\A x \in X : x <= Max(X)) /\ Max(Y) \in Y /\ \A y \in Y : y <= Max(Y)
  <2> HIDE DEF X, Y, n, m
  <2> QED BY <1>1, <1>2, LastOfPositions
<1>5. Max(Y) = m + Max(X)
  <2> HIDE DEF both, X, Y, n, m
  <2>1. Max(X) \in 1 .. n /\ Max(Y) \in 1 .. m + n /\ m + Max(X) <= Max(Y)
    BY <1>2, <1>4
  <2>2. Max(Y) > m /\ Max(Y) - m <= Max(X)
    BY <1>1, <1>3, <1>4, <2>1
  <2>3. m \in Nat /\ n \in Nat
    BY <1>1
  <2> QED BY <2>1, <2>2, <2>3
<1>6. both[Max(Y)] = chain[Max(X)]
  <2>1. Max(X) \in 1 .. n
    BY <1>2, <1>4
  <2> HIDE DEF both, X, Y, n, m
  <2> QED BY <1>1, <1>5, <2>1
<1> QED BY <1>2, <1>6 DEF LastStranger

------------------------------------------------------------------------------
(***************************************************************************)
(* What a configuration file comes to.                                     *)
(***************************************************************************)
\* An entry of either list, filled in, field by field.
LEMMA FilledModelFields ==
  ASSUME NEW m \in StateModel
  PROVE  /\ FilledModel(m) = [model |-> m.model, hold |-> Or(m.hold, 10 * Minute),
                              alarmClass |-> m.alarmClass, alarmAfter |-> m.alarmAfter]
         /\ FilledModel(m) \in StateModel
<1>1. FilledModel(m) = [model |-> m.model, hold |-> Or(m.hold, 10 * Minute),
                        alarmClass |-> m.alarmClass, alarmAfter |-> m.alarmAfter]
  <2>1. m = [model |-> m.model, hold |-> m.hold, alarmClass |-> m.alarmClass, alarmAfter |-> m.alarmAfter]
    BY DEF StateModel
  <2>2. Defaults.hold = 10 * Minute
    BY DEF Defaults
  <2>3. FilledModel(m) = [m EXCEPT !.hold = Or(m.hold, 10 * Minute)]
    BY <2>2 DEF FilledModel
  <2> QED BY <2>1, <2>3
<1>2. Or(m.hold, 10 * Minute) \in Duration
  BY DEF StateModel, Or, Duration, Unset, Minute
<1> QED BY <1>1, <1>2 DEF StateModel

\* What filling in a watched zone gives its fields.
LEMMA FilledWatchFields ==
  ASSUME NEW o \in Watched
  PROVE  /\ FilledWatch(o).zone = o.zone
         /\ FilledWatch(o).labels = (IF o.labels = 0 THEN 1 ELSE o.labels)
         /\ FilledWatch(o).arriveAfter = Or(o.arriveAfter, Minute)
         /\ FilledWatch(o).departAfter = Or(o.departAfter, 5 * Minute)
         /\ FilledWatch(o) \in Watched
<1>1. Defaults.arriveAfter = Minute /\ Defaults.departAfter = 5 * Minute
  BY DEF Defaults
<1>2. Or(o.arriveAfter, Minute) \in Duration /\ Or(o.departAfter, 5 * Minute) \in Duration
  BY DEF Watched, Or, Duration, Unset, Minute
<1>3. (IF o.labels = 0 THEN 1 ELSE o.labels) \in Nat
  BY DEF Watched
<1> QED BY <1>1, <1>2, <1>3 DEF FilledWatch, Watched

\* A file, filled in, is a file; and what was filled in.
LEMMA FilledFields ==
  ASSUME NEW f \in File
  PROVE  /\ Filled(f) \in File
         /\ Filled(f).port = (IF f.port = 0 THEN 1883 ELSE f.port)
         /\ Filled(f).keepalive = Or(f.keepalive, 30)
         /\ Filled(f).rotateEvery = Or(f.rotateEvery, Day)
         /\ Filled(f).retention = Or(f.retention, 7 * Day)
         /\ Filled(f).ttl = Or(f.ttl, 4 * Hour)
<1>1. /\ Defaults.port = 1883 /\ Defaults.keepalive = 30 /\ Defaults.rotateEvery = Day
      /\ Defaults.retention = 7 * Day /\ Defaults.ttl = 4 * Hour
  BY DEF Defaults
<1>3. Day \in Nat /\ 7 * Day \in Nat /\ 4 * Hour \in Nat /\ 30 \in Nat
  BY DEF Day, Hour, Minute
<1>4. [i \in DOMAIN f.stateModels |-> FilledModel(f.stateModels[i])] \in Seq(StateModel)
  <2>1. f.stateModels \in Seq(StateModel)
    BY DEF File
  <2>2. \A i \in DOMAIN f.stateModels : FilledModel(f.stateModels[i]) \in StateModel
    BY <2>1, FilledModelFields
  <2> QED BY <2>1, <2>2
<1>5. [i \in DOMAIN f.occupancy |-> FilledWatch(f.occupancy[i])] \in Seq(Watched)
  <2>1. f.occupancy \in Seq(Watched)
    BY DEF File
  <2>2. \A i \in DOMAIN f.occupancy : FilledWatch(f.occupancy[i]) \in Watched
    BY <2>1, FilledWatchFields
  <2> QED BY <2>1, <2>2
<1>6. Filled(f) \in File
  <2>1. /\ f.keepalive \in Duration /\ f.rotateEvery \in Duration /\ f.retention \in Duration
        /\ f.ttl \in Duration /\ f.port \in Nat /\ f.subscriptions \in Nat
        /\ f.mqtt \in BOOLEAN /\ f.host \in BOOLEAN /\ f.timezone \in BOOLEAN /\ f.cidrs \in BOOLEAN
    BY DEF File
  <2>2. /\ Or(f.keepalive, Defaults.keepalive) \in Duration
        /\ Or(f.rotateEvery, Defaults.rotateEvery) \in Duration
        /\ Or(f.retention, Defaults.retention) \in Duration
        /\ Or(f.ttl, Defaults.ttl) \in Duration
    BY <1>1, <1>3, <2>1 DEF Or, Duration
  <2>3. (IF f.port = 0 THEN Defaults.port ELSE f.port) \in Nat
    BY <1>1, <2>1
  <2> QED BY <1>4, <1>5, <2>1, <2>2, <2>3, Zenon DEF File, Filled
<1> QED BY <1>1, <1>6 DEF Filled

\* A duration that a default was filled in for, filled in again.
LEMMA FilledOnce ==
  ASSUME NEW d \in Duration, NEW e \in Nat, NEW low \in Nat, NEW high \in Nat,
         low <= e, e <= high
  PROVE  /\ Or(Or(d, e), e) = Or(d, e)
         /\ Within(Or(d, e), low, high) <=> Within(d, low, high)
         /\ Or(d, e) # Unset
  BY DEF Or, Duration, Unset, Within

\* applyDefaults: filling in changes no verdict, and once is enough.
LEMMA FillingIsHarmless ==
  ASSUME NEW f \in File
  PROVE  /\ SettingsAccepted(Filled(f)) <=> SettingsAccepted(f)
         /\ Filled(Filled(f)) = Filled(f)
         /\ SettingsAccepted(f) => Usable(Filled(f))
<1> DEFINE g == Filled(f)
<1>1. /\ g \in File /\ g.mqtt = f.mqtt /\ g.host = f.host /\ g.subscriptions = f.subscriptions
      /\ g.timezone = f.timezone /\ g.cidrs = f.cidrs
      /\ DOMAIN g.stateModels = DOMAIN f.stateModels /\ DOMAIN g.occupancy = DOMAIN f.occupancy
      /\ \A i \in DOMAIN f.stateModels : g.stateModels[i] = FilledModel(f.stateModels[i])
      /\ \A i \in DOMAIN f.occupancy : g.occupancy[i] = FilledWatch(f.occupancy[i])
  BY FilledFields DEF Filled
<1>2. /\ f.stateModels \in Seq(StateModel) /\ f.occupancy \in Seq(Watched)
      /\ \A i \in DOMAIN f.stateModels : f.stateModels[i] \in StateModel
      /\ \A i \in DOMAIN f.occupancy : f.occupancy[i] \in Watched
  BY DEF File
<1>3. /\ f.keepalive \in Duration /\ f.rotateEvery \in Duration /\ f.retention \in Duration
      /\ f.ttl \in Duration /\ f.port \in Nat /\ f.subscriptions \in Nat
  BY DEF File
<1>4. ASSUME NEW m \in StateModel
      PROVE  /\ FilledModel(FilledModel(m)) = FilledModel(m)
             /\ FilledModel(m).model = m.model /\ FilledModel(m).alarmClass = m.alarmClass
             /\ FilledModel(m).alarmAfter = m.alarmAfter
             /\ Within(FilledModel(m).hold, 1, Hour) <=> Within(m.hold, 1, Hour)
             /\ Within(m.hold, 1, Hour) => FilledModel(m).hold > 0
  <2>1. m.hold \in Duration /\ 10 * Minute \in Nat /\ 10 * Minute <= Hour /\ Hour \in Nat
    BY DEF StateModel, Minute, Hour
  <2>2. /\ Or(Or(m.hold, 10 * Minute), 10 * Minute) = Or(m.hold, 10 * Minute)
        /\ Within(Or(m.hold, 10 * Minute), 1, Hour) <=> Within(m.hold, 1, Hour)
    BY <2>1, FilledOnce DEF Minute
  <2>3. Within(m.hold, 1, Hour) => Or(m.hold, 10 * Minute) > 0
    BY <2>1 DEF Within, Or, Duration, Unset, Minute, Hour
  <2>4. FilledModel(m) \in StateModel
    BY FilledModelFields
  <2>5. FilledModel(FilledModel(m)) = FilledModel(m)
    BY <2>2, <2>4, FilledModelFields
  <2> QED BY <2>2, <2>3, <2>5, FilledModelFields
<1>5. ASSUME NEW o \in Watched
      PROVE  /\ FilledWatch(FilledWatch(o)) = FilledWatch(o)
             /\ FilledWatch(o).zone = o.zone
             /\ Within(FilledWatch(o).arriveAfter, 1, Hour) <=> Within(o.arriveAfter, 1, Hour)
             /\ Within(FilledWatch(o).departAfter, 1, Day) <=> Within(o.departAfter, 1, Day)
             /\ FilledWatch(o).labels > 0
             /\ Within(o.arriveAfter, 1, Hour) => FilledWatch(o).arriveAfter > 0
             /\ Within(o.departAfter, 1, Day) => FilledWatch(o).departAfter > 0
  <2>1. /\ o.arriveAfter \in Duration /\ o.departAfter \in Duration /\ o.labels \in Nat
        /\ Minute \in Nat /\ Minute <= Hour /\ 5 * Minute <= Day /\ Hour \in Nat /\ Day \in Nat
    BY DEF Watched, Minute, Hour, Day
  <2>2. /\ Or(Or(o.arriveAfter, Minute), Minute) = Or(o.arriveAfter, Minute)
        /\ Within(Or(o.arriveAfter, Minute), 1, Hour) <=> Within(o.arriveAfter, 1, Hour)
    BY <2>1, FilledOnce DEF Minute
  <2>3. /\ Or(Or(o.departAfter, 5 * Minute), 5 * Minute) = Or(o.departAfter, 5 * Minute)
        /\ Within(Or(o.departAfter, 5 * Minute), 1, Day) <=> Within(o.departAfter, 1, Day)
    BY <2>1, FilledOnce DEF Minute
  <2>4. /\ Within(o.arriveAfter, 1, Hour) => Or(o.arriveAfter, Minute) > 0
        /\ Within(o.departAfter, 1, Day) => Or(o.departAfter, 5 * Minute) > 0
    BY <2>1 DEF Within, Or, Duration, Unset, Minute, Hour, Day
  <2>5. FilledWatch(o).labels > 0
    BY <2>1, FilledWatchFields
  <2>6. FilledWatch(FilledWatch(o)) = FilledWatch(o)
    <3>1. FilledWatch(o) \in Watched /\ FilledWatch(FilledWatch(o)) \in Watched
      BY FilledWatchFields
    <3> QED BY <2>1, <2>2, <2>3, <3>1, FilledWatchFields DEF Watched
  <2> QED BY <2>2, <2>3, <2>4, <2>5, <2>6, FilledWatchFields
<1>6. \A d \in Duration :
        /\ Or(Or(d, 30), 30) = Or(d, 30)
        /\ Within(Or(d, 30), 1, Hour) <=> Within(d, 1, Hour)
        /\ Or(Or(d, Day), Day) = Or(d, Day)
        /\ Or(Or(d, 7 * Day), 7 * Day) = Or(d, 7 * Day)
        /\ Or(Or(d, 4 * Hour), 4 * Hour) = Or(d, 4 * Hour)
        /\ Within(Or(d, 4 * Hour), Minute, 7 * Day) <=> Within(d, Minute, 7 * Day)
  BY DEF Or, Within, Duration, Unset, Minute, Hour, Day
<1>7. Filled(g) = g
  <2>1. Filled(g) \in File
    BY <1>1, FilledFields
  <2>2. /\ Filled(g).port = g.port /\ Filled(g).keepalive = g.keepalive
        /\ Filled(g).rotateEvery = g.rotateEvery /\ Filled(g).retention = g.retention
        /\ Filled(g).ttl = g.ttl
    BY <1>1, <1>3, <1>6, FilledFields
  <2>3. Filled(g).stateModels = g.stateModels
    <3>1. Filled(g).stateModels = [i \in DOMAIN g.stateModels |-> FilledModel(g.stateModels[i])]
      BY DEF Filled
    <3>2. g.stateModels = [i \in DOMAIN g.stateModels |-> g.stateModels[i]]
      BY DEF Filled
    <3>3. \A i \in DOMAIN g.stateModels : FilledModel(g.stateModels[i]) = g.stateModels[i]
      BY <1>1, <1>2, <1>4
    <3> HIDE DEF g
    <3> QED BY <3>1, <3>2, <3>3
  <2>4. Filled(g).occupancy = g.occupancy
    <3>1. Filled(g).occupancy = [i \in DOMAIN g.occupancy |-> FilledWatch(g.occupancy[i])]
      BY DEF Filled
    <3>2. g.occupancy = [i \in DOMAIN g.occupancy |-> g.occupancy[i]]
      BY DEF Filled
    <3>3. \A i \in DOMAIN g.occupancy : FilledWatch(g.occupancy[i]) = g.occupancy[i]
      BY <1>1, <1>2, <1>5
    <3> HIDE DEF g
    <3> QED BY <3>1, <3>2, <3>3
  <2>5. /\ Filled(g).mqtt = g.mqtt /\ Filled(g).host = g.host
        /\ Filled(g).subscriptions = g.subscriptions
        /\ Filled(g).timezone = g.timezone /\ Filled(g).cidrs = g.cidrs
    BY DEF Filled
  <2> DEFINE Fields(x) ==
        [mqtt |-> x.mqtt, host |-> x.host, port |-> x.port, subscriptions |-> x.subscriptions,
         keepalive |-> x.keepalive, rotateEvery |-> x.rotateEvery, retention |-> x.retention,
         timezone |-> x.timezone, stateModels |-> x.stateModels, occupancy |-> x.occupancy,
         cidrs |-> x.cidrs, ttl |-> x.ttl]
  <2>6. ASSUME NEW x \in File PROVE x = Fields(x)
    BY DEF File
  <2>7. g = Fields(g) /\ Filled(g) = Fields(Filled(g))
    <3> HIDE DEF Fields, g
    <3> QED BY <1>1, <2>1, <2>6
  <2>8. Fields(Filled(g)) = Fields(g)
    <3> HIDE DEF g
    <3> QED BY <2>2, <2>3, <2>4, <2>5
  <2> HIDE DEF Fields, g
  <2> QED BY <2>7, <2>8
<1>8. /\ g.port = (IF f.port = 0 THEN 1883 ELSE f.port)
      /\ g.keepalive = Or(f.keepalive, 30) /\ g.rotateEvery = Or(f.rotateEvery, Day)
      /\ g.retention = Or(f.retention, 7 * Day) /\ g.ttl = Or(f.ttl, 4 * Hour)
  BY FilledFields
<1>9. SettingsAccepted(g) <=> SettingsAccepted(f)
  <2>1. /\ g.port <= 65535 <=> f.port <= 65535
        /\ Within(g.keepalive, 1, Hour) <=> Within(f.keepalive, 1, Hour)
        /\ (g.rotateEvery = Unset \/ g.rotateEvery >= Minute)
             <=> (f.rotateEvery = Unset \/ f.rotateEvery >= Minute)
        /\ (g.retention = Unset \/ g.retention >= Hour)
             <=> (f.retention = Unset \/ f.retention >= Hour)
        /\ Within(g.ttl, Minute, 7 * Day) <=> Within(f.ttl, Minute, 7 * Day)
    <3> HIDE DEF g
    <3>1. g.port <= 65535 <=> f.port <= 65535
      BY <1>3, <1>8
    <3>2. /\ Within(g.keepalive, 1, Hour) <=> Within(f.keepalive, 1, Hour)
          /\ Within(g.ttl, Minute, 7 * Day) <=> Within(f.ttl, Minute, 7 * Day)
      BY <1>3, <1>6, <1>8
    <3>3. /\ (g.rotateEvery = Unset \/ g.rotateEvery >= Minute)
             <=> (f.rotateEvery = Unset \/ f.rotateEvery >= Minute)
          /\ (g.retention = Unset \/ g.retention >= Hour)
             <=> (f.retention = Unset \/ f.retention >= Hour)
      BY <1>3, <1>8 DEF Or, Unset, Minute, Hour, Day, Duration
    <3> QED BY <3>1, <3>2, <3>3
  <2>2. ASSUME NEW i \in DOMAIN f.stateModels
        PROVE  /\ g.stateModels[i].model <=> f.stateModels[i].model
               /\ g.stateModels[i].alarmClass = f.stateModels[i].alarmClass
               /\ g.stateModels[i].alarmAfter = f.stateModels[i].alarmAfter
               /\ Within(g.stateModels[i].hold, 1, Hour) <=> Within(f.stateModels[i].hold, 1, Hour)
    BY <1>1, <1>2, <1>4
  <2>3. ASSUME NEW i \in DOMAIN f.occupancy
        PROVE  /\ g.occupancy[i].zone <=> f.occupancy[i].zone
               /\ Within(g.occupancy[i].arriveAfter, 1, Hour) <=> Within(f.occupancy[i].arriveAfter, 1, Hour)
               /\ Within(g.occupancy[i].departAfter, 1, Day) <=> Within(f.occupancy[i].departAfter, 1, Day)
    BY <1>1, <1>2, <1>5
  <2> HIDE DEF g
  <2> QED BY <1>1, <2>1, <2>2, <2>3 DEF SettingsAccepted
<1>10. SettingsAccepted(f) => Usable(g)
  <2> SUFFICES ASSUME SettingsAccepted(f) PROVE Usable(g)
    OBVIOUS
  <2>1. g.port > 0 /\ g.keepalive > 0 /\ g.rotateEvery > 0 /\ g.retention > 0 /\ g.ttl > 0
    <3> HIDE DEF g
    <3>1. g.port > 0
      BY <1>3, <1>8
    <3> QED BY <1>3, <1>8, <3>1 DEF SettingsAccepted, Within, Or, Unset, Minute, Hour, Day, Duration
  <2>2. \A i \in DOMAIN g.occupancy :
          /\ g.occupancy[i].labels > 0 /\ g.occupancy[i].arriveAfter > 0
          /\ g.occupancy[i].departAfter > 0
    BY <1>1, <1>2, <1>5 DEF SettingsAccepted
  <2>3. \A i \in DOMAIN g.stateModels :
          g.stateModels[i].hold > 0 /\ (g.stateModels[i].alarmClass => g.stateModels[i].alarmAfter > 0)
    <3> SUFFICES ASSUME NEW i \in DOMAIN f.stateModels
                 PROVE  /\ g.stateModels[i].hold > 0
                        /\ g.stateModels[i].alarmClass => g.stateModels[i].alarmAfter > 0
      BY <1>1
    <3> DEFINE m == f.stateModels[i]
    <3>1. /\ m \in StateModel /\ Within(m.hold, 1, Hour)
          /\ m.alarmClass <=> m.alarmAfter # Unset
          /\ Within(m.alarmAfter, Minute, 7 * Day)
      BY <1>2 DEF SettingsAccepted
    <3>2. m.alarmAfter # Unset => m.alarmAfter > 0
      BY <3>1 DEF Within, StateModel, Duration, Unset, Minute, Hour, Day
    <3> HIDE DEF m
    <3>3. FilledModel(m).hold > 0 /\ FilledModel(m).alarmClass = m.alarmClass
          /\ FilledModel(m).alarmAfter = m.alarmAfter
      BY <1>4, <3>1
    <3>4. g.stateModels[i] = FilledModel(m)
      BY <1>1 DEF m
    <3> HIDE DEF g
    <3> QED BY <3>1, <3>2, <3>3, <3>4
  <2> HIDE DEF g
  <2> QED BY <2>1, <2>2, <2>3 DEF Usable
<1> QED BY <1>7, <1>9, <1>10

------------------------------------------------------------------------------
(***************************************************************************)
(* The edit list: a look's score is the view of the newest sample heard,   *)
(* the cut's shots form a row, and so they tile and follow the clip.       *)
(***************************************************************************)
\* A nonempty set of numbers has a smallest one.
LEMMA Smallest ==
  ASSUME NEW B \in SUBSET Nat, B # {}
  PROVE  \E n \in B : \A i \in B : n <= i
<1>1. IsWellFoundedOn(OpToRel(<, Nat), Nat)
  BY NatLessThanWellFounded
<1>2. PICK n \in B : \A i \in B : <<i, n>> \notin OpToRel(<, Nat)
  BY <1>1, WFMin
<1>3. \A i \in B : ~(i < n)
  BY <1>2 DEF OpToRel
<1> QED BY <1>3

\* The steps of SamplesOf's recursion, over the first n samples.
Sorting(boxes, cam, n, f) ==
  f = [i \in 0 .. n |-> IF i = 0 THEN <<>>
                        ELSE IF boxes[i].cam = cam THEN Append(f[i - 1], boxes[i]) ELSE f[i - 1]]

\* SamplesOf's recursion has its function.
LEMMA SortingExists ==
  ASSUME NEW boxes, NEW cam, NEW m \in Nat
  PROVE  \E f : Sorting(boxes, cam, m, f)
<1> DEFINE Bad == {n \in Nat : ~ \E f : Sorting(boxes, cam, n, f)}
<1>1. SUFFICES ASSUME Bad # {} PROVE FALSE
  OBVIOUS
<1>2. PICK n \in Bad : \A i \in Bad : n <= i
  <2>1. Bad \in SUBSET Nat
    OBVIOUS
  <2> QED BY <1>1, <2>1, Smallest
<1>3. CASE n = 0
  <2>1. PICK f : f = [i \in 0 .. 0 |-> <<>>]
    OBVIOUS
  <2>2. f = [i \in 0 .. 0 |-> f[i]]
    BY <2>1
  <2>3. ASSUME NEW i \in 0 .. 0
        PROVE  f[i] = IF i = 0 THEN <<>>
                      ELSE IF boxes[i].cam = cam THEN Append(f[i - 1], boxes[i]) ELSE f[i - 1]
    BY <2>1
  <2>4. f = [i \in 0 .. 0 |-> IF i = 0 THEN <<>>
                              ELSE IF boxes[i].cam = cam THEN Append(f[i - 1], boxes[i]) ELSE f[i - 1]]
    BY <2>2, <2>3, Zenon
  <2>5. Sorting(boxes, cam, 0, f)
    BY <2>4 DEF Sorting
  <2> QED BY <1>2, <1>3, <2>5
<1>4. CASE n # 0
  <2>1. n - 1 \in Nat /\ n - 1 \notin Bad
    BY <1>2, <1>4
  <2>2. PICK f : Sorting(boxes, cam, n - 1, f)
    BY <2>1
  <2>3. \A i \in 0 .. n - 1 :
          f[i] = IF i = 0 THEN <<>>
                 ELSE IF boxes[i].cam = cam THEN Append(f[i - 1], boxes[i]) ELSE f[i - 1]
    BY <2>2 DEF Sorting
  <2>4. PICK top : top = IF boxes[n].cam = cam THEN Append(f[n - 1], boxes[n]) ELSE f[n - 1]
    OBVIOUS
  <2>5. PICK g : g = [i \in 0 .. n |-> IF i = n THEN top ELSE f[i]]
    OBVIOUS
  <2>6. \A i \in 0 .. n : g[i] = IF i = n THEN top ELSE f[i]
    BY <2>5
  <2>7. g = [i \in 0 .. n |-> g[i]]
    BY <2>5
  <2>8. ASSUME NEW i \in 0 .. n
        PROVE  g[i] = IF i = 0 THEN <<>>
                      ELSE IF boxes[i].cam = cam THEN Append(g[i - 1], boxes[i]) ELSE g[i - 1]
    <3>1. CASE i = 0
      BY <2>3, <2>6, <3>1, <1>4, <1>2
    <3>2. CASE i # 0
      <4>1. i - 1 \in 0 .. n /\ i - 1 # n
        BY <3>2, <1>2
      <4>2. g[i - 1] = f[i - 1]
        BY <2>6, <4>1
      <4>3. CASE i = n
        BY <2>4, <2>6, <3>2, <4>2, <4>3
      <4>4. CASE i # n
        <5>1. i \in 0 .. n - 1
          BY <4>4, <1>2
        <5>2. g[i] = f[i]
          BY <2>6, <4>4
        <5> QED BY <2>3, <3>2, <4>2, <5>1, <5>2
      <4> QED BY <4>3, <4>4
    <3> QED BY <3>1, <3>2
  <2>9. g = [i \in 0 .. n |-> IF i = 0 THEN <<>>
                              ELSE IF boxes[i].cam = cam THEN Append(g[i - 1], boxes[i]) ELSE g[i - 1]]
    BY <2>7, <2>8, Zenon
  <2>10. Sorting(boxes, cam, n, g)
    BY <2>9 DEF Sorting
  <2> QED BY <1>2, <2>10
<1> QED BY <1>3, <1>4

\* Where a camera's cursor may stand at t.
Cursor(s, i, t) ==
  /\ i \in 0 .. Len(s) /\ \A j \in 1 .. i : s[j].at <= t
  /\ i < Len(s) => s[i + 1].at > t

\* The samples of cam told by t among the first n.
Told(boxes, cam, n, t) ==
  {j \in 1 .. n : boxes[j].cam = cam /\ \A i \in 1 .. j : boxes[i].cam = cam => boxes[i].at <= t}

\* s holds what the first n samples say of cam, all of it and nothing else, so that
\* a cursor finds the newest of those told.
Heeds(boxes, cam, n, s) ==
  /\ s \in Seq(Sample)
  /\ \A k \in 1 .. Len(s) : \E j \in 1 .. n : s[k] = boxes[j] /\ boxes[j].cam = cam
  /\ \A j \in 1 .. n : boxes[j].cam = cam => \E k \in 1 .. Len(s) : s[k] = boxes[j]
  /\ \A t \in Int, i \in Nat : Cursor(s, i, t) =>
       /\ i = 0 => Told(boxes, cam, n, t) = {}
       /\ i # 0 => \E j \in Told(boxes, cam, n, t) :
            s[i] = boxes[j] /\ \A k \in Told(boxes, cam, n, t) : k <= j

\* One sample more.
LEMMA HeedsMore ==
  ASSUME NEW boxes \in Seq(Sample), NEW cam, NEW n \in 1 .. Len(boxes), NEW s,
         Heeds(boxes, cam, n - 1, s),
         NEW q, q = IF boxes[n].cam = cam THEN Append(s, boxes[n]) ELSE s
  PROVE  Heeds(boxes, cam, n, q)
<1>0. s \in Seq(Sample) /\ n \in Nat
  BY DEF Heeds
<1>1. PICK l \in Nat : l = Len(s) /\ s \in Seq(Sample) /\ n \in Nat
  BY <1>0
<1>2. PICK b \in Sample : b = boxes[n] /\ b.at \in Int
  <2>1. PICK b : b = boxes[n]
    OBVIOUS
  <2>2. b \in Sample
    BY <2>1
  <2>3. b.at \in Int
    BY <2>2 DEF Sample
  <2> QED BY <2>1, <2>2, <2>3
<1>3. CASE b.cam # cam
  <2>1. q = s
    BY <1>2, <1>3
  <2>2. \A t : Told(boxes, cam, n, t) = Told(boxes, cam, n - 1, t)
    <3>1. \A j \in 1 .. n : j \in 1 .. n - 1 \/ j = n
      BY <1>1
    <3>2. \A j \in 1 .. n - 1 : j \in 1 .. n
      BY <1>1
    <3> QED BY <1>2, <1>3, <3>1, <3>2 DEF Told
  <2>3. \A k \in 1 .. Len(s) : \E j \in 1 .. n : s[k] = boxes[j] /\ boxes[j].cam = cam
    <3>1. \A k \in 1 .. Len(s) : \E j \in 1 .. n - 1 : s[k] = boxes[j] /\ boxes[j].cam = cam
      BY DEF Heeds
    <3>2. \A j \in 1 .. n - 1 : j \in 1 .. n
      BY <1>1
    <3> QED BY <3>1, <3>2
  <2>4. \A j \in 1 .. n : boxes[j].cam = cam => \E k \in 1 .. Len(s) : s[k] = boxes[j]
    <3>1. \A j \in 1 .. n - 1 : boxes[j].cam = cam => \E k \in 1 .. Len(s) : s[k] = boxes[j]
      BY DEF Heeds
    <3>2. \A j \in 1 .. n : j \in 1 .. n - 1 \/ j = n
      BY <1>1
    <3> QED BY <1>2, <1>3, <3>1, <3>2
  <2> QED BY <2>1, <2>2, <2>3, <2>4 DEF Heeds
<1>4. CASE b.cam = cam
  <2>1. /\ q \in Seq(Sample) /\ Len(q) = l + 1 /\ q[l + 1] = b
        /\ \A k \in 1 .. l : q[k] = s[k]
    BY <1>1, <1>2, <1>4
  <2>2. \A k \in 1 .. Len(q) : \E j \in 1 .. n : q[k] = boxes[j] /\ boxes[j].cam = cam
    <3>0. \A k \in 1 .. l : \E j \in 1 .. n - 1 : s[k] = boxes[j] /\ boxes[j].cam = cam
      BY <1>1 DEF Heeds
    <3>1. \A k \in 1 .. l : \E j \in 1 .. n : s[k] = boxes[j] /\ boxes[j].cam = cam
      <4>1. \A j \in 1 .. n - 1 : j \in 1 .. n
        BY <1>1
      <4> QED BY <3>0, <4>1
    <3>2. \A k \in 1 .. Len(q) : k \in 1 .. l \/ k = l + 1
      BY <2>1
    <3>3. q[l + 1] = boxes[n] /\ boxes[n].cam = cam /\ n \in 1 .. n
      BY <1>2, <1>4, <2>1
    <3>4. \A k \in 1 .. l : \E j \in 1 .. n : q[k] = boxes[j] /\ boxes[j].cam = cam
      BY <2>1, <3>1
    <3> QED BY <3>2, <3>3, <3>4
  <2>3. \A j \in 1 .. n : boxes[j].cam = cam => \E k \in 1 .. l + 1 : q[k] = boxes[j]
    <3>1. ASSUME NEW j \in 1 .. n - 1, boxes[j].cam = cam PROVE \E k \in 1 .. l + 1 : q[k] = boxes[j]
      <4>1. PICK k \in 1 .. l : s[k] = boxes[j]
        BY <1>1, <3>1 DEF Heeds
      <4>2. k \in 1 .. l + 1 /\ q[k] = boxes[j]
        BY <1>1, <2>1, <4>1
      <4> QED BY <4>2
    <3>2. \A j \in 1 .. n : j \in 1 .. n - 1 \/ j = n
      BY <1>1
    <3>3. l + 1 \in 1 .. l + 1 /\ q[l + 1] = boxes[n]
      BY <1>1, <1>2, <2>1
    <3> QED BY <3>1, <3>2, <3>3
  <2>4. ASSUME NEW t \in Int, NEW i \in Nat, Cursor(q, i, t)
        PROVE  /\ i = 0 => Told(boxes, cam, n, t) = {}
               /\ i # 0 => \E j \in Told(boxes, cam, n, t) :
                    q[i] = boxes[j] /\ \A k \in Told(boxes, cam, n, t) : k <= j
    <3>1. CASE i = l + 1
      <4>0. i \in 1 .. i
        BY <1>1, <3>1
      <4>1. b.at <= t
        BY <2>1, <2>4, <3>1, <4>0 DEF Cursor
      <4>2. n \in Told(boxes, cam, n, t)
        <5>1. n \in 1 .. n /\ boxes[n].cam = cam
          BY <1>2, <1>4
        <5>2. ASSUME NEW j \in 1 .. n, boxes[j].cam = cam PROVE boxes[j].at <= t
          <6>1. PICK k \in 1 .. l + 1 : q[k] = boxes[j]
            BY <2>3, <5>2
          <6>2. q[k].at <= t
            BY <2>4, <3>1, <6>1 DEF Cursor
          <6> QED BY <6>1, <6>2
        <5> QED BY <5>1, <5>2 DEF Told
      <4>3. \A k \in Told(boxes, cam, n, t) : k <= n
        BY DEF Told
      <4>4. q[i] = boxes[n] /\ i # 0
        BY <1>1, <1>2, <2>1, <3>1
      <4>5. \E j \in Told(boxes, cam, n, t) :
              q[i] = boxes[j] /\ \A k \in Told(boxes, cam, n, t) : k <= j
        BY <4>2, <4>3, <4>4
      <4> QED BY <4>4, <4>5
    <3>2. CASE i # l + 1
      <4>1. i \in 0 .. l
        BY <2>1, <2>4, <3>2 DEF Cursor
      <4>2. q[i + 1].at > t
        BY <2>1, <2>4, <4>1 DEF Cursor
      <4>3. i + 1 \in 1 .. l + 1 /\ \E j \in 1 .. n : q[i + 1] = boxes[j] /\ boxes[j].cam = cam
        <5>1. i + 1 \in 1 .. l + 1 /\ Len(q) = l + 1
          BY <1>1, <2>1, <4>1
        <5> QED BY <2>2, <5>1
      <4>4. Told(boxes, cam, n, t) = Told(boxes, cam, n - 1, t)
        <5>1. PICK j \in 1 .. n : boxes[j].cam = cam /\ q[i + 1] = boxes[j]
          BY <4>3
        <5>2. ~(boxes[j].at <= t)
          <6>1. boxes[j] \in Sample
            OBVIOUS
          <6>2. PICK x \in Int : x = boxes[j].at
            BY <6>1 DEF Sample
          <6>3. x > t
            BY <4>2, <5>1, <6>2
          <6> QED BY <6>2, <6>3
        <5>3. n \notin Told(boxes, cam, n, t)
          BY <5>1, <5>2 DEF Told
        <5>4. \A k \in 1 .. n : k \in 1 .. n - 1 \/ k = n
          BY <1>1
        <5>5. \A k \in 1 .. n - 1 : k \in 1 .. n
          BY <1>1
        <5> QED BY <5>3, <5>4, <5>5 DEF Told
      <4>5. Cursor(s, i, t)
        <5>1. \A j \in 1 .. i : s[j].at <= t
          BY <2>1, <2>4, <4>1 DEF Cursor
        <5>2. i < l => s[i + 1].at > t
          <6>1. i < l => q[i + 1] = s[i + 1]
            BY <2>1, <4>1
          <6> QED BY <4>2, <6>1
        <5> QED BY <1>1, <4>1, <5>1, <5>2 DEF Cursor
      <4>6. i # 0 => q[i] = s[i]
        BY <2>1, <4>1
      <4> QED BY <4>4, <4>5, <4>6 DEF Heeds
    <3> QED BY <3>1, <3>2
  <2>5. \A j \in 1 .. n : boxes[j].cam = cam => \E k \in 1 .. Len(q) : q[k] = boxes[j]
    BY <2>1, <2>3
  <2> QED BY <2>1, <2>2, <2>4, <2>5 DEF Heeds
<1> QED BY <1>3, <1>4

\* A camera's samples.
LEMMA SamplesAre ==
  ASSUME NEW boxes \in Seq(Sample), NEW cam
  PROVE  Heeds(boxes, cam, Len(boxes), SamplesOf(boxes, cam))
<1>0. PICK l \in Nat : l = Len(boxes)
  OBVIOUS
<1>1. PICK f : f = CHOOSE h : Sorting(boxes, cam, l, h)
  OBVIOUS
<1>2. Sorting(boxes, cam, l, f)
  BY <1>1, SortingExists
<1>3. SamplesOf(boxes, cam) = f[l]
  BY <1>0, <1>1, Zenon DEF SamplesOf, Sorting
<1>4. \A i \in 0 .. l : f[i] = IF i = 0 THEN <<>>
                               ELSE IF boxes[i].cam = cam THEN Append(f[i - 1], boxes[i]) ELSE f[i - 1]
  BY <1>2 DEF Sorting
<1> DEFINE Bad == {n \in Nat : n <= l /\ ~Heeds(boxes, cam, n, f[n])}
<1>5. ASSUME Bad # {} PROVE FALSE
  <2>1. PICK n \in Bad : \A i \in Bad : n <= i
    <3>1. Bad \in SUBSET Nat
      OBVIOUS
    <3> QED BY <1>5, <3>1, Smallest
  <2>2. CASE n = 0
    <3>1. f[0] = <<>>
      BY <1>4
    <3>2. PICK s : s = <<>> /\ s \in Seq(Sample) /\ Len(s) = 0
      <4>1. <<>> \in Seq(Sample) /\ Len(<<>>) = 0
        OBVIOUS
      <4> QED BY <4>1
    <3>3. \A t : Told(boxes, cam, 0, t) = {}
      BY DEF Told
    <3>4. \A t \in Int, i \in Nat : Cursor(s, i, t) => i = 0
      BY <3>2 DEF Cursor
    <3>5. Heeds(boxes, cam, 0, s)
      BY <3>2, <3>3, <3>4 DEF Heeds
    <3> QED BY <2>1, <2>2, <3>1, <3>2, <3>5
  <2>3. CASE n # 0
    <3>1. n \in 1 .. l /\ n - 1 \in Nat /\ n - 1 <= l /\ n - 1 \notin Bad
      BY <2>1, <2>3
    <3>2. Heeds(boxes, cam, n - 1, f[n - 1])
      BY <3>1
    <3>3. f[n] = IF boxes[n].cam = cam THEN Append(f[n - 1], boxes[n]) ELSE f[n - 1]
      BY <1>4, <3>1
    <3>4. Heeds(boxes, cam, n, f[n])
      BY <1>0, <3>1, <3>2, <3>3, HeedsMore
    <3> QED BY <2>1, <3>4
  <2> QED BY <2>2, <2>3
<1>6. l \notin Bad
  BY <1>5
<1>7. Heeds(boxes, cam, l, f[l])
  BY <1>6
<1> QED BY <1>0, <1>3, <1>7

\* The cursor stands where Heard says.
LEMMA HeardIs ==
  ASSUME NEW s \in Seq(Sample), NEW t \in Int
  PROVE  Heard(s, t) \in Nat /\ Cursor(s, Heard(s, t), t)
<1>1. PICK l \in Nat : l = Len(s)
  OBVIOUS
<1>2. \A k \in 1 .. l : s[k].at \in Int
  <2>1. \A k \in 1 .. l : s[k] \in Sample
    BY <1>1
  <2> QED BY <2>1 DEF Sample
<1>3. PICK B : B = {i \in 0 .. l : i < l => s[i + 1].at > t}
  OBVIOUS
<1>4. PICK i \in B : \A j \in B : i <= j
  <2>1. l \in B /\ B \in SUBSET Nat
    BY <1>3
  <2> QED BY <2>1, Smallest
<1>5. ASSUME NEW j \in 1 .. i PROVE s[j].at <= t
  <2>1. j - 1 \in 0 .. l /\ j - 1 \notin B /\ j \in 1 .. l /\ (j - 1) + 1 = j
    BY <1>3, <1>4
  <2>2. ~(s[j].at > t)
    BY <1>3, <2>1
  <2> QED BY <1>2, <2>1, <2>2
<1>6. i \in 0 .. l /\ (i < l => s[i + 1].at > t)
  BY <1>3
<1>7. \E k \in 0 .. Len(s) :
        /\ \A j \in 1 .. k : s[j].at <= t
        /\ k < Len(s) => s[k + 1].at > t
  BY <1>1, <1>5, <1>6
<1>8. PICK h : h = Heard(s, t)
  OBVIOUS
<1>9. /\ h \in 0 .. Len(s)
      /\ \A j \in 1 .. h : s[j].at <= t
      /\ h < Len(s) => s[h + 1].at > t
  BY <1>7, <1>8, Zenon DEF Heard
<1> QED BY <1>1, <1>8, <1>9 DEF Cursor

\* Score's cursor and its last look are the view of the newest sample heard.
LEMMA ScoreIs ==
  ASSUME NEW boxes \in Seq(Sample), NEW cam \in Scorable, NEW t \in Int
  PROVE  Score(boxes, cam, t) = ViewOf(boxes, cam, t)
<1>1. PICK s \in Seq(Sample) : s = SamplesOf(boxes, cam) /\ Heeds(boxes, cam, Len(boxes), s)
  BY SamplesAre DEF Heeds
<1>2. PICK i \in Nat : i = Heard(s, t) /\ Cursor(s, i, t)
  BY HeardIs
<1>3. PICK told : told = {j \in DOMAIN boxes :
                       /\ boxes[j].cam = cam /\ cam \in Scorable
                       /\ \A n \in 1 .. j : boxes[n].cam = cam => boxes[n].at <= t}
  OBVIOUS
<1>4. told = Told(boxes, cam, Len(boxes), t)
  BY <1>3 DEF Told
<1>5. Score(boxes, cam, t) = IF i = 0 \/ t - s[i].at > Stale \/ s[i].view = 0 THEN Blind ELSE s[i].view
  BY <1>1, <1>2 DEF Score
<1>6. CASE i = 0
  <2>1. told = {}
    BY <1>1, <1>2, <1>4, <1>6 DEF Heeds
  <2>2. ViewOf(boxes, cam, t) = Blind
    BY <1>3, <2>1, Zenon DEF ViewOf
  <2> QED BY <1>5, <1>6, <2>2
<1>7. CASE i # 0
  <2>1. PICK j \in told : s[i] = boxes[j] /\ \A k \in told : k <= j
    BY <1>1, <1>2, <1>4, <1>7 DEF Heeds
  <2>2. PICK last : last = Max(told)
    OBVIOUS
  <2>3. last \in told /\ \A k \in told : k <= last
    <3>1. told \in SUBSET (1 .. Len(boxes)) /\ Len(boxes) \in Nat /\ told # {}
      BY <1>3, <2>1
    <3> QED BY <2>2, <3>1, LastOfPositions
  <2>4. \A k \in told : k \in Nat
    BY <1>3
  <2>5. last = j
    BY <2>1, <2>3, <2>4
  <2>6. told # {}
    BY <2>1
  <2>7. ViewOf(boxes, cam, t) = IF boxes[last].at < t - Stale \/ boxes[last].view = 0
                                THEN Blind ELSE boxes[last].view
    BY <1>3, <2>2, <2>6, Zenon DEF ViewOf
  <2>8. boxes[j].at \in Int
    <3>1. boxes[j] \in Sample
      BY <1>3
    <3> QED BY <3>1 DEF Sample
  <2>9. t - boxes[j].at > Stale <=> boxes[j].at < t - Stale
    BY <2>8, FollowAssumption
  <2> QED BY <1>5, <1>7, <2>1, <2>5, <2>7, <2>9
<1> QED BY <1>6, <1>7

\* A view is that of some sample, or there is none.
LEMMA ViewIs ==
  ASSUME NEW boxes \in Seq(Sample), NEW cam, NEW t \in Int
  PROVE  \/ ViewOf(boxes, cam, t) = Blind
         \/ /\ ViewOf(boxes, cam, t) \in Nat \ {0}
            /\ \E j \in 1 .. Len(boxes) : boxes[j].cam = cam /\ ViewOf(boxes, cam, t) = boxes[j].view
<1>1. PICK told : told = {j \in DOMAIN boxes :
                       /\ boxes[j].cam = cam /\ cam \in Scorable
                       /\ \A i \in 1 .. j : boxes[i].cam = cam => boxes[i].at <= t}
  OBVIOUS
<1>2. CASE told = {}
  BY <1>1, <1>2, Zenon DEF ViewOf
<1>3. CASE told # {}
  <2>1. PICK last : last = Max(told)
    OBVIOUS
  <2>2. ViewOf(boxes, cam, t) = IF boxes[last].at < t - Stale \/ boxes[last].view = 0
                                THEN Blind ELSE boxes[last].view
    BY <1>1, <1>3, <2>1, Zenon DEF ViewOf
  <2>4. last \in told
    <3>1. told \in SUBSET (1 .. Len(boxes)) /\ Len(boxes) \in Nat
      BY <1>1
    <3> QED BY <1>3, <2>1, <3>1, LastOfPositions
  <2>5. last \in 1 .. Len(boxes) /\ boxes[last].cam = cam /\ boxes[last].view \in Nat
    <3>1. last \in 1 .. Len(boxes) /\ boxes[last].cam = cam
      BY <1>1, <2>4
    <3>2. boxes[last] \in Sample
      BY <3>1
    <3> QED BY <3>1, <3>2 DEF Sample
  <2> QED BY <2>2, <2>5
<1> QED BY <1>2, <1>3

\* The first n samples' views have a bound.
BoundedTo(boxes, n) == \E m \in Nat : \A j \in 1 .. n : boxes[j].view <= m

\* The views of an event's samples have a bound.
LEMMA ViewsBounded ==
  ASSUME NEW boxes \in Seq(Sample)
  PROVE  \E m \in Nat : \A j \in 1 .. Len(boxes) : boxes[j].view <= m
<1>1. PICK l \in Nat : l = Len(boxes)
  OBVIOUS
<1>0. PICK Bad : Bad = {n \in Nat : n <= l /\ ~BoundedTo(boxes, n)}
  OBVIOUS
<1>2. ASSUME Bad # {} PROVE FALSE
  <2>1. PICK n \in Bad : \A i \in Bad : n <= i
    <3>1. Bad \in SUBSET Nat
      BY <1>0
    <3> QED BY <1>2, <3>1, Smallest
  <2>2. n # 0
    <3>1. \A j \in 1 .. 0 : boxes[j].view <= 0
      OBVIOUS
    <3>2. BoundedTo(boxes, 0)
      BY <3>1 DEF BoundedTo
    <3> QED BY <1>0, <3>2
  <2>3. n \in Nat /\ n - 1 \in Nat /\ n - 1 <= l /\ n - 1 \notin Bad /\ n \in 1 .. Len(boxes)
    BY <1>0, <1>1, <2>1, <2>2
  <2>4. PICK m \in Nat : \A j \in 1 .. (n - 1) : boxes[j].view <= m
    BY <1>0, <2>3 DEF BoundedTo
  <2>5. PICK v \in Nat : v = boxes[n].view
    <3>1. boxes[n] \in Sample
      BY <2>3
    <3> QED BY <3>1 DEF Sample
  <2>6. \A j \in 1 .. (n - 1) : boxes[j].view \in Nat
    <3>1. \A j \in 1 .. (n - 1) : boxes[j] \in Sample
      BY <1>1, <2>3
    <3> QED BY <3>1 DEF Sample
  <2>7. \A j \in 1 .. n : j = n \/ j \in 1 .. (n - 1)
    BY <2>3
  <2>8. PICK k \in Nat : m <= k /\ v <= k
    <3>1. CASE m <= v
      BY <3>1
    <3>2. CASE v <= m
      BY <3>2, SMTT(30)
    <3> QED BY <3>1, <3>2
  <2>9. \A j \in 1 .. n : boxes[j].view <= k
    BY <2>4, <2>5, <2>6, <2>7, <2>8
  <2> QED BY <1>0, <2>9 DEF BoundedTo
<1>3. l \notin Bad
  BY <1>2
<1> QED BY <1>0, <1>1, <1>3 DEF BoundedTo

\* One look finds a camera exactly if one sights the subject, and it is the one with the
\* biggest view of all.
LEMMA BestIs ==
  ASSUME NEW boxes \in Seq(Sample), NEW t \in Int
  PROVE  /\ Sighted(boxes, t) => Best(boxes, t) # {}
         /\ \A c \in Best(boxes, t) :
              /\ c \in Scorable /\ ViewOf(boxes, c, t) # Blind
              /\ \A d \in Scorable : ViewOf(boxes, d, t) <= ViewOf(boxes, c, t)
<1>1. ASSUME NEW d \in Scorable, ViewOf(boxes, d, t) # Blind
      PROVE  d \in Scored(boxes) /\ ViewOf(boxes, d, t) \in Nat \ {0}
             /\ \E j \in 1 .. Len(boxes) : ViewOf(boxes, d, t) = boxes[j].view
  <2>1. PICK j \in 1 .. Len(boxes) : boxes[j].cam = d /\ ViewOf(boxes, d, t) = boxes[j].view
    BY <1>1, ViewIs
  <2>2. boxes[j] \in ToSet(boxes)
    BY DEF ToSet
  <2>3. d \in Scored(boxes)
    BY <2>1, <2>2 DEF Scored
  <2>4. ViewOf(boxes, d, t) \in Nat \ {0}
    BY <1>1, ViewIs
  <2> QED BY <2>1, <2>3, <2>4
<1>2. \A d \in Scored(boxes) : d \in Scorable /\ Score(boxes, d, t) = ViewOf(boxes, d, t)
  BY ScoreIs DEF Scored
<1>3. ASSUME NEW c \in Best(boxes, t)
      PROVE  /\ c \in Scorable /\ ViewOf(boxes, c, t) # Blind
             /\ \A d \in Scorable : ViewOf(boxes, d, t) <= ViewOf(boxes, c, t)
  <2>1. /\ c \in Scored(boxes) /\ Score(boxes, c, t) # Blind
        /\ \A d \in Scored(boxes) : Score(boxes, d, t) <= Score(boxes, c, t)
    BY DEF Best
  <2>2. c \in Scorable /\ ViewOf(boxes, c, t) # Blind
    BY <1>2, <2>1
  <2>3. ViewOf(boxes, c, t) \in Nat
    BY <1>1, <2>2
  <2>4. ASSUME NEW d \in Scorable PROVE ViewOf(boxes, d, t) <= ViewOf(boxes, c, t)
    <3>1. CASE ViewOf(boxes, d, t) = Blind
      BY <2>3, <3>1 DEF Blind
    <3>2. CASE ViewOf(boxes, d, t) # Blind
      <4>1. d \in Scored(boxes)
        BY <1>1, <3>2
      <4> QED BY <1>2, <2>1, <4>1
    <3> QED BY <3>1, <3>2
  <2> QED BY <2>2, <2>4
<1>4. ASSUME Sighted(boxes, t) PROVE Best(boxes, t) # {}
  <2>1. PICK c \in Scorable : ViewOf(boxes, c, t) # Blind
    BY <1>4 DEF Sighted
  <2>2. PICK m \in Nat : \A j \in 1 .. Len(boxes) : boxes[j].view <= m
    BY ViewsBounded
  <2>3. PICK D : D = {d \in Scorable : ViewOf(boxes, d, t) # Blind}
    OBVIOUS
  <2>4. PICK f : f = [d \in D |-> m - ViewOf(boxes, d, t)]
    OBVIOUS
  <2>5. \A d \in D : f[d] = m - ViewOf(boxes, d, t) /\ ViewOf(boxes, d, t) \in Nat /\ f[d] \in Nat
    <3> SUFFICES ASSUME NEW d \in D
                 PROVE  f[d] = m - ViewOf(boxes, d, t) /\ ViewOf(boxes, d, t) \in Nat /\ f[d] \in Nat
      OBVIOUS
    <3>1. d \in Scorable /\ ViewOf(boxes, d, t) # Blind /\ f[d] = m - ViewOf(boxes, d, t)
      BY <2>3, <2>4
    <3>2. PICK v \in Nat : v = ViewOf(boxes, d, t) /\ v <= m
      BY <1>1, <2>2, <3>1
    <3> QED BY <3>1, <3>2
  <2>6. PICK B : B = {f[d] : d \in D}
    OBVIOUS
  <2>7. B \in SUBSET Nat /\ B # {}
    BY <2>1, <2>3, <2>5, <2>6
  <2>8. PICK n \in B : \A i \in B : n <= i
    BY <2>7, Smallest
  <2>9. PICK b \in D : n = f[b]
    BY <2>6, <2>8
  <2>10. b \in Scored(boxes) /\ Score(boxes, b, t) = ViewOf(boxes, b, t) /\ ViewOf(boxes, b, t) # Blind
         /\ ViewOf(boxes, b, t) \in Nat
    BY <1>1, <1>2, <2>3
  <2>11. ASSUME NEW d \in Scored(boxes) PROVE Score(boxes, d, t) <= Score(boxes, b, t)
    <3>1. d \in Scorable /\ Score(boxes, d, t) = ViewOf(boxes, d, t)
      BY <1>2
    <3>2. CASE ViewOf(boxes, d, t) = Blind
      BY <2>10, <3>1, <3>2 DEF Blind
    <3>3. CASE ViewOf(boxes, d, t) # Blind
      <4>1. d \in D /\ f[d] \in B
        BY <2>3, <2>6, <3>1, <3>3
      <4>2. f[b] <= f[d]
        BY <2>8, <2>9, <4>1
      <4>3. /\ f[d] = m - ViewOf(boxes, d, t) /\ f[b] = m - ViewOf(boxes, b, t)
            /\ ViewOf(boxes, d, t) \in Nat /\ ViewOf(boxes, b, t) \in Nat
        BY <2>5, <4>1
      <4>4. ViewOf(boxes, d, t) <= ViewOf(boxes, b, t)
        BY <4>2, <4>3
      <4> QED BY <2>10, <3>1, <4>4
    <3> QED BY <3>2, <3>3
  <2>12. b \in Best(boxes, t)
    BY <2>10, <2>11 DEF Best
  <2> QED BY <2>12
<1> QED BY <1>3, <1>4

\* A camera on show from s to e is not held past MinShot while another outdoes it.
NotOutdone(boxes, cam, s, e) ==
  \A t \in s .. e - 1 :
    /\ t - s >= MinShot
    /\ \E u \in 0 .. t - MinShot : Sighted(boxes, u)
    => \A c \in Scorable :
         ViewOf(boxes, c, t) # Blind => ~Outdoes(ViewOf(boxes, c, t), ViewOf(boxes, cam, t))

Shot == [cam : Scorable, s : Nat, e : Nat]

\* One shot hands over to the next.
HandsOver(a, b) == b.s = a.e /\ b.cam # a.cam /\ a.e - a.s >= MinShot

\* Shots from the clip's first second on, each handing over to the next.
Row(boxes, segs) ==
  /\ segs \in Seq(Shot)
  /\ segs # <<>> => segs[1].s = 0
  /\ \A i \in 1 .. Len(segs) - 1 : HandsOver(segs[i], segs[i + 1])
  /\ \A i \in 1 .. Len(segs) : NotOutdone(boxes, segs[i].cam, segs[i].s, segs[i].e)

Cut == [current : Scorable \cup {NoCamera}, since : Nat, start : Nat, segs : Seq(Shot)]

NoneBefore(boxes, t) == \A u \in 0 .. t - 1 : ~Sighted(boxes, u)

\* The cut once a camera is on show: its shot began at the top of the clip, with the
\* camera sighted first of all, or where the shot before handed over to it.
OnShow(boxes, cut, t) ==
  /\ cut.since \in 0 .. t - 1 /\ Sighted(boxes, cut.since) /\ cut.start <= cut.since
  /\ cut.segs = <<>> => cut.start = 0 /\ NoneBefore(boxes, cut.since)
  /\ cut.segs # <<>> =>
       /\ cut.start = cut.since
       /\ HandsOver(cut.segs[Len(cut.segs)], [cam |-> cut.current, s |-> cut.start, e |-> t])
  /\ NotOutdone(boxes, cut.current, cut.start, t)

\* The cut after the looks before t.
CutInv(boxes, cut, t) ==
  /\ cut \in Cut /\ Row(boxes, cut.segs)
  /\ cut.current = NoCamera => cut.segs = <<>> /\ cut.start = 0 /\ NoneBefore(boxes, t)
  /\ cut.current # NoCamera => OnShow(boxes, cut, t)

\* A row with one shot more.
LEMMA RowGrows ==
  ASSUME NEW boxes, NEW segs, Row(boxes, segs), NEW shot \in Shot,
         segs = <<>> => shot.s = 0,
         segs # <<>> => HandsOver(segs[Len(segs)], shot),
         NotOutdone(boxes, shot.cam, shot.s, shot.e)
  PROVE  /\ Row(boxes, Append(segs, shot)) /\ Append(segs, shot) # <<>>
         /\ Len(Append(segs, shot)) \in Nat
         /\ Append(segs, shot)[Len(Append(segs, shot))] = shot
<1>1. PICK l \in Nat : l = Len(segs) /\ segs \in Seq(Shot)
  BY DEF Row
<1>2. PICK q : q = Append(segs, shot)
  OBVIOUS
<1>3. /\ q \in Seq(Shot) /\ Len(q) = l + 1 /\ q[l + 1] = shot /\ q # <<>>
      /\ \A k \in 1 .. l : q[k] = segs[k]
  BY <1>1, <1>2
<1>4. q[1].s = 0
  <2>1. CASE segs = <<>>
    BY <1>1, <1>3, <2>1
  <2>2. CASE segs # <<>>
    <3>1. 1 \in 1 .. l
      BY <1>1, <2>2
    <3> QED BY <1>3, <2>2, <3>1 DEF Row
  <2> QED BY <2>1, <2>2
<1>5. ASSUME NEW i \in 1 .. l PROVE HandsOver(q[i], q[i + 1])
  <2>1. CASE i = l
    <3>1. segs # <<>>
      BY <1>1, <2>1
    <3> QED BY <1>1, <1>3, <2>1, <3>1
  <2>2. CASE i # l
    <3>1. i \in 1 .. Len(segs) - 1 /\ i + 1 \in 1 .. l
      BY <1>1, <2>2
    <3>2. HandsOver(segs[i], segs[i + 1])
      BY <3>1 DEF Row
    <3> QED BY <1>3, <3>1, <3>2
  <2> QED BY <2>1, <2>2
<1>6. ASSUME NEW i \in 1 .. (l + 1) PROVE NotOutdone(boxes, q[i].cam, q[i].s, q[i].e)
  <2>1. CASE i = l + 1
    BY <1>3, <2>1
  <2>2. CASE i # l + 1
    <3>1. i \in 1 .. Len(segs) /\ i \in 1 .. l
      BY <1>1, <2>2
    <3> QED BY <1>3, <3>1 DEF Row
  <2> QED BY <2>1, <2>2
<1>7. \A i \in 1 .. Len(q) - 1 : i \in 1 .. l
  BY <1>3
<1>8. Row(boxes, q)
  BY <1>3, <1>4, <1>5, <1>6, <1>7 DEF Row
<1> QED BY <1>2, <1>3, <1>8

\* The shot that ends at t, and the row it is appended to.
Closes(cut, t, shot, row) ==
  shot = [cam |-> cut.current, s |-> cut.start, e |-> t] /\ row = Append(cut.segs, shot)

\* emit appends the camera on show.
LEMMA EmitAppends ==
  ASSUME NEW boxes, NEW t \in Nat, NEW cut, CutInv(boxes, cut, t), cut.current # NoCamera,
         NEW shot, NEW row, Closes(cut, t, shot, row)
  PROVE  /\ shot \in Shot /\ Emitted(cut, t) = row /\ Row(boxes, row) /\ row # <<>>
         /\ Len(row) \in Nat /\ row[Len(row)] = shot
<1>1. shot = [cam |-> cut.current, s |-> cut.start, e |-> t] /\ row = Append(cut.segs, shot)
  BY DEF Closes
<1>2. /\ cut.current \in Scorable /\ cut.start \in Nat /\ cut.segs \in Seq(Shot)
      /\ cut.since \in Nat /\ OnShow(boxes, cut, t) /\ Row(boxes, cut.segs)
  BY DEF CutInv, Cut
<1>3. cut.start <= cut.since /\ cut.since \in 0 .. t - 1 /\ ~(t <= cut.start)
  BY <1>2 DEF OnShow
<1>4. shot \in Shot /\ shot.cam = cut.current /\ shot.s = cut.start /\ shot.e = t
  BY <1>1, <1>2 DEF Shot
<1>5. cut.segs = <<>> => shot.s = 0
  BY <1>2, <1>4 DEF OnShow
<1>6. cut.segs # <<>> => HandsOver(cut.segs[Len(cut.segs)], shot)
  BY <1>1, <1>2 DEF OnShow
<1>7. NotOutdone(boxes, shot.cam, shot.s, shot.e)
  BY <1>2, <1>4 DEF OnShow
<1>8. /\ Row(boxes, Append(cut.segs, shot)) /\ Append(cut.segs, shot) # <<>>
      /\ Len(Append(cut.segs, shot)) \in Nat
      /\ Append(cut.segs, shot)[Len(Append(cut.segs, shot))] = shot
  BY <1>2, <1>4, <1>5, <1>6, <1>7, RowGrows
<1>9. Row(boxes, row) /\ row # <<>> /\ Len(row) \in Nat /\ row[Len(row)] = shot
  BY <1>1, <1>8
<1>10. ~(cut.segs # <<>> /\ Last(cut.segs).cam = cut.current)
  BY <1>4, <1>6 DEF HandsOver, Last
<1>11. Emitted(cut, t) = row
  BY <1>1, <1>3, <1>10 DEF Emitted
<1> QED BY <1>4, <1>9, <1>11

\* Where the shot on show has settled, its camera was already the choice for MinShot.
LEMMA SettledSince ==
  ASSUME NEW boxes, NEW t \in Nat, NEW cut \in Cut, OnShow(boxes, cut, t),
         NEW u \in Nat, u <= t - MinShot, Sighted(boxes, u), t - cut.start >= MinShot
  PROVE  t - cut.since >= MinShot
<1>1. PICK since \in Nat, start \in Nat : since = cut.since /\ start = cut.start
  BY DEF Cut
<1>2. CASE cut.segs = <<>>
  <2>1. \A v \in 0 .. since - 1 : ~Sighted(boxes, v)
    BY <1>1, <1>2 DEF OnShow, NoneBefore
  <2>2. ~(u < since)
    BY <1>1, <2>1
  <2> QED BY <1>1, <2>2, FollowAssumption
<1>3. CASE cut.segs # <<>>
  BY <1>3 DEF OnShow
<1> QED BY <1>2, <1>3

\* A shot that is not outdone at t is not outdone up to t.
LEMMA HoldsOn ==
  ASSUME NEW boxes, NEW cam, NEW s \in Nat, NEW t \in Nat, NotOutdone(boxes, cam, s, t),
         t - s >= MinShot /\ (\E u \in 0 .. t - MinShot : Sighted(boxes, u)) =>
           \A c \in Scorable :
             ViewOf(boxes, c, t) # Blind => ~Outdoes(ViewOf(boxes, c, t), ViewOf(boxes, cam, t))
  PROVE  NotOutdone(boxes, cam, s, t + 1)
<1>1. \A v \in s .. (t + 1) - 1 : v = t \/ v \in s .. t - 1
  OBVIOUS
<1> QED BY <1>1 DEF NotOutdone

\* After emit the row of shots ends where the clip does.
LEMMA EmitEnds ==
  ASSUME NEW boxes, NEW t \in Nat, NEW cut, CutInv(boxes, cut, t), cut.current # NoCamera,
         NEW row, row = Emitted(cut, t)
  PROVE  Row(boxes, row) /\ row # <<>> /\ Len(row) \in Nat /\ row[Len(row)].e = t
<1>1. PICK cam, start, segs : cam = cut.current /\ start = cut.start /\ segs = cut.segs
  OBVIOUS
<1>2. PICK shot : shot = [cam |-> cam, s |-> start, e |-> t]
  OBVIOUS
<1>3. PICK q : q = Append(segs, shot)
  OBVIOUS
<1>4. Closes(cut, t, shot, q)
  BY <1>1, <1>2, <1>3 DEF Closes
<1>5. /\ shot \in Shot /\ Emitted(cut, t) = q /\ Row(boxes, q) /\ q # <<>>
      /\ q[Len(q)] = shot
  <2>1. shot \in Shot
    BY <1>4, EmitAppends
  <2>2. Emitted(cut, t) = q
    BY <1>4, EmitAppends
  <2>3. Row(boxes, q) /\ q # <<>>
    BY <1>4, EmitAppends
  <2>4. q[Len(q)] = shot
    BY <1>4, EmitAppends
  <2> QED BY <2>1, <2>2, <2>3, <2>4
<1>6. Len(q) \in Nat
  BY <1>5 DEF Row
<1>7. shot.e = t
  BY <1>2
<1> QED BY <1>5, <1>6, <1>7

\* One look.
LEMMA LookKeeps ==
  ASSUME NEW boxes \in Seq(Sample), NEW t \in Nat,
         NEW cut, CutInv(boxes, cut, t), NEW next \in Looked(cut, boxes, t)
  PROVE  CutInv(boxes, next, t + 1)
<1>1. cut \in Cut /\ Row(boxes, cut.segs)
  BY DEF CutInv
<1>2. PICK cam, since, start, segs :
        cam = cut.current /\ since = cut.since /\ start = cut.start /\ segs = cut.segs
  OBVIOUS
<1>3. /\ cam \in Scorable \cup {NoCamera} /\ since \in Nat /\ start \in Nat /\ segs \in Seq(Shot)
      /\ cut = [current |-> cam, since |-> since, start |-> start, segs |-> segs]
  BY <1>1, <1>2 DEF Cut
<1>4. NoCamera \notin Scorable /\ MinShot \in Nat \ {0}
  BY FollowAssumption
<1>5. ASSUME next = cut,
             cam = NoCamera => ~Sighted(boxes, t),
             cam # NoCamera =>
               (t - start >= MinShot /\ (\E u \in 0 .. t - MinShot : Sighted(boxes, u)) =>
                  \A c \in Scorable :
                    ViewOf(boxes, c, t) # Blind => ~Outdoes(ViewOf(boxes, c, t), ViewOf(boxes, cam, t)))
      PROVE  CutInv(boxes, next, t + 1)
  <2>1. CASE cam = NoCamera
    <3>1. segs = <<>> /\ start = 0 /\ \A u \in 0 .. t - 1 : ~Sighted(boxes, u)
      BY <1>2, <2>1 DEF CutInv, NoneBefore
    <3>2. \A u \in 0 .. (t + 1) - 1 : u = t \/ u \in 0 .. t - 1
      OBVIOUS
    <3>3. NoneBefore(boxes, t + 1)
      BY <1>5, <2>1, <3>1, <3>2 DEF NoneBefore
    <3> QED BY <1>1, <1>2, <1>5, <2>1, <3>1, <3>3 DEF CutInv
  <2>2. CASE cam # NoCamera
    <3>1. OnShow(boxes, cut, t)
      BY <1>2, <2>2 DEF CutInv
    <3>2. NotOutdone(boxes, cam, start, t)
      BY <1>2, <3>1 DEF OnShow
    <3>3. NotOutdone(boxes, cam, start, t + 1)
      BY <1>3, <1>5, <2>2, <3>2, HoldsOn
    <3>4. since \in 0 .. (t + 1) - 1 /\ Sighted(boxes, since) /\ start <= since
      BY <1>2, <3>1 DEF OnShow
    <3>5. segs = <<>> => start = 0 /\ NoneBefore(boxes, since)
      BY <1>2, <3>1 DEF OnShow
    <3>6. segs # <<>> => /\ start = since
                         /\ HandsOver(segs[Len(segs)], [cam |-> cam, s |-> start, e |-> t + 1])
      <4>1. segs # <<>> => /\ start = since
                           /\ HandsOver(segs[Len(segs)], [cam |-> cam, s |-> start, e |-> t])
        BY <1>2, <3>1 DEF OnShow
      <4> QED BY <4>1 DEF HandsOver
    <3>7. OnShow(boxes, cut, t + 1)
      BY <1>2, <3>3, <3>4, <3>5, <3>6 DEF OnShow
    <3> QED BY <1>1, <1>2, <1>5, <2>2, <3>7 DEF CutInv
  <2> QED BY <2>1, <2>2
<1>6. CASE Best(boxes, t) = {}
  <2>1. next = cut
    BY <1>6 DEF Looked
  <2>2. ~Sighted(boxes, t)
    BY <1>6, BestIs
  <2>3. \A c \in Scorable : ViewOf(boxes, c, t) = Blind
    BY <2>2 DEF Sighted
  <2> QED BY <1>5, <2>1, <2>2, <2>3
<1>7. CASE Best(boxes, t) # {}
  <2>1. PICK b \in Best(boxes, t) : next = Turn(cut, boxes, b, t)
    BY <1>7 DEF Looked
  <2>2. /\ b \in Scorable /\ ViewOf(boxes, b, t) # Blind
        /\ \A d \in Scorable : ViewOf(boxes, d, t) <= ViewOf(boxes, b, t)
    BY <2>1, BestIs
  <2>3. Sighted(boxes, t)
    BY <2>2 DEF Sighted
  <2>4. CASE cam = NoCamera
    <3>1. next = [cut EXCEPT !.current = b, !.since = t]
      BY <1>2, <2>1, <2>4 DEF Turn
    <3>2. next = [current |-> b, since |-> t, start |-> start, segs |-> segs]
      BY <1>3, <3>1
    <3>3. segs = <<>> /\ start = 0 /\ NoneBefore(boxes, t)
      BY <1>2, <2>4 DEF CutInv
    <3>4. NotOutdone(boxes, b, 0, t + 1)
      <4> SUFFICES ASSUME NEW v \in 0 .. (t + 1) - 1, v - 0 >= MinShot,
                          NEW u \in 0 .. v - MinShot, Sighted(boxes, u)
                   PROVE  FALSE
        BY DEF NotOutdone
      <4>1. u \in 0 .. t - 1
        BY <1>4
      <4> QED BY <3>3, <4>1 DEF NoneBefore
    <3>5. next \in Cut /\ next.segs = segs /\ next.current # NoCamera
      BY <1>3, <1>4, <2>2, <3>2 DEF Cut
    <3>6. OnShow(boxes, next, t + 1)
      BY <2>3, <3>2, <3>3, <3>4 DEF OnShow
    <3> QED BY <1>1, <1>2, <3>5, <3>6 DEF CutInv
  <2>5. CASE cam # NoCamera /\ b # cam /\ t - since >= MinShot
             /\ Outdoes(Score(boxes, b, t), Score(boxes, cam, t))
    <3>1. next = [current |-> b, since |-> t, start |-> t, segs |-> Emitted(cut, t)]
      BY <1>2, <2>1, <2>5, Zenon DEF Turn
    <3>2. PICK shot : shot = [cam |-> cam, s |-> start, e |-> t]
      OBVIOUS
    <3>3. PICK row : row = Append(segs, shot)
      OBVIOUS
    <3>4. /\ shot \in Shot /\ Emitted(cut, t) = row /\ Row(boxes, row) /\ row # <<>>
          /\ row[Len(row)] = shot
      <4>1. Closes(cut, t, shot, row) /\ cut.current # NoCamera
        BY <1>2, <2>5, <3>2, <3>3 DEF Closes
      <4>2. shot \in Shot
        BY <4>1, EmitAppends
      <4>3. Emitted(cut, t) = row
        BY <4>1, EmitAppends
      <4>4. Row(boxes, row) /\ row # <<>>
        BY <4>1, EmitAppends
      <4>5. row[Len(row)] = shot
        BY <4>1, EmitAppends
      <4> QED BY <4>2, <4>3, <4>4, <4>5
    <3>5. next = [current |-> b, since |-> t, start |-> t, segs |-> row]
      BY <3>1, <3>4
    <3>6. NotOutdone(boxes, b, t, t + 1)
      BY <1>4 DEF NotOutdone
    <3>7. start <= since
      BY <1>2, <2>5 DEF CutInv, OnShow
    <3>8. HandsOver(shot, [cam |-> b, s |-> t, e |-> t + 1])
      BY <1>3, <1>4, <2>5, <3>2, <3>7 DEF HandsOver
    <3>9. next \in Cut /\ next.current # NoCamera
      BY <1>4, <2>2, <3>4, <3>5 DEF Cut, Row
    <3>10. OnShow(boxes, next, t + 1)
      BY <2>3, <3>4, <3>5, <3>6, <3>8 DEF OnShow
    <3> QED BY <1>4, <2>2, <3>4, <3>5, <3>9, <3>10 DEF CutInv
  <2>6. CASE /\ cam # NoCamera
             /\ b = cam \/ ~(t - since >= MinShot) \/ ~Outdoes(Score(boxes, b, t), Score(boxes, cam, t))
    <3>1. next = cut
      BY <1>2, <2>1, <2>6, Zenon DEF Turn
    <3>2. cam \in Scorable
      BY <1>3, <2>6
    <3>3. ASSUME t - start >= MinShot, NEW u \in 0 .. t - MinShot, Sighted(boxes, u),
                 NEW c \in Scorable, ViewOf(boxes, c, t) # Blind
          PROVE  ~Outdoes(ViewOf(boxes, c, t), ViewOf(boxes, cam, t))
      <4>1. t - since >= MinShot
        <5>1. OnShow(boxes, cut, t)
          BY <1>2, <2>6 DEF CutInv
        <5>2. u \in Nat /\ u <= t - MinShot
          BY <1>4
        <5> QED BY <1>1, <1>2, <3>3, <5>1, <5>2, SettledSince
      <4>2. PICK x \in Nat \ {0} : x = ViewOf(boxes, c, t)
        BY <3>3, ViewIs
      <4>3. PICK y \in Int : y = ViewOf(boxes, b, t) /\ x <= y
        BY <2>2, <4>2, ViewIs
      <4>4. PICK z \in Int : z = ViewOf(boxes, cam, t)
        BY ViewIs DEF Blind
      <4>5. Score(boxes, b, t) = y /\ Score(boxes, cam, t) = z
        BY <2>2, <3>2, <4>3, <4>4, ScoreIs
      <4>6. b = cam \/ ~Outdoes(y, z)
        BY <2>6, <4>1, <4>5
      <4>7. b = cam => y = z
        BY <4>3, <4>4
      <4>8. ~(10 * x >= 13 * z)
        BY <4>2, <4>3, <4>4, <4>6, <4>7 DEF Outdoes
      <4> QED BY <4>2, <4>4, <4>8 DEF Outdoes
    <3> QED BY <1>5, <2>6, <3>1, <3>3
  <2> QED BY <2>4, <2>5, <2>6
<1> QED BY <1>6, <1>7

\* The steps of Build's recursion, over the first n looks.
Cutting(boxes, n, f) ==
  f = [t \in 0 .. n |-> IF t = 0 THEN {Opening}
                        ELSE UNION {Looked(cut, boxes, t - 1) : cut \in f[t - 1]}]

\* Build's recursion has its function.
LEMMA CuttingExists ==
  ASSUME NEW boxes, NEW m \in Nat
  PROVE  \E f : Cutting(boxes, m, f)
<1>0. PICK Bad : Bad = {n \in Nat : ~ \E f : Cutting(boxes, n, f)}
  OBVIOUS
<1>1. SUFFICES ASSUME Bad # {} PROVE FALSE
  BY <1>0
<1>2. PICK n \in Bad : \A i \in Bad : n <= i
  <2>1. Bad \in SUBSET Nat
    BY <1>0
  <2> QED BY <1>1, <2>1, Smallest
<1>3. CASE n = 0
  <2>1. PICK f : f = [t \in 0 .. 0 |-> {Opening}]
    OBVIOUS
  <2>2. f = [t \in 0 .. 0 |-> f[t]]
    BY <2>1
  <2>3. ASSUME NEW t \in 0 .. 0
        PROVE  f[t] = IF t = 0 THEN {Opening}
                      ELSE UNION {Looked(cut, boxes, t - 1) : cut \in f[t - 1]}
    BY <2>1
  <2>4. f = [t \in 0 .. 0 |-> IF t = 0 THEN {Opening}
                              ELSE UNION {Looked(cut, boxes, t - 1) : cut \in f[t - 1]}]
    BY <2>2, <2>3, Zenon
  <2>5. Cutting(boxes, 0, f)
    BY <2>4 DEF Cutting
  <2> QED BY <1>0, <1>2, <1>3, <2>5
<1>4. CASE n # 0
  <2>1. n \in Nat /\ n - 1 \in Nat /\ n - 1 \notin Bad
    BY <1>0, <1>2, <1>4
  <2>2. PICK f : Cutting(boxes, n - 1, f)
    BY <1>0, <2>1
  <2>3. \A t \in 0 .. n - 1 :
          f[t] = IF t = 0 THEN {Opening}
                 ELSE UNION {Looked(cut, boxes, t - 1) : cut \in f[t - 1]}
    BY <2>2, Zenon DEF Cutting
  <2>4. PICK top : top = UNION {Looked(cut, boxes, n - 1) : cut \in f[n - 1]}
    OBVIOUS
  <2>5. PICK g : g = [t \in 0 .. n |-> IF t = n THEN top ELSE f[t]]
    OBVIOUS
  <2>6. \A t \in 0 .. n : g[t] = IF t = n THEN top ELSE f[t]
    BY <2>5
  <2>7. g = [t \in 0 .. n |-> g[t]]
    BY <2>5
  <2>8. ASSUME NEW t \in 0 .. n
        PROVE  g[t] = IF t = 0 THEN {Opening}
                      ELSE UNION {Looked(cut, boxes, t - 1) : cut \in g[t - 1]}
    <3>1. CASE t = 0
      <4>1. 0 \in 0 .. n - 1 /\ 0 # n
        BY <1>4, <2>1
      <4>2. f[0] = {Opening}
        BY <2>3, <4>1
      <4> QED BY <2>6, <3>1, <4>1, <4>2
    <3>2. CASE t # 0
      <4>1. t - 1 \in 0 .. n /\ t - 1 # n
        BY <3>2, <2>1
      <4>2. g[t - 1] = f[t - 1]
        BY <2>6, <4>1
      <4>3. CASE t = n
        <5>1. g[t] = top
          BY <2>6, <4>3
        <5> QED BY <2>4, <3>2, <4>2, <4>3, <5>1
      <4>4. CASE t # n
        <5>1. t \in 0 .. n - 1
          BY <4>4, <2>1
        <5>2. g[t] = f[t]
          BY <2>6, <4>4
        <5>3. f[t] = UNION {Looked(cut, boxes, t - 1) : cut \in f[t - 1]}
          BY <2>3, <3>2, <5>1
        <5> QED BY <3>2, <4>2, <5>2, <5>3
      <4> QED BY <4>3, <4>4
    <3> QED BY <3>1, <3>2
  <2>9. g = [t \in 0 .. n |-> IF t = 0 THEN {Opening}
                              ELSE UNION {Looked(cut, boxes, t - 1) : cut \in g[t - 1]}]
    BY <2>7, <2>8, Zenon
  <2>10. Cutting(boxes, n, g)
    BY <2>9 DEF Cutting
  <2> QED BY <1>0, <1>2, <2>1, <2>10
<1> QED BY <1>3, <1>4

\* All cuts of a look are sound.
AllSound(boxes, cuts, t) == \A cut \in cuts : CutInv(boxes, cut, t)

\* Every edit comes from a cut after the last look.
LEMMA BuildIs ==
  ASSUME NEW boxes \in Seq(Sample), NEW end \in Nat, NEW segs \in Build(boxes, end)
  PROVE  \E cut : CutInv(boxes, cut, end) /\ segs = Emitted(cut, end)
<1>1. PICK f : f = CHOOSE h : Cutting(boxes, end, h)
  OBVIOUS
<1>2. Cutting(boxes, end, f)
  BY <1>1, CuttingExists
<1>3. Build(boxes, end) = {Emitted(cut, end) : cut \in f[end]}
  BY <1>1, Zenon DEF Build, Cutting
<1>4. \A t \in 0 .. end : f[t] = IF t = 0 THEN {Opening}
                                 ELSE UNION {Looked(cut, boxes, t - 1) : cut \in f[t - 1]}
  BY <1>2, Zenon DEF Cutting
<1>5. PICK Bad : Bad = {t \in Nat : t <= end /\ ~AllSound(boxes, f[t], t)}
  OBVIOUS
<1>6. ASSUME Bad # {} PROVE FALSE
  <2>1. PICK n \in Bad : \A i \in Bad : n <= i
    <3>1. Bad \in SUBSET Nat
      BY <1>5
    <3> QED BY <1>6, <3>1, Smallest
  <2>2. CASE n = 0
    <3>1. f[0] = {Opening}
      <4>1. 0 \in 0 .. end
        OBVIOUS
      <4>2. f[0] = IF 0 = 0 THEN {Opening}
                   ELSE UNION {Looked(cut, boxes, 0 - 1) : cut \in f[0 - 1]}
        BY <1>4, <4>1, Zenon
      <4> QED BY <4>2
    <3>2. Opening \in Cut /\ Opening.segs = <<>> /\ Opening.current = NoCamera /\ Opening.start = 0
      BY DEF Opening, Cut
    <3>3. Row(boxes, <<>>)
      <4>1. <<>> \in Seq(Shot) /\ Len(<<>>) = 0
        OBVIOUS
      <4> QED BY <4>1 DEF Row
    <3>4. NoneBefore(boxes, 0)
      BY DEF NoneBefore
    <3>5. CutInv(boxes, Opening, 0)
      BY <3>2, <3>3, <3>4 DEF CutInv
    <3> QED BY <1>5, <2>1, <2>2, <3>1, <3>5 DEF AllSound
  <2>3. CASE n # 0
    <3>1. /\ n \in 0 .. end /\ n - 1 \in Nat /\ n - 1 <= end /\ n - 1 \notin Bad
          /\ n \in Nat /\ (n - 1) + 1 = n
      BY <1>5, <2>1, <2>3
    <3>2. AllSound(boxes, f[n - 1], n - 1)
      BY <1>5, <3>1
    <3>3. f[n] = UNION {Looked(cut, boxes, n - 1) : cut \in f[n - 1]}
      BY <1>4, <2>3, <3>1
    <3>4. ASSUME NEW next \in f[n] PROVE CutInv(boxes, next, n)
      <4>1. PICK cut \in f[n - 1] : next \in Looked(cut, boxes, n - 1)
        BY <3>3
      <4>2. CutInv(boxes, cut, n - 1)
        BY <3>2 DEF AllSound
      <4>3. PICK k \in Nat : k = n - 1 /\ k + 1 = n
        BY <3>1
      <4>4. CutInv(boxes, next, k + 1)
        BY <4>1, <4>2, <4>3, LookKeeps
      <4> QED BY <4>3, <4>4
    <3> QED BY <1>5, <2>1, <3>4 DEF AllSound
  <2> QED BY <2>2, <2>3
<1>7. AllSound(boxes, f[end], end)
  BY <1>5, <1>6
<1> QED BY <1>3, <1>7 DEF AllSound

\* The edit that emit makes of the last cut.
LEMMA EditIs ==
  ASSUME NEW boxes \in Seq(Sample), NEW end \in Nat, NEW segs \in Build(boxes, end)
  PROVE  Tiles(boxes, end, segs) /\ Follows(boxes, end, segs)
<1>1. PICK cut : CutInv(boxes, cut, end) /\ segs = Emitted(cut, end)
  BY BuildIs
<1>2. CASE cut.current = NoCamera
  <2>1. segs = <<>> /\ NoneBefore(boxes, end)
    BY <1>1, <1>2 DEF CutInv, Emitted
  <2>2. Len(segs) = 0 /\ DOMAIN segs = {}
    BY <2>1
  <2>3. ~ \E t \in 0 .. end - 1 : Sighted(boxes, t)
    BY <2>1 DEF NoneBefore
  <2> QED BY <2>1, <2>2, <2>3 DEF Tiles, Follows
<1>3. CASE cut.current # NoCamera
  <2>2. Row(boxes, segs) /\ segs # <<>> /\ Len(segs) \in Nat /\ segs[Len(segs)].e = end
    BY <1>1, <1>3, EmitEnds
  <2>4. \E t \in 0 .. end - 1 : Sighted(boxes, t)
    BY <1>1, <1>3 DEF CutInv, OnShow
  <2>5. Tiles(boxes, end, segs)
    <3>1. segs[1].s = 0 /\ Last(segs).e = end
      BY <2>2 DEF Row, Last
    <3>2. \A i \in 1 .. Len(segs) - 1 : HandsOver(segs[i], segs[i + 1])
      BY <2>2 DEF Row
    <3> QED BY <2>2, <2>4, <3>1, <3>2 DEF Tiles, HandsOver
  <2>6. Follows(boxes, end, segs)
    <3>1. segs \in Seq(Shot)
      BY <2>2 DEF Row
    <3>2. \A i \in DOMAIN segs : NotOutdone(boxes, segs[i].cam, segs[i].s, segs[i].e)
      BY <2>2, <3>1, SMTT(30) DEF Row
    <3> QED BY <3>2 DEF Follows, NotOutdone
  <2> QED BY <2>5, <2>6
<1> QED BY <1>2, <1>3

------------------------------------------------------------------------------
(***************************************************************************)
(* The questions asked.                                                    *)
(***************************************************************************)
EditQuestions == [about : {"edit"}, boxes : Evidence]
CallerQuestions == [about : {"caller"}, peer : Peers, chain : Chains, proxies : Nets]
FileQuestions == [about : {"file"}, file : Files]

\* Every question is well-formed, and an answer is the answer to it.
QuestionsInv ==
  /\ question.about = "edit" =>
       /\ question \in EditQuestions
       /\ answer # <<>> => \E segs \in Build(question.boxes, Clip) : answer = <<segs>>
  /\ question.about = "caller" =>
       /\ question \in CallerQuestions
       /\ answer # <<>> => answer = <<Caller(question.peer, question.chain, question.proxies)>>
  /\ question.about = "file" =>
       /\ question \in FileQuestions
       /\ answer # <<>> => answer = <<Filled(question.file)>>

\* An answer is the one the code gives to its question.
LEMMA QuestionsAnswered == QuestionsSpec => []QuestionsInv
<1>1. AskNothing \/ Ask => QuestionsInv
  BY DEF AskNothing, Ask, Nothing, QuestionsInv, EditQuestions, CallerQuestions, FileQuestions
<1>2. QuestionsInv /\ [Answer]_questionVars => QuestionsInv'
  <2> SUFFICES ASSUME QuestionsInv, [Answer]_questionVars PROVE QuestionsInv'
    OBVIOUS
  <2>1. CASE AnswerEdit
    BY <2>1 DEF AnswerEdit, Unanswered, QuestionsInv
  <2>2. CASE AnswerCaller
    BY <2>2 DEF AnswerCaller, Unanswered, QuestionsInv
  <2>3. CASE AnswerFile
    BY <2>3 DEF AnswerFile, Unanswered, QuestionsInv
  <2>4. CASE UNCHANGED questionVars
    BY <2>4 DEF questionVars, QuestionsInv
  <2> QED BY <2>1, <2>2, <2>3, <2>4 DEF Answer
<1> QED BY <1>1, <1>2, PTL DEF QuestionsSpec

\* house.go Caller, Allowed, ServeHTTP: for chains of any length and any set of
\* proxies, the caller is the rightmost address that is none of them, whatever a
\* client puts ahead of it, and no other caller reaches a page.
THEOREM CallerIsAlwaysLastStranger == QuestionsSpec => []CallerIsLastStranger
<1>1. QuestionsInv => CallerIsLastStranger
  <2> SUFFICES ASSUME QuestionsInv, question.about = "caller", answer # <<>>
               PROVE  CallerIsLastStranger
    BY DEF CallerIsLastStranger, Answered
  <2> DEFINE peer == question.peer
             chain == question.chain
             proxies == question.proxies
  <2>1. /\ chain \in Chains /\ chain \in Seq(Peers) /\ Chains \subseteq Seq(Peers)
        /\ answer = <<Caller(peer, chain, proxies)>>
    BY QuestionsAssumption DEF QuestionsInv, CallerQuestions
  <2> HIDE DEF peer, chain, proxies
  <2>2. answer[1] = Caller(peer, chain, proxies) /\ answer[1] = LastStranger(peer, chain, proxies)
    BY <2>1, CallerIsLast
  <2>3. ASSUME NEW k \in DOMAIN chain, chain[k] \notin proxies, NEW forged \in Chains
        PROVE  Caller(peer, forged \o chain, proxies) = answer[1]
    <3>1. forged \in Seq(Peers) /\ forged \o chain \in Seq(Peers)
      BY <2>1
    <3>2. Caller(peer, forged \o chain, proxies) = LastStranger(peer, forged \o chain, proxies)
      BY <3>1, CallerIsLast
    <3>3. LastStranger(peer, forged \o chain, proxies) = LastStranger(peer, chain, proxies)
      BY <2>1, <2>3, <3>1, ForgeryIsIgnored
    <3> QED BY <2>2, <3>2, <3>3
  <2>4. ASSUME NEW allow \in Nets, NEW area \in {"admin", "event", "stitch", "list"},
               NEW method \in {"GET", "POST"}
        PROVE  Route(Allowed(peer, chain, allow, proxies), area, method) # "not found"
                 <=> answer[1] \in allow
    <3>1. Allowed(peer, chain, allow, proxies) <=> answer[1] \in allow
      <4>1. NoAddress \notin allow
        BY QuestionsAssumption
      <4> QED BY <2>2, <4>1 DEF Allowed
    <3>2. Route(TRUE, area, method) # "not found" /\ Route(FALSE, area, method) = "not found"
      <4>1. CASE area = "admin"
        BY <4>1 DEF Route
      <4>2. CASE area # "admin" /\ method \notin {"GET", "HEAD"}
        BY <4>2 DEF Route
      <4>3. CASE area # "admin" /\ method \in {"GET", "HEAD"}
        BY <4>3 DEF Route
      <4> QED BY <4>1, <4>2, <4>3
    <3>3. Allowed(peer, chain, allow, proxies) \in BOOLEAN
      BY DEF Allowed
    <3> QED BY <3>1, <3>2, <3>3
  <2> QED BY <2>2, <2>3, <2>4 DEF CallerIsLastStranger, peer, chain, proxies
<1> QED BY <1>1, QuestionsAnswered, PTL

\* config.go applyDefaults: for every file, filling in the defaults neither saves
\* nor spoils it, doing it again changes nothing, and what is accepted can be
\* run with.
THEOREM FilledIsAlwaysAccepted == QuestionsSpec => []FilledIsAccepted
<1>1. QuestionsInv => FilledIsAccepted
  <2> SUFFICES ASSUME QuestionsInv, question.about = "file", answer # <<>>
               PROVE  FilledIsAccepted
    BY DEF FilledIsAccepted, Answered
  <2>1. question.file \in File /\ answer[1] = Filled(question.file)
    BY QuestionsAssumption DEF QuestionsInv, FileQuestions
  <2> QED BY <2>1, FillingIsHarmless DEF FilledIsAccepted
<1> QED BY <1>1, QuestionsAnswered, PTL

\* The edit answered for an event is one that Build may return.
LEMMA EditAnswered ==
  ASSUME QuestionsInv, question.about = "edit", answer # <<>>
  PROVE  Tiles(question.boxes, Clip, answer[1]) /\ Follows(question.boxes, Clip, answer[1])
<1>1. PICK boxes : boxes = question.boxes
  OBVIOUS
<1>2. PICK segs \in Build(boxes, Clip) : answer = <<segs>>
  BY <1>1 DEF QuestionsInv
<1>3. boxes \in Evidence
  BY <1>1 DEF QuestionsInv, EditQuestions
<1>4. boxes \in Seq(Sample) /\ Clip \in Nat
  BY <1>3, QuestionsAssumption
<1>5. Tiles(boxes, Clip, segs) /\ Follows(boxes, Clip, segs)
  BY <1>2, <1>4, EditIs
<1>6. answer[1] = segs
  BY <1>2
<1> QED BY <1>1, <1>5, <1>6

\* edl.go Build, emit: for evidence of any length, a clip of any length and any
\* set of cameras, the edit covers the clip without a gap or an overlap, changes
\* camera at every cut and never before a shot has stood for edlMinShot.
THEOREM EditAlwaysTiles == QuestionsSpec => []EditTiles
<1>1. QuestionsInv => EditTiles
  BY EditAnswered DEF EditTiles, Answered
<1> QED BY <1>1, QuestionsAnswered, PTL

\* edl.go Build: for all evidence, a shot that has settled is on a camera no
\* other outdoes by edlAdvantage, and on no blind one while another sees.
THEOREM EditAlwaysFollows == QuestionsSpec => []EditFollows
<1>1. QuestionsInv => EditFollows
  BY EditAnswered DEF EditFollows, Answered
<1> QED BY <1>1, QuestionsAnswered, PTL
==============================================================================
