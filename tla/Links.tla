-------------------------------- MODULE Links --------------------------------
(***************************************************************************)
(* Capability links to media: the keyring of internal/captoken/captoken.go,*)
(* minted and verified by a pool of instances (internal/server/media.go),  *)
(* each with the keys its environment held when it started                 *)
(* (CredentialsFromEnv, mediaSetup), while the operator rotates the key as *)
(* captoken.go says: prior <- current, current <- new, roll the pool, drop *)
(* prior once the lifetime of a link has passed.                           *)
(*                                                                         *)
(* A key is a number, in the order the keys are drawn; its id and its MAC  *)
(* are its own (SHA-256 is taken to be injective), so a link carries the   *)
(* key that signed it.  What the link is for is left out: it is signed with*)
(* the rest.  Time is in whole seconds, the precision of an expiry.        *)
(***************************************************************************)
EXTENDS Integers, FiniteSets

CONSTANTS
  Instances,  \* the servers behind the load balancer
  LinkTTL,    \* links.ttl
  MaxKeys,    \* bound on the keys drawn
  MaxNow      \* bound on the clock

ASSUME LinksAssumption ==
  LinkTTL \in Nat \ {0} /\ MaxKeys \in Nat \ {0} /\ MaxNow \in Nat

VARIABLES
  now,
  wanted,  \* the two keys the operator means the pool to have
  env,     \* CURTILAGE_MEDIA_KEY and CURTILAGE_MEDIA_KEY_PRIOR, as typed
  pool,    \* instance -> its keyring
  rolled,  \* when the last instance came to have the keys wanted
  links    \* the links minted and not yet expired

vars == <<now, wanted, env, pool, rolled, links>>

NoKey == 0      \* unset
BadKey == -1    \* not base64, or shorter than MinKeyLen
Keys == 1..MaxKeys

------------------------------------------------------------------------------
\* No key at all: GetMedia works, no links are minted (mediaSetup's nil keyring).
Off == [current |-> NoKey, prior |-> NoKey]

ParseKey(typed) == typed # BadKey

CredentialsFromEnv(e) ==
  /\ ParseKey(e.current) /\ ParseKey(e.prior)
  /\ e.current = NoKey => e.prior = NoKey

\* New refuses a prior key that is the current one.
New(e) == e.prior # e.current

\* mediaSetup: no ring without a key.
MediaSetup(e) == e.current # NoKey => New(e)

\* The settings a server starts with.
KeysAccepted(e) == CredentialsFromEnv(e) /\ MediaSetup(e)

\* A mutant of Lookup that only knows the key it mints with.
LookupCurrent(ring, key) == key = ring.current

\* lookup: the token names its key, which is the current one or the prior one.
Lookup(ring, key) == key \in {ring.current, ring.prior}

\* Verify: the signature before the expiry.
Verify(ring, link) ==
  IF ~Lookup(ring, link.key) THEN "unknown key"
  ELSE IF now >= link.expires THEN "expired" ELSE "ok"

\* MediaHandler: without a ring there are no links, and any error is a 404.
Opens(ring, link) == ring # Off /\ Verify(ring, link) = "ok"

\* The current key mints; the expiry is signed with the rest.
Minted(ring, expires) == [key |-> ring.current, expires |-> expires]

------------------------------------------------------------------------------
\* CameraLink on some page: the instance's current key, LinkTTL from now.
Mint(i) ==
  /\ pool[i] # Off
  /\ links' = links \cup {Minted(pool[i], now + LinkTTL)}
  /\ UNCHANGED <<now, wanted, env, pool, rolled>>

Rolled(p) == \A i \in Instances : p[i] = wanted

\* What the operator may type instead, which no server starts with.
Slips(w) ==
  {e \in {[w EXCEPT !.current = BadKey], [w EXCEPT !.prior = BadKey],
          [w EXCEPT !.current = NoKey], [w EXCEPT !.prior = w.current]} : ~KeysAccepted(e)}

\* A new key, the one before kept to verify with; one rotation at a time.
Rotate ==
  /\ Rolled(pool) /\ wanted.prior = NoKey /\ wanted.current < MaxKeys
  /\ wanted' = [current |-> wanted.current + 1, prior |-> wanted.current]
  /\ env' \in {wanted'} \cup Slips(wanted')
  /\ UNCHANGED <<now, pool, rolled, links>>

Retype ==
  /\ env # wanted
  /\ env' = wanted
  /\ UNCHANGED <<now, wanted, pool, rolled, links>>

\* An instance restarts with the environment of the day.  One that the settings
\* refuse does not start, and the one it was to replace goes on.
Roll(i) ==
  /\ KeysAccepted(env) /\ pool[i] # env
  /\ pool' = [pool EXCEPT ![i] = env]
  /\ rolled' = IF Rolled(pool') THEN now ELSE rolled
  /\ UNCHANGED <<now, wanted, env, links>>

\* A link's lifetime after the last instance was rolled.
DropPrior ==
  /\ Rolled(pool) /\ wanted.prior # NoKey /\ now >= rolled + LinkTTL
  /\ wanted' = [wanted EXCEPT !.prior = NoKey]
  /\ env' = wanted'
  /\ UNCHANGED <<now, pool, rolled, links>>

\* Expired links are no longer anyone's.
Tick ==
  /\ now < MaxNow
  /\ now' = now + 1
  /\ links' = {l \in links : now' < l.expires}
  /\ UNCHANGED <<wanted, env, pool, rolled>>

------------------------------------------------------------------------------
Init ==
  /\ now = 0 /\ rolled = 0 /\ links = {}
  /\ wanted = Off /\ env = Off /\ pool = [i \in Instances |-> Off]

Next ==
  \/ Rotate \/ Retype \/ DropPrior \/ Tick
  \/ \E i \in Instances : Mint(i) \/ Roll(i)

Spec == Init /\ [][Next]_vars

------------------------------------------------------------------------------
(***************************************************************************)
(* Properties.                                                             *)
(***************************************************************************)
\* captoken.go: "Tokens minted before the roll keep working until the operator
\* drops the prior key -- after the token lifetime has elapsed".  Through any
\* number of rotations, mistyped ones included, an instance refuses an unexpired
\* link for one reason only: it was minted ahead of it, in a roll that has not
\* reached it.
LinksOutliveRoll ==
  \A i \in Instances, l \in links :
    \/ Opens(pool[i], l)
    \/ l.key > pool[i].current /\ pool[i] # wanted
==============================================================================
