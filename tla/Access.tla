-------------------------------- MODULE Access --------------------------------
(***************************************************************************)
(* Who gets in: the gRPC interceptors and enrollment calls of              *)
(* internal/server/auth.go and the admin pages of internal/house/admin.go, *)
(* over the registry (module Registry).                                    *)
(*                                                                         *)
(* A request runs in its own goroutine and takes one step per lock it      *)
(* takes, the registry's or the admin state's: what it checked under one   *)
(* may have changed before the next. Requests that only take one lock      *)
(* (minting a challenge, enrolling, logging out) are one action.           *)
(*                                                                         *)
(* A session or a challenge is a model value drawn from "fresh"; both live *)
(* in memory only, and lapse in steps of their own. A request that fails   *)
(* before it takes a lock (a malformed body, an unconfigured admin area)   *)
(* changes nothing and is left out.                                        *)
(***************************************************************************)
EXTENDS Registry

CONSTANTS
  Sessions,    \* admin session cookies
  Challenges,  \* ceremony challenges
  Reqs,        \* requests that may be in progress
  Worlds,      \* the file, live session and random supply a behaviour starts from
  None

ASSUME AccessAssumption ==
  /\ None \notin Tokens
  /\ \A w \in Worlds :
       /\ w.file \in Files /\ w.sessions \subseteq Sessions
       /\ w.fresh \subseteq Tokens \cup Secrets \cup Sessions \cup Challenges
       /\ \A t \in w.fresh \cap Tokens : w.file.devices[t] = "none"

VARIABLES
  sessions,    \* adminState.sessions: cookie -> "none", "live" or "lapsed"
  challenges,  \* adminState.challenges: challenge -> its purpose, "lapsed" or "none"
  req,         \* request -> where it is and what it carries
  reported,    \* a passkey registration has been reported successful
  earned       \* challenge -> how many ceremonies it has completed

accessVars == <<sessions, challenges, req, reported, earned>>
vars == <<devices, passkeys, file, pending, lapsed, stale, fresh, issued, bought,
          sessions, challenges, req, reported, earned>>

Idle == [op |-> "none", at |-> "idle", who |-> None, what |-> None, chal |-> None]

\* What a request carries, by what it is and where.
Calling ==
  [op : {"call", "forget"}, at : {"auth"}, who : Tokens, what : {None}, chal : {None}]
  \cup [op : {"call", "forget"}, at : {"serve"}, who : Tokens \cup {None},
        what : {None}, chal : {None}]

Registering ==
  [op : {"register"}, at : {"session"}, who : Sessions, what : Creds, chal : Challenges]
  \cup [op : {"register"}, at : {"take", "add"}, who : Sessions \cup {None},
        what : Creds, chal : Challenges]

LoggingIn ==
  [op : {"login"}, at : {"take", "count", "open"}, who : {None}, what : Creds, chal : Challenges]

Administering ==
  [op : {"mint"}, at : {"session", "do"}, who : Sessions, what : {None}, chal : {None}]
  \cup [op : {"remove"}, at : {"session", "do"}, who : Sessions, what : Creds, chal : {None}]
  \cup [op : {"revoke"}, at : {"session", "do"}, who : Sessions, what : Tokens, chal : {None}]

Requests == {Idle} \cup Calling \cup Registering \cup LoggingIn \cup Administering

AccessTypeOK ==
  /\ sessions \in [Sessions -> {"none", "live", "lapsed"}]
  /\ challenges \in [Challenges -> {"none", "register", "login", "lapsed"}]
  /\ req \in [Reqs -> Requests]
  /\ reported \in BOOLEAN
  /\ earned \in [Challenges -> Nat]

\* The registry and the admin state keep to their types: the secrets are in
\* their order, the lapsed ones in front, and a request has what its next step
\* needs (devices.go, auth.go, admin.go).
TypeOK == RegistryTypeOK /\ fresh \subseteq (Tokens \cup Secrets \cup Sessions \cup Challenges)
          /\ AccessTypeOK

Init ==
  \E w \in Worlds :
    /\ RegistryInit(w.file, w.fresh)
    /\ sessions = [s \in Sessions |-> IF s \in w.sessions THEN "live" ELSE "none"]
    /\ challenges = [c \in Challenges |-> "none"]
    /\ req = [r \in Reqs |-> Idle]
    /\ reported = (w.file.passkeys # {})
    /\ earned = [c \in Challenges |-> 0]

At(r, op, at) == req[r].op = op /\ req[r].at = at
Goto(r, at) == req' = [req EXCEPT ![r].at = at]
Done(r) == req' = [req EXCEPT ![r] = Idle]

Begin(r, op, at, who, what, chal) ==
  /\ req[r] = Idle
  /\ req' = [req EXCEPT ![r] = [op |-> op, at |-> at, who |-> who, what |-> what, chal |-> chal]]

------------------------------------------------------------------------------
(***************************************************************************)
(* gRPC calls.                                                             *)
(***************************************************************************)
\* authorize's first look: unarmed, every call goes on to its handler.
BeginCall(r, op, t) ==
  /\ Armed => t # None
  /\ Begin(r, op, IF Armed THEN "auth" ELSE "serve", t, None, None)
  /\ UNCHANGED <<registryVars, sessions, challenges, reported, earned>>

\* authorize's second look, in another critical section.
Authorized(r, ok) ==
  /\ req[r].at = "auth"
  /\ Authenticate(req[r].who, ok)
  /\ Goto(r, "serve")
  /\ UNCHANGED <<sessions, challenges, reported, earned>>

Unauthorized(r) ==
  /\ req[r].at = "auth"
  /\ devices[req[r].who] # "live"
  /\ Done(r)
  /\ UNCHANGED <<registryVars, sessions, challenges, reported, earned>>

\* Forget's handler; one that finds nothing to revoke, or whose body does not
\* name the token, ends like any other call.
Forget(r, ok) ==
  /\ At(r, "forget", "serve") /\ req[r].who # None
  /\ Revoke(req[r].who, ok)
  /\ Done(r)
  /\ UNCHANGED <<sessions, challenges, reported, earned>>

Served(r) ==
  /\ req[r].at = "serve"
  /\ Done(r)
  /\ UNCHANGED <<registryVars, sessions, challenges, reported, earned>>

\* The Enroll call.
EnrollCall(s, ok) ==
  /\ \E t \in Tokens : Enroll(s, t, ok)
  /\ UNCHANGED accessVars

EnrollCallRefused(s) == EnrollRefused(s) /\ UNCHANGED accessVars

------------------------------------------------------------------------------
(***************************************************************************)
(* Ceremonies.                                                             *)
(***************************************************************************)
\* adminChallenge: the lapsed ones are swept on the way.
MintChallenge(c, purpose) ==
  /\ c \in fresh
  /\ fresh' = fresh \ {c}
  /\ challenges' = [d \in Challenges |->
       IF d = c THEN purpose ELSE IF challenges[d] = "lapsed" THEN "none" ELSE challenges[d]]
  /\ UNCHANGED <<devices, passkeys, file, pending, lapsed, stale, issued, bought,
                 sessions, req, reported, earned>>

\* takeChallenge: gone whether or not it was live and minted for this.
Take(r) == challenges' = [challenges EXCEPT ![req[r].chal] = "none"]

\* adminRegister's first look: open while no passkey exists, else to a session.
BeginRegister(r, s, c, chal) ==
  /\ HasPasskeys => s # None
  /\ Begin(r, "register", IF HasPasskeys THEN "session" ELSE "take", s, c, chal)
  /\ UNCHANGED <<registryVars, sessions, challenges, reported, earned>>

\* adminLogin's: the credential must be registered.
BeginLogin(r, c, chal) ==
  /\ c \in passkeys
  /\ Begin(r, "login", "take", None, c, chal)
  /\ UNCHANGED <<registryVars, sessions, challenges, reported, earned>>

\* The challenge is live and of this purpose, and the ceremony verifies.
TakeChallenge(r) ==
  /\ req[r].at = "take" /\ challenges[req[r].chal] = req[r].op
  /\ Take(r)
  /\ Goto(r, IF req[r].op = "register" THEN "add" ELSE "count")
  /\ UNCHANGED <<registryVars, sessions, reported, earned>>

\* It is not, or the ceremony does not verify.
CeremonyFails(r) ==
  /\ req[r].at = "take"
  /\ Take(r)
  /\ Done(r)
  /\ UNCHANGED <<registryVars, sessions, reported, earned>>

FinishRegister(r, ok) ==
  /\ At(r, "register", "add")
  /\ AddPasskey(req[r].what, ok)
  /\ reported' = (reported \/ ok)
  /\ earned' = [earned EXCEPT ![req[r].chal] = @ + 1]
  /\ Done(r)
  /\ UNCHANGED <<sessions, challenges>>

\* The credential is there already.
RegisterAgain(r) ==
  /\ At(r, "register", "add") /\ req[r].what \in passkeys
  /\ Done(r)
  /\ UNCHANGED <<registryVars, sessions, challenges, reported, earned>>

CountLogin(r, ok) ==
  /\ At(r, "login", "count")
  /\ SetPasskeySignCount(req[r].what, ok)
  /\ Goto(r, "open")
  /\ UNCHANGED <<sessions, challenges, reported, earned>>

OpenSession(r, s) ==
  /\ At(r, "login", "open") /\ s \in fresh
  /\ fresh' = fresh \ {s}
  /\ sessions' = [sessions EXCEPT ![s] = "live"]
  /\ earned' = [earned EXCEPT ![req[r].chal] = @ + 1]
  /\ Done(r)
  /\ UNCHANGED <<devices, passkeys, file, pending, lapsed, stale, issued, bought,
                 challenges, reported>>

------------------------------------------------------------------------------
(***************************************************************************)
(* Inside a session.                                                       *)
(***************************************************************************)
BeginAdmin(r, op, s, what) ==
  /\ Begin(r, op, "session", s, what, None)
  /\ UNCHANGED <<registryVars, sessions, challenges, reported, earned>>

\* authed: a lapsed session is dropped where it is met, a live one slides.
Authed(r) ==
  /\ req[r].at = "session" /\ sessions[req[r].who] = "live"
  /\ Goto(r, IF req[r].op = "register" THEN "take" ELSE "do")
  /\ UNCHANGED <<registryVars, sessions, challenges, reported, earned>>

NotAuthed(r) ==
  /\ req[r].at = "session" /\ sessions[req[r].who] # "live"
  /\ sessions' = [sessions EXCEPT ![req[r].who] = "none"]
  /\ Done(r)
  /\ UNCHANGED <<registryVars, challenges, reported, earned>>

DoMint(r) ==
  /\ At(r, "mint", "do")
  /\ \E s \in Secrets : MintEnrollment(s)
  /\ Done(r)
  /\ UNCHANGED <<sessions, challenges, reported, earned>>

DoRemove(r, ok) ==
  /\ At(r, "remove", "do")
  /\ RemovePasskey(req[r].what, ok)
  /\ Done(r)
  /\ UNCHANGED <<sessions, challenges, reported, earned>>

DoRevoke(r, ok) ==
  /\ At(r, "revoke", "do")
  /\ Revoke(req[r].what, ok)
  /\ Done(r)
  /\ UNCHANGED <<sessions, challenges, reported, earned>>

\* There is nothing to remove or revoke, or it is the last passkey.
DoNothing(r) ==
  /\ \/ At(r, "remove", "do") /\ (req[r].what \notin passkeys \/ passkeys = {req[r].what})
     \/ At(r, "revoke", "do") /\ devices[req[r].what] # "live"
  /\ Done(r)
  /\ UNCHANGED <<registryVars, sessions, challenges, reported, earned>>

Logout(s) ==
  /\ sessions[s] # "none"
  /\ sessions' = [sessions EXCEPT ![s] = "none"]
  /\ UNCHANGED <<registryVars, challenges, req, reported, earned>>

------------------------------------------------------------------------------
(***************************************************************************)
(* Time and crashes.                                                       *)
(***************************************************************************)
Lapse ==
  /\ \/ \E s \in Sessions : sessions[s] = "live"
          /\ sessions' = [sessions EXCEPT ![s] = "lapsed"] /\ UNCHANGED challenges
     \/ \E c \in Challenges : challenges[c] \in {"register", "login"}
          /\ challenges' = [challenges EXCEPT ![c] = "lapsed"] /\ UNCHANGED sessions
  /\ UNCHANGED <<registryVars, req, reported, earned>>

Pass == (SecretLapses \/ GoStale) /\ UNCHANGED accessVars

\* The process dies and starts again: only the file is left.
Restart ==
  /\ Load(file)
  /\ sessions' = [s \in Sessions |-> "none"]
  /\ challenges' = [c \in Challenges |-> "none"]
  /\ req' = [r \in Reqs |-> Idle]
  /\ UNCHANGED <<file, fresh, issued, bought, reported, earned>>

Calls(r) ==
  \/ \E op \in {"call", "forget"}, t \in issued \cup {None} : BeginCall(r, op, t)
  \/ \E ok \in BOOLEAN : Authorized(r, ok) \/ Forget(r, ok)
  \/ Unauthorized(r) \/ Served(r)

Ceremonies(r) ==
  \/ \E s \in Sessions \cup {None}, c \in Creds, chal \in Challenges \ fresh :
       BeginRegister(r, s, c, chal)
  \/ \E c \in Creds, chal \in Challenges \ fresh : BeginLogin(r, c, chal)
  \/ TakeChallenge(r) \/ CeremonyFails(r) \/ RegisterAgain(r)
  \/ \E ok \in BOOLEAN : FinishRegister(r, ok) \/ CountLogin(r, ok)
  \/ \E s \in Sessions : OpenSession(r, s)

Administers(r) ==
  \/ \E s \in Sessions \ fresh :
       \/ BeginAdmin(r, "mint", s, None)
       \/ \E c \in Creds : BeginAdmin(r, "remove", s, c)
       \/ \E t \in Tokens : BeginAdmin(r, "revoke", s, t)
  \/ Authed(r) \/ NotAuthed(r) \/ DoMint(r) \/ DoNothing(r)
  \/ \E ok \in BOOLEAN : DoRemove(r, ok) \/ DoRevoke(r, ok)

Next ==
  \/ \E r \in Reqs : Calls(r) \/ Ceremonies(r) \/ Administers(r)
  \/ \E s \in Secrets : (\E ok \in BOOLEAN : EnrollCall(s, ok)) \/ EnrollCallRefused(s)
  \/ \E c \in Challenges, purpose \in {"register", "login"} : MintChallenge(c, purpose)
  \/ \E s \in Sessions : Logout(s)
  \/ Lapse \/ Pass \/ Restart

Spec == Init /\ [][Next]_vars

------------------------------------------------------------------------------
(***************************************************************************)
(* What this comes to, as module Membership tells it.                      *)
(***************************************************************************)
\* A device that has its token, by what memory and file say of it.
StandingOf(t) ==
  CASE t \notin issued -> "stranger"
    [] t \in issued /\ file.devices[t] = "revoked" -> "expelled"
    [] t \in issued /\ file.devices[t] = "live" /\ devices[t] = "live" -> "member"
    [] t \in issued /\ file.devices[t] = "live" /\ devices[t] = "revoked" -> "suspended"
    [] OTHER -> "forgotten"

Standing == [t \in Tokens |-> StandingOf(t)]

Admitted == [r \in Reqs |-> IF req[r].at = "serve" THEN <<req[r].who>> ELSE <<>>]

Members == INSTANCE Membership WITH standing <- Standing, admitted <- Admitted

------------------------------------------------------------------------------
(***************************************************************************)
(* Properties.                                                             *)
(***************************************************************************)
\* Once a registration has been reported successful, a passkey exists, in
\* memory and on file, whatever is removed, whichever saves fail and however
\* often the process restarts: the bootstrap stays over (AddPasskey,
\* RemovePasskey, save and New against passkeys.go's "the first one closes
\* that door").
DoorStaysShut == reported => passkeys # {} /\ file.passkeys # {}

\* A secret enrolls at most one device and a challenge completes at most one
\* ceremony, however often they are sent again, whichever step fails after
\* they are presented (Enroll, takeChallenge).
OneUse ==
  /\ \A s \in Secrets : bought[s] <= 1
  /\ \A c \in Challenges : earned[c] <= 1

\* The registry and the interceptors do what Membership promises: a device
\* that has its token is never forgotten, and one whose revocation is on file
\* is never let in again, whatever is saved, whichever saves fail, whenever
\* the process dies and whatever was checked under an earlier lock; and no
\* one else is let in while there is a member (Enroll, Authenticate, Revoke,
\* Forget, save and New against authorize).
ImplementsMembership == Members!Spec
==============================================================================
