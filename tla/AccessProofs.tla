----------------------------- MODULE AccessProofs -----------------------------
(***************************************************************************)
(* Proofs about Access: for every set of tokens, secrets, credentials,     *)
(* sessions, challenges and requests, every bound on the live secrets and  *)
(* every file the process may start from.                                  *)
(***************************************************************************)
EXTENDS Access, SequenceTheorems, TLAPS

------------------------------------------------------------------------------
(***************************************************************************)
(* The secrets: what sweeping, spending and making room keep.              *)
(***************************************************************************)
\* The live secrets of r.pending are a part of it, in its order.
LEMMA SweptType ==
  ASSUME pending \in Seq(Secrets), lapsed \in 0 .. Len(pending)
  PROVE  /\ Swept \in Seq(Secrets)
         /\ Len(Swept) = Len(pending) - lapsed
         /\ \A i \in 1 .. Len(Swept) : Swept[i] = pending[lapsed + i]
<1>1. Len(pending) \in Nat /\ lapsed \in Nat /\ lapsed <= Len(pending)
  OBVIOUS
<1>2. /\ Len(Swept) = Len(pending) - lapsed
      /\ \A i \in 1 .. Len(Swept) : Swept[i] = pending[lapsed + i]
  BY <1>1 DEF Swept
<1>3. Swept \in Seq(Secrets)
  BY <1>1 DEF Swept
<1> QED BY <1>2, <1>3

\* Spending takes one live secret out.
LEMMA SpendType ==
  ASSUME pending \in Seq(Secrets), lapsed \in 0 .. Len(pending), NEW s, Spend(s)
  PROVE  /\ pending' \in Seq(Secrets)
         /\ lapsed' \in 0 .. Len(pending')
<1>1. PICK i \in 1 .. Len(Swept) : pending' = RemoveAt(Swept, i)
  BY DEF Spend
<1>2. Swept \in Seq(Secrets) /\ Len(Swept) \in Nat
  BY SweptType
<1>3. SubSeq(Swept, 1, i - 1) \in Seq(Secrets) /\ SubSeq(Swept, i + 1, Len(Swept)) \in Seq(Secrets)
  BY <1>1, <1>2
<1>4. pending' \in Seq(Secrets)
  BY <1>1, <1>3 DEF RemoveAt
<1>5. lapsed' = 0 /\ Len(pending') \in Nat
  BY <1>4 DEF Spend
<1> QED BY <1>4, <1>5

\* So does minting one, after the oldest made room for it.
LEMMA RoomyType ==
  ASSUME pending \in Seq(Secrets), lapsed \in 0 .. Len(pending), NEW s \in Secrets
  PROVE  Append(Roomy, s) \in Seq(Secrets)
<1>1. Swept \in Seq(Secrets) /\ Len(Swept) \in Nat /\ MaxPending \in Nat /\ MaxPending # 0
  BY SweptType, RegistryAssumption
<1>2. Roomy \in Seq(Secrets)
  BY <1>1 DEF Roomy
<1> QED BY <1>2

------------------------------------------------------------------------------
(***************************************************************************)
(* Type correctness.                                                       *)
(***************************************************************************)
\* What a save leaves in the file is well-formed.
LEMMA SaveType ==
  ASSUME NEW ok, Save(ok), file \in Files, stale \in BOOLEAN,
         devices' \in [Tokens -> DeviceStates], passkeys' \in SUBSET Creds
  PROVE  file' \in Files /\ stale' \in BOOLEAN
BY DEF Save, Files

(***************************************************************************)
(* What a step of Access does to the registry: one of its operations, or a *)
(* restart, or no more than to draw a random number.                       *)
(***************************************************************************)
Reload == Load(file) /\ UNCHANGED <<file, fresh, issued, bought>>

Draw == /\ UNCHANGED <<devices, passkeys, file, pending, lapsed, stale, issued, bought>>
        /\ fresh' \subseteq fresh

Saves(ok) ==
  \/ \E s \in Secrets, t \in Tokens : Enroll(s, t, ok)
  \/ \E t \in Tokens : Authenticate(t, ok) \/ Revoke(t, ok)
  \/ \E c \in Creds : AddPasskey(c, ok) \/ RemovePasskey(c, ok) \/ SetPasskeySignCount(c, ok)

RegistryStep ==
  \/ \E s \in Secrets : MintEnrollment(s) \/ EnrollRefused(s)
  \/ \E ok \in BOOLEAN : Saves(ok)
  \/ SecretLapses \/ GoStale \/ Reload \/ Draw

\* A step of the registry keeps it well-formed, and draws only from "fresh".
LEMMA RegistryStepType ==
  ASSUME RegistryTypeOK, RegistryStep
  PROVE  RegistryTypeOK' /\ fresh' \subseteq fresh
<1> USE DEF RegistryTypeOK
<1>1. ASSUME NEW s \in Secrets, MintEnrollment(s)
      PROVE  RegistryTypeOK' /\ fresh' \subseteq fresh
  <2>1. pending' \in Seq(Secrets) /\ lapsed' = 0
    BY <1>1, RoomyType DEF MintEnrollment
  <2>2. lapsed' \in 0 .. Len(pending')
    BY <2>1
  <2> QED BY <1>1, <2>1, <2>2 DEF MintEnrollment
<1>2. ASSUME NEW s \in Secrets, EnrollRefused(s)
      PROVE  RegistryTypeOK' /\ fresh' \subseteq fresh
  <2>1. pending' \in Seq(Secrets) /\ lapsed' \in 0 .. Len(pending')
    BY <1>2, SweptType DEF EnrollRefused
  <2> QED BY <1>2, <2>1 DEF EnrollRefused
<1>3. ASSUME NEW ok \in BOOLEAN, NEW s \in Secrets, NEW t \in Tokens, Enroll(s, t, ok)
      PROVE  RegistryTypeOK' /\ fresh' \subseteq fresh
  <2>1. pending' \in Seq(Secrets) /\ lapsed' \in 0 .. Len(pending')
    BY <1>3, SpendType DEF Enroll
  <2>2. devices' \in [Tokens -> DeviceStates] /\ passkeys' \in SUBSET Creds
    BY <1>3 DEF Enroll, DeviceStates
  <2>3. file' \in Files /\ stale' \in BOOLEAN
    BY <1>3, <2>2, SaveType DEF Enroll
  <2>4. issued' \in SUBSET Tokens /\ bought' \in [Secrets -> Nat] /\ fresh' \subseteq fresh
    BY <1>3 DEF Enroll
  <2> QED BY <2>1, <2>2, <2>3, <2>4
<1>4. ASSUME NEW ok \in BOOLEAN, NEW t \in Tokens, Authenticate(t, ok) \/ Revoke(t, ok)
      PROVE  RegistryTypeOK' /\ fresh' \subseteq fresh
  <2>1. devices' \in [Tokens -> DeviceStates] /\ passkeys' \in SUBSET Creds
    BY <1>4 DEF Authenticate, Revoke, DeviceStates
  <2>2. file' \in Files /\ stale' \in BOOLEAN
    BY <1>4, <2>1, SaveType DEF Authenticate, Revoke
  <2> QED BY <1>4, <2>1, <2>2 DEF Authenticate, Revoke
<1>5. ASSUME NEW ok \in BOOLEAN, NEW c \in Creds,
             AddPasskey(c, ok) \/ RemovePasskey(c, ok) \/ SetPasskeySignCount(c, ok)
      PROVE  RegistryTypeOK' /\ fresh' \subseteq fresh
  <2>1. devices' \in [Tokens -> DeviceStates] /\ passkeys' \in SUBSET Creds
    BY <1>5 DEF AddPasskey, RemovePasskey, SetPasskeySignCount
  <2>2. file' \in Files /\ stale' \in BOOLEAN
    BY <1>5, <2>1, SaveType DEF AddPasskey, RemovePasskey, SetPasskeySignCount
  <2> QED BY <1>5, <2>1, <2>2 DEF AddPasskey, RemovePasskey, SetPasskeySignCount
<1>6. CASE SecretLapses
  <2>1. pending' \in Seq(Secrets) /\ lapsed' \in 0 .. Len(pending')
    BY <1>6 DEF SecretLapses
  <2> QED BY <1>6, <2>1 DEF SecretLapses
<1>7. CASE GoStale
  BY <1>7 DEF GoStale
<1>8. CASE Reload
  <2>1. pending' \in Seq(Secrets) /\ lapsed' \in 0 .. Len(pending')
    BY <1>8 DEF Reload, Load
  <2> QED BY <1>8, <2>1 DEF Reload, Load, Files
<1>9. CASE Draw
  BY <1>9 DEF Draw
<1> QED BY <1>1, <1>2, <1>3, <1>4, <1>5, <1>6, <1>7, <1>8, <1>9 DEF RegistryStep, Saves

\* A request moves on, ends, or begins, as what it carries allows.
LEMMA RequestType ==
  ASSUME req \in [Reqs -> Requests], NEW r \in Reqs
  PROVE  /\ Done(r) => req' \in [Reqs -> Requests]
         /\ \A op, at, who, what, chal :
              /\ [op |-> op, at |-> at, who |-> who, what |-> what, chal |-> chal] \in Requests
              /\ Begin(r, op, at, who, what, chal)
              => req' \in [Reqs -> Requests]
         /\ \A at : Goto(r, at) /\ [req[r] EXCEPT !.at = at] \in Requests
              => req' \in [Reqs -> Requests]
<1>1. Idle \in Requests
  BY DEF Requests
<1>2. Done(r) => req' \in [Reqs -> Requests]
  BY <1>1 DEF Done
<1>3. ASSUME NEW op, NEW at, NEW who, NEW what, NEW chal,
             [op |-> op, at |-> at, who |-> who, what |-> what, chal |-> chal] \in Requests,
             Begin(r, op, at, who, what, chal)
      PROVE  req' \in [Reqs -> Requests]
  BY <1>3 DEF Begin
<1>4. ASSUME NEW at, Goto(r, at), [req[r] EXCEPT !.at = at] \in Requests
      PROVE  req' \in [Reqs -> Requests]
  BY <1>4 DEF Goto
<1> QED BY <1>2, <1>3, <1>4

\* What a request carries where it is.
LEMMA Carries ==
  ASSUME NEW q \in Requests
  PROVE  /\ q.at = "auth" => q.op \in {"call", "forget"} /\ q.who \in Tokens
         /\ q.at = "serve" => q.op \in {"call", "forget"} /\ q.who \in Tokens \cup {None}
         /\ q.at = "session" => q.op \in {"register", "mint", "remove", "revoke"}
                                /\ q.who \in Sessions
         /\ q.at = "take" => q.op \in {"register", "login"}
         /\ q.op \in {"register", "login"} => q.what \in Creds /\ q.chal \in Challenges
         /\ q.op = "remove" => q.what \in Creds
         /\ q.op = "revoke" => q.what \in Tokens
         /\ q.at \in {"add", "count", "open"} => q.op \in {"register", "login"}
BY DEF Requests, Calling, Registering, LoggingIn, Administering, Idle

\* Where a request may go next.
LEMMA MovesOn ==
  ASSUME NEW q \in Requests
  PROVE  /\ q.at = "auth" => [q EXCEPT !.at = "serve"] \in Requests
         /\ q.at = "take" /\ q.op = "register" => [q EXCEPT !.at = "add"] \in Requests
         /\ q.at = "take" /\ q.op = "login" => [q EXCEPT !.at = "count"] \in Requests
         /\ q.at = "count" => [q EXCEPT !.at = "open"] \in Requests
         /\ q.at = "session" /\ q.op = "register" => [q EXCEPT !.at = "take"] \in Requests
         /\ q.at = "session" /\ q.op # "register" => [q EXCEPT !.at = "do"] \in Requests
<1> USE DEF Calling, Registering, LoggingIn, Administering, Idle
<1>1. CASE q = Idle
  BY <1>1
<1>2. CASE q \in Calling
  BY <1>2 DEF Requests
<1>3. CASE q \in Registering
  BY <1>3 DEF Requests
<1>4. CASE q \in LoggingIn
  BY <1>4 DEF Requests
<1>5. CASE q \in Administering
  BY <1>5 DEF Requests
<1> QED BY <1>1, <1>2, <1>3, <1>4, <1>5 DEF Requests

\* Every step is a step of the registry, and keeps the admin state and the
\* requests well-formed.
LEMMA StepParts ==
  ASSUME TypeOK, Next
  PROVE  RegistryStep /\ AccessTypeOK'
<1> USE DEF TypeOK, AccessTypeOK
<1>1. ASSUME UNCHANGED registryVars PROVE RegistryStep
  BY <1>1 DEF registryVars, RegistryStep, Draw
<1>2. ASSUME NEW r \in Reqs, NEW op \in {"call", "forget"}, NEW t \in issued \cup {None}, BeginCall(r, op, t)
      PROVE  RegistryStep /\ AccessTypeOK'
  <2>1. RegistryStep
    BY <1>2, <1>1 DEF BeginCall
  <2>2. AccessTypeOK'
    BY <1>2, RequestType DEF BeginCall, RegistryTypeOK, Requests, Calling
  <2> QED BY <2>1, <2>2
<1>3. ASSUME NEW r \in Reqs, NEW ok \in BOOLEAN, Authorized(r, ok)
      PROVE  RegistryStep /\ AccessTypeOK'
  <2>1. RegistryStep
    BY <1>3, Carries DEF Authorized, RegistryStep, Saves
  <2>2. AccessTypeOK'
    BY <1>3, RequestType, MovesOn DEF Authorized
  <2> QED BY <2>1, <2>2
<1>4. ASSUME NEW r \in Reqs, Unauthorized(r)
      PROVE  RegistryStep /\ AccessTypeOK'
  <2>1. RegistryStep
    BY <1>4, <1>1 DEF Unauthorized
  <2>2. AccessTypeOK'
    BY <1>4, RequestType DEF Unauthorized
  <2> QED BY <2>1, <2>2
<1>5. ASSUME NEW r \in Reqs, NEW ok \in BOOLEAN, Forget(r, ok)
      PROVE  RegistryStep /\ AccessTypeOK'
  <2>1. RegistryStep
    BY <1>5, Carries DEF Forget, At, RegistryStep, Saves
  <2>2. AccessTypeOK'
    BY <1>5, RequestType DEF Forget
  <2> QED BY <2>1, <2>2
<1>6. ASSUME NEW r \in Reqs, Served(r)
      PROVE  RegistryStep /\ AccessTypeOK'
  <2>1. RegistryStep
    BY <1>6, <1>1 DEF Served
  <2>2. AccessTypeOK'
    BY <1>6, RequestType DEF Served
  <2> QED BY <2>1, <2>2
<1>7. ASSUME NEW r \in Reqs, NEW s \in Sessions \cup {None}, NEW c \in Creds, NEW chal \in Challenges,
             BeginRegister(r, s, c, chal)
      PROVE  RegistryStep /\ AccessTypeOK'
  <2>1. RegistryStep
    BY <1>7, <1>1 DEF BeginRegister
  <2>2. AccessTypeOK'
    BY <1>7, RequestType DEF BeginRegister, Requests, Registering
  <2> QED BY <2>1, <2>2
<1>8. ASSUME NEW r \in Reqs, NEW c \in Creds, NEW chal \in Challenges, BeginLogin(r, c, chal)
      PROVE  RegistryStep /\ AccessTypeOK'
  <2>1. RegistryStep
    BY <1>8, <1>1 DEF BeginLogin
  <2>2. AccessTypeOK'
    BY <1>8, RequestType DEF BeginLogin, Requests, LoggingIn
  <2> QED BY <2>1, <2>2
<1>9. ASSUME NEW r \in Reqs, TakeChallenge(r)
      PROVE  RegistryStep /\ AccessTypeOK'
  <2>1. RegistryStep
    BY <1>9, <1>1 DEF TakeChallenge
  <2>2. AccessTypeOK'
    BY <1>9, RequestType, Carries, MovesOn DEF TakeChallenge, Take
  <2> QED BY <2>1, <2>2
<1>10. ASSUME NEW r \in Reqs, CeremonyFails(r)
      PROVE  RegistryStep /\ AccessTypeOK'
  <2>1. RegistryStep
    BY <1>10, <1>1 DEF CeremonyFails
  <2>2. AccessTypeOK'
    BY <1>10, RequestType, Carries DEF CeremonyFails, Take
  <2> QED BY <2>1, <2>2
<1>11. ASSUME NEW r \in Reqs, NEW ok \in BOOLEAN, FinishRegister(r, ok)
      PROVE  RegistryStep /\ AccessTypeOK'
  <2>1. RegistryStep
    BY <1>11, Carries DEF FinishRegister, At, RegistryStep, Saves
  <2>2. AccessTypeOK'
    BY <1>11, RequestType, Carries DEF FinishRegister, At
  <2> QED BY <2>1, <2>2
<1>12. ASSUME NEW r \in Reqs, RegisterAgain(r)
      PROVE  RegistryStep /\ AccessTypeOK'
  <2>1. RegistryStep
    BY <1>12, <1>1 DEF RegisterAgain
  <2>2. AccessTypeOK'
    BY <1>12, RequestType DEF RegisterAgain
  <2> QED BY <2>1, <2>2
<1>13. ASSUME NEW r \in Reqs, NEW ok \in BOOLEAN, CountLogin(r, ok)
      PROVE  RegistryStep /\ AccessTypeOK'
  <2>1. RegistryStep
    BY <1>13, Carries DEF CountLogin, At, RegistryStep, Saves
  <2>2. AccessTypeOK'
    BY <1>13, RequestType, MovesOn DEF CountLogin, At
  <2> QED BY <2>1, <2>2
<1>14. ASSUME NEW r \in Reqs, NEW s \in Sessions, OpenSession(r, s)
      PROVE  RegistryStep /\ AccessTypeOK'
  <2>1. RegistryStep
    BY <1>14 DEF OpenSession, RegistryStep, Draw
  <2>2. AccessTypeOK'
    BY <1>14, RequestType, Carries DEF OpenSession, At
  <2> QED BY <2>1, <2>2
<1>15. ASSUME NEW r \in Reqs, NEW s \in Sessions, NEW op, NEW what,
             <<op, what>> \in ({"mint"} \X {None}) \cup ({"remove"} \X Creds) \cup ({"revoke"} \X Tokens),
             BeginAdmin(r, op, s, what)
      PROVE  RegistryStep /\ AccessTypeOK'
  <2>1. RegistryStep
    BY <1>15, <1>1 DEF BeginAdmin
  <2>2. AccessTypeOK'
    BY <1>15, RequestType DEF BeginAdmin, Requests, Administering
  <2> QED BY <2>1, <2>2
<1>16. ASSUME NEW r \in Reqs, Authed(r)
      PROVE  RegistryStep /\ AccessTypeOK'
  <2>1. RegistryStep
    BY <1>16, <1>1 DEF Authed
  <2>2. AccessTypeOK'
    BY <1>16, RequestType, MovesOn DEF Authed
  <2> QED BY <2>1, <2>2
<1>17. ASSUME NEW r \in Reqs, NotAuthed(r)
      PROVE  RegistryStep /\ AccessTypeOK'
  <2>1. RegistryStep
    BY <1>17, <1>1 DEF NotAuthed
  <2>2. AccessTypeOK'
    BY <1>17, RequestType, Carries DEF NotAuthed
  <2> QED BY <2>1, <2>2
<1>18. ASSUME NEW r \in Reqs, DoMint(r)
      PROVE  RegistryStep /\ AccessTypeOK'
  <2>1. RegistryStep
    BY <1>18 DEF DoMint, RegistryStep
  <2>2. AccessTypeOK'
    BY <1>18, RequestType DEF DoMint
  <2> QED BY <2>1, <2>2
<1>19. ASSUME NEW r \in Reqs, NEW ok \in BOOLEAN, DoRemove(r, ok)
      PROVE  RegistryStep /\ AccessTypeOK'
  <2>1. RegistryStep
    BY <1>19, Carries DEF DoRemove, At, RegistryStep, Saves
  <2>2. AccessTypeOK'
    BY <1>19, RequestType DEF DoRemove
  <2> QED BY <2>1, <2>2
<1>20. ASSUME NEW r \in Reqs, NEW ok \in BOOLEAN, DoRevoke(r, ok)
      PROVE  RegistryStep /\ AccessTypeOK'
  <2>1. RegistryStep
    BY <1>20, Carries DEF DoRevoke, At, RegistryStep, Saves
  <2>2. AccessTypeOK'
    BY <1>20, RequestType DEF DoRevoke
  <2> QED BY <2>1, <2>2
<1>21. ASSUME NEW r \in Reqs, DoNothing(r)
      PROVE  RegistryStep /\ AccessTypeOK'
  <2>1. RegistryStep
    BY <1>21, <1>1 DEF DoNothing
  <2>2. AccessTypeOK'
    BY <1>21, RequestType DEF DoNothing
  <2> QED BY <2>1, <2>2
<1>22. ASSUME NEW s \in Secrets, NEW ok \in BOOLEAN, EnrollCall(s, ok)
      PROVE  RegistryStep /\ AccessTypeOK'
  <2>1. RegistryStep
    BY <1>22 DEF EnrollCall, RegistryStep, Saves
  <2>2. AccessTypeOK'
    BY <1>22 DEF EnrollCall, accessVars
  <2> QED BY <2>1, <2>2
<1>23. ASSUME NEW s \in Secrets, EnrollCallRefused(s)
      PROVE  RegistryStep /\ AccessTypeOK'
  <2>1. RegistryStep
    BY <1>23 DEF EnrollCallRefused, RegistryStep
  <2>2. AccessTypeOK'
    BY <1>23 DEF EnrollCallRefused, accessVars
  <2> QED BY <2>1, <2>2
<1>24. ASSUME NEW c \in Challenges, NEW purpose \in {"register", "login"},
             MintChallenge(c, purpose)
      PROVE  RegistryStep /\ AccessTypeOK'
  <2>1. RegistryStep
    BY <1>24 DEF MintChallenge, RegistryStep, Draw
  <2>2. AccessTypeOK'
    BY <1>24 DEF MintChallenge
  <2> QED BY <2>1, <2>2
<1>25. ASSUME NEW s \in Sessions, Logout(s)
      PROVE  RegistryStep /\ AccessTypeOK'
  <2>1. RegistryStep
    BY <1>25, <1>1 DEF Logout
  <2>2. AccessTypeOK'
    BY <1>25 DEF Logout
  <2> QED BY <2>1, <2>2
<1>26. ASSUME Lapse
      PROVE  RegistryStep /\ AccessTypeOK'
  <2>1. RegistryStep
    BY <1>26, <1>1 DEF Lapse
  <2>2. AccessTypeOK'
    BY <1>26 DEF Lapse
  <2> QED BY <2>1, <2>2
<1>27. ASSUME Pass
      PROVE  RegistryStep /\ AccessTypeOK'
  <2>1. RegistryStep
    BY <1>27 DEF Pass, RegistryStep
  <2>2. AccessTypeOK'
    BY <1>27 DEF Pass, accessVars
  <2> QED BY <2>1, <2>2
<1>28. ASSUME Restart
      PROVE  RegistryStep /\ AccessTypeOK'
  <2>1. RegistryStep
    BY <1>28 DEF Restart, RegistryStep, Reload
  <2>2. AccessTypeOK'
    BY <1>28 DEF Restart, Requests
  <2> QED BY <2>1, <2>2
<1>29. ASSUME NEW r \in Reqs, Calls(r) PROVE RegistryStep /\ AccessTypeOK'
  BY <1>29, <1>2, <1>3, <1>4, <1>5, <1>6 DEF Calls
<1>30. ASSUME NEW r \in Reqs, Ceremonies(r) PROVE RegistryStep /\ AccessTypeOK'
  BY <1>30, <1>7, <1>8, <1>9, <1>10, <1>11, <1>12, <1>13, <1>14 DEF Ceremonies
<1>31. ASSUME NEW r \in Reqs, Administers(r) PROVE RegistryStep /\ AccessTypeOK'
  BY <1>31, <1>15, <1>16, <1>17, <1>18, <1>19, <1>20, <1>21 DEF Administers
<1> QED BY <1>29, <1>30, <1>31, <1>22, <1>23, <1>24, <1>25, <1>26, <1>27, <1>28 DEF Next

\* The registry and the admin state keep to their types (devices.go, auth.go,
\* admin.go).
THEOREM TypeCorrect == Spec => []TypeOK
<1>1. Init => TypeOK
  <2> SUFFICES ASSUME Init PROVE TypeOK
    OBVIOUS
  <2>1. PICK w \in Worlds :
          /\ RegistryInit(w.file, w.fresh)
          /\ sessions = [s \in Sessions |-> IF s \in w.sessions THEN "live" ELSE "none"]
          /\ reported = (w.file.passkeys # {})
    BY DEF Init
  <2>2. RegistryTypeOK
    <3>1. pending \in Seq(Secrets) /\ lapsed \in 0 .. Len(pending)
      BY <2>1 DEF RegistryInit
    <3> QED BY <2>1, <3>1, AccessAssumption DEF RegistryInit, RegistryTypeOK, Files
  <2>3. fresh \subseteq Tokens \cup Secrets \cup Sessions \cup Challenges
    BY <2>1, AccessAssumption DEF RegistryInit
  <2>4. AccessTypeOK
    BY <2>1 DEF Init, AccessTypeOK, Requests
  <2> QED BY <2>2, <2>3, <2>4 DEF TypeOK
<1>2. TypeOK /\ [Next]_vars => TypeOK'
  <2> SUFFICES ASSUME TypeOK, [Next]_vars PROVE TypeOK'
    OBVIOUS
  <2>1. CASE Next
    BY <2>1, StepParts, RegistryStepType DEF TypeOK
  <2>2. CASE UNCHANGED vars
    BY <2>2 DEF vars, TypeOK, RegistryTypeOK, AccessTypeOK
  <2> QED BY <2>1, <2>2
<1> QED BY <1>1, <1>2, PTL DEF Spec

------------------------------------------------------------------------------
(***************************************************************************)
(* The door.                                                               *)
(***************************************************************************)
\* No operation of the registry takes the last passkey out of memory or file.
LEMMA PasskeysStay ==
  ASSUME RegistryTypeOK, RegistryStep, passkeys # {}, file.passkeys # {}
  PROVE  passkeys' # {} /\ file'.passkeys # {}
<1>1. ASSUME NEW ok \in BOOLEAN, Save(ok), passkeys' # {} PROVE file'.passkeys # {}
  BY <1>1 DEF Save
<1>2. ASSUME NEW ok \in BOOLEAN, Saves(ok) PROVE passkeys' # {} /\ file'.passkeys # {}
  <2>1. passkeys' # {}
    BY <1>2 DEF Saves, Enroll, Authenticate, Revoke, AddPasskey, RemovePasskey,
                SetPasskeySignCount
  <2>2. Save(ok) \/ UNCHANGED file
    BY <1>2 DEF Saves, Enroll, Authenticate, Revoke, AddPasskey, RemovePasskey,
                SetPasskeySignCount
  <2> QED BY <1>1, <2>1, <2>2
<1> QED BY <1>2 DEF RegistryStep, MintEnrollment, EnrollRefused, SecretLapses, GoStale,
              Reload, Load, Draw

\* A registration is reported only by the step that saved its passkey.
LEMMA ReportedSaved ==
  ASSUME TypeOK, Next
  PROVE  reported' = reported \/ (passkeys' # {} /\ file'.passkeys # {})
<1>1. ASSUME NEW r \in Reqs, NEW ok \in BOOLEAN, FinishRegister(r, ok)
      PROVE  reported' = reported \/ (passkeys' # {} /\ file'.passkeys # {})
  BY <1>1 DEF FinishRegister, AddPasskey, Save, TypeOK, AccessTypeOK
<1>2. ASSUME NEW r \in Reqs, Calls(r) \/ Administers(r) PROVE reported' = reported
  BY <1>2 DEF Calls, BeginCall, Authorized, Unauthorized, Forget, Served, Administers,
              BeginAdmin, Authed, NotAuthed, DoMint, DoRemove, DoRevoke, DoNothing
<1>3. ASSUME NEW r \in Reqs, Ceremonies(r)
      PROVE  reported' = reported \/ \E ok \in BOOLEAN : FinishRegister(r, ok)
  BY <1>3 DEF Ceremonies, BeginRegister, BeginLogin, TakeChallenge, CeremonyFails,
              RegisterAgain, CountLogin, OpenSession
<1>4. CASE \/ \E s \in Secrets : (\E ok \in BOOLEAN : EnrollCall(s, ok)) \/ EnrollCallRefused(s)
           \/ \E c \in Challenges, purpose \in {"register", "login"} : MintChallenge(c, purpose)
           \/ \E s \in Sessions : Logout(s)
           \/ Lapse \/ Pass \/ Restart
  BY <1>4 DEF EnrollCall, EnrollCallRefused, MintChallenge, Logout, Lapse, Pass, Restart,
              accessVars
<1> QED BY <1>1, <1>2, <1>3, <1>4 DEF Next

\* Once a registration has been reported successful a passkey exists, in
\* memory and on file, whatever fails and however often the process restarts
\* (passkeys.go AddPasskey and RemovePasskey, devices.go save and New).
THEOREM DoorShut == Spec => []DoorStaysShut
<1>1. Init => DoorStaysShut
  BY DEF Init, RegistryInit, DoorStaysShut
<1>2. TypeOK /\ DoorStaysShut /\ [Next]_vars => DoorStaysShut'
  <2> SUFFICES ASSUME TypeOK, DoorStaysShut, [Next]_vars PROVE DoorStaysShut'
    OBVIOUS
  <2>1. CASE Next
    <3>1. RegistryTypeOK /\ RegistryStep
      BY <2>1, StepParts DEF TypeOK
    <3> QED BY <2>1, <3>1, PasskeysStay, ReportedSaved DEF DoorStaysShut
  <2>2. CASE UNCHANGED vars
    BY <2>2 DEF vars, DoorStaysShut
  <2> QED BY <2>1, <2>2
<1> QED BY <1>1, <1>2, TypeCorrect, PTL DEF Spec

------------------------------------------------------------------------------
(***************************************************************************)
(* Membership.                                                             *)
(***************************************************************************)
\* The inductive invariant of the refinement. A device that has its token is
\* in memory and on file, and revoked in memory if it is on file; a token not
\* drawn yet is nobody's; and a call that waits to be authenticated carries a
\* token somebody was given.
Entered ==
  \A t \in issued : /\ devices[t] \in {"live", "revoked"}
                    /\ file.devices[t] \in {"live", "revoked"}
                    /\ file.devices[t] = "revoked" => devices[t] = "revoked"

Undrawn == fresh \cap issued = {}

Callers == \A r \in Reqs : req[r].at = "auth" => req[r].who \in issued

MemberInv == TypeOK /\ Entered /\ Undrawn /\ Callers

\* The operations that revoke nothing and enroll nobody.
QuietStep ==
  \/ \E s \in Secrets : MintEnrollment(s) \/ EnrollRefused(s)
  \/ \E ok \in BOOLEAN :
       \/ \E t \in Tokens : Authenticate(t, ok)
       \/ \E c \in Creds : AddPasskey(c, ok) \/ RemovePasskey(c, ok) \/ SetPasskeySignCount(c, ok)
  \/ SecretLapses \/ GoStale \/ Draw

RevokeStep == \E t \in Tokens, ok \in BOOLEAN : Revoke(t, ok)

\* No call comes closer to being served.
Calm == \A r \in Reqs : req'[r].at \in {"auth", "serve"} => req'[r] = req[r]

StepKind ==
  \/ \E r \in Reqs, op \in {"call", "forget"}, t \in issued \cup {None} : BeginCall(r, op, t)
  \/ \E r \in Reqs, ok \in BOOLEAN : Authorized(r, ok)
  \/ \E s \in Secrets, ok \in BOOLEAN : EnrollCall(s, ok)
  \/ Restart
  \/ Calm /\ (QuietStep \/ RevokeStep)

\* Every step begins or authenticates a call, enrolls, restarts, or lets nobody
\* in, the registry doing no more than one quiet operation or one revocation.
LEMMA StepKinds ==
  ASSUME TypeOK, Next
  PROVE  StepKind
<1> USE DEF TypeOK, AccessTypeOK
<1> DEFINE Lets == Calm /\ (QuietStep \/ RevokeStep)
<1>1. ASSUME UNCHANGED registryVars PROVE QuietStep
  BY <1>1 DEF registryVars, QuietStep, Draw
<1>2. ASSUME NEW r \in Reqs, Unauthorized(r) PROVE Lets
  <2>1. QuietStep \/ RevokeStep
    BY <1>2, <1>1 DEF Unauthorized
  <2>2. Calm
    BY <1>2 DEF Calm, Unauthorized, Done, Idle
  <2> QED BY <2>1, <2>2
<1>3. ASSUME NEW r \in Reqs, NEW ok \in BOOLEAN, Forget(r, ok) PROVE Lets
  <2>1. QuietStep \/ RevokeStep
    BY <1>3, Carries DEF Forget, At, RevokeStep
  <2>2. Calm
    BY <1>3 DEF Calm, Forget, Done, Idle
  <2> QED BY <2>1, <2>2
<1>4. ASSUME NEW r \in Reqs, Served(r) PROVE Lets
  <2>1. QuietStep \/ RevokeStep
    BY <1>4, <1>1 DEF Served
  <2>2. Calm
    BY <1>4 DEF Calm, Served, Done, Idle
  <2> QED BY <2>1, <2>2
<1>5. ASSUME NEW r \in Reqs, NEW s, NEW c, NEW chal, BeginRegister(r, s, c, chal) PROVE Lets
  <2>1. QuietStep \/ RevokeStep
    BY <1>5, <1>1 DEF BeginRegister
  <2>2. Calm
    BY <1>5 DEF Calm, BeginRegister, Begin
  <2> QED BY <2>1, <2>2
<1>6. ASSUME NEW r \in Reqs, NEW c, NEW chal, BeginLogin(r, c, chal) PROVE Lets
  <2>1. QuietStep \/ RevokeStep
    BY <1>6, <1>1 DEF BeginLogin
  <2>2. Calm
    BY <1>6 DEF Calm, BeginLogin, Begin
  <2> QED BY <2>1, <2>2
<1>7. ASSUME NEW r \in Reqs, TakeChallenge(r) PROVE Lets
  <2>1. QuietStep \/ RevokeStep
    BY <1>7, <1>1 DEF TakeChallenge
  <2>2. Calm
    BY <1>7 DEF Calm, TakeChallenge, Goto
  <2> QED BY <2>1, <2>2
<1>8. ASSUME NEW r \in Reqs, CeremonyFails(r) PROVE Lets
  <2>1. QuietStep \/ RevokeStep
    BY <1>8, <1>1 DEF CeremonyFails
  <2>2. Calm
    BY <1>8 DEF Calm, CeremonyFails, Done, Idle
  <2> QED BY <2>1, <2>2
<1>9. ASSUME NEW r \in Reqs, NEW ok \in BOOLEAN, FinishRegister(r, ok) PROVE Lets
  <2>1. QuietStep \/ RevokeStep
    BY <1>9, Carries DEF FinishRegister, At, QuietStep
  <2>2. Calm
    BY <1>9 DEF Calm, FinishRegister, Done, Idle
  <2> QED BY <2>1, <2>2
<1>10. ASSUME NEW r \in Reqs, RegisterAgain(r) PROVE Lets
  <2>1. QuietStep \/ RevokeStep
    BY <1>10, <1>1 DEF RegisterAgain
  <2>2. Calm
    BY <1>10 DEF Calm, RegisterAgain, Done, Idle
  <2> QED BY <2>1, <2>2
<1>11. ASSUME NEW r \in Reqs, NEW ok \in BOOLEAN, CountLogin(r, ok) PROVE Lets
  <2>1. QuietStep \/ RevokeStep
    BY <1>11, Carries DEF CountLogin, At, QuietStep
  <2>2. Calm
    BY <1>11 DEF Calm, CountLogin, Goto
  <2> QED BY <2>1, <2>2
<1>12. ASSUME NEW r \in Reqs, NEW s, OpenSession(r, s) PROVE Lets
  <2>1. QuietStep \/ RevokeStep
    BY <1>12 DEF OpenSession, QuietStep, Draw
  <2>2. Calm
    BY <1>12 DEF Calm, OpenSession, Done, Idle
  <2> QED BY <2>1, <2>2
<1>13. ASSUME NEW r \in Reqs, NEW op, NEW s, NEW what, BeginAdmin(r, op, s, what) PROVE Lets
  <2>1. QuietStep \/ RevokeStep
    BY <1>13, <1>1 DEF BeginAdmin
  <2>2. Calm
    BY <1>13 DEF Calm, BeginAdmin, Begin
  <2> QED BY <2>1, <2>2
<1>14. ASSUME NEW r \in Reqs, Authed(r) PROVE Lets
  <2>1. QuietStep \/ RevokeStep
    BY <1>14, <1>1 DEF Authed
  <2>2. Calm
    BY <1>14 DEF Calm, Authed, Goto
  <2> QED BY <2>1, <2>2
<1>15. ASSUME NEW r \in Reqs, NotAuthed(r) PROVE Lets
  <2>1. QuietStep \/ RevokeStep
    BY <1>15, <1>1 DEF NotAuthed
  <2>2. Calm
    BY <1>15 DEF Calm, NotAuthed, Done, Idle
  <2> QED BY <2>1, <2>2
<1>16. ASSUME NEW r \in Reqs, DoMint(r) PROVE Lets
  <2>1. QuietStep \/ RevokeStep
    BY <1>16 DEF DoMint, QuietStep
  <2>2. Calm
    BY <1>16 DEF Calm, DoMint, Done, Idle
  <2> QED BY <2>1, <2>2
<1>17. ASSUME NEW r \in Reqs, NEW ok \in BOOLEAN, DoRemove(r, ok) PROVE Lets
  <2>1. QuietStep \/ RevokeStep
    BY <1>17, Carries DEF DoRemove, At, QuietStep
  <2>2. Calm
    BY <1>17 DEF Calm, DoRemove, Done, Idle
  <2> QED BY <2>1, <2>2
<1>18. ASSUME NEW r \in Reqs, NEW ok \in BOOLEAN, DoRevoke(r, ok) PROVE Lets
  <2>1. QuietStep \/ RevokeStep
    BY <1>18, Carries DEF DoRevoke, At, RevokeStep
  <2>2. Calm
    BY <1>18 DEF Calm, DoRevoke, Done, Idle
  <2> QED BY <2>1, <2>2
<1>19. ASSUME NEW r \in Reqs, DoNothing(r) PROVE Lets
  <2>1. QuietStep \/ RevokeStep
    BY <1>19, <1>1 DEF DoNothing
  <2>2. Calm
    BY <1>19 DEF Calm, DoNothing, Done, Idle
  <2> QED BY <2>1, <2>2
<1>20. ASSUME NEW s \in Secrets, EnrollCallRefused(s) PROVE Lets
  <2>1. QuietStep \/ RevokeStep
    BY <1>20 DEF EnrollCallRefused, QuietStep
  <2>2. Calm
    BY <1>20 DEF Calm, EnrollCallRefused, accessVars
  <2> QED BY <2>1, <2>2
<1>21. ASSUME NEW c, NEW purpose, MintChallenge(c, purpose) PROVE Lets
  <2>1. QuietStep \/ RevokeStep
    BY <1>21 DEF MintChallenge, QuietStep, Draw
  <2>2. Calm
    BY <1>21 DEF Calm, MintChallenge
  <2> QED BY <2>1, <2>2
<1>22. ASSUME NEW s, Logout(s) PROVE Lets
  <2>1. QuietStep \/ RevokeStep
    BY <1>22, <1>1 DEF Logout
  <2>2. Calm
    BY <1>22 DEF Calm, Logout
  <2> QED BY <2>1, <2>2
<1>23. ASSUME Lapse PROVE Lets
  <2>1. QuietStep \/ RevokeStep
    BY <1>23, <1>1 DEF Lapse
  <2>2. Calm
    BY <1>23 DEF Calm, Lapse
  <2> QED BY <2>1, <2>2
<1>24. ASSUME Pass PROVE Lets
  <2>1. QuietStep \/ RevokeStep
    BY <1>24 DEF Pass, QuietStep
  <2>2. Calm
    BY <1>24 DEF Calm, Pass, accessVars
  <2> QED BY <2>1, <2>2
<1> HIDE DEF Lets
<1>25. ASSUME NEW r \in Reqs, Calls(r)
      PROVE  \/ \E op \in {"call", "forget"}, t \in issued \cup {None} : BeginCall(r, op, t)
             \/ \E ok \in BOOLEAN : Authorized(r, ok)
             \/ Lets
  BY <1>25, <1>2, <1>3, <1>4 DEF Calls
<1>26. ASSUME NEW r \in Reqs, Ceremonies(r) PROVE Lets
  BY <1>26, <1>5, <1>6, <1>7, <1>8, <1>9, <1>10, <1>11, <1>12 DEF Ceremonies
<1>27. ASSUME NEW r \in Reqs, Administers(r) PROVE Lets
  BY <1>27, <1>13, <1>14, <1>15, <1>16, <1>17, <1>18, <1>19 DEF Administers
<1>28. Lets => StepKind
  BY DEF Lets, StepKind
<1>29. ASSUME NEW r \in Reqs, Calls(r) \/ Ceremonies(r) \/ Administers(r) PROVE StepKind
  BY <1>25, <1>26, <1>27, <1>28, <1>29 DEF StepKind
<1>30. ASSUME NEW s \in Secrets, NEW ok \in BOOLEAN, EnrollCall(s, ok) PROVE StepKind
  BY <1>30 DEF StepKind
<1>31. Restart => StepKind
  BY DEF StepKind
<1> HIDE DEF TypeOK, AccessTypeOK
<1>32. CASE \E r \in Reqs : Calls(r) \/ Ceremonies(r) \/ Administers(r)
  BY <1>32, <1>29
<1>33. CASE \E s \in Secrets : (\E ok \in BOOLEAN : EnrollCall(s, ok)) \/ EnrollCallRefused(s)
  BY <1>33, <1>20, <1>28, <1>30
<1>34. CASE \E c \in Challenges, purpose \in {"register", "login"} : MintChallenge(c, purpose)
  BY <1>34, <1>21, <1>28
<1>35. CASE \E s \in Sessions : Logout(s)
  BY <1>35, <1>22, <1>28
<1>36. CASE Lapse
  BY <1>36, <1>23, <1>28
<1>37. CASE Pass
  BY <1>37, <1>24, <1>28
<1> QED BY <1>31, <1>32, <1>33, <1>34, <1>35, <1>36, <1>37 DEF Next

\* The invariant holds of the registry after each of its operations.
LEMMA EnteredStep ==
  ASSUME RegistryTypeOK, Entered, Undrawn, RegistryStep
  PROVE  Entered' /\ Undrawn' /\ issued \subseteq issued'
<1> USE DEF RegistryTypeOK, Files
<1>1. ASSUME NEW ok \in BOOLEAN, NEW s \in Secrets, NEW t \in Tokens, Enroll(s, t, ok)
      PROVE  Entered' /\ Undrawn' /\ issued \subseteq issued'
  <2>1. t \notin issued
    BY <1>1 DEF Enroll, Undrawn
  <2>2. Entered'
    BY <1>1, <2>1 DEF Enroll, Save, Entered
  <2>3. Undrawn' /\ issued \subseteq issued'
    BY <1>1 DEF Enroll, Undrawn
  <2> QED BY <2>2, <2>3
<1>2. ASSUME NEW ok \in BOOLEAN, NEW t \in Tokens, Revoke(t, ok)
      PROVE  Entered' /\ Undrawn' /\ issued \subseteq issued'
  BY <1>2 DEF Revoke, Save, Entered, Undrawn
<1>3. ASSUME UNCHANGED <<devices, issued>>, fresh' \subseteq fresh,
             UNCHANGED file \/ \E ok \in BOOLEAN : Save(ok)
      PROVE  Entered' /\ Undrawn' /\ issued \subseteq issued'
  BY <1>3 DEF Save, Entered, Undrawn
<1>4. ASSUME Reload PROVE Entered' /\ Undrawn' /\ issued \subseteq issued'
  BY <1>4 DEF Reload, Load, Entered, Undrawn
<1>5. CASE QuietStep
  <2>1. UNCHANGED <<devices, issued>> /\ fresh' \subseteq fresh
    BY <1>5 DEF QuietStep, MintEnrollment, EnrollRefused, Authenticate, AddPasskey,
                RemovePasskey, SetPasskeySignCount, SecretLapses, GoStale, Draw
  <2>2. UNCHANGED file \/ \E ok \in BOOLEAN : Save(ok)
    BY <1>5 DEF QuietStep, MintEnrollment, EnrollRefused, Authenticate, AddPasskey,
                RemovePasskey, SetPasskeySignCount, SecretLapses, GoStale, Draw
  <2> QED BY <1>3, <2>1, <2>2
<1> QED BY <1>1, <1>2, <1>4, <1>5 DEF RegistryStep, Saves, QuietStep

\* A call that waits to be authenticated has had its token from an Enroll.
LEMMA CallersStep ==
  ASSUME TypeOK, Callers, StepKind, issued \subseteq issued'
  PROVE  Callers'
<1>1. ASSUME NEW r \in Reqs, NEW op \in {"call", "forget"}, NEW t \in issued \cup {None},
             BeginCall(r, op, t)
      PROVE  Callers'
  BY <1>1 DEF BeginCall, Begin, Callers, TypeOK, AccessTypeOK
<1>2. ASSUME NEW r \in Reqs, NEW ok \in BOOLEAN, Authorized(r, ok) PROVE Callers'
  <2>1. \A q \in Reqs : req'[q].at = "auth" => req'[q] = req[q]
    BY <1>2 DEF Authorized, Goto, TypeOK, AccessTypeOK
  <2> QED BY <2>1 DEF Callers
<1>3. ASSUME NEW s \in Secrets, NEW ok \in BOOLEAN, EnrollCall(s, ok) PROVE Callers'
  BY <1>3 DEF EnrollCall, accessVars, Callers
<1>4. CASE Restart
  BY <1>4 DEF Restart, Idle, Callers
<1>5. CASE Calm
  BY <1>5 DEF Calm, Callers
<1> QED BY <1>1, <1>2, <1>3, <1>4, <1>5 DEF StepKind

\* So it is an invariant.
LEMMA MemberInvariant == Spec => []MemberInv
<1>1. Init => Entered /\ Undrawn /\ Callers
  <2> SUFFICES ASSUME Init PROVE Entered /\ Undrawn /\ Callers
    OBVIOUS
  <2>1. PICK w \in Worlds : RegistryInit(w.file, w.fresh)
    BY DEF Init
  <2>2. Entered /\ Undrawn
    BY <2>1, AccessAssumption DEF RegistryInit, Entered, Undrawn, Files, DeviceStates
  <2>3. Callers
    BY DEF Init, Callers, Idle
  <2> QED BY <2>2, <2>3
<1>2. MemberInv /\ [Next]_vars => Entered' /\ Undrawn' /\ Callers'
  <2> SUFFICES ASSUME MemberInv, [Next]_vars PROVE Entered' /\ Undrawn' /\ Callers'
    OBVIOUS
  <2>1. CASE Next
    <3>1. RegistryTypeOK /\ RegistryStep /\ StepKind
      BY <2>1, StepParts, StepKinds DEF MemberInv, TypeOK
    <3>2. Entered' /\ Undrawn' /\ issued \subseteq issued'
      BY <3>1, EnteredStep DEF MemberInv
    <3> QED BY <3>1, <3>2, CallersStep DEF MemberInv
  <2>2. CASE UNCHANGED vars
    BY <2>2 DEF vars, MemberInv, Entered, Undrawn, Callers
  <2> QED BY <2>1, <2>2
<1> QED BY <1>1, <1>2, TypeCorrect, PTL DEF Spec, MemberInv

------------------------------------------------------------------------------
(***************************************************************************)
(* How the standings move.                                                 *)
(***************************************************************************)
\* A save writes every suspension down, or nothing.
LEMMA QuietStanding ==
  ASSUME RegistryTypeOK, Entered, UNCHANGED <<devices, issued>>,
         UNCHANGED file \/ \E ok \in BOOLEAN : Save(ok)
  PROVE  Standing' \in {Standing, Members!Settled}
<1>1. CASE UNCHANGED file
  BY <1>1 DEF Standing, StandingOf
<1>2. CASE Save(FALSE)
  BY <1>2 DEF Save, Standing, StandingOf
<1>3. CASE Save(TRUE)
  <2>1. file'.devices = devices
    BY <1>3 DEF Save
  <2>2. ASSUME NEW t \in Tokens PROVE StandingOf(t)' = Members!Settled[t]
    BY <2>1 DEF Entered, StandingOf, Standing, Members!Settled
  <2> QED BY <2>2 DEF Standing, Members!Settled
<1> QED BY <1>1, <1>2, <1>3

\* A revocation expels or suspends its device, if somebody has its token.
LEMMA RevokeStanding ==
  ASSUME RegistryTypeOK, Entered, NEW t \in Tokens, NEW ok \in BOOLEAN, Revoke(t, ok)
  PROVE  \/ Standing' \in {Standing, Members!Settled}
         \/ /\ Standing[t] = "member"
            /\ \/ Standing' = [Standing EXCEPT ![t] = "suspended"]
               \/ Standing' = [Members!Settled EXCEPT ![t] = "expelled"]
<1> USE DEF RegistryTypeOK
<1>1. /\ devices[t] = "live" /\ devices' = [devices EXCEPT ![t] = "revoked"]
      /\ issued' = issued
      /\ file'.devices = IF ok THEN devices' ELSE file.devices
  BY DEF Revoke, Save
<1>2. CASE t \notin issued
  <2>1. CASE ok
    <3>1. ASSUME NEW u \in Tokens PROVE StandingOf(u)' = Members!Settled[u]
      BY <1>1, <1>2, <2>1 DEF Entered, StandingOf, Standing, Members!Settled
    <3> QED BY <3>1 DEF Standing, Members!Settled
  <2>2. CASE ~ok
    <3>1. ASSUME NEW u \in Tokens PROVE StandingOf(u)' = StandingOf(u)
      BY <1>1, <1>2, <2>2 DEF StandingOf
    <3> QED BY <3>1 DEF Standing
  <2> QED BY <2>1, <2>2
<1>3. CASE t \in issued
  <2>1. Standing[t] = "member"
    BY <1>1, <1>3 DEF Entered, Standing, StandingOf
  <2>2. CASE ok
    <3>1. ASSUME NEW u \in Tokens
          PROVE  StandingOf(u)' = IF u = t THEN "expelled" ELSE Members!Settled[u]
      BY <1>1, <1>3, <2>2 DEF Entered, StandingOf, Standing, Members!Settled
    <3> QED BY <2>1, <3>1 DEF Standing, Members!Settled
  <2>3. CASE ~ok
    <3>1. ASSUME NEW u \in Tokens
          PROVE  StandingOf(u)' = IF u = t THEN "suspended" ELSE StandingOf(u)
      BY <1>1, <1>3, <2>3 DEF Entered, StandingOf
    <3> QED BY <2>1, <3>1 DEF Standing
  <2> QED BY <2>2, <2>3
<1> QED BY <1>2, <1>3

\* An enrollment makes a stranger a member, or changes no standing.
LEMMA EnrollStanding ==
  ASSUME RegistryTypeOK, Entered, Undrawn, NEW s \in Secrets, NEW t \in Tokens,
         NEW ok \in BOOLEAN, Enroll(s, t, ok)
  PROVE  \/ Standing' = Standing
         \/ Standing[t] = "stranger" /\ Standing' = [Members!Settled EXCEPT ![t] = "member"]
<1> USE DEF RegistryTypeOK
<1>1. /\ t \notin issued /\ devices' = [devices EXCEPT ![t] = "live"]
      /\ issued' = IF ok THEN issued \cup {t} ELSE issued
      /\ file'.devices = IF ok THEN devices' ELSE file.devices
  BY DEF Enroll, Save, Undrawn
<1>2. CASE ok
  <2>1. Standing[t] = "stranger"
    BY <1>1 DEF Standing, StandingOf
  <2>2. ASSUME NEW u \in Tokens
        PROVE  StandingOf(u)' = IF u = t THEN "member" ELSE Members!Settled[u]
    BY <1>1, <1>2 DEF Entered, StandingOf, Standing, Members!Settled
  <2> QED BY <2>1, <2>2 DEF Standing, Members!Settled
<1>3. CASE ~ok
  <2>1. ASSUME NEW u \in Tokens PROVE StandingOf(u)' = StandingOf(u)
    BY <1>1, <1>3 DEF StandingOf
  <2> QED BY <2>1 DEF Standing
<1> QED BY <1>2, <1>3

\* A step that brings no call closer ends calls at most.
LEMMA CalmEnds ==
  ASSUME TypeOK, TypeOK', \A r \in Reqs : req'[r].at = "serve" => req'[r] = req[r]
  PROVE  Members!CallsEnd
<1>1. Admitted' \in [Reqs -> {<<>>} \cup {<<t>> : t \in Tokens \cup {None}}]
  <2>1. ASSUME NEW r \in Reqs PROVE req'[r].at = "serve" => req'[r].who \in Tokens \cup {None}
    <3>1. req'[r] \in Requests
      BY DEF TypeOK, AccessTypeOK
    <3> QED BY <3>1, Carries
  <2> QED BY <2>1 DEF Admitted
<1>2. \A r \in Reqs : Admitted'[r] \in {Admitted[r], <<>>}
  BY DEF Admitted
<1> QED BY <1>1, <1>2 DEF Members!CallsEnd

\* A call that comes to be served is admitted with its token.
LEMMA LetIn ==
  ASSUME NEW r \in Reqs, NEW t, req[r].at # "serve", req'[r].at = "serve", req'[r].who = t,
         \A q \in Reqs \ {r} : req'[q] = req[q]
  PROVE  Admitted[r] = <<>> /\ Admitted' = [Admitted EXCEPT ![r] = <<t>>]
<1>1. Admitted[r] = <<>>
  BY DEF Admitted
<1>2. ASSUME NEW q \in Reqs PROVE Admitted'[q] = [Admitted EXCEPT ![r] = <<t>>][q]
  <2>1. CASE q = r
    <3>1. Admitted'[r] = <<t>>
      BY DEF Admitted
    <3>2. [Admitted EXCEPT ![r] = <<t>>][r] = <<t>>
      BY DEF Admitted
    <3> QED BY <2>1, <3>1, <3>2
  <2>2. CASE q # r
    <3>1. Admitted'[q] = Admitted[q]
      BY <2>2 DEF Admitted
    <3> QED BY <2>2, <3>1 DEF Admitted
  <2> QED BY <2>1, <2>2
<1>3. /\ Admitted' = [q \in Reqs |-> Admitted'[q]]
      /\ [Admitted EXCEPT ![r] = <<t>>] = [q \in Reqs |-> [Admitted EXCEPT ![r] = <<t>>][q]]
  BY DEF Admitted
<1> QED BY <1>1, <1>2, <1>3

\* Every step of Access is one of Membership's, or changes nothing there.
LEMMA StepImplements ==
  ASSUME MemberInv, TypeOK', Next
  PROVE  [Members!Next]_(Members!vars)
<1>0. RegistryTypeOK /\ TypeOK /\ Entered /\ Undrawn /\ Callers /\ StepKind
  BY StepKinds DEF MemberInv, TypeOK
<1>1. ASSUME NEW r \in Reqs, NEW op \in {"call", "forget"}, NEW t \in issued \cup {None},
             BeginCall(r, op, t)
      PROVE  [Members!Next]_(Members!vars)
  <2>1. Standing' = Standing
    BY <1>1 DEF BeginCall, registryVars, Standing, StandingOf
  <2>2. req[r] = Idle /\ t \in Tokens \cup {None}
    BY <1>0, <1>1 DEF BeginCall, Begin, RegistryTypeOK
  <2>3. CASE Armed
    <3>1. Admitted' = Admitted
      BY <1>0, <1>1, <2>2, <2>3 DEF BeginCall, Begin, Admitted, Idle, TypeOK, AccessTypeOK
    <3> QED BY <2>1, <3>1 DEF Members!vars
  <2>4. CASE ~Armed
    <3>1. Admitted[r] = <<>> /\ Admitted' = [Admitted EXCEPT ![r] = <<t>>]
      <4>1. req' = [req EXCEPT ![r] = [op |-> op, at |-> "serve", who |-> t,
                                       what |-> None, chal |-> None]]
        BY <1>1, <2>4 DEF BeginCall, Begin
      <4>2. /\ req[r].at # "serve" /\ req'[r].at = "serve" /\ req'[r].who = t
            /\ \A q \in Reqs \ {r} : req'[q] = req[q]
        BY <1>0, <2>2, <4>1 DEF Idle, TypeOK, AccessTypeOK
      <4> QED BY <4>2, LetIn
    <3>2. ~ \E u \in Tokens : Standing[u] = "member"
      BY <2>4 DEF Armed, Standing, StandingOf
    <3>3. Members!Admit(r, t)
      BY <2>1, <3>1, <3>2 DEF Members!Admit
    <3> QED BY <2>2, <3>3 DEF Members!Next
  <2> QED BY <2>3, <2>4
<1>2. ASSUME NEW r \in Reqs, NEW ok \in BOOLEAN, Authorized(r, ok)
      PROVE  [Members!Next]_(Members!vars)
  <2> DEFINE t == req[r].who
  <2>1. t \in Tokens /\ t \in issued /\ Authenticate(t, ok)
    BY <1>0, <1>2 DEF Authorized, Callers, RegistryTypeOK
  <2>2. Standing' \in {Standing, Members!Settled}
    BY <1>0, <2>1, QuietStanding DEF Authenticate
  <2>3. Standing[t] = "member"
    BY <1>0, <2>1 DEF Authenticate, Entered, Standing, StandingOf
  <2>4. Admitted[r] = <<>> /\ Admitted' = [Admitted EXCEPT ![r] = <<t>>]
    <3>1. req' = [req EXCEPT ![r].at = "serve"] /\ req[r].at = "auth" /\ req[r] \in Requests
      BY <1>0, <1>2 DEF Authorized, Goto, TypeOK, AccessTypeOK
    <3>2. req'[r].at = "serve" /\ req'[r].who = t
      BY <1>0, <3>1 DEF TypeOK, AccessTypeOK, Requests, Calling, Registering, LoggingIn,
                        Administering, Idle
    <3>3. \A q \in Reqs \ {r} : req'[q] = req[q]
      BY <1>0, <3>1 DEF TypeOK, AccessTypeOK
    <3> QED BY <3>1, <3>2, <3>3, LetIn
  <2>5. Members!Admit(r, t)
    BY <2>1, <2>2, <2>3, <2>4 DEF Members!Admit
  <2> QED BY <2>1, <2>5 DEF Members!Next
<1>3. ASSUME NEW s \in Secrets, NEW ok \in BOOLEAN, EnrollCall(s, ok)
      PROVE  [Members!Next]_(Members!vars)
  <2>1. PICK t \in Tokens : Enroll(s, t, ok)
    BY <1>3 DEF EnrollCall
  <2>2. Admitted' = Admitted
    BY <1>3 DEF EnrollCall, accessVars, Admitted
  <2>3. CASE Standing' = Standing
    BY <2>2, <2>3 DEF Members!vars
  <2>4. CASE Standing[t] = "stranger" /\ Standing' = [Members!Settled EXCEPT ![t] = "member"]
    BY <2>2, <2>4 DEF Members!Join, Members!Next
  <2> QED BY <1>0, <2>1, <2>3, <2>4, EnrollStanding
<1>4. ASSUME Restart PROVE [Members!Next]_(Members!vars)
  <2>1. /\ devices' = file.devices /\ file' = file /\ issued' = issued
        /\ req' = [r \in Reqs |-> Idle]
    BY <1>4 DEF Restart, Load
  <2>2. ASSUME NEW t \in Tokens
        PROVE  StandingOf(t)' = IF Standing[t] = "suspended" THEN "member" ELSE Standing[t]
    BY <1>0, <2>1 DEF Entered, Standing, StandingOf
  <2>3. Admitted' = [r \in Reqs |-> <<>>]
    BY <2>1 DEF Admitted, Idle
  <2>4. Members!Crash
    BY <2>2, <2>3 DEF Standing, Members!Crash
  <2> QED BY <2>4 DEF Members!Next
<1>5. ASSUME Calm, QuietStep PROVE [Members!Next]_(Members!vars)
  <2>1. UNCHANGED <<devices, issued>>
    BY <1>5 DEF QuietStep, MintEnrollment, EnrollRefused, Authenticate, AddPasskey,
                RemovePasskey, SetPasskeySignCount, SecretLapses, GoStale, Draw
  <2>2. UNCHANGED file \/ \E ok \in BOOLEAN : Save(ok)
    BY <1>5 DEF QuietStep, MintEnrollment, EnrollRefused, Authenticate, AddPasskey,
                RemovePasskey, SetPasskeySignCount, SecretLapses, GoStale, Draw
  <2>3. Standing' \in {Standing, Members!Settled}
    BY <1>0, <2>1, <2>2, QuietStanding
  <2>4. Members!CallsEnd
    BY <1>0, <1>5, CalmEnds DEF Calm
  <2> QED BY <2>3, <2>4 DEF Members!Settle, Members!Next
<1>6. ASSUME Calm, RevokeStep PROVE [Members!Next]_(Members!vars)
  <2>1. PICK t \in Tokens, ok \in BOOLEAN : Revoke(t, ok)
    BY <1>6 DEF RevokeStep
  <2>2. Members!CallsEnd
    BY <1>0, <1>6, CalmEnds DEF Calm
  <2>3. CASE Standing' \in {Standing, Members!Settled}
    BY <2>2, <2>3 DEF Members!Settle, Members!Next
  <2>4. CASE /\ Standing[t] = "member"
             /\ \/ Standing' = [Standing EXCEPT ![t] = "suspended"]
                \/ Standing' = [Members!Settled EXCEPT ![t] = "expelled"]
    BY <2>2, <2>4 DEF Members!Expel, Members!Next
  <2> QED BY <1>0, <2>1, <2>3, <2>4, RevokeStanding
<1> QED BY <1>0, <1>1, <1>2, <1>3, <1>4, <1>5, <1>6 DEF StepKind

\* The registry and the interceptors do what Membership promises, for any
\* number of devices, requests and restarts (devices.go Enroll, Authenticate,
\* Revoke, Forget, save and New, auth.go authorize).
THEOREM AccessImplementsMembership == Spec => ImplementsMembership
<1>1. Init => Members!Init
  <2> SUFFICES ASSUME Init PROVE Members!Init
    OBVIOUS
  <2>1. PICK w \in Worlds : RegistryInit(w.file, w.fresh)
    BY DEF Init
  <2>2. /\ file = w.file /\ devices = file.devices /\ file \in Files
        /\ issued = {t \in Tokens : file.devices[t] # "none"}
    BY <2>1, AccessAssumption DEF RegistryInit
  <2>3. ASSUME NEW t \in Tokens PROVE StandingOf(t) \in {"stranger", "member", "expelled"}
    BY <2>2 DEF StandingOf, Files, DeviceStates
  <2>4. Admitted = [r \in Reqs |-> <<>>]
    BY DEF Init, Admitted, Idle
  <2> QED BY <2>3, <2>4 DEF Members!Init, Standing
<1>2. MemberInv /\ TypeOK' /\ [Next]_vars => [Members!Next]_(Members!vars)
  <2> SUFFICES ASSUME MemberInv, TypeOK', [Next]_vars PROVE [Members!Next]_(Members!vars)
    OBVIOUS
  <2>1. CASE Next
    BY <2>1, StepImplements
  <2>2. CASE UNCHANGED vars
    BY <2>2 DEF vars, Members!vars, Standing, StandingOf, Admitted
  <2> QED BY <2>1, <2>2
<1> QED BY <1>1, <1>2, TypeCorrect, MemberInvariant, PTL DEF Spec, Members!Spec, ImplementsMembership

------------------------------------------------------------------------------
(***************************************************************************)
(* One use.                                                                *)
(***************************************************************************)
\* A secret that may still be drawn or is pending has enrolled nobody, and is
\* pending once.
Spent ==
  /\ \A s \in Secrets : bought[s] <= 1 /\ (s \in fresh => bought[s] = 0)
  /\ \A i \in 1 .. Len(pending) : bought[pending[i]] = 0 /\ pending[i] \notin fresh
  /\ \A i, j \in 1 .. Len(pending) : i # j => pending[i] # pending[j]

\* The operations leave of the pending secrets a part, each at most once.
PartOf(p) ==
  /\ \A i \in 1 .. Len(p) : \E k \in 1 .. Len(pending) : p[i] = pending[k]
  /\ \A i, j \in 1 .. Len(p) : i # j => p[i] # p[j]

\* The live secrets are such a part.
LEMMA SweptPart ==
  ASSUME RegistryTypeOK, Spent
  PROVE  PartOf(Swept)
<1>1. /\ pending \in Seq(Secrets) /\ lapsed \in Nat /\ Len(pending) \in Nat
      /\ lapsed <= Len(pending) /\ Len(Swept) = Len(pending) - lapsed
      /\ \A i \in 1 .. Len(Swept) : Swept[i] = pending[lapsed + i]
  BY SweptType DEF RegistryTypeOK
<1>2. ASSUME NEW i \in 1 .. Len(Swept)
      PROVE  Swept[i] = pending[lapsed + i] /\ lapsed + i \in 1 .. Len(pending)
  BY <1>1
<1>3. ASSUME NEW i \in 1 .. Len(Swept), NEW j \in 1 .. Len(Swept), i # j
      PROVE  Swept[i] # Swept[j]
  <2>1. lapsed + i # lapsed + j
    BY <1>1, <1>3
  <2>2. \A m, n \in 1 .. Len(pending) : m # n => pending[m] # pending[n]
    BY DEF Spent
  <2> QED BY <1>2, <2>1, <2>2
<1>4. ASSUME NEW i \in 1 .. Len(Swept) PROVE \E m \in 1 .. Len(pending) : Swept[i] = pending[m]
  BY <1>2
<1> QED BY <1>3, <1>4 DEF PartOf

\* So are those MintEnrollment keeps.
LEMMA RoomyPart ==
  ASSUME RegistryTypeOK, Spent
  PROVE  PartOf(Roomy) /\ Roomy \in Seq(Secrets)
<1> DEFINE k == IF Len(Swept) < MaxPending THEN 1 ELSE Len(Swept) - MaxPending + 2
<1>1. Swept \in Seq(Secrets) /\ Len(Swept) \in Nat /\ PartOf(Swept)
  BY SweptType, SweptPart DEF RegistryTypeOK
<1>2. k \in 1 .. Len(Swept) + 1 /\ Roomy = SubSeq(Swept, k, Len(Swept))
  BY <1>1, RegistryAssumption DEF Roomy
<1> HIDE DEF k
<1>3. /\ Roomy \in Seq(Secrets) /\ Len(Roomy) = Len(Swept) - k + 1
      /\ \A i \in 1 .. Len(Roomy) : Roomy[i] = Swept[k + i - 1]
  BY <1>1, <1>2
<1>4. \A i \in 1 .. Len(Roomy) : k + i - 1 \in 1 .. Len(Swept)
  BY <1>1, <1>2, <1>3
<1>5. ASSUME NEW i \in 1 .. Len(Roomy) PROVE \E m \in 1 .. Len(pending) : Roomy[i] = pending[m]
  <2>1. Roomy[i] = Swept[k + i - 1] /\ k + i - 1 \in 1 .. Len(Swept)
    BY <1>3, <1>4
  <2> QED BY <1>1, <2>1 DEF PartOf
<1>6. ASSUME NEW i \in 1 .. Len(Roomy), NEW j \in 1 .. Len(Roomy), i # j
      PROVE  Roomy[i] # Roomy[j]
  <2>1. k + i - 1 # k + j - 1
    BY <1>2, <1>6
  <2>2. /\ Roomy[i] = Swept[k + i - 1] /\ k + i - 1 \in 1 .. Len(Swept)
        /\ Roomy[j] = Swept[k + j - 1] /\ k + j - 1 \in 1 .. Len(Swept)
    BY <1>3, <1>4
  <2> QED BY <1>1, <2>1, <2>2 DEF PartOf
<1> QED BY <1>3, <1>5, <1>6 DEF PartOf

\* What is left when the secret at one place is taken out.
LEMMA RemovedPart ==
  ASSUME RegistryTypeOK, Spent, NEW i \in 1 .. Len(Swept)
  PROVE  /\ PartOf(RemoveAt(Swept, i))
         /\ \A j \in 1 .. Len(RemoveAt(Swept, i)) : RemoveAt(Swept, i)[j] # Swept[i]
<1> DEFINE p == RemoveAt(Swept, i)
           at(j) == IF j < i THEN j ELSE j + 1
<1>1. Swept \in Seq(Secrets) /\ Len(Swept) \in Nat /\ PartOf(Swept)
  BY SweptType, SweptPart, SMTT(30) DEF RegistryTypeOK
<1>2. Len(p) = Len(Swept) - 1 /\ \A j \in 1 .. Len(p) : p[j] = Swept[at(j)]
  <2> DEFINE a == SubSeq(Swept, 1, i - 1)
             b == SubSeq(Swept, i + 1, Len(Swept))
  <2>1. /\ a \in Seq(Secrets) /\ Len(a) = i - 1
        /\ \A j \in 1 .. i - 1 : a[j] = Swept[j]
    BY <1>1
  <2>2. /\ b \in Seq(Secrets) /\ Len(b) = Len(Swept) - i
        /\ \A j \in 1 .. Len(Swept) - i : b[j] = Swept[i + j]
    BY <1>1
  <2>3. p = a \o b
    BY DEF RemoveAt
  <2> HIDE DEF a, b, p
  <2>4. Len(p) = Len(Swept) - 1
    BY <1>1, <2>1, <2>2, <2>3
  <2>5. ASSUME NEW j \in 1 .. Len(p) PROVE p[j] = Swept[at(j)]
    <3>1. CASE j < i
      BY <1>1, <2>1, <2>2, <2>3, <2>4, <3>1
    <3>2. CASE ~(j < i)
      <4>1. p[j] = b[j - (i - 1)] /\ j - (i - 1) \in 1 .. Len(Swept) - i
        BY <1>1, <2>1, <2>2, <2>3, <2>4, <3>2
      <4>2. i + (j - (i - 1)) = j + 1
        BY <1>1, <2>4
      <4> QED BY <2>2, <3>2, <4>1, <4>2
    <3> QED BY <3>1, <3>2
  <2> QED BY <2>4, <2>5
<1> HIDE DEF p
<1>3. \A j \in 1 .. Len(p) : at(j) \in 1 .. Len(Swept) /\ at(j) # i
  BY <1>1, <1>2
<1>4. \A j, l \in 1 .. Len(p) : j # l => at(j) # at(l)
  BY <1>1, <1>2
<1> HIDE DEF at
<1>5. /\ \A m \in 1 .. Len(Swept) : \E n \in 1 .. Len(pending) : Swept[m] = pending[n]
      /\ \A m, n \in 1 .. Len(Swept) : m # n => Swept[m] # Swept[n]
  BY <1>1 DEF PartOf
<1>6. ASSUME NEW j \in 1 .. Len(p)
      PROVE  (\E n \in 1 .. Len(pending) : p[j] = pending[n]) /\ p[j] # Swept[i]
  <2>1. p[j] = Swept[at(j)] /\ at(j) \in 1 .. Len(Swept) /\ at(j) # i
    BY <1>2, <1>3
  <2> QED BY <1>5, <2>1
<1>7. ASSUME NEW j \in 1 .. Len(p), NEW l \in 1 .. Len(p), j # l PROVE p[j] # p[l]
  <2>1. p[j] = Swept[at(j)] /\ at(j) \in 1 .. Len(Swept)
    BY <1>2, <1>3
  <2>2. p[l] = Swept[at(l)] /\ at(l) \in 1 .. Len(Swept)
    BY <1>2, <1>3
  <2>3. at(j) # at(l)
    BY <1>4, <1>7
  <2> QED BY <1>5, <2>1, <2>2, <2>3
<1>8. PartOf(p)
  BY <1>6, <1>7 DEF PartOf
<1> QED BY <1>6, <1>8 DEF p

\* No operation of the registry buys twice with one secret.
LEMMA SpentStep ==
  ASSUME RegistryTypeOK, Spent, RegistryStep
  PROVE  Spent'
<1> USE DEF RegistryTypeOK
<1>1. ASSUME NEW s \in Secrets, MintEnrollment(s) PROVE Spent'
  <2>1. /\ pending' = Append(Roomy, s) /\ s \in fresh /\ fresh' = fresh \ {s}
        /\ bought' = bought
    BY <1>1 DEF MintEnrollment
  <2>2. PartOf(Roomy) /\ Roomy \in Seq(Secrets) /\ Len(Roomy) \in Nat
    BY RoomyPart
  <2>3. /\ Len(pending') = Len(Roomy) + 1
        /\ \A i \in 1 .. Len(Roomy) : pending'[i] = Roomy[i]
        /\ pending'[Len(Roomy) + 1] = s
    BY <2>1, <2>2
  <2>4. ASSUME NEW i \in 1 .. Len(Roomy)
        PROVE  Roomy[i] # s /\ Roomy[i] \notin fresh /\ bought[Roomy[i]] = 0
    <3>1. PICK k \in 1 .. Len(pending) : Roomy[i] = pending[k]
      BY <2>2 DEF PartOf
    <3> QED BY <2>1, <3>1 DEF Spent
  <2>5. \A i \in 1 .. Len(pending') : i \in 1 .. Len(Roomy) \/ i = Len(Roomy) + 1
    BY <2>2, <2>3
  <2>6. \A i \in 1 .. Len(pending') : bought'[pending'[i]] = 0 /\ pending'[i] \notin fresh'
    BY <2>1, <2>3, <2>4, <2>5 DEF Spent
  <2>7. ASSUME NEW i \in 1 .. Len(pending'), NEW j \in 1 .. Len(pending'), i # j
        PROVE  pending'[i] # pending'[j]
    <3>1. CASE i \in 1 .. Len(Roomy) /\ j \in 1 .. Len(Roomy)
      BY <2>2, <2>3, <2>7, <3>1 DEF PartOf
    <3>2. CASE i = Len(Roomy) + 1 \/ j = Len(Roomy) + 1
      BY <2>2, <2>3, <2>4, <2>5, <2>7, <3>2
    <3> QED BY <2>5, <3>1, <3>2
  <2> QED BY <2>1, <2>6, <2>7 DEF Spent
<1>2. ASSUME NEW s \in Secrets, EnrollRefused(s) PROVE Spent'
  <2>1. pending' = Swept /\ bought' = bought /\ fresh' = fresh /\ PartOf(Swept)
    BY <1>2, SweptPart DEF EnrollRefused
  <2>2. ASSUME NEW i \in 1 .. Len(pending')
        PROVE  bought'[pending'[i]] = 0 /\ pending'[i] \notin fresh'
    <3>1. PICK k \in 1 .. Len(pending) : pending'[i] = pending[k]
      BY <2>1 DEF PartOf
    <3> QED BY <2>1, <3>1 DEF Spent
  <2> QED BY <2>1, <2>2 DEF Spent, PartOf
<1>3. ASSUME NEW ok \in BOOLEAN, NEW s \in Secrets, NEW t \in Tokens, Enroll(s, t, ok)
      PROVE  Spent'
  <2>1. PICK i \in 1 .. Len(Swept) : Swept[i] = s /\ pending' = RemoveAt(Swept, i)
    BY <1>3 DEF Enroll, Spend
  <2>2. bought' = [bought EXCEPT ![s] = @ + 1] /\ fresh' \subseteq fresh
    BY <1>3 DEF Enroll
  <2>3. bought[s] = 0 /\ s \notin fresh
    <3>1. PartOf(Swept)
      BY SweptPart
    <3>2. PICK k \in 1 .. Len(pending) : Swept[i] = pending[k]
      BY <3>1 DEF PartOf
    <3> QED BY <2>1, <3>2 DEF Spent
  <2>4. PartOf(pending') /\ \A j \in 1 .. Len(pending') : pending'[j] # s
    BY <2>1, RemovedPart
  <2>5. \A u \in Secrets : bought'[u] <= 1 /\ (u \in fresh' => bought'[u] = 0)
    BY <2>2, <2>3 DEF Spent
  <2>6. ASSUME NEW j \in 1 .. Len(pending')
        PROVE  bought'[pending'[j]] = 0 /\ pending'[j] \notin fresh'
    <3>1. PICK k \in 1 .. Len(pending) : pending'[j] = pending[k]
      BY <2>4 DEF PartOf
    <3>2. pending[k] \in Secrets
      OBVIOUS
    <3> QED BY <2>2, <2>4, <3>1, <3>2 DEF Spent
  <2> QED BY <2>4, <2>5, <2>6 DEF Spent, PartOf
<1>4. ASSUME UNCHANGED <<pending, bought>>, fresh' \subseteq fresh PROVE Spent'
  BY <1>4 DEF Spent
<1>5. ASSUME Reload PROVE Spent'
  BY <1>5 DEF Reload, Load, Spent
<1>6. ASSUME NEW ok \in BOOLEAN, Saves(ok)
      PROVE  \/ \E s \in Secrets, t \in Tokens : Enroll(s, t, ok)
             \/ UNCHANGED <<pending, bought>> /\ fresh' \subseteq fresh
  BY <1>6 DEF Saves, Authenticate, Revoke, AddPasskey, RemovePasskey, SetPasskeySignCount
<1>7. ASSUME SecretLapses \/ GoStale \/ Draw
      PROVE  UNCHANGED <<pending, bought>> /\ fresh' \subseteq fresh
  BY <1>7 DEF SecretLapses, GoStale, Draw
<1> QED BY <1>1, <1>2, <1>3, <1>4, <1>5, <1>6, <1>7 DEF RegistryStep

\* A request whose ceremony has used up its challenge and is not done.
Holding(r) == req[r].at \in {"add", "count", "open"}

\* A challenge that may still be drawn or taken has completed nothing and is
\* held by no request, and one that is held, by one, has completed nothing.
Consumed ==
  /\ \A c \in Challenges : earned[c] <= 1
  /\ \A c \in Challenges : c \in fresh => challenges[c] = "none"
  /\ \A c \in Challenges : c \in fresh \/ challenges[c] \in {"register", "login"} =>
       earned[c] = 0 /\ \A r \in Reqs : Holding(r) => req[r].chal # c
  /\ \A r \in Reqs : Holding(r) => earned[req[r].chal] = 0
  /\ \A r, q \in Reqs : Holding(r) /\ Holding(q) /\ r # q => req[r].chal # req[q].chal

\* Nothing is drawn for, taken by or completed by a ceremony.
Still ==
  /\ earned' = earned
  /\ \A c \in Challenges : \/ challenges'[c] \in {challenges[c], "none"}
                           \/ challenges'[c] = "lapsed" /\ challenges[c] # "none"
  /\ \A r \in Reqs : Holding(r)' => Holding(r) /\ req'[r].chal = req[r].chal

CeremonyStep ==
  \/ \E r \in Reqs : TakeChallenge(r)
  \/ \E r \in Reqs, ok \in BOOLEAN : FinishRegister(r, ok)
  \/ \E r \in Reqs, s \in Sessions : OpenSession(r, s)
  \/ \E c \in Challenges, purpose \in {"register", "login"} : MintChallenge(c, purpose)

\* Every step is one of a ceremony's, or leaves the ceremonies alone.
LEMMA CeremonySteps ==
  ASSUME TypeOK, Next
  PROVE  Still \/ CeremonyStep
<1> USE DEF TypeOK, AccessTypeOK
<1>1. ASSUME NEW r \in Reqs, Done(r) PROVE \A q \in Reqs : req'[q] \in {req[q], Idle}
  BY <1>1 DEF Done
<1>2. ASSUME NEW r \in Reqs, Done(r), UNCHANGED <<challenges, earned>> PROVE Still
  BY <1>1, <1>2 DEF Still, Holding, Idle
<1>3. ASSUME NEW r \in Reqs, NEW op, NEW t, BeginCall(r, op, t) PROVE Still
  BY <1>3 DEF BeginCall, Begin, Still, Holding
<1>4. ASSUME NEW r \in Reqs, NEW ok \in BOOLEAN, Authorized(r, ok) PROVE Still
  BY <1>4 DEF Authorized, Goto, Still, Holding
<1>5. ASSUME NEW r \in Reqs, Unauthorized(r) PROVE Still
  BY <1>5, <1>2 DEF Unauthorized
<1>6. ASSUME NEW r \in Reqs, NEW ok \in BOOLEAN, Forget(r, ok) PROVE Still
  BY <1>6, <1>2 DEF Forget
<1>7. ASSUME NEW r \in Reqs, Served(r) PROVE Still
  BY <1>7, <1>2 DEF Served
<1>8. ASSUME NEW r \in Reqs, NEW s, NEW c, NEW chal, BeginRegister(r, s, c, chal) PROVE Still
  BY <1>8 DEF BeginRegister, Begin, Still, Holding
<1>9. ASSUME NEW r \in Reqs, NEW c, NEW chal, BeginLogin(r, c, chal) PROVE Still
  BY <1>9 DEF BeginLogin, Begin, Still, Holding
<1>10. ASSUME NEW r \in Reqs, CeremonyFails(r) PROVE Still
  BY <1>10, <1>1, Carries DEF CeremonyFails, Take, Still, Holding, Idle
<1>11. ASSUME NEW r \in Reqs, RegisterAgain(r) PROVE Still
  BY <1>11, <1>2 DEF RegisterAgain
<1>12. ASSUME NEW r \in Reqs, NEW ok \in BOOLEAN, CountLogin(r, ok) PROVE Still
  <2>1. req' = [req EXCEPT ![r].at = "open"] /\ req[r].at = "count" /\ req[r] \in Requests
    BY <1>12 DEF CountLogin, At, Goto
  <2>2. req'[r].chal = req[r].chal
    BY <2>1 DEF Requests, Calling, Registering, LoggingIn, Administering, Idle
  <2>3. \A q \in Reqs \ {r} : req'[q] = req[q]
    BY <2>1
  <2>4. \A q \in Reqs : Holding(q)' => Holding(q) /\ req'[q].chal = req[q].chal
    BY <2>1, <2>2, <2>3 DEF Holding
  <2> QED BY <1>12, <2>4 DEF CountLogin, Still
<1>13. ASSUME NEW r \in Reqs, NEW op, NEW s, NEW what, BeginAdmin(r, op, s, what) PROVE Still
  BY <1>13 DEF BeginAdmin, Begin, Still, Holding
<1>14. ASSUME NEW r \in Reqs, Authed(r) PROVE Still
  BY <1>14 DEF Authed, Goto, Still, Holding
<1>15. ASSUME NEW r \in Reqs, NotAuthed(r) PROVE Still
  BY <1>15, <1>2 DEF NotAuthed
<1>16. ASSUME NEW r \in Reqs, DoMint(r) PROVE Still
  BY <1>16, <1>2 DEF DoMint
<1>17. ASSUME NEW r \in Reqs, NEW ok \in BOOLEAN, DoRemove(r, ok) PROVE Still
  BY <1>17, <1>2 DEF DoRemove
<1>18. ASSUME NEW r \in Reqs, NEW ok \in BOOLEAN, DoRevoke(r, ok) PROVE Still
  BY <1>18, <1>2 DEF DoRevoke
<1>19. ASSUME NEW r \in Reqs, DoNothing(r) PROVE Still
  BY <1>19, <1>2 DEF DoNothing
<1>20. ASSUME NEW r \in Reqs, Calls(r) PROVE Still
  BY <1>20, <1>3, <1>4, <1>5, <1>6, <1>7 DEF Calls
<1>21. ASSUME NEW r \in Reqs, Administers(r) PROVE Still
  BY <1>21, <1>13, <1>14, <1>15, <1>16, <1>17, <1>18, <1>19 DEF Administers
<1>22. ASSUME NEW r \in Reqs, Ceremonies(r) PROVE Still \/ CeremonyStep
  <2>1. CASE \/ TakeChallenge(r)
             \/ \E ok \in BOOLEAN : FinishRegister(r, ok)
             \/ \E s \in Sessions : OpenSession(r, s)
    BY <2>1 DEF CeremonyStep
  <2> QED BY <1>22, <2>1, <1>8, <1>9, <1>10, <1>11, <1>12 DEF Ceremonies
<1>23. CASE \E s \in Secrets : (\E ok \in BOOLEAN : EnrollCall(s, ok)) \/ EnrollCallRefused(s)
  BY <1>23 DEF EnrollCall, EnrollCallRefused, accessVars, Still, Holding
<1>24. CASE \E c \in Challenges, purpose \in {"register", "login"} : MintChallenge(c, purpose)
  BY <1>24 DEF CeremonyStep
<1>25. CASE \/ \E s \in Sessions : Logout(s)
           \/ Lapse \/ Pass
  BY <1>25 DEF Logout, Lapse, Pass, accessVars, Still, Holding
<1>26. CASE Restart
  BY <1>26 DEF Restart, Still, Holding, Idle
<1> QED BY <1>20, <1>21, <1>22, <1>23, <1>24, <1>25, <1>26 DEF Next

\* No step completes two ceremonies with one challenge.
LEMMA ConsumedStep ==
  ASSUME TypeOK, Consumed, fresh' \subseteq fresh, Still \/ CeremonyStep
  PROVE  Consumed'
<1> USE DEF TypeOK, AccessTypeOK
<1>1. CASE Still
  <2>1. \A c \in Challenges : c \in fresh' => challenges'[c] = "none"
    BY <1>1 DEF Still, Consumed
  <2>2. ASSUME NEW c \in Challenges, c \in fresh' \/ challenges'[c] \in {"register", "login"}
        PROVE  c \in fresh \/ challenges[c] \in {"register", "login"}
    BY <1>1, <2>2 DEF Still
  <2>3. ASSUME NEW c \in Challenges, c \in fresh' \/ challenges'[c] \in {"register", "login"}
        PROVE  earned'[c] = 0 /\ \A r \in Reqs : Holding(r)' => req'[r].chal # c
    BY <1>1, <2>2, <2>3 DEF Still, Consumed
  <2>4. \A r \in Reqs : Holding(r)' => earned'[req'[r].chal] = 0
    BY <1>1 DEF Still, Consumed
  <2>5. \A r, q \in Reqs : Holding(r)' /\ Holding(q)' /\ r # q => req'[r].chal # req'[q].chal
    BY <1>1 DEF Still, Consumed
  <2> QED BY <1>1, <2>1, <2>3, <2>4, <2>5 DEF Still, Consumed
<1>2. ASSUME NEW r \in Reqs, TakeChallenge(r) PROVE Consumed'
  <2> DEFINE c == req[r].chal
  <2>1. /\ req[r] \in Requests /\ req[r].at = "take"
        /\ req[r].op \in {"register", "login"} /\ c \in Challenges
        /\ challenges[c] = req[r].op /\ challenges' = [challenges EXCEPT ![c] = "none"]
        /\ earned' = earned
    BY <1>2, Carries DEF TakeChallenge, Take
  <2>2. c \notin fresh /\ earned[c] = 0 /\ \A q \in Reqs : Holding(q) => req[q].chal # c
    BY <2>1 DEF Consumed
  <2>3. req'[r].chal = c /\ \A q \in Reqs \ {r} : req'[q] = req[q]
    BY <1>2, <2>1 DEF TakeChallenge, Goto, Requests, Calling, Registering, LoggingIn,
                      Administering, Idle
  <2> HIDE DEF c
  <2>4. \A d \in Challenges : d \in fresh' => challenges'[d] = "none"
    BY <2>1, <2>2 DEF Consumed
  <2>5. ASSUME NEW d \in Challenges, d \in fresh' \/ challenges'[d] \in {"register", "login"}
        PROVE  earned'[d] = 0 /\ \A q \in Reqs : Holding(q)' => req'[q].chal # d
    <3>1. d # c /\ (d \in fresh \/ challenges[d] \in {"register", "login"})
      BY <2>1, <2>2, <2>5
    <3> QED BY <2>1, <2>3, <3>1 DEF Consumed, Holding
  <2>6. \A q \in Reqs : Holding(q)' => earned'[req'[q].chal] = 0
    BY <2>1, <2>2, <2>3 DEF Consumed, Holding
  <2>7. \A q, u \in Reqs : Holding(q)' /\ Holding(u)' /\ q # u => req'[q].chal # req'[u].chal
    BY <2>2, <2>3 DEF Consumed, Holding
  <2> QED BY <2>1, <2>4, <2>5, <2>6, <2>7 DEF Consumed
<1>3. ASSUME NEW r \in Reqs, Holding(r), Done(r), UNCHANGED challenges,
             earned' = [earned EXCEPT ![req[r].chal] = @ + 1]
      PROVE  Consumed'
  <2> DEFINE c == req[r].chal
  <2>1. req[r] \in Requests /\ c \in Challenges /\ earned[c] = 0
    BY <1>3, Carries DEF Holding, Consumed
  <2>2. /\ c \notin fresh /\ challenges[c] \notin {"register", "login"}
        /\ \A q \in Reqs \ {r} : Holding(q) => req[q].chal # c
    BY <1>3, <2>1 DEF Consumed
  <2>3. ~Holding(r)' /\ \A q \in Reqs \ {r} : req'[q] = req[q]
    BY <1>3 DEF Done, Idle, Holding
  <2>4. earned'[c] = 1 /\ \A d \in Challenges \ {c} : earned'[d] = earned[d]
    BY <1>3, <2>1
  <2>5. \A q \in Reqs : Holding(q)' => q # r /\ Holding(q) /\ req'[q] = req[q]
    BY <2>3 DEF Holding
  <2>6. \A q \in Reqs : Holding(q) => req[q].chal \in Challenges
    BY Carries DEF Holding
  <2> HIDE DEF c
  <2>7. \A d \in Challenges : earned'[d] <= 1
    BY <2>1, <2>4 DEF Consumed
  <2>8. ASSUME NEW d \in Challenges, d \in fresh' \/ challenges'[d] \in {"register", "login"}
        PROVE  earned'[d] = 0 /\ \A q \in Reqs : Holding(q)' => req'[q].chal # d
    <3>1. d # c /\ (d \in fresh \/ challenges[d] \in {"register", "login"})
      BY <1>3, <2>2, <2>8
    <3> QED BY <2>4, <2>5, <3>1 DEF Consumed
  <2>9. \A q \in Reqs : Holding(q)' => earned'[req'[q].chal] = 0
    BY <2>2, <2>4, <2>5, <2>6 DEF Consumed
  <2>10. \A q, u \in Reqs : Holding(q)' /\ Holding(u)' /\ q # u => req'[q].chal # req'[u].chal
    BY <2>5 DEF Consumed
  <2> QED BY <1>3, <2>7, <2>8, <2>9, <2>10 DEF Consumed
<1>4. ASSUME NEW r \in Reqs, NEW ok \in BOOLEAN, FinishRegister(r, ok) PROVE Consumed'
  BY <1>3, <1>4 DEF FinishRegister, At, Holding
<1>5. ASSUME NEW r \in Reqs, NEW s \in Sessions, OpenSession(r, s) PROVE Consumed'
  BY <1>3, <1>5 DEF OpenSession, At, Holding
<1>6. ASSUME NEW c \in Challenges, NEW purpose \in {"register", "login"},
             MintChallenge(c, purpose)
      PROVE  Consumed'
  <2>1. /\ c \in fresh /\ fresh' = fresh \ {c} /\ req' = req /\ earned' = earned
        /\ \A d \in Challenges \ {c} : challenges'[d] \in {challenges[d], "none"}
    BY <1>6 DEF MintChallenge
  <2>2. ASSUME NEW d \in Challenges, d \in fresh' \/ challenges'[d] \in {"register", "login"}
        PROVE  d \in fresh \/ challenges[d] \in {"register", "login"}
    BY <2>1, <2>2
  <2>3. \A d \in Challenges : d \in fresh' => challenges'[d] = "none"
    BY <2>1 DEF Consumed
  <2> QED BY <2>1, <2>2, <2>3 DEF Consumed, Holding
<1> QED BY <1>1, <1>2, <1>4, <1>5, <1>6 DEF CeremonyStep

\* A secret enrolls at most one device and a challenge completes at most one
\* ceremony, whoever sends them again and whatever fails (devices.go Enroll,
\* admin.go takeChallenge).
THEOREM UsedOnce == Spec => []OneUse
<1>1. Init => Spent /\ Consumed
  BY DEF Init, RegistryInit, Spent, Consumed, Holding, Idle
<1>2. TypeOK /\ Spent /\ Consumed /\ [Next]_vars => Spent' /\ Consumed'
  <2> SUFFICES ASSUME TypeOK, Spent, Consumed, [Next]_vars PROVE Spent' /\ Consumed'
    OBVIOUS
  <2>1. CASE Next
    <3>1. RegistryTypeOK /\ RegistryStep /\ (Still \/ CeremonyStep)
      BY <2>1, StepParts, CeremonySteps DEF TypeOK
    <3>2. fresh' \subseteq fresh
      BY <3>1, RegistryStepType
    <3> QED BY <3>1, <3>2, SpentStep, ConsumedStep
  <2>2. CASE UNCHANGED vars
    BY <2>2 DEF vars, Spent, Consumed, Holding
  <2> QED BY <2>1, <2>2
<1>3. Spent /\ Consumed => OneUse
  BY DEF Spent, Consumed, OneUse
<1> QED BY <1>1, <1>2, <1>3, TypeCorrect, PTL DEF Spec

==============================================================================
