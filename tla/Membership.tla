------------------------------ MODULE Membership ------------------------------
(***************************************************************************)
(* What the device registry and the gRPC interceptors promise of devices,  *)
(* without files, locks, secrets or passkeys (internal/devices/devices.go, *)
(* internal/server/auth.go): who is a member, and who is let in.           *)
(*                                                                         *)
(* A device joins once and is expelled for good. An expulsion that could   *)
(* not be written down suspends the device; it is expelled by whatever is  *)
(* written next, and a member again if the process dies before that. Calls *)
(* are let in for members only, unless there are none.                     *)
(***************************************************************************)
CONSTANTS
  Tokens,  \* the devices, by their tokens
  Reqs,    \* calls that may be in progress
  None     \* the token of a call without one

VARIABLES
  standing,  \* token -> "stranger", "member", "suspended" or "expelled"
  admitted   \* call -> <<the token it was let in with>>, or <<>>

vars == <<standing, admitted>>

Init ==
  /\ standing \in [Tokens -> {"stranger", "member", "expelled"}]
  /\ admitted = [r \in Reqs |-> <<>>]

\* Writing down anything writes down everything.
Settled == [t \in Tokens |-> IF standing[t] = "suspended" THEN "expelled" ELSE standing[t]]

\* Calls end at any time.
CallsEnd == admitted' \in [Reqs -> {<<>>} \cup {<<t>> : t \in Tokens \cup {None}}]
            /\ \A r \in Reqs : admitted'[r] \in {admitted[r], <<>>}

Join(t) ==
  /\ standing[t] = "stranger"
  /\ standing' = [Settled EXCEPT ![t] = "member"]
  /\ UNCHANGED admitted

Expel(t) ==
  /\ standing[t] = "member"
  /\ \/ standing' = [standing EXCEPT ![t] = "suspended"]
     \/ standing' = [Settled EXCEPT ![t] = "expelled"]
  /\ CallsEnd

Settle ==
  /\ standing' \in {standing, Settled}
  /\ CallsEnd

Admit(r, t) ==
  /\ admitted[r] = <<>>
  /\ (\E u \in Tokens : standing[u] = "member") => t \in Tokens /\ standing[t] = "member"
  /\ admitted' = [admitted EXCEPT ![r] = <<t>>]
  /\ standing' \in {standing, Settled}

Crash ==
  /\ standing' = [t \in Tokens |-> IF standing[t] = "suspended" THEN "member" ELSE standing[t]]
  /\ admitted' = [r \in Reqs |-> <<>>]

Next ==
  \/ \E t \in Tokens : Join(t) \/ Expel(t)
  \/ \E r \in Reqs, t \in Tokens \cup {None} : Admit(r, t)
  \/ Settle \/ Crash

Spec == Init /\ [][Next]_vars
==============================================================================
