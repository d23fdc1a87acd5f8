------------------------------- MODULE Registry -------------------------------
(***************************************************************************)
(* The registry of devices and admin passkeys, internal/devices: who may   *)
(* call the API and who may open the admin pages, kept in memory under one *)
(* mutex and saved to one file; and the enrollment secrets, which are kept *)
(* in memory only.                                                         *)
(*                                                                         *)
(* Every operation is one action, since it holds the mutex throughout. Its *)
(* parameter "ok" says whether the save it makes reaches the file: a save  *)
(* that fails leaves the change in memory and the file as it was.          *)
(*                                                                         *)
(* Tokens, secrets and credentials are model values, drawn from "fresh",   *)
(* the random numbers this behaviour has left. A device is named by its    *)
(* token (the code stores the hash, and gives the device an id beside it). *)
(* Time is left out: a secret lapses, and the last-seen times go stale, in *)
(* steps of their own.                                                     *)
(***************************************************************************)
EXTENDS Integers, Sequences, FiniteSets, SequencesExt

CONSTANTS
  Tokens,      \* bearer tokens
  Secrets,     \* enrollment secrets
  Creds,       \* passkey credentials
  MaxPending   \* maxPending: live secrets kept

ASSUME RegistryAssumption == MaxPending \in Nat \ {0}

VARIABLES
  devices,   \* r.order: token -> "none", "live" or "revoked"
  passkeys,  \* r.passkeys: the registered credentials
  file,      \* what the file holds of these two
  pending,   \* r.pending: live secrets, oldest first
  lapsed,    \* how many of them, the oldest, have expired
  stale,     \* the last save is more than lastSeenFlush ago
  fresh,     \* random numbers not drawn yet
  issued,    \* tokens an Enroll has returned
  bought     \* secret -> how many devices it has enrolled

registryVars == <<devices, passkeys, file, pending, lapsed, stale, fresh, issued, bought>>

DeviceStates == {"none", "live", "revoked"}

Files == [devices : [Tokens -> DeviceStates], passkeys : SUBSET Creds]

RegistryTypeOK ==
  /\ devices \in [Tokens -> DeviceStates]
  /\ passkeys \in SUBSET Creds
  /\ file \in Files
  /\ pending \in Seq(Secrets)
  /\ lapsed \in 0 .. Len(pending)
  /\ stale \in BOOLEAN
  /\ issued \in SUBSET Tokens
  /\ bought \in [Secrets -> Nat]

\* New: the registry as the file has it. No secret outlives the process.
Load(f) ==
  /\ devices' = f.devices /\ passkeys' = f.passkeys
  /\ pending' = <<>> /\ lapsed' = 0
  /\ stale' = TRUE

RegistryInit(f, supply) ==
  /\ devices = f.devices /\ passkeys = f.passkeys /\ file = f
  /\ pending = <<>> /\ lapsed = 0 /\ stale = TRUE
  /\ fresh = supply
  /\ issued = {t \in Tokens : f.devices[t] # "none"}
  /\ bought = [s \in Secrets |-> 0]

\* save: the whole of memory, or nothing.
Save(ok) ==
  /\ file' = IF ok THEN [devices |-> devices', passkeys |-> passkeys'] ELSE file
  /\ stale' = FALSE

------------------------------------------------------------------------------
(***************************************************************************)
(* Secrets and devices.                                                    *)
(***************************************************************************)
Armed == \E t \in Tokens : devices[t] = "live"

\* sweepPending
Swept == SubSeq(pending, lapsed + 1, Len(pending))

\* The secrets MintEnrollment keeps: room is made by evicting the oldest.
Roomy ==
  SubSeq(Swept, IF Len(Swept) < MaxPending THEN 1 ELSE Len(Swept) - MaxPending + 2, Len(Swept))

MintEnrollment(s) ==
  /\ s \in fresh
  /\ fresh' = fresh \ {s}
  /\ pending' = Append(Roomy, s) /\ lapsed' = 0
  /\ UNCHANGED <<devices, passkeys, file, stale, issued, bought>>

\* Enroll's delete: a live secret is gone, and so are the lapsed ones.
Spend(s) ==
  /\ \E i \in 1 .. Len(Swept) : Swept[i] = s /\ pending' = RemoveAt(Swept, i)
  /\ lapsed' = 0

\* A mutant of Enroll that keeps the secret when the save fails.
EnrollRetries(s, t, ok) ==
  /\ t \in fresh
  /\ IF ok THEN Spend(s) ELSE Contains(Swept, s) /\ pending' = Swept /\ lapsed' = 0
  /\ fresh' = fresh \ {t}
  /\ devices' = [devices EXCEPT ![t] = "live"]
  /\ issued' = IF ok THEN issued \cup {t} ELSE issued
  /\ bought' = [bought EXCEPT ![s] = @ + 1]
  /\ UNCHANGED passkeys
  /\ Save(ok)

\* Enroll with a live secret: the secret is spent, and the device entered,
\* whether or not the save succeeds; the token is returned only if it does.
Enroll(s, t, ok) ==
  /\ t \in fresh
  /\ Spend(s)
  /\ fresh' = fresh \ {t}
  /\ devices' = [devices EXCEPT ![t] = "live"]
  /\ issued' = IF ok THEN issued \cup {t} ELSE issued
  /\ bought' = [bought EXCEPT ![s] = @ + 1]
  /\ UNCHANGED passkeys
  /\ Save(ok)

\* Enroll with any other secret only sweeps.
EnrollRefused(s) ==
  /\ ~Contains(Swept, s)
  /\ pending' = Swept /\ lapsed' = 0
  /\ UNCHANGED <<devices, passkeys, file, stale, fresh, issued, bought>>

\* A mutant of Authenticate that looks no further than the token.
AuthenticateKnown(t, ok) ==
  /\ devices[t] # "none"
  /\ UNCHANGED <<devices, passkeys, pending, lapsed, fresh, issued, bought>>
  /\ IF stale THEN Save(ok) ELSE UNCHANGED <<file, stale>>

\* Authenticate of a live device: a stale file is saved on the way.
Authenticate(t, ok) ==
  /\ devices[t] = "live"
  /\ UNCHANGED <<devices, passkeys, pending, lapsed, fresh, issued, bought>>
  /\ IF stale THEN Save(ok) ELSE UNCHANGED <<file, stale>>

\* Revoke and Forget: what the save reports is ignored.
Revoke(t, ok) ==
  /\ devices[t] = "live"
  /\ devices' = [devices EXCEPT ![t] = "revoked"]
  /\ UNCHANGED <<passkeys, pending, lapsed, fresh, issued, bought>>
  /\ Save(ok)

------------------------------------------------------------------------------
(***************************************************************************)
(* Passkeys.                                                               *)
(***************************************************************************)
HasPasskeys == passkeys # {}

AddPasskey(c, ok) ==
  /\ c \notin passkeys
  /\ passkeys' = passkeys \cup {c}
  /\ UNCHANGED <<devices, pending, lapsed, fresh, issued, bought>>
  /\ Save(ok)

\* A mutant of RemovePasskey that lets the last one go.
RemoveAny(c, ok) ==
  /\ c \in passkeys
  /\ passkeys' = passkeys \ {c}
  /\ UNCHANGED <<devices, pending, lapsed, fresh, issued, bought>>
  /\ Save(ok)

\* RemovePasskey: never the last one.
RemovePasskey(c, ok) ==
  /\ c \in passkeys /\ passkeys # {c}
  /\ passkeys' = passkeys \ {c}
  /\ UNCHANGED <<devices, pending, lapsed, fresh, issued, bought>>
  /\ Save(ok)

\* SetPasskeySignCount, the counter left out: the save is what remains.
SetPasskeySignCount(c, ok) ==
  /\ UNCHANGED <<devices, passkeys, pending, lapsed, fresh, issued, bought>>
  /\ IF c \in passkeys THEN Save(ok) ELSE UNCHANGED <<file, stale>>

------------------------------------------------------------------------------
(***************************************************************************)
(* Time.                                                                   *)
(***************************************************************************)
SecretLapses ==
  /\ lapsed < Len(pending)
  /\ lapsed' = lapsed + 1
  /\ UNCHANGED <<devices, passkeys, file, pending, stale, fresh, issued, bought>>

GoStale ==
  /\ ~stale
  /\ stale' = TRUE
  /\ UNCHANGED <<devices, passkeys, file, pending, lapsed, fresh, issued, bought>>
==============================================================================
