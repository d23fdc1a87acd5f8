------------------------------- MODULE MCLinks -------------------------------
(***************************************************************************)
(* Small instances of Links and Questions for TLC: a behaviour rotates the *)
(* keys of the pool, or asks one question.                                 *)
(***************************************************************************)
EXTENDS Links, Questions

CONSTANTS i1, i2, home, away, proxy, sidecar, camA, camB, camC

\* One sample of two cameras and of one whose resolution is unknown. No two
\* views stand in the ratio 13 to 10 exactly: rounding decides nothing here.
Samples ==
  [cam : {camA, camB}, at : {-2, 0, 1, 2, 4, 5}, view : {0, 10, 12, 14}]
  \cup [cam : {camC}, at : {0, 3}, view : {40}]

\* Up to three of them, in any order.
MCEvidence == UNION {[1..n -> Samples] : n \in 0..3}

MCNets == SUBSET {home, proxy, sidecar}

\* Every chain of at most three addresses, malformed ones included.
MCChains == UNION {[1..n -> Peers] : n \in 0..3}

\* Each field at its edges, the others silent or right.
Silent ==
  [mqtt |-> TRUE, host |-> TRUE, port |-> 0, subscriptions |-> 1, keepalive |-> Unset,
   rotateEvery |-> Unset, retention |-> Unset, timezone |-> TRUE,
   stateModels |-> <<>>, occupancy |-> <<>>, cidrs |-> TRUE, ttl |-> Unset]

Edges == {Unset, 0, 1, Minute - 1, Minute, Hour - 1, Hour, Hour + 1, Day, Day + 1,
          7 * Day, 7 * Day + 1}

MCFiles ==
  {[Silent EXCEPT !.mqtt = m, !.host = h, !.port = p, !.subscriptions = n,
                  !.timezone = z, !.cidrs = c] :
     m, h, z, c \in BOOLEAN, p \in {0, 1, 65535, 65536}, n \in {0, 1}}
  \cup {[Silent EXCEPT !.keepalive = d, !.ttl = e] : d, e \in Edges}
  \cup {[Silent EXCEPT !.rotateEvery = d, !.retention = e] : d, e \in Edges}
  \cup {[Silent EXCEPT !.stateModels =
           <<[model |-> m, hold |-> d, alarmClass |-> a, alarmAfter |-> e]>>] :
          m, a \in BOOLEAN, d, e \in Edges}
  \cup {[Silent EXCEPT !.occupancy =
           <<[zone |-> z, labels |-> n, arriveAfter |-> d, departAfter |-> e]>>] :
          z \in BOOLEAN, n \in {0, 2}, d, e \in Edges}

MCInit == Init /\ (AskNothing \/ Ask)

MCNext ==
  \/ question = Nothing /\ Next /\ UNCHANGED questionVars
  \/ Answer /\ UNCHANGED vars

MCSpec == MCInit /\ [][MCNext]_<<vars, questionVars>>
==============================================================================
