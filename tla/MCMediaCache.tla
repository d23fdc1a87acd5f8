---------------------------- MODULE MCMediaCache ----------------------------
(***************************************************************************)
(* Small instances of MediaCache for TLC.                                  *)
(***************************************************************************)
EXTENDS MediaCache

CONSTANTS k1, k2, s1, g1, g2
==============================================================================
