------------------------------ MODULE MCPipeline ------------------------------
(***************************************************************************)
(* Small instances of Pipeline for TLC.                                    *)
(***************************************************************************)
EXTENDS Pipeline

CONSTANTS door, opened, closed

MCHold == [m \in Models |-> 1]
MCAlarmClass == [m \in Models |-> opened]
MCAlarmAfter == [m \in Models |-> 2]
Says(c) == [model |-> door, class |-> c]
Other == [model |-> None, class |-> None]
MCTraffics == {<<Says(closed), Says(opened), Other>>, <<Says(opened), Other>>}
==============================================================================
