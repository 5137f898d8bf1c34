----------------------------- MODULE MCCollector -----------------------------
(***************************************************************************)
(* The collector alone on a file that is only ever appended to: nothing is *)
(* rotated, truncated or restarted.                                        *)
(***************************************************************************)
EXTENDS TelemetryCollector

MCOwner == [l \in Lines |-> l]
=============================================================================
