----------------------------- MODULE Saturating -----------------------------
(***************************************************************************)
(* saturating_add and saturating_sub on u64 values, which the runtime and  *)
(* the programs use for fees, totals and slots.                            *)
(***************************************************************************)
EXTENDS Integers

CONSTANT U64Max   \* the largest u64; scaled down for TLC

SatAdd(a, b) == IF a + b > U64Max THEN U64Max ELSE a + b
SatSub(a, b) == IF a < b THEN 0 ELSE a - b
=============================================================================
