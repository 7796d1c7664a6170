--------------------------- MODULE PolicyEngineMC ---------------------------
(***************************************************************************)
(* PolicyEngine for TLC: cash on both sides of zero and above the limit,   *)
(* quantities whose notional is below, at and above the limit.             *)
(***************************************************************************)
EXTENDS PolicyEngine

Cash == -1 .. 15
Quantities == 0 .. 7
=============================================================================
