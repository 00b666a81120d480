----------------------------- MODULE MCRuntime -----------------------------
(***************************************************************************)
(* A small instance of Runtime for TLC: requests that may meet on one      *)
(* server or be spread over both, and more signals than the channel holds. *)
(***************************************************************************)
EXTENDS Runtime, TLC
=============================================================================
