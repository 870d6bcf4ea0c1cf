----------------------------- MODULE SessionMC -----------------------------
(* Instances of Session small enough for TLC. *)
EXTENDS Session
=============================================================================
