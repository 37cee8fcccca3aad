----------------------------- MODULE MCRealtime -----------------------------
(* Instance of Realtime for TLC. *)
EXTENDS Realtime

Role_MC == {"PROJECT_MANAGER", "DEVELOPER"}
=============================================================================
