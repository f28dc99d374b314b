---------------------------- MODULE MCRunManager ----------------------------
(* Two runs, so that one request's stop may meet the other's worker; four  *)
(* rows give a first bar, bars in the middle and one that is only flushed. *)
EXTENDS RunManager
=============================================================================
