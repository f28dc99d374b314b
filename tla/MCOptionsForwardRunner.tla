----------------------- MODULE MCOptionsForwardRunner -----------------------
(* One session on a coarse clock: before the open, in the session, in the  *)
(* square-off window and after 16:30.  The stop starts at 12; a tick at 6  *)
(* ratchets it to 8, or to 10 when the tie loses a step.                   *)
EXTENDS OptionsForwardRunner

MCEntries == {10}
MCPrices  == {0, 6, 8}
MCTimes   == {550, 600, 916, 990}
=============================================================================
