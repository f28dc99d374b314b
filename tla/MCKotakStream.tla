---------------------------- MODULE MCKotakStream ----------------------------
(* Two symbols that resolve, one of them also asked for in one call with a *)
(* symbol that does not, and two starts of the worker: the fewest for an   *)
(* abandoned worker to meet its successor.                                 *)
EXTENDS KotakStream

MCLists == {{"nifty"}, {"bank", "typo"}}
MCWorkers == {"first", "second"}
=============================================================================
