---------------------------- MODULE MCHotReload ----------------------------
(***************************************************************************)
(* Instances of HotReload for TLC.                                         *)
(***************************************************************************)
EXTENDS HotReload

CONSTANTS r1, r2

AnyListener == {"http", "https"}
OnlyHttps == {"https"}
=============================================================================
