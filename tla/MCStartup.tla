------------------------------ MODULE MCStartup ------------------------------
(***************************************************************************)
(* Startup with three migrations, the middle one needing the extension.    *)
(***************************************************************************)
EXTENDS Startup

CONSTANTS p1, p2
=============================================================================
