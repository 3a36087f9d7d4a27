------------------------------- MODULE MCHttp -------------------------------
(***************************************************************************)
(* Requests with any of a few commands, among them two parameters.         *)
(***************************************************************************)
EXTENDS HttpDynamicMessageInterface, TLC
Symmetry == Permutations(Names)
SomeCommands == Names \cup {"destination", "function", "mode", "InputOptions"}
=============================================================================
