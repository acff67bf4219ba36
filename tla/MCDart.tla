------------------------------- MODULE MCDart -------------------------------
(***************************************************************************)
(* Dart on the functions of MCFunctions.                                   *)
(***************************************************************************)
EXTENDS Dart, MCFunctions

MCNone == 0

=============================================================================
