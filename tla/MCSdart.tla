------------------------------ MODULE MCSdart ------------------------------
(***************************************************************************)
(* Sdart on the functions of MCFunctions.                                  *)
(***************************************************************************)
EXTENDS Sdart, MCFunctions

KilledOnly     == {Killed}
InfeasibleOnly == {Infeasible}

=============================================================================
