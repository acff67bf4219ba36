----------------------------- MODULE RunZ3OnCMD -----------------------------
(***************************************************************************)
(* testdatagen.se.solver.RunZ3OnCMD.execute: the generator starts Z3,      *)
(* waits ten seconds for its end, then reads its output to the end, then   *)
(* its errors.                                                             *)
(***************************************************************************)
EXTENDS ChildProcess

VARIABLES
  numOfSolverCalls,
  hasError,
  numOfSolverCallsbutCannotSolve

z3Vars == <<numOfSolverCalls, hasError, numOfSolverCallsbutCannotSolve>>

Z3Init == numOfSolverCalls = 0 /\ hasError = FALSE /\ numOfSolverCallsbutCannotSolve = 0

(* The text of the constraints says that they have no solution. *)
SkipSolver ==
  /\ pc = "begin" /\ pc' = "end"
  /\ UNCHANGED <<childVars, z3Vars>>

Exec ==
  /\ pc = "begin" /\ pc' = "wait"
  /\ UNCHANGED <<childVars, z3Vars>>

(* waitFor(10, SECONDS) returns when Z3 has ended or the time is up; which *)
(* of the two it was is not looked at.                                     *)
WaitTenSeconds ==
  /\ pc = "wait" /\ pc' = "readOut"
  /\ numOfSolverCalls' = numOfSolverCalls + 1
  /\ UNCHANGED <<childVars, hasError, numOfSolverCallsbutCannotSolve>>

ReadOutput ==
  /\ pc = "readOut"
  /\ \/ ReadLine("out") /\ UNCHANGED pc
     \/ EndOfStream("out") /\ pc' = "readErr" /\ UNCHANGED childVars
  /\ UNCHANGED z3Vars

ReadErrors ==
  /\ pc = "readErr"
  /\ \/ /\ ReadLine("err") /\ hasError' = TRUE
        /\ UNCHANGED <<pc, numOfSolverCallsbutCannotSolve>>
     \/ /\ EndOfStream("err") /\ pc' = "end"
        /\ numOfSolverCallsbutCannotSolve' =
             numOfSolverCallsbutCannotSolve + (IF hasError THEN 1 ELSE 0)
        /\ UNCHANGED <<childVars, hasError>>
  /\ UNCHANGED numOfSolverCalls

Execute == SkipSolver \/ Exec \/ WaitTenSeconds \/ ReadOutput \/ ReadErrors

Z3TypeOK ==
  /\ numOfSolverCalls \in 0 .. 1 /\ hasError \in BOOLEAN
  /\ numOfSolverCallsbutCannotSolve \in 0 .. numOfSolverCalls

=============================================================================
