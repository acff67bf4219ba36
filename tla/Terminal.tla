------------------------------ MODULE Terminal ------------------------------
(***************************************************************************)
(* compiler.Terminal.exec, called by runExecutableFile of                  *)
(* FastFunctionExecution and AbstractTestcaseExecution: two threads read   *)
(* the output and the errors of the executable, the caller waits for both  *)
(* and for the end of the process, and then waits ten seconds more before  *)
(* it destroys the process.                                                *)
(***************************************************************************)
EXTENDS ChildProcess

VARIABLES
  closed,    \* the streams whose reader has returned
  destroyed  \* the process was destroyed for lack of time

terminalVars == <<closed, destroyed>>

TerminalInit == closed = {} /\ destroyed = FALSE

(* Mutant of StreamReader: one thread reads the output and then the errors.*)
OneReader(s) ==
  /\ pc = "invokeAll" /\ s \notin closed
  /\ s = "err" => "out" \in closed
  /\ \/ ReadLine(s) /\ UNCHANGED closed
     \/ EndOfStream(s) /\ closed' = closed \cup {s} /\ UNCHANGED childVars
  /\ UNCHANGED <<pc, destroyed>>

(* StreamReader.call *)
StreamReader(s) ==
  /\ pc = "invokeAll" /\ s \notin closed
  /\ \/ ReadLine(s) /\ UNCHANGED closed
     \/ EndOfStream(s) /\ closed' = closed \cup {s} /\ UNCHANGED childVars
  /\ UNCHANGED <<pc, destroyed>>

(* invokeAll returns when both readers have, and waitFor at the end of the *)
(* process.                                                                *)
WaitFor ==
  /\ pc = "invokeAll" /\ closed = Stream /\ ~ alive
  /\ pc' = "timeout"
  /\ UNCHANGED <<childVars, terminalVars>>

(* waitFor(10, SECONDS), and if the process is still alive destroy, ten    *)
(* more seconds, destroyForcibly and waitFor.                              *)
StopExecutable ==
  /\ pc = "timeout" /\ pc' = "end"
  /\ destroyed' = alive /\ alive' = FALSE
  /\ UNCHANGED <<rest, ends, pipe, closed>>

RunExecutableFile == (\E s \in Stream : StreamReader(s)) \/ WaitFor \/ StopExecutable

TerminalTypeOK == closed \subseteq Stream /\ destroyed \in BOOLEAN

=============================================================================
