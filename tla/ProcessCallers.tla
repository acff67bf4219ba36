--------------------------- MODULE ProcessCallers ---------------------------
(***************************************************************************)
(* The three ways in which the repository starts a process and reads its   *)
(* output, each composed with the process: RunZ3OnCMD, Terminal and        *)
(* RunWait.                                                                *)
(***************************************************************************)
EXTENDS RunZ3OnCMD, Terminal, RunWait

VARIABLE caller

vars == <<childVars, pc, z3Vars, terminalVars, waitVars, caller>>

Init ==
  /\ ChildInit /\ Z3Init /\ TerminalInit /\ RunWaitInit
  /\ \/ caller = "z3" /\ pc = "begin"
     \/ caller = "terminal" /\ pc = "invokeAll"
     \/ caller = "runWait" /\ pc = "outputReady"

Call ==
  \/ caller = "z3" /\ Execute /\ UNCHANGED <<terminalVars, waitVars, caller>>
  \/ caller = "terminal" /\ RunExecutableFile /\ UNCHANGED <<z3Vars, waitVars, caller>>
  \/ caller = "runWait" /\ ParserRunWait /\ UNCHANGED <<z3Vars, terminalVars, caller>>

Child ==
  /\ pc # "begin"
  /\ ChildWrite \/ ChildExit \/ ChildObeys
  /\ NoteExit
  /\ UNCHANGED <<pc, z3Vars, terminalVars, caller>>

Next == Call \/ Child

Spec     == Init /\ [][Next]_vars
FairSpec == Spec /\ WF_vars(Call) /\ WF_vars(Child)

-----------------------------------------------------------------------------
TypeOK ==
  /\ ChildTypeOK /\ Z3TypeOK /\ TerminalTypeOK /\ RunWaitTypeOK
  /\ caller \in {"z3", "terminal", "runWait"}
  /\ pc \in CASE caller = "z3"       -> {"begin", "wait", "readOut", "readErr", "end"}
              [] caller = "terminal" -> {"invokeAll", "timeout", "end"}
              [] caller = "runWait"  -> {"outputReady", "errorReady", "isAlive", "readOutput",
                                         "readError", "pause", "end"}

(* What the caller goes on with is all the process had to say, however its *)
(* end races with the ten seconds of Z3, with the two readers and with     *)
(* waitFor; the ten seconds of an executable never cut it short.  runWait  *)
(* may lose output, but only if the process is killed, or writes and ends  *)
(* just between the look at a stream and isAlive.                          *)
OutputComplete ==
  pc = "end" =>
    \/ AllRead /\ ~ destroyed
    \/ caller = "z3" /\ numOfSolverCalls = 0
    \/ caller = "runWait" /\ (killed \/ late)

(* Z3 and the generator never wait for each other if the errors fit into   *)
(* the pipe, however much output there is: the errors are read last.       *)
ErrorsFit == pipe["err"] + Pending("err") <= Capacity

(* Terminal needs nothing of the kind, only that the process ends; runWait *)
(* comes back from a process that does not end, and even if it ignores     *)
(* destroy, provided that it writes finitely much (MaxWrites): as long as a*)
(* stream is ready, runWait reads on and never looks at its limits.        *)
CallersReturn ==
  /\ (caller = "z3" /\ ends /\ ErrorsFit) ~> (pc = "end")
  /\ (caller = "terminal" /\ ends) ~> (pc = "end")
  /\ (caller = "runWait") ~> (pc = "end")

-----------------------------------------------------------------------------
(* The comments in runExecutableFile: "give it a chance to stop", "tell    *)
(* the process to stop", "tell the OS to kill the process".                *)
ExecutableStopped == (caller = "terminal") ~> (pc = "end")

=============================================================================
