------------------------ MODULE ProcessCallers_proofs ------------------------
(***************************************************************************)
(* OutputComplete for every capacity of the pipes, every output and every  *)
(* time limit.                                                             *)
(***************************************************************************)
EXTENDS ProcessCallers, TLAPS

(* What a caller knows of the streams at each of its steps: Z3's output is *)
(* at its end when the errors are read, a closed stream of the executable  *)
(* is at its end, and a stream that runWait has found empty is at its end  *)
(* if the process has ended before that.                                   *)
Z3Knows ==
  caller = "z3" =>
    /\ pc \in {"begin", "wait", "readOut", "readErr", "end"}
    /\ pc = "readErr" => EndOfStream("out")
    /\ pc = "end" => AllRead \/ numOfSolverCalls = 0
    /\ pc \in {"begin", "wait"} => numOfSolverCalls = 0

TerminalKnows ==
  caller = "terminal" =>
    /\ pc \in {"invokeAll", "timeout", "end"}
    /\ \A s \in closed : EndOfStream(s)
    /\ pc # "invokeAll" => AllRead

RunWaitKnows ==
  caller = "runWait" =>
    /\ pc \in {"outputReady", "errorReady", "isAlive", "readOutput", "readError", "pause", "end"}
    /\ pc \in {"errorReady", "isAlive"} /\ ~ alive /\ ~ late => pipe["out"] = 0
    /\ pc = "isAlive" /\ ~ alive /\ ~ late => pipe["err"] = 0
    /\ pc = "end" => AllRead \/ killed \/ late

Pipes == pipe \in [Stream -> Nat]

IInv ==
  /\ Pipes /\ closed \subseteq Stream /\ ~ destroyed
  /\ caller \in {"z3", "terminal", "runWait"}
  /\ pc = "begin" => caller = "z3"
  /\ Z3Knows /\ TerminalKnows /\ RunWaitKnows

(* The inductive invariant holds before a caller starts its process.       *)
LEMMA InitKnows == Init => IInv
  BY DEF Init, ChildInit, Z3Init, TerminalInit, RunWaitInit, IInv, Pipes, Z3Knows,
         TerminalKnows, RunWaitKnows, AllRead, EndOfStream, Stream

(* The steps of RunZ3OnCMD preserve the invariant.                         *)
LEMMA Z3Keeps ==
  ASSUME IInv, caller = "z3", Execute, UNCHANGED <<terminalVars, waitVars, caller>>
  PROVE  IInv'
<1> USE DEF IInv, Pipes, Z3Knows, TerminalKnows, RunWaitKnows, AllRead, EndOfStream,
            Stream, childVars, z3Vars, terminalVars, waitVars
<1>1. CASE SkipSolver \/ Exec \/ WaitTenSeconds
  BY <1>1 DEF SkipSolver, Exec, WaitTenSeconds
<1>2. CASE ReadOutput
  BY <1>2 DEF ReadOutput, ReadLine
<1>3. CASE ReadErrors
  BY <1>3 DEF ReadErrors, ReadLine
<1> QED BY <1>1, <1>2, <1>3 DEF Execute

(* The steps of the thread that runs the executable preserve the           *)
(* invariant.                                                              *)
LEMMA TerminalKeeps ==
  ASSUME IInv, caller = "terminal", RunExecutableFile, UNCHANGED <<z3Vars, waitVars, caller>>
  PROVE  IInv'
<1> USE DEF IInv, Pipes, Z3Knows, TerminalKnows, RunWaitKnows, AllRead, EndOfStream,
            Stream, childVars, z3Vars, terminalVars, waitVars
<1>1. ASSUME NEW s \in Stream, StreamReader(s) PROVE IInv'
  <2>1. CASE ReadLine(s) /\ UNCHANGED closed
    <3>1. alive' = alive /\ pc' = pc /\ closed' = closed /\ pc = "invokeAll"
      BY <1>1, <2>1 DEF StreamReader, ReadLine
    <3>2. pipe' = [pipe EXCEPT ![s] = @ - 1] /\ pipe[s] > 0
      BY <2>1 DEF ReadLine
    <3>3. Pipes'
      BY <3>2
    <3>4. \A x \in closed : x # s /\ pipe'[x] = pipe[x]
      BY <3>2
    <3>5. TerminalKnows'
      BY <3>1, <3>4
    <3> QED BY <1>1, <3>1, <3>3, <3>5 DEF StreamReader
  <2>2. CASE EndOfStream(s) /\ closed' = closed \cup {s} /\ UNCHANGED childVars
    BY <1>1, <2>2 DEF StreamReader
  <2> QED BY <1>1, <2>1, <2>2 DEF StreamReader
<1>2. CASE WaitFor
  BY <1>2 DEF WaitFor
<1>3. CASE StopExecutable
  BY <1>3 DEF StopExecutable
<1> QED BY <1>1, <1>2, <1>3 DEF RunExecutableFile

(* The steps of runWait, which polls both streams, preserve the invariant. *)
LEMMA RunWaitKeeps ==
  ASSUME IInv, caller = "runWait", ParserRunWait, UNCHANGED <<z3Vars, terminalVars, caller>>
  PROVE  IInv'
<1> USE DEF IInv, Pipes, Z3Knows, TerminalKnows, RunWaitKnows, AllRead, EndOfStream,
            Stream, childVars, z3Vars, terminalVars, waitVars
<1>1. CASE OutputReady
  BY <1>1 DEF OutputReady
<1>5. CASE ErrorReady
  BY <1>5 DEF ErrorReady
<1>6. CASE IsAlive
  BY <1>6 DEF IsAlive
<1>2. CASE PollOutput \/ PollError
  BY <1>2 DEF PollOutput, PollError, ReadReady
<1>3. CASE LeavePause
  BY <1>3 DEF LeavePause
<1>4. CASE Pause
  BY <1>4 DEF Pause, Idle
<1> QED BY <1>1, <1>2, <1>3, <1>4, <1>5, <1>6 DEF ParserRunWait

(* A stream at its end stays there; a process that ends between the look   *)
(* at a stream and isAlive is noted in "late".                             *)
LEMMA ChildKeeps ==
  ASSUME IInv, Child
  PROVE  IInv'
<1> USE DEF IInv, Pipes, Z3Knows, TerminalKnows, RunWaitKnows, AllRead, EndOfStream,
            Stream, childVars, z3Vars, terminalVars, waitVars
<1>1. CASE ChildWrite
  <2>1. alive /\ alive' = alive
    BY <1>1 DEF ChildWrite
  <2>2. pipe' \in [Stream -> Nat]
    <3> DEFINE s == Head(rest)
    <3>1. pipe' = [pipe EXCEPT ![s] = @ + 1]
      BY <1>1 DEF ChildWrite
    <3> HIDE DEF s
    <3>2. \A x \in Stream : pipe[x] \in Nat /\ pipe'[x] \in {pipe[x], pipe[x] + 1}
      BY <3>1
    <3>3. DOMAIN pipe' = Stream /\ pipe' = [x \in Stream |-> pipe'[x]]
      BY <3>1
    <3> QED BY <3>2, <3>3
  <2> QED BY <1>1, <2>1, <2>2 DEF Child, NoteExit
<1>2. CASE ChildExit \/ ChildObeys
  <2>1. pipe' = pipe /\ alive /\ ~ alive'
    BY <1>2 DEF ChildExit, ChildObeys
  <2> QED BY <2>1 DEF Child, NoteExit
<1> QED BY <1>1, <1>2 DEF Child

(* No caller goes on without output that it could have read, for every     *)
(* capacity, every output of the process and every interleaving.           *)
THEOREM Complete == Spec => []OutputComplete
<1>1. IInv /\ [Next]_vars => IInv'
  <2> SUFFICES ASSUME IInv, [Next]_vars PROVE IInv'
    OBVIOUS
  <2>1. CASE Call
    BY <2>1, Z3Keeps, TerminalKeeps, RunWaitKeeps DEF Call
  <2>2. CASE Child
    BY <2>2, ChildKeeps
  <2>3. CASE UNCHANGED vars
    BY <2>3 DEF IInv, Pipes, Z3Knows, TerminalKnows, RunWaitKnows, AllRead, EndOfStream,
                vars, childVars, z3Vars, terminalVars, waitVars
  <2> QED BY <2>1, <2>2, <2>3 DEF Next
<1>2. IInv => OutputComplete
  BY DEF IInv, Z3Knows, TerminalKnows, RunWaitKnows, OutputComplete
<1> QED BY InitKnows, <1>1, <1>2, PTL DEF Spec

=============================================================================
