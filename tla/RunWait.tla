------------------------------- MODULE RunWait -------------------------------
(***************************************************************************)
(* cia.api.CppEnvironmentParser.runWait: one thread polls both streams of  *)
(* g++, make or qmake without ever blocking on them, and destroys the      *)
(* process when its limits are over.                                       *)
(***************************************************************************)
EXTENDS ChildProcess

CONSTANTS
  RunTimeLimit, TerminateTimeLimit,
  MaxDelta   \* bound of this model on the time that passes between two polls

ASSUME LimitsAssumption ==
  RunTimeLimit \in Nat /\ TerminateTimeLimit \in Nat /\ MaxDelta \in Nat \ {0}

VARIABLES
  heeds,       \* whether the process ends when destroy asks it to
  canDestroy,
  runningTime,
  killed,      \* destroyForcibly
  late         \* history: the process ended after a look at the first stream

waitVars == <<heeds, canDestroy, runningTime, killed, late>>

RunWaitInit ==
  /\ heeds \in BOOLEAN /\ canDestroy = TRUE /\ runningTime = 0
  /\ killed = FALSE /\ late = FALSE

(* Mutant of OutputReady: the loop goes on while the process is alive.    *)
OnlyAlive ==
  /\ pc = "outputReady" /\ pc' = "isAlive"
  /\ UNCHANGED <<childVars, waitVars>>

(* while (inputReader.ready() || errorReader.ready() || process.isAlive()) *)
OutputReady ==
  /\ pc = "outputReady"
  /\ pc' = IF pipe["out"] > 0 THEN "readOutput" ELSE "errorReady"
  /\ UNCHANGED <<childVars, waitVars>>

ErrorReady ==
  /\ pc = "errorReady"
  /\ pc' = IF pipe["err"] > 0 THEN "readOutput" ELSE "isAlive"
  /\ UNCHANGED <<childVars, waitVars>>

IsAlive ==
  /\ pc = "isAlive"
  /\ pc' = IF alive THEN "readOutput" ELSE "end"
  /\ UNCHANGED <<childVars, waitVars>>

(* read gets some of what is there. *)
ReadReady(s) ==
  /\ IF pipe[s] > 0 THEN \E n \in 0 .. pipe[s] - 1 : pipe' = [pipe EXCEPT ![s] = n]
     ELSE UNCHANGED pipe
  /\ UNCHANGED <<rest, ends, alive, waitVars>>

PollOutput == pc = "readOutput" /\ pc' = "readError" /\ ReadReady("out")
PollError  == pc = "readError" /\ pc' = "pause" /\ ReadReady("err")

Idle == pc = "pause" /\ alive /\ \A s \in Stream : pipe[s] = 0

LeavePause ==
  /\ pc = "pause" /\ ~ Idle
  /\ pc' = "outputReady"
  /\ UNCHANGED <<childVars, waitVars>>

(* runningTime grows by the time since the last pause, and the process is  *)
(* asked to end when it reaches the first limit, killed after the second.  *)
Pause ==
  /\ Idle
  /\ \E delta \in 1 .. MaxDelta :
       LET t == runningTime + delta IN
         \/ /\ canDestroy /\ t >= RunTimeLimit
            /\ canDestroy' = FALSE /\ runningTime' = t - RunTimeLimit
            /\ UNCHANGED <<alive, pc, killed>>
         \/ /\ ~ canDestroy /\ t > TerminateTimeLimit
            /\ runningTime' = t
            /\ killed' = TRUE /\ alive' = FALSE /\ pc' = "end"
            /\ UNCHANGED canDestroy
         \/ /\ IF canDestroy THEN t < RunTimeLimit ELSE t <= TerminateTimeLimit
            /\ runningTime' = t
            /\ UNCHANGED <<alive, pc, killed, canDestroy>>
  /\ UNCHANGED <<rest, ends, pipe, heeds, late>>

ParserRunWait ==
  OutputReady \/ ErrorReady \/ IsAlive \/ PollOutput \/ PollError \/ LeavePause \/ Pause

(* The process ends because destroy has asked it to. *)
ChildObeys ==
  /\ alive /\ ~ canDestroy /\ heeds
  /\ alive' = FALSE
  /\ UNCHANGED <<rest, ends, pipe>>

NoteExit ==
  /\ late' = (late \/ (alive /\ ~ alive' /\ pc \in {"errorReady", "isAlive"}))
  /\ UNCHANGED <<heeds, canDestroy, runningTime, killed>>

RunWaitTypeOK ==
  /\ heeds \in BOOLEAN /\ canDestroy \in BOOLEAN /\ killed \in BOOLEAN /\ late \in BOOLEAN
  /\ runningTime \in 0 .. RunTimeLimit + TerminateTimeLimit + MaxDelta

=============================================================================
