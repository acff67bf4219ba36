---------------------------- MODULE ChildProcess ----------------------------
(***************************************************************************)
(* A process that a tool of the repository starts and whose output it      *)
(* reads: Z3, a compiler, or the executable with the test.  It writes to   *)
(* two pipes of limited capacity, blocks while the one it writes to is     *)
(* full, and may or may not end by itself.  Output is counted in pieces;   *)
(* the pieces of a stream are read in the order they were written.         *)
(***************************************************************************)
EXTENDS Integers, Sequences, SequencesExt

CONSTANTS
  Capacity,   \* of a pipe
  MaxWrites   \* bound of this model on the output of the process

ASSUME CapacityAssumption == Capacity \in Nat \ {0} /\ MaxWrites \in Nat

VARIABLES
  rest,   \* the streams the process will write to
  ends,   \* whether it ends when it has written everything
  alive,
  pipe,   \* what has been written to each stream and not been read
  pc      \* of the thread that has started it

childVars == <<rest, ends, alive, pipe>>

Stream == {"out", "err"}

ChildInit ==
  /\ rest \in BoundedSeq(Stream, MaxWrites)
  /\ ends \in BOOLEAN
  /\ alive = TRUE
  /\ pipe = [s \in Stream |-> 0]

ChildWrite ==
  /\ alive /\ rest # <<>> /\ pipe[Head(rest)] < Capacity
  /\ pipe' = [pipe EXCEPT ![Head(rest)] = @ + 1]
  /\ rest' = Tail(rest)
  /\ UNCHANGED <<ends, alive>>

ChildExit ==
  /\ alive /\ rest = <<>> /\ ends
  /\ alive' = FALSE
  /\ UNCHANGED <<rest, ends, pipe>>

(* BufferedReader.readLine: a piece, or null at the end of the stream      *)
ReadLine(s) ==
  /\ pipe[s] > 0
  /\ pipe' = [pipe EXCEPT ![s] = @ - 1]
  /\ UNCHANGED <<rest, ends, alive>>

EndOfStream(s) == pipe[s] = 0 /\ ~ alive

Pending(s) == Len(SelectSeq(rest, LAMBDA x : x = s))

ChildTypeOK ==
  /\ rest \in Seq(Stream) /\ ends \in BOOLEAN /\ alive \in BOOLEAN
  /\ pipe \in [Stream -> 0 .. Capacity]

(* Everything the process has written, and ever will, has been read. *)
AllRead == ~ alive /\ \A s \in Stream : pipe[s] = 0

=============================================================================
