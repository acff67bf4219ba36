---------------------------- MODULE PathCampaign ----------------------------
(***************************************************************************)
(* What a generation of test data over a list of test paths promises: each *)
(* path is attempted a bounded number of times and never again once it has *)
(* been solved, and the results come out together when there is nothing    *)
(* left to attempt, or not at all.                                         *)
(***************************************************************************)
EXTENDS Integers

CONSTANTS
  Campaigns,  \* the sets of paths considered
  Attempts    \* how often one path may be attempted, at least once

VARIABLES
  tries,    \* path -> finished attempts
  solved,   \* the paths solved
  outcome   \* "running", "published" or "lost"

cvars == <<tries, solved, outcome>>

Open == {p \in DOMAIN tries : p \notin solved /\ tries[p] < Attempts}

CInit ==
  /\ \E Path \in Campaigns : tries = [p \in Path |-> 0]
  /\ solved = {}
  /\ outcome = "running"

Attempt(p) ==
  /\ outcome = "running"
  /\ p \in Open
  /\ tries' = [tries EXCEPT ![p] = @ + 1]
  /\ solved' \in {solved, solved \cup {p}}
  /\ UNCHANGED outcome

Publish ==
  /\ outcome = "running"
  /\ Open = {}
  /\ outcome' = "published"
  /\ UNCHANGED <<tries, solved>>

Lose ==
  /\ outcome = "running"
  /\ outcome' = "lost"
  /\ solved' = {}
  /\ UNCHANGED tries

CNext == (\E p \in DOMAIN tries : Attempt(p)) \/ Publish \/ Lose

CSafety == CInit /\ [][CNext]_cvars
CSpec   == CSafety /\ WF_cvars(CNext)

=============================================================================
