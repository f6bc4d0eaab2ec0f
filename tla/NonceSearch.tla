---------------------------- MODULE NonceSearch ----------------------------
(***************************************************************************)
(* What the block solver promises, without threads, ranges or a lock: the  *)
(* candidates are hashed one at a time and never twice, only a candidate   *)
(* that beats the target is reported, a solution ends the program as       *)
(* "solved", and the program says "returned" only after it has hashed      *)
(* every candidate in vain.  The one escape is a pool in which no worker   *)
(* reached the end of the search (Incomplete): a C11 call failed.          *)
(***************************************************************************)
CONSTANTS Candidates,  \* the <<timestamp, nonce>> pairs the program must try
          Targets      \* each target, as the set of candidates that beat it

VARIABLES target,      \* the target of this execution
          tested,      \* the candidates whose hash has been compared
          reported,    \* the candidates printed as solutions
          incomplete,  \* no worker was there to exhaust the search
          outcome      \* "running", "solved", "returned" or "crashed"

vars == <<target, tested, reported, incomplete, outcome>>

Init ==
  /\ target \in Targets
  /\ tested = {}
  /\ reported = {}
  /\ incomplete = TRUE
  /\ outcome = "running"

(* One candidate nobody has hashed yet is hashed. *)
Test(c) ==
  /\ outcome = "running"
  /\ c \notin tested
  /\ tested' = tested \cup {c}
  /\ UNCHANGED <<target, reported, incomplete, outcome>>

(* A hashed candidate that beats the target is printed. *)
Report(c) ==
  /\ outcome = "running"
  /\ c \in tested \cap target
  /\ reported' = reported \cup {c}
  /\ UNCHANGED <<target, tested, incomplete, outcome>>

(* A printed solution ends the program. *)
Solve ==
  /\ outcome = "running"
  /\ reported # {}
  /\ outcome' = "solved"
  /\ UNCHANGED <<target, tested, reported, incomplete>>

(* Some worker is told that there is no work left. *)
Drain ==
  /\ outcome = "running"
  /\ incomplete' = FALSE
  /\ UNCHANGED <<target, tested, reported, outcome>>

(* The program ends without a solution: the search is exhausted, or nobody *)
(* was there to exhaust it.                                                *)
Return ==
  /\ outcome = "running"
  /\ incomplete \/ (Candidates \subseteq tested /\ tested \cap target = {})
  /\ outcome' = "returned"
  /\ UNCHANGED <<target, tested, reported, incomplete>>

(* Joining a thread that was never created may end the process. *)
Crash ==
  /\ outcome = "running"
  /\ outcome' = "crashed"
  /\ UNCHANGED <<target, tested, reported, incomplete>>

Next ==
  \/ \E c \in Candidates : Test(c) \/ Report(c)
  \/ Solve
  \/ Drain
  \/ Return
  \/ Crash

Spec == Init /\ [][Next]_vars

=============================================================================
