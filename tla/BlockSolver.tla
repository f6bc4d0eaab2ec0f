---------------------------- MODULE BlockSolver ----------------------------
(***************************************************************************)
(* The multi-threaded nonce search of src/apps/bcapp/main_block_solver.c.  *)
(*                                                                         *)
(* main starts N threads.  Each runs worker_proc: take the next range of   *)
(* nonces from the pool under mtx_tasks (find_nonce_next_task), hash it    *)
(* (find_nonce), print a solution and call exit (worker_pool_put_task), or *)
(* stop when the pool is drained.  main joins the threads in order.        *)
(*                                                                         *)
(* A candidate is a pair <<timestamp, nonce>>: the two header fields the   *)
(* program varies.  A target is the set of the candidates whose hash is    *)
(* not above it, so the hash itself needs no model.                        *)
(***************************************************************************)
EXTENDS Integers

CONSTANTS
  N,            \* threads, and nonce_chunks: 20 in the code
  T,            \* timestamp_max - header.timestamp: 0 in the code
  NonceMax,     \* the largest nonce: 0xFFFFFFFF in the code
  TimeMod,      \* timestamps are uint32_t: 2^32 in the code
  Timestamp,    \* header.timestamp of the block file
  BitsTargets,  \* the targets that the header's bits field may encode
  ArgTargets,   \* what argv[2] may be: targets, or NoTarget when absent
  NoTarget,
  NoWorker      \* mtx_tasks is free

ASSUME NAssumption == N \in Nat \ {0}
ASSUME TAssumption == T \in Nat
ASSUME NonceAssumption == NonceMax \in Nat
ASSUME TimeAssumption == TimeMod \in Nat /\ Timestamp \in 0..(TimeMod - 1)
ASSUME NoWorkerAssumption == NoWorker \notin 0..(N - 1)

Workers == 0..(N - 1)
Nonces == 0..NonceMax
Times == 0..(TimeMod - 1)

VARIABLES
  target,       \* the target the workers compare with
  optTarget,    \* the target on the command line, or NoTarget
  poolTime,     \* pool->timestamp
  poolNonce,    \* pool->nonce
  mtx,          \* the holder of mtx_tasks, or NoWorker
  pc,           \* pc[w]: where thread w is
  seen,         \* seen[w]: find_nonce_next_task's locals a and t
  task,         \* task[w]: its find_nonce_task_t, nonce = the next to hash
  spawned,      \* the index of main's thrd_create loop
  joined,       \* the index of main's thrd_join loop
  tested,       \* history: the candidates hashed and compared
  reported,     \* history: the headers printed as solved
  outcome       \* "running", "solved", "returned" or "crashed"

inputs == <<target, optTarget>>
pool == <<poolTime, poolNonce>>
locals == <<seen, task>>
loops == <<spawned, joined>>
log == <<tested, reported>>
vars == <<inputs, pool, mtx, pc, locals, loops, log, outcome>>

(* Where a thread can be.  "unborn": thrd_create has not run; "notCreated": *)
(* it failed; "get": before mtx_trylock; "waiting": in mtx_lock; "locked",  *)
(* "read", "unlock" and "unlockEmpty": in the critical section; "work": in  *)
(* find_nonce; "solved" and "exiting": in worker_pool_put_task; "retired":  *)
(* done because the pool is drained; "gaveUp": done because mtx_lock failed.*)
Holding == {"locked", "read", "unlock", "unlockEmpty"}
Finished == {"retired", "gaveUp"}
PCs == {"unborn", "notCreated", "get", "waiting", "work", "solved", "exiting"}
         \cup Holding \cup Finished

timestamp_max == (Timestamp + T) % TimeMod

nonce_chunk == NonceMax \div N

(* Mutant: the last range is not clipped. *)
RangeEndUnclipped(a) == a + nonce_chunk

(* The last nonce of the range that starts at nonce a. *)
RangeEnd(a) == IF a + nonce_chunk > NonceMax THEN NonceMax ELSE a + nonce_chunk

(* argc counts the program name, so an argv[2] makes it 3. *)
argc == IF optTarget = NoTarget THEN 2 ELSE 3

(* main: `argc > 3 ? argv[2] : NULL`, else the target of header.bits. *)
ChosenTarget(bits, arg, n) == IF n > 3 THEN arg ELSE bits

Init ==
  /\ optTarget \in ArgTargets
  /\ \E bits \in BitsTargets : target = ChosenTarget(bits, optTarget, argc)
  /\ poolTime = Timestamp
  /\ poolNonce = 0
  /\ mtx = NoWorker
  /\ pc = [w \in Workers |-> "unborn"]
  /\ seen = [w \in Workers |-> [nonce |-> 0, time |-> 0]]
  /\ task = [w \in Workers |-> [time |-> 0, nonce |-> 0, max |-> 0]]
  /\ spawned = 0
  /\ joined = 0
  /\ tested = {}
  /\ reported = {}
  /\ outcome = "running"
-----------------------------------------------------------------------------
(* main *)

(* The process is alive, and thread w goes on to `to`. *)
Go(w, to) == outcome = "running" /\ pc' = [pc EXCEPT ![w] = to]

(* The result of thrd_create is not looked at, so a failure goes unnoticed. *)
Spawn ==
  /\ spawned < N
  /\ Go(spawned, "get") \/ Go(spawned, "notCreated")
  /\ spawned' = spawned + 1
  /\ UNCHANGED <<inputs, pool, mtx, locals, joined, log, outcome>>

Join ==
  /\ outcome = "running" /\ spawned = N /\ joined < N
  /\ pc[joined] \in Finished \cup {"notCreated"}
  /\ joined' = joined + 1
  /\ UNCHANGED <<inputs, pool, mtx, pc, locals, spawned, log, outcome>>

(* Joining a thread id that thrd_create did not set is undefined: thrd_join *)
(* may fail and be ignored (Join), or end the process.                      *)
JoinCrash ==
  /\ outcome = "running" /\ spawned = N /\ joined < N
  /\ pc[joined] = "notCreated"
  /\ outcome' = "crashed"
  /\ UNCHANGED <<inputs, pool, mtx, pc, locals, loops, log>>

MainReturn ==
  /\ outcome = "running" /\ spawned = N /\ joined = N
  /\ outcome' = "returned"
  /\ UNCHANGED <<inputs, pool, mtx, pc, locals, loops, log>>

Main == Spawn \/ Join \/ JoinCrash \/ MainReturn
-----------------------------------------------------------------------------
(* worker_pool_get_task and find_nonce_next_task, in thread w *)

(* Mutant: the lock is taken whoever holds it. *)
MtxIgnored == TRUE

MtxFree == mtx = NoWorker

(* mtx_trylock succeeds, or the mtx_lock after it. *)
Lock(w) ==
  /\ pc[w] \in {"get", "waiting"} /\ MtxFree
  /\ Go(w, "locked")
  /\ mtx' = w
  /\ UNCHANGED <<inputs, pool, locals, loops, log, outcome>>

(* mtx_trylock fails: C11 lets it report a free mutex as busy too. *)
TryLockBusy(w) ==
  /\ pc[w] = "get"
  /\ Go(w, "waiting")
  /\ UNCHANGED <<inputs, pool, mtx, locals, loops, log, outcome>>

(* "lock failed": return 0, which worker_proc takes for a drained pool. *)
LockFails(w) ==
  /\ pc[w] = "waiting"
  /\ Go(w, "gaveUp")
  /\ UNCHANGED <<inputs, pool, mtx, locals, loops, log, outcome>>

(* a = pool->nonce; t = pool->timestamp *)
ReadPool(w) ==
  /\ pc[w] = "locked"
  /\ Go(w, "read")
  /\ seen' = [seen EXCEPT ![w] = [nonce |-> poolNonce, time |-> poolTime]]
  /\ UNCHANGED <<inputs, pool, mtx, task, loops, log, outcome>>

(* Mutants: the next range begins at the last nonce of this one; time has *)
(* more than 32 bits; the last timestamp is left out.                     *)
NextNonceOverlaps(b) == IF b = NonceMax THEN 0 ELSE b
NextTimeWide(b) == IF b = NonceMax THEN poolTime + 1 ELSE poolTime
TasksLeftShort(t) == t < timestamp_max

(* `t > pool->timestamp_max` returns 0. *)
TasksLeft(t) == t <= timestamp_max

(* Where the pool stands after a range that ends in nonce b was taken. *)
NextTime(b) == IF b = NonceMax THEN (poolTime + 1) % TimeMod ELSE poolTime
NextNonce(b) == IF b = NonceMax THEN 0 ELSE b + 1

TakeTask(w) ==
  /\ pc[w] = "read" /\ TasksLeft(seen[w].time)
  /\ LET a == seen[w].nonce
         b == RangeEnd(a)
     IN  /\ poolTime' = NextTime(b)
         /\ poolNonce' = NextNonce(b)
         /\ task' = [task EXCEPT ![w] =
                       [time |-> seen[w].time, nonce |-> a, max |-> b]]
  /\ Go(w, "unlock")
  /\ UNCHANGED <<inputs, mtx, seen, loops, log, outcome>>

NoTasksLeft(w) ==
  /\ pc[w] = "read" /\ ~TasksLeft(seen[w].time)
  /\ Go(w, "unlockEmpty")
  /\ UNCHANGED <<inputs, pool, mtx, locals, loops, log, outcome>>

(* Mutant: return from the branch without a task before mtx_unlock. *)
ReleasedIfTask(w) == IF pc[w] = "unlock" THEN NoWorker ELSE mtx

Released(w) == NoWorker

(* mtx_unlock; with no task worker_proc leaves its loop and the thread ends. *)
Unlock(w) ==
  /\ \/ pc[w] = "unlock" /\ Go(w, "work")
     \/ pc[w] = "unlockEmpty" /\ Go(w, "retired")
  /\ mtx' = Released(w)
  /\ UNCHANGED <<inputs, pool, locals, loops, log, outcome>>
-----------------------------------------------------------------------------
(* find_nonce and worker_pool_put_task, in thread w *)

Candidate(w) == <<task[w].time, task[w].nonce>>

(* Mutant: the end of the range counts as a solution. *)
BeatsAtEnd(w) == Candidate(w) \in target \/ task[w].nonce = task[w].max

(* i256_le(hash, task->target.data) *)
Beats(w) == Candidate(w) \in target

(* The task with its nonce, the loop variable of find_nonce, advanced. *)
Advanced(k) == [time |-> k.time, nonce |-> k.nonce + 1, max |-> k.max]

(* The hash is above the target: the loop goes on, or find_nonce returns 0. *)
TestNonce(w) ==
  /\ pc[w] = "work" /\ ~Beats(w)
  /\ tested' = tested \cup {Candidate(w)}
  /\ IF task[w].nonce < task[w].max
       THEN Go(w, "work") /\ task' = [task EXCEPT ![w] = Advanced(@)]
       ELSE Go(w, "get") /\ task' = task
  /\ UNCHANGED <<inputs, pool, mtx, seen, loops, reported, outcome>>

(* return 1, with the nonce left in task->header *)
FindNonce(w) ==
  /\ pc[w] = "work" /\ Beats(w)
  /\ tested' = tested \cup {Candidate(w)}
  /\ Go(w, "solved")
  /\ UNCHANGED <<inputs, pool, mtx, locals, loops, reported, outcome>>

PutTask(w) ==
  /\ pc[w] = "solved"
  /\ reported' = reported \cup {Candidate(w)}
  /\ Go(w, "exiting")
  /\ UNCHANGED <<inputs, pool, mtx, locals, loops, tested, outcome>>

(* exit(0) ends the process; until it has, the other threads still run. *)
Exit(w) ==
  /\ outcome = "running" /\ pc[w] = "exiting"
  /\ outcome' = "solved"
  /\ UNCHANGED <<inputs, pool, mtx, pc, locals, loops, log>>
-----------------------------------------------------------------------------
(* What thread w does as long as it is scheduled and mtx_lock works. *)
Work(w) ==
  \/ Lock(w) \/ TryLockBusy(w)
  \/ ReadPool(w) \/ TakeTask(w) \/ NoTasksLeft(w) \/ Unlock(w)
  \/ TestNonce(w) \/ FindNonce(w) \/ PutTask(w) \/ Exit(w)

(* The process is gone: nothing happens any more. *)
Ended == outcome # "running" /\ UNCHANGED vars

Next ==
  \/ Main
  \/ \E w \in Workers : Work(w) \/ LockFails(w)
  \/ Ended

Spec == Init /\ [][Next]_vars

(* The operating system schedules every thread, and mtx_lock is not unfair *)
(* for ever: weak fairness of each thread's own steps.  No fairness is      *)
(* assumed of the failures, nor that a waiting thread wins against others. *)
FairSpec == Spec /\ WF_vars(Main) /\ \A w \in Workers : WF_vars(Work(w))
-----------------------------------------------------------------------------
(* Properties *)

(* The header's timestamp range does not run into the end of uint32_t. *)
NoWrap == Timestamp + T + 1 < TimeMod

(* Every pair the program sets out to try. *)
Candidates == (Timestamp..(Timestamp + T)) \X Nonces

(* Every variable has its type. *)
TypeOK ==
  /\ poolTime \in Times
  /\ poolNonce \in Nonces
  /\ mtx \in Workers \cup {NoWorker}
  /\ pc \in [Workers -> PCs]
  /\ seen \in [Workers -> [nonce : Nonces, time : Times]]
  /\ task \in [Workers -> [time : Times, nonce : Nonces, max : Nonces]]
  /\ spawned \in 0..N
  /\ joined \in 0..N
  /\ tested \subseteq Times \X Nonces
  /\ reported \subseteq Times \X Nonces
  /\ outcome \in {"running", "solved", "returned", "crashed"}

(* The candidates that thread w has taken and not hashed yet. *)
Remaining(w) ==
  IF pc[w] \in {"unlock", "work"}
    THEN {task[w].time} \X (task[w].nonce .. task[w].max)
    ELSE {}

(* The candidates of the ranges the pool has handed out so far. *)
Handed ==
  {c \in (Timestamp..poolTime) \X Nonces :
     c[1] < poolTime \/ c[2] < poolNonce}

Solvers == {w \in Workers : pc[w] \in {"solved", "exiting"}}

(* No candidate falls between two ranges and none is in two: what the pool *)
(* has handed out is what was hashed and what some thread still holds, and *)
(* the parts do not overlap.  Only a thread that found a solution drops    *)
(* the rest of its range.  (find_nonce_next_task's a + nonce_chunk, the    *)
(* clipping of the last range, and the unlocked hashing in find_nonce.)    *)
Partition ==
  /\ \A w \in Workers : Remaining(w) \subseteq Handed \ tested
  /\ \A v, w \in Workers : v # w => Remaining(v) \cap Remaining(w) = {}
  /\ tested \subseteq Handed
  /\ Solvers = {} =>
       Handed = tested \cup UNION {Remaining(w) : w \in Workers}

(* A drained pool means that the search is over: once any thread was told  *)
(* "no tasks left" and the program returns, every candidate of every       *)
(* timestamp was hashed and none beats the target, although other threads  *)
(* may have failed to start or to take the lock.                           *)
Exhaustive ==
  outcome = "returned" /\ (\E w \in Workers : pc[w] = "retired")
    => tested = Candidates /\ tested \cap target = {}

(* What is printed as solved was hashed, beats the target, and lies in the *)
(* header's own time range, even when several threads print before exit.   *)
ReportsSound ==
  /\ reported \subseteq tested \cap target \cap Candidates
  /\ outcome = "solved" => reported # {}

(* find_nonce_next_task cuts the nonces into at most nonce_chunks ranges,  *)
(* so with T = 0 a pool of N threads never has more ranges than threads:   *)
(* a thread that takes a second range leaves another one without any.      *)
RangesPerTime == poolNonce <= (N - 1) * (nonce_chunk + 1)

(* With a header.timestamp at the top of uint32_t, `pool->timestamp += 1`  *)
(* wraps below timestamp_max, so no thread is ever told "no tasks left".   *)
WrapNeverDrains ==
  Timestamp + T = TimeMod - 1 => \A w \in Workers : pc[w] # "retired"

(* The program always ends: a waiting thread gets the lock in the end,     *)
(* because the pool drains or a solution calls exit.                       *)
Terminates == <>(outcome # "running")

(* A solution in the search space is found and printed, unless a C11 call  *)
(* failed on the way.                                                      *)
Solves ==
  target \cap Candidates # {} =>
    <>(\/ outcome = "solved"
       \/ \E w \in Workers : pc[w] \in {"notCreated", "gaveUp"})

(* The abstract search this program implements, for a target of the        *)
(* header's bits, whatever target the command line gives.                  *)
incomplete == \A w \in Workers : pc[w] # "retired"

Search == INSTANCE NonceSearch WITH Targets <- BitsTargets

(* The threads, their ranges and the lock implement the one-at-a-time      *)
(* search: no candidate is hashed twice, and the ways to end are the same. *)
ImplementsSearch == Search!Spec

=============================================================================
