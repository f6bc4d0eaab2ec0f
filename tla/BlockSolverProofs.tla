------------------------- MODULE BlockSolverProofs -------------------------
(***************************************************************************)
(* Theorems about BlockSolver, for every number of threads, every range of *)
(* nonces and every target.                                                *)
(***************************************************************************)
EXTENDS BlockSolver, TLAPS

(* Abbreviations of the actions, expanded in every proof. *)
USE DEF Go, inputs, pool, locals, loops, log

(***************************************************************************)
(* Arithmetic of the pool.                                                 *)
(***************************************************************************)

LEMMA ModBound ==
  ASSUME NEW a \in Nat
  PROVE  a % TimeMod \in Times
  BY TimeAssumption, SMT DEF Times

LEMMA ModSmall ==
  ASSUME NEW a \in Nat, a < TimeMod
  PROVE  a % TimeMod = a
  BY TimeAssumption, SMT

LEMMA ChunkNat == nonce_chunk \in Nat
  BY NAssumption, NonceAssumption, SMT DEF nonce_chunk

(* A range is not empty and stays within the nonces. *)
LEMMA RangeEndBounds ==
  ASSUME NEW a \in Nonces
  PROVE  RangeEnd(a) \in Nonces /\ a <= RangeEnd(a)
  BY ChunkNat, NonceAssumption, SMT DEF RangeEnd, Nonces

-----------------------------------------------------------------------------
(***************************************************************************)
(* Type correctness.                                                       *)
(***************************************************************************)

LEMMA InitType == Init => TypeOK
  <1> SUFFICES ASSUME Init
               PROVE  TypeOK
    OBVIOUS
  <1>1. 0 \in Times /\ Timestamp \in Times /\ 0 \in Nonces /\ 0 \in 0..N
    BY NAssumption, NonceAssumption, TimeAssumption DEF Times, Nonces
  <1> QED
    BY <1>1 DEF Init, TypeOK, PCs

LEMMA NextType == TypeOK /\ [Next]_vars => TypeOK'
  <1> SUFFICES ASSUME TypeOK, [Next]_vars
               PROVE  TypeOK'
    OBVIOUS
  <1> USE DEF TypeOK, Workers, PCs, Holding, Finished
  <1>1. ASSUME Spawn
        PROVE  TypeOK'
    BY <1>1, NAssumption DEF Spawn
  <1>2. ASSUME Join
        PROVE  TypeOK'
    BY <1>2, NAssumption DEF Join
  <1>3. ASSUME JoinCrash \/ MainReturn
        PROVE  TypeOK'
    BY <1>3 DEF JoinCrash, MainReturn
  <1>4. ASSUME NEW w \in Workers,
               TryLockBusy(w) \/ Lock(w) \/ LockFails(w)
        PROVE  TypeOK'
    BY <1>4 DEF TryLockBusy, Lock, LockFails
  <1>5. ASSUME NEW w \in Workers, ReadPool(w) \/ NoTasksLeft(w)
        PROVE  TypeOK'
    BY <1>5 DEF ReadPool, NoTasksLeft
  <1>6. ASSUME NEW w \in Workers, TakeTask(w)
        PROVE  TypeOK'
    <2> DEFINE b == RangeEnd(seen[w].nonce)
    <2>1. b \in Nonces
      BY RangeEndBounds
    <2> HIDE DEF b
    <2>2. NextTime(b) \in Times
      <3>1. poolTime + 1 \in Nat
        BY TimeAssumption DEF Times
      <3>2. (poolTime + 1) % TimeMod \in Times
        BY <3>1, ModBound
      <3> QED
        BY <3>2 DEF NextTime
    <2>3. NextNonce(b) \in Nonces
      BY <2>1, NonceAssumption DEF NextNonce, Nonces
    <2>4. /\ poolTime' = NextTime(b)
          /\ poolNonce' = NextNonce(b)
          /\ task' = [task EXCEPT ![w] =
                        [time |-> seen[w].time, nonce |-> seen[w].nonce,
                         max |-> b]]
          /\ pc' = [pc EXCEPT ![w] = "unlock"]
          /\ UNCHANGED <<mtx, seen, loops, log, outcome>>
      BY <1>6 DEF TakeTask, b
    <2> QED
      BY <2>1, <2>2, <2>3, <2>4
  <1>7. ASSUME NEW w \in Workers, Unlock(w)
        PROVE  TypeOK'
    BY <1>7 DEF Unlock, Released
  <1>8. ASSUME NEW w \in Workers, TestNonce(w)
        PROVE  TypeOK'
    <2>1. task' \in [Workers -> [time : Times, nonce : Nonces, max : Nonces]]
      BY <1>8, NonceAssumption DEF TestNonce, Nonces, Advanced
    <2>2. Candidate(w) \in Times \X Nonces
      BY DEF Candidate
    <2> QED
      BY <1>8, <2>1, <2>2 DEF TestNonce
  <1>9. ASSUME NEW w \in Workers, FindNonce(w) \/ PutTask(w)
        PROVE  TypeOK'
    <2>1. Candidate(w) \in Times \X Nonces
      BY DEF Candidate
    <2> QED
      BY <1>9, <2>1 DEF FindNonce, PutTask
  <1>10. ASSUME NEW w \in Workers, Exit(w)
         PROVE  TypeOK'
    BY <1>10 DEF Exit
  <1>11. ASSUME UNCHANGED vars
         PROVE  TypeOK'
    BY <1>11 DEF vars
  <1> QED
    BY <1>1, <1>2, <1>3, <1>4, <1>5, <1>6, <1>7, <1>8, <1>9, <1>10, <1>11
       DEF Next, Main, Work, Ended

(* Every variable keeps its type, also when the timestamps wrap around. *)
THEOREM TypeCorrect == Spec => []TypeOK
  BY InitType, NextType, PTL DEF Spec

-----------------------------------------------------------------------------
(***************************************************************************)
(* The inductive invariant.  Partition by itself is not inductive: it also *)
(* needs the mutual exclusion of the pool's critical section (LockInv),    *)
(* that the values read there are still the pool's when they are used      *)
(* (ReadInv), where the pool can stand (PoolInv), and what a thread's      *)
(* state says of the pool and of what was hashed.  The parts are pointwise *)
(* in the candidate <<t, n>>.                                              *)
(***************************************************************************)

(* The pool's timestamp when it is drained. *)
End == Timestamp + T + 1

(* Thread w has taken the candidate <<t, n>> and not hashed it yet. *)
Left(w, t, n) ==
  /\ pc[w] \in {"unlock", "work"}
  /\ t = task[w].time
  /\ task[w].nonce <= n
  /\ n <= task[w].max

(* The pool has handed <<t, n>> out. *)
Out(t, n) ==
  /\ Timestamp <= t
  /\ t < poolTime \/ (t = poolTime /\ n < poolNonce)

NoSolver == \A w \in Workers : pc[w] \notin {"solved", "exiting"}

LockInv == \A w \in Workers : pc[w] \in Holding <=> mtx = w

ReadInv ==
  \A w \in Workers :
    pc[w] = "read" => seen[w].nonce = poolNonce /\ seen[w].time = poolTime

PoolInv ==
  /\ Timestamp <= poolTime /\ poolTime <= End
  /\ poolTime = End => poolNonce = 0

DrainInv ==
  \A w \in Workers : pc[w] \in {"unlockEmpty", "retired"} => poolTime = End

(* A range in use is not empty, was handed out and is not hashed. *)
LeftInv ==
  \A w \in Workers :
    /\ pc[w] \in {"unlock", "work"} => task[w].nonce <= task[w].max
    /\ \A t \in Times, n \in Nonces :
         Left(w, t, n) => Out(t, n) /\ <<t, n>> \notin tested

DisjointInv ==
  \A v, w \in Workers : v # w =>
    \A t \in Times, n \in Nonces : ~(Left(v, t, n) /\ Left(w, t, n))

TestedInv == \A t \in Times, n \in Nonces : <<t, n>> \in tested => Out(t, n)

(* Nothing that was handed out is lost, until a solution is found. *)
CoverInv ==
  NoSolver =>
    \A t \in Times, n \in Nonces :
      Out(t, n) => <<t, n>> \in tested \/ \E w \in Workers : Left(w, t, n)

SolverInv ==
  /\ \A w \in Workers :
       pc[w] \in {"solved", "exiting"} => Candidate(w) \in tested \cap target
  /\ NoSolver => tested \cap target = {}

ReportInv ==
  /\ reported \subseteq tested \cap target
  /\ \A w \in Workers : pc[w] = "exiting" => Candidate(w) \in reported
  /\ outcome = "solved" => reported # {}

MainInv ==
  /\ \A w \in Workers : w >= spawned => pc[w] = "unborn"
  /\ \A w \in Workers :
       w < joined => pc[w] \in {"notCreated", "retired", "gaveUp"}
  /\ outcome = "returned" => joined = N

PartInv == LeftInv /\ DisjointInv /\ TestedInv /\ CoverInv

Inv ==
  /\ TypeOK
  /\ LockInv
  /\ ReadInv
  /\ PoolInv
  /\ DrainInv
  /\ PartInv
  /\ SolverInv
  /\ ReportInv
  /\ MainInv

LEMMA InitInv == NoWrap /\ Init => Inv
  <1> SUFFICES ASSUME NoWrap, Init
               PROVE  Inv
    OBVIOUS
  <1>1. TypeOK
    BY InitType
  <1>2. LockInv /\ ReadInv /\ DrainInv
    BY NoWorkerAssumption DEF Init, LockInv, ReadInv, DrainInv, Holding, Workers
  <1>3. PoolInv
    BY TAssumption, TimeAssumption DEF Init, PoolInv, End
  <1>4. PartInv
    BY TimeAssumption DEF Init, PartInv, LeftInv, DisjointInv, TestedInv,
                          CoverInv, Left, Out, Times, Nonces
  <1>5. SolverInv /\ ReportInv
    BY DEF Init, SolverInv, ReportInv
  <1>6. MainInv
    BY NAssumption DEF Init, MainInv, Workers
  <1> QED
    BY <1>1, <1>2, <1>3, <1>4, <1>5, <1>6 DEF Inv

(* A step that moves no thread into or out of its range, and neither the   *)
(* pool nor what was hashed, keeps the partition.                          *)
LEMMA SamePart ==
  ASSUME PartInv,
         \A w \in Workers :
           pc'[w] \in {"unlock", "work"} <=> pc[w] \in {"unlock", "work"},
         NoSolver' <=> NoSolver,
         UNCHANGED <<poolTime, poolNonce, task, tested>>
  PROVE  PartInv'
  <1>1. \A w \in Workers : \A t, n : Left(w, t, n)' <=> Left(w, t, n)
    BY DEF Left
  <1>2. \A t, n : Out(t, n)' <=> Out(t, n)
    BY DEF Out
  <1>3. LeftInv'
    BY <1>1, <1>2 DEF PartInv, LeftInv
  <1>4. DisjointInv'
    BY <1>1 DEF PartInv, DisjointInv
  <1>5. TestedInv'
    BY <1>2 DEF PartInv, TestedInv
  <1>6. CoverInv'
    BY <1>1, <1>2 DEF PartInv, CoverInv
  <1> QED
    BY <1>3, <1>4, <1>5, <1>6 DEF PartInv

(***************************************************************************)
(* The steps of main.                                                      *)
(***************************************************************************)

LEMMA MainStep ==
  ASSUME Inv, Main, TypeOK'
  PROVE  Inv'
  <1> USE DEF Inv, Workers
  <1>1. CASE Spawn
    <2> USE <1>1 DEF Spawn
    <2>1. spawned \in Workers /\ pc[spawned] = "unborn"
      <3>1. spawned \in Workers
        BY NAssumption DEF TypeOK
      <3> QED
        BY <3>1, NAssumption DEF MainInv
    <2>2. \A w \in Workers : w # spawned => pc'[w] = pc[w]
      BY DEF TypeOK
    <2>3. pc'[spawned] \in {"get", "notCreated"}
      BY <2>1 DEF TypeOK
    <2>4. LockInv' /\ ReadInv' /\ PoolInv' /\ DrainInv'
      BY <2>1, <2>2, <2>3 DEF LockInv, ReadInv, PoolInv, DrainInv, Holding
    <2>5. NoSolver' <=> NoSolver
      BY <2>1, <2>2, <2>3 DEF NoSolver
    <2>6. PartInv'
      BY <2>1, <2>2, <2>3, <2>5, SamePart
    <2>7. SolverInv' /\ ReportInv'
      BY <2>1, <2>2, <2>3, <2>5 DEF SolverInv, ReportInv, Candidate
    <2>8. MainInv'
      BY <2>1, <2>2, <2>3 DEF MainInv, TypeOK
    <2> QED
      BY <2>4, <2>6, <2>7, <2>8
  <1>2. CASE Join
    <2> USE <1>2 DEF Join
    <2>1. LockInv' /\ ReadInv' /\ PoolInv' /\ DrainInv'
      BY DEF LockInv, ReadInv, PoolInv, DrainInv, Holding
    <2>2. NoSolver' <=> NoSolver
      BY DEF NoSolver
    <2>3. PartInv'
      BY <2>2, SamePart
    <2>4. SolverInv' /\ ReportInv'
      BY <2>2 DEF SolverInv, ReportInv, Candidate
    <2>5. MainInv'
      BY DEF MainInv, TypeOK, Finished
    <2> QED
      BY <2>1, <2>3, <2>4, <2>5
  <1>3. CASE JoinCrash \/ MainReturn
    <2> USE <1>3 DEF JoinCrash, MainReturn
    <2>1. LockInv' /\ ReadInv' /\ PoolInv' /\ DrainInv'
      BY DEF LockInv, ReadInv, PoolInv, DrainInv, Holding
    <2>2. NoSolver' <=> NoSolver
      BY DEF NoSolver
    <2>3. PartInv'
      BY <2>2, SamePart
    <2>4. SolverInv' /\ ReportInv'
      BY <2>2 DEF SolverInv, ReportInv, Candidate
    <2>5. MainInv'
      BY DEF MainInv, TypeOK
    <2> QED
      BY <2>1, <2>3, <2>4, <2>5
  <1> QED
    BY <1>1, <1>2, <1>3 DEF Main

(***************************************************************************)
(* The steps of a thread outside its range: they move its pc, may take or  *)
(* release the lock, read the pool, print, or end the process.             *)
(***************************************************************************)

LEMMA LockStep ==
  ASSUME Inv, NEW w \in Workers, TypeOK',
         TryLockBusy(w) \/ Lock(w) \/ LockFails(w)
           \/ ReadPool(w) \/ NoTasksLeft(w) \/ Unlock(w),
         NoWrap
  PROVE  Inv'
  <1> USE DEF Inv
  <1>1. /\ UNCHANGED <<target, poolTime, poolNonce, task, spawned, joined,
                       tested, reported, outcome>>
        /\ \A v \in Workers : v # w => pc'[v] = pc[v] /\ seen'[v] = seen[v]
        /\ pc[w] \in {"get", "waiting"} \cup Holding
        /\ pc'[w] \in {"waiting", "gaveUp", "work", "retired"} \cup Holding
        /\ pc[w] = "unlock" <=> pc'[w] = "work"
        /\ pc'[w] # "unlock"
    BY DEF TypeOK, TryLockBusy, Lock, LockFails, ReadPool,
           NoTasksLeft, Unlock, Holding
  <1>2. LockInv'
    <2>1. CASE Lock(w)
      BY <2>1, <1>1, NoWorkerAssumption
         DEF LockInv, Lock, MtxFree, Holding, TypeOK, Workers
    <2>2. CASE TryLockBusy(w) \/ LockFails(w) \/ ReadPool(w) \/ NoTasksLeft(w)
      BY <2>2, <1>1
         DEF LockInv, TryLockBusy, LockFails, ReadPool, NoTasksLeft, Holding,
             TypeOK
    <2>3. CASE Unlock(w)
      BY <2>3, <1>1, NoWorkerAssumption
         DEF LockInv, Unlock, Released, Holding, TypeOK, Workers
    <2> QED
      BY <2>1, <2>2, <2>3
  <1>3. ReadInv'
    <2>1. CASE ReadPool(w)
      BY <2>1, <1>1 DEF ReadInv, ReadPool, TypeOK
    <2>2. CASE ~ReadPool(w)
      BY <2>2, <1>1
         DEF ReadInv, TypeOK, TryLockBusy, Lock, LockFails,
             NoTasksLeft, Unlock
    <2> QED
      BY <2>1, <2>2
  <1>4. PoolInv'
    BY <1>1 DEF PoolInv
  <1>5. DrainInv'
    <2>1. CASE NoTasksLeft(w)
      <3>1. timestamp_max = Timestamp + T
        BY NoWrap, TAssumption, TimeAssumption, ModSmall
           DEF timestamp_max, NoWrap
      <3>2. poolTime > Timestamp + T
        BY <2>1, <3>1, TAssumption, TimeAssumption
           DEF NoTasksLeft, TasksLeft, ReadInv, TypeOK, Times
      <3>3. poolTime = End
        BY <3>2, TAssumption, TimeAssumption
           DEF PoolInv, End, TypeOK, Times
      <3> QED
        BY <3>3, <1>1 DEF DrainInv
    <2>2. CASE Unlock(w)
      BY <2>2, <1>1 DEF DrainInv, Unlock, TypeOK
    <2>3. CASE ~NoTasksLeft(w) /\ ~Unlock(w)
      BY <2>3, <1>1 DEF DrainInv, TryLockBusy, Lock, LockFails,
                        ReadPool, TypeOK
    <2> QED
      BY <2>1, <2>2, <2>3
  <1>6. NoSolver' <=> NoSolver
    BY <1>1 DEF NoSolver, Holding
  <1>7. PartInv'
    <2>1. \A v \in Workers :
            pc'[v] \in {"unlock", "work"} <=> pc[v] \in {"unlock", "work"}
      BY <1>1 DEF Holding
    <2> QED
      BY <1>1, <1>6, <2>1, SamePart
  <1>8. SolverInv' /\ ReportInv'
    BY <1>1, <1>6 DEF SolverInv, ReportInv, Candidate, Holding
  <1>9. MainInv'
    BY <1>1 DEF MainInv, Holding
  <1> QED
    BY <1>2, <1>3, <1>4, <1>5, <1>7, <1>8, <1>9

LEMMA ReportStep ==
  ASSUME Inv, NEW w \in Workers, TypeOK', PutTask(w) \/ Exit(w)
  PROVE  Inv'
  <1> USE DEF Inv
  <1>1. /\ UNCHANGED <<target, poolTime, poolNonce, mtx, seen, task, spawned,
                       joined, tested>>
        /\ \A v \in Workers : v # w => pc'[v] = pc[v]
        /\ pc[w] \in {"solved", "exiting"}
        /\ pc'[w] \in {"solved", "exiting"}
    BY DEF TypeOK, PutTask, Exit
  <1>2. LockInv' /\ ReadInv' /\ PoolInv' /\ DrainInv'
    BY <1>1 DEF LockInv, ReadInv, PoolInv, DrainInv, Holding
  <1>3. NoSolver' <=> NoSolver
    BY <1>1 DEF NoSolver
  <1>4. PartInv'
    BY <1>1, <1>3, SamePart
  <1>5. SolverInv'
    BY <1>1, <1>3 DEF SolverInv, Candidate
  <1>6. ReportInv'
    <2>1. CASE PutTask(w)
      BY <2>1, <1>1 DEF ReportInv, SolverInv, PutTask, Candidate, TypeOK
    <2>2. CASE Exit(w)
      BY <2>2, <1>1 DEF ReportInv, Exit, Candidate, TypeOK
    <2> QED
      BY <2>1, <2>2
  <1>7. MainInv'
    BY <1>1 DEF MainInv, PutTask, Exit
  <1> QED
    BY <1>2, <1>4, <1>5, <1>6, <1>7

(***************************************************************************)
(* A candidate is hashed: the range of one thread loses its first nonce.   *)
(***************************************************************************)

(* What TestNonce and FindNonce have in common. *)
Hashes(w) ==
  /\ pc[w] = "work"
  /\ tested' = tested \cup {Candidate(w)}
  /\ UNCHANGED <<target, poolTime, poolNonce, mtx, seen, spawned, joined,
                 reported, outcome>>
  /\ \A v \in Workers : v # w => pc'[v] = pc[v] /\ task'[v] = task[v]
  /\ pc'[w] \in {"work", "get", "solved"}

LEMMA HashPart ==
  ASSUME Inv, TypeOK', NEW w \in Workers, Hashes(w),
         \A t \in Times, n \in Nonces :
           Left(w, t, n)' => Left(w, t, n) /\ <<t, n>> # Candidate(w),
         pc'[w] = "work" => task'[w].nonce <= task'[w].max,
         pc'[w] # "solved" =>
           \A t \in Times, n \in Nonces :
             Left(w, t, n) /\ <<t, n>> # Candidate(w) => Left(w, t, n)'
  PROVE  PartInv'
  <1> USE DEF Inv, PartInv
  <1>1. \A t, n : Out(t, n)' <=> Out(t, n)
    BY DEF Out, Hashes
  <1>2. \A v \in Workers : v # w => \A t, n : Left(v, t, n)' <=> Left(v, t, n)
    BY DEF Left, Hashes
  <1>3. /\ task[w].time \in Times /\ task[w].nonce \in Nonces
        /\ Left(w, task[w].time, task[w].nonce)
        /\ Candidate(w) = <<task[w].time, task[w].nonce>>
    BY NonceAssumption
       DEF TypeOK, Left, LeftInv, Candidate, Hashes, Nonces
  <1>4. \A t \in Times, n \in Nonces :
          <<t, n>> \in tested' <=>
            <<t, n>> \in tested \/ (t = task[w].time /\ n = task[w].nonce)
    BY <1>3 DEF Hashes
  <1>5. LeftInv'
    <2> SUFFICES ASSUME NEW v \in Workers
                 PROVE  /\ pc'[v] \in {"unlock", "work"} =>
                             task'[v].nonce <= task'[v].max
                        /\ \A t \in Times, n \in Nonces :
                             Left(v, t, n)' =>
                               Out(t, n)' /\ <<t, n>> \notin tested'
      BY DEF LeftInv
    <2>1. CASE v = w
      BY <2>1, <1>1, <1>3, <1>4 DEF LeftInv, Hashes
    <2>2. CASE v # w
      BY <2>2, <1>1, <1>2, <1>3, <1>4 DEF LeftInv, DisjointInv, Hashes
    <2> QED
      BY <2>1, <2>2
  <1>6. DisjointInv'
    BY <1>2 DEF DisjointInv
  <1>7. TestedInv'
    BY <1>1, <1>3, <1>4 DEF TestedInv, LeftInv
  <1>8. CoverInv'
    <2> SUFFICES ASSUME NoSolver', NEW t \in Times, NEW n \in Nonces,
                        Out(t, n)'
                 PROVE  \/ <<t, n>> \in tested'
                        \/ \E v \in Workers : Left(v, t, n)'
      BY DEF CoverInv
    <2>1. NoSolver /\ pc'[w] # "solved"
      BY DEF NoSolver, Hashes
    <2>2. <<t, n>> \in tested \/ \E v \in Workers : Left(v, t, n)
      BY <2>1, <1>1 DEF CoverInv
    <2>3. CASE <<t, n>> \in tested
      BY <2>3, <1>4
    <2>4. CASE \E v \in Workers : Left(v, t, n)
      BY <2>1, <2>4, <1>2, <1>3, <1>4
    <2> QED
      BY <2>2, <2>3, <2>4
  <1> QED
    BY <1>5, <1>6, <1>7, <1>8

LEMMA HashStep ==
  ASSUME Inv, NEW w \in Workers, TypeOK', TestNonce(w) \/ FindNonce(w)
  PROVE  Inv'
  <1> USE DEF Inv
  <1>1. Hashes(w)
    BY DEF Hashes, TestNonce, FindNonce, TypeOK
  <1>2. Candidate(w) = <<task[w].time, task[w].nonce>>
    BY DEF Candidate
  <1>3. PartInv'
    <2>1. CASE TestNonce(w)
      <3>1. CASE task[w].nonce < task[w].max
        <4>1. /\ pc' = pc
              /\ task'[w].time = task[w].time /\ task'[w].max = task[w].max
              /\ task'[w].nonce = task[w].nonce + 1
          BY <2>1, <3>1 DEF TestNonce, Advanced, TypeOK
        <4>2. task[w].nonce \in Nat /\ task[w].max \in Nat
          BY NonceAssumption DEF TypeOK, Nonces
        <4>3. \A t \in Times, n \in Nonces :
                Left(w, t, n)' <=> Left(w, t, n) /\ <<t, n>> # Candidate(w)
          BY <1>1, <1>2, <4>1, <4>2, NonceAssumption DEF Left, Hashes, Nonces
        <4> QED
          BY <1>1, <3>1, <4>1, <4>2, <4>3, HashPart
      <3>2. CASE ~(task[w].nonce < task[w].max)
        <4>1. pc'[w] = "get"
          BY <2>1, <3>2 DEF TestNonce, TypeOK
        <4>2. \A t \in Times, n \in Nonces :
                Left(w, t, n) => <<t, n>> = Candidate(w)
          <5>1. task[w].nonce \in Nat /\ task[w].max \in Nat
            BY NonceAssumption DEF TypeOK, Nonces
          <5>2. \A n \in Nonces :
                  task[w].nonce <= n /\ n <= task[w].max => n = task[w].nonce
            BY <3>2, <5>1, NonceAssumption DEF Nonces
          <5> QED
            BY <1>2, <5>2 DEF Left
        <4> QED
          BY <1>1, <4>1, <4>2, HashPart DEF Left
      <3> QED
        BY <3>1, <3>2
    <2>2. CASE FindNonce(w)
      <3>1. pc'[w] = "solved"
        BY <2>2 DEF FindNonce, TypeOK
      <3> QED
        BY <1>1, <3>1, HashPart DEF Left
    <2> QED
      BY <2>1, <2>2
  <1>4. LockInv' /\ ReadInv' /\ PoolInv' /\ DrainInv'
    BY <1>1 DEF LockInv, ReadInv, PoolInv, DrainInv, Hashes, Holding
  <1>5. SolverInv'
    <2>1. CASE TestNonce(w)
      <3>1. NoSolver' => NoSolver
        BY <1>1 DEF NoSolver, Hashes
      <3>2. \A v \in Workers : pc'[v] \in {"solved", "exiting"} =>
              pc[v] \in {"solved", "exiting"} /\ task'[v] = task[v]
        BY <1>1, <2>1 DEF Hashes, TestNonce, TypeOK
      <3>3. Candidate(w) \notin target
        BY <2>1 DEF TestNonce, Beats
      <3> QED
        BY <1>1, <3>1, <3>2, <3>3 DEF SolverInv, Hashes, Candidate
    <2>2. CASE FindNonce(w)
      <3>1. ~NoSolver'
        BY <2>2 DEF FindNonce, NoSolver, TypeOK
      <3>2. Candidate(w) \in target /\ task' = task
        BY <2>2 DEF FindNonce, Beats
      <3> QED
        BY <1>1, <3>1, <3>2 DEF SolverInv, Hashes, Candidate
    <2> QED
      BY <2>1, <2>2
  <1>6. ReportInv'
    BY <1>1 DEF ReportInv, Hashes, Candidate
  <1>7. MainInv'
    BY <1>1 DEF MainInv, Hashes
  <1> QED
    BY <1>3, <1>4, <1>5, <1>6, <1>7

(***************************************************************************)
(* A range is taken: it begins where the pool stands and ends just before  *)
(* where the pool stands afterwards.                                       *)
(***************************************************************************)

LEMMA TakePool ==
  ASSUME Inv, NoWrap, NEW w \in Workers, TakeTask(w),
         NEW b, b = RangeEnd(poolNonce)
  PROVE  /\ b \in Nonces /\ poolNonce <= b
         /\ task' = [task EXCEPT ![w] =
                       [time |-> poolTime, nonce |-> poolNonce, max |-> b]]
         /\ poolTime < End
         /\ poolTime' = IF b = NonceMax THEN poolTime + 1 ELSE poolTime
         /\ poolNonce' = IF b = NonceMax THEN 0 ELSE b + 1
  <1> USE DEF Inv
  <1>1. seen[w].nonce = poolNonce /\ seen[w].time = poolTime
    BY DEF TakeTask, ReadInv
  <1>2. b \in Nonces /\ poolNonce <= b
    BY RangeEndBounds DEF TypeOK
  <1>3. timestamp_max = Timestamp + T
    BY NoWrap, TAssumption, TimeAssumption, ModSmall DEF timestamp_max, NoWrap
  <1>4. poolTime \in Nat /\ poolTime <= Timestamp + T
    BY <1>1, <1>3, TimeAssumption DEF TakeTask, TasksLeft, TypeOK, Times
  <1>5. (poolTime + 1) % TimeMod = poolTime + 1
    <2>1. poolTime + 1 \in Nat /\ poolTime + 1 < TimeMod
      BY <1>4, NoWrap, TAssumption, TimeAssumption DEF NoWrap
    <2> QED
      BY <2>1, ModSmall
  <1>6. /\ poolTime' = NextTime(b) /\ poolNonce' = NextNonce(b)
        /\ task' = [task EXCEPT ![w] =
                      [time |-> poolTime, nonce |-> poolNonce, max |-> b]]
    BY <1>1 DEF TakeTask
  <1> QED
    BY <1>2, <1>4, <1>5, <1>6, TAssumption, TimeAssumption
       DEF End, NextTime, NextNonce

LEMMA TakeStep ==
  ASSUME Inv, NoWrap, NEW w \in Workers, TypeOK', TakeTask(w)
  PROVE  Inv'
  <1> USE DEF Inv
  <1> DEFINE b == RangeEnd(poolNonce)
  <1>1. /\ b \in Nonces /\ poolNonce <= b
        /\ task' = [task EXCEPT ![w] =
                      [time |-> poolTime, nonce |-> poolNonce, max |-> b]]
        /\ poolTime < End
        /\ poolTime' = IF b = NonceMax THEN poolTime + 1 ELSE poolTime
        /\ poolNonce' = IF b = NonceMax THEN 0 ELSE b + 1
    BY TakePool
  <1> HIDE DEF b
  <1>2. /\ UNCHANGED <<target, mtx, seen, spawned, joined, tested, reported,
                       outcome>>
        /\ pc[w] = "read" /\ pc'[w] = "unlock"
        /\ \A v \in Workers : v # w => pc'[v] = pc[v] /\ task'[v] = task[v]
    BY <1>1 DEF TakeTask, TypeOK
  <1>3. poolTime \in Times /\ poolNonce \in Nonces
    BY DEF TypeOK
  <1>4. \A t \in Times, n \in Nonces :
          Left(w, t, n)' <=> t = poolTime /\ poolNonce <= n /\ n <= b
    BY <1>1, <1>2 DEF Left, TypeOK
  <1>5. \A v \in Workers : v # w => \A t, n : Left(v, t, n)' <=> Left(v, t, n)
    BY <1>2 DEF Left
  <1>6. \A t, n : ~Left(w, t, n)
    BY <1>2 DEF Left
  <1>7. \A t \in Times, n \in Nonces :
          Out(t, n)' <=>
            Out(t, n) \/ (t = poolTime /\ poolNonce <= n /\ n <= b)
    <2>1. Timestamp <= poolTime
      BY DEF PoolInv
    <2> QED
      BY <1>1, <1>3, <2>1, NonceAssumption, TimeAssumption
         DEF Out, Times, Nonces
  <1>8. \A n \in Nonces : poolNonce <= n => ~Out(poolTime, n)
    BY <1>3, NonceAssumption, TimeAssumption DEF Out, Times, Nonces
  <1>9. LeftInv'
    <2> SUFFICES ASSUME NEW v \in Workers
                 PROVE  /\ pc'[v] \in {"unlock", "work"} =>
                             task'[v].nonce <= task'[v].max
                        /\ \A t \in Times, n \in Nonces :
                             Left(v, t, n)' =>
                               Out(t, n)' /\ <<t, n>> \notin tested'
      BY DEF LeftInv
    <2>1. CASE v = w
      BY <2>1, <1>1, <1>2, <1>4, <1>7, <1>8 DEF PartInv, TestedInv, TypeOK
    <2>2. CASE v # w
      BY <2>2, <1>2, <1>5, <1>7 DEF PartInv, LeftInv
    <2> QED
      BY <2>1, <2>2
  <1>10. DisjointInv'
    <2>1. \A v \in Workers : v # w => \A t \in Times, n \in Nonces :
            ~(Left(v, t, n)' /\ Left(w, t, n)')
      BY <1>4, <1>5, <1>8 DEF PartInv, LeftInv
    <2>2. \A u, v \in Workers : u # v /\ u # w /\ v # w =>
            \A t \in Times, n \in Nonces : ~(Left(u, t, n)' /\ Left(v, t, n)')
      BY <1>5 DEF PartInv, DisjointInv
    <2> QED
      BY <2>1, <2>2 DEF DisjointInv
  <1>11. TestedInv'
    BY <1>2, <1>7 DEF PartInv, TestedInv
  <1>12. NoSolver' <=> NoSolver
    BY <1>2 DEF NoSolver
  <1>13. CoverInv'
    <2> SUFFICES ASSUME NoSolver', NEW t \in Times, NEW n \in Nonces,
                        Out(t, n)'
                 PROVE  \/ <<t, n>> \in tested'
                        \/ \E v \in Workers : Left(v, t, n)'
      BY DEF CoverInv
    <2>1. CASE t = poolTime /\ poolNonce <= n /\ n <= b
      BY <2>1, <1>4
    <2>2. CASE Out(t, n)
      <3>1. <<t, n>> \in tested \/ \E v \in Workers : Left(v, t, n)
        BY <2>2, <1>12 DEF PartInv, CoverInv
      <3> QED
        BY <3>1, <1>2, <1>5, <1>6
    <2> QED
      BY <2>1, <2>2, <1>7
  <1>14. LockInv'
    BY <1>2 DEF LockInv, Holding
  <1>15. ReadInv'
    BY <1>2 DEF ReadInv, LockInv, Holding
  <1>16. PoolInv'
    BY <1>1, <1>3, NonceAssumption, TimeAssumption, TAssumption
       DEF PoolInv, End, Times, Nonces
  <1>17. DrainInv'
    <2>1. \A v \in Workers : pc[v] \notin {"unlockEmpty", "retired"}
      BY <1>1, <1>3, TimeAssumption, TAssumption DEF DrainInv, End, Times
    <2> QED
      BY <2>1, <1>2 DEF DrainInv
  <1>18. SolverInv' /\ ReportInv'
    <2>1. \A v \in Workers : pc'[v] \in {"solved", "exiting"} =>
            /\ pc[v] = pc'[v]
            /\ Candidate(v)' = Candidate(v)
      BY <1>2 DEF Candidate
    <2> QED
      BY <2>1, <1>2, <1>12 DEF SolverInv, ReportInv
  <1>19. MainInv'
    BY <1>2 DEF MainInv
  <1> QED
    BY <1>9, <1>10, <1>11, <1>13, <1>14, <1>15, <1>16, <1>17, <1>18, <1>19
       DEF PartInv

LEMMA StutterStep ==
  ASSUME Inv, UNCHANGED vars
  PROVE  Inv'
  <1> USE DEF Inv, vars
  <1>1. TypeOK'
    BY NextType
  <1>2. LockInv' /\ ReadInv' /\ PoolInv' /\ DrainInv'
    BY DEF LockInv, ReadInv, PoolInv, DrainInv
  <1>3. NoSolver' <=> NoSolver
    BY DEF NoSolver
  <1>4. PartInv'
    BY <1>3, SamePart
  <1>5. SolverInv' /\ ReportInv' /\ MainInv'
    BY <1>3 DEF SolverInv, ReportInv, MainInv, Candidate
  <1> QED
    BY <1>1, <1>2, <1>4, <1>5

LEMMA NextInv == NoWrap /\ Inv /\ [Next]_vars => Inv'
  <1> SUFFICES ASSUME NoWrap, Inv, [Next]_vars
               PROVE  Inv'
    OBVIOUS
  <1>1. TypeOK'
    BY NextType DEF Inv
  <1> QED
    BY <1>1, MainStep, LockStep, ReportStep, HashStep, TakeStep, StutterStep
       DEF Next, Work, Ended

(* The inductive invariant holds as long as the header's timestamps do not *)
(* run into the end of uint32_t.                                           *)
THEOREM Invariance == NoWrap => (Spec => []Inv)
  <1> SUFFICES ASSUME NoWrap
               PROVE  Spec => []Inv
    OBVIOUS
  <1>1. Init => Inv
    BY InitInv
  <1>2. Inv /\ [Next]_vars => Inv'
    BY NextInv
  <1> QED
    BY <1>1, <1>2, PTL DEF Spec

-----------------------------------------------------------------------------
(***************************************************************************)
(* What the invariant says of the program.                                 *)
(***************************************************************************)

(* A candidate was handed out only if it is one of those to try. *)
LEMMA OutCandidates ==
  ASSUME Inv, NoWrap, NEW t \in Times, NEW n \in Nonces
  PROVE  /\ Out(t, n) => <<t, n>> \in Candidates
         /\ poolTime = End => (Out(t, n) <=> <<t, n>> \in Candidates)
  <1>1. /\ poolTime \in Nat /\ poolNonce \in Nat
        /\ poolTime <= End /\ (poolTime = End => poolNonce = 0)
    BY NonceAssumption, TimeAssumption
       DEF Inv, TypeOK, PoolInv, Times, Nonces
  <1>2. <<t, n>> \in Candidates <=> Timestamp <= t /\ t <= Timestamp + T
    BY TAssumption, TimeAssumption DEF Candidates, Times
  <1>3. t \in Nat /\ n \in Nat /\ End \in Nat /\ End = Timestamp + T + 1
    BY TAssumption, TimeAssumption, NonceAssumption DEF End, Times, Nonces
  <1>4. Timestamp \in Nat /\ T \in Nat
    BY TAssumption, TimeAssumption
  <1>5. Out(t, n) => Timestamp <= t /\ t <= Timestamp + T
    BY <1>1, <1>3, <1>4 DEF Out
  <1>6. poolTime = End /\ Timestamp <= t /\ t <= Timestamp + T => Out(t, n)
    BY <1>1, <1>3, <1>4 DEF Out
  <1> QED
    BY <1>2, <1>5, <1>6

LEMMA CandidatesType ==
  ASSUME NoWrap
  PROVE  Candidates \subseteq Times \X Nonces
  BY NoWrap, TAssumption, TimeAssumption DEF NoWrap, Candidates, Times

LEMMA InvPartition == Inv => Partition
  <1> SUFFICES ASSUME Inv
               PROVE  Partition
    OBVIOUS
  <1> USE DEF Inv, PartInv
  <1>1. poolTime \in Times /\ poolNonce \in Nonces
    BY DEF TypeOK
  <1>2. \A w \in Workers :
          task[w].time \in Times /\ task[w].nonce \in Nonces
            /\ task[w].max \in Nonces
    BY DEF TypeOK
  <1>3. ASSUME NEW w \in Workers
        PROVE  Remaining(w) =
                 {c \in Times \X Nonces : Left(w, c[1], c[2])}
    BY <1>2, NonceAssumption, TimeAssumption
       DEF Remaining, Left, Times, Nonces
  <1>4. Handed = {c \in Times \X Nonces : Out(c[1], c[2])}
    BY <1>1, NonceAssumption, TimeAssumption DEF Handed, Out, Times, Nonces
  <1>5. \A w \in Workers : Remaining(w) \subseteq Handed \ tested
    BY <1>3, <1>4 DEF LeftInv
  <1>6. \A v, w \in Workers : v # w => Remaining(v) \cap Remaining(w) = {}
    BY <1>3 DEF DisjointInv
  <1>7. tested \subseteq Handed
    BY <1>4 DEF TestedInv, TypeOK
  <1>8. ASSUME Solvers = {}
        PROVE  Handed = tested \cup UNION {Remaining(w) : w \in Workers}
    <2>1. NoSolver
      BY <1>8 DEF Solvers, NoSolver
    <2>2. ASSUME NEW c \in Handed
          PROVE  c \in tested \/ \E w \in Workers : c \in Remaining(w)
      <3>1. c \in Times \X Nonces /\ Out(c[1], c[2]) /\ c = <<c[1], c[2]>>
        BY <1>4
      <3>2. c \in tested \/ \E w \in Workers : Left(w, c[1], c[2])
        BY <2>1, <3>1 DEF CoverInv
      <3> QED
        BY <3>1, <3>2, <1>3
    <2> QED
      BY <2>2, <1>5, <1>7
  <1> QED
    BY <1>5, <1>6, <1>7, <1>8 DEF Partition

LEMMA InvExhaustive == NoWrap /\ Inv => Exhaustive
  <1> SUFFICES ASSUME NoWrap, Inv, outcome = "returned",
                      NEW r \in Workers, pc[r] = "retired"
               PROVE  tested = Candidates /\ tested \cap target = {}
    BY DEF Exhaustive
  <1> USE DEF Inv, PartInv
  <1>1. \A w \in Workers : pc[w] \in {"notCreated", "retired", "gaveUp"}
    BY NAssumption DEF MainInv, Workers
  <1>2. NoSolver
    BY <1>1 DEF NoSolver
  <1>3. poolTime = End
    BY DEF DrainInv
  <1>4. \A t \in Times, n \in Nonces : <<t, n>> \in tested <=> Out(t, n)
    BY <1>1, <1>2 DEF CoverInv, TestedInv, Left
  <1>5. \A t \in Times, n \in Nonces :
          <<t, n>> \in tested <=> <<t, n>> \in Candidates
    BY <1>3, <1>4, OutCandidates
  <1>6. tested = Candidates
    <2>1. tested \subseteq Times \X Nonces /\ Candidates \subseteq Times \X Nonces
      BY CandidatesType DEF TypeOK
    <2>2. \A c \in Times \X Nonces : c \in tested <=> c \in Candidates
      BY <1>5
    <2> QED
      BY <2>1, <2>2
  <1> QED
    BY <1>2, <1>6 DEF SolverInv

LEMMA TestedCandidates ==
  ASSUME NoWrap, Inv
  PROVE  tested \subseteq Candidates
  BY OutCandidates DEF Inv, PartInv, TestedInv, TypeOK

LEMMA InvReportsSound == NoWrap /\ Inv => ReportsSound
  BY TestedCandidates DEF Inv, ReportInv, ReportsSound

(* Between the ranges that threads hold and what was hashed nothing is     *)
(* lost and nothing is taken twice, for every number of threads.           *)
THEOREM PartitionHolds == NoWrap => (Spec => []Partition)
  <1> SUFFICES ASSUME NoWrap
               PROVE  Spec => []Partition
    OBVIOUS
  <1>1. Spec => []Inv
    BY Invariance
  <1> QED
    BY <1>1, InvPartition, PTL

(* A drained pool means an exhausted search, whatever thread fails.        *)
THEOREM ExhaustiveHolds == NoWrap => (Spec => []Exhaustive)
  <1> SUFFICES ASSUME NoWrap
               PROVE  Spec => []Exhaustive
    OBVIOUS
  <1>1. Spec => []Inv
    BY Invariance
  <1>2. Inv => Exhaustive
    BY InvExhaustive
  <1> QED
    BY <1>1, <1>2, PTL

(* Only hashed candidates that beat the target are printed as solved.      *)
THEOREM ReportsSoundHolds == NoWrap => (Spec => []ReportsSound)
  <1> SUFFICES ASSUME NoWrap
               PROVE  Spec => []ReportsSound
    OBVIOUS
  <1>1. Spec => []Inv
    BY Invariance
  <1>2. Inv => ReportsSound
    BY InvReportsSound
  <1> QED
    BY <1>1, <1>2, PTL

-----------------------------------------------------------------------------
(***************************************************************************)
(* The ranges of a timestamp: they begin at the multiples of their length. *)
(***************************************************************************)

RangeInv == \E k \in 0..(N - 1) : poolNonce = k * (nonce_chunk + 1)

(* nonce_chunk is the quotient, rounded down. *)
LEMMA ChunkBound == NonceMax < N * (nonce_chunk + 1)
  BY NAssumption, NonceAssumption, SMT DEF nonce_chunk

LEMMA NextRange ==
  ASSUME NEW c \in Nat, NEW k \in Nat, (k + 1) * (c + 1) < N * (c + 1)
  PROVE  k + 1 < N
  BY NAssumption, SMT

LEMMA RangeStep ==
  ASSUME TypeOK, ReadInv, RangeInv, NEW w \in Workers, TakeTask(w)
  PROVE  RangeInv'
  <1> DEFINE b == RangeEnd(poolNonce)
  <1>1. b \in Nonces /\ poolNonce' = NextNonce(b)
    BY RangeEndBounds DEF TypeOK, TakeTask, ReadInv
  <1>2. CASE b = NonceMax
    <2>1. poolNonce' = 0 * (nonce_chunk + 1) /\ 0 \in 0..(N - 1)
      BY <1>1, <1>2, ChunkNat, NAssumption DEF NextNonce
    <2> QED
      BY <2>1 DEF RangeInv, nonce_chunk
  <1>3. CASE b # NonceMax
    <2>1. PICK k \in 0..(N - 1) : poolNonce = k * (nonce_chunk + 1)
      BY DEF RangeInv
    <2>2. poolNonce \in Nat /\ k \in Nat
      BY NAssumption, NonceAssumption DEF TypeOK, Nonces
    <2>3. b = poolNonce + nonce_chunk /\ b < NonceMax
      BY <1>1, <1>3, <2>2, ChunkNat, NonceAssumption DEF RangeEnd, Nonces
    <2>4. poolNonce' = poolNonce + nonce_chunk + 1
      BY <1>1, <1>3, <2>3, <2>2, ChunkNat DEF NextNonce
    <2>5. poolNonce' = (k + 1) * (nonce_chunk + 1)
      BY <2>1, <2>2, <2>4, ChunkNat, SMT
    <2>6. (k + 1) * (nonce_chunk + 1) < N * (nonce_chunk + 1)
      <3>1. poolNonce' <= NonceMax /\ poolNonce' \in Nat
        BY <2>2, <2>3, <2>4, ChunkNat, NonceAssumption
      <3>2. N * (nonce_chunk + 1) \in Nat
        BY ChunkNat, NAssumption
      <3> QED
        BY <2>5, <3>1, <3>2, ChunkBound, NonceAssumption
    <2>7. k + 1 \in 0..(N - 1)
      BY <2>2, <2>6, ChunkNat, NextRange, NAssumption
    <2> QED
      BY <2>5, <2>7 DEF RangeInv, nonce_chunk
  <1> QED
    BY <1>2, <1>3

LEMMA RangeNext ==
  ASSUME TypeOK, ReadInv, RangeInv, [Next]_vars
  PROVE  RangeInv'
  <1>1. CASE \E w \in Workers : TakeTask(w)
    BY <1>1, RangeStep
  <1>2. CASE ~\E w \in Workers : TakeTask(w)
    <2>1. poolNonce' = poolNonce
      BY <1>2 DEF Next, Main, Spawn, Join, JoinCrash, MainReturn, Work,
                  TryLockBusy, Lock, LockFails, ReadPool, NoTasksLeft, Unlock,
                  TestNonce, FindNonce, PutTask, Exit, Ended, vars
    <2> QED
      BY <2>1 DEF RangeInv, nonce_chunk
  <1> QED
    BY <1>1, <1>2

LEMMA RangeInvBound == RangeInv => RangesPerTime
  <1> SUFFICES ASSUME NEW k \in 0..(N - 1), poolNonce = k * (nonce_chunk + 1)
               PROVE  k * (nonce_chunk + 1) <= (N - 1) * (nonce_chunk + 1)
    BY DEF RangeInv, RangesPerTime
  <1>1. \A c \in Nat, j \in Nat : k <= j => k * (c + 1) <= j * (c + 1)
    BY NAssumption, SMT
  <1>2. N - 1 \in Nat /\ k <= N - 1
    BY NAssumption
  <1> QED
    BY <1>1, <1>2, ChunkNat

(* The nonces of one timestamp are cut into at most nonce_chunks ranges.   *)
THEOREM RangesPerTimeHolds == NoWrap => (Spec => []RangesPerTime)
  <1> SUFFICES ASSUME NoWrap
               PROVE  Spec => []RangesPerTime
    OBVIOUS
  <1>1. Spec => []Inv
    BY Invariance
  <1>2. Init => RangeInv
    <2>1. 0 = 0 * (nonce_chunk + 1) /\ 0 \in 0..(N - 1)
      BY ChunkNat, NAssumption
    <2> QED
      BY <2>1 DEF Init, RangeInv
  <1>3. Inv /\ RangeInv /\ [Next]_vars => RangeInv'
    BY RangeNext DEF Inv
  <1>4. RangeInv => RangesPerTime
    BY RangeInvBound
  <1> QED
    BY <1>1, <1>2, <1>3, <1>4, PTL DEF Spec

-----------------------------------------------------------------------------
(***************************************************************************)
(* A header whose timestamp is the last of uint32_t.                       *)
(***************************************************************************)

NeverDrained == \A w \in Workers : pc[w] \notin {"unlockEmpty", "retired"}

(* The search never ends by exhaustion when timestamp_max is the largest   *)
(* uint32_t: no value of pool->timestamp is greater.                       *)
THEOREM WrapNeverDrainsHolds == Spec => []WrapNeverDrains
  <1> DEFINE D == Timestamp + T = TimeMod - 1 => NeverDrained
  <1>1. Init => D
    BY DEF Init, NeverDrained
  <1>2. TypeOK /\ D /\ [Next]_vars => D'
    <2> SUFFICES ASSUME TypeOK, NeverDrained, [Next]_vars,
                        Timestamp + T = TimeMod - 1
                 PROVE  NeverDrained'
      BY DEF NeverDrained
    <2>1. timestamp_max = TimeMod - 1
      BY TAssumption, TimeAssumption, ModSmall DEF timestamp_max
    <2>2. \A w \in Workers : ~NoTasksLeft(w)
      BY <2>1, TimeAssumption DEF NoTasksLeft, TasksLeft, TypeOK, Times
    <2>3. ASSUME NEW v \in Workers
          PROVE  pc'[v] \notin {"unlockEmpty", "retired"}
      BY <2>2 DEF NeverDrained, TypeOK, Next, Main, Spawn, Join, JoinCrash,
                  MainReturn, Work, TryLockBusy, Lock, LockFails,
                  ReadPool, TakeTask, Unlock, TestNonce, FindNonce, PutTask,
                  Exit, Ended, vars
    <2> QED
      BY <2>3 DEF NeverDrained
  <1>3. D => WrapNeverDrains
    BY DEF NeverDrained, WrapNeverDrains
  <1> QED
    BY <1>1, <1>2, <1>3, TypeCorrect, PTL DEF Spec

-----------------------------------------------------------------------------
(***************************************************************************)
(* Refinement: the threads implement NonceSearch.  Hashing is Test, the    *)
(* print is Report, exit is Solve, the unlock of a thread without a task   *)
(* is Drain, and main's return is Return; every other step stutters.       *)
(***************************************************************************)

LEMMA InitSearch == Init => Search!Init
  BY DEF Init, Search!Init, ChosenTarget, argc, incomplete

(* The steps that the abstract search does not see. *)
LEMMA QuietSteps ==
  ASSUME TypeOK, NEW w \in Workers,
         \/ Spawn \/ Join \/ TryLockBusy(w) \/ Lock(w)
         \/ LockFails(w) \/ ReadPool(w) \/ TakeTask(w) \/ NoTasksLeft(w),
         MainInv
  PROVE  UNCHANGED Search!vars
  <1>1. UNCHANGED <<target, tested, reported, outcome>>
    BY DEF Spawn, Join, TryLockBusy, Lock, LockFails, ReadPool,
           TakeTask, NoTasksLeft
  <1>2. \A v \in Workers : pc'[v] = "retired" <=> pc[v] = "retired"
    <2>1. CASE Spawn
      <3>1. pc[spawned] = "unborn" /\ spawned \in Workers
        <4>1. spawned \in Workers
          BY <2>1, NAssumption DEF Spawn, TypeOK, Workers
        <4> QED
          BY <4>1, NAssumption DEF MainInv, Workers
      <3> QED
        BY <2>1, <3>1 DEF Spawn, TypeOK
    <2>2. CASE Join
      BY <2>2 DEF Join
    <2>3. CASE ~Spawn /\ ~Join
      BY <2>3 DEF TypeOK, TryLockBusy, Lock, LockFails, ReadPool,
                  TakeTask, NoTasksLeft
    <2> QED
      BY <2>1, <2>2, <2>3
  <1>3. incomplete' <=> incomplete
    BY <1>2 DEF incomplete
  <1> QED
    BY <1>1, <1>3 DEF Search!vars, incomplete

LEMMA HashRefines ==
  ASSUME NoWrap, Inv, Inv', NEW w \in Workers, TestNonce(w) \/ FindNonce(w)
  PROVE  Search!Next
  <1> USE DEF Inv
  <1>1. pc[w] = "work" /\ Candidate(w) = <<task[w].time, task[w].nonce>>
    BY DEF TestNonce, FindNonce, Candidate
  <1>2. /\ task[w].time \in Times /\ task[w].nonce \in Nonces
        /\ Left(w, task[w].time, task[w].nonce)
    BY <1>1, NonceAssumption DEF TypeOK, PartInv, LeftInv, Left, Nonces
  <1>3. Candidate(w) \notin tested /\ Candidate(w) \in Candidates
    BY <1>1, <1>2, OutCandidates DEF PartInv, LeftInv
  <1>4. \A v \in Workers : pc'[v] = "retired" <=> pc[v] = "retired"
    BY <1>1 DEF TestNonce, FindNonce, TypeOK
  <1>5. incomplete' = incomplete
    BY <1>4, Zenon DEF incomplete
  <1>6. /\ outcome = "running" /\ tested' = tested \cup {Candidate(w)}
        /\ UNCHANGED <<target, reported, outcome>>
    BY DEF TestNonce, FindNonce
  <1>7. Search!Test(Candidate(w))
    BY <1>3, <1>5, <1>6, Zenon DEF Search!Test
  <1> QED
    BY <1>3, <1>7 DEF Search!Next

LEMMA ReportRefines ==
  ASSUME NoWrap, Inv, NEW w \in Workers, PutTask(w) \/ Exit(w)
  PROVE  Search!Next
  <1> USE DEF Inv
  <1>1. \A v \in Workers : pc'[v] = "retired" <=> pc[v] = "retired"
    BY DEF PutTask, Exit, TypeOK
  <1>2. incomplete' = incomplete
    BY <1>1, Zenon DEF incomplete
  <1>3. CASE PutTask(w)
    <2>1. Candidate(w) \in tested \cap target
      BY <1>3 DEF PutTask, SolverInv
    <2>2. /\ outcome = "running" /\ reported' = reported \cup {Candidate(w)}
          /\ UNCHANGED <<target, tested, outcome>>
      BY <1>3 DEF PutTask
    <2>3. Search!Report(Candidate(w))
      BY <2>1, <2>2, <1>2, Zenon DEF Search!Report
    <2> QED
      BY <2>1, <2>3, TestedCandidates DEF Search!Next
  <1>4. CASE Exit(w)
    <2>1. reported # {}
      BY <1>4 DEF Exit, ReportInv
    <2>2. /\ outcome = "running" /\ outcome' = "solved"
          /\ UNCHANGED <<target, tested, reported>>
      BY <1>4 DEF Exit
    <2>3. Search!Solve
      BY <2>1, <2>2, <1>2, Zenon DEF Search!Solve
    <2> QED
      BY <2>3 DEF Search!Next
  <1> QED
    BY <1>3, <1>4

LEMMA UnlockRefines ==
  ASSUME TypeOK, NEW w \in Workers, Unlock(w)
  PROVE  Search!Next \/ UNCHANGED Search!vars
  <1>1. /\ outcome = "running"
        /\ UNCHANGED <<target, tested, reported, outcome>>
    BY DEF Unlock
  <1>2. CASE pc[w] = "unlock"
    <2>1. \A v \in Workers : pc'[v] = "retired" <=> pc[v] = "retired"
      BY <1>2 DEF Unlock, TypeOK
    <2>2. incomplete' = incomplete
      BY <2>1, Zenon DEF incomplete
    <2> QED
      BY <1>1, <2>2, Zenon DEF Search!vars
  <1>3. CASE pc[w] = "unlockEmpty"
    <2>1. pc'[w] = "retired"
      BY <1>3 DEF Unlock, TypeOK
    <2>2. incomplete' = FALSE
      BY <2>1, Zenon DEF incomplete
    <2>3. Search!Drain
      BY <1>1, <2>2, Zenon DEF Search!Drain
    <2> QED
      BY <2>3 DEF Search!Next
  <1> QED
    BY <1>2, <1>3 DEF Unlock

LEMMA EndRefines ==
  ASSUME Exhaustive', JoinCrash \/ MainReturn
  PROVE  Search!Next
  <1>1. pc' = pc /\ UNCHANGED <<target, tested, reported>> /\ outcome = "running"
    BY DEF JoinCrash, MainReturn
  <1>2. incomplete' = incomplete
    BY <1>1, Zenon DEF incomplete
  <1>3. CASE JoinCrash
    <2>1. outcome' = "crashed"
      BY <1>3 DEF JoinCrash
    <2>2. Search!Crash
      BY <2>1, <1>1, <1>2, Zenon DEF Search!Crash
    <2> QED
      BY <2>2 DEF Search!Next
  <1>4. CASE MainReturn
    <2>1. outcome' = "returned"
      BY <1>4 DEF MainReturn
    <2>2. ASSUME ~incomplete
          PROVE  Candidates \subseteq tested /\ tested \cap target = {}
      BY <2>1, <2>2, <1>1 DEF Exhaustive, incomplete
    <2>3. Search!Return
      BY <2>1, <2>2, <1>1, <1>2, Zenon DEF Search!Return
    <2> QED
      BY <2>3 DEF Search!Next
  <1> QED
    BY <1>3, <1>4

LEMMA NextSearch ==
  NoWrap /\ Inv /\ Inv' /\ Exhaustive' /\ [Next]_vars =>
    [Search!Next]_(Search!vars)
  <1> SUFFICES ASSUME NoWrap, Inv, Inv', Exhaustive', [Next]_vars
               PROVE  Search!Next \/ UNCHANGED Search!vars
    OBVIOUS
  <1>1. TypeOK /\ MainInv
    BY DEF Inv
  <1>2. CASE UNCHANGED vars
    BY <1>2 DEF vars, Search!vars, incomplete
  <1>3. CASE Main
    <2>1. 0 \in Workers
      BY NAssumption DEF Workers
    <2> QED
      BY <1>1, <1>3, <2>1, QuietSteps, EndRefines DEF Main
  <1>4. ASSUME NEW w \in Workers, Work(w) \/ LockFails(w)
        PROVE  Search!Next \/ UNCHANGED Search!vars
    BY <1>1, <1>4, QuietSteps, HashRefines, ReportRefines, UnlockRefines DEF Work
  <1> QED
    BY <1>2, <1>3, <1>4 DEF Next, Ended

(* Whatever the number of threads and the order of their steps, the search *)
(* hashes no candidate twice and ends as the sequential search may end.    *)
THEOREM Refinement == NoWrap => (Spec => ImplementsSearch)
  <1> SUFFICES ASSUME NoWrap
               PROVE  Spec => Search!Spec
    BY DEF ImplementsSearch
  <1>1. Spec => []Inv
    BY Invariance
  <1>2. Init => Search!Init
    BY InitSearch
  <1>3. Inv /\ Inv' /\ Exhaustive' /\ [Next]_vars =>
          [Search!Next]_(Search!vars)
    BY NextSearch
  <1>4. Spec => []Exhaustive
    BY ExhaustiveHolds
  <1> QED
    BY <1>1, <1>2, <1>3, <1>4, PTL DEF Spec, Search!Spec

-----------------------------------------------------------------------------
(***************************************************************************)
(* Termination, as far as it is not fairness: what is left to do shrinks   *)
(* with every step, and until the end some thread can go on.               *)
(***************************************************************************)

(* The candidates that the pool has not handed out. *)
Untaken == (End - poolTime) * (NonceMax + 1) - poolNonce

(* The steps that thread w may still take before it takes another range,   *)
(* or ends.                                                                *)
Stage(w) ==
  CASE pc[w] = "unborn" -> 7
    [] pc[w] = "get" -> 6
    [] pc[w] = "waiting" -> 5
    [] pc[w] = "locked" -> 4
    [] pc[w] = "read" -> 3
    [] pc[w] = "unlockEmpty" -> 2
    [] pc[w] = "unlock" -> 9 + (task[w].max - task[w].nonce)
    [] pc[w] = "work" -> 8 + (task[w].max - task[w].nonce)
    [] pc[w] = "solved" -> 2
    [] pc[w] = "exiting" -> 1
    [] OTHER -> 0

(* The steps that thread w may still take at most: seven for each          *)
(* candidate that it may yet be given, and those it is at.                 *)
ThreadSteps(w) == 7 * Untaken + Stage(w)

(* Main's two loops and its return; an exit ends them.                     *)
MainSteps ==
  IF outcome = "running" THEN (N - spawned) + (N - joined) + 1 ELSE 0

StepsNat == MainSteps \in Nat /\ \A w \in Workers : ThreadSteps(w) \in Nat

Fewer ==
  /\ MainSteps' <= MainSteps /\ \A w \in Workers : ThreadSteps(w)' <= ThreadSteps(w)
  /\ MainSteps' < MainSteps \/ \E w \in Workers : ThreadSteps(w)' < ThreadSteps(w)

(* Main can go on: it need not wait for the thread that it joins.          *)
MainReady ==
  \/ spawned < N \/ joined = N
  \/ joined < N /\ pc[joined] \in Finished \cup {"notCreated"}

(* Thread w can go on: it has not ended and need not wait for the lock.    *)
ThreadReady(w) ==
  \/ pc[w] \in {"get", "work", "solved", "exiting"} \cup Holding
  \/ pc[w] = "waiting" /\ mtx = NoWorker

(* The threads that main has come to are no longer unborn.                 *)
Born == \A w \in Workers : w < spawned => pc[w] # "unborn"

Ready == MainReady \/ \E w \in Workers : ThreadReady(w)

LEMMA Times1 ==
  ASSUME NEW m \in Nat, NEW x \in Nat
  PROVE  /\ x * m \in Nat
         /\ x > 0 => (x - 1) * m \in Nat /\ x * m = (x - 1) * m + m
  OBVIOUS

LEMMA UntakenNat ==
  ASSUME TypeOK, PoolInv
  PROVE  Untaken \in Nat
  <1>1. /\ poolTime \in Nat /\ End \in Nat /\ NonceMax + 1 \in Nat /\ poolTime <= End
        /\ poolNonce \in Nat /\ poolNonce <= NonceMax /\ NonceMax \in Nat
        /\ poolTime = End => poolNonce = 0
    BY NonceAssumption, TimeAssumption, TAssumption
       DEF TypeOK, PoolInv, End, Times, Nonces
  <1> DEFINE m == NonceMax + 1
             x == End - poolTime
  <1>2. m \in Nat /\ x \in Nat /\ (x = 0 => poolNonce = 0) /\ poolNonce < m
    BY <1>1
  <1> HIDE DEF m, x
  <1>3. x * m \in Nat /\ (x > 0 => (x - 1) * m \in Nat /\ x * m = (x - 1) * m + m)
    BY <1>2, Times1
  <1>4. x = 0 => x * m = 0
    BY <1>2
  <1>5. x * m - poolNonce \in Nat
    <2>1. x = 0 \/ x > 0
      BY <1>2
    <2> DEFINE p == x * m
               q == (x - 1) * m
    <2> HIDE DEF p, q
    <2>2. p \in Nat /\ (x > 0 => q \in Nat /\ p = q + m) /\ (x = 0 => p = 0)
      BY <1>3, <1>4 DEF p, q
    <2>3. p - poolNonce \in Nat
      BY <1>1, <1>2, <2>1, <2>2
    <2> QED
      BY <2>3 DEF p
  <1> QED
    BY <1>5 DEF Untaken, m, x

(* A range that is taken is missing from the rest, all of it.              *)
LEMMA UntakenTake ==
  ASSUME Inv, NoWrap, NEW w \in Workers, TakeTask(w),
         NEW b, b = RangeEnd(poolNonce)
  PROVE  Untaken' = Untaken - (b - poolNonce + 1)
  <1>1. /\ b \in Nonces /\ poolNonce <= b
        /\ poolTime < End
        /\ poolTime' = IF b = NonceMax THEN poolTime + 1 ELSE poolTime
        /\ poolNonce' = IF b = NonceMax THEN 0 ELSE b + 1
    BY TakePool
  <1>2. /\ poolTime \in Nat /\ End \in Nat /\ NonceMax \in Nat
        /\ poolNonce \in Nat /\ b \in Nat /\ b <= NonceMax
    BY <1>1, NonceAssumption, TimeAssumption, TAssumption
       DEF Inv, TypeOK, End, Times, Nonces
  <1> DEFINE m == NonceMax + 1
             x == End - poolTime
  <1>3. m \in Nat /\ x \in Nat /\ x > 0 /\ m = NonceMax + 1
    BY <1>1, <1>2
  <1>4. x * m \in Nat /\ (x - 1) * m \in Nat /\ x * m = (x - 1) * m + m
    <2> HIDE DEF m, x
    <2> QED
      BY <1>3, Times1
  <1>5. Untaken = x * m - poolNonce
    BY DEF Untaken
  <1>6. End' = End
    BY DEF End
  <1>7. CASE b = NonceMax
    <2>1. poolTime' = poolTime + 1 /\ poolNonce' = 0
      BY <1>1, <1>7
    <2>2. End - (poolTime + 1) = x - 1
      BY <1>2
    <2>3. Untaken' = (x - 1) * m - 0
      BY <1>6, <2>1, <2>2 DEF Untaken
    <2> DEFINE p == x * m
               q == (x - 1) * m
    <2>4. p \in Nat /\ q \in Nat /\ p = q + m
      BY <1>4
    <2> HIDE DEF p, q, m, x
    <2>5. q - 0 = (p - poolNonce) - (b - poolNonce + 1)
      BY <1>2, <1>3, <1>7, <2>4
    <2> QED
      BY <1>5, <2>3, <2>5 DEF p, q
  <1>8. CASE b # NonceMax
    <2>1. poolTime' = poolTime /\ poolNonce' = b + 1
      BY <1>1, <1>8
    <2>2. Untaken' = x * m - (b + 1)
      BY <1>6, <2>1 DEF Untaken
    <2> DEFINE p == x * m
    <2>3. p \in Nat
      BY <1>4
    <2> HIDE DEF p, m, x
    <2>4. p - (b + 1) = (p - poolNonce) - (b - poolNonce + 1)
      BY <1>2, <2>3
    <2> QED
      BY <1>5, <2>2, <2>4 DEF p
  <1> QED
    BY <1>7, <1>8

LEMMA StageNat ==
  ASSUME Inv, NEW w \in Workers
  PROVE  Stage(w) \in Nat
  <1>1. pc[w] \in {"unlock", "work"} =>
          task[w].max \in Nat /\ task[w].nonce \in Nat /\ task[w].nonce <= task[w].max
    <2>1. task[w] \in [time : Times, nonce : Nonces, max : Nonces]
      BY DEF Inv, TypeOK
    <2>2. \A x \in Nonces : x \in Nat
      BY NonceAssumption DEF Nonces
    <2> QED
      BY <2>1, <2>2 DEF Inv, PartInv, LeftInv
  <1> QED
    BY <1>1, SMT DEF Stage

LEMMA LeftNat ==
  ASSUME Inv
  PROVE  StepsNat
  <1>1. MainSteps \in Nat
    BY NAssumption DEF Inv, TypeOK, MainSteps
  <1>2. Untaken \in Nat
    BY UntakenNat DEF Inv
  <1>3. ASSUME NEW w \in Workers
        PROVE  ThreadSteps(w) \in Nat
    <2>1. Stage(w) \in Nat
      BY StageNat
    <2> HIDE DEF Stage
    <2> QED
      BY <1>2, <2>1 DEF ThreadSteps
  <1> QED
    BY <1>1, <1>3 DEF StepsNat

(* A step of one thread that leaves the pool, or lessens it.               *)
LEMMA OneThread ==
  ASSUME Inv, NEW w \in Workers,
         \A v \in Workers : v # w => pc'[v] = pc[v] /\ task'[v] = task[v],
         Untaken' \in Int, Untaken' <= Untaken, MainSteps' <= MainSteps,
         MainSteps' < MainSteps \/ ThreadSteps(w)' < ThreadSteps(w),
         ThreadSteps(w)' <= ThreadSteps(w)
  PROVE  Fewer
  <1>1. Untaken \in Nat
    BY UntakenNat DEF Inv
  <1>2. ASSUME NEW v \in Workers
        PROVE  ThreadSteps(v)' <= ThreadSteps(v)
    <2>1. CASE v = w
      BY <2>1
    <2>2. CASE v # w
      <3>1. Stage(v)' = Stage(v)
        BY <2>2 DEF Stage
      <3>2. Stage(v) \in Nat
        BY StageNat
      <3>3. ThreadSteps(v)' = 7 * Untaken' + Stage(v) /\ ThreadSteps(v) = 7 * Untaken + Stage(v)
        BY <3>1 DEF ThreadSteps
      <3> DEFINE u == Untaken
                 x == Untaken'
      <3>4. x \in Int /\ u \in Nat /\ x <= u
        BY <1>1
      <3> HIDE DEF Stage, u, x
      <3>5. 7 * x + Stage(v) <= 7 * u + Stage(v)
        BY <3>2, <3>4
      <3> QED
        BY <3>3, <3>5 DEF u, x
    <2> QED
      BY <2>1, <2>2
  <1>3. MainSteps' < MainSteps \/ \E v \in Workers : ThreadSteps(v)' < ThreadSteps(v)
    OBVIOUS
  <1> QED
    BY <1>2, <1>3 DEF Fewer

(* A step of one thread that leaves the pool alone.                        *)
LEMMA QuietThread ==
  ASSUME Inv, NEW w \in Workers, pc' \in [Workers -> PCs],
         \A v \in Workers : v # w => pc'[v] = pc[v] /\ task'[v] = task[v],
         UNCHANGED <<pool, loops, outcome>>,
         Stage(w)' \in Nat, Stage(w)' < Stage(w)
  PROVE  Fewer
  <1>1. Untaken \in Nat /\ Untaken' = Untaken
    BY UntakenNat DEF Inv, Untaken, End
  <1>2. MainSteps \in Nat /\ MainSteps' = MainSteps
    BY LeftNat DEF StepsNat, MainSteps
  <1>3. ThreadSteps(w)' = 7 * Untaken + Stage(w)' /\ ThreadSteps(w) = 7 * Untaken + Stage(w)
    BY <1>1 DEF ThreadSteps
  <1>4. Stage(w) \in Nat
    BY StageNat
  <1> DEFINE u == Untaken
             y == Stage(w)'
             z == Stage(w)
  <1>5. u \in Nat /\ y \in Nat /\ z \in Nat /\ y < z
    BY <1>1, <1>4
  <1> HIDE DEF u, y, z
  <1>6. 7 * u + y < 7 * u + z /\ 7 * u + y <= 7 * u + z
    BY <1>5
  <1>7. ThreadSteps(w)' < ThreadSteps(w) /\ ThreadSteps(w)' <= ThreadSteps(w)
    BY <1>3, <1>6 DEF u, y, z
  <1>8. Untaken' \in Int /\ Untaken' <= Untaken /\ MainSteps' <= MainSteps
    BY <1>1, <1>2
  <1> QED
    BY <1>7, <1>8, OneThread

LEMMA MainFewer ==
  ASSUME Inv, TypeOK', Main
  PROVE  Fewer
  <1>1. N \in Nat /\ spawned \in 0..N /\ joined \in 0..N /\ outcome = "running"
    BY NAssumption DEF Inv, TypeOK, Main, Spawn, Join, JoinCrash, MainReturn
  <1>2. Untaken \in Nat /\ Untaken' = Untaken
    BY UntakenNat DEF Inv, Untaken, End, Main, Spawn, Join, JoinCrash, MainReturn
  <1>3. MainSteps' < MainSteps
    BY <1>1, SMT DEF Main, Spawn, Join, JoinCrash, MainReturn, MainSteps
  <1>4. MainSteps' <= MainSteps
    BY <1>1, SMT DEF Main, Spawn, Join, JoinCrash, MainReturn, MainSteps
  <1>5. ASSUME NEW v \in Workers
        PROVE  ThreadSteps(v)' <= ThreadSteps(v)
    <2>1. Stage(v) \in Nat
      BY StageNat
    <2>2. Stage(v)' \in Nat /\ Stage(v)' <= Stage(v)
      <3>1. CASE Spawn /\ v = spawned
        <4>1. pc[v] = "unborn" /\ pc'[v] \in {"get", "notCreated"}
          BY <1>1, <3>1 DEF Spawn, Inv, MainInv, TypeOK, Workers
        <4>2. Stage(v) = 7
          BY <4>1 DEF Stage
        <4>3. Stage(v)' \in {6, 0}
          BY <4>1, SMT DEF Stage
        <4> QED
          BY <4>2, <4>3
      <3>2. CASE ~ (Spawn /\ v = spawned)
        <4>1. pc'[v] = pc[v] /\ task' = task
          BY <1>1, <3>2 DEF Main, Spawn, Join, JoinCrash, MainReturn, Inv, TypeOK
        <4>2. Stage(v)' = Stage(v)
          BY <4>1 DEF Stage
        <4> QED
          BY <2>1, <4>2
      <3> QED
        BY <3>1, <3>2
    <2> DEFINE u == Untaken
               y == Stage(v)'
               z == Stage(v)
    <2>3. u \in Nat /\ y \in Nat /\ z \in Nat /\ y <= z
      BY <1>2, <2>1, <2>2
    <2>4. ThreadSteps(v)' = 7 * u + y /\ ThreadSteps(v) = 7 * u + z
      BY <1>2 DEF ThreadSteps
    <2> HIDE DEF u, y, z
    <2>5. 7 * u + y <= 7 * u + z
      BY <2>3
    <2> QED
      BY <2>4, <2>5
  <1> QED
    BY <1>3, <1>4, <1>5 DEF Fewer

LEMMA ThreadFewer ==
  ASSUME Inv, NoWrap, TypeOK', NEW w \in Workers, Work(w) \/ LockFails(w)
  PROVE  Fewer
  <1>1. /\ outcome = "running" /\ outcome \in {"running", "solved", "returned", "crashed"}
        /\ pc \in [Workers -> PCs] /\ pc' \in [Workers -> PCs]
        /\ \A v \in Workers : v # w => pc'[v] = pc[v] /\ task'[v] = task[v]
    BY DEF Work, Lock, TryLockBusy, LockFails, ReadPool, TakeTask, NoTasksLeft, Unlock,
           TestNonce, FindNonce, PutTask, Exit, Inv, TypeOK
  <1>2. /\ task[w].max \in Nat /\ task[w].nonce \in Nat
        /\ pc[w] \in {"unlock", "work"} => task[w].nonce <= task[w].max
    <2>1. task[w] \in [time : Times, nonce : Nonces, max : Nonces]
      BY DEF Inv, TypeOK
    <2>2. \A x \in Nonces : x \in Nat
      BY NonceAssumption DEF Nonces
    <2> QED
      BY <2>1, <2>2 DEF Inv, PartInv, LeftInv
  <1>3. ASSUME Lock(w) \/ TryLockBusy(w) \/ LockFails(w) \/ ReadPool(w) \/ NoTasksLeft(w)
               \/ Unlock(w) \/ FindNonce(w) \/ PutTask(w)
        PROVE  Fewer
    <2>1. UNCHANGED <<pool, loops, outcome, task>>
      BY <1>3 DEF Lock, TryLockBusy, LockFails, ReadPool, NoTasksLeft, Unlock, FindNonce, PutTask
    <2>2. \/ pc[w] = "get" /\ pc'[w] = "locked"
          \/ pc[w] = "waiting" /\ pc'[w] = "locked"
          \/ pc[w] = "get" /\ pc'[w] = "waiting"
          \/ pc[w] = "waiting" /\ pc'[w] = "gaveUp"
          \/ pc[w] = "locked" /\ pc'[w] = "read"
          \/ pc[w] = "read" /\ pc'[w] = "unlockEmpty"
          \/ pc[w] = "unlockEmpty" /\ pc'[w] = "retired"
          \/ pc[w] = "unlock" /\ pc'[w] = "work"
          \/ pc[w] = "work" /\ pc'[w] = "solved"
          \/ pc[w] = "solved" /\ pc'[w] = "exiting"
      BY <1>1, <1>3 DEF Lock, TryLockBusy, LockFails, ReadPool, NoTasksLeft, Unlock, FindNonce,
                        PutTask
    <2>3. Stage(w)' \in Nat /\ Stage(w)' < Stage(w)
      BY <1>2, <2>1, <2>2, SMT DEF Stage
    <2> QED
      BY <1>1, <2>1, <2>3, QuietThread
  <1>4. ASSUME TestNonce(w)
        PROVE  Fewer
    <2>1. UNCHANGED <<pool, loops, outcome>> /\ pc[w] = "work"
      BY <1>4 DEF TestNonce
    <2>2. \/ /\ pc'[w] = "work" /\ task[w].nonce < task[w].max
             /\ task'[w].nonce = task[w].nonce + 1 /\ task'[w].max = task[w].max
          \/ pc'[w] = "get"
      BY <1>1, <1>4 DEF TestNonce, Advanced, Inv, TypeOK
    <2>3. Stage(w)' \in Nat /\ Stage(w)' < Stage(w)
      BY <1>2, <2>1, <2>2, SMT DEF Stage
    <2> QED
      BY <1>1, <2>1, <2>3, QuietThread
  <1>5. ASSUME TakeTask(w)
        PROVE  Fewer
    <2> DEFINE b == RangeEnd(poolNonce)
    <2>1. /\ b \in Nonces /\ poolNonce <= b
          /\ task' = [task EXCEPT ![w] = [time |-> poolTime, nonce |-> poolNonce, max |-> b]]
      BY <1>5, TakePool
    <2>2. Untaken' = Untaken - (b - poolNonce + 1)
      BY <1>5, UntakenTake
    <2> HIDE DEF b
    <2>3. b \in Nat /\ poolNonce \in Nat /\ Untaken \in Nat
      BY <2>1, NonceAssumption, UntakenNat DEF Inv, TypeOK, Nonces
    <2>4. /\ pc[w] = "read" /\ pc'[w] = "unlock"
          /\ task'[w].nonce = poolNonce /\ task'[w].max = b
          /\ MainSteps' = MainSteps
      BY <1>1, <1>5, <2>1 DEF TakeTask, Inv, TypeOK, MainSteps
    <2>5. Stage(w) = 3 /\ Stage(w)' = 9 + (b - poolNonce)
      BY <2>4 DEF Stage
    <2> DEFINE u == Untaken
    <2>6. /\ ThreadSteps(w) = 7 * u + 3
          /\ ThreadSteps(w)' = 7 * (u - (b - poolNonce + 1)) + (9 + (b - poolNonce))
      BY <2>2, <2>5 DEF ThreadSteps
    <2>7. u \in Nat
      BY <2>3
    <2> HIDE DEF u
    <2>8. /\ 7 * (u - (b - poolNonce + 1)) + (9 + (b - poolNonce)) < 7 * u + 3
          /\ 7 * (u - (b - poolNonce + 1)) + (9 + (b - poolNonce)) <= 7 * u + 3
          /\ u - (b - poolNonce + 1) \in Int /\ u - (b - poolNonce + 1) <= u
      BY <2>1, <2>3, <2>7
    <2>9. ThreadSteps(w)' < ThreadSteps(w) /\ ThreadSteps(w)' <= ThreadSteps(w)
      BY <2>6, <2>8
    <2>10. Untaken' \in Int /\ Untaken' <= Untaken
      BY <2>2, <2>8 DEF u
    <2>11. MainSteps' <= MainSteps
      <3>1. MainSteps \in Nat
        BY LeftNat DEF StepsNat
      <3> QED
        BY <2>4, <3>1
    <2> QED
      BY <1>1, <2>9, <2>10, <2>11, OneThread
  <1>6. ASSUME Exit(w)
        PROVE  Fewer
    <2>1. /\ UNCHANGED <<pool, loops, pc, task>> /\ outcome' = "solved"
      BY <1>6 DEF Exit
    <2>2. Untaken \in Nat /\ Untaken' = Untaken
      BY <2>1, UntakenNat DEF Inv, Untaken, End
    <2>3. ThreadSteps(w)' = ThreadSteps(w) /\ ThreadSteps(w) \in Nat
      BY <2>1, <2>2, LeftNat DEF ThreadSteps, Stage, StepsNat
    <2>4. MainSteps' < MainSteps /\ MainSteps' <= MainSteps
      BY <1>1, <2>1, NAssumption, SMT DEF MainSteps, Inv, TypeOK
    <2>5. Untaken' \in Int /\ Untaken' <= Untaken /\ ThreadSteps(w)' <= ThreadSteps(w)
      BY <2>2, <2>3
    <2> QED
      BY <1>1, <2>4, <2>5, OneThread
  <1> QED
    BY <1>3, <1>4, <1>5, <1>6 DEF Work

(* The search cannot go on for ever: every step, of whichever thread, takes *)
(* one of a finite number of steps from some thread and gives none to any,  *)
(* however the threads interleave and whoever gets the lock; none of them   *)
(* takes more than seven for each candidate and seven more                  *)
(* (main_block_solver.c:55-83, 131-152, 195-237).                           *)
THEOREM Progress == NoWrap => (Spec => [][StepsNat /\ Fewer]_vars)
  <1> SUFFICES ASSUME NoWrap
               PROVE  Spec => [][StepsNat /\ Fewer]_vars
    OBVIOUS
  <1>1. Inv /\ [Next]_vars => [StepsNat /\ Fewer]_vars
    <2> SUFFICES ASSUME Inv, Next, vars' # vars
                 PROVE  StepsNat /\ Fewer
      OBVIOUS
    <2>1. ~ Ended
      BY DEF Ended
    <2>2. TypeOK'
      BY NextType DEF Inv
    <2> QED
      BY <2>1, <2>2, LeftNat, MainFewer, ThreadFewer DEF Next
  <1>2. Spec => []Inv
    BY Invariance
  <1> QED
    BY <1>1, <1>2, PTL DEF Spec

(* Nor can it get stuck: as long as the process runs, main need not wait,   *)
(* or some thread is not waiting for a lock that another one holds.         *)
THEOREM NeverStuck == NoWrap => (Spec => [](outcome = "running" => Ready))
  <1> SUFFICES ASSUME NoWrap
               PROVE  Spec => [](outcome = "running" => Ready)
    OBVIOUS
  <1>1. Inv /\ Born => (outcome = "running" => Ready)
    <2> SUFFICES ASSUME Inv, Born, ~ Ready
                 PROVE  FALSE
      OBVIOUS
    <2>1. /\ N \in Nat /\ spawned = N /\ joined \in Nat /\ joined < N /\ joined \in Workers
          /\ pc \in [Workers -> PCs]
      BY NAssumption DEF Ready, MainReady, Inv, TypeOK, Workers
    <2>2. \A w \in Workers : pc[w] \in Holding <=> mtx = w
      BY DEF Inv, LockInv
    <2>3. mtx \in Workers \cup {NoWorker}
      BY DEF Inv, TypeOK
    <2>4. mtx = NoWorker
      BY <2>2, <2>3 DEF Ready, ThreadReady
    <2>5. pc[joined] # "unborn"
      BY <2>1 DEF Born
    <2> QED
      BY <2>1, <2>4, <2>5 DEF Ready, ThreadReady, MainReady, PCs, Finished, Holding
  <1>2. Spec => []Inv
    BY Invariance
  <1>3. Init => Born
    BY NAssumption DEF Init, Born, Workers
  <1>4. Inv /\ Born /\ [Next]_vars => Born'
    <2> SUFFICES ASSUME Inv, Born, [Next]_vars
                 PROVE  Born'
      OBVIOUS
    <2>1. /\ N \in Nat /\ spawned \in Nat /\ pc \in [Workers -> PCs]
          /\ \A w \in Workers : w \in Nat
      BY NAssumption DEF Inv, TypeOK, Workers
    <2>2. CASE Spawn
      BY <2>1, <2>2 DEF Spawn, Born
    <2>3. CASE Join \/ JoinCrash \/ MainReturn \/ UNCHANGED vars
      BY <2>3 DEF Join, JoinCrash, MainReturn, vars, Born
    <2>4. ASSUME NEW w \in Workers, Work(w) \/ LockFails(w)
          PROVE  Born'
      <3>1. UNCHANGED loops /\ pc'[w] # "unborn" /\ \A v \in Workers : v # w => pc'[v] = pc[v]
        BY <2>1, <2>4 DEF Work, Lock, TryLockBusy, LockFails, ReadPool, TakeTask, NoTasksLeft,
                          Unlock, TestNonce, FindNonce, PutTask, Exit
      <3> QED
        BY <3>1 DEF Born
    <2> QED
      BY <2>2, <2>3, <2>4 DEF Next, Main, Ended
  <1> QED
    BY <1>1, <1>2, <1>3, <1>4, PTL DEF Spec

(* If the process has ended, a candidate that beats the target was found,  *)
(* unless there is none or a C11 call failed on the way.                   *)
SolvedAtEnd ==
  outcome # "running" /\ target \cap Candidates # {} =>
    \/ outcome = "solved"
    \/ \E w \in Workers : pc[w] \in {"notCreated", "gaveUp"}

(* Only the join of a thread that was not created crashes.                 *)
CrashInv == outcome = "crashed" => \E w \in Workers : pc[w] = "notCreated"

(* What is left of Solves without fairness: a program that has ended, and  *)
(* whose calls did not fail, has not missed a solution.  With Progress and *)
(* NeverStuck, that some thread is scheduled until the end is all it takes.*)
THEOREM SolvedAtEndHolds == NoWrap => (Spec => []SolvedAtEnd)
  <1> SUFFICES ASSUME NoWrap
               PROVE  Spec => []SolvedAtEnd
    OBVIOUS
  <1>1. Inv /\ CrashInv => SolvedAtEnd
    <2> SUFFICES ASSUME Inv, CrashInv, outcome = "returned", target \cap Candidates # {},
                        \A w \in Workers : pc[w] \notin {"notCreated", "gaveUp"}
                 PROVE  FALSE
      BY DEF SolvedAtEnd, CrashInv, Inv, TypeOK
    <2>1. \A w \in Workers : pc[w] = "retired"
      BY NAssumption DEF Inv, MainInv, Workers
    <2>2. 0 \in Workers
      BY NAssumption DEF Workers
    <2>3. tested = Candidates /\ tested \cap target = {}
      BY <2>1, <2>2, InvExhaustive DEF Exhaustive
    <2> QED
      BY <2>3
  <1>2. Init => CrashInv
    BY DEF Init, CrashInv
  <1>3. Inv /\ CrashInv /\ [Next]_vars => CrashInv'
    <2> SUFFICES ASSUME Inv, CrashInv, [Next]_vars, outcome' = "crashed"
                 PROVE  \E w \in Workers : pc'[w] = "notCreated"
      BY DEF CrashInv
    <2>1. CASE outcome = "crashed"
      <3>1. UNCHANGED pc
        BY <2>1 DEF Next, Main, Spawn, Join, JoinCrash, MainReturn, Work, Lock, TryLockBusy,
                    LockFails, ReadPool, TakeTask, NoTasksLeft, Unlock, TestNonce, FindNonce,
                    PutTask, Exit, Ended, vars
      <3> QED
        BY <2>1, <3>1 DEF CrashInv
    <2>2. CASE outcome # "crashed"
      <3>1. JoinCrash
        BY <2>2 DEF Next, Main, Spawn, Join, MainReturn, Work, Lock, TryLockBusy, LockFails,
                    ReadPool, TakeTask, NoTasksLeft, Unlock, TestNonce, FindNonce, PutTask,
                    Exit, Ended, vars
      <3>2. joined \in Workers
        BY <3>1, NAssumption DEF JoinCrash, Inv, TypeOK, Workers
      <3> QED
        BY <3>1, <3>2 DEF JoinCrash
    <2> QED
      BY <2>1, <2>2
  <1>4. Spec => []Inv
    BY Invariance
  <1> QED
    BY <1>1, <1>2, <1>3, <1>4, PTL DEF Spec

=============================================================================
