----------------------------- MODULE FindNonce -----------------------------
(***************************************************************************)
(* bc_find_nonce of src/apps/bcapp/find_nonce.c, the search that the block *)
(* solver replaced: find_nonce_v1 in the calling thread ("v1"), which the  *)
(* #if of bc_find_nonce chooses, or find_nonce_par with one thread for     *)
(* each of N jobs ("par"), the branch behind it, which needs another #if.  *)
(* A program may call it again and again; no target of the build does.     *)
(*                                                                         *)
(* All calls share FindNonceStopFlag, a plain bool that the thread with a  *)
(* solution sets and nobody clears.  It is not atomic: until the thread is *)
(* joined, another thread may or may not see it (stop against raised).     *)
(***************************************************************************)
EXTENDS Integers

CONSTANTS
  N,            \* the jobs: 20 in the code
  NonceMod,     \* nonces are uint32_t: 2^32 in the code
  Width,        \* the bytes of a hash: 32 in the code
  Hashes,       \* the hashes: functions from 1..Width to bytes, the first
                \* byte the least significant one
  Variants,     \* {"v1", "par"} or one of them
  Inputs,       \* the calls: [min, max, target, hash, nonce], where hash
                \* maps each nonce to the hash of the header with it
  MaxCalls      \* bound: the calls of bc_find_nonce

Jobs == 0..(N - 1)
Nonces == 0..(NonceMod - 1)

Calls == [min : Nonces, max : Nonces, target : Hashes,
          hash : [Nonces -> Hashes], nonce : Nonces]

ASSUME NAssumption == N \in Nat \ {0}
ASSUME NonceAssumption == NonceMod \in Nat \ {0} /\ MaxCalls \in Nat
ASSUME WidthAssumption == Width \in Nat /\ Hashes \subseteq [1..Width -> Nat]
ASSUME VariantAssumption == Variants \subseteq {"v1", "par"}
ASSUME InputAssumption ==
  Inputs \subseteq Calls /\ \A c \in Inputs : c.min <= c.max

VARIABLES
  variant,      \* which search was compiled
  input,        \* the arguments of the call
  main,         \* "idle", "spawn", "join", "returned", "aborted", "crashed"
  spawned,      \* the index of the thrd_create loop
  joined,       \* the index of the thrd_join loop
  stop,         \* FindNonceStopFlag as it was when the threads began
  raised,       \* it was set since then
  job,          \* job[w]: its range, min and max
  pc,           \* pc[w]: "none", "notCreated", "hash", "next" or "done"
  nonce,        \* nonce[w]: the local nonce of find_nonce_v1
  best,         \* best[w]: nonce_best
  buffer,       \* buffer[w]: the nonce field of the header it works on
  rs,           \* rs[w]: its result, at first 0 = BcSuccess
  ec,           \* the result of the call
  header,       \* the nonce field of the caller's header
  calls         \* bound: the calls so far

args == <<variant, input, calls>>
result == <<ec, header>>
flags == <<stop, raised>>
loops == <<spawned, joined>>
locals == <<job, nonce, best, buffer, rs>>
vars == <<args, main, loops, flags, pc, locals, result>>

Results == {"success", "notFound", "canceled"}

Init ==
  /\ variant \in Variants /\ input \in Inputs
  /\ main = "idle" /\ spawned = 0 /\ joined = 0
  /\ stop = FALSE /\ raised = FALSE
  /\ job = [w \in Jobs |-> [min |-> 0, max |-> 0]]
  /\ pc = [w \in Jobs |-> "none"]
  /\ nonce = [w \in Jobs |-> 0] /\ best = [w \in Jobs |-> 0]
  /\ buffer = [w \in Jobs |-> 0]
  /\ rs = [w \in Jobs |-> "success"]
  /\ ec = "success" /\ header = 0 /\ calls = 0
-----------------------------------------------------------------------------
(* i256_compare: from the most significant byte down; the further it gets, *)
(* the greater is its absolute value.                                      *)
i256_compare(l, r) ==
  IF l = r THEN 0
  ELSE LET j == CHOOSE k \in 1..Width :
                  l[k] # r[k] /\ \A m \in (k + 1)..Width : l[m] = r[m]
       IN  IF l[j] > r[j] THEN 1 + (Width - j) ELSE -1 - (Width - j)

Compare(n) == i256_compare(input.hash[n], input.target)

(* nd: `jobs[N - 1].max = nonce_max` adds the remainder to the last job. *)
Share(c) == (c.max - c.min + 1) \div N
JobMax(c, nd, w) == IF w = N - 1 THEN c.max ELSE c.min + w * nd + nd - 1

Range(c, w) ==
  IF variant = "v1" THEN [min |-> c.min, max |-> c.max]
  ELSE [min |-> c.min + w * Share(c), max |-> JobMax(c, Share(c), w)]

(* nu_assert(nd > 0) *)
Enough(c) == variant = "v1" \/ Share(c) > 0

(* bc_find_nonce is called.  find_nonce_par asserts that each job has a    *)
(* nonce and copies the header for it; find_nonce_v1 works on the caller's.*)
Call(c) ==
  /\ main \in {"idle", "returned"} /\ calls < MaxCalls
  /\ calls' = calls + 1 /\ input' = c /\ header' = c.nonce
  /\ spawned' = 0 /\ joined' = 0
  /\ stop' = (stop \/ raised) /\ raised' = FALSE
  /\ job' = IF Enough(c) THEN [w \in Jobs |-> Range(c, w)] ELSE job
  /\ nonce' = [w \in Jobs |-> job'[w].min] /\ best' = nonce'
  /\ buffer' = [w \in Jobs |-> c.nonce]
  /\ rs' = [w \in Jobs |-> "success"]
  /\ IF variant = "v1"
       THEN main' = "join" /\ pc' = [w \in Jobs |-> IF w = 0 THEN "hash" ELSE "none"]
       ELSE /\ main' = IF Enough(c) THEN "spawn" ELSE "aborted"
            /\ pc' = [w \in Jobs |-> "none"]
  /\ UNCHANGED <<variant, ec>>

(* malloc returns NULL, which memcpy then writes to. *)
CopyFails ==
  /\ main = "spawn" /\ spawned = 0
  /\ main' = "crashed"
  /\ UNCHANGED <<args, loops, flags, pc, locals, result>>

(* The result of thrd_create is not looked at. *)
Spawn ==
  /\ main = "spawn"
  /\ pc' \in {[pc EXCEPT ![spawned] = to] : to \in {"hash", "notCreated"}}
  /\ spawned' = spawned + 1
  /\ main' = IF spawned + 1 = N THEN "join" ELSE main
  /\ UNCHANGED <<args, joined, flags, locals, result>>

(* thrd_join of a thread that was not created is undefined: it fails, which*)
(* nobody notices and leaves rs[joined] at 0, or it ends the process.      *)
Join ==
  /\ main = "join" /\ variant = "par" /\ joined < N
  /\ pc[joined] \in {"done", "notCreated"}
  /\ joined' = joined + 1
  /\ UNCHANGED <<args, main, spawned, flags, pc, locals, result>>

JoinCrash ==
  /\ main = "join" /\ variant = "par" /\ joined < N
  /\ pc[joined] = "notCreated"
  /\ main' = "crashed"
  /\ UNCHANGED <<args, loops, flags, pc, locals, result>>

(* The first job whose result is 0 gives the header. *)
FirstFound(w) == rs[w] = "success" /\ \A v \in 0..(w - 1) : rs[v] # "success"

Return ==
  /\ main = "join" /\ main' = "returned"
  /\ \/ /\ variant = "v1" /\ pc[0] = "done"
        /\ ec' = rs[0] /\ header' = buffer[0]
     \/ /\ variant = "par" /\ joined = N
        /\ IF \E w \in Jobs : FirstFound(w)
             THEN \E w \in Jobs :
                    FirstFound(w) /\ ec' = "success" /\ header' = buffer[w]
             ELSE ec' = "notFound" /\ header' = header
  /\ UNCHANGED <<args, loops, flags, pc, locals>>
-----------------------------------------------------------------------------
(* find_nonce_v1, for job w *)

Alive == main \in {"spawn", "join"}

Result(w, r) == rs' = [rs EXCEPT ![w] = r] /\ pc' = [pc EXCEPT ![w] = "done"]

(* Mutant: a hash below the target counts too, as in i256_le. *)
HitBelow(w) == Compare(nonce[w]) <= 0

(* `if (cmp) goto next_nonce`: only the target itself is a hit. *)
Hit(w) == Compare(nonce[w]) = 0

Better(w) == Compare(nonce[w]) > Compare(best[w])

(* proc: the nonce goes into the header, which is hashed and compared. *)
Hash(w) ==
  /\ Alive /\ pc[w] = "hash"
  /\ buffer' = [buffer EXCEPT ![w] = nonce[w]]
  /\ best' = IF Better(w) THEN [best EXCEPT ![w] = nonce[w]] ELSE best
  /\ IF Hit(w)
       THEN raised' = TRUE /\ Result(w, "success")
       ELSE raised' = raised /\ rs' = rs /\ pc' = [pc EXCEPT ![w] = "next"]
  /\ UNCHANGED <<args, main, loops, stop, job, nonce, result>>

(* Mutant: the range ends before its last nonce. *)
AtEndEarly(w) == nonce[w] + 1 >= job[w].max

AtEnd(w) == nonce[w] >= job[w].max

(* next_nonce: the end of the range puts the best nonce into the header. *)
NotFound(w) ==
  /\ Alive /\ pc[w] = "next" /\ AtEnd(w)
  /\ buffer' = [buffer EXCEPT ![w] = best[w]]
  /\ Result(w, "notFound")
  /\ UNCHANGED <<args, main, loops, flags, job, nonce, best, result>>

Cancel(w) ==
  /\ Alive /\ pc[w] = "next" /\ ~AtEnd(w) /\ (stop \/ raised)
  /\ Result(w, "canceled")
  /\ UNCHANGED <<args, main, loops, flags, job, nonce, best, buffer, result>>

(* Mutant: the same nonce again. *)
SuccessorSame(n) == n

Successor(n) == n + 1

NextNonce(w) ==
  /\ Alive /\ pc[w] = "next" /\ ~AtEnd(w) /\ ~stop
  /\ nonce' = [nonce EXCEPT ![w] = Successor(@)]
  /\ pc' = [pc EXCEPT ![w] = "hash"]
  /\ UNCHANGED <<args, main, loops, flags, job, best, buffer, rs, result>>
-----------------------------------------------------------------------------
Main == Spawn \/ Join \/ JoinCrash \/ Return
Work(w) == Hash(w) \/ NotFound(w) \/ Cancel(w) \/ NextNonce(w)

(* No further call, or no program any more. *)
Idle ==
  /\ main \in {"aborted", "crashed"} \/ (main = "returned" /\ calls = MaxCalls)
  /\ UNCHANGED vars

Next ==
  \/ \E c \in Inputs : Call(c)
  \/ CopyFails \/ Main \/ Idle
  \/ \E w \in Jobs : Work(w)

Spec == Init /\ [][Next]_vars

(* The system schedules the calling thread and each thread it created.  No *)
(* fairness is asked of what may fail, nor that a thread sees the flag.    *)
FairSpec == Spec /\ WF_vars(Main) /\ \A w \in Jobs : WF_vars(Work(w))
-----------------------------------------------------------------------------
(* Properties *)

(* Every variable has its type. *)
TypeOK ==
  /\ variant \in Variants /\ input \in Inputs /\ calls \in 0..MaxCalls
  /\ main \in {"idle", "spawn", "join", "returned", "aborted", "crashed"}
  /\ spawned \in 0..N /\ joined \in 0..N
  /\ stop \in BOOLEAN /\ raised \in BOOLEAN
  /\ job \in [Jobs -> [min : Nonces, max : Nonces]]
  /\ pc \in [Jobs -> {"none", "notCreated", "hash", "next", "done"}]
  /\ nonce \in [Jobs -> Nonces] /\ best \in [Jobs -> Nonces]
  /\ buffer \in [Jobs -> Nonces]
  /\ rs \in [Jobs -> Results] /\ ec \in Results /\ header \in Nonces

Target == {n \in input.min..input.max : input.hash[n] = input.target}

(* "Found" is true, whichever thread was first and whichever result is     *)
(* taken, if every thread was created: the header then has a nonce of the  *)
(* range and its hash is the target.  (A job whose thread was not created  *)
(* keeps the result 0, find_nonce.c:211.)                                  *)
FoundSound ==
  /\ main = "returned" /\ ec = "success"
  /\ \A w \in Jobs : pc[w] # "notCreated"
  => header \in Target

(* A search that ends with nothing found has left nothing out, in spite of *)
(* the threads that were cancelled, as long as no earlier call succeeded.  *)
(* After one that did, the flag is still up: each job hashes its first     *)
(* nonce only, and "not found" says nothing (find_nonce.c:23).             *)
NotFoundExhaustive ==
  main = "returned" /\ ec # "success" /\ ~stop => Target = {}

(* Every call returns, unless the process ends. *)
Returns == Alive ~> ~Alive

=============================================================================
