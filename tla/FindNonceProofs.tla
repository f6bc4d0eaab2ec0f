--------------------------- MODULE FindNonceProofs ---------------------------
(***************************************************************************)
(* Proofs about FindNonce, for any number of jobs and nonces.              *)
(***************************************************************************)
EXTENDS FindNonce, WellFoundedInduction, TLAPS

(* A set of naturals that is not empty has a least element.                *)
LEMMA Least ==
  ASSUME NEW T, T \subseteq Nat, T # {}
  PROVE  \E x \in T : \A y \in T : x <= y
  <1> DEFINE R == {p \in Nat \X Nat : p[1] < p[2]}
  <1>1. IsWellFoundedOn(R, Nat)
    <2>1. R = OpToRel(<, Nat)
      BY DEF OpToRel
    <2> QED
      BY <2>1, NatLessThanWellFounded
  <1>2. PICK x \in T : \A y \in T : ~ (<<y, x>> \in R)
    BY <1>1, WFMin
  <1>3. ASSUME NEW y \in T
        PROVE  x <= y
    <2>1. x \in Nat /\ y \in Nat
      OBVIOUS
    <2>2. ~ (y < x)
      BY <1>2, <2>1
    <2> QED
      BY <2>1, <2>2
  <1> QED
    BY <1>3

(* A set of indexes that is not empty has a greatest element.              *)
LEMMA Greatest ==
  ASSUME NEW n \in Nat, NEW T, T \subseteq 1..n, T # {}
  PROVE  \E x \in T : \A y \in T : y <= x
  <1> DEFINE D == {n - x : x \in T}
  <1>1. D \subseteq Nat
    <2> SUFFICES ASSUME NEW x \in T
                 PROVE  n - x \in Nat
      OBVIOUS
    <2>1. x \in 1..n
      OBVIOUS
    <2> QED
      BY <2>1
  <1>2. D # {}
    OBVIOUS
  <1> HIDE DEF D
  <1>3. PICK d \in D : \A e \in D : d <= e
    BY <1>1, <1>2, Least
  <1>4. PICK x \in T : d = n - x
    BY <1>3 DEF D
  <1>5. ASSUME NEW y \in T
        PROVE  y <= x
    <2>1. n - y \in D
      BY DEF D
    <2>2. n - x <= n - y
      BY <1>3, <1>4, <2>1
    <2>3. x \in 1..n /\ y \in 1..n
      OBVIOUS
    <2> QED
      BY <2>2, <2>3
  <1> QED
    BY <1>5

(* i256_compare says 0 of equal hashes, and of no others: of two that      *)
(* differ there is a most significant byte that does.                      *)
LEMMA CompareZero ==
  ASSUME NEW l \in Hashes, NEW r \in Hashes
  PROVE  i256_compare(l, r) = 0 <=> l = r
  <1>1. l = r => i256_compare(l, r) = 0
    BY DEF i256_compare
  <1>2. ASSUME l # r
        PROVE  i256_compare(l, r) # 0
    <2> DEFINE T == {k \in 1..Width : l[k] # r[k]}
               Top(k) == l[k] # r[k] /\ \A m \in (k + 1)..Width : l[m] = r[m]
               j == CHOOSE k \in 1..Width : Top(k)
    <2>1. Width \in Nat /\ l \in [1..Width -> Nat] /\ r \in [1..Width -> Nat]
      BY WidthAssumption
    <2>2. T # {}
      BY <1>2, <2>1
    <2>3. PICK x \in T : \A y \in T : y <= x
      BY <2>1, <2>2, Greatest
    <2>4. Top(x)
      <3>1. ASSUME NEW m \in (x + 1)..Width
            PROVE  l[m] = r[m]
        <4>1. m \in 1..Width /\ ~ (m <= x)
          BY <2>1
        <4> QED
          BY <2>3, <4>1
      <3> QED
        BY <3>1
    <2>5. j \in 1..Width
      BY <2>4
    <2>6. 1 + (Width - j) # 0 /\ -1 - (Width - j) # 0
      <3> HIDE DEF j
      <3> QED
        BY <2>1, <2>5
    <2>7. i256_compare(l, r) \in {1 + (Width - j), -1 - (Width - j)}
      BY <1>2 DEF i256_compare
    <2> QED
      BY <2>6, <2>7
  <1> QED
    BY <1>1, <1>2

LEMMA DivFacts ==
  ASSUME NEW x \in Nat, NEW d \in Nat \ {0}
  PROVE  /\ x \div d \in Nat
         /\ d * (x \div d) <= x
  OBVIOUS

(* What is left to a job that takes w shares out of N fits.                *)
LEMMA Product ==
  ASSUME NEW nd \in Nat, NEW w \in Jobs
  PROVE  /\ w * nd \in Nat /\ w * nd + nd = (w + 1) * nd
         /\ (w + 1) * nd <= N * nd
         /\ w + 1 \in Nat
  <1>1. N \in Nat /\ w \in Nat /\ w + 1 <= N /\ w + 1 \in Nat
    BY NAssumption DEF Jobs
  <1>2. \A a, b, x \in Nat : a <= b => a * x <= b * x
    OBVIOUS
  <1>3. \A a, x \in Nat : a * x \in Nat /\ a * x + x = (a + 1) * x
    OBVIOUS
  <1> QED
    BY <1>1, <1>2, <1>3

-----------------------------------------------------------------------------
(* The ranges of the jobs *)

(* Every job of a call that is accepted has a nonce, and stays within what *)
(* the caller asked for.                                                   *)
LEMMA RangeFacts ==
  ASSUME variant \in Variants, NEW c \in Inputs, Enough(c), NEW w \in Jobs
  PROVE  /\ Range(c, w) \in [min : Nonces, max : Nonces]
         /\ c.min <= Range(c, w).min /\ Range(c, w).min <= Range(c, w).max
         /\ Range(c, w).max <= c.max
  <1>1. /\ c.min \in Nonces /\ c.max \in Nonces /\ c.min <= c.max
        /\ c.min \in Nat /\ c.max \in Nat
    BY InputAssumption, NonceAssumption DEF Calls, Nonces
  <1>2. CASE variant = "v1"
    BY <1>1, <1>2 DEF Range
  <1>3. CASE variant # "v1"
    <2> DEFINE nd == Share(c)
    <2>1. nd \in Nat /\ nd > 0
      <3>1. nd \in Nat
        BY <1>1, DivFacts, NAssumption DEF Share
      <3> QED
        BY <1>3, <3>1 DEF Enough
    <2>2. N * nd <= c.max - c.min + 1
      BY <1>1, DivFacts, NAssumption DEF Share
    <2> HIDE DEF nd
    <2>3. /\ w * nd \in Nat /\ w * nd + nd <= N * nd /\ N * nd \in Nat
      <3>1. \A a \in Nat : a * nd \in Nat
        BY <2>1
      <3> QED
        BY <2>1, <3>1, Product, NAssumption
    <2>4. Range(c, w) = [min |-> c.min + w * nd, max |-> JobMax(c, nd, w)]
      BY <1>3 DEF Range, nd
    <2>5. JobMax(c, nd, w) \in {c.max, c.min + w * nd + nd - 1}
      BY DEF JobMax
    <2>6. /\ c.min + w * nd \in Nat /\ JobMax(c, nd, w) \in Nat
          /\ c.min <= c.min + w * nd /\ c.min + w * nd <= JobMax(c, nd, w)
          /\ JobMax(c, nd, w) <= c.max
      BY <1>1, <2>1, <2>2, <2>3, <2>5
    <2>7. \A x \in Nat : x <= c.max => x \in Nonces
      BY <1>1, NonceAssumption DEF Nonces
    <2>8. c.min + w * nd \in Nonces /\ JobMax(c, nd, w) \in Nonces
      BY <1>1, <2>6, <2>7
    <2> QED
      BY <2>4, <2>6, <2>8
  <1> QED
    BY <1>2, <1>3

(* The ranges leave no nonce out.                                          *)
LEMMA Cover ==
  ASSUME variant \in Variants, NEW c \in Inputs, Enough(c),
         NEW n \in Nat, c.min <= n, n <= c.max
  PROVE  \E w \in Jobs : Range(c, w).min <= n /\ n <= Range(c, w).max
  <1>1. c.min \in Nat /\ c.max \in Nat
    BY InputAssumption, NonceAssumption DEF Calls, Nonces
  <1>2. N \in Nat \ {0} /\ 0 \in Jobs /\ N - 1 \in Jobs
    BY NAssumption DEF Jobs
  <1>3. CASE variant = "v1"
    BY <1>2, <1>3 DEF Range
  <1>4. CASE variant # "v1"
    <2> DEFINE nd == Share(c)
               T == {w \in Jobs : n <= JobMax(c, nd, w)}
    <2>1. nd \in Nat
      BY <1>1, DivFacts, NAssumption, InputAssumption DEF Share
    <2>2. \A w \in Jobs :
            Range(c, w) = [min |-> c.min + w * nd, max |-> JobMax(c, nd, w)]
      BY <1>4 DEF Range
    <2> HIDE DEF nd
    <2>3. N - 1 \in T
      BY <1>2 DEF JobMax
    <2>4. PICK w \in T : \A y \in T : w <= y
      <3>1. T \subseteq Nat
        BY DEF Jobs
      <3> QED
        BY <2>3, <3>1, Least
    <2>5. c.min + w * nd <= n
      <3>1. w \in Jobs /\ w \in Nat
        BY DEF Jobs
      <3>2. CASE w = 0
        <4>1. 0 * nd = 0
          BY <2>1
        <4> QED
          BY <1>1, <3>2, <4>1
      <3>3. CASE w # 0
        <4>1. w - 1 \in Jobs /\ ~ (w <= w - 1) /\ w - 1 # N - 1
          BY <1>2, <3>1, <3>3 DEF Jobs
        <4>2. ~ (n <= JobMax(c, nd, w - 1))
          BY <2>4, <4>1
        <4>3. JobMax(c, nd, w - 1) = c.min + (w - 1) * nd + nd - 1
          BY <4>1 DEF JobMax
        <4>4. (w - 1) * nd + nd = w * nd /\ (w - 1) * nd \in Nat
          <5>1. \A a, x \in Nat : a * x \in Nat /\ a * x + x = (a + 1) * x
            OBVIOUS
          <5>2. w - 1 \in Nat /\ (w - 1) + 1 = w
            BY <3>1, <3>3
          <5> QED
            BY <2>1, <5>1, <5>2
        <4>5. \A p, q \in Nat : p + nd = q =>
                (~ (n <= c.min + p + nd - 1) => c.min + q <= n)
          BY <1>1, <2>1
        <4>6. w * nd \in Nat
          BY <2>1, <4>4
        <4> QED
          BY <4>2, <4>3, <4>4, <4>5, <4>6
      <3> QED
        BY <3>2, <3>3
    <2>6. w \in Jobs /\ n <= JobMax(c, nd, w)
      OBVIOUS
    <2> QED
      BY <2>2, <2>5, <2>6
  <1> QED
    BY <1>3, <1>4
-----------------------------------------------------------------------------
(* The inductive invariant *)

NoHit(x) == input.hash[x] # input.target

(* Where the calling thread and the created ones may be.                   *)
LoopInv ==
  /\ variant = "v1" => main = "join" /\ \A w \in Jobs : w > 0 => pc[w] = "none"
  /\ variant = "par" =>
       /\ \A w \in Jobs : pc[w] = "none" <=> spawned <= w
       /\ main = "spawn" => spawned < N
       /\ main = "join" => spawned = N
       /\ \A w \in Jobs : w < joined => pc[w] \in {"done", "notCreated"}

(* What job w has hashed so far is no hit, and what it says is true.       *)
JobInv(w) ==
  /\ job[w] = Range(input, w)
  /\ pc[w] = "none" => nonce[w] = job[w].min
  /\ pc[w] \in {"hash", "next"} => job[w].min <= nonce[w] /\ nonce[w] <= job[w].max
  /\ pc[w] = "hash" =>
       \A x \in Nonces : job[w].min <= x /\ x < nonce[w] => NoHit(x)
  /\ pc[w] = "next" =>
       \A x \in Nonces : job[w].min <= x /\ x <= nonce[w] => NoHit(x)
  /\ pc[w] = "done" /\ rs[w] = "notFound" =>
       \A x \in Nonces : job[w].min <= x /\ x <= job[w].max => NoHit(x)
  /\ pc[w] = "done" /\ rs[w] = "success" => buffer[w] \in Target
  /\ rs[w] = "canceled" => stop \/ raised
  /\ pc[w] # "done" => rs[w] = "success"

(* The flag is raised by a job that succeeded, and by no other.            *)
FlagInv == raised => \E w \in Jobs : pc[w] = "done" /\ rs[w] = "success"

SearchInv == Enough(input) /\ LoopInv /\ (\A w \in Jobs : JobInv(w)) /\ FlagInv

Inv == TypeOK /\ (Alive => SearchInv) /\ FoundSound /\ NotFoundExhaustive

LEMMA InitInv ==
  ASSUME Init
  PROVE  Inv
  <1>1. N \in Nat \ {0} /\ 0 \in Nonces /\ 0 \in 0..MaxCalls /\ 0 \in 0..N
    BY NAssumption, NonceAssumption DEF Nonces
  <1>2. TypeOK
    BY <1>1 DEF Init, TypeOK, Results
  <1> QED
    BY <1>2 DEF Init, Inv, Alive, FoundSound, NotFoundExhaustive

LEMMA CallInv ==
  ASSUME Inv, NEW c \in Inputs, Call(c)
  PROVE  Inv'
  <1>1. TypeOK /\ variant \in Variants /\ variant' = variant /\ input' = c
        /\ calls \in Nat /\ calls < MaxCalls
    BY NonceAssumption DEF Inv, TypeOK, Call
  <1>2. c.nonce \in Nonces /\ 0 \in 0..N /\ 0 \in Jobs
    BY InputAssumption, NAssumption DEF Calls, Jobs
  <1>3. Enough(c) => \A w \in Jobs :
          /\ job'[w] = Range(c, w)
          /\ Range(c, w) \in [min : Nonces, max : Nonces]
          /\ Range(c, w).min <= Range(c, w).max
    BY <1>1, RangeFacts DEF Call
  <1>4. job' \in [Jobs -> [min : Nonces, max : Nonces]]
    <2>1. CASE Enough(c)
      BY <1>1, <2>1, RangeFacts DEF Call
    <2>2. CASE ~ Enough(c)
      BY <1>1, <2>2 DEF Call, TypeOK
    <2> QED
      BY <2>1, <2>2
  <1>5. nonce' = [w \in Jobs |-> job'[w].min] /\ nonce' \in [Jobs -> Nonces]
    BY <1>4 DEF Call
  <1>6. TypeOK'
    <2>1. calls' \in 0..MaxCalls
      BY <1>1, NonceAssumption DEF Call
    <2>2. main' \in {"join", "spawn", "aborted"}
          /\ pc' \in [Jobs -> {"none", "notCreated", "hash", "next", "done"}]
      BY DEF Call
    <2>3. stop' \in BOOLEAN /\ raised' \in BOOLEAN
      BY <1>1 DEF Call, TypeOK
    <2>4. /\ spawned' = 0 /\ joined' = 0 /\ best' = nonce' /\ header' = c.nonce
          /\ buffer' = [w \in Jobs |-> c.nonce] /\ ec' = ec
          /\ rs' = [w \in Jobs |-> "success"]
      BY DEF Call
    <2> QED
      BY <1>1, <1>2, <1>4, <1>5, <2>1, <2>2, <2>3, <2>4 DEF TypeOK, Results
  <1>7. ASSUME Alive'
        PROVE  SearchInv'
    <2>1. Enough(c) /\ Enough(input)'
      BY <1>1, <1>7 DEF Call, Enough, Alive, Share
    <2>2. LoopInv'
      BY <1>1, <1>2, NAssumption DEF LoopInv, Call, Jobs
    <2>3. ASSUME NEW w \in Jobs
          PROVE  JobInv(w)'
      <3>1. job'[w] = Range(input, w)'
        BY <1>1, <1>3, <2>1 DEF Range, JobMax, Share
      <3>2. nonce'[w] = job'[w].min /\ nonce'[w] <= job'[w].max
        BY <1>3, <1>5, <2>1
      <3>3. nonce'[w] \in Int /\ \A x \in Nonces : x \in Int
        BY <1>5, NonceAssumption DEF Nonces
      <3>4. pc'[w] \in {"none", "hash"} /\ rs'[w] = "success"
        BY DEF Call
      <3> QED
        BY <3>1, <3>2, <3>3, <3>4 DEF JobInv
    <2>4. FlagInv'
      BY DEF Call, FlagInv
    <2> QED
      BY <2>1, <2>2, <2>3, <2>4 DEF SearchInv
  <1>8. FoundSound' /\ NotFoundExhaustive'
    BY DEF Call, FoundSound, NotFoundExhaustive
  <1> QED
    BY <1>6, <1>7, <1>8 DEF Inv

(* Thread w has been created, or has not: nothing of it has been hashed.   *)
LEMMA SpawnInv ==
  ASSUME Inv, Spawn
  PROVE  Inv'
  <1>1. TypeOK /\ SearchInv /\ main = "spawn" /\ variant = "par"
    BY VariantAssumption DEF Inv, Alive, Spawn, TypeOK, SearchInv, LoopInv
  <1>2. /\ spawned < N /\ spawned \in Jobs /\ spawned \in Nat /\ N \in Nat
        /\ pc[spawned] = "none" /\ \A w \in Jobs : w \in Nat /\ w < N
    BY <1>1, NAssumption DEF SearchInv, LoopInv, TypeOK, Jobs
  <1>3. PICK to \in {"hash", "notCreated"} : pc' = [pc EXCEPT ![spawned] = to]
    BY DEF Spawn
  <1>4. /\ spawned' = spawned + 1 /\ main' = IF spawned + 1 = N THEN "join" ELSE main
        /\ UNCHANGED <<args, joined, flags, locals, result>>
    BY DEF Spawn
  <1>5. /\ \A w \in Jobs : w # spawned => pc'[w] = pc[w]
        /\ pc'[spawned] = to
        /\ pc' \in [Jobs -> {"none", "notCreated", "hash", "next", "done"}]
    BY <1>1, <1>2, <1>3 DEF TypeOK
  <1>6. TypeOK'
    <2>1. spawned' \in 0..N
      BY <1>2, <1>4
    <2> QED
      BY <1>1, <1>4, <1>5, <2>1 DEF TypeOK, args, flags, locals, result
  <1>7. Enough(input)'
    BY <1>1, <1>4 DEF SearchInv, Enough, Share, args
  <1>8. LoopInv'
    <2>1. \A w \in Jobs : pc'[w] = "none" <=> spawned' <= w
      BY <1>1, <1>2, <1>4, <1>5 DEF SearchInv, LoopInv
    <2>2. \A w \in Jobs : w < joined' => pc'[w] \in {"done", "notCreated"}
      BY <1>1, <1>2, <1>4, <1>5 DEF SearchInv, LoopInv
    <2>3. (main' = "spawn" => spawned' < N) /\ (main' = "join" => spawned' = N)
      BY <1>1, <1>2, <1>4
    <2> QED
      BY <1>1, <1>4, <2>1, <2>2, <2>3 DEF LoopInv, args
  <1>9. ASSUME NEW w \in Jobs
        PROVE  JobInv(w)'
    <2>1. JobInv(w) /\ input \in Inputs
      BY <1>1 DEF SearchInv, TypeOK
    <2>2. UNCHANGED <<variant, input, stop, raised, job, nonce, buffer, rs>>
      BY <1>4 DEF args, flags, locals
    <2>3. CASE w # spawned
      BY <1>5, <2>1, <2>2, <2>3 DEF JobInv, Range, JobMax, Share, NoHit, Target
    <2>4. CASE w = spawned
      <3>1. job[w] = Range(input, w) /\ nonce[w] = job[w].min /\ rs[w] = "success"
        BY <1>2, <2>1, <2>4 DEF JobInv
      <3>2. /\ job[w].min <= job[w].max /\ nonce[w] \in Int
            /\ \A x \in Nonces : x \in Int
        BY <1>1, <2>1, <3>1, RangeFacts, NonceAssumption
           DEF SearchInv, TypeOK, Nonces
      <3>3. (job[w] = Range(input, w))'
        BY <2>2, <3>1 DEF Range, JobMax, Share
      <3>4. pc'[w] \in {"hash", "notCreated"}
        BY <1>3, <1>5, <2>4
      <3>5. ~ \E x \in Nonces : job[w].min <= x /\ x < nonce[w]
        BY <3>1, <3>2
      <3> QED
        BY <2>2, <3>1, <3>2, <3>3, <3>4, <3>5 DEF JobInv
    <2> QED
      BY <2>3, <2>4
  <1>10. FlagInv'
    BY <1>1, <1>2, <1>4, <1>5 DEF SearchInv, FlagInv, flags, locals
  <1>11. FoundSound' /\ NotFoundExhaustive'
    BY <1>1, <1>4 DEF FoundSound, NotFoundExhaustive
  <1> QED
    BY <1>6, <1>7, <1>8, <1>9, <1>10, <1>11 DEF Inv, SearchInv

LEMMA JoinInv ==
  ASSUME Inv, Join
  PROVE  Inv'
  <1>1. TypeOK /\ SearchInv /\ main = "join" /\ main' = main
    BY DEF Inv, Alive, Join
  <1>2. /\ joined' = joined + 1 /\ joined \in Nat /\ joined < N /\ N \in Nat
        /\ joined \in Jobs /\ pc[joined] \in {"done", "notCreated"}
        /\ UNCHANGED <<args, spawned, flags, pc, locals, result>>
    BY <1>1, NAssumption DEF Join, TypeOK, Jobs
  <1>3. TypeOK'
    BY <1>1, <1>2 DEF TypeOK, args, flags, locals, result
  <1>4. LoopInv'
    <2>1. \A w \in Jobs : w < joined + 1 => w < joined \/ w = joined
      BY <1>2 DEF Jobs
    <2> QED
      BY <1>1, <1>2, <2>1 DEF SearchInv, LoopInv, args
  <1>5. Enough(input)' /\ (\A w \in Jobs : JobInv(w))' /\ FlagInv'
    BY <1>1, <1>2 DEF SearchInv, Enough, JobInv, Range, JobMax, Share, NoHit, Target,
                      FlagInv, args, flags, locals
  <1>6. FoundSound' /\ NotFoundExhaustive'
    BY <1>1 DEF FoundSound, NotFoundExhaustive
  <1> QED
    BY <1>3, <1>4, <1>5, <1>6 DEF Inv, SearchInv

(* What all the jobs say together, when they have ended.                   *)
LEMMA ReturnInv ==
  ASSUME Inv, Return
  PROVE  Inv'
  <1>1. TypeOK /\ SearchInv /\ main = "join" /\ main' = "returned"
        /\ UNCHANGED <<args, loops, flags, pc, locals>>
    BY DEF Inv, Alive, Return
  <1>2. /\ input \in Inputs /\ variant \in Variants /\ Enough(input)
        /\ \A w \in Jobs : JobInv(w) /\ w \in Nat
        /\ N \in Nat /\ 0 \in Jobs
        /\ \A x \in Nonces : x \in Nat
        /\ input.min \in Nat /\ input.max \in Nat
        /\ input.max \in Nonces /\ rs \in [Jobs -> Results]
    BY <1>1, NAssumption, InputAssumption, NonceAssumption
       DEF SearchInv, TypeOK, Jobs, Calls, Nonces
  <1>3. CASE variant = "v1" /\ pc[0] = "done" /\ ec' = rs[0] /\ header' = buffer[0]
    <2>1. ec' \in Results /\ header' \in Nonces
      BY <1>1, <1>2, <1>3 DEF TypeOK
    <2>2. ASSUME ec' = "success"
          PROVE  header' \in Target
      BY <1>2, <1>3, <2>2 DEF JobInv
    <2>3. ASSUME ec' # "success", ~ stop
          PROVE  Target = {}
      <3>1. ~ raised
        BY <1>1, <1>2, <1>3, <2>3 DEF SearchInv, FlagInv, LoopInv
      <3>2. rs[0] = "notFound"
        BY <1>2, <1>3, <2>3, <3>1 DEF JobInv, Results
      <3>3. job[0] = [min |-> input.min, max |-> input.max]
        BY <1>2, <1>3 DEF JobInv, Range
      <3>4. ASSUME NEW x \in input.min..input.max
            PROVE  NoHit(x)
        <4>1. x \in Nonces /\ input.min <= x /\ x <= input.max
          BY <1>2, NonceAssumption DEF Nonces
        <4> QED
          BY <1>2, <1>3, <3>2, <3>3, <4>1 DEF JobInv
      <3> QED
        BY <3>4 DEF Target, NoHit
    <2> QED
      BY <1>1, <2>1, <2>2, <2>3
         DEF Inv, TypeOK, Alive, FoundSound, NotFoundExhaustive, Target,
             args, loops, flags, locals
  <1>4. CASE /\ variant = "par" /\ joined = N
             /\ IF \E w \in Jobs : FirstFound(w)
                  THEN \E w \in Jobs : FirstFound(w) /\ ec' = "success" /\ header' = buffer[w]
                  ELSE ec' = "notFound" /\ header' = header
    <2>1. \A w \in Jobs : pc[w] \in {"done", "notCreated"}
      BY <1>1, <1>4, NAssumption DEF SearchInv, LoopInv, Jobs
    <2>2. CASE \E w \in Jobs : FirstFound(w)
      <3>1. PICK w \in Jobs : FirstFound(w) /\ ec' = "success" /\ header' = buffer[w]
        BY <1>4, <2>2
      <3>2. pc[w] # "notCreated" => header' \in Target
        BY <1>2, <2>1, <3>1 DEF JobInv, FirstFound
      <3>3. header' \in Nonces
        BY <1>1, <3>1 DEF TypeOK
      <3> QED
        BY <1>1, <3>1, <3>2, <3>3
           DEF Inv, TypeOK, Alive, FoundSound, NotFoundExhaustive, Target, Results,
               args, loops, flags, locals
    <2>3. CASE ~ \E w \in Jobs : FirstFound(w)
      <3>1. \A w \in Jobs : rs[w] # "success"
        <4> DEFINE T == {w \in Jobs : rs[w] = "success"}
        <4>1. CASE T = {}
          BY <4>1
        <4>2. CASE T # {}
          <5>1. PICK w \in T : \A v \in T : w <= v
            BY <1>2, <4>2, Least
          <5>2. ASSUME NEW v \in 0..(w - 1)
                PROVE  rs[v] # "success"
            <6>1. v \in Jobs /\ ~ (w <= v)
              BY <1>2 DEF Jobs
            <6> QED
              BY <5>1, <6>1
          <5> QED
            BY <2>3, <5>2 DEF FirstFound
        <4> QED
          BY <4>1, <4>2
      <3>2. ASSUME ~ stop
            PROVE  Target = {}
        <4>1. ~ raised
          BY <1>1, <3>1 DEF SearchInv, FlagInv
        <4>2. \A w \in Jobs : pc[w] = "done" /\ rs[w] = "notFound"
          BY <1>2, <3>1, <3>2, <4>1 DEF JobInv, Results
        <4>3. ASSUME NEW x \in input.min..input.max
              PROVE  NoHit(x)
          <5>1. x \in Nonces /\ x \in Nat /\ input.min <= x /\ x <= input.max
            BY <1>2, NonceAssumption DEF Nonces
          <5>2. PICK w \in Jobs : Range(input, w).min <= x /\ x <= Range(input, w).max
            BY <1>2, <5>1, Cover
          <5> QED
            BY <1>2, <4>2, <5>1, <5>2 DEF JobInv
        <4> QED
          BY <4>3 DEF Target, NoHit
      <3> QED
        BY <1>1, <1>4, <2>3, <3>2
           DEF Inv, TypeOK, Alive, FoundSound, NotFoundExhaustive, Target, Results,
               args, loops, flags, locals
    <2> QED
      BY <2>2, <2>3
  <1> QED
    BY <1>3, <1>4 DEF Return
-----------------------------------------------------------------------------
(* The steps of the threads *)

(* What a job says is not disturbed by a step of another job, which may    *)
(* raise the flag.                                                         *)
LEMMA OtherJob ==
  ASSUME NEW v \in Jobs, JobInv(v), raised \in BOOLEAN, raised' \in {raised, TRUE},
         UNCHANGED <<variant, input, stop, job>>,
         pc'[v] = pc[v], nonce'[v] = nonce[v], buffer'[v] = buffer[v], rs'[v] = rs[v]
  PROVE  JobInv(v)'
  BY DEF JobInv, Range, JobMax, Share, NoHit, Target

LEMMA WorkInv ==
  ASSUME Inv, NEW w \in Jobs, Work(w)
  PROVE  Inv'
  <1>1. /\ TypeOK /\ SearchInv /\ Alive /\ pc[w] \in {"hash", "next"}
        /\ UNCHANGED <<args, main, loops, stop, job, result>>
        /\ raised' \in {raised, TRUE}
    BY DEF Inv, Work, Hash, NotFound, Cancel, NextNonce, flags
  <1>2. /\ input \in Inputs /\ JobInv(w) /\ rs[w] = "success"
        /\ nonce[w] \in Nonces /\ \A x \in Nonces : x \in Nat
        /\ job[w].min \in Nat /\ job[w].max \in Nonces
        /\ job[w].min <= nonce[w] /\ nonce[w] <= job[w].max
        /\ raised \in BOOLEAN
    <2>1. TypeOK /\ JobInv(w)
      BY <1>1 DEF SearchInv
    <2>2. \A x \in Nonces : x \in Nat
      BY NonceAssumption DEF Nonces
    <2> QED
      BY <1>1, <2>1, <2>2 DEF TypeOK, JobInv
  <1>3. Enough(input)'
    BY <1>1 DEF SearchInv, Enough, Share, args
  <1>4. FoundSound' /\ NotFoundExhaustive'
    BY <1>1 DEF Alive, FoundSound, NotFoundExhaustive
  <1>5. \A x \in Nonces : input.hash[x] \in Hashes /\ input.target \in Hashes
    BY <1>2, InputAssumption DEF Calls
  <1>6. Hit(w) <=> ~ NoHit(nonce[w])
    BY <1>2, <1>5, CompareZero DEF Hit, Compare, NoHit
  <1>7. /\ pc' \in [Jobs -> {"none", "notCreated", "hash", "next", "done"}]
        /\ pc'[w] \in {"hash", "next", "done"}
        /\ \A v \in Jobs : v # w =>
             /\ pc'[v] = pc[v] /\ nonce'[v] = nonce[v]
             /\ buffer'[v] = buffer[v] /\ rs'[v] = rs[v]
    <2>1. CASE Hash(w)
      BY <1>1, <2>1 DEF Hash, Result, TypeOK
    <2>2. CASE NotFound(w)
      BY <1>1, <2>2 DEF NotFound, Result, TypeOK
    <2>3. CASE Cancel(w)
      BY <1>1, <2>3 DEF Cancel, Result, TypeOK
    <2>4. CASE NextNonce(w)
      BY <1>1, <2>4 DEF NextNonce, TypeOK
    <2> QED
      BY <2>1, <2>2, <2>3, <2>4 DEF Work
  <1>8. LoopInv'
    BY <1>1, <1>7 DEF SearchInv, LoopInv, args, loops
  <1>9. \A v \in Jobs : v # w => JobInv(v)'
    BY <1>1, <1>2, <1>7, OtherJob DEF SearchInv, args
  <1>10. job'[w] = job[w] /\ (job[w] = Range(input, w))'
    BY <1>1, <1>2 DEF JobInv, Range, JobMax, Share, args
  <1>11. ASSUME nonce' \in [Jobs -> Nonces], best' \in [Jobs -> Nonces],
                buffer' \in [Jobs -> Nonces], rs' \in [Jobs -> Results]
         PROVE  TypeOK'
    BY <1>1, <1>2, <1>7, <1>11 DEF TypeOK, args, loops, result
  <1>12. ASSUME raised' = raised
         PROVE  FlagInv'
    <2>1. ASSUME raised
          PROVE  \E v \in Jobs : v # w /\ pc[v] = "done" /\ rs[v] = "success"
      BY <1>1, <2>1 DEF SearchInv, FlagInv
    <2> QED
      BY <1>7, <1>12, <2>1 DEF FlagInv
  <1>13. ASSUME TypeOK', JobInv(w)', FlagInv'
         PROVE  Inv'
    BY <1>3, <1>4, <1>8, <1>9, <1>13 DEF Inv, SearchInv
  <1>14. CASE Hash(w)
    <2>1. /\ pc[w] = "hash" /\ nonce' = nonce
          /\ buffer' = [buffer EXCEPT ![w] = nonce[w]]
          /\ best' \in {best, [best EXCEPT ![w] = nonce[w]]}
      BY <1>14 DEF Hash
    <2>2. /\ nonce' \in [Jobs -> Nonces] /\ buffer' \in [Jobs -> Nonces]
          /\ best' \in [Jobs -> Nonces] /\ buffer'[w] = nonce[w]
      BY <1>1, <1>2, <2>1 DEF TypeOK
    <2>3. CASE Hit(w)
      <3>1. /\ raised' = TRUE /\ rs' = [rs EXCEPT ![w] = "success"]
            /\ pc' = [pc EXCEPT ![w] = "done"]
        BY <1>14, <2>3 DEF Hash, Result
      <3>2. rs' \in [Jobs -> Results] /\ rs'[w] = "success" /\ pc'[w] = "done"
        BY <1>1, <3>1 DEF TypeOK, Results
      <3>3. nonce[w] \in Target'
        <4>1. /\ input.min <= job[w].min /\ job[w].max <= input.max
              /\ input.min \in Nat /\ input.max \in Nat
          BY <1>1, <1>2, RangeFacts, InputAssumption, NonceAssumption
             DEF SearchInv, TypeOK, JobInv, Calls, Nonces
        <4>2. nonce[w] \in input.min..input.max
          BY <1>2, <4>1
        <4> QED
          BY <1>1, <1>6, <2>3, <4>2 DEF Target, NoHit, args
      <3>4. JobInv(w)'
        BY <1>10, <2>2, <3>2, <3>3 DEF JobInv
      <3> QED
        BY <1>11, <1>13, <2>2, <3>2, <3>4 DEF FlagInv
    <2>4. CASE ~ Hit(w)
      <3>1. raised' = raised /\ rs' = rs /\ pc' = [pc EXCEPT ![w] = "next"]
        BY <1>14, <2>4 DEF Hash
      <3>2. /\ rs' \in [Jobs -> Results] /\ rs'[w] = "success" /\ pc'[w] = "next"
            /\ input' = input
        BY <1>1, <1>2, <3>1 DEF TypeOK, args
      <3>3. \A x \in Nonces : job[w].min <= x /\ x <= nonce[w] => NoHit(x)
        <4>1. \A x \in Nonces : x <= nonce[w] => x < nonce[w] \/ x = nonce[w]
          BY <1>2
        <4> QED
          BY <1>2, <1>6, <2>1, <2>4, <4>1 DEF JobInv
      <3>4. JobInv(w)'
        BY <1>2, <1>10, <2>1, <3>2, <3>3 DEF JobInv, NoHit
      <3> QED
        BY <1>11, <1>12, <1>13, <2>2, <3>1, <3>2, <3>4
    <2> QED
      BY <2>3, <2>4
  <1>15. CASE NotFound(w)
    <2>1. /\ pc[w] = "next" /\ AtEnd(w)
          /\ buffer' = [buffer EXCEPT ![w] = best[w]]
          /\ rs' = [rs EXCEPT ![w] = "notFound"] /\ pc' = [pc EXCEPT ![w] = "done"]
          /\ UNCHANGED <<flags, nonce, best, input>>
      BY <1>15 DEF NotFound, Result, args
    <2>2. /\ nonce' \in [Jobs -> Nonces] /\ buffer' \in [Jobs -> Nonces]
          /\ best' \in [Jobs -> Nonces] /\ rs' \in [Jobs -> Results]
          /\ rs'[w] = "notFound" /\ pc'[w] = "done"
      BY <1>1, <2>1 DEF TypeOK, Results
    <2>3. \A x \in Nonces : job[w].min <= x /\ x <= job[w].max => NoHit(x)
      <3>1. \A x \in Nonces : x <= job[w].max => x <= nonce[w]
        BY <1>2, <2>1 DEF AtEnd
      <3> QED
        BY <1>2, <2>1, <3>1 DEF JobInv
    <2>4. JobInv(w)'
      BY <1>10, <2>1, <2>2, <2>3 DEF JobInv, NoHit
    <2> QED
      BY <1>11, <1>12, <1>13, <2>1, <2>2, <2>4 DEF flags
  <1>16. CASE Cancel(w)
    <2>1. /\ stop \/ raised
          /\ rs' = [rs EXCEPT ![w] = "canceled"] /\ pc' = [pc EXCEPT ![w] = "done"]
          /\ UNCHANGED <<flags, nonce, best, buffer>>
      BY <1>16 DEF Cancel, Result
    <2>2. /\ nonce' \in [Jobs -> Nonces] /\ buffer' \in [Jobs -> Nonces]
          /\ best' \in [Jobs -> Nonces] /\ rs' \in [Jobs -> Results]
          /\ rs'[w] = "canceled" /\ pc'[w] = "done"
      BY <1>1, <2>1 DEF TypeOK, Results
    <2>3. JobInv(w)'
      BY <1>10, <2>1, <2>2 DEF JobInv, flags
    <2> QED
      BY <1>11, <1>12, <1>13, <2>1, <2>2, <2>3 DEF flags
  <1>17. CASE NextNonce(w)
    <2>1. /\ pc[w] = "next" /\ ~ AtEnd(w) /\ nonce' = [nonce EXCEPT ![w] = nonce[w] + 1]
          /\ pc' = [pc EXCEPT ![w] = "hash"]
          /\ UNCHANGED <<flags, best, buffer, rs, input>>
      BY <1>17 DEF NextNonce, Successor, args
    <2>2. nonce[w] + 1 \in Nonces /\ nonce[w] + 1 <= job[w].max
      BY <1>2, <2>1, NonceAssumption DEF AtEnd, Nonces
    <2>3. /\ nonce' \in [Jobs -> Nonces] /\ buffer' \in [Jobs -> Nonces]
          /\ best' \in [Jobs -> Nonces] /\ rs' \in [Jobs -> Results]
          /\ nonce'[w] = nonce[w] + 1 /\ rs'[w] = "success" /\ pc'[w] = "hash"
      BY <1>1, <1>2, <2>1, <2>2 DEF TypeOK
    <2>4. \A x \in Nonces : job[w].min <= x /\ x < nonce[w] + 1 => NoHit(x)
      <3>1. \A x \in Nonces : x < nonce[w] + 1 => x <= nonce[w]
        BY <1>2
      <3> QED
        BY <1>2, <2>1, <3>1 DEF JobInv
    <2>5. job[w].min <= nonce[w] + 1
      BY <1>2
    <2>6. JobInv(w)'
      BY <1>10, <2>1, <2>2, <2>3, <2>4, <2>5 DEF JobInv, NoHit
    <2> QED
      BY <1>11, <1>12, <1>13, <2>1, <2>3, <2>6 DEF flags
  <1> QED
    BY <1>14, <1>15, <1>16, <1>17 DEF Work

-----------------------------------------------------------------------------
(* The theorems *)

LEMMA StepInv ==
  ASSUME Inv, [Next]_vars
  PROVE  Inv'
  <1>1. CASE UNCHANGED vars
    BY <1>1 DEF Inv, SearchInv, TypeOK, Alive, FoundSound, NotFoundExhaustive, Target,
                LoopInv, JobInv, FlagInv, Enough, Range, JobMax, Share, NoHit, vars,
                args, result, flags, loops, locals
  <1>2. CASE CopyFails
    BY <1>2 DEF CopyFails, Inv, TypeOK, Alive, FoundSound, NotFoundExhaustive,
                args, result, flags, loops, locals
  <1>3. CASE JoinCrash
    BY <1>3 DEF JoinCrash, Inv, TypeOK, Alive, FoundSound, NotFoundExhaustive,
                args, result, flags, loops, locals
  <1> QED
    BY <1>1, <1>2, <1>3, CallInv, SpawnInv, JoinInv, ReturnInv, WorkInv
       DEF Next, Main, Idle

(* The inductive invariant holds in every state.                           *)
THEOREM Invariance == Spec => []Inv
  <1>1. Init => Inv
    BY InitInv
  <1>2. Inv /\ [Next]_vars => Inv'
    BY StepInv
  <1> QED
    BY <1>1, <1>2, PTL DEF Spec

(* Every variable keeps its type: no job is given a nonce that is not a    *)
(* uint32_t, and no nonce overflows (find_nonce.c:76, 213-230).            *)
THEOREM TypeCorrect == Spec => []TypeOK
  <1>1. Inv => TypeOK
    BY DEF Inv
  <1> QED
    BY <1>1, Invariance, PTL

(* Whatever threads see of the flag, and whichever job is taken, "found"   *)
(* is true if all threads were created (find_nonce.c:103, 242-250).        *)
THEOREM FoundSoundHolds == Spec => []FoundSound
  <1>1. Inv => FoundSound
    BY DEF Inv
  <1> QED
    BY <1>1, Invariance, PTL

(* If no earlier call found anything, "not found" has left no nonce out,   *)
(* although threads may be cancelled (find_nonce.c:60-74).                 *)
THEOREM NotFoundExhaustiveHolds == Spec => []NotFoundExhaustive
  <1>1. Inv => NotFoundExhaustive
    BY DEF Inv
  <1> QED
    BY <1>1, Invariance, PTL

-----------------------------------------------------------------------------
(* Termination, as far as it is not fairness.                              *)

(* How many steps job w may still take in this call, at most: two for each *)
(* nonce that is left of its range.                                        *)
JobSteps(w) ==
  CASE pc[w] = "none" -> 2 * (job[w].max - job[w].min) + 3
    [] pc[w] = "hash" -> 2 * (job[w].max - nonce[w]) + 2
    [] pc[w] = "next" -> 2 * (job[w].max - nonce[w]) + 1
    [] OTHER -> 0

(* And the calling thread: its two loops and the return.                   *)
MainSteps == IF Alive THEN (N - spawned) + (N - joined) + 1 ELSE 0

StepsNat == MainSteps \in Nat /\ \A w \in Jobs : JobSteps(w) \in Nat

Fewer ==
  /\ MainSteps' <= MainSteps /\ \A w \in Jobs : JobSteps(w)' <= JobSteps(w)
  /\ MainSteps' < MainSteps \/ \E w \in Jobs : JobSteps(w)' < JobSteps(w)

(* Some thread can go on: main when the thread it joins is done, a job     *)
(* while it is in its loop.                                                *)
MainReady ==
  \/ main = "spawn"
  \/ main = "join" /\ variant = "v1" /\ pc[0] = "done"
  \/ main = "join" /\ variant = "par" /\ joined = N
  \/ main = "join" /\ variant = "par" /\ joined < N /\ pc[joined] \in {"done", "notCreated"}

Ready == MainReady \/ \E w \in Jobs : pc[w] \in {"hash", "next"}

(* In the calling thread, the only job has begun.                          *)
OwnJob == Alive /\ variant = "v1" => pc[0] \in {"hash", "next", "done"}

LEMMA JobFacts ==
  ASSUME Inv, Alive, NEW w \in Jobs
  PROVE  /\ job[w].min \in Nat /\ job[w].max \in Nat /\ nonce[w] \in Nat
         /\ pc[w] = "none" => nonce[w] = job[w].min
         /\ pc[w] \in {"none", "hash", "next"} => nonce[w] <= job[w].max
         /\ pc[w] \in {"none", "notCreated", "hash", "next", "done"}
  <1>1. /\ job[w] \in [min : Nonces, max : Nonces] /\ nonce[w] \in Nonces
        /\ pc[w] \in {"none", "notCreated", "hash", "next", "done"} /\ input \in Inputs
        /\ variant \in Variants
    BY DEF Inv, TypeOK
  <1>2. \A x \in Nonces : x \in Nat
    BY NonceAssumption DEF Nonces
  <1>3. JobInv(w) /\ Enough(input)
    BY DEF Inv, SearchInv
  <1>4. Range(input, w).min <= Range(input, w).max
    BY <1>1, <1>3, RangeFacts
  <1> QED
    BY <1>1, <1>2, <1>3, <1>4 DEF JobInv

(* While a call is under way, what is left are natural numbers.            *)
LEMMA LeftNat ==
  ASSUME Inv, Alive
  PROVE  StepsNat
  <1>1. MainSteps \in Nat
    BY NAssumption DEF Inv, TypeOK, MainSteps
  <1>2. ASSUME NEW w \in Jobs
        PROVE  JobSteps(w) \in Nat
    BY <1>2, JobFacts, SMT DEF JobSteps
  <1> QED
    BY <1>1, <1>2 DEF StepsNat

LEMMA MainFewer ==
  ASSUME Inv, Alive, CopyFails \/ Main
  PROVE  Fewer
  <1>1. N \in Nat /\ spawned \in 0..N /\ joined \in 0..N /\ SearchInv
    BY NAssumption DEF Inv, TypeOK
  <1>2. CASE Spawn
    <2>1. /\ main = "spawn" /\ variant = "par" /\ spawned < N /\ spawned \in Jobs
          /\ spawned \in Nat /\ pc[spawned] = "none"
      BY <1>1, <1>2, VariantAssumption DEF Spawn, SearchInv, LoopInv, Jobs, Inv, TypeOK
    <2>2. /\ spawned' = spawned + 1 /\ joined' = joined /\ main' \in {"spawn", "join"}
          /\ job' = job /\ nonce' = nonce
      BY <1>2, <2>1 DEF Spawn, locals
    <2>3. PICK to \in {"hash", "notCreated"} : pc' = [pc EXCEPT ![spawned] = to]
      BY <1>2 DEF Spawn
    <2>4. MainSteps' < MainSteps
      BY <1>1, <2>1, <2>2, SMT DEF MainSteps, Alive
    <2>5. ASSUME NEW w \in Jobs
          PROVE  JobSteps(w)' <= JobSteps(w)
      <3>1. /\ job[w].min \in Nat /\ job[w].max \in Nat /\ nonce[w] \in Nat
            /\ pc[w] = "none" => nonce[w] = job[w].min
            /\ pc[w] \in {"none", "hash", "next"} => nonce[w] <= job[w].max
        BY JobFacts
      <3>2. JobSteps(w) \in Nat
        BY LeftNat DEF StepsNat
      <3>3. CASE w = spawned
        <4>1. pc[w] = "none" /\ pc'[w] \in {"hash", "notCreated"}
          BY <2>1, <2>3, <3>3 DEF Inv, TypeOK
        <4> QED
          BY <2>2, <3>1, <3>2, <4>1, SMT DEF JobSteps
      <3>4. CASE w # spawned
        <4>1. pc'[w] = pc[w]
          BY <2>3, <3>4 DEF Inv, TypeOK
        <4>2. JobSteps(w)' = JobSteps(w)
          BY <2>2, <4>1 DEF JobSteps
        <4> QED
          BY <3>2, <4>2
      <3> QED
        BY <3>3, <3>4
    <2>6. MainSteps' <= MainSteps
      BY <1>1, <2>1, <2>2, SMT DEF MainSteps, Alive
    <2> QED
      BY <2>4, <2>5, <2>6 DEF Fewer
  <1>3. ASSUME CopyFails \/ Join \/ JoinCrash \/ Return
        PROVE  Fewer
    <2>1. UNCHANGED <<pc, job, nonce>>
      BY <1>3 DEF CopyFails, Join, JoinCrash, Return, locals
    <2>2. ASSUME NEW w \in Jobs
          PROVE  JobSteps(w)' <= JobSteps(w)
      <3>1. JobSteps(w)' = JobSteps(w)
        BY <2>1 DEF JobSteps
      <3>2. JobSteps(w) \in Nat
        BY LeftNat DEF StepsNat
      <3> QED
        BY <3>1, <3>2
    <2>3. MainSteps' < MainSteps
      BY <1>1, <1>3, SMT DEF CopyFails, Join, JoinCrash, Return, MainSteps, Alive, loops
    <2>4. MainSteps' <= MainSteps
      BY <1>1, <1>3, SMT DEF CopyFails, Join, JoinCrash, Return, MainSteps, Alive, loops
    <2> QED
      BY <2>2, <2>3, <2>4 DEF Fewer
  <1> QED
    BY <1>2, <1>3 DEF Main

LEMMA WorkFewer ==
  ASSUME Inv, Alive, NEW w \in Jobs, Work(w)
  PROVE  Fewer
  <1>1. /\ UNCHANGED <<main, spawned, joined, job>>
        /\ pc[w] \in {"hash", "next"}
    BY DEF Work, Hash, NotFound, Cancel, NextNonce, loops
  <1>2. /\ pc \in [Jobs -> {"none", "notCreated", "hash", "next", "done"}]
        /\ nonce \in [Jobs -> Nonces]
    BY DEF Inv, TypeOK
  <1>3. /\ \A v \in Jobs : v # w => pc'[v] = pc[v] /\ nonce'[v] = nonce[v]
        /\ \/ pc'[w] = "done"
           \/ pc[w] = "hash" /\ pc'[w] = "next" /\ nonce'[w] = nonce[w]
           \/ pc[w] = "next" /\ pc'[w] = "hash" /\ nonce'[w] = nonce[w] + 1
                /\ ~AtEnd(w)
    BY <1>2 DEF Work, Hash, NotFound, Cancel, NextNonce, Result, Successor, locals
  <1>4. /\ job[w].min \in Nat /\ job[w].max \in Nat /\ nonce[w] \in Nat
        /\ nonce[w] <= job[w].max
    BY <1>1, JobFacts
  <1>5. JobSteps(w)' < JobSteps(w)
    BY <1>1, <1>3, <1>4, SMT DEF JobSteps, AtEnd
  <1>6. JobSteps(w)' <= JobSteps(w)
    BY <1>1, <1>3, <1>4, SMT DEF JobSteps, AtEnd
  <1>7. ASSUME NEW v \in Jobs
        PROVE  JobSteps(v)' <= JobSteps(v)
    <2>1. CASE v = w
      BY <1>6, <2>1
    <2>2. CASE v # w
      <3>1. JobSteps(v)' = JobSteps(v)
        BY <1>1, <1>3, <2>2 DEF JobSteps
      <3>2. JobSteps(v) \in Nat
        BY LeftNat DEF StepsNat
      <3> QED
        BY <3>1, <3>2
    <2> QED
      BY <2>1, <2>2
  <1>8. MainSteps' <= MainSteps
    <2>1. MainSteps' = MainSteps
      BY <1>1 DEF MainSteps, Alive
    <2>2. MainSteps \in Nat
      BY LeftNat DEF StepsNat
    <2> QED
      BY <2>1, <2>2
  <1> QED
    BY <1>5, <1>7, <1>8 DEF Fewer

(* A call cannot go on for ever: each of its steps takes one of a finite   *)
(* number of steps from some thread and gives none to any, whether the     *)
(* flag is seen or not (find_nonce.c:60-103, 206-250).                     *)
THEOREM Progress == Spec => [][Alive => StepsNat /\ Fewer]_vars
  <1>1. Inv /\ [Next]_vars => [Alive => StepsNat /\ Fewer]_vars
    <2> SUFFICES ASSUME Inv, Next, Alive, vars' # vars
                 PROVE  StepsNat /\ Fewer
      OBVIOUS
    <2>1. ~ \E c \in Inputs : Call(c)
      BY DEF Call, Alive
    <2>2. ~ Idle
      BY DEF Idle
    <2> QED
      BY <2>1, <2>2, LeftNat, MainFewer, WorkFewer DEF Next
  <1> QED
    BY <1>1, Invariance, PTL DEF Spec

(* A call cannot get stuck: until it returns, main is not waiting, or some *)
(* job is in its loop.  (A job that was not created does not keep main     *)
(* waiting.)                                                               *)
THEOREM NeverStuck == Spec => [](Alive => Ready)
  <1>1. Inv /\ OwnJob => (Alive => Ready)
    <2> SUFFICES ASSUME Inv, OwnJob, Alive, ~ Ready
                 PROVE  FALSE
      OBVIOUS
    <2>1. main = "join" /\ SearchInv /\ variant \in Variants
      BY DEF Ready, MainReady, Alive, Inv, TypeOK
    <2>2. 0 \in Jobs /\ N \in Nat
      BY NAssumption DEF Jobs
    <2>3. CASE variant = "v1"
      BY <2>1, <2>2, <2>3 DEF OwnJob, Ready, MainReady
    <2>4. CASE variant = "par"
      <3>1. joined < N /\ joined \in Jobs /\ joined \in Nat /\ spawned = N
        BY <2>1, <2>2, <2>4 DEF Ready, MainReady, Inv, TypeOK, SearchInv, LoopInv, Jobs
      <3>2. pc[joined] # "none"
        BY <2>1, <2>2, <2>4, <3>1 DEF SearchInv, LoopInv
      <3>3. pc[joined] \in {"none", "notCreated", "hash", "next", "done"}
        BY <3>1 DEF Inv, TypeOK
      <3> QED
        BY <2>1, <2>4, <3>1, <3>2, <3>3 DEF Ready, MainReady
    <2> QED
      BY <2>1, <2>3, <2>4, VariantAssumption
  <1>2. Init => OwnJob
    BY DEF Init, OwnJob, Alive
  <1>3. Inv /\ OwnJob /\ [Next]_vars => OwnJob'
    <2> SUFFICES ASSUME Inv, OwnJob, [Next]_vars, Alive', variant' = "v1"
                 PROVE  pc'[0] \in {"hash", "next", "done"}
      BY DEF OwnJob
    <2>1. 0 \in Jobs
      BY NAssumption DEF Jobs
    <2>2. pc \in [Jobs -> {"none", "notCreated", "hash", "next", "done"}]
      BY DEF Inv, TypeOK
    <2>3. ASSUME NEW c \in Inputs, Call(c)
          PROVE  pc'[0] \in {"hash", "next", "done"}
      BY <2>1, <2>3 DEF Call, args
    <2>4. ASSUME NEW w \in Jobs, Work(w)
          PROVE  pc'[0] \in {"hash", "next", "done"}
      BY <2>1, <2>2, <2>4 DEF Work, Hash, NotFound, Cancel, NextNonce, Result, OwnJob, args
    <2>5. ~ Spawn
      BY DEF Spawn, args, Inv, SearchInv, LoopInv, Alive
    <2>6. ASSUME CopyFails \/ Join \/ JoinCrash \/ Return \/ UNCHANGED vars
          PROVE  pc'[0] \in {"hash", "next", "done"}
      BY <2>6 DEF CopyFails, Join, JoinCrash, Return, vars, args, OwnJob, Alive
    <2> QED
      BY <2>3, <2>4, <2>5, <2>6 DEF Next, Main, Idle
  <1> QED
    BY <1>1, <1>2, <1>3, Invariance, PTL DEF Spec

=============================================================================
