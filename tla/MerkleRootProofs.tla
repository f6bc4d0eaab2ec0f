-------------------------- MODULE MerkleRootProofs --------------------------
(***************************************************************************)
(* Proofs about MerkleRoot, for every number of transactions, every list   *)
(* of ids and every pair hash: the in-place rounds compute the levels of   *)
(* MerkleLevels.                                                           *)
(*                                                                         *)
(* The argument: in a round, the cells below i hold the next level so far  *)
(* and the inputs from 2 * i on are those the round began with (RoundInv). *)
(* A write to cell i spoils neither, for i < 2 * i + 2, nor the cells at   *)
(* ext, for a round that reads op has at most ext inputs (PlaceInv).       *)
(***************************************************************************)
EXTENDS MerkleRoot, WellFoundedInduction, TLAPS

(* Where the inputs of a round are, and how many. *)
PlaceInv ==
  /\ pc \in {"start", "error"} => ip = "txids"
  /\ ip = "txids" => itx = count
  /\ ip = "op" => itx <= ext
  /\ pc \in {"round", "done", "read"} => itx >= 1
  /\ pc = "pairs" => itx > 1 /\ i <= Pairs(itx)
  /\ pc \in {"done", "read"} => itx = 1
  /\ pc \in {"error", "crashed"} => itx = 0

(* level is what the round began with, and the next one grows in op. *)
RoundInv ==
  /\ level = [j \in 0..(itx - 1) |-> level[j]]
  /\ pc = "start" => level = txids
  /\ pc = "round" => \A j \in 0..(itx - 1) : Input(j) = level[j]
  /\ pc = "pairs" =>
       /\ \A j \in (2 * i)..(itx - 1) : Input(j) = level[j]
       /\ \A j \in 0..(i - 1) : op[j] = PairHash(level[2 * j], level[2 * j + 1])
       /\ Odd(itx) = 1 =>
            op[ext] = level[itx - 1] /\ op[ext + 1] = level[itx - 1]

(* The caller has not read the root yet, or has read op[0]. *)
RootInv ==
  /\ pc \in {"done", "read"} => op[0] = level[0]
  /\ pc = "read" => root = op[0]
  /\ pc # "read" => root = Zero

Inv == TypeOK /\ PlaceInv /\ RoundInv /\ RootInv

(* Halves of a number n > 1, and what an odd n leaves over. *)
LEMMA HalfFacts ==
  ASSUME NEW n \in Nat, n > 1
  PROVE  /\ Half(n) \in Nat /\ Half(n) >= 1 /\ Half(n) < n
         /\ Pairs(n) \in Nat /\ Pairs(n) >= 1
         /\ Odd(n) \in {0, 1}
         /\ n = 2 * Pairs(n) + Odd(n)
         /\ Half(n) = Pairs(n) + Odd(n)
  BY SMT DEF Half, Pairs, Odd

LEMMA HalfMonotone ==
  ASSUME NEW m \in Nat, NEW n \in Nat, m <= n
  PROVE  Half(m) <= Half(n) /\ Half(m) \in Nat /\ (n > 0 => Half(n) >= 1)
  BY SMT DEF Half

LEMMA InitInv == Init => Inv
  <1> SUFFICES ASSUME Init PROVE Inv
    OBVIOUS
  <1>1. count \in Nat /\ ext \in Nat
    BY CountsAssumption, SMT DEF Init, ext, Half
  <1> QED
    BY <1>1, SMT
    DEF Init, Inv, TypeOK, PlaceInv, RoundInv, RootInv, txids

LEMMA StepStart == Inv /\ Start => Inv'
  <1> SUFFICES ASSUME Inv, Start PROVE Inv'
    OBVIOUS
  <1>1. count \in Nat /\ itx \in Nat /\ ext \in Nat /\ ext' = ext
    BY CountsAssumption, SMT DEF Inv, TypeOK, Start, ext, Half
  <1>2. itx = count /\ level = txids /\ ip = "txids"
    BY DEF Inv, PlaceInv, RoundInv, Start
  <1>3. TypeOK'
    BY <1>1, <1>2, SMT DEF Inv, TypeOK, Start, Cells
  <1>4. PlaceInv'
    BY <1>1, <1>2, SMT DEF Inv, PlaceInv, Start
  <1>5. RoundInv'
    BY <1>1, <1>2, SMT DEF Inv, RoundInv, Start, Input, txids
  <1>6. RootInv'
    BY DEF Inv, RootInv, Start
  <1> QED
    BY <1>3, <1>4, <1>5, <1>6 DEF Inv

LEMMA StepBeginRound == Inv /\ BeginRound => Inv'
  <1> SUFFICES ASSUME Inv, BeginRound PROVE Inv'
    OBVIOUS
  <1>1. count \in Nat /\ itx \in Nat /\ ext \in Nat /\ ext' = ext /\ itx > 1
    BY CountsAssumption, SMT DEF Inv, TypeOK, BeginRound, ext, Half
  <1>2. /\ Pairs(itx) \in Nat /\ Pairs(itx) >= 1
        /\ Odd(itx) \in {0, 1}
    BY <1>1, HalfFacts
  <1>3. DOMAIN op = 0..(ext + 1) /\ DOMAIN op' = 0..(ext + 1)
    BY DEF Inv, TypeOK, BeginRound
  <1>4. \A j \in 0..(itx - 1) : Input(j)' = Input(j)
    <2> SUFFICES ASSUME NEW j \in 0..(itx - 1) PROVE Input(j)' = Input(j)
      OBVIOUS
    <2>1. CASE ip = "txids"
      BY <2>1, SMT DEF BeginRound, Input, txids
    <2>2. CASE ip = "op"
      <3>1. j < ext /\ j \in DOMAIN op
        BY <2>2, <1>1, <1>3, SMT DEF Inv, PlaceInv
      <3> QED
        BY <2>2, <3>1, <1>1, <1>3, SMT DEF BeginRound, Input
    <2> QED
      BY <2>1, <2>2 DEF Inv, TypeOK
  <1>5. TypeOK'
    BY <1>1, <1>3, SMT DEF Inv, TypeOK, BeginRound
  <1>6. PlaceInv'
    BY <1>1, <1>2, SMT DEF Inv, PlaceInv, BeginRound
  <1>7. Odd(itx) = 1 => op'[ext] = level[itx - 1] /\ op'[ext + 1] = level[itx - 1]
    BY <1>1, <1>3, SMT DEF Inv, RoundInv, BeginRound, Kept
  <1>8. RoundInv'
    <2>1. level' = level /\ itx' = itx /\ i' = 0 /\ pc' = "pairs" /\ pc = "round"
      BY DEF BeginRound
    <2>2. \A j \in (2 * i')..(itx' - 1) : Input(j)' = level'[j]
      BY <2>1, <1>1, <1>4, SMT DEF Inv, RoundInv
    <2>3. \A j \in 0..(i' - 1) : op'[j] = PairHash(level'[2 * j], level'[2 * j + 1])
      BY <2>1, SMT
    <2>4. level' = [j \in 0..(itx' - 1) |-> level'[j]]
      BY <2>1 DEF Inv, RoundInv
    <2> QED
      BY <2>1, <2>2, <2>3, <2>4, <1>1, <1>7 DEF RoundInv
  <1>9. RootInv'
    BY DEF Inv, RootInv, BeginRound
  <1> QED
    BY <1>5, <1>6, <1>8, <1>9 DEF Inv

LEMMA StepHashPair == Inv /\ HashPair => Inv'
  <1> SUFFICES ASSUME Inv, HashPair PROVE Inv'
    OBVIOUS
  <1>1. /\ count \in Nat /\ itx \in Nat /\ ext \in Nat /\ ext' = ext /\ itx > 1
        /\ itx <= count /\ i \in Nat
    BY CountsAssumption, SMT DEF Inv, TypeOK, PlaceInv, HashPair, ext, Half
  <1>2. /\ Half(itx) \in Nat /\ Pairs(itx) \in Nat /\ Odd(itx) \in {0, 1}
        /\ itx = 2 * Pairs(itx) + Odd(itx)
        /\ Half(itx) = Pairs(itx) + Odd(itx)
    BY <1>1, HalfFacts
  <1>3. i < Pairs(itx)
    BY DEF HashPair
  <1>4. i < ext
    <2>1. Half(itx) <= ext
      BY <1>1, HalfMonotone DEF ext
    <2> QED
      BY <2>1, <1>1, <1>2, <1>3, SMT
  <1>5. DOMAIN op = 0..(ext + 1) /\ DOMAIN op' = 0..(ext + 1)
    BY DEF Inv, TypeOK, HashPair
  <1>6. \A j \in (2 * i + 2)..(itx - 1) : Input(j)' = Input(j)
    <2> SUFFICES ASSUME NEW j \in (2 * i + 2)..(itx - 1) PROVE Input(j)' = Input(j)
      OBVIOUS
    <2>1. CASE ip = "txids"
      BY <2>1, SMT DEF HashPair, Input, txids
    <2>2. CASE ip = "op"
      <3>1. j # i /\ j \in DOMAIN op
        BY <2>2, <1>1, <1>5, SMT DEF Inv, PlaceInv
      <3> QED
        BY <2>2, <3>1, SMT DEF HashPair, Input
    <2> QED
      BY <2>1, <2>2 DEF Inv, TypeOK
  <1>7. op'[i] = PairHash(level[2 * i], level[2 * i + 1])
    <2>1. 2 * i \in (2 * i)..(itx - 1) /\ 2 * i + 1 \in (2 * i)..(itx - 1)
      BY <1>1, <1>2, <1>3, SMT
    <2>2. Input(2 * i) = level[2 * i] /\ Input(2 * i + 1) = level[2 * i + 1]
      BY <2>1 DEF Inv, RoundInv, HashPair
    <2>3. i \in DOMAIN op
      BY <1>1, <1>4, <1>5, SMT
    <2> QED
      BY <2>2, <2>3 DEF HashPair
  <1>8. \A j \in DOMAIN op : j # i => op'[j] = op[j]
    BY DEF HashPair
  <1>9. TypeOK'
    BY <1>1, <1>4, <1>5, SMT DEF Inv, TypeOK, HashPair
  <1>10. PlaceInv'
    BY <1>1, <1>2, <1>3, SMT DEF Inv, PlaceInv, HashPair
  <1>11. RoundInv'
    <2>1. /\ level' = level /\ itx' = itx /\ i' = i + 1 /\ pc' = "pairs"
          /\ pc = "pairs"
      BY DEF HashPair
    <2>2. \A j \in (2 * i')..(itx' - 1) : Input(j)' = level'[j]
      <3> SUFFICES ASSUME NEW j \in (2 * i + 2)..(itx - 1)
                   PROVE  Input(j)' = level[j]
        BY <2>1, <1>1, SMT
      <3>1. Input(j)' = Input(j)
        BY <1>6
      <3>2. j \in (2 * i)..(itx - 1)
        BY <1>1, SMT
      <3> QED
        BY <3>1, <3>2, <2>1 DEF Inv, RoundInv
    <2>3. \A j \in 0..(i' - 1) : op'[j] = PairHash(level'[2 * j], level'[2 * j + 1])
      <3> SUFFICES ASSUME NEW j \in 0..i
                   PROVE  op'[j] = PairHash(level[2 * j], level[2 * j + 1])
        BY <2>1, <1>1, SMT
      <3>1. CASE j = i
        BY <3>1, <1>7
      <3>2. CASE j # i
        <4>1. j \in 0..(i - 1) /\ j \in DOMAIN op
          BY <3>2, <1>1, <1>4, <1>5, SMT
        <4> QED
          BY <4>1, <3>2, <1>8, <2>1 DEF Inv, RoundInv
      <3> QED
        BY <3>1, <3>2
    <2>4. Odd(itx) = 1 =>
            op'[ext] = level[itx - 1] /\ op'[ext + 1] = level[itx - 1]
      <3>1. ext \in DOMAIN op /\ ext + 1 \in DOMAIN op /\ ext # i /\ ext + 1 # i
        BY <1>1, <1>4, <1>5, SMT
      <3>2. op'[ext] = op[ext] /\ op'[ext + 1] = op[ext + 1]
        BY <3>1, <1>8
      <3> QED
        BY <3>2, <2>1 DEF Inv, RoundInv
    <2>5. level' = [j \in 0..(itx' - 1) |-> level'[j]]
      BY <2>1 DEF Inv, RoundInv
    <2> QED
      BY <2>1, <2>2, <2>3, <2>4, <2>5, <1>1 DEF RoundInv
  <1>12. RootInv'
    BY DEF Inv, RootInv, HashPair
  <1> QED
    BY <1>9, <1>10, <1>11, <1>12 DEF Inv

(* The end of a round: op begins with the next level. *)
LEMMA NextLevel ==
  ASSUME Inv, EndRound
  PROVE  level' = Levels!Parents(level, itx)
  <1>1. /\ count \in Nat /\ itx \in Nat /\ ext \in Nat /\ itx > 1
        /\ itx <= count /\ i \in Nat
    BY CountsAssumption, SMT DEF Inv, TypeOK, PlaceInv, EndRound, ext, Half
  <1>2. /\ Half(itx) \in Nat /\ Pairs(itx) \in Nat /\ Odd(itx) \in {0, 1}
        /\ itx = 2 * Pairs(itx) + Odd(itx)
        /\ Half(itx) = Pairs(itx) + Odd(itx)
    BY <1>1, HalfFacts
  <1>3. i = Pairs(itx) /\ pc = "pairs" /\ itx' = Half(itx)
    BY <1>1, <1>2, SMT DEF Inv, PlaceInv, EndRound, NextSize
  <1>4. DOMAIN op = 0..(ext + 1) /\ Half(itx) <= ext
    BY <1>1, <1>3, HalfMonotone DEF Inv, TypeOK, ext
  <1>5. ASSUME NEW j \in 0..(Half(itx) - 1)
        PROVE  op'[j] = PairHash(level[2 * j],
                          level[IF 2 * j + 1 < itx THEN 2 * j + 1 ELSE 2 * j])
    <2>1. j \in DOMAIN op
      BY <1>1, <1>2, <1>4, SMT
    <2>2. CASE j < Pairs(itx)
      <3>1. 2 * j + 1 < itx /\ j \in 0..(i - 1) /\ (Odd(itx) = 1 => j # Half(itx) - 1)
        BY <2>2, <1>2, <1>3, SMT
      <3>2. op'[j] = op[j]
        BY <3>1, <2>1 DEF EndRound, HashedLast
      <3>3. op[j] = PairHash(level[2 * j], level[2 * j + 1])
        BY <3>1, <1>3 DEF Inv, RoundInv
      <3> QED
        BY <3>1, <3>2, <3>3
    <2>3. CASE ~(j < Pairs(itx))
      <3>1. j = Half(itx) - 1 /\ Odd(itx) = 1 /\ 2 * j = itx - 1 /\ ~(2 * j + 1 < itx)
        BY <2>3, <1>2, SMT
      <3>2. op'[j] = PairHash(op[ext], op[ext + 1])
        BY <3>1, <2>1 DEF EndRound, HashedLast
      <3>3. op[ext] = level[itx - 1] /\ op[ext + 1] = level[itx - 1]
        BY <3>1, <1>3 DEF Inv, RoundInv
      <3> QED
        BY <3>1, <3>2, <3>3
    <2> QED
      BY <2>2, <2>3
  <1>6. level' = [j \in 0..(Half(itx) - 1) |-> op'[j]]
    BY <1>3 DEF EndRound
  <1>7. Levels!Half(itx) = Half(itx)
    BY DEF Levels!Half, Half
  <1> QED
    BY <1>5, <1>6, <1>7 DEF Levels!Parents

LEMMA StepEndRound == Inv /\ EndRound => Inv'
  <1> SUFFICES ASSUME Inv, EndRound PROVE Inv'
    OBVIOUS
  <1>1. /\ count \in Nat /\ itx \in Nat /\ ext \in Nat /\ ext' = ext /\ itx > 1
        /\ itx <= count /\ i \in Nat
    BY CountsAssumption, SMT DEF Inv, TypeOK, PlaceInv, EndRound, ext, Half
  <1>2. /\ Half(itx) \in Nat /\ Half(itx) >= 1 /\ Half(itx) < itx
        /\ itx' = Half(itx)
    BY <1>1, HalfFacts DEF EndRound, NextSize
  <1>3. Half(itx) <= ext
    BY <1>1, HalfMonotone DEF ext
  <1>4. DOMAIN op = 0..(ext + 1) /\ DOMAIN op' = 0..(ext + 1)
    BY DEF Inv, TypeOK, EndRound, HashedLast
  <1>5. level' = [j \in 0..(itx' - 1) |-> op'[j]]
    BY DEF EndRound
  <1>6. TypeOK'
    BY <1>1, <1>2, <1>4, <1>5, SMT DEF Inv, TypeOK, EndRound
  <1>7. PlaceInv'
    BY <1>1, <1>2, <1>3, SMT DEF Inv, PlaceInv, EndRound
  <1>8. RoundInv'
    <2>1. pc' = "round" /\ ip' = "op"
      BY DEF EndRound
    <2>2. \A j \in 0..(itx' - 1) : Input(j)' = level'[j]
      BY <1>5, <2>1 DEF Input
    <2>3. level' = [j \in 0..(itx' - 1) |-> level'[j]]
      BY <1>5
    <2> QED
      BY <2>1, <2>2, <2>3 DEF RoundInv
  <1>9. RootInv'
    BY DEF Inv, RootInv, EndRound
  <1> QED
    BY <1>6, <1>7, <1>8, <1>9 DEF Inv

LEMMA StepFinish == Inv /\ Finish => Inv' /\ op'[0] = level[0]
  <1> SUFFICES ASSUME Inv, Finish PROVE Inv' /\ op'[0] = level[0]
    OBVIOUS
  <1>1. /\ count \in Nat /\ itx = 1 /\ ext \in Nat /\ ext' = ext /\ i \in Nat
    BY CountsAssumption, SMT DEF Inv, TypeOK, Finish, ext, Half
  <1>2. DOMAIN op = 0..(ext + 1) /\ DOMAIN op' = 0..(ext + 1)
    BY DEF Inv, TypeOK, Finish
  <1>3. Input(0) = level[0]
    BY <1>1, SMT DEF Inv, RoundInv, Finish
  <1>4. op'[0] = level[0]
    <2>1. 0 \in DOMAIN op
      BY <1>1, <1>2, SMT
    <2> QED
      BY <2>1, <1>3 DEF Finish
  <1>5. TypeOK'
    BY <1>1, <1>2, SMT DEF Inv, TypeOK, Finish
  <1>6. PlaceInv'
    BY <1>1, SMT DEF Inv, PlaceInv, Finish
  <1>7. RoundInv'
    BY DEF Inv, RoundInv, Finish
  <1>8. RootInv'
    BY <1>4 DEF Inv, RootInv, Finish
  <1> QED
    BY <1>4, <1>5, <1>6, <1>7, <1>8 DEF Inv

LEMMA StepReadRoot == Inv /\ ReadRoot => Inv'
  <1> SUFFICES ASSUME Inv, ReadRoot PROVE Inv'
    OBVIOUS
  <1>1. ext' = ext
    BY DEF ReadRoot, ext
  <1>2. TypeOK'
    BY <1>1 DEF Inv, TypeOK, ReadRoot
  <1>3. PlaceInv'
    BY <1>1 DEF Inv, PlaceInv, ReadRoot
  <1>4. RoundInv'
    BY DEF Inv, RoundInv, ReadRoot
  <1>5. RootInv'
    BY DEF Inv, RootInv, ReadRoot
  <1> QED
    BY <1>2, <1>3, <1>4, <1>5 DEF Inv

LEMMA StepStutter == Inv /\ UNCHANGED vars => Inv'
  BY DEF vars, Inv, TypeOK, PlaceInv, RoundInv, RootInv, Input, txids, ext

(* The inductive invariant holds in every state of every execution. *)
THEOREM Invariance == Spec => []Inv
  <1>1. Init => Inv
    BY InitInv
  <1>2. Inv /\ [Next]_vars => Inv'
    BY StepStart, StepBeginRound, StepHashPair, StepEndRound, StepFinish,
       StepReadRoot, StepStutter
    DEF Next, Ended
  <1> QED
    BY <1>1, <1>2, PTL DEF Spec

(* Type correctness, the size of the buffer included, for every number of *)
(* transactions.                                                          *)
THEOREM TypeCorrect == Spec => []TypeOK
  <1>1. Inv => TypeOK
    BY DEF Inv
  <1> QED
    BY <1>1, Invariance, PTL

(* No round overwrites what it has still to read. *)
THEOREM UnreadIntactHolds == Spec => []UnreadIntact
  <1>1. Inv => UnreadIntact
    <2> SUFFICES ASSUME Inv, pc = "pairs" PROVE UnreadIntact
      BY DEF UnreadIntact
    <2>1. count \in Nat /\ itx \in Nat /\ itx > 1 /\ i \in Nat
      BY CountsAssumption, SMT DEF Inv, TypeOK, PlaceInv, ext, Half
    <2>2. itx = 2 * Pairs(itx) + Odd(itx) /\ Pairs(itx) \in Nat /\ Odd(itx) \in {0, 1}
      BY <2>1, HalfFacts
    <2>3. ASSUME NEW j \in (2 * i)..(2 * Pairs(itx) - 1)
          PROVE  Input(j) = level[j]
      <3>1. j \in (2 * i)..(itx - 1)
        BY <2>1, <2>2, SMT
      <3> QED
        BY <3>1 DEF Inv, RoundInv
    <2>4. itx <= (IF ip = "txids" THEN count ELSE ext)
      BY <2>1, SMT DEF Inv, TypeOK, PlaceInv
    <2> QED
      BY <2>3, <2>4 DEF UnreadIntact, Inv, RoundInv
  <1> QED
    BY <1>1, Invariance, PTL

(* How many steps may still be taken, at most: a round of n hashes takes   *)
(* one for each pair and two more, and leaves about half of n.             *)
StepsLeft ==
  CASE pc = "start" -> 4 * count + 3
    [] pc = "round" -> 4 * itx + 2
    [] pc = "pairs" -> 4 * itx + 1 - i
    [] pc \in {"done", "error"} -> 1
    [] OTHER -> 0

LEMMA FewerSteps ==
  ASSUME Inv, [Next]_vars, vars' # vars
  PROVE  StepsLeft \in Nat /\ StepsLeft' \in Nat /\ StepsLeft' < StepsLeft
  <1>1. /\ itx \in Nat /\ count \in Nat /\ i \in Nat
        /\ pc \in {"start", "round", "pairs", "done", "error", "read", "aborted", "crashed"}
    BY CountsAssumption, SMT DEF Inv, TypeOK, ext, Half
  <1>2. CASE Start
    <2>1. pc = "start" /\ pc' \in {"error", "round", "aborted"} /\ count' = count /\ itx' = itx
      BY <1>2 DEF Start
    <2>2. itx <= count
      BY <1>1, SMT DEF Inv, TypeOK
    <2> QED
      BY <1>1, <2>1, <2>2, SMT DEF StepsLeft
  <1>3. CASE BeginRound
    BY <1>1, <1>3, SMT DEF BeginRound, StepsLeft
  <1>4. CASE HashPair
    <2>1. pc = "pairs" /\ pc' = pc /\ i' = i + 1 /\ itx' = itx /\ i < Pairs(itx) /\ itx > 1
      BY <1>4 DEF HashPair, Inv, PlaceInv
    <2>2. Pairs(itx) \in Nat /\ Pairs(itx) < itx
      BY <1>1, <2>1, HalfFacts
    <2> QED
      BY <1>1, <2>1, <2>2, SMT DEF StepsLeft
  <1>5. CASE EndRound
    <2>1. pc = "pairs" /\ pc' = "round" /\ itx' = Half(itx) /\ i <= Pairs(itx) /\ itx > 1
      BY <1>5 DEF EndRound, NextSize, Inv, PlaceInv
    <2>2. /\ Half(itx) \in Nat /\ Half(itx) >= 1 /\ Half(itx) < itx
          /\ Pairs(itx) \in Nat /\ Pairs(itx) >= 1
          /\ Odd(itx) \in {0, 1}
          /\ itx = 2 * Pairs(itx) + Odd(itx)
          /\ Half(itx) = Pairs(itx) + Odd(itx)
      BY <1>1, <2>1, HalfFacts
    <2> DEFINE h == Half(itx)
               p == Pairs(itx)
               o == Odd(itx)
    <2>3. 4 * h + 2 < 4 * itx + 1 - i
      <3> HIDE DEF h, p, o
      <3> QED
        BY <1>1, <2>1, <2>2, SMT DEF h, p, o
    <2> QED
      BY <1>1, <2>1, <2>2, <2>3, SMT DEF StepsLeft
  <1>6. CASE Finish
    BY <1>1, <1>6, SMT DEF Finish, StepsLeft
  <1>7. CASE ReadRoot
    BY <1>1, <1>7, SMT DEF ReadRoot, StepsLeft
  <1> QED
    BY <1>2, <1>3, <1>4, <1>5, <1>6, <1>7 DEF Next, Ended

(* The rounds and their pairs come to an end: every step uses up at least  *)
(* one of the steps that are left, so a list of n hashes takes 4 * n + 3   *)
(* of them at most (bc_merkle_root, both loops).                           *)
THEOREM Progress == Spec => [][StepsLeft' < StepsLeft /\ StepsLeft' \in Nat]_vars
  <1>1. Inv /\ [Next]_vars => [StepsLeft' < StepsLeft /\ StepsLeft' \in Nat]_vars
    BY FewerSteps
  <1> QED
    BY <1>1, Invariance, PTL DEF Spec

(* The first state is one of the abstract computation. *)
LEMMA RefineInit == Init => Levels!Init
  BY DEF Init, Levels!Init, txids

(* Each step is a step of it, or none. *)
LEMMA RefineStep == Inv /\ [Next]_vars => [Levels!Next]_(Levels!vars)
  <1> SUFFICES ASSUME Inv, [Next]_vars PROVE [Levels!Next]_(Levels!vars)
    OBVIOUS
  <1>1. CASE Start
    <2>1. CASE itx < 1
      <3>1. itx = 0
        BY <2>1, CountsAssumption, SMT DEF Inv, TypeOK
      <3>2. pc = "start" /\ pc' = "error" /\ UNCHANGED <<itx, level, root>>
        BY <1>1, <3>1, SMT DEF Start
      <3> QED
        BY <3>1, <3>2, Zenon DEF Levels!Next, Levels!Refuse
    <2>2. CASE ~(itx < 1)
      BY <1>1, <2>2, SMT DEF Start, Levels!vars
    <2> QED
      BY <2>1, <2>2
  <1>2. CASE BeginRound
    BY <1>2 DEF BeginRound, Levels!vars
  <1>3. CASE HashPair
    BY <1>3 DEF HashPair, Levels!vars
  <1>4. CASE EndRound
    <2>1. level' = Levels!Parents(level, itx)
      BY <1>4, NextLevel
    <2>2. itx > 1 /\ pc = "pairs" /\ pc' = "round" /\ root' = root
      BY <1>4 DEF EndRound, Inv, PlaceInv
    <2>3. itx' = Levels!Half(itx)
      BY <1>4 DEF EndRound, NextSize, Half, Levels!Half
    <2> QED
      BY <2>1, <2>2, <2>3 DEF Levels!Next, Levels!Ascend
  <1>5. CASE Finish
    <2>1. op'[0] = level[0]
      BY <1>5, StepFinish
    <2>2. pc = "round" /\ pc' = "done" /\ itx = 1 /\ itx' = itx /\ level' = level
      BY <1>5 DEF Finish
    <2> QED
      BY <2>1, <2>2 DEF Levels!Next, Levels!Take
  <1>6. CASE ReadRoot
    BY <1>6 DEF ReadRoot, Levels!vars
  <1>7. CASE UNCHANGED vars
    BY <1>7 DEF vars, Levels!vars
  <1> QED
    BY <1>1, <1>2, <1>3, <1>4, <1>5, <1>6, <1>7 DEF Next, Ended

(* bc_merkle_root computes the Merkle root level by level, for every list *)
(* of ids and every pair hash.                                            *)
THEOREM Refinement == Spec => ImplementsLevels
  <1> QED
    BY Invariance, RefineInit, RefineStep, PTL
    DEF Spec, ImplementsLevels, Levels!Spec


-----------------------------------------------------------------------------
(***************************************************************************)
(* The root of the tree.  Width and Node are recursive functions, which    *)
(* exist because they exist up to each height: the least height up to      *)
(* which one did not exist is not 0, and is not one more than another.     *)
(***************************************************************************)

(* A set of heights that is not empty has a least element. *)
LEMMA LeastHeight ==
  ASSUME NEW T, T \subseteq Nat, T # {}
  PROVE  \E n \in T : \A k \in Nat : k < n => k \notin T
  <1>1. PICK n \in T : \A k \in T : ~ (<<k, n>> \in OpToRel(<, Nat))
    BY WFMin, NatLessThanWellFounded
  <1>2. ASSUME NEW k \in Nat, k < n, k \in T
        PROVE  FALSE
    <2>1. n \in Nat
      OBVIOUS
    <2>2. <<k, n>> \in Nat \X Nat /\ <<k, n>>[1] = k /\ <<k, n>>[2] = n
      BY <2>1
    <2>3. <<k, n>> \in OpToRel(<, Nat)
      BY <1>2, <2>2 DEF OpToRel
    <2> QED
      BY <1>1, <1>2, <2>3
  <1> QED
    BY <1>2

(* f is the widths of the rows of c leaves, up to height m. *)
Widths(f, c, m) ==
  f = [h \in 0..m |-> IF h = 0 THEN c ELSE Half(f[h - 1])]

LEMMA WidthsExist ==
  ASSUME NEW c \in Nat, NEW m \in Nat
  PROVE  \E f : Widths(f, c, m)
  <1> DEFINE T == {n \in Nat : ~ \E f : Widths(f, c, n)}
  <1>1. ASSUME T # {}
        PROVE  FALSE
    <2>1. PICK n \in T : \A k \in Nat : k < n => k \notin T
      BY <1>1, LeastHeight
    <2>2. n \in Nat /\ ~ \E f : Widths(f, c, n)
      OBVIOUS
    <2>3. CASE n = 0
      <3> DEFINE f == [h \in 0..0 |-> c]
      <3>1. f = [h \in 0..0 |-> IF h = 0 THEN c ELSE Half(f[h - 1])]
        OBVIOUS
      <3> QED
        BY <2>2, <2>3, <3>1 DEF Widths
    <2>4. CASE n # 0
      <3>1. n - 1 \in Nat /\ n - 1 < n
        BY <2>2, <2>4
      <3>2. n - 1 \notin T
        BY <2>1, <3>1
      <3>3. PICK g : Widths(g, c, n - 1)
        BY <3>1, <3>2
      <3> DEFINE f == [h \in 0..n |-> IF h = 0 THEN c ELSE Half(g[h - 1])]
      <3>4. ASSUME NEW h \in 0..(n - 1)
            PROVE  f[h] = g[h]
        <4>1. h \in 0..n
          BY <2>2
        <4>2. g[h] = IF h = 0 THEN c ELSE Half(g[h - 1])
          BY <3>3 DEF Widths
        <4> QED
          BY <4>1, <4>2
      <3>5. ASSUME NEW h \in 0..n, h # 0
            PROVE  f[h - 1] = g[h - 1]
        <4>1. h - 1 \in 0..(n - 1)
          BY <2>2, <3>5
        <4> HIDE DEF f
        <4> QED
          BY <3>4, <4>1
      <3>6. [h \in 0..n |-> IF h = 0 THEN c ELSE Half(g[h - 1])]
              = [h \in 0..n |-> IF h = 0 THEN c ELSE Half(f[h - 1])]
        <4> HIDE DEF f
        <4> QED
          BY <3>5
      <3>7. Widths(f, c, n)
        BY <3>6 DEF Widths
      <3> QED
        BY <2>2, <3>7
    <2> QED
      BY <2>3, <2>4
  <1> QED
    BY <1>1

LEMMA WidthDef ==
  ASSUME count \in Nat
  PROVE  \A h \in 0..count : Width[h] = IF h = 0 THEN count ELSE Half(Width[h - 1])
  <1>1. \E f : f = [h \in 0..count |-> IF h = 0 THEN count ELSE Half(f[h - 1])]
    BY WidthsExist DEF Widths
  <1>2. Width = [h \in 0..count |-> IF h = 0 THEN count ELSE Half(Width[h - 1])]
    BY <1>1 DEF Width
  <1> QED
    BY <1>2

(* f is the rows of the tree whose widths are w, up to height m. *)
Rows(f, w, m) ==
  f = [h \in 0..m |->
         [j \in 0..(w[h] - 1) |->
            IF h = 0 THEN Tx(j)
            ELSE PairHash(f[h - 1][2 * j],
                          f[h - 1][IF 2 * j + 1 = w[h - 1]
                                     THEN 2 * j ELSE 2 * j + 1])]]

LEMMA RowsExist ==
  ASSUME NEW w, NEW m \in Nat
  PROVE  \E f : Rows(f, w, m)
  <1> DEFINE T == {n \in Nat : ~ \E f : Rows(f, w, n)}
             Row(h, below) ==
               [j \in 0..(w[h] - 1) |->
                  IF h = 0 THEN Tx(j)
                  ELSE PairHash(below[2 * j],
                                below[IF 2 * j + 1 = w[h - 1]
                                        THEN 2 * j ELSE 2 * j + 1])]
  <1>2. \A f, n : Rows(f, w, n) <=> f = [h \in 0..n |-> Row(h, f[h - 1])]
    BY DEF Rows
  <1>3. \A b, d : Row(0, b) = Row(0, d)
    OBVIOUS
  <1> HIDE DEF Row
  <1>1. ASSUME T # {}
        PROVE  FALSE
    <2>1. PICK n \in T : \A k \in Nat : k < n => k \notin T
      BY <1>1, LeastHeight
    <2>2. n \in Nat /\ ~ \E f : Rows(f, w, n)
      OBVIOUS
    <2>3. CASE n = 0
      <3> DEFINE f == [h \in 0..0 |-> Row(0, <<>>)]
      <3>1. \A h \in 0..0 : h = 0
        OBVIOUS
      <3>2. \A h \in 0..0 : Row(0, <<>>) = Row(h, f[h - 1])
        BY <1>3, <3>1
      <3>3. f = [h \in 0..0 |-> Row(h, f[h - 1])]
        BY <3>2
      <3> HIDE DEF f
      <3> QED
        BY <1>2, <2>2, <2>3, <3>3
    <2>4. CASE n # 0
      <3>1. n - 1 \in Nat /\ n - 1 < n
        BY <2>2, <2>4
      <3>2. n - 1 \notin T
        BY <2>1, <3>1
      <3>3. PICK g : Rows(g, w, n - 1)
        BY <3>1, <3>2
      <3>4. g = [h \in 0..(n - 1) |-> Row(h, g[h - 1])]
        BY <1>2, <3>3
      <3> DEFINE f == [h \in 0..n |-> Row(h, g[h - 1])]
      <3>5. ASSUME NEW h \in 0..(n - 1)
            PROVE  f[h] = g[h]
        <4>1. h \in 0..n
          BY <2>2
        <4>2. g[h] = Row(h, g[h - 1])
          BY <3>4
        <4> QED
          BY <4>1, <4>2
      <3> HIDE DEF f
      <3>6. ASSUME NEW h \in 0..n
            PROVE  Row(h, g[h - 1]) = Row(h, f[h - 1])
        <4>1. CASE h = 0
          BY <1>3, <4>1
        <4>2. CASE h # 0
          <5>1. h - 1 \in 0..(n - 1)
            BY <2>2, <4>2
          <5> QED
            BY <3>5, <5>1
        <4> QED
          BY <4>1, <4>2
      <3>7. f = [h \in 0..n |-> Row(h, f[h - 1])]
        BY <3>6 DEF f
      <3> QED
        BY <1>2, <2>2, <3>7
    <2> QED
      BY <2>3, <2>4
  <1> QED
    BY <1>1

LEMMA NodeDef ==
  ASSUME count \in Nat
  PROVE  \A h \in 0..count :
           Node[h] = [j \in 0..(Width[h] - 1) |->
                        IF h = 0 THEN Tx(j)
                        ELSE PairHash(Node[h - 1][2 * j],
                                      Node[h - 1][IF 2 * j + 1 = Width[h - 1]
                                                    THEN 2 * j ELSE 2 * j + 1])]
  <1>1. \E f : Rows(f, Width, count)
    BY RowsExist
  <1>2. Rows(Node, Width, count)
    BY <1>1 DEF Node, Rows
  <1> QED
    BY <1>2 DEF Rows


LEMMA SameTree ==
  ASSUME count' = count
  PROVE  Width' = Width /\ Node' = Node
  <1>1. Width' = Width
    BY DEF Width
  <1>2. Node' = Node
    BY <1>1 DEF Node
  <1> QED
    BY <1>1, <1>2

(* The hashes of this round are a row of the tree, above rows of more than *)
(* one hash.                                                               *)
RowAt(h) ==
  /\ itx = Width[h] /\ itx + h <= count
  /\ \A g \in 0..(h - 1) : Width[g] > 1
  /\ level = Node[h]

TreeInv ==
  /\ itx = 0 => count = 0
  /\ itx # 0 => \E h \in 0..count : RowAt(h)

LEMMA InitTree == Init => TreeInv
  <1> SUFFICES ASSUME Init, itx # 0
               PROVE  \E h \in 0..count : RowAt(h)
    BY DEF Init, TreeInv
  <1>1. count \in Nat /\ itx = count /\ level = [j \in 0..(count - 1) |-> Tx(j)]
    BY CountsAssumption DEF Init, txids
  <1>2. 0 \in 0..count
    BY <1>1
  <1>3. Width[0] = count
    BY <1>1, <1>2, WidthDef
  <1>4. Node[0] = [j \in 0..(Width[0] - 1) |-> Tx(j)]
    <2>1. Node[0] = [j \in 0..(Width[0] - 1) |->
                       IF 0 = 0 THEN Tx(j)
                       ELSE PairHash(Node[0 - 1][2 * j],
                                     Node[0 - 1][IF 2 * j + 1 = Width[0 - 1]
                                                   THEN 2 * j ELSE 2 * j + 1])]
      BY <1>1, <1>2, NodeDef
    <2> QED
      BY <2>1
  <1>5. level = Node[0]
    BY <1>1, <1>3, <1>4
  <1>6. RowAt(0)
    BY <1>1, <1>3, <1>5 DEF RowAt
  <1> QED
    BY <1>2, <1>6

(* The end of a round goes up one row. *)
LEMMA EndRoundTree == Inv /\ TreeInv /\ EndRound => TreeInv'
  <1> SUFFICES ASSUME Inv, TreeInv, EndRound
               PROVE  TreeInv'
    OBVIOUS
  <1>1. count \in Nat /\ itx \in Nat /\ itx > 1 /\ count' = count /\ itx' = Half(itx)
    BY CountsAssumption, SMT DEF Inv, TypeOK, PlaceInv, EndRound, NextSize
  <1>2. Half(itx) \in Nat /\ Half(itx) >= 1 /\ Half(itx) < itx
    BY <1>1, HalfFacts
  <1>3. PICK h \in 0..count : RowAt(h)
    BY <1>1 DEF TreeInv
  <1>4. h \in Nat /\ itx = Width[h] /\ itx + h <= count /\ level = Node[h]
    BY <1>1, <1>3 DEF RowAt
  <1>5. h + 1 \in 0..count /\ h + 1 # 0 /\ (h + 1) - 1 = h
    BY <1>1, <1>4
  <1>6. Width[h + 1] = Half(itx)
    BY <1>1, <1>4, <1>5, WidthDef
  <1>7. Node[h + 1] =
          [j \in 0..(Half(itx) - 1) |->
             PairHash(level[2 * j],
                      level[IF 2 * j + 1 = itx THEN 2 * j ELSE 2 * j + 1])]
    <2>1. Node[h + 1] =
            [j \in 0..(Width[h + 1] - 1) |->
               IF h + 1 = 0 THEN Tx(j)
               ELSE PairHash(Node[(h + 1) - 1][2 * j],
                             Node[(h + 1) - 1][IF 2 * j + 1 = Width[(h + 1) - 1]
                                                 THEN 2 * j ELSE 2 * j + 1])]
      BY <1>1, <1>5, NodeDef
    <2> QED
      BY <1>4, <1>5, <1>6, <2>1
  <1>8. ASSUME NEW j \in 0..(Half(itx) - 1)
        PROVE  (IF 2 * j + 1 = itx THEN 2 * j ELSE 2 * j + 1)
                 = (IF 2 * j + 1 < itx THEN 2 * j + 1 ELSE 2 * j)
    BY <1>1, SMT DEF Half
  <1>9. level' = [j \in 0..(Half(itx) - 1) |->
                    PairHash(level[2 * j],
                             level[IF 2 * j + 1 < itx THEN 2 * j + 1 ELSE 2 * j])]
    BY NextLevel DEF Levels!Parents, Levels!Half, Half
  <1>10. level' = Node[h + 1]
    BY <1>7, <1>8, <1>9
  <1>11. Width' = Width /\ Node' = Node
    BY <1>1, SameTree
  <1>12. \A g \in 0..h : Width[g] > 1
    BY <1>1, <1>3, <1>4 DEF RowAt
  <1>13. RowAt(h + 1)'
    <2>1. itx' = Width'[h + 1] /\ itx' + (h + 1) <= count' /\ level' = Node'[h + 1]
      BY <1>1, <1>2, <1>4, <1>6, <1>10, <1>11
    <2>2. \A g \in 0..((h + 1) - 1) : Width'[g] > 1
      BY <1>5, <1>11, <1>12
    <2> QED
      BY <2>1, <2>2 DEF RowAt
  <1>14. itx' # 0
    BY <1>1, <1>2
  <1> QED
    BY <1>1, <1>5, <1>13, <1>14 DEF TreeInv

LEMMA NextTree == Inv /\ TreeInv /\ [Next]_vars => TreeInv'
  <1> SUFFICES ASSUME Inv, TreeInv, [Next]_vars
               PROVE  TreeInv'
    OBVIOUS
  <1>1. CASE EndRound
    BY <1>1, EndRoundTree
  <1>2. CASE UNCHANGED <<count, itx, level>>
    <2>1. Width' = Width /\ Node' = Node
      BY <1>2, SameTree
    <2>2. ASSUME NEW h \in 0..count, RowAt(h)
          PROVE  RowAt(h)'
      BY <1>2, <2>1, <2>2 DEF RowAt
    <2> QED
      BY <1>2, <2>2 DEF TreeInv
  <1> QED
    BY <1>1, <1>2
    DEF Next, Start, BeginRound, HashPair, Finish, ReadRoot, Ended, vars

(* What the caller reads is the root of the Merkle tree, for every number  *)
(* of transactions, all their ids and every pair hash; only an empty list  *)
(* has none (bc_merkle_root).                                              *)
THEOREM RootOfTreeHolds == Spec => []RootOfTree
  <1>1. Inv /\ TreeInv => RootOfTree
    <2> SUFFICES ASSUME Inv, TreeInv
                 PROVE  RootOfTree
      OBVIOUS
    <2>1. ASSUME pc = "read"
          PROVE  \E h \in 0..count :
                   /\ Width[h] = 1 /\ (\A g \in 0..(h - 1) : Width[g] > 1)
                   /\ root = Node[h][0]
      <3>1. itx = 1 /\ root = level[0]
        BY <2>1 DEF Inv, PlaceInv, RootInv
      <3>2. PICK h \in 0..count : RowAt(h)
        BY <3>1 DEF TreeInv
      <3> QED
        BY <3>1, <3>2 DEF RowAt
    <2>2. pc = "crashed" => count = 0
      BY DEF Inv, PlaceInv, TreeInv
    <2> QED
      BY <2>1, <2>2 DEF RootOfTree
  <1> QED
    BY <1>1, InitTree, NextTree, Invariance, PTL DEF Spec

=============================================================================
