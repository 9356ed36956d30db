----------------------------- MODULE Induction -----------------------------
(***************************************************************************)
(* Induction for the loops of the program.  A loop is modelled by a        *)
(* recursive function over the number of its rounds; what it computes is   *)
(* proved by induction over the rounds.  The lemmas here are about sets    *)
(* and functions, so that they can be cited by name: a set that contains 0 *)
(* and the successors of its elements contains the natural numbers, and a  *)
(* function that is defined round by round exists.                         *)
(***************************************************************************)
EXTENDS Integers, WellFoundedInduction, TLAPS

(* Induction over the natural numbers, for a set.                          *)
LEMMA SetInduction ==
  ASSUME NEW S, 0 \in S, \A n \in Nat : n \in S => n + 1 \in S
  PROVE  Nat \subseteq S
<1> DEFINE R == {ss \in Nat \X Nat : ss[1] < ss[2]}
           T == Nat \ S
<1>1. IsWellFoundedOn(R, Nat)
  BY NatLessThanWellFounded DEF OpToRel
<1>2. SUFFICES ASSUME T # {} PROVE FALSE
  OBVIOUS
<1>3. PICK x \in T : \A y \in T : ~(<<y, x>> \in R)
  <2>1. T \subseteq Nat
    OBVIOUS
  <2> HIDE DEF R, T
  <2> QED  BY <1>1, <1>2, <2>1, WFMin
<1>4. x \in Nat /\ x # 0
  BY <1>3
<1>5. x - 1 \in Nat /\ <<x - 1, x>> \in R
  BY <1>4
<1>6. x - 1 \in S
  BY <1>3, <1>5
<1>7. x - 1 + 1 = x
  BY <1>4
<1> QED  BY <1>3, <1>5, <1>6, <1>7

(* Induction over the rounds of a loop.                                    *)
LEMMA RoundInduction ==
  ASSUME NEW N \in Nat, NEW S, 0 \in S, \A k \in 1..N : k - 1 \in S => k \in S
  PROVE  \A k \in 0..N : k \in S
<1> DEFINE T == {k \in Nat : k <= N => k \in S}
<1>1. 0 \in T
  OBVIOUS
<1>2. ASSUME NEW n \in Nat, n \in T PROVE n + 1 \in T
  <2>1. CASE n + 1 <= N
    <3>1. n + 1 \in 1..N /\ (n + 1) - 1 = n /\ n \in S
      BY <1>2, <2>1
    <3> QED  BY <3>1
  <2>2. CASE ~(n + 1 <= N)
    BY <2>2
  <2> QED  BY <2>1, <2>2
<1>3. Nat \subseteq T
  <2> HIDE DEF T
  <2> QED  BY <1>1, <1>2, SetInduction
<1> QED  BY <1>3

(* The values f that a loop of N rounds computes from base: round k turns  *)
(* the value v, an element of S, into step[k][v].                          *)
Runs(f, N, S, base, step) ==
  /\ f \in [0..N -> S]
  /\ f[0] = base
  /\ \A k \in 1..N : f[k] = step[k][f[k - 1]]

(* Every loop computes something.                                          *)
LEMMA LoopRuns ==
  ASSUME NEW N \in Nat, NEW S, NEW base \in S, NEW step \in [1..N -> [S -> S]]
  PROVE  \E f : Runs(f, N, S, base, step)
<1> DEFINE Upto(n, f) == Runs(f, n, S, base, step)
           T == {n \in 0..N : \E f : Upto(n, f)}
<1>1. 0 \in T
  <2> DEFINE f == [k \in 0..0 |-> base]
  <2>1. Upto(0, f)
    BY DEF Runs
  <2> HIDE DEF Upto, f
  <2> QED  BY <2>1
<1>2. ASSUME NEW k \in 1..N, k - 1 \in T PROVE k \in T
  <2>1. PICK f : Upto(k - 1, f)
    BY <1>2
  <2> DEFINE v == step[k][f[k - 1]]
             g == [i \in 0..k |-> IF i = k THEN v ELSE f[i]]
  <2>2. f[k - 1] \in S /\ v \in S
    BY <2>1 DEF Runs
  <2>3. g \in [0..k -> S] /\ g[0] = base
    <3>1. \A i \in 0..k : i # k => i \in 0..(k - 1)
      OBVIOUS
    <3> HIDE DEF v
    <3> QED  BY <2>1, <2>2, <3>1 DEF Runs
  <2>4. ASSUME NEW i \in 1..k PROVE g[i] = step[i][g[i - 1]]
    <3>1. g[i - 1] = f[i - 1] /\ i - 1 \in 0..k
      OBVIOUS
    <3>2. CASE i = k
      <4>1. g[i] = v
        BY <3>2
      <4> QED  BY <3>1, <3>2, <4>1
    <3>3. CASE i # k
      <4>1. i \in 1..(k - 1) /\ g[i] = f[i]
        BY <3>3
      <4>2. f[i] = step[i][f[i - 1]]
        BY <2>1, <4>1 DEF Runs
      <4> QED  BY <3>1, <4>1, <4>2
    <3> QED  BY <3>2, <3>3
  <2>5. Upto(k, g)
    <3> HIDE DEF g
    <3> QED  BY <2>3, <2>4 DEF Runs
  <2> HIDE DEF Upto, g
  <2> QED  BY <2>5
<1>3. \A k \in 0..N : k \in T
  <2> HIDE DEF T
  <2> QED  BY <1>1, <1>2, RoundInduction
<1> QED  BY <1>3

(* Two runs of one loop agree as far as both go.                           *)
LEMMA RunsAgree ==
  ASSUME NEW N \in Nat, NEW M \in Nat, N <= M, NEW S, NEW base, NEW step,
         NEW f, NEW g, Runs(f, N, S, base, step), Runs(g, M, S, base, step)
  PROVE  \A k \in 0..N : f[k] = g[k]
<1> DEFINE T == {k \in 0..N : f[k] = g[k]}
<1>1. 0 \in T
  BY DEF Runs
<1>2. ASSUME NEW k \in 1..N, k - 1 \in T PROVE k \in T
  <2>1. k \in 1..M /\ f[k - 1] = g[k - 1]
    BY <1>2
  <2> QED  BY <2>1 DEF Runs
<1>3. \A k \in 0..N : k \in T
  <2> HIDE DEF T
  <2> QED  BY <1>1, <1>2, RoundInduction
<1> QED  BY <1>3

(* A function on all natural numbers that is defined by its value at 0 and *)
(* each value by the one before.                                           *)
Continues(f, S, base, step) ==
  /\ f \in [Nat -> S]
  /\ f[0] = base
  /\ \A k \in Nat \ {0} : f[k] = step[f[k - 1]]

LEMMA SequenceContinues ==
  ASSUME NEW S, NEW base \in S, NEW step \in [S -> S]
  PROVE  \E f : Continues(f, S, base, step)
<1> DEFINE steps(N) == [k \in 1..N |-> step]
           Upto(f, N) == Runs(f, N, S, base, [k \in Nat |-> step])
           run(N) == CHOOSE f : Upto(f, N)
           F == [N \in Nat |-> run(N)[N]]
<1>1. ASSUME NEW N \in Nat PROVE Upto(run(N), N)
  <2>1. steps(N) \in [1..N -> [S -> S]]
    OBVIOUS
  <2>2. PICK f : Runs(f, N, S, base, steps(N))
    <3> HIDE DEF steps
    <3> QED  BY <2>1, LoopRuns
  <2>3. Upto(f, N)
    BY <2>2 DEF Runs
  <2> HIDE DEF Upto
  <2> QED  BY <2>3
<1>2. ASSUME NEW k \in Nat \ {0} PROVE F[k] = step[F[k - 1]]
  <2>1. k - 1 \in Nat /\ k - 1 <= k /\ k - 1 \in 0..(k - 1)
    OBVIOUS
  <2>2. Upto(run(k), k) /\ Upto(run(k - 1), k - 1)
    BY <1>1, <2>1
  <2> HIDE DEF run
  <2>3. run(k - 1)[k - 1] = run(k)[k - 1]
    BY <2>1, <2>2, RunsAgree
  <2>4. run(k)[k] = step[run(k)[k - 1]]
    BY <2>2 DEF Runs
  <2> QED  BY <2>1, <2>3, <2>4
<1>3. F \in [Nat -> S]
  <2>1. ASSUME NEW N \in Nat PROVE run(N)[N] \in S
    <3>1. Upto(run(N), N)
      BY <1>1
    <3> HIDE DEF run
    <3> QED  BY <3>1 DEF Runs
  <2> HIDE DEF run
  <2> QED  BY <2>1
<1>4. F[0] = base
  <2>1. Upto(run(0), 0)
    BY <1>1
  <2> HIDE DEF run
  <2> QED  BY <2>1 DEF Runs
<1>5. Continues(F, S, base, step)
  <2> HIDE DEF F
  <2> QED  BY <1>2, <1>3, <1>4 DEF Continues
<1> HIDE DEF F
<1> QED  BY <1>5
=============================================================================
