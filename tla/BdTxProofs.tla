----------------------------- MODULE BdTxProofs -----------------------------
(***************************************************************************)
(* Proofs about the transmit ring for every number of BDs, every number of *)
(* mbufs and every interleaving of the driver with the controller: the     *)
(* invariants of the ring and of the mbufs, and that the ring implements   *)
(* the FIFO of frames.                                                     *)
(*                                                                         *)
(* First come the recursive functions of the refinement mapping, Join and  *)
(* Cut.  What they compute for n BDs is proved by looking at the least n   *)
(* for which it would be wrong.                                            *)
(***************************************************************************)
EXTENDS BdTxRefines, SequenceTheorems, WellFoundedInduction, TLAPS

(* A set of numbers that is not empty has a least one. *)
LEMMA Least ==
  ASSUME NEW T \in SUBSET Nat, T # {}
  PROVE  \E n \in T : \A m \in T : n <= m
<1>1. PICK n \in T : \A m \in T : <<m, n>> \notin OpToRel(<, Nat)
  BY NatLessThanWellFounded, WFMin, Zenon
<1>2. \A m \in T : ~(m < n)
  BY <1>1 DEF OpToRel
<1> QED
  BY <1>2

(* Induction up to m. *)
LEMMA UpTo ==
  ASSUME NEW T \in SUBSET Nat, NEW m \in Nat,
         0 \in T, \A k \in 1..m : k - 1 \in T => k \in T
  PROVE  \A k \in 0..m : k \in T
<1> DEFINE U == {k \in 0..m : k \notin T}
<1>1. SUFFICES ASSUME U # {} PROVE FALSE
  OBVIOUS
<1>2. PICK k \in U : \A j \in U : k <= j
  <2>1. U \in SUBSET Nat
    OBVIOUS
  <2> HIDE DEF U
  <2> QED
    BY <2>1, <1>1, Least
<1>3. k \in 1..m /\ k - 1 \in 0..m /\ k - 1 \notin U
  BY <1>2
<1> QED
  BY <1>2, <1>3

(* A function defined by recursion exists. *)
Recursion(f, s, step, n) ==
    /\ f[0] = s
    /\ \A k \in 1..n : f[k] = step[k][f[k - 1]]

(* Each step takes what is there so far to the next value. *)
LEMMA RecursionExists ==
  ASSUME NEW S, NEW s \in S, NEW n \in Nat, NEW step \in [1..n -> [S -> S]]
  PROVE  \E f \in [0..n -> S] : Recursion(f, s, step, n)
<1> DEFINE Ok(m) == \E f \in [0..m -> S] : Recursion(f, s, step, m)
           T     == {m \in 0..n : ~Ok(m)}
<1>1. SUFFICES ASSUME T # {} PROVE FALSE
  OBVIOUS
<1>2. PICK m \in T : \A k \in T : m <= k
  <2>1. T \in SUBSET Nat
    OBVIOUS
  <2> HIDE DEF T
  <2> QED
    BY <2>1, <1>1, Least
<1>3. m # 0
  <2>1. [k \in 0..0 |-> s] \in [0..0 -> S] /\ Recursion([k \in 0..0 |-> s], s, step, 0)
    BY DEF Recursion
  <2>2. Ok(0)
    BY <2>1
  <2> QED
    BY <2>2
<1>4. m - 1 \in 0..n /\ m - 1 \notin T /\ m \in 1..n
  BY <1>2, <1>3
<1>5. PICK f \in [0..(m - 1) -> S] : Recursion(f, s, step, m - 1)
  BY <1>4
<1> DEFINE g == [k \in 0..m |-> IF k = m THEN step[m][f[m - 1]] ELSE f[k]]
<1>6. step[m] \in [S -> S] /\ f[m - 1] \in S
  BY <1>4
<1>7. g \in [0..m -> S]
  BY <1>4, <1>6
<1>8. Recursion(g, s, step, m)
  <2>1. g[0] = s
    BY <1>3, <1>4, <1>5 DEF Recursion
  <2>2. ASSUME NEW k \in 1..m PROVE g[k] = step[k][g[k - 1]]
    <3>1. CASE k = m
      BY <3>1, <1>4
    <3>2. CASE k # m
      <4>1. g[k] = f[k] /\ g[k - 1] = f[k - 1] /\ k \in 1..(m - 1)
        BY <3>2, <1>4
      <4> QED
        BY <4>1, <1>5 DEF Recursion
    <3> QED
      BY <3>1, <3>2
  <2> HIDE DEF g
  <2> QED
    BY <2>1, <2>2 DEF Recursion
<1> QED
  <2> HIDE DEF g
  <2>1. Ok(m)
    BY <1>7, <1>8
  <2> QED
    BY <2>1

(* Facts about sequences of sequences, for the steps of the recursion. *)
LEMMA JoinStep ==
  ASSUME NEW A, NEW s \in Seq(A), NEW t \in Seq(A)
  PROVE  s \o t \in Seq(A)
  OBVIOUS

(***************************************************************************)
(* Join: the equations, then their consequences.                           *)
(***************************************************************************)
Joins(d, f, n) == f = [k \in 0..n |-> IF k = 0 THEN <<>> ELSE d[k] \o f[k - 1]]

(* A function that satisfies the equations of Join is Join. *)
LEMMA JoinIs ==
  ASSUME NEW A, NEW m \in Nat, NEW d, NEW f \in [0..m -> Seq(A)],
         f[0] = <<>>, \A k \in 1..m : f[k] = d[k] \o f[k - 1],
         NEW n \in 0..m
  PROVE  Join(d, n) = f[n]
<1> DEFINE h == [k \in 0..n |-> f[k]]
           F == CHOOSE g : Joins(d, g, n)
<1>1. Joins(d, h, n)
  <2>1. ASSUME NEW k \in 0..n PROVE h[k] = IF k = 0 THEN <<>> ELSE d[k] \o h[k - 1]
    <3>1. CASE k = 0
      BY <3>1
    <3>2. CASE k # 0
      <4>1. k \in 1..m /\ h[k] = f[k] /\ h[k - 1] = f[k - 1]
        BY <3>2
      <4> QED
        BY <3>2, <4>1
    <3> QED
      BY <3>1, <3>2
  <2>2. h = [k \in 0..n |-> h[k]]
    OBVIOUS
  <2> HIDE DEF h
  <2> QED
    BY <2>1, <2>2 DEF Joins
<1>2. Joins(d, F, n)
  BY <1>1
<1>3. Join(d, n) = F[n]
  BY DEF Join, Joins
<1> HIDE DEF F
<1>4. ASSUME NEW k \in 0..n
      PROVE  F[k] = IF k = 0 THEN <<>> ELSE d[k] \o F[k - 1]
  <2> DEFINE e(j) == IF j = 0 THEN <<>> ELSE d[j] \o F[j - 1]
  <2>1. F = [j \in 0..n |-> e(j)]
    BY <1>2 DEF Joins
  <2> HIDE DEF e
  <2>2. F[k] = e(k)
    BY <2>1
  <2> QED
    BY <2>2 DEF e
<1> DEFINE T == {k \in Nat : k <= n /\ F[k] # f[k]}
<1>5. T = {}
  <2>1. SUFFICES ASSUME T # {} PROVE FALSE
    OBVIOUS
  <2>2. PICK k \in T : \A j \in T : k <= j
    <3>1. T \in SUBSET Nat
      OBVIOUS
    <3> HIDE DEF T
    <3> QED
      BY <3>1, <2>1, Least
  <2>3. k \in 0..n /\ F[k] # f[k]
    BY <2>2
  <2>4. k # 0
    BY <2>3, <1>4
  <2>5. F[k - 1] = f[k - 1]
    BY <2>2, <2>3, <2>4
  <2>6. F[k] = d[k] \o F[k - 1] /\ f[k] = d[k] \o f[k - 1]
    <3>1. k \in 1..m
      BY <2>3, <2>4
    <3> QED
      BY <3>1, <2>3, <2>4, <1>4
  <2> QED
    BY <2>3, <2>5, <2>6
<1>6. n \in Nat /\ n <= n
  OBVIOUS
<1>7. F[n] = f[n]
  BY <1>5, <1>6
<1> QED
  BY <1>3, <1>7

(* What Join computes for sequences over A. *)
JoinEquations(A, d, m) ==
    /\ Join(d, 0) = <<>>
    /\ \A k \in 1..m : Join(d, k) = d[k] \o Join(d, k - 1)
    /\ \A k \in 0..m : Join(d, k) \in Seq(A)

LEMMA JoinRule ==
  ASSUME NEW A, NEW m \in Nat, NEW d, \A k \in 1..m : d[k] \in Seq(A)
  PROVE  JoinEquations(A, d, m)
<1> DEFINE step == [k \in 1..m |-> [s \in Seq(A) |-> d[k] \o s]]
<1>1. step \in [1..m -> [Seq(A) -> Seq(A)]]
  BY JoinStep
<1>2. <<>> \in Seq(A)
  OBVIOUS
<1>3. PICK f \in [0..m -> Seq(A)] : Recursion(f, <<>>, step, m)
  <2> HIDE DEF step
  <2> QED
    BY <1>1, <1>2, RecursionExists
<1>4. f[0] = <<>> /\ \A k \in 1..m : f[k] = d[k] \o f[k - 1]
  <2>1. f[0] = <<>> /\ \A k \in 1..m : f[k] = step[k][f[k - 1]]
    BY <1>3 DEF Recursion
  <2>2. ASSUME NEW k \in 1..m PROVE f[k] = d[k] \o f[k - 1]
    <3>1. f[k - 1] \in Seq(A)
      OBVIOUS
    <3> QED
      BY <3>1, <2>1
  <2> QED
    BY <2>1, <2>2
<1>5. \A n \in 0..m : Join(d, n) = f[n]
  BY <1>4, JoinIs
<1>6. Join(d, 0) = <<>>
  BY <1>4, <1>5
<1>7. ASSUME NEW k \in 1..m PROVE Join(d, k) = d[k] \o Join(d, k - 1)
  <2>1. k \in 0..m /\ k - 1 \in 0..m
    OBVIOUS
  <2>2. Join(d, k) = f[k] /\ Join(d, k - 1) = f[k - 1]
    BY <2>1, <1>5
  <2> QED
    BY <2>2, <1>4
<1>8. ASSUME NEW k \in 0..m PROVE Join(d, k) \in Seq(A)
  BY <1>5
<1> QED
  BY <1>6, <1>7, <1>8 DEF JoinEquations

(***************************************************************************)
(* Cut: the same, for frames that carry something.                         *)
(***************************************************************************)
Frame(A) == Seq(A) \ {<<>>}

LEMMA FrameConcat ==
  ASSUME NEW A, NEW x \in Frame(A), NEW y \in Frame(A)
  PROVE  x \o y \in Frame(A)
<1>1. x \in Seq(A) /\ y \in Seq(A) /\ Len(x) > 0
  BY EmptySeq, LenProperties DEF Frame
<1>2. x \o y \in Seq(A) /\ Len(x \o y) = Len(x) + Len(y)
  BY <1>1, ConcatProperties
<1>3. Len(x \o y) # 0
  BY <1>1, <1>2, LenProperties
<1>4. x \o y # <<>>
  BY <1>3, EmptySeq
<1> QED
  BY <1>2, <1>4 DEF Frame

LEMMA PutFront ==
  ASSUME NEW B, NEW x \in B, NEW s \in Seq(B)
  PROVE  /\ <<x>> \o s \in Seq(B) /\ <<x>> \o s # <<>>
         /\ Head(<<x>> \o s) = x /\ Tail(<<x>> \o s) = s
         /\ Len(<<x>> \o s) = Len(s) + 1
  OBVIOUS

LEMMA TakeFront ==
  ASSUME NEW B, NEW s \in Seq(B), s # <<>>
  PROVE  Head(s) \in B /\ Tail(s) \in Seq(B)
  OBVIOUS

LEMMA FrontType ==
  ASSUME NEW A, NEW x \in Frame(A), NEW f \in Seq(Frame(A)), NEW e \in BOOLEAN,
         e \/ f # <<>>
  PROVE  InFront(x, e, f) \in Seq(Frame(A)) /\ InFront(x, e, f) # <<>>
<1>1. CASE e
  BY <1>1, PutFront DEF InFront
<1>2. CASE ~e
  <2>1. Head(f) \in Frame(A) /\ Tail(f) \in Seq(Frame(A))
    BY <1>2, TakeFront
  <2>2. x \o Head(f) \in Frame(A)
    BY <2>1, FrameConcat
  <2>3. <<x \o Head(f)>> \o Tail(f) \in Seq(Frame(A)) /\ <<x \o Head(f)>> \o Tail(f) # <<>>
    BY <2>1, <2>2, PutFront
  <2> QED
    BY <1>2, <2>3 DEF InFront
<1> QED
  BY <1>1, <1>2

CutAt(d, ends, f, k) == f[k] = InFront(d[k], ends[k], f[k - 1])

(* A function that satisfies the equations of Cut is Cut. *)
LEMMA CutIs ==
  ASSUME NEW m \in Nat, NEW d, NEW ends, NEW S, NEW f \in [0..m -> S],
         f[0] = <<>>, \A k \in 1..m : CutAt(d, ends, f, k),
         NEW n \in 0..m
  PROVE  Cut(d, ends, n) = f[n]
<1> DEFINE h == [k \in 0..n |-> f[k]]
           Cuts(g) == g = [k \in 0..n |-> IF k = 0 THEN <<>>
                                          ELSE InFront(d[k], ends[k], g[k - 1])]
           F == CHOOSE g : Cuts(g)
<1>1. Cuts(h)
  <2>1. ASSUME NEW k \in 0..n
        PROVE  h[k] = IF k = 0 THEN <<>> ELSE InFront(d[k], ends[k], h[k - 1])
    <3>1. CASE k = 0
      BY <3>1
    <3>2. CASE k # 0
      <4>1. k \in 1..m /\ h[k] = f[k] /\ h[k - 1] = f[k - 1]
        BY <3>2
      <4> HIDE DEF h
      <4> QED
        BY <3>2, <4>1 DEF CutAt
    <3> QED
      BY <3>1, <3>2
  <2>2. h = [k \in 0..n |-> h[k]]
    OBVIOUS
  <2> HIDE DEF h
  <2> QED
    BY <2>1, <2>2
<1>2. Cuts(F)
  <2> HIDE DEF Cuts
  <2> QED
    BY <1>1
<1>3. Cut(d, ends, n) = F[n]
  BY DEF Cut, InFront
<1> HIDE DEF F
<1>4. ASSUME NEW k \in 0..n
      PROVE  F[k] = IF k = 0 THEN <<>> ELSE InFront(d[k], ends[k], F[k - 1])
  <2> DEFINE e(j) == IF j = 0 THEN <<>> ELSE InFront(d[j], ends[j], F[j - 1])
  <2>1. F = [j \in 0..n |-> e(j)]
    BY <1>2
  <2> HIDE DEF e
  <2>2. F[k] = e(k)
    BY <2>1
  <2> QED
    BY <2>2 DEF e
<1> HIDE DEF Cuts
<1> DEFINE T == {k \in Nat : k <= n /\ F[k] # f[k]}
<1>5. T = {}
  <2>1. SUFFICES ASSUME T # {} PROVE FALSE
    OBVIOUS
  <2>2. PICK k \in T : \A j \in T : k <= j
    <3>1. T \in SUBSET Nat
      OBVIOUS
    <3> HIDE DEF T
    <3> QED
      BY <3>1, <2>1, Least
  <2>3. k \in 0..n /\ F[k] # f[k]
    BY <2>2
  <2>4. k # 0
    BY <2>3, <1>4
  <2>5. F[k - 1] = f[k - 1]
    BY <2>2, <2>3, <2>4
  <2>6. F[k] = InFront(d[k], ends[k], F[k - 1]) /\ f[k] = InFront(d[k], ends[k], f[k - 1])
    <3>1. k \in 1..m
      BY <2>3, <2>4
    <3> QED
      BY <3>1, <2>3, <2>4, <1>4 DEF CutAt
  <2> QED
    BY <2>3, <2>5, <2>6
<1>6. n \in Nat /\ n <= n
  OBVIOUS
<1>7. F[n] = f[n]
  BY <1>5, <1>6
<1> QED
  BY <1>3, <1>7

(* The frames of BDs that carry something, of which the last ends a frame. *)
CutEquations(A, d, ends, m) ==
    /\ Cut(d, ends, 0) = <<>>
    /\ \A k \in 1..m : Cut(d, ends, k) = InFront(d[k], ends[k], Cut(d, ends, k - 1))
    /\ \A k \in 0..m : Cut(d, ends, k) \in Seq(Frame(A))
    /\ \A k \in 1..m : Cut(d, ends, k) # <<>>

LEMMA CutRule ==
  ASSUME NEW A, NEW m \in Nat, NEW d, NEW ends, \A k \in 1..m : d[k] \in Frame(A),
         \A k \in 1..m : ends[k] \in BOOLEAN, m > 0 => ends[1]
  PROVE  CutEquations(A, d, ends, m)
<1> DEFINE G     == Seq(Frame(A))
           step  == [k \in 1..m |-> [s \in G |-> InFront(d[k], ends[k] \/ s = <<>>, s)]]
<1>1. step \in [1..m -> [G -> G]]
  <2>1. ASSUME NEW k \in 1..m, NEW s \in G
        PROVE  InFront(d[k], ends[k] \/ s = <<>>, s) \in G
    BY FrontType
  <2> HIDE DEF G
  <2> QED
    BY <2>1
<1>2. <<>> \in G
  OBVIOUS
<1>3. PICK f \in [0..m -> G] : Recursion(f, <<>>, step, m)
  <2> HIDE DEF step, G
  <2> QED
    BY <1>1, <1>2, RecursionExists
<1>4. f[0] = <<>>
  BY <1>3 DEF Recursion
<1>5. ASSUME NEW k \in 1..m
      PROVE  f[k - 1] \in G /\ f[k] = InFront(d[k], ends[k] \/ f[k - 1] = <<>>, f[k - 1])
  <2>1. k - 1 \in 0..m
    OBVIOUS
  <2>2. f[k - 1] \in G
    BY <2>1
  <2>3. f[k] = step[k][f[k - 1]]
    BY <1>3 DEF Recursion
  <2> HIDE DEF G
  <2> QED
    BY <2>2, <2>3
<1>6. ASSUME NEW k \in 1..m PROVE f[k] # <<>>
  <2>1. f[k - 1] \in Seq(Frame(A)) /\ d[k] \in Frame(A)
    BY <1>5
  <2>2. PICK e \in BOOLEAN : e = (ends[k] \/ f[k - 1] = <<>>)
    OBVIOUS
  <2>3. e \/ f[k - 1] # <<>>
    BY <2>2
  <2>4. InFront(d[k], e, f[k - 1]) # <<>>
    BY <2>1, <2>3, FrontType
  <2>5. f[k] = InFront(d[k], e, f[k - 1])
    BY <2>2, <1>5
  <2> QED
    BY <2>4, <2>5
<1>7. ASSUME NEW k \in 1..m PROVE f[k] = InFront(d[k], ends[k], f[k - 1])
  <2>1. CASE k = 1
    BY <2>1, <1>5
  <2>2. CASE k # 1
    <3>1. k - 1 \in 1..m
      BY <2>2
    <3>2. f[k - 1] # <<>>
      BY <3>1, <1>6
    <3>3. (ends[k] \/ f[k - 1] = <<>>) = ends[k]
      BY <3>2
    <3> QED
      BY <3>3, <1>5
  <2> QED
    BY <2>1, <2>2
<1>9. ASSUME NEW n \in 0..m PROVE Cut(d, ends, n) = f[n]
  <2> HIDE DEF G, step
  <2>1. \A k \in 1..m : CutAt(d, ends, f, k)
    BY <1>7 DEF CutAt
  <2>2. \A j \in 0..m : Cut(d, ends, j) = f[j]
    BY <2>1, <1>4, CutIs
  <2> QED
    BY <2>2
<1>10. Cut(d, ends, 0) = <<>>
  BY <1>4, <1>9
<1>11. ASSUME NEW k \in 1..m
       PROVE  Cut(d, ends, k) = InFront(d[k], ends[k], Cut(d, ends, k - 1))
  <2>1. k \in 0..m /\ k - 1 \in 0..m
    OBVIOUS
  <2>2. Cut(d, ends, k) = f[k] /\ Cut(d, ends, k - 1) = f[k - 1]
    BY <2>1, <1>9
  <2> QED
    BY <2>2, <1>7
<1>12. ASSUME NEW k \in 0..m PROVE Cut(d, ends, k) \in G
  BY <1>9
<1>13. ASSUME NEW k \in 1..m PROVE Cut(d, ends, k) # <<>>
  BY <1>9, <1>6, k \in 0..m
<1> QED
  BY <1>10, <1>11, <1>12, <1>13 DEF CutEquations

Associates(s, t, u) == s \o (t \o u) = (s \o t) \o u

LEMMA ConcatAssoc ==
  ASSUME NEW A, NEW s \in Seq(A), NEW t \in Seq(A), NEW u \in Seq(A)
  PROVE  Associates(s, t, u)
  BY DEF Associates

(* Join and Cut depend on the BDs they are asked for only. *)
LEMMA JoinAgree ==
  ASSUME NEW A, NEW m \in Nat, NEW d, NEW e, \A k \in 1..m : d[k] \in Seq(A),
         \A k \in 1..m : e[k] = d[k]
  PROVE  Join(e, m) = Join(d, m)
<1>1. JoinEquations(A, d, m) /\ JoinEquations(A, e, m)
  BY JoinRule
<1> DEFINE T == {k \in Nat : Join(e, k) = Join(d, k)}
<1>2. 0 \in T
  BY <1>1 DEF JoinEquations
<1>3. ASSUME NEW k \in 1..m, k - 1 \in T PROVE k \in T
  <2>1. Join(e, k) = e[k] \o Join(e, k - 1) /\ Join(d, k) = d[k] \o Join(d, k - 1)
    BY <1>1 DEF JoinEquations
  <2>2. e[k] = d[k] /\ Join(e, k - 1) = Join(d, k - 1)
    BY <1>3
  <2>3. Join(e, k) = Join(d, k)
    BY <2>1, <2>2
  <2> QED
    BY <2>3
<1>4. m \in T
  <2>1. T \in SUBSET Nat
    OBVIOUS
  <2> HIDE DEF T
  <2>2. \A k \in 0..m : k \in T
    BY <2>1, <1>2, <1>3, UpTo
  <2> QED
    BY <2>2
<1> QED
  BY <1>4

(* One more BD behind the others. *)
OneMore(A, d, e, m) ==
    /\ e[1] \in Seq(A)
    /\ \A k \in 1..m : d[k] \in Seq(A) /\ e[k + 1] = d[k]

Longer(d, e, m) == Join(e, m + 1) = Join(d, m) \o e[1]

LEMMA JoinMore ==
  ASSUME NEW A, NEW m \in Nat, NEW d, NEW e, OneMore(A, d, e, m)
  PROVE  Longer(d, e, m)
<1>0. /\ e[1] \in Seq(A) /\ \A k \in 1..m : d[k] \in Seq(A)
      /\ \A k \in 1..m : e[k + 1] = d[k]
  BY DEF OneMore
<1>1. JoinEquations(A, d, m)
  BY <1>0, JoinRule
<1>2. JoinEquations(A, e, m + 1)
  <2>1. ASSUME NEW k \in 1..(m + 1) PROVE e[k] \in Seq(A)
    <3>1. CASE k = 1
      BY <3>1, <1>0
    <3>2. CASE k # 1
      <4>1. k - 1 \in 1..m /\ (k - 1) + 1 = k
        BY <3>2
      <4>2. e[(k - 1) + 1] = d[k - 1]
        BY <4>1, <1>0
      <4> QED
        BY <4>1, <4>2, <1>0
    <3> QED
      BY <3>1, <3>2
  <2> QED
    BY <2>1, JoinRule
<1> DEFINE T == {k \in Nat : Join(e, k + 1) = Join(d, k) \o e[1]}
<1>3. 0 \in T
  <2>1. Join(e, 1) = e[1] \o Join(e, 0)
    BY <1>2, 1 \in 1..(m + 1), 1 - 1 = 0 DEF JoinEquations
  <2>2. Join(e, 0) = <<>> /\ Join(d, 0) = <<>>
    BY <1>1, <1>2 DEF JoinEquations
  <2>3. e[1] \o <<>> = <<>> \o e[1]
    BY <1>0
  <2> QED
    BY <2>1, <2>2, <2>3
<1>4. ASSUME NEW k \in 1..m, k - 1 \in T PROVE k \in T
  <2>1. Join(e, k + 1) = e[k + 1] \o Join(e, k)
    <3>1. k + 1 \in 1..(m + 1) /\ (k + 1) - 1 = k
      OBVIOUS
    <3> QED
      BY <3>1, <1>2 DEF JoinEquations
  <2>2. e[k + 1] = d[k] /\ d[k] \in Seq(A)
    BY <1>0
  <2>3. Join(e, k) = Join(d, k - 1) \o e[1]
    BY <1>4, (k - 1) + 1 = k
  <2>4. Join(d, k) = d[k] \o Join(d, k - 1) /\ Join(d, k - 1) \in Seq(A)
    BY <1>1, k - 1 \in 0..m DEF JoinEquations
  <2>5. Associates(d[k], Join(d, k - 1), e[1])
    BY <1>0, <2>2, <2>4, ConcatAssoc, Zenon
  <2>6. Join(e, k + 1) = d[k] \o (Join(d, k - 1) \o e[1])
    BY <2>1, <2>2, <2>3
  <2>7. Join(e, k + 1) = Join(d, k) \o e[1]
    BY <2>4, <2>5, <2>6 DEF Associates
  <2> QED
    BY <2>7
<1>5. m \in T
  <2>1. T \in SUBSET Nat
    OBVIOUS
  <2> HIDE DEF T
  <2>2. \A k \in 0..m : k \in T
    BY <2>1, <1>3, <1>4, UpTo
  <2> QED
    BY <2>2
<1> QED
  BY <1>5 DEF Longer

(* BDs that carry something together carry something. *)
LEMMA JoinFrame ==
  ASSUME NEW A, NEW m \in Nat \ {0}, NEW d, \A k \in 1..m : d[k] \in Frame(A)
  PROVE  Join(d, m) \in Frame(A)
<1>1. \A k \in 1..m : d[k] \in Seq(A)
  BY DEF Frame
<1>2. JoinEquations(A, d, m)
  BY <1>1, JoinRule
<1>3. Join(d, m) = d[m] \o Join(d, m - 1) /\ Join(d, m - 1) \in Seq(A)
  BY <1>2, m \in 1..m, m - 1 \in 0..m DEF JoinEquations
<1>4. d[m] \in Frame(A)
  BY m \in 1..m
<1>5. CASE Join(d, m - 1) = <<>>
  <2>1. d[m] \in Seq(A)
    BY <1>4 DEF Frame
  <2>2. d[m] \o <<>> = d[m]
    BY <2>1
  <2> QED
    BY <2>2, <1>3, <1>4, <1>5
<1>6. CASE Join(d, m - 1) # <<>>
  <2>1. Join(d, m - 1) \in Frame(A)
    BY <1>3, <1>6 DEF Frame
  <2> QED
    BY <2>1, <1>3, <1>4, FrameConcat
<1> QED
  BY <1>5, <1>6

LEMMA CutAgree ==
  ASSUME NEW A, NEW m \in Nat, NEW d, NEW ends, NEW e, NEW fin,
         \A k \in 1..m : d[k] \in Frame(A), \A k \in 1..m : ends[k] \in BOOLEAN,
         m > 0 => ends[1],
         \A k \in 1..m : e[k] = d[k], \A k \in 1..m : fin[k] = ends[k]
  PROVE  Cut(e, fin, m) = Cut(d, ends, m)
<1>1. CutEquations(A, d, ends, m) /\ CutEquations(A, e, fin, m)
  BY CutRule, m > 0 => 1 \in 1..m
<1> DEFINE T == {k \in Nat : Cut(e, fin, k) = Cut(d, ends, k)}
<1>2. 0 \in T
  BY <1>1 DEF CutEquations
<1>3. ASSUME NEW k \in 1..m, k - 1 \in T PROVE k \in T
  <2>1. /\ Cut(e, fin, k) = InFront(e[k], fin[k], Cut(e, fin, k - 1))
        /\ Cut(d, ends, k) = InFront(d[k], ends[k], Cut(d, ends, k - 1))
    BY <1>1 DEF CutEquations
  <2>2. e[k] = d[k] /\ fin[k] = ends[k] /\ Cut(e, fin, k - 1) = Cut(d, ends, k - 1)
    BY <1>3
  <2>3. Cut(e, fin, k) = Cut(d, ends, k)
    BY <2>1, <2>2
  <2> QED
    BY <2>3
<1>4. m \in T
  <2>1. T \in SUBSET Nat
    OBVIOUS
  <2> HIDE DEF T
  <2>2. \A k \in 0..m : k \in T
    BY <2>1, <1>2, <1>3, UpTo
  <2> QED
    BY <2>2
<1> QED
  BY <1>4

LEMMA PutAppend ==
  ASSUME NEW B, NEW x \in B, NEW y \in B, NEW s \in Seq(B)
  PROVE  /\ <<x>> \o Append(s, y) = Append(<<x>> \o s, y)
         /\ s # <<>> => /\ Head(Append(s, y)) = Head(s)
                       /\ Tail(Append(s, y)) = Append(Tail(s), y)
  OBVIOUS

(* A frame at the end of the FIFO does not change what happens in front. *)
LEMMA FrontAppend ==
  ASSUME NEW A, NEW x \in Frame(A), NEW y \in Frame(A), NEW f \in Seq(Frame(A)),
         NEW e \in BOOLEAN, e \/ f # <<>>
  PROVE  InFront(x, e, Append(f, y)) = Append(InFront(x, e, f), y)
<1>1. CASE e
  BY <1>1, PutAppend DEF InFront
<1>2. CASE ~e
  <2>1. Head(f) \in Frame(A) /\ Tail(f) \in Seq(Frame(A))
    BY <1>2, TakeFront
  <2>2. x \o Head(f) \in Frame(A)
    BY <2>1, FrameConcat
  <2>3. Head(Append(f, y)) = Head(f) /\ Tail(Append(f, y)) = Append(Tail(f), y)
    BY <1>2, PutAppend
  <2>4. PICK z \in Frame(A) : z = x \o Head(f)
    BY <2>2
  <2>5. <<z>> \o Append(Tail(f), y) = Append(<<z>> \o Tail(f), y)
    BY <2>1, PutAppend
  <2> QED
    BY <1>2, <2>3, <2>4, <2>5 DEF InFront
<1> QED
  BY <1>1, <1>2

(***************************************************************************)
(* p BDs of one frame behind r BDs of complete frames are a frame more.    *)
(***************************************************************************)
FrameMore(A, d, ends, r, e, fin, p) ==
    /\ \A k \in 1..r : d[k] \in Frame(A) /\ ends[k] \in BOOLEAN
    /\ r > 0 => ends[1]
    /\ \A k \in 1..p : e[k] \in Frame(A) /\ fin[k] = (k = 1)
    /\ \A k \in 1..r : e[p + k] = d[k] /\ fin[p + k] = ends[k]

OneFrameMore(d, ends, r, e, fin, p) ==
    Cut(e, fin, p + r) = Append(Cut(d, ends, r), Join(e, p))

LEMMA CutMore ==
  ASSUME NEW A, NEW p \in Nat \ {0}, NEW r \in Nat,
         NEW d, NEW ends, NEW e, NEW fin, FrameMore(A, d, ends, r, e, fin, p)
  PROVE  OneFrameMore(d, ends, r, e, fin, p)
<1>0. /\ \A k \in 1..r : d[k] \in Frame(A)
      /\ \A k \in 1..r : ends[k] \in BOOLEAN
      /\ r > 0 => ends[1]
      /\ \A k \in 1..p : e[k] \in Frame(A)
      /\ \A k \in 1..p : fin[k] = (k = 1)
      /\ \A k \in 1..r : e[p + k] = d[k] /\ fin[p + k] = ends[k]
  BY DEF FrameMore
<1> USE <1>0
<1>1. CutEquations(A, d, ends, r)
  BY CutRule
<1>2. CutEquations(A, e, fin, p + r)
  <2>1. ASSUME NEW k \in 1..(p + r) PROVE e[k] \in Frame(A) /\ fin[k] \in BOOLEAN
    <3>1. CASE k <= p
      <4>1. k \in 1..p
        BY <3>1
      <4>2. e[k] \in Frame(A) /\ fin[k] = (k = 1)
        BY <4>1
      <4> QED
        BY <4>2
    <3>2. CASE k > p
      <4>1. k - p \in 1..r /\ p + (k - p) = k
        BY <3>2
      <4>2. e[p + (k - p)] = d[k - p] /\ fin[p + (k - p)] = ends[k - p]
        BY <4>1
      <4> QED
        BY <4>1, <4>2
    <3> QED
      BY <3>1, <3>2
  <2>2. fin[1]
    BY 1 \in 1..p
  <2>3. p + r \in Nat
    OBVIOUS
  <2> QED
    BY <2>1, <2>2, <2>3, CutRule
<1>3. \A k \in 1..p : e[k] \in Seq(A)
  BY DEF Frame
<1>4. JoinEquations(A, e, p)
  BY <1>3, JoinRule
<1>5. Join(e, p) \in Frame(A)
  BY JoinFrame
(* The BDs of the frame. *)
<1> DEFINE T == {k \in Nat : k = 0 \/ Cut(e, fin, k) = <<Join(e, k)>>}
<1>6. ASSUME NEW k \in 1..p, k - 1 \in T PROVE k \in T
  <2>1. Cut(e, fin, k) = InFront(e[k], k = 1, Cut(e, fin, k - 1))
    <3>1. k \in 1..(p + r) /\ fin[k] = (k = 1)
      OBVIOUS
    <3> QED
      BY <3>1, <1>2 DEF CutEquations
  <2>2. Join(e, k) = e[k] \o Join(e, k - 1) /\ e[k] \in Seq(A)
    BY <1>3, <1>4 DEF JoinEquations
  <2>3. CASE k = 1
    <3>1. Cut(e, fin, 0) = <<>> /\ Join(e, 0) = <<>>
      BY <1>2, <1>4 DEF CutEquations, JoinEquations
    <3>2. Cut(e, fin, 1) = <<e[1]>> \o <<>> /\ Join(e, 1) = e[1] \o <<>>
      BY <2>1, <2>2, <2>3, <3>1 DEF InFront
    <3>3. e[1] \o <<>> = e[1]
      BY <2>2, <2>3
    <3>4. <<e[1]>> \o <<>> = <<e[1]>>
      OBVIOUS
    <3> QED
      BY <2>3, <3>2, <3>3, <3>4
  <2>4. CASE k # 1
    <3>1. Cut(e, fin, k - 1) = <<Join(e, k - 1)>>
      BY <1>6, <2>4
    <3>2. PICK y : y = Join(e, k - 1)
      OBVIOUS
    <3>3. InFront(e[k], FALSE, <<y>>) = <<e[k] \o y>>
      BY DEF InFront
    <3>4. Cut(e, fin, k) = <<Join(e, k)>>
      BY <2>1, <2>2, <2>4, <3>1, <3>2, <3>3
    <3> QED
      BY <3>4
  <2> QED
    BY <2>3, <2>4
<1>7. Cut(e, fin, p) = <<Join(e, p)>>
  <2>1. T \in SUBSET Nat /\ 0 \in T
    OBVIOUS
  <2>2. p \in T
    <3> HIDE DEF T
    <3>1. \A k \in 0..p : k \in T
      BY <2>1, <1>6, UpTo
    <3> QED
      BY <3>1
  <2> QED
    BY <2>2
(* The BDs in front of it. *)
<1> HIDE DEF T
<1> DEFINE U == {k \in Nat : Cut(e, fin, p + k) = Append(Cut(d, ends, k), Join(e, p))}
<1>8. 0 \in U
  <2>1. Cut(d, ends, 0) = <<>>
    BY <1>1 DEF CutEquations
  <2>2. Append(<<>>, Join(e, p)) = <<Join(e, p)>>
    OBVIOUS
  <2> QED
    BY <1>7, <2>1, <2>2, p + 0 = p
<1>9. ASSUME NEW k \in 1..r, k - 1 \in U PROVE k \in U
  <2>1. Cut(e, fin, p + k) = InFront(d[k], ends[k], Cut(e, fin, p + (k - 1)))
    <3>1. p + k \in 1..(p + r) /\ (p + k) - 1 = p + (k - 1)
      OBVIOUS
    <3>2. Cut(e, fin, p + k) = InFront(e[p + k], fin[p + k], Cut(e, fin, (p + k) - 1))
      BY <3>1, <1>2 DEF CutEquations
    <3> QED
      BY <3>1, <3>2
  <2>2. Cut(e, fin, p + (k - 1)) = Append(Cut(d, ends, k - 1), Join(e, p))
    BY <1>9
  <2>3. Cut(d, ends, k - 1) \in Seq(Frame(A)) /\ (ends[k] \/ Cut(d, ends, k - 1) # <<>>)
    <3>1. k - 1 \in 0..r
      OBVIOUS
    <3>2. CASE k = 1
      BY <3>1, <3>2, <1>1 DEF CutEquations
    <3>3. CASE k # 1
      BY <3>1, <3>3, <1>1, k - 1 \in 1..r DEF CutEquations
    <3> QED
      BY <3>2, <3>3
  <2>4. InFront(d[k], ends[k], Append(Cut(d, ends, k - 1), Join(e, p)))
          = Append(InFront(d[k], ends[k], Cut(d, ends, k - 1)), Join(e, p))
    <3>1. d[k] \in Frame(A) /\ ends[k] \in BOOLEAN
      BY <1>0
    <3>2. PICK x, l, f, y : /\ x = d[k] /\ l = ends[k]
                            /\ f = Cut(d, ends, k - 1) /\ y = Join(e, p)
      OBVIOUS
    <3> HIDE <1>0
    <3>3. x \in Frame(A) /\ l \in BOOLEAN /\ f \in Seq(Frame(A)) /\ y \in Frame(A)
      BY <3>1, <3>2, <2>3, <1>5
    <3>4. l \/ f # <<>>
      BY <3>2, <2>3
    <3>5. InFront(x, l, Append(f, y)) = Append(InFront(x, l, f), y)
      BY <3>3, <3>4, FrontAppend
    <3> QED
      BY <3>2, <3>5
  <2>5. Cut(d, ends, k) = InFront(d[k], ends[k], Cut(d, ends, k - 1))
    BY <1>1 DEF CutEquations
  <2>6. Cut(e, fin, p + k) = Append(Cut(d, ends, k), Join(e, p))
    BY <2>1, <2>2, <2>4, <2>5
  <2> QED
    BY <2>6
<1>10. r \in U
  <2>1. U \in SUBSET Nat
    OBVIOUS
  <2> HIDE DEF U
  <2>2. \A k \in 0..r : k \in U
    BY <2>1, <1>8, <1>9, UpTo
  <2> QED
    BY <2>2
<1> QED
  BY <1>10 DEF OneFrameMore

(* No BD, no fragment, no frame. *)
LEMMA JoinNone == ASSUME NEW d PROVE Join(d, 0) = <<>>
<1>1. JoinEquations({}, d, 0)
  <2>1. 0 \in Nat /\ \A k \in 1..0 : d[k] \in Seq({})
    OBVIOUS
  <2> QED
    BY <2>1, JoinRule
<1> QED
  BY <1>1 DEF JoinEquations

LEMMA CutNone == ASSUME NEW d, NEW ends PROVE Cut(d, ends, 0) = <<>>
<1>1. CutEquations({}, d, ends, 0)
  <2>1. /\ 0 \in Nat /\ ~(0 > 0)
        /\ \A k \in 1..0 : d[k] \in Frame({}) /\ ends[k] \in BOOLEAN
    OBVIOUS
  <2> QED
    BY <2>1, CutRule
<1> QED
  BY <1>1 DEF CutEquations

-----------------------------------------------------------------------------
USE NAssumption, FragMaxAssumption, BoundAssumption, NoneAssumption

(* Facts about positions in the ring.                                      *)

LEMMA SuccType == ASSUME NEW i \in Slot PROVE Succ(i) \in Slot
  BY DEF Slot, Succ

LEMMA DistType ==
  ASSUME NEW a \in Slot, NEW b \in Slot
  PROVE  /\ Dist(a, b) \in 0..(N - 1)
         /\ Dist(a, b) = 0 <=> a = b
         /\ a # b => Dist(b, a) = N - Dist(a, b)
  BY DEF Slot, Dist

LEMMA DistInj ==
  ASSUME NEW a \in Slot, NEW i \in Slot, NEW j \in Slot,
         Dist(a, i) = Dist(a, j)
  PROVE  i = j
  BY DEF Slot, Dist

LEMMA DistSucc ==
  ASSUME NEW a \in Slot, NEW b \in Slot
  PROVE  /\ Dist(a, b) # N - 1 => Dist(a, Succ(b)) = Dist(a, b) + 1
         /\ Dist(a, b) = N - 1 => Succ(b) = a
         /\ a # b => Dist(Succ(a), b) = Dist(a, b) - 1
         /\ Dist(Succ(a), a) = N - 1
  BY DEF Slot, Dist, Succ

(* Positions seen from behind BD b instead of from BD a. *)
LEMMA DistMove ==
  ASSUME NEW a \in Slot, NEW b \in Slot, NEW i \in Slot
  PROVE  Dist(Succ(b), i) = IF Dist(a, i) > Dist(a, b)
                            THEN Dist(a, i) - Dist(a, b) - 1
                            ELSE Dist(a, i) - Dist(a, b) - 1 + N
  BY DEF Slot, Dist, Succ

LEMMA FragMaxType == FragMax \in Int
  BY DEF FragMax

LEMMA NoCallType ==
  /\ NoCall \in [last : BOOLEAN, wrap : BOOLEAN,
                 buf : Mbuf \union {None}, arg : Mbuf \union {None}]
  /\ NoCall.last = FALSE
  /\ NoCall.arg = None
  BY DEF NoCall

LEMMA AdvanceType ==
  ASSUME ControlOK, Advance
  PROVE  /\ current' \in Slot
         /\ first' \in Slot
         /\ avail' \in Int
         /\ pc' = "wait"
         /\ call' = NoCall
         /\ discard' \in Slot
<1>1. 0 \in Slot
  BY DEF Slot
<1>2. Succ(current) \in Slot
  BY SuccType DEF ControlOK
<1>3. CASE call.last
  BY <1>1, <1>2, <1>3, FragMaxType DEF ControlOK, Advance
<1>4. CASE ~call.last
  BY <1>1, <1>2, <1>4 DEF ControlOK, Advance
<1>. QED BY <1>3, <1>4

-----------------------------------------------------------------------------
(***************************************************************************)
(* The types of the control state.  The controller stays in the ring       *)
(* because the wrap bits are kept.                                         *)
(***************************************************************************)
LEMMA ControlStep ==
  ASSUME ControlOK, WrapKept, [Next]_vars PROVE ControlOK'
<1> USE DEF ControlOK
<1>1. ASSUME NEW m \in Mbuf, NEW l \in BOOLEAN, Submit(m, l) PROVE ControlOK'
  <2>1. CASE avail > 0
    <3>1. /\ pc' = "fill"
          /\ call' = [last |-> l, wrap |-> FALSE, buf |-> m, arg |-> m]
          /\ UNCHANGED <<arg, discard>>
      BY <1>1, <2>1 DEF Submit
    <3>2. call' \in [last : BOOLEAN, wrap : BOOLEAN,
                     buf : Mbuf \union {None}, arg : Mbuf \union {None}]
      BY <3>1
    <3>. QED BY <1>1, <3>1, <3>2 DEF Submit, ring
  <2>2. CASE avail <= 0
    BY <1>1, <2>2 DEF Submit, ring
  <2>. QED BY <2>1, <2>2
<1>2. ASSUME NEW c \in Mbuf, Compact(c) PROVE ControlOK'
  BY <1>2, SuccType DEF Compact, CompactedTo, BdCompact, FragMax
<1>3. CASE Fill
  BY <1>3 DEF Fill
<1>4. CASE Status
  <2>1. CASE call.last /\ current # first
    BY <1>4, <2>1 DEF Status, BdWrap, BdReady
  <2>2. CASE ~(call.last /\ current # first)
    <3>. Advance
      BY <1>4, <2>2 DEF Status
    <3>. QED BY <1>4, AdvanceType, NoCallType DEF Status, BdWrap, BdReady
  <2>. QED BY <2>1, <2>2
<1>5. CASE Release
  BY <1>5, AdvanceType, NoCallType DEF Release
<1>6. CASE WaitAndFree
  BY <1>6 DEF WaitAndFree, ring
<1>7. CASE Close
  <2>1. hw' \in Slot
    BY <1>7 DEF Close, WrapKept, Slot
  <2>. QED BY <1>7, <2>1 DEF Close, caller
<1>8. CASE UNCHANGED vars
  BY <1>8 DEF vars, ring, caller
<1>. QED BY <1>1, <1>2, <1>3, <1>4, <1>5, <1>6, <1>7, <1>8 DEF Next, Working

-----------------------------------------------------------------------------
(***************************************************************************)
(* The ring invariant, one lemma per action.                               *)
(***************************************************************************)
LEMMA RingInit == ASSUME RoomForFirst, Init PROVE RingInv
<1>1. ControlOK
  <2>. 0 \in Slot
    BY DEF Slot
  <2>. QED BY NoCallType, FragMaxType DEF Init, ControlOK
<1>2. Released = 0 /\ Pending = 0 /\ FragMax = avail
  BY DEF Init, Released, Pending, Dist, Slot
<1>3. ReadyBds
  <2>1. SUFFICES ASSUME NEW i \in Slot
                 PROVE  ~(Dist(first, i) >= N \/ (0 < Dist(first, i) /\ Dist(first, i) < 0))
    BY <1>2, <2>1 DEF Init, ReadyBds
  <2>2. Dist(first, i) \in 0..(N - 1)
    BY DistType DEF Init, Slot
  <2>. QED BY <2>2
<1>4. Room /\ Available /\ FrameEnds /\ Compaction
  BY <1>2, FragMaxType DEF Init, Room, Available, FrameEnds, Compaction
<1>5. WrapKept
  BY DEF Init, WrapKept
<1>. QED BY <1>1, <1>3, <1>4, <1>5 DEF RingInv

LEMMA RingSubmit ==
  ASSUME RoomForFirst, RingInv, NEW m \in Mbuf, NEW l \in BOOLEAN, Submit(m, l)
  PROVE  /\ ReadyBds' /\ Room' /\ Available'
         /\ FrameEnds' /\ WrapKept' /\ Compaction'
         /\ Released' = Released
<1>1. /\ ready' = ready /\ last' = last /\ wrap' = wrap /\ wire' = wire
      /\ first' = first /\ current' = current /\ avail' = avail /\ hw' = hw
      /\ pc = "idle"
      /\ pc' = IF avail > 0 THEN "fill" ELSE "compact"
      /\ avail <= 0 => discard' = first /\ call'.wrap = wrap[first]
      /\ avail > 0 => call'.wrap = FALSE
  BY DEF Submit, ring, RingInv, ControlOK
<1>2. /\ Released' = Released /\ Pending' = Pending
      /\ \A i \in Slot : Dist(first, i)' = Dist(first, i)
  BY <1>1 DEF Released, Pending, Dist
<1>3. first \in Slot /\ current \in Slot /\ avail \in Int
  BY DEF RingInv, ControlOK
<1>4. Pending \in 0..(N - 1)
  BY <1>3, DistType DEF Pending
<1>5. ReadyBds'
  <2>1. avail <= 0 => Dist(first, discard)' = 0
    BY <1>1, <1>3, DistType
  <2>. QED BY <1>1, <1>2, <1>3, <2>1, DistType DEF ReadyBds, RingInv
<1>6. Room'
  BY <1>1, <1>2 DEF Room, RingInv
<1>7. Available'
  BY <1>1, <1>2, <1>3 DEF Available, RingInv
<1>8. FrameEnds'
  BY <1>1, <1>2 DEF FrameEnds, RingInv
<1>9. WrapKept'
  BY <1>1, <1>3 DEF WrapKept, RingInv
<1>10. Compaction'
  BY <1>1, <1>2, <1>3, <1>4, FragMaxType, DistType
     DEF Compaction, RingInv, Available, RoomForFirst
<1>. QED BY <1>2, <1>5, <1>6, <1>7, <1>8, <1>9, <1>10
(* Steps that change nothing the ring invariant speaks of. *)
LEMMA RingFill ==
  ASSUME RingInv, Fill \/ WaitAndFree
  PROVE  /\ ReadyBds' /\ Room' /\ Available'
         /\ FrameEnds' /\ WrapKept' /\ Compaction'
         /\ Released' = Released
<1>1. /\ ready' = ready /\ last' = last /\ wrap' = wrap /\ wire' = wire
      /\ first' = first /\ current' = current /\ avail' = avail /\ hw' = hw
      /\ call' = call /\ discard' = discard
      /\ \/ pc = "fill" /\ pc' = "status"
         \/ pc = "wait" /\ pc' = "idle" /\ ~ready[current]
  BY DEF Fill, WaitAndFree, ring
<1>2. /\ Released' = Released /\ Pending' = Pending
      /\ \A i \in Slot : Dist(first, i)' = Dist(first, i)
  BY <1>1 DEF Released, Pending, Dist
<1>3. first \in Slot /\ current \in Slot /\ hw \in Slot
  BY DEF RingInv, ControlOK
<1>4. Pending \in 0..(N - 1) /\ Released \in 0..N
  BY <1>3, DistType DEF Pending, Released
<1>5. ReadyBds'
  BY <1>1, <1>2 DEF ReadyBds, RingInv
<1>6. Room'
  <2>1. CASE pc = "fill"
    BY <2>1, <1>1, <1>2 DEF Room, RingInv
  <2>2. CASE pc = "wait"
    <3>1. ~ (Pending >= N - Released)
      BY <1>1, <1>3, <2>2 DEF ReadyBds, RingInv, Pending
    <3>. QED BY <2>2, <3>1, <1>1, <1>2, <1>4 DEF Room, RingInv
  <2>. QED BY <1>1, <2>1, <2>2
<1>7. Available' /\ FrameEnds' /\ WrapKept' /\ Compaction'
  BY <1>1, <1>2 DEF Available, FrameEnds, WrapKept, Compaction, RingInv
<1>. QED BY <1>2, <1>5, <1>6, <1>7

(* The compaction takes back the ready bits of the frame in the making. *)
LEMMA RingCompact ==
  ASSUME RoomForFirst, RingInv, NEW c \in Mbuf, Compact(c)
  PROVE  /\ ReadyBds' /\ Room' /\ Available'
         /\ FrameEnds' /\ WrapKept' /\ Compaction'
         /\ Released' = Released
<1> DEFINE done == Succ(discard) = CompactEnd
<1>1. /\ ready' = [ready EXCEPT ![discard] = FALSE]
      /\ last' = [last EXCEPT ![discard] = FALSE]
      /\ wrap' = wrap /\ wire' = wire /\ first' = first /\ hw' = hw
      /\ call'.wrap = call.wrap
      /\ discard' = Succ(discard)
      /\ pc = "compact"
      /\ pc' = IF done THEN "fill" ELSE "compact"
      /\ avail' = IF done THEN FragMax - 1 ELSE avail
      /\ current' = IF done THEN first ELSE current
  BY DEF Compact, CompactedTo, BdCompact
<1>2. /\ first \in Slot /\ current \in Slot /\ hw \in Slot /\ discard \in Slot
      /\ ready \in [Slot -> BOOLEAN] /\ last \in [Slot -> BOOLEAN]
      /\ wrap \in [Slot -> BOOLEAN]
      /\ avail \in Int
  BY DEF RingInv, ControlOK
<1>3. /\ Pending \in 0..(N - 1) /\ Released \in 0..N
      /\ Pending + Released < N
      /\ Pending > 0
      /\ Dist(first, discard) <= Pending
      /\ avail + Pending <= FragMax
  BY <1>1, <1>2, DistType DEF Pending, Released, RingInv, Compaction, Room, Available
<1>4. done <=> discard = current
  BY <1>2 DEF CompactEnd, Succ, Slot
<1>5. ~ready[first]
  <2>1. Dist(first, first) = 0
    BY <1>2, DistType
  <2>. QED BY <2>1, <1>1, <1>2, <1>3 DEF ReadyBds, RingInv
<1>6. Released' = Released
  BY <1>1, <1>2, <1>5 DEF Released, Dist
<1>7. \A i \in Slot : Dist(first, i)' = Dist(first, i)
  BY <1>1 DEF Dist
<1>8. Pending' = IF done THEN 0 ELSE Pending
  BY <1>1, <1>2, DistType DEF Pending, Dist
<1>9. ~done => Dist(first, discard)' = Dist(first, discard) + 1
  <2>1. Dist(first, discard)' = Dist(first, Succ(discard))
    BY <1>1 DEF Dist
  <2>2. ~done => Dist(first, discard) # Pending
    BY <1>2, <1>4, DistInj DEF Pending
  <2>3. Dist(first, discard) \in Nat
    BY <1>2, DistType
  <2>. QED BY <2>1, <2>2, <2>3, <1>2, <1>3, DistSucc
<1>10. ReadyBds'
  <2>1. ASSUME NEW i \in Slot
        PROVE  ready'[i] <=> \/ Dist(first, i) >= N - Released
                             \/ /\ ~done /\ 0 < Dist(first, i) /\ Dist(first, i) < Pending
                                /\ Dist(first, i) >= Dist(first, discard) + 1
    <3>1. ready[i] <=> \/ Dist(first, i) >= N - Released
                       \/ /\ 0 < Dist(first, i) /\ Dist(first, i) < Pending
                          /\ Dist(first, i) >= Dist(first, discard)
      BY <1>1 DEF ReadyBds, RingInv
    <3>2. ready'[i] <=> i # discard /\ ready[i]
      BY <1>1, <1>2
    <3>3. Dist(first, i) \in 0..(N - 1) /\ Dist(first, discard) \in 0..(N - 1)
      BY <1>2, DistType
    <3>4. Dist(first, i) = Dist(first, discard) => i = discard
      BY <1>2, DistInj
    <3>5. done => Dist(first, discard) = Pending
      BY <1>4 DEF Pending
    <3>. QED BY <3>1, <3>2, <3>3, <3>4, <3>5, <1>3
  <2>2. ASSUME NEW i \in Slot PROVE Dist(first, i) \in Int
    BY <1>2, DistType
  <2>3. CASE done
    <3>1. Pending' = 0 /\ pc' = "fill"
      BY <2>3, <1>1, <1>8
    <3>. QED BY <2>1, <2>2, <2>3, <3>1, <1>1, <1>6, <1>7 DEF ReadyBds
  <2>4. CASE ~done
    <3>1. Pending' = Pending /\ pc' = "compact" /\ Dist(first, discard)' = Dist(first, discard) + 1
      BY <2>4, <1>1, <1>8, <1>9
    <3>. QED BY <2>1, <2>2, <2>4, <3>1, <1>1, <1>6, <1>7 DEF ReadyBds
  <2>. QED BY <2>3, <2>4
<1>11. Room'
  BY <1>1, <1>3, <1>6, <1>8 DEF Room
<1>12. Available'
  BY <1>1, <1>2, <1>3, <1>8, FragMaxType DEF Available, RoomForFirst
<1>13. FrameEnds'
  <2>1. Released > 0 => discard # (IF first = 0 THEN N - 1 ELSE first - 1)
    <3>1. Dist(first, IF first = 0 THEN N - 1 ELSE first - 1) = N - 1
      BY <1>2 DEF Dist, Slot
    <3>. QED BY <3>1, <1>3
  <2>2. (IF first = 0 THEN N - 1 ELSE first - 1) \in Slot
    BY <1>2 DEF Slot
  <2>. QED BY <2>1, <2>2, <1>1, <1>2, <1>6 DEF FrameEnds, RingInv
<1>14. WrapKept'
  BY <1>1, <1>2 DEF WrapKept, RingInv
<1>15. Compaction'
  <2>1. ~done => Dist(first, discard) # Pending
    BY <1>2, <1>4, DistInj DEF Pending
  <2>. QED BY <2>1, <1>1, <1>3, <1>8, <1>9, <1>2, DistType DEF Compaction
<1>. QED BY <1>6, <1>10, <1>11, <1>12, <1>13, <1>14, <1>15
(* A BD that does not end the frame joins the frame in the making. *)
LEMMA RingAppend ==
  ASSUME RoomForFirst, RingInv, Status, ~call.last
  PROVE  /\ ReadyBds' /\ Room' /\ Available'
         /\ FrameEnds' /\ WrapKept' /\ Compaction'
         /\ Released' = Released /\ Pending' = Pending + 1 /\ Pending < N - 1
<1>1. /\ ready' = [ready EXCEPT ![current] = (current # first)]
      /\ last' = [last EXCEPT ![current] = FALSE]
      /\ wrap' = [wrap EXCEPT ![current] = call.wrap \/ current = N - 1]
      /\ wire' = wire /\ hw' = hw /\ first' = first
      /\ current' = Succ(current)
      /\ avail' = avail - 1
      /\ pc = "status" /\ pc' = "wait"
  BY DEF Status, Advance, BdReady, BdWrap, RingInv, ControlOK
<1>2. /\ first \in Slot /\ current \in Slot /\ hw \in Slot
      /\ ready \in [Slot -> BOOLEAN] /\ last \in [Slot -> BOOLEAN]
      /\ wrap \in [Slot -> BOOLEAN]
      /\ call.wrap \in BOOLEAN
      /\ avail \in Int
  BY DEF RingInv, ControlOK
<1>3. /\ Pending \in 0..(N - 1) /\ Released \in 0..N
      /\ Pending + Released < N
      /\ Pending < N - 1
      /\ avail + Pending <= FragMax
  BY <1>1, <1>2, DistType, FragMaxType
     DEF Pending, Released, RingInv, Room, Available, RoomForFirst
<1>4. ~ready[first]
  <2>1. Dist(first, first) = 0
    BY <1>2, DistType
  <2>. QED BY <2>1, <1>1, <1>2, <1>3 DEF ReadyBds, RingInv
<1>5. Released' = Released
  <2>1. first = hw => ready'[hw] = ready[hw]
    BY <1>1, <1>2, <1>4
  <2>. QED BY <2>1, <1>1 DEF Released, Dist
<1>6. \A i \in Slot : Dist(first, i)' = Dist(first, i)
  BY <1>1 DEF Dist
<1>7. Pending' = Pending + 1
  BY <1>1, <1>2, <1>3, DistSucc DEF Pending, Dist
<1>8. ReadyBds'
  <2>1. ASSUME NEW i \in Slot
        PROVE  ready'[i] <=> \/ Dist(first, i) >= N - Released
                             \/ 0 < Dist(first, i) /\ Dist(first, i) < Pending + 1
    <3>1. ready[i] <=> \/ Dist(first, i) >= N - Released
                       \/ 0 < Dist(first, i) /\ Dist(first, i) < Pending
      BY <1>1 DEF ReadyBds, RingInv
    <3>2. ready'[i] <=> IF i = current THEN current # first ELSE ready[i]
      BY <1>1, <1>2
    <3>3. Dist(first, i) \in 0..(N - 1) /\ (Dist(first, i) = 0 <=> i = first)
      BY <1>2, DistType
    <3>4. Dist(first, i) = Pending <=> i = current
      BY <1>2, DistInj DEF Pending
    <3>. QED BY <3>1, <3>2, <3>3, <3>4, <1>3
  <2>2. ASSUME NEW i \in Slot PROVE Dist(first, i) \in Int
    BY <1>2, DistType
  <2>. QED BY <2>1, <2>2, <1>1, <1>5, <1>6, <1>7 DEF ReadyBds
<1>9. Room'
  BY <1>1, <1>3, <1>5, <1>7 DEF Room
<1>10. Available'
  BY <1>1, <1>2, <1>3, <1>7, FragMaxType DEF Available
<1>11. FrameEnds'
  <2>1. Released > 0 => current # (IF first = 0 THEN N - 1 ELSE first - 1)
    <3>1. Dist(first, IF first = 0 THEN N - 1 ELSE first - 1) = N - 1
      BY <1>2 DEF Dist, Slot
    <3>. QED BY <3>1, <1>3 DEF Pending
  <2>2. (IF first = 0 THEN N - 1 ELSE first - 1) \in Slot
    BY <1>2 DEF Slot
  <2>. QED BY <2>1, <2>2, <1>1, <1>2, <1>5 DEF FrameEnds, RingInv
<1>12. WrapKept'
  BY <1>1, <1>2 DEF WrapKept, RingInv
<1>13. Compaction'
  BY <1>1 DEF Compaction
<1>. QED BY <1>3, <1>5, <1>7, <1>8, <1>9, <1>10, <1>11, <1>12, <1>13

(* The last BD of a longer frame is ready before the first one. *)
LEMMA RingHeldBack ==
  ASSUME RoomForFirst, RingInv, Status, call.last, current # first
  PROVE  /\ ReadyBds' /\ Room' /\ Available'
         /\ FrameEnds' /\ WrapKept' /\ Compaction'
         /\ Released' = Released /\ Pending' = Pending
<1>1. /\ ready' = [ready EXCEPT ![current] = TRUE]
      /\ last' = [last EXCEPT ![current] = TRUE]
      /\ wrap' = [wrap EXCEPT ![current] = call.wrap \/ current = N - 1]
      /\ wire' = wire /\ hw' = hw /\ first' = first
      /\ current' = current
      /\ avail' = avail /\ call' = call
      /\ pc = "status" /\ pc' = "release"
  BY DEF Status, BdReady, BdWrap, RingInv, ControlOK
<1>2. /\ first \in Slot /\ current \in Slot /\ hw \in Slot
      /\ ready \in [Slot -> BOOLEAN] /\ last \in [Slot -> BOOLEAN]
      /\ wrap \in [Slot -> BOOLEAN]
      /\ call.wrap \in BOOLEAN
  BY DEF RingInv, ControlOK
<1>3. /\ Pending \in 1..(N - 1) /\ Released \in 0..N
      /\ Pending + Released < N
  BY <1>1, <1>2, DistType DEF Pending, Released, RingInv, Room
<1>4. Released' = Released
  BY <1>1, <1>2 DEF Released, Dist
<1>5. Pending' = Pending /\ \A i \in Slot : Dist(first, i)' = Dist(first, i)
  BY <1>1 DEF Pending, Dist
<1>6. ReadyBds'
  <2>1. ASSUME NEW i \in Slot
        PROVE  ready'[i] <=> \/ Dist(first, i) >= N - Released
                             \/ 0 < Dist(first, i) /\ Dist(first, i) < Pending
                             \/ Dist(first, i) = Pending
    <3>1. ready[i] <=> \/ Dist(first, i) >= N - Released
                       \/ 0 < Dist(first, i) /\ Dist(first, i) < Pending
      BY <1>1 DEF ReadyBds, RingInv
    <3>2. ready'[i] <=> i = current \/ ready[i]
      BY <1>1, <1>2
    <3>3. Dist(first, i) = Pending <=> i = current
      BY <1>2, DistInj DEF Pending
    <3>. QED BY <3>1, <3>2, <3>3
  <2>. QED BY <2>1, <1>1, <1>4, <1>5 DEF ReadyBds
<1>7. Room' /\ Available' /\ Compaction'
  BY <1>1, <1>3, <1>4, <1>5 DEF Room, Available, Compaction, RingInv
<1>8. FrameEnds'
  <2>1. Released > 0 => current # (IF first = 0 THEN N - 1 ELSE first - 1)
    <3>1. Dist(first, IF first = 0 THEN N - 1 ELSE first - 1) = N - 1
      BY <1>2 DEF Dist, Slot
    <3>. QED BY <3>1, <1>3 DEF Pending
  <2>2. (IF first = 0 THEN N - 1 ELSE first - 1) \in Slot
    BY <1>2 DEF Slot
  <2>. QED BY <2>1, <2>2, <1>1, <1>2, <1>3, <1>4, <1>5 DEF FrameEnds, RingInv
<1>9. WrapKept'
  <2>1. ASSUME NEW i \in Slot PROVE wrap'[i] <=> i = N - 1
    BY <1>1, <1>2 DEF WrapKept, RingInv
  <2>. QED BY <2>1, <1>1 DEF WrapKept
<1>. QED BY <1>4, <1>5, <1>6, <1>7, <1>8, <1>9

(***************************************************************************)
(* The frame with its last BD at current is given to the controller: by    *)
(* Status if it has one BD only, otherwise by Release.                     *)
(***************************************************************************)
LEMMA RingRelease ==
  ASSUME RoomForFirst, RingInv, (Status /\ call.last /\ current = first) \/ Release
  PROVE  /\ ReadyBds' /\ Room' /\ Available'
         /\ FrameEnds' /\ WrapKept' /\ Compaction'
         /\ Released' = Released + Pending + 1
         /\ Pending + Released < N
<1>1. /\ ready' = [ready EXCEPT ![first] = TRUE]
      /\ \/ last' = [last EXCEPT ![current] = TRUE]
         \/ last' = last /\ last[current]
      /\ \/ /\ wrap' = [wrap EXCEPT ![current] = call.wrap \/ current = N - 1]
            /\ pc = "status"
         \/ wrap' = wrap
      /\ wire' = wire /\ hw' = hw
      /\ first' = Succ(current)
      /\ current' = Succ(current)
      /\ avail' = FragMax
      /\ \/ pc = "status" /\ current = first
         \/ pc = "release" /\ Pending > 0
      /\ pc' = "wait"
  BY DEF Status, Release, Advance, BdReady, BdWrap, RingInv, ControlOK, FrameEnds
<1>2. /\ first \in Slot /\ current \in Slot /\ hw \in Slot
      /\ first' \in Slot
      /\ ready \in [Slot -> BOOLEAN] /\ last \in [Slot -> BOOLEAN]
      /\ wrap \in [Slot -> BOOLEAN]
      /\ call.wrap \in BOOLEAN
  BY <1>1, SuccType DEF RingInv, ControlOK
<1>3. /\ Pending \in 0..(N - 1) /\ Released \in 0..N
      /\ Pending + Released < N
      /\ pc = "status" => Pending = 0
      /\ N > 1
  BY <1>1, <1>2, DistType, FragMaxType
     DEF Pending, Released, RingInv, Room, RoomForFirst
<1>4. ASSUME NEW i \in Slot
      PROVE  ready'[i] <=> \/ Dist(first, i) >= N - Released
                           \/ Dist(first, i) <= Pending
  <2>1. ready[i] <=> \/ Dist(first, i) >= N - Released
                     \/ 0 < Dist(first, i) /\ Dist(first, i) < Pending
                     \/ pc = "release" /\ Dist(first, i) = Pending
    BY <1>1 DEF ReadyBds, RingInv
  <2>2. ready'[i] <=> i = first \/ ready[i]
    BY <1>1, <1>2
  <2>3. Dist(first, i) \in 0..(N - 1) /\ (Dist(first, i) = 0 <=> i = first)
    BY <1>2, DistType
  <2>. QED BY <2>1, <2>2, <2>3, <1>1, <1>3
<1>5. Released' = Released + Pending + 1
  <2>1. CASE first = hw
    <3>1. Dist(first, first) = 0
      BY <1>2, DistType
    <3>2. Released = 0
      BY <3>1, <2>1, <1>1, <1>2, <1>3 DEF ReadyBds, RingInv, Released
    <3>3. ready'[hw]
      BY <2>1, <1>1, <1>2
    <3>. QED BY <2>1, <3>2, <3>3, <1>1, <1>2, <1>3, DistSucc, DistType
             DEF Released, Pending
  <2>2. CASE first # hw
    <3>1. Released = Dist(hw, first) /\ Dist(first, hw) = N - Released
      BY <2>2, <1>2, DistType DEF Released
    <3>2. ready'[hw]
      BY <3>1, <1>2, <1>3, <1>4
    <3>3. Dist(hw, first') = IF first' = hw THEN 0 ELSE Released + Pending + 1
      BY <2>2, <3>1, <1>1, <1>2, <1>3 DEF Pending, Dist, Succ, Slot
    <3>4. first' = hw => Released + Pending + 1 = N
      BY <2>2, <3>1, <1>1, <1>2, <1>3 DEF Pending, Dist, Succ, Slot
    <3>. QED BY <3>2, <3>3, <3>4, <1>1, <1>2 DEF Released, Dist
  <2>. QED BY <2>1, <2>2
<1>6. Pending' = 0
  BY <1>1, <1>2, DistType DEF Pending, Dist
<1>7. ReadyBds'
  <2>1. ASSUME NEW i \in Slot
        PROVE  ready'[i] <=> Dist(first', i) >= N - Released'
    <3>1. Dist(first', i) = IF Dist(first, i) > Pending
                            THEN Dist(first, i) - Pending - 1
                            ELSE Dist(first, i) - Pending - 1 + N
      BY <1>1, <1>2, DistMove DEF Pending
    <3>2. Dist(first, i) \in 0..(N - 1)
      BY <1>2, DistType
    <3>. QED BY <3>1, <3>2, <1>3, <1>4, <1>5
  <2>2. ASSUME NEW i \in Slot PROVE Dist(first', i) \in Nat
    BY <1>2, DistType
  <2>3. \A i \in Slot : Dist(first, i)' = Dist(first', i)
    BY DEF Dist
  <2>. QED BY <2>1, <2>2, <2>3, <1>1, <1>6 DEF ReadyBds
<1>8. Room'
  BY <1>1, <1>3, <1>5, <1>6 DEF Room
<1>9. Available'
  BY <1>1, <1>6, FragMaxType DEF Available
<1>10. FrameEnds'
  <2>1. (IF first' = 0 THEN N - 1 ELSE first' - 1) = current
    BY <1>1, <1>2 DEF Succ, Slot
  <2>2. last'[current]
    BY <1>1, <1>2
  <2>. QED BY <2>1, <2>2, <1>1, <1>3, <1>5 DEF FrameEnds
<1>11. WrapKept'
  <2>1. pc' = "wait"
    BY <1>1
  <2>2. ASSUME NEW i \in Slot PROVE wrap'[i] <=> i = N - 1
    <3>1. wrap[i] <=> i = N - 1
      BY DEF WrapKept, RingInv
    <3>2. CASE wrap' = wrap
      BY <3>1, <3>2
    <3>3. CASE wrap' = [wrap EXCEPT ![current] = call.wrap \/ current = N - 1]
      BY <3>1, <3>3, <1>1, <1>2 DEF WrapKept, RingInv
    <3>. QED BY <3>2, <3>3, <1>1
  <2>. QED BY <2>1, <2>2 DEF WrapKept
<1>12. Compaction'
  BY <1>1 DEF Compaction
<1>. QED BY <1>3, <1>5, <1>7, <1>8, <1>9, <1>10, <1>11, <1>12
(* The controller closes a BD. *)
LEMMA RingClose ==
  ASSUME RoomForFirst, RingInv, Close
  PROVE  /\ ReadyBds' /\ Room' /\ Available'
         /\ FrameEnds' /\ WrapKept' /\ Compaction'
         /\ Released \in 1..N /\ Released' = Released - 1 /\ Pending' = Pending
         /\ Dist(first, hw) = IF Released = N THEN 0 ELSE N - Released
<1>1. /\ ready[hw]
      /\ ready' = [ready EXCEPT ![hw] = FALSE]
      /\ hw' = Succ(hw)
      /\ last[hw] => wire' = <<>>
      /\ last' = last /\ wrap' = wrap
      /\ first' = first /\ current' = current /\ avail' = avail
      /\ call' = call /\ discard' = discard /\ pc' = pc
  BY DEF Close, caller, Succ, RingInv, WrapKept
<1>2. /\ first \in Slot /\ current \in Slot /\ hw \in Slot /\ hw' \in Slot
      /\ ready \in [Slot -> BOOLEAN]
      /\ discard \in Slot
      /\ N > 1
  BY <1>1, SuccType, FragMaxType DEF RingInv, ControlOK, RoomForFirst
<1>3. /\ Released \in 1..N
      /\ Pending \in 0..(N - 1)
      /\ Pending + Released <= N
      /\ Dist(first, hw) = IF Released = N THEN 0 ELSE N - Released
  <2>1. Pending \in 0..(N - 1) /\ Pending + Released <= N
    BY <1>2, DistType DEF Pending, RingInv, Room
  <2>2. Released \in 1..N /\ Dist(first, hw) = IF Released = N THEN 0 ELSE N - Released
    <3>1. CASE first = hw
      BY <3>1, <1>1, <1>2, DistType DEF Released
    <3>2. CASE first # hw
      <4>1. Dist(hw, first) \in 1..(N - 1) /\ Dist(first, hw) = N - Dist(hw, first)
        BY <3>2, <1>2, DistType
      <4>. QED BY <3>2, <4>1, <1>2 DEF Released
    <3>. QED BY <3>1, <3>2
  <2>. QED BY <2>1, <2>2
<1>4. \A i \in Slot : Dist(first, i)' = Dist(first, i)
  BY <1>1 DEF Dist
<1>5. Pending' = Pending
  BY <1>1 DEF Pending, Dist
<1>6. Released' = Released - 1
  <2>1. CASE first = hw
    <3>1. Released = N
      BY <2>1, <1>1 DEF Released
    <3>2. Dist(Succ(hw), first) = N - 1
      BY <2>1, <1>2, DistSucc
    <3>. QED BY <3>1, <3>2, <1>1, <1>2, DistType DEF Released, Dist
  <2>2. CASE first # hw
    <3>1. Released = Dist(hw, first) /\ Dist(Succ(hw), first) = Released - 1
      BY <2>2, <1>2, DistSucc DEF Released
    <3>2. first = Succ(hw) => ~ready'[first]
      <4>1. ASSUME first = Succ(hw) PROVE ~ready[first]
        <5>1. Released = 1
          BY <4>1, <3>1, <1>2, <1>3, DistType
        <5>2. Dist(first, first) = 0
          BY <1>2, DistType
        <5>3. ~(pc = "release" /\ Pending = 0)
          BY DEF RingInv, FrameEnds
        <5>. QED BY <5>1, <5>2, <5>3, <1>2 DEF ReadyBds, RingInv
      <4>. QED BY <4>1, <2>2, <1>1, <1>2
    <3>3. Released' = IF first = Succ(hw) THEN IF ready'[Succ(hw)] THEN N ELSE 0
                                           ELSE Dist(Succ(hw), first)
      BY <1>1 DEF Released, Dist
    <3>4. first = Succ(hw) => Dist(Succ(hw), first) = 0
      BY <1>2, DistType
    <3>. QED BY <3>1, <3>2, <3>3, <3>4
  <2>. QED BY <2>1, <2>2
<1>7. ReadyBds'
  <2>1. ASSUME NEW i \in Slot
        PROVE  ready'[i] <=>
                 LET d == Dist(first, i)
                 IN  \/ d >= N - (Released - 1)
                     \/ /\ 0 < d /\ d < Pending
                        /\ pc = "compact" => d >= Dist(first, discard)
                     \/ pc = "release" /\ d = Pending
    <3>1. ready'[i] <=> i # hw /\ ready[i]
      BY <1>1, <1>2
    <3>2. Dist(first, i) \in 0..(N - 1) /\ Dist(first, hw) \in 0..(N - 1)
      BY <1>2, DistType
    <3>3. Dist(first, i) = Dist(first, hw) => i = hw
      BY <1>2, DistInj
    <3>4. ~(pc = "release" /\ Pending = 0) /\ (pc = "release" => Pending + Released < N)
      BY DEF RingInv, FrameEnds, Room
    <3>. QED BY <3>1, <3>2, <3>3, <3>4, <1>3 DEF ReadyBds, RingInv
  <2>2. Dist(first, discard)' = Dist(first, discard)
    BY <1>1 DEF Dist
  <2>. QED BY <2>1, <2>2, <1>1, <1>4, <1>5, <1>6 DEF ReadyBds
<1>8. Room'
  BY <1>1, <1>3, <1>5, <1>6 DEF Room, RingInv
<1>9. Available'
  BY <1>1, <1>5 DEF Available, RingInv
<1>10. FrameEnds'
  <2>1. Released = 1 => last[hw]
    <3>1. Released = 1 => hw = IF first = 0 THEN N - 1 ELSE first - 1
      BY <1>2, <1>3 DEF Dist, Slot
    <3>. QED BY <3>1, <1>3 DEF FrameEnds, RingInv
  <2>2. Released' > 0 => last'[IF first = 0 THEN N - 1 ELSE first - 1]
    BY <1>1, <1>3, <1>6 DEF FrameEnds, RingInv
  <2>3. wire' # <<>> => Released' > 0
    BY <2>1, <1>1, <1>3, <1>6
  <2>. QED BY <2>2, <2>3, <1>1, <1>5 DEF FrameEnds, RingInv
<1>11. WrapKept'
  BY <1>1 DEF WrapKept, RingInv
<1>12. Compaction'
  BY <1>1, <1>5 DEF Compaction, RingInv, Dist
<1>. QED BY <1>3, <1>5, <1>6, <1>7, <1>8, <1>9, <1>10, <1>11, <1>12
LEMMA RingStutter ==
  ASSUME RingInv, UNCHANGED vars PROVE RingInv'
  BY DEF vars, ring, caller, RingInv, ControlOK, ReadyBds, Room, Available, FrameEnds,
         WrapKept, Compaction, Released, Pending, Dist

LEMMA RingStep ==
  ASSUME RoomForFirst, RingInv, [Next]_vars PROVE RingInv'
<1>1. ControlOK'
  BY ControlStep DEF RingInv
<1>2. ASSUME NEW m \in Mbuf, NEW l \in BOOLEAN, Submit(m, l) PROVE RingInv'
  BY <1>1, <1>2, RingSubmit DEF RingInv
<1>3. ASSUME NEW c \in Mbuf, Compact(c) PROVE RingInv'
  BY <1>1, <1>3, RingCompact DEF RingInv
<1>4. CASE Fill \/ WaitAndFree
  BY <1>1, <1>4, RingFill DEF RingInv
<1>5. CASE Status
  <2>1. CASE ~call.last
    BY <1>1, <1>5, <2>1, RingAppend DEF RingInv
  <2>2. CASE call.last /\ current = first
    BY <1>1, <1>5, <2>2, RingRelease DEF RingInv
  <2>3. CASE call.last /\ current # first
    BY <1>1, <1>5, <2>3, RingHeldBack DEF RingInv
  <2>. QED BY <2>1, <2>2, <2>3
<1>6. CASE Release
  BY <1>1, <1>6, RingRelease DEF RingInv
<1>7. CASE Close
  BY <1>1, <1>7, RingClose DEF RingInv
<1>8. CASE UNCHANGED vars
  BY <1>8, RingStutter
<1>. QED BY <1>2, <1>3, <1>4, <1>5, <1>6, <1>7, <1>8 DEF Next, Working

(***************************************************************************)
(* The ring invariant holds for every ring that leaves the first BD of a   *)
(* frame alone, as the default of quicc_bd_tx_init does: any number of BDs *)
(* from two on, any number of mbufs, frames of any length.                 *)
(***************************************************************************)
THEOREM RingAlways == RoomForFirst => (Spec => []RingInv)
<1>. SUFFICES ASSUME RoomForFirst PROVE Spec => []RingInv
  OBVIOUS
<1>1. Init => RingInv
  BY RingInit
<1>2. RingInv /\ [Next]_vars => RingInv'
  BY RingStep
<1>. QED BY <1>1, <1>2, PTL DEF Spec

LEMMA RingGivesWhole == ASSUME RoomForFirst, RingInv PROVE WholeFrames
<1>. SUFFICES ASSUME ready[hw] \/ wire # <<>>
              PROVE  \E k \in 0..(N - 1) :
                        /\ last[Plus(hw, k)]
                        /\ \A j \in 0..k : ready[Plus(hw, j)]
  BY DEF WholeFrames
<1>1. /\ first \in Slot /\ hw \in Slot /\ N > 1
  BY FragMaxType DEF RingInv, ControlOK, RoomForFirst
<1>2. Released \in 1..N
  BY <1>1, DistType DEF Released, RingInv, FrameEnds
<1>3. Plus(hw, Released - 1) = IF first = 0 THEN N - 1 ELSE first - 1
  BY <1>1, <1>2 DEF Released, Plus, Dist, Slot
<1>4. last[Plus(hw, Released - 1)]
  BY <1>2, <1>3 DEF RingInv, FrameEnds
<1>5. ASSUME NEW j \in 0..(Released - 1) PROVE ready[Plus(hw, j)]
  <2>1. Plus(hw, j) \in Slot /\ Dist(first, Plus(hw, j)) >= N - Released
    BY <1>1, <1>2 DEF Released, Plus, Dist, Slot
  <2>. QED BY <2>1 DEF RingInv, ReadyBds
<1>. QED BY <1>2, <1>4, <1>5

(***************************************************************************)
(* The controller sees whole frames only; it never runs dry within one.    *)
(***************************************************************************)
THEOREM WholeFramesAlways == RoomForFirst => (Spec => []WholeFrames)
<1>. SUFFICES ASSUME RoomForFirst PROVE Spec => []WholeFrames
  OBVIOUS
<1>1. RingInv => WholeFrames
  BY RingGivesWhole
<1>. QED BY <1>1, RingAlways, PTL

LEMMA RingGivesProgress == ASSUME RoomForFirst, RingInv PROVE NoWaitCycle
<1>. SUFFICES ASSUME pc = "wait", ready[current] PROVE ready[hw]
  BY DEF NoWaitCycle
<1>1. /\ first \in Slot /\ hw \in Slot /\ current \in Slot /\ N > 1
  BY FragMaxType DEF RingInv, ControlOK, RoomForFirst
<1>2. Pending \in 0..(N - 1) /\ Released \in 0..N
  BY <1>1, DistType DEF Released, Pending
<1>3. Pending >= N - Released
  BY <1>1, <1>2 DEF RingInv, ReadyBds, Pending
<1>4. Released > 0
  BY <1>2, <1>3
<1>5. Dist(first, hw) >= N - Released
  BY <1>1, <1>2, <1>4, DistType DEF Released
<1>. QED BY <1>1, <1>5 DEF RingInv, ReadyBds

(* A waiting caller waits for something the controller is about to do. *)
THEOREM NoWaitCycleAlways == RoomForFirst => (Spec => []NoWaitCycle)
<1>. SUFFICES ASSUME RoomForFirst PROVE Spec => []NoWaitCycle
  OBVIOUS
<1>1. RingInv => NoWaitCycle
  BY RingGivesProgress
<1>. QED BY <1>1, RingAlways, PTL
-----------------------------------------------------------------------------
(***************************************************************************)
(* The ownership of the mbufs, one lemma per action.                       *)
(***************************************************************************)
LEMMA MbufInit == ASSUME Init PROVE MbufInv
<1>1. Holders = {} /\ InHand = None /\ live = {}
  BY DEF Init, Holders, InHand, Stale
<1>2. MbufsOwnedOnce
  BY <1>1 DEF MbufsOwnedOnce, Init
<1>3. first = current /\ first \in Slot
  BY DEF Init, Slot
<1>4. OpenFrameKept
  <2>1. \A i \in Slot : Dist(first, i) \in Nat /\ Dist(first, current) = 0
    BY <1>3, DistType
  <2>. QED BY <2>1 DEF OpenFrameKept
<1>5. CallInv
  BY DEF Init, CallInv
<1>. QED BY <1>2, <1>4, <1>5 DEF MbufInv

LEMMA MbufSubmit ==
  ASSUME RingInv, MbufInv, NEW m \in Mbuf, NEW l \in BOOLEAN, Submit(m, l)
  PROVE  MbufInv'
<1>1. /\ ready' = ready /\ buf' = buf
      /\ first' = first /\ current' = current
      /\ pc = "idle"
      /\ m \notin live
      /\ live' = live \union {m}
      /\ arg \in [Slot -> Mbuf \union {None}]
      /\ first \in Slot /\ current \in Slot
  BY DEF Submit, ring, RingInv, ControlOK
<1>2. /\ live = {arg[i] : i \in Holders}
      /\ \A i, j \in Holders : arg[i] = arg[j] => i = j
      /\ \A i \in Slot : ready[i] => i \in Holders /\ buf[i] = arg[i]
      /\ Holders = {i \in Slot \ {current} : arg[i] # None}
  BY <1>1 DEF MbufInv, MbufsOwnedOnce, Holders, Stale, InHand
<1>3. \A i \in Slot : Dist(first, i) < Dist(first, current) =>
                          i \in Holders /\ buf[i] = arg[i]
  BY <1>1 DEF MbufInv, OpenFrameKept
<1>4. \A i \in Slot : Dist(first, i)' = Dist(first, i) /\ Dist(first, i) \in Nat
  BY <1>1, DistType DEF Dist
<1>5. CASE avail > 0
  <2>1. /\ arg' = arg /\ pc' = "fill" /\ call'.arg = m /\ call'.buf = m
    BY <1>5 DEF Submit, RingInv, ControlOK
  <2>2. Holders' = Holders /\ InHand' = m /\ m # None
    BY <2>1, <1>1, <1>2 DEF Holders, Stale, InHand
  <2>3. MbufsOwnedOnce'
    BY <2>1, <2>2, <1>1, <1>2 DEF MbufsOwnedOnce
  <2>4. OpenFrameKept'
    BY <2>1, <2>2, <1>1, <1>3, <1>4 DEF OpenFrameKept
  <2>5. CallInv'
    BY <2>1 DEF CallInv
  <2>. QED BY <2>3, <2>4, <2>5 DEF MbufInv
<1>6. CASE avail <= 0
  <2>1. /\ arg' = [arg EXCEPT ![current] = m] /\ pc' = "compact"
        /\ call'.arg = None /\ discard' = first
    BY <1>6 DEF Submit, RingInv, ControlOK
  <2>2. Holders' = Holders \union {current} /\ InHand' = None /\ m # None
    BY <2>1, <1>1, <1>2 DEF Holders, Stale, InHand
  <2>3. /\ current \notin Holders
        /\ arg'[current] = m
        /\ \A i \in Holders : arg'[i] = arg[i] /\ i \in Slot
    BY <2>1, <1>1, <1>2
  <2>4. MbufsOwnedOnce'
    <3>1. live' = {arg'[i] : i \in Holders'}
      BY <2>2, <2>3, <1>1, <1>2
    <3>2. \A i, j \in Holders' : arg'[i] = arg'[j] => i = j
      BY <2>2, <2>3, <1>1, <1>2
    <3>3. \A i \in Holders' : arg'[i] # None
      BY DEF Holders
    <3>4. \A i \in Slot : ready'[i] => i \in Holders' /\ buf'[i] = arg'[i]
      BY <2>2, <2>3, <1>1, <1>2
    <3>. QED BY <3>1, <3>2, <3>3, <3>4, <2>2 DEF MbufsOwnedOnce
  <2>5. OpenFrameKept'
    BY <2>2, <2>3, <1>1, <1>3, <1>4 DEF OpenFrameKept
  <2>6. CallInv'
    <3>1. Dist(first, discard)' = 0
      BY <2>1, <1>1, DistType
    <3>. QED BY <3>1, <2>1, <2>2, <2>3, <1>1, <1>4 DEF CallInv
  <2>. QED BY <2>4, <2>5, <2>6 DEF MbufInv
<1>7. avail \in Int
  BY DEF RingInv, ControlOK
<1>. QED BY <1>5, <1>6, <1>7
LEMMA MbufCompact ==
  ASSUME RoomForFirst, RingInv, MbufInv, NEW c \in Mbuf, Compact(c)
  PROVE  MbufInv'
<1> DEFINE done == Succ(discard) = CompactEnd
           old  == arg[discard]
<1>1. /\ arg' = [arg EXCEPT ![discard] = None]
      /\ ready' = [ready EXCEPT ![discard] = FALSE]
      /\ buf' = buf /\ first' = first
      /\ live' = (live \union {c}) \ {old}
      /\ IF call.arg = None THEN c \in Mbuf \ live ELSE c = call.arg
      /\ call'.arg = c /\ call'.buf = c
      /\ discard' = Succ(discard)
      /\ pc = "compact"
      /\ pc' = IF done THEN "fill" ELSE "compact"
      /\ current' = IF done THEN first ELSE current
  BY DEF Compact, CompactedTo, BdCompact
<1>2. /\ first \in Slot /\ current \in Slot /\ discard \in Slot
      /\ arg \in [Slot -> Mbuf \union {None}]
      /\ ready \in [Slot -> BOOLEAN]
      /\ Pending > 0 /\ Dist(first, discard) <= Pending
  BY <1>1 DEF RingInv, ControlOK, Compaction
<1>3. Holders = {i \in Slot : arg[i] # None} /\ InHand = call.arg
  BY <1>1 DEF Holders, Stale, InHand
<1>4. /\ live = {arg[i] : i \in Holders} \union ({call.arg} \ {None})
      /\ \A i, j \in Holders : arg[i] = arg[j] => i = j
      /\ \A i \in Holders : arg[i] # call.arg
      /\ \A i \in Slot : ready[i] => i \in Holders /\ buf[i] = arg[i]
      /\ current \in Holders
      /\ \A i \in Holders : Dist(first, i) >= Dist(first, discard)
  BY <1>1, <1>3 DEF MbufInv, MbufsOwnedOnce, CallInv
<1>5. \A i \in Slot :
          /\ Dist(first, i) < Pending
          /\ Dist(first, i) >= Dist(first, discard)
          => i \in Holders /\ buf[i] = arg[i]
  BY <1>1 DEF MbufInv, OpenFrameKept, Pending
<1>6. \A i, j \in Slot : /\ Dist(first, i) \in 0..(N - 1)
                         /\ Dist(first, i) = Dist(first, j) => i = j
                         /\ Dist(first, i)' = Dist(first, i)
  BY <1>1, <1>2, DistType, DistInj DEF Dist
<1>7. done <=> discard = current
  BY <1>2 DEF CompactEnd, Succ, Slot
<1>8. discard \in Holders
  BY <1>2, <1>4, <1>5, <1>6 DEF Pending
<1>9. old \in live /\ old # None /\ old # c
  BY <1>1, <1>3, <1>4, <1>8
<1>10. Holders' = Holders \ {discard} /\ InHand' = c
  <2>1. CASE done
    <3>1. Dist(first, first) = 0 /\ Dist(first, discard) = Pending
      BY <2>1, <1>2, <1>7, DistType DEF Pending
    <3>2. first \notin Holders
      <4>1. ~(Dist(first, first) >= Dist(first, discard))
        BY <3>1, <1>2, <1>6
      <4>. QED BY <4>1, <1>4
    <3>3. Holders' = {i \in Slot \ {first} : arg'[i] # None}
      BY <2>1, <1>1 DEF Holders, Stale
    <3>4. \A i \in Slot : arg'[i] # None <=> i # discard /\ i \in Holders
      BY <1>1, <1>2, <1>3
    <3>5. Holders' = Holders \ {discard}
      BY <3>2, <3>3, <3>4, <1>3
    <3>. QED BY <2>1, <3>5, <1>1 DEF InHand
  <2>2. CASE ~done
    BY <2>2, <1>1, <1>2, <1>3 DEF Holders, Stale, InHand
  <2>. QED BY <2>1, <2>2
<1>11. \A i \in Holders \ {discard} : arg'[i] = arg[i] /\ i \in Slot
  BY <1>1, <1>2, <1>3
<1>12. MbufsOwnedOnce'
  <2>1. c # None
    BY NoneAssumption
  <2>2. live' = {arg'[i] : i \in Holders'} \union ({c} \ {None})
    <3>1. live' = {arg[i] : i \in Holders \ {discard}} \union {c}
      BY <2>1, <1>1, <1>4, <1>8, <1>9
    <3>2. {arg'[i] : i \in Holders'} = {arg[i] : i \in Holders \ {discard}}
      BY <1>10, <1>11
    <3>. QED BY <3>1, <3>2, <2>1
  <2>3. \A i, j \in Holders' : arg'[i] = arg'[j] => i = j
    BY <1>4, <1>10, <1>11
  <2>4. \A i \in Holders' : arg'[i] # c
    BY <1>1, <1>3, <1>4, <1>10, <1>11
  <2>5. \A i \in Slot : ready'[i] => i \in Holders' /\ buf'[i] = arg'[i]
    BY <1>1, <1>2, <1>4, <1>10, <1>11
  <2>. QED BY <2>2, <2>3, <2>4, <2>5, <1>10 DEF MbufsOwnedOnce
<1>13. OpenFrameKept'
  <2>1. CASE done
    <3>1. Dist(first, current)' = 0
      BY <2>1, <1>1, <1>2, DistType
    <3>. QED BY <3>1, <1>6 DEF OpenFrameKept
  <2>2. CASE ~done
    <3>1. Dist(first, discard)' = Dist(first, discard) + 1
      <4>1. Dist(first, discard) # N - 1
        BY <2>2, <1>2, <1>6, <1>7 DEF Pending
      <4>. QED BY <4>1, <1>1, <1>2, DistSucc
    <3>2. Dist(first, current)' = Pending
      BY <2>2, <1>1 DEF Pending, Dist
    <3>3. ASSUME NEW i \in Slot, Dist(first, i) < Pending,
                 Dist(first, i) >= Dist(first, discard) + 1
          PROVE  i \in Holders' /\ buf'[i] = arg'[i]
      BY <3>3, <1>1, <1>2, <1>5, <1>6, <1>10, <1>11
    <3>. QED BY <2>2, <3>1, <3>2, <3>3, <1>1, <1>6 DEF OpenFrameKept
  <2>. QED BY <2>1, <2>2
<1>14. CallInv'
  <2>1. CASE done
    BY <2>1, <1>1 DEF CallInv
  <2>2. CASE ~done
    <3>1. Dist(first, discard)' = Dist(first, discard) + 1
      <4>1. Dist(first, discard) # N - 1
        BY <2>2, <1>2, <1>6, <1>7 DEF Pending
      <4>. QED BY <4>1, <1>1, <1>2, DistSucc
    <3>2. \A i \in Holders' : Dist(first, i) >= Dist(first, discard) + 1
      <4>1. \A i \in Holders' : i \in Slot /\ i # discard
        BY <1>10, <1>11
      <4>. QED BY <4>1, <1>2, <1>4, <1>6, <1>10
    <3>3. \A i \in Holders' : Dist(first, i)' = Dist(first, i)
      BY <1>6, <1>10, <1>11
    <3>. QED BY <2>2, <3>1, <3>2, <3>3, <1>1, <1>4, <1>7, <1>10 DEF CallInv
  <2>. QED BY <2>1, <2>2
<1>. QED BY <1>12, <1>13, <1>14 DEF MbufInv

LEMMA MbufFill ==
  ASSUME RingInv, MbufInv, Fill PROVE MbufInv'
<1>1. /\ buf' = [buf EXCEPT ![current] = call.buf]
      /\ ready' = ready /\ arg' = arg /\ live' = live /\ call' = call
      /\ first' = first /\ current' = current
      /\ pc = "fill" /\ pc' = "status"
      /\ buf \in [Slot -> Mbuf \union {None}]
      /\ first \in Slot /\ current \in Slot
  BY DEF Fill, RingInv, ControlOK
<1>2. Holders' = Holders /\ InHand' = InHand /\ current \notin Holders
  BY <1>1 DEF Holders, Stale, InHand
<1>3. \A i \in Slot : i # current => buf'[i] = buf[i]
  BY <1>1
<1>4. MbufsOwnedOnce'
  BY <1>1, <1>2, <1>3 DEF MbufInv, MbufsOwnedOnce
<1>5. OpenFrameKept'
  <2>1. \A i \in Slot : Dist(first, i)' = Dist(first, i)
    BY <1>1 DEF Dist
  <2>. QED BY <2>1, <1>1, <1>2, <1>3 DEF MbufInv, OpenFrameKept
<1>6. CallInv'
  BY <1>1 DEF MbufInv, CallInv
<1>. QED BY <1>4, <1>5, <1>6 DEF MbufInv
(* The mbuf of the call moves to the per_bd_arg of the BD at current. *)
LEMMA MbufStatus ==
  ASSUME RingInv, MbufInv, Status PROVE MbufInv'
<1>1. /\ arg' = [arg EXCEPT ![current] = call.arg]
      /\ ready' = [ready EXCEPT ![current] = BdReady]
      /\ buf' = buf /\ live' = live
      /\ pc = "status" /\ pc' \in {"release", "wait"}
      /\ \/ first' = first /\ current' = current
         \/ first' = first /\ current' = Succ(current)
         \/ first' = current'
      /\ first \in Slot /\ current \in Slot
      /\ first' \in Slot /\ current' \in Slot
      /\ arg \in [Slot -> Mbuf \union {None}]
      /\ ready \in [Slot -> BOOLEAN]
  <2>1. CASE call.last /\ current # first
    BY <2>1 DEF Status, RingInv, ControlOK
  <2>2. CASE ~(call.last /\ current # first)
    BY <2>2, SuccType DEF Status, Advance, RingInv, ControlOK
  <2>. QED BY <2>1, <2>2
<1>2. Holders = {i \in Slot \ {current} : arg[i] # None} /\ InHand = call.arg
  BY <1>1 DEF Holders, Stale, InHand
<1>3. /\ live = {arg[i] : i \in Holders} \union {call.arg}
      /\ \A i, j \in Holders : arg[i] = arg[j] => i = j
      /\ \A i \in Holders : arg[i] # call.arg
      /\ \A i \in Slot : ready[i] => i \in Holders /\ buf[i] = arg[i]
      /\ call.arg \in Mbuf /\ buf[current] = call.arg
  BY <1>1, <1>2 DEF MbufInv, MbufsOwnedOnce, CallInv
<1>4. Holders' = Holders \union {current} /\ InHand' = None
  <2>1. Holders' = {i \in Slot : arg'[i] # None}
    BY <1>1 DEF Holders, Stale
  <2>2. \A i \in Slot : arg'[i] # None <=> i = current \/ i \in Holders
    BY <1>1, <1>2, <1>3
  <2>3. Holders' = Holders \union {current}
    BY <2>1, <2>2, <1>1, <1>2
  <2>. QED BY <2>3, <1>1 DEF InHand
<1>5. /\ current \notin Holders
      /\ arg'[current] = call.arg
      /\ \A i \in Holders : arg'[i] = arg[i] /\ i \in Slot
  BY <1>1, <1>2
<1>6. MbufsOwnedOnce'
  <2>1. live' = {arg'[i] : i \in Holders'}
    BY <1>1, <1>3, <1>4, <1>5
  <2>2. \A i, j \in Holders' : arg'[i] = arg'[j] => i = j
    BY <1>3, <1>4, <1>5
  <2>3. \A i \in Holders' : arg'[i] # None
    BY DEF Holders
  <2>4. \A i \in Slot : ready'[i] => i \in Holders' /\ buf'[i] = arg'[i]
    BY <1>1, <1>3, <1>4, <1>5
  <2>. QED BY <2>1, <2>2, <2>3, <2>4, <1>4 DEF MbufsOwnedOnce
<1>7. OpenFrameKept'
  <2>1. \A i \in Slot : Dist(first, i) < Dist(first, current) =>
                            i \in Holders /\ buf[i] = arg[i]
    BY <1>1 DEF MbufInv, OpenFrameKept
  <2>2. CASE first' = first /\ current' = current
    <3>1. \A i \in Slot : /\ Dist(first, i)' = Dist(first, i)
                          /\ Dist(first, current)' = Dist(first, current)
      BY <2>2 DEF Dist
    <3>. QED BY <2>1, <3>1, <1>1, <1>4, <1>5 DEF OpenFrameKept
  <2>3. CASE first' = first /\ current' = Succ(current)
    <3>1. ASSUME NEW i \in Slot, Dist(first, i) < Dist(first, Succ(current))
          PROVE  Dist(first, i) < Dist(first, current) \/ i = current
      BY <3>1, <1>1 DEF Dist, Succ, Slot
    <3>2. \A i \in Slot : /\ Dist(first, i)' = Dist(first, i)
                          /\ Dist(first, current)' = Dist(first, Succ(current))
      BY <2>3 DEF Dist
    <3>. QED BY <2>1, <3>1, <3>2, <1>1, <1>3, <1>4, <1>5 DEF OpenFrameKept
  <2>4. CASE first' = current'
    <3>1. \A i \in Slot : Dist(first, i)' \in Nat /\ Dist(first, current)' = 0
      BY <2>4, <1>1, DistType
    <3>. QED BY <3>1 DEF OpenFrameKept
  <2>. QED BY <2>2, <2>3, <2>4, <1>1
<1>8. CallInv'
  BY <1>1 DEF CallInv
<1>. QED BY <1>6, <1>7, <1>8 DEF MbufInv

LEMMA MbufRelease ==
  ASSUME RingInv, MbufInv, Release PROVE MbufInv'
<1>1. /\ ready' = [ready EXCEPT ![first] = TRUE]
      /\ arg' = arg /\ buf' = buf /\ live' = live
      /\ pc = "release" /\ pc' = "wait"
      /\ first \in Slot /\ current \in Slot
      /\ ready \in [Slot -> BOOLEAN]
      /\ first' = current' /\ first' \in Slot
      /\ Pending > 0
  BY SuccType DEF Release, Advance, RingInv, ControlOK, FrameEnds
<1>2. Holders' = Holders /\ InHand' = InHand
  BY <1>1 DEF Holders, Stale, InHand
<1>3. first \in Holders /\ buf[first] = arg[first]
  <2>1. Dist(first, first) = 0
    BY <1>1, DistType
  <2>. QED BY <2>1, <1>1 DEF MbufInv, OpenFrameKept, Pending
<1>4. MbufsOwnedOnce'
  BY <1>1, <1>2, <1>3 DEF MbufInv, MbufsOwnedOnce
<1>5. OpenFrameKept'
  <2>1. \A i \in Slot : Dist(first, i)' \in Nat /\ Dist(first, current)' = 0
    BY <1>1, DistType
  <2>. QED BY <2>1 DEF OpenFrameKept
<1>6. CallInv'
  BY <1>1 DEF CallInv
<1>. QED BY <1>4, <1>5, <1>6 DEF MbufInv

LEMMA MbufWait ==
  ASSUME RingInv, MbufInv, WaitAndFree PROVE MbufInv'
<1>1. /\ ready' = ready /\ buf' = buf /\ arg' = arg /\ ~ready[current]
      /\ first' = first /\ current' = current
      /\ live' = live \ {arg[current]}
      /\ pc = "wait" /\ pc' = "idle"
      /\ first \in Slot /\ current \in Slot
      /\ live \subseteq Mbuf
  BY DEF WaitAndFree, ring, RingInv, ControlOK
<1>2. /\ Holders = {i \in Slot : arg[i] # None} /\ InHand = None
      /\ Holders' = Holders \ {current} /\ InHand' = None
  BY <1>1 DEF Holders, Stale, InHand
<1>3. /\ live = {arg[i] : i \in Holders}
      /\ \A i, j \in Holders : arg[i] = arg[j] => i = j
      /\ \A i \in Slot : ready[i] => i \in Holders /\ buf[i] = arg[i]
  BY <1>2 DEF MbufInv, MbufsOwnedOnce
<1>4. MbufsOwnedOnce'
  <2>1. live' = {arg[i] : i \in Holders \ {current}}
    <3>1. CASE current \in Holders
      BY <3>1, <1>1, <1>3
    <3>2. CASE current \notin Holders
      <4>1. arg[current] \notin live
        BY <3>2, <1>1, <1>2, NoneAssumption
      <4>. QED BY <3>2, <4>1, <1>1, <1>3
    <3>. QED BY <3>1, <3>2
  <2>. QED BY <2>1, <1>1, <1>2, <1>3 DEF MbufsOwnedOnce
<1>5. OpenFrameKept'
  <2>1. \A i \in Slot : Dist(first, i)' = Dist(first, i)
    BY <1>1 DEF Dist
  <2>2. \A i \in Slot : Dist(first, i) < Dist(first, current) => i # current
    BY <1>1, DistType
  <2>. QED BY <2>1, <2>2, <1>1, <1>2 DEF MbufInv, OpenFrameKept
<1>6. CallInv'
  BY <1>1 DEF CallInv
<1>. QED BY <1>4, <1>5, <1>6 DEF MbufInv

LEMMA MbufClose ==
  ASSUME RingInv, MbufInv, Close \/ UNCHANGED vars PROVE MbufInv'
<1>1. /\ \A i \in Slot : ready'[i] => ready[i]
      /\ buf' = buf /\ arg' = arg /\ live' = live
      /\ first' = first /\ current' = current
      /\ pc' = pc /\ call' = call /\ discard' = discard
  <2>1. CASE Close
    BY <2>1 DEF Close, caller, RingInv, ControlOK
  <2>2. CASE UNCHANGED vars
    BY <2>2 DEF vars, ring, caller
  <2>. QED BY <2>1, <2>2
<1>2. Holders' = Holders /\ InHand' = InHand
  BY <1>1 DEF Holders, Stale, InHand
<1>3. MbufsOwnedOnce'
  BY <1>1, <1>2 DEF MbufInv, MbufsOwnedOnce
<1>4. OpenFrameKept' /\ CallInv'
  BY <1>1, <1>2 DEF MbufInv, OpenFrameKept, CallInv, Dist, Pending
<1>. QED BY <1>3, <1>4 DEF MbufInv

LEMMA MbufStep ==
  ASSUME RoomForFirst, RingInv, MbufInv, [Next]_vars PROVE MbufInv'
<1>1. ASSUME NEW m \in Mbuf, NEW l \in BOOLEAN, Submit(m, l) PROVE MbufInv'
  BY <1>1, MbufSubmit
<1>2. ASSUME NEW c \in Mbuf, Compact(c) PROVE MbufInv'
  BY <1>2, MbufCompact
<1>. QED BY <1>1, <1>2, MbufFill, MbufStatus, MbufRelease, MbufWait, MbufClose
         DEF Next, Working

LEMMA MbufAlways == RoomForFirst => (Spec => []MbufInv)
<1>. SUFFICES ASSUME RoomForFirst PROVE Spec => []MbufInv
  OBVIOUS
<1>1. Init => RingInv /\ MbufInv
  BY RingInit, MbufInit
<1>2. RingInv /\ MbufInv /\ [Next]_vars => (RingInv /\ MbufInv)'
  BY RingStep, MbufStep
<1>. QED BY <1>1, <1>2, PTL DEF Spec

(***************************************************************************)
(* No mbuf is lost, freed twice, or freed while the controller may still   *)
(* read it.                                                                *)
(***************************************************************************)
THEOREM MbufsAlwaysOwnedOnce == RoomForFirst => (Spec => []MbufsOwnedOnce)
<1>. SUFFICES ASSUME RoomForFirst PROVE Spec => []MbufsOwnedOnce
  OBVIOUS
<1>1. MbufInv => MbufsOwnedOnce
  BY DEF MbufInv
<1>. QED BY <1>1, MbufAlways, PTL

(***************************************************************************)
(* The fragments of a frame that is still open keep their mbufs, which a   *)
(* compaction is going to read.                                            *)
(***************************************************************************)
THEOREM OpenFrameAlwaysKept == RoomForFirst => (Spec => []OpenFrameKept)
<1>. SUFFICES ASSUME RoomForFirst PROVE Spec => []OpenFrameKept
  OBVIOUS
<1>1. MbufInv => OpenFrameKept
  BY DEF MbufInv
<1>. QED BY <1>1, MbufAlways, PTL
-----------------------------------------------------------------------------
(* The type invariant: its data part needs that the pointers followed are  *)
(* not NULL, which is what the invariant on mbufs says.                    *)

LEMMA DataStep ==
  ASSUME RoomForFirst, RingInv, MbufInv, DataOK, [Next]_vars PROVE DataOK'
<1>1. /\ content \in [Mbuf -> Seq(Nat)] /\ wire \in Seq(Nat)
      /\ tag \in Nat /\ flen \in Nat
  BY DEF DataOK
<1>2. ASSUME NEW m \in Mbuf, NEW l \in BOOLEAN, Submit(m, l) PROVE DataOK'
  <2>1. /\ content' = [content EXCEPT ![m] = <<tag>>]
        /\ tag' = (tag + 1) % Tags /\ wire' = wire
        /\ flen' = IF l THEN 0 ELSE flen + 1
    BY <1>2 DEF Submit
  <2>2. tag' \in Nat /\ flen' \in Nat
    BY <1>1, <2>1, BoundAssumption
  <2>3. <<tag>> \in Seq(Nat)
    BY <1>1
  <2>4. content' \in [Mbuf -> Seq(Nat)]
    BY <1>1, <2>1, <2>3
  <2>. QED BY <1>1, <2>1, <2>2, <2>4 DEF DataOK
<1>3. ASSUME NEW c \in Mbuf, Compact(c) PROVE DataOK'
  <2>1. PICK old : old = arg[discard]
    OBVIOUS
  <2>2. old \in Mbuf
    <3>1. /\ pc = "compact" /\ discard \in Slot /\ first \in Slot /\ current \in Slot
          /\ Pending > 0 /\ Dist(first, discard) <= Pending
          /\ \A i \in Slot : i \in Holders => arg[i] \in Mbuf
      BY <1>3 DEF Compact, CompactedTo, BdCompact, RingInv, ControlOK, Compaction, Holders
    <3>2. CASE discard = current
      BY <3>1, <3>2, <2>1 DEF MbufInv, CallInv
    <3>3. CASE discard # current
      <4>1. Dist(first, discard) < Dist(first, current)
        BY <3>1, <3>3, DistInj, DistType DEF Pending
      <4>2. Dist(first, discard) >= Dist(first, discard)
        BY <3>1, DistType
      <4>3. discard \in Holders
        BY <3>1, <4>1, <4>2 DEF MbufInv, OpenFrameKept
      <4>. QED BY <3>1, <4>3, <2>1
    <3>. QED BY <3>2, <3>3
  <2>3. /\ content' = [content EXCEPT ![c] = @ \o content[old], ![old] = <<>>]
        /\ tag' = tag /\ flen' = flen /\ wire' = wire
    BY <1>3, <2>1 DEF Compact, CompactedTo, BdCompact
  <2>4. content[c] \o content[old] \in Seq(Nat) /\ <<>> \in Seq(Nat)
    BY <1>1, <2>2, ConcatProperties, EmptySeq
  <2>5. content' \in [Mbuf -> Seq(Nat)]
    BY <1>1, <2>3, <2>4
  <2>. QED BY <1>1, <2>3, <2>5 DEF DataOK
<1>4. ASSUME Fill \/ Status \/ Release PROVE DataOK'
  BY <1>1, <1>4 DEF Fill, Status, Release, DataOK
<1>5. ASSUME WaitAndFree PROVE DataOK'
  <2>1. /\ content' = [m \in Mbuf |-> IF m = arg[current] THEN <<>> ELSE content[m]]
        /\ tag' = tag /\ flen' = flen /\ wire' = wire
    BY <1>5 DEF WaitAndFree
  <2>2. \A m \in Mbuf : content'[m] \in Seq(Nat)
    BY <1>1, <2>1, EmptySeq
  <2>3. content' \in [Mbuf -> Seq(Nat)]
    BY <2>1, <2>2
  <2>. QED BY <1>1, <2>1, <2>3 DEF DataOK
<1>6. ASSUME Close PROVE DataOK'
  <2>1. /\ content' = content /\ tag' = tag /\ flen' = flen
        /\ wire' = IF last[hw] THEN <<>> ELSE wire \o content[buf[hw]]
    BY <1>6 DEF Close
  <2>2. buf[hw] \in Mbuf
    BY <1>6 DEF Close, MbufInv, MbufsOwnedOnce, Holders, RingInv, ControlOK
  <2>3. wire' \in Seq(Nat)
    BY <1>1, <2>1, <2>2, ConcatProperties, EmptySeq
  <2>. QED BY <1>1, <2>1, <2>3 DEF DataOK
<1>7. CASE UNCHANGED vars
  BY <1>1, <1>7 DEF vars, DataOK
<1>. QED BY <1>2, <1>3, <1>4, <1>5, <1>6, <1>7 DEF Next, Working

(***************************************************************************)
(* The type invariant; that hw stays in the ring means that the wrap bit   *)
(* is never lost, not even by a compaction.                                *)
(***************************************************************************)
THEOREM TypeAlwaysOK == RoomForFirst => (Spec => []TypeOK)
<1>. SUFFICES ASSUME RoomForFirst PROVE Spec => []TypeOK
  OBVIOUS
<1>1. Init => RingInv /\ MbufInv /\ DataOK
  <2>1. Init => DataOK
    BY EmptySeq DEF Init, DataOK
  <2>. QED BY <2>1, RingInit, MbufInit
<1>2. RingInv /\ MbufInv /\ DataOK /\ [Next]_vars => (RingInv /\ MbufInv /\ DataOK)'
  BY RingStep, MbufStep, DataStep
<1>3. RingInv /\ DataOK => TypeOK
  BY DEF RingInv, TypeOK
<1>. QED BY <1>1, <1>2, <1>3, PTL DEF Spec
-----------------------------------------------------------------------------
(***************************************************************************)
(* The ring implements the FIFO of frames.                                 *)
(***************************************************************************)
(***************************************************************************)
(* The BDs behind each other, counted back.                                *)
(***************************************************************************)
LEMMA BackType ==
  ASSUME NEW i \in Slot, NEW k \in 1..N
  PROVE  /\ Back(i, k) \in Slot
         /\ Dist(i, Back(i, k)) = N - k
  BY DEF Slot, Back, Plus, Dist

LEMMA BackDist ==
  ASSUME NEW a \in Slot, NEW b \in Slot, NEW k \in 1..Dist(a, b)
  PROVE  /\ k \in 1..N
         /\ Dist(a, Back(b, k)) = Dist(a, b) - k
  BY DEF Slot, Back, Plus, Dist

LEMMA BackSucc ==
  ASSUME NEW i \in Slot
  PROVE  /\ Back(Succ(i), 1) = i
         /\ \A k \in 1..(N - 1) : Back(Succ(i), k + 1) = Back(i, k)
  BY DEF Slot, Back, Plus, Succ

LEMMA BackMove ==
  ASSUME NEW a \in Slot, NEW b \in Slot, NEW k \in 1..(N - 1 - Dist(a, b))
  PROVE  Back(Succ(b), Dist(a, b) + 1 + k) = Back(a, k)
  BY DEF Slot, Back, Plus, Succ, Dist

-----------------------------------------------------------------------------
Fragment == 0..(Tags - 1)

(* The mbufs that are allocated are those that carry something. *)
Carry ==
    /\ tag \in Fragment
    /\ content \in [Mbuf -> Seq(Fragment)]
    /\ \A m \in Mbuf : m \in live <=> content[m] # <<>>

(* No BD of the frame in the making ends a frame. *)
NoneLast == \A i \in Slot : Dist(first, i) < Pending => ~last[i]

QueueInv == RingInv /\ MbufInv /\ Carry /\ NoneLast

(* The two new parts of the invariant. *)
LEMMA CarryInit == Init => Carry /\ NoneLast
<1> SUFFICES ASSUME Init PROVE Carry /\ NoneLast
  OBVIOUS
<1>1. Carry
  <2>1. tag \in Fragment
    BY DEF Init, Fragment
  <2>2. content = [m \in Mbuf |-> <<>>] /\ live = {}
    BY DEF Init
  <2> QED
    BY <2>1, <2>2, EmptySeq DEF Carry
<1>2. NoneLast
  BY DEF Init, NoneLast
<1> QED
  BY <1>1, <1>2

(* The mbuf a compaction takes the fragments from. *)
LEMMA OldHeld ==
  ASSUME RingInv, MbufInv, NEW c \in Mbuf, Compact(c)
  PROVE  /\ discard \in Slot /\ discard \in Holders
         /\ arg[discard] \in live /\ arg[discard] \in Mbuf /\ arg[discard] # c
<1>1. /\ pc = "compact" /\ discard \in Slot /\ first \in Slot /\ current \in Slot
      /\ Pending > 0 /\ Dist(first, discard) <= Pending
      /\ live \subseteq Mbuf
      /\ IF call.arg = None THEN c \in Mbuf \ live ELSE c = call.arg
  BY DEF Compact, BdCompact, RingInv, ControlOK, Compaction
<1>2. discard \in Holders
  <2>1. CASE discard = current
    BY <1>1, <2>1 DEF MbufInv, CallInv
  <2>2. CASE discard # current
    <3>1. Dist(first, discard) < Dist(first, current)
      BY <1>1, <2>2, DistInj, DistType DEF Pending
    <3>2. Dist(first, discard) >= Dist(first, discard)
      BY <1>1, DistType
    <3> QED
      BY <1>1, <3>1, <3>2 DEF MbufInv, OpenFrameKept
  <2> QED
    BY <2>1, <2>2
<1>3. arg[discard] \in live /\ arg[discard] # InHand
  BY <1>2 DEF MbufInv, MbufsOwnedOnce
<1>4. InHand = call.arg
  BY <1>1 DEF InHand
<1> QED
  BY <1>1, <1>2, <1>3, <1>4

LEMMA CarrySubmit ==
  ASSUME RingInv, Carry, NEW m \in Mbuf, NEW l \in BOOLEAN, Submit(m, l)
  PROVE  Carry'
<1>1. /\ content' = [content EXCEPT ![m] = <<tag>>]
      /\ tag' = (tag + 1) % Tags
      /\ live' = live \union {m}
  BY DEF Submit
<1>2. tag' \in Fragment /\ tag \in Fragment
  BY <1>1 DEF Carry, Fragment
<1>3. <<tag>> \in Seq(Fragment) /\ <<tag>> # <<>>
  BY <1>2
<1>4. content' \in [Mbuf -> Seq(Fragment)]
  BY <1>1, <1>3 DEF Carry
<1>5. ASSUME NEW k \in Mbuf PROVE k \in live' <=> content'[k] # <<>>
  BY <1>1, <1>3 DEF Carry
<1> QED
  BY <1>2, <1>4, <1>5 DEF Carry

LEMMA CarryCompact ==
  ASSUME RingInv, MbufInv, Carry, NEW c \in Mbuf, Compact(c)
  PROVE  Carry'
<1>1. PICK old : old = arg[discard]
  OBVIOUS
<1>2. old \in live /\ old \in Mbuf /\ old # c
  BY <1>1, OldHeld
<1>3. /\ content' = [content EXCEPT ![c] = @ \o content[old], ![old] = <<>>]
      /\ tag' = tag
      /\ live' = (live \union {c}) \ {old}
  BY <1>1 DEF Compact, BdCompact
<1>4. /\ content[c] \in Seq(Fragment) /\ content[old] \in Seq(Fragment)
      /\ content[old] # <<>>
  BY <1>2 DEF Carry
<1>5. content[c] \o content[old] \in Seq(Fragment) /\ content[c] \o content[old] # <<>>
  BY <1>4
<1>6. /\ content'[c] = content[c] \o content[old]
      /\ content'[old] = <<>>
      /\ \A m \in Mbuf \ {c, old} : content'[m] = content[m]
      /\ DOMAIN content' = Mbuf /\ content' = [m \in Mbuf |-> content'[m]]
  BY <1>2, <1>3 DEF Carry
<1>7. content' \in [Mbuf -> Seq(Fragment)]
  <2>1. ASSUME NEW m \in Mbuf PROVE content'[m] \in Seq(Fragment)
    <3>1. content[m] \in Seq(Fragment) /\ <<>> \in Seq(Fragment)
      BY EmptySeq DEF Carry
    <3> QED
      BY <3>1, <1>5, <1>6
  <2> QED
    BY <2>1, <1>6
<1>8. ASSUME NEW m \in Mbuf PROVE m \in live' <=> content'[m] # <<>>
  BY <1>2, <1>3, <1>5, <1>6 DEF Carry
<1> QED
  BY <1>3, <1>7, <1>8 DEF Carry

LEMMA CarryWait ==
  ASSUME Carry, WaitAndFree
  PROVE  Carry'
<1>1. /\ content' = [m \in Mbuf |-> IF m = arg[current] THEN <<>> ELSE content[m]]
      /\ tag' = tag
      /\ live' = live \ {arg[current]}
  BY DEF WaitAndFree
<1>2. content' \in [Mbuf -> Seq(Fragment)]
  BY <1>1, EmptySeq DEF Carry
<1>3. ASSUME NEW m \in Mbuf PROVE m \in live' <=> content'[m] # <<>>
  BY <1>1 DEF Carry
<1> QED
  BY <1>1, <1>2, <1>3 DEF Carry

LEMMA CarryStep ==
  ASSUME RingInv, MbufInv, Carry, [Next]_vars
  PROVE  Carry'
<1>1. ASSUME NEW m \in Mbuf, NEW l \in BOOLEAN, Submit(m, l) PROVE Carry'
  BY <1>1, CarrySubmit
<1>2. ASSUME NEW c \in Mbuf, Compact(c) PROVE Carry'
  BY <1>2, CarryCompact
<1>3. CASE WaitAndFree
  BY <1>3, CarryWait
<1>4. CASE Fill \/ Status \/ Release \/ Close \/ UNCHANGED vars
  <2>1. content' = content /\ tag' = tag /\ live' = live
    BY <1>4 DEF Fill, Status, Release, Close, vars
  <2> QED
    BY <2>1 DEF Carry
<1> QED
  BY <1>1, <1>2, <1>3, <1>4 DEF Next, Working

LEMMA NoneLastStep ==
  ASSUME RoomForFirst, RingInv, NoneLast, [Next]_vars
  PROVE  NoneLast'
<1>1. /\ first \in Slot /\ current \in Slot /\ discard \in Slot
      /\ last \in [Slot -> BOOLEAN]
      /\ Pending \in 0..(N - 1)
      /\ \A i \in Slot : Dist(first, i) \in 0..(N - 1)
  BY DistType DEF RingInv, ControlOK, Pending
<1>2. ASSUME first' = first, current' = current, \A i \in Slot : last'[i] => last[i]
      PROVE  NoneLast'
  BY <1>2 DEF NoneLast, Pending, Dist
<1>3. ASSUME first' = current' PROVE NoneLast'
  <2>1. current' \in Slot
    BY ControlStep DEF RingInv, ControlOK
  <2>2. Pending' = 0 /\ \A i \in Slot : Dist(first, i)' \in Nat
    BY <1>3, <2>1, DistType DEF Pending
  <2> QED
    BY <2>2 DEF NoneLast
<1>4. ASSUME NEW m \in Mbuf, NEW l \in BOOLEAN, Submit(m, l) PROVE NoneLast'
  BY <1>2, <1>4 DEF Submit, ring
<1>5. ASSUME NEW c \in Mbuf, Compact(c) PROVE NoneLast'
  <2>1. CASE current' = current
    BY <1>1, <1>2, <1>5, <2>1 DEF Compact
  <2>2. CASE current' # current
    BY <1>3, <1>5, <2>2 DEF Compact, CompactedTo
  <2> QED
    BY <2>1, <2>2
<1>6. CASE Status
  <2>1. CASE call.last /\ current # first
    <3>1. first' = first /\ current' = current /\ last' = [last EXCEPT ![current] = TRUE]
      BY <1>6, <2>1 DEF Status
    <3>2. Pending' = Pending /\ \A i \in Slot : Dist(first, i)' = Dist(first, i)
      BY <3>1 DEF Pending, Dist
    <3>3. ASSUME NEW i \in Slot, Dist(first, i) < Pending PROVE ~last'[i]
      <4>1. i # current
        BY <3>3, <1>1 DEF Pending
      <4> QED
        BY <3>1, <3>3, <4>1, <1>1 DEF NoneLast
    <3> QED
      BY <3>2, <3>3 DEF NoneLast
  <2>2. CASE call.last /\ current = first
    BY <1>3, <1>6, <2>2 DEF Status, Advance
  <2>3. CASE ~call.last
    <3>1. /\ first' = first /\ current' = Succ(current)
          /\ last' = [last EXCEPT ![current] = FALSE]
      BY <1>6, <2>3 DEF Status, Advance, RingInv, ControlOK
    <3>2. Pending < N - 1
      <4>1. avail \in Int /\ avail + Pending <= FragMax /\ (Pending > 0 => avail > 0)
        BY <1>6 DEF RingInv, ControlOK, Available, Status
      <4> QED
        BY <4>1, <1>1, FragMaxType DEF RoomForFirst
    <3>3. Pending' = Pending + 1 /\ \A i \in Slot : Dist(first, i)' = Dist(first, i)
      BY <3>1, <3>2, <1>1, DistSucc DEF Pending, Dist
    <3>4. ASSUME NEW i \in Slot, Dist(first, i) < Pending + 1 PROVE ~last'[i]
      <4>1. CASE i = current
        BY <3>1, <4>1, <1>1
      <4>2. CASE i # current
        <5>1. Dist(first, i) # Pending
          BY <4>2, <1>1, DistInj DEF Pending
        <5>2. Dist(first, i) < Pending
          BY <5>1, <3>4, <1>1
        <5> QED
          BY <5>2, <4>2, <3>1, <1>1 DEF NoneLast
      <4> QED
        BY <4>1, <4>2
    <3> QED
      BY <3>3, <3>4 DEF NoneLast
  <2> QED
    BY <2>1, <2>2, <2>3
<1>7. CASE Release
  BY <1>3, <1>7 DEF Release, Advance, RingInv, FrameEnds
<1>8. CASE Fill \/ WaitAndFree \/ Close \/ UNCHANGED vars
  BY <1>2, <1>8 DEF Fill, WaitAndFree, Close, vars, ring, caller
<1> QED
  BY <1>4, <1>5, <1>6, <1>7, <1>8 DEF Next, Working

(* The BDs from a to b, counted back from b. *)
LEMMA BackOpen ==
  ASSUME NEW a \in Slot, NEW b \in Slot, NEW k \in 1..(Dist(a, b) + 1)
  PROVE  /\ k \in 1..N /\ Back(Succ(b), k) \in Slot
         /\ Dist(a, Back(Succ(b), k)) = Dist(a, b) + 1 - k
  BY DEF Slot, Back, Plus, Succ, Dist

(* The types of the state, as the proofs about the FIFO use them. *)
LEMMA QueueType ==
  ASSUME QueueInv
  PROVE  /\ first \in Slot /\ current \in Slot /\ hw \in Slot /\ discard \in Slot
         /\ Pending \in 0..(N - 1) /\ Released \in 0..N
         /\ Pending + Released <= N
         /\ pc # "wait" => Pending + Released < N
         /\ last \in [Slot -> BOOLEAN] /\ ready \in [Slot -> BOOLEAN]
         /\ buf \in [Slot -> Mbuf \union {None}] /\ arg \in [Slot -> Mbuf \union {None}]
         /\ live \subseteq Mbuf
<1>1. first \in Slot /\ current \in Slot /\ hw \in Slot
  BY DEF QueueInv, RingInv, ControlOK
<1>2. Pending \in 0..(N - 1) /\ Released \in 0..N
  BY <1>1, DistType DEF Pending, Released
<1> QED
  BY <1>1, <1>2 DEF QueueInv, RingInv, ControlOK, Room

(* What a BD holds that has an mbuf to be freed. *)
LEMMA HolderCarries ==
  ASSUME QueueInv, NEW i \in Holders
  PROVE  /\ i \in Slot
         /\ arg[i] \in live /\ arg[i] \in Mbuf /\ arg[i] # None /\ arg[i] # InHand
         /\ content[arg[i]] \in Frame(Fragment)
         /\ \A j \in Holders : arg[j] = arg[i] => j = i
<1>1. i \in Slot /\ arg[i] \in live /\ arg[i] # InHand
      /\ \A j \in Holders : arg[j] = arg[i] => j = i
  BY DEF QueueInv, MbufInv, MbufsOwnedOnce, Holders
<1>2. arg[i] \in Mbuf
  BY <1>1, QueueType
<1>3. content[arg[i]] \in Seq(Fragment) /\ content[arg[i]] # <<>>
  BY <1>1, <1>2 DEF QueueInv, Carry
<1> QED
  BY <1>1, <1>2, <1>3, NoneAssumption DEF Frame

(* The BDs of the complete frames. *)
LEMMA ReleasedHeld ==
  ASSUME QueueInv, NEW k \in 1..Released
  PROVE  /\ k \in 1..N
         /\ Back(first, k) \in Holders /\ ready[Back(first, k)]
         /\ Dist(first, Back(first, k)) = N - k
         /\ buf[Back(first, k)] = arg[Back(first, k)]
<1>1. k \in 1..N /\ first \in Slot
  BY QueueType
<1>2. Back(first, k) \in Slot /\ Dist(first, Back(first, k)) = N - k
  BY <1>1, BackType
<1>3. N - k >= N - Released
  BY <1>1, QueueType
<1>4. ready[Back(first, k)]
  BY <1>2, <1>3 DEF QueueInv, RingInv, ReadyBds
<1> QED
  BY <1>1, <1>2, <1>4 DEF QueueInv, MbufInv, MbufsOwnedOnce

(* The BDs of the frame in the making before current. *)
LEMMA PendingHeld ==
  ASSUME QueueInv, pc # "compact", NEW k \in 1..Pending
  PROVE  /\ k \in 1..N
         /\ Back(current, k) \in Holders /\ Back(current, k) # current
         /\ Dist(first, Back(current, k)) = Pending - k
         /\ buf[Back(current, k)] = arg[Back(current, k)]
<1>1. first \in Slot /\ current \in Slot /\ Pending \in 0..(N - 1)
  BY QueueType
<1>2. k \in 1..N /\ Dist(first, Back(current, k)) = Pending - k
  BY <1>1, BackDist DEF Pending
<1>3. Back(current, k) \in Slot
  BY <1>1, <1>2, BackType
<1>4. Pending - k < Dist(first, current)
  BY <1>1, <1>2 DEF Pending
<1>5. Back(current, k) # current
  BY <1>1, <1>2, <1>4 DEF Pending
<1> QED
  BY <1>2, <1>3, <1>4, <1>5 DEF QueueInv, MbufInv, OpenFrameKept

(* A step that leaves what the released BDs hold alone. *)
LEMMA FramesKept ==
  ASSUME QueueInv, first' = first, Released' = Released,
         \A i \in Holders :
            ready[i] /\ Dist(first, i) >= N - Released =>
               /\ buf'[i] = buf[i] /\ last'[i] = last[i]
               /\ content'[arg[i]] = content[arg[i]]
  PROVE  Frames' = Frames
<1>1. ASSUME NEW k \in 1..Released
      PROVE  /\ content'[buf'[Back(first, k)]] = content[buf[Back(first, k)]]
             /\ last'[Back(first, k)] = last[Back(first, k)]
  <2>1. N - k >= N - Released
    BY QueueType
  <2> QED
    BY <2>1, ReleasedHeld
<1>2. Held(buf, first, Released)' = Held(buf, first, Released)
  BY <1>1 DEF Held
<1>3. Ended(first, Released)' = Ended(first, Released)
  BY <1>1 DEF Ended
<1> QED
  BY <1>2, <1>3 DEF Frames

(* What the open frame has in its BDs. *)
LEMMA CarriedType ==
  ASSUME QueueInv, pc # "compact"
  PROVE  /\ \A k \in 1..Pending : Held(buf, current, Pending)[k] \in Frame(Fragment)
         /\ \A k \in 1..Pending : Held(buf, current, Pending)[k] \in Seq(Fragment)
         /\ Carried(buf, current, Pending) \in Seq(Fragment)
<1>1. ASSUME NEW k \in 1..Pending
      PROVE  /\ Held(buf, current, Pending)[k] \in Frame(Fragment)
             /\ Held(buf, current, Pending)[k] \in Seq(Fragment)
  BY PendingHeld, HolderCarries DEF Held, Frame
<1>2. Pending \in Nat
  BY QueueType
<1>3. JoinEquations(Fragment, Held(buf, current, Pending), Pending)
  BY <1>1, <1>2, JoinRule
<1>4. Pending \in 0..Pending
  BY <1>2
<1> QED
  BY <1>1, <1>3, <1>4 DEF Carried, JoinEquations

-----------------------------------------------------------------------------
(* A new fragment is the last one of the open frame. *)
LEMMA SubmitKeeps ==
  ASSUME QueueInv, NEW m \in Mbuf, NEW l \in BOOLEAN, Submit(m, l)
  PROVE  /\ Held(buf, current, Pending)' = Held(buf, current, Pending)
         /\ Pending' = Pending /\ wire' = wire
         /\ Frames' = Frames
<1>1. /\ pc = "idle" /\ m \notin live
      /\ buf' = buf /\ last' = last /\ first' = first /\ current' = current
      /\ hw' = hw /\ ready' = ready /\ wire' = wire
      /\ content' = [content EXCEPT ![m] = <<tag>>]
  BY DEF Submit, ring
<1>2. Pending' = Pending /\ Released' = Released
  BY <1>1 DEF Pending, Released, Dist
<1>3. \A i \in Holders : content'[arg[i]] = content[arg[i]]
  BY <1>1, HolderCarries DEF QueueInv, Carry
<1>4. Held(buf, current, Pending)' = Held(buf, current, Pending)
  <2>1. \A k \in 1..Pending : content'[buf[Back(current, k)]] = content[buf[Back(current, k)]]
    BY <1>1, <1>3, PendingHeld
  <2> QED
    BY <2>1, <1>1, <1>2 DEF Held
<1>5. Frames' = Frames
  BY <1>1, <1>2, <1>3, FramesKept
<1> QED
  BY <1>1, <1>2, <1>4, <1>5

LEMMA SubmitStep ==
  ASSUME QueueInv, NEW m \in Mbuf, NEW l \in BOOLEAN, Submit(m, l)
  PROVE  FQ!Submit
<1>1. /\ pc = "idle" /\ m \notin live /\ m # None
      /\ content' = [content EXCEPT ![m] = <<tag>>]
      /\ current' = current /\ first' = first /\ current \in Slot
      /\ content'[m] = <<tag>> /\ tag \in Fragment
  BY NoneAssumption, QueueType DEF Submit, QueueInv, Carry
<1>2. PICK s : s = Carried(buf, current, Pending)
  OBVIOUS
<1>3. s \in Seq(Fragment) /\ OpenFrame = s
  BY <1>1, <1>2, CarriedType DEF OpenFrame
<1>4. Append(s, tag) = s \o <<tag>>
  BY <1>3, <1>1
<1>5. OpenFrame' = s \o <<tag>>
  <2>1. CASE avail > 0
    <3>1. pc' = "fill" /\ call'.arg = m
      BY <2>1 DEF Submit, QueueInv, RingInv, ControlOK
    <3>2. Carried(buf, current, Pending)' = s
      BY <1>2, SubmitKeeps DEF Carried
    <3>3. OpenFrame' = Carried(buf, current, Pending)' \o content'[call'.arg]
      BY <3>1, <1>1 DEF OpenFrame
    <3> QED
      BY <1>1, <3>1, <3>2, <3>3
  <2>2. CASE ~(avail > 0)
    <3>1. /\ pc' = "compact" /\ call'.arg = None /\ discard' = first
          /\ arg' = [arg EXCEPT ![current] = m]
      BY <2>2 DEF Submit, QueueInv, RingInv, ControlOK
    <3> DEFINE e == Held(arg, Succ(current), Pending + 1)'
    <3>2. Dist(discard, current)' + 1 = Pending + 1 /\ Pending' = Pending
      BY <1>1, <3>1 DEF Pending, Dist
    <3>3. OpenFrame' = <<>> \o Join(e, Pending + 1)
      BY <1>1, <3>1, <3>2 DEF OpenFrame, Carried, Held
    <3>4. Pending \in Nat /\ Pending < N
      BY QueueType
    <3>5. e[1] = <<tag>>
      <4>1. e[1] = content'[arg'[Back(Succ(current), 1)]]
        BY <1>1, <3>2, <3>4 DEF Held
      <4> QED
        BY <4>1, <3>1, <1>1, BackSucc, QueueType
    <3>6. ASSUME NEW k \in 1..Pending PROVE e[k + 1] = Held(buf, current, Pending)[k]
      <4>1. e[k + 1] = content'[arg'[Back(Succ(current), k + 1)]]
        BY <1>1, <3>2, <3>4 DEF Held
      <4>2. Back(Succ(current), k + 1) = Back(current, k)
        BY <1>1, <3>4, BackSucc
      <4>3. /\ Back(current, k) \in Holders /\ Back(current, k) # current
            /\ buf[Back(current, k)] = arg[Back(current, k)]
        BY <1>1, PendingHeld
      <4>4. arg'[Back(current, k)] = arg[Back(current, k)]
        BY <3>1, <4>3, HolderCarries, QueueType
      <4>5. content'[arg[Back(current, k)]] = content[arg[Back(current, k)]]
        BY <1>1, <4>3, HolderCarries DEF QueueInv, Carry
      <4> QED
        BY <4>1, <4>2, <4>3, <4>4, <4>5 DEF Held
    <3>7. Join(e, Pending + 1) = s \o <<tag>>
      <4>1. <<tag>> \in Seq(Fragment)
        BY <1>1
      <4>2. PICK x, d, n : x = e /\ d = Held(buf, current, Pending) /\ n = Pending
        OBVIOUS
      <4> HIDE DEF e
      <4>3. n \in Nat /\ x[1] \in Seq(Fragment)
        BY <3>4, <3>5, <4>1, <4>2
      <4>4. \A k \in 1..n : d[k] \in Seq(Fragment)
        BY <4>2, <1>1, CarriedType
      <4>5. \A k \in 1..n : x[k + 1] = d[k]
        BY <4>2, <3>6
      <4>6. Join(x, n + 1) = Join(d, n) \o x[1]
        <5>1. OneMore(Fragment, d, x, n)
          BY <4>3, <4>4, <4>5 DEF OneMore
        <5>2. n \in Nat
          BY <4>3
        <5>3. Longer(d, x, n)
          BY <5>1, <5>2, JoinMore
        <5> QED
          BY <5>3 DEF Longer
      <4> QED
        BY <4>2, <4>6, <3>5, <1>2 DEF Carried
    <3>8. <<>> \o (s \o <<tag>>) = s \o <<tag>>
      BY <1>1, <1>3
    <3> QED
      BY <3>3, <3>7, <3>8
  <2> QED
    BY <2>1, <2>2
<1>6. tag \in 0..(Tags - 1)
  BY <1>1 DEF Fragment
<1>7. OpenFrame' = Append(OpenFrame, tag)
  BY <1>3, <1>4, <1>5
<1>8. Frames' = Frames /\ wire' = wire
  BY SubmitKeeps
<1> QED
  BY <1>6, <1>7, <1>8 DEF FQ!Submit

(* A step that leaves the BDs of the frame in the making alone. *)
LEMMA CarriedKept ==
  ASSUME QueueInv, pc # "compact", first' = first, current' = current,
         \A i \in Holders : i # current =>
            buf'[i] = buf[i] /\ content'[arg[i]] = content[arg[i]]
  PROVE  /\ Pending' = Pending
         /\ Carried(buf, current, Pending)' = Carried(buf, current, Pending)
<1>1. Pending' = Pending
  BY DEF Pending, Dist
<1>2. ASSUME NEW k \in 1..Pending
      PROVE  content'[buf'[Back(current, k)]] = content[buf[Back(current, k)]]
  BY PendingHeld
<1>3. Held(buf, current, Pending)' = Held(buf, current, Pending)
  BY <1>1, <1>2 DEF Held
<1> QED
  BY <1>1, <1>3 DEF Carried

(* Steps that the FIFO does not see. *)
LEMMA FillStep ==
  ASSUME QueueInv, Fill
  PROVE  OpenFrame' = OpenFrame /\ Frames' = Frames /\ wire' = wire
<1>1. /\ pc = "fill" /\ pc' = "status"
      /\ first' = first /\ current' = current /\ call' = call
      /\ last' = last /\ ready' = ready /\ hw' = hw
      /\ content' = content /\ wire' = wire
      /\ buf' = [buf EXCEPT ![current] = call.buf]
  BY DEF Fill
<1>2. current \notin Holders
  BY <1>1 DEF Holders, Stale
<1>3. ASSUME NEW i \in Holders PROVE buf'[i] = buf[i]
  BY <1>1, <1>2, HolderCarries, QueueType
<1>4. Carried(buf, current, Pending)' = Carried(buf, current, Pending)
  BY <1>1, <1>3, CarriedKept
<1>5. OpenFrame' = OpenFrame
  BY <1>1, <1>4 DEF OpenFrame
<1>6. Released' = Released
  BY <1>1 DEF Released, Dist
<1>7. Frames' = Frames
  BY <1>1, <1>3, <1>6, FramesKept
<1> QED
  BY <1>1, <1>5, <1>7

LEMMA WaitStep ==
  ASSUME QueueInv, WaitAndFree
  PROVE  OpenFrame' = OpenFrame /\ Frames' = Frames /\ wire' = wire
<1>1. /\ pc = "wait" /\ pc' = "idle" /\ ~ready[current]
      /\ first' = first /\ current' = current
      /\ buf' = buf /\ last' = last /\ ready' = ready /\ hw' = hw /\ wire' = wire
      /\ content' = [m \in Mbuf |-> IF m = arg[current] THEN <<>> ELSE content[m]]
  BY DEF WaitAndFree, ring
<1>2. ASSUME NEW i \in Holders, i # current PROVE content'[arg[i]] = content[arg[i]]
  <2>1. arg[i] # arg[current]
    <3>1. CASE current \in Holders
      BY <1>2, <3>1, HolderCarries
    <3>2. CASE current \notin Holders
      <4>1. arg[current] = None
        BY <1>1, <3>2, QueueType DEF Holders, Stale
      <4> QED
        BY <4>1, HolderCarries
    <3> QED
      BY <3>1, <3>2
  <2> QED
    BY <2>1, <1>1, HolderCarries
<1>3. Carried(buf, current, Pending)' = Carried(buf, current, Pending)
  BY <1>1, <1>2, CarriedKept
<1>4. OpenFrame' = OpenFrame
  BY <1>1, <1>3 DEF OpenFrame
<1>5. Released' = Released
  BY <1>1 DEF Released, Dist
<1>6. Frames' = Frames
  BY <1>1, <1>2, <1>5, FramesKept
<1> QED
  BY <1>1, <1>4, <1>6

-----------------------------------------------------------------------------
(* The BDs of the frame that the compaction has not taken yet. *)
LEMMA DistOver ==
  ASSUME NEW f \in Slot, NEW a \in Slot, NEW i \in Slot, NEW b \in Slot,
         Dist(f, a) <= Dist(f, b), Dist(a, i) <= Dist(a, b)
  PROVE  Dist(f, i) = Dist(f, a) + Dist(a, i) /\ Dist(f, i) <= Dist(f, b)
  BY DEF Slot, Dist

LEMMA LeftHeld ==
  ASSUME QueueInv, pc = "compact", NEW k \in 1..(Dist(discard, current) + 1)
  PROVE  /\ k \in 1..N
         /\ Back(Succ(current), k) \in Holders
         /\ Dist(discard, Back(Succ(current), k)) = Dist(discard, current) + 1 - k
<1>1. /\ first \in Slot /\ current \in Slot /\ discard \in Slot
      /\ Dist(first, discard) <= Dist(first, current)
  BY QueueType DEF QueueInv, RingInv, Compaction, Pending
<1>2. PICK i : i = Back(Succ(current), k)
  OBVIOUS
<1>3. k \in 1..N /\ i \in Slot /\ Dist(discard, i) = Dist(discard, current) + 1 - k
  BY <1>1, <1>2, BackOpen
<1>4. Dist(discard, current) \in 0..(N - 1) /\ Dist(discard, i) \in 0..(N - 1)
      /\ Dist(first, discard) \in 0..(N - 1)
  BY <1>1, <1>3, DistType
<1>5. Dist(discard, i) <= Dist(discard, current)
  BY <1>3, <1>4
<1>6. /\ Dist(first, i) = Dist(first, discard) + Dist(discard, i)
      /\ Dist(first, i) <= Dist(first, current)
  BY <1>1, <1>3, <1>5, DistOver
<1>7. i \in Holders
  <2>1. CASE i = current
    BY <2>1 DEF QueueInv, MbufInv, CallInv
  <2>2. CASE i # current
    <3>1. Dist(first, i) # Dist(first, current)
      BY <2>2, <1>1, <1>3, DistInj
    <3>2. Dist(first, i) < Dist(first, current) /\ Dist(first, i) >= Dist(first, discard)
      BY <3>1, <1>1, <1>3, <1>4, <1>6, DistType
    <3> QED
      BY <3>2, <1>3 DEF QueueInv, MbufInv, OpenFrameKept
  <2> QED
    BY <2>1, <2>2
<1> QED
  BY <1>2, <1>3, <1>7

(* What a turn of the compaction loop does to the mbufs and the ring. *)
LEMMA CompactKeeps ==
  ASSUME RoomForFirst, QueueInv, NEW c \in Mbuf, Compact(c)
  PROVE  /\ Frames' = Frames /\ wire' = wire
         /\ \A i \in Holders : i # discard =>
               arg'[i] = arg[i] /\ content'[arg[i]] = content[arg[i]]
<1>1. PICK old : old = arg[discard]
  OBVIOUS
<1>2. /\ pc = "compact" /\ first' = first /\ buf' = buf /\ wire' = wire
      /\ last' = [last EXCEPT ![discard] = FALSE]
      /\ arg' = [arg EXCEPT ![discard] = None]
      /\ content' = [content EXCEPT ![c] = @ \o content[old], ![old] = <<>>]
      /\ IF call.arg = None THEN c \in Mbuf \ live ELSE c = call.arg
  BY <1>1 DEF Compact, BdCompact
<1>3. discard \in Holders /\ discard \in Slot
  BY OldHeld DEF QueueInv
<1>4. InHand = call.arg
  BY <1>2 DEF InHand
<1>5. ASSUME NEW i \in Holders, i # discard
      PROVE  arg'[i] = arg[i] /\ content'[arg[i]] = content[arg[i]] /\ last'[i] = last[i]
  <2>1. i \in Slot /\ arg[i] \in live /\ arg[i] \in Mbuf /\ arg[i] # InHand
        /\ arg[i] # arg[discard]
    BY <1>3, <1>5, HolderCarries
  <2>2. arg[i] # c /\ arg[i] # old
    BY <1>1, <1>2, <1>4, <2>1
  <2>3. content'[arg[i]] = content[arg[i]]
    <3>1. content \in [Mbuf -> Seq(Fragment)]
      BY DEF QueueInv, Carry
    <3> QED
      BY <3>1, <2>1, <2>2, <1>2
  <2>4. arg'[i] = arg[i] /\ last'[i] = last[i]
    <3>1. arg \in [Slot -> Mbuf \union {None}] /\ last \in [Slot -> BOOLEAN]
      BY QueueType
    <3> QED
      BY <3>1, <2>1, <1>2, <1>3, <1>5
  <2> QED
    BY <2>3, <2>4
<1>6. Released' = Released
  BY RingCompact DEF QueueInv
<1>7. ASSUME NEW i \in Holders, Dist(first, i) >= N - Released PROVE i # discard
  <2>1. /\ Dist(first, discard) <= Pending /\ Pending + Released < N
        /\ Pending \in Nat /\ Released \in Nat /\ N \in Nat
    BY <1>2, QueueType DEF QueueInv, RingInv, Compaction
  <2>2. Dist(first, discard) \in Nat
    BY QueueType, DistType
  <2> QED
    BY <1>7, <2>1, <2>2
<1>8. Frames' = Frames
  BY <1>2, <1>5, <1>6, <1>7, FramesKept
<1> QED
  BY <1>2, <1>5, <1>8

(* The fragments in the BDs that are left. *)
LEMMA LeftType ==
  ASSUME QueueInv, pc = "compact", NEW n, n = Dist(discard, current),
         NEW e, e = Held(arg, Succ(current), n + 1)
  PROVE  /\ n \in 0..(N - 1)
         /\ \A k \in 1..(n + 1) : e[k] \in Seq(Fragment)
         /\ JoinEquations(Fragment, e, n + 1)
         /\ e[n + 1] = content[arg[discard]]
<1>1. current \in Slot /\ discard \in Slot /\ Dist(discard, current) \in 0..(N - 1)
  BY QueueType, DistType
<1>2. ASSUME NEW k \in 1..(n + 1) PROVE e[k] \in Seq(Fragment)
  <2>1. Back(Succ(current), k) \in Holders
    BY LeftHeld
  <2> QED
    BY <2>1, HolderCarries DEF Held, Frame
<1>3. n + 1 \in Nat
  BY <1>1
<1>4. JoinEquations(Fragment, e, n + 1)
  BY <1>2, <1>3, JoinRule
<1>5. Back(Succ(current), n + 1) = discard
  <2>1. n + 1 \in 1..(Dist(discard, current) + 1)
    BY <1>1
  <2>2. Dist(discard, Back(Succ(current), n + 1)) = 0 /\ Back(Succ(current), n + 1) \in Slot
    BY <1>1, <2>1, BackOpen
  <2> QED
    BY <1>1, <2>2, DistType
<1>6. e[n + 1] = content[arg[discard]]
  BY <1>1, <1>5 DEF Held
<1> QED
  BY <1>1, <1>2, <1>4, <1>6

(***************************************************************************)
(* A turn of the compaction loop moves the first fragment of the open      *)
(* frame from its BD to the end of what the call has in hand: the frame as *)
(* a whole stays as it is.                                                 *)
(***************************************************************************)
LEMMA CompactStep ==
  ASSUME RoomForFirst, QueueInv, NEW c \in Mbuf, Compact(c)
  PROVE  OpenFrame' = OpenFrame /\ Frames' = Frames /\ wire' = wire
<1>1. PICK old, n, e : /\ old = arg[discard]
                       /\ n = Dist(discard, current)
                       /\ e = Held(arg, Succ(current), n + 1)
  OBVIOUS
<1>2. /\ pc = "compact" /\ discard \in Slot /\ current \in Slot /\ first \in Slot
      /\ old \in Mbuf /\ old \in live /\ old # c
  BY <1>1, OldHeld, QueueType DEF QueueInv, Compact
<1>3. /\ n \in 0..(N - 1) /\ e[n + 1] = content[old]
      /\ \A k \in 1..(n + 1) : e[k] \in Seq(Fragment)
      /\ JoinEquations(Fragment, e, n + 1)
  BY <1>1, <1>2, LeftType
<1>4. PICK x, y : x = content[c] /\ y = content[old]
  OBVIOUS
<1>5. /\ content \in [Mbuf -> Seq(Fragment)] /\ x \in Seq(Fragment) /\ y \in Seq(Fragment)
      /\ c \notin live => x = <<>>
  BY <1>2, <1>4 DEF QueueInv, Carry
<1>6. content'[c] = x \o y
  BY <1>1, <1>2, <1>4, <1>5 DEF Compact, BdCompact
<1>7. OpenFrame = x \o Join(e, n + 1)
  <2>1. OpenFrame = (IF call.arg = None THEN <<>> ELSE content[call.arg]) \o Join(e, n + 1)
    BY <1>1, <1>2 DEF OpenFrame, Carried
  <2>2. (IF call.arg = None THEN <<>> ELSE content[call.arg]) = x
    BY <1>4, <1>5 DEF Compact, BdCompact
  <2> QED
    BY <2>1, <2>2
<1>8. Join(e, n + 1) = y \o Join(e, n) /\ Join(e, n) \in Seq(Fragment)
  <2>1. n + 1 \in 1..(n + 1) /\ n \in 0..(n + 1) /\ (n + 1) - 1 = n
    BY <1>3
  <2> QED
    BY <2>1, <1>3, <1>4 DEF JoinEquations
<1>9. PICK z : z = Join(e, n)
  OBVIOUS
<1>10. OpenFrame = (x \o y) \o z
  <2>1. Associates(x, y, z)
    BY <1>5, <1>8, <1>9, ConcatAssoc, Zenon
  <2> QED
    BY <2>1, <1>7, <1>8, <1>9 DEF Associates
<1>11. OpenFrame' = (x \o y) \o z
  <2>1. call'.arg = c /\ c # None
    BY NoneAssumption DEF Compact, BdCompact
  <2>2. CASE discard = current
    <3>1. pc' = "fill" /\ current' = first /\ first' = first
      BY <2>2 DEF Compact, CompactEnd, CompactedTo
    <3>2. Pending' = 0
      BY <3>1, <1>2, DistType DEF Pending
    <3>3. OpenFrame' = Join(Held(buf, current, Pending)', 0) \o (x \o y)
      BY <2>1, <3>1, <3>2, <1>6 DEF OpenFrame, Carried
    <3>4. Join(Held(buf, current, Pending)', 0) = <<>>
      BY JoinNone
    <3>5. z = <<>>
      <4>1. n = 0
        BY <1>1, <1>2, <2>2, DistType
      <4> QED
        BY <4>1, <1>3, <1>9 DEF JoinEquations
    <3>6. <<>> \o (x \o y) = (x \o y) \o <<>>
      BY <1>5
    <3> QED
      BY <3>3, <3>4, <3>5, <3>6
  <2>3. CASE discard # current
    <3>1. pc' = "compact" /\ current' = current /\ discard' = Succ(discard)
      <4>1. Succ(discard) # Succ(current)
        BY <2>3, <1>2 DEF Succ, Slot
      <4> QED
        BY <4>1 DEF Compact, CompactEnd
    <3>2. Dist(discard, current)' + 1 = n /\ n \in Nat \ {0}
      <4>1. n # 0
        BY <1>1, <1>2, <2>3, DistType
      <4>2. Dist(Succ(discard), current) = n - 1
        BY <1>1, <1>2, <2>3, DistSucc
      <4>3. Dist(discard, current)' = Dist(Succ(discard), current)
        BY <3>1 DEF Dist
      <4> QED
        BY <4>1, <4>2, <4>3, <1>3
    <3>3. PICK d : d = Held(arg, Succ(current), n)'
      OBVIOUS
    <3>4. OpenFrame' = (x \o y) \o Join(d, n)
      <4>1. Held(arg, Succ(current), n)' = Held(arg, Succ(current), Dist(discard, current) + 1)'
        BY <3>1, <3>2 DEF Held
      <4> QED
        BY <4>1, <2>1, <3>1, <3>2, <3>3, <1>6 DEF OpenFrame, Carried
    <3>5. ASSUME NEW k \in 1..n PROVE d[k] = e[k]
      <4>1. PICK i : i = Back(Succ(current), k)
        OBVIOUS
      <4>2. i \in Holders /\ Dist(discard, i) = n + 1 - k
        BY <1>1, <1>2, <1>3, <4>1, LeftHeld
      <4>3. i # discard
        BY <4>2, <1>2, <1>3, DistType
      <4>4. content'[arg'[i]] = content[arg[i]]
        BY <4>2, <4>3, CompactKeeps
      <4>5. d[k] = content'[arg'[i]]
        BY <3>1, <3>3, <4>1 DEF Held
      <4>6. e[k] = content[arg[i]]
        BY <1>1, <1>3, <4>1 DEF Held
      <4> QED
        BY <4>4, <4>5, <4>6
    <3>6. Join(d, n) = z
      <4>1. \A k \in 1..n : e[k] \in Seq(Fragment)
        BY <1>3
      <4> QED
        BY <4>1, <3>2, <3>5, <1>9, JoinAgree
    <3> QED
      BY <3>4, <3>6
  <2> QED
    BY <2>2, <2>3
<1> QED
  BY <1>10, <1>11, CompactKeeps

(* The BDs of the frame in the making, when current has its fragment. *)
LEMMA FrontHeld ==
  ASSUME QueueInv, pc \in {"status", "release"}, NEW k \in 1..(Pending + 1)
  PROVE  /\ k \in 1..N
         /\ content[buf[Back(Succ(current), k)]] \in Frame(Fragment)
         /\ Back(Succ(current), k) \in Slot
         /\ Back(Succ(current), k) = current <=> k = 1
         /\ k > 1 => Dist(first, Back(Succ(current), k)) < Pending
<1>1. Pending \in 0..(N - 1) /\ current \in Slot /\ first \in Slot
  BY QueueType
<1>2. CASE k = 1
  <2>1. Back(Succ(current), 1) = current
    BY <1>1, BackSucc
  <2>2. content[buf[current]] \in Frame(Fragment)
    <3>1. CASE pc = "status"
      <4>1. buf[current] = call.arg /\ call.arg \in Mbuf /\ InHand = call.arg
        BY <3>1 DEF QueueInv, MbufInv, CallInv, InHand
      <4>2. call.arg \in live
        BY <4>1, NoneAssumption DEF QueueInv, MbufInv, MbufsOwnedOnce
      <4> QED
        BY <4>1, <4>2 DEF QueueInv, Carry, Frame
    <3>2. CASE pc = "release"
      <4>1. ready[current]
        BY <3>2, <1>1 DEF QueueInv, RingInv, ReadyBds, Pending
      <4>2. current \in Holders /\ buf[current] = arg[current]
        BY <4>1, <1>1 DEF QueueInv, MbufInv, MbufsOwnedOnce
      <4> QED
        BY <4>2, HolderCarries
    <3> QED
      BY <3>1, <3>2
  <2> QED
    BY <1>1, <1>2, <2>1, <2>2
<1>3. CASE k # 1
  <2>1. k - 1 \in 1..Pending /\ k - 1 \in 1..(N - 1) /\ (k - 1) + 1 = k
    BY <1>1, <1>3
  <2>2. Back(Succ(current), k) = Back(current, k - 1)
    BY <1>1, <2>1, BackSucc
  <2>3. /\ Back(current, k - 1) \in Holders /\ Back(current, k - 1) # current
        /\ Dist(first, Back(current, k - 1)) = Pending - (k - 1)
        /\ buf[Back(current, k - 1)] = arg[Back(current, k - 1)]
    BY <2>1, PendingHeld
  <2> QED
    BY <1>1, <1>3, <2>1, <2>2, <2>3, HolderCarries
<1> QED
  BY <1>2, <1>3

(* The fragment in the BD at current is the last one of the frame so far. *)
LEMMA CarriedMore ==
  ASSUME QueueInv, pc = "status"
  PROVE  Carried(buf, Succ(current), Pending + 1)
            = Carried(buf, current, Pending) \o content[call.arg]
<1>1. PICK n, d, e : /\ n = Pending
                     /\ d = Held(buf, current, n)
                     /\ e = Held(buf, Succ(current), n + 1)
  OBVIOUS
<1>2. n \in 0..(N - 1) /\ current \in Slot
  BY <1>1, QueueType
<1>3. e[1] = content[call.arg] /\ e[1] \in Seq(Fragment)
  <2>1. 1 \in 1..(n + 1) /\ Back(Succ(current), 1) = current
    BY <1>2, BackSucc
  <2>2. buf[current] = call.arg
    BY DEF QueueInv, MbufInv, CallInv
  <2>3. e[1] = content[buf[Back(Succ(current), 1)]]
    BY <1>1, <2>1 DEF Held
  <2> QED
    BY <1>1, <2>1, <2>2, <2>3, FrontHeld DEF Frame
<1>4. ASSUME NEW k \in 1..n PROVE d[k] \in Seq(Fragment) /\ e[k + 1] = d[k]
  <2>1. k + 1 \in 1..(n + 1) /\ Back(Succ(current), k + 1) = Back(current, k)
    BY <1>2, BackSucc
  <2>2. e[k + 1] = content[buf[Back(Succ(current), k + 1)]]
    BY <1>1, <2>1 DEF Held
  <2>3. d[k] = content[buf[Back(current, k)]]
    BY <1>1 DEF Held
  <2> QED
    BY <1>1, <2>1, <2>2, <2>3, CarriedType
<1>5. OneMore(Fragment, d, e, n) /\ n \in Nat
  BY <1>2, <1>3, <1>4 DEF OneMore
<1>6. Longer(d, e, n)
  BY <1>5, JoinMore
<1> QED
  BY <1>1, <1>3, <1>6 DEF Longer, Carried

(* The fragment joins the frame in the making. *)
LEMMA StatusStep ==
  ASSUME RoomForFirst, QueueInv, Status, ~(call.last /\ current = first)
  PROVE  OpenFrame' = OpenFrame /\ Frames' = Frames /\ wire' = wire
<1>1. /\ pc = "status" /\ first' = first /\ wire' = wire
      /\ buf' = buf /\ content' = content
      /\ \A i \in Slot : i # current => last'[i] = last[i]
      /\ call.arg # None
  BY NoneAssumption, QueueType DEF Status, Advance, QueueInv, MbufInv, CallInv
<1>2. Released' = Released
  BY RingAppend, RingHeldBack DEF QueueInv
<1>3. current \notin Holders
  BY <1>1 DEF Holders, Stale
<1>4. Frames' = Frames
  BY <1>1, <1>2, <1>3, HolderCarries, FramesKept
<1>5. OpenFrame = Carried(buf, Succ(current), Pending + 1)
  BY <1>1, CarriedMore DEF OpenFrame
<1>6. CASE call.last
  <2>1. pc' = "release" /\ current' = current
    BY <1>6 DEF Status
  <2>2. Pending' = Pending
    BY <1>6, RingHeldBack DEF QueueInv
  <2>3. OpenFrame' = Carried(buf, Succ(current), Pending + 1)'
    BY <2>1 DEF OpenFrame
  <2>4. Carried(buf, Succ(current), Pending + 1)' = Carried(buf, Succ(current), Pending + 1)
    BY <1>1, <2>1, <2>2 DEF Carried, Held
  <2> QED
    BY <1>1, <1>4, <1>5, <2>3, <2>4
<1>7. CASE ~call.last
  <2>1. pc' = "wait" /\ current' = Succ(current)
    BY <1>7 DEF Status, Advance
  <2>2. Pending' = Pending + 1
    BY <1>7, RingAppend DEF QueueInv
  <2>3. OpenFrame' = Carried(buf, current, Pending)'
    BY <2>1 DEF OpenFrame
  <2>4. Carried(buf, current, Pending)' = Carried(buf, Succ(current), Pending + 1)
    BY <1>1, <2>1, <2>2 DEF Carried, Held
  <2> QED
    BY <1>1, <1>4, <1>5, <2>3, <2>4
<1> QED
  BY <1>6, <1>7

(***************************************************************************)
(* The first BD of the frame becomes ready: the frame goes to the FIFO.    *)
(***************************************************************************)
LEMMA ReleaseStep ==
  ASSUME RoomForFirst, QueueInv, (Status /\ call.last /\ current = first) \/ Release
  PROVE  FQ!Release
<1>1. /\ pc \in {"status", "release"} /\ pc' = "wait"
      /\ first' = Succ(current) /\ current' = Succ(current)
      /\ buf' = buf /\ content' = content /\ wire' = wire
      /\ last'[current]
      /\ \A i \in Slot : i # current => last'[i] = last[i]
      /\ pc = "release" \/ current = first
  BY QueueType DEF Status, Release, Advance, QueueInv, RingInv, FrameEnds
<1>2. PICK p, r, d, ends, e, fin :
         /\ p = Pending + 1 /\ r = Released
         /\ d = Held(buf, first, r) /\ ends = Ended(first, r)
         /\ e = Held(buf, Succ(current), p + r)
         /\ fin = Ended(first, p + r)'
  OBVIOUS
<1>3. /\ p \in 1..N /\ r \in 0..N /\ p + r <= N
      /\ Pending \in 0..(N - 1) /\ p = Pending + 1
      /\ current \in Slot /\ first \in Slot
  BY <1>1, <1>2, QueueType
<1>4. Released' = p + r
  BY <1>2, <1>3, RingRelease DEF QueueInv
<1>5. Frames = Cut(d, ends, r)
  BY <1>2 DEF Frames
<1>6. Frames' = Cut(e, fin, p + r)
  <2>1. Held(buf, first, Released)' = e
    BY <1>1, <1>2, <1>4 DEF Held
  <2>2. Ended(first, Released)' = fin
    BY <1>1, <1>2, <1>4 DEF Ended
  <2> QED
    BY <2>1, <2>2, <1>4 DEF Frames
<1>7. ASSUME NEW k \in 1..r PROVE d[k] \in Frame(Fragment) /\ ends[k] \in BOOLEAN
  <2>1. Back(first, k) \in Holders /\ buf[Back(first, k)] = arg[Back(first, k)]
    BY <1>2, ReleasedHeld
  <2> QED
    BY <1>2, <2>1, HolderCarries, QueueType DEF Held, Ended
<1>8. r > 0 => ends[1]
  <2>1. Back(first, 1) = IF first = 0 THEN N - 1 ELSE first - 1
    BY <1>3 DEF Back, Plus, Slot
  <2>2. r > 0 => ends[1] = last[Back(first, 1)]
    BY <1>2, <1>3 DEF Ended
  <2> QED
    BY <1>2, <2>1, <2>2 DEF QueueInv, RingInv, FrameEnds
<1>9. ASSUME NEW k \in 1..p PROVE e[k] \in Frame(Fragment) /\ fin[k] = (k = 1)
  <2>1. PICK i : i = Back(Succ(current), k)
    OBVIOUS
  <2>2. /\ content[buf[i]] \in Frame(Fragment) /\ i \in Slot
        /\ i = current <=> k = 1
        /\ k > 1 => Dist(first, i) < Pending
    BY <1>1, <1>3, <2>1, FrontHeld
  <2>3. k \in 1..(p + r)
    BY <1>3
  <2>4. e[k] = content[buf[i]] /\ fin[k] = last'[i]
    BY <1>1, <1>2, <2>1, <2>3 DEF Held, Ended
  <2>5. CASE k = 1
    <3>1. last'[current] = TRUE
      <4>1. ControlOK'
        BY ControlStep DEF QueueInv, RingInv, Next, Working
      <4> QED
        BY <4>1, <1>1, <1>3 DEF ControlOK
    <3> QED
      BY <2>2, <2>4, <2>5, <3>1
  <2>6. CASE k # 1
    <3>1. last'[i] = last[i] /\ ~last[i]
      BY <1>1, <2>2, <2>6 DEF QueueInv, NoneLast
    <3>2. last[i] = FALSE
      BY <3>1, <2>2, QueueType
    <3> QED
      BY <2>2, <2>4, <2>6, <3>1, <3>2
  <2> QED
    BY <2>5, <2>6
<1>10. ASSUME NEW k \in 1..r PROVE e[p + k] = d[k] /\ fin[p + k] = ends[k]
  <2>1. PICK i : i = Back(first, k)
    OBVIOUS
  <2>2. Back(Succ(current), p + k) = i
    <3>1. k \in 1..(N - 1 - Dist(first, current)) /\ Dist(first, current) + 1 + k = p + k
      BY <1>3 DEF Pending
    <3> QED
      BY <3>1, <2>1, <1>3, BackMove
  <2>3. i \in Slot /\ i # current
    <3>1. i \in Holders /\ Dist(first, i) = N - k
      BY <1>2, <2>1, ReleasedHeld
    <3> QED
      BY <3>1, <1>3, HolderCarries DEF Pending
  <2>4. p + k \in 1..(p + r)
    BY <1>3
  <2>5. e[p + k] = content[buf[i]] /\ fin[p + k] = last'[i]
    BY <1>1, <1>2, <2>2, <2>4 DEF Held, Ended
  <2>6. d[k] = content[buf[i]] /\ ends[k] = last[i]
    BY <1>2, <2>1 DEF Held, Ended
  <2> QED
    BY <1>1, <2>3, <2>5, <2>6
<1>11. FrameMore(Fragment, d, ends, r, e, fin, p)
  BY <1>7, <1>8, <1>9, <1>10 DEF FrameMore
<1>12. Frames' = Append(Frames, Join(e, p))
  <2>1. p \in Nat \ {0} /\ r \in Nat
    BY <1>3
  <2>2. OneFrameMore(d, ends, r, e, fin, p)
    BY <1>11, <2>1, CutMore
  <2> QED
    BY <2>2, <1>5, <1>6 DEF OneFrameMore
<1>13. Join(e, p) = OpenFrame
  <2>1. OpenFrame = Carried(buf, Succ(current), p)
    <3>1. CASE pc = "release"
      BY <3>1, <1>2 DEF OpenFrame
    <3>2. CASE pc = "status"
      <4>1. call.arg # None
        BY <3>2, NoneAssumption DEF QueueInv, MbufInv, CallInv
      <4> QED
        BY <4>1, <3>2, <1>2, CarriedMore DEF OpenFrame
    <3> QED
      BY <3>1, <3>2, <1>1
  <2>2. PICK g : g = Held(buf, Succ(current), p)
    OBVIOUS
  <2>3. \A k \in 1..p : g[k] = e[k]
    BY <1>2, <1>3, <2>2 DEF Held
  <2>4. \A k \in 1..p : e[k] \in Seq(Fragment)
    BY <1>9 DEF Frame
  <2>5. Join(g, p) = Join(e, p)
    BY <1>3, <2>3, <2>4, JoinAgree
  <2> QED
    BY <2>1, <2>2, <2>5 DEF Carried
<1>14. OpenFrame # <<>>
  <2>1. Join(e, p) \in Frame(Fragment)
    BY <1>3, <1>9, JoinFrame
  <2> QED
    BY <2>1, <1>13 DEF Frame
<1>15. OpenFrame' = <<>>
  <2>1. Pending' = 0
    BY <1>1, <1>3, SuccType, DistType DEF Pending
  <2>2. OpenFrame' = Join(Held(buf, current, Pending)', 0)
    BY <1>1, <2>1 DEF OpenFrame, Carried
  <2> QED
    BY <2>2, JoinNone
<1> QED
  BY <1>1, <1>12, <1>13, <1>14, <1>15 DEF FQ!Release

(* The controller takes the first part of a frame. *)
LEMMA TakeFirst ==
  ASSUME NEW A, NEW x \in Seq(A), NEW y \in Seq(A), x # <<>>, y # <<>>
  PROVE  /\ Len(x) \in 1..Len(x \o y) /\ Len(x) # Len(x \o y)
         /\ SubSeq(x \o y, 1, Len(x)) = x
         /\ SubSeq(x \o y, Len(x) + 1, Len(x \o y)) = y
<1>1. Len(x \o y) = Len(x) + Len(y) /\ Len(x) \in Nat \ {0} /\ Len(y) \in Nat \ {0}
  OBVIOUS
<1>2. SubSeq(x \o y, 1, Len(x)) = x
  OBVIOUS
<1>3. SubSeq(x \o y, Len(x) + 1, Len(x \o y)) = y
  OBVIOUS
<1>4. Len(x) \in 1..Len(x \o y) /\ Len(x) # Len(x \o y)
  <2>1. PICK a \in Nat \ {0}, b \in Nat \ {0} : a = Len(x) /\ b = Len(y)
    BY <1>1
  <2>2. a \in 1..(a + b) /\ a # a + b
    OBVIOUS
  <2> QED
    BY <1>1, <2>1, <2>2
<1> QED
  BY <1>2, <1>3, <1>4, Zenon

LEMMA FrontFrame ==
  ASSUME NEW B, NEW f \in Seq(B), f # <<>>
  PROVE  <<Head(f)>> \o Tail(f) = f
  OBVIOUS

LEMMA PutOne ==
  ASSUME NEW B, NEW x, NEW s \in Seq(B)
  PROVE  /\ <<x>> \o s # <<>> /\ Head(<<x>> \o s) = x /\ Tail(<<x>> \o s) = s
  OBVIOUS

(***************************************************************************)
(* A BD the controller closes is the first one of the frame at the head of *)
(* the FIFO, or all of it.                                                 *)
(***************************************************************************)
Taken(x, ends, f) ==
    LET s == InFront(x, ends, f)
        k == Len(x)
    IN  /\ s # <<>> /\ k \in 1..Len(Head(s))
        /\ IF ends
           THEN k = Len(Head(s)) /\ f = Tail(s)
           ELSE /\ k # Len(Head(s))
                /\ x = SubSeq(Head(s), 1, k)
                /\ f = <<SubSeq(Head(s), k + 1, Len(Head(s)))>> \o Tail(s)

LEMMA FrontTaken ==
  ASSUME NEW A, NEW x \in Frame(A), NEW f \in Seq(Frame(A)), NEW e \in BOOLEAN,
         e \/ f # <<>>
  PROVE  Taken(x, e, f)
<1>1. x \in Seq(A) /\ x # <<>>
  BY DEF Frame
<1>2. CASE e
  <2>1. Len(x) \in 1..Len(x)
    BY <1>1
  <2>2. /\ <<x>> \o f # <<>> /\ Head(<<x>> \o f) = x /\ Tail(<<x>> \o f) = f
    BY PutOne
  <2> QED
    BY <1>2, <2>1, <2>2 DEF Taken, InFront
<1>3. CASE ~e
  <2>1. PICK h, t : h = Head(f) /\ t = Tail(f)
    OBVIOUS
  <2>2. h \in Frame(A) /\ t \in Seq(Frame(A)) /\ f = <<h>> \o t
    BY <1>3, <2>1, TakeFront, FrontFrame
  <2>3. h \in Seq(A) /\ h # <<>>
    BY <2>2 DEF Frame
  <2>4. PICK s : s = <<x \o h>> \o t
    OBVIOUS
  <2>5. s # <<>> /\ Head(s) = x \o h /\ Tail(s) = t
    BY <2>2, <2>4, PutOne
  <2>6. /\ Len(x) \in 1..Len(x \o h) /\ Len(x) # Len(x \o h)
        /\ SubSeq(x \o h, 1, Len(x)) = x
        /\ SubSeq(x \o h, Len(x) + 1, Len(x \o h)) = h
    BY <1>1, <2>3, TakeFirst
  <2>7. InFront(x, e, f) = s
    BY <1>3, <2>1, <2>4 DEF InFront
  <2> QED
    BY <1>3, <2>2, <2>5, <2>6, <2>7 DEF Taken
<1> QED
  BY <1>2, <1>3

(***************************************************************************)
(* The controller sends the next BD of the frame at the head of the FIFO.  *)
(***************************************************************************)
LEMMA CloseStep ==
  ASSUME RoomForFirst, QueueInv, Close
  PROVE  FQ!Transmit
<1>1. /\ hw \in Slot /\ ready[hw] /\ first' = first
      /\ buf' = buf /\ content' = content /\ last' = last
      /\ current' = current /\ pc' = pc /\ call' = call
      /\ discard' = discard /\ arg' = arg
      /\ wire' = IF last[hw] THEN <<>> ELSE wire \o content[buf[hw]]
  BY DEF Close, caller
<1>2. PICK r, d, ends : /\ r = Released
                        /\ d = Held(buf, first, r) /\ ends = Ended(first, r)
  OBVIOUS
<1>3. /\ r \in 1..N /\ Released' = r - 1 /\ Pending' = Pending
      /\ Dist(first, hw) = IF r = N THEN 0 ELSE N - r
      /\ first \in Slot
  BY <1>2, RingClose, QueueType DEF QueueInv
<1>4. Back(first, r) = hw
  <2>1. Back(first, r) \in Slot /\ Dist(first, Back(first, r)) = N - r
    BY <1>3, BackType
  <2>2. Dist(first, Back(first, r)) = Dist(first, hw)
    BY <1>3, <2>1
  <2> QED
    BY <1>1, <1>3, <2>1, <2>2, DistInj
<1>5. d[r] = content[buf[hw]] /\ ends[r] = last[hw]
  BY <1>2, <1>3, <1>4 DEF Held, Ended
<1>6. ASSUME NEW k \in 1..r PROVE d[k] \in Frame(Fragment) /\ ends[k] \in BOOLEAN
  <2>1. Back(first, k) \in Holders /\ buf[Back(first, k)] = arg[Back(first, k)]
    BY <1>2, ReleasedHeld
  <2> QED
    BY <1>2, <2>1, HolderCarries, QueueType DEF Held, Ended
<1>7. ends[1]
  <2>1. Back(first, 1) = IF first = 0 THEN N - 1 ELSE first - 1
    BY <1>3 DEF Back, Plus, Slot
  <2>2. ends[1] = last[Back(first, 1)]
    BY <1>2, <1>3 DEF Ended
  <2> QED
    BY <1>2, <1>3, <2>1, <2>2 DEF QueueInv, RingInv, FrameEnds
<1>8. CutEquations(Fragment, d, ends, r)
  BY <1>3, <1>6, <1>7, CutRule
<1>9. PICK f, x, l : f = Cut(d, ends, r - 1) /\ x = d[r] /\ l = ends[r]
  OBVIOUS
<1>10. Frames = InFront(x, l, f)
  <2>1. r \in 1..r
    BY <1>3
  <2> QED
    BY <1>2, <1>8, <1>9, <2>1 DEF Frames, CutEquations
<1>11. f \in Seq(Frame(Fragment)) /\ (l \/ f # <<>>)
  <2>1. r - 1 \in 0..r /\ (r # 1 => r - 1 \in 1..r)
    BY <1>3
  <2> QED
    BY <1>7, <1>8, <1>9, <2>1 DEF CutEquations
<1>12. x \in Frame(Fragment) /\ l \in BOOLEAN
  BY <1>3, <1>6, <1>9
<1>13. Taken(x, l, f)
  BY <1>11, <1>12, FrontTaken
<1>14. Frames' = f
  <2>1. PICK e, fin : e = Held(buf, first, r - 1) /\ fin = Ended(first, r - 1)
    OBVIOUS
  <2>2. Frames' = Cut(e, fin, r - 1)
    <3>1. Held(buf, first, Released)' = e /\ Ended(first, Released)' = fin
      BY <1>1, <1>3, <2>1 DEF Held, Ended
    <3> QED
      BY <3>1, <1>3 DEF Frames
  <2>3. \A k \in 1..(r - 1) : e[k] = d[k] /\ fin[k] = ends[k]
    BY <1>2, <1>3, <2>1 DEF Held, Ended
  <2>4. r - 1 \in Nat /\ \A k \in 1..(r - 1) : k \in 1..r
    BY <1>3
  <2>5. \A k \in 1..(r - 1) : d[k] \in Frame(Fragment) /\ ends[k] \in BOOLEAN
    BY <1>6, <2>4
  <2>6. Cut(e, fin, r - 1) = Cut(d, ends, r - 1)
    BY <1>7, <2>3, <2>4, <2>5, CutAgree
  <2> QED
    BY <1>9, <2>2, <2>6
<1>15. OpenFrame' = OpenFrame
  BY <1>1, <1>3 DEF OpenFrame, Carried, Held
<1>16. l = last[hw] /\ x = content[buf[hw]]
  BY <1>5, <1>9
<1> QED
  <2> DEFINE frame == Head(Frames)
  <2>1. Frames # <<>> /\ Len(x) \in 1..Len(frame)
    BY <1>10, <1>13 DEF Taken
  <2>2. IF Len(x) = Len(frame)
        THEN wire' = <<>> /\ Frames' = Tail(Frames)
        ELSE /\ wire' = wire \o SubSeq(frame, 1, Len(x))
             /\ Frames' = <<SubSeq(frame, Len(x) + 1, Len(frame))>> \o Tail(Frames)
    <3>1. CASE l
      BY <3>1, <1>1, <1>10, <1>13, <1>14, <1>16 DEF Taken
    <3>2. CASE ~l
      BY <3>2, <1>1, <1>10, <1>13, <1>14, <1>16 DEF Taken
    <3> QED
      BY <3>1, <3>2
  <2> QED
    BY <2>1, <2>2, <1>15 DEF FQ!Transmit

-----------------------------------------------------------------------------
LEMMA QueueInit == ASSUME Init PROVE FQ!Init
<1>1. Pending = 0 /\ Released = 0 /\ pc = "idle" /\ wire = <<>>
  BY DEF Init, Pending, Released, Dist, Slot
<1>2. OpenFrame = <<>>
  BY <1>1, JoinNone DEF OpenFrame, Carried
<1>3. Frames = <<>>
  BY <1>1, CutNone DEF Frames
<1> QED
  BY <1>1, <1>2, <1>3 DEF FQ!Init

LEMMA QueueStep ==
  ASSUME RoomForFirst, QueueInv, [Next]_vars
  PROVE  [FQ!Next]_(FQ!vars)
<1>1. ASSUME OpenFrame' = OpenFrame /\ Frames' = Frames /\ wire' = wire
      PROVE  UNCHANGED FQ!vars
  BY <1>1 DEF FQ!vars
<1>2. ASSUME NEW m \in Mbuf, NEW l \in BOOLEAN, Submit(m, l) PROVE FQ!Next
  BY <1>2, SubmitStep DEF FQ!Next
<1>3. ASSUME NEW c \in Mbuf, Compact(c) PROVE UNCHANGED FQ!vars
  BY <1>1, <1>3, CompactStep
<1>4. CASE Fill \/ WaitAndFree
  BY <1>1, <1>4, FillStep, WaitStep
<1>5. CASE Status /\ ~(call.last /\ current = first)
  BY <1>1, <1>5, StatusStep
<1>6. CASE (Status /\ call.last /\ current = first) \/ Release
  BY <1>6, ReleaseStep DEF FQ!Next
<1>7. CASE Close
  BY <1>7, CloseStep DEF FQ!Next
<1>8. CASE UNCHANGED vars
  <2>1. /\ UNCHANGED <<buf, last, arg, current, first, pc, call, discard>>
        /\ UNCHANGED <<content, hw, wire, ready>>
    BY <1>8 DEF vars, ring, caller
  <2>2. Pending' = Pending /\ Released' = Released
    BY <2>1 DEF Pending, Released, Dist
  <2>3. OpenFrame' = OpenFrame
    BY <2>1, <2>2 DEF OpenFrame, Carried, Held, Dist
  <2>4. Frames' = Frames
    BY <2>1, <2>2 DEF Frames, Held, Ended
  <2> QED
    BY <1>1, <2>1, <2>3, <2>4
<1> QED
  BY <1>2, <1>3, <1>4, <1>5, <1>6, <1>7, <1>8 DEF Next, Working

(***************************************************************************)
(* The ring of any size, with any number of mbufs, implements the FIFO of  *)
(* frames: fragments come out in the order they went in, a frame becomes   *)
(* visible to the controller as a whole, and a compaction, which merges    *)
(* buffers and takes BDs back, cannot be seen in the FIFO.                 *)
(***************************************************************************)
THEOREM RingImplementsFrameQueue == RoomForFirst => (Spec => ImplementsFrameQueue)
<1> SUFFICES ASSUME RoomForFirst PROVE Spec => ImplementsFrameQueue
  OBVIOUS
<1>1. Init => QueueInv /\ FQ!Init
  BY RingInit, MbufInit, CarryInit, QueueInit DEF QueueInv
<1>2. QueueInv /\ [Next]_vars => QueueInv'
  BY RingStep, MbufStep, CarryStep, NoneLastStep DEF QueueInv
<1>3. QueueInv /\ [Next]_vars => [FQ!Next]_(FQ!vars)
  BY QueueStep
<1> QED
  BY <1>1, <1>2, <1>3, PTL DEF Spec, ImplementsFrameQueue, FQ!Spec
=============================================================================
