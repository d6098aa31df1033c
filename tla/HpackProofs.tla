----------------------------- MODULE HpackProofs ----------------------------
(***************************************************************************)
(* Proofs about HpackSync: when a header block means the same at both      *)
(* ends, for any fields, sizes, commands and number of messages in flight. *)
(*                                                                         *)
(* Blocks are written and read by folds.  The induction over a sequence    *)
(* that their laws need is one over sets of numbers: a set that has 0 and  *)
(* the successors of its elements is Nat.                                  *)
(***************************************************************************)
EXTENDS HpackProperties, WellFoundedInduction, TLAPS

(***************************************************************************)
(* Induction                                                               *)
(***************************************************************************)
\* The least element of a set of numbers that are left out.
LEMMA SetInduction ==
    ASSUME NEW P, P \subseteq Nat, 0 \in P, \A n \in P : n + 1 \in P
    PROVE  P = Nat
  <1> SUFFICES ASSUME P # Nat PROVE FALSE
    OBVIOUS
  <1>1. PICK R : R = {p \in Nat \X Nat : p[1] < p[2]}
    OBVIOUS
  <1>2. IsWellFoundedOn(R, Nat)
    BY <1>1, NatLessThanWellFounded DEF OpToRel
  <1>3. PICK T : T = Nat \ P
    OBVIOUS
  <1>4. T \subseteq Nat /\ T # {}
    BY <1>3
  <1>5. \E x \in T : \A y \in T : ~ (<<y, x>> \in R)
    BY <1>2, <1>4, WFMin
  <1>6. PICK x \in T : \A y \in T : ~ (<<y, x>> \in R)
    BY <1>5
  <1>7. x \in Nat /\ x # 0
    BY <1>3
  <1>8. x - 1 \in P
    <2>1. x - 1 \in Nat /\ x - 1 < x
      BY <1>7
    <2>2. <<x - 1, x>> \in R
      BY <1>1, <1>7, <2>1
    <2> QED
      BY <1>3, <1>6, <2>1, <2>2
  <1>9. (x - 1) + 1 = x
    BY <1>7
  <1> QED
    BY <1>3, <1>6, <1>8, <1>9

\* What holds of the empty sequence and survives one more element holds of all.
LEMMA SeqInduction ==
    ASSUME NEW A, NEW P, P \subseteq Seq(A), <<>> \in P,
           \A q \in P, x \in A : Append(q, x) \in P
    PROVE  P = Seq(A)
  <1>1. PICK N : N = {n \in Nat : \A q \in Seq(A) : Len(q) = n => q \in P}
    OBVIOUS
  <1>2. 0 \in N /\ N \subseteq Nat
    <2>1. \A q \in Seq(A) : Len(q) = 0 => q = <<>>
      OBVIOUS
    <2> QED
      BY <1>1, <2>1
  <1>3. ASSUME NEW n \in N PROVE n + 1 \in N
    <2>1. n \in Nat /\ \A q \in Seq(A) : Len(q) = n => q \in P
      BY <1>1
    <2>2. ASSUME NEW q \in Seq(A), Len(q) = n + 1 PROVE q \in P
      <3>1. SubSeq(q, 1, n) \in Seq(A) /\ Len(SubSeq(q, 1, n)) = n
            /\ \A i \in 1..n : SubSeq(q, 1, n)[i] = q[i]
        BY <2>1, <2>2
      <3>2. PICK f \in Seq(A) : Len(f) = n /\ \A i \in 1..n : f[i] = q[i]
        BY <3>1
      <3>3. PICK x \in A : x = q[n + 1]
        BY <2>1, <2>2
      <3>4. PICK p \in Seq(A) : p = Append(f, x)
        <4>1. Append(f, x) \in Seq(A)
          OBVIOUS
        <4> QED
          BY <4>1
      <3>5. Len(p) = Len(q) /\ \A i \in 1..Len(p) : p[i] = q[i]
        <4>3. Len(p) = Len(f) + 1 /\ p[Len(f) + 1] = x /\ \A i \in 1..Len(f) : p[i] = f[i]
          BY <3>4
        <4>1. Len(p) = n + 1 /\ p[n + 1] = x /\ \A i \in 1..n : p[i] = f[i]
          BY <3>2, <4>3
        <4>2. \A i \in 1..(n + 1) : i \in 1..n \/ i = n + 1
          BY <2>1
        <4> QED
          BY <2>2, <3>2, <3>3, <4>1, <4>2
      <3>6. p = q
        <4>1. p \in Seq(A) /\ q \in Seq(A)
          OBVIOUS
        <4> QED
          BY ONLY <3>5, <4>1
      <3>7. f \in P
        <4>1. f \in Seq(A) /\ Len(f) = n
          BY <3>2
        <4> QED
          BY ONLY <2>1, <4>1
      <3>8. p \in P
        BY <3>4, <3>7
      <3> QED
        BY <3>6, <3>8
    <2> QED
      BY <1>1, <2>1, <2>2
  <1>4. N = Nat
    BY <1>2, <1>3, SetInduction
  <1>5. \A q \in Seq(A) : Len(q) \in Nat
    OBVIOUS
  <1> QED
    BY <1>1, <1>4, <1>5

\* A nonempty set of numbers has a least one.
LEMMA MinExists ==
    ASSUME NEW T, T \subseteq Nat, T # {}
    PROVE  /\ Min(T) \in T
           /\ \A y \in T : Min(T) <= y
  <1>1. PICK R : R = {p \in Nat \X Nat : p[1] < p[2]}
    OBVIOUS
  <1>2. IsWellFoundedOn(R, Nat)
    BY <1>1, NatLessThanWellFounded DEF OpToRel
  <1>3. \E x \in T : \A y \in T : ~ (<<y, x>> \in R)
    BY <1>2, WFMin
  <1>4. PICK x \in T : \A y \in T : ~ (<<y, x>> \in R)
    BY <1>3
  <1>5. \A y \in T : x <= y
    <2> TAKE y \in T
    <2>1. x \in Nat /\ y \in Nat
      OBVIOUS
    <2>2. ~(y < x)
      BY <1>1, <1>4, <2>1
    <2> QED
      BY <2>1, <2>2
  <1>6. Min(T) = CHOOSE z \in T : \A y \in T : z <= y
    BY DEF Min
  <1> QED
    BY <1>5, <1>6

LEMMA MinOfTwo ==
    ASSUME NEW m \in Nat, NEW n \in Nat
    PROVE  Min({m, n}) = IF m <= n THEN m ELSE n
  <1>1. PICK T : T = {m, n}
    OBVIOUS
  <1>2. T \subseteq Nat /\ T # {}
    BY <1>1
  <1>3. Min(T) \in T /\ \A y \in T : Min(T) <= y
    BY <1>2, MinExists
  <1>4. Min(T) \in {m, n} /\ Min(T) <= m /\ Min(T) <= n
    BY <1>1, <1>3
  <1>5. Min(T) = IF m <= n THEN m ELSE n
    BY <1>4
  <1> QED
    BY <1>1, <1>5

(***************************************************************************)
(* Folds.  FoldLeft takes the elements of a sequence off from the right;   *)
(* its value on the first i of them is the i-th of a run.                  *)
(***************************************************************************)
Runs(T, A, g, base, q) ==
    {c \in [0..Len(q) -> T] : /\ c[0] = base
                              /\ \A i \in 1..Len(q) : c[i] = g[<<c[i - 1], q[i]>>]}

\* What FoldLeft computes, step by step, over a set of positions.
FoldsBy(T, g, base, q, s, f) ==
    f[s] = IF s = {} THEN base ELSE g[<<f[s \ {Max(s)}], q[Max(s)]>>]

LEMMA MaxIs ==
    ASSUME NEW n \in Nat, NEW s \in SUBSET (1..n), n \in s
    PROVE  Max(s) = n
  <1>1. \A y \in s : n >= y
    OBVIOUS
  <1>2. \A x \in s : (\A y \in s : x >= y) => x = n
    OBVIOUS
  <1> QED
    BY <1>1, <1>2 DEF Max

LEMMA MaxExists ==
    ASSUME NEW n \in Nat, NEW s \in SUBSET (1..n), s # {}
    PROVE  Max(s) \in 1..n
  <1>1. PICK T : T = {k \in Nat : \A y \in s : y <= k}
    OBVIOUS
  <1>2. T \subseteq Nat /\ n \in T
    BY <1>1
  <1>3. PICK k \in Nat : k \in T /\ \A j \in T : k <= j
    BY <1>2, MinExists
  <1>4. \A y \in s : y \in Nat /\ y <= k /\ 1 <= y
    BY <1>1, <1>3
  <1>5. k \in s
    <2> SUFFICES ASSUME k \notin s PROVE FALSE
      OBVIOUS
    <2>0. PICK z \in s : TRUE
      OBVIOUS
    <2>1. k >= 1
      BY <1>4, <2>0
    <2>2. \A y \in s : y <= k - 1
      BY <1>4
    <2>3. k - 1 \in T
      BY <1>1, <2>1, <2>2
    <2>4. k <= k - 1
      BY <1>3, <2>3
    <2> QED
      BY <2>4
  <1>6. \E x \in s : \A y \in s : x >= y
    BY <1>4, <1>5
  <1>7. Max(s) \in s
    BY <1>6 DEF Max
  <1> QED
    BY <1>7

LEMMA FoldExists ==
    ASSUME NEW T, NEW A, NEW g \in [T \X A -> T], NEW base \in T, NEW q \in Seq(A)
    PROVE  \E f \in [SUBSET (1..Len(q)) -> T] :
              \A s \in SUBSET (1..Len(q)) : FoldsBy(T, g, base, q, s, f)
  <1> DEFINE Folded(n) ==
        \E f \in [SUBSET (1..n) -> T] : \A s \in SUBSET (1..n) : FoldsBy(T, g, base, q, s, f)
  <1>1. PICK P : P = {n \in Nat : n <= Len(q) => Folded(n)}
    OBVIOUS
  <1>2. Folded(0)
    <2>1. PICK f : f = [s \in SUBSET (1..0) |-> base]
      OBVIOUS
    <2>2. SUBSET (1..0) = {{}}
      OBVIOUS
    <2>3. f \in [SUBSET (1..0) -> T] /\ f[{}] = base
      BY <2>1, <2>2
    <2> QED
      BY <2>2, <2>3 DEF FoldsBy
  <1>3. ASSUME NEW n \in Nat, n + 1 <= Len(q), Folded(n)
        PROVE  Folded(n + 1)
    <2>1. PICK f \in [SUBSET (1..n) -> T] : \A s \in SUBSET (1..n) : FoldsBy(T, g, base, q, s, f)
      BY <1>3
    <2>2. PICK h : h = [s \in SUBSET (1..(n + 1)) |->
                          IF n + 1 \in s THEN g[<<f[s \ {n + 1}], q[n + 1]>>] ELSE f[s]]
      OBVIOUS
    <2>3. \A s \in SUBSET (1..(n + 1)) : n + 1 \notin s => s \in SUBSET (1..n)
      OBVIOUS
    <2>4. \A s \in SUBSET (1..(n + 1)) : s \ {n + 1} \in SUBSET (1..n)
      OBVIOUS
    <2>5. q[n + 1] \in A
      BY <1>3
    <2>6. h \in [SUBSET (1..(n + 1)) -> T]
      <3>1. \A t \in SUBSET (1..n) : g[<<f[t], q[n + 1]>>] \in T
        BY <2>1, <2>5
      <3>2. \A s \in SUBSET (1..(n + 1)) :
               (IF n + 1 \in s THEN g[<<f[s \ {n + 1}], q[n + 1]>>] ELSE f[s]) \in T
        BY <2>1, <2>3, <2>4, <3>1
      <3> QED
        BY <2>2, <3>2
    <2>7. \A t \in SUBSET (1..n) : h[t] = f[t]
      <3>1. \A t \in SUBSET (1..n) : t \in SUBSET (1..(n + 1)) /\ n + 1 \notin t
        OBVIOUS
      <3> QED
        BY <2>2, <3>1
    <2>8. ASSUME NEW s \in SUBSET (1..(n + 1))
          PROVE  FoldsBy(T, g, base, q, s, h)
      <3>1. CASE n + 1 \in s
        <4>1. Max(s) = n + 1
          BY <3>1, MaxIs
        <4>2. s # {} /\ h[s] = g[<<f[s \ {n + 1}], q[n + 1]>>]
          BY <2>2, <3>1
        <4>3. h[s \ {n + 1}] = f[s \ {n + 1}]
          BY <2>4, <2>7
        <4> QED
          BY <4>1, <4>2, <4>3 DEF FoldsBy
      <3>2. CASE n + 1 \notin s
        <4>1. s \in SUBSET (1..n) /\ s \ {Max(s)} \in SUBSET (1..n)
          BY <2>3, <3>2
        <4>2. h[s] = f[s] /\ h[s \ {Max(s)}] = f[s \ {Max(s)}]
          BY <2>7, <4>1
        <4>3. FoldsBy(T, g, base, q, s, f)
          BY <2>1, <4>1
        <4> QED
          BY <4>2, <4>3 DEF FoldsBy
      <3> QED
        BY <3>1, <3>2
    <2> QED
      BY <2>6, <2>8
  <1> HIDE DEF Folded
  <1>4. 0 \in P /\ P \subseteq Nat
    BY <1>1, <1>2
  <1>5. ASSUME NEW n \in P PROVE n + 1 \in P
    <2>1. n \in Nat /\ n + 1 \in Nat /\ Len(q) \in Nat
      BY <1>1
    <2>2. n + 1 <= Len(q) => Folded(n + 1)
      BY <1>1, <1>3, <2>1
    <2> QED
      BY <1>1, <2>1, <2>2
  <1>6. P = Nat
    BY <1>4, <1>5, SetInduction
  <1>7. Folded(Len(q))
    BY <1>1, <1>6
  <1> QED
    BY <1>7 DEF Folded

\* f folds as FoldLeft's function does; its run ends where it does.
FoldsOn(T, g, base, q, f) ==
    /\ f[{}] = base
    /\ \A s \in SUBSET (1..Len(q)) :
          s # {} /\ f[s \ {Max(s)}] \in T => f[s] = g[<<f[s \ {Max(s)}], q[Max(s)]>>]

RunsTo(T, A, g, base, q, f) ==
    \E c \in Runs(T, A, g, base, q) : c[Len(q)] = f[1..Len(q)]

LEMMA FoldRuns ==
    ASSUME NEW T, NEW A, NEW g \in [T \X A -> T], NEW base \in T, NEW q \in Seq(A),
           NEW f, FoldsOn(T, g, base, q, f)
    PROVE  RunsTo(T, A, g, base, q, f)
  <1>0. Len(q) \in Nat
    OBVIOUS
  <1>1. PICK c : c = [i \in 0..Len(q) |-> f[1..i]]
    OBVIOUS
  <1>2. c[0] = base
    <2>1. 1..0 = {}
      OBVIOUS
    <2> QED
      BY <1>0, <1>1, <2>1 DEF FoldsOn
  <1>3. ASSUME NEW i \in 1..Len(q), c[i - 1] \in T
        PROVE  c[i] = g[<<c[i - 1], q[i]>>] /\ c[i] \in T
    <2>1. i \in Nat /\ i - 1 \in 0..Len(q) /\ i \in 0..Len(q) /\ q[i] \in A
      BY <1>0
    <2>2. PICK s : s = 1..i
      OBVIOUS
    <2>3. s \in SUBSET (1..i) /\ i \in s /\ s \in SUBSET (1..Len(q)) /\ s # {}
      <3>1. i \in s /\ s \in SUBSET (1..i)
        BY <2>1, <2>2
      <3>2. s \in SUBSET (1..Len(q))
        BY <1>0, <2>1, <2>2
      <3> QED
        BY <3>1, <3>2
    <2>4. Max(s) = i
      BY <2>1, <2>3, MaxIs
    <2>5. s \ {i} = 1..(i - 1)
      BY <2>1, <2>2
    <2>6. c[i] = f[s] /\ c[i - 1] = f[s \ {i}]
      BY <1>1, <2>1, <2>2, <2>5
    <2>7. f[s] = g[<<f[s \ {Max(s)}], q[Max(s)]>>]
      BY <1>3, <2>3, <2>4, <2>6 DEF FoldsOn
    <2> QED
      BY <1>3, <2>1, <2>4, <2>6, <2>7
  <1>4. PICK P : P = {n \in Nat : n <= Len(q) => c[n] \in T}
    OBVIOUS
  <1>5. P = Nat
    <2>1. ASSUME NEW n \in P PROVE n + 1 \in P
      <3>1. n \in Nat /\ n + 1 \in Nat /\ (n + 1) - 1 = n
        BY <1>4
      <3>2. n + 1 <= Len(q) => n + 1 \in 1..Len(q) /\ c[n] \in T
        BY <1>0, <1>4, <3>1
      <3>3. n + 1 <= Len(q) => c[n + 1] \in T
        BY <1>3, <3>1, <3>2
      <3> QED
        BY <1>4, <3>1, <3>3
    <2>2. 0 \in P /\ P \subseteq Nat
      BY <1>2, <1>4
    <2> QED
      BY <2>1, <2>2, SetInduction
  <1>6. \A i \in 0..Len(q) : c[i] \in T
    BY <1>0, <1>4, <1>5
  <1>7. c \in [0..Len(q) -> T]
    BY <1>1, <1>6
  <1>8. \A i \in 1..Len(q) : c[i] = g[<<c[i - 1], q[i]>>]
    <2> TAKE i \in 1..Len(q)
    <2>1. i - 1 \in 0..Len(q)
      BY <1>0
    <2> QED
      BY <1>3, <1>6, <2>1
  <1>9. c \in Runs(T, A, g, base, q)
    BY <1>2, <1>7, <1>8 DEF Runs
  <1>10. c[Len(q)] = f[1..Len(q)]
    BY <1>0, <1>1
  <1> QED
    BY <1>9, <1>10 DEF RunsTo

\* p is q and x behind it.
Longer(p, q, x) ==
    /\ Len(p) = Len(q) + 1
    /\ p[Len(p)] = x
    /\ \A i \in 1..Len(q) : p[i] = q[i]

StepsOn(g, q, p, x, c, d) == d[Len(p)] = g[<<c[Len(q)], x>>]

\* A longer sequence runs as the shorter one does, and one step on.
LEMMA RunOn ==
    ASSUME NEW T, NEW A, NEW g \in [T \X A -> T], NEW base \in T, NEW q \in Seq(A), NEW x \in A,
           NEW p \in Seq(A), Longer(p, q, x),
           NEW c \in Runs(T, A, g, base, q), NEW d \in Runs(T, A, g, base, p)
    PROVE  StepsOn(g, q, p, x, c, d)
  <1>0. /\ Len(q) \in Nat /\ Len(p) = Len(q) + 1 /\ p[Len(q) + 1] = x
        /\ \A i \in 1..Len(q) : p[i] = q[i]
    BY DEF Longer
  <1>1. c \in [0..Len(q) -> T] /\ c[0] = base /\ \A i \in 1..Len(q) : c[i] = g[<<c[i - 1], q[i]>>]
    BY DEF Runs
  <1>2. d \in [0..Len(p) -> T] /\ d[0] = base /\ \A i \in 1..Len(p) : d[i] = g[<<d[i - 1], p[i]>>]
    BY DEF Runs
  <1>3. PICK P : P = {n \in Nat : n <= Len(q) => d[n] = c[n]}
    OBVIOUS
  <1>4. P = Nat
    <2>1. ASSUME NEW n \in P PROVE n + 1 \in P
      <3>1. n \in Nat /\ n + 1 \in Nat /\ (n + 1) - 1 = n
        BY <1>3
      <3>2. ASSUME n + 1 <= Len(q) PROVE d[n + 1] = c[n + 1]
        <4>1. n + 1 \in 1..Len(q) /\ n + 1 \in 1..Len(p) /\ p[n + 1] = q[n + 1] /\ d[n] = c[n]
          BY <1>0, <1>3, <3>1, <3>2
        <4>2. c[n + 1] = g[<<c[(n + 1) - 1], q[n + 1]>>]
          BY <1>1, <4>1
        <4>3. d[n + 1] = g[<<d[(n + 1) - 1], p[n + 1]>>]
          BY <1>2, <4>1
        <4> QED
          BY <3>1, <4>1, <4>2, <4>3
      <3> QED
        BY <1>3, <3>1, <3>2
    <2>2. 0 \in P /\ P \subseteq Nat
      BY <1>1, <1>2, <1>3
    <2> QED
      BY <2>1, <2>2, SetInduction
  <1>5. d[Len(q)] = c[Len(q)]
    BY <1>0, <1>3, <1>4
  <1>6. Len(p) \in 1..Len(p) /\ Len(p) - 1 = Len(q)
    BY <1>0
  <1> QED
    BY <1>0, <1>2, <1>5, <1>6 DEF StepsOn

(***************************************************************************)
(* Types                                                                   *)
(***************************************************************************)
Instruction == [op : {"size"}, size : Nat] \cup [op : {"indexed"}, index : Nat \ {0}]
                 \cup [op : {"inserted", "literal"}, field : Field]

Reading == [table : Decoder, fields : Seq(Field), ok : BOOLEAN, atStart : BOOLEAN]

Written == [encoder : Encoder, code : Seq(Instruction)]

\* What Resize keeps of a table.
Cut(s, n) == SubSeq(s, 1, Min({n, Len(s)}))

LEMMA CutIs ==
    ASSUME NEW s \in Seq(Field), NEW n \in Nat
    PROVE  /\ Cut(s, n) \in Seq(Field)
           /\ Len(Cut(s, n)) = IF n <= Len(s) THEN n ELSE Len(s)
           /\ \A i \in 1..Len(Cut(s, n)) : Cut(s, n)[i] = s[i]
  <1>1. PICK m \in Nat : m = IF n <= Len(s) THEN n ELSE Len(s)
    OBVIOUS
  <1>2. Cut(s, n) = SubSeq(s, 1, m) /\ m <= Len(s)
    BY <1>1, MinOfTwo DEF Cut
  <1> QED
    BY <1>1, <1>2

\* Cutting twice is cutting at the smaller size.
LEMMA CutCut ==
    ASSUME NEW s \in Seq(Field), NEW m \in Nat, NEW n \in Nat
    PROVE  Cut(Cut(s, m), n) = Cut(s, IF m <= n THEN m ELSE n)
  <1>1. PICK k \in Nat : k = IF m <= n THEN m ELSE n
    OBVIOUS
  <1>2. PICK t \in Seq(Field) : t = Cut(s, m)
    BY CutIs
  <1>3. PICK u \in Seq(Field) : u = Cut(t, n)
    BY CutIs
  <1>4. PICK v \in Seq(Field) : v = Cut(s, k)
    BY CutIs
  <1>5. /\ Len(t) = IF m <= Len(s) THEN m ELSE Len(s)
        /\ \A i \in 1..Len(t) : t[i] = s[i]
    BY <1>2, CutIs
  <1>6. /\ Len(u) = IF n <= Len(t) THEN n ELSE Len(t)
        /\ \A i \in 1..Len(u) : u[i] = t[i]
    BY <1>3, CutIs
  <1>7. /\ Len(v) = IF k <= Len(s) THEN k ELSE Len(s)
        /\ \A i \in 1..Len(v) : v[i] = s[i]
    BY <1>4, CutIs
  <1>8. Len(u) = Len(v) /\ Len(u) <= Len(t)
    BY <1>1, <1>5, <1>6, <1>7
  <1>9. \A i \in 1..Len(u) : u[i] = v[i]
    BY <1>5, <1>6, <1>7, <1>8
  <1>10. u = v
    BY <1>8, <1>9
  <1> QED
    BY <1>1, <1>2, <1>3, <1>4, <1>10

LEMMA CutAll ==
    ASSUME NEW s \in Seq(Field), NEW n \in Nat, Len(s) <= n
    PROVE  Cut(s, n) = s
  <1>1. PICK t \in Seq(Field) : t = Cut(s, n)
    BY CutIs
  <1>2. Len(t) = Len(s) /\ \A i \in 1..Len(t) : t[i] = s[i]
    BY <1>1, CutIs
  <1> QED
    BY <1>1, <1>2

LEMMA ResizeIs ==
    ASSUME NEW table, NEW n
    PROVE  Resize(table, n) = [table EXCEPT !.max = n, !.entries = Cut(@, n)]
  BY DEF Resize, Cut

LEMMA ResizeType ==
    ASSUME NEW n \in Nat
    PROVE  /\ \A d \in Decoder : Resize(d, n) \in Decoder /\ Resize(d, n).allowed = d.allowed
           /\ \A e \in Encoder : Resize(e, n) \in Encoder
  <1>1. \A s \in Seq(Field) : Cut(s, n) \in Seq(Field)
    BY CutIs
  <1> QED
    BY <1>1, ResizeIs DEF Decoder, Encoder

\* A field goes to the front, and what no longer fits goes.
LEMMA InsertIs ==
    ASSUME NEW f \in Field
    PROVE  /\ \A d \in Decoder :
                 Insert(d, f) = [d EXCEPT !.entries = Cut(<<f>> \o @, d.max)]
           /\ \A e \in Encoder :
                 Insert(e, f) = [e EXCEPT !.entries = Cut(<<f>> \o @, e.max)]
  BY ResizeIs DEF Insert, Decoder, Encoder

LEMMA AfterWritingType ==
    ASSUME NEW instruction \in Instruction
    PROVE  /\ \A d \in Decoder : /\ AfterWriting(d, instruction) \in Decoder
                                 /\ AfterWriting(d, instruction).allowed = d.allowed
           /\ \A e \in Encoder : AfterWriting(e, instruction) \in Encoder
  <1>1. CASE instruction.op = "inserted"
    <2>1. instruction.field \in Field
      BY <1>1 DEF Instruction
    <2>2. PICK f \in Field : f = instruction.field
      BY <2>1
    <2>3. \A s \in Seq(Field), n \in Nat : Cut(<<f>> \o s, n) \in Seq(Field)
      <3> TAKE s \in Seq(Field), n \in Nat
      <3>1. <<f>> \o s \in Seq(Field)
        OBVIOUS
      <3> QED
        BY <3>1, CutIs
    <2>4. ASSUME NEW d \in Decoder
          PROVE  Insert(d, f) \in Decoder /\ Insert(d, f).allowed = d.allowed
      <3>1. d.entries \in Seq(Field) /\ d.max \in Nat
        BY DEF Decoder
      <3>2. PICK t \in Seq(Field) : t = Cut(<<f>> \o d.entries, d.max)
        BY <2>3, <3>1
      <3>3. Insert(d, f) = [d EXCEPT !.entries = t]
        BY <3>2, InsertIs
      <3> QED
        BY <3>3 DEF Decoder
    <2>5. ASSUME NEW e \in Encoder
          PROVE  Insert(e, f) \in Encoder
      <3>1. e.entries \in Seq(Field) /\ e.max \in Nat
        BY DEF Encoder
      <3>2. PICK t \in Seq(Field) : t = Cut(<<f>> \o e.entries, e.max)
        BY <2>3, <3>1
      <3>3. Insert(e, f) = [e EXCEPT !.entries = t]
        BY <3>2, InsertIs
      <3> QED
        BY <3>3 DEF Encoder
    <2> QED
      BY <1>1, <2>2, <2>4, <2>5 DEF AfterWriting
  <1>2. CASE instruction.op # "inserted"
    BY <1>2 DEF AfterWriting
  <1> QED
    BY <1>1, <1>2

LEMMA ReadInstructionType ==
    ASSUME NEW reading \in Reading, NEW instruction \in Instruction
    PROVE  /\ ReadInstruction(reading, instruction) \in Reading
           /\ ReadInstruction(reading, instruction).table.allowed = reading.table.allowed
           /\ ~reading.ok => ~ReadInstruction(reading, instruction).ok
  <1>1. CASE ~reading.ok \/ Malformed(reading, instruction)
    BY <1>1 DEF ReadInstruction, Reading
  <1>2. CASE reading.ok /\ ~Malformed(reading, instruction) /\ instruction.op = "size"
    <2>1. instruction.size \in Nat /\ reading.table \in Decoder
      BY <1>2 DEF Instruction, Reading
    <2>2. Resize(reading.table, instruction.size) \in Decoder
          /\ Resize(reading.table, instruction.size).allowed = reading.table.allowed
      BY <2>1, ResizeType
    <2> QED
      BY <1>2, <2>2 DEF ReadInstruction, Reading
  <1>3. CASE reading.ok /\ ~Malformed(reading, instruction) /\ instruction.op # "size"
    <2>1. reading.table \in Decoder
      BY DEF Reading
    <2>2. AfterWriting(reading.table, instruction) \in Decoder
          /\ AfterWriting(reading.table, instruction).allowed = reading.table.allowed
      BY <2>1, AfterWritingType
    <2>3. PICK f : f = IF instruction.op = "indexed"
                       THEN reading.table.entries[instruction.index] ELSE instruction.field
      OBVIOUS
    <2>4. f \in Field
      <3>1. CASE instruction.op = "indexed"
        <4>1. instruction.index \in Nat \ {0}
          BY <3>1 DEF Instruction
        <4>2. instruction.index <= Len(reading.table.entries)
          BY <1>3, <3>1, <4>1, <2>1 DEF Malformed, Decoder
        <4>3. reading.table.entries \in Seq(Field)
          BY <2>1 DEF Decoder
        <4> QED
          BY <2>3, <3>1, <4>1, <4>2, <4>3
      <3>2. CASE instruction.op # "indexed"
        BY <1>3, <2>3, <3>2 DEF Instruction
      <3> QED
        BY <3>1, <3>2
    <2>5. PICK fields \in Seq(Field) : fields = Append(reading.fields, f)
      <3>1. reading.fields \in Seq(Field)
        BY DEF Reading
      <3>2. Append(reading.fields, f) \in Seq(Field)
        BY <2>4, <3>1
      <3> QED
        BY <3>2
    <2>6. PICK table \in Decoder : table = AfterWriting(reading.table, instruction)
      BY <2>2
    <2>7. ReadInstruction(reading, instruction) =
            [reading EXCEPT !.atStart = FALSE, !.table = table, !.fields = fields]
      BY <1>3, <2>3, <2>5, <2>6 DEF ReadInstruction
    <2> QED
      BY <1>3, <2>2, <2>6, <2>7 DEF Reading
  <1> QED
    BY <1>1, <1>2, <1>3 DEF Reading

(***************************************************************************)
(* The laws of the folds that read and write blocks                        *)
(***************************************************************************)
\* Decode, from the middle of a block on.
ReadOn(reading, code) == FoldLeft(ReadInstruction, reading, code)

Start(decoder0) == [table |-> decoder0, fields |-> <<>>, ok |-> TRUE, atStart |-> TRUE]

LEMMA DecodeIs ==
    ASSUME NEW d \in Decoder, NEW code
    PROVE  Decode(d, code) = ReadOn(Start(d), code) /\ Start(d) \in Reading
  BY DEF Decode, ReadOn, Start, Reading

ReadStep == [p \in Reading \X Instruction |-> ReadInstruction(p[1], p[2])]

LEMMA ReadOnRuns ==
    ASSUME NEW r \in Reading, NEW code \in Seq(Instruction)
    PROVE  \E c \in Runs(Reading, Instruction, ReadStep, r, code) : c[Len(code)] = ReadOn(r, code)
  <1> DEFINE Folds(f) ==
        f = [s \in SUBSET (DOMAIN code) |->
               IF s = {} THEN r ELSE ReadInstruction(f[s \ {Max(s)}], code[Max(s)])]
  <1>1. ReadStep \in [Reading \X Instruction -> Reading]
        /\ \A x \in Reading, y \in Instruction : ReadStep[<<x, y>>] = ReadInstruction(x, y)
    BY ReadInstructionType DEF ReadStep
  <1>2. DOMAIN code = 1..Len(code) /\ Len(code) \in Nat
    OBVIOUS
  <1>3. \A s \in SUBSET (1..Len(code)) : s # {} => s \ {Max(s)} \in SUBSET (1..Len(code))
    OBVIOUS
  <1>4. \A s \in SUBSET (1..Len(code)) : s # {} => code[Max(s)] \in Instruction
    BY <1>2, MaxExists
  <1>5. \E f : Folds(f)
    <2>1. PICK f \in [SUBSET (1..Len(code)) -> Reading] :
             \A s \in SUBSET (1..Len(code)) : FoldsBy(Reading, ReadStep, r, code, s, f)
      BY <1>1, FoldExists
    <2>2. ASSUME NEW s \in SUBSET (1..Len(code))
          PROVE  f[s] = IF s = {} THEN r ELSE ReadInstruction(f[s \ {Max(s)}], code[Max(s)])
      <3>1. f[s] = IF s = {} THEN r ELSE ReadStep[<<f[s \ {Max(s)}], code[Max(s)]>>]
        BY <2>1 DEF FoldsBy
      <3>2. s # {} => f[s \ {Max(s)}] \in Reading
        BY <1>3, <2>1
      <3> QED
        BY <1>1, <1>4, <3>1, <3>2
    <2>3. Folds(f)
      BY <1>2, <2>1, <2>2
    <2> QED
      BY <2>3
  <1>6. Folds(CHOOSE f : Folds(f))
    <2> HIDE DEF Folds
    <2> QED
      BY <1>5
  <1>7. PICK f : Folds(f) /\ ReadOn(r, code) = f[DOMAIN code]
    BY <1>6 DEF ReadOn, FoldLeft, MapThenFoldSet
  <1>8. f[{}] = r
    BY <1>7
  <1>9. \A s \in SUBSET (1..Len(code)) :
           s # {} /\ f[s \ {Max(s)}] \in Reading
              => f[s] = ReadStep[<<f[s \ {Max(s)}], code[Max(s)]>>]
    BY <1>1, <1>2, <1>4, <1>7
  <1>10. FoldsOn(Reading, ReadStep, r, code, f)
    BY <1>8, <1>9 DEF FoldsOn
  <1> HIDE DEF Folds
  <1>11. RunsTo(Reading, Instruction, ReadStep, r, code, f)
    BY <1>1, <1>10, FoldRuns
  <1> QED
    BY <1>2, <1>7, <1>11 DEF RunsTo

LEMMA ReadOnLaws ==
    ASSUME NEW r \in Reading, NEW code \in Seq(Instruction)
    PROVE  /\ ReadOn(r, code) \in Reading
           /\ code = <<>> => ReadOn(r, code) = r
           /\ \A x \in Instruction :
                 ReadOn(r, Append(code, x)) = ReadInstruction(ReadOn(r, code), x)
  <1>1. ReadStep \in [Reading \X Instruction -> Reading]
        /\ \A x \in Reading, y \in Instruction : ReadStep[<<x, y>>] = ReadInstruction(x, y)
    BY ReadInstructionType DEF ReadStep
  <1>2. PICK c \in Runs(Reading, Instruction, ReadStep, r, code) : c[Len(code)] = ReadOn(r, code)
    BY ReadOnRuns
  <1>3. Len(code) \in Nat /\ c \in [0..Len(code) -> Reading] /\ c[0] = r
    BY <1>2 DEF Runs
  <1>4. ReadOn(r, code) \in Reading /\ (code = <<>> => ReadOn(r, code) = r)
    BY <1>2, <1>3
  <1>5. ASSUME NEW x \in Instruction
        PROVE  ReadOn(r, Append(code, x)) = ReadInstruction(ReadOn(r, code), x)
    <2>1. Append(code, x) \in Seq(Instruction)
      OBVIOUS
    <2>2. PICK p \in Seq(Instruction) : p = Append(code, x)
      BY <2>1
    <2>3. PICK d \in Runs(Reading, Instruction, ReadStep, r, p) : d[Len(p)] = ReadOn(r, p)
      BY ReadOnRuns
    <2>4. Longer(p, code, x)
      BY <2>2 DEF Longer
    <2>5. StepsOn(ReadStep, code, p, x, c, d)
      BY <1>1, <2>4, RunOn
    <2>6. d[Len(p)] = ReadInstruction(ReadOn(r, code), x)
      BY <1>1, <1>2, <1>4, <2>5 DEF StepsOn
    <2>7. ReadOn(r, p) = ReadInstruction(ReadOn(r, code), x)
      BY <2>3, <2>6
    <2> QED
      BY <2>2, <2>7, Zenon
  <1> QED
    BY <1>4, <1>5

(***************************************************************************)
(* Writing                                                                 *)
(***************************************************************************)
WriteOn(written, fields) == FoldLeft(WriteField, written, fields)

WriteStep == [p \in Written \X Field |-> WriteField(p[1], p[2])]

LEMMA RepresentationIs ==
    ASSUME NEW e \in Encoder, NEW f \in Field
    PROVE  /\ Representation(e, f) \in Representations(e, f)
           /\ Representations(e, f) \subseteq Instruction
  <1>1. PICK T : T = Positions(e, f)
    OBVIOUS
  <1>2. e.entries \in Seq(Field)
    BY DEF Encoder
  <1>3. T \subseteq Nat \ {0}
    BY <1>1, <1>2 DEF Positions
  <1>4. T # {} => Min(T) \in T
    BY <1>3, MinExists
  <1>5. Representation(e, f) \in Representations(e, f)
    BY <1>1, <1>4 DEF Representation, Representations
  <1>6. \A i \in T : Indexed(i) \in Instruction
    BY <1>3 DEF Indexed, Instruction
  <1>7. Inserted(f) \in Instruction /\ Literal(f) \in Instruction
    BY DEF Inserted, Literal, Instruction
  <1> QED
    BY <1>1, <1>5, <1>6, <1>7 DEF Representations

LEMMA AnnouncementsType ==
    ASSUME NEW e \in Encoder
    PROVE  Announcements(e) \in Seq(Instruction)
  <1>1. SizeUpdate(e.lowest) \in Instruction /\ SizeUpdate(e.max) \in Instruction
    BY DEF SizeUpdate, Instruction, Encoder
  <1> QED
    BY <1>1 DEF Announcements

LEMMA WriteFieldType ==
    ASSUME NEW written \in Written, NEW f \in Field
    PROVE  WriteField(written, f) \in Written
  <1>1. PICK e \in Encoder : e = written.encoder
    BY DEF Written
  <1>2. PICK x \in Instruction : x = Representation(e, f)
    BY RepresentationIs
  <1>3. PICK e2 \in Encoder : e2 = AfterWriting(e, x)
    BY AfterWritingType
  <1>4. (written.code \o Announcements(e)) \o <<x>> \in Seq(Instruction)
    <2>1. written.code \in Seq(Instruction) /\ Announcements(e) \in Seq(Instruction)
      BY AnnouncementsType DEF Written
    <2>2. <<x>> \in Seq(Instruction)
      OBVIOUS
    <2> QED
      BY <2>1, <2>2
  <1>5. [e2 EXCEPT !.announce = FALSE] \in Encoder
    BY DEF Encoder
  <1>6. WriteField(written, f) = [encoder |-> [e2 EXCEPT !.announce = FALSE],
                                  code |-> (written.code \o Announcements(e)) \o <<x>>]
    BY <1>1, <1>2, <1>3 DEF WriteField
  <1> QED
    BY <1>4, <1>5, <1>6 DEF Written

LEMMA WriteOnRuns ==
    ASSUME NEW w \in Written, NEW fields \in Seq(Field)
    PROVE  \E c \in Runs(Written, Field, WriteStep, w, fields) : c[Len(fields)] = WriteOn(w, fields)
  <1> DEFINE Folds(f) ==
        f = [s \in SUBSET (DOMAIN fields) |->
               IF s = {} THEN w ELSE WriteField(f[s \ {Max(s)}], fields[Max(s)])]
  <1>1. WriteStep \in [Written \X Field -> Written]
        /\ \A x \in Written, y \in Field : WriteStep[<<x, y>>] = WriteField(x, y)
    BY WriteFieldType DEF WriteStep
  <1>2. DOMAIN fields = 1..Len(fields) /\ Len(fields) \in Nat
    OBVIOUS
  <1>3. \A s \in SUBSET (1..Len(fields)) : s # {} => s \ {Max(s)} \in SUBSET (1..Len(fields))
    OBVIOUS
  <1>4. \A s \in SUBSET (1..Len(fields)) : s # {} => fields[Max(s)] \in Field
    BY <1>2, MaxExists
  <1>5. \E f : Folds(f)
    <2>1. PICK f \in [SUBSET (1..Len(fields)) -> Written] :
             \A s \in SUBSET (1..Len(fields)) : FoldsBy(Written, WriteStep, w, fields, s, f)
      BY <1>1, FoldExists
    <2>2. ASSUME NEW s \in SUBSET (1..Len(fields))
          PROVE  f[s] = IF s = {} THEN w ELSE WriteField(f[s \ {Max(s)}], fields[Max(s)])
      <3>1. f[s] = IF s = {} THEN w ELSE WriteStep[<<f[s \ {Max(s)}], fields[Max(s)]>>]
        BY <2>1 DEF FoldsBy
      <3>2. s # {} => f[s \ {Max(s)}] \in Written
        BY <1>3, <2>1
      <3> QED
        BY <1>1, <1>4, <3>1, <3>2
    <2>3. Folds(f)
      BY <1>2, <2>1, <2>2
    <2> QED
      BY <2>3
  <1>6. Folds(CHOOSE f : Folds(f))
    <2> HIDE DEF Folds
    <2> QED
      BY <1>5
  <1>7. PICK f : Folds(f) /\ WriteOn(w, fields) = f[DOMAIN fields]
    BY <1>6 DEF WriteOn, FoldLeft, MapThenFoldSet
  <1>8. f[{}] = w
    BY <1>7
  <1>9. \A s \in SUBSET (1..Len(fields)) :
           s # {} /\ f[s \ {Max(s)}] \in Written
              => f[s] = WriteStep[<<f[s \ {Max(s)}], fields[Max(s)]>>]
    BY <1>1, <1>2, <1>4, <1>7
  <1>10. FoldsOn(Written, WriteStep, w, fields, f)
    BY <1>8, <1>9 DEF FoldsOn
  <1> HIDE DEF Folds
  <1>11. RunsTo(Written, Field, WriteStep, w, fields, f)
    BY <1>1, <1>10, FoldRuns
  <1> QED
    BY <1>2, <1>7, <1>11 DEF RunsTo

LEMMA WriteOnLaws ==
    ASSUME NEW w \in Written, NEW fields \in Seq(Field)
    PROVE  /\ WriteOn(w, fields) \in Written
           /\ fields = <<>> => WriteOn(w, fields) = w
           /\ \A x \in Field :
                 WriteOn(w, Append(fields, x)) = WriteField(WriteOn(w, fields), x)
  <1>1. WriteStep \in [Written \X Field -> Written]
        /\ \A x \in Written, y \in Field : WriteStep[<<x, y>>] = WriteField(x, y)
    BY WriteFieldType DEF WriteStep
  <1>2. PICK c \in Runs(Written, Field, WriteStep, w, fields) : c[Len(fields)] = WriteOn(w, fields)
    BY WriteOnRuns
  <1>3. Len(fields) \in Nat /\ c \in [0..Len(fields) -> Written] /\ c[0] = w
    BY <1>2 DEF Runs
  <1>4. WriteOn(w, fields) \in Written /\ (fields = <<>> => WriteOn(w, fields) = w)
    BY <1>2, <1>3
  <1>5. ASSUME NEW x \in Field
        PROVE  WriteOn(w, Append(fields, x)) = WriteField(WriteOn(w, fields), x)
    <2>1. Append(fields, x) \in Seq(Field)
      OBVIOUS
    <2>2. PICK p \in Seq(Field) : p = Append(fields, x)
      BY <2>1
    <2>3. PICK d \in Runs(Written, Field, WriteStep, w, p) : d[Len(p)] = WriteOn(w, p)
      BY WriteOnRuns
    <2>4. Longer(p, fields, x)
      BY <2>2 DEF Longer
    <2>5. StepsOn(WriteStep, fields, p, x, c, d)
      BY <1>1, <2>4, RunOn
    <2>6. d[Len(p)] = WriteField(WriteOn(w, fields), x)
      BY <1>1, <1>2, <1>4, <2>5 DEF StepsOn
    <2>7. WriteOn(w, p) = WriteField(WriteOn(w, fields), x)
      BY <2>3, <2>6
    <2> QED
      BY <2>2, <2>7, Zenon
  <1> QED
    BY <1>4, <1>5

(***************************************************************************)
(* Tables in step                                                          *)
(***************************************************************************)
Sound(e) == e.announce => e.lowest <= e.max

\* A decoder that has read all that was written has the encoder's table, but
\* for the sizes the encoder has yet to announce.
InStep(d, e) ==
    IF e.announce THEN e.entries = Cut(d.entries, e.lowest)
    ELSE d.entries = e.entries /\ d.max = e.max

LEMMA SetSizeIs ==
    ASSUME NEW e \in Encoder, NEW n \in Nat
    PROVE  /\ SetSize(e, n) \in Encoder
           /\ SetSize(e, n).max = n /\ SetSize(e, n).announce
           /\ SetSize(e, n).entries = Cut(e.entries, n)
           /\ SetSize(e, n).lowest = IF e.announce /\ e.lowest < n THEN e.lowest ELSE n
  <1>1. PICK t \in Seq(Field) : t = Cut(e.entries, n)
    BY CutIs DEF Encoder
  <1>2. Resize(e, n) = [e EXCEPT !.max = n, !.entries = t]
    BY <1>1, ResizeIs
  <1>3. PICK k \in Nat : k = IF e.announce /\ e.lowest < n THEN e.lowest ELSE n
    BY DEF Encoder
  <1>4. (IF e.announce THEN Min({e.lowest, n}) ELSE n) = k
    BY <1>3, MinOfTwo DEF Encoder
  <1>5. SetSize(e, n) = [[e EXCEPT !.max = n, !.entries = t] EXCEPT !.announce = TRUE, !.lowest = k]
    BY <1>2, <1>4 DEF SetSize, Encoder
  <1> QED
    BY <1>1, <1>3, <1>5 DEF Encoder

LEMMA SetSizeKeeps ==
    ASSUME NEW d \in Decoder, NEW e \in Encoder, NEW n \in Nat, InStep(d, e)
    PROVE  InStep(d, SetSize(e, n))
  <1>1. PICK e2 \in Encoder : e2 = SetSize(e, n)
    BY SetSizeIs
  <1>2. d.entries \in Seq(Field) /\ e.lowest \in Nat /\ e.entries \in Seq(Field)
    BY DEF Decoder, Encoder
  <1>3. CASE e.announce
    <2>0. PICK k \in Nat : k = IF e.lowest <= n THEN e.lowest ELSE n
      BY <1>2
    <2>1. e2.entries = Cut(Cut(d.entries, e.lowest), n)
      BY <1>1, <1>3, SetSizeIs DEF InStep
    <2>2. Cut(Cut(d.entries, e.lowest), n) = Cut(d.entries, IF e.lowest <= n THEN e.lowest ELSE n)
      BY <1>2, CutCut
    <2>3. e2.lowest = k /\ e2.announce
      <3>1. e2.announce /\ e2.lowest = IF e.announce /\ e.lowest < n THEN e.lowest ELSE n
        BY <1>1, SetSizeIs
      <3> QED
        BY <1>2, <1>3, <2>0, <3>1
    <2>4. e2.entries = Cut(d.entries, k)
      BY <2>0, <2>1, <2>2
    <2> QED
      BY <1>1, <2>3, <2>4 DEF InStep
  <1>4. CASE ~e.announce
    <2>1. e2.entries = Cut(d.entries, n) /\ e2.lowest = n /\ e2.announce
      BY <1>1, <1>4, SetSizeIs DEF InStep
    <2> QED
      BY <1>1, <2>1 DEF InStep
  <1> QED
    BY <1>3, <1>4

LEMMA SetSizeSound ==
    ASSUME NEW e \in Encoder, NEW n \in Nat
    PROVE  Sound(SetSize(e, n))
  <1>1. e.lowest \in Nat
    BY DEF Encoder
  <1>2. PICK low \in Nat : low = SetSize(e, n).lowest /\ low <= n
    <2>1. SetSize(e, n).lowest = IF e.announce /\ e.lowest < n THEN e.lowest ELSE n
      BY SetSizeIs
    <2> QED
      BY <1>1, <2>1
  <1>3. SetSize(e, n).max = n
    BY SetSizeIs
  <1> QED
    BY <1>2, <1>3 DEF Sound

LEMMA SetDecoderSizeIs ==
    ASSUME NEW d \in Decoder, NEW n \in Nat
    PROVE  /\ SetDecoderSize(d, n) \in Decoder
           /\ SetDecoderSize(d, n).entries = Cut(d.entries, n)
           /\ SetDecoderSize(d, n).max = n /\ SetDecoderSize(d, n).allowed = n
  <1>1. PICK t \in Seq(Field) : t = Cut(d.entries, n)
    BY CutIs DEF Decoder
  <1>2. SetDecoderSize(d, n) = [[d EXCEPT !.max = n, !.entries = t] EXCEPT !.allowed = n]
    BY <1>1, ResizeIs DEF SetDecoderSize
  <1> QED
    BY <1>1, <1>2 DEF Decoder

\* Both tables of a codec take a new size at once and stay in step.
LEMMA SetBothKeeps ==
    ASSUME NEW d \in Decoder, NEW e \in Encoder, NEW n \in Nat, InStep(d, e)
    PROVE  InStep(SetDecoderSize(d, n), SetSize(e, n))
  <1>1. PICK d2 \in Decoder : d2 = SetDecoderSize(d, n)
    BY SetDecoderSizeIs
  <1>2. PICK e2 \in Encoder : e2 = SetSize(e, n)
    BY SetSizeIs
  <1>3. PICK k \in Nat : k = e2.lowest
    BY DEF Encoder
  <1>4. d.entries \in Seq(Field) /\ d2.entries = Cut(d.entries, n) /\ e2.announce
    <2>1. d.entries \in Seq(Field)
      BY DEF Decoder
    <2>2. d2.entries = Cut(d.entries, n)
      BY <1>1, SetDecoderSizeIs
    <2>3. e2.announce
      BY <1>2, SetSizeIs
    <2> QED
      BY <2>1, <2>2, <2>3
  <1>5. e2.entries = Cut(d.entries, k)
    BY <1>2, <1>3, <1>4, SetSizeKeeps DEF InStep
  <1>6. k <= n
    BY <1>2, <1>3, SetSizeIs, SetSizeSound DEF Sound
  <1>7. Cut(Cut(d.entries, n), k) = Cut(d.entries, k)
    <2>1. Cut(Cut(d.entries, n), k) = Cut(d.entries, IF n <= k THEN n ELSE k)
      BY <1>4, CutCut
    <2>2. (IF n <= k THEN n ELSE k) = k
      BY <1>6
    <2> QED
      BY <2>1, <2>2
  <1> QED
    BY <1>1, <1>2, <1>3, <1>4, <1>5, <1>7 DEF InStep

(***************************************************************************)
(* SETTINGS of the peer reach both tables of the client's codec            *)
(***************************************************************************)
Codec == [encoder : Encoder, decoder : Decoder]

\* What the loop of applyFrame keeps.
Together(codec) ==
    /\ Sound(codec.encoder)
    /\ codec.encoder.max = codec.decoder.allowed

LEMMA SetMaxIs ==
    ASSUME NEW codec \in Codec, NEW n \in Nat
    PROVE  /\ SetMaxDynamicTableSize(codec, n) \in Codec
           /\ SetMaxDynamicTableSize(codec, n).encoder = SetSize(codec.encoder, n)
           /\ SetMaxDynamicTableSize(codec, n).decoder = SetDecoderSize(codec.decoder, n)
           /\ Together(SetMaxDynamicTableSize(codec, n))
  BY SetSizeIs, SetDecoderSizeIs, SetSizeSound DEF SetMaxDynamicTableSize, Codec, Together

ApplyStep == [p \in Codec \X Nat |-> SetMaxDynamicTableSize(p[1], p[2])]

LEMMA ApplyReceivedRuns ==
    ASSUME NEW codec \in Codec, NEW sizes \in Seq(Nat)
    PROVE  \E c \in Runs(Codec, Nat, ApplyStep, codec, sizes) : c[Len(sizes)] = ApplyReceived(codec, sizes)
  <1> DEFINE Folds(f) ==
        f = [s \in SUBSET (DOMAIN sizes) |->
               IF s = {} THEN codec ELSE SetMaxDynamicTableSize(f[s \ {Max(s)}], sizes[Max(s)])]
  <1>1. ApplyStep \in [Codec \X Nat -> Codec]
        /\ \A x \in Codec, y \in Nat : ApplyStep[<<x, y>>] = SetMaxDynamicTableSize(x, y)
    BY SetMaxIs DEF ApplyStep
  <1>2. DOMAIN sizes = 1..Len(sizes) /\ Len(sizes) \in Nat
    OBVIOUS
  <1>3. \A s \in SUBSET (1..Len(sizes)) : s # {} => s \ {Max(s)} \in SUBSET (1..Len(sizes))
    OBVIOUS
  <1>4. \A s \in SUBSET (1..Len(sizes)) : s # {} => sizes[Max(s)] \in Nat
    BY <1>2, MaxExists
  <1>5. \E f : Folds(f)
    <2>1. PICK f \in [SUBSET (1..Len(sizes)) -> Codec] :
             \A s \in SUBSET (1..Len(sizes)) : FoldsBy(Codec, ApplyStep, codec, sizes, s, f)
      BY <1>1, FoldExists
    <2>2. ASSUME NEW s \in SUBSET (1..Len(sizes))
          PROVE  f[s] = IF s = {} THEN codec ELSE SetMaxDynamicTableSize(f[s \ {Max(s)}], sizes[Max(s)])
      <3>1. f[s] = IF s = {} THEN codec ELSE ApplyStep[<<f[s \ {Max(s)}], sizes[Max(s)]>>]
        BY <2>1 DEF FoldsBy
      <3>2. s # {} => f[s \ {Max(s)}] \in Codec
        BY <1>3, <2>1
      <3> QED
        BY <1>1, <1>4, <3>1, <3>2
    <2>3. Folds(f)
      BY <1>2, <2>1, <2>2
    <2> QED
      BY <2>3
  <1>6. Folds(CHOOSE f : Folds(f))
    <2> HIDE DEF Folds
    <2> QED
      BY <1>5
  <1>7. PICK f : Folds(f) /\ ApplyReceived(codec, sizes) = f[DOMAIN sizes]
    BY <1>6 DEF ApplyReceived, FoldLeft, MapThenFoldSet
  <1>8. f[{}] = codec
    BY <1>7
  <1>9. \A s \in SUBSET (1..Len(sizes)) :
           s # {} /\ f[s \ {Max(s)}] \in Codec
              => f[s] = ApplyStep[<<f[s \ {Max(s)}], sizes[Max(s)]>>]
    BY <1>1, <1>2, <1>4, <1>7
  <1>10. FoldsOn(Codec, ApplyStep, codec, sizes, f)
    BY <1>8, <1>9 DEF FoldsOn
  <1> HIDE DEF Folds
  <1>11. RunsTo(Codec, Nat, ApplyStep, codec, sizes, f)
    BY <1>1, <1>10, FoldRuns
  <1> QED
    BY <1>2, <1>7, <1>11 DEF RunsTo

LEMMA ApplyReceivedLaws ==
    ASSUME NEW codec \in Codec, NEW sizes \in Seq(Nat)
    PROVE  /\ ApplyReceived(codec, sizes) \in Codec
           /\ sizes = <<>> => ApplyReceived(codec, sizes) = codec
           /\ \A x \in Nat :
                 ApplyReceived(codec, Append(sizes, x)) = SetMaxDynamicTableSize(ApplyReceived(codec, sizes), x)
  <1>1. ApplyStep \in [Codec \X Nat -> Codec]
        /\ \A x \in Codec, y \in Nat : ApplyStep[<<x, y>>] = SetMaxDynamicTableSize(x, y)
    BY SetMaxIs DEF ApplyStep
  <1>2. PICK c \in Runs(Codec, Nat, ApplyStep, codec, sizes) : c[Len(sizes)] = ApplyReceived(codec, sizes)
    BY ApplyReceivedRuns
  <1>3. Len(sizes) \in Nat /\ c \in [0..Len(sizes) -> Codec] /\ c[0] = codec
    BY <1>2 DEF Runs
  <1>4. ApplyReceived(codec, sizes) \in Codec /\ (sizes = <<>> => ApplyReceived(codec, sizes) = codec)
    BY <1>2, <1>3
  <1>5. ASSUME NEW x \in Nat
        PROVE  ApplyReceived(codec, Append(sizes, x)) = SetMaxDynamicTableSize(ApplyReceived(codec, sizes), x)
    <2>1. Append(sizes, x) \in Seq(Nat)
      OBVIOUS
    <2>2. PICK p \in Seq(Nat) : p = Append(sizes, x)
      BY <2>1
    <2>3. PICK d \in Runs(Codec, Nat, ApplyStep, codec, p) : d[Len(p)] = ApplyReceived(codec, p)
      BY ApplyReceivedRuns
    <2>4. Longer(p, sizes, x)
      BY <2>2 DEF Longer
    <2>5. StepsOn(ApplyStep, sizes, p, x, c, d)
      BY <1>1, <2>4, RunOn
    <2>6. d[Len(p)] = SetMaxDynamicTableSize(ApplyReceived(codec, sizes), x)
      BY <1>1, <1>2, <1>4, <2>5 DEF StepsOn
    <2>7. ApplyReceived(codec, p) = SetMaxDynamicTableSize(ApplyReceived(codec, sizes), x)
      BY <2>3, <2>6
    <2> QED
      BY <2>2, <2>7, Zenon
  <1> QED
    BY <1>4, <1>5


\* applyFrame keeps the two tables of the codec in step, and any other decoder
\* with the encoder.
Applied(codec, sizes, result) ==
    /\ result \in Codec
    /\ Together(result)
    /\ InStep(codec.decoder, codec.encoder) => InStep(result.decoder, result.encoder)
    /\ \A d \in Decoder : InStep(d, codec.encoder) => InStep(d, result.encoder)
    /\ result.encoder.max = Last(<<codec.encoder.max>> \o sizes)

LEMMA ApplyReceivedKeeps ==
    ASSUME NEW codec \in Codec, Together(codec), NEW sizes \in Seq(Nat)
    PROVE  Applied(codec, sizes, ApplyReceived(codec, sizes))
  <1>1. PICK P : P = {q \in Seq(Nat) : Applied(codec, q, ApplyReceived(codec, q))}
    OBVIOUS
  <1>2. P \subseteq Seq(Nat)
    BY <1>1
  <1>3. <<>> \in P
    <2>1. <<>> \in Seq(Nat) /\ ApplyReceived(codec, <<>>) = codec
      <3>0. <<>> \in Seq(Nat)
        OBVIOUS
      <3>1. PICK q \in Seq(Nat) : q = <<>>
        BY <3>0
      <3>2. ApplyReceived(codec, q) = codec
        BY <3>1, ApplyReceivedLaws
      <3> QED
        BY <3>1, <3>2
    <2>2. Last(<<codec.encoder.max>> \o <<>>) = codec.encoder.max
      <3>1. PICK n \in Nat : n = codec.encoder.max
        BY DEF Codec, Encoder
      <3>2. Last(<<n>> \o <<>>) = n
        BY DEF Last
      <3> QED
        BY <3>1, <3>2
    <2>3. Applied(codec, <<>>, codec)
      BY <2>2 DEF Applied
    <2> QED
      BY <1>1, <2>1, <2>3
  <1>4. ASSUME NEW q \in P, NEW n \in Nat
        PROVE  Append(q, n) \in P
    <2>1. q \in Seq(Nat) /\ Applied(codec, q, ApplyReceived(codec, q))
      BY <1>1
    <2>2. Append(q, n) \in Seq(Nat)
      BY <2>1
    <2>3. PICK p \in Seq(Nat) : p = Append(q, n)
      BY <2>2
    <2>4. PICK r \in Codec : r = ApplyReceived(codec, q)
      BY <2>1 DEF Applied
    <2>5. PICK t \in Codec : t = SetMaxDynamicTableSize(r, n)
      BY SetMaxIs
    <2>6. ApplyReceived(codec, p) = t
      <3>1. ApplyReceived(codec, Append(q, n)) = SetMaxDynamicTableSize(ApplyReceived(codec, q), n)
        BY <2>1, ApplyReceivedLaws
      <3> QED
        BY <2>3, <2>4, <2>5, <3>1
    <2>7. r.decoder \in Decoder /\ r.encoder \in Encoder /\ Applied(codec, q, r)
      BY <2>1, <2>4 DEF Codec
    <2>8. t.encoder = SetSize(r.encoder, n) /\ t.decoder = SetDecoderSize(r.decoder, n) /\ Together(t)
      BY <2>5, SetMaxIs
    <2>9. InStep(codec.decoder, codec.encoder) => InStep(t.decoder, t.encoder)
      BY <2>7, <2>8, SetBothKeeps DEF Applied
    <2>10. \A d \in Decoder : InStep(d, codec.encoder) => InStep(d, t.encoder)
      BY <2>7, <2>8, SetSizeKeeps DEF Applied
    <2>11. Last(<<codec.encoder.max>> \o p) = n
      <3>1. codec.encoder.max \in Nat
        BY DEF Codec, Encoder
      <3> QED
        <4>1. PICK s : s = <<codec.encoder.max>> \o p
          OBVIOUS
        <4>2. Len(s) = Len(q) + 2 /\ s[Len(q) + 2] = n
          BY <2>1, <2>3, <3>1, <4>1
        <4> QED
          BY <4>1, <4>2 DEF Last
    <2>12. t.encoder.max = n
      <3>1. PICK e \in Encoder : e = r.encoder
        BY <2>7
      <3>2. SetSize(e, n).max = n
        BY SetSizeIs
      <3> QED
        BY <2>8, <3>1, <3>2
    <2>13. Applied(codec, p, t)
      BY <2>8, <2>9, <2>10, <2>11, <2>12 DEF Applied
    <2> QED
      BY <1>1, <2>3, <2>6, <2>13
  <1>5. P = Seq(Nat)
    BY <1>2, <1>3, <1>4, SeqInduction
  <1> QED
    BY <1>1, <1>5

(***************************************************************************)
(* What is written is read                                                 *)
(***************************************************************************)
\* What a decoder does with a size update.
LEMMA ReadSizeIs ==
    ASSUME NEW r \in Reading, r.ok, r.atStart, NEW n \in Nat
    PROVE  /\ n > r.table.allowed => ~ReadInstruction(r, SizeUpdate(n)).ok
           /\ n <= r.table.allowed =>
                 ReadInstruction(r, SizeUpdate(n)) = [r EXCEPT !.table = Resize(@, n)]
  <1>1. SizeUpdate(n).op = "size" /\ SizeUpdate(n).size = n
    BY DEF SizeUpdate
  <1>2. r.table.allowed \in Nat
    BY DEF Reading, Decoder
  <1>3. Malformed(r, SizeUpdate(n)) <=> n > r.table.allowed
    BY <1>1 DEF Malformed
  <1>4. CASE n > r.table.allowed
    BY <1>2, <1>3, <1>4 DEF ReadInstruction, Reading
  <1>5. CASE n <= r.table.allowed
    BY <1>1, <1>2, <1>3, <1>5 DEF ReadInstruction
  <1> QED
    BY <1>2, <1>4, <1>5

\* r1 is r after the size updates of e.
Announced(r, e, r1) ==
    /\ r1 \in Reading /\ r1.table.allowed = r.table.allowed
    /\ e.announce /\ e.max > r.table.allowed => ~r1.ok
    /\ (e.announce => e.max <= r.table.allowed) =>
          /\ r1.ok /\ r1.fields = r.fields /\ r1.atStart = r.atStart
          /\ r1.table.entries = e.entries /\ r1.table.max = e.max

\* The reading r is where the writing is.
Follows(r, e) == r.ok /\ InStep(r.table, e) /\ (e.announce => r.atStart)

LEMMA AnnouncementsRead ==
    ASSUME NEW r0 \in Reading, NEW pre \in Seq(Instruction), NEW e \in Encoder,
           Sound(e), Follows(ReadOn(r0, pre), e)
    PROVE  Announced(ReadOn(r0, pre), e, ReadOn(r0, pre \o Announcements(e)))
  <1>1. PICK r \in Reading : r = ReadOn(r0, pre)
    BY ReadOnLaws
  <1>2. Follows(r, e) /\ r.table \in Decoder /\ r.table.entries \in Seq(Field) /\ r.table.allowed \in Nat
        /\ e.max \in Nat /\ e.lowest \in Nat
    BY <1>1 DEF Reading, Decoder, Encoder
  <1>3. CASE ~e.announce
    <2>1. pre \o Announcements(e) = pre
      BY <1>3 DEF Announcements
    <2>2. Announced(r, e, r)
      BY <1>2, <1>3 DEF Announced, Follows, InStep
    <2> QED
      BY <1>1, <2>1, <2>2
  <1>4. CASE e.announce /\ ~(e.lowest < e.max)
    <2>1. PICK u \in Instruction : u = SizeUpdate(e.max)
      BY <1>2 DEF SizeUpdate, Instruction
    <2>2. pre \o Announcements(e) = Append(pre, u)
      BY <1>4, <2>1 DEF Announcements
    <2>3. PICK r1 \in Reading : r1 = ReadInstruction(r, u)
      BY ReadInstructionType
    <2>4. ReadOn(r0, pre \o Announcements(e)) = r1
      BY <1>1, <2>2, <2>3, ReadOnLaws
    <2>5. e.lowest = e.max
      BY <1>2, <1>4 DEF Sound
    <2>6. CASE e.max > r.table.allowed
      <3>1. ~r1.ok
        BY <1>2, <1>4, <2>1, <2>3, <2>6, ReadSizeIs DEF Follows
      <3>2. r1.table.allowed = r.table.allowed
        BY <2>3, ReadInstructionType
      <3> QED
        BY <1>1, <1>2, <1>4, <2>4, <2>6, <3>1, <3>2 DEF Announced
    <2>7. CASE e.max <= r.table.allowed
      <3>1. r1 = [r EXCEPT !.table = Resize(@, e.max)]
        BY <1>2, <1>4, <2>1, <2>3, <2>7, ReadSizeIs DEF Follows
      <3>2. PICK t \in Decoder : t = Resize(r.table, e.max)
        BY <1>2, ResizeType
      <3>3. t.max = e.max /\ t.entries = Cut(r.table.entries, e.max)
        BY <1>2, <3>2, ResizeIs DEF Decoder
      <3>4. t.entries = e.entries
        BY <1>2, <1>4, <2>5, <3>3 DEF Follows, InStep
      <3>5. t.allowed = r.table.allowed
        BY <1>2, <3>2, ResizeType
      <3>6. r1 = [r EXCEPT !.table = t]
        BY <3>1, <3>2
      <3> QED
        BY <1>1, <1>2, <1>4, <2>4, <2>7, <3>3, <3>4, <3>5, <3>6 DEF Announced, Reading, Follows
    <2> QED
      BY <1>2, <2>6, <2>7
  <1>5. CASE e.announce /\ e.lowest < e.max
    <2>1. PICK u \in Instruction : u = SizeUpdate(e.lowest)
      BY <1>2 DEF SizeUpdate, Instruction
    <2>2. PICK v \in Instruction : v = SizeUpdate(e.max)
      BY <1>2 DEF SizeUpdate, Instruction
    <2>3. Append(pre, u) \in Seq(Instruction)
      OBVIOUS
    <2>4. PICK p \in Seq(Instruction) : p = Append(pre, u)
      BY <2>3
    <2>5. pre \o Announcements(e) = Append(p, v)
      <3>1. Announcements(e) = <<u, v>>
        BY <1>5, <2>1, <2>2 DEF Announcements
      <3>2. pre \o <<u, v>> = Append(Append(pre, u), v)
        OBVIOUS
      <3> QED
        BY <2>4, <3>1, <3>2
    <2>6. PICK r1 \in Reading : r1 = ReadInstruction(r, u)
      BY ReadInstructionType
    <2>7. PICK r2 \in Reading : r2 = ReadInstruction(r1, v)
      BY ReadInstructionType
    <2>8. r1 = ReadOn(r0, p)
      BY <1>1, <2>4, <2>6, ReadOnLaws
    <2>9. ReadOn(r0, pre \o Announcements(e)) = r2
      BY <2>5, <2>7, <2>8, ReadOnLaws
    <2>10. r1.table.allowed = r.table.allowed /\ r2.table.allowed = r.table.allowed
           /\ (~r1.ok => ~r2.ok)
      BY <2>6, <2>7, ReadInstructionType
    <2>11. CASE e.lowest > r.table.allowed
      <3>1. ~r1.ok
        BY <1>2, <1>5, <2>1, <2>6, <2>11, ReadSizeIs DEF Follows
      <3>2. e.max > r.table.allowed
        BY <1>2, <1>5, <2>11
      <3> QED
        BY <1>1, <1>2, <1>5, <2>9, <2>10, <3>1, <3>2 DEF Announced
    <2>12. CASE e.lowest <= r.table.allowed
      <3>1. r1 = [r EXCEPT !.table = Resize(@, e.lowest)]
        BY <1>2, <1>5, <2>1, <2>6, <2>12, ReadSizeIs DEF Follows
      <3>2. PICK t \in Decoder : t = Resize(r.table, e.lowest)
        BY <1>2, ResizeType
      <3>3. t.max = e.lowest /\ t.entries = Cut(r.table.entries, e.lowest)
        BY <1>2, <3>2, ResizeIs DEF Decoder
      <3>4. t.entries = e.entries
        BY <1>2, <1>5, <3>3 DEF Follows, InStep
      <3>5. t.allowed = r.table.allowed
        BY <1>2, <3>2, ResizeType
      <3>6. r1 = [r EXCEPT !.table = t]
        BY <3>1, <3>2
      <3>7. r1.ok /\ r1.atStart /\ r1.atStart = r.atStart /\ r1.table = t /\ r1.fields = r.fields
        BY <1>2, <1>5, <3>6 DEF Reading, Follows
      <3>8. CASE e.max > r.table.allowed
        <4>1. ~r2.ok
          BY <1>2, <2>2, <2>7, <3>5, <3>7, <3>8, ReadSizeIs
        <4> QED
          BY <1>1, <1>2, <1>5, <2>9, <2>10, <3>8, <4>1 DEF Announced
      <3>9. CASE e.max <= r.table.allowed
        <4>1. r2 = [r1 EXCEPT !.table = Resize(@, e.max)]
          BY <1>2, <2>2, <2>7, <3>5, <3>7, <3>9, ReadSizeIs
        <4>2. PICK w \in Decoder : w = Resize(t, e.max)
          BY <1>2, ResizeType
        <4>3. w.max = e.max /\ w.entries = Cut(t.entries, e.max)
          BY <4>2, ResizeIs DEF Decoder
        <4>4. Len(e.entries) <= e.lowest /\ e.entries \in Seq(Field)
          <5>1. Len(Cut(r.table.entries, e.lowest)) = IF e.lowest <= Len(r.table.entries)
                                                      THEN e.lowest ELSE Len(r.table.entries)
            BY <1>2, CutIs
          <5>2. Len(r.table.entries) \in Nat
            BY <1>2
          <5> QED
            BY <1>2, <3>3, <3>4, <5>1, <5>2 DEF Encoder
        <4>5. Cut(e.entries, e.max) = e.entries
          <5>1. Len(e.entries) <= e.max
            BY <1>2, <1>5, <4>4
          <5> QED
            BY <1>2, <4>4, <5>1, CutAll
        <4>6. r2 = [r1 EXCEPT !.table = w]
          BY <3>7, <4>1, <4>2
        <4>7. r2.ok /\ r2.atStart = r.atStart /\ r2.fields = r.fields /\ r2.table.max = e.max
              /\ r2.table.entries = e.entries
          BY <3>4, <3>7, <4>3, <4>5, <4>6 DEF Reading
        <4>8. Announced(r, e, r2)
          BY <1>2, <2>10, <3>9, <4>7 DEF Announced
        <4> QED
          BY <1>1, <2>9, <4>8
      <3> QED
        BY <1>2, <3>8, <3>9
    <2> QED
      BY <1>2, <2>11, <2>12
  <1> QED
    BY <1>3, <1>4, <1>5

\* After the announcements a field is read as it is written.
LEMMA OneFieldRead ==
    ASSUME NEW r \in Reading, r.ok, NEW e \in Encoder, NEW f \in Field,
           r.table.entries = e.entries, r.table.max = e.max,
           NEW x \in Representations(e, f)
    PROVE  LET r2 == ReadInstruction(r, x)
               e2 == AfterWriting(e, x)
           IN  /\ r2 \in Reading /\ r2.ok /\ r2.fields = Append(r.fields, f)
               /\ r2.table.allowed = r.table.allowed
               /\ r2.table.entries = e2.entries /\ r2.table.max = e2.max
               /\ e2 \in Encoder /\ e2.max = e.max
  <1>1. x \in Instruction
    BY RepresentationIs
  <1>2. PICK r2 \in Reading : r2 = ReadInstruction(r, x)
    BY <1>1, ReadInstructionType
  <1>3. PICK e2 \in Encoder : e2 = AfterWriting(e, x)
    BY <1>1, AfterWritingType
  <1>4. r2.table.allowed = r.table.allowed
    BY <1>1, <1>2, ReadInstructionType
  <1>5. PICK d \in Decoder : d = r.table
    BY DEF Reading
  <1>6. CASE x.op = "indexed"
    <2>1. PICK i \in Nat : x = Indexed(i) /\ i \in Positions(e, f)
      <3>1. x \in {Indexed(i) : i \in Positions(e, f)}
        BY <1>6 DEF Representations, Inserted, Literal
      <3>2. Positions(e, f) \subseteq Nat
        BY DEF Positions, Encoder
      <3> QED
        BY <3>1, <3>2
    <2>2. i \in 1..Len(e.entries) /\ e.entries[i] = f /\ x.index = i /\ e.entries \in Seq(Field)
      BY <2>1 DEF Positions, Indexed, Encoder
    <2>3. ~Malformed(r, x)
      BY <1>6, <2>2 DEF Malformed
    <2>4. AfterWriting(d, x) = d /\ e2 = e
      BY <1>3, <1>6 DEF AfterWriting
    <2>5. r2 = [r EXCEPT !.atStart = FALSE, !.table = d, !.fields = Append(@, f)]
      BY <1>2, <1>5, <1>6, <2>2, <2>3, <2>4 DEF ReadInstruction
    <2> QED
      BY <1>2, <1>3, <1>5, <2>4, <2>5 DEF Reading
  <1>7. CASE x = Literal(f)
    <2>1. x.op = "literal" /\ x.field = f
      BY <1>7 DEF Literal
    <2>2. AfterWriting(d, x) = d /\ e2 = e
      BY <1>3, <2>1 DEF AfterWriting
    <2>3. ~Malformed(r, x)
      BY <2>1 DEF Malformed
    <2>5. r2 = [r EXCEPT !.atStart = FALSE, !.table = d, !.fields = Append(@, f)]
      BY <1>2, <1>5, <2>1, <2>2, <2>3 DEF ReadInstruction
    <2> QED
      BY <1>2, <1>3, <1>5, <2>2, <2>5 DEF Reading
  <1>8. CASE x = Inserted(f)
    <2>1. x.op = "inserted" /\ x.field = f
      BY <1>8 DEF Inserted
    <2>2. PICK t \in Decoder : t = AfterWriting(d, x)
      BY <1>1, AfterWritingType
    <2>3. ~Malformed(r, x)
      BY <2>1 DEF Malformed
    <2>4. t = [d EXCEPT !.entries = Cut(<<f>> \o @, d.max)]
      BY <2>1, <2>2, InsertIs DEF AfterWriting
    <2>5. e2 = [e EXCEPT !.entries = Cut(<<f>> \o @, e.max)]
      BY <1>3, <2>1, InsertIs DEF AfterWriting
    <2>6. t.entries = e2.entries /\ t.max = e2.max /\ e2.max = e.max
      BY <1>5, <2>4, <2>5 DEF Decoder, Encoder
    <2>7. r2 = [r EXCEPT !.atStart = FALSE, !.table = t, !.fields = Append(@, f)]
      BY <1>2, <1>5, <2>1, <2>2, <2>3 DEF ReadInstruction
    <2> QED
      BY <1>2, <1>3, <1>4, <2>6, <2>7 DEF Reading
  <1>9. x.op = "indexed" \/ x = Inserted(f) \/ x = Literal(f)
    BY DEF Representations, Indexed
  <1> QED
    BY <1>6, <1>7, <1>8, <1>9

\* The encoder when it has written x.
Wrote(e, x) == [AfterWriting(e, x) EXCEPT !.announce = FALSE]

\* r2 is r after the announcements of e and one field.
FieldRead(r, e, f, x, r2) ==
    /\ r2 \in Reading /\ r2.table.allowed = r.table.allowed
    /\ e.announce /\ e.max > r.table.allowed => ~r2.ok
    /\ (e.announce => e.max <= r.table.allowed) =>
          /\ r2.fields = Append(r.fields, f)
          /\ r2.table.entries = Wrote(e, x).entries /\ r2.table.max = Wrote(e, x).max
          /\ Follows(r2, Wrote(e, x))

LEMMA WroteIs ==
    ASSUME NEW e \in Encoder, NEW x \in Instruction
    PROVE  /\ Wrote(e, x) \in Encoder
           /\ ~Wrote(e, x).announce /\ Sound(Wrote(e, x))
           /\ Wrote(e, x).entries = AfterWriting(e, x).entries
           /\ Wrote(e, x).max = e.max
  <1>1. PICK e2 \in Encoder : e2 = AfterWriting(e, x)
    BY AfterWritingType
  <1>2. e2.max = e.max
    <2>1. CASE x.op = "inserted"
      <3>1. x.field \in Field
        BY <2>1 DEF Instruction
      <3>2. e2 = [e EXCEPT !.entries = Cut(<<x.field>> \o @, e.max)]
        BY <1>1, <2>1, <3>1, InsertIs DEF AfterWriting
      <3> QED
        BY <3>2 DEF Encoder
    <2>2. CASE x.op # "inserted"
      BY <1>1, <2>2 DEF AfterWriting
    <2> QED
      BY <2>1, <2>2
  <1>3. Wrote(e, x) = [e2 EXCEPT !.announce = FALSE]
    BY <1>1 DEF Wrote
  <1> QED
    BY <1>1, <1>2, <1>3 DEF Encoder, Sound

LEMMA FieldIsRead ==
    ASSUME NEW r0 \in Reading, NEW pre \in Seq(Instruction), NEW e \in Encoder,
           Sound(e), Follows(ReadOn(r0, pre), e),
           NEW f \in Field, NEW x \in Representations(e, f)
    PROVE  FieldRead(ReadOn(r0, pre), e, f, x, ReadOn(r0, (pre \o Announcements(e)) \o <<x>>))
  <1>1. PICK r \in Reading : r = ReadOn(r0, pre)
    BY ReadOnLaws
  <1>2. pre \o Announcements(e) \in Seq(Instruction)
    BY AnnouncementsType
  <1>3. PICK p \in Seq(Instruction) : p = pre \o Announcements(e)
    BY <1>2
  <1>4. PICK r1 \in Reading : r1 = ReadOn(r0, p)
    BY ReadOnLaws
  <1>5. Announced(r, e, r1)
    BY <1>1, <1>3, <1>4, AnnouncementsRead
  <1>6. x \in Instruction
    BY RepresentationIs
  <1>7. PICK r2 \in Reading : r2 = ReadInstruction(r1, x)
    BY <1>6, ReadInstructionType
  <1>8. ReadOn(r0, (pre \o Announcements(e)) \o <<x>>) = r2
    <2>1. p \o <<x>> = Append(p, x)
      OBVIOUS
    <2>2. ReadOn(r0, Append(p, x)) = r2
      BY <1>4, <1>6, <1>7, ReadOnLaws
    <2> QED
      BY <1>3, <2>1, <2>2
  <1>9. r2.table.allowed = r.table.allowed /\ (~r1.ok => ~r2.ok)
    BY <1>5, <1>6, <1>7, ReadInstructionType DEF Announced
  <1>10. PICK e2 \in Encoder : e2 = Wrote(e, x)
    BY <1>6, WroteIs
  <1>11. ~e2.announce /\ e2.entries = AfterWriting(e, x).entries /\ e2.max = e.max
    BY <1>6, <1>10, WroteIs
  <1>12. ASSUME e.announce => e.max <= r.table.allowed
         PROVE  /\ r2.fields = Append(r.fields, f) /\ r2.ok
                /\ r2.table.entries = e2.entries /\ r2.table.max = e2.max
    <2>1. r1.ok /\ r1.fields = r.fields /\ r1.table.entries = e.entries /\ r1.table.max = e.max
      BY <1>5, <1>12 DEF Announced
    <2>2. /\ r2.ok /\ r2.fields = Append(r1.fields, f)
          /\ r2.table.entries = AfterWriting(e, x).entries /\ r2.table.max = AfterWriting(e, x).max
          /\ AfterWriting(e, x).max = e.max
      BY <1>7, <2>1, OneFieldRead
    <2> QED
      BY <1>11, <2>1, <2>2
  <1>13. FieldRead(r, e, f, x, r2)
    BY <1>5, <1>9, <1>10, <1>11, <1>12 DEF FieldRead, Announced, Follows, InStep
  <1> QED
    BY <1>1, <1>8, <1>13

\* What Encode returns: nothing for no fields; else the announcements come first.
Fragment(e, fields, w) ==
    /\ w \in Written /\ w.encoder.max = e.max /\ Sound(w.encoder)
    /\ fields = <<>> => w.encoder = e /\ w.code = <<>>
    /\ fields # <<>> => /\ ~w.encoder.announce /\ w.code # <<>>
                        /\ e.announce => w.code[1].op = "size"

LEMMA WriteFieldIs ==
    ASSUME NEW w \in Written, NEW f \in Field
    PROVE  \E x \in Representations(w.encoder, f) :
              /\ WriteField(w, f).encoder = Wrote(w.encoder, x)
              /\ WriteField(w, f).code = (w.code \o Announcements(w.encoder)) \o <<x>>
  <1>1. PICK x : x = Representation(w.encoder, f)
    OBVIOUS
  <1>2. x \in Representations(w.encoder, f)
    BY <1>1, RepresentationIs DEF Written
  <1>3. PICK e2 : e2 = Wrote(w.encoder, x)
    OBVIOUS
  <1>4. PICK code : code = (w.code \o Announcements(w.encoder)) \o <<x>>
    OBVIOUS
  <1>5. WriteField(w, f) = [encoder |-> e2, code |-> code]
    BY <1>1, <1>3, <1>4 DEF WriteField, Wrote
  <1>6. WriteField(w, f).encoder = e2 /\ WriteField(w, f).code = code
    BY <1>5
  <1> QED
    BY <1>2, <1>3, <1>4, <1>6

LEMMA FirstOfBlock ==
    ASSUME NEW e \in Encoder, NEW code \in Seq(Instruction), NEW x \in Instruction
    PROVE  /\ (code \o Announcements(e)) \o <<x>> # <<>>
           /\ code # <<>> => ((code \o Announcements(e)) \o <<x>>)[1] = code[1]
           /\ code = <<>> /\ e.announce => ((code \o Announcements(e)) \o <<x>>)[1].op = "size"
  <1>1. PICK a \in Seq(Instruction) : a = Announcements(e)
    BY AnnouncementsType
  <1>2. (code \o a) \o <<x>> # <<>>
    BY <1>1
  <1>3. code # <<>> => ((code \o a) \o <<x>>)[1] = code[1]
    BY <1>1
  <1>4. ASSUME code = <<>>, e.announce
        PROVE  ((code \o a) \o <<x>>)[1].op = "size"
    <2>1. a # <<>> /\ a[1].op = "size"
      BY <1>1, <1>4 DEF Announcements, SizeUpdate
    <2>2. ((code \o a) \o <<x>>)[1] = a[1]
      BY <1>1, <1>4, <2>1
    <2> QED
      BY <2>1, <2>2
  <1> QED
    BY <1>1, <1>2, <1>3, <1>4

LEMMA EncodeWrites ==
    ASSUME NEW e \in Encoder, Sound(e), NEW fields \in Seq(Field)
    PROVE  Fragment(e, fields, Encode(e, fields))
  <1>0. [encoder |-> e, code |-> <<>>] \in Written
    BY DEF Written
  <1>1. PICK w0 \in Written : w0 = [encoder |-> e, code |-> <<>>]
    BY <1>0
  <1>2. PICK P : P = {q \in Seq(Field) : Fragment(e, q, WriteOn(w0, q))}
    OBVIOUS
  <1>3. <<>> \in P
    <2>0. <<>> \in Seq(Field)
      OBVIOUS
    <2>1. PICK q \in Seq(Field) : q = <<>>
      BY <2>0
    <2>2. WriteOn(w0, q) = w0
      BY <2>1, WriteOnLaws
    <2>3. Fragment(e, q, w0)
      BY <1>1, <2>1 DEF Fragment
    <2> QED
      BY <1>2, <2>1, <2>2, <2>3
  <1>4. ASSUME NEW q \in P, NEW f \in Field
        PROVE  Append(q, f) \in P
    <2>1. q \in Seq(Field) /\ Fragment(e, q, WriteOn(w0, q))
      BY <1>2
    <2>2. Append(q, f) \in Seq(Field)
      BY <2>1
    <2>3. PICK p \in Seq(Field) : p = Append(q, f)
      BY <2>2
    <2>4. PICK w \in Written : w = WriteOn(w0, q)
      BY <2>1, WriteOnLaws
    <2>5. PICK v \in Written : v = WriteField(w, f)
      BY WriteFieldType
    <2>6. WriteOn(w0, p) = v
      BY <2>1, <2>3, <2>4, <2>5, WriteOnLaws
    <2>7. PICK x \in Representations(w.encoder, f) :
             v.encoder = Wrote(w.encoder, x) /\ v.code = (w.code \o Announcements(w.encoder)) \o <<x>>
      BY <2>5, WriteFieldIs
    <2>8. w.encoder \in Encoder /\ w.code \in Seq(Instruction) /\ x \in Instruction
      BY RepresentationIs DEF Written
    <2>9. w.encoder.max = e.max /\ Fragment(e, q, w)
      BY <2>1, <2>4 DEF Fragment
    <2>10. ~v.encoder.announce /\ v.encoder.max = e.max /\ Sound(v.encoder)
      BY <2>7, <2>8, <2>9, WroteIs
    <2>11. v.code # <<>> /\ (e.announce => v.code[1].op = "size")
      <3>1. PICK c \in Seq(Instruction) : c = w.code
        BY <2>8
      <3>2. PICK e1 \in Encoder : e1 = w.encoder
        BY <2>8
      <3>3. /\ v.code # <<>> /\ (c # <<>> => v.code[1] = c[1])
            /\ (c = <<>> /\ e1.announce => v.code[1].op = "size")
        <4>1. /\ (c \o Announcements(e1)) \o <<x>> # <<>>
              /\ c # <<>> => ((c \o Announcements(e1)) \o <<x>>)[1] = c[1]
              /\ c = <<>> /\ e1.announce => ((c \o Announcements(e1)) \o <<x>>)[1].op = "size"
          BY <2>8, FirstOfBlock
        <4>2. v.code = (c \o Announcements(e1)) \o <<x>>
          BY <2>7, <3>1, <3>2
        <4> QED
          BY <4>1, <4>2
      <3>4. q = <<>> => c = <<>> /\ e1 = e
        BY <2>9, <3>1, <3>2 DEF Fragment
      <3>5. q # <<>> => c # <<>> /\ (e.announce => c[1].op = "size")
        BY <2>9, <3>1 DEF Fragment
      <3>6. CASE q = <<>>
        <4>1. c = <<>> /\ e1 = e
          BY <3>4, <3>6
        <4>2. e1.announce => v.code[1].op = "size"
          BY <3>3, <4>1
        <4> QED
          BY <3>3, <4>1, <4>2
      <3>7. CASE q # <<>>
        <4>1. v.code[1] = c[1]
          BY <3>3, <3>5, <3>7
        <4> QED
          BY <3>3, <3>5, <3>7, <4>1
      <3> QED
        BY <3>6, <3>7
    <2>12. p # <<>>
      BY <2>1, <2>3
    <2>13. Fragment(e, p, v)
      BY <2>10, <2>11, <2>12 DEF Fragment
    <2> QED
      BY <1>2, <2>3, <2>6, <2>13
  <1>5. P = Seq(Field)
    BY <1>2, <1>3, <1>4, SeqInduction
  <1>6. Encode(e, fields) = WriteOn(w0, fields)
    BY <1>1 DEF Encode, WriteOn
  <1> QED
    BY <1>2, <1>5, <1>6

\* Four parts, put together from either end.
Regroups(p, c, a, b) == p \o ((c \o a) \o b) = ((p \o c) \o a) \o b

LEMMA FourParts ==
    ASSUME NEW A, NEW p \in Seq(A), NEW c \in Seq(A), NEW a \in Seq(A), NEW b \in Seq(A)
    PROVE  Regroups(p, c, a, b)
  BY DEF Regroups

EndsAlike(s, q, x) == Append(s \o q, x) = s \o Append(q, x)

LEMMA AppendToTail ==
    ASSUME NEW A, NEW s \in Seq(A), NEW q \in Seq(A), NEW x \in A
    PROVE  EndsAlike(s, q, x)
  BY DEF EndsAlike

FragmentRead(r, fields, w, r2) ==
    /\ r2 \in Reading /\ r2.table.allowed = r.table.allowed
    /\ Follows(r2, w.encoder)
    /\ r2.fields = r.fields \o fields

\* A decoder in step reads the fields that were written and stays in step, if it
\* allows the size that the encoder has to announce.
LEMMA FragmentIsRead ==
    ASSUME NEW r0 \in Reading, NEW pre \in Seq(Instruction), NEW e \in Encoder,
           Sound(e), Follows(ReadOn(r0, pre), e),
           e.announce => e.max <= ReadOn(r0, pre).table.allowed,
           NEW fields \in Seq(Field)
    PROVE  FragmentRead(ReadOn(r0, pre), fields, Encode(e, fields),
                        ReadOn(r0, pre \o Encode(e, fields).code))
  <1>0. [encoder |-> e, code |-> <<>>] \in Written
    BY DEF Written
  <1>1. PICK w0 \in Written : w0 = [encoder |-> e, code |-> <<>>]
    BY <1>0
  <1>2. PICK r \in Reading : r = ReadOn(r0, pre)
    BY ReadOnLaws
  <1>3. r.fields \in Seq(Field) /\ Follows(r, e) /\ (e.announce => e.max <= r.table.allowed)
    BY <1>2 DEF Reading
  <1>4. \A q \in Seq(Field) : WriteOn(w0, q) = Encode(e, q)
    BY <1>1 DEF Encode, WriteOn
  <1>5. PICK P : P = {q \in Seq(Field) :
                        FragmentRead(r, q, WriteOn(w0, q), ReadOn(r0, pre \o WriteOn(w0, q).code))}
    OBVIOUS
  <1>6. <<>> \in P
    <2>0. <<>> \in Seq(Field)
      OBVIOUS
    <2>1. PICK q \in Seq(Field) : q = <<>>
      BY <2>0
    <2>2. WriteOn(w0, q) = w0
      BY <2>1, WriteOnLaws
    <2>3. pre \o w0.code = pre
      BY <1>1
    <2>4. r.fields \o q = r.fields
      BY <1>3, <2>1
    <2>5. FragmentRead(r, q, w0, r)
      BY <1>1, <1>3, <2>4 DEF FragmentRead
    <2> QED
      BY <1>2, <1>5, <2>1, <2>2, <2>3, <2>5
  <1>7. ASSUME NEW q \in P, NEW f \in Field
        PROVE  Append(q, f) \in P
    <2>1. q \in Seq(Field) /\ FragmentRead(r, q, WriteOn(w0, q), ReadOn(r0, pre \o WriteOn(w0, q).code))
      BY <1>5
    <2>2. Append(q, f) \in Seq(Field)
      BY <2>1
    <2>3. PICK p \in Seq(Field) : p = Append(q, f)
      BY <2>2
    <2>4. PICK w \in Written : w = WriteOn(w0, q)
      BY <2>1, WriteOnLaws
    <2>5. PICK v \in Written : v = WriteField(w, f)
      BY WriteFieldType
    <2>6. WriteOn(w0, p) = v
      BY <2>1, <2>3, <2>4, <2>5, WriteOnLaws
    <2>7. PICK x \in Representations(w.encoder, f) :
             v.encoder = Wrote(w.encoder, x) /\ v.code = (w.code \o Announcements(w.encoder)) \o <<x>>
      BY <2>5, WriteFieldIs
    <2>8. w.encoder \in Encoder /\ w.code \in Seq(Instruction) /\ x \in Instruction
          /\ Announcements(w.encoder) \in Seq(Instruction)
      BY RepresentationIs, AnnouncementsType DEF Written
    <2>9. Fragment(e, q, w)
      BY <1>4, <2>1, <2>4, EncodeWrites
    <2>10. pre \o w.code \in Seq(Instruction)
      BY <2>8
    <2>11. PICK head \in Seq(Instruction) : head = pre \o w.code
      BY <2>10
    <2>12. PICK r1 \in Reading : r1 = ReadOn(r0, head)
      BY ReadOnLaws
    <2>13. FragmentRead(r, q, w, r1)
      BY <2>1, <2>4, <2>11, <2>12
    <2>14. w.encoder.announce => w.encoder.max <= r1.table.allowed
      BY <1>3, <2>9, <2>13 DEF Fragment, FragmentRead
    <2>15. PICK r2 : r2 = ReadOn(r0, (head \o Announcements(w.encoder)) \o <<x>>)
      OBVIOUS
    <2>16. FieldRead(r1, w.encoder, f, x, r2)
      BY <2>7, <2>8, <2>9, <2>12, <2>13, <2>15, FieldIsRead DEF Fragment, FragmentRead
    <2>17. pre \o v.code = (head \o Announcements(w.encoder)) \o <<x>>
      <3>1. PICK a \in Seq(Instruction) : a = Announcements(w.encoder)
        BY <2>8
      <3>2. PICK c \in Seq(Instruction) : c = w.code
        BY <2>8
      <3>3. <<x>> \in Seq(Instruction)
        BY <2>8
      <3>4. Regroups(pre, c, a, <<x>>)
        BY <3>3, FourParts
      <3> QED
        BY <2>7, <2>11, <3>1, <3>2, <3>4 DEF Regroups
    <2>18. r2.fields = r.fields \o p
      <3>1. r2.fields = Append(r1.fields, f) /\ r1.fields = r.fields \o q
        BY <2>13, <2>14, <2>16 DEF FieldRead, FragmentRead
      <3>2. PICK s \in Seq(Field) : s = r.fields
        BY <1>3
      <3>3. EndsAlike(s, q, f)
        BY <2>1, AppendToTail
      <3> QED
        BY <2>3, <3>1, <3>2, <3>3 DEF EndsAlike
    <2>19. Follows(r2, v.encoder)
      BY <2>7, <2>14, <2>16 DEF FieldRead
    <2>20. FragmentRead(r, p, v, r2)
      BY <2>13, <2>16, <2>18, <2>19 DEF FragmentRead, FieldRead
    <2> QED
      BY <1>5, <2>3, <2>6, <2>15, <2>17, <2>20
  <1>8. P = Seq(Field)
    BY <1>5, <1>6, <1>7, SeqInduction
  <1> QED
    BY <1>2, <1>4, <1>5, <1>8

(***************************************************************************)
(* Messages in flight.  An end that hears the messages of q, one after the *)
(* other, comes from the state a to the state z; R says what hearing one   *)
(* message may do.                                                         *)
(***************************************************************************)
Hears(R, S, q, a, z) ==
    \E c \in [0..Len(q) -> S] :
       /\ c[0] = a /\ c[Len(q)] = z
       /\ \A i \in 1..Len(q) : <<c[i - 1], q[i], c[i]>> \in R

LEMMA HearsType ==
    ASSUME NEW R, NEW S, NEW M, NEW q \in Seq(M), NEW a, NEW z, Hears(R, S, q, a, z)
    PROVE  a \in S /\ z \in S
  <1>1. Len(q) \in Nat
    OBVIOUS
  <1> QED
    BY <1>1 DEF Hears

LEMMA HearsNothing ==
    ASSUME NEW R, NEW S, NEW M, NEW q \in Seq(M), q = <<>>, NEW a \in S
    PROVE  /\ Hears(R, S, q, a, a)
           /\ \A z : Hears(R, S, q, a, z) => z = a
  <1>1. Len(q) = 0
    OBVIOUS
  <1>2. PICK c : c = [i \in 0..0 |-> a]
    OBVIOUS
  <1>3. c \in [0..0 -> S] /\ c[0] = a
    BY <1>2
  <1>4. Hears(R, S, q, a, a)
    BY <1>1, <1>3 DEF Hears
  <1> QED
    BY <1>1, <1>4 DEF Hears

LEMMA HearsMore ==
    ASSUME NEW R, NEW S, NEW M, NEW q \in Seq(M), NEW m \in M, NEW p \in Seq(M), Longer(p, q, m),
           NEW a, NEW z, NEW y \in S, Hears(R, S, q, a, z), <<z, m, y>> \in R
    PROVE  Hears(R, S, p, a, y)
  <1>0. Len(q) \in Nat /\ Len(p) = Len(q) + 1 /\ p[Len(q) + 1] = m /\ \A i \in 1..Len(q) : p[i] = q[i]
    BY DEF Longer
  <1>1. PICK c \in [0..Len(q) -> S] :
           /\ c[0] = a /\ c[Len(q)] = z
           /\ \A i \in 1..Len(q) : <<c[i - 1], q[i], c[i]>> \in R
    BY DEF Hears
  <1>2. PICK d : d = [i \in 0..Len(p) |-> IF i = Len(p) THEN y ELSE c[i]]
    OBVIOUS
  <1>3. \A i \in 0..Len(p) : i # Len(p) => i \in 0..Len(q)
    BY <1>0
  <1>4. d \in [0..Len(p) -> S]
    BY <1>1, <1>2, <1>3
  <1>5. \A i \in 0..Len(q) : d[i] = c[i]
    BY <1>0, <1>2
  <1>6. d[0] = a /\ d[Len(p)] = y
    BY <1>0, <1>1, <1>2, <1>5
  <1>7. ASSUME NEW i \in 1..Len(p) PROVE <<d[i - 1], p[i], d[i]>> \in R
    <2>1. CASE i = Len(p)
      <3>1. i - 1 = Len(q) /\ Len(q) \in 0..Len(q)
        BY <1>0, <2>1
      <3> QED
        BY <1>0, <1>1, <1>5, <1>6, <2>1, <3>1
    <2>2. CASE i # Len(p)
      <3>1. i \in 1..Len(q) /\ i - 1 \in 0..Len(q) /\ i \in 0..Len(q)
        BY <1>0, <2>2
      <3> QED
        BY <1>0, <1>1, <1>5, <3>1
    <2> QED
      BY <2>1, <2>2
  <1> QED
    BY <1>4, <1>6, <1>7 DEF Hears

LEMMA HearsFirst ==
    ASSUME NEW R, NEW S, NEW M, NEW q \in Seq(M), q # <<>>, NEW a, NEW z, Hears(R, S, q, a, z)
    PROVE  \E b \in S : <<a, Head(q), b>> \in R /\ Hears(R, S, Tail(q), b, z)
  <1>1. PICK c \in [0..Len(q) -> S] :
           /\ c[0] = a /\ c[Len(q)] = z
           /\ \A i \in 1..Len(q) : <<c[i - 1], q[i], c[i]>> \in R
    BY DEF Hears
  <1>2. PICK n \in Nat : Len(q) = n + 1
    <2>1. Len(q) \in Nat /\ Len(q) # 0
      OBVIOUS
    <2>2. Len(q) - 1 \in Nat /\ Len(q) = (Len(q) - 1) + 1
      BY <2>1
    <2> QED
      BY <2>2
  <1>3. PICK t \in Seq(M) : t = Tail(q)
    OBVIOUS
  <1>4. Len(t) = n /\ \A i \in 1..n : t[i] = q[i + 1]
    BY <1>2, <1>3
  <1>5. PICK d : d = [i \in 0..n |-> c[i + 1]]
    OBVIOUS
  <1>6. d \in [0..n -> S] /\ d[n] = z /\ d[0] = c[1]
    <2>1. \A i \in 0..n : i + 1 \in 0..Len(q)
      BY <1>2
    <2> QED
      BY <1>1, <1>2, <1>5, <2>1
  <1>7. ASSUME NEW i \in 1..n PROVE <<d[i - 1], t[i], d[i]>> \in R
    <2>1. i + 1 \in 1..Len(q) /\ (i + 1) - 1 = i /\ i - 1 \in 0..n /\ i \in 0..n /\ (i - 1) + 1 = i
      BY <1>2
    <2> QED
      BY <1>1, <1>4, <1>5, <2>1
  <1>8. Hears(R, S, t, d[0], z)
    BY <1>4, <1>6, <1>7 DEF Hears
  <1>9. <<a, Head(q), c[1]>> \in R /\ c[1] \in S
    <2>1. 1 \in 1..Len(q) /\ 1 - 1 = 0 /\ Head(q) = q[1] /\ 1 \in 0..Len(q)
      BY <1>2
    <2> QED
      BY <1>1, <2>1
  <1> QED
    BY <1>3, <1>6, <1>8, <1>9

\* Whatever a message of q does to a state, that of p does to its image.
Likewise(R, S, q, p, h) ==
    /\ Len(p) = Len(q)
    /\ \A i \in 1..Len(q) : \A x, y \in S : <<x, q[i], y>> \in R => <<h[x], p[i], h[y]>> \in R

LEMMA HearsAlike ==
    ASSUME NEW R, NEW S, NEW M, NEW q \in Seq(M), NEW p \in Seq(M), NEW h \in [S -> S],
           Likewise(R, S, q, p, h), NEW a, NEW z, Hears(R, S, q, a, z)
    PROVE  Hears(R, S, p, h[a], h[z])
  <1>1. PICK c \in [0..Len(q) -> S] :
           /\ c[0] = a /\ c[Len(q)] = z
           /\ \A i \in 1..Len(q) : <<c[i - 1], q[i], c[i]>> \in R
    BY DEF Hears
  <1>2. Len(q) \in Nat /\ Len(p) = Len(q)
    BY DEF Likewise
  <1>3. PICK d : d = [i \in 0..Len(q) |-> h[c[i]]]
    OBVIOUS
  <1>4. d \in [0..Len(q) -> S] /\ d[0] = h[a] /\ d[Len(q)] = h[z]
    BY <1>1, <1>2, <1>3
  <1>5. ASSUME NEW i \in 1..Len(q) PROVE <<d[i - 1], p[i], d[i]>> \in R
    <2>1. i - 1 \in 0..Len(q) /\ i \in 0..Len(q)
      BY <1>2
    <2>2. c[i - 1] \in S /\ c[i] \in S
      BY <1>1, <2>1
    <2> QED
      BY <1>1, <1>3, <2>1, <2>2 DEF Likewise
  <1> QED
    BY <1>2, <1>4, <1>5 DEF Hears

\* No message of q changes g.
Untouched(R, S, q, g) ==
    \A i \in 1..Len(q) : \A x, y \in S : <<x, q[i], y>> \in R => g[x] = g[y]

LEMMA HearsKeeps ==
    ASSUME NEW R, NEW S, NEW M, NEW q \in Seq(M), NEW g, Untouched(R, S, q, g),
           NEW a, NEW z, Hears(R, S, q, a, z)
    PROVE  g[a] = g[z]
  <1>1. PICK c \in [0..Len(q) -> S] :
           /\ c[0] = a /\ c[Len(q)] = z
           /\ \A i \in 1..Len(q) : <<c[i - 1], q[i], c[i]>> \in R
    BY DEF Hears
  <1>2. Len(q) \in Nat
    OBVIOUS
  <1>3. PICK P : P = {n \in Nat : n <= Len(q) => g[c[n]] = g[a]}
    OBVIOUS
  <1>4. 0 \in P /\ P \subseteq Nat
    BY <1>1, <1>3
  <1>5. ASSUME NEW n \in P PROVE n + 1 \in P
    <2>1. n \in Nat /\ n + 1 \in Nat /\ (n + 1) - 1 = n
      BY <1>3
    <2>2. ASSUME n + 1 <= Len(q) PROVE g[c[n + 1]] = g[a]
      <3>1. n + 1 \in 1..Len(q) /\ n \in 0..Len(q) /\ n + 1 \in 0..Len(q)
        BY <1>2, <2>1, <2>2
      <3>2. c[n] \in S /\ c[n + 1] \in S /\ <<c[n], q[n + 1], c[n + 1]>> \in R
        BY <1>1, <2>1, <3>1
      <3>3. g[c[n]] = g[c[n + 1]]
        BY <3>1, <3>2 DEF Untouched
      <3> QED
        BY <1>2, <1>3, <2>1, <2>2, <3>3
    <2> QED
      BY <1>3, <2>1, <2>2
  <1>6. P = Nat
    BY <1>4, <1>5, SetInduction
  <1> QED
    BY <1>1, <1>2, <1>3, <1>6

(***************************************************************************)
(* The inductive invariant                                                 *)
(***************************************************************************)
Message ==
    [type : {"settings"}, sizes : Seq(Nat)] \cup [type : {"ack"}] \cup [type : {"broken"}]
      \cup [type : {"block"}, code : Seq(Instruction), fields : Seq(Field), excused : BOOLEAN]

Verdict ==
    [by : {"nobody", "client", "tracker", "peer"}, right : BOOLEAN, excused : BOOLEAN]

BlockFrames ==
    [type : {"headers", "push_promise", "continuation"}, stream : Nat,
     code : Seq(Instruction), fields : Seq(Field), whole : BOOLEAN]

Fragments == [stream : Nat, code : Seq(Instruction), fields : Seq(Field)]

TypeOK ==
    /\ plan \in Plan
    /\ stage \in {"settings", "handshake", "request", "response", "any"}
    /\ encoder \in Encoder /\ tracker \in Decoder /\ decoder \in Decoder
    /\ pending \in Fragments /\ wire \in Fragments
    /\ owed \in Seq(Seq(Nat)) /\ unacked \in Seq(Seq(Nat))
    /\ peerEncoder \in Encoder /\ peerDecoder \in Decoder
    /\ peerLimit \in Nat /\ asked \in BOOLEAN
    /\ toPeer \in Seq(Message) /\ toClient \in Seq(Message)
    /\ verdict \in Verdict
    /\ step \in [requests : BOOLEAN, responses : BOOLEAN, tracker : BOOLEAN,
                 told : BOOLEAN, size : Nat, acked : Nat]

\* A decoder that reads the fragment s is where e is when it has written it.
Carries(d, e, s) ==
    /\ Decode(d, s.code).ok
    /\ Decode(d, s.code).fields = s.fields
    /\ InStep(Decode(d, s.code).table, e)

\* The client's second decoder, beside its encoder.
TrackerInv ==
    /\ Sound(encoder) /\ encoder.max = tracker.allowed /\ encoder.max = step.size
    /\ step.tracker => /\ Carries(tracker, encoder, pending)
                       /\ encoder.announce => pending.code = <<>>

(***************************************************************************)
(* The peer, when it has heard all that is on its way to it.               *)
(***************************************************************************)
PeerState == [table : Decoder, unacked : Seq(Seq(Nat)), limit : Nat]

HearsSettings(x, m, y) ==
    /\ m.type = "settings"
    /\ y = [x EXCEPT !.limit = Last(<<@>> \o m.sizes)]

HearsAck(x, m, y) ==
    /\ m.type = "ack" /\ x.unacked # <<>>
    /\ y.table = [x.table EXCEPT !.allowed = Last(<<@>> \o Head(x.unacked))]
    /\ y.unacked = Tail(x.unacked) /\ y.limit = x.limit

HearsBlock(x, m, y) ==
    /\ m.type = "block"
    /\ y = [x EXCEPT !.table = InsistentDecode(@, m.code).table]
    /\ m.excused \/ Right(InsistentDecode(x.table, m.code), m.fields)

\* It hears nothing here, and is never asked for what comes after.
HearsBroken(x, m, y) == m.type = "broken" /\ y = x

PeerHears ==
    {t \in PeerState \X Message \X PeerState :
       \/ HearsSettings(t[1], t[2], t[3])
       \/ HearsAck(t[1], t[2], t[3])
       \/ HearsBlock(t[1], t[2], t[3])
       \/ HearsBroken(t[1], t[2], t[3])}

PeerNow == [table |-> peerDecoder, unacked |-> unacked, limit |-> peerLimit]

\* Sizes wait at the peer for as long as their SETTINGS is on its way.
Waits ==
    {t \in Seq(Seq(Nat)) \X Message \X Seq(Seq(Nat)) :
       IF t[2].type = "settings" THEN t[1] # <<>> /\ Head(t[1]) = t[2].sizes /\ t[3] = Tail(t[1])
       ELSE t[3] = t[1]}

\* A decoder that takes no update after the first field and insists on one before
\* it, if its limit is below its table.
Insists(d, s) == s.code # <<>> => d.max <= d.allowed \/ s.code[1].op = "size"

PeerEnd(z) ==
    /\ z \in PeerState
    /\ Hears(PeerHears, PeerState, toPeer, PeerNow, z)
    /\ \E coming \in Seq(Seq(Nat)) :
          /\ Hears(Waits, Seq(Seq(Nat)), toClient, coming, <<>>)
          /\ z.unacked = owed \o coming
    /\ z.table.allowed = step.acked
    /\ step.told => z.limit <= decoder.allowed
    /\ step.requests => Carries(z.table, encoder, wire) /\ Insists(z.table, wire)

PeerInv == \E z : PeerEnd(z)

(***************************************************************************)
(* The client, when it has read all blocks that are on their way to it.    *)
(***************************************************************************)
Bare(table) == [entries |-> table.entries, max |-> table.max, allowed |-> 0]

ReadsBlock(x, m, y) ==
    \E e \in Encoder, f \in Field : \E i \in Representations(e, f) :
       /\ Sound(e) /\ InStep(x, e)
       /\ m.code = Announcements(e) \o <<i>> /\ m.fields = <<f>>
       /\ y = Bare(Wrote(e, i))

ClientHears ==
    {t \in Decoder \X Message \X Decoder :
       IF t[2].type = "block" THEN ReadsBlock(t[1], t[2], t[3]) ELSE t[3] = t[1]}

\* A block announces no more than n, unless its receiver is excused.
Within(n) ==
    {m \in Message :
       m.type = "block" /\ ~m.excused =>
          \A j \in 1..Len(m.code) : m.code[j].op = "size" => m.code[j].size <= n}

ClientInv ==
    /\ Sound(peerEncoder) /\ peerEncoder.max <= peerLimit
    /\ toClient \in Seq(Within(decoder.allowed))
    /\ step.responses =>
          \E x \in Decoder : /\ Hears(ClientHears, Decoder, toClient, Bare(decoder), x)
                             /\ InStep(x, peerEncoder)

(***************************************************************************)
(* A request needs no excuse.                                              *)
(***************************************************************************)
Others(type) == {m \in Message : m.type # type}

Meant == {m \in Message : m.type = "block" => ~m.excused}

SessionInv ==
    plan.mode = "request" =>
       /\ step.responses /\ step.tracker
       /\ stage # "any" /\ pending = NoBlock /\ wire = NoBlock /\ ~verdict.excused
       /\ stage # "response" => step.requests
       /\ stage = "settings" => toPeer = <<>>
       /\ stage # "settings" => step.told
       /\ stage # "response" => ~asked /\ toPeer \in Seq(Others("block"))
       /\ ~asked => toClient \in Seq(Others("block"))
       /\ asked => toPeer \in Seq(Others("settings"))
       /\ \A i, j \in 1..Len(toPeer) :
             i < j /\ toPeer[i].type = "block" => toPeer[j].type # "settings"
       /\ toPeer \in Seq(Meant) /\ toClient \in Seq(Meant)
       /\ stage \in {"settings", "request"} => owed = <<>>
       /\ owed = <<>> => encoder.max = step.acked
       /\ owed # <<>> => Len(owed) = 1 /\ encoder.max = Last(<<step.acked>> \o owed[1])

VerdictInv == ~verdict.excused => verdict.right

Inv == TypeOK /\ TrackerInv /\ PeerInv /\ ClientInv /\ SessionInv /\ VerdictInv

(***************************************************************************)
(* Blocks in pieces                                                        *)
(***************************************************************************)
LEMMA DecodeType ==
    ASSUME NEW d \in Decoder, NEW code \in Seq(Instruction)
    PROVE  /\ Decode(d, code) \in Reading
           /\ Decode(d, code).table \in Decoder /\ Decode(d, code).table.allowed = d.allowed
           /\ code = <<>> => Decode(d, code) = Start(d)
  <1>1. PICK P : P = {q \in Seq(Instruction) : ReadOn(Start(d), q).table.allowed = d.allowed}
    OBVIOUS
  <1>2. Start(d) \in Reading /\ Start(d).table = d
    BY DecodeIs DEF Start
  <1>3. <<>> \in P
    <2>0. <<>> \in Seq(Instruction)
      OBVIOUS
    <2>1. PICK q \in Seq(Instruction) : q = <<>>
      BY <2>0
    <2>2. ReadOn(Start(d), q) = Start(d)
      BY <1>2, <2>1, ReadOnLaws
    <2>3. ReadOn(Start(d), q).table.allowed = d.allowed
      BY <1>2, <2>2
    <2> QED
      BY <1>1, <2>1, <2>3
  <1>4. ASSUME NEW q \in P, NEW x \in Instruction
        PROVE  Append(q, x) \in P
    <2>1. q \in Seq(Instruction) /\ ReadOn(Start(d), q).table.allowed = d.allowed
      BY <1>1
    <2>2. Append(q, x) \in Seq(Instruction)
      BY <2>1
    <2>3. PICK p \in Seq(Instruction) : p = Append(q, x)
      BY <2>2
    <2>4. PICK r \in Reading : r = ReadOn(Start(d), q)
      BY <1>2, <2>1, ReadOnLaws
    <2>5. ReadOn(Start(d), p) = ReadInstruction(r, x)
      BY <1>2, <2>1, <2>3, <2>4, ReadOnLaws
    <2>6. ReadInstruction(r, x).table.allowed = r.table.allowed
      BY ReadInstructionType
    <2>7. ReadOn(Start(d), p).table.allowed = d.allowed
      BY <2>1, <2>4, <2>5, <2>6
    <2> QED
      BY <1>1, <2>3, <2>7
  <1>5. P = Seq(Instruction)
    BY <1>1, <1>3, <1>4, SeqInduction
  <1>6. Decode(d, code) = ReadOn(Start(d), code)
    BY DecodeIs
  <1>7. PICK r \in Reading : r = ReadOn(Start(d), code)
    BY <1>2, ReadOnLaws
  <1>8. r.table \in Decoder
    BY DEF Reading
  <1>9. code = <<>> => r = Start(d)
    BY <1>2, <1>7, ReadOnLaws
  <1> QED
    BY <1>1, <1>5, <1>6, <1>7, <1>8, <1>9

LEMMA InsistentDecodeIs ==
    ASSUME NEW d \in Decoder, NEW code \in Seq(Instruction)
    PROVE  /\ InsistentDecode(d, code) \in Reading
           /\ InsistentDecode(d, code).table \in Decoder
           /\ InsistentDecode(d, code).table.allowed = d.allowed
           /\ (code # <<>> => d.max <= d.allowed \/ code[1].op = "size")
                 => InsistentDecode(d, code) = Decode(d, code)
  <1>1. d.max \in Nat /\ d.allowed \in Nat
    BY DEF Decoder
  <1>2. CASE d.max > d.allowed /\ code # <<>> /\ code[1].op # "size"
    <2>0. <<>> \in Seq(Instruction)
      OBVIOUS
    <2>1. PICK q \in Seq(Instruction) : q = <<>>
      BY <2>0
    <2>2. PICK r \in Reading : r = Decode(d, q)
      BY DecodeType
    <2>3. InsistentDecode(d, code) = [r EXCEPT !.ok = FALSE]
      BY <1>2, <2>1, <2>2 DEF InsistentDecode
    <2>4. r.table \in Decoder /\ r.table.allowed = d.allowed
      BY <2>2, DecodeType
    <2>5. PICK k \in Reading : k = [r EXCEPT !.ok = FALSE]
      BY DEF Reading
    <2>6. k.table = r.table
      BY <2>5 DEF Reading
    <2>7. ~(code # <<>> => d.max <= d.allowed \/ code[1].op = "size")
      BY <1>1, <1>2
    <2> QED
      BY <2>3, <2>4, <2>5, <2>6, <2>7
  <1>3. CASE ~(d.max > d.allowed /\ code # <<>> /\ code[1].op # "size")
    <2>1. InsistentDecode(d, code) = Decode(d, code)
      BY <1>3 DEF InsistentDecode
    <2> QED
      BY <2>1, DecodeType
  <1> QED
    BY <1>2, <1>3

\* A fragment goes on where the one before it ended.
LEMMA CarriesOn ==
    ASSUME NEW d \in Decoder, NEW e \in Encoder, Sound(e), NEW s \in Fragments, Carries(d, e, s),
           NEW fields \in Seq(Field),
           fields # <<>> => /\ e.max <= d.allowed
                            /\ e.announce => s.code = <<>>,
           NEW s2 \in Fragments,
           s2.code = s.code \o Encode(e, fields).code, s2.fields = s.fields \o fields
    PROVE  Carries(d, Encode(e, fields).encoder, s2)
  <1>1. PICK w \in Written : w = Encode(e, fields)
    BY EncodeWrites DEF Fragment
  <1>2. s.code \in Seq(Instruction) /\ s.fields \in Seq(Field) /\ s2.code \in Seq(Instruction)
    BY DEF Fragments
  <1>3. Start(d) \in Reading /\ Decode(d, s.code) = ReadOn(Start(d), s.code)
        /\ Decode(d, s2.code) = ReadOn(Start(d), s2.code)
    BY DecodeIs
  <1>4. CASE fields = <<>>
    <2>1. w.encoder = e /\ w.code = <<>>
      BY <1>1, <1>4, EncodeWrites DEF Fragment
    <2>2. s2.code = s.code /\ s2.fields = s.fields
      <3>1. PICK c \in Seq(Instruction) : c = s.code
        BY <1>2
      <3>2. PICK g \in Seq(Field) : g = s.fields
        BY <1>2
      <3>3. c \o <<>> = c /\ g \o <<>> = g
        OBVIOUS
      <3> QED
        BY <1>1, <1>4, <2>1, <3>1, <3>2, <3>3
    <2> QED
      BY <1>1, <2>1, <2>2 DEF Carries
  <1>5. CASE fields # <<>>
    <2>1. PICK r \in Reading : r = ReadOn(Start(d), s.code)
      BY <1>2, <1>3, ReadOnLaws
    <2>2. r.table.allowed = d.allowed /\ (s.code = <<>> => r.atStart)
      BY <1>2, <1>3, <2>1, DecodeType DEF Start
    <2>3. Follows(r, e) /\ r.fields = s.fields
      BY <1>3, <1>5, <2>1, <2>2 DEF Carries, Follows
    <2>4. e.announce => e.max <= r.table.allowed
      BY <1>5, <2>2
    <2>5. FragmentRead(r, fields, w, ReadOn(Start(d), s.code \o w.code))
      BY <1>1, <1>2, <1>3, <2>1, <2>3, <2>4, FragmentIsRead
    <2>6. FragmentRead(r, fields, w, Decode(d, s2.code))
      BY <1>1, <1>3, <2>5
    <2> QED
      BY <1>1, <2>3, <2>6 DEF FragmentRead, Follows, Carries
  <1> QED
    BY <1>4, <1>5

\* A block that is carried is read right, and leaves the tables in step.
LEMMA CarriesWhole ==
    ASSUME NEW d \in Decoder, NEW e \in Encoder, NEW s \in Fragments, Carries(d, e, s)
    PROVE  /\ Right(Decode(d, s.code), s.fields)
           /\ Carries(Decode(d, s.code).table, e, NoBlock)
  <1>1. s.code \in Seq(Instruction)
    BY DEF Fragments
  <1>2. PICK d2 \in Decoder : d2 = Decode(d, s.code).table
    BY <1>1, DecodeType
  <1>3. <<>> \in Seq(Instruction)
    OBVIOUS
  <1>4. PICK q \in Seq(Instruction) : q = <<>>
    BY <1>3
  <1>5. Decode(d2, q) = Start(d2)
    BY <1>4, DecodeType
  <1>6. Start(d2).ok /\ Start(d2).fields = <<>> /\ Start(d2).table = d2
    BY DEF Start
  <1>7. NoBlock.code = q /\ NoBlock.fields = <<>>
    BY <1>4 DEF NoBlock
  <1> QED
    BY <1>2, <1>5, <1>6, <1>7 DEF Carries, Right

LEMMA JoinedIs ==
    ASSUME NEW s \in Fragments, NEW f \in BlockFrames
    PROVE  /\ Joined(s, f) \in Fragments
           /\ s = NoBlock => Joined(s, f).code = f.code /\ Joined(s, f).fields = f.fields
           /\ f.code = <<>> => Joined(s, f).code = s.code
           /\ f.fields = <<>> => Joined(s, f).fields = s.fields
  <1>1. PICK c \in Seq(Instruction), g \in Seq(Field) : c = s.code /\ g = s.fields
    BY DEF Fragments
  <1>2. PICK d \in Seq(Instruction), h \in Seq(Field) : d = f.code /\ h = f.fields
    BY DEF BlockFrames
  <1>3. c \o d \in Seq(Instruction) /\ g \o h \in Seq(Field) /\ f.stream \in Nat
    BY DEF BlockFrames
  <1>4. c = <<>> /\ g = <<>> => c \o d = d /\ g \o h = h
    OBVIOUS
  <1>5. (d = <<>> => c \o d = c) /\ (h = <<>> => g \o h = g)
    OBVIOUS
  <1>6. s = NoBlock => c = <<>> /\ g = <<>>
    BY <1>1 DEF NoBlock
  <1>7. Joined(s, f) = [stream |-> f.stream, code |-> c \o d, fields |-> g \o h]
    BY <1>1, <1>2 DEF Joined
  <1>8. PICK p \in Seq(Instruction), q \in Seq(Field) : p = c \o d /\ q = g \o h
    BY <1>3
  <1>9. PICK r \in Fragments : r = [stream |-> f.stream, code |-> p, fields |-> q]
    BY <1>3 DEF Fragments
  <1>10. Joined(s, f) = r /\ r.code = p /\ r.fields = q
    BY <1>7, <1>8, <1>9
  <1>11. s = NoBlock => p = d /\ q = h
    BY <1>4, <1>6, <1>8
  <1>12. (d = <<>> => p = c) /\ (h = <<>> => q = g)
    BY <1>5, <1>8
  <1> QED
    BY <1>1, <1>2, <1>10, <1>11, <1>12

LEMMA BlockFrameIs ==
    ASSUME NEW kind \in Kind, NEW code \in Seq(Instruction), NEW fields \in Seq(Field),
           NEW whole \in BOOLEAN
    PROVE  /\ BlockFrame(kind, code, fields, whole) \in BlockFrames
           /\ BlockFrame(kind, code, fields, whole).type = kind.type
           /\ BlockFrame(kind, code, fields, whole).stream = kind.stream
           /\ BlockFrame(kind, code, fields, whole).code = code
           /\ BlockFrame(kind, code, fields, whole).fields = fields
           /\ BlockFrame(kind, code, fields, whole).whole = whole
  BY DEF BlockFrame, Kind, BlockFrames

(***************************************************************************)
(* Queues and sizes                                                        *)
(***************************************************************************)
LEMMA AppendIs ==
    ASSUME NEW A, NEW q \in Seq(A), NEW x \in A
    PROVE  Append(q, x) \in Seq(A) /\ Longer(Append(q, x), q, x)
  BY DEF Longer

LEMMA TailIs ==
    ASSUME NEW A, NEW q \in Seq(A), q # <<>>
    PROVE  /\ Head(q) \in A /\ Tail(q) \in Seq(A)
           /\ Len(Tail(q)) \in Nat /\ Len(q) = Len(Tail(q)) + 1
           /\ \A i \in 1..Len(Tail(q)) : Tail(q)[i] = q[i + 1]
  OBVIOUS

LEMMA AllAreSeq ==
    ASSUME NEW A, NEW q \in Seq(A), NEW B, \A i \in 1..Len(q) : q[i] \in B
    PROVE  q \in Seq(B)
  OBVIOUS

\* Of several sizes the last counts, of none the one before.
LEMMA LastIs ==
    ASSUME NEW n \in Nat, NEW sizes \in Seq(Nat)
    PROVE  /\ Last(<<n>> \o sizes) \in Nat
           /\ sizes = <<>> => Last(<<n>> \o sizes) = n
           /\ sizes # <<>> => /\ Len(sizes) \in 1..Len(sizes)
                              /\ Last(<<n>> \o sizes) = sizes[Len(sizes)]
  <1>1. PICK s \in Seq(Nat) : s = <<n>> \o sizes
    <2>1. <<n>> \o sizes \in Seq(Nat)
      OBVIOUS
    <2> QED
      BY <2>1
  <1>2. Len(s) = Len(sizes) + 1 /\ s[1] = n /\ \A i \in 1..Len(sizes) : s[i + 1] = sizes[i]
    BY <1>1
  <1>3. Last(s) = s[Len(sizes) + 1]
    BY <1>2 DEF Last
  <1>4. Len(sizes) \in Nat
    OBVIOUS
  <1>5. sizes = <<>> => Len(sizes) = 0
    OBVIOUS
  <1>6. sizes # <<>> => Len(sizes) \in 1..Len(sizes) /\ sizes[Len(sizes)] \in Nat
    OBVIOUS
  <1> QED
    BY <1>1, <1>2, <1>3, <1>4, <1>5, <1>6

\* The kinds of messages.
LEMMA MessageIs ==
    /\ \A sizes \in Seq(Nat) : /\ Settings(sizes) \in Message /\ Settings(sizes).type = "settings"
                               /\ Settings(sizes).sizes = sizes
    /\ Ack \in Message /\ Ack.type = "ack"
    /\ Broken \in Message /\ Broken.type = "broken"
    /\ \A code \in Seq(Instruction), fields \in Seq(Field), excused \in BOOLEAN :
          /\ Block(code, fields, excused) \in Message /\ Block(code, fields, excused).type = "block"
          /\ Block(code, fields, excused).code = code
          /\ Block(code, fields, excused).fields = fields
          /\ Block(code, fields, excused).excused = excused
    /\ \A m \in Message : /\ m.type = "settings" => m.sizes \in Seq(Nat)
                          /\ m.type = "block" => /\ m.code \in Seq(Instruction)
                                                 /\ m.fields \in Seq(Field)
                                                 /\ m.excused \in BOOLEAN
                          /\ m.type \in {"settings", "ack", "block", "broken"}
  BY DEF Settings, Ack, Broken, Block, Message

\* The messages of q with every block excused.
ExcuseAll(q) ==
    [i \in DOMAIN q |-> IF q[i].type = "block" THEN [q[i] EXCEPT !.excused = TRUE] ELSE q[i]]

\* An excuse changes nothing of what a message does.
LEMMA ExcuseAllIs ==
    ASSUME NEW q \in Seq(Message), NEW n \in Nat
    PROVE  /\ ExcuseAll(q) \in Seq(Message)
           /\ ExcuseAll(q) \in Seq(Within(n))
           /\ q \in Seq(Others("block")) => ExcuseAll(q) = q
           /\ \A x, y : Hears(Waits, Seq(Seq(Nat)), q, x, y) => Hears(Waits, Seq(Seq(Nat)), ExcuseAll(q), x, y)
           /\ \A x, y : Hears(ClientHears, Decoder, q, x, y) => Hears(ClientHears, Decoder, ExcuseAll(q), x, y)
  <1>1. PICK p : p = ExcuseAll(q)
    OBVIOUS
  <1>2. DOMAIN q = 1..Len(q) /\ Len(q) \in Nat
    OBVIOUS
  <1>3. ASSUME NEW i \in 1..Len(q)
        PROVE  /\ p[i] \in Message /\ p[i].type = q[i].type
               /\ p[i].type = "block" => p[i].code = q[i].code /\ p[i].fields = q[i].fields /\ p[i].excused
               /\ p[i].type # "block" => p[i] = q[i]
    <2>1. PICK m \in Message : m = q[i]
      OBVIOUS
    <2>2. CASE m.type = "block"
      <3>1. m \in [type : {"block"}, code : Seq(Instruction), fields : Seq(Field), excused : BOOLEAN]
        BY <2>2 DEF Message
      <3>2. PICK k : k = [m EXCEPT !.excused = TRUE]
        OBVIOUS
      <3>3. /\ k \in [type : {"block"}, code : Seq(Instruction), fields : Seq(Field), excused : BOOLEAN]
            /\ k.type = "block" /\ k.code = m.code /\ k.fields = m.fields /\ k.excused
        BY <3>1, <3>2
      <3>4. p[i] = k
        BY <1>1, <1>2, <2>1, <2>2, <3>2 DEF ExcuseAll
      <3>5. k \in Message
        BY <3>3 DEF Message
      <3> QED
        BY <2>1, <3>1, <3>3, <3>4, <3>5
    <2>3. CASE m.type # "block"
      BY <1>1, <1>2, <2>1, <2>3 DEF ExcuseAll
    <2> QED
      BY <2>2, <2>3
  <1>4. p \in Seq(Message) /\ Len(p) = Len(q)
    <2>1. p \in [1..Len(q) -> Message]
      BY <1>1, <1>2, <1>3 DEF ExcuseAll
    <2> QED
      BY <1>2, <2>1
  <1>5. p \in Seq(Within(n))
    <2>1. \A i \in 1..Len(p) : p[i] \in Within(n)
      BY <1>3, <1>4 DEF Within
    <2> QED
      BY <1>4, <2>1, AllAreSeq
  <1>6. q \in Seq(Others("block")) => p = q
    <2>1. q \in Seq(Others("block")) => \A i \in 1..Len(q) : p[i] = q[i]
      BY <1>3 DEF Others
    <2> QED
      BY <1>4, <2>1
  <1>7. PICK h : h = [x \in Seq(Seq(Nat)) |-> x]
    OBVIOUS
  <1>8. Likewise(Waits, Seq(Seq(Nat)), q, p, h)
    BY <1>3, <1>4, <1>7 DEF Likewise, Waits
  <1>9. \A x, y : Hears(Waits, Seq(Seq(Nat)), q, x, y) => Hears(Waits, Seq(Seq(Nat)), p, x, y)
    <2> SUFFICES ASSUME NEW x, NEW y, Hears(Waits, Seq(Seq(Nat)), q, x, y)
                 PROVE  Hears(Waits, Seq(Seq(Nat)), p, x, y)
      OBVIOUS
    <2>1. h \in [Seq(Seq(Nat)) -> Seq(Seq(Nat))]
      BY <1>7
    <2>2. Hears(Waits, Seq(Seq(Nat)), p, h[x], h[y])
      BY <1>4, <1>8, <2>1, HearsAlike
    <2>3. x \in Seq(Seq(Nat)) /\ y \in Seq(Seq(Nat))
      BY HearsType
    <2> QED
      BY <1>7, <2>2, <2>3
  <1>10. PICK g : g = [x \in Decoder |-> x]
    OBVIOUS
  <1>11. Likewise(ClientHears, Decoder, q, p, g)
    <2>1. ASSUME NEW i \in 1..Len(q), NEW x \in Decoder, NEW y \in Decoder, <<x, q[i], y>> \in ClientHears
          PROVE  <<x, p[i], y>> \in ClientHears
      <3>1. IF q[i].type = "block" THEN ReadsBlock(x, q[i], y) ELSE y = x
        BY <2>1 DEF ClientHears
      <3>2. ReadsBlock(x, q[i], y) /\ q[i].type = "block" => ReadsBlock(x, p[i], y)
        BY <1>3 DEF ReadsBlock
      <3>3. IF p[i].type = "block" THEN ReadsBlock(x, p[i], y) ELSE y = x
        BY <1>3, <3>1, <3>2
      <3>4. p[i] \in Message
        BY <1>3
      <3> QED
        BY <3>3, <3>4 DEF ClientHears
    <2> QED
      BY <1>4, <1>10, <2>1 DEF Likewise
  <1>12. \A x, y : Hears(ClientHears, Decoder, q, x, y) => Hears(ClientHears, Decoder, p, x, y)
    <2> SUFFICES ASSUME NEW x, NEW y, Hears(ClientHears, Decoder, q, x, y)
                 PROVE  Hears(ClientHears, Decoder, p, x, y)
      OBVIOUS
    <2>1. g \in [Decoder -> Decoder]
      BY <1>10
    <2>2. Hears(ClientHears, Decoder, p, g[x], g[y])
      BY <1>4, <1>11, <2>1, HearsAlike
    <2>3. x \in Decoder /\ y \in Decoder
      BY HearsType
    <2> QED
      BY <1>10, <2>2, <2>3
  <1> QED
    BY <1>1, <1>4, <1>5, <1>6, <1>9, <1>12

(***************************************************************************)
(* The start                                                               *)
(***************************************************************************)
LEMMA StartsInStep ==
    ASSUME NEW d \in Decoder, NEW e \in Encoder, InStep(d, e)
    PROVE  Carries(d, e, NoBlock) /\ Insists(d, NoBlock)
  <1>1. <<>> \in Seq(Instruction)
    OBVIOUS
  <1>2. PICK q \in Seq(Instruction) : q = <<>>
    BY <1>1
  <1>3. Decode(d, q) = Start(d)
    BY <1>2, DecodeType
  <1>4. NoBlock.code = q /\ NoBlock.fields = <<>>
    BY <1>2 DEF NoBlock
  <1> QED
    BY <1>2, <1>3, <1>4 DEF Carries, Start, Insists

LEMMA InitInv ==
    ASSUME Init
    PROVE  Inv
  <1>1. plan \in Plan /\ InitialSize \in Nat
    BY HpackAssumption DEF Init
  <1>2. PICK e0 \in Encoder : e0 = NewEncoder(InitialSize)
    <2>1. NewEncoder(InitialSize) \in Encoder
      BY <1>1 DEF NewEncoder, Encoder
    <2> QED
      BY <2>1
  <1>3. e0.entries = <<>> /\ ~e0.announce /\ e0.max = InitialSize
    BY <1>2 DEF NewEncoder
  <1>4. encoder = SetSize(e0, InitialSize) /\ peerEncoder = e0
    BY <1>2 DEF Init
  <1>5. /\ encoder \in Encoder /\ encoder.max = InitialSize /\ encoder.announce /\ Sound(encoder)
        /\ peerEncoder \in Encoder /\ Sound(peerEncoder)
    BY <1>1, <1>3, <1>4, SetSizeIs, SetSizeSound DEF Sound
  <1>6. /\ tracker \in Decoder /\ decoder \in Decoder /\ peerDecoder \in Decoder
        /\ tracker.allowed = InitialSize /\ decoder.allowed = plan.maxTable
        /\ peerDecoder.allowed = InitialSize
        /\ \A d \in {tracker, decoder, peerDecoder} : d.entries = <<>> /\ d.max = InitialSize
    <2>1. \A n \in Nat : LET d == NewDecoder(InitialSize, n)
                          IN  d \in Decoder /\ d.entries = <<>> /\ d.max = InitialSize /\ d.allowed = n
      BY <1>1 DEF NewDecoder, Decoder
    <2>2. plan.maxTable \in Nat
      BY <1>1 DEF Plan
    <2> QED
      BY <1>1, <2>1, <2>2 DEF Init
  <1>7. InStep(tracker, e0) /\ InStep(decoder, e0) /\ InStep(peerDecoder, e0)
    BY <1>3, <1>6 DEF InStep
  <1>8. InStep(tracker, encoder) /\ InStep(peerDecoder, encoder)
    BY <1>1, <1>4, <1>6, <1>7, SetSizeKeeps
  <1>9. <<>> \in Seq(Message) /\ <<>> \in Seq(Seq(Nat))
    OBVIOUS
  <1>10. TypeOK
    <2>1. NoBlock \in Fragments
      BY DEF NoBlock, Fragments
    <2>2. NoVerdict \in Verdict
      BY DEF NoVerdict, Verdict
    <2>3. step \in [requests : BOOLEAN, responses : BOOLEAN, tracker : BOOLEAN, told : BOOLEAN, size : Nat, acked : Nat]
      BY <1>1 DEF Init
    <2> QED
      BY <1>1, <1>5, <1>6, <1>9, <2>1, <2>2, <2>3 DEF Init, TypeOK
  <1>11. TrackerInv
    BY <1>5, <1>6, <1>8, StartsInStep DEF Init, TrackerInv, NoBlock
  <1>12. PeerInv
    <2>1. PICK z \in PeerState : z = PeerNow
      BY <1>6, <1>9, <1>1 DEF Init, PeerNow, PeerState
    <2>2. z.table = peerDecoder /\ z.unacked = <<>> /\ z.limit = InitialSize
      BY <2>1 DEF PeerNow, Init
    <2>3. Hears(PeerHears, PeerState, toPeer, PeerNow, z)
      BY <1>9, <2>1, HearsNothing DEF Init
    <2>4. PICK coming \in Seq(Seq(Nat)) : coming = <<>>
      BY <1>9
    <2>5. Hears(Waits, Seq(Seq(Nat)), toClient, coming, coming)
      BY <1>9, HearsNothing DEF Init
    <2>6. z.unacked = owed \o coming
      BY <2>2, <2>4 DEF Init
    <2>7. z.table.allowed = step.acked /\ (step.told => z.limit <= decoder.allowed)
      BY <1>1, <1>6, <2>2 DEF Init, Plan
    <2>8. Carries(z.table, encoder, wire) /\ Insists(z.table, wire)
      BY <1>5, <1>6, <1>8, <2>2, StartsInStep DEF Init
    <2>9. PeerEnd(z)
      BY <2>3, <2>4, <2>5, <2>6, <2>7, <2>8 DEF PeerEnd
    <2> QED
      BY <2>9 DEF PeerInv
  <1>13. ClientInv
    <2>1. toClient \in Seq(Within(decoder.allowed)) /\ toClient = <<>>
      BY DEF Init
    <2>2. PICK x \in Decoder : x = Bare(decoder)
      BY <1>6 DEF Bare, Decoder
    <2>3. Hears(ClientHears, Decoder, toClient, x, x)
      BY <1>9, <2>1, HearsNothing
    <2>4. InStep(x, peerEncoder)
      BY <1>4, <1>7, <2>2 DEF Bare, InStep
    <2>5. peerEncoder.max <= peerLimit
      BY <1>1, <1>3, <1>4 DEF Init
    <2> QED
      BY <1>5, <2>1, <2>2, <2>3, <2>4, <2>5 DEF ClientInv
  <1>14. SessionInv
    <2>1. \A Q : <<>> \in Seq(Q)
      OBVIOUS
    <2>2. /\ step.requests /\ step.responses /\ step.tracker /\ step.acked = InitialSize
          /\ pending = NoBlock /\ wire = NoBlock /\ ~verdict.excused /\ owed = <<>> /\ toPeer = <<>> /\ toClient = <<>>
          /\ plan.mode = "request" => stage = "settings" /\ ~asked
      BY DEF Init, NoVerdict
    <2>3. \A i \in 1..Len(toPeer) : FALSE
      BY <2>2
    <2> QED
      BY <1>5, <2>1, <2>2, <2>3 DEF SessionInv
  <1>15. VerdictInv
    BY DEF Init, NoVerdict, VerdictInv
  <1> QED
    BY <1>10, <1>11, <1>12, <1>13, <1>14, <1>15 DEF Inv

(***************************************************************************)
(* Steps of the client                                                     *)
(***************************************************************************)
LEMMA SpendIs ==
    ASSUME plan \in Plan,
           NEW what \in {"clientSettings", "clientBlocks", "peerSettings", "peerBlocks", "peerResizes"},
           Spend(what)
    PROVE  plan' \in Plan /\ plan'.mode = plan.mode
  <1>1. plan[what] \in Nat /\ plan[what] > 0
    BY DEF Spend, Plan
  <1>2. PICK n \in Nat : n = plan[what] - 1
    BY <1>1
  <1>3. plan' = [plan EXCEPT ![what] = n]
    BY <1>2 DEF Spend
  <1> QED
    BY <1>3 DEF Plan

\* One more message on its way to the peer.
LEMMA PeerHearsOn ==
    ASSUME NEW z \in PeerState, Hears(PeerHears, PeerState, toPeer, PeerNow, z),
           toPeer \in Seq(Message), NEW m \in Message, toPeer' = Append(toPeer, m), UNCHANGED PeerNow,
           NEW y \in PeerState, \/ HearsSettings(z, m, y) \/ HearsAck(z, m, y)
                               \/ HearsBlock(z, m, y) \/ HearsBroken(z, m, y)
    PROVE  Hears(PeerHears, PeerState, toPeer', PeerNow', y)
  <1>1. <<z, m, y>> \in PeerHears
    BY DEF PeerHears
  <1>2. PICK q \in Seq(Message) : q = Append(toPeer, m)
    BY AppendIs
  <1>3. Longer(q, toPeer, m)
    BY <1>2, AppendIs
  <1>4. PICK a : a = PeerNow
    OBVIOUS
  <1>5. Hears(PeerHears, PeerState, q, a, y)
    BY <1>1, <1>3, <1>4, HearsMore
  <1> QED
    BY <1>2, <1>4, <1>5

LEMMA SendSettingsKeeps ==
    ASSUME Inv, NEW sizes \in Seq(Nat), SendSettings(sizes)
    PROVE  Inv'
  <1>0. TypeOK /\ TrackerInv /\ PeerInv /\ ClientInv /\ SessionInv /\ VerdictInv
    BY DEF Inv
  <1>1. plan' \in Plan /\ plan'.mode = plan.mode
    BY <1>0, SpendIs DEF SendSettings, TypeOK
  <1>2. /\ encoder' = encoder /\ tracker' = tracker /\ pending' = pending /\ wire' = wire /\ owed' = owed
        /\ peerEncoder' = peerEncoder /\ peerDecoder' = peerDecoder /\ peerLimit' = peerLimit
        /\ unacked' = unacked /\ asked' = asked /\ verdict' = verdict
    BY DEF SendSettings, peer
  <1>3. PICK n \in Nat : n = Last(<<decoder.allowed>> \o sizes)
    BY <1>0, LastIs DEF TypeOK, Decoder
  <1>4. decoder' = [decoder EXCEPT !.allowed = n]
    BY <1>3 DEF SendSettings, ApplySent
  <1>5. decoder' \in Decoder /\ decoder'.allowed = n /\ Bare(decoder') = Bare(decoder)
    BY <1>0, <1>4 DEF TypeOK, Decoder, Bare
  <1>6. PICK m \in Message : m = Settings(sizes)
    BY MessageIs
  <1>7. m.type = "settings" /\ m.sizes = sizes
    BY <1>6, MessageIs
  <1>8. toPeer' = Append(toPeer, m) /\ toPeer' \in Seq(Message)
    BY <1>0, <1>6, AppendIs DEF SendSettings, TypeOK
  <1>9. toClient' = ExcuseAll(toClient)
    BY DEF SendSettings, ExcuseAll
  <1>10. PICK told \in BOOLEAN : told <=> step.told \/ sizes # <<>>
    OBVIOUS
  <1>11. step' = [step EXCEPT !.told = step.told \/ sizes # <<>>]
    BY DEF SendSettings
  <1>12. /\ step'.told <=> step.told \/ sizes # <<>>
         /\ step'.requests = step.requests /\ step'.responses = step.responses
         /\ step'.tracker = step.tracker
         /\ step'.size = step.size /\ step'.acked = step.acked
         /\ step' \in [requests : BOOLEAN, responses : BOOLEAN, tracker : BOOLEAN, told : BOOLEAN, size : Nat, acked : Nat]
    BY <1>0, <1>11 DEF TypeOK
  <1>13. /\ stage \in {"settings", "any"} /\ (stage = "any" <=> stage' = "any")
         /\ stage' \in {"handshake", "any"}
    BY DEF SendSettings, At, Proceed
  <1>14. TypeOK'
    BY <1>0, <1>1, <1>2, <1>5, <1>8, <1>9, <1>12, <1>13, ExcuseAllIs DEF TypeOK
  <1>15. TrackerInv'
    BY <1>0, <1>2, <1>12 DEF TrackerInv
  <1>16. PeerInv'
    <2>1. PICK z : PeerEnd(z)
      BY <1>0 DEF PeerInv
    <2>2. PICK l \in Nat : l = Last(<<z.limit>> \o sizes)
      BY <2>1, LastIs DEF PeerEnd, PeerState
    <2>3. PICK y \in PeerState : y = [z EXCEPT !.limit = l]
      BY <2>1 DEF PeerEnd, PeerState
    <2>4. y.table = z.table /\ y.unacked = z.unacked /\ y.limit = l
      BY <2>1, <2>3 DEF PeerEnd, PeerState
    <2>5. PeerNow' = PeerNow
      BY <1>2 DEF PeerNow
    <2>6. HearsSettings(z, m, y)
      BY <1>7, <2>2, <2>3 DEF HearsSettings
    <2>7. Hears(PeerHears, PeerState, toPeer', PeerNow', y)
      BY <1>0, <1>8, <2>1, <2>5, <2>6, PeerHearsOn DEF PeerEnd, TypeOK
    <2>8. PICK coming \in Seq(Seq(Nat)) :
             Hears(Waits, Seq(Seq(Nat)), toClient, coming, <<>>) /\ z.unacked = owed \o coming
      BY <2>1 DEF PeerEnd
    <2>9. Hears(Waits, Seq(Seq(Nat)), toClient', coming, <<>>)
      BY <1>0, <1>9, <2>8, ExcuseAllIs DEF TypeOK
    <2>10. step'.told => y.limit <= decoder'.allowed
      <3>1. decoder.allowed \in Nat /\ z.limit \in Nat
        BY <1>0, <2>1 DEF TypeOK, Decoder, PeerEnd, PeerState
      <3>2. CASE sizes = <<>>
        <4>1. n = decoder.allowed
          BY <1>3, <3>1, <3>2, LastIs
        <4>2. l = z.limit
          BY <2>2, <3>1, <3>2, LastIs
        <4> QED
          BY <1>5, <1>12, <2>1, <2>4, <3>2, <4>1, <4>2 DEF PeerEnd
      <3>3. CASE sizes # <<>>
        <4>1. n = sizes[Len(sizes)]
          BY <1>3, <3>1, <3>3, LastIs
        <4>2. l = sizes[Len(sizes)]
          BY <2>2, <3>1, <3>3, LastIs
        <4> QED
          BY <1>5, <2>4, <4>1, <4>2
      <3> QED
        BY <3>2, <3>3
    <2>11. PeerEnd(y)'
      BY <1>2, <1>12, <2>1, <2>4, <2>7, <2>8, <2>9, <2>10 DEF PeerEnd
    <2> QED
      BY <2>11 DEF PeerInv
  <1>17. ClientInv'
    <2>1. toClient' \in Seq(Within(decoder'.allowed))
      BY <1>0, <1>5, <1>9, ExcuseAllIs DEF TypeOK
    <2>2. step'.responses =>
            \E x \in Decoder : Hears(ClientHears, Decoder, toClient', Bare(decoder'), x) /\ InStep(x, peerEncoder')
      BY <1>0, <1>2, <1>5, <1>9, <1>12, ExcuseAllIs DEF ClientInv, TypeOK
    <2> QED
      BY <1>0, <1>2, <2>1, <2>2 DEF ClientInv
  <1>18. SessionInv'
    <2> SUFFICES ASSUME plan'.mode = "request"
                 PROVE  SessionInv'
      BY DEF SessionInv
    <2>1. /\ stage = "settings" /\ toPeer = <<>> /\ ~asked /\ toClient \in Seq(Others("block"))
          /\ toClient \in Seq(Meant) /\ owed = <<>> /\ stage' = "handshake"
      BY <1>0, <1>1, <1>13 DEF SessionInv
    <2>2. sizes # <<>>
      <3>1. \A k : <<k>> # <<>>
        OBVIOUS
      <3>2. sizes = <<plan.maxTable>>
        BY <2>1 DEF SendSettings
      <3> QED
        BY <3>1, <3>2
    <2>3. toClient' = toClient
      BY <1>0, <1>9, <2>1, ExcuseAllIs DEF TypeOK
    <2>4. m \in Others("block") /\ m \in Meant
      BY <1>7 DEF Others, Meant
    <2>5. toPeer' = <<m>>
      BY <1>8, <2>1
    <2>6. toPeer' \in Seq(Others("block")) /\ toPeer' \in Seq(Meant)
      BY <2>4, <2>5
    <2>7. \A i, j \in 1..Len(toPeer') : ~(i < j)
      BY <2>5
    <2> QED
      BY <1>0, <1>1, <1>2, <1>12, <2>1, <2>2, <2>3, <2>6, <2>7 DEF SessionInv
  <1>19. VerdictInv'
    BY <1>0, <1>2 DEF VerdictInv
  <1> QED
    BY <1>14, <1>15, <1>16, <1>17, <1>18, <1>19 DEF Inv

\* A SETTINGS that the client does not apply.
LEMMA SendRawSettingsKeeps ==
    ASSUME Inv, NEW sizes \in Seq(Nat), SendRawSettings(sizes)
    PROVE  Inv'
  <1>0. TypeOK /\ TrackerInv /\ PeerInv /\ ClientInv /\ SessionInv /\ VerdictInv
    BY DEF Inv
  <1>1. plan' \in Plan /\ plan'.mode = plan.mode
    BY <1>0, SpendIs DEF SendRawSettings, TypeOK
  <1>2. /\ stage' = stage /\ encoder' = encoder /\ tracker' = tracker /\ decoder' = decoder
        /\ pending' = pending /\ wire' = wire /\ owed' = owed
        /\ peerEncoder' = peerEncoder /\ peerDecoder' = peerDecoder /\ peerLimit' = peerLimit
        /\ unacked' = unacked /\ asked' = asked /\ toClient' = toClient /\ verdict' = verdict
        /\ stage = "any"
    BY DEF SendRawSettings, client, peer
  <1>3. PICK m \in Message : m = Settings(sizes)
    BY MessageIs
  <1>4. m.type = "settings" /\ m.sizes = sizes
    BY <1>3, MessageIs
  <1>5. toPeer \in Seq(Message) /\ toPeer' = Append(toPeer, m) /\ toPeer' \in Seq(Message)
    BY <1>0, <1>3, AppendIs DEF SendRawSettings, TypeOK
  <1>6. PICK told \in BOOLEAN : told = IF sizes = <<>> THEN step.told ELSE Last(sizes) <= decoder.allowed
    <2>1. step.told \in BOOLEAN /\ decoder.allowed \in Nat
      BY <1>0 DEF TypeOK, Decoder
    <2>2. (Last(sizes) <= decoder.allowed) \in BOOLEAN
      OBVIOUS
    <2>3. (IF sizes = <<>> THEN step.told ELSE Last(sizes) <= decoder.allowed) \in BOOLEAN
      BY <2>1, <2>2
    <2> QED
      BY <2>3
  <1>7. /\ step' \in [requests : BOOLEAN, responses : BOOLEAN, tracker : BOOLEAN, told : BOOLEAN, size : Nat, acked : Nat]
        /\ step'.told = told
        /\ step'.requests = step.requests /\ step'.responses = step.responses
        /\ step'.tracker = step.tracker
        /\ step'.size = step.size /\ step'.acked = step.acked
    <2>1. step' = [step EXCEPT !.told = told]
      BY <1>6 DEF SendRawSettings
    <2> QED
      BY <1>0, <2>1 DEF TypeOK
  <1>8. TypeOK'
    BY <1>0, <1>1, <1>2, <1>5, <1>7 DEF TypeOK
  <1>9. TrackerInv'
    BY <1>0, <1>2, <1>7 DEF TrackerInv
  <1>10. PeerInv'
    <2>1. PICK z : PeerEnd(z)
      BY <1>0 DEF PeerInv
    <2>2. PICK l \in Nat : l = Last(<<z.limit>> \o sizes)
      BY <2>1, LastIs DEF PeerEnd, PeerState
    <2>3. PICK y \in PeerState : y = [z EXCEPT !.limit = l]
      BY <2>1 DEF PeerEnd, PeerState
    <2>4. y.table = z.table /\ y.unacked = z.unacked /\ y.limit = l
      BY <2>1, <2>3 DEF PeerEnd, PeerState
    <2>5. PeerNow' = PeerNow
      BY <1>2 DEF PeerNow
    <2>6. HearsSettings(z, m, y)
      BY <1>4, <2>2, <2>3 DEF HearsSettings
    <2>7. Hears(PeerHears, PeerState, toPeer', PeerNow', y)
      BY <1>5, <2>1, <2>5, <2>6, PeerHearsOn DEF PeerEnd
    <2>8. step'.told => y.limit <= decoder'.allowed
      <3>1. z.limit \in Nat
        BY <2>1 DEF PeerEnd, PeerState
      <3>2. CASE sizes = <<>>
        <4>1. l = z.limit
          BY <2>2, <3>1, <3>2, LastIs
        <4> QED
          BY <1>2, <1>6, <1>7, <2>1, <2>4, <3>2, <4>1 DEF PeerEnd
      <3>3. CASE sizes # <<>>
        <4>1. l = sizes[Len(sizes)]
          BY <2>2, <3>1, <3>3, LastIs
        <4> QED
          BY <1>2, <1>6, <1>7, <2>4, <3>3, <4>1 DEF Last
      <3> QED
        BY <3>2, <3>3
    <2>9. PeerEnd(y)'
      BY <1>2, <1>7, <2>1, <2>4, <2>7, <2>8 DEF PeerEnd
    <2> QED
      BY <2>9 DEF PeerInv
  <1>11. ClientInv'
    BY <1>0, <1>2, <1>7 DEF ClientInv
  <1>12. SessionInv'
    BY <1>0, <1>1, <1>2 DEF SessionInv
  <1>13. VerdictInv'
    BY <1>0, <1>2 DEF VerdictInv
  <1> QED
    BY <1>8, <1>9, <1>10, <1>11, <1>12, <1>13 DEF Inv

LEMMA CarriesNothing ==
    ASSUME NEW d \in Decoder, NEW e \in Encoder, Carries(d, e, NoBlock)
    PROVE  InStep(d, e)
  <1>1. <<>> \in Seq(Instruction)
    OBVIOUS
  <1>2. PICK q \in Seq(Instruction) : q = <<>>
    BY <1>1
  <1>3. Decode(d, q) = Start(d)
    BY <1>2, DecodeType
  <1>4. NoBlock.code = q
    BY <1>2 DEF NoBlock
  <1> QED
    BY <1>3, <1>4 DEF Carries, Start

\* The first of y may as well be the last of x.
HeadMoves(x, y) == x \o y = Append(x, Head(y)) \o Tail(y)

LEMMA HeadMovesIs ==
    ASSUME NEW A, NEW x \in Seq(A), NEW y \in Seq(A), y # <<>>
    PROVE  HeadMoves(x, y)
  <1>1. PICK h \in A : h = Head(y)
    BY TailIs
  <1>2. PICK t \in Seq(A) : t = Tail(y)
    BY TailIs
  <1>3. Len(y) = Len(t) + 1 /\ Len(t) \in Nat /\ Len(x) \in Nat /\ y[1] = h
        /\ \A i \in 1..Len(t) : t[i] = y[i + 1]
    BY <1>1, <1>2, TailIs
  <1>4. PICK a \in Seq(A) : a = Append(x, h)
    BY AppendIs
  <1>5. Len(a) = Len(x) + 1 /\ a[Len(x) + 1] = h /\ \A i \in 1..Len(x) : a[i] = x[i]
    BY <1>4
  <1>6. a \o t \in Seq(A) /\ x \o y \in Seq(A)
    OBVIOUS
  <1>7. PICK p \in Seq(A) : p = x \o y
    BY <1>6
  <1>8. PICK q \in Seq(A) : q = a \o t
    BY <1>6
  <1>9. Len(p) = Len(x) + Len(t) + 1 /\ Len(q) = Len(x) + Len(t) + 1
    BY <1>3, <1>5, <1>7, <1>8
  <1>10. ASSUME NEW i \in 1..Len(p) PROVE p[i] = q[i]
    <2>1. CASE i <= Len(x)
      <3>1. i \in 1..Len(x) /\ i \in 1..Len(a)
        BY <1>3, <1>5, <2>1
      <3> QED
        BY <1>5, <1>7, <1>8, <3>1
    <2>2. CASE i = Len(x) + 1
      BY <1>3, <1>5, <1>7, <1>8, <2>2
    <2>3. CASE i > Len(x) + 1
      <3>1. PICK j \in 1..Len(t) : i = Len(x) + 1 + j
        <4>1. i - Len(x) - 1 \in 1..Len(t) /\ i = Len(x) + 1 + (i - Len(x) - 1)
          BY <1>3, <1>9, <2>3
        <4> QED
          BY <4>1
      <3>2. p[i] = y[j + 1]
        BY <1>3, <1>7, <3>1
      <3>3. q[i] = t[j]
        <4>1. q[Len(a) + j] = t[j]
          BY <1>8
        <4> QED
          BY <1>5, <3>1, <4>1
      <3> QED
        BY <1>3, <3>2, <3>3
    <2> QED
      BY <1>3, <2>1, <2>2, <2>3
  <1>11. p = q
    BY <1>9, <1>10
  <1> QED
    BY <1>1, <1>2, <1>4, <1>7, <1>8, <1>11 DEF HeadMoves

LEMMA ReceiveSettingsKeeps ==
    ASSUME Inv, ReceiveSettings
    PROVE  Inv'
  <1>0. TypeOK /\ TrackerInv /\ PeerInv /\ ClientInv /\ SessionInv /\ VerdictInv
    BY DEF Inv
  <1>1. toClient \in Seq(Message) /\ toClient # <<>> /\ toClient' = Tail(toClient)
    BY <1>0 DEF TypeOK, ReceiveSettings, Arrived
  <1>2. PICK m \in Message : m = Head(toClient)
    BY <1>1, TailIs
  <1>3. m.type = "settings" /\ m.sizes \in Seq(Nat)
    BY <1>2, MessageIs DEF ReceiveSettings, Arrived
  <1>4. PICK sizes \in Seq(Nat) : sizes = m.sizes
    BY <1>3
  <1>5. /\ plan' = plan /\ stage' = stage /\ decoder' = decoder /\ pending' = pending /\ wire' = wire
        /\ peerEncoder' = peerEncoder /\ peerDecoder' = peerDecoder /\ peerLimit' = peerLimit
        /\ unacked' = unacked /\ asked' = asked /\ toPeer' = toPeer /\ verdict' = verdict
    BY DEF ReceiveSettings, peer
  <1>6. PICK codec \in Codec : codec = [encoder |-> encoder, decoder |-> tracker]
    BY <1>0 DEF TypeOK, Codec
  <1>7. codec.encoder = encoder /\ codec.decoder = tracker /\ Together(codec)
    BY <1>0, <1>6 DEF TrackerInv, Together
  <1>8. PICK result \in Codec : result = ApplyReceived(codec, sizes)
    BY <1>7, ApplyReceivedKeeps DEF Applied
  <1>9. Applied(codec, sizes, result)
    BY <1>7, <1>8, ApplyReceivedKeeps
  <1>10. encoder' = result.encoder /\ tracker' = result.decoder /\ owed' = Append(owed, sizes)
    BY <1>2, <1>4, <1>6, <1>8 DEF ReceiveSettings
  <1>10a. PICK size \in Nat : size = Last(<<step.size>> \o sizes)
    BY <1>0, LastIs DEF TypeOK
  <1>11. /\ step' \in [requests : BOOLEAN, responses : BOOLEAN, tracker : BOOLEAN, told : BOOLEAN, size : Nat, acked : Nat]
         /\ step'.tracker = (step.tracker /\ pending = NoBlock)
         /\ step'.requests = step.requests /\ step'.responses = step.responses
         /\ step'.told = step.told /\ step'.size = size /\ step'.acked = step.acked
    BY <1>0, <1>2, <1>4, <1>10a DEF TypeOK, ReceiveSettings
  <1>12. encoder' \in Encoder /\ tracker' \in Decoder
    BY <1>10 DEF Codec
  <1>13. owed \in Seq(Seq(Nat)) /\ owed' \in Seq(Seq(Nat))
    BY <1>0, <1>10, AppendIs DEF TypeOK
  <1>14. TypeOK'
    <2>1. toClient' \in Seq(Message)
      BY <1>1, TailIs
    <2> QED
      BY <1>0, <1>5, <1>11, <1>12, <1>13, <2>1 DEF TypeOK
  <1>15. TrackerInv'
    <2>1. Sound(encoder') /\ encoder'.max = tracker'.allowed
      BY <1>9, <1>10 DEF Applied, Together
    <2>3. encoder'.max = step'.size
      BY <1>0, <1>7, <1>9, <1>10, <1>11, <1>10a DEF Applied, TrackerInv
    <2>2. ASSUME step'.tracker
          PROVE  Carries(tracker', encoder', pending') /\ pending'.code = <<>>
      <3>1. pending = NoBlock /\ Carries(tracker, encoder, NoBlock)
        BY <1>0, <1>11, <2>2 DEF TrackerInv, TypeOK
      <3>2. InStep(tracker, encoder)
        BY <1>0, <3>1, CarriesNothing DEF TypeOK
      <3>3. InStep(tracker', encoder')
        BY <1>7, <1>9, <1>10, <3>2 DEF Applied
      <3>4. Carries(tracker', encoder', NoBlock)
        BY <1>12, <3>3, StartsInStep
      <3> QED
        BY <1>5, <3>1, <3>4 DEF NoBlock
    <2> QED
      BY <1>0, <1>5, <2>1, <2>2, <2>3 DEF TrackerInv
  <1>16. PeerInv'
    <2>1. PICK z : PeerEnd(z)
      BY <1>0 DEF PeerInv
    <2>2. PICK coming \in Seq(Seq(Nat)) :
             Hears(Waits, Seq(Seq(Nat)), toClient, coming, <<>>) /\ z.unacked = owed \o coming
      BY <2>1 DEF PeerEnd
    <2>3. PICK b \in Seq(Seq(Nat)) :
             <<coming, m, b>> \in Waits /\ Hears(Waits, Seq(Seq(Nat)), toClient', b, <<>>)
      BY <1>1, <1>2, <2>2, HearsFirst
    <2>4. coming # <<>> /\ Head(coming) = sizes /\ b = Tail(coming)
      BY <1>3, <1>4, <2>3 DEF Waits
    <2>5. z.unacked = owed' \o b
      <3>1. HeadMoves(owed, coming)
        BY <1>13, <2>4, HeadMovesIs
      <3> QED
        BY <1>10, <2>2, <2>4, <3>1 DEF HeadMoves
    <2>6. PeerNow' = PeerNow
      BY <1>5 DEF PeerNow
    <2>7. ASSUME step'.requests
          PROVE  Carries(z.table, encoder', wire') /\ Insists(z.table, wire')
      <3>1. Carries(z.table, encoder, wire) /\ Insists(z.table, wire)
        BY <1>11, <2>1, <2>7 DEF PeerEnd
      <3>2. z.table \in Decoder /\ wire.code \in Seq(Instruction)
        BY <1>0, <2>1 DEF PeerEnd, PeerState, TypeOK, Fragments
      <3>3. PICK d \in Decoder : d = Decode(z.table, wire.code).table
        BY <3>2, DecodeType
      <3>4. InStep(d, encoder')
        BY <1>7, <1>9, <1>10, <3>1, <3>3 DEF Carries, Applied
      <3> QED
        BY <1>5, <3>1, <3>3, <3>4 DEF Carries
    <2>8. PeerEnd(z)'
      BY <1>5, <1>11, <2>1, <2>3, <2>5, <2>6, <2>7 DEF PeerEnd
    <2> QED
      BY <2>8 DEF PeerInv
  <1>17. ClientInv'
    <2>1. toClient \in Seq(Within(decoder.allowed))
      BY <1>0 DEF ClientInv
    <2>2. toClient' \in Seq(Within(decoder'.allowed))
      BY <1>1, <1>5, <2>1, TailIs
    <2>3. ASSUME step'.responses
          PROVE  \E x \in Decoder : /\ Hears(ClientHears, Decoder, toClient', Bare(decoder'), x)
                                    /\ InStep(x, peerEncoder')
      <3>1. PICK x \in Decoder : /\ Hears(ClientHears, Decoder, toClient, Bare(decoder), x)
                                 /\ InStep(x, peerEncoder)
        BY <1>0, <1>11, <2>3 DEF ClientInv
      <3>2. PICK b \in Decoder :
               <<Bare(decoder), m, b>> \in ClientHears /\ Hears(ClientHears, Decoder, toClient', b, x)
        BY <1>1, <1>2, <3>1, HearsFirst
      <3>3. b = Bare(decoder)
        BY <1>3, <3>2 DEF ClientHears
      <3> QED
        BY <1>5, <3>1, <3>2, <3>3
    <2> QED
      BY <1>0, <1>5, <2>2, <2>3 DEF ClientInv
  <1>18. SessionInv'
    <2> SUFFICES ASSUME plan'.mode = "request"
                 PROVE  SessionInv'
      BY DEF SessionInv
    <2>1. owed = <<>> /\ stage \in {"handshake", "response"} /\ encoder.max = step.acked
      BY <1>0, <1>5 DEF SessionInv, ReceiveSettings, MayRead
    <2>2. owed' = <<sizes>>
      BY <1>10, <2>1
    <2>3. owed' # <<>> /\ Len(owed') = 1 /\ owed'[1] = sizes
      BY <2>2
    <2>4. encoder'.max = Last(<<step.acked>> \o sizes)
      BY <1>7, <1>9, <1>10, <2>1 DEF Applied
    <2>5. \A Q : toClient \in Seq(Q) => toClient' \in Seq(Q)
      BY <1>1, TailIs
    <2> QED
      BY <1>0, <1>5, <1>11, <2>1, <2>3, <2>4, <2>5 DEF SessionInv
  <1>19. VerdictInv'
    BY <1>0, <1>5 DEF VerdictInv
  <1> QED
    BY <1>14, <1>15, <1>16, <1>17, <1>18, <1>19 DEF Inv

LEMMA SendAckKeeps ==
    ASSUME Inv, SendAck
    PROVE  Inv'
  <1>0. TypeOK /\ TrackerInv /\ PeerInv /\ ClientInv /\ SessionInv /\ VerdictInv
    BY DEF Inv
  <1>1. /\ plan' = plan /\ encoder' = encoder /\ tracker' = tracker /\ decoder' = decoder
        /\ pending' = pending /\ wire' = wire /\ peerEncoder' = peerEncoder /\ peerDecoder' = peerDecoder
        /\ peerLimit' = peerLimit /\ unacked' = unacked /\ asked' = asked
        /\ toClient' = toClient /\ verdict' = verdict
    BY DEF SendAck, peer
  <1>2. owed \in Seq(Seq(Nat)) /\ owed # <<>> /\ owed' = Tail(owed)
    BY <1>0 DEF SendAck, TypeOK
  <1>3. PICK sizes \in Seq(Nat) : sizes = Head(owed)
    BY <1>2, TailIs
  <1>4. PICK n \in Nat : n = Last(<<step.acked>> \o sizes)
    BY <1>0, LastIs DEF TypeOK
  <1>5. /\ step' \in [requests : BOOLEAN, responses : BOOLEAN, tracker : BOOLEAN, told : BOOLEAN, size : Nat, acked : Nat]
        /\ step'.requests = (step.requests /\ wire = NoBlock)
        /\ step'.tracker = step.tracker /\ step'.responses = step.responses
        /\ step'.told = step.told /\ step'.size = step.size /\ step'.acked = n
    BY <1>0, <1>3, <1>4 DEF TypeOK, SendAck
  <1>6. PICK m \in Message : m = Ack
    BY MessageIs
  <1>7. m.type = "ack"
    BY <1>6, MessageIs
  <1>8. toPeer \in Seq(Message) /\ toPeer' = Append(toPeer, m) /\ toPeer' \in Seq(Message)
    BY <1>0, <1>6, AppendIs DEF SendAck, TypeOK
  <1>9. stage' = IF stage = "handshake" THEN "request" ELSE stage
    BY DEF SendAck
  <1>10. TypeOK'
    <2>1. owed' \in Seq(Seq(Nat))
      BY <1>2, TailIs
    <2>2. stage' \in {"settings", "handshake", "request", "response", "any"}
      BY <1>0, <1>9 DEF TypeOK
    <2> QED
      BY <1>0, <1>1, <1>5, <1>8, <2>1, <2>2 DEF TypeOK
  <1>11. TrackerInv'
    BY <1>0, <1>1, <1>5 DEF TrackerInv
  <1>12. PeerInv'
    <2>1. PICK z : PeerEnd(z)
      BY <1>0 DEF PeerInv
    <2>2. PICK coming \in Seq(Seq(Nat)) :
             Hears(Waits, Seq(Seq(Nat)), toClient, coming, <<>>) /\ z.unacked = owed \o coming
      BY <2>1 DEF PeerEnd
    <2>3. z.unacked # <<>> /\ Head(z.unacked) = sizes /\ Tail(z.unacked) = owed' \o coming
      <3>1. \A x \in Seq(Seq(Nat)), y \in Seq(Seq(Nat)) :
               x # <<>> => x \o y # <<>> /\ Head(x \o y) = Head(x) /\ Tail(x \o y) = Tail(x) \o y
        OBVIOUS
      <3> QED
        BY <1>2, <1>3, <2>2, <3>1
    <2>4. z \in PeerState /\ z.table \in Decoder /\ z.unacked \in Seq(Seq(Nat)) /\ z.table.allowed = step.acked
      BY <2>1 DEF PeerEnd, PeerState
    <2>5. PICK d \in Decoder : d = [z.table EXCEPT !.allowed = n]
      BY <2>4 DEF Decoder
    <2>6. d.entries = z.table.entries /\ d.max = z.table.max /\ d.allowed = n
      BY <2>4, <2>5 DEF Decoder
    <2>7. PICK waiting \in Seq(Seq(Nat)) : waiting = Tail(z.unacked)
      BY <2>3, <2>4, TailIs
    <2>8. PICK y \in PeerState : y = [table |-> d, unacked |-> waiting, limit |-> z.limit]
      BY <2>4 DEF PeerState
    <2>9. y.table = d /\ y.unacked = waiting /\ y.limit = z.limit
      BY <2>8
    <2>10. d = [z.table EXCEPT !.allowed = Last(<<@>> \o Head(z.unacked))]
      BY <1>4, <2>3, <2>4, <2>5
    <2>11. HearsAck(z, m, y)
      BY <1>7, <2>3, <2>7, <2>9, <2>10 DEF HearsAck
    <2>12. PeerNow' = PeerNow
      BY <1>1 DEF PeerNow
    <2>13. Hears(PeerHears, PeerState, toPeer', PeerNow', y)
      BY <1>8, <2>1, <2>4, <2>11, <2>12, PeerHearsOn DEF PeerEnd
    <2>14. ASSUME step'.requests
           PROVE  Carries(d, encoder, wire) /\ Insists(d, wire)
      <3>1. wire = NoBlock /\ Carries(z.table, encoder, NoBlock)
        BY <1>0, <1>5, <2>1, <2>14 DEF TrackerInv, TypeOK, PeerEnd
      <3>2. InStep(z.table, encoder)
        BY <1>0, <2>4, <3>1, CarriesNothing DEF TypeOK
      <3>3. InStep(d, encoder)
        BY <2>6, <3>2 DEF InStep
      <3> QED
        BY <1>0, <3>1, <3>3, StartsInStep DEF TypeOK
    <2>15. PeerEnd(y)'
      BY <1>1, <1>5, <2>1, <2>2, <2>3, <2>6, <2>7, <2>9, <2>13, <2>14 DEF PeerEnd
    <2> QED
      BY <2>15 DEF PeerInv
  <1>13. ClientInv'
    BY <1>0, <1>1, <1>5 DEF ClientInv
  <1>14. SessionInv'
    <2> SUFFICES ASSUME plan'.mode = "request"
                 PROVE  SessionInv'
      BY DEF SessionInv
    <2>1. /\ Len(owed) = 1 /\ encoder.max = Last(<<step.acked>> \o owed[1])
          /\ stage \in {"handshake", "response"}
      BY <1>0, <1>1, <1>2 DEF SessionInv, TypeOK
    <2>2. owed' = <<>> /\ owed[1] = sizes
      <3>1. owed' \in Seq(Seq(Nat)) /\ Len(owed') = 0
        BY <1>2, <2>1, TailIs
      <3>2. \A q \in Seq(Seq(Nat)) : Len(q) = 0 => q = <<>>
        OBVIOUS
      <3>3. Head(owed) = owed[1]
        BY <1>2
      <3> QED
        BY <1>3, <3>1, <3>2, <3>3
    <2>3. encoder'.max = step'.acked
      BY <1>1, <1>4, <1>5, <2>1, <2>2
    <2>4. m \in Others("block") /\ m \in Others("settings") /\ m \in Meant
      BY <1>7 DEF Others, Meant
    <2>5. \A Q : m \in Q /\ toPeer \in Seq(Q) => toPeer' \in Seq(Q)
      BY <1>8, AppendIs
    <2>6. \A i, j \in 1..Len(toPeer') :
             i < j /\ toPeer'[i].type = "block" => toPeer'[j].type # "settings"
      <3>1. \A i, j \in 1..Len(toPeer) :
             i < j /\ toPeer[i].type = "block" => toPeer[j].type # "settings"
        BY <1>0, <1>1 DEF SessionInv
      <3>2. /\ Len(toPeer) \in Nat /\ Len(toPeer') = Len(toPeer) + 1 /\ toPeer'[Len(toPeer')] = m
            /\ \A i \in 1..Len(toPeer) : toPeer'[i] = toPeer[i]
        BY <1>8, AppendIs DEF Longer
      <3>3. \A i, j \in 1..Len(toPeer') :
               i < j => /\ i \in 1..Len(toPeer) /\ toPeer'[i] = toPeer[i]
                        /\ j = Len(toPeer') \/ (j \in 1..Len(toPeer) /\ toPeer'[j] = toPeer[j])
        BY <3>2
      <3> QED
        BY <1>7, <3>1, <3>2, <3>3
    <2> QED
      BY <1>0, <1>1, <1>5, <1>9, <2>1, <2>2, <2>3, <2>4, <2>5, <2>6 DEF SessionInv
  <1>15. VerdictInv'
    BY <1>0, <1>1 DEF VerdictInv
  <1> QED
    BY <1>10, <1>11, <1>12, <1>13, <1>14, <1>15 DEF Inv

\* The last size update of e announces its size.
LEMMA AnnouncementsCarry ==
    ASSUME NEW e \in Encoder, e.announce, NEW x \in Instruction
    PROVE  \E j \in 1..Len(Announcements(e) \o <<x>>) :
              /\ (Announcements(e) \o <<x>>)[j].op = "size"
              /\ (Announcements(e) \o <<x>>)[j].size = e.max
  <1>1. PICK u : u = SizeUpdate(e.max)
    OBVIOUS
  <1>2. u.op = "size" /\ u.size = e.max
    BY <1>1 DEF SizeUpdate
  <1>3. CASE e.lowest < e.max
    <2>1. PICK v : v = SizeUpdate(e.lowest)
      OBVIOUS
    <2>2. PICK code : code = Announcements(e) \o <<x>>
      OBVIOUS
    <2>3. Announcements(e) = <<v, u>>
      BY <1>1, <1>3, <2>1 DEF Announcements
    <2>4. Len(code) = 3 /\ code[2] = u
      BY <2>2, <2>3
    <2>5. 2 \in 1..Len(code)
      BY <2>4
    <2> QED
      BY <1>2, <2>2, <2>4, <2>5
  <1>4. CASE ~(e.lowest < e.max)
    <2>1. PICK code : code = Announcements(e) \o <<x>>
      OBVIOUS
    <2>2. Announcements(e) = <<u>>
      BY <1>1, <1>4 DEF Announcements
    <2>3. Len(code) = 2 /\ code[1] = u
      BY <2>1, <2>2
    <2>4. 1 \in 1..Len(code)
      BY <2>3
    <2> QED
      BY <1>2, <2>1, <2>3, <2>4
  <1> QED
    BY <1>3, <1>4

\* A block of the peer is read right, unless it announces more than the client
\* takes; then there is an excuse.
LEMMA BlockIsHeard ==
    ASSUME NEW d \in Decoder, NEW m \in Message, m \in Within(d.allowed), m.type = "block",
           NEW b \in Decoder, ReadsBlock(Bare(d), m, b)
    PROVE  \/ Right(Decode(d, m.code), m.fields) /\ Bare(Decode(d, m.code).table) = b
           \/ /\ ~Right(Decode(d, m.code), m.fields)
              /\ m.excused /\ CarriesUpdate(m.code)
  <1>1. PICK e \in Encoder, f \in Field : \E i \in Representations(e, f) :
           /\ Sound(e) /\ InStep(Bare(d), e)
           /\ m.code = Announcements(e) \o <<i>> /\ m.fields = <<f>>
           /\ b = Bare(Wrote(e, i))
    BY DEF ReadsBlock
  <1>2. PICK i \in Representations(e, f) :
           /\ Sound(e) /\ InStep(Bare(d), e)
           /\ m.code = Announcements(e) \o <<i>> /\ m.fields = <<f>>
           /\ b = Bare(Wrote(e, i))
    BY <1>1
  <1>3. i \in Instruction /\ m.code \in Seq(Instruction) /\ Announcements(e) \in Seq(Instruction)
    BY RepresentationIs, AnnouncementsType, MessageIs
  <1>4. InStep(d, e)
    BY <1>2 DEF InStep, Bare
  <1>5. <<>> \in Seq(Instruction)
    OBVIOUS
  <1>6. PICK pre \in Seq(Instruction) : pre = <<>>
    BY <1>5
  <1>7. Start(d) \in Reading /\ ReadOn(Start(d), pre) = Start(d)
    BY <1>6, DecodeIs, ReadOnLaws
  <1>8. Start(d).table = d /\ Start(d).fields = <<>> /\ Follows(Start(d), e)
    BY <1>4 DEF Start, Follows
  <1>9. FieldRead(Start(d), e, f, i, ReadOn(Start(d), (pre \o Announcements(e)) \o <<i>>))
    <2>1. FieldRead(ReadOn(Start(d), pre), e, f, i, ReadOn(Start(d), (pre \o Announcements(e)) \o <<i>>))
      BY <1>2, <1>7, <1>8, FieldIsRead
    <2> QED
      BY <1>7, <2>1
  <1>10. PICK r \in Reading : r = Decode(d, m.code)
    BY <1>3, DecodeType
  <1>11. FieldRead(Start(d), e, f, i, r)
    <2>1. PICK a \in Seq(Instruction) : a = Announcements(e)
      BY <1>3
    <2>2. pre \o a = a
      BY <1>6
    <2>3. (pre \o Announcements(e)) \o <<i>> = m.code
      BY <1>2, <2>1, <2>2
    <2>4. ReadOn(Start(d), m.code) = r
      BY <1>10, DecodeIs
    <2> QED
      BY <1>9, <2>3, <2>4
  <1>12. CASE e.announce /\ e.max > d.allowed
    <2>1. PICK j \in 1..Len(m.code) : m.code[j].op = "size" /\ m.code[j].size = e.max
      BY <1>2, <1>3, <1>12, AnnouncementsCarry
    <2>2. CarriesUpdate(m.code)
      BY <1>3, <2>1 DEF CarriesUpdate
    <2>3. ~(e.max <= d.allowed)
      BY <1>12 DEF Encoder, Decoder
    <2>4. m.excused
      BY <2>1, <2>3 DEF Within
    <2>5. ~r.ok
      BY <1>8, <1>11, <1>12 DEF FieldRead
    <2> QED
      BY <1>10, <2>2, <2>4, <2>5 DEF Right
  <1>13. CASE ~(e.announce /\ e.max > d.allowed)
    <2>1. e.announce => e.max <= d.allowed
      BY <1>13 DEF Encoder, Decoder
    <2>2. /\ r.fields = Append(Start(d).fields, f) /\ r.ok
          /\ r.table.entries = Wrote(e, i).entries /\ r.table.max = Wrote(e, i).max
      BY <1>8, <1>11, <2>1 DEF FieldRead, Follows
    <2>3. r.fields = m.fields
      BY <1>2, <1>8, <2>2
    <2>4. Bare(r.table) = b
      BY <1>2, <2>2 DEF Bare
    <2> QED
      BY <1>10, <2>2, <2>3, <2>4 DEF Right
  <1> QED
    BY <1>12, <1>13

LEMMA ReceiveBlockKeeps ==
    ASSUME Inv, ReceiveBlock
    PROVE  Inv'
  <1>0. TypeOK /\ TrackerInv /\ PeerInv /\ ClientInv /\ SessionInv /\ VerdictInv
    BY DEF Inv
  <1>1. toClient \in Seq(Message) /\ toClient # <<>> /\ toClient' = Tail(toClient)
    BY <1>0 DEF TypeOK, ReceiveBlock, Arrived
  <1>2. PICK m \in Message : m = Head(toClient)
    BY <1>1, TailIs
  <1>3. m.type = "block" /\ m.code \in Seq(Instruction) /\ m.fields \in Seq(Field) /\ m.excused \in BOOLEAN
    BY <1>2, MessageIs DEF ReceiveBlock, Arrived
  <1>4. /\ plan' = plan /\ stage' = stage /\ encoder' = encoder /\ tracker' = tracker
        /\ pending' = pending /\ wire' = wire /\ owed' = owed
        /\ peerEncoder' = peerEncoder /\ peerDecoder' = peerDecoder /\ peerLimit' = peerLimit
        /\ unacked' = unacked /\ asked' = asked /\ toPeer' = toPeer
    BY DEF ReceiveBlock, peer
  <1>5. PICK reading \in Reading : reading = Decode(decoder, m.code)
    BY <1>0, <1>3, DecodeType DEF TypeOK
  <1>6. decoder' = reading.table /\ decoder' \in Decoder /\ decoder'.allowed = decoder.allowed
    BY <1>0, <1>2, <1>3, <1>5, DecodeType DEF ReceiveBlock, TypeOK
  <1>7. PICK right \in BOOLEAN : right = Right(reading, m.fields)
    BY DEF Right
  <1>8. PICK excused \in BOOLEAN : excused = (~step.responses \/ (m.excused /\ CarriesUpdate(m.code)))
    OBVIOUS
  <1>9. verdict' = [by |-> "client", right |-> right, excused |-> excused]
    BY <1>2, <1>5, <1>7, <1>8 DEF ReceiveBlock
  <1>10. /\ step' \in [requests : BOOLEAN, responses : BOOLEAN, tracker : BOOLEAN, told : BOOLEAN, size : Nat, acked : Nat]
         /\ step'.responses = (step.responses /\ right)
         /\ step'.requests = step.requests /\ step'.tracker = step.tracker
         /\ step'.told = step.told /\ step'.size = step.size /\ step'.acked = step.acked
    BY <1>0, <1>2, <1>5, <1>7 DEF TypeOK, ReceiveBlock
  <1>11. ASSUME step.responses
         PROVE  \/ /\ right
                   /\ \E x \in Decoder : /\ Hears(ClientHears, Decoder, toClient', Bare(decoder'), x)
                                         /\ InStep(x, peerEncoder)
                \/ ~right /\ m.excused /\ CarriesUpdate(m.code)
    <2>1. PICK x \in Decoder : /\ Hears(ClientHears, Decoder, toClient, Bare(decoder), x)
                               /\ InStep(x, peerEncoder)
      BY <1>0, <1>11 DEF ClientInv
    <2>2. PICK b \in Decoder :
             <<Bare(decoder), m, b>> \in ClientHears /\ Hears(ClientHears, Decoder, toClient', b, x)
      BY <1>1, <1>2, <2>1, HearsFirst
    <2>3. ReadsBlock(Bare(decoder), m, b)
      BY <1>3, <2>2 DEF ClientHears
    <2>4. m \in Within(decoder.allowed)
      BY <1>0, <1>1, <1>2, TailIs DEF ClientInv
    <2>5. \/ Right(reading, m.fields) /\ Bare(reading.table) = b
          \/ ~Right(reading, m.fields) /\ m.excused /\ CarriesUpdate(m.code)
      BY <1>0, <1>3, <1>5, <2>3, <2>4, BlockIsHeard DEF TypeOK
    <2> QED
      BY <1>6, <1>7, <2>1, <2>2, <2>5
  <1>12. TypeOK'
    <2>1. toClient' \in Seq(Message)
      BY <1>1, TailIs
    <2>2. verdict' \in Verdict
      BY <1>9 DEF Verdict
    <2> QED
      BY <1>0, <1>4, <1>6, <1>10, <2>1, <2>2 DEF TypeOK
  <1>13. TrackerInv'
    BY <1>0, <1>4, <1>10 DEF TrackerInv
  <1>14. PeerInv'
    <2>1. PICK z : PeerEnd(z)
      BY <1>0 DEF PeerInv
    <2>2. PICK coming \in Seq(Seq(Nat)) :
             Hears(Waits, Seq(Seq(Nat)), toClient, coming, <<>>) /\ z.unacked = owed \o coming
      BY <2>1 DEF PeerEnd
    <2>3. PICK b \in Seq(Seq(Nat)) :
             <<coming, m, b>> \in Waits /\ Hears(Waits, Seq(Seq(Nat)), toClient', b, <<>>)
      BY <1>1, <1>2, <2>2, HearsFirst
    <2>4. b = coming
      BY <1>3, <2>3 DEF Waits
    <2>5. PeerNow' = PeerNow
      BY <1>4 DEF PeerNow
    <2>6. PeerEnd(z)'
      BY <1>4, <1>6, <1>10, <2>1, <2>2, <2>3, <2>4, <2>5 DEF PeerEnd
    <2> QED
      BY <2>6 DEF PeerInv
  <1>15. ClientInv'
    <2>1. toClient \in Seq(Within(decoder.allowed))
      BY <1>0 DEF ClientInv
    <2>2. toClient' \in Seq(Within(decoder'.allowed))
      BY <1>1, <1>6, <2>1, TailIs
    <2>3. ASSUME step'.responses
          PROVE  \E x \in Decoder : /\ Hears(ClientHears, Decoder, toClient', Bare(decoder'), x)
                                    /\ InStep(x, peerEncoder')
      <3>1. step.responses /\ right
        BY <1>10, <2>3
      <3>2. \E x \in Decoder : /\ Hears(ClientHears, Decoder, toClient', Bare(decoder'), x)
                               /\ InStep(x, peerEncoder)
        BY <1>0, <1>11, <3>1
      <3> QED
        BY <1>4, <3>2
    <2> QED
      BY <1>0, <1>4, <2>2, <2>3 DEF ClientInv
  <1>16. SessionInv'
    <2> SUFFICES ASSUME plan'.mode = "request"
                 PROVE  SessionInv'
      BY DEF SessionInv
    <2>1. step.responses /\ m \in Meant
      BY <1>0, <1>1, <1>2, <1>4, TailIs DEF SessionInv
    <2>2. ~m.excused
      BY <1>3, <2>1 DEF Meant
    <2>3. right /\ ~excused
      BY <1>8, <1>11, <2>1, <2>2
    <2>4. step'.responses /\ ~verdict'.excused
      BY <1>9, <1>10, <2>1, <2>3
    <2>5. \A Q : toClient \in Seq(Q) => toClient' \in Seq(Q)
      BY <1>1, TailIs
    <2> QED
      BY <1>0, <1>4, <1>10, <2>4, <2>5 DEF SessionInv
  <1>17. VerdictInv'
    BY <1>8, <1>9, <1>11 DEF VerdictInv
  <1> QED
    BY <1>12, <1>13, <1>14, <1>15, <1>16, <1>17 DEF Inv

\* A whole block goes out, and the peer reads it right if it has no excuse.
LEMMA PeerInvAfterBlock ==
    ASSUME NEW z, PeerEnd(z), toPeer \in Seq(Message),
           NEW code \in Seq(Instruction), NEW fields \in Seq(Field), NEW excused \in BOOLEAN,
           toPeer' = Append(toPeer, Block(code, fields, excused)),
           UNCHANGED <<PeerNow, toClient, owed, decoder>>,
           step'.acked = step.acked, step'.told = step.told,
           wire' = NoBlock,
           excused \/ Right(InsistentDecode(z.table, code), fields),
           step'.requests => Carries(InsistentDecode(z.table, code).table, encoder', NoBlock)
    PROVE  PeerInv'
  <1>1. z \in PeerState /\ z.table \in Decoder /\ z.table.allowed = step.acked
    BY DEF PeerEnd, PeerState
  <1>2. PICK d \in Decoder : d = InsistentDecode(z.table, code).table /\ d.allowed = z.table.allowed
    BY <1>1, InsistentDecodeIs
  <1>3. PICK y \in PeerState : y = [z EXCEPT !.table = d]
    BY <1>1 DEF PeerState
  <1>4. y.table = d /\ y.unacked = z.unacked /\ y.limit = z.limit
    BY <1>1, <1>3 DEF PeerState
  <1>5. PICK m \in Message : m = Block(code, fields, excused)
    BY MessageIs
  <1>6. m.type = "block" /\ m.code = code /\ m.fields = fields /\ m.excused = excused
    BY <1>5, MessageIs
  <1>7. HearsBlock(z, m, y)
    BY <1>1, <1>2, <1>3, <1>6 DEF HearsBlock
  <1>8. Hears(PeerHears, PeerState, toPeer', PeerNow', y)
    BY <1>1, <1>5, <1>7, PeerHearsOn DEF PeerEnd
  <1>9. Insists(d, NoBlock)
    BY DEF Insists, NoBlock
  <1>10. PeerEnd(y)'
    BY <1>1, <1>2, <1>4, <1>8, <1>9 DEF PeerEnd
  <1> QED
    BY <1>10 DEF PeerInv

\* What the peer makes of a frame leaves it in step with the client's encoder.
LEMMA WriteFrameIs ==
    ASSUME NEW z, PeerEnd(z), toPeer \in Seq(Message), wire \in Fragments,
           NEW f \in BlockFrames, WriteFrame(f),
           UNCHANGED <<PeerNow, toClient, owed, decoder>>,
           step'.requests \in BOOLEAN, step'.acked = step.acked, step'.told = step.told,
           encoder' \in Encoder,
           step'.requests => /\ ~Breaks(f)
                             /\ Carries(z.table, encoder', Joined(wire, f))
                             /\ Insists(z.table, Joined(wire, f))
    PROVE  /\ PeerInv' /\ wire' \in Fragments
           /\ f.whole => wire' = NoBlock
           /\ toPeer' = toPeer \/ \E m \in Message :
                 /\ toPeer' = Append(toPeer, m)
                 /\ m.type \in {"block", "broken"}
                 /\ m.type = "block" => m.excused = ~step'.requests /\ ~Breaks(f)
  <1>1. NoBlock \in Fragments
    BY DEF NoBlock, Fragments
  <1>2. PICK s \in Fragments : s = Joined(wire, f)
    BY JoinedIs
  <1>3. PICK excused \in BOOLEAN : excused = ~step'.requests
    OBVIOUS
  <1>4. z \in PeerState /\ z.table \in Decoder
    BY DEF PeerEnd, PeerState
  <1>5. CASE Breaks(f)
    <2>1. wire' = NoBlock /\ toPeer' = Append(toPeer, Broken)
      BY <1>5 DEF WriteFrame
    <2>2. HearsBroken(z, Broken, z)
      BY MessageIs DEF HearsBroken
    <2>3. Hears(PeerHears, PeerState, toPeer', PeerNow', z)
      BY <1>4, <2>1, <2>2, MessageIs, PeerHearsOn DEF PeerEnd
    <2>4. ~step'.requests
      BY <1>5
    <2>5. PeerEnd(z)'
      BY <2>3, <2>4 DEF PeerEnd
    <2>6. PeerInv'
      BY <2>5 DEF PeerInv
    <2> QED
      BY <1>1, <2>1, <2>6, MessageIs
  <1>6. CASE ~Breaks(f) /\ ~f.whole
    <2>1. wire' = s /\ toPeer' = toPeer
      BY <1>2, <1>6 DEF WriteFrame
    <2>2. step'.requests => Carries(z.table, encoder', wire') /\ Insists(z.table, wire')
      BY <1>2, <2>1
    <2>3. PeerEnd(z)'
      BY <2>1, <2>2 DEF PeerEnd
    <2>4. PeerInv'
      BY <2>3 DEF PeerInv
    <2> QED
      BY <1>6, <2>1, <2>4
  <1>7. CASE ~Breaks(f) /\ f.whole
    <2>1. wire' = NoBlock /\ toPeer' = Append(toPeer, Block(s.code, s.fields, excused))
      BY <1>2, <1>3, <1>7 DEF WriteFrame
    <2>2. s.code \in Seq(Instruction) /\ s.fields \in Seq(Field)
      BY DEF Fragments
    <2>3. ASSUME step'.requests
          PROVE  /\ Right(InsistentDecode(z.table, s.code), s.fields)
                 /\ Carries(InsistentDecode(z.table, s.code).table, encoder', NoBlock)
      <3>1. Carries(z.table, encoder', s) /\ Insists(z.table, s)
        BY <1>2, <2>3
      <3>2. /\ Right(Decode(z.table, s.code), s.fields)
            /\ Carries(Decode(z.table, s.code).table, encoder', NoBlock)
        BY <1>4, <3>1, CarriesWhole
      <3>3. InsistentDecode(z.table, s.code) = Decode(z.table, s.code)
        BY <1>4, <2>2, <3>1, InsistentDecodeIs DEF Insists
      <3> QED
        BY <3>2, <3>3
    <2>4. excused \/ Right(InsistentDecode(z.table, s.code), s.fields)
      BY <1>3, <2>3
    <2>5. PeerInv'
      BY <2>1, <2>2, <2>3, <2>4, PeerInvAfterBlock
    <2> QED
      BY <1>1, <1>3, <1>7, <2>1, <2>2, <2>5, MessageIs
  <1> QED
    BY <1>5, <1>6, <1>7

\* The same of the client's second decoder, unless it loses the block.
LEMMA TrackSentFrameIs ==
    ASSUME TypeOK, VerdictInv, NEW f \in BlockFrames, TrackSentFrame(f),
           step'.tracker \in BOOLEAN, encoder' \in Encoder,
           step'.tracker => /\ ~Loses(f)
                            /\ Carries(tracker, encoder', Joined(pending, f))
                            /\ encoder'.announce => Joined(pending, f).code = <<>>
    PROVE  /\ pending' \in Fragments
           /\ tracker' \in Decoder /\ tracker'.allowed = tracker.allowed
           /\ verdict' \in Verdict /\ VerdictInv'
           /\ step'.tracker => /\ Carries(tracker', encoder', pending')
                               /\ encoder'.announce => pending'.code = <<>>
                               /\ verdict'.excused => verdict.excused
           /\ f.whole => pending' = NoBlock
  <1>1. NoBlock \in Fragments /\ NoBlock.code = <<>>
    BY DEF NoBlock, Fragments
  <1>2. pending \in Fragments /\ tracker \in Decoder /\ verdict \in Verdict
    BY DEF TypeOK
  <1>3. PICK s \in Fragments : s = Joined(pending, f)
    BY <1>2, JoinedIs
  <1>4. CASE Loses(f)
    <2>1. pending' = NoBlock /\ tracker' = tracker /\ verdict' = verdict /\ ~step'.tracker
      BY <1>4 DEF TrackSentFrame
    <2> QED
      BY <1>1, <1>2, <2>1 DEF VerdictInv
  <1>5. CASE ~Loses(f) /\ ~f.whole
    <2>1. pending' = s /\ tracker' = tracker /\ verdict' = verdict
      BY <1>3, <1>5 DEF TrackSentFrame
    <2> QED
      BY <1>2, <1>3, <1>5, <2>1 DEF VerdictInv
  <1>6. CASE ~Loses(f) /\ f.whole
    <2>1. s.code \in Seq(Instruction) /\ s.fields \in Seq(Field)
      BY DEF Fragments
    <2>2. PICK reading \in Reading : reading = Decode(tracker, s.code)
      BY <1>2, <2>1, DecodeType
    <2>3. reading.table \in Decoder /\ reading.table.allowed = tracker.allowed
      BY <1>2, <2>1, <2>2, DecodeType
    <2>4. PICK right \in BOOLEAN : right = Right(reading, s.fields)
      BY DEF Right
    <2>5. PICK excused \in BOOLEAN : excused = ~step'.tracker
      OBVIOUS
    <2>6. /\ pending' = NoBlock /\ tracker' = reading.table
          /\ verdict' = [by |-> "tracker", right |-> right, excused |-> excused]
      BY <1>3, <1>6, <2>2, <2>4, <2>5 DEF TrackSentFrame
    <2>7. ASSUME step'.tracker
          PROVE  right /\ Carries(tracker', encoder', NoBlock)
      <3>1. Carries(tracker, encoder', s)
        BY <1>3, <2>7
      <3>2. Right(Decode(tracker, s.code), s.fields) /\ Carries(Decode(tracker, s.code).table, encoder', NoBlock)
        BY <1>2, <3>1, CarriesWhole
      <3> QED
        BY <2>2, <2>4, <2>6, <3>2
    <2>8. verdict' \in Verdict
      BY <2>6 DEF Verdict
    <2>9. VerdictInv'
      BY <2>5, <2>6, <2>7 DEF VerdictInv
    <2> QED
      BY <1>1, <2>3, <2>5, <2>6, <2>7, <2>8, <2>9
  <1> QED
    BY <1>4, <1>5, <1>6

\* A block that starts with what the client's encoder writes.
LEMMA BlockCarries ==
    ASSUME TypeOK, TrackerInv, NEW fields \in Seq(Field),
           NEW w \in Written, w = Encode(encoder, fields),
           NEW s \in Fragments, s.code = w.code, s.fields = fields
    PROVE  /\ Fragment(encoder, fields, w)
           /\ step.tracker /\ pending = NoBlock
                 => Carries(tracker, w.encoder, s) /\ (w.encoder.announce => s.code = <<>>)
           /\ \A z : PeerEnd(z) /\ step.requests /\ wire = NoBlock /\ ~Untimely(w.code)
                        => Carries(z.table, w.encoder, s) /\ Insists(z.table, s)
  <1>1. /\ encoder \in Encoder /\ Sound(encoder) /\ tracker \in Decoder /\ encoder.max = tracker.allowed
        /\ encoder.max \in Nat /\ encoder.max = step.size
        /\ w.code \in Seq(Instruction)
    BY DEF TypeOK, TrackerInv, Written, Encoder
  <1>2. Fragment(encoder, fields, w)
    BY <1>1, EncodeWrites
  <1>3. /\ NoBlock \in Fragments /\ NoBlock.code = <<>>
        /\ s.code = NoBlock.code \o w.code /\ s.fields = NoBlock.fields \o fields
    <2>1. NoBlock \in Fragments /\ NoBlock.code = <<>> /\ NoBlock.fields = <<>>
      BY DEF NoBlock, Fragments
    <2>2. <<>> \o w.code = w.code /\ <<>> \o fields = fields
      BY <1>1
    <2> QED
      BY <2>1, <2>2
  <1>4. fields = <<>> => w.encoder = encoder /\ w.code = <<>>
    BY <1>2 DEF Fragment
  <1>5. fields # <<>> => ~w.encoder.announce /\ w.code # <<>> /\ (encoder.announce => w.code[1].op = "size")
    BY <1>2 DEF Fragment
  <1>6. ASSUME step.tracker, pending = NoBlock
        PROVE  Carries(tracker, w.encoder, s) /\ (w.encoder.announce => s.code = <<>>)
    <2>1. Carries(tracker, encoder, NoBlock)
      BY <1>6 DEF TrackerInv
    <2>2. encoder.max <= tracker.allowed
      BY <1>1
    <2>3. Carries(tracker, w.encoder, s)
      BY <1>1, <1>3, <2>1, <2>2, CarriesOn
    <2> QED
      BY <1>4, <1>5, <2>3
  <1>7. ASSUME NEW z, PeerEnd(z), step.requests, wire = NoBlock, ~Untimely(w.code)
        PROVE  Carries(z.table, w.encoder, s) /\ Insists(z.table, s)
    <2>1. z.table \in Decoder /\ z.table.allowed = step.acked /\ Carries(z.table, encoder, NoBlock)
      BY <1>7 DEF PeerEnd, PeerState
    <2>2. fields # <<>> => encoder.max <= z.table.allowed
      BY <1>1, <1>5, <1>7, <2>1 DEF Untimely, TypeOK
    <2>3. Carries(z.table, w.encoder, s)
      BY <1>1, <1>3, <2>1, <2>2, CarriesOn
    <2>4. InStep(z.table, encoder)
      BY <1>1, <2>1, CarriesNothing
    <2>5. ~encoder.announce => z.table.max = encoder.max
      BY <2>4 DEF InStep
    <2>6. Insists(z.table, s)
      <3>1. CASE fields = <<>>
        BY <1>4, <3>1 DEF Insists
      <3>2. CASE fields # <<>>
        BY <1>5, <2>2, <2>5, <3>2 DEF Insists
      <3> QED
        BY <3>1, <3>2
    <2> QED
      BY <2>3, <2>6
  <1> QED
    BY <1>2, <1>6, <1>7

LEMMA SendHeadersKeeps ==
    ASSUME Inv, NEW kind \in Kind, NEW fields \in Seq(Field), NEW whole \in BOOLEAN,
           SendHeaders(kind, fields, whole)
    PROVE  Inv'
  <1>0. TypeOK /\ TrackerInv /\ PeerInv /\ ClientInv /\ SessionInv /\ VerdictInv
    BY DEF Inv
  <1>1. plan' \in Plan /\ plan'.mode = plan.mode
    BY <1>0, SpendIs DEF SendHeaders, TypeOK
  <1>2. /\ decoder' = decoder /\ owed' = owed /\ toClient' = toClient
        /\ peerEncoder' = peerEncoder /\ peerDecoder' = peerDecoder /\ peerLimit' = peerLimit
        /\ unacked' = unacked /\ asked' = asked
    BY DEF SendHeaders, peer
  <1>3. PICK w \in Written : w = Encode(encoder, fields)
    BY <1>0, EncodeWrites DEF TypeOK, TrackerInv, Fragment
  <1>4. w.encoder \in Encoder /\ w.code \in Seq(Instruction)
    BY DEF Written
  <1>5. PICK f \in BlockFrames : f = BlockFrame(kind, w.code, fields, whole)
    BY <1>4, BlockFrameIs
  <1>6. /\ f.type = kind.type /\ f.stream = kind.stream /\ f.code = w.code
        /\ f.fields = fields /\ f.whole = whole
    BY <1>4, <1>5, BlockFrameIs
  <1>7. Starts(f) /\ pending \in Fragments /\ wire \in Fragments /\ toPeer \in Seq(Message)
    BY <1>0, <1>6 DEF SendHeaders, Starts, TypeOK
  <1>8. PICK s \in Fragments : s.code = w.code /\ s.fields = fields
    <2>1. [stream |-> 0, code |-> w.code, fields |-> fields] \in Fragments
      BY <1>4 DEF Fragments
    <2> QED
      BY <2>1
  <1>9. /\ Fragment(encoder, fields, w)
        /\ step.tracker /\ pending = NoBlock
              => Carries(tracker, w.encoder, s) /\ (w.encoder.announce => s.code = <<>>)
        /\ \A z : PeerEnd(z) /\ step.requests /\ wire = NoBlock /\ ~Untimely(w.code)
                     => Carries(z.table, w.encoder, s) /\ Insists(z.table, s)
    BY <1>0, <1>3, <1>8, BlockCarries
  <1>10. encoder' = w.encoder /\ encoder' \in Encoder /\ Sound(encoder') /\ encoder'.max = encoder.max
    BY <1>3, <1>4, <1>9 DEF SendHeaders, Fragment
  <1>11. PICK untimely \in BOOLEAN : untimely = Untimely(w.code)
    BY DEF Untimely
  <1>12. PICK breaks \in BOOLEAN : breaks = Breaks(f)
    BY DEF Breaks
  <1>13. PICK loses \in BOOLEAN : loses = Loses(f)
    BY DEF Loses
  <1>14. /\ step' \in [requests : BOOLEAN, responses : BOOLEAN, tracker : BOOLEAN, told : BOOLEAN, size : Nat, acked : Nat]
         /\ step'.requests = (step.requests /\ ~untimely /\ ~breaks)
         /\ step'.tracker = (step.tracker /\ ~loses) /\ step'.responses = step.responses
         /\ step'.told = step.told /\ step'.size = step.size /\ step'.acked = step.acked
    <2>1. step' = [step EXCEPT !.requests = @ /\ ~untimely /\ ~breaks, !.tracker = @ /\ ~loses]
      BY <1>3, <1>5, <1>11, <1>12, <1>13 DEF SendHeaders
    <2> QED
      BY <1>0, <2>1 DEF TypeOK
  <1>15. WriteFrame(f) /\ TrackSentFrame(f)
    BY <1>3, <1>5 DEF SendHeaders
  <1>16. /\ stage \in {"request", "any"} /\ (stage = "request" => whole)
         /\ stage' = IF stage = "any" THEN "any" ELSE "response"
    BY DEF SendHeaders, At, Proceed
  <1>17. PICK z : PeerEnd(z)
    BY <1>0 DEF PeerInv
  <1>18. PeerNow' = PeerNow
    BY <1>2 DEF PeerNow
  <1>19. ASSUME NEW t \in Fragments, t = NoBlock
         PROVE  Joined(t, f).code = s.code /\ Joined(t, f).fields = s.fields
    BY <1>6, <1>8, <1>19, JoinedIs
  <1>20. ASSUME step'.requests
         PROVE  /\ ~Breaks(f)
                /\ Carries(z.table, encoder', Joined(wire, f)) /\ Insists(z.table, Joined(wire, f))
    <2>1. step.requests /\ ~Untimely(w.code) /\ ~Breaks(f)
      BY <1>11, <1>12, <1>14, <1>20
    <2>2. wire = NoBlock
      BY <1>7, <2>1 DEF Breaks
    <2>3. Carries(z.table, encoder', s) /\ Insists(z.table, s)
      BY <1>9, <1>10, <1>17, <2>1, <2>2
    <2>4. Joined(wire, f).code = s.code /\ Joined(wire, f).fields = s.fields
      BY <1>7, <1>19, <2>2
    <2> QED
      BY <2>1, <2>3, <2>4 DEF Carries, Insists
  <1>21. ASSUME step'.tracker
         PROVE  /\ ~Loses(f)
                /\ Carries(tracker, encoder', Joined(pending, f))
                /\ encoder'.announce => Joined(pending, f).code = <<>>
    <2>1. step.tracker /\ ~Loses(f)
      BY <1>13, <1>14, <1>21
    <2>2. pending = NoBlock
      BY <1>7, <2>1 DEF Loses, Unexpected
    <2>3. Carries(tracker, encoder', s) /\ (encoder'.announce => s.code = <<>>)
      BY <1>9, <1>10, <2>1, <2>2
    <2>4. Joined(pending, f).code = s.code /\ Joined(pending, f).fields = s.fields
      BY <1>7, <1>19, <2>2
    <2> QED
      BY <2>1, <2>3, <2>4 DEF Carries
  <1>22. /\ PeerInv' /\ wire' \in Fragments
         /\ f.whole => wire' = NoBlock
         /\ toPeer' = toPeer \/ \E m \in Message :
               /\ toPeer' = Append(toPeer, m)
               /\ m.type \in {"block", "broken"}
               /\ m.type = "block" => m.excused = ~step'.requests /\ ~Breaks(f)
    BY <1>2, <1>7, <1>10, <1>14, <1>15, <1>17, <1>18, <1>20, WriteFrameIs
  <1>23. /\ pending' \in Fragments
         /\ tracker' \in Decoder /\ tracker'.allowed = tracker.allowed
         /\ verdict' \in Verdict /\ VerdictInv'
         /\ step'.tracker => /\ Carries(tracker', encoder', pending')
                             /\ encoder'.announce => pending'.code = <<>>
                             /\ verdict'.excused => verdict.excused
         /\ f.whole => pending' = NoBlock
    BY <1>0, <1>10, <1>14, <1>15, <1>21, TrackSentFrameIs
  <1>24. toPeer' \in Seq(Message)
    BY <1>7, <1>22, AppendIs
  <1>25. TypeOK'
    <2>1. stage' \in {"settings", "handshake", "request", "response", "any"}
      BY <1>16
    <2> QED
      BY <1>0, <1>1, <1>2, <1>10, <1>14, <1>22, <1>23, <1>24, <2>1 DEF TypeOK
  <1>26. TrackerInv'
    BY <1>0, <1>10, <1>14, <1>23 DEF TrackerInv
  <1>27. ClientInv'
    BY <1>0, <1>2, <1>14 DEF ClientInv
  <1>28. SessionInv'
    <2> SUFFICES ASSUME plan'.mode = "request"
                 PROVE  SessionInv'
      BY DEF SessionInv
    <2>1. /\ stage = "request" /\ stage' = "response" /\ owed = <<>>
          /\ pending = NoBlock /\ wire = NoBlock /\ ~verdict.excused
          /\ encoder.max = step.acked /\ step.requests /\ step.tracker
          /\ toPeer \in Seq(Others("block")) /\ toPeer \in Seq(Meant) /\ ~asked
      BY <1>0, <1>1, <1>16 DEF SessionInv
    <2>2. f.whole
      BY <1>6, <1>16, <2>1
    <2>3. ~Loses(f)
      BY <1>7, <2>1, <2>2 DEF Loses, Unexpected
    <2>4. step'.tracker /\ ~verdict'.excused
      BY <1>13, <1>14, <1>23, <2>1, <2>3
    <2>5. ~untimely
      <3>1. ~(step.size > step.acked)
        BY <1>0, <2>1 DEF TypeOK, TrackerInv
      <3> QED
        BY <1>11, <3>1 DEF Untimely
    <2>6. \A m \in Message : (m.type = "block" => m.excused = ~step'.requests /\ ~Breaks(f)) => m \in Meant
      BY <1>12, <1>14, <2>1, <2>5 DEF Meant
    <2>7. toPeer' \in Seq(Meant)
      BY <1>22, <2>1, <2>6, AppendIs
    <2>8. \A i, j \in 1..Len(toPeer') :
             i < j /\ toPeer'[i].type = "block" => toPeer'[j].type # "settings"
      <3>1. \A i \in 1..Len(toPeer) : toPeer[i].type # "block"
        BY <2>1 DEF Others
      <3>2. CASE toPeer' = toPeer
        BY <3>1, <3>2
      <3>3. ASSUME NEW m \in Message, toPeer' = Append(toPeer, m)
            PROVE  \A i, j \in 1..Len(toPeer') :
                      i < j /\ toPeer'[i].type = "block" => toPeer'[j].type # "settings"
        <4>1. /\ Len(toPeer) \in Nat /\ Len(toPeer') = Len(toPeer) + 1
              /\ \A i \in 1..Len(toPeer) : toPeer'[i] = toPeer[i]
          BY <1>7, <3>3, AppendIs DEF Longer
        <4>2. \A i, j \in 1..Len(toPeer') : i < j => i \in 1..Len(toPeer)
          BY <4>1
        <4> QED
          BY <3>1, <4>1, <4>2
      <3> QED
        BY <1>22, <3>2, <3>3
    <2> QED
      BY <1>0, <1>1, <1>2, <1>10, <1>14, <1>22, <1>23, <2>1, <2>2, <2>4, <2>7, <2>8 DEF SessionInv
  <1> QED
    BY <1>22, <1>23, <1>25, <1>26, <1>27, <1>28 DEF Inv

LEMMA SendHandmadeKeeps ==
    ASSUME Inv, NEW kind \in Kind, NEW code \in Seq(Literals), NEW whole \in BOOLEAN,
           SendHandmade(kind, code, whole)
    PROVE  Inv'
  <1>0. TypeOK /\ TrackerInv /\ PeerInv /\ ClientInv /\ SessionInv /\ VerdictInv
    BY DEF Inv
  <1>1. plan' \in Plan /\ plan'.mode = plan.mode
    BY <1>0, SpendIs DEF SendHandmade, TypeOK
  <1>2. /\ stage' = stage /\ encoder' = encoder /\ decoder' = decoder /\ owed' = owed /\ toClient' = toClient
        /\ peerEncoder' = peerEncoder /\ peerDecoder' = peerDecoder /\ peerLimit' = peerLimit
        /\ unacked' = unacked /\ asked' = asked /\ stage = "any"
    BY DEF SendHandmade, peer
  <1>3. code \in Seq(Instruction) /\ <<>> \in Seq(Field)
    <2>1. Literals \subseteq Instruction
      BY DEF Literals, Inserted, Literal, Instruction
    <2> QED
      BY <2>1
  <1>4. PICK none \in Seq(Field) : none = <<>>
    BY <1>3
  <1>5. PICK f \in BlockFrames : f = BlockFrame(kind, code, none, whole)
    BY <1>3, BlockFrameIs
  <1>6. f.type = kind.type /\ f.stream = kind.stream /\ f.code = code /\ f.fields = none
    BY <1>3, <1>5, BlockFrameIs
  <1>7. pending \in Fragments /\ wire \in Fragments /\ toPeer \in Seq(Message) /\ encoder \in Encoder
    BY <1>0 DEF TypeOK
  <1>8. PICK breaks \in BOOLEAN : breaks = Breaks(f)
    BY DEF Breaks
  <1>9. PICK loses \in BOOLEAN : loses = Loses(f)
    BY DEF Loses
  <1>10. PICK blank \in BOOLEAN : blank = (code = <<>>)
    OBVIOUS
  <1>11. PICK raw \in BOOLEAN : raw = kind.raw
    BY DEF Kind
  <1>12. /\ step' \in [requests : BOOLEAN, responses : BOOLEAN, tracker : BOOLEAN, told : BOOLEAN, size : Nat, acked : Nat]
         /\ step'.requests = (step.requests /\ blank /\ ~breaks)
         /\ step'.tracker = (step.tracker /\ (raw \/ (blank /\ ~loses))) /\ step'.responses = step.responses
         /\ step'.told = step.told /\ step'.size = step.size /\ step'.acked = step.acked
    <2>1. step' = [step EXCEPT !.requests = @ /\ blank /\ ~breaks,
                               !.tracker = @ /\ (raw \/ (blank /\ ~loses))]
      BY <1>4, <1>5, <1>8, <1>9, <1>10, <1>11 DEF SendHandmade
    <2> QED
      BY <1>0, <2>1 DEF TypeOK
  <1>13. WriteFrame(f) /\ IF raw THEN UNCHANGED <<pending, tracker, verdict>> ELSE TrackSentFrame(f)
    BY <1>4, <1>5, <1>11 DEF SendHandmade
  <1>14. PICK z : PeerEnd(z)
    BY <1>0 DEF PeerInv
  <1>15. PeerNow' = PeerNow
    BY <1>2 DEF PeerNow
  <1>16. ASSUME NEW t \in Fragments, blank
         PROVE  Joined(t, f).code = t.code /\ Joined(t, f).fields = t.fields
    <2>1. f.code = <<>> /\ f.fields = <<>>
      BY <1>4, <1>6, <1>10, <1>16
    <2> QED
      BY <2>1, JoinedIs
  <1>17. ASSUME step'.requests
         PROVE  /\ ~Breaks(f)
                /\ Carries(z.table, encoder', Joined(wire, f)) /\ Insists(z.table, Joined(wire, f))
    <2>1. step.requests /\ blank /\ ~Breaks(f)
      BY <1>8, <1>12, <1>17
    <2>2. Carries(z.table, encoder, wire) /\ Insists(z.table, wire)
      BY <1>14, <2>1 DEF PeerEnd
    <2>3. Joined(wire, f).code = wire.code /\ Joined(wire, f).fields = wire.fields
      BY <1>7, <1>16, <2>1
    <2> QED
      BY <1>2, <2>1, <2>2, <2>3 DEF Carries, Insists
  <1>18. /\ PeerInv' /\ wire' \in Fragments
         /\ toPeer' = toPeer \/ \E m \in Message : toPeer' = Append(toPeer, m)
    BY <1>2, <1>7, <1>12, <1>14, <1>13, <1>15, <1>17, WriteFrameIs
  <1>19. toPeer' \in Seq(Message)
    BY <1>7, <1>18, AppendIs
  <1>20. /\ pending' \in Fragments
         /\ tracker' \in Decoder /\ tracker'.allowed = tracker.allowed
         /\ verdict' \in Verdict /\ VerdictInv'
         /\ step'.tracker => /\ Carries(tracker', encoder', pending')
                             /\ encoder'.announce => pending'.code = <<>>
    <2>1. CASE raw
      BY <1>0, <1>2, <1>12, <1>13, <2>1 DEF TypeOK, TrackerInv, VerdictInv
    <2>2. CASE ~raw
      <3>1. ASSUME step'.tracker
            PROVE  /\ ~Loses(f)
                   /\ Carries(tracker, encoder', Joined(pending, f))
                   /\ encoder'.announce => Joined(pending, f).code = <<>>
        <4>1. step.tracker /\ blank /\ ~Loses(f)
          BY <1>9, <1>12, <2>2, <3>1
        <4>2. Carries(tracker, encoder, pending) /\ (encoder.announce => pending.code = <<>>)
          BY <1>0, <4>1 DEF TrackerInv
        <4>3. Joined(pending, f).code = pending.code /\ Joined(pending, f).fields = pending.fields
          BY <1>7, <1>16, <4>1
        <4> QED
          BY <1>2, <4>1, <4>2, <4>3 DEF Carries
      <3>2. TrackSentFrame(f)
        BY <1>13, <2>2
      <3> QED
        BY <1>0, <1>2, <1>7, <1>12, <3>1, <3>2, TrackSentFrameIs
    <2> QED
      BY <2>1, <2>2
  <1>21. TypeOK'
    BY <1>0, <1>1, <1>2, <1>12, <1>18, <1>19, <1>20 DEF TypeOK
  <1>22. TrackerInv'
    BY <1>0, <1>2, <1>12, <1>20 DEF TrackerInv
  <1>23. ClientInv'
    BY <1>0, <1>2, <1>12 DEF ClientInv
  <1>24. SessionInv'
    BY <1>0, <1>1, <1>2 DEF SessionInv
  <1> QED
    BY <1>18, <1>20, <1>21, <1>22, <1>23, <1>24 DEF Inv

(***************************************************************************)
(* Steps of the peer                                                       *)
(***************************************************************************)
\* The peer x with one more SETTINGS of its own to be acknowledged.
Owes(x, sizes) == [x EXCEPT !.unacked = Append(@, sizes)]

LEMMA OwesIs ==
    ASSUME NEW x \in PeerState, NEW sizes \in Seq(Nat)
    PROVE  /\ Owes(x, sizes) \in PeerState
           /\ Owes(x, sizes).unacked = Append(x.unacked, sizes)
           /\ Owes(x, sizes).table = x.table /\ Owes(x, sizes).limit = x.limit
  <1>1. x.unacked \in Seq(Seq(Nat))
    BY DEF PeerState
  <1>2. PICK u \in Seq(Seq(Nat)) : u = Append(x.unacked, sizes)
    BY <1>1, AppendIs
  <1>3. Owes(x, sizes) = [x EXCEPT !.unacked = u]
    BY <1>2 DEF Owes
  <1> QED
    BY <1>2, <1>3 DEF PeerState

LEMMA AppendKeepsHead ==
    ASSUME NEW A, NEW q \in Seq(A), q # <<>>, NEW x \in A
    PROVE  /\ Append(q, x) # <<>> /\ Head(Append(q, x)) = Head(q)
           /\ Tail(Append(q, x)) = Append(Tail(q), x)
  OBVIOUS

\* What it owes last changes nothing of what it hears.
LEMMA OwingHears ==
    ASSUME NEW x \in PeerState, NEW y \in PeerState, NEW m \in Message, <<x, m, y>> \in PeerHears,
           NEW sizes \in Seq(Nat)
    PROVE  <<Owes(x, sizes), m, Owes(y, sizes)>> \in PeerHears
  <1>1. PICK v \in PeerState : v = Owes(x, sizes)
    BY OwesIs
  <1>2. PICK w \in PeerState : w = Owes(y, sizes)
    BY OwesIs
  <1>3. /\ v.unacked = Append(x.unacked, sizes) /\ v.table = x.table /\ v.limit = x.limit
        /\ w.unacked = Append(y.unacked, sizes) /\ w.table = y.table /\ w.limit = y.limit
    BY <1>1, <1>2, OwesIs
  <1>4. HearsSettings(x, m, y) \/ HearsAck(x, m, y) \/ HearsBlock(x, m, y) \/ HearsBroken(x, m, y)
    BY DEF PeerHears
  <1>5. CASE HearsSettings(x, m, y)
    <2>1. PICK n : n = Last(<<x.limit>> \o m.sizes)
      OBVIOUS
    <2>2. y = [x EXCEPT !.limit = n] /\ m.type = "settings"
      BY <1>5, <2>1 DEF HearsSettings
    <2>3. y.limit = n /\ y.table = x.table /\ y.unacked = x.unacked
      BY <2>2 DEF PeerState
    <2>4. w = [v EXCEPT !.limit = n]
      BY <1>3, <2>3 DEF PeerState
    <2>5. HearsSettings(v, m, w)
      BY <1>3, <2>1, <2>2, <2>4 DEF HearsSettings
    <2> QED
      BY <1>1, <1>2, <2>5 DEF PeerHears
  <1>6. CASE HearsAck(x, m, y)
    <2>1. x.unacked \in Seq(Seq(Nat)) /\ x.unacked # <<>>
      BY <1>6 DEF HearsAck, PeerState
    <2>2. PICK u \in Seq(Seq(Nat)) : u = x.unacked
      BY <2>1
    <2>3. Append(u, sizes) # <<>> /\ Head(Append(u, sizes)) = Head(u)
          /\ Tail(Append(u, sizes)) = Append(Tail(u), sizes)
      BY <2>1, <2>2, AppendKeepsHead
    <2>4. v.unacked # <<>> /\ Head(v.unacked) = Head(x.unacked) /\ Tail(v.unacked) = w.unacked
      BY <1>3, <1>6, <2>2, <2>3 DEF HearsAck
    <2>5. HearsAck(v, m, w)
      BY <1>3, <1>6, <2>4 DEF HearsAck
    <2> QED
      BY <1>1, <1>2, <2>5 DEF PeerHears
  <1>7. CASE HearsBlock(x, m, y)
    <2>1. PICK d : d = InsistentDecode(x.table, m.code).table
      OBVIOUS
    <2>2. y = [x EXCEPT !.table = d] /\ m.type = "block"
      BY <1>7, <2>1 DEF HearsBlock
    <2>3. y.table = d /\ y.limit = x.limit /\ y.unacked = x.unacked
      BY <2>2 DEF PeerState
    <2>4. w = [v EXCEPT !.table = d]
      BY <1>3, <2>3 DEF PeerState
    <2>5. m.excused \/ Right(InsistentDecode(v.table, m.code), m.fields)
      BY <1>3, <1>7 DEF HearsBlock
    <2>6. HearsBlock(v, m, w)
      BY <1>3, <2>1, <2>2, <2>4, <2>5 DEF HearsBlock
    <2> QED
      BY <1>1, <1>2, <2>6 DEF PeerHears
  <1>8. CASE HearsBroken(x, m, y)
    BY <1>1, <1>2, <1>8 DEF HearsBroken, PeerHears
  <1> QED
    BY <1>4, <1>5, <1>6, <1>7, <1>8

\* The same of the sizes that wait.
LEMMA WaitingOn ==
    ASSUME NEW x \in Seq(Seq(Nat)), NEW y \in Seq(Seq(Nat)), NEW m \in Message, <<x, m, y>> \in Waits,
           NEW sizes \in Seq(Nat)
    PROVE  <<Append(x, sizes), m, Append(y, sizes)>> \in Waits
  <1>1. Append(x, sizes) \in Seq(Seq(Nat)) /\ Append(y, sizes) \in Seq(Seq(Nat))
    BY AppendIs
  <1>2. CASE m.type = "settings"
    <2>1. x # <<>> /\ Head(x) = m.sizes /\ y = Tail(x)
      BY <1>2 DEF Waits
    <2>2. Append(x, sizes) # <<>> /\ Head(Append(x, sizes)) = Head(x)
          /\ Tail(Append(x, sizes)) = Append(Tail(x), sizes)
      BY <2>1, AppendKeepsHead
    <2> QED
      BY <1>1, <1>2, <2>1, <2>2 DEF Waits
  <1>3. CASE m.type # "settings"
    <2>1. y = x
      BY <1>3 DEF Waits
    <2> QED
      BY <1>1, <1>3, <2>1 DEF Waits
  <1> QED
    BY <1>2, <1>3

LEMMA PeerSendSettingsKeeps ==
    ASSUME Inv, NEW sizes \in Seq(Nat), PeerSendSettings(sizes)
    PROVE  Inv'
  <1>0. TypeOK /\ TrackerInv /\ PeerInv /\ ClientInv /\ SessionInv /\ VerdictInv
    BY DEF Inv
  <1>1. plan' \in Plan /\ plan'.mode = plan.mode
    BY <1>0, SpendIs DEF PeerSendSettings, TypeOK
  <1>2. /\ stage' = stage /\ encoder' = encoder /\ tracker' = tracker /\ decoder' = decoder
        /\ pending' = pending /\ wire' = wire /\ owed' = owed
        /\ peerEncoder' = peerEncoder /\ peerDecoder' = peerDecoder /\ peerLimit' = peerLimit
        /\ asked' = asked /\ toPeer' = toPeer /\ verdict' = verdict /\ step' = step
    BY DEF PeerSendSettings, client
  <1>3. PICK m \in Message : m = Settings(sizes)
    BY MessageIs
  <1>4. m.type = "settings" /\ m.sizes = sizes
    BY <1>3, MessageIs
  <1>5. toClient \in Seq(Message) /\ toClient' = Append(toClient, m)
        /\ toClient' \in Seq(Message) /\ Longer(toClient', toClient, m)
    BY <1>0, <1>3, AppendIs DEF PeerSendSettings, TypeOK
  <1>6. unacked' = Append(unacked, sizes) /\ unacked' \in Seq(Seq(Nat))
    BY <1>0, AppendIs DEF PeerSendSettings, TypeOK
  <1>7. TypeOK'
    BY <1>0, <1>1, <1>2, <1>5, <1>6 DEF TypeOK
  <1>8. TrackerInv'
    BY <1>0, <1>2 DEF TrackerInv
  <1>9. PeerInv'
    <2>1. PICK z : PeerEnd(z)
      BY <1>0 DEF PeerInv
    <2>2. z \in PeerState /\ PeerNow \in PeerState
      BY <1>0, <2>1 DEF PeerEnd, TypeOK, PeerState, PeerNow
    <2>3. PICK y \in PeerState : y = Owes(z, sizes)
      BY <2>2, OwesIs
    <2>4. y.unacked = Append(z.unacked, sizes) /\ y.table = z.table /\ y.limit = z.limit
      BY <2>2, <2>3, OwesIs
    <2>5. PICK h : h = [x \in PeerState |-> Owes(x, sizes)]
      OBVIOUS
    <2>6. h \in [PeerState -> PeerState]
      BY <2>5, OwesIs
    <2>7. toPeer \in Seq(Message)
      BY <1>0 DEF TypeOK
    <2>8. Likewise(PeerHears, PeerState, toPeer, toPeer, h)
      <3>1. ASSUME NEW i \in 1..Len(toPeer), NEW u \in PeerState, NEW v \in PeerState,
                   <<u, toPeer[i], v>> \in PeerHears
            PROVE  <<h[u], toPeer[i], h[v]>> \in PeerHears
        <4>1. PICK k \in Message : k = toPeer[i]
          BY <2>7
        <4>2. <<Owes(u, sizes), k, Owes(v, sizes)>> \in PeerHears
          BY <3>1, <4>1, OwingHears
        <4> QED
          BY <2>5, <4>1, <4>2
      <3> QED
        BY <3>1 DEF Likewise
    <2>9. Hears(PeerHears, PeerState, toPeer, h[PeerNow], h[z])
      BY <2>1, <2>6, <2>7, <2>8, HearsAlike DEF PeerEnd
    <2>10. PeerNow' = Owes(PeerNow, sizes)
      <3>1. PICK u : u = Append(unacked, sizes)
        OBVIOUS
      <3>2. PeerNow' = [table |-> peerDecoder, unacked |-> u, limit |-> peerLimit]
        BY <1>2, <1>6, <3>1 DEF PeerNow
      <3>3. PeerNow.unacked = unacked
        BY DEF PeerNow
      <3>4. Owes(PeerNow, sizes) = [PeerNow EXCEPT !.unacked = u]
        BY <3>1, <3>3 DEF Owes
      <3> QED
        BY <3>2, <3>4 DEF PeerNow
    <2>11. Hears(PeerHears, PeerState, toPeer', PeerNow', y)
      BY <1>2, <2>2, <2>3, <2>5, <2>9, <2>10
    <2>12. PICK coming \in Seq(Seq(Nat)) :
              Hears(Waits, Seq(Seq(Nat)), toClient, coming, <<>>) /\ z.unacked = owed \o coming
      BY <2>1 DEF PeerEnd
    <2>13. PICK later \in Seq(Seq(Nat)) : later = Append(coming, sizes)
      BY AppendIs
    <2>14. Hears(Waits, Seq(Seq(Nat)), toClient', later, <<>>)
      <3>1. PICK g : g = [x \in Seq(Seq(Nat)) |-> Append(x, sizes)]
        OBVIOUS
      <3>2. g \in [Seq(Seq(Nat)) -> Seq(Seq(Nat))]
        BY <3>1, AppendIs
      <3>3. Likewise(Waits, Seq(Seq(Nat)), toClient, toClient, g)
        <4>1. ASSUME NEW i \in 1..Len(toClient), NEW u \in Seq(Seq(Nat)), NEW v \in Seq(Seq(Nat)),
                     <<u, toClient[i], v>> \in Waits
              PROVE  <<g[u], toClient[i], g[v]>> \in Waits
          <5>1. PICK k \in Message : k = toClient[i]
            BY <1>5
          <5>2. <<Append(u, sizes), k, Append(v, sizes)>> \in Waits
            BY <4>1, <5>1, WaitingOn
          <5> QED
            BY <3>1, <5>1, <5>2
        <4> QED
          BY <4>1 DEF Likewise
      <3>4. <<>> \in Seq(Seq(Nat)) /\ <<sizes>> \in Seq(Seq(Nat))
        OBVIOUS
      <3>5. PICK none \in Seq(Seq(Nat)) : none = <<>>
        BY <3>4
      <3>6. PICK one \in Seq(Seq(Nat)) : one = Append(none, sizes)
        BY AppendIs
      <3>7. one # <<>> /\ Head(one) = sizes /\ Tail(one) = none
        BY <3>5, <3>6
      <3>8. Hears(Waits, Seq(Seq(Nat)), toClient, coming, none)
        BY <2>12, <3>5
      <3>9. Hears(Waits, Seq(Seq(Nat)), toClient, g[coming], g[none])
        BY <1>5, <3>2, <3>3, <3>8, HearsAlike
      <3>10. Hears(Waits, Seq(Seq(Nat)), toClient, later, one)
        BY <2>13, <3>1, <3>6, <3>9
      <3>11. <<one, m, none>> \in Waits
        BY <1>4, <3>7 DEF Waits
      <3>12. Hears(Waits, Seq(Seq(Nat)), toClient', later, none)
        BY <1>5, <3>10, <3>11, HearsMore
      <3> QED
        BY <3>5, <3>12
    <2>15. y.unacked = owed' \o later
      <3>1. EndsAlike(owed, coming, sizes)
        BY <1>0, AppendToTail DEF TypeOK
      <3> QED
        BY <1>2, <2>4, <2>12, <2>13, <3>1 DEF EndsAlike
    <2>16. PeerEnd(y)'
      BY <1>2, <2>1, <2>4, <2>11, <2>14, <2>15 DEF PeerEnd
    <2> QED
      BY <2>16 DEF PeerInv
  <1>10. ClientInv'
    <2>1. m \in Within(decoder.allowed)
      BY <1>4 DEF Within
    <2>2. toClient' \in Seq(Within(decoder'.allowed))
      BY <1>0, <1>2, <1>5, <2>1, AppendIs DEF ClientInv
    <2>3. ASSUME step.responses
          PROVE  \E x \in Decoder : /\ Hears(ClientHears, Decoder, toClient', Bare(decoder), x)
                                    /\ InStep(x, peerEncoder)
      <3>1. PICK x \in Decoder : /\ Hears(ClientHears, Decoder, toClient, Bare(decoder), x)
                                 /\ InStep(x, peerEncoder)
        BY <1>0, <2>3 DEF ClientInv
      <3>2. <<x, m, x>> \in ClientHears
        BY <1>4 DEF ClientHears
      <3>3. PICK a : a = Bare(decoder)
        OBVIOUS
      <3>4. Hears(ClientHears, Decoder, toClient', a, x)
        BY <1>5, <3>1, <3>2, <3>3, HearsMore
      <3> QED
        BY <3>1, <3>3, <3>4
    <2> QED
      BY <1>0, <1>2, <2>2, <2>3 DEF ClientInv
  <1>11. SessionInv'
    <2>1. m \in Others("block") /\ m \in Meant
      BY <1>4 DEF Others, Meant
    <2>2. \A Q : m \in Q /\ toClient \in Seq(Q) => toClient' \in Seq(Q)
      BY <1>5, AppendIs
    <2> QED
      BY <1>0, <1>1, <1>2, <2>1, <2>2 DEF SessionInv
  <1>12. VerdictInv'
    BY <1>0, <1>2 DEF VerdictInv
  <1> QED
    BY <1>7, <1>8, <1>9, <1>10, <1>11, <1>12 DEF Inv

LEMMA PeerResizeKeeps ==
    ASSUME Inv, NEW n \in Nat, PeerResize(n)
    PROVE  Inv'
  <1>0. TypeOK /\ TrackerInv /\ PeerInv /\ ClientInv /\ SessionInv /\ VerdictInv
    BY DEF Inv
  <1>1. plan' \in Plan /\ plan'.mode = plan.mode
    BY <1>0, SpendIs DEF PeerResize, TypeOK
  <1>2. /\ stage' = stage /\ encoder' = encoder /\ tracker' = tracker /\ decoder' = decoder
        /\ pending' = pending /\ wire' = wire /\ owed' = owed
        /\ peerDecoder' = peerDecoder /\ peerLimit' = peerLimit /\ unacked' = unacked
        /\ asked' = asked /\ toPeer' = toPeer /\ toClient' = toClient
        /\ verdict' = verdict /\ step' = step
    BY DEF PeerResize, client
  <1>3. peerEncoder' = SetSize(peerEncoder, n) /\ n <= peerLimit
    BY DEF PeerResize
  <1>4. peerEncoder' \in Encoder /\ Sound(peerEncoder') /\ peerEncoder'.max = n
    BY <1>0, <1>3, SetSizeIs, SetSizeSound DEF TypeOK
  <1>5. TypeOK'
    BY <1>0, <1>1, <1>2, <1>4 DEF TypeOK
  <1>6. TrackerInv'
    BY <1>0, <1>2 DEF TrackerInv
  <1>7. PeerInv'
    <2>1. PICK z : PeerEnd(z)
      BY <1>0 DEF PeerInv
    <2>2. PeerNow' = PeerNow
      BY <1>2 DEF PeerNow
    <2>3. PeerEnd(z)'
      BY <1>2, <2>1, <2>2 DEF PeerEnd
    <2> QED
      BY <2>3 DEF PeerInv
  <1>8. ClientInv'
    <2>1. \A x \in Decoder : InStep(x, peerEncoder) => InStep(x, peerEncoder')
      BY <1>0, <1>3, SetSizeKeeps DEF TypeOK
    <2> QED
      BY <1>0, <1>2, <1>3, <1>4, <2>1 DEF ClientInv
  <1>9. SessionInv'
    BY <1>0, <1>1, <1>2 DEF SessionInv
  <1>10. VerdictInv'
    BY <1>0, <1>2 DEF VerdictInv
  <1> QED
    BY <1>5, <1>6, <1>7, <1>8, <1>9, <1>10 DEF Inv

\* A block of e announces no more than the size of its table.
LEMMA AnnouncementsWithin ==
    ASSUME NEW e \in Encoder, Sound(e), NEW f \in Field, NEW x \in Representations(e, f),
           NEW code, code = Announcements(e) \o <<x>>
    PROVE  \A j \in 1..Len(code) : code[j].op = "size" => code[j].size <= e.max
  <1>1. x.op # "size"
    BY DEF Representations, Indexed, Inserted, Literal
  <1>2. PICK u : u = SizeUpdate(e.max)
    OBVIOUS
  <1>3. PICK v : v = SizeUpdate(e.lowest)
    OBVIOUS
  <1>4. u.size = e.max /\ v.size = e.lowest /\ e.max \in Nat /\ e.lowest \in Nat
    BY <1>2, <1>3 DEF SizeUpdate, Encoder
  <1>5. CASE ~e.announce
    <2>1. code = <<x>>
      BY <1>5 DEF Announcements
    <2> QED
      BY <1>1, <2>1
  <1>6. CASE e.announce /\ e.lowest < e.max
    <2>1. Announcements(e) = <<v, u>>
      <3>1. e.announce
        BY <1>6
      <3>2. e.lowest < e.max
        BY <1>6
      <3> QED
        BY <1>2, <1>3, <3>1, <3>2 DEF Announcements
    <2>2. Len(code) = 3 /\ code[1] = v /\ code[2] = u /\ code[3] = x
      BY <2>1
    <2>3. \A j \in 1..Len(code) : code[j] = v \/ code[j] = u \/ code[j] = x
      BY <2>2
    <2>4. e.lowest <= e.max /\ e.max <= e.max
      BY <1>4, <1>6
    <2> QED
      BY <1>1, <1>4, <2>3, <2>4
  <1>7. CASE e.announce /\ ~(e.lowest < e.max)
    <2>1. Announcements(e) = <<u>>
      BY <1>2, <1>7 DEF Announcements
    <2>2. Len(code) = 2 /\ code[1] = u /\ code[2] = x
      BY <2>1
    <2>3. \A j \in 1..Len(code) : code[j] = u \/ code[j] = x
      BY <2>2
    <2>4. e.max <= e.max
      BY <1>4
    <2> QED
      BY <1>1, <1>4, <2>3, <2>4
  <1> QED
    BY <1>5, <1>6, <1>7

\* When no SETTINGS is on its way to the peer, it knows the client's limit.
LEMMA LimitIsKnown ==
    ASSUME TypeOK, NEW z, PeerEnd(z), \A i \in 1..Len(toPeer) : toPeer[i].type # "settings"
    PROVE  peerLimit = z.limit
  <1>1. PeerNow \in PeerState /\ PeerNow.limit = peerLimit /\ z \in PeerState
    BY DEF TypeOK, PeerNow, PeerState, PeerEnd
  <1>2. PICK g : g = [x \in PeerState |-> x.limit]
    OBVIOUS
  <1>3. toPeer \in Seq(Message)
    BY DEF TypeOK
  <1>4. ASSUME NEW i \in 1..Len(toPeer), NEW x \in PeerState, NEW y \in PeerState,
               <<x, toPeer[i], y>> \in PeerHears
        PROVE  g[x] = g[y]
    <2>1. PICK m \in Message : m = toPeer[i]
      BY <1>3
    <2>2. HearsAck(x, m, y) \/ HearsBlock(x, m, y) \/ HearsBroken(x, m, y)
      BY <1>4, <2>1 DEF PeerHears, HearsSettings
    <2>3. HearsAck(x, m, y) => y.limit = x.limit
      BY DEF HearsAck
    <2>4. HearsBlock(x, m, y) => y.limit = x.limit
      BY DEF HearsBlock, PeerState
    <2>5. HearsBroken(x, m, y) => y = x
      BY DEF HearsBroken
    <2> QED
      BY <1>2, <2>2, <2>3, <2>4, <2>5
  <1>5. Untouched(PeerHears, PeerState, toPeer, g)
    BY <1>4 DEF Untouched
  <1>6. PICK a : a = PeerNow
    OBVIOUS
  <1>7. Hears(PeerHears, PeerState, toPeer, a, z)
    BY <1>6 DEF PeerEnd
  <1>8. g[a] = g[z]
    BY <1>3, <1>5, <1>7, HearsKeeps
  <1> QED
    BY <1>1, <1>2, <1>6, <1>8

LEMMA PeerSendBlockKeeps ==
    ASSUME Inv, NEW f \in Field, NEW instruction \in Representations(peerEncoder, f),
           PeerSendBlock(f, instruction)
    PROVE  Inv'
  <1>0. TypeOK /\ TrackerInv /\ PeerInv /\ ClientInv /\ SessionInv /\ VerdictInv
    BY DEF Inv
  <1>1. plan' \in Plan /\ plan'.mode = plan.mode
    BY <1>0, SpendIs DEF PeerSendBlock, TypeOK
  <1>2. /\ stage' = stage /\ encoder' = encoder /\ tracker' = tracker /\ decoder' = decoder
        /\ pending' = pending /\ wire' = wire /\ owed' = owed
        /\ peerDecoder' = peerDecoder /\ peerLimit' = peerLimit /\ unacked' = unacked
        /\ asked' = asked /\ toPeer' = toPeer /\ verdict' = verdict /\ step' = step
    BY DEF PeerSendBlock, client
  <1>3. instruction \in Instruction /\ peerEncoder \in Encoder /\ Sound(peerEncoder)
    BY <1>0, RepresentationIs DEF TypeOK, ClientInv
  <1>4. PICK code \in Seq(Instruction) : code = Announcements(peerEncoder) \o <<instruction>>
    <2>1. PICK a \in Seq(Instruction) : a = Announcements(peerEncoder)
      BY <1>3, AnnouncementsType
    <2>2. a \o <<instruction>> \in Seq(Instruction)
      BY <1>3
    <2> QED
      BY <2>1, <2>2
  <1>5. PICK excused \in BOOLEAN :
           excused = (~step.told \/ \E i \in DOMAIN toPeer : toPeer[i].type = "settings")
    OBVIOUS
  <1>6. PICK fields \in Seq(Field) : fields = <<f>>
    <2>1. <<f>> \in Seq(Field)
      OBVIOUS
    <2> QED
      BY <2>1
  <1>7. PICK m \in Message : m = Block(code, fields, excused)
    BY MessageIs
  <1>8. m.type = "block" /\ m.code = code /\ m.fields = fields /\ m.excused = excused
    BY <1>7, MessageIs
  <1>9. toClient \in Seq(Message) /\ toClient' = Append(toClient, m)
        /\ toClient' \in Seq(Message) /\ Longer(toClient', toClient, m)
    BY <1>0, <1>4, <1>5, <1>6, <1>7, AppendIs DEF PeerSendBlock, TypeOK
  <1>10. /\ peerEncoder' = Wrote(peerEncoder, instruction)
         /\ peerEncoder' \in Encoder /\ Sound(peerEncoder')
         /\ ~peerEncoder'.announce /\ peerEncoder'.max = peerEncoder.max
    BY <1>3, WroteIs DEF PeerSendBlock, Wrote
  <1>11. TypeOK'
    BY <1>0, <1>1, <1>2, <1>9, <1>10 DEF TypeOK
  <1>12. TrackerInv'
    BY <1>0, <1>2 DEF TrackerInv
  <1>13. PeerInv'
    <2>1. PICK z : PeerEnd(z)
      BY <1>0 DEF PeerInv
    <2>2. PeerNow' = PeerNow
      BY <1>2 DEF PeerNow
    <2>3. PICK coming \in Seq(Seq(Nat)) :
              Hears(Waits, Seq(Seq(Nat)), toClient, coming, <<>>) /\ z.unacked = owed \o coming
      BY <2>1 DEF PeerEnd
    <2>4. <<>> \in Seq(Seq(Nat))
      OBVIOUS
    <2>5. PICK none \in Seq(Seq(Nat)) : none = <<>>
      BY <2>4
    <2>6. <<none, m, none>> \in Waits
      BY <1>8 DEF Waits
    <2>7. Hears(Waits, Seq(Seq(Nat)), toClient, coming, none)
      BY <2>3, <2>5
    <2>8. Hears(Waits, Seq(Seq(Nat)), toClient', coming, none)
      BY <1>9, <2>6, <2>7, HearsMore
    <2>9. PeerEnd(z)'
      BY <1>2, <2>1, <2>2, <2>3, <2>5, <2>8 DEF PeerEnd
    <2> QED
      BY <2>9 DEF PeerInv
  <1>14. ClientInv'
    <2>1. m \in Within(decoder.allowed)
      <3> SUFFICES ASSUME ~excused
                   PROVE  \A j \in 1..Len(m.code) : m.code[j].op = "size" => m.code[j].size <= decoder.allowed
        BY <1>8 DEF Within
      <3>1. PICK z : PeerEnd(z)
        BY <1>0 DEF PeerInv
      <3>2. \A i \in 1..Len(toPeer) : toPeer[i].type # "settings"
        <4>1. DOMAIN toPeer = 1..Len(toPeer)
          BY <1>0 DEF TypeOK
        <4> QED
          BY <1>5, <4>1
      <3>3. peerLimit = z.limit /\ step.told
        BY <1>0, <1>5, <3>1, <3>2, LimitIsKnown
      <3>4. peerEncoder.max <= peerLimit /\ peerLimit <= decoder.allowed
        BY <1>0, <3>1, <3>3 DEF ClientInv, PeerEnd
      <3>5. peerEncoder.max \in Nat /\ peerLimit \in Nat /\ decoder.allowed \in Nat
        BY <1>0, <1>3 DEF TypeOK, Encoder, Decoder
      <3>6. \A j \in 1..Len(code) : code[j].op = "size" => code[j].size <= peerEncoder.max
        BY <1>3, <1>4, AnnouncementsWithin
      <3>7. \A j \in 1..Len(code) : code[j].op = "size" => code[j].size \in Nat
        <4>1. \A x \in Instruction : x.op = "size" => x.size \in Nat
          BY DEF Instruction
        <4>2. \A j \in 1..Len(code) : code[j] \in Instruction
          BY <1>4
        <4> QED
          BY <4>1, <4>2
      <3> QED
        BY <1>8, <3>4, <3>5, <3>6, <3>7
    <2>2. toClient' \in Seq(Within(decoder'.allowed))
      BY <1>0, <1>2, <1>9, <2>1, AppendIs DEF ClientInv
    <2>3. ASSUME step.responses
          PROVE  \E x \in Decoder : /\ Hears(ClientHears, Decoder, toClient', Bare(decoder), x)
                                    /\ InStep(x, peerEncoder')
      <3>1. PICK x \in Decoder : /\ Hears(ClientHears, Decoder, toClient, Bare(decoder), x)
                                 /\ InStep(x, peerEncoder)
        BY <1>0, <2>3 DEF ClientInv
      <3>2. PICK y \in Decoder : y = Bare(peerEncoder')
        BY <1>10 DEF Bare, Encoder, Decoder
      <3>3. ReadsBlock(x, m, y)
        BY <1>3, <1>4, <1>6, <1>8, <1>10, <3>1, <3>2 DEF ReadsBlock
      <3>4. <<x, m, y>> \in ClientHears
        BY <1>8, <3>3 DEF ClientHears
      <3>5. PICK a : a = Bare(decoder)
        OBVIOUS
      <3>6. Hears(ClientHears, Decoder, toClient', a, y)
        BY <1>9, <3>1, <3>4, <3>5, HearsMore
      <3>7. InStep(y, peerEncoder')
        BY <1>10, <3>2 DEF InStep, Bare
      <3> QED
        BY <3>5, <3>6, <3>7
    <2> QED
      BY <1>0, <1>2, <1>10, <2>2, <2>3 DEF ClientInv
  <1>15. SessionInv'
    <2> SUFFICES ASSUME plan'.mode = "request"
                 PROVE  SessionInv'
      BY DEF SessionInv
    <2>1. asked /\ stage = "response" /\ step.told /\ toPeer \in Seq(Others("settings"))
      BY <1>0, <1>1 DEF PeerSendBlock, SessionInv
    <2>2. ~excused
      <3>1. \A i \in DOMAIN toPeer : toPeer[i] \in Others("settings")
        BY <2>1
      <3>2. \A i \in DOMAIN toPeer : toPeer[i].type # "settings"
        BY <3>1 DEF Others
      <3> QED
        BY <1>5, <2>1, <3>2
    <2>3. m \in Meant
      BY <1>8, <2>2 DEF Meant
    <2>4. toClient' \in Seq(Meant)
      BY <1>0, <1>1, <1>9, <2>3, AppendIs DEF SessionInv
    <2> QED
      BY <1>0, <1>1, <1>2, <2>1, <2>4 DEF SessionInv
  <1>16. VerdictInv'
    BY <1>0, <1>2 DEF VerdictInv
  <1> QED
    BY <1>11, <1>12, <1>13, <1>14, <1>15, <1>16 DEF Inv

\* The peer shrinks its table, if at all, to no more than it is told last.
LEMMA PeerApplyIs ==
    ASSUME NEW e \in Encoder, Sound(e), NEW limit \in Nat, e.max <= limit, NEW sizes \in Seq(Nat)
    PROVE  /\ PeerApply(e, sizes) \in Encoder /\ Sound(PeerApply(e, sizes))
           /\ PeerApply(e, sizes).max <= Last(<<limit>> \o sizes)
           /\ \A d \in Decoder : InStep(d, e) => InStep(d, PeerApply(e, sizes))
  <1>1. PICK S : S = {e.max} \cup Range(sizes)
    OBVIOUS
  <1>2. e.max \in Nat /\ e.max \in S /\ S \subseteq Nat /\ \A i \in 1..Len(sizes) : sizes[i] \in S
    BY <1>1 DEF Encoder, Range
  <1>3. PICK n \in Nat : n = Min(S) /\ n \in S /\ \A y \in S : n <= y
    <2>1. S # {}
      BY <1>2
    <2> QED
      BY <1>2, <2>1, MinExists
  <1>4. n <= Last(<<limit>> \o sizes)
    <2>1. n <= limit
      BY <1>2, <1>3
    <2>2. sizes = <<>> => n <= Last(<<limit>> \o sizes)
      BY <2>1, LastIs
    <2>3. sizes # <<>> => n <= Last(<<limit>> \o sizes)
      BY <1>2, <1>3, LastIs
    <2> QED
      BY <2>2, <2>3
  <1>5. CASE n < e.max
    <2>1. PeerApply(e, sizes) = SetSize(e, n)
      BY <1>1, <1>3, <1>5 DEF PeerApply
    <2>2. SetSize(e, n) \in Encoder /\ SetSize(e, n).max = n /\ Sound(SetSize(e, n))
      BY SetSizeIs, SetSizeSound
    <2> QED
      BY <1>4, <2>1, <2>2, SetSizeKeeps
  <1>6. CASE ~(n < e.max)
    <2>1. PeerApply(e, sizes) = e
      BY <1>1, <1>3, <1>6 DEF PeerApply
    <2>2. e.max = n
      BY <1>2, <1>3, <1>6
    <2> QED
      BY <1>4, <2>1, <2>2
  <1> QED
    BY <1>5, <1>6

\* The peer takes the next message, and is where the chain says.
LEMMA PeerTakes ==
    ASSUME TypeOK, PeerInv, toPeer # <<>>
    PROVE  \E b \in PeerState :
              /\ <<PeerNow, Head(toPeer), b>> \in PeerHears
              /\ /\ toPeer' = Tail(toPeer) /\ PeerNow' = b
                 /\ UNCHANGED <<client, toClient, step>>
                 => PeerInv'
  <1>1. PICK z : PeerEnd(z)
    BY DEF PeerInv
  <1>2. toPeer \in Seq(Message) /\ PeerNow \in PeerState
    BY DEF TypeOK, PeerNow, PeerState
  <1>3. PICK a : a = PeerNow
    OBVIOUS
  <1>4. Hears(PeerHears, PeerState, toPeer, a, z)
    BY <1>1, <1>3 DEF PeerEnd
  <1>5. PICK b \in PeerState :
           <<a, Head(toPeer), b>> \in PeerHears /\ Hears(PeerHears, PeerState, Tail(toPeer), b, z)
    BY <1>2, <1>4, HearsFirst
  <1>6. ASSUME toPeer' = Tail(toPeer), PeerNow' = b, UNCHANGED <<client, toClient, step>>
        PROVE  PeerInv'
    <2>1. Hears(PeerHears, PeerState, toPeer', PeerNow', z)
      BY <1>5, <1>6
    <2>2. /\ encoder' = encoder /\ decoder' = decoder /\ pending' = pending /\ wire' = wire /\ owed' = owed
          /\ toClient' = toClient /\ step' = step
      BY <1>6 DEF client
    <2>3. PeerEnd(z)'
      BY <1>1, <2>1, <2>2 DEF PeerEnd
    <2> QED
      BY <2>3 DEF PeerInv
  <1> QED
    BY <1>3, <1>5, <1>6

\* One message less on its way to the peer breaks no order.
LEMMA SessionWithout ==
    ASSUME TypeOK, SessionInv, toPeer # <<>>, toPeer' = Tail(toPeer), plan.mode = "request"
    PROVE  /\ \A Q : toPeer \in Seq(Q) => toPeer' \in Seq(Q)
           /\ \A i, j \in 1..Len(toPeer') :
                 i < j /\ toPeer'[i].type = "block" => toPeer'[j].type # "settings"
           /\ Head(toPeer).type = "block" => toPeer' \in Seq(Others("settings"))
  <1>1. toPeer \in Seq(Message)
    BY DEF TypeOK
  <1>2. /\ Len(toPeer') \in Nat /\ Len(toPeer) = Len(toPeer') + 1
        /\ \A i \in 1..Len(toPeer') : toPeer'[i] = toPeer[i + 1]
    BY <1>1, TailIs
  <1>3. \A i, j \in 1..Len(toPeer) : i < j /\ toPeer[i].type = "block" => toPeer[j].type # "settings"
    BY DEF SessionInv
  <1>4. \A Q : toPeer \in Seq(Q) => toPeer' \in Seq(Q)
    BY TailIs
  <1>5. \A i, j \in 1..Len(toPeer') :
           i < j /\ toPeer'[i].type = "block" => toPeer'[j].type # "settings"
    <2>1. \A i, j \in 1..Len(toPeer') :
             i < j => i + 1 \in 1..Len(toPeer) /\ j + 1 \in 1..Len(toPeer) /\ i + 1 < j + 1
      BY <1>2
    <2> QED
      BY <1>2, <1>3, <2>1
  <1>6. ASSUME Head(toPeer).type = "block"
        PROVE  toPeer' \in Seq(Others("settings"))
    <2>1. Head(toPeer) = toPeer[1]
      BY <1>1
    <2>2. \A j \in 1..Len(toPeer') : 1 \in 1..Len(toPeer) /\ j + 1 \in 1..Len(toPeer) /\ 1 < j + 1
      BY <1>2
    <2>3. \A j \in 1..Len(toPeer') : toPeer'[j].type # "settings"
      BY <1>2, <1>3, <1>6, <2>1, <2>2
    <2>4. toPeer' \in Seq(Message)
      BY <1>1, <1>4
    <2>5. \A j \in 1..Len(toPeer') : toPeer'[j] \in Others("settings")
      <3>1. \A j \in 1..Len(toPeer') : toPeer'[j] \in Message
        BY <2>4
      <3> QED
        BY <2>3, <3>1 DEF Others
    <2> QED
      BY <2>4, <2>5, AllAreSeq
  <1> QED
    BY <1>4, <1>5, <1>6

LEMMA PeerReceiveKeeps ==
    ASSUME Inv, PeerReceive
    PROVE  Inv'
  <1>0. TypeOK /\ TrackerInv /\ PeerInv /\ ClientInv /\ SessionInv /\ VerdictInv
    BY DEF Inv
  <1>1. /\ plan' = plan /\ stage' = stage /\ encoder' = encoder /\ tracker' = tracker
        /\ decoder' = decoder /\ pending' = pending /\ wire' = wire /\ owed' = owed /\ toClient' = toClient
        /\ client' = client
    BY DEF PeerReceive, client
  <1>2. toPeer \in Seq(Message) /\ toPeer # <<>> /\ toPeer' = Tail(toPeer) /\ toPeer' \in Seq(Message)
    BY <1>0, TailIs DEF PeerReceive, TypeOK
  <1>3. PICK m \in Message : m = Head(toPeer)
    BY <1>2, TailIs
  <1>4. PICK b \in PeerState :
           /\ <<PeerNow, m, b>> \in PeerHears
           /\ PeerNow' = b /\ step' = step => PeerInv'
    BY <1>0, <1>1, <1>2, <1>3, PeerTakes
  <1>5. /\ HearsSettings(PeerNow, m, b) \/ HearsAck(PeerNow, m, b) \/ HearsBlock(PeerNow, m, b)
           \/ HearsBroken(PeerNow, m, b)
        /\ HearsBroken(PeerNow, m, b) => m.type = "broken"
    BY <1>4 DEF PeerHears, HearsBroken
  <1>6. b = [table |-> b.table, unacked |-> b.unacked, limit |-> b.limit]
        /\ PeerNow.table = peerDecoder /\ PeerNow.unacked = unacked /\ PeerNow.limit = peerLimit
        /\ PeerNow' = [table |-> peerDecoder', unacked |-> unacked', limit |-> peerLimit']
        /\ b.table \in Decoder /\ b.unacked \in Seq(Seq(Nat)) /\ b.limit \in Nat
    BY DEF PeerNow, PeerState
  <1>7. TrackerInv' \/ step' # step
    BY <1>0, <1>1 DEF TrackerInv
  <1>8. CASE PeerReceiveSettings(m)
    <2>1. m.type = "settings" /\ m.sizes \in Seq(Nat)
      BY <1>8, MessageIs DEF PeerReceiveSettings
    <2>2. PICK sizes \in Seq(Nat) : sizes = m.sizes
      BY <2>1
    <2>3. /\ peerLimit' = Last(<<peerLimit>> \o sizes) /\ peerEncoder' = PeerApply(peerEncoder, sizes)
          /\ peerDecoder' = peerDecoder /\ unacked' = unacked /\ asked' = asked
          /\ verdict' = verdict /\ step' = step
      BY <1>8, <2>2 DEF PeerReceiveSettings
    <2>4. HearsSettings(PeerNow, m, b)
      BY <1>5, <2>1 DEF HearsAck, HearsBlock
    <2>5. PICK n : n = Last(<<peerLimit>> \o sizes)
      OBVIOUS
    <2>6. b = [PeerNow EXCEPT !.limit = n]
      BY <1>6, <2>2, <2>4, <2>5 DEF HearsSettings
    <2>7. PeerNow' = b
      BY <1>6, <2>3, <2>5, <2>6 DEF PeerNow
    <2>8. /\ peerEncoder' \in Encoder /\ Sound(peerEncoder') /\ peerEncoder'.max <= peerLimit'
          /\ \A x \in Decoder : InStep(x, peerEncoder) => InStep(x, peerEncoder')
      BY <1>0, <2>3, PeerApplyIs DEF TypeOK, ClientInv
    <2>9. TypeOK'
      <3>1. peerLimit' \in Nat
        BY <1>0, <2>3, LastIs DEF TypeOK
      <3> QED
        BY <1>0, <1>1, <1>2, <2>3, <2>8, <3>1 DEF TypeOK
    <2>10. ClientInv'
      BY <1>0, <1>1, <2>3, <2>8 DEF ClientInv
    <2>11. SessionInv'
      <3> SUFFICES ASSUME plan.mode = "request"
                   PROVE  SessionInv'
        BY <1>1 DEF SessionInv
      <3> QED
        BY <1>0, <1>1, <1>2, <2>3, SessionWithout DEF SessionInv
    <2>12. VerdictInv'
      BY <1>0, <2>3 DEF VerdictInv
    <2> QED
      BY <1>4, <1>7, <2>3, <2>7, <2>9, <2>10, <2>11, <2>12 DEF Inv
  <1>9. CASE PeerReceiveAck(m)
    <2>1. m.type = "ack"
      BY <1>9 DEF PeerReceiveAck
    <2>2. /\ peerDecoder' = [peerDecoder EXCEPT !.allowed = Last(<<@>> \o Head(unacked))]
          /\ unacked' = Tail(unacked) /\ peerEncoder' = peerEncoder /\ peerLimit' = peerLimit
          /\ asked' = asked /\ verdict' = verdict /\ step' = step
      BY <1>9 DEF PeerReceiveAck
    <2>3. HearsAck(PeerNow, m, b)
      BY <1>5, <2>1 DEF HearsSettings, HearsBlock
    <2>4. b.table = peerDecoder' /\ b.unacked = unacked' /\ b.limit = peerLimit'
      BY <1>6, <2>2, <2>3 DEF HearsAck
    <2>5. PeerNow' = b
      BY <1>6, <2>4
    <2>6. TypeOK'
      BY <1>0, <1>1, <1>2, <1>6, <2>2, <2>4 DEF TypeOK
    <2>7. ClientInv'
      BY <1>0, <1>1, <2>2 DEF ClientInv
    <2>8. SessionInv'
      <3> SUFFICES ASSUME plan.mode = "request"
                   PROVE  SessionInv'
        BY <1>1 DEF SessionInv
      <3> QED
        BY <1>0, <1>1, <1>2, <2>2, SessionWithout DEF SessionInv
    <2>9. VerdictInv'
      BY <1>0, <2>2 DEF VerdictInv
    <2> QED
      BY <1>4, <1>7, <2>2, <2>5, <2>6, <2>7, <2>8, <2>9 DEF Inv
  <1>10. CASE PeerReceiveBlock(m)
    <2>1. m.type = "block" /\ m.code \in Seq(Instruction) /\ m.fields \in Seq(Field) /\ m.excused \in BOOLEAN
      BY <1>10, MessageIs DEF PeerReceiveBlock
    <2>2. PICK reading : reading = InsistentDecode(peerDecoder, m.code)
      OBVIOUS
    <2>3. /\ peerDecoder' = reading.table /\ asked' = TRUE
          /\ peerEncoder' = peerEncoder /\ peerLimit' = peerLimit /\ unacked' = unacked /\ step' = step
      BY <1>10, <2>2 DEF PeerReceiveBlock
    <2>4. PICK right \in BOOLEAN : right = Right(reading, m.fields)
      BY <2>1, <2>2, InsistentDecodeIs, <1>0 DEF Right, TypeOK, Reading
    <2>5. verdict' = [by |-> "peer", right |-> right, excused |-> m.excused]
      BY <1>10, <2>2, <2>4 DEF PeerReceiveBlock
    <2>6. HearsBlock(PeerNow, m, b)
      BY <1>5, <2>1 DEF HearsSettings, HearsAck
    <2>7. b = [PeerNow EXCEPT !.table = reading.table] /\ (m.excused \/ right)
      BY <1>6, <2>2, <2>4, <2>6 DEF HearsBlock
    <2>8. PeerNow' = b
      BY <1>6, <2>3, <2>7 DEF PeerNow
    <2>9. TypeOK'
      <3>1. peerDecoder' \in Decoder
        BY <1>6, <2>8
      <3> QED
        BY <1>0, <1>1, <1>2, <2>1, <2>3, <2>5, <3>1 DEF TypeOK, Verdict
    <2>10. ClientInv'
      BY <1>0, <1>1, <2>3 DEF ClientInv
    <2>11. SessionInv'
      <3> SUFFICES ASSUME plan.mode = "request"
                   PROVE  SessionInv'
        BY <1>1 DEF SessionInv
      <3>1. stage = "response"
        <4>1. toPeer \notin Seq(Others("block"))
          <5>1. m \notin Others("block")
            BY <2>1 DEF Others
          <5> QED
            BY <1>2, <1>3, <5>1, TailIs
        <4> QED
          BY <1>0, <4>1 DEF SessionInv
      <3>2. toPeer' \in Seq(Others("settings")) /\ toPeer' \in Seq(Meant)
        BY <1>0, <1>2, <1>3, <2>1, SessionWithout DEF SessionInv
      <3>3. ~verdict'.excused
        <4>1. m \in Meant
          BY <1>0, <1>2, <1>3, TailIs DEF SessionInv
        <4> QED
          BY <2>1, <2>5, <4>1 DEF Meant
      <3>4. \A i, j \in 1..Len(toPeer') :
               i < j /\ toPeer'[i].type = "block" => toPeer'[j].type # "settings"
        BY <1>0, <1>2, SessionWithout
      <3> QED
        BY <1>0, <1>1, <2>3, <3>1, <3>2, <3>3, <3>4 DEF SessionInv
    <2>12. VerdictInv'
      BY <2>5, <2>7 DEF VerdictInv
    <2> QED
      BY <1>4, <1>7, <2>3, <2>8, <2>9, <2>10, <2>11, <2>12 DEF Inv
  <1> QED
    BY <1>3, <1>8, <1>9, <1>10 DEF PeerReceive

(***************************************************************************)
(* The theorems                                                            *)
(***************************************************************************)
LEMMA StutterKeeps ==
    ASSUME Inv, UNCHANGED vars
    PROVE  Inv'
  <1>1. /\ plan' = plan /\ stage' = stage /\ encoder' = encoder /\ tracker' = tracker
        /\ decoder' = decoder /\ pending' = pending /\ wire' = wire /\ owed' = owed
        /\ peerEncoder' = peerEncoder /\ peerDecoder' = peerDecoder /\ peerLimit' = peerLimit
        /\ unacked' = unacked /\ asked' = asked /\ toPeer' = toPeer /\ toClient' = toClient
        /\ verdict' = verdict /\ step' = step
    BY DEF vars, client, peer
  <1>2. TypeOK'
    BY <1>1 DEF Inv, TypeOK
  <1>3. TrackerInv'
    BY <1>1 DEF Inv, TrackerInv
  <1>4. PeerInv'
    <2>1. PICK z : PeerEnd(z)
      BY DEF Inv, PeerInv
    <2>2. PeerNow' = PeerNow
      BY <1>1 DEF PeerNow
    <2>3. PeerEnd(z)'
      BY <1>1, <2>1, <2>2 DEF PeerEnd
    <2> QED
      BY <2>3 DEF PeerInv
  <1>5. ClientInv'
    BY <1>1 DEF Inv, ClientInv
  <1>6. SessionInv'
    BY <1>1 DEF Inv, SessionInv
  <1>7. VerdictInv'
    BY <1>1 DEF Inv, VerdictInv
  <1> QED
    BY <1>2, <1>3, <1>4, <1>5, <1>6, <1>7 DEF Inv

LEMMA NextKeeps ==
    ASSUME Inv, [Next]_vars
    PROVE  Inv'
  <1>1. /\ plan \in Plan /\ peerLimit \in Nat
        /\ SizeLists \subseteq Seq(Nat) /\ FieldLists \subseteq Seq(Field)
        /\ HandmadeBlocks \subseteq Seq(Literals)
    BY HpackAssumption DEF Inv, TypeOK
  <1>2. <<plan.maxTable>> \in Seq(Nat)
    BY <1>1 DEF Plan
  <1>3. ASSUME NEW sizes \in SizeLists \cup {<<plan.maxTable>>}, SendSettings(sizes)
        PROVE  Inv'
    <2>1. sizes \in Seq(Nat)
      BY <1>1, <1>2
    <2> QED
      BY <1>3, <2>1, SendSettingsKeeps
  <1>3a. ASSUME NEW sizes \in SizeLists, SendRawSettings(sizes)
         PROVE  Inv'
    BY <1>1, <1>3a, SendRawSettingsKeeps
  <1>4. CASE ReceiveSettings
    BY <1>4, ReceiveSettingsKeeps
  <1>5. CASE SendAck
    BY <1>5, SendAckKeeps
  <1>6. CASE ReceiveBlock
    BY <1>6, ReceiveBlockKeeps
  <1>6a. plan.frames \subseteq Kind
    BY <1>1 DEF Plan
  <1>7. ASSUME NEW kind \in plan.frames, NEW fields \in FieldLists, NEW whole \in BOOLEAN,
               SendHeaders(kind, fields, whole)
        PROVE  Inv'
    BY <1>1, <1>7, <1>6a, SendHeadersKeeps
  <1>8. ASSUME NEW kind \in plan.frames, NEW code \in HandmadeBlocks, NEW whole \in BOOLEAN,
               SendHandmade(kind, code, whole)
        PROVE  Inv'
    BY <1>1, <1>8, <1>6a, SendHandmadeKeeps
  <1>9. ASSUME NEW sizes \in SizeLists, PeerSendSettings(sizes)
        PROVE  Inv'
    BY <1>1, <1>9, PeerSendSettingsKeeps
  <1>10. ASSUME NEW n \in 0..peerLimit, PeerResize(n)
         PROVE  Inv'
    BY <1>1, <1>10, PeerResizeKeeps
  <1>11. ASSUME NEW f \in Field, NEW instruction \in Representations(peerEncoder, f),
                PeerSendBlock(f, instruction)
         PROVE  Inv'
    BY <1>11, PeerSendBlockKeeps
  <1>12. CASE PeerReceive
    BY <1>12, PeerReceiveKeeps
  <1>13. CASE UNCHANGED vars
    BY <1>13, StutterKeeps
  <1> QED
    BY <1>3, <1>3a, <1>4, <1>5, <1>6, <1>7, <1>8, <1>9, <1>10, <1>11, <1>12, <1>13
       DEF Next, ClientStep, PeerStep

\* The tables of the two ends, and of the client's own reader, are in step once
\* all that is on its way has arrived, for as long as step records none of the
\* circumstances that the properties name: a block by hand, one that the tracker
\* lost, one that HTTP/2 forbids, a SETTINGS or its acknowledgement within one,
\* a write above the acknowledged limit.
THEOREM TablesKeepStep == Spec => []Inv
  <1>1. Init => Inv
    BY InitInv
  <1>2. Inv /\ [Next]_vars => Inv'
    BY NextKeeps
  <1> QED
    BY <1>1, <1>2, PTL DEF Spec

\* The client reads the peer's blocks right, but for those that announce a size
\* while its own SETTINGS is on its way, or beyond what the client itself takes:
\* a raw SETTINGS, or none, has told the peer of more.
THEOREM PeerBlocksAreRead == Spec => []ResponsesDecode
  <1>1. Inv => ResponsesDecode
    BY DEF Inv, VerdictInv, ResponsesDecode
  <1> QED
    BY <1>1, TablesKeepStep, PTL

\* A peer that goes on reading reads the client's blocks right, however many
\* sizes it has sent and however the script cuts its blocks.
THEOREM ClientBlocksAreRead == Spec => []RequestsDecode
  <1>1. Inv => RequestsDecode
    BY DEF Inv, VerdictInv, RequestsDecode
  <1> QED
    BY <1>1, TablesKeepStep, PTL

\* The client reports of its own blocks what it encoded, if none before was
\* given by hand, lost to the tracker or cut by a SETTINGS.
THEOREM OwnBlocksAreReported == Spec => []SentBlocksReadBack
  <1>1. Inv => SentBlocksReadBack
    BY DEF Inv, VerdictInv, SentBlocksReadBack
  <1> QED
    BY <1>1, TablesKeepStep, PTL

\* Outside scripts every block is read right, and nothing has to be excused.
THEOREM SessionsAreRead == Spec => []SessionsDecode
  <1>1. Inv => SessionsDecode
    BY DEF Inv, SessionInv, VerdictInv, SessionsDecode
  <1> QED
    BY <1>1, TablesKeepStep, PTL
=============================================================================
