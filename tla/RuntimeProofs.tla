--------------------------- MODULE RuntimeProofs ---------------------------
(***************************************************************************)
(* Proofs about modules that Runtime brings together.  The path to the CPU: the  *)
(* order sortIntoRunOrder makes, the blocks of memory of CpuExecutor and the      *)
(* values it reads, for any model an application builds; the kernel that keeps   *)
(* the best of any boxes; and partitionTheWork, which implements Schedule for    *)
(* any graphs and any number of devices.                                      *)
(***************************************************************************)
EXTENDS CpuPath, Partitioner, NonMaxSuppression, FiniteSetTheorems, SequenceTheorems, WellFoundedInduction, TLAPS

-----------------------------------------------------------------------------
(* Loops over numbers.                                                      *)

(* A nonempty set of naturals has a least element.                            *)
LEMMA LeastNatural ==
  ASSUME NEW S \in SUBSET Nat, S # {}
  PROVE  \E m \in S : \A k \in S : m <= k
<1> DEFINE R == StrictSubsetOrdering(Nat)
           T == {1 .. n : n \in S}
<1>1. IsWellFoundedOn(R, FiniteSubsetsOf(Nat)) BY FS_StrictSubsetOrderingWellFounded
<1>2. T \subseteq FiniteSubsetsOf(Nat) /\ T # {}
  <2>1. \A n \in Nat : IsFiniteSet(1 .. n) BY FS_Interval
  <2>2. \A n \in Nat : 1 .. n \in SUBSET Nat OBVIOUS
  <2>3. \A n \in Nat : 1 .. n \in FiniteSubsetsOf(Nat) BY <2>1, <2>2 DEF FiniteSubsetsOf
  <2> QED BY <2>3
<1>3. PICK x \in T : \A y \in T : ~ (<< y, x >> \in R)
  <2> HIDE DEF R, T
  <2> QED BY <1>1, <1>2, WFMin
<1>4. PICK m \in S : x = 1 .. m BY <1>3
<1>5. ASSUME NEW k \in S, k < m PROVE << 1 .. k, 1 .. m >> \in R
  <2>1. 1 .. k \subseteq 1 .. m BY <1>5
  <2>2. m \in 1 .. m /\ m \notin 1 .. k BY <1>5
  <2> QED BY <2>1, <2>2 DEF StrictSubsetOrdering
<1>6. \A k \in S : 1 .. k \in T OBVIOUS
<1>7. \A k \in S : ~ (k < m)
  <2> HIDE DEF R, T
  <2> QED BY <1>3, <1>4, <1>5, <1>6
<1> QED BY <1>7

LEMMA LeastIsMin ==
  ASSUME NEW S \in SUBSET Nat, S # {}
  PROVE  Min(S) \in S /\ \A k \in S : Min(S) <= k
BY LeastNatural DEF Min

(* A bounded one has a greatest.                                              *)
LEMMA GreatestNatural ==
  ASSUME NEW n \in Nat, NEW S \in SUBSET (1 .. n), S # {}
  PROVE  \E m \in S : \A k \in S : k <= m
<1> DEFINE R == {n - k : k \in S}
<1>1. R \in SUBSET Nat /\ R # {}
  <2>1. \A k \in S : n - k \in Nat OBVIOUS
  <2> QED BY <2>1
<1>2. PICK r \in R : \A q \in R : r <= q
  <2> HIDE DEF R
  <2> QED BY <1>1, LeastNatural
<1>3. PICK m \in S : r = n - m OBVIOUS
<1>4. ASSUME NEW k \in S PROVE k <= m
  <2>1. n - m <= n - k BY <1>2, <1>3
  <2> QED BY <2>1
<1> QED BY <1>4

(* What holds at zero and passes from each number to the next.                 *)
LEMMA UpTo ==
  ASSUME NEW N \in Nat, NEW P, 0 \in P, \A n \in 1 .. N : n - 1 \in P => n \in P
  PROVE  0 .. N \subseteq P
<1> DEFINE S == (0 .. N) \ P
<1>1. SUFFICES ASSUME S # {} PROVE FALSE OBVIOUS
<1>2. S \in SUBSET Nat OBVIOUS
<1>3. PICK m \in S : \A k \in S : m <= k
  <2> HIDE DEF S
  <2> QED BY <1>1, <1>2, LeastNatural
<1>4. m \in 1 .. N /\ m - 1 \in 0 .. N /\ m - 1 \notin S BY <1>2, <1>3
<1> QED BY <1>3, <1>4

(* What a recursive function over 0 .. N is, of a step that is given as a      *)
(* function: of the number of the round and the state before it.              *)
IsHistory(h, N, S, start, step) ==
  /\ h \in [0 .. N -> S]
  /\ h[0] = start /\ \A n \in 1 .. N : h[n] = step[n][h[n - 1]]

(* There is such a function.                                                 *)
LEMMA RoundByRound ==
  ASSUME NEW N \in Nat, NEW S, NEW start \in S, NEW step \in [1 .. N -> [S -> S]]
  PROVE  \E h : IsHistory(h, N, S, start, step)
<1> DEFINE Is(h, m) == h \in [0 .. m -> S] /\ h = [n \in 0 .. m |-> IF n = 0 THEN start ELSE step[n][h[n - 1]]]
           P == {m \in 0 .. N : \E h : Is(h, m)}
<1>1. 0 \in P
  <2> DEFINE h == [n \in 0 .. 0 |-> start]
  <2>1. h \in [0 .. 0 -> S] OBVIOUS
  <2>2. h = [n \in 0 .. 0 |-> IF n = 0 THEN start ELSE step[n][h[n - 1]]] OBVIOUS
  <2>3. Is(h, 0) BY <2>1, <2>2
  <2> HIDE DEF h, Is
  <2> QED BY <2>3
<1>2. ASSUME NEW m \in 1 .. N, m - 1 \in P PROVE m \in P
  <2>1. PICK g : Is(g, m - 1) BY <1>2
  <2> DEFINE last == step[m][g[m - 1]]
             h == [n \in 0 .. m |-> IF n = m THEN last ELSE g[n]]
  <2>2. \A n \in 0 .. m - 1 : g[n] \in S /\ g[n] = IF n = 0 THEN start ELSE step[n][g[n - 1]]
    BY <2>1
  <2>3. step[m][g[m - 1]] \in S
    <3>1. g[m - 1] \in S
      <4>1. m - 1 \in 0 .. m - 1 OBVIOUS
      <4> QED BY <4>1, <2>2
    <3>2. step[m] \in [S -> S] OBVIOUS
    <3> QED BY <3>1, <3>2
  <2>4. h \in [0 .. m -> S]
    <3>1. last \in S BY <2>3
    <3> HIDE DEF last
    <3>2. ASSUME NEW n \in 0 .. m PROVE (IF n = m THEN last ELSE g[n]) \in S
      <4>1. CASE n = m BY <4>1, <3>1
      <4>2. CASE n # m
        <5>1. n \in 0 .. m - 1 BY <4>2
        <5> QED BY <2>2, <4>2, <5>1
      <4> QED BY <4>1, <4>2
    <3> QED BY <3>2
  <2>5. \A n \in 0 .. m : h[n] = IF n = 0 THEN start ELSE step[n][h[n - 1]]
    <3> SUFFICES ASSUME NEW n \in 0 .. m PROVE h[n] = IF n = 0 THEN start ELSE step[n][h[n - 1]]
      OBVIOUS
    <3>1. CASE n = m
      <4>1. h[n - 1] = g[n - 1] /\ n # 0 /\ h[n] = step[m][g[m - 1]] BY <3>1
      <4> QED BY <3>1, <4>1
    <3>2. CASE n = 0
      <4>1. n \in 0 .. m - 1 /\ n # m BY <3>2
      <4>2. h[n] = g[n] /\ g[n] = start BY <3>2, <4>1, <2>2
      <4> QED BY <3>2, <4>2
    <3>3. CASE n # m /\ n # 0
      <4>1. n \in 0 .. m - 1 /\ n - 1 \in 0 .. m - 1 BY <3>3
      <4>2. h[n] = g[n] /\ h[n - 1] = g[n - 1] BY <3>3, <4>1
      <4> QED BY <2>2, <3>3, <4>1, <4>2
    <3> QED BY <3>1, <3>2, <3>3
  <2>6. Is(h, m) BY <2>4, <2>5
  <2> HIDE DEF h, Is
  <2> QED BY <2>6
<1>3. N \in P
  <2> HIDE DEF P
  <2>1. 0 .. N \subseteq P BY <1>1, <1>2, UpTo
  <2> QED BY <2>1
<1>4. PICK h : Is(h, N) BY <1>3
<1>5. h[0] = start BY <1>4
<1>6. \A n \in 1 .. N : h[n] = step[n][h[n - 1]] BY <1>4
<1> QED BY <1>4, <1>5, <1>6 DEF IsHistory

-----------------------------------------------------------------------------
(* Sequences without repetitions.                                            *)
LEMMA ConcatDistinct ==
  ASSUME NEW T, NEW a \in Seq(T), NEW b \in Seq(T), IsInjective(a), IsInjective(b),
         Range(a) \cap Range(b) = {}
  PROVE  /\ a \o b \in Seq(T) /\ IsInjective(a \o b) /\ Range(a \o b) = Range(a) \cup Range(b)
<1> DEFINE c == a \o b
<1>1. c \in Seq(T) /\ Len(c) = Len(a) + Len(b) /\ Len(a) \in Nat /\ Len(b) \in Nat
  OBVIOUS
<1>2. DOMAIN a = 1 .. Len(a) /\ DOMAIN b = 1 .. Len(b) /\ DOMAIN c = 1 .. Len(a) + Len(b)
  BY <1>1
<1>3. \A n \in DOMAIN c : IF n <= Len(a) THEN n \in DOMAIN a /\ c[n] = a[n]
                           ELSE n - Len(a) \in DOMAIN b /\ c[n] = b[n - Len(a)]
  BY <1>1, <1>2
<1>4. \A n \in DOMAIN a : n \in DOMAIN c /\ c[n] = a[n] BY <1>1, <1>2
<1>5. \A n \in DOMAIN b : n + Len(a) \in DOMAIN c /\ c[n + Len(a)] = b[n] BY <1>1, <1>2
<1> HIDE DEF c
<1>6. Range(c) = Range(a) \cup Range(b)
  <2>1. ASSUME NEW x \in Range(c) PROVE x \in Range(a) \cup Range(b)
    <3>1. PICK n \in DOMAIN c : x = c[n] BY DEF Range
    <3> QED BY <1>3, <3>1 DEF Range
  <2>2. ASSUME NEW x \in Range(a) PROVE x \in Range(c) BY <1>4 DEF Range
  <2>3. ASSUME NEW x \in Range(b) PROVE x \in Range(c) BY <1>5 DEF Range
  <2> QED BY <2>1, <2>2, <2>3
<1>7. ASSUME NEW m \in DOMAIN c, NEW n \in DOMAIN c, c[m] = c[n] PROVE m = n
  <2>0. m \in Nat /\ n \in Nat BY <1>1, <1>2
  <2>1. CASE m <= Len(a) /\ n <= Len(a) BY <1>3, <1>7, <2>1 DEF IsInjective
  <2>2. CASE m > Len(a) /\ n > Len(a)
    <3>1. m - Len(a) = n - Len(a) BY <1>1, <1>3, <1>7, <2>0, <2>2 DEF IsInjective
    <3> QED BY <1>1, <2>0, <3>1
  <2>3. CASE m <= Len(a) /\ n > Len(a)
    <3>1. c[m] \in Range(a) /\ c[n] \in Range(b) BY <1>1, <1>3, <2>0, <2>3 DEF Range
    <3> QED BY <1>7, <3>1
  <2>4. CASE m > Len(a) /\ n <= Len(a)
    <3>1. c[n] \in Range(a) /\ c[m] \in Range(b) BY <1>1, <1>3, <2>0, <2>4 DEF Range
    <3> QED BY <1>7, <3>1
  <2> QED BY <1>1, <2>0, <2>1, <2>2, <2>3, <2>4
<1>8. IsInjective(c) BY <1>7 DEF IsInjective
<1> QED BY <1>1, <1>6, <1>8 DEF c

LEMMA Single ==
  ASSUME NEW T, NEW e \in T
  PROVE  << e >> \in Seq(T) /\ IsInjective(<< e >>) /\ Range(<< e >>) = {e}
BY DEF IsInjective, Range


(* A function on the first numbers is a sequence.                             *)
LEMMA IsSeq ==
  ASSUME NEW k \in Nat, NEW T, NEW q \in [1 .. k -> T]
  PROVE  q \in Seq(T)
BY SeqDef, Zenon
LEMMA AppendDistinct ==
  ASSUME NEW T, NEW a \in Seq(T), NEW e \in T, IsInjective(a), e \notin Range(a)
  PROVE  /\ Append(a, e) \in Seq(T) /\ IsInjective(Append(a, e))
         /\ Range(Append(a, e)) = Range(a) \cup {e}
<1> DEFINE single == << e >>
           c == a \o single
<1>1. Append(a, e) = c OBVIOUS
<1>2. single \in Seq(T) /\ IsInjective(single) /\ Range(single) = {e} BY Single
<1>3. Range(a) \cap Range(single) = {} BY <1>2
<1> HIDE DEF single
<1>4. c \in Seq(T) /\ IsInjective(c) /\ Range(c) = Range(a) \cup Range(single)
  BY <1>2, <1>3, ConcatDistinct
<1> HIDE DEF c
<1> QED BY <1>1, <1>2, <1>4

LEMMA AscendingList ==
  ASSUME NEW count \in Nat, NEW S \in SUBSET (1 .. count)
  PROVE  /\ Ascending(S, count) \in Seq(S)
         /\ IsInjective(Ascending(S, count))
         /\ Range(Ascending(S, count)) = S
<1> DEFINE IsList(f) == f = [n \in 0 .. count |->
                     IF n = 0 THEN <<>> ELSE IF n \in S THEN Append(f[n - 1], n) ELSE f[n - 1]]
           list == CHOOSE f : IsList(f)
           step == [n \in 1 .. count |-> [l \in Seq(S) |-> IF n \in S THEN Append(l, n) ELSE l]]
<1>1. Ascending(S, count) = list[count] BY DEF Ascending
<1>2. IsList(list)
  <2>1. step \in [1 .. count -> [Seq(S) -> Seq(S)]]
    <3>1. \A n \in 1 .. count : [l \in Seq(S) |-> IF n \in S THEN Append(l, n) ELSE l] \in [Seq(S) -> Seq(S)]
      OBVIOUS
    <3> QED BY <3>1
  <2>2. <<>> \in Seq(S) OBVIOUS
  <2>3. PICK h : IsHistory(h, count, Seq(S), <<>>, step)
    <3> HIDE DEF step, list, IsList
    <3> QED BY <2>1, <2>2, RoundByRound
  <2>4. \A n \in 1 .. count : h[n] = IF n \in S THEN Append(h[n - 1], n) ELSE h[n - 1]
    <3> SUFFICES ASSUME NEW n \in 1 .. count
                 PROVE  h[n] = IF n \in S THEN Append(h[n - 1], n) ELSE h[n - 1]
      OBVIOUS
    <3>1. n - 1 \in 0 .. count OBVIOUS
    <3>2. h[n - 1] \in Seq(S) /\ h[n] = step[n][h[n - 1]] BY <2>3, <3>1 DEF IsHistory
    <3>3. step[n][h[n - 1]] = IF n \in S THEN Append(h[n - 1], n) ELSE h[n - 1]
      BY <3>2
    <3> QED BY <3>2, <3>3
  <2> HIDE DEF step
  <2>5. \A n \in 0 .. count : h[n] = IF n = 0 THEN <<>>
                                    ELSE IF n \in S THEN Append(h[n - 1], n) ELSE h[n - 1]
    <3> SUFFICES ASSUME NEW n \in 0 .. count
                 PROVE  h[n] = IF n = 0 THEN <<>> ELSE IF n \in S THEN Append(h[n - 1], n) ELSE h[n - 1]
      OBVIOUS
    <3>1. CASE n = 0 BY <3>1, <2>3 DEF IsHistory
    <3>2. CASE n # 0
      <4>1. n \in 1 .. count BY <3>2
      <4> QED BY <2>4, <3>2, <4>1
    <3> QED BY <3>1, <3>2
  <2>6. IsList(h)
    <3>1. h \in [0 .. count -> Seq(S)] BY <2>3 DEF IsHistory
    <3> QED BY <2>5, <3>1
  <2> HIDE DEF IsList
  <2> QED BY <2>6
<1> HIDE DEF list, step
<1> DEFINE P == {n \in 0 .. count : /\ list[n] \in Seq(S) /\ IsInjective(list[n])
                                    /\ Range(list[n]) = S \cap (1 .. n)}
<1>3. 0 \in P
  <2>1. list[0] = <<>> BY <1>2
  <2>2. IsInjective(<<>>) /\ Range(<<>>) = {}
    <3>1. DOMAIN <<>> = {} OBVIOUS
    <3> QED BY <3>1 DEF IsInjective, Range
  <2>3. 0 \in 0 .. count /\ S \cap (1 .. 0) = {} /\ <<>> \in Seq(S) OBVIOUS
  <2> QED BY <2>1, <2>2, <2>3
<1>4. ASSUME NEW n \in 1 .. count, n - 1 \in P PROVE n \in P
  <2>1. list[n - 1] \in Seq(S) /\ IsInjective(list[n - 1]) /\ Range(list[n - 1]) = S \cap (1 .. n - 1)
    BY <1>4
  <2>2. list[n] = IF n \in S THEN Append(list[n - 1], n) ELSE list[n - 1]
    <3>1. n \in 0 .. count /\ n # 0 OBVIOUS
    <3>2. list[n] = IF n = 0 THEN <<>> ELSE IF n \in S THEN Append(list[n - 1], n) ELSE list[n - 1]
      BY <1>2, <3>1, Zenon
    <3> QED BY <3>1, <3>2, Zenon
  <2>3. CASE n \in S
    <3>1. n \notin Range(list[n - 1]) BY <2>1
    <3>2. /\ list[n] \in Seq(S) /\ IsInjective(list[n])
          /\ Range(list[n]) = Range(list[n - 1]) \cup {n}
      <4> DEFINE a == list[n - 1]
      <4>1. a \in Seq(S) /\ IsInjective(a) /\ n \notin Range(a) /\ list[n] = Append(a, n)
        BY <2>1, <2>2, <2>3, <3>1
      <4> HIDE DEF a
      <4>2. /\ Append(a, n) \in Seq(S) /\ IsInjective(Append(a, n))
            /\ Range(Append(a, n)) = Range(a) \cup {n}
        BY <2>3, <4>1, AppendDistinct, ZenonT(60)
      <4> QED BY <4>1, <4>2 DEF a
    <3>3. S \cap (1 .. n) = (S \cap (1 .. n - 1)) \cup {n} BY <2>3
    <3> QED BY <2>1, <3>2, <3>3
  <2>4. CASE n \notin S
    <3>1. S \cap (1 .. n) = S \cap (1 .. n - 1) BY <2>4
    <3> QED BY <2>1, <2>2, <2>4, <3>1
  <2> QED BY <2>3, <2>4
<1>5. count \in P
  <2> HIDE DEF P
  <2> QED BY <1>3, <1>4, UpTo
<1>6. S \cap (1 .. count) = S OBVIOUS
<1> QED BY <1>1, <1>5, <1>6

-----------------------------------------------------------------------------
(* sortIntoRunOrder.                                                        *)

(* The arguments of the operations are operands of the model.                 *)
HasArguments(b) ==
  /\ b.operations \in Seq(Range(b.operations))
  /\ \A o \in DOMAIN b.operations :
       /\ b.operations[o].ins \in Seq(DOMAIN b.operands)
       /\ b.operations[o].outs \in Seq(DOMAIN b.operands)

SortStates(b) == [ready : Seq(DOMAIN b.operations), unknown : [DOMAIN b.operations -> Int],
                  order : Seq(DOMAIN b.operations)]

LEMMA OccurrencesType ==
  ASSUME NEW b, NEW o \in DOMAIN b.operations, NEW i, HasArguments(b)
  PROVE  /\ IsFiniteSet(DOMAIN b.operations[o].ins)
         /\ Occurrences(b.operations[o].ins, i) \in Nat
<1> DEFINE ins == b.operations[o].ins
           N == {n \in DOMAIN ins : ins[n] = i}
<1>1. ins \in Seq(DOMAIN b.operands) BY DEF HasArguments
<1>2. Len(ins) \in Nat /\ DOMAIN ins = 1 .. Len(ins) BY <1>1
<1>3. IsFiniteSet(DOMAIN ins) BY <1>2, FS_Interval
<1>4. IsFiniteSet(N) BY <1>3, FS_Subset
<1>5. Cardinality(N) \in Nat BY <1>4, FS_CardinalityType
<1> QED BY <1>3, <1>5 DEF Occurrences

NowReady(b, s, i) ==
  {o \in DOMAIN b.operations :
     /\ Occurrences(b.operations[o].ins, i) # 0
     /\ s.unknown[o] = Occurrences(b.operations[o].ins, i)}

LEMMA KnownType ==
  ASSUME NEW b, NEW s \in SortStates(b), NEW i, HasArguments(b)
  PROVE  /\ Known(b, s, i) \in SortStates(b)
         /\ Known(b, s, i).order = s.order
         /\ Known(b, s, i).unknown = [o \in DOMAIN b.operations |->
                                       s.unknown[o] - Occurrences(b.operations[o].ins, i)]
         /\ \E last \in Seq(DOMAIN b.operations) :
              /\ Known(b, s, i).ready = s.ready \o last
              /\ IsInjective(last) /\ Range(last) = NowReady(b, s, i)
<1> DEFINE uses(o) == Occurrences(b.operations[o].ins, i)
           nowReady == NowReady(b, s, i)
           t == Known(b, s, i)
           last == Ascending(nowReady, Len(b.operations))
           unknown == [o \in DOMAIN b.operations |-> s.unknown[o] - uses(o)]
           D == DOMAIN b.operations
<1>1. Len(b.operations) \in Nat /\ D = 1 .. Len(b.operations)
  <2>1. b.operations \in Seq(Range(b.operations)) BY DEF HasArguments
  <2> QED BY <2>1
<1>2. last \in Seq(nowReady) /\ IsInjective(last) /\ Range(last) = nowReady
  <2>1. nowReady \in SUBSET (1 .. Len(b.operations)) BY <1>1 DEF NowReady
  <2> HIDE DEF nowReady
  <2> QED BY <1>1, <2>1, AscendingList
<1>3. nowReady \subseteq D BY DEF NowReady
<1>4. last \in Seq(D)
  <2> HIDE DEF last, nowReady, D
  <2> QED BY <1>2, <1>3
<1>5. \A o \in D : uses(o) \in Int BY OccurrencesType
<1>6. s.ready \in Seq(D) /\ s.order \in Seq(D) /\ s.unknown \in [D -> Int]
  BY DEF SortStates
<1>7. unknown \in [D -> Int] BY <1>5, <1>6
<1>8. t = [ready |-> s.ready \o last, unknown |-> unknown, order |-> s.order] BY DEF Known, NowReady
<1> HIDE DEF last, nowReady, t, unknown, D
<1>9. s.ready \o last \in Seq(D) BY <1>4, <1>6
<1>10. t \in [ready : Seq(D), unknown : [D -> Int], order : Seq(D)] BY <1>6, <1>7, <1>8, <1>9
<1>11. t.order = s.order /\ t.unknown = unknown /\ t.ready = s.ready \o last BY <1>8
<1>12. t \in SortStates(b) BY <1>10 DEF SortStates, D
<1>13. \E l \in Seq(D) : t.ready = s.ready \o l /\ IsInjective(l) /\ Range(l) = nowReady
  BY <1>2, <1>4, <1>11
<1> QED BY <1>11, <1>12, <1>13 DEF nowReady, t, unknown, D

(* The outputs of an operation, one after the other.                          *)
IsKnowing(b, s, known) ==
  LET o == Last(s.ready)
      outs == b.operations[o].outs
  IN /\ known[0] = [ready |-> Front(s.ready), unknown |-> s.unknown, order |-> Append(s.order, o)]
     /\ \A n \in 1 .. Len(outs) : known[n] = Known(b, known[n - 1], outs[n])
     /\ \A n \in 0 .. Len(outs) : known[n] \in SortStates(b)
     /\ RunNext(b, s) = known[Len(outs)]

LEMMA Knowing ==
  ASSUME NEW b, NEW s \in SortStates(b), HasArguments(b), s.ready # <<>>
  PROVE  \E known : IsKnowing(b, s, known)
<1> DEFINE o == Last(s.ready)
           outs == b.operations[o].outs
           S == SortStates(b)
           N == Len(outs)
           first == [ready |-> Front(s.ready), unknown |-> s.unknown, order |-> Append(s.order, o)]
           IsKnown(f) == f = [n \in 0 .. N |-> IF n = 0 THEN first ELSE Known(b, f[n - 1], outs[n])]
           known == CHOOSE f : IsKnown(f)
           step == [n \in 1 .. N |-> [t \in S |-> Known(b, t, outs[n])]]
<1>1. RunNext(b, s) = known[N] BY DEF RunNext
<1>2. s.ready \in Seq(DOMAIN b.operations) /\ s.order \in Seq(DOMAIN b.operations)
      /\ s.unknown \in [DOMAIN b.operations -> Int]
  BY DEF SortStates
<1>3. o \in DOMAIN b.operations /\ Front(s.ready) \in Seq(DOMAIN b.operations)
  <2> DEFINE D == DOMAIN b.operations
             r == s.ready
  <2>1. r \in Seq(D) /\ r # <<>> BY <1>2
  <2> HIDE DEF D, r
  <2>2. Len(r) \in Nat /\ Len(r) # 0 BY <2>1
  <2>3. Last(r) \in D BY <2>1, <2>2 DEF Last
  <2>4. Front(r) \in Seq(D) BY <2>1, <2>2 DEF Front
  <2> QED BY <2>3, <2>4 DEF D, r
<1>4. N \in Nat
  <2>1. outs \in Seq(DOMAIN b.operands) BY <1>3 DEF HasArguments
  <2> QED BY <2>1
<1>5. first \in S
  <2> DEFINE D == DOMAIN b.operations
  <2>1. s.order \in Seq(D) /\ o \in D BY <1>2, <1>3
  <2> HIDE DEF D, o
  <2>2. Append(s.order, o) \in Seq(D) BY <2>1
  <2> QED BY <1>2, <1>3, <2>2 DEF SortStates, D
<1> HIDE DEF first, S, N, outs, o
<1>k. \A i : \A t \in S : Known(b, t, i) \in S BY KnownType DEF S
<1>6. step \in [1 .. N -> [S -> S]]
  <2>2. \A n \in 1 .. N : [t \in S |-> Known(b, t, outs[n])] \in [S -> S] BY <1>k
  <2> QED BY <2>2
<1>7. \E f : IsHistory(f, N, S, first, step)
  <2> HIDE DEF step
  <2> QED BY <1>4, <1>5, <1>6, RoundByRound
<1>8. PICK h : IsHistory(h, N, S, first, step) BY <1>7
<1>9. /\ h \in [0 .. N -> S] /\ h[0] = first
      /\ \A n \in 1 .. N : h[n] = step[n][h[n - 1]]
  BY <1>8 DEF IsHistory
<1>10. \A n \in 1 .. N : h[n] = Known(b, h[n - 1], outs[n])
  <2> SUFFICES ASSUME NEW n \in 1 .. N PROVE h[n] = Known(b, h[n - 1], outs[n]) OBVIOUS
  <2>1. n - 1 \in 0 .. N BY <1>4
  <2>2. h[n - 1] \in S /\ h[n] = step[n][h[n - 1]] BY <1>9, <2>1
  <2> QED BY <2>2
<1> HIDE DEF step
<1>11. IsKnown(h)
  <2>1. \A n \in 0 .. N : h[n] = IF n = 0 THEN first ELSE Known(b, h[n - 1], outs[n])
    <3> SUFFICES ASSUME NEW n \in 0 .. N
                 PROVE  h[n] = IF n = 0 THEN first ELSE Known(b, h[n - 1], outs[n])
      OBVIOUS
    <3>1. CASE n = 0 BY <3>1, <1>9
    <3>2. CASE n # 0
      <4>1. n \in 1 .. N BY <1>4, <3>2
      <4> QED BY <1>10, <3>2, <4>1
    <3> QED BY <3>1, <3>2
  <2> QED BY <1>9, <2>1
<1>12. IsKnown(known)
  <2> HIDE DEF IsKnown
  <2> QED BY <1>11
<1> HIDE DEF known
<1>13. \A n \in 0 .. N : known[n] = IF n = 0 THEN first ELSE Known(b, known[n - 1], outs[n])
  BY <1>12, Zenon
<1>14. known[0] = first /\ \A n \in 1 .. N : known[n] = Known(b, known[n - 1], outs[n])
  <2>1. 0 \in 0 .. N BY <1>4
  <2>2. ASSUME NEW n \in 1 .. N PROVE known[n] = Known(b, known[n - 1], outs[n])
    <3>1. n \in 0 .. N /\ n # 0 BY <1>4
    <3> QED BY <1>13, <3>1
  <2> QED BY <1>13, <2>1, <2>2
<1>15. \A n \in 0 .. N : known[n] \in S
  <2> DEFINE P == {n \in 0 .. N : known[n] \in S}
  <2>1. 0 \in P BY <1>4, <1>5, <1>14
  <2>2. ASSUME NEW n \in 1 .. N, n - 1 \in P PROVE n \in P
    <3>1. known[n] = Known(b, known[n - 1], outs[n]) /\ known[n - 1] \in S BY <1>14, <2>2
    <3>2. known[n] \in S BY <3>1, <1>k
    <3> QED BY <1>4, <3>2
  <2>3. 0 .. N \subseteq P
    <3> HIDE DEF P
    <3> QED BY <1>4, <2>1, <2>2, UpTo
  <2> QED BY <2>3
<1> QED BY <1>1, <1>14, <1>15 DEF IsKnowing, first, S, N, outs, o

(* What an operation still waits for, once the operands of K are known.        *)
Missing(b, o, K) ==
  {n \in DOMAIN b.operations[o].ins :
     Computed(b.operands[b.operations[o].ins[n]]) /\ b.operations[o].ins[n] \notin K}

IsSort(b, s, K) ==
  /\ s \in SortStates(b)
  /\ IsInjective(s.ready) /\ IsInjective(s.order) /\ Range(s.ready) \cap Range(s.order) = {}
  /\ \A o \in DOMAIN b.operations : s.unknown[o] = Cardinality(Missing(b, o, K))
  /\ \A o \in Range(s.ready) \cup Range(s.order) : Missing(b, o, K) = {}

(* A use less for each operation that reads it.                              *)
LEMMA MissingLess ==
  ASSUME NEW b, NEW o \in DOMAIN b.operations, NEW K, NEW i, HasArguments(b),
         i \notin K, Computed(b.operands[i])
  PROVE  LET uses == Occurrences(b.operations[o].ins, i)
         IN /\ uses \in Nat /\ Cardinality(Missing(b, o, K)) \in Nat
            /\ Cardinality(Missing(b, o, K \cup {i})) = Cardinality(Missing(b, o, K)) - uses
            /\ Missing(b, o, K) = {} => uses = 0
            /\ Cardinality(Missing(b, o, K \cup {i})) = 0 => Missing(b, o, K \cup {i}) = {}
<1> DEFINE ins == b.operations[o].ins
           N == {n \in DOMAIN ins : ins[n] = i}
           M == Missing(b, o, K \cup {i})
<1>1. IsFiniteSet(DOMAIN ins) BY OccurrencesType
<1>2. IsFiniteSet(N) /\ IsFiniteSet(M) /\ IsFiniteSet(Missing(b, o, K))
  <2>1. N \subseteq DOMAIN ins /\ M \subseteq DOMAIN ins /\ Missing(b, o, K) \subseteq DOMAIN ins
    BY DEF Missing
  <2> QED BY <1>1, <2>1, FS_Subset
<1>3. Missing(b, o, K) = N \cup M /\ N \cap M = {} BY DEF Missing
<1>4. Cardinality(N) \in Nat /\ Cardinality(M) \in Nat BY <1>2, FS_CardinalityType
<1>5. Cardinality(N) = Occurrences(ins, i) BY DEF Occurrences
<1>6. Cardinality(M) = 0 => M = {} BY <1>2, FS_EmptySet
<1>7. Missing(b, o, K) = {} => Cardinality(N) = 0
  <2>1. N \subseteq Missing(b, o, K) BY <1>3
  <2> QED BY <1>2, <2>1, FS_EmptySet
<1> HIDE DEF N, M, ins
<1>8. Cardinality(N \cup M) = Cardinality(N) + Cardinality(M)
  <2>1. Cardinality(N \cup M) = Cardinality(N) + Cardinality(M) - Cardinality(N \cap M)
    BY <1>2, FS_Union
  <2>2. Cardinality(N \cap M) = 0 BY <1>3, FS_EmptySet
  <2> QED BY <1>4, <2>1, <2>2
<1> DEFINE uses == Occurrences(ins, i)
           all == Cardinality(Missing(b, o, K))
<1>9. uses \in Nat /\ all \in Nat /\ Cardinality(M) = all - uses /\ (Missing(b, o, K) = {} => uses = 0)
  BY <1>3, <1>4, <1>5, <1>7, <1>8
<1> QED BY <1>6, <1>9 DEF M, ins

LEMMA KnownSorts ==
  ASSUME NEW b, NEW s, NEW K, NEW i, HasArguments(b), IsSort(b, s, K),
         i \notin K, Computed(b.operands[i])
  PROVE  IsSort(b, Known(b, s, i), K \cup {i}) /\ Known(b, s, i).order = s.order
<1> DEFINE uses(o) == Occurrences(b.operations[o].ins, i)
           nowReady == NowReady(b, s, i)
           t == Known(b, s, i)
           L == K \cup {i}
           D == DOMAIN b.operations
<1>1. s \in SortStates(b) BY DEF IsSort
<1>k. /\ t \in SortStates(b) /\ t.order = s.order
      /\ t.unknown = [o \in D |-> s.unknown[o] - uses(o)]
      /\ \E last \in Seq(D) : /\ t.ready = s.ready \o last
                               /\ IsInjective(last) /\ Range(last) = nowReady
  BY <1>1, KnownType
<1>l. PICK last \in Seq(D) : t.ready = s.ready \o last /\ IsInjective(last) /\ Range(last) = nowReady
  BY <1>k
<1>2. /\ t \in SortStates(b)
      /\ t.order = s.order /\ t.ready = s.ready \o last
      /\ t.unknown = [o \in D |-> s.unknown[o] - uses(o)]
      /\ last \in Seq(D) /\ IsInjective(last) /\ Range(last) = nowReady
  BY <1>k, <1>l
<1>3. \A o \in D : /\ uses(o) \in Nat /\ Cardinality(Missing(b, o, K)) \in Nat
                   /\ Cardinality(Missing(b, o, L)) = Cardinality(Missing(b, o, K)) - uses(o)
                   /\ Missing(b, o, K) = {} => uses(o) = 0
                   /\ Cardinality(Missing(b, o, L)) = 0 => Missing(b, o, L) = {}
  BY MissingLess
<1>4. /\ \A o \in D : s.unknown[o] = Cardinality(Missing(b, o, K))
      /\ \A o \in Range(s.ready) \cup Range(s.order) : Missing(b, o, K) = {}
      /\ IsInjective(s.ready) /\ IsInjective(s.order) /\ Range(s.ready) \cap Range(s.order) = {}
      /\ s.ready \in Seq(D) /\ s.order \in Seq(D)
  BY <1>1 DEF IsSort, SortStates
<1>5. \A o \in nowReady : o \in D /\ uses(o) # 0 /\ s.unknown[o] = uses(o) BY DEF NowReady
<1> HIDE DEF nowReady, t, uses, D, L
<1>6. nowReady \cap (Range(s.ready) \cup Range(s.order)) = {} BY <1>3, <1>4, <1>5
<1>7. /\ IsInjective(s.ready \o last)
      /\ Range(s.ready \o last) = Range(s.ready) \cup nowReady
  <2>1. Range(s.ready) \cap Range(last) = {} BY <1>2, <1>6
  <2> DEFINE r == s.ready
  <2>2. r \in Seq(D) /\ IsInjective(r) /\ Range(r) \cap Range(last) = {} BY <1>4, <2>1
  <2> HIDE DEF r
  <2>3. IsInjective(r \o last) /\ Range(r \o last) = Range(r) \cup Range(last)
    BY <1>2, <2>2, ConcatDistinct
  <2> QED BY <1>2, <2>3 DEF r
<1>8. IsInjective(t.ready) /\ IsInjective(t.order) /\ Range(t.ready) \cap Range(t.order) = {}
  BY <1>2, <1>4, <1>6, <1>7
<1>9. \A o \in D : t.unknown[o] = Cardinality(Missing(b, o, L)) BY <1>2, <1>3, <1>4
<1>10. \A o \in Range(t.ready) \cup Range(t.order) : Missing(b, o, L) = {}
  <2> SUFFICES ASSUME NEW o \in Range(t.ready) \cup Range(t.order) PROVE Missing(b, o, L) = {}
    OBVIOUS
  <2>1. CASE o \in nowReady
    <3>1. Cardinality(Missing(b, o, L)) = 0
      <4>1. o \in D /\ s.unknown[o] = uses(o) BY <1>5, <2>1
      <4>2. Cardinality(Missing(b, o, K)) = uses(o) BY <1>4, <4>1
      <4> QED BY <1>3, <4>1, <4>2
    <3> QED BY <1>3, <1>5, <2>1, <3>1
  <2>2. CASE o \notin nowReady
    <3>1. o \in Range(s.ready) \cup Range(s.order) BY <1>2, <1>7, <2>2
    <3>2. Missing(b, o, K) = {} BY <1>4, <3>1
    <3> QED BY <3>2 DEF Missing, L
  <2> QED BY <2>1, <2>2
<1>11. IsSort(b, t, L) BY <1>2, <1>8, <1>9, <1>10 DEF IsSort, D
<1> QED BY <1>2, <1>11 DEF t, L

(* What the operations of the order write.                                    *)
WrittenBy(b, order) == UNION {Range(b.operations[order[p]].outs) : p \in DOMAIN order}

FollowsWriters(b, order) ==
  \A j \in DOMAIN order : \A i \in Range(b.operations[order[j]].ins) :
     Computed(b.operands[i]) => \E p \in 1 .. j - 1 : i \in Range(b.operations[order[p]].outs)

WritesOnce(b) ==
  /\ \A o, p \in DOMAIN b.operations :
       \A m \in DOMAIN b.operations[o].outs, n \in DOMAIN b.operations[p].outs :
          b.operations[o].outs[m] = b.operations[p].outs[n] => o = p /\ m = n
  /\ \A o \in DOMAIN b.operations : \A i \in Range(b.operations[o].outs) : Computed(b.operands[i])

IsRunOrder(b, s) == IsSort(b, s, WrittenBy(b, s.order)) /\ FollowsWriters(b, s.order)

(* The top of the stack is moved to the order.                                *)
LEMMA Popped ==
  ASSUME NEW T, NEW r \in Seq(T), r # <<>>, IsInjective(r)
  PROVE  /\ Last(r) \in Range(r) /\ Last(r) \in T
         /\ Front(r) \in Seq(T) /\ IsInjective(Front(r))
         /\ Range(Front(r)) \subseteq Range(r) /\ Last(r) \notin Range(Front(r))
<1>1. Len(r) \in Nat /\ Len(r) # 0 /\ DOMAIN r = 1 .. Len(r) OBVIOUS
<1>2. Last(r) = r[Len(r)] /\ Len(r) \in DOMAIN r BY <1>1 DEF Last
<1>3. Front(r) = [n \in 1 .. Len(r) - 1 |-> r[n]] /\ Front(r) \in Seq(T)
  BY <1>1 DEF Front
<1> DEFINE f == Front(r)
<1>4. DOMAIN f = 1 .. Len(r) - 1 /\ \A n \in DOMAIN f : n \in DOMAIN r /\ n # Len(r) /\ f[n] = r[n]
  BY <1>1, <1>3
<1> HIDE DEF f
<1>5. IsInjective(f) BY <1>4 DEF IsInjective
<1>6. Range(f) \subseteq Range(r) BY <1>4 DEF Range
<1>7. \A n \in DOMAIN f : f[n] # r[Len(r)] BY <1>2, <1>4 DEF IsInjective
<1>8. r[Len(r)] \notin Range(f) BY <1>7 DEF Range
<1>9. r[Len(r)] \in Range(r) BY <1>2 DEF Range
<1>10. r[Len(r)] \in T BY <1>1, <1>2
<1> QED BY <1>2, <1>3, <1>5, <1>6, <1>8, <1>9, <1>10 DEF f

LEMMA RunNextSorts ==
  ASSUME NEW b, NEW s, HasArguments(b), WritesOnce(b), IsRunOrder(b, s)
  PROVE  IsRunOrder(b, RunNext(b, s))
<1>1. CASE s.ready = <<>>
  <2>1. RunNext(b, s) = s BY <1>1, Zenon DEF RunNext
  <2> QED BY <2>1
<1>2. CASE s.ready # <<>>
  <2> DEFINE D == DOMAIN b.operations
             o == Last(s.ready)
             outs == b.operations[o].outs
             N == Len(outs)
             K == WrittenBy(b, s.order)
             order == Append(s.order, o)
             first == [ready |-> Front(s.ready), unknown |-> s.unknown, order |-> order]
             upTo(n) == K \cup {outs[m] : m \in 1 .. n}
  <2>1. IsSort(b, s, K) /\ FollowsWriters(b, s.order) BY DEF IsRunOrder
  <2>2. s \in SortStates(b) BY <2>1 DEF IsSort
  <2>3. s.ready \in Seq(D) /\ s.order \in Seq(D) /\ s.unknown \in [D -> Int] BY <2>2 DEF SortStates
  <2>4. PICK known : IsKnowing(b, s, known) BY <1>2, <2>2, Knowing
  <2>5. /\ known[0] = first /\ RunNext(b, s) = known[N]
        /\ \A n \in 1 .. N : known[n] = Known(b, known[n - 1], outs[n])
        /\ \A n \in 0 .. N : known[n] \in SortStates(b)
    BY <2>4, Zenon DEF IsKnowing
  <2>6. /\ o \in Range(s.ready) /\ o \in D
        /\ Front(s.ready) \in Seq(D) /\ IsInjective(Front(s.ready))
        /\ Range(Front(s.ready)) \subseteq Range(s.ready) /\ o \notin Range(Front(s.ready))
    <3> DEFINE r == s.ready
    <3>1. r \in Seq(D) /\ r # <<>> /\ IsInjective(r) BY <1>2, <2>1, <2>3 DEF IsSort
    <3> HIDE DEF r, D
    <3>2. /\ Last(r) \in Range(r) /\ Last(r) \in D
          /\ Front(r) \in Seq(D) /\ IsInjective(Front(r))
          /\ Range(Front(r)) \subseteq Range(r) /\ Last(r) \notin Range(Front(r))
      BY <3>1, Popped
    <3> QED BY <3>2 DEF r
  <2>7. /\ IsInjective(s.order) /\ Range(s.ready) \cap Range(s.order) = {}
        /\ \A p \in D : s.unknown[p] = Cardinality(Missing(b, p, K))
        /\ \A p \in Range(s.ready) \cup Range(s.order) : Missing(b, p, K) = {}
    BY <2>1 DEF IsSort
  <2>8. N \in Nat /\ outs \in Seq(DOMAIN b.operands) /\ DOMAIN outs = 1 .. N
    <3>1. outs \in Seq(DOMAIN b.operands) BY <2>6 DEF HasArguments
    <3> QED BY <3>1
  <2> HIDE DEF D, o, outs, N, K
  <2>9. /\ order \in Seq(D) /\ IsInjective(order) /\ Range(order) = Range(s.order) \cup {o}
    <3> DEFINE a == s.order
    <3>1. a \in Seq(D) /\ IsInjective(a) /\ o \notin Range(a) /\ o \in D BY <2>3, <2>6, <2>7
    <3> HIDE DEF a
    <3>2. /\ Append(a, o) \in Seq(D) /\ IsInjective(Append(a, o))
          /\ Range(Append(a, o)) = Range(a) \cup {o}
      BY <3>1, AppendDistinct
    <3> QED BY <3>2 DEF a
  <2>10. /\ DOMAIN order = 1 .. Len(s.order) + 1 /\ DOMAIN s.order = 1 .. Len(s.order)
         /\ Len(s.order) \in Nat /\ order[Len(s.order) + 1] = o
         /\ \A p \in DOMAIN s.order : order[p] = s.order[p]
    BY <2>3, <2>6
  <2> HIDE DEF order
  <2>11. IsSort(b, first, K)
    <3>1. first.ready = Front(s.ready) /\ first.unknown = s.unknown /\ first.order = order OBVIOUS
    <3>2. first \in SortStates(b) BY <2>3, <2>6, <2>9 DEF SortStates, D
    <3> HIDE DEF first
    <3>3. Range(first.ready) \cap Range(first.order) = {} BY <2>6, <2>7, <2>9, <3>1
    <3>4. \A p \in Range(first.ready) \cup Range(first.order) : Missing(b, p, K) = {}
      BY <2>6, <2>7, <2>9, <3>1
    <3> QED BY <2>6, <2>7, <2>9, <3>1, <3>2, <3>3, <3>4 DEF IsSort, D
  <2> HIDE DEF first
  <2> DEFINE P == {n \in 0 .. N : IsSort(b, known[n], upTo(n)) /\ known[n].order = order}
  <2>12. 0 \in P
    <3>1. upTo(0) = K OBVIOUS
    <3>2. first.order = order BY DEF first
    <3> HIDE DEF upTo
    <3> QED BY <2>5, <2>8, <2>11, <3>1, <3>2
  <2>13. ASSUME NEW n \in 1 .. N, n - 1 \in P PROVE n \in P
    <3>1. IsSort(b, known[n - 1], upTo(n - 1)) /\ known[n - 1].order = order BY <2>13
    <3>2. known[n] = Known(b, known[n - 1], outs[n]) BY <2>5
    <3>3. upTo(n) = upTo(n - 1) \cup {outs[n]} BY <2>8
    <3>4. outs[n] \notin upTo(n - 1)
      <4>1. \A m \in 1 .. n - 1 : outs[m] # outs[n]
        BY <2>6, <2>8 DEF WritesOnce, D, outs
      <4>2. outs[n] \notin K
        <5>1. SUFFICES ASSUME outs[n] \in K PROVE FALSE OBVIOUS
        <5>2. PICK p \in DOMAIN s.order : outs[n] \in Range(b.operations[s.order[p]].outs)
          BY <5>1 DEF K, WrittenBy
        <5>3. PICK m \in DOMAIN b.operations[s.order[p]].outs : outs[n] = b.operations[s.order[p]].outs[m]
          BY <5>2 DEF Range
        <5>4. s.order[p] \in D /\ s.order[p] \in Range(s.order) BY <2>3 DEF Range
        <5>5. s.order[p] = o BY <2>6, <2>8, <5>3, <5>4 DEF WritesOnce, D, outs
        <5> QED BY <2>6, <2>7, <5>4, <5>5
      <4> QED BY <4>1, <4>2
    <3>5. Computed(b.operands[outs[n]])
      <4>1. outs[n] \in Range(b.operations[o].outs) BY <2>8 DEF Range, outs
      <4> QED BY <2>6, <4>1 DEF WritesOnce, D
    <3> HIDE DEF upTo
    <3>6. /\ IsSort(b, Known(b, known[n - 1], outs[n]), upTo(n - 1) \cup {outs[n]})
          /\ Known(b, known[n - 1], outs[n]).order = known[n - 1].order
      <4> DEFINE t == known[n - 1]
                 i == outs[n]
                 L == upTo(n - 1)
      <4>1. IsSort(b, t, L) /\ i \notin L /\ Computed(b.operands[i]) BY <3>1, <3>4, <3>5
      <4> HIDE DEF t, i, L
      <4>2. IsSort(b, Known(b, t, i), L \cup {i}) /\ Known(b, t, i).order = t.order
        BY <4>1, KnownSorts
      <4> QED BY <4>2 DEF t, i, L
    <3>7. IsSort(b, known[n], upTo(n)) BY <3>2, <3>3, <3>6
    <3>8. known[n].order = order BY <3>1, <3>2, <3>6
    <3>9. n \in 0 .. N BY <2>8
    <3> QED BY <3>7, <3>8, <3>9
  <2>14. N \in P
    <3> HIDE DEF P
    <3>1. 0 .. N \subseteq P BY <2>8, <2>12, <2>13, UpTo
    <3> QED BY <2>8, <3>1
  <2>15. WrittenBy(b, order) = upTo(N)
    <3>1. Range(outs) = {outs[m] : m \in 1 .. N} BY <2>8 DEF Range
    <3>2. DOMAIN order = DOMAIN s.order \cup {Len(s.order) + 1} BY <2>10
    <3>3. WrittenBy(b, order) = K \cup Range(outs)
      <4>1. \A p \in DOMAIN s.order : b.operations[order[p]].outs = b.operations[s.order[p]].outs
        BY <2>10
      <4>2. b.operations[order[Len(s.order) + 1]].outs = outs BY <2>10 DEF outs
      <4> QED BY <3>2, <4>1, <4>2 DEF WrittenBy, K
    <3> QED BY <3>1, <3>3
  <2>16. FollowsWriters(b, order)
    <3> SUFFICES ASSUME NEW j \in DOMAIN order, NEW i \in Range(b.operations[order[j]].ins),
                        Computed(b.operands[i])
                 PROVE  \E p \in 1 .. j - 1 : i \in Range(b.operations[order[p]].outs)
      BY DEF FollowsWriters
    <3>1. CASE j \in DOMAIN s.order
      <4>1. order[j] = s.order[j] BY <2>10, <3>1
      <4>2. PICK p \in 1 .. j - 1 : i \in Range(b.operations[s.order[p]].outs)
        BY <2>1, <3>1, <4>1 DEF FollowsWriters
      <4>3. p \in DOMAIN s.order BY <2>10, <3>1
      <4>4. order[p] = s.order[p] BY <2>10, <4>3
      <4> QED BY <4>2, <4>4
    <3>2. CASE j \notin DOMAIN s.order
      <4>1. j = Len(s.order) + 1 /\ order[j] = o BY <2>10, <3>2
      <4>2. Missing(b, o, K) = {} BY <2>6, <2>7
      <4>3. PICK n \in DOMAIN b.operations[o].ins : i = b.operations[o].ins[n] BY <4>1 DEF Range
      <4>4. i \in K BY <4>2, <4>3 DEF Missing
      <4>5. PICK p \in DOMAIN s.order : i \in Range(b.operations[s.order[p]].outs)
        BY <4>4 DEF K, WrittenBy
      <4>6. p \in 1 .. j - 1 /\ order[p] = s.order[p] BY <2>10, <4>1
      <4> QED BY <4>5, <4>6
    <3> QED BY <3>1, <3>2
  <2> HIDE DEF upTo
  <2>17. IsSort(b, known[N], upTo(N)) /\ known[N].order = order BY <2>14
  <2> QED BY <2>5, <2>15, <2>16, <2>17 DEF IsRunOrder
<1> QED BY <1>1, <1>2

(* The order in which finish leaves the operations.                           *)
LEMMA SortedOrder ==
  ASSUME NEW b, HasArguments(b), WritesOnce(b)
  PROVE  /\ SortIntoRunOrder(b) \in Seq(DOMAIN b.operations)
         /\ IsInjective(SortIntoRunOrder(b))
         /\ FollowsWriters(b, SortIntoRunOrder(b))
<1> DEFINE D == DOMAIN b.operations
           N == Len(b.operations)
           S == SortStates(b)
           computedIns(o) == {n \in DOMAIN b.operations[o].ins : Computed(b.operands[b.operations[o].ins[n]])}
           unknown == [o \in D |-> Cardinality(computedIns(o))]
           free == {o \in D : unknown[o] = 0}
           start == [ready |-> Ascending(free, N), unknown |-> unknown, order |-> <<>>]
           IsRun(f) == f = [k \in 0 .. N |-> IF k = 0 THEN start ELSE RunNext(b, f[k - 1])]
           run == CHOOSE f : IsRun(f)
           step == [k \in 1 .. N |-> [s \in S |-> RunNext(b, s)]]
<1>1. SortIntoRunOrder(b) = run[N].order BY DEF SortIntoRunOrder
<1>2. N \in Nat /\ D = 1 .. N
  <2>1. b.operations \in Seq(Range(b.operations)) BY DEF HasArguments
  <2> QED BY <2>1
<1>3. \A o \in D : computedIns(o) = Missing(b, o, {}) BY DEF Missing
<1>4. \A o \in D : /\ Cardinality(Missing(b, o, {})) \in Nat
                   /\ Cardinality(Missing(b, o, {})) = 0 => Missing(b, o, {}) = {}
  <2> SUFFICES ASSUME NEW o \in D
               PROVE  /\ Cardinality(Missing(b, o, {})) \in Nat
                      /\ Cardinality(Missing(b, o, {})) = 0 => Missing(b, o, {}) = {}
    OBVIOUS
  <2>1. IsFiniteSet(DOMAIN b.operations[o].ins) BY OccurrencesType
  <2>2. Missing(b, o, {}) \subseteq DOMAIN b.operations[o].ins BY DEF Missing
  <2>3. IsFiniteSet(Missing(b, o, {})) BY <2>1, <2>2, FS_Subset
  <2> QED BY <2>3, FS_CardinalityType, FS_EmptySet
<1>5. \A o \in D : unknown[o] = Cardinality(Missing(b, o, {})) BY <1>3
<1>6. unknown \in [D -> Int]
  <2>1. unknown = [o \in D |-> unknown[o]] OBVIOUS
  <2> HIDE DEF unknown
  <2>2. ASSUME NEW o \in D PROVE unknown[o] \in Int
    <3>1. Cardinality(Missing(b, o, {})) \in Nat BY <1>4
    <3> QED BY <1>5, <3>1
  <2> QED BY <2>1, <2>2
<1> HIDE DEF unknown
<1>7. /\ Ascending(free, N) \in Seq(D) /\ IsInjective(Ascending(free, N))
      /\ Range(Ascending(free, N)) = free
  <2>1. free \in SUBSET (1 .. N) /\ free \subseteq D BY <1>2
  <2> HIDE DEF free, N, D
  <2>2. /\ Ascending(free, N) \in Seq(free) /\ IsInjective(Ascending(free, N))
        /\ Range(Ascending(free, N)) = free
    BY <1>2, <2>1, AscendingList
  <2> DEFINE a == Ascending(free, N)
  <2>3. a \in Seq(free) BY <2>2
  <2> HIDE DEF a, free, D
  <2>4. a \in Seq(D)
    <3>1. Len(a) \in Nat /\ a \in [1 .. Len(a) -> free] BY <2>3
    <3>2. a \in [1 .. Len(a) -> D] BY <2>1, <3>1
    <3>3. a \in UNION {[1 .. n -> D] : n \in Nat} BY <3>1, <3>2
    <3> QED BY <3>3, SeqDef, Zenon
  <2> QED BY <2>2, <2>4 DEF a
<1>8. IsRunOrder(b, start)
  <2>1. <<>> \in Seq(D) /\ IsInjective(<<>>) /\ Range(<<>>) = {} /\ DOMAIN <<>> = {}
    <3>1. DOMAIN <<>> = {} OBVIOUS
    <3> QED BY <3>1 DEF IsInjective, Range
  <2>2. /\ start.ready = Ascending(free, N) /\ start.unknown = unknown /\ start.order = <<>>
        /\ start \in S
    BY <1>6, <1>7, <2>1 DEF SortStates
  <2>3. WrittenBy(b, <<>>) = {} BY <2>1 DEF WrittenBy
  <2>4. FollowsWriters(b, <<>>) BY <2>1 DEF FollowsWriters
  <2>5. \A o \in free : Missing(b, o, {}) = {} BY <1>4, <1>5
  <2> HIDE DEF start, free
  <2>6. \A o \in Range(start.ready) \cup Range(start.order) : Missing(b, o, {}) = {}
    BY <1>7, <2>1, <2>2, <2>5
  <2>7. Range(start.ready) \cap Range(start.order) = {} BY <2>1, <2>2
  <2>8. IsSort(b, start, {}) BY <1>5, <1>7, <2>1, <2>2, <2>6, <2>7 DEF IsSort
  <2> QED BY <2>2, <2>3, <2>4, <2>8 DEF IsRunOrder
<1>9. \A s \in S : RunNext(b, s) \in S
  <2> SUFFICES ASSUME NEW s \in S PROVE RunNext(b, s) \in S OBVIOUS
  <2>1. CASE s.ready = <<>>
    <3>1. RunNext(b, s) = s BY <2>1, Zenon DEF RunNext
    <3> QED BY <3>1
  <2>2. CASE s.ready # <<>>
    <3>1. PICK known : IsKnowing(b, s, known) BY <2>2, Knowing
    <3> DEFINE M == Len(b.operations[Last(s.ready)].outs)
    <3>2. RunNext(b, s) = known[M] /\ \A n \in 0 .. M : known[n] \in S
      BY <3>1, Zenon DEF IsKnowing
    <3>3. M \in Nat
      <4>1. s.ready \in Seq(D) BY DEF SortStates
      <4> DEFINE r == s.ready
      <4>2. r \in Seq(D) /\ r # <<>> BY <2>2, <4>1
      <4> HIDE DEF D, r
      <4>3. Len(r) \in Nat /\ Len(r) # 0 BY <4>2
      <4>4. Last(r) \in D BY <4>2, <4>3 DEF Last
      <4>5. b.operations[Last(r)].outs \in Seq(DOMAIN b.operands) BY <4>4 DEF HasArguments, D
      <4> QED BY <4>5 DEF r
    <3> QED BY <3>2, <3>3
  <2> QED BY <2>1, <2>2
<1>10. start \in S BY <1>8 DEF IsRunOrder, IsSort
<1> HIDE DEF start, free, S, N
<1>11. PICK h : IsHistory(h, N, S, start, step)
  <2>1. step \in [1 .. N -> [S -> S]] BY <1>9
  <2> HIDE DEF step
  <2> QED BY <1>2, <1>10, <2>1, RoundByRound
<1>12. /\ h \in [0 .. N -> S] /\ h[0] = start
       /\ \A k \in 1 .. N : h[k] = step[k][h[k - 1]]
  BY <1>11 DEF IsHistory
<1>13. \A k \in 1 .. N : h[k] = RunNext(b, h[k - 1])
  <2> SUFFICES ASSUME NEW k \in 1 .. N PROVE h[k] = RunNext(b, h[k - 1]) OBVIOUS
  <2>1. k - 1 \in 0 .. N BY <1>2
  <2>2. h[k - 1] \in S /\ h[k] = step[k][h[k - 1]] BY <1>12, <2>1
  <2> QED BY <2>2
<1> HIDE DEF step
<1>14. IsRun(h)
  <2>1. \A k \in 0 .. N : h[k] = IF k = 0 THEN start ELSE RunNext(b, h[k - 1])
    <3> SUFFICES ASSUME NEW k \in 0 .. N
                 PROVE  h[k] = IF k = 0 THEN start ELSE RunNext(b, h[k - 1])
      OBVIOUS
    <3>1. CASE k = 0 BY <3>1, <1>12
    <3>2. CASE k # 0
      <4>1. k \in 1 .. N BY <1>2, <3>2
      <4> QED BY <1>13, <3>2, <4>1
    <3> QED BY <3>1, <3>2
  <2> QED BY <1>12, <2>1
<1>15. IsRun(run)
  <2> HIDE DEF IsRun
  <2> QED BY <1>14
<1> HIDE DEF run
<1>16. \A k \in 0 .. N : run[k] = IF k = 0 THEN start ELSE RunNext(b, run[k - 1])
  BY <1>15, Zenon
<1> DEFINE P == {k \in 0 .. N : IsRunOrder(b, run[k])}
<1>17. 0 \in P
  <2>1. 0 \in 0 .. N BY <1>2
  <2>2. run[0] = start BY <1>16, <2>1
  <2> QED BY <1>8, <2>1, <2>2
<1>18. ASSUME NEW k \in 1 .. N, k - 1 \in P PROVE k \in P
  <2>1. k \in 0 .. N /\ k # 0 BY <1>2
  <2>2. run[k] = RunNext(b, run[k - 1]) BY <1>16, <2>1
  <2>3. IsRunOrder(b, run[k - 1]) BY <1>18
  <2>4. IsRunOrder(b, RunNext(b, run[k - 1])) BY <2>3, RunNextSorts
  <2> QED BY <2>1, <2>2, <2>4
<1>19. N \in P
  <2> HIDE DEF P
  <2>1. 0 .. N \subseteq P BY <1>2, <1>17, <1>18, UpTo
  <2> QED BY <1>2, <2>1
<1> DEFINE s == run[N]
<1>20. IsRunOrder(b, s) BY <1>19
<1> HIDE DEF s
<1>21. s \in SortStates(b) /\ IsInjective(s.order) /\ FollowsWriters(b, s.order)
  BY <1>20 DEF IsRunOrder, IsSort
<1>22. s.order \in Seq(D) BY <1>21 DEF SortStates
<1> QED BY <1>1, <1>21, <1>22 DEF s

(* Every operand knows how often it is read.                                  *)
IsCounted(b) ==
  /\ HasArguments(b)
  /\ \A i \in DOMAIN b.operands :
       "consumers" \in DOMAIN b.operands[i] /\ b.operands[i].consumers = Cardinality(ReadsOf(b, i))

LEMMA FiniteOperations ==
  ASSUME NEW b, HasArguments(b)
  PROVE  \A i : IsFiniteSet(ReadsOf(b, i)) /\ Cardinality(ReadsOf(b, i)) \in Nat
<1> DEFINE D == DOMAIN b.operations
           of(o) == {o} \X DOMAIN b.operations[o].ins
           sets == {of(o) : o \in D}
           f == [o \in D |-> of(o)]
<1>1. IsFiniteSet(D)
  <2>1. b.operations \in Seq(Range(b.operations)) BY DEF HasArguments
  <2>2. Len(b.operations) \in Nat /\ D = 1 .. Len(b.operations) BY <2>1
  <2>3. IsFiniteSet(1 .. Len(b.operations)) BY <2>2, FS_Interval
  <2> HIDE DEF D
  <2> QED BY <2>2, <2>3
<1>2. \A o \in D : IsFiniteSet(of(o))
  <2> SUFFICES ASSUME NEW o \in D PROVE IsFiniteSet(of(o)) OBVIOUS
  <2>1. IsFiniteSet(DOMAIN b.operations[o].ins) BY OccurrencesType
  <2> QED BY <2>1, FS_Singleton, FS_Product
<1>3. IsFiniteSet(sets)
  <2> HIDE DEF of, D
  <2>1. f \in Surjection(D, sets) BY DEF Surjection
  <2> HIDE DEF f, sets
  <2> QED BY <1>1, <2>1, FS_Surjection
<1>4. IsFiniteSet(UNION sets) BY <1>2, <1>3, FS_UNION
<1> SUFFICES ASSUME NEW i PROVE IsFiniteSet(ReadsOf(b, i)) /\ Cardinality(ReadsOf(b, i)) \in Nat
  OBVIOUS
<1>5. ReadsOf(b, i) \subseteq UNION sets BY DEF ReadsOf
<1> HIDE DEF sets
<1>6. IsFiniteSet(ReadsOf(b, i)) BY <1>4, <1>5, FS_Subset
<1> QED BY <1>6, FS_CardinalityType

(* What the sort leaves can be run, and no operand is read more often than it   *)
(* says.                                                                    *)
LEMMA ReorderedRuns ==
  ASSUME NEW b, NEW c, NEW order, IsCounted(b),
         order \in Seq(DOMAIN b.operations), IsInjective(order), FollowsWriters(b, order),
         \A o \in DOMAIN b.operations : \A i \in Range(b.operations[o].outs) : Computed(b.operands[i]),
         c.operations = [k \in DOMAIN order |-> b.operations[order[k]]], c.operands = b.operands
  PROVE  RunsInOrder(c)
<1> DEFINE D == DOMAIN order
<1>1. Len(order) \in Nat /\ D = 1 .. Len(order) OBVIOUS
<1>2. \A k \in D : order[k] \in DOMAIN b.operations OBVIOUS
<1>3. DOMAIN c.operations = D /\ \A k \in D : c.operations[k] = b.operations[order[k]] OBVIOUS
<1>4. c.operations \in Seq(Range(c.operations))
  <2>1. c.operations \in [1 .. Len(order) -> Range(c.operations)] BY <1>1, <1>3 DEF Range
  <2>2. c.operations \in UNION {[1 .. n -> Range(c.operations)] : n \in Nat} BY <1>1, <2>1
  <2> QED BY <2>2, SeqDef, Zenon
<1> HIDE DEF D
<1>5. ASSUME NEW k \in D
      PROVE  /\ c.operations[k].ins \in Seq(DOMAIN c.operands)
             /\ c.operations[k].outs \in Seq({i \in DOMAIN c.operands : Computed(c.operands[i])})
             /\ \A i \in Range(c.operations[k].ins) : Computed(c.operands[i]) =>
                  \E p \in 1 .. k - 1 : i \in Range(c.operations[p].outs)
  <2>1. /\ b.operations[order[k]].ins \in Seq(DOMAIN b.operands)
        /\ b.operations[order[k]].outs \in Seq(DOMAIN b.operands)
    BY <1>2 DEF IsCounted, HasArguments
  <2> DEFINE outs == b.operations[order[k]].outs
             C == {i \in DOMAIN b.operands : Computed(b.operands[i])}
  <2>2. \A n \in DOMAIN outs : outs[n] \in C
    <3> SUFFICES ASSUME NEW n \in DOMAIN outs PROVE outs[n] \in C OBVIOUS
    <3>1. outs[n] \in DOMAIN b.operands BY <2>1
    <3>2. outs[n] \in Range(outs) BY DEF Range
    <3> QED BY <1>2, <3>1, <3>2
  <2>3. outs \in Seq(C)
    <3>1. outs \in Seq(DOMAIN b.operands) BY <2>1
    <3> HIDE DEF outs, C
    <3>2. Len(outs) \in Nat /\ outs \in [1 .. Len(outs) -> C] BY <2>2, <3>1
    <3>3. outs \in UNION {[1 .. n -> C] : n \in Nat} BY <3>2
    <3> QED BY <3>3, SeqDef, Zenon
  <2>4. ASSUME NEW i \in Range(c.operations[k].ins), Computed(c.operands[i])
        PROVE  \E p \in 1 .. k - 1 : i \in Range(c.operations[p].outs)
    <3>1. PICK p \in 1 .. k - 1 : i \in Range(b.operations[order[p]].outs)
      BY <1>3, <2>4 DEF FollowsWriters, D
    <3>2. p \in D BY <1>1
    <3> QED BY <1>3, <3>1, <3>2
  <2> QED BY <1>3, <2>1, <2>3, <2>4
<1>6. ASSUME NEW i \in DOMAIN c.operands
      PROVE  c.operands[i].consumers \in Nat /\ c.operands[i].consumers >= Cardinality(ReadsOf(c, i))
  <2> DEFINE A == ReadsOf(c, i)
             B == ReadsOf(b, i)
             f == [u \in A |-> << order[u[1]], u[2] >>]
  <2>1. IsFiniteSet(B) /\ Cardinality(B) \in Nat BY FiniteOperations DEF IsCounted
  <2>2. \A u \in A : u[1] \in D /\ u[2] \in DOMAIN c.operations[u[1]].ins
                    /\ c.operations[u[1]].ins[u[2]] = i /\ u = << u[1], u[2] >>
    BY <1>3 DEF ReadsOf
  <2>3. ASSUME NEW u \in A PROVE f[u] \in B
    <3> DEFINE o == order[u[1]]
               n == u[2]
    <3>1. o \in DOMAIN b.operations /\ n \in DOMAIN b.operations[o].ins /\ b.operations[o].ins[n] = i
      BY <1>2, <1>3, <2>2
    <3>2. f[u] = << o, n >> OBVIOUS
    <3> HIDE DEF o, n, f
    <3>3. << o, n >> \in B BY <3>1 DEF ReadsOf
    <3> QED BY <3>2, <3>3
  <2>4. \A u, v \in A : f[u] = f[v] => u = v
    <3> SUFFICES ASSUME NEW u \in A, NEW v \in A, f[u] = f[v] PROVE u = v OBVIOUS
    <3>1. order[u[1]] = order[v[1]] /\ u[2] = v[2] OBVIOUS
    <3>2. u[1] = v[1] BY <2>2, <3>1 DEF IsInjective, D
    <3> QED BY <2>2, <3>1, <3>2
  <2>5. f \in Injection(A, B)
    <3>1. f = [u \in A |-> f[u]] OBVIOUS
    <3> HIDE DEF f, A, B
    <3>2. f \in [A -> B] BY <2>3, <3>1
    <3>3. IsInjective(f) BY <2>4, <3>2 DEF IsInjective
    <3> QED BY <3>2, <3>3 DEF Injection
  <2> HIDE DEF f, A, B
  <2>6. Cardinality(A) <= Cardinality(B) /\ IsFiniteSet(A) BY <2>1, <2>5, FS_Injection
  <2>7. Cardinality(A) \in Nat BY <2>6, FS_CardinalityType
  <2>8. c.operands[i].consumers = Cardinality(B) BY DEF IsCounted, B
  <2> QED BY <2>1, <2>6, <2>7, <2>8 DEF A
<1> QED BY <1>3, <1>4, <1>5, <1>6 DEF RunsInOrder

-----------------------------------------------------------------------------
(* The builder.                                                             *)

Lifetimes == {"TEMPORARY_VARIABLE", "MODEL_INPUT", "MODEL_OUTPUT", "CONSTANT_COPY",
              "CONSTANT_REFERENCE", "NO_VALUE"}

IsArray(s) == \E n \in Nat : s = [i \in 1 .. n |-> s[i]]

HasFields(operands) ==
  \A i \in DOMAIN operands :
     {"lifetime", "consumers"} \subseteq DOMAIN operands[i] /\ operands[i].lifetime \in Lifetimes

(* What is an input or an output of the model is listed as such.              *)
IsListed(operands, indexes, lifetime) ==
  \A i \in DOMAIN operands : operands[i].lifetime = lifetime => i \in Range(indexes)

(* And in a finished model nothing else is.                                   *)
Lists(operands, indexes, lifetime) ==
  \A i \in Range(indexes) : i \in DOMAIN operands /\ operands[i].lifetime = lifetime

IsBuilder(b) ==
  /\ DOMAIN b = DOMAIN Empty
  /\ IsArray(b.operands) /\ HasFields(b.operands)
  /\ b.inputIndexes \in Seq(Nat) /\ b.outputIndexes \in Seq(Nat)
  /\ IsListed(b.operands, b.inputIndexes, "MODEL_INPUT")
  /\ IsListed(b.operands, b.outputIndexes, "MODEL_OUTPUT")
  /\ ~ b.completed => IsCounted(b)
  /\ b.completed => /\ Lists(b.operands, b.inputIndexes, "MODEL_INPUT")
                    /\ Lists(b.operands, b.outputIndexes, "MODEL_OUTPUT")
                    /\ RunsInOrder(b)

(* What says nothing of the operations, nor of the counts, leaves them right.   *)
LEMMA SameCount ==
  ASSUME NEW b, NEW c, IsCounted(b), c.operations = b.operations,
         DOMAIN c.operands = DOMAIN b.operands,
         \A i \in DOMAIN b.operands : /\ DOMAIN c.operands[i] = DOMAIN b.operands[i]
                                     /\ c.operands[i].consumers = b.operands[i].consumers
  PROVE  IsCounted(c)
<1>1. HasArguments(c) BY DEF IsCounted, HasArguments
<1>2. \A i : ReadsOf(c, i) = ReadsOf(b, i) BY DEF ReadsOf
<1> QED BY <1>1, <1>2 DEF IsCounted

(* The changes that leave the lists alone.                                    *)
LEMMA Retouched ==
  ASSUME NEW b, NEW c, IsBuilder(b), DOMAIN c = DOMAIN b, ~ b.completed, ~ c.completed,
         IsArray(c.operands), DOMAIN c.operands = DOMAIN b.operands, c.operations = b.operations,
         c.inputIndexes = b.inputIndexes, c.outputIndexes = b.outputIndexes,
         \A i \in DOMAIN b.operands :
            /\ DOMAIN c.operands[i] = DOMAIN b.operands[i]
            /\ c.operands[i].consumers = b.operands[i].consumers
            /\ c.operands[i].lifetime \in
                 {b.operands[i].lifetime, "CONSTANT_COPY", "CONSTANT_REFERENCE", "NO_VALUE"}
  PROVE  IsBuilder(c)
<1>1. HasFields(c.operands) BY DEF IsBuilder, HasFields, Lifetimes
<1>2. /\ IsListed(c.operands, c.inputIndexes, "MODEL_INPUT")
      /\ IsListed(c.operands, c.outputIndexes, "MODEL_OUTPUT")
  BY DEF IsBuilder, IsListed
<1>3. IsCounted(c) BY SameCount DEF IsBuilder
<1> QED BY <1>1, <1>2, <1>3 DEF IsBuilder

LEMMA EmptyIsBuilder == IsBuilder(Empty)
<1>1. IsArray(<<>>) BY DEF IsArray
<1>2. IsCounted(Empty)
  <2>1. <<>> \in Seq(Range(<<>>)) OBVIOUS
  <2> QED BY <2>1 DEF IsCounted, HasArguments, Empty
<1> QED BY <1>1, <1>2 DEF IsBuilder, Empty, HasFields, IsListed

LEMMA AddOperandIsBuilder ==
  ASSUME NEW b, NEW t, IsBuilder(b)
  PROVE  IsBuilder(AddOperand(b, t))
<1> DEFINE new == [type |-> t.type, dims |-> t.dims, scale |-> t.scale,
                   zeroPoint |-> t.zeroPoint, consumers |-> 0,
                   lifetime |-> "TEMPORARY_VARIABLE",
                   location |-> NoLocation, extra |-> [kind |-> "none"]]
           c == [b EXCEPT !.operands = Append(@, new), !.given = Append(@, <<>>)]
<1>1. SUFFICES ASSUME ~ b.completed PROVE IsBuilder(c)
  BY DEF AddOperand, BadState
<1>2. DOMAIN b = {"operands", "operations", "inputIndexes", "outputIndexes", "small", "large",
                  "pools", "sorted", "relaxed", "completed", "invalid", "given"}
  BY DEF IsBuilder, Empty
<1>3. /\ DOMAIN c = DOMAIN b /\ c.operands = Append(b.operands, new)
      /\ c.inputIndexes = b.inputIndexes /\ c.outputIndexes = b.outputIndexes
      /\ c.operations = b.operations
      /\ c.completed = b.completed
  BY <1>2
<1>4. PICK n \in Nat : b.operands = [i \in 1 .. n |-> b.operands[i]]
  BY DEF IsBuilder, IsArray
<1>5. Append(b.operands, new) = [i \in 1 .. n + 1 |-> IF i = n + 1 THEN new ELSE b.operands[i]]
  <2> HIDE DEF new
  <2> DEFINE S == {b.operands[i] : i \in 1 .. n} \cup {new}
  <2>1. b.operands \in Seq(S) /\ Len(b.operands) = n /\ new \in S BY <1>4
  <2> HIDE DEF S
  <2> QED BY <2>1
<1>6. /\ new.lifetime = "TEMPORARY_VARIABLE" /\ new.consumers = 0
      /\ {"lifetime", "consumers"} \subseteq DOMAIN new
  OBVIOUS
<1> HIDE DEF c, new
<1>7. IsArray(c.operands) /\ DOMAIN c.operands = 1 .. n + 1
  BY <1>3, <1>5 DEF IsArray
<1>8. \A i \in 1 .. n + 1 : c.operands[i] = IF i = n + 1 THEN new ELSE b.operands[i]
  BY <1>3, <1>5
<1>d. DOMAIN b.operands = 1 .. n BY <1>4
<1>9. HasFields(c.operands)
  <2> SUFFICES ASSUME NEW i \in 1 .. n + 1
               PROVE  /\ {"lifetime", "consumers"} \subseteq DOMAIN c.operands[i]
                      /\ c.operands[i].lifetime \in Lifetimes
    BY <1>7 DEF HasFields
  <2>1. CASE i = n + 1 BY <2>1, <1>6, <1>8 DEF Lifetimes
  <2>2. CASE i # n + 1
    <3>1. i \in DOMAIN b.operands /\ c.operands[i] = b.operands[i] BY <2>2, <1>d, <1>8
    <3> QED BY <3>1 DEF IsBuilder, HasFields
  <2> QED BY <2>1, <2>2
<1>10. \A i \in DOMAIN c.operands : c.operands[i].lifetime \in {"MODEL_INPUT", "MODEL_OUTPUT"} =>
         i \in DOMAIN b.operands /\ c.operands[i] = b.operands[i]
  <2> SUFFICES ASSUME NEW i \in 1 .. n + 1, c.operands[i].lifetime \in {"MODEL_INPUT", "MODEL_OUTPUT"}
               PROVE  i \in DOMAIN b.operands /\ c.operands[i] = b.operands[i]
    BY <1>7
  <2>1. c.operands[n + 1] = new BY <1>8
  <2>2. i # n + 1 BY <2>1, <1>6
  <2> QED BY <2>2, <1>8, <1>d
<1>11. /\ IsListed(c.operands, c.inputIndexes, "MODEL_INPUT")
       /\ IsListed(c.operands, c.outputIndexes, "MODEL_OUTPUT")
  BY <1>3, <1>10 DEF IsBuilder, IsListed
<1>12. IsCounted(b) BY <1>1 DEF IsBuilder
<1>13. HasArguments(c)
  <2>1. Seq(DOMAIN b.operands) \subseteq Seq(DOMAIN c.operands) BY <1>7, <1>d, SeqMonotonic
  <2> QED BY <1>3, <1>12, <2>1 DEF IsCounted, HasArguments
<1>14. \A i : ReadsOf(c, i) = ReadsOf(b, i) BY <1>3 DEF ReadsOf
<1>15. ReadsOf(b, n + 1) = {}
  <2> SUFFICES ASSUME NEW u \in ReadsOf(b, n + 1) PROVE FALSE OBVIOUS
  <2>1. u[1] \in DOMAIN b.operations /\ u[2] \in DOMAIN b.operations[u[1]].ins
        /\ b.operations[u[1]].ins[u[2]] = n + 1
    BY DEF ReadsOf
  <2>2. b.operations[u[1]].ins \in Seq(DOMAIN b.operands) BY <1>12, <2>1 DEF IsCounted, HasArguments
  <2>3. b.operations[u[1]].ins[u[2]] \in DOMAIN b.operands BY <2>1, <2>2
  <2> QED BY <1>d, <2>1, <2>3
<1>16. IsCounted(c)
  <2> SUFFICES ASSUME NEW i \in 1 .. n + 1
               PROVE  /\ "consumers" \in DOMAIN c.operands[i]
                      /\ c.operands[i].consumers = Cardinality(ReadsOf(b, i))
    BY <1>7, <1>13, <1>14 DEF IsCounted
  <2>1. CASE i = n + 1 BY <2>1, <1>6, <1>8, <1>15, FS_EmptySet
  <2>2. CASE i # n + 1
    <3>1. i \in DOMAIN b.operands /\ c.operands[i] = b.operands[i] BY <2>2, <1>d, <1>8
    <3> QED BY <1>12, <3>1 DEF IsCounted
  <2> QED BY <2>1, <2>2
<1> QED BY <1>1, <1>3, <1>7, <1>9, <1>11, <1>16 DEF IsBuilder

(* One operand gets another lifetime, or none does.                           *)
LEMMA OmitIsBuilder ==
  ASSUME NEW b, NEW i, IsBuilder(b)
  PROVE  IsBuilder(OmitOperandValue(b, i))
<1> DEFINE c == [b EXCEPT !.operands[i].lifetime = "NO_VALUE", !.operands[i].location = NoLocation,
                 !.given[i] = <<>>]
<1>1. SUFFICES ASSUME ~ b.completed PROVE IsBuilder(c)
  BY DEF OmitOperandValue, BadState
<1>2. DOMAIN b = {"operands", "operations", "inputIndexes", "outputIndexes", "small", "large",
                  "pools", "sorted", "relaxed", "completed", "invalid", "given"}
  BY DEF IsBuilder, Empty
<1>3. /\ DOMAIN c = DOMAIN b
      /\ c.operands = [[b.operands EXCEPT ![i].lifetime = "NO_VALUE"] EXCEPT ![i].location = NoLocation]
      /\ c.inputIndexes = b.inputIndexes /\ c.outputIndexes = b.outputIndexes
      /\ c.operations = b.operations
      /\ c.completed = b.completed
  BY <1>2
<1> HIDE DEF c
<1>4. IsArray(c.operands) /\ DOMAIN c.operands = DOMAIN b.operands
  BY <1>3 DEF IsBuilder, IsArray
<1>5. \A j \in DOMAIN b.operands :
            /\ DOMAIN c.operands[j] = DOMAIN b.operands[j]
            /\ c.operands[j].consumers = b.operands[j].consumers
            /\ c.operands[j].lifetime \in {b.operands[j].lifetime, "NO_VALUE"}
  BY <1>3 DEF IsBuilder, HasFields
<1> QED BY <1>1, <1>3, <1>4, <1>5, Retouched

LEMMA SetOperandValueIsBuilder ==
  ASSUME NEW b, NEW i, NEW buffer, IsBuilder(b)
  PROVE  IsBuilder(SetOperandValue(b, i, buffer))
<1> DEFINE small == [pool |-> 0,
                     offset |-> Len(b.small) + AlignBytesNeeded(Len(b.small), Len(buffer)),
                     length |-> Len(buffer)]
           large == [pool |-> Unset, offset |-> Unset, length |-> Len(buffer)]
           copied == b.small \o Repeat(Padding, AlignBytesNeeded(Len(b.small), Len(buffer))) \o buffer
           c == [b EXCEPT !.operands[i].lifetime = "CONSTANT_COPY", !.operands[i].location = small,
                          !.small = copied, !.given[i] = << buffer >>]
           d == [b EXCEPT !.operands[i].lifetime = "CONSTANT_REFERENCE", !.operands[i].location = large,
                          !.large = Append(@, [index |-> i, buffer |-> buffer]),
                          !.given[i] = << buffer >>]
<1>1. DOMAIN b = {"operands", "operations", "inputIndexes", "outputIndexes", "small", "large",
                  "pools", "sorted", "relaxed", "completed", "invalid", "given"}
  BY DEF IsBuilder, Empty
<1>2. ASSUME ~ BadState(b) PROVE SetOperandValue(b, i, buffer) \in {b, c, d}
  BY <1>1, <1>2, Zenon DEF SetOperandValue
<1>3. ASSUME BadState(b) PROVE SetOperandValue(b, i, buffer) = b
  BY <1>3 DEF SetOperandValue
<1>4. ASSUME ~ b.completed, NEW e \in {c, d} PROVE IsBuilder(e)
  <2>1. /\ DOMAIN e = DOMAIN b
        /\ \E lifetime \in {"CONSTANT_COPY", "CONSTANT_REFERENCE"}, location \in {small, large} :
             e.operands = [[b.operands EXCEPT ![i].lifetime = lifetime] EXCEPT ![i].location = location]
        /\ e.inputIndexes = b.inputIndexes /\ e.outputIndexes = b.outputIndexes
        /\ e.operations = b.operations
        /\ e.completed = b.completed
    <3> HIDE DEF small, large, copied
    <3>1. CASE e = c BY <3>1, <1>1
    <3>2. CASE e = d BY <3>2, <1>1
    <3> QED BY <3>1, <3>2
  <2> HIDE DEF c, d, small, large
  <2>2. IsArray(e.operands) /\ DOMAIN e.operands = DOMAIN b.operands
    BY <2>1 DEF IsBuilder, IsArray
  <2>3. \A j \in DOMAIN b.operands :
            /\ DOMAIN e.operands[j] = DOMAIN b.operands[j]
            /\ e.operands[j].consumers = b.operands[j].consumers
            /\ e.operands[j].lifetime \in {b.operands[j].lifetime, "CONSTANT_COPY", "CONSTANT_REFERENCE"}
    BY <2>1 DEF IsBuilder, HasFields
  <2> QED BY <1>4, <2>1, <2>2, <2>3, Retouched
<1> HIDE DEF c, d
<1>5. CASE BadState(b) BY <1>3, <1>5
<1>6. CASE ~ BadState(b) BY <1>2, <1>4, <1>6 DEF BadState
<1> QED BY <1>5, <1>6

LEMMA FromMemoryIsBuilder ==
  ASSUME NEW b, NEW i, NEW memory, NEW offset, NEW length, IsBuilder(b)
  PROVE  IsBuilder(SetOperandValueFromMemory(b, i, memory, offset, length))
<1> DEFINE pools == AddMemory(b.pools, memory)
           location == [pool |-> SelectInSeq(pools, LAMBDA p : p = memory) - 1,
                        offset |-> offset, length |-> length]
           value == << SubSeq(memory.bytes, offset + 1, offset + length) >>
           c == [b EXCEPT !.operands[i].lifetime = "CONSTANT_REFERENCE",
                          !.operands[i].location = location, !.pools = pools, !.given[i] = value]
<1>1. DOMAIN b = {"operands", "operations", "inputIndexes", "outputIndexes", "small", "large",
                  "pools", "sorted", "relaxed", "completed", "invalid", "given"}
  BY DEF IsBuilder, Empty
<1>2. \/ SetOperandValueFromMemory(b, i, memory, offset, length) = b
      \/ ~ b.completed /\ SetOperandValueFromMemory(b, i, memory, offset, length) = c
  BY Zenon DEF SetOperandValueFromMemory, BadState
<1>3. ASSUME ~ b.completed PROVE IsBuilder(c)
  <2> HIDE DEF pools, location, value
  <2>1. /\ DOMAIN c = DOMAIN b
        /\ c.operands = [[b.operands EXCEPT ![i].lifetime = "CONSTANT_REFERENCE"] EXCEPT ![i].location = location]
        /\ c.inputIndexes = b.inputIndexes /\ c.outputIndexes = b.outputIndexes
        /\ c.operations = b.operations
        /\ c.completed = b.completed
    BY <1>1
  <2> HIDE DEF c
  <2>2. IsArray(c.operands) /\ DOMAIN c.operands = DOMAIN b.operands
    BY <2>1 DEF IsBuilder, IsArray
  <2>3. \A j \in DOMAIN b.operands :
            /\ DOMAIN c.operands[j] = DOMAIN b.operands[j]
            /\ c.operands[j].consumers = b.operands[j].consumers
            /\ c.operands[j].lifetime \in {b.operands[j].lifetime, "CONSTANT_REFERENCE"}
    BY <2>1 DEF IsBuilder, HasFields
  <2> QED BY <1>3, <2>1, <2>2, <2>3, Retouched
<1> HIDE DEF c
<1> QED BY <1>2, <1>3

(* What is said of an operand besides.                                        *)
LEMMA ExtraIsBuilder ==
  ASSUME NEW b, NEW i, NEW extra, IsBuilder(b), ~ b.completed
  PROVE  IsBuilder([b EXCEPT !.operands[i].extra = extra])
<1> DEFINE c == [b EXCEPT !.operands[i].extra = extra]
<1>1. DOMAIN b = {"operands", "operations", "inputIndexes", "outputIndexes", "small", "large",
                  "pools", "sorted", "relaxed", "completed", "invalid", "given"}
  BY DEF IsBuilder, Empty
<1>2. /\ DOMAIN c = DOMAIN b
      /\ c.operands = [b.operands EXCEPT ![i].extra = extra]
      /\ c.inputIndexes = b.inputIndexes /\ c.outputIndexes = b.outputIndexes
      /\ c.operations = b.operations
      /\ c.completed = b.completed
  BY <1>1
<1> HIDE DEF c
<1>3. IsArray(c.operands) /\ DOMAIN c.operands = DOMAIN b.operands
  BY <1>2 DEF IsBuilder, IsArray
<1>4. \A j \in DOMAIN b.operands :
          /\ DOMAIN c.operands[j] = DOMAIN b.operands[j]
          /\ c.operands[j].consumers = b.operands[j].consumers
          /\ c.operands[j].lifetime = b.operands[j].lifetime
  BY <1>2 DEF IsBuilder, HasFields
<1>5. IsBuilder(c) BY <1>2, <1>3, <1>4, Retouched
<1> QED BY <1>5 DEF c

(* The operation is read where its inputs say, and counted as often.           *)
LEMMA OneOperationMore ==
  ASSUME NEW b, NEW c, NEW operation, IsCounted(b),
         operation.ins \in Seq(DOMAIN b.operands), operation.outs \in Seq(DOMAIN b.operands),
         c.operations = Append(b.operations, operation), DOMAIN c.operands = DOMAIN b.operands,
         \A i \in DOMAIN b.operands :
            /\ DOMAIN c.operands[i] = DOMAIN b.operands[i]
            /\ c.operands[i].consumers = b.operands[i].consumers + Occurrences(operation.ins, i)
  PROVE  IsCounted(c)
<1> DEFINE k == Len(b.operations) + 1
           N(i) == {n \in DOMAIN operation.ins : operation.ins[n] = i}
<1>1. /\ b.operations \in Seq(Range(b.operations)) /\ Len(b.operations) \in Nat
      /\ DOMAIN b.operations = 1 .. Len(b.operations)
  BY DEF IsCounted, HasArguments
<1>2. /\ DOMAIN c.operations = 1 .. k /\ c.operations[k] = operation
      /\ \A o \in 1 .. Len(b.operations) : c.operations[o] = b.operations[o]
      /\ c.operations = [o \in 1 .. k |-> c.operations[o]]
  <2> DEFINE S == Range(b.operations) \cup {operation}
  <2>1. Seq(Range(b.operations)) \subseteq Seq(S) BY SeqMonotonic
  <2>2. b.operations \in Seq(S) /\ operation \in S BY <1>1, <2>1
  <2> HIDE DEF S
  <2> QED BY <2>2
<1>3. HasArguments(c)
  <2>1. c.operations \in [1 .. k -> Range(c.operations)] BY <1>2 DEF Range
  <2>2. k \in Nat BY <1>1
  <2>3. c.operations \in Seq(Range(c.operations)) BY <2>1, <2>2, IsSeq
  <2>4. ASSUME NEW o \in 1 .. k
        PROVE  c.operations[o].ins \in Seq(DOMAIN b.operands) /\ c.operations[o].outs \in Seq(DOMAIN b.operands)
    <3>1. CASE o = k BY <1>2, <3>1
    <3>2. CASE o # k
      <4>1. o \in DOMAIN b.operations /\ c.operations[o] = b.operations[o] BY <1>1, <1>2, <3>2
      <4> QED BY <4>1 DEF IsCounted, HasArguments
    <3> QED BY <3>1, <3>2
  <2> QED BY <1>2, <2>3, <2>4 DEF HasArguments
<1> HIDE DEF k
<1>4. k = Len(b.operations) + 1 BY DEF k
<1>5. ASSUME NEW i \in DOMAIN b.operands
      PROVE  Cardinality(ReadsOf(c, i)) = Cardinality(ReadsOf(b, i)) + Occurrences(operation.ins, i)
  <2> DEFINE R == ReadsOf(b, i)
             new == {k} \X N(i)
  <2>1. IsFiniteSet(N(i)) /\ Cardinality(N(i)) \in Nat
    <3>1. Len(operation.ins) \in Nat /\ DOMAIN operation.ins = 1 .. Len(operation.ins) OBVIOUS
    <3>2. IsFiniteSet(DOMAIN operation.ins) BY <3>1, FS_Interval
    <3>3. IsFiniteSet(N(i)) BY <3>2, FS_Subset
    <3> HIDE DEF N
    <3> QED BY <3>3, FS_CardinalityType
  <2>2. IsFiniteSet(R) /\ Cardinality(R) \in Nat BY FiniteOperations DEF IsCounted
  <2>3. ReadsOf(c, i) = R \cup new
    <3>1. ASSUME NEW u \in ReadsOf(c, i) PROVE u \in R \cup new
      <4>1. PICK o \in 1 .. k : u \in {o} \X DOMAIN c.operations[o].ins BY <1>2, <3>1, <1>4 DEF ReadsOf
      <4>2. u = << o, u[2] >> /\ u[2] \in DOMAIN c.operations[o].ins /\ c.operations[o].ins[u[2]] = i
        BY <3>1, <4>1 DEF ReadsOf
      <4>3. CASE o = k BY <1>2, <1>4, <4>2, <4>3
      <4>4. CASE o # k
        <5>1. o \in DOMAIN b.operations /\ c.operations[o] = b.operations[o] BY <1>1, <1>2, <1>4, <4>4
        <5> QED BY <4>2, <5>1 DEF ReadsOf
      <4> QED BY <4>3, <4>4
    <3>2. ASSUME NEW u \in R PROVE u \in ReadsOf(c, i)
      <4>1. PICK o \in DOMAIN b.operations : u \in {o} \X DOMAIN b.operations[o].ins BY <3>2 DEF ReadsOf
      <4>2. u = << o, u[2] >> /\ u[2] \in DOMAIN b.operations[o].ins /\ b.operations[o].ins[u[2]] = i
        BY <3>2, <4>1 DEF ReadsOf
      <4>3. o \in DOMAIN c.operations /\ c.operations[o] = b.operations[o] BY <1>1, <1>2, <1>4
      <4> QED BY <4>2, <4>3 DEF ReadsOf
    <3>3. ASSUME NEW u \in new PROVE u \in ReadsOf(c, i)
      <4>1. u = << k, u[2] >> /\ u[2] \in DOMAIN operation.ins /\ operation.ins[u[2]] = i BY <3>3
      <4>2. k \in DOMAIN c.operations /\ c.operations[k] = operation BY <1>1, <1>2, <1>4
      <4> QED BY <4>1, <4>2 DEF ReadsOf
    <3> HIDE DEF R, new
    <3> QED BY <3>1, <3>2, <3>3
  <2>4. R \cap new = {}
    <3> SUFFICES ASSUME NEW u \in R, u \in new PROVE FALSE OBVIOUS
    <3>1. u[1] \in DOMAIN b.operations BY DEF ReadsOf
    <3>2. u[1] = k OBVIOUS
    <3> QED BY <1>1, <1>4, <3>1, <3>2
  <2>5. IsFiniteSet(new) /\ Cardinality(new) = Cardinality(N(i))
    <3>1. IsFiniteSet({k}) /\ Cardinality({k}) = 1 BY FS_Singleton
    <3> HIDE DEF N
    <3>2. IsFiniteSet({k} \X N(i)) /\ Cardinality({k} \X N(i)) = Cardinality({k}) * Cardinality(N(i))
      BY <2>1, <3>1, FS_Product
    <3> QED BY <2>1, <3>1, <3>2
  <2> HIDE DEF R, new
  <2>6. Cardinality(R \cup new) = Cardinality(R) + Cardinality(new) - Cardinality(R \cap new)
    BY <2>2, <2>5, FS_Union
  <2>7. Cardinality(R \cap new) = 0 BY <2>4, FS_EmptySet
  <2>8. Occurrences(operation.ins, i) = Cardinality(N(i)) BY DEF Occurrences
  <2> HIDE DEF N
  <2> QED BY <2>1, <2>2, <2>3, <2>5, <2>6, <2>7, <2>8 DEF R
<1>6. ASSUME NEW i \in DOMAIN c.operands
      PROVE  "consumers" \in DOMAIN c.operands[i] /\ c.operands[i].consumers = Cardinality(ReadsOf(c, i))
  <2>1. "consumers" \in DOMAIN b.operands[i] /\ b.operands[i].consumers = Cardinality(ReadsOf(b, i))
    BY DEF IsCounted
  <2> QED BY <1>5, <2>1
<1> QED BY <1>3, <1>6 DEF IsCounted

LEMMA AddOperationIsBuilder ==
  ASSUME NEW b, NEW operation \in Candidates, IsBuilder(b)
  PROVE  IsBuilder(AddOperation(b, operation))
<1> DEFINE counted == [i \in DOMAIN b.operands |->
                        [b.operands[i] EXCEPT !.consumers = @ + Occurrences(operation.ins, i)]]
           c == [b EXCEPT !.operations = Append(@, operation), !.operands = counted]
<1>1. DOMAIN b = {"operands", "operations", "inputIndexes", "outputIndexes", "small", "large",
                  "pools", "sorted", "relaxed", "completed", "invalid", "given"}
  BY DEF IsBuilder, Empty
<1>2. \/ AddOperation(b, operation) = b
      \/ /\ ~ b.completed /\ AddOperation(b, operation) = c
         /\ ValidateOperation(operation, b.operands, 2)
  BY Zenon DEF AddOperation, BadState
<1>3. ASSUME ~ b.completed, ValidateOperation(operation, b.operands, 2) PROVE IsBuilder(c)
  <2>1. IsArray(counted) /\ DOMAIN counted = DOMAIN b.operands
    BY DEF IsBuilder, IsArray
  <2>2. \A j \in DOMAIN b.operands :
          /\ DOMAIN counted[j] = DOMAIN b.operands[j]
          /\ counted[j].consumers = b.operands[j].consumers + Occurrences(operation.ins, j)
          /\ counted[j].lifetime = b.operands[j].lifetime
    BY DEF IsBuilder, HasFields
  <2> HIDE DEF counted
  <2>3. /\ DOMAIN c = DOMAIN b /\ c.operands = counted
        /\ c.inputIndexes = b.inputIndexes /\ c.outputIndexes = b.outputIndexes
        /\ c.operations = Append(b.operations, operation)
        /\ c.completed = b.completed
    BY <1>1
  <2> HIDE DEF c
  <2>4. operation.ins \in Seq(DOMAIN b.operands) /\ operation.outs \in Seq(DOMAIN b.operands)
    <3>1. ValidateOperandList(operation.ins, Len(b.operands))
          /\ ValidateOperandList(operation.outs, Len(b.operands))
      BY <1>3, Zenon DEF ValidateOperation
    <3>2. PICK n \in Nat : b.operands = [j \in 1 .. n |-> b.operands[j]] BY DEF IsBuilder, IsArray
    <3>3. DOMAIN b.operands = 1 .. n BY <3>2
    <3>4. Len(b.operands) = n
      <4>1. b.operands \in Seq({b.operands[j] : j \in 1 .. n}) /\ Len(b.operands) = n BY <3>2
      <4> QED BY <4>1
    <3> HIDE DEF counted
    <3>5. ASSUME NEW list \in Seq(Nat), ValidateOperandList(list, Len(b.operands))
          PROVE  list \in Seq(DOMAIN b.operands)
      <4>1. Len(list) \in Nat /\ list \in [1 .. Len(list) -> DOMAIN b.operands]
        BY <3>3, <3>4, <3>5 DEF ValidateOperandList
      <4>2. list \in UNION {[1 .. m -> DOMAIN b.operands] : m \in Nat} BY <4>1
      <4> QED BY <4>2, SeqDef, Zenon
    <3> QED BY <3>1, <3>5, CandidatesAssumption
  <2>5. IsCounted(c) BY <1>3, <2>1, <2>2, <2>3, <2>4, OneOperationMore DEF IsBuilder
  <2>6. HasFields(c.operands) BY <2>1, <2>2, <2>3 DEF IsBuilder, HasFields
  <2>7. /\ IsListed(c.operands, c.inputIndexes, "MODEL_INPUT")
        /\ IsListed(c.operands, c.outputIndexes, "MODEL_OUTPUT")
    BY <2>1, <2>2, <2>3 DEF IsBuilder, IsListed
  <2> QED BY <1>3, <2>1, <2>3, <2>5, <2>6, <2>7 DEF IsBuilder
<1> HIDE DEF c
<1> QED BY <1>2, <1>3

(* Until a call is refused, what becomes an argument is listed.                *)
LEMMA SetArgumentsLists ==
  ASSUME NEW operands, NEW old \in Seq(Nat), NEW list \in Seq(Nat), NEW lifetime \in Lifetimes,
         IsArray(operands), HasFields(operands),
         \A i \in DOMAIN operands : operands[i].lifetime # lifetime
  PROVE  LET r == SetArguments(operands, old, list, lifetime)
         IN /\ IsArray(r.operands) /\ DOMAIN r.operands = DOMAIN operands
            /\ \A i \in DOMAIN operands :
                 /\ DOMAIN r.operands[i] = DOMAIN operands[i]
                 /\ r.operands[i].consumers = operands[i].consumers
                 /\ r.operands[i].lifetime \in {operands[i].lifetime, lifetime}
            /\ r.list \in Seq(Nat)
            /\ IsListed(r.operands, r.list, lifetime)
<1> DEFINE refused == {n \in DOMAIN list : \/ operands[list[n]].lifetime # "TEMPORARY_VARIABLE"
                                           \/ list[n] \in Range(SubSeq(list, 1, n - 1))}
           done == IF refused = {} THEN Len(list) ELSE Min(refused) - 1
           set == [i \in DOMAIN operands |->
                      IF i \in Range(SubSeq(list, 1, done))
                      THEN [operands[i] EXCEPT !.lifetime = lifetime] ELSE operands[i]]
           kept == [n \in DOMAIN list |-> CASE n <= done + 1 -> list[n]
                                            [] n > done + 1 /\ n <= Len(old) -> old[n]
                                            [] OTHER -> 1]
           r == SetArguments(operands, old, list, lifetime)
<1>1. r.operands = set /\ r.list = kept BY DEF SetArguments
<1>2. done \in 0 .. Len(list)
  <2>1. CASE refused = {} BY <2>1
  <2>2. CASE refused # {}
    <3> HIDE DEF refused
    <3>1. refused \in SUBSET Nat /\ refused \subseteq 1 .. Len(list) BY DEF refused
    <3>2. Min(refused) \in refused BY <2>2, <3>1, LeastIsMin
    <3>3. Min(refused) \in 1 .. Len(list) BY <3>1, <3>2
    <3> QED BY <2>2, <3>3
  <2> QED BY <2>1, <2>2
<1> HIDE DEF done, r
<1>3. IsArray(set) /\ DOMAIN set = DOMAIN operands BY DEF IsArray
<1>4. \A i \in DOMAIN operands : /\ DOMAIN set[i] = DOMAIN operands[i]
                                 /\ set[i].consumers = operands[i].consumers
                                 /\ set[i].lifetime \in {operands[i].lifetime, lifetime}
  BY DEF HasFields
<1>5. kept \in Seq(Nat)
  <2>1. DOMAIN list = 1 .. Len(list) /\ Len(list) \in Nat OBVIOUS
  <2>2. \A n \in 1 .. Len(list) : kept[n] \in Nat
    <3> SUFFICES ASSUME NEW n \in 1 .. Len(list) PROVE kept[n] \in Nat OBVIOUS
    <3>1. CASE n <= done + 1 BY <3>1, <1>2, <2>1
    <3>2. CASE n > done + 1 /\ n <= Len(old) BY <3>2, <1>2, <2>1
    <3>3. CASE n > done + 1 /\ ~ (n <= Len(old)) BY <3>3, <1>2, <2>1
    <3> QED BY <3>1, <3>2, <3>3, <1>2
  <2>3. kept \in [1 .. Len(list) -> Nat] BY <2>1, <2>2
  <2> HIDE DEF kept
  <2>4. kept \in UNION {[1 .. n -> Nat] : n \in Nat} BY <2>1, <2>3
  <2> QED BY <2>4, SeqDef, Zenon
<1>6. ASSUME NEW i \in DOMAIN operands, set[i].lifetime = lifetime PROVE i \in Range(kept)
  <2>1. i \in Range(SubSeq(list, 1, done)) BY <1>6
  <2>2. PICK n \in 1 .. done : i = list[n]
    <3>1. SubSeq(list, 1, done) = [n \in 1 .. done |-> list[n]] BY <1>2
    <3> QED BY <2>1, <3>1 DEF Range
  <2>3. n \in DOMAIN kept /\ kept[n] = list[n] BY <1>2
  <2> QED BY <2>2, <2>3 DEF Range
<1> HIDE DEF set, kept
<1>7. IsListed(set, kept, lifetime) BY <1>3, <1>6 DEF IsListed
<1> QED BY <1>1, <1>3, <1>4, <1>5, <1>7 DEF r

LEMMA IdentifyIsBuilder ==
  ASSUME NEW b, NEW ins \in Seq(Nat), NEW outs \in Seq(Nat), IsBuilder(b),
         b.inputIndexes = <<>>, b.outputIndexes = <<>>
  PROVE  IsBuilder(IdentifyInputsAndOutputs(b, ins, outs))
<1> DEFINE i == SetArguments(b.operands, b.inputIndexes, ins, "MODEL_INPUT")
           o == SetArguments(i.operands, b.outputIndexes, outs, "MODEL_OUTPUT")
           c == [b EXCEPT !.operands = i.operands, !.inputIndexes = i.list]
           d == [b EXCEPT !.operands = o.operands, !.inputIndexes = i.list, !.outputIndexes = o.list]
<1>1. DOMAIN b = {"operands", "operations", "inputIndexes", "outputIndexes", "small", "large",
                  "pools", "sorted", "relaxed", "completed", "invalid", "given"}
  BY DEF IsBuilder, Empty
<1>2. \/ IdentifyInputsAndOutputs(b, ins, outs) = b
      \/ ~ b.completed /\ IdentifyInputsAndOutputs(b, ins, outs) \in {c, d}
  <2>1. CASE BadState(b) BY <2>1 DEF IdentifyInputsAndOutputs
  <2>2. CASE ~ BadState(b)
    <3>1. ~ b.completed BY <2>2 DEF BadState
    <3>2. IdentifyInputsAndOutputs(b, ins, outs) \in {b, c, d}
      BY <2>2, Zenon DEF IdentifyInputsAndOutputs
    <3> QED BY <3>1, <3>2
  <2> QED BY <2>1, <2>2
<1>3. \A n \in DOMAIN b.operands :
         b.operands[n].lifetime \in Lifetimes \ {"MODEL_INPUT", "MODEL_OUTPUT"}
  BY DEF IsBuilder, IsListed, HasFields, Range
<1>4. /\ IsArray(i.operands) /\ DOMAIN i.operands = DOMAIN b.operands
      /\ \A n \in DOMAIN b.operands :
            /\ DOMAIN i.operands[n] = DOMAIN b.operands[n]
            /\ i.operands[n].consumers = b.operands[n].consumers
            /\ i.operands[n].lifetime \in {b.operands[n].lifetime, "MODEL_INPUT"}
      /\ i.list \in Seq(Nat)
      /\ IsListed(i.operands, i.list, "MODEL_INPUT")
  <2>1. "MODEL_INPUT" \in Lifetimes BY DEF Lifetimes
  <2>2. /\ b.inputIndexes \in Seq(Nat) /\ IsArray(b.operands) /\ HasFields(b.operands)
        /\ \A n \in DOMAIN b.operands : b.operands[n].lifetime # "MODEL_INPUT"
    BY <1>3 DEF IsBuilder
  <2> QED BY <2>1, <2>2, SetArgumentsLists, Zenon
<1> HIDE DEF i
<1>5. HasFields(i.operands) BY <1>3, <1>4 DEF IsBuilder, HasFields, Lifetimes
<1>6. \A n \in DOMAIN i.operands : i.operands[n].lifetime # "MODEL_OUTPUT" BY <1>3, <1>4
<1>7. /\ IsArray(o.operands) /\ DOMAIN o.operands = DOMAIN b.operands
      /\ \A n \in DOMAIN b.operands :
            /\ DOMAIN o.operands[n] = DOMAIN i.operands[n]
            /\ o.operands[n].consumers = i.operands[n].consumers
            /\ o.operands[n].lifetime \in {i.operands[n].lifetime, "MODEL_OUTPUT"}
      /\ o.list \in Seq(Nat)
      /\ IsListed(o.operands, o.list, "MODEL_OUTPUT")
  <2>1. "MODEL_OUTPUT" \in Lifetimes BY DEF Lifetimes
  <2>2. b.outputIndexes \in Seq(Nat) BY DEF IsBuilder
  <2>3. LET r == SetArguments(i.operands, b.outputIndexes, outs, "MODEL_OUTPUT")
        IN /\ IsArray(r.operands) /\ DOMAIN r.operands = DOMAIN i.operands
           /\ \A n \in DOMAIN i.operands :
                 /\ DOMAIN r.operands[n] = DOMAIN i.operands[n]
                 /\ r.operands[n].consumers = i.operands[n].consumers
                 /\ r.operands[n].lifetime \in {i.operands[n].lifetime, "MODEL_OUTPUT"}
           /\ r.list \in Seq(Nat)
           /\ IsListed(r.operands, r.list, "MODEL_OUTPUT")
    BY <1>4, <1>5, <1>6, <2>1, <2>2, SetArgumentsLists, Zenon
  <2> QED BY <1>4, <2>3
<1> HIDE DEF o
<1>8. ASSUME ~ b.completed PROVE IsBuilder(c)
  <2>1. /\ DOMAIN c = DOMAIN b /\ c.operands = i.operands /\ c.inputIndexes = i.list
        /\ c.outputIndexes = b.outputIndexes /\ c.completed = b.completed
        /\ c.operations = b.operations
    BY <1>1
  <2> HIDE DEF c
  <2>2. IsListed(c.operands, c.outputIndexes, "MODEL_OUTPUT") BY <2>1, <1>6 DEF IsListed
  <2>3. IsCounted(c) BY <1>4, <1>8, <2>1, SameCount DEF IsBuilder
  <2> QED BY <1>4, <1>5, <1>8, <2>1, <2>2, <2>3 DEF IsBuilder
<1>9. ASSUME ~ b.completed PROVE IsBuilder(d)
  <2>1. /\ DOMAIN d = DOMAIN b /\ d.operands = o.operands /\ d.inputIndexes = i.list
        /\ d.outputIndexes = o.list /\ d.completed = b.completed
        /\ d.operations = b.operations
    BY <1>1
  <2> HIDE DEF d
  <2>2. HasFields(o.operands) BY <1>4, <1>5, <1>7 DEF HasFields, Lifetimes
  <2>3. IsListed(o.operands, i.list, "MODEL_INPUT") BY <1>4, <1>7 DEF IsListed
  <2>4. \A n \in DOMAIN b.operands : /\ DOMAIN o.operands[n] = DOMAIN b.operands[n]
                                     /\ o.operands[n].consumers = b.operands[n].consumers
    BY <1>4, <1>7
  <2>5. IsCounted(d) BY <1>7, <1>9, <2>1, <2>4, SameCount DEF IsBuilder
  <2> QED BY <1>4, <1>7, <1>9, <2>1, <2>2, <2>3, <2>5 DEF IsBuilder
<1> HIDE DEF c, d
<1> QED BY <1>2, <1>8, <1>9

LEMMA CopyLargeIsBuilder ==
  ASSUME NEW b, NEW created, IsBuilder(b), ~ b.completed
  PROVE  IsBuilder(CopyLargeValues(b, created)) /\ ~ CopyLargeValues(b, created).completed
<1> DEFINE placed == PlaceLargeValues(b)
           pooled == [i \in DOMAIN placed.operands |->
                         IF \E n \in DOMAIN b.large : b.large[n].index = i
                         THEN [placed.operands[i] EXCEPT !.location.pool = Len(b.pools)]
                         ELSE placed.operands[i]]
           c == [b EXCEPT !.operands = placed.operands]
           d == [b EXCEPT !.operands = pooled,
                          !.pools = Append(@, [name |-> "ashmem", bytes |-> placed.bytes])]
<1>1. DOMAIN b = {"operands", "operations", "inputIndexes", "outputIndexes", "small", "large",
                  "pools", "sorted", "relaxed", "completed", "invalid", "given"}
  BY DEF IsBuilder, Empty
<1>2. CopyLargeValues(b, created) \in {b, c, d} BY Zenon DEF CopyLargeValues
<1>3. \A i \in DOMAIN b.operands :
         placed.operands[i] = b.operands[i]
           \/ \E offset : placed.operands[i] = [b.operands[i] EXCEPT !.location.offset = offset]
  BY Zenon DEF PlaceLargeValues
<1>4. IsArray(placed.operands) /\ DOMAIN placed.operands = DOMAIN b.operands
  BY Zenon DEF PlaceLargeValues, IsBuilder, IsArray
<1> HIDE DEF placed
<1>5. \A i \in DOMAIN b.operands :
         /\ DOMAIN placed.operands[i] = DOMAIN b.operands[i]
         /\ placed.operands[i].consumers = b.operands[i].consumers
         /\ placed.operands[i].lifetime = b.operands[i].lifetime
  BY <1>3 DEF IsBuilder, HasFields
<1>6. IsArray(pooled) /\ DOMAIN pooled = DOMAIN b.operands BY <1>4 DEF IsArray
<1>7. \A i \in DOMAIN b.operands :
         /\ DOMAIN pooled[i] = DOMAIN b.operands[i]
         /\ pooled[i].consumers = b.operands[i].consumers
         /\ pooled[i].lifetime = b.operands[i].lifetime
  BY <1>4, <1>5
<1> HIDE DEF pooled
<1>8. ASSUME NEW e \in {c, d} PROVE IsBuilder(e) /\ ~ e.completed
  <2>1. /\ DOMAIN e = DOMAIN b /\ e.operands \in {placed.operands, pooled}
        /\ e.inputIndexes = b.inputIndexes /\ e.outputIndexes = b.outputIndexes
        /\ e.operations = b.operations
        /\ e.completed = b.completed
    <3>1. CASE e = c BY <3>1, <1>1
    <3>2. CASE e = d BY <3>2, <1>1
    <3> QED BY <3>1, <3>2
  <2> HIDE DEF c, d
  <2> QED BY <2>1, <1>4, <1>5, <1>6, <1>7, Retouched
<1> HIDE DEF c, d
<1> QED BY <1>2, <1>8

(* validateModel refuses an operand that two outputs write.                     *)
LEMMA ValidWritesOnce ==
  ASSUME NEW b, ValidateModel(HidlModel(b), 2)
  PROVE  WritesOnce(b)
<1> DEFINE m == HidlModel(b)
           written == Written(m)
<1>1. m.operations = b.operations /\ m.operands = b.operands BY DEF HidlModel
<1> HIDE DEF m
<1>2. ValidateOperations(m, 2) BY Zenon DEF ValidateModel, m
<1>3. IsInjective(written) BY <1>2, Zenon DEF ValidateOperations
<1>4. \A o \in DOMAIN b.operations : \A i \in Range(b.operations[o].outs) : Computed(b.operands[i])
  BY <1>1, <1>2, Zenon DEF ValidateOperations
<1>5. \A o \in DOMAIN b.operations : \A n \in DOMAIN b.operations[o].outs :
        << o, n >> \in DOMAIN written /\ written[<< o, n >>] = b.operations[o].outs[n]
  BY <1>1 DEF Written
<1> HIDE DEF written
<1>6. ASSUME NEW o \in DOMAIN b.operations, NEW p \in DOMAIN b.operations,
             NEW j \in DOMAIN b.operations[o].outs, NEW k \in DOMAIN b.operations[p].outs,
             b.operations[o].outs[j] = b.operations[p].outs[k]
      PROVE  o = p /\ j = k
  <2>1. /\ << o, j >> \in DOMAIN written /\ << p, k >> \in DOMAIN written
        /\ written[<< o, j >>] = written[<< p, k >>]
    BY <1>5, <1>6
  <2> DEFINE u == << o, j >>
             v == << p, k >>
  <2> HIDE DEF u, v
  <2>2. u = v BY <1>3, <2>1, Zenon DEF IsInjective, u, v
  <2> QED BY <2>2 DEF u, v
<1> QED BY <1>4, <1>6 DEF WritesOnce

LEMMA FinishIsBuilder ==
  ASSUME NEW b, NEW created, IsBuilder(b)
  PROVE  IsBuilder(Finish(b, created))
<1> DEFINE copied == CopyLargeValues(b, created)
           order == SortIntoRunOrder(copied)
           c == Reordered(copied, order)
           d == [copied EXCEPT !.invalid = TRUE]
<1>1. CASE BadState(b) BY <1>1 DEF Finish
<1>2. CASE ~ BadState(b)
  <2>1. ~ b.completed BY <1>2 DEF BadState
  <2>2. IsBuilder(copied) /\ ~ copied.completed BY <2>1, CopyLargeIsBuilder
  <2>3. \/ Finish(b, created) = copied
        \/ Finish(b, created) = c /\ ValidateModel(HidlModel(copied), 2)
        \/ Finish(b, created) = d
    <3>1. Finish(b, created) \in {copied, FinishCopied(copied)} BY <1>2, Zenon DEF Finish
    <3>2. \/ FinishCopied(copied) = c /\ ValidateModel(HidlModel(copied), 2)
          \/ FinishCopied(copied) = d
      BY Zenon DEF FinishCopied
    <3> HIDE DEF copied, c, d
    <3> QED BY <3>1, <3>2
  <2> HIDE DEF copied, order
  <2>4. DOMAIN copied = {"operands", "operations", "inputIndexes", "outputIndexes", "small", "large",
                         "pools", "sorted", "relaxed", "completed", "invalid", "given"}
    BY <2>2 DEF IsBuilder, Empty
  <2>5. ASSUME ValidateModel(HidlModel(copied), 2) PROVE IsBuilder(c)
    <3>1. /\ DOMAIN c = DOMAIN copied /\ c.operands = copied.operands
          /\ c.inputIndexes = copied.inputIndexes /\ c.outputIndexes = copied.outputIndexes
          /\ c.operations = [k \in DOMAIN order |-> copied.operations[order[k]]]
          /\ c.completed
      BY <2>4 DEF Reordered
    <3>2. /\ ValidateModelInputOutputs(copied.inputIndexes, copied.operands, "MODEL_INPUT")
          /\ ValidateModelInputOutputs(copied.outputIndexes, copied.operands, "MODEL_OUTPUT")
      <4>1. /\ HidlModel(copied).inputIndexes = copied.inputIndexes
            /\ HidlModel(copied).outputIndexes = copied.outputIndexes
            /\ HidlModel(copied).operands = copied.operands
        BY DEF HidlModel
      <4> QED BY <2>5, <4>1, Zenon DEF ValidateModel
    <3>3. /\ Lists(copied.operands, copied.inputIndexes, "MODEL_INPUT")
          /\ Lists(copied.operands, copied.outputIndexes, "MODEL_OUTPUT")
      BY <3>2 DEF Lists, ValidateModelInputOutputs, Range
    <3>4. WritesOnce(copied) BY <2>5, ValidWritesOnce
    <3>5. IsCounted(copied) BY <2>2 DEF IsBuilder
    <3>6. /\ order \in Seq(DOMAIN copied.operations) /\ IsInjective(order)
          /\ FollowsWriters(copied, order)
      BY <3>4, <3>5, SortedOrder DEF IsCounted, order
    <3> HIDE DEF c
    <3>7. RunsInOrder(c) BY <3>1, <3>4, <3>5, <3>6, ReorderedRuns DEF WritesOnce
    <3> QED BY <2>2, <3>1, <3>3, <3>7 DEF IsBuilder
  <2>6. IsBuilder(d)
    <3>1. /\ DOMAIN d = DOMAIN copied /\ d.operands = copied.operands
          /\ d.inputIndexes = copied.inputIndexes /\ d.outputIndexes = copied.outputIndexes
          /\ d.operations = copied.operations
          /\ d.completed = copied.completed
      BY <2>4
    <3> HIDE DEF d
    <3>2. IsCounted(d) BY <2>2, <3>1, SameCount DEF IsBuilder
    <3> QED BY <2>2, <3>1, <3>2 DEF IsBuilder
  <2> HIDE DEF c, d
  <2> QED BY <2>2, <2>3, <2>5, <2>6
<1> QED BY <1>1, <1>2

(* An extra parameter that is set, or refused.                                *)
LEMMA ExtraKeeps ==
  ASSUME NEW b, NEW c, NEW i, NEW extra, IsBuilder(b),
         c = b \/ (~ b.completed /\ c = [b EXCEPT !.operands[i].extra = extra])
  PROVE  IsBuilder(c)
<1> DEFINE d == [b EXCEPT !.operands[i].extra = extra]
<1>1. ~ b.completed => IsBuilder(d) BY ExtraIsBuilder
<1> HIDE DEF d
<1>2. c = b \/ (~ b.completed /\ c = d) BY DEF d
<1> QED BY <1>1, <1>2

LEMMA BuilderStep ==
  ASSUME IsBuilder(builder), BuilderNext
  PROVE  IsBuilder(builder)'
<1>1. CASE addOperand BY <1>1, AddOperandIsBuilder DEF addOperand
<1>2. CASE setOperandValue BY <1>2, SetOperandValueIsBuilder, OmitIsBuilder DEF setOperandValue
<1>3. CASE setOperandValueFromMemory
  BY <1>3, FromMemoryIsBuilder, Zenon DEF setOperandValueFromMemory
<1>4. CASE setOperandSymmPerChannelQuantParams
  <2>1. PICK i, quant : builder' = SetOperandSymmPerChannelQuantParams(builder, i, quant)
    BY <1>4 DEF setOperandSymmPerChannelQuantParams
  <2> DEFINE extra == [kind |-> "channelQuant"] @@ quant
  <2>2. \/ builder' = builder
        \/ ~ builder.completed /\ builder' = [builder EXCEPT !.operands[i].extra = extra]
    BY <2>1, Zenon DEF SetOperandSymmPerChannelQuantParams, BadState
  <2> HIDE DEF extra
  <2> QED BY <2>2, ExtraKeeps
<1>5. CASE setOperandExtensionData
  <2>1. PICK i, data : builder' = SetOperandExtensionData(builder, i, data)
    BY <1>5 DEF setOperandExtensionData
  <2> DEFINE extra == IF data = <<>> THEN [kind |-> "none"] ELSE [kind |-> "extension", data |-> data]
  <2>2. \/ builder' = builder
        \/ ~ builder.completed /\ builder' = [builder EXCEPT !.operands[i].extra = extra]
    BY <2>1, Zenon DEF SetOperandExtensionData, BadState
  <2> HIDE DEF extra
  <2> QED BY <2>2, ExtraKeeps
<1>6. CASE addOperation BY <1>6, AddOperationIsBuilder DEF addOperation
<1>7. CASE identifyInputsAndOutputs
  <2>1. PICK l \in Identifications : builder' = IdentifyInputsAndOutputs(builder, l.ins, l.outs)
    BY <1>7 DEF identifyInputsAndOutputs
  <2>2. l.ins \in Seq(Nat) /\ l.outs \in Seq(Nat) BY IdentificationsAssumption
  <2>3. builder.inputIndexes = <<>> /\ builder.outputIndexes = <<>>
    BY <1>7 DEF identifyInputsAndOutputs, Identified
  <2> QED BY <2>1, <2>2, <2>3, IdentifyIsBuilder
<1>8. CASE relaxComputationFloat32toFloat16
  <2> DEFINE c == [builder EXCEPT !.relaxed = TRUE]
  <2>1. builder' = builder \/ (builder' = c /\ ~ builder.completed)
    BY <1>8 DEF relaxComputationFloat32toFloat16, RelaxComputation, BadState
  <2>2. /\ DOMAIN c = DOMAIN builder /\ c.operands = builder.operands
        /\ c.inputIndexes = builder.inputIndexes /\ c.outputIndexes = builder.outputIndexes
        /\ c.operations = builder.operations
        /\ c.completed = builder.completed
    BY DEF IsBuilder, Empty
  <2> HIDE DEF c
  <2>3. ~ builder.completed => IsCounted(c) BY <2>2, SameCount DEF IsBuilder
  <2> QED BY <2>1, <2>2, <2>3 DEF IsBuilder
<1>9. CASE finish BY <1>9, FinishIsBuilder DEF finish
<1> QED BY <1>1, <1>2, <1>3, <1>4, <1>5, <1>6, <1>7, <1>8, <1>9 DEF BuilderNext

-----------------------------------------------------------------------------
(* The executor.  A temporary is nowhere or on the heap, anything else that   *)
(* is not omitted is somewhere, and only temporaries are counted.             *)

InfoFields == {"type", "dims", "lifetime", "length", "buffer", "uses"}

IsInfo(info) ==
  /\ InfoFields \subseteq DOMAIN info
  /\ info.lifetime \in Lifetimes
  /\ info.lifetime = "TEMPORARY_VARIABLE" => info.buffer \in {Null, Heap}
  /\ info.lifetime # "TEMPORARY_VARIABLE" => info.uses = 0 /\ info.buffer # Heap
  /\ info.lifetime \notin {"TEMPORARY_VARIABLE", "NO_VALUE"} => info.buffer # Null

AreInfos(infos) ==
  /\ \E n \in Nat : DOMAIN infos = 1 .. n
  /\ \A i \in DOMAIN infos : IsInfo(infos[i])

Results == {"NO_ERROR", "INSUFFICIENT_SIZE", "OP_FAILED"}

(* A temporary that can be read.                                              *)
IsWritten(info) ==
  info.lifetime = "TEMPORARY_VARIABLE" /\ info.buffer = Null => ~ SizeOfInfo(info) > 0

LEMMA BuffersDiffer ==
  /\ Null # Heap /\ Null # Argument /\ Argument # Heap
  /\ \A bytes : [at |-> "model", bytes |-> bytes] \notin {Null, Heap}
<1>1. Null.at = "null" /\ Heap.at = "heap" /\ Argument.at = "argument"
  BY DEF Null, Heap, Argument
<1>2. \A bytes : [at |-> "model", bytes |-> bytes].at = "model" OBVIOUS
<1> QED BY <1>1, <1>2, Zenon

LEMMA AllocatedInfo ==
  ASSUME NEW info, InfoFields \subseteq DOMAIN info
  PROVE  LET r == Allocated(info)
         IN /\ DOMAIN r = DOMAIN info
            /\ r.lifetime = info.lifetime /\ r.uses = info.uses
            /\ r.type = info.type /\ r.dims = info.dims
            /\ \/ r.buffer = info.buffer
               \/ info.lifetime = "TEMPORARY_VARIABLE" /\ info.buffer = Null /\ r.buffer = Heap
            /\ IsWritten(r)
<1> DEFINE r == Allocated(info)
           b == [info EXCEPT !.buffer = Heap, !.length = SizeOfInfo(info)]
<1>1. /\ DOMAIN b = DOMAIN info /\ b.buffer = Heap /\ b.lifetime = info.lifetime
      /\ b.uses = info.uses /\ b.type = info.type /\ b.dims = info.dims
  BY DEF InfoFields
<1>2. CASE /\ info.lifetime = "TEMPORARY_VARIABLE" /\ info.buffer = Null
           /\ ~ isExtension(info.type) /\ SizeOfInfo(info) > 0
  <2>1. r = b BY <1>2, Zenon DEF Allocated
  <2> HIDE DEF b
  <2> QED BY <1>1, <1>2, <2>1, BuffersDiffer DEF IsWritten
<1>3. CASE ~ (/\ info.lifetime = "TEMPORARY_VARIABLE" /\ info.buffer = Null
              /\ ~ isExtension(info.type) /\ SizeOfInfo(info) > 0)
  <2>1. r = info BY <1>3, Zenon DEF Allocated
  <2>2. isExtension(info.type) => ~ SizeOfInfo(info) > 0
    <3>1. isExtension(info.type) => SizeOfInfo(info) = 0 BY Zenon DEF SizeOfInfo
    <3> QED BY <3>1
  <2> QED BY <1>3, <2>1, <2>2, Zenon DEF IsWritten
<1> QED BY <1>2, <1>3

LEMMA SetInfo ==
  ASSUME NEW info, NEW dims, InfoFields \subseteq DOMAIN info
  PROVE  LET r == setInfoAndAllocateIfNeeded(info, dims)
         IN /\ InfoFields \subseteq DOMAIN r[1]
            /\ r[1].lifetime = info.lifetime /\ r[1].uses = info.uses
            /\ \/ r[1].buffer = info.buffer
               \/ info.lifetime = "TEMPORARY_VARIABLE" /\ info.buffer = Null /\ r[1].buffer = Heap
            /\ r[2] \in Results /\ (r[2] = "NO_ERROR" => IsWritten(r[1]))
<1> DEFINE combined == [info EXCEPT !.dims = combineDimensions(dims, @)]
           allocated == Allocated(combined)
           r == setInfoAndAllocateIfNeeded(info, dims)
           result == IF isSufficient(allocated) THEN "NO_ERROR" ELSE "INSUFFICIENT_SIZE"
<1>1. \/ r = << info, "OP_FAILED" >> \/ r = << combined, "OP_FAILED" >>
      \/ r = << allocated, result >>
  BY Zenon DEF setInfoAndAllocateIfNeeded
<1>2. /\ DOMAIN combined = DOMAIN info /\ combined.lifetime = info.lifetime
      /\ combined.uses = info.uses /\ combined.buffer = info.buffer
  BY DEF InfoFields
<1> HIDE DEF combined
<1>3. /\ DOMAIN allocated = DOMAIN combined
      /\ allocated.lifetime = combined.lifetime /\ allocated.uses = combined.uses
      /\ \/ allocated.buffer = combined.buffer
         \/ combined.lifetime = "TEMPORARY_VARIABLE" /\ combined.buffer = Null /\ allocated.buffer = Heap
      /\ IsWritten(allocated)
  BY <1>2, AllocatedInfo, Zenon
<1>7. result \in Results BY DEF Results
<1> HIDE DEF allocated, result, r
<1>4. CASE r = << info, "OP_FAILED" >> BY <1>4 DEF r, Results
<1>5. CASE r = << combined, "OP_FAILED" >> BY <1>2, <1>5 DEF r, Results
<1>6. CASE r = << allocated, result >> BY <1>2, <1>3, <1>6, <1>7 DEF r
<1> QED BY <1>1, <1>4, <1>5, <1>6

(* What an operation writes to stays what it was.                             *)
LEMMA SetInfoIsInfo ==
  ASSUME NEW info, NEW dims, IsInfo(info)
  PROVE  LET r == setInfoAndAllocateIfNeeded(info, dims)
         IN /\ IsInfo(r[1]) /\ r[1].lifetime = info.lifetime /\ r[1].uses = info.uses
            /\ r[2] \in Results /\ (r[2] = "NO_ERROR" => IsWritten(r[1]))
<1> DEFINE r == setInfoAndAllocateIfNeeded(info, dims)
<1>1. /\ InfoFields \subseteq DOMAIN r[1]
      /\ r[1].lifetime = info.lifetime /\ r[1].uses = info.uses
      /\ \/ r[1].buffer = info.buffer
         \/ info.lifetime = "TEMPORARY_VARIABLE" /\ info.buffer = Null /\ r[1].buffer = Heap
      /\ r[2] \in Results /\ (r[2] = "NO_ERROR" => IsWritten(r[1]))
  BY SetInfo, Zenon DEF IsInfo
<1> HIDE DEF r
<1>2. IsInfo(r[1]) BY <1>1 DEF IsInfo
<1> QED BY <1>1, <1>2 DEF r

-----------------------------------------------------------------------------
(* The blocks, counted.                                                      *)

LEMMA FiniteInfos ==
  ASSUME NEW infos, AreInfos(infos), NEW S, S \subseteq DOMAIN infos
  PROVE  IsFiniteSet(S) /\ Cardinality(S) \in Nat
<1>1. PICK n \in Nat : DOMAIN infos = 1 .. n BY DEF AreInfos
<1>2. IsFiniteSet(1 .. n) BY FS_Interval
<1>3. IsFiniteSet(S) BY <1>1, <1>2, FS_Subset
<1> QED BY <1>3, FS_CardinalityType

LEMMA BlocksType ==
  ASSUME NEW infos, AreInfos(infos)
  PROVE  Blocks(infos) \in Nat
BY FiniteInfos DEF Blocks

LEMMA NoBlocks ==
  ASSUME NEW infos, \A i \in DOMAIN infos : infos[i].buffer # Heap
  PROVE  Blocks(infos) = 0
<1>1. {i \in DOMAIN infos : infos[i].buffer = Heap} = {} OBVIOUS
<1> QED BY <1>1, FS_EmptySet DEF Blocks

(* What only deletes blocks deletes as many as are missing.                   *)
LEMMA DeletedBlocks ==
  ASSUME NEW before, NEW after, AreInfos(before), AreInfos(after), DOMAIN after = DOMAIN before,
         \A i \in DOMAIN before :
            \/ after[i].buffer = before[i].buffer
            \/ after[i].buffer = Null /\ before[i].buffer \in {Null, Heap}
  PROVE  Blocks(after) = Blocks(before) - Deleted(before, after)
<1> DEFINE B == {i \in DOMAIN before : before[i].buffer = Heap}
           A == {i \in DOMAIN after : after[i].buffer = Heap}
           D == {i \in DOMAIN before : before[i].buffer # Null /\ after[i].buffer = Null}
<1>1. B = A \cup D /\ A \cap D = {} BY BuffersDiffer
<1>2. IsFiniteSet(A) /\ Cardinality(A) \in Nat
  BY FiniteInfos
<1>3. IsFiniteSet(D) /\ Cardinality(D) \in Nat
  BY FiniteInfos
<1> HIDE DEF A, B, D
<1>4. Cardinality(B) = Cardinality(A) + Cardinality(D)
  <2>1. Cardinality(A \cap D) = 0 BY <1>1, FS_EmptySet
  <2>2. Cardinality(A \cup D) = Cardinality(A) + Cardinality(D) - Cardinality(A \cap D)
    BY <1>2, <1>3, FS_Union
  <2> QED BY <1>1, <1>2, <1>3, <2>1, <2>2
<1>5. Cardinality(B) = Blocks(before) /\ Cardinality(A) = Blocks(after)
      /\ Cardinality(D) = Deleted(before, after)
  BY DEF A, B, D, Blocks, Deleted
<1> QED BY <1>2, <1>3, <1>4, <1>5

(* Only a temporary is deleted, and what is read for the last time is one.     *)
LEMMA FreedInfos ==
  ASSUME NEW infos, NEW ins, AreInfos(infos)
  PROVE  LET r == freeNoLongerUsedOperands(infos, ins)
         IN /\ AreInfos(r) /\ DOMAIN r = DOMAIN infos
            /\ \A i \in DOMAIN infos :
                 /\ r[i].lifetime = infos[i].lifetime
                 /\ LET used == Cardinality({n \in DOMAIN ins : ins[n] = i})
                    IN r[i].uses = IF infos[i].uses # 0 /\ used < infos[i].uses
                                 THEN infos[i].uses - used ELSE 0
                 /\ r[i].uses # 0 /\ IsWritten(infos[i]) => IsWritten(r[i])
            /\ Blocks(r) = Blocks(infos) - Deleted(infos, r)
<1> DEFINE used(i) == Cardinality({n \in DOMAIN ins : ins[n] = i})
           r == freeNoLongerUsedOperands(infos, ins)
<1>1. DOMAIN r = DOMAIN infos BY DEF freeNoLongerUsedOperands
<1>2. ASSUME NEW i \in DOMAIN infos
      PROVE  /\ IsInfo(r[i]) /\ r[i].lifetime = infos[i].lifetime
             /\ \/ r[i].buffer = infos[i].buffer
                \/ r[i].buffer = Null /\ infos[i].buffer \in {Null, Heap}
             /\ r[i].uses = IF infos[i].uses # 0 /\ used(i) < infos[i].uses
                            THEN infos[i].uses - used(i) ELSE 0
             /\ r[i].uses # 0 /\ IsWritten(infos[i]) => IsWritten(r[i])
  <2>1. r[i] = IF infos[i].uses = 0 THEN infos[i]
               ELSE IF used(i) < infos[i].uses
                    THEN [infos[i] EXCEPT !.uses = infos[i].uses - used(i)]
                    ELSE [infos[i] EXCEPT !.uses = 0, !.buffer = Null]
    BY Zenon DEF freeNoLongerUsedOperands
  <2>2. IsInfo(infos[i]) BY DEF AreInfos
  <2> HIDE DEF used, r
  <2>3. CASE infos[i].uses = 0 BY <2>1, <2>2, <2>3
  <2>4. CASE infos[i].uses # 0 /\ used(i) < infos[i].uses
    <3>1. r[i] = [infos[i] EXCEPT !.uses = infos[i].uses - used(i)] BY <2>1, <2>4
    <3>2. /\ InfoFields \subseteq DOMAIN r[i]
          /\ r[i].lifetime = infos[i].lifetime /\ r[i].buffer = infos[i].buffer
          /\ r[i].type = infos[i].type /\ r[i].dims = infos[i].dims
          /\ r[i].uses = infos[i].uses - used(i)
      BY <2>2, <3>1 DEF IsInfo, InfoFields
    <3>3. IsWritten(infos[i]) => IsWritten(r[i])
      BY <3>2, Zenon DEF IsWritten, SizeOfInfo
    <3> QED BY <2>2, <2>4, <3>2, <3>3 DEF IsInfo
  <2>5. CASE infos[i].uses # 0 /\ ~ (used(i) < infos[i].uses)
    <3>1. infos[i].lifetime = "TEMPORARY_VARIABLE" /\ infos[i].buffer \in {Null, Heap}
      BY <2>2, <2>5 DEF IsInfo
    <3>2. r[i] = [infos[i] EXCEPT !.uses = 0, !.buffer = Null] BY <2>1, <2>5
    <3>3. /\ InfoFields \subseteq DOMAIN r[i]
          /\ r[i].lifetime = infos[i].lifetime /\ r[i].buffer = Null /\ r[i].uses = 0
      BY <2>2, <3>2 DEF IsInfo, InfoFields
    <3> QED BY <2>2, <2>5, <3>1, <3>3 DEF IsInfo
  <2> QED BY <2>3, <2>4, <2>5
<1> HIDE DEF r
<1>3. AreInfos(r) BY <1>1, <1>2 DEF AreInfos
<1>4. Blocks(r) = Blocks(infos) - Deleted(infos, r) BY <1>1, <1>2, <1>3, DeletedBlocks
<1> QED BY <1>1, <1>2, <1>3, <1>4 DEF r

LEMMA ReleasedInfos ==
  ASSUME NEW infos, AreInfos(infos)
  PROVE  LET r == Released(infos)
         IN /\ AreInfos(r) /\ DOMAIN r = DOMAIN infos
            /\ \A i \in DOMAIN infos : r[i].buffer # Heap
            /\ Blocks(r) = 0 /\ Deleted(infos, r) = Blocks(infos)
<1> DEFINE r == Released(infos)
<1>1. DOMAIN r = DOMAIN infos BY DEF Released
<1>2. ASSUME NEW i \in DOMAIN infos
      PROVE  /\ IsInfo(r[i]) /\ r[i].buffer # Heap
             /\ \/ r[i].buffer = infos[i].buffer
                \/ r[i].buffer = Null /\ infos[i].buffer \in {Null, Heap}
  <2>1. IsInfo(infos[i]) BY DEF AreInfos
  <2>2. CASE infos[i].lifetime = "TEMPORARY_VARIABLE"
    <3>1. r[i] = [infos[i] EXCEPT !.buffer = Null] BY <2>2 DEF Released
    <3> QED BY <2>1, <2>2, <3>1, BuffersDiffer DEF IsInfo, InfoFields
  <2>3. CASE infos[i].lifetime # "TEMPORARY_VARIABLE"
    <3>1. r[i] = infos[i] BY <2>3 DEF Released
    <3> QED BY <2>1, <2>3, <3>1 DEF IsInfo
  <2> QED BY <2>2, <2>3
<1> HIDE DEF r
<1>3. AreInfos(r) BY <1>1, <1>2 DEF AreInfos
<1>4. Blocks(r) = Blocks(infos) - Deleted(infos, r) BY <1>1, <1>2, <1>3, DeletedBlocks
<1>5. Blocks(r) = 0 BY <1>1, <1>2, NoBlocks
<1>6. Deleted(infos, r) \in Nat BY FiniteInfos DEF Deleted
<1>7. Deleted(infos, r) = Blocks(infos) BY <1>4, <1>5, <1>6, BlocksType
<1> QED BY <1>1, <1>2, <1>3, <1>5, <1>7 DEF r

-----------------------------------------------------------------------------
(* What an operation leaves: the others' operands as they are; and every block *)
(* it allocates in an operand, unless it fails and leaves the operands alone.  *)

Leaves(s, outs) ==
  /\ AreInfos(s.infos) /\ DOMAIN s.infos = DOMAIN mOperands
  /\ \A i \in DOMAIN mOperands :
       /\ s.infos[i].lifetime = mOperands[i].lifetime
       /\ s.infos[i].uses = mOperands[i].uses
       /\ i \notin Range(outs) => s.infos[i] = mOperands[i]
       /\ s.result = "NO_ERROR" /\ i \in Range(outs) => IsWritten(s.infos[i])
  /\ s.heap \in Int /\ s.result \in Results
  /\ \/ s.heap = heap + Blocks(s.infos) - Blocks(mOperands)
     \/ s.infos = mOperands /\ s.result # "NO_ERROR"

LEMMA PrepareLeaves ==
  ASSUME NEW outs \in Seq(DOMAIN mOperands), NEW dims, AreInfos(mOperands), heap \in Int
  PROVE  Leaves(PrepareOutputs(outs, dims), outs)
<1> DEFINE set == [n \in DOMAIN outs |-> setInfoAndAllocateIfNeeded(mOperands[outs[n]], dims[n])]
           failed == {n \in DOMAIN outs : set[n][2] # "NO_ERROR"}
           done == IF failed = {} THEN Len(outs) ELSE Min(failed)
           reached(i) == {n \in DOMAIN outs : n <= done /\ outs[n] = i}
           infos == [i \in DOMAIN mOperands |->
                  IF reached(i) = {} THEN mOperands[i] ELSE set[CHOOSE n \in reached(i) : TRUE][1]]
           s == PrepareOutputs(outs, dims)
<1>1. /\ s.infos = infos /\ s.heap = heap + Blocks(infos) - Blocks(mOperands)
      /\ s.result = IF failed = {} THEN "NO_ERROR" ELSE set[done][2]
  BY Zenon DEF PrepareOutputs
<1>2. ASSUME s.result = "NO_ERROR" PROVE failed = {} /\ done = Len(outs)
  <2>1. CASE failed # {}
    <3> HIDE DEF set
    <3>1. failed \in SUBSET Nat OBVIOUS
    <3>2. Min(failed) \in failed BY <2>1, <3>1, LeastIsMin
    <3>3. set[done][2] # "NO_ERROR" BY <2>1, <3>2
    <3> HIDE DEF done, failed, s
    <3> QED BY <1>1, <1>2, <2>1, <3>3
  <2>2. CASE failed = {} BY <2>2
  <2> QED BY <2>1, <2>2
<1>3. ASSUME NEW n \in DOMAIN outs
      PROVE  /\ IsInfo(set[n][1])
             /\ set[n][1].lifetime = mOperands[outs[n]].lifetime
             /\ set[n][1].uses = mOperands[outs[n]].uses
             /\ set[n][2] \in Results /\ (set[n][2] = "NO_ERROR" => IsWritten(set[n][1]))
  <2>1. IsInfo(mOperands[outs[n]]) BY DEF AreInfos
  <2>2. set[n] = setInfoAndAllocateIfNeeded(mOperands[outs[n]], dims[n]) OBVIOUS
  <2> HIDE DEF set
  <2> QED BY <2>1, <2>2, SetInfoIsInfo
<1>r. s.result \in Results
  <2>1. CASE failed # {}
    <3> HIDE DEF set
    <3>1. failed \in SUBSET Nat OBVIOUS
    <3>2. Min(failed) \in failed BY <2>1, <3>1, LeastIsMin
    <3>3. set[done][2] \in Results BY <1>3, <2>1, <3>2
    <3> HIDE DEF done, failed, s
    <3> QED BY <1>1, <2>1, <3>3
  <2>2. CASE failed = {}
    <3> HIDE DEF done, failed, s
    <3> QED BY <1>1, <2>2 DEF Results
  <2> QED BY <2>1, <2>2
<1> HIDE DEF set, s
<1>4. ASSUME NEW i \in DOMAIN mOperands
      PROVE  /\ IsInfo(infos[i])
             /\ infos[i].lifetime = mOperands[i].lifetime /\ infos[i].uses = mOperands[i].uses
             /\ i \notin Range(outs) => infos[i] = mOperands[i]
             /\ s.result = "NO_ERROR" /\ i \in Range(outs) => IsWritten(infos[i])
  <2>1. CASE reached(i) = {}
    <3>1. infos[i] = mOperands[i] BY <2>1
    <3>2. ASSUME s.result = "NO_ERROR", i \in Range(outs) PROVE FALSE
      <4>1. PICK n \in DOMAIN outs : outs[n] = i BY <3>2 DEF Range
      <4>2. n <= Len(outs) OBVIOUS
      <4>3. n \in reached(i) BY <1>2, <3>2, <4>1, <4>2
      <4> QED BY <2>1, <4>3
    <3>3. IsInfo(mOperands[i]) BY DEF AreInfos
    <3> HIDE DEF infos, reached
    <3> QED BY <3>1, <3>2, <3>3
  <2>2. CASE reached(i) # {}
    <3>1. PICK n \in reached(i) : infos[i] = set[n][1] BY <2>2
    <3>2. n \in DOMAIN outs /\ outs[n] = i OBVIOUS
    <3>3. i \in Range(outs) BY <3>2 DEF Range
    <3>4. s.result = "NO_ERROR" => set[n][2] = "NO_ERROR" BY <1>2, <3>2
    <3> HIDE DEF infos, reached
    <3> QED BY <1>3, <3>1, <3>2, <3>3, <3>4
  <2> QED BY <2>1, <2>2
<1>5. DOMAIN infos = DOMAIN mOperands OBVIOUS
<1> HIDE DEF infos
<1>6. AreInfos(infos) BY <1>4, <1>5 DEF AreInfos
<1>7. s.heap \in Int BY <1>1, <1>6, BlocksType
<1> QED BY <1>1, <1>4, <1>5, <1>6, <1>7, <1>r DEF Leaves, s

LEMMA SameBlocks ==
  ASSUME NEW before, NEW after, DOMAIN after = DOMAIN before,
         \A i \in DOMAIN before : after[i].buffer = before[i].buffer
  PROVE  Blocks(after) = Blocks(before)
<1>1. {i \in DOMAIN after : after[i].buffer = Heap} = {i \in DOMAIN before : before[i].buffer = Heap}
  OBVIOUS
<1> QED BY <1>1 DEF Blocks

LEMMA OneMoreBlock ==
  ASSUME NEW before, NEW after, AreInfos(before), DOMAIN after = DOMAIN before,
         NEW i \in DOMAIN before, before[i].buffer # Heap, after[i].buffer = Heap,
         \A j \in DOMAIN before \ {i} : after[j] = before[j]
  PROVE  Blocks(after) = Blocks(before) + 1
<1> DEFINE B == {j \in DOMAIN before : before[j].buffer = Heap}
           A == {j \in DOMAIN after : after[j].buffer = Heap}
<1>1. A = B \cup {i} /\ i \notin B OBVIOUS
<1>2. IsFiniteSet(B) BY FiniteInfos
<1> HIDE DEF A, B
<1>3. Cardinality(A) = Cardinality(B) + 1 BY <1>1, <1>2, FS_AddElement
<1> QED BY <1>3 DEF A, B, Blocks

LEMMA NhwcLeaves ==
  ASSUME NEW operation, NEW dims, NEW evaluates, AreInfos(mOperands), heap \in Int,
         operation.outs \in Seq(DOMAIN mOperands), Len(operation.outs) = 1,
         mOperands[operation.outs[1]].lifetime \in {"TEMPORARY_VARIABLE", "MODEL_OUTPUT"}
  PROVE  Leaves(NhwcKernel(operation, dims, evaluates), operation.outs)
<1> DEFINE i == operation.outs[1]
           info == mOperands[i]
           borrower == [info EXCEPT !.lifetime = "TEMPORARY_VARIABLE", !.dims = dims[1]]
           tmp == Allocated(borrower)
           blocks == IF tmp.buffer # info.buffer THEN 1 ELSE 0
           output == [info EXCEPT !.buffer = tmp.buffer, !.length = tmp.length]
           set == setInfoAndAllocateIfNeeded(output, dims[1])
           more == IF set[1].buffer # tmp.buffer THEN 1 ELSE 0
           s == NhwcKernel(operation, dims, evaluates)
           resized == [mOperands EXCEPT ![i].dims = dims[1]]
           done == [mOperands EXCEPT ![i] = set[1]]
<1> SUFFICES Leaves(s, operation.outs) OBVIOUS
<1>1. i \in DOMAIN mOperands /\ Range(operation.outs) = {i} BY DEF Range
<1>2. IsInfo(info) BY <1>1 DEF AreInfos
<1>3. \/ s = [infos |-> resized, heap |-> heap, result |-> "INSUFFICIENT_SIZE"]
      \/ s = [infos |-> mOperands, heap |-> heap + blocks, result |-> "OP_FAILED"]
      \/ s = [infos |-> done, heap |-> heap + blocks + more, result |-> set[2]]
  BY Zenon DEF NhwcKernel
<1>4. /\ InfoFields \subseteq DOMAIN borrower /\ borrower.buffer = info.buffer
      /\ borrower.lifetime = "TEMPORARY_VARIABLE"
  BY <1>2 DEF IsInfo, InfoFields
<1> HIDE DEF borrower
<1>5. tmp.buffer = info.buffer \/ (info.buffer = Null /\ tmp.buffer = Heap)
  BY <1>4, AllocatedInfo
<1>6. info.buffer = Null => info.lifetime = "TEMPORARY_VARIABLE"
  BY <1>2 DEF IsInfo
<1> HIDE DEF tmp
<1>7. /\ InfoFields \subseteq DOMAIN output /\ output.buffer = tmp.buffer
      /\ output.lifetime = info.lifetime /\ output.uses = info.uses
  BY <1>2 DEF IsInfo, InfoFields
<1> HIDE DEF output
<1>8. IsInfo(output) BY <1>2, <1>5, <1>6, <1>7 DEF IsInfo
<1>9. /\ set[1].lifetime = info.lifetime /\ set[1].uses = info.uses
      /\ \/ set[1].buffer = tmp.buffer
         \/ info.lifetime = "TEMPORARY_VARIABLE" /\ tmp.buffer = Null /\ set[1].buffer = Heap
      /\ set[2] \in Results /\ (set[2] = "NO_ERROR" => IsWritten(set[1]))
  BY <1>7, SetInfo
<1>10. IsInfo(set[1]) BY <1>8, SetInfoIsInfo
<1> HIDE DEF set, s
<1>11. CASE s = [infos |-> resized, heap |-> heap, result |-> "INSUFFICIENT_SIZE"]
  <2>1. /\ DOMAIN resized = DOMAIN mOperands
        /\ \A j \in DOMAIN mOperands \ {i} : resized[j] = mOperands[j]
        /\ resized[i] = [info EXCEPT !.dims = dims[1]]
    BY <1>1
  <2> HIDE DEF resized
  <2>2. /\ InfoFields \subseteq DOMAIN resized[i] /\ resized[i].lifetime = info.lifetime
        /\ resized[i].uses = info.uses /\ resized[i].buffer = info.buffer
    BY <1>2, <2>1 DEF IsInfo, InfoFields
  <2>3. IsInfo(resized[i]) BY <1>2, <2>2 DEF IsInfo
  <2>4. AreInfos(resized) BY <2>1, <2>3 DEF AreInfos
  <2>5. \A j \in DOMAIN mOperands : resized[j].buffer = mOperands[j].buffer
    BY <2>1, <2>2
  <2>6. Blocks(resized) = Blocks(mOperands) BY <2>1, <2>5, SameBlocks
  <2>7. s.infos = resized /\ s.heap = heap /\ s.result = "INSUFFICIENT_SIZE" BY <1>11
  <2>8. heap = heap + Blocks(resized) - Blocks(mOperands) BY <2>6, BlocksType
  <2>9. \A j \in DOMAIN mOperands : /\ resized[j].lifetime = mOperands[j].lifetime
                                    /\ resized[j].uses = mOperands[j].uses
                                    /\ j \notin {i} => resized[j] = mOperands[j]
    BY <2>1, <2>2
  <2> QED BY <1>1, <2>1, <2>4, <2>7, <2>8, <2>9 DEF Leaves, Results
<1>12. CASE s = [infos |-> mOperands, heap |-> heap + blocks, result |-> "OP_FAILED"]
  <2>1. s.infos = mOperands /\ s.heap = heap + blocks /\ s.result = "OP_FAILED" BY <1>12
  <2> QED BY <2>1 DEF Leaves, Results
<1>13. CASE s = [infos |-> done, heap |-> heap + blocks + more, result |-> set[2]]
  <2>1. /\ DOMAIN done = DOMAIN mOperands
        /\ \A j \in DOMAIN mOperands \ {i} : done[j] = mOperands[j]
        /\ done[i] = set[1]
    BY <1>1
  <2> HIDE DEF done
  <2>2. AreInfos(done) BY <1>10, <2>1 DEF AreInfos
  <2>3. Blocks(done) = Blocks(mOperands) + blocks + more
    <3>1. CASE set[1].buffer = info.buffer
      <4>1. tmp.buffer = info.buffer BY <1>5, <1>9, <3>1, BuffersDiffer
      <4>2. blocks = 0 /\ more = 0 BY <3>1, <4>1
      <4>3. \A j \in DOMAIN mOperands : done[j].buffer = mOperands[j].buffer BY <2>1, <3>1
      <4>4. Blocks(done) = Blocks(mOperands) BY <2>1, <4>3, SameBlocks
      <4> QED BY <4>2, <4>4, BlocksType
    <3>2. CASE set[1].buffer # info.buffer
      <4>1. info.buffer = Null /\ set[1].buffer = Heap BY <1>5, <1>9, <3>2
      <4>2. blocks + more = 1 BY <1>5, <1>9, <4>1, BuffersDiffer
      <4>3. Blocks(done) = Blocks(mOperands) + 1
        BY <1>1, <2>1, <4>1, BuffersDiffer, OneMoreBlock
      <4> QED BY <4>2, <4>3, BlocksType
    <3> QED BY <3>1, <3>2
  <2>4. s.infos = done /\ s.heap = heap + blocks + more /\ s.result = set[2] BY <1>13
  <2>5. blocks \in Int /\ more \in Int OBVIOUS
  <2> HIDE DEF blocks, more
  <2>6. s.heap = heap + Blocks(done) - Blocks(mOperands) BY <2>3, <2>4, <2>5, BlocksType
  <2>7. \A j \in DOMAIN mOperands : /\ done[j].lifetime = mOperands[j].lifetime
                                    /\ done[j].uses = mOperands[j].uses
                                    /\ j \notin {i} => done[j] = mOperands[j]
                                    /\ j \in {i} /\ set[2] = "NO_ERROR" => IsWritten(done[j])
    BY <1>9, <2>1
  <2> QED BY <1>1, <1>9, <2>1, <2>2, <2>4, <2>5, <2>6, <2>7 DEF Leaves
<1> QED BY <1>3, <1>11, <1>12, <1>13

(* output_tmp of NchwKernel is its own, so a failure leaves nothing.           *)
LEMMA OutcomesLeave ==
  ASSUME NEW operation, NEW dims, NEW evaluates, NEW s \in Outcomes(operation, dims, evaluates),
         AreInfos(mOperands), heap \in Int,
         operation.outs \in Seq(DOMAIN mOperands),
         \A i \in Range(operation.outs) :
            mOperands[i].lifetime \in {"TEMPORARY_VARIABLE", "MODEL_OUTPUT", "NO_VALUE"},
         Refusal(operation) = "none"
  PROVE  Leaves(s, operation.outs)
<1> DEFINE p == PrepareOutputs(operation.outs, dims)
           failed == [p EXCEPT !.result = "OP_FAILED"]
           nchw == [infos |-> mOperands, heap |-> heap, result |-> "OP_FAILED"]
<1>1. Leaves(p, operation.outs) BY PrepareLeaves
<1>2. Leaves(failed, operation.outs)
  <2>1. DOMAIN p = {"infos", "heap", "result"} BY DEF PrepareOutputs
  <2> HIDE DEF p
  <2>2. failed.infos = p.infos /\ failed.heap = p.heap /\ failed.result = "OP_FAILED" BY <2>1
  <2> HIDE DEF failed
  <2> QED BY <1>1, <2>2 DEF Leaves, Results
<1>3. Leaves(nchw, operation.outs)
  <2>1. nchw.infos = mOperands /\ nchw.heap = heap /\ nchw.result = "OP_FAILED" OBVIOUS
  <2> HIDE DEF nchw
  <2> QED BY <2>1 DEF Leaves, Results
<1>4. s \in {p, failed, nchw} \/ (operation.type \in NhwcOps /\ s = NhwcKernel(operation, dims, evaluates))
  <2>1. Kernel(operation, dims, evaluates) \in {p, failed} BY Zenon DEF Kernel
  <2>2. NchwKernel(operation, dims, evaluates) \in {p, nchw} BY Zenon DEF NchwKernel
  <2>3. CASE operation.type \in NhwcOps
    <3>1. s \in {NhwcKernel(operation, dims, evaluates), NchwKernel(operation, dims, evaluates)}
      BY <2>3 DEF Outcomes
    <3> HIDE DEF p, failed, nchw
    <3> QED BY <2>2, <2>3, <3>1
  <2>4. CASE operation.type \notin NhwcOps
    <3>1. s = Kernel(operation, dims, evaluates) BY <2>4 DEF Outcomes
    <3> HIDE DEF p, failed, nchw
    <3> QED BY <2>1, <3>1
  <2> QED BY <2>3, <2>4
<1>5. ASSUME operation.type \in NhwcOps
      PROVE  Len(operation.outs) = 1 /\ ~ SomeOmitted(operation)
  <2>1. /\ operation.type \notin {OEM, EXTENSION} /\ operation.type \notin KernelOps
        /\ operation.type \in TableOps \ UncheckedOps /\ operation.type # "SQUEEZE"
    BY <1>5 DEF NhwcOps, DepthOps, BlockOps, OEM, EXTENSION, KernelOps, TableOps, UncheckedOps,
                LookupsAndCells, Activations, Broadcasts, Comparisons, Elementwises, Poolings, Resizes
  <2>2. Len(operation.outs) = RequiredOuts(operation.type) /\ ~ SomeOmitted(operation)
    <3>1. ASSUME Len(operation.outs) # RequiredOuts(operation.type) \/ SomeOmitted(operation)
          PROVE  Refusal(operation) = "BAD_DATA"
      BY <2>1, <3>1 DEF Refusal
    <3> QED BY <3>1
  <2>3. RequiredOuts(operation.type) = 1 BY <1>5 DEF RequiredOuts, NhwcOps, DepthOps, BlockOps
  <2> QED BY <2>2, <2>3
<1>6. CASE operation.type \in NhwcOps /\ s = NhwcKernel(operation, dims, evaluates)
  <2>1. operation.outs[1] \in Range(operation.outs) BY <1>5, <1>6 DEF Range
  <2>2. mOperands[operation.outs[1]].lifetime # "NO_VALUE"
    BY <1>5, <1>6, <2>1 DEF SomeOmitted, Omitted
  <2> QED BY <1>5, <1>6, <2>1, <2>2, NhwcLeaves
<1> HIDE DEF p, failed, nchw
<1> QED BY <1>1, <1>2, <1>3, <1>4, <1>6

-----------------------------------------------------------------------------
(* The run.                                                                 *)

(* The uses of an operand that are still to come.                             *)
ReadsFrom(m, i, k) == {u \in ReadsOf(m, i) : u[1] >= k}

Running ==
  /\ RunsInOrder(model) /\ DOMAIN mOperands = DOMAIN model.operands
  /\ next \in Nat \ {0}
  /\ \A i \in DOMAIN mOperands :
       /\ mOperands[i].lifetime \in {model.operands[i].lifetime, "NO_VALUE"}
       /\ mOperands[i].lifetime = "TEMPORARY_VARIABLE" =>
            /\ mOperands[i].uses \in Nat
            /\ mOperands[i].uses >= Cardinality(ReadsFrom(model, i, next))
            /\ (\E p \in DOMAIN model.operations : p < next /\ i \in Range(model.operations[p].outs))
                 /\ mOperands[i].uses # 0 => IsWritten(mOperands[i])

HeapInv ==
  /\ IsBuilder(builder)
  /\ AreInfos(mOperands) /\ heap \in Int /\ leaked \in Int
  /\ heap = Blocks(mOperands) + leaked
  /\ status # "running" => \A i \in DOMAIN mOperands : mOperands[i].buffer # Heap
  /\ status = "running" => Running

LEMMA InitHeap == builder = Empty /\ CpuInit => HeapInv
<1> SUFFICES ASSUME builder = Empty, CpuInit PROVE HeapInv OBVIOUS
<1>1. mOperands = <<>> /\ heap = 0 /\ leaked = 0 /\ status = "idle" BY DEF CpuInit
<1>2. AreInfos(<<>>)
  <2>1. DOMAIN <<>> = 1 .. 0 OBVIOUS
  <2> QED BY <2>1 DEF AreInfos
<1>3. Blocks(<<>>) = 0 BY NoBlocks
<1> QED BY <1>1, <1>2, <1>3, EmptyIsBuilder DEF HeapInv

LEMMA RangeOfConcat ==
  ASSUME NEW a \in Seq(Nat), NEW b \in Seq(Nat)
  PROVE  Range(a \o b) = Range(a) \cup Range(b)
<1> DEFINE c == a \o b
<1>1. /\ Len(c) = Len(a) + Len(b) /\ DOMAIN c = 1 .. Len(c)
      /\ \A n \in 1 .. Len(c) : c[n] = IF n <= Len(a) THEN a[n] ELSE b[n - Len(a)]
  BY ConcatProperties
<1>2. DOMAIN a = 1 .. Len(a) /\ DOMAIN b = 1 .. Len(b) /\ Len(a) \in Nat /\ Len(b) \in Nat
  OBVIOUS
<1> HIDE DEF c
<1>3. ASSUME NEW n \in DOMAIN c PROVE c[n] \in Range(a) \cup Range(b)
  <2>1. CASE n <= Len(a) BY <1>1, <1>2, <2>1 DEF Range
  <2>2. CASE ~ (n <= Len(a))
    <3>1. n - Len(a) \in DOMAIN b /\ c[n] = b[n - Len(a)] BY <1>1, <1>2, <2>2
    <3> QED BY <3>1 DEF Range
  <2> QED BY <2>1, <2>2
<1>4. ASSUME NEW n \in DOMAIN a PROVE a[n] \in Range(c)
  <2>1. n \in DOMAIN c /\ c[n] = a[n] BY <1>1, <1>2
  <2> QED BY <2>1 DEF Range
<1>5. ASSUME NEW n \in DOMAIN b PROVE b[n] \in Range(c)
  <2>1. n + Len(a) \in DOMAIN c /\ ~ (n + Len(a) <= Len(a)) /\ n + Len(a) - Len(a) = n
    BY <1>1, <1>2
  <2>2. c[n + Len(a)] = b[n] BY <1>1, <2>1
  <2> QED BY <2>1, <2>2 DEF Range
<1>6. Range(c) = Range(a) \cup Range(b) BY <1>3, <1>4, <1>5 DEF Range
<1> QED BY <1>6 DEF c

LEMMA BeginInfos ==
  ASSUME NEW m, NEW request, IsArray(m.operands), HasFields(m.operands),
         m.inputIndexes \in Seq(Nat), m.outputIndexes \in Seq(Nat),
         IsListed(m.operands, m.inputIndexes, "MODEL_INPUT"),
         IsListed(m.operands, m.outputIndexes, "MODEL_OUTPUT"),
         Lists(m.operands, m.inputIndexes, "MODEL_INPUT"),
         Lists(m.operands, m.outputIndexes, "MODEL_OUTPUT")
  PROVE  LET infos == initializeRunTimeInfo(m, request)
         IN /\ AreInfos(infos) /\ DOMAIN infos = DOMAIN m.operands
            /\ \A i \in DOMAIN infos :
                 /\ infos[i].buffer # Heap
                 /\ infos[i].lifetime \in {m.operands[i].lifetime, "NO_VALUE"}
                 /\ infos[i].lifetime = "TEMPORARY_VARIABLE" =>
                      infos[i].uses = m.operands[i].consumers
<1> DEFINE lists == m.inputIndexes \o m.outputIndexes
           infos == initializeRunTimeInfo(m, request)
           bytes(i) == ConstantBytes(m, m.operands[i].location, m.operands[i].lifetime)
           from(i) == LET op == m.operands[i]
                      IN [type |-> op.type, dims |-> op.dims, lifetime |-> op.lifetime,
                          length |-> op.location.length,
                          buffer |-> IF isConstant(op)
                                     THEN [at |-> "model",
                                           bytes |-> ConstantBytes(m, op.location, op.lifetime)]
                                     ELSE Null,
                          uses |-> IF op.lifetime = "TEMPORARY_VARIABLE" THEN op.consumers ELSE 0]
<1>1. DOMAIN infos = DOMAIN m.operands BY Zenon DEF initializeRunTimeInfo
<1>2. \A i \in DOMAIN m.operands :
        \/ i \notin Range(lists) /\ infos[i] = from(i)
        \/ i \in Range(lists) /\ \E argument : infos[i] = WithArgument(from(i), argument)
  BY Zenon DEF initializeRunTimeInfo
<1>3. Range(lists) = Range(m.inputIndexes) \cup Range(m.outputIndexes)
  BY RangeOfConcat
<1>4. ASSUME NEW i \in DOMAIN m.operands
      PROVE  /\ DOMAIN from(i) = InfoFields
             /\ from(i).lifetime = m.operands[i].lifetime
             /\ from(i).buffer = IF isConstant(m.operands[i])
                                 THEN [at |-> "model", bytes |-> bytes(i)] ELSE Null
             /\ from(i).uses = IF m.operands[i].lifetime = "TEMPORARY_VARIABLE"
                               THEN m.operands[i].consumers ELSE 0
  BY DEF InfoFields
<1> HIDE DEF infos, lists, from, bytes
<1>5. ASSUME NEW i \in DOMAIN m.operands
      PROVE  /\ IsInfo(infos[i]) /\ infos[i].buffer # Heap
             /\ infos[i].lifetime \in {m.operands[i].lifetime, "NO_VALUE"}
             /\ infos[i].lifetime = "TEMPORARY_VARIABLE" => infos[i].uses = m.operands[i].consumers
  <2>1. m.operands[i].lifetime \in Lifetimes BY DEF HasFields
  <2>2. CASE i \notin Range(lists)
    <3>1. m.operands[i].lifetime \notin {"MODEL_INPUT", "MODEL_OUTPUT"}
      BY <1>3, <2>2 DEF IsListed
    <3>2. infos[i] = from(i) BY <1>2, <2>2
    <3>3. from(i).buffer # Heap BY <1>4, BuffersDiffer
    <3>4. isConstant(m.operands[i]) => from(i).buffer # Null BY <1>4, BuffersDiffer
    <3>5. ~ isConstant(m.operands[i]) => from(i).buffer = Null BY <1>4
    <3> QED BY <1>4, <2>1, <3>1, <3>2, <3>3, <3>4, <3>5, BuffersDiffer
            DEF IsInfo, isConstant, Lifetimes
  <2>3. CASE i \in Range(lists)
    <3>1. m.operands[i].lifetime \in {"MODEL_INPUT", "MODEL_OUTPUT"}
      BY <1>3, <2>3 DEF Lists
    <3>2. PICK argument : infos[i] = WithArgument(from(i), argument) BY <1>2, <2>3
    <3>3. /\ DOMAIN infos[i] = InfoFields /\ infos[i].uses = 0
          /\ \/ infos[i].lifetime = m.operands[i].lifetime /\ infos[i].buffer = Argument
             \/ infos[i].lifetime = "NO_VALUE" /\ infos[i].buffer = Null
      BY <1>4, <3>1, <3>2 DEF WithArgument, InfoFields
    <3> QED BY <2>1, <3>1, <3>3, BuffersDiffer DEF IsInfo, Lifetimes
  <2> QED BY <2>2, <2>3
<1>6. \E n \in Nat : DOMAIN infos = 1 .. n BY <1>1 DEF IsArray
<1>7. AreInfos(infos) BY <1>1, <1>5, <1>6 DEF AreInfos
<1> QED BY <1>1, <1>5, <1>7 DEF infos

-----------------------------------------------------------------------------
(* The uses, counted.                                                       *)

LEMMA FiniteReads ==
  ASSUME NEW m, NEW i, NEW k, RunsInOrder(m)
  PROVE  /\ IsFiniteSet(ReadsFrom(m, i, k))
         /\ Cardinality(ReadsFrom(m, i, k)) \in Nat
<1>1. HasArguments(m)
  <2>1. \A o \in DOMAIN m.operations : m.operations[o].outs \in Seq(DOMAIN m.operands)
    <3> DEFINE C == {j \in DOMAIN m.operands : Computed(m.operands[j])}
    <3> HIDE DEF C
    <3>1. C \subseteq DOMAIN m.operands BY DEF C
    <3>2. \A o \in DOMAIN m.operations : m.operations[o].outs \in Seq(C) BY DEF RunsInOrder, C
    <3> QED BY <3>1, <3>2, SeqMonotonic
  <2> QED BY <2>1 DEF RunsInOrder, HasArguments
<1>2. IsFiniteSet(ReadsOf(m, i)) BY <1>1, FiniteOperations
<1>3. ReadsFrom(m, i, k) \subseteq ReadsOf(m, i) BY DEF ReadsFrom
<1>4. IsFiniteSet(ReadsFrom(m, i, k)) BY <1>2, <1>3, FS_Subset
<1> QED BY <1>4, FS_CardinalityType

(* An operation takes as many of them as there are occurrences among its ins.   *)
LEMMA OneOperationLess ==
  ASSUME NEW m, NEW i, NEW k \in DOMAIN m.operations, RunsInOrder(m)
  PROVE  LET used == Cardinality({n \in DOMAIN m.operations[k].ins : m.operations[k].ins[n] = i})
         IN /\ used \in Nat
            /\ Cardinality(ReadsFrom(m, i, k)) = used + Cardinality(ReadsFrom(m, i, k + 1))
<1> DEFINE ins == m.operations[k].ins
           N == {n \in DOMAIN ins : ins[n] = i}
           R == ReadsFrom(m, i, k + 1)
<1>1. k \in Nat /\ DOMAIN m.operations \subseteq Nat BY DEF RunsInOrder
<1>2. IsFiniteSet(N)
  <2>1. ins \in Seq(DOMAIN m.operands) BY DEF RunsInOrder
  <2>2. Len(ins) \in Nat /\ DOMAIN ins = 1 .. Len(ins) BY <2>1
  <2>3. IsFiniteSet(DOMAIN ins) BY <2>2, FS_Interval
  <2> QED BY <2>3, FS_Subset
<1>3. IsFiniteSet({k} \X N) /\ Cardinality({k} \X N) = Cardinality(N)
  <2>1. Cardinality(N) \in Nat BY <1>2, FS_CardinalityType
  <2>2. IsFiniteSet({k}) /\ Cardinality({k}) = 1 BY FS_Singleton
  <2> HIDE DEF N
  <2>3. Cardinality({k} \X N) = Cardinality({k}) * Cardinality(N) BY <1>2, <2>2, FS_Product
  <2>4. IsFiniteSet({k} \X N) BY <1>2, <2>2, FS_Product
  <2> QED BY <2>1, <2>2, <2>3, <2>4
<1>4. IsFiniteSet(R) BY FiniteReads
<1>5. ReadsFrom(m, i, k) = ({k} \X N) \cup R /\ ({k} \X N) \cap R = {}
  BY <1>1 DEF ReadsFrom, ReadsOf
<1>6. Cardinality(N) \in Nat /\ Cardinality(R) \in Nat BY <1>2, <1>4, FS_CardinalityType
<1> HIDE DEF N, R
<1>7. Cardinality(ReadsFrom(m, i, k)) = Cardinality(N) + Cardinality(R)
  <2>1. Cardinality(({k} \X N) \cup R)
          = Cardinality({k} \X N) + Cardinality(R) - Cardinality(({k} \X N) \cap R)
    BY <1>3, <1>4, FS_Union
  <2>2. Cardinality(({k} \X N) \cap R) = 0 BY <1>5, FS_EmptySet
  <2> QED BY <1>3, <1>5, <1>6, <2>1, <2>2
<1> QED BY <1>6, <1>7 DEF N, R

(* The operation reads it exactly if it takes one.                             *)
LEMMA ReadIsUsed ==
  ASSUME NEW m, NEW k \in DOMAIN m.operations, NEW i \in Range(m.operations[k].ins), RunsInOrder(m)
  PROVE  Cardinality(ReadsFrom(m, i, k)) # 0
<1>1. PICK n \in DOMAIN m.operations[k].ins : m.operations[k].ins[n] = i BY DEF Range
<1>2. << k, n >> \in ReadsFrom(m, i, k)
  <2>1. k \in Nat BY DEF RunsInOrder
  <2> QED BY <1>1, <2>1 DEF ReadsFrom, ReadsOf
<1> QED BY <1>2, FiniteReads, FS_EmptySet

-----------------------------------------------------------------------------
(* The steps.                                                               *)

LEMMA FinishedRuns ==
  ASSUME NEW b, IsBuilder(b), b.completed
  PROVE  RunsInOrder(HidlModel(b))
<1> DEFINE m == HidlModel(b)
<1>1. m.operations = b.operations /\ m.operands = b.operands BY DEF HidlModel
<1> HIDE DEF m
<1>2. \A i : ReadsOf(m, i) = ReadsOf(b, i) BY <1>1 DEF ReadsOf
<1>3. RunsInOrder(m) BY <1>1, <1>2 DEF IsBuilder, RunsInOrder
<1> QED BY <1>3 DEF m

LEMMA ComputeKeepsHeap ==
  ASSUME HeapInv, compute
  PROVE  HeapInv'
<1> DEFINE m == HidlModel(builder)
<1>1. PICK request : Begin(m, request) BY DEF compute
<1>2. /\ builder.completed /\ builder' = builder /\ status = "idle" /\ status' = "running"
      /\ model' = m /\ mOperands' = initializeRunTimeInfo(m, request) /\ next' = 1
      /\ heap' = heap /\ leaked' = leaked
  BY <1>1 DEF compute, Begin
<1>3. RunsInOrder(m) BY <1>2, FinishedRuns DEF HeapInv
<1>4. /\ m.operands = builder.operands
      /\ m.inputIndexes = builder.inputIndexes /\ m.outputIndexes = builder.outputIndexes
  BY DEF HidlModel
<1> HIDE DEF m
<1>5. IsBuilder(builder) BY DEF HeapInv
<1>6. /\ IsArray(m.operands) /\ HasFields(m.operands)
      /\ m.inputIndexes \in Seq(Nat) /\ m.outputIndexes \in Seq(Nat)
      /\ IsListed(m.operands, m.inputIndexes, "MODEL_INPUT")
      /\ IsListed(m.operands, m.outputIndexes, "MODEL_OUTPUT")
      /\ Lists(m.operands, m.inputIndexes, "MODEL_INPUT")
      /\ Lists(m.operands, m.outputIndexes, "MODEL_OUTPUT")
  BY <1>2, <1>4, <1>5 DEF IsBuilder
<1>7. /\ AreInfos(mOperands') /\ DOMAIN mOperands' = DOMAIN m.operands
      /\ \A i \in DOMAIN mOperands' :
           /\ mOperands'[i].buffer # Heap
           /\ mOperands'[i].lifetime \in {m.operands[i].lifetime, "NO_VALUE"}
           /\ mOperands'[i].lifetime = "TEMPORARY_VARIABLE" =>
                mOperands'[i].uses = m.operands[i].consumers
  BY <1>2, <1>6, BeginInfos, Zenon
<1>8. heap' = Blocks(mOperands') + leaked' /\ heap' \in Int /\ leaked' \in Int
  <2>1. Blocks(mOperands') = 0 BY <1>7, NoBlocks
  <2>2. Blocks(mOperands) = 0 BY <1>2, NoBlocks DEF HeapInv
  <2> QED BY <1>2, <2>1, <2>2 DEF HeapInv
<1>9. ASSUME NEW i PROVE ReadsFrom(m, i, 1) = ReadsOf(m, i)
  <2>1. m.operations \in Seq(Range(m.operations)) BY <1>3 DEF RunsInOrder
  <2>2. Len(m.operations) \in Nat /\ DOMAIN m.operations = 1 .. Len(m.operations) BY <2>1
  <2>3. \A o \in DOMAIN m.operations : o >= 1 BY <2>2
  <2>4. \A u \in ReadsOf(m, i) : u[1] \in DOMAIN m.operations BY DEF ReadsOf
  <2> QED BY <2>3, <2>4 DEF ReadsFrom
<1>10. Running'
  <2>1. \A i \in DOMAIN mOperands' : mOperands'[i].lifetime = "TEMPORARY_VARIABLE" =>
          /\ mOperands'[i].uses \in Nat
          /\ mOperands'[i].uses >= Cardinality(ReadsFrom(model', i, next'))
    <3>1. \A i \in DOMAIN m.operands :
            m.operands[i].consumers \in Nat /\ m.operands[i].consumers >= Cardinality(ReadsOf(m, i))
      BY <1>3 DEF RunsInOrder
    <3> QED BY <1>2, <1>7, <1>9, <3>1
  <2>2. \A p \in DOMAIN model'.operations : ~ (p < next')
    <3>1. m.operations \in Seq(Range(m.operations)) BY <1>3 DEF RunsInOrder
    <3>2. Len(m.operations) \in Nat /\ DOMAIN m.operations = 1 .. Len(m.operations) BY <3>1
    <3> QED BY <1>2, <3>2
  <2> QED BY <1>2, <1>3, <1>7, <2>1, <2>2 DEF Running
<1> QED BY <1>2, <1>5, <1>7, <1>8, <1>10 DEF HeapInv

(* Whatever ends a run gives back every block but those that are leaked.       *)
LEMMA FinishKeepsHeap ==
  ASSUME HeapInv, builder' = builder, NEW infos, NEW blocks, NEW result,
         cpuFinish(infos, blocks, result), result # "running",
         AreInfos(infos), leaked' \in Int, blocks = Blocks(infos) + leaked'
  PROVE  HeapInv'
<1>1. mOperands' = Released(infos) /\ status' = result
      /\ heap' = blocks - Deleted(infos, Released(infos))
  BY DEF cpuFinish
<1>2. /\ AreInfos(mOperands') /\ \A i \in DOMAIN mOperands' : mOperands'[i].buffer # Heap
      /\ Blocks(mOperands') = 0 /\ Deleted(infos, Released(infos)) = Blocks(infos)
  BY <1>1, ReleasedInfos, Zenon
<1>3. heap' = leaked' BY <1>1, <1>2, BlocksType
<1> QED BY <1>1, <1>2, <1>3 DEF HeapInv

LEMMA RefusalKinds ==
  ASSUME NEW operation PROVE Refusal(operation) \in {"OP_FAILED", "BAD_DATA", "none"}
BY Zenon DEF Refusal

(* What the operation that is next may count on.                              *)
LEMMA RunningOuts ==
  ASSUME HeapInv, status = "running", NEW operation, RunningOperation(operation)
  PROVE  /\ operation.outs \in Seq(DOMAIN mOperands)
         /\ \A i \in Range(operation.outs) :
              mOperands[i].lifetime \in {"TEMPORARY_VARIABLE", "MODEL_OUTPUT", "NO_VALUE"}
<1> DEFINE C == {i \in DOMAIN model.operands : Computed(model.operands[i])}
           outs == operation.outs
<1>1. Running BY DEF HeapInv
<1>2. next \in DOMAIN model.operations /\ operation = model.operations[next]
  BY DEF RunningOperation
<1>3. outs \in Seq(C) BY <1>1, <1>2 DEF Running, RunsInOrder
<1>4. Len(outs) \in Nat /\ DOMAIN outs = 1 .. Len(outs) /\ \A n \in DOMAIN outs : outs[n] \in C
  <2> HIDE DEF C, outs
  <2> QED BY <1>3
<1>5. C \subseteq DOMAIN mOperands BY <1>1 DEF Running
<1>6. outs \in Seq(DOMAIN mOperands)
  <2> HIDE DEF C, outs
  <2> QED BY <1>3, <1>5
<1>7. ASSUME NEW i \in Range(outs)
      PROVE  mOperands[i].lifetime \in {"TEMPORARY_VARIABLE", "MODEL_OUTPUT", "NO_VALUE"}
  <2>1. i \in C BY <1>4 DEF Range
  <2>2. Computed(model.operands[i]) /\ i \in DOMAIN mOperands BY <1>5, <2>1
  <2>3. mOperands[i].lifetime \in {model.operands[i].lifetime, "NO_VALUE"}
    BY <1>1, <2>2 DEF Running
  <2> QED BY <2>2, <2>3 DEF Computed
<1> QED BY <1>6, <1>7

(* A kernel that succeeds: its outputs are written, and what it was the last to *)
(* read is freed.                                                           *)
LEMMA SuccessKeepsHeap ==
  ASSUME HeapInv, builder' = builder, NEW operation, RunningOperation(operation),
         NEW s, Leaves(s, operation.outs), s.result = "NO_ERROR",
         mOperands' = freeNoLongerUsedOperands(s.infos, operation.ins),
         heap' = s.heap - Deleted(s.infos, mOperands'), next' = next + 1,
         UNCHANGED << model, status, mOutputShapes, leaked >>
  PROVE  HeapInv'
<1> DEFINE used(i) == Cardinality({n \in DOMAIN operation.ins : operation.ins[n] = i})
<1>1. /\ status = "running" /\ next \in DOMAIN model.operations
      /\ operation = model.operations[next]
  BY DEF RunningOperation
<1>2. Running /\ RunsInOrder(model) BY <1>1 DEF HeapInv, Running
<1>3. /\ AreInfos(s.infos) /\ DOMAIN s.infos = DOMAIN mOperands
      /\ \A i \in DOMAIN mOperands :
           /\ s.infos[i].lifetime = mOperands[i].lifetime
           /\ s.infos[i].uses = mOperands[i].uses
           /\ i \notin Range(operation.outs) => s.infos[i] = mOperands[i]
           /\ i \in Range(operation.outs) => IsWritten(s.infos[i])
      /\ s.heap \in Int /\ s.heap = heap + Blocks(s.infos) - Blocks(mOperands)
  BY DEF Leaves
<1>4. /\ AreInfos(mOperands') /\ DOMAIN mOperands' = DOMAIN mOperands
      /\ \A i \in DOMAIN mOperands :
           /\ mOperands'[i].lifetime = mOperands[i].lifetime
           /\ mOperands'[i].uses = IF s.infos[i].uses # 0 /\ used(i) < s.infos[i].uses
                                   THEN s.infos[i].uses - used(i) ELSE 0
           /\ mOperands'[i].uses # 0 /\ IsWritten(s.infos[i]) => IsWritten(mOperands'[i])
      /\ Blocks(mOperands') = Blocks(s.infos) - Deleted(s.infos, mOperands')
  <2> DEFINE r == freeNoLongerUsedOperands(s.infos, operation.ins)
  <2>1. /\ AreInfos(r) /\ DOMAIN r = DOMAIN s.infos
        /\ \A i \in DOMAIN s.infos :
             /\ r[i].lifetime = s.infos[i].lifetime
             /\ r[i].uses = IF s.infos[i].uses # 0 /\ used(i) < s.infos[i].uses
                            THEN s.infos[i].uses - used(i) ELSE 0
             /\ r[i].uses # 0 /\ IsWritten(s.infos[i]) => IsWritten(r[i])
        /\ Blocks(r) = Blocks(s.infos) - Deleted(s.infos, r)
    BY <1>3, FreedInfos
  <2>2. mOperands' = r OBVIOUS
  <2> HIDE DEF used, r
  <2> QED BY <1>3, <2>1, <2>2
<1>5. heap' = Blocks(mOperands') + leaked' /\ heap' \in Int /\ leaked' \in Int
  <2>1. Deleted(s.infos, mOperands') \in Nat BY <1>3, FiniteInfos DEF Deleted
  <2> QED BY <1>3, <1>4, <2>1, BlocksType DEF HeapInv
<1>6. \A i \in DOMAIN mOperands :
        /\ used(i) \in Nat /\ Cardinality(ReadsFrom(model, i, next + 1)) \in Nat
        /\ Cardinality(ReadsFrom(model, i, next)) = used(i) + Cardinality(ReadsFrom(model, i, next + 1))
  BY <1>1, <1>2, OneOperationLess, FiniteReads
<1> HIDE DEF used
<1>7. ASSUME NEW i \in DOMAIN mOperands, mOperands'[i].lifetime = "TEMPORARY_VARIABLE"
      PROVE  /\ mOperands'[i].uses \in Nat
             /\ mOperands'[i].uses >= Cardinality(ReadsFrom(model, i, next + 1))
             /\ mOperands'[i].uses # 0 => mOperands[i].uses # 0
  <2>1. mOperands[i].lifetime = "TEMPORARY_VARIABLE" BY <1>4, <1>7
  <2>2. mOperands[i].uses \in Nat /\ mOperands[i].uses >= Cardinality(ReadsFrom(model, i, next))
    BY <1>2, <2>1 DEF Running
  <2>3. s.infos[i].uses = mOperands[i].uses BY <1>3
  <2>4. mOperands'[i].uses = IF mOperands[i].uses # 0 /\ used(i) < mOperands[i].uses
                             THEN mOperands[i].uses - used(i) ELSE 0
    BY <1>4, <2>3
  <2>5. used(i) \in Nat /\ Cardinality(ReadsFrom(model, i, next + 1)) \in Nat
        /\ mOperands[i].uses >= used(i) + Cardinality(ReadsFrom(model, i, next + 1))
    BY <1>6, <2>2
  <2> QED BY <2>2, <2>4, <2>5
<1>8. ASSUME NEW i \in DOMAIN mOperands, mOperands'[i].lifetime = "TEMPORARY_VARIABLE",
             NEW p \in DOMAIN model.operations, p < next + 1, i \in Range(model.operations[p].outs),
             mOperands'[i].uses # 0
      PROVE  IsWritten(mOperands'[i])
  <2>1. IsWritten(s.infos[i])
    <3>1. CASE i \in Range(operation.outs) BY <1>3, <3>1
    <3>2. CASE i \notin Range(operation.outs)
      <4>1. p # next BY <1>1, <1>8, <3>2
      <4>2. p \in Nat /\ next \in Nat
        <5>1. DOMAIN model.operations \subseteq Nat BY <1>2 DEF RunsInOrder
        <5> QED BY <1>1, <5>1
      <4>3. p < next BY <1>8, <4>1, <4>2
      <4>4. mOperands[i].lifetime = "TEMPORARY_VARIABLE" /\ mOperands[i].uses # 0
        BY <1>4, <1>7, <1>8
      <4>5. IsWritten(mOperands[i]) BY <1>2, <1>8, <4>3, <4>4 DEF Running
      <4> QED BY <1>3, <3>2, <4>5
    <3> QED BY <3>1, <3>2
  <2> QED BY <1>4, <1>8, <2>1
<1>9. Running'
  <2>1. next \in Nat \ {0} BY <1>2 DEF Running
  <2>2. next' \in Nat \ {0} BY <2>1
  <2>3. DOMAIN mOperands' = DOMAIN model.operands BY <1>2, <1>4 DEF Running
  <2>4. \A i \in DOMAIN mOperands : mOperands'[i].lifetime \in {model.operands[i].lifetime, "NO_VALUE"}
    BY <1>2, <1>4 DEF Running
  <2> QED BY <1>2, <1>4, <1>7, <1>8, <2>2, <2>3, <2>4 DEF Running
<1> QED BY <1>1, <1>4, <1>5, <1>9 DEF HeapInv

(* A kernel that fails: what it allocated and put nowhere is leaked.           *)
LEMMA FailureKeepsHeap ==
  ASSUME HeapInv, builder' = builder, NEW s, NEW outs, Leaves(s, outs), s.result # "NO_ERROR",
         cpuFinish(s.infos, s.heap, s.result),
         leaked' = leaked + (IF s.infos = mOperands THEN s.heap - heap ELSE 0)
  PROVE  HeapInv'
<1>1. /\ AreInfos(s.infos) /\ s.heap \in Int /\ s.result \in Results
      /\ \/ s.heap = heap + Blocks(s.infos) - Blocks(mOperands)
         \/ s.infos = mOperands
  BY DEF Leaves
<1>2. heap \in Int /\ leaked \in Int /\ heap = Blocks(mOperands) + leaked /\ AreInfos(mOperands)
  BY DEF HeapInv
<1>3. Blocks(mOperands) \in Nat /\ Blocks(s.infos) \in Nat BY <1>1, <1>2, BlocksType
<1>4. leaked' \in Int /\ s.heap = Blocks(s.infos) + leaked'
  <2>1. CASE s.infos = mOperands BY <1>1, <1>2, <1>3, <2>1
  <2>2. CASE s.infos # mOperands BY <1>1, <1>2, <1>3, <2>2
  <2> QED BY <2>1, <2>2
<1>5. s.result # "running" BY <1>1 DEF Results
<1> QED BY <1>1, <1>4, <1>5, FinishKeepsHeap

LEMMA HeapStep ==
  ASSUME HeapInv, [PathNext]_pathVars
  PROVE  HeapInv'
<1>1. CASE BuilderNext /\ UNCHANGED cpuVars
  <2>1. IsBuilder(builder)' BY <1>1, BuilderStep DEF HeapInv
  <2>2. /\ model' = model /\ mOperands' = mOperands /\ next' = next /\ status' = status
        /\ heap' = heap /\ leaked' = leaked
    BY <1>1 DEF cpuVars
  <2>3. status = "running" => Running' BY <2>2 DEF HeapInv, Running
  <2> QED BY <2>1, <2>2, <2>3 DEF HeapInv
<1>2. CASE compute BY <1>2, ComputeKeepsHeap
<1>3. CASE refuseOperation /\ UNCHANGED builder
  <2>1. PICK operation \in Range(model.operations) :
          Refusal(operation) # "none" /\ cpuFinish(mOperands, heap, Refusal(operation))
    BY <1>3 DEF refuseOperation
  <2>2. leaked' = leaked BY <1>3 DEF refuseOperation
  <2>3. Refusal(operation) # "running" BY RefusalKinds
  <2> QED BY <1>3, <2>1, <2>2, <2>3, FinishKeepsHeap DEF HeapInv
<1>4. CASE failPrepare /\ UNCHANGED builder
  <2>1. cpuFinish(mOperands, heap, "OP_FAILED") \/ cpuFinish(mOperands, heap, "BAD_DATA")
    BY <1>4 DEF failPrepare
  <2>2. leaked' = leaked BY <1>4 DEF failPrepare
  <2> QED BY <1>4, <2>1, <2>2, FinishKeepsHeap DEF HeapInv
<1>5. CASE executeOperation /\ UNCHANGED builder
  <2>1. PICK operation \in Range(model.operations) :
          /\ RunningOperation(operation) /\ Refusal(operation) = "none"
          /\ \E dims \in ComputedDims(Len(operation.outs)), evaluates \in BOOLEAN :
               \E s \in Outcomes(operation, dims, evaluates) :
                 IF s.result = "NO_ERROR"
                 THEN /\ mOperands' = freeNoLongerUsedOperands(s.infos, operation.ins)
                      /\ heap' = s.heap - Deleted(s.infos, mOperands')
                      /\ next' = next + 1
                      /\ UNCHANGED << model, status, mOutputShapes, leaked >>
                 ELSE /\ cpuFinish(s.infos, s.heap, s.result)
                      /\ leaked' = leaked + (IF s.infos = mOperands THEN s.heap - heap ELSE 0)
    BY <1>5 DEF executeOperation
  <2>2. PICK dims \in ComputedDims(Len(operation.outs)), evaluates \in BOOLEAN :
          \E s \in Outcomes(operation, dims, evaluates) :
            IF s.result = "NO_ERROR"
            THEN /\ mOperands' = freeNoLongerUsedOperands(s.infos, operation.ins)
                 /\ heap' = s.heap - Deleted(s.infos, mOperands')
                 /\ next' = next + 1
                 /\ UNCHANGED << model, status, mOutputShapes, leaked >>
            ELSE /\ cpuFinish(s.infos, s.heap, s.result)
                 /\ leaked' = leaked + (IF s.infos = mOperands THEN s.heap - heap ELSE 0)
    BY <2>1
  <2>3. PICK s \in Outcomes(operation, dims, evaluates) :
          IF s.result = "NO_ERROR"
          THEN /\ mOperands' = freeNoLongerUsedOperands(s.infos, operation.ins)
               /\ heap' = s.heap - Deleted(s.infos, mOperands')
               /\ next' = next + 1
               /\ UNCHANGED << model, status, mOutputShapes, leaked >>
          ELSE /\ cpuFinish(s.infos, s.heap, s.result)
               /\ leaked' = leaked + (IF s.infos = mOperands THEN s.heap - heap ELSE 0)
    BY <2>2
  <2>4. status = "running" BY <2>1 DEF RunningOperation
  <2>5. AreInfos(mOperands) /\ heap \in Int BY DEF HeapInv
  <2>6. Leaves(s, operation.outs) BY <2>1, <2>4, <2>5, RunningOuts, OutcomesLeave
  <2>7. CASE s.result = "NO_ERROR" BY <1>5, <2>1, <2>3, <2>6, <2>7, SuccessKeepsHeap
  <2>8. CASE s.result # "NO_ERROR" BY <1>5, <2>3, <2>6, <2>8, FailureKeepsHeap
  <2> QED BY <2>7, <2>8
<1>6. CASE completeRun /\ UNCHANGED builder
  <2>1. cpuFinish(mOperands, heap, "NO_ERROR") /\ leaked' = leaked BY <1>6 DEF completeRun
  <2> QED BY <1>6, <2>1, FinishKeepsHeap DEF HeapInv
<1>7. CASE UNCHANGED pathVars
  <2>1. /\ builder' = builder /\ model' = model /\ mOperands' = mOperands /\ next' = next
        /\ status' = status /\ heap' = heap /\ leaked' = leaked
    BY <1>7 DEF pathVars, cpuVars
  <2>2. status = "running" => Running' BY <2>1 DEF HeapInv, Running
  <2> QED BY <2>1, <2>2 DEF HeapInv
<1> QED BY <1>1, <1>2, <1>3, <1>4, <1>5, <1>6, <1>7 DEF PathNext, CpuNext

LEMMA HeapAlways == PathSpec => []HeapInv
<1>1. builder = Empty /\ CpuInit => HeapInv BY InitHeap
<1>2. HeapInv /\ [PathNext]_pathVars => HeapInv' BY HeapStep
<1> QED BY <1>1, <1>2, PTL DEF PathSpec

(* However the calls are made that build a model, in whatever order it names    *)
(* its operations: what finish accepts it leaves in an order in which every    *)
(* operation follows those that write what it reads, and no operand is read    *)
(* more often than its count of consumers says.                              *)
THEOREM RunOrder == PathSpec => []InRunOrder
<1>1. HeapInv => InRunOrder BY FinishedRuns DEF HeapInv, InRunOrder
<1> QED BY <1>1, HeapAlways, PTL

(* For every model that finish accepts, and whatever its kernels do: each block *)
(* CpuExecutor allocates belongs to one operand, a run that ends has deleted   *)
(* them all, and what it deletes is a block of the run's own; the output_tmp of *)
(* a failed NHWC kernel is the only exception.                               *)
THEOREM HeapOwned == PathSpec => []HeapIsOwned
<1>1. HeapInv => HeapIsOwned
  <2> SUFFICES ASSUME HeapInv PROVE HeapIsOwned OBVIOUS
  <2>1. heap = Blocks(mOperands) + leaked /\ leaked \in Int BY DEF HeapInv
  <2>2. Ended => Blocks(mOperands) = 0 BY NoBlocks DEF HeapInv, Ended
  <2> QED BY <2>1, <2>2 DEF HeapIsOwned
<1> QED BY <1>1, HeapAlways, PTL

(* The counts of consumers that addOperation left in the model, taken down by   *)
(* freeNoLongerUsedOperands, never reach zero early: what the next operation    *)
(* reads of the temporaries is written, and not freed yet.                     *)
THEOREM ReadsAlive == PathSpec => []ReadsLiveBuffers
<1>1. HeapInv => ReadsLiveBuffers
  <2> SUFFICES ASSUME HeapInv, status = "running", next \in DOMAIN model.operations,
                      NEW i \in Range(model.operations[next].ins), mOperands[i].buffer = Null
               PROVE  Omitted(i) \/ ~ SizeOfInfo(mOperands[i]) > 0
    BY DEF ReadsLiveBuffers
  <2>1. Running /\ RunsInOrder(model) BY DEF HeapInv, Running
  <2>2. /\ i \in DOMAIN model.operands
        /\ Computed(model.operands[i]) =>
             \E p \in 1 .. next - 1 : i \in Range(model.operations[p].outs)
    <3>1. model.operations[next].ins \in Seq(DOMAIN model.operands)
      BY <2>1 DEF RunsInOrder
    <3>2. i \in DOMAIN model.operands BY <3>1 DEF Range
    <3> QED BY <2>1, <3>2 DEF RunsInOrder
  <2>3. i \in DOMAIN mOperands /\ IsInfo(mOperands[i])
    BY <2>1, <2>2 DEF HeapInv, AreInfos, Running
  <2>4. CASE mOperands[i].lifetime # "TEMPORARY_VARIABLE"
    <3>1. mOperands[i].lifetime = "NO_VALUE" BY <2>3, <2>4 DEF IsInfo
    <3> QED BY <3>1 DEF Omitted
  <2>5. CASE mOperands[i].lifetime = "TEMPORARY_VARIABLE"
    <3>1. model.operands[i].lifetime = "TEMPORARY_VARIABLE" BY <2>1, <2>3, <2>5 DEF Running
    <3>2. PICK p \in 1 .. next - 1 : i \in Range(model.operations[p].outs)
      BY <2>2, <3>1 DEF Computed
    <3>3. p \in DOMAIN model.operations /\ p < next
      <4>1. model.operations \in Seq(Range(model.operations)) BY <2>1 DEF RunsInOrder
      <4>2. /\ Len(model.operations) \in Nat
            /\ DOMAIN model.operations = 1 .. Len(model.operations)
        BY <4>1
      <4> QED BY <3>2, <4>2
    <3>4. mOperands[i].uses # 0
      <4>1. /\ mOperands[i].uses \in Nat
            /\ mOperands[i].uses >= Cardinality(ReadsFrom(model, i, next))
        BY <2>1, <2>3, <2>5 DEF Running
      <4>2. /\ Cardinality(ReadsFrom(model, i, next)) \in Nat
            /\ Cardinality(ReadsFrom(model, i, next)) # 0
        BY <2>1, FiniteReads, ReadIsUsed
      <4> QED BY <4>1, <4>2
    <3>5. IsWritten(mOperands[i]) BY <2>1, <2>3, <2>5, <3>2, <3>3, <3>4 DEF Running
    <3> QED BY <2>5, <3>5 DEF IsWritten
  <2> QED BY <2>4, <2>5
<1> QED BY <1>1, HeapAlways, PTL

-----------------------------------------------------------------------------
(* Sizes.                                                                   *)

LEMMA SizeTimesType ==
  ASSUME NEW size \in Nat, NEW dims \in Seq(Nat)
  PROVE  SizeTimes(size, dims) \in Nat
<1> DEFINE N == Len(dims)
           step == [k \in 1 .. N |-> [s \in Nat |-> (s * dims[k]) % Word]]
           Is(f) == f = [k \in 0 .. N |-> IF k = 0 THEN size ELSE (f[k - 1] * dims[k]) % Word]
           product == CHOOSE f : Is(f)
<1>1. SizeTimes(size, dims) = product[N] BY DEF SizeTimes
<1>2. N \in Nat /\ \A k \in 1 .. N : dims[k] \in Nat OBVIOUS
<1> HIDE DEF N
<1>3. \A k \in 1 .. N : \A s \in Nat : (s * dims[k]) % Word \in Nat
  <2> SUFFICES ASSUME NEW k \in 1 .. N, NEW s \in Nat PROVE (s * dims[k]) % Word \in Nat OBVIOUS
  <2>1. s * dims[k] \in Nat BY <1>2
  <2> QED BY <2>1, WordAssumption
<1>4. PICK h : IsHistory(h, N, Nat, size, step)
  <2>1. step \in [1 .. N -> [Nat -> Nat]] BY <1>3
  <2> HIDE DEF step
  <2> QED BY <1>2, <2>1, RoundByRound
<1>5. /\ h \in [0 .. N -> Nat] /\ h[0] = size
      /\ \A k \in 1 .. N : h[k] = step[k][h[k - 1]]
  BY <1>4 DEF IsHistory
<1>6. \A k \in 1 .. N : h[k] = (h[k - 1] * dims[k]) % Word
  <2> SUFFICES ASSUME NEW k \in 1 .. N PROVE h[k] = (h[k - 1] * dims[k]) % Word OBVIOUS
  <2>1. k - 1 \in 0 .. N BY <1>2
  <2>2. h[k - 1] \in Nat /\ h[k] = step[k][h[k - 1]] BY <1>5, <2>1
  <2> QED BY <2>2
<1> HIDE DEF step
<1>7. Is(h)
  <2>1. \A k \in 0 .. N : h[k] = IF k = 0 THEN size ELSE (h[k - 1] * dims[k]) % Word
    <3> SUFFICES ASSUME NEW k \in 0 .. N
                 PROVE  h[k] = IF k = 0 THEN size ELSE (h[k - 1] * dims[k]) % Word
      OBVIOUS
    <3>1. CASE k = 0 BY <3>1, <1>5
    <3>2. CASE k # 0
      <4>1. k \in 1 .. N BY <1>2, <3>2
      <4> QED BY <1>6, <3>2, <4>1
    <3> QED BY <3>1, <3>2
  <2> QED BY <1>5, <2>1
<1>8. Is(product)
  <2> HIDE DEF Is
  <2> QED BY <1>7
<1> HIDE DEF product
<1>9. \A k \in 0 .. N : product[k] = IF k = 0 THEN size ELSE (product[k - 1] * dims[k]) % Word
  BY <1>8, Zenon
<1> DEFINE P == {k \in 0 .. N : product[k] \in Nat}
<1>10. 0 \in P
  <2>1. 0 \in 0 .. N BY <1>2
  <2> QED BY <1>9, <2>1
<1>11. ASSUME NEW k \in 1 .. N, k - 1 \in P PROVE k \in P
  <2>1. k \in 0 .. N /\ k # 0 BY <1>2
  <2>2. product[k] = (product[k - 1] * dims[k]) % Word BY <1>9, <2>1
  <2> QED BY <1>3, <1>11, <2>1, <2>2
<1>12. N \in P
  <2> HIDE DEF P
  <2>1. 0 .. N \subseteq P BY <1>2, <1>10, <1>11, UpTo
  <2> QED BY <1>2, <2>1
<1> QED BY <1>1, <1>12

(* The types an application can declare.                                      *)
Types == Range(AllTypes) \cup ExtensionTypes

LEMMA IsSequence ==
  ASSUME NEW n \in Nat, NEW s, s = [k \in 1 .. n |-> s[k]], NEW S, {s[k] : k \in 1 .. n} \subseteq S
  PROVE  s \in Seq(S) /\ Len(s) = n
OBVIOUS

LEMMA ConcatLength ==
  ASSUME NEW S, NEW s \in Seq(S), NEW t \in Seq(S), NEW m \in Nat, NEW n \in Nat, Len(s) = m, Len(t) = n
  PROVE  s \o t \in Seq(S) /\ Len(s \o t) = m + n /\ DOMAIN (s \o t) = 1 .. m + n
OBVIOUS

(* Both tables have an entry for every type.                                  *)
LEMMA TableSize ==
  ASSUME NEW type \in Range(AllTypes)
  PROVE  TableLookup(kSizeOfDataType, kSizeOfDataTypeOEM, type) \in Nat
<1> DEFINE m == 14
           n == 2
           table == kSizeOfDataType \o kSizeOfDataTypeOEM
           S == {DataTypes[k] : k \in 1 .. m} \cup {OEMTypes[k] : k \in 1 .. n}
           I == {k \in 1 .. Len(AllTypes) : AllTypes[k] = type}
<1>1. DataTypes \in Seq(S) /\ Len(DataTypes) = m
  <2>1. DataTypes = [k \in 1 .. m |-> DataTypes[k]] BY DEF DataTypes
  <2> QED BY <2>1, IsSequence
<1>2. OEMTypes \in Seq(S) /\ Len(OEMTypes) = n
  <2>1. OEMTypes = [k \in 1 .. n |-> OEMTypes[k]] BY DEF OEMTypes
  <2> QED BY <2>1, IsSequence
<1>3. kSizeOfDataType \in Seq(Nat) /\ Len(kSizeOfDataType) = m BY DEF kSizeOfDataType
<1>4. kSizeOfDataTypeOEM \in Seq(Nat) /\ Len(kSizeOfDataTypeOEM) = n BY DEF kSizeOfDataTypeOEM
<1>5. m \in Nat /\ n \in Nat OBVIOUS
<1> HIDE DEF S, m, n
<1>6. Len(AllTypes) = m + n /\ DOMAIN AllTypes = 1 .. m + n
  BY <1>1, <1>2, <1>5, ConcatLength DEF AllTypes
<1>7. table \in Seq(Nat) /\ Len(table) = m + n BY <1>3, <1>4, <1>5, ConcatLength
<1>8. I \in SUBSET Nat /\ I # {} /\ I \subseteq 1 .. m + n
  <2>1. PICK k \in 1 .. m + n : AllTypes[k] = type BY <1>6 DEF Range
  <2> QED BY <1>5, <1>6, <2>1
<1>9. Code(type) = Min(I) BY <1>8 DEF Code, SelectInSeq
<1> HIDE DEF table, I
<1>10. Code(type) \in 1 .. m + n BY <1>8, <1>9, LeastIsMin
<1>11. \A c \in 1 .. m + n : table[c] \in Nat BY <1>5, <1>7
<1>12. table[Code(type)] \in Nat BY <1>10, <1>11
<1> QED BY <1>12 DEF TableLookup, table

(* Of what the type and the dimensions are.                                   *)
LEMMA SizeIs ==
  ASSUME NEW op, NEW other, op.type = other.type, op.dims = other.dims
  PROVE  SizeOf(op) = SizeOf(other)
BY DEF SizeOf

LEMMA SizeType ==
  ASSUME NEW op, op.type \in Types, op.dims \in Seq(Nat)
  PROVE  SizeOf(op) \in Nat
<1>1. CASE isExtension(op.type) BY <1>1, SizeTimesType DEF SizeOf
<1>2. CASE ~ isExtension(op.type)
  <2> DEFINE size == TableLookup(kSizeOfDataType, kSizeOfDataTypeOEM, op.type)
  <2>1. size \in Nat BY <1>2, TableSize DEF Types, isExtension
  <2>2. SizeOfData(op.type, op.dims) \in {0, size, SizeTimes(size, op.dims)}
    BY Zenon DEF SizeOfData
  <2>3. SizeTimes(size, op.dims) \in Nat BY <2>1, SizeTimesType
  <2> HIDE DEF size
  <2> QED BY <1>2, <2>1, <2>2, <2>3 DEF SizeOf
<1> QED BY <1>1, <1>2

-----------------------------------------------------------------------------
(* Values in the memory.                                                    *)

(* A byte of a value, as Bytes names it: whose it is, and which.                *)
Byte == Int \X Int

(* The value is in the bytes, from the offset on.                             *)
IsAt(bytes, offset, value) ==
  /\ offset \in Nat /\ offset + Len(value) <= Len(bytes)
  /\ \A k \in 1 .. Len(value) : bytes[offset + k] = value[k]

LEMMA ReadBack ==
  ASSUME NEW bytes \in Seq(Byte), NEW value \in Seq(Byte), NEW offset, IsAt(bytes, offset, value)
  PROVE  SubSeq(bytes, offset + 1, offset + Len(value)) = value
<1> DEFINE n == Len(value)
           read == SubSeq(bytes, offset + 1, offset + n)
<1>1. n \in Nat /\ offset \in Nat /\ offset + n <= Len(bytes) /\ Len(bytes) \in Nat
      /\ \A k \in 1 .. n : bytes[offset + k] = value[k]
  BY DEF IsAt
<1>2. read = [k \in 1 .. n |-> bytes[offset + k]]
  <2>1. \A k \in offset + 1 .. offset + n : bytes[k] \in Byte BY <1>1
  <2>2. /\ read \in Seq(Byte) /\ Len(read) = IF offset + 1 <= offset + n THEN offset + n - (offset + 1) + 1 ELSE 0
        /\ \A k \in 1 .. offset + n - (offset + 1) + 1 : read[k] = bytes[offset + 1 + k - 1]
    BY <1>1, <2>1, SubSeqProperties
  <2> HIDE DEF n, read
  <2>3. read \in Seq(Byte) /\ Len(read) = n BY <1>1, <2>2
  <2>4. \A k \in 1 .. n : read[k] = bytes[offset + k]
    <3> SUFFICES ASSUME NEW k \in 1 .. n PROVE read[k] = bytes[offset + k] OBVIOUS
    <3>1. k \in 1 .. offset + n - (offset + 1) + 1 /\ offset + 1 + k - 1 = offset + k BY <1>1
    <3> QED BY <2>2, <3>1
  <2> QED BY <2>3, <2>4
<1>3. value = [k \in 1 .. n |-> value[k]] OBVIOUS
<1> HIDE DEF n, read
<1>4. read = value BY <1>1, <1>2, <1>3
<1> QED BY <1>4 DEF read, n

LEMMA WrittenAt ==
  ASSUME NEW bytes \in Seq(Byte), NEW offset \in Nat, NEW length \in Nat, offset + length <= Len(bytes)
  PROVE  LET value == SubSeq(bytes, offset + 1, offset + length)
         IN value \in Seq(Byte) /\ Len(value) = length /\ IsAt(bytes, offset, value)
<1> DEFINE value == SubSeq(bytes, offset + 1, offset + length)
<1>1. \A k \in offset + 1 .. offset + length : bytes[k] \in Byte OBVIOUS
<1>2. /\ value \in Seq(Byte)
      /\ Len(value) = IF offset + 1 <= offset + length THEN offset + length - (offset + 1) + 1 ELSE 0
      /\ \A k \in 1 .. offset + length - (offset + 1) + 1 : value[k] = bytes[offset + 1 + k - 1]
  BY <1>1, SubSeqProperties
<1> HIDE DEF value
<1>3. Len(value) = length BY <1>2
<1>4. ASSUME NEW k \in 1 .. length PROVE bytes[offset + k] = value[k]
  <2>1. k \in 1 .. offset + length - (offset + 1) + 1 /\ offset + 1 + k - 1 = offset + k OBVIOUS
  <2> QED BY <1>2, <2>1
<1>5. IsAt(bytes, offset, value) BY <1>3, <1>4 DEF IsAt
<1> QED BY <1>2, <1>3, <1>5 DEF value

(* Whatever is written behind it leaves it there.                              *)
LEMMA StaysAt ==
  ASSUME NEW bytes \in Seq(Byte), NEW more \in Seq(Byte), NEW value \in Seq(Byte), NEW offset,
         IsAt(bytes, offset, value)
  PROVE  IsAt(bytes \o more, offset, value)
<1> DEFINE longer == bytes \o more
<1>1. /\ Len(longer) = Len(bytes) + Len(more)
      /\ \A k \in 1 .. Len(bytes) + Len(more) :
           longer[k] = IF k <= Len(bytes) THEN bytes[k] ELSE more[k - Len(bytes)]
  BY ConcatProperties
<1>2. /\ Len(bytes) \in Nat /\ Len(more) \in Nat /\ Len(value) \in Nat
      /\ offset \in Nat /\ offset + Len(value) <= Len(bytes)
      /\ \A k \in 1 .. Len(value) : bytes[offset + k] = value[k]
  BY DEF IsAt
<1> HIDE DEF longer
<1>3. ASSUME NEW k \in 1 .. Len(value) PROVE longer[offset + k] = value[k]
  <2>1. offset + k \in 1 .. Len(bytes) + Len(more) /\ offset + k <= Len(bytes) BY <1>2
  <2> QED BY <1>1, <1>2, <2>1
<1>4. IsAt(longer, offset, value) BY <1>1, <1>2, <1>3 DEF IsAt
<1> QED BY <1>4 DEF longer

LEMMA PaddingType ==
  ASSUME NEW index \in Nat, NEW length \in Nat
  PROVE  AlignBytesNeeded(index, length) \in Nat
<1>1. (- index) % 1 \in Nat /\ (- index) % 2 \in Nat /\ (- index) % 4 \in Nat OBVIOUS
<1>2. AlignBytesNeeded(index, length) \in {(- index) % 1, (- index) % 2, (- index) % 4}
  <2>1. CASE length < 2 BY <2>1 DEF AlignBytesNeeded
  <2>2. CASE length \in 2 .. 3 BY <2>2 DEF AlignBytesNeeded
  <2>3. CASE ~ (length < 2) /\ length \notin 2 .. 3 BY <2>3 DEF AlignBytesNeeded
  <2> QED BY <2>1, <2>2, <2>3
<1> QED BY <1>1, <1>2

(* A value is written behind what is there, at an aligned offset.              *)
LEMMA WrittenBehind ==
  ASSUME NEW bytes \in Seq(Byte), NEW value \in Seq(Byte)
  PROVE  LET padding == AlignBytesNeeded(Len(bytes), Len(value))
             longer == bytes \o Repeat(Padding, padding) \o value
         IN /\ IsAt(longer, Len(bytes) + padding, value) /\ padding \in Nat
            /\ longer \in Seq(Byte)
            /\ \A offset \in Nat, other \in Seq(Byte) : IsAt(bytes, offset, other) => IsAt(longer, offset, other)
<1> DEFINE padding == AlignBytesNeeded(Len(bytes), Len(value))
           pad == Repeat(Padding, padding)
           padded == bytes \o pad
           longer == padded \o value
<1>1. Len(bytes) \in Nat /\ Len(value) \in Nat OBVIOUS
<1>2. padding \in Nat BY <1>1, PaddingType
<1> HIDE DEF padding
<1>3. pad \in Seq(Byte) /\ Len(pad) = padding
  <2>1. Padding \in Byte BY DEF Padding, Byte
  <2> QED BY <1>2, <2>1 DEF Repeat
<1> HIDE DEF pad
<1>4. padded \in Seq(Byte) /\ Len(padded) = Len(bytes) + padding BY <1>1, <1>2, <1>3, ConcatLength
<1>5. ASSUME NEW offset, NEW other \in Seq(Byte), IsAt(bytes, offset, other)
      PROVE  IsAt(padded, offset, other)
  BY <1>3, <1>5, StaysAt
<1> HIDE DEF padded
<1>6. /\ longer \in Seq(Byte) /\ Len(longer) = Len(padded) + Len(value)
      /\ \A k \in 1 .. Len(padded) + Len(value) :
           longer[k] = IF k <= Len(padded) THEN padded[k] ELSE value[k - Len(padded)]
  BY <1>4, ConcatProperties
<1>7. ASSUME NEW offset, NEW other \in Seq(Byte), IsAt(bytes, offset, other)
      PROVE  IsAt(longer, offset, other)
  BY <1>4, <1>5, <1>7, StaysAt
<1> HIDE DEF longer
<1>8. ASSUME NEW k \in 1 .. Len(value) PROVE longer[Len(bytes) + padding + k] = value[k]
  <2> DEFINE j == Len(bytes) + padding + k
  <2>1. j \in 1 .. Len(padded) + Len(value) /\ ~ (j <= Len(padded)) /\ j - Len(padded) = k
    BY <1>1, <1>2, <1>4
  <2> HIDE DEF j
  <2>2. longer[j] = value[k] BY <1>6, <2>1
  <2> QED BY <2>2 DEF j
<1>9. IsAt(longer, Len(bytes) + padding, value)
  <2>1. Len(bytes) + padding \in Nat /\ Len(bytes) + padding + Len(value) <= Len(longer)
    BY <1>1, <1>2, <1>4, <1>6
  <2> QED BY <1>8, <2>1 DEF IsAt
<1> QED BY <1>2, <1>6, <1>7, <1>9 DEF padding, pad, padded, longer

LEMMA BytesType ==
  ASSUME NEW value \in Int, NEW n \in Nat
  PROVE  Bytes(value, n) \in Seq(Byte) /\ Len(Bytes(value, n)) = n
<1>1. \A k \in 1 .. n : << value, k >> \in Byte BY DEF Byte
<1> QED BY <1>1 DEF Bytes

-----------------------------------------------------------------------------
(* The shared memory that finish makes.                                      *)

(* The values finish still has to copy, and the memory it copies them to.       *)
LargeValue == [index : Nat, buffer : Seq(Byte)]
Memory == [offsets : Seq(Nat), bytes : Seq(Byte)]

(* The first n of the values are in it.                                       *)
Holds(memory, values, n) ==
  /\ Len(memory.offsets) = n
  /\ \A k \in 1 .. n : IsAt(memory.bytes, memory.offsets[k], values[k])

LEMMA PlaceType ==
  ASSUME NEW s \in Memory, NEW value \in Seq(Byte)
  PROVE  LET p == PlaceBehind(s, value)
         IN /\ p \in Memory /\ Len(p.offsets) = Len(s.offsets) + 1
            /\ \A k \in 1 .. Len(s.offsets) : p.offsets[k] = s.offsets[k]
            /\ IsAt(p.bytes, p.offsets[Len(s.offsets) + 1], value)
            /\ \A offset \in Nat, other \in Seq(Byte) :
                 IsAt(s.bytes, offset, other) => IsAt(p.bytes, offset, other)
<1> DEFINE padding == AlignBytesNeeded(Len(s.bytes), Len(value))
           longer == s.bytes \o Repeat(Padding, padding) \o value
           offsets == Append(s.offsets, Len(s.bytes) + padding)
           p == PlaceBehind(s, value)
<1>1. s.bytes \in Seq(Byte) /\ s.offsets \in Seq(Nat) BY DEF Memory
<1>2. /\ IsAt(longer, Len(s.bytes) + padding, value) /\ padding \in Nat
      /\ longer \in Seq(Byte)
      /\ \A offset \in Nat, other \in Seq(Byte) : IsAt(s.bytes, offset, other) => IsAt(longer, offset, other)
  BY <1>1, WrittenBehind
<1>3. p.offsets = offsets /\ p.bytes = longer /\ p = [offsets |-> offsets, bytes |-> longer]
  BY DEF PlaceBehind
<1> HIDE DEF padding, longer, p
<1>4. /\ offsets \in Seq(Nat) /\ Len(offsets) = Len(s.offsets) + 1
      /\ offsets[Len(s.offsets) + 1] = Len(s.bytes) + padding
      /\ \A k \in 1 .. Len(s.offsets) : offsets[k] = s.offsets[k]
  <2>1. Len(s.bytes) + padding \in Nat BY <1>1, <1>2
  <2> QED BY <1>1, <2>1, AppendProperties
<1> HIDE DEF offsets
<1>5. p \in Memory BY <1>2, <1>3, <1>4 DEF Memory
<1> QED BY <1>2, <1>3, <1>4, <1>5 DEF p

LEMMA PlaceHolds ==
  ASSUME NEW values \in Seq(Seq(Byte)), NEW n \in 1 .. Len(values), NEW s \in Memory,
         Holds(s, values, n - 1)
  PROVE  Holds(PlaceBehind(s, values[n]), values, n)
<1> DEFINE value == values[n]
           p == PlaceBehind(s, value)
<1>1. \A k \in 1 .. Len(values) : values[k] \in Seq(Byte) OBVIOUS
<1>2. n \in Nat /\ n <= Len(values) /\ Len(values) \in Nat OBVIOUS
<1>3. Len(s.offsets) = n - 1 /\ \A k \in 1 .. n - 1 : IsAt(s.bytes, s.offsets[k], values[k])
  BY DEF Holds
<1>4. value \in Seq(Byte) BY <1>1
<1> HIDE DEF value
<1>5. /\ Len(p.offsets) = Len(s.offsets) + 1
      /\ \A k \in 1 .. Len(s.offsets) : p.offsets[k] = s.offsets[k]
      /\ IsAt(p.bytes, p.offsets[Len(s.offsets) + 1], value)
      /\ \A offset \in Nat, other \in Seq(Byte) :
           IsAt(s.bytes, offset, other) => IsAt(p.bytes, offset, other)
  BY <1>4, PlaceType, Zenon
<1> HIDE DEF p
<1>6. n - 1 + 1 = n BY <1>2
<1>7. Len(p.offsets) = n BY <1>3, <1>5, <1>6
<1>8. ASSUME NEW k \in 1 .. n PROVE IsAt(p.bytes, p.offsets[k], values[k])
  <2>1. CASE k = n BY <1>3, <1>5, <1>6, <2>1 DEF value
  <2>2. CASE k # n
    <3>1. k \in 1 .. n - 1 /\ k \in 1 .. Len(values) BY <1>2, <2>2
    <3>2. values[k] \in Seq(Byte) /\ IsAt(s.bytes, s.offsets[k], values[k])
          /\ s.offsets[k] \in Nat
          /\ p.offsets[k] = s.offsets[k]
      BY <1>1, <1>3, <1>5, <3>1 DEF IsAt
    <3> QED BY <1>5, <3>2
  <2> QED BY <2>1, <2>2
<1>9. Holds(p, values, n) BY <1>7, <1>8 DEF Holds
<1> QED BY <1>9 DEF p, value

(* What is copied of a value is a sequence, and the value where the lengths agree. *)
LEMMA LargeBytesType ==
  ASSUME NEW b, NEW n, b.large[n].buffer \in Seq(Byte),
         b.operands[b.large[n].index].location.length \in Nat
  PROVE  /\ LargeBytes(b, n) \in Seq(Byte)
         /\ b.operands[b.large[n].index].location.length = Len(b.large[n].buffer)
              => LargeBytes(b, n) = b.large[n].buffer
<1> DEFINE buffer == b.large[n].buffer
           length == b.operands[b.large[n].index].location.length
           copied == [k \in 1 .. length |-> IF k <= Len(buffer) THEN buffer[k] ELSE Padding]
<1>1. LargeBytes(b, n) = copied BY DEF LargeBytes
<1>2. buffer \in Seq(Byte) /\ length \in Nat OBVIOUS
<1> HIDE DEF buffer, length
<1>3. Padding \in Byte BY DEF Padding, Byte
<1>4. \A k \in 1 .. length : k <= Len(buffer) => buffer[k] \in Byte BY <1>2
<1>5. copied \in Seq(Byte)
  <2>1. \A k \in 1 .. length : copied[k] \in Byte BY <1>3, <1>4
  <2> QED BY <1>2, <2>1
<1>6. ASSUME length = Len(buffer) PROVE copied = buffer
  <2>1. DOMAIN copied = DOMAIN buffer BY <1>2, <1>6
  <2>2. \A k \in 1 .. length : copied[k] = buffer[k] BY <1>2, <1>6
  <2> QED BY <1>2, <1>5, <1>6, <2>2
<1> QED BY <1>1, <1>5, <1>6 DEF buffer, length

LEMMA MemoryHolds ==
  ASSUME NEW b, b.large \in Seq(LargeValue),
         \A n \in DOMAIN b.large : b.operands[b.large[n].index].location.length \in Nat
  PROVE  SharedMemory(b) \in Memory
         /\ Holds(SharedMemory(b), [n \in 1 .. Len(b.large) |-> LargeBytes(b, n)], Len(b.large))
<1> DEFINE N == Len(b.large)
           values == [n \in 1 .. N |-> LargeBytes(b, n)]
           start == [offsets |-> <<>>, bytes |-> <<>>]
           step == [n \in 1 .. N |-> [s \in Memory |-> PlaceBehind(s, values[n])]]
           IsPlace(f) == f = [n \in 0 .. N |-> IF n = 0 THEN start ELSE PlaceBehind(f[n - 1], LargeBytes(b, n))]
           place == CHOOSE f : IsPlace(f)
<1>1. SharedMemory(b) = place[N] BY DEF SharedMemory
<1>2. N \in Nat OBVIOUS
<1>3. \A n \in 1 .. N : values[n] \in Seq(Byte)
  <2> SUFFICES ASSUME NEW n \in 1 .. N PROVE values[n] \in Seq(Byte) OBVIOUS
  <2>1. n \in DOMAIN b.large /\ b.large[n] \in LargeValue OBVIOUS
  <2>2. b.large[n].buffer \in Seq(Byte) BY <2>1 DEF LargeValue
  <2>3. b.operands[b.large[n].index].location.length \in Nat BY <2>1
  <2>4. LargeBytes(b, n) \in Seq(Byte) BY <2>2, <2>3, LargeBytesType
  <2> QED BY <2>4
<1>16. \A n \in 1 .. N : values[n] = LargeBytes(b, n) OBVIOUS
<1>15. DOMAIN values = 1 .. N /\ values = [n \in 1 .. N |-> values[n]] OBVIOUS
<1> HIDE DEF N, values
<1>17. values \in Seq(Seq(Byte)) /\ Len(values) = N
  <2>1. values \in [1 .. N -> Seq(Byte)] BY <1>3, <1>15
  <2> DEFINE S == Seq(Byte)
  <2>2. values \in [1 .. N -> S] BY <2>1
  <2> HIDE DEF S
  <2>3. values \in Seq(S) /\ Len(values) = N BY <1>2, <2>2
  <2> QED BY <2>3 DEF S
<1>4. start \in Memory /\ start.offsets = <<>>
  <2>1. <<>> \in Seq(Nat) /\ <<>> \in Seq(Byte) OBVIOUS
  <2> QED BY <2>1 DEF Memory
<1> HIDE DEF start
<1>5. \A n \in 1 .. N : \A s \in Memory : PlaceBehind(s, values[n]) \in Memory
  <2> SUFFICES ASSUME NEW n \in 1 .. N, NEW s \in Memory PROVE PlaceBehind(s, values[n]) \in Memory
    OBVIOUS
  <2> DEFINE value == values[n]
  <2>1. value \in Seq(Byte) BY <1>3
  <2> HIDE DEF value
  <2>2. PlaceBehind(s, value) \in Memory BY <2>1, PlaceType, Zenon
  <2> QED BY <2>2 DEF value
<1>6. PICK h : IsHistory(h, N, Memory, start, step)
  <2>1. step \in [1 .. N -> [Memory -> Memory]] BY <1>5
  <2> HIDE DEF step
  <2> QED BY <1>2, <1>4, <2>1, RoundByRound
<1>7. /\ h \in [0 .. N -> Memory] /\ h[0] = start
      /\ \A n \in 1 .. N : h[n] = step[n][h[n - 1]]
  BY <1>6 DEF IsHistory
<1>8. \A n \in 1 .. N : h[n] = PlaceBehind(h[n - 1], values[n])
  <2> SUFFICES ASSUME NEW n \in 1 .. N PROVE h[n] = PlaceBehind(h[n - 1], values[n]) OBVIOUS
  <2>1. n - 1 \in 0 .. N BY <1>2
  <2>2. h[n - 1] \in Memory /\ h[n] = step[n][h[n - 1]] BY <1>7, <2>1
  <2> QED BY <2>2
<1> HIDE DEF step
<1>9. IsPlace(h)
  <2>1. \A n \in 0 .. N : h[n] = IF n = 0 THEN start ELSE PlaceBehind(h[n - 1], LargeBytes(b, n))
    <3> SUFFICES ASSUME NEW n \in 0 .. N
                 PROVE  h[n] = IF n = 0 THEN start ELSE PlaceBehind(h[n - 1], LargeBytes(b, n))
      OBVIOUS
    <3>1. CASE n = 0 BY <3>1, <1>7
    <3>2. CASE n # 0
      <4>1. n \in 1 .. N BY <1>2, <3>2
      <4> QED BY <1>8, <1>16, <3>2, <4>1
    <3> QED BY <3>1, <3>2
  <2> QED BY <1>7, <2>1
<1>10. IsPlace(place)
  <2> HIDE DEF IsPlace
  <2> QED BY <1>9
<1> HIDE DEF place
<1>11. \A n \in 0 .. N : place[n] = IF n = 0 THEN start ELSE PlaceBehind(place[n - 1], LargeBytes(b, n))
  BY <1>10, Zenon
<1> DEFINE P == {n \in 0 .. N : place[n] \in Memory /\ Holds(place[n], values, n)}
<1>12. 0 \in P
  <2>1. 0 \in 0 .. N BY <1>2
  <2>2. place[0] = start BY <1>11, <2>1
  <2>3. Holds(start, values, 0)
    <3>1. Len(start.offsets) = 0 BY <1>4
    <3>2. \A k \in 1 .. 0 : FALSE OBVIOUS
    <3> QED BY <3>1, <3>2 DEF Holds
  <2> QED BY <1>4, <2>1, <2>2, <2>3
<1>13. ASSUME NEW n \in 1 .. N, n - 1 \in P PROVE n \in P
  <2>1. n \in 0 .. N /\ n # 0 BY <1>2
  <2>2. place[n] = PlaceBehind(place[n - 1], values[n]) BY <1>11, <1>16, <2>1
  <2>3. place[n - 1] \in Memory /\ Holds(place[n - 1], values, n - 1) BY <1>13
  <2>4. Holds(PlaceBehind(place[n - 1], values[n]), values, n)
    BY <1>2, <1>17, <2>3, PlaceHolds
  <2>5. place[n] \in Memory BY <1>5, <2>2, <2>3
  <2> QED BY <2>1, <2>2, <2>4, <2>5
<1>14. N \in P
  <2> HIDE DEF P
  <2>1. 0 .. N \subseteq P BY <1>2, <1>12, <1>13, UpTo
  <2> QED BY <1>2, <2>1
<1> QED BY <1>1, <1>14 DEF N, values

-----------------------------------------------------------------------------
(* What the builder knows of the values it was given.                         *)

Pool == [name : {"ashmem"}, bytes : Seq(Byte)]

IsLargeIn(b, i) == \E n \in DOMAIN b.large : b.large[n].index = i

(* What is given for the operand is where its location says.                  *)
IsStored(b, i) ==
  LET location == b.operands[i].location
      value == b.given[i][1]
  IN IF b.operands[i].lifetime = "CONSTANT_COPY" THEN IsAt(b.small, location.offset, value)
     ELSE /\ location.pool \in 0 .. Len(b.pools) - 1
          /\ IsAt(b.pools[location.pool + 1].bytes, location.offset, value)

(* A large value is stored when finish has made the memory.                    *)
HasValue(b, i) ==
  LET op == b.operands[i]
  IN /\ {"type", "dims", "location"} \subseteq DOMAIN op
     /\ op.type \in Types /\ op.dims \in Seq(Nat)
     /\ DOMAIN op.location = {"pool", "offset", "length"}
     /\ isConstant(op) <=> b.given[i] # <<>>
     /\ isConstant(op) =>
          /\ \E value \in Seq(Byte) : b.given[i] = << value >> /\ op.location.length = Len(value)
          /\ b.completed \/ ~ IsLargeIn(b, i) => IsStored(b, i)

(* The last of the large values an operand was given is the one it has.         *)
IsLargeValue(b, n) ==
  LET i == b.large[n].index
  IN /\ i \in DOMAIN b.operands /\ b.operands[i].lifetime = "CONSTANT_REFERENCE"
     /\ ~ SizeOf(b.operands[i]) <= ImmediateBytes
     /\ \/ b.given[i] = << b.large[n].buffer >>
        \/ \E m \in DOMAIN b.large : m > n /\ b.large[m].index = i

HoldsValues(b) ==
  /\ b.small \in Seq(Byte) /\ b.pools \in Seq(Pool) /\ b.large \in Seq(LargeValue)
  /\ IsArray(b.given) /\ DOMAIN b.given = DOMAIN b.operands
  /\ \A i \in DOMAIN b.operands : HasValue(b, i)
  /\ \A n \in DOMAIN b.large : IsLargeValue(b, n)

LEMMA EmptyHolds == HoldsValues(Empty)
<1>1. IsArray(<<>>) BY DEF IsArray
<1>2. <<>> \in Seq(Byte) /\ <<>> \in Seq(Pool) /\ <<>> \in Seq(LargeValue) /\ DOMAIN <<>> = {} OBVIOUS
<1> QED BY <1>1, <1>2 DEF HoldsValues, Empty

(* The values stay, whatever else changes of the operands.                     *)
LEMMA SameValues ==
  ASSUME NEW b, NEW c, HoldsValues(b), DOMAIN c.operands = DOMAIN b.operands,
         c.small = b.small, c.pools = b.pools, c.large = b.large, c.given = b.given,
         c.completed => b.completed \/ \A i \in DOMAIN b.operands : isConstant(b.operands[i]) => IsStored(b, i),
         \A i \in DOMAIN b.operands :
            /\ {"type", "dims", "location"} \subseteq DOMAIN c.operands[i]
            /\ c.operands[i].type = b.operands[i].type /\ c.operands[i].dims = b.operands[i].dims
            /\ c.operands[i].location = b.operands[i].location
            /\ \/ c.operands[i].lifetime = b.operands[i].lifetime
               \/ ~ isConstant(b.operands[i]) /\ ~ isConstant(c.operands[i])
  PROVE  HoldsValues(c)
<1>1. ASSUME NEW i \in DOMAIN b.operands PROVE HasValue(c, i)
  <2>1. HasValue(b, i) BY DEF HoldsValues
  <2>2. isConstant(c.operands[i]) <=> isConstant(b.operands[i]) BY DEF isConstant
  <2>3. IsLargeIn(c, i) <=> IsLargeIn(b, i) BY DEF IsLargeIn
  <2>4. ASSUME isConstant(b.operands[i]) PROVE IsStored(c, i) <=> IsStored(b, i)
    <3>1. c.operands[i].lifetime = b.operands[i].lifetime BY <2>4
    <3> QED BY <3>1 DEF IsStored
  <2>5. /\ c.operands[i].type \in Types /\ c.operands[i].dims \in Seq(Nat)
        /\ DOMAIN c.operands[i].location = {"pool", "offset", "length"}
        /\ isConstant(b.operands[i]) <=> b.given[i] # <<>>
    BY <2>1 DEF HasValue
  <2>6. ASSUME isConstant(b.operands[i])
        PROVE  /\ \E value \in Seq(Byte) : b.given[i] = << value >> /\ b.operands[i].location.length = Len(value)
               /\ b.completed \/ ~ IsLargeIn(b, i) => IsStored(b, i)
    BY <2>1, <2>6 DEF HasValue
  <2> QED BY <2>2, <2>3, <2>4, <2>5, <2>6 DEF HasValue
<1>2. ASSUME NEW n \in DOMAIN b.large PROVE IsLargeValue(c, n)
  <2>1. IsLargeValue(b, n) BY DEF HoldsValues
  <2>2. isConstant(b.operands[b.large[n].index]) BY <2>1 DEF IsLargeValue, isConstant
  <2>3. SizeOf(c.operands[b.large[n].index]) = SizeOf(b.operands[b.large[n].index])
    BY <2>1, SizeIs DEF IsLargeValue
  <2> QED BY <2>1, <2>2, <2>3 DEF IsLargeValue
<1> QED BY <1>1, <1>2 DEF HoldsValues

(* One operand gets a value, or loses it.                                     *)
LEMMA OneValue ==
  ASSUME NEW b, NEW c, HoldsValues(b), ~ b.completed, ~ c.completed,
         NEW i \in DOMAIN b.operands, ~ IsLargeIn(b, i) \/ DOMAIN c.large # DOMAIN b.large,
         DOMAIN c.operands = DOMAIN b.operands, IsArray(c.given), DOMAIN c.given = DOMAIN b.given,
         \A j \in DOMAIN b.operands : j # i =>
            c.operands[j] = b.operands[j] /\ c.given[j] = b.given[j],
         c.small \in Seq(Byte), c.pools \in Seq(Pool), c.large \in Seq(LargeValue),
         \A offset \in Nat, other \in Seq(Byte) :
            IsAt(b.small, offset, other) => IsAt(c.small, offset, other),
         Len(b.pools) <= Len(c.pools), \A p \in 1 .. Len(b.pools) : c.pools[p] = b.pools[p],
         DOMAIN b.large \subseteq DOMAIN c.large, \A n \in DOMAIN b.large : c.large[n] = b.large[n],
         \A n \in DOMAIN c.large \ DOMAIN b.large : IsLargeValue(c, n) /\ c.large[n].index = i,
         \A n \in DOMAIN c.large \ DOMAIN b.large : \A m \in DOMAIN b.large : n > m,
         HasValue(c, i)
  PROVE  HoldsValues(c)
<1>1. ASSUME NEW j \in DOMAIN b.operands, j # i PROVE HasValue(c, j)
  <2>1. HasValue(b, j) BY DEF HoldsValues
  <2>2. c.operands[j] = b.operands[j] /\ c.given[j] = b.given[j] BY <1>1
  <2>3. IsLargeIn(b, j) => IsLargeIn(c, j) BY DEF IsLargeIn
  <2>4. ASSUME isConstant(b.operands[j]), IsStored(b, j) PROVE IsStored(c, j)
    <3>1. PICK value \in Seq(Byte) : b.given[j] = << value >> BY <2>1, <2>4 DEF HasValue
    <3>2. b.given[j][1] = value BY <3>1
    <3> DEFINE location == b.operands[j].location
    <3>3. CASE b.operands[j].lifetime = "CONSTANT_COPY"
      <4>1. IsAt(b.small, location.offset, value) BY <2>4, <3>2, <3>3 DEF IsStored
      <4>2. location.offset \in Nat BY <4>1 DEF IsAt
      <4>3. IsAt(c.small, location.offset, value) BY <4>1, <4>2
      <4> QED BY <2>2, <3>2, <3>3, <4>3 DEF IsStored
    <3>4. CASE b.operands[j].lifetime # "CONSTANT_COPY"
      <4>1. /\ location.pool \in 0 .. Len(b.pools) - 1
            /\ IsAt(b.pools[location.pool + 1].bytes, location.offset, value)
        BY <2>4, <3>2, <3>4 DEF IsStored
      <4>2. Len(b.pools) \in Nat /\ Len(c.pools) \in Nat BY DEF HoldsValues
      <4>3. location.pool \in 0 .. Len(c.pools) - 1 /\ location.pool + 1 \in 1 .. Len(b.pools)
        <5> DEFINE at == location.pool
                   n == Len(b.pools)
                   m == Len(c.pools)
        <5>1. at \in 0 .. n - 1 /\ n \in Nat /\ m \in Nat /\ n <= m BY <4>1, <4>2
        <5> HIDE DEF at, n, m
        <5>2. at \in 0 .. m - 1 /\ at + 1 \in 1 .. n BY <5>1
        <5> QED BY <5>2 DEF at, n, m
      <4>4. c.pools[location.pool + 1] = b.pools[location.pool + 1] BY <4>3
      <4> QED BY <2>2, <3>2, <3>4, <4>1, <4>3, <4>4 DEF IsStored
    <3> QED BY <3>3, <3>4
  <2> QED BY <2>1, <2>2, <2>3, <2>4 DEF HasValue
<1>2. \A j \in DOMAIN c.operands : HasValue(c, j) BY <1>1
<1>3. ASSUME NEW n \in DOMAIN b.large PROVE IsLargeValue(c, n)
  <2>1. IsLargeValue(b, n) /\ c.large[n] = b.large[n] BY DEF HoldsValues
  <2>2. CASE b.large[n].index # i BY <2>1, <2>2 DEF IsLargeValue
  <2>3. CASE b.large[n].index = i
    <3>1. PICK m \in DOMAIN c.large \ DOMAIN b.large : TRUE BY <2>3 DEF IsLargeIn
    <3>2. m > n /\ c.large[m].index = i /\ IsLargeValue(c, m) BY <3>1
    <3> QED BY <2>1, <2>3, <3>1, <3>2 DEF IsLargeValue
  <2> QED BY <2>2, <2>3
<1>4. \A n \in DOMAIN c.large : IsLargeValue(c, n) BY <1>3
<1>5. IsArray(c.given) /\ DOMAIN c.given = DOMAIN c.operands BY DEF HoldsValues
<1> QED BY <1>2, <1>4, <1>5 DEF HoldsValues

(* The builder, and each of its operations on it.                              *)
BuilderFields == {"operands", "operations", "inputIndexes", "outputIndexes", "small", "large",
                  "pools", "sorted", "relaxed", "completed", "invalid", "given"}

LEMMA BuilderDomain == ASSUME NEW b, IsBuilder(b) PROVE DOMAIN b = BuilderFields
BY DEF IsBuilder, Empty, BuilderFields

LEMMA AppendIs ==
  ASSUME NEW s, NEW n \in Nat, s = [i \in 1 .. n |-> s[i]], NEW e
  PROVE  /\ Append(s, e) = [i \in 1 .. n + 1 |-> IF i = n + 1 THEN e ELSE s[i]]
         /\ Len(s) = n
<1> DEFINE S == {s[i] : i \in 1 .. n} \cup {e}
<1>1. s \in Seq(S) /\ Len(s) = n /\ e \in S OBVIOUS
<1> HIDE DEF S
<1> QED BY <1>1

LEMMA AddOperandHolds ==
  ASSUME NEW b, NEW t, IsBuilder(b), HoldsValues(b), t.type \in Types, t.dims \in Seq(Nat)
  PROVE  HoldsValues(AddOperand(b, t))
<1> DEFINE new == [type |-> t.type, dims |-> t.dims, scale |-> t.scale,
                   zeroPoint |-> t.zeroPoint, consumers |-> 0,
                   lifetime |-> "TEMPORARY_VARIABLE",
                   location |-> NoLocation, extra |-> [kind |-> "none"]]
           none == <<>>
           c == [b EXCEPT !.operands = Append(@, new), !.given = Append(@, none)]
<1>1. SUFFICES ASSUME ~ b.completed PROVE HoldsValues(c) BY DEF AddOperand, BadState
<1>2. DOMAIN b = BuilderFields BY BuilderDomain
<1>3. /\ {"type", "dims", "location"} \subseteq DOMAIN new
      /\ new.type \in Types /\ new.dims \in Seq(Nat)
      /\ DOMAIN new.location = {"pool", "offset", "length"}
      /\ ~ isConstant(new)
  BY DEF NoLocation, isConstant
<1> HIDE DEF new, none
<1>4. /\ c.operands = Append(b.operands, new) /\ c.given = Append(b.given, none)
      /\ c.small = b.small /\ c.pools = b.pools /\ c.large = b.large /\ c.completed = b.completed
  BY <1>2 DEF BuilderFields
<1> HIDE DEF c
<1>5. PICK n \in Nat : b.operands = [i \in 1 .. n |-> b.operands[i]] BY DEF IsBuilder, IsArray
<1>6. b.given = [i \in 1 .. n |-> b.given[i]] BY <1>5 DEF HoldsValues, IsArray
<1>7. /\ c.operands = [i \in 1 .. n + 1 |-> IF i = n + 1 THEN new ELSE b.operands[i]]
      /\ c.given = [i \in 1 .. n + 1 |-> IF i = n + 1 THEN none ELSE b.given[i]]
  BY <1>4, <1>5, <1>6, AppendIs
<1>8. DOMAIN b.operands = 1 .. n /\ DOMAIN c.operands = 1 .. n + 1 /\ DOMAIN c.given = 1 .. n + 1
  BY <1>5, <1>7
<1>9. IsArray(c.given) BY <1>7 DEF IsArray
<1>10. ASSUME NEW i \in 1 .. n
       PROVE  c.operands[i] = b.operands[i] /\ c.given[i] = b.given[i]
  BY <1>7
<1>11. c.operands[n + 1] = new /\ c.given[n + 1] = <<>> BY <1>7 DEF none
<1>12. HasValue(c, n + 1) BY <1>3, <1>11 DEF HasValue
<1>13. ASSUME NEW i \in 1 .. n PROVE HasValue(c, i)
  <2>1. HasValue(b, i) BY <1>8 DEF HoldsValues
  <2>2. IsLargeIn(c, i) <=> IsLargeIn(b, i) BY <1>4 DEF IsLargeIn
  <2>3. IsStored(c, i) <=> IsStored(b, i) BY <1>4, <1>10 DEF IsStored
  <2> QED BY <1>4, <1>10, <2>1, <2>2, <2>3 DEF HasValue
<1>14. ASSUME NEW i \in DOMAIN c.operands PROVE HasValue(c, i)
  <2>1. i \in 1 .. n \/ i = n + 1 BY <1>8
  <2> QED BY <1>12, <1>13, <2>1
<1>15. ASSUME NEW k \in DOMAIN c.large PROVE IsLargeValue(c, k)
  <2>1. IsLargeValue(b, k) BY <1>4 DEF HoldsValues
  <2>2. b.large[k].index \in 1 .. n BY <1>8, <2>1 DEF IsLargeValue
  <2> QED BY <1>4, <1>8, <1>10, <2>1, <2>2 DEF IsLargeValue
<1> QED BY <1>4, <1>8, <1>9, <1>14, <1>15 DEF HoldsValues

(* One operand, where nothing is written.                                     *)
LEMMA OmitHolds ==
  ASSUME NEW b, NEW i \in DOMAIN b.operands, IsBuilder(b), HoldsValues(b), ~ IsLargeIn(b, i)
  PROVE  HoldsValues(OmitOperandValue(b, i))
<1> DEFINE none == <<>>
           c == [b EXCEPT !.operands[i].lifetime = "NO_VALUE", !.operands[i].location = NoLocation,
                          !.given[i] = none]
<1>1. SUFFICES ASSUME ~ b.completed PROVE HoldsValues(c) BY DEF OmitOperandValue, BadState
<1>2. DOMAIN b = BuilderFields BY BuilderDomain
<1> HIDE DEF none
<1>3. /\ c.operands = [[b.operands EXCEPT ![i].lifetime = "NO_VALUE"] EXCEPT ![i].location = NoLocation]
      /\ c.given = [b.given EXCEPT ![i] = none]
      /\ c.small = b.small /\ c.pools = b.pools /\ c.large = b.large /\ c.completed = b.completed
  BY <1>2 DEF BuilderFields
<1> HIDE DEF c
<1>4. HasValue(b, i) /\ DOMAIN b.given = DOMAIN b.operands BY DEF HoldsValues
<1>5. "lifetime" \in DOMAIN b.operands[i] BY DEF IsBuilder, HasFields
<1>6. /\ DOMAIN c.operands = DOMAIN b.operands /\ DOMAIN c.given = DOMAIN b.given
      /\ \A j \in DOMAIN b.operands : j # i => c.operands[j] = b.operands[j] /\ c.given[j] = b.given[j]
      /\ DOMAIN c.operands[i] = DOMAIN b.operands[i]
      /\ c.operands[i].lifetime = "NO_VALUE"
      /\ c.operands[i].location = NoLocation /\ c.given[i] = none
      /\ c.operands[i].type = b.operands[i].type /\ c.operands[i].dims = b.operands[i].dims
  BY <1>3, <1>4, <1>5 DEF HasValue
<1>7. IsArray(c.given) BY <1>3 DEF IsArray, HoldsValues
<1>8. HasValue(c, i)
  <2>1. ~ isConstant(c.operands[i]) BY <1>6 DEF isConstant
  <2>2. DOMAIN NoLocation = {"pool", "offset", "length"} BY DEF NoLocation
  <2> QED BY <1>4, <1>6, <2>1, <2>2 DEF HasValue, none
<1>9. Len(b.pools) <= Len(c.pools)
  <2>1. Len(b.pools) \in Nat BY DEF HoldsValues
  <2> QED BY <1>3, <2>1
<1> QED BY <1>1, <1>3, <1>6, <1>7, <1>8, <1>9, OneValue DEF HoldsValues

(* What is right of an operand that is given a value once it is stored.        *)
IsGiven(b, c, i, lifetime, location, given) ==
  /\ DOMAIN c.operands = DOMAIN b.operands /\ DOMAIN c.given = DOMAIN b.given /\ IsArray(c.given)
  /\ \A j \in DOMAIN b.operands : j # i => c.operands[j] = b.operands[j] /\ c.given[j] = b.given[j]
  /\ c.operands[i].lifetime = lifetime /\ c.operands[i].location = location
  /\ SizeOf(c.operands[i]) = SizeOf(b.operands[i])
  /\ c.given[i] = given
  /\ (c.completed \/ ~ IsLargeIn(c, i) => IsStored(c, i)) => HasValue(c, i)

LEMMA GivenIs ==
  ASSUME NEW b, NEW c, NEW i \in DOMAIN b.operands, IsBuilder(b), HoldsValues(b),
         NEW lifetime \in {"CONSTANT_COPY", "CONSTANT_REFERENCE"}, NEW location, NEW value \in Seq(Byte),
         NEW given, given = << value >>,
         c.operands = [[b.operands EXCEPT ![i].lifetime = lifetime] EXCEPT ![i].location = location],
         c.given = [b.given EXCEPT ![i] = given],
         DOMAIN location = {"pool", "offset", "length"}, location.length = Len(value)
  PROVE  IsGiven(b, c, i, lifetime, location, given)
<1>1. given # <<>> /\ given[1] = value OBVIOUS
<1>2. c.given = [b.given EXCEPT ![i] = given] OBVIOUS
<1>3. HasValue(b, i) /\ DOMAIN b.given = DOMAIN b.operands BY DEF HoldsValues
<1>4. "lifetime" \in DOMAIN b.operands[i] BY DEF IsBuilder, HasFields
<1>5. /\ DOMAIN c.operands = DOMAIN b.operands /\ DOMAIN c.given = DOMAIN b.given
      /\ \A j \in DOMAIN b.operands : j # i => c.operands[j] = b.operands[j] /\ c.given[j] = b.given[j]
      /\ DOMAIN c.operands[i] = DOMAIN b.operands[i]
      /\ c.operands[i].lifetime = lifetime
      /\ c.operands[i].location = location /\ c.given[i] = given
      /\ c.operands[i].type = b.operands[i].type /\ c.operands[i].dims = b.operands[i].dims
  BY <1>2, <1>3, <1>4 DEF HasValue
<1>6. IsArray(c.given)
  <2>1. PICK n \in Nat : b.given = [k \in 1 .. n |-> b.given[k]] BY DEF IsArray, HoldsValues
  <2>2. c.given = [k \in 1 .. n |-> c.given[k]] BY <1>2, <2>1
  <2> QED BY <2>2 DEF IsArray
<1>7. (c.completed \/ ~ IsLargeIn(c, i) => IsStored(c, i)) => HasValue(c, i)
  <2>1. isConstant(c.operands[i]) BY <1>5 DEF isConstant
  <2>2. \E v \in Seq(Byte) : c.given[i] = << v >> /\ location.length = Len(v) BY <1>5
  <2> QED BY <1>1, <1>3, <1>5, <2>1, <2>2 DEF HasValue
<1>8. SizeOf(c.operands[i]) = SizeOf(b.operands[i]) BY <1>5, SizeIs
<1> QED BY <1>5, <1>6, <1>7, <1>8 DEF IsGiven

LEMMA SetOperandValueHolds ==
  ASSUME NEW b, NEW i \in DOMAIN b.operands, NEW buffer \in Seq(Byte), IsBuilder(b), HoldsValues(b),
         Len(buffer) = SizeOf(b.operands[i]), i \in Nat
  PROVE  HoldsValues(SetOperandValue(b, i, buffer))
<1> DEFINE padding == AlignBytesNeeded(Len(b.small), Len(buffer))
           small == [pool |-> 0, offset |-> Len(b.small) + padding, length |-> Len(buffer)]
           large == [pool |-> Unset, offset |-> Unset, length |-> Len(buffer)]
           copied == b.small \o Repeat(Padding, padding) \o buffer
           value == [index |-> i, buffer |-> buffer]
           given == << buffer >>
           c == [b EXCEPT !.operands[i].lifetime = "CONSTANT_COPY", !.operands[i].location = small,
                          !.small = copied, !.given[i] = given]
           d == [b EXCEPT !.operands[i].lifetime = "CONSTANT_REFERENCE", !.operands[i].location = large,
                          !.large = Append(@, value), !.given[i] = given]
<1>1. DOMAIN b = BuilderFields BY BuilderDomain
<1>2. ASSUME ~ BadState(b)
      PROVE  \/ SetOperandValue(b, i, buffer) = b
             \/ Len(buffer) <= ImmediateBytes /\ SetOperandValue(b, i, buffer) = c
             \/ ~ Len(buffer) <= ImmediateBytes /\ SetOperandValue(b, i, buffer) = d
  <2> HIDE DEF c, d
  <2>1. \/ SetOperandValue(b, i, buffer) = b
        \/ SetOperandValue(b, i, buffer) = IF Len(buffer) <= ImmediateBytes THEN c ELSE d
    BY <1>2, Zenon DEF SetOperandValue, c, d
  <2> QED BY <2>1
<1>3. ASSUME BadState(b) PROVE SetOperandValue(b, i, buffer) = b
  BY <1>3 DEF SetOperandValue
<1>4. Len(buffer) <= ImmediateBytes => ~ IsLargeIn(b, i)
  BY DEF HoldsValues, IsLargeValue, IsLargeIn
<1>5. /\ DOMAIN small = {"pool", "offset", "length"} /\ small.length = Len(buffer)
      /\ small.offset = Len(b.small) + padding
      /\ DOMAIN large = {"pool", "offset", "length"} /\ large.length = Len(buffer)
  OBVIOUS
<1>6. /\ IsAt(copied, Len(b.small) + padding, buffer) /\ copied \in Seq(Byte)
      /\ \A offset \in Nat, other \in Seq(Byte) :
           IsAt(b.small, offset, other) => IsAt(copied, offset, other)
  BY WrittenBehind DEF HoldsValues
<1>7. value \in LargeValue /\ value.index = i /\ value.buffer = buffer BY DEF LargeValue
<1>8. given = << buffer >> /\ given[1] = buffer OBVIOUS
<1>14. /\ "CONSTANT_COPY" \in {"CONSTANT_COPY", "CONSTANT_REFERENCE"}
      /\ "CONSTANT_REFERENCE" \in {"CONSTANT_COPY", "CONSTANT_REFERENCE"}
  OBVIOUS
<1> HIDE DEF copied, padding, small, large, value, given
<1>9. Len(b.pools) \in Nat BY DEF HoldsValues
<1>10. ASSUME ~ b.completed, Len(buffer) <= ImmediateBytes PROVE HoldsValues(c)
  <2>1. /\ c.operands = [[b.operands EXCEPT ![i].lifetime = "CONSTANT_COPY"] EXCEPT ![i].location = small]
        /\ c.given = [b.given EXCEPT ![i] = given] /\ c.small = copied
        /\ c.pools = b.pools /\ c.large = b.large /\ c.completed = b.completed
    BY <1>1 DEF BuilderFields
  <2> HIDE DEF c
  <2>2. IsGiven(b, c, i, "CONSTANT_COPY", small, given)
    BY <1>5, <1>8, <1>14, <2>1, GivenIs, Zenon
  <2>3. IsStored(c, i) BY <1>5, <1>6, <1>8, <2>1, <2>2 DEF IsGiven, IsStored
  <2>4. HasValue(c, i) BY <2>2, <2>3 DEF IsGiven
  <2>5. /\ c.small \in Seq(Byte) /\ c.pools \in Seq(Pool) /\ c.large \in Seq(LargeValue)
        /\ Len(b.pools) <= Len(c.pools) /\ DOMAIN c.large \ DOMAIN b.large = {}
    BY <1>6, <1>9, <2>1 DEF HoldsValues
  <2> QED BY <1>4, <1>6, <1>10, <2>1, <2>2, <2>4, <2>5, OneValue DEF IsGiven
<1>11. ASSUME ~ b.completed, ~ Len(buffer) <= ImmediateBytes PROVE HoldsValues(d)
  <2>1. /\ d.operands = [[b.operands EXCEPT ![i].lifetime = "CONSTANT_REFERENCE"] EXCEPT ![i].location = large]
        /\ d.given = [b.given EXCEPT ![i] = given] /\ d.small = b.small
        /\ d.pools = b.pools /\ d.large = Append(b.large, value) /\ d.completed = b.completed
    BY <1>1 DEF BuilderFields
  <2> HIDE DEF d
  <2>2. IsGiven(b, d, i, "CONSTANT_REFERENCE", large, given)
    BY <1>5, <1>8, <1>14, <2>1, GivenIs, Zenon
  <2>3. b.large \in Seq(LargeValue) BY DEF HoldsValues
  <2>9. DOMAIN b.given = DOMAIN b.operands BY DEF HoldsValues
  <2> DEFINE n == Len(b.large) + 1
  <2>4. /\ d.large \in Seq(LargeValue) /\ DOMAIN b.large \subseteq DOMAIN d.large
        /\ \A k \in DOMAIN b.large : d.large[k] = b.large[k]
        /\ DOMAIN d.large \ DOMAIN b.large = {n} /\ n \in DOMAIN d.large /\ d.large[n] = value
    BY <1>7, <2>1, <2>3
  <2> HIDE DEF n
  <2>5. IsLargeValue(d, n) /\ d.large[n].index = i
    BY <1>7, <1>8, <1>11, <2>2, <2>4, <2>9 DEF IsLargeValue, IsGiven
  <2>6. HasValue(d, i) BY <1>11, <2>1, <2>2, <2>4, <2>5 DEF IsLargeIn, IsGiven
  <2>7. /\ \A k \in DOMAIN d.large \ DOMAIN b.large : IsLargeValue(d, k) /\ d.large[k].index = i
        /\ \A k \in DOMAIN d.large \ DOMAIN b.large : \A m \in DOMAIN b.large : k > m
        /\ DOMAIN d.large # DOMAIN b.large
    BY <2>3, <2>4, <2>5 DEF n
  <2>8. d.small \in Seq(Byte) /\ d.pools \in Seq(Pool) /\ Len(b.pools) <= Len(d.pools)
    BY <1>9, <2>1 DEF HoldsValues
  <2> QED BY <1>11, <2>1, <2>2, <2>4, <2>6, <2>7, <2>8, OneValue DEF IsGiven
<1> HIDE DEF c, d
<1>12. CASE BadState(b) BY <1>3, <1>12
<1>13. CASE ~ BadState(b) BY <1>2, <1>10, <1>11, <1>13 DEF BadState
<1> QED BY <1>12, <1>13

LEMMA FromMemoryHolds ==
  ASSUME NEW b, NEW i \in DOMAIN b.operands, NEW memory \in Pool, NEW offset \in Nat, NEW length \in Nat,
         IsBuilder(b), HoldsValues(b), ~ IsLargeIn(b, i)
  PROVE  HoldsValues(SetOperandValueFromMemory(b, i, memory, offset, length))
<1> DEFINE pools == AddMemory(b.pools, memory)
           at == SelectInSeq(pools, LAMBDA p : p = memory)
           location == [pool |-> at - 1, offset |-> offset, length |-> length]
           value == SubSeq(memory.bytes, offset + 1, offset + length)
           given == << value >>
           c == [b EXCEPT !.operands[i].lifetime = "CONSTANT_REFERENCE",
                          !.operands[i].location = location, !.pools = pools, !.given[i] = given]
<1>1. DOMAIN b = BuilderFields BY BuilderDomain
<1>2. \/ SetOperandValueFromMemory(b, i, memory, offset, length) = b
      \/ /\ ~ b.completed /\ ~ (offset + length > Len(memory.bytes))
         /\ SetOperandValueFromMemory(b, i, memory, offset, length) = c
  BY Zenon DEF SetOperandValueFromMemory, BadState
<1>3. ASSUME ~ b.completed, ~ (offset + length > Len(memory.bytes)) PROVE HoldsValues(c)
  <2>1. b.pools \in Seq(Pool) /\ b.small \in Seq(Byte) /\ b.large \in Seq(LargeValue) BY DEF HoldsValues
  <2>2. memory.bytes \in Seq(Byte) BY DEF Pool
  <2>3. offset + length <= Len(memory.bytes) BY <1>3, <2>2
  <2>4. value \in Seq(Byte) /\ Len(value) = length /\ IsAt(memory.bytes, offset, value)
    BY <2>2, <2>3, WrittenAt
  <2>5. /\ pools \in Seq(Pool) /\ Len(b.pools) \in Nat /\ Len(b.pools) <= Len(pools)
        /\ \A p \in 1 .. Len(b.pools) : pools[p] = b.pools[p]
        /\ \E p \in 1 .. Len(pools) : pools[p] = memory
    <3>1. CASE memory \in Range(b.pools) BY <2>1, <3>1 DEF AddMemory, Range
    <3>2. CASE memory \notin Range(b.pools)
      <4>1. pools = Append(b.pools, memory) BY <3>2 DEF AddMemory
      <4> HIDE DEF pools
      <4>2. /\ pools \in Seq(Pool) /\ Len(pools) = Len(b.pools) + 1 /\ Len(b.pools) \in Nat
            /\ \A p \in 1 .. Len(b.pools) : pools[p] = b.pools[p]
            /\ pools[Len(b.pools) + 1] = memory
        BY <2>1, <4>1, AppendProperties
      <4>3. Len(b.pools) + 1 \in 1 .. Len(pools) BY <4>2
      <4> QED BY <4>2, <4>3
    <3> QED BY <3>1, <3>2
  <2>6. at \in 1 .. Len(pools) /\ pools[at] = memory
    <3> HIDE DEF pools
    <3> DEFINE I == {p \in 1 .. Len(pools) : pools[p] = memory}
    <3>1. I \in SUBSET Nat /\ I # {} BY <2>5
    <3>2. at = Min(I) BY <3>1 DEF SelectInSeq
    <3> HIDE DEF I, at
    <3>3. at \in I BY <3>1, <3>2, LeastIsMin
    <3> QED BY <3>3 DEF I
  <2>7. /\ DOMAIN location = {"pool", "offset", "length"} /\ location.length = length
        /\ location.pool = at - 1 /\ location.offset = offset
    OBVIOUS
  <2>15. "CONSTANT_REFERENCE" \in {"CONSTANT_COPY", "CONSTANT_REFERENCE"} OBVIOUS
  <2> HIDE DEF pools, at, location, value
  <2>8. given = << value >> /\ given[1] = value OBVIOUS
  <2> HIDE DEF given
  <2>9. /\ c.operands = [[b.operands EXCEPT ![i].lifetime = "CONSTANT_REFERENCE"] EXCEPT ![i].location = location]
        /\ c.given = [b.given EXCEPT ![i] = given] /\ c.small = b.small
        /\ c.pools = pools /\ c.large = b.large /\ c.completed = b.completed
    BY <1>1 DEF BuilderFields
  <2> HIDE DEF c
  <2>10. IsGiven(b, c, i, "CONSTANT_REFERENCE", location, given)
    BY <2>4, <2>7, <2>8, <2>15, <2>9, GivenIs, Zenon
  <2>11. Len(pools) \in Nat BY <2>5
  <2>12. location.pool \in 0 .. Len(pools) - 1 /\ location.pool + 1 = at BY <2>6, <2>7, <2>11
  <2>13. IsStored(c, i) BY <2>4, <2>6, <2>7, <2>8, <2>9, <2>10, <2>12 DEF IsStored, IsGiven
  <2>14. HasValue(c, i) BY <2>10, <2>13 DEF IsGiven
  <2>16. /\ DOMAIN c.operands = DOMAIN b.operands /\ IsArray(c.given) /\ DOMAIN c.given = DOMAIN b.given
         /\ \A j \in DOMAIN b.operands : j # i =>
              c.operands[j] = b.operands[j] /\ c.given[j] = b.given[j]
    BY <2>10 DEF IsGiven
  <2>17. /\ c.small \in Seq(Byte) /\ c.pools \in Seq(Pool) /\ c.large \in Seq(LargeValue)
         /\ Len(b.pools) <= Len(c.pools) /\ \A p \in 1 .. Len(b.pools) : c.pools[p] = b.pools[p]
    BY <2>1, <2>5, <2>9
  <2> QED BY <1>3, <2>9, <2>14, <2>16, <2>17, OneValue
<1> HIDE DEF c
<1> QED BY <1>2, <1>3

(* Where the operands keep their types, their locations and their values.      *)
LEMMA ExtraHolds ==
  ASSUME NEW b, NEW i, NEW extra, IsBuilder(b), HoldsValues(b)
  PROVE  HoldsValues([b EXCEPT !.operands[i].extra = extra])
<1> DEFINE c == [b EXCEPT !.operands[i].extra = extra]
<1>1. DOMAIN b = BuilderFields BY BuilderDomain
<1>2. /\ c.operands = [b.operands EXCEPT ![i].extra = extra] /\ c.given = b.given
      /\ c.small = b.small /\ c.pools = b.pools /\ c.large = b.large /\ c.completed = b.completed
  BY <1>1 DEF BuilderFields
<1> HIDE DEF c
<1>3. \A j \in DOMAIN b.operands : {"type", "dims", "location", "lifetime"} \subseteq DOMAIN b.operands[j]
  BY DEF HoldsValues, HasValue, IsBuilder, HasFields
<1>4. DOMAIN c.operands = DOMAIN b.operands BY <1>2
<1>5. \A j \in DOMAIN b.operands :
        /\ {"type", "dims", "location"} \subseteq DOMAIN c.operands[j]
        /\ c.operands[j].type = b.operands[j].type /\ c.operands[j].dims = b.operands[j].dims
        /\ c.operands[j].location = b.operands[j].location
        /\ c.operands[j].lifetime = b.operands[j].lifetime
  BY <1>2, <1>3
<1>6. HoldsValues(c) BY <1>2, <1>4, <1>5, SameValues
<1> QED BY <1>6 DEF c

LEMMA AddOperationHolds ==
  ASSUME NEW b, NEW operation, IsBuilder(b), HoldsValues(b)
  PROVE  HoldsValues(AddOperation(b, operation))
<1> DEFINE counted == [i \in DOMAIN b.operands |->
                        [b.operands[i] EXCEPT !.consumers = @ + Occurrences(operation.ins, i)]]
           c == [b EXCEPT !.operations = Append(@, operation), !.operands = counted]
<1>1. DOMAIN b = BuilderFields BY BuilderDomain
<1>2. AddOperation(b, operation) \in {b, c} BY Zenon DEF AddOperation
<1>3. \A j \in DOMAIN b.operands : {"type", "dims", "location", "lifetime"} \subseteq DOMAIN b.operands[j]
  BY DEF HoldsValues, HasValue, IsBuilder, HasFields
<1>4. DOMAIN counted = DOMAIN b.operands OBVIOUS
<1>5. \A j \in DOMAIN b.operands :
        /\ {"type", "dims", "location"} \subseteq DOMAIN counted[j]
        /\ counted[j].type = b.operands[j].type /\ counted[j].dims = b.operands[j].dims
        /\ counted[j].location = b.operands[j].location
        /\ counted[j].lifetime = b.operands[j].lifetime
  BY <1>3
<1> HIDE DEF counted
<1>6. /\ c.operands = counted /\ c.given = b.given
      /\ c.small = b.small /\ c.pools = b.pools /\ c.large = b.large /\ c.completed = b.completed
  BY <1>1 DEF BuilderFields
<1> HIDE DEF c
<1>7. HoldsValues(c) BY <1>4, <1>5, <1>6, SameValues
<1> QED BY <1>2, <1>7

(* Only a temporary becomes an argument.                                      *)
AreArguments(set, operands, lifetime) ==
  /\ DOMAIN set = DOMAIN operands
  /\ \A i \in DOMAIN operands :
       \/ set[i] = operands[i]
       \/ /\ operands[i].lifetime = "TEMPORARY_VARIABLE"
          /\ set[i] = [operands[i] EXCEPT !.lifetime = lifetime]

LEMMA SetArgumentsKeeps ==
  ASSUME NEW operands, NEW old, NEW list \in Seq(Nat), NEW lifetime
  PROVE  AreArguments(SetArguments(operands, old, list, lifetime).operands, operands, lifetime)
<1> DEFINE refused == {n \in DOMAIN list : \/ operands[list[n]].lifetime # "TEMPORARY_VARIABLE"
                                           \/ list[n] \in Range(SubSeq(list, 1, n - 1))}
           done == IF refused = {} THEN Len(list) ELSE Min(refused) - 1
           set == [i \in DOMAIN operands |->
                      IF i \in Range(SubSeq(list, 1, done))
                      THEN [operands[i] EXCEPT !.lifetime = lifetime] ELSE operands[i]]
           r == SetArguments(operands, old, list, lifetime)
<1>1. r.operands = set BY DEF SetArguments
<1>2. refused \in SUBSET Nat /\ refused \subseteq DOMAIN list OBVIOUS
<1>3. done \in 0 .. Len(list) /\ \A n \in 1 .. done : n \notin refused
  <2>1. CASE refused = {} BY <2>1
  <2>2. CASE refused # {}
    <3> HIDE DEF refused
    <3>1. Min(refused) \in refused /\ \A k \in refused : Min(refused) <= k
      BY <1>2, <2>2, LeastIsMin, Zenon
    <3>2. Min(refused) \in 1 .. Len(list)
      <4>1. refused \subseteq 1 .. Len(list) BY <1>2
      <4> QED BY <3>1, <4>1
    <3>3. done = Min(refused) - 1 BY <2>2
    <3> HIDE DEF done
    <3>4. done \in 0 .. Len(list) BY <3>2, <3>3
    <3>5. ASSUME NEW n \in 1 .. done PROVE n \notin refused BY <3>1, <3>2, <3>3
    <3> QED BY <3>4, <3>5
  <2> QED BY <2>1, <2>2
<1>4. \A n \in DOMAIN list \ refused : operands[list[n]].lifetime = "TEMPORARY_VARIABLE" OBVIOUS
<1> HIDE DEF done, refused
<1>5. ASSUME NEW i \in DOMAIN operands, i \in Range(SubSeq(list, 1, done))
      PROVE  operands[i].lifetime = "TEMPORARY_VARIABLE"
  <2>1. SubSeq(list, 1, done) = [n \in 1 .. done |-> list[n]] BY <1>3
  <2>2. PICK n \in 1 .. done : i = list[n] BY <1>5, <2>1 DEF Range
  <2>3. n \in DOMAIN list BY <1>3
  <2> QED BY <1>3, <1>4, <2>2, <2>3
<1>6. \A i \in DOMAIN operands :
         set[i] = IF i \in Range(SubSeq(list, 1, done))
                  THEN [operands[i] EXCEPT !.lifetime = lifetime] ELSE operands[i]
  OBVIOUS
<1>7. DOMAIN set = DOMAIN operands OBVIOUS
<1> HIDE DEF set, r
<1>8. \A i \in DOMAIN operands :
        \/ set[i] = operands[i]
        \/ /\ operands[i].lifetime = "TEMPORARY_VARIABLE"
           /\ set[i] = [operands[i] EXCEPT !.lifetime = lifetime]
  BY <1>5, <1>6, Zenon
<1>9. AreArguments(set, operands, lifetime) BY <1>7, <1>8 DEF AreArguments
<1> QED BY <1>1, <1>9 DEF r

(* The fields of an operand that say what its value is.                        *)
KeepValues(operands, before) ==
  /\ DOMAIN operands = DOMAIN before
  /\ \A i \in DOMAIN before :
       /\ {"type", "dims", "location", "lifetime"} \subseteq DOMAIN operands[i]
       /\ operands[i].type = before[i].type /\ operands[i].dims = before[i].dims
       /\ operands[i].location = before[i].location
       /\ \/ operands[i].lifetime = before[i].lifetime
          \/ ~ isConstant(before[i]) /\ ~ isConstant(operands[i])

LEMMA ArgumentsKeepValues ==
  ASSUME NEW before, NEW operands, KeepValues(operands, before), NEW old, NEW list \in Seq(Nat),
         NEW lifetime \in {"MODEL_INPUT", "MODEL_OUTPUT"}
  PROVE  KeepValues(SetArguments(operands, old, list, lifetime).operands, before)
<1> DEFINE set == SetArguments(operands, old, list, lifetime).operands
<1>1. /\ DOMAIN set = DOMAIN operands
      /\ \A i \in DOMAIN operands :
           \/ set[i] = operands[i]
           \/ /\ operands[i].lifetime = "TEMPORARY_VARIABLE"
              /\ set[i] = [operands[i] EXCEPT !.lifetime = lifetime]
  <2>1. AreArguments(set, operands, lifetime) BY SetArgumentsKeeps
  <2> HIDE DEF set
  <2> QED BY <2>1 DEF AreArguments
<1> HIDE DEF set
<1>2. ASSUME NEW i \in DOMAIN before
      PROVE  /\ {"type", "dims", "location", "lifetime"} \subseteq DOMAIN set[i]
             /\ set[i].type = before[i].type /\ set[i].dims = before[i].dims
             /\ set[i].location = before[i].location
             /\ \/ set[i].lifetime = before[i].lifetime
                \/ ~ isConstant(before[i]) /\ ~ isConstant(set[i])
  <2>1. CASE set[i] = operands[i] BY <2>1 DEF KeepValues
  <2>2. CASE /\ operands[i].lifetime = "TEMPORARY_VARIABLE"
             /\ set[i] = [operands[i] EXCEPT !.lifetime = lifetime]
    <3>1. ~ isConstant(set[i]) /\ ~ isConstant(before[i]) BY <2>2 DEF KeepValues, isConstant
    <3> QED BY <2>2, <3>1 DEF KeepValues
  <2> QED BY <1>1, <2>1, <2>2 DEF KeepValues
<1>3. KeepValues(set, before) BY <1>1, <1>2 DEF KeepValues
<1> QED BY <1>3 DEF set

LEMMA IdentifyHolds ==
  ASSUME NEW b, NEW ins \in Seq(Nat), NEW outs \in Seq(Nat), IsBuilder(b), HoldsValues(b)
  PROVE  HoldsValues(IdentifyInputsAndOutputs(b, ins, outs))
<1> DEFINE i == SetArguments(b.operands, b.inputIndexes, ins, "MODEL_INPUT")
           o == SetArguments(i.operands, b.outputIndexes, outs, "MODEL_OUTPUT")
           c == [b EXCEPT !.operands = i.operands, !.inputIndexes = i.list]
           d == [b EXCEPT !.operands = o.operands, !.inputIndexes = i.list, !.outputIndexes = o.list]
<1>1. DOMAIN b = BuilderFields BY BuilderDomain
<1>2. IdentifyInputsAndOutputs(b, ins, outs) \in {b, c, d}
  <2>1. CASE BadState(b) BY <2>1 DEF IdentifyInputsAndOutputs
  <2>2. CASE ~ BadState(b) BY <2>2, Zenon DEF IdentifyInputsAndOutputs
  <2> QED BY <2>1, <2>2
<1>3. KeepValues(b.operands, b.operands)
  BY DEF KeepValues, HoldsValues, HasValue, IsBuilder, HasFields
<1>4. KeepValues(i.operands, b.operands) BY <1>3, ArgumentsKeepValues
<1> HIDE DEF i
<1>5. KeepValues(o.operands, b.operands) BY <1>4, ArgumentsKeepValues
<1> HIDE DEF o
<1>6. HoldsValues(c)
  <2>1. /\ c.operands = i.operands /\ c.given = b.given
        /\ c.small = b.small /\ c.pools = b.pools /\ c.large = b.large /\ c.completed = b.completed
    BY <1>1 DEF BuilderFields
  <2> HIDE DEF c
  <2> QED BY <1>4, <2>1, SameValues DEF KeepValues
<1>7. HoldsValues(d)
  <2>1. /\ d.operands = o.operands /\ d.given = b.given
        /\ d.small = b.small /\ d.pools = b.pools /\ d.large = b.large /\ d.completed = b.completed
    BY <1>1 DEF BuilderFields
  <2> HIDE DEF d
  <2> QED BY <1>5, <2>1, SameValues DEF KeepValues
<1> HIDE DEF c, d
<1> QED BY <1>2, <1>6, <1>7

(* As finish leaves the values.                                               *)
AllStored(b) == \A i \in DOMAIN b.operands : isConstant(b.operands[i]) => IsStored(b, i)

(* The number of a large value, or none.                                      *)
LargeAt(b, i) == SelectLastInSeq(b.large, LAMBDA l : l.index = i)

LEMMA LargeIsAt ==
  ASSUME NEW b, NEW i, HoldsValues(b)
  PROVE  IF IsLargeIn(b, i)
         THEN /\ LargeAt(b, i) \in DOMAIN b.large /\ b.large[LargeAt(b, i)].index = i
              /\ b.given[i] = << b.large[LargeAt(b, i)].buffer >>
         ELSE LargeAt(b, i) = 0
<1> DEFINE I == {n \in 1 .. Len(b.large) : b.large[n].index = i}
<1>1. DOMAIN b.large = 1 .. Len(b.large) BY DEF HoldsValues
<1>2. LargeAt(b, i) = IF I # {} THEN Max(I) ELSE 0 BY DEF LargeAt, SelectLastInSeq
<1>3. CASE ~ IsLargeIn(b, i)
  <2>1. I = {} BY <1>1, <1>3 DEF IsLargeIn
  <2> QED BY <1>2, <1>3, <2>1
<1>4. CASE IsLargeIn(b, i)
  <2>1. Len(b.large) \in Nat BY DEF HoldsValues
  <2>2. PICK n \in I : TRUE BY <1>1, <1>4 DEF IsLargeIn
  <2>3. PICK m \in I : \A k \in I : k <= m BY <2>1, <2>2, GreatestNatural
  <2>4. Max(I) = m BY <2>1, <2>3 DEF Max
  <2>5. LargeAt(b, i) = m BY <1>2, <2>2, <2>4
  <2>6. \A k \in DOMAIN b.large : b.large[k].index = i => ~ k > m
    <3> SUFFICES ASSUME NEW k \in DOMAIN b.large, b.large[k].index = i PROVE ~ k > m OBVIOUS
    <3>1. k \in I BY <1>1
    <3>2. k \in Nat /\ m \in Nat BY <1>1, <2>1
    <3> QED BY <2>3, <3>1, <3>2
  <2>7. IsLargeValue(b, m) BY <1>1 DEF HoldsValues
  <2> QED BY <1>1, <1>4, <2>5, <2>6, <2>7 DEF IsLargeValue
<1> QED BY <1>3, <1>4

(* Only the places of large values are changed.                               *)
Placed(b, operands) ==
  /\ DOMAIN operands = DOMAIN b.operands
  /\ \A i \in DOMAIN b.operands :
       IF IsLargeIn(b, i)
       THEN /\ {"type", "dims", "location"} \subseteq DOMAIN operands[i]
            /\ operands[i].type = b.operands[i].type /\ operands[i].dims = b.operands[i].dims
            /\ operands[i].lifetime = b.operands[i].lifetime
            /\ DOMAIN operands[i].location = DOMAIN b.operands[i].location
            /\ operands[i].location.length = b.operands[i].location.length
       ELSE operands[i] = b.operands[i]

LEMMA PlacedHolds ==
  ASSUME NEW b, NEW c, HoldsValues(b), ~ b.completed, ~ c.completed, Placed(b, c.operands),
         c.small = b.small, c.large = b.large, c.given = b.given, c.pools \in Seq(Pool),
         Len(b.pools) <= Len(c.pools), \A p \in 1 .. Len(b.pools) : c.pools[p] = b.pools[p]
  PROVE  /\ HoldsValues(c)
         /\ \A i \in DOMAIN b.operands :
              isConstant(b.operands[i]) /\ ~ IsLargeIn(b, i) => IsStored(c, i)
<1>1. \A i : IsLargeIn(c, i) <=> IsLargeIn(b, i) BY DEF IsLargeIn
<1>2. ASSUME NEW i \in DOMAIN b.operands, isConstant(b.operands[i]), ~ IsLargeIn(b, i)
      PROVE  IsStored(c, i)
  <2>1. HasValue(b, i) BY DEF HoldsValues
  <2>2. IsStored(b, i) BY <1>2, <2>1 DEF HasValue
  <2>3. c.operands[i] = b.operands[i] BY <1>2 DEF Placed
  <2> DEFINE location == b.operands[i].location
  <2>4. CASE b.operands[i].lifetime = "CONSTANT_COPY" BY <2>2, <2>3, <2>4 DEF IsStored
  <2>5. CASE b.operands[i].lifetime # "CONSTANT_COPY"
    <3>1. /\ location.pool \in 0 .. Len(b.pools) - 1
          /\ IsAt(b.pools[location.pool + 1].bytes, location.offset, b.given[i][1])
      BY <2>2, <2>5 DEF IsStored
    <3>2. Len(b.pools) \in Nat /\ Len(c.pools) \in Nat BY DEF HoldsValues
    <3>3. location.pool \in 0 .. Len(c.pools) - 1 /\ location.pool + 1 \in 1 .. Len(b.pools)
      BY <3>1, <3>2
    <3>4. c.pools[location.pool + 1] = b.pools[location.pool + 1] BY <3>3
    <3> QED BY <2>3, <2>5, <3>1, <3>3, <3>4 DEF IsStored
  <2> QED BY <2>4, <2>5
<1>3. ASSUME NEW i \in DOMAIN b.operands PROVE HasValue(c, i)
  <2>1. HasValue(b, i) BY DEF HoldsValues
  <2>2. /\ {"type", "dims", "location"} \subseteq DOMAIN c.operands[i]
        /\ c.operands[i].type = b.operands[i].type /\ c.operands[i].dims = b.operands[i].dims
        /\ c.operands[i].lifetime = b.operands[i].lifetime
        /\ DOMAIN c.operands[i].location = DOMAIN b.operands[i].location
        /\ c.operands[i].location.length = b.operands[i].location.length
    BY <2>1 DEF Placed, HasValue
  <2>3. isConstant(c.operands[i]) <=> isConstant(b.operands[i]) BY <2>2 DEF isConstant
  <2> QED BY <1>1, <1>2, <2>1, <2>2, <2>3 DEF HasValue
<1>4. ASSUME NEW n \in DOMAIN b.large PROVE IsLargeValue(c, n)
  <2>1. IsLargeValue(b, n) BY DEF HoldsValues
  <2>2. IsLargeIn(b, b.large[n].index) BY DEF IsLargeIn
  <2>3. SizeOf(c.operands[b.large[n].index]) = SizeOf(b.operands[b.large[n].index])
    BY <2>1, <2>2, SizeIs DEF IsLargeValue, Placed
  <2> QED BY <2>1, <2>2, <2>3 DEF IsLargeValue, Placed
<1>5. DOMAIN c.operands = DOMAIN b.operands BY DEF Placed
<1> QED BY <1>2, <1>3, <1>4, <1>5 DEF HoldsValues

LEMMA CopyLargeHolds ==
  ASSUME NEW b, NEW created, IsBuilder(b), HoldsValues(b), ~ b.completed
  PROVE  /\ HoldsValues(CopyLargeValues(b, created))
         /\ created \/ b.large = <<>> => AllStored(CopyLargeValues(b, created))
<1> DEFINE placed == PlaceLargeValues(b)
           operands == placed.operands
           memory == SharedMemory(b)
           moved(i) == [b.operands[i] EXCEPT !.location.offset = memory.offsets[LargeAt(b, i)]]
           pooled == [i \in DOMAIN operands |->
                         IF \E n \in DOMAIN b.large : b.large[n].index = i
                         THEN [operands[i] EXCEPT !.location.pool = Len(b.pools)]
                         ELSE operands[i]]
           pool == [name |-> "ashmem", bytes |-> placed.bytes]
           c == [b EXCEPT !.operands = operands]
           d == [b EXCEPT !.operands = pooled, !.pools = Append(@, pool)]
<1>1. DOMAIN b = BuilderFields BY BuilderDomain
<1>2. CASE b.large = <<>>
  <2>1. CopyLargeValues(b, created) = b BY <1>2 DEF CopyLargeValues
  <2>2. \A i : ~ IsLargeIn(b, i) BY <1>2 DEF IsLargeIn
  <2>3. AllStored(b) BY <2>2 DEF AllStored, HoldsValues, HasValue
  <2> QED BY <2>1, <2>3
<1>3. ASSUME b.large # <<>> PROVE CopyLargeValues(b, created) = IF created THEN d ELSE c
  BY <1>3, Zenon DEF CopyLargeValues
<1>13. ASSUME NEW n \in DOMAIN b.large
       PROVE  /\ b.large[n].buffer \in Seq(Byte)
              /\ \E value \in Seq(Byte) : /\ b.given[b.large[n].index] = << value >>
                                         /\ b.operands[b.large[n].index].location.length = Len(value)
  <2>1. b.large[n] \in LargeValue /\ IsLargeValue(b, n) BY DEF HoldsValues
  <2>2. HasValue(b, b.large[n].index) /\ isConstant(b.operands[b.large[n].index])
    BY <2>1 DEF HoldsValues, IsLargeValue, isConstant
  <2> QED BY <2>1, <2>2 DEF HasValue, LargeValue
<1> DEFINE values == [n \in 1 .. Len(b.large) |-> LargeBytes(b, n)]
<1>4. memory \in Memory /\ Holds(memory, values, Len(b.large))
  <2>1. b.large \in Seq(LargeValue) BY DEF HoldsValues
  <2>2. \A n \in DOMAIN b.large : b.operands[b.large[n].index].location.length \in Nat BY <1>13
  <2> QED BY <2>1, <2>2, MemoryHolds
<1>5. /\ DOMAIN operands = DOMAIN b.operands /\ placed.bytes = memory.bytes
      /\ \A i \in DOMAIN b.operands :
           operands[i] = IF LargeAt(b, i) = 0 THEN b.operands[i] ELSE moved(i)
  BY Zenon DEF PlaceLargeValues, LargeAt
<1> HIDE DEF operands, memory, placed
<1>6. DOMAIN b.large = 1 .. Len(b.large) /\ Len(b.large) \in Nat BY DEF HoldsValues
<1>7. ASSUME NEW i \in DOMAIN b.operands
      PROVE  IF IsLargeIn(b, i)
             THEN /\ LargeAt(b, i) \in DOMAIN b.large /\ b.large[LargeAt(b, i)].index = i
                  /\ operands[i] = moved(i)
             ELSE operands[i] = b.operands[i]
  BY <1>5, <1>6, LargeIsAt
<1>8. ASSUME NEW i \in DOMAIN b.operands
      PROVE  /\ DOMAIN moved(i) = DOMAIN b.operands[i]
             /\ {"type", "dims", "location"} \subseteq DOMAIN b.operands[i]
             /\ moved(i).type = b.operands[i].type /\ moved(i).dims = b.operands[i].dims
             /\ moved(i).lifetime = b.operands[i].lifetime
             /\ DOMAIN moved(i).location = {"pool", "offset", "length"}
             /\ DOMAIN b.operands[i].location = {"pool", "offset", "length"}
             /\ moved(i).location.length = b.operands[i].location.length
             /\ moved(i).location.offset = memory.offsets[LargeAt(b, i)]
  <2>1. HasValue(b, i) /\ "lifetime" \in DOMAIN b.operands[i]
    BY DEF HoldsValues, IsBuilder, HasFields
  <2> QED BY <2>1 DEF HasValue
<1> HIDE DEF moved
<1>9. Placed(b, operands) BY <1>5, <1>7, <1>8 DEF Placed
<1>10. HoldsValues(c)
  <2>1. /\ c.operands = operands /\ c.given = b.given
        /\ c.small = b.small /\ c.pools = b.pools /\ c.large = b.large /\ c.completed = b.completed
    BY <1>1 DEF BuilderFields
  <2> HIDE DEF c
  <2>2. c.pools \in Seq(Pool) /\ Len(b.pools) <= Len(c.pools) BY <2>1 DEF HoldsValues
  <2> QED BY <1>9, <2>1, <2>2, PlacedHolds
<1>11. HoldsValues(d) /\ AllStored(d)
  <2>1. DOMAIN pooled = DOMAIN b.operands BY <1>5
  <2>2. ASSUME NEW i \in DOMAIN b.operands
        PROVE  IF IsLargeIn(b, i) THEN pooled[i] = [moved(i) EXCEPT !.location.pool = Len(b.pools)]
               ELSE pooled[i] = b.operands[i]
    BY <1>5, <1>7 DEF IsLargeIn
  <2> HIDE DEF pooled
  <2>3. ASSUME NEW i \in DOMAIN b.operands, IsLargeIn(b, i)
        PROVE  /\ {"type", "dims", "location"} \subseteq DOMAIN pooled[i]
               /\ pooled[i].type = b.operands[i].type /\ pooled[i].dims = b.operands[i].dims
               /\ pooled[i].lifetime = b.operands[i].lifetime
               /\ DOMAIN pooled[i].location = DOMAIN b.operands[i].location
               /\ pooled[i].location.length = b.operands[i].location.length
               /\ pooled[i].location.offset = memory.offsets[LargeAt(b, i)]
               /\ pooled[i].location.pool = Len(b.pools)
    <3> DEFINE old == moved(i)
               op == pooled[i]
               number == Len(b.pools)
    <3>1. op = [old EXCEPT !.location.pool = number] BY <2>2, <2>3
    <3>2. /\ {"type", "dims", "location"} \subseteq DOMAIN old
          /\ old.type = b.operands[i].type /\ old.dims = b.operands[i].dims
          /\ old.lifetime = b.operands[i].lifetime
          /\ DOMAIN old.location = DOMAIN b.operands[i].location
          /\ DOMAIN old.location = {"pool", "offset", "length"}
          /\ old.location.length = b.operands[i].location.length
          /\ old.location.offset = memory.offsets[LargeAt(b, i)]
      BY <1>8
    <3> HIDE DEF old, op, number
    <3>3. /\ {"type", "dims", "location"} \subseteq DOMAIN op
          /\ op.type = old.type /\ op.dims = old.dims /\ op.lifetime = old.lifetime
          /\ DOMAIN op.location = DOMAIN old.location
          /\ op.location.length = old.location.length /\ op.location.offset = old.location.offset
          /\ op.location.pool = number
      BY <3>1, <3>2
    <3> QED BY <3>2, <3>3 DEF op, number
  <2>4. Placed(b, pooled) BY <2>1, <2>2, <2>3 DEF Placed
  <2>5. pool \in Pool /\ pool.bytes = memory.bytes BY <1>4, <1>5 DEF Pool, Memory
  <2> HIDE DEF pool
  <2>6. /\ d.operands = pooled /\ d.given = b.given
        /\ d.small = b.small /\ d.pools = Append(b.pools, pool) /\ d.large = b.large
        /\ d.completed = b.completed
    BY <1>1 DEF BuilderFields
  <2> HIDE DEF d
  <2>7. b.pools \in Seq(Pool) BY DEF HoldsValues
  <2>8. /\ d.pools \in Seq(Pool) /\ Len(b.pools) \in Nat /\ Len(d.pools) = Len(b.pools) + 1
        /\ \A p \in 1 .. Len(b.pools) : d.pools[p] = b.pools[p]
        /\ d.pools[Len(b.pools) + 1] = pool
    BY <2>5, <2>6, <2>7, AppendProperties
  <2>9. /\ HoldsValues(d)
        /\ \A i \in DOMAIN b.operands :
             isConstant(b.operands[i]) /\ ~ IsLargeIn(b, i) => IsStored(d, i)
    <3>1. Len(b.pools) <= Len(d.pools) BY <2>8
    <3> QED BY <2>4, <2>6, <2>8, <3>1, PlacedHolds
  <2>10. ASSUME NEW i \in DOMAIN b.operands, IsLargeIn(b, i) PROVE IsStored(d, i)
    <3> DEFINE n == LargeAt(b, i)
    <3>1. /\ n \in DOMAIN b.large /\ b.large[n].index = i
          /\ b.given[i] = << b.large[n].buffer >>
      BY <1>7, <2>10, LargeIsAt
    <3> HIDE DEF n
    <3>2. b.operands[i].lifetime = "CONSTANT_REFERENCE"
      BY <3>1 DEF HoldsValues, IsLargeValue
    <3>3. d.given[i][1] = b.large[n].buffer BY <2>6, <3>1
    <3>4. IsAt(memory.bytes, memory.offsets[n], b.large[n].buffer)
      <4>1. b.large[n].buffer \in Seq(Byte)
            /\ b.operands[i].location.length = Len(b.large[n].buffer)
        BY <1>13, <3>1
      <4>2. b.operands[b.large[n].index].location.length \in Nat BY <3>1, <4>1
      <4>3. LargeBytes(b, n) = b.large[n].buffer BY <3>1, <4>1, <4>2, LargeBytesType
      <4>4. n \in 1 .. Len(b.large) BY <1>6, <3>1
      <4>5. values[n] = b.large[n].buffer BY <4>3, <4>4
      <4> QED BY <1>4, <4>4, <4>5 DEF Holds
    <3>5. /\ d.operands[i].lifetime = "CONSTANT_REFERENCE"
          /\ d.operands[i].location.pool = Len(b.pools)
          /\ d.operands[i].location.offset = memory.offsets[n]
      BY <2>3, <2>6, <2>10, <3>2 DEF n
    <3>6. Len(b.pools) \in 0 .. Len(d.pools) - 1 BY <2>8
    <3> QED BY <2>5, <2>8, <3>3, <3>4, <3>5, <3>6 DEF IsStored
  <2>11. ASSUME NEW i \in DOMAIN d.operands, isConstant(d.operands[i]) PROVE IsStored(d, i)
    <3>1. i \in DOMAIN b.operands BY <2>1, <2>6
    <3>2. CASE IsLargeIn(b, i) BY <2>10, <3>1, <3>2
    <3>3. CASE ~ IsLargeIn(b, i)
      <4>1. d.operands[i] = b.operands[i] BY <2>2, <2>6, <3>1, <3>3
      <4> QED BY <2>9, <2>11, <3>1, <3>3, <4>1
    <3> QED BY <3>2, <3>3
  <2> QED BY <2>9, <2>11 DEF AllStored
<1> HIDE DEF c, d
<1>12. CASE b.large # <<>> BY <1>3, <1>10, <1>11, <1>12
<1> QED BY <1>2, <1>12

LEMMA FinishHolds ==
  ASSUME NEW b, NEW created, IsBuilder(b), HoldsValues(b)
  PROVE  HoldsValues(Finish(b, created))
<1> DEFINE copied == CopyLargeValues(b, created)
           order == SortIntoRunOrder(copied)
           operations == [k \in DOMAIN order |-> copied.operations[order[k]]]
           c == [copied EXCEPT !.operations = operations, !.sorted = order, !.completed = TRUE]
           d == [copied EXCEPT !.invalid = TRUE]
<1>1. CASE BadState(b) BY <1>1 DEF Finish
<1>2. CASE ~ BadState(b)
  <2>1. ~ b.completed BY <1>2 DEF BadState
  <2>2. IsBuilder(copied) /\ ~ copied.completed BY <2>1, CopyLargeIsBuilder
  <2>3. HoldsValues(copied) /\ (created \/ b.large = <<>> => AllStored(copied))
    BY <2>1, CopyLargeHolds
  <2>4. \/ Finish(b, created) = copied
        \/ (created \/ b.large = <<>>) /\ Finish(b, created) \in {c, d}
    <3>1. \/ Finish(b, created) = copied
          \/ (created \/ b.large = <<>>) /\ Finish(b, created) = FinishCopied(copied)
      BY <1>2, Zenon DEF Finish
    <3>2. FinishCopied(copied) \in {c, d}
      <4>1. Reordered(copied, order) = c BY DEF Reordered
      <4> HIDE DEF c
      <4> QED BY <4>1, Zenon DEF FinishCopied
    <3> HIDE DEF copied, c, d
    <3> QED BY <3>1, <3>2
  <2> HIDE DEF copied, order, operations
  <2>5. DOMAIN copied = BuilderFields BY <2>2, BuilderDomain
  <2>6. \A j \in DOMAIN copied.operands : {"type", "dims", "location"} \subseteq DOMAIN copied.operands[j]
    BY <2>3 DEF HoldsValues, HasValue
  <2>7. ASSUME AllStored(copied) PROVE HoldsValues(c)
    <3>1. /\ c.operands = copied.operands /\ c.given = copied.given
          /\ c.small = copied.small /\ c.pools = copied.pools /\ c.large = copied.large
      BY <2>5 DEF BuilderFields
    <3> HIDE DEF c
    <3> QED BY <2>3, <2>6, <2>7, <3>1, SameValues DEF AllStored
  <2>8. HoldsValues(d)
    <3>1. /\ d.operands = copied.operands /\ d.given = copied.given
          /\ d.small = copied.small /\ d.pools = copied.pools /\ d.large = copied.large
          /\ d.completed = copied.completed
      BY <2>5 DEF BuilderFields
    <3> HIDE DEF d
    <3> QED BY <2>3, <2>6, <3>1, SameValues
  <2> HIDE DEF c, d
  <2> QED BY <2>3, <2>4, <2>7, <2>8
<1> QED BY <1>1, <1>2

LEMMA HoldsStep ==
  ASSUME IsBuilder(builder), HoldsValues(builder), BuilderNext
  PROVE  HoldsValues(builder)'
<1>1. CASE addOperand
  <2> DEFINE n == Len(builder.operands) + 1
  <2>1. PICK t \in Declarations[n] : builder' = AddOperand(builder, t) BY <1>1 DEF addOperand
  <2>2. n \in DOMAIN Declarations
    <3>1. PICK k \in Nat : builder.operands = [i \in 1 .. k |-> builder.operands[i]]
      BY DEF IsBuilder, IsArray
    <3>2. Len(builder.operands) = k BY <3>1, AppendIs
    <3>3. k < Len(Declarations) BY <1>1, <3>2 DEF addOperand
    <3> QED BY <3>2, <3>3, DeclarationsAssumption
  <2> HIDE DEF n
  <2>3. t \in UNION Range(Declarations) BY <2>1, <2>2 DEF Range
  <2>4. t.type \in Types /\ t.dims \in Seq(Nat) BY <2>3, DeclarationsAssumption DEF Types
  <2> QED BY <2>1, <2>4, AddOperandHolds
<1>2. CASE setOperandValue
  <2>1. PICK i \in Constants \cap DOMAIN builder.operands :
          \/ builder' = SetOperandValue(builder, i, NextValue(i))
          \/ ~ IsLarge(i) /\ builder' = OmitOperandValue(builder, i)
    BY <1>2 DEF setOperandValue
  <2>2. CASE builder' = SetOperandValue(builder, i, NextValue(i))
    <3> DEFINE size == SizeOf(builder.operands[i])
               buffer == NextValue(i)
    <3>1. HasValue(builder, i) BY DEF HoldsValues
    <3>2. SizeOf(builder.operands[i]) \in Nat BY <3>1, SizeType DEF HasValue
    <3>3. i \in Nat
      <4>1. PICK k \in Nat : builder.operands = [j \in 1 .. k |-> builder.operands[j]]
        BY DEF IsBuilder, IsArray
      <4>2. DOMAIN builder.operands = 1 .. k BY <4>1
      <4> QED BY <4>2
    <3>4. buffer \in Seq(Byte) /\ Len(buffer) = size
      <4>1. buffer \in {Bytes(i, size), Bytes(-i, size)} BY DEF NextValue
      <4> HIDE DEF size
      <4>2. i \in Int /\ -i \in Int /\ size \in Nat BY <3>2, <3>3 DEF size
      <4> HIDE DEF buffer
      <4> QED BY <4>1, <4>2, BytesType
    <3> HIDE DEF buffer
    <3>5. builder' = SetOperandValue(builder, i, buffer) BY <2>2 DEF buffer
    <3> QED BY <2>2, <3>3, <3>4, <3>5, SetOperandValueHolds
  <2>3. CASE ~ IsLarge(i) /\ builder' = OmitOperandValue(builder, i)
    BY <2>3, OmitHolds DEF IsLarge, IsLargeIn
  <2> QED BY <2>1, <2>2, <2>3
<1>3. CASE setOperandValueFromMemory
  <2>1. PICK i \in Constants \cap DOMAIN builder.operands, r \in Regions :
          ~ IsLarge(i) /\ builder' = SetOperandValueFromMemory(builder, i, AppMemory, r.offset, r.length)
    BY <1>3 DEF setOperandValueFromMemory
  <2>2. r.offset \in Nat /\ r.length \in Nat BY MemoryAssumption
  <2>3. AppMemory \in Pool
    <3>1. Bytes(0, MemoryBytes) \in Seq(Byte) BY MemoryAssumption, BytesType
    <3> QED BY <3>1 DEF AppMemory, Pool
  <2>4. ~ IsLargeIn(builder, i) BY <2>1 DEF IsLarge, IsLargeIn
  <2> QED BY <2>1, <2>2, <2>3, <2>4, FromMemoryHolds
<1>4. CASE setOperandSymmPerChannelQuantParams
  <2>1. PICK i, quant : builder' = SetOperandSymmPerChannelQuantParams(builder, i, quant)
    BY <1>4 DEF setOperandSymmPerChannelQuantParams
  <2> DEFINE extra == [kind |-> "channelQuant"] @@ quant
  <2> DEFINE c == [builder EXCEPT !.operands[i].extra = extra]
  <2>2. builder' = builder \/ builder' = c
    BY <2>1, Zenon DEF SetOperandSymmPerChannelQuantParams
  <2> HIDE DEF extra
  <2>3. HoldsValues(c) BY ExtraHolds, Zenon
  <2> HIDE DEF c
  <2> QED BY <2>2, <2>3
<1>5. CASE setOperandExtensionData
  <2>1. PICK i, data : builder' = SetOperandExtensionData(builder, i, data)
    BY <1>5 DEF setOperandExtensionData
  <2> DEFINE extra == IF data = <<>> THEN [kind |-> "none"] ELSE [kind |-> "extension", data |-> data]
  <2> DEFINE c == [builder EXCEPT !.operands[i].extra = extra]
  <2>2. builder' = builder \/ builder' = c
    BY <2>1, Zenon DEF SetOperandExtensionData
  <2> HIDE DEF extra
  <2>3. HoldsValues(c) BY ExtraHolds, Zenon
  <2> HIDE DEF c
  <2> QED BY <2>2, <2>3
<1>6. CASE addOperation BY <1>6, AddOperationHolds DEF addOperation
<1>7. CASE identifyInputsAndOutputs
  <2>1. PICK l \in Identifications : builder' = IdentifyInputsAndOutputs(builder, l.ins, l.outs)
    BY <1>7 DEF identifyInputsAndOutputs
  <2>2. l.ins \in Seq(Nat) /\ l.outs \in Seq(Nat) BY IdentificationsAssumption
  <2> QED BY <2>1, <2>2, IdentifyHolds
<1>8. CASE relaxComputationFloat32toFloat16
  <2> DEFINE c == [builder EXCEPT !.relaxed = TRUE]
  <2>1. builder' = builder \/ builder' = c
    BY <1>8 DEF relaxComputationFloat32toFloat16, RelaxComputation
  <2>2. /\ c.operands = builder.operands /\ c.given = builder.given
        /\ c.small = builder.small /\ c.pools = builder.pools /\ c.large = builder.large
        /\ c.completed = builder.completed
    BY DEF IsBuilder, Empty
  <2> HIDE DEF c
  <2>3. \A j \in DOMAIN builder.operands : {"type", "dims", "location"} \subseteq DOMAIN builder.operands[j]
    BY DEF HoldsValues, HasValue
  <2>4. HoldsValues(c) BY <2>2, <2>3, SameValues
  <2> QED BY <2>1, <2>4
<1>9. CASE finish BY <1>9, FinishHolds DEF finish
<1> QED BY <1>1, <1>2, <1>3, <1>4, <1>5, <1>6, <1>7, <1>8, <1>9 DEF BuilderNext

(* A finished model is left alone.                                            *)
LEMMA CompletedStays ==
  ASSUME builder.completed, BuilderNext
  PROVE  builder' = builder
<1>1. BadState(builder) BY DEF BadState
<1>2. CASE addOperand BY <1>1, <1>2 DEF addOperand, AddOperand
<1>3. CASE setOperandValue BY <1>1, <1>3, Zenon DEF setOperandValue, SetOperandValue, OmitOperandValue
<1>4. CASE setOperandValueFromMemory
  BY <1>1, <1>4, Zenon DEF setOperandValueFromMemory, SetOperandValueFromMemory
<1>5. CASE setOperandSymmPerChannelQuantParams
  BY <1>1, <1>5, Zenon DEF setOperandSymmPerChannelQuantParams, SetOperandSymmPerChannelQuantParams
<1>6. CASE setOperandExtensionData
  BY <1>1, <1>6, Zenon DEF setOperandExtensionData, SetOperandExtensionData
<1>7. CASE addOperation BY <1>1, <1>7, Zenon DEF addOperation, AddOperation
<1>8. CASE identifyInputsAndOutputs
  BY <1>1, <1>8, Zenon DEF identifyInputsAndOutputs, IdentifyInputsAndOutputs
<1>9. CASE relaxComputationFloat32toFloat16
  BY <1>1, <1>9 DEF relaxComputationFloat32toFloat16, RelaxComputation
<1>10. CASE finish BY <1>1, <1>10 DEF finish, Finish
<1> QED BY <1>2, <1>3, <1>4, <1>5, <1>6, <1>7, <1>8, <1>9, <1>10 DEF BuilderNext

(* What a run reads is the finished model's.                                  *)
Read ==
  /\ builder.completed /\ model = HidlModel(builder)
  /\ \A i \in DOMAIN builder.operands : isConstant(builder.operands[i]) =>
       mOperands[i].buffer = [at |-> "model", bytes |-> builder.given[i][1]]

ValuesInv == HeapInv /\ HoldsValues(builder) /\ (status = "running" => Read)

LEMMA ComputeReads ==
  ASSUME HeapInv, HoldsValues(builder), compute
  PROVE  Read'
<1> DEFINE m == HidlModel(builder)
<1>1. PICK request : Begin(m, request) BY DEF compute
<1>2. /\ builder.completed /\ builder' = builder /\ model' = m
      /\ mOperands' = initializeRunTimeInfo(m, request)
  BY <1>1 DEF compute, Begin
<1>3. ASSUME NEW i \in DOMAIN builder.operands, isConstant(builder.operands[i])
      PROVE  mOperands'[i].buffer = [at |-> "model", bytes |-> builder.given[i][1]]
  <2> DEFINE op == builder.operands[i]
             lists == m.inputIndexes \o m.outputIndexes
             bytes == ConstantBytes(m, op.location, op.lifetime)
             from == [type |-> op.type, dims |-> op.dims, lifetime |-> op.lifetime,
                      length |-> op.location.length,
                      buffer |-> IF isConstant(op) THEN [at |-> "model", bytes |-> bytes] ELSE Null,
                      uses |-> IF op.lifetime = "TEMPORARY_VARIABLE" THEN op.consumers ELSE 0]
  <2>1. /\ m.operands = builder.operands /\ m.values = builder.small /\ m.pools = builder.pools
        /\ m.inputIndexes = builder.inputIndexes /\ m.outputIndexes = builder.outputIndexes
    BY DEF HidlModel
  <2> HIDE DEF m
  <2>2. i \notin Range(lists)
    <3>1. Range(lists) = Range(m.inputIndexes) \cup Range(m.outputIndexes)
      BY <2>1, RangeOfConcat DEF HeapInv, IsBuilder
    <3>2. \A j \in Range(lists) : builder.operands[j].lifetime \in {"MODEL_INPUT", "MODEL_OUTPUT"}
      BY <1>2, <2>1, <3>1 DEF HeapInv, IsBuilder, Lists
    <3> QED BY <1>3, <3>2 DEF isConstant
  <2>3. mOperands'[i] = from
    BY <1>2, <2>1, <2>2, Zenon DEF initializeRunTimeInfo
  <2>4. from.buffer = [at |-> "model", bytes |-> bytes] BY <1>3
  <2> HIDE DEF from
  <2>5. HasValue(builder, i) BY DEF HoldsValues
  <2>6. PICK value \in Seq(Byte) : builder.given[i] = << value >> /\ op.location.length = Len(value)
    BY <1>3, <2>5 DEF HasValue
  <2>7. builder.given[i][1] = value BY <2>6
  <2>8. IsStored(builder, i) BY <1>2, <1>3, <2>5 DEF HasValue
  <2> DEFINE place == IF op.lifetime = "CONSTANT_COPY" THEN m.values
                      ELSE m.pools[op.location.pool + 1].bytes
  <2>9. place \in Seq(Byte) /\ IsAt(place, op.location.offset, value)
    <3>1. CASE op.lifetime = "CONSTANT_COPY" BY <2>1, <2>7, <2>8, <3>1 DEF IsStored, HoldsValues
    <3>2. CASE op.lifetime # "CONSTANT_COPY"
      <4> DEFINE number == op.location.pool
      <4>1. number \in 0 .. Len(builder.pools) - 1
            /\ IsAt(builder.pools[number + 1].bytes, op.location.offset, value)
        BY <2>7, <2>8, <3>2 DEF IsStored
      <4>2. builder.pools \in Seq(Pool) BY DEF HoldsValues
      <4>3. place = builder.pools[number + 1].bytes BY <2>1, <3>2
      <4> HIDE DEF number, place
      <4>4. builder.pools[number + 1] \in Pool
        <5>1. number + 1 \in 1 .. Len(builder.pools) BY <4>1, <4>2
        <5> QED BY <4>2, <5>1
      <4> QED BY <4>1, <4>3, <4>4 DEF Pool
    <3> QED BY <3>1, <3>2
  <2>10. bytes = SubSeq(place, op.location.offset + 1, op.location.offset + op.location.length)
    BY DEF ConstantBytes
  <2> HIDE DEF bytes, place
  <2>11. bytes = value BY <2>6, <2>9, <2>10, ReadBack
  <2> QED BY <2>3, <2>4, <2>7, <2>11
<1> HIDE DEF m
<1>4. model' = HidlModel(builder) BY <1>2 DEF m
<1> QED BY <1>2, <1>3, <1>4 DEF Read

(* A step of the run leaves the constants alone.                              *)
LEMMA ConstantsStay ==
  ASSUME HeapInv, Read, status = "running", builder' = builder, model' = model,
         NEW s, NEW operation \in Range(model.operations), Leaves(s, operation.outs),
         mOperands' = freeNoLongerUsedOperands(s.infos, operation.ins)
  PROVE  Read'
<1> SUFFICES ASSUME NEW i \in DOMAIN builder.operands, isConstant(builder.operands[i])
             PROVE  mOperands'[i] = mOperands[i]
  BY DEF Read
<1>1. model.operands = builder.operands BY DEF Read, HidlModel
<1>2. RunsInOrder(model) /\ DOMAIN mOperands = DOMAIN model.operands
      /\ mOperands[i].lifetime \in {model.operands[i].lifetime, "NO_VALUE"}
  BY <1>1 DEF HeapInv, Running
<1>3. i \notin Range(operation.outs)
  <2>1. PICK o \in DOMAIN model.operations : operation = model.operations[o] BY DEF Range
  <2> DEFINE C == {j \in DOMAIN model.operands : Computed(model.operands[j])}
  <2> HIDE DEF C
  <2>2. operation.outs \in Seq(C) BY <1>2, <2>1 DEF RunsInOrder, C
  <2>3. Range(operation.outs) \subseteq C BY <2>2 DEF Range
  <2>4. i \notin C BY <1>1 DEF C, Computed, isConstant
  <2> QED BY <2>3, <2>4
<1>4. s.infos[i] = mOperands[i] /\ DOMAIN s.infos = DOMAIN mOperands BY <1>1, <1>2, <1>3 DEF Leaves
<1>5. mOperands[i].uses = 0
  <2>1. IsInfo(mOperands[i]) BY <1>1, <1>2 DEF HeapInv, AreInfos
  <2>2. mOperands[i].lifetime # "TEMPORARY_VARIABLE" BY <1>1, <1>2 DEF isConstant
  <2> QED BY <2>1, <2>2 DEF IsInfo
<1> QED BY <1>1, <1>2, <1>4, <1>5, Zenon DEF freeNoLongerUsedOperands

LEMMA ValuesStep ==
  ASSUME ValuesInv, [PathNext]_pathVars
  PROVE  ValuesInv'
<1> USE DEF ValuesInv
<1>1. HeapInv' BY HeapStep
<1>2. CASE BuilderNext /\ UNCHANGED cpuVars
  <2>1. HoldsValues(builder)' BY <1>2, HoldsStep DEF HeapInv
  <2>2. status = "running" => builder' = builder BY <1>2, CompletedStays DEF Read
  <2>3. status' = status /\ model' = model /\ mOperands' = mOperands BY <1>2 DEF cpuVars
  <2>4. status' = "running" => Read' BY <2>2, <2>3 DEF Read
  <2> QED BY <1>1, <2>1, <2>4
<1>3. CASE compute
  <2>1. Read' BY <1>3, ComputeReads
  <2>2. builder' = builder BY <1>3 DEF compute
  <2> QED BY <1>1, <2>1, <2>2
<1>4. CASE CpuNext /\ UNCHANGED builder
  <2> SUFFICES ASSUME status' = "running" PROVE Read' BY <1>1, <1>4
  <2>1. CASE refuseOperation
    <3>1. PICK operation \in Range(model.operations) : cpuFinish(mOperands, heap, Refusal(operation))
      BY <2>1 DEF refuseOperation
    <3>2. status' # "running" BY <3>1, RefusalKinds DEF cpuFinish
    <3> QED BY <3>2
  <2>2. CASE failPrepare
    <3>1. status' \in {"OP_FAILED", "BAD_DATA"} BY <2>2 DEF failPrepare, cpuFinish
    <3> QED BY <3>1
  <2>3. CASE completeRun
    <3>1. status' = "NO_ERROR" BY <2>3 DEF completeRun, cpuFinish
    <3> QED BY <3>1
  <2>4. CASE executeOperation
    <3>1. PICK operation \in Range(model.operations) :
            /\ RunningOperation(operation) /\ Refusal(operation) = "none"
            /\ \E dims \in ComputedDims(Len(operation.outs)), evaluates \in BOOLEAN :
                 \E s \in Outcomes(operation, dims, evaluates) :
                   IF s.result = "NO_ERROR"
                   THEN /\ mOperands' = freeNoLongerUsedOperands(s.infos, operation.ins)
                        /\ UNCHANGED << model, status >>
                   ELSE cpuFinish(s.infos, s.heap, s.result)
      BY <2>4 DEF executeOperation
    <3>2. PICK dims \in ComputedDims(Len(operation.outs)), evaluates \in BOOLEAN :
            \E s \in Outcomes(operation, dims, evaluates) :
              IF s.result = "NO_ERROR"
              THEN /\ mOperands' = freeNoLongerUsedOperands(s.infos, operation.ins)
                   /\ UNCHANGED << model, status >>
              ELSE cpuFinish(s.infos, s.heap, s.result)
      BY <3>1
    <3>3. PICK s \in Outcomes(operation, dims, evaluates) :
            IF s.result = "NO_ERROR"
            THEN /\ mOperands' = freeNoLongerUsedOperands(s.infos, operation.ins)
                 /\ UNCHANGED << model, status >>
            ELSE cpuFinish(s.infos, s.heap, s.result)
      BY <3>2
    <3>4. status = "running" BY <3>1 DEF RunningOperation
    <3>5. AreInfos(mOperands) /\ heap \in Int BY DEF HeapInv
    <3>6. Leaves(s, operation.outs) BY <3>1, <3>4, <3>5, RunningOuts, OutcomesLeave
    <3>7. CASE s.result = "NO_ERROR" BY <1>4, <3>3, <3>4, <3>6, <3>7, ConstantsStay
    <3>8. CASE s.result # "NO_ERROR"
      <4>1. status' = s.result BY <3>3, <3>8 DEF cpuFinish
      <4>2. s.result # "running" BY <3>6 DEF Leaves, Results
      <4> QED BY <4>1, <4>2
    <3> QED BY <3>7, <3>8
  <2> QED BY <1>4, <2>1, <2>2, <2>3, <2>4 DEF CpuNext
<1>5. CASE UNCHANGED pathVars
  <2>1. /\ builder' = builder /\ model' = model /\ mOperands' = mOperands /\ status' = status
    BY <1>5 DEF pathVars, cpuVars
  <2> QED BY <1>1, <2>1 DEF Read
<1> QED BY <1>2, <1>3, <1>4, <1>5 DEF PathNext

(* Whatever the calls are that give an operand its value, in whatever order,    *)
(* and however often finish fails to create its memory: what a run reads of a  *)
(* constant is, byte by byte, what the application gave last.                  *)
THEOREM ValuesKept == PathSpec => []ValuesAsGiven
<1>1. builder = Empty /\ CpuInit => ValuesInv
  <2>1. CpuInit => status # "running" BY DEF CpuInit
  <2> QED BY <2>1, InitHeap, EmptyHolds DEF ValuesInv
<1>2. ValuesInv /\ [PathNext]_pathVars => ValuesInv' BY ValuesStep
<1>3. ValuesInv => ValuesAsGiven
  BY DEF ValuesInv, ValuesAsGiven, Read, HoldsValues, HasValue
<1> QED BY <1>1, <1>2, <1>3, PTL DEF PathSpec

-----------------------------------------------------------------------------
(* hardNmsSingleClass: for any boxes, scores, threshold and maximum.           *)


BoxIndices == DOMAIN call.scores
Positions == 1 .. Len(call.select)

NmsTypes ==
  /\ IsCall(call)
  /\ scoresData = call.scores
  /\ select \in [Positions -> BoxIndices]
  /\ selectStart \in Nat \ {0} /\ selectEnd \in Nat /\ compared \in Nat
  /\ selectStart <= selectEnd + 1 /\ selectEnd <= Len(call.select)
  /\ compared > 0 => selectStart < compared /\ compared <= selectEnd + 1

(* No box gets lost.                                                        *)
Permuted == \A n \in Positions : \E p \in Positions : select[p] = call.select[n]

(* The box of the round counts as kept.                                       *)
IsKeptAt(p) == p \in Nat \ {0} /\ (p < selectStart \/ (compared > 0 /\ p = selectStart))

Better(b, d) == scoresData[d] <= scoresData[b]

(* What is kept overlaps nothing that has been compared with it and is left,    *)
(* and is no worse than anything that is left.                                *)
Apart ==
  \A p, q \in 1 .. selectEnd : p < q =>
    /\ p < selectStart => ~ Overlaps(call, select[q], select[p])
    /\ compared > 0 /\ p = selectStart /\ q < compared => ~ Overlaps(call, select[q], select[p])

Sorted == \A p, q \in 1 .. selectEnd : IsKeptAt(p) /\ p < q => Better(select[p], select[q])

(* What is discarded overlaps a box that is kept and no worse.                 *)
Reasons ==
  \A d \in Positions : d > selectEnd =>
    \E p \in Positions : /\ IsKeptAt(p) /\ Overlaps(call, select[d], select[p])
                         /\ Better(select[p], select[d])

NmsInv == NmsTypes /\ Permuted /\ Apart /\ Sorted /\ Reasons
HardInv == call.kernel = Hard => NmsInv

(* What a swap does to the positions of the array.                             *)
LEMMA SwapKeeps ==
  ASSUME NmsTypes, Permuted, NEW p \in Positions, NEW q \in Positions,
         call' = call, select' = Swap(select, p, q)
  PROVE  Permuted'
<1>1. Positions' = Positions
  BY DEF Positions
<1>2. ASSUME NEW n \in Positions
      PROVE  \E k \in Positions : select'[k] = call.select[n]
  <2>1. PICK k \in Positions : select[k] = call.select[n]
    BY DEF Permuted
  <2>2. select \in [Positions -> BoxIndices]
    BY DEF NmsTypes
  <2>3. k # p /\ k # q => select'[k] = select[k]
    BY <2>2 DEF Swap
  <2>4. select'[p] = select[q] /\ select'[q] = select[p]
    BY <2>2 DEF Swap
  <2> QED
    BY <2>1, <2>3, <2>4
<1> QED
  BY <1>1, <1>2 DEF Permuted

-----------------------------------------------------------------------------
LEMMA InitHard == NmsInit => HardInv
<1> SUFFICES ASSUME NmsInit PROVE NmsInv
  BY DEF HardInv
<1>1. IsCall(call)
  BY CallsAssumption DEF NmsInit
<1>2. select \in [Positions -> BoxIndices] /\ Len(call.select) \in Nat
  BY <1>1 DEF NmsInit, IsCall, Positions, BoxIndices
<1>3. NmsTypes
  BY <1>1, <1>2 DEF NmsInit, NmsTypes
<1>4. Permuted
  BY DEF NmsInit, Permuted
<1>5. selectStart = 1 /\ compared = 0 /\ selectEnd = Len(call.select)
  BY DEF NmsInit
<1>6. Apart /\ Sorted /\ Reasons
  BY <1>2, <1>5 DEF Apart, Sorted, Reasons, IsKeptAt, Positions
<1> QED
  BY <1>3, <1>4, <1>6 DEF NmsInv

LEMMA PickInv ==
  ASSUME NmsInv, PickBest
  PROVE  NmsInv'
<1>1. /\ compared = 0 /\ selectStart <= selectEnd /\ compared' = selectStart + 1
      /\ call' = call /\ scoresData' = scoresData
      /\ selectStart' = selectStart /\ selectEnd' = selectEnd
  BY DEF PickBest
<1>2. PICK b \in Best : select' = Swap(select, b, selectStart)
  BY DEF PickBest
<1> DEFINE S == selectStart
           E == selectEnd
<1>3. /\ IsCall(call) /\ scoresData = call.scores /\ select \in [Positions -> BoxIndices]
      /\ S \in Nat \ {0} /\ E \in Nat /\ E <= Len(call.select) /\ Len(call.select) \in Nat
  BY DEF NmsInv, NmsTypes, IsCall
<1>4. /\ b \in S .. E /\ \A q \in S .. E : scoresData[select[q]] <= scoresData[select[b]]
  BY <1>2 DEF Best
<1>5. b \in Positions /\ S \in Positions
  BY <1>1, <1>3, <1>4 DEF Positions
<1>6. /\ select' \in [Positions -> BoxIndices]
      /\ select'[b] = select[S] /\ select'[S] = select[b]
      /\ \A k \in Positions : k # b /\ k # S => select'[k] = select[k]
  BY <1>2, <1>3, <1>5 DEF Swap
<1>7. Positions' = Positions /\ BoxIndices' = BoxIndices
  BY <1>1 DEF Positions, BoxIndices
<1>8. NmsTypes'
  BY <1>1, <1>3, <1>6, <1>7 DEF NmsInv, NmsTypes
<1>9. Permuted'
  BY <1>1, <1>2, <1>5, SwapKeeps DEF NmsInv
<1>10. \A k \in 1 .. E : k < S => select'[k] = select[k]
  BY <1>3, <1>4, <1>5, <1>6 DEF Positions
<1>11. \A k \in 1 .. E : k >= S => \E j \in S .. E : select'[k] = select[j]
  <2> SUFFICES ASSUME NEW k \in 1 .. E, k >= S PROVE \E j \in S .. E : select'[k] = select[j]
    OBVIOUS
  <2>1. k \in Positions /\ k \in S .. E
    BY <1>3 DEF Positions
  <2>2. CASE k = b
    BY <2>2, <1>1, <1>3, <1>6
  <2>3. CASE k = S
    BY <2>3, <1>4, <1>6
  <2>4. CASE k # b /\ k # S
    BY <2>1, <2>4, <1>6
  <2> QED
    BY <2>2, <2>3, <2>4
<1>12. Apart'
  <2> SUFFICES ASSUME NEW p \in 1 .. E, NEW q \in 1 .. E, p < q, p < S
               PROVE  ~ Overlaps(call, select'[q], select'[p])
    BY <1>1, <1>3 DEF Apart
  <2>1. PICK j \in 1 .. E : p < j /\ select'[q] = select[j]
    BY <1>3, <1>10, <1>11
  <2> QED
    BY <2>1, <1>10 DEF NmsInv, Apart
<1>13. Sorted'
  <2> SUFFICES ASSUME NEW p \in 1 .. E, NEW q \in 1 .. E, p < q, p < S \/ p = S
               PROVE  scoresData[select'[q]] <= scoresData[select'[p]]
    BY <1>1, <1>3 DEF Sorted, IsKeptAt, Better
  <2>1. CASE p < S
    <3>1. PICK j \in 1 .. E : p < j /\ select'[q] = select[j]
      BY <2>1, <1>3, <1>10, <1>11
    <3>2. IsKeptAt(p)
      BY <2>1, <1>3 DEF IsKeptAt
    <3> QED
      BY <2>1, <3>1, <3>2, <1>10 DEF NmsInv, Sorted, Better
  <2>2. CASE p = S
    <3>1. PICK j \in S .. E : select'[q] = select[j]
      BY <2>2, <1>3, <1>11
    <3> QED
      BY <2>2, <3>1, <1>4, <1>6
  <2> QED
    BY <2>1, <2>2
<1>14. Reasons'
  <2> SUFFICES ASSUME NEW d \in Positions, d > E
               PROVE  \E p \in Positions : /\ IsKeptAt(p)' /\ Overlaps(call, select'[d], select'[p])
                                           /\ scoresData[select'[d]] <= scoresData[select'[p]]
    BY <1>1, <1>7 DEF Reasons, Better
  <2>1. PICK p \in Positions : /\ IsKeptAt(p) /\ Overlaps(call, select[d], select[p])
                               /\ Better(select[p], select[d])
    BY DEF NmsInv, Reasons
  <2>2. p < S /\ IsKeptAt(p)'
    BY <2>1, <1>1 DEF IsKeptAt
  <2>3. select'[d] = select[d] /\ select'[p] = select[p]
    BY <2>1, <2>2, <1>3, <1>4, <1>6 DEF Positions
  <2> QED
    BY <2>1, <2>2, <2>3 DEF Better
<1> QED
  BY <1>8, <1>9, <1>12, <1>13, <1>14 DEF NmsInv

LEMMA KeepInv ==
  ASSUME NmsInv, call.kernel = Hard, Compare,
         ~ Overlaps(call, select[compared], select[selectStart])
  PROVE  NmsInv'
<1>1. /\ compared > 0 /\ compared <= selectEnd /\ call' = call /\ selectStart' = selectStart
      /\ compared' = compared + 1 /\ select' = select /\ selectEnd' = selectEnd
      /\ scoresData' = [scoresData EXCEPT ![select[compared]] = scoresData[select[compared]]]
  BY DEF Compare, IsDiscarded, Decayed
<1>2. scoresData' = scoresData
  BY <1>1 DEF NmsInv, NmsTypes, IsCall
<1>3. NmsTypes'
  BY <1>1, <1>2 DEF NmsInv, NmsTypes, Positions, BoxIndices
<1>4. Apart'
  BY <1>1 DEF NmsInv, NmsTypes, Apart
<1>5. \A p : IsKeptAt(p)' <=> IsKeptAt(p)
  BY <1>1, compared \in Nat DEF IsKeptAt, NmsInv, NmsTypes
<1>6. Permuted' /\ Sorted' /\ Reasons'
  BY <1>1, <1>2, <1>5 DEF NmsInv, Permuted, Sorted, Reasons, Better, Positions
<1> QED
  BY <1>3, <1>4, <1>6 DEF NmsInv

LEMMA DiscardInv ==
  ASSUME NmsInv, call.kernel = Hard, Compare,
         Overlaps(call, select[compared], select[selectStart])
  PROVE  NmsInv'
<1> DEFINE S == selectStart
           E == selectEnd
           C == compared
<1>a. Decayed(call, scoresData[select[C]], select[C], select[S]) = scoresData[select[C]]
  BY DEF Decayed
<1>b. \A score : IsDiscarded(call, score, select[C], select[S])
  BY DEF IsDiscarded
<1>1. /\ C > 0 /\ C <= E /\ call' = call /\ selectStart' = S
      /\ compared' = C /\ select' = Swap(select, C, E) /\ selectEnd' = E - 1
      /\ scoresData' = [scoresData EXCEPT ![select[C]] = scoresData[select[C]]]
  BY <1>a, <1>b DEF Compare, AfterSwap
<1>2. scoresData' = scoresData
  BY <1>1 DEF NmsInv, NmsTypes, IsCall
<1>3. /\ IsCall(call) /\ scoresData = call.scores /\ select \in [Positions -> BoxIndices]
      /\ S \in Nat \ {0} /\ E \in Nat /\ C \in Nat /\ E <= Len(call.select)
      /\ Len(call.select) \in Nat /\ S < C
  BY <1>1 DEF NmsInv, NmsTypes, IsCall
<1>4. C \in Positions /\ E \in Positions /\ S \in Positions
  BY <1>1, <1>3 DEF Positions
<1>5. /\ select' \in [Positions -> BoxIndices]
      /\ select'[C] = select[E] /\ select'[E] = select[C]
      /\ \A k \in Positions : k # C /\ k # E => select'[k] = select[k]
  BY <1>1, <1>3, <1>4 DEF Swap
<1>6. Positions' = Positions /\ BoxIndices' = BoxIndices
  BY <1>1 DEF Positions, BoxIndices
<1>7. NmsTypes'
  BY <1>1, <1>2, <1>3, <1>5, <1>6 DEF NmsInv, NmsTypes
<1>8. Permuted'
  BY <1>1, <1>4, SwapKeeps DEF NmsInv
<1>9. \A k \in Positions : IsKeptAt(k) => IsKeptAt(k)' /\ k <= S /\ select'[k] = select[k]
  <2> SUFFICES ASSUME NEW k \in Positions, IsKeptAt(k)
               PROVE  IsKeptAt(k)' /\ k <= S /\ select'[k] = select[k]
    OBVIOUS
  <2>1. k <= S /\ IsKeptAt(k)'
    BY <1>1, <1>3 DEF IsKeptAt
  <2>2. k # C /\ k # E
    BY <2>1, <1>1, <1>3 DEF Positions
  <2> QED
    BY <2>1, <2>2, <1>5
<1>10. ASSUME NEW q \in 1 .. E - 1
       PROVE  /\ q # C => select'[q] = select[q]
              /\ q = C => select'[q] = select[E]
  BY <1>3, <1>5 DEF Positions
<1>11. \A p \in 1 .. E - 1 : p <= S => select'[p] = select[p]
  BY <1>3, <1>10
<1>12. Apart'
  <2> SUFFICES ASSUME NEW p \in 1 .. E - 1, NEW q \in 1 .. E - 1, p < q, p <= S,
                      p = S => q < C
               PROVE  ~ Overlaps(call, select'[q], select'[p])
    BY <1>1, <1>3 DEF Apart
  <2>1. select'[p] = select[p]
    BY <1>11
  <2>2. CASE q # C
    BY <2>1, <2>2, <1>1, <1>3, <1>10 DEF NmsInv, Apart
  <2>3. CASE q = C
    BY <2>1, <2>3, <1>1, <1>3, <1>10 DEF NmsInv, Apart
  <2> QED
    BY <2>2, <2>3
<1>13. Sorted'
  <2> SUFFICES ASSUME NEW p \in 1 .. E - 1, NEW q \in 1 .. E - 1, p < q, IsKeptAt(p)'
               PROVE  scoresData[select'[q]] <= scoresData[select'[p]]
    BY <1>1, <1>2 DEF Sorted, Better
  <2>1. IsKeptAt(p) /\ p <= S
    BY <1>1, <1>3 DEF IsKeptAt
  <2>2. PICK j \in 1 .. E : p < j /\ select'[q] = select[j]
    BY <1>3, <1>10
  <2> QED
    BY <2>1, <2>2, <1>3, <1>11 DEF NmsInv, Sorted, Better
<1>14. Reasons'
  <2> SUFFICES ASSUME NEW d \in Positions, d > E - 1
               PROVE  \E p \in Positions : /\ IsKeptAt(p)' /\ Overlaps(call, select'[d], select'[p])
                                           /\ scoresData[select'[d]] <= scoresData[select'[p]]
    BY <1>1, <1>2, <1>6 DEF Reasons, Better
  <2>1. CASE d = E
    <3>1. IsKeptAt(S)
      BY <1>1, <1>3 DEF IsKeptAt
    <3>2. Better(select[S], select[C])
      BY <3>1, <1>1, <1>3 DEF NmsInv, Sorted
    <3> QED
      BY <2>1, <3>1, <3>2, <1>4, <1>5, <1>9 DEF Better
  <2>2. CASE d > E
    <3>1. PICK p \in Positions : /\ IsKeptAt(p) /\ Overlaps(call, select[d], select[p])
                                 /\ Better(select[p], select[d])
      BY <2>2 DEF NmsInv, Reasons
    <3>2. select'[d] = select[d]
      BY <2>2, <1>1, <1>3, <1>5
    <3> QED
      BY <3>1, <3>2, <1>9 DEF Better
  <2> QED
    BY <2>1, <2>2, <1>3 DEF Positions
<1> QED
  BY <1>7, <1>8, <1>12, <1>13, <1>14 DEF NmsInv

LEMMA RoundInv ==
  ASSUME NmsInv, NextRound, compared > 0
  PROVE  NmsInv'
<1>1. /\ compared = selectEnd + 1 /\ selectStart' = selectStart + 1 /\ compared' = 0
      /\ call' = call /\ scoresData' = scoresData /\ select' = select /\ selectEnd' = selectEnd
  BY DEF NextRound, NmsInv, NmsTypes
<1>2. NmsTypes'
  BY <1>1 DEF NmsInv, NmsTypes, Positions, BoxIndices
<1>3. \A p \in Nat \ {0} : p < selectStart + 1 <=> p < selectStart \/ p = selectStart
  BY DEF NmsInv, NmsTypes
<1>a. \A p : IsKeptAt(p)' <=> IsKeptAt(p)
  BY <1>1, <1>3 DEF IsKeptAt
<1>4. Apart'
  BY <1>1 DEF NmsInv, NmsTypes, Apart
<1>5. Permuted' /\ Sorted' /\ Reasons'
  BY <1>1, <1>a DEF NmsInv, Permuted, Sorted, Reasons, Better, Positions
<1> QED
  BY <1>2, <1>4, <1>5 DEF NmsInv

-----------------------------------------------------------------------------
(* The invariant is inductive.                                               *)
LEMMA NextHard == HardInv /\ [NmsNext]_nmsVars => HardInv'
<1> SUFFICES ASSUME HardInv, [NmsNext]_nmsVars, call'.kernel = Hard PROVE NmsInv'
  BY DEF HardInv
<1>1. call' = call
  BY DEF NmsNext, nmsVars, PickBest, Compare, NextRound
<1>2. NmsInv /\ call.kernel = Hard
  BY <1>1 DEF HardInv
<1>3. CASE PickBest
  BY <1>2, <1>3, PickInv
<1>4. CASE Compare
  BY <1>2, <1>4, KeepInv, DiscardInv
<1>5. CASE NextRound
  <2>1. compared > 0
    BY <1>2, <1>5 DEF NextRound, NmsInv, NmsTypes
  <2> QED
    BY <1>2, <1>5, <2>1, RoundInv
<1>6. CASE UNCHANGED nmsVars
  BY <1>2, <1>6 DEF nmsVars, NmsInv, NmsTypes, Permuted, Apart, Sorted, Reasons, IsKeptAt, Better,
                   Positions, BoxIndices
<1> QED
  BY <1>3, <1>4, <1>5, <1>6 DEF NmsNext

LEMMA HardKeepsTheBest == HardInv => KeepsTheBest
<1> SUFFICES ASSUME HardInv, call.kernel = Hard, IsReturned
             PROVE  KeepsTheBest
  BY DEF KeepsTheBest
<1>1. NmsInv
  BY DEF HardInv
<1>2. /\ select \in [Positions -> BoxIndices] /\ selectStart \in Nat \ {0} /\ selectEnd \in Nat
      /\ compared = 0 /\ selectStart <= selectEnd + 1 /\ selectEnd <= Len(call.select)
      /\ Len(call.select) \in Nat /\ DOMAIN call.select = Positions
  BY <1>1 DEF NmsInv, NmsTypes, IsReturned, IsCall, Positions
<1>3. \A p \in Kept : p \in 1 .. selectEnd /\ p \in Positions /\ IsKeptAt(p) /\ p < selectStart
  <2> SUFFICES ASSUME NEW p \in Kept
               PROVE  p \in 1 .. selectEnd /\ p \in Positions /\ IsKeptAt(p) /\ p < selectStart
    OBVIOUS
  <2>1. p \in Nat \ {0} /\ p < selectStart
    BY <1>2 DEF Kept
  <2> QED
    BY <2>1, <1>2 DEF IsKeptAt, Positions
<1>4. ASSUME NEW p \in Kept, NEW q \in Kept, p < q
      PROVE  /\ ~ Overlaps(call, select[q], select[p])
             /\ scoresData[select[q]] <= scoresData[select[p]]
  BY <1>1, <1>3, <1>4 DEF NmsInv, Apart, Sorted, Better
<1>5. ASSUME NEW n \in Positions
      PROVE  \/ \E p \in Kept : select[p] = call.select[n]
             \/ \E p \in Kept : /\ Overlaps(call, call.select[n], select[p])
                                /\ scoresData[call.select[n]] <= scoresData[select[p]]
             \/ /\ selectStart > Limit(call)
                /\ \A p \in Kept : scoresData[call.select[n]] <= scoresData[select[p]]
  <2>1. PICK k \in Positions : select[k] = call.select[n]
    BY <1>1 DEF NmsInv, Permuted
  <2>2. CASE k < selectStart
    BY <2>1, <2>2, <1>2 DEF Kept, Positions
  <2>3. CASE k > selectEnd
    <3>1. PICK p \in Positions : /\ IsKeptAt(p) /\ Overlaps(call, select[k], select[p])
                                 /\ Better(select[p], select[k])
      BY <2>3, <1>1 DEF NmsInv, Reasons
    <3>2. p \in Kept
      BY <3>1, <1>2 DEF IsKeptAt, Kept, Positions
    <3> QED
      BY <2>1, <3>1, <3>2 DEF Better
  <2>4. CASE selectStart <= k /\ k <= selectEnd
    <3>1. selectStart > Limit(call)
      BY <2>4, <1>2 DEF IsReturned, Positions
    <3>2. ASSUME NEW p \in Kept
          PROVE  scoresData[select[k]] <= scoresData[select[p]]
      <4>1. k \in 1 .. selectEnd /\ p < k
        BY <2>4, <1>2, <1>3 DEF Positions
      <4> QED
        BY <4>1, <1>1, <1>3 DEF NmsInv, Sorted, Better
    <3> QED
      BY <2>1, <3>1, <3>2
  <2> QED
    BY <2>2, <2>3, <2>4, <1>2 DEF Positions
<1> QED
  BY <1>2, <1>4, <1>5 DEF KeepsTheBest

(* hardNmsSingleClass (GenerateProposals.cpp:318) keeps boxes that do not       *)
(* overlap, the best ones first, and discards only what overlaps a box that is  *)
(* kept and no worse, whatever it is called with.                             *)
THEOREM Suppression == NmsSpec => []KeepsTheBest
<1>1. NmsInit => HardInv
  BY InitHard
<1>2. HardInv /\ [NmsNext]_nmsVars => HardInv'
  BY NextHard
<1>3. HardInv => KeepsTheBest
  BY HardKeepsTheBest
<1> QED
  BY <1>1, <1>2, <1>3, PTL DEF NmsSpec

-----------------------------------------------------------------------------
(* partitionTheWork implements Schedule: the order, the devices and the         *)
(* completeness of what it adds.                                             *)

Modes == {"idle", "count", "find", "fill", "mark", "done"}

Assigned(o) == \E k \in 1 .. Len(added) : added[k].operation = o
Queued(o) == \E d \in Devices : \E i \in 1 .. Len(perDeviceQueue[d]) : perDeviceQueue[d][i] = o

PartitionTypes ==
  /\ Order!IsGraph(graph)
  /\ bestDeviceForOperation \in [AllOperations -> Devices]
  /\ mode \in Modes
  /\ operationIndex \in Nat \ {0}
  /\ unknownInputs \in [AllOperations -> SUBSET Nat]
  /\ perDeviceQueue \in [Devices -> Seq(AllOperations)]
  /\ marking \in Seq(Nat)
  /\ stepDevices \in Seq(Devices)
  /\ added \in Seq([operation : AllOperations, step : Nat])

(* A step is made before it is filled, and takes the operations of its device. *)
StepsInv ==
  /\ mode \in {"fill", "mark"} => Len(stepDevices) > 0
  /\ \A k \in 1 .. Len(added) :
       /\ added[k].step \in 1 .. Len(stepDevices)
       /\ stepDevices[added[k].step] = bestDeviceForOperation[added[k].operation]

(* What waits in a queue is ready, once, and has not been added yet.           *)
QueueInv ==
  /\ \A d \in Devices : \A i \in 1 .. Len(perDeviceQueue[d]) :
       /\ bestDeviceForOperation[perDeviceQueue[d][i]] = d
       /\ unknownInputs[perDeviceQueue[d][i]] = {}
       /\ \A k \in 1 .. Len(added) : added[k].operation # perDeviceQueue[d][i]
       /\ mode = "count" => perDeviceQueue[d][i] < operationIndex
  /\ \A d \in Devices : \A i, j \in 1 .. Len(perDeviceQueue[d]) :
       perDeviceQueue[d][i] = perDeviceQueue[d][j] => i = j

(* What is ready and has been counted is in a queue or added.                  *)
ReadyInv ==
  \A o \in AllOperations :
     /\ Assigned(o) => unknownInputs[o] = {}
     /\ unknownInputs[o] = {} /\ (mode = "count" => o < operationIndex) => Queued(o) \/ Assigned(o)

(* An input is unknown until the operation that writes it is added and its     *)
(* outputs are gone through.                                                *)
Marking(x) == mode = "mark" /\ \E k \in 1 .. Len(marking) : marking[k] = x
UnknownInv ==
  /\ mode = "count" => Len(added) = 0
  /\ \A o \in AllOperations : unknownInputs[o] \subseteq graph.needs[o]
  /\ \A o, p \in AllOperations : \A x \in graph.needs[o] :
       Order!Writes(graph, p, x) =>
         /\ x \notin unknownInputs[o] => Assigned(p)
         /\ x \in unknownInputs[o] /\ Assigned(p) => Marking(x)
  /\ mode = "mark" => \A k \in 1 .. Len(marking) : \A p \in AllOperations :
       Order!Writes(graph, p, marking[k]) => Assigned(p)

IInv == PartitionTypes /\ StepsInv /\ QueueInv /\ ReadyInv /\ UnknownInv

(* What waits in a queue.                                                   *)
LEMMA Waiting ==
  ASSUME IInv, NEW d \in Devices, NEW i \in 1 .. Len(perDeviceQueue[d])
  PROVE  /\ bestDeviceForOperation[perDeviceQueue[d][i]] = d
         /\ unknownInputs[perDeviceQueue[d][i]] = {}
         /\ \A k \in 1 .. Len(added) : added[k].operation # perDeviceQueue[d][i]
<1>1. QueueInv
  BY DEF IInv
<1> DEFINE o == perDeviceQueue[d][i]
<1>2. bestDeviceForOperation[o] = d
  BY <1>1, Zenon DEF QueueInv
<1>3. unknownInputs[o] = {}
  BY <1>1, Zenon DEF QueueInv
<1>4. \A k \in 1 .. Len(added) : added[k].operation # o
  BY <1>1 DEF QueueInv
<1> QED
  BY <1>2, <1>3, <1>4

(* It waits once, and has been counted.                                       *)
LEMMA WaitsOnce ==
  ASSUME IInv
  PROVE  /\ \A d \in Devices : \A i, j \in 1 .. Len(perDeviceQueue[d]) :
              perDeviceQueue[d][i] = perDeviceQueue[d][j] => i = j
         /\ mode = "count" =>
              \A d \in Devices : \A i \in 1 .. Len(perDeviceQueue[d]) : perDeviceQueue[d][i] < operationIndex
<1>1. QueueInv
  BY DEF IInv
<1> QED
  BY <1>1 DEF QueueInv

(* Outside the count it is kept if the queues, and what is known of them, are.  *)
LEMMA QueuesStay ==
  ASSUME IInv, mode' # "count",
         UNCHANGED << bestDeviceForOperation, unknownInputs, perDeviceQueue, added >>
  PROVE  QueueInv'
<1>1. \A d \in Devices : \A i \in 1 .. Len(perDeviceQueue'[d]) :
        /\ bestDeviceForOperation'[perDeviceQueue'[d][i]] = d
        /\ unknownInputs'[perDeviceQueue'[d][i]] = {}
        /\ \A k \in 1 .. Len(added') : added'[k].operation # perDeviceQueue'[d][i]
  BY Waiting
<1>2. \A d \in Devices : \A i, j \in 1 .. Len(perDeviceQueue'[d]) :
        perDeviceQueue'[d][i] = perDeviceQueue'[d][j] => i = j
  BY WaitsOnce
<1> QED
  BY <1>1, <1>2 DEF QueueInv

LEMMA NoGraphIsGraph == Order!IsGraph(NoGraph) /\ Order!Operations(NoGraph) = {}
<1>1. Order!Operations(NoGraph) = {}
  BY DEF Order!Operations, NoGraph
<1>2. NoGraph.needs \in [{} -> SUBSET Nat] /\ NoGraph.outs \in [{} -> Seq(Nat)]
  <2>1. \A T : << >> \in [{} -> T]
    BY Z3
  <2> QED
    BY <2>1 DEF NoGraph
<1>3. NoGraph.count \in Nat
  BY DEF NoGraph
<1> QED
  BY <1>1, <1>2, <1>3 DEF Order!IsGraph

-----------------------------------------------------------------------------
(* A graph is taken up.                                                     *)

LEMMA InitInv == PartitionInit => IInv
<1> SUFFICES ASSUME PartitionInit PROVE IInv
  OBVIOUS
<1>1. Order!IsGraph(graph) /\ AllOperations = {}
  BY NoGraphIsGraph DEF PartitionInit, AllOperations
<1>2. PartitionTypes
  BY <1>1 DEF PartitionInit, PartitionTypes, Modes
<1> QED
  BY <1>1, <1>2 DEF PartitionInit, IInv, StepsInv, QueueInv, ReadyInv, UnknownInv

LEMMA ForgetInv == Forget => IInv'
<1> SUFFICES ASSUME Forget PROVE IInv'
  OBVIOUS
<1>1. Order!IsGraph(graph') /\ AllOperations' = {}
  BY NoGraphIsGraph DEF Forget, AllOperations
<1>2. PartitionTypes'
  BY <1>1 DEF Forget, PartitionTypes, Modes
<1> QED
  BY <1>1, <1>2 DEF Forget, IInv, StepsInv, QueueInv, ReadyInv, UnknownInv

LEMMA StartInv ==
  ASSUME NEW g, Order!IsGraph(g), NEW best \in [Order!Operations(g) -> Devices], Start(g, best)
  PROVE  IInv'
<1>1. PartitionTypes'
  <2>1. AllOperations' = Order!Operations(g) /\ Order!IsGraph(graph')
    BY DEF Start, AllOperations
  <2>2. g.needs \in [Order!Operations(g) -> SUBSET Nat]
    BY DEF Order!IsGraph
  <2> QED
    BY <2>1, <2>2 DEF Start, PartitionTypes, Modes
<1>2. /\ Len(added') = 0
      /\ \A d \in Devices : Len(perDeviceQueue'[d]) = 0
      /\ mode' = "count" /\ operationIndex' = 1 /\ unknownInputs' = graph'.needs
  BY DEF Start
<1>3. \A o \in AllOperations' : ~ (o < 1)
  BY <1>1 DEF PartitionTypes, AllOperations, Order!Operations, Order!IsGraph
<1> QED
  BY <1>1, <1>2, <1>3 DEF IInv, StepsInv, QueueInv, ReadyInv, UnknownInv, Assigned

-----------------------------------------------------------------------------
(* The tracker counts.                                                      *)

(* What joins the queue of its device.                                       *)
LEMMA Enqueue ==
  ASSUME PartitionTypes, NEW o \in AllOperations, enqueueOnAppropriateDevice(o)
  PROVE  /\ perDeviceQueue' \in [Devices -> Seq(AllOperations)]
         /\ \A d \in Devices : \A i \in 1 .. Len(perDeviceQueue'[d]) :
              \/ d = bestDeviceForOperation[o] /\ i = Len(perDeviceQueue[d]) + 1
                 /\ perDeviceQueue'[d][i] = o
              \/ i \in 1 .. Len(perDeviceQueue[d]) /\ perDeviceQueue'[d][i] = perDeviceQueue[d][i]
         /\ \A p \in AllOperations : Queued(p)' <=> Queued(p) \/ p = o
<1> DEFINE b == bestDeviceForOperation[o]
<1>1. b \in Devices
  BY DEF PartitionTypes
<1>2. /\ perDeviceQueue' \in [Devices -> Seq(AllOperations)]
      /\ perDeviceQueue'[b] = Append(perDeviceQueue[b], o)
      /\ \A d \in Devices \ {b} : perDeviceQueue'[d] = perDeviceQueue[d]
  BY <1>1 DEF PartitionTypes, enqueueOnAppropriateDevice
<1>3. /\ perDeviceQueue[b] \in Seq(AllOperations)
      /\ Len(perDeviceQueue'[b]) = Len(perDeviceQueue[b]) + 1
      /\ perDeviceQueue'[b][Len(perDeviceQueue[b]) + 1] = o
      /\ \A i \in 1 .. Len(perDeviceQueue[b]) : perDeviceQueue'[b][i] = perDeviceQueue[b][i]
  BY <1>1, <1>2 DEF PartitionTypes
<1>4. \A d \in Devices : Len(perDeviceQueue[d]) \in Nat
  BY DEF PartitionTypes
<1>5. Queued(o)'
  BY <1>1, <1>3, <1>4 DEF Queued
<1>6. ASSUME NEW d \in Devices, NEW i \in 1 .. Len(perDeviceQueue'[d])
      PROVE  \/ d = b /\ i = Len(perDeviceQueue[d]) + 1 /\ perDeviceQueue'[d][i] = o
             \/ i \in 1 .. Len(perDeviceQueue[d]) /\ perDeviceQueue'[d][i] = perDeviceQueue[d][i]
  <2>1. CASE d = b
    <3> DEFINE n == Len(perDeviceQueue[b])
    <3>1. n \in Nat /\ i \in 1 .. (n + 1)
      BY <1>1, <1>3, <1>4, <2>1
    <3>2. i = n + 1 \/ i \in 1 .. n
      BY <3>1
    <3> QED
      BY <1>3, <2>1, <3>2
  <2>2. CASE d # b
    BY <1>2, <2>2
  <2> QED
    BY <2>1, <2>2
<1>7. \A p \in AllOperations : Queued(p)' => Queued(p) \/ p = o
  BY <1>6 DEF Queued
<1>8. ASSUME NEW p \in AllOperations, Queued(p)
      PROVE  Queued(p)'
  <2>1. PICK d \in Devices : \E i \in 1 .. Len(perDeviceQueue[d]) : perDeviceQueue[d][i] = p
    BY <1>8 DEF Queued
  <2>2. PICK i \in 1 .. Len(perDeviceQueue[d]) : perDeviceQueue[d][i] = p
    BY <2>1
  <2>3. i \in 1 .. Len(perDeviceQueue'[d]) /\ perDeviceQueue'[d][i] = p
    <3>1. CASE d = b
      BY <1>1, <1>3, <1>4, <2>2, <3>1
    <3>2. CASE d # b
      BY <1>2, <2>2, <3>2
    <3> QED
      BY <3>1, <3>2
  <2> QED
    BY <2>3 DEF Queued
<1> QED
  BY <1>2, <1>5, <1>6, <1>7, <1>8

LEMMA CountInputsInv == IInv /\ CountInputs => IInv'
<1> SUFFICES ASSUME IInv, CountInputs PROVE IInv'
  OBVIOUS
<1>1. operationIndex \in AllOperations /\ operationIndex' = operationIndex + 1 /\ mode' = "count"
  BY DEF IInv, PartitionTypes, CountInputs, AllOperations, Order!Operations, Order!IsGraph
<1>2. UNCHANGED << graph, bestDeviceForOperation, mode, unknownInputs, marking, stepDevices, added >>
  BY DEF CountInputs
<1>3. Len(added) = 0
  BY DEF IInv, UnknownInv, CountInputs
<1>4. \A o \in AllOperations : o \in Nat
  BY DEF AllOperations, Order!Operations
<1>5. AllOperations' = AllOperations /\ \A o \in AllOperations : Assigned(o)' <=> Assigned(o)
  BY <1>2 DEF AllOperations, Assigned
<1>6. StepsInv' /\ UnknownInv'
  BY <1>1, <1>2, <1>5 DEF IInv, StepsInv, UnknownInv, Marking
<1>7. CASE unknownInputs[operationIndex] = {}
  <2>1. enqueueOnAppropriateDevice(operationIndex)
    BY <1>7 DEF CountInputs
  <2>2. /\ perDeviceQueue' \in [Devices -> Seq(AllOperations)]
        /\ \A d \in Devices : \A i \in 1 .. Len(perDeviceQueue'[d]) :
             \/ d = bestDeviceForOperation[operationIndex] /\ i = Len(perDeviceQueue[d]) + 1
                /\ perDeviceQueue'[d][i] = operationIndex
             \/ i \in 1 .. Len(perDeviceQueue[d]) /\ perDeviceQueue'[d][i] = perDeviceQueue[d][i]
        /\ \A p \in AllOperations : Queued(p)' <=> Queued(p) \/ p = operationIndex
    BY <1>1, <2>1, Enqueue DEF IInv
  <2>3. PartitionTypes'
    BY <1>1, <1>2, <1>5, <2>2 DEF IInv, PartitionTypes
  <2>4. \A d \in Devices : \A i \in 1 .. Len(perDeviceQueue[d]) : perDeviceQueue[d][i] \in AllOperations
    BY DEF IInv, PartitionTypes
  <2>5. QueueInv'
    <3>1. ASSUME NEW d \in Devices, NEW i \in 1 .. Len(perDeviceQueue'[d])
          PROVE  /\ bestDeviceForOperation[perDeviceQueue'[d][i]] = d
                 /\ unknownInputs[perDeviceQueue'[d][i]] = {}
                 /\ perDeviceQueue'[d][i] \in AllOperations
                 /\ perDeviceQueue'[d][i] < operationIndex + 1
      <4>1. CASE i \in 1 .. Len(perDeviceQueue[d]) /\ perDeviceQueue'[d][i] = perDeviceQueue[d][i]
        <5>1. perDeviceQueue[d][i] < operationIndex
          BY <1>1, <1>2, <4>1 DEF IInv, QueueInv
        <5>2. bestDeviceForOperation[perDeviceQueue[d][i]] = d /\ unknownInputs[perDeviceQueue[d][i]] = {}
          BY <4>1 DEF IInv, QueueInv
        <5>3. perDeviceQueue[d][i] \in AllOperations
          BY <2>4, <4>1
        <5>4. perDeviceQueue[d][i] < operationIndex + 1
          BY <1>1, <1>4, <5>1, <5>3
        <5> QED
          BY <4>1, <5>2, <5>3, <5>4
      <4>2. CASE d = bestDeviceForOperation[operationIndex] /\ perDeviceQueue'[d][i] = operationIndex
        BY <1>1, <1>4, <1>7, <4>2
      <4> QED
        BY <2>2, <4>1, <4>2
    <3>2. ASSUME NEW d \in Devices, NEW i \in 1 .. Len(perDeviceQueue[d])
          PROVE  perDeviceQueue[d][i] # operationIndex
      BY <1>1, <1>2, <1>4, <2>4 DEF IInv, QueueInv
    <3>3. \A d \in Devices : \A i, j \in 1 .. Len(perDeviceQueue'[d]) :
            perDeviceQueue'[d][i] = perDeviceQueue'[d][j] => i = j
      BY <2>2, <3>2 DEF IInv, QueueInv
    <3> QED
      BY <1>1, <1>2, <1>3, <1>5, <3>1, <3>3 DEF QueueInv
  <2>6. ReadyInv'
    BY <1>1, <1>2, <1>4, <1>5, <2>2 DEF IInv, ReadyInv
  <2> QED
    BY <1>6, <2>3, <2>5, <2>6 DEF IInv
<1>8. CASE unknownInputs[operationIndex] # {}
  <2>1. perDeviceQueue' = perDeviceQueue
    BY <1>8 DEF CountInputs
  <2>2. PartitionTypes'
    BY <1>1, <1>2, <1>5, <2>1 DEF IInv, PartitionTypes
  <2>3. \A d \in Devices : \A i \in 1 .. Len(perDeviceQueue[d]) : perDeviceQueue[d][i] \in AllOperations
    BY DEF IInv, PartitionTypes
  <2>4. QueueInv'
    <3>1. QueueInv /\ mode = "count"
      BY <1>1, <1>2 DEF IInv
    <3>2. \A d \in Devices : \A i \in 1 .. Len(perDeviceQueue[d]) :
            /\ bestDeviceForOperation[perDeviceQueue[d][i]] = d
            /\ unknownInputs[perDeviceQueue[d][i]] = {}
            /\ \A k \in 1 .. Len(added) : added[k].operation # perDeviceQueue[d][i]
      BY Waiting
    <3>3. \A d \in Devices : \A i \in 1 .. Len(perDeviceQueue[d]) :
            perDeviceQueue[d][i] < operationIndex + 1
      <4>1. \A d \in Devices : \A i \in 1 .. Len(perDeviceQueue[d]) :
              perDeviceQueue[d][i] \in Nat /\ perDeviceQueue[d][i] < operationIndex
        BY <1>4, <2>3, <3>1 DEF QueueInv
      <4> QED
        BY <1>1, <1>4, <4>1
    <3>4. \A d \in Devices : \A i, j \in 1 .. Len(perDeviceQueue[d]) :
            perDeviceQueue[d][i] = perDeviceQueue[d][j] => i = j
      BY WaitsOnce
    <3>5. UNCHANGED << bestDeviceForOperation, unknownInputs, perDeviceQueue, added >>
      BY <1>2, <2>1
    <3> QED
      <4>1. \A d \in Devices : \A i \in 1 .. Len(perDeviceQueue'[d]) :
              /\ bestDeviceForOperation'[perDeviceQueue'[d][i]] = d
              /\ unknownInputs'[perDeviceQueue'[d][i]] = {}
              /\ \A k \in 1 .. Len(added') : added'[k].operation # perDeviceQueue'[d][i]
        BY <3>2, <3>5
      <4>2. \A d \in Devices : \A i \in 1 .. Len(perDeviceQueue'[d]) :
              perDeviceQueue'[d][i] < operationIndex'
        BY <1>1, <3>3, <3>5
      <4>3. \A d \in Devices : \A i, j \in 1 .. Len(perDeviceQueue'[d]) :
              perDeviceQueue'[d][i] = perDeviceQueue'[d][j] => i = j
        BY <3>4, <3>5
      <4> QED
        BY <4>1, <4>2, <4>3 DEF QueueInv
  <2>5. ReadyInv'
    BY <1>1, <1>2, <1>4, <1>5, <1>8, <2>1 DEF IInv, ReadyInv, Queued
  <2> QED
    BY <1>6, <2>2, <2>4, <2>5 DEF IInv
<1> QED
  BY <1>7, <1>8

LEMMA EndCountInv == IInv /\ EndCount => IInv'
<1> SUFFICES ASSUME IInv, EndCount PROVE IInv'
  OBVIOUS
<1>1. \A o \in AllOperations : o < operationIndex
  BY DEF IInv, PartitionTypes, EndCount, AllOperations, Order!Operations, Order!IsGraph
<1>2. AllOperations' = AllOperations
  BY DEF EndCount, AllOperations
<1>3. PartitionTypes' /\ StepsInv'
  BY <1>2 DEF EndCount, IInv, PartitionTypes, Modes, StepsInv
<1>4. QueueInv' /\ ReadyInv'
  BY <1>1, <1>2 DEF EndCount, IInv, QueueInv, ReadyInv, Assigned, Queued
<1>5. UnknownInv'
  BY <1>2 DEF EndCount, IInv, UnknownInv, Assigned, Marking
<1> QED
  BY <1>3, <1>4, <1>5 DEF IInv

-----------------------------------------------------------------------------
(* The queues are not touched.                                              *)
LEMMA QueuesKept ==
  ASSUME QueueInv, UNCHANGED << bestDeviceForOperation, perDeviceQueue, operationIndex, added >>,
         mode' = "count" => mode = "count",
         \A d \in Devices : \A i \in 1 .. Len(perDeviceQueue[d]) :
            unknownInputs'[perDeviceQueue[d][i]] = unknownInputs[perDeviceQueue[d][i]]
  PROVE  QueueInv'
<1>1. ASSUME NEW d \in Devices, NEW i \in 1 .. Len(perDeviceQueue[d])
      PROVE  /\ bestDeviceForOperation[perDeviceQueue[d][i]] = d
             /\ unknownInputs'[perDeviceQueue[d][i]] = {}
             /\ \A k \in 1 .. Len(added) : added[k].operation # perDeviceQueue[d][i]
             /\ mode = "count" => perDeviceQueue[d][i] < operationIndex
  BY DEF QueueInv
<1>2. \A d \in Devices : \A i, j \in 1 .. Len(perDeviceQueue[d]) :
         perDeviceQueue[d][i] = perDeviceQueue[d][j] => i = j
  BY DEF QueueInv
<1> QED
  BY <1>1, <1>2 DEF QueueInv

-----------------------------------------------------------------------------
(* The loops over the devices and the queue of one.                          *)

(* A loop goes on to another that counts and marks nothing.                    *)
LEMMA LoopInv ==
  ASSUME IInv, mode \notin {"count", "mark"}, mode' \in {"idle", "find", "fill", "done"},
         stepDevices' = stepDevices, mode' = "fill" => mode = "fill",
         UNCHANGED << graph, bestDeviceForOperation, operationIndex, unknownInputs, perDeviceQueue,
                      marking, added >>
  PROVE  IInv'
<1>1. AllOperations' = AllOperations
  BY DEF AllOperations
<1>2. PartitionTypes' /\ StepsInv'
  BY <1>1 DEF IInv, PartitionTypes, Modes, StepsInv
<1>3. QueueInv' /\ ReadyInv'
  BY <1>1 DEF IInv, QueueInv, ReadyInv, Assigned, Queued
<1>4. UnknownInv'
  BY <1>1 DEF IInv, UnknownInv, Assigned, Marking
<1> QED
  BY <1>2, <1>3, <1>4 DEF IInv

LEMMA EndPartitionInv == IInv /\ EndPartition => IInv'
BY LoopInv DEF EndPartition

LEMMA EndStepInv == IInv /\ EndStep => IInv'
BY LoopInv DEF EndStep

LEMMA AbandonInv == IInv /\ Abandon => IInv'
BY LoopInv DEF Abandon

LEMMA createNewStepInv == IInv /\ createNewStep => IInv'
<1> SUFFICES ASSUME IInv, createNewStep PROVE IInv'
  OBVIOUS
<1>1. PICK d \in Devices : stepDevices' = Append(stepDevices, d)
  BY DEF createNewStep
<1>2. stepDevices' \in Seq(Devices) /\ Len(stepDevices') = Len(stepDevices) + 1
  BY <1>1 DEF IInv, PartitionTypes
<1>3. \A k \in 1 .. Len(stepDevices) : stepDevices'[k] = stepDevices[k]
  BY <1>1 DEF IInv, PartitionTypes
<1>4. Len(stepDevices) \in Nat /\ AllOperations' = AllOperations
  BY DEF IInv, PartitionTypes, createNewStep, AllOperations
<1>5. PartitionTypes'
  BY <1>2, <1>4 DEF createNewStep, IInv, PartitionTypes, Modes
<1>6. StepsInv'
  BY <1>2, <1>3, <1>4 DEF createNewStep, IInv, StepsInv
<1>7. UNCHANGED << bestDeviceForOperation, unknownInputs, perDeviceQueue, added >> /\ mode = "find" /\ mode' = "fill"
  BY DEF createNewStep
<1>8. QueueInv'
  BY <1>7, QueuesStay
<1>9. ReadyInv'
  <2>1. \A o \in AllOperations : (Assigned(o)' <=> Assigned(o)) /\ (Queued(o)' <=> Queued(o))
    BY <1>7 DEF Assigned, Queued
  <2> QED
    BY <1>4, <1>7, <2>1 DEF IInv, ReadyInv
<1>10. UnknownInv'
  BY <1>4 DEF createNewStep, IInv, UnknownInv, Assigned, Marking
<1> QED
  BY <1>5, <1>6, <1>8, <1>9, <1>10 DEF IInv

(* The first in the queue of the step's device.                               *)
LEMMA NextInQueue ==
  ASSUME IInv, NEW o \in AllOperations, IsNextInQueue(o)
  PROVE  /\ CurrentDevice \in Devices
         /\ Len(perDeviceQueue[CurrentDevice]) > 0 /\ perDeviceQueue[CurrentDevice][1] = o
         /\ bestDeviceForOperation[o] = CurrentDevice
         /\ unknownInputs[o] = {} /\ ~ Assigned(o)
<1>1. CurrentDevice \in Devices
  BY DEF IInv, PartitionTypes, StepsInv, IsNextInQueue, CurrentDevice
<1>2. perDeviceQueue[CurrentDevice] \in Seq(AllOperations)
  BY <1>1 DEF IInv, PartitionTypes
<1>3. Len(perDeviceQueue[CurrentDevice]) > 0 /\ perDeviceQueue[CurrentDevice][1] = o
  BY <1>2 DEF IsNextInQueue
<1>4. 1 \in 1 .. Len(perDeviceQueue[CurrentDevice])
  BY <1>2, <1>3
<1>5. bestDeviceForOperation[o] = CurrentDevice /\ unknownInputs[o] = {}
  BY <1>1, <1>3, <1>4 DEF IInv, QueueInv
<1>6. ~ Assigned(o)
  BY <1>1, <1>3, <1>4 DEF IInv, QueueInv, Assigned
<1> QED
  BY <1>1, <1>3, <1>5, <1>6

(* It is added after all that it depends on.                                  *)
LEMMA DependenciesAssigned ==
  ASSUME IInv, NEW o \in AllOperations, unknownInputs[o] = {},
         NEW p \in AllOperations, Order!Follows(graph, o, p)
  PROVE  Assigned(p)
BY DEF IInv, UnknownInv, Order!Follows

LEMMA assignOperationInv ==
  ASSUME IInv, NEW o \in AllOperations, assignOperation(o)
  PROVE  IInv'
<1> DEFINE c == CurrentDevice
           q == perDeviceQueue[c]
<1>1. /\ c \in Devices /\ q \in Seq(AllOperations) /\ Len(q) > 0 /\ q[1] = o
      /\ bestDeviceForOperation[o] = c /\ unknownInputs[o] = {} /\ ~ Assigned(o)
  BY NextInQueue DEF assignOperation, IInv, PartitionTypes
<1>2. /\ mode = "fill" /\ mode' = "mark" /\ marking' = graph.outs[o]
      /\ UNCHANGED << graph, bestDeviceForOperation, operationIndex, unknownInputs, stepDevices >>
      /\ AllOperations' = AllOperations
  BY DEF assignOperation, IsNextInQueue, AllOperations
<1>3. /\ perDeviceQueue' \in [Devices -> Seq(AllOperations)]
      /\ perDeviceQueue'[c] = Tail(q)
      /\ \A d \in Devices \ {c} : perDeviceQueue'[d] = perDeviceQueue[d]
  BY <1>1 DEF assignOperation, IInv, PartitionTypes
<1>4. /\ Len(perDeviceQueue'[c]) = Len(q) - 1
      /\ \A i \in 1 .. (Len(q) - 1) : i + 1 \in 1 .. Len(q) /\ perDeviceQueue'[c][i] = q[i + 1]
  BY <1>1, <1>3
<1>5. /\ added' \in Seq([operation : AllOperations, step : Nat])
      /\ Len(added) \in Nat /\ Len(added') = Len(added) + 1
      /\ added'[Len(added) + 1] = [operation |-> o, step |-> Len(stepDevices)]
      /\ \A k \in 1 .. Len(added) : added'[k] = added[k]
  BY <1>1 DEF assignOperation, IInv, PartitionTypes
<1>6. \A p \in AllOperations : Assigned(p)' <=> Assigned(p) \/ p = o
  <2>1. Assigned(o)'
    BY <1>5 DEF Assigned
  <2>2. \A p \in AllOperations : Assigned(p) => Assigned(p)'
    BY <1>5 DEF Assigned
  <2>3. ASSUME NEW p \in AllOperations, Assigned(p)', p # o PROVE Assigned(p)
    <3>1. PICK k \in 1 .. Len(added') : added'[k].operation = p
      BY <2>3 DEF Assigned
    <3>2. k \in 1 .. Len(added)
      BY <1>5, <2>3, <3>1
    <3> QED
      BY <1>5, <3>1, <3>2 DEF Assigned
  <2> QED
    BY <2>1, <2>2, <2>3
<1>7. /\ graph.outs[o] \in Seq(Nat)
      /\ \A p \in AllOperations : \A k \in 1 .. Len(graph.outs[o]) :
            Order!Writes(graph, p, graph.outs[o][k]) => p = o
  BY DEF IInv, PartitionTypes, Order!IsGraph, AllOperations
<1>8. PartitionTypes'
  BY <1>1, <1>2, <1>3, <1>5, <1>7 DEF IInv, PartitionTypes, Modes
<1>9. StepsInv'
  <2>1. Len(stepDevices) > 0 /\ stepDevices[Len(stepDevices)] = c /\ Len(stepDevices) \in Nat
    BY <1>2 DEF IInv, PartitionTypes, StepsInv, CurrentDevice
  <2>2. ASSUME NEW k \in 1 .. Len(added')
        PROVE  /\ added'[k].step \in 1 .. Len(stepDevices)
               /\ stepDevices[added'[k].step] = bestDeviceForOperation[added'[k].operation]
    <3>1. CASE k \in 1 .. Len(added)
      BY <1>5, <3>1 DEF IInv, StepsInv
    <3>2. CASE k = Len(added) + 1
      BY <1>1, <1>5, <2>1, <3>2
    <3> QED
      BY <1>5, <3>1, <3>2
  <2> QED
    BY <1>2, <2>1, <2>2 DEF StepsInv
<1>10. QueueInv'
  <2>1. ASSUME NEW d \in Devices, NEW i \in 1 .. Len(perDeviceQueue'[d])
        PROVE  \E j \in 1 .. Len(perDeviceQueue[d]) :
                 /\ perDeviceQueue[d][j] = perDeviceQueue'[d][i] /\ perDeviceQueue[d][j] # o
                 /\ perDeviceQueue[d][j] \in AllOperations
    <3>1. CASE d = c
      <4>1. i + 1 \in 1 .. Len(q) /\ perDeviceQueue'[c][i] = q[i + 1] /\ i + 1 # 1
        BY <1>1, <1>4, <3>1
      <4>2. q[i + 1] # q[1]
        BY <1>1, <4>1 DEF IInv, QueueInv
      <4> QED
        BY <1>1, <3>1, <4>1, <4>2
    <3>2. CASE d # c
      <4>1. i \in 1 .. Len(perDeviceQueue[d]) /\ perDeviceQueue'[d][i] = perDeviceQueue[d][i]
        BY <1>3, <3>2
      <4>2. perDeviceQueue[d][i] \in AllOperations
        BY <4>1 DEF IInv, PartitionTypes
      <4>3. bestDeviceForOperation[perDeviceQueue[d][i]] = d
        BY <4>1 DEF IInv, QueueInv
      <4> QED
        BY <1>1, <3>2, <4>1, <4>2, <4>3
    <3> QED
      BY <3>1, <3>2
  <2>2. ASSUME NEW d \in Devices,
               NEW i \in 1 .. Len(perDeviceQueue'[d]), NEW j \in 1 .. Len(perDeviceQueue'[d]),
               perDeviceQueue'[d][i] = perDeviceQueue'[d][j]
        PROVE  i = j
    <3>1. CASE d = c
      <4>1. i + 1 \in 1 .. Len(q) /\ j + 1 \in 1 .. Len(q) /\ q[i + 1] = q[j + 1]
        BY <1>1, <1>4, <2>2, <3>1
      <4>2. i + 1 = j + 1
        BY <1>1, <4>1 DEF IInv, QueueInv
      <4> QED
        BY <4>2, <1>1, <1>4, <3>1
    <3>2. CASE d # c
      BY <1>3, <2>2, <3>2 DEF IInv, QueueInv
    <3> QED
      BY <3>1, <3>2
  <2>3. ASSUME NEW d \in Devices, NEW i \in 1 .. Len(perDeviceQueue'[d])
        PROVE  /\ bestDeviceForOperation[perDeviceQueue'[d][i]] = d
               /\ unknownInputs[perDeviceQueue'[d][i]] = {}
               /\ \A k \in 1 .. Len(added') : added'[k].operation # perDeviceQueue'[d][i]
    <3>1. PICK j \in 1 .. Len(perDeviceQueue[d]) :
             perDeviceQueue[d][j] = perDeviceQueue'[d][i] /\ perDeviceQueue[d][j] # o
      BY <2>1
    <3>2. /\ bestDeviceForOperation[perDeviceQueue[d][j]] = d
          /\ unknownInputs[perDeviceQueue[d][j]] = {}
          /\ \A k \in 1 .. Len(added) : added[k].operation # perDeviceQueue[d][j]
      BY Waiting
    <3>3. ASSUME NEW k \in 1 .. Len(added')
          PROVE  added'[k].operation # perDeviceQueue[d][j]
      <4>1. CASE k \in 1 .. Len(added)
        BY <1>5, <3>2, <4>1
      <4>2. CASE k = Len(added) + 1
        BY <1>5, <3>1, <4>2
      <4> QED
        BY <1>5, <4>1, <4>2
    <3>4. /\ bestDeviceForOperation[perDeviceQueue'[d][i]] = d
          /\ unknownInputs[perDeviceQueue'[d][i]] = {}
      BY <3>1, <3>2
    <3>5. \A k \in 1 .. Len(added') : added'[k].operation # perDeviceQueue'[d][i]
      BY <3>1, <3>3
    <3> QED
      BY <3>4, <3>5
  <2>4. mode' # "count" /\ UNCHANGED << bestDeviceForOperation, unknownInputs >>
    BY <1>2
  <2> QED
    BY <2>2, <2>3, <2>4 DEF QueueInv
<1>11. ReadyInv'
  <2>1. ASSUME NEW p \in AllOperations, Queued(p), p # o PROVE Queued(p)'
    <3>0. PICK d \in Devices : \E i \in 1 .. Len(perDeviceQueue[d]) : perDeviceQueue[d][i] = p
      BY <2>1 DEF Queued
    <3>1. PICK i \in 1 .. Len(perDeviceQueue[d]) : perDeviceQueue[d][i] = p
      BY <3>0
    <3>2. \E j \in 1 .. Len(perDeviceQueue'[d]) : perDeviceQueue'[d][j] = p
      <4>1. CASE d = c
        <5>1. i # 1 /\ i \in 1 .. Len(q) /\ Len(q) \in Nat
          BY <1>1, <2>1, <3>1, <4>1
        <5>2. i - 1 \in 1 .. (Len(q) - 1) /\ (i - 1) + 1 = i
          BY <5>1
        <5> QED
          BY <1>4, <3>1, <4>1, <5>2
      <4>2. CASE d # c
        BY <1>3, <3>1, <4>2
      <4> QED
        BY <4>1, <4>2
    <3> QED
      BY <3>2 DEF Queued
  <2> QED
    BY <1>1, <1>2, <1>6, <2>1 DEF IInv, ReadyInv
<1>12. UnknownInv'
  <2>1. ASSUME NEW p \in AllOperations, NEW x \in Nat, p = o, Order!Writes(graph, p, x)
        PROVE  Marking(x)'
    BY <1>2, <1>7, <2>1 DEF Marking, Order!Writes
  <2>2. \A p \in AllOperations : graph.needs[p] \subseteq Nat
    BY DEF IInv, PartitionTypes, Order!IsGraph, AllOperations
  <2>3. \A x : ~ Marking(x)
    BY <1>2 DEF Marking
  <2> QED
    BY <1>2, <1>6, <1>7, <2>1, <2>2, <2>3 DEF IInv, UnknownInv
<1> QED
  BY <1>8, <1>9, <1>10, <1>11, <1>12 DEF IInv

(* An input becomes known; the operation may have become ready.                *)
LEMMA markProcessedInv == IInv /\ markProcessed => IInv'
<1> SUFFICES ASSUME IInv, markProcessed PROVE IInv'
  OBVIOUS
<1> DEFINE x == Head(marking)
<1>1. PICK o \in AllOperations :
        /\ x \in unknownInputs[o]
        /\ unknownInputs' = [unknownInputs EXCEPT ![o] = unknownInputs[o] \ {x}]
        /\ IF Ready(unknownInputs[o] \ {x}) THEN enqueueOnAppropriateDevice(o)
           ELSE UNCHANGED perDeviceQueue
  BY DEF markProcessed, Uses
<1>2. /\ mode = "mark" /\ AllOperations' = AllOperations
      /\ UNCHANGED << graph, bestDeviceForOperation, mode, operationIndex, marking, stepDevices, added >>
      /\ x = marking[1] /\ 1 \in 1 .. Len(marking)
  BY DEF markProcessed, AllOperations, IInv, PartitionTypes
<1>3. /\ unknownInputs' \in [AllOperations -> SUBSET Nat]
      /\ unknownInputs'[o] = unknownInputs[o] \ {x}
      /\ \A p \in AllOperations : p # o => unknownInputs'[p] = unknownInputs[p]
  BY <1>1 DEF IInv, PartitionTypes
<1>4. \A p \in AllOperations : Assigned(p)' <=> Assigned(p)
  BY <1>2 DEF Assigned
<1>5. ~ Assigned(o) /\ ~ Queued(o)
  <2>1. unknownInputs[o] # {}
    BY <1>1
  <2>2. ~ Assigned(o)
    BY <2>1 DEF IInv, ReadyInv
  <2>3. QueueInv
    BY DEF IInv
  <2>4. ASSUME Queued(o) PROVE FALSE
    <3>1. PICK d \in Devices : \E i \in 1 .. Len(perDeviceQueue[d]) : perDeviceQueue[d][i] = o
      BY <2>4 DEF Queued
    <3>2. PICK i \in 1 .. Len(perDeviceQueue[d]) : perDeviceQueue[d][i] = o
      BY <3>1
    <3>3. unknownInputs[perDeviceQueue[d][i]] = {}
      BY <2>3, Zenon DEF QueueInv
    <3> QED
      BY <2>1, <3>2, <3>3
  <2> QED
    BY <2>2, <2>4
<1>6. StepsInv' /\ \A y : Marking(y)' <=> Marking(y)
  BY <1>2 DEF IInv, StepsInv, Marking
<1>7. UnknownInv'
  BY <1>1, <1>2, <1>3, <1>4, <1>6 DEF IInv, UnknownInv
<1>8. \A d \in Devices : \A i \in 1 .. Len(perDeviceQueue[d]) :
        perDeviceQueue[d][i] \in AllOperations /\ perDeviceQueue[d][i] # o
  BY <1>5 DEF IInv, PartitionTypes, Queued
<1>9. CASE unknownInputs[o] \ {x} = {}
  <2>1. enqueueOnAppropriateDevice(o)
    BY <1>1, <1>9 DEF Ready
  <2>2. /\ perDeviceQueue' \in [Devices -> Seq(AllOperations)]
        /\ \A d \in Devices : \A i \in 1 .. Len(perDeviceQueue'[d]) :
             \/ d = bestDeviceForOperation[o] /\ i = Len(perDeviceQueue[d]) + 1
                /\ perDeviceQueue'[d][i] = o
             \/ i \in 1 .. Len(perDeviceQueue[d]) /\ perDeviceQueue'[d][i] = perDeviceQueue[d][i]
        /\ \A p \in AllOperations : Queued(p)' <=> Queued(p) \/ p = o
    BY <1>1, <2>1, Enqueue DEF IInv
  <2>3. PartitionTypes'
    BY <1>2, <1>3, <2>2 DEF IInv, PartitionTypes
  <2>4. ASSUME NEW d \in Devices, NEW i \in 1 .. Len(perDeviceQueue'[d])
        PROVE  /\ bestDeviceForOperation[perDeviceQueue'[d][i]] = d
               /\ unknownInputs'[perDeviceQueue'[d][i]] = {}
               /\ \A k \in 1 .. Len(added) : added[k].operation # perDeviceQueue'[d][i]
    <3>1. CASE i \in 1 .. Len(perDeviceQueue[d]) /\ perDeviceQueue'[d][i] = perDeviceQueue[d][i]
      <4>1. /\ bestDeviceForOperation[perDeviceQueue[d][i]] = d
            /\ unknownInputs[perDeviceQueue[d][i]] = {}
            /\ \A k \in 1 .. Len(added) : added[k].operation # perDeviceQueue[d][i]
        <5>1. i \in 1 .. Len(perDeviceQueue[d])
          BY <3>1
        <5> QED
          BY <5>1, Waiting, ZenonT(60)
      <4> QED
        BY <1>3, <1>8, <3>1, <4>1
    <3>2. CASE d = bestDeviceForOperation[o] /\ perDeviceQueue'[d][i] = o
      BY <1>1, <1>3, <1>5, <1>9, <3>2 DEF Assigned
    <3> QED
      BY <2>2, <3>1, <3>2
  <2>5. \A d \in Devices : \A i, j \in 1 .. Len(perDeviceQueue'[d]) :
          perDeviceQueue'[d][i] = perDeviceQueue'[d][j] => i = j
    BY <1>8, <2>2 DEF IInv, QueueInv
  <2>6. QueueInv'
    <3>1. mode' # "count" /\ bestDeviceForOperation' = bestDeviceForOperation /\ added' = added
      BY <1>2
    <3>2. ASSUME NEW d \in Devices, NEW i \in 1 .. Len(perDeviceQueue'[d])
          PROVE  /\ bestDeviceForOperation'[perDeviceQueue'[d][i]] = d
                 /\ unknownInputs'[perDeviceQueue'[d][i]] = {}
      BY <2>4, <3>1
    <3>3. ASSUME NEW d \in Devices, NEW i \in 1 .. Len(perDeviceQueue'[d])
          PROVE  \A k \in 1 .. Len(added') : added'[k].operation # perDeviceQueue'[d][i]
      BY <2>4, <3>1
    <3> QED
      BY <2>5, <3>1, <3>2, <3>3 DEF QueueInv
  <2>7. ReadyInv'
    BY <1>2, <1>3, <1>4, <1>5, <2>2 DEF IInv, ReadyInv
  <2> QED
    BY <1>6, <1>7, <2>3, <2>6, <2>7 DEF IInv
<1>10. CASE unknownInputs[o] \ {x} # {}
  <2>1. perDeviceQueue' = perDeviceQueue /\ \A p \in AllOperations : Queued(p)' <=> Queued(p)
    BY <1>1, <1>10 DEF Ready, Queued
  <2>2. PartitionTypes'
    BY <1>2, <1>3, <2>1 DEF IInv, PartitionTypes
  <2>3. QueueInv'
    <3>1. \A d \in Devices : \A i \in 1 .. Len(perDeviceQueue[d]) :
            unknownInputs'[perDeviceQueue[d][i]] = unknownInputs[perDeviceQueue[d][i]]
      BY <1>3, <1>8
    <3> QED
      BY <1>2, <2>1, <3>1, QueuesKept DEF IInv
  <2>4. ReadyInv'
    BY <1>2, <1>3, <1>4, <1>5, <1>10, <2>1 DEF IInv, ReadyInv
  <2> QED
    BY <1>6, <1>7, <2>2, <2>3, <2>4 DEF IInv
<1> QED
  BY <1>9, <1>10

(* An output that nothing waits for any more is done with.                     *)
LEMMA NextOutputInv == IInv /\ NextOutput => IInv'
<1> SUFFICES ASSUME IInv, NextOutput PROVE IInv'
  OBVIOUS
<1>1. /\ mode = "mark" /\ AllOperations' = AllOperations
      /\ UNCHANGED << graph, bestDeviceForOperation, mode, operationIndex, unknownInputs,
                      perDeviceQueue, stepDevices, added >>
      /\ \A o \in AllOperations : marking[1] \notin unknownInputs[o]
  BY DEF NextOutput, AllOperations, Uses, IInv, PartitionTypes
<1>2. /\ marking' \in Seq(Nat) /\ Len(marking) \in Nat /\ Len(marking') = Len(marking) - 1
      /\ \A k \in 1 .. Len(marking') : k + 1 \in 1 .. Len(marking) /\ marking'[k] = marking[k + 1]
  BY DEF NextOutput, IInv, PartitionTypes
<1>3. PartitionTypes' /\ StepsInv'
  BY <1>1, <1>2 DEF IInv, PartitionTypes, StepsInv
<1>4. QueueInv' /\ ReadyInv'
  <2>1. QueueInv'
    BY <1>1, QueuesKept DEF IInv
  <2>2. ReadyInv'
    BY <1>1 DEF IInv, ReadyInv, Assigned, Queued
  <2> QED
    BY <2>1, <2>2
<1>5. ASSUME NEW y, y # marking[1], Marking(y) PROVE Marking(y)'
  <2>1. PICK k \in 1 .. Len(marking) : marking[k] = y
    BY <1>5 DEF Marking
  <2>2. k - 1 \in 1 .. Len(marking') /\ (k - 1) + 1 = k
    BY <1>2, <1>5, <2>1
  <2> QED
    BY <1>1, <1>2, <2>1, <2>2 DEF Marking
<1>6. \A p \in AllOperations : Assigned(p)' <=> Assigned(p)
  BY <1>1 DEF Assigned
<1>7. UnknownInv'
  BY <1>1, <1>2, <1>5, <1>6 DEF IInv, UnknownInv
<1> QED
  BY <1>3, <1>4, <1>7 DEF IInv

LEMMA EndMarkInv == IInv /\ EndMark => IInv'
<1> SUFFICES ASSUME IInv, EndMark PROVE IInv'
  OBVIOUS
<1>1. AllOperations' = AllOperations /\ \A y : ~ Marking(y)
  BY DEF EndMark, AllOperations, Marking
<1>2. PartitionTypes' /\ StepsInv'
  BY <1>1 DEF EndMark, IInv, PartitionTypes, Modes, StepsInv
<1>3. QueueInv' /\ ReadyInv'
  BY <1>1 DEF EndMark, IInv, QueueInv, ReadyInv, Assigned, Queued
<1>4. UnknownInv'
  BY <1>1 DEF EndMark, IInv, UnknownInv, Assigned
<1> QED
  BY <1>2, <1>3, <1>4 DEF IInv

-----------------------------------------------------------------------------
LEMMA Inductive == IInv /\ [PartitionNext]_partitionVars => IInv'
<1> SUFFICES ASSUME IInv, [PartitionNext]_partitionVars PROVE IInv'
  OBVIOUS
<1>1. ASSUME NEW g \in Graphs, NEW best \in [Order!Operations(g) -> Devices], Start(g, best)
      PROVE  IInv'
  BY <1>1, StartInv, GraphAssumption
<1>2. CASE Loop
  BY <1>2, CountInputsInv, EndCountInv, createNewStepInv, EndPartitionInv, EndStepInv,
     markProcessedInv, NextOutputInv, EndMarkInv DEF Loop
<1>3. ASSUME NEW o \in AllOperations, assignOperation(o) PROVE IInv'
  BY <1>3, assignOperationInv
<1>4. CASE Abandon \/ Forget
  BY <1>4, AbandonInv, ForgetInv
<1>5. CASE UNCHANGED partitionVars
  <2>1. AllOperations' = AllOperations
    BY <1>5 DEF partitionVars, AllOperations
  <2>2. PartitionTypes' /\ StepsInv'
    BY <1>5, <2>1 DEF partitionVars, IInv, PartitionTypes, StepsInv
  <2>3. QueueInv'
    BY <1>5, QueuesKept DEF partitionVars, IInv
  <2>4. ReadyInv'
    BY <1>5, <2>1 DEF partitionVars, IInv, ReadyInv, Assigned, Queued
  <2>5. UnknownInv'
    BY <1>5, <2>1 DEF partitionVars, IInv, UnknownInv, Assigned, Marking
  <2> QED
    BY <2>2, <2>3, <2>4, <2>5 DEF IInv
<1> QED
  BY <1>1, <1>2, <1>3, <1>4, <1>5 DEF PartitionNext

(* The loops of partitionTheWork keep the queues, the tracker's counts and the *)
(* steps in agreement: what is ready is in the queue of its device or in a step,*)
(* and an input stays unknown until what writes it has been added.             *)
THEOREM Invariant == PartitionSpec => []IInv
<1>1. PartitionSpec => IInv /\ [][PartitionNext]_partitionVars
  BY InitInv DEF PartitionSpec
<1> QED
  BY <1>1, Inductive, PTL

-----------------------------------------------------------------------------
(* Every step is one of Schedule's, or none.                                  *)

Mapped == [k \in DOMAIN added |-> [operation |-> added[k].operation,
                                  device |-> stepDevices[added[k].step]]]

LEMMA MappedScheduled ==
  ASSUME PartitionTypes, NEW o PROVE Order!Scheduled(o) <=> Assigned(o)
<1>1. DOMAIN added = 1 .. Len(added)
  BY DEF PartitionTypes
<1> QED
  BY <1>1 DEF Order!Scheduled, Assigned

(* Nothing that Schedule sees has changed.                                    *)
LEMMA Stutters ==
  ASSUME UNCHANGED << graph, bestDeviceForOperation, added, stepDevices >>,
         (mode' = "done") <=> (mode = "done")
  PROVE  UNCHANGED Order!vars
BY DEF Order!vars

(* When all queues are empty, nothing is left: of the operations that are left  *)
(* one would follow none of the others.                                      *)
LEMMA Complete ==
  ASSUME IInv, mode = "find", \A d \in Devices : perDeviceQueue[d] = <<>>,
         NEW o \in AllOperations
  PROVE  Assigned(o)
<1> DEFINE S == {p \in AllOperations : ~ Assigned(p)}
<1> SUFFICES ASSUME S # {} PROVE FALSE
  OBVIOUS
<1>1. PICK p \in S : \A q \in S : ~ Order!Follows(graph, p, q)
  <2>1. S \in SUBSET Order!Operations(graph)
    BY DEF AllOperations
  <2> QED
    BY <2>1 DEF IInv, PartitionTypes, Order!IsGraph
<1>2. ~ Queued(p)
  BY DEF Queued
<1>3. PICK x \in unknownInputs[p] : TRUE
  BY <1>2 DEF IInv, ReadyInv
<1>4. x \in graph.needs[p]
  BY <1>3 DEF IInv, UnknownInv
<1>5. PICK q \in AllOperations : Order!Writes(graph, q, x)
  BY <1>4 DEF IInv, PartitionTypes, Order!IsGraph, AllOperations
<1>6. q \notin S
  BY <1>1, <1>4, <1>5 DEF Order!Follows
<1>7. Marking(x)
  BY <1>3, <1>4, <1>5, <1>6 DEF IInv, UnknownInv
<1> QED
  BY <1>7 DEF Marking

LEMMA InitRefines == PartitionInit => Order!Init
<1> SUFFICES ASSUME PartitionInit PROVE Order!Init
  OBVIOUS
<1>1. Order!IsGraph(graph) /\ Order!Operations(graph) = {}
  BY NoGraphIsGraph DEF PartitionInit
<1>2. bestDeviceForOperation \in [{} -> Nat]
  BY Z3 DEF PartitionInit
<1>3. added = <<>> /\ (mode = "done") = FALSE
  BY DEF PartitionInit
<1>4. Mapped = <<>>
  BY <1>3 DEF Mapped
<1> QED
  BY <1>1, <1>2, <1>3, <1>4 DEF Order!Init, Mapped

LEMMA StartRefines ==
  ASSUME NEW g, Order!IsGraph(g), NEW best \in [Order!Operations(g) -> Devices], Start(g, best)
  PROVE  Order!Start
<1>1. Order!IsGraph(graph') /\ bestDeviceForOperation' \in [Order!Operations(graph') -> Nat]
  BY GraphAssumption DEF Start, Devices
<1>2. added' = <<>> /\ (mode' = "done") = FALSE
  BY DEF Start
<1>3. Mapped' = <<>>
  BY <1>2 DEF Mapped
<1> QED
  BY <1>1, <1>2, <1>3 DEF Order!Start, Mapped

LEMMA ForgetRefines == Forget => Order!Start
<1> SUFFICES ASSUME Forget PROVE Order!Start
  OBVIOUS
<1>1. Order!IsGraph(graph') /\ Order!Operations(graph') = {}
  BY NoGraphIsGraph DEF Forget
<1>2. bestDeviceForOperation' \in [{} -> Nat]
  BY Z3 DEF Forget
<1>3. added' = <<>> /\ (mode' = "done") = FALSE
  BY DEF Forget
<1>4. Mapped' = <<>>
  BY <1>3 DEF Mapped
<1> QED
  BY <1>1, <1>2, <1>3, <1>4 DEF Order!Start, Mapped

(* A new step is added to later.                                             *)
LEMMA createNewStepRefines == IInv /\ createNewStep => UNCHANGED Order!vars
<1> SUFFICES ASSUME IInv, createNewStep PROVE UNCHANGED Order!vars
  OBVIOUS
<1>1. PICK d \in Devices : stepDevices' = Append(stepDevices, d)
  BY DEF createNewStep
<1>2. \A k \in 1 .. Len(stepDevices) : stepDevices'[k] = stepDevices[k]
  BY <1>1 DEF IInv, PartitionTypes
<1>3. DOMAIN added = 1 .. Len(added)
  BY DEF IInv, PartitionTypes
<1>4. \A k \in DOMAIN added : stepDevices'[added[k].step] = stepDevices[added[k].step]
  BY <1>2, <1>3 DEF IInv, StepsInv
<1>5. Mapped' = Mapped
  BY <1>4 DEF createNewStep, Mapped
<1> QED
  BY <1>5 DEF createNewStep, Order!vars, Mapped

LEMMA assignOperationRefines ==
  ASSUME IInv, NEW o \in AllOperations, assignOperation(o)
  PROVE  Order!Add(o)
<1>1. unknownInputs[o] = {} /\ ~ Assigned(o) /\ bestDeviceForOperation[o] = CurrentDevice
  BY NextInQueue DEF assignOperation
<1>2. ~ Order!Scheduled(o)
  BY <1>1, MappedScheduled DEF IInv
<1>3. \A p \in Order!Operations(graph) : Order!Follows(graph, o, p) => Order!Scheduled(p)
  BY <1>1, DependenciesAssigned, MappedScheduled DEF IInv, AllOperations
<1>4. added' = Append(added, [operation |-> o, step |-> Len(stepDevices)])
  BY DEF assignOperation
<1>5. Mapped' = Append(Mapped, [operation |-> o, device |-> bestDeviceForOperation[o]])
  <2> DEFINE n == Len(added)
             last == [operation |-> o, device |-> bestDeviceForOperation[o]]
  <2>1. /\ n \in Nat /\ DOMAIN added = 1 .. n /\ DOMAIN added' = 1 .. (n + 1)
        /\ \A k \in 1 .. n : added'[k] = added[k]
        /\ added'[n + 1] = [operation |-> o, step |-> Len(stepDevices)]
    BY <1>4 DEF IInv, PartitionTypes
  <2>2. stepDevices' = stepDevices /\ stepDevices[Len(stepDevices)] = bestDeviceForOperation[o]
    BY <1>1 DEF assignOperation, CurrentDevice
  <2>3. Mapped \in Seq([operation : AllOperations, device : Devices]) /\ Len(Mapped) = n
    <3>1. \A k \in 1 .. n : /\ added[k].operation \in AllOperations
                           /\ stepDevices[added[k].step] \in Devices
      <4>1. \A k \in 1 .. n : added[k].operation \in AllOperations
        <5>1. added \in Seq([operation : AllOperations, step : Nat])
          BY DEF IInv, PartitionTypes
        <5>2. \A S : added \in Seq(S) => \A k \in 1 .. Len(added) : added[k] \in S
          OBVIOUS
        <5>3. \A k \in 1 .. n : added[k] \in [operation : AllOperations, step : Nat]
          BY <5>1, <5>2
        <5> QED
          BY <5>3
      <4>2. \A k \in 1 .. n : added[k].step \in 1 .. Len(stepDevices)
        BY DEF IInv, StepsInv
      <4>3. \A i \in 1 .. Len(stepDevices) : stepDevices[i] \in Devices
        BY DEF IInv, PartitionTypes
      <4> QED
        BY <4>1, <4>2, <4>3
    <3> QED
      BY <2>1, <3>1 DEF Mapped
  <2>4. Append(Mapped, last) = [k \in 1 .. (n + 1) |-> IF k <= n THEN Mapped[k] ELSE last]
    BY <2>1, <2>3
  <2>5. \A k \in 1 .. (n + 1) : Mapped'[k] = IF k <= n THEN Mapped[k] ELSE last
    BY <2>1, <2>2 DEF Mapped
  <2>6. Mapped' = [k \in 1 .. (n + 1) |-> Mapped'[k]]
    BY <2>1 DEF Mapped
  <2> QED
    BY <2>4, <2>5, <2>6
<1>6. UNCHANGED << graph, bestDeviceForOperation >> /\ (mode' = "done") = (mode = "done")
  BY DEF assignOperation, IsNextInQueue
<1> QED
  BY <1>2, <1>3, <1>5, <1>6 DEF Order!Add, Mapped

LEMMA EndPartitionRefines == IInv /\ EndPartition => Order!Complete
<1> SUFFICES ASSUME IInv, EndPartition PROVE Order!Complete
  OBVIOUS
<1>1. \A o \in Order!Operations(graph) : Order!Scheduled(o)
  BY Complete, MappedScheduled DEF EndPartition, IInv, AllOperations
<1> QED
  BY <1>1 DEF EndPartition, Order!Complete

LEMMA StepRefines == IInv /\ [PartitionNext]_partitionVars => [Order!Next]_Order!vars
<1> SUFFICES ASSUME IInv, [PartitionNext]_partitionVars PROVE [Order!Next]_Order!vars
  OBVIOUS
<1>1. ASSUME NEW g \in Graphs, NEW best \in [Order!Operations(g) -> Devices], Start(g, best)
      PROVE  Order!Next
  BY <1>1, StartRefines, GraphAssumption DEF Order!Next
<1>2. CASE CountInputs \/ EndCount \/ EndStep \/ markProcessed \/ NextOutput \/ EndMark \/ Abandon
  BY <1>2, Stutters DEF CountInputs, EndCount, EndStep, markProcessed, NextOutput, EndMark, Abandon
<1>3. CASE createNewStep
  BY <1>3, createNewStepRefines
<1>4. CASE EndPartition
  BY <1>4, EndPartitionRefines DEF Order!Next
<1>5. ASSUME NEW o \in AllOperations, assignOperation(o) PROVE Order!Next
  BY <1>5, assignOperationRefines DEF Order!Next, AllOperations
<1>6. CASE Forget
  BY <1>6, ForgetRefines DEF Order!Next
<1>7. CASE UNCHANGED partitionVars
  BY <1>7, Stutters DEF partitionVars
<1> QED
  BY <1>1, <1>2, <1>3, <1>4, <1>5, <1>6, <1>7 DEF PartitionNext, Loop

(* The order in which partitionTheWork adds the operations of a graph to steps  *)
(* is a schedule: each once, on its best device, after what it depends on, and  *)
(* none is left when the loop over the queues ends.                           *)
THEOREM Refinement == PartitionSpec => ImplementsSchedule
BY InitRefines, StepRefines, Invariant, PTL DEF PartitionSpec, ImplementsSchedule, Order!Spec
=============================================================================
