--------------------------- MODULE NNCacheProofs ---------------------------
(***************************************************************************)
(* Proofs about NNCache and the BlobCache in it, for any keys, sizes, limits    *)
(* and policies, and any number of values and of deaths.                      *)
(*                                                                         *)
(* A cache is well formed when its accesses are its keys, each once, its total  *)
(* is the number of the bytes of its entries and within its limits, and its     *)
(* entries come from a given set.  Evicting, storing and reading a file keep a   *)
(* cache well formed, and evicting ends with as much room as was asked for:      *)
(* this is shown of the operators first.  The invariant of NNCache then says     *)
(* of which entries the cache and the file consist.                          *)
(***************************************************************************)
EXTENDS NNCache, FiniteSetTheorems, SequenceTheorems, WellFoundedInduction, TLAPS

-----------------------------------------------------------------------------
(* Loops over numbers.                                                      *)

(* A nonempty set of naturals has a least element.                            *)
LEMMA LeastNatural ==
  ASSUME NEW S \in SUBSET Nat, S # {}
  PROVE  \E m \in S : \A k \in S : m <= k
<1> DEFINE R == StrictSubsetOrdering(Nat)
           T == {1 .. n : n \in S}
<1>1. IsWellFoundedOn(R, FiniteSubsetsOf(Nat)) BY FS_StrictSubsetOrderingWellFounded
<1>2. T \subseteq FiniteSubsetsOf(Nat) /\ T # {}
  <2>1. \A n \in Nat : IsFiniteSet(1 .. n) BY FS_Interval
  <2>2. \A n \in Nat : 1 .. n \in SUBSET Nat OBVIOUS
  <2>3. \A n \in Nat : 1 .. n \in FiniteSubsetsOf(Nat) BY <2>1, <2>2 DEF FiniteSubsetsOf
  <2> QED BY <2>3
<1>3. PICK x \in T : \A y \in T : ~ (<< y, x >> \in R)
  <2> HIDE DEF R, T
  <2> QED BY <1>1, <1>2, WFMin
<1>4. PICK m \in S : x = 1 .. m BY <1>3
<1>5. ASSUME NEW k \in S, k < m PROVE << 1 .. k, 1 .. m >> \in R
  <2>1. 1 .. k \subseteq 1 .. m BY <1>5
  <2>2. m \in 1 .. m /\ m \notin 1 .. k BY <1>5
  <2> QED BY <2>1, <2>2 DEF StrictSubsetOrdering
<1>6. \A k \in S : 1 .. k \in T OBVIOUS
<1>7. \A k \in S : ~ (k < m)
  <2> HIDE DEF R, T
  <2> QED BY <1>3, <1>4, <1>5, <1>6
<1> QED BY <1>7

(* What holds at zero and passes from each number to the next.                 *)
LEMMA UpTo ==
  ASSUME NEW N \in Nat, NEW P, 0 \in P, \A n \in 1 .. N : n - 1 \in P => n \in P
  PROVE  0 .. N \subseteq P
<1> DEFINE S == (0 .. N) \ P
<1>1. SUFFICES ASSUME S # {} PROVE FALSE OBVIOUS
<1>2. S \in SUBSET Nat OBVIOUS
<1>3. PICK m \in S : \A k \in S : m <= k
  <2> HIDE DEF S
  <2> QED BY <1>1, <1>2, LeastNatural
<1>4. m \in 1 .. N /\ m - 1 \in 0 .. N /\ m - 1 \notin S BY <1>2, <1>3
<1> QED BY <1>3, <1>4

(* What a recursive function over 0 .. N is, of a step that is given as a      *)
(* function: of the number of the round and the state before it.              *)
IsHistory(h, N, S, start, step) ==
  /\ h \in [0 .. N -> S]
  /\ h[0] = start /\ \A n \in 1 .. N : h[n] = step[n][h[n - 1]]

(* There is such a function.                                                 *)
LEMMA Loop ==
  ASSUME NEW N \in Nat, NEW S, NEW start \in S, NEW step \in [1 .. N -> [S -> S]]
  PROVE  \E h : IsHistory(h, N, S, start, step)
<1> DEFINE Is(h, m) == h \in [0 .. m -> S] /\ h = [n \in 0 .. m |-> IF n = 0 THEN start ELSE step[n][h[n - 1]]]
           P == {m \in 0 .. N : \E h : Is(h, m)}
<1>1. 0 \in P
  <2> DEFINE h == [n \in 0 .. 0 |-> start]
  <2>1. h \in [0 .. 0 -> S] OBVIOUS
  <2>2. h = [n \in 0 .. 0 |-> IF n = 0 THEN start ELSE step[n][h[n - 1]]] OBVIOUS
  <2>3. Is(h, 0) BY <2>1, <2>2
  <2> HIDE DEF h, Is
  <2> QED BY <2>3
<1>2. ASSUME NEW m \in 1 .. N, m - 1 \in P PROVE m \in P
  <2>1. PICK g : Is(g, m - 1) BY <1>2
  <2> DEFINE last == step[m][g[m - 1]]
             h == [n \in 0 .. m |-> IF n = m THEN last ELSE g[n]]
  <2>2. \A n \in 0 .. m - 1 : g[n] \in S /\ g[n] = IF n = 0 THEN start ELSE step[n][g[n - 1]]
    BY <2>1
  <2>3. step[m][g[m - 1]] \in S
    <3>1. g[m - 1] \in S
      <4>1. m - 1 \in 0 .. m - 1 OBVIOUS
      <4> QED BY <4>1, <2>2
    <3>2. step[m] \in [S -> S] OBVIOUS
    <3> QED BY <3>1, <3>2
  <2>4. h \in [0 .. m -> S]
    <3>1. last \in S BY <2>3
    <3> HIDE DEF last
    <3>2. ASSUME NEW n \in 0 .. m PROVE (IF n = m THEN last ELSE g[n]) \in S
      <4>1. CASE n = m BY <4>1, <3>1
      <4>2. CASE n # m
        <5>1. n \in 0 .. m - 1 BY <4>2
        <5> QED BY <2>2, <4>2, <5>1
      <4> QED BY <4>1, <4>2
    <3> QED BY <3>2
  <2>5. \A n \in 0 .. m : h[n] = IF n = 0 THEN start ELSE step[n][h[n - 1]]
    <3> SUFFICES ASSUME NEW n \in 0 .. m PROVE h[n] = IF n = 0 THEN start ELSE step[n][h[n - 1]]
      OBVIOUS
    <3>1. CASE n = m
      <4>1. h[n - 1] = g[n - 1] /\ n # 0 /\ h[n] = step[m][g[m - 1]] BY <3>1
      <4> QED BY <3>1, <4>1
    <3>2. CASE n = 0
      <4>1. n \in 0 .. m - 1 /\ n # m BY <3>2
      <4>2. h[n] = g[n] /\ g[n] = start BY <3>2, <4>1, <2>2
      <4> QED BY <3>2, <4>2
    <3>3. CASE n # m /\ n # 0
      <4>1. n \in 0 .. m - 1 /\ n - 1 \in 0 .. m - 1 BY <3>3
      <4>2. h[n] = g[n] /\ h[n - 1] = g[n - 1] BY <3>3, <4>1
      <4> QED BY <2>2, <3>3, <4>1, <4>2
    <3> QED BY <3>1, <3>2, <3>3
  <2>6. Is(h, m) BY <2>4, <2>5
  <2> HIDE DEF h, Is
  <2> QED BY <2>6
<1>3. N \in P
  <2> HIDE DEF P
  <2>1. 0 .. N \subseteq P BY <1>1, <1>2, UpTo
  <2> QED BY <2>1
<1>4. PICK h : Is(h, N) BY <1>3
<1>5. h[0] = start BY <1>4
<1>6. \A n \in 1 .. N : h[n] = step[n][h[n - 1]] BY <1>4
<1> QED BY <1>4, <1>5, <1>6 DEF IsHistory

-----------------------------------------------------------------------------
(* Caches.                                                                  *)

Keys == DOMAIN KeySize
Values == [id : Nat, size : Nat]
Policies == [select : Selects, capacity : Capacities]
Limits == [key : Nat, value : Nat, total : Nat]

Records ==
  [limits : Limits, policy : Policies, total : Nat,
   entries : UNION {[K -> Values] : K \in SUBSET Keys}, accesses : Seq(Keys)]

(* The accesses are the keys of the entries, each once.                       *)
InOrder(c) == IsInjective(c.accesses) /\ Range(c.accesses) = DOMAIN c.entries

(* What Accounting says of a cache.                                          *)
InLimits(c) ==
  /\ c.total = SizeOfEntries(c) /\ c.total <= c.limits.total
  /\ \A k \in DOMAIN c.entries :
       KeySize[k] <= c.limits.key /\ c.entries[k].size <= c.limits.value

(* The well formed caches of some limits and policy with entries of the set E.   *)
Caches(limits, policy, E) ==
  {c \in Records : /\ c.limits = limits /\ c.policy = policy
                   /\ InOrder(c) /\ InLimits(c) /\ IsFiniteSet(Bytes(c)) /\ flatten(c) \subseteq E}

LEMMA KeySizes ==
  /\ Len(KeySize) \in Nat /\ Keys = 1 .. Len(KeySize)
  /\ \A k \in Keys : KeySize[k] \in Nat /\ KeySize[k] > 0
BY BlobCacheAssumption DEF Keys

(* What the parts of a record are.                                           *)
LEMMA Parts ==
  ASSUME NEW c \in Records
  PROVE  /\ c.limits \in Limits /\ c.policy \in Policies /\ c.total \in Nat
         /\ c.limits.key \in Nat /\ c.limits.value \in Nat /\ c.limits.total \in Nat
         /\ DOMAIN c.entries \subseteq Keys /\ c.accesses \in Seq(Keys)
         /\ c.entries \in [DOMAIN c.entries -> Values]
         /\ \A k \in DOMAIN c.entries : /\ c.entries[k] \in Values /\ c.entries[k].size \in Nat
                                        /\ EntrySize(c, k) \in Nat /\ EntrySize(c, k) > 0
<1>1. /\ c.limits \in Limits /\ c.policy \in Policies /\ c.total \in Nat /\ c.accesses \in Seq(Keys)
      /\ c.entries \in UNION {[K -> Values] : K \in SUBSET Keys}
  BY DEF Records
<1>2. c.limits.key \in Nat /\ c.limits.value \in Nat /\ c.limits.total \in Nat BY <1>1 DEF Limits
<1>3. PICK K \in SUBSET Keys : c.entries \in [K -> Values] BY <1>1
<1>4. DOMAIN c.entries = K BY <1>3
<1>5. ASSUME NEW k \in DOMAIN c.entries
      PROVE  /\ c.entries[k] \in Values /\ c.entries[k].size \in Nat
             /\ EntrySize(c, k) \in Nat /\ EntrySize(c, k) > 0
  <2>1. c.entries[k] \in Values BY <1>3, <1>4
  <2>2. c.entries[k].size \in Nat BY <2>1 DEF Values
  <2>3. KeySize[k] \in Nat /\ KeySize[k] > 0 BY <1>3, <1>4, KeySizes
  <2> QED BY <2>1, <2>2, <2>3 DEF EntrySize
<1> QED BY <1>1, <1>2, <1>3, <1>4, <1>5

(* A record of the right parts.                                             *)
LEMMA Whole ==
  ASSUME NEW limits \in Limits, NEW policy \in Policies, NEW total \in Nat,
         NEW K \in SUBSET Keys, NEW entries \in [K -> Values], NEW accesses \in Seq(Keys)
  PROVE  [limits |-> limits, policy |-> policy, total |-> total, entries |-> entries,
          accesses |-> accesses] \in Records
<1>1. entries \in UNION {[J -> Values] : J \in SUBSET Keys} OBVIOUS
<1> QED BY <1>1 DEF Records

-----------------------------------------------------------------------------
(* The order of the accesses.                                               *)

LEMMA Forgets ==
  ASSUME NEW T, NEW s \in Seq(T), NEW e, IsInjective(s)
  PROVE  /\ RemoveFirst(s, e) \in Seq(T) /\ IsInjective(RemoveFirst(s, e))
         /\ Range(RemoveFirst(s, e)) = Range(s) \ {e}
         /\ e \in Range(s) => Len(RemoveFirst(s, e)) = Len(s) - 1
<1>0. Len(s) \in Nat /\ DOMAIN s = 1 .. Len(s) OBVIOUS
<1>1. CASE e \notin Range(s)
  <2>1. ~ \E i \in 1 .. Len(s) : s[i] = e BY <1>0, <1>1 DEF Range
  <2>2. RemoveFirst(s, e) = s BY <2>1 DEF RemoveFirst
  <2> QED BY <1>1, <2>2
<1>2. CASE e \in Range(s)
  <2>1. PICK i \in 1 .. Len(s) : s[i] = e BY <1>0, <1>2 DEF Range
  <2>2. \A j \in 1 .. Len(s) : s[j] = e => j = i BY <1>0, <2>1 DEF IsInjective
  <2>3. SelectInSeq(s, LAMBDA v : v = e) = i
    <3> DEFINE I == {j \in 1 .. Len(s) : s[j] = e}
    <3>1. I = {i} BY <2>1, <2>2
    <3>2. (CHOOSE x \in I : \A y \in I : x <= y) = i
      <4>1. i <= i BY <1>0
      <4>2. \A x \in I : (\A y \in I : x <= y) <=> x = i BY <3>1, <4>1
      <4> QED BY <3>1, <4>2
    <3> QED BY <3>1, <3>2 DEF SelectInSeq, Min
  <2> DEFINE a == SubSeq(s, 1, i - 1)
             b == SubSeq(s, i + 1, Len(s))
             r == a \o b
  <2>4. RemoveFirst(s, e) = r
    <3>1. RemoveFirst(s, e) = RemoveAt(s, SelectInSeq(s, LAMBDA v : v = e)) BY <2>1 DEF RemoveFirst
    <3> QED BY <2>3, <3>1 DEF RemoveAt
  <2>5. /\ a \in Seq(T) /\ Len(a) = i - 1 /\ \A j \in 1 .. i - 1 : a[j] = s[j]
        /\ b \in Seq(T) /\ Len(b) = Len(s) - i /\ \A j \in 1 .. Len(s) - i : b[j] = s[i + j]
    <3>1. i \in Nat /\ 1 <= i /\ i <= Len(s) BY <1>0
    <3>2. a \in Seq(T) /\ Len(a) = i - 1 /\ \A j \in 1 .. i - 1 : a[j] = s[1 + j - 1]
      BY <1>0, <3>1, SubSeqProperties
    <3>3. /\ b \in Seq(T) /\ Len(b) = Len(s) - i
          /\ \A j \in 1 .. Len(s) - i : b[j] = s[(i + 1) + j - 1]
      <4>2. Len(s) - (i + 1) + 1 = Len(s) - i BY <1>0, <3>1
      <4>3. \A q \in i + 1 .. Len(s) : s[q] \in T BY <1>0, <3>1
      <4>4. /\ b \in Seq(T) /\ Len(b) = IF i + 1 <= Len(s) THEN Len(s) - (i + 1) + 1 ELSE 0
            /\ \A j \in 1 .. Len(s) - (i + 1) + 1 : b[j] = s[(i + 1) + j - 1]
        BY <1>0, <3>1, <4>3, SubSeqProperties
      <4> HIDE DEF b
      <4>5. Len(b) = Len(s) - i
        <5>1. CASE i + 1 <= Len(s) BY <4>2, <4>4, <5>1
        <5>2. CASE ~ (i + 1 <= Len(s))
          <6>0. \A m, n \in Nat : m <= n /\ ~ (m + 1 <= n) => m = n OBVIOUS
          <6>1. i = Len(s) BY <1>0, <3>1, <5>2, <6>0
          <6>2. Len(s) - i = 0 BY <1>0, <6>1
          <6> QED BY <4>4, <5>2, <6>2
        <5> QED BY <5>1, <5>2
      <4> QED BY <4>2, <4>4, <4>5
    <3>4. \A j \in 1 .. i - 1 : 1 + j - 1 = j BY <3>1
    <3>5. \A j \in 1 .. Len(s) - i : (i + 1) + j - 1 = i + j BY <1>0, <3>1
    <3> HIDE DEF a, b
    <3> QED BY <3>2, <3>3, <3>4, <3>5
  <2> HIDE DEF a, b
  <2>6. r \in Seq(T) /\ Len(r) = Len(s) - 1 /\ DOMAIN r = 1 .. Len(s) - 1
    <3>1. r \in Seq(T) /\ Len(r) = Len(a) + Len(b) BY <2>5, ConcatProperties
    <3>2. Len(r) = Len(s) - 1 BY <1>0, <2>5, <3>1
    <3>3. DOMAIN r = 1 .. Len(r) BY <3>1, LenProperties
    <3> QED BY <3>1, <3>2, <3>3
  <2>7. \A j \in 1 .. Len(s) - 1 : r[j] = s[IF j < i THEN j ELSE j + 1]
    <3> SUFFICES ASSUME NEW j \in 1 .. Len(s) - 1 PROVE r[j] = s[IF j < i THEN j ELSE j + 1]
      OBVIOUS
    <3>1. CASE j < i
      <4>1. j \in 1 .. Len(a) BY <1>0, <2>5, <3>1
      <4>2. r[j] = a[j] BY <2>5, <4>1
      <4> QED BY <2>5, <3>1, <4>1, <4>2
    <3>2. CASE ~ (j < i)
      <4>1. j \in Len(a) + 1 .. Len(a) + Len(b) /\ j - Len(a) = j - i + 1 BY <1>0, <2>5, <3>2
      <4>2. r[j] = b[j - Len(a)] BY <2>5, <4>1
      <4>3. j - i + 1 \in 1 .. Len(s) - i BY <1>0, <3>2
      <4>4. b[j - i + 1] = s[i + (j - i + 1)] BY <2>5, <4>3
      <4>5. i + (j - i + 1) = j + 1 BY <1>0
      <4> QED BY <3>2, <4>1, <4>2, <4>4, <4>5
    <3> QED BY <3>1, <3>2
  <2> HIDE DEF r
  <2>8. IsInjective(r)
    <3> SUFFICES ASSUME NEW j \in DOMAIN r, NEW k \in DOMAIN r, r[j] = r[k] PROVE j = k
      BY DEF IsInjective
    <3> DEFINE place(n) == IF n < i THEN n ELSE n + 1
    <3>1. place(j) \in DOMAIN s /\ place(k) \in DOMAIN s BY <1>0, <2>6
    <3>2. s[place(j)] = s[place(k)] BY <2>6, <2>7
    <3>3. place(j) = place(k) BY <3>1, <3>2 DEF IsInjective
    <3> QED BY <1>0, <2>6, <3>3
  <2>9. Range(r) = Range(s) \ {e}
    <3>1. ASSUME NEW x \in Range(r) PROVE x \in Range(s) \ {e}
      <4>1. PICK j \in 1 .. Len(s) - 1 : x = r[j] BY <2>6 DEF Range
      <4> DEFINE p == IF j < i THEN j ELSE j + 1
      <4>2. p \in DOMAIN s /\ p # i BY <1>0
      <4>3. x = s[p] BY <2>7, <4>1
      <4>4. x # e BY <1>0, <2>2, <4>2, <4>3
      <4> QED BY <4>2, <4>3, <4>4 DEF Range
    <3>2. ASSUME NEW x \in Range(s) \ {e} PROVE x \in Range(r)
      <4>1. PICK j \in 1 .. Len(s) : x = s[j] BY <1>0 DEF Range
      <4>2. j # i BY <2>1, <3>2, <4>1
      <4>3. CASE j < i
        <5>1. j \in 1 .. Len(s) - 1 BY <1>0, <4>3
        <5> QED BY <2>6, <2>7, <4>1, <4>3, <5>1 DEF Range
      <4>4. CASE j > i
        <5>1. j - 1 \in 1 .. Len(s) - 1 /\ ~ (j - 1 < i) /\ (j - 1) + 1 = j BY <1>0, <4>4
        <5>2. r[j - 1] = s[j] BY <2>7, <5>1
        <5> QED BY <2>6, <4>1, <5>1, <5>2 DEF Range
      <4> QED BY <1>0, <4>2, <4>3, <4>4
    <3> QED BY <3>1, <3>2
  <2> QED BY <2>4, <2>6, <2>8, <2>9
<1> QED BY <1>1, <1>2

LEMMA Appends ==
  ASSUME NEW T, NEW s \in Seq(T), NEW e \in T, IsInjective(s), e \notin Range(s)
  PROVE  /\ Append(s, e) \in Seq(T) /\ IsInjective(Append(s, e))
         /\ Range(Append(s, e)) = Range(s) \cup {e}
<1> DEFINE r == Append(s, e)
<1>1. Len(s) \in Nat /\ DOMAIN s = 1 .. Len(s) OBVIOUS
<1>2. /\ r \in Seq(T) /\ DOMAIN r = 1 .. Len(s) + 1 /\ r[Len(s) + 1] = e
      /\ \A n \in 1 .. Len(s) : r[n] = s[n]
  OBVIOUS
<1> HIDE DEF r
<1>3. \A n \in DOMAIN r : n = Len(s) + 1 \/ n \in DOMAIN s BY <1>1, <1>2
<1>4. \A n \in DOMAIN s : s[n] # e BY DEF Range
<1>5. \A m, n \in DOMAIN r : r[m] = r[n] => m = n BY <1>1, <1>2, <1>3, <1>4 DEF IsInjective
<1>6. \A x : x \in Range(r) <=> x \in Range(s) \cup {e}
  <2>1. ASSUME NEW x \in Range(r) PROVE x \in Range(s) \cup {e} BY <1>1, <1>2, <1>3 DEF Range
  <2>2. ASSUME NEW x \in Range(s) \cup {e} PROVE x \in Range(r)
    <3>1. CASE x = e
      <4>1. Len(s) + 1 \in DOMAIN r BY <1>1, <1>2
      <4> QED BY <1>2, <3>1, <4>1 DEF Range
    <3>2. CASE x \in Range(s)
      <4>1. PICK n \in 1 .. Len(s) : x = s[n] BY <1>1, <3>2 DEF Range
      <4>2. n \in DOMAIN r BY <1>1, <1>2
      <4> QED BY <1>2, <4>1, <4>2 DEF Range
    <3> QED BY <3>1, <3>2
  <2> QED BY <2>1, <2>2
<1>7. Range(r) = Range(s) \cup {e} BY <1>6
<1> QED BY <1>2, <1>5, <1>7 DEF r, IsInjective

-----------------------------------------------------------------------------
(* Bytes.                                                                   *)

Column(k, n) == {k} \X (1 .. n)
Share(c, k) == IF k \in DOMAIN c.entries THEN EntrySize(c, k) ELSE 0

LEMMA ColumnSize ==
  ASSUME NEW k, NEW n \in Nat
  PROVE  IsFiniteSet(Column(k, n)) /\ Cardinality(Column(k, n)) = n
<1>1. IsFiniteSet({k}) /\ Cardinality({k}) = 1 BY FS_Singleton
<1>2. IsFiniteSet(1 .. n) /\ Cardinality(1 .. n) = n BY FS_Interval
<1>3. /\ IsFiniteSet({k} \X (1 .. n))
      /\ Cardinality({k} \X (1 .. n)) = Cardinality({k}) * Cardinality(1 .. n)
  BY <1>1, <1>2, FS_Product
<1>4. 1 * n = n OBVIOUS
<1> QED BY <1>1, <1>2, <1>3, <1>4 DEF Column

LEMMA BytesOf ==
  ASSUME NEW c
  PROVE  Bytes(c) = UNION {Column(k, EntrySize(c, k)) : k \in DOMAIN c.entries}
BY DEF Bytes, Column

(* What the entries take when that of one key is all that changes.             *)
LEMMA Changes ==
  ASSUME NEW c \in Records, NEW d \in Records, NEW k \in Keys, IsFiniteSet(Bytes(c)),
         (DOMAIN d.entries) \ {k} = (DOMAIN c.entries) \ {k},
         \A j \in (DOMAIN c.entries) \ {k} : d.entries[j] = c.entries[j]
  PROVE  /\ IsFiniteSet(Bytes(d))
         /\ SizeOfEntries(c) \in Nat /\ Share(c, k) \in Nat /\ Share(d, k) \in Nat
         /\ Share(c, k) <= SizeOfEntries(c)
         /\ SizeOfEntries(d) = SizeOfEntries(c) - Share(c, k) + Share(d, k)
<1> DEFINE old == Column(k, Share(c, k))
           new == Column(k, Share(d, k))
           rest == Bytes(c) \ old
<1>1. Share(c, k) \in Nat /\ Share(d, k) \in Nat BY Parts DEF Share
<1>2. /\ IsFiniteSet(old) /\ Cardinality(old) = Share(c, k)
      /\ IsFiniteSet(new) /\ Cardinality(new) = Share(d, k)
  BY <1>1, ColumnSize
<1>3. \A j \in (DOMAIN c.entries) \ {k} : EntrySize(d, j) = EntrySize(c, j) BY DEF EntrySize
<1>4. old \subseteq Bytes(c)
  <2>1. CASE k \in DOMAIN c.entries BY <2>1, BytesOf DEF Share
  <2>2. CASE k \notin DOMAIN c.entries
    <3>1. old = {} BY <2>2 DEF Share, Column
    <3> QED BY <3>1
  <2> QED BY <2>1, <2>2
<1>5. rest = UNION {Column(j, EntrySize(c, j)) : j \in (DOMAIN c.entries) \ {k}}
  <2>1. ASSUME NEW j \in (DOMAIN c.entries) \ {k}
        PROVE  Column(j, EntrySize(c, j)) \cap old = {}
    BY DEF Column
  <2>2. k \in DOMAIN c.entries => Column(k, EntrySize(c, k)) = old BY DEF Share
  <2> HIDE DEF old
  <2> QED BY <2>1, <2>2, BytesOf
<1>6. Bytes(d) = rest \cup new
  <2>1. rest = UNION {Column(j, EntrySize(d, j)) : j \in (DOMAIN d.entries) \ {k}} BY <1>3, <1>5
  <2>2. k \in DOMAIN d.entries => Column(k, EntrySize(d, k)) = new BY DEF Share
  <2>3. k \notin DOMAIN d.entries => new = {} BY DEF Share, Column
  <2> HIDE DEF rest, new
  <2> QED BY <2>1, <2>2, <2>3, BytesOf
<1>7. rest \cap new = {}
  <2>1. ASSUME NEW j \in (DOMAIN c.entries) \ {k}
        PROVE  Column(j, EntrySize(c, j)) \cap new = {}
    BY DEF Column
  <2> HIDE DEF rest, new
  <2> QED BY <1>5, <2>1
<1>8. /\ IsFiniteSet(rest) /\ Cardinality(rest) = Cardinality(Bytes(c)) - Cardinality(Bytes(c) \cap old)
  BY FS_Difference
<1>9. Bytes(c) \cap old = old BY <1>4
<1>10. Cardinality(old) <= Cardinality(Bytes(c)) BY <1>4, FS_Subset
<1>11. /\ IsFiniteSet(rest \cup new)
       /\ Cardinality(rest \cup new)
            = Cardinality(rest) + Cardinality(new) - Cardinality(rest \cap new)
  BY <1>2, <1>8, FS_Union
<1>12. Cardinality(rest \cap new) = 0 BY <1>7, FS_EmptySet
<1>13. Cardinality(Bytes(c)) \in Nat /\ Cardinality(rest) \in Nat BY <1>8, FS_CardinalityType
<1> HIDE DEF old, new, rest
<1>14. Cardinality(Bytes(d)) = Cardinality(Bytes(c)) - Share(c, k) + Share(d, k)
  <2>1. Cardinality(rest) = Cardinality(Bytes(c)) - Share(c, k) BY <1>2, <1>8, <1>9
  <2>2. Cardinality(rest \cup new) = Cardinality(rest) + Share(d, k) - 0 BY <1>2, <1>11, <1>12
  <2>3. Cardinality(Bytes(d)) = Cardinality(rest \cup new) BY <1>6
  <2> QED BY <1>1, <1>13, <2>1, <2>2, <2>3
<1> QED BY <1>1, <1>2, <1>6, <1>10, <1>11, <1>13, <1>14 DEF SizeOfEntries

(* Only a cache without entries has nothing to evict.                         *)
LEMMA EmptyIsZero ==
  ASSUME NEW c
  PROVE  /\ DOMAIN c.entries = {} => SizeOfEntries(c) = 0 /\ IsFiniteSet(Bytes(c))
         /\ SizeOfEntries(c) # 0 => DOMAIN c.entries # {}
<1>1. ASSUME DOMAIN c.entries = {} PROVE SizeOfEntries(c) = 0 /\ IsFiniteSet(Bytes(c))
  <2>1. Bytes(c) = {} BY <1>1 DEF Bytes
  <2> QED BY <2>1, FS_EmptySet DEF SizeOfEntries
<1> QED BY <1>1

-----------------------------------------------------------------------------
(* Eviction.                                                               *)

(* A cache with another total, other entries and other accesses.               *)
Made(c, t, e, a) ==
  [limits |-> c.limits, policy |-> c.policy, total |-> t, entries |-> e, accesses |-> a]

LEMMA Renewed ==
  ASSUME NEW c \in Records
  PROVE  /\ \A total, entries, accesses :
              [c EXCEPT !.total = total, !.entries = entries, !.accesses = accesses]
                = Made(c, total, entries, accesses)
         /\ \A total, entries :
              [c EXCEPT !.total = total, !.entries = entries] = Made(c, total, entries, c.accesses)
         /\ \A accesses : [c EXCEPT !.accesses = accesses] = Made(c, c.total, c.entries, accesses)
         /\ \A entries, accesses :
              [c EXCEPT !.entries = entries, !.accesses = accesses]
                = Made(c, c.total, entries, accesses)
<1> DEFINE made(t, e, a) ==
      [limits |-> c.limits, policy |-> c.policy, total |-> t, entries |-> e, accesses |-> a]
           old == made(c.total, c.entries, c.accesses)
<1>1. c = old BY DEF Records
<1>2. ASSUME NEW total, NEW entries
      PROVE  [c EXCEPT !.total = total, !.entries = entries] = Made(c, total, entries, c.accesses)
  <2> DEFINE renewed == made(total, c.entries, c.accesses)
  <2>1. [old EXCEPT !.total = total] = renewed OBVIOUS
  <2>2. [renewed EXCEPT !.entries = entries] = made(total, entries, c.accesses) OBVIOUS
  <2> HIDE DEF old, renewed
  <2>3. [[c EXCEPT !.total = total] EXCEPT !.entries = entries] = made(total, entries, c.accesses)
    BY <1>1, <2>1, <2>2
  <2> QED BY <2>3 DEF Made
<1>3. ASSUME NEW accesses
      PROVE  [c EXCEPT !.accesses = accesses] = Made(c, c.total, c.entries, accesses)
  <2>1. [old EXCEPT !.accesses = accesses] = made(c.total, c.entries, accesses) OBVIOUS
  <2> HIDE DEF old
  <2> QED BY <1>1, <2>1 DEF Made
<1>4. ASSUME NEW total, NEW entries, NEW accesses
      PROVE  [c EXCEPT !.total = total, !.entries = entries, !.accesses = accesses]
               = Made(c, total, entries, accesses)
  <2> DEFINE filled == made(total, entries, c.accesses)
  <2>1. [filled EXCEPT !.accesses = accesses] = made(total, entries, accesses) OBVIOUS
  <2>2. [c EXCEPT !.total = total, !.entries = entries] = filled BY <1>2 DEF Made
  <2> HIDE DEF filled
  <2>3. [[[c EXCEPT !.total = total] EXCEPT !.entries = entries] EXCEPT !.accesses = accesses]
          = made(total, entries, accesses)
    BY <2>1, <2>2
  <2> QED BY <2>3 DEF Made
<1>5. ASSUME NEW entries, NEW accesses
      PROVE  [c EXCEPT !.entries = entries, !.accesses = accesses]
               = Made(c, c.total, entries, accesses)
  <2> DEFINE emptied == made(c.total, entries, c.accesses)
  <2>1. [old EXCEPT !.entries = entries] = emptied OBVIOUS
  <2>2. [emptied EXCEPT !.accesses = accesses] = made(c.total, entries, accesses) OBVIOUS
  <2> HIDE DEF old, emptied
  <2>3. [[c EXCEPT !.entries = entries] EXCEPT !.accesses = accesses] = made(c.total, entries, accesses)
    BY <1>1, <2>1, <2>2
  <2> QED BY <2>3 DEF Made
<1> HIDE DEF old
<1>6. \A total, entries :
        [c EXCEPT !.total = total, !.entries = entries] = Made(c, total, entries, c.accesses)
  BY <1>2
<1>7. \A accesses : [c EXCEPT !.accesses = accesses] = Made(c, c.total, c.entries, accesses)
  BY <1>3
<1>8. \A total, entries, accesses :
        [c EXCEPT !.total = total, !.entries = entries, !.accesses = accesses]
          = Made(c, total, entries, accesses)
  BY <1>4
<1>9. \A entries, accesses :
        [c EXCEPT !.entries = entries, !.accesses = accesses] = Made(c, c.total, entries, accesses)
  BY <1>5
<1> QED BY <1>6, <1>7, <1>8, <1>9

LEMMA InCaches ==
  ASSUME NEW limits, NEW policy, NEW E, NEW c
  PROVE  c \in Caches(limits, policy, E)
           <=> /\ c \in Records /\ c.limits = limits /\ c.policy = policy
               /\ InOrder(c) /\ InLimits(c) /\ IsFiniteSet(Bytes(c)) /\ flatten(c) \subseteq E
BY DEF Caches

(* Nothing but the entry of a key changes when it is evicted.                   *)
LEMMA WithoutIs ==
  ASSUME NEW c \in Records, NEW k \in DOMAIN c.entries, EntrySize(c, k) <= c.total,
         InOrder(c)
  PROVE  /\ Without(c, k) \in Records
         /\ Without(c, k).limits = c.limits /\ Without(c, k).policy = c.policy
         /\ Without(c, k).total = c.total - EntrySize(c, k)
         /\ DOMAIN Without(c, k).entries = (DOMAIN c.entries) \ {k}
         /\ \A j \in (DOMAIN c.entries) \ {k} : Without(c, k).entries[j] = c.entries[j]
         /\ Without(c, k).accesses = RemoveFirst(c.accesses, k)
         /\ flatten(Without(c, k)) \subseteq flatten(c)
<1> DEFINE total == c.total - EntrySize(c, k)
           K == (DOMAIN c.entries) \ {k}
           entries == [j \in K |-> c.entries[j]]
           accesses == RemoveFirst(c.accesses, k)
           d == Made(c, total, entries, accesses)
<1>1. Without(c, k) = d
  <2>1. Without(c, k) = [c EXCEPT !.total = total, !.entries = entries, !.accesses = accesses]
    BY DEF Without, Restrict, Records
  <2> HIDE DEF total, entries, accesses
  <2>2. [c EXCEPT !.total = total, !.entries = entries, !.accesses = accesses] = d
    <3>1. \A t, e, a : [c EXCEPT !.total = t, !.entries = e, !.accesses = a] = Made(c, t, e, a)
      BY Renewed
    <3> QED BY <3>1
  <2> QED BY <2>1, <2>2
<1>2. d \in Records
  <2>1. total \in Nat BY Parts
  <2>2. K \in SUBSET Keys /\ entries \in [K -> Values] BY Parts
  <2>3. accesses \in Seq(Keys) BY Parts, Forgets DEF InOrder
  <2>4. c.limits \in Limits /\ c.policy \in Policies BY Parts
  <2> HIDE DEF total, entries, accesses, K
  <2> QED BY <2>1, <2>2, <2>3, <2>4, Whole DEF Made
<1>3. DOMAIN entries = K /\ \A j \in K : entries[j] = c.entries[j] OBVIOUS
<1>4. flatten(d) \subseteq flatten(c) BY <1>3 DEF flatten, Made
<1> HIDE DEF entries, accesses, total
<1> QED BY <1>1, <1>2, <1>3, <1>4 DEF total, accesses, Made

LEMMA Evicts ==
  ASSUME NEW limits, NEW policy, NEW E, NEW c \in Caches(limits, policy, E),
         NEW k \in DOMAIN c.entries
  PROVE  /\ Without(c, k) \in Caches(limits, policy, E)
         /\ Len(Without(c, k).accesses) = Len(c.accesses) - 1
<1> DEFINE d == Without(c, k)
<1>1. /\ c \in Records /\ c.limits = limits /\ c.policy = policy
      /\ InOrder(c) /\ InLimits(c) /\ IsFiniteSet(Bytes(c)) /\ flatten(c) \subseteq E
  BY InCaches
<1>2. k \in Keys /\ EntrySize(c, k) \in Nat /\ EntrySize(c, k) > 0 BY <1>1, Parts
<1>3. EntrySize(c, k) <= c.total /\ c.total \in Nat
  <2>1. Share(c, k) = EntrySize(c, k) BY DEF Share
  <2>2. Share(c, k) <= SizeOfEntries(c) BY <1>1, <1>2, Changes
  <2> QED BY <1>1, <2>1, <2>2, Parts DEF InLimits
<1>4. /\ d \in Records /\ d.limits = c.limits /\ d.policy = c.policy
      /\ d.total = c.total - EntrySize(c, k)
      /\ DOMAIN d.entries = (DOMAIN c.entries) \ {k}
      /\ \A j \in (DOMAIN c.entries) \ {k} : d.entries[j] = c.entries[j]
      /\ d.accesses = RemoveFirst(c.accesses, k)
      /\ flatten(d) \subseteq flatten(c)
  BY <1>1, <1>3, WithoutIs
<1> HIDE DEF d
<1>5. IsFiniteSet(Bytes(d)) /\ SizeOfEntries(d) = SizeOfEntries(c) - EntrySize(c, k)
  <2>1. Share(c, k) = EntrySize(c, k) /\ Share(d, k) = 0 BY <1>4 DEF Share
  <2>2. (DOMAIN d.entries) \ {k} = (DOMAIN c.entries) \ {k} BY <1>4
  <2>3. /\ IsFiniteSet(Bytes(d)) /\ SizeOfEntries(c) \in Nat
        /\ SizeOfEntries(d) = SizeOfEntries(c) - Share(c, k) + Share(d, k)
    BY <1>1, <1>2, <1>4, <2>2, Changes
  <2> QED BY <1>2, <2>1, <2>3
<1>6. InLimits(d)
  <2>1. d.total = SizeOfEntries(d) BY <1>1, <1>4, <1>5 DEF InLimits
  <2>2. c.limits.total \in Nat /\ c.total <= c.limits.total BY <1>1, Parts DEF InLimits
  <2>3. d.total <= d.limits.total BY <1>2, <1>3, <1>4, <2>2
  <2> QED BY <1>1, <1>4, <2>1, <2>3 DEF InLimits
<1>7. /\ InOrder(d) /\ Len(d.accesses) = Len(c.accesses) - 1
  <2>1. c.accesses \in Seq(Keys) /\ IsInjective(c.accesses) /\ Range(c.accesses) = DOMAIN c.entries
    BY <1>1, Parts DEF InOrder
  <2>2. /\ IsInjective(d.accesses) /\ Range(d.accesses) = Range(c.accesses) \ {k}
        /\ Len(d.accesses) = Len(c.accesses) - 1
    BY <1>4, <2>1, Forgets
  <2> QED BY <1>4, <2>1, <2>2 DEF InOrder
<1>8. flatten(d) \subseteq E BY <1>1, <1>4
<1>9. d \in Caches(limits, policy, E) BY <1>1, <1>4, <1>5, <1>6, <1>7, <1>8, InCaches
<1> QED BY <1>7, <1>9 DEF d

(* There is a victim as long as the total is not zero.                        *)
LEMMA VictimsAre ==
  ASSUME NEW limits, NEW policy, NEW E, NEW c \in Caches(limits, policy, E)
  PROVE  /\ c.total > 0 => Victims(c) \subseteq DOMAIN c.entries
         /\ Len(c.accesses) \in Nat /\ (Len(c.accesses) = 0 => c.total = 0)
<1>1. /\ c \in Records /\ InOrder(c) /\ InLimits(c) BY InCaches
<1>2. c.accesses \in Seq(Keys) /\ Range(c.accesses) = DOMAIN c.entries /\ c.total \in Nat
  BY <1>1, Parts DEF InOrder
<1>3. Len(c.accesses) \in Nat /\ DOMAIN c.accesses = 1 .. Len(c.accesses) BY <1>2
<1>4. c.total # 0 => DOMAIN c.entries # {} BY <1>1, EmptyIsZero DEF InLimits
<1>5. Len(c.accesses) = 0 => DOMAIN c.entries = {} BY <1>2, <1>3 DEF Range
<1>6. ASSUME c.total > 0 PROVE Victims(c) \subseteq DOMAIN c.entries
  <2>1. Len(c.accesses) # 0 BY <1>2, <1>4, <1>5, <1>6
  <2>2. 1 \in DOMAIN c.accesses BY <1>3, <2>1
  <2>3. Head(c.accesses) = c.accesses[1] BY <1>2, <1>3, <2>1
  <2>4. Head(c.accesses) \in DOMAIN c.entries BY <1>2, <2>2, <2>3 DEF Range
  <2> QED BY <2>4 DEF Victims
<1> QED BY <1>3, <1>4, <1>5, <1>6

(* One round of the loop of clean.                                            *)
Evicted(d, downTo) ==
  IF d.total <= downTo THEN {d} ELSE {Without(d, k) : k \in Victims(d)}

LEMMA EvictsOnce ==
  ASSUME NEW limits, NEW policy, NEW E, NEW d \in Caches(limits, policy, E), NEW downTo \in Nat,
         NEW e \in Evicted(d, downTo)
  PROVE  /\ e \in Caches(limits, policy, E)
         /\ (e = d /\ d.total <= downTo) \/ Len(e.accesses) = Len(d.accesses) - 1
<1>1. d.total \in Nat BY InCaches, Parts
<1>2. CASE d.total <= downTo BY <1>2 DEF Evicted
<1>3. CASE ~ (d.total <= downTo)
  <2>1. PICK k \in Victims(d) : e = Without(d, k) BY <1>3 DEF Evicted
  <2>2. d.total > 0 BY <1>1, <1>3
  <2>3. k \in DOMAIN d.entries BY <2>2, VictimsAre
  <2> QED BY <2>1, <2>3, Evicts
<1> QED BY <1>2, <1>3

(* The loop of clean ends with no more than downTo, after at most a round for     *)
(* each entry.                                                               *)
LEMMA CleansUp ==
  ASSUME NEW limits, NEW policy, NEW E, NEW c \in Caches(limits, policy, E), NEW downTo \in Nat
  PROVE  \A d \in Cleaned(c, downTo) : d \in Caches(limits, policy, E) /\ d.total <= downTo
<1> DEFINE All == Caches(limits, policy, E)
           S == SUBSET All
           N == Len(c.accesses)
           IsRun(f) == f = [n \in 0 .. N |->
             IF n = 0 THEN {c} ELSE UNION {Evicted(d, downTo) : d \in f[n - 1]}]
           run == CHOOSE f : IsRun(f)
           step == [n \in 1 .. N |-> [C \in S |-> UNION {Evicted(d, downTo) : d \in C}]]
<1>0. N \in Nat BY VictimsAre
<1>1. Cleaned(c, downTo) = run[N] BY DEF Cleaned, Evicted
<1>2. \A C \in S : UNION {Evicted(d, downTo) : d \in C} \in S
  <2>1. \A d \in All : Evicted(d, downTo) \subseteq All BY EvictsOnce
  <2> HIDE DEF All
  <2> QED BY <2>1
<1>3. {c} \in S OBVIOUS
<1> HIDE DEF All, S, N
<1>4. IsRun(run)
  <2>1. step \in [1 .. N -> [S -> S]] BY <1>2
  <2>2. PICK h : IsHistory(h, N, S, {c}, step)
    <3> HIDE DEF step, run, IsRun
    <3> QED BY <1>0, <1>3, <2>1, Loop
  <2>3. h \in [0 .. N -> S] /\ h[0] = {c} BY <2>2 DEF IsHistory
  <2>4. \A n \in 1 .. N : h[n] = UNION {Evicted(d, downTo) : d \in h[n - 1]}
    <3> SUFFICES ASSUME NEW n \in 1 .. N PROVE h[n] = UNION {Evicted(d, downTo) : d \in h[n - 1]}
      OBVIOUS
    <3>1. n - 1 \in 0 .. N BY <1>0
    <3>2. h[n - 1] \in S /\ h[n] = step[n][h[n - 1]] BY <2>2, <2>3, <3>1 DEF IsHistory
    <3>3. step[n][h[n - 1]] = UNION {Evicted(d, downTo) : d \in h[n - 1]} BY <3>2
    <3> QED BY <3>2, <3>3
  <2> HIDE DEF step
  <2>5. \A n \in 0 .. N : h[n] = IF n = 0 THEN {c} ELSE UNION {Evicted(d, downTo) : d \in h[n - 1]}
    <3> SUFFICES ASSUME NEW n \in 0 .. N
                 PROVE h[n] = IF n = 0 THEN {c} ELSE UNION {Evicted(d, downTo) : d \in h[n - 1]}
      OBVIOUS
    <3>1. CASE n = 0 BY <2>3, <3>1
    <3>2. CASE n # 0
      <4>1. n \in 1 .. N BY <1>0, <3>2
      <4> QED BY <2>4, <3>2, <4>1
    <3> QED BY <3>1, <3>2
  <2>6. IsRun(h) BY <2>3, <2>5
  <2> HIDE DEF IsRun
  <2> QED BY <2>6
<1> HIDE DEF run, step
<1> DEFINE Done(d, n) == d \in All /\ (d.total <= downTo \/ Len(d.accesses) = N - n)
           P == {n \in 0 .. N : \A d \in run[n] : Done(d, n)}
<1>5. run[0] = {c} /\ \A n \in 1 .. N : run[n] = UNION {Evicted(d, downTo) : d \in run[n - 1]}
  <2>1. \A n \in 0 .. N :
          run[n] = IF n = 0 THEN {c} ELSE UNION {Evicted(d, downTo) : d \in run[n - 1]}
    BY <1>4
  <2>2. 0 \in 0 .. N BY <1>0
  <2>3. run[0] = {c} BY <2>1, <2>2
  <2>4. \A n \in 1 .. N : n \in 0 .. N /\ n # 0 BY <1>0
  <2> QED BY <2>1, <2>3, <2>4
<1> HIDE DEF IsRun
<1>6. 0 \in P
  <2>1. Done(c, 0) BY <1>0 DEF All, N
  <2>2. 0 \in 0 .. N BY <1>0
  <2> HIDE DEF Done
  <2> QED BY <1>5, <2>1, <2>2
<1>7. ASSUME NEW n \in 1 .. N, n - 1 \in P PROVE n \in P
  <2>1. SUFFICES ASSUME NEW e \in run[n] PROVE Done(e, n) BY <1>0
  <2>2. PICK d \in run[n - 1] : e \in Evicted(d, downTo) BY <1>5, <2>1
  <2>3. Done(d, n - 1) BY <1>7, <2>2
  <2>4. d \in Caches(limits, policy, E) BY <2>3 DEF All
  <2>5. e \in All /\ ((e = d /\ d.total <= downTo) \/ Len(e.accesses) = Len(d.accesses) - 1)
    BY <2>2, <2>4, EvictsOnce DEF All
  <2>6. Len(d.accesses) \in Nat BY <2>4, VictimsAre
  <2>7. CASE d.total <= downTo
    <3>1. e = d BY <2>2, <2>7 DEF Evicted
    <3> QED BY <2>5, <2>7, <3>1
  <2>8. CASE ~ (d.total <= downTo)
    <3>1. Len(e.accesses) = Len(d.accesses) - 1 BY <2>5, <2>8
    <3>2. Len(d.accesses) = N - (n - 1) BY <2>3, <2>8
    <3>3. (N - (n - 1)) - 1 = N - n BY <1>0
    <3> QED BY <2>5, <3>1, <3>2, <3>3
  <2> QED BY <2>7, <2>8
<1>8. N \in P
  <2> HIDE DEF P
  <2>1. 0 .. N \subseteq P BY <1>0, <1>6, <1>7, UpTo
  <2> QED BY <1>0, <2>1
<1>9. ASSUME NEW d \in run[N] PROVE d \in Caches(limits, policy, E) /\ d.total <= downTo
  <2>1. Done(d, N) BY <1>8
  <2>2. d \in Caches(limits, policy, E) BY <2>1 DEF All
  <2>3. N - N = 0 BY <1>0
  <2>4. Len(d.accesses) = 0 => d.total = 0 BY <2>2, VictimsAre
  <2> QED BY <2>1, <2>2, <2>3, <2>4
<1> QED BY <1>1, <1>9

-----------------------------------------------------------------------------
(* set and get.                                                             *)

(* The order after an access is one of the same keys and the one accessed.      *)
LEMMA AccessesIs ==
  ASSUME NEW s \in Seq(Keys), NEW k \in Keys, IsInjective(s)
  PROVE  LET r == Append(RemoveFirst(s, k), k)
         IN r \in Seq(Keys) /\ IsInjective(r) /\ Range(r) = Range(s) \cup {k}
<1> DEFINE f == RemoveFirst(s, k)
<1>1. f \in Seq(Keys) /\ IsInjective(f) /\ Range(f) = Range(s) \ {k} BY Forgets
<1> HIDE DEF f
<1>2. k \notin Range(f) BY <1>1
<1>3. /\ Append(f, k) \in Seq(Keys) /\ IsInjective(Append(f, k))
      /\ Range(Append(f, k)) = Range(f) \cup {k}
  BY <1>1, <1>2, Appends
<1>4. Range(f) \cup {k} = Range(s) \cup {k} BY <1>1
<1> QED BY <1>3, <1>4 DEF f

LEMMA Accesses ==
  ASSUME NEW limits, NEW policy, NEW E, NEW c \in Caches(limits, policy, E),
         NEW k \in DOMAIN c.entries
  PROVE  Accessed(c, k) \in Caches(limits, policy, E)
<1> DEFINE accesses == Append(RemoveFirst(c.accesses, k), k)
           d == Made(c, c.total, c.entries, accesses)
<1>1. /\ c \in Records /\ c.limits = limits /\ c.policy = policy
      /\ InOrder(c) /\ InLimits(c) /\ IsFiniteSet(Bytes(c)) /\ flatten(c) \subseteq E
  BY InCaches
<1>2. c.accesses \in Seq(Keys) /\ k \in Keys /\ IsInjective(c.accesses)
  BY <1>1, Parts DEF InOrder
<1>3. /\ accesses \in Seq(Keys) /\ IsInjective(accesses)
      /\ Range(accesses) = Range(c.accesses) \cup {k}
  BY <1>2, AccessesIs
<1> HIDE DEF accesses
<1>4. Accessed(c, k) = d
  <2>1. Accessed(c, k) = [c EXCEPT !.accesses = accesses] BY <1>1 DEF Accessed, accesses, Records
  <2> QED BY <1>1, <2>1, Renewed
<1>5. d \in Records
  <2>1. /\ c.limits \in Limits /\ c.policy \in Policies /\ c.total \in Nat
        /\ DOMAIN c.entries \in SUBSET Keys /\ c.entries \in [DOMAIN c.entries -> Values]
    BY <1>1, Parts
  <2> QED BY <1>3, <2>1, Whole DEF Made
<1>6. InOrder(d) BY <1>1, <1>3 DEF InOrder, Made
<1>7. Bytes(d) = Bytes(c) BY DEF Bytes, EntrySize, Made
<1>8. InLimits(d)
  <2>1. SizeOfEntries(d) = SizeOfEntries(c) BY <1>7 DEF SizeOfEntries
  <2>2. d.total = c.total /\ d.limits = c.limits /\ d.entries = c.entries BY DEF Made
  <2> HIDE DEF d
  <2> QED BY <1>1, <2>1, <2>2 DEF InLimits
<1>9. flatten(d) = flatten(c) BY DEF flatten, Made
<1>10. d.limits = c.limits /\ d.policy = c.policy BY DEF Made
<1> HIDE DEF d
<1> QED BY <1>1, <1>4, <1>5, <1>6, <1>7, <1>8, <1>9, <1>10, InCaches

(* The total with a value in place of what its key takes.                      *)
LEMMA TotalIs ==
  ASSUME NEW limits, NEW policy, NEW E, NEW c \in Caches(limits, policy, E),
         NEW k \in Keys, NEW value \in Values
  PROVE  /\ TotalWith(c, k, value) = c.total - Share(c, k) + (KeySize[k] + value.size)
         /\ Share(c, k) \in Nat /\ c.total \in Nat /\ Share(c, k) <= c.total
         /\ KeySize[k] \in Nat /\ value.size \in Nat
<1>1. c \in Records /\ InLimits(c) /\ IsFiniteSet(Bytes(c)) BY InCaches
<1>2. c.total \in Nat /\ \A j \in DOMAIN c.entries : c.entries[j].size \in Nat BY <1>1, Parts
<1>3. Share(c, k) \in Nat /\ Share(c, k) <= c.total BY <1>1, Changes DEF InLimits
<1>4. KeySize[k] \in Nat /\ value.size \in Nat BY KeySizes DEF Values
<1>5. CASE k \in DOMAIN c.entries
  <2>1. Share(c, k) = KeySize[k] + c.entries[k].size BY <1>5 DEF Share, EntrySize
  <2>2. TotalWith(c, k, value) = c.total + value.size + (- c.entries[k].size) BY <1>5 DEF TotalWith
  <2>3. c.entries[k].size \in Nat BY <1>2, <1>5
  <2> QED BY <1>2, <1>3, <1>4, <2>1, <2>2, <2>3
<1>6. CASE k \notin DOMAIN c.entries
  <2>1. Share(c, k) = 0 BY <1>6 DEF Share
  <2>2. TotalWith(c, k, value) = c.total + value.size + KeySize[k] BY <1>6 DEF TotalWith
  <2> QED BY <1>2, <1>3, <1>4, <2>1, <2>2
<1> QED BY <1>5, <1>6

HasValue(c, k, value) == k \in DOMAIN c.entries /\ c.entries[k] = value

(* A value that fits is stored.                                             *)
LEMMA Stores ==
  ASSUME NEW limits, NEW policy, NEW E, NEW c \in Caches(limits, policy, E),
         NEW k \in Keys, NEW value \in Values, IsAdmissible(c, k, value), Fits(c, k, value)
  PROVE  /\ Stored(c, k, value) \in Caches(limits, policy, E \cup {[key |-> k, value |-> value]})
         /\ HasValue(Stored(c, k, value), k, value)
<1> DEFINE total == TotalWith(c, k, value)
           K == (DOMAIN c.entries) \cup {k}
           entries == [j \in K |-> IF j = k THEN value ELSE c.entries[j]]
           accesses == Append(RemoveFirst(c.accesses, k), k)
           filled == Made(c, total, entries, c.accesses)
           d == Made(c, total, entries, accesses)
<1>1. /\ c \in Records /\ c.limits = limits /\ c.policy = policy
      /\ InOrder(c) /\ InLimits(c) /\ IsFiniteSet(Bytes(c)) /\ flatten(c) \subseteq E
  BY InCaches
<1>2. /\ c.accesses \in Seq(Keys) /\ IsInjective(c.accesses)
      /\ c.limits \in Limits /\ c.policy \in Policies /\ c.total \in Nat
      /\ DOMAIN c.entries \subseteq Keys /\ c.limits.total \in Nat
      /\ \A j \in DOMAIN c.entries : c.entries[j] \in Values /\ c.entries[j].size \in Nat
  BY <1>1, Parts DEF InOrder
<1>3. /\ accesses \in Seq(Keys) /\ IsInjective(accesses)
      /\ Range(accesses) = Range(c.accesses) \cup {k}
  BY <1>2, AccessesIs
<1>5. K \in SUBSET Keys /\ entries \in [K -> Values] BY <1>2
<1>6. /\ DOMAIN entries = K /\ entries[k] = value
      /\ \A j \in (DOMAIN c.entries) \ {k} : entries[j] = c.entries[j]
  OBVIOUS
<1>7. /\ KeySize[k] \in Nat /\ value.size \in Nat /\ value.size >= 1
      /\ KeySize[k] <= c.limits.key /\ value.size <= c.limits.value
  BY KeySizes DEF IsAdmissible, Values
<1>8. Share(c, k) \in Nat /\ Share(c, k) <= c.total BY <1>1, Changes DEF InLimits
<1>9. total = c.total - Share(c, k) + (KeySize[k] + value.size) BY TotalIs
<1>10. total \in Nat /\ total <= c.limits.total
  <2>1. total \in Nat BY <1>2, <1>7, <1>8, <1>9
  <2> QED BY <2>1 DEF Fits
<1> HIDE DEF total, entries, accesses, K
<1>11. filled \in Records /\ d \in Records BY <1>2, <1>3, <1>5, <1>10, Whole DEF Made
<1>12. Stored(c, k, value) = d
  <2> DEFINE put == [c EXCEPT !.total = TotalWith(c, k, value),
                              !.entries = [j \in DOMAIN @ \cup {k} |-> IF j = k THEN value ELSE @[j]]]
  <2>1. put = filled
    <3>1. put = [c EXCEPT !.total = total, !.entries = entries]
      BY <1>1 DEF total, entries, K, Records
    <3>2. [c EXCEPT !.total = total, !.entries = entries] = filled BY <1>1, Renewed
    <3> QED BY <3>1, <3>2
  <2>2. Accessed(filled, k) = d
    <3>1. filled.accesses = c.accesses BY DEF Made
    <3>2. Made(filled, filled.total, filled.entries, accesses) = d BY DEF Made
    <3> HIDE DEF filled, d
    <3>3. Accessed(filled, k) = [filled EXCEPT !.accesses = accesses]
      BY <1>11, <3>1 DEF Accessed, accesses, Records
    <3> QED BY <1>11, <3>2, <3>3, Renewed
  <2>3. Stored(c, k, value) = Accessed(put, k) BY DEF Stored
  <2> HIDE DEF filled, d, put
  <2> QED BY <2>1, <2>2, <2>3
<1>13. /\ d.limits = c.limits /\ d.policy = c.policy /\ d.total = total
       /\ d.entries = entries /\ d.accesses = accesses
  BY DEF Made
<1> HIDE DEF d
<1>14. IsFiniteSet(Bytes(d)) /\ d.total = SizeOfEntries(d)
  <2>1. (DOMAIN d.entries) \ {k} = (DOMAIN c.entries) \ {k} BY <1>6, <1>13 DEF K
  <2>2. \A j \in (DOMAIN c.entries) \ {k} : d.entries[j] = c.entries[j] BY <1>6, <1>13
  <2>3. Share(d, k) = KeySize[k] + value.size BY <1>6, <1>13 DEF Share, EntrySize, K
  <2>4. /\ IsFiniteSet(Bytes(d))
        /\ SizeOfEntries(d) = SizeOfEntries(c) - Share(c, k) + Share(d, k)
    BY <1>1, <1>11, <2>1, <2>2, Changes
  <2> QED BY <1>1, <1>9, <1>13, <2>3, <2>4 DEF InLimits
<1>15. InLimits(d)
  <2>1. \A j \in DOMAIN c.entries : KeySize[j] <= c.limits.key /\ c.entries[j].size <= c.limits.value
    BY <1>1 DEF InLimits
  <2>2. \A j \in DOMAIN d.entries : KeySize[j] <= d.limits.key /\ d.entries[j].size <= d.limits.value
    BY <1>6, <1>7, <1>13, <2>1 DEF K
  <2> QED BY <1>10, <1>13, <1>14, <2>2 DEF InLimits
<1>16. InOrder(d) BY <1>1, <1>3, <1>6, <1>13 DEF InOrder, K
<1>17. flatten(d) \subseteq E \cup {[key |-> k, value |-> value]}
  <2>1. SUFFICES ASSUME NEW j \in DOMAIN d.entries
                 PROVE  [key |-> j, value |-> d.entries[j]] \in E \cup {[key |-> k, value |-> value]}
    BY DEF flatten
  <2>2. CASE j = k BY <1>6, <1>13, <2>2
  <2>3. CASE j # k
    <3>1. j \in DOMAIN c.entries /\ d.entries[j] = c.entries[j] BY <1>6, <1>13, <2>3 DEF K
    <3>2. [key |-> j, value |-> c.entries[j]] \in flatten(c) BY <3>1 DEF flatten
    <3> QED BY <1>1, <3>1, <3>2
  <2> QED BY <2>2, <2>3
<1>18. HasValue(d, k, value) BY <1>6, <1>13 DEF K, HasValue
<1> QED BY <1>1, <1>11, <1>12, <1>13, <1>14, <1>15, <1>16, <1>17, <1>18, InCaches

(* What clean leaves is no less than zero, and makes room for the value if the    *)
(* entry of its key stays as it is.                                           *)
LEMMA DownTo ==
  ASSUME NEW limits, NEW policy, NEW E, NEW c \in Caches(limits, policy, E),
         NEW k \in Keys, NEW value \in Values, IsAdmissible(c, k, value)
  PROVE  /\ findDownTo(c, k, KeySize[k] + value.size) \in Nat
         /\ policy.capacity # "HALVE" =>
              findDownTo(c, k, KeySize[k] + value.size) + (KeySize[k] + value.size)
                <= c.limits.total + Share(c, k)
<1> DEFINE new == KeySize[k] + value.size
           fit == c.limits.total - (new - Share(c, k))
           half == c.limits.total \div 2
           downTo == findDownTo(c, k, new)
<1>1. c \in Records /\ c.policy = policy BY InCaches
<1>2. c.limits.total \in Nat /\ policy.capacity \in Capacities BY <1>1, Parts DEF Policies
<1>3. Share(c, k) \in Nat /\ new \in Nat BY TotalIs
<1>4. new <= c.limits.total BY DEF IsAdmissible
<1>5. half \in Nat BY <1>2
<1>6. fit \in Nat /\ fit + new = c.limits.total + Share(c, k) BY <1>2, <1>3, <1>4
<1>7. downTo = CASE policy.capacity = "HALVE" -> half
                 [] policy.capacity = "FIT" -> fit
                 [] policy.capacity = "FIT_HALVE" -> Min({fit, half})
  BY <1>1 DEF findDownTo, Share
<1> HIDE DEF fit, half, downTo, new
<1>8. CASE policy.capacity = "HALVE"
  <2>1. downTo = half BY <1>7, <1>8
  <2> QED BY <1>5, <1>8, <2>1 DEF downTo, new
<1>9. CASE policy.capacity = "FIT"
  <2>1. downTo = fit BY <1>7, <1>9
  <2>2. fit + new <= c.limits.total + Share(c, k) BY <1>2, <1>3, <1>6
  <2> QED BY <1>6, <2>1, <2>2 DEF downTo, new
<1>10. CASE policy.capacity = "FIT_HALVE"
  <2>1. downTo = Min({fit, half}) BY <1>7, <1>10
  <2>2. {fit, half} \in SUBSET Nat /\ {fit, half} # {} BY <1>5, <1>6
  <2>3. PICK m \in {fit, half} : \A n \in {fit, half} : m <= n BY <2>2, LeastNatural
  <2>4. Min({fit, half}) \in {fit, half} /\ Min({fit, half}) <= fit BY <2>3 DEF Min
  <2>5. downTo \in Nat /\ downTo <= fit BY <1>5, <1>6, <2>1, <2>4
  <2>6. downTo + new <= fit + new BY <1>3, <1>6, <2>5
  <2> QED BY <1>6, <2>5, <2>6 DEF downTo, new
<1> QED BY <1>2, <1>8, <1>9, <1>10 DEF Capacities

LEMMA Admits ==
  ASSUME NEW limits, NEW policy, NEW E, NEW c \in Caches(limits, policy, E),
         NEW D, NEW d \in Caches(limits, policy, D), NEW k, NEW value
  PROVE  IsAdmissible(c, k, value) <=> IsAdmissible(d, k, value)
<1>1. c.limits = limits /\ d.limits = limits BY InCaches
<1> QED BY <1>1 DEF IsAdmissible

(* More entries are allowed.                                                *)
LEMMA AllowsMore ==
  ASSUME NEW limits, NEW policy, NEW E, NEW D, D \subseteq E
  PROVE  Caches(limits, policy, D) \subseteq Caches(limits, policy, E)
BY DEF Caches

LEMMA RoundOfOne ==
  ASSUME NEW limits, NEW policy, NEW E, NEW c \in Caches(limits, policy, E),
         NEW k \in Keys, NEW value \in Values, IsAdmissible(c, k, value), NEW d \in Round({c}, k, value)
  PROVE  d \in Caches(limits, policy, E)
<1>1. CASE Fits(c, k, value) \/ ~ isCleanable(c) BY <1>1 DEF Round
<1>2. CASE ~ (Fits(c, k, value) \/ ~ isCleanable(c))
  <2> DEFINE downTo == findDownTo(c, k, KeySize[k] + value.size)
  <2>1. d \in Cleaned(c, downTo) BY <1>2 DEF Round
  <2>2. downTo \in Nat BY DownTo
  <2> HIDE DEF downTo
  <2> QED BY <2>1, <2>2, CleansUp
<1> QED BY <1>1, <1>2

(* A round is made of each cache by itself.                                   *)
LEMMA RoundOfEach ==
  ASSUME NEW C, NEW k, NEW value, NEW d
  PROVE  d \in Round(C, k, value) <=> \E c \in C : d \in Round({c}, k, value)
BY DEF Round

LEMMA SetKeeps ==
  ASSUME NEW limits, NEW policy, NEW E, NEW c \in Caches(limits, policy, E),
         NEW k \in Keys, NEW value \in Values
  PROVE  Set(c, k, value) \subseteq Caches(limits, policy, E \cup {[key |-> k, value |-> value]})
<1> DEFINE F == E \cup {[key |-> k, value |-> value]}
           twice == Round(Round({c}, k, value), k, value)
<1>1. Caches(limits, policy, E) \subseteq Caches(limits, policy, F) BY AllowsMore
<1>2. CASE ~ IsAdmissible(c, k, value)
  <2>1. Set(c, k, value) = {c} BY <1>2 DEF Set
  <2> QED BY <1>1, <2>1
<1>3. CASE IsAdmissible(c, k, value)
  <2>1. Set(c, k, value) = {IF Fits(d, k, value) THEN Stored(d, k, value) ELSE d : d \in twice}
    BY <1>3 DEF Set
  <2>2. ASSUME NEW d \in twice
        PROVE  (IF Fits(d, k, value) THEN Stored(d, k, value) ELSE d) \in Caches(limits, policy, F)
    <3>1. PICK b \in Round({c}, k, value) : d \in Round({b}, k, value) BY <2>2, RoundOfEach
    <3>2. b \in Caches(limits, policy, E) BY <1>3, <3>1, RoundOfOne
    <3>3. IsAdmissible(b, k, value) BY <1>3, <3>2, Admits
    <3>4. d \in Caches(limits, policy, E) BY <3>1, <3>2, <3>3, RoundOfOne
    <3>5. IsAdmissible(d, k, value) BY <1>3, <3>4, Admits
    <3>6. CASE Fits(d, k, value) BY <3>4, <3>5, <3>6, Stores
    <3>7. CASE ~ Fits(d, k, value) BY <1>1, <3>4, <3>7
    <3> QED BY <3>6, <3>7
  <2> HIDE DEF twice, F
  <2> QED BY <2>1, <2>2 DEF F
<1> QED BY <1>2, <1>3

(* With the policies that make as much room as is needed, a round is in vain      *)
(* only if it evicts the entry on whose behalf it is made.                      *)
LEMMA MakesRoom ==
  ASSUME NEW limits, NEW policy, NEW E, NEW c \in Caches(limits, policy, E),
         NEW k \in Keys, NEW value \in Values, IsAdmissible(c, k, value),
         policy.capacity # "HALVE", NEW d \in Round({c}, k, value)
  PROVE  Fits(d, k, value) \/ (k \in DOMAIN c.entries /\ k \notin DOMAIN d.entries)
<1> DEFINE new == KeySize[k] + value.size
           downTo == findDownTo(c, k, new)
<1>1. c \in Records /\ c.policy = policy /\ c.limits = limits /\ c.limits.total \in Nat
  BY InCaches, Parts
<1>2. /\ TotalWith(c, k, value) = c.total - Share(c, k) + new
      /\ Share(c, k) \in Nat /\ c.total \in Nat /\ Share(c, k) <= c.total /\ new \in Nat
  BY TotalIs
<1>3. new <= c.limits.total BY DEF IsAdmissible
<1>4. downTo \in Nat /\ downTo + new <= c.limits.total + Share(c, k) BY DownTo
<1>5. ~ isCleanable(c) => Fits(c, k, value)
  <2>1. ASSUME ~ isCleanable(c) PROVE c.total = 0 BY <1>1, <1>2, <2>1 DEF isCleanable
  <2> HIDE DEF new
  <2>2. c.total = 0 => TotalWith(c, k, value) <= c.limits.total BY <1>1, <1>2, <1>3
  <2> QED BY <2>1, <2>2 DEF Fits
<1>6. CASE Fits(c, k, value) BY <1>6 DEF Round
<1>7. CASE ~ Fits(c, k, value)
  <2>1. d \in Cleaned(c, downTo) BY <1>5, <1>7 DEF Round
  <2>2. c \in Caches(limits, policy, flatten(c)) BY InCaches
  <2> HIDE DEF downTo
  <2>3. d \in Caches(limits, policy, flatten(c)) /\ d.total <= downTo
    BY <1>4, <2>1, <2>2, CleansUp
  <2>4. d.limits = limits /\ flatten(d) \subseteq flatten(c) BY <2>3, InCaches
  <2>5. TotalWith(d, k, value) = d.total - Share(d, k) + new /\ d.total \in Nat /\ Share(d, k) \in Nat
    BY <2>3, TotalIs
  <2>6. Share(d, k) = Share(c, k) => Fits(d, k, value)
    <3> HIDE DEF new
    <3>1. ASSUME Share(d, k) = Share(c, k) PROVE TotalWith(d, k, value) <= c.limits.total
      BY <1>1, <1>2, <1>4, <2>3, <2>5, <3>1
    <3> QED BY <1>1, <2>4, <3>1 DEF Fits
  <2>7. CASE k \in DOMAIN d.entries
    <3>1. [key |-> k, value |-> d.entries[k]] \in flatten(c) BY <2>4, <2>7 DEF flatten
    <3>2. PICK j \in DOMAIN c.entries :
            [key |-> k, value |-> d.entries[k]] = [key |-> j, value |-> c.entries[j]]
      BY <3>1 DEF flatten
    <3>3. j = k /\ c.entries[k] = d.entries[k] BY <3>2
    <3>4. Share(d, k) = Share(c, k) BY <2>7, <3>2, <3>3 DEF Share, EntrySize
    <3> QED BY <2>6, <3>4
  <2>8. CASE k \notin DOMAIN d.entries
    <3>1. k \notin DOMAIN c.entries => Share(d, k) = Share(c, k) BY <2>8 DEF Share
    <3> QED BY <2>6, <2>8, <3>1
  <2> QED BY <2>7, <2>8
<1> QED BY <1>6, <1>7

(* Then two rounds are enough.                                               *)
LEMMA SetStores ==
  ASSUME NEW limits, NEW policy, NEW E, NEW c \in Caches(limits, policy, E),
         NEW k \in Keys, NEW value \in Values, IsAdmissible(c, k, value),
         policy.capacity # "HALVE", NEW e \in Set(c, k, value)
  PROVE  HasValue(e, k, value)
<1>1. PICK d \in Round(Round({c}, k, value), k, value) :
        e = IF Fits(d, k, value) THEN Stored(d, k, value) ELSE d
  BY DEF Set
<1>2. PICK b \in Round({c}, k, value) : d \in Round({b}, k, value) BY <1>1, RoundOfEach
<1>3. b \in Caches(limits, policy, E) BY <1>2, RoundOfOne
<1>4. IsAdmissible(b, k, value) BY <1>3, Admits
<1>5. d \in Caches(limits, policy, E) BY <1>2, <1>3, <1>4, RoundOfOne
<1>6. IsAdmissible(d, k, value) BY <1>5, Admits
<1>7. Fits(d, k, value)
  <2>1. CASE Fits(b, k, value)
    <3>1. d = b BY <1>2, <2>1 DEF Round
    <3> QED BY <2>1, <3>1
  <2>2. CASE ~ Fits(b, k, value)
    <3>1. k \notin DOMAIN b.entries BY <1>2, <2>2, MakesRoom
    <3> QED BY <1>2, <1>3, <1>4, <3>1, MakesRoom
  <2> QED BY <2>1, <2>2
<1>8. e = Stored(d, k, value) BY <1>1, <1>7
<1>9. HasValue(Stored(d, k, value), k, value) BY <1>5, <1>6, <1>7, Stores
<1> QED BY <1>8, <1>9

-----------------------------------------------------------------------------
(* Files.                                                                   *)

FileEntries == [key : Keys, value : Values]

LEMMA FlattenIs ==
  ASSUME NEW c \in Records
  PROVE  /\ flatten(c) \subseteq FileEntries
         /\ \A e, f \in flatten(c) : e.key = f.key => e = f
<1>1. \A k \in DOMAIN c.entries : k \in Keys /\ c.entries[k] \in Values BY Parts
<1>2. ASSUME NEW e \in flatten(c)
      PROVE  e.key \in DOMAIN c.entries /\ e = [key |-> e.key, value |-> c.entries[e.key]]
  BY DEF flatten
<1>3. flatten(c) \subseteq FileEntries BY <1>1, <1>2 DEF FileEntries
<1> QED BY <1>2, <1>3

(* A new cache.                                                             *)
LEMMA NewIs ==
  ASSUME NEW limits \in Limits, NEW policy \in Policies, NEW E
  PROVE  /\ NewBlobCache(limits, policy) \in Caches(limits, policy, E)
         /\ [NewBlobCache(limits, policy) EXCEPT !.entries = <<>>, !.accesses = <<>>]
              = NewBlobCache(limits, policy)
<1> DEFINE new == NewBlobCache(limits, policy)
           none == <<>>
<1>1. DOMAIN none = {} /\ none \in [{} -> Values] /\ none \in Seq(Keys)
  <2>1. DOMAIN none = {} OBVIOUS
  <2>2. none = [n \in {} |-> 0] BY <2>1
  <2> QED BY <2>1, <2>2
<1> HIDE DEF none
<1>2. new = [limits |-> limits, policy |-> policy, total |-> 0, entries |-> none, accesses |-> none]
  BY DEF NewBlobCache, none
<1>3. /\ new.limits = limits /\ new.policy = policy /\ new.total = 0
      /\ new.entries = none /\ new.accesses = none
  BY <1>2
<1>4. new \in Records
  <2>1. none \in UNION {[K -> Values] : K \in SUBSET Keys}
    <3>1. {} \in SUBSET Keys OBVIOUS
    <3> QED BY <1>1, <3>1
  <2> QED BY <1>1, <1>2, <2>1 DEF Records
<1> HIDE DEF new
<1>5. InOrder(new) BY <1>1, <1>3 DEF InOrder, IsInjective, Range
<1>6. SizeOfEntries(new) = 0 /\ IsFiniteSet(Bytes(new)) BY <1>1, <1>3, EmptyIsZero
<1>7. InLimits(new)
  <2>1. limits.total \in Nat BY DEF Limits
  <2> QED BY <1>1, <1>3, <1>6, <2>1 DEF InLimits
<1>8. flatten(new) = {} BY <1>1, <1>3 DEF flatten
<1>9. new \in Caches(limits, policy, E) BY <1>3, <1>4, <1>5, <1>6, <1>7, <1>8, InCaches
<1>10. [new EXCEPT !.entries = none, !.accesses = none] = new
  <2>1. [new EXCEPT !.entries = none, !.accesses = none] = Made(new, new.total, none, none)
    <3>1. \A e, a : [new EXCEPT !.entries = e, !.accesses = a] = Made(new, new.total, e, a)
      BY <1>4, Renewed
    <3> QED BY <3>1
  <2>2. Made(new, new.total, none, none) = new BY <1>2, <1>3 DEF Made
  <2> QED BY <2>1, <2>2
<1> QED BY <1>9, <1>10 DEF new, none

LEMMA ReadsOne ==
  ASSUME NEW limits, NEW policy, NEW E, NEW C \in SUBSET Caches(limits, policy, E),
         NEW contents \in SUBSET FileEntries, contents \subseteq E, NEW k \in Keys
  PROVE  Read(C, contents, k) \in SUBSET Caches(limits, policy, E)
<1> DEFINE values == {e.value : e \in {e \in contents : e.key = k}}
<1>1. Read(C, contents, k)
        = IF values = {} THEN C ELSE UNION {Set(c, k, value) : c \in C, value \in values}
  BY DEF Read
<1>2. ASSUME NEW c \in C, NEW value \in values PROVE Set(c, k, value) \subseteq Caches(limits, policy, E)
  <2>1. PICK e \in contents : e.key = k /\ e.value = value BY <1>2
  <2>2. e = [key |-> k, value |-> value] /\ value \in Values BY <2>1 DEF FileEntries
  <2>3. E \cup {[key |-> k, value |-> value]} = E BY <2>2
  <2>4. c \in Caches(limits, policy, E) OBVIOUS
  <2>5. Set(c, k, value) \subseteq Caches(limits, policy, E \cup {[key |-> k, value |-> value]})
    BY <2>2, <2>4, SetKeeps
  <2> QED BY <2>3, <2>5
<1> HIDE DEF values
<1> QED BY <1>1, <1>2

LEMMA Unflattens ==
  ASSUME NEW limits \in Limits, NEW policy \in Policies, NEW E,
         NEW contents \in SUBSET FileEntries, contents \subseteq E, NEW sameBuild \in BOOLEAN
  PROVE  unflatten(NewBlobCache(limits, policy), contents, sameBuild) \subseteq Caches(limits, policy, E)
<1> DEFINE S == SUBSET Caches(limits, policy, E)
           N == Len(KeySize)
           new == NewBlobCache(limits, policy)
           IsRun(f) == f = [n \in 0 .. N |-> IF n = 0 THEN {new} ELSE Read(f[n - 1], contents, n)]
           run == CHOOSE f : IsRun(f)
           step == [n \in 1 .. N |-> [C \in S |-> Read(C, contents, n)]]
<1>0. N \in Nat BY KeySizes
<1>1. /\ unflatten(new, contents, TRUE) = run[N]
      /\ unflatten(new, contents, FALSE) = {new}
  <2> DEFINE empty == [new EXCEPT !.entries = <<>>, !.accesses = <<>>]
  <2>1. empty = new BY NewIs
  <2> HIDE DEF new, empty
  <2>2. unflatten(new, contents, FALSE) = {empty} BY DEF unflatten, empty
  <2>3. unflatten(new, contents, TRUE)
          = (CHOOSE f : f = [n \in 0 .. N |->
                               IF n = 0 THEN {empty} ELSE Read(f[n - 1], contents, n)])[N]
    BY DEF unflatten, empty
  <2> QED BY <2>1, <2>2, <2>3
<1>2. {new} \in S
  <2>1. new \in Caches(limits, policy, E) BY NewIs
  <2> HIDE DEF new
  <2> QED BY <2>1
<1>3. \A n \in 1 .. N : \A C \in S : Read(C, contents, n) \in S BY KeySizes, ReadsOne
<1> HIDE DEF S, N, new
<1>4. IsRun(run)
  <2>1. step \in [1 .. N -> [S -> S]]
    <3>1. \A n \in 1 .. N : [C \in S |-> Read(C, contents, n)] \in [S -> S] BY <1>3
    <3> QED BY <3>1
  <2>2. PICK h : IsHistory(h, N, S, {new}, step)
    <3> HIDE DEF step, run, IsRun
    <3> QED BY <1>0, <1>2, <2>1, Loop
  <2>3. h \in [0 .. N -> S] /\ h[0] = {new} BY <2>2 DEF IsHistory
  <2>4. \A n \in 1 .. N : h[n] = Read(h[n - 1], contents, n)
    <3> SUFFICES ASSUME NEW n \in 1 .. N PROVE h[n] = Read(h[n - 1], contents, n)
      OBVIOUS
    <3>1. n - 1 \in 0 .. N BY <1>0
    <3>2. h[n - 1] \in S /\ h[n] = step[n][h[n - 1]] BY <2>2, <2>3, <3>1 DEF IsHistory
    <3>3. step[n][h[n - 1]] = Read(h[n - 1], contents, n) BY <3>2
    <3> QED BY <3>2, <3>3
  <2> HIDE DEF step
  <2>5. \A n \in 0 .. N : h[n] = IF n = 0 THEN {new} ELSE Read(h[n - 1], contents, n)
    <3> SUFFICES ASSUME NEW n \in 0 .. N
                 PROVE h[n] = IF n = 0 THEN {new} ELSE Read(h[n - 1], contents, n)
      OBVIOUS
    <3>1. CASE n = 0 BY <2>3, <3>1
    <3>2. CASE n # 0
      <4>1. n \in 1 .. N BY <1>0, <3>2
      <4> QED BY <2>4, <3>2, <4>1
    <3> QED BY <3>1, <3>2
  <2>6. IsRun(h) BY <2>3, <2>5
  <2> HIDE DEF IsRun
  <2> QED BY <2>6
<1> HIDE DEF run, step
<1> DEFINE P == {n \in 0 .. N : run[n] \in S}
<1>5. run[0] = {new} /\ \A n \in 1 .. N : run[n] = Read(run[n - 1], contents, n)
  <2>1. \A n \in 0 .. N : run[n] = IF n = 0 THEN {new} ELSE Read(run[n - 1], contents, n)
    BY <1>4
  <2>2. 0 \in 0 .. N BY <1>0
  <2>3. run[0] = {new} BY <2>1, <2>2
  <2>4. \A n \in 1 .. N : n \in 0 .. N /\ n # 0 BY <1>0
  <2> QED BY <2>1, <2>3, <2>4
<1> HIDE DEF IsRun
<1>6. 0 \in P BY <1>0, <1>2, <1>5
<1>7. ASSUME NEW n \in 1 .. N, n - 1 \in P PROVE n \in P BY <1>0, <1>3, <1>5, <1>7
<1>8. N \in P
  <2> HIDE DEF P
  <2>1. 0 .. N \subseteq P BY <1>0, <1>6, <1>7, UpTo
  <2> QED BY <1>0, <2>1
<1>9. run[N] \in S BY <1>8
<1>10. CASE sameBuild = TRUE
  <2>1. unflatten(new, contents, sameBuild) \in S BY <1>1, <1>9, <1>10
  <2> QED BY <2>1 DEF S, new
<1>11. CASE sameBuild = FALSE
  <2>1. unflatten(new, contents, sameBuild) \in S BY <1>1, <1>2, <1>11
  <2> QED BY <2>1 DEF S, new
<1> QED BY <1>10, <1>11

-----------------------------------------------------------------------------
(* The invariant of NNCache.                                                *)

(* The entries that were given, and are no older than what a file holds.         *)
IsGiven(e, g) ==
  e.value.id \in DOMAIN g /\ g[e.value.id] = [key |-> e.key, size |-> e.value.size]
Fresh(g, contents) ==
  {e \in FileEntries : /\ IsGiven(e, g)
                       /\ \A f \in contents : f.key = e.key => f.value.id <= e.value.id}

(* A file has an entry of a key at most once, and what is whole was given.        *)
FileIsSound(f, g) ==
  /\ f.contents \subseteq FileEntries
  /\ \A e \in f.contents : e.value.id <= Len(g)
  /\ \A e, d \in f.contents : e.key = d.key => e = d
  /\ f.whole => \A e \in f.contents : IsGiven(e, g)

FileType ==
  [exists : BOOLEAN, readable : BOOLEAN, whole : BOOLEAN, build : Nat, contents : SUBSET FileEntries]
TypeOK ==
  /\ mLimits \in Limits /\ mPolicy \in Policies
  /\ file \in FileType /\ build \in Nat
  /\ given \in Seq([key : Keys, size : Nat])

IsSound(c, E) == c \in Caches(c.limits, c.policy, E)

IInv ==
  /\ TypeOK /\ FileIsSound(file, given)
  /\ mBlobCache # NoCache => IsSound(mBlobCache, Fresh(given, file.contents))
  /\ saving # NoSave => mBlobCache # NoCache

LEMMA Sound ==
  ASSUME NEW limits, NEW policy, NEW D, NEW E, NEW c \in Caches(limits, policy, D),
         flatten(c) \subseteq E
  PROVE  IsSound(c, E)
BY InCaches DEF IsSound

(* What was given stays given.                                              *)
LEMMA GivenStays ==
  ASSUME NEW g \in Seq([key : Keys, size : Nat]), NEW r \in [key : Keys, size : Nat]
  PROVE  /\ \A e : IsGiven(e, g) => IsGiven(e, Append(g, r))
         /\ \A contents : Fresh(g, contents) \subseteq Fresh(Append(g, r), contents)
         /\ \A f : FileIsSound(f, g) => FileIsSound(f, Append(g, r))
<1> DEFINE h == Append(g, r)
<1>1. /\ Len(g) \in Nat /\ DOMAIN g = 1 .. Len(g) /\ Len(h) = Len(g) + 1
      /\ DOMAIN h = 1 .. Len(g) + 1 /\ \A n \in 1 .. Len(g) : h[n] = g[n]
  OBVIOUS
<1> HIDE DEF h
<1>2. \A e : IsGiven(e, g) => IsGiven(e, h) BY <1>1 DEF IsGiven
<1>3. \A contents : Fresh(g, contents) \subseteq Fresh(h, contents) BY <1>2 DEF Fresh
<1>4. ASSUME NEW f, FileIsSound(f, g) PROVE FileIsSound(f, h)
  <2>1. \A e \in f.contents : e.value.id \in Nat BY <1>4 DEF FileIsSound, FileEntries, Values
  <2>2. \A e \in f.contents : e.value.id <= Len(h) BY <1>1, <1>4, <2>1 DEF FileIsSound
  <2> QED BY <1>2, <1>4, <2>2 DEF FileIsSound
<1> QED BY <1>2, <1>3, <1>4 DEF h

(* The last value given is the newest.                                        *)
LEMMA LastIsFresh ==
  ASSUME NEW g \in Seq([key : Keys, size : Nat]), NEW k \in Keys, NEW size \in Nat,
         NEW f, FileIsSound(f, g)
  PROVE  LET h == Append(g, [key |-> k, size |-> size])
             value == [id |-> Len(h), size |-> size]
         IN value \in Values /\ [key |-> k, value |-> value] \in Fresh(h, f.contents)
<1> DEFINE r == [key |-> k, size |-> size]
           h == Append(g, r)
           value == [id |-> Len(h), size |-> size]
           e == [key |-> k, value |-> value]
<1>1. Len(g) \in Nat /\ Len(h) = Len(g) + 1 /\ DOMAIN h = 1 .. Len(g) + 1 /\ h[Len(g) + 1] = r
  OBVIOUS
<1> HIDE DEF h
<1>2. value \in Values /\ e \in FileEntries BY <1>1 DEF Values, FileEntries
<1>3. IsGiven(e, h) BY <1>1 DEF IsGiven
<1>4. \A d \in f.contents : d.value.id <= e.value.id
  <2>1. \A d \in f.contents : d.value.id \in Nat /\ d.value.id <= Len(g)
    BY DEF FileIsSound, FileEntries, Values
  <2> QED BY <1>1, <2>1
<1> QED BY <1>2, <1>3, <1>4 DEF Fresh, h

(* What a complete file holds is given, and as new as itself.                   *)
LEMMA WholeIsFresh ==
  ASSUME NEW f, NEW g, FileIsSound(f, g), f.whole
  PROVE  f.contents \subseteq Fresh(g, f.contents)
<1> SUFFICES ASSUME NEW e \in f.contents PROVE e \in Fresh(g, f.contents) OBVIOUS
<1>1. e \in FileEntries /\ IsGiven(e, g) BY DEF FileIsSound
<1>2. \A d \in f.contents : d.key = e.key => d = e BY DEF FileIsSound
<1>3. e.value.id \in Nat BY <1>1 DEF FileEntries, Values
<1> QED BY <1>1, <1>2, <1>3 DEF Fresh

(* What is written of a cache: all of it, or nothing of any value.               *)
LEMMA WrittenIsSound ==
  ASSUME NEW g \in Seq([key : Keys, size : Nat]), NEW contents, NEW f,
         NEW c, IsSound(c, Fresh(g, contents)),
         \/ f.contents = flatten(c)
         \/ f.contents = Partial(flatten(c)) /\ ~ f.whole
  PROVE  FileIsSound(f, g) /\ IsSound(c, Fresh(g, f.contents))
<1>1. /\ c \in Records /\ flatten(c) \subseteq Fresh(g, contents)
      /\ c \in Caches(c.limits, c.policy, Fresh(g, contents))
  BY InCaches DEF IsSound
<1>2. flatten(c) \subseteq FileEntries /\ \A e, d \in flatten(c) : e.key = d.key => e = d
  BY <1>1, FlattenIs
<1>3. \A e \in flatten(c) : IsGiven(e, g) /\ e.value.id \in Nat /\ e.value.id <= Len(g)
  <2>1. Len(g) \in Nat /\ DOMAIN g = 1 .. Len(g) OBVIOUS
  <2>2. \A e \in flatten(c) : IsGiven(e, g) BY <1>1 DEF Fresh
  <2>3. \A e \in flatten(c) : e.value.id \in 1 .. Len(g) BY <2>1, <2>2 DEF IsGiven
  <2> QED BY <2>1, <2>2, <2>3
<1>4. CASE f.contents = flatten(c)
  <2>1. FileIsSound(f, g) BY <1>2, <1>3, <1>4 DEF FileIsSound
  <2>2. \A e, d \in flatten(c) : d.key = e.key => d.value.id <= e.value.id BY <1>2, <1>3
  <2>3. flatten(c) \subseteq Fresh(g, f.contents) BY <1>2, <1>3, <1>4, <2>2 DEF Fresh
  <2> QED BY <1>1, <2>1, <2>3, Sound
<1>5. CASE f.contents = Partial(flatten(c)) /\ ~ f.whole
  <2>1. \A e \in FileEntries : [e EXCEPT !.value.id = 0] = [key |-> e.key, value |-> [id |-> 0, size |-> e.value.size]]
    BY DEF FileEntries, Values
  <2>2. \A d \in f.contents : \E e \in flatten(c) :
          d = [key |-> e.key, value |-> [id |-> 0, size |-> e.value.size]]
    BY <1>2, <1>5, <2>1 DEF Partial
  <2>3. Len(g) \in Nat OBVIOUS
  <2>4. \A d \in f.contents : d \in FileEntries /\ d.value.id = 0
    BY <1>2, <2>2 DEF FileEntries, Values
  <2>5. ASSUME NEW d \in f.contents, NEW b \in f.contents, d.key = b.key PROVE d = b
    <3>1. PICK e \in flatten(c) : d = [key |-> e.key, value |-> [id |-> 0, size |-> e.value.size]]
      BY <2>2
    <3>2. PICK a \in flatten(c) : b = [key |-> a.key, value |-> [id |-> 0, size |-> a.value.size]]
      BY <2>2
    <3>3. e.key = a.key BY <2>5, <3>1, <3>2
    <3>4. e = a BY <1>2, <3>3
    <3> QED BY <3>1, <3>2, <3>4
  <2>6. FileIsSound(f, g)
    <3>1. f.contents \subseteq FileEntries BY <2>4
    <3>2. \A e \in f.contents : e.value.id <= Len(g) BY <2>3, <2>4
    <3> QED BY <1>5, <2>5, <3>1, <3>2 DEF FileIsSound
  <2>7. \A e \in flatten(c) : \A d \in f.contents : d.value.id <= e.value.id BY <1>3, <2>4
  <2>8. flatten(c) \subseteq Fresh(g, f.contents) BY <1>2, <1>3, <2>7 DEF Fresh
  <2> QED BY <1>1, <2>6, <2>8, Sound
<1> QED BY <1>4, <1>5

(* getBlobCacheLocked: the cache there is, or one read from the file.            *)
LEMMA BlobCachesAre ==
  ASSUME IInv, NEW c \in BlobCaches
  PROVE  IsSound(c, Fresh(given, file.contents))
<1> DEFINE E == Fresh(given, file.contents)
           new == NewBlobCache(mLimits, mPolicy)
<1>1. CASE mBlobCache # NoCache BY <1>1 DEF BlobCaches, IInv
<1>2. CASE mBlobCache = NoCache
  <2>1. c \in Loaded(file, mLimits, mPolicy) BY <1>2 DEF BlobCaches
  <2>2. mLimits \in Limits /\ mPolicy \in Policies BY DEF IInv, TypeOK
  <2>3. new \in Caches(mLimits, mPolicy, E) BY <2>2, NewIs
  <2>4. CASE IsLoadable(file, mLimits)
    <3>1. file.whole BY <2>4 DEF IsLoadable, CrcAgrees
    <3>2. file.contents \in SUBSET FileEntries /\ file.contents \subseteq E
      <4>1. FileIsSound(file, given) BY DEF IInv
      <4> QED BY <3>1, <4>1, WholeIsFresh DEF FileIsSound
    <3>3. c \in unflatten(new, file.contents, file.build = build) BY <2>1, <2>4 DEF Loaded
    <3> DEFINE sameBuild == (file.build = build)
    <3>4. sameBuild \in BOOLEAN OBVIOUS
    <3> HIDE DEF sameBuild, E
    <3>5. unflatten(new, file.contents, sameBuild) \subseteq Caches(mLimits, mPolicy, E)
      BY <2>2, <3>2, <3>4, Unflattens
    <3>6. c \in Caches(mLimits, mPolicy, E) BY <3>3, <3>5 DEF sameBuild
    <3>7. flatten(c) \subseteq E BY <3>6, InCaches
    <3> QED BY <3>6, <3>7, Sound DEF E
  <2>5. CASE ~ IsLoadable(file, mLimits)
    <3>1. c = new BY <2>1, <2>5 DEF Loaded
    <3> HIDE DEF new, E
    <3>2. flatten(c) \subseteq E BY <2>3, <3>1, InCaches
    <3> QED BY <2>3, <3>1, <3>2, Sound DEF E
  <2> QED BY <2>4, <2>5
<1> QED BY <1>1, <1>2

(* The empty file, and what a cache may hold beside it.                        *)
LEMMA NoFileIsSound ==
  ASSUME NEW g, NEW f, f.contents = {}, ~ f.whole
  PROVE  /\ FileIsSound(f, g)
         /\ \A contents : Fresh(g, contents) \subseteq Fresh(g, f.contents)
BY DEF FileIsSound, Fresh

LEMMA MoreIsSound ==
  ASSUME NEW c, NEW D, NEW E, IsSound(c, D), D \subseteq E
  PROVE  IsSound(c, E)
BY AllowsMore DEF IsSound

LEMMA NoFileType == NoFile \in FileType /\ NoFile.contents = {} /\ ~ NoFile.whole
BY DEF NoFile, FileType

LEMMA Initially ==
  ASSUME Init
  PROVE  IInv
<1>1. NoLimits \in Limits /\ defaultPolicy \in Policies
  BY DEF NoLimits, Limits, defaultPolicy, Policies, Selects, Capacities
<1>2. TypeOK BY <1>1, NoFileType DEF Init, TypeOK
<1>3. FileIsSound(file, given) BY NoFileType, NoFileIsSound DEF Init
<1> QED BY <1>2, <1>3 DEF Init, IInv

(* A step that changes neither the file nor what was given.                    *)
LEMMA CacheOnly ==
  ASSUME IInv, UNCHANGED << file, build, given, saving >>,
         mLimits' \in Limits, mPolicy' \in Policies,
         mBlobCache' # NoCache => IsSound(mBlobCache', Fresh(given, file.contents)),
         saving # NoSave => mBlobCache' # NoCache
  PROVE  IInv'
BY DEF IInv, TypeOK

LEMMA InitializeSound ==
  ASSUME IInv, NEW settings \in Settings, initialize(settings)
  PROVE  IInv'
<1>1. settings.limits \in Limits /\ settings.policy \in Policies
  BY SettingsAssumption DEF Limits, Policies
<1> QED BY <1>1 DEF initialize, IInv, TypeOK

LEMMA SetBlobSound ==
  ASSUME IInv, NEW k \in Keys, NEW size \in Sizes, setBlob(k, size)
  PROVE  IInv'
<1> DEFINE g == Append(given, [key |-> k, size |-> size])
           value == [id |-> Len(g), size |-> size]
           new == [key |-> k, value |-> value]
           E == Fresh(given, file.contents)
           F == Fresh(g, file.contents)
<1>1. size \in Nat /\ [key |-> k, size |-> size] \in [key : Keys, size : Nat]
  BY SettingsAssumption
<1>2. given \in Seq([key : Keys, size : Nat]) /\ FileIsSound(file, given) BY DEF IInv, TypeOK
<1>3. given' = g /\ file' = file /\ build' = build /\ saving' = saving /\ saving = NoSave
  BY DEF setBlob, Lock
<1>4. g \in Seq([key : Keys, size : Nat]) BY <1>1, <1>2
<1>5. FileIsSound(file, g) /\ E \subseteq F BY <1>1, <1>2, GivenStays
<1>6. value \in Values /\ new \in F BY <1>1, <1>2, LastIsFresh
<1>7. PICK c \in BlobCaches : mBlobCache' \in Set(c, k, value) BY <1>3 DEF setBlob
<1> HIDE DEF g, value, new, E, F
<1>8. c \in Caches(c.limits, c.policy, E) BY BlobCachesAre DEF IsSound, E
<1>9. mBlobCache' \in Caches(c.limits, c.policy, E \cup {new}) BY <1>6, <1>7, <1>8, SetKeeps DEF new
<1>10. flatten(mBlobCache') \subseteq F
  <2>1. flatten(mBlobCache') \subseteq E \cup {new} BY <1>9, InCaches
  <2> QED BY <1>5, <1>6, <2>1
<1>11. IsSound(mBlobCache', F) BY <1>9, <1>10, Sound
<1>12. mLimits' = mLimits /\ mPolicy' = mPolicy BY DEF setBlob
<1>13. TypeOK' BY <1>3, <1>4, <1>12 DEF IInv, TypeOK
<1>14. FileIsSound(file', given') BY <1>3, <1>5
<1>15. IsSound(mBlobCache', Fresh(given', file'.contents)) BY <1>3, <1>11 DEF F
<1> QED BY <1>3, <1>13, <1>14, <1>15 DEF IInv

LEMMA GetBlobSound ==
  ASSUME IInv, NEW k \in Keys, NEW buffer \in BOOLEAN, getBlob(k, buffer)
  PROVE  IInv'
<1> DEFINE E == Fresh(given, file.contents)
<1>1. PICK c \in BlobCaches : mBlobCache' = Get(c, k, buffer) BY DEF getBlob
<1>2. c \in Caches(c.limits, c.policy, E) BY BlobCachesAre DEF IsSound
<1> HIDE DEF E
<1>3. mBlobCache' \in Caches(c.limits, c.policy, E)
  <2>1. CASE IsFound(c, k) /\ buffer
    <3>1. k \in DOMAIN c.entries BY <2>1 DEF IsFound
    <3>2. Accessed(c, k) \in Caches(c.limits, c.policy, E) BY <1>2, <3>1, Accesses
    <3> QED BY <1>1, <2>1, <3>2 DEF Get
  <2>2. CASE ~ (IsFound(c, k) /\ buffer) BY <1>1, <1>2, <2>2 DEF Get
  <2> QED BY <2>1, <2>2
<1>4. flatten(mBlobCache') \subseteq E BY <1>3, InCaches
<1>5. IsSound(mBlobCache', E) BY <1>3, <1>4, Sound
<1>6. /\ UNCHANGED << file, build, given, saving >> /\ saving = NoSave
      /\ mLimits' = mLimits /\ mPolicy' = mPolicy
  BY DEF getBlob, Lock
<1> QED BY <1>5, <1>6, CacheOnly DEF E, IInv, TypeOK

(* A save that ends leaves the cache, or no cache.                             *)
LEMMA FinishIs ==
  ASSUME NEW by, Finish(by)
  PROVE  /\ saving' = NoSave /\ (mBlobCache' = mBlobCache \/ mBlobCache' = NoCache)
         /\ mLimits' = mLimits /\ mPolicy' = mPolicy
BY DEF Finish

(* A step of a save: the cache is as it was, or there is none and no save.        *)
LEMMA SaveStepSound ==
  ASSUME IInv, build' = build, given' = given, mLimits' = mLimits, mPolicy' = mPolicy,
         \/ mBlobCache' = mBlobCache /\ (mBlobCache # NoCache \/ saving' = NoSave)
         \/ mBlobCache' = NoCache /\ saving' = NoSave,
         file' \in FileType, FileIsSound(file', given),
         mBlobCache # NoCache => IsSound(mBlobCache, Fresh(given, file'.contents))
  PROVE  IInv'
BY DEF IInv, TypeOK

LEMMA BeginSound ==
  ASSUME IInv, NEW by, Begin(by)
  PROVE  IInv'
<1>1. file' = file /\ build' = build /\ given' = given BY DEF Begin
<1>2. /\ mLimits' = mLimits /\ mPolicy' = mPolicy
      /\ \/ mBlobCache' = mBlobCache /\ (mBlobCache # NoCache \/ saving' = NoSave)
         \/ mBlobCache' = NoCache /\ saving' = NoSave
  <2>1. CASE mFilename /\ mBlobCache # NoCache BY <2>1 DEF Begin, process
  <2>2. CASE ~ (mFilename /\ mBlobCache # NoCache)
    <3>1. Finish(by) BY <2>2 DEF Begin
    <3> QED BY <3>1, FinishIs
  <2> QED BY <2>1, <2>2
<1>3. /\ file' \in FileType /\ FileIsSound(file', given)
      /\ mBlobCache # NoCache => IsSound(mBlobCache, Fresh(given, file'.contents))
  BY <1>1 DEF IInv, TypeOK
<1> QED BY <1>1, <1>2, <1>3, SaveStepSound

(* What every step of a save in progress does to the process.                   *)
LEMMA GoesOn ==
  ASSUME IInv, saving # NoSave, NEW at, To(at) \/ GiveUp
  PROVE  /\ mLimits' = mLimits /\ mPolicy' = mPolicy
         /\ \/ mBlobCache' = mBlobCache /\ (mBlobCache # NoCache \/ saving' = NoSave)
            \/ mBlobCache' = NoCache /\ saving' = NoSave
<1>1. mBlobCache # NoCache BY DEF IInv
<1>2. CASE To(at) BY <1>1, <1>2 DEF To, process
<1>3. CASE GiveUp BY <1>3, FinishIs DEF GiveUp
<1> QED BY <1>2, <1>3

LEMMA SaveSound ==
  ASSUME IInv, SaveStep
  PROVE  IInv'
<1>1. /\ file \in FileType /\ FileIsSound(file, given) /\ given \in Seq([key : Keys, size : Nat])
      /\ build \in Nat /\ (mBlobCache # NoCache => IsSound(mBlobCache, Fresh(given, file.contents)))
  BY DEF IInv, TypeOK
<1>2. build' = build /\ given' = given BY DEF SaveStep, Open, Unlink, Write, Chmod
<1>3. saving # NoSave BY DEF SaveStep, Open, Unlink, Write, Chmod, NoSave
<1>4. \E at : To(at) \/ GiveUp BY DEF SaveStep, Open, Unlink, Write, Chmod
<1>5. /\ mLimits' = mLimits /\ mPolicy' = mPolicy
      /\ \/ mBlobCache' = mBlobCache /\ (mBlobCache # NoCache \/ saving' = NoSave)
         \/ mBlobCache' = NoCache /\ saving' = NoSave
  BY <1>3, <1>4, GoesOn
<1> DEFINE Fine == /\ file' \in FileType /\ FileIsSound(file', given)
                   /\ mBlobCache # NoCache => IsSound(mBlobCache, Fresh(given, file'.contents))
<1>6. file' = file => Fine BY <1>1
<1>7. ASSUME file' \in FileType, file'.contents = {}, ~ file'.whole PROVE Fine
  <2>1. FileIsSound(file', given) /\ Fresh(given, file.contents) \subseteq Fresh(given, file'.contents)
    BY <1>7, NoFileIsSound
  <2> QED BY <1>1, <1>7, <2>1, MoreIsSound
<1>8. file' = NoFile => Fine BY <1>7, NoFileType
<1>9. file' = [NoFile EXCEPT !.exists = TRUE] => Fine
  <2>1. LET f == [NoFile EXCEPT !.exists = TRUE]
        IN f \in FileType /\ f.contents = {} /\ ~ f.whole
    BY DEF NoFile, FileType
  <2> QED BY <1>7, <2>1
<1>10. ASSUME Write PROVE Fine
  <2> DEFINE contents == flatten(mBlobCache)
             written == [file EXCEPT !.build = build, !.contents = contents, !.whole = TRUE]
             cut == [written EXCEPT !.whole = FALSE, !.contents = Partial(contents)]
  <2>1. file' = written \/ file' = cut \/ file' = NoFile BY <1>10 DEF Write
  <2>2. IsSound(mBlobCache, Fresh(given, file.contents)) BY <1>1, <1>3 DEF IInv
  <2>3. contents \subseteq FileEntries
    <3>1. mBlobCache \in Records BY <2>2, InCaches DEF IsSound
    <3> QED BY <3>1, FlattenIs
  <2>4. Partial(contents) \subseteq FileEntries
    <3>1. \A e \in FileEntries : [e EXCEPT !.value.id = 0] \in FileEntries
      BY DEF FileEntries, Values
    <3> HIDE DEF contents
    <3> QED BY <2>3, <3>1 DEF Partial
  <2> HIDE DEF contents
  <2>5. written \in FileType /\ written.contents = contents BY <1>1, <2>3 DEF FileType
  <2>6. cut \in FileType /\ cut.contents = Partial(contents) /\ ~ cut.whole
    <3> HIDE DEF written
    <3> QED BY <2>4, <2>5 DEF FileType
  <2> HIDE DEF written, cut
  <2>7. CASE file' = written
    <3>1. FileIsSound(file', given) /\ IsSound(mBlobCache, Fresh(given, file'.contents))
      BY <1>1, <2>2, <2>5, <2>7, WrittenIsSound DEF contents
    <3> QED BY <2>5, <2>7, <3>1
  <2>8. CASE file' = cut
    <3>1. FileIsSound(file', given) /\ IsSound(mBlobCache, Fresh(given, file'.contents))
      BY <1>1, <2>2, <2>6, <2>8, WrittenIsSound DEF contents
    <3> QED BY <2>6, <2>8, <3>1
  <2> QED BY <1>8, <2>1, <2>7, <2>8
<1>11. ASSUME Chmod PROVE Fine
  <2>1. file' = [file EXCEPT !.readable = TRUE] BY <1>11 DEF Chmod
  <2>2. file' \in FileType /\ file'.contents = file.contents /\ file'.whole = file.whole
    BY <1>1, <2>1 DEF FileType
  <2> QED BY <1>1, <2>2 DEF FileIsSound
<1>12. Fine
  <2> HIDE DEF Fine
  <2> QED BY <1>6, <1>8, <1>9, <1>10, <1>11 DEF SaveStep, Open, Unlink
<1> QED BY <1>2, <1>5, <1>12, SaveStepSound

LEMMA Preserved ==
  ASSUME IInv, [Next]_vars
  PROVE  IInv'
<1>1. CASE UNCHANGED vars BY <1>1 DEF IInv, TypeOK, vars, process
<1>2. CASE \E settings \in Settings : initialize(settings) BY <1>2, InitializeSound
<1>3. CASE setCacheFilename BY <1>3 DEF setCacheFilename, IInv, TypeOK
<1>4. CASE \E k \in DOMAIN KeySize, size \in Sizes : setBlob(k, size) BY <1>4, SetBlobSound DEF Keys
<1>5. CASE \E k \in DOMAIN KeySize, buffer \in BOOLEAN : getBlob(k, buffer)
  BY <1>5, GetBlobSound DEF Keys
<1>6. CASE terminate BY <1>6, BeginSound DEF terminate
<1>7. CASE DeferredSave
  <2>1. CASE mInitialized BY <1>7, <2>1, BeginSound DEF DeferredSave
  <2>2. CASE ~ mInitialized
    <3>1. Finish("deferred") /\ UNCHANGED << file, build, given >> BY <1>7, <2>2 DEF DeferredSave
    <3>2. /\ file' \in FileType /\ FileIsSound(file', given)
          /\ mBlobCache # NoCache => IsSound(mBlobCache, Fresh(given, file'.contents))
      BY <3>1 DEF IInv, TypeOK
    <3> QED BY <3>1, <3>2, FinishIs, SaveStepSound
  <2> QED BY <2>1, <2>2
<1>8. CASE SaveStep BY <1>8, SaveSound
<1>9. CASE Die
  <2>1. NoLimits \in Limits /\ defaultPolicy \in Policies
    BY DEF NoLimits, Limits, defaultPolicy, Policies, Selects, Capacities
  <2> QED BY <1>9, <2>1 DEF Die, IInv, TypeOK
<1> QED BY <1>1, <1>2, <1>3, <1>4, <1>5, <1>6, <1>7, <1>8, <1>9 DEF Next, Call

-----------------------------------------------------------------------------
(* The theorems.                                                            *)

(* mTotalSize is what the entries take, within the limits the cache was made     *)
(* with, for any keys, sizes and policies (Accounting).                        *)
THEOREM SizesAccounted == Spec => []Accounting
<1>1. IInv => Accounting
  <2> SUFFICES ASSUME IInv, mBlobCache # NoCache PROVE InLimits(mBlobCache)
    BY DEF Accounting, InLimits
  <2> QED BY InCaches DEF IInv, IsSound
<1> QED BY <1>1, Initially, Preserved, PTL DEF Spec

(* No value is ever read that was not given for its key, or is older than the     *)
(* one in the file, whatever saves are cut short (GetsWhatWasSet).              *)
THEOREM ReadsWhatWasGiven == Spec => []GetsWhatWasSet
<1>1. IInv => GetsWhatWasSet
  <2> SUFFICES ASSUME IInv, mBlobCache # NoCache, NEW k \in DOMAIN mBlobCache.entries
               PROVE LET id == mBlobCache.entries[k].id
                     IN /\ id \in DOMAIN given
                        /\ given[id] = [key |-> k, size |-> mBlobCache.entries[k].size]
                        /\ \A e \in file.contents : e.key = k => e.value.id <= id
    BY DEF GetsWhatWasSet
  <2> DEFINE e == [key |-> k, value |-> mBlobCache.entries[k]]
  <2>1. flatten(mBlobCache) \subseteq Fresh(given, file.contents) BY InCaches DEF IInv, IsSound
  <2>2. e \in Fresh(given, file.contents) BY <2>1 DEF flatten
  <2>3. IsGiven(e, given) /\ \A f \in file.contents : f.key = e.key => f.value.id <= e.value.id
    BY <2>2 DEF Fresh
  <2> QED BY <2>3 DEF IsGiven
<1> QED BY <1>1, Initially, Preserved, PTL DEF Spec

(* With the policies that make as much room as is needed, set never fails to      *)
(* store an admissible value, whatever it evicts (FitStores).                   *)
THEOREM RoomIsMade == Spec => FitStores
<1>1. ASSUME IInv, [Next]_vars PROVE StoresWhatFits
  <2> SUFFICES ASSUME given' # given, mBlobCache'.policy.capacity # "HALVE"
               PROVE  LET new == Last(given')
                          value == [id |-> Len(given'), size |-> new.size]
                      IN IsAdmissible(mBlobCache', new.key, value) =>
                           new.key \in DOMAIN mBlobCache'.entries
                             /\ mBlobCache'.entries[new.key] = value
    BY DEF StoresWhatFits
  <2>1. PICK k \in DOMAIN KeySize, size \in Sizes : setBlob(k, size)
    BY <1>1 DEF Next, Call, vars, process, initialize, setCacheFilename, getBlob, terminate, Begin,
                DeferredSave, SaveStep, Open, Unlink, Write, Chmod, Die
  <2> DEFINE r == [key |-> k, size |-> size]
             value == [id |-> Len(given'), size |-> size]
  <2>2. given' = Append(given, r) /\ given \in Seq([key : Keys, size : Nat])
    BY <1>1, <2>1 DEF setBlob, IInv, TypeOK
  <2>3. k \in Keys /\ size \in Nat /\ r \in [key : Keys, size : Nat]
    BY SettingsAssumption DEF Keys
  <2>4. Last(given') = r /\ Len(given') \in Nat BY <2>2, <2>3 DEF Last
  <2>5. value \in Values BY <2>3, <2>4 DEF Values
  <2>6. PICK c \in BlobCaches : mBlobCache' \in Set(c, k, value) BY <2>1 DEF setBlob
  <2> HIDE DEF value
  <2> DEFINE E == Fresh(given, file.contents)
  <2>7. c \in Caches(c.limits, c.policy, E) BY <1>1, BlobCachesAre DEF IsSound
  <2> HIDE DEF E
  <2>8. mBlobCache' \in Caches(c.limits, c.policy, E \cup {[key |-> k, value |-> value]})
    BY <2>3, <2>5, <2>6, <2>7, SetKeeps
  <2>9. c.policy.capacity # "HALVE" BY <2>8, InCaches
  <2>10. IsAdmissible(mBlobCache', k, value) => IsAdmissible(c, k, value) BY <2>7, <2>8, Admits
  <2>11. IsAdmissible(mBlobCache', k, value) => HasValue(mBlobCache', k, value)
    BY <2>3, <2>5, <2>6, <2>7, <2>9, <2>10, SetStores
  <2> QED BY <2>4, <2>11 DEF HasValue, value
<1> QED BY <1>1, Initially, Preserved, PTL DEF Spec, FitStores

=============================================================================
