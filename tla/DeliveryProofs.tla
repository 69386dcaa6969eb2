--------------------------- MODULE DeliveryProofs ---------------------------
(***************************************************************************)
(* Theorems of what is delivered: of Forwarding for any network of routers *)
(* and hosts and any routing tables, and of JsonRpc for any clients, calls *)
(* and methods.  The two modules have no name in common.                   *)
(***************************************************************************)
EXTENDS Forwarding, JsonRpc, Integers, FiniteSetTheorems,
        WellFoundedInduction, TLAPS


(***************************************************************************)
(* What is defined by recursion over 1 .. n, or 0 .. n, is there; and a    *)
(* set of naturals has a least element, which is how statements about all  *)
(* k are proved here: the least k without the statement does not exist.    *)
(***************************************************************************)
LEMMA LeastOf ==
  ASSUME NEW S \in SUBSET Nat, S # {}
  PROVE  \E k \in S : \A j \in S : k <= j
<1> DEFINE R == OpToRel(<, Nat)
<1>1. IsWellFoundedOn(R, Nat)
  BY NatLessThanWellFounded
<1>2. \E k \in S : \A j \in S : <<j, k>> \notin R
  <2> HIDE DEF R
  <2> QED BY <1>1, WFMin
<1>3. PICK k \in S : \A j \in S : <<j, k>> \notin R
  BY <1>2
<1>4. \A j \in S : ~(j < k)
  BY <1>3 DEF OpToRel
<1> QED
  BY <1>4

Steps(b, n, S) == [(b + 1 .. n) \X S -> S]
IsRecursion(f, b, n, base, step) ==
  /\ f[b] = base
  /\ \A k \in b + 1 .. n : f[k] = step[<<k, f[k - 1]>>]
Recursive(b, n, S, base, step) ==
  \E f \in [b .. n -> S] : IsRecursion(f, b, n, base, step)

LEMMA Recursion ==
  ASSUME NEW b \in Nat, NEW n \in Nat, b <= n,
         NEW S, NEW base \in S, NEW step \in Steps(b, n, S)
  PROVE  Recursive(b, n, S, base, step)
<1> USE DEF Steps, IsRecursion, Recursive
<1> DEFINE Upto(m) == Recursive(b, m, S, base, step)
           Bad == {m \in Nat : b <= m /\ m <= n /\ ~Upto(m)}
<1>1. Bad = {}
  <2> SUFFICES ASSUME Bad # {} PROVE FALSE
    OBVIOUS
  <2>1. PICK m \in Bad : \A j \in Bad : m <= j
    BY LeastOf
  <2>2. CASE m = b
    <3>1. [k \in b .. b |-> base] \in [b .. b -> S]
      OBVIOUS
    <3>2. [k \in b .. b |-> base][b] = base /\ b + 1 .. b = {}
      OBVIOUS
    <3> QED
      BY <2>1, <2>2, <3>1, <3>2
  <2>3. CASE m # b
    <3>0. m \in Nat /\ b <= m /\ m <= n
      BY <2>1
    <3>1. m - 1 \in Nat /\ b <= m - 1 /\ m - 1 \notin Bad
      <4>1. m - 1 \in Nat /\ b <= m - 1 /\ m - 1 < m
        BY <3>0, <2>3
      <4> HIDE DEF Bad
      <4> QED BY <2>1, <3>0, <4>1
    <3>2. PICK f \in [b .. m - 1 -> S] :
            /\ f[b] = base
            /\ \A k \in b + 1 .. m - 1 : f[k] = step[<<k, f[k - 1]>>]
      BY <3>1, <2>1
    <3> DEFINE g == [k \in b .. m |-> IF k = m THEN step[<<m, f[m - 1]>>] ELSE f[k]]
    <3>3. <<m, f[m - 1]>> \in (b + 1 .. n) \X S
      BY <3>1, <2>1, <2>3
    <3>4. g \in [b .. m -> S]
      BY <3>1, <3>3
    <3>5. g[b] = base
      BY <3>1, <3>2
    <3>6. ASSUME NEW k \in b + 1 .. m PROVE g[k] = step[<<k, g[k - 1]>>]
      <4>1. CASE k = m
        <5>1. m \in b .. m /\ m - 1 \in b .. m /\ m - 1 # m
          BY <3>1, <2>1
        <5>2. g[m] = step[<<m, f[m - 1]>>] /\ g[m - 1] = f[m - 1]
          BY <5>1
        <5> QED BY <5>2, <4>1
      <4>2. CASE k # m
        <5>1. k \in b + 1 .. m - 1 /\ k \in b .. m /\ k - 1 \in b .. m
          BY <4>2, <3>1
        <5>2. g[k] = f[k] /\ g[k - 1] = f[k - 1]
          BY <4>2, <5>1
        <5> QED BY <5>1, <5>2, <3>2
      <4> QED BY <4>1, <4>2
    <3> HIDE DEF g
    <3> QED
      BY <2>1, <3>4, <3>5, <3>6
  <2> QED BY <2>2, <2>3
<1> QED
  BY <1>1

-----------------------------------------------------------------------------
(***************************************************************************)
(* Words, and the checksum, which is one.                                  *)
(***************************************************************************)
LEMMA WordIs == Word \in Nat /\ Word >= 2
<1>1. IsFiniteSet(1 .. Bits) /\ 1 \in 1 .. Bits
  <2>1. Bits \in Nat /\ Bits >= 1
    BY ForwardingAssumption
  <2> QED BY <2>1, FS_Interval
<1>2. Cardinality(1 .. Bits) = Bits
  BY FS_Interval, ForwardingAssumption
<1>3. /\ IsFiniteSet(SUBSET (1 .. Bits))
      /\ Cardinality(SUBSET (1 .. Bits)) = Word
  BY <1>1, <1>2, FS_SUBSET DEF Word
<1>4. {{}, {1}} \subseteq SUBSET (1 .. Bits)
  BY <1>1
<1>5. Cardinality({{}, {1}}) = 2
  <2>1. {{}, {1}} = {{}} \cup {{1}} /\ {1} \notin {{}}
    OBVIOUS
  <2>2. IsFiniteSet({{}}) /\ Cardinality({{}}) = 1
    BY FS_Singleton
  <2>3. Cardinality({{}} \cup {{1}}) = Cardinality({{}}) + 1
    BY <2>1, <2>2, FS_AddElement
  <2> DEFINE one == Cardinality({{}})
             two == Cardinality({{}} \cup {{1}})
  <2>4. one = 1 /\ two = one + 1
    BY <2>2, <2>3
  <2> HIDE DEF one, two
  <2>5. two = 2
    BY <2>4
  <2> QED BY <2>1, <2>5 DEF two
<1>6. Cardinality({{}, {1}}) <= Cardinality(SUBSET (1 .. Bits))
  BY <1>3, <1>4, FS_Subset
<1> QED
  BY <1>3, <1>5, <1>6, FS_CardinalityType

LEMMA AddressesAre == Addresses = 0 .. Word - 1 /\ 0 \in Addresses
BY WordIs DEF Addresses, Word

LEMMA ModShift ==
  ASSUME NEW d \in Nat \ {0}, NEW x \in Nat, NEW q \in Nat
  PROVE  (x + q * d) % d = x % d
<1> DEFINE y == x + q * d
           u == (y \div d) - q - (x \div d)
<1>1. x = (x \div d) * d + (x % d) /\ x % d \in 0 .. d - 1 /\ x \div d \in Nat
  OBVIOUS
<1>2. y \in Nat /\ q * d \in Nat
  OBVIOUS
<1>3. y = (y \div d) * d + (y % d) /\ y % d \in 0 .. d - 1 /\ y \div d \in Nat
  <2> HIDE DEF y
  <2> QED BY <1>2
<1>4. u * d = (x % d) - (y % d) /\ u \in Int
  BY <1>1, <1>2, <1>3
<1>5. u = 0
  <2> HIDE DEF u
  <2>1. -d < u * d /\ u * d < d
    BY <1>1, <1>3, <1>4
  <2>2. ~(u >= 1) /\ ~(u <= -1)
    BY <2>1, <1>4
  <2> QED BY <2>2, <1>4
<1> QED
  BY <1>1, <1>3, <1>4, <1>5

Fold(f) == f = [sum \in Nat |-> IF sum < Word THEN sum
                                ELSE f[(sum \div Word) + (sum % Word)]]

LEMMA Folding ==
  \A n \in Nat : n >= Word =>
    (n \div Word) + (n % Word) \in Nat /\ (n \div Word) + (n % Word) < n
BY WordIs

(***************************************************************************)
(* The sum of ones' complement arithmetic is one modulo Word - 1.          *)
(***************************************************************************)
LEMMA FoldedExists == \E f : Fold(f)
<1> DEFINE f == [n \in Nat |-> IF n = 0 THEN 0 ELSE 1 + ((n - 1) % (Word - 1))]
<1>1. ASSUME NEW n \in Nat
      PROVE  f[n] = IF n < Word THEN n ELSE f[(n \div Word) + (n % Word)]
  <2>1. CASE n = 0
    BY <2>1, WordIs
  <2>2. CASE n # 0 /\ n < Word
    <3>1. n - 1 \in 0 .. (Word - 1) - 1 /\ Word - 1 \in Nat \ {0}
      BY <2>2, WordIs
    <3>2. (n - 1) % (Word - 1) = n - 1
      BY <3>1
    <3> QED BY <2>2, <3>2
  <2>3. CASE n >= Word
    <3> DEFINE q == n \div Word
               m == q + (n % Word)
    <3>1. n = q * Word + (n % Word) /\ q \in Nat /\ n % Word \in Nat /\ q # 0
      BY <2>3, WordIs
    <3> HIDE DEF q
    <3>2. m \in Nat /\ m >= 1 /\ n = m + q * (Word - 1) /\ Word - 1 \in Nat \ {0}
      BY <3>1, WordIs
    <3> HIDE DEF m
    <3>3. ((m - 1) + q * (Word - 1)) % (Word - 1) = (m - 1) % (Word - 1)
      BY <3>1, <3>2, ModShift
    <3>4. q * (Word - 1) \in Nat
      BY <3>1, <3>2
    <3>5. n - 1 = (m - 1) + q * (Word - 1)
      BY <3>2, <3>4
    <3>6. f[n] = f[m]
      BY <3>2, <3>3, <3>5, <2>3, WordIs
    <3> QED BY <3>6, <2>3, WordIs DEF m, q
  <2> QED BY <2>1, <2>2, <2>3, WordIs
<1> QED
  <2> DEFINE g == f
  <2>1. DOMAIN g = Nat /\ g = [n \in Nat |-> g[n]]
    OBVIOUS
  <2>2. \A n \in Nat : g[n] = IF n < Word THEN n ELSE g[(n \div Word) + (n % Word)]
    BY <1>1
  <2> HIDE DEF g
  <2>3. Fold(g)
    BY <2>1, <2>2 DEF Fold
  <2> QED BY <2>3

LEMMA FoldedIsWord == \A n \in Nat : Folded[n] \in 0 .. Word - 1
<1>1. Folded = CHOOSE f : Fold(f)
  BY DEF Folded, Fold
<1>2. Fold(Folded)
  BY <1>1, FoldedExists
<1>3. \A n \in Nat : Folded[n] = IF n < Word THEN n
                                 ELSE Folded[(n \div Word) + (n % Word)]
  BY <1>2 DEF Fold
<1> DEFINE Bad == {n \in Nat : Folded[n] \notin 0 .. Word - 1}
<1>4. Bad = {}
  <2> SUFFICES ASSUME Bad # {} PROVE FALSE
    OBVIOUS
  <2>1. PICK n \in Bad : \A m \in Bad : n <= m
    BY LeastOf
  <2> DEFINE m == (n \div Word) + (n % Word)
  <2>2. CASE n < Word
    BY <2>1, <2>2, <1>3, WordIs
  <2>3. CASE n >= Word
    <3>1. m \in Nat /\ m < n
      BY <2>1, <2>3, Folding
    <3>2. Folded[n] = Folded[m]
      BY <2>1, <2>3, <1>3, WordIs
    <3>3. m \in Bad
      BY <2>1, <3>1, <3>2
    <3> HIDE DEF m, Bad
    <3> QED BY <2>1, <3>1, <3>3
  <2> QED BY <2>1, <2>2, <2>3, WordIs
<1> QED BY <1>4

LEMMA ChecksumIsWord ==
  ASSUME NEW p, p.ttl \in Nat, p.src \in Nat, p.dst \in Nat
  PROVE  Complement(p) \in 0 .. Word - 1 /\ Cksum(p) \in 0 .. Word - 1
<1>1. Folded[p.ttl + p.src + p.dst] \in 0 .. Word - 1
  BY FoldedIsWord
<1>2. Complement(p) \in 0 .. Word - 1
  BY <1>1, WordIs DEF Complement
<1> QED BY <1>2, WordIs DEF Cksum

(***************************************************************************)
(* The table: Lpm is a loop over the routes, and keeps the first of the    *)
(* longest matching ones.                                                  *)
(***************************************************************************)
Found == Route \cup {NoRoute}

LEMMA Lengths == \A route \in Route : route.len \in Nat
BY ForwardingAssumption DEF Route

LpmLoop(routes, a, best) ==
  /\ best \in [0 .. Len(routes) -> Found]
  /\ best[0] = NoRoute
  /\ \A n \in 1 .. Len(routes) :
       best[n] = IF Matches(routes[n], a) /\ Better(routes[n], best[n - 1])
                 THEN routes[n] ELSE best[n - 1]
  /\ Lpm(routes, a) = best[Len(routes)]

LEMMA LpmLoops ==
  ASSUME NEW routes \in Seq(Route), NEW a
  PROVE  \E best : LpmLoop(routes, a, best)
<1> DEFINE N == Len(routes)
           step == [x \in (0 + 1 .. N) \X Found |->
                      IF Matches(routes[x[1]], a) /\ Better(routes[x[1]], x[2])
                      THEN routes[x[1]] ELSE x[2]]
           Is(f) == f = [n \in 0 .. N |->
                           IF n = 0 THEN NoRoute
                           ELSE IF Matches(routes[n], a) /\ Better(routes[n], f[n - 1])
                                THEN routes[n] ELSE f[n - 1]]
<1>1. N \in Nat /\ \A n \in 1 .. N : routes[n] \in Route
  OBVIOUS
<1>2. step \in Steps(0, N, Found)
  BY <1>1 DEF Steps, Found
<1>3. PICK f \in [0 .. N -> Found] : IsRecursion(f, 0, N, NoRoute, step)
  <2>1. NoRoute \in Found /\ 0 \in Nat /\ 0 <= N
    BY <1>1 DEF Found
  <2> HIDE DEF step, N
  <2> QED BY <1>1, <1>2, <2>1, Recursion DEF Recursive
<1>4. \A n \in 1 .. N : f[n] = IF Matches(routes[n], a) /\ Better(routes[n], f[n - 1])
                               THEN routes[n] ELSE f[n - 1]
  <2> SUFFICES ASSUME NEW n \in 1 .. N
               PROVE  f[n] = IF Matches(routes[n], a) /\ Better(routes[n], f[n - 1])
                             THEN routes[n] ELSE f[n - 1]
    OBVIOUS
  <2>1. n \in 0 + 1 .. N /\ n - 1 \in 0 .. N
    BY <1>1
  <2>2. f[n] = step[<<n, f[n - 1]>>] /\ f[n - 1] \in Found
    BY <1>3, <2>1 DEF IsRecursion
  <2> QED BY <2>1, <2>2
<1>5. Is(f)
  BY <1>1, <1>3, <1>4 DEF IsRecursion
<1> DEFINE best == CHOOSE g : Is(g)
<1>6. Is(best)
  <2> HIDE DEF Is
  <2> QED BY <1>5
<1>7. Lpm(routes, a) = best[N]
  BY DEF Lpm
<1> HIDE DEF best
<1>8. /\ DOMAIN best = 0 .. N /\ best = [n \in 0 .. N |-> best[n]]
      /\ best[0] = NoRoute
      /\ \A n \in 1 .. N : best[n] = IF Matches(routes[n], a) /\ Better(routes[n], best[n - 1])
                                     THEN routes[n] ELSE best[n - 1]
  BY <1>1, <1>6
<1>9. \A n \in 0 .. N : best[n] \in Found
  <2> DEFINE Bad == {n \in Nat : n \in 0 .. N /\ best[n] \notin Found}
  <2>1. Bad = {}
    <3> SUFFICES ASSUME Bad # {} PROVE FALSE
      OBVIOUS
    <3>1. PICK n \in Bad : \A m \in Bad : n <= m
      BY LeastOf
    <3>2. n # 0 /\ n \in 1 .. N /\ n - 1 \in 0 .. N
      BY <3>1, <1>1, <1>8 DEF Found
    <3>3. n - 1 \notin Bad /\ n - 1 \in Nat
      <4> HIDE DEF Bad
      <4>1. n - 1 \in Nat /\ n - 1 < n
        BY <3>2
      <4> QED BY <4>1, <3>1, <3>2
    <3> QED BY <3>1, <3>2, <3>3, <1>1, <1>8 DEF Found
  <2> QED BY <2>1, <1>1
<1> QED
  BY <1>1, <1>7, <1>8, <1>9 DEF LpmLoop

(***************************************************************************)
(* What the loop has after n routes: none, if none of them matches, or the *)
(* first of the longest that do.                                           *)
(***************************************************************************)
Candidate(routes, a, k) == Matches(routes[k], a) /\ routes[k].len > 0
Winner(routes, a, n, k) ==
  /\ k \in 1 .. n /\ Candidate(routes, a, k)
  /\ \A j \in 1 .. n : Candidate(routes, a, j) =>
       /\ routes[j].len <= routes[k].len
       /\ routes[j].len = routes[k].len => k <= j
Best(routes, a, n, route) ==
  \/ route = NoRoute /\ \A k \in 1 .. n : ~Candidate(routes, a, k)
  \/ \E k \in 1 .. n : Winner(routes, a, n, k) /\ route = routes[k]

LEMMA BestStep ==
  ASSUME NEW routes \in Seq(Route), NEW a, NEW n \in 1 .. Len(routes),
         NEW route, Best(routes, a, n - 1, route)
  PROVE  Best(routes, a, n, IF Matches(routes[n], a) /\ Better(routes[n], route)
                            THEN routes[n] ELSE route)
<1>1. \A k \in 1 .. Len(routes) : routes[k] \in Route /\ routes[k].len \in Nat
  BY Lengths
<1>2. n \in Nat /\ n >= 1 /\ n - 1 \in Nat /\ \A k \in 1 .. n : k \in 1 .. n - 1 \/ k = n
  OBVIOUS
<1>3. CASE route = NoRoute /\ \A k \in 1 .. n - 1 : ~Candidate(routes, a, k)
  <2>1. Better(routes[n], route) <=> routes[n].len > 0
    BY <1>3 DEF Better, NoRoute
  <2>2. CASE Candidate(routes, a, n)
    <3>1. Winner(routes, a, n, n)
      BY <1>1, <1>2, <1>3, <2>2 DEF Winner
    <3> QED BY <3>1, <2>1, <2>2, <1>2 DEF Best, Candidate
  <2>3. CASE ~Candidate(routes, a, n)
    BY <2>1, <2>3, <1>2, <1>3 DEF Best, Candidate
  <2> QED BY <2>2, <2>3
<1>4. CASE \E k \in 1 .. n - 1 : Winner(routes, a, n - 1, k) /\ route = routes[k]
  <2>1. PICK k \in 1 .. n - 1 : Winner(routes, a, n - 1, k) /\ route = routes[k]
    BY <1>4
  <2>2. Better(routes[n], route) <=> routes[n].len > routes[k].len
    BY <2>1 DEF Better
  <2>3. k \in 1 .. n /\ routes[k].len \in Nat /\ routes[n].len \in Nat
    BY <1>1, <1>2
  <2>4. CASE Matches(routes[n], a) /\ routes[n].len > routes[k].len
    <3>1. Candidate(routes, a, n)
      BY <2>3, <2>4 DEF Candidate
    <3>2. \A j \in 1 .. n : Candidate(routes, a, j) =>
            /\ routes[j].len <= routes[n].len
            /\ routes[j].len = routes[n].len => n <= j
      BY <1>1, <1>2, <2>1, <2>3, <2>4 DEF Winner
    <3>3. Winner(routes, a, n, n)
      BY <3>1, <3>2, <1>2 DEF Winner
    <3> QED BY <3>3, <2>2, <2>4, <1>2 DEF Best
  <2>5. CASE ~(Matches(routes[n], a) /\ routes[n].len > routes[k].len)
    <3>1. Winner(routes, a, n, k)
      BY <1>1, <1>2, <2>1, <2>3, <2>5 DEF Winner, Candidate
    <3> QED BY <3>1, <2>1, <2>2, <2>3, <2>5 DEF Best
  <2> QED BY <2>4, <2>5
<1> QED
  BY <1>3, <1>4 DEF Best

LEMMA LpmIsBest ==
  ASSUME NEW routes \in Seq(Route), NEW a
  PROVE  Lpm(routes, a) \in Found /\ Best(routes, a, Len(routes), Lpm(routes, a))
<1> DEFINE N == Len(routes)
<1>1. PICK best : LpmLoop(routes, a, best)
  BY LpmLoops
<1> DEFINE Bad == {n \in Nat : n \in 0 .. N /\ ~Best(routes, a, n, best[n])}
<1>2. N \in Nat
  OBVIOUS
<1>3. Bad = {}
  <2> SUFFICES ASSUME Bad # {} PROVE FALSE
    OBVIOUS
  <2>1. PICK n \in Bad : \A m \in Bad : n <= m
    BY LeastOf
  <2>2. Best(routes, a, 0, best[0])
    BY <1>1 DEF Best, LpmLoop
  <2>3. n \in 1 .. N /\ n - 1 \in 0 .. N /\ n - 1 \in Nat /\ n - 1 < n
    BY <2>1, <2>2, <1>2
  <2>4. n - 1 \notin Bad
    <3> HIDE DEF Bad
    <3> QED BY <2>1, <2>3
  <2>5. Best(routes, a, n - 1, best[n - 1])
    BY <2>3, <2>4
  <2>6. Best(routes, a, n, best[n])
    BY <2>3, <2>5, <1>1, BestStep DEF LpmLoop
  <2> QED BY <2>1, <2>6
<1>4. Best(routes, a, N, best[N])
  <2>1. N \notin Bad /\ N \in 0 .. N
    BY <1>2, <1>3
  <2> QED BY <2>1, <1>2
<1> QED
  BY <1>1, <1>2, <1>4 DEF LpmLoop

(***************************************************************************)
(* The loop finds the route of the definition, for any table and address.  *)
(***************************************************************************)
THEOREM LpmIsLongest ==
  ASSUME NEW routes \in Seq(Route), NEW a
  PROVE  Lpm(routes, a) = Longest(routes, a)
<1> DEFINE N == Len(routes)
           M == {k \in DOMAIN routes : Candidate(routes, a, k)}
           First(k) == \A j \in M : /\ routes[j].len <= routes[k].len
                                    /\ routes[j].len = routes[k].len => k <= j
<1>1. Longest(routes, a) = IF M = {} THEN NoRoute ELSE routes[CHOOSE k \in M : First(k)]
  BY DEF Longest, Candidate
<1>2. DOMAIN routes = 1 .. N /\ N \in Nat
  OBVIOUS
<1>3. \A k \in 1 .. N : routes[k].len \in Nat
  BY Lengths
<1>4. CASE Lpm(routes, a) = NoRoute /\ \A k \in 1 .. N : ~Candidate(routes, a, k)
  BY <1>1, <1>2, <1>4
<1>5. CASE \E k \in 1 .. N : Winner(routes, a, N, k) /\ Lpm(routes, a) = routes[k]
  <2>1. PICK k \in 1 .. N : Winner(routes, a, N, k) /\ Lpm(routes, a) = routes[k]
    BY <1>5
  <2>2. k \in M /\ First(k)
    BY <2>1, <1>2 DEF Winner
  <2> DEFINE c == CHOOSE i \in M : First(i)
  <2>3. c \in M /\ First(c)
    BY <2>2
  <2> HIDE DEF c
  <2>4. c = k
    BY <2>2, <2>3, <1>2, <1>3
  <2> QED BY <2>1, <2>2, <2>4, <1>1 DEF c
<1> QED
  BY LpmIsBest, <1>4, <1>5 DEF Best
-----------------------------------------------------------------------------
(***************************************************************************)
(* Types.  An error or a reply is what is under way once the first packet  *)
(* has met its fate.                                                       *)
(***************************************************************************)
TypeInv == TypeOK /\ (fate # "travelling" /\ pkt # Gone => pkt.proto \in Icmp)

\* The same fields, but for those a step writes.
SameTexts(q, p) == q.src = p.src /\ q.dst = p.dst /\ q.proto = p.proto
SamePlace(q, p) == /\ q.dir = p.dir /\ q.link = p.link
                   /\ q.router = p.router /\ q.peer = p.peer

LEMMA NetworkIs ==
  /\ IsFiniteSet(Routers) /\ Cardinality(Routers) \in Nat
  /\ \A i \in Interfaces : i.router \in Routers /\ i.ip \in Addresses
  /\ \A h \in Hosts : h.ip \in Addresses
<1>1. IsFiniteSet(Routers)
  <2> DEFINE f == [i \in Interfaces |-> i.router]
  <2>1. f \in Surjection(Interfaces, Routers)
    BY DEF Surjection, Routers
  <2> HIDE DEF f
  <2> QED BY <2>1, FS_Surjection, ForwardingAssumption
<1>2. \A i \in Interfaces : i.router \in Routers
  BY DEF Routers
<1>3. (\A i \in Interfaces : i.ip \in Addresses) /\ \A h \in Hosts : h.ip \in Addresses
  BY ForwardingAssumption
<1> QED BY <1>1, <1>2, <1>3, FS_CardinalityType

LEMMA Packets ==
  ASSUME NEW p \in Packet
  PROVE  /\ p.src \in Nat /\ p.dst \in Nat /\ p.ttl \in Nat
         /\ p.src \in Addresses /\ p.dst \in Addresses /\ p.peer \in Addresses
         /\ p.router \in Routers /\ p.dir \in {"in", "out"}
         /\ p # Gone
<1>1. Gone \notin Packet
  BY DEF Gone, Packet
<1>2. p.src \in Addresses /\ p.dst \in Addresses /\ p.peer \in Addresses
      /\ p.router \in Routers /\ p.dir \in {"in", "out"} /\ p.ttl \in 0 .. TtlLimit - 1
  BY DEF Packet
<1> QED BY <1>1, <1>2, AddressesAre

LEMMA SummedIs ==
  ASSUME NEW p \in Packet
  PROVE  /\ Summed(p) \in Packet /\ IsPacketValid(Summed(p))
         /\ SameTexts(Summed(p), p) /\ SamePlace(Summed(p), p)
         /\ Summed(p).ttl = p.ttl
<1> DEFINE c == Cksum(p)
           q == [p EXCEPT !.sum = c]
<1>1. c \in 0 .. Word - 1
  BY Packets, ChecksumIsWord
<1>2. Summed(p) = q
  BY DEF Summed
<1> HIDE DEF c
<1>3. q \in Packet /\ q.sum = c /\ SameTexts(q, p) /\ SamePlace(q, p) /\ q.ttl = p.ttl
  BY <1>1 DEF Packet, SameTexts, SamePlace
<1>4. Cksum(q) = Cksum(p)
  BY <1>3 DEF Cksum, Complement, SameTexts
<1> QED BY <1>2, <1>3, <1>4 DEF IsPacketValid, c

LEMMA SentIs ==
  ASSUME NEW p \in Packet, NEW i \in Interfaces, NEW hop \in Addresses
  PROVE  /\ Sent(p, i, hop) \in Packet
         /\ Sent(p, i, hop).dir = "out" /\ Sent(p, i, hop).link = i.link
         /\ Sent(p, i, hop).router = i.router /\ Sent(p, i, hop).peer = hop
         /\ SameTexts(Sent(p, i, hop), p) /\ Sent(p, i, hop).ttl = p.ttl
         /\ IsPacketValid(p) => IsPacketValid(Sent(p, i, hop))
<1> DEFINE q == Sent(p, i, hop)
<1>1. /\ q \in Packet /\ q.dir = "out" /\ q.link = i.link /\ q.router = i.router
      /\ q.peer = hop /\ SameTexts(q, p) /\ q.ttl = p.ttl /\ q.sum = p.sum
  BY NetworkIs DEF Sent, Packet, SameTexts
<1> HIDE DEF q
<1>2. Cksum(q) = Cksum(p)
  BY <1>1 DEF Cksum, Complement, SameTexts
<1> QED BY <1>1, <1>2 DEF IsPacketValid, q

LEMMA DecrementedIs ==
  ASSUME NEW p \in Packet
  PROVE  /\ Decremented(p) \in Packet
         /\ SameTexts(Decremented(p), p) /\ SamePlace(Decremented(p), p)
         /\ p.ttl >= 1 => Decremented(p).ttl = p.ttl - 1
<1> DEFINE t == (p.ttl + TtlLimit - 1) % TtlLimit
<1>1. p.ttl \in 0 .. TtlLimit - 1 /\ TtlLimit \in Nat \ {0}
  BY ForwardingAssumption DEF Packet
<1>2. t \in 0 .. TtlLimit - 1
  BY <1>1
<1>3. p.ttl >= 1 => t = p.ttl - 1
  <2> SUFFICES ASSUME p.ttl >= 1 PROVE t = p.ttl - 1
    OBVIOUS
  <2>1. p.ttl - 1 \in Nat /\ p.ttl + TtlLimit - 1 = (p.ttl - 1) + 1 * TtlLimit
    BY <1>1
  <2>2. ((p.ttl - 1) + 1 * TtlLimit) % TtlLimit = (p.ttl - 1) % TtlLimit
    BY <1>1, <2>1, ModShift
  <2>3. (p.ttl - 1) % TtlLimit = p.ttl - 1
    BY <1>1, <2>1
  <2> QED BY <2>1, <2>2, <2>3
<1>4. Decremented(p) = [p EXCEPT !.ttl = t]
  BY DEF Decremented, Packet
<1> HIDE DEF t
<1> QED BY <1>2, <1>3, <1>4 DEF Packet, SameTexts, SamePlace

LEMMA Looked ==
  ASSUME table \in Tables, NEW r \in Routers, NEW a \in Addresses
  PROVE  /\ OutOf(r, Lpm(table[r], a)) \subseteq Interfaces
         /\ \A i \in OutOf(r, Lpm(table[r], a)) : i.router = r
         /\ OutOf(r, Lpm(table[r], a)) # {} => Lpm(table[r], a) # NoRoute
         /\ HopOf(Lpm(table[r], a), a) \in Addresses
<1> DEFINE route == Lpm(table[r], a)
<1>1. table[r] \in Seq(Route)
  BY ForwardingAssumption
<1>2. route \in Found
  BY <1>1, LpmIsBest
<1> HIDE DEF route
<1>3. route.gw \in Addresses
  BY <1>2, AddressesAre DEF Found, Route, NoRoute
<1>4. OutOf(r, NoRoute) = {}
  BY ForwardingAssumption DEF OutOf, NoRoute
<1> QED BY <1>3, <1>4 DEF OutOf, HopOf, route

(***************************************************************************)
(* What an error about p from router r is: nothing, or a valid packet from *)
(* r to the sender of p, on its way to the hop of the route.               *)
(***************************************************************************)
Out(q, r, a) ==
  /\ q \in Packet /\ IsPacketValid(q) /\ q.dir = "out" /\ q.router = r /\ q.dst = a
  /\ \E i \in OutOf(r, Lpm(table[r], a)) : q.link = i.link
  /\ q.peer = HopOf(Lpm(table[r], a), a)

LEMMA ErrorIs ==
  ASSUME TypeOK, NEW p \in Packet, NEW error \in Errors,
         SendIcmpError(p.router, p, error), pkt' # Gone
  PROVE  /\ Out(pkt', p.router, p.src)
         /\ pkt'.proto = error /\ pkt'.ttl = IcmpTtl
<1> DEFINE r == p.router
           route == Lpm(table[r], p.src)
<1>1. r \in Routers /\ p.src \in Addresses /\ table \in Tables
  BY Packets DEF TypeOK
<1>2. PICK i \in OutOf(r, route) :
        pkt' = Sent(Summed([p EXCEPT !.src = i.ip, !.dst = p.src,
                                     !.ttl = IcmpTtl, !.proto = error]),
                    i, HopOf(route, p.src))
  BY DEF SendIcmpError
<1> DEFINE q == [p EXCEPT !.src = i.ip, !.dst = p.src, !.ttl = IcmpTtl, !.proto = error]
<1>3. i \in Interfaces /\ i.router = r /\ HopOf(route, p.src) \in Addresses
      /\ i.ip \in Addresses
  BY <1>1, <1>2, Looked, NetworkIs
<1>4. error \in Protocols /\ IcmpTtl \in 0 .. TtlLimit - 1
  BY ForwardingAssumption DEF Protocols, Icmp
<1>5. q \in Packet /\ q.dst = p.src /\ q.proto = error /\ q.ttl = IcmpTtl
  BY <1>1, <1>3, <1>4 DEF Packet
<1> HIDE DEF q
<1>6. Summed(q) \in Packet /\ IsPacketValid(Summed(q))
      /\ SameTexts(Summed(q), q) /\ Summed(q).ttl = q.ttl
  BY <1>5, SummedIs
<1> DEFINE s == Summed(q)
           hop == HopOf(route, p.src)
<1>7. pkt' = Sent(s, i, hop)
  BY <1>2 DEF q
<1> HIDE DEF s, hop
<1>8. /\ pkt' \in Packet /\ pkt'.dir = "out" /\ pkt'.link = i.link
      /\ pkt'.router = i.router /\ pkt'.peer = hop
      /\ SameTexts(pkt', s) /\ pkt'.ttl = s.ttl /\ IsPacketValid(pkt')
  BY <1>3, <1>6, <1>7, SentIs DEF s, hop
<1> QED
  BY <1>2, <1>3, <1>5, <1>6, <1>8 DEF Out, SameTexts, s, hop

(***************************************************************************)
(* What a router forwards: the packet, with one off its TTL.               *)
(***************************************************************************)
LEMMA ForwardedIs ==
  ASSUME TypeOK, NEW p \in Packet, Forward(p.router, p), Refusal(p.router, p) = "none",
         pkt' # Gone
  PROVE  /\ Out(pkt', p.router, p.dst)
         /\ SameTexts(pkt', p) /\ pkt'.ttl = p.ttl
         /\ UNCHANGED <<stage, table, here, first, fate>>
<1> DEFINE r == p.router
           route == Lpm(table[r], p.dst)
           s == Updated(p)
           hop == HopOf(route, p.dst)
<1>1. r \in Routers /\ p.dst \in Addresses /\ table \in Tables
  BY Packets DEF TypeOK
<1>2. PICK i \in OutOf(r, route) : pkt' = Sent(s, i, hop)
  BY DEF Forward
<1>3. i \in Interfaces /\ i.router = r /\ hop \in Addresses
  BY <1>1, <1>2, Looked
<1>4. s \in Packet /\ IsPacketValid(s) /\ SameTexts(s, p) /\ s.ttl = p.ttl
  BY SummedIs DEF Updated
<1> HIDE DEF s, hop
<1>5. /\ pkt' \in Packet /\ pkt'.dir = "out" /\ pkt'.link = i.link
      /\ pkt'.router = i.router /\ pkt'.peer = hop
      /\ SameTexts(pkt', s) /\ pkt'.ttl = s.ttl /\ IsPacketValid(pkt')
  BY <1>2, <1>3, <1>4, SentIs
<1>6. UNCHANGED <<stage, table, here, first, fate>>
  BY DEF Forward
<1> QED BY <1>2, <1>3, <1>4, <1>5, <1>6 DEF Out, SameTexts, hop

(***************************************************************************)
(* The type invariant, action by action.                                   *)
(***************************************************************************)
LEMMA InitTypes == Init => TypeInv
<1> SUFFICES ASSUME Init PROVE TypeInv
  OBVIOUS
<1>1. PICK i \in Interfaces, h \in Hosts \cup Interfaces :
        /\ h.ip = first.src /\ h.link = i.link /\ h # i
        /\ LET p == [src |-> first.src, dst |-> first.dst, ttl |-> first.ttl,
                     proto |-> first.proto, sum |-> 0, dir |-> "in",
                     link |-> i.link, router |-> i.router, peer |-> h.ip]
           IN pkt = [p EXCEPT !.sum = Complement(p)]
  BY DEF Init
<1> DEFINE p == [src |-> first.src, dst |-> first.dst, ttl |-> first.ttl,
                 proto |-> first.proto, sum |-> 0, dir |-> "in",
                 link |-> i.link, router |-> i.router, peer |-> h.ip]
<1>2. /\ first \in Originals /\ first.src \in Addresses /\ first.dst \in Addresses
      /\ first.ttl \in 0 .. TtlLimit - 1 /\ first.proto \in Protocols
      /\ i.router \in Routers /\ h.ip \in Addresses /\ 0 \in 0 .. Word - 1
  BY NetworkIs, WordIs, ForwardingAssumption DEF Init, Protocols
<1>3. p \in Packet /\ p.router = i.router /\ p.link = i.link
  BY <1>2 DEF Packet
<1> HIDE DEF p
<1>4. Complement(p) \in 0 .. Word - 1
  BY <1>3, Packets, ChecksumIsWord
<1>5. pkt = [p EXCEPT !.sum = Complement(p)]
  BY <1>1 DEF p
<1> DEFINE c == Complement(p)
<1> HIDE DEF c
<1>6. pkt \in Packet /\ pkt.router = i.router /\ pkt.link = i.link
  BY <1>3, <1>4, <1>5 DEF Packet, c
<1> QED
  BY <1>6 DEF Init, TypeInv, TypeOK

\* A packet that leaves a router leaves by an interface of the router.
LEMMA OutTypes ==
  ASSUME TypeOK, NEW r \in Routers, NEW a \in Addresses, NEW q, Out(q, r, a)
  PROVE  q \in Packet /\ \E i \in Interfaces : i.router = q.router /\ i.link = q.link
BY Looked DEF Out, TypeOK

LEMMA ErrorTypes ==
  ASSUME TypeInv, NEW p \in Packet, NEW error \in Errors,
         SendIcmpError(p.router, p, error), Ends(error), UNCHANGED told
  PROVE  TypeInv'
<1>1. pkt' = Gone \/ /\ pkt' \in Packet /\ pkt'.proto \in Icmp
                     /\ \E i \in Interfaces : i.router = pkt'.router /\ i.link = pkt'.link
  BY ErrorIs, OutTypes, Packets DEF TypeInv, Icmp
<1> QED
  BY <1>1 DEF TypeInv, TypeOK, Ends

LEMMA GoneTypes ==
  ASSUME TypeInv, pkt' = Gone, NEW what, Ends(what), UNCHANGED told,
         what \in {"invalid", "handled", "received", "noInterface"}
  PROVE  TypeInv'
BY DEF TypeInv, TypeOK, Ends

LEMMA ReplyIs ==
  ASSUME NEW p \in Packet
  PROVE  /\ EchoReply(p) \in Packet /\ IsPacketValid(EchoReply(p))
         /\ EchoReply(p).dst = p.src /\ EchoReply(p).proto = "reply"
         /\ EchoReply(p).ttl = IcmpTtl /\ EchoReply(p).dir = "out"
         /\ EchoReply(p).link = p.link /\ EchoReply(p).router = p.router
         /\ EchoReply(p).peer = p.peer
<1> DEFINE q == [p EXCEPT !.src = p.dst, !.dst = p.src, !.ttl = IcmpTtl,
                          !.proto = "reply", !.dir = "out"]
<1>1. "reply" \in Protocols /\ IcmpTtl \in 0 .. TtlLimit - 1
  BY ForwardingAssumption DEF Protocols, Icmp
<1>2. /\ q \in Packet /\ q.dst = p.src /\ q.proto = "reply" /\ q.ttl = IcmpTtl
      /\ q.dir = "out" /\ q.link = p.link /\ q.router = p.router /\ q.peer = p.peer
  BY <1>1 DEF Packet
<1>3. EchoReply(p) = Summed(q)
  BY DEF EchoReply
<1> HIDE DEF q
<1> QED BY <1>2, <1>3, SummedIs DEF SameTexts, SamePlace

LEMMA ForMeTypes ==
  ASSUME TypeInv, pkt # Gone, ForMe(pkt.router, pkt), UNCHANGED told
  PROVE  TypeInv'
<1>1. pkt \in Packet
  BY DEF TypeInv, TypeOK
<1>2. CASE pkt.proto = "echo" /\ pkt' = EchoReply(pkt) /\ Ends("answered")
  <2>1. /\ pkt' \in Packet /\ pkt'.proto \in Icmp
        /\ pkt'.router = pkt.router /\ pkt'.link = pkt.link
    BY <1>1, <1>2, ReplyIs DEF Icmp
  <2> QED BY <1>2, <2>1 DEF TypeInv, TypeOK, Ends
<1>3. CASE pkt.proto \in Icmp \ {"echo"} /\ pkt' = Gone /\ Ends("received")
  BY <1>3, GoneTypes
<1>4. CASE SendIcmpError(pkt.router, pkt, "portUnreachable") /\ Ends("portUnreachable")
  <2>1. "portUnreachable" \in Errors
    BY DEF Errors
  <2> QED BY <1>1, <1>4, <2>1, ErrorTypes
<1> QED
  BY <1>2, <1>3, <1>4 DEF ForMe

LEMMA RefusalIs ==
  ASSUME NEW r, NEW p, Refusal(r, p) # "none" PROVE Refusal(r, p) \in Errors
BY DEF Refusal, Errors

LEMMA ForwardTypes ==
  ASSUME TypeInv, pkt # Gone, Forward(pkt.router, Decremented(pkt)), UNCHANGED told
  PROVE  TypeInv'
<1> DEFINE p == Decremented(pkt)
<1>1. pkt \in Packet /\ p \in Packet /\ p.router = pkt.router /\ SameTexts(p, pkt)
  BY DecrementedIs DEF TypeInv, TypeOK, SamePlace
<1> HIDE DEF p
<1>2. CASE /\ Refusal(pkt.router, p) # "none"
           /\ SendIcmpError(pkt.router, p, Refusal(pkt.router, p))
           /\ Ends(Refusal(pkt.router, p))
  BY <1>1, <1>2, RefusalIs, ErrorTypes
<1>3. CASE pkt' = Gone /\ Ends("noInterface")
  BY <1>3, GoneTypes
<1>4. CASE Refusal(pkt.router, p) = "none" /\ pkt' # Gone
  <2>1. /\ Out(pkt', p.router, p.dst) /\ SameTexts(pkt', p)
        /\ UNCHANGED <<stage, table, here, first, fate>>
    BY <1>1, <1>4, ForwardedIs DEF TypeInv, p
  <2>2. pkt' \in Packet
        /\ \E i \in Interfaces : i.router = pkt'.router /\ i.link = pkt'.link
    BY <1>1, <2>1, OutTypes, Packets DEF TypeInv
  <2> QED BY <1>1, <2>1, <2>2 DEF TypeInv, TypeOK, SameTexts
<1>5. CASE Refusal(pkt.router, p) = "none" /\ pkt' = Gone
           /\ UNCHANGED <<stage, table, here, first, fate>>
  BY <1>5 DEF TypeInv, TypeOK
<1> QED
  BY <1>2, <1>3, <1>4, <1>5 DEF Forward, p

LEMMA ReceiveTypes == ASSUME TypeInv, Receive PROVE TypeInv'
BY GoneTypes, ForMeTypes, ForwardTypes DEF Receive

LEMMA SenderIs ==
  ASSUME NEW p, \E i \in Interfaces : i.router = p.router /\ i.link = p.link
  PROVE  \E i \in Interfaces :
           i.router = p.router /\ i.link = p.link /\ SenderIp(p) = i.ip
BY DEF SenderIp

LEMMA ToRouterTypes == ASSUME TypeInv, ToRouter PROVE TypeInv'
<1>1. PICK i \in Others(pkt) :
        pkt' = [pkt EXCEPT !.dir = "in", !.router = i.router, !.peer = SenderIp(pkt)]
  BY DEF ToRouter
<1>2. pkt \in Packet /\ i \in Interfaces /\ i.link = pkt.link
  BY <1>1 DEF TypeInv, TypeOK, ToRouter, Others
<1>3. SenderIp(pkt) \in Addresses /\ i.router \in Routers
  BY <1>2, SenderIs, NetworkIs DEF TypeInv, TypeOK, ToRouter
<1>4. /\ pkt' \in Packet /\ pkt'.link = i.link /\ pkt'.router = i.router
      /\ pkt'.proto = pkt.proto
  BY <1>1, <1>2, <1>3 DEF Packet
<1> QED
  BY <1>2, <1>4 DEF TypeInv, TypeOK, ToRouter

LEMMA ToHostTypes == ASSUME TypeInv, ToHost PROVE TypeInv'
<1>1. told' \subseteq Icmp
  BY DEF TypeInv, TypeOK, ToHost
<1> QED
  BY <1>1 DEF TypeInv, TypeOK, ToHost, Ends

LEMMA HostUnreachableTypes == ASSUME TypeInv, HostUnreachable PROVE TypeInv'
<1>1. pkt \in Packet /\ "hostUnreachable" \in Errors
  BY DEF TypeInv, TypeOK, HostUnreachable, Errors
<1> QED
  BY <1>1, ErrorTypes DEF HostUnreachable

LEMMA NextTypes == TypeInv /\ [Next]_vars => TypeInv'
<1> SUFFICES ASSUME TypeInv, [Next]_vars PROVE TypeInv'
  OBVIOUS
<1>1. CASE Next
  BY <1>1, ReceiveTypes, ToRouterTypes, ToHostTypes, HostUnreachableTypes DEF Next
<1>2. CASE UNCHANGED vars
  BY <1>2 DEF vars, TypeInv, TypeOK
<1> QED BY <1>1, <1>2

LEMMA Typed == Spec => []TypeInv
BY InitTypes, NextTypes, PTL DEF Spec

(***************************************************************************)
(* Whatever the network, every variable keeps its type: TTLs and checksums *)
(* stay in their width, and a packet is always at an interface of the      *)
(* router that has it.                                                     *)
(***************************************************************************)
THEOREM TypeCorrect == Spec => []TypeOK
BY Typed, PTL DEF TypeInv

(***************************************************************************)
(* Every router of every network looks routes up as the definition says.   *)
(***************************************************************************)
THEOREM Lookup == Spec => []LongestWins
<1>1. TypeOK => LongestWins
  <2> SUFFICES ASSUME TypeOK, NEW r \in Routers, NEW a \in Addresses
               PROVE  Lpm(table[r], a) = Longest(table[r], a)
    BY DEF LongestWins
  <2>1. table[r] \in Seq(Route)
    BY ForwardingAssumption DEF TypeOK
  <2> QED BY <2>1, LpmIsLongest
<1> QED BY <1>1, TypeCorrect, PTL
-----------------------------------------------------------------------------
(***************************************************************************)
(* A valid packet on its way over converged routes: its TTL suffices from  *)
(* the router it has reached, or from the gateway it has been sent to, and *)
(* whoever it has been sent to is there.                                   *)
(***************************************************************************)
Way(p, distance) ==
  IF p.dir = "in" THEN Own(p.router, p.dst) \/ p.ttl > distance[p.router] + 1
  ELSE \/ p.peer = p.dst /\ Others(p) \cup HostAt(p) # {}
       \/ /\ Others(p) # {} /\ HostAt(p) = {}
          /\ \A i \in Others(p) : p.ttl > distance[i.router] + 1
Coming(p) ==
  /\ p \in Packet /\ IsPacketValid(p)
  /\ \E distance \in Distances : Nearer(table, p.dst, distance) /\ Way(p, distance)

(***************************************************************************)
(* What Arrives needs: while the first packet travels it is coming.        *)
(***************************************************************************)
Arrived == {"delivered", "answered", "received", "portUnreachable", "handled"}
MayArrive == Converged /\ Enough /\ Exists(first.dst) /\ Complement(first) # 0
ArriveInv ==
  MayArrive =>
    \/ fate \in Arrived
    \/ fate = "travelling" /\ pkt # Gone /\ pkt.dst = first.dst /\ Coming(pkt)

(***************************************************************************)
(* What SenderIsTold needs: while the first packet travels nothing has     *)
(* been told and a frame comes from its sender or from another router;     *)
(* then the error or the reply is coming, or has come, or there is none.   *)
(***************************************************************************)
FromNear ==
  \/ \E h \in here : h.link = pkt.link /\ h.ip = pkt.peer /\ h.ip = first.src
  \/ \E i \in Interfaces :
       i.link = pkt.link /\ i.ip = pkt.peer /\ i.router # pkt.router
MayBeTold == Converged /\ \E h \in here : h.ip = first.src
Due == Errors \cup {"answered"}
News == IF fate = "answered" THEN "reply" ELSE fate

Travels ==
  /\ fate = "travelling" /\ told = {} /\ pkt # Gone /\ pkt.src = first.src
  /\ pkt.dir = "in" => FromNear
Told == fate \in Due /\ told = {News} /\ pkt = Gone
Tells == /\ fate \in Due /\ told = {} /\ pkt # Gone
         /\ pkt.proto = News /\ pkt.dst = first.src /\ Coming(pkt)
Silent == fate \notin Due \cup {"travelling"} /\ told = {} /\ pkt = Gone
TellInv == MayBeTold => Travels \/ Told \/ Tells \/ Silent

-----------------------------------------------------------------------------
(***************************************************************************)
(* What converged routes do with a packet.                                 *)
(***************************************************************************)
LEMMA Constants == ASSUME Next PROVE UNCHANGED <<stage, table, here, first>>
BY DEF Next, Receive, ForMe, Forward, Ends, ToRouter, ToHost, HostUnreachable

LEMMA ConvergedStays == ASSUME UNCHANGED table PROVE Converged' <=> Converged
BY DEF Converged, NoLoop, Nearer, Direct, Gateways

LEMMA FateStays == ASSUME Next, fate # "travelling" PROVE fate' = fate
BY DEF Next, Receive, ForMe, Forward, Ends, ToRouter, ToHost, HostUnreachable

LEMMA Present == ASSUME TypeOK PROVE here \subseteq Hosts
BY ForwardingAssumption DEF TypeOK

LEMMA DistanceIs ==
  ASSUME NEW distance \in Distances, NEW r \in Routers
  PROVE  /\ distance[r] \in Nat /\ distance[r] + 1 <= Cardinality(Routers)
         /\ Cardinality(Routers) \in Nat
BY NetworkIs DEF Distances

\* A router that is not the one sought has a route, and an interface for it.
LEMMA HasRoute ==
  ASSUME TypeOK, Converged, NEW r \in Routers, NEW a, Exists(a), ~Own(r, a)
  PROVE  /\ a \in Addresses
         /\ Lpm(table[r], a) # NoRoute /\ OutOf(r, Lpm(table[r], a)) # {}
         /\ Direct(table, r, a) \/ Gateways(table, r, a) # {}
<1>1. \E x \in Interfaces \cup Hosts : x.ip = a
  BY Present DEF Exists
<1>2. a \in Addresses
  BY <1>1, NetworkIs
<1>3. Direct(table, r, a) \/ Gateways(table, r, a) # {}
  BY <1>1, <1>2 DEF Converged
<1>4. OutOf(r, Lpm(table[r], a)) # {}
  BY <1>3 DEF Direct, Gateways
<1> QED
  BY <1>2, <1>3, <1>4, Looked DEF TypeOK

\* What leaves a router for an address goes to somebody who is there.
LEMMA OutWay ==
  ASSUME TypeOK, DistinctAddresses, Converged, NEW r \in Routers, NEW a,
         Exists(a), ~Own(r, a),
         NEW distance \in Distances, Nearer(table, a, distance),
         NEW q, Out(q, r, a), q.ttl > distance[r]
  PROVE  Way(q, distance)
<1> DEFINE route == Lpm(table[r], a)
<1>1. /\ Direct(table, r, a) \/ Gateways(table, r, a) # {}
      /\ OutOf(r, route) # {} /\ a \in Addresses
  BY HasRoute
<1>2. /\ q \in Packet /\ q.dir = "out" /\ q.router = r /\ q.dst = a
      /\ q.link = route.link /\ q.peer = HopOf(route, a)
  BY DEF Out, OutOf
<1>3. CASE route.gw = 0
  <2>1. PICK x \in Interfaces \cup Hosts : x.link = route.link /\ x.ip = a
    BY <1>1, <1>3 DEF Direct, Gateways, On
  <2>2. PICK y \in Interfaces \cup here : y.ip = a
    BY DEF Exists
  <2>3. x = y
    BY <2>1, <2>2, Present DEF DistinctAddresses
  <2>4. q.peer = q.dst
    BY <1>2, <1>3 DEF HopOf
  <2>5. CASE y \in Interfaces
    <3>1. y.router # r
      BY <2>2, <2>5 DEF Own
    <3>2. y \in Others(q)
      BY <1>2, <2>1, <2>2, <2>3, <2>4, <2>5, <3>1 DEF Others
    <3> QED BY <1>2, <2>4, <3>2 DEF Way
  <2>6. CASE y \in here
    <3>1. y \in HostAt(q)
      BY <1>2, <2>1, <2>2, <2>3, <2>4, <2>6 DEF HostAt
    <3> QED BY <1>2, <2>4, <3>1 DEF Way
  <2> QED BY <2>2, <2>5, <2>6
<1>4. CASE route.gw # 0
  <2>1. Gateways(table, r, a) =
          {i.router : i \in {x \in Interfaces : x.link = route.link /\ x.ip = route.gw}}
    BY <1>1, <1>4 DEF Gateways
  <2>2. Gateways(table, r, a) # {}
    BY <1>1, <1>4 DEF Direct
  <2>3. q.peer = route.gw
    BY <1>2, <1>4 DEF HopOf
  <2>4. PICK i \in Interfaces : i.link = route.link /\ i.ip = route.gw
    BY <2>1, <2>2
  <2>5. \A j \in Interfaces : j.link = route.link /\ j.ip = route.gw =>
          distance[j.router] < distance[r]
    BY <2>1 DEF Nearer
  <2>6. i \in Others(q)
    <3>1. distance[r] \in Nat /\ i.router # r
      BY <2>4, <2>5, DistanceIs, NetworkIs
    <3> QED BY <1>2, <2>3, <2>4, <3>1 DEF Others
  <2>7. HostAt(q) = {}
    <3> SUFFICES ASSUME NEW h \in HostAt(q) PROVE FALSE
      OBVIOUS
    <3>1. h \in Hosts /\ h.ip = i.ip
      BY <2>3, <2>4, Present DEF HostAt
    <3> QED BY <2>4, <3>1 DEF DistinctAddresses
  <2>8. ASSUME NEW j \in Others(q) PROVE q.ttl > distance[j.router] + 1
    <3>1. distance[j.router] < distance[r] /\ j.router \in Routers
      BY <1>2, <2>3, <2>5, NetworkIs DEF Others
    <3> QED BY <1>2, <3>1, DistanceIs, Packets
  <2> QED BY <1>2, <2>6, <2>7, <2>8 DEF Way
<1> QED
  BY <1>3, <1>4

\* Coming(pkt), said of the packet after a step.
LEMMA ComingStays ==
  ASSUME UNCHANGED <<table, here>>, Coming(pkt')
  PROVE  Coming(pkt)'
BY DEF Coming, Way, HostAt, Others, Nearer, Gateways

(***************************************************************************)
(* A router that a coming packet is not for sends it on, and it comes.     *)
(***************************************************************************)
LEMMA ForwardComes ==
  ASSUME TypeOK, DistinctAddresses, Converged, pkt # Gone, Coming(pkt),
         pkt.dir = "in", Exists(pkt.dst), ~Own(pkt.router, pkt.dst),
         Forward(pkt.router, Decremented(pkt))
  PROVE  /\ pkt' # Gone /\ Coming(pkt') /\ SameTexts(pkt', pkt) /\ pkt'.dir = "out"
         /\ UNCHANGED <<stage, table, here, first, fate>>
<1> DEFINE d == Decremented(pkt)
           r == pkt.router
<1>1. pkt \in Packet /\ r \in Routers
  BY Packets DEF Coming
<1>2. PICK distance \in Distances : Nearer(table, pkt.dst, distance) /\ Way(pkt, distance)
  BY DEF Coming
<1>3. pkt.ttl > distance[r] + 1
  BY <1>2 DEF Way
<1>4. distance[r] \in Nat /\ pkt.ttl \in Nat
  BY <1>1, DistanceIs, Packets
<1>5. /\ d \in Packet /\ d.router = r /\ SameTexts(d, pkt)
      /\ d.ttl = pkt.ttl - 1
  BY <1>1, <1>3, <1>4, DecrementedIs DEF SamePlace
<1> HIDE DEF d
<1>6. d.dst = pkt.dst /\ d.ttl > distance[r] /\ d.ttl >= 1
  BY <1>3, <1>4, <1>5 DEF SameTexts
<1>7. Lpm(table[r], d.dst) # NoRoute /\ OutOf(r, Lpm(table[r], d.dst)) # {}
  BY <1>1, <1>6, HasRoute
<1>8. Refusal(r, d) = "none"
  <2>1. ~(d.ttl < 1) /\ stage \in {"reenvio", "enrutamiento"}
    BY <1>5, <1>6, Packets DEF TypeOK
  <2> QED BY <1>7, <2>1 DEF Refusal
<1>9. pkt' # Gone
  <2>1. PICK i \in OutOf(r, Lpm(table[r], d.dst)) :
          pkt' = Sent(Updated(d), i, HopOf(Lpm(table[r], d.dst), d.dst))
    BY <1>7, <1>8 DEF Forward, d
  <2>2. i \in Interfaces /\ HopOf(Lpm(table[r], d.dst), d.dst) \in Addresses
    BY <1>1, <1>5, Looked, Packets DEF TypeOK
  <2>3. Updated(d) \in Packet
    BY <1>5, SummedIs DEF Updated
  <2>4. pkt' \in Packet
    BY <2>1, <2>2, <2>3, SentIs
  <2> QED BY <2>4, Packets
<1>10. /\ Out(pkt', r, d.dst) /\ SameTexts(pkt', d) /\ pkt'.ttl = d.ttl
       /\ UNCHANGED <<stage, table, here, first, fate>>
  BY <1>5, <1>8, <1>9, ForwardedIs DEF d
<1>11. Way(pkt', distance)
  BY <1>1, <1>2, <1>6, <1>10, OutWay
<1> QED
  BY <1>2, <1>5, <1>6, <1>9, <1>10, <1>11 DEF Coming, Out, SameTexts

\* A coming packet that a router takes in is still coming.
LEMMA RouterComes ==
  ASSUME pkt # Gone, Coming(pkt), ToRouter, TypeOK
  PROVE  /\ pkt' # Gone /\ Coming(pkt') /\ SameTexts(pkt', pkt)
         /\ UNCHANGED <<stage, table, here, first, fate, told>>
<1>1. PICK i \in Others(pkt) :
        pkt' = [pkt EXCEPT !.dir = "in", !.router = i.router, !.peer = SenderIp(pkt)]
  BY DEF ToRouter
<1>2. PICK distance \in Distances : Nearer(table, pkt.dst, distance) /\ Way(pkt, distance)
  BY DEF Coming
<1>3. pkt \in Packet /\ pkt.dir = "out" /\ IsPacketValid(pkt)
  BY DEF Coming, ToRouter
<1>4. i \in Interfaces /\ i.router \in Routers /\ SenderIp(pkt) \in Addresses
  BY SenderIs, NetworkIs DEF TypeOK, Others
<1>5. /\ pkt' \in Packet /\ SameTexts(pkt', pkt) /\ pkt'.dir = "in"
      /\ pkt'.router = i.router /\ pkt'.ttl = pkt.ttl /\ pkt'.sum = pkt.sum
  BY <1>1, <1>3, <1>4 DEF Packet, SameTexts
<1>6. IsPacketValid(pkt')
  BY <1>3, <1>5 DEF IsPacketValid, Cksum, Complement, SameTexts
<1>7. Way(pkt', distance)
  BY <1>2, <1>3, <1>4, <1>5 DEF Way, Others, Own, SameTexts
<1> QED
  BY <1>2, <1>5, <1>6, <1>7, Packets DEF Coming, ToRouter, SameTexts

\* Somebody takes a coming packet in: its hop, or the host it is for.
LEMMA HopComes ==
  ASSUME Coming(pkt), pkt.dir = "out"
  PROVE  /\ Others(pkt) \cup HostAt(pkt) # {}
         /\ HostAt(pkt) # {} => pkt.peer = pkt.dst
BY DEF Coming, Way

-----------------------------------------------------------------------------
(***************************************************************************)
(* Arrives.                                                                *)
(***************************************************************************)
LEMMA ArriveInit == Init /\ TypeOK => ArriveInv
<1> SUFFICES ASSUME Init, TypeOK, MayArrive
             PROVE  fate = "travelling" /\ pkt # Gone /\ pkt.dst = first.dst /\ Coming(pkt)
  BY DEF ArriveInv
<1>1. /\ pkt.src = first.src /\ pkt.dst = first.dst /\ pkt.ttl = first.ttl
      /\ pkt.dir = "in" /\ pkt.sum = Complement(pkt) /\ pkt \in Packet
  <2>1. /\ pkt.src = first.src /\ pkt.dst = first.dst /\ pkt.ttl = first.ttl
        /\ pkt.dir = "in" /\ pkt.sum = Complement(pkt)
    BY DEF Init, Complement
  <2>2. pkt # Gone
    BY DEF Init, Gone
  <2> QED BY <2>1, <2>2 DEF TypeOK
<1>2. Complement(pkt) = Complement(first)
  BY <1>1 DEF Complement
<1>3. IsPacketValid(pkt)
  BY <1>1, <1>2 DEF MayArrive, IsPacketValid, Cksum
<1>4. pkt.dst \in Addresses /\ pkt.router \in Routers
  BY <1>1, Packets
<1>5. PICK distance \in Distances : Nearer(table, pkt.dst, distance)
  BY <1>4 DEF MayArrive, Converged, NoLoop
<1>6. pkt.ttl > distance[pkt.router] + 1
  BY <1>1, <1>4, DistanceIs, Packets DEF MayArrive, Enough
<1> QED
  BY <1>1, <1>3, <1>5, <1>6, Packets DEF Coming, Way, Init

LEMMA ArriveStep ==
  ASSUME DistinctAddresses, TypeOK, ArriveInv, Next
  PROVE  ArriveInv'
<1> SUFFICES ASSUME MayArrive'
             PROVE  \/ fate' \in Arrived
                    \/ /\ fate' = "travelling" /\ pkt' # Gone
                       /\ pkt'.dst = first'.dst /\ Coming(pkt)'
  BY DEF ArriveInv, Arrived
<1>1. UNCHANGED <<stage, table, here, first>>
  BY Constants
<1>2. MayArrive
  BY <1>1, ConvergedStays DEF MayArrive, Enough, Exists
<1>3. CASE fate \in Arrived
  BY <1>3, FateStays DEF Arrived
<1>4. CASE fate = "travelling" /\ pkt # Gone /\ pkt.dst = first.dst /\ Coming(pkt)
  <2>1. Exists(pkt.dst) /\ Converged
    BY <1>2, <1>4 DEF MayArrive
  <2>2. CASE Receive
    <3>1. CASE HandledHere(pkt.router, pkt) /\ Ends("handled")
      BY <1>4, <3>1 DEF Ends, Arrived
    <3>2. CASE ForMe(pkt.router, pkt)
      BY <1>4, <3>2 DEF ForMe, Ends, Arrived
    <3>3. CASE ~Own(pkt.router, pkt.dst) /\ Forward(pkt.router, Decremented(pkt))
      <4>1. /\ pkt' # Gone /\ Coming(pkt') /\ SameTexts(pkt', pkt)
            /\ UNCHANGED <<stage, table, here, first, fate>>
        BY <1>4, <2>1, <2>2, <3>3, ForwardComes DEF Receive
      <4> QED BY <1>4, <4>1, ComingStays DEF SameTexts
    <3> QED BY <1>4, <2>2, <3>1, <3>2, <3>3 DEF Receive, Coming
  <2>3. CASE ToRouter
    <3>1. /\ pkt' # Gone /\ Coming(pkt') /\ SameTexts(pkt', pkt)
          /\ UNCHANGED <<stage, table, here, first, fate, told>>
      BY <1>4, <2>3, RouterComes
    <3> QED BY <1>4, <3>1, ComingStays DEF SameTexts
  <2>4. CASE ToHost
    BY <1>4, <2>4, HopComes DEF ToHost, Ends, Arrived
  <2>5. CASE HostUnreachable
    BY <1>4, <2>5, HopComes DEF HostUnreachable
  <2> QED BY <2>2, <2>3, <2>4, <2>5 DEF Next
<1> QED
  BY <1>2, <1>3, <1>4 DEF ArriveInv

(***************************************************************************)
(* In every network whose addresses are distinct, over every converged set *)
(* of routing tables, a packet with a TTL above the number of routers      *)
(* arrives: no handler loses it, and nothing on the way is unreachable.    *)
(***************************************************************************)
THEOREM AllArrive == DistinctAddresses /\ Spec => []Arrives
<1>1. DistinctAddresses /\ Init => ArriveInv
  BY ArriveInit, InitTypes DEF TypeInv
<1>2. DistinctAddresses /\ TypeOK /\ ArriveInv /\ [Next]_vars => ArriveInv'
  <2> SUFFICES ASSUME DistinctAddresses, TypeOK, ArriveInv, [Next]_vars
               PROVE  ArriveInv'
    OBVIOUS
  <2>1. CASE Next
    BY <2>1, ArriveStep
  <2>2. CASE UNCHANGED vars
    <3>1. ArriveInv' <=> ArriveInv
      BY <2>2, ConvergedStays DEF vars, ArriveInv, MayArrive, Enough, Exists,
                                  Coming, Way, HostAt
    <3> QED BY <3>1
  <2> QED BY <2>1, <2>2
<1>3. ArriveInv => Arrives
  BY DEF ArriveInv, Arrives, MayArrive, Arrived
<1>4. SUFFICES ASSUME DistinctAddresses PROVE Spec => []Arrives
  OBVIOUS
<1> QED
  BY <1>1, <1>2, <1>3, <1>4, TypeCorrect, PTL DEF Spec

-----------------------------------------------------------------------------
(***************************************************************************)
(* SenderIsTold.                                                           *)
(***************************************************************************)
LEMMA SenderHost ==
  ASSUME TypeOK, DistinctAddresses, MayBeTold
  PROVE  /\ Exists(first.src) /\ first.src \in Addresses /\ Converged
         /\ \A i \in Interfaces : i.ip # first.src
         /\ \A r \in Routers : ~Own(r, first.src)
         /\ \A h \in Interfaces \cup Hosts : h.ip = first.src => h \in here
<1>1. PICK g \in here : g.ip = first.src
  BY DEF MayBeTold
<1>2. g \in Hosts
  BY <1>1, Present
<1>3. \A h \in Interfaces \cup Hosts : h.ip = first.src => h = g
  BY <1>1, <1>2 DEF DistinctAddresses
<1>4. \A i \in Interfaces : i.ip # first.src
  BY <1>2, <1>3 DEF DistinctAddresses
<1> QED
  BY <1>1, <1>2, <1>3, <1>4, NetworkIs DEF Exists, Own, MayBeTold

\* An error to that host is sent, and comes.
LEMMA ErrorComes ==
  ASSUME TypeOK, DistinctAddresses, MayBeTold, IcmpTtl > Cardinality(Routers),
         NEW p \in Packet, p.src = first.src, NEW error \in Errors,
         SendIcmpError(p.router, p, error)
  PROVE  /\ pkt' # Gone /\ Coming(pkt') /\ pkt'.dst = first.src
         /\ pkt'.proto = error /\ pkt'.dir = "out"
<1> DEFINE r == p.router
           route == Lpm(table[r], p.src)
<1>1. r \in Routers /\ p.src \in Addresses
  BY Packets
<1>2. /\ Converged /\ Exists(p.src) /\ ~Own(r, p.src)
  BY <1>1, SenderHost
<1>3. route # NoRoute /\ OutOf(r, route) # {}
  BY <1>1, <1>2, HasRoute
<1>4. ~Mine(r, p)
  BY <1>2 DEF Mine
<1>5. pkt' # Gone
  <2>1. PICK i \in OutOf(r, route) :
          pkt' = Sent(Summed([p EXCEPT !.src = i.ip, !.dst = p.src,
                                       !.ttl = IcmpTtl, !.proto = error]),
                      i, HopOf(route, p.src))
    BY <1>3, <1>4 DEF SendIcmpError
  <2> DEFINE q == [p EXCEPT !.src = i.ip, !.dst = p.src, !.ttl = IcmpTtl, !.proto = error]
  <2>2. i \in Interfaces /\ HopOf(route, p.src) \in Addresses /\ i.ip \in Addresses
    BY <1>1, Looked, NetworkIs DEF TypeOK
  <2>3. error \in Protocols /\ IcmpTtl \in 0 .. TtlLimit - 1
    BY ForwardingAssumption DEF Protocols, Icmp
  <2>4. q \in Packet
    BY <1>1, <2>2, <2>3 DEF Packet
  <2> HIDE DEF q
  <2>5. Summed(q) \in Packet
    BY <2>4, SummedIs
  <2> HIDE DEF route
  <2>6. pkt' \in Packet
    BY <2>1, <2>2, <2>5, SentIs DEF q
  <2> QED BY <2>6, Packets
<1>6. Out(pkt', r, p.src) /\ pkt'.proto = error /\ pkt'.ttl = IcmpTtl
  BY <1>5, ErrorIs
<1>7. PICK distance \in Distances : Nearer(table, p.src, distance)
  BY <1>1, <1>2 DEF Converged, NoLoop
<1>8. pkt'.ttl > distance[r]
  BY <1>1, <1>6, DistanceIs, ForwardingAssumption
<1>9. Way(pkt', distance)
  BY <1>1, <1>2, <1>6, <1>7, <1>8, OutWay
<1> QED
  BY <1>5, <1>6, <1>7, <1>9 DEF Out, Coming

\* So does the reply, to whoever the frame came from.
LEMMA ReplyComes ==
  ASSUME TypeOK, DistinctAddresses, MayBeTold, IcmpTtl > Cardinality(Routers),
         pkt # Gone, pkt.src = first.src, FromNear, pkt' = EchoReply(pkt)
  PROVE  /\ pkt' # Gone /\ Coming(pkt') /\ pkt'.dst = first.src
         /\ pkt'.proto = "reply" /\ pkt'.dir = "out"
<1>1. pkt \in Packet
  BY DEF TypeOK
<1>2. /\ pkt' \in Packet /\ IsPacketValid(pkt')
      /\ pkt'.dst = first.src /\ pkt'.proto = "reply" /\ pkt'.ttl = IcmpTtl
      /\ pkt'.dir = "out" /\ pkt'.link = pkt.link /\ pkt'.router = pkt.router
      /\ pkt'.peer = pkt.peer
  BY <1>1, ReplyIs
<1>3. PICK distance \in Distances : Nearer(table, pkt'.dst, distance)
  BY <1>2, SenderHost DEF Converged, NoLoop
<1>4. CASE \E h \in here : h.link = pkt.link /\ h.ip = pkt.peer /\ h.ip = first.src
  <2>1. HostAt(pkt') # {} /\ pkt'.peer = pkt'.dst
    BY <1>2, <1>4 DEF HostAt
  <2> QED BY <1>2, <1>3, <2>1, Packets DEF Coming, Way
<1>5. CASE \E i \in Interfaces :
             i.link = pkt.link /\ i.ip = pkt.peer /\ i.router # pkt.router
  <2>1. PICK i \in Interfaces :
          i.link = pkt.link /\ i.ip = pkt.peer /\ i.router # pkt.router
    BY <1>5
  <2>2. i \in Others(pkt')
    BY <1>2, <2>1 DEF Others
  <2>3. HostAt(pkt') = {}
    <3> SUFFICES ASSUME NEW h \in HostAt(pkt') PROVE FALSE
      OBVIOUS
    <3>1. h \in Hosts /\ h.ip = i.ip
      BY <1>2, <2>1, Present DEF HostAt
    <3> QED BY <2>1, <3>1 DEF DistinctAddresses
  <2>4. ASSUME NEW j \in Others(pkt') PROVE pkt'.ttl > distance[j.router] + 1
    <3>1. j.router \in Routers
      BY NetworkIs DEF Others
    <3> QED BY <1>2, <3>1, DistanceIs, ForwardingAssumption
  <2>5. Way(pkt', distance)
    BY <1>2, <2>2, <2>3, <2>4 DEF Way
  <2> QED BY <1>2, <1>3, <2>5, Packets DEF Coming
<1> QED
  BY <1>4, <1>5 DEF FromNear

LEMMA TellInit == DistinctAddresses /\ Init /\ TypeOK => TellInv
<1> SUFFICES ASSUME DistinctAddresses, Init, TypeOK, MayBeTold PROVE Travels
  BY DEF TellInv
<1>1. PICK i \in Interfaces, h \in Hosts \cup Interfaces :
        /\ h.ip = first.src /\ h.link = i.link
        /\ pkt.src = first.src /\ pkt.link = i.link /\ pkt.peer = h.ip
  BY DEF Init, Complement
<1>2. h \in here
  BY <1>1, SenderHost
<1>3. pkt # Gone
  BY DEF Init, Gone
<1> QED
  BY <1>1, <1>2, <1>3 DEF Init, Travels, FromNear

\* While the first packet travels.
LEMMA TravelsStep ==
  ASSUME DistinctAddresses, IcmpTtl > Cardinality(Routers), TypeOK, MayBeTold,
         Travels, Next
  PROVE  (Travels \/ Tells \/ Silent)'
<1>1. /\ pkt \in Packet /\ pkt.src = first.src /\ fate = "travelling" /\ told = {}
      /\ UNCHANGED <<stage, table, here, first>>
  BY Constants DEF TypeOK, Travels
<1>2. ASSUME NEW error \in Errors, NEW p \in Packet, p.src = pkt.src,
             SendIcmpError(p.router, p, error), Ends(error), UNCHANGED told
      PROVE  Tells'
  <2>1. /\ pkt' # Gone /\ Coming(pkt') /\ pkt'.dst = first.src
        /\ pkt'.proto = error
    BY <1>1, <1>2, ErrorComes
  <2>2. fate' = error /\ error # "answered"
    BY <1>1, <1>2 DEF Ends, Errors
  <2> QED BY <1>1, <1>2, <2>1, <2>2, ComingStays DEF Tells, Due, News
<1>3. ASSUME pkt' = Gone, NEW what, Ends(what), UNCHANGED told,
             what \in {"invalid", "handled", "received", "noInterface"}
      PROVE  Silent'
  BY <1>1, <1>3 DEF Silent, Ends, Due, Errors
<1>4. CASE Receive
  <2>1. CASE ForMe(pkt.router, pkt)
    <3>1. CASE pkt' = EchoReply(pkt) /\ Ends("answered")
      <4>1. FromNear
        BY <1>4 DEF Travels, Receive
      <4>2. /\ pkt' # Gone /\ Coming(pkt') /\ pkt'.dst = first.src
            /\ pkt'.proto = "reply"
        BY <1>1, <3>1, <4>1, ReplyComes DEF Travels
      <4>3. fate' = "answered" /\ told' = {}
        BY <1>1, <1>4, <3>1 DEF Ends, Receive
      <4> QED BY <1>1, <4>2, <4>3, ComingStays DEF Tells, Due, News
    <3>2. CASE pkt' = Gone /\ Ends("received")
      BY <1>3, <1>4, <3>2 DEF Receive
    <3>3. CASE SendIcmpError(pkt.router, pkt, "portUnreachable") /\ Ends("portUnreachable")
      BY <1>1, <1>2, <1>4, <3>3 DEF Receive, Errors
    <3> QED BY <2>1, <3>1, <3>2, <3>3 DEF ForMe
  <2>2. CASE Forward(pkt.router, Decremented(pkt))
    <3> DEFINE p == Decremented(pkt)
    <3>1. p \in Packet /\ p.router = pkt.router /\ SameTexts(p, pkt)
      BY <1>1, DecrementedIs DEF SamePlace
    <3>2. UNCHANGED told
      BY <1>4 DEF Receive
    <3> HIDE DEF p
    <3>3. CASE Refusal(pkt.router, p) # "none"
      <4>1. /\ SendIcmpError(pkt.router, p, Refusal(pkt.router, p))
            /\ Ends(Refusal(pkt.router, p))
        BY <2>2, <3>3 DEF Forward, p
      <4> QED BY <1>2, <3>1, <3>2, <3>3, <4>1, RefusalIs DEF SameTexts
    <3>4. CASE pkt' = Gone /\ Ends("noInterface")
      BY <1>3, <3>2, <3>4
    <3>5. CASE Refusal(pkt.router, p) = "none" /\ ~(pkt' = Gone /\ Ends("noInterface"))
      <4>1. pkt' # Gone
        <5>1. PICK i \in OutOf(p.router, Lpm(table[p.router], p.dst)) :
                pkt' = Sent(Updated(p), i, HopOf(Lpm(table[p.router], p.dst), p.dst))
          BY <2>2, <3>1, <3>5 DEF Forward, p
        <5>2. i \in Interfaces /\ HopOf(Lpm(table[p.router], p.dst), p.dst) \in Addresses
          BY <3>1, Looked, Packets DEF TypeOK
        <5>3. Updated(p) \in Packet
          BY <3>1, SummedIs DEF Updated
        <5>4. pkt' \in Packet
          BY <5>1, <5>2, <5>3, SentIs
        <5> QED BY <5>4, Packets
      <4>2. /\ Out(pkt', p.router, p.dst) /\ SameTexts(pkt', p)
            /\ UNCHANGED <<stage, table, here, first, fate>>
        BY <2>2, <3>1, <3>5, <4>1, ForwardedIs DEF p
      <4> QED BY <1>1, <3>1, <3>2, <4>1, <4>2 DEF Travels, Out, SameTexts
    <3> QED BY <3>3, <3>4, <3>5
  <2> QED BY <1>3, <1>4, <2>1, <2>2 DEF Receive
<1>5. CASE ToRouter
  <2>1. PICK i \in Others(pkt) :
          pkt' = [pkt EXCEPT !.dir = "in", !.router = i.router, !.peer = SenderIp(pkt)]
    BY <1>5 DEF ToRouter
  <2>2. PICK j \in Interfaces :
          j.router = pkt.router /\ j.link = pkt.link /\ SenderIp(pkt) = j.ip
    BY SenderIs DEF TypeOK, Travels
  <2>3. i.router # pkt.router /\ i.router \in Routers /\ j.ip \in Addresses
    BY NetworkIs DEF Others
  <2>4. /\ pkt'.src = pkt.src /\ pkt'.link = pkt.link
        /\ pkt'.router = i.router /\ pkt'.peer = j.ip /\ pkt' \in Packet
    BY <1>1, <2>1, <2>2, <2>3 DEF Packet
  <2>5. FromNear'
    BY <1>1, <2>2, <2>3, <2>4 DEF FromNear
  <2> QED BY <1>1, <1>5, <2>4, <2>5, Packets DEF Travels, ToRouter
<1>6. CASE ToHost
  BY <1>1, <1>6 DEF ToHost, Silent, Ends, Due, Errors
<1>7. CASE HostUnreachable
  <2>1. "hostUnreachable" \in Errors
    BY DEF Errors
  <2> QED BY <1>1, <1>2, <1>7, <2>1 DEF HostUnreachable
<1> QED
  BY <1>4, <1>5, <1>6, <1>7 DEF Next

\* While the error or the reply is on its way.
LEMMA TellsStep ==
  ASSUME DistinctAddresses, TypeOK, MayBeTold, Tells, Next
  PROVE  (Told \/ Tells)'
<1>1. /\ UNCHANGED <<stage, table, here, first, fate>> /\ News' = News
      /\ pkt.dst = first.src /\ pkt # Gone /\ Coming(pkt) /\ pkt.router \in Routers
  BY Constants, FateStays, Packets DEF Tells, Due, Errors, News, Coming
<1>2. Exists(pkt.dst) /\ Converged /\ ~Own(pkt.router, pkt.dst)
  BY <1>1, SenderHost
<1>3. CASE Receive
  <2>1. pkt.proto # "ospf"
    BY DEF Tells, News, Due, Errors
  <2>2. Forward(pkt.router, Decremented(pkt))
    BY <1>1, <1>2, <1>3, <2>1 DEF Receive, HandledHere, ForMe, Coming
  <2>3. pkt' # Gone /\ Coming(pkt') /\ SameTexts(pkt', pkt)
    BY <1>1, <1>2, <1>3, <2>2, ForwardComes DEF Receive
  <2> QED BY <1>1, <1>3, <2>3, ComingStays DEF Tells, Receive, SameTexts
<1>4. CASE ToRouter
  <2>1. pkt' # Gone /\ Coming(pkt') /\ SameTexts(pkt', pkt) /\ UNCHANGED told
    BY <1>1, <1>4, RouterComes
  <2> QED BY <1>1, <2>1, ComingStays DEF Tells, SameTexts
<1>5. CASE ToHost
  <2>1. pkt.peer = first.src
    BY <1>1, <1>5, HopComes DEF ToHost
  <2>2. told' = {News} /\ pkt' = Gone
    BY <1>5, <2>1 DEF ToHost, Tells, Due, Errors
  <2> QED BY <1>1, <2>2 DEF Told, Tells
<1>6. CASE HostUnreachable
  BY <1>1, <1>6, HopComes DEF HostUnreachable
<1> QED
  BY <1>3, <1>4, <1>5, <1>6 DEF Next

LEMMA TellStep ==
  ASSUME DistinctAddresses, IcmpTtl > Cardinality(Routers), TypeOK, TellInv, Next
  PROVE  TellInv'
<1> SUFFICES ASSUME MayBeTold' PROVE (Travels \/ Told \/ Tells \/ Silent)'
  BY DEF TellInv
<1>1. MayBeTold
  BY Constants, ConvergedStays DEF MayBeTold
<1>2. pkt # Gone
  BY DEF Next, Receive, ToRouter, ToHost, HostUnreachable
<1>3. Travels \/ Tells
  BY <1>1, <1>2 DEF TellInv, Told, Silent
<1>4. CASE Travels
  BY <1>1, <1>4, TravelsStep
<1>5. CASE Tells
  BY <1>1, <1>5, TellsStep
<1> QED BY <1>3, <1>4, <1>5

(***************************************************************************)
(* In every network whose addresses are distinct and whose routers are     *)
(* fewer than the TTL of an error, over every converged set of routing     *)
(* tables, the sender of a packet hears of it once it is over: the one     *)
(* error there was, the reply to its echo request, or nothing.             *)
(***************************************************************************)
THEOREM SendersAreTold ==
  DistinctAddresses /\ IcmpTtl > Cardinality(Routers) /\ Spec => []SenderIsTold
<1> SUFFICES ASSUME DistinctAddresses, IcmpTtl > Cardinality(Routers)
             PROVE  Spec => []SenderIsTold
  OBVIOUS
<1>1. Init => TellInv
  BY TellInit, InitTypes DEF TypeInv
<1>2. TypeOK /\ TellInv /\ [Next]_vars => TellInv'
  <2> SUFFICES ASSUME TypeOK, TellInv, [Next]_vars PROVE TellInv'
    OBVIOUS
  <2>1. CASE Next
    BY <2>1, TellStep
  <2>2. CASE UNCHANGED vars
    <3>1. TellInv' <=> TellInv
      BY <2>2, ConvergedStays DEF vars, TellInv, MayBeTold, Travels, Told, Tells,
                                  Silent, News, FromNear, Coming, Way, HostAt
    <3> QED BY <3>1
  <2> QED BY <2>1, <2>2
<1>3. TellInv => SenderIsTold
  <2> SUFFICES ASSUME TellInv, pkt = Gone, MayBeTold
               PROVE  told = IF fate = "answered" THEN {"reply"} ELSE {fate} \cap Errors
    BY DEF SenderIsTold, MayBeTold
  <2> QED BY DEF TellInv, Travels, Told, Tells, Silent, News, Due, Errors
<1> QED
  BY <1>1, <1>2, <1>3, TypeCorrect, PTL DEF Spec

-----------------------------------------------------------------------------
(***************************************************************************)
(* JsonRpc.                                                                *)
(***************************************************************************)

\* The client of connection k has it open and still pieces to send on it.
Sending(k) == client[k[1]].at = "send" /\ client[k[1]].id_counter = k[2] + 1
Left(k) == IF Sending(k) THEN Pieces(request[k]) - client[k[1]].sent ELSE 0

(***************************************************************************)
(* The pieces of a request are counted: until its answer there are never   *)
(* more of them than it has, and afterwards there are none.                *)
(***************************************************************************)
Unused(k) ==
  k[2] >= client[k[1]].id_counter =>
    handler[k] = "none" /\ answer[k] = "none" /\ up[k] = 0 /\ got[k] = 0
Pending(k) ==
  answer[k] = "none" =>
    /\ ran[k] = 0 /\ handler[k] # "send"
    /\ got[k] + up[k] + Left(k) <= Pieces(request[k])
    /\ handler[k] = "request" => got[k] = Pieces(request[k])
    /\ Sending(k) => client[k[1]].sent < Pieces(request[k])
Done(k) ==
  answer[k] # "none" =>
    /\ up[k] = 0 /\ ~Sending(k) /\ handler[k] # "request"
    /\ handler[k] # "none" /\ (handler[k] = "recv" => got[k] = 0)
    /\ ran[k] <= 1 /\ (answer[k] = "result" => ran[k] = 1)
Counted == \A k \in Conns : Unused(k) /\ Pending(k) /\ Done(k)

\* What a client knows of its last connection.
Posted ==
  \A c \in Clients :
    /\ client[c].at \in {"send", "wait"} => Current(c) \in Conns
    /\ client[c].outcome = "result" =>
         Current(c) \in Conns /\ answer[Current(c)] = "result"

(***************************************************************************)
(* Connections that wait have no handler and wait once; each handler is in *)
(* the list or about to be; those that shutdown has joined have ended.     *)
(***************************************************************************)
Fresh(k) == handler[k] = "none" /\ k[2] < client[k[1]].id_counter
Waiting ==
  /\ \A i \in 1 .. Len(backlog) : Fresh(backlog[i])
  /\ \A i, j \in 1 .. Len(backlog) : backlog[i] = backlog[j] => i = j
  /\ serving = "thread" =>
       Fresh(taken) /\ \A i \in 1 .. Len(backlog) : backlog[i] # taken
  /\ serving \in {"thread", "append"} => taken \in Conns
Joined ==
  /\ joined <= Len(threads)
  /\ \A i \in 1 .. joined : handler[threads[i]] = "ended"
  /\ \A k \in Conns :
       /\ handler[k] # "none" =>
            \/ k = taken /\ serving = "append"
            \/ \E i \in 1 .. Len(threads) : threads[i] = k
       /\ handler[k] = "cut" => main = "gone" /\ k = taken

IInv == RpcTypeOK /\ Counted /\ Posted /\ Waiting /\ Joined
-----------------------------------------------------------------------------
\* A connection is a client and a number.
LEMMA ConnParts ==
  /\ \A k \in Conns : k[1] \in Clients /\ k[2] \in Nat \ {0} /\ k = <<k[1], k[2]>>
  /\ \A c \in Clients, n \in Nat :
       <<c, n>>[1] = c /\ <<c, n>>[2] = n
<1>1. ASSUME NEW k \in Conns
      PROVE  k[1] \in Clients /\ k[2] \in Nat \ {0} /\ k = <<k[1], k[2]>>
  <2>1. PICK c \in Clients : k \in {c} \X (1 .. MaxCalls[c])
    BY DEF Conns
  <2> QED  BY <2>1, JsonRpcAssumption
<1> QED  BY <1>1

\* The last connection of a client is the only one it may be sending on.
LEMMA CurrentIs ==
  ASSUME RpcTypeOK, NEW c \in Clients, Current(c) \in Conns
  PROVE  /\ Current(c)[1] = c /\ Current(c)[2] = client[c].id_counter - 1
         /\ \A k \in Conns : k[1] = c /\ client[c].id_counter = k[2] + 1 => k = Current(c)
BY ConnParts, SMTT(20) DEF RpcTypeOK, Current

\* TypeOK, by elements.
LEMMA Types ==
  ASSUME RpcTypeOK
  PROVE  /\ \A k \in Conns : up[k] \in Nat /\ got[k] \in Nat
         /\ \A c \in Clients : client[c].id_counter \in Nat /\ client[c].sent \in 0 .. 1
         /\ Len(threads) \in Nat /\ \A i \in 1 .. Len(threads) : threads[i] \in Conns
         /\ Len(backlog) \in Nat /\ \A i \in 1 .. Len(backlog) : backlog[i] \in Conns
         /\ joined \in Nat
<1>1. client \in [Clients -> ClientState]
  BY DEF RpcTypeOK
<1>2. \A c \in Clients : client[c].id_counter \in Nat /\ client[c].sent \in 0 .. 1
  BY <1>1 DEF ClientState
<1>3. up \in [Conns -> Nat] /\ got \in [Conns -> Nat]
  BY DEF RpcTypeOK
<1>4. threads \in Seq(Conns) /\ backlog \in Seq(Conns) /\ joined \in 0 .. Len(threads)
  BY DEF RpcTypeOK
<1> QED  BY <1>2, <1>3, <1>4

\* The handler of one connection moves.
LEMMA HandlerWritten ==
  ASSUME RpcTypeOK, NEW k \in Conns, NEW v
  PROVE  \A j \in Conns : [handler EXCEPT ![k] = v][j] = IF j = k THEN v ELSE handler[j]
<1>1. handler \in [Conns -> {"none", "recv", "request", "send", "ended", "cut"}]
  BY DEF RpcTypeOK
<1> QED  BY <1>1

\* What is no call counts as a request, of one piece.
LEMMA NoCallIs == NoCall \in Requests
BY DEF Requests

\* A request is short or long.
LEMMA PiecesAre == \A q : Pieces(q) \in {1, 2}
BY DEF Pieces

-----------------------------------------------------------------------------
\* Every invariant holds at the start.
LEMMA InitHolds == RpcInit => IInv
<1> SUFFICES ASSUME RpcInit PROVE IInv
  OBVIOUS
<1> USE DEF RpcInit
<1>1. RpcTypeOK
  <2>1. request \in [Conns -> Requests]
    BY NoCallIs
  <2>2. threads \in Seq(Conns) /\ backlog \in Seq(Conns) /\ joined \in 0 .. Len(threads)
    OBVIOUS
  <2>3. client \in [Clients -> ClientState]
    BY DEF Outcomes, ClientState
  <2> QED  BY <2>1, <2>2, <2>3 DEF RpcTypeOK, Outcomes
<1>2. Counted
  <2> SUFFICES ASSUME NEW k \in Conns PROVE Unused(k) /\ Pending(k) /\ Done(k)
    BY DEF Counted
  <2>1. /\ handler[k] = "none" /\ answer[k] = "none" /\ ran[k] = 0
        /\ up[k] = 0 /\ got[k] = 0 /\ Pieces(request[k]) \in {1, 2}
    BY PiecesAre
  <2>2. ~Sending(k)
    BY ConnParts DEF Sending
  <2> QED  BY <2>1, <2>2 DEF Unused, Pending, Done, Left
<1>3. Posted
  BY DEF Posted
<1>4. Waiting /\ Joined
  BY DEF Waiting, Joined
<1> QED  BY <1>1, <1>2, <1>3, <1>4 DEF IInv
-----------------------------------------------------------------------------
\* The steps of serve but the start of a thread: pieces are as they were.
LEMMA ServerKeeps == IInv /\ ServerStep => IInv'
<1> SUFFICES ASSUME IInv, ServerStep PROVE IInv'
  OBVIOUS
<1> USE DEF IInv
<1>0. UNCHANGED <<mainVars, handler, got, wire, request, answer, ran, client>>
  BY DEF ServerStep
<1>1. RpcTypeOK'
  <2>1. CASE Open \/ Run \/ Loop \/ AcceptFails
    BY <1>0, <2>1 DEF RpcTypeOK, Open, Run, Loop, AcceptFails, Serve, mainVars, wire
  <2>2. CASE Accept
    <3>1. backlog \in Seq(Conns) /\ backlog # <<>>
      BY <2>2 DEF RpcTypeOK, Accept
    <3>2. Head(backlog) \in Conns /\ Tail(backlog) \in Seq(Conns)
      BY <3>1
    <3> QED  BY <1>0, <2>2, <3>2 DEF RpcTypeOK, Accept, Serve, mainVars, wire
  <2>3. CASE Append_
    BY <1>0, <2>3, SMTT(20)
    DEF RpcTypeOK, Waiting, Append_, Serve, mainVars, wire
  <2> QED  BY <2>1, <2>2, <2>3 DEF ServerStep
<1>2. Counted' /\ Posted'
  BY <1>0 DEF Counted, Unused, Pending, Done, Left, Sending, Posted, Current, wire
<1>3. Waiting' /\ Joined'
  <2>1. CASE Open \/ Run \/ Loop \/ AcceptFails
    <3>1. /\ UNCHANGED <<backlog, threads, taken, handler, client, joined, main>>
          /\ serving \notin {"thread", "append"} /\ serving' \notin {"thread", "append"}
      BY <1>0, <2>1 DEF Open, Run, Loop, AcceptFails, Serve, mainVars
    <3> QED  BY <3>1 DEF Waiting, Joined, Fresh
  <2>2. CASE Accept
    <3> USE <1>0, <2>2 DEF Accept, Serve, mainVars
    <3>1. /\ taken' = backlog[1] /\ Len(backlog') = Len(backlog) - 1
          /\ Len(backlog) \in Nat \ {0} /\ taken' \in Conns
          /\ \A i \in 1 .. Len(backlog') : backlog'[i] = backlog[i + 1]
      BY DEF RpcTypeOK
    <3>2. Waiting'
      BY <3>1 DEF Waiting, Fresh
    <3>3. Joined'
      <4>1. main # "gone" /\ serving # "append"
        BY DEF Alive
      <4> QED  BY <4>1 DEF Joined
    <3> QED  BY <3>2, <3>3
  <2>3. CASE Append_
    <3> USE <1>0, <2>3 DEF Append_, Serve, mainVars
    <3>1. /\ Len(threads') = Len(threads) + 1 /\ Len(threads) \in Nat
          /\ threads'[Len(threads) + 1] = taken
          /\ \A i \in 1 .. Len(threads) : threads'[i] = threads[i]
      BY DEF RpcTypeOK, Waiting
    <3>2. Waiting'
      BY DEF Waiting, Fresh
    <3>3. Joined'
      <4>1. joined' <= Len(threads') /\ \A i \in 1 .. joined : threads'[i] = threads[i]
        BY <3>1 DEF Joined, RpcTypeOK
      <4>2. ASSUME NEW n \in Conns, handler[n] # "none"
            PROVE  \E i \in 1 .. Len(threads') : threads'[i] = n
        BY <3>1, <4>2 DEF Joined
      <4> QED  BY <4>1, <4>2 DEF Joined
    <3> QED  BY <3>2, <3>3
  <2> QED  BY <2>1, <2>2, <2>3 DEF ServerStep
<1> QED  BY <1>1, <1>2, <1>3

\* A thread is started for a connection that had none.
LEMMA StartKeeps == IInv /\ StartThread => IInv'
<1> SUFFICES ASSUME IInv, StartThread PROVE IInv'
  OBVIOUS
<1> USE DEF IInv, StartThread, Serve, mainVars, wire
<1>0. taken \in Conns /\ Fresh(taken)
  BY DEF Waiting
<1>a. \A j \in Conns : handler'[j] = IF j = taken THEN "recv" ELSE handler[j]
  BY <1>0, HandlerWritten
<1>1. RpcTypeOK'
  BY <1>0 DEF RpcTypeOK
<1>2. Counted'
  <2> SUFFICES ASSUME NEW j \in Conns PROVE (Unused(j) /\ Pending(j) /\ Done(j))'
    BY DEF Counted
  <2>1. Left(j)' = Left(j) /\ Sending(j)' = Sending(j)
    BY DEF Left, Sending
  <2>2. Unused(j) /\ Pending(j) /\ Done(j)
    BY DEF Counted
  <2>4. /\ taken[2] \in Nat /\ client[taken[1]].id_counter \in Nat
        /\ taken[2] < client[taken[1]].id_counter
    BY <1>0, ConnParts, Types DEF Fresh
  <2> QED  BY <1>0, <1>a, <2>1, <2>2, <2>4 DEF Unused, Pending, Done, Fresh
<1>3. Posted'
  BY DEF Posted, Current
<1>4. Waiting'
  BY <1>0, <1>a, Types DEF Waiting, Fresh
<1>5. Joined'
  <2>1. \A i \in 1 .. joined : threads[i] \in Conns
    BY Types DEF Joined
  <2> QED  BY <1>0, <1>a, <2>1 DEF Joined, Fresh, Alive
<1> QED  BY <1>1, <1>2, <1>3, <1>4, <1>5
-----------------------------------------------------------------------------
(***************************************************************************)
(* What a handler's step leaves of the server's side: it is running, and   *)
(* it is still that, or has ended.                                         *)
(***************************************************************************)
LEMMA HandlerFrame ==
  ASSUME IInv, NEW k \in Conns, NEW to \in {"recv", "request", "send", "ended"},
         handler[k] \in {"recv", "request", "send"},
         handler' = [handler EXCEPT ![k] = to],
         UNCHANGED <<serverVars, mainVars, client>>
  PROVE  Waiting' /\ Joined'
<1> USE DEF IInv, serverVars, mainVars
<1>0. \A j \in Conns : handler'[j] = IF j = k THEN to ELSE handler[j]
  BY HandlerWritten
<1>1. Waiting'
  BY <1>0, Types DEF Waiting, Fresh
<1>2. Joined'
  <2>1. \A i \in 1 .. joined : threads[i] \in Conns
    BY Types DEF Joined
  <2> QED  BY <1>0, <2>1 DEF Joined
<1> QED  BY <1>1, <1>2

\* What comes in moves from the wire to `data', or ends the handler.
LEMMA RecvKeeps == \A k \in Conns : IInv /\ Recv(k) => IInv'
<1> SUFFICES ASSUME NEW k \in Conns, IInv, Recv(k) PROVE IInv'
  OBVIOUS
<1> USE DEF IInv
<1>0. /\ handler[k] = "recv"
      /\ UNCHANGED <<serverVars, mainVars, down, request, answer, ran, client>>
  BY DEF Recv
<1>1. PICK n \in 0 .. 2 :
        /\ n <= up[k]
        /\ up' = [up EXCEPT ![k] = @ - n]
        /\ got' = [got EXCEPT ![k] = got[k] + n]
        /\ \/ /\ got[k] + n = Pieces(request[k])
              /\ handler' = [handler EXCEPT ![k] = "request"]
              /\ open' = open
           \/ /\ got[k] + n # Pieces(request[k])
              /\ handler' = [handler EXCEPT ![k] = "ended"] \/ handler' = handler
              /\ open' \in SUBSET open
  BY DEF Recv, Gathered
<1>2. PICK to \in {"recv", "request", "ended"} :
        /\ handler' = [handler EXCEPT ![k] = to]
        /\ to = "request" <=> got[k] + n = Pieces(request[k])
  <2>1. handler = [handler EXCEPT ![k] = "recv"]
    BY <1>0 DEF RpcTypeOK
  <2> QED  BY <1>1, <2>1
<1>3. RpcTypeOK'
  <2>1. up[k] \in Nat /\ up[k] - n \in Nat /\ got[k] + n \in Nat
    BY <1>1, Types
  <2>2. open' \subseteq Conns \X {"client", "server"}
    BY <1>1 DEF RpcTypeOK
  <2> QED  BY <1>0, <1>1, <1>2, <2>1, <2>2 DEF RpcTypeOK, serverVars, mainVars
<1>4. Counted'
  <2> SUFFICES ASSUME NEW j \in Conns PROVE (Unused(j) /\ Pending(j) /\ Done(j))'
    BY DEF Counted
  <2>1. Left(j)' = Left(j) /\ Sending(j)' = Sending(j)
    BY <1>0 DEF Left, Sending
  <2>2. Unused(j) /\ Pending(j) /\ Done(j) /\ Pieces(request[j]) \in {1, 2}
    BY PiecesAre DEF Counted
  <2>3. CASE j # k
    <3>1. /\ up'[j] = up[j] /\ got'[j] = got[j] /\ handler'[j] = handler[j]
      BY <1>1, <1>2, <2>3 DEF RpcTypeOK
    <3> QED  BY <1>0, <2>1, <2>2, <3>1 DEF Unused, Pending, Done
  <2>4. CASE j = k
    <3>1. /\ up'[k] = up[k] - n /\ got'[k] = got[k] + n /\ handler'[k] = to
          /\ up[k] \in Nat /\ got[k] \in Nat
      BY <1>1, <1>2 DEF RpcTypeOK
    <3>2. Unused(k)'
      BY <1>0, <2>2, <2>4 DEF Unused
    <3>3. Left(k) \in Int
      <4>1. client[k[1]].sent \in Nat
        BY ConnParts, Types
      <4> QED  BY <4>1, <2>2, <2>4 DEF Left
    <3>4. Pending(k)'
      BY <1>0, <1>1, <1>2, <2>1, <2>2, <2>4, <3>1, <3>3 DEF Pending
    <3>5. Done(k)'
      <4> SUFFICES ASSUME answer[k] # "none" PROVE Done(k)'
        BY <1>0 DEF Done
      <4>1. up[k] = 0 /\ got[k] = 0 /\ n = 0
        BY <1>0, <1>1, <2>2, <2>4, <3>1 DEF Done
      <4>2. to # "request" /\ up'[k] = 0 /\ got'[k] = 0
        BY <1>2, <2>2, <2>4, <3>1, <4>1
      <4> QED  BY <1>0, <2>1, <2>2, <2>4, <3>1, <4>2 DEF Done
    <3> QED  BY <2>4, <3>2, <3>4, <3>5
  <2> QED  BY <2>3, <2>4
<1>5. Posted'
  BY <1>0 DEF Posted, Current
<1> QED  BY <1>0, <1>2, <1>3, <1>4, <1>5, HandlerFrame

\* Only a request without an answer is handled, and it gets one.
LEMMA HandleRequestKeeps == \A k \in Conns : IInv /\ HandleRequest(k) => IInv'
<1> SUFFICES ASSUME NEW k \in Conns, IInv, HandleRequest(k) PROVE IInv'
  OBVIOUS
<1> USE DEF IInv
<1>0. /\ handler[k] = "request" /\ handler' = [handler EXCEPT ![k] = "send"]
      /\ UNCHANGED <<serverVars, mainVars, got, wire, request, client>>
  BY DEF HandleRequest
<1>1. PICK a \in Outcomes \ {"none"} :
        /\ answer' = [answer EXCEPT ![k] = a]
        /\ \/ ran' = ran /\ a # "result"
           \/ ran' = [ran EXCEPT ![k] = ran[k] + 1]
  BY DEF HandleRequest, ErrorCode, Results, Outcomes
<1>2. ran[k] = 0 /\ answer[k] = "none" /\ got[k] = Pieces(request[k])
  BY <1>0 DEF Counted, Pending, Done
<1>3. RpcTypeOK'
  <2>1. answer' \in [Conns -> Outcomes]
    BY <1>1 DEF RpcTypeOK
  <2>2. ran' \in [Conns -> Nat]
    <3>1. ran \in [Conns -> Nat] /\ ran[k] \in Nat
      BY DEF RpcTypeOK
    <3>2. CASE ran' = [ran EXCEPT ![k] = ran[k] + 1]
      BY <3>1, <3>2
    <3> QED  BY <1>1, <3>1, <3>2
  <2>3. handler' \in [Conns -> {"none", "recv", "request", "send", "ended", "cut"}]
    BY <1>0 DEF RpcTypeOK
  <2> QED  BY <1>0, <2>1, <2>2, <2>3 DEF RpcTypeOK, serverVars, mainVars, wire
<1>4. Counted'
  <2> SUFFICES ASSUME NEW j \in Conns PROVE (Unused(j) /\ Pending(j) /\ Done(j))'
    BY DEF Counted
  <2>1. Left(j)' = Left(j) /\ Sending(j)' = Sending(j)
    BY <1>0 DEF Left, Sending
  <2>2. Unused(j) /\ Pending(j) /\ Done(j) /\ Pieces(request[j]) \in {1, 2}
    BY PiecesAre DEF Counted
  <2>3. /\ \A i \in Conns : handler'[i] = IF i = k THEN "send" ELSE handler[i]
        /\ \A i \in Conns : answer'[i] = IF i = k THEN a ELSE answer[i]
    BY <1>0, <1>1, HandlerWritten DEF RpcTypeOK
  <2>4. /\ j # k => ran'[j] = ran[j]
        /\ ran'[k] = 1 \/ (ran'[k] = 0 /\ a # "result")
    BY <1>1, <1>2 DEF RpcTypeOK
  <2>5. Sending(j) => /\ client[j[1]].sent \in Nat
                      /\ Left(j) = Pieces(request[j]) - client[j[1]].sent
    BY ConnParts, Types DEF Left
  <2>6. Unused(j)' /\ Pending(j)'
    BY <1>0, <1>1, <2>1, <2>2, <2>3, <2>4 DEF Unused, Pending, wire
  <2>7. Done(j)'
    <3>1. CASE j # k
      BY <1>0, <2>1, <2>2, <2>3, <2>4, <3>1 DEF Done, wire
    <3>2. CASE j = k
      <4>1. up[k] = 0 /\ ~Sending(k)
        <5>1. got[k] + up[k] + Left(k) <= Pieces(request[k])
          BY <1>2, <2>2, <3>2 DEF Pending
        <5>2. up[k] \in Nat /\ got[k] \in Nat
          BY Types
        <5>3. Sending(k) => Left(k) \in Nat \ {0}
          BY <1>2, <2>2, <2>5, <3>2 DEF Pending
        <5>4. ~Sending(k) => Left(k) = 0
          BY DEF Left
        <5> QED  BY <1>2, <2>2, <3>2, <5>1, <5>2, <5>3, <5>4
      <4> QED  BY <1>0, <1>1, <2>1, <2>3, <2>4, <3>2, <4>1 DEF Done, wire
    <3> QED  BY <3>1, <3>2
  <2> QED  BY <2>6, <2>7
<1>5. Posted'
  <2>1. \A i \in Conns : answer[i] = "result" => answer'[i] = "result"
    BY <1>1, <1>2 DEF RpcTypeOK
  <2> QED  BY <1>0, <2>1 DEF Posted, Current
<1> QED  BY <1>0, <1>3, <1>4, <1>5, HandlerFrame

\* After its answer a connection has no pieces that could become a request.
LEMMA SendKeeps == \A k \in Conns : IInv /\ Send(k) => IInv'
<1> SUFFICES ASSUME NEW k \in Conns, IInv, Send(k) PROVE IInv'
  OBVIOUS
<1> USE DEF IInv
<1>0. /\ handler[k] = "send" /\ handler' = [handler EXCEPT ![k] = "recv"]
      /\ got' = [got EXCEPT ![k] = 0]
      /\ UNCHANGED <<serverVars, mainVars, up, open, request, answer, ran, client>>
  BY DEF Send, NoData
<1>1. answer[k] # "none"
  BY <1>0 DEF Counted, Pending
<1>2. PICK n \in Nat : down' = [down EXCEPT ![k] = n]
  BY PiecesAre DEF Send
<1>3. RpcTypeOK'
  BY <1>0, <1>2 DEF RpcTypeOK, serverVars, mainVars
<1>4. Counted'
  <2> SUFFICES ASSUME NEW j \in Conns PROVE (Unused(j) /\ Pending(j) /\ Done(j))'
    BY DEF Counted
  <2>1. Left(j)' = Left(j) /\ Sending(j)' = Sending(j)
    BY <1>0 DEF Left, Sending
  <2>2. Unused(j) /\ Pending(j) /\ Done(j)
    BY DEF Counted
  <2>3. /\ \A i \in Conns : handler'[i] = IF i = k THEN "recv" ELSE handler[i]
        /\ \A i \in Conns : got'[i] = IF i = k THEN 0 ELSE got[i]
    BY <1>0, HandlerWritten DEF RpcTypeOK
  <2> QED  BY <1>0, <1>1, <2>1, <2>2, <2>3 DEF Unused, Pending, Done
<1>5. Posted'
  BY <1>0 DEF Posted, Current
<1> QED  BY <1>0, <1>3, <1>4, <1>5, HandlerFrame
-----------------------------------------------------------------------------
\* A client's record stays of its type.
LEMMA ClientTyped ==
  ASSUME RpcTypeOK, NEW c \in Clients,
         NEW v \in ClientState,
         client' = [client EXCEPT ![c] = v]
  PROVE  /\ client' \in [Clients -> ClientState]
         /\ \A d \in Clients : client'[d] = IF d = c THEN v ELSE client[d]
<1>1. client \in [Clients -> ClientState]
  BY DEF RpcTypeOK
<1> QED  BY <1>1

(***************************************************************************)
(* A client that sends nothing more, or waits no more, and keeps the       *)
(* number of its connection: nothing is counted that was not before.       *)
(***************************************************************************)
LEMMA StopKeeps ==
  ASSUME IInv, NEW c \in Clients, NEW v, client' = [client EXCEPT ![c] = v],
         v \in ClientState /\ v.at \in {"idle", "gone"},
         v.id_counter = client[c].id_counter,
         v.outcome = "result" => Current(c) \in Conns /\ answer[Current(c)] = "result",
         down' \in [Conns -> Nat], open' \in SUBSET open,
         UNCHANGED <<serverVars, mainVars, handler, got, up, request, answer, ran>>
  PROVE  IInv'
<1> USE DEF IInv, serverVars, mainVars
<1>1. \A d \in Clients : client'[d] = IF d = c THEN v ELSE client[d]
  BY ClientTyped
<1>2. RpcTypeOK'
  <2>1. client' \in [Clients -> ClientState]
    BY ClientTyped
  <2> QED  BY <2>1 DEF RpcTypeOK
<1>3. Counted'
  <2> SUFFICES ASSUME NEW j \in Conns PROVE (Unused(j) /\ Pending(j) /\ Done(j))'
    BY DEF Counted
  <2>1. /\ client'[j[1]].id_counter = client[j[1]].id_counter
        /\ Sending(j)' => Sending(j) /\ client'[j[1]] = client[j[1]]
    BY <1>1, ConnParts DEF Sending
  <2>2. Unused(j) /\ Pending(j) /\ Done(j) /\ Pieces(request[j]) \in {1, 2}
    BY PiecesAre DEF Counted
  <2>3. got[j] \in Nat /\ up[j] \in Nat /\ client[j[1]].sent \in 0 .. 1
    BY Types, ConnParts
  <2>4. Unused(j)' /\ Done(j)'
    BY <2>1, <2>2 DEF Unused, Done
  <2>5. Pending(j)'
    BY <2>1, <2>2, <2>3 DEF Pending, Left
  <2> QED  BY <2>4, <2>5
<1>4. Posted'
  BY <1>1 DEF Posted, Current
<1>5. Waiting'
  <2>1. \A j \in Conns : client'[j[1]].id_counter = client[j[1]].id_counter
    BY <1>1, ConnParts
  <2> QED  BY <2>1, Types DEF Waiting, Fresh
<1>6. Joined'
  BY DEF Joined
<1> QED  BY <1>2, <1>3, <1>4, <1>5, <1>6

\* A call that returns, or raises, and a client that leaves.
LEMMA AnsweredKeeps == \A c \in Clients : IInv /\ Answered(c) => IInv'
<1> SUFFICES ASSUME NEW c \in Clients, IInv, Answered(c) PROVE IInv'
  OBVIOUS
<1> DEFINE o == IF down[Current(c)] > 1 THEN "ValueError" ELSE answer[Current(c)]
           v == [client[c] EXCEPT !.at = "idle", !.outcome = o]
<1>1. RpcTypeOK /\ Current(c) \in Conns
  BY DEF IInv, Posted, Answered
<1>2. down[Current(c)] \in Nat /\ down[Current(c)] > 0 /\ o \in Outcomes \cup {"ValueError"}
  BY <1>1 DEF RpcTypeOK, Answered
<1>3. down' \in [Conns -> Nat]
  BY <1>1, <1>2 DEF RpcTypeOK, Answered
<1>a. client[c] \in ClientState
  BY <1>1 DEF RpcTypeOK
<1>4. v \in ClientState /\ v.at = "idle" /\ v.id_counter = client[c].id_counter
      /\ v.outcome = o
  BY <1>a, <1>2 DEF ClientState
<1>5. client' = [client EXCEPT ![c] = v]
  BY <1>1 DEF Answered, RpcTypeOK
<1>7. UNCHANGED <<serverVars, mainVars, handler, got, up, open, request, answer, ran>>
  BY DEF Answered
<1> HIDE DEF v
<1> QED  BY <1>1, <1>3, <1>4, <1>5, <1>7, StopKeeps

\* A call whose connection is reset.
LEMMA BrokenKeeps == \A c \in Clients : IInv /\ Broken(c) => IInv'
<1> SUFFICES ASSUME NEW c \in Clients, IInv, Broken(c) PROVE IInv'
  OBVIOUS
<1> DEFINE v == [client[c] EXCEPT !.at = "idle", !.outcome = "broken"]
<1>1. RpcTypeOK
  BY DEF IInv
<1>2. v \in ClientState /\ v.at = "idle" /\ v.id_counter = client[c].id_counter
      /\ v.outcome = "broken"
  <2>1. client[c] \in ClientState
    BY <1>1 DEF RpcTypeOK
  <2> QED  BY <2>1 DEF ClientState
<1>3. client' = [client EXCEPT ![c] = v]
  BY <1>1 DEF Broken, RpcTypeOK
<1>5. /\ UNCHANGED <<serverVars, mainVars, handler, got, up, open, request, answer, ran>>
      /\ down' \in [Conns -> Nat]
  BY <1>1 DEF Broken, wire, RpcTypeOK
<1> HIDE DEF v
<1> QED  BY <1>1, <1>2, <1>3, <1>5, StopKeeps

\* A client closes its last connection.
LEMMA LeaveKeeps == \A c \in Clients : IInv /\ Leave(c) => IInv'
<1> SUFFICES ASSUME NEW c \in Clients, IInv, Leave(c) PROVE IInv'
  OBVIOUS
<1> DEFINE v == [client[c] EXCEPT !.at = "gone", !.outcome = "none", !.sent = 0]
<1>1. RpcTypeOK
  BY DEF IInv
<1>2. v \in ClientState /\ v.at = "gone" /\ v.id_counter = client[c].id_counter
      /\ v.outcome = "none"
  <2> DEFINE A == {"idle", "send", "wait", "gone"}
             N == Nat \ {0}
             S == 0 .. 1
             O == Outcomes \cup {"ValueError", "broken"}
  <2>1. ClientState = [at : A, id_counter : N, sent : S, outcome : O]
    BY DEF ClientState
  <2>2. "gone" \in A /\ 0 \in S /\ "none" \in O
    BY DEF Outcomes
  <2>3. client[c] \in ClientState
    BY <1>1 DEF RpcTypeOK
  <2> HIDE DEF A, N, S, O
  <2> QED  BY <2>1, <2>2, <2>3
<1>3. client' = [client EXCEPT ![c] = v]
  BY <1>1 DEF Leave, RpcTypeOK
<1>5. /\ UNCHANGED <<serverVars, mainVars, handler, got, up, request, answer, ran>>
      /\ open' \in SUBSET open
  BY DEF Leave
<1>6. down' \in [Conns -> Nat]
  BY <1>1 DEF Leave, Unread, RpcTypeOK
<1> HIDE DEF v
<1> QED  BY <1>1, <1>2, <1>3, <1>5, <1>6, StopKeeps

\* A piece moves from what is left of a request to what is under way.
LEMMA SendPieceKeeps == \A c \in Clients : IInv /\ SendPiece(c) => IInv'
<1> SUFFICES ASSUME NEW c \in Clients, IInv, SendPiece(c) PROVE IInv'
  OBVIOUS
<1> USE DEF IInv
<1>a. PICK k \in Conns : k = Current(c)
  BY DEF Posted, SendPiece
<1>b. PICK p \in {1, 2} : p = Pieces(request[k])
  BY PiecesAre
<1> DEFINE a == IF client[c].sent + 1 < p THEN "send"
                ELSE IF request[k].notify THEN "idle" ELSE "wait"
           v == [client[c] EXCEPT !.sent = (client[c].sent + 1) % p, !.at = a]
<1>1. client[c].at = "send" /\ k[1] = c
      /\ client[c].id_counter = k[2] + 1
  BY <1>a, CurrentIs, Types DEF SendPiece
<1>2. /\ client[c] \in ClientState
      /\ client[c].sent \in 0 .. 1
      /\ client[c].outcome \in Outcomes \cup {"ValueError", "broken"}
      /\ client[c].id_counter \in Nat \ {0}
  <2>1. client[c] \in ClientState
    BY DEF RpcTypeOK
  <2> QED  BY <2>1 DEF ClientState
<1>3. (client[c].sent + 1) % p \in 0 .. 1
      /\ (client[c].sent + 1 < p => (client[c].sent + 1) % p = client[c].sent + 1)
  <2>1. CASE p = 1
    BY <1>2, <2>1
  <2>2. CASE p = 2
    BY <1>2, <2>2
  <2> QED  BY <1>1, <2>1, <2>2
<1>5. /\ v \in ClientState
      /\ v.id_counter = client[c].id_counter /\ v.outcome = client[c].outcome
      /\ v.at = a /\ v.sent = (client[c].sent + 1) % p
  BY <1>2, <1>3 DEF ClientState
<1>6. /\ client' = [client EXCEPT ![c] = v]
      /\ up' = [up EXCEPT ![k] = up[k] + 1]
      /\ UNCHANGED <<serverVars, mainVars, handler, got, down, open, request, answer, ran>>
  <2>1. client' = [client EXCEPT ![c] = v]
    BY <1>2, <1>a, <1>b DEF SendPiece, RpcTypeOK
  <2> QED  BY <2>1, <1>a DEF SendPiece
<1> HIDE DEF v
<1>7. \A d \in Clients : client'[d] = IF d = c THEN v ELSE client[d]
  BY <1>5, <1>6, ClientTyped
<1>8. RpcTypeOK'
  <2>1. client' \in [Clients -> ClientState]
    BY <1>5, <1>6, ClientTyped
  <2>2. up' \in [Conns -> Nat]
    <3>1. up \in [Conns -> Nat] /\ up[k] \in Nat
      BY <1>1 DEF RpcTypeOK
    <3> QED  BY <1>6, <3>1
  <2> QED  BY <1>6, <2>1, <2>2 DEF RpcTypeOK, serverVars, mainVars
<1>9. Counted'
  <2> SUFFICES ASSUME NEW j \in Conns PROVE (Unused(j) /\ Pending(j) /\ Done(j))'
    BY DEF Counted
  <2>1. Unused(j) /\ Pending(j) /\ Done(j)
    BY DEF Counted
  <2>2. got[j] \in Nat /\ up[j] \in Nat /\ j[1] \in Clients /\ j[2] \in Nat
    BY Types, ConnParts
  <2>3. CASE j = k
    <3>1. Sending(k) /\ client'[c] = v /\ up'[k] = up[k] + 1
      BY <1>b, <1>1, <1>6, <1>7, <2>2, <2>3 DEF Sending, RpcTypeOK
    <3>2. answer[k] = "none" /\ client[c].sent < p /\ Left(k) = p - client[c].sent
      BY <1>b, <1>1, <2>1, <2>3, <3>1 DEF Pending, Done, Left
    <3>3. Left(k)' = p - client[c].sent - 1
          /\ (Sending(k)' => client'[c].sent < p)
      <4>1. CASE client[c].sent + 1 < p
        BY <1>b, <1>1, <1>2, <1>3, <1>5, <1>6, <3>1, <4>1 DEF Left, Sending
      <4>2. CASE ~(client[c].sent + 1 < p)
        <5>1. ~Sending(k)'
          BY <1>b, <1>1, <1>5, <3>1, <4>2 DEF Sending
        <5>2. p = client[c].sent + 1
          BY <1>b, <1>1, <1>2, <3>2, <4>2
        <5> QED  BY <1>b, <1>1, <1>2, <5>1, <5>2 DEF Left
      <4> QED  BY <4>1, <4>2
    <3>4. up[k] + 1 + (p - client[c].sent - 1) = up[k] + Left(k)
      BY <1>b, <1>1, <1>2, <2>2, <2>3, <3>2
    <3>5. Pending(k)'
      <4>1. got[k] + up'[k] + Left(k)' <= p
        BY <1>b, <1>1, <1>2, <2>1, <2>2, <2>3, <3>1, <3>2, <3>3 DEF Pending
      <4> QED  BY <1>b, <1>1, <1>6, <2>1, <2>3, <3>2, <3>3, <4>1 DEF Pending
    <3>6. Unused(k)' /\ Done(k)'
      BY <1>b, <1>1, <1>5, <1>6, <2>2, <2>3, <3>1, <3>2 DEF Unused, Done
    <3> QED  BY <2>3, <3>5, <3>6
  <2>4. CASE j # k
    <3>1. up'[j] = up[j] /\ client'[j[1]].id_counter = client[j[1]].id_counter
      BY <1>5, <1>6, <1>7, <2>2, <2>4 DEF RpcTypeOK
    <3>2. j[1] = c => ~Sending(j) /\ ~Sending(j)'
      BY <1>1, <2>2, <2>4, <3>1, <1>a, CurrentIs DEF Sending
    <3>3. j[1] # c => client'[j[1]] = client[j[1]]
      BY <1>7, <2>2
    <3>4. Left(j)' = Left(j) /\ Sending(j)' = Sending(j)
      BY <1>6, <3>2, <3>3 DEF Left, Sending
    <3>5. Sending(j)' => client'[j[1]] = client[j[1]]
      BY <3>2, <3>3
    <3> QED  BY <1>6, <2>1, <3>1, <3>4, <3>5 DEF Unused, Pending, Done
  <2> QED  BY <2>3, <2>4
<1>10. Posted'
  <2>1. \A d \in Clients : /\ client'[d].id_counter = client[d].id_counter
                           /\ client'[d].outcome = client[d].outcome
                           /\ d # c => client'[d].at = client[d].at
    BY <1>5, <1>7
  <2>2. \A d \in Clients : Current(d)' = Current(d)
    BY <2>1 DEF Current
  <2>3. Current(c) \in Conns /\ answer' = answer
    BY <1>a, <1>6
  <2> QED  BY <2>1, <2>2, <2>3 DEF Posted
<1>11. Waiting' /\ Joined'
  <2>1. \A j \in Conns : client'[j[1]].id_counter = client[j[1]].id_counter
    BY <1>5, <1>7, ConnParts
  <2>2. Waiting'
    BY <1>6, <2>1, Types, SMTT(20) DEF Waiting, Fresh, serverVars
  <2>3. Joined'
    BY <1>6 DEF Joined, serverVars, mainVars
  <2> QED  BY <2>2, <2>3
<1> QED  BY <1>8, <1>9, <1>10, <1>11

(***************************************************************************)
(* A new connection: nothing was ever on it, and the one before, which its *)
(* client does not use any more, loses what was not read.                  *)
(***************************************************************************)
LEMMA ConnectKeeps == \A c \in Clients : IInv /\ Connect(c) => IInv'
<1> SUFFICES ASSUME NEW c \in Clients, IInv, Connect(c) PROVE IInv'
  OBVIOUS
<1> USE DEF IInv
<1>a. PICK k \in Conns : k = <<c, client[c].id_counter>>
  BY DEF Connect
<1>1. /\ client[c] \in ClientState
      /\ client[c].id_counter \in Nat \ {0}
  <2>1. client[c] \in ClientState
    BY DEF RpcTypeOK
  <2> QED  BY <2>1 DEF ClientState
<1>2. k[1] = c /\ k[2] = client[c].id_counter /\ client[c].at = "idle"
  BY <1>a, <1>1, ConnParts DEF Connect
<1>3. PICK v : /\ v = [client[c] EXCEPT !.at = "send", !.id_counter = client[c].id_counter + 1,
                                         !.sent = 0, !.outcome = "none"]
               /\ client' = [client EXCEPT ![c] = v]
  BY DEF Connect, RpcTypeOK
<1>4. /\ v \in ClientState /\ v.at = "send" /\ v.outcome = "none"
      /\ v.id_counter = client[c].id_counter + 1 /\ v.sent = 0
  <2> DEFINE A == {"idle", "send", "wait", "gone"}
             N == Nat \ {0}
             S == 0 .. 1
             O == Outcomes \cup {"ValueError", "broken"}
  <2>1. ClientState = [at : A, id_counter : N, sent : S, outcome : O]
    BY DEF ClientState
  <2>2. PICK n \in N : n = client[c].id_counter + 1
    BY <1>1
  <2>3. "send" \in A /\ 0 \in S /\ "none" \in O
    BY DEF Outcomes
  <2> HIDE DEF A, N, S, O
  <2> QED  BY <1>1, <1>3, <2>1, <2>2, <2>3
<1>5. /\ \A d \in Clients : client'[d] = IF d = c THEN v ELSE client[d]
      /\ client' \in [Clients -> ClientState]
  BY <1>3, <1>4, ClientTyped
<1>6. PICK q \in Requests : request' = [request EXCEPT ![k] = q]
  BY <1>a DEF Connect, Requests
<1>7. /\ backlog' = Append(backlog, k)
      /\ down' = Unread(c)
      /\ main # "gone"
      /\ UNCHANGED <<serving, running, listening, threads, taken, mainVars, handler,
                     got, up, answer, ran>>
  BY <1>a DEF Connect, Alive
<1>8. RpcTypeOK'
  <2>1. down' \in [Conns -> Nat]
    BY <1>7 DEF RpcTypeOK, Unread
  <2>2. request' \in [Conns -> Requests] /\ backlog' \in Seq(Conns)
    BY <1>6, <1>7 DEF RpcTypeOK
  <2>3. open' \subseteq Conns \X {"client", "server"}
    <3>1. open' = (open \ {<<Current(c), "client">>}) \cup {<<k, "client">>, <<k, "server">>}
      BY <1>a DEF Connect
    <3>2. <<k, "client">> \in Conns \X {"client", "server"}
          /\ <<k, "server">> \in Conns \X {"client", "server"}
      OBVIOUS
    <3> QED  BY <3>1, <3>2 DEF RpcTypeOK
  <2> QED  BY <1>5, <1>7, <2>1, <2>2, <2>3 DEF RpcTypeOK, mainVars
<1>9. Counted'
  <2> SUFFICES ASSUME NEW j \in Conns PROVE (Unused(j) /\ Pending(j) /\ Done(j))'
    BY DEF Counted
  <2>1. Unused(j) /\ Pending(j) /\ Done(j)
    BY DEF Counted
  <2>2. got[j] \in Nat /\ up[j] \in Nat /\ j[1] \in Clients /\ j[2] \in Nat
        /\ j = <<j[1], j[2]>>
    BY Types, ConnParts
  <2>3. CASE j = k
    <3>1. client'[k[1]] = v /\ request'[k] = q
      BY <1>2, <1>5, <1>6 DEF RpcTypeOK
    <3>2. /\ handler'[k] = "none" /\ answer'[k] = "none" /\ ran'[k] = 0
          /\ up'[k] = 0 /\ got'[k] = 0
      BY <1>1, <1>2, <1>7, <2>1, <2>3 DEF Unused, Pending
    <3>3. Sending(k)' /\ Left(k)' = Pieces(q) - 0 /\ v.sent = 0
      BY <1>1, <1>2, <1>4, <3>1 DEF Sending, Left, Pieces
    <3>4. Pieces(q) \in {1, 2} /\ Pieces(request[k])' = Pieces(q)
      BY <3>1, PiecesAre DEF Pieces
    <3> QED  BY <1>1, <1>2, <1>4, <2>3, <3>1, <3>2, <3>3, <3>4 DEF Unused, Pending, Done
  <2>4. CASE j # k
    <3>1. request'[j] = request[j] /\ Pieces(request[j])' = Pieces(request[j])
      BY <1>6, <2>4 DEF RpcTypeOK, Pieces
    <3>2. CASE j[1] = c
      <4>1. j[2] # client[c].id_counter
        BY <1>a, <2>2, <2>4, <3>2
      <4>2. ~Sending(j) /\ ~Sending(j)' /\ client'[c].id_counter = client[c].id_counter + 1
        BY <1>1, <1>2, <1>4, <1>5, <2>2, <3>2, <4>1 DEF Sending
      <4>3. Left(j) = 0 /\ Left(j)' = 0
        BY <4>2 DEF Left
      <4> QED  BY <1>1, <1>7, <2>1, <2>2, <3>1, <3>2, <4>2, <4>3 DEF Unused, Pending, Done
    <3>3. CASE j[1] # c
      <4>1. client'[j[1]] = client[j[1]]
        BY <1>5, <2>2, <3>3
      <4>2. Left(j)' = Left(j) /\ Sending(j)' = Sending(j)
        BY <3>1, <4>1 DEF Left, Sending
      <4> QED  BY <1>7, <2>1, <3>1, <4>1, <4>2 DEF Unused, Pending, Done
    <3> QED  BY <3>2, <3>3
  <2> QED  BY <2>3, <2>4
<1>10. Posted'
  <2> SUFFICES ASSUME NEW d \in Clients
               PROVE  /\ client'[d].at \in {"send", "wait"} => Current(d)' \in Conns
                      /\ client'[d].outcome = "result" =>
                           Current(d)' \in Conns /\ answer'[Current(d)'] = "result"
    BY DEF Posted
  <2>1. CASE d = c
    <3>1. Current(c)' = k /\ client'[c].outcome = "none"
      BY <1>1, <1>4, <1>5, <1>a DEF Current
    <3> QED  BY <2>1, <3>1
  <2>2. CASE d # c
    <3>1. client'[d] = client[d] /\ Current(d)' = Current(d)
      BY <1>5, <2>2 DEF Current
    <3> QED  BY <1>7, <3>1 DEF Posted
  <2> QED  BY <2>1, <2>2
<1>11. Waiting'
  <2> DEFINE FreshNow(j) == handler'[j] = "none" /\ j[2] < client'[j[1]].id_counter
  <2>1. \A j \in Conns : Fresh(j) => j # k /\ FreshNow(j)
    <3> SUFFICES ASSUME NEW j \in Conns, Fresh(j) PROVE j # k /\ FreshNow(j)
      OBVIOUS
    <3>1. j[1] \in Clients /\ j[2] \in Nat /\ client[j[1]].id_counter \in Nat
      BY ConnParts, Types
    <3> QED  BY <1>1, <1>2, <1>4, <1>5, <1>7, <3>1 DEF Fresh
  <2>2. FreshNow(k)
    <3>1. handler[k] = "none"
      BY <1>1, <1>2 DEF Counted, Unused
    <3> QED  BY <1>1, <1>2, <1>4, <1>5, <1>7, <3>1
  <2>3. /\ Len(backlog') = Len(backlog) + 1 /\ backlog'[Len(backlog) + 1] = k
        /\ \A i \in 1 .. Len(backlog) : backlog'[i] = backlog[i]
    BY <1>7 DEF RpcTypeOK
  <2>4. Len(backlog) \in Nat /\ \A i \in 1 .. Len(backlog) : backlog[i] \in Conns
    BY Types
  <2> HIDE DEF FreshNow
  <2>5. \A i \in 1 .. Len(backlog) : backlog[i] # k /\ FreshNow(backlog[i])
    BY <2>1, <2>4 DEF Waiting
  <2>6. serving = "thread" => FreshNow(taken) /\ taken # k
    BY <2>1 DEF Waiting
  <2>7. \A i \in 1 .. Len(backlog') : FreshNow(backlog'[i])
    BY <2>2, <2>3, <2>4, <2>5
  <2>8. \A i, n \in 1 .. Len(backlog') : backlog'[i] = backlog'[n] => i = n
    BY <2>3, <2>4, <2>5 DEF Waiting
  <2>9. serving = "thread" =>
           FreshNow(taken) /\ \A i \in 1 .. Len(backlog') : backlog'[i] # taken
    BY <2>3, <2>4, <2>6 DEF Waiting
  <2> QED  BY <1>7, <2>7, <2>8, <2>9 DEF Waiting, Fresh, FreshNow
<1>12. Joined'
  BY <1>7 DEF Joined, mainVars
<1> QED  BY <1>8, <1>9, <1>10, <1>11, <1>12
-----------------------------------------------------------------------------
\* The interrupt and shutdown: the socket is closed, then handlers are joined.
LEMMA MainKeeps == IInv /\ (Interrupt \/ CloseSocket \/ Join) => IInv'
<1> SUFFICES ASSUME IInv, Interrupt \/ CloseSocket \/ Join PROVE IInv'
  OBVIOUS
<1> USE DEF IInv
<1>1. /\ UNCHANGED <<serving, threads, taken, handler, got, up, down, request, answer,
                     ran, client>>
      /\ backlog' = backlog \/ backlog' = <<>>
      /\ joined' = joined \/ (/\ joined' = joined + 1 /\ joined < Len(threads)
                              /\ handler[threads[joined + 1]] = "ended")
      /\ main # "gone" /\ main' \in {"close", "join"}
      /\ running' = running \/ running' = FALSE
      /\ listening' = listening \/ listening' = "closed"
      /\ open' \in SUBSET open
  BY DEF Interrupt, CloseSocket, Join, serverVars, wire
<1>2. RpcTypeOK'
  <2>1. joined' \in 0 .. Len(threads')
    BY <1>1, Types DEF Joined
  <2>2. backlog' \in Seq(Conns)
    <3>1. backlog \in Seq(Conns) /\ <<>> \in Seq(Conns)
      BY DEF RpcTypeOK
    <3> QED  BY <1>1, <3>1
  <2>3. open' \subseteq Conns \X {"client", "server"}
    BY <1>1 DEF RpcTypeOK
  <2> QED  BY <1>1, <2>1, <2>2, <2>3 DEF RpcTypeOK
<1>3. Counted' /\ Posted'
  BY <1>1 DEF Counted, Unused, Pending, Done, Left, Sending, Posted, Current
<1>4. Waiting'
  BY <1>1 DEF Waiting, Fresh
<1>5. Joined'
  BY <1>1, Types DEF Joined
<1> QED  BY <1>2, <1>3, <1>4, <1>5

\* The process exits when all that are in the list are joined.
LEMMA ExitKeeps == IInv /\ Exit => IInv'
<1> SUFFICES ASSUME IInv, Exit PROVE IInv'
  OBVIOUS
<1> USE DEF IInv
<1>0. /\ main = "join" /\ joined = Len(threads) /\ main' = "gone"
      /\ handler' = [k \in Conns |->
                   IF handler[k] \in {"none", "ended"} THEN handler[k] ELSE "cut"]
      /\ open' \in SUBSET open
      /\ UNCHANGED <<serverVars, joined, got, up, down, request, answer, ran, client>>
  BY DEF Exit, AllJoined
<1>1. \A k \in Conns : handler'[k] =
        IF handler[k] \in {"none", "ended"} THEN handler[k] ELSE "cut"
  BY <1>0
<1>2. RpcTypeOK'
  <2>1. handler' \in [Conns -> {"none", "recv", "request", "send", "ended", "cut"}]
    BY <1>0
  <2>2. open' \subseteq Conns \X {"client", "server"}
    BY <1>0 DEF RpcTypeOK
  <2> QED  BY <1>0, <2>1, <2>2 DEF RpcTypeOK, serverVars
<1>3. Counted'
  <2> SUFFICES ASSUME NEW j \in Conns PROVE (Unused(j) /\ Pending(j) /\ Done(j))'
    BY DEF Counted
  <2>1. Left(j)' = Left(j) /\ Sending(j)' = Sending(j)
    BY <1>0 DEF Left, Sending
  <2>2. Unused(j) /\ Pending(j) /\ Done(j)
    BY DEF Counted
  <2> QED  BY <1>0, <1>1, <2>1, <2>2 DEF Unused, Pending, Done
<1>4. Posted'
  BY <1>0 DEF Posted, Current
<1>5. Waiting'
  BY <1>0, <1>1, Types DEF Waiting, Fresh, serverVars
<1>6. Joined'
  <2>1. \A i \in 1 .. Len(threads) : threads[i] \in Conns /\ handler[threads[i]] = "ended"
    BY <1>0, Types DEF Joined
  <2>2. \A k \in Conns : handler'[k] = "cut" => k = taken
    BY <1>0, <1>1, <2>1 DEF Joined
  <2> QED  BY <1>0, <1>1, <2>1, <2>2 DEF Joined, serverVars
<1> QED  BY <1>2, <1>3, <1>4, <1>5, <1>6
-----------------------------------------------------------------------------
\* Every step keeps the invariant, so it always holds.
LEMMA StepHolds == IInv /\ [RpcNext]_rpcVars => IInv'
<1> SUFFICES ASSUME IInv, [RpcNext]_rpcVars PROVE IInv'
  OBVIOUS
<1>1. CASE ServerStep \/ StartThread
  BY <1>1, ServerKeeps, StartKeeps
<1>2. CASE \E k \in Conns : Handle(k)
  BY <1>2, RecvKeeps, HandleRequestKeeps, SendKeeps DEF Handle
<1>3. CASE \E c \in Clients : Connect(c) \/ Call(c) \/ Leave(c)
  BY <1>3, ConnectKeeps, SendPieceKeeps, AnsweredKeeps, BrokenKeeps, LeaveKeeps DEF Call
<1>4. CASE Interrupt \/ Shutdown
  BY <1>4, MainKeeps, ExitKeeps DEF Shutdown
<1>5. CASE UNCHANGED rpcVars
  <2> USE <1>5 DEF IInv, rpcVars, serverVars, mainVars, wire
  <2>1. RpcTypeOK'
    BY DEF RpcTypeOK
  <2>2. Counted'
    BY DEF Counted, Unused, Pending, Done, Left, Sending
  <2>3. Posted' /\ Waiting' /\ Joined'
    BY DEF Posted, Current, Waiting, Fresh, Joined
  <2> QED  BY <2>1, <2>2, <2>3
<1> QED  BY <1>1, <1>2, <1>3, <1>4, <1>5 DEF RpcNext

\* The invariant holds in every state of a behaviour.
LEMMA Invariant == RpcSpec => []IInv
<1>1. RpcInit => IInv
  BY InitHolds
<1>2. IInv /\ [RpcNext]_rpcVars => IInv'
  BY StepHolds
<1> QED  BY <1>1, <1>2, PTL DEF RpcSpec

\* The state of server, connections and clients is of its type.
THEOREM RpcTypes == RpcSpec => []RpcTypeOK
<1>1. IInv => RpcTypeOK
  BY DEF IInv
<1> QED  BY <1>1, Invariant, PTL

(***************************************************************************)
(* handle_client runs the request of a connection at most once, whatever   *)
(* pieces recv returns and whenever the client goes, and a call that       *)
(* returns a result was run.                                               *)
(***************************************************************************)
THEOREM RunsOnce == RpcSpec => []RunOnce
<1>1. IInv => RunOnce
  <2> SUFFICES ASSUME IInv PROVE RunOnce
    OBVIOUS
  <2>1. \A k \in Conns : ran[k] <= 1 /\ (answer[k] = "result" => ran[k] = 1)
    <3> SUFFICES ASSUME NEW k \in Conns
                 PROVE  ran[k] <= 1 /\ (answer[k] = "result" => ran[k] = 1)
      OBVIOUS
    <3>1. Pending(k) /\ Done(k)
      BY DEF IInv, Counted
    <3> QED  BY <3>1 DEF Pending, Done
  <2>2. \A c \in Clients : client[c].outcome = "result" =>
          Current(c) \in Conns /\ answer[Current(c)] = "result"
    BY DEF IInv, Posted
  <2> QED  BY <2>1, <2>2 DEF RunOnce
<1> QED  BY <1>1, Invariant, PTL

(***************************************************************************)
(* Server.shutdown joins every handler in its list: what the exit of the   *)
(* process cuts off is the one connection that accept had just returned.   *)
(***************************************************************************)
THEOREM CutsOne == RpcSpec => []OneCutOff
<1>1. IInv => OneCutOff
  BY DEF IInv, Joined, OneCutOff
<1> QED  BY <1>1, Invariant, PTL
=============================================================================
