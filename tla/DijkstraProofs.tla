--------------------------- MODULE DijkstraProofs ---------------------------
(***************************************************************************)
(* Theorems of Dijkstra for any routers, networks and tables: the list     *)
(* keeps its order and the routes are shortest.                            *)
(***************************************************************************)
EXTENDS Dijkstra, FiniteSetTheorems, WellFoundedInduction, TLAPS

(***************************************************************************)
(* What is defined by recursion over 1 .. n, or 0 .. n, is there; and a    *)
(* set of naturals has a least element, which is how statements about all  *)
(* k are proved here: the least k without the statement does not exist.    *)
(***************************************************************************)
LEMMA LeastOf ==
  ASSUME NEW S \in SUBSET Nat, S # {}
  PROVE  \E k \in S : \A j \in S : k <= j
<1> DEFINE R == OpToRel(<, Nat)
<1>1. IsWellFoundedOn(R, Nat)
  BY NatLessThanWellFounded
<1>2. \E k \in S : \A j \in S : <<j, k>> \notin R
  <2> HIDE DEF R
  <2> QED BY <1>1, WFMin
<1>3. PICK k \in S : \A j \in S : <<j, k>> \notin R
  BY <1>2
<1>4. \A j \in S : ~(j < k)
  BY <1>3 DEF OpToRel
<1> QED
  BY <1>4

Steps(b, n, S) == [(b + 1 .. n) \X S -> S]
IsRecursion(f, b, n, first, step) ==
  /\ f[b] = first
  /\ \A k \in b + 1 .. n : f[k] = step[<<k, f[k - 1]>>]
Recursive(b, n, S, first, step) ==
  \E f \in [b .. n -> S] : IsRecursion(f, b, n, first, step)

LEMMA Recursion ==
  ASSUME NEW b \in Nat, NEW n \in Nat, b <= n,
         NEW S, NEW first \in S, NEW step \in Steps(b, n, S)
  PROVE  Recursive(b, n, S, first, step)
<1> USE DEF Steps, IsRecursion, Recursive
<1> DEFINE Upto(m) == Recursive(b, m, S, first, step)
           Bad == {m \in Nat : b <= m /\ m <= n /\ ~Upto(m)}
<1>1. Bad = {}
  <2> SUFFICES ASSUME Bad # {} PROVE FALSE
    OBVIOUS
  <2>1. PICK m \in Bad : \A j \in Bad : m <= j
    BY LeastOf
  <2>2. CASE m = b
    <3>1. [k \in b .. b |-> first] \in [b .. b -> S]
      OBVIOUS
    <3>2. [k \in b .. b |-> first][b] = first /\ b + 1 .. b = {}
      OBVIOUS
    <3> QED
      BY <2>1, <2>2, <3>1, <3>2
  <2>3. CASE m # b
    <3>0. m \in Nat /\ b <= m /\ m <= n
      BY <2>1
    <3>1. m - 1 \in Nat /\ b <= m - 1 /\ m - 1 \notin Bad
      <4>1. m - 1 \in Nat /\ b <= m - 1 /\ m - 1 < m
        BY <3>0, <2>3
      <4> HIDE DEF Bad
      <4> QED BY <2>1, <3>0, <4>1
    <3>2. PICK f \in [b .. m - 1 -> S] :
            /\ f[b] = first
            /\ \A k \in b + 1 .. m - 1 : f[k] = step[<<k, f[k - 1]>>]
      BY <3>1, <2>1
    <3> DEFINE g == [k \in b .. m |-> IF k = m THEN step[<<m, f[m - 1]>>] ELSE f[k]]
    <3>3. <<m, f[m - 1]>> \in (b + 1 .. n) \X S
      BY <3>1, <2>1, <2>3
    <3>4. g \in [b .. m -> S]
      BY <3>1, <3>3
    <3>5. g[b] = first
      BY <3>1, <3>2
    <3>6. ASSUME NEW k \in b + 1 .. m PROVE g[k] = step[<<k, g[k - 1]>>]
      <4>1. CASE k = m
        <5>1. m \in b .. m /\ m - 1 \in b .. m /\ m - 1 # m
          BY <3>1, <2>1
        <5>2. g[m] = step[<<m, f[m - 1]>>] /\ g[m - 1] = f[m - 1]
          BY <5>1
        <5> QED BY <5>2, <4>1
      <4>2. CASE k # m
        <5>1. k \in b + 1 .. m - 1 /\ k \in b .. m /\ k - 1 \in b .. m
          BY <4>2, <3>1
        <5>2. g[k] = f[k] /\ g[k - 1] = f[k - 1]
          BY <4>2, <5>1
        <5> QED BY <5>1, <5>2, <3>2
      <4> QED BY <4>1, <4>2
    <3> HIDE DEF g
    <3> QED
      BY <2>1, <3>4, <3>5, <3>6
  <2> QED BY <2>2, <2>3
<1> QED
  BY <1>1

-----------------------------------------------------------------------------
(***************************************************************************)
(* The reference.  Range(nw.table) is the set of LSAs.                     *)
(***************************************************************************)
LEMMA Shape ==
  ASSUME NEW nw \in Networks
  PROVE  /\ MaxHops \in Nat \ {0}
         /\ nw.links \in Seq(Link) /\ nw.table \in Seq(Lsa)
         /\ Range(nw.table) \subseteq Lsa
         /\ Starts(nw) \subseteq DOMAIN nw.links
         /\ \A l \in DOMAIN nw.links : nw.links[l] \in Link /\ l \in Nat \ {0}
         /\ \A l \in Starts(nw) : nw.links[l].neighbor \in Routers
<1>1. MaxHops \in Nat \ {0}
  BY FS_CardinalityType, DijkstraAssumption DEF MaxHops
<1>2. nw.links \in Seq(Link) /\ nw.table \in Seq(Lsa)
  BY DijkstraAssumption
<1>3. Range(nw.table) \subseteq Lsa
  BY <1>2 DEF Range
<1>4. \A l \in DOMAIN nw.links : nw.links[l] \in Link /\ l \in Nat \ {0}
  BY <1>2
<1>5. \A l \in Starts(nw) : l \in DOMAIN nw.links /\ nw.links[l].neighbor # None
  BY DEF Starts
<1>6. \A l \in Starts(nw) : nw.links[l].neighbor \in Routers
  BY <1>4, <1>5 DEF Link
<1> QED
  BY <1>1, <1>2, <1>3, <1>4, <1>5, <1>6

Ends(nw) == Nat \X DOMAIN nw.links
FirstEnds(nw) == {<<nw.links[l].neighbor, l>> : l \in Starts(nw)}
NextEnds(nw, ends) ==
  {<<s[1].neighbor, s[2][2]>> : s \in
     {x \in Range(nw.table) \X ends : x[1].router = x[2][1]}}

LEMMA ReachedIs ==
  ASSUME NEW nw \in Networks
  PROVE  /\ Reached(nw) \in [1 .. MaxHops -> SUBSET Ends(nw)]
         /\ Reached(nw)[1] = FirstEnds(nw)
         /\ \A k \in 2 .. MaxHops : Reached(nw)[k] = NextEnds(nw, Reached(nw)[k - 1])
<1>1. FirstEnds(nw) \in SUBSET Ends(nw)
  <2> SUFFICES ASSUME NEW l \in Starts(nw)
               PROVE  <<nw.links[l].neighbor, l>> \in Ends(nw)
    BY DEF FirstEnds
  <2>1. l \in DOMAIN nw.links /\ nw.links[l].neighbor \in Nat
    BY Shape, DijkstraAssumption
  <2> QED BY <2>1 DEF Ends
<1>2. ASSUME NEW ends \in SUBSET Ends(nw)
      PROVE  NextEnds(nw, ends) \in SUBSET Ends(nw)
  <2> SUFFICES ASSUME NEW e \in Range(nw.table), NEW y \in ends
               PROVE  <<e.neighbor, y[2]>> \in Ends(nw)
    BY DEF NextEnds
  <2> QED BY Shape DEF Ends, Lsa
<1> DEFINE S == SUBSET Ends(nw)
           step == [x \in (1 + 1 .. MaxHops) \X S |-> NextEnds(nw, x[2])]
<1>3. step \in Steps(1, MaxHops, S)
  BY <1>2 DEF Steps
<1>4. \A k \in 2 .. MaxHops, ends \in S : step[<<k, ends>>] = NextEnds(nw, ends)
  OBVIOUS
<1>5. 1 \in Nat /\ MaxHops \in Nat /\ 1 <= MaxHops
  BY Shape
<1>6. PICK f \in [1 .. MaxHops -> S] :
        IsRecursion(f, 1, MaxHops, FirstEnds(nw), step)
  <2>1. FirstEnds(nw) \in S
    BY <1>1
  <2> HIDE DEF step, S
  <2> QED BY <2>1, <1>3, <1>5, Recursion DEF Recursive
<1>7. ASSUME NEW k \in 2 .. MaxHops PROVE f[k] = NextEnds(nw, f[k - 1])
  <2>1. k - 1 \in 1 .. MaxHops /\ k \in 1 + 1 .. MaxHops
    BY <1>5
  <2>2. f[k - 1] \in S
    BY <2>1
  <2>3. f[k] = step[<<k, f[k - 1]>>]
    BY <2>1, <1>6 DEF IsRecursion
  <2> HIDE DEF step, S
  <2> QED BY <2>2, <2>3, <1>4
<1> DEFINE Is(g) == g = [k \in 1 .. MaxHops |->
              IF k = 1 THEN {<<nw.links[l].neighbor, l>> : l \in Starts(nw)}
              ELSE {<<s[1].neighbor, s[2][2]>> : s \in
                      {x \in Range(nw.table) \X g[k - 1] : x[1].router = x[2][1]}}]
<1>8. Is(f)
  BY <1>5, <1>6, <1>7 DEF FirstEnds, NextEnds, IsRecursion
<1>9. Reached(nw) = CHOOSE g : Is(g)
  BY DEF Reached
<1>10. Is(Reached(nw))
  <2> HIDE DEF Is
  <2> QED BY <1>8, <1>9
<1>11. \A k \in 1 .. MaxHops : Reached(nw)[k] =
              IF k = 1 THEN {<<nw.links[l].neighbor, l>> : l \in Starts(nw)}
              ELSE {<<s[1].neighbor, s[2][2]>> : s \in
                      {x \in Range(nw.table) \X Reached(nw)[k - 1] : x[1].router = x[2][1]}}
  BY <1>10
<1>12. Reached(nw)[1] = FirstEnds(nw)
  <2>1. 1 \in 1 .. MaxHops
    BY <1>5
  <2> QED BY <1>11, <2>1 DEF FirstEnds
<1>13. ASSUME NEW k \in 2 .. MaxHops
       PROVE  Reached(nw)[k] = NextEnds(nw, Reached(nw)[k - 1])
  <2>1. k \in 1 .. MaxHops /\ k # 1
    BY <1>5
  <2> QED BY <1>11, <2>1 DEF NextEnds
<1>14. \A k \in 1 .. MaxHops : Reached(nw)[k] \in SUBSET Ends(nw)
  <2> DEFINE Bad == {k \in Nat : k \in 1 .. MaxHops /\ Reached(nw)[k] \notin SUBSET Ends(nw)}
  <2>1. Bad = {}
    <3> SUFFICES ASSUME Bad # {} PROVE FALSE
      OBVIOUS
    <3>1. PICK k \in Bad : \A j \in Bad : k <= j
      BY LeastOf
    <3>2. k # 1
      BY <3>1, <1>1, <1>12
    <3>3. k - 1 \in Nat /\ k - 1 \in 1 .. MaxHops /\ k - 1 \notin Bad
      BY <3>1, <3>2, <1>5
    <3> QED
      BY <3>1, <3>2, <3>3, <1>2, <1>13
  <2> QED BY <2>1, <1>5
<1>15. Reached(nw) = [k \in 1 .. MaxHops |-> Reached(nw)[k]]
  BY <1>10
<1> QED
  BY <1>12, <1>13, <1>14, <1>15

LEMMA ReachedNext ==
  ASSUME NEW nw \in Networks, NEW k \in 1 .. MaxHops - 1,
         NEW e \in Range(nw.table), NEW l, <<e.router, l>> \in Reached(nw)[k]
  PROVE  <<e.neighbor, l>> \in Reached(nw)[k + 1]
<1>1. k + 1 \in 2 .. MaxHops /\ (k + 1) - 1 = k
  BY Shape
<1>2. Reached(nw)[k + 1] = NextEnds(nw, Reached(nw)[k])
  BY <1>1, ReachedIs
<1> DEFINE s == <<e, <<e.router, l>>>>
<1>3. s \in {x \in Range(nw.table) \X Reached(nw)[k] : x[1].router = x[2][1]}
  OBVIOUS
<1>4. <<s[1].neighbor, s[2][2]>> = <<e.neighbor, l>>
  OBVIOUS
<1> QED
  BY <1>2, <1>3, <1>4 DEF NextEnds

LEMMA HopsToNext ==
  ASSUME NEW nw \in Networks, NEW net, NEW k \in 2 .. MaxHops, NEW l
  PROVE  l \in HopsTo(nw, net, k) <=>
           \E e \in Range(nw.table) :
             e.net = net /\ <<e.router, l>> \in Reached(nw)[k - 1]
<1>1. k # 1 /\ k - 1 \in 1 .. MaxHops
  BY Shape
<1>2. Reached(nw)[k - 1] \subseteq Ends(nw)
  BY <1>1, ReachedIs
<1>3. ASSUME l \in HopsTo(nw, net, k)
      PROVE  \E e \in Range(nw.table) :
               e.net = net /\ <<e.router, l>> \in Reached(nw)[k - 1]
  <2>1. PICK x \in Reached(nw)[k - 1] :
          /\ l = x[2]
          /\ \E e \in Range(nw.table) : e.router = x[1] /\ e.net = net
    BY <1>1, <1>3 DEF HopsTo
  <2>2. x = <<x[1], x[2]>>
    BY <1>2 DEF Ends
  <2> QED BY <2>1, <2>2
<1>4. ASSUME NEW e \in Range(nw.table), e.net = net,
             <<e.router, l>> \in Reached(nw)[k - 1]
      PROVE  l \in HopsTo(nw, net, k)
  <2> DEFINE x == <<e.router, l>>
  <2>1. x \in {y \in Reached(nw)[k - 1] :
                 \E f \in Range(nw.table) : f.router = y[1] /\ f.net = net}
    BY <1>4
  <2>2. x[2] = l
    OBVIOUS
  <2> QED BY <1>1, <2>1, <2>2 DEF HopsTo
<1> QED
  BY <1>3, <1>4

LEMMA HopsToLinks ==
  ASSUME NEW nw \in Networks, NEW net, NEW k \in 1 .. MaxHops
  PROVE  HopsTo(nw, net, k) \subseteq DOMAIN nw.links
<1>1. CASE k = 1
  BY <1>1, Shape DEF HopsTo
<1>2. CASE k # 1
  <2>1. k \in 2 .. MaxHops /\ k - 1 \in 1 .. MaxHops
    BY <1>2, Shape
  <2>2. Reached(nw)[k - 1] \subseteq Ends(nw)
    BY <2>1, ReachedIs
  <2> SUFFICES ASSUME NEW l \in HopsTo(nw, net, k) PROVE l \in DOMAIN nw.links
    OBVIOUS
  <2>3. PICK e \in Range(nw.table) : <<e.router, l>> \in Reached(nw)[k - 1]
    BY <2>1, HopsToNext
  <2> QED BY <2>2, <2>3 DEF Ends
<1> QED
  BY <1>1, <1>2

(***************************************************************************)
(* A network is k hops away and no less.                                   *)
(***************************************************************************)
Nearest(nw, net, k) ==
  /\ k \in 1 .. MaxHops /\ HopsTo(nw, net, k) # {}
  /\ \A j \in 1 .. k - 1 : HopsTo(nw, net, j) = {}

LEMMA NearestIs ==
  ASSUME NEW nw \in Networks, NEW net, Reachable(nw, net)
  PROVE  \E k \in 1 .. MaxHops :
           Nearest(nw, net, k) /\ FirstLinks(nw, net) = HopsTo(nw, net, k)
<1> DEFINE Hops == {k \in Nat : k \in 1 .. MaxHops /\ HopsTo(nw, net, k) # {}}
           Is(k) == /\ k \in 1 .. MaxHops
                    /\ HopsTo(nw, net, k) # {}
                    /\ \A j \in 1 .. k - 1 : HopsTo(nw, net, j) = {}
<1>1. Hops # {}
  BY Shape DEF Reachable
<1>2. PICK k \in Hops : \A j \in Hops : k <= j
  BY <1>1, LeastOf
<1>3. Is(k)
  BY <1>2, Shape
<1> DEFINE c == CHOOSE j \in 1 .. MaxHops :
                  /\ HopsTo(nw, net, j) # {}
                  /\ \A i \in 1 .. j - 1 : HopsTo(nw, net, i) = {}
<1>4. Is(c)
  BY <1>3
<1>5. FirstLinks(nw, net) = HopsTo(nw, net, c)
  BY DEF FirstLinks
<1> HIDE DEF c
<1> QED
  BY <1>4, <1>5 DEF Nearest

(***************************************************************************)
(* A walk of m LSAs, each of the router that the one before names; and     *)
(* that one leads from a router to a network.                              *)
(***************************************************************************)
Walks(nw, m) ==
  {w \in [1 .. m -> Range(nw.table)] :
     \A i \in 1 .. m - 1 : w[i + 1].router = w[i].neighbor}
Leads(nw, r, net, m) ==
  \E w \in Walks(nw, m) : w[1].router = r /\ w[m].net = net

LEMMA LeadsOn ==
  ASSUME NEW nw \in Networks, NEW r, NEW net, NEW m \in Nat \ {0},
         Leads(nw, r, net, m)
  PROVE  \E e \in Range(nw.table) :
           /\ e.router = r /\ r \in Routers
           /\ m = 1 => e.net = net
           /\ m # 1 => Leads(nw, e.neighbor, net, m - 1)
<1>1. PICK w \in Walks(nw, m) : w[1].router = r /\ w[m].net = net
  BY DEF Leads
<1>2. 1 \in 1 .. m /\ w \in [1 .. m -> Range(nw.table)]
  BY <1>1 DEF Walks
<1>3. w[1] \in Range(nw.table) /\ r \in Routers
  BY <1>1, <1>2, Shape DEF Lsa
<1>4. ASSUME m # 1 PROVE Leads(nw, w[1].neighbor, net, m - 1)
  <2> DEFINE v == [i \in 1 .. m - 1 |-> w[i + 1]]
  <2>1. v \in [1 .. m - 1 -> Range(nw.table)]
    BY <1>2
  <2>2. ASSUME NEW i \in 1 .. (m - 1) - 1 PROVE v[i + 1].router = v[i].neighbor
    <3>1. i + 1 \in 1 .. m - 1 /\ i \in 1 .. m - 1
      OBVIOUS
    <3>2. w[(i + 1) + 1].router = w[i + 1].neighbor
      BY <3>1, <1>1 DEF Walks
    <3> QED BY <3>1, <3>2
  <2>3. 1 \in 1 .. m - 1 /\ m - 1 \in 1 .. m - 1 /\ (m - 1) + 1 = m
    BY <1>4
  <2>4. v[1].router = w[1].neighbor
    BY <2>3, <1>1 DEF Walks
  <2>5. v[m - 1].net = net
    BY <2>3, <1>1
  <2> HIDE DEF v
  <2> QED BY <2>1, <2>2, <2>4, <2>5 DEF Leads, Walks
<1> QED
  BY <1>1, <1>3, <1>4

LEMMA LeadsFrom ==
  ASSUME NEW nw \in Networks, NEW r, NEW net, NEW m \in Nat \ {0},
         Leads(nw, r, net, m)
  PROVE  r \in Routers
BY LeadsOn

LEMMA Joins ==
  ASSUME NEW nw \in Networks, NEW r, NEW l, NEW net,
         NEW i \in 1 .. MaxHops, NEW m \in Nat \ {0}, i + m <= MaxHops,
         <<r, l>> \in Reached(nw)[i], Leads(nw, r, net, m)
  PROVE  HopsTo(nw, net, i + m) # {}
<1>0. MaxHops \in Nat
  BY Shape
<1>1. PICK w \in Walks(nw, m) : w[1].router = r /\ w[m].net = net
  BY DEF Leads
<1>2. w \in [1 .. m -> Range(nw.table)]
  BY <1>1 DEF Walks
<1> DEFINE At(j) == <<w[j].router, l>> \in Reached(nw)[i + j - 1]
           Bad == {j \in Nat : j \in 1 .. m /\ ~At(j)}
<1>3. Bad = {}
  <2> SUFFICES ASSUME Bad # {} PROVE FALSE
    OBVIOUS
  <2>1. PICK j \in Bad : \A k \in Bad : j <= k
    BY LeastOf
  <2>2. j # 1
    BY <1>1, <2>1
  <2> DEFINE k == j - 1
  <2>3. k \in Nat /\ k \in 1 .. m - 1 /\ k < j /\ k \in 1 .. m /\ k + 1 = j
    BY <2>1, <2>2
  <2>4. At(k)
    BY <2>1, <2>3
  <2>5. w[j].router = w[k].neighbor
    BY <2>3, <1>1 DEF Walks
  <2>6. i + k - 1 \in 1 .. MaxHops - 1 /\ (i + k - 1) + 1 = i + j - 1
    BY <2>3, <1>0
  <2>7. w[k] \in Range(nw.table)
    BY <2>3, <1>2
  <2> HIDE DEF k
  <2>8. <<w[k].neighbor, l>> \in Reached(nw)[(i + k - 1) + 1]
    BY <2>4, <2>6, <2>7, ReachedNext
  <2> QED BY <2>1, <2>5, <2>6, <2>8
<1>4. At(m) /\ m \in 1 .. m
  BY <1>3
<1>5. i + m \in 2 .. MaxHops /\ (i + m) - 1 = i + m - 1
  BY <1>0
<1>6. w[m] \in Range(nw.table)
  BY <1>2, <1>4
<1>7. l \in HopsTo(nw, net, i + m)
  BY <1>1, <1>4, <1>5, <1>6, HopsToNext
<1> QED
  BY <1>7

LEMMA Splits ==
  ASSUME NEW nw \in Networks, NEW net, NEW k \in 2 .. MaxHops,
         HopsTo(nw, net, k) # {}
  PROVE  \E l \in Starts(nw) : Leads(nw, nw.links[l].neighbor, net, k - 1)
<1>0. MaxHops \in Nat \ {0}
  BY Shape
<1> DEFINE Traced(j) == \A x \in Reached(nw)[j] :
             /\ x[2] \in Starts(nw)
             /\ \A e \in Range(nw.table) : e.router = x[1] =>
                  \E w \in Walks(nw, j) :
                    w[1].router = nw.links[x[2]].neighbor /\ w[j] = e
           Bad == {j \in Nat : j \in 1 .. MaxHops /\ ~Traced(j)}
<1>1. Traced(1)
  <2> SUFFICES ASSUME NEW x \in Reached(nw)[1]
               PROVE  /\ x[2] \in Starts(nw)
                      /\ \A e \in Range(nw.table) : e.router = x[1] =>
                           \E w \in Walks(nw, 1) :
                             w[1].router = nw.links[x[2]].neighbor /\ w[1] = e
    OBVIOUS
  <2>1. PICK l \in Starts(nw) : x = <<nw.links[l].neighbor, l>>
    BY ReachedIs DEF FirstEnds
  <2>2. ASSUME NEW e \in Range(nw.table)
        PROVE  [i \in 1 .. 1 |-> e] \in Walks(nw, 1) /\ [i \in 1 .. 1 |-> e][1] = e
    BY DEF Walks
  <2> QED BY <2>1, <2>2
<1>2. ASSUME NEW j \in 1 .. MaxHops - 1, Traced(j)
      PROVE  Traced(j + 1)
  <2> SUFFICES ASSUME NEW x \in Reached(nw)[j + 1]
               PROVE  /\ x[2] \in Starts(nw)
                      /\ \A e \in Range(nw.table) : e.router = x[1] =>
                           \E w \in Walks(nw, j + 1) :
                             w[1].router = nw.links[x[2]].neighbor /\ w[j + 1] = e
    OBVIOUS
  <2>1. j + 1 \in 2 .. MaxHops /\ (j + 1) - 1 = j
    BY <1>0
  <2>2. Reached(nw)[j + 1] = NextEnds(nw, Reached(nw)[j])
    BY <2>1, ReachedIs
  <2>3. PICK f \in Range(nw.table), y \in Reached(nw)[j] :
          f.router = y[1] /\ x = <<f.neighbor, y[2]>>
    BY <2>2 DEF NextEnds
  <2>4. PICK v \in Walks(nw, j) :
          v[1].router = nw.links[y[2]].neighbor /\ v[j] = f
    BY <1>2, <2>3
  <2>5. x[2] \in Starts(nw)
    BY <1>2, <2>3
  <2>6. ASSUME NEW e \in Range(nw.table), e.router = x[1]
        PROVE  \E w \in Walks(nw, j + 1) :
                 w[1].router = nw.links[x[2]].neighbor /\ w[j + 1] = e
    <3> DEFINE w == [i \in 1 .. j + 1 |-> IF i = j + 1 THEN e ELSE v[i]]
    <3>1. v \in [1 .. j -> Range(nw.table)]
      BY <2>4 DEF Walks
    <3>2. \A i \in 1 .. j : w[i] = v[i] /\ i \in 1 .. j + 1
      OBVIOUS
    <3>3. w[j + 1] = e
      OBVIOUS
    <3>4. w \in [1 .. j + 1 -> Range(nw.table)]
      BY <3>1
    <3>5. ASSUME NEW i \in 1 .. (j + 1) - 1
          PROVE  w[i + 1].router = w[i].neighbor
      <4>1. CASE i = j
        BY <4>1, <3>2, <3>3, <2>3, <2>4, <2>6
      <4>2. CASE i # j
        <5>1. i \in 1 .. j - 1 /\ i \in 1 .. j /\ i + 1 \in 1 .. j
          BY <4>2
        <5>2. v[i + 1].router = v[i].neighbor
          BY <5>1, <2>4 DEF Walks
        <5> QED BY <5>1, <5>2, <3>2
      <4> QED BY <4>1, <4>2
    <3> HIDE DEF w
    <3>6. w \in Walks(nw, j + 1)
      BY <3>4, <3>5 DEF Walks
    <3>7. w[1] = v[1]
      BY <3>2
    <3> QED BY <3>3, <3>6, <3>7, <2>3, <2>4
  <2> QED BY <2>5, <2>6
<1>3. Bad = {}
  <2> SUFFICES ASSUME Bad # {} PROVE FALSE
    OBVIOUS
  <2>1. PICK j \in Bad : \A i \in Bad : j <= i
    BY LeastOf
  <2> HIDE DEF Traced
  <2>2. j # 1
    BY <1>1, <2>1
  <2>3. j - 1 \in Nat /\ j - 1 \in 1 .. MaxHops - 1 /\ j - 1 \in 1 .. MaxHops
        /\ j - 1 < j /\ (j - 1) + 1 = j
    BY <1>0, <2>1, <2>2
  <2>4. Traced(j - 1)
    BY <2>1, <2>3
  <2> QED BY <1>2, <2>1, <2>3, <2>4
<1>4. k - 1 \in 1 .. MaxHops /\ k - 1 \in Nat
  BY <1>0
<1>5. Traced(k - 1)
  <2> HIDE DEF Traced
  <2> QED BY <1>3, <1>4
<1>6. PICK l : l \in HopsTo(nw, net, k)
  OBVIOUS
<1>7. PICK e \in Range(nw.table) :
        e.net = net /\ <<e.router, l>> \in Reached(nw)[k - 1]
  BY <1>6, HopsToNext
<1>8. PICK w \in Walks(nw, k - 1) :
        /\ <<e.router, l>>[2] \in Starts(nw)
        /\ w[1].router = nw.links[<<e.router, l>>[2]].neighbor /\ w[k - 1] = e
  BY <1>5, <1>7
<1>9. l \in Starts(nw) /\ w[1].router = nw.links[l].neighbor
  BY <1>8
<1> QED
  BY <1>7, <1>8, <1>9 DEF Leads

-----------------------------------------------------------------------------
(***************************************************************************)
(* The list, in order of cost: what one pass does to a sorted list with an *)
(* item in front.                                                          *)
(***************************************************************************)
Sorted(h) == \A i, j \in DOMAIN h : i <= j => h[i].cost <= h[j].cost

NextPass(p, y) ==
  IF Last(p).cost > y.cost THEN Front(p) \o <<y, Last(p)>> ELSE Append(p, y)

LEMMA Concat ==
  ASSUME NEW S, NEW a \in Seq(S), NEW b \in Seq(S)
  PROVE  /\ a \o b \in Seq(S) /\ Len(a \o b) = Len(a) + Len(b)
         /\ \A i \in 1 .. Len(a) : (a \o b)[i] = a[i]
         /\ \A i \in 1 .. Len(b) : (a \o b)[Len(a) + i] = b[i]
OBVIOUS

LEMMA NextPassIs ==
  ASSUME NEW S, \A y \in S : y.cost \in Nat,
         NEW p \in Seq(S), NEW y \in S, p # <<>>
  PROVE  /\ NextPass(p, y) \in Seq(S) \ {<<>>}
         /\ Len(NextPass(p, y)) = Len(p) + 1
         /\ Range(NextPass(p, y)) = Range(p) \cup {y}
         /\ Sorted(p) /\ (\A i \in 1 .. Len(p) - 1 : p[i].cost <= y.cost) =>
              /\ Sorted(NextPass(p, y))
              /\ \A i \in 1 .. Len(p) : NextPass(p, y)[i].cost <= y.cost
<1> DEFINE n == Len(p)
           q == NextPass(p, y)
<1>1. n \in Nat \ {0} /\ DOMAIN p = 1 .. n /\ n \in 1 .. n /\ Len(p) = n
  OBVIOUS
<1> HIDE DEF n
<1>2. Last(p) = p[n] /\ p[n] \in S
  BY <1>1 DEF Last
<1>3. \A i \in 1 .. n : p[i] \in S /\ p[i].cost \in Nat
  BY <1>1
<1>4. y.cost \in Nat
  OBVIOUS
<1>5. CASE p[n].cost > y.cost
  <2>1. q = Front(p) \o <<y, p[n]>>
    BY <1>2, <1>5 DEF NextPass
  <2>2. Front(p) \in Seq(S) /\ Len(Front(p)) = n - 1
        /\ \A i \in 1 .. n - 1 : Front(p)[i] = p[i]
    BY <1>1 DEF Front
  <2>3. <<y, p[n]>> \in Seq(S) /\ Len(<<y, p[n]>>) = 2
        /\ <<y, p[n]>>[1] = y /\ <<y, p[n]>>[2] = p[n]
    BY <1>2
  <2>4. q \in Seq(S) /\ Len(q) = n + 1 /\ DOMAIN q = 1 .. n + 1
    BY <1>1, <2>1, <2>2, <2>3
  <2>5. \A i \in 1 .. n - 1 : q[i] = p[i]
    BY <1>1, <2>1, <2>2, <2>3
  <2>6. q[n] = y /\ q[n + 1] = p[n]
    <3>1. n = Len(Front(p)) + 1 /\ n + 1 = Len(Front(p)) + 2
      BY <1>1, <2>2
    <3>2. q[Len(Front(p)) + 1] = <<y, p[n]>>[1] /\ q[Len(Front(p)) + 2] = <<y, p[n]>>[2]
      <4> DEFINE a == Front(p)
                 b == <<y, p[n]>>
      <4>1. a \in Seq(S) /\ b \in Seq(S) /\ 1 \in 1 .. Len(b) /\ 2 \in 1 .. Len(b)
        BY <2>2, <2>3
      <4>2. q = a \o b
        BY <2>1
      <4> HIDE DEF a, b, q
      <4>3. q[Len(a) + 1] = b[1] /\ q[Len(a) + 2] = b[2]
        BY <4>1, <4>2, Concat
      <4> QED BY <4>3 DEF a, b
    <3> HIDE DEF q
    <3> QED BY <3>1, <3>2, <2>3
  <2>7. \A i \in 1 .. n + 1 : i \in 1 .. n - 1 \/ i = n \/ i = n + 1
    BY <1>1
  <2> HIDE DEF q
  <2>8. Range(q) = Range(p) \cup {y}
    <3>1. ASSUME NEW z \in Range(q) PROVE z \in Range(p) \cup {y}
      BY <1>1, <2>4, <2>5, <2>6, <2>7 DEF Range
    <3>2. ASSUME NEW z \in Range(p) PROVE z \in Range(q)
      <4>1. PICK i \in 1 .. n : z = p[i]
        BY <1>1 DEF Range
      <4>2. CASE i = n
        BY <1>1, <2>4, <2>6, <4>1, <4>2 DEF Range
      <4>3. CASE i # n
        <5>1. i \in 1 .. n - 1 /\ i \in 1 .. n + 1
          BY <1>1, <4>3
        <5> QED BY <5>1, <2>4, <2>5, <4>1 DEF Range
      <4> QED BY <4>2, <4>3
    <3>3. y \in Range(q)
      BY <1>1, <2>4, <2>6 DEF Range
    <3> QED BY <3>1, <3>2, <3>3
  <2>9. ASSUME Sorted(p), \A i \in 1 .. n - 1 : p[i].cost <= y.cost
        PROVE  Sorted(q) /\ \A i \in 1 .. n : q[i].cost <= y.cost
    <3>1. \A i \in 1 .. n : q[i].cost <= y.cost
      <4> TAKE i \in 1 .. n
      <4>1. i \in 1 .. n - 1 \/ i = n
        BY <1>1
      <4> QED BY <4>1, <2>5, <2>6, <2>9, <1>4
    <3>2. ASSUME NEW i \in 1 .. n + 1, NEW j \in 1 .. n + 1, i <= j
          PROVE  q[i].cost <= q[j].cost
      <4>1. CASE j = n + 1
        <5>1. CASE i = n + 1
          BY <5>1, <4>1, <2>6, <1>3, <1>1
        <5>2. CASE i # n + 1
          <6>1. i \in 1 .. n /\ (i \in 1 .. n - 1 \/ i = n)
            BY <5>2, <1>1
          <6>2. q[i].cost \in Nat
            BY <6>1, <2>5, <2>6, <1>3, <1>4
          <6>3. q[i].cost <= y.cost
            BY <3>1, <5>2, <1>1
          <6> QED BY <6>2, <6>3, <4>1, <2>6, <1>5, <1>3, <1>4, <1>1
        <5> QED BY <5>1, <5>2
      <4>2. CASE j = n
        <5>1. i \in 1 .. n
          BY <4>2, <3>2, <1>1
        <5> QED BY <5>1, <4>2, <3>1, <2>6
      <4>3. CASE j \in 1 .. n - 1
        <5>1. i \in 1 .. n - 1 /\ i \in 1 .. n /\ j \in 1 .. n
          BY <4>3, <3>2, <1>1
        <5> QED BY <5>1, <4>3, <3>2, <2>5, <2>9, <1>1 DEF Sorted
      <4> QED BY <4>1, <4>2, <4>3, <2>7
    <3> QED BY <3>1, <3>2, <2>4 DEF Sorted
  <2>10. q # <<>>
    BY <2>4, <1>1
  <2> QED BY <2>4, <2>8, <2>9, <2>10 DEF q, n
<1>6. CASE ~(p[n].cost > y.cost)
  <2>1. q = Append(p, y)
    BY <1>2, <1>6 DEF NextPass
  <2>2. q \in Seq(S) /\ Len(q) = n + 1 /\ DOMAIN q = 1 .. n + 1
    BY <1>1, <2>1
  <2>3. q[n + 1] = y /\ \A i \in 1 .. n : q[i] = p[i]
    BY <1>1, <2>1
  <2>4. \A i \in 1 .. n + 1 : i \in 1 .. n \/ i = n + 1
    BY <1>1
  <2> HIDE DEF q
  <2>5. Range(q) = Range(p) \cup {y}
    BY <1>1, <2>2, <2>3, <2>4 DEF Range
  <2>6. ASSUME Sorted(p), \A i \in 1 .. n - 1 : p[i].cost <= y.cost
        PROVE  Sorted(q) /\ \A i \in 1 .. n : q[i].cost <= y.cost
    <3>1. p[n].cost <= y.cost
      BY <1>1, <1>3, <1>4, <1>6
    <3>2. \A i \in 1 .. n : q[i].cost <= y.cost
      <4> TAKE i \in 1 .. n
      <4>1. i \in 1 .. n - 1 \/ i = n
        BY <1>1
      <4> QED BY <4>1, <2>3, <2>6, <3>1
    <3>3. ASSUME NEW i \in 1 .. n + 1, NEW j \in 1 .. n + 1, i <= j
          PROVE  q[i].cost <= q[j].cost
      <4>1. CASE j = n + 1
        <5>1. CASE i = n + 1
          BY <5>1, <4>1, <2>3, <1>4
        <5>2. CASE i # n + 1
          BY <5>2, <4>1, <3>2, <2>3, <1>1
        <5> QED BY <5>1, <5>2
      <4>2. CASE j # n + 1
        <5>1. i \in 1 .. n /\ j \in 1 .. n
          BY <4>2, <1>1, <3>3
        <5> QED BY <5>1, <2>3, <2>6, <1>1, <3>3 DEF Sorted
      <4> QED BY <4>1, <4>2
    <3> QED BY <3>2, <3>3, <2>2 DEF Sorted
  <2>7. q # <<>>
    BY <2>2, <1>1
  <2> QED BY <2>2, <2>5, <2>6, <2>7 DEF q, n
<1> QED
  BY <1>5, <1>6

LEMMA InFront ==
  ASSUME NEW S, NEW x \in S, NEW h \in Seq(S)
  PROVE  LET s == <<x>> \o h
             n == Len(h) + 1
         IN /\ s \in Seq(S) /\ Len(s) = n /\ n \in Nat /\ 1 <= n
            /\ DOMAIN s = 1 .. n /\ DOMAIN h = 1 .. n - 1
            /\ s[1] = x /\ \A i \in 2 .. n : s[i] = h[i - 1]
            /\ Range(s) = Range(h) \cup {x}
<1> DEFINE s == <<x>> \o h
           n == Len(h) + 1
<1>1. /\ s \in Seq(S) /\ Len(s) = n /\ n \in Nat /\ 1 <= n
      /\ DOMAIN s = 1 .. n /\ DOMAIN h = 1 .. n - 1
      /\ s[1] = x /\ \A i \in 2 .. n : s[i] = h[i - 1]
  <2>1. <<x>> \in Seq(S) /\ Len(<<x>>) = 1 /\ <<x>>[1] = x
    OBVIOUS
  <2> DEFINE a == <<x>>
  <2> HIDE DEF a
  <2>2. /\ a \o h \in Seq(S) /\ Len(a \o h) = 1 + Len(h)
        /\ (a \o h)[1] = x
        /\ \A i \in 1 .. Len(h) : (a \o h)[1 + i] = h[i]
    BY <2>1, Concat DEF a
  <2>3. ASSUME NEW i \in 2 .. Len(h) + 1 PROVE (a \o h)[i] = h[i - 1]
    <3>1. i - 1 \in 1 .. Len(h) /\ 1 + (i - 1) = i
      OBVIOUS
    <3> QED BY <3>1, <2>2
  <2> QED BY <2>2, <2>3 DEF a
<1> HIDE DEF s, n
<1>2. {s[i] : i \in 1 .. n} = Range(h) \cup {x}
  <2>1. \A i \in 1 .. n : i = 1 \/ (i \in 2 .. n /\ i - 1 \in 1 .. n - 1)
    BY <1>1
  <2>2. ASSUME NEW z \in {s[i] : i \in 1 .. n} PROVE z \in Range(h) \cup {x}
    <3>1. PICK i \in 1 .. n : z = s[i]
      OBVIOUS
    <3>2. CASE i = 1
      BY <3>1, <3>2, <1>1
    <3>3. CASE i # 1
      BY <3>1, <3>3, <2>1, <1>1 DEF Range
    <3> QED BY <3>2, <3>3
  <2>3. ASSUME NEW i \in 1 .. n - 1 PROVE h[i] \in {s[j] : j \in 1 .. n}
    <3>1. i + 1 \in 2 .. n /\ i + 1 \in 1 .. n /\ (i + 1) - 1 = i
      BY <1>1
    <3>2. s[i + 1] = h[i]
      BY <3>1, <1>1
    <3> QED BY <3>1, <3>2
  <2>4. x \in {s[j] : j \in 1 .. n}
    BY <1>1
  <2>5. Range(h) \subseteq {s[j] : j \in 1 .. n}
    BY <2>3, <1>1 DEF Range
  <2> QED BY <2>2, <2>4, <2>5
<1>3. Range(s) = Range(h) \cup {x}
  BY <1>1, <1>2 DEF Range
<1> QED
  BY <1>1, <1>3 DEF s, n

LEMMA ReorderIs ==
  ASSUME NEW S, \A y \in S : y.cost \in Nat,
         NEW x \in S, NEW h \in Seq(S), Sorted(h)
  PROVE  /\ Reorder(<<x>> \o h) \in Seq(S)
         /\ Sorted(Reorder(<<x>> \o h))
         /\ Range(Reorder(<<x>> \o h)) = Range(h) \cup {x}
<1> DEFINE s == <<x>> \o h
           n == Len(s)
           T == Seq(S) \ {<<>>}
           step == [z \in (1 + 1 .. n) \X T |-> NextPass(z[2], s[z[1]])]
<1>1. /\ s \in Seq(S) /\ n = Len(h) + 1 /\ n \in Nat /\ 1 <= n /\ 1 \in Nat
      /\ DOMAIN s = 1 .. n /\ DOMAIN h = 1 .. n - 1
      /\ s[1] = x /\ \A i \in 2 .. n : s[i] = h[i - 1]
  BY InFront
<1> HIDE DEF s, n
<1>2. \A i \in 1 .. n : s[i] \in S
  BY <1>1
<1>3. ASSUME NEW p \in T, NEW k \in 1 + 1 .. n
      PROVE  NextPass(p, s[k]) \in T
  <2>1. s[k] \in S /\ p \in Seq(S) /\ p # <<>>
    BY <1>1, <1>2
  <2> QED BY <2>1, NextPassIs
<1>4. step \in Steps(1, n, T)
  BY <1>3 DEF Steps
<1>5. <<x>> \in T
  OBVIOUS
<1>6. PICK f \in [1 .. n -> T] : IsRecursion(f, 1, n, <<x>>, step)
  <2> HIDE DEF step, T
  <2> QED BY <1>1, <1>4, <1>5, Recursion DEF Recursive
<1>7. ASSUME NEW k \in 2 .. n PROVE f[k] = NextPass(f[k - 1], s[k])
  <2>1. k - 1 \in 1 .. n /\ k \in 1 + 1 .. n
    BY <1>1
  <2>2. f[k - 1] \in T
    BY <2>1
  <2>3. f[k] = step[<<k, f[k - 1]>>]
    BY <2>1, <1>6 DEF IsRecursion
  <2> HIDE DEF T
  <2> QED BY <2>1, <2>2, <2>3
<1> DEFINE Is(g) == g = [k \in 1 .. n |->
             IF k = 1 THEN <<s[1]>>
             ELSE LET p == g[k - 1]
                  IN IF Last(p).cost > s[k].cost
                     THEN Front(p) \o <<s[k], Last(p)>> ELSE Append(p, s[k])]
<1>8. Is(f)
  <2>1. ASSUME NEW k \in 1 .. n
        PROVE  f[k] = IF k = 1 THEN <<s[1]>>
                      ELSE LET p == f[k - 1]
                           IN IF Last(p).cost > s[k].cost
                              THEN Front(p) \o <<s[k], Last(p)>> ELSE Append(p, s[k])
    <3>1. CASE k = 1
      BY <1>1, <1>6, <3>1 DEF IsRecursion
    <3>2. CASE k # 1
      <4>1. k \in 2 .. n
        BY <3>2, <1>1
      <4> QED BY <4>1, <3>2, <1>7 DEF NextPass
    <3> QED BY <3>1, <3>2
  <2>2. f = [k \in 1 .. n |-> f[k]]
    OBVIOUS
  <2> HIDE DEF T, step
  <2> QED BY <2>1, <2>2
<1> DEFINE pass == CHOOSE g : Is(g)
<1>9. Reorder(s) = pass[n]
  <2>1. s # <<>>
    BY <1>1
  <2> QED BY <2>1 DEF Reorder, n
<1>10. Is(pass)
  <2> HIDE DEF Is
  <2> QED BY <1>8
<1> HIDE DEF pass
<1>11. pass[1] = <<x>>
  BY <1>1, <1>10
<1>12. ASSUME NEW k \in 2 .. n PROVE pass[k] = NextPass(pass[k - 1], s[k])
  <2>1. k \in 1 .. n /\ k # 1
    BY <1>1
  <2> QED BY <1>10, <2>1 DEF NextPass
<1> HIDE DEF Is, step
\* The items passed are in order, and all but the last below those to come.
<1> DEFINE Done(k) ==
             /\ pass[k] \in Seq(S) /\ Len(pass[k]) = k
             /\ Range(pass[k]) = {s[i] : i \in 1 .. k}
             /\ Sorted(pass[k])
             /\ \A i \in 1 .. k - 1, j \in k + 1 .. n : pass[k][i].cost <= s[j].cost
           Bad == {k \in Nat : k \in 1 .. n /\ ~Done(k)}
<1>13. Done(1)
  <2>1. <<x>> \in Seq(S) /\ Len(<<x>>) = 1 /\ DOMAIN <<x>> = 1 .. 1 /\ <<x>>[1] = x
    OBVIOUS
  <2>2. Range(<<x>>) = {x}
    BY <2>1 DEF Range
  <2>3. {s[i] : i \in 1 .. 1} = {x}
    BY <1>1
  <2>4. Sorted(<<x>>)
    BY <2>1 DEF Sorted
  <2>5. \A i \in 1 .. 1 - 1, j \in 1 + 1 .. n : pass[1][i].cost <= s[j].cost
    OBVIOUS
  <2>6. pass[1] \in Seq(S) /\ Len(pass[1]) = 1
    BY <1>11, <2>1
  <2>7. Range(pass[1]) = {s[i] : i \in 1 .. 1} /\ Sorted(pass[1])
    BY <1>11, <2>2, <2>3, <2>4
  <2> QED BY <2>5, <2>6, <2>7
<1>14. ASSUME NEW k \in 2 .. n, Done(k - 1) PROVE Done(k)
  <2> DEFINE p == pass[k - 1]
             y == s[k]
  <2>1. y \in S /\ p \in Seq(S) /\ Len(p) = k - 1 /\ p # <<>> /\ Sorted(p)
    BY <1>2, <1>1, <1>14
  <2>2. \A i \in 1 .. Len(p) - 1 : p[i].cost <= y.cost
    BY <2>1, <1>1, <1>14
  <2>3. pass[k] = NextPass(p, y)
    BY <1>12
  <2>4. /\ pass[k] \in Seq(S) /\ Len(pass[k]) = Len(p) + 1
        /\ Range(pass[k]) = Range(p) \cup {y}
        /\ Sorted(pass[k])
        /\ \A i \in 1 .. Len(p) : pass[k][i].cost <= y.cost
    <3> HIDE DEF p, y
    <3>1. /\ NextPass(p, y) \in Seq(S) \ {<<>>}
          /\ Len(NextPass(p, y)) = Len(p) + 1
          /\ Range(NextPass(p, y)) = Range(p) \cup {y}
          /\ Sorted(p) /\ (\A i \in 1 .. Len(p) - 1 : p[i].cost <= y.cost) =>
               /\ Sorted(NextPass(p, y))
               /\ \A i \in 1 .. Len(p) : NextPass(p, y)[i].cost <= y.cost
      BY <2>1, NextPassIs
    <3> QED BY <2>1, <2>2, <2>3, <3>1
  <2>5. {s[i] : i \in 1 .. k} = {s[i] : i \in 1 .. k - 1} \cup {y}
    <3>1. \A i \in 1 .. k : i \in 1 .. k - 1 \/ i = k
      OBVIOUS
    <3>2. \A i \in 1 .. k - 1 : i \in 1 .. k
      OBVIOUS
    <3>3. k \in 1 .. k
      OBVIOUS
    <3> QED BY <3>1, <3>2, <3>3
  <2>6. ASSUME NEW i \in 1 .. k - 1, NEW j \in k + 1 .. n
        PROVE  pass[k][i].cost <= s[j].cost
    <3>1. pass[k][i].cost <= y.cost
      BY <2>1, <2>4
    <3>2. s[k] = h[k - 1] /\ s[j] = h[j - 1] /\ k - 1 \in 1 .. n - 1
          /\ j - 1 \in 1 .. n - 1 /\ k - 1 <= j - 1
      BY <1>1
    <3>3. y.cost <= s[j].cost
      BY <3>2, <1>1 DEF Sorted
    <3>4. pass[k][i] \in S /\ y \in S /\ s[j] \in S
      BY <1>1, <1>2, <2>1, <2>4
    <3> HIDE DEF y
    <3>5. pass[k][i].cost \in Nat /\ y.cost \in Nat /\ s[j].cost \in Nat
      BY <3>4
    <3> QED BY <3>1, <3>3, <3>5
  <2> QED BY <2>1, <2>4, <2>5, <2>6, <1>14
<1>15. Bad = {}
  <2> SUFFICES ASSUME Bad # {} PROVE FALSE
    OBVIOUS
  <2>1. PICK k \in Bad : \A j \in Bad : k <= j
    BY LeastOf
  <2> HIDE DEF Done
  <2>2. k # 1
    BY <1>13, <2>1
  <2>3. k - 1 \in Nat /\ k - 1 \in 1 .. n /\ k - 1 < k /\ k \in 2 .. n
    BY <1>1, <2>1, <2>2
  <2>4. Done(k - 1)
    BY <2>1, <2>3
  <2> QED BY <1>14, <2>1, <2>3, <2>4
<1>16. Done(n)
  <2> HIDE DEF Done
  <2> QED BY <1>1, <1>15
<1>17. {s[i] : i \in 1 .. n} = Range(h) \cup {x}
  <2>1. Range(s) = Range(h) \cup {x}
    BY InFront DEF s
  <2> QED BY <2>1, <1>1 DEF Range
<1> QED
  BY <1>9, <1>16, <1>17 DEF s

-----------------------------------------------------------------------------
(***************************************************************************)
(* What PushLinks and Expand put into the list.                            *)
(***************************************************************************)
OwnItem(l) == Item(links[l].net, links[l].neighbor, 1, l)
ItemTo(e) == Item(e.net, e.neighbor, NextCost(last), last.link)
Added == {ItemTo(e) : e \in {f \in Range(table) : Follows(f, last)}}
Lists == {h \in Seq(Items) : Sorted(h)}
Positive(h) == \A i \in DOMAIN h : h[i].cost # 0

LEMMA Costs ==
  /\ \A x \in Items : x.cost \in Nat
  /\ \A c \in Nat : c % CostSize \in 0 .. CostSize - 1
  /\ \A c \in 0 .. CostSize - 1 : c % CostSize = c
  /\ CostSize \in Nat /\ 2 <= CostSize
<1>1. CostSize \in Nat /\ 2 <= CostSize
  BY DijkstraAssumption
<1>2. \A c \in Nat : c % CostSize \in 0 .. CostSize - 1
  BY <1>1
<1>3. \A c \in 0 .. CostSize - 1 : c % CostSize = c
  BY <1>1
<1> QED
  BY <1>1, <1>2, <1>3 DEF Items

LEMMA PushedIs ==
  ASSUME network \in Networks, heap \in Lists, last \in Items
  PROVE  /\ Pushed \in Lists
         /\ Range(Pushed) = Range(heap) \cup Added
<1> DEFINE n == Len(table)
           x(k) == ItemTo(table[k])
           step == [z \in (0 + 1 .. n) \X Lists |->
                      IF Follows(table[z[1]], last)
                      THEN Reorder(<<x(z[1])>> \o z[2]) ELSE z[2]]
           Is(g) == g = [k \in 0 .. n |->
                      IF k = 0 THEN heap
                      ELSE LET h == g[k - 1]
                               e == table[k]
                           IN IF Follows(e, last)
                              THEN Reorder(<<Item(e.net, e.neighbor, NextCost(last),
                                                  last.link)>> \o h)
                              ELSE h]
<1>1. table \in Seq(Lsa) /\ n \in Nat /\ 0 \in Nat /\ 0 <= n /\ DOMAIN table = 1 .. n
  BY Shape DEF table
<1>2. ASSUME NEW k \in 1 .. n PROVE x(k) \in Items
  <2>1. table[k].net \in Nets /\ table[k].neighbor \in Nat
    <3>1. table[k] \in Lsa
      BY <1>1
    <3> QED BY <3>1 DEF Lsa
  <2>2. last.cost + 1 \in Nat /\ last.link \in DOMAIN links
    <3>1. last.cost \in Nat
      BY Costs
    <3>2. last.link \in DOMAIN links
      BY DEF Items
    <3> QED BY <3>1, <3>2
  <2>3. (last.cost + 1) % CostSize \in 0 .. CostSize - 1
    BY <2>2, Costs
  <2> QED BY <2>1, <2>2, <2>3 DEF ItemTo, Item, NextCost, Items
<1> HIDE DEF x
<1>3. ASSUME NEW k \in 1 .. n, NEW h \in Lists
      PROVE  /\ Reorder(<<x(k)>> \o h) \in Lists
             /\ Range(Reorder(<<x(k)>> \o h)) = Range(h) \cup {x(k)}
  <2>1. x(k) \in Items /\ h \in Seq(Items) /\ Sorted(h)
    BY <1>2 DEF Lists
  <2> QED BY <2>1, ReorderIs, Costs DEF Lists
<1>4. step \in Steps(0, n, Lists)
  <2>1. 0 + 1 .. n = 1 .. n
    OBVIOUS
  <2> HIDE DEF n
  <2> QED BY <2>1, <1>3 DEF Steps
<1>5. PICK f \in [0 .. n -> Lists] : IsRecursion(f, 0, n, heap, step)
  <2> HIDE DEF step, n
  <2> QED BY <1>1, <1>4, Recursion DEF Recursive
<1>6. Is(f)
  <2>1. ASSUME NEW k \in 0 .. n
        PROVE  f[k] = IF k = 0 THEN heap
                      ELSE IF Follows(table[k], last)
                           THEN Reorder(<<x(k)>> \o f[k - 1]) ELSE f[k - 1]
    <3>1. CASE k = 0
      BY <1>5, <3>1 DEF IsRecursion
    <3>2. CASE k # 0
      <4>1. k \in 0 + 1 .. n /\ k - 1 \in 0 .. n
        BY <1>1, <3>2
      <4>2. f[k - 1] \in Lists /\ f[k] = step[<<k, f[k - 1]>>]
        BY <4>1, <1>5 DEF IsRecursion
      <4> QED BY <4>1, <4>2, <3>2
    <3> QED BY <3>1, <3>2
  <2>2. f = [k \in 0 .. n |-> f[k]]
    OBVIOUS
  <2> HIDE DEF step
  <2> QED BY <2>1, <2>2 DEF x, ItemTo
<1> DEFINE pushed == CHOOSE g : Is(g)
<1>7. Pushed = pushed[n]
  BY DEF Pushed
<1>8. Is(pushed)
  <2> HIDE DEF Is
  <2> QED BY <1>6
<1> HIDE DEF pushed
<1>9. pushed[0] = heap
  BY <1>1, <1>8
<1>10. ASSUME NEW k \in 1 .. n
       PROVE  pushed[k] = IF Follows(table[k], last)
                          THEN Reorder(<<x(k)>> \o pushed[k - 1]) ELSE pushed[k - 1]
  <2>1. k \in 0 .. n /\ k # 0
    BY <1>1
  <2> QED BY <2>1, <1>8 DEF x, ItemTo
<1> HIDE DEF Is, step
<1> DEFINE New(k) == {x(i) : i \in {j \in 1 .. k : Follows(table[j], last)}}
           Done(k) == pushed[k] \in Lists /\ Range(pushed[k]) = Range(heap) \cup New(k)
           Bad == {k \in Nat : k \in 0 .. n /\ ~Done(k)}
<1>11. Done(0)
  <2>1. New(0) = {}
    OBVIOUS
  <2> QED BY <2>1, <1>9
<1>12. ASSUME NEW k \in 1 .. n, Done(k - 1) PROVE Done(k)
  <2>1. \A i \in 1 .. k : i \in 1 .. k - 1 \/ i = k
    OBVIOUS
  <2>2. \A i \in 1 .. k - 1 : i \in 1 .. k
    OBVIOUS
  <2>3. k \in 1 .. k
    OBVIOUS
  <2>4. CASE Follows(table[k], last)
    <3>1. New(k) = New(k - 1) \cup {x(k)}
      BY <2>1, <2>2, <2>3, <2>4
    <3> HIDE DEF New
    <3> QED BY <3>1, <2>4, <1>3, <1>10, <1>12
  <2>5. CASE ~Follows(table[k], last)
    <3>1. New(k) = New(k - 1)
      BY <2>1, <2>2, <2>5
    <3> HIDE DEF New
    <3> QED BY <3>1, <2>5, <1>10, <1>12
  <2> QED BY <2>4, <2>5
<1>13. Bad = {}
  <2> SUFFICES ASSUME Bad # {} PROVE FALSE
    OBVIOUS
  <2>1. PICK k \in Bad : \A j \in Bad : k <= j
    BY LeastOf
  <2> HIDE DEF Done
  <2>2. k # 0
    BY <1>11, <2>1
  <2>3. k - 1 \in Nat /\ k - 1 \in 0 .. n /\ k - 1 < k /\ k \in 1 .. n
    BY <1>1, <2>1, <2>2
  <2>4. Done(k - 1)
    BY <2>1, <2>3
  <2> QED BY <1>12, <2>1, <2>3, <2>4
<1>14. Done(n)
  <2> HIDE DEF Done
  <2> QED BY <1>1, <1>13
<1>15. New(n) = Added
  BY <1>1 DEF Added, x, Range
<1> QED
  BY <1>7, <1>14, <1>15

LEMMA OwnPushedIs ==
  ASSUME network \in Networks, heap \in Lists, Positive(heap)
  PROVE  /\ OwnPushed \in Lists
         /\ Positive(OwnPushed)
         /\ Range(OwnPushed) = Range(heap) \cup {OwnItem(l) : l \in Starts(network)}
<1> DEFINE n == Len(links)
           T == {h \in Lists : Positive(h)}
           step == [z \in (0 + 1 .. n) \X T |->
                      IF Usable(z[1]) THEN <<OwnItem(z[1])>> \o z[2] ELSE z[2]]
           Is(g) == g = [l \in 0 .. n |->
                      IF l = 0 THEN heap
                      ELSE IF Usable(l)
                      THEN <<Item(links[l].net, links[l].neighbor, 1, l)>> \o g[l - 1]
                      ELSE g[l - 1]]
<1>1. links \in Seq(Link) /\ n \in Nat /\ 0 \in Nat /\ 0 <= n /\ DOMAIN links = 1 .. n
  BY Shape DEF links
<1>2. ASSUME NEW l \in 1 .. n PROVE OwnItem(l) \in Items /\ OwnItem(l).cost = 1
  <2>1. links[l].net \in Nets /\ links[l].neighbor \in Nat
    <3>1. links[l] \in Link
      BY <1>1
    <3>2. links[l].net \in Nets /\ links[l].neighbor \in Routers \cup {None}
      BY <3>1 DEF Link
    <3>3. Routers \cup {None} \subseteq Nat
      BY DijkstraAssumption DEF None
    <3> QED BY <3>2, <3>3
  <2>2. 1 % CostSize = 1 /\ 1 \in 0 .. CostSize - 1
    <3>1. 1 \in 0 .. CostSize - 1
      BY Costs
    <3> QED BY <3>1, Costs
  <2>3. l \in DOMAIN links
    BY <1>1
  <2> QED BY <2>1, <2>2, <2>3 DEF OwnItem, Item, Items
<1>3. ASSUME NEW l \in 1 .. n, NEW h \in T
      PROVE  /\ <<OwnItem(l)>> \o h \in T
             /\ Range(<<OwnItem(l)>> \o h) = Range(h) \cup {OwnItem(l)}
  <2> DEFINE x == OwnItem(l)
             s == <<x>> \o h
             m == Len(h) + 1
  <2>1. x \in Items /\ x.cost = 1 /\ h \in Seq(Items) /\ Sorted(h) /\ Positive(h)
    BY <1>2 DEF Lists
  <2>2. /\ s \in Seq(Items) /\ Len(s) = m /\ m \in Nat /\ 1 <= m
        /\ DOMAIN s = 1 .. m /\ DOMAIN h = 1 .. m - 1
        /\ s[1] = x /\ \A i \in 2 .. m : s[i] = h[i - 1]
        /\ Range(s) = Range(h) \cup {x}
    <3> HIDE DEF x
    <3> QED BY <2>1, InFront
  <2> HIDE DEF s, m, x
  <2>3. \A i \in 1 .. m - 1 : h[i].cost \in Nat /\ 1 <= h[i].cost
    <3> TAKE i \in 1 .. m - 1
    <3>0. h[i] \in Items
      BY <2>1, <2>2
    <3>1. h[i].cost # 0
      BY <2>1, <2>2 DEF Positive
    <3>2. h[i].cost \in Nat
      BY <3>0, Costs
    <3> QED BY <3>1, <3>2
  <2>4. Positive(s)
    <3>1. ASSUME NEW i \in 1 .. m PROVE s[i].cost # 0
      <4>1. CASE i = 1
        BY <4>1, <2>1, <2>2
      <4>2. CASE i # 1
        <5>1. i \in 2 .. m /\ i - 1 \in 1 .. m - 1
          BY <4>2, <2>2
        <5> QED BY <5>1, <2>2, <2>3
      <4> QED BY <4>1, <4>2
    <3> QED BY <3>1, <2>2 DEF Positive
  <2>5. Sorted(s)
    <3>1. ASSUME NEW i \in 1 .. m, NEW j \in 1 .. m, i <= j
          PROVE  s[i].cost <= s[j].cost
      <4>1. CASE i = 1 /\ j = 1
        BY <4>1, <2>1, <2>2
      <4>2. CASE i = 1 /\ j # 1
        <5>1. j \in 2 .. m /\ j - 1 \in 1 .. m - 1
          BY <4>2, <2>2
        <5> QED BY <5>1, <4>2, <2>1, <2>2, <2>3
      <4>3. CASE i # 1
        <5>1. /\ i \in 2 .. m /\ i - 1 \in 1 .. m - 1
              /\ j \in 2 .. m /\ j - 1 \in 1 .. m - 1 /\ i - 1 <= j - 1
          BY <4>3, <3>1, <2>2
        <5>2. h[i - 1].cost <= h[j - 1].cost
          BY <5>1, <2>1, <2>2 DEF Sorted
        <5> QED BY <5>1, <5>2, <2>2
      <4> QED BY <4>1, <4>2, <4>3
    <3> QED BY <3>1, <2>2 DEF Sorted
  <2> QED BY <2>2, <2>4, <2>5 DEF Lists, s, x
<1>4. step \in Steps(0, n, T)
  <2>1. 0 + 1 .. n = 1 .. n
    OBVIOUS
  <2> HIDE DEF n, T
  <2> QED BY <2>1, <1>3 DEF Steps
<1>5. PICK f \in [0 .. n -> T] : IsRecursion(f, 0, n, heap, step)
  <2>1. heap \in T
    OBVIOUS
  <2> HIDE DEF step, n, T
  <2> QED BY <2>1, <1>1, <1>4, Recursion DEF Recursive
<1>6. Is(f)
  <2>1. ASSUME NEW l \in 0 .. n
        PROVE  f[l] = IF l = 0 THEN heap
                      ELSE IF Usable(l) THEN <<OwnItem(l)>> \o f[l - 1]
                      ELSE f[l - 1]
    <3>1. CASE l = 0
      BY <1>5, <3>1 DEF IsRecursion
    <3>2. CASE l # 0
      <4>1. l \in 0 + 1 .. n /\ l - 1 \in 0 .. n
        BY <1>1, <3>2
      <4>2. f[l - 1] \in T /\ f[l] = step[<<l, f[l - 1]>>]
        BY <4>1, <1>5 DEF IsRecursion
      <4> HIDE DEF T
      <4> QED BY <4>1, <4>2, <3>2
    <3> QED BY <3>1, <3>2
  <2>2. f = [l \in 0 .. n |-> f[l]]
    OBVIOUS
  <2> HIDE DEF step, T
  <2> QED BY <2>1, <2>2 DEF OwnItem
<1> DEFINE pushed == CHOOSE g : Is(g)
<1>7. OwnPushed = pushed[n]
  BY DEF OwnPushed
<1>8. Is(pushed)
  <2> HIDE DEF Is
  <2> QED BY <1>6
<1> HIDE DEF pushed
<1>9. pushed[0] = heap
  BY <1>1, <1>8
<1>10. ASSUME NEW l \in 1 .. n
       PROVE  pushed[l] = IF Usable(l)
                          THEN <<OwnItem(l)>> \o pushed[l - 1] ELSE pushed[l - 1]
  <2>1. l \in 0 .. n /\ l # 0
    BY <1>1
  <2> QED BY <2>1, <1>8 DEF OwnItem
<1> HIDE DEF Is, step
<1> DEFINE New(k) == {OwnItem(l) : l \in {j \in 1 .. k : Usable(j)}}
           Done(k) == pushed[k] \in T /\ Range(pushed[k]) = Range(heap) \cup New(k)
           Bad == {k \in Nat : k \in 0 .. n /\ ~Done(k)}
<1>11. Done(0)
  <2>1. New(0) = {}
    OBVIOUS
  <2> QED BY <2>1, <1>9
<1> HIDE DEF T
<1>12. ASSUME NEW k \in 1 .. n, Done(k - 1) PROVE Done(k)
  <2>1. \A i \in 1 .. k : i \in 1 .. k - 1 \/ i = k
    OBVIOUS
  <2>2. \A i \in 1 .. k - 1 : i \in 1 .. k
    OBVIOUS
  <2>3. k \in 1 .. k
    OBVIOUS
  <2>4. CASE Usable(k)
    <3>1. New(k) = New(k - 1) \cup {OwnItem(k)}
      BY <2>1, <2>2, <2>3, <2>4
    <3> HIDE DEF New
    <3>2. pushed[k] = <<OwnItem(k)>> \o pushed[k - 1]
      BY <2>4, <1>10
    <3>3. /\ pushed[k] \in T
          /\ Range(pushed[k]) = Range(pushed[k - 1]) \cup {OwnItem(k)}
      BY <3>2, <1>3, <1>12
    <3> QED BY <3>1, <3>3, <1>12
  <2>5. CASE ~Usable(k)
    <3>1. New(k) = New(k - 1)
      BY <2>1, <2>2, <2>5
    <3> HIDE DEF New
    <3> QED BY <3>1, <2>5, <1>10, <1>12
  <2> QED BY <2>4, <2>5
<1>13. Bad = {}
  <2> SUFFICES ASSUME Bad # {} PROVE FALSE
    OBVIOUS
  <2>1. PICK k \in Bad : \A j \in Bad : k <= j
    BY LeastOf
  <2> HIDE DEF Done
  <2>2. k # 0
    BY <1>11, <2>1
  <2>3. k - 1 \in Nat /\ k - 1 \in 0 .. n /\ k - 1 < k /\ k \in 1 .. n
    BY <1>1, <2>1, <2>2
  <2>4. Done(k - 1)
    BY <2>1, <2>3
  <2> QED BY <1>12, <2>1, <2>3, <2>4
<1>14. Done(n)
  <2> HIDE DEF Done
  <2> QED BY <1>1, <1>13
<1>15. {j \in 1 .. n : Usable(j)} = Starts(network)
  BY <1>1 DEF Starts, Usable, Targets, links, table
<1> QED
  BY <1>7, <1>14, <1>15 DEF T

-----------------------------------------------------------------------------
(***************************************************************************)
(* The list keeps its order as long as no cost wraps to 0.                 *)
(***************************************************************************)
NoWrap == Positive(heap)
Sought == table[target].net
InPlace ==
  /\ pc = "clear" => target = 1
  /\ pc \in {"pop", "expand", "route"} =>
       target <= Len(table) /\ Sought \notin Connected
  /\ pc = "expand" => last \in Items /\ last.cost # 0 /\ last.net # Sought
  /\ pc = "finished" => target > Len(table)
ListInv == TypeOK /\ HeapOrdered /\ InPlace

LEMMA InLists ==
  ASSUME ListInv
  PROVE  heap \in Lists /\ network \in Networks
BY DEF ListInv, TypeOK, HeapOrdered, Lists, Sorted

LEMMA HeadAndTail ==
  ASSUME ListInv, heap # <<>>
  PROVE  /\ Head(heap) \in Items /\ Head(heap) \in Range(heap)
         /\ Tail(heap) \in Lists
         /\ Range(Tail(heap)) \subseteq Range(heap)
         /\ Range(heap) = Range(Tail(heap)) \cup {Head(heap)}
         /\ \A x \in Range(heap) : Head(heap).cost <= x.cost
<1> DEFINE n == Len(heap)
           t == Tail(heap)
<1>1. heap \in Seq(Items) /\ n \in Nat /\ 1 <= n /\ DOMAIN heap = 1 .. n
  BY DEF ListInv, TypeOK
<1>2. Head(heap) = heap[1] /\ 1 \in DOMAIN heap
  BY <1>1
<1>3. /\ t \in Seq(Items) /\ DOMAIN t = 1 .. n - 1
      /\ \A i \in 1 .. n - 1 : t[i] = heap[i + 1]
  BY <1>1
<1> HIDE DEF n, t
<1>4. \A i \in 1 .. n - 1 : i + 1 \in 1 .. n
  BY <1>1
<1>5. \A i \in 1 .. n : i = 1 \/ (i - 1 \in 1 .. n - 1 /\ (i - 1) + 1 = i)
  BY <1>1
<1>6. t \in Lists
  <2>1. ASSUME NEW i \in 1 .. n - 1, NEW j \in 1 .. n - 1, i <= j
        PROVE  t[i].cost <= t[j].cost
    <3>1. i + 1 \in 1 .. n /\ j + 1 \in 1 .. n /\ i + 1 <= j + 1
      BY <1>1, <2>1
    <3> QED BY <3>1, <1>1, <1>3 DEF ListInv, HeapOrdered
  <2> QED BY <2>1, <1>3 DEF Lists, Sorted
<1>7. Range(t) \subseteq Range(heap)
  BY <1>1, <1>3, <1>4 DEF Range
<1>8. Range(heap) \subseteq Range(t) \cup {Head(heap)}
  <2> SUFFICES ASSUME NEW i \in 1 .. n PROVE heap[i] \in Range(t) \cup {Head(heap)}
    BY <1>1 DEF Range
  <2>1. CASE i = 1
    BY <2>1, <1>2
  <2>2. CASE i # 1
    <3>1. i - 1 \in 1 .. n - 1 /\ heap[i] = t[i - 1]
      BY <2>2, <1>3, <1>5
    <3> QED BY <3>1, <1>3 DEF Range
  <2> QED BY <2>1, <2>2
<1>9. \A i \in 1 .. n : heap[1].cost <= heap[i].cost
  BY <1>1 DEF ListInv, HeapOrdered
<1>10. heap[1] \in Items
  BY <1>1
<1> QED
  BY <1>1, <1>2, <1>6, <1>7, <1>8, <1>9, <1>10 DEF Range, t

LEMMA ListInit == Init => ListInv
<1> SUFFICES ASSUME Init PROVE ListInv
  OBVIOUS
<1>1. network \in Networks /\ links \in Seq(Link) /\ table \in Seq(Lsa)
  BY Shape DEF Init, links, table
<1>2. PICK l \in 0 .. Len(links) :
        routes = [n \in Nets |-> IF n \in Connected THEN NoLink ELSE l]
  BY DEF Init
<1>3. l \in DOMAIN links \cup {NoLink}
  BY <1>1 DEF NoLink
<1>4. routes \in [Nets -> DOMAIN links \cup {NoLink}]
  BY <1>2, <1>3
<1>5. target \in 1 .. Len(table) + 1
  BY <1>1 DEF Init
<1>6. heap \in Seq(Items) /\ last \in Items \cup {<<>>} /\ pc = "clear"
  BY DEF Init
<1>7. HeapOrdered
  BY DEF Init, HeapOrdered
<1>8. InPlace
  BY DEF Init, InPlace
<1> QED
  BY <1>1, <1>4, <1>5, <1>6, <1>7, <1>8 DEF ListInv, TypeOK

LEMMA ListStep == ListInv /\ NoWrap /\ [Next]_vars => ListInv'
<1> SUFFICES ASSUME ListInv, NoWrap, [Next]_vars PROVE ListInv'
  OBVIOUS
<1>1. heap \in Lists /\ network \in Networks
  BY InLists
<1>2. links \in Seq(Link) /\ table \in Seq(Lsa) /\ Len(table) \in Nat
  BY <1>1, Shape DEF links, table
<1>3. TypeOK /\ InPlace
  BY DEF ListInv
<1>4. network' = network
  BY DEF Next, Others, Clear, Skip, PushLinks, Pop, Exhaust, Route, Finish, Expand, vars
<1>5. links' = links /\ table' = table /\ Items' = Items
  BY <1>4 DEF links, table, Items
<1> USE DEF InPlace, Sought
<1>6. CASE Clear
  BY <1>1, <1>3, <1>4, <1>5, <1>6
     DEF Clear, ClearRoutes, TypeOK, Lists, Sorted, ListInv, HeapOrdered
<1>7. CASE Skip
  <2>1. target' \in 1 .. Len(table) + 1
    BY <1>2, <1>3, <1>7 DEF Skip, Advance, TypeOK
  <2> QED
    BY <2>1, <1>1, <1>3, <1>4, <1>5, <1>7
       DEF Skip, TypeOK, Lists, Sorted, ListInv, HeapOrdered
<1>8. CASE PushLinks
  <2>1. heap' \in Lists
    BY <1>1, <1>8, OwnPushedIs DEF PushLinks, NoWrap
  <2> QED
    BY <2>1, <1>3, <1>4, <1>5, <1>8
       DEF PushLinks, TypeOK, Lists, Sorted, ListInv, HeapOrdered
<1>9. CASE Pop
  <2>1. heap # <<>>
    BY <1>9 DEF Pop
  <2>2. heap' \in Lists
    BY <1>9, <2>1, HeadAndTail DEF Pop
  <2>3. last' \in Items \cup {<<>>}
    BY <1>3, <1>9, <2>1, HeadAndTail DEF Pop, TypeOK
  <2>4. pc' \in {"pop", "route", "expand"}
    BY <1>3, <1>9 DEF Pop, InPlace
  <2>5. Head(heap).cost # 0
    BY <2>1, HeadAndTail DEF NoWrap, Positive, Range
  <2>6. InPlace'
    BY <2>1, <2>5, <1>3, <1>4, <1>5, <1>9, HeadAndTail DEF Pop
  <2> QED
    BY <2>2, <2>3, <2>4, <2>6, <1>3, <1>4, <1>5, <1>9
       DEF Pop, TypeOK, Lists, Sorted, ListInv, HeapOrdered
<1>10. CASE Exhaust
  BY <1>1, <1>3, <1>4, <1>5, <1>10
     DEF Exhaust, TypeOK, Lists, Sorted, ListInv, HeapOrdered
<1>11. CASE Expand
  <2>1. last \in Items
    BY <1>3, <1>11 DEF Expand
  <2>2. heap' \in Lists
    BY <1>1, <1>11, <2>1, PushedIs DEF Expand
  <2> QED
    BY <2>2, <1>3, <1>4, <1>5, <1>11
       DEF Expand, TypeOK, Lists, Sorted, ListInv, HeapOrdered
<1>12. CASE Route
  <2>1. target \in DOMAIN table /\ table[target].net \in Nets
    <3>1. target \in 1 .. Len(table)
      BY <1>2, <1>3, <1>12 DEF Route, TypeOK
    <3>2. table[target] \in Lsa
      BY <1>2, <3>1
    <3> QED BY <1>2, <3>1, <3>2 DEF Lsa
  <2>2. last # <<>> => last.link \in DOMAIN links
    BY <1>3 DEF TypeOK, Items
  <2>3. routes' \in [Nets -> DOMAIN links \cup {NoLink}]
    BY <1>3, <1>12, <2>1, <2>2 DEF Route, TypeOK
  <2>4. target' \in 1 .. Len(table) + 1
    BY <1>2, <1>3, <1>12 DEF Route, Advance, TypeOK
  <2> QED
    BY <2>3, <2>4, <1>1, <1>3, <1>4, <1>5, <1>12
       DEF Route, TypeOK, Lists, Sorted, ListInv, HeapOrdered
<1>13. CASE Finish
  BY <1>1, <1>3, <1>4, <1>5, <1>13
     DEF Finish, TypeOK, Lists, Sorted, ListInv, HeapOrdered
<1>14. CASE UNCHANGED vars
  BY <1>1, <1>3, <1>4, <1>5, <1>14
     DEF vars, TypeOK, Lists, Sorted, ListInv, HeapOrdered
<1> QED
  BY <1>6, <1>7, <1>8, <1>9, <1>10, <1>11, <1>12, <1>13, <1>14 DEF Next, Others

-----------------------------------------------------------------------------
(***************************************************************************)
(* The routes.  An item's cost is the length of a walk that begins with    *)
(* its link and ends with it (Came); for costs past MaxHops nobody asks.   *)
(* While a network that can be reached is searched, the list has an item   *)
(* of a shortest walk to it (OnWay), or it is just being expanded.         *)
(***************************************************************************)
Came(x) ==
  IF x.cost = 1
  THEN /\ x.link \in Starts(network)
       /\ links[x.link].net = x.net /\ links[x.link].neighbor = x.neighbor
  ELSE \E f \in Range(table) :
         /\ f.net = x.net /\ f.neighbor = x.neighbor
         /\ <<f.router, x.link>> \in Reached(network)[x.cost - 1]
Sound(x) == x.cost \in 1 .. MaxHops => Came(x)

OnWay(x, k) ==
  \/ x.net = Sought /\ x.cost = k
  \/ x.cost < k /\ Leads(network, x.neighbor, Sought, k - x.cost)

ItemsSound ==
  /\ \A x \in Range(heap) : Sound(x)
  /\ pc = "expand" => Sound(last)

WayKept ==
  pc \in {"pop", "expand"} =>
    \A k \in 1 .. MaxHops : Nearest(network, Sought, k) =>
      \/ \E x \in Range(heap) : OnWay(x, k)
      \/ pc = "expand" /\ OnWay(last, k)

NotPast ==
  pc = "expand" =>
    \A k \in 1 .. MaxHops : Nearest(network, Sought, k) => last.cost <= k

Found ==
  pc = "route" =>
    \A k \in 1 .. MaxHops : Nearest(network, Sought, k) =>
      last # <<>> /\ last.link \in HopsTo(network, Sought, k)

\* The networks before the target have their routes, and no other has one.
Routed ==
  pc # "clear" =>
    /\ \A n \in Nets : routes[n] # NoLink => n \in Targets \ Connected
    /\ \A n \in Nets, k \in 1 .. MaxHops :
         routes[n] # NoLink /\ Nearest(network, n, k) =>
           routes[n] \in HopsTo(network, n, k)
    /\ \A j \in 1 .. target - 1, k \in 1 .. MaxHops :
         table[j].net \notin Connected /\ Nearest(network, table[j].net, k) =>
           routes[table[j].net] # NoLink

IInv == ListInv /\ ItemsSound /\ WayKept /\ NotPast /\ Found /\ Routed

LEMMA SoundHops ==
  ASSUME network \in Networks, NEW x \in Items,
         x.cost \in 1 .. MaxHops, Sound(x)
  PROVE  /\ x.link \in HopsTo(network, x.net, x.cost)
         /\ <<x.neighbor, x.link>> \in Reached(network)[x.cost]
<1>1. Came(x) /\ MaxHops \in Nat
  BY Shape DEF Sound
<1>2. CASE x.cost = 1
  <2>1. /\ x.link \in Starts(network)
        /\ links[x.link].net = x.net /\ links[x.link].neighbor = x.neighbor
    BY <1>1, <1>2 DEF Came
  <2>2. <<x.neighbor, x.link>> \in FirstEnds(network)
    BY <2>1 DEF FirstEnds, links
  <2>3. x.link \in HopsTo(network, x.net, 1)
    BY <2>1 DEF HopsTo, links
  <2> QED BY <2>2, <2>3, <1>2, ReachedIs
<1>3. CASE x.cost # 1
  <2>1. PICK f \in Range(table) :
          /\ f.net = x.net /\ f.neighbor = x.neighbor
          /\ <<f.router, x.link>> \in Reached(network)[x.cost - 1]
    BY <1>1, <1>3 DEF Came
  <2>2. x.cost \in 2 .. MaxHops /\ x.cost - 1 \in 1 .. MaxHops - 1
        /\ (x.cost - 1) + 1 = x.cost
    BY <1>1, <1>3
  <2>3. <<f.neighbor, x.link>> \in Reached(network)[(x.cost - 1) + 1]
    BY <2>1, <2>2, ReachedNext DEF table
  <2>4. x.link \in HopsTo(network, x.net, x.cost)
    BY <2>1, <2>2, HopsToNext DEF table
  <2> QED BY <2>1, <2>2, <2>3, <2>4
<1> QED
  BY <1>2, <1>3

(***************************************************************************)
(* No shortest walk turns back, so Expand goes on with it.                 *)
(***************************************************************************)
LEMMA GoesOn ==
  ASSUME network \in Networks, PointToPoint(network),
         NEW x \in Items, x.cost # 0, x.net # Sought, Sound(x),
         NEW k \in 1 .. MaxHops, Nearest(network, Sought, k), OnWay(x, k)
  PROVE  \E e \in Range(table) :
           /\ Follows(e, x)
           /\ \/ x.cost + 1 = k /\ e.net = Sought
              \/ /\ x.cost + 1 < k
                 /\ Leads(network, e.neighbor, Sought, k - (x.cost + 1))
<1> DEFINE m == k - x.cost
<1>1. MaxHops \in Nat /\ x.cost \in Nat
  BY Shape, Costs
<1>2. x.cost < k /\ Leads(network, x.neighbor, Sought, m)
  BY DEF OnWay
<1>3. m \in Nat \ {0} /\ x.cost \in 1 .. MaxHops /\ m - 1 = k - (x.cost + 1)
  BY <1>1, <1>2
<1>4. PICK e \in Range(table) :
        /\ e.router = x.neighbor /\ x.neighbor \in Routers
        /\ m = 1 => e.net = Sought
        /\ m # 1 => Leads(network, e.neighbor, Sought, m - 1)
  <2> HIDE DEF m
  <2> QED BY <1>2, <1>3, LeadsOn DEF table
<1>5. e.neighbor # x.neighbor
  BY <1>4 DEF PointToPoint, table
<1>6. e.net # x.net
  <2> SUFFICES ASSUME e.net = x.net PROVE FALSE
    OBVIOUS
  <2>1. m # 1
    BY <1>4
  <2>2. m - 1 \in Nat \ {0}
    BY <1>3, <2>1
  <2>3. e.neighbor \in Routers
    <3> DEFINE l == m - 1
    <3>1. l \in Nat \ {0} /\ Leads(network, e.neighbor, Sought, l)
      BY <1>4, <2>1, <2>2
    <3> HIDE DEF l, m
    <3> QED BY <3>1, LeadsFrom
  <2>4. CASE x.cost = 1
    <3>1. /\ x.link \in Starts(network)
          /\ links[x.link].net = x.net /\ links[x.link].neighbor = x.neighbor
      BY <1>3, <2>4 DEF Sound, Came
    <3>2. x.link \in DOMAIN network.links
      BY <3>1, Shape
    <3> QED BY <3>1, <3>2, <2>3, <1>4 DEF PointToPoint, links, table
  <2>5. CASE x.cost # 1
    <3>1. PICK f \in Range(table) :
            /\ f.net = x.net /\ f.neighbor = x.neighbor
            /\ <<f.router, x.link>> \in Reached(network)[x.cost - 1]
      BY <1>3, <2>5 DEF Sound, Came
    <3>2. e.neighbor \in {f.router, None}
      BY <3>1, <1>4 DEF PointToPoint, table
    <3>3. e.neighbor = f.router
      BY <3>2, <2>3, DijkstraAssumption
    <3>4. x.cost - 1 \in 1 .. MaxHops /\ (x.cost - 1) + (m - 1) \in 1 .. k - 1
          /\ (x.cost - 1) + (m - 1) <= MaxHops
      BY <1>1, <1>3, <2>2, <2>5
    <3>5. Leads(network, f.router, Sought, m - 1)
      BY <1>4, <2>1, <3>3
    <3>6. HopsTo(network, Sought, (x.cost - 1) + (m - 1)) # {}
      <4> DEFINE i == x.cost - 1
                 j == m - 1
      <4>1. /\ i \in 1 .. MaxHops /\ j \in Nat \ {0} /\ i + j <= MaxHops
            /\ <<f.router, x.link>> \in Reached(network)[i]
            /\ Leads(network, f.router, Sought, j)
        BY <3>1, <3>4, <3>5, <2>2
      <4> HIDE DEF i, j
      <4>2. HopsTo(network, Sought, i + j) # {}
        BY <4>1, Joins
      <4> QED BY <4>2 DEF i, j
    <3> QED BY <3>4, <3>6 DEF Nearest
  <2> QED BY <2>4, <2>5
<1>7. Follows(e, x)
  BY <1>4, <1>5, <1>6 DEF Follows
<1>8. (m = 1 /\ x.cost + 1 = k) \/ (m # 1 /\ x.cost + 1 < k)
  BY <1>1, <1>3
<1> QED
  BY <1>3, <1>4, <1>7, <1>8

LEMMA RefInit == Init => IInv
<1> SUFFICES ASSUME Init PROVE IInv
  OBVIOUS
<1>1. heap = <<>> /\ pc = "clear"
  BY DEF Init
<1>2. Range(heap) = {}
  BY <1>1 DEF Range
<1> QED
  BY <1>1, <1>2, ListInit DEF IInv, ItemsSound, WayKept, NotPast, Found, Routed

LEMMA Same ==
  ASSUME network' = network
  PROVE  /\ links' = links /\ table' = table /\ Targets' = Targets
         /\ \A x : Sound(x)' <=> Sound(x)
         /\ target' = target => Sought' = Sought /\ \A x, k : OnWay(x, k)' <=> OnWay(x, k)
<1>1. links' = links /\ table' = table /\ Targets' = Targets
  BY DEF links, table, Targets
<1> QED
  BY <1>1 DEF Sound, Came, OnWay, Sought

LEMMA OwnItemIs ==
  ASSUME network \in Networks, NEW l \in Starts(network)
  PROVE  /\ OwnItem(l).net = links[l].net /\ OwnItem(l).neighbor = links[l].neighbor
         /\ OwnItem(l).cost = 1 /\ OwnItem(l).link = l
<1>1. 1 \in 0 .. CostSize - 1
  BY Costs
<1>2. 1 % CostSize = 1
  BY <1>1, Costs
<1> QED
  BY <1>2 DEF OwnItem, Item

LEMMA ItemToIs ==
  ASSUME NEW e, last \in Items, ItemTo(e).cost # 0
  PROVE  /\ ItemTo(e).net = e.net /\ ItemTo(e).neighbor = e.neighbor
         /\ ItemTo(e).cost = last.cost + 1 /\ ItemTo(e).link = last.link
<1>1. last.cost \in 0 .. CostSize - 1
  BY DEF Items
<1>2. ItemTo(e).cost = (last.cost + 1) % CostSize
  BY DEF ItemTo, Item, NextCost
<1>3. CASE last.cost + 1 \in 0 .. CostSize - 1
  BY <1>2, <1>3, Costs DEF ItemTo, Item
<1>4. CASE last.cost + 1 = CostSize
  <2>1. CostSize % CostSize = 0
    BY DijkstraAssumption
  <2> QED BY <2>1, <1>2, <1>4
<1> QED
  BY <1>1, <1>3, <1>4, Costs

\* An item on a shortest walk costs no more than it is long.
LEMMA WayCost ==
  ASSUME NEW x \in Items, NEW k \in 1 .. MaxHops, MaxHops \in Nat, OnWay(x, k)
  PROVE  x.cost \in Nat /\ x.cost <= k
BY Costs DEF OnWay

LEMMA PushLinksKeeps ==
  ASSUME IInv, NoWrap, PushLinks, ListInv'
  PROVE  IInv'
<1>1. heap \in Lists /\ network \in Networks /\ network' = network /\ target' = target
  BY InLists DEF IInv, PushLinks
<1>2. Range(heap') = Range(heap) \cup {OwnItem(l) : l \in Starts(network)}
  BY <1>1, OwnPushedIs DEF PushLinks, NoWrap
<1>3. ItemsSound'
  <2>1. ASSUME NEW l \in Starts(network) PROVE Sound(OwnItem(l))
    BY <1>1, <2>1, OwnItemIs DEF Sound, Came
  <2>2. \A x \in Range(heap) : Sound(x)
    BY DEF IInv, ItemsSound
  <2>3. \A x \in Range(heap') : Sound(x)
    BY <1>2, <2>1, <2>2
  <2>4. pc' # "expand"
    BY DEF PushLinks
  <2> QED BY <2>3, <2>4, <1>1, Same DEF ItemsSound
<1>4. WayKept'
  <2> SUFFICES ASSUME NEW k \in 1 .. MaxHops, Nearest(network, Sought, k)
               PROVE  \E x \in Range(heap') : OnWay(x, k)
    BY <1>1, Same DEF WayKept
  <2>1. ASSUME NEW l \in Starts(network), OnWay(OwnItem(l), k)
        PROVE  \E x \in Range(heap') : OnWay(x, k)
    BY <2>1, <1>2
  <2>2. CASE k = 1
    <3>1. PICK l \in Starts(network) : links[l].net = Sought
      BY <2>2 DEF Nearest, HopsTo, links
    <3>2. OnWay(OwnItem(l), k)
      BY <3>1, <2>2, <1>1, OwnItemIs DEF OnWay
    <3> QED BY <3>2, <2>1
  <2>3. CASE k # 1
    <3>1. k \in 2 .. MaxHops /\ 1 < k
      BY <2>3, <1>1, Shape
    <3>2. PICK l \in Starts(network) :
            Leads(network, network.links[l].neighbor, Sought, k - 1)
      BY <3>1, <1>1, Splits DEF Nearest
    <3>3. OnWay(OwnItem(l), k)
      BY <3>1, <3>2, <1>1, OwnItemIs DEF OnWay, links
    <3> QED BY <3>3, <2>1
  <2> QED BY <2>2, <2>3
<1>5. NotPast' /\ Found' /\ Routed'
  BY <1>1, Same DEF PushLinks, NotPast, Found, Routed, IInv
<1> QED
  BY <1>3, <1>4, <1>5 DEF IInv

LEMMA ExpandKeeps ==
  ASSUME IInv, NoWrap', PointToPoint(network), Expand, ListInv'
  PROVE  IInv'
<1>1. /\ heap \in Lists /\ network \in Networks /\ MaxHops \in Nat
      /\ network' = network /\ target' = target /\ last' = last
      /\ last \in Items /\ last.cost # 0 /\ last.net # Sought
      /\ Sound(last) /\ pc' = "pop"
  BY InLists, Shape DEF IInv, ItemsSound, Expand, ListInv, InPlace
<1>2. Range(heap') = Range(heap) \cup Added
  BY <1>1, PushedIs DEF Expand
<1>3. ASSUME NEW e \in Range(table), Follows(e, last)
      PROVE  /\ ItemTo(e) \in Range(heap')
             /\ ItemTo(e).net = e.net /\ ItemTo(e).neighbor = e.neighbor
             /\ ItemTo(e).cost = last.cost + 1 /\ ItemTo(e).link = last.link
  <2>1. ItemTo(e) \in Added
    BY <1>3 DEF Added
  <2>2. ItemTo(e) \in Range(heap')
    BY <2>1, <1>2
  <2>3. ItemTo(e).cost # 0
    BY <2>2 DEF NoWrap, Positive, Range
  <2> QED BY <2>2, <2>3, <1>1, ItemToIs
<1>4. last.cost \in Nat
  BY <1>1, Costs
<1>5. ItemsSound'
  <2>1. ASSUME NEW e \in Range(table), Follows(e, last),
               ItemTo(e).cost \in 1 .. MaxHops
        PROVE  Came(ItemTo(e))
    <3>1. last.cost \in 1 .. MaxHops /\ (last.cost + 1) - 1 = last.cost
          /\ last.cost + 1 # 1
      BY <1>1, <1>3, <1>4, <2>1
    <3>2. <<last.neighbor, last.link>> \in Reached(network)[last.cost]
      BY <3>1, <1>1, SoundHops
    <3>3. e.router = last.neighbor
      BY <2>1 DEF Follows
    <3> QED BY <3>1, <3>2, <3>3, <1>3, <2>1 DEF Came
  <2>2. \A x \in Added : Sound(x)
    BY <2>1 DEF Added, Sound
  <2>3. \A x \in Range(heap') : Sound(x)
    BY <1>2, <2>2 DEF IInv, ItemsSound
  <2> QED BY <2>3, <1>1, Same DEF ItemsSound
<1>6. WayKept'
  <2> SUFFICES ASSUME NEW k \in 1 .. MaxHops, Nearest(network, Sought, k)
               PROVE  \E x \in Range(heap') : OnWay(x, k)
    BY <1>1, Same DEF WayKept
  <2>1. (\E x \in Range(heap) : OnWay(x, k)) \/ OnWay(last, k)
    BY DEF IInv, WayKept, Expand
  <2>2. CASE OnWay(last, k)
    <3>1. PICK e \in Range(table) :
            /\ Follows(e, last)
            /\ \/ last.cost + 1 = k /\ e.net = Sought
               \/ /\ last.cost + 1 < k
                  /\ Leads(network, e.neighbor, Sought, k - (last.cost + 1))
      BY <1>1, <2>2, GoesOn
    <3>2. OnWay(ItemTo(e), k)
      BY <3>1, <1>3 DEF OnWay
    <3> QED BY <3>1, <3>2, <1>3
  <2> QED BY <2>1, <2>2, <1>2
<1>7. NotPast' /\ Found' /\ Routed'
  BY <1>1, Same DEF Expand, NotPast, Found, Routed, IInv
<1> QED
  BY <1>5, <1>6, <1>7 DEF IInv

LEMMA PopKeeps ==
  ASSUME IInv, NoWrap, Pop, ListInv'
  PROVE  IInv'
<1> DEFINE h == Head(heap)
<1>1. /\ network \in Networks /\ MaxHops \in Nat /\ pc = "pop" /\ heap # <<>>
      /\ network' = network /\ target' = target /\ routes' = routes
      /\ heap' = Tail(heap) /\ ListInv
  BY InLists, Shape DEF IInv, Pop
<1>2. /\ h \in Items /\ h \in Range(heap)
      /\ Range(heap') \subseteq Range(heap)
      /\ Range(heap) = Range(heap') \cup {h}
      /\ \A x \in Range(heap) : h.cost <= x.cost
  BY <1>1, HeadAndTail
<1>3. h.cost # 0 /\ h.cost \in Nat /\ Sound(h)
  BY <1>1, <1>2, Costs DEF NoWrap, Positive, Range, IInv, ItemsSound
<1>4. \A x \in Range(heap) : x \in Items
  BY <1>1 DEF ListInv, TypeOK, Range
<1> HIDE DEF h
\* While the network can be reached, the head costs no more than its distance.
<1>5. ASSUME NEW k \in 1 .. MaxHops, Nearest(network, Sought, k)
      PROVE  /\ h.cost <= k
             /\ \E x \in Range(heap) : OnWay(x, k)
  <2>1. PICK x \in Range(heap) : OnWay(x, k)
    BY <1>1, <1>5 DEF IInv, WayKept
  <2>2. x.cost \in Nat /\ x.cost <= k
    BY <2>1, <1>1, <1>4, WayCost
  <2>3. h.cost <= x.cost
    BY <1>2
  <2> QED BY <2>1, <2>2, <2>3, <1>3
<1>6. (pc' = "expand" => last' = h) /\ (pc' = "route" => last' = h)
  BY <1>1 DEF Pop, h
<1>7. ItemsSound'
  <2>1. \A x \in Range(heap') : Sound(x)
    BY <1>2 DEF IInv, ItemsSound
  <2>2. pc' = "expand" => Sound(last')
    BY <1>3, <1>6
  <2>3. pc' = "expand" => (Sound(last))'
    BY <2>2, <1>1, Same DEF Sound, Came
  <2> QED BY <2>1, <2>3, <1>1, Same DEF ItemsSound
<1>8. WayKept'
  <2> SUFFICES ASSUME pc' \in {"pop", "expand"}, NEW k \in 1 .. MaxHops,
                      Nearest(network, Sought, k)
               PROVE  \/ \E x \in Range(heap') : OnWay(x, k)
                      \/ pc' = "expand" /\ OnWay(last', k)
    BY <1>1, Same DEF WayKept, OnWay
  <2>1. PICK x \in Range(heap) : OnWay(x, k)
    BY <1>5
  <2>2. ASSUME x = h PROVE pc' = "expand" /\ OnWay(last', k)
    <3>1. h.net # Sought
      BY <1>1 DEF Pop, Sought, h
    <3>2. h.cost < k /\ Leads(network, h.neighbor, Sought, k - h.cost)
      BY <2>1, <2>2, <3>1 DEF OnWay
    <3>3. k - h.cost \in Nat \ {0}
      BY <3>2, <1>3
    <3>4. h.neighbor \in Routers
      <4> DEFINE m == k - h.cost
      <4>1. m \in Nat \ {0} /\ Leads(network, h.neighbor, Sought, m)
        BY <3>2, <3>3
      <4> HIDE DEF m
      <4> QED BY <4>1, <1>1, LeadsFrom
    <3>5. h.neighbor # None
      BY <3>4, DijkstraAssumption
    <3>6. pc' = "expand"
      BY <1>1, <3>1, <3>5 DEF Pop, Sought, h
    <3> QED BY <3>6, <1>6, <2>1, <2>2
  <2> QED BY <2>1, <2>2, <1>2
<1>9. NotPast'
  <2> SUFFICES ASSUME pc' = "expand", NEW k \in 1 .. MaxHops,
                      Nearest(network, Sought, k)
               PROVE  last'.cost <= k
    BY <1>1, Same DEF NotPast
  <2> QED BY <1>5, <1>6
<1>10. Found'
  <2> SUFFICES ASSUME pc' = "route", NEW k \in 1 .. MaxHops,
                      Nearest(network, Sought, k)
               PROVE  last' # <<>> /\ last'.link \in HopsTo(network, Sought, k)
    BY <1>1, Same DEF Found
  <2>1. h.net = Sought
    BY <1>1 DEF Pop, Sought, h
  <2>2. h.cost <= k
    BY <1>5
  <2>3. h.cost \in 1 .. MaxHops /\ h.cost \in 1 .. k
    BY <2>2, <1>1, <1>3
  <2>4. h.link \in HopsTo(network, Sought, h.cost)
    BY <2>1, <2>3, <1>1, <1>2, <1>3, SoundHops
  <2>5. h.cost = k
    <3>1. ASSUME h.cost \in 1 .. k - 1 PROVE FALSE
      BY <3>1, <2>4 DEF Nearest
    <3> QED BY <3>1, <2>3
  <2>6. h # <<>>
    <3>1. DOMAIN h = {"net", "neighbor", "cost", "link"}
      BY <1>2 DEF Items
    <3>2. DOMAIN <<>> = {}
      OBVIOUS
    <3> QED BY <3>1, <3>2
  <2> QED BY <2>4, <2>5, <2>6, <1>6
<1>11. Routed'
  BY <1>1, Same DEF Pop, Routed, IInv
<1> QED
  BY <1>7, <1>8, <1>9, <1>10, <1>11 DEF IInv

LEMMA RouteKeeps ==
  ASSUME IInv, Route, ListInv'
  PROVE  IInv'
<1>1. /\ network \in Networks /\ network' = network /\ heap' = heap
      /\ pc = "route" /\ pc' = "target" /\ target' = target + 1
      /\ links \in Seq(Link) /\ table \in Seq(Lsa) /\ target \in DOMAIN table
      /\ Sought \notin Connected
      /\ routes \in [Nets -> DOMAIN links \cup {NoLink}]
  <2>1. network \in Networks /\ links \in Seq(Link) /\ table \in Seq(Lsa)
    BY InLists, Shape DEF IInv, links, table
  <2>2. target \in 1 .. Len(table)
    BY <2>1 DEF IInv, ListInv, TypeOK, InPlace, Route
  <2> QED
    BY <2>1, <2>2 DEF Route, Advance, IInv, ListInv, TypeOK, InPlace
<1>2. Sought \in Nets /\ Sought \in Targets
  <2>1. table[target] \in Lsa /\ table[target] \in Range(table)
    BY <1>1 DEF Range
  <2> QED BY <2>1 DEF Lsa, Sought, Targets
<1>3. routes' = IF last = <<>> THEN routes
                ELSE [routes EXCEPT ![Sought] = last.link]
  BY DEF Route, Sought
<1>4. last # <<>> => last.link \in DOMAIN links /\ last.link # NoLink
  BY <1>1 DEF IInv, ListInv, TypeOK, Items, NoLink
<1>5. ItemsSound' /\ WayKept' /\ NotPast' /\ Found'
  BY <1>1, Same DEF ItemsSound, WayKept, NotPast, Found, IInv
<1>6. Routed'
  <2>1. \A n \in Nets : routes'[n] = IF n = Sought /\ last # <<>>
                                     THEN last.link ELSE routes[n]
    BY <1>1, <1>2, <1>3
  <2>2. /\ \A n \in Nets : routes[n] # NoLink => n \in Targets \ Connected
        /\ \A n \in Nets, k \in 1 .. MaxHops :
             routes[n] # NoLink /\ Nearest(network, n, k) =>
               routes[n] \in HopsTo(network, n, k)
        /\ \A j \in 1 .. target - 1, k \in 1 .. MaxHops :
             table[j].net \notin Connected /\ Nearest(network, table[j].net, k) =>
               routes[table[j].net] # NoLink
    BY <1>1 DEF IInv, Routed
  <2>3. \A n \in Nets : routes'[n] # NoLink => n \in Targets \ Connected
    BY <1>1, <1>2, <2>1, <2>2
  <2>4. \A k \in 1 .. MaxHops : Nearest(network, Sought, k) =>
          last # <<>> /\ last.link \in HopsTo(network, Sought, k)
    BY <1>1 DEF IInv, Found
  <2>5. ASSUME NEW n \in Nets, NEW k \in 1 .. MaxHops,
               routes'[n] # NoLink, Nearest(network, n, k)
        PROVE  routes'[n] \in HopsTo(network, n, k)
    BY <2>1, <2>2, <2>4, <2>5
  <2>6. ASSUME NEW j \in 1 .. target, NEW k \in 1 .. MaxHops,
               table[j].net \notin Connected, Nearest(network, table[j].net, k)
        PROVE  routes'[table[j].net] # NoLink
    <3>1. table[j].net \in Nets
      <4>1. j \in DOMAIN table
        BY <1>1
      <4>2. table[j] \in Lsa
        BY <4>1, <1>1
      <4> QED BY <4>2 DEF Lsa
    <3>2. CASE table[j].net = Sought
      BY <3>1, <3>2, <2>1, <2>4, <2>6, <1>4
    <3>3. CASE table[j].net # Sought
      <4>1. j \in 1 .. target - 1
        <5>1. j # target
          BY <3>3 DEF Sought
        <5> QED BY <5>1, <1>1
      <4> QED BY <4>1, <3>1, <3>3, <2>1, <2>2, <2>6
    <3> QED BY <3>2, <3>3
  <2>7. target' - 1 = target
    BY <1>1
  <2> QED BY <2>3, <2>5, <2>6, <2>7, <1>1, Same DEF Routed
<1> QED
  BY <1>5, <1>6 DEF IInv

LEMMA OthersKeep ==
  ASSUME IInv, Clear \/ Skip \/ Exhaust \/ Finish \/ UNCHANGED vars, ListInv'
  PROVE  IInv'
<1>1. network \in Networks /\ table \in Seq(Lsa) /\ target \in Nat
  <2>1. network \in Networks /\ table \in Seq(Lsa)
    BY InLists, Shape DEF IInv, table
  <2> QED BY <2>1 DEF IInv, ListInv, TypeOK
<1>2. network' = network
  BY DEF Clear, Skip, Exhaust, Finish, vars
<1>3. CASE Clear
  <2>1. routes' = [n \in Nets |-> NoLink] /\ target' = 1 /\ heap' = heap /\ pc' = "target"
    BY <1>3 DEF Clear, ClearRoutes, IInv, ListInv, InPlace
  <2>2. ItemsSound' /\ WayKept' /\ NotPast' /\ Found'
    BY <2>1, <1>2, Same DEF ItemsSound, WayKept, NotPast, Found, IInv
  <2>3. Routed'
    BY <2>1 DEF Routed
  <2> QED BY <2>2, <2>3 DEF IInv
<1>4. CASE Skip
  <2>1. /\ routes' = routes /\ heap' = heap /\ pc = "target" /\ pc' = "target"
        /\ target' = target + 1
        /\ table[target].net \in Connected \/ routes[table[target].net] # NoLink
    BY <1>4 DEF Skip, Advance
  <2>2. ItemsSound' /\ WayKept' /\ NotPast' /\ Found'
    BY <2>1, <1>2, Same DEF ItemsSound, WayKept, NotPast, Found, IInv
  <2>3. \A j \in 1 .. target' - 1 : j \in 1 .. target - 1 \/ j = target
    BY <2>1, <1>1
  <2>4. Routed'
    BY <2>1, <2>3, <1>2, Same DEF Routed, IInv
  <2> QED BY <2>2, <2>4 DEF IInv
<1>5. CASE Exhaust
  <2>1. /\ routes' = routes /\ heap' = heap /\ pc = "pop" /\ pc' = "route"
        /\ target' = target /\ last' = last /\ heap = <<>>
    BY <1>5 DEF Exhaust
  <2>2. Range(heap) = {}
    BY <2>1 DEF Range
  <2>3. \A k \in 1 .. MaxHops : ~Nearest(network, Sought, k)
    BY <2>1, <2>2 DEF IInv, WayKept
  <2>4. Found'
    BY <2>1, <2>3, <1>2, Same DEF Found
  <2>5. ItemsSound' /\ WayKept' /\ NotPast' /\ Routed'
    BY <2>1, <1>2, Same DEF ItemsSound, WayKept, NotPast, Routed, IInv
  <2> QED BY <2>4, <2>5 DEF IInv
<1>6. CASE Finish
  BY <1>6, <1>2, Same DEF Finish, ItemsSound, WayKept, NotPast, Found, Routed, IInv
<1>7. CASE UNCHANGED vars
  <2>1. ItemsSound'
    BY <1>7, <1>2, Same DEF vars, ItemsSound, Sound, Came, IInv
  <2>2. WayKept'
    BY <1>7, <1>2, Same DEF vars, WayKept, OnWay, IInv
  <2>3. NotPast' /\ Found' /\ Routed'
    BY <1>7, <1>2, Same DEF vars, NotPast, Found, Routed, IInv
  <2> QED BY <2>1, <2>2, <2>3 DEF IInv
<1> QED
  BY <1>3, <1>4, <1>5, <1>6, <1>7

LEMMA RefStep ==
  IInv /\ NoWrap /\ NoWrap' /\ PointToPoint(network) /\ [Next]_vars => IInv'
<1> SUFFICES ASSUME IInv, NoWrap, NoWrap', PointToPoint(network), [Next]_vars
             PROVE  IInv'
  OBVIOUS
<1>1. ListInv'
  BY ListStep DEF IInv
<1> QED
  BY <1>1, PushLinksKeeps, ExpandKeeps, PopKeeps, RouteKeeps, OthersKeep
     DEF Next, Others

(***************************************************************************)
(* Where every network can be reached, the search for one ends before it   *)
(* gets past the longest of the shortest walks, and no cost wraps.         *)
(***************************************************************************)
WideCosts == Cardinality(Routers) + 2 < CostSize
Bounded == \A x \in Range(heap) : x.cost # 0 /\ x.cost <= MaxHops + 1
BoundInv == AllReachable(network) => IInv /\ Bounded

LEMMA BoundedFits ==
  Bounded => NoWrap
BY DEF Bounded, NoWrap, Positive, Range

LEMMA BoundStep ==
  ASSUME WideCosts, IInv, Bounded, AllReachable(network), [Next]_vars
  PROVE  Bounded'
<1>1. heap \in Lists /\ network \in Networks /\ MaxHops \in Nat \ {0} /\ NoWrap /\ ListInv
  BY InLists, Shape, BoundedFits DEF IInv
<1>2. MaxHops + 1 < CostSize
  BY FS_CardinalityType, DijkstraAssumption DEF WideCosts, MaxHops
<1>3. CASE PushLinks
  <2>1. Range(heap') = Range(heap) \cup {OwnItem(l) : l \in Starts(network)}
    BY <1>1, <1>3, OwnPushedIs DEF PushLinks, NoWrap
  <2>2. \A l \in Starts(network) : OwnItem(l).cost # 0 /\ OwnItem(l).cost <= MaxHops + 1
    BY <1>1, OwnItemIs
  <2> QED BY <2>1, <2>2 DEF Bounded
<1>4. CASE Pop
  <2>1. Range(heap') \subseteq Range(heap)
    BY <1>1, <1>4, HeadAndTail DEF Pop
  <2> QED BY <2>1 DEF Bounded
<1>5. CASE Expand
  <2>1. last \in Items /\ target \in 1 .. Len(table) /\ Sought \notin Connected
        /\ table \in Seq(Lsa)
    BY <1>1, <1>5, Shape DEF Expand, ListInv, InPlace, TypeOK, table
  <2>2. Reachable(network, Sought)
    BY <2>1 DEF AllReachable, Sought, Range, table
  <2>3. PICK k \in 1 .. MaxHops : Nearest(network, Sought, k)
    BY <2>2, <1>1, NearestIs
  <2>4. last.cost \in Nat /\ last.cost <= MaxHops
    <3>1. last.cost <= k
      BY <2>3, <1>5 DEF IInv, NotPast, Expand
    <3>2. last.cost \in Nat
      BY <2>1, Costs
    <3> QED BY <3>1, <3>2, <1>1
  <2>5. Range(heap') = Range(heap) \cup Added
    BY <2>1, <1>1, <1>5, PushedIs DEF Expand
  <2>6. ASSUME NEW e PROVE ItemTo(e).cost = last.cost + 1
    <3>1. last.cost + 1 \in 0 .. CostSize - 1
      BY <2>4, <1>1, <1>2, Costs
    <3> QED BY <3>1, Costs DEF ItemTo, Item, NextCost
  <2>7. \A x \in Added : x.cost # 0 /\ x.cost <= MaxHops + 1
    BY <2>4, <2>6, <1>1 DEF Added
  <2> QED BY <2>5, <2>7 DEF Bounded
<1>6. CASE heap' = heap
  BY <1>6 DEF Bounded
<1> QED
  BY <1>3, <1>4, <1>5, <1>6
     DEF Next, Others, Clear, Skip, Exhaust, Route, Finish, vars

LEMMA RoutesAreShortest ==
  ASSUME IInv
  PROVE  ShortestRoutes
<1> SUFFICES ASSUME pc = "finished", NEW net \in Nets
             PROVE  IF net \in Targets \ Connected
                    THEN Reachable(network, net) =>
                           routes[net] \in FirstLinks(network, net)
                    ELSE routes[net] = NoLink
  BY DEF ShortestRoutes
<1>1. /\ network \in Networks /\ table \in Seq(Lsa) /\ target \in Nat
      /\ target > Len(table)
  <2>1. network \in Networks /\ table \in Seq(Lsa)
    BY InLists, Shape DEF IInv, table
  <2> QED BY <2>1 DEF IInv, ListInv, TypeOK, InPlace
<1>2. CASE net \in Targets \ Connected /\ Reachable(network, net)
  <2>1. PICK k \in 1 .. MaxHops :
          Nearest(network, net, k) /\ FirstLinks(network, net) = HopsTo(network, net, k)
    BY <1>1, <1>2, NearestIs
  <2>2. PICK j \in 1 .. Len(table) : table[j].net = net
    BY <1>1, <1>2 DEF Targets, Range
  <2>3. j \in 1 .. target - 1
    BY <1>1
  <2>4. routes[net] # NoLink
    BY <1>2, <2>1, <2>2, <2>3 DEF IInv, Routed
  <2> QED BY <2>1, <2>4 DEF IInv, Routed
<1>3. CASE net \notin Targets \ Connected
  BY <1>3 DEF IInv, Routed
<1> QED
  BY <1>2, <1>3
-----------------------------------------------------------------------------
(***************************************************************************)
(* The list is in order whenever an item is taken from it, in any table,   *)
(* as long as no cost has wrapped.                                         *)
(***************************************************************************)
THEOREM Ordered == Spec /\ []NoWrap => []HeapOrdered
<1>1. ListInv => HeapOrdered
  BY DEF ListInv
<1> QED
  BY <1>1, ListInit, ListStep, PTL DEF Spec

(***************************************************************************)
(* Any number of routers and networks, each subnet joining two routers:    *)
(* as long as no cost has wrapped, a network that can be reached is routed *)
(* through the first link of a shortest walk when the run is over.         *)
(***************************************************************************)
THEOREM Shortest ==
  ASSUME \A nw \in Networks : PointToPoint(nw)
  PROVE  Spec /\ []NoWrap => []ShortestRoutes
<1>1. IInv => PointToPoint(network)
  BY InLists DEF IInv
<1> QED
  BY <1>1, RefInit, RefStep, RoutesAreShortest, PTL DEF Spec

(***************************************************************************)
(* And no cost wraps if every network of the table can be reached and      *)
(* there are at least as many costs as routers, and three more: the list   *)
(* is then in order and the routes are shortest, without any hypothesis on *)
(* the run.                                                                *)
(***************************************************************************)
THEOREM Converged ==
  ASSUME WideCosts, \A nw \in Networks : PointToPoint(nw)
  PROVE  Spec => [](AllReachable(network) => HeapOrdered /\ ShortestRoutes)
<1>1. Init => BoundInv
  BY RefInit DEF Init, BoundInv, Bounded, Range
<1>2. BoundInv /\ [Next]_vars => BoundInv'
  <2> SUFFICES ASSUME BoundInv, [Next]_vars, AllReachable(network')
               PROVE  IInv' /\ Bounded'
    BY DEF BoundInv, AllReachable
  <2>1. network' = network
    BY DEF Next, Others, Clear, Skip, PushLinks, Pop, Exhaust, Route, Finish, Expand, vars
  <2>2. IInv /\ Bounded /\ AllReachable(network)
    BY <2>1 DEF BoundInv
  <2>3. NoWrap /\ PointToPoint(network)
    BY <2>2, BoundedFits, InLists DEF IInv
  <2>4. Bounded'
    BY <2>2, BoundStep
  <2>5. ListInv'
    BY <2>2, <2>3, ListStep DEF IInv
  <2>6. NoWrap'
    BY <2>4, <2>5, BoundedFits DEF Bounded, NoWrap, Positive, Range
  <2> QED BY <2>2, <2>3, <2>4, <2>6, RefStep
<1>3. BoundInv => (AllReachable(network) => HeapOrdered /\ ShortestRoutes)
  BY RoutesAreShortest DEF BoundInv, IInv, ListInv
<1> QED
  BY <1>1, <1>2, <1>3, PTL DEF Spec
=============================================================================
