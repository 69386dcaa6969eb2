----------------------- MODULE PwospfNeighborsProofs ------------------------
(***************************************************************************)
(* Theorems of PwospfNeighbors for any number of routers, interfaces and   *)
(* links and any timeout.                                                  *)
(***************************************************************************)
EXTENDS PwospfNeighbors, TLAPS, SequenceTheorems, FiniteSetTheorems

(***************************************************************************)
(* What the handler found when it looked for the router is still true when *)
(* it acts on it, if it found none: only the handler adds.                 *)
(***************************************************************************)
LookHolds ==
  /\ hello.at # "idle" => <<hello.id, hello.rx>> \in Link
  /\ hello.at \in {"set", "setip", "update"} /\ ~hello.known => ~Listed(hello.id)

(***************************************************************************)
(* A timer and the silence of its router make up the timeout, but for the  *)
(* one check that may come right behind a HELLO.                           *)
(***************************************************************************)
Ahead(k) == walk # 0 /\ walk <= k
TimersCover ==
  \A k \in DOMAIN list :
    /\ Ahead(k) => list[k].alive + quiet[list[k].id] >= Timeout
    /\ list[k].alive + quiet[list[k].id] + 1 >= Timeout

IInv == TypeOK /\ OneEntryPerRouter /\ LookHolds /\ TimersCover
-----------------------------------------------------------------------------
(***************************************************************************)
(* The three things that happen to the list.                               *)
(***************************************************************************)
LEMMA Added ==
  ASSUME NEW r \in Routers, NEW l \in Seq(Neighbor)
  PROVE  /\ AddNeighbor(r, l) \in Seq(Neighbor)
         /\ Len(AddNeighbor(r, l)) = Len(l) + 1
         /\ AddNeighbor(r, l)[1] = [id |-> r, alive |-> Timeout]
         /\ \A k \in 1 .. Len(l) : AddNeighbor(r, l)[k + 1] = l[k]
<1> DEFINE e == [id |-> r, alive |-> Timeout]
<1>1. e \in Neighbor
  BY NeighborsAssumption DEF Neighbor
<1>2. <<e>> \in Seq(Neighbor) /\ Len(<<e>>) = 1 /\ <<e>>[1] = e
  BY <1>1
<1>3. AddNeighbor(r, l) = <<e>> \o l
  BY DEF AddNeighbor
<1> HIDE DEF e
<1>4. Len(l) \in Nat
  OBVIOUS
<1>5. /\ <<e>> \o l \in Seq(Neighbor)
      /\ Len(<<e>> \o l) = 1 + Len(l)
      /\ \A i \in 1 .. 1 + Len(l) :
           (<<e>> \o l)[i] = IF i <= 1 THEN <<e>>[i] ELSE l[i - 1]
  BY <1>2, ConcatProperties
<1> QED BY <1>2, <1>3, <1>4, <1>5 DEF e

LEMMA Removed ==
  ASSUME NEW l \in Seq(Neighbor), NEW k \in 1 .. Len(l)
  PROVE  /\ RemoveAt(l, k) \in Seq(Neighbor)
         /\ Len(RemoveAt(l, k)) = Len(l) - 1
         /\ \A i \in 1 .. Len(RemoveAt(l, k)) :
              RemoveAt(l, k)[i] = IF i < k THEN l[i] ELSE l[i + 1]
<1> DEFINE m == RemoveAt(l, k)
<1> DEFINE a == SubSeq(l, 1, k - 1)
           b == SubSeq(l, k + 1, Len(l))
<1>1. Len(l) \in Nat /\ \A i \in 1 .. Len(l) : l[i] \in Neighbor
  BY ElementOfSeq
<1>2. /\ a \in Seq(Neighbor) /\ Len(a) = k - 1
      /\ \A i \in 1 .. k - 1 : a[i] = l[i]
  <2>1. \A i \in 1 .. k - 1 : l[i] \in Neighbor
    BY <1>1
  <2>2. /\ a \in Seq(Neighbor)
        /\ Len(a) = IF 1 <= k - 1 THEN k - 1 - 1 + 1 ELSE 0
        /\ \A i \in 1 .. k - 1 - 1 + 1 : a[i] = l[1 + i - 1]
    BY <2>1, SubSeqProperties
  <2> QED BY <2>2
<1>3. /\ b \in Seq(Neighbor) /\ Len(b) = Len(l) - k
      /\ \A i \in 1 .. Len(l) - k : b[i] = l[k + i]
  <2>1. \A i \in k + 1 .. Len(l) : l[i] \in Neighbor
    BY <1>1
  <2>2. /\ b \in Seq(Neighbor)
        /\ Len(b) = IF k + 1 <= Len(l) THEN Len(l) - (k + 1) + 1 ELSE 0
        /\ \A i \in 1 .. Len(l) - (k + 1) + 1 : b[i] = l[k + 1 + i - 1]
    BY <1>1, <2>1, SubSeqProperties
  <2> QED BY <1>1, <2>2
<1>5. m = a \o b
  BY DEF RemoveAt
<1> HIDE DEF a, b, m
<1>4. /\ a \o b \in Seq(Neighbor)
      /\ Len(a \o b) = Len(a) + Len(b)
      /\ \A i \in 1 .. Len(a) + Len(b) :
           (a \o b)[i] = IF i <= Len(a) THEN a[i] ELSE b[i - Len(a)]
  BY <1>2, <1>3, ConcatProperties
<1>6. Len(l) \in Nat /\ Len(a) = k - 1 /\ Len(b) = Len(l) - k
  BY <1>1, <1>2, <1>3
<1>7. Len(a) + Len(b) = Len(l) - 1
  BY <1>6
<1>8. m \in Seq(Neighbor) /\ Len(m) = Len(l) - 1
  BY <1>4, <1>5, <1>7
<1>9. ASSUME NEW i \in 1 .. Len(m) PROVE m[i] = IF i < k THEN l[i] ELSE l[i + 1]
  <2>1. i \in 1 .. Len(l) - 1 /\ m[i] = IF i <= k - 1 THEN a[i] ELSE b[i - (k - 1)]
    BY <1>4, <1>5, <1>6, <1>7, <1>8
  <2>2. CASE i < k
    <3>1. i \in 1 .. k - 1
      BY <2>1, <2>2, <1>6
    <3> QED BY <2>1, <2>2, <3>1, <1>2
  <2>3. CASE ~(i < k)
    <3>1. i - (k - 1) \in 1 .. Len(l) - k /\ k + (i - (k - 1)) = i + 1 /\ ~(i <= k - 1)
      BY <2>1, <2>3, <1>6
    <3> QED BY <2>1, <2>3, <3>1, <1>3
  <2> QED BY <2>2, <2>3
<1> QED BY <1>8, <1>9 DEF m

\* The timer of one entry changes.
LEMMA Timed ==
  ASSUME NEW l \in Seq(Neighbor), NEW k \in 1 .. Len(l), NEW e \in Neighbor,
         e.id = l[k].id
  PROVE  /\ [l EXCEPT ![k] = e] \in Seq(Neighbor)
         /\ Len([l EXCEPT ![k] = e]) = Len(l)
         /\ \A i \in 1 .. Len(l) :
              /\ [l EXCEPT ![k] = e][i].id = l[i].id
              /\ [l EXCEPT ![k] = e][i].alive =
                   IF i = k THEN e.alive ELSE l[i].alive
BY ExceptSeq

-----------------------------------------------------------------------------
(***************************************************************************)
(* Steps that leave the list and the silence alone, and do not move the    *)
(* life check back in the list.                                            *)
(***************************************************************************)
LEMMA ListKept ==
  ASSUME OneEntryPerRouter, TimersCover, TypeOK,
         UNCHANGED <<list, quiet>>, walk' = walk \/ walk' = 0
  PROVE  OneEntryPerRouter' /\ TimersCover'
BY DEF OneEntryPerRouter, TimersCover, Ahead

LEMMA LookKept ==
  ASSUME LookHolds, UNCHANGED <<list, hello>>
  PROVE  LookHolds'
BY DEF LookHolds, Listed

LEMMA HelloStep ==
  ASSUME IInv, NEW r \in Routers, NEW i \in Ifaces, Hello(r, i)
  PROVE  IInv'
<1>1. TypeOK'
  BY DEF Hello, TypeOK, IInv, NoHello, Listed
<1>2. OneEntryPerRouter' /\ TimersCover'
  BY ListKept DEF Hello, IInv
<1>3. LookHolds'
  BY DEF Hello, LookHolds, Listed, IInv
<1> QED BY <1>1, <1>2, <1>3 DEF IInv

LEMMA SetStep ==
  ASSUME IInv, HelloSetId \/ HelloSetIp
  PROVE  IInv'
<1>1. TypeOK'
  BY DEF HelloSetId, HelloSetIp, TypeOK, IInv
<1>2. OneEntryPerRouter' /\ TimersCover'
  BY ListKept DEF HelloSetId, HelloSetIp, IInv
<1>3. LookHolds'
  BY DEF HelloSetId, HelloSetIp, LookHolds, Listed, IInv, TypeOK
<1> QED BY <1>1, <1>2, <1>3 DEF IInv

LEMMA AnnounceStep ==
  ASSUME IInv, HelloAnnounce
  PROVE  IInv'
<1>1. TypeOK'
  BY DEF HelloAnnounce, TypeOK, IInv, NoHello
<1>2. OneEntryPerRouter' /\ TimersCover'
  BY ListKept DEF HelloAnnounce, IInv
<1>3. LookHolds'
  BY DEF HelloAnnounce, LookHolds, NoHello
<1> QED BY <1>1, <1>2, <1>3 DEF IInv

\* The other steps that touch neither the list nor the handler.
LEMMA ClearStep ==
  ASSUME IInv, ClearId \/ ClearIp \/ NoInterface \/ LifeEnd
                 \/ \E i \in Ifaces : SendLsu(i)
  PROVE  IInv'
<1>0. TypeOK /\ LookHolds
  BY DEF IInv
<1>1. UNCHANGED <<list, quiet, hello>> /\ (walk' = walk \/ walk' = 0)
  BY DEF ClearId, ClearIp, NoInterface, LifeEnd, SendLsu
<1>2. TypeOK'
  <2>1. CASE ClearId
    <3>1. dead' \in Seq(Routers)
      BY <2>1, <1>0, HeadTailProperties DEF ClearId, TypeOK
    <3>2. clearing' \in Ifaces
      BY <2>1 DEF ClearId, InterfacesOf
    <3> QED BY <2>1, <3>1, <3>2, <1>0 DEF ClearId, TypeOK
  <2>2. CASE ClearIp
    BY <2>2, <1>0 DEF ClearIp, TypeOK
  <2>3. CASE NoInterface
    BY <2>3, <1>0 DEF NoInterface, TypeOK
  <2>4. CASE LifeEnd
    BY <2>4, <1>0 DEF LifeEnd, TypeOK
  <2>5. CASE \E i \in Ifaces : SendLsu(i)
    BY <2>5, <1>0 DEF SendLsu, TypeOK
  <2> QED BY <2>1, <2>2, <2>3, <2>4, <2>5
<1>3. OneEntryPerRouter' /\ TimersCover'
  BY <1>1, ListKept DEF IInv
<1> QED BY <1>0, <1>1, <1>2, <1>3, LookKept DEF IInv
-----------------------------------------------------------------------------
LEMMA ListFacts ==
  ASSUME TypeOK
  PROVE  /\ list \in Seq(Neighbor) /\ Len(list) \in Nat
         /\ DOMAIN list = 1 .. Len(list)
         /\ \A k \in 1 .. Len(list) :
              list[k].id \in Routers /\ list[k].alive \in 0 .. Timeout
         /\ quiet \in [Routers -> 0 .. QuietLimit]
         /\ walk \in Nat
<1>1. list \in Seq(Neighbor)
  BY DEF TypeOK
<1>2. \A k \in 1 .. Len(list) : list[k] \in Neighbor
  BY <1>1, ElementOfSeq
<1>3. \A k \in 1 .. Len(list) :
        list[k].id \in Routers /\ list[k].alive \in 0 .. Timeout
  BY <1>2 DEF Neighbor
<1>4. Len(list) \in Nat /\ DOMAIN list = 1 .. Len(list)
  BY <1>1
<1> QED BY <1>1, <1>3, <1>4 DEF TypeOK

(***************************************************************************)
(* An addition at the front, and a refresh of the one entry there is.      *)
(***************************************************************************)
LEMMA AddStep ==
  ASSUME IInv, HelloUpdate, list' = AddNeighbor(hello.id, list),
         ~Listed(hello.id)
  PROVE  list' \in Seq(Neighbor) /\ OneEntryPerRouter' /\ TimersCover'
<1>1. /\ list \in Seq(Neighbor) /\ Len(list) \in Nat
      /\ DOMAIN list = 1 .. Len(list)
      /\ quiet \in [Routers -> 0 .. QuietLimit] /\ walk \in Nat
  BY ListFacts DEF IInv
<1>2. hello.id \in Routers
  BY NeighborsAssumption DEF IInv, LookHolds, HelloUpdate
<1>3. /\ list' \in Seq(Neighbor)
      /\ Len(list') = Len(list) + 1
      /\ list'[1] = [id |-> hello.id, alive |-> Timeout]
      /\ \A k \in 1 .. Len(list) : list'[k + 1] = list[k]
  BY <1>1, <1>2, Added
<1>4. /\ quiet' = [quiet EXCEPT ![hello.id] = 0]
      /\ walk' = IF walk > 1 THEN walk + 1 ELSE walk
  BY <1>1, <1>3 DEF HelloUpdate, Behind
<1>5. ASSUME NEW k \in 1 .. Len(list'), k # 1
      PROVE  k - 1 \in 1 .. Len(list) /\ list'[k] = list[k - 1]
  <2>1. k - 1 \in 1 .. Len(list) /\ (k - 1) + 1 = k
    BY <1>1, <1>3, <1>5
  <2> QED BY <2>1, <1>3
<1>6. \A k \in 1 .. Len(list) :
        /\ list[k].id \in Routers /\ list[k].id # hello.id
        /\ list[k].alive \in 0 .. Timeout
  BY <1>1, ListFacts DEF Listed, IInv
<1>7. OneEntryPerRouter'
  <2> SUFFICES ASSUME NEW j \in 1 .. Len(list'), NEW k \in 1 .. Len(list'),
                      list'[j].id = list'[k].id
               PROVE  j = k
    <3>1. DOMAIN list' = 1 .. Len(list')
      BY <1>3
    <3> QED BY <3>1 DEF OneEntryPerRouter
  <2>1. CASE j = 1 /\ k = 1
    BY <2>1
  <2>2. CASE j = 1 /\ k # 1
    BY <2>2, <1>3, <1>5, <1>6
  <2>3. CASE j # 1 /\ k = 1
    BY <2>3, <1>3, <1>5, <1>6
  <2>4. CASE j # 1 /\ k # 1
    <3>1. /\ j - 1 \in DOMAIN list /\ k - 1 \in DOMAIN list
          /\ list[j - 1].id = list[k - 1].id
      BY <2>4, <1>1, <1>5
    <3>2. j - 1 = k - 1
      BY <3>1 DEF OneEntryPerRouter, IInv
    <3>3. j \in Nat /\ k \in Nat
      BY <1>1, <1>3
    <3> QED BY <3>2, <3>3
  <2> QED BY <2>1, <2>2, <2>3, <2>4
<1>8. TimersCover'
  <2> SUFFICES ASSUME NEW k \in 1 .. Len(list')
               PROVE  /\ Ahead(k)' => list'[k].alive + quiet'[list'[k].id] >= Timeout
                      /\ list'[k].alive + quiet'[list'[k].id] + 1 >= Timeout
    BY <1>3 DEF TimersCover
  <2>1. CASE k = 1
    <3>1. list'[k].alive = Timeout /\ quiet'[list'[k].id] = 0
      BY <2>1, <1>1, <1>2, <1>3, <1>4
    <3> QED BY <3>1, NeighborsAssumption
  <2>2. CASE k # 1
    <3> DEFINE j == k - 1
    <3>1. j \in 1 .. Len(list) /\ list'[k] = list[j]
      BY <2>2, <1>5
    <3>2. quiet'[list[j].id] = quiet[list[j].id] /\ quiet[list[j].id] \in Nat
      BY <3>1, <1>1, <1>4, <1>6
    <3>3. Ahead(k)' => Ahead(j)
      BY <3>1, <1>1, <1>4 DEF Ahead
    <3>4. /\ Ahead(j) => list[j].alive + quiet[list[j].id] >= Timeout
          /\ list[j].alive + quiet[list[j].id] + 1 >= Timeout
      BY <3>1, <1>1 DEF IInv, TimersCover
    <3> QED BY <3>1, <3>2, <3>3, <3>4
  <2> QED BY <2>1, <2>2
<1> QED BY <1>3, <1>7, <1>8

LEMMA RefreshStep ==
  ASSUME IInv, HelloUpdate, list' = RefreshAlive(hello.id, list),
         Listed(hello.id)
  PROVE  list' \in Seq(Neighbor) /\ OneEntryPerRouter' /\ TimersCover'
<1>1. /\ list \in Seq(Neighbor) /\ Len(list) \in Nat
      /\ DOMAIN list = 1 .. Len(list)
      /\ quiet \in [Routers -> 0 .. QuietLimit] /\ walk \in Nat
  BY ListFacts DEF IInv
<1>2. PICK n \in 1 .. Len(list) : list[n].id = hello.id
  BY <1>1 DEF Listed
<1>3. \A k \in DOMAIN list : list[k].id = hello.id => k = n
  BY <1>1, <1>2 DEF IInv, OneEntryPerRouter
<1>4. \A j \in 1 .. n - 1 : list[j].id # hello.id
  BY <1>1, <1>2, <1>3
<1>5. n = CHOOSE k \in DOMAIN list :
            list[k].id = hello.id /\ \A j \in 1 .. k - 1 : list[j].id # hello.id
  BY <1>1, <1>2, <1>3, <1>4
<1> DEFINE e == [list[n] EXCEPT !.alive = Timeout]
<1>6. list' = [list EXCEPT ![n] = e]
  BY <1>1, <1>2, <1>5 DEF RefreshAlive
<1>7. e \in Neighbor /\ e.id = list[n].id /\ e.alive = Timeout
  <2>1. list[n] \in Neighbor
    BY <1>1, <1>2, ElementOfSeq
  <2> QED BY <2>1, NeighborsAssumption DEF Neighbor
<1> HIDE DEF e
<1>8. /\ list' \in Seq(Neighbor)
      /\ Len(list') = Len(list)
      /\ \A i \in 1 .. Len(list) :
           /\ list'[i].id = list[i].id
           /\ list'[i].alive = IF i = n THEN Timeout ELSE list[i].alive
  BY <1>1, <1>2, <1>6, <1>7, Timed
<1>9. walk' = walk /\ quiet' = [quiet EXCEPT ![hello.id] = 0]
  BY <1>1, <1>8 DEF HelloUpdate, Behind
<1>10. OneEntryPerRouter'
  BY <1>1, <1>8 DEF IInv, OneEntryPerRouter
<1>11. TimersCover'
  <2> SUFFICES ASSUME NEW k \in 1 .. Len(list)
               PROVE  /\ Ahead(k)' => list'[k].alive + quiet'[list'[k].id] >= Timeout
                      /\ list'[k].alive + quiet'[list'[k].id] + 1 >= Timeout
    BY <1>1, <1>8 DEF TimersCover
  <2>1. list[k].id \in Routers
    BY ListFacts DEF IInv
  <2>2. CASE k = n
    <3>1. list'[k].alive = Timeout /\ quiet'[list'[k].id] = 0
      BY <2>1, <2>2, <1>1, <1>2, <1>8, <1>9
    <3> QED BY <3>1, NeighborsAssumption
  <2>3. CASE k # n
    <3>1. list'[k].alive = list[k].alive /\ quiet'[list'[k].id] = quiet[list[k].id]
      BY <2>1, <2>3, <1>1, <1>3, <1>8, <1>9
    <3>2. Ahead(k)' = Ahead(k)
      BY <1>9 DEF Ahead
    <3>3. /\ Ahead(k) => list[k].alive + quiet[list[k].id] >= Timeout
          /\ list[k].alive + quiet[list[k].id] + 1 >= Timeout
      BY <1>1 DEF IInv, TimersCover
    <3> QED BY <3>1, <3>2, <3>3
  <2> QED BY <2>2, <2>3
<1> QED BY <1>8, <1>10, <1>11

LEMMA UpdateStep ==
  ASSUME IInv, HelloUpdate
  PROVE  IInv'
<1>1. /\ TypeOK /\ hello.at = "update"
      /\ hello.id \in Routers
      /\ list \in Seq(Neighbor) /\ Len(list) \in Nat
      /\ walk \in Nat
  BY NeighborsAssumption, ListFacts DEF IInv, LookHolds, HelloUpdate
<1>2. \/ list' = AddNeighbor(hello.id, list) /\ ~Listed(hello.id)
      \/ list' = RefreshAlive(hello.id, list) /\ Listed(hello.id)
  <2>1. CASE hello.known /\ Listed(hello.id)
    BY <2>1 DEF HelloUpdate
  <2>2. CASE hello.known /\ ~Listed(hello.id)
    BY <2>2 DEF HelloUpdate, RefreshAlive, Listed
  <2>3. CASE ~hello.known
    BY <1>1, <2>3 DEF HelloUpdate, LookHolds, IInv
  <2> QED BY <2>1, <2>2, <2>3
<1>3. list' \in Seq(Neighbor) /\ OneEntryPerRouter' /\ TimersCover'
  BY <1>2, AddStep, RefreshStep
<1>4. Len(list') - Len(list) \in {0, 1}
  <2>1. CASE list' = AddNeighbor(hello.id, list)
    <3>1. Len(list') = Len(list) + 1
      BY <1>1, <2>1, Added
    <3> QED BY <3>1, <1>1
  <2>2. CASE list' = RefreshAlive(hello.id, list) /\ Listed(hello.id)
    <3>1. Len(list') = Len(list)
      BY <1>1, <2>2 DEF RefreshAlive, Listed
    <3> QED BY <3>1, <1>1
  <2> QED BY <1>2, <2>1, <2>2
<1>5. walk' \in Nat
  BY <1>1, <1>4 DEF HelloUpdate, Behind
<1>6. hello' = NoHello \/ hello' = [hello EXCEPT !.at = "announce"]
  BY DEF HelloUpdate
<1>7. TypeOK'
  <2>1. hello' \in [at : {"idle", "set", "setip", "update", "announce"},
                    id : Routers \cup {None}, rx : Ifaces \cup {None},
                    known : BOOLEAN]
    <3>1. CASE hello' = NoHello
      BY <3>1 DEF NoHello
    <3>2. CASE hello' = [hello EXCEPT !.at = "announce"]
      BY <1>1, <3>2 DEF TypeOK
    <3> QED BY <1>6, <3>1, <3>2
  <2>2. quiet' \in [Routers -> 0 .. QuietLimit]
    <3>1. quiet' = [quiet EXCEPT ![hello.id] = 0] /\ 0 \in 0 .. QuietLimit
      BY NeighborsAssumption DEF HelloUpdate
    <3> QED BY <3>1, <1>1 DEF TypeOK
  <2>3. UNCHANGED <<nbrId, nbrIp, dead, clearing, lsus, up>>
    BY DEF HelloUpdate
  <2> QED BY <1>1, <1>3, <1>5, <2>1, <2>2, <2>3 DEF TypeOK
<1>8. LookHolds'
  <2>1. CASE hello' = NoHello
    BY <2>1 DEF NoHello, LookHolds
  <2>2. CASE hello' = [hello EXCEPT !.at = "announce"]
    <3>1. hello'.at = "announce" /\ hello'.id = hello.id /\ hello'.rx = hello.rx
      BY <1>1, <2>2 DEF TypeOK
    <3> QED BY <1>1, <3>1 DEF IInv, LookHolds
  <2> QED BY <1>6, <2>1, <2>2
<1> QED BY <1>3, <1>7, <1>8 DEF IInv
-----------------------------------------------------------------------------
(***************************************************************************)
(* The life check: a second begins, and one entry is looked at.            *)
(***************************************************************************)
(* One more second, or as many as are counted, makes up for one decrement. *)
LEMMA SecondCovers ==
  ASSUME NEW a \in Nat, NEW q \in Nat, NEW next \in Nat,
         NEW limit \in Nat, NEW timeout \in Nat,
         limit >= timeout, next = q + 1 \/ next = limit, a + q + 1 >= timeout
  PROVE  a + next >= timeout /\ a + next + 1 >= timeout
BY SMTT(30)

LEMMA BeginStep ==
  ASSUME IInv, LifeBegin
  PROVE  IInv'
<1>1. /\ TypeOK /\ walk = 0 /\ walk' = 1
      /\ DOMAIN list = 1 .. Len(list) /\ Len(list) \in Nat
      /\ UNCHANGED <<list, nbrId, nbrIp, hello, dead, clearing, lsus, up>>
  BY ListFacts DEF IInv, LifeBegin
<1>2. \A r \in Routers :
        /\ quiet[r] \in 0 .. QuietLimit /\ quiet'[r] \in 0 .. QuietLimit
        /\ quiet'[r] = quiet[r] + 1 \/ quiet'[r] = QuietLimit
  BY <1>1, NeighborsAssumption DEF LifeBegin, TypeOK
<1>3. TypeOK'
  <2>1. quiet' \in [Routers -> 0 .. QuietLimit]
    BY <1>2 DEF LifeBegin
  <2> QED BY <1>1, <2>1 DEF TypeOK
<1>4. OneEntryPerRouter' /\ LookHolds'
  BY <1>1, LookKept DEF IInv, OneEntryPerRouter
<1>5. TimersCover'
  <2>1. ASSUME NEW k \in 1 .. Len(list)
        PROVE  /\ list[k].alive + quiet'[list[k].id] >= Timeout
               /\ list[k].alive + quiet'[list[k].id] + 1 >= Timeout
    <3>1. list[k].id \in Routers /\ list[k].alive \in 0 .. Timeout
      BY <1>1, ListFacts
    <3>2. list[k].alive + quiet[list[k].id] + 1 >= Timeout
      BY <1>1 DEF IInv, TimersCover
    <3>3. /\ quiet[list[k].id] \in Nat /\ quiet'[list[k].id] \in Nat
          /\ \/ quiet'[list[k].id] = quiet[list[k].id] + 1
             \/ quiet'[list[k].id] = QuietLimit
      BY <3>1, <1>2, NeighborsAssumption
    <3>4. /\ list[k].alive \in Nat /\ Timeout \in Nat /\ QuietLimit \in Nat
          /\ QuietLimit >= Timeout
      BY <3>1, NeighborsAssumption
    <3> QED BY ONLY <3>2, <3>3, <3>4, SecondCovers
  <2> QED BY <1>1, <2>1 DEF TimersCover
<1> QED BY <1>3, <1>4, <1>5 DEF IInv

LEMMA RemoveStep ==
  ASSUME IInv, LifeEntry, list[walk].alive = 0
  PROVE  IInv' /\ quiet[list[walk].id] >= Timeout
<1>1. /\ TypeOK /\ list \in Seq(Neighbor) /\ Len(list) \in Nat
      /\ DOMAIN list = 1 .. Len(list)
      /\ walk \in 1 .. Len(list) /\ walk' = walk + 1
      /\ list' = RemoveAt(list, walk)
      /\ dead' = <<list[walk].id>> \o dead
      /\ UNCHANGED <<nbrId, nbrIp, hello, clearing, lsus, quiet, up>>
  BY ListFacts DEF IInv, LifeEntry
<1>2. /\ list' \in Seq(Neighbor)
      /\ Len(list') = Len(list) - 1
      /\ \A i \in 1 .. Len(list') :
           list'[i] = IF i < walk THEN list[i] ELSE list[i + 1]
  BY <1>1, Removed
<1>3. DOMAIN list' = 1 .. Len(list')
  BY <1>2
<1>4. list[walk].id \in Routers /\ quiet[list[walk].id] \in Nat
  BY <1>1, ListFacts DEF TypeOK
<1>5. TypeOK'
  <2>1. dead' \in Seq(Routers)
    <3>1. <<list[walk].id>> \in Seq(Routers) /\ dead \in Seq(Routers)
      BY <1>1, <1>4 DEF TypeOK
    <3> QED BY <3>1, <1>1, ConcatProperties
  <2> QED BY <1>1, <1>2, <2>1 DEF TypeOK
\* Where each entry that is left was.
<1> DEFINE was(i) == IF i < walk THEN i ELSE i + 1
<1>6. ASSUME NEW i \in 1 .. Len(list')
      PROVE  was(i) \in 1 .. Len(list) /\ list'[i] = list[was(i)]
  BY <1>1, <1>2
<1>7. OneEntryPerRouter'
  <2> SUFFICES ASSUME NEW j \in 1 .. Len(list'), NEW k \in 1 .. Len(list'),
                      list'[j].id = list'[k].id
               PROVE  j = k
    BY <1>3 DEF OneEntryPerRouter
  <2>1. was(j) = was(k)
    <3>1. /\ was(j) \in DOMAIN list /\ list'[j] = list[was(j)]
          /\ was(k) \in DOMAIN list /\ list'[k] = list[was(k)]
      BY <1>1, <1>6
    <3> HIDE DEF was
    <3> QED BY <3>1 DEF IInv, OneEntryPerRouter
  <2> QED BY <2>1, <1>1, <1>2
<1>8. LookHolds'
  <2>1. Listed(hello.id)' => Listed(hello.id)
    <3> SUFFICES ASSUME NEW i \in 1 .. Len(list'), list'[i].id = hello.id
                 PROVE  Listed(hello.id)
      BY <1>1, <1>3 DEF Listed
    <3>1. was(i) \in DOMAIN list /\ list'[i] = list[was(i)]
      BY <1>1, <1>6
    <3> HIDE DEF was
    <3> QED BY <3>1 DEF Listed
  <2> QED BY <2>1, <1>1 DEF IInv, LookHolds
<1>9. TimersCover'
  <2> SUFFICES ASSUME NEW i \in 1 .. Len(list')
               PROVE  /\ Ahead(i)' => list'[i].alive + quiet[list'[i].id] >= Timeout
                      /\ list'[i].alive + quiet[list'[i].id] + 1 >= Timeout
    <3>1. quiet' = quiet
      BY <1>1
    <3> QED BY <3>1, <1>3 DEF TimersCover
  <2>1. Ahead(i)' => Ahead(was(i))
    BY <1>1, <1>2 DEF Ahead
  <2>2. /\ Ahead(was(i)) => list[was(i)].alive + quiet[list[was(i)].id] >= Timeout
        /\ list[was(i)].alive + quiet[list[was(i)].id] + 1 >= Timeout
    <3>1. was(i) \in DOMAIN list
      BY <1>1, <1>6
    <3> HIDE DEF was
    <3> QED BY <3>1 DEF IInv, TimersCover
  <2>3. list'[i] = list[was(i)]
    BY <1>6
  <2> HIDE DEF was
  <2> QED BY <2>1, <2>2, <2>3
<1>10. quiet[list[walk].id] >= Timeout
  <2>1. Ahead(walk)
    BY <1>1 DEF Ahead
  <2>2. list[walk].alive + quiet[list[walk].id] >= Timeout
    BY <2>1, <1>1 DEF IInv, TimersCover
  <2> QED BY <2>2, <1>4
<1> QED BY <1>5, <1>7, <1>8, <1>9, <1>10 DEF IInv

LEMMA DecrementStep ==
  ASSUME IInv, LifeEntry, list[walk].alive # 0
  PROVE  IInv' /\ (\A r \in Routers : Listed(r) => Listed(r)')
<1> DEFINE e == Aged(list[walk])
<1>1. /\ TypeOK /\ list \in Seq(Neighbor) /\ Len(list) \in Nat
      /\ DOMAIN list = 1 .. Len(list)
      /\ walk \in 1 .. Len(list) /\ walk' = walk + 1
      /\ list' = [list EXCEPT ![walk] = e]
      /\ UNCHANGED <<nbrId, nbrIp, hello, dead, clearing, lsus, quiet, up>>
  BY ListFacts DEF IInv, LifeEntry
<1>2. /\ e \in Neighbor /\ e.id = list[walk].id
      /\ e.alive = list[walk].alive - 1 /\ list[walk].alive \in Nat
  <2>1. list[walk] \in Neighbor
    BY <1>1, ElementOfSeq
  <2> QED BY <2>1, NeighborsAssumption DEF Neighbor, Aged
<1> HIDE DEF e
<1>3. /\ list' \in Seq(Neighbor)
      /\ Len(list') = Len(list)
      /\ \A i \in 1 .. Len(list) :
           /\ list'[i].id = list[i].id
           /\ list'[i].alive = IF i = walk THEN e.alive ELSE list[i].alive
  BY <1>1, <1>2, Timed
<1>4. DOMAIN list' = 1 .. Len(list)
  BY <1>1, <1>3
<1>5. TypeOK'
  BY <1>1, <1>3 DEF TypeOK
<1>6. OneEntryPerRouter'
  BY <1>1, <1>3, <1>4 DEF IInv, OneEntryPerRouter
<1>7. \A r : Listed(r)' <=> Listed(r)
  BY <1>1, <1>3, <1>4 DEF Listed
<1>8. LookHolds'
  BY <1>1, <1>7 DEF IInv, LookHolds
<1>9. TimersCover'
  <2> SUFFICES ASSUME NEW i \in 1 .. Len(list)
               PROVE  /\ Ahead(i)' => list'[i].alive + quiet[list'[i].id] >= Timeout
                      /\ list'[i].alive + quiet[list'[i].id] + 1 >= Timeout
    BY <1>1, <1>4 DEF TimersCover
  <2>1. /\ Ahead(i) => list[i].alive + quiet[list[i].id] >= Timeout
        /\ list[i].alive + quiet[list[i].id] + 1 >= Timeout
    BY <1>1 DEF IInv, TimersCover
  <2>2. quiet[list[i].id] \in Nat
    BY <1>1, ListFacts DEF TypeOK
  <2>3. CASE i = walk
    <3>1. Ahead(i) /\ ~Ahead(i)'
      BY <1>1, <2>3 DEF Ahead
    <3>2. list'[i].alive = list[i].alive - 1 /\ list[i].alive \in Nat
      BY <2>3, <1>2, <1>3
    <3>3. list'[i].id = list[i].id
      BY <1>3
    <3> QED BY <2>1, <2>2, <3>1, <3>2, <3>3
  <2>4. CASE i # walk
    <3>1. Ahead(i)' => Ahead(i)
      BY <1>1 DEF Ahead
    <3> QED BY <2>1, <2>4, <3>1, <1>3
  <2> QED BY <2>3, <2>4
<1> QED BY <1>5, <1>6, <1>7, <1>8, <1>9 DEF IInv
-----------------------------------------------------------------------------
LEMMA InitInv == Init => IInv
BY NeighborsAssumption DEF Init, IInv, TypeOK, OneEntryPerRouter, LookHolds,
   TimersCover, NoHello

LEMMA InvStep ==
  ASSUME IInv, [Next]_vars
  PROVE  IInv'
<1>1. CASE UNCHANGED vars
  BY <1>1, ListKept, LookKept DEF vars, IInv, TypeOK
<1>2. CASE LifeEntry
  BY <1>2, RemoveStep, DecrementStep
<1> QED
  BY <1>1, <1>2, HelloStep, SetStep, AnnounceStep, UpdateStep, ClearStep, BeginStep
  DEF Next, Receive, Life

(***************************************************************************)
(* The types of PwospfNeighbors, which hold together with the invariants   *)
(* below.                                                                  *)
(***************************************************************************)
THEOREM TypeCorrect == Spec => []TypeOK
<1>1. IInv => TypeOK
  BY DEF IInv
<1> QED BY <1>1, InitInv, InvStep, PTL DEF Spec

(***************************************************************************)
(* The HELLO handler never puts a router into the list that is there,      *)
(* although the life check changes the list between its look and its       *)
(* decision.                                                               *)
(***************************************************************************)
THEOREM OneEntry == Spec => []OneEntryPerRouter
<1>1. IInv => OneEntryPerRouter
  BY DEF IInv
<1> QED BY <1>1, InitInv, InvStep, PTL DEF Spec
-----------------------------------------------------------------------------
(***************************************************************************)
(* Whoever is still in the list after a step, and who is not.              *)
(***************************************************************************)
LEMMA OnlyTheRemovedLeaves ==
  ASSUME IInv, LifeEntry, list[walk].alive = 0,
         NEW r \in Routers, Listed(r), r # list[walk].id
  PROVE  Listed(r)'
<1>1. /\ list \in Seq(Neighbor) /\ Len(list) \in Nat
      /\ DOMAIN list = 1 .. Len(list)
      /\ walk \in 1 .. Len(list) /\ list' = RemoveAt(list, walk)
  BY ListFacts DEF IInv, LifeEntry
<1>2. /\ list' \in Seq(Neighbor)
      /\ Len(list') = Len(list) - 1
      /\ \A i \in 1 .. Len(list') :
           list'[i] = IF i < walk THEN list[i] ELSE list[i + 1]
  BY <1>1, Removed
<1>3. DOMAIN list' = 1 .. Len(list')
  BY <1>2
<1>4. PICK k \in 1 .. Len(list) : list[k].id = r
  BY <1>1 DEF Listed
<1>5. k # walk
  BY <1>4
<1>6. CASE k < walk
  <2>1. k \in 1 .. Len(list')
    BY <1>1, <1>2, <1>6
  <2>2. list'[k] = list[k]
    BY <2>1, <1>2, <1>6
  <2> QED BY <2>1, <2>2, <1>3, <1>4 DEF Listed
<1>7. CASE ~(k < walk)
  <2>1. k - 1 \in 1 .. Len(list') /\ ~(k - 1 < walk) /\ (k - 1) + 1 = k
    BY <1>1, <1>2, <1>5, <1>7
  <2>2. list'[k - 1] = list[k]
    BY <2>1, <1>2
  <2> QED BY <2>1, <2>2, <1>3, <1>4 DEF Listed
<1> QED BY <1>6, <1>7

LEMMA UpdateLists ==
  ASSUME IInv, HelloUpdate
  PROVE  /\ \E k \in DOMAIN list' : list'[k].id = hello.id
         /\ \A r \in Routers : Listed(r) => Listed(r)'
<1>1. /\ TypeOK /\ hello.id \in Routers
      /\ list \in Seq(Neighbor) /\ Len(list) \in Nat
      /\ DOMAIN list = 1 .. Len(list)
  BY NeighborsAssumption, ListFacts DEF IInv, LookHolds, HelloUpdate
<1>2. CASE list' = AddNeighbor(hello.id, list)
  <2>1. /\ Len(list') = Len(list) + 1
        /\ list'[1].id = hello.id
        /\ \A k \in 1 .. Len(list) : list'[k + 1] = list[k]
        /\ list' \in Seq(Neighbor)
    <3>1. /\ AddNeighbor(hello.id, list) \in Seq(Neighbor)
          /\ Len(AddNeighbor(hello.id, list)) = Len(list) + 1
          /\ AddNeighbor(hello.id, list)[1] = [id |-> hello.id, alive |-> Timeout]
          /\ \A k \in 1 .. Len(list) : AddNeighbor(hello.id, list)[k + 1] = list[k]
      BY <1>1, Added
    <3> QED BY <3>1, <1>2
  <2>2. DOMAIN list' = 1 .. Len(list) + 1
    BY <2>1
  <2>3. 1 \in DOMAIN list' /\ \A k \in 1 .. Len(list) : k + 1 \in DOMAIN list'
    BY <2>2, <1>1
  <2>4. ASSUME NEW r \in Routers, Listed(r) PROVE Listed(r)'
    <3>1. PICK k \in 1 .. Len(list) : list[k].id = r
      BY <1>1, <2>4 DEF Listed
    <3> QED BY <3>1, <2>1, <2>3 DEF Listed
  <2> QED BY <2>1, <2>3, <2>4
<1>3. CASE list' = RefreshAlive(hello.id, list) /\ Listed(hello.id)
  <2>1. DOMAIN list' = DOMAIN list
    BY <1>3 DEF RefreshAlive, Listed
  <2>2. \A k \in 1 .. Len(list) : list'[k].id = list[k].id
    <3>1. \A k \in 1 .. Len(list) : list[k] \in Neighbor
      BY <1>1, ElementOfSeq
    <3> QED BY <1>1, <1>3, <3>1 DEF RefreshAlive, Listed, Neighbor
  <2>3. \A r \in Routers : Listed(r) => Listed(r)'
    BY <1>1, <2>1, <2>2 DEF Listed
  <2>4. \E k \in DOMAIN list' : list'[k].id = hello.id
    BY <1>1, <1>3, <2>1, <2>2 DEF Listed
  <2> QED BY <2>3, <2>4
<1> QED
  BY <1>2, <1>3 DEF HelloUpdate, RefreshAlive, Listed

LEMMA StillListed ==
  ASSUME IInv, [Next]_vars, NEW r \in Routers, Listed(r), ~Listed(r)'
  PROVE  LifeEntry /\ list[walk].alive = 0 /\ list[walk].id = r
<1>1. ~UNCHANGED list
  BY DEF Listed
<1>2. HelloUpdate \/ LifeEntry
  BY <1>1 DEF Next, vars, Receive, Life, Hello, HelloSetId, HelloSetIp,
     HelloAnnounce, SendLsu, LifeBegin, LifeEnd, ClearId, ClearIp, NoInterface
<1> QED BY <1>2, UpdateLists, OnlyTheRemovedLeaves, DecrementStep

(***************************************************************************)
(* A neighbour is removed only after Timeout life checks without a HELLO   *)
(* from it, however the removals of others make the walk step over it and  *)
(* whenever its HELLOs come in the middle of a walk.                       *)
(***************************************************************************)
THEOREM RemovedOnTime == Spec => NoEarlyRemoval
<1>1. ASSUME IInv, [Next]_vars, NEW r \in Routers, Listed(r), ~Listed(r)'
      PROVE  quiet[r] >= Timeout
  BY <1>1, StillListed, RemoveStep
<1>2. IInv /\ [Next]_vars =>
        [\A r \in Routers : Listed(r) /\ ~Listed(r)' => quiet[r] >= Timeout]_vars
  BY <1>1
<1> QED BY <1>2, InitInv, InvStep, PTL DEF Spec, NoEarlyRemoval
-----------------------------------------------------------------------------
(***************************************************************************)
(* NoStaleInterface, made inductive: an interface names a router that can  *)
(* be heard there, and the HELLO that set it counts only until the list    *)
(* has been updated.                                                       *)
(***************************************************************************)
Removing(r) == \E k \in DOMAIN dead : dead[k] = r
Setting(r) == hello.at \in {"setip", "update"} /\ hello.id = r
Minded(r) == Listed(r) \/ Removing(r) \/ Setting(r)
Interfaces ==
  \A i \in Ifaces : nbrId[i] # None => <<nbrId[i], i>> \in Link /\ Minded(nbrId[i])
OneLinkEach ==
  \A r \in Routers, i, j \in Ifaces :
    <<r, i>> \in Link /\ <<r, j>> \in Link => i = j

LEMMA RemovedIsRemembered ==
  ASSUME IInv, LifeEntry
  PROVE  /\ \A r \in Routers : Listed(r) => Listed(r)' \/ Removing(r)'
         /\ \A r \in Routers : Removing(r) => Removing(r)'
<1>1. dead \in Seq(Routers) /\ DOMAIN dead = 1 .. Len(dead) /\ Len(dead) \in Nat
  BY DEF IInv, TypeOK
<1>2. CASE list[walk].alive = 0
  <2>1. list[walk].id \in Routers
    BY ListFacts DEF IInv, LifeEntry
  <2>2. dead' = <<list[walk].id>> \o dead
    BY <1>2 DEF LifeEntry
  <2>3. <<list[walk].id>> \in Seq(Routers) /\ Len(<<list[walk].id>>) = 1
    BY <2>1
  <2>4. /\ dead' \in Seq(Routers) /\ Len(dead') = 1 + Len(dead)
        /\ \A k \in 1 .. 1 + Len(dead) :
             dead'[k] = IF k <= 1 THEN <<list[walk].id>>[k] ELSE dead[k - 1]
    BY <1>1, <2>2, <2>3, ConcatProperties
  <2>5. DOMAIN dead' = 1 .. 1 + Len(dead)
    BY <2>4
  <2>6. 1 \in DOMAIN dead' /\ dead'[1] = list[walk].id
    BY <1>1, <2>4, <2>5
  <2>7. ASSUME NEW r \in Routers, Removing(r) PROVE Removing(r)'
    <3>1. PICK k \in 1 .. Len(dead) : dead[k] = r
      BY <1>1, <2>7 DEF Removing
    <3>2. k + 1 \in DOMAIN dead' /\ dead'[k + 1] = r
      BY <1>1, <2>4, <2>5, <3>1
    <3> QED BY <3>2 DEF Removing
  <2> QED BY <1>2, <2>6, <2>7, OnlyTheRemovedLeaves DEF Removing
<1>3. CASE list[walk].alive # 0
  BY <1>3, DecrementStep DEF LifeEntry, Removing
<1> QED BY <1>2, <1>3

LEMMA InterfacesStep ==
  ASSUME IInv, Interfaces, OneLinkEach, [Next]_vars
  PROVE  Interfaces'
<1>1. /\ nbrId \in [Ifaces -> Routers \cup {None}]
      /\ dead \in Seq(Routers) /\ DOMAIN dead = 1 .. Len(dead) /\ Len(dead) \in Nat
  BY DEF IInv, TypeOK
<1>2. ASSUME UNCHANGED <<list, nbrId, dead>>,
             \A r \in Routers : Setting(r) => Setting(r)' \/ Listed(r)
      PROVE  Interfaces'
  BY <1>1, <1>2 DEF Interfaces, Minded, Listed, Removing
<1>3. CASE UNCHANGED vars
  BY <1>2, <1>3 DEF vars, Setting
<1>4. CASE LifeBegin \/ LifeEnd \/ ClearIp \/ NoInterface \/ \E i \in Ifaces : SendLsu(i)
  BY <1>2, <1>4 DEF LifeBegin, LifeEnd, ClearIp, NoInterface, SendLsu, Setting
<1>5. CASE HelloAnnounce \/ \E r \in Routers, i \in Ifaces : Hello(r, i)
  <2>1. hello.at \in {"announce", "idle"} /\ UNCHANGED <<list, nbrId, dead>>
    <3>1. CASE HelloAnnounce
      BY <3>1 DEF HelloAnnounce
    <3>2. CASE \E r \in Routers, i \in Ifaces : Hello(r, i)
      BY <3>2, NoHello.at = "idle" DEF Hello, NoHello
    <3> QED BY <1>5, <3>1, <3>2
  <2>2. \A r \in Routers : ~Setting(r)
    BY <2>1 DEF Setting
  <2> QED BY <1>2, <2>1, <2>2
<1>6. CASE HelloSetIp
  <2>1. hello'.at = "update" /\ hello'.id = hello.id
    BY <1>6 DEF HelloSetIp, IInv, TypeOK
  <2> QED BY <1>2, <1>6, <2>1 DEF HelloSetIp, Setting
<1>7. CASE HelloSetId
  <2>1. /\ hello'.at = "setip" /\ hello'.id = hello.id
        /\ <<hello.id, hello.rx>> \in Link /\ hello.rx \in Ifaces
        /\ nbrId' = [nbrId EXCEPT ![hello.rx] = hello.id]
        /\ UNCHANGED <<list, dead>> /\ hello.at = "set"
    BY <1>7, NeighborsAssumption DEF HelloSetId, IInv, TypeOK, LookHolds
  <2> SUFFICES ASSUME NEW i \in Ifaces, nbrId'[i] # None
               PROVE  <<nbrId'[i], i>> \in Link /\ Minded(nbrId[i])'
    BY DEF Interfaces
  <2>2. CASE i = hello.rx
    BY <2>1, <2>2, <1>1 DEF Minded, Setting
  <2>3. CASE i # hello.rx
    <3>1. nbrId'[i] = nbrId[i] /\ ~Setting(nbrId[i])
      BY <2>1, <2>3, <1>1 DEF Setting
    <3> QED BY <2>1, <3>1 DEF Interfaces, Minded, Listed, Removing
  <2> QED BY <2>2, <2>3
<1>8. CASE HelloUpdate
  <2>1. \A r \in Routers : Setting(r) \/ Listed(r) => Listed(r)'
    BY <1>8, UpdateLists DEF Setting, Listed
  <2> QED BY <1>1, <1>8, <2>1 DEF HelloUpdate, Interfaces, Minded, Removing
<1>9. CASE LifeEntry
  <2>1. UNCHANGED <<nbrId, hello>>
    BY <1>9 DEF LifeEntry
  <2> QED BY <1>1, <1>9, <2>1, RemovedIsRemembered DEF Interfaces, Minded, Setting
<1>10. CASE ClearId
  <2>1. PICK i \in Ifaces : /\ nbrId[i] = Head(dead)
                            /\ nbrId' = [nbrId EXCEPT ![i] = None]
    BY <1>10 DEF ClearId, InterfacesOf
  <2>2. /\ dead # <<>> /\ dead' = Tail(dead) /\ UNCHANGED <<list, hello>>
    BY <1>10 DEF ClearId
  <2>3. /\ dead' \in Seq(Routers) /\ Len(dead') = Len(dead) - 1
        /\ \A k \in 1 .. Len(dead') : dead'[k] = dead[k + 1]
        /\ DOMAIN dead' = 1 .. Len(dead')
        /\ Head(dead) = dead[1] /\ Head(dead) \in Routers
    BY <1>1, <2>2, HeadTailProperties
  <2> SUFFICES ASSUME NEW j \in Ifaces, nbrId'[j] # None
               PROVE  <<nbrId'[j], j>> \in Link /\ Minded(nbrId[j])'
    BY DEF Interfaces
  <2>4. j # i /\ nbrId'[j] = nbrId[j] /\ nbrId[j] \in Routers
    BY <2>1, <1>1
  <2>5. <<nbrId[j], j>> \in Link /\ Minded(nbrId[j])
    BY <2>4 DEF Interfaces
  <2>6. nbrId[j] # Head(dead)
    BY <2>1, <2>3, <2>4, <2>5, NeighborsAssumption DEF Interfaces, OneLinkEach
  <2>7. Removing(nbrId[j]) => Removing(nbrId[j])'
    <3> SUFFICES ASSUME NEW k \in 1 .. Len(dead), dead[k] = nbrId[j]
                 PROVE  \E n \in DOMAIN dead' : dead'[n] = nbrId[j]
      BY <1>1, <2>4 DEF Removing
    <3>1. k - 1 \in 1 .. Len(dead') /\ (k - 1) + 1 = k
      BY <1>1, <2>3, <2>6
    <3>2. dead'[k - 1] = nbrId[j]
      BY <2>3, <3>1
    <3> QED BY <2>3, <3>1, <3>2
  <2> QED BY <2>2, <2>4, <2>5, <2>7 DEF Minded, Listed, Setting
<1> QED
  BY <1>3, <1>4, <1>5, <1>6, <1>7, <1>8, <1>9, <1>10 DEF Next, Receive, Life

(***************************************************************************)
(* On a network where each router is heard on one interface, no interface  *)
(* keeps a neighbour that is neither in the list nor about to be added to  *)
(* it or cleared from it, although the list and the interfaces are written *)
(* by two threads, in different orders.                                    *)
(***************************************************************************)
THEOREM NoStale ==
  ASSUME OneLinkEach
  PROVE  Spec => []NoStaleInterface
<1>1. Init => Interfaces
  BY DEF Init, Interfaces
<1>2. IInv /\ Interfaces /\ [Next]_vars => Interfaces'
  BY InterfacesStep
<1>3. IInv /\ Interfaces => NoStaleInterface
  BY DEF Interfaces, Minded, Removing, Setting, NoStaleInterface
<1> QED BY <1>1, <1>2, <1>3, InitInv, InvStep, PTL DEF Spec

-----------------------------------------------------------------------------
(***************************************************************************)
(* RemovedInTime, made inductive, for two routers: what is left of a timer *)
(* when this second's check is over, and how many checks its entry may     *)
(* still miss.  Behind an entry that runs out first, or with it, it is one *)
(* check, and a second one if its own timer is still full then; in front,  *)
(* it is one if the timer is as full as that of a new entry.               *)
(***************************************************************************)
Left(k) == list[k].alive - (IF Ahead(k) THEN 1 ELSE 0)
Full == Timeout - (IF walk = 1 THEN 1 ELSE 0)
MayMiss(k) ==
  IF k = 1 THEN IF Left(1) >= Full THEN 1 ELSE 0
  ELSE IF Left(k) >= Left(1) + Timeout THEN 2
  ELSE IF Left(k) >= Left(1) THEN 1 ELSE 0

FewMissed ==
  /\ Len(list) <= 2
  /\ \A k \in DOMAIN list :
       quiet[list[k].id] + Left(k) + MayMiss(k) <= Timeout + 2

LEMMA AtMostTwo ==
  ASSUME NEW l \in Seq(Neighbor), Cardinality(Routers) <= 2,
         \A j, k \in DOMAIN l : l[j].id = l[k].id => j = k
  PROVE  Len(l) <= 2
<1> SUFFICES ASSUME Len(l) >= 3 PROVE FALSE
  OBVIOUS
<1>1. 1 \in DOMAIN l /\ 2 \in DOMAIN l /\ 3 \in DOMAIN l
  OBVIOUS
<1> DEFINE a == l[1].id
           b == l[2].id
           c == l[3].id
<1>2. a # b /\ a # c /\ b # c
  BY <1>1
<1>3. l[1] \in Neighbor /\ l[2] \in Neighbor /\ l[3] \in Neighbor
  BY <1>1, ElementOfSeq
<1>4. a \in Routers /\ b \in Routers /\ c \in Routers
  BY <1>3 DEF Neighbor
<1> HIDE DEF a, b, c
<1>5. IsFiniteSet({a}) /\ Cardinality({a}) = 1
  BY FS_Singleton
<1> DEFINE ab == {a} \cup {b}
           abc == ab \cup {c}
<1>6. b \notin {a} /\ c \notin ab
  BY <1>2
<1>7. IsFiniteSet(ab) /\ Cardinality(ab) = 2
  <2>1. Cardinality(ab) = Cardinality({a}) + 1 /\ IsFiniteSet(ab)
    BY <1>5, <1>6, FS_AddElement
  <2> QED
    BY <1>5, <2>1
<1>8. Cardinality(abc) = 3
  <2> HIDE DEF ab
  <2>1. Cardinality(abc) = Cardinality(ab) + 1
    BY <1>6, <1>7, FS_AddElement
  <2> QED
    BY <1>7, <2>1
<1>9. abc \in SUBSET Routers
  BY <1>4
<1>10. Cardinality(Routers) \in Nat /\ 3 <= Cardinality(Routers)
  BY <1>8, <1>9, NeighborsAssumption, FS_Subset, FS_CardinalityType
<1> QED
  BY <1>10

\* What a step knows of the state before it.
LEMMA MissedFacts ==
  ASSUME IInv, FewMissed
  PROVE  /\ list \in Seq(Neighbor) /\ Len(list) \in 0 .. 2
         /\ DOMAIN list = 1 .. Len(list)
         /\ walk \in Nat /\ Timeout \in Nat \ {0}
         /\ \A k \in 1 .. Len(list) :
              /\ list[k].id \in Routers /\ list[k].alive \in 0 .. Timeout
              /\ quiet[list[k].id] \in Nat
              /\ quiet[list[k].id] + Left(k) + MayMiss(k) <= Timeout + 2
<1>1. /\ list \in Seq(Neighbor) /\ Len(list) \in Nat
      /\ DOMAIN list = 1 .. Len(list) /\ walk \in Nat
      /\ \A k \in 1 .. Len(list) :
           list[k].id \in Routers /\ list[k].alive \in 0 .. Timeout
      /\ quiet \in [Routers -> 0 .. QuietLimit]
  BY ListFacts DEF IInv
<1>2. \A k \in 1 .. Len(list) : quiet[list[k].id] \in Nat
  BY <1>1, NeighborsAssumption
<1> QED
  BY <1>1, <1>2, NeighborsAssumption DEF FewMissed

LEMMA MissedBegin ==
  ASSUME IInv, FewMissed, LifeBegin
  PROVE  FewMissed'
<1>1. list' = list /\ walk = 0 /\ walk' = 1
  BY DEF LifeBegin
<1>2. \A k \in 1 .. Len(list) : quiet'[list[k].id] <= quiet[list[k].id] + 1
  <2>1. quiet \in [Routers -> 0 .. QuietLimit]
    BY DEF IInv, TypeOK
  <2>2. \A r \in Routers : quiet'[r] <= quiet[r] + 1 /\ quiet'[r] \in Nat
    BY <2>1, NeighborsAssumption DEF LifeBegin
  <2> QED
    BY <2>2, MissedFacts
<1>3. \A k \in 1 .. Len(list) : quiet'[list[k].id] \in Nat
  BY MissedFacts, NeighborsAssumption DEF IInv, TypeOK, LifeBegin
<1>4. ASSUME NEW k \in 1 .. Len(list)
      PROVE  /\ Left(k)' = list[k].alive - 1 /\ Left(k) = list[k].alive
             /\ Full' = Timeout - 1 /\ Full = Timeout
  BY <1>1, MissedFacts DEF Left, Ahead, Full
<1>5. ASSUME NEW k \in 1 .. Len(list) PROVE MayMiss(k)' = MayMiss(k)
  <2>1. 1 \in 1 .. Len(list)
    BY MissedFacts
  <2>2. Left(1)' = list[1].alive - 1 /\ Left(1) = list[1].alive
    BY <1>4, <2>1
  <2>3. list[1].alive \in Nat /\ list[k].alive \in Nat /\ Timeout \in Nat
    BY <2>1, MissedFacts
  <2>4. /\ Left(k)' = list[k].alive - 1 /\ Left(k) = list[k].alive
        /\ Full' = Timeout - 1 /\ Full = Timeout
    BY <1>4
  <2>5. /\ Left(1)' >= Full' <=> Left(1) >= Full
        /\ Left(k)' >= Left(1)' + Timeout <=> Left(k) >= Left(1) + Timeout
        /\ Left(k)' >= Left(1)' <=> Left(k) >= Left(1)
    BY <2>2, <2>3, <2>4
  <2> QED
    BY <2>5 DEF MayMiss
<1>6. ASSUME NEW k \in 1 .. Len(list)
      PROVE  quiet'[list[k].id] + Left(k)' + MayMiss(k)' <= Timeout + 2
  <2>1. /\ list[k].alive \in Nat /\ Timeout \in Nat
        /\ quiet[list[k].id] \in Nat /\ quiet'[list[k].id] \in Nat
        /\ quiet'[list[k].id] <= quiet[list[k].id] + 1
        /\ quiet[list[k].id] + list[k].alive + MayMiss(k) <= Timeout + 2
    BY <1>2, <1>3, <1>4, MissedFacts
  <2>2. MayMiss(k) \in {0, 1, 2}
    BY DEF MayMiss
  <2>3. Left(k)' = list[k].alive - 1 /\ MayMiss(k)' = MayMiss(k)
    BY <1>4, <1>5
  <2> QED
    BY <2>1, <2>2, <2>3, SMTT(20)
<1> QED
  BY <1>1, <1>6, MissedFacts DEF FewMissed

\* Steps that change neither the list nor the silence, nor where the walk is
\* in the list.
LEMMA MissedKept ==
  ASSUME IInv, FewMissed, UNCHANGED <<list, quiet>>,
         walk' = walk \/ (walk > Len(list) /\ walk' = 0)
  PROVE  FewMissed'
<1>1. CASE walk' = walk
  BY <1>1 DEF FewMissed, Left, MayMiss, Full, Ahead
<1>2. CASE walk > Len(list) /\ walk' = 0
  <2>1. ASSUME NEW k \in 1 .. Len(list)
        PROVE  Left(k)' = Left(k) /\ Full' = Full
    BY <1>2, <2>1, MissedFacts DEF Left, Ahead, Full
  <2>2. ASSUME NEW k \in 1 .. Len(list) PROVE MayMiss(k)' = MayMiss(k)
    <3>1. 1 \in 1 .. Len(list)
      BY MissedFacts
    <3> QED
      BY <2>1, <3>1 DEF MayMiss
  <2> QED
    BY <2>1, <2>2, MissedFacts DEF FewMissed
<1> QED
  BY <1>1, <1>2

LEMMA MissedDecrement ==
  ASSUME IInv, FewMissed, LifeEntry, list[walk].alive # 0
  PROVE  FewMissed'
<1>1. /\ walk \in 1 .. Len(list) /\ walk' = walk + 1 /\ quiet' = quiet
      /\ list' = [list EXCEPT ![walk] = Aged(list[walk])]
  BY MissedFacts DEF LifeEntry
<1>2. /\ Aged(list[walk]) \in Neighbor
      /\ Aged(list[walk]).id = list[walk].id
      /\ Aged(list[walk]).alive = list[walk].alive - 1
  <2>1. list[walk] \in Neighbor
    BY <1>1, MissedFacts, ElementOfSeq
  <2> QED
    BY <2>1, NeighborsAssumption DEF Neighbor, Aged
<1>3. /\ list' \in Seq(Neighbor) /\ Len(list') = Len(list)
      /\ \A i \in 1 .. Len(list) :
           /\ list'[i].id = list[i].id
           /\ list'[i].alive = IF i = walk THEN list[walk].alive - 1
                               ELSE list[i].alive
  BY <1>1, <1>2, MissedFacts, Timed
<1>4. ASSUME NEW k \in 1 .. Len(list) PROVE Left(k)' = Left(k)
  BY <1>1, <1>3, MissedFacts DEF Left, Ahead
<1>5. Full <= Full' /\ Full \in Int /\ Full' \in Int
  BY <1>1, MissedFacts DEF Full
<1>6. ASSUME NEW k \in 1 .. Len(list) PROVE MayMiss(k)' <= MayMiss(k)
  <2>1. 1 \in 1 .. Len(list)
    BY MissedFacts
  <2>2. /\ Left(1)' = Left(1) /\ Left(k)' = Left(k)
        /\ Left(1) \in Int /\ Left(k) \in Int
    BY <1>4, <2>1, MissedFacts DEF Left
  <2>3. Left(1)' >= Full' => Left(1) >= Full
    BY <1>5, <2>2
  <2> QED
    BY <2>2, <2>3 DEF MayMiss
<1>7. ASSUME NEW k \in 1 .. Len(list)
      PROVE  quiet'[list'[k].id] + Left(k)' + MayMiss(k)' <= Timeout + 2
  <2>1. /\ Left(k) \in Int /\ quiet[list[k].id] \in Nat /\ Timeout \in Nat
        /\ quiet[list[k].id] + Left(k) + MayMiss(k) <= Timeout + 2
    BY MissedFacts DEF Left
  <2>2. MayMiss(k) \in Nat /\ MayMiss(k)' \in Nat
    BY DEF MayMiss
  <2>3. quiet'[list'[k].id] = quiet[list[k].id]
    BY <1>1, <1>3
  <2>4. Left(k)' = Left(k) /\ MayMiss(k)' <= MayMiss(k)
    BY <1>4, <1>6
  <2> QED
    BY <2>1, <2>2, <2>3, <2>4
<1> QED
  BY <1>3, <1>7, MissedFacts DEF FewMissed

\* The entry behind a removed one misses a check: one of those it may miss.
LEMMA MissedRemove ==
  ASSUME IInv, FewMissed, LifeEntry, list[walk].alive = 0
  PROVE  FewMissed'
<1>1. /\ walk \in 1 .. Len(list) /\ walk' = walk + 1 /\ quiet' = quiet
      /\ list' = RemoveAt(list, walk)
  BY MissedFacts DEF LifeEntry
<1>2. /\ list' \in Seq(Neighbor) /\ Len(list') = Len(list) - 1
      /\ \A i \in 1 .. Len(list') :
           list'[i] = IF i < walk THEN list[i] ELSE list[i + 1]
  BY <1>1, MissedFacts, Removed
<1>3. Len(list') <= 1 /\ DOMAIN list' = 1 .. Len(list')
  BY <1>2, MissedFacts
<1>4. ASSUME NEW k \in 1 .. Len(list')
      PROVE  quiet'[list'[k].id] + Left(k)' + MayMiss(k)' <= Timeout + 2
  <2>1. k = 1 /\ Len(list) = 2
    BY <1>2, <1>3, MissedFacts
  <2>2. /\ list[1].alive \in 0 .. Timeout /\ list[2].alive \in 0 .. Timeout
        /\ quiet[list[1].id] \in Nat /\ quiet[list[2].id] \in Nat
        /\ quiet[list[1].id] + Left(1) + MayMiss(1) <= Timeout + 2
        /\ quiet[list[2].id] + Left(2) + MayMiss(2) <= Timeout + 2
        /\ Timeout \in Nat
    BY <2>1, MissedFacts
  <2>3. CASE walk = 1
    <3>1. list'[1] = list[2]
      BY <1>2, <2>1, <2>3
    <3>2. Left(1)' = list[2].alive /\ Full' = Timeout
      <4>1. walk' = 2
        BY <1>1, <2>3
      <4> QED
        BY <4>1, <2>2, <3>1 DEF Left, Ahead, Full
    <3>3. Left(2) = list[2].alive - 1 /\ Left(1) = 0 - 1
      BY <2>2, <2>3 DEF Left, Ahead
    <3>4. MayMiss(2) = IF list[2].alive >= Timeout THEN 2 ELSE 1
      BY <2>2, <3>3 DEF MayMiss
    <3>5. MayMiss(1)' = IF list[2].alive >= Timeout THEN 1 ELSE 0
      BY <3>2 DEF MayMiss
    <3>6. quiet'[list'[1].id] = quiet[list[2].id]
      BY <1>1, <3>1
    <3> QED
      BY <2>1, <2>2, <3>2, <3>3, <3>4, <3>5, <3>6
  <2>4. CASE walk = 2
    <3>1. list'[1] = list[1]
      BY <1>2, <2>1, <2>4
    <3>2. Left(1)' = Left(1) /\ Full' = Full
      BY <1>1, <2>4, <3>1 DEF Left, Ahead, Full
    <3>3. MayMiss(1)' = MayMiss(1)
      BY <3>2 DEF MayMiss
    <3>4. quiet'[list'[1].id] = quiet[list[1].id]
      BY <1>1, <3>1
    <3> QED
      BY <2>1, <2>2, <3>2, <3>3, <3>4
  <2> QED
    BY <1>1, <2>1, <2>3, <2>4
<1> QED
  BY <1>3, <1>4, MissedFacts DEF FewMissed

LEMMA MissedAdd ==
  ASSUME IInv, FewMissed, HelloUpdate, Len(list') <= 2,
         list' = AddNeighbor(hello.id, list), ~Listed(hello.id)
  PROVE  FewMissed'
<1>1. hello.id \in Routers
  BY NeighborsAssumption DEF IInv, LookHolds, HelloUpdate
<1>2. /\ list' \in Seq(Neighbor) /\ Len(list') = Len(list) + 1
      /\ list'[1] = [id |-> hello.id, alive |-> Timeout]
      /\ \A k \in 1 .. Len(list) : list'[k + 1] = list[k]
  BY <1>1, MissedFacts, Added
<1>3. walk' = IF walk > 1 THEN walk + 1 ELSE walk
  BY <1>2, MissedFacts DEF HelloUpdate, Behind
<1>4. quiet' = [quiet EXCEPT ![hello.id] = 0] /\ quiet \in [Routers -> Nat]
  BY NeighborsAssumption DEF HelloUpdate, IInv, TypeOK
<1>5. /\ Full' = Full /\ Left(1)' = Full /\ Full \in {Timeout, Timeout - 1}
      /\ Timeout \in Nat \ {0}
  BY <1>2, <1>3, MissedFacts DEF Full, Left, Ahead
<1>6. quiet'[list'[1].id] + Left(1)' + MayMiss(1)' <= Timeout + 2
  <2>1. quiet'[list'[1].id] = 0
    BY <1>1, <1>2, <1>4
  <2>2. MayMiss(1)' \in {0, 1}
    BY DEF MayMiss
  <2> QED
    BY <1>5, <2>1, <2>2
<1>7. ASSUME 2 \in 1 .. Len(list')
      PROVE  quiet'[list'[2].id] + Left(2)' + MayMiss(2)' <= Timeout + 2
  <2>1. 1 \in 1 .. Len(list) /\ list'[2] = list[1]
    BY <1>2, <1>7, MissedFacts
  <2>2. /\ list[1].alive \in 0 .. Timeout /\ list[1].id # hello.id
        /\ list[1].id \in Routers /\ quiet[list[1].id] \in Nat
        /\ quiet[list[1].id] + Left(1) + MayMiss(1) <= Timeout + 2
    BY <2>1, MissedFacts DEF Listed
  <2>3. quiet'[list'[2].id] = quiet[list[1].id]
    BY <1>4, <2>1, <2>2
  <2>4. Left(2)' = Left(1) /\ Left(1) \in Int /\ Left(1) <= Full
    BY <1>3, <2>1, <2>2, MissedFacts DEF Left, Ahead, Full
  <2>5. MayMiss(2)' = MayMiss(1)
    <3>1. ~(Left(2)' >= Left(1)' + Timeout)
      BY <1>5, <2>4
    <3>2. Left(2)' >= Left(1)' <=> Left(1) >= Full
      BY <1>5, <2>4
    <3> QED
      BY <3>1, <3>2 DEF MayMiss
  <2> QED
    BY <2>2, <2>3, <2>4, <2>5
<1>8. Len(list') \in {1, 2} /\ DOMAIN list' = 1 .. Len(list')
  BY <1>2, MissedFacts
<1>9. ASSUME NEW k \in DOMAIN list'
      PROVE  quiet'[list'[k].id] + Left(k)' + MayMiss(k)' <= Timeout + 2
  <2>1. k \in 1 .. Len(list') /\ (k = 1 \/ k = 2)
    BY <1>8
  <2> QED
    BY <2>1, <1>6, <1>7
<1> QED
  BY <1>8, <1>9 DEF FewMissed

LEMMA MissedRefresh ==
  ASSUME IInv, FewMissed, HelloUpdate,
         list' = RefreshAlive(hello.id, list), Listed(hello.id)
  PROVE  FewMissed'
<1>1. PICK n \in 1 .. Len(list) : list[n].id = hello.id
  BY MissedFacts DEF Listed
<1>2. \A k \in DOMAIN list : list[k].id = hello.id => k = n
  BY <1>1, MissedFacts DEF IInv, OneEntryPerRouter
<1>3. n = CHOOSE k \in DOMAIN list :
            list[k].id = hello.id /\ \A j \in 1 .. k - 1 : list[j].id # hello.id
  <2>1. \A j \in 1 .. n - 1 : list[j].id # hello.id
    BY <1>1, <1>2, MissedFacts
  <2> QED
    BY <1>1, <1>2, <2>1, MissedFacts
<1> DEFINE e == [list[n] EXCEPT !.alive = Timeout]
<1>4. list' = [list EXCEPT ![n] = e]
  BY <1>1, <1>3, MissedFacts DEF RefreshAlive
<1>5. e \in Neighbor /\ e.id = list[n].id /\ e.alive = Timeout
  <2>1. list[n] \in Neighbor
    BY <1>1, MissedFacts, ElementOfSeq
  <2> QED
    BY <2>1, NeighborsAssumption DEF Neighbor
<1> HIDE DEF e
<1>6. /\ list' \in Seq(Neighbor) /\ Len(list') = Len(list)
      /\ \A i \in 1 .. Len(list) :
           /\ list'[i].id = list[i].id
           /\ list'[i].alive = IF i = n THEN Timeout ELSE list[i].alive
  BY <1>1, <1>4, <1>5, MissedFacts, Timed
<1>7. walk' = walk
  BY <1>6, MissedFacts DEF HelloUpdate, Behind
<1>8. quiet' = [quiet EXCEPT ![hello.id] = 0] /\ quiet \in [Routers -> Nat]
  BY NeighborsAssumption DEF HelloUpdate, IInv, TypeOK
<1>9. Full' = Full
  BY <1>7 DEF Full
<1>10. ASSUME NEW k \in 1 .. Len(list)
       PROVE  quiet'[list'[k].id] + Left(k)' + MayMiss(k)' <= Timeout + 2
  <2>1. /\ list[k].id \in Routers /\ list[k].alive \in 0 .. Timeout
        /\ quiet[list[k].id] \in Nat /\ Timeout \in Nat \ {0}
        /\ quiet[list[k].id] + Left(k) + MayMiss(k) <= Timeout + 2
    BY MissedFacts
  <2>2. CASE k = n
    <3>1. quiet'[list'[k].id] = 0
      BY <1>1, <1>6, <1>8, <2>1, <2>2
    <3>2. Left(k)' \in Int /\ Left(k)' <= Timeout
      BY <1>6, <2>1, <2>2 DEF Left
    <3>3. MayMiss(k)' \in {0, 1, 2}
      BY DEF MayMiss
    <3> QED
      BY <2>1, <3>1, <3>2, <3>3
  <2>3. CASE k # n
    <3>1. quiet'[list'[k].id] = quiet[list[k].id]
      BY <1>2, <1>6, <1>8, <2>1, <2>3, MissedFacts
    <3>2. Left(k)' = Left(k) /\ Left(k) \in Int
      BY <1>6, <1>7, <2>1, <2>3 DEF Left, Ahead
    <3>3. CASE k = 1
      <4>1. MayMiss(k)' = MayMiss(k)
        BY <1>9, <3>2, <3>3 DEF MayMiss
      <4> QED
        BY <2>1, <3>1, <3>2, <4>1
    <3>4. CASE k # 1
      <4>1. k = 2 /\ n = 1 /\ Len(list) = 2
        BY <1>1, <2>3, <3>4, MissedFacts
      <4>2. list[1].alive \in 0 .. Timeout
        BY <4>1, MissedFacts
      <4>3. Left(1)' = Timeout - (IF walk = 1 THEN 1 ELSE 0)
        BY <1>6, <1>7, <4>1, MissedFacts DEF Left, Ahead
      <4>4. Left(1) \in Int /\ Left(1) <= Left(1)' /\ Left(1)' \in Int
        BY <4>2, <4>3, <2>1, MissedFacts DEF Left, Ahead
      <4>5. Left(2) <= Timeout - (IF walk = 1 THEN 1 ELSE 0)
        BY <2>1, <4>1, MissedFacts DEF Left, Ahead
      <4>6. ~(Left(2) >= Left(1)' + Timeout)
        BY <2>1, <3>2, <4>1, <4>3, <4>5
      <4>7. Left(2) >= Left(1)' => Left(2) >= Left(1)
        BY <3>2, <4>1, <4>4
      <4>8. /\ MayMiss(2)' <= MayMiss(2) /\ MayMiss(2) \in {0, 1, 2}
            /\ MayMiss(2)' \in {0, 1, 2}
        BY <3>2, <4>1, <4>6, <4>7 DEF MayMiss
      <4> QED
        BY <2>1, <3>1, <3>2, <4>1, <4>8
    <3> QED
      BY <3>3, <3>4
  <2> QED
    BY <2>2, <2>3
<1> QED
  BY <1>6, <1>10, MissedFacts DEF FewMissed

(***************************************************************************)
(* With at most two other routers, one that falls silent is out of the     *)
(* list after Timeout + 3 more life checks, whatever the other one does    *)
(* and wherever its HELLOs come in a walk.                                 *)
(***************************************************************************)
THEOREM GoneInTime == Spec => []RemovedInTime
<1>1. CASE Cardinality(Routers) <= 2
  <2>1. Init => FewMissed
    BY DEF Init, FewMissed
  <2>2. IInv /\ IInv' /\ FewMissed /\ [Next]_vars => FewMissed'
    <3> SUFFICES ASSUME IInv, IInv', FewMissed, [Next]_vars PROVE FewMissed'
      OBVIOUS
    <3>1. CASE HelloUpdate
      <4>1. \/ list' = AddNeighbor(hello.id, list) /\ ~Listed(hello.id)
            \/ list' = RefreshAlive(hello.id, list) /\ Listed(hello.id)
        BY <3>1 DEF HelloUpdate, RefreshAlive, Listed, LookHolds, IInv
      <4>2. Len(list') <= 2
        BY <1>1, AtMostTwo DEF IInv, TypeOK, OneEntryPerRouter
      <4> QED
        BY <3>1, <4>1, <4>2, MissedAdd, MissedRefresh
    <3>2. CASE LifeBegin
      BY <3>2, MissedBegin
    <3>3. CASE LifeEntry
      BY <3>3, MissedRemove, MissedDecrement
    <3>4. CASE ~(HelloUpdate \/ LifeBegin \/ LifeEntry)
      <4>1. /\ UNCHANGED <<list, quiet>>
            /\ walk' = walk \/ (walk > Len(list) /\ walk' = 0)
        BY <3>4 DEF Next, vars, Receive, Life, Hello, HelloSetId, HelloSetIp,
           HelloAnnounce, SendLsu, LifeEnd, ClearId, ClearIp, NoInterface
      <4> QED
        BY <4>1, MissedKept
    <3> QED
      BY <3>1, <3>2, <3>3, <3>4
  <2>3. IInv /\ FewMissed => RemovedInTime
    <3> SUFFICES ASSUME IInv, FewMissed, NEW k \in 1 .. Len(list)
                 PROVE  quiet[list[k].id] <= Timeout + 3
      BY MissedFacts DEF RemovedInTime, Listed
    <3>1. /\ list[k].alive \in Nat /\ quiet[list[k].id] \in Nat
          /\ Timeout \in Nat
          /\ quiet[list[k].id] + Left(k) + MayMiss(k) <= Timeout + 2
      BY MissedFacts
    <3>2. Left(k) \in Int /\ Left(k) >= 0 - 1
      BY <3>1 DEF Left
    <3>3. MayMiss(k) \in Nat
      BY DEF MayMiss
    <3> QED
      BY <3>1, <3>2, <3>3
  <2> QED
    BY <2>1, <2>2, <2>3, InitInv, InvStep, PTL DEF Spec
<1>2. CASE ~(Cardinality(Routers) <= 2)
  <2>1. RemovedInTime
    BY <1>2 DEF RemovedInTime
  <2> QED
    BY <2>1, PTL
<1> QED
  BY <1>1, <1>2
=============================================================================
