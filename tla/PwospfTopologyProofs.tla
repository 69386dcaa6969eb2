------------------------ MODULE PwospfTopologyProofs ------------------------
(***************************************************************************)
(* Theorems of PwospfTopology for any routers, networks, LSAs and timeout: *)
(* those of its first part hold for any number of LSU threads, those of    *)
(* the second if LSUs are handled one at a time.                           *)
(***************************************************************************)
EXTENDS PwospfTopology, TLAPS, SequenceTheorems, FiniteSetTheorems,
        WellFoundedInduction

(***************************************************************************)
(* With one LSU thread there is at most one entry for a network of a       *)
(* router, and what the thread has found out about the table stays true    *)
(* until it acts on it: the age check only removes entries.                *)
(***************************************************************************)
OneThread == \A v, w \in Workers : v = w
Key(p) == <<mem[p].router, mem[p].net>>
LsaKey(w) == <<thread[w].lsu.rid, TheLsa(w).net>>

NoneTwice == \A j, k \in DOMAIN table : Key(table[j]) = Key(table[k]) => j = k

FoundHolds ==
  \A w \in Workers :
    /\ Running(w, "add") => \A p \in OnList : Key(p) # LsaKey(w)
    /\ Running(w, "update") =>
         /\ Key(thread[w].ptr) = LsaKey(w)
         /\ \A p \in OnList : Key(p) = LsaKey(w) => p = thread[w].ptr

Foreign ==
  \A w \in Workers :
    Running(w, "idle") \/ Running(w, "check") \/ thread[w].lsu.rid # Self

(***************************************************************************)
(* An entry is no older than its claim has been silent, but for the one    *)
(* check that may come right behind its addition.                          *)
(***************************************************************************)
AgesCovered ==
  \A k \in DOMAIN table :
    /\ mem[table[k]].age <= quiet[Key(table[k])] + 1
    /\ walk # 0 /\ walk <= k => mem[table[k]].age <= quiet[Key(table[k])]

OneIInv ==
  /\ TypeOK /\ NoneTwice /\ FoundHolds /\ Foreign /\ ClaimsAreMade
  /\ AgesCovered
-----------------------------------------------------------------------------
(***************************************************************************)
(* The first entry that a walk of the table looks for is one of those it   *)
(* looks for.                                                              *)
(***************************************************************************)
LEMMA LeastPosition ==
  ASSUME NEW S \in SUBSET Nat, S # {}
  PROVE  \E k \in S : \A j \in S : k <= j
<1> DEFINE R == OpToRel(<, Nat)
<1>1. IsWellFoundedOn(R, Nat)
  BY NatLessThanWellFounded
<1>2. \A j, k \in Nat : j < k => <<j, k>> \in R
  BY DEF OpToRel
<1> HIDE DEF R
<1>3. PICK k \in S : \A j \in S : ~(<<j, k>> \in R)
  BY <1>1, WFMin
<1>4. ASSUME NEW j \in S PROVE k <= j
  <2>1. j \in Nat /\ k \in Nat
    OBVIOUS
  <2>2. ~(j < k)
    BY <1>2, <1>3, <2>1
  <2> QED BY <2>1, <2>2
<1> QED BY <1>4

LEMMA FirstFound ==
  ASSUME TypeOK, NEW S \in SUBSET (DOMAIN table), S # {}
  PROVE  \E k \in S : FirstEntry(S) = table[k]
<1>1. S \in SUBSET Nat
  BY DEF TypeOK
<1>2. \E k \in S : \A j \in S : k <= j
  BY <1>1, LeastPosition
<1> QED BY <1>2 DEF FirstEntry

(***************************************************************************)
(* An entry in front of the table, and one taken off it.                   *)
(***************************************************************************)
LEMMA PutInFront ==
  ASSUME NEW t \in Seq(Ptrs), NEW p \in Ptrs
  PROVE  /\ <<p>> \o t \in Seq(Ptrs)
         /\ Len(<<p>> \o t) = Len(t) + 1
         /\ (<<p>> \o t)[1] = p
         /\ \A k \in 1 .. Len(t) : (<<p>> \o t)[k + 1] = t[k]
<1>1. <<p>> \in Seq(Ptrs) /\ Len(<<p>>) = 1 /\ <<p>>[1] = p
  OBVIOUS
<1>2. Len(t) \in Nat
  OBVIOUS
<1>3. /\ <<p>> \o t \in Seq(Ptrs)
      /\ Len(<<p>> \o t) = 1 + Len(t)
      /\ \A i \in 1 .. 1 + Len(t) :
           (<<p>> \o t)[i] = IF i <= 1 THEN <<p>>[i] ELSE t[i - 1]
  BY <1>1, ConcatProperties
<1> QED BY <1>1, <1>2, <1>3

LEMMA TakenOff ==
  ASSUME NEW t \in Seq(Ptrs), NEW k \in 1 .. Len(t)
  PROVE  /\ RemoveAt(t, k) \in Seq(Ptrs)
         /\ Len(RemoveAt(t, k)) = Len(t) - 1
         /\ \A i \in 1 .. Len(t) - 1 :
              RemoveAt(t, k)[i] = IF i < k THEN t[i] ELSE t[i + 1]
<1> DEFINE m == RemoveAt(t, k)
           a == SubSeq(t, 1, k - 1)
           b == SubSeq(t, k + 1, Len(t))
<1>1. Len(t) \in Nat /\ \A i \in 1 .. Len(t) : t[i] \in Ptrs
  BY ElementOfSeq
<1>2. /\ a \in Seq(Ptrs) /\ Len(a) = k - 1
      /\ \A i \in 1 .. k - 1 : a[i] = t[i]
  <2>1. \A i \in 1 .. k - 1 : t[i] \in Ptrs
    BY <1>1
  <2>2. /\ a \in Seq(Ptrs)
        /\ Len(a) = IF 1 <= k - 1 THEN k - 1 - 1 + 1 ELSE 0
        /\ \A i \in 1 .. k - 1 - 1 + 1 : a[i] = t[1 + i - 1]
    BY <2>1, SubSeqProperties
  <2> QED BY <2>2
<1>3. /\ b \in Seq(Ptrs) /\ Len(b) = Len(t) - k
      /\ \A i \in 1 .. Len(t) - k : b[i] = t[k + i]
  <2>1. \A i \in k + 1 .. Len(t) : t[i] \in Ptrs
    BY <1>1
  <2>2. /\ b \in Seq(Ptrs)
        /\ Len(b) = IF k + 1 <= Len(t) THEN Len(t) - (k + 1) + 1 ELSE 0
        /\ \A i \in 1 .. Len(t) - (k + 1) + 1 : b[i] = t[k + 1 + i - 1]
    BY <1>1, <2>1, SubSeqProperties
  <2> QED BY <1>1, <2>2
<1>4. m = a \o b
  BY DEF RemoveAt
<1> HIDE DEF a, b, m
<1>5. /\ a \o b \in Seq(Ptrs)
      /\ Len(a \o b) = Len(a) + Len(b)
      /\ \A i \in 1 .. Len(a) + Len(b) :
           (a \o b)[i] = IF i <= Len(a) THEN a[i] ELSE b[i - Len(a)]
  BY <1>2, <1>3, ConcatProperties
<1>6. Len(t) \in Nat /\ Len(a) = k - 1 /\ Len(b) = Len(t) - k
  BY <1>1, <1>2, <1>3
<1>7. Len(a) + Len(b) = Len(t) - 1
  BY <1>6
<1>8. m \in Seq(Ptrs) /\ Len(m) = Len(t) - 1
  BY <1>4, <1>5, <1>7
<1>9. ASSUME NEW i \in 1 .. Len(t) - 1
      PROVE  m[i] = IF i < k THEN t[i] ELSE t[i + 1]
  <2>1. m[i] = IF i <= k - 1 THEN a[i] ELSE b[i - (k - 1)]
    BY <1>4, <1>5, <1>6, <1>7
  <2>2. CASE i < k
    <3>1. i \in 1 .. k - 1
      BY <2>2, <1>6
    <3> QED BY <2>1, <2>2, <3>1, <1>2
  <2>3. CASE ~(i < k)
    <3>1. /\ i - (k - 1) \in 1 .. Len(t) - k
          /\ k + (i - (k - 1)) = i + 1 /\ ~(i <= k - 1)
      BY <2>3, <1>6
    <3> QED BY <2>1, <2>3, <3>1, <1>3
  <2> QED BY <2>2, <2>3
<1> QED BY <1>8, <1>9 DEF m

-----------------------------------------------------------------------------
(***************************************************************************)
(* What a thread holds, and what it holds after an LSA.                    *)
(***************************************************************************)
Steps == {"check", "search", "update", "add", "dijkstra"}

LEMMA JobFields ==
  ASSUME NEW f \in Jobs
  PROVE  /\ f.at \in Steps /\ f.at # "idle" /\ f # Idle
         /\ f.via \in Ids /\ f.i \in Nat /\ f.ptr \in Ptrs \cup {NoPtr}
         /\ f.lsu.rid \in Origins /\ f.lsu.seq \in 0 .. SeqNumbers - 1
         /\ f.lsu.adv \in Seq(Lsa) /\ f.lsu.adv \in Adverts[f.lsu.rid]
         /\ f.i \in 0 .. Len(f.lsu.adv)
         /\ f.at = "update" => f.ptr \in Ptrs
         /\ f.at \in {"search", "update", "add"} =>
              /\ f.i \in DOMAIN f.lsu.adv
              /\ f.lsu.adv[f.i] \in Lsa
              /\ f.lsu.adv[f.i].net \in Nets /\ f.lsu.adv[f.i].neighbor \in Ids
<1>1. /\ f.at \in Steps /\ f.via \in Ids /\ f.i \in Nat /\ f.lsu \in Lsu
      /\ f.ptr \in Ptrs \cup {NoPtr}
  BY DEF Jobs, Steps
<1>2. f.at # "idle"
  BY <1>1 DEF Steps
<1>3. f # Idle
  BY <1>2 DEF Idle
<1>4. /\ f.lsu.adv \in Adverts[f.lsu.rid] /\ f.i \in 0 .. Len(f.lsu.adv)
      /\ f.at \in {"search", "update", "add"} => f.i # 0
      /\ f.at = "update" => f.ptr # NoPtr
  BY DEF Jobs
<1>5. /\ f.lsu.rid \in Origins /\ f.lsu.seq \in 0 .. SeqNumbers - 1
      /\ f.lsu.adv \in Seq(Lsa)
  BY <1>1 DEF Lsu
<1>6. ASSUME f.at \in {"search", "update", "add"}
      PROVE  /\ f.i \in DOMAIN f.lsu.adv
             /\ f.lsu.adv[f.i] \in Lsa
             /\ f.lsu.adv[f.i].net \in Nets /\ f.lsu.adv[f.i].neighbor \in Ids
  <2>1. f.i \in 1 .. Len(f.lsu.adv)
    BY <1>1, <1>4, <1>5, <1>6
  <2>2. f.lsu.adv[f.i] \in Lsa
    BY <1>5, <2>1, ElementOfSeq
  <2> QED BY <1>5, <2>1, <2>2 DEF Lsa
<1> QED BY <1>1, <1>2, <1>3, <1>4, <1>5, <1>6

LEMMA AfterJob ==
  ASSUME NEW f \in Jobs
  PROVE  /\ AfterLsa(f) \in Jobs
         /\ AfterLsa(f).at \in {"search", "dijkstra"}
         /\ AfterLsa(f).lsu = f.lsu
<1>1. /\ f.at \in Steps /\ f.i \in Nat /\ f.lsu \in Lsu /\ f.via \in Ids
      /\ f.lsu.adv \in Seq(Lsa) /\ f.lsu.adv \in Adverts[f.lsu.rid]
      /\ f.i \in 0 .. Len(f.lsu.adv)
      /\ f \in [at : Steps, lsu : Lsu, via : Ids, i : Nat,
                ptr : Ptrs \cup {NoPtr}]
  BY JobFields DEF Jobs, Steps
<1>2. NoPtr \in Ptrs \cup {NoPtr} /\ "search" \in Steps /\ "dijkstra" \in Steps
  BY DEF Steps
<1> DEFINE S == Steps
           L == Lsu
           V == Ids
           P == Ptrs \cup {NoPtr}
           F == [at : S, lsu : L, via : V, i : Nat, ptr : P]
<1>3. CASE f.i < Len(f.lsu.adv)
  <2> DEFINE g == [f EXCEPT !.at = "search", !.i = @ + 1, !.ptr = NoPtr]
  <2>1. f.i + 1 \in Nat /\ f.i + 1 \in 0 .. Len(f.lsu.adv) /\ f.i + 1 # 0
    BY <1>1, <1>3
  <2>2. f \in F /\ "search" \in S /\ NoPtr \in P
    BY <1>1, <1>2
  <2> HIDE DEF S, L, V, P
  <2>3. /\ g \in F /\ g.at = "search" /\ g.i = f.i + 1 /\ g.lsu = f.lsu
        /\ g.ptr = NoPtr
    BY <2>1, <2>2
  <2>4. AfterLsa(f) = g
    BY <1>3 DEF AfterLsa
  <2> HIDE DEF g
  <2>5. g \in Jobs
    BY <1>1, <2>1, <2>3 DEF Jobs, S, L, V, P, Steps
  <2> QED BY <2>3, <2>4, <2>5
<1>4. CASE ~(f.i < Len(f.lsu.adv))
  <2> DEFINE g == [f EXCEPT !.at = "dijkstra", !.ptr = NoPtr]
  <2>2. f \in F /\ "dijkstra" \in S /\ NoPtr \in P
    BY <1>1, <1>2
  <2> HIDE DEF S, L, V, P
  <2>3. /\ g \in F /\ g.at = "dijkstra" /\ g.i = f.i /\ g.lsu = f.lsu
        /\ g.ptr = NoPtr
    BY <2>2
  <2>4. AfterLsa(f) = g
    BY <1>4 DEF AfterLsa
  <2> HIDE DEF g
  <2>5. g \in Jobs
    BY <1>1, <2>3 DEF Jobs, S, L, V, P, Steps
  <2> QED BY <2>3, <2>4, <2>5
<1> QED BY <1>3, <1>4

(***************************************************************************)
(* A thread goes on: what the other threads hold is untouched.             *)
(***************************************************************************)
LEMMA ThreadGoes ==
  ASSUME TypeOK, NEW w \in Workers, NEW f \in {Idle} \cup Jobs,
         thread' = [thread EXCEPT ![w] = f]
  PROVE  /\ thread' \in [Workers -> {Idle} \cup Jobs]
         /\ thread'[w] = f
         /\ \A v \in Workers : v # w => thread'[v] = thread[v]
BY DEF TypeOK

LEMMA AtWork ==
  ASSUME TypeOK, NEW w \in Workers, thread[w].at # "idle"
  PROVE  thread[w] \in Jobs
BY DEF TypeOK, Idle

-----------------------------------------------------------------------------
(***************************************************************************)
(* The entries: what a refresh and the age check leave of them.            *)
(***************************************************************************)
Refresh(e, s, n) == [e EXCEPT !.age = 0, !.seq = s, !.neighbor = n]

LEMMA Refreshed ==
  ASSUME NEW e \in Entry, NEW s \in 0 .. SeqNumbers - 1, NEW n \in Ids
  PROVE  /\ Refresh(e, s, n) \in Entry
         /\ Refresh(e, s, n).router = e.router
         /\ Refresh(e, s, n).net = e.net
         /\ Refresh(e, s, n).neighbor = n
         /\ Refresh(e, s, n).age = 0
<1> DEFINE R == Origins
           N == Nets
           B == Ids
           Q == 0 .. SeqNumbers - 1
           A == 0 .. TopoTimeout
           E == [router : R, net : N, neighbor : B, seq : Q, age : A]
<1>1. e \in E /\ s \in Q /\ n \in B /\ 0 \in A
  BY TopologyAssumption DEF Entry
<1>2. E = Entry
  BY DEF Entry
<1> HIDE DEF R, N, B, Q, A
<1>3. /\ Refresh(e, s, n) \in E
      /\ Refresh(e, s, n).router = e.router /\ Refresh(e, s, n).net = e.net
      /\ Refresh(e, s, n).neighbor = n /\ Refresh(e, s, n).age = 0
  BY <1>1 DEF Refresh
<1> QED BY <1>2, <1>3

LEMMA Aged ==
  ASSUME NEW e \in Entry, e.age # TopoTimeout
  PROVE  /\ Older(e) \in Entry
         /\ Older(e).router = e.router /\ Older(e).net = e.net
         /\ Older(e).neighbor = e.neighbor /\ Older(e).age = e.age + 1
<1> DEFINE R == Origins
           N == Nets
           B == Ids
           Q == 0 .. SeqNumbers - 1
           A == 0 .. TopoTimeout
           E == [router : R, net : N, neighbor : B, seq : Q, age : A]
<1>1. e \in E /\ e.age + 1 \in A
  BY TopologyAssumption DEF Entry
<1>2. E = Entry
  BY DEF Entry
<1> HIDE DEF R, N, B, Q, A
<1>3. /\ [e EXCEPT !.age = @ + 1] \in E
      /\ [e EXCEPT !.age = @ + 1].router = e.router
      /\ [e EXCEPT !.age = @ + 1].net = e.net
      /\ [e EXCEPT !.age = @ + 1].neighbor = e.neighbor
      /\ [e EXCEPT !.age = @ + 1].age = e.age + 1
  BY <1>1
<1> QED BY <1>2, <1>3 DEF Older

LEMMA EntryType ==
  ASSUME TypeOK, NEW p \in Ptrs
  PROVE  /\ mem[p] \in Entry /\ mem[p].router \in Origins
         /\ mem[p].net \in Nets /\ mem[p].neighbor \in Ids
         /\ mem[p].age \in 0 .. TopoTimeout
         /\ Key(p) \in Origins \X Nets
<1>1. mem[p] \in Entry
  BY DEF TypeOK
<1> QED BY <1>1 DEF Entry, Key

LEMMA ListedPtrs ==
  ASSUME TypeOK
  PROVE  OnList \in SUBSET Ptrs
BY ElementOfSeq DEF TypeOK, OnList
-----------------------------------------------------------------------------
(***************************************************************************)
(* What each action does, its LETs resolved and its values typed.          *)
(***************************************************************************)
LEMMA Received ==
  ASSUME TypeOK, NEW w \in Workers, NEW r \in Origins, NEW via \in Ids,
         ReceiveLsu(w, r, via)
  PROVE  \E f \in Jobs : /\ thread' = [thread EXCEPT ![w] = f]
                         /\ f.at = "check" /\ thread[w].at = "idle"
<1>1. PICK seq \in 0 .. SeqNumbers - 1, adv \in Adverts[r] :
        thread' = [thread EXCEPT ![w] =
          [at |-> "check", lsu |-> [rid |-> r, seq |-> seq, adv |-> adv],
           via |-> via, i |-> 0, ptr |-> NoPtr]]
  BY DEF ReceiveLsu
<1> DEFINE m == [rid |-> r, seq |-> seq, adv |-> adv]
           f == [at |-> "check", lsu |-> m, via |-> via, i |-> 0, ptr |-> NoPtr]
<1>2. adv \in Seq(Lsa)
  BY TopologyAssumption
<1>3. m \in Lsu /\ m.adv = adv /\ m.rid = r
  BY <1>2 DEF Lsu
<1> HIDE DEF m
<1>4. 0 \in 0 .. Len(adv)
  BY <1>2
<1>5. f \in Jobs /\ f.at = "check"
  BY <1>3, <1>4 DEF Jobs
<1> QED BY <1>1, <1>5 DEF ReceiveLsu, Running, m

LEMMA Checked ==
  ASSUME TypeOK, NEW w \in Workers, CheckLsu(w)
  PROVE  /\ thread[w] \in Jobs /\ thread[w].at = "check"
         /\ \/ thread' = [thread EXCEPT ![w] = Idle]
            \/ /\ thread[w].lsu.rid # Self
               /\ thread' = [thread EXCEPT ![w] = AfterLsa(thread[w])]
<1>1. thread[w] \in Jobs /\ thread[w].at = "check"
  BY AtWork DEF CheckLsu, Running
<1>2. [thread EXCEPT ![w] = AfterLsa(@)]
        = [thread EXCEPT ![w] = AfterLsa(thread[w])]
  BY DEF TypeOK
<1> QED BY <1>1, <1>2 DEF CheckLsu, OwnLsu

LEMMA Searched ==
  ASSUME TypeOK, NEW w \in Workers, Search(w)
  PROVE  /\ thread[w] \in Jobs /\ thread[w].at = "search"
         /\ \E f \in Jobs :
              /\ thread' = [thread EXCEPT ![w] = f]
              /\ f.at \in {"search", "update", "add", "dijkstra"}
              /\ f.lsu = thread[w].lsu
              /\ f.at \in {"update", "add"} => f.i = thread[w].i
              /\ f.at = "add" => \A p \in OnList : Key(p) # LsaKey(w)
              /\ f.at = "update" =>
                   f.ptr \in OnList /\ Key(f.ptr) = LsaKey(w)
<1> DEFINE f == thread[w]
           ends == {k \in DOMAIN table :
                      \/ Own(mem[table[k]], f.lsu.rid, TheLsa(w))
                      \/ Disputes(mem[table[k]], f.lsu.rid, TheLsa(w))}
           p == FirstEntry(ends)
<1>1. f \in Jobs /\ f.at = "search"
  BY AtWork DEF Search, Running
<1>2. thread' = [thread EXCEPT ![w] =
          IF ends = {} THEN [f EXCEPT !.at = "add"]
          ELSE IF mem[p].router = f.lsu.rid
               THEN [f EXCEPT !.at = "update", !.ptr = p]
               ELSE AfterLsa(f)]
  BY DEF Search
<1>3. ends # {} => \E k \in ends : p = table[k]
  BY FirstFound
<1>4. f.lsu.rid \in Origins /\ TheLsa(w).net \in Nets
  BY <1>1, JobFields DEF TheLsa
<1> HIDE DEF p
<1> DEFINE S == Steps
           L == Lsu
           V == Ids
           P == Ptrs \cup {NoPtr}
           F == [at : S, lsu : L, via : V, i : Nat, ptr : P]
<1>5. /\ f \in F /\ "add" \in S /\ "update" \in S
      /\ f.lsu.adv \in Adverts[f.lsu.rid] /\ f.i \in 0 .. Len(f.lsu.adv)
      /\ f.i # 0
  BY <1>1 DEF Jobs, Steps
<1>6. CASE ends = {}
  <2> DEFINE g == [f EXCEPT !.at = "add"]
  <2> HIDE DEF S, L, V, P
  <2>1. /\ g \in F /\ g.at = "add" /\ g.lsu = f.lsu /\ g.i = f.i
        /\ g.ptr = f.ptr
    BY <1>5
  <2>2. thread' = [thread EXCEPT ![w] = g]
    BY <1>2, <1>6
  <2> HIDE DEF g
  <2>3. g \in Jobs
    BY <1>5, <2>1 DEF Jobs, S, L, V, P, Steps
  <2>4. \A q \in OnList : Key(q) # LsaKey(w)
    BY <1>6 DEF OnList, Own, Key, LsaKey
  <2> QED BY <1>1, <2>1, <2>2, <2>3, <2>4
<1>7. CASE ends # {} /\ mem[p].router = f.lsu.rid
  <2> DEFINE g == [f EXCEPT !.at = "update", !.ptr = p]
  <2>0. PICK k \in ends : p = table[k]
    BY <1>3, <1>7
  <2>1. p \in OnList /\ p \in Ptrs /\ p # NoPtr
    BY <2>0, ListedPtrs DEF OnList, Ptrs, NoPtr
  <2>2. Key(p) = LsaKey(w)
    BY <1>7, <2>0 DEF Own, Disputes, Key, LsaKey
  <2>3. thread' = [thread EXCEPT ![w] = g]
    BY <1>2, <1>7
  <2>4. p \in P
    BY <2>1
  <2> HIDE DEF S, L, V, P
  <2>5. /\ g \in F /\ g.at = "update" /\ g.lsu = f.lsu /\ g.i = f.i
        /\ g.ptr = p
    BY <1>5, <2>4
  <2> HIDE DEF g
  <2>6. g \in Jobs
    BY <1>5, <2>1, <2>5 DEF Jobs, S, L, V, P, Steps
  <2> QED BY <1>1, <2>1, <2>2, <2>3, <2>5, <2>6
<1>8. CASE ends # {} /\ mem[p].router # f.lsu.rid
  BY <1>1, <1>2, <1>8, AfterJob
<1> QED BY <1>6, <1>7, <1>8

LEMMA Updated ==
  ASSUME TypeOK, NEW w \in Workers, RefreshEntry(w)
  PROVE  /\ thread[w] \in Jobs /\ thread[w].at = "update"
         /\ thread' = [thread EXCEPT ![w] = AfterLsa(thread[w])]
         /\ thread[w].ptr \in Ptrs
         /\ LsaKey(w) \in Origins \X Nets
         /\ mem' \in [Ptrs -> Entry]
         /\ \A p \in Ptrs \ {thread[w].ptr} : mem'[p] = mem[p]
         /\ \A p \in Ptrs : /\ mem'[p].router = mem[p].router
                            /\ mem'[p].net = mem[p].net
         /\ mem'[thread[w].ptr].neighbor = TheLsa(w).neighbor
         /\ mem'[thread[w].ptr].age = 0
         /\ quiet' \in [Origins \X Nets -> 0 .. QuietLimit]
         /\ quiet' = [quiet EXCEPT ![LsaKey(w)] = 0]
<1> DEFINE q == thread[w].ptr
           g == Refresh(mem[q], thread[w].lsu.seq, TheLsa(w).neighbor)
<1>1. thread[w] \in Jobs /\ thread[w].at = "update"
  BY AtWork DEF RefreshEntry, Running
<1>2. [thread EXCEPT ![w] = AfterLsa(@)]
        = [thread EXCEPT ![w] = AfterLsa(thread[w])]
  BY DEF TypeOK
<1>3. /\ q \in Ptrs /\ thread[w].lsu.seq \in 0 .. SeqNumbers - 1
      /\ thread[w].lsu.rid \in Origins
      /\ TheLsa(w).net \in Nets /\ TheLsa(w).neighbor \in Ids
  BY <1>1, JobFields DEF TheLsa
<1>4. /\ mem \in [Ptrs -> Entry] /\ mem[q] \in Entry
  BY <1>3 DEF TypeOK
<1>5. /\ g \in Entry /\ g.router = mem[q].router /\ g.net = mem[q].net
      /\ g.neighbor = TheLsa(w).neighbor /\ g.age = 0
  BY <1>3, <1>4, Refreshed
<1>6. mem' = [mem EXCEPT ![q] = g]
  BY <1>4 DEF RefreshEntry, Refresh
<1> HIDE DEF g
<1>7. /\ mem' \in [Ptrs -> Entry] /\ mem'[q] = g
      /\ \A p \in Ptrs \ {q} : mem'[p] = mem[p]
  BY <1>3, <1>4, <1>5, <1>6
<1>8. quiet' = [quiet EXCEPT ![LsaKey(w)] = 0]
  BY DEF RefreshEntry, Accept, LsaKey
<1>9. LsaKey(w) \in Origins \X Nets
  BY <1>3 DEF LsaKey
<1>10. quiet' \in [Origins \X Nets -> 0 .. QuietLimit]
  BY <1>8, <1>9, TopologyAssumption DEF TypeOK
<1>11. thread' = [thread EXCEPT ![w] = AfterLsa(thread[w])]
  BY <1>2 DEF RefreshEntry
<1>12. \A p \in Ptrs : mem'[p].router = mem[p].router /\ mem'[p].net = mem[p].net
  BY <1>5, <1>7
<1> QED BY <1>1, <1>3, <1>5, <1>7, <1>8, <1>9, <1>10, <1>11, <1>12

LEMMA AddedTo ==
  ASSUME TypeOK, NEW w \in Workers, AddEntry(w)
  PROVE  /\ thread[w] \in Jobs /\ thread[w].at = "add"
         /\ thread' = [thread EXCEPT ![w] = AfterLsa(thread[w])]
         /\ LsaKey(w) \in Origins \X Nets
         /\ mem' \in [Ptrs -> Entry]
         /\ \E p \in Ptrs \ OnList :
              /\ table' = <<p>> \o table
              /\ OnList' = OnList \cup {p}
              /\ \A q \in Ptrs \ {p} : mem'[q] = mem[q]
              /\ mem'[p].router = thread[w].lsu.rid
              /\ mem'[p].net = TheLsa(w).net
              /\ mem'[p].neighbor = TheLsa(w).neighbor
              /\ mem'[p].age = 0
         /\ table' \in Seq(Ptrs)
         /\ quiet' \in [Origins \X Nets -> 0 .. QuietLimit]
         /\ quiet' = [quiet EXCEPT ![LsaKey(w)] = 0]
<1>1. thread[w] \in Jobs /\ thread[w].at = "add"
  BY AtWork DEF AddEntry, Running
<1>2. [thread EXCEPT ![w] = AfterLsa(@)]
        = [thread EXCEPT ![w] = AfterLsa(thread[w])]
  BY DEF TypeOK
<1>3. /\ thread[w].lsu.seq \in 0 .. SeqNumbers - 1
      /\ thread[w].lsu.rid \in Origins
      /\ TheLsa(w).net \in Nets /\ TheLsa(w).neighbor \in Ids
  BY <1>1, JobFields DEF TheLsa
<1> DEFINE g == [router |-> thread[w].lsu.rid, net |-> TheLsa(w).net,
                 neighbor |-> TheLsa(w).neighbor, seq |-> thread[w].lsu.seq,
                 age |-> 0]
<1>4. PICK p \in Ptrs \ OnList :
        mem' = [mem EXCEPT ![p] = g] /\ table' = <<p>> \o table
  BY DEF AddEntry
<1>5. /\ g \in Entry /\ g.router = thread[w].lsu.rid /\ g.net = TheLsa(w).net
      /\ g.neighbor = TheLsa(w).neighbor /\ g.age = 0
  BY <1>3, TopologyAssumption DEF Entry
<1> HIDE DEF g
<1>6. /\ mem' \in [Ptrs -> Entry] /\ mem'[p] = g
      /\ \A q \in Ptrs \ {p} : mem'[q] = mem[q]
  BY <1>4, <1>5 DEF TypeOK
<1>7. table \in Seq(Ptrs) /\ Len(table) \in Nat /\ DOMAIN table = 1 .. Len(table)
  BY DEF TypeOK
<1>8. /\ table' \in Seq(Ptrs) /\ Len(table') = Len(table) + 1 /\ table'[1] = p
      /\ \A k \in 1 .. Len(table) : table'[k + 1] = table[k]
      /\ DOMAIN table' = 1 .. Len(table')
  BY <1>4, <1>7, PutInFront
<1>9. OnList' = OnList \cup {p}
  <2>1. ASSUME NEW k \in DOMAIN table' PROVE table'[k] \in OnList \cup {p}
    <3>1. CASE k = 1
      BY <1>8, <3>1
    <3>2. CASE k # 1
      <4>1. k - 1 \in DOMAIN table /\ table'[k - 1 + 1] = table[k - 1]
            /\ k - 1 + 1 = k
        BY <1>7, <1>8, <3>2
      <4> QED BY <4>1 DEF OnList
    <3> QED BY <3>1, <3>2
  <2>2. ASSUME NEW k \in DOMAIN table
        PROVE  \E j \in DOMAIN table' : table'[j] = table[k]
    <3>1. k + 1 \in DOMAIN table' /\ table'[k + 1] = table[k]
      BY <1>7, <1>8
    <3> QED BY <3>1
  <2>3. 1 \in DOMAIN table'
    BY <1>7, <1>8
  <2>4. OnList' \subseteq OnList \cup {p}
    BY <2>1 DEF OnList
  <2>5. OnList \subseteq OnList' /\ p \in OnList'
    BY <2>2, <2>3, <1>8 DEF OnList
  <2> QED BY <2>4, <2>5
<1>10. quiet' = [quiet EXCEPT ![LsaKey(w)] = 0]
  BY DEF AddEntry, Accept, LsaKey
<1>11. LsaKey(w) \in Origins \X Nets
  BY <1>3 DEF LsaKey
<1>12. quiet' \in [Origins \X Nets -> 0 .. QuietLimit]
  BY <1>10, <1>11, TopologyAssumption DEF TypeOK
<1>13. thread' = [thread EXCEPT ![w] = AfterLsa(thread[w])]
  BY <1>2 DEF AddEntry
<1> QED BY <1>1, <1>4, <1>5, <1>6, <1>8, <1>9, <1>10, <1>11, <1>12, <1>13

LEMMA AgeStep ==
  ASSUME TypeOK, AgeEntry
  PROVE  /\ walk \in 1 .. Len(table) /\ table[walk] \in Ptrs
         /\ walk' = walk + 1
         /\ \/ /\ mem[table[walk]].age = TopoTimeout
               /\ aged' = TRUE /\ mem' = mem
               /\ table' = RemoveAt(table, walk)
               /\ table' \in Seq(Ptrs) /\ Len(table') = Len(table) - 1
               /\ \A i \in 1 .. Len(table) - 1 :
                    table'[i] = IF i < walk THEN table[i] ELSE table[i + 1]
               /\ OnList' \subseteq OnList
            \/ /\ mem[table[walk]].age # TopoTimeout
               /\ table' = table /\ aged' = aged /\ OnList' = OnList
               /\ mem' \in [Ptrs -> Entry]
               /\ \A p \in Ptrs : /\ mem'[p].router = mem[p].router
                                  /\ mem'[p].net = mem[p].net
                                  /\ mem'[p].neighbor = mem[p].neighbor
               /\ \A p \in Ptrs : p # table[walk] => mem'[p].age = mem[p].age
               /\ mem'[table[walk]].age = mem[table[walk]].age + 1
<1>1. table \in Seq(Ptrs) /\ Len(table) \in Nat /\ DOMAIN table = 1 .. Len(table)
  BY DEF TypeOK
<1>2. walk \in 1 .. Len(table) /\ walk' = walk + 1
  BY <1>1 DEF AgeEntry
<1>3. table[walk] \in Ptrs
  BY <1>1, <1>2, ElementOfSeq
<1>4. CASE mem[table[walk]].age = TopoTimeout
  <2>1. table' = RemoveAt(table, walk) /\ aged' = TRUE /\ mem' = mem
    BY <1>4 DEF AgeEntry
  <2>2. /\ table' \in Seq(Ptrs) /\ Len(table') = Len(table) - 1
        /\ \A i \in 1 .. Len(table) - 1 :
             table'[i] = IF i < walk THEN table[i] ELSE table[i + 1]
    BY <1>1, <1>2, <2>1, TakenOff
  <2>3. ASSUME NEW i \in DOMAIN table' PROVE table'[i] \in OnList
    <3>1. i \in 1 .. Len(table) - 1
      BY <2>2
    <3>2. i \in DOMAIN table /\ i + 1 \in DOMAIN table
      BY <1>1, <3>1
    <3> QED BY <2>2, <3>1, <3>2 DEF OnList
  <2>4. OnList' \subseteq OnList
    BY <2>3 DEF OnList
  <2> QED BY <1>2, <1>3, <1>4, <2>1, <2>2, <2>4
<1>5. CASE mem[table[walk]].age # TopoTimeout
  <2>1. /\ table' = table /\ aged' = aged
        /\ mem' = [mem EXCEPT ![table[walk]] = Older(@)]
    BY <1>5 DEF AgeEntry
  <2>2. mem \in [Ptrs -> Entry] /\ mem[table[walk]] \in Entry
    BY <1>3 DEF TypeOK
  <2> DEFINE p == table[walk]
             g == Older(mem[p])
  <2>3. mem' = [mem EXCEPT ![p] = g]
    BY <2>1, <2>2
  <2>4. /\ g \in Entry /\ g.router = mem[p].router /\ g.net = mem[p].net
        /\ g.neighbor = mem[p].neighbor /\ g.age = mem[p].age + 1
    BY <1>5, <2>2, Aged
  <2> HIDE DEF g
  <2>5. /\ mem' \in [Ptrs -> Entry] /\ mem'[p] = g
        /\ \A q \in Ptrs : q # p => mem'[q] = mem[q]
    BY <1>3, <2>2, <2>3, <2>4
  <2>6. OnList' = OnList
    BY <2>1 DEF OnList
  <2> QED BY <1>2, <1>3, <1>5, <2>1, <2>4, <2>5, <2>6
<1> QED BY <1>4, <1>5

-----------------------------------------------------------------------------
(***************************************************************************)
(* Types.                                                                  *)
(***************************************************************************)
LEMMA TypeInit ==
  ASSUME Init
  PROVE  TypeOK
<1> DEFINE n == CHOOSE n \in Nets : TRUE
           g == [router |-> Self, net |-> n, neighbor |-> None, seq |-> 0,
                 age |-> 0]
<1>1. n \in Nets
  BY TopologyAssumption
<1> HIDE DEF n
<1>2. g \in Entry
  BY <1>1, TopologyAssumption DEF Entry, Origins, Ids
<1>3. mem = [p \in Ptrs |-> g]
  BY DEF Init, n
<1> HIDE DEF g
<1>4. mem \in [Ptrs -> Entry] /\ table \in Seq(Ptrs)
  <2>1. mem \in [Ptrs -> Entry]
    BY <1>2, <1>3
  <2>2. table = <<>>
    BY DEF Init
  <2> QED BY <2>1, <2>2, EmptySeq
<1>5. quiet \in [Origins \X Nets -> 0 .. QuietLimit]
  BY TopologyAssumption DEF Init
<1> QED BY <1>4, <1>5 DEF Init, TypeOK

LEMMA TypeStep ==
  ASSUME TypeOK, [Next]_vars
  PROVE  TypeOK'
<1>1. ASSUME NEW w \in Workers, NEW r \in Origins, NEW via \in Ids,
             ReceiveLsu(w, r, via)
      PROVE  TypeOK'
  BY <1>1, Received, ThreadGoes DEF ReceiveLsu, TypeOK
<1>2. ASSUME NEW w \in Workers, CheckLsu(w) PROVE TypeOK'
  BY <1>2, Checked, AfterJob, ThreadGoes DEF CheckLsu, TypeOK
<1>3. ASSUME NEW w \in Workers, Search(w) PROVE TypeOK'
  BY <1>3, Searched, ThreadGoes, ZenonT(30) DEF Search, TypeOK
<1>4. ASSUME NEW w \in Workers, RefreshEntry(w) PROVE TypeOK'
  <2>1. thread' \in [Workers -> {Idle} \cup Jobs]
    BY <1>4, Updated, AfterJob, ThreadGoes
  <2> QED BY <1>4, <2>1, Updated DEF RefreshEntry, TypeOK
<1>5. ASSUME NEW w \in Workers, AddEntry(w) PROVE TypeOK'
  <2>1. thread' \in [Workers -> {Idle} \cup Jobs]
    BY <1>5, AddedTo, AfterJob, ThreadGoes
  <2>2. walk' \in Nat
    BY <1>5 DEF AddEntry, TypeOK
  <2> QED BY <1>5, <2>1, <2>2, AddedTo DEF AddEntry, TypeOK
<1>6. ASSUME NEW w \in Workers, StartDijkstra(w) PROVE TypeOK'
  <2>1. Claims \subseteq [router : Origins, net : Nets, neighbor : Ids]
    BY EntryType, ListedPtrs DEF Claims
  <2> QED BY <1>6, <2>1, ThreadGoes DEF StartDijkstra, TypeOK
<1>7. CASE AgeBegin
  <2>1. quiet' \in [Origins \X Nets -> 0 .. QuietLimit]
    BY <1>7, TopologyAssumption DEF AgeBegin, TypeOK
  <2> QED BY <1>7, <2>1 DEF AgeBegin, TypeOK
<1>8. CASE AgeEntry
  <2>1. /\ walk' \in Nat /\ aged' \in BOOLEAN /\ mem' \in [Ptrs -> Entry]
        /\ table' \in Seq(Ptrs)
    <3>1. walk' = walk + 1 /\ walk \in Nat /\ aged \in BOOLEAN
          /\ mem \in [Ptrs -> Entry] /\ table \in Seq(Ptrs)
      BY <1>8, AgeStep DEF TypeOK
    <3>2. walk' \in Nat
      BY <3>1
    <3>3. /\ mem' = mem \/ mem' \in [Ptrs -> Entry]
          /\ table' = table \/ table' \in Seq(Ptrs)
          /\ aged' = aged \/ aged' = TRUE
      BY <1>8, AgeStep
    <3> QED BY <3>1, <3>2, <3>3
  <2>2. thread' = thread /\ routed' = routed /\ quiet' = quiet
    BY <1>8 DEF AgeEntry
  <2> QED BY <2>1, <2>2 DEF TypeOK
<1>9. CASE AgeEnd
  <2>1. Claims \subseteq [router : Origins, net : Nets, neighbor : Ids]
    BY EntryType, ListedPtrs DEF Claims
  <2> QED BY <1>9, <2>1 DEF AgeEnd, TypeOK
<1>10. CASE UNCHANGED vars
  BY <1>10 DEF vars, TypeOK
<1> QED BY <1>1, <1>2, <1>3, <1>4, <1>5, <1>6, <1>7, <1>8, <1>9, <1>10
        DEF Next, LsuThread, AgeThread

(***************************************************************************)
(* Every variable has its type: in particular no entry grows older than    *)
(* the age that removes it, although entries are refreshed, freed and used *)
(* again while the age check walks the table.                              *)
(***************************************************************************)
THEOREM TypeCorrect == Spec => []TypeOK
<1>1. Init => TypeOK
  BY TypeInit
<1>2. TypeOK /\ [Next]_vars => TypeOK'
  BY TypeStep
<1> QED BY <1>1, <1>2, PTL DEF Spec
-----------------------------------------------------------------------------
(***************************************************************************)
(* The routes follow the table.  What the table claims does not change     *)
(* with its entries' ages.                                                 *)
(***************************************************************************)
LEMMA SameClaims ==
  ASSUME TypeOK, OnList' = OnList,
         \A p \in Ptrs : /\ mem'[p].router = mem[p].router
                         /\ mem'[p].net = mem[p].net
                         /\ mem'[p].neighbor = mem[p].neighbor
  PROVE  Claims' = Claims
BY ListedPtrs DEF Claims

LEMMA FollowStep ==
  ASSUME TypeOK, RoutesFollow, [Next]_vars
  PROVE  RoutesFollow'
<1> DEFINE Busy == {"search", "update", "add", "dijkstra"}
<1>0. ASSUME UNCHANGED <<mem, table>> PROVE Claims' = Claims
  BY <1>0 DEF Claims, OnList
<1>1. ASSUME NEW w \in Workers, NEW r \in Origins, NEW via \in Ids,
             ReceiveLsu(w, r, via)
      PROVE  RoutesFollow'
  <2>1. /\ thread[w].at = "idle"
        /\ \A v \in Workers : v # w => thread'[v] = thread[v]
    BY <1>1, Received, ThreadGoes
  <2> QED BY <1>0, <1>1, <2>1 DEF ReceiveLsu, RoutesFollow
<1>2. ASSUME NEW w \in Workers, CheckLsu(w) PROVE RoutesFollow'
  <2>1. /\ thread[w].at = "check"
        /\ \A v \in Workers : v # w => thread'[v] = thread[v]
    BY <1>2, Checked, AfterJob, ThreadGoes
  <2> QED BY <1>0, <1>2, <2>1 DEF CheckLsu, RoutesFollow
<1>3. ASSUME NEW w \in Workers, Search(w) PROVE RoutesFollow'
  BY <1>3, Searched, ThreadGoes DEF RoutesFollow
<1>4. ASSUME NEW w \in Workers, RefreshEntry(w) PROVE RoutesFollow'
  BY <1>4, Updated, AfterJob, ThreadGoes DEF RoutesFollow
<1>5. ASSUME NEW w \in Workers, AddEntry(w) PROVE RoutesFollow'
  BY <1>5, AddedTo, AfterJob, ThreadGoes DEF RoutesFollow
<1>6. ASSUME NEW w \in Workers, StartDijkstra(w) PROVE RoutesFollow'
  BY <1>0, <1>6 DEF StartDijkstra, RoutesFollow
<1>7. CASE AgeBegin
  BY <1>0, <1>7 DEF AgeBegin, RoutesFollow
<1>8. CASE AgeEntry
  <2>1. aged' = TRUE \/ (Claims' = Claims /\ aged' = aged)
    BY <1>8, AgeStep, SameClaims
  <2>2. thread' = thread /\ routed' = routed
    BY <1>8 DEF AgeEntry
  <2> QED BY <2>1, <2>2 DEF RoutesFollow
<1>9. CASE AgeEnd
  <2>1. Claims' = Claims /\ routed' = (IF aged THEN Claims ELSE routed)
    BY <1>0, <1>9 DEF AgeEnd
  <2>2. aged \in BOOLEAN /\ thread' = thread
    BY <1>9 DEF TypeOK, AgeEnd
  <2> QED BY <2>1, <2>2 DEF RoutesFollow
<1>10. CASE UNCHANGED vars
  BY <1>0, <1>10 DEF vars, RoutesFollow
<1> QED BY <1>1, <1>2, <1>3, <1>4, <1>5, <1>6, <1>7, <1>8, <1>9, <1>10
        DEF Next, LsuThread, AgeThread

(***************************************************************************)
(* However the threads and the age check interleave, a table that differs  *)
(* from the one Dijkstra last ran over has a run still to come.            *)
(***************************************************************************)
THEOREM RoutesFollowTable == Spec => []RoutesFollow
<1>1. Init => RoutesFollow
  <2>1. Init => Claims = {}
    BY DEF Init, Claims, OnList
  <2> QED BY <2>1 DEF Init, RoutesFollow
<1>2. TypeOK /\ RoutesFollow /\ [Next]_vars => RoutesFollow'
  BY FollowStep
<1> QED BY <1>1, <1>2, TypeCorrect, PTL DEF Spec

-----------------------------------------------------------------------------
(***************************************************************************)
(* Copies of an entry.  Steps that neither add an entry nor let a thread   *)
(* miss one leave no more of them.                                         *)
(***************************************************************************)
LEMMA FiniteCopies ==
  ASSUME TypeOK, NEW r \in Origins, NEW n \in Nets
  PROVE  /\ IsFiniteSet(Copies(r, n)) /\ IsFiniteSet(Adding(r, n))
         /\ Cardinality(Copies(r, n)) \in Nat
         /\ Cardinality(Adding(r, n)) \in Nat
         /\ Copies(r, n) \subseteq Ptrs
<1>1. Copies(r, n) \subseteq Ptrs
  BY ListedPtrs DEF Copies
<1>2. IsFiniteSet(Ptrs)
  <2>1. MaxEntries \in Int /\ 1 \in Int
    BY TopologyAssumption
  <2> QED BY <2>1, FS_Interval DEF Ptrs
<1>3. IsFiniteSet(Copies(r, n))
  BY <1>1, <1>2, FS_Subset
<1>4. Adding(r, n) \subseteq Workers
  BY DEF Adding
<1>5. IsFiniteSet(Adding(r, n))
  BY <1>4, FS_Subset, TopologyAssumption
<1> QED BY <1>1, <1>3, <1>5, FS_CardinalityType

LEMMA NoMoreCopies ==
  ASSUME TypeOK, BoundedCopies, TypeOK',
         \A r \in Origins, n \in Nets :
           /\ Copies(r, n)' \subseteq Copies(r, n)
           /\ Adding(r, n)' \subseteq Adding(r, n)
  PROVE  BoundedCopies'
<1>1. ASSUME NEW r \in Origins, NEW n \in Nets
      PROVE  Cardinality(Copies(r, n)') + Cardinality(Adding(r, n)')
               <= Cardinality(Workers)
  <2> DEFINE C == Copies(r, n)
             D == Copies(r, n)'
             A == Adding(r, n)
             B == Adding(r, n)'
  <2>1. /\ IsFiniteSet(C) /\ IsFiniteSet(A)
        /\ Cardinality(C) \in Nat /\ Cardinality(A) \in Nat
    BY FiniteCopies
  <2>2. D \subseteq C /\ B \subseteq A
    OBVIOUS
  <2>3. Cardinality(C) + Cardinality(A) <= Cardinality(Workers)
    BY DEF BoundedCopies
  <2>4. Cardinality(Workers) \in Nat
    BY TopologyAssumption, FS_CardinalityType
  <2> HIDE DEF A, B, C, D
  <2>5. /\ Cardinality(D) <= Cardinality(C) /\ Cardinality(D) \in Nat
        /\ Cardinality(B) <= Cardinality(A) /\ Cardinality(B) \in Nat
    BY <2>1, <2>2, FS_Subset, FS_CardinalityType
  <2>6. Cardinality(D) + Cardinality(B) <= Cardinality(Workers)
    BY <2>1, <2>3, <2>4, <2>5
  <2> QED BY <2>6 DEF B, D
<1> QED BY <1>1 DEF BoundedCopies

\* One thread goes on and is not about to add: no thread newly is.
LEMMA NobodyAdds ==
  ASSUME TypeOK, NEW w \in Workers, NEW f \in {Idle} \cup Jobs, f.at # "add",
         thread' = [thread EXCEPT ![w] = f]
  PROVE  \A r \in Origins, n \in Nets : Adding(r, n)' \subseteq Adding(r, n)
<1>1. /\ thread'[w].at # "add"
      /\ \A v \in Workers : v # w => thread'[v] = thread[v]
  BY ThreadGoes
<1> QED BY <1>1 DEF Adding, Running, TheLsa

\* The routers and the networks of the table's entries stay as they are.
LEMMA SameCopies ==
  ASSUME TypeOK, OnList' \subseteq OnList,
         \A p \in Ptrs : /\ mem'[p].router = mem[p].router
                         /\ mem'[p].net = mem[p].net
  PROVE  \A r \in Origins, n \in Nets : Copies(r, n)' \subseteq Copies(r, n)
BY ListedPtrs DEF Copies

LEMMA CopiesSearch ==
  ASSUME TypeOK, BoundedCopies, TypeOK', NEW w \in Workers, Search(w)
  PROVE  BoundedCopies'
<1>1. PICK f \in Jobs :
        /\ thread' = [thread EXCEPT ![w] = f]
        /\ f.at = "add" => \A p \in OnList : Key(p) # LsaKey(w)
        /\ f.lsu = thread[w].lsu
        /\ f.at = "add" => f.i = thread[w].i
  BY Searched
<1>2. thread[w].at = "search"
  BY Searched
<1>3. /\ thread'[w] = f
      /\ \A v \in Workers : v # w => thread'[v] = thread[v]
  BY <1>1, ThreadGoes
<1>4. mem' = mem /\ table' = table /\ OnList' = OnList
  BY DEF Search, OnList
<1>5. \A r \in Origins, n \in Nets : Copies(r, n)' = Copies(r, n)
  BY <1>4 DEF Copies
<1>6. ASSUME NEW r \in Origins, NEW n \in Nets, ~(Adding(r, n)' \subseteq Adding(r, n))
      PROVE  Copies(r, n) = {}
  <2>1. w \in Adding(r, n)'
    BY <1>3, <1>6 DEF Adding, Running, TheLsa
  <2>2. f.at = "add" /\ f.lsu.rid = r /\ f.lsu.adv[f.i].net = n
    BY <1>3, <2>1 DEF Adding, Running, TheLsa
  <2>3. LsaKey(w) = <<r, n>>
    BY <1>1, <2>2 DEF LsaKey, TheLsa
  <2> QED BY <1>1, <2>2, <2>3 DEF Copies, Key
<1>7. ASSUME NEW r \in Origins, NEW n \in Nets
      PROVE  Cardinality(Copies(r, n)') + Cardinality(Adding(r, n)')
               <= Cardinality(Workers)
  <2> DEFINE C == Copies(r, n)
             D == Copies(r, n)'
             A == Adding(r, n)
             B == Adding(r, n)'
  <2>1. /\ IsFiniteSet(C) /\ IsFiniteSet(A)
        /\ Cardinality(C) \in Nat /\ Cardinality(A) \in Nat
    BY FiniteCopies
  <2>2. Cardinality(C) + Cardinality(A) <= Cardinality(Workers)
    BY DEF BoundedCopies
  <2>3. IsFiniteSet(Workers) /\ Cardinality(Workers) \in Nat
    BY TopologyAssumption, FS_CardinalityType
  <2>4. D = C /\ (~(B \subseteq A) => C = {})
    BY <1>5, <1>6
  <2>5. B \subseteq Workers
    BY DEF Adding
  <2> HIDE DEF A, B, C, D
  <2>6. CASE B \subseteq A
    <3>1. Cardinality(B) <= Cardinality(A) /\ Cardinality(B) \in Nat
      BY <2>1, <2>6, FS_Subset, FS_CardinalityType
    <3>2. Cardinality(D) + Cardinality(B) <= Cardinality(Workers)
      BY <2>1, <2>2, <2>3, <2>4, <3>1
    <3> QED BY <3>2 DEF B, D
  <2>7. CASE ~(B \subseteq A)
    <3>1. Cardinality(D) = 0
      BY <2>4, <2>7, FS_EmptySet
    <3>2. Cardinality(B) <= Cardinality(Workers) /\ Cardinality(B) \in Nat
      BY <2>3, <2>5, FS_Subset, FS_CardinalityType
    <3>3. Cardinality(D) + Cardinality(B) <= Cardinality(Workers)
      BY <3>1, <3>2
    <3> QED BY <3>3 DEF B, D
  <2> QED BY <2>6, <2>7
<1> QED BY <1>7 DEF BoundedCopies

LEMMA CopiesAdd ==
  ASSUME TypeOK, BoundedCopies, TypeOK', NEW w \in Workers, AddEntry(w)
  PROVE  BoundedCopies'
<1>1. PICK p \in Ptrs \ OnList :
        /\ OnList' = OnList \cup {p}
        /\ \A q \in Ptrs \ {p} : mem'[q] = mem[q]
        /\ mem'[p].router = thread[w].lsu.rid /\ mem'[p].net = TheLsa(w).net
  BY AddedTo
<1>2. /\ thread[w] \in Jobs /\ thread[w].at = "add"
      /\ thread' = [thread EXCEPT ![w] = AfterLsa(thread[w])]
  BY AddedTo
<1>3. /\ thread'[w].at # "add"
      /\ \A v \in Workers : v # w => thread'[v] = thread[v]
  BY <1>2, AfterJob, ThreadGoes
<1>4. ASSUME NEW r \in Origins, NEW n \in Nets
      PROVE  Cardinality(Copies(r, n)') + Cardinality(Adding(r, n)')
               <= Cardinality(Workers)
  <2> DEFINE C == Copies(r, n)
             D == Copies(r, n)'
             A == Adding(r, n)
             B == Adding(r, n)'
  <2>1. /\ IsFiniteSet(C) /\ IsFiniteSet(A)
        /\ Cardinality(C) \in Nat /\ Cardinality(A) \in Nat
    BY FiniteCopies
  <2>2. Cardinality(C) + Cardinality(A) <= Cardinality(Workers)
    BY DEF BoundedCopies
  <2>3. Cardinality(Workers) \in Nat
    BY TopologyAssumption, FS_CardinalityType
  <2>4. B \subseteq A \ {w}
    BY <1>3 DEF Adding, Running, TheLsa
  <2>5. D \subseteq C \cup {p}
    BY <1>1, ListedPtrs DEF Copies
  <2>6. thread[w].lsu.rid = r /\ TheLsa(w).net = n => w \in A
    BY <1>2 DEF Adding, Running
  <2>7. ~(thread[w].lsu.rid = r /\ TheLsa(w).net = n) => D \subseteq C
    BY <1>1, ListedPtrs DEF Copies
  <2> HIDE DEF A, B, C, D
  <2>8. CASE w \in A
    <3>1. /\ IsFiniteSet(A \ {w}) /\ Cardinality(A \ {w}) = Cardinality(A) - 1
      BY <2>1, <2>8, FS_RemoveElement
    <3>2. Cardinality(B) <= Cardinality(A) - 1 /\ Cardinality(B) \in Nat
      BY <2>4, <3>1, FS_Subset, FS_CardinalityType
    <3>3. /\ IsFiniteSet(C \cup {p})
          /\ Cardinality(C \cup {p}) <= Cardinality(C) + 1
          /\ Cardinality(C \cup {p}) \in Nat
      <4>1. /\ IsFiniteSet(C \cup {p})
            /\ \/ Cardinality(C \cup {p}) = Cardinality(C)
               \/ Cardinality(C \cup {p}) = Cardinality(C) + 1
        BY <2>1, FS_AddElement
      <4> QED BY <2>1, <4>1
    <3>4. Cardinality(D) <= Cardinality(C \cup {p}) /\ Cardinality(D) \in Nat
      BY <2>5, <3>3, FS_Subset, FS_CardinalityType
    <3>5. Cardinality(D) + Cardinality(B) <= Cardinality(Workers)
      BY <2>1, <2>2, <2>3, <3>2, <3>3, <3>4
    <3> QED BY <3>5 DEF B, D
  <2>9. CASE w \notin A
    <3>1. D \subseteq C /\ B \subseteq A
      BY <2>4, <2>6, <2>7, <2>9
    <3>2. /\ Cardinality(D) <= Cardinality(C) /\ Cardinality(D) \in Nat
          /\ Cardinality(B) <= Cardinality(A) /\ Cardinality(B) \in Nat
      BY <2>1, <3>1, FS_Subset, FS_CardinalityType
    <3>3. Cardinality(D) + Cardinality(B) <= Cardinality(Workers)
      BY <2>1, <2>2, <2>3, <3>2
    <3> QED BY <3>3 DEF B, D
  <2> QED BY <2>8, <2>9
<1> QED BY <1>4 DEF BoundedCopies

LEMMA CopiesStep ==
  ASSUME TypeOK, BoundedCopies, [Next]_vars
  PROVE  BoundedCopies'
<1>0. TypeOK'
  BY TypeStep
<1>1. ASSUME UNCHANGED <<mem, table>>
      PROVE  \A r \in Origins, n \in Nets : Copies(r, n)' = Copies(r, n)
  BY <1>1 DEF Copies, OnList
<1>2. ASSUME UNCHANGED thread
      PROVE  \A r \in Origins, n \in Nets : Adding(r, n)' = Adding(r, n)
  BY <1>2 DEF Adding, Running, TheLsa
<1>3. ASSUME NEW w \in Workers, NEW r \in Origins, NEW via \in Ids,
             ReceiveLsu(w, r, via)
      PROVE  BoundedCopies'
  <2>1. PICK f \in Jobs : thread' = [thread EXCEPT ![w] = f] /\ f.at = "check"
    BY <1>3, Received
  <2>2. UNCHANGED <<mem, table>>
    BY <1>3 DEF ReceiveLsu
  <2> QED BY <1>0, <1>1, <2>1, <2>2, NobodyAdds, NoMoreCopies
<1>4. ASSUME NEW w \in Workers, CheckLsu(w) PROVE BoundedCopies'
  <2>1. PICK f \in {Idle} \cup Jobs :
          thread' = [thread EXCEPT ![w] = f] /\ f.at # "add"
    BY <1>4, Checked, AfterJob DEF Idle
  <2>2. UNCHANGED <<mem, table>>
    BY <1>4 DEF CheckLsu
  <2> QED BY <1>0, <1>1, <2>1, <2>2, NobodyAdds, NoMoreCopies
<1>5. ASSUME NEW w \in Workers, Search(w) PROVE BoundedCopies'
  BY <1>0, <1>5, CopiesSearch
<1>6. ASSUME NEW w \in Workers, RefreshEntry(w) PROVE BoundedCopies'
  <2>1. PICK f \in {Idle} \cup Jobs :
          thread' = [thread EXCEPT ![w] = f] /\ f.at # "add"
    BY <1>6, Updated, AfterJob
  <2>2. OnList' = OnList
    BY <1>6 DEF RefreshEntry, OnList
  <2>3. \A r \in Origins, n \in Nets : Copies(r, n)' \subseteq Copies(r, n)
    BY <1>6, <2>2, Updated, SameCopies
  <2> QED BY <1>0, <2>1, <2>3, NobodyAdds, NoMoreCopies
<1>7. ASSUME NEW w \in Workers, AddEntry(w) PROVE BoundedCopies'
  BY <1>0, <1>7, CopiesAdd
<1>8. ASSUME NEW w \in Workers, StartDijkstra(w) PROVE BoundedCopies'
  <2>1. UNCHANGED <<mem, table>> /\ thread' = [thread EXCEPT ![w] = Idle]
    BY <1>8 DEF StartDijkstra
  <2>2. Idle \in {Idle} \cup Jobs /\ Idle.at # "add"
    BY DEF Idle
  <2> QED BY <1>0, <1>1, <2>1, <2>2, NobodyAdds, NoMoreCopies
<1>9. CASE AgeBegin
  BY <1>0, <1>1, <1>2, <1>9, NoMoreCopies DEF AgeBegin
<1>10. CASE AgeEntry
  <2>1. \A r \in Origins, n \in Nets : Copies(r, n)' \subseteq Copies(r, n)
    BY <1>10, AgeStep, SameCopies
  <2>2. UNCHANGED thread
    BY <1>10 DEF AgeEntry
  <2> QED BY <1>0, <1>2, <2>1, <2>2, NoMoreCopies
<1>11. CASE AgeEnd
  BY <1>0, <1>1, <1>2, <1>11, NoMoreCopies DEF AgeEnd
<1>12. CASE UNCHANGED vars
  BY <1>0, <1>1, <1>2, <1>12, NoMoreCopies DEF vars
<1> QED BY <1>3, <1>4, <1>5, <1>6, <1>7, <1>8, <1>9, <1>10, <1>11, <1>12
        DEF Next, LsuThread, AgeThread

(***************************************************************************)
(* The entries of a network of a router and the threads about to add one   *)
(* are together never more than the threads there are.                     *)
(***************************************************************************)
THEOREM CopiesBounded == Spec => []BoundedCopies
<1>1. Init => BoundedCopies
  <2> SUFFICES ASSUME Init PROVE BoundedCopies
    OBVIOUS
  <2>1. ASSUME NEW r \in Origins, NEW n \in Nets
        PROVE  Copies(r, n) = {} /\ Adding(r, n) = {}
    BY DEF Init, Copies, OnList, Adding, Running, Idle
  <2>2. Cardinality(Workers) \in Nat
    BY TopologyAssumption, FS_CardinalityType
  <2> QED BY <2>1, <2>2, FS_EmptySet DEF BoundedCopies
<1>2. TypeOK /\ BoundedCopies /\ [Next]_vars => BoundedCopies'
  BY CopiesStep
<1> QED BY <1>1, <1>2, TypeCorrect, PTL DEF Spec

-----------------------------------------------------------------------------
(***************************************************************************)
(* LSUs handled one at a time.  First, steps that leave the table alone.   *)
(***************************************************************************)
LEMMA MadeByEntries ==
  ASSUME TypeOK
  PROVE  ClaimsAreMade <=>
           \A p \in OnList :
             /\ mem[p].router # Self
             /\ Makes(mem[p].router, mem[p].net, mem[p].neighbor)
<1> DEFINE c(p) == [router |-> mem[p].router, net |-> mem[p].net,
                    neighbor |-> mem[p].neighbor]
<1>1. \A p : /\ c(p).router = mem[p].router /\ c(p).net = mem[p].net
             /\ c(p).neighbor = mem[p].neighbor
  OBVIOUS
<1>2. Claims = {c(p) : p \in OnList}
  BY DEF Claims
<1> HIDE DEF c
<1>3. ClaimsAreMade <=>
        \A p \in OnList : /\ c(p).router # Self
                          /\ Makes(c(p).router, c(p).net, c(p).neighbor)
  BY <1>2 DEF ClaimsAreMade
<1> QED BY <1>1, <1>3

LEMMA TableKept ==
  ASSUME NoneTwice, ClaimsAreMade, AgesCovered,
         UNCHANGED <<mem, table, quiet>>, walk' = walk \/ walk' = 0
  PROVE  NoneTwice' /\ ClaimsAreMade' /\ AgesCovered'
<1>1. \A p : Key(p)' = Key(p)
  BY DEF Key
<1>2. NoneTwice'
  BY <1>1 DEF NoneTwice, Key
<1>3. Claims' = Claims
  BY DEF Claims, OnList
<1>4. ClaimsAreMade'
  BY <1>3 DEF ClaimsAreMade
<1>5. AgesCovered'
  BY DEF AgesCovered, Key
<1> QED BY <1>2, <1>4, <1>5

\* The thread goes on to something that needs nothing found.
LEMMA NothingFound ==
  ASSUME TypeOK, OneThread, NEW w \in Workers, NEW f \in {Idle} \cup Jobs,
         thread' = [thread EXCEPT ![w] = f],
         f.at \notin {"add", "update"},
         f.at \in {"idle", "check"} \/ f.lsu.rid # Self
  PROVE  FoundHolds' /\ Foreign'
<1>1. thread'[w] = f /\ \A v \in Workers : v = w
  BY ThreadGoes DEF OneThread
<1> QED BY <1>1 DEF FoundHolds, Foreign, Running

LEMMA OneSearch ==
  ASSUME OneIInv, OneThread, NEW w \in Workers, Search(w)
  PROVE  FoundHolds' /\ Foreign'
<1>0. TypeOK
  BY DEF OneIInv
<1>1. PICK f \in Jobs :
        /\ thread' = [thread EXCEPT ![w] = f]
        /\ f.lsu = thread[w].lsu
        /\ f.at \in {"update", "add"} => f.i = thread[w].i
        /\ f.at = "add" => \A p \in OnList : Key(p) # LsaKey(w)
        /\ f.at = "update" => f.ptr \in OnList /\ Key(f.ptr) = LsaKey(w)
  BY <1>0, Searched
<1>2. thread'[w] = f /\ \A v \in Workers : v = w
  BY <1>0, <1>1, ThreadGoes DEF OneThread
<1>3. thread[w].at = "search"
  BY <1>0, Searched
<1>4. thread[w].lsu.rid # Self
  BY <1>3 DEF OneIInv, Foreign, Running
<1>5. Foreign'
  BY <1>1, <1>2, <1>4 DEF Foreign
<1>6. mem' = mem /\ OnList' = OnList /\ \A p : Key(p)' = Key(p)
  BY DEF Search, OnList, Key
<1>7. f.at \in {"update", "add"} => LsaKey(w)' = LsaKey(w)
  BY <1>1, <1>2 DEF LsaKey, TheLsa
<1>8. f.at = "add" => \A p \in OnList' : Key(p)' # LsaKey(w)'
  BY <1>1, <1>6, <1>7
<1>9. f.at = "update" =>
        /\ Key(f.ptr)' = LsaKey(w)'
        /\ \A p \in OnList' : Key(p)' = LsaKey(w)' => p = f.ptr
  <2>1. ASSUME f.at = "update", NEW p \in OnList, Key(p) = LsaKey(w)
        PROVE  p = f.ptr
    <3>1. PICK j \in DOMAIN table : table[j] = p
      BY DEF OnList
    <3>2. PICK k \in DOMAIN table : table[k] = f.ptr
      BY <1>1, <2>1 DEF OnList
    <3> QED BY <1>1, <2>1, <3>1, <3>2 DEF OneIInv, NoneTwice
  <2> QED BY <1>1, <1>6, <1>7, <2>1
<1>10. FoundHolds'
  <2>1. /\ Running(w, "add")' => f.at = "add"
        /\ Running(w, "update")' => f.at = "update" /\ thread'[w].ptr = f.ptr
    BY <1>2 DEF Running
  <2>2. Running(w, "update")' => Key(thread[w].ptr)' = Key(f.ptr)'
    BY <2>1 DEF Key
  <2> QED BY <1>2, <1>8, <1>9, <2>1, <2>2 DEF FoundHolds
<1> QED BY <1>5, <1>10

LEMMA MadeNext ==
  ASSUME \A p \in OnList' :
           /\ mem'[p].router # Self
           /\ Makes(mem'[p].router, mem'[p].net, mem'[p].neighbor)
  PROVE  ClaimsAreMade'
<1> DEFINE c(p) == [router |-> mem'[p].router, net |-> mem'[p].net,
                    neighbor |-> mem'[p].neighbor]
<1>1. \A p : /\ c(p).router = mem'[p].router /\ c(p).net = mem'[p].net
             /\ c(p).neighbor = mem'[p].neighbor
  OBVIOUS
<1>2. Claims' = {c(p) : p \in OnList'}
  BY DEF Claims
<1> HIDE DEF c
<1>3. \A d \in Claims' : d.router # Self /\ Makes(d.router, d.net, d.neighbor)
  BY <1>1, <1>2
<1> QED BY <1>3 DEF ClaimsAreMade, Makes

\* The LSA a thread is at is one its LSU's router makes.
LEMMA LsaMade ==
  ASSUME NEW w \in Workers, thread[w] \in Jobs,
         thread[w].at \in {"update", "add"}
  PROVE  Makes(thread[w].lsu.rid, TheLsa(w).net, TheLsa(w).neighbor)
<1> DEFINE f == thread[w]
           adv == f.lsu.adv
<1>1. /\ adv \in Adverts[f.lsu.rid] /\ f.i \in DOMAIN adv /\ adv[f.i] \in Lsa
  BY JobFields
<1>2. adv[f.i] = [net |-> adv[f.i].net, neighbor |-> adv[f.i].neighbor]
  BY <1>1 DEF Lsa
<1>3. \E i \in DOMAIN adv :
        adv[i] = [net |-> adv[f.i].net, neighbor |-> adv[f.i].neighbor]
  BY <1>1, <1>2
<1>4. \E a \in Adverts[f.lsu.rid] : \E i \in DOMAIN a :
        a[i] = [net |-> adv[f.i].net, neighbor |-> adv[f.i].neighbor]
  BY <1>1, <1>3
<1> QED BY <1>4 DEF Makes, TheLsa

LEMMA OneRefresh ==
  ASSUME OneIInv, OneThread, NEW w \in Workers, RefreshEntry(w)
  PROVE  /\ NoneTwice' /\ FoundHolds' /\ Foreign' /\ ClaimsAreMade'
         /\ AgesCovered'
<1> DEFINE q == thread[w].ptr
<1>0. TypeOK
  BY DEF OneIInv
<1>1. /\ thread[w] \in Jobs /\ thread[w].at = "update" /\ q \in Ptrs
      /\ thread' = [thread EXCEPT ![w] = AfterLsa(thread[w])]
      /\ LsaKey(w) \in Origins \X Nets
      /\ \A p \in Ptrs \ {q} : mem'[p] = mem[p]
      /\ \A p \in Ptrs : mem'[p].router = mem[p].router /\ mem'[p].net = mem[p].net
      /\ mem'[q].neighbor = TheLsa(w).neighbor /\ mem'[q].age = 0
      /\ quiet' \in [Origins \X Nets -> 0 .. QuietLimit]
      /\ quiet' = [quiet EXCEPT ![LsaKey(w)] = 0]
  BY <1>0, Updated
<1>2. /\ table' = table /\ walk' = walk /\ OnList' = OnList
      /\ OnList \subseteq Ptrs
      /\ \A k \in DOMAIN table : table[k] \in OnList
  BY <1>0, ListedPtrs DEF RefreshEntry, OnList
<1>3. /\ Key(q) = LsaKey(w)
      /\ \A p \in OnList : Key(p) = LsaKey(w) => p = q
      /\ thread[w].lsu.rid # Self
  BY <1>1 DEF OneIInv, FoundHolds, Foreign, Running
<1>4. \A p \in Ptrs : Key(p)' = Key(p)
  BY <1>1 DEF Key
<1>5. FoundHolds' /\ Foreign'
  BY <1>0, <1>1, <1>3, AfterJob, NothingFound
<1>6. NoneTwice'
  <2>1. \A k \in DOMAIN table' : table'[k] \in Ptrs /\ Key(table[k])' = Key(table[k])
    BY <1>1, <1>2 DEF Key
  <2> QED BY <1>2, <2>1 DEF NoneTwice, OneIInv
<1>7. ClaimsAreMade'
  <2>1. ASSUME NEW p \in OnList
        PROVE  /\ mem'[p].router # Self
               /\ Makes(mem'[p].router, mem'[p].net, mem'[p].neighbor)
    <3>1. CASE p = q
      <4>1. /\ mem'[p].router = thread[w].lsu.rid /\ mem'[p].net = TheLsa(w).net
            /\ mem'[p].neighbor = TheLsa(w).neighbor
        BY <1>1, <1>3, <3>1 DEF Key, LsaKey
      <4> QED BY <1>1, <1>3, <4>1, LsaMade
    <3>2. CASE p # q
      BY <1>0, <1>1, <1>2, <3>2, MadeByEntries DEF OneIInv
    <3> QED BY <3>1, <3>2
  <2> QED BY <1>2, <2>1, MadeNext
<1>8. AgesCovered'
  <2>1. ASSUME NEW k \in DOMAIN table
        PROVE  /\ mem'[table[k]].age <= quiet'[Key(table[k])] + 1
               /\ walk # 0 /\ walk <= k => mem'[table[k]].age <= quiet'[Key(table[k])]
    <3>1. table[k] \in Ptrs /\ Key(table[k]) \in Origins \X Nets
      BY <1>0, <1>2, EntryType
    <3>2. CASE table[k] = q
      BY <1>1, <3>1, <3>2
    <3>3. CASE table[k] # q
      <4>1. Key(table[k]) # LsaKey(w)
        BY <1>2, <1>3, <3>3
      <4>2. quiet'[Key(table[k])] = quiet[Key(table[k])]
        BY <1>0, <1>1, <3>1, <4>1 DEF TypeOK
      <4>3. mem'[table[k]].age = mem[table[k]].age
        BY <1>1, <3>1, <3>3
      <4> QED BY <4>2, <4>3 DEF OneIInv, AgesCovered
    <3> QED BY <3>2, <3>3
  <2>2. \A k \in DOMAIN table : Key(table[k])' = Key(table[k])
    BY <1>1, <1>2 DEF Key
  <2> QED BY <1>2, <2>1, <2>2 DEF AgesCovered
<1> QED BY <1>5, <1>6, <1>7, <1>8

LEMMA OneAdd ==
  ASSUME OneIInv, OneThread, NEW w \in Workers, AddEntry(w)
  PROVE  /\ NoneTwice' /\ FoundHolds' /\ Foreign' /\ ClaimsAreMade'
         /\ AgesCovered'
<1>0. TypeOK
  BY DEF OneIInv
<1>1. /\ thread[w] \in Jobs /\ thread[w].at = "add"
      /\ thread' = [thread EXCEPT ![w] = AfterLsa(thread[w])]
      /\ LsaKey(w) \in Origins \X Nets
      /\ quiet' \in [Origins \X Nets -> 0 .. QuietLimit]
      /\ quiet' = [quiet EXCEPT ![LsaKey(w)] = 0]
      /\ mem' \in [Ptrs -> Entry]
  BY <1>0, AddedTo
<1>2. PICK p \in Ptrs \ OnList :
        /\ table' = <<p>> \o table
        /\ OnList' = OnList \cup {p}
        /\ \A q \in Ptrs \ {p} : mem'[q] = mem[q]
        /\ mem'[p].router = thread[w].lsu.rid /\ mem'[p].net = TheLsa(w).net
        /\ mem'[p].neighbor = TheLsa(w).neighbor /\ mem'[p].age = 0
  BY <1>0, AddedTo
<1>3. /\ table \in Seq(Ptrs) /\ Len(table) \in Nat
      /\ DOMAIN table = 1 .. Len(table)
      /\ \A k \in DOMAIN table : table[k] \in OnList
      /\ OnList \subseteq Ptrs
  BY <1>0, ListedPtrs DEF TypeOK, OnList
<1>4. /\ DOMAIN table' = 1 .. Len(table) + 1 /\ table'[1] = p
      /\ \A k \in 1 .. Len(table) : table'[k + 1] = table[k]
  BY <1>2, <1>3, PutInFront
<1>5. /\ \A q \in OnList : Key(q) # LsaKey(w)
      /\ thread[w].lsu.rid # Self
  BY <1>1 DEF OneIInv, FoundHolds, Foreign, Running
<1>6. /\ \A q \in OnList : mem'[q] = mem[q] /\ Key(q)' = Key(q)
      /\ Key(p)' = LsaKey(w)
  BY <1>2, <1>3 DEF Key, LsaKey
<1>7. FoundHolds' /\ Foreign'
  BY <1>0, <1>1, <1>5, AfterJob, NothingFound
<1>8. ASSUME NEW k \in DOMAIN table', k # 1
      PROVE  /\ k - 1 \in DOMAIN table /\ table'[k] = table[k - 1]
             /\ table[k - 1] \in OnList
  <2>1. k - 1 \in 1 .. Len(table) /\ k - 1 + 1 = k
    BY <1>3, <1>4, <1>8
  <2> QED BY <1>3, <1>4, <2>1
<1>9. NoneTwice'
  <2>1. ASSUME NEW k \in DOMAIN table'
        PROVE  Key(table[k])' = IF k = 1 THEN LsaKey(w) ELSE Key(table[k - 1])
    <3>1. /\ Key(table[k])' = <<mem'[table'[k]].router, mem'[table'[k]].net>>
          /\ \A q : Key(q)' = <<mem'[q].router, mem'[q].net>>
      BY DEF Key
    <3>2. CASE k = 1
      BY <1>4, <1>6, <3>1, <3>2
    <3>3. CASE k # 1
      <4>1. table'[k] = table[k - 1] /\ table[k - 1] \in OnList
        BY <1>8, <3>3
      <4>2. Key(table[k - 1])
              = <<mem'[table[k - 1]].router, mem'[table[k - 1]].net>>
        BY <1>6, <4>1 DEF Key
      <4> QED BY <3>1, <3>3, <4>1, <4>2
    <3> QED BY <3>2, <3>3
  <2>2. ASSUME NEW j \in DOMAIN table', NEW k \in DOMAIN table',
               Key(table[j])' = Key(table[k])'
        PROVE  j = k
    <3>1. j # 1 => Key(table[j - 1]) # LsaKey(w)
      BY <1>5, <1>8
    <3>2. k # 1 => Key(table[k - 1]) # LsaKey(w)
      BY <1>5, <1>8
    <3>3. j = 1 <=> k = 1
      BY <2>1, <2>2, <3>1, <3>2
    <3>4. CASE j # 1 /\ k # 1
      <4>1. /\ j - 1 \in DOMAIN table /\ k - 1 \in DOMAIN table
            /\ Key(table[j - 1]) = Key(table[k - 1])
        BY <1>8, <2>1, <2>2, <3>4
      <4>2. j - 1 = k - 1
        BY <4>1 DEF OneIInv, NoneTwice
      <4>3. j \in Nat /\ k \in Nat
        BY <1>3, <1>4
      <4> QED BY <4>2, <4>3
    <3> QED BY <3>3, <3>4
  <2> QED BY <2>2 DEF NoneTwice
<1>10. ClaimsAreMade'
  <2>1. ASSUME NEW q \in OnList'
        PROVE  /\ mem'[q].router # Self
               /\ Makes(mem'[q].router, mem'[q].net, mem'[q].neighbor)
    <3>1. CASE q = p
      BY <1>1, <1>2, <1>5, <3>1, LsaMade
    <3>2. CASE q # p
      BY <1>0, <1>2, <1>6, <3>2, MadeByEntries DEF OneIInv
    <3> QED BY <3>1, <3>2
  <2> QED BY <2>1, MadeNext
<1>11. AgesCovered'
  <2>1. walk' = IF walk > 1 THEN walk + 1 ELSE walk
    BY DEF AddEntry
  <2>2. walk \in Nat
    BY <1>0 DEF TypeOK
  <2>3. ASSUME NEW k \in DOMAIN table'
        PROVE  /\ mem'[table'[k]].age <= quiet'[Key(table[k])'] + 1
               /\ walk' # 0 /\ walk' <= k =>
                    mem'[table'[k]].age <= quiet'[Key(table[k])']
    <3>0. Key(table[k])' = <<mem'[table'[k]].router, mem'[table'[k]].net>>
          /\ \A q : Key(q)' = <<mem'[q].router, mem'[q].net>>
      BY DEF Key
    <3>1. CASE k = 1
      <4>1. Key(table[k])' = LsaKey(w) /\ mem'[table'[k]].age = 0
        BY <1>2, <1>4, <1>6, <3>0, <3>1
      <4>2. quiet'[LsaKey(w)] \in Nat
        BY <1>1
      <4> QED BY <4>1, <4>2
    <3>2. CASE k # 1
      <4> DEFINE q == table[k - 1]
      <4>1. k - 1 \in DOMAIN table /\ table'[k] = q /\ q \in OnList
        BY <1>8, <3>2
      <4>2. Key(table[k])' = Key(q) /\ mem'[table'[k]].age = mem[q].age
        BY <1>6, <3>0, <4>1
      <4>3. Key(q) \in Origins \X Nets /\ Key(q) # LsaKey(w)
        BY <1>0, <1>3, <1>5, <4>1, EntryType
      <4>4. quiet'[Key(q)] = quiet[Key(q)]
        BY <1>0, <1>1, <4>3 DEF TypeOK
      <4>5. /\ mem[q].age <= quiet[Key(q)] + 1
            /\ walk # 0 /\ walk <= k - 1 => mem[q].age <= quiet[Key(q)]
        BY <4>1 DEF OneIInv, AgesCovered
      <4>6. k \in Nat /\ k - 1 >= 1
        BY <1>3, <1>4, <4>1
      <4>7. walk' # 0 /\ walk' <= k => walk # 0 /\ walk <= k - 1
        BY <2>1, <2>2, <4>6
      <4> QED BY <4>2, <4>4, <4>5, <4>7
    <3> QED BY <3>1, <3>2
  <2> QED BY <2>3 DEF AgesCovered
<1> QED BY <1>7, <1>9, <1>10, <1>11

LEMMA OneAgeBegin ==
  ASSUME OneIInv, AgeBegin
  PROVE  NoneTwice' /\ ClaimsAreMade' /\ AgesCovered'
<1>0. TypeOK /\ table \in Seq(Ptrs) /\ DOMAIN table = 1 .. Len(table)
      /\ Len(table) \in Nat
  BY DEF OneIInv, TypeOK
<1>1. /\ mem' = mem /\ table' = table /\ walk = 0 /\ walk' = 1
      /\ OnList' = OnList /\ \A p : Key(p)' = Key(p)
  BY DEF AgeBegin, OnList, Key
<1>2. NoneTwice'
  BY <1>1 DEF OneIInv, NoneTwice, Key
<1>3. Claims' = Claims
  BY <1>1 DEF Claims
<1>4. ClaimsAreMade'
  BY <1>3 DEF OneIInv, ClaimsAreMade
<1>5. ASSUME NEW k \in DOMAIN table
      PROVE  mem[table[k]].age <= quiet'[Key(table[k])]
  <2>1. table[k] \in Ptrs
    BY <1>0, ElementOfSeq
  <2>2. /\ mem[table[k]].age \in 0 .. TopoTimeout
        /\ Key(table[k]) \in Origins \X Nets
    BY <1>0, <2>1, EntryType
  <2>3. mem[table[k]].age <= quiet[Key(table[k])] + 1
    BY DEF OneIInv, AgesCovered
  <2>4. quiet'[Key(table[k])] = IF quiet[Key(table[k])] < QuietLimit
                                THEN quiet[Key(table[k])] + 1 ELSE QuietLimit
    BY <1>0, <2>2 DEF AgeBegin, TypeOK
  <2>5. quiet[Key(table[k])] \in 0 .. QuietLimit
    BY <1>0, <2>2 DEF TypeOK
  <2> QED BY <2>2, <2>3, <2>4, <2>5, TopologyAssumption
<1>6. ASSUME NEW k \in DOMAIN table
      PROVE  /\ mem[table[k]].age <= quiet'[Key(table[k])]
             /\ mem[table[k]].age <= quiet'[Key(table[k])] + 1
  <2>1. table[k] \in Ptrs
    BY <1>0, ElementOfSeq
  <2>2. mem[table[k]].age \in Nat /\ Key(table[k]) \in Origins \X Nets
    BY <1>0, <2>1, EntryType, TopologyAssumption
  <2>3. quiet'[Key(table[k])] \in Nat
    <3>1. TypeOK'
      BY <1>0, TypeStep DEF Next, AgeThread
    <3> QED BY <2>2, <3>1, TopologyAssumption DEF TypeOK
  <2> QED BY <1>5, <2>2, <2>3
<1>7. AgesCovered'
  BY <1>1, <1>6 DEF AgesCovered, Key
<1> QED BY <1>2, <1>4, <1>7

LEMMA OneAge ==
  ASSUME OneIInv, AgeEntry
  PROVE  /\ NoneTwice' /\ FoundHolds' /\ Foreign' /\ ClaimsAreMade'
         /\ AgesCovered'
<1>0. TypeOK /\ table \in Seq(Ptrs) /\ DOMAIN table = 1 .. Len(table)
      /\ Len(table) \in Nat
  BY DEF OneIInv, TypeOK
<1>1. /\ walk \in 1 .. Len(table) /\ walk' = walk + 1
      /\ thread' = thread /\ quiet' = quiet
      /\ OnList \subseteq Ptrs /\ OnList' \subseteq OnList
      /\ \A p \in Ptrs : /\ mem'[p].router = mem[p].router
                         /\ mem'[p].net = mem[p].net
                         /\ mem'[p].neighbor = mem[p].neighbor
  BY <1>0, AgeStep, ListedPtrs DEF AgeEntry
<1>2. \A p \in Ptrs : Key(p)' = Key(p)
  BY <1>1 DEF Key
<1>3. Foreign'
  BY <1>1 DEF OneIInv, Foreign, Running
<1>4. FoundHolds'
  <2>1. ASSUME NEW w \in Workers, thread[w].at = "update"
        PROVE  thread[w].ptr \in Ptrs
    BY <1>0, <2>1, AtWork, JobFields
  <2>2. \A w \in Workers : LsaKey(w)' = LsaKey(w)
    BY <1>1 DEF LsaKey, TheLsa
  <2>3. \A w \in Workers : Running(w, "update") =>
          Key(thread[w].ptr)' = Key(thread[w].ptr)
    BY <1>1, <2>1 DEF Key, Running
  <2>4. \A w \in Workers : Running(w, "add") => \A p \in OnList' : Key(p)' # LsaKey(w)'
    BY <1>1, <1>2, <2>2 DEF OneIInv, FoundHolds
  <2>5. \A w \in Workers : Running(w, "update") =>
          \A p \in OnList' : Key(p)' = LsaKey(w)' => p = thread[w].ptr
    BY <1>1, <1>2, <2>2 DEF OneIInv, FoundHolds
  <2>6. \A w \in Workers : Running(w, "update") => Key(thread[w].ptr)' = LsaKey(w)'
    BY <2>2, <2>3 DEF OneIInv, FoundHolds
  <2> QED BY <1>1, <2>4, <2>5, <2>6 DEF FoundHolds, Running
<1>5. ClaimsAreMade'
  <2>1. ASSUME NEW p \in OnList'
        PROVE  /\ mem'[p].router # Self
               /\ Makes(mem'[p].router, mem'[p].net, mem'[p].neighbor)
    <3>1. p \in OnList /\ p \in Ptrs
      BY <1>1
    <3> QED BY <1>0, <1>1, <3>1, MadeByEntries DEF OneIInv
  <2> QED BY <2>1, MadeNext
<1>6. ASSUME NEW k \in DOMAIN table
      PROVE  /\ table[k] \in Ptrs /\ Key(table[k]) \in Origins \X Nets
             /\ mem[table[k]].age \in Nat /\ quiet[Key(table[k])] \in Nat
             /\ mem[table[k]].age <= quiet[Key(table[k])] + 1
             /\ walk <= k => mem[table[k]].age <= quiet[Key(table[k])]
  <2>1. table[k] \in Ptrs
    BY <1>0, ElementOfSeq
  <2>2. mem[table[k]].age \in Nat /\ Key(table[k]) \in Origins \X Nets
    BY <1>0, <2>1, EntryType, TopologyAssumption
  <2>3. quiet[Key(table[k])] \in Nat
    BY <1>0, <2>2, TopologyAssumption DEF TypeOK
  <2> QED BY <1>1, <2>1, <2>2, <2>3 DEF OneIInv, AgesCovered
<1>7. CASE mem[table[walk]].age = TopoTimeout
  <2>1. /\ mem' = mem /\ table' \in Seq(Ptrs) /\ Len(table') = Len(table) - 1
        /\ \A i \in 1 .. Len(table) - 1 :
             table'[i] = IF i < walk THEN table[i] ELSE table[i + 1]
    BY <1>0, <1>7, AgeStep
  <2> DEFINE old(i) == IF i < walk THEN i ELSE i + 1
  <2>2. ASSUME NEW i \in DOMAIN table'
        PROVE  /\ old(i) \in DOMAIN table /\ table'[i] = table[old(i)]
               /\ walk' <= i => walk <= old(i)
               /\ i \in Nat
    <3>1. i \in 1 .. Len(table) - 1
      BY <2>1
    <3> QED BY <1>0, <1>1, <2>1, <3>1
  <2>3. \A i, j \in DOMAIN table' : old(i) = old(j) => i = j
    BY <1>1, <2>2
  <2>4. \A i \in DOMAIN table' : Key(table[i])' = Key(table[old(i)])
    BY <2>1, <2>2 DEF Key
  <2> HIDE DEF old
  <2>5. NoneTwice'
    BY <2>2, <2>3, <2>4 DEF OneIInv, NoneTwice
  <2>6. ASSUME NEW i \in DOMAIN table'
        PROVE  /\ mem'[table'[i]].age <= quiet'[Key(table[i])'] + 1
               /\ walk' # 0 /\ walk' <= i =>
                    mem'[table'[i]].age <= quiet'[Key(table[i])']
    BY <1>1, <1>6, <2>1, <2>2, <2>4
  <2>7. AgesCovered'
    BY <2>6 DEF AgesCovered
  <2> QED BY <1>3, <1>4, <1>5, <2>5, <2>7
<1>8. CASE mem[table[walk]].age # TopoTimeout
  <2>1. /\ table' = table
        /\ \A p \in Ptrs : p # table[walk] => mem'[p].age = mem[p].age
        /\ mem'[table[walk]].age = mem[table[walk]].age + 1
    BY <1>0, <1>8, AgeStep
  <2>2. \A i \in DOMAIN table : Key(table[i])' = Key(table[i])
    BY <1>1, <1>6, <2>1 DEF Key
  <2>3. NoneTwice'
    BY <2>1, <2>2 DEF OneIInv, NoneTwice
  <2>4. ASSUME NEW k \in DOMAIN table
        PROVE  /\ mem'[table[k]].age <= quiet[Key(table[k])] + 1
               /\ walk' <= k => mem'[table[k]].age <= quiet[Key(table[k])]
    <3>1. k \in 1 .. Len(table) /\ k \in Nat /\ walk \in Nat
      BY <1>0, <1>1
    <3>2. CASE k = walk
      BY <1>1, <1>6, <2>1, <3>1, <3>2
    <3>3. CASE k # walk
      <4>1. table[k] # table[walk]
        BY <1>0, <1>1, <3>3 DEF OneIInv, NoneTwice
      <4>2. mem'[table[k]].age = mem[table[k]].age
        BY <1>6, <2>1, <4>1
      <4>3. walk' <= k => walk <= k
        BY <1>1, <3>1
      <4> QED BY <1>6, <4>2, <4>3
    <3> QED BY <3>2, <3>3
  <2>5. AgesCovered'
    BY <1>1, <2>1, <2>2, <2>4 DEF AgesCovered
  <2> QED BY <1>3, <1>4, <1>5, <2>3, <2>5
<1> QED BY <1>7, <1>8

LEMMA OneInit ==
  ASSUME Init
  PROVE  OneIInv
<1>1. TypeOK
  BY TypeInit
<1>2. table = <<>> /\ DOMAIN table = {} /\ OnList = {}
  BY DEF Init, OnList
<1>3. NoneTwice /\ AgesCovered
  BY <1>2 DEF NoneTwice, AgesCovered
<1>4. FoundHolds /\ Foreign
  BY DEF Init, Idle, FoundHolds, Foreign, Running
<1>5. ClaimsAreMade
  BY <1>2 DEF ClaimsAreMade, Claims
<1> QED BY <1>1, <1>3, <1>4, <1>5 DEF OneIInv

LEMMA OneStep ==
  ASSUME OneIInv, OneThread, [Next]_vars
  PROVE  OneIInv'
<1>0. TypeOK /\ TypeOK'
  BY TypeStep DEF OneIInv
<1> DEFINE Rest ==
      NoneTwice /\ FoundHolds /\ Foreign /\ ClaimsAreMade /\ AgesCovered
<1>1. ASSUME NEW w \in Workers, NEW r \in Origins, NEW via \in Ids,
             ReceiveLsu(w, r, via)
      PROVE  Rest'
  <2>1. FoundHolds' /\ Foreign'
    BY <1>0, <1>1, Received, NothingFound
  <2> QED BY <1>1, <2>1, TableKept DEF OneIInv, ReceiveLsu
<1>2. ASSUME NEW w \in Workers, CheckLsu(w) PROVE Rest'
  <2>1. FoundHolds' /\ Foreign'
    <3>1. CASE thread' = [thread EXCEPT ![w] = Idle]
      BY <1>0, <3>1, NothingFound DEF Idle
    <3>2. CASE /\ thread[w].lsu.rid # Self
               /\ thread' = [thread EXCEPT ![w] = AfterLsa(thread[w])]
      BY <1>0, <1>2, <3>2, Checked, AfterJob, NothingFound
    <3> QED BY <1>0, <1>2, <3>1, <3>2, Checked
  <2> QED BY <1>2, <2>1, TableKept DEF OneIInv, CheckLsu
<1>3. ASSUME NEW w \in Workers, Search(w) PROVE Rest'
  BY <1>3, OneSearch, TableKept DEF OneIInv, Search
<1>4. ASSUME NEW w \in Workers, RefreshEntry(w) PROVE Rest'
  BY <1>4, OneRefresh
<1>5. ASSUME NEW w \in Workers, AddEntry(w) PROVE Rest'
  BY <1>5, OneAdd
<1>6. ASSUME NEW w \in Workers, StartDijkstra(w) PROVE Rest'
  <2>1. thread' = [thread EXCEPT ![w] = Idle]
    BY <1>6 DEF StartDijkstra
  <2>2. FoundHolds' /\ Foreign'
    BY <1>0, <2>1, NothingFound DEF Idle
  <2> QED BY <1>6, <2>2, TableKept DEF OneIInv, StartDijkstra
<1>7. ASSUME UNCHANGED <<mem, table, thread>> PROVE FoundHolds' /\ Foreign'
  BY <1>7 DEF OneIInv, FoundHolds, Foreign, Running, Key, LsaKey, TheLsa, OnList
<1>8. ASSUME AgeBegin PROVE Rest'
  BY <1>7, <1>8, OneAgeBegin DEF AgeBegin
<1>9. ASSUME AgeEntry PROVE Rest'
  BY <1>9, OneAge
<1>10. ASSUME AgeEnd PROVE Rest'
  BY <1>7, <1>10, TableKept DEF AgeEnd, OneIInv
<1>11. ASSUME UNCHANGED vars PROVE Rest'
  BY <1>7, <1>11, TableKept DEF vars, OneIInv
<1>12. Rest'
  BY <1>1, <1>2, <1>3, <1>4, <1>5, <1>6, <1>8, <1>9, <1>10, <1>11
     DEF Next, LsuThread, AgeThread
<1> QED BY <1>0, <1>12 DEF OneIInv

LEMMA OneInvariant == OneThread => (Spec => []OneIInv)
<1> SUFFICES ASSUME OneThread PROVE Spec => []OneIInv
  OBVIOUS
<1>1. Init => OneIInv
  BY OneInit
<1>2. OneIInv /\ [Next]_vars => OneIInv'
  BY OneStep
<1> QED BY <1>1, <1>2, PTL DEF Spec

(***************************************************************************)
(* LSUs handled one at a time never leave a claim in the table that its    *)
(* router does not make, whatever order they come in, are repeated in and  *)
(* whatever the age check removes between the walk and the refresh.        *)
(***************************************************************************)
THEOREM ClaimsMade == OneThread => (Spec => []ClaimsAreMade)
<1>1. OneIInv => ClaimsAreMade
  BY DEF OneIInv
<1> QED BY <1>1, OneInvariant, PTL

(***************************************************************************)
(* A claim goes only when the age check finds it older than the timeout.   *)
(***************************************************************************)
LEMMA StillClaimed ==
  ASSUME TypeOK, NEW r \in Routers, NEW n \in Nets, Claimed(r, n),
         OnList \subseteq OnList',
         \A p \in OnList : mem'[p].router = mem[p].router
                           /\ mem'[p].net = mem[p].net
  PROVE  Claimed(r, n)'
BY DEF Claimed

LEMMA ExpiryStep ==
  ASSUME OneIInv, [Next]_vars,
         NEW r \in Routers, NEW n \in Nets, Claimed(r, n), ~Claimed(r, n)'
  PROVE  quiet[<<r, n>>] >= TopoTimeout
<1>0. TypeOK /\ OnList \subseteq Ptrs
  BY ListedPtrs DEF OneIInv
<1>1. ASSUME UNCHANGED <<mem, table>> PROVE FALSE
  BY <1>1 DEF Claimed, OnList
<1>2. ASSUME NEW w \in Workers, RefreshEntry(w) PROVE FALSE
  <2>1. OnList' = OnList
    BY <1>2 DEF RefreshEntry, OnList
  <2> QED BY <1>0, <1>2, <2>1, Updated, StillClaimed
<1>3. ASSUME NEW w \in Workers, AddEntry(w) PROVE FALSE
  <2>1. PICK p \in Ptrs \ OnList :
          OnList' = OnList \cup {p} /\ \A q \in Ptrs \ {p} : mem'[q] = mem[q]
    BY <1>0, <1>3, AddedTo
  <2>2. \A q \in OnList : mem'[q] = mem[q]
    BY <1>0, <2>1
  <2> QED BY <1>0, <2>1, <2>2, StillClaimed
<1>4. CASE AgeEntry
  <2>1. CASE mem[table[walk]].age # TopoTimeout
    <3>1. OnList' = OnList /\ \A p \in Ptrs : /\ mem'[p].router = mem[p].router
                                              /\ mem'[p].net = mem[p].net
      BY <1>0, <1>4, <2>1, AgeStep
    <3> QED BY <1>0, <3>1, StillClaimed
  <2>2. CASE mem[table[walk]].age = TopoTimeout
    <3>1. /\ walk \in 1 .. Len(table) /\ table[walk] \in Ptrs /\ mem' = mem
          /\ Len(table') = Len(table) - 1 /\ table' \in Seq(Ptrs)
          /\ \A i \in 1 .. Len(table) - 1 :
               table'[i] = IF i < walk THEN table[i] ELSE table[i + 1]
      BY <1>0, <1>4, <2>2, AgeStep
    <3>2. /\ table \in Seq(Ptrs) /\ DOMAIN table = 1 .. Len(table)
          /\ Len(table) \in Nat /\ DOMAIN table' = 1 .. Len(table) - 1
      BY <1>0, <3>1 DEF TypeOK
    <3>3. PICK k \in DOMAIN table :
            mem[table[k]].router = r /\ mem[table[k]].net = n
      BY DEF Claimed, OnList
    <3>4. k = walk
      <4>1. CASE k < walk
        <5>1. k \in DOMAIN table' /\ table'[k] = table[k]
          BY <3>1, <3>2, <4>1
        <5> QED BY <3>1, <3>3, <5>1 DEF Claimed, OnList
      <4>2. CASE k > walk
        <5>1. k - 1 \in DOMAIN table' /\ table'[k - 1] = table[k]
          BY <3>1, <3>2, <4>2
        <5> QED BY <3>1, <3>3, <5>1 DEF Claimed, OnList
      <4> QED BY <3>1, <3>2, <4>1, <4>2
    <3>5. Key(table[walk]) = <<r, n>>
      BY <3>3, <3>4 DEF Key
    <3>6. walk # 0 /\ walk <= walk
      BY <3>1
    <3>7. TopoTimeout <= quiet[<<r, n>>]
      BY <2>2, <3>1, <3>2, <3>5, <3>6 DEF OneIInv, AgesCovered
    <3>8. TopoTimeout \in Nat /\ quiet[<<r, n>>] \in Nat
      <4>1. <<r, n>> \in Origins \X Nets
        BY DEF Origins
      <4> QED BY <1>0, <4>1, TopologyAssumption DEF TypeOK
    <3> QED BY <3>7, <3>8
  <2> QED BY <2>1, <2>2
<1> QED BY <1>1, <1>2, <1>3, <1>4
        DEF Next, vars, ReceiveLsu, LsuThread, CheckLsu, Search, StartDijkstra,
            AgeThread, AgeBegin, AgeEnd

(***************************************************************************)
(* With LSUs handled one at a time no claim goes before the timeout has    *)
(* passed since its router last made it.                                   *)
(***************************************************************************)
THEOREM ExpiresOnTime == OneThread => (Spec => NoEarlyExpiry)
<1>1. OneIInv /\ [Next]_vars =>
        [\A r \in Routers, n \in Nets :
           Claimed(r, n) /\ ~Claimed(r, n)' => quiet[<<r, n>>] >= TopoTimeout]_vars
  BY ExpiryStep
<1> QED BY <1>1, OneInvariant, PTL DEF Spec, NoEarlyExpiry
=============================================================================
