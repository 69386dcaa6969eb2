------------------------- MODULE RoutingTableProofs -------------------------
(***************************************************************************)
(* Theorems of RoutingTable for any memory, networks, tables and number of *)
(* Dijkstra runs, overlapping as they like.                                *)
(***************************************************************************)
EXTENDS RoutingTable, TLAPS, SequenceTheorems

(***************************************************************************)
(* The kept entries are the first of the list.  All but the last of them,  *)
(* the front, point to the next; nothing else points to one.               *)
(***************************************************************************)
Kept == Seen(kept)
Front == {kept[i] : i \in 1 .. Len(kept) - 1}

Distinct == \A i, j \in DOMAIN kept : kept[i] = kept[j] => i = j
NoneInto == \A c \in Cells \ Front : cells[c].next \notin Kept

\* What the readers rely on: a kept route stays, at its place, with its network.
Grows ==
  /\ \A i \in DOMAIN kept : i \in DOMAIN kept' /\ kept'[i] = kept[i]
  /\ \A c \in Kept : cells'[c].dest = cells[c].dest

(***************************************************************************)
(* A thread that is about to change the list behind an entry is behind the *)
(* front, and a run frees none of the kept entries.                        *)
(***************************************************************************)
Behind ==
  /\ \A t \in Adders :
       /\ pc[t] \in {"take", "unlink", "free", "link", "fill"} => at[t] \notin Front
       /\ pc[t] \in {"first", "fillfirst"} => kept = <<>>
  /\ \A r \in Runs : held[r] \notin Kept

(***************************************************************************)
(* Until the first run begins the start-up thread has the table to itself: *)
(* it consists of the kept entries, and of the one being added.            *)
(***************************************************************************)
Alone == NoRunYet /\ pc[Start] # "done"
Last == kept[Len(kept)]
Undisturbed ==
  /\ NoRunYet => \A r \in Runs : held[r] = Nil
  /\ Alone =>
       /\ \A c \in Cells \ Kept : cells[c].next \in {Nil, Wild}
       /\ kept = <<>> => IF pc[Start] = "fillfirst" THEN head \in used
                                                    ELSE head = Nil
       /\ kept # <<>> => IF pc[Start] = "fill" THEN cells[Last].next \in used \ Kept
                                               ELSE cells[Last].next = Nil
       /\ pc[Start] \in {"tail", "link", "fill"} => at[Start] \in Kept

(***************************************************************************)
(* What threads hold when they need it.                                    *)
(***************************************************************************)
Places ==
  /\ \A t \in Adders :
       /\ k[t] >= 1
       /\ pc[t] \in {"check", "add", "first", "fillfirst", "tail", "link", "fill"} =>
            k[t] <= Len(Todo(t))
       /\ pc[t] = "clear" => at[t] \in Cells \cup {Nil}
  /\ pc[Start] \notin {"idle", "clear", "take", "unlink", "free"}

IInv ==
  TypeOK /\ Places /\ ConnectedKept /\ Distinct /\ NoneInto /\ Behind /\ Undisturbed

(***************************************************************************)
(* The IP handler has found the route it is due, or its walk is still in   *)
(* front of it.                                                            *)
(***************************************************************************)
Found == held[Forward] \in Kept /\ cells[held[Forward]].dest = want.net
Ahead ==
  \E i, j \in DOMAIN kept :
    i <= j /\ at[Forward] = kept[i] /\ cells[kept[j]].dest = want.net
MatchInv ==
  /\ pc[Forward] \notin {"match", "use"} => held[Forward] = Nil
  /\ want.due =>
       /\ pc[Forward] = "match" => Found \/ (held[Forward] = Nil /\ Ahead)
       /\ pc[Forward] = "use" => Found
       /\ pc[Forward] \in Outcomes => pc[Forward] = "forwarded"

(***************************************************************************)
(* send_lsu has counted, and written, the kept entries it has passed.      *)
(***************************************************************************)
Passed(n) == n >= lsu.kept \/ \E i \in 1 .. lsu.kept : at[Lsu] = kept[i] /\ n >= i - 1
LsuInv ==
  /\ lsu.kept <= Len(kept)
  /\ pc[Lsu] = "count" => Passed(lsu.counted) /\ lsu.filled = 0
  /\ pc[Lsu] = "write" => lsu.counted >= lsu.kept /\ Passed(lsu.filled)
  /\ LsuAnnounces

(***************************************************************************)
(* And it has written no more than those, if they are all there are.       *)
(***************************************************************************)
FitInv ==
  lsu.settled =>
    /\ Settled /\ lsu.kept = Len(kept)
    /\ pc[Lsu] # "count" => lsu.filled <= lsu.kept /\ lsu.kept <= lsu.counted
    /\ pc[Lsu] = "write" =>
         \A i \in DOMAIN kept : at[Lsu] = kept[i] => lsu.filled <= i - 1

-----------------------------------------------------------------------------
(***************************************************************************)
(* Entries and threads, and what an update of one leaves.                  *)
(***************************************************************************)
Pcs == {"idle", "clear", "take", "unlink", "free", "next", "check", "add", "first",
        "fillfirst", "tail", "link", "fill", "done", "count", "write", "sent",
        "match", "use"} \cup Outcomes

LEMMA Types ==
  TypeOK <=>
    /\ head \in Cells \cup {Nil} /\ cells \in [Cells -> Entry] /\ used \subseteq Cells
    /\ pc \in [Threads -> Pcs] /\ at \in [Threads -> Ptrs]
    /\ held \in [Threads -> Ptrs] /\ k \in [Adders -> Nat]
    /\ lsu \in [counted : Nat, filled : Nat, kept : Nat, settled : BOOLEAN]
    /\ want \in [net : Nets \cup {Junk}, due : BOOLEAN]
    /\ kept \in Seq(Cells) /\ up \in BOOLEAN
    /\ \A t \in Threads :
         pc[t] \in {"take", "unlink", "free", "tail", "link", "fill"}
           => at[t] \in Cells \/ ~up
BY DEF TypeOK, Pcs

LEMMA EntryFields ==
  ASSUME NEW e \in Entry
  PROVE  /\ e.dest \in Nets \cup {Junk} /\ e.dynamic \in BOOLEAN /\ e.next \in Ptrs
         /\ \A p \in Ptrs : /\ [e EXCEPT !.next = p] \in Entry
                            /\ [e EXCEPT !.next = p].next = p
                            /\ [e EXCEPT !.next = p].dest = e.dest
                            /\ [e EXCEPT !.next = p].dynamic = e.dynamic
         /\ [e EXCEPT !.dest = Junk] \in Entry
         /\ [e EXCEPT !.dest = Junk].next = e.next
<1> DEFINE D == Nets \cup {Junk}
           B == BOOLEAN
           P == Ptrs
           E == [dest : D, dynamic : B, next : P]
<1>1. e \in E /\ Junk \in D
  BY DEF Entry
<1>2. E = Entry
  BY DEF Entry
<1> HIDE DEF D, B, P
<1>3. e.dest \in D /\ e.dynamic \in B /\ e.next \in P
  BY <1>1
<1>4. ASSUME NEW p \in P
      PROVE  /\ [e EXCEPT !.next = p] \in E /\ [e EXCEPT !.next = p].next = p
             /\ [e EXCEPT !.next = p].dest = e.dest
             /\ [e EXCEPT !.next = p].dynamic = e.dynamic
  BY <1>1
<1>5. [e EXCEPT !.dest = Junk] \in E /\ [e EXCEPT !.dest = Junk].next = e.next
  BY <1>1
<1> QED BY <1>2, <1>3, <1>4, <1>5 DEF D, B, P

LEMMA NextSet ==
  ASSUME NEW f \in [Cells -> Entry], NEW a \in Cells, NEW p \in Ptrs
  PROVE  LET g == [f EXCEPT ![a].next = p] IN
         /\ g \in [Cells -> Entry]
         /\ g[a].next = p /\ g[a].dest = f[a].dest /\ g[a].dynamic = f[a].dynamic
         /\ \A c \in Cells : c # a => g[c] = f[c]
<1>1. [f EXCEPT ![a].next = p] = [f EXCEPT ![a] = [f[a] EXCEPT !.next = p]]
  OBVIOUS
<1>2. f[a] \in Entry
  OBVIOUS
<1>3. /\ [f[a] EXCEPT !.next = p] \in Entry /\ [f[a] EXCEPT !.next = p].next = p
      /\ [f[a] EXCEPT !.next = p].dest = f[a].dest
      /\ [f[a] EXCEPT !.next = p].dynamic = f[a].dynamic
  BY <1>2, EntryFields
<1> DEFINE e == [f[a] EXCEPT !.next = p]
<1>4. [f EXCEPT ![a].next = p] = [f EXCEPT ![a] = e]
  BY <1>1
<1> HIDE DEF e
<1>5. LET g == [f EXCEPT ![a] = e] IN
      /\ g \in [Cells -> Entry] /\ g[a] = e /\ \A c \in Cells : c # a => g[c] = f[c]
  BY <1>3 DEF e
<1> QED BY <1>3, <1>4, <1>5 DEF e

LEMMA Apart ==
  /\ Lsu \in Threads /\ Forward \in Threads /\ Lsu # Forward
  /\ Lsu \notin Adders /\ Forward \notin Adders /\ Start \in Adders
  /\ Adders \subseteq Threads /\ Runs \subseteq Adders
  /\ Start \notin Runs
  /\ Nil \in Ptrs /\ Wild \in Ptrs /\ Cells \subseteq Ptrs
  /\ Nil \notin Cells /\ Wild \notin Cells /\ Wild # Nil
BY RoutingTableAssumption DEF Threads, Adders, Ptrs, Nil

LEMMA Going ==
  ASSUME TypeOK, NEW t \in Threads, NEW place \in Pcs, NEW p \in Ptrs,
         GoAt(t, place, p)
  PROVE  /\ pc' \in [Threads -> Pcs] /\ at' \in [Threads -> Ptrs]
         /\ pc'[t] = place /\ at'[t] = p
         /\ \A s \in Threads : s # t => pc'[s] = pc[s] /\ at'[s] = at[s]
BY Types DEF GoAt, Go

LEMMA GoingOn ==
  ASSUME TypeOK, NEW t \in Threads, NEW place \in Pcs, Go(t, place)
  PROVE  /\ pc' \in [Threads -> Pcs] /\ pc'[t] = place
         /\ \A s \in Threads : s # t => pc'[s] = pc[s]
BY Types DEF Go

\* The network an adder is at.
LEMMA TodoNet ==
  ASSUME NEW t \in Adders, NEW i \in Nat, i >= 1, i <= Len(Todo(t))
  PROVE  Todo(t)[i] \in Nets /\ Todo(t)[i] # Junk
<1>1. Todo(t) \in Seq(Seen(Todo(t)))
  BY RoutingTableAssumption DEF Todo
<1>2. Len(Todo(t)) \in Nat /\ DOMAIN Todo(t) = 1 .. Len(Todo(t))
  BY <1>1
<1>3. i \in DOMAIN Todo(t)
  BY <1>2
<1>4. Todo(t)[i] \in Seen(Todo(t))
  BY <1>3 DEF Seen
<1>5. Seen(Todo(t)) \subseteq Nets
  BY DEF Todo, Nets
<1> QED BY <1>4, <1>5, RoutingTableAssumption

(***************************************************************************)
(* Types, for steps that change no memory.                                 *)
(***************************************************************************)
LEMMA MoveTypes ==
  ASSUME TypeOK, NEW t \in Threads, NEW place \in Pcs, NEW p \in Ptrs,
         GoAt(t, place, p), UNCHANGED <<memory, kept, up>>,
         held' \in [Threads -> Ptrs], k' \in [Adders -> Nat],
         lsu' \in [counted : Nat, filled : Nat, kept : Nat, settled : BOOLEAN],
         want' \in [net : Nets \cup {Junk}, due : BOOLEAN],
         place \in {"take", "unlink", "free", "tail", "link", "fill"} => p \in Cells
  PROVE  TypeOK'
<1>1. /\ pc' \in [Threads -> Pcs] /\ at' \in [Threads -> Ptrs]
      /\ pc'[t] = place /\ at'[t] = p
      /\ \A s \in Threads : s # t => pc'[s] = pc[s] /\ at'[s] = at[s]
  BY Going
<1>2. \A s \in Threads :
        pc'[s] \in {"take", "unlink", "free", "tail", "link", "fill"}
          => at'[s] \in Cells \/ ~up
  BY <1>1 DEF TypeOK
<1> QED BY <1>1, <1>2 DEF TypeOK, Pcs, memory

LEMMA KeptFacts ==
  ASSUME TypeOK, ConnectedKept, Distinct
  PROVE  /\ Len(kept) \in Nat /\ DOMAIN kept = 1 .. Len(kept)
         /\ \A i \in DOMAIN kept : kept[i] \in Cells /\ kept[i] \in Kept
         /\ Kept \subseteq Cells /\ Kept \subseteq used /\ Front \subseteq Kept
         /\ \A c \in Kept : cells[c].dest \in Nets /\ ~cells[c].dynamic
         /\ \A c \in Front : cells[c].next \in Kept
         /\ kept # <<>> =>
              /\ head \in Kept /\ Last \in Kept /\ Last \notin Front
              /\ Len(kept) >= 1 /\ Kept = Front \cup {Last}
<1>1. kept \in Seq(Cells)
  BY DEF TypeOK
<1>2. Len(kept) \in Nat /\ DOMAIN kept = 1 .. Len(kept)
  BY <1>1
<1>3. \A i \in DOMAIN kept : kept[i] \in Cells /\ kept[i] \in Kept
  BY <1>1 DEF Kept, Seen
<1>4. Kept \subseteq Cells /\ Kept \subseteq used
  BY <1>3 DEF Kept, Seen, ConnectedKept
<1>5. Front \subseteq Kept
  BY <1>2, <1>3 DEF Front
<1>6. \A c \in Kept : cells[c].dest \in Nets /\ ~cells[c].dynamic
  BY DEF Kept, Seen, ConnectedKept
<1>7. ASSUME NEW c \in Front PROVE cells[c].next \in Kept
  <2>1. PICK i \in 1 .. Len(kept) - 1 : c = kept[i]
    BY DEF Front
  <2>2. i \in DOMAIN kept /\ i + 1 \in DOMAIN kept /\ i < Len(kept)
    BY <1>2, <2>1
  <2>3. cells[kept[i]].next = kept[i + 1]
    BY <2>2 DEF ConnectedKept
  <2> QED BY <1>3, <2>1, <2>2, <2>3
<1>8. ASSUME kept # <<>>
      PROVE  /\ head \in Kept /\ Last \in Kept /\ Last \notin Front
             /\ Len(kept) >= 1 /\ Kept = Front \cup {Last}
  <2>1. Len(kept) >= 1
    BY <1>1, <1>2, <1>8, EmptySeq
  <2>2. 1 \in DOMAIN kept /\ Len(kept) \in DOMAIN kept
    BY <1>2, <2>1
  <2>3. head \in Kept /\ Last \in Kept
    BY <1>3, <1>8, <2>2 DEF ConnectedKept, Last
  <2>4. Last \notin Front
    <3>1. SUFFICES ASSUME NEW i \in 1 .. Len(kept) - 1, kept[i] = Last PROVE FALSE
      BY DEF Front
    <3> DEFINE n == Len(kept)
    <3>2. n \in Nat /\ i \in 1 .. n - 1
      BY <1>2
    <3> HIDE DEF n
    <3>3. i \in 1 .. n /\ i # n
      BY <3>2
    <3>4. i \in DOMAIN kept /\ i # Len(kept)
      BY <1>2, <3>3 DEF n
    <3> QED BY <2>2, <3>1, <3>4 DEF Distinct, Last
  <2>5. Kept \subseteq Front \cup {Last}
    <3>1. ASSUME NEW i \in DOMAIN kept PROVE kept[i] \in Front \cup {Last}
      <4>1. CASE i = Len(kept)
        BY <4>1 DEF Last
      <4>2. CASE i # Len(kept)
        BY <1>2, <4>2 DEF Front
      <4> QED BY <4>1, <4>2
    <3> QED BY <3>1 DEF Kept, Seen
  <2> QED BY <1>5, <2>1, <2>3, <2>4, <2>5
<1> QED BY <1>2, <1>3, <1>4, <1>5, <1>6, <1>7, <1>8

(***************************************************************************)
(* A step of an adder that leaves the kept routes: where it may go.        *)
(***************************************************************************)
LEMMA Whereabouts ==
  ASSUME IInv, NEW t \in Adders, NEW place \in Pcs, NEW p \in Ptrs, GoAt(t, place, p),
         kept' = kept, \A s \in Threads : s # t => held'[s] = held[s],
         \A s \in Adders : s # t => k'[s] = k[s],
         k'[t] >= 1,
         place \in {"check", "add", "first", "fillfirst", "tail", "link", "fill"} =>
           k'[t] <= Len(Todo(t)),
         place = "clear" => p \in Cells \cup {Nil},
         place \in {"take", "unlink", "free", "link", "fill"} => p \notin Front,
         place \in {"first", "fillfirst"} => kept = <<>>,
         t \in Runs => held'[t] \notin Kept,
         t = Start => place \notin {"idle", "clear", "take", "unlink", "free"}
  PROVE  Places' /\ Behind'
<1>1. /\ pc'[t] = place /\ at'[t] = p
      /\ \A s \in Threads : s # t => pc'[s] = pc[s] /\ at'[s] = at[s]
  BY Going, Apart DEF IInv
<1>2. \A s \in Adders : s \in Threads
  BY Apart
<1>3. Kept' = Kept /\ Front' = Front
  BY DEF Kept, Front, Seen
<1>4. ASSUME NEW s \in Adders
      PROVE  /\ k'[s] >= 1
             /\ pc'[s] \in {"check", "add", "first", "fillfirst", "tail", "link", "fill"}
                  => k'[s] <= Len(Todo(s))
             /\ pc'[s] = "clear" => at'[s] \in Cells \cup {Nil}
  <2>1. CASE s = t
    BY <1>1, <2>1
  <2>2. CASE s # t
    <3>1. pc'[s] = pc[s] /\ at'[s] = at[s] /\ k'[s] = k[s]
      BY <1>1, <1>2, <2>2
    <3> QED BY <3>1 DEF IInv, Places
  <2> QED BY <2>1, <2>2
<1>5. pc'[Start] \notin {"idle", "clear", "take", "unlink", "free"}
  BY <1>1, Apart DEF IInv, Places
<1>6. Places'
  BY <1>4, <1>5 DEF Places, Todo
<1>7. ASSUME NEW s \in Adders
      PROVE  /\ pc'[s] \in {"take", "unlink", "free", "link", "fill"} => at'[s] \notin Front
             /\ pc'[s] \in {"first", "fillfirst"} => kept = <<>>
  <2>1. CASE s = t
    BY <1>1, <2>1
  <2>2. CASE s # t
    <3>1. pc'[s] = pc[s] /\ at'[s] = at[s]
      BY <1>1, <1>2, <2>2
    <3> QED BY <3>1 DEF IInv, Behind
  <2> QED BY <2>1, <2>2
<1>8. \A r \in Runs : held'[r] \notin Kept
  BY Apart DEF IInv, Behind
<1>9. Behind'
  BY <1>3, <1>7, <1>8 DEF Behind
<1> QED BY <1>6, <1>9

\* Once a run is under way the start-up thread is disturbed.
LEMMA Disturbed ==
  ASSUME NEW t \in Runs, pc'[t] # "idle"
  PROVE  Undisturbed'
<1>1. ~NoRunYet'
  BY DEF NoRunYet
<1> QED BY <1>1 DEF Undisturbed, Alone

(***************************************************************************)
(* A step of an adder that changes no memory.                              *)
(***************************************************************************)
LEMMA Moves ==
  ASSUME IInv, NEW t \in Adders, NEW place \in Pcs, NEW p \in Ptrs, GoAt(t, place, p),
         UNCHANGED <<memory, kept>>, \A s \in Threads : s # t => held'[s] = held[s],
         \A s \in Adders : s # t => k'[s] = k[s],
         k'[t] >= 1,
         place \in {"check", "add", "first", "fillfirst", "tail", "link", "fill"} =>
           k'[t] <= Len(Todo(t)),
         place = "clear" => p \in Cells \cup {Nil},
         place \in {"take", "unlink", "free", "link", "fill"} => p \notin Front,
         place \in {"first", "fillfirst"} => kept = <<>>,
         t \in Runs => place # "idle" /\ held'[t] \notin Kept,
         t = Start =>
           /\ place \notin {"idle", "clear", "take", "unlink", "free", "fill", "fillfirst"}
           /\ pc[Start] \notin {"fill", "fillfirst", "done"}
           /\ Alone /\ place \in {"tail", "link"} => p \in Kept
  PROVE  /\ Places' /\ ConnectedKept' /\ Distinct' /\ NoneInto' /\ Behind'
         /\ Undisturbed'
<1>1. /\ pc'[t] = place /\ at'[t] = p
      /\ \A s \in Threads : s # t => pc'[s] = pc[s] /\ at'[s] = at[s]
  BY Going, Apart DEF IInv
<1>2. Places' /\ Behind'
  BY Whereabouts
<1>3. head' = head /\ cells' = cells /\ used' = used /\ kept' = kept
  BY DEF memory
<1>4. Kept' = Kept /\ Front' = Front /\ Last' = Last
  BY <1>3 DEF Kept, Front, Seen, Last
<1>5. ConnectedKept' /\ Distinct' /\ NoneInto'
  BY <1>3, <1>4 DEF IInv, ConnectedKept, Distinct, NoneInto
<1>6. CASE t \in Runs
  BY <1>1, <1>2, <1>5, <1>6, Disturbed
<1>7. CASE t = Start
  <2>1. \A r \in Runs : pc'[r] = pc[r] /\ held'[r] = held[r]
    BY <1>1, <1>7, Apart
  <2>2. NoRunYet' <=> NoRunYet
    BY <2>1 DEF NoRunYet
  <2>3. NoRunYet' => \A r \in Runs : held'[r] = Nil
    BY <2>1, <2>2 DEF IInv, Undisturbed
  <2>4. pc'[Start] = place /\ at'[Start] = p
    BY <1>1, <1>7
  <2>5. ASSUME Alone'
        PROVE  /\ \A c \in Cells \ Kept : cells[c].next \in {Nil, Wild}
               /\ kept = <<>> => head = Nil
               /\ kept # <<>> => cells[Last].next = Nil
               /\ Alone
    <3>1. Alone
      BY <1>7, <2>2, <2>5 DEF Alone
    <3> QED BY <1>7, <3>1 DEF IInv, Undisturbed
  <2>6. Undisturbed'
    BY <1>3, <1>4, <1>7, <2>3, <2>4, <2>5 DEF Undisturbed
  <2> QED BY <1>2, <1>5, <2>6
<1> QED BY <1>6, <1>7 DEF Adders

LEMMA MoveKeeps ==
  ASSUME IInv, NEW t \in Adders, NEW place \in Pcs, NEW p \in Ptrs, MoveAt(t, place, p),
         place \in {"check", "add", "first", "fillfirst", "tail", "link", "fill"} =>
           k[t] <= Len(Todo(t)),
         place = "clear" => p \in Cells \cup {Nil},
         place \in {"take", "unlink", "free", "tail", "link", "fill"} => p \in Cells,
         place \in {"take", "unlink", "free", "link", "fill"} => p \notin Front,
         place \in {"first", "fillfirst"} => kept = <<>>,
         t \in Runs => place # "idle",
         t = Start =>
           /\ place \notin {"idle", "clear", "take", "unlink", "free", "fill", "fillfirst"}
           /\ pc[Start] \notin {"fill", "fillfirst", "done"}
           /\ Alone /\ place \in {"tail", "link"} => p \in Kept
  PROVE  IInv' /\ Grows
<1>1. GoAt(t, place, p) /\ UNCHANGED <<memory, held, k, lsu, want, kept, up>>
  BY DEF MoveAt, Stay
<1>2. t \in Threads
  BY Apart
<1>3. TypeOK'
  BY <1>1, <1>2, MoveTypes DEF IInv, TypeOK
<1>4. k'[t] = k[t] /\ k[t] >= 1
  BY <1>1 DEF IInv, Places
<1>5. t \in Runs => held'[t] \notin Kept
  BY <1>1 DEF IInv, Behind
<1>6. /\ Places' /\ ConnectedKept' /\ Distinct' /\ NoneInto' /\ Behind'
      /\ Undisturbed'
  BY <1>1, <1>4, <1>5, Moves
<1>7. Grows
  BY <1>1 DEF Grows, memory
<1> QED BY <1>3, <1>6, <1>7 DEF IInv

LEMMA DieKeeps ==
  ASSUME IInv, Die
  PROVE  IInv' /\ Grows
<1>1. UNCHANGED <<head, cells, used, pc, at, held, k, lsu, want, kept>> /\ up' = FALSE
  BY DEF Die, memory, walk
<1>2. TypeOK'
  BY <1>1 DEF IInv, TypeOK
<1>3. NoRunYet' = NoRunYet /\ Kept' = Kept /\ Front' = Front /\ Last' = Last
  BY <1>1 DEF NoRunYet, Kept, Front, Seen, Last
<1>4. Alone' = Alone
  BY <1>1, <1>3 DEF Alone
<1>5. Places' /\ ConnectedKept' /\ Distinct' /\ NoneInto' /\ Behind'
  BY <1>1, <1>3 DEF IInv, Places, ConnectedKept, Distinct, NoneInto, Behind, Todo
<1>6. Undisturbed'
  BY <1>1, <1>3, <1>4 DEF IInv, Undisturbed
<1>7. Grows
  BY <1>1 DEF Grows
<1> QED BY <1>2, <1>5, <1>6, <1>7 DEF IInv

-----------------------------------------------------------------------------
(***************************************************************************)
(* The steps of a run that clears, and of an adder.                        *)
(***************************************************************************)
LEMMA Kinds ==
  ASSUME IInv, NEW t \in Adders
  PROVE  /\ t \in Threads /\ at[t] \in Ptrs /\ held[t] \in Ptrs /\ k[t] \in Nat
         /\ k[t] >= 1 /\ head \in Ptrs /\ head # Wild
         /\ \A c \in Cells : cells[c] \in Entry /\ cells[c].next \in Ptrs
         /\ t # Start => t \in Runs
<1>1. TypeOK /\ t \in Threads
  BY Apart DEF IInv
<1>2. \A c \in Cells : cells[c] \in Entry
  BY <1>1 DEF TypeOK
<1>3. \A c \in Cells : cells[c].next \in Ptrs
  BY <1>2, EntryFields
<1> QED BY <1>1, <1>2, <1>3, Apart DEF TypeOK, IInv, Places, Adders

LEMMA Standing ==
  ASSUME IInv, NEW t \in Adders, up,
         pc[t] \in {"take", "unlink", "free", "tail", "link", "fill"}
  PROVE  at[t] \in Cells
BY Apart DEF IInv, TypeOK

LEMMA BeginStep ==
  ASSUME IInv, NEW t \in Runs, Begin(t)
  PROVE  IInv' /\ Grows
<1>1. t \in Adders /\ t # Start /\ "clear" \in Pcs
  BY Apart DEF Pcs
<1>2. head \in Ptrs /\ head \in Cells \cup {Nil}
  BY <1>1, Kinds DEF IInv, TypeOK
<1>3. MoveAt(t, "clear", head)
  BY DEF Begin
<1> QED BY <1>1, <1>2, <1>3, MoveKeeps

LEMMA ClearStep ==
  ASSUME IInv, NEW t \in Runs, Clear(t)
  PROVE  IInv' /\ Grows
<1>1. t \in Adders /\ t # Start /\ {"clear", "next", "take"} \subseteq Pcs
  BY Apart DEF Pcs
<1>2. at[t] \in Cells \cup {Nil} /\ at[t] \in Ptrs
  BY <1>1, Kinds DEF IInv, Places, Clear
<1>3. CASE Move(t, "next")
  BY <1>1, <1>2, <1>3, MoveKeeps DEF Move
<1>4. CASE NextOf(t) \in Cells /\ IsDynamic(cells[NextOf(t)]) /\ Move(t, "take")
  <2>1. at[t] \in Cells /\ NextOf(t) = cells[at[t]].next
    BY <1>2, <1>4, Apart DEF NextOf
  <2>2. cells[cells[at[t]].next].dynamic
    BY <1>4, <2>1 DEF IsDynamic
  <2>3. at[t] \notin Front
    BY <2>2, KeptFacts DEF IInv
  <2> QED BY <1>1, <1>2, <1>4, <2>1, <2>3, MoveKeeps DEF Move
<1>5. CASE NextOf(t) \in Cells /\ MoveAt(t, "clear", NextOf(t))
  <2>1. NextOf(t) \in Ptrs
    BY <1>5, Apart
  <2> QED BY <1>1, <1>5, <2>1, MoveKeeps
<1>6. CASE Die
  BY <1>6, DieKeeps
<1> QED BY <1>3, <1>4, <1>5, <1>6 DEF Clear

LEMMA NextNetStep ==
  ASSUME IInv, NEW t \in Adders, NextNet(t)
  PROVE  IInv' /\ Grows
<1>1. {"done", "check"} \subseteq Pcs /\ pc[t] = "next"
  BY DEF Pcs, NextNet
<1>2. at[t] \in Ptrs /\ head \in Ptrs /\ k[t] \in Nat /\ Len(Todo(t)) \in Nat
  BY Kinds, RoutingTableAssumption DEF Todo
<1>3. CASE k[t] > Len(Todo(t))
  <2>1. MoveAt(t, "done", at[t])
    BY <1>3 DEF NextNet, Move
  <2> QED BY <1>1, <1>2, <2>1, MoveKeeps
<1>4. CASE ~(k[t] > Len(Todo(t)))
  <2>1. MoveAt(t, "check", head)
    BY <1>4 DEF NextNet
  <2>2. k[t] <= Len(Todo(t))
    BY <1>2, <1>4
  <2> QED BY <1>1, <1>2, <2>1, <2>2, MoveKeeps
<1> QED BY <1>3, <1>4

LEMMA CheckRouteStep ==
  ASSUME IInv, NEW t \in Adders, CheckRoute(t)
  PROVE  IInv' /\ Grows
<1>1. {"next", "check", "add"} \subseteq Pcs /\ pc[t] = "check"
  BY DEF Pcs, CheckRoute
<1>2. /\ t \in Threads /\ at[t] \in Ptrs /\ k[t] \in Nat /\ k[t] >= 1
      /\ k[t] <= Len(Todo(t))
      /\ \A c \in Cells : cells[c].next \in Ptrs
  BY <1>1, Kinds DEF IInv, Places
<1>3. CASE Move(t, "add")
  BY <1>1, <1>2, <1>3, MoveKeeps DEF Move
<1>4. CASE /\ k' = [k EXCEPT ![t] = @ + 1]
           /\ GoAt(t, "next", Nil) /\ UNCHANGED <<memory, held>> /\ Stay
  <2>1. UNCHANGED <<memory, held, lsu, want, kept, up>>
    BY <1>4 DEF Stay
  <2>2. /\ k' \in [Adders -> Nat] /\ k'[t] = k[t] + 1 /\ k'[t] >= 1
        /\ \A s \in Adders : s # t => k'[s] = k[s]
    BY <1>2, <1>4 DEF IInv, TypeOK
  <2>3. TypeOK'
    BY <1>1, <1>2, <1>4, <2>1, <2>2, MoveTypes, Apart DEF IInv, TypeOK
  <2>4. t \in Runs => held'[t] \notin Kept
    BY <2>1 DEF IInv, Behind
  <2>5. /\ Places' /\ ConnectedKept' /\ Distinct' /\ NoneInto' /\ Behind'
        /\ Undisturbed'
    BY <1>1, <1>2, <1>4, <2>1, <2>2, <2>4, Moves, Apart
  <2>6. Grows
    BY <2>1 DEF Grows, memory
  <2> QED BY <2>3, <2>5, <2>6 DEF IInv
<1>5. CASE at[t] \in Cells /\ MoveAt(t, "check", cells[at[t]].next)
  BY <1>1, <1>2, <1>5, MoveKeeps
<1>6. CASE Die
  BY <1>6, DieKeeps
<1> QED BY <1>3, <1>4, <1>5, <1>6 DEF CheckRoute

LEMMA AddStep ==
  ASSUME IInv, NEW t \in Adders, Add(t)
  PROVE  IInv' /\ Grows
<1>1. {"first", "tail"} \subseteq Pcs /\ pc[t] = "add"
  BY DEF Pcs, Add
<1>2. head \in Ptrs /\ head \in Cells \cup {Nil} /\ k[t] <= Len(Todo(t))
  BY <1>1, Kinds DEF IInv, TypeOK, Places
<1>3. kept # <<>> => head \in Kept /\ head \in Cells
  BY KeptFacts DEF IInv
<1>4. CASE head = Nil
  <2>1. MoveAt(t, "first", head)
    BY <1>4 DEF Add
  <2>2. kept = <<>>
    BY <1>3, <1>4, Apart
  <2> QED BY <1>1, <1>2, <2>1, <2>2, MoveKeeps
<1>5. CASE head # Nil
  <2>1. MoveAt(t, "tail", head)
    BY <1>5 DEF Add
  <2>2. t = Start /\ Alone => head \in Kept
    BY <1>1, <1>3, <1>5 DEF IInv, Undisturbed
  <2> QED BY <1>1, <1>2, <1>5, <2>1, <2>2, MoveKeeps
<1> QED BY <1>4, <1>5

LEMMA TailStep ==
  ASSUME IInv, up, NEW t \in Adders, Tail_(t)
  PROVE  IInv' /\ Grows
<1>1. {"link", "tail"} \subseteq Pcs /\ pc[t] = "tail"
  BY DEF Pcs, Tail_
<1>2. /\ at[t] \in Cells /\ at[t] \in Ptrs /\ k[t] <= Len(Todo(t))
      /\ cells[at[t]].next \in Ptrs
  BY <1>1, Kinds, Standing DEF IInv, Places
<1>3. at[t] \in Front => cells[at[t]].next \in Kept /\ cells[at[t]].next \in Cells
  BY KeptFacts DEF IInv
<1>4. t = Start /\ Alone => at[t] \in Kept
  BY <1>1 DEF IInv, Undisturbed
<1>5. CASE cells[at[t]].next = Nil /\ Move(t, "link")
  <2>1. at[t] \notin Front
    BY <1>3, <1>5, Apart
  <2> QED BY <1>1, <1>2, <1>4, <1>5, <2>1, MoveKeeps DEF Move
<1>6. CASE cells[at[t]].next \in Cells /\ MoveAt(t, "tail", cells[at[t]].next)
  <2>1. ASSUME t = Start, Alone PROVE cells[at[t]].next \in Kept
    <3>1. at[t] \in Kept /\ kept # <<>>
      BY <1>4, <2>1 DEF Kept, Seen
    <3>2. cells[Last].next = Nil
      BY <1>1, <2>1, <3>1 DEF IInv, Undisturbed
    <3>3. at[t] # Last
      BY <1>6, <3>2, Apart
    <3>4. at[t] \in Front
      BY <3>1, <3>3, KeptFacts DEF IInv
    <3> QED BY <1>3, <3>4
  <2> QED BY <1>1, <1>2, <1>6, <2>1, MoveKeeps
<1>7. CASE Die
  BY <1>7, DieKeeps
<1> QED BY <1>5, <1>6, <1>7 DEF Tail_

LEMMA TakeStep ==
  ASSUME IInv, up, NEW t \in Runs, Take(t)
  PROVE  IInv' /\ Grows
<1>1. "unlink" \in Pcs /\ pc[t] = "take" /\ t \in Adders /\ t # Start
  BY Apart DEF Pcs, Take
<1>2. /\ t \in Threads /\ at[t] \in Cells /\ at[t] \in Ptrs
      /\ cells[at[t]].next \in Ptrs /\ k[t] \in Nat /\ k[t] >= 1
  BY <1>1, Kinds, Standing
<1>3. at[t] \notin Front
  BY <1>1 DEF IInv, Behind
<1>4. cells[at[t]].next \notin Kept
  BY <1>2, <1>3 DEF IInv, NoneInto
<1>5. /\ held' = [held EXCEPT ![t] = cells[at[t]].next]
      /\ GoAt(t, "unlink", at[t])
      /\ UNCHANGED <<memory, k, lsu, want, kept, up>>
  <2>1. at' = [at EXCEPT ![t] = at[t]]
    BY DEF Take, IInv, TypeOK
  <2> QED BY <2>1 DEF Take, Stay, GoAt
<1>6. /\ held' \in [Threads -> Ptrs] /\ held'[t] \notin Kept
      /\ \A s \in Threads : s # t => held'[s] = held[s]
  BY <1>2, <1>4, <1>5 DEF IInv, TypeOK
<1>7. TypeOK'
  BY <1>1, <1>2, <1>5, <1>6, MoveTypes DEF IInv, TypeOK
<1>8. /\ Places' /\ ConnectedKept' /\ Distinct' /\ NoneInto' /\ Behind'
      /\ Undisturbed'
  BY <1>1, <1>2, <1>3, <1>5, <1>6, Moves
<1>9. Grows
  BY <1>5 DEF Grows, memory
<1> QED BY <1>7, <1>8, <1>9 DEF IInv

(***************************************************************************)
(* Types of an adder's step that changes memory, and the kept routes of    *)
(* one that changes only what is not kept, or a next pointer behind them.  *)
(***************************************************************************)
LEMMA WriteTypes ==
  ASSUME TypeOK, NEW t \in Threads, NEW place \in Pcs, NEW p \in Ptrs,
         GoAt(t, place, p), UNCHANGED <<lsu, want, up>>,
         head' \in Cells \cup {Nil}, cells' \in [Cells -> Entry], used' \subseteq Cells,
         held' \in [Threads -> Ptrs], k' \in [Adders -> Nat], kept' \in Seq(Cells),
         place \in {"take", "unlink", "free", "tail", "link", "fill"} => p \in Cells
  PROVE  TypeOK'
<1>1. /\ pc' \in [Threads -> Pcs] /\ at' \in [Threads -> Ptrs]
      /\ pc'[t] = place /\ at'[t] = p
      /\ \A s \in Threads : s # t => pc'[s] = pc[s] /\ at'[s] = at[s]
  BY Going
<1>2. \A s \in Threads :
        pc'[s] \in {"take", "unlink", "free", "tail", "link", "fill"}
          => at'[s] \in Cells \/ ~up
  BY <1>1 DEF TypeOK
<1> QED BY <1>1, <1>2 DEF TypeOK, Pcs

LEMMA WriteKeeps ==
  ASSUME IInv, kept' = kept, kept # <<>> => head' = head,
         \A c \in Kept : c \in used',
         \A c \in Kept : /\ cells'[c].dest = cells[c].dest
                         /\ cells'[c].dynamic = cells[c].dynamic,
         \A c \in Front : cells'[c].next = cells[c].next,
         \A c \in Cells \ Front : cells'[c].next \notin Kept
  PROVE  ConnectedKept' /\ Distinct' /\ NoneInto'
<1>1. Kept' = Kept /\ Front' = Front
  BY DEF Kept, Front, Seen
<1>2. Len(kept) \in Nat /\ DOMAIN kept = 1 .. Len(kept)
  BY KeptFacts DEF IInv
<1>3. ASSUME NEW i \in DOMAIN kept
      PROVE  /\ kept[i] \in used'
             /\ cells'[kept[i]].dest \in Nets /\ ~cells'[kept[i]].dynamic
             /\ i < Len(kept) => cells'[kept[i]].next = kept[i + 1]
  <2>1. kept[i] \in Kept
    BY DEF Kept, Seen
  <2>2. cells[kept[i]].dest \in Nets /\ ~cells[kept[i]].dynamic
    BY DEF IInv, ConnectedKept
  <2>3. ASSUME i < Len(kept) PROVE cells'[kept[i]].next = kept[i + 1]
    <3>1. i \in 1 .. Len(kept) - 1
      BY <1>2, <2>3
    <3>2. kept[i] \in Front
      BY <3>1 DEF Front
    <3> QED BY <2>3, <3>2 DEF IInv, ConnectedKept
  <2> QED BY <2>1, <2>2, <2>3
<1>4. ConnectedKept'
  BY <1>3 DEF IInv, ConnectedKept
<1>5. Distinct' /\ NoneInto'
  BY <1>1 DEF IInv, Distinct, NoneInto
<1> QED BY <1>4, <1>5

LEMMA UnlinkStep ==
  ASSUME IInv, up, NEW t \in Runs, Unlink(t)
  PROVE  IInv' /\ Grows
<1> DEFINE a == at[t]
           next == cells[a].next
<1>1. "free" \in Pcs /\ pc[t] = "unlink" /\ t \in Adders /\ t # Start
  BY Apart DEF Pcs, Unlink
<1>2. t \in Threads /\ a \in Cells /\ a \in Ptrs /\ k[t] \in Nat /\ k[t] >= 1
  BY <1>1, Kinds, Standing
<1>3. a \notin Front
  BY <1>1 DEF IInv, Behind
<1>4. CASE Die
  BY <1>4, DieKeeps
<1>5. CASE /\ next \in Cells
           /\ cells' = [cells EXCEPT ![a].next = cells[next].next]
           /\ Go(t, "free")
           /\ UNCHANGED <<head, used, at, held, k>> /\ Stay
  <2>1. cells[next].next \in Ptrs
    BY <1>1, <1>5, Kinds
  <2>2. cells \in [Cells -> Entry]
    BY DEF IInv, TypeOK
  <2>3. /\ cells' \in [Cells -> Entry] /\ cells'[a].next = cells[next].next
        /\ cells'[a].dest = cells[a].dest /\ cells'[a].dynamic = cells[a].dynamic
        /\ \A c \in Cells : c # a => cells'[c] = cells[c]
    BY <1>2, <1>5, <2>1, <2>2, NextSet
  <2>4. next \notin Kept
    BY <1>2, <1>3 DEF IInv, NoneInto
  <2>5. cells[next].next \notin Kept
    BY <1>5, <2>4, KeptFacts DEF IInv, NoneInto
  <2>6. GoAt(t, "free", a) /\ UNCHANGED <<head, used, held, k, lsu, want, kept, up>>
    <3>1. at' = [at EXCEPT ![t] = a]
      BY <1>5 DEF IInv, TypeOK
    <3> QED BY <1>5, <3>1 DEF GoAt, Stay
  <2>7. TypeOK'
    BY <1>1, <1>2, <2>3, <2>6, WriteTypes DEF IInv, TypeOK
  <2>8. /\ \A c \in Kept : c \in used /\ c \in Cells
        /\ Front \subseteq Kept
    BY KeptFacts DEF IInv
  <2>9. /\ \A c \in Kept : /\ cells'[c].dest = cells[c].dest
                           /\ cells'[c].dynamic = cells[c].dynamic
        /\ \A c \in Front : cells'[c].next = cells[c].next
        /\ \A c \in Cells \ Front : cells'[c].next \notin Kept
    BY <1>3, <2>3, <2>5, <2>8 DEF IInv, NoneInto
  <2>10. ConnectedKept' /\ Distinct' /\ NoneInto'
    BY <2>6, <2>8, <2>9, WriteKeeps
  <2>11. held'[t] \notin Kept /\ k'[t] >= 1
    BY <1>2, <2>6 DEF IInv, Behind
  <2>12. Places' /\ Behind'
    BY <1>1, <1>2, <1>3, <2>6, <2>11, Whereabouts
  <2>13. pc'[t] # "idle"
    BY <1>1, <1>2, <2>6, Going DEF IInv
  <2>14. Undisturbed'
    BY <2>13, Disturbed
  <2>15. Grows
    BY <2>6, <2>9 DEF Grows
  <2> QED BY <2>7, <2>10, <2>12, <2>14, <2>15 DEF IInv
<1> QED BY <1>4, <1>5 DEF Unlink

LEMMA FreeStep ==
  ASSUME IInv, up, NEW t \in Runs, Free(t)
  PROVE  IInv' /\ Grows
<1> DEFINE h == held[t]
<1>1. "clear" \in Pcs /\ pc[t] = "free" /\ t \in Adders /\ t # Start
  BY Apart DEF Pcs, Free
<1>2. t \in Threads /\ at[t] \in Cells /\ at[t] \in Ptrs /\ k[t] \in Nat /\ k[t] >= 1
  BY <1>1, Kinds, Standing
<1>3. CASE Die
  BY <1>3, DieKeeps
<1>4. CASE Move(t, "clear")
  BY <1>1, <1>2, <1>4, MoveKeeps DEF Move
<1>5. CASE /\ h \in used
           /\ used' = used \ {h}
           /\ cells' = [cells EXCEPT ![h].dest = Junk]
           /\ held' = [held EXCEPT ![t] = Nil]
           /\ Go(t, "clear")
           /\ UNCHANGED <<head, at, k>> /\ Stay
  <2>1. h \in Cells /\ h \notin Kept
    BY <1>5 DEF IInv, TypeOK, Behind
  <2>2. cells \in [Cells -> Entry] /\ cells[h] \in Entry
    BY <2>1 DEF IInv, TypeOK
  <2>3. [cells[h] EXCEPT !.dest = Junk] \in Entry
        /\ [cells[h] EXCEPT !.dest = Junk].next = cells[h].next
    BY <2>2, EntryFields
  <2>4. cells' = [cells EXCEPT ![h] = [cells[h] EXCEPT !.dest = Junk]]
    BY <1>5
  <2>5. /\ cells' \in [Cells -> Entry]
        /\ \A c \in Cells : c # h => cells'[c] = cells[c]
        /\ cells'[h].next = cells[h].next
    BY <2>1, <2>2, <2>3, <2>4
  <2>6. GoAt(t, "clear", at[t]) /\ UNCHANGED <<head, k, lsu, want, kept, up>>
    <3>1. at' = [at EXCEPT ![t] = at[t]]
      BY <1>5 DEF IInv, TypeOK
    <3> QED BY <1>5, <3>1 DEF GoAt, Stay
  <2>7. /\ held' \in [Threads -> Ptrs] /\ held'[t] = Nil
        /\ \A s \in Threads : s # t => held'[s] = held[s]
    BY <1>2, <1>5, Apart DEF IInv, TypeOK
  <2>8. used' \subseteq Cells
    BY <1>5 DEF IInv, TypeOK
  <2>9. TypeOK'
    BY <1>1, <1>2, <2>5, <2>6, <2>7, <2>8, WriteTypes DEF IInv, TypeOK
  <2>10. /\ \A c \in Kept : c \in used /\ c \in Cells
         /\ Front \subseteq Kept
    BY KeptFacts DEF IInv
  <2>11. \A c \in Kept : c \in used'
    BY <1>5, <2>1, <2>10
  <2>12. /\ \A c \in Kept : /\ cells'[c].dest = cells[c].dest
                            /\ cells'[c].dynamic = cells[c].dynamic
         /\ \A c \in Front : cells'[c].next = cells[c].next
         /\ \A c \in Cells \ Front : cells'[c].next \notin Kept
    BY <2>1, <2>5, <2>10 DEF IInv, NoneInto
  <2>13. ConnectedKept' /\ Distinct' /\ NoneInto'
    BY <2>6, <2>11, <2>12, WriteKeeps
  <2>14. held'[t] \notin Kept /\ k'[t] >= 1
    BY <1>2, <2>6, <2>7, <2>10, Apart
  <2>15. Places' /\ Behind'
    BY <1>1, <1>2, <2>6, <2>7, <2>14, Whereabouts
  <2>16. pc'[t] # "idle"
    BY <1>1, <1>2, <2>6, Going DEF IInv
  <2>17. Undisturbed'
    BY <2>16, Disturbed
  <2>18. Grows
    BY <2>6, <2>12 DEF Grows
  <2> QED BY <2>9, <2>13, <2>15, <2>17, <2>18 DEF IInv
<1> QED BY <1>3, <1>4, <1>5 DEF Free

LEMMA LeftoverFields ==
  ASSUME IInv, NEW c \in Cells, NEW e \in Leftover(c)
  PROVE  e \in Entry /\ e.next \in {cells[c].next, Wild}
<1> DEFINE D == {Junk}
           B == BOOLEAN
           P == {cells[c].next, Wild}
<1>1. e \in [dest : D, dynamic : B, next : P]
  BY DEF Leftover
<1>2. cells[c] \in Entry
  BY DEF IInv, TypeOK
<1>3. D \subseteq Nets \cup {Junk} /\ P \subseteq Ptrs
  BY <1>2, EntryFields, Apart
<1> HIDE DEF D, B, P
<1>4. /\ e.dest \in D /\ e.dynamic \in B /\ e.next \in P
      /\ e = [dest |-> e.dest, dynamic |-> e.dynamic, next |-> e.next]
  BY <1>1
<1>5. /\ e.dest \in Nets \cup {Junk} /\ e.dynamic \in BOOLEAN /\ e.next \in Ptrs
      /\ e.next \in {cells[c].next, Wild}
  BY <1>3, <1>4 DEF B, P
<1> QED BY <1>4, <1>5 DEF Entry

LEMMA LinkFirstStep ==
  ASSUME IInv, up, NEW t \in Adders, LinkFirst(t)
  PROVE  IInv' /\ Grows
<1>1. "fillfirst" \in Pcs /\ pc[t] = "first"
  BY DEF Pcs, LinkFirst
<1>2. /\ t \in Threads /\ at[t] \in Ptrs /\ k[t] \in Nat /\ k[t] >= 1
      /\ k[t] <= Len(Todo(t)) /\ kept = <<>>
  BY <1>1, Kinds DEF IInv, Places, Behind
<1>0. PICK c \in Cells : \E e \in Leftover(c) :
        Allocate(c) /\ head' = c /\ cells' = [cells EXCEPT ![c] = e]
  BY DEF LinkFirst
<1>3. PICK e \in Leftover(c) :
        Allocate(c) /\ head' = c /\ cells' = [cells EXCEPT ![c] = e]
  BY <1>0
<1>4. e \in Entry /\ e.next \in {cells[c].next, Wild}
  BY LeftoverFields
<1>5. used' = used \cup {c}
  BY <1>3 DEF Allocate
<1>6. /\ cells' \in [Cells -> Entry] /\ cells'[c] = e
      /\ \A d \in Cells : d # c => cells'[d] = cells[d]
  BY <1>3, <1>4 DEF IInv, TypeOK
<1>7. GoAt(t, "fillfirst", at[t]) /\ UNCHANGED <<held, k, lsu, want, kept, up>>
  <2>1. at' = [at EXCEPT ![t] = at[t]]
    BY DEF LinkFirst, IInv, TypeOK
  <2> QED BY <2>1 DEF LinkFirst, GoAt, Stay
<1>8. TypeOK'
  BY <1>1, <1>2, <1>3, <1>5, <1>6, <1>7, WriteTypes DEF IInv, TypeOK
<1>9. Kept = {} /\ Front \subseteq Kept
  BY <1>2, KeptFacts DEF IInv, Kept, Seen
<1>10. ConnectedKept' /\ Distinct' /\ NoneInto'
  BY <1>2, <1>7, <1>9, WriteKeeps
<1>11. Places' /\ Behind'
  BY <1>1, <1>2, <1>7, <1>9, Whereabouts
<1>12. /\ pc'[t] = "fillfirst"
       /\ \A s \in Threads : s # t => pc'[s] = pc[s] /\ at'[s] = at[s]
  BY <1>1, <1>2, <1>7, Going DEF IInv
<1>13. Grows
  BY <1>2, <1>7, <1>9 DEF Grows
<1>14. CASE t \in Runs
  BY <1>8, <1>10, <1>11, <1>12, <1>13, <1>14, Disturbed DEF IInv
<1>15. CASE t = Start
  <2>1. NoRunYet' <=> NoRunYet
    BY <1>12, <1>15, Apart DEF NoRunYet
  <2>2. NoRunYet' => \A r \in Runs : held'[r] = Nil
    BY <1>7, <2>1 DEF IInv, Undisturbed
  <2>3. ASSUME Alone' PROVE \A d \in Cells : cells'[d].next \in {Nil, Wild}
    <3>1. Alone
      BY <1>1, <1>15, <2>1, <2>3 DEF Alone
    <3>2. \A d \in Cells : cells[d].next \in {Nil, Wild}
      BY <1>9, <3>1 DEF IInv, Undisturbed
    <3> QED BY <1>4, <1>6, <3>2
  <2>4. head' \in used' /\ kept' = <<>> /\ pc'[Start] = "fillfirst"
    BY <1>2, <1>3, <1>5, <1>7, <1>12, <1>15
  <2>5. Undisturbed'
    BY <2>2, <2>3, <2>4 DEF Undisturbed
  <2> QED BY <1>8, <1>10, <1>11, <1>13, <2>5 DEF IInv
<1> QED BY <1>14, <1>15 DEF Adders

LEMMA LinkStep ==
  ASSUME IInv, up, NEW t \in Adders, Link(t)
  PROVE  IInv' /\ Grows
<1> DEFINE a == at[t]
<1>1. "fill" \in Pcs /\ pc[t] = "link"
  BY DEF Pcs, Link
<1>2. /\ t \in Threads /\ a \in Cells /\ a \in Ptrs /\ k[t] \in Nat /\ k[t] >= 1
      /\ k[t] <= Len(Todo(t)) /\ a \notin Front
  BY <1>1, Kinds, Standing DEF IInv, Places, Behind
<1>0. PICK c \in Cells : \E e \in Leftover(c) :
        Allocate(c) /\ cells' = [cells EXCEPT ![c] = e, ![a].next = c]
  BY DEF Link
<1>3. PICK e \in Leftover(c) :
        Allocate(c) /\ cells' = [cells EXCEPT ![c] = e, ![a].next = c]
  BY <1>0
<1>4. e \in Entry /\ e.next \in {cells[c].next, Wild}
  BY LeftoverFields
<1>5. used' = used \cup {c} /\ c \notin used
  BY <1>3 DEF Allocate
<1> DEFINE f == [cells EXCEPT ![c] = e]
<1>6. cells' = [f EXCEPT ![a].next = c]
  BY <1>3
<1>7. /\ f \in [Cells -> Entry] /\ f[c] = e
      /\ \A d \in Cells : d # c => f[d] = cells[d]
  BY <1>3, <1>4 DEF IInv, TypeOK
<1>8. c \in Ptrs
  BY <1>3, Apart
<1> HIDE DEF f
<1>9. /\ cells' \in [Cells -> Entry]
      /\ cells'[a].next = c /\ cells'[a].dest = f[a].dest
      /\ cells'[a].dynamic = f[a].dynamic
      /\ \A d \in Cells : d # a => cells'[d] = f[d]
  BY <1>2, <1>6, <1>7, <1>8, NextSet
<1>10. /\ \A d \in Kept : d \in used /\ d \in Cells
       /\ Front \subseteq Kept
  BY KeptFacts DEF IInv
<1>11. c \notin Kept
  BY <1>5, <1>10
<1>12. \A d \in Cells : d # a => \/ cells'[d].next = cells[d].next
                                 \/ cells'[d].next \in {cells[c].next, Wild}
  BY <1>4, <1>7, <1>9
<1>13. GoAt(t, "fill", a) /\ UNCHANGED <<head, held, k, lsu, want, kept, up>>
  <2>1. at' = [at EXCEPT ![t] = a]
    BY DEF Link, IInv, TypeOK
  <2> QED BY <2>1 DEF Link, GoAt, Stay
<1>14. used' \subseteq Cells
  BY <1>3, <1>5 DEF IInv, TypeOK
<1>15. TypeOK'
  BY <1>1, <1>2, <1>9, <1>13, <1>14, WriteTypes DEF IInv, TypeOK
<1>16. /\ \A d \in Kept : /\ cells'[d].dest = cells[d].dest
                          /\ cells'[d].dynamic = cells[d].dynamic
       /\ \A d \in Front : cells'[d].next = cells[d].next
  BY <1>2, <1>7, <1>9, <1>10, <1>11
<1>17. \A d \in Cells \ Front : cells'[d].next \notin Kept
  <2>1. c \in Cells \ Front /\ Wild \notin Kept
    BY <1>10, <1>11, Apart
  <2> QED BY <1>9, <1>11, <1>12, <2>1 DEF IInv, NoneInto
<1>18. ConnectedKept' /\ Distinct' /\ NoneInto'
  BY <1>5, <1>10, <1>13, <1>16, <1>17, WriteKeeps
<1>19. t \in Runs => held'[t] \notin Kept
  BY <1>13 DEF IInv, Behind
<1>20. Places' /\ Behind'
  BY <1>1, <1>2, <1>13, <1>19, Whereabouts
<1>21. /\ pc'[t] = "fill" /\ at'[t] = a
       /\ \A s \in Threads : s # t => pc'[s] = pc[s] /\ at'[s] = at[s]
  BY <1>1, <1>2, <1>13, Going DEF IInv
<1>22. Grows
  BY <1>13, <1>16 DEF Grows
<1>23. CASE t \in Runs
  BY <1>15, <1>18, <1>20, <1>22, <1>21, <1>23, Disturbed DEF IInv
<1>24. CASE t = Start
  <2>1. NoRunYet' <=> NoRunYet
    BY <1>21, <1>24, Apart DEF NoRunYet
  <2>2. NoRunYet' => \A r \in Runs : held'[r] = Nil
    BY <1>13, <2>1 DEF IInv, Undisturbed
  <2>3. Kept' = Kept /\ Last' = Last /\ kept' = kept
    BY <1>13 DEF Kept, Seen, Last
  <2>4. ASSUME Alone'
        PROVE  /\ a \in Kept /\ kept # <<>> /\ a = Last
               /\ \A d \in Cells \ Kept : cells'[d].next \in {Nil, Wild}
    <3>1. Alone
      BY <1>1, <1>24, <2>1, <2>4 DEF Alone
    <3>2. a \in Kept /\ kept # <<>>
      BY <1>1, <1>24, <3>1 DEF IInv, Undisturbed, Kept, Seen
    <3>3. a = Last
      BY <1>2, <3>2, KeptFacts DEF IInv
    <3>4. \A d \in Cells \ Kept : cells[d].next \in {Nil, Wild}
      BY <3>1 DEF IInv, Undisturbed
    <3>5. \A d \in Cells \ Kept : cells'[d].next \in {Nil, Wild}
      BY <1>11, <1>12, <3>2, <3>4
    <3> QED BY <3>2, <3>3, <3>5
  <2>5. Alone' => cells'[Last].next \in used' \ Kept
    BY <1>5, <1>9, <1>11, <2>4
  <2>6. Undisturbed'
    BY <1>21, <1>24, <2>2, <2>3, <2>4, <2>5 DEF Undisturbed
  <2> QED BY <1>15, <1>18, <1>20, <1>22, <2>6 DEF IInv
<1> QED BY <1>23, <1>24 DEF Adders

LEMMA NewEntryFields ==
  ASSUME IInv, NEW t \in Adders, k[t] <= Len(Todo(t))
  PROVE  /\ NewEntry(t) \in Entry /\ NewEntry(t).next = Nil
         /\ NewEntry(t).dest \in Nets /\ (NewEntry(t).dynamic <=> t # Start)
<1>1. k[t] \in Nat /\ k[t] >= 1
  BY Kinds
<1>2. Todo(t)[k[t]] \in Nets
  BY <1>1, TodoNet
<1>3. Nil \in Ptrs /\ (t # Start) \in BOOLEAN
  BY Apart
<1> QED BY <1>2, <1>3 DEF NewEntry, Entry

(***************************************************************************)
(* The start-up thread adds a connected route before any run: it has just  *)
(* been linked behind the kept ones, and is one of them from now on.       *)
(***************************************************************************)
LEMMA FillKept ==
  ASSUME IInv, NoRunYet, NEW c \in Cells, NEW e \in Entry,
         pc[Start] \in {"fill", "fillfirst"}, at[Start] \in Ptrs,
         c = IF pc[Start] = "fill" THEN cells[at[Start]].next ELSE head,
         e.next = Nil, e.dest \in Nets, ~e.dynamic,
         cells' = [cells EXCEPT ![c] = e], kept' = Append(kept, c),
         k' = [k EXCEPT ![Start] = @ + 1],
         GoAt(Start, "next", Nil), UNCHANGED <<head, used, held>>
  PROVE  /\ Places' /\ ConnectedKept' /\ Distinct' /\ NoneInto' /\ Behind'
         /\ Undisturbed' /\ kept' \in Seq(Cells)
<1>1. Alone /\ Start \in Threads /\ Start \in Adders
  BY Apart DEF Alone
<1>2. /\ Len(kept) \in Nat /\ DOMAIN kept = 1 .. Len(kept)
      /\ \A i \in DOMAIN kept : kept[i] \in Cells /\ kept[i] \in Kept
      /\ kept \in Seq(Cells) /\ Front \subseteq Kept /\ Kept \subseteq Cells
  BY KeptFacts DEF IInv, TypeOK
<1> DEFINE n == Len(kept)
<1>3. /\ kept' \in Seq(Cells) /\ Len(kept') = n + 1 /\ DOMAIN kept' = 1 .. n + 1
      /\ kept'[n + 1] = c /\ \A i \in 1 .. n : kept'[i] = kept[i]
  BY <1>2
<1>4. /\ cells'[c] = e /\ \A d \in Cells : d # c => cells'[d] = cells[d]
  BY DEF IInv, TypeOK
<1>5. /\ "next" \in Pcs /\ Nil \in Ptrs
  BY Apart DEF Pcs
<1>6. /\ pc'[Start] = "next" /\ at'[Start] = Nil
      /\ \A s \in Threads : s # Start => pc'[s] = pc[s] /\ at'[s] = at[s]
  BY <1>1, <1>5, Going DEF IInv
<1>7. /\ \A d \in Cells \ Kept : cells[d].next \in {Nil, Wild}
      /\ kept = <<>> => c \in used /\ c = head
      /\ kept # <<>> => /\ c \in used \ Kept /\ head = kept[1]
                        /\ cells[Last].next = c
  <2>1. CASE kept = <<>>
    <3>1. head \in Cells \cup {Nil}
      BY DEF IInv, TypeOK
    <3>2. pc[Start] = "fillfirst"
      <4>1. ASSUME pc[Start] = "fill" PROVE at[Start] \in Kept
        BY <1>1, <4>1 DEF IInv, Undisturbed
      <4> QED BY <2>1, <4>1 DEF Kept, Seen
    <3> QED BY <1>1, <2>1, <3>2 DEF IInv, Undisturbed
  <2>2. CASE kept # <<>>
    <3>1. pc[Start] = "fill"
      BY <1>1, <2>2 DEF IInv, Behind
    <3>2. at[Start] \in Kept /\ at[Start] \notin Front
      BY <1>1, <3>1 DEF IInv, Undisturbed, Behind
    <3>3. at[Start] = Last
      BY <2>2, <3>2, KeptFacts DEF IInv
    <3> QED BY <1>1, <2>2, <3>1, <3>3 DEF IInv, Undisturbed, ConnectedKept
  <2> QED BY <2>1, <2>2
<1>8. c \notin Kept
  BY <1>7 DEF Kept, Seen
<1>9. n = 0 <=> kept = <<>>
  BY <1>2, EmptySeq
<1> HIDE DEF n
<1>10. n \in Nat /\ DOMAIN kept = 1 .. n
  BY <1>2 DEF n
<1>11. Kept' = Kept \cup {c}
  <2>1. ASSUME NEW i \in 1 .. n + 1 PROVE kept'[i] \in Kept \cup {c}
    <3>1. i = n + 1 \/ i \in 1 .. n
      BY <1>10
    <3> QED BY <1>2, <1>3, <1>10, <3>1
  <2>2. ASSUME NEW i \in 1 .. n PROVE kept[i] \in Kept'
    <3>1. i \in 1 .. n + 1
      BY <1>10
    <3> QED BY <1>3, <3>1 DEF Kept, Seen
  <2>3. n + 1 \in 1 .. n + 1
    BY <1>10
  <2>4. c \in Kept'
    BY <1>3, <2>3 DEF Kept, Seen
  <2>5. Kept' \subseteq Kept \cup {c}
    BY <1>3, <2>1 DEF Kept, Seen
  <2>6. Kept \subseteq Kept'
    BY <1>10, <2>2 DEF Kept, Seen
  <2> QED BY <2>4, <2>5, <2>6
<1>12. Front' = Kept
  <2>1. Len(kept') - 1 = n
    BY <1>3, <1>10
  <2>2. Front' = {kept'[i] : i \in 1 .. n}
    BY <2>1 DEF Front
  <2>3. Front' = {kept[i] : i \in 1 .. n}
    BY <1>3, <2>2
  <2> QED BY <1>10, <2>3 DEF Kept, Seen
<1>13. Last' = c
  BY <1>3 DEF Last
<1>14. ConnectedKept'
  <2>1. head' = kept'[1]
    <3>1. CASE n = 0
      BY <1>3, <1>7, <1>9, <3>1
    <3>2. CASE n # 0
      <4>1. 1 \in 1 .. n
        BY <1>10, <3>2
      <4> QED BY <1>3, <1>7, <1>9, <3>2, <4>1
    <3> QED BY <3>1, <3>2
  <2>2. ASSUME NEW i \in 1 .. n + 1
        PROVE  /\ kept'[i] \in used'
               /\ cells'[kept'[i]].dest \in Nets /\ ~cells'[kept'[i]].dynamic
               /\ i < n + 1 => cells'[kept'[i]].next = kept'[i + 1]
    <3>1. CASE i = n + 1
      <4>1. c \in used
        BY <1>7
      <4>2. ~(i < n + 1)
        BY <1>10, <3>1
      <4> QED BY <1>3, <1>4, <3>1, <4>1, <4>2
    <3>2. CASE i # n + 1
      <4>1. i \in 1 .. n /\ i + 1 \in 1 .. n + 1
        BY <1>10, <3>2
      <4>2. kept'[i] = kept[i] /\ kept[i] \in Kept /\ kept[i] \in Cells
        BY <1>2, <1>3, <1>10, <4>1
      <4>3. cells'[kept[i]] = cells[kept[i]]
        BY <1>4, <1>8, <4>2
      <4>4. /\ kept[i] \in used /\ cells[kept[i]].dest \in Nets
            /\ ~cells[kept[i]].dynamic
        BY <1>10, <4>1 DEF IInv, ConnectedKept
      <4>5. cells[kept[i]].next = kept'[i + 1]
        <5>1. CASE i = n
          <6>1. kept # <<>> /\ kept[i] = Last
            BY <1>9, <4>1, <5>1, <1>10 DEF Last, n
          <6> QED BY <1>3, <1>7, <5>1, <6>1
        <5>2. CASE i # n
          <6>1. i < n /\ i + 1 \in 1 .. n
            BY <1>10, <4>1, <5>2
          <6>2. cells[kept[i]].next = kept[i + 1]
            BY <1>10, <4>1, <6>1 DEF IInv, ConnectedKept, n
          <6> QED BY <1>3, <6>1, <6>2
        <5> QED BY <5>1, <5>2
      <4> QED BY <4>2, <4>3, <4>4, <4>5
    <3> QED BY <3>1, <3>2
  <2> QED BY <1>3, <2>1, <2>2 DEF ConnectedKept
<1>15. Distinct'
  <2>1. ASSUME NEW i \in 1 .. n + 1, NEW j \in 1 .. n + 1, kept'[i] = kept'[j]
        PROVE  i = j
    <3>1. \A m \in 1 .. n + 1 : m = n + 1 \/ m \in 1 .. n
      BY <1>10
    <3>2. \A m \in 1 .. n : kept'[m] \in Kept /\ kept'[m] # c
      BY <1>2, <1>3, <1>8, <1>10
    <3>3. CASE i \in 1 .. n /\ j \in 1 .. n
      BY <1>3, <1>10, <2>1, <3>3 DEF IInv, Distinct
    <3>4. CASE i = n + 1 \/ j = n + 1
      BY <1>3, <2>1, <3>1, <3>2, <3>4
    <3> QED BY <3>1, <3>3, <3>4
  <2> QED BY <1>3, <2>1 DEF Distinct
<1>16. NoneInto'
  <2>1. ASSUME NEW d \in Cells \ Kept PROVE cells'[d].next \in {Nil, Wild}
    BY <1>4, <1>7
  <2>2. Nil \notin Kept \cup {c} /\ Wild \notin Kept \cup {c}
    BY <1>2, Apart
  <2> QED BY <1>11, <1>12, <2>1, <2>2 DEF NoneInto
<1>17. \A r \in Runs : pc'[r] = "idle" /\ held'[r] = Nil /\ r # Start
  BY <1>6, Apart DEF NoRunYet, IInv, Undisturbed
<1>18. ASSUME NEW s \in Adders, s # Start
       PROVE  /\ s \in Runs /\ pc'[s] = "idle" /\ k'[s] = k[s] /\ k[s] >= 1
  BY <1>17, <1>18 DEF Adders, IInv, TypeOK, Places
<1>19. k'[Start] >= 1
  <2>1. k[Start] \in Nat /\ k'[Start] = k[Start] + 1
    BY <1>1 DEF IInv, TypeOK
  <2> QED BY <2>1
<1>20. Places'
  BY <1>6, <1>18, <1>19 DEF Places
<1>21. Behind'
  <2>1. Nil \notin Kept'
    BY <1>2, <1>11, Apart
  <2> QED BY <1>6, <1>17, <1>18, <2>1 DEF Behind
<1>22. Undisturbed'
  <2>1. \A d \in Cells \ Kept' : cells'[d].next \in {Nil, Wild}
    BY <1>4, <1>7, <1>11
  <2>2. kept' # <<>>
    BY <1>3, <1>10
  <2>3. cells'[Last'].next = Nil
    BY <1>4, <1>13
  <2> QED BY <1>6, <1>17, <2>1, <2>2, <2>3 DEF Undisturbed
<1> QED BY <1>3, <1>14, <1>15, <1>16, <1>20, <1>21, <1>22

LEMMA FillStep ==
  ASSUME IInv, up, NEW t \in Adders, Fill(t)
  PROVE  IInv' /\ Grows
<1> DEFINE c == IF pc[t] = "fill" THEN cells[at[t]].next ELSE head
           e == NewEntry(t)
<1>1. "next" \in Pcs /\ pc[t] \in {"fill", "fillfirst"}
  BY DEF Pcs, Fill
<1>2. /\ t \in Threads /\ at[t] \in Ptrs /\ k[t] \in Nat /\ k[t] >= 1 /\ Nil \in Ptrs
      /\ k[t] <= Len(Todo(t))
  BY <1>1, Kinds, Apart DEF IInv, Places
<1>3. e \in Entry /\ e.next = Nil /\ e.dest \in Nets /\ (e.dynamic <=> t # Start)
  BY <1>2, NewEntryFields
<1>4. CASE Die
  BY <1>4, DieKeeps
<1>5. CASE /\ c \in Cells /\ cells' = [cells EXCEPT ![c] = e]
           /\ kept' = IF t = Start /\ NoRunYet THEN Append(kept, c) ELSE kept
           /\ k' = [k EXCEPT ![t] = @ + 1]
           /\ GoAt(t, "next", Nil)
           /\ UNCHANGED <<head, used, held, lsu, want, up>>
  <2>1. /\ k' \in [Adders -> Nat] /\ k'[t] = k[t] + 1 /\ k'[t] >= 1
        /\ \A s \in Adders : s # t => k'[s] = k[s]
    BY <1>2, <1>5 DEF IInv, TypeOK
  <2>2. /\ c \in Cells
        /\ cells' \in [Cells -> Entry] /\ cells'[c] = e
        /\ \A d \in Cells : d # c => cells'[d] = cells[d]
    BY <1>3, <1>5 DEF IInv, TypeOK
  <2>3. c \notin Kept
    <3>1. CASE pc[t] = "fill"
      <4>1. at[t] \in Cells /\ at[t] \notin Front
        BY <3>1, Standing DEF IInv, Behind
      <4> QED BY <3>1, <4>1 DEF IInv, NoneInto
    <3>2. CASE pc[t] = "fillfirst"
      BY <3>2 DEF IInv, Behind, Kept, Seen
    <3> QED BY <1>1, <3>1, <3>2
  <2>4. CASE t = Start /\ NoRunYet
    <3>1. kept' = Append(kept, c)
      BY <1>5, <2>4
    <3>2. /\ Places' /\ ConnectedKept' /\ Distinct' /\ NoneInto' /\ Behind'
          /\ Undisturbed' /\ kept' \in Seq(Cells)
      BY <1>1, <1>2, <1>3, <1>5, <2>2, <2>4, <3>1, FillKept
    <3>3. TypeOK'
      BY <1>1, <1>2, <1>5, <2>1, <2>2, <3>2, WriteTypes DEF IInv, TypeOK
    <3>4. Grows
      <4>1. \A d \in Kept : cells'[d] = cells[d]
        BY <2>2, <2>3, KeptFacts DEF IInv
      <4>2. kept \in Seq(Cells)
        BY DEF IInv, TypeOK
      <4>3. \A i \in DOMAIN kept : i \in DOMAIN kept' /\ kept'[i] = kept[i]
        BY <2>2, <3>1, <4>2
      <4> QED BY <4>1, <4>3 DEF Grows
    <3> QED BY <3>2, <3>3, <3>4 DEF IInv
  <2>5. CASE ~(t = Start /\ NoRunYet)
    <3>1. kept' = kept /\ kept' \in Seq(Cells)
      BY <1>5, <2>5 DEF IInv, TypeOK
    <3>2. TypeOK'
      BY <1>1, <1>2, <1>5, <2>1, <2>2, <3>1, WriteTypes DEF IInv, TypeOK
    <3>3. /\ \A d \in Kept : d \in used /\ d \in Cells
          /\ Front \subseteq Kept
      BY KeptFacts DEF IInv
    <3>4. \A d \in Kept : cells'[d] = cells[d]
      BY <2>2, <2>3, <3>3
    <3>5. \A d \in Cells \ Front : cells'[d].next \notin Kept
      BY <1>3, <2>2, <3>3, Apart DEF IInv, NoneInto
    <3>6. ConnectedKept' /\ Distinct' /\ NoneInto'
      BY <1>5, <3>1, <3>3, <3>4, <3>5, WriteKeeps
    <3>7. t \in Runs => held'[t] \notin Kept
      BY <1>5 DEF IInv, Behind
    <3>8. Places' /\ Behind'
      BY <1>1, <1>2, <1>5, <2>1, <3>1, <3>7, Whereabouts
    <3>9. /\ pc'[t] = "next"
          /\ \A s \in Threads : s # t => pc'[s] = pc[s] /\ at'[s] = at[s]
      BY <1>1, <1>2, <1>5, Going DEF IInv
    <3>10. ~NoRunYet'
      BY <2>5, <3>9, Apart DEF NoRunYet, Adders
    <3>11. Undisturbed'
      BY <3>10 DEF Undisturbed, Alone
    <3>12. Grows
      BY <3>1, <3>4 DEF Grows
    <3> QED BY <3>2, <3>6, <3>8, <3>11, <3>12 DEF IInv
  <2> QED BY <2>4, <2>5
<1> QED BY <1>4, <1>5 DEF Fill

-----------------------------------------------------------------------------
(***************************************************************************)
(* The readers: send_lsu and the IP handler change nothing of the adders'. *)
(***************************************************************************)
LEMMA Reads ==
  ASSUME IInv, NEW t \in {Lsu, Forward}, NEW place \in Pcs \ {"take", "unlink", "free",
         "tail", "link", "fill"}, NEW p \in Ptrs,
         GoAt(t, place, p), UNCHANGED <<memory, k, kept, up>>,
         held' \in [Threads -> Ptrs], \A s \in Threads : s # t => held'[s] = held[s],
         lsu' \in [counted : Nat, filled : Nat, kept : Nat, settled : BOOLEAN],
         want' \in [net : Nets \cup {Junk}, due : BOOLEAN]
  PROVE  /\ IInv' /\ Grows
         /\ pc'[t] = place /\ at'[t] = p
         /\ \A s \in Threads : s # t => pc'[s] = pc[s] /\ at'[s] = at[s]
<1>1. t \in Threads /\ place \in Pcs
  BY Apart
<1>2. TypeOK'
  BY <1>1, MoveTypes DEF IInv, TypeOK
<1>3. /\ pc'[t] = place /\ at'[t] = p
      /\ \A s \in Threads : s # t => pc'[s] = pc[s] /\ at'[s] = at[s]
  BY <1>1, Going DEF IInv
<1>4. \A s \in Adders : pc'[s] = pc[s] /\ at'[s] = at[s] /\ held'[s] = held[s]
  BY <1>3, Apart
<1>5. head' = head /\ cells' = cells /\ used' = used /\ kept' = kept /\ k' = k
  BY DEF memory
<1>6. Kept' = Kept /\ Front' = Front /\ Last' = Last
  BY <1>5 DEF Kept, Front, Seen, Last
<1>7. \A r \in Runs : r \in Adders
  BY Apart
<1>8. NoRunYet' = NoRunYet
  BY <1>4, <1>7 DEF NoRunYet
<1>9. Start \in Adders
  BY Apart
<1>10. Alone' = Alone
  BY <1>4, <1>8, <1>9 DEF Alone
<1>11. ConnectedKept' /\ Distinct' /\ NoneInto'
  BY <1>5, <1>6 DEF IInv, ConnectedKept, Distinct, NoneInto
<1>12. Places' /\ Behind'
  BY <1>4, <1>5, <1>6, <1>7, <1>9 DEF IInv, Places, Behind, Todo
<1>13. Undisturbed'
  <2>1. NoRunYet' => \A r \in Runs : held'[r] = Nil
    BY <1>4, <1>7, <1>8 DEF IInv, Undisturbed
  <2>2. pc'[Start] = pc[Start] /\ at'[Start] = at[Start]
    BY <1>4, <1>9
  <2> QED BY <1>5, <1>6, <1>10, <2>1, <2>2 DEF IInv, Undisturbed
<1>14. Grows
  BY <1>5 DEF Grows
<1> QED BY <1>2, <1>3, <1>11, <1>12, <1>13, <1>14 DEF IInv

LEMMA LsuFields ==
  ASSUME NEW n \in Nat, lsu \in [counted : Nat, filled : Nat, kept : Nat, settled : BOOLEAN]
  PROVE  LET c == [lsu EXCEPT !.counted = n]
             f == [lsu EXCEPT !.filled = n] IN
         /\ lsu.counted \in Nat /\ lsu.filled \in Nat /\ lsu.kept \in Nat
         /\ c \in [counted : Nat, filled : Nat, kept : Nat, settled : BOOLEAN]
         /\ c.counted = n /\ c.filled = lsu.filled /\ c.kept = lsu.kept
         /\ f \in [counted : Nat, filled : Nat, kept : Nat, settled : BOOLEAN]
         /\ f.filled = n /\ f.counted = lsu.counted /\ f.kept = lsu.kept
<1> DEFINE N == Nat
           B == BOOLEAN
<1>1. lsu \in [counted : N, filled : N, kept : N, settled : B] /\ n \in N
  OBVIOUS
<1> HIDE DEF N, B
<1>2. LET c == [lsu EXCEPT !.counted = n]
          f == [lsu EXCEPT !.filled = n] IN
      /\ lsu.counted \in N /\ lsu.filled \in N /\ lsu.kept \in N
      /\ c \in [counted : N, filled : N, kept : N, settled : B]
      /\ c.counted = n /\ c.filled = lsu.filled /\ c.kept = lsu.kept
      /\ f \in [counted : N, filled : N, kept : N, settled : B]
      /\ f.filled = n /\ f.counted = lsu.counted /\ f.kept = lsu.kept
  BY <1>1
<1> QED BY <1>2 DEF N, B

(***************************************************************************)
(* What send_lsu has counted or written holds after a step of its walk.    *)
(***************************************************************************)
LEMMA WalkOn ==
  ASSUME IInv, NEW n \in Nat, lsu.kept \in Nat, lsu.kept <= Len(kept), at[Lsu] \in Cells,
         Passed(n), NEW m \in Nat, m >= n, at[Lsu] \in Kept => m = n + 1
  PROVE  \/ m >= lsu.kept
         \/ \E i \in 1 .. lsu.kept : cells[at[Lsu]].next = kept[i] /\ m >= i - 1
<1>1. CASE n >= lsu.kept
  BY <1>1
<1>2. ASSUME NEW i \in 1 .. lsu.kept, at[Lsu] = kept[i], n >= i - 1
      PROVE  \/ m >= lsu.kept
             \/ \E j \in 1 .. lsu.kept : cells[at[Lsu]].next = kept[j] /\ m >= j - 1
  <2> DEFINE w == lsu.kept
             l == Len(kept)
  <2>1. l \in Nat /\ w \in Nat /\ w <= l /\ i \in 1 .. w
    BY KeptFacts DEF IInv
  <2> HIDE DEF w, l
  <2>2. i \in 1 .. l /\ i \in Nat
    BY <2>1
  <2>3. i \in DOMAIN kept
    BY <2>2, KeptFacts DEF IInv, l
  <2>4. at[Lsu] \in Kept
    BY <1>2, <2>3 DEF Kept, Seen
  <2>5. m >= i
    BY <1>2, <2>2, <2>4
  <2>6. CASE i = w
    BY <2>1, <2>5, <2>6 DEF w
  <2>7. CASE i # w
    <3>1. i + 1 \in 1 .. w /\ i < l /\ m >= i + 1 - 1
      BY <2>1, <2>2, <2>5, <2>7
    <3>2. cells[at[Lsu]].next = kept[i + 1]
      BY <1>2, <2>3, <3>1 DEF IInv, ConnectedKept, l
    <3> QED BY <3>1, <3>2 DEF w
  <2> QED BY <2>6, <2>7
<1> QED BY <1>1, <1>2 DEF Passed

\* At the end of the list every kept route has been passed.
LEMMA WalkEnds ==
  ASSUME IInv, NEW n \in Nat, lsu.kept \in Nat, lsu.kept <= Len(kept), Passed(n),
         at[Lsu] = Nil
  PROVE  n >= lsu.kept
<1>1. ASSUME NEW i \in 1 .. lsu.kept, at[Lsu] = kept[i] PROVE FALSE
  <2> DEFINE w == lsu.kept
             l == Len(kept)
  <2>1. l \in Nat /\ w \in Nat /\ w <= l /\ i \in 1 .. w
    BY KeptFacts DEF IInv
  <2> HIDE DEF w, l
  <2>2. i \in 1 .. l
    BY <2>1
  <2>3. kept[i] \in Cells
    BY <2>2, KeptFacts DEF IInv, l
  <2> QED BY <1>1, <2>3, Apart
<1> QED BY <1>1 DEF Passed

\* A walk that begins has every kept route in front of it.
LEMMA WalkBegins ==
  ASSUME IInv, NEW w \in Nat, w <= Len(kept)
  PROVE  0 >= w \/ \E i \in 1 .. w : head = kept[i] /\ 0 >= i - 1
<1>1. CASE w = 0
  BY <1>1
<1>2. CASE w # 0
  <2>1. Len(kept) \in Nat /\ (kept # <<>> => head = kept[1])
    BY KeptFacts DEF IInv, ConnectedKept
  <2>2. Len(kept) # 0 /\ 1 \in 1 .. w
    BY <1>2, <2>1
  <2>3. kept # <<>>
    BY <2>2
  <2> QED BY <2>1, <2>2, <2>3
<1> QED BY <1>1, <1>2

LEMMA Longer ==
  ASSUME IInv, IInv', Grows
  PROVE  /\ Len(kept) \in Nat /\ DOMAIN kept = 1 .. Len(kept)
         /\ Len(kept') \in Nat /\ Len(kept) <= Len(kept') /\ Kept \subseteq Kept'
<1>1. Len(kept) \in Nat /\ DOMAIN kept = 1 .. Len(kept)
  BY KeptFacts DEF IInv
<1>2. kept' \in Seq(Cells)
  BY DEF IInv, TypeOK
<1>3. Len(kept') \in Nat /\ DOMAIN kept' = 1 .. Len(kept')
  BY <1>2
<1>4. Len(kept) <= Len(kept')
  <2>1. CASE Len(kept) = 0
    BY <1>3, <2>1
  <2>2. CASE Len(kept) # 0
    <3>1. Len(kept) \in DOMAIN kept
      BY <1>1, <2>2
    <3>2. Len(kept) \in DOMAIN kept'
      BY <3>1 DEF Grows
    <3> QED BY <1>1, <1>3, <3>2
  <2> QED BY <2>1, <2>2
<1>5. Kept \subseteq Kept'
  BY DEF Grows, Kept, Seen
<1> QED BY <1>1, <1>3, <1>4, <1>5

LEMMA LsuStays ==
  ASSUME IInv, IInv', LsuInv, Grows,
         pc'[Lsu] = pc[Lsu], at'[Lsu] = at[Lsu], lsu' = lsu
  PROVE  LsuInv'
<1>1. lsu.kept \in Nat /\ Len(kept') \in Nat /\ Len(kept) \in Nat
      /\ Len(kept) <= Len(kept') /\ DOMAIN kept = 1 .. Len(kept)
  BY LsuFields, Longer DEF IInv, TypeOK
<1>2. lsu.kept <= Len(kept) /\ lsu.kept <= Len(kept')
  BY <1>1 DEF LsuInv
<1>3. \A i \in 1 .. lsu.kept : i \in DOMAIN kept
  BY <1>1, <1>2
<1>4. \A i \in 1 .. lsu.kept : kept'[i] = kept[i]
  BY <1>3 DEF Grows
<1>5. Passed(lsu.counted) => Passed(lsu.counted)'
  BY <1>4 DEF Passed
<1>6. Passed(lsu.filled) => Passed(lsu.filled)'
  BY <1>4 DEF Passed
<1> QED BY <1>2, <1>5, <1>6 DEF LsuInv, LsuAnnounces

LEMMA MatchStays ==
  ASSUME IInv, IInv', MatchInv, Grows, pc'[Forward] = pc[Forward],
         at'[Forward] = at[Forward], held'[Forward] = held[Forward], want' = want
  PROVE  MatchInv'
<1>1. Kept \subseteq Kept' /\ \A c \in Kept : cells'[c].dest = cells[c].dest
  BY Longer DEF Grows
<1>2. Found => Found'
  BY <1>1 DEF Found
<1>3. ASSUME Ahead PROVE Ahead'
  <2>1. PICK i \in DOMAIN kept, j \in DOMAIN kept :
          i <= j /\ at[Forward] = kept[i] /\ cells[kept[j]].dest = want.net
    BY <1>3 DEF Ahead
  <2>2. i \in DOMAIN kept' /\ j \in DOMAIN kept' /\ kept'[i] = kept[i] /\ kept'[j] = kept[j]
    BY DEF Grows
  <2>3. kept[j] \in Kept
    BY DEF Kept, Seen
  <2>4. cells'[kept'[j]].dest = want.net
    BY <1>1, <2>1, <2>2, <2>3
  <2> QED BY <2>1, <2>2, <2>4 DEF Ahead
<1> QED BY <1>2, <1>3 DEF MatchInv

-----------------------------------------------------------------------------
(***************************************************************************)
(* The steps of send_lsu.                                                  *)
(***************************************************************************)
LEMMA LsuKinds ==
  ASSUME IInv
  PROVE  /\ held \in [Threads -> Ptrs] /\ at \in [Threads -> Ptrs] /\ head \in Ptrs
         /\ lsu \in [counted : Nat, filled : Nat, kept : Nat, settled : BOOLEAN]
         /\ want \in [net : Nets \cup {Junk}, due : BOOLEAN]
         /\ {Lsu, Forward} \subseteq Threads
         /\ \A t \in {Lsu, Forward} : at[t] \in Ptrs /\ held[t] \in Ptrs
         /\ \A c \in Cells : cells[c] \in Entry /\ cells[c].next \in Ptrs
         /\ lsu.counted \in Nat /\ lsu.filled \in Nat /\ lsu.kept \in Nat
<1>1. \A c \in Cells : cells[c] \in Entry
  BY DEF IInv, TypeOK
<1>2. \A c \in Cells : cells[c].next \in Ptrs
  BY <1>1, EntryFields
<1>3. lsu \in [counted : Nat, filled : Nat, kept : Nat, settled : BOOLEAN]
  BY DEF IInv, TypeOK
<1>4. lsu.counted \in Nat /\ lsu.filled \in Nat /\ lsu.kept \in Nat
  BY <1>3, LsuFields
<1> QED BY <1>1, <1>2, <1>3, <1>4, Apart DEF IInv, TypeOK

LEMMA LsuBeginStep ==
  ASSUME IInv, LsuInv, LsuBegin
  PROVE  IInv' /\ Grows /\ LsuInv'
<1> DEFINE settled == Settled
           n == Len(kept)
<1>1. n \in Nat /\ settled \in BOOLEAN /\ "count" \in Pcs
  BY KeptFacts DEF IInv, Pcs, Settled
<1>2. lsu' = [counted |-> 0, filled |-> 0, kept |-> n, settled |-> settled]
  BY DEF LsuBegin
<1> HIDE DEF settled, n
<1>3. /\ lsu' \in [counted : Nat, filled : Nat, kept : Nat, settled : BOOLEAN]
      /\ lsu'.counted = 0 /\ lsu'.filled = 0 /\ lsu'.kept = n
  BY <1>1, <1>2
<1>4. GoAt(Lsu, "count", head) /\ UNCHANGED <<memory, held, k, want, kept, up>>
  BY DEF LsuBegin
<1>5. IInv' /\ Grows /\ pc'[Lsu] = "count" /\ at'[Lsu] = head
  BY <1>1, <1>3, <1>4, Reads, LsuKinds
<1>6. 0 >= n \/ \E i \in 1 .. n : head = kept[i] /\ 0 >= i - 1
  BY <1>1, WalkBegins DEF n
<1>7. kept' = kept /\ n <= Len(kept')
  BY <1>1, <1>4 DEF n
<1>8. Passed(lsu.counted)'
  BY <1>3, <1>5, <1>6, <1>7 DEF Passed
<1> QED BY <1>3, <1>5, <1>7, <1>8 DEF LsuInv, LsuAnnounces

LEMMA CountStep ==
  ASSUME IInv, LsuInv, Count
  PROVE  IInv' /\ Grows /\ LsuInv'
<1>1. /\ pc[Lsu] = "count" /\ Passed(lsu.counted) /\ lsu.filled = 0
      /\ lsu.kept <= Len(kept) /\ lsu.counted \in Nat /\ lsu.filled \in Nat
      /\ lsu.kept \in Nat /\ {"count", "write"} \subseteq Pcs /\ Lsu \in Threads
  BY LsuKinds DEF Count, LsuInv, Pcs
<1>2. CASE at[Lsu] = Nil /\ MoveAt(Lsu, "write", head)
  <2>1. /\ GoAt(Lsu, "write", head)
        /\ UNCHANGED <<memory, held, k, lsu, want, kept, up>>
    BY <1>2 DEF MoveAt, Stay
  <2>2. IInv' /\ Grows /\ pc'[Lsu] = "write" /\ at'[Lsu] = head
    BY <1>1, <2>1, Reads, LsuKinds
  <2>3. lsu.counted >= lsu.kept
    BY <1>1, <1>2, WalkEnds
  <2>4. 0 >= lsu.kept \/ \E i \in 1 .. lsu.kept : head = kept[i] /\ 0 >= i - 1
    BY <1>1, WalkBegins
  <2>5. Passed(lsu.filled)'
    BY <1>1, <2>1, <2>2, <2>4 DEF Passed
  <2> QED BY <1>1, <2>1, <2>2, <2>3, <2>5 DEF LsuInv, LsuAnnounces
<1>3. CASE /\ at[Lsu] \in Cells
           /\ lsu' = [lsu EXCEPT !.counted =
                        IF Counts(cells[at[Lsu]]) THEN @ + 1 ELSE @]
           /\ GoAt(Lsu, "count", cells[at[Lsu]].next)
           /\ UNCHANGED <<memory, held, k, want, kept, up>>
  <2> DEFINE m == IF Counts(cells[at[Lsu]]) THEN lsu.counted + 1 ELSE lsu.counted
  <2>1. m \in Nat /\ m >= lsu.counted
    BY <1>1
  <2>2. at[Lsu] \in Kept => m = lsu.counted + 1
    BY KeptFacts DEF IInv, Counts
  <2>3. lsu' = [lsu EXCEPT !.counted = m]
    BY <1>3
  <2> HIDE DEF m
  <2>4. /\ lsu' \in [counted : Nat, filled : Nat, kept : Nat, settled : BOOLEAN]
        /\ lsu'.counted = m /\ lsu'.filled = lsu.filled /\ lsu'.kept = lsu.kept
    BY <2>1, <2>3, LsuFields, LsuKinds
  <2>5. IInv' /\ Grows /\ pc'[Lsu] = "count" /\ at'[Lsu] = cells[at[Lsu]].next
    BY <1>1, <1>3, <2>4, Reads, LsuKinds
  <2>6. \/ m >= lsu.kept
        \/ \E i \in 1 .. lsu.kept : cells[at[Lsu]].next = kept[i] /\ m >= i - 1
    BY <1>1, <1>3, <2>1, <2>2, WalkOn
  <2>7. kept' = kept
    BY <1>3
  <2>8. Passed(lsu.counted)'
    BY <2>4, <2>5, <2>6, <2>7 DEF Passed
  <2> QED BY <1>1, <2>4, <2>5, <2>7, <2>8 DEF LsuInv, LsuAnnounces
<1>4. CASE Die
  <2>1. IInv' /\ Grows
    BY <1>4, DieKeeps
  <2> QED BY <1>4, <2>1, LsuStays DEF Die, walk
<1> QED BY <1>2, <1>3, <1>4 DEF Count

LEMMA WriteStep ==
  ASSUME IInv, LsuInv, Write
  PROVE  IInv' /\ Grows /\ LsuInv'
<1>1. /\ pc[Lsu] = "write" /\ Passed(lsu.filled) /\ lsu.counted >= lsu.kept
      /\ lsu.kept <= Len(kept) /\ lsu.counted \in Nat /\ lsu.filled \in Nat
      /\ lsu.kept \in Nat /\ {"sent", "write"} \subseteq Pcs /\ Lsu \in Threads
  BY LsuKinds DEF Write, LsuInv, Pcs
<1>2. CASE at[Lsu] = Nil /\ Move(Lsu, "sent")
  <2>1. /\ GoAt(Lsu, "sent", at[Lsu])
        /\ UNCHANGED <<memory, held, k, lsu, want, kept, up>>
    BY <1>2 DEF Move, MoveAt, Stay
  <2>2. IInv' /\ Grows /\ pc'[Lsu] = "sent"
    BY <1>1, <2>1, Reads, LsuKinds
  <2>3. lsu.filled >= lsu.kept
    BY <1>1, <1>2, WalkEnds
  <2> QED BY <1>1, <2>1, <2>2, <2>3 DEF LsuInv, LsuAnnounces
<1>3. CASE /\ at[Lsu] \in Cells /\ cells[at[Lsu]].dynamic
           /\ MoveAt(Lsu, "write", cells[at[Lsu]].next)
  <2>1. /\ GoAt(Lsu, "write", cells[at[Lsu]].next)
        /\ UNCHANGED <<memory, held, k, lsu, want, kept, up>>
    BY <1>3 DEF MoveAt, Stay
  <2>2. IInv' /\ Grows /\ pc'[Lsu] = "write" /\ at'[Lsu] = cells[at[Lsu]].next
    BY <1>1, <1>3, <2>1, Reads, LsuKinds
  <2>3. at[Lsu] \notin Kept
    BY <1>3, KeptFacts DEF IInv
  <2>4. \/ lsu.filled >= lsu.kept
        \/ \E i \in 1 .. lsu.kept :
             cells[at[Lsu]].next = kept[i] /\ lsu.filled >= i - 1
    BY <1>1, <1>3, <2>3, WalkOn
  <2>5. Passed(lsu.filled)'
    BY <2>1, <2>2, <2>4 DEF Passed
  <2> QED BY <1>1, <2>1, <2>2, <2>5 DEF LsuInv, LsuAnnounces
<1>4. CASE /\ at[Lsu] \in Cells
           /\ lsu' = [lsu EXCEPT !.filled = @ + 1]
           /\ GoAt(Lsu, "write", cells[at[Lsu]].next)
           /\ UNCHANGED <<memory, held, k, want, kept, up>>
  <2> DEFINE m == lsu.filled + 1
  <2>1. m \in Nat /\ m >= lsu.filled
    BY <1>1
  <2>2. lsu' = [lsu EXCEPT !.filled = m]
    BY <1>4
  <2>3. m = lsu.filled + 1
    OBVIOUS
  <2> HIDE DEF m
  <2>4. /\ lsu' \in [counted : Nat, filled : Nat, kept : Nat, settled : BOOLEAN]
        /\ lsu'.filled = m /\ lsu'.counted = lsu.counted /\ lsu'.kept = lsu.kept
    BY <2>1, <2>2, LsuFields, LsuKinds
  <2>5. IInv' /\ Grows /\ pc'[Lsu] = "write" /\ at'[Lsu] = cells[at[Lsu]].next
    BY <1>1, <1>4, <2>4, Reads, LsuKinds
  <2>6. \/ m >= lsu.kept
        \/ \E i \in 1 .. lsu.kept : cells[at[Lsu]].next = kept[i] /\ m >= i - 1
    BY <1>1, <1>4, <2>1, <2>3, WalkOn
  <2>7. kept' = kept
    BY <1>4
  <2>8. Passed(lsu.filled)'
    BY <2>4, <2>5, <2>6, <2>7 DEF Passed
  <2> QED BY <1>1, <2>4, <2>5, <2>7, <2>8 DEF LsuInv, LsuAnnounces
<1>5. CASE Die
  <2>1. IInv' /\ Grows
    BY <1>5, DieKeeps
  <2> QED BY <1>5, <2>1, LsuStays DEF Die, walk
<1> QED BY <1>2, <1>3, <1>4, <1>5 DEF Write

-----------------------------------------------------------------------------
(***************************************************************************)
(* Runs add nothing that an LSU announces.                                 *)
(***************************************************************************)
LEMMA SettledStays ==
  ASSUME IInv, Settled, NEW t \in Adders,
         AdderStep(t) \/ (t \in Runs /\ RunStep(t))
  PROVE  Settled' /\ kept' = kept
<1>1. cells \in [Cells -> Entry] /\ pc \in [Threads -> Pcs] /\ t \in Threads
  BY Types, Apart DEF IInv
<1>2. t \in Runs
  <2>1. CASE t = Start
    <3>1. pc[t] = "done"
      BY <2>1 DEF Settled
    <3>2. ~AdderStep(t)
      BY <3>1 DEF AdderStep, NextNet, CheckRoute, Add, LinkFirst, Tail_, Link, Fill
    <3> QED BY <2>1, <3>2, Apart
  <2> QED BY <2>1 DEF Adders
<1>3. t # Start /\ Start \in Threads
  BY <1>2, Apart
<1> DEFINE Kind(c) == \/ cells'[c].dest = Junk \/ cells'[c].dynamic
                      \/ /\ cells'[c].dest = cells[c].dest
                         /\ cells'[c].dynamic = cells[c].dynamic
           Kinds_ == \A c \in Cells : Kind(c)
           Same == kept' = kept /\ pc'[Start] = pc[Start] /\ Kinds_
<1>4. ASSUME NEW place, NEW p, MoveAt(t, place, p) PROVE Same
  BY <1>1, <1>3, <1>4 DEF MoveAt, GoAt, Go, Stay, memory
<1>5. ASSUME NEW place, Move(t, place) PROVE Same
  BY <1>4, <1>5 DEF Move
<1>6. ASSUME Die PROVE Same
  BY <1>6 DEF Die, memory, walk
<1>7. ASSUME NEW place, Go(t, place) PROVE pc'[Start] = pc[Start]
  BY <1>1, <1>3, <1>7 DEF Go
<1>8. ASSUME NEW place, NEW p, GoAt(t, place, p) PROVE pc'[Start] = pc[Start]
  BY <1>7, <1>8 DEF GoAt
<1>9. ASSUME cells' = cells PROVE Kinds_
  BY <1>9
<1>10. ASSUME NEW a \in Cells, NEW q \in Ptrs, cells' = [cells EXCEPT ![a].next = q]
       PROVE  Kinds_
  BY <1>1, <1>10, NextSet
<1>11. ASSUME NEW a \in Cells, NEW e, cells' = [cells EXCEPT ![a] = e],
              e.dest = Junk \/ e.dynamic
       PROVE  Kinds_
  BY <1>1, <1>11
<1>12. ASSUME NEW c \in Cells, NEW e \in Leftover(c) PROVE e \in Entry /\ e.dest = Junk
  BY <1>12, <1>1, LeftoverFields DEF Leftover
<1> HIDE DEF Kinds_
<1>13. ASSUME AdderStep(t) PROVE Same
  <2>1. ASSUME NextNet(t) \/ Add(t) PROVE Same
    BY <1>4, <1>5, <2>1 DEF NextNet, Add
  <2>2. ASSUME CheckRoute(t) PROVE Same
    BY <1>4, <1>5, <1>6, <1>8, <1>9, <2>2 DEF CheckRoute, memory, Stay
  <2>3. ASSUME Tail_(t) PROVE Same
    BY <1>4, <1>5, <1>6, <2>3 DEF Tail_
  <2>4. ASSUME LinkFirst(t) PROVE Same
    <3>1. PICK c \in Cells : \E e \in Leftover(c) : cells' = [cells EXCEPT ![c] = e]
      BY <2>4 DEF LinkFirst
    <3>2. PICK e \in Leftover(c) : cells' = [cells EXCEPT ![c] = e]
      BY <3>1
    <3> QED BY <1>7, <1>11, <1>12, <2>4, <3>2 DEF LinkFirst, Stay
  <2>5. ASSUME Link(t) PROVE Same
    <3>0. PICK c \in Cells : \E e \in Leftover(c) :
            cells' = [cells EXCEPT ![c] = e, ![at[t]].next = c]
      BY <2>5 DEF Link
    <3>1. PICK e \in Leftover(c) : cells' = [cells EXCEPT ![c] = e, ![at[t]].next = c]
      BY <3>0
    <3>2. e \in Entry /\ e.dest = Junk
      BY <1>12
    <3> DEFINE f == [cells EXCEPT ![c] = e]
    <3>3. cells' = [f EXCEPT ![at[t]].next = c] /\ f \in [Cells -> Entry]
      BY <1>1, <3>1, <3>2
    <3>4. \A d \in Cells : f[d] = cells[d] \/ f[d].dest = Junk
      BY <1>1, <3>2
    <3> HIDE DEF f
    <3>5. Kinds_
      <4>1. CASE at[t] \in Cells
        <5>1. c \in Ptrs
          BY Apart
        <5>2. \A d \in Cells : cells'[d].dest = f[d].dest /\ cells'[d].dynamic = f[d].dynamic
          BY <3>3, <4>1, <5>1, NextSet
        <5> QED BY <3>4, <5>2 DEF Kinds_
      <4>2. CASE at[t] \notin Cells
        <5>1. cells' = f
          BY <3>3, <4>2
        <5> QED BY <3>4, <5>1 DEF Kinds_
      <4> QED BY <4>1, <4>2
    <3> QED BY <1>7, <2>5, <3>5 DEF Link, Stay
  <2>6. ASSUME Fill(t) PROVE Same
    <3>1. CASE Die
      BY <1>6, <3>1
    <3>2. ASSUME NEW c \in Cells, cells' = [cells EXCEPT ![c] = NewEntry(t)]
          PROVE  Kinds_
      BY <1>3, <1>11, <3>2 DEF NewEntry
    <3>3. CASE ~Die
      <4>1. PICK c \in Cells : cells' = [cells EXCEPT ![c] = NewEntry(t)]
        BY <2>6, <3>3 DEF Fill
      <4>2. kept' = kept /\ GoAt(t, "next", Nil)
        BY <1>3, <2>6, <3>3 DEF Fill
      <4> QED BY <1>8, <3>2, <4>1, <4>2
    <3> QED BY <3>1, <3>3
  <2> QED BY <1>13, <2>1, <2>2, <2>3, <2>4, <2>5, <2>6 DEF AdderStep
<1>14. ASSUME RunStep(t) PROVE Same
  <2>1. ASSUME Begin(t) \/ Clear(t) PROVE Same
    BY <1>4, <1>5, <1>6, <2>1 DEF Begin, Clear
  <2>2. ASSUME Take(t) PROVE Same
    BY <1>7, <1>9, <2>2 DEF Take, Stay, memory
  <2>3. ASSUME Unlink(t) PROVE Same
    <3>1. CASE Die
      BY <1>6, <3>1
    <3>2. CASE ~Die
      <4>1. /\ cells[at[t]].next \in Cells /\ kept' = kept /\ Go(t, "free")
            /\ cells' = [cells EXCEPT ![at[t]].next = cells[cells[at[t]].next].next]
        BY <2>3, <3>2 DEF Unlink, Stay
      <4>2. cells[cells[at[t]].next].next \in Ptrs
        BY <1>1, <4>1, EntryFields
      <4>3. Kinds_
        <5>1. CASE at[t] \in Cells
          BY <1>10, <4>1, <4>2, <5>1
        <5>2. CASE at[t] \notin Cells
          BY <1>1, <1>9, <4>1, <5>2
        <5> QED BY <5>1, <5>2
      <4> QED BY <1>7, <4>1, <4>3
    <3> QED BY <3>1, <3>2
  <2>4. ASSUME Free(t) PROVE Same
    <3>1. CASE held[t] \in used
      <4>1. /\ kept' = kept /\ Go(t, "clear") /\ held[t] \in Cells
            /\ cells' = [cells EXCEPT ![held[t]].dest = Junk]
        BY <2>4, <3>1, Types DEF Free, Stay, IInv
      <4>2. cells[held[t]] \in Entry
        BY <1>1, <4>1
      <4> DEFINE e == [cells[held[t]] EXCEPT !.dest = Junk]
      <4>3. e.dest = Junk /\ cells' = [cells EXCEPT ![held[t]] = e]
        BY <4>1, <4>2 DEF Entry
      <4> HIDE DEF e
      <4> QED BY <1>7, <1>11, <4>1, <4>3
    <3>2. CASE held[t] \notin used
      BY <1>5, <1>6, <2>4, <3>2 DEF Free
    <3> QED BY <3>1, <3>2
  <2> QED BY <1>13, <1>14, <2>1, <2>2, <2>3, <2>4 DEF RunStep
<1>15. Same
  BY <1>13, <1>14
<1> QED BY <1>15 DEF Settled, Kinds_

LEMMA FitStays ==
  ASSUME IInv, LsuInv, FitInv, Settled => Settled' /\ kept' = kept,
         pc'[Lsu] = pc[Lsu], at'[Lsu] = at[Lsu], lsu' = lsu
  PROVE  FitInv'
BY DEF FitInv

\* The walk that writes passes each kept entry once.
LEMMA FitWrites ==
  ASSUME IInv, LsuInv, FitInv, LsuStep
  PROVE  FitInv'
<1>0. /\ lsu.kept \in Nat /\ lsu.filled \in Nat /\ lsu.counted \in Nat
      /\ lsu \in [counted : Nat, filled : Nat, kept : Nat, settled : BOOLEAN]
      /\ Lsu \in Threads /\ pc \in [Threads -> Pcs] /\ at \in [Threads -> Ptrs]
      /\ Len(kept) \in Nat /\ DOMAIN kept = 1 .. Len(kept)
  BY LsuKinds, KeptFacts, Types DEF IInv
<1>1. ASSUME NEW place, NEW p, GoAt(Lsu, place, p), UNCHANGED <<memory, kept>>
      PROVE  /\ pc'[Lsu] = place /\ at'[Lsu] = p
             /\ Settled' = Settled
  BY <1>0, <1>1, Apart DEF GoAt, Go, Settled, memory
<1>2. CASE Die
  BY <1>2, FitStays DEF Die, memory, walk, Settled
<1>3. CASE LsuBegin
  <2>1. /\ GoAt(Lsu, "count", head) /\ UNCHANGED <<memory, kept>>
        /\ lsu' = [counted |-> 0, filled |-> 0, kept |-> Len(kept), settled |-> Settled]
    BY <1>3 DEF LsuBegin
  <2>2. pc'[Lsu] = "count" /\ Settled' = Settled /\ kept' = kept
    BY <1>1, <2>1
  <2>3. lsu'.settled = Settled /\ lsu'.kept = Len(kept)
    BY <2>1
  <2> QED BY <2>2, <2>3 DEF FitInv
<1>4. CASE Count /\ ~Die
  <2>1. /\ UNCHANGED <<memory, kept>> /\ lsu'.kept = lsu.kept
        /\ lsu'.settled = lsu.settled /\ pc[Lsu] = "count"
    BY <1>0, <1>4 DEF Count, MoveAt, Stay
  <2>2. CASE at[Lsu] = Nil /\ MoveAt(Lsu, "write", head)
    <3>1. GoAt(Lsu, "write", head) /\ lsu' = lsu /\ lsu.filled = 0
      BY <2>1, <2>2 DEF MoveAt, Stay, LsuInv
    <3>2. lsu.kept <= lsu.counted
      BY <1>0, <2>1, <2>2, WalkEnds DEF LsuInv
    <3>3. pc'[Lsu] = "write" /\ Settled' = Settled
      BY <1>1, <2>1, <3>1
    <3>4. \A i \in DOMAIN kept : 0 <= i - 1
      BY <1>0
    <3> QED BY <1>0, <2>1, <3>1, <3>2, <3>3, <3>4 DEF FitInv
  <2>3. CASE GoAt(Lsu, "count", cells[at[Lsu]].next)
    <3>1. pc'[Lsu] = "count" /\ Settled' = Settled
      BY <1>1, <2>1, <2>3
    <3> QED BY <2>1, <3>1 DEF FitInv
  <2> QED BY <1>4, <2>2, <2>3 DEF Count
<1>5. CASE Write /\ ~Die
  <2>1. /\ UNCHANGED <<memory, kept>> /\ lsu'.kept = lsu.kept
        /\ lsu'.settled = lsu.settled /\ lsu'.counted = lsu.counted /\ pc[Lsu] = "write"
    BY <1>0, <1>5 DEF Write, MoveAt, Move, Stay
  <2> SUFFICES ASSUME lsu.settled PROVE FitInv'
    BY <2>1 DEF FitInv
  <2>2. /\ Settled /\ lsu.kept = Len(kept) /\ lsu.filled <= lsu.kept
        /\ lsu.kept <= lsu.counted
        /\ \A i \in DOMAIN kept : at[Lsu] = kept[i] => lsu.filled <= i - 1
    BY <2>1 DEF FitInv
  <2>3. CASE at[Lsu] = Nil /\ Move(Lsu, "sent")
    <3>1. GoAt(Lsu, "sent", at[Lsu]) /\ lsu' = lsu
      BY <2>3 DEF Move, MoveAt, Stay
    <3>2. pc'[Lsu] = "sent" /\ Settled' = Settled
      BY <1>1, <2>1, <3>1
    <3> QED BY <2>1, <2>2, <3>1, <3>2 DEF FitInv
  <2>4. ASSUME NEW c \in Cells, c = at[Lsu], c \notin Front,
               GoAt(Lsu, "write", cells[c].next), lsu'.filled <= lsu'.kept
        PROVE  FitInv'
    <3>1. cells[c].next \notin Kept
      BY <2>4 DEF IInv, NoneInto
    <3>2. pc'[Lsu] = "write" /\ at'[Lsu] = cells[c].next /\ Settled' = Settled
      BY <1>1, <2>1, <2>4
    <3>3. \A i \in DOMAIN kept : at'[Lsu] # kept[i]
      BY <3>1, <3>2 DEF Kept, Seen
    <3> QED BY <2>1, <2>2, <2>4, <3>2, <3>3 DEF FitInv
  <2>5. CASE /\ at[Lsu] \in Cells /\ cells[at[Lsu]].dynamic
             /\ MoveAt(Lsu, "write", cells[at[Lsu]].next)
    <3>1. at[Lsu] \notin Front
      BY <2>5, KeptFacts DEF IInv
    <3>2. GoAt(Lsu, "write", cells[at[Lsu]].next) /\ lsu' = lsu
      BY <2>5 DEF MoveAt, Stay
    <3> QED BY <2>2, <2>4, <2>5, <3>1, <3>2
  <2>6. CASE /\ at[Lsu] \in Cells /\ ~cells[at[Lsu]].dynamic /\ cells[at[Lsu]].dest # Junk
             /\ lsu' = [lsu EXCEPT !.filled = @ + 1]
             /\ GoAt(Lsu, "write", cells[at[Lsu]].next)
    <3>1. lsu'.filled = lsu.filled + 1
      BY <1>0, <2>6
    <3>2. PICK i \in DOMAIN kept : at[Lsu] = kept[i]
      BY <2>2, <2>6 DEF Settled, Seen
    <3>3. lsu'.filled <= i /\ i <= Len(kept) /\ i \in Nat
      BY <1>0, <2>2, <3>1, <3>2
    <3>4. lsu'.filled <= lsu'.kept
      BY <1>0, <2>1, <2>2, <3>1, <3>3
    <3>5. CASE i = Len(kept)
      <4>1. at[Lsu] \notin Front
        <5>1. at[Lsu] = Last /\ Len(kept) # 0
          BY <1>0, <3>2, <3>5 DEF Last
        <5>2. kept # <<>>
          BY <5>1
        <5> QED BY <5>1, <5>2, KeptFacts DEF IInv
      <4> QED BY <2>4, <2>6, <3>4, <4>1
    <3>6. CASE i # Len(kept)
      <4>1. i + 1 \in DOMAIN kept /\ i < Len(kept)
        BY <1>0, <3>3, <3>6
      <4>2. cells[at[Lsu]].next = kept[i + 1]
        BY <3>2, <4>1 DEF IInv, ConnectedKept
      <4>3. pc'[Lsu] = "write" /\ at'[Lsu] = kept[i + 1] /\ Settled' = Settled
        BY <1>1, <2>1, <2>6, <4>2
      <4>4. \A j \in DOMAIN kept : kept[j] = kept[i + 1] => j = i + 1
        BY <4>1 DEF IInv, Distinct
      <4>5. \A j \in DOMAIN kept : at'[Lsu] = kept[j] => lsu'.filled <= j - 1
        BY <3>3, <4>3, <4>4
      <4> QED BY <2>1, <2>2, <3>4, <4>3, <4>5 DEF FitInv
    <3> QED BY <3>5, <3>6
  <2> QED BY <1>5, <2>3, <2>5, <2>6 DEF Write
<1> QED BY <1>2, <1>3, <1>4, <1>5 DEF LsuStep

-----------------------------------------------------------------------------
(***************************************************************************)
(* The steps of the IP handler.                                            *)
(***************************************************************************)
LEMMA PacketInStep ==
  ASSUME IInv, MatchInv, PacketIn
  PROVE  IInv' /\ Grows /\ MatchInv'
<1>1. PICK n \in Nets : want' = [net |-> n, due |-> \E c \in Seen(kept) : cells[c].dest = n]
  BY DEF PacketIn
<1> DEFINE due == \E c \in Seen(kept) : cells[c].dest = n
<1>2. want' = [net |-> n, due |-> due] /\ due \in BOOLEAN /\ "match" \in Pcs
  BY <1>1 DEF Pcs
<1>3. due => \E j \in DOMAIN kept : cells[kept[j]].dest = n
  BY DEF Seen
<1> HIDE DEF due
<1>4. want' \in [net : Nets \cup {Junk}, due : BOOLEAN] /\ want'.net = n /\ want'.due = due
  BY <1>2
<1>5. /\ GoAt(Forward, "match", head) /\ pc[Forward] \notin {"match", "use"}
      /\ UNCHANGED <<memory, held, k, lsu, kept, up>>
  BY DEF PacketIn, Outcomes
<1>6. IInv' /\ Grows /\ pc'[Forward] = "match" /\ at'[Forward] = head
  BY <1>2, <1>4, <1>5, Reads, LsuKinds
<1>7. held'[Forward] = Nil
  BY <1>5 DEF MatchInv
<1>8. ASSUME due PROVE Ahead'
  <2>1. PICK j \in DOMAIN kept : cells[kept[j]].dest = n
    BY <1>3, <1>8
  <2>2. DOMAIN kept = 1 .. Len(kept) /\ Len(kept) \in Nat
    BY KeptFacts DEF IInv
  <2>3. 1 \in DOMAIN kept /\ 1 <= j
    BY <2>2
  <2>4. head = kept[1]
    BY <2>1 DEF IInv, ConnectedKept
  <2> QED BY <1>4, <1>5, <1>6, <2>1, <2>3, <2>4 DEF Ahead, memory
<1> QED BY <1>4, <1>6, <1>7, <1>8 DEF MatchInv, Outcomes

LEMMA MatchStep ==
  ASSUME IInv, MatchInv, Match
  PROVE  IInv' /\ Grows /\ MatchInv'
<1>1. pc[Forward] = "match" /\ {"match", "use"} \subseteq Pcs /\ Forward \in Threads
  BY Apart DEF Match, Pcs
<1>2. /\ \A i \in DOMAIN kept : kept[i] \in Cells /\ kept[i] \in Kept
      /\ Kept \subseteq Cells /\ Nil \notin Cells
      /\ DOMAIN kept = 1 .. Len(kept) /\ Len(kept) \in Nat
  BY KeptFacts, Apart DEF IInv
<1>3. CASE at[Forward] = Nil /\ Move(Forward, "use")
  <2>1. /\ GoAt(Forward, "use", at[Forward])
        /\ UNCHANGED <<memory, held, k, lsu, want, kept, up>>
    BY <1>3 DEF Move, MoveAt, Stay
  <2>2. IInv' /\ Grows /\ pc'[Forward] = "use"
    BY <1>1, <2>1, Reads, LsuKinds
  <2>3. ~Ahead
    BY <1>2, <1>3 DEF Ahead
  <2>4. want.due => Found
    BY <1>1, <2>3 DEF MatchInv
  <2>5. Found' = Found
    BY <2>1 DEF Found, Kept, Seen, memory
  <2> QED BY <2>1, <2>2, <2>4, <2>5 DEF MatchInv, Outcomes
<1>4. CASE /\ at[Forward] \in Cells
           /\ held' = IF cells[at[Forward]].dest = want.net /\ held[Forward] = Nil
                      THEN [held EXCEPT ![Forward] = at[Forward]] ELSE held
           /\ GoAt(Forward, "match", cells[at[Forward]].next)
           /\ UNCHANGED <<memory, k>> /\ Stay
  <2> DEFINE hit == cells[at[Forward]].dest = want.net /\ held[Forward] = Nil
  <2>1. UNCHANGED <<memory, k, lsu, want, kept, up>>
    BY <1>4 DEF Stay
  <2>2. /\ held' \in [Threads -> Ptrs] /\ \A s \in Threads : s # Forward => held'[s] = held[s]
        /\ held'[Forward] = IF hit THEN at[Forward] ELSE held[Forward]
    BY <1>1, <1>4, Apart DEF IInv, TypeOK
  <2>3. /\ IInv' /\ Grows /\ pc'[Forward] = "match"
        /\ at'[Forward] = cells[at[Forward]].next
    BY <1>1, <1>4, <2>1, <2>2, Reads, LsuKinds
  <2>4. cells' = cells /\ kept' = kept /\ want' = want /\ Kept' = Kept
    BY <2>1 DEF memory, Kept, Seen
  <2>5. ASSUME want.due PROVE Found' \/ (held'[Forward] = Nil /\ Ahead')
    <3>1. CASE Found
      <4>1. held[Forward] # Nil
        BY <1>2, <3>1 DEF Found
      <4> QED BY <2>2, <2>4, <3>1, <4>1 DEF Found
    <3>2. CASE held[Forward] = Nil /\ Ahead
      <4>1. PICK i \in DOMAIN kept, j \in DOMAIN kept :
              i <= j /\ at[Forward] = kept[i] /\ cells[kept[j]].dest = want.net
        BY <3>2 DEF Ahead
      <4>2. CASE hit
        BY <1>2, <2>2, <2>4, <4>1, <4>2 DEF Found
      <4>3. CASE ~hit
        <5>1. i # j
          BY <3>2, <4>1, <4>3
        <5>2. i + 1 \in DOMAIN kept /\ i + 1 <= j /\ i < Len(kept)
          BY <1>2, <4>1, <5>1
        <5>3. cells[kept[i]].next = kept[i + 1]
          BY <5>2 DEF IInv, ConnectedKept
        <5>4. Ahead'
          BY <2>3, <2>4, <4>1, <5>2, <5>3 DEF Ahead
        <5> QED BY <2>2, <3>2, <4>3, <5>4
      <4> QED BY <4>2, <4>3
    <3> QED BY <1>1, <2>5, <3>1, <3>2 DEF MatchInv
  <2> QED BY <2>3, <2>4, <2>5 DEF MatchInv, Outcomes
<1>5. CASE Die
  <2>1. IInv' /\ Grows
    BY <1>5, DieKeeps
  <2> QED BY <1>5, <2>1, MatchStays DEF Die, walk
<1> QED BY <1>3, <1>4, <1>5 DEF Match

LEMMA UseStep ==
  ASSUME IInv, MatchInv, Use
  PROVE  IInv' /\ Grows /\ MatchInv'
<1> DEFINE dest == IF held[Forward] = Nil THEN Nil ELSE cells[held[Forward]].dest
           place == CASE dest = Nil -> "unreachable"
                      [] dest = Junk -> "dropped"
                      [] dest = want.net -> "forwarded"
                      [] OTHER -> "misrouted"
<1>1. /\ pc[Forward] = "use" /\ Go(Forward, place)
      /\ held' = [held EXCEPT ![Forward] = Nil]
      /\ UNCHANGED <<at, memory, k, lsu, want, kept, up>>
  BY DEF Use, Stay
<1>2. place \in Outcomes
  BY DEF Outcomes
<1>3. want.due => place = "forwarded"
  <2>1. SUFFICES ASSUME want.due PROVE place = "forwarded"
    OBVIOUS
  <2>2. held[Forward] \in Kept /\ cells[held[Forward]].dest = want.net
    BY <1>1, <2>1 DEF MatchInv, Found
  <2>3. held[Forward] # Nil /\ cells[held[Forward]].dest \in Nets
    BY <2>2, KeptFacts, Apart DEF IInv
  <2>4. dest = want.net /\ dest # Nil /\ dest # Junk
    BY <2>2, <2>3, RoutingTableAssumption
  <2> HIDE DEF dest
  <2> QED BY <2>4
<1> HIDE DEF place
<1>4. place \in Pcs \ {"take", "unlink", "free", "tail", "link", "fill"}
  BY <1>2 DEF Pcs, Outcomes
<1>5. GoAt(Forward, place, at[Forward])
  <2>1. at' = [at EXCEPT ![Forward] = at[Forward]]
    BY <1>1 DEF IInv, TypeOK
  <2> QED BY <1>1, <2>1 DEF GoAt
<1>6. /\ held' \in [Threads -> Ptrs] /\ held'[Forward] = Nil
      /\ \A s \in Threads : s # Forward => held'[s] = held[s]
  BY <1>1, Apart DEF IInv, TypeOK
<1>7. IInv' /\ Grows /\ pc'[Forward] = place
  BY <1>1, <1>4, <1>5, <1>6, Reads, LsuKinds
<1>8. place \notin {"match", "use"}
  BY <1>2 DEF Outcomes
<1> QED BY <1>1, <1>3, <1>6, <1>7, <1>8 DEF MatchInv

-----------------------------------------------------------------------------
(***************************************************************************)
(* The initial table, and every step.                                      *)
(***************************************************************************)
LEMMA NetsOfTables ==
  ASSUME NEW table \in Tables, NEW c \in DOMAIN table.routes
  PROVE  table.routes[c].dest \in Nets /\ table.routes[c].dynamic \in BOOLEAN
<1>1. table.routes \in Seq(Route)
  BY RoutingTableAssumption
<1>2. table.routes[c] \in Route
  BY <1>1
<1>3. table.routes[c].dest \in {r.dest : r \in Seen(table.routes)}
  BY DEF Seen
<1>4. table.routes[c].dest \in Nets
  BY <1>3 DEF Nets
<1> QED BY <1>2, <1>4 DEF Route

LEMMA InitInv ==
  ASSUME Init
  PROVE  IInv /\ MatchInv /\ LsuInv
<1>1. PICK table \in Tables :
        /\ head = IF table.routes = <<>> THEN Nil ELSE 1
        /\ cells = Listed(table.routes)
        /\ used = DOMAIN table.routes
        /\ pc = [t \in Threads |-> IF t # Start THEN "idle"
                                   ELSE IF table.done THEN "done" ELSE "next"]
        /\ at = [t \in Threads |-> Nil]
        /\ held = [t \in Threads |-> Nil]
        /\ k = [t \in Adders |-> 1]
        /\ lsu = [counted |-> 0, filled |-> 0, kept |-> 0, settled |-> FALSE]
        /\ want = [net |-> Junk, due |-> FALSE]
        /\ kept = Static(table.routes)
        /\ up = TRUE
  BY DEF Init
<1> DEFINE routes == table.routes
           n == Len(routes)
<1>2. routes \in Seq(Route) /\ table.done \in BOOLEAN /\ 1 .. n \subseteq Cells
  BY RoutingTableAssumption
<1>3. n \in Nat /\ DOMAIN routes = 1 .. n
  BY <1>2
<1>4. PICK fixed \in 0 .. n :
        /\ \A c \in DOMAIN routes : routes[c].dynamic <=> c > fixed
        /\ table.done \/ fixed = n
  BY RoutingTableAssumption
<1>5. \A c \in 1 .. n : routes[c].dest \in Nets /\ routes[c].dynamic \in BOOLEAN
  BY <1>3, NetsOfTables
<1>6. routes = <<>> <=> n = 0
  BY <1>2, EmptySeq
<1> DEFINE next(c) == IF c = n THEN Nil ELSE c + 1
<1>7. /\ cells = [c \in Cells |->
                    IF c \in 1 .. n
                    THEN [dest |-> routes[c].dest, dynamic |-> routes[c].dynamic,
                          next |-> next(c)]
                    ELSE [dest |-> Junk, dynamic |-> FALSE, next |-> Nil]]
      /\ used = 1 .. n /\ head = IF n = 0 THEN Nil ELSE 1
      /\ kept = [c \in {c \in 1 .. n : ~routes[c].dynamic} |-> c]
  BY <1>1, <1>3, <1>6 DEF Listed, Static
<1>8. {c \in 1 .. n : ~routes[c].dynamic} = 1 .. fixed
  BY <1>3, <1>4
<1>9. \A c \in 1 .. n : routes[c].dynamic <=> c > fixed
  BY <1>3, <1>4
<1>10. pc = [t \in Threads |-> IF t # Start THEN "idle"
                               ELSE IF table.done THEN "done" ELSE "next"]
  BY <1>1
<1>11. /\ n \in Nat /\ fixed \in Nat /\ fixed <= n /\ 1 .. n \subseteq Cells
       /\ pc[Start] # "done" => fixed = n
  BY <1>2, <1>3, <1>4, <1>10, Apart
<1> HIDE DEF n, routes
<1>12. kept = [c \in 1 .. fixed |-> c]
  BY <1>7, <1>8
<1>13. /\ kept \in Seq(Cells) /\ Len(kept) = fixed /\ DOMAIN kept = 1 .. fixed
       /\ \A i \in 1 .. fixed : kept[i] = i
  <2>1. \A i \in 1 .. fixed : i \in Cells
    BY <1>11
  <2> QED BY <1>11, <1>12, <2>1
<1>14. Kept = 1 .. fixed
  BY <1>13 DEF Kept, Seen
<1>15. Front = 1 .. fixed - 1
  <2>1. Front = {kept[i] : i \in 1 .. fixed - 1}
    BY <1>13 DEF Front
  <2>2. \A i \in 1 .. fixed - 1 : kept[i] = i
    BY <1>11, <1>13
  <2> QED BY <2>1, <2>2
<1>16. 1 .. n \subseteq Cells /\ \A c \in 1 .. n : next(c) \in Ptrs
  <2>1. 1 .. n \subseteq Cells
    BY <1>11
  <2>2. ASSUME NEW c \in 1 .. n PROVE next(c) \in Ptrs
    <3>1. CASE c = n
      BY <3>1, Apart
    <3>2. CASE c # n
      <4>1. c + 1 \in 1 .. n
        BY <1>11, <3>2
      <4> QED BY <2>1, <3>2, <4>1, Apart
    <3> QED BY <3>1, <3>2
  <2> QED BY <2>1, <2>2
<1>17. /\ \A c \in 1 .. n : /\ cells[c].dest = routes[c].dest
                            /\ cells[c].dynamic = routes[c].dynamic
                            /\ cells[c].next = next(c)
       /\ \A c \in Cells \ 1 .. n : cells[c].next = Nil
  BY <1>7, <1>16
<1>18. cells \in [Cells -> Entry]
  <2>1. \A c \in 1 .. n : [dest |-> routes[c].dest, dynamic |-> routes[c].dynamic,
                           next |-> next(c)] \in Entry
    BY <1>5, <1>16 DEF Entry, n, routes
  <2>2. [dest |-> Junk, dynamic |-> FALSE, next |-> Nil] \in Entry
    BY Apart DEF Entry
  <2> QED BY <1>7, <2>1, <2>2
<1>19. TypeOK
  <2>1. head \in Cells \cup {Nil}
    <3>1. CASE n = 0
      BY <1>7, <3>1
    <3>2. CASE n # 0
      <4>1. 1 \in 1 .. n
        BY <1>11, <3>2
      <4> QED BY <1>7, <1>16, <3>2, <4>1
    <3> QED BY <3>1, <3>2
  <2>2. lsu \in [counted : Nat, filled : Nat, kept : Nat, settled : BOOLEAN]
    BY <1>1
  <2>3. want \in [net : Nets \cup {Junk}, due : BOOLEAN]
    BY <1>1
  <2>4. pc \in [Threads -> Pcs] /\ \A t \in Threads : pc[t] \in {"idle", "next", "done"}
    BY <1>10 DEF Pcs
  <2>5. at \in [Threads -> Ptrs] /\ held \in [Threads -> Ptrs]
    BY <1>1, Apart
  <2> QED BY <1>1, <1>7, <1>13, <1>16, <1>18, <2>1, <2>2, <2>3, <2>4, <2>5 DEF TypeOK, Pcs
<1>20. Places
  <2>1. \A t \in Adders : k[t] = 1 /\ pc[t] \in {"idle", "next", "done"}
    BY <1>1, <1>10, Apart
  <2>2. pc[Start] \in {"next", "done"}
    BY <1>10, Apart
  <2> QED BY <2>1, <2>2 DEF Places
<1>21. ConnectedKept
  <2>1. kept # <<>> => head = kept[1]
    <3>1. ASSUME kept # <<>> PROVE head = kept[1]
      <4>1. fixed # 0
        BY <1>13, <3>1, EmptySeq
      <4>2. 1 \in 1 .. fixed /\ n # 0
        BY <1>11, <4>1
      <4> QED BY <1>7, <1>13, <4>2
    <3> QED BY <3>1
  <2>2. ASSUME NEW i \in 1 .. fixed
        PROVE  /\ kept[i] \in used
               /\ cells[kept[i]].dest \in Nets /\ ~cells[kept[i]].dynamic
               /\ i < fixed => cells[kept[i]].next = kept[i + 1]
    <3>1. i \in 1 .. n /\ ~(i > fixed)
      BY <1>11
    <3>2. cells[i].dest \in Nets /\ ~cells[i].dynamic
      BY <1>5, <1>9, <1>17, <3>1 DEF n, routes
    <3>3. ASSUME i < fixed PROVE cells[i].next = kept[i + 1]
      <4>1. i # n /\ i + 1 \in 1 .. fixed
        BY <1>11, <3>3
      <4> QED BY <1>13, <1>17, <3>1, <4>1
    <3> QED BY <1>7, <1>13, <3>1, <3>2, <3>3
  <2> QED BY <1>13, <2>1, <2>2 DEF ConnectedKept
<1>22. Distinct
  BY <1>13 DEF Distinct
<1>23. NoneInto
  <2>1. ASSUME NEW c \in Cells \ Front PROVE cells[c].next \notin Kept
    <3>1. CASE c \in 1 .. n
      <4>1. CASE c = n
        BY <1>11, <1>14, <1>17, <3>1, <4>1 DEF Nil
      <4>2. CASE c # n
        <5>1. cells[c].next = c + 1
          BY <1>17, <3>1, <4>2
        <5>2. ~(c \in 1 .. fixed - 1)
          BY <1>15, <2>1
        <5>3. ~(c + 1 \in 1 .. fixed)
          BY <1>11, <3>1, <5>2
        <5> QED BY <1>14, <5>1, <5>3
      <4> QED BY <4>1, <4>2
    <3>2. CASE c \notin 1 .. n
      BY <1>11, <1>14, <1>17, <3>2 DEF Nil
    <3> QED BY <3>1, <3>2
  <2> QED BY <2>1 DEF NoneInto
<1>24. Behind
  <2>1. \A t \in Adders : pc[t] \in {"idle", "next", "done"}
    BY <1>10, Apart
  <2>2. \A r \in Runs : held[r] = Nil
    BY <1>1, Apart
  <2>3. Nil \notin Kept
    BY <1>11, <1>14 DEF Nil
  <2> QED BY <2>1, <2>2, <2>3 DEF Behind
<1>25. Undisturbed
  <2>1. \A r \in Runs : held[r] = Nil
    BY <1>1, Apart
  <2>2. ASSUME Alone
        PROVE  /\ \A c \in Cells \ Kept : cells[c].next \in {Nil, Wild}
               /\ kept = <<>> => head = Nil
               /\ kept # <<>> => cells[Last].next = Nil
               /\ pc[Start] = "next"
    <3>1. fixed = n /\ pc[Start] = "next"
      BY <1>10, <1>11, <2>2, Apart DEF Alone
    <3>2. \A c \in Cells \ Kept : cells[c].next \in {Nil, Wild}
      BY <1>14, <1>17, <3>1
    <3>3. kept = <<>> => n = 0
      BY <1>13, <3>1, EmptySeq
    <3>4. ASSUME kept # <<>> PROVE cells[Last].next = Nil
      <4>1. n # 0
        BY <1>13, <3>1, <3>4, EmptySeq
      <4>2. n \in 1 .. n
        BY <1>11, <4>1
      <4>3. Last = n
        BY <1>13, <3>1, <4>2 DEF Last
      <4> QED BY <1>17, <4>2, <4>3
    <3> QED BY <1>7, <3>1, <3>2, <3>3, <3>4
  <2> QED BY <2>1, <2>2 DEF Undisturbed
<1>26. MatchInv /\ LsuInv
  <2>1. pc[Forward] = "idle" /\ pc[Lsu] = "idle" /\ held[Forward] = Nil
    BY <1>1, <1>10, Apart
  <2>2. ~want.due /\ lsu.kept = 0
    BY <1>1
  <2>3. lsu.kept <= Len(kept)
    BY <1>11, <1>13, <2>2
  <2> QED BY <2>1, <2>2, <2>3 DEF MatchInv, LsuInv, LsuAnnounces, Outcomes
<1> QED BY <1>19, <1>20, <1>21, <1>22, <1>23, <1>24, <1>25, <1>26 DEF IInv

\* The steps of the adders, and what they leave to the readers.
LEMMA AdderKeeps ==
  ASSUME IInv, up, NEW t \in Adders, AdderStep(t) \/ (t \in Runs /\ RunStep(t))
  PROVE  /\ IInv' /\ Grows /\ lsu' = lsu /\ want' = want
         /\ \A s \in {Lsu, Forward} :
              pc'[s] = pc[s] /\ at'[s] = at[s] /\ held'[s] = held[s]
<1>1. IInv' /\ Grows
  <2>1. ASSUME AdderStep(t) PROVE IInv' /\ Grows
    BY <2>1, NextNetStep, CheckRouteStep, AddStep, LinkFirstStep, TailStep, LinkStep,
       FillStep DEF AdderStep
  <2>2. CASE t \in Runs /\ RunStep(t)
    BY <2>1, <2>2, BeginStep, ClearStep, TakeStep, UnlinkStep, FreeStep DEF RunStep
  <2> QED BY <2>1, <2>2
<1>2. /\ \A s \in {Lsu, Forward} : s \in Threads /\ s # t
      /\ pc \in [Threads -> Pcs] /\ at \in [Threads -> Ptrs] /\ held \in [Threads -> Ptrs]
  BY Apart DEF IInv, TypeOK, Pcs
<1> DEFINE Still == /\ lsu' = lsu /\ want' = want
                    /\ \A s \in {Lsu, Forward} :
                         pc'[s] = pc[s] /\ at'[s] = at[s] /\ held'[s] = held[s]
<1>3. ASSUME NEW place, NEW p, GoAt(t, place, p)
      PROVE  \A s \in {Lsu, Forward} : pc'[s] = pc[s] /\ at'[s] = at[s]
  BY <1>2, <1>3 DEF GoAt, Go
<1>4. ASSUME NEW place, Go(t, place)
      PROVE  \A s \in {Lsu, Forward} : pc'[s] = pc[s]
  BY <1>2, <1>4 DEF Go
<1>5. ASSUME NEW place, NEW p, MoveAt(t, place, p) PROVE Still
  BY <1>3, <1>5 DEF MoveAt, Stay
<1>6. ASSUME NEW place, Move(t, place) PROVE Still
  BY <1>5, <1>6 DEF Move
<1>7. ASSUME Die PROVE Still
  BY <1>7 DEF Die, walk
<1> HIDE DEF Still
<1>8. ASSUME AdderStep(t) PROVE Still
  <2>1. ASSUME NextNet(t) PROVE Still
    BY <1>5, <1>6, <2>1 DEF NextNet
  <2>2. ASSUME CheckRoute(t) PROVE Still
    BY <1>3, <1>5, <1>6, <1>7, <2>2 DEF CheckRoute, Still, Stay
  <2>3. ASSUME Add(t) PROVE Still
    BY <1>5, <2>3 DEF Add
  <2>4. ASSUME LinkFirst(t) \/ Link(t) PROVE Still
    BY <1>4, <2>4 DEF LinkFirst, Link, Still, Stay
  <2>5. ASSUME Tail_(t) PROVE Still
    BY <1>5, <1>6, <1>7, <2>5 DEF Tail_
  <2>6. ASSUME Fill(t) PROVE Still
    BY <1>3, <1>7, <2>6 DEF Fill, Still
  <2> QED BY <1>8, <2>1, <2>2, <2>3, <2>4, <2>5, <2>6 DEF AdderStep
<1>9. ASSUME RunStep(t) PROVE Still
  <2>1. ASSUME Begin(t) \/ Clear(t) PROVE Still
    BY <1>5, <1>6, <1>7, <2>1 DEF Begin, Clear
  <2>2. ASSUME Take(t) PROVE Still
    BY <1>2, <1>4, <2>2 DEF Take, Still, Stay
  <2>3. ASSUME Unlink(t) PROVE Still
    BY <1>4, <1>7, <2>3 DEF Unlink, Still, Stay
  <2>4. ASSUME Free(t) PROVE Still
    BY <1>2, <1>4, <1>6, <1>7, <2>4 DEF Free, Still, Stay
  <2> QED BY <1>8, <1>9, <2>1, <2>2, <2>3, <2>4 DEF RunStep
<1> QED BY <1>1, <1>8, <1>9 DEF Still

LEMMA NextKeeps ==
  ASSUME IInv, MatchInv, LsuInv, FitInv, [Next]_vars
  PROVE  IInv' /\ MatchInv' /\ LsuInv' /\ FitInv'
<1>1. Lsu \in Threads /\ Forward \in Threads /\ Lsu # Forward
  BY Apart
<1>2. /\ pc \in [Threads -> Pcs] /\ at \in [Threads -> Ptrs] /\ held \in [Threads -> Ptrs]
  BY DEF IInv, TypeOK, Pcs
<1>3. ASSUME up, NEW t \in Adders, AdderStep(t) \/ (t \in Runs /\ RunStep(t))
      PROVE  IInv' /\ MatchInv' /\ LsuInv' /\ FitInv'
  <2>1. /\ IInv' /\ Grows /\ lsu' = lsu /\ want' = want
        /\ \A s \in {Lsu, Forward} :
             pc'[s] = pc[s] /\ at'[s] = at[s] /\ held'[s] = held[s]
    BY <1>3, AdderKeeps
  <2>2. Settled => Settled' /\ kept' = kept
    BY <1>3, SettledStays
  <2> QED BY <2>1, <2>2, LsuStays, MatchStays, FitStays
<1>4. ASSUME LsuStep
      PROVE  IInv' /\ MatchInv' /\ LsuInv' /\ FitInv'
  <2>1. IInv' /\ Grows /\ LsuInv'
    BY <1>4, LsuBeginStep, CountStep, WriteStep DEF LsuStep
  <2>2. /\ pc'[Forward] = pc[Forward] /\ at'[Forward] = at[Forward]
        /\ held'[Forward] = held[Forward] /\ want' = want
    BY <1>1, <1>2, <1>4 DEF LsuStep, LsuBegin, Count, Write, MoveAt, Move, GoAt, Go, Stay,
       Die, walk
  <2>3. FitInv'
    BY <1>4, FitWrites
  <2> QED BY <2>1, <2>2, <2>3, MatchStays
<1>5. ASSUME ForwardStep
      PROVE  IInv' /\ MatchInv' /\ LsuInv' /\ FitInv'
  <2>1. IInv' /\ Grows /\ MatchInv'
    BY <1>5, PacketInStep, MatchStep, UseStep DEF ForwardStep
  <2>2. pc'[Lsu] = pc[Lsu] /\ at'[Lsu] = at[Lsu] /\ lsu' = lsu
    <3>1. ASSUME PacketIn \/ Match PROVE pc'[Lsu] = pc[Lsu] /\ at'[Lsu] = at[Lsu] /\ lsu' = lsu
      BY <1>1, <1>2, <3>1 DEF PacketIn, Match, MoveAt, Move, GoAt, Go, Stay, Die, walk
    <3>2. ASSUME NEW place, Go(Forward, place) PROVE pc'[Lsu] = pc[Lsu]
      BY <1>1, <1>2, <3>2 DEF Go
    <3>3. ASSUME Use PROVE pc'[Lsu] = pc[Lsu] /\ at'[Lsu] = at[Lsu] /\ lsu' = lsu
      BY <3>2, <3>3 DEF Use, Stay
    <3> QED BY <1>5, <3>1, <3>3 DEF ForwardStep
  <2>3. Start \in Threads /\ Forward # Start
    BY Apart
  <2>4. Settled => Settled' /\ kept' = kept
    <3>1. kept' = kept /\ cells' = cells
      BY <1>5 DEF ForwardStep, PacketIn, Match, Use, MoveAt, Move, Stay, Die, walk, memory
    <3>2. pc'[Start] = pc[Start]
      <4>1. ASSUME NEW place, Go(Forward, place) PROVE pc'[Start] = pc[Start]
        BY <1>1, <1>2, <2>3, <4>1 DEF Go
      <4> QED BY <1>5, <4>1
           DEF ForwardStep, PacketIn, Match, Use, MoveAt, Move, GoAt, Die, walk
    <3> QED BY <3>1, <3>2 DEF Settled
  <2> QED BY <2>1, <2>2, <2>4, LsuStays, FitStays
<1>6. ASSUME UNCHANGED vars
      PROVE  IInv' /\ MatchInv' /\ LsuInv' /\ FitInv'
  <2>1. UNCHANGED <<head, cells, used, pc, at, held, k, lsu, want, kept, up>>
    BY <1>6 DEF vars, memory, walk
  <2>2. NoRunYet' = NoRunYet /\ Kept' = Kept /\ Front' = Front /\ Last' = Last
    BY <2>1 DEF NoRunYet, Kept, Front, Seen, Last
  <2>3. Alone' = Alone
    BY <2>1, <2>2 DEF Alone
  <2>4. TypeOK' /\ Places' /\ ConnectedKept' /\ Distinct' /\ NoneInto' /\ Behind'
    BY <2>1, <2>2
       DEF IInv, TypeOK, Places, ConnectedKept, Distinct, NoneInto, Behind, Todo
  <2>5. Undisturbed'
    BY <2>1, <2>2, <2>3 DEF IInv, Undisturbed
  <2>6. IInv' /\ Grows
    BY <2>1, <2>4, <2>5 DEF IInv, Grows
  <2>7. Settled' = Settled /\ kept' = kept
    BY <2>1 DEF Settled
  <2> QED BY <2>1, <2>6, <2>7, LsuStays, MatchStays, FitStays
<1> QED BY <1>3, <1>4, <1>5, <1>6, Apart DEF Next

LEMMA Invariant == Spec => [](IInv /\ MatchInv /\ LsuInv /\ FitInv)
<1>1. Init => IInv /\ MatchInv /\ LsuInv /\ FitInv
  <2>1. Init => ~lsu.settled
    BY DEF Init
  <2> QED BY <2>1, InitInv DEF FitInv
<1>2. (IInv /\ MatchInv /\ LsuInv /\ FitInv) /\ [Next]_vars
        => (IInv /\ MatchInv /\ LsuInv /\ FitInv)'
  BY NextKeeps
<1> QED BY <1>1, <1>2, PTL DEF Spec

(***************************************************************************)
(* The types, and that a thread which goes on from an entry has one.       *)
(***************************************************************************)
THEOREM TypeCorrect == Spec => []TypeOK
<1>1. IInv => TypeOK
  BY DEF IInv
<1> QED BY <1>1, Invariant, PTL

(***************************************************************************)
(* The routes that preceded every run stay at the front of the table, with *)
(* any number of runs that clear it and add to it at the same time.        *)
(***************************************************************************)
THEOREM KeptForGood == Spec => []ConnectedKept
<1>1. IInv => ConnectedKept
  BY DEF IInv
<1> QED BY <1>1, Invariant, PTL

(***************************************************************************)
(* A packet for one of their networks is forwarded, whatever the runs do   *)
(* to the table between the match and the use of the entry it found.       *)
(***************************************************************************)
THEOREM Reached == Spec => []ConnectedReached
<1>1. MatchInv => ConnectedReached
  BY DEF MatchInv, ConnectedReached
<1> QED BY <1>1, Invariant, PTL

(***************************************************************************)
(* And an LSU announces each of them, whatever they do between the count   *)
(* of the routes and the walk that writes them; it is no longer than the   *)
(* packet allocated for those counted if no run overlapped with start-up.  *)
(***************************************************************************)
THEOREM Announced == Spec => []LsuComplete
<1>1. IInv /\ LsuInv /\ FitInv => LsuComplete
  <2> SUFFICES ASSUME IInv, LsuInv, FitInv PROVE LsuComplete
    OBVIOUS
  <2>1. lsu.kept \in Nat /\ lsu.filled \in Nat /\ lsu.counted \in Nat
    BY LsuKinds
  <2> QED BY <2>1 DEF LsuInv, FitInv, LsuComplete, LsuFits
<1> QED BY <1>1, Invariant, PTL
=============================================================================
