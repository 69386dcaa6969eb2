------------------------- MODULE LsuAnnounceProofs --------------------------
(***************************************************************************)
(* Theorems of LsuAnnounce for any number of interfaces, any LSU interval  *)
(* and timeout that fit, and any number of sequence numbers above twice    *)
(* the number of interfaces.                                               *)
(***************************************************************************)
EXTENDS LsuAnnounce, TLAPS, FiniteSetTheorems

(***************************************************************************)
(* Where the threads are.  The round's own send_lsu runs only while        *)
(* send_all_lsu waits for it, a send_lsu thread only when there is a       *)
(* neighbour on Watched to send to, and the watched neighbour stays.       *)
(***************************************************************************)
InPlace ==
  /\ handler.at = "threads" => handler.iface \in Ifaces
  /\ thread[Round].at # "idle" => round.at = "sending"
  /\ round.at \in {"loop", "sending"} => round.iface # 0
  /\ Locked => round.wait = 0
  /\ \A i \in Ifaces : thread[i].at # "idle" => Watched \in neighbors
  /\ round.at = "sending" /\ round.iface = Watched => Watched \in neighbors
  /\ last # SeqNumbers \/ claim # NoClaim => Watched \in neighbors

(***************************************************************************)
(* The HELLO handler loads and stores while no round ends, or in the very  *)
(* second in which one has ended.                                          *)
(***************************************************************************)
LoadedNow ==
  handler.at = "store" =>
    handler.value = number \/ (~Locked /\ round.wait = LsuInt)

\* The round has not taken its number for the watched neighbour yet.
Before ==
  \/ round.at = "loop" /\ round.iface <= Watched
  \/ /\ round.at = "sending"
     /\ \/ round.iface < Watched
        \/ round.iface = Watched /\ thread[Round].at = "begin"

(***************************************************************************)
(* How many increments a number is ahead of the last one a round sent, and *)
(* how many there can have been: one for each neighbour that is new since  *)
(* the last round began, the one the handler was at then, and the round's. *)
(***************************************************************************)
Ahead(v) == IF last <= v THEN v - last ELSE v + SeqNumbers - last
Pending == IF handler.at = "idle" THEN 0 ELSE 1
New == Cardinality(greeted \ {Watched})
Others == Cardinality(Ifaces) - 1
Spread == IF Before THEN Others + 2 ELSE IF Locked THEN 1 ELSE 2

Few ==
  /\ Ahead(number) + Pending <= New + Spread
  /\ handler.at = "store" => Ahead(handler.value) < New + Spread
  /\ round.at = "store" => Ahead(round.value) + Pending <= New + 1
  /\ Before \/ ~Locked => number # last

FewIncrements == last # SeqNumbers => Few

\* The round has not sent the watched neighbour its LSU yet.
Unsent ==
  \/ round.at = "loop" /\ round.iface <= Watched
  \/ /\ round.at = "sending"
     /\ \/ round.iface < Watched
        \/ round.iface = Watched /\ thread[Round].at # "idle"

(***************************************************************************)
(* A claim that was never refused an update is no older than the last      *)
(* round.                                                                  *)
(***************************************************************************)
YoungClaim ==
  claim # NoClaim /\ ~repeated =>
    claim.age <= IF ~Locked THEN LsuInt - round.wait
                 ELSE IF Unsent THEN LsuInt ELSE 0

IInv == TypeOK /\ InPlace /\ LoadedNow /\ FewIncrements /\ YoungClaim
-----------------------------------------------------------------------------

\* The constants: how many interfaces there are, and what they are not.
LEMMA Parameters ==
  /\ Cardinality(Ifaces) \in Nat
  /\ \A i : i \in Ifaces <=> i \in Nat /\ 1 <= i /\ i <= Cardinality(Ifaces)
  /\ Watched \in Ifaces /\ Round \notin Ifaces
  /\ Round \in Threads /\ Ifaces \subseteq Threads
  /\ LsuInt \in Nat \ {0} /\ TopoTimeout \in Nat /\ LsuInt <= TopoTimeout
  /\ SeqNumbers \in Nat /\ 2 * Cardinality(Ifaces) < SeqNumbers
  /\ 0 \in Numbers
<1>1. Cardinality(Ifaces) \in Nat
  BY AnnounceAssumption, FS_CardinalityType
<1>2. Ifaces = 1 .. Cardinality(Ifaces)
  BY AnnounceAssumption
<1>3. 2 * Cardinality(Ifaces) < SeqNumbers /\ SeqNumbers \in Nat
  BY AnnounceAssumption
<1>4. 0 \in Numbers
  BY <1>1, <1>3 DEF Numbers
<1> QED
  BY <1>1, <1>2, <1>3, <1>4, AnnounceAssumption DEF Threads, Round

\* An increment of g_sequence_num is a number again.
LEMMA IncrementType == \A v \in Numbers : Increment(v) \in Numbers
  BY Parameters DEF Increment, Numbers

LEMMA TypeInit == Init => TypeOK
<1> SUFFICES ASSUME Init PROVE TypeOK
  OBVIOUS
<1>1. Idle \in [at : {"idle", "begin", "fill"}, seq : Numbers]
  BY Parameters DEF Idle
<1>2. thread \in [Threads -> [at : {"idle", "begin", "fill"}, seq : Numbers]]
  BY <1>1 DEF Init
<1>3. round \in [at : {"asleep", "loop", "sending", "store"}, iface : Nat,
                value : Numbers, wait : 0 .. LsuInt]
  BY Parameters DEF Init
<1>4. handler \in [at : {"idle", "threads", "load", "store"},
                  iface : Ifaces \cup {0}, value : Numbers]
  BY Parameters DEF Init
<1>5. neighbors \subseteq Ifaces /\ number \in Numbers /\ greeted \subseteq Ifaces
  BY Parameters DEF Init
<1>6. last \in 0 .. SeqNumbers
  BY Parameters DEF Init
<1>7. repeated \in BOOLEAN /\ claim = NoClaim
  BY DEF Init
<1> QED
  BY <1>2, <1>3, <1>4, <1>5, <1>6, <1>7 DEF TypeOK

\* Every thread keeps its type when one of them is put somewhere.
LEMMA ThreadType ==
  ASSUME TypeOK, NEW t \in Threads, NEW s \in {"idle", "begin", "fill"},
         NEW q \in Numbers
  PROVE  [thread EXCEPT ![t] = [at |-> s, seq |-> q]]
           \in [Threads -> [at : {"idle", "begin", "fill"}, seq : Numbers]]
  BY DEF TypeOK

LEMMA TypeStep == TypeOK /\ InPlace /\ [Next]_vars => TypeOK'
<1> SUFFICES ASSUME TypeOK, InPlace, [Next]_vars PROVE TypeOK'
  OBVIOUS
<1> USE Parameters
<1>1. ASSUME NEW i \in Ifaces, NewNeighbor(i) PROVE TypeOK'
  BY <1>1 DEF NewNeighbor, TypeOK
<1>2. ASSUME NEW i \in Ifaces, Leave(i) PROVE TypeOK'
  BY <1>2 DEF Leave, TypeOK
<1>3. ASSUME NEW t \in Threads, TakeNumber(t) PROVE TypeOK'
  <2>1. thread' \in [Threads -> [at : {"idle", "begin", "fill"}, seq : Numbers]]
    BY <1>3, ThreadType DEF TakeNumber, TypeOK, Idle
  <2>2. last' \in 0 .. SeqNumbers
    BY <1>3 DEF TakeNumber, TypeOK, Numbers
  <2> QED
    BY <1>3, <2>1, <2>2 DEF TakeNumber, TypeOK
<1>4. ASSUME NEW t \in Threads, FillAndSend(t) PROVE TypeOK'
  <2>1. thread' \in [Threads -> [at : {"idle", "begin", "fill"}, seq : Numbers]]
    BY <1>4, ThreadType DEF FillAndSend, TypeOK, Idle
  <2>2. /\ \/ claim' = NoClaim
           \/ claim' \in [seq : Numbers, links : SUBSET Ifaces,
                          age : 0 .. TopoTimeout]
        /\ repeated' \in BOOLEAN
    <3>1. CASE UNCHANGED <<claim, repeated>>
      BY <3>1 DEF TypeOK, NoClaim
    <3>2. CASE Repeated(t)
      BY <3>2 DEF Repeated, TypeOK, NoClaim
    <3>3. CASE Accepted(t)
      <4>1. thread[t].seq \in Numbers
        BY DEF TypeOK
      <4>2. neighbors \subseteq Ifaces /\ 0 \in 0 .. TopoTimeout
        BY DEF TypeOK
      <4>3. /\ claim' = [seq |-> thread[t].seq, links |-> neighbors, age |-> 0]
            /\ repeated' = FALSE
        BY <3>3 DEF Accepted
      <4> QED
        BY <4>1, <4>2, <4>3
    <3> QED
      BY <3>1, <3>2, <3>3, <1>4 DEF FillAndSend
  <2> QED
    BY <1>4, <2>1, <2>2 DEF FillAndSend, TypeOK, NoClaim
<1>5. CASE StartThreads
  <2>1. thread' \in [Threads -> [at : {"idle", "begin", "fill"}, seq : Numbers]]
    BY <1>5, ThreadType DEF StartThreads, TypeOK, InPlace
  <2> QED
    BY <1>5, <2>1 DEF StartThreads, TypeOK, NoClaim
<1>6. CASE HandlerLoads
  BY <1>6 DEF HandlerLoads, TypeOK, NoClaim
<1>7. CASE HandlerStores
  BY <1>7, IncrementType DEF HandlerStores, TypeOK, NoClaim
<1>8. CASE RoundBegins
  BY <1>8 DEF RoundBegins, TypeOK, NoClaim
<1>9. CASE RoundSends
  <2>1. thread' \in [Threads -> [at : {"idle", "begin", "fill"}, seq : Numbers]]
    BY <1>9, ThreadType DEF RoundSends, TypeOK
  <2> QED
    BY <1>9, <2>1 DEF RoundSends, TypeOK, NoClaim
<1>10. CASE RoundGoesOn
  <2>1. round.iface + 1 \in Nat
    BY DEF TypeOK
  <2>2. round' = [round EXCEPT !.at = "loop", !.iface = round.iface + 1]
    BY <1>10 DEF RoundGoesOn
  <2>3. round' \in [at : {"asleep", "loop", "sending", "store"}, iface : Nat,
                    value : Numbers, wait : 0 .. LsuInt]
    BY <2>1, <2>2 DEF TypeOK
  <2> QED
    BY <1>10, <2>3 DEF RoundGoesOn, TypeOK, NoClaim
<1>11. CASE RoundLoads
  BY <1>11 DEF RoundLoads, TypeOK, NoClaim
<1>12. CASE RoundEnds
  BY <1>12, IncrementType DEF RoundEnds, TypeOK, NoClaim
<1>13. CASE Second
  <2>1. round.wait # 0
    BY <1>13 DEF Second, Busy
  <2>2. round' \in [at : {"asleep", "loop", "sending", "store"}, iface : Nat,
                    value : Numbers, wait : 0 .. LsuInt]
    BY <1>13, <2>1 DEF Second, TypeOK
  <2>3. \/ claim' = NoClaim
        \/ claim' \in [seq : Numbers, links : SUBSET Ifaces,
                       age : 0 .. TopoTimeout]
    BY <1>13 DEF Second, Older, TypeOK
  <2> QED
    BY <1>13, <2>2, <2>3 DEF Second, TypeOK, NoClaim
<1>14. CASE UNCHANGED vars
  BY <1>14 DEF vars, TypeOK, NoClaim
<1> QED
  BY <1>1, <1>2, <1>3, <1>4, <1>5, <1>6, <1>7, <1>8, <1>9, <1>10, <1>11,
     <1>12, <1>13, <1>14 DEF Next, Handler, SendLsu, SendAllLsu
-----------------------------------------------------------------------------

\* The threads stay where InPlace says they are.
LEMMA PlaceStep == TypeOK /\ InPlace /\ [Next]_vars => InPlace'
<1> SUFFICES ASSUME TypeOK, InPlace, [Next]_vars PROVE InPlace'
  OBVIOUS
<1> USE Parameters
<1>a. /\ thread \in [Threads -> [at : {"idle", "begin", "fill"}, seq : Numbers]]
      /\ handler \in [at : {"idle", "threads", "load", "store"},
                      iface : Ifaces \cup {0}, value : Numbers]
      /\ round \in [at : {"asleep", "loop", "sending", "store"}, iface : Nat,
                    value : Numbers, wait : 0 .. LsuInt]
  BY DEF TypeOK
<1>b. Idle.at = "idle"
  BY DEF Idle
<1>1. ASSUME NEW i \in Ifaces, NewNeighbor(i) PROVE InPlace'
  BY <1>1, <1>a DEF NewNeighbor, InPlace, Locked, NoClaim
<1>2. ASSUME NEW i \in Ifaces, Leave(i) PROVE InPlace'
  BY <1>2, <1>a DEF Leave, InPlace, Locked, NoClaim
<1>3. ASSUME NEW t \in Threads, TakeNumber(t) PROVE InPlace'
  <2>1. /\ thread[t].at = "begin"
        /\ \A u \in Threads : thread'[u].at # "idle" => thread[u].at # "idle"
    BY <1>3, <1>a, <1>b DEF TakeNumber
  <2>2. t = Round => round.at = "sending" /\ Target(t) = round.iface
    BY <2>1 DEF InPlace, Target
  <2>3. last' # SeqNumbers \/ claim' # NoClaim => Watched \in neighbors
    BY <1>3, <2>2 DEF TakeNumber, InPlace
  <2> QED
    BY <1>3, <2>1, <2>3 DEF TakeNumber, InPlace, Locked, NoClaim
<1>4. ASSUME NEW t \in Threads, FillAndSend(t) PROVE InPlace'
  <2>1. /\ thread[t].at = "fill"
        /\ \A u \in Threads : thread'[u].at # "idle" => thread[u].at # "idle"
    BY <1>4, <1>a, <1>b DEF FillAndSend
  <2>2. Target(t) = Watched => Watched \in neighbors
    <3>1. CASE t = Round
      BY <2>1, <3>1 DEF InPlace, Target
    <3>2. CASE t \in Ifaces
      BY <2>1, <3>2 DEF InPlace
    <3> QED
      BY <3>1, <3>2 DEF Threads
  <2>3. claim' # NoClaim => claim # NoClaim \/ Target(t) = Watched
    BY <1>4 DEF FillAndSend
  <2> QED
    BY <1>4, <2>1, <2>2, <2>3 DEF FillAndSend, InPlace, Locked, NoClaim
<1>5. CASE StartThreads
  <2>1. handler.iface \in Ifaces
    BY <1>5 DEF StartThreads, InPlace
  <2>2. thread'[Round] = thread[Round]
    BY <1>5, <1>a, <2>1 DEF StartThreads
  <2>3. \A i \in Ifaces : thread'[i].at # "idle" => Watched \in neighbors
    BY <1>5, <1>a DEF StartThreads, InPlace
  <2> QED
    BY <1>5, <1>a, <2>2, <2>3 DEF StartThreads, InPlace, Locked, NoClaim
<1>6. CASE HandlerLoads
  BY <1>6, <1>a DEF HandlerLoads, InPlace, Locked, NoClaim
<1>7. CASE HandlerStores
  BY <1>7, <1>a DEF HandlerStores, InPlace, Locked, NoClaim
<1>8. CASE RoundBegins
  BY <1>8, <1>a DEF RoundBegins, InPlace, Locked, NoClaim
<1>9. CASE RoundSends
  BY <1>9, <1>a DEF RoundSends, InPlace, Locked, NoClaim
<1>10. CASE RoundGoesOn
  <2>1. thread[Round].at = "idle"
    BY <1>10, <1>b DEF RoundGoesOn, InPlace
  <2>2. round' = [round EXCEPT !.at = "loop", !.iface = round.iface + 1]
    BY <1>10 DEF RoundGoesOn
  <2>3. round'.at = "loop" /\ round'.iface # 0 /\ round'.wait = round.wait
    BY <1>a, <2>2
  <2>4. Locked
    BY <1>10 DEF RoundGoesOn, Locked
  <2> QED
    BY <1>10, <2>1, <2>3, <2>4 DEF RoundGoesOn, InPlace, Locked, NoClaim
<1>11. CASE RoundLoads
  BY <1>11, <1>a DEF RoundLoads, InPlace, Locked, NoClaim
<1>12. CASE RoundEnds
  BY <1>12, <1>a DEF RoundEnds, InPlace, Locked, NoClaim
<1>13. CASE Second
  <2>1. claim' # NoClaim => claim # NoClaim
    BY <1>13 DEF Second, Older
  <2>2. ~Locked /\ round'.at = round.at
    BY <1>13, <1>a DEF Second, Busy
  <2> QED
    BY <1>13, <2>1, <2>2 DEF Second, InPlace, Locked, NoClaim
<1>14. CASE UNCHANGED vars
  BY <1>14 DEF vars, InPlace, Locked, NoClaim
<1> QED
  BY <1>1, <1>2, <1>3, <1>4, <1>5, <1>6, <1>7, <1>8, <1>9, <1>10, <1>11,
     <1>12, <1>13, <1>14 DEF Next, Handler, SendLsu, SendAllLsu

\* The value of the handler stays the number until it stores, or a round has
\* ended since and no second has passed.
LEMMA LoadedStep == TypeOK /\ InPlace /\ LoadedNow /\ [Next]_vars => LoadedNow'
<1> SUFFICES ASSUME TypeOK, InPlace, LoadedNow, [Next]_vars PROVE LoadedNow'
  OBVIOUS
<1> USE Parameters
<1>a. /\ handler \in [at : {"idle", "threads", "load", "store"},
                      iface : Ifaces \cup {0}, value : Numbers]
      /\ round \in [at : {"asleep", "loop", "sending", "store"}, iface : Nat,
                    value : Numbers, wait : 0 .. LsuInt]
  BY DEF TypeOK
<1>1. ASSUME NEW i \in Ifaces, NewNeighbor(i) \/ Leave(i) PROVE LoadedNow'
  BY <1>1, <1>a DEF NewNeighbor, Leave, LoadedNow, Locked
<1>2. ASSUME NEW t \in Threads, SendLsu(t) PROVE LoadedNow'
  BY <1>2 DEF SendLsu, TakeNumber, FillAndSend, LoadedNow, Locked
<1>3. CASE Handler
  BY <1>3, <1>a DEF Handler, StartThreads, HandlerLoads, HandlerStores,
                    LoadedNow, Locked
<1>4. CASE RoundBegins
  BY <1>4 DEF RoundBegins, LoadedNow, Locked
<1>5. CASE RoundSends \/ RoundGoesOn \/ RoundLoads
  BY <1>5, <1>a DEF RoundSends, RoundGoesOn, RoundLoads, LoadedNow, Locked
<1>6. CASE RoundEnds
  BY <1>6 DEF RoundEnds, LoadedNow, Locked
<1>7. CASE Second
  BY <1>7 DEF Second, Busy, LoadedNow
<1>8. CASE UNCHANGED vars
  BY <1>8 DEF vars, LoadedNow, Locked
<1> QED
  BY <1>1, <1>2, <1>3, <1>4, <1>5, <1>6, <1>7, <1>8 DEF Next, SendAllLsu
-----------------------------------------------------------------------------

\* Increment without the remainder.
LEMMA IncrementIs ==
  ASSUME NEW v \in Numbers
  PROVE  Increment(v) = IF v + 1 = SeqNumbers THEN 0 ELSE v + 1
<1>1. SeqNumbers \in Nat /\ SeqNumbers > 0 /\ v \in Nat /\ v < SeqNumbers
  BY Parameters DEF Numbers
<1>2. CASE v + 1 = SeqNumbers
  <2>1. SeqNumbers % SeqNumbers = 0
    BY <1>1
  <2> QED
    BY <1>2, <2>1 DEF Increment
<1>3. CASE v + 1 # SeqNumbers
  <2>1. v + 1 \in 0 .. SeqNumbers - 1
    BY <1>1, <1>3
  <2>2. (v + 1) % SeqNumbers = v + 1
    BY <1>1, <2>1
  <2> QED
    BY <1>3, <2>2 DEF Increment
<1> QED
  BY <1>2, <1>3

\* An increment brings a number one further from the last one a round sent,
\* unless it comes all the way round to it.
LEMMA AheadByOne ==
  ASSUME last \in Numbers, NEW v \in Numbers, Ahead(v) + 1 < SeqNumbers
  PROVE  Ahead(Increment(v)) = Ahead(v) + 1
<1>1. /\ SeqNumbers \in Nat /\ v \in Nat /\ last \in Nat
      /\ v < SeqNumbers /\ last < SeqNumbers
  BY Parameters DEF Numbers
<1> QED
  BY <1>1, IncrementIs DEF Ahead

LEMMA AheadFrom ==
  ASSUME last \in Numbers, NEW v \in Numbers
  PROVE  Ahead(v) \in Nat /\ (Ahead(v) = 0 <=> v = last)
<1>1. /\ SeqNumbers \in Nat /\ v \in Nat /\ last \in Nat
      /\ v < SeqNumbers /\ last < SeqNumbers
  BY Parameters DEF Numbers
<1> QED
  BY <1>1 DEF Ahead

\* The neighbours that are new are some of the others.
LEMMA NewOnes ==
  ASSUME greeted \subseteq Ifaces
  PROVE  /\ New \in Nat /\ Others \in Nat /\ New <= Others
         /\ IsFiniteSet(greeted \ {Watched})
<1>1. IsFiniteSet(Ifaces) /\ Cardinality(Ifaces \ {Watched}) = Others
  BY AnnounceAssumption, FS_RemoveElement DEF Others
<1>2. IsFiniteSet(Ifaces \ {Watched})
  BY <1>1, FS_RemoveElement
<1>3. greeted \ {Watched} \in SUBSET (Ifaces \ {Watched})
  OBVIOUS
<1>4. IsFiniteSet(greeted \ {Watched}) /\ New <= Others
  BY <1>1, <1>2, <1>3, FS_Subset DEF New
<1>5. Others \in Nat
  BY <1>1, <1>2, FS_CardinalityType
<1> QED
  BY <1>4, <1>5, FS_CardinalityType DEF New

LEMMA OneMoreIsNew ==
  ASSUME greeted \subseteq Ifaces, NEW i \in Ifaces, i \notin greeted,
         i # Watched, greeted' = greeted \cup {i}
  PROVE  New' = New + 1
<1>1. greeted' \ {Watched} = (greeted \ {Watched}) \cup {i}
  OBVIOUS
<1>2. IsFiniteSet(greeted \ {Watched})
  BY NewOnes
<1> QED
  BY <1>1, <1>2, FS_AddElement DEF New

\* What the proof of the next lemma needs of a state.
LEMMA Distances ==
  ASSUME TypeOK, last # SeqNumbers
  PROVE  /\ last \in Numbers /\ number \in Numbers
         /\ handler.value \in Numbers /\ round.value \in Numbers
         /\ Ahead(number) \in Nat /\ (Ahead(number) = 0 <=> number = last)
         /\ Ahead(handler.value) \in Nat /\ Ahead(round.value) \in Nat
         /\ New \in Nat /\ Others \in Nat /\ New <= Others
         /\ Spread \in 1 .. Others + 2 /\ Pending \in {0, 1}
         /\ Others + Others + 2 < SeqNumbers
<1>1. /\ last \in Numbers /\ number \in Numbers
      /\ handler.value \in Numbers /\ round.value \in Numbers
      /\ greeted \subseteq Ifaces
  BY Parameters DEF TypeOK, Numbers
<1>2. New \in Nat /\ Others \in Nat /\ New <= Others
  BY <1>1, NewOnes
<1>3. Spread \in 1 .. Others + 2 /\ Pending \in {0, 1}
  BY <1>2 DEF Spread, Pending
<1>4. Others + Others + 2 < SeqNumbers
  BY <1>2, Parameters DEF Others
<1> QED
  BY <1>1, <1>2, <1>3, <1>4, AheadFrom

\* The round and the last number it sent stay: so does all but the counts.
Untouched == UNCHANGED <<last, round>> /\ thread'[Round] = thread[Round]

LEMMA SameSpread ==
  ASSUME Untouched
  PROVE  /\ (Before' <=> Before) /\ (Locked' <=> Locked) /\ Spread' = Spread
         /\ number' = number => Ahead(number)' = Ahead(number)
         /\ Ahead(round.value)' = Ahead(round.value)
         /\ handler' = handler =>
              Ahead(handler.value)' = Ahead(handler.value) /\ Pending' = Pending
         /\ greeted' = greeted => New' = New
  BY DEF Untouched, Before, Locked, Spread, Ahead, Pending, New, Others

\* A step that changes nothing the increments are counted with.
LEMMA QuietFew ==
  ASSUME Untouched, UNCHANGED <<number, handler, greeted>>, Few
  PROVE  Few'
<1>1. /\ (Before' <=> Before) /\ (Locked' <=> Locked) /\ Spread' = Spread
      /\ Ahead(number)' = Ahead(number) /\ Ahead(round.value)' = Ahead(round.value)
      /\ Ahead(handler.value)' = Ahead(handler.value)
      /\ Pending' = Pending /\ New' = New
  BY SameSpread
<1> QED
  BY <1>1 DEF Few, Untouched

\* The steps of the HELLO handler.
LEMMA HandlerFew ==
  ASSUME TypeOK, TypeOK', InPlace, Few, last # SeqNumbers,
         \/ \E i \in Ifaces : NewNeighbor(i)
         \/ Handler
  PROVE  Few'
<1> USE Parameters
<1>a. thread \in [Threads -> [at : {"idle", "begin", "fill"}, seq : Numbers]]
  BY DEF TypeOK
<1>b. handler \in [at : {"idle", "threads", "load", "store"},
                   iface : Ifaces \cup {0}, value : Numbers]
  BY DEF TypeOK
<1>1. ASSUME NEW i \in Ifaces, NewNeighbor(i) PROVE Few'
  <2>1. Untouched /\ number' = number
    BY <1>1 DEF NewNeighbor, Untouched
  <2>2. i # Watched
    BY <1>1 DEF NewNeighbor, InPlace
  <2>3. greeted \subseteq Ifaces
    BY DEF TypeOK
  <2>4. New' = New + 1
    BY <1>1, <2>2, <2>3, OneMoreIsNew DEF NewNeighbor
  <2>5. handler.at = "idle" /\ handler'.at = "threads"
    BY <1>1, <1>b DEF NewNeighbor
  <2>6. Pending = 0 /\ Pending' = 1
    BY <2>5 DEF Pending
  <2> QED
    BY <2>1, <2>4, <2>5, <2>6, SameSpread, Distances DEF Few, Untouched
<1>2. CASE StartThreads
  <2>1. handler.iface # Round
    BY <1>2 DEF StartThreads, InPlace
  <2>2. Untouched /\ number' = number /\ greeted' = greeted
    BY <1>2, <1>a, <2>1 DEF StartThreads, Untouched
  <2>3. handler.at = "threads" /\ handler'.at = "load"
    BY <1>2, <1>b DEF StartThreads
  <2>4. Pending' = Pending
    BY <2>3 DEF Pending
  <2> QED
    BY <2>2, <2>3, <2>4, SameSpread DEF Few, Untouched
<1>3. CASE HandlerLoads
  <2>1. Untouched /\ number' = number /\ greeted' = greeted
    BY <1>3 DEF HandlerLoads, Untouched
  <2>2. handler.at = "load" /\ handler'.at = "store" /\ handler'.value = number
    BY <1>3, <1>b DEF HandlerLoads
  <2>3. Pending = 1 /\ Pending' = 1
    BY <2>2 DEF Pending
  <2>4. Ahead(handler.value)' = Ahead(number)
    BY <2>1, <2>2 DEF Ahead, Untouched
  <2> QED
    BY <2>1, <2>2, <2>3, <2>4, SameSpread, Distances DEF Few, Untouched
<1>4. CASE HandlerStores
  <2>1. Untouched /\ greeted' = greeted
    BY <1>4 DEF HandlerStores, Untouched
  <2>2. handler.at = "store" /\ handler'.at = "idle"
    BY <1>4, <1>b DEF HandlerStores
  <2>3. Pending = 1 /\ Pending' = 0
    BY <2>2 DEF Pending
  <2>4. Ahead(handler.value) < New + Spread
    BY <2>2 DEF Few
  <2>5. Ahead(handler.value) + 1 < SeqNumbers
    BY <2>4, Distances
  <2>6. Ahead(Increment(handler.value)) = Ahead(handler.value) + 1
    BY <2>5, Distances, AheadByOne
  <2>7. number' = Increment(handler.value)
    BY <1>4 DEF HandlerStores
  <2>8. Ahead(number)' = Ahead(handler.value) + 1
    BY <2>1, <2>6, <2>7 DEF Ahead, Untouched
  <2>9. number' # last'
    BY <2>1, <2>6, <2>7, Distances, IncrementType, AheadFrom DEF Untouched
  <2> QED
    BY <2>1, <2>2, <2>3, <2>4, <2>8, <2>9, SameSpread, Distances
       DEF Few, Untouched
<1> QED
  BY <1>1, <1>2, <1>3, <1>4 DEF Handler

\* A send_lsu that takes the number: the round's, for the watched neighbour,
\* starts the count again.
LEMMA TakeFew ==
  ASSUME TypeOK, InPlace, LoadedNow, FewIncrements,
         NEW t \in Threads, TakeNumber(t)
  PROVE  FewIncrements'
<1> USE Parameters
<1>a. thread \in [Threads -> [at : {"idle", "begin", "fill"}, seq : Numbers]]
  BY DEF TypeOK
<1>1. CASE t = Round /\ round.iface = Watched /\ Watched \in neighbors
  <2>1. round.at = "sending" /\ Locked
    BY <1>1 DEF TakeNumber, InPlace, Locked
  <2>2. /\ last' = number /\ number' = number /\ round' = round
        /\ handler' = handler /\ greeted' = greeted
        /\ thread'[Round].at = "fill"
    BY <1>1, <1>a DEF TakeNumber, Target
  <2>3. last' \in Numbers /\ Ahead(number)' = 0
    BY <2>2 DEF TypeOK, Ahead, Numbers
  <2>4. handler'.at = "store" => Ahead(handler.value)' = 0
    BY <2>1, <2>2, <2>3 DEF LoadedNow, Ahead
  <2>5. ~Before' /\ Locked'
    BY <1>1, <2>1, <2>2 DEF Before, Locked, TypeOK
  <2>6. Spread' = 1
    BY <2>5 DEF Spread
  <2>7. New' \in Nat /\ Pending' \in {0, 1}
    BY <2>2, NewOnes DEF New, Pending, TypeOK
  <2>8. round'.at # "store"
    BY <2>1, <2>2
  <2>9. Ahead(number)' + Pending' <= New' + Spread'
    <3>1. \A p \in {0, 1}, n \in Nat : 0 + p <= n + 1
      OBVIOUS
    <3>2. 0 + Pending' <= New' + 1
      BY <3>1, <2>7
    <3> QED
      BY <3>2, <2>3, <2>6
  <2>10. handler'.at = "store" => Ahead(handler.value)' < New' + Spread'
    BY <2>4, <2>6, <2>7
  <2> QED
    BY <2>5, <2>8, <2>9, <2>10 DEF FewIncrements, Few
<1>2. CASE ~(t = Round /\ round.iface = Watched /\ Watched \in neighbors)
  <2>1. UNCHANGED <<last, number, handler, round, greeted>>
    BY <1>2 DEF TakeNumber, Target
  <2>2. ASSUME last # SeqNumbers
        PROVE  (Before' <=> Before) /\ (Locked' <=> Locked) /\ Spread' = Spread
    <3>1. Watched \in neighbors
      BY <2>2 DEF InPlace
    <3>2. t # Round => thread'[Round] = thread[Round]
      BY <1>a DEF TakeNumber
    <3>3. t = Round => round.iface # Watched
      BY <1>2, <3>1
    <3>4. Before' <=> Before
      BY <2>1, <3>2, <3>3 DEF Before
    <3> QED
      BY <2>1, <3>4 DEF Spread, Locked, Others
  <2>3. Pending' = Pending /\ New' = New
    BY <2>1 DEF Pending, New
  <2>4. /\ Ahead(number)' = Ahead(number)
        /\ Ahead(round.value)' = Ahead(round.value)
        /\ Ahead(handler.value)' = Ahead(handler.value)
    BY <2>1 DEF Ahead
  <2> QED
    BY <2>1, <2>2, <2>3, <2>4 DEF FewIncrements, Few
<1> QED
  BY <1>1, <1>2

\* A send_lsu that sends: the number was taken before.
LEMMA SendFew ==
  ASSUME TypeOK, Few, NEW t \in Threads, FillAndSend(t)
  PROVE  Few'
<1> USE Parameters
<1>1. thread \in [Threads -> [at : {"idle", "begin", "fill"}, seq : Numbers]]
  BY DEF TypeOK
<1>2. UNCHANGED <<last, number, handler, round, greeted>>
  BY DEF FillAndSend
<1>3. thread'[Round].at = "begin" <=> thread[Round].at = "begin"
  BY <1>1 DEF FillAndSend, Idle
<1>4. Before' <=> Before
  BY <1>2, <1>3 DEF Before
<1>5. Spread' = Spread /\ (Locked' <=> Locked)
  BY <1>2, <1>4 DEF Spread, Locked, Others
<1>6. Pending' = Pending /\ New' = New
  BY <1>2 DEF Pending, New
<1>7. /\ Ahead(number)' = Ahead(number)
      /\ Ahead(round.value)' = Ahead(round.value)
      /\ Ahead(handler.value)' = Ahead(handler.value)
  BY <1>2 DEF Ahead
<1> QED
  BY <1>2, <1>4, <1>5, <1>6, <1>7 DEF Few

\* The steps of send_all_lsu.
LEMMA RoundFew ==
  ASSUME TypeOK, TypeOK', InPlace, Few, last # SeqNumbers, SendAllLsu
  PROVE  Few'
<1> USE Parameters
<1>a. /\ thread \in [Threads -> [at : {"idle", "begin", "fill"}, seq : Numbers]]
      /\ round \in [at : {"asleep", "loop", "sending", "store"}, iface : Nat,
                    value : Numbers, wait : 0 .. LsuInt]
  BY DEF TypeOK
<1>b. UNCHANGED <<last, handler>>
  BY DEF SendAllLsu, RoundBegins, RoundSends, RoundGoesOn, RoundLoads, RoundEnds
<1>c. Pending' = Pending
  BY <1>b DEF Pending
<1>d. /\ Ahead(handler.value)' = Ahead(handler.value)
      /\ number' = number => Ahead(number)' = Ahead(number)
  BY <1>b DEF Ahead
<1>e. Watched \in neighbors
  BY DEF InPlace
<1>1. CASE RoundBegins
  <2>1. /\ number' = number /\ greeted' = {}
        /\ round.at = "asleep" /\ round'.at = "loop" /\ round'.iface = 1
    BY <1>1, <1>a DEF RoundBegins
  <2>2. Before' /\ ~Before /\ ~Locked
    BY <2>1 DEF Before, Locked
  <2>3. Spread' = Others + 2 /\ Spread = 2
    BY <2>2 DEF Spread, Others
  <2>4. New' = 0
    BY <2>1, FS_EmptySet DEF New
  <2> QED
    BY <1>b, <1>c, <1>d, <2>1, <2>2, <2>3, <2>4, Distances DEF Few
<1>2. CASE RoundSends
  <2>1. /\ number' = number /\ greeted' = greeted /\ round.at = "loop"
        /\ round'.at = "sending" /\ round'.iface = round.iface
        /\ thread'[Round].at = "begin"
    BY <1>2, <1>a DEF RoundSends
  <2>2. Before' <=> Before
    BY <2>1, <1>a DEF Before
  <2>3. Spread' = Spread /\ Locked' /\ Locked
    BY <2>1, <2>2 DEF Spread, Locked, Others
  <2>4. New' = New
    BY <2>1 DEF New
  <2> QED
    BY <1>b, <1>c, <1>d, <2>1, <2>2, <2>3, <2>4 DEF Few
<1>3. CASE RoundGoesOn
  <2>1. /\ number' = number /\ greeted' = greeted /\ thread' = thread
        /\ round.at \in {"loop", "sending"} /\ round'.at = "loop"
    BY <1>3, <1>a DEF RoundGoesOn
  <2>2. round'.iface = round.iface + 1
    <3>1. round' = [round EXCEPT !.at = "loop", !.iface = round.iface + 1]
      BY <1>3 DEF RoundGoesOn
    <3> QED
      BY <3>1, <1>a
  <2>3. /\ round.at = "loop" => round.iface # Watched
        /\ round.at = "sending" => thread[Round].at = "idle"
    BY <1>3, <1>e DEF RoundGoesOn, Idle
  <2>4. Before' <=> Before
    BY <2>1, <2>2, <2>3, <1>a DEF Before
  <2>5. Spread' = Spread /\ Locked' /\ Locked
    BY <2>1, <2>4 DEF Spread, Locked, Others
  <2>6. New' = New
    BY <2>1 DEF New
  <2> QED
    BY <1>b, <1>c, <1>d, <2>1, <2>4, <2>5, <2>6 DEF Few
<1>4. CASE RoundLoads
  <2>1. /\ number' = number /\ greeted' = greeted /\ round.at = "loop"
        /\ round'.at = "store" /\ round'.value = number
    BY <1>4, <1>a DEF RoundLoads
  <2>2. round.iface > Watched
    BY <1>4, <1>a DEF RoundLoads, InPlace
  <2>3. ~Before /\ ~Before' /\ Locked /\ Locked'
    BY <2>1, <2>2, <1>a DEF Before, Locked
  <2>4. Spread' = 1 /\ Spread = 1
    BY <2>3 DEF Spread
  <2>5. New' = New /\ Ahead(round.value)' = Ahead(number)
    BY <2>1, <1>b DEF New, Ahead
  <2> QED
    BY <1>b, <1>c, <1>d, <2>1, <2>3, <2>4, <2>5 DEF Few
<1>5. CASE RoundEnds
  <2>1. /\ number' = Increment(round.value) /\ greeted' = greeted
        /\ round.at = "store" /\ round'.at = "asleep"
    BY <1>5, <1>a DEF RoundEnds
  <2>2. Spread = 1 /\ Spread' = 2
    BY <2>1 DEF Spread, Before, Locked
  <2>3. Ahead(round.value) + Pending <= New + 1
    BY <2>1 DEF Few
  <2>4. Ahead(round.value) + 1 < SeqNumbers
    BY <2>3, Distances
  <2>5. Ahead(Increment(round.value)) = Ahead(round.value) + 1
    BY <2>4, Distances, AheadByOne
  <2>6. Ahead(number)' = Ahead(round.value) + 1
    BY <2>1, <2>5, <1>b DEF Ahead
  <2>7. number' # last'
    BY <2>1, <2>5, <1>b, Distances, IncrementType, AheadFrom
  <2>8. New' = New
    BY <2>1 DEF New
  <2> QED
    BY <1>b, <1>c, <1>d, <2>1, <2>2, <2>3, <2>6, <2>7, <2>8, Distances DEF Few
<1> QED
  BY <1>1, <1>2, <1>3, <1>4, <1>5 DEF SendAllLsu

LEMMA FewStep ==
  TypeOK /\ TypeOK' /\ InPlace /\ LoadedNow /\ FewIncrements /\ [Next]_vars
    => FewIncrements'
<1> SUFFICES ASSUME TypeOK, TypeOK', InPlace, LoadedNow, FewIncrements,
                    [Next]_vars
             PROVE  FewIncrements'
  OBVIOUS
<1>1. ASSUME NEW i \in Ifaces, NewNeighbor(i) PROVE FewIncrements'
  <2>1. last' = last
    BY <1>1 DEF NewNeighbor
  <2> QED
    BY <1>1, <2>1, HandlerFew DEF FewIncrements
<1>2. ASSUME NEW i \in Ifaces, Leave(i) PROVE FewIncrements'
  <2>1. Untouched /\ UNCHANGED <<number, handler, greeted>>
    BY <1>2 DEF Leave, Untouched
  <2> QED
    BY <2>1, QuietFew DEF FewIncrements, Untouched
<1>3. ASSUME NEW t \in Threads, SendLsu(t) PROVE FewIncrements'
  <2>1. CASE TakeNumber(t)
    BY <2>1, TakeFew
  <2>2. CASE FillAndSend(t)
    <3>1. last' = last
      BY <2>2 DEF FillAndSend
    <3> QED
      BY <2>2, <3>1, SendFew DEF FewIncrements
  <2> QED
    BY <1>3, <2>1, <2>2 DEF SendLsu
<1>4. CASE Handler
  <2>1. last' = last
    BY <1>4 DEF Handler, StartThreads, HandlerLoads, HandlerStores
  <2> QED
    BY <1>4, <2>1, HandlerFew DEF FewIncrements
<1>5. CASE SendAllLsu
  <2>1. last' = last
    BY <1>5 DEF SendAllLsu, RoundBegins, RoundSends, RoundGoesOn, RoundLoads,
                RoundEnds
  <2> QED
    BY <1>5, <2>1, RoundFew DEF FewIncrements
<1>6. CASE Second
  <2>1. /\ UNCHANGED <<last, number, handler, greeted>>
        /\ thread'[Round] = thread[Round]
        /\ round'.at = round.at /\ round'.iface = round.iface
        /\ round'.value = round.value
    BY <1>6 DEF Second, TypeOK
  <2>2. (Before' <=> Before) /\ (Locked' <=> Locked)
    BY <2>1 DEF Before, Locked
  <2>3. Spread' = Spread /\ Pending' = Pending /\ New' = New
    BY <2>1, <2>2 DEF Spread, Pending, New, Others
  <2>4. /\ Ahead(number)' = Ahead(number)
        /\ Ahead(round.value)' = Ahead(round.value)
        /\ Ahead(handler.value)' = Ahead(handler.value)
    BY <2>1 DEF Ahead
  <2> QED
    BY <2>1, <2>2, <2>3, <2>4 DEF FewIncrements, Few
<1>7. CASE UNCHANGED vars
  <2>1. Untouched /\ UNCHANGED <<number, handler, greeted>>
    BY <1>7 DEF vars, Untouched
  <2> QED
    BY <2>1, QuietFew DEF FewIncrements, Untouched
<1> QED
  BY <1>1, <1>2, <1>3, <1>4, <1>5, <1>6, <1>7 DEF Next
-----------------------------------------------------------------------------

\* The claim: who may change it, and how old it gets.
LEMMA YoungStep ==
  TypeOK /\ InPlace /\ YoungClaim /\ [Next]_vars => YoungClaim'
<1> SUFFICES ASSUME TypeOK, InPlace, YoungClaim, [Next]_vars PROVE YoungClaim'
  OBVIOUS
<1> USE Parameters
<1>a. /\ thread \in [Threads -> [at : {"idle", "begin", "fill"}, seq : Numbers]]
      /\ round \in [at : {"asleep", "loop", "sending", "store"}, iface : Nat,
                    value : Numbers, wait : 0 .. LsuInt]
  BY DEF TypeOK
<1>b. claim # NoClaim => claim.age \in 0 .. TopoTimeout
  BY DEF TypeOK
<1>1. ASSUME UNCHANGED <<claim, repeated, round>>,
             thread'[Round] = thread[Round]
      PROVE  YoungClaim'
  BY <1>1 DEF YoungClaim, Unsent, Locked, NoClaim
<1>2. ASSUME NEW i \in Ifaces, NewNeighbor(i) \/ Leave(i) PROVE YoungClaim'
  BY <1>1, <1>2 DEF NewNeighbor, Leave
<1>3. ASSUME NEW t \in Threads, TakeNumber(t) PROVE YoungClaim'
  <2>1. UNCHANGED <<claim, repeated, round>>
    BY <1>3 DEF TakeNumber
  <2>2. CASE t # Round
    BY <1>1, <1>3, <1>a, <2>1, <2>2 DEF TakeNumber
  <2>3. CASE t = Round /\ claim # NoClaim
    <3>1. Watched \in neighbors /\ thread[Round].at = "begin"
      BY <1>3, <2>3 DEF TakeNumber, InPlace
    <3>2. round.iface = Watched => thread'[Round].at = "fill"
      BY <1>3, <1>a, <2>3, <3>1 DEF TakeNumber, Target
    <3>3. Unsent' <=> Unsent
      BY <2>1, <3>1, <3>2 DEF Unsent
    <3> QED
      BY <2>1, <3>3 DEF YoungClaim, Locked, NoClaim
  <2>4. CASE claim = NoClaim
    BY <2>1, <2>4 DEF YoungClaim, NoClaim
  <2> QED
    BY <2>2, <2>3, <2>4
<1>4. ASSUME NEW t \in Threads, FillAndSend(t) PROVE YoungClaim'
  <2>1. round' = round
    BY <1>4 DEF FillAndSend
  <2>2. CASE Target(t) = Watched
    <3>1. CASE Accepted(t)
      <4>1. claim'.age = 0
        BY <3>1 DEF Accepted
      <4> QED
        BY <2>1, <4>1, <1>a DEF YoungClaim, Locked
    <3>2. CASE Repeated(t)
      BY <3>2 DEF Repeated, YoungClaim
    <3> QED
      BY <1>4, <2>2, <3>1, <3>2 DEF FillAndSend
  <2>3. CASE Target(t) # Watched
    <3>1. UNCHANGED <<claim, repeated>>
      BY <1>4, <2>3 DEF FillAndSend
    <3>2. CASE t # Round
      BY <1>1, <1>4, <1>a, <2>1, <3>1, <3>2 DEF FillAndSend
    <3>3. CASE t = Round
      <4>1. round.iface # Watched
        BY <2>3, <3>3 DEF Target
      <4>2. Unsent' <=> Unsent
        BY <2>1, <4>1 DEF Unsent
      <4> QED
        BY <2>1, <3>1, <4>2 DEF YoungClaim, Locked, NoClaim
    <3> QED
      BY <3>2, <3>3
  <2> QED
    BY <2>2, <2>3
<1>5. CASE Handler
  <2>1. UNCHANGED <<claim, repeated, round>>
    BY <1>5 DEF Handler, StartThreads, HandlerLoads, HandlerStores
  <2>2. thread'[Round] = thread[Round]
    BY <1>5, <1>a DEF Handler, StartThreads, HandlerLoads, HandlerStores, InPlace
  <2> QED
    BY <1>1, <2>1, <2>2
<1>6. CASE SendAllLsu
  <2>1. UNCHANGED <<claim, repeated>>
    BY <1>6 DEF SendAllLsu, RoundBegins, RoundSends, RoundGoesOn, RoundLoads,
                RoundEnds
  <2> SUFFICES ASSUME claim # NoClaim, ~repeated
               PROVE  claim.age <= IF ~Locked' THEN LsuInt - round'.wait
                                   ELSE IF Unsent' THEN LsuInt ELSE 0
    BY <2>1 DEF YoungClaim, NoClaim
  <2>2. /\ Watched \in neighbors
        /\ claim.age <= IF ~Locked THEN LsuInt - round.wait
                        ELSE IF Unsent THEN LsuInt ELSE 0
    BY DEF InPlace, YoungClaim
  <2>3. CASE RoundBegins
    <3>1. /\ round.at = "asleep" /\ round.wait = 0
          /\ round'.at = "loop" /\ round'.iface = 1
      BY <2>3, <1>a DEF RoundBegins
    <3>2. Locked' /\ Unsent' /\ ~Locked
      BY <3>1 DEF Locked, Unsent
    <3> QED
      BY <1>b, <2>2, <3>1, <3>2
  <2>4. CASE RoundSends
    <3>1. /\ round.at = "loop" /\ round'.at = "sending"
          /\ round'.iface = round.iface /\ thread'[Round].at = "begin"
      BY <2>4, <1>a DEF RoundSends
    <3>2. Locked' /\ Locked /\ (Unsent' <=> Unsent)
      BY <3>1, <1>a DEF Locked, Unsent
    <3> QED
      BY <2>2, <3>2
  <2>5. CASE RoundGoesOn
    <3>1. /\ round.at \in {"loop", "sending"} /\ round'.at = "loop"
          /\ thread' = thread
      BY <2>5, <1>a DEF RoundGoesOn
    <3>2. round'.iface = round.iface + 1
      <4>1. round' = [round EXCEPT !.at = "loop", !.iface = round.iface + 1]
        BY <2>5 DEF RoundGoesOn
      <4> QED
        BY <4>1, <1>a
    <3>3. /\ round.at = "loop" => round.iface # Watched
          /\ round.at = "sending" => thread[Round].at = "idle"
      BY <2>5, <2>2 DEF RoundGoesOn, Idle
    <3>4. Locked' /\ Locked /\ (Unsent' <=> Unsent)
      BY <3>1, <3>2, <3>3, <1>a DEF Locked, Unsent
    <3> QED
      BY <2>2, <3>4
  <2>6. CASE RoundLoads
    <3>1. /\ round.at = "loop" /\ round'.at = "store" /\ round.iface > Watched
      BY <2>6, <1>a DEF RoundLoads, InPlace
    <3>2. Locked' /\ Locked /\ ~Unsent' /\ ~Unsent
      BY <3>1, <1>a DEF Locked, Unsent
    <3> QED
      BY <2>2, <3>2
  <2>7. CASE RoundEnds
    <3>1. round.at = "store" /\ round'.at = "asleep" /\ round'.wait = LsuInt
      BY <2>7 DEF RoundEnds
    <3>2. ~Locked' /\ Locked /\ ~Unsent
      BY <3>1 DEF Locked, Unsent
    <3> QED
      BY <2>2, <3>1, <3>2
  <2> QED
    BY <1>6, <2>3, <2>4, <2>5, <2>6, <2>7 DEF SendAllLsu
<1>7. CASE Second
  <2>1. ~Locked /\ ~Locked' /\ round'.wait = round.wait - 1 /\ repeated' = repeated
    BY <1>7, <1>a DEF Second, Busy, Locked
  <2>2. claim' # NoClaim => claim # NoClaim /\ claim'.age = claim.age + 1
    BY <1>7, <1>b DEF Second, Older, TypeOK
  <2> QED
    BY <2>1, <2>2, <1>a, <1>b DEF YoungClaim, NoClaim
<1>8. CASE UNCHANGED vars
  BY <1>1, <1>8 DEF vars
<1> QED
  BY <1>2, <1>3, <1>4, <1>5, <1>6, <1>7, <1>8 DEF Next, SendLsu
-----------------------------------------------------------------------------
LEMMA IInvInit == Init => IInv
<1> SUFFICES ASSUME Init PROVE IInv
  OBVIOUS
<1>1. TypeOK
  BY TypeInit
<1>2. InPlace
  BY Parameters DEF Init, InPlace, Locked, Idle
<1>3. LoadedNow /\ FewIncrements /\ YoungClaim
  BY DEF Init, LoadedNow, FewIncrements, YoungClaim
<1> QED
  BY <1>1, <1>2, <1>3 DEF IInv

LEMMA IInvStep == IInv /\ [Next]_vars => IInv'
  BY TypeStep, PlaceStep, LoadedStep, FewStep, YoungStep DEF IInv

THEOREM Inductive == Spec => []IInv
  BY IInvInit, IInvStep, PTL DEF Spec

(***************************************************************************)
(* Every variable has its type, for any number of interfaces and sequence  *)
(* numbers.                                                                *)
(***************************************************************************)
THEOREM TypeCorrect == Spec => []TypeOK
<1>1. IInv => TypeOK
  BY DEF IInv
<1> QED
  BY Inductive, <1>1, PTL

(***************************************************************************)
(* Two rounds in a row never send the watched neighbour the same number,   *)
(* however the increments of the HELLO handler and of the round overlap,   *)
(* as long as there are more numbers than twice the interfaces.            *)
(***************************************************************************)
THEOREM RoundsDifferAlways == Spec => RoundsDiffer
<1>1. IInv /\ [Next]_vars
        => (TakeNumber(Round) /\ Target(Round) = Watched => number # last)
  <2> SUFFICES ASSUME IInv, TakeNumber(Round), Target(Round) = Watched
               PROVE  number # last
    OBVIOUS
  <2>1. round.at = "sending" /\ round.iface = Watched /\ thread[Round].at = "begin"
    BY DEF IInv, InPlace, TakeNumber, Target
  <2>2. Before
    BY <2>1 DEF Before
  <2>3. number # SeqNumbers
    BY Parameters DEF IInv, TypeOK, Numbers
  <2> QED
    BY <2>2, <2>3 DEF IInv, FewIncrements, Few
<1> QED
  BY Inductive, <1>1, PTL DEF Spec, RoundsDiffer

(***************************************************************************)
(* A neighbour loses the router's claim only after it has dropped an LSU   *)
(* as repeated, as long as the LSU interval is within its timeout.         *)
(***************************************************************************)
THEOREM ExpiryHasReasonAlways == Spec => ExpiryHasReason
<1>1. IInv /\ [Next]_vars
        => (claim # NoClaim /\ claim' = NoClaim => repeated)
  <2> SUFFICES ASSUME IInv, [Next]_vars, claim # NoClaim, claim' = NoClaim,
                      ~repeated
               PROVE  FALSE
    OBVIOUS
  <2>1. Second
    <3>1. ASSUME NEW t \in Threads, FillAndSend(t) PROVE FALSE
      <4>1. Accepted(t)
        BY <3>1 DEF FillAndSend, Repeated
      <4>2. thread[t].seq \in Numbers /\ claim'.seq = thread[t].seq
        BY <4>1 DEF Accepted, IInv, TypeOK
      <4> QED
        BY <4>2, Parameters DEF NoClaim, Numbers
    <3> QED
      BY <3>1 DEF Next, NewNeighbor, Leave, SendLsu, TakeNumber, Handler,
                  StartThreads, HandlerLoads, HandlerStores, SendAllLsu,
                  RoundBegins, RoundSends, RoundGoesOn, RoundLoads, RoundEnds,
                  vars
  <2>2. claim.age = TopoTimeout
    <3>1. claim.seq \in Numbers
      BY DEF IInv, TypeOK
    <3>2. CASE claim.age # TopoTimeout
      <4>1. claim'.seq = claim.seq
        BY <2>1, <3>2 DEF Second, Older, IInv, TypeOK
      <4> QED
        BY <3>1, <4>1, Parameters DEF NoClaim, Numbers
    <3> QED
      BY <3>2
  <2>3. ~Locked /\ round.wait # 0
    BY <2>1 DEF Second, Busy
  <2>4. claim.age <= LsuInt - round.wait
    BY <2>3 DEF IInv, YoungClaim
  <2>5. round.wait \in 0 .. LsuInt
    BY DEF IInv, TypeOK
  <2> QED
    BY <2>2, <2>3, <2>4, <2>5, Parameters
<1> QED
  BY Inductive, <1>1, PTL DEF Spec, ExpiryHasReason
=============================================================================
