--------------------------- MODULE ArpCacheProofs ---------------------------
(***************************************************************************)
(* Theorems of ArpCache for every set of threads, hops and packets, every  *)
(* cache size and every number of requests.                                *)
(***************************************************************************)
EXTENDS ArpCache, TLAPS, SequenceTheorems, FiniteSetTheorems

(***************************************************************************)
(* The records the actions build.                                          *)
(***************************************************************************)
LEMMA FrameType ==
  ASSUME NEW at \in Calls, NEW r \in 0 .. MaxReqs, NEW ps \in SUBSET Packets,
         at \in OnRequest => r # NoReq
  PROVE  Frame(at, r, ps) \in Frames
BY DEF Frame, Frames

LEMMA FrameUpdate ==
  ASSUME NEW f \in Frames, NEW at \in Calls, NEW ps \in SUBSET Packets,
         at \in OnRequest => f.req # NoReq
  PROVE  /\ [f EXCEPT !.at = at] \in Frames
         /\ [f EXCEPT !.pkts = ps] \in Frames
BY DEF Frames

(***************************************************************************)
(* What a return, a jump and a call leave of a thread's C call stack.      *)
(***************************************************************************)
LEMMA StackTypes ==
  ASSUME NEW s \in Seq(Frames), s # <<>>, NEW f \in Frames, NEW g \in Frames
  PROVE  /\ Head(s) \in Frames
         /\ Tail(s) \in Seq(Frames)
         /\ <<f>> \o Tail(s) \in Seq(Frames)
         /\ <<g, f>> \o Tail(s) \in Seq(Frames)
<1>1. Head(s) \in Frames /\ Tail(s) \in Seq(Frames)
  BY HeadTailProperties
<1>2. <<f>> \in Seq(Frames) /\ <<g, f>> \in Seq(Frames)
  OBVIOUS
<1> QED BY <1>1, <1>2, ConcatProperties

LEMMA TopType ==
  ASSUME TypeOK, NEW t \in Threads, ~Idle(t)
  PROVE  /\ stack[t] \in Seq(Frames)
         /\ Top(t) \in Frames
         /\ Top(t).at \in Calls
         /\ Top(t).req \in 0 .. MaxReqs
         /\ Top(t).pkts \subseteq Packets
<1>1. stack[t] \in Seq(Frames) /\ stack[t] # <<>>
  BY DEF TypeOK, Idle
<1>2. Top(t) \in Frames
  BY <1>1, HeadTailProperties DEF Top
<1> QED BY <1>1, <1>2 DEF Frames

LEMMA RequestAtTop ==
  ASSUME TypeOK, NEW t \in Threads, NEW label \in OnRequest, At(t, label)
  PROVE  Top(t).req \in ReqIds /\ Top(t).req # NoReq
<1>1. ~Idle(t) /\ Top(t).at = label
  BY DEF At, Top
<1>2. Top(t) \in Frames /\ Top(t).req \in 0 .. MaxReqs
  BY <1>1, TopType
<1>3. Top(t).req # NoReq
  BY <1>1, <1>2 DEF Frames
<1> QED BY <1>2, <1>3 DEF NoReq, ReqIds

LEMMA ReturnType ==
  ASSUME TypeOK, NEW t \in Threads, ~Idle(t), Return(t)
  PROVE  stack' \in [Threads -> Seq(Frames)]
<1>1. stack[t] \in Seq(Frames) /\ stack[t] # <<>>
  BY DEF TypeOK, Idle
<1>2. Tail(stack[t]) \in Seq(Frames)
  BY <1>1, HeadTailProperties
<1> QED BY <1>2 DEF TypeOK, Return

LEMMA GotoType ==
  ASSUME TypeOK, NEW t \in Threads, ~Idle(t), NEW f \in Frames, Goto(t, f)
  PROVE  stack' \in [Threads -> Seq(Frames)]
<1>1. stack[t] \in Seq(Frames) /\ stack[t] # <<>>
  BY DEF TypeOK, Idle
<1>2. <<f>> \o Tail(stack[t]) \in Seq(Frames)
  BY <1>1, StackTypes
<1> QED BY <1>2 DEF TypeOK, Goto

LEMMA CallType ==
  ASSUME TypeOK, NEW t \in Threads, ~Idle(t),
         NEW f \in Frames, NEW g \in Frames, Call(t, f, g)
  PROVE  stack' \in [Threads -> Seq(Frames)] /\ up' \in BOOLEAN
<1>1. stack[t] \in Seq(Frames) /\ stack[t] # <<>>
  BY DEF TypeOK, Idle
<1>2. <<g, f>> \o Tail(stack[t]) \in Seq(Frames)
  BY <1>1, StackTypes
<1> QED BY <1>2 DEF TypeOK, Call

(***************************************************************************)
(* Type correctness.                                                       *)
(***************************************************************************)
LEMMA TypeInit == Init => TypeOK
<1> SUFFICES ASSUME Init PROVE TypeOK
  OBVIOUS
<1>1. Unused \in Request
  BY DEF Unused, Request, DueAge
<1>2. <<>> \in Seq(Frames)
  OBVIOUS
<1> QED BY <1>1, <1>2, BoundsAssumption DEF Init, TypeOK, Slots, ReqIds

LEMMA TypeStep == TypeOK /\ [Next]_vars => TypeOK'
<1> SUFFICES ASSUME TypeOK, [Next]_vars PROVE TypeOK'
  OBVIOUS
<1> USE BoundsAssumption, PacketsAssumption
<1>1. ASSUME Tick PROVE TypeOK'
  <2>1. ASSUME NEW s \in Slots
        PROVE  cache'[s] \in [ip : Hops \cup {NoHop}, age : 0 .. CacheTimeout + 1]
    BY <1>1 DEF Tick, TypeOK, Older
  <2>2. ASSUME NEW r \in ReqIds
        PROVE  req'[r] \in Request
    <3>1. req[r] \in Request /\ req[r].age \in 0 .. DueAge
      BY DEF TypeOK, Request
    <3>2. Older(req[r].age, DueAge) \in 0 .. DueAge
      BY <3>1 DEF Older, DueAge
    <3>3. req'[r] = [req[r] EXCEPT !.age =
                       IF Live(r) THEN Older(@, DueAge) ELSE @]
      BY <1>1 DEF Tick
    <3> QED BY <3>1, <3>2, <3>3 DEF Request
  <2> QED BY <1>1, <2>1, <2>2 DEF Tick, TypeOK, history
<1>2. ASSUME NEW t \in Threads, NEW p \in Packets, Transmit(t, p) PROVE TypeOK'
  <2>1. <<Frame("lookup", NoReq, {p})>> \in Seq(Frames)
    BY DEF Frame, Frames, Calls, OnRequest, NoReq
  <2> QED BY <1>2, <2>1 DEF Transmit, TypeOK
<1>3. ASSUME NEW t \in Threads, Lookup(t) PROVE TypeOK'
  <2>1. ~Idle(t) /\ Top(t) \in Frames /\ Top(t).pkts \subseteq Packets
    BY <1>3, TopType DEF Lookup, At
  <2>2. [Top(t) EXCEPT !.at = "enqueue"] \in Frames
    BY <2>1 DEF Frames, Calls, OnRequest
  <2>3. stack' \in [Threads -> Seq(Frames)]
    BY <1>3, <2>1, <2>2, ReturnType, GotoType DEF Lookup
  <2> QED BY <1>3, <2>1, <2>3 DEF Lookup, TypeOK
<1>4. ASSUME NEW t \in Threads, Enqueue(t) PROVE TypeOK'
  <2>1. ~Idle(t) /\ Top(t).pkts \subseteq Packets
    BY <1>4, TopType DEF Enqueue, At
  <2>2. PICK p \in Top(t).pkts, r \in ReqIds :
          /\ req' = [req EXCEPT ![r] = WithPacket(@, p)]
          /\ Goto(t, Frame("check", r, {}))
    BY <1>4 DEF Enqueue
  <2>3. Frame("check", r, {}) \in Frames
    BY FrameType DEF Calls, OnRequest, ReqIds, NoReq
  <2>4. stack' \in [Threads -> Seq(Frames)]
    BY <2>1, <2>2, <2>3, GotoType
  <2>5. req' \in [ReqIds -> Request]
    <3>1. req[r] \in Request /\ req[r].packets \cup {p} \in SUBSET Packets
      BY <2>1 DEF TypeOK, Request
    <3>2. NextHop[p] \in Hops
      BY <2>1
    <3>3. WithPacket(req[r], p) \in Request
      BY <3>1, <3>2 DEF Request, WithPacket
    <3> QED BY <2>2, <3>3 DEF TypeOK
  <2> QED BY <1>4, <2>4, <2>5 DEF Enqueue, TypeOK, history
<1>5. ASSUME NEW t \in Threads, Check(t) PROVE TypeOK'
  <2>1. ~Idle(t) /\ Top(t).req \in 0 .. MaxReqs
    BY <1>5, TopType DEF Check, At
  <2> DEFINE r == Top(t).req
  <2>5. r # NoReq /\ r \in ReqIds
    BY <1>5, RequestAtTop DEF Check, OnRequest
  <2>2. CASE Return(t)
    <3>1. stack' \in [Threads -> Seq(Frames)]
      BY <2>1, <2>2, ReturnType
    <3> QED BY <1>5, <3>1 DEF Check, TypeOK, history
  <2>3. CASE Goto(t, Frame("resend", r, {}))
    <3>1. Frame("resend", r, {}) \in Frames
      BY <2>1, <2>5, FrameType DEF Calls, OnRequest
    <3>2. stack' \in [Threads -> Seq(Frames)]
      BY <2>1, <2>3, <3>1, GotoType
    <3> QED BY <1>5, <3>2 DEF Check, TypeOK, history
  <2>4. CASE Goto(t, Frame("unreachable", r, req[r].packets))
    <3>1. Frame("unreachable", r, req[r].packets) \in Frames
      <4>1. req[r].packets \in SUBSET Packets
        BY <2>5 DEF TypeOK, Request
      <4> QED BY <2>1, <2>5, <4>1, FrameType DEF Calls, OnRequest
    <3>2. stack' \in [Threads -> Seq(Frames)]
      BY <2>1, <2>4, <3>1, GotoType
    <3> QED BY <1>5, <3>2 DEF Check, TypeOK, history
  <2> QED BY <1>5, <2>2, <2>3, <2>4 DEF Check
<1>6. ASSUME NEW t \in Threads, Resend(t) PROVE TypeOK'
  <2>1. ~Idle(t) /\ Top(t).req \in 0 .. MaxReqs
    BY <1>6, TopType DEF Resend, At
  <2>2. stack' \in [Threads -> Seq(Frames)]
    BY <1>6, <2>1, ReturnType DEF Resend
  <2> DEFINE r == Top(t).req
  <2>3. req' \in [ReqIds -> Request]
    <3>1. ASSUME NEW took \in 0 .. DueAge, r \in ReqIds,
                 req' = [req EXCEPT ![r] = SentAgain(@, took)]
          PROVE  req' \in [ReqIds -> Request]
      <4>1. req[r] \in Request /\ req[r].times_sent + 1 \in Nat
        BY <3>1 DEF TypeOK, Request
      <4>2. SentAgain(req[r], took) \in Request
        BY <4>1 DEF Request, SentAgain
      <4> QED BY <3>1, <4>2 DEF TypeOK
    <3>2. r \in ReqIds
      BY <1>6, RequestAtTop DEF Resend, OnRequest
    <3> QED BY <1>6, <3>1, <3>2 DEF Resend, TypeOK
  <2> QED BY <1>6, <2>2, <2>3 DEF Resend, TypeOK, history
<1>7. ASSUME NEW t \in Threads, Unreachable(t) PROVE TypeOK'
  <2>1. ~Idle(t) /\ Top(t) \in Frames /\ Top(t).pkts \subseteq Packets
    BY <1>7, TopType DEF Unreachable, At
  <2>2. PICK p \in Top(t).pkts :
          /\ reported' = reported \cup {p}
          /\ IF IcmpError[p] = NoPacket
             THEN /\ Goto(t, [Top(t) EXCEPT !.pkts = @ \ {p}])
                  /\ UNCHANGED <<up, arrived>>
             ELSE /\ arrived' = arrived \cup {IcmpError[p]}
                  /\ Call(t, [Top(t) EXCEPT !.pkts = @ \ {p}],
                             Frame("lookup", NoReq, {IcmpError[p]}))
    BY <1>7 DEF Unreachable
  <2> DEFINE rest == [Top(t) EXCEPT !.pkts = @ \ {p}]
  <2>3. rest \in Frames
    BY <2>1 DEF Frames
  <2>4. CASE IcmpError[p] = NoPacket
    <3>1. stack' \in [Threads -> Seq(Frames)]
      BY <2>1, <2>2, <2>3, <2>4, GotoType
    <3> QED BY <1>7, <2>1, <2>2, <2>4, <3>1 DEF Unreachable, TypeOK
  <2>5. CASE IcmpError[p] # NoPacket
    <3>1. IcmpError[p] \in Packets
      BY <2>1, <2>5 DEF Packets
    <3>2. Frame("lookup", NoReq, {IcmpError[p]}) \in Frames
      BY <3>1 DEF Frame, Frames, Calls, OnRequest, NoReq
    <3>3. stack' \in [Threads -> Seq(Frames)] /\ up' \in BOOLEAN
      BY <2>1, <2>2, <2>3, <2>5, <3>2, CallType
    <3> QED BY <1>7, <2>1, <2>2, <2>5, <3>1, <3>3 DEF Unreachable, TypeOK
  <2> QED BY <2>4, <2>5
<1>8. ASSUME NEW t \in Threads, AllReported(t) PROVE TypeOK'
  <2>1. ~Idle(t) /\ Top(t) \in Frames
    BY <1>8, TopType DEF AllReported, At
  <2>2. [Top(t) EXCEPT !.at = "destroy"] \in Frames
    <3>1. Top(t).req # NoReq
      BY <1>8, RequestAtTop DEF AllReported, OnRequest
    <3> QED BY <2>1, <3>1, FrameUpdate DEF Calls, OnRequest
  <2>3. stack' \in [Threads -> Seq(Frames)]
    BY <1>8, <2>1, <2>2, GotoType DEF AllReported
  <2> QED BY <1>8, <2>3 DEF AllReported, TypeOK, history
<1>9. ASSUME NEW t \in Threads, Destroy(t) PROVE TypeOK'
  <2>1. stack' \in [Threads -> Seq(Frames)]
    BY <1>9, ReturnType DEF Destroy, At
  <2>2. req' \in [ReqIds -> Request]
    <3>1. ASSUME NEW r \in ReqIds
          PROVE  [req[r] EXCEPT !.status = "freed"] \in Request
      BY DEF TypeOK, Request
    <3> QED BY <1>9, <3>1 DEF Destroy, TypeOK
  <2> QED BY <1>9, <2>1, <2>2 DEF Destroy, TypeOK, history
<1>10. ASSUME NEW t \in Threads, Crash(t) PROVE TypeOK'
  BY <1>10 DEF Crash, TypeOK, history
<1>11. ASSUME NEW h \in Hops, Detach(h) PROVE req' \in [ReqIds -> Request]
  <2>1. ASSUME NEW r \in ReqIds
        PROVE  req[r] \in Request /\ [req[r] EXCEPT !.status = "detached"] \in Request
    BY DEF TypeOK, Request
  <2> QED BY <1>11, <2>1 DEF Detach
<1>12. ASSUME NEW h \in Hops, Store(h)
       PROVE  cache' \in
                [Slots -> [ip : Hops \cup {NoHop}, age : 0 .. CacheTimeout + 1]]
  <2>1. [ip |-> h, age |-> 0] \in
          [ip : Hops \cup {NoHop}, age : 0 .. CacheTimeout + 1]
    OBVIOUS
  <2> QED BY <1>12, <2>1 DEF Store, TypeOK
<1>13. ASSUME NEW h \in Hops, NEW mine \in BOOLEAN, ArpReply(h, mine)
       PROVE  TypeOK'
  <2>1. req' \in [ReqIds -> Request]
    BY <1>11, <1>13 DEF ArpReply
  <2>2. cache' \in
          [Slots -> [ip : Hops \cup {NoHop}, age : 0 .. CacheTimeout + 1]]
    BY <1>12, <1>13 DEF ArpReply
  <2>3. ASSUME NEW r \in Queued PROVE <<Frame("flush", r, {})>> \in Seq(Frames)
    <3>1. r \in 1 .. MaxReqs
      BY DEF Queued, ReqIds
    <3>2. Frame("flush", r, {}) \in Frames
      BY <3>1 DEF Frame, Frames, Calls, OnRequest, NoReq
    <3> QED BY <3>2
  <2>4. stack' \in [Threads -> Seq(Frames)] /\ up' \in BOOLEAN
    BY <1>13, <2>3, ZenonT(30) DEF ArpReply, TypeOK
  <2> QED BY <1>13, <2>1, <2>2, <2>4 DEF ArpReply, TypeOK, history
<1>14. ASSUME NEW h \in Hops, ArpRequest(h) PROVE TypeOK'
  <2>1. req' \in [ReqIds -> Request]
    BY <1>11, <1>14 DEF ArpRequest
  <2>2. cache' \in
          [Slots -> [ip : Hops \cup {NoHop}, age : 0 .. CacheTimeout + 1]]
    BY <1>12, <1>14 DEF ArpRequest
  <2> QED BY <1>14, <2>1, <2>2 DEF ArpRequest, TypeOK
<1>15. ASSUME Flush PROVE TypeOK'
  <2>1. Main \in Threads
    BY DEF Threads
  <2>2. ~Idle(Main) /\ Top(Main) \in Frames /\ Top(Main).req \in 0 .. MaxReqs
    BY <1>15, <2>1, TopType DEF Flush, At
  <2>3. [Top(Main) EXCEPT !.at = "destroy"] \in Frames
    <3>1. Top(Main).req # NoReq
      BY <1>15, <2>1, RequestAtTop DEF Flush, OnRequest
    <3> QED BY <2>2, <3>1, FrameUpdate DEF Calls, OnRequest
  <2>4. stack' \in [Threads -> Seq(Frames)]
    BY <1>15, <2>1, <2>2, <2>3, GotoType DEF Flush
  <2>5. req[Top(Main).req].packets \subseteq Packets
    <3>1. Top(Main).req \in ReqIds
      BY <1>15, <2>1, RequestAtTop DEF Flush, OnRequest
    <3> QED BY <3>1 DEF TypeOK, Request
  <2> QED BY <1>15, <2>4, <2>5 DEF Flush, TypeOK
<1>16. Sweeper \in Threads
  BY DEF Threads
<1>17. ASSUME SweepBegin PROVE TypeOK'
  <2>1. PICK first \in 0 .. MaxReqs :
          stack' = [stack EXCEPT ![Sweeper] = <<Frame("sweep", first, {})>>]
    BY <1>17 DEF SweepBegin
  <2>2. <<Frame("sweep", first, {})>> \in Seq(Frames)
    BY DEF Frame, Frames, Calls, OnRequest
  <2>3. stack' \in [Threads -> Seq(Frames)]
    BY <2>1, <2>2 DEF TypeOK
  <2>4. cache' \in
          [Slots -> [ip : Hops \cup {NoHop}, age : 0 .. CacheTimeout + 1]]
    BY <1>17 DEF SweepBegin, TypeOK
  <2> QED BY <1>16, <1>17, <2>3, <2>4 DEF SweepBegin, TypeOK, history
<1>18. ASSUME SweepNext PROVE TypeOK'
  <2>1. ~Idle(Sweeper) /\ Top(Sweeper).req \in 0 .. MaxReqs
    BY <1>16, <1>18, TopType DEF SweepNext, At
  <2>2. PICK nextReq \in 0 .. MaxReqs :
          Call(Sweeper, Frame("sweep", nextReq, {}),
                        Frame("check", Top(Sweeper).req, {}))
    BY <1>18 DEF SweepNext
  <2>3. /\ Frame("sweep", nextReq, {}) \in Frames
        /\ Frame("check", Top(Sweeper).req, {}) \in Frames
    BY <1>18, <2>1 DEF SweepNext, Frame, Frames, Calls, OnRequest
  <2>4. stack' \in [Threads -> Seq(Frames)] /\ up' \in BOOLEAN
    BY <1>16, <2>1, <2>2, <2>3, CallType
  <2> QED BY <1>18, <2>4 DEF SweepNext, TypeOK, history
<1>19. ASSUME SweepEnd PROVE TypeOK'
  <2>1. stack' \in [Threads -> Seq(Frames)]
    BY <1>16, <1>19, ReturnType DEF SweepEnd, At
  <2> QED BY <1>19, <2>1 DEF SweepEnd, TypeOK, history
<1>20. ASSUME UNCHANGED vars PROVE TypeOK'
  BY <1>20 DEF TypeOK, vars
<1>21. ASSUME NEW t \in Threads, ThreadStep(t) PROVE TypeOK'
  BY <1>3, <1>4, <1>5, <1>6, <1>7, <1>8, <1>9, <1>10, <1>21 DEF ThreadStep
<1> QED
  BY <1>1, <1>2, <1>13, <1>14, <1>15, <1>17, <1>18, <1>19, <1>20, <1>21
  DEF Next, MainStep, SweeperStep, WorkerStep, Receive, Threads

\* Every variable keeps its type, with any number of LSU threads.
THEOREM TypeCorrect == Spec => []TypeOK
<1> QED BY TypeInit, TypeStep, PTL DEF Spec

(***************************************************************************)
(* One request per hop.  Only sr_arpcache_queuereq puts a request on the   *)
(* queue, and it does so when the hop has none; every other action leaves  *)
(* the queued requests and their hops as they were, or takes some off.     *)
(***************************************************************************)
FewerQueued ==
  \A r \in ReqIds : req'[r].status = "queued" =>
    req[r].status = "queued" /\ req'[r].ip = req[r].ip

LEMMA FewerKeepsOne ==
  OneRequestPerHop /\ FewerQueued => OneRequestPerHop'
BY DEF OneRequestPerHop, FewerQueued, Queued

LEMMA OneRequestStep ==
  TypeOK /\ OneRequestPerHop /\ [Next]_vars => OneRequestPerHop'
<1> SUFFICES ASSUME TypeOK, OneRequestPerHop, [Next]_vars
             PROVE  OneRequestPerHop'
  OBVIOUS
<1>1. ASSUME NEW t \in Threads, Enqueue(t) PROVE OneRequestPerHop'
  <2>1. PICK p \in Top(t).pkts, r \in ReqIds :
          /\ QueueReq(t, NextHop[p], r)
          /\ req' = [req EXCEPT ![r] = WithPacket(@, p)]
    BY <1>1 DEF Enqueue
  <2>2. ASSUME NEW q \in ReqIds, q # r
        PROVE  req'[q] = req[q]
    BY <2>1, <2>2 DEF TypeOK
  <2>3. req'[r].ip = NextHop[p]
    BY <2>1 DEF TypeOK, Request, WithPacket
  <2>4. \A q \in Queued : q # r => req[q].ip # NextHop[p]
    BY <2>1 DEF QueueReq, OneRequestPerHop
  <2>5. ASSUME NEW q \in Queued', NEW q2 \in Queued', req'[q].ip = req'[q2].ip
        PROVE  q = q2
    BY <2>2, <2>3, <2>4, <2>5 DEF OneRequestPerHop, Queued
  <2> QED BY <2>5 DEF OneRequestPerHop
<1>2. ASSUME Tick PROVE FewerQueued
  BY <1>2 DEF Tick, FewerQueued, TypeOK, Request
<1>3. ASSUME NEW t \in Threads, Resend(t) PROVE FewerQueued
  <2>1. ASSUME NEW r \in ReqIds, NEW took \in 0 .. DueAge,
               req' = [req EXCEPT ![r] = SentAgain(@, took)]
        PROVE  FewerQueued
    BY <2>1 DEF FewerQueued, TypeOK, Request, SentAgain
  <2>2. CASE UNCHANGED req
    BY <2>2 DEF FewerQueued
  <2>3. Top(t).req \in ReqIds \/ UNCHANGED req
    BY <1>3, RequestAtTop DEF Resend, OnRequest
  <2> QED BY <1>3, <2>1, <2>2, <2>3 DEF Resend
<1>4. ASSUME NEW t \in Threads, Destroy(t) PROVE FewerQueued
  BY <1>4 DEF Destroy, FewerQueued, TypeOK, Request
<1>5. ASSUME NEW h \in Hops, Detach(h) PROVE FewerQueued
  BY <1>5 DEF Detach, FewerQueued, TypeOK, Request
<1>6. ASSUME UNCHANGED req PROVE FewerQueued
  BY <1>6 DEF FewerQueued
<1>7. ASSUME NEW t \in Threads, ThreadStep(t) PROVE OneRequestPerHop'
  <2>1. CASE UNCHANGED req
    BY <1>6, <2>1, FewerKeepsOne
  <2>2. CASE Resend(t)
    BY <1>3, <2>2, FewerKeepsOne
  <2>3. CASE Destroy(t)
    BY <1>4, <2>3, FewerKeepsOne
  <2> QED
    BY <1>1, <1>7, <2>1, <2>2, <2>3
    DEF ThreadStep, Lookup, Check, Unreachable, AllReported, Crash
<1>8. ASSUME NEW h \in Hops, NEW mine \in BOOLEAN,
             ArpReply(h, mine) \/ ArpRequest(h)
      PROVE  OneRequestPerHop'
  BY <1>5, <1>8, FewerKeepsOne DEF ArpReply, ArpRequest
<1>9. CASE \/ Flush \/ SweepBegin \/ SweepNext \/ SweepEnd \/ UNCHANGED vars
           \/ \E t \in Threads, p \in Packets : Transmit(t, p)
  <2>1. UNCHANGED req
    BY <1>9 DEF Flush, SweepBegin, SweepNext, SweepEnd, Transmit, vars
  <2> QED BY <1>6, <2>1, FewerKeepsOne
<1>10. ASSUME NEW h \in Hops, ArpRequest(h) PROVE OneRequestPerHop'
  BY <1>5, <1>10, FewerKeepsOne DEF ArpRequest
<1> QED
  BY <1>2, <1>7, <1>8, <1>9, <1>10, FewerKeepsOne
  DEF Next, MainStep, SweeperStep, WorkerStep, Receive, Threads

(***************************************************************************)
(* However the threads interleave their locked sections, the queue never   *)
(* holds two requests for a hop, so the packets of a hop are all on the    *)
(* request an ARP reply finds.                                             *)
(***************************************************************************)
THEOREM OneRequest == Spec => []OneRequestPerHop
<1>1. Init => OneRequestPerHop
  BY DEF Init, OneRequestPerHop, Queued, Unused
<1> QED BY <1>1, TypeCorrect, OneRequestStep, PTL DEF Spec

(***************************************************************************)
(* The same, call by call.                                                 *)
(***************************************************************************)
LEMMA StackShape ==
  ASSUME TypeOK, NEW t \in Threads, ~Idle(t)
  PROVE  /\ Len(stack[t]) \in Nat /\ Len(stack[t]) >= 1
         /\ DOMAIN stack[t] = 1 .. Len(stack[t])
         /\ stack[t][1] = Top(t)
<1>1. stack[t] \in Seq(Frames) /\ stack[t] # <<>>
  BY DEF TypeOK, Idle
<1> QED BY <1>1 DEF Top

LEMMA ReturnStack ==
  ASSUME TypeOK, NEW t \in Threads, ~Idle(t), Return(t)
  PROVE  /\ DOMAIN stack'[t] = 1 .. Len(stack[t]) - 1
         /\ Len(stack'[t]) = Len(stack[t]) - 1
         /\ \A i \in 1 .. Len(stack[t]) - 1 : stack'[t][i] = stack[t][i + 1]
         /\ Len(stack[t]) = 1 => stack'[t] = <<>>
         /\ stack'[t] # <<>> => Head(stack'[t]) = stack'[t][1]
         /\ \A u \in Threads \ {t} : stack'[u] = stack[u]
<1> DEFINE s == stack[t]
<1>1. s \in Seq(Frames) /\ s # <<>>
  BY DEF TypeOK, Idle
<1>2. /\ stack'[t] = Tail(s)
      /\ \A u \in Threads \ {t} : stack'[u] = stack[u]
  BY DEF Return, TypeOK
<1>3. /\ Tail(s) \in Seq(Frames) /\ Len(Tail(s)) = Len(s) - 1
      /\ \A i \in 1 .. Len(Tail(s)) : Tail(s)[i] = s[i + 1]
  BY <1>1, HeadTailProperties
<1>4. ASSUME Len(s) = 1 PROVE Tail(s) = <<>>
  <2>1. Len(Tail(s)) = 0
    BY <1>3, <1>4
  <2>2. Tail(s) # <<>> => Len(Tail(s)) \in Nat \ {0}
    BY <1>3, EmptySeq
  <2> QED BY <2>1, <2>2
<1> QED BY <1>2, <1>3, <1>4

LEMMA GotoStack ==
  ASSUME TypeOK, NEW t \in Threads, ~Idle(t), NEW f \in Frames, Goto(t, f)
  PROVE  /\ DOMAIN stack'[t] = 1 .. Len(stack[t])
         /\ Len(stack'[t]) = Len(stack[t])
         /\ stack'[t][1] = f /\ stack'[t] # <<>> /\ Head(stack'[t]) = f
         /\ \A i \in 1 .. Len(stack[t]) : i > 1 => stack'[t][i] = stack[t][i]
         /\ \A u \in Threads \ {t} : stack'[u] = stack[u]
<1> DEFINE s == stack[t]  n == Len(s)
<1>1. s \in Seq(Frames) /\ s # <<>> /\ <<f>> \in Seq(Frames)
  BY DEF TypeOK, Idle
<1>2. /\ stack'[t] = <<f>> \o Tail(s) /\ Tail(s) \in Seq(Frames)
      /\ Len(Tail(s)) = n - 1 /\ n \in Nat /\ n >= 1
      /\ \A i \in 1 .. Len(Tail(s)) : Tail(s)[i] = s[i + 1]
      /\ \A u \in Threads \ {t} : stack'[u] = stack[u]
  BY <1>1, HeadTailProperties DEF Goto, TypeOK
<1>3. stack'[t] \in Seq(Frames) /\ Len(stack'[t]) = n
  BY <1>1, <1>2, ConcatProperties
<1>4. stack'[t][1] = f /\ stack'[t] # <<>> /\ Head(stack'[t]) = f
  BY <1>1, <1>2, <1>3
<1>5. ASSUME NEW i \in 1 .. n, i > 1 PROVE stack'[t][i] = s[i]
  <2>1. i - 1 \in 1 .. Len(Tail(s)) /\ (i - 1) + 1 = i
    BY <1>2, <1>5
  <2>2. stack'[t][i] = Tail(s)[i - 1]
    BY <1>1, <1>2, <1>5, <2>1, ConcatProperties
  <2> QED BY <1>2, <2>1, <2>2
<1> QED BY <1>2, <1>3, <1>4, <1>5

LEMMA CallStack ==
  ASSUME TypeOK, NEW t \in Threads, ~Idle(t),
         NEW f \in Frames, NEW g \in Frames, Call(t, f, g), stack' # stack
  PROVE  /\ DOMAIN stack'[t] = 1 .. Len(stack[t]) + 1
         /\ Len(stack'[t]) = Len(stack[t]) + 1
         /\ stack'[t][1] = g /\ stack'[t][2] = f
         /\ stack'[t] # <<>> /\ Head(stack'[t]) = g
         /\ \A i \in 1 .. Len(stack[t]) : i > 1 => stack'[t][i + 1] = stack[t][i]
         /\ \A u \in Threads \ {t} : stack'[u] = stack[u]
<1> DEFINE s == stack[t]  n == Len(s)
<1>1. s \in Seq(Frames) /\ s # <<>> /\ <<g, f>> \in Seq(Frames)
  BY DEF TypeOK, Idle
<1>2. /\ stack'[t] = <<g, f>> \o Tail(s) /\ Tail(s) \in Seq(Frames)
      /\ Len(Tail(s)) = n - 1 /\ n \in Nat /\ n >= 1
      /\ \A i \in 1 .. Len(Tail(s)) : Tail(s)[i] = s[i + 1]
      /\ \A u \in Threads \ {t} : stack'[u] = stack[u]
  BY <1>1, HeadTailProperties DEF TypeOK, Call
<1>3. stack'[t] \in Seq(Frames) /\ Len(stack'[t]) = n + 1
  BY <1>1, <1>2, ConcatProperties
<1>4. stack'[t][1] = g /\ stack'[t][2] = f
  BY <1>1, <1>2, <1>3, ConcatProperties
<1>5. stack'[t] # <<>> /\ Head(stack'[t]) = g
  BY <1>3, <1>4
<1>6. ASSUME NEW i \in 1 .. n, i > 1 PROVE stack'[t][i + 1] = s[i]
  <2>1. i - 1 \in 1 .. Len(Tail(s)) /\ (i - 1) + 1 = i
    BY <1>2, <1>6
  <2>2. stack'[t][i + 1] = Tail(s)[i - 1]
    <3>1. i + 1 \in 1 .. Len(<<g, f>>) + Len(Tail(s)) /\ ~(i + 1 <= 2)
      BY <1>2, <1>6
    <3>2. (i + 1) - 2 = i - 1 /\ Len(<<g, f>>) = 2
      BY <1>6
    <3> QED BY <1>1, <1>2, <3>1, <3>2, ConcatProperties
  <2> QED BY <1>2, <2>1, <2>2
<1> QED BY <1>2, <1>3, <1>4, <1>5, <1>6

(***************************************************************************)
(* The number of ARP requests sent for a hop.  A thread is about to send   *)
(* one only in its innermost call, and the calls further out are those     *)
(* that call something: a sweep, or a walk that reports packets.           *)
(***************************************************************************)
DeepCalls ==
  \A t \in Threads : \A i \in DOMAIN stack[t] :
    i > 1 => stack[t][i].at \in {"sweep", "unreachable"}

Sending(r) ==
  {t \in Threads : ~Idle(t) /\ Top(t).at = "resend" /\ Top(t).req = r}

LEMMA ReturnDeep ==
  ASSUME TypeOK, DeepCalls, NEW t \in Threads, ~Idle(t), Return(t)
  PROVE  /\ DeepCalls'
         /\ \A r : Sending(r)' \subseteq Sending(r) \ {t}
<1> DEFINE n == Len(stack[t])
<1>1. /\ n \in Nat /\ DOMAIN stack[t] = 1 .. n /\ DOMAIN stack'[t] = 1 .. n - 1
      /\ Len(stack'[t]) = n - 1
      /\ \A i \in 1 .. n - 1 : stack'[t][i] = stack[t][i + 1]
      /\ stack'[t] # <<>> => Head(stack'[t]) = stack'[t][1]
      /\ \A u \in Threads \ {t} : stack'[u] = stack[u]
  BY StackShape, ReturnStack
<1>2. \A i \in 1 .. n - 1 : i + 1 \in 1 .. n /\ i + 1 > 1
  BY <1>1
<1>3. \A i \in DOMAIN stack'[t] : stack'[t][i].at \in {"sweep", "unreachable"}
  BY <1>1, <1>2 DEF DeepCalls
<1>4. DeepCalls'
  BY <1>1, <1>3 DEF DeepCalls
<1>5. stack'[t] # <<>> => Head(stack'[t]).at # "resend"
  <2>1. stack'[t] \in Seq(Frames)
    BY ReturnType
  <2>2. stack'[t] # <<>> => 1 \in DOMAIN stack'[t]
    BY <2>1
  <2> QED BY <1>1, <1>3, <2>2
<1> QED BY <1>1, <1>4, <1>5 DEF Sending, Idle, Top

LEMMA GotoDeep ==
  ASSUME TypeOK, DeepCalls, NEW t \in Threads, ~Idle(t),
         NEW f \in Frames, Goto(t, f)
  PROVE  /\ DeepCalls'
         /\ \A r : Sending(r)' \subseteq Sending(r) \cup {t}
         /\ \A r : f.at # "resend" \/ f.req # r =>
              Sending(r)' \subseteq Sending(r) \ {t}
<1>1. DeepCalls'
  BY StackShape, GotoStack DEF DeepCalls
<1> QED BY <1>1, GotoStack DEF Sending, Idle, Top

LEMMA CallDeep ==
  ASSUME TypeOK, DeepCalls, NEW t \in Threads, ~Idle(t),
         NEW f \in Frames, NEW g \in Frames, Call(t, f, g),
         f.at \in {"sweep", "unreachable"}, g.at # "resend"
  PROVE  /\ DeepCalls'
         /\ \A r : Sending(r)' \subseteq Sending(r)
<1> DEFINE n == Len(stack[t])
<1>1. CASE UNCHANGED stack
  BY <1>1 DEF DeepCalls, Sending, Idle, Top
<1>2. ASSUME stack' # stack
      PROVE  DeepCalls' /\ \A r : Sending(r)' \subseteq Sending(r)
  <2>1. /\ n \in Nat /\ DOMAIN stack[t] = 1 .. n /\ DOMAIN stack'[t] = 1 .. n + 1
        /\ stack'[t][2] = f /\ stack'[t] # <<>> /\ Head(stack'[t]) = g
        /\ \A i \in 1 .. n : i > 1 => stack'[t][i + 1] = stack[t][i]
        /\ \A u \in Threads \ {t} : stack'[u] = stack[u]
    <3>1. n \in Nat /\ DOMAIN stack[t] = 1 .. n
      BY StackShape
    <3>2. /\ DOMAIN stack'[t] = 1 .. Len(stack[t]) + 1
          /\ stack'[t][2] = f /\ stack'[t] # <<>> /\ Head(stack'[t]) = g
          /\ \A i \in 1 .. Len(stack[t]) :
               i > 1 => stack'[t][i + 1] = stack[t][i]
          /\ \A u \in Threads \ {t} : stack'[u] = stack[u]
      BY <1>2, CallStack
    <3> QED BY <3>1, <3>2
  <2>2. \A j \in 1 .. n + 1 : j > 1 =>
          j = 2 \/ (j - 1 \in 1 .. n /\ j - 1 > 1 /\ j = (j - 1) + 1)
    BY <2>1
  <2>3. ASSUME NEW j \in 1 .. n + 1, j > 1
        PROVE  stack'[t][j].at \in {"sweep", "unreachable"}
    <3>1. CASE j = 2
      BY <2>1, <3>1
    <3>2. ASSUME j - 1 \in 1 .. n, j - 1 > 1, j = (j - 1) + 1
          PROVE  stack'[t][j].at \in {"sweep", "unreachable"}
      <4>1. stack'[t][j] = stack[t][j - 1]
        BY <2>1, <3>2
      <4> QED BY <2>1, <3>2, <4>1 DEF DeepCalls
    <3> QED BY <2>2, <2>3, <3>1, <3>2
  <2>4. DeepCalls'
    BY <2>1, <2>3 DEF DeepCalls
  <2> QED BY <2>1, <2>4 DEF Sending, Idle, Top
<1> QED BY <1>1, <1>2

LEMMA StartDeep ==
  ASSUME TypeOK, DeepCalls, NEW t \in Threads, NEW f \in Frames,
         f.at # "resend", stack' = [stack EXCEPT ![t] = <<f>>]
  PROVE  /\ DeepCalls'
         /\ \A r : Sending(r)' \subseteq Sending(r)
<1>1. stack'[t] = <<f>> /\ \A u \in Threads \ {t} : stack'[u] = stack[u]
  BY DEF TypeOK
<1>2. stack'[t] # <<>> /\ Head(stack'[t]) = f /\ DOMAIN stack'[t] = {1}
  BY <1>1
<1>3. DeepCalls'
  BY <1>1, <1>2 DEF DeepCalls
<1> QED BY <1>1, <1>2, <1>3 DEF Sending, Idle, Top

(***************************************************************************)
(* The invariant: the sends counted and the threads about to send one more *)
(* stay below the limit and the number of threads.                         *)
(***************************************************************************)
UnusedUnsent ==
  \A r \in ReqIds : req[r].status = "unused" => req[r].times_sent = 0
FewSends ==
  \A r \in ReqIds : Live(r) =>
    req[r].times_sent + Cardinality(Sending(r))
      < MaxSends + Cardinality(Threads)
SendsInv == DeepCalls /\ UnusedUnsent /\ FewSends

LEMMA ThreadCount ==
  /\ IsFiniteSet(Threads) /\ Cardinality(Threads) \in Nat
  /\ \A S \in SUBSET Threads :
       /\ IsFiniteSet(S) /\ Cardinality(S) \in Nat
       /\ Cardinality(S) <= Cardinality(Threads)
<1>1. IsFiniteSet({Main, Sweeper})
  <2>1. {Main, Sweeper} = {Main} \cup {Sweeper}
    OBVIOUS
  <2>2. IsFiniteSet({Main})
    BY FS_Singleton
  <2>3. IsFiniteSet({Main} \cup {Sweeper})
    BY <2>2, FS_AddElement
  <2> QED BY <2>1, <2>3
<1>2. IsFiniteSet(Threads)
  BY <1>1, ThreadsAssumption, FS_Union DEF Threads
<1>3. ASSUME NEW S \in SUBSET Threads
      PROVE  /\ IsFiniteSet(S) /\ Cardinality(S) \in Nat
             /\ Cardinality(S) <= Cardinality(Threads)
  BY <1>2, FS_Subset, FS_CardinalityType
<1> QED BY <1>2, <1>3, FS_CardinalityType

(***************************************************************************)
(* The three ways a step treats a request: it counts no more sends, it     *)
(* finds or leaves the count below the limit, or it counts the send a      *)
(* thread was about to make.                                               *)
(***************************************************************************)
NoMoreSends(r) ==
  /\ Live(r) /\ req'[r].times_sent = req[r].times_sent
  /\ Sending(r)' \subseteq Sending(r)
BelowLimit(r) == req'[r].times_sent < MaxSends
CountsSend(r) ==
  /\ Live(r) /\ req'[r].times_sent = req[r].times_sent + 1
  /\ \E t \in Sending(r) : Sending(r)' \subseteq Sending(r) \ {t}

LEMMA FewSendsKept ==
  ASSUME TypeOK, TypeOK', FewSends,
         \A r \in ReqIds : Live(r)' =>
           NoMoreSends(r) \/ BelowLimit(r) \/ CountsSend(r)
  PROVE  FewSends'
<1> SUFFICES ASSUME NEW r \in ReqIds, Live(r)'
             PROVE  req'[r].times_sent + Cardinality(Sending(r)')
                      < MaxSends + Cardinality(Threads)
  BY DEF FewSends
<1> DEFINE S == Sending(r)  S2 == Sending(r)'
           c == Cardinality(S)  c2 == Cardinality(S2)  N == Cardinality(Threads)
           k == req[r].times_sent  k2 == req'[r].times_sent
<1>1. k \in Nat /\ k2 \in Nat
  BY DEF TypeOK, Request
<1>2. S \in SUBSET Threads /\ S2 \in SUBSET Threads
  BY DEF Sending
<1>3. /\ N \in Nat /\ c \in Nat /\ c2 \in Nat /\ c2 <= N
      /\ IsFiniteSet(S) /\ IsFiniteSet(S2)
  BY <1>2, ThreadCount
<1>4. MaxSends \in Nat
  BY BoundsAssumption
<1>5. ASSUME NoMoreSends(r) PROVE k2 + c2 < MaxSends + N
  <2>1. k + c < MaxSends + N
    BY <1>5 DEF NoMoreSends, FewSends
  <2>2. k2 = k /\ S2 \in SUBSET S
    BY <1>5 DEF NoMoreSends
  <2>3. c2 <= c
    BY <1>3, <2>2, FS_Subset
  <2> HIDE DEF k, k2, c, c2, N
  <2> QED BY <1>1, <1>3, <1>4, <2>1, <2>2, <2>3
<1>6. ASSUME BelowLimit(r) PROVE k2 + c2 < MaxSends + N
  <2>1. k2 < MaxSends
    BY <1>6 DEF BelowLimit
  <2> HIDE DEF k, k2, c, c2, N
  <2> QED BY <1>1, <1>3, <1>4, <2>1
<1>7. ASSUME CountsSend(r) PROVE k2 + c2 < MaxSends + N
  <2>1. k + c < MaxSends + N
    BY <1>7 DEF CountsSend, FewSends
  <2>2. PICK t \in S : S2 \subseteq S \ {t}
    BY <1>7 DEF CountsSend
  <2>3. k2 = k + 1
    BY <1>7 DEF CountsSend
  <2>4. IsFiniteSet(S \ {t}) /\ Cardinality(S \ {t}) = c - 1
    BY <1>3, <2>2, FS_RemoveElement
  <2>5. c2 <= c - 1
    BY <2>2, <2>4, FS_Subset
  <2> HIDE DEF k, k2, c, c2, N
  <2> QED BY <1>1, <1>3, <1>4, <2>1, <2>3, <2>5
<1> QED BY <1>5, <1>6, <1>7

(***************************************************************************)
(* Every step keeps the invariant.                                         *)
(***************************************************************************)
CountsKept ==
  \A r \in ReqIds : /\ Live(r)' => Live(r)
                    /\ req'[r].times_sent = req[r].times_sent
                    /\ req'[r].status = "unused" => req[r].status = "unused"
NoNewSending == \A r : Sending(r)' \subseteq Sending(r)

LEMMA QuietSends ==
  ASSUME TypeOK, TypeOK', SendsInv, DeepCalls', CountsKept, NoNewSending
  PROVE  SendsInv'
<1>1. \A r \in ReqIds : Live(r)' => NoMoreSends(r)
  BY DEF CountsKept, NoNewSending, NoMoreSends
<1>2. FewSends'
  BY <1>1, FewSendsKept DEF SendsInv
<1>3. UnusedUnsent'
  BY DEF SendsInv, UnusedUnsent, CountsKept
<1> QED BY <1>2, <1>3 DEF SendsInv

LEMMA GotoQuiet ==
  ASSUME TypeOK, DeepCalls, NEW t \in Threads, ~Idle(t),
         NEW f \in Frames, Goto(t, f), f.at # "resend"
  PROVE  DeepCalls' /\ NoNewSending
BY GotoDeep DEF NoNewSending

LEMMA LookupFrame ==
  ASSUME NEW p \in Packets
  PROVE  /\ Frame("lookup", NoReq, {p}) \in Frames
         /\ Frame("lookup", NoReq, {p}).at # "resend"
<1>1. Frame("lookup", NoReq, {p}) \in Frames
  BY BoundsAssumption DEF Frame, Frames, Calls, OnRequest, NoReq
<1>2. Frame("lookup", NoReq, {p}).at # "resend"
  BY DEF Frame
<1> QED BY <1>1, <1>2

LEMMA SameCounts == ASSUME UNCHANGED req PROVE CountsKept
BY DEF CountsKept, Live

LEMMA DetachCounts ==
  ASSUME TypeOK, NEW h \in Hops, Detach(h) PROVE CountsKept
<1> SUFFICES ASSUME NEW r \in ReqIds
             PROVE  /\ Live(r)' => Live(r)
                    /\ req'[r].times_sent = req[r].times_sent
                    /\ req'[r].status = "unused" => req[r].status = "unused"
  BY DEF CountsKept
<1> QED BY DEF Detach, Queued, Live, TypeOK, Request

LEMMA SendsStep == TypeOK /\ TypeOK' /\ SendsInv /\ [Next]_vars => SendsInv'
<1> SUFFICES ASSUME TypeOK, TypeOK', SendsInv, [Next]_vars PROVE SendsInv'
  OBVIOUS
<1>0. DeepCalls /\ Main \in Threads /\ Sweeper \in Threads
  BY DEF SendsInv, Threads
<1>1. ASSUME UNCHANGED stack PROVE DeepCalls' /\ NoNewSending
  BY <1>0, <1>1 DEF DeepCalls, NoNewSending, Sending, Idle, Top
<1>2. ASSUME Tick PROVE SendsInv'
  <2>1. CountsKept
    BY <1>2 DEF Tick, CountsKept, TypeOK, Request, Live
  <2> QED BY <1>1, <1>2, <2>1, QuietSends DEF Tick
<1>3. ASSUME NEW t \in Threads, NEW p \in Packets, Transmit(t, p) PROVE SendsInv'
  <2>1. /\ Frame("lookup", NoReq, {p}) \in Frames
        /\ Frame("lookup", NoReq, {p}).at # "resend"
    BY LookupFrame
  <2>2. DeepCalls' /\ NoNewSending
    BY <1>0, <1>3, <2>1, StartDeep DEF Transmit, NoNewSending
  <2> QED BY <1>3, <2>2, SameCounts, QuietSends DEF Transmit
<1>4. ASSUME NEW t \in Threads, Lookup(t) PROVE SendsInv'
  <2>1. ~Idle(t) /\ Top(t) \in Frames
    BY <1>4, TopType DEF Lookup, At
  <2> DEFINE f == [Top(t) EXCEPT !.at = "enqueue"]
  <2>2. f \in Frames /\ f.at # "resend"
    BY <2>1 DEF Frames, Calls, OnRequest
  <2>3. DeepCalls' /\ NoNewSending
    <3>1. CASE Return(t)
      BY <1>0, <2>1, <3>1, ReturnDeep DEF NoNewSending
    <3>2. ASSUME Goto(t, f) PROVE DeepCalls' /\ NoNewSending
      <4> HIDE DEF f
      <4> QED BY <1>0, <2>1, <2>2, <3>2, GotoQuiet
    <3> QED BY <1>4, <3>1, <3>2 DEF Lookup
  <2> QED BY <1>4, <2>3, SameCounts, QuietSends DEF Lookup
<1>5. ASSUME NEW t \in Threads, Enqueue(t) PROVE SendsInv'
  <2>1. ~Idle(t) /\ Top(t).pkts \subseteq Packets
    BY <1>5, TopType DEF Enqueue, At
  <2>2. PICK p \in Top(t).pkts, r \in ReqIds :
          /\ QueueReq(t, NextHop[p], r)
          /\ req' = [req EXCEPT ![r] = WithPacket(@, p)]
          /\ Goto(t, Frame("check", r, {}))
    BY <1>5 DEF Enqueue
  <2>3. Frame("check", r, {}) \in Frames /\ Frame("check", r, {}).at # "resend"
    BY FrameType DEF Frame, Frames, Calls, OnRequest, ReqIds, NoReq
  <2>4. DeepCalls' /\ NoNewSending
    BY <1>0, <2>1, <2>2, <2>3, GotoDeep DEF NoNewSending
  <2>5. /\ req'[r].status = "queued" /\ req'[r].times_sent = req[r].times_sent
        /\ \A q \in ReqIds \ {r} : req'[q] = req[q]
    BY <2>2 DEF TypeOK, Request, WithPacket
  <2>6. r \in Queued \/ req[r].status = "unused"
    BY <2>2 DEF QueueReq, NewReqs
  <2>7. CASE r \in Queued
    <3>1. CountsKept
      BY <2>5, <2>7 DEF CountsKept, Queued, Live
    <3> QED BY <2>4, <3>1, QuietSends
  <2>8. CASE req[r].status = "unused"
    <3>1. req'[r].times_sent < MaxSends
      <4>1. req'[r].times_sent = 0
        BY <2>5, <2>8 DEF SendsInv, UnusedUnsent
      <4> QED BY <4>1, BoundsAssumption
    <3>2. \A q \in ReqIds : Live(q)' => NoMoreSends(q) \/ BelowLimit(q)
      BY <2>4, <2>5, <3>1 DEF NoNewSending, NoMoreSends, BelowLimit, Live
    <3>3. FewSends'
      BY <3>2, FewSendsKept DEF SendsInv
    <3>4. UnusedUnsent'
      BY <2>5 DEF SendsInv, UnusedUnsent
    <3> QED BY <2>4, <3>3, <3>4 DEF SendsInv
  <2> QED BY <2>6, <2>7, <2>8
<1>6. ASSUME NEW t \in Threads, Check(t) PROVE SendsInv'
  <2> DEFINE r == Top(t).req
  <2>1. ~Idle(t) /\ r \in ReqIds /\ r # NoReq /\ r \in 0 .. MaxReqs
    BY <1>6, TopType, RequestAtTop DEF Check, At, OnRequest
  <2>2. CASE Return(t)
    <3>1. DeepCalls' /\ NoNewSending
      BY <1>0, <2>1, <2>2, ReturnDeep DEF NoNewSending
    <3> QED BY <1>6, <3>1, SameCounts, QuietSends DEF Check
  <2>3. CASE Goto(t, Frame("unreachable", r, req[r].packets))
    <3>1. req[r].packets \in SUBSET Packets
      BY <2>1 DEF TypeOK, Request
    <3>2. /\ Frame("unreachable", r, req[r].packets) \in Frames
          /\ Frame("unreachable", r, req[r].packets).at # "resend"
      BY <2>1, <3>1, FrameType DEF Frame, Calls, OnRequest
    <3>3. DeepCalls' /\ NoNewSending
      BY <1>0, <2>1, <2>3, <3>2, GotoDeep DEF NoNewSending
    <3> QED BY <1>6, <3>3, SameCounts, QuietSends DEF Check
  <2>4. ASSUME NEW exhausted \in Exhausted(r), ~exhausted,
               Goto(t, Frame("resend", r, {}))
        PROVE  SendsInv'
    <3>1. Frame("resend", r, {}) \in Frames /\ Frame("resend", r, {}).req = r
      BY <2>1, FrameType DEF Frame, Calls, OnRequest
    <3>2. DeepCalls' /\ \A q : q # r => Sending(q)' \subseteq Sending(q)
      <4> HIDE DEF r
      <4> QED BY <1>0, <2>1, <2>4, <3>1, GotoDeep
    <3>3. Live(r) => ~(req[r].times_sent >= MaxSends)
      BY <2>4 DEF Exhausted
    <3>4. req[r].times_sent \in Nat
      BY <2>1 DEF TypeOK, Request
    <3>5. Live(r) => req[r].times_sent < MaxSends
      BY <3>3, <3>4, BoundsAssumption
    <3>6. UNCHANGED req
      BY <1>6 DEF Check
    <3>7. \A q \in ReqIds : Live(q)' => NoMoreSends(q) \/ BelowLimit(q)
      <4> HIDE DEF r
      <4> QED BY <3>2, <3>5, <3>6 DEF NoMoreSends, BelowLimit, Live
    <3>8. FewSends'
      BY <3>7, FewSendsKept DEF SendsInv
    <3> QED BY <3>2, <3>6, <3>8 DEF SendsInv, UnusedUnsent
  <2> QED BY <1>6, <2>2, <2>3, <2>4 DEF Check
<1>7. ASSUME NEW t \in Threads, Resend(t) PROVE SendsInv'
  <2>0. ~Idle(t) /\ Top(t).req \in ReqIds
    BY <1>7, RequestAtTop DEF Resend, At, OnRequest
  <2>1. PICK r \in ReqIds : r = Top(t).req
    BY <2>0
  <2>2. DeepCalls' /\ \A q : Sending(q)' \subseteq Sending(q) \ {t}
    BY <1>0, <1>7, <2>0, ReturnDeep DEF Resend
  <2>3. CASE UNCHANGED req
    BY <2>2, <2>3, SameCounts, QuietSends DEF NoNewSending
  <2>4. ASSUME NEW took \in 0 .. DueAge, Live(r),
               req' = [req EXCEPT ![r] = SentAgain(@, took)]
        PROVE  SendsInv'
    <3>1. /\ req'[r].times_sent = req[r].times_sent + 1
          /\ req'[r].status = req[r].status
          /\ \A q \in ReqIds \ {r} : req'[q] = req[q]
      BY <2>1, <2>4 DEF TypeOK, Request, SentAgain
    <3>2. t \in Sending(r)
      BY <1>7, <2>0, <2>1 DEF Resend, Sending, At, Top
    <3>3. CountsSend(r)
      BY <2>2, <2>4, <3>1, <3>2 DEF CountsSend
    <3>4. ASSUME NEW q \in ReqIds, q # r, Live(q)' PROVE NoMoreSends(q)
      BY <2>2, <3>1, <3>4 DEF NoMoreSends, Live
    <3>5. FewSends'
      BY <3>3, <3>4, FewSendsKept DEF SendsInv
    <3>6. UnusedUnsent'
      BY <2>4, <3>1 DEF SendsInv, UnusedUnsent, Live
    <3> QED BY <2>2, <3>5, <3>6 DEF SendsInv
  <2> QED BY <1>7, <2>1, <2>3, <2>4 DEF Resend
<1>8. ASSUME NEW t \in Threads, Unreachable(t) PROVE SendsInv'
  <2>1. ~Idle(t) /\ Top(t) \in Frames /\ Top(t).pkts \subseteq Packets
    BY <1>8, TopType DEF Unreachable, At
  <2>2. PICK p \in Top(t).pkts :
          IF IcmpError[p] = NoPacket
          THEN Goto(t, [Top(t) EXCEPT !.pkts = @ \ {p}])
          ELSE Call(t, [Top(t) EXCEPT !.pkts = @ \ {p}],
                       Frame("lookup", NoReq, {IcmpError[p]}))
    BY <1>8 DEF Unreachable
  <2> DEFINE rest == [Top(t) EXCEPT !.pkts = @ \ {p}]
  <2>3. rest \in Frames /\ rest.at = "unreachable"
    BY <1>8, <2>1 DEF Frames, Unreachable, At, Top
  <2>4. DeepCalls' /\ NoNewSending
    <3>1. CASE IcmpError[p] = NoPacket
      BY <1>0, <2>1, <2>2, <2>3, <3>1, GotoDeep DEF NoNewSending
    <3>2. CASE IcmpError[p] # NoPacket
      <4>1. IcmpError[p] \in Packets
        BY <2>1, <3>2, PacketsAssumption DEF Packets
      <4>2. /\ Frame("lookup", NoReq, {IcmpError[p]}) \in Frames
            /\ Frame("lookup", NoReq, {IcmpError[p]}).at # "resend"
        BY <4>1, LookupFrame
      <4> QED BY <1>0, <2>1, <2>2, <2>3, <3>2, <4>2, CallDeep DEF NoNewSending
    <3> QED BY <3>1, <3>2
  <2> QED BY <1>8, <2>4, SameCounts, QuietSends DEF Unreachable
<1>9. ASSUME NEW t \in Threads, AllReported(t) PROVE SendsInv'
  <2>1. ~Idle(t) /\ Top(t) \in Frames /\ Top(t).req # NoReq
    BY <1>9, TopType, RequestAtTop DEF AllReported, At, OnRequest
  <2> DEFINE f == [Top(t) EXCEPT !.at = "destroy"]
  <2>2. f \in Frames /\ f.at # "resend" /\ Goto(t, f)
    BY <1>9, <2>1, FrameUpdate DEF Frames, Calls, OnRequest, AllReported
  <2> HIDE DEF f
  <2>3. DeepCalls' /\ NoNewSending
    BY <1>0, <2>1, <2>2, GotoQuiet
  <2> QED BY <1>9, <2>3, SameCounts, QuietSends DEF AllReported
<1>10. ASSUME NEW t \in Threads, Destroy(t) PROVE SendsInv'
  <2>1. DeepCalls' /\ NoNewSending
    BY <1>0, <1>10, ReturnDeep DEF Destroy, At, NoNewSending
  <2>2. CountsKept
    BY <1>10 DEF Destroy, CountsKept, Live, TypeOK, Request
  <2> QED BY <2>1, <2>2, QuietSends
<1>11. ASSUME NEW t \in Threads, Crash(t) PROVE SendsInv'
  BY <1>1, <1>11, SameCounts, QuietSends DEF Crash
<1>12. ASSUME NEW h \in Hops, NEW mine \in BOOLEAN, ArpReply(h, mine)
       PROVE  SendsInv'
  <2>1. CountsKept
    BY <1>12, DetachCounts DEF ArpReply
  <2>2. CASE UNCHANGED stack
    BY <1>1, <2>1, <2>2, QuietSends
  <2>3. ASSUME NEW r \in Queued,
               stack' = [stack EXCEPT ![Main] = <<Frame("flush", r, {})>>]
        PROVE  SendsInv'
    <3>1. Frame("flush", r, {}) \in Frames /\ Frame("flush", r, {}).at # "resend"
      <4>1. r \in 1 .. MaxReqs
        BY DEF Queued, ReqIds
      <4> QED BY <4>1 DEF Frame, Frames, Calls, OnRequest, NoReq
    <3>2. DeepCalls' /\ NoNewSending
      BY <1>0, <2>3, <3>1, StartDeep DEF NoNewSending
    <3> QED BY <2>1, <3>2, QuietSends
  <2> QED BY <1>12, <2>2, <2>3 DEF ArpReply
<1>13. ASSUME NEW h \in Hops, ArpRequest(h) PROVE SendsInv'
  BY <1>1, <1>13, DetachCounts, QuietSends DEF ArpRequest
<1>14. ASSUME Flush PROVE SendsInv'
  <2>1. ~Idle(Main) /\ Top(Main) \in Frames /\ Top(Main).req # NoReq
    BY <1>0, <1>14, TopType, RequestAtTop DEF Flush, At, OnRequest
  <2> DEFINE f == [Top(Main) EXCEPT !.at = "destroy"]
  <2>2. f \in Frames /\ f.at # "resend" /\ Goto(Main, f)
    BY <1>14, <2>1, FrameUpdate DEF Frames, Calls, OnRequest, Flush
  <2> HIDE DEF f
  <2>3. DeepCalls' /\ NoNewSending
    BY <1>0, <2>1, <2>2, GotoQuiet
  <2> QED BY <1>14, <2>3, SameCounts, QuietSends DEF Flush
<1>15. ASSUME SweepBegin PROVE SendsInv'
  <2>1. PICK first \in 0 .. MaxReqs :
          stack' = [stack EXCEPT ![Sweeper] = <<Frame("sweep", first, {})>>]
    BY <1>15 DEF SweepBegin
  <2>2. /\ Frame("sweep", first, {}) \in Frames
        /\ Frame("sweep", first, {}).at # "resend"
    BY DEF Frame, Frames, Calls, OnRequest
  <2>3. DeepCalls' /\ NoNewSending
    BY <1>0, <2>1, <2>2, StartDeep DEF NoNewSending
  <2> QED BY <1>15, <2>3, SameCounts, QuietSends DEF SweepBegin
<1>16. ASSUME SweepNext PROVE SendsInv'
  <2>1. ~Idle(Sweeper) /\ Top(Sweeper).req \in 0 .. MaxReqs
    BY <1>0, <1>16, TopType DEF SweepNext, At
  <2>2. PICK nextReq \in 0 .. MaxReqs :
          Call(Sweeper, Frame("sweep", nextReq, {}),
                        Frame("check", Top(Sweeper).req, {}))
    BY <1>16 DEF SweepNext
  <2>3. /\ Frame("sweep", nextReq, {}) \in Frames
        /\ Frame("sweep", nextReq, {}).at = "sweep"
        /\ Frame("check", Top(Sweeper).req, {}) \in Frames
        /\ Frame("check", Top(Sweeper).req, {}).at # "resend"
    BY <1>16, <2>1 DEF SweepNext, Frame, Frames, Calls, OnRequest
  <2>4. DeepCalls' /\ NoNewSending
    BY <1>0, <2>1, <2>2, <2>3, CallDeep DEF NoNewSending
  <2> QED BY <1>16, <2>4, SameCounts, QuietSends DEF SweepNext
<1>17. ASSUME SweepEnd PROVE SendsInv'
  <2>1. DeepCalls' /\ NoNewSending
    BY <1>0, <1>17, ReturnDeep DEF SweepEnd, At, NoNewSending
  <2> QED BY <1>17, <2>1, SameCounts, QuietSends DEF SweepEnd
<1>18. ASSUME UNCHANGED vars PROVE SendsInv'
  BY <1>1, <1>18, SameCounts, QuietSends DEF vars
<1>19. ASSUME NEW t \in Threads, ThreadStep(t) PROVE SendsInv'
  BY <1>4, <1>5, <1>6, <1>7, <1>8, <1>9, <1>10, <1>11, <1>19 DEF ThreadStep
<1> QED
  BY <1>2, <1>3, <1>12, <1>13, <1>14, <1>15, <1>16, <1>17, <1>18, <1>19
  DEF Next, MainStep, SweeperStep, WorkerStep, Receive, Threads

(***************************************************************************)
(* handle_arpreq tests and counts without the lock, so a hop can be asked  *)
(* for more than MaxSends times, but never for more than one time further  *)
(* per other thread, whatever the number of LSU threads.                   *)
(***************************************************************************)
THEOREM SendsBounded == Spec => []BoundedSends
<1>1. Init => SendsInv
  <2> SUFFICES ASSUME Init PROVE SendsInv
    OBVIOUS
  <2>1. DeepCalls
    BY DEF Init, DeepCalls
  <2>2. UnusedUnsent
    BY DEF Init, UnusedUnsent, Unused
  <2>3. FewSends
    BY DEF Init, FewSends, Live, Unused
  <2> QED BY <2>1, <2>2, <2>3 DEF SendsInv
<1>2. ASSUME TypeOK, SendsInv PROVE BoundedSends
  <2> SUFFICES ASSUME NEW r \in ReqIds, Live(r)
               PROVE  req[r].times_sent + Cardinality(Resending(r))
                        < MaxSends + Cardinality(Threads)
    BY DEF BoundedSends
  <2>1. ASSUME NEW t \in Threads, NEW i \in DOMAIN stack[t],
               stack[t][i] = Frame("resend", r, {})
        PROVE  t \in Sending(r)
    <3>1. stack[t] \in Seq(Frames)
      BY <1>2 DEF TypeOK
    <3>2. stack[t][i].at = "resend" /\ stack[t][i].req = r
      BY <2>1 DEF Frame
    <3>3. ~(i > 1) /\ i \in 1 .. Len(stack[t])
      BY <1>2, <3>1, <3>2 DEF SendsInv, DeepCalls
    <3>4. i = 1 /\ stack[t] # <<>>
      BY <3>1, <3>3
    <3>5. Head(stack[t]) = stack[t][i]
      BY <3>1, <3>4
    <3> QED BY <3>2, <3>4, <3>5 DEF Sending, Idle, Top
  <2>2. Resending(r) \in SUBSET Sending(r)
    BY <2>1 DEF Resending
  <2>3. Sending(r) \in SUBSET Threads
    BY DEF Sending
  <2>4. /\ IsFiniteSet(Sending(r)) /\ Cardinality(Sending(r)) \in Nat
        /\ Cardinality(Threads) \in Nat
    BY <2>3, ThreadCount
  <2>5. /\ Cardinality(Resending(r)) <= Cardinality(Sending(r))
        /\ Cardinality(Resending(r)) \in Nat
    BY <2>2, <2>4, FS_Subset, FS_CardinalityType
  <2>6. req[r].times_sent + Cardinality(Sending(r))
          < MaxSends + Cardinality(Threads)
    BY <1>2 DEF SendsInv, FewSends
  <2>7. req[r].times_sent \in Nat /\ MaxSends \in Nat
    BY <1>2, BoundsAssumption DEF TypeOK, Request
  <2> DEFINE k == req[r].times_sent  a == Cardinality(Resending(r))
             b == Cardinality(Sending(r))  N == Cardinality(Threads)
  <2> HIDE DEF k, a, b, N
  <2>8. k + a < MaxSends + N
    <3>1. /\ k \in Nat /\ a \in Nat /\ b \in Nat /\ N \in Nat
          /\ a <= b /\ k + b < MaxSends + N
      BY <2>4, <2>5, <2>6, <2>7 DEF k, a, b, N
    <3> QED BY <2>7, <3>1
  <2> QED BY <2>8 DEF k, a, N
<1>3. TypeOK /\ SendsInv => BoundedSends
  BY <1>2
<1> QED BY <1>1, <1>3, TypeCorrect, SendsStep, PTL DEF Spec

(***************************************************************************)
(* The sweep's pointer.  The timeout thread holds the lock from the start  *)
(* of a sweep to its end.  When no packet gives rise to an error it can    *)
(* send, its stack is the sweep and at most one call, on a request behind  *)
(* the one the sweep points to.                                            *)
(***************************************************************************)
NoErrors == \A p \in Packets : IcmpError[p] = NoPacket

SweepFrame(n) == Frame("sweep", n, {})
Pointers == Queued \cup {NoReq}
SweepStack(s) ==
  \/ s = <<>>
  \/ \E n \in Pointers : s = <<SweepFrame(n)>>
  \/ \E n \in Pointers, f \in Frames :
       s = <<f, SweepFrame(n)>> /\ f.at \in OnRequest /\ n < f.req
SweepInv ==
  /\ stack[Sweeper] # <<>> => lock = Sweeper
  /\ SweepStack(stack[Sweeper])

LEMMA ShortStacks ==
  ASSUME NEW f, NEW g, NEW h
  PROVE  /\ <<f>> # <<>> /\ Head(<<f>>) = f /\ Tail(<<f>>) = <<>>
         /\ <<f, g>> # <<>> /\ Head(<<f, g>>) = f /\ Tail(<<f, g>>) = <<g>>
         /\ <<f>> \o <<>> = <<f>> /\ <<f>> \o <<g>> = <<f, g>>
         /\ <<f, g>> \o <<>> = <<f, g>>
<1>1. <<f>> \o <<>> = <<f>> /\ <<f, g>> \o <<>> = <<f, g>>
  <2> DEFINE S == {f, g}
  <2>1. <<f>> \in Seq(S) /\ <<f, g>> \in Seq(S)
    OBVIOUS
  <2> QED BY <2>1, ConcatEmptySeq
<1>2. <<f>> \o <<g>> = <<f, g>>
  <2> DEFINE S == {f, g}
  <2>1. <<f>> \in Seq(S) /\ <<g>> \in Seq(S) /\ <<f, g>> \in Seq(S)
    OBVIOUS
  <2>2. /\ <<f>> \o <<g>> \in Seq(S) /\ Len(<<f>> \o <<g>>) = 2
        /\ (<<f>> \o <<g>>)[1] = f /\ (<<f>> \o <<g>>)[2] = g
    BY <2>1, ConcatProperties
  <2>3. \A i \in 1 .. 2 : (<<f>> \o <<g>>)[i] = <<f, g>>[i]
    BY <2>2
  <2> QED BY <2>1, <2>2, <2>3, SeqEqual
<1>3. /\ <<f>> # <<>> /\ Head(<<f>>) = f /\ Tail(<<f>>) = <<>>
      /\ <<f, g>> # <<>> /\ Head(<<f, g>>) = f /\ Tail(<<f, g>>) = <<g>>
  OBVIOUS
<1> QED BY <1>1, <1>2, <1>3

LEMMA SweepFrameFacts ==
  ASSUME NEW n
  PROVE  /\ SweepFrame(n).at = "sweep" /\ SweepFrame(n).req = n
         /\ SweepFrame(n).at \notin OnRequest
BY DEF SweepFrame, Frame, OnRequest

(***************************************************************************)
(* While the queue loses no request, or none the sweep points to, a stack  *)
(* that is left alone stays well formed.                                   *)
(***************************************************************************)
LEMMA SweepKept ==
  ASSUME SweepInv, stack'[Sweeper] = stack[Sweeper],
         lock' = lock, Queued \subseteq Queued'
  PROVE  SweepInv'
<1>1. Pointers \subseteq Pointers'
  BY DEF Pointers
<1>2. SweepStack(stack[Sweeper])
  BY DEF SweepInv
<1>3. CASE stack[Sweeper] = <<>>
  BY <1>3 DEF SweepInv, SweepStack
<1>4. CASE \E n \in Pointers : stack[Sweeper] = <<SweepFrame(n)>>
  BY <1>1, <1>4 DEF SweepInv, SweepStack
<1>5. CASE \E n \in Pointers, f \in Frames :
             /\ stack[Sweeper] = <<f, SweepFrame(n)>>
             /\ f.at \in OnRequest /\ n < f.req
  BY <1>1, <1>5 DEF SweepInv, SweepStack
<1> QED BY <1>2, <1>3, <1>4, <1>5 DEF SweepStack

LEMMA IdleSweeper ==
  ASSUME stack'[Sweeper] = <<>> PROVE SweepInv'
BY DEF SweepInv, SweepStack

\* Another thread that works under the lock works between two sweeps.
LEMMA SweepExcludes ==
  ASSUME SweepInv, NEW t \in Threads, t # Sweeper, MayLock(t)
  PROVE  stack[Sweeper] = <<>>
BY ThreadsAssumption DEF SweepInv, MayLock, Threads

(***************************************************************************)
(* The timeout thread in a call of handle_arpreq.                          *)
(***************************************************************************)
LEMMA SweeperInCall ==
  ASSUME SweepInv, ~Idle(Sweeper), Top(Sweeper).at # "sweep"
  PROVE  \E n \in Pointers, f \in Frames :
           /\ stack[Sweeper] = <<f, SweepFrame(n)>> /\ Top(Sweeper) = f
           /\ f.at \in OnRequest /\ n < f.req
<1>1. CASE \E n \in Pointers : stack[Sweeper] = <<SweepFrame(n)>>
  BY <1>1, ShortStacks, SweepFrameFacts DEF Top
<1>2. CASE \E n \in Pointers, f \in Frames :
             /\ stack[Sweeper] = <<f, SweepFrame(n)>>
             /\ f.at \in OnRequest /\ n < f.req
  BY <1>2, ShortStacks DEF Top
<1> QED BY <1>1, <1>2 DEF SweepInv, SweepStack, Idle

LEMMA SweeperInLoop ==
  ASSUME SweepInv, ~Idle(Sweeper), Top(Sweeper).at = "sweep"
  PROVE  \E n \in Pointers :
           stack[Sweeper] = <<SweepFrame(n)>> /\ Top(Sweeper).req = n
<1>1. CASE \E n \in Pointers : stack[Sweeper] = <<SweepFrame(n)>>
  BY <1>1, ShortStacks, SweepFrameFacts DEF Top
<1>2. CASE \E n \in Pointers, f \in Frames :
             /\ stack[Sweeper] = <<f, SweepFrame(n)>>
             /\ f.at \in OnRequest /\ n < f.req
  BY <1>2, ShortStacks DEF Top, OnRequest
<1> QED BY <1>1, <1>2 DEF SweepInv, SweepStack, Idle

(***************************************************************************)
(* From a call the timeout thread returns to the sweep, or goes on with    *)
(* another part of handle_arpreq on the same request.                      *)
(***************************************************************************)
LEMMA SweeperReturns ==
  ASSUME TypeOK, SweepInv, ~Idle(Sweeper), Top(Sweeper).at # "sweep",
         Return(Sweeper), lock' = lock, 
         \A n \in Pointers : n < Top(Sweeper).req => n \in Pointers'
  PROVE  SweepInv'
<1>1. PICK n \in Pointers, f \in Frames :
        /\ stack[Sweeper] = <<f, SweepFrame(n)>> /\ Top(Sweeper) = f
        /\ f.at \in OnRequest /\ n < f.req
  BY SweeperInCall
<1>2. Sweeper \in Threads /\ lock = Sweeper
  BY <1>1, ShortStacks DEF Threads, SweepInv
<1>3. stack'[Sweeper] = <<SweepFrame(n)>>
  BY <1>1, <1>2, ShortStacks DEF Return, TypeOK
<1>4. n \in Pointers'
  BY <1>1
<1> QED BY <1>2, <1>3, <1>4 DEF SweepInv, SweepStack

LEMMA SweeperGoesOn ==
  ASSUME TypeOK, SweepInv, ~Idle(Sweeper), Top(Sweeper).at # "sweep",
         NEW f2 \in Frames, f2.at \in OnRequest, f2.req = Top(Sweeper).req,
         Goto(Sweeper, f2), lock' = lock, UNCHANGED req
  PROVE  SweepInv'
<1>1. PICK n \in Pointers, f \in Frames :
        /\ stack[Sweeper] = <<f, SweepFrame(n)>> /\ Top(Sweeper) = f
        /\ f.at \in OnRequest /\ n < f.req
  BY SweeperInCall
<1>2. Sweeper \in Threads /\ lock = Sweeper
  BY <1>1, ShortStacks DEF Threads, SweepInv
<1>3. stack'[Sweeper] = <<f2, SweepFrame(n)>>
  BY <1>1, <1>2, ShortStacks DEF Goto, TypeOK
<1>4. n \in Pointers' /\ n < f2.req
  BY <1>1 DEF Pointers, Queued
<1> QED BY <1>2, <1>3, <1>4 DEF SweepInv, SweepStack

LEMMA SweepStep ==
  NoErrors /\ TypeOK /\ SweepInv /\ [Next]_vars => SweepInv'
<1> SUFFICES ASSUME NoErrors, TypeOK, SweepInv, [Next]_vars PROVE SweepInv'
  OBVIOUS
<1>0. /\ Main \in Threads /\ Sweeper \in Threads /\ Main # Sweeper
      /\ \A t \in Workers : t # Sweeper
  BY ThreadsAssumption DEF Threads
<1>1. ASSUME UNCHANGED req PROVE Queued \subseteq Queued' /\ Pointers' = Pointers
  BY <1>1 DEF Queued, Pointers
<1>2. ASSUME NEW t \in Threads, t # Sweeper,
             \/ Return(t) \/ \E f : Goto(t, f)
             \/ \E f : stack' = [stack EXCEPT ![t] = f]
             \/ UNCHANGED stack
      PROVE  stack'[Sweeper] = stack[Sweeper]
  BY <1>0, <1>2 DEF Return, Goto, TypeOK
<1>3. ASSUME Tick PROVE SweepInv'
  <2>1. Queued' = Queued
    BY <1>3 DEF Tick, Queued, TypeOK, Request
  <2> QED BY <1>3, <2>1, SweepKept DEF Tick
<1>4. ASSUME NEW t \in Threads, NEW p \in Packets, Transmit(t, p) PROVE SweepInv'
  <2>1. t # Sweeper
    BY <1>0, <1>4 DEF Transmit
  <2>2. stack'[Sweeper] = stack[Sweeper]
    BY <1>2, <1>4, <2>1 DEF Transmit
  <2> QED BY <1>1, <1>4, <2>2, SweepKept DEF Transmit
<1>5. ASSUME NEW label \in Calls, At(Sweeper, label)
      PROVE  ~Idle(Sweeper) /\ Top(Sweeper).at = label
  BY <1>5 DEF At, Top
<1>6. ASSUME ~Idle(Sweeper), Top(Sweeper).at \notin OnRequest,
             Top(Sweeper).at # "sweep"
      PROVE  FALSE
  BY <1>6, SweeperInCall
<1>7. ASSUME NEW t \in Threads, Lookup(t) PROVE SweepInv'
  <2>1. t # Sweeper
    BY <1>5, <1>6, <1>7 DEF Lookup, OnRequest, Calls
  <2>2. stack'[Sweeper] = stack[Sweeper]
    BY <1>2, <1>7, <2>1 DEF Lookup
  <2> QED BY <1>1, <1>7, <2>2, SweepKept DEF Lookup
<1>8. ASSUME NEW t \in Threads, Enqueue(t) PROVE SweepInv'
  <2>1. t # Sweeper
    BY <1>5, <1>6, <1>8 DEF Enqueue, OnRequest, Calls
  <2>2. stack'[Sweeper] = stack[Sweeper]
    BY <1>2, <1>8, <2>1 DEF Enqueue
  <2>3. PICK p \in Top(t).pkts, r \in ReqIds :
          req' = [req EXCEPT ![r] = WithPacket(@, p)]
    BY <1>8 DEF Enqueue
  <2>4. Queued \subseteq Queued'
    BY <2>3 DEF Queued, TypeOK, Request, WithPacket
  <2> QED BY <1>8, <2>2, <2>4, SweepKept DEF Enqueue
<1>9. ASSUME NEW t \in Threads, Check(t) PROVE SweepInv'
  <2>1. CASE t # Sweeper
    <3>1. stack'[Sweeper] = stack[Sweeper]
      BY <1>2, <1>9, <2>1 DEF Check
    <3> QED BY <1>1, <1>9, <3>1, SweepKept DEF Check
  <2>2. ASSUME t = Sweeper PROVE SweepInv'
    <3>1. ~Idle(Sweeper) /\ Top(Sweeper).at = "check"
      BY <1>9, <2>2 DEF Check, At, Top
    <3> DEFINE r == Top(Sweeper).req
    <3>2. r \in ReqIds /\ r \in 0 .. MaxReqs /\ r # NoReq
      BY <1>0, <1>9, <2>2, TopType, RequestAtTop DEF Check, At, OnRequest
    <3>3. CASE Return(Sweeper)
      BY <1>1, <1>9, <3>1, <3>3, SweeperReturns DEF Check
    <3>4. CASE Goto(Sweeper, Frame("resend", r, {}))
      <4>1. /\ Frame("resend", r, {}) \in Frames
            /\ Frame("resend", r, {}).at \in OnRequest
            /\ Frame("resend", r, {}).req = r
        BY <3>2, FrameType DEF Frame, Calls, OnRequest
      <4> QED BY <1>9, <3>1, <3>4, <4>1, SweeperGoesOn DEF Check
    <3>5. CASE Goto(Sweeper, Frame("unreachable", r, req[r].packets))
      <4>1. req[r].packets \in SUBSET Packets
        BY <3>2 DEF TypeOK, Request
      <4>2. /\ Frame("unreachable", r, req[r].packets) \in Frames
            /\ Frame("unreachable", r, req[r].packets).at \in OnRequest
            /\ Frame("unreachable", r, req[r].packets).req = r
        BY <3>2, <4>1, FrameType DEF Frame, Calls, OnRequest
      <4> QED BY <1>9, <3>1, <3>5, <4>2, SweeperGoesOn DEF Check
    <3> QED BY <1>9, <2>2, <3>3, <3>4, <3>5 DEF Check
  <2> QED BY <2>1, <2>2
<1>10. ASSUME NEW t \in Threads, Resend(t) PROVE SweepInv'
  <2>1. Queued' = Queued
    <3>1. Top(t).req \in ReqIds
      BY <1>10, RequestAtTop DEF Resend, OnRequest
    <3>2. CASE UNCHANGED req
      BY <3>2 DEF Queued
    <3>3. ASSUME NEW took \in 0 .. DueAge,
                 req' = [req EXCEPT ![Top(t).req] = SentAgain(@, took)]
          PROVE  Queued' = Queued
      BY <3>1, <3>3 DEF Queued, TypeOK, Request, SentAgain
    <3> QED BY <1>10, <3>2, <3>3 DEF Resend
  <2>2. CASE t # Sweeper
    <3>1. stack'[Sweeper] = stack[Sweeper]
      BY <1>2, <1>10, <2>2 DEF Resend
    <3> QED BY <1>10, <2>1, <3>1, SweepKept DEF Resend
  <2>3. ASSUME t = Sweeper PROVE SweepInv'
    <3>1. ~Idle(Sweeper) /\ Top(Sweeper).at = "resend"
      BY <1>10, <2>3 DEF Resend, At, Top
    <3>2. Pointers' = Pointers
      BY <2>1 DEF Pointers
    <3> QED BY <1>10, <2>3, <3>1, <3>2, SweeperReturns DEF Resend
  <2> QED BY <2>2, <2>3
<1>11. ASSUME NEW t \in Threads, Unreachable(t) PROVE SweepInv'
  <2>1. ~Idle(t) /\ Top(t).pkts \subseteq Packets /\ Top(t) \in Frames
    BY <1>11, TopType DEF Unreachable, At
  <2>2. PICK p \in Top(t).pkts : Goto(t, [Top(t) EXCEPT !.pkts = @ \ {p}])
    BY <1>11, <2>1 DEF Unreachable, NoErrors
  <2>3. CASE t # Sweeper
    <3>1. stack'[Sweeper] = stack[Sweeper]
      BY <1>2, <2>2, <2>3
    <3> QED BY <1>1, <1>11, <3>1, SweepKept DEF Unreachable
  <2>4. ASSUME t = Sweeper PROVE SweepInv'
    <3> DEFINE f == [Top(t) EXCEPT !.pkts = @ \ {p}]
    <3>1. Top(t).at = "unreachable"
      BY <1>11 DEF Unreachable, At, Top
    <3>2. f \in Frames /\ f.at \in OnRequest /\ f.req = Top(t).req
      BY <2>1, <3>1 DEF Frames, OnRequest
    <3>3. Goto(t, f) /\ lock' = lock /\ UNCHANGED req
      BY <1>11, <2>2 DEF Unreachable
    <3> HIDE DEF f
    <3> QED BY <2>1, <2>4, <3>1, <3>2, <3>3, SweeperGoesOn
  <2> QED BY <2>3, <2>4
<1>12. ASSUME NEW t \in Threads, AllReported(t) PROVE SweepInv'
  <2>1. ~Idle(t) /\ Top(t) \in Frames /\ Top(t).req # NoReq
    BY <1>12, TopType, RequestAtTop DEF AllReported, At, OnRequest
  <2>2. CASE t # Sweeper
    <3>1. stack'[Sweeper] = stack[Sweeper]
      BY <1>2, <1>12, <2>2 DEF AllReported
    <3> QED BY <1>1, <1>12, <3>1, SweepKept DEF AllReported
  <2>3. ASSUME t = Sweeper PROVE SweepInv'
    <3> DEFINE f == [Top(t) EXCEPT !.at = "destroy"]
    <3>1. Top(t).at = "unreachable"
      BY <1>12 DEF AllReported, At, Top
    <3>2. f \in Frames /\ f.at \in OnRequest /\ f.req = Top(t).req
      BY <2>1, FrameUpdate DEF Frames, Calls, OnRequest
    <3>3. Goto(t, f) /\ lock' = lock /\ UNCHANGED req
      BY <1>12 DEF AllReported
    <3> HIDE DEF f
    <3> QED BY <2>1, <2>3, <3>1, <3>2, <3>3, SweeperGoesOn
  <2> QED BY <2>2, <2>3
<1>13. ASSUME NEW t \in Threads, Destroy(t) PROVE SweepInv'
  <2>1. Top(t).req \in ReqIds /\ ~Idle(t) /\ Top(t).at = "destroy"
    BY <1>13, RequestAtTop DEF Destroy, At, Top, OnRequest
  <2>2. CASE t # Sweeper
    <3>1. stack[Sweeper] = <<>>
      BY <1>13, <2>2, SweepExcludes DEF Destroy
    <3>2. stack'[Sweeper] = <<>>
      BY <1>2, <1>13, <2>2, <3>1 DEF Destroy
    <3> QED BY <3>2, IdleSweeper
  <2>3. ASSUME t = Sweeper PROVE SweepInv'
    <3>1. \A n \in Pointers : n < Top(t).req => n \in Pointers'
      <4>1. ASSUME NEW n \in Queued, n # Top(t).req PROVE n \in Queued'
        BY <1>13, <4>1 DEF Destroy, Queued, TypeOK
      <4>2. ASSUME NEW n \in Pointers, n < Top(t).req PROVE n # Top(t).req
        BY <2>1, <4>2 DEF ReqIds, Pointers, Queued, NoReq
      <4> QED BY <4>1, <4>2 DEF Pointers
    <3> QED BY <1>13, <2>1, <2>3, <3>1, SweeperReturns DEF Destroy
  <2> QED BY <2>2, <2>3
<1>14. ASSUME NEW t \in Threads, Crash(t) PROVE SweepInv'
  BY <1>1, <1>14, SweepKept DEF Crash
<1>15. ASSUME NEW h \in Hops, NEW mine \in BOOLEAN, ArpReply(h, mine)
       PROVE  SweepInv'
  <2>1. stack[Sweeper] = <<>>
    BY <1>0, <1>15, SweepExcludes DEF ArpReply
  <2>2. stack'[Sweeper] = stack[Sweeper]
    BY <1>0, <1>15 DEF ArpReply, TypeOK
  <2> QED BY <2>1, <2>2, IdleSweeper
<1>16. ASSUME NEW h \in Hops, ArpRequest(h) PROVE SweepInv'
  BY <1>0, <1>16, SweepExcludes, IdleSweeper DEF ArpRequest
<1>17. ASSUME Flush PROVE SweepInv'
  <2>1. stack'[Sweeper] = stack[Sweeper]
    BY <1>0, <1>2, <1>17 DEF Flush
  <2> QED BY <1>1, <1>17, <2>1, SweepKept DEF Flush
<1>18. ASSUME SweepBegin PROVE SweepInv'
  <2>1. PICK first \in 0 .. MaxReqs :
          /\ IsNext(first, MaxReqs + 1)
          /\ stack' = [stack EXCEPT ![Sweeper] = <<SweepFrame(first)>>]
    BY <1>18 DEF SweepBegin, SweepFrame
  <2>2. stack'[Sweeper] = <<SweepFrame(first)>>
    BY <1>0, <2>1 DEF TypeOK
  <2>3. first \in Pointers /\ Pointers' = Pointers
    BY <1>1, <1>18, <2>1 DEF IsNext, Pointers, SweepBegin
  <2> QED BY <1>18, <2>2, <2>3 DEF SweepBegin, SweepInv, SweepStack
<1>19. ASSUME SweepNext PROVE SweepInv'
  <2>1. ~Idle(Sweeper) /\ Top(Sweeper).at = "sweep"
    BY <1>19 DEF SweepNext, At, Top
  <2>2. PICK n \in Pointers :
          stack[Sweeper] = <<SweepFrame(n)>> /\ Top(Sweeper).req = n
    BY <2>1, SweeperInLoop
  <2>3. PICK nextReq \in 0 .. MaxReqs :
          /\ IsNext(nextReq, n)
          /\ Call(Sweeper, SweepFrame(nextReq), Frame("check", n, {}))
    BY <1>19, <2>2 DEF SweepNext, SweepFrame
  <2>4. nextReq \in Pointers /\ nextReq < n /\ Pointers' = Pointers
    BY <1>1, <1>19, <2>3 DEF IsNext, Pointers, SweepNext
  <2>5. CASE UNCHANGED stack
    BY <1>1, <1>19, <2>5, SweepKept DEF SweepNext
  <2>6. ASSUME stack' = [stack EXCEPT ![Sweeper] =
                           <<Frame("check", n, {}), SweepFrame(nextReq)>> \o Tail(@)]
        PROVE  SweepInv'
    <3>1. stack'[Sweeper] = <<Frame("check", n, {}), SweepFrame(nextReq)>>
      BY <1>0, <2>2, <2>6, ShortStacks DEF TypeOK
    <3>2. n \in 0 .. MaxReqs /\ n # NoReq
      BY <1>19, <2>2 DEF SweepNext, Pointers, Queued, ReqIds, NoReq
    <3>3. /\ Frame("check", n, {}) \in Frames
          /\ Frame("check", n, {}).at \in OnRequest
          /\ Frame("check", n, {}).req = n
      BY <3>2, FrameType DEF Frame, Calls, OnRequest
    <3>4. lock' = Sweeper
      BY <1>19, <2>2, ShortStacks DEF SweepNext, SweepInv
    <3> QED BY <2>4, <3>1, <3>3, <3>4 DEF SweepInv, SweepStack
  <2> QED BY <2>3, <2>5, <2>6 DEF Call
<1>20. ASSUME SweepEnd PROVE SweepInv'
  <2>1. ~Idle(Sweeper) /\ Top(Sweeper).at = "sweep"
    BY <1>20 DEF SweepEnd, At, Top
  <2>2. PICK n \in Pointers : stack[Sweeper] = <<SweepFrame(n)>>
    BY <2>1, SweeperInLoop
  <2>3. stack'[Sweeper] = <<>>
    BY <1>0, <1>20, <2>2, ShortStacks DEF SweepEnd, Return, TypeOK
  <2> QED BY <2>3, IdleSweeper
<1>21. ASSUME UNCHANGED vars PROVE SweepInv'
  BY <1>1, <1>21, SweepKept DEF vars
<1>22. ASSUME NEW t \in Threads, ThreadStep(t) PROVE SweepInv'
  BY <1>7, <1>8, <1>9, <1>10, <1>11, <1>12, <1>13, <1>14, <1>22 DEF ThreadStep
<1> QED
  BY <1>3, <1>4, <1>15, <1>16, <1>17, <1>18, <1>19, <1>20, <1>21, <1>22
  DEF Next, MainStep, SweeperStep, WorkerStep, Receive, Threads

(***************************************************************************)
(* While no unreachable packet gives rise to an ICMP error the router can  *)
(* send, the pointer sr_arpcache_sweepreqs keeps across handle_arpreq      *)
(* points to a queued request, whatever the receive and the LSU threads do *)
(* meanwhile.  With errors the timeout thread frees that request itself.   *)
(***************************************************************************)
THEOREM SweepPointerKept ==
  ASSUME NoErrors PROVE Spec => []SweepPointerLive
<1>1. Init => SweepInv
  BY DEF Init, SweepInv, SweepStack, Threads
<1>2. ASSUME SweepInv PROVE SweepPointerLive
  <2>1. CASE stack[Sweeper] = <<>>
    BY <2>1 DEF SweepPointerLive
  <2>2. ASSUME NEW n \in Pointers, stack[Sweeper] = <<SweepFrame(n)>>
        PROVE  SweepPointerLive
    BY <2>2, SweepFrameFacts DEF SweepPointerLive, Pointers
  <2>3. ASSUME NEW n \in Pointers, NEW f \in Frames, f.at \in OnRequest,
               stack[Sweeper] = <<f, SweepFrame(n)>>
        PROVE  SweepPointerLive
    <3>1. DOMAIN stack[Sweeper] = {1, 2}
      BY <2>3
    <3>2. stack[Sweeper][1] = f /\ stack[Sweeper][2] = SweepFrame(n)
      BY <2>3
    <3>3. f.at # "sweep"
      BY <2>3 DEF OnRequest
    <3> QED BY <3>1, <3>2, <3>3, SweepFrameFacts DEF SweepPointerLive, Pointers
  <2> QED BY <1>2, <2>1, <2>2, <2>3 DEF SweepInv, SweepStack
<1>3. SweepInv => SweepPointerLive
  BY <1>2
<1>4. TypeOK /\ SweepInv /\ [Next]_vars => SweepInv'
  BY SweepStep
<1> QED BY <1>1, <1>3, <1>4, TypeCorrect, PTL DEF Spec
-----------------------------------------------------------------------------
(***************************************************************************)
(* ArpCache implements the safety part of ArpService for transit packets   *)
(* when no LSU thread runs, for every number of hops, packets and requests *)
(* and every ICMP error: the receive thread and the timeout thread, which  *)
(* share the queue, give no packet two outcomes and lose none but those    *)
(* whose hop has itself asked for the router's address.                    *)
(***************************************************************************)

(***************************************************************************)
(* The calls of a thread, without their order.                             *)
(***************************************************************************)
CallsOf(t) == {stack[t][i] : i \in DOMAIN stack[t]}

\* The transit packets a request lists.
Listed(r) == req[r].packets \cap Transit

\* A call is reporting the packets of the request, or about to free it.
Reporting(r) ==
  \E t \in Threads : \E f \in CallsOf(t) :
    f.at \in {"unreachable", "destroy"} /\ f.req = r

(***************************************************************************)
(* Where a thread holds a request an ARP reply has detached: only the      *)
(* receive thread does, in its outermost call, that serves the request and *)
(* frees it.                                                               *)
(***************************************************************************)
Serving(t, f) ==
  /\ t = Main /\ stack[Main] = <<f>>
  /\ req[f.req].status = "detached"
  /\ \/ f.at = "flush" /\ Listed(f.req) \cap (sent \cup reported) = {}
     \/ f.at = "destroy" /\ Listed(f.req) \subseteq sent \ reported

\* A transit packet on its way to a queue is in the receive thread's hands only.
InHand(t, f, p) ==
  /\ t = Main /\ stack[Main] = <<f>>
  /\ p \notin sent \cup reported
  /\ \A r \in ReqIds : p \notin req[r].packets

CallOk(t, f) ==
  /\ f.pkts \subseteq arrived
  /\ f.at \in {"lookup", "enqueue"} =>
       \E p \in Packets : f.pkts = {p} /\ (p \in Transit => InHand(t, f, p))
  /\ f.at = "unreachable" =>
       /\ f.pkts \cap Transit \subseteq Listed(f.req)
       /\ Listed(f.req) \ f.pkts \subseteq reported
  /\ f.at \notin {"lookup", "enqueue", "unreachable"} => f.pkts = {}
  /\ f.req # NoReq => req[f.req].status \in {"queued", "freed"} \/ Serving(t, f)
  /\ f.at = "flush" => Serving(t, f)
  /\ f.at = "destroy" => Serving(t, f) \/ Listed(f.req) \subseteq reported

RequestOk(r) ==
  /\ req[r].packets \subseteq arrived
  /\ req[r].status = "unused" => Listed(r) = {}
  /\ \A p \in Listed(r) : NextHop[p] = req[r].ip
  /\ req[r].status = "queued" =>
       /\ Listed(r) \cap sent = {}
       /\ Listed(r) \cap reported # {} => Reporting(r)
  /\ req[r].status = "freed" =>
       /\ Listed(r) \subseteq sent \cup reported
       /\ Held(r) => Listed(r) \cap sent = {}

SweepOk ==
  /\ stack[Sweeper] # <<>> => lock = Sweeper
  /\ \A i \in DOMAIN stack[Sweeper] :
       stack[Sweeper][i].at = "sweep" => i = Len(stack[Sweeper])

HistoryOk ==
  /\ sent \cup reported \subseteq arrived
  /\ arrived \cap Lsus = {}
  /\ sent \cap reported \cap Transit = {}

ServiceInv ==
  /\ \A t \in Threads : \A f \in CallsOf(t) : CallOk(t, f)
  /\ \A r \in ReqIds : RequestOk(r)
  /\ \A r, q \in ReqIds : Listed(r) \cap Listed(q) # {} => r = q
  /\ SweepOk
  /\ HistoryOk

(***************************************************************************)
(* What a return, a jump and a call do to the calls of a thread.           *)
(***************************************************************************)
Swap(t, new) ==
  /\ CallsOf(t)' \subseteq CallsOf(t) \cup new
  /\ new \subseteq CallsOf(t)'
  /\ CallsOf(t) \subseteq CallsOf(t)' \cup {Top(t)}
  /\ \A u \in Threads \ {t} : stack'[u] = stack[u]
  /\ \A f : stack[t] = <<f>> => CallsOf(t)' \subseteq new

LEMMA CallsOfSeq ==
  ASSUME NEW t \in Threads, TypeOK
  PROVE  /\ CallsOf(t) \subseteq Frames
         /\ ~Idle(t) => Top(t) \in CallsOf(t)
         /\ Idle(t) <=> CallsOf(t) = {}
         /\ \A f : stack[t] = <<f>> => CallsOf(t) = {f} /\ Top(t) = f
<1>1. stack[t] \in Seq(Frames)
  BY DEF TypeOK
<1>2. CallsOf(t) \subseteq Frames
  BY <1>1 DEF CallsOf
<1>3. ASSUME ~Idle(t) PROVE Top(t) \in CallsOf(t)
  <2>1. 1 \in DOMAIN stack[t] /\ Head(stack[t]) = stack[t][1]
    BY <1>1, <1>3 DEF Idle
  <2> QED BY <2>1 DEF CallsOf, Top
<1>4. ASSUME Idle(t) PROVE CallsOf(t) = {}
  BY <1>4 DEF Idle, CallsOf
<1>5. ASSUME NEW f, stack[t] = <<f>> PROVE CallsOf(t) = {f} /\ Top(t) = f
  <2>1. DOMAIN stack[t] = {1} /\ stack[t][1] = f
    BY <1>5
  <2> QED BY <1>5, <2>1, ShortStacks DEF CallsOf, Top
<1> QED BY <1>2, <1>3, <1>4, <1>5

LEMMA SwapReturn ==
  ASSUME TypeOK, NEW t \in Threads, ~Idle(t), Return(t)
  PROVE  Swap(t, {}) /\ \A f : stack[t] = <<f>> => stack'[t] = <<>>
<1> DEFINE s == stack[t]  n == Len(s)
<1>1. n \in Nat /\ n >= 1 /\ DOMAIN s = 1 .. n /\ s[1] = Top(t)
  BY StackShape
<1>2. /\ DOMAIN stack'[t] = 1 .. n - 1
      /\ \A i \in 1 .. n - 1 : stack'[t][i] = s[i + 1]
      /\ n = 1 => stack'[t] = <<>>
      /\ \A u \in Threads \ {t} : stack'[u] = stack[u]
  BY ReturnStack
<1>3. /\ \A i \in 1 .. n - 1 : i + 1 \in 1 .. n
      /\ \A i \in 1 .. n : i = 1 \/ (i - 1 \in 1 .. n - 1 /\ i = (i - 1) + 1)
  BY <1>1
<1>4. CallsOf(t)' \subseteq CallsOf(t)
  BY <1>1, <1>2, <1>3 DEF CallsOf
<1>5. ASSUME NEW i \in 1 .. n PROVE s[i] \in CallsOf(t)' \cup {Top(t)}
  <2>1. CASE i = 1
    BY <1>1, <2>1
  <2>2. ASSUME i - 1 \in 1 .. n - 1, i = (i - 1) + 1 PROVE s[i] \in CallsOf(t)'
    <3>1. stack'[t][i - 1] = s[i]
      BY <1>2, <2>2
    <3> QED BY <1>2, <2>2, <3>1 DEF CallsOf
  <2> QED BY <1>3, <2>1, <2>2
<1>6. CallsOf(t) \subseteq CallsOf(t)' \cup {Top(t)}
  BY <1>1, <1>5 DEF CallsOf
<1>7. ASSUME NEW f, s = <<f>> PROVE stack'[t] = <<>> /\ CallsOf(t)' = {}
  <2>1. stack'[t] = <<>>
    BY <1>2, <1>7
  <2> QED BY <2>1 DEF CallsOf
<1> QED BY <1>2, <1>4, <1>6, <1>7 DEF Swap

LEMMA SwapGoto ==
  ASSUME TypeOK, NEW t \in Threads, ~Idle(t), NEW f \in Frames, Goto(t, f)
  PROVE  Swap(t, {f}) /\ \A g : stack[t] = <<g>> => stack'[t] = <<f>>
<1> DEFINE s == stack[t]  n == Len(s)
<1>1. n \in Nat /\ n >= 1 /\ DOMAIN s = 1 .. n /\ s[1] = Top(t)
  BY StackShape
<1>2. /\ DOMAIN stack'[t] = 1 .. n /\ stack'[t][1] = f
      /\ \A i \in 1 .. n : i > 1 => stack'[t][i] = s[i]
      /\ \A u \in Threads \ {t} : stack'[u] = stack[u]
  BY GotoStack
<1>3. 1 \in 1 .. n /\ \A i \in 1 .. n : i = 1 \/ i > 1
  BY <1>1
<1>4. CallsOf(t)' \subseteq CallsOf(t) \cup {f} /\ f \in CallsOf(t)'
  BY <1>1, <1>2, <1>3 DEF CallsOf
<1>5. CallsOf(t) \subseteq CallsOf(t)' \cup {Top(t)}
  BY <1>1, <1>2, <1>3 DEF CallsOf
<1>6. ASSUME NEW g, s = <<g>> PROVE stack'[t] = <<f>> /\ CallsOf(t)' = {f}
  <2>1. stack'[t] = <<f>>
    BY <1>6, ShortStacks DEF Goto, TypeOK
  <2>2. DOMAIN stack'[t] = {1}
    BY <2>1
  <2> QED BY <1>2, <2>1, <2>2 DEF CallsOf
<1> QED BY <1>2, <1>4, <1>5, <1>6 DEF Swap

LEMMA SwapCall ==
  ASSUME TypeOK, NEW t \in Threads, ~Idle(t),
         NEW f \in Frames, NEW g \in Frames, Call(t, f, g)
  PROVE  stack' = stack \/ Swap(t, {f, g})
<1> SUFFICES ASSUME stack' # stack PROVE Swap(t, {f, g})
  OBVIOUS
<1> DEFINE s == stack[t]  n == Len(s)
<1>1. n \in Nat /\ n >= 1 /\ DOMAIN s = 1 .. n /\ s[1] = Top(t)
  BY StackShape
<1>2. /\ DOMAIN stack'[t] = 1 .. n + 1
      /\ stack'[t][1] = g /\ stack'[t][2] = f
      /\ \A i \in 1 .. n : i > 1 => stack'[t][i + 1] = s[i]
      /\ \A u \in Threads \ {t} : stack'[u] = stack[u]
  BY CallStack
<1>3. /\ 1 \in 1 .. n + 1 /\ 2 \in 1 .. n + 1
      /\ \A i \in 1 .. n : (i = 1 \/ i > 1) /\ i + 1 \in 1 .. n + 1
      /\ \A j \in 1 .. n + 1 :
           j = 1 \/ j = 2 \/ (j - 1 \in 1 .. n /\ j - 1 > 1 /\ j = (j - 1) + 1)
  BY <1>1
<1>4. CallsOf(t)' \subseteq CallsOf(t) \cup {f, g}
  <2> SUFFICES ASSUME NEW j \in 1 .. n + 1
               PROVE  stack'[t][j] \in CallsOf(t) \cup {f, g}
    BY <1>2 DEF CallsOf
  <2>1. CASE j = 1 \/ j = 2
    BY <1>2, <2>1
  <2>2. ASSUME j - 1 \in 1 .. n, j - 1 > 1, j = (j - 1) + 1
        PROVE  stack'[t][j] \in CallsOf(t)
    <3>1. stack'[t][j] = s[j - 1]
      BY <1>2, <2>2
    <3> QED BY <1>1, <2>2, <3>1 DEF CallsOf
  <2> QED BY <1>3, <2>1, <2>2
<1>5. {f, g} \subseteq CallsOf(t)'
  BY <1>2, <1>3 DEF CallsOf
<1>6. CallsOf(t) \subseteq CallsOf(t)' \cup {Top(t)}
  <2> SUFFICES ASSUME NEW i \in 1 .. n
               PROVE  s[i] \in CallsOf(t)' \cup {Top(t)}
    BY <1>1 DEF CallsOf
  <2>1. CASE i = 1
    BY <1>1, <2>1
  <2>2. CASE i > 1
    <3>1. stack'[t][i + 1] = s[i] /\ i + 1 \in 1 .. n + 1
      BY <1>2, <1>3, <2>2
    <3> QED BY <1>2, <3>1 DEF CallsOf
  <2> QED BY <1>3, <2>1, <2>2
<1>7. ASSUME NEW h, s = <<h>> PROVE CallsOf(t)' \subseteq {f, g}
  <2>1. n = 1
    BY <1>7
  <2>2. DOMAIN stack'[t] = {1, 2}
    BY <1>2, <2>1
  <2> QED BY <1>2, <2>2 DEF CallsOf
<1> QED BY <1>2, <1>4, <1>5, <1>6, <1>7 DEF Swap

LEMMA SwapStart ==
  ASSUME TypeOK, NEW t \in Threads, Idle(t), NEW f \in Frames,
         stack' = [stack EXCEPT ![t] = <<f>>]
  PROVE  Swap(t, {f}) /\ stack'[t] = <<f>>
<1>1. stack'[t] = <<f>> /\ \A u \in Threads \ {t} : stack'[u] = stack[u]
  BY DEF TypeOK
<1>2. DOMAIN stack'[t] = {1} /\ stack'[t][1] = f
  BY <1>1
<1>3. CallsOf(t)' = {f} /\ CallsOf(t) = {}
  BY <1>2, CallsOfSeq DEF CallsOf
<1> QED BY <1>1, <1>3 DEF Swap

(***************************************************************************)
(* The sweep is the outermost call of the timeout thread, which holds the  *)
(* lock for as long: nobody else changes the queue during a sweep.         *)
(***************************************************************************)
LEMMA SweepOkSame ==
  ASSUME SweepOk, stack'[Sweeper] = stack[Sweeper], lock' = lock
  PROVE  SweepOk'
BY DEF SweepOk

LEMMA SweepOkReturn ==
  ASSUME TypeOK, SweepOk, ~Idle(Sweeper), Return(Sweeper)
  PROVE  /\ lock' = lock => SweepOk'
         /\ Top(Sweeper).at = "sweep" => stack'[Sweeper] = <<>> /\ SweepOk'
<1> DEFINE s == stack[Sweeper]  n == Len(s)
<1>0. Sweeper \in Threads
  BY DEF Threads
<1>1. n \in Nat /\ n >= 1 /\ DOMAIN s = 1 .. n /\ s[1] = Top(Sweeper)
  BY <1>0, StackShape
<1>2. /\ DOMAIN stack'[Sweeper] = 1 .. n - 1 /\ Len(stack'[Sweeper]) = n - 1
      /\ \A i \in 1 .. n - 1 : stack'[Sweeper][i] = s[i + 1]
      /\ n = 1 => stack'[Sweeper] = <<>>
  BY <1>0, ReturnStack
<1>3. ASSUME NEW i \in 1 .. n - 1, stack'[Sweeper][i].at = "sweep"
      PROVE  i = n - 1
  <2>1. i + 1 \in 1 .. n /\ s[i + 1].at = "sweep" /\ i \in Nat
    BY <1>1, <1>2, <1>3
  <2>2. i + 1 = n
    BY <1>1, <2>1 DEF SweepOk
  <2> QED BY <1>1, <2>1, <2>2
<1>4. ASSUME lock' = lock PROVE SweepOk'
  BY <1>2, <1>3, <1>4 DEF SweepOk, Idle
<1>5. ASSUME Top(Sweeper).at = "sweep" PROVE stack'[Sweeper] = <<>> /\ SweepOk'
  <2>1. n = 1
    <3>1. 1 \in DOMAIN s /\ s[1].at = "sweep"
      BY <1>1, <1>5
    <3> QED BY <3>1 DEF SweepOk
  <2>2. stack'[Sweeper] = <<>>
    BY <1>2, <2>1
  <2> QED BY <2>2 DEF SweepOk
<1> QED BY <1>4, <1>5

LEMMA SweepOkGoto ==
  ASSUME TypeOK, SweepOk, ~Idle(Sweeper), NEW f \in Frames, f.at # "sweep",
         Goto(Sweeper, f), lock' = lock
  PROVE  SweepOk'
<1>0. Sweeper \in Threads
  BY DEF Threads
<1> DEFINE s == stack[Sweeper]  n == Len(s)
<1>1. n \in Nat /\ DOMAIN s = 1 .. n
  BY <1>0, StackShape
<1>2. /\ DOMAIN stack'[Sweeper] = 1 .. n /\ Len(stack'[Sweeper]) = n
      /\ stack'[Sweeper][1] = f
      /\ \A i \in 1 .. n : i > 1 => stack'[Sweeper][i] = s[i]
  BY <1>0, GotoStack
<1>3. \A i \in 1 .. n : i = 1 \/ i > 1
  BY <1>1
<1>4. ASSUME NEW i \in 1 .. n, stack'[Sweeper][i].at = "sweep" PROVE i = n
  BY <1>1, <1>2, <1>3, <1>4 DEF SweepOk
<1> QED BY <1>2, <1>4 DEF SweepOk, Idle

LEMMA SweepOkCall ==
  ASSUME TypeOK, SweepOk, ~Idle(Sweeper), NEW f \in Frames, NEW g \in Frames,
         Call(Sweeper, f, g), g.at # "sweep", f.at = Top(Sweeper).at, lock' = lock
  PROVE  SweepOk'
<1>0. Sweeper \in Threads
  BY DEF Threads
<1> SUFFICES ASSUME stack' # stack PROVE SweepOk'
  BY SweepOkSame
<1> DEFINE s == stack[Sweeper]  n == Len(s)
<1>1. n \in Nat /\ n >= 1 /\ DOMAIN s = 1 .. n /\ s[1] = Top(Sweeper)
  BY <1>0, StackShape
<1>2. /\ DOMAIN stack'[Sweeper] = 1 .. n + 1 /\ Len(stack'[Sweeper]) = n + 1
      /\ stack'[Sweeper][1] = g /\ stack'[Sweeper][2] = f
      /\ \A i \in 1 .. n : i > 1 => stack'[Sweeper][i + 1] = s[i]
  BY <1>0, CallStack
<1>3. \A j \in 1 .. n + 1 :
        j = 1 \/ j = 2 \/ (j - 1 \in 1 .. n /\ j - 1 > 1 /\ j = (j - 1) + 1)
  BY <1>1
<1>4. ASSUME NEW j \in 1 .. n + 1, stack'[Sweeper][j].at = "sweep"
      PROVE  j = n + 1
  <2>1. j # 1
    BY <1>2, <1>4
  <2>2. ASSUME j = 2 PROVE j = n + 1
    <3>1. s[1].at = "sweep" /\ 1 \in DOMAIN s
      BY <1>1, <1>2, <1>4, <2>2
    <3>2. n = 1
      BY <3>1 DEF SweepOk
    <3> QED BY <2>2, <3>2
  <2>3. ASSUME j - 1 \in 1 .. n, j - 1 > 1, j = (j - 1) + 1 PROVE j = n + 1
    <3>1. s[j - 1].at = "sweep"
      BY <1>2, <1>4, <2>3
    <3>2. j - 1 = n
      BY <1>1, <2>3, <3>1 DEF SweepOk
    <3> QED BY <2>3, <3>2
  <2> QED BY <1>3, <2>1, <2>2, <2>3
<1> QED BY <1>2, <1>4 DEF SweepOk, Idle

LEMMA SweepLocks ==
  ASSUME SweepOk, NEW t \in Threads, t # Sweeper, MayLock(t)
  PROVE  stack[Sweeper] = <<>>
BY ThreadsAssumption DEF SweepOk, MayLock, Threads

(***************************************************************************)
(* A call that stays on a stack stays well formed while the requests keep  *)
(* their transit packets and what happens to packets concerns none that    *)
(* the call has in hand or serves.                                         *)
(***************************************************************************)
StatusKept(r) ==
  \/ req'[r].status = req[r].status
  \/ req[r].status = "queued" /\ req'[r].status = "freed"

HistoriesGrow ==
  arrived \subseteq arrived' /\ sent \subseteq sent' /\ reported \subseteq reported'

ListsKept == \A r \in ReqIds : Listed(r)' = Listed(r)

Undisturbed(u, h) ==
  /\ h.req # NoReq => StatusKept(h.req)
  /\ \A p \in Transit : InHand(u, h, p) => p \notin sent' \cup reported'
  /\ Serving(u, h) => /\ Listed(h.req) \cap sent' \subseteq sent
                      /\ Listed(h.req) \cap reported' \subseteq reported

LEMMA OldCallKept ==
  ASSUME NEW u \in Threads, NEW h \in Frames, CallOk(u, h),
         HistoriesGrow, ListsKept, Undisturbed(u, h),
         u = Main /\ stack[Main] = <<h>> => stack'[Main] = <<h>>
  PROVE  CallOk(u, h)'
<1>1. h.req # NoReq => h.req \in ReqIds
  BY DEF Frames, ReqIds, NoReq
<1>2. h.at \in OnRequest => h.req # NoReq
  BY DEF Frames
<1>3. ASSUME NEW p \in Transit, InHand(u, h, p) PROVE InHand(u, h, p)'
  <2>1. \A r \in ReqIds : p \notin req'[r].packets
    BY <1>3 DEF ListsKept, Listed, InHand
  <2> QED BY <1>3, <2>1 DEF InHand, Undisturbed
<1>4. ASSUME h.req # NoReq, Serving(u, h) PROVE Serving(u, h)'
  <2>1. Listed(h.req)' = Listed(h.req)
    BY <1>1, <1>4 DEF ListsKept
  <2>2. req'[h.req].status = "detached"
    BY <1>4 DEF Undisturbed, StatusKept, Serving
  <2>3. stack'[Main] = <<h>> /\ u = Main
    BY <1>4 DEF Serving
  <2> QED BY <1>4, <2>1, <2>2, <2>3 DEF Serving, Undisturbed, HistoriesGrow
<1>5. ASSUME h.at \in {"lookup", "enqueue"}
      PROVE  \E p \in Packets : h.pkts = {p} /\ (p \in Transit => InHand(u, h, p)')
  BY <1>3, <1>5 DEF CallOk
<1>6. ASSUME h.at = "unreachable"
      PROVE  /\ h.pkts \cap Transit \subseteq Listed(h.req)'
             /\ Listed(h.req)' \ h.pkts \subseteq reported'
  BY <1>1, <1>2, <1>6 DEF CallOk, ListsKept, HistoriesGrow, OnRequest
<1>7. ASSUME h.req # NoReq
      PROVE  req'[h.req].status \in {"queued", "freed"} \/ Serving(u, h)'
  BY <1>4, <1>7 DEF CallOk, Undisturbed, StatusKept
<1>8. ASSUME h.at = "flush" PROVE Serving(u, h)'
  BY <1>2, <1>4, <1>8 DEF CallOk, OnRequest
<1>9. ASSUME h.at = "destroy"
      PROVE  Serving(u, h)' \/ Listed(h.req)' \subseteq reported'
  BY <1>1, <1>2, <1>4, <1>9 DEF CallOk, ListsKept, HistoriesGrow, OnRequest
<1>10. h.pkts \subseteq arrived'
  BY DEF CallOk, HistoriesGrow
<1>11. h.at \notin {"lookup", "enqueue", "unreachable"} => h.pkts = {}
  BY DEF CallOk
<1> QED BY <1>5, <1>6, <1>7, <1>8, <1>9, <1>10, <1>11 DEF CallOk

CallsOk == \A u \in Threads : \A f \in CallsOf(u) : CallOk(u, f)
Moves(t, new) == Swap(t, new) \/ (stack' = stack /\ new = {})

LEMMA CallsKept ==
  ASSUME TypeOK, CallsOk, NEW t \in Threads, NEW new, Moves(t, new),
         HistoriesGrow, ListsKept, \A f \in new : CallOk(t, f)',
         \A u \in Threads : \A h \in CallsOf(u) :
           h \in CallsOf(u)' => Undisturbed(u, h)
  PROVE  CallsOk'
<1> SUFFICES ASSUME NEW u \in Threads, NEW f \in CallsOf(u)' PROVE CallOk(u, f)'
  BY DEF CallsOk
<1>1. ASSUME f \in CallsOf(u),
             u = Main /\ stack[Main] = <<f>> => stack'[Main] = <<f>>
      PROVE  CallOk(u, f)'
  <2>1. f \in Frames /\ CallOk(u, f)
    BY <1>1, CallsOfSeq DEF CallsOk
  <2>2. Undisturbed(u, f)
    BY <1>1
  <2> QED BY <1>1, <2>1, <2>2, OldCallKept
<1>2. CASE stack' = stack
  <2>1. f \in CallsOf(u)
    BY <1>2 DEF CallsOf
  <2> QED BY <1>1, <1>2, <2>1
<1>3. ASSUME Swap(t, new), u # t PROVE CallOk(u, f)'
  <2>1. stack'[u] = stack[u]
    BY <1>3 DEF Swap
  <2>2. f \in CallsOf(u)
    BY <2>1 DEF CallsOf
  <2> QED BY <1>1, <2>1, <2>2
<1>4. ASSUME Swap(t, new), u = t, f \notin new PROVE CallOk(u, f)'
  <2>1. f \in CallsOf(u)
    BY <1>4 DEF Swap
  <2>2. stack[t] # <<f>>
    BY <1>4 DEF Swap
  <2> QED BY <1>1, <1>4, <2>1, <2>2
<1> QED BY <1>2, <1>3, <1>4 DEF Moves

LEMMA HeldCalls ==
  \A r : /\ Held(r) <=> \E t \in Threads : \E f \in CallsOf(t) : f.req = r
         /\ Held(r)' <=> \E t \in Threads : \E f \in CallsOf(t)' : f.req = r
BY DEF Held, CallsOf

\* A request is reported to its end by the call that began.
LEMMA ReportingKept ==
  ASSUME TypeOK, NEW t \in Threads, NEW new, Moves(t, new), NEW r, Reporting(r),
         ~Idle(t) /\ Top(t).at \in {"unreachable", "destroy"} /\ Top(t).req = r =>
           stack' = stack
           \/ \E f \in new : f.at \in {"unreachable", "destroy"} /\ f.req = r
  PROVE  Reporting(r)'
<1>1. CASE stack' = stack
  BY <1>1 DEF Reporting, CallsOf
<1>2. ASSUME Swap(t, new) PROVE Reporting(r)'
  <2>1. PICK u \in Threads : \E f \in CallsOf(u) :
          f.at \in {"unreachable", "destroy"} /\ f.req = r
    BY DEF Reporting
  <2>2. PICK f \in CallsOf(u) : f.at \in {"unreachable", "destroy"} /\ f.req = r
    BY <2>1
  <2>3. CASE u # t
    <3>1. CallsOf(u)' = CallsOf(u)
      BY <1>2, <2>3 DEF Swap, CallsOf
    <3> QED BY <2>2, <3>1 DEF Reporting
  <2>4. CASE u = t /\ f \in CallsOf(t)'
    BY <2>2, <2>4 DEF Reporting
  <2>5. ASSUME u = t, f \notin CallsOf(t)' PROVE Reporting(r)'
    <3>1. f = Top(t) /\ ~Idle(t)
      BY <1>2, <2>5, CallsOfSeq DEF Swap
    <3>2. CASE stack' = stack
      BY <1>1, <3>2
    <3>3. CASE \E g \in new : g.at \in {"unreachable", "destroy"} /\ g.req = r
      BY <1>2, <3>3 DEF Swap, Reporting
    <3> QED BY <2>2, <3>1, <3>2, <3>3
  <2> QED BY <2>3, <2>4, <2>5
<1> QED BY <1>1, <1>2 DEF Moves

\* A thread comes to hold a request by finding it, or holds it already.
LEMMA HeldKept ==
  ASSUME NEW t \in Threads, NEW new, Moves(t, new), NEW r, Held(r)',
         \A f \in new : f.req = r => Held(r)
  PROVE  Held(r)
<1>1. PICK u \in Threads : \E f \in CallsOf(u)' : f.req = r
  BY HeldCalls
<1>2. PICK f \in CallsOf(u)' : f.req = r
  BY <1>1
<1>3. CASE stack' = stack
  BY <1>3 DEF Held
<1>4. ASSUME Swap(t, new) PROVE Held(r)
  <2>1. CASE u # t
    <3>1. CallsOf(u)' = CallsOf(u)
      BY <1>4, <2>1 DEF Swap, CallsOf
    <3> QED BY <1>2, <3>1, HeldCalls
  <2>2. CASE u = t
    <3>1. f \in CallsOf(t) \/ f \in new
      BY <1>2, <1>4, <2>2 DEF Swap
    <3> QED BY <1>2, <3>1, HeldCalls
  <2> QED BY <2>1, <2>2
<1> QED BY <1>3, <1>4 DEF Moves

LEMMA RequestKept ==
  ASSUME NEW r \in ReqIds, RequestOk(r), HistoriesGrow,
         req'[r].status = req[r].status, req'[r].ip = req[r].ip,
         Listed(r)' = Listed(r), req'[r].packets \subseteq arrived',
         req[r].status = "queued" =>
           /\ Listed(r) \cap sent' = {}
           /\ Listed(r) \cap reported' # {} => Reporting(r)',
         req[r].status = "freed" /\ Held(r)' => Listed(r) \cap sent' = {}
  PROVE  RequestOk(r)'
<1>1. \A p \in Listed(r)' : NextHop[p] = req'[r].ip
  BY DEF RequestOk
<1>2. req'[r].status = "unused" => Listed(r)' = {}
  BY DEF RequestOk
<1>3. req'[r].status = "queued" =>
        /\ Listed(r)' \cap sent' = {}
        /\ Listed(r)' \cap reported' # {} => Reporting(r)'
  OBVIOUS
<1>4. req'[r].status = "freed" =>
        /\ Listed(r)' \subseteq sent' \cup reported'
        /\ Held(r)' => Listed(r)' \cap sent' = {}
  BY DEF RequestOk, HistoriesGrow
<1> QED BY <1>1, <1>2, <1>3, <1>4 DEF RequestOk

(***************************************************************************)
(* The steps that change neither what requests list nor what has become of *)
(* packets: they move between calls, let time pass or take a packet in.    *)
(***************************************************************************)
NoLsuThreads ==
  /\ Workers = {}
  /\ Transit \cap Errors = {} /\ Lsus \cap Errors = {} /\ Transit \cap Lsus = {}

RequestsSame ==
  \A r \in ReqIds : /\ req'[r].status = req[r].status
                    /\ req'[r].ip = req[r].ip
                    /\ req'[r].packets = req[r].packets

LEMMA QuietStep ==
  ASSUME TypeOK, ServiceInv, NEW t \in Threads, NEW new, Moves(t, new),
         RequestsSame, sent' = sent, reported' = reported,
         arrived \subseteq arrived', arrived' \cap Lsus = {}, SweepOk',
         \A f \in new : CallOk(t, f)',
         \A f \in new, r \in ReqIds :
           req[r].status = "freed" /\ f.req = r => Held(r),
         ~Idle(t) /\ Top(t).at \in {"unreachable", "destroy"} =>
           stack' = stack
           \/ \E f \in new : /\ f.at \in {"unreachable", "destroy"}
                             /\ f.req = Top(t).req
  PROVE  ServiceInv'
<1>1. HistoriesGrow /\ ListsKept /\ CallsOk
  BY DEF HistoriesGrow, ListsKept, Listed, RequestsSame, ServiceInv, CallsOk
<1>2. ASSUME NEW u \in Threads, NEW h \in CallsOf(u) PROVE Undisturbed(u, h)
  <2>1. h \in Frames
    BY CallsOfSeq
  <2>2. h.req # NoReq => StatusKept(h.req)
    BY <2>1 DEF StatusKept, RequestsSame, Frames, NoReq, ReqIds
  <2> QED BY <2>2 DEF Undisturbed, InHand
<1>3. CallsOk'
  BY <1>1, <1>2, CallsKept
<1>4. ASSUME NEW r \in ReqIds PROVE RequestOk(r)'
  <2>1. RequestOk(r) /\ Listed(r)' = Listed(r)
    BY <1>1 DEF ServiceInv, ListsKept
  <2>2. Reporting(r) => Reporting(r)'
    BY ReportingKept
  <2>3. req[r].status = "freed" /\ Held(r)' => Held(r)
    BY HeldKept
  <2>4. req'[r].packets \subseteq arrived'
    BY <2>1 DEF RequestsSame, RequestOk
  <2>5. req[r].status = "queued" =>
          /\ Listed(r) \cap sent' = {}
          /\ Listed(r) \cap reported' # {} => Reporting(r)'
    BY <2>1, <2>2 DEF RequestOk
  <2>6. req[r].status = "freed" /\ Held(r)' => Listed(r) \cap sent' = {}
    BY <2>1, <2>3 DEF RequestOk
  <2> QED BY <1>1, <2>1, <2>4, <2>5, <2>6, RequestKept DEF RequestsSame
<1>5. \A r, q \in ReqIds : Listed(r)' \cap Listed(q)' # {} => r = q
  BY <1>1 DEF ServiceInv, ListsKept
<1>6. HistoryOk'
  BY DEF ServiceInv, HistoryOk
<1> QED BY <1>3, <1>4, <1>5, <1>6 DEF ServiceInv, CallsOk

LEMMA TopOk ==
  ASSUME TypeOK, ServiceInv, NEW t \in Threads, ~Idle(t)
  PROVE  /\ CallOk(t, Top(t)) /\ Top(t) \in CallsOf(t) /\ Top(t) \in Frames
         /\ Top(t).req \in ReqIds => Held(Top(t).req)
         /\ Top(t).req # NoReq => Top(t).req \in ReqIds
         /\ Top(t).at \in OnRequest => Top(t).req # NoReq
<1>1. Top(t) \in CallsOf(t) /\ Top(t) \in Frames
  BY CallsOfSeq
<1>2. Top(t).req # NoReq => Top(t).req \in ReqIds
  BY <1>1 DEF Frames, NoReq, ReqIds
<1> QED BY <1>1, <1>2, HeldCalls DEF ServiceInv, Frames

\* A call that carries no packet, on a request nobody has detached.
LEMMA PlainCall ==
  ASSUME NEW t \in Threads, NEW f, f.pkts = {}, f.at \in {"check", "resend", "sweep"},
         f.req # NoReq => req'[f.req].status \in {"queued", "freed"}
  PROVE  CallOk(t, f)'
BY DEF CallOk

LEMMA SameStack == ASSUME NEW t, stack' = stack PROVE Moves(t, {})
BY DEF Moves

\* The request of a call that does not finish it.
LEMMA TopRequest ==
  ASSUME TypeOK, ServiceInv, NEW t \in Threads, ~Idle(t),
         Top(t).at \notin {"flush", "destroy"} \/ t # Main, Top(t).req # NoReq
  PROVE  req[Top(t).req].status \in {"queued", "freed"}
BY TopOk DEF CallOk, Serving

LEMMA QuietSteps ==
  ASSUME NoLsuThreads, TypeOK, ServiceInv, SweepOk', NEW t \in Threads,
         \/ Tick
         \/ \E p \in Packets : Transmit(t, p)
         \/ Check(t) \/ Resend(t) \/ AllReported(t) \/ Crash(t)
         \/ t = Sweeper /\ (SweepBegin \/ SweepNext \/ SweepEnd)
         \/ UNCHANGED vars
  PROVE  ServiceInv'
<1>0. arrived \cap Lsus = {} /\ arrived \subseteq arrived
  BY DEF ServiceInv, HistoryOk
<1>a. ASSUME UNCHANGED req PROVE RequestsSame
  BY <1>a DEF RequestsSame
<1>b. ASSUME stack' = stack, RequestsSame, sent' = sent, reported' = reported,
             arrived' = arrived
      PROVE  ServiceInv'
  BY <1>0, <1>b, SameStack, QuietStep
<1>1. ASSUME Tick PROVE ServiceInv'
  <2>1. RequestsSame
    BY <1>1 DEF Tick, RequestsSame, TypeOK, Request
  <2> QED BY <1>1, <1>b, <2>1 DEF Tick, history
<1>2. ASSUME NEW p \in Packets, Transmit(t, p) PROVE ServiceInv'
  <2> DEFINE f == Frame("lookup", NoReq, {p})
  <2>1. t = Main /\ p \in Transit /\ p \notin arrived /\ Idle(t)
    BY <1>2 DEF Transmit, NoLsuThreads
  <2>2. f \in Frames /\ f.at = "lookup" /\ f.req = NoReq /\ f.pkts = {p}
    <3>1. f \in Frames
      BY LookupFrame
    <3> QED BY <3>1 DEF Frame
  <2>3. stack' = [stack EXCEPT ![t] = <<f>>]
    BY <1>2 DEF Transmit
  <2>4. arrived' = arrived \cup {p} /\ RequestsSame /\ sent' = sent /\ reported' = reported
    BY <1>2 DEF Transmit, RequestsSame
  <2> HIDE DEF f
  <2>5. Swap(t, {f}) /\ stack'[t] = <<f>>
    BY <2>1, <2>2, <2>3, SwapStart
  <2>6. InHand(t, f, p)'
    <3>1. p \notin sent' \cup reported'
      BY <2>1, <2>4 DEF ServiceInv, HistoryOk
    <3>2. \A r \in ReqIds : p \notin req'[r].packets
      BY <2>1, <2>4 DEF ServiceInv, RequestOk, RequestsSame
    <3> QED BY <2>1, <2>5, <3>1, <3>2 DEF InHand
  <2>7. CallOk(t, f)'
    BY <2>2, <2>4, <2>6 DEF CallOk
  <2>8. \A r \in ReqIds : f.req # r
    BY <2>2 DEF ReqIds, NoReq
  <2>9. arrived' \cap Lsus = {}
    BY <1>0, <2>1, <2>4 DEF NoLsuThreads
  <2>10. Moves(t, {f}) /\ SweepOk' /\ arrived \subseteq arrived'
    BY <2>4, <2>5 DEF Moves
  <2> QED BY <2>1, <2>4, <2>7, <2>8, <2>9, <2>10, QuietStep
<1>3. ASSUME Check(t) PROVE ServiceInv'
  <2>0. ~Idle(t) /\ Top(t).at = "check"
    BY <1>3 DEF Check, At, Top
  <2>1. /\ Top(t).req \in ReqIds /\ Top(t).req \in 0 .. MaxReqs
        /\ Top(t).req # NoReq /\ Held(Top(t).req)
        /\ req[Top(t).req].status \in {"queued", "freed"}
    BY <2>0, TopOk, TopType, TopRequest DEF OnRequest
  <2>2. PICK r \in ReqIds : r = Top(t).req
    BY <2>1
  <2>3. /\ RequestsSame /\ sent' = sent /\ reported' = reported /\ arrived' = arrived
        /\ UNCHANGED req
    BY <1>3 DEF Check, history, RequestsSame
  <2>4. CASE Return(t)
    <3>1. Moves(t, {})
      BY <2>0, <2>4, SwapReturn DEF Moves
    <3> QED BY <1>0, <2>0, <2>3, <3>1, QuietStep
  <2>5. ASSUME NEW f \in Frames, Goto(t, f), f.req = r, CallOk(t, f)'
        PROVE  ServiceInv'
    <3>1. Moves(t, {f})
      BY <2>0, <2>5, SwapGoto DEF Moves
    <3> QED BY <1>0, <2>0, <2>1, <2>2, <2>3, <2>5, <3>1, QuietStep
  <2>6. CASE Goto(t, Frame("resend", r, {}))
    <3> DEFINE f == Frame("resend", r, {})
    <3>1. f \in Frames /\ f.at = "resend" /\ f.req = r /\ f.pkts = {}
      BY <2>1, <2>2, FrameType DEF Frame, Calls, OnRequest
    <3> HIDE DEF f
    <3>2. CallOk(t, f)'
      BY <2>1, <2>2, <2>3, <3>1, PlainCall
    <3> QED BY <2>5, <2>6, <3>1, <3>2 DEF f
  <2>7. CASE Goto(t, Frame("unreachable", r, req[r].packets))
    <3>0. PICK ps \in SUBSET Packets : ps = req[r].packets
      BY DEF TypeOK, Request
    <3> DEFINE f == Frame("unreachable", r, ps)
    <3>1. f \in Frames /\ f.at = "unreachable" /\ f.req = r /\ f.pkts = ps
      BY <2>1, <2>2, FrameType DEF Frame, Calls, OnRequest
    <3>2. Goto(t, f)
      BY <2>7, <3>0
    <3> HIDE DEF f
    <3>3. ps \cap Transit \subseteq Listed(r)' /\ Listed(r)' \ ps = {}
      BY <2>3, <3>0 DEF Listed
    <3>4. ps \subseteq arrived'
      BY <2>3, <3>0 DEF ServiceInv, RequestOk
    <3>5. req'[r].status \in {"queued", "freed"}
      BY <2>1, <2>2, <2>3
    <3>6. CallOk(t, f)'
      BY <3>1, <3>3, <3>4, <3>5 DEF CallOk
    <3> QED BY <2>5, <3>1, <3>2, <3>6
  <2> QED BY <1>3, <2>2, <2>4, <2>6, <2>7 DEF Check
<1>4. ASSUME Resend(t) PROVE ServiceInv'
  <2>1. ~Idle(t) /\ Top(t).at = "resend"
    BY <1>4 DEF Resend, At, Top
  <2>2. Moves(t, {})
    BY <1>4, <2>1, SwapReturn DEF Resend, Moves
  <2>3. RequestsSame
    <3>1. PICK r \in ReqIds : r = Top(t).req
      BY <1>4, RequestAtTop DEF Resend, OnRequest
    <3>2. ASSUME NEW took \in 0 .. DueAge, req' = [req EXCEPT ![r] = SentAgain(@, took)]
          PROVE  RequestsSame
      BY <3>2 DEF RequestsSame, TypeOK, Request, SentAgain
    <3> QED BY <1>4, <1>a, <3>1, <3>2 DEF Resend
  <2> QED BY <1>0, <1>4, <2>1, <2>2, <2>3, QuietStep DEF Resend, history
<1>5. ASSUME AllReported(t) PROVE ServiceInv'
  <2>0. ~Idle(t) /\ Top(t).at = "unreachable" /\ Top(t).pkts = {}
    BY <1>5 DEF AllReported, At, Top
  <2>1. /\ Top(t).req \in ReqIds /\ Top(t).req # NoReq /\ Held(Top(t).req)
        /\ req[Top(t).req].status \in {"queued", "freed"}
        /\ Top(t) \in Frames /\ CallOk(t, Top(t))
    BY <2>0, TopOk, TopRequest DEF OnRequest
  <2>2. PICK r \in ReqIds : r = Top(t).req
    BY <2>1
  <2>3. PICK f \in Frames :
          f.at = "destroy" /\ f.req = r /\ f.pkts = {} /\ Goto(t, f)
    <3> DEFINE g == [Top(t) EXCEPT !.at = "destroy"]
    <3>1. g \in Frames /\ g.at = "destroy" /\ g.req = r /\ g.pkts = {}
      BY <2>0, <2>1, <2>2, FrameUpdate DEF Frames, Calls, OnRequest
    <3>2. Goto(t, g)
      BY <1>5 DEF AllReported
    <3> HIDE DEF g
    <3> QED BY <3>1, <3>2
  <2>4. /\ RequestsSame /\ sent' = sent /\ reported' = reported /\ arrived' = arrived
        /\ UNCHANGED req
    BY <1>5 DEF AllReported, history, RequestsSame
  <2>5. Listed(r)' \subseteq reported'
    BY <2>0, <2>1, <2>2, <2>4 DEF CallOk, Listed
  <2>6. CallOk(t, f)'
    BY <2>1, <2>2, <2>3, <2>4, <2>5 DEF CallOk
  <2>7. Moves(t, {f})
    BY <2>0, <2>3, SwapGoto DEF Moves
  <2> QED BY <1>0, <2>1, <2>2, <2>3, <2>4, <2>6, <2>7, QuietStep
<1>6. ASSUME Crash(t) PROVE ServiceInv'
  BY <1>6, <1>a, <1>b DEF Crash, history
<1>7. ASSUME SweepBegin, t = Sweeper PROVE ServiceInv'
  <2>1. PICK first \in 0 .. MaxReqs :
          /\ IsNext(first, MaxReqs + 1)
          /\ stack' = [stack EXCEPT ![Sweeper] = <<SweepFrame(first)>>]
    BY <1>7 DEF SweepBegin, SweepFrame
  <2> DEFINE f == SweepFrame(first)
  <2>2. f \in Frames /\ f.at = "sweep" /\ f.req = first /\ f.pkts = {}
    BY DEF SweepFrame, Frame, Frames, Calls, OnRequest
  <2>3. Idle(t) /\ stack' = [stack EXCEPT ![t] = <<f>>]
    BY <1>7, <2>1 DEF SweepBegin
  <2> HIDE DEF f
  <2>4. Moves(t, {f})
    BY <2>2, <2>3, SwapStart DEF Moves
  <2>5. /\ RequestsSame /\ sent' = sent /\ reported' = reported /\ arrived' = arrived
        /\ UNCHANGED req
    BY <1>7 DEF SweepBegin, history, RequestsSame
  <2>6. first # NoReq => req[first].status = "queued"
    BY <2>1 DEF IsNext, Queued
  <2>7. CallOk(t, f)'
    BY <2>2, <2>5, <2>6, PlainCall
  <2>8. \A r \in ReqIds : f.req = r => req[r].status = "queued"
    BY <2>2, <2>6 DEF ReqIds, NoReq
  <2> QED BY <1>0, <2>3, <2>4, <2>5, <2>7, <2>8, QuietStep
<1>8. ASSUME SweepNext, t = Sweeper PROVE ServiceInv'
  <2>0. ~Idle(t) /\ Top(t).at = "sweep" /\ Top(t).req # NoReq
    BY <1>8 DEF SweepNext, At, Top
  <2>1. /\ Top(t).req \in ReqIds /\ Held(Top(t).req)
        /\ req[Top(t).req].status \in {"queued", "freed"}
    BY <2>0, TopOk, TopRequest
  <2>2. PICK r \in ReqIds : r = Top(t).req
    BY <2>1
  <2>3. PICK n \in 0 .. MaxReqs :
          IsNext(n, r) /\ Call(t, SweepFrame(n), Frame("check", r, {}))
    BY <1>8, <2>2 DEF SweepNext, SweepFrame
  <2> DEFINE f == SweepFrame(n)  g == Frame("check", r, {})
  <2>4. f \in Frames /\ f.at = "sweep" /\ f.req = n /\ f.pkts = {}
    BY DEF SweepFrame, Frame, Frames, Calls, OnRequest
  <2>5. g \in Frames /\ g.at = "check" /\ g.req = r /\ g.pkts = {}
    BY <2>0, <2>2, FrameType DEF Frame, Calls, OnRequest, ReqIds
  <2> HIDE DEF f, g
  <2>6. stack' = stack \/ Moves(t, {f, g})
    BY <2>0, <2>3, <2>4, <2>5, SwapCall DEF Moves, f, g
  <2>7. /\ RequestsSame /\ sent' = sent /\ reported' = reported /\ arrived' = arrived
        /\ UNCHANGED req
    BY <1>8 DEF SweepNext, history, RequestsSame
  <2>8. n # NoReq => req[n].status = "queued"
    BY <2>3 DEF IsNext, Queued
  <2>9. CallOk(t, f)' /\ CallOk(t, g)'
    BY <2>1, <2>2, <2>4, <2>5, <2>7, <2>8, PlainCall
  <2>10. \A q \in ReqIds : f.req = q => req[q].status = "queued"
    BY <2>4, <2>8 DEF ReqIds, NoReq
  <2> QED BY <1>0, <1>b, <2>0, <2>1, <2>2, <2>5, <2>6, <2>7, <2>9, <2>10, QuietStep
<1>9. ASSUME SweepEnd, t = Sweeper PROVE ServiceInv'
  <2>1. ~Idle(t) /\ Top(t).at = "sweep"
    BY <1>9 DEF SweepEnd, At, Top
  <2>2. Moves(t, {})
    BY <1>9, <2>1, SwapReturn DEF SweepEnd, Moves
  <2>3. RequestsSame /\ sent' = sent /\ reported' = reported /\ arrived' = arrived
    BY <1>9 DEF SweepEnd, history, RequestsSame
  <2> QED BY <1>0, <2>1, <2>2, <2>3, QuietStep
<1>10. ASSUME UNCHANGED vars PROVE ServiceInv'
  BY <1>10, <1>a, <1>b DEF vars
<1> QED BY <1>1, <1>2, <1>3, <1>4, <1>5, <1>6, <1>7, <1>8, <1>9, <1>10

LEMMA SweepOkStep == TypeOK /\ SweepOk /\ [Next]_vars => SweepOk'
<1> SUFFICES ASSUME TypeOK, SweepOk, [Next]_vars PROVE SweepOk'
  OBVIOUS
<1>0. /\ Main \in Threads /\ Sweeper \in Threads /\ Main # Sweeper
      /\ \A t \in Workers : t # Sweeper
  BY ThreadsAssumption DEF Threads
<1>1. ASSUME NEW t \in Threads, t # Sweeper, lock' = lock,
             \/ Return(t)
             \/ \E f : Goto(t, f)
             \/ \E f, g : Call(t, f, g)
             \/ \E f : stack' = [stack EXCEPT ![t] = f]
             \/ UNCHANGED stack
      PROVE  SweepOk'
  <2>1. stack'[Sweeper] = stack[Sweeper]
    BY <1>0, <1>1 DEF Return, Goto, Call, TypeOK
  <2> QED BY <1>1, <2>1, SweepOkSame
<1>2. ASSUME NEW t \in Threads, ~Idle(t), lock' = lock, Return(t) PROVE SweepOk'
  BY <1>1, <1>2, SweepOkReturn
<1>3. ASSUME NEW t \in Threads, ~Idle(t), lock' = lock,
             NEW f \in Frames, f.at # "sweep", Goto(t, f)
      PROVE  SweepOk'
  BY <1>1, <1>3, SweepOkGoto
<1>4. CASE Tick
  BY <1>4, SweepOkSame DEF Tick
<1>5. ASSUME NEW t \in Threads, NEW p \in Packets, Transmit(t, p) PROVE SweepOk'
  <2>1. t # Sweeper
    BY <1>0, <1>5 DEF Transmit
  <2> QED BY <1>1, <1>5, <2>1 DEF Transmit
<1>6. ASSUME NEW t \in Threads, Lookup(t) PROVE SweepOk'
  <2>1. ~Idle(t) /\ Top(t) \in Frames /\ lock' = lock
    BY <1>6, TopType DEF Lookup, At
  <2> DEFINE f == [Top(t) EXCEPT !.at = "enqueue"]
  <2>2. f \in Frames /\ f.at # "sweep"
    BY <2>1 DEF Frames, Calls, OnRequest
  <2>3. Return(t) \/ Goto(t, f)
    BY <1>6 DEF Lookup
  <2> HIDE DEF f
  <2> QED BY <1>2, <1>3, <2>1, <2>2, <2>3
<1>7. ASSUME NEW t \in Threads, Enqueue(t) PROVE SweepOk'
  <2>1. ~Idle(t) /\ lock' = lock
    BY <1>7 DEF Enqueue, At
  <2>2. PICK r \in ReqIds : Goto(t, Frame("check", r, {}))
    BY <1>7 DEF Enqueue
  <2>3. Frame("check", r, {}) \in Frames /\ Frame("check", r, {}).at # "sweep"
    BY FrameType DEF Frame, Frames, Calls, OnRequest, ReqIds, NoReq
  <2> QED BY <1>3, <2>1, <2>2, <2>3
<1>8. ASSUME NEW t \in Threads, Check(t) PROVE SweepOk'
  <2>1. ~Idle(t) /\ lock' = lock
    BY <1>8 DEF Check, At
  <2>2. PICK r \in ReqIds : r = Top(t).req /\ r # NoReq /\ r \in 0 .. MaxReqs
    BY <1>8, <2>1, RequestAtTop, TopType DEF Check, OnRequest
  <2>3. PICK ps \in SUBSET Packets : ps = req[r].packets
    BY DEF TypeOK, Request
  <2>4. /\ Frame("resend", r, {}) \in Frames /\ Frame("resend", r, {}).at # "sweep"
        /\ Frame("unreachable", r, ps) \in Frames
        /\ Frame("unreachable", r, ps).at # "sweep"
    BY <2>2, FrameType DEF Frame, Calls, OnRequest
  <2>5. \/ Return(t) \/ Goto(t, Frame("resend", r, {}))
        \/ Goto(t, Frame("unreachable", r, ps))
    BY <1>8, <2>2, <2>3 DEF Check
  <2> QED BY <1>2, <1>3, <2>1, <2>4, <2>5
<1>9. ASSUME NEW t \in Threads, Resend(t) \/ Destroy(t) PROVE SweepOk'
  BY <1>2, <1>9 DEF Resend, Destroy, At
<1>10. ASSUME NEW t \in Threads, Unreachable(t) PROVE SweepOk'
  <2>1. ~Idle(t) /\ Top(t) \in Frames /\ Top(t).pkts \subseteq Packets /\ lock' = lock
    BY <1>10, TopType DEF Unreachable, At
  <2>2. PICK p \in Top(t).pkts :
          IF IcmpError[p] = NoPacket
          THEN Goto(t, [Top(t) EXCEPT !.pkts = @ \ {p}])
          ELSE Call(t, [Top(t) EXCEPT !.pkts = @ \ {p}],
                       Frame("lookup", NoReq, {IcmpError[p]}))
    BY <1>10 DEF Unreachable
  <2> DEFINE rest == [Top(t) EXCEPT !.pkts = @ \ {p}]
             g == Frame("lookup", NoReq, {IcmpError[p]})
  <2>3. rest \in Frames /\ rest.at = Top(t).at /\ Top(t).at = "unreachable"
    BY <1>10, <2>1 DEF Frames, Unreachable, At, Top
  <2>4. ASSUME IcmpError[p] # NoPacket PROVE g \in Frames /\ g.at # "sweep"
    <3>1. IcmpError[p] \in Packets
      BY <2>1, <2>4, PacketsAssumption DEF Packets
    <3>2. g \in Frames
      BY <3>1, LookupFrame
    <3> QED BY <3>2 DEF Frame
  <2>5. IF IcmpError[p] = NoPacket THEN Goto(t, rest) ELSE Call(t, rest, g)
    BY <2>2
  <2> HIDE DEF rest, g
  <2>6. CASE IcmpError[p] = NoPacket
    BY <1>3, <2>1, <2>3, <2>5, <2>6
  <2>7. CASE IcmpError[p] # NoPacket
    BY <1>1, <2>1, <2>3, <2>4, <2>5, <2>7, SweepOkCall
  <2> QED BY <2>6, <2>7
<1>11. ASSUME NEW t \in Threads, AllReported(t) PROVE SweepOk'
  <2>1. ~Idle(t) /\ Top(t) \in Frames /\ Top(t).req # NoReq /\ lock' = lock
    BY <1>11, TopType, RequestAtTop DEF AllReported, At, OnRequest
  <2> DEFINE f == [Top(t) EXCEPT !.at = "destroy"]
  <2>2. f \in Frames /\ f.at # "sweep" /\ Goto(t, f)
    BY <1>11, <2>1, FrameUpdate DEF Frames, Calls, OnRequest, AllReported
  <2> HIDE DEF f
  <2> QED BY <1>3, <2>1, <2>2
<1>12. ASSUME NEW t \in Threads, Crash(t) PROVE SweepOk'
  BY <1>12, SweepOkSame DEF Crash
<1>13. ASSUME NEW h \in Hops, NEW mine \in BOOLEAN, ArpReply(h, mine) PROVE SweepOk'
  BY <1>0, <1>1, <1>13 DEF ArpReply
<1>14. ASSUME NEW h \in Hops, ArpRequest(h) PROVE SweepOk'
  BY <1>14, SweepOkSame DEF ArpRequest
<1>15. ASSUME Flush PROVE SweepOk'
  BY <1>0, <1>1, <1>15 DEF Flush
<1>16. ASSUME SweepBegin PROVE SweepOk'
  <2>1. PICK first \in 0 .. MaxReqs : stack'[Sweeper] = <<SweepFrame(first)>>
    BY <1>0, <1>16 DEF SweepBegin, SweepFrame, TypeOK
  <2>2. DOMAIN stack'[Sweeper] = {1} /\ Len(stack'[Sweeper]) = 1
    BY <2>1
  <2> QED BY <1>16, <2>2 DEF SweepBegin, SweepOk
<1>17. ASSUME SweepNext PROVE SweepOk'
  <2>1. /\ ~Idle(Sweeper) /\ Top(Sweeper).req \in 0 .. MaxReqs /\ lock' = lock
        /\ Top(Sweeper).at = "sweep"
    BY <1>0, <1>17, TopType DEF SweepNext, At, Top
  <2>2. PICK n \in 0 .. MaxReqs, r \in 0 .. MaxReqs :
          r # NoReq /\ Call(Sweeper, SweepFrame(n), Frame("check", r, {}))
    BY <1>17, <2>1 DEF SweepNext, SweepFrame
  <2>3. /\ SweepFrame(n) \in Frames /\ SweepFrame(n).at = "sweep"
        /\ Frame("check", r, {}) \in Frames /\ Frame("check", r, {}).at # "sweep"
    BY <2>2, FrameType DEF SweepFrame, Frame, Frames, Calls, OnRequest
  <2> QED BY <2>1, <2>2, <2>3, SweepOkCall
<1>18. ASSUME SweepEnd PROVE SweepOk'
  BY <1>18, SweepOkReturn DEF SweepEnd, At, Top
<1>19. ASSUME UNCHANGED vars PROVE SweepOk'
  BY <1>19, SweepOkSame DEF vars
<1>20. ASSUME NEW t \in Threads, ThreadStep(t) PROVE SweepOk'
  BY <1>6, <1>7, <1>8, <1>9, <1>10, <1>11, <1>12, <1>20 DEF ThreadStep
<1> QED
  BY <1>4, <1>5, <1>13, <1>14, <1>15, <1>16, <1>17, <1>18, <1>19, <1>20
  DEF Next, MainStep, SweeperStep, WorkerStep, Receive, Threads


(***************************************************************************)
(* The steps that change a request or what has become of a packet.         *)
(***************************************************************************)
LEMMA Assemble ==
  ASSUME TypeOK, ServiceInv, NEW t \in Threads, NEW new, Moves(t, new),
         HistoriesGrow, ListsKept, HistoryOk', SweepOk',
         \A f \in new : CallOk(t, f)',
         \A u \in Threads : \A h \in CallsOf(u) :
           h \in CallsOf(u)' => Undisturbed(u, h),
         \A r \in ReqIds : RequestOk(r)'
  PROVE  ServiceInv'
<1>1. CallsOk'
  BY CallsKept DEF ServiceInv, CallsOk
<1>2. \A r, q \in ReqIds : Listed(r)' \cap Listed(q)' # {} => r = q
  BY DEF ServiceInv, ListsKept
<1> QED BY <1>1, <1>2 DEF ServiceInv, CallsOk

\* The request of a call that stays, and of one that serves.
LEMMA CallFacts ==
  ASSUME TypeOK, NEW u \in Threads, NEW h \in CallsOf(u)
  PROVE  /\ h \in Frames
         /\ h.req # NoReq => h.req \in ReqIds
         /\ Serving(u, h) => h.req \in ReqIds
         /\ \A r \in ReqIds : h.req = r => Held(r)
<1>1. h \in Frames
  BY CallsOfSeq
<1>2. h.req # NoReq => h.req \in ReqIds
  BY <1>1 DEF Frames, NoReq, ReqIds
<1>3. Serving(u, h) => h.req # NoReq
  BY <1>1 DEF Serving, Frames, OnRequest
<1> QED BY <1>1, <1>2, <1>3, HeldCalls

LEMMA LookupStep ==
  ASSUME NoLsuThreads, TypeOK, ServiceInv, SweepOk', NEW t \in Threads, Lookup(t)
  PROVE  ServiceInv'
<1>0. ~Idle(t) /\ Top(t).at = "lookup"
  BY DEF Lookup, At, Top
<1>1. /\ CallOk(t, Top(t)) /\ Top(t) \in CallsOf(t) /\ Top(t) \in Frames
      /\ Top(t).req # NoReq => Top(t).req \in ReqIds
      /\ Top(t).req \in ReqIds => Held(Top(t).req)
  BY <1>0, TopOk
<1>2. PICK p \in Packets :
        /\ Top(t).pkts = {p} /\ p \in arrived
        /\ p \in Transit => InHand(t, Top(t), p)
  BY <1>0, <1>1 DEF CallOk
<1>3. UNCHANGED req /\ arrived' = arrived /\ reported' = reported /\ RequestsSame
  BY DEF Lookup, RequestsSame
<1>4. arrived \cap Lsus = {}
  BY DEF ServiceInv, HistoryOk
<1>5. CASE sent' = sent \cup Top(t).pkts /\ Return(t)
  <2>1. Moves(t, {}) /\ \A f : stack[t] = <<f>> => CallsOf(t)' = {}
    BY <1>0, <1>5, SwapReturn DEF Moves, Swap
  <2>2. HistoriesGrow /\ ListsKept
    BY <1>3, <1>5 DEF HistoriesGrow, ListsKept, Listed
  <2>3. ASSUME NEW r \in ReqIds PROVE p \notin Listed(r)
    BY <1>2 DEF Listed, InHand
  <2>4. ASSUME NEW u \in Threads, NEW h \in CallsOf(u), h \in CallsOf(u)'
        PROVE  Undisturbed(u, h)
    <3>1. StatusKept(h.req)
      BY <1>3 DEF StatusKept
    <3>2. ASSUME NEW q \in Transit, InHand(u, h, q) PROVE q \notin sent' \cup reported'
      <4>1. q # p
        BY <1>2, <2>1, <2>4, <3>2 DEF InHand
      <4> QED BY <1>2, <1>3, <1>5, <3>2, <4>1 DEF InHand
    <3>3. ASSUME Serving(u, h) PROVE Listed(h.req) \cap sent' \subseteq sent
      BY <1>2, <1>5, <2>3, <3>3, CallFacts
    <3> QED BY <1>3, <3>1, <3>2, <3>3 DEF Undisturbed
  <2>5. ASSUME NEW r \in ReqIds PROVE RequestOk(r)'
    <3>1. RequestOk(r) /\ Listed(r)' = Listed(r) /\ Listed(r) \cap sent' = Listed(r) \cap sent
      BY <1>2, <1>5, <2>2, <2>3 DEF ServiceInv, ListsKept
    <3>2. Reporting(r) => Reporting(r)'
      BY <1>0, <2>1, ReportingKept
    <3>3. Held(r)' => Held(r)
      BY <2>1, HeldKept
    <3>4. req[r].status = "queued" =>
            /\ Listed(r) \cap sent' = {}
            /\ Listed(r) \cap reported' # {} => Reporting(r)'
      BY <1>3, <3>1, <3>2 DEF RequestOk
    <3>5. req[r].status = "freed" /\ Held(r)' => Listed(r) \cap sent' = {}
      BY <3>1, <3>3 DEF RequestOk
    <3>6. req'[r].packets \subseteq arrived'
      BY <1>3, <3>1 DEF RequestOk
    <3> QED BY <1>3, <2>2, <3>1, <3>4, <3>5, <3>6, RequestKept
  <2>6. HistoryOk'
    BY <1>2, <1>3, <1>5 DEF ServiceInv, HistoryOk, InHand
  <2> QED BY <2>1, <2>2, <2>4, <2>5, <2>6, Assemble
<1>6. CASE Goto(t, [Top(t) EXCEPT !.at = "enqueue"]) /\ UNCHANGED sent
  <2>1. PICK f \in Frames :
          /\ f.at = "enqueue" /\ f.req = Top(t).req /\ f.pkts = {p}
          /\ Goto(t, f)
    <3> DEFINE g == [Top(t) EXCEPT !.at = "enqueue"]
    <3>1. g \in Frames /\ g.at = "enqueue" /\ g.req = Top(t).req /\ g.pkts = {p}
      BY <1>1, <1>2, FrameUpdate DEF Frames, Calls, OnRequest
    <3>2. Goto(t, g)
      BY <1>6
    <3> HIDE DEF g
    <3> QED BY <3>1, <3>2
  <2>2. Moves(t, {f}) /\ \A g : stack[t] = <<g>> => stack'[t] = <<f>>
    BY <1>0, <2>1, SwapGoto DEF Moves
  <2>3. f.req # NoReq => req'[f.req].status \in {"queued", "freed"}
    BY <1>0, <1>3, <2>1, TopRequest
  <2>4. p \in Transit => InHand(t, f, p)'
    BY <1>2, <1>3, <1>6, <2>2 DEF InHand
  <2>5. f.pkts \subseteq arrived'
    BY <1>2, <1>3, <2>1
  <2>6. CallOk(t, f)'
    BY <2>1, <2>3, <2>4, <2>5 DEF CallOk
  <2>7. \A r \in ReqIds : f.req = r => Held(r)
    BY <1>1, <2>1
  <2> QED BY <1>0, <1>3, <1>4, <1>6, <2>2, <2>6, <2>7, QuietStep
<1> QED BY <1>5, <1>6 DEF Lookup


(***************************************************************************)
(* Between two sweeps the receive thread is the only one in a call.        *)
(***************************************************************************)
LEMMA Alone ==
  ASSUME NoLsuThreads, TypeOK, SweepOk, MayLock(Main)
  PROVE  \A t \in Threads : t # Main => CallsOf(t) = {} /\ t = Sweeper
<1>1. Threads = {Main, Sweeper} /\ Main # Sweeper
  BY ThreadsAssumption DEF NoLsuThreads, Threads
<1>2. stack[Sweeper] = <<>>
  BY <1>1, SweepLocks
<1>3. CallsOf(Sweeper) = {}
  BY <1>2 DEF CallsOf
<1> QED BY <1>1, <1>3

LEMMA EnqueueStep ==
  ASSUME NoLsuThreads, TypeOK, ServiceInv, SweepOk', NEW t \in Threads, Enqueue(t)
  PROVE  ServiceInv'
<1>0. ~Idle(t) /\ Top(t).at = "enqueue" /\ MayLock(t)
  BY DEF Enqueue, At, Top
<1>1. CallOk(t, Top(t)) /\ Top(t) \in CallsOf(t)
  BY <1>0, TopOk
<1>2. PICK p \in Top(t).pkts, r \in ReqIds :
        /\ QueueReq(t, NextHop[p], r)
        /\ req' = [req EXCEPT ![r] = WithPacket(@, p)]
        /\ Goto(t, Frame("check", r, {}))
  BY DEF Enqueue
<1>3. /\ p \in Packets /\ p \in arrived
      /\ p \in Transit => InHand(t, Top(t), p)
  BY <1>0, <1>1 DEF CallOk
<1>4. sent' = sent /\ reported' = reported /\ arrived' = arrived
  BY DEF Enqueue, history
<1>5. /\ \A q \in ReqIds \ {r} : req'[q] = req[q]
      /\ req'[r].status = "queued" /\ req'[r].ip = NextHop[p]
      /\ req'[r].packets = req[r].packets \cup {p}
  BY <1>2 DEF WithPacket, TypeOK, Request
<1>6. \/ req[r].status = "queued" /\ req[r].ip = NextHop[p]
      \/ req[r].status = "unused"
  BY <1>2 DEF QueueReq, Queued, NewReqs
<1>7. PICK f \in Frames :
        f.at = "check" /\ f.req = r /\ f.pkts = {} /\ Goto(t, f)
  <2> DEFINE g == Frame("check", r, {})
  <2>1. g \in Frames /\ g.at = "check" /\ g.req = r /\ g.pkts = {}
    BY FrameType DEF Frame, Frames, Calls, OnRequest, ReqIds, NoReq
  <2>2. Goto(t, g)
    BY <1>2
  <2> HIDE DEF g
  <2> QED BY <2>1, <2>2
<1>8. Moves(t, {f}) /\ Swap(t, {f})
  BY <1>0, <1>7, SwapGoto DEF Moves
<1>9. CallOk(t, f)'
  BY <1>5, <1>7, PlainCall
<1>10. \A q \in ReqIds : RequestOk(q)
  BY DEF ServiceInv
<1>11. HistoriesGrow /\ HistoryOk'
  BY <1>4 DEF HistoriesGrow, ServiceInv, HistoryOk
<1>12. ASSUME NEW q \in ReqIds, req[q].status = "freed", Held(q)' PROVE Held(q)
  <2>1. f.req # q
    BY <1>6, <1>7, <1>12
  <2> QED BY <1>8, <1>12, <2>1, HeldKept
<1>13. CASE p \notin Transit
  <2>1. ListsKept
    BY <1>5, <1>13 DEF ListsKept, Listed
  <2>2. ASSUME NEW u \in Threads, NEW h \in CallsOf(u) PROVE Undisturbed(u, h)
    <3>1. /\ h.req # NoReq => h.req \in ReqIds
          /\ CallOk(u, h)
      BY CallFacts DEF ServiceInv
    <3>2. h.req # NoReq => req[h.req].status # "unused"
      BY <3>1 DEF CallOk, Serving
    <3>3. h.req # NoReq => StatusKept(h.req)
      BY <1>5, <1>6, <3>1, <3>2 DEF StatusKept
    <3> QED BY <1>4, <3>3 DEF Undisturbed, InHand
  <2>3. ASSUME NEW q \in ReqIds PROVE RequestOk(q)'
    <3>1. RequestOk(q) /\ Listed(q)' = Listed(q)
      BY <1>10, <2>1 DEF ListsKept
    <3>2. req'[q].packets \subseteq arrived'
      BY <1>3, <1>4, <1>5, <3>1 DEF RequestOk
    <3>3. ASSUME req'[q].status = req[q].status, req'[q].ip = req[q].ip
          PROVE  RequestOk(q)'
      <4>1. Reporting(q) => Reporting(q)'
        BY <1>0, <1>8, ReportingKept
      <4>2. req[q].status = "queued" =>
              /\ Listed(q) \cap sent' = {}
              /\ Listed(q) \cap reported' # {} => Reporting(q)'
        BY <1>4, <3>1, <4>1 DEF RequestOk
      <4>3. req[q].status = "freed" /\ Held(q)' => Listed(q) \cap sent' = {}
        BY <1>4, <1>12, <3>1 DEF RequestOk
      <4> QED BY <1>11, <3>1, <3>2, <3>3, <4>2, <4>3, RequestKept
    <3>4. ASSUME q = r, req[r].status = "unused" PROVE RequestOk(q)'
      <4>1. Listed(q)' = {}
        BY <3>1, <3>4 DEF RequestOk
      <4> QED BY <1>5, <3>2, <3>4, <4>1 DEF RequestOk
    <3> QED BY <1>5, <1>6, <3>3, <3>4
  <2> QED BY <1>8, <1>9, <1>11, <2>1, <2>2, <2>3, Assemble
<1>14. CASE p \in Transit
  <2>1. /\ t = Main /\ stack[Main] = <<Top(t)>>
        /\ p \notin sent \cup reported
        /\ \A q \in ReqIds : p \notin req[q].packets
    BY <1>3, <1>14 DEF InHand
  <2>2. \A u \in Threads : u # Main => CallsOf(u) = {}
    BY <1>0, <2>1, Alone DEF ServiceInv
  <2>3. CallsOf(Main) = {Top(t)} /\ CallsOf(Main)' \subseteq {f}
    BY <1>8, <2>1, CallsOfSeq DEF Swap, Threads
  <2>4. \A u \in Threads : u # Main => CallsOf(u)' = {}
    BY <1>8, <2>1, <2>2 DEF Swap, CallsOf
  <2>5. CallsOk'
    BY <1>9, <2>1, <2>3, <2>4 DEF CallsOk
  <2>6. \A q : ~Reporting(q)
    BY <1>0, <2>2, <2>3 DEF Reporting
  <2>7. /\ \A q \in ReqIds \ {r} : Listed(q)' = Listed(q)
        /\ Listed(r)' = Listed(r) \cup {p}
    BY <1>5, <1>14 DEF Listed
  <2>8. ASSUME NEW q \in ReqIds, q # r PROVE RequestOk(q)'
    <3>1. RequestOk(q) /\ Listed(q)' = Listed(q) /\ req'[q] = req[q]
      BY <1>5, <1>10, <2>7, <2>8
    <3>2. req[q].status = "queued" =>
            /\ Listed(q) \cap sent' = {}
            /\ Listed(q) \cap reported' # {} => Reporting(q)'
      BY <1>4, <2>6, <3>1 DEF RequestOk
    <3>3. req[q].status = "freed" /\ Held(q)' => Listed(q) \cap sent' = {}
      BY <1>4, <1>12, <3>1 DEF RequestOk
    <3>4. req'[q].packets \subseteq arrived'
      BY <1>4, <3>1 DEF RequestOk
    <3> QED BY <1>11, <3>1, <3>2, <3>3, <3>4, RequestKept
  <2>9. RequestOk(r)'
    <3>1. RequestOk(r)
      BY <1>10
    <3>2. \A q \in Listed(r)' : NextHop[q] = req'[r].ip
      BY <1>5, <1>6, <2>7, <3>1 DEF RequestOk
    <3>3. Listed(r)' \cap sent' = {} /\ Listed(r)' \cap reported' = {}
      BY <1>4, <1>6, <2>1, <2>6, <2>7, <3>1 DEF RequestOk
    <3>4. req'[r].packets \subseteq arrived'
      BY <1>3, <1>4, <1>5, <3>1 DEF RequestOk
    <3> QED BY <1>5, <3>2, <3>3, <3>4 DEF RequestOk
  <2>10. \A q, s \in ReqIds : Listed(q)' \cap Listed(s)' # {} => q = s
    <3>1. \A q \in ReqIds : p \notin Listed(q)
      BY <2>1 DEF Listed
    <3> QED BY <2>7, <3>1 DEF ServiceInv
  <2> QED BY <1>11, <2>5, <2>8, <2>9, <2>10 DEF ServiceInv, CallsOk
<1> QED BY <1>13, <1>14


LEMMA UnreachableStep ==
  ASSUME NoLsuThreads, TypeOK, ServiceInv, SweepOk', NEW t \in Threads, Unreachable(t)
  PROVE  ServiceInv'
<1>0. ~Idle(t) /\ Top(t).at = "unreachable"
  BY DEF Unreachable, At, Top
<1>1. /\ CallOk(t, Top(t)) /\ Top(t) \in CallsOf(t) /\ Top(t) \in Frames
      /\ Top(t).req \in ReqIds /\ Held(Top(t).req)
      /\ req[Top(t).req].status \in {"queued", "freed"}
  BY <1>0, TopOk, TopRequest DEF OnRequest
<1>2. PICK r \in ReqIds : r = Top(t).req
  BY <1>1
<1>3. PICK p \in Packets :
        /\ p \in Top(t).pkts /\ reported' = reported \cup {p}
        /\ \/ Goto(t, [Top(t) EXCEPT !.pkts = @ \ {p}]) /\ UNCHANGED <<up, arrived>>
           \/ /\ IcmpError[p] # NoPacket
              /\ arrived' = arrived \cup {IcmpError[p]}
              /\ Call(t, [Top(t) EXCEPT !.pkts = @ \ {p}],
                         Frame("lookup", NoReq, {IcmpError[p]}))
  BY <1>1 DEF Unreachable, Frames
<1>4. UNCHANGED req /\ sent' = sent /\ RequestsSame
  BY DEF Unreachable, RequestsSame
<1>5. PICK rest \in Frames :
        /\ rest.at = "unreachable" /\ rest.req = r /\ rest.pkts = Top(t).pkts \ {p}
        /\ rest = [Top(t) EXCEPT !.pkts = @ \ {p}]
  <2> DEFINE g == [Top(t) EXCEPT !.pkts = @ \ {p}]
  <2>1. g \in Frames /\ g.at = "unreachable" /\ g.req = r /\ g.pkts = Top(t).pkts \ {p}
    BY <1>0, <1>1, <1>2 DEF Frames
  <2> QED BY <2>1
<1>6. /\ p \in arrived
      /\ p \in Transit => p \in Listed(r)
      /\ Listed(r) \ Top(t).pkts \subseteq reported
      /\ req[r].status \in {"queued", "freed"}
  BY <1>0, <1>1, <1>2, <1>3 DEF CallOk
<1>7. p \in Transit => p \notin sent
  BY <1>1, <1>2, <1>6 DEF ServiceInv, RequestOk
<1>8. PICK new \in SUBSET Frames :
        /\ Moves(t, new) /\ \A f \in new : CallOk(t, f)'
        /\ stack' = stack \/ rest \in new
        /\ \A f \in new : f.req \in {r, NoReq}
        /\ arrived \subseteq arrived' /\ arrived' \cap Lsus = {}
  <2>0. arrived \cap Lsus = {}
    BY DEF ServiceInv, HistoryOk
  <2>1. ASSUME arrived \subseteq arrived' PROVE CallOk(t, rest)'
    <3>1. rest.pkts \subseteq arrived'
      BY <1>1, <1>5, <2>1 DEF CallOk
    <3>2. /\ rest.pkts \cap Transit \subseteq Listed(r)'
          /\ Listed(r)' \ rest.pkts \subseteq reported'
      BY <1>0, <1>1, <1>2, <1>3, <1>4, <1>5, <1>6 DEF CallOk, Listed
    <3>3. req'[r].status \in {"queued", "freed"}
      BY <1>4, <1>6
    <3> QED BY <1>5, <3>1, <3>2, <3>3 DEF CallOk
  <2>2. CASE Goto(t, rest) /\ UNCHANGED <<up, arrived>>
    <3>1. Moves(t, {rest}) /\ CallOk(t, rest)'
      BY <1>0, <2>1, <2>2, SwapGoto DEF Moves
    <3>2. {rest} \in SUBSET Frames
      OBVIOUS
    <3>3. arrived \subseteq arrived' /\ arrived' \cap Lsus = {}
      BY <2>0, <2>2
    <3> QED BY <1>5, <3>1, <3>2, <3>3
  <2>3. ASSUME IcmpError[p] # NoPacket, arrived' = arrived \cup {IcmpError[p]},
               Call(t, rest, Frame("lookup", NoReq, {IcmpError[p]}))
        PROVE  \E new \in SUBSET Frames :
                 /\ Moves(t, new) /\ \A f \in new : CallOk(t, f)'
                 /\ stack' = stack \/ rest \in new
                 /\ \A f \in new : f.req \in {r, NoReq}
                 /\ arrived \subseteq arrived' /\ arrived' \cap Lsus = {}
    <3>1. PICK e \in Packets : e = IcmpError[p] /\ e \in Errors
      BY <2>3, PacketsAssumption DEF Packets
    <3>2. PICK g \in Frames : /\ g.at = "lookup" /\ g.req = NoReq /\ g.pkts = {e}
                              /\ Call(t, rest, g)
      <4> DEFINE l == Frame("lookup", NoReq, {e})
      <4>1. l \in Frames
        BY LookupFrame
      <4>2. l.at = "lookup" /\ l.req = NoReq /\ l.pkts = {e}
        BY DEF Frame
      <4>3. Call(t, rest, l)
        BY <2>3, <3>1
      <4> HIDE DEF l
      <4> QED BY <4>1, <4>2, <4>3
    <3>3. arrived \subseteq arrived' /\ arrived' \cap Lsus = {} /\ e \in arrived'
      BY <2>0, <2>3, <3>1 DEF NoLsuThreads
    <3>4. CallOk(t, g)'
      <4>1. g.pkts \subseteq arrived' /\ e \notin Transit
        BY <3>1, <3>2, <3>3 DEF NoLsuThreads
      <4> QED BY <3>2, <4>1 DEF CallOk
    <3>5. CallOk(t, rest)'
      BY <2>1, <3>3
    <3>6. CASE stack' = stack
      <4>1. Moves(t, {})
        BY <3>6, SameStack
      <4> QED BY <3>3, <3>6, <4>1
    <3>7. CASE Swap(t, {rest, g})
      <4>1. Moves(t, {rest, g}) /\ {rest, g} \in SUBSET Frames
        BY <3>7 DEF Moves
      <4> QED BY <1>5, <3>2, <3>3, <3>4, <3>5, <4>1
    <3> QED BY <1>0, <3>2, <3>6, <3>7, SwapCall
  <2> QED BY <1>3, <1>5, <2>2, <2>3
<1>9. HistoriesGrow /\ ListsKept
  BY <1>3, <1>4, <1>8 DEF HistoriesGrow, ListsKept, Listed
<1>10. HistoryOk'
  BY <1>3, <1>4, <1>6, <1>7, <1>8 DEF ServiceInv, HistoryOk
<1>11. ASSUME NEW u \in Threads, NEW h \in CallsOf(u) PROVE Undisturbed(u, h)
  <2>1. StatusKept(h.req)
    BY <1>4 DEF StatusKept
  <2>2. ASSUME NEW q \in Transit, InHand(u, h, q) PROVE q \notin sent' \cup reported'
    <3>1. q # p
      BY <1>2, <1>6, <2>2 DEF InHand, Listed
    <3> QED BY <1>3, <1>4, <2>2, <3>1 DEF InHand
  <2>3. ASSUME Serving(u, h) PROVE Listed(h.req) \cap reported' \subseteq reported
    <3>1. h.req \in ReqIds /\ h.req # r
      BY <1>6, <2>3, CallFacts DEF Serving
    <3>2. p \notin Listed(h.req)
      <4>1. p \in Listed(h.req) => p \in Transit
        BY DEF Listed
      <4> QED BY <1>6, <3>1, <4>1 DEF ServiceInv
    <3> QED BY <1>3, <3>2
  <2> QED BY <1>4, <2>1, <2>2, <2>3 DEF Undisturbed
<1>12. ASSUME NEW q \in ReqIds PROVE RequestOk(q)'
  <2>1. RequestOk(q) /\ Listed(q)' = Listed(q)
    BY <1>9 DEF ServiceInv, ListsKept
  <2>2. Reporting(q) => Reporting(q)'
    BY <1>0, <1>2, <1>5, <1>8, ReportingKept
  <2>3. Listed(q) \cap reported' # {} => Reporting(q) \/ Listed(q) \cap reported # {}
    <3>1. Reporting(r)
      BY <1>0, <1>1, <1>2 DEF Reporting
    <3>2. p \in Listed(q) => q = r
      <4>1. p \in Listed(q) => p \in Transit
        BY DEF Listed
      <4> QED BY <1>6, <4>1 DEF ServiceInv
    <3> QED BY <1>3, <3>1, <3>2
  <2>4. \A f \in new : f.req = q => Held(q)
    BY <1>1, <1>2, <1>8 DEF ReqIds, NoReq
  <2>5. Held(q)' => Held(q)
    BY <1>8, <2>4, HeldKept
  <2>6. req[q].status = "queued" =>
          /\ Listed(q) \cap sent' = {}
          /\ Listed(q) \cap reported' # {} => Reporting(q)'
    BY <1>4, <2>1, <2>2, <2>3 DEF RequestOk
  <2>7. req[q].status = "freed" /\ Held(q)' => Listed(q) \cap sent' = {}
    BY <1>4, <2>1, <2>5 DEF RequestOk
  <2>8. req'[q].packets \subseteq arrived'
    BY <1>4, <1>8, <2>1 DEF RequestOk
  <2> QED BY <1>4, <1>9, <2>1, <2>6, <2>7, <2>8, RequestKept
<1> QED BY <1>8, <1>9, <1>10, <1>11, <1>12, Assemble

LEMMA DestroyStep ==
  ASSUME NoLsuThreads, TypeOK, ServiceInv, SweepOk', NEW t \in Threads, Destroy(t)
  PROVE  ServiceInv'
<1>0. ~Idle(t) /\ Top(t).at = "destroy"
  BY DEF Destroy, At, Top
<1>1. CallOk(t, Top(t)) /\ Top(t).req \in ReqIds
  BY <1>0, TopOk DEF OnRequest
<1>2. PICK r \in ReqIds : r = Top(t).req
  BY <1>1
<1>3. /\ sent' = sent /\ reported' = reported /\ arrived' = arrived
      /\ Live(r) /\ Return(t)
      /\ req' = [req EXCEPT ![r].status = "freed"]
  BY <1>2 DEF Destroy, history
<1>4. /\ \A q \in ReqIds \ {r} : req'[q] = req[q]
      /\ req'[r].status = "freed" /\ req'[r].ip = req[r].ip
      /\ req'[r].packets = req[r].packets
  BY <1>3 DEF TypeOK, Request
<1>5. Moves(t, {}) /\ \A f : stack[t] = <<f>> => CallsOf(t)' = {}
  BY <1>0, <1>3, SwapReturn DEF Moves, Swap
<1>6. \A q \in ReqIds : RequestOk(q)
  BY DEF ServiceInv
<1>7. HistoriesGrow /\ HistoryOk' /\ ListsKept
  BY <1>3, <1>4 DEF HistoriesGrow, ServiceInv, HistoryOk, ListsKept, Listed
<1>8. ASSUME NEW u \in Threads, NEW h \in CallsOf(u), h \in CallsOf(u)', h.req = r
      PROVE  req[r].status = "queued"
  <2>1. CallOk(u, h) /\ h.req # NoReq
    BY <1>8 DEF ServiceInv, ReqIds, NoReq
  <2>2. req[r].status \in {"queued", "detached"}
    BY <1>3 DEF Live
  <2>3. ASSUME req[r].status = "detached" PROVE FALSE
    <3>1. Serving(u, h) /\ Serving(t, Top(t))
      <4>1. req[r].status \notin {"queued", "freed"}
        BY <2>3
      <4>2. Top(t).req # NoReq
        BY <1>2 DEF ReqIds, NoReq
      <4> QED BY <1>1, <1>2, <1>8, <2>1, <4>1, <4>2 DEF CallOk
    <3>2. t = Main /\ u = Main /\ stack[t] = <<h>>
      BY <3>1 DEF Serving
    <3>3. CallsOf(u)' = {}
      BY <1>5, <3>2
    <3> QED BY <1>8, <3>3
  <2> QED BY <2>2, <2>3
<1>9. ASSUME NEW u \in Threads, NEW h \in CallsOf(u), h \in CallsOf(u)'
      PROVE  Undisturbed(u, h)
  <2>1. h.req # NoReq => h.req \in ReqIds
    BY CallFacts
  <2>2. h.req # NoReq => StatusKept(h.req)
    BY <1>4, <1>8, <1>9, <2>1 DEF StatusKept
  <2> QED BY <1>3, <2>2 DEF Undisturbed, InHand
<1>10. ASSUME NEW q \in ReqIds, q # r PROVE RequestOk(q)'
  <2>1. RequestOk(q) /\ Listed(q)' = Listed(q) /\ req'[q] = req[q]
    BY <1>4, <1>6, <1>7, <1>10 DEF ListsKept
  <2>2. Reporting(q) => Reporting(q)'
    BY <1>2, <1>5, <1>10, ReportingKept
  <2>3. Held(q)' => Held(q)
    BY <1>5, HeldKept
  <2>4. req[q].status = "queued" =>
          /\ Listed(q) \cap sent' = {}
          /\ Listed(q) \cap reported' # {} => Reporting(q)'
    BY <1>3, <2>1, <2>2 DEF RequestOk
  <2>5. req[q].status = "freed" /\ Held(q)' => Listed(q) \cap sent' = {}
    BY <1>3, <2>1, <2>3 DEF RequestOk
  <2>6. req'[q].packets \subseteq arrived'
    BY <1>3, <2>1 DEF RequestOk
  <2> QED BY <1>7, <2>1, <2>4, <2>5, <2>6, RequestKept
<1>11. RequestOk(r)'
  <2>1. RequestOk(r) /\ Listed(r)' = Listed(r)
    BY <1>6, <1>7 DEF ListsKept
  <2>2. /\ req'[r].packets \subseteq arrived'
        /\ \A p \in Listed(r)' : NextHop[p] = req'[r].ip
    BY <1>3, <1>4, <2>1 DEF RequestOk
  <2>3. req[r].status \in {"queued", "detached"} /\ Top(t).req # NoReq
    BY <1>2, <1>3 DEF Live, ReqIds, NoReq
  <2>4. ASSUME req[r].status = "queued"
        PROVE  Listed(r) \subseteq reported /\ Listed(r) \cap sent = {}
    <3>1. ~Serving(t, Top(t))
      BY <1>2, <2>4 DEF Serving
    <3> QED BY <1>0, <1>1, <1>2, <2>1, <2>4, <3>1 DEF CallOk, RequestOk
  <2>5. ASSUME req[r].status = "detached" PROVE Listed(r) \subseteq sent /\ ~Held(r)'
    <3>1. Serving(t, Top(t))
      <4>1. req[r].status \notin {"queued", "freed"}
        BY <2>5
      <4> QED BY <1>1, <1>2, <2>3, <4>1 DEF CallOk
    <3>2. Listed(r) \subseteq sent
      BY <1>0, <1>2, <3>1 DEF Serving
    <3>3. ASSUME NEW u \in Threads, NEW h \in CallsOf(u)', h.req = r PROVE FALSE
      <4>1. h \in CallsOf(u)
        BY <1>5, <3>3 DEF Moves, Swap, CallsOf
      <4>2. req[r].status = "queued"
        BY <1>8, <3>3, <4>1
      <4> QED BY <2>5, <4>2
    <3> QED BY <3>2, <3>3, HeldCalls
  <2>6. /\ Listed(r)' \subseteq sent' \cup reported'
        /\ Held(r)' => Listed(r)' \cap sent' = {}
    BY <1>3, <2>1, <2>3, <2>4, <2>5
  <2> QED BY <1>4, <2>2, <2>6 DEF RequestOk
<1> QED BY <1>5, <1>7, <1>9, <1>10, <1>11, Assemble


LEMMA DetachStep ==
  ASSUME NoLsuThreads, TypeOK, ServiceInv, SweepOk', Idle(Main), MayLock(Main),
         NEW hop \in Hops, Detach(hop), UNCHANGED <<arrived, sent, reported>>,
         \/ stack' = stack
         \/ \E r \in Queued :
              /\ req[r].ip = hop
              /\ stack' = [stack EXCEPT ![Main] = <<Frame("flush", r, {})>>]
  PROVE  ServiceInv'
<1>0. Main \in Threads
  BY DEF Threads
<1>1. \A u \in Threads : CallsOf(u) = {}
  BY <1>0, Alone, CallsOfSeq DEF ServiceInv
<1>2. \A q : ~Reporting(q) /\ ~Held(q)
  BY <1>1, HeldCalls DEF Reporting
<1>3. ASSUME NEW q \in ReqIds
      PROVE  /\ req'[q].packets = req[q].packets /\ req'[q].ip = req[q].ip
             /\ \/ req'[q].status = req[q].status
                \/ req[q].status = "queued" /\ req'[q].status = "detached"
             /\ req[q].status = "queued" /\ req[q].ip = hop =>
                  req'[q].status = "detached"
  BY DEF Detach, Queued, TypeOK, Request
<1>4. \A q \in ReqIds : RequestOk(q) /\ Listed(q)' = Listed(q)
  BY <1>3 DEF ServiceInv, Listed
<1>5. ASSUME NEW q \in ReqIds, req[q].status = "queued"
      PROVE  Listed(q) \cap (sent \cup reported) = {}
  BY <1>2, <1>4, <1>5 DEF RequestOk
<1>6. ASSUME NEW q \in ReqIds, req'[q].status = "freed" => ~Held(q)' PROVE RequestOk(q)'
  <2>1. /\ req'[q].packets \subseteq arrived'
        /\ req'[q].status = "unused" => Listed(q)' = {}
        /\ \A p \in Listed(q)' : NextHop[p] = req'[q].ip
    BY <1>3, <1>4 DEF RequestOk
  <2>2. req'[q].status = "queued" => Listed(q)' \cap (sent' \cup reported') = {}
    BY <1>3, <1>4, <1>5
  <2>3. req'[q].status = "freed" => Listed(q)' \subseteq sent' \cup reported'
    BY <1>3, <1>4 DEF RequestOk
  <2> QED BY <1>6, <2>1, <2>2, <2>3 DEF RequestOk
<1>7. HistoryOk'
  BY DEF ServiceInv, HistoryOk
<1>8. \A r, q \in ReqIds : Listed(r)' \cap Listed(q)' # {} => r = q
  BY <1>4 DEF ServiceInv
<1>9. CASE stack' = stack
  <2>1. \A u \in Threads : CallsOf(u)' = {}
    BY <1>1, <1>9 DEF CallsOf
  <2>2. \A q : ~Held(q)'
    BY <2>1, HeldCalls
  <2> QED BY <1>6, <1>7, <1>8, <2>1, <2>2 DEF ServiceInv
<1>10. ASSUME NEW r \in Queued, req[r].ip = hop,
              stack' = [stack EXCEPT ![Main] = <<Frame("flush", r, {})>>]
       PROVE  ServiceInv'
  <2>1. r \in ReqIds /\ req[r].status = "queued" /\ req'[r].status = "detached"
    BY <1>3, <1>10 DEF Queued
  <2> DEFINE f == Frame("flush", r, {})
  <2>2. f \in Frames /\ f.at = "flush" /\ f.req = r /\ f.pkts = {}
    BY <2>1, FrameType DEF Frame, Frames, Calls, OnRequest, ReqIds, NoReq
  <2>3. stack' = [stack EXCEPT ![Main] = <<f>>]
    BY <1>10
  <2> HIDE DEF f
  <2>4. stack'[Main] = <<f>> /\ Swap(Main, {f})
    BY <1>0, <2>2, <2>3, SwapStart
  <2>5. \A u \in Threads : u # Main => CallsOf(u)' = {}
    BY <1>1, <2>4 DEF Swap, CallsOf
  <2>6. CallsOf(Main)' = {f}
    BY <1>0, <1>1, <2>4 DEF Swap
  <2>7. Serving(Main, f)'
    BY <1>4, <1>5, <2>1, <2>2, <2>4 DEF Serving
  <2>8. CallOk(Main, f)'
    BY <2>2, <2>7 DEF CallOk
  <2>9. \A q : Held(q)' => q = r
    BY <2>2, <2>5, <2>6, HeldCalls
  <2>10. \A q \in ReqIds : RequestOk(q)'
    BY <1>6, <2>1, <2>9
  <2>11. \A u \in Threads : \A g \in CallsOf(u)' : CallOk(u, g)'
    BY <2>5, <2>6, <2>8
  <2> QED BY <1>7, <1>8, <2>10, <2>11 DEF ServiceInv
<1> QED BY <1>9, <1>10

LEMMA FlushStep ==
  ASSUME NoLsuThreads, TypeOK, ServiceInv, SweepOk', Flush
  PROVE  ServiceInv'
<1>0. Main \in Threads /\ ~Idle(Main) /\ Top(Main).at = "flush"
  BY DEF Flush, At, Top, Threads
<1>1. /\ Serving(Main, Top(Main)) /\ Top(Main) \in Frames
      /\ Top(Main).req \in ReqIds /\ Held(Top(Main).req)
  BY <1>0, TopOk DEF OnRequest, CallOk
<1>2. PICK r \in ReqIds : r = Top(Main).req
  BY <1>1
<1>3. /\ stack[Main] = <<Top(Main)>> /\ req[r].status = "detached"
      /\ Listed(r) \cap (sent \cup reported) = {}
  BY <1>0, <1>1, <1>2 DEF Serving
<1>4. /\ UNCHANGED req /\ arrived' = arrived /\ reported' = reported
      /\ sent' = sent \cup req[r].packets
  BY <1>2, <1>3 DEF Flush, Live
<1>5. PICK f \in Frames :
        f.at = "destroy" /\ f.req = r /\ f.pkts = {} /\ Goto(Main, f)
  <2> DEFINE g == [Top(Main) EXCEPT !.at = "destroy"]
  <2>1. Top(Main).pkts = {}
    BY <1>0, TopOk DEF CallOk
  <2>2. g \in Frames /\ g.at = "destroy" /\ g.req = r /\ g.pkts = {}
    BY <1>0, <1>1, <1>2, <2>1, FrameUpdate DEF Frames, Calls, OnRequest
  <2>3. Goto(Main, g)
    BY DEF Flush
  <2> HIDE DEF g
  <2> QED BY <2>2, <2>3
<1>6. /\ Moves(Main, {f}) /\ stack'[Main] = <<f>>
      /\ CallsOf(Main)' \subseteq {f}
  BY <1>0, <1>3, <1>5, SwapGoto DEF Moves, Swap
<1>7. HistoriesGrow /\ ListsKept
  BY <1>4 DEF HistoriesGrow, ListsKept, Listed
<1>8. RequestOk(r) /\ Listed(r)' = Listed(r)
  BY <1>7 DEF ServiceInv, ListsKept
<1>9. HistoryOk'
  <2>1. sent' \cup reported' \subseteq arrived'
    BY <1>4, <1>8 DEF ServiceInv, HistoryOk, RequestOk
  <2>2. sent' \cap reported' \cap Transit = {}
    BY <1>3, <1>4 DEF ServiceInv, HistoryOk, Listed
  <2> QED BY <1>4, <2>1, <2>2 DEF ServiceInv, HistoryOk
<1>10. CallOk(Main, f)'
  <2>1. Listed(r)' \subseteq sent' \ reported'
    BY <1>3, <1>4, <1>8 DEF Listed
  <2>2. Serving(Main, f)'
    BY <1>3, <1>4, <1>5, <1>6, <2>1 DEF Serving
  <2> QED BY <1>5, <2>2 DEF CallOk
<1>11. ASSUME NEW u \in Threads, NEW h \in CallsOf(u), h \in CallsOf(u)'
       PROVE  Undisturbed(u, h)
  <2>1. StatusKept(h.req)
    BY <1>4 DEF StatusKept
  <2>2. ASSUME NEW q \in Transit, InHand(u, h, q) PROVE q \notin sent' \cup reported'
    BY <1>4, <2>2 DEF InHand
  <2>3. ~Serving(u, h)
    <3>1. ASSUME Serving(u, h) PROVE FALSE
      <4>1. u = Main /\ stack[Main] = <<h>>
        BY <3>1 DEF Serving
      <4>2. h = Top(Main)
        BY <1>0, <4>1, CallsOfSeq
      <4> QED BY <1>0, <1>5, <1>6, <1>11, <4>1, <4>2
    <3> QED BY <3>1
  <2> QED BY <2>1, <2>2, <2>3 DEF Undisturbed
<1>12. ASSUME NEW q \in ReqIds PROVE RequestOk(q)'
  <2>1. RequestOk(q) /\ Listed(q)' = Listed(q)
    BY <1>7 DEF ServiceInv, ListsKept
  <2>2. q # r => Listed(q) \cap sent' = Listed(q) \cap sent
    <3>1. q # r => Listed(q) \cap Listed(r) = {}
      BY DEF ServiceInv
    <3> QED BY <1>4, <3>1 DEF Listed
  <2>3. Reporting(q) => Reporting(q)'
    BY <1>0, <1>6, ReportingKept
  <2>4. Held(q)' => Held(q)
    BY <1>0, <1>1, <1>2, <1>5, <1>6, HeldKept
  <2>5. req[q].status = "queued" =>
          /\ Listed(q) \cap sent' = {}
          /\ Listed(q) \cap reported' # {} => Reporting(q)'
    BY <1>3, <1>4, <2>1, <2>2, <2>3 DEF RequestOk
  <2>6. req[q].status = "freed" /\ Held(q)' => Listed(q) \cap sent' = {}
    BY <1>3, <2>1, <2>2, <2>4 DEF RequestOk
  <2>7. req'[q].packets \subseteq arrived'
    BY <1>4, <2>1 DEF RequestOk
  <2> QED BY <1>4, <1>7, <2>1, <2>5, <2>6, <2>7, RequestKept
<1> QED BY <1>0, <1>6, <1>7, <1>9, <1>10, <1>11, <1>12, Assemble

LEMMA ServiceInit == Init => ServiceInv
<1> SUFFICES ASSUME Init PROVE ServiceInv
  OBVIOUS
<1>1. \A t \in Threads : CallsOf(t) = {}
  BY DEF Init, CallsOf
<1>2. ASSUME NEW r \in ReqIds PROVE Listed(r) = {} /\ RequestOk(r)
  <2>1. req[r] = Unused
    BY DEF Init
  <2>2. Listed(r) = {}
    BY <2>1 DEF Listed, Unused
  <2> QED BY <2>1, <2>2 DEF RequestOk, Unused
<1>3. SweepOk
  BY DEF Init, SweepOk, Threads
<1>4. HistoryOk
  BY DEF Init, HistoryOk
<1> QED BY <1>1, <1>2, <1>3, <1>4 DEF ServiceInv

LEMMA ServiceStep ==
  NoLsuThreads /\ TypeOK /\ ServiceInv /\ [Next]_vars => ServiceInv'
<1> SUFFICES ASSUME NoLsuThreads, TypeOK, ServiceInv, [Next]_vars PROVE ServiceInv'
  OBVIOUS
<1>0. Main \in Threads /\ Sweeper \in Threads
  BY DEF Threads
<1>1. SweepOk'
  BY SweepOkStep DEF ServiceInv
<1>2. ASSUME NEW t \in Threads, ThreadStep(t) PROVE ServiceInv'
  BY <1>1, <1>2, LookupStep, EnqueueStep, UnreachableStep, DestroyStep, QuietSteps
  DEF ThreadStep
<1>3. CASE Flush
  BY <1>1, <1>3, FlushStep
<1>4. CASE SweepBegin \/ SweepNext \/ SweepEnd \/ Tick \/ UNCHANGED vars
  BY <1>0, <1>1, <1>4, QuietSteps
<1>5. ASSUME NEW t \in Threads, NEW p \in Packets, Transmit(t, p) PROVE ServiceInv'
  BY <1>1, <1>5, QuietSteps
<1>6. ASSUME NEW h \in Hops, NEW mine \in BOOLEAN, ArpReply(h, mine) PROVE ServiceInv'
  BY <1>1, <1>6, DetachStep DEF ArpReply, history
<1>7. ASSUME NEW h \in Hops, ArpRequest(h) PROVE ServiceInv'
  BY <1>1, <1>7, DetachStep DEF ArpRequest
<1>8. CASE Receive
  BY <1>5, <1>6, <1>7, <1>8 DEF Receive
<1>9. CASE MainStep \/ SweeperStep \/ WorkerStep
  BY <1>0, <1>2, <1>3, <1>4, <1>9 DEF MainStep, SweeperStep, WorkerStep, Threads
<1> QED BY <1>4, <1>8, <1>9 DEF Next

LEMMA ServiceCorrect == ASSUME NoLsuThreads PROVE Spec => []ServiceInv
<1>1. NoLsuThreads
  OBVIOUS
<1>2. TypeOK /\ ServiceInv /\ [Next]_vars => ServiceInv'
  BY <1>1, ServiceStep
<1> QED BY <1>2, ServiceInit, TypeCorrect, PTL DEF Spec


(***************************************************************************)
(* sr_arpreq_destroy frees no packet of another router that was neither    *)
(* sent nor taken for an ICMP error.                                       *)
(***************************************************************************)
TransitRemembered ==
  \A r \in ReqIds : Freed(r) => Listed(r) \subseteq sent \cup reported

THEOREM TransitKept ==
  ASSUME NoLsuThreads PROVE Spec => []TransitRemembered
<1>1. ServiceInv => TransitRemembered
  BY DEF ServiceInv, RequestOk, TransitRemembered, Freed
<1> QED BY <1>1, ServiceCorrect, PTL

(***************************************************************************)
(* Where no ICMP error can be sent, the receive thread and the timeout     *)
(* thread forget no packet at all.  With errors that cross, or with LSU    *)
(* threads, handle_arpreq frees packets queued after its walk.             *)
(***************************************************************************)
NoErrorArrives == arrived \cap Errors = {}

THEOREM NothingForgotten ==
  ASSUME NoLsuThreads, NoErrors PROVE Spec => []NoPacketForgotten
<1>1. NoErrors /\ NoLsuThreads
  OBVIOUS
<1>2. Init => NoErrorArrives
  BY DEF Init, NoErrorArrives
<1>3. TypeOK /\ NoErrorArrives /\ [Next]_vars => NoErrorArrives'
  <2> SUFFICES ASSUME TypeOK, NoErrorArrives, [Next]_vars PROVE NoErrorArrives'
    OBVIOUS
  <2>1. ASSUME arrived' = arrived PROVE NoErrorArrives'
    BY <2>1 DEF NoErrorArrives
  <2>2. ASSUME NEW t \in Threads, NEW p \in Packets, Transmit(t, p)
        PROVE  NoErrorArrives'
    BY <1>1, <2>2 DEF Transmit, NoErrorArrives, NoLsuThreads
  <2>3. ASSUME NEW t \in Threads, Unreachable(t) PROVE NoErrorArrives'
    <3>1. Top(t).pkts \subseteq Packets
      BY <2>3, TopType DEF Unreachable, At
    <3>2. arrived' = arrived
      BY <1>1, <2>3, <3>1 DEF Unreachable, NoErrors
    <3> QED BY <2>1, <3>2
  <2>4. ASSUME NEW t \in Threads, ThreadStep(t) PROVE NoErrorArrives'
    BY <2>1, <2>3, <2>4
    DEF ThreadStep, Lookup, Enqueue, Check, Resend, AllReported, Destroy, Crash, history
  <2>5. CASE Flush \/ SweepBegin \/ SweepNext \/ SweepEnd \/ Tick \/ UNCHANGED vars
    BY <2>1, <2>5 DEF Flush, SweepBegin, SweepNext, SweepEnd, Tick, vars, history
  <2>6. CASE \/ \E h \in Hops, mine \in BOOLEAN : ArpReply(h, mine)
             \/ \E h \in Hops : ArpRequest(h)
    BY <2>1, <2>6 DEF ArpReply, ArpRequest, history
  <2> QED BY <2>2, <2>4, <2>5, <2>6
          DEF Next, MainStep, SweeperStep, WorkerStep, Receive, Threads
<1>4. TypeOK /\ ServiceInv /\ NoErrorArrives => NoPacketForgotten
  <2> SUFFICES ASSUME TypeOK, ServiceInv, NoErrorArrives, NEW r \in ReqIds, Freed(r)
               PROVE  req[r].packets \subseteq sent \cup reported
    BY DEF NoPacketForgotten
  <2>1. req[r].packets \subseteq arrived /\ Listed(r) \subseteq sent \cup reported
    BY DEF ServiceInv, RequestOk, Freed
  <2>2. arrived \subseteq Transit
    BY DEF ServiceInv, HistoryOk, NoErrorArrives, TypeOK, Packets
  <2> QED BY <2>1, <2>2 DEF Listed
<1> QED BY <1>2, <1>3, <1>4, ServiceCorrect, TypeCorrect, PTL DEF Spec


(***************************************************************************)
(* The refinement of ArpService.  What a step does to one transit packet:  *)
(* it is sent or reported only while the ARP layer has it in its care, it  *)
(* comes into its care when it arrives and never again, and it leaves that *)
(* care for an outcome only.                                               *)
(***************************************************************************)
Open(p) == p \in arrived \ (sent \cup reported)
Settled(p) == p \in sent \cup reported \/ NextHop[p] \in asked

Kept(p) ==
  /\ InCare(p)' => InCare(p)
  /\ InCare(p) => InCare(p)' \/ Settled(p)'

Outcome(p) ==
  /\ HistoriesGrow /\ asked \subseteq asked'
  /\ p \in (sent \cup reported)' \ (sent \cup reported) => p \in arrived /\ InCare(p)
  /\ p \in arrived' \ arrived => InCare(p)'
  /\ Open(p) => Kept(p)

LEMMA CareCalls ==
  \A p :
    /\ InCare(p) <=>
         \/ \E t \in Threads : \E f \in CallsOf(t) : p \in f.pkts
         \/ \E r \in ReqIds : Live(r) /\ p \in req[r].packets
                              /\ (r \in Queued \/ Held(r))
    /\ InCare(p)' <=>
         \/ \E t \in Threads : \E f \in CallsOf(t)' : p \in f.pkts
         \/ \E r \in ReqIds : Live(r)' /\ p \in req'[r].packets
                              /\ (r \in Queued' \/ Held(r)')
BY DEF InCare, CallsOf

\* Only the call at the top of the stepping thread's stack ends.
LEMMA CallGone ==
  ASSUME TypeOK, NEW t \in Threads, NEW new, Moves(t, new),
         NEW u \in Threads, NEW f \in CallsOf(u), f \notin CallsOf(u)'
  PROVE  stack' # stack /\ Swap(t, new) /\ u = t /\ f = Top(t) /\ ~Idle(t)
<1>1. stack' # stack
  BY DEF CallsOf
<1>2. Swap(t, new)
  BY <1>1 DEF Moves
<1>3. u = t
  <2>1. ASSUME u # t PROVE FALSE
    <3>1. stack'[u] = stack[u]
      BY <1>2, <2>1 DEF Swap
    <3> QED BY <3>1 DEF CallsOf
  <2> QED BY <2>1
<1>4. f = Top(t)
  BY <1>2, <1>3 DEF Swap
<1> QED BY <1>1, <1>2, <1>3, <1>4, CallsOfSeq

LEMMA CareKept ==
  ASSUME TypeOK, NEW t \in Threads, NEW new, Moves(t, new), NEW p,
         \A f \in new : p \in f.pkts => InCare(p),
         \A f \in new, r \in ReqIds :
           f.req = r /\ req[r].status = "detached" => Held(r),
         ~Idle(t) /\ p \in Top(t).pkts =>
           stack' = stack \/ InCare(p)' \/ Settled(p)',
         ~Idle(t) /\ Top(t).req \in ReqIds /\ req[Top(t).req].status = "detached"
           /\ p \in req[Top(t).req].packets =>
           \/ stack' = stack \/ Settled(p)'
           \/ \E f \in new : f.req = Top(t).req,
         \A r \in ReqIds : Live(r)' /\ p \in req'[r].packets =>
           \/ InCare(p)
           \/ p \in req[r].packets /\ req[r].status = req'[r].status,
         \A r \in ReqIds : Live(r) /\ p \in req[r].packets =>
           \/ InCare(p)' \/ Settled(p)'
           \/ p \in req'[r].packets /\ req'[r].status = req[r].status
  PROVE  Kept(p)
<1>1. ASSUME InCare(p)', ~InCare(p) PROVE FALSE
  <2>1. ASSUME NEW u \in Threads, NEW f \in CallsOf(u)', p \in f.pkts PROVE FALSE
    <3>1. f \in CallsOf(u) \/ f \in new
      BY DEF Moves, Swap, CallsOf
    <3> QED BY <1>1, <2>1, <3>1, CareCalls
  <2>2. ASSUME NEW r \in ReqIds, Live(r)', p \in req'[r].packets,
               r \in Queued' \/ Held(r)'
        PROVE  FALSE
    <3>1. p \in req[r].packets /\ req[r].status = req'[r].status /\ Live(r)
      BY <1>1, <2>2 DEF Live
    <3>2. CASE req[r].status = "queued"
      BY <1>1, <3>1, <3>2, CareCalls DEF Queued
    <3>3. CASE req[r].status = "detached"
      <4>1. Held(r)'
        BY <2>2, <3>1, <3>3 DEF Queued
      <4>2. Held(r)
        BY <3>3, <4>1, HeldKept
      <4> QED BY <1>1, <3>1, <4>2, CareCalls
    <3> QED BY <3>1, <3>2, <3>3 DEF Live
  <2> QED BY <1>1, <2>1, <2>2, CareCalls
<1>2. ASSUME InCare(p), ~InCare(p)', ~Settled(p)' PROVE FALSE
  <2>1. ASSUME NEW u \in Threads, NEW f \in CallsOf(u), p \in f.pkts PROVE FALSE
    <3>1. f \notin CallsOf(u)'
      BY <1>2, <2>1, CareCalls
    <3>2. stack' # stack /\ u = t /\ f = Top(t) /\ ~Idle(t)
      BY <3>1, CallGone
    <3> QED BY <1>2, <2>1, <3>2
  <2>2. ASSUME NEW r \in ReqIds, Live(r), p \in req[r].packets,
               r \in Queued \/ Held(r)
        PROVE  FALSE
    <3>1. p \in req'[r].packets /\ req'[r].status = req[r].status /\ Live(r)'
      BY <1>2, <2>2 DEF Live
    <3>2. ~(r \in Queued') /\ ~Held(r)'
      BY <1>2, <3>1, CareCalls
    <3>3. req[r].status = "detached" /\ Held(r)
      BY <2>2, <3>1, <3>2 DEF Queued, Live
    <3>4. PICK u \in Threads : \E f \in CallsOf(u) : f.req = r
      BY <3>3, HeldCalls
    <3>5. PICK f \in CallsOf(u) : f.req = r
      BY <3>4
    <3>6. f \notin CallsOf(u)'
      BY <3>2, <3>5, HeldCalls
    <3>7. stack' # stack /\ u = t /\ f = Top(t) /\ ~Idle(t) /\ Swap(t, new)
      BY <3>6, CallGone
    <3>8. \E g \in new : g.req = r
      BY <1>2, <2>2, <3>3, <3>5, <3>7
    <3> QED BY <3>2, <3>7, <3>8, HeldCalls DEF Swap
  <2> QED BY <1>2, <2>1, <2>2, CareCalls
<1> QED BY <1>1, <1>2 DEF Kept

\* The steps that leave the requests as they are and settle no packet.
LEMMA CareQuiet ==
  ASSUME TypeOK, NEW t \in Threads, NEW new, Moves(t, new), NEW p, RequestsSame,
         \A f \in new : p \in f.pkts => InCare(p),
         \A f \in new, r \in ReqIds :
           f.req = r /\ req[r].status = "detached" => Held(r),
         ~Idle(t) /\ p \in Top(t).pkts =>
           stack' = stack \/ InCare(p)' \/ Settled(p)',
         ~Idle(t) /\ Top(t).req \in ReqIds /\ req[Top(t).req].status = "detached" =>
           stack' = stack \/ \E f \in new : f.req = Top(t).req
  PROVE  Kept(p)
<1>1. \A r \in ReqIds : /\ req'[r].packets = req[r].packets
                        /\ req'[r].status = req[r].status
  BY DEF RequestsSame
<1> QED BY <1>1, CareKept


LEMMA NoStory ==
  ASSUME UNCHANGED history, NEW p, Open(p) => Kept(p) PROVE Outcome(p)
BY DEF Outcome, HistoriesGrow, history

LEMMA CareMoves ==
  ASSUME TypeOK, ServiceInv, NEW t \in Threads, NEW new, Moves(t, new), NEW p,
         RequestsSame,
         ~Idle(t) => Top(t).pkts = {} /\ Top(t).at \notin {"flush", "destroy"},
         \A f \in new : p \in f.pkts => InCare(p),
         \A f \in new, r \in ReqIds :
           f.req = r /\ req[r].status = "detached" => Held(r)
  PROVE  Kept(p)
<1>1. ASSUME ~Idle(t), Top(t).req \in ReqIds PROVE req[Top(t).req].status # "detached"
  <2>1. Top(t).req # NoReq
    BY <1>1 DEF ReqIds, NoReq
  <2> QED BY <1>1, <2>1, TopRequest
<1> QED BY <1>1, CareQuiet

LEMMA QuietOutcomes ==
  ASSUME NoLsuThreads, TypeOK, ServiceInv, NEW p \in Transit, NEW t \in Threads,
         \/ Tick \/ Check(t) \/ Resend(t) \/ AllReported(t) \/ Crash(t)
         \/ t = Sweeper /\ (SweepBegin \/ SweepNext \/ SweepEnd)
  PROVE  Outcome(p)
<1>1. UNCHANGED history
  BY DEF Tick, Check, Resend, AllReported, Crash, SweepBegin, SweepNext, SweepEnd
<1> SUFFICES ASSUME Open(p) PROVE Kept(p)
  BY <1>1, NoStory
<1>a. UNCHANGED req => RequestsSame
  BY DEF RequestsSame
<1>b. ASSUME stack' = stack, RequestsSame PROVE Kept(p)
  BY <1>b, SameStack, CareQuiet
<1>2. CASE Tick
  <2>1. RequestsSame
    BY <1>2 DEF Tick, RequestsSame, TypeOK, Request
  <2> QED BY <1>2, <1>b, <2>1 DEF Tick
<1>3. CASE Crash(t)
  BY <1>3, <1>a, <1>b DEF Crash
<1>4. ASSUME ~Idle(t), Top(t).at \in {"check", "resend", "sweep"}
      PROVE  Top(t).pkts = {} /\ Top(t).at \notin {"flush", "destroy"}
  BY <1>4, TopOk DEF CallOk
<1>5. ASSUME Check(t) PROVE Kept(p)
  <2>0. ~Idle(t) /\ Top(t).at = "check" /\ RequestsSame
    BY <1>5, <1>a DEF Check, At, Top
  <2>1. /\ Top(t).req \in ReqIds /\ Top(t).req \in 0 .. MaxReqs
        /\ Top(t).req # NoReq /\ Held(Top(t).req)
        /\ req[Top(t).req].status \in {"queued", "freed"}
    BY <2>0, TopOk, TopType, TopRequest DEF OnRequest
  <2>2. PICK r \in ReqIds : r = Top(t).req
    BY <2>1
  <2>3. CASE Return(t)
    <3>1. Moves(t, {})
      BY <2>0, <2>3, SwapReturn DEF Moves
    <3> QED BY <1>4, <2>0, <3>1, CareMoves
  <2>4. ASSUME NEW f \in Frames, Goto(t, f), f.req = r, p \in f.pkts => InCare(p)
        PROVE  Kept(p)
    <3>1. Moves(t, {f})
      BY <2>0, <2>4, SwapGoto DEF Moves
    <3> QED BY <1>4, <2>0, <2>1, <2>2, <2>4, <3>1, CareMoves
  <2>5. PICK ps \in SUBSET Packets : ps = req[r].packets
    BY DEF TypeOK, Request
  <2>6. ASSUME p \in ps PROVE InCare(p)
    <3>1. RequestOk(r) /\ p \in Listed(r)
      BY <2>5, <2>6 DEF ServiceInv, Listed
    <3>2. req[r].status = "queued"
      BY <2>1, <2>2, <3>1 DEF RequestOk, Open
    <3> QED BY <2>5, <2>6, <3>2, CareCalls DEF Queued, Live
  <2>7. ASSUME NEW f, f \in {Frame("resend", r, {}), Frame("unreachable", r, ps)},
               Goto(t, f)
        PROVE  Kept(p)
    <3>1. f \in Frames /\ f.req = r /\ f.pkts \in {{}, ps}
      BY <2>1, <2>2, <2>7, FrameType DEF Frame, Calls, OnRequest
    <3> QED BY <2>4, <2>6, <2>7, <3>1
  <2>8. \/ Return(t) \/ Goto(t, Frame("resend", r, {}))
        \/ Goto(t, Frame("unreachable", r, ps))
    BY <1>5, <2>2, <2>5 DEF Check
  <2> QED BY <2>3, <2>7, <2>8
<1>6. ASSUME Resend(t) PROVE Kept(p)
  <2>1. ~Idle(t) /\ Top(t).at = "resend"
    BY <1>6 DEF Resend, At, Top
  <2>2. Moves(t, {})
    BY <1>6, <2>1, SwapReturn DEF Resend, Moves
  <2>3. RequestsSame
    <3>1. PICK r \in ReqIds : r = Top(t).req
      BY <1>6, RequestAtTop DEF Resend, OnRequest
    <3>2. ASSUME NEW took \in 0 .. DueAge, req' = [req EXCEPT ![r] = SentAgain(@, took)]
          PROVE  RequestsSame
      BY <3>2 DEF RequestsSame, TypeOK, Request, SentAgain
    <3> QED BY <1>6, <1>a, <3>1, <3>2 DEF Resend
  <2> QED BY <1>4, <2>1, <2>2, <2>3, CareMoves
<1>7. ASSUME AllReported(t) PROVE Kept(p)
  <2>0. ~Idle(t) /\ Top(t).at = "unreachable" /\ Top(t).pkts = {} /\ RequestsSame
    BY <1>7, <1>a DEF AllReported, At, Top
  <2>1. /\ Top(t).req \in ReqIds /\ Held(Top(t).req) /\ Top(t) \in Frames
        /\ Top(t).req # NoReq
    BY <2>0, TopOk DEF OnRequest
  <2>2. PICK f \in Frames : f.req = Top(t).req /\ f.pkts = {} /\ Goto(t, f)
    <3> DEFINE g == [Top(t) EXCEPT !.at = "destroy"]
    <3>1. g \in Frames /\ g.req = Top(t).req /\ g.pkts = {}
      BY <2>0, <2>1, FrameUpdate DEF Frames, Calls, OnRequest
    <3>2. Goto(t, g)
      BY <1>7 DEF AllReported
    <3> HIDE DEF g
    <3> QED BY <3>1, <3>2
  <2>3. Moves(t, {f})
    BY <2>0, <2>2, SwapGoto DEF Moves
  <2> QED BY <2>0, <2>1, <2>2, <2>3, CareMoves
<1>8. ASSUME NEW n \in 0 .. MaxReqs, NEW m, IsNext(n, m)
      PROVE  /\ SweepFrame(n) \in Frames /\ SweepFrame(n).pkts = {}
             /\ \A r \in ReqIds : SweepFrame(n).req = r => req[r].status = "queued"
  BY <1>8 DEF SweepFrame, Frame, Frames, Calls, OnRequest, IsNext, Queued, ReqIds, NoReq
<1>9. ASSUME SweepBegin, t = Sweeper PROVE Kept(p)
  <2>1. PICK first \in 0 .. MaxReqs :
          /\ IsNext(first, MaxReqs + 1)
          /\ stack' = [stack EXCEPT ![Sweeper] = <<SweepFrame(first)>>]
    BY <1>9 DEF SweepBegin, SweepFrame
  <2>2. Idle(t) /\ stack' = [stack EXCEPT ![t] = <<SweepFrame(first)>>] /\ RequestsSame
    BY <1>9, <1>a, <2>1 DEF SweepBegin
  <2>3. /\ SweepFrame(first) \in Frames /\ SweepFrame(first).pkts = {}
        /\ \A r \in ReqIds : SweepFrame(first).req = r => req[r].status = "queued"
    BY <1>8, <2>1
  <2>4. Moves(t, {SweepFrame(first)})
    BY <2>2, <2>3, SwapStart DEF Moves
  <2> QED BY <2>2, <2>3, <2>4, CareMoves
<1>10. ASSUME SweepNext, t = Sweeper PROVE Kept(p)
  <2>0. /\ ~Idle(t) /\ Top(t).at = "sweep" /\ Top(t).req # NoReq /\ RequestsSame
        /\ Top(t).req \in ReqIds /\ Held(Top(t).req)
    BY <1>10, <1>a, TopOk DEF SweepNext, At, Top
  <2>1. PICK r \in ReqIds : r = Top(t).req
    BY <2>0
  <2>2. PICK n \in 0 .. MaxReqs :
          IsNext(n, r) /\ Call(t, SweepFrame(n), Frame("check", r, {}))
    BY <1>10, <2>1 DEF SweepNext, SweepFrame
  <2>3. /\ SweepFrame(n) \in Frames /\ SweepFrame(n).pkts = {}
        /\ \A q \in ReqIds : SweepFrame(n).req = q => req[q].status = "queued"
    BY <1>8, <2>2
  <2>4. PICK g \in Frames : /\ g.req = r /\ g.pkts = {}
                            /\ Call(t, SweepFrame(n), g)
    <3> DEFINE c == Frame("check", r, {})
    <3>1. c \in Frames /\ c.req = r /\ c.pkts = {}
      BY <2>0, <2>1, FrameType DEF Frame, Calls, OnRequest, ReqIds
    <3>2. Call(t, SweepFrame(n), c)
      BY <2>2
    <3> HIDE DEF c
    <3> QED BY <3>1, <3>2
  <2>5. stack' = stack \/ Moves(t, {SweepFrame(n), g})
    BY <2>0, <2>3, <2>4, SwapCall DEF Moves
  <2>6. \A f \in {SweepFrame(n), g} : f.pkts = {}
    BY <2>3, <2>4
  <2>7. \A f \in {SweepFrame(n), g}, q \in ReqIds :
          f.req = q /\ req[q].status = "detached" => Held(q)
    BY <2>0, <2>1, <2>3, <2>4
  <2> QED BY <1>4, <1>b, <2>0, <2>5, <2>6, <2>7, CareMoves
<1>11. ASSUME SweepEnd, t = Sweeper PROVE Kept(p)
  <2>1. ~Idle(t) /\ Top(t).at = "sweep" /\ RequestsSame
    BY <1>11, <1>a DEF SweepEnd, At, Top
  <2>2. Moves(t, {})
    BY <1>11, <2>1, SwapReturn DEF SweepEnd, Moves
  <2> QED BY <1>4, <2>1, <2>2, CareMoves
<1> QED BY <1>2, <1>3, <1>5, <1>6, <1>7, <1>9, <1>10, <1>11


LEMMA TransmitOutcome ==
  ASSUME NoLsuThreads, TypeOK, ServiceInv, NEW p \in Transit,
         NEW t \in Threads, NEW q \in Packets, Transmit(t, q)
  PROVE  Outcome(p)
<1>1. q \notin arrived /\ Idle(t)
  BY DEF Transmit
<1>2. /\ arrived' = arrived \cup {q} /\ RequestsSame
      /\ sent' = sent /\ reported' = reported /\ asked' = asked
  BY DEF Transmit, RequestsSame
<1>3. PICK f \in Frames : /\ f.req = NoReq /\ f.pkts = {q}
                          /\ stack' = [stack EXCEPT ![t] = <<f>>]
  <2> DEFINE g == Frame("lookup", NoReq, {q})
  <2>1. g \in Frames
    BY LookupFrame
  <2>2. g.req = NoReq /\ g.pkts = {q}
    BY DEF Frame
  <2>3. stack' = [stack EXCEPT ![t] = <<g>>]
    BY DEF Transmit
  <2> HIDE DEF g
  <2> QED BY <2>1, <2>2, <2>3
<1>4. Moves(t, {f}) /\ Swap(t, {f})
  BY <1>1, <1>3, SwapStart DEF Moves
<1>5. InCare(q)'
  <2>1. f \in CallsOf(t)'
    BY <1>4 DEF Swap
  <2> QED BY <1>3, <2>1, CareCalls
<1>6. ASSUME Open(p) PROVE Kept(p)
  <2>1. p # q
    BY <1>1, <1>6 DEF Open
  <2>2. \A r \in ReqIds : f.req # r
    BY <1>3 DEF ReqIds, NoReq
  <2> QED BY <1>1, <1>2, <1>3, <1>4, <2>1, <2>2, CareMoves
<1> QED BY <1>2, <1>5, <1>6 DEF Outcome, HistoriesGrow

LEMMA LookupOutcome ==
  ASSUME NoLsuThreads, TypeOK, ServiceInv, NEW p \in Transit,
         NEW t \in Threads, Lookup(t)
  PROVE  Outcome(p)
<1>0. ~Idle(t) /\ Top(t).at = "lookup" /\ Top(t) \in CallsOf(t) /\ Top(t) \in Frames
  BY TopOk DEF Lookup, At, Top
<1>1. /\ RequestsSame /\ arrived' = arrived /\ reported' = reported /\ asked' = asked
      /\ Top(t).pkts \subseteq arrived
  BY <1>0, TopOk DEF Lookup, RequestsSame, CallOk
<1>2. p \in Top(t).pkts => InCare(p)
  BY <1>0, CareCalls
<1>3. ASSUME Top(t).req \in ReqIds PROVE req[Top(t).req].status # "detached"
  <2>1. Top(t).req # NoReq
    BY <1>3 DEF ReqIds, NoReq
  <2> QED BY <1>0, <2>1, TopRequest
<1>4. CASE sent' = sent \cup Top(t).pkts /\ Return(t)
  <2>1. Moves(t, {})
    BY <1>0, <1>4, SwapReturn DEF Moves
  <2>2. p \in Top(t).pkts => Settled(p)'
    BY <1>4 DEF Settled
  <2>3. Kept(p)
    BY <1>0, <1>1, <1>3, <2>1, <2>2, CareQuiet
  <2> QED BY <1>1, <1>2, <1>4, <2>3 DEF Outcome, HistoriesGrow
<1>5. CASE Goto(t, [Top(t) EXCEPT !.at = "enqueue"]) /\ UNCHANGED sent
  <2>1. PICK f \in Frames :
          f.req = Top(t).req /\ f.pkts = Top(t).pkts /\ Goto(t, f)
    <3> DEFINE g == [Top(t) EXCEPT !.at = "enqueue"]
    <3>1. g \in Frames /\ g.req = Top(t).req /\ g.pkts = Top(t).pkts
      BY <1>0, FrameUpdate DEF Frames, Calls, OnRequest
    <3>2. Goto(t, g)
      BY <1>5
    <3> HIDE DEF g
    <3> QED BY <3>1, <3>2
  <2>2. Moves(t, {f}) /\ f \in CallsOf(t)'
    BY <1>0, <2>1, SwapGoto DEF Moves, Swap
  <2>3. p \in Top(t).pkts => InCare(p)'
    BY <2>1, <2>2, CareCalls
  <2>4. Kept(p)
    BY <1>0, <1>1, <1>2, <1>3, <2>1, <2>2, <2>3, CareQuiet
  <2> QED BY <1>1, <1>5, <2>4 DEF Outcome, HistoriesGrow
<1> QED BY <1>4, <1>5 DEF Lookup

LEMMA EnqueueOutcome ==
  ASSUME NoLsuThreads, TypeOK, ServiceInv, NEW p \in Transit,
         NEW t \in Threads, Enqueue(t)
  PROVE  Outcome(p)
<1>0. ~Idle(t) /\ Top(t).at = "enqueue" /\ Top(t) \in CallsOf(t)
  BY TopOk DEF Enqueue, At, Top
<1>1. PICK q \in Top(t).pkts, r \in ReqIds :
        /\ QueueReq(t, NextHop[q], r)
        /\ req' = [req EXCEPT ![r] = WithPacket(@, q)]
        /\ Goto(t, Frame("check", r, {}))
  BY DEF Enqueue
<1>2. Top(t).pkts = {q} /\ (p \in Top(t).pkts => InCare(p))
  BY <1>0, TopOk, CareCalls DEF CallOk
<1>3. /\ \A s \in ReqIds \ {r} : req'[s] = req[s]
      /\ req'[r].status = "queued" /\ req'[r].packets = req[r].packets \cup {q}
  BY <1>1 DEF WithPacket, TypeOK, Request
<1>4. req[r].status \in {"queued", "unused"}
  BY <1>1 DEF QueueReq, Queued, NewReqs
<1>5. UNCHANGED history
  BY DEF Enqueue
<1>6. PICK f \in Frames : f.req = r /\ f.pkts = {} /\ Goto(t, f)
  <2> DEFINE g == Frame("check", r, {})
  <2>1. g \in Frames /\ g.req = r /\ g.pkts = {}
    BY FrameType DEF Frame, Frames, Calls, OnRequest, ReqIds, NoReq
  <2>2. Goto(t, g)
    BY <1>1
  <2> HIDE DEF g
  <2> QED BY <2>1, <2>2
<1>7. Moves(t, {f})
  BY <1>0, <1>6, SwapGoto DEF Moves
<1>8. ASSUME Top(t).req \in ReqIds PROVE req[Top(t).req].status # "detached"
  <2>1. Top(t).req # NoReq
    BY <1>8 DEF ReqIds, NoReq
  <2> QED BY <1>0, <2>1, TopRequest
<1>9. ASSUME p = q PROVE InCare(p)'
  <2>1. Live(r)' /\ r \in Queued' /\ p \in req'[r].packets
    BY <1>3, <1>9 DEF Live, Queued
  <2> QED BY <2>1, CareCalls
<1>10. ASSUME NEW s \in ReqIds, p \in req'[s].packets
       PROVE  InCare(p) \/ (p \in req[s].packets /\ req[s].status = req'[s].status)
  <2>1. CASE s # r
    BY <1>3, <1>10, <2>1
  <2>2. CASE p = q
    BY <1>2, <2>2
  <2>3. ASSUME s = r, p # q PROVE p \in req[s].packets /\ req[s].status = req'[s].status
    <3>1. p \in req[r].packets /\ p \in Listed(r)
      BY <1>3, <1>10, <2>3 DEF Listed
    <3>2. req[r].status # "unused"
      BY <3>1 DEF ServiceInv, RequestOk
    <3> QED BY <1>3, <1>4, <2>3, <3>1, <3>2
  <2> QED BY <2>1, <2>2, <2>3
<1>11. ASSUME NEW s \in ReqIds, Live(s), p \in req[s].packets
       PROVE  p \in req'[s].packets /\ req'[s].status = req[s].status
  BY <1>3, <1>4, <1>11 DEF Live
<1>12. Kept(p)
  BY <1>2, <1>4, <1>6, <1>7, <1>8, <1>9, <1>10, <1>11, CareKept
<1> QED BY <1>5, <1>12, NoStory

LEMMA DestroyOutcome ==
  ASSUME NoLsuThreads, TypeOK, ServiceInv, NEW p \in Transit,
         NEW t \in Threads, Destroy(t)
  PROVE  Outcome(p)
<1>0. ~Idle(t) /\ Top(t).at = "destroy"
  BY DEF Destroy, At, Top
<1>1. CallOk(t, Top(t)) /\ Top(t).req \in ReqIds /\ Top(t).pkts = {}
  BY <1>0, TopOk DEF OnRequest, CallOk
<1>2. PICK r \in ReqIds : r = Top(t).req
  BY <1>1
<1>3. UNCHANGED history /\ Return(t) /\ req' = [req EXCEPT ![r].status = "freed"]
  BY <1>2 DEF Destroy
<1>4. /\ \A q \in ReqIds \ {r} : req'[q] = req[q]
      /\ req'[r].status = "freed"
  BY <1>3 DEF TypeOK, Request
<1>5. Moves(t, {})
  BY <1>0, <1>3, SwapReturn DEF Moves
<1>6. p \in req[r].packets => Settled(p)'
  <2>1. Listed(r) \subseteq sent \cup reported
    BY <1>0, <1>1, <1>2 DEF CallOk, Serving
  <2> QED BY <1>3, <2>1 DEF Listed, Settled, history
<1>7. ASSUME NEW s \in ReqIds, Live(s)' PROVE req'[s] = req[s]
  BY <1>4, <1>7 DEF Live
<1>8. ASSUME NEW s \in ReqIds, p \in req[s].packets
      PROVE  Settled(p)' \/ req'[s] = req[s]
  BY <1>4, <1>6, <1>8
<1>9. Kept(p)
  BY <1>1, <1>2, <1>5, <1>6, <1>7, <1>8, CareKept
<1> QED BY <1>3, <1>9, NoStory


LEMMA UnreachableOutcome ==
  ASSUME NoLsuThreads, TypeOK, ServiceInv, NEW p \in Transit,
         NEW t \in Threads, Unreachable(t)
  PROVE  Outcome(p)
<1>0. /\ ~Idle(t) /\ Top(t).at = "unreachable" /\ Top(t) \in CallsOf(t)
      /\ Top(t) \in Frames /\ Top(t).req \in ReqIds /\ Held(Top(t).req)
      /\ Top(t).pkts \subseteq arrived /\ Top(t).pkts \subseteq Packets
  BY TopOk, TopType DEF Unreachable, At, Top, CallOk, OnRequest
<1>1. PICK r \in ReqIds : r = Top(t).req
  BY <1>0
<1>2. PICK q \in Packets :
        /\ q \in Top(t).pkts /\ reported' = reported \cup {q}
        /\ \/ Goto(t, [Top(t) EXCEPT !.pkts = @ \ {q}]) /\ UNCHANGED <<up, arrived>>
           \/ /\ IcmpError[q] # NoPacket
              /\ arrived' = arrived \cup {IcmpError[q]}
              /\ Call(t, [Top(t) EXCEPT !.pkts = @ \ {q}],
                         Frame("lookup", NoReq, {IcmpError[q]}))
  BY <1>0 DEF Unreachable
<1>3. RequestsSame /\ sent' = sent /\ asked' = asked
  BY DEF Unreachable, RequestsSame
<1>4. PICK rest \in Frames :
        /\ rest.req = r /\ rest.pkts = Top(t).pkts \ {q}
        /\ rest = [Top(t) EXCEPT !.pkts = @ \ {q}]
  <2> DEFINE g == [Top(t) EXCEPT !.pkts = @ \ {q}]
  <2>1. g \in Frames /\ g.req = r /\ g.pkts = Top(t).pkts \ {q}
    BY <1>0, <1>1 DEF Frames
  <2> QED BY <2>1
<1>5. PICK new \in SUBSET Frames :
        /\ Moves(t, new) /\ (stack' = stack \/ rest \in new)
        /\ \A f \in new : f.req \in {r, NoReq} /\ f.pkts \cap Transit \subseteq Top(t).pkts
        /\ arrived \subseteq arrived' /\ arrived' \cap Transit \subseteq arrived
  <2>1. CASE Goto(t, rest) /\ UNCHANGED <<up, arrived>>
    <3>1. Moves(t, {rest}) /\ {rest} \in SUBSET Frames
      BY <1>0, <2>1, SwapGoto DEF Moves
    <3>2. \A f \in {rest} : f.req \in {r, NoReq} /\ f.pkts \cap Transit \subseteq Top(t).pkts
      BY <1>4
    <3>3. arrived \subseteq arrived' /\ arrived' \cap Transit \subseteq arrived
      BY <2>1
    <3> QED BY <3>1, <3>2, <3>3
  <2>2. ASSUME IcmpError[q] # NoPacket, arrived' = arrived \cup {IcmpError[q]},
               Call(t, rest, Frame("lookup", NoReq, {IcmpError[q]}))
        PROVE  \E new \in SUBSET Frames :
                 /\ Moves(t, new) /\ (stack' = stack \/ rest \in new)
                 /\ \A f \in new :
                      f.req \in {r, NoReq} /\ f.pkts \cap Transit \subseteq Top(t).pkts
                 /\ arrived \subseteq arrived' /\ arrived' \cap Transit \subseteq arrived
    <3>1. PICK e \in Packets : e = IcmpError[q] /\ e \notin Transit
      BY <2>2, PacketsAssumption DEF Packets, NoLsuThreads
    <3>2. PICK g \in Frames : g.req = NoReq /\ g.pkts = {e} /\ Call(t, rest, g)
      <4> DEFINE l == Frame("lookup", NoReq, {e})
      <4>1. l \in Frames
        BY LookupFrame
      <4>2. l.req = NoReq /\ l.pkts = {e}
        BY DEF Frame
      <4>3. Call(t, rest, l)
        BY <2>2, <3>1
      <4> HIDE DEF l
      <4> QED BY <4>1, <4>2, <4>3
    <3>3. arrived \subseteq arrived' /\ arrived' \cap Transit \subseteq arrived
      BY <2>2, <3>1
    <3>4. CASE stack' = stack
      <4>1. Moves(t, {})
        BY <3>4, SameStack
      <4> QED BY <3>3, <3>4, <4>1
    <3>5. CASE Swap(t, {rest, g})
      <4>1. Moves(t, {rest, g}) /\ {rest, g} \in SUBSET Frames
        BY <3>5 DEF Moves
      <4>2. \A f \in {rest, g} :
              f.req \in {r, NoReq} /\ f.pkts \cap Transit \subseteq Top(t).pkts
        BY <1>4, <3>1, <3>2
      <4> QED BY <3>3, <4>1, <4>2
    <3> QED BY <1>0, <3>2, <3>4, <3>5, SwapCall
  <2> QED BY <1>2, <1>4, <2>1, <2>2
<1>6. p \in Top(t).pkts => InCare(p)
  BY <1>0, CareCalls
<1>7. p \in Top(t).pkts => stack' = stack \/ InCare(p)' \/ Settled(p)'
  <2>1. CASE p = q
    BY <1>2, <2>1 DEF Settled
  <2>2. ASSUME p # q, p \in Top(t).pkts, stack' # stack PROVE InCare(p)'
    <3>1. rest \in CallsOf(t)' /\ p \in rest.pkts
      BY <1>4, <1>5, <2>2 DEF Moves, Swap
    <3> QED BY <3>1, CareCalls
  <2> QED BY <2>1, <2>2
<1>8. ASSUME req[Top(t).req].status = "detached" PROVE FALSE
  <2>1. Top(t).req # NoReq
    BY <1>0 DEF ReqIds, NoReq
  <2> QED BY <1>0, <1>8, <2>1, TopRequest
<1>9. Kept(p)
  <2>1. \A f \in new : p \in f.pkts => InCare(p)
    BY <1>5, <1>6
  <2>2. \A f \in new, s \in ReqIds :
          f.req = s /\ req[s].status = "detached" => Held(s)
    BY <1>0, <1>1, <1>5 DEF ReqIds, NoReq
  <2> QED BY <1>3, <1>5, <1>7, <1>8, <2>1, <2>2, CareQuiet
<1>10. p \in arrived' => p \in arrived
  BY <1>5
<1>11. p \in (sent \cup reported)' \ (sent \cup reported) => p \in arrived /\ InCare(p)
  BY <1>0, <1>2, <1>3, <1>6
<1> QED BY <1>2, <1>3, <1>5, <1>9, <1>10, <1>11 DEF Outcome, HistoriesGrow

(***************************************************************************)
(* An ARP reply or an ARP request takes the hop's request off the queue:   *)
(* the reply goes on to serve it, the request drops it.                    *)
(***************************************************************************)
LEMMA DetachOutcome ==
  ASSUME NoLsuThreads, TypeOK, ServiceInv, OneRequestPerHop, NEW p \in Transit,
         Idle(Main), NEW hop \in Hops, Detach(hop),
         UNCHANGED <<arrived, sent, reported>>, asked \subseteq asked',
         \/ stack' = stack
            /\ ((\A r \in Queued : req[r].ip # hop) \/ hop \in asked')
         \/ \E r \in Queued :
              /\ req[r].ip = hop
              /\ stack' = [stack EXCEPT ![Main] = <<Frame("flush", r, {})>>]
  PROVE  Outcome(p)
<1>0. Main \in Threads
  BY DEF Threads
<1>1. ASSUME NEW q \in ReqIds
      PROVE  /\ req'[q].packets = req[q].packets
             /\ \/ req'[q].status = req[q].status
                \/ /\ req[q].status = "queued" /\ req[q].ip = hop
                   /\ req'[q].status = "detached"
  BY DEF Detach, Queued, TypeOK, Request
<1>2. ASSUME NEW q \in ReqIds, req[q].status = "queued", p \in req[q].packets
      PROVE  InCare(p) /\ NextHop[p] = req[q].ip
  <2>1. p \in Listed(q)
    BY <1>2 DEF Listed
  <2> QED BY <1>2, <2>1, CareCalls DEF Live, Queued, ServiceInv, RequestOk
<1>3. PICK new \in SUBSET Frames :
        /\ Moves(Main, new)
        /\ \A f \in new : f.pkts = {} /\ f.req \in Queued
        /\ \/ \A r \in Queued : req[r].ip # hop
           \/ hop \in asked'
           \/ \E f \in new : req[f.req].ip = hop
  <2>1. CASE stack' = stack /\ ((\A r \in Queued : req[r].ip # hop) \/ hop \in asked')
    <3>1. Moves(Main, {})
      BY <1>0, <2>1, SameStack
    <3> QED BY <2>1, <3>1
  <2>2. ASSUME NEW r \in Queued, req[r].ip = hop,
               stack' = [stack EXCEPT ![Main] = <<Frame("flush", r, {})>>]
        PROVE  \E new \in SUBSET Frames :
                 /\ Moves(Main, new)
                 /\ \A f \in new : f.pkts = {} /\ f.req \in Queued
                 /\ \E f \in new : req[f.req].ip = hop
    <3> DEFINE f == Frame("flush", r, {})
    <3>1. f \in Frames /\ f.req = r /\ f.pkts = {}
      BY FrameType DEF Frame, Frames, Calls, OnRequest, ReqIds, NoReq, Queued
    <3>2. stack' = [stack EXCEPT ![Main] = <<f>>]
      BY <2>2
    <3> HIDE DEF f
    <3>3. Moves(Main, {f}) /\ {f} \in SUBSET Frames
      BY <1>0, <3>1, <3>2, SwapStart DEF Moves
    <3> QED BY <2>2, <3>1, <3>3
  <2> QED BY <2>1, <2>2
<1>4. ASSUME NEW q \in ReqIds, Live(q), p \in req[q].packets
      PROVE  \/ InCare(p)' \/ Settled(p)'
             \/ p \in req'[q].packets /\ req'[q].status = req[q].status
  <2>1. CASE req'[q].status = req[q].status
    BY <1>1, <1>4, <2>1
  <2>2. ASSUME req[q].status = "queued", req[q].ip = hop, req'[q].status = "detached"
        PROVE  InCare(p)' \/ Settled(p)'
    <3>1. NextHop[p] = hop /\ q \in Queued
      BY <1>2, <1>4, <2>2 DEF Queued
    <3>2. CASE hop \in asked'
      BY <3>1, <3>2 DEF Settled
    <3>3. ASSUME NEW f \in new, req[f.req].ip = hop PROVE InCare(p)'
      <4>1. f.req = q
        BY <1>3, <2>2, <3>1, <3>3 DEF OneRequestPerHop
      <4>2. Held(q)'
        BY <1>0, <1>3, <4>1, HeldCalls DEF Moves, Swap
      <4> QED BY <1>1, <1>4, <2>2, <4>2, CareCalls DEF Live
    <3> QED BY <1>3, <2>2, <3>1, <3>2, <3>3
  <2> QED BY <1>1, <2>1, <2>2
<1>5. ASSUME NEW q \in ReqIds, p \in req'[q].packets
      PROVE  InCare(p) \/ (p \in req[q].packets /\ req[q].status = req'[q].status)
  BY <1>1, <1>2, <1>5
<1>6. \A f \in new, q \in ReqIds : f.req = q => req[q].status # "detached"
  BY <1>3 DEF Queued
<1>7. Kept(p)
  BY <1>0, <1>3, <1>4, <1>5, <1>6, CareKept
<1> QED BY <1>7 DEF Outcome, HistoriesGrow

LEMMA FlushOutcome ==
  ASSUME NoLsuThreads, TypeOK, ServiceInv, NEW p \in Transit, Flush
  PROVE  Outcome(p)
<1>0. Main \in Threads /\ ~Idle(Main) /\ Top(Main).at = "flush"
  BY DEF Flush, At, Top, Threads
<1>1. /\ CallOk(Main, Top(Main)) /\ Top(Main) \in Frames
      /\ Top(Main).req \in ReqIds /\ Held(Top(Main).req)
  BY <1>0, TopOk DEF OnRequest
<1>2. PICK r \in ReqIds : r = Top(Main).req
  BY <1>1
<1>3. req[r].status = "detached" /\ Top(Main).pkts = {}
  BY <1>0, <1>1, <1>2 DEF CallOk, Serving
<1>4. /\ RequestsSame /\ arrived' = arrived /\ reported' = reported
      /\ asked' = asked /\ sent' = sent \cup req[r].packets
  BY <1>2, <1>3 DEF Flush, Live, RequestsSame
<1>5. PICK f \in Frames : f.req = r /\ f.pkts = {} /\ Goto(Main, f)
  <2> DEFINE g == [Top(Main) EXCEPT !.at = "destroy"]
  <2>1. g \in Frames /\ g.req = r /\ g.pkts = {}
    BY <1>0, <1>1, <1>2, <1>3, FrameUpdate DEF Frames, Calls, OnRequest
  <2>2. Goto(Main, g)
    BY DEF Flush
  <2> HIDE DEF g
  <2> QED BY <2>1, <2>2
<1>6. Moves(Main, {f})
  BY <1>0, <1>5, SwapGoto DEF Moves
<1>7. Kept(p)
  BY <1>0, <1>1, <1>2, <1>3, <1>4, <1>5, <1>6, CareQuiet
<1>8. p \in req[r].packets => p \in arrived /\ InCare(p)
  BY <1>1, <1>2, <1>3, CareCalls DEF Live, ServiceInv, RequestOk
<1> QED BY <1>4, <1>7, <1>8 DEF Outcome, HistoriesGrow


LEMMA StepOutcome ==
  ASSUME NoLsuThreads, TypeOK, ServiceInv, OneRequestPerHop, NEW p \in Transit, Next
  PROVE  Outcome(p)
<1>0. Main \in Threads /\ Sweeper \in Threads
  BY DEF Threads
<1>1. ASSUME NEW t \in Threads, ThreadStep(t) PROVE Outcome(p)
  BY <1>1, LookupOutcome, EnqueueOutcome, UnreachableOutcome, DestroyOutcome,
     QuietOutcomes DEF ThreadStep
<1>2. CASE Flush
  BY <1>2, FlushOutcome
<1>3. CASE SweepBegin \/ SweepNext \/ SweepEnd \/ Tick
  BY <1>0, <1>3, QuietOutcomes
<1>4. ASSUME NEW t \in Threads, NEW q \in Packets, Transmit(t, q) PROVE Outcome(p)
  BY <1>4, TransmitOutcome
<1>5. ASSUME NEW h \in Hops, NEW mine \in BOOLEAN, ArpReply(h, mine) PROVE Outcome(p)
  <2>1. /\ Idle(Main) /\ Detach(h) /\ UNCHANGED <<arrived, sent, reported>>
        /\ asked \subseteq asked'
    BY <1>5 DEF ArpReply, history
  <2>2. \/ stack' = stack /\ \A r \in Queued : req[r].ip # h
        \/ \E r \in Queued :
             /\ req[r].ip = h
             /\ stack' = [stack EXCEPT ![Main] = <<Frame("flush", r, {})>>]
    BY <1>5 DEF ArpReply
  <2> QED BY <2>1, <2>2, DetachOutcome
<1>6. ASSUME NEW h \in Hops, ArpRequest(h) PROVE Outcome(p)
  <2>1. /\ Idle(Main) /\ Detach(h) /\ UNCHANGED <<arrived, sent, reported>>
        /\ asked \subseteq asked' /\ stack' = stack /\ h \in asked'
    BY <1>6 DEF ArpRequest
  <2> QED BY <2>1, DetachOutcome
<1>7. CASE Receive
  BY <1>4, <1>5, <1>6, <1>7 DEF Receive
<1>8. CASE MainStep \/ SweeperStep \/ WorkerStep
  BY <1>0, <1>1, <1>2, <1>3, <1>8 DEF MainStep, SweeperStep, WorkerStep, Threads
<1> QED BY <1>3, <1>7, <1>8 DEF Next

LEMMA StepAlive == Next => up /\ asked \subseteq asked'
<1>1. ASSUME NEW t, ThreadStep(t) PROVE up /\ asked' = asked
  BY <1>1 DEF ThreadStep, Lookup, Enqueue, Check, Resend, Unreachable, AllReported,
              Destroy, Crash, history
<1>2. ASSUME NEW t, NEW p, Transmit(t, p) PROVE up /\ asked' = asked
  BY <1>2 DEF Transmit
<1>3. CASE Flush \/ SweepBegin \/ SweepNext \/ SweepEnd \/ Tick
  BY <1>3 DEF Flush, SweepBegin, SweepNext, SweepEnd, Tick, history
<1>4. CASE \/ \E h \in Hops, mine \in BOOLEAN : ArpReply(h, mine)
           \/ \E h \in Hops : ArpRequest(h)
  BY <1>4 DEF ArpReply, ArpRequest, history
<1> QED BY <1>1, <1>2, <1>3, <1>4 DEF Next, MainStep, SweeperStep, WorkerStep, Receive

\* The fate of a packet that has at most one outcome.
LEMMA FateCases ==
  ASSUME NEW p \in Offered
  PROVE  /\ p \in sent \ reported => Fate[p] = "sent"
         /\ p \in reported \ sent => Fate[p] = "reported"
         /\ Open(p) /\ InCare(p) => Fate[p] = "accepted"
         /\ Open(p) /\ ~InCare(p) => Fate[p] = "discarded"
         /\ p \notin arrived \cup sent \cup reported => Fate[p] = "idle"
BY DEF Fate, Open

LEMMA FateCasesNext ==
  ASSUME NEW p \in Offered
  PROVE  /\ p \in sent' \ reported' => Fate'[p] = "sent"
         /\ p \in reported' \ sent' => Fate'[p] = "reported"
         /\ Open(p)' /\ InCare(p)' => Fate'[p] = "accepted"
         /\ Open(p)' /\ ~InCare(p)' => Fate'[p] = "discarded"
         /\ p \notin arrived' \cup sent' \cup reported' => Fate'[p] = "idle"
BY DEF Fate, Open

LEMMA OneOutcome ==
  ASSUME NoLsuThreads, ServiceInv, NEW p \in Offered
  PROVE  /\ p \notin sent \cap reported
         /\ p \in sent \cup reported => p \in arrived
         /\ p \in Lsus => p \notin arrived
BY DEF ServiceInv, HistoryOk, Offered

LEMMA OneOutcomeNext ==
  ASSUME NoLsuThreads, ServiceInv', NEW p \in Offered
  PROVE  /\ p \notin sent' \cap reported'
         /\ p \in sent' \cup reported' => p \in arrived'
         /\ p \in Lsus => p \notin arrived'
BY DEF ServiceInv, HistoryOk, Offered

LEMMA Advances ==
  ASSUME NoLsuThreads, TypeOK, ServiceInv, ServiceInv', OneRequestPerHop,
         NEW p \in Offered, Next
  PROVE  Service!Advance(p) /\ Fate'[p] \in Service!Fates
<1>1. CASE p \in Lsus
  <2>1. Fate[p] = "idle" /\ Fate'[p] = "idle"
    BY <1>1, OneOutcome, OneOutcomeNext, FateCases, FateCasesNext
  <2> QED BY <2>1 DEF Service!Advance, Service!Fates
<1>2. CASE p \in Transit
  <2>1. /\ HistoriesGrow /\ asked \subseteq asked'
        /\ p \in sent' \cup reported' => p \in sent \cup reported \/ (Open(p) /\ InCare(p))
        /\ p \in arrived' => p \in arrived \/ InCare(p)'
        /\ Open(p) /\ InCare(p)' => InCare(p)
        /\ Open(p) /\ InCare(p) =>
             \/ InCare(p)' \/ p \in sent' \cup reported'
             \/ NextHop[p] \in asked'
    <3>1. Outcome(p)
      BY <1>2, StepOutcome
    <3> QED BY <3>1 DEF Outcome, Kept, Settled, Open
  <2>2. CASE p \in sent
    <3>1. p \in sent \ reported /\ p \in sent' \ reported'
      BY <2>1, <2>2, OneOutcome, OneOutcomeNext DEF HistoriesGrow
    <3>2. Fate[p] = "sent" /\ Fate'[p] = "sent"
      BY <3>1, FateCases, FateCasesNext
    <3> QED BY <3>2 DEF Service!Advance, Service!Fates, Service!Outcomes
  <2>3. CASE p \in reported
    <3>1. p \in reported \ sent /\ p \in reported' \ sent'
      BY <2>1, <2>3, OneOutcome, OneOutcomeNext DEF HistoriesGrow
    <3>2. Fate[p] = "reported" /\ Fate'[p] = "reported"
      BY <3>1, FateCases, FateCasesNext
    <3> QED BY <3>2 DEF Service!Advance, Service!Fates, Service!Outcomes
  <2>4. ASSUME p \notin arrived, p \notin sent \cup reported
        PROVE  Service!Advance(p) /\ Fate'[p] \in Service!Fates
    <3>1. Fate[p] = "idle"
      BY <2>4, FateCases
    <3>2. p \notin sent' \cup reported'
      BY <2>1, <2>4 DEF Open
    <3>3. Fate'[p] \in {"idle", "accepted"}
      BY <2>1, <2>4, <3>2, FateCasesNext DEF Open
    <3> QED BY <3>1, <3>3 DEF Service!Advance, Service!Fates
  <2>5. ASSUME Open(p), InCare(p)
        PROVE  Service!Advance(p) /\ Fate'[p] \in Service!Fates
    <3>1. Fate[p] = "accepted"
      BY <2>5, FateCases
    <3>2. CASE p \in sent' \cup reported'
      <4>1. Fate'[p] \in {"sent", "reported"}
        BY <3>2, OneOutcomeNext, FateCasesNext
      <4> QED BY <3>1, <4>1 DEF Service!Advance, Service!Fates, Service!Outcomes
    <3>3. ASSUME p \notin sent' \cup reported'
          PROVE  Service!Advance(p) /\ Fate'[p] \in Service!Fates
      <4>1. Open(p)'
        BY <2>1, <2>5, <3>3 DEF Open, HistoriesGrow
      <4>2. CASE InCare(p)'
        <5>1. Fate'[p] = "accepted"
          BY <4>1, <4>2, FateCasesNext
        <5> QED BY <3>1, <5>1 DEF Service!Advance, Service!Fates
      <4>3. ASSUME ~InCare(p)'
            PROVE  Service!Advance(p) /\ Fate'[p] \in Service!Fates
        <5>1. Fate'[p] = "discarded"
          BY <4>1, <4>3, FateCasesNext
        <5>2. NextHop[p] \in asked'
          BY <2>1, <2>5, <3>3, <4>3
        <5> QED BY <3>1, <5>1, <5>2 DEF Service!Advance, Service!Fates, Service!Outcomes
      <4> QED BY <4>2, <4>3
    <3> QED BY <3>2, <3>3
  <2>6. ASSUME Open(p), ~InCare(p)
        PROVE  Service!Advance(p) /\ Fate'[p] \in Service!Fates
    <3>1. Fate[p] = "discarded"
      BY <2>6, FateCases
    <3>2. Open(p)' /\ ~InCare(p)'
      BY <2>1, <2>6 DEF Open, HistoriesGrow
    <3>3. Fate'[p] = "discarded"
      BY <3>2, FateCasesNext
    <3> QED BY <3>1, <3>3 DEF Service!Advance, Service!Fates, Service!Outcomes
  <2> QED BY <2>2, <2>3, <2>4, <2>5, <2>6 DEF Open
<1> QED BY <1>1, <1>2 DEF Offered

(***************************************************************************)
(* Each packet the ARP layer accepts has one outcome, for good, and only a *)
(* packet whose hop has asked for the router's address is dropped.         *)
(***************************************************************************)
ServiceSafety == Service!Init /\ [][Service!Next]_(Service!vars)

THEOREM SafeService == ASSUME NoLsuThreads PROVE Spec => ServiceSafety
<1>1. NoLsuThreads
  OBVIOUS
<1>2. Init => Service!Init
  <2> SUFFICES ASSUME Init PROVE Service!Init
    OBVIOUS
  <2>1. \A p \in Offered : Fate[p] = "idle"
    BY FateCases DEF Init
  <2>2. Fate = [p \in Offered |-> "idle"]
    BY <2>1 DEF Fate
  <2> QED BY <2>2 DEF Service!Init, Init
<1>3. TypeOK /\ TypeOK' /\ ServiceInv /\ ServiceInv' /\ OneRequestPerHop /\ [Next]_vars
        => [Service!Next]_(Service!vars)
  <2> SUFFICES ASSUME TypeOK, TypeOK', ServiceInv, ServiceInv', OneRequestPerHop,
                      [Next]_vars
               PROVE  [Service!Next]_(Service!vars)
    OBVIOUS
  <2>1. CASE UNCHANGED vars
    <3>1. stack' = stack /\ UNCHANGED <<req, arrived, sent, reported, asked, up>>
      BY <2>1 DEF vars
    <3>2. \A p : InCare(p)' <=> InCare(p)
      BY <3>1 DEF InCare, Live, Queued, Held
    <3>3. Fate' = Fate
      BY <3>1, <3>2 DEF Fate
    <3> QED BY <3>1, <3>3 DEF Service!vars
  <2>2. ASSUME Next PROVE Service!Next
    <3>1. \A p \in Offered : Service!Advance(p) /\ Fate'[p] \in Service!Fates
      BY <1>1, <2>2, Advances
    <3>2. Fate' \in [Offered -> Service!Fates]
      BY <3>1 DEF Fate
    <3>3. up /\ asked \subseteq asked'
      BY <2>2, StepAlive
    <3>4. up' \in BOOLEAN /\ asked' \subseteq Hops
      BY DEF TypeOK
    <3> QED BY <3>1, <3>2, <3>3, <3>4 DEF Service!Next
  <2> QED BY <2>1, <2>2
<1>4. Spec => []OneRequestPerHop
  BY OneRequest
<1> QED BY <1>2, <1>3, <1>4, ServiceCorrect, TypeCorrect, PTL DEF Spec, ServiceSafety
=============================================================================
