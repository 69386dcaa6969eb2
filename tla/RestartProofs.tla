--------------------------- MODULE RestartProofs ----------------------------
(***************************************************************************)
(* Theorems of the two modules in which routers are killed and started     *)
(* again: of RouterStart for any interfaces, number of restarts and content*)
(* of fresh memory, and of LsuFlooding for any network of rings.  The two  *)
(* have no name in common.                                                 *)
(***************************************************************************)
EXTENDS RouterStart, LsuFlooding, TLAPS, SequenceTheorems, FiniteSetTheorems


(***************************************************************************)
(* Before sr_init the router has nothing but its connection, and before    *)
(* pwospf_run_thread wakes no id and no routes.                            *)
(***************************************************************************)
Early == {"down", "aborted", "authRequest", "authStatus", "init"}

NothingYet ==
  /\ main \in Early => run = NotStarted /\ ifs = <<>>
  /\ run.at \in {"none", "asleep"} => id = 0 /\ routes = {} /\ whole = FALSE

(***************************************************************************)
(* The interface sr_handle_hwinfo is at has no mask yet.                   *)
(***************************************************************************)
HalfMade ==
  main \in {"end", "ip", "mask"} =>
    ifs # <<>> /\ ifs[Len(ifs)].masked = FALSE

(***************************************************************************)
(* The session: while the router authenticates, one of the two ends has    *)
(* exactly one message to read, the one that is due, and the listener does *)
(* not know its connection yet.                                            *)
(***************************************************************************)
Due(sent, answer) ==
  /\ ~lost /\ client # conn /\ opening # conn
  /\ \/ toServer[conn] = <<sent>> /\ toRouter = <<>>
     \/ toServer[conn] = <<>> /\ toRouter = <<Msg(answer)>>

InTurn ==
  /\ Alive => conn \in Conns
  /\ ~Alive => toRouter = <<>>
  /\ client <= conn /\ opening <= conn
  /\ \A c \in Conns : c > conn => toServer[c] = <<>>
  /\ main = "authRequest" => Due("connect", "authRequest")
  /\ main = "authStatus" => Due("authReply", "authStatus")

(***************************************************************************)
(* Interfaces that were complete stay as they are, and the two walks of    *)
(* pwospf_run_thread over them have dealt with those before its position.  *)
(***************************************************************************)
Walked ==
  whole =>
    /\ AllSet
    /\ run.at = "id" =>
         /\ id \in Ifaces \cup {0} /\ routes = {}
         /\ \A k \in DOMAIN ifs : k < run.pos => ifs[k].name <= id
    /\ run.at \in {"routes", "done"} => id \in Ifaces /\ \A i \in Ifaces : i <= id
    /\ run.at = "routes" =>
         /\ routes \subseteq Ifaces
         /\ \A k \in DOMAIN ifs : k < run.pos => ifs[k].name \in routes
    /\ run.at = "done" => routes = Ifaces

IInv == TypeOK /\ NothingYet /\ HalfMade /\ InTurn /\ Walked

-----------------------------------------------------------------------------
(***************************************************************************)
(* Interfaces: a new one at the end of the list, and a change of the last. *)
(***************************************************************************)
Face == [name : Ifaces, ip : Ifaces \cup Junk, masked : BOOLEAN, ended : BOOLEAN]

LEMMA Fields ==
  ASSUME NEW f \in Face
  PROVE  /\ [f EXCEPT !.ended = TRUE] \in Face
         /\ [f EXCEPT !.ended = TRUE].masked = f.masked
         /\ [f EXCEPT !.ip = f.name] \in Face
         /\ [f EXCEPT !.ip = f.name].masked = f.masked
         /\ [f EXCEPT !.masked = TRUE] \in Face
<1> DEFINE N == Ifaces
           P == Ifaces \cup Junk
           B == BOOLEAN
           F == [name : N, ip : P, masked : B, ended : B]
<1>1. f \in F /\ f.name \in P /\ TRUE \in B
  BY DEF Face
<1> HIDE DEF N, P, B
<1>2. /\ [f EXCEPT !.ended = TRUE] \in F
      /\ [f EXCEPT !.ended = TRUE].masked = f.masked
      /\ [f EXCEPT !.ip = f.name] \in F
      /\ [f EXCEPT !.ip = f.name].masked = f.masked
      /\ [f EXCEPT !.masked = TRUE] \in F
  BY <1>1
<1> QED BY <1>2 DEF N, P, B, Face

LEMMA LastOne ==
  ASSUME NEW l \in Seq(Face), l # <<>>
  PROVE  /\ Len(l) \in 1 .. Len(l) /\ l[Len(l)] \in Face
         /\ \A e \in Face : /\ [l EXCEPT ![Len(l)] = e] \in Seq(Face)
                            /\ Len([l EXCEPT ![Len(l)] = e]) = Len(l)
                            /\ [l EXCEPT ![Len(l)] = e][Len(l)] = e
                            /\ [l EXCEPT ![Len(l)] = e] # <<>>
<1>1. Len(l) \in Nat /\ Len(l) # 0
  BY EmptySeq
<1>2. Len(l) \in 1 .. Len(l)
  BY <1>1
<1>3. l[Len(l)] \in Face
  BY <1>2, ElementOfSeq
<1>4. ASSUME NEW e \in Face
      PROVE  /\ [l EXCEPT ![Len(l)] = e] \in Seq(Face)
             /\ Len([l EXCEPT ![Len(l)] = e]) = Len(l)
             /\ [l EXCEPT ![Len(l)] = e][Len(l)] = e
  BY <1>2, ExceptSeq
<1> QED BY <1>1, <1>2, <1>3, <1>4, EmptySeq

LEMMA Completed ==
  ASSUME ifs \in Seq(Face), ifs # <<>>
  PROVE  /\ EndList => /\ ifs' \in Seq(Face) /\ ifs' # <<>>
                       /\ ifs'[Len(ifs')].masked = ifs[Len(ifs)].masked
         /\ SetIp => /\ ifs' \in Seq(Face) /\ ifs' # <<>>
                     /\ ifs'[Len(ifs')].masked = ifs[Len(ifs)].masked
         /\ SetMask => ifs' \in Seq(Face)
<1> DEFINE n == Len(ifs)
           f == ifs[n]
<1>1. /\ n \in 1 .. n /\ f \in Face
      /\ \A e \in Face : /\ [ifs EXCEPT ![n] = e] \in Seq(Face)
                         /\ Len([ifs EXCEPT ![n] = e]) = n
                         /\ [ifs EXCEPT ![n] = e][n] = e
                         /\ [ifs EXCEPT ![n] = e] # <<>>
  BY LastOne
<1>2. ASSUME EndList
      PROVE  /\ ifs' \in Seq(Face) /\ ifs' # <<>>
             /\ ifs'[Len(ifs')].masked = ifs[Len(ifs)].masked
  <2>1. ifs' = [ifs EXCEPT ![n] = [f EXCEPT !.ended = TRUE]]
    BY <1>1, <1>2 DEF EndList, LastIface
  <2> QED BY <1>1, <2>1, Fields, ZenonT(30)
<1>3. ASSUME SetIp
      PROVE  /\ ifs' \in Seq(Face) /\ ifs' # <<>>
             /\ ifs'[Len(ifs')].masked = ifs[Len(ifs)].masked
  <2>1. ifs' = [ifs EXCEPT ![n] = [f EXCEPT !.ip = f.name]]
    BY <1>1, <1>3 DEF SetIp, LastIface
  <2> QED BY <1>1, <2>1, Fields, ZenonT(30)
<1>4. ASSUME SetMask PROVE ifs' \in Seq(Face)
  <2>1. ifs' = [ifs EXCEPT ![n] = [f EXCEPT !.masked = TRUE]]
    BY <1>1, <1>4 DEF SetMask, LastIface
  <2> QED BY <1>1, <2>1, Fields, ZenonT(30)
<1> QED BY <1>2, <1>3, <1>4

LEMMA NewInterface ==
  ASSUME TypeOK, NEW i \in Ifaces, AddInterface(i)
  PROVE  /\ ifs' \in Seq(Face) /\ ifs' # <<>>
         /\ ifs'[Len(ifs')].masked = FALSE
<1>1. PICK junk \in Junk :
        ifs' = Append(ifs, [name |-> i, ip |-> junk, masked |-> FALSE,
                            ended |-> FALSE])
  BY DEF AddInterface
<1> DEFINE f == [name |-> i, ip |-> junk, masked |-> FALSE, ended |-> FALSE]
<1>2. f \in Face /\ f.masked = FALSE
  BY DEF Face
<1>3. ifs \in Seq(Face) /\ Len(ifs) \in Nat
  BY DEF TypeOK, Face
<1> HIDE DEF f
<1>4. /\ Append(ifs, f) \in Seq(Face) /\ Len(Append(ifs, f)) = Len(ifs) + 1
      /\ Append(ifs, f)[Len(ifs) + 1] = f
  BY <1>2, <1>3, AppendProperties
<1>5. ifs' = Append(ifs, f)
  BY <1>1 DEF f
<1> QED BY <1>2, <1>3, <1>4, <1>5

-----------------------------------------------------------------------------
(***************************************************************************)
(* Types.                                                                  *)
(***************************************************************************)
Kinds == {"connect", "authReply", "open"}
Steps == {"down", "aborted", "authRequest", "authStatus", "init", "read",
          "add", "end", "ip", "mask", "deaf"}

LEMMA Sent ==
  ASSUME TypeOK, NEW c, NEW m \in Messages, SendOn(c, m)
  PROVE  toRouter' \in Seq(Messages)
<1>1. toRouter \in Seq(Messages) /\ Append(toRouter, m) \in Seq(Messages)
  BY AppendProperties DEF TypeOK
<1> QED BY <1>1 DEF SendOn, Send

LEMMA Read ==
  ASSUME TypeOK, Reads
  PROVE  toRouter' \in Seq(Messages) /\ Head(toRouter) \in Messages
BY HeadTailProperties, EmptySeq DEF TypeOK, Reads

LEMMA TakenOff ==
  ASSUME TypeOK, NEW c \in Conns, NEW type, Received(c, type)
  PROVE  /\ toServer' \in [Conns -> Seq(Kinds)]
         /\ toServer'[c] = Tail(toServer[c])
         /\ toServer[c] # <<>> /\ Head(toServer[c]) = type
         /\ \A d \in Conns : d # c => toServer'[d] = toServer[d]
<1>1. toServer \in [Conns -> Seq(Kinds)] /\ toServer[c] \in Seq(Kinds)
  BY DEF TypeOK, Kinds
<1>2. toServer[c] # <<>> /\ Head(toServer[c]) = type
  BY DEF Received
<1>3. Tail(toServer[c]) \in Seq(Kinds)
  BY <1>1, <1>2, HeadTailProperties
<1>4. toServer' = [toServer EXCEPT ![c] = Tail(toServer[c])]
  BY <1>1 DEF Received
<1> QED BY <1>1, <1>2, <1>3, <1>4

LEMMA Written ==
  ASSUME TypeOK, conn \in Conns, NEW type \in Kinds, Writes(type)
  PROVE  /\ toServer' \in [Conns -> Seq(Kinds)]
         /\ toServer'[conn] = Append(toServer[conn], type)
         /\ \A d \in Conns : d # conn => toServer'[d] = toServer[d]
<1>1. toServer \in [Conns -> Seq(Kinds)] /\ toServer[conn] \in Seq(Kinds)
  BY DEF TypeOK, Kinds
<1>2. Append(toServer[conn], type) \in Seq(Kinds)
  BY <1>1, AppendProperties
<1>3. toServer' = [toServer EXCEPT ![conn] = Append(toServer[conn], type)]
  BY <1>1 DEF Writes
<1> QED BY <1>1, <1>2, <1>3

LEMMA MessageTypes ==
  /\ Msg("authRequest") \in Messages /\ Msg("authStatus") \in Messages
  /\ Msg("hwinfo") \in Messages
  /\ \A i \in Ifaces : Packet(i) \in Messages
BY DEF Messages

\* TypeOK, with the named sets and with main and run by themselves.
LEMMA Types ==
  TypeOK <=>
    /\ known \in BOOLEAN /\ lost \in BOOLEAN /\ whole \in BOOLEAN
    /\ client \in Conns \cup {NoConn} /\ opening \in Conns \cup {NoConn}
    /\ conn \in Conns \cup {NoConn}
    /\ toRouter \in Seq(Messages)
    /\ toServer \in [Conns -> Seq(Kinds)]
    /\ main \in Steps
    /\ ifs \in Seq(Face)
    /\ run \in [at : {"none", "asleep", "id", "routes", "done"}, pos : Nat]
    /\ id \in Ifaces \cup Junk \cup {0}
    /\ routes \subseteq Ifaces \cup {NoNet}
BY DEF TypeOK, Kinds, Steps, Face

LEMMA DiedTypes ==
  ASSUME NEW how \in {"down", "aborted"}, Died(how)
  PROVE  /\ main' \in Steps /\ main' = how /\ ifs' = <<>> /\ run' = NotStarted
         /\ id' = 0 /\ routes' = {} /\ whole' = FALSE /\ toRouter' = <<>>
         /\ ifs' \in Seq(Face) /\ toRouter' \in Seq(Messages)
         /\ run' \in [at : {"none", "asleep", "id", "routes", "done"}, pos : Nat]
<1>1. <<>> \in Seq(Face) /\ <<>> \in Seq(Messages)
  BY EmptySeq
<1>2. NotStarted \in [at : {"none", "asleep", "id", "routes", "done"}, pos : Nat]
  BY DEF NotStarted
<1> QED BY <1>1, <1>2 DEF Died, Steps

LEMMA TypeInit ==
  ASSUME Init
  PROVE  TypeOK
<1>1. <<>> \in Seq(Face) /\ <<>> \in Seq(Messages) /\ <<>> \in Seq(Kinds)
  BY EmptySeq
<1>2. NotStarted \in [at : {"none", "asleep", "id", "routes", "done"}, pos : Nat]
  BY DEF NotStarted
<1> QED BY <1>1, <1>2 DEF Init, TypeOK, Face, Kinds

LEMMA SessionTypes ==
  ASSUME TypeOK, InTurn,
         \/ SwitchUp \/ (\E i \in Ifaces : PacketIn(i)) \/ Reactor
         \/ Quit \/ Connect
  PROVE  TypeOK'
<1>1. CASE SwitchUp
  BY <1>1 DEF SwitchUp, TypeOK, session, router
<1>2. ASSUME NEW i \in Ifaces, PacketIn(i) PROVE TypeOK'
  BY <1>2, Sent, MessageTypes DEF PacketIn, TypeOK, server, router
<1>3. ASSUME NEW c \in Conns, Accept(c) PROVE TypeOK'
  <2>1. toRouter' \in Seq(Messages) /\ toServer' \in [Conns -> Seq(Kinds)]
    BY <1>3, Sent, TakenOff, MessageTypes DEF Accept
  <2> QED BY <1>3, <2>1 DEF Accept, TypeOK, Kinds, server, router
<1>4. ASSUME NEW c \in Conns, AuthReply(c) PROVE TypeOK'
  <2>1. toRouter' \in Seq(Messages) /\ toServer' \in [Conns -> Seq(Kinds)]
    BY <1>4, Sent, TakenOff, MessageTypes DEF AuthReply
  <2> QED BY <1>4, <2>1 DEF AuthReply, TypeOK, Kinds, server, router
<1>5. ASSUME NEW c \in Conns, Open(c) PROVE TypeOK'
  <2>1. toServer' \in [Conns -> Seq(Kinds)]
    BY <1>5, TakenOff DEF Open
  <2> QED BY <1>5, <2>1 DEF Open, TypeOK, Kinds, router
<1>6. CASE SendHardware
  <2>1. toRouter' \in Seq(Messages)
    BY <1>6, Sent, MessageTypes DEF SendHardware, TypeOK
  <2>2. lost' \in BOOLEAN
    BY <1>6 DEF SendHardware, TypeOK
  <2> QED BY <1>6, <2>1, <2>2 DEF SendHardware, TypeOK, router
<1>7. CASE Quit
  <2>1. Died("down") /\ UNCHANGED <<known, client, opening, conn, lost, toServer>>
    BY <1>7 DEF Quit, server
  <2> QED BY <2>1, DiedTypes DEF TypeOK, Steps, Face
<1>8. CASE Connect
  <2>1. conn + 1 \in Conns
    BY <1>8, StartAssumption DEF Connect, TypeOK, Conns, NoConn
  <2>2. <<"connect">> \in Seq(Kinds)
    BY DEF Kinds
  <2>3. toServer' \in [Conns -> Seq(Kinds)]
    BY <1>8, <2>2 DEF Connect, TypeOK, Kinds
  <2> QED BY <1>8, <2>1, <2>3 DEF Connect, TypeOK, Kinds, server
<1> QED BY <1>1, <1>2, <1>3, <1>4, <1>5, <1>6, <1>7, <1>8 DEF Reactor, Serve

LEMMA MainTypes ==
  ASSUME TypeOK, InTurn, HalfMade, Main
  PROVE  TypeOK'
<1> USE DEF server, session
<1>0. main \in {"authRequest", "authStatus"} => conn \in Conns
  BY DEF InTurn, Alive
<1>1. CASE Authenticate
  <2>1. toServer' \in [Conns -> Seq(Kinds)] /\ toRouter' \in Seq(Messages)
    BY <1>0, <1>1, Written, Read DEF Authenticate, Kinds
  <2> QED BY <1>1, <2>1 DEF Authenticate, Expect, TypeOK, Kinds
<1>2. CASE SendOpen
  <2>1. toServer' \in [Conns -> Seq(Kinds)] /\ toRouter' \in Seq(Messages)
    BY <1>0, <1>2, Written, Read DEF SendOpen, Kinds
  <2> QED BY <1>2, <2>1 DEF SendOpen, Expect, TypeOK, Kinds
<1>3. CASE SrInit
  BY <1>3 DEF SrInit, TypeOK, Asleep
<1>4. CASE HandlePacket
  BY <1>4, Read DEF HandlePacket, TypeOK, router
<1>5. CASE Abort
  <2>1. Died("aborted") /\ UNCHANGED <<known, client, opening, conn, lost, toServer>>
    BY <1>5 DEF Abort
  <2> QED BY <2>1, DiedTypes DEF TypeOK, Steps, Face
<1>6. CASE Deaf
  BY <1>6 DEF Deaf, TypeOK
<1>7. CASE ReadHardware
  BY <1>7, Read DEF ReadHardware, TypeOK
<1>8. ASSUME NEW i \in Ifaces, AddInterface(i) PROVE TypeOK'
  <2>1. ifs' \in Seq(Face)
    BY <1>8, NewInterface
  <2> QED BY <1>8, <2>1 DEF AddInterface, TypeOK, Face
<1>9. ifs \in Seq(Face)
  BY Types
<1>10. CASE EndList
  <2>1. ifs' \in Seq(Face)
    BY <1>9, <1>10, Completed DEF EndList, HalfMade
  <2> QED BY <1>10, <2>1 DEF EndList, TypeOK, Face
<1>11. CASE SetIp
  <2>1. ifs' \in Seq(Face)
    BY <1>9, <1>11, Completed DEF SetIp, HalfMade
  <2> QED BY <1>11, <2>1 DEF SetIp, TypeOK, Face
<1>12. CASE SetMask
  <2>1. ifs' \in Seq(Face)
    BY <1>9, <1>12, Completed DEF SetMask, HalfMade
  <2> QED BY <1>12, <2>1 DEF SetMask, TypeOK, Face
<1> QED BY <1>1, <1>2, <1>3, <1>4, <1>5, <1>6, <1>7, <1>8, <1>10, <1>11, <1>12
        DEF Main, HwInfo

LEMMA RunTypes ==
  ASSUME TypeOK, RunThread
  PROVE  TypeOK'
<1> DEFINE R == [at : {"none", "asleep", "id", "routes", "done"}, pos : Nat]
<1> USE DEF server, session
<1>0. run \in R /\ run.pos \in Nat /\ [run EXCEPT !.pos = @ + 1] \in R
  <2> DEFINE A == {"none", "asleep", "id", "routes", "done"}
  <2>1. run \in [at : A, pos : Nat] /\ run.pos + 1 \in Nat
    BY DEF TypeOK
  <2> HIDE DEF A
  <2>2. [run EXCEPT !.pos = @ + 1] \in [at : A, pos : Nat]
    BY <2>1
  <2> QED BY <2>1, <2>2 DEF A
<1>1. CASE Wake
  BY <1>1 DEF Wake, TypeOK, AllSet
<1>2. ASSUME NEW k \in DOMAIN ifs PROVE ifs[k] \in Face
  BY <1>2, Types, ElementOfSeq
<1>3. CASE ChooseId
  <2>1. ifs[run.pos] \in Face
    BY <1>2, <1>3 DEF ChooseId
  <2>2. id' \in Ifaces \cup Junk \cup {0}
    BY <1>3, <2>1 DEF ChooseId, Face, TypeOK
  <2>3. run' \in R
    BY <1>0, <1>3 DEF ChooseId
  <2> QED BY <1>3, <2>2, <2>3 DEF ChooseId, TypeOK
<1>4. CASE Chosen
  BY <1>4 DEF Chosen, TypeOK
<1>5. CASE AddRoute
  <2>1. ifs[run.pos] \in Face
    BY <1>2, <1>5 DEF AddRoute
  <2>2. routes' \subseteq Ifaces \cup {NoNet}
    BY <1>5, <2>1 DEF AddRoute, Face, TypeOK, Net
  <2>3. run' \in R
    BY <1>0, <1>5 DEF AddRoute
  <2> QED BY <1>5, <2>2, <2>3 DEF AddRoute, TypeOK
<1>6. CASE WildPointer
  <2>1. Died("aborted") /\ UNCHANGED <<known, client, opening, conn, lost, toServer>>
    BY <1>6 DEF WildPointer
  <2> QED BY <2>1, DiedTypes DEF TypeOK, Steps, Face
<1>7. CASE Started
  BY <1>7 DEF Started, TypeOK
<1> QED BY <1>1, <1>3, <1>4, <1>5, <1>6, <1>7 DEF RunThread

LEMMA TypeStep ==
  ASSUME TypeOK, InTurn, HalfMade, [Next]_vars
  PROVE  TypeOK'
<1>1. CASE UNCHANGED vars
  BY <1>1 DEF vars, server, session, router, TypeOK
<1> QED BY <1>1, SessionTypes, MainTypes, RunTypes DEF Next

-----------------------------------------------------------------------------
(***************************************************************************)
(* What the router has before it has anything, and of its last interface.  *)
(***************************************************************************)
LEMMA ServerLeaves ==
  ASSUME \/ SwitchUp \/ (\E i \in Ifaces : PacketIn(i)) \/ Reactor
         \/ HandlePacket \/ UNCHANGED vars
  PROVE  UNCHANGED <<main, ifs, run, id, routes, whole>>
BY DEF SwitchUp, PacketIn, Reactor, Serve, Accept, AuthReply, Open, SendHardware,
       HandlePacket, vars, router

LEMMA Ends ==
  ASSUME Quit \/ Abort \/ WildPointer
  PROVE  \E how \in {"down", "aborted"} : Died(how)
BY DEF Quit, Abort, WildPointer

LEMMA YetStep ==
  ASSUME TypeOK, NothingYet, [Next]_vars
  PROVE  NothingYet'
<1>1. ASSUME UNCHANGED <<main, ifs, run, id, routes, whole>> PROVE NothingYet'
  BY <1>1 DEF NothingYet
<1>2. ASSUME NEW how \in {"down", "aborted"}, Died(how) PROVE NothingYet'
  BY <1>2, DiedTypes DEF NothingYet
<1>3. CASE Connect
  BY <1>3 DEF Connect, NothingYet, Alive, Early
<1>4. CASE Authenticate
  BY <1>4 DEF Authenticate, Expect, NothingYet, Early
<1>5. CASE SendOpen
  BY <1>5 DEF SendOpen, Expect, NothingYet, Early
<1>6. CASE SrInit
  BY <1>6 DEF SrInit, NothingYet, Early, NotStarted, Asleep
<1>7. CASE Deaf \/ ReadHardware \/ HwInfo
  <2>1. /\ main' \notin Early
        /\ UNCHANGED <<run, id, routes, whole>>
    BY <1>7 DEF Deaf, ReadHardware, HwInfo, AddInterface, EndList, SetIp, SetMask,
                Early
  <2> QED BY <2>1 DEF NothingYet
<1>8. CASE Wake \/ ChooseId \/ Chosen \/ AddRoute \/ Started
  <2>1. main \notin Early /\ main' = main
    BY <1>8 DEF NothingYet, NotStarted, Wake, Asleep, ChooseId, Chosen, AddRoute,
                Started
  <2>2. run'.at \notin {"none", "asleep"}
    BY <1>8 DEF Wake, ChooseId, Chosen, AddRoute, Started, TypeOK
  <2> QED BY <2>1, <2>2 DEF NothingYet
<1> QED BY <1>1, <1>2, <1>3, <1>4, <1>5, <1>6, <1>7, <1>8, ServerLeaves, Ends
        DEF Next, Main, RunThread

LEMMA HalfStep ==
  ASSUME TypeOK, HalfMade, [Next]_vars
  PROVE  HalfMade'
<1>0. ifs \in Seq(Face)
  BY Types
<1>1. ASSUME UNCHANGED <<main, ifs>> PROVE HalfMade'
  BY <1>1 DEF HalfMade
<1>2. ASSUME main' \notin {"end", "ip", "mask"} PROVE HalfMade'
  BY <1>2 DEF HalfMade
<1>3. ASSUME NEW how \in {"down", "aborted"}, Died(how) PROVE HalfMade'
  BY <1>2, <1>3, DiedTypes
<1>4. CASE Connect \/ Authenticate \/ SendOpen \/ SrInit \/ Deaf \/ ReadHardware
           \/ SetMask
  BY <1>2, <1>4 DEF Connect, Authenticate, SendOpen, Expect, SrInit, Deaf,
                    ReadHardware, SetMask
<1>5. ASSUME NEW i \in Ifaces, AddInterface(i) PROVE HalfMade'
  BY <1>5, NewInterface DEF HalfMade
<1>6. CASE EndList
  BY <1>0, <1>6, Completed DEF HalfMade, EndList
<1>7. CASE SetIp
  BY <1>0, <1>7, Completed DEF HalfMade, SetIp
<1>8. CASE Wake \/ ChooseId \/ Chosen \/ AddRoute \/ Started
  BY <1>1, <1>8 DEF Wake, ChooseId, Chosen, AddRoute, Started
<1> QED BY <1>1, <1>3, <1>4, <1>5, <1>6, <1>7, <1>8, ServerLeaves, Ends
        DEF Next, Main, HwInfo, RunThread
-----------------------------------------------------------------------------
(***************************************************************************)
(* The session.                                                            *)
(***************************************************************************)
LEMMA TurnKept ==
  ASSUME InTurn, UNCHANGED <<client, opening, conn, lost, toRouter, toServer>>,
         \/ main' = main
         \/ /\ Alive /\ main' \notin {"down", "aborted", "authRequest", "authStatus"}
  PROVE  InTurn'
BY DEF InTurn, Due, Alive

LEMMA TurnEnds ==
  ASSUME InTurn, NEW how \in {"down", "aborted"}, Died(how),
         UNCHANGED <<client, opening, conn, lost, toServer>>
  PROVE  InTurn'
BY DiedTypes DEF InTurn, Alive

\* While the router authenticates, no connection but its own has a say.
Authenticating == main \in {"authRequest", "authStatus"}

LEMMA TurnServe ==
  ASSUME TypeOK, InTurn, NEW c \in Conns, Serve(c)
  PROVE  InTurn'
<1>1. PICK type \in Kinds : /\ Received(c, type)
                            /\ Accept(c) \/ AuthReply(c) \/ Open(c)
                            /\ type = "connect" <=> Accept(c)
                            /\ type = "authReply" <=> AuthReply(c)
                            /\ type = "open" <=> Open(c)
  BY DEF Serve, Accept, AuthReply, Open, Kinds, Received
<1>2. /\ toServer'[c] = Tail(toServer[c])
      /\ toServer[c] # <<>> /\ Head(toServer[c]) = type
      /\ \A d \in Conns : d # c => toServer'[d] = toServer[d]
  BY <1>1, TakenOff
<1>3. /\ conn' = conn /\ lost' = lost /\ main' = main /\ opening = NoConn
      /\ client' = (IF type = "open" THEN c ELSE client)
      /\ opening' = (IF type = "open" THEN c ELSE opening)
  BY <1>1 DEF Serve, Accept, AuthReply, Open, Received, server, router, Kinds
<1>4. c <= conn /\ conn \in Conns
  <2>1. conn \in Nat /\ c \in Nat
    BY DEF TypeOK, Conns, NoConn
  <2>2. ~(c > conn)
    BY <1>2 DEF InTurn
  <2>3. conn # 0
    BY <2>1, <2>2 DEF Conns
  <2> QED BY <2>1, <2>2, <2>3 DEF TypeOK, NoConn
<1>5. \A d \in Conns : d > conn => toServer'[d] = <<>>
  <2>1. \A d \in Conns : d > conn => d # c
    BY <1>4 DEF Conns
  <2> QED BY <1>2, <2>1 DEF InTurn
<1>6. c # conn \/ ~Alive => type = "open" \/ toRouter' = toRouter
  BY <1>1 DEF Accept, AuthReply, Open, SendOn
<1>7. type = "open" => toRouter' = toRouter
  BY <1>1 DEF Open
<1>8. ~Alive => toRouter' = <<>>
  BY <1>6, <1>7 DEF InTurn
<1>9. ASSUME NEW sent \in {"connect", "authReply"}, NEW answer, Due(sent, answer),
             sent = "connect" => answer = "authRequest",
             sent = "authReply" => answer = "authStatus", Authenticating
      PROVE  Due(sent, answer)'
  <2>1. CASE c # conn
    <3>1. toRouter' = toRouter /\ toServer'[conn] = toServer[conn]
      BY <1>2, <1>4, <1>6, <1>7, <2>1
    <3>2. client' # conn /\ opening' # conn
      BY <1>3, <1>9, <2>1 DEF Due
    <3> QED BY <1>3, <1>9, <3>1, <3>2 DEF Due
  <2>2. CASE c = conn
    <3>1. toServer[conn] = <<sent>> /\ toRouter = <<>>
      BY <1>2, <1>9, <2>2 DEF Due
    <3>2. type = sent /\ toServer'[conn] = <<>>
      BY <1>2, <2>2, <3>1
    <3>3. toRouter' = Append(toRouter, Msg(answer))
      BY <1>1, <1>9, <2>2, <3>2
         DEF Accept, AuthReply, SendOn, Send, Authenticating, Alive, Due
    <3>4. toRouter' = <<Msg(answer)>>
      BY <3>1, <3>3
    <3>5. client' = client /\ opening' = opening
      BY <1>3, <1>9, <3>2
    <3> QED BY <1>3, <1>9, <3>2, <3>4, <3>5 DEF Due
  <2> QED BY <2>1, <2>2
<1>10. client' <= conn /\ opening' <= conn
  BY <1>3, <1>4 DEF InTurn
<1>11. /\ main = "authRequest" => Due("connect", "authRequest")'
       /\ main = "authStatus" => Due("authReply", "authStatus")'
  BY <1>9 DEF InTurn, Authenticating
<1> QED BY <1>3, <1>4, <1>5, <1>8, <1>10, <1>11 DEF InTurn, Alive

LEMMA TurnStep ==
  ASSUME TypeOK, InTurn, [Next]_vars
  PROVE  InTurn'
<1> USE DEF server, session, router
<1>1. CASE SwitchUp
  BY <1>1, TurnKept DEF SwitchUp
<1>2. ASSUME NEW i \in Ifaces, PacketIn(i) PROVE InTurn'
  <2>1. UNCHANGED <<client, opening, conn, lost, toServer, main>>
    BY <1>2 DEF PacketIn
  <2>2. ~Alive \/ Authenticating => toRouter' = toRouter
    BY <1>2 DEF PacketIn, SendOn, InTurn, Due, Authenticating
  <2> QED BY <2>1, <2>2 DEF InTurn, Due, Alive, Authenticating
<1>3. ASSUME NEW c \in Conns, Serve(c) PROVE InTurn'
  BY <1>3, TurnServe
<1>4. CASE SendHardware
  <2>1. /\ UNCHANGED <<client, conn, toServer, main>> /\ opening' = NoConn
        /\ opening # NoConn
    BY <1>4 DEF SendHardware
  <2>2. ~Alive \/ Authenticating => toRouter' = toRouter
    BY <1>4 DEF SendHardware, SendOn, InTurn, Due, Authenticating
  <2>3. Authenticating => lost' = lost
    BY <1>4 DEF SendHardware, InTurn, Due, Authenticating, TypeOK
  <2>4. opening' <= conn /\ (Authenticating => opening' # conn)
    <3>1. conn \in Nat /\ (Alive => conn # NoConn)
      BY DEF TypeOK, Conns, NoConn, InTurn
    <3> QED BY <2>1, <3>1 DEF NoConn, Authenticating, Alive
  <2> QED BY <2>1, <2>2, <2>3, <2>4 DEF InTurn, Due, Alive, Authenticating
<1>5. CASE Quit
  BY <1>5, TurnEnds DEF Quit
<1>6. CASE Connect
  <2>1. /\ conn + 1 \in Conns /\ conn \in Nat /\ conn' = conn + 1
        /\ client \in Nat /\ opening \in Nat
    BY <1>6, StartAssumption DEF Connect, TypeOK, Conns, NoConn
  <2>2. /\ toServer'[conn + 1] = <<"connect">>
        /\ \A d \in Conns : d # conn + 1 => toServer'[d] = toServer[d]
    BY <1>6, <2>1 DEF Connect, TypeOK
  <2>3. toRouter' = <<>> /\ lost' = FALSE /\ main' = "authRequest"
    BY <1>6 DEF Connect, InTurn
  <2>4. client' <= conn /\ opening' <= conn
    BY <1>6 DEF Connect, InTurn
  <2>5. client' # conn' /\ opening' # conn' /\ client' <= conn' /\ opening' <= conn'
    BY <1>6, <2>1, <2>4 DEF Connect
  <2>6. \A d \in Conns : d > conn' => toServer'[d] = <<>>
    <3>1. \A d \in Conns : d > conn + 1 => d > conn /\ d # conn + 1
      BY <2>1 DEF Conns
    <3> QED BY <2>1, <2>2, <3>1 DEF InTurn
  <2> QED BY <2>1, <2>2, <2>3, <2>5, <2>6 DEF InTurn, Due, Alive
<1>7. CASE Authenticate
  <2>1. /\ conn \in Conns /\ Due("connect", "authRequest")
    BY <1>7 DEF Authenticate, InTurn, Alive
  <2>2. toServer[conn] = <<>> /\ toRouter = <<Msg("authRequest")>>
    BY <1>7, <2>1 DEF Due, Authenticate, Reads
  <2>3. toRouter' = <<>> /\ main' = "authStatus"
    BY <1>7, <2>2 DEF Authenticate, Reads, Expect, Msg
  <2>4. /\ toServer'[conn] = Append(toServer[conn], "authReply")
        /\ \A d \in Conns : d # conn => toServer'[d] = toServer[d]
    BY <1>7, <2>1, Written DEF Authenticate, Kinds
  <2>5. toServer'[conn] = <<"authReply">>
    BY <2>2, <2>4
  <2>6. UNCHANGED <<client, opening, conn, lost>>
    BY <1>7 DEF Authenticate
  <2>7. Due("authReply", "authStatus")'
    BY <2>1, <2>3, <2>5, <2>6 DEF Due
  <2>8. \A d \in Conns : d > conn => d # conn
    BY DEF Conns
  <2> QED BY <2>1, <2>3, <2>4, <2>6, <2>7, <2>8 DEF InTurn, Alive
<1>8. CASE SendOpen
  <2>1. conn \in Conns /\ Due("authReply", "authStatus")
    BY <1>8 DEF SendOpen, InTurn, Alive
  <2>2. toServer[conn] = <<>> /\ toRouter = <<Msg("authStatus")>>
    BY <1>8, <2>1 DEF Due, SendOpen, Reads
  <2>3. toRouter' = <<>> /\ main' = "init"
    BY <1>8, <2>2 DEF SendOpen, Reads, Expect, Msg
  <2>4. \A d \in Conns : d # conn => toServer'[d] = toServer[d]
    BY <1>8, <2>1, Written DEF SendOpen, Kinds
  <2>5. \A d \in Conns : d > conn => d # conn
    BY DEF Conns
  <2> QED BY <1>8, <2>1, <2>3, <2>4, <2>5 DEF SendOpen, InTurn, Alive
<1>9. CASE SrInit \/ Deaf \/ HwInfo
  BY <1>9, TurnKept DEF SrInit, Deaf, HwInfo, AddInterface, EndList, SetIp, SetMask,
                        Alive
<1>10. CASE HandlePacket \/ ReadHardware
  BY <1>10 DEF HandlePacket, ReadHardware, InTurn, Due, Alive
<1>11. CASE Abort \/ WildPointer
  BY <1>11, TurnEnds DEF Abort, WildPointer
<1>12. CASE Wake \/ ChooseId \/ Chosen \/ AddRoute \/ Started
  BY <1>12, TurnKept DEF Wake, ChooseId, Chosen, AddRoute, Started
<1>13. CASE UNCHANGED vars
  BY <1>13, TurnKept DEF vars
<1> QED BY <1>1, <1>2, <1>3, <1>4, <1>5, <1>6, <1>7, <1>8, <1>9, <1>10, <1>11,
           <1>12, <1>13 DEF Next, Reactor, Main, RunThread

-----------------------------------------------------------------------------
(***************************************************************************)
(* The id and the routes.                                                  *)
(***************************************************************************)
LEMMA WalkedKept ==
  ASSUME Walked, UNCHANGED <<ifs, run, id, routes, whole>>
  PROVE  Walked'
BY DEF Walked, AllSet, Names, Complete

LEMMA FaceFields ==
  ASSUME TypeOK, NEW k \in DOMAIN ifs
  PROVE  /\ k \in Nat /\ ifs[k].name \in Ifaces /\ ifs[k].name \in Nat
         /\ ifs[k].name # 0 /\ ifs[k].ip \in Nat
<1>1. ifs \in Seq(Face) /\ k \in 1 .. Len(ifs)
  BY Types
<1>2. ifs[k] \in Face
  BY <1>1, ElementOfSeq
<1>3. ifs[k].name \in Ifaces /\ ifs[k].ip \in Ifaces \cup Junk
  BY <1>2 DEF Face
<1>4. \A i \in Ifaces \cup Junk : i \in Nat
  BY StartAssumption
<1>5. \A i \in Ifaces : i # 0
  BY StartAssumption
<1>6. k \in Nat
  BY <1>1
<1> QED BY <1>3, <1>4, <1>5, <1>6

\* Complete interfaces are not added to or changed.
LEMMA WholeStays ==
  ASSUME TypeOK, HalfMade, HwInfo, AllSet
  PROVE  FALSE
<1>1. ASSUME NEW i \in Ifaces, AddInterface(i) PROVE FALSE
  BY <1>1 DEF AddInterface, AllSet
<1>2. ASSUME EndList \/ SetIp \/ SetMask PROVE FALSE
  <2>1. ifs # <<>> /\ ifs[Len(ifs)].masked = FALSE
    BY <1>2 DEF EndList, SetIp, SetMask, HalfMade
  <2>2. ifs \in Seq(Face) /\ DOMAIN ifs = 1 .. Len(ifs)
    BY Types
  <2>3. Len(ifs) \in DOMAIN ifs
    BY <2>1, <2>2, LastOne
  <2> QED BY <2>1, <2>3 DEF AllSet, Complete
<1> QED BY <1>1, <1>2 DEF HwInfo

LEMMA WalkedStep ==
  ASSUME TypeOK, NothingYet, HalfMade, Walked, [Next]_vars
  PROVE  Walked'
<1>0. ASSUME ~whole' PROVE Walked'
  BY <1>0 DEF Walked
<1>1. ASSUME NEW how \in {"down", "aborted"}, Died(how) PROVE Walked'
  BY <1>0, <1>1, DiedTypes
<1>2. CASE Connect \/ Authenticate \/ SendOpen \/ Deaf \/ ReadHardware
  BY <1>2, WalkedKept DEF Connect, Authenticate, SendOpen, Deaf, ReadHardware
<1>3. CASE SrInit
  <2>1. ~whole /\ whole' = whole
    BY <1>3 DEF SrInit, NothingYet, Early, NotStarted
  <2> QED BY <1>0, <2>1
<1>4. CASE HwInfo
  <2>1. whole' = whole
    BY <1>4 DEF HwInfo, AddInterface, EndList, SetIp, SetMask
  <2>2. ~whole
    BY <1>4, WholeStays DEF Walked
  <2> QED BY <1>0, <2>1, <2>2
<1>5. run.pos \in Nat /\ run \in [at : {"none", "asleep", "id", "routes", "done"},
                                  pos : Nat]
  BY DEF TypeOK
<1>6. /\ ifs' = ifs => AllSet' = AllSet
      /\ whole => AllSet
      /\ AllSet => \A k \in DOMAIN ifs : Complete(ifs[k])
      /\ AllSet => \A i \in Ifaces : \E k \in DOMAIN ifs : ifs[k].name = i
  BY DEF AllSet, Names, Complete, Walked
<1>7. \A k \in DOMAIN ifs : k \in Nat /\ k >= 1 /\ k <= Len(ifs) /\ Len(ifs) \in Nat
  <2>1. ifs \in Seq(Face) /\ Len(ifs) \in Nat /\ DOMAIN ifs = 1 .. Len(ifs)
    BY Types
  <2> QED BY <2>1
<1>8. CASE Wake
  <2>1. id = 0 /\ routes = {}
    BY <1>8 DEF Wake, Asleep, NothingYet
  <2>2. /\ run' = [at |-> "id", pos |-> 1] /\ whole' = AllSet
        /\ UNCHANGED <<ifs, id, routes>>
    BY <1>8 DEF Wake
  <2>3. \A k \in DOMAIN ifs : ~(k < 1)
    BY <1>7
  <2> QED BY <1>6, <2>1, <2>2, <2>3 DEF Walked
<1>9. CASE ChooseId
  <2>1. /\ run.at = "id" /\ run.pos \in DOMAIN ifs
        /\ run'.at = "id" /\ run'.pos = run.pos + 1
        /\ UNCHANGED <<ifs, routes, whole>>
        /\ id' = IF ifs[run.pos].ip > id THEN ifs[run.pos].ip ELSE id
    BY <1>5, <1>9 DEF ChooseId, Higher
  <2> SUFFICES ASSUME whole PROVE Walked'
    BY <1>0, <2>1
  <2>2. /\ id \in Ifaces \cup {0} /\ routes = {}
        /\ \A k \in DOMAIN ifs : k < run.pos => ifs[k].name <= id
    BY <2>1 DEF Walked
  <2>3. ifs[run.pos].ip = ifs[run.pos].name
    BY <1>6, <2>1 DEF Complete
  <2>4. /\ ifs[run.pos].name \in Ifaces /\ ifs[run.pos].name \in Nat /\ id \in Nat
    BY <2>1, <2>2, FaceFields, StartAssumption
  <2>5. id' \in Ifaces \cup {0} /\ id' \in Nat /\ id <= id' /\ ifs[run.pos].name <= id'
    BY <2>1, <2>2, <2>3, <2>4
  <2>6. ASSUME NEW k \in DOMAIN ifs, k < run.pos + 1 PROVE ifs[k].name <= id'
    <3>1. k < run.pos \/ k = run.pos
      BY <1>5, <1>7, <2>6
    <3>2. ifs[k].name \in Nat
      BY FaceFields
    <3> QED BY <2>2, <2>4, <2>5, <3>1, <3>2
  <2> QED BY <1>6, <2>1, <2>2, <2>5, <2>6 DEF Walked
<1>10. CASE Chosen
  <2>1. /\ run.at = "id" /\ run.pos > Len(ifs)
        /\ run'.at = (IF id = 0 THEN "id" ELSE "routes") /\ run'.pos = 1
        /\ UNCHANGED <<ifs, id, routes, whole>>
    BY <1>10 DEF Chosen
  <2> SUFFICES ASSUME whole PROVE Walked'
    BY <1>0, <2>1
  <2>2. /\ id \in Ifaces \cup {0} /\ routes = {}
        /\ \A k \in DOMAIN ifs : k < run.pos => ifs[k].name <= id
    BY <2>1 DEF Walked
  <2>3. \A k \in DOMAIN ifs : k < run.pos /\ ~(k < 1)
    BY <1>5, <1>7, <2>1
  <2>4. \A i \in Ifaces : i <= id
    BY <1>6, <2>2, <2>3
  <2> QED BY <1>6, <2>1, <2>2, <2>3, <2>4 DEF Walked
<1>11. CASE AddRoute
  <2>1. /\ run.at = "routes" /\ run.pos \in DOMAIN ifs
        /\ run'.at = "routes" /\ run'.pos = run.pos + 1
        /\ UNCHANGED <<ifs, id, whole>>
        /\ routes' = routes \cup {Net(ifs[run.pos])}
    BY <1>5, <1>11 DEF AddRoute
  <2> SUFFICES ASSUME whole PROVE Walked'
    BY <1>0, <2>1
  <2>2. /\ routes \subseteq Ifaces
        /\ \A k \in DOMAIN ifs : k < run.pos => ifs[k].name \in routes
        /\ id \in Ifaces /\ \A i \in Ifaces : i <= id
    BY <2>1 DEF Walked
  <2>3. Net(ifs[run.pos]) = ifs[run.pos].name /\ ifs[run.pos].name \in Ifaces
    BY <1>6, <2>1, FaceFields DEF Net
  <2>4. ASSUME NEW k \in DOMAIN ifs, k < run.pos + 1 PROVE ifs[k].name \in routes'
    <3>1. k < run.pos \/ k = run.pos
      BY <1>5, <1>7, <2>4
    <3> QED BY <2>1, <2>2, <2>3, <3>1
  <2>5. AllSet' /\ id' \in Ifaces /\ \A i \in Ifaces : i <= id'
    <3>1. AllSet' = AllSet /\ AllSet
      BY <1>6, <2>1
    <3>2. id' \in Ifaces /\ \A i \in Ifaces : i <= id'
      BY <2>1, <2>2
    <3> QED BY <3>1, <3>2
  <2>6. routes' \subseteq Ifaces
    BY <2>1, <2>2, <2>3
  <2>7. \A k \in DOMAIN ifs' : k < run'.pos => ifs'[k].name \in routes'
    BY <2>1, <2>4
  <2> QED BY <2>1, <2>5, <2>6, <2>7 DEF Walked
<1>12. CASE Started
  <2>1. /\ run.at = "routes" /\ run.pos > Len(ifs) /\ run'.at = "done"
        /\ UNCHANGED <<ifs, id, routes, whole>>
    BY <1>12 DEF Started
  <2> SUFFICES ASSUME whole PROVE Walked'
    BY <1>0, <2>1
  <2>2. /\ routes \subseteq Ifaces
        /\ \A k \in DOMAIN ifs : k < run.pos => ifs[k].name \in routes
        /\ id \in Ifaces /\ \A i \in Ifaces : i <= id
    BY <2>1 DEF Walked
  <2>3. \A k \in DOMAIN ifs : k < run.pos
    BY <1>5, <1>7, <2>1
  <2>4. routes = Ifaces
    BY <1>6, <2>2, <2>3
  <2> QED BY <1>6, <2>1, <2>2, <2>4 DEF Walked
<1> QED BY <1>1, <1>2, <1>3, <1>4, <1>8, <1>9, <1>10, <1>11, <1>12, ServerLeaves,
           WalkedKept, Ends DEF Next, Main, RunThread
-----------------------------------------------------------------------------
LEMMA Invariant == Spec => []IInv
<1>1. Init => IInv
  <2> SUFFICES ASSUME Init PROVE IInv
    OBVIOUS
  <2>1. TypeOK
    BY TypeInit
  <2>2. NothingYet /\ HalfMade /\ Walked
    BY DEF Init, NothingYet, HalfMade, Walked
  <2>3. InTurn
    BY DEF Init, InTurn, Alive, NoConn
  <2> QED BY <2>1, <2>2, <2>3 DEF IInv
<1>2. IInv /\ [Next]_vars => IInv'
  BY TypeStep, YetStep, HalfStep, TurnStep, WalkedStep DEF IInv
<1> QED BY <1>1, <1>2, PTL DEF Spec

(***************************************************************************)
(* Every variable has its type, however the router dies and starts again.  *)
(***************************************************************************)
THEOREM TypeCorrect == Spec => []TypeOK
<1>1. IInv => TypeOK
  BY DEF IInv
<1> QED BY <1>1, Invariant, PTL

(***************************************************************************)
(* A router that authenticates never meets a message that is not due,      *)
(* although what is left of its earlier sessions is still being served     *)
(* and packets arrive for its host: sr_read_from_server_expect succeeds.   *)
(***************************************************************************)
THEOREM HandshakeHolds == Spec => []HandshakeInOrder
<1>1. IInv => HandshakeInOrder
  BY DEF IInv, InTurn, Due, HandshakeInOrder, Msg
<1> QED BY <1>1, Invariant, PTL

(***************************************************************************)
(* A router whose interfaces were all there when pwospf_run_thread woke    *)
(* has its highest address as its id and a route to each of its networks.  *)
(***************************************************************************)
THEOREM RightStart == Spec => []StartsRight
<1>1. IInv => StartsRight
  BY DEF IInv, Walked, StartsRight
<1> QED BY <1>1, Invariant, PTL

-----------------------------------------------------------------------------
(***************************************************************************)
(* LsuFlooding.                                                            *)
(***************************************************************************)

(***************************************************************************)
(* What OneCopyPerLink needs.  Who is up again, or down, may be killed.    *)
(* As long as an origin does not hear a neighbour it has sent nothing in   *)
(* its present life: it has been killed, and outside a ring it has no      *)
(* other neighbour to send to.                                             *)
(***************************************************************************)
LivesInv ==
  /\ \A r \in Routers : life[r] # 1 => r \in Mortal
  /\ \A m \in lsus : ~Silent(m.origin) /\ (m.life = 2 => life[m.origin] = 2)
UnheardInv ==
  \A o \in {r \in Routers : ~Silent(r)} : \A s \in Routers :
    <<o, s>> \in Pairs \ hears =>
      o \in Mortal /\ \A m \in lsus : m.origin = o => m.life # life[o]

(***************************************************************************)
(* Of an LSU from inside the ring there is at most one copy in each        *)
(* direction; from outside there is the one that enters the ring, or at    *)
(* most one in each direction.                                             *)
(***************************************************************************)
Ahead(m, next) == m.to = next[m.from]
Behind(m, next) == m.from = next[m.to]
Copies(o) == {m \in lsus : m.origin = o /\ m.to # o}
SameWay(m, n, next) ==
  \/ Ahead(m, next) /\ Ahead(n, next)
  \/ Behind(m, next) /\ Behind(n, next)
OneEachWay(C, next) ==
  \A m, n \in C : SameLsu(m, n) /\ SameWay(m, n, next) => m = n
Inside(o) ==
  o \notin Mortal /\ \E next \in [Routers -> Routers] :
    Ring(Routers, next) /\ OneEachWay(Copies(o), next)
Outside(o) ==
  LET Rest == Routers \ {o}
  IN /\ \A s, t \in Rest : {<<o, s>>, <<o, t>>} \subseteq Pairs => s = t
     /\ \A m, n \in Copies(o) : SameLsu(m, n) /\ m.from = o => m = n
     /\ \E next \in [Rest -> Rest] :
          Ring(Rest, next) /\ OneEachWay({m \in Copies(o) : m.from # o}, next)
CopiesInv == \A o \in {r \in Routers : ~Silent(r)} : Inside(o) \/ Outside(o)

FloodInv == FloodTypeOK /\ LivesInv /\ UnheardInv /\ CopiesInv

-----------------------------------------------------------------------------
(***************************************************************************)
(* Types.                                                                  *)
(***************************************************************************)
LEMMA Linked ==
  ASSUME NEW p \in Pairs
  PROVE  p[1] \in Routers /\ p[2] \in Routers /\ p[1] # p[2] /\ p = <<p[1], p[2]>>
<1>1. p \in Routers \X Routers /\ {p[1], p[2]} \in Links
  BY DEF Pairs
<1>2. Cardinality({p[1], p[2]}) = 2
  <2>1. \A l \in Links : Cardinality(l) = 2
    BY LsuFloodingAssumption
  <2> QED BY <1>1, <2>1
<1>3. p[1] # p[2]
  <2> SUFFICES ASSUME p[1] = p[2] PROVE FALSE
    OBVIOUS
  <2>1. {p[1], p[2]} = {p[1]}
    OBVIOUS
  <2>2. Cardinality({p[1]}) = 2
    BY <1>2, <2>1
  <2>3. Cardinality({p[1]}) = 1
    BY FS_Singleton
  <2>4. 1 = 2
    BY <2>2, <2>3, Zenon
  <2> QED BY <2>4
<1> QED BY <1>1, <1>3

LEMMA AnnouncedIs ==
  ASSUME NEW r, NEW to, NEW m \in Announced(r, to)
  PROVE  /\ m.from = r /\ m.origin = r /\ m.life = life[r] /\ m.to \in to
         /\ m = [from |-> r, to |-> m.to, origin |-> r, seq |-> number[r],
                 life |-> life[r], ttl |-> LsuTtl]
BY DEF Announced

LEMMA AnnouncedTypes ==
  ASSUME FloodTypeOK, NEW r \in Routers, Up(r),
         NEW to, \A s \in to : s \in Routers /\ <<r, s>> \in Pairs
  PROVE  /\ Announced(r, to) \subseteq Lsu
         /\ \A m \in Announced(r, to) :
              <<m.from, m.to>> \in Pairs /\ m.seq <= LastNumber[m.origin]
<1>1. /\ number[r] \in Nat /\ number[r] <= LastNumber[r] /\ life[r] \in 1 .. 2
      /\ LsuTtl \in 0 .. LsuTtl
  BY LsuFloodingAssumption DEF FloodTypeOK, Up
<1>2. SUFFICES ASSUME NEW m \in Announced(r, to)
               PROVE  /\ m \in Lsu
                      /\ <<m.from, m.to>> \in Pairs /\ m.seq <= LastNumber[m.origin]
  OBVIOUS
<1>3. PICK s \in to : m = [from |-> r, to |-> s, origin |-> r, seq |-> number[r],
                           life |-> life[r], ttl |-> LsuTtl]
  BY DEF Announced
<1>4. s \in Routers /\ <<r, s>> \in Pairs
  OBVIOUS
<1>5. m \in Lsu
  BY <1>1, <1>3, <1>4 DEF Lsu
<1> QED BY <1>1, <1>3, <1>4, <1>5

LEMMA CountedTypes ==
  ASSUME FloodTypeOK, NEW r \in Routers
  PROVE  /\ Counted(r) \in [Routers -> Nat]
         /\ \A o \in Routers : Counted(r)[o] <= LastNumber[o]
<1>1. number \in [Routers -> Nat] /\ LastNumber \in [Routers -> Nat]
      /\ \A o \in Routers : number[o] <= LastNumber[o]
  BY LsuFloodingAssumption DEF FloodTypeOK
<1> QED BY <1>1 DEF Counted

LEMMA FloodedTypes ==
  ASSUME FloodTypeOK, NEW m \in lsus, NEW valid
  PROVE  /\ Flooded(m, valid) \subseteq Lsu
         /\ \A x \in Flooded(m, valid) :
              /\ <<x.from, x.to>> \in Pairs /\ x.seq <= LastNumber[x.origin]
              /\ SameLsu(x, m) /\ x.from = m.to /\ x.to # m.from
              /\ x = [m EXCEPT !.from = m.to, !.to = x.to, !.ttl = TtlLeft(m)]
<1>1. m \in Lsu /\ m.seq <= LastNumber[m.origin] /\ m.ttl \in 0 .. LsuTtl
  BY DEF FloodTypeOK, Lsu
<1> SUFFICES ASSUME NEW x \in Flooded(m, valid)
             PROVE  /\ x \in Lsu /\ <<x.from, x.to>> \in Pairs
                    /\ x.seq <= LastNumber[x.origin]
                    /\ SameLsu(x, m) /\ x.from = m.to /\ x.to # m.from
                    /\ x = [m EXCEPT !.from = m.to, !.to = x.to, !.ttl = TtlLeft(m)]
  OBVIOUS
<1>2. ~(m.ttl < 1)
  BY DEF Flooded
<1>3. m.ttl - 1 \in 0 .. LsuTtl
  BY <1>1, <1>2, LsuFloodingAssumption
<1>4. PICK s \in Onward(m) :
        x = [m EXCEPT !.from = m.to, !.to = s, !.ttl = TtlLeft(m)]
  BY DEF Flooded
<1>5. s \in Routers /\ <<m.to, s>> \in Pairs /\ s # m.from
  BY <1>4 DEF Onward, Neighbors, FloodTypeOK
<1>6. /\ x \in Lsu /\ x.from = m.to /\ x.to = s /\ x.origin = m.origin
      /\ x.seq = m.seq /\ x.life = m.life
  BY <1>1, <1>3, <1>4, <1>5 DEF Lsu, TtlLeft
<1> QED BY <1>1, <1>4, <1>5, <1>6 DEF SameLsu

LEMMA InitFlood == Rings /\ FloodInit => FloodInv
<1> SUFFICES ASSUME Rings, FloodInit PROVE FloodInv
  OBVIOUS
<1>1. FloodTypeOK
  BY LsuFloodingAssumption DEF FloodInit, FloodTypeOK, Unknown
<1>2. LivesInv /\ UnheardInv
  BY DEF FloodInit, LivesInv, UnheardInv
<1>3. CopiesInv
  BY DEF FloodInit, Rings, FromInside, FromOutside, CopiesInv, Inside, Outside, Copies,
         OneEachWay
<1> QED BY <1>1, <1>2, <1>3 DEF FloodInv

\* What send_lsu sends, and to whom.
Tells(r, to) ==
  /\ r \in Routers /\ Up(r) /\ ~Silent(r)
  /\ \A s \in to : s \in Routers /\ <<r, s>> \in Pairs
  /\ \A m \in lsus : m.origin = r => m.life # life[r]
  /\ lsus' = lsus \cup Announced(r, to)

LEMMA RoundTells ==
  ASSUME FloodTypeOK, NEW r \in Routers, Round(r)
  PROVE  Tells(r, Neighbors(r))
BY DEF FloodTypeOK, Round, Tells, Neighbors

LEMMA NewNeighborTells ==
  ASSUME FloodTypeOK, UnheardInv, NEW r \in Routers, NEW s \in Routers, NewNeighbor(r, s)
  PROVE  lsus' = lsus \/ Tells(r, Neighbors(r) \cup {s})
<1> SUFFICES ASSUME ~Silent(r) PROVE Tells(r, Neighbors(r) \cup {s})
  BY DEF NewNeighbor
<1>1. \A m \in lsus : m.origin = r => m.life # life[r]
  BY DEF UnheardInv, NewNeighbor
<1> QED BY <1>1 DEF FloodTypeOK, NewNeighbor, Tells, Neighbors

LEMMA NextTypes == FloodTypeOK /\ [FloodNext]_floodVars => FloodTypeOK'
<1> SUFFICES ASSUME FloodTypeOK, [FloodNext]_floodVars PROVE FloodTypeOK'
  OBVIOUS
<1>1. ASSUME NEW r \in Routers, Round(r) PROVE FloodTypeOK'
  <2>1. Tells(r, Neighbors(r))
    BY <1>1, RoundTells
  <2>2. /\ lsus' \subseteq Lsu
        /\ \A m \in lsus' : <<m.from, m.to>> \in Pairs /\ m.seq <= LastNumber[m.origin]
    BY <2>1, AnnouncedTypes DEF FloodTypeOK, Tells
  <2>3. number' \in [Routers -> Nat] /\ \A o \in Routers : number'[o] <= LastNumber[o]
    BY <1>1, CountedTypes DEF Round
  <2> QED BY <1>1, <2>2, <2>3 DEF FloodTypeOK, Round
<1>2. ASSUME NEW r \in Routers, NEW s \in Routers, NewNeighbor(r, s) PROVE FloodTypeOK'
  <2>1. /\ lsus' \subseteq Lsu
        /\ \A m \in lsus' : <<m.from, m.to>> \in Pairs /\ m.seq <= LastNumber[m.origin]
    <3>1. \A t \in Neighbors(r) \cup {s} : t \in Routers /\ <<r, t>> \in Pairs
      BY <1>2 DEF FloodTypeOK, Neighbors, NewNeighbor
    <3>2. /\ Announced(r, Neighbors(r) \cup {s}) \subseteq Lsu
          /\ \A m \in Announced(r, Neighbors(r) \cup {s}) :
               <<m.from, m.to>> \in Pairs /\ m.seq <= LastNumber[m.origin]
      BY <1>2, <3>1, AnnouncedTypes DEF NewNeighbor
    <3>3. lsus' \subseteq lsus \cup Announced(r, Neighbors(r) \cup {s})
      BY <1>2 DEF NewNeighbor
    <3> QED BY <3>2, <3>3 DEF FloodTypeOK
  <2>2. number' \in [Routers -> Nat] /\ \A o \in Routers : number'[o] <= LastNumber[o]
    BY <1>2, CountedTypes DEF NewNeighbor, FloodTypeOK
  <2> QED BY <1>2, <2>1, <2>2 DEF FloodTypeOK, NewNeighbor
<1>3. ASSUME NEW r \in Routers, NEW s \in Routers, LostNeighbor(r, s) PROVE FloodTypeOK'
  BY <1>3 DEF FloodTypeOK, LostNeighbor
<1>4. ASSUME NEW m \in lsus, Receive(m) PROVE FloodTypeOK'
  <2>1. m \in Lsu
    BY DEF FloodTypeOK
  <2>2. know' \in [Routers -> [Routers -> [seq : Nat, life : 0 .. 2,
                                           age : 0 .. TopoTimeout]]]
    <3> DEFINE e == [seq |-> m.seq, life |-> m.life, age |-> 0]
               Entry == [seq : Nat, life : 0 .. 2, age : 0 .. TopoTimeout]
    <3>1. e \in Entry
      BY <2>1, LsuFloodingAssumption DEF Lsu
    <3>2. m.to \in Routers /\ m.origin \in Routers
      BY <2>1 DEF Lsu
    <3>3. know \in [Routers -> [Routers -> Entry]]
      BY DEF FloodTypeOK
    <3>4. know' = know \/ know' = [know EXCEPT ![m.to][m.origin] = e]
      BY <1>4 DEF Receive
    <3> HIDE DEF e, Entry
    <3>5. know' \in [Routers -> [Routers -> Entry]]
      BY <3>1, <3>2, <3>3, <3>4
    <3> QED BY <3>5 DEF Entry
  <2>3. /\ lsus' \subseteq Lsu
        /\ \A x \in lsus' : <<x.from, x.to>> \in Pairs /\ x.seq <= LastNumber[x.origin]
    <3>1. \E valid : lsus' \subseteq lsus \cup Flooded(m, valid)
      BY <1>4 DEF Receive
    <3> QED BY <3>1, FloodedTypes DEF FloodTypeOK
  <2> QED BY <1>4, <2>2, <2>3 DEF FloodTypeOK, Receive
<1>5. ASSUME NEW m \in lsus, Lost(m) PROVE FloodTypeOK'
  BY <1>5 DEF FloodTypeOK, Lost
<1>6. CASE Age
  <2>1. ASSUME NEW e \in [seq : Nat, life : 0 .. 2, age : 0 .. TopoTimeout]
        PROVE  Aged(e) \in [seq : Nat, life : 0 .. 2, age : 0 .. TopoTimeout]
    <3>1. TopoTimeout \in Nat \ {0}
      BY LsuFloodingAssumption
    <3> QED BY <3>1 DEF Aged, Unknown
  <2>2. know' \in [Routers -> [Routers -> [seq : Nat, life : 0 .. 2,
                                           age : 0 .. TopoTimeout]]]
    BY <1>6, <2>1 DEF Age, FloodTypeOK
  <2> QED BY <1>6, <2>2 DEF FloodTypeOK, Age
<1>7. ASSUME NEW r \in Routers, Kill(r) PROVE FloodTypeOK'
  BY <1>7 DEF FloodTypeOK, Kill
<1>8. ASSUME NEW r \in Routers, Restart(r) PROVE FloodTypeOK'
  <2>1. number' \in [Routers -> Nat] /\ \A o \in Routers : number'[o] <= LastNumber[o]
    <3>1. /\ number \in [Routers -> Nat] /\ number' = [number EXCEPT ![r] = 0]
          /\ \A o \in Routers : number[o] <= LastNumber[o]
      BY <1>8 DEF FloodTypeOK, Restart
    <3>2. \A o \in Routers : LastNumber[o] \in Nat
      BY LsuFloodingAssumption
    <3> QED BY <3>1, <3>2
  <2>2. know' \in [Routers -> [Routers -> [seq : Nat, life : 0 .. 2,
                                           age : 0 .. TopoTimeout]]]
    <3>1. Unknown \in [seq : Nat, life : 0 .. 2, age : 0 .. TopoTimeout]
      BY LsuFloodingAssumption DEF Unknown
    <3> QED BY <1>8, <3>1 DEF FloodTypeOK, Restart
  <2> QED BY <1>8, <2>1, <2>2 DEF FloodTypeOK, Restart
<1>9. CASE UNCHANGED floodVars
  BY <1>9 DEF floodVars, FloodTypeOK
<1> QED
  BY <1>1, <1>2, <1>3, <1>4, <1>5, <1>6, <1>7, <1>8, <1>9 DEF FloodNext

-----------------------------------------------------------------------------
(***************************************************************************)
(* Lives, and who is not heard.                                            *)
(***************************************************************************)
LEMMA ReceivedFrom ==
  ASSUME FloodTypeOK, NEW m \in lsus, Receive(m), NEW x \in lsus'
  PROVE  x \in lsus \/ SameLsu(x, m)
BY FloodedTypes DEF Receive

LEMMA Told ==
  ASSUME NEW r, NEW to, Tells(r, to), NEW x \in lsus'
  PROVE  x \in lsus \/ (x.origin = r /\ x.life = life[r] /\ x.to \in to)
<1>1. x \in lsus \/ x \in Announced(r, to)
  BY DEF Tells
<1> QED BY <1>1, AnnouncedIs

LEMMA NextLives ==
  ASSUME FloodTypeOK, LivesInv, UnheardInv, FloodNext
  PROVE  LivesInv'
<1>1. ASSUME UNCHANGED life,
             \A x \in lsus' : \/ x \in lsus
                              \/ ~Silent(x.origin) /\ (x.life = 2 => life[x.origin] = 2)
      PROVE  LivesInv'
  BY <1>1 DEF LivesInv, Silent
<1>2. ASSUME NEW r, NEW to, Tells(r, to), UNCHANGED life PROVE LivesInv'
  <2>1. \A x \in lsus' : x \in lsus \/ (x.origin = r /\ x.life = life[r])
    BY <1>2, Told
  <2> QED BY <1>1, <1>2, <2>1 DEF Tells
<1>3. ASSUME NEW r \in Routers, Round(r) PROVE LivesInv'
  BY <1>2, <1>3, RoundTells DEF Round
<1>4. ASSUME NEW r \in Routers, NEW s \in Routers, NewNeighbor(r, s) PROVE LivesInv'
  BY <1>1, <1>2, <1>4, NewNeighborTells DEF NewNeighbor
<1>5. ASSUME NEW m \in lsus, Receive(m) PROVE LivesInv'
  <2>1. \A x \in lsus' : x \in lsus \/ SameLsu(x, m)
    BY <1>5, ReceivedFrom
  <2> QED BY <1>1, <1>5, <2>1 DEF LivesInv, SameLsu, Receive
<1>6. ASSUME NEW r \in Routers, Kill(r) PROVE LivesInv'
  <2>1. \A m \in lsus : m.origin = r => m.life # 2
    BY <1>6 DEF LivesInv, Kill
  <2>2. life' \in [Routers -> 0 .. 2] /\ \A o \in Routers \ {r} : life'[o] = life[o]
    BY <1>6 DEF Kill, FloodTypeOK
  <2>3. \A m \in lsus : m.origin \in Routers
    BY DEF FloodTypeOK, Lsu
  <2> QED BY <1>6, <2>1, <2>2, <2>3 DEF Kill, LivesInv, Silent
<1>7. ASSUME NEW r \in Routers, Restart(r) PROVE LivesInv'
  <2>1. /\ life' \in [Routers -> 0 .. 2] /\ life'[r] = 2
        /\ \A o \in Routers \ {r} : life'[o] = life[o]
    BY <1>7 DEF Restart, FloodTypeOK
  <2>2. \A m \in lsus : m.origin \in Routers
    BY DEF FloodTypeOK, Lsu
  <2>3. r \in Mortal
    BY <1>7 DEF Restart, LivesInv
  <2> QED BY <1>7, <2>1, <2>2, <2>3 DEF Restart, LivesInv, Silent
<1>8. CASE Age \/ \E r, s \in Routers : LostNeighbor(r, s)
  BY <1>1, <1>8 DEF Age, LostNeighbor
<1>9. CASE \E m \in lsus : Lost(m)
  BY <1>1, <1>9 DEF Lost
<1> QED
  BY <1>3, <1>4, <1>5, <1>6, <1>7, <1>8, <1>9 DEF FloodNext

\* Outside a ring there is one neighbour: who does not hear it hears nobody.
LEMMA OnlyNeighbor ==
  ASSUME Rings, NEW o \in Routers, ~Silent(o), o \in Mortal,
         NEW s \in Routers, NEW t \in Routers, <<o, s>> \in Pairs, <<o, t>> \in Pairs
  PROVE  s = t
<1>1. FromOutside(o)
  BY DEF Rings, FromInside
<1>2. s # o /\ t # o
  BY Linked
<1> QED BY <1>1, <1>2 DEF FromOutside

LEMMA NextUnheard ==
  ASSUME Rings, FloodTypeOK, LivesInv, UnheardInv, FloodNext
  PROVE  UnheardInv'
<1> SUFFICES ASSUME NEW o \in Routers, ~Silent(o), NEW s \in Routers,
                    <<o, s>> \in Pairs \ hears'
             PROVE  o \in Mortal /\ \A m \in lsus' : m.origin = o => m.life # life'[o]
  BY DEF UnheardInv, Silent
<1>1. ASSUME <<o, s>> \notin hears
      PROVE  o \in Mortal /\ \A m \in lsus : m.origin = o => m.life # life[o]
  BY <1>1 DEF UnheardInv
<1>2. ASSUME <<o, s>> \notin hears, UNCHANGED life,
             \A x \in lsus' : x \in lsus \/ x.origin # o
                              \/ \E m \in lsus : SameLsu(x, m)
      PROVE  o \in Mortal /\ \A m \in lsus' : m.origin = o => m.life # life'[o]
  BY <1>1, <1>2 DEF SameLsu
<1>3. ASSUME NEW r \in Routers, Round(r)
      PROVE  o \in Mortal /\ \A m \in lsus' : m.origin = o => m.life # life'[o]
  <2>1. hears' = hears /\ life' = life /\ Tells(r, Neighbors(r))
    BY <1>3, RoundTells DEF Round
  <2>2. r = o => Neighbors(r) = {}
    <3> SUFFICES ASSUME r = o, NEW t \in Neighbors(r) PROVE FALSE
      OBVIOUS
    <3>1. t \in Routers /\ <<o, t>> \in hears /\ <<o, t>> \in Pairs
      BY DEF Neighbors, FloodTypeOK
    <3>2. o \in Mortal
      BY <1>1, <2>1
    <3> QED BY <2>1, <3>1, <3>2, OnlyNeighbor
  <2>3. \A x \in lsus' : x \in lsus \/ x.origin # o
    BY <2>1, <2>2, Told
  <2> QED BY <1>2, <2>1, <2>3
<1>4. ASSUME NEW r \in Routers, NEW t \in Routers, NewNeighbor(r, t)
      PROVE  o \in Mortal /\ \A m \in lsus' : m.origin = o => m.life # life'[o]
  <2>1. /\ hears' = hears \cup {<<r, t>>} /\ life' = life /\ <<r, t>> \in Pairs
        /\ <<o, s>> \notin hears
    BY <1>4 DEF NewNeighbor
  <2>2. r # o
    <3>1. o \in Mortal
      BY <1>1, <2>1
    <3> QED BY <2>1, <3>1, OnlyNeighbor
  <2>3. \A x \in lsus' : x \in lsus \/ x.origin # o
    BY <1>4, <2>2, NewNeighborTells, Told
  <2> QED BY <1>2, <2>1, <2>3
<1>5. ASSUME NEW r \in Routers, NEW t \in Routers, LostNeighbor(r, t)
      PROVE  o \in Mortal /\ \A m \in lsus' : m.origin = o => m.life # life'[o]
  <2>1. t \in Mortal
    BY <1>5 DEF LostNeighbor, LivesInv, Up, FloodTypeOK
  <2>2. s \notin Mortal
    BY DEF Rings
  <2>3. <<o, s>> \notin hears
    BY <1>5, <2>1, <2>2 DEF LostNeighbor
  <2> QED BY <1>2, <1>5, <2>3 DEF LostNeighbor
<1>6. ASSUME NEW m \in lsus, Receive(m)
      PROVE  o \in Mortal /\ \A x \in lsus' : x.origin = o => x.life # life'[o]
  <2>1. \A x \in lsus' : x \in lsus \/ SameLsu(x, m)
    BY <1>6, ReceivedFrom
  <2> QED BY <1>2, <1>6, <2>1 DEF Receive
<1>7. ASSUME NEW m \in lsus, Lost(m)
      PROVE  o \in Mortal /\ \A x \in lsus' : x.origin = o => x.life # life'[o]
  BY <1>2, <1>7 DEF Lost
<1>8. CASE Age
  BY <1>2, <1>8 DEF Age
<1>9. ASSUME NEW r \in Routers, Kill(r)
       PROVE  o \in Mortal /\ \A m \in lsus' : m.origin = o => m.life # life'[o]
  <2>1. o \in Mortal /\ \A m \in lsus' : m.origin = o => m.life # life[o]
    BY <1>1, <1>9 DEF Kill
  <2>2. \A m \in lsus' : m.life \in 1 .. 2
    BY <1>9 DEF Kill, FloodTypeOK, Lsu
  <2>3. life'[o] = life[o] \/ life'[o] = 0
    BY <1>9 DEF Kill, FloodTypeOK
  <2> QED BY <2>1, <2>2, <2>3
<1>10. ASSUME NEW r \in Routers, Restart(r)
       PROVE  o \in Mortal /\ \A m \in lsus' : m.origin = o => m.life # life'[o]
  <2>1. CASE r = o
    <3>1. o \in Mortal /\ \A m \in lsus : m.origin = o => m.life # 2
      BY <1>10, <2>1 DEF Restart, LivesInv
    <3>2. life'[o] = 2 /\ lsus' = lsus
      BY <1>10, <2>1 DEF Restart, FloodTypeOK
    <3> QED BY <3>1, <3>2
  <2>2. CASE r # o
    <3>1. <<o, s>> \notin hears /\ life'[o] = life[o] /\ lsus' = lsus
      BY <1>10, <2>2 DEF Restart, FloodTypeOK
    <3> QED BY <1>1, <3>1
  <2> QED BY <2>1, <2>2
<1> QED
  BY <1>3, <1>4, <1>5, <1>6, <1>7, <1>8, <1>9, <1>10 DEF FloodNext

-----------------------------------------------------------------------------
(***************************************************************************)
(* The copies of an LSU.                                                   *)
(***************************************************************************)
LEMMA Fewer ==
  ASSUME NEW o, Copies(o)' \subseteq Copies(o), Inside(o) \/ Outside(o)
  PROVE  Inside(o)' \/ Outside(o)'
<1>1. Inside(o) => Inside(o)'
  BY DEF Inside, OneEachWay
<1>2. Outside(o) => Outside(o)'
  BY DEF Outside, OneEachWay
<1> QED BY <1>1, <1>2

LEMMA FewerCopies == ASSUME CopiesInv, lsus' \subseteq lsus PROVE CopiesInv'
<1> SUFFICES ASSUME NEW o \in Routers, ~Silent(o) PROVE Inside(o)' \/ Outside(o)'
  BY DEF CopiesInv, Silent
<1>1. Copies(o)' \subseteq Copies(o)
  BY DEF Copies
<1> QED BY <1>1, Fewer DEF CopiesInv

\* An LSU is told to each neighbour at most once.
LEMMA ToldCopies ==
  ASSUME FloodTypeOK, CopiesInv, NEW r, NEW to, Tells(r, to)
  PROVE  CopiesInv'
<1> SUFFICES ASSUME NEW o \in Routers, ~Silent(o) PROVE Inside(o)' \/ Outside(o)'
  BY DEF CopiesInv, Silent
<1>0. \A s \in to : s \in Routers /\ <<r, s>> \in Pairs
  BY DEF Tells
<1>1. /\ r \in Routers /\ lsus' = lsus \cup Announced(r, to)
      /\ \A m \in lsus : m.origin = r => m.life # life[r]
  BY DEF Tells
<1>2. \A m \in Announced(r, to) :
        /\ m.from = r /\ m.origin = r /\ m.life = life[r] /\ m.to \in to
        /\ m = [from |-> r, to |-> m.to, origin |-> r, seq |-> number[r],
                life |-> life[r], ttl |-> LsuTtl]
  BY AnnouncedIs
<1>3. CASE o # r
  <2>1. Copies(o)' \subseteq Copies(o)
    BY <1>1, <1>2, <1>3 DEF Copies
  <2> QED BY <2>1, Fewer DEF CopiesInv
<1>4. CASE o = r
  <2>1. \A m \in Copies(o)' : m \in Copies(o) \/ (m \in Announced(r, to) /\ m.to # o)
    BY <1>1 DEF Copies
  <2>2. \A m \in Announced(r, to), n \in Copies(o) : ~SameLsu(m, n) /\ ~SameLsu(n, m)
    BY <1>1, <1>2, <1>4 DEF SameLsu, Copies
  <2>3. \A m, n \in Announced(r, to) : m.to = n.to => m = n
    BY <1>2
  <2>4. CASE Inside(o)
    <3>1. PICK next \in [Routers -> Routers] :
            Ring(Routers, next) /\ OneEachWay(Copies(o), next)
      BY <2>4 DEF Inside
    <3>2. \A m, n \in Announced(r, to) : SameWay(m, n, next) => m.to = n.to
      BY <1>0, <1>1, <1>2, <3>1 DEF SameWay, Ahead, Behind, Ring
    <3>3. OneEachWay(Copies(o)', next)
      BY <2>1, <2>2, <2>3, <3>1, <3>2 DEF OneEachWay
    <3> QED BY <2>4, <3>1, <3>3 DEF Inside
  <2>5. CASE Outside(o)
    <3> DEFINE Rest == Routers \ {o}
    <3>1. PICK next \in [Rest -> Rest] :
            Ring(Rest, next) /\ OneEachWay({m \in Copies(o) : m.from # o}, next)
      BY <2>5 DEF Outside
    <3>2. \A m, n \in Announced(r, to) : m.to # o /\ n.to # o => m.to = n.to
      <4> SUFFICES ASSUME NEW m \in Announced(r, to), NEW n \in Announced(r, to),
                          m.to # o, n.to # o
                   PROVE  m.to = n.to
        OBVIOUS
      <4>1. m.to \in Rest /\ n.to \in Rest /\ <<o, m.to>> \in Pairs /\ <<o, n.to>> \in Pairs
        BY <1>0, <1>1, <1>2, <1>4
      <4> QED BY <2>5, <4>1 DEF Outside
    <3>3. {m \in Copies(o)' : m.from # o} \subseteq {m \in Copies(o) : m.from # o}
      BY <1>2, <1>4, <2>1
    <3>4. OneEachWay({m \in Copies(o)' : m.from # o}, next)
      BY <3>1, <3>3 DEF OneEachWay
    <3>5. \A m, n \in Copies(o)' : SameLsu(m, n) /\ m.from = o => m = n
      BY <2>1, <2>2, <2>3, <2>5, <3>2 DEF Outside
    <3> QED BY <2>5, <3>1, <3>4, <3>5 DEF Outside
  <2> QED BY <1>4, <2>4, <2>5 DEF CopiesInv
<1> QED BY <1>3, <1>4

(***************************************************************************)
(* A router of a ring that has an LSU from one side passes it on to the    *)
(* other, so it goes on in its direction.                                  *)
(***************************************************************************)
LEMMA GoesOn ==
  ASSUME NEW S, NEW next \in [S -> S], Ring(S, next),
         NEW m, m.from \in S, m.to \in S, <<m.from, m.to>> \in Pairs,
         NEW x, x.from = m.to, x.to \in S, x.to # m.from, <<x.from, x.to>> \in Pairs
  PROVE  \/ Ahead(m, next) /\ Ahead(x, next) /\ ~Behind(x, next)
         \/ Behind(m, next) /\ Behind(x, next) /\ ~Ahead(x, next)
BY DEF Ring, Ahead, Behind

LEMMA FloodedCopies ==
  ASSUME FloodTypeOK, CopiesInv, NEW m \in lsus, m.to # m.origin,
         NEW valid, lsus' = (lsus \ {m}) \cup Flooded(m, valid)
  PROVE  CopiesInv'
<1> SUFFICES ASSUME NEW o \in Routers, ~Silent(o) PROVE Inside(o)' \/ Outside(o)'
  BY DEF CopiesInv, Silent
<1> DEFINE F == Flooded(m, valid)
<1>1. m \in Lsu /\ m.from \in Routers /\ m.to \in Routers /\ <<m.from, m.to>> \in Pairs
  BY DEF FloodTypeOK, Lsu
<1>2. \A x \in F : /\ <<x.from, x.to>> \in Pairs /\ x.from \in Routers /\ x.to \in Routers
                   /\ SameLsu(x, m) /\ x.from = m.to /\ x.to # m.from
                   /\ x = [m EXCEPT !.from = m.to, !.to = x.to, !.ttl = TtlLeft(m)]
  <2> SUFFICES ASSUME NEW x \in F
               PROVE  /\ <<x.from, x.to>> \in Pairs
                      /\ x.from \in Routers /\ x.to \in Routers
                      /\ SameLsu(x, m) /\ x.from = m.to /\ x.to # m.from
                      /\ x = [m EXCEPT !.from = m.to, !.to = x.to, !.ttl = TtlLeft(m)]
    OBVIOUS
  <2>1. /\ x \in Lsu /\ <<x.from, x.to>> \in Pairs
        /\ SameLsu(x, m) /\ x.from = m.to /\ x.to # m.from
        /\ x = [m EXCEPT !.from = m.to, !.to = x.to, !.ttl = TtlLeft(m)]
    BY FloodedTypes
  <2>2. x.from \in Routers /\ x.to \in Routers
    BY <2>1 DEF Lsu
  <2> QED BY <2>1, <2>2
<1> HIDE DEF F
<1>3. CASE o # m.origin
  <2>1. Copies(o)' \subseteq Copies(o)
    BY <1>2, <1>3 DEF Copies, SameLsu, F
  <2> QED BY <2>1, Fewer DEF CopiesInv
<1>4. CASE o = m.origin
  <2>1. m \in Copies(o)
    BY <1>4 DEF Copies
  <2>2. \A x \in Copies(o)' : (x \in Copies(o) /\ x # m) \/ (x \in F /\ x.to # o)
    BY DEF Copies, F
  <2>3. \A x, y \in F : x.to = y.to => x = y
    BY <1>2
  <2>4. \A x \in F : \A y : /\ SameLsu(x, y) => SameLsu(m, y)
                            /\ SameLsu(y, x) => SameLsu(y, m)
    BY <1>2 DEF SameLsu
  <2>5. CASE Inside(o)
    <3>1. PICK next \in [Routers -> Routers] :
            Ring(Routers, next) /\ OneEachWay(Copies(o), next)
      BY <2>5 DEF Inside
    <3>2. \A x \in F : \/ Ahead(m, next) /\ Ahead(x, next) /\ ~Behind(x, next)
                       \/ Behind(m, next) /\ Behind(x, next) /\ ~Ahead(x, next)
      BY <1>1, <1>2, <3>1, GoesOn
    <3>3. ASSUME NEW x \in F, NEW y \in F, SameWay(x, y, next) PROVE x = y
      <4>1. x.to \in Routers /\ y.to \in Routers /\ x.from = y.from
        BY <1>2
      <4>2. x.to = y.to
        BY <3>1, <3>3, <4>1 DEF SameWay, Ahead, Behind, Ring
      <4> QED BY <2>3, <4>2
    <3>4. ASSUME NEW x \in F, NEW y \in Copies(o), y # m, SameLsu(m, y) \/ SameLsu(y, m)
          PROVE  ~SameWay(x, y, next) /\ ~SameWay(y, x, next)
      BY <2>1, <3>1, <3>2, <3>4 DEF SameWay, OneEachWay, SameLsu
    <3>5. OneEachWay(Copies(o)', next)
      <4> SUFFICES ASSUME NEW x \in Copies(o)', NEW y \in Copies(o)',
                          SameLsu(x, y), SameWay(x, y, next)
                   PROVE  x = y
        BY DEF OneEachWay
      <4>1. CASE x \in F /\ y \in F
        BY <3>3, <4>1
      <4>2. CASE x \in F /\ y \in Copies(o) /\ y # m
        BY <2>4, <3>4, <4>2
      <4>3. CASE y \in F /\ x \in Copies(o) /\ x # m
        BY <2>4, <3>4, <4>3
      <4>4. CASE x \in Copies(o) /\ y \in Copies(o)
        BY <3>1, <4>4 DEF OneEachWay
      <4> QED BY <2>2, <4>1, <4>2, <4>3, <4>4
    <3> QED BY <2>5, <3>1, <3>5 DEF Inside
  <2>6. CASE Outside(o)
    <3> DEFINE Rest == Routers \ {o}
    <3>1. PICK next \in [Rest -> Rest] :
            Ring(Rest, next) /\ OneEachWay({x \in Copies(o) : x.from # o}, next)
      BY <2>6 DEF Outside
    <3>2. \A x, y \in Copies(o) : SameLsu(x, y) /\ x.from = o => x = y
      BY <2>6 DEF Outside
    <3>3. m.to \in Rest /\ \A x \in F : x.from \in Rest /\ x.from # o
      BY <1>1, <1>2, <1>4
    <3>4. ASSUME NEW x \in F, NEW y \in F, x.to # o, y.to # o, SameWay(x, y, next)
          PROVE  x = y
      <4>1. x.to \in Rest /\ y.to \in Rest /\ x.from = y.from
        BY <1>2, <3>4
      <4>2. x.to = y.to
        BY <3>1, <3>4, <4>1 DEF SameWay, Ahead, Behind, Ring
      <4> QED BY <2>3, <4>2
    <3>5. ASSUME NEW x \in F, x.to # o, NEW y \in Copies(o), y # m, y.from # o,
                 SameLsu(m, y) \/ SameLsu(y, m)
          PROVE  ~SameWay(x, y, next) /\ ~SameWay(y, x, next)
      <4>1. SameLsu(m, y) /\ SameLsu(y, m)
        BY <3>5 DEF SameLsu
      <4>2. m.from # o
        BY <2>1, <3>2, <3>5, <4>1
      <4>3. m.from \in Rest /\ x.to \in Rest
        BY <1>1, <1>2, <3>5, <4>2
      <4>4. \/ Ahead(m, next) /\ Ahead(x, next) /\ ~Behind(x, next)
            \/ Behind(m, next) /\ Behind(x, next) /\ ~Ahead(x, next)
        <5> HIDE DEF Rest
        <5> QED BY <1>1, <1>2, <3>1, <3>3, <4>3, GoesOn
      <4>5. ~SameWay(m, y, next)
        BY <2>1, <3>1, <3>5, <4>1, <4>2 DEF OneEachWay
      <4> QED BY <4>4, <4>5 DEF SameWay
    <3>6. OneEachWay({x \in Copies(o)' : x.from # o}, next)
      <4> SUFFICES ASSUME NEW x \in Copies(o)', NEW y \in Copies(o)',
                          x.from # o, y.from # o, SameLsu(x, y), SameWay(x, y, next)
                   PROVE  x = y
        BY DEF OneEachWay
      <4>1. CASE x \in F /\ y \in F /\ x.to # o /\ y.to # o
        BY <3>4, <4>1
      <4>2. CASE x \in F /\ x.to # o /\ y \in Copies(o) /\ y # m
        BY <2>4, <3>5, <4>2
      <4>3. CASE y \in F /\ y.to # o /\ x \in Copies(o) /\ x # m
        BY <2>4, <3>5, <4>3
      <4>4. CASE x \in Copies(o) /\ y \in Copies(o)
        BY <3>1, <4>4 DEF OneEachWay
      <4> QED BY <2>2, <4>1, <4>2, <4>3, <4>4
    <3>7. \A x, y \in Copies(o)' : SameLsu(x, y) /\ x.from = o => x = y
      <4> SUFFICES ASSUME NEW x \in Copies(o)', NEW y \in Copies(o)',
                          SameLsu(x, y), x.from = o
                   PROVE  x = y
        OBVIOUS
      <4>1. x \in Copies(o) /\ x # m
        BY <2>2, <3>3
      <4>2. ~SameLsu(x, m)
        BY <2>1, <3>2, <4>1
      <4>3. y \in Copies(o)
        BY <2>2, <2>4, <4>2
      <4> QED BY <3>2, <4>1, <4>3
    <3> QED BY <2>6, <3>1, <3>6, <3>7 DEF Outside
  <2> QED BY <2>5, <2>6 DEF CopiesInv
<1> QED BY <1>3, <1>4

LEMMA NextCopies ==
  ASSUME FloodTypeOK, UnheardInv, CopiesInv, FloodNext
  PROVE  CopiesInv'
<1>1. ASSUME NEW r \in Routers, Round(r) PROVE CopiesInv'
  BY <1>1, RoundTells, ToldCopies
<1>2. ASSUME NEW r \in Routers, NEW s \in Routers, NewNeighbor(r, s) PROVE CopiesInv'
  BY <1>2, NewNeighborTells, ToldCopies, FewerCopies
<1>3. ASSUME NEW m \in lsus, Receive(m) PROVE CopiesInv'
  <2>1. CASE Taken(m)
    <3>1. PICK valid : lsus' = (lsus \ {m}) \cup Flooded(m, valid)
      BY <1>3, <2>1 DEF Receive
    <3>2. m.to # m.origin
      BY <2>1 DEF Taken, Own
    <3> QED BY <3>1, <3>2, FloodedCopies
  <2>2. CASE ~Taken(m)
    BY <1>3, <2>2, FewerCopies DEF Receive
  <2> QED BY <2>1, <2>2
<1>4. CASE \E m \in lsus : Lost(m)
  BY <1>4, FewerCopies DEF Lost
<1>5. CASE Age \/ \E r \in Routers : Kill(r) \/ Restart(r) \/ \E s \in Routers : LostNeighbor(r, s)
  BY <1>5, FewerCopies DEF Age, Kill, Restart, LostNeighbor
<1> QED
  BY <1>1, <1>2, <1>3, <1>4, <1>5 DEF FloodNext

LEMMA FloodStep ==
  Rings /\ FloodInv /\ [FloodNext]_floodVars => FloodInv'
<1> SUFFICES ASSUME Rings, FloodInv, [FloodNext]_floodVars
             PROVE  FloodInv'
  OBVIOUS
<1>1. FloodTypeOK'
  BY NextTypes DEF FloodInv
<1>2. CASE FloodNext
  <2>1. LivesInv' /\ UnheardInv' /\ CopiesInv'
    BY <1>2, NextLives, NextUnheard, NextCopies DEF FloodInv
  <2> QED BY <1>1, <2>1 DEF FloodInv
<1>3. CASE UNCHANGED floodVars
  <2>1. LivesInv' /\ UnheardInv'
    BY <1>3 DEF floodVars, FloodInv, LivesInv, UnheardInv, Silent
  <2>2. CopiesInv'
    BY <1>3, FewerCopies DEF floodVars, FloodInv
  <2> QED BY <1>1, <2>1, <2>2 DEF FloodInv
<1> QED BY <1>2, <1>3

LEMMA CopiesOnLinks ==
  ASSUME Rings, FloodInv PROVE OneCopyPerLink
<1> SUFFICES ASSUME NEW m \in lsus, NEW n \in lsus, SameLsu(m, n), SameHop(m, n),
                    m.to # m.origin
             PROVE  m = n
  BY DEF OneCopyPerLink
<1> DEFINE o == m.origin
<1>1. /\ o \in Routers /\ ~Silent(o) /\ m \in Copies(o) /\ n \in Copies(o)
      /\ m.from \in Routers /\ m.to \in Routers /\ <<m.from, m.to>> \in Pairs
      /\ n.from = m.from /\ n.to = m.to
  BY DEF FloodInv, FloodTypeOK, Lsu, LivesInv, Copies, SameLsu, SameHop
<1> HIDE DEF o
<1>2. CASE Inside(o)
  <2>1. PICK next \in [Routers -> Routers] :
          Ring(Routers, next) /\ OneEachWay(Copies(o), next)
    BY <1>2 DEF Inside
  <2>2. SameWay(m, n, next)
    BY <1>1, <2>1 DEF Ring, SameWay, Ahead, Behind
  <2> QED BY <1>1, <2>1, <2>2 DEF OneEachWay
<1>3. CASE Outside(o)
  <2> DEFINE Rest == Routers \ {o}
  <2>1. PICK next \in [Rest -> Rest] :
          Ring(Rest, next) /\ OneEachWay({x \in Copies(o) : x.from # o}, next)
    BY <1>3 DEF Outside
  <2>2. CASE m.from = o
    BY <1>1, <1>3, <2>2 DEF Outside
  <2>3. CASE m.from # o
    <3>1. m.from \in Rest /\ m.to \in Rest
      BY <1>1, <2>3 DEF Copies
    <3>2. SameWay(m, n, next)
      BY <1>1, <2>1, <3>1 DEF Ring, SameWay, Ahead, Behind
    <3> QED BY <1>1, <2>1, <2>3, <3>2 DEF OneEachWay
  <2> QED BY <2>2, <2>3
<1> QED
  BY <1>1, <1>2, <1>3 DEF FloodInv, CopiesInv

(***************************************************************************)
(* In every network, whoever is killed and started again, the variables    *)
(* keep their types: a TTL is never below 0, and every LSU is on a link.   *)
(***************************************************************************)
THEOREM FloodTypes == FloodSpec => []FloodTypeOK
<1>1. FloodInit => FloodTypeOK
  BY LsuFloodingAssumption DEF FloodInit, FloodTypeOK, Unknown
<1>2. FloodTypeOK /\ [FloodNext]_floodVars => FloodTypeOK'
  BY NextTypes
<1> QED BY <1>1, <1>2, PTL DEF FloodSpec

(***************************************************************************)
(* In every network of rings the copies of an LSU never share a link in    *)
(* the same direction, however long the rings are, whoever is killed and   *)
(* started again, and whatever is lost.                                    *)
(***************************************************************************)
THEOREM CopiesDoNotMultiply ==
  Rings => (FloodSpec => []OneCopyPerLink)
<1> SUFFICES ASSUME Rings PROVE FloodSpec => []OneCopyPerLink
  OBVIOUS
<1>1. FloodInit => FloodInv
  BY InitFlood
<1>2. FloodInv /\ [FloodNext]_floodVars => FloodInv'
  BY FloodStep
<1>3. FloodInv => OneCopyPerLink
  BY CopiesOnLinks
<1> QED BY <1>1, <1>2, <1>3, PTL DEF FloodSpec
=============================================================================
