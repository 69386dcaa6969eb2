---------------------------- MODULE RouterStart -----------------------------
(***************************************************************************)
(* How a router starts: its session with the POX module that connects it   *)
(* to its switch (authentication, open, hardware information, packets) and *)
(* the PWOSPF thread that chooses the router id and adds the connected     *)
(* routes from the interfaces the session brings.                          *)
(*                                                                         *)
(* Four threads: of POX, the one for switches (ofhandler.py) and the       *)
(* reactor for routers (srhandler.py); of the router, the main thread and  *)
(* pwospf_run_thread.  One switch and one router, which may be killed and  *)
(* started again.  What the thread sleeps, five seconds, may be more or    *)
(* less than the session takes.  An interface's name, a positive number,   *)
(* also stands for its address and for its network.                        *)
(***************************************************************************)
EXTENDS Naturals, Sequences, FiniteSets

CONSTANTS
  Ifaces,     \* interfaces of the switch, numbered in the order of their addresses
  Junk,       \* what memory from malloc may hold where an address belongs
  MaxConns,   \* bound: times the router is started
  MaxPackets  \* bound: messages under way to the router

NoConn == 0
NoNet == 0
Conns == 1 .. MaxConns

ASSUME StartAssumption ==
  /\ Ifaces \subseteq Nat \ {0} /\ Ifaces # {} /\ IsFiniteSet(Ifaces)
  /\ Junk \subseteq Nat /\ Junk # {}
  /\ MaxConns \in Nat \ {0} /\ MaxPackets \in Nat

VARIABLES
  known,     \* RouterInfo: the listener has the interfaces and ports of vhost
  client,    \* srclients[vhost], a connection
  opening,   \* the open message being handled by the reactor, or NoConn
  conn,      \* connection of the router, the latest
  lost,      \* ... closed by the server
  toRouter,  \* messages under way on it
  toServer,  \* messages under way on each connection
  main,      \* where the main thread is
  ifs,       \* if_list
  run,       \* where pwospf_run_thread is
  id,        \* g_router_id
  routes,    \* networks with a connected route
  whole      \* the interfaces were complete when pwospf_run_thread woke

server == <<known, client, opening>>
session == <<conn, lost, toRouter, toServer>>
router == <<main, ifs, run, id, routes, whole>>
vars == <<server, session, router>>

Alive == main \notin {"down", "aborted"}

Msg(type) == [type |-> type, iface |-> 0]
Packet(i) == [type |-> "packet", iface |-> i]
Messages == {Msg(t) : t \in {"authRequest", "authStatus", "hwinfo"}}
              \cup {Packet(i) : i \in Ifaces}

Send(m) == toRouter' = Append(toRouter, m)
\* What is written to a connection that is not there any more is lost.
SendOn(c, m) == IF c = conn /\ Alive /\ ~lost THEN Send(m) ELSE UNCHANGED toRouter

Names == {ifs[k].name : k \in DOMAIN ifs}
Complete(f) == f.ip = f.name /\ f.masked
AllSet == Names = Ifaces /\ \A k \in DOMAIN ifs : Complete(ifs[k])

Asleep == [at |-> "asleep", pos |-> 0]
NotStarted == [at |-> "none", pos |-> 0]

Init ==
  /\ known = FALSE /\ client = NoConn /\ opening = NoConn
  /\ conn = NoConn /\ lost = FALSE
  /\ toRouter = <<>> /\ toServer = [c \in Conns |-> <<>>]
  /\ main = "down" /\ ifs = <<>> /\ run = NotStarted
  /\ id = 0 /\ routes = {} /\ whole = FALSE
-----------------------------------------------------------------------------
(***************************************************************************)
(* POX, the thread for switches: a switch connects and RouterInfo gives    *)
(* the listener its interfaces; a packet goes to the vhost's router, if    *)
(* one has opened (send_to_vhost raises KeyError otherwise).               *)
(***************************************************************************)
SwitchUp ==
  /\ ~known /\ known' = TRUE
  /\ UNCHANGED <<client, opening, session, router>>

PacketIn(i) ==
  /\ known /\ client # NoConn
  /\ Len(toRouter) < MaxPackets
  /\ SendOn(client, Packet(i))
  /\ UNCHANGED <<server, conn, lost, toServer, router>>
-----------------------------------------------------------------------------
(***************************************************************************)
(* POX, the reactor: it asks a new client to authenticate, answers its     *)
(* reply, always with success, registers the client that opens and sends   *)
(* it the hardware information.  Without any, the look-up fails outside    *)
(* the try, and the library drops the connection or keeps it.              *)
(***************************************************************************)
Received(c, type) ==
  /\ opening = NoConn
  /\ toServer[c] # <<>> /\ Head(toServer[c]) = type
  /\ toServer' = [toServer EXCEPT ![c] = Tail(@)]

AcceptRegisters(c) ==
  /\ Received(c, "connect")
  /\ SendOn(c, Msg("authRequest"))
  /\ client' = c
  /\ UNCHANGED <<known, opening, conn, lost, router>>

Accept(c) ==
  /\ Received(c, "connect")
  /\ SendOn(c, Msg("authRequest"))
  /\ UNCHANGED <<server, conn, lost, router>>

AuthReply(c) ==
  /\ Received(c, "authReply")
  /\ SendOn(c, Msg("authStatus"))
  /\ UNCHANGED <<server, conn, lost, router>>

Open(c) ==
  /\ Received(c, "open")
  /\ client' = c
  /\ opening' = c
  /\ UNCHANGED <<known, conn, lost, toRouter, router>>

SendHardwareAndForget ==
  /\ opening # NoConn
  /\ \/ known /\ SendOn(opening, Msg("hwinfo")) /\ UNCHANGED lost
     \/ ~known /\ UNCHANGED <<lost, toRouter>>
  /\ opening' = NoConn /\ known' = FALSE
  /\ UNCHANGED <<client, conn, toServer, router>>

SendHardware ==
  /\ opening # NoConn
  /\ \/ known /\ SendOn(opening, Msg("hwinfo")) /\ UNCHANGED lost
     \/ ~known /\ lost' = (lost \/ opening = conn) /\ UNCHANGED toRouter
     \/ ~known /\ UNCHANGED <<lost, toRouter>>
  /\ opening' = NoConn
  /\ UNCHANGED <<known, client, conn, toServer, router>>
-----------------------------------------------------------------------------
(***************************************************************************)
(* The router: killed at any time (the listener keeps it registered), and  *)
(* started again.                                                          *)
(***************************************************************************)
Died(how) ==
  /\ main' = how /\ ifs' = <<>> /\ run' = NotStarted
  /\ id' = 0 /\ routes' = {} /\ whole' = FALSE
  /\ toRouter' = <<>>

Quit ==
  /\ Alive
  /\ Died("down")
  /\ UNCHANGED <<server, conn, lost, toServer>>

Connect ==
  /\ ~Alive /\ conn < MaxConns
  /\ conn' = conn + 1 /\ lost' = FALSE
  /\ toServer' = [toServer EXCEPT ![conn + 1] = <<"connect">>]
  /\ main' = "authRequest"
  /\ UNCHANGED <<server, toRouter, ifs, run, id, routes, whole>>

\* The next message, in sr_read_from_server_expect; an unexpected one ends it.
Reads == toRouter # <<>> /\ toRouter' = Tail(toRouter)
Expect(type, next) ==
  main' = IF Head(toRouter).type = type THEN next ELSE "down"
Writes(type) == toServer' = [toServer EXCEPT ![conn] = Append(@, type)]

Authenticate ==
  /\ main = "authRequest" /\ Reads
  /\ Expect("authRequest", "authStatus")
  /\ Writes("authReply")
  /\ UNCHANGED <<server, conn, lost, ifs, run, id, routes, whole>>

SendOpen ==
  /\ main = "authStatus" /\ Reads
  /\ Expect("authStatus", "init")
  /\ Writes("open")
  /\ UNCHANGED <<server, conn, lost, ifs, run, id, routes, whole>>

\* sr_init, and in it pwospf_init, with whatever interfaces there are.
SrInit ==
  /\ main = "init"
  /\ main' = "read"
  /\ run' = Asleep
  /\ UNCHANGED <<server, session, ifs, id, routes, whole>>

(***************************************************************************)
(* A packet for an interface the router has is handled: the part of it     *)
(* that matters here is PWOSPF's, which discards it while there is no id.  *)
(* For another one the assertion of sr_arp_req_not_for_us fails.           *)
(***************************************************************************)
PacketNext == toRouter # <<>> /\ Head(toRouter).type = "packet"

HandlePacket ==
  /\ main = "read" /\ PacketNext /\ Reads
  /\ Head(toRouter).iface \in Names
  /\ UNCHANGED <<server, conn, lost, toServer, router>>

Abort ==
  /\ main = "read" /\ PacketNext
  /\ Head(toRouter).iface \notin Names
  /\ Died("aborted")
  /\ UNCHANGED <<server, conn, lost, toServer>>

\* recv returns 0 when the connection is closed: the loop never ends.
Deaf ==
  /\ main = "read" /\ toRouter = <<>> /\ lost
  /\ main' = "deaf"
  /\ UNCHANGED <<server, session, ifs, run, id, routes, whole>>
-----------------------------------------------------------------------------
(***************************************************************************)
(* sr_handle_hwinfo: for each interface, sr_add_interface puts memory at   *)
(* the end of the list, in which the address, the mask and, for a moment,  *)
(* the pointer to the next one are whatever was there; then come the       *)
(* address and the mask.                                                   *)
(***************************************************************************)
ReadHardware ==
  /\ main = "read" /\ Reads
  /\ Head(toRouter).type = "hwinfo"
  /\ main' = "add"
  /\ UNCHANGED <<server, conn, lost, toServer, ifs, run, id, routes, whole>>

AddInterface(i) ==
  /\ main = "add" /\ i \in Ifaces \ Names
  /\ \E junk \in Junk :
       ifs' = Append(ifs, [name |-> i, ip |-> junk, masked |-> FALSE,
                           ended |-> FALSE])
  /\ main' = "end"
  /\ UNCHANGED <<server, session, run, id, routes, whole>>

LastIface(field, value) == ifs' = [ifs EXCEPT ![Len(ifs)][field] = value]

EndList ==
  /\ main = "end" /\ LastIface("ended", TRUE)
  /\ main' = "ip"
  /\ UNCHANGED <<server, session, run, id, routes, whole>>

SetIp ==
  /\ main = "ip" /\ LastIface("ip", ifs[Len(ifs)].name)
  /\ main' = "mask"
  /\ UNCHANGED <<server, session, run, id, routes, whole>>

SetMask ==
  /\ main = "mask" /\ LastIface("masked", TRUE)
  /\ main' = IF Names = Ifaces THEN "read" ELSE "add"
  /\ UNCHANGED <<server, session, run, id, routes, whole>>
-----------------------------------------------------------------------------
(***************************************************************************)
(* pwospf_run_thread: over the interfaces again and again until one has an *)
(* address, then over them once more for the connected routes.  It may     *)
(* follow the pointer that is not set yet: to nothing, or to its end.      *)
(***************************************************************************)
Wake ==
  /\ run = Asleep
  /\ run' = [at |-> "id", pos |-> 1]
  /\ whole' = AllSet
  /\ UNCHANGED <<server, session, main, ifs, id, routes>>

Different(ip) == ip # id
Higher(ip) == ip > id

ChooseId ==
  /\ run.at = "id" /\ run.pos \in DOMAIN ifs
  /\ id' = IF Higher(ifs[run.pos].ip) THEN ifs[run.pos].ip ELSE id
  /\ run' = [run EXCEPT !.pos = @ + 1]
  /\ UNCHANGED <<server, session, main, ifs, routes, whole>>

Chosen ==
  /\ run.at = "id" /\ run.pos > Len(ifs)
  /\ run' = [at |-> IF id = 0 THEN "id" ELSE "routes", pos |-> 1]
  /\ UNCHANGED <<server, session, main, ifs, id, routes, whole>>

Net(f) == IF Complete(f) THEN f.name ELSE NoNet

AddRoute ==
  /\ run.at = "routes" /\ run.pos \in DOMAIN ifs
  /\ routes' = routes \cup {Net(ifs[run.pos])}
  /\ run' = [run EXCEPT !.pos = @ + 1]
  /\ UNCHANGED <<server, session, main, ifs, id, whole>>

WildPointer ==
  /\ run.at \in {"id", "routes"} /\ run.pos \in DOMAIN ifs
  /\ ~ifs[run.pos].ended
  /\ Died("aborted")
  /\ UNCHANGED <<server, conn, lost, toServer>>

\* The subsystem's threads are started.
Started ==
  /\ run.at = "routes" /\ run.pos > Len(ifs)
  /\ run' = [at |-> "done", pos |-> 0]
  /\ UNCHANGED <<server, session, main, ifs, id, routes, whole>>
-----------------------------------------------------------------------------
Serve(c) == Accept(c) \/ AuthReply(c) \/ Open(c)
Reactor == (\E c \in Conns : Serve(c)) \/ SendHardware
HwInfo ==
  (\E i \in Ifaces : AddInterface(i)) \/ EndList \/ SetIp \/ SetMask
Main ==
  \/ Authenticate \/ SendOpen \/ SrInit
  \/ HandlePacket \/ Abort \/ Deaf \/ ReadHardware \/ HwInfo
RunThread == Wake \/ ChooseId \/ Chosen \/ AddRoute \/ WildPointer \/ Started

Next ==
  \/ SwitchUp \/ \E i \in Ifaces : PacketIn(i)
  \/ Reactor
  \/ Quit \/ Connect \/ Main \/ RunThread

\* Threads run.  No switch or router is obliged to come, no packet to be sent.
Fairness ==
  /\ \A c \in Conns : WF_vars(Serve(c))
  /\ WF_vars(SendHardware) /\ WF_vars(Main) /\ WF_vars(RunThread)

Spec == Init /\ [][Next]_vars
FairSpec == Spec /\ Fairness
-----------------------------------------------------------------------------
\* Every variable has its type.
TypeOK ==
  /\ known \in BOOLEAN /\ lost \in BOOLEAN /\ whole \in BOOLEAN
  /\ client \in Conns \cup {NoConn} /\ opening \in Conns \cup {NoConn}
  /\ conn \in Conns \cup {NoConn}
  /\ toRouter \in Seq(Messages)
  /\ toServer \in [Conns -> Seq({"connect", "authReply", "open"})]
  /\ main \in {"down", "aborted", "authRequest", "authStatus", "init", "read",
               "add", "end", "ip", "mask", "deaf"}
  /\ ifs \in Seq([name : Ifaces, ip : Ifaces \cup Junk, masked : BOOLEAN,
                  ended : BOOLEAN])
  /\ run \in [at : {"none", "asleep", "id", "routes", "done"}, pos : Nat]
  /\ id \in Ifaces \cup Junk \cup {0}
  /\ routes \subseteq Ifaces \cup {NoNet}

(***************************************************************************)
(* The two ends agree on where the session is: what a router that is       *)
(* authenticating gets first is what it expects, although packets for the  *)
(* vhost, and what a router before it sent, go on.                         *)
(***************************************************************************)
HandshakeInOrder ==
  main \in {"authRequest", "authStatus"} /\ toRouter # <<>> =>
    Head(toRouter).type = main

(***************************************************************************)
(* A router whose interfaces were complete when the thread woke starts     *)
(* with its highest address as its id and a route for every network.       *)
(***************************************************************************)
StartsRight ==
  whole /\ run.at = "done" =>
    /\ id \in Ifaces /\ \A i \in Ifaces : i <= id
    /\ routes = Ifaces

(***************************************************************************)
(* A router that comes to open when its switch is known gets all its       *)
(* interfaces and ends its start-up, unless it is killed or dies before.   *)
(***************************************************************************)
StartUpEnds ==
  main = "authStatus" /\ known ~> (AllSet /\ run.at = "done") \/ ~Alive
=============================================================================
