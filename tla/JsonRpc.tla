------------------------------ MODULE JsonRpc -------------------------------
(***************************************************************************)
(* The test application: JSON-RPC over TCP (dist/App/jsonrpc_redes).       *)
(* Server.serve accepts connections, one thread each (handle_client);      *)
(* Cliente opens a connection for every call and leaves it open until the  *)
(* next one.  The main thread of app_servidor waits for an interrupt and   *)
(* shuts the server down: flag, listening socket, one join per thread.     *)
(*                                                                         *)
(* TCP carries pieces: what recv(1024) returns is a request, or an answer, *)
(* when it is short, and a part of it when it is long.                     *)
(***************************************************************************)
EXTENDS Naturals, Sequences, FiniteSets

CONSTANTS
  Clients,    \* objects of class Cliente, each used by one thread
  MaxCalls,   \* bound: calls that each client makes
  Calls,      \* what it may call, the n-th time: [method, args, notify]
  Methods,    \* add_method: [name -> [required, total, variadic]]
  Fragile,    \* the methods that may raise an exception
  Long        \* the methods whose requests and results take two pieces

ASSUME JsonRpcAssumption ==
  /\ MaxCalls \in [Clients -> Nat]
  /\ \A m \in DOMAIN Methods : Methods[m].required <= Methods[m].total

Conns == UNION {{c} \X (1 .. MaxCalls[c]) : c \in Clients}
NoConn == <<>>
Pieces(q) == IF q.method \in Long THEN 2 ELSE 1
NoCall == [method |-> "", args |-> 0, notify |-> FALSE]

VARIABLES
  serving,    \* where Server.serve is
  running,    \* Server.running
  listening,  \* Server.server_socket: "none", "open" or "closed"
  backlog,    \* connections that accept has not returned
  threads,    \* Server.threads, by their connections
  taken,      \* the connection that accept returned last
  main,       \* where app_servidor's main thread is
  joined,     \* threads that shutdown has joined
  handler,    \* where the handle_client of each connection is
  got,        \* pieces of the request in its `data`
  up, down,   \* pieces sent and not received
  open,       \* the ends of connections that are not closed: <<conn, side>>
  request,    \* what each connection was opened for
  answer,     \* what its handler answers
  ran,        \* times its method was run
  client      \* of each client: where it is, id_counter, and the last outcome

serverVars == <<serving, running, listening, backlog, threads, taken>>
mainVars == <<main, joined>>
wire == <<up, down, open>>
rpcVars == <<serverVars, mainVars, handler, got, wire, request, answer, ran, client>>

RpcInit ==
  /\ serving = "create" /\ running = FALSE /\ listening = "none"
  /\ backlog = <<>> /\ threads = <<>> /\ taken = NoConn
  /\ main = "wait" /\ joined = 0
  /\ handler = [k \in Conns |-> "none"]
  /\ got = [k \in Conns |-> 0]
  /\ up = [k \in Conns |-> 0] /\ down = [k \in Conns |-> 0]
  /\ open = {}
  /\ request = [k \in Conns |-> NoCall]
  /\ answer = [k \in Conns |-> "none"] /\ ran = [k \in Conns |-> 0]
  /\ client = [c \in Clients |-> [at |-> "idle", id_counter |-> 1, sent |-> 0,
                                  outcome |-> "none"]]
-----------------------------------------------------------------------------
\* Server.serve: socket, bind and listen, before the flag is set.
Alive == main # "gone"
Serve(from, to) == Alive /\ serving = from /\ serving' = to

Open ==
  /\ Serve("create", "start")
  /\ listening' = "open"
  /\ UNCHANGED <<running, backlog, threads, taken>>
Run ==
  /\ Serve("start", "loop")
  /\ running' = TRUE
  /\ UNCHANGED <<listening, backlog, threads, taken>>

\* The loop; accept gives up after a second, and raises on a closed socket.
Loop ==
  /\ Serve("loop", IF running THEN "accept" ELSE "ended")
  /\ UNCHANGED <<running, listening, backlog, threads, taken>>
Accept ==
  /\ Serve("accept", "thread") /\ listening = "open" /\ backlog # <<>>
  /\ taken' = Head(backlog) /\ backlog' = Tail(backlog)
  /\ UNCHANGED <<running, listening, threads>>
AcceptFails ==
  /\ Serve("accept", IF listening = "open" THEN "loop" ELSE "ended")
  /\ backlog = <<>>
  /\ UNCHANGED <<running, listening, backlog, threads, taken>>
Append_ ==
  /\ Serve("append", "loop")
  /\ threads' = Append(threads, taken)
  /\ UNCHANGED <<running, listening, backlog, taken>>
ServerStep ==
  /\ Open \/ Run \/ Loop \/ Accept \/ AcceptFails \/ Append_
  /\ UNCHANGED <<mainVars, handler, got, wire, request, answer, ran, client>>
StartThread ==
  /\ Serve("thread", "append")
  /\ handler' = [handler EXCEPT ![taken] = "recv"]
  /\ UNCHANGED <<running, listening, backlog, threads, taken, mainVars, got,
                 wire, request, answer, ran, client>>
-----------------------------------------------------------------------------
(***************************************************************************)
(* handle_request for a call of class Cliente.  The number of arguments is *)
(* checked before the method is called, for positional and named ones      *)
(* alike: the values of the names are passed in the order they come.       *)
(***************************************************************************)
TooFew(q) == q.args < Methods[q.method].required
TooMany(q) ==
  \/ Methods[q.method].total = 0 /\ q.args > 0
  \/ ~Methods[q.method].variadic /\ q.args > Methods[q.method].total
ErrorCode(q) ==
  IF q.method \notin DOMAIN Methods THEN "-32601"
  ELSE IF TooFew(q) \/ TooMany(q) THEN "-32602"
  ELSE "none"

\* Python's rule: what the call method(*params) is bound to, or TypeError.
Binds(q) ==
  /\ q.args >= Methods[q.method].required
  /\ Methods[q.method].variadic \/ q.args <= Methods[q.method].total
Results(q) ==
  IF ~Binds(q) THEN {"-32603"}
  ELSE {"result"} \cup (IF q.method \in Fragile THEN {"-32603"} ELSE {})

\* handle_client: the pieces are gathered until they are a JSON document.
GatheredLast(k, n) == n
Gathered(k, n) == got[k] + n

StreamEndIgnored(k, n) == FALSE
StreamEnd(k, n) == n = 0

Closed(k, side) == <<k, side>> \notin open
Recv(k) ==
  /\ Alive /\ handler[k] = "recv"
  /\ \E n \in 0 .. 2 :
       /\ n = 0 => up[k] = 0 /\ Closed(k, "client")
       /\ n <= up[k]
       /\ up' = [up EXCEPT ![k] = @ - n]
       /\ got' = [got EXCEPT ![k] = Gathered(k, n)]
       /\ IF Gathered(k, n) = Pieces(request[k])
          THEN handler' = [handler EXCEPT ![k] = "request"] /\ UNCHANGED open
          ELSE IF StreamEnd(k, n)
          THEN /\ handler' = [handler EXCEPT ![k] = "ended"]
               /\ open' = open \ {<<k, "server">>}
          ELSE UNCHANGED <<handler, open>>
  /\ UNCHANGED <<serverVars, mainVars, down, request, answer, ran, client>>

HandleRequest(k) ==
  /\ Alive /\ handler[k] = "request"
  /\ IF ErrorCode(request[k]) # "none"
     THEN answer' = [answer EXCEPT ![k] = ErrorCode(request[k])] /\ UNCHANGED ran
     ELSE /\ \E r \in Results(request[k]) : answer' = [answer EXCEPT ![k] = r]
          /\ ran' = [ran EXCEPT ![k] = @ + 1]
  /\ handler' = [handler EXCEPT ![k] = "send"]
  /\ UNCHANGED <<serverVars, mainVars, got, wire, request, client>>

\* The answer, which a notification gets too; then the next request.
KeptData(k) == got[k]
NoData(k) == 0
Send(k) ==
  /\ Alive /\ handler[k] = "send"
  /\ down' = [down EXCEPT ![k] =
                IF Closed(k, "client") THEN 0
                ELSE IF answer[k] = "result" THEN Pieces(request[k]) ELSE 1]
  /\ got' = [got EXCEPT ![k] = NoData(k)]
  /\ handler' = [handler EXCEPT ![k] = "recv"]
  /\ UNCHANGED <<serverVars, mainVars, up, open, request, answer, ran, client>>
-----------------------------------------------------------------------------
\* Cliente._send_request.  The socket of the call before is closed, and what
\* it has not read is lost, when its variable is set to the new one.
Current(c) == <<c, client[c].id_counter - 1>>
Unread(c) == [k \in Conns |-> IF k = Current(c) THEN 0 ELSE down[k]]
Connect(c) ==
  LET k == <<c, client[c].id_counter>> IN
  /\ Alive /\ client[c].at = "idle" /\ k \in Conns /\ listening = "open"
  /\ \E q \in Calls[k] : request' = [request EXCEPT ![k] = q]
  /\ open' = (open \ {<<Current(c), "client">>}) \cup {<<k, "client">>, <<k, "server">>}
  /\ down' = Unread(c)
  /\ backlog' = Append(backlog, k)
  /\ client' = [client EXCEPT ![c].at = "send", ![c].id_counter = @ + 1,
                              ![c].sent = 0, ![c].outcome = "none"]
  /\ UNCHANGED <<serving, running, listening, threads, taken, mainVars, handler,
                 got, up, answer, ran>>

SendPiece(c) ==
  LET k == Current(c) IN
  /\ client[c].at = "send" /\ ~Closed(k, "server")
  /\ up' = [up EXCEPT ![k] = @ + 1]
  /\ client' = [client EXCEPT
                  ![c].sent = (@ + 1) % Pieces(request[k]),
                  ![c].at = IF client[c].sent + 1 < Pieces(request[k]) THEN "send"
                            ELSE IF request[k].notify THEN "idle" ELSE "wait"]
  /\ UNCHANGED <<serverVars, mainVars, handler, got, down, open, request, answer, ran>>

\* One recv of 1024 bytes, which json.loads must understand.
Answered(c) ==
  LET k == Current(c) IN
  /\ client[c].at = "wait" /\ down[k] > 0
  /\ down' = [down EXCEPT ![k] = @ - 1]
  /\ client' = [client EXCEPT ![c].at = "idle",
                  ![c].outcome = IF down[k] > 1 THEN "ValueError" ELSE answer[k]]
  /\ UNCHANGED <<serverVars, mainVars, handler, got, up, open, request, answer, ran>>

\* The connection is reset, or ends without an answer.
Broken(c) ==
  LET k == Current(c) IN
  /\ client[c].at \in {"send", "wait"} /\ Closed(k, "server") /\ down[k] = 0
  /\ client' = [client EXCEPT ![c].at = "idle", ![c].outcome = "broken"]
  /\ UNCHANGED <<serverVars, mainVars, handler, got, wire, request, answer, ran>>

\* Cliente.close, or the end of its process, which may be at any time.
Leave(c) ==
  /\ client[c].at # "gone"
  /\ client' = [client EXCEPT ![c].at = "gone", ![c].outcome = "none", ![c].sent = 0]
  /\ open' = open \ {<<Current(c), "client">>}
  /\ down' = Unread(c)
  /\ UNCHANGED <<serverVars, mainVars, handler, got, up, request, answer, ran>>
-----------------------------------------------------------------------------
(***************************************************************************)
(* app_servidor's main thread: KeyboardInterrupt, which is taken to come   *)
(* while it sleeps and the server is listening, and Server.shutdown.       *)
(***************************************************************************)
Interrupt ==
  /\ main = "wait" /\ listening = "open" /\ main' = "close"
  /\ running' = FALSE
  /\ UNCHANGED <<serving, listening, backlog, threads, taken, joined, handler,
                 got, wire, request, answer, ran, client>>
CloseSocket ==
  /\ main = "close" /\ main' = "join"
  /\ listening' = "closed" /\ backlog' = <<>>
  /\ open' = {e \in open : e[2] = "client" \/
                           \A i \in 1 .. Len(backlog) : backlog[i] # e[1]}
  /\ UNCHANGED <<serving, running, threads, taken, joined, handler, got, up,
                 down, request, answer, ran, client>>
Join ==
  /\ main = "join" /\ joined < Len(threads)
  /\ handler[threads[joined + 1]] = "ended"
  /\ joined' = joined + 1
  /\ UNCHANGED <<serverVars, main, handler, got, wire, request, answer, ran, client>>

\* sys.exit: the threads are daemons, and what is left of them is cut off.
NobodyJoined == TRUE
AllJoined == joined = Len(threads)
Exit ==
  /\ main = "join" /\ AllJoined
  /\ main' = "gone"
  /\ handler' = [k \in Conns |->
                   IF handler[k] \in {"none", "ended"} THEN handler[k] ELSE "cut"]
  /\ open' = {e \in open : e[2] = "client"}
  /\ UNCHANGED <<serverVars, joined, got, up, down, request, answer, ran, client>>
-----------------------------------------------------------------------------
Handle(k) == Recv(k) \/ HandleRequest(k) \/ Send(k)
Call(c) == SendPiece(c) \/ Answered(c) \/ Broken(c)
Shutdown == CloseSocket \/ Join \/ Exit
RpcNext ==
  \/ ServerStep \/ StartThread
  \/ \E k \in Conns : Handle(k)
  \/ \E c \in Clients : Connect(c) \/ Call(c) \/ Leave(c)
  \/ Interrupt \/ Shutdown

(***************************************************************************)
(* Every thread is scheduled, and a method returns.  Nobody need interrupt *)
(* the server, make a call or leave.                                       *)
(***************************************************************************)
RpcFairness ==
  /\ WF_rpcVars(ServerStep) /\ WF_rpcVars(StartThread) /\ WF_rpcVars(Shutdown)
  /\ \A k \in Conns : WF_rpcVars(Handle(k))
  /\ \A c \in Clients : WF_rpcVars(Call(c))
RpcSpec == RpcInit /\ [][RpcNext]_rpcVars /\ RpcFairness
-----------------------------------------------------------------------------
Outcomes == {"none", "result", "-32601", "-32602", "-32603"}
Requests == (UNION {Calls[k] : k \in Conns}) \cup {NoCall}
ClientState ==
  [at : {"idle", "send", "wait", "gone"}, id_counter : Nat \ {0}, sent : 0 .. 1,
   outcome : Outcomes \cup {"ValueError", "broken"}]
\* No request of class Cliente is answered with -32600 or -32700.
RpcTypeOK ==
  /\ serving \in {"create", "start", "loop", "accept", "thread",
                  "append", "ended"}
  /\ running \in BOOLEAN /\ listening \in {"none", "open", "closed"}
  /\ main \in {"wait", "close", "join", "gone"} /\ joined \in 0 .. Len(threads)
  /\ threads \in Seq(Conns) /\ backlog \in Seq(Conns)
  /\ taken \in Conns \cup {NoConn}
  /\ handler \in [Conns -> {"none", "recv", "request", "send", "ended", "cut"}]
  /\ got \in [Conns -> Nat] /\ up \in [Conns -> Nat]
  /\ down \in [Conns -> Nat] /\ ran \in [Conns -> Nat]
  /\ open \subseteq Conns \X {"client", "server"}
  /\ request \in [Conns -> Requests]
  /\ answer \in [Conns -> Outcomes]
  /\ client \in [Clients -> ClientState]

(***************************************************************************)
(* A request is run at most once however its bytes and the end of its      *)
(* connection come in, and a call that has a result was run.               *)
(***************************************************************************)
RunOnce ==
  /\ \A k \in Conns : ran[k] <= 1
  /\ \A c \in Clients : client[c].outcome = "result" => ran[Current(c)] = 1

(***************************************************************************)
(* shutdown waits for the connections: the exit of the process cuts off no *)
(* more than the one that accept returned while the socket was closed.     *)
(***************************************************************************)
OneCutOff == \A k \in Conns : handler[k] = "cut" => k = taken

\* A call ends: it returns or raises, whether or not the server shuts down.
CallEnds ==
  \A c \in Clients :
    (client[c].at \in {"send", "wait"}) ~> (client[c].at \in {"idle", "gone"})

\* shutdown ends once every client has left: then every handler does.
ShutdownEnds ==
  main = "close" /\ <>(\A c \in Clients : client[c].at = "gone") ~> main = "gone"
=============================================================================
