------------------------------- MODULE LogRpc -------------------------------
(***************************************************************************)
(* The first RPC checkpoint: every interposed call connects to the server, *)
(* sends its name with one send, takes the reply with one recv, closes the *)
(* connection and then calls the original function.  The server is one     *)
(* process that serves one connection after another; it takes whatever a   *)
(* recv returns for a message, prints it and replies to it.                *)
(*                                                                         *)
(* TCP is external: a name or a reply may arrive in pieces, and a close    *)
(* over bytes that have arrived unread resets the connection, where one    *)
(* that leaves nothing unread ends it in order.  When the server ends, its *)
(* kernel resets the connections that wait in the backlog; the first of    *)
(* send and recv that notices takes the error, and after that recv is 0.   *)
(***************************************************************************)
EXTENDS Integers, Sequences

CONSTANTS
  Clients,   \* the programs with the library
  Conns,     \* places for connections
  NAME,      \* bytes in the name of a call, at most the server's buffer
  MSG,       \* bytes in the reply
  BACKLOG,   \* connections the kernel holds for accept
  Mortal,    \* the clients that may be killed
  None

ASSUME LogRpcAssumption ==
  /\ NAME \in Nat \ {0} /\ MSG \in Nat \ {0} /\ BACKLOG \in Nat \ {0}
  /\ Mortal \subseteq Clients
  /\ None \notin Conns

VARIABLES
  cpc,        \* cpc[c]: where a program is in its call
  conn,       \* conn[c]: its connection
  heard,      \* history: bytes of the name of the latest call the server printed
  queue,      \* connections that wait for accept
  spc,        \* where the server is in its loops
  session,    \* sessfd
  toServer,   \* toServer[k]: bytes sent to the server that it has not received
  toClient,   \* toClient[k]: bytes sent to the client that it has not received
  peer,       \* peer[k]: what the server's kernel knows of the client's end
  leftEarly   \* history: a client left a reply unread or its name unanswered

vars == <<cpc, conn, heard, queue, spc, session, toServer, toClient, peer, leftEarly>>
server == <<queue, spc, session>>
wires == <<toServer, toClient, peer>>

TypeOK ==
  /\ cpc \in [Clients -> {"idle", "connected", "cutoff", "waiting", "closing", "calling", "gone"}]
  /\ conn \in [Clients -> Conns \cup {None}]
  /\ heard \in [Clients -> 0..NAME]
  /\ queue \in Seq(Conns) /\ Len(queue) <= BACKLOG
  /\ spc \in {"accepting", "receiving", "replying", "gone"}
  /\ session \in Conns \cup {None}
  /\ toServer \in [Conns -> 0..NAME]
  /\ toClient \in [Conns -> Nat]
  /\ peer \in [Conns -> {"open", "fin", "reset", "broken"}]
  /\ leftEarly \in BOOLEAN

Init ==
  /\ cpc = [c \in Clients |-> "idle"]
  /\ conn = [c \in Clients |-> None]
  /\ heard = [c \in Clients |-> NAME]
  /\ queue = << >>
  /\ spc = "accepting"
  /\ session = None
  /\ toServer = [k \in Conns |-> 0]
  /\ toClient = [k \in Conns |-> 0]
  /\ peer = [k \in Conns |-> "open"]
  /\ leftEarly = FALSE

Queued(k) == \E i \in 1..Len(queue) : queue[i] = k
Free(k) == (\A c \in Clients : conn[c] # k) /\ ~Queued(k) /\ session # k

GoTo(c, l) == cpc' = [cpc EXCEPT ![c] = l]

-----------------------------------------------------------------------------
(* The library: send_request and the call of the original function *)

(* init_client; the kernel accepts connections as long as its queue has    *)
(* room for them.                                                          *)
Connect(c) ==
  /\ cpc[c] = "idle"
  /\ spc # "gone" /\ Len(queue) < BACKLOG
  /\ \E k \in Conns :
       /\ Free(k)
       /\ conn' = [conn EXCEPT ![c] = k]
       /\ queue' = Append(queue, k)
       /\ toServer' = [toServer EXCEPT ![k] = 0]
       /\ toClient' = [toClient EXCEPT ![k] = 0]
       /\ peer' = [peer EXCEPT ![k] = "open"]
  /\ heard' = [heard EXCEPT ![c] = 0]
  /\ GoTo(c, "connected")
  /\ UNCHANGED <<spc, session, leftEarly>>

(* connect fails, and err(1, 0) ends the program.                          *)
ConnectRefused(c) ==
  /\ cpc[c] = "idle" /\ spc = "gone"
  /\ GoTo(c, "gone")
  /\ UNCHANGED <<conn, heard, server, wires, leftEarly>>

(* The name is sent, to a server that has gone if its reset is still on    *)
(* its way.                                                                *)
SendName(c) ==
  /\ cpc[c] = "connected"
  /\ toServer' = [toServer EXCEPT ![conn[c]] = NAME]
  /\ GoTo(c, "waiting")
  /\ UNCHANGED <<conn, heard, server, toClient, peer, leftEarly>>

(* The reset has arrived, and send returns -1, which is not looked at.     *)
SendFails(c) ==
  /\ cpc[c] = "connected" /\ spc = "gone"
  /\ GoTo(c, "cutoff")
  /\ UNCHANGED <<conn, heard, server, wires, leftEarly>>

(* The error is taken: recv returns 0, which passes for a reply.           *)
RecvNothing(c) ==
  /\ cpc[c] = "cutoff"
  /\ GoTo(c, "closing")
  /\ UNCHANGED <<conn, heard, server, wires, leftEarly>>

RecvReply(c) ==
  /\ cpc[c] = "waiting"
  /\ \E n \in 1..toClient[conn[c]] :
       toClient' = [toClient EXCEPT ![conn[c]] = @ - n]
  /\ GoTo(c, "closing")
  /\ UNCHANGED <<conn, heard, server, toServer, peer, leftEarly>>

(* The client's end of connection k is closed, by the program or because   *)
(* it died.  Bytes that were on their way when it closed do not reset the  *)
(* connection before the server sends again.                               *)
Close(c) ==
  LET k == conn[c] IN
  /\ conn' = [conn EXCEPT ![c] = None]
  /\ \/ peer' = [peer EXCEPT ![k] = "fin"]
     \/ toClient[k] > 0 /\ peer' = [peer EXCEPT ![k] = "reset"]
  /\ toClient' = [toClient EXCEPT ![k] = 0]
  /\ leftEarly' = (leftEarly \/ toClient[k] > 0 \/ toServer[k] > 0
                     \/ (session = k /\ spc = "replying"))
  /\ UNCHANGED toServer

(* orig_close, and the call of the original function follows.              *)
CloseConnection(c) ==
  /\ cpc[c] = "closing"
  /\ Close(c)
  /\ GoTo(c, "calling")
  /\ UNCHANGED <<heard, server>>

Return(c) ==
  /\ cpc[c] = "calling"
  /\ GoTo(c, "idle")
  /\ UNCHANGED <<conn, heard, server, wires, leftEarly>>

(* The reset arrives after the name was sent: recv returns -1, and         *)
(* err(1, 0) ends the program.                                             *)
CallFails(c) ==
  /\ cpc[c] = "waiting" /\ spc = "gone"
  /\ toClient[conn[c]] = 0
  /\ conn' = [conn EXCEPT ![c] = None]
  /\ GoTo(c, "gone")
  /\ UNCHANGED <<heard, server, wires, leftEarly>>

Kill(c) ==
  /\ c \in Mortal /\ cpc[c] # "gone"
  /\ GoTo(c, "gone")
  /\ IF conn[c] = None THEN UNCHANGED <<conn, wires, leftEarly>> ELSE Close(c)
  /\ UNCHANGED <<heard, server>>

-----------------------------------------------------------------------------
(* The server's loops *)

(* Where accept leads.  The variant greets the client before it has heard  *)
(* of it.                                                                  *)
AfterAcceptGreeting == "replying"
AfterAccept == "receiving"

Accept ==
  /\ spc = "accepting" /\ queue # << >>
  /\ session' = Head(queue)
  /\ queue' = Tail(queue)
  /\ spc' = AfterAccept
  /\ UNCHANGED <<cpc, conn, heard, wires, leftEarly>>

(* recv returns a part of the name, which is printed.                      *)
RecvName ==
  /\ spc = "receiving"
  /\ \E n \in 1..toServer[session] :
       /\ toServer' = [toServer EXCEPT ![session] = @ - n]
       /\ heard' = [c \in Clients |-> IF conn[c] = session THEN heard[c] + n ELSE heard[c]]
  /\ spc' = "replying"
  /\ UNCHANGED <<cpc, conn, queue, session, toClient, peer, leftEarly>>

(* The result of send is not looked at.  On a connection that was reset    *)
(* it takes the error that recv would have returned; on one that is broken *)
(* it may raise SIGPIPE.                                                   *)
Reply ==
  /\ spc = "replying"
  /\ \/ /\ peer[session] = "open"
        /\ toClient' = [toClient EXCEPT ![session] = @ + MSG]
        /\ spc' = "receiving"
        /\ UNCHANGED peer
     \/ /\ peer[session] # "open"
        /\ \/ peer' = [peer EXCEPT ![session] = "broken"]
           \/ peer[session] = "reset" /\ UNCHANGED peer
        /\ spc' = "receiving"
        /\ UNCHANGED toClient
     \/ /\ peer[session] = "broken"
        /\ spc' = "gone"
        /\ UNCHANGED <<toClient, peer>>
  /\ UNCHANGED <<cpc, conn, heard, queue, session, toServer, leftEarly>>

(* recv returns 0, which ends the session but not the server.  The variants *)
(* give up as they do on an error, or call recv again.                     *)
Eof ==
  /\ spc = "receiving"
  /\ toServer[session] = 0 /\ peer[session] \in {"fin", "broken"}
RecvEofGivesUp ==
  /\ Eof
  /\ spc' = "gone"
  /\ UNCHANGED <<cpc, conn, heard, queue, session, wires, leftEarly>>
RecvEofEndless ==
  /\ Eof
  /\ UNCHANGED vars
RecvEof ==
  /\ Eof
  /\ spc' = "accepting"
  /\ session' = None
  /\ UNCHANGED <<cpc, conn, heard, queue, wires, leftEarly>>

(* recv returns -1, and err(1, 0) ends the server.                         *)
RecvError ==
  /\ spc = "receiving"
  /\ peer[session] = "reset"
  /\ spc' = "gone"
  /\ UNCHANGED <<cpc, conn, heard, queue, session, wires, leftEarly>>

Serve == Accept \/ RecvName \/ Reply \/ RecvEof \/ RecvError
Proceed(c) ==
  \/ SendName(c) \/ SendFails(c)
  \/ RecvReply(c) \/ RecvNothing(c) \/ CallFails(c)
  \/ CloseConnection(c) \/ Return(c)

Next ==
  \/ Serve
  \/ \E c \in Clients : Connect(c) \/ ConnectRefused(c) \/ Proceed(c) \/ Kill(c)

Spec == Init /\ [][Next]_vars

(* The server runs, and so do programs that have begun a call.  Nothing    *)
(* makes a program call, and none is made to wait for its turn to connect. *)
Fairness == WF_vars(Serve) /\ \A c \in Clients : WF_vars(Proceed(c))

FairSpec == Spec /\ Fairness
-----------------------------------------------------------------------------
(* Properties *)

(* No two programs use one connection, and a connection in use is known to *)
(* the server, once, in its backlog or as its session.                     *)
Connected ==
  /\ \A c \in Clients :
       /\ cpc[c] \in {"connected", "cutoff", "waiting", "closing"} <=> conn[c] # None
       /\ \A d \in Clients : c # d /\ conn[c] # None => conn[c] # conn[d]
       /\ conn[c] # None => Queued(conn[c]) \/ session = conn[c]
       /\ conn[c] # None => peer[conn[c]] = "open"
  /\ \A i, j \in 1..Len(queue) : queue[i] = queue[j] => i = j
  /\ session # None => ~Queued(session)
  /\ spc = "accepting" <=> session = None

(* A program that waits in its only recv has its name on the way to the    *)
(* server or a reply on the way back, however the name is split: the two   *)
(* never wait for each other (rpc/mylib.c 157, rpc/server.c 54).  If the   *)
(* server has gone, the program's connection was not yet accepted, so that *)
(* the kernel resets it and the wait ends with an error.                   *)
ReplyComing ==
  \A c \in Clients :
    cpc[c] = "waiting" =>
      LET k == conn[c] IN
      IF spc = "gone" THEN Queued(k)
      ELSE \/ toServer[k] > 0 \/ toClient[k] > 0
           \/ session = k /\ spc = "replying"

(* The account of a name that is behind both: what of it is under way and  *)
(* what the server has printed make it up.  Only a server that has gone    *)
(* leaves a program in its call, or after it, of which it printed nothing. *)
NameFlow ==
  \A c \in Clients :
    LET k == conn[c] IN
    /\ cpc[c] \in {"connected", "cutoff"} => heard[c] = 0 /\ toServer[k] = 0 /\ toClient[k] = 0
    /\ cpc[c] = "cutoff" => spc = "gone"
    /\ cpc[c] = "connected" /\ session = k => spc \notin {"replying"}
    /\ \/ cpc[c] = "waiting"
       \/ cpc[c] = "closing" /\ heard[c] > 0
       => toServer[k] + heard[c] = NAME
    /\ conn[c] # None /\ Queued(k) => heard[c] = 0 /\ toClient[k] = 0
    /\ conn[c] # None /\ session = k /\ heard[c] = 0 => spc # "replying" /\ toClient[k] = 0
    /\ cpc[c] \in {"idle", "closing", "calling"} => heard[c] > 0 \/ spc = "gone"

(* The server ends only after a client has left without reading all it was *)
(* sent: "either client closed connection, or error" (rpc/server.c 63) -   *)
(* clients that read their replies can call for ever.                      *)
EndsOnlyByDeparture == spc = "gone" => leftEarly

Departures ==
  /\ \A k \in Conns : peer[k] \in {"reset", "broken"} => leftEarly
  /\ spc = "replying" /\ peer[session] # "open" => leftEarly
  /\ \A k \in Conns : peer[k] = "fin" /\ toServer[k] > 0 => leftEarly
  /\ spc = "gone" => peer[session] \in {"reset", "broken"}

(* The inductive invariant.                                                *)
IInv ==
  /\ TypeOK /\ Connected /\ NameFlow /\ ReplyComing
  /\ Departures /\ EndsOnlyByDeparture

(* To each program the server is a LoggedCall: its call goes on to the     *)
(* original function only after the server has printed (at least a part    *)
(* of) its name, once - but for the one call that a server which ends may  *)
(* leave unprinted (rpc/mylib.c 153, 157-159).                             *)
Logged(c) == INSTANCE LoggedCall WITH
  phase <- IF cpc[c] \in {"idle", "gone"} THEN cpc[c] ELSE "calling",
  printed <- heard[c] > 0,
  up <- spc # "gone"
LoggedInit == \A c \in Clients : Logged(c)!Init
LoggedStep == \A c \in Clients : Logged(c)!Next \/ UNCHANGED Logged(c)!vars
ImplementsLoggedCall == LoggedInit /\ [][LoggedStep]_vars

(* A call that is connected ends, although the server serves one program   *)
(* after another and any of them may be killed in its call.                *)
CallsEnd == \A c \in Clients : cpc[c] = "connected" ~> cpc[c] \in {"calling", "gone"}
=============================================================================
