---------------------------- MODULE LogRpcProofs ----------------------------
(***************************************************************************)
(* IInv is an inductive invariant of LogRpc, and from it: types, a reply   *)
(* on its way to every waiting program, the server ends only after a       *)
(* client left early, and the refinement of LoggedCall for each program.   *)
(* One lemma per group of actions; the queue is handled by two lemmas.     *)
(***************************************************************************)
EXTENDS LogRpc, TLAPS

USE LogRpcAssumption

(* A connection that is appended to the backlog.                           *)
LEMMA QueueAppend ==
  ASSUME queue \in Seq(Conns), NEW k \in Conns, queue' = Append(queue, k)
  PROVE  /\ queue' \in Seq(Conns)
         /\ Len(queue') = Len(queue) + 1
         /\ queue'[Len(queue) + 1] = k
         /\ \A i \in 1..Len(queue) : queue'[i] = queue[i]
         /\ \A j \in Conns : Queued(j)' <=> Queued(j) \/ j = k
<1>1. /\ queue' \in Seq(Conns)
      /\ Len(queue') = Len(queue) + 1
      /\ queue'[Len(queue) + 1] = k
      /\ \A i \in 1..Len(queue) : queue'[i] = queue[i]
      /\ Len(queue) \in Nat
  OBVIOUS
<1>2. \A j \in Conns : Queued(j)' <=> Queued(j) \/ j = k
  BY <1>1 DEF Queued
<1> QED BY <1>1, <1>2

(* The first connection is taken from it.                                  *)
LEMMA QueueTake ==
  ASSUME queue \in Seq(Conns), queue # << >>, queue' = Tail(queue)
  PROVE  /\ queue' \in Seq(Conns)
         /\ Len(queue') = Len(queue) - 1 /\ Len(queue) \in Nat \ {0}
         /\ Head(queue) = queue[1] /\ Head(queue) \in Conns
         /\ \A i \in 1..Len(queue') : queue'[i] = queue[i + 1]
         /\ \A j \in Conns : Queued(j) => Queued(j)' \/ j = Head(queue)
         /\ \A j \in Conns : Queued(j)' => Queued(j)
         /\ Queued(Head(queue))
<1>1. /\ queue' \in Seq(Conns)
      /\ Len(queue') = Len(queue) - 1 /\ Len(queue) \in Nat \ {0}
      /\ Head(queue) = queue[1] /\ Head(queue) \in Conns
      /\ \A i \in 1..Len(queue') : queue'[i] = queue[i + 1]
  OBVIOUS
<1>2. ASSUME NEW j \in Conns, Queued(j)
      PROVE  Queued(j)' \/ j = Head(queue)
  <2>1. PICK i \in 1..Len(queue) : queue[i] = j
    BY <1>2 DEF Queued
  <2>2. CASE i = 1
    BY <2>1, <2>2, <1>1
  <2>3. CASE i # 1
    <3>1. i - 1 \in 1..Len(queue') /\ queue'[i - 1] = j
      BY <2>1, <2>3, <1>1
    <3> QED BY <3>1 DEF Queued
  <2> QED BY <2>2, <2>3
<1>3. ASSUME NEW j \in Conns, Queued(j)'
      PROVE  Queued(j)
  BY <1>1, <1>3 DEF Queued
<1>4. Queued(Head(queue))
  BY <1>1 DEF Queued
<1> QED BY <1>1, <1>2, <1>3, <1>4

LEMMA InitIInv == Init => IInv
<1> SUFFICES ASSUME Init PROVE IInv
  OBVIOUS
<1> USE DEF Init
<1>0. queue \in Seq(Conns) /\ Len(queue) = 0
  OBVIOUS
<1>1. TypeOK
  <2>1. /\ cpc \in [Clients -> {"idle", "connected", "cutoff", "waiting", "closing", "calling", "gone"}]
        /\ conn \in [Clients -> Conns \cup {None}] /\ heard \in [Clients -> 0..NAME]
        /\ toServer \in [Conns -> 0..NAME] /\ toClient \in [Conns -> Nat]
        /\ peer \in [Conns -> {"open", "fin", "reset", "broken"}]
        /\ spc = "accepting" /\ session = None /\ leftEarly = FALSE
    OBVIOUS
  <2> HIDE DEF Init
  <2>2. Len(queue) <= BACKLOG
    BY <1>0
  <2>3. /\ spc \in {"accepting", "receiving", "replying", "gone"}
        /\ session \in Conns \cup {None} /\ leftEarly \in BOOLEAN
    BY <2>1
  <2> QED BY <1>0, <2>1, <2>2, <2>3, Zenon DEF TypeOK
<1>2. Connected
  <2>1. \A i \in 1..Len(queue) : FALSE
    BY <1>0
  <2> QED BY <2>1 DEF Connected, Queued
<1>3. NameFlow
  BY NAME > 0 DEF NameFlow
<1>4. ReplyComing /\ Departures /\ EndsOnlyByDeparture
  BY DEF ReplyComing, Departures, EndsOnlyByDeparture
<1> QED BY <1>1, <1>2, <1>3, <1>4 DEF IInv

LEMMA StepConnect ==
  ASSUME IInv, NEW c \in Clients, Connect(c)
  PROVE  IInv'
<1> USE DEF IInv
<1>1. PICK k \in Conns :
        /\ Free(k)
        /\ conn' = [conn EXCEPT ![c] = k]
        /\ queue' = Append(queue, k)
        /\ toServer' = [toServer EXCEPT ![k] = 0]
        /\ toClient' = [toClient EXCEPT ![k] = 0]
        /\ peer' = [peer EXCEPT ![k] = "open"]
  BY DEF Connect
<1>2. /\ queue' \in Seq(Conns)
      /\ Len(queue') = Len(queue) + 1
      /\ queue'[Len(queue) + 1] = k
      /\ \A i \in 1..Len(queue) : queue'[i] = queue[i]
      /\ \A j \in Conns : Queued(j)' <=> Queued(j) \/ j = k
  BY <1>1, QueueAppend DEF TypeOK
<1>3. /\ cpc' = [cpc EXCEPT ![c] = "connected"] /\ cpc[c] = "idle"
      /\ heard' = [heard EXCEPT ![c] = 0]
      /\ UNCHANGED <<spc, session, leftEarly>>
      /\ spc # "gone" /\ Len(queue) < BACKLOG /\ Len(queue) \in Nat
  BY DEF Connect, GoTo, TypeOK
<1>4. TypeOK'
  BY <1>1, <1>2, <1>3 DEF TypeOK
<1>5. \A d \in Clients : conn[d] # k
  BY <1>1 DEF Free
<1>6. Connected'
  <2>1. \A i \in 1..Len(queue) : queue[i] # k
    BY <1>1 DEF Free, Queued
  <2>2. (\A i, j \in 1..Len(queue) : queue[i] = queue[j] => i = j)'
    BY <2>1, <1>2, <1>3 DEF Connected
  <2>3. \A d \in Clients : conn[d] # None => conn[d] \in Conns
    BY DEF TypeOK
  <2> QED BY <2>2, <2>3, <1>1, <1>2, <1>3, <1>5 DEF Connected, TypeOK, Free
<1>7. NameFlow'
  BY <1>1, <1>2, <1>3, <1>5 DEF NameFlow, Connected, TypeOK, Free
<1>8. ReplyComing'
  BY <1>1, <1>3, <1>5 DEF ReplyComing, Connected, TypeOK, Free
<1>9. Departures' /\ EndsOnlyByDeparture'
  BY <1>1, <1>3 DEF Departures, EndsOnlyByDeparture, Connected, TypeOK, Free
<1> QED BY <1>4, <1>6, <1>7, <1>8, <1>9

(* The steps of a program in its call that leave the backlog alone.        *)
LEMMA StepProceed ==
  ASSUME IInv, NEW c \in Clients,
         \/ ConnectRefused(c) \/ SendName(c) \/ SendFails(c) \/ RecvReply(c)
         \/ RecvNothing(c) \/ Return(c) \/ CallFails(c)
  PROVE  IInv'
<1> USE DEF IInv
<1>1. UNCHANGED <<heard, queue, spc, session, peer, leftEarly>>
  BY DEF ConnectRefused, SendName, SendFails, RecvReply, RecvNothing, Return, CallFails,
         server, wires
<1>2. \A k : Queued(k)' <=> Queued(k)
  BY <1>1 DEF Queued
<1>3. Departures' /\ EndsOnlyByDeparture'
  <2>1. \A k \in Conns : peer[k] = "fin" => toServer'[k] = toServer[k]
    BY DEF ConnectRefused, SendName, SendFails, RecvReply, RecvNothing, Return, CallFails,
           server, wires, Connected, TypeOK
  <2> QED BY <1>1, <2>1 DEF Departures, EndsOnlyByDeparture
<1>4. CASE ConnectRefused(c) \/ Return(c)
  <2>1. /\ UNCHANGED <<conn, toServer, toClient>>
        /\ \E l \in {"gone", "idle"} : cpc' = [cpc EXCEPT ![c] = l]
        /\ cpc[c] = "idle" \/ cpc[c] = "calling"
    BY <1>4 DEF ConnectRefused, Return, GoTo, server, wires
  <2>2. TypeOK' /\ Connected'
    BY <1>1, <1>2, <2>1 DEF TypeOK, Connected
  <2>3. NameFlow' /\ ReplyComing'
    BY <1>1, <1>2, <2>1 DEF TypeOK, NameFlow, ReplyComing
  <2> QED BY <1>3, <2>2, <2>3
<1>5. CASE SendName(c)
  <2>1. /\ cpc[c] = "connected" /\ cpc' = [cpc EXCEPT ![c] = "waiting"]
        /\ conn[c] \in Conns /\ toServer' = [toServer EXCEPT ![conn[c]] = NAME]
        /\ UNCHANGED <<conn, toClient>>
    BY <1>5 DEF SendName, GoTo, Connected, TypeOK
  <2>2. TypeOK' /\ Connected'
    BY <1>1, <1>2, <2>1 DEF TypeOK, Connected
  <2>3. NameFlow'
    BY <1>1, <1>2, <2>1 DEF TypeOK, Connected, NameFlow
  <2>4. ReplyComing'
    <3>1. spc = "gone" => Queued(conn[c])
      <4>1. spc = "gone" => peer[session] # "open"
        BY DEF Departures
      <4> QED BY <2>1, <4>1 DEF Connected, TypeOK
    <3>2. \A d \in Clients : d # c => conn[d] # conn[c]
      BY <2>1 DEF Connected, TypeOK
    <3> QED BY <1>1, <1>2, <2>1, <3>1, <3>2 DEF TypeOK, Connected, ReplyComing
  <2> QED BY <1>3, <2>2, <2>3, <2>4
<1>8. CASE SendFails(c) \/ RecvNothing(c)
  <2>1. /\ UNCHANGED <<conn, toServer, toClient>>
        /\ \E l \in {"cutoff", "closing"} : cpc' = [cpc EXCEPT ![c] = l]
        /\ cpc[c] \in {"connected", "cutoff"} /\ spc = "gone"
    BY <1>8 DEF SendFails, RecvNothing, GoTo, wires, NameFlow
  <2>2. TypeOK' /\ Connected'
    BY <1>1, <1>2, <2>1 DEF TypeOK, Connected
  <2>3. NameFlow' /\ ReplyComing'
    BY <1>1, <1>2, <2>1 DEF TypeOK, NameFlow, ReplyComing
  <2> QED BY <1>3, <2>2, <2>3
<1>6. CASE RecvReply(c)
  <2>1. PICK n \in 1..toClient[conn[c]] : toClient' = [toClient EXCEPT ![conn[c]] = @ - n]
    BY <1>6 DEF RecvReply
  <2>2. /\ cpc' = [cpc EXCEPT ![c] = "closing"] /\ cpc[c] = "waiting"
        /\ UNCHANGED <<conn, toServer>>
    BY <1>6 DEF RecvReply, GoTo
  <2>3. conn[c] \in Conns /\ toClient[conn[c]] > 0
    BY <2>1, <2>2 DEF TypeOK, Connected
  <2>4. heard[c] > 0
    <3>1. Queued(conn[c]) \/ session = conn[c]
      BY <2>3 DEF Connected, TypeOK
    <3>2. ~Queued(conn[c]) /\ ~(session = conn[c] /\ heard[c] = 0)
      BY <2>3 DEF NameFlow, TypeOK
    <3> QED BY <3>1, <3>2 DEF TypeOK
  <2>5. TypeOK'
    BY <1>1, <2>1, <2>2, <2>3 DEF TypeOK
  <2>6. Connected'
    BY <1>1, <1>2, <2>2, <2>3 DEF TypeOK, Connected
  <2>7. NameFlow'
    BY <1>1, <1>2, <2>1, <2>2, <2>3, <2>4 DEF TypeOK, Connected, NameFlow
  <2>8. ReplyComing'
    BY <1>1, <1>2, <2>1, <2>2, <2>3 DEF TypeOK, Connected, ReplyComing
  <2> QED BY <1>3, <2>5, <2>6, <2>7, <2>8
<1>7. CASE CallFails(c)
  BY <1>1, <1>2, <1>3, <1>7 DEF CallFails, GoTo, server, wires,
     TypeOK, Connected, NameFlow, ReplyComing
<1> QED BY <1>4, <1>5, <1>6, <1>7, <1>8

(* A program that closes its connection, or dies and so closes it.         *)
LEMMA StepClose ==
  ASSUME IInv, NEW c \in Clients, CloseConnection(c) \/ Kill(c)
  PROVE  IInv'
<1> USE DEF IInv
<1>1. UNCHANGED <<heard, queue, spc, session>>
  BY DEF CloseConnection, Kill, server
<1>2. \A k : Queued(k)' <=> Queued(k)
  BY <1>1 DEF Queued
<1>3. PICK l \in {"calling", "gone"} : cpc' = [cpc EXCEPT ![c] = l]
  BY DEF CloseConnection, Kill, GoTo
<1>4. cpc[c] \in {"closing", "calling"} \/ l = "gone"
  BY <1>3 DEF CloseConnection, Kill, GoTo, TypeOK
<1>5. CASE UNCHANGED <<conn, wires, leftEarly>> /\ conn[c] = None /\ l = "gone"
  <2>1. UNCHANGED <<conn, toServer, toClient, peer, leftEarly>>
    BY <1>5 DEF wires
  <2>2. TypeOK' /\ Connected'
    BY <1>1, <1>2, <1>3, <1>5, <2>1 DEF TypeOK, Connected
  <2>3. NameFlow' /\ ReplyComing' /\ Departures' /\ EndsOnlyByDeparture'
    BY <1>1, <1>2, <1>3, <1>5, <2>1
       DEF TypeOK, NameFlow, ReplyComing, Departures, EndsOnlyByDeparture
  <2> QED BY <2>2, <2>3
<1>6. CASE Close(c) /\ conn[c] # None
  <2> DEFINE k == conn[c]
  <2>1. k \in Conns /\ conn' = [conn EXCEPT ![c] = None] /\ UNCHANGED toServer
    BY <1>6 DEF Close, TypeOK
  <2>2. PICK p \in {"fin", "reset"} :
          peer' = [peer EXCEPT ![k] = p] /\ (p = "reset" => toClient[k] > 0)
    BY <1>6 DEF Close
  <2>3. /\ toClient' = [toClient EXCEPT ![k] = 0]
        /\ leftEarly' = (leftEarly \/ toClient[k] > 0 \/ toServer[k] > 0
                            \/ (session = k /\ spc = "replying"))
    BY <1>6 DEF Close
  <2>4. \A d \in Clients : d # c /\ conn[d] # None => conn[d] # k
    BY <1>6, <2>1 DEF Connected
  <2>5. TypeOK'
    BY <1>1, <1>3, <2>1, <2>2, <2>3 DEF TypeOK
  <2>6. Connected'
    BY <1>1, <1>2, <1>3, <2>1, <2>2, <2>4 DEF TypeOK, Connected
  <2>7. NameFlow'
    <3>1. l = "calling" => heard[c] > 0 \/ spc = "gone"
      BY <1>3, <1>6 DEF CloseConnection, Kill, GoTo, NameFlow, TypeOK
    <3> QED BY <1>1, <1>2, <1>3, <2>1, <2>3, <2>4, <3>1 DEF TypeOK, Connected, NameFlow
  <2>8. ReplyComing'
    BY <1>1, <1>2, <1>3, <2>1, <2>3, <2>4 DEF TypeOK, Connected, ReplyComing
  <2>9. Departures' /\ EndsOnlyByDeparture'
    <3>1. leftEarly => leftEarly'
      BY <2>3
    <3>2. \A j \in Conns : peer'[j] \in {"reset", "broken"} => leftEarly'
      BY <2>1, <2>2, <2>3, <3>1 DEF Departures, TypeOK
    <3>3. spc' = "replying" /\ peer'[session'] # "open" => leftEarly'
      <4> SUFFICES ASSUME spc = "replying", peer'[session] # "open" PROVE leftEarly'
        BY <1>1
      <4>1. session \in Conns
        BY DEF Connected, TypeOK
      <4>2. CASE session = k
        BY <2>3, <4>2
      <4>3. CASE session # k
        BY <2>1, <2>2, <3>1, <4>1, <4>3 DEF Departures, TypeOK
      <4> QED BY <4>2, <4>3
    <3>4. \A j \in Conns : peer'[j] = "fin" /\ toServer'[j] > 0 => leftEarly'
      BY <2>1, <2>2, <2>3, <3>1 DEF Departures, TypeOK
    <3>5. spc' = "gone" => peer'[session'] \in {"reset", "broken"}
      <4>1. spc = "gone" => session \in Conns /\ session # k
        BY <1>6 DEF Departures, Connected, TypeOK
      <4> QED BY <1>1, <2>1, <2>2, <4>1 DEF Departures, TypeOK
    <3> QED BY <1>1, <3>1, <3>2, <3>3, <3>4, <3>5 DEF Departures, EndsOnlyByDeparture
  <2> QED BY <2>5, <2>6, <2>7, <2>8, <2>9
<1>7. \/ conn[c] # None /\ Close(c)
      \/ UNCHANGED <<conn, wires, leftEarly>> /\ conn[c] = None /\ l = "gone"
  <2>1. CASE CloseConnection(c)
    <3>1. cpc[c] = "closing" /\ Close(c)
      BY <2>1 DEF CloseConnection
    <3>2. conn[c] # None
      BY <3>1 DEF Connected
    <3> QED BY <3>1, <3>2
  <2>2. CASE Kill(c)
    <3>1. cpc' = [cpc EXCEPT ![c] = "gone"]
      BY <2>2 DEF Kill, GoTo
    <3>2. cpc'[c] = "gone" /\ cpc'[c] = l
      <4>1. cpc \in [Clients -> {"idle", "connected", "cutoff", "waiting", "closing", "calling", "gone"}]
        BY DEF TypeOK
      <4> QED BY <1>3, <3>1, <4>1, Zenon
    <3>3. \/ conn[c] # None /\ Close(c)
          \/ UNCHANGED <<conn, wires, leftEarly>> /\ conn[c] = None
      BY <2>2, Zenon DEF Kill
    <3> QED BY <3>2, <3>3, Zenon
  <2> QED BY <2>1, <2>2
<1> QED BY <1>5, <1>6, <1>7

LEMMA StepAccept ==
  ASSUME IInv, Accept
  PROVE  IInv'
<1> USE DEF IInv
<1>1. /\ queue' \in Seq(Conns)
      /\ Len(queue') = Len(queue) - 1 /\ Len(queue) \in Nat \ {0}
      /\ Head(queue) = queue[1] /\ Head(queue) \in Conns
      /\ \A i \in 1..Len(queue') : queue'[i] = queue[i + 1]
      /\ \A j \in Conns : Queued(j) => Queued(j)' \/ j = Head(queue)
      /\ \A j \in Conns : Queued(j)' => Queued(j)
      /\ Queued(Head(queue))
  BY QueueTake DEF Accept, TypeOK
<1>2. /\ session' = Head(queue) /\ spc' = "receiving" /\ spc = "accepting"
      /\ UNCHANGED <<cpc, conn, heard, toServer, toClient, peer, leftEarly>>
  BY DEF Accept, AfterAccept, wires
<1>3. TypeOK'
  BY <1>1, <1>2 DEF TypeOK
<1>4. Connected'
  <2>1. \A i \in 1..Len(queue') : queue'[i] # session'
    <3> SUFFICES ASSUME NEW i \in 1..Len(queue'), queue'[i] = Head(queue) PROVE FALSE
      BY <1>2
    <3>1. i + 1 \in 1..Len(queue) /\ 1 \in 1..Len(queue) /\ queue[i + 1] = queue[1]
      BY <1>1
    <3>2. i + 1 = 1
      BY <3>1 DEF Connected
    <3> QED BY <3>2
  <2>2. (\A i, j \in 1..Len(queue) : queue[i] = queue[j] => i = j)'
    BY <1>1 DEF Connected
  <2>3. \A d \in Clients : conn[d] # None => Queued(conn[d])' \/ session' = conn[d]
    BY <1>1, <1>2 DEF Connected, TypeOK
  <2>4. ~Queued(session)'
    BY <2>1 DEF Queued
  <2> QED BY <1>1, <1>2, <2>2, <2>3, <2>4 DEF Connected, TypeOK
<1>5. NameFlow'
  BY <1>1, <1>2 DEF NameFlow, TypeOK
<1>6. ReplyComing' /\ Departures' /\ EndsOnlyByDeparture'
  BY <1>2 DEF ReplyComing, Departures, EndsOnlyByDeparture
<1> QED BY <1>3, <1>4, <1>5, <1>6

LEMMA StepRecvName ==
  ASSUME IInv, RecvName
  PROVE  IInv'
<1> USE DEF IInv
<1>1. PICK n \in 1..toServer[session] :
        /\ toServer' = [toServer EXCEPT ![session] = @ - n]
        /\ heard' = [c \in Clients |-> IF conn[c] = session THEN heard[c] + n ELSE heard[c]]
  BY DEF RecvName
<1>2. /\ spc = "receiving" /\ spc' = "replying"
      /\ UNCHANGED <<cpc, conn, queue, session, toClient, peer, leftEarly>>
  BY DEF RecvName
<1>3. \A k : Queued(k)' <=> Queued(k)
  BY <1>2 DEF Queued
<1>4. session \in Conns /\ ~Queued(session)
  BY <1>2 DEF Connected, TypeOK
<1>5. \A c \in Clients : conn[c] = session => cpc[c] \in {"waiting", "closing"}
  BY <1>1, <1>2, <1>4 DEF Connected, NameFlow, TypeOK
<1>6. \A c \in Clients : conn[c] = session => toServer[session] + heard[c] = NAME
  BY <1>2, <1>5 DEF NameFlow, TypeOK
<1>7. TypeOK'
  BY <1>1, <1>2, <1>4, <1>6 DEF TypeOK
<1>8. Connected'
  BY <1>2, <1>3 DEF Connected
<1>9. NameFlow'
  BY <1>1, <1>2, <1>3, <1>4, <1>5, <1>6 DEF NameFlow, Connected, TypeOK
<1>10. ReplyComing'
  BY <1>1, <1>2, <1>4 DEF ReplyComing, Connected, TypeOK
<1>11. Departures' /\ EndsOnlyByDeparture'
  <2>1. peer[session] # "open" => leftEarly
    BY <1>1, <1>4 DEF Departures, TypeOK
  <2>2. \A k \in Conns : toServer'[k] <= toServer[k]
    BY <1>1, <1>4 DEF TypeOK
  <2>3. \A k \in Conns : toServer'[k] > 0 => toServer[k] > 0
    BY <1>1, <1>4 DEF TypeOK
  <2> QED BY <1>2, <2>1, <2>3 DEF Departures, EndsOnlyByDeparture
<1> QED BY <1>7, <1>8, <1>9, <1>10, <1>11

LEMMA StepReply ==
  ASSUME IInv, Reply
  PROVE  IInv'
<1> USE DEF IInv
<1>1. /\ spc = "replying" /\ session \in Conns
      /\ UNCHANGED <<cpc, conn, heard, queue, session, toServer, leftEarly>>
  BY DEF Reply, Connected, TypeOK
<1>2. \A k : Queued(k)' <=> Queued(k)
  BY <1>1 DEF Queued
<1>3. CASE peer[session] = "open"
  <2>1. /\ toClient' = [toClient EXCEPT ![session] = @ + MSG]
        /\ spc' = "receiving" /\ UNCHANGED peer
    BY <1>3 DEF Reply
  <2>2. TypeOK'
    BY <1>1, <2>1 DEF TypeOK
  <2>3. Connected'
    BY <1>1, <1>2, <2>1 DEF Connected
  <2>4. NameFlow'
    BY <1>1, <1>2, <2>1 DEF NameFlow, Connected, TypeOK
  <2>5. ReplyComing'
    BY <1>1, <2>1 DEF ReplyComing, Connected, TypeOK
  <2>6. Departures' /\ EndsOnlyByDeparture'
    BY <1>1, <2>1 DEF Departures, EndsOnlyByDeparture
  <2> QED BY <2>2, <2>3, <2>4, <2>5, <2>6
<1>4. CASE peer[session] # "open"
  <2>1. leftEarly
    BY <1>1, <1>4 DEF Departures
  <2>2. /\ spc' \in {"receiving", "gone"} /\ UNCHANGED toClient
        /\ \E p \in {"broken", "reset"} :
             peer' = [peer EXCEPT ![session] = p] \/ UNCHANGED peer
    BY <1>4 DEF Reply
  <2>3. \A c \in Clients : conn[c] # session
    BY <1>1, <1>4 DEF Connected, TypeOK
  <2>4. TypeOK'
    BY <1>1, <2>2 DEF TypeOK
  <2>5. Connected'
    BY <1>1, <1>2, <2>2, <2>3 DEF Connected, TypeOK
  <2>6. NameFlow'
    BY <1>1, <1>2, <2>2, <2>3 DEF NameFlow, TypeOK
  <2>7. ReplyComing'
    BY <1>1, <1>2, <2>2, <2>3 DEF ReplyComing, Connected, TypeOK
  <2>8. Departures' /\ EndsOnlyByDeparture'
    <3>1. spc' = "gone" => peer' = peer /\ peer[session] = "broken"
      BY <1>1, <1>4 DEF Reply
    <3> QED BY <1>1, <2>1, <3>1 DEF Departures, EndsOnlyByDeparture
  <2> QED BY <2>4, <2>5, <2>6, <2>7, <2>8
<1> QED BY <1>3, <1>4

(* The ends of a session, in order or by an error.                         *)
LEMMA StepEnd ==
  ASSUME IInv, RecvEof \/ RecvError
  PROVE  IInv'
<1> USE DEF IInv
<1>1. /\ UNCHANGED <<cpc, conn, heard, queue, toServer, toClient, peer, leftEarly>>
      /\ session \in Conns /\ peer[session] # "open" /\ spc = "receiving"
      /\ \/ spc' = "accepting" /\ session' = None
         \/ spc' = "gone" /\ session' = session /\ peer[session] = "reset"
  BY DEF RecvEof, RecvError, Eof, wires, Connected, TypeOK
<1>2. \A k : Queued(k)' <=> Queued(k)
  BY <1>1 DEF Queued
<1>3. \A c \in Clients : conn[c] # session
  BY <1>1 DEF Connected, TypeOK
<1>4. TypeOK'
  BY <1>1 DEF TypeOK
<1>5. Connected'
  BY <1>1, <1>2, <1>3 DEF Connected, TypeOK
<1>6. NameFlow'
  BY <1>1, <1>2, <1>3 DEF NameFlow
<1>7. ReplyComing' /\ Departures' /\ EndsOnlyByDeparture'
  BY <1>1, <1>2, <1>3 DEF ReplyComing, Departures, EndsOnlyByDeparture, Connected, TypeOK
<1> QED BY <1>4, <1>5, <1>6, <1>7

LEMMA NextIInv == IInv /\ [Next]_vars => IInv'
<1> SUFFICES ASSUME IInv, [Next]_vars PROVE IInv'
  OBVIOUS
<1>1. CASE UNCHANGED vars
  BY <1>1 DEF vars, IInv, TypeOK, Connected, NameFlow, ReplyComing, Departures,
     EndsOnlyByDeparture, Queued
<1>2. CASE Serve
  BY <1>2, StepAccept, StepRecvName, StepReply, StepEnd DEF Serve
<1>3. ASSUME NEW c \in Clients, Connect(c) \/ ConnectRefused(c) \/ Proceed(c) \/ Kill(c)
      PROVE  IInv'
  BY <1>3, StepConnect, StepProceed, StepClose DEF Proceed
<1> QED BY <1>1, <1>2, <1>3 DEF Next

-----------------------------------------------------------------------------
(* Connections, names and replies are accounted for in every state.        *)
THEOREM Inductive == Spec => []IInv
BY InitIInv, NextIInv, PTL DEF Spec

(* No program waits for ever: its name or the reply is under way, or the   *)
(* server has ended without accepting it, which the kernel reports.        *)
THEOREM RepliesComing == Spec => []ReplyComing
<1>1. IInv => ReplyComing
  BY DEF IInv
<1> QED BY <1>1, Inductive, PTL

(* The server of the checkpoint ends only because a client left early.     *)
THEOREM ServerEnds == Spec => []EndsOnlyByDeparture
<1>1. IInv => EndsOnlyByDeparture
  BY DEF IInv
<1> QED BY <1>1, Inductive, PTL

(* A step of one program is a step of its own LoggedCall.                  *)
LEMMA ClientLoggedStep ==
  ASSUME IInv, NEW b \in Clients,
         Connect(b) \/ ConnectRefused(b) \/ Proceed(b) \/ Kill(b)
  PROVE  LoggedStep
<1> SUFFICES ASSUME NEW c \in Clients PROVE Logged(c)!Next \/ UNCHANGED Logged(c)!vars
  BY DEF LoggedStep
<1>1. /\ cpc \in [Clients -> {"idle", "connected", "cutoff", "waiting", "closing", "calling", "gone"}]
      /\ heard \in [Clients -> 0..NAME] /\ NAME \in Nat
  BY DEF IInv, TypeOK
<1>2. UNCHANGED spc
  BY DEF Connect, ConnectRefused, Proceed, SendName, SendFails, RecvReply, RecvNothing,
     CloseConnection, Return, CallFails, Kill, server
<1>3. CASE c # b
  <2>1. cpc'[c] = cpc[c] /\ heard'[c] = heard[c]
    BY <1>1, <1>3 DEF Connect, ConnectRefused, Proceed, SendName, SendFails, RecvReply,
       RecvNothing, CloseConnection, Return, CallFails, Kill, GoTo
  <2> QED BY <1>2, <2>1 DEF Logged!vars
<1>4. CASE Connect(c)
  <2>1. cpc[c] = "idle" /\ cpc'[c] = "connected" /\ heard'[c] = 0 /\ spc # "gone"
    BY <1>1, <1>4 DEF Connect, GoTo
  <2>2. (heard'[c] > 0) = FALSE
    BY <2>1
  <2> QED BY <1>2, <2>1, <2>2 DEF Logged!Next, Logged!Call
<1>5. CASE SendName(c) \/ SendFails(c) \/ RecvReply(c) \/ RecvNothing(c) \/ CloseConnection(c)
  <2>1. /\ cpc[c] \in {"connected", "cutoff", "waiting", "closing"}
        /\ cpc'[c] \in {"cutoff", "waiting", "closing", "calling"} /\ heard'[c] = heard[c]
    BY <1>1, <1>5 DEF SendName, SendFails, RecvReply, RecvNothing, CloseConnection, GoTo
  <2> QED BY <1>2, <2>1 DEF Logged!vars
<1>6. CASE Return(c)
  <2>1. cpc[c] = "calling" /\ cpc'[c] = "idle" /\ heard'[c] = heard[c]
    BY <1>1, <1>6 DEF Return, GoTo
  <2>2. heard[c] > 0 \/ spc = "gone"
    BY <2>1 DEF IInv, NameFlow
  <2> QED BY <1>2, <2>1, <2>2 DEF Logged!Next, Logged!Return
<1>7. CASE ConnectRefused(c) \/ CallFails(c) \/ Kill(c)
  <2>1. cpc[c] # "gone" /\ cpc'[c] = "gone" /\ heard'[c] = heard[c]
    BY <1>1, <1>7 DEF ConnectRefused, CallFails, Kill, GoTo
  <2> QED BY <1>1, <1>2, <2>1 DEF Logged!Next, Logged!Vanish
<1> QED BY <1>3, <1>4, <1>5, <1>6, <1>7 DEF Proceed

(* A step of the server prints the call of the program it hears from, or   *)
(* ends the server, or cannot be told by the programs.                     *)
LEMMA ServerLoggedStep ==
  ASSUME IInv, Serve
  PROVE  LoggedStep
<1> SUFFICES ASSUME NEW c \in Clients PROVE Logged(c)!Next \/ UNCHANGED Logged(c)!vars
  BY DEF LoggedStep
<1>1. UNCHANGED cpc /\ spc # "gone"
  BY DEF Serve, Accept, RecvName, Reply, RecvEof, Eof, RecvError
<1>2. heard \in [Clients -> 0..NAME] /\ toServer \in [Conns -> 0..NAME]
  BY DEF IInv, TypeOK
<1>3. CASE RecvName
  <2>1. session \in Conns /\ spc' # "gone"
    BY <1>3 DEF RecvName, IInv, TypeOK, Connected
  <2>2. PICK n \in 1..toServer[session] :
          heard' = [d \in Clients |-> IF conn[d] = session THEN heard[d] + n ELSE heard[d]]
    BY <1>3 DEF RecvName
  <2>3. heard'[c] = heard[c] \/ (heard'[c] > 0 /\ heard[c] >= 0)
    BY <1>2, <2>1, <2>2
  <2>4. CASE heard'[c] = heard[c]
    BY <1>1, <2>1, <2>4 DEF Logged!vars
  <2>5. CASE heard'[c] > 0 /\ heard[c] > 0
    <3>1. (heard'[c] > 0) = (heard[c] > 0)
      BY <2>5
    <3> QED BY <1>1, <2>1, <3>1 DEF Logged!vars
  <2>6. CASE heard'[c] > 0 /\ heard[c] = 0
    <3>1. (heard'[c] > 0) = TRUE /\ ~(heard[c] > 0)
      BY <2>6
    <3> QED BY <1>1, <2>1, <3>1 DEF Logged!Next, Logged!PrintName
  <2> QED BY <1>2, <2>3, <2>4, <2>5, <2>6
<1>4. CASE ~RecvName
  <2>1. UNCHANGED heard
    BY <1>4 DEF Serve, Accept, Reply, RecvEof, Eof, RecvError
  <2>2. CASE spc' # "gone"
    BY <1>1, <2>1, <2>2 DEF Logged!vars
  <2>3. CASE spc' = "gone"
    <3>1. (spc # "gone") = TRUE /\ (spc' # "gone") = FALSE
      BY <1>1, <2>3
    <3> QED BY <1>1, <2>1, <3>1 DEF Logged!Next, Logged!ServerEnds
  <2> QED BY <2>2, <2>3
<1> QED BY <1>3, <1>4

(* To each of its programs the server of the checkpoint is a LoggedCall,   *)
(* whatever the others do and however many there are.                      *)
THEOREM Refinement == Spec => ImplementsLoggedCall
<1>1. Init => LoggedInit
  <2> SUFFICES ASSUME Init, NEW c \in Clients PROVE Logged(c)!Init
    BY DEF LoggedInit
  <2>1. cpc[c] = "idle" /\ heard[c] > 0
    BY DEF Init
  <2>2. (heard[c] > 0) = TRUE /\ (spc # "gone") = TRUE
    BY <2>1 DEF Init
  <2> QED BY <2>1, <2>2, Zenon DEF Logged!Init
<1>2. IInv /\ [Next]_vars => [LoggedStep]_vars
  BY ClientLoggedStep, ServerLoggedStep DEF Next
<1> QED BY <1>1, <1>2, Inductive, PTL DEF Spec, ImplementsLoggedCall
=============================================================================
