---------------------------- MODULE FramingProofs ----------------------------
(***************************************************************************)
(* Proofs about module Framing, for every header width, buffer size, set   *)
(* of frame sizes and set of sides that may die.                           *)
(***************************************************************************)
EXTENDS Framing, TLAPS

USE FramingAssumption DEF Sides, Peer, Receiving, Control, AtMost, Recvable

LEMMA InitIInv == Init => IInv
  BY DEF Init, IInv, TypeOK, LocalInv, RequestFlow, ResponseFlow, WholeFrame,
         Inflight, Received, Quiet

LEMMA GoneIInv ==
  ASSUME IInv, NEW s \in Sides, pc' = [pc EXCEPT ![s] = "gone"],
         UNCHANGED <<pending, buffered, wire, received, off, frame_size, served>>
  PROVE  IInv'
<1> USE DEF IInv
<1>1. TypeOK'
  BY DEF TypeOK
<1>2. LocalInv'
  BY DEF TypeOK, LocalInv, Quiet
<1>3. RequestFlow'
  BY DEF TypeOK, RequestFlow, Inflight, Received
<1>4. ResponseFlow'
  BY DEF TypeOK, ResponseFlow, Inflight, Received
<1>5. WholeFrame'
  BY DEF TypeOK, WholeFrame
<1> QED BY <1>1, <1>2, <1>3, <1>4, <1>5

LEMMA StartSendFacts ==
  ASSUME TypeOK, NEW s \in Sides, NEW n \in Sizes, StartSend(s, n), Quiet(s)
  PROVE  /\ frame_size' = [frame_size EXCEPT ![Peer(s)] = n]
         /\ pc' = [pc EXCEPT ![s] = "sending"]
         /\ buffered' \in [Sides -> 0..MAXMSGLEN] /\ pending' \in [Sides -> Nat]
         /\ buffered'[s] > 0 /\ pending'[s] + buffered'[s] = HDR + n
         /\ buffered'[Peer(s)] = buffered[Peer(s)]
         /\ pending'[Peer(s)] = pending[Peer(s)]
<1> DEFINE len == AtMost(n, MAXMSGLEN - HDR)
<1>1. len \in Nat /\ len <= n /\ len <= MAXMSGLEN - HDR
  OBVIOUS
<1> HIDE DEF len
<1>2. buffered' = [buffered EXCEPT ![s] = HDR + len] /\ pending' = [pending EXCEPT ![s] = n - len]
  BY DEF StartSend, len
<1> QED BY <1>1, <1>2 DEF StartSend, TypeOK

LEMMA CallIInv ==
  ASSUME IInv, NEW n \in Sizes, Call(n)
  PROVE  IInv'
<1> USE DEF IInv
<1>1. pc["client"] = "idle" /\ StartSend("client", n) /\ served' = FALSE
      /\ UNCHANGED <<wire, received, off>> /\ Quiet("client")
  BY DEF Call, LocalInv
<1>2. /\ frame_size' = [frame_size EXCEPT !["server"] = n]
      /\ pc' = [pc EXCEPT !["client"] = "sending"]
      /\ buffered' \in [Sides -> 0..MAXMSGLEN] /\ pending' \in [Sides -> Nat]
      /\ buffered'["client"] > 0 /\ pending'["client"] + buffered'["client"] = HDR + n
      /\ buffered'["server"] = buffered["server"]
      /\ pending'["server"] = pending["server"]
  BY <1>1, StartSendFacts
<1>q. pc["server"] \in {"first", "gone"}
  BY <1>1 DEF TypeOK, LocalInv, ResponseFlow, Inflight, Received
<1>3. TypeOK'
  BY <1>1, <1>2 DEF TypeOK
<1>4. LocalInv'
  BY <1>1, <1>2, <1>q DEF TypeOK, LocalInv, Quiet
<1>5. RequestFlow'
  BY <1>1, <1>2 DEF TypeOK, LocalInv, Quiet, RequestFlow, Inflight, Received
<1>6. ResponseFlow'
  BY <1>1, <1>2 DEF TypeOK, LocalInv, Quiet, ResponseFlow, Inflight, Received
<1>7. WholeFrame'
  BY <1>1, <1>2, <1>q DEF TypeOK, LocalInv, WholeFrame
<1> QED BY <1>3, <1>4, <1>5, <1>6, <1>7
LEMMA HandleIInv ==
  ASSUME IInv, NEW n \in Sizes, Handle(n)
  PROVE  IInv'
<1> USE DEF IInv
<1>1. pc["server"] = "handling" /\ StartSend("server", n) /\ served' = TRUE
      /\ UNCHANGED <<wire, received, off>> /\ Quiet("server") /\ ~served
  BY DEF Handle, LocalInv
<1>2. /\ frame_size' = [frame_size EXCEPT !["client"] = n]
      /\ pc' = [pc EXCEPT !["server"] = "sending"]
      /\ buffered' \in [Sides -> 0..MAXMSGLEN] /\ pending' \in [Sides -> Nat]
      /\ buffered'["server"] > 0 /\ pending'["server"] + buffered'["server"] = HDR + n
      /\ buffered'["client"] = buffered["client"]
      /\ pending'["client"] = pending["client"]
  BY <1>1, StartSendFacts
<1>q. pc["client"] \in {"first", "header", "gone"}
  <2>1. pc["client"] \notin {"sending", "idle"}
    BY <1>1 DEF TypeOK, LocalInv, RequestFlow, Inflight, Received
  <2>2. pc["client"] # "body"
    BY <1>1 DEF TypeOK, LocalInv, ResponseFlow, Inflight, Received, WholeFrame
  <2> QED BY <2>1, <2>2 DEF TypeOK
<1>3. TypeOK'
  BY <1>1, <1>2 DEF TypeOK
<1>4. LocalInv'
  BY <1>1, <1>2, <1>q DEF TypeOK, LocalInv, Quiet
<1>5. RequestFlow'
  BY <1>1, <1>2 DEF TypeOK, LocalInv, Quiet, RequestFlow, Inflight, Received
<1>6. ResponseFlow'
  BY <1>1, <1>2 DEF TypeOK, LocalInv, Quiet, ResponseFlow, Inflight, Received
<1>7. WholeFrame'
  BY <1>1, <1>2, <1>q DEF TypeOK, LocalInv, WholeFrame
<1> QED BY <1>3, <1>4, <1>5, <1>6, <1>7

LEMMA SendIInv ==
  ASSUME IInv, NEW s \in Sides, NEW k \in 1..buffered[s], SendBytes(s, k)
  PROVE  IInv'
<1> USE DEF IInv
<1>1. /\ pc[s] = "sending" /\ k \in Nat \ {0} /\ k <= buffered[s]
      /\ wire' = [wire EXCEPT ![Peer(s)] = @ + k]
      /\ UNCHANGED <<received, off, frame_size, served>>
  BY DEF SendBytes, TypeOK
<1>2. /\ pc' = pc \/ (pc' = [pc EXCEPT ![s] = "first"] /\ pending'[s] + buffered'[s] = 0)
      /\ buffered' \in [Sides -> 0..MAXMSGLEN] /\ pending' \in [Sides -> Nat]
      /\ pc' = pc => buffered'[s] > 0
      /\ pending'[s] + buffered'[s] = pending[s] + buffered[s] - k
      /\ buffered'[Peer(s)] = buffered[Peer(s)]
      /\ pending'[Peer(s)] = pending[Peer(s)]
  <2>1. CASE k < buffered[s] /\ buffered' = [buffered EXCEPT ![s] = @ - k]
             /\ UNCHANGED <<pc, pending>>
    BY <1>1, <2>1 DEF TypeOK
  <2>2. CASE k = buffered[s] /\ pending[s] > 0 /\ UNCHANGED pc
             /\ LET len == AtMost(pending[s], MAXMSGLEN)
                IN /\ buffered' = [buffered EXCEPT ![s] = len]
                   /\ pending' = [pending EXCEPT ![s] = @ - len]
    BY <1>1, <2>2 DEF TypeOK
  <2>3. CASE k = buffered[s] /\ pending[s] = 0 /\ UNCHANGED pending
             /\ buffered' = [buffered EXCEPT ![s] = 0]
             /\ pc' = [pc EXCEPT ![s] = "first"]
    BY <1>1, <2>3 DEF TypeOK
  <2> QED BY <2>1, <2>2, <2>3 DEF SendBytes
<1>w. /\ wire' \in [Sides -> Nat] /\ wire'[s] = wire[s]
      /\ wire'[Peer(s)] = wire[Peer(s)] + k
  BY <1>1 DEF TypeOK
<1>p. /\ pc' \in [Sides -> Control] /\ pc'[s] \in {"sending", "first"}
      /\ pc'[Peer(s)] = pc[Peer(s)]
  BY <1>1, <1>2 DEF TypeOK
<1>3. TypeOK'
  BY <1>1, <1>2, <1>w, <1>p DEF TypeOK
<1>c. CASE s = "client"
  <2>1. LocalInv'
    BY <1>c, <1>1, <1>2 DEF TypeOK, LocalInv, Quiet
  <2>2. RequestFlow'
    BY <1>c, <1>1, <1>2, <1>w, <1>p DEF TypeOK, LocalInv, RequestFlow, Inflight, Received
  <2>3. ResponseFlow'
    BY <1>c, <1>1, <1>2 DEF TypeOK, LocalInv, ResponseFlow, Inflight, Received
  <2> QED BY <1>3, <2>1, <2>2, <2>3, <1>1, <1>2 DEF TypeOK, WholeFrame
<1>s. CASE s = "server"
  <2>1. LocalInv'
    BY <1>s, <1>1, <1>2 DEF TypeOK, LocalInv, Quiet
  <2>2. RequestFlow'
    BY <1>s, <1>1, <1>2 DEF TypeOK, LocalInv, RequestFlow, Inflight, Received
  <2>3. ResponseFlow'
    BY <1>s, <1>1, <1>2, <1>w, <1>p DEF TypeOK, LocalInv, ResponseFlow, Inflight, Received
  <2> QED BY <1>3, <2>1, <2>2, <2>3, <1>1, <1>2 DEF TypeOK, WholeFrame
<1> QED BY <1>c, <1>s

(* What the two receive steps have in common: after o bytes were copied,   *)
(* the bytes of the frame that is coming to s are all accounted for.       *)
LEMMA CopyIInv ==
  ASSUME IInv, NEW s \in Sides, NEW k \in Nat, NEW o \in Nat, k > 0,
         pc[s] \in Receiving, k <= wire[s], Received(s) + k = HDR + o,
         wire' = [wire EXCEPT ![s] = @ - k],
         off' = [off EXCEPT ![s] = o],
         pc' = [pc EXCEPT ![s] = AfterCopy(s, o)],
         received' \in [Sides -> 0..MAXMSGLEN],
         \A t \in Sides : t # s => received'[t] = received[t],
         UNCHANGED <<pending, buffered, frame_size, served>>
  PROVE  IInv'
<1> USE DEF IInv
<1>1. /\ wire' \in [Sides -> Nat] /\ wire'[s] = wire[s] - k
      /\ wire'[Peer(s)] = wire[Peer(s)]
      /\ off' \in [Sides -> Nat] /\ off'[s] = o /\ off'[Peer(s)] = off[Peer(s)]
      /\ received'[Peer(s)] = received[Peer(s)]
      /\ UNCHANGED <<pending, buffered, frame_size, served>>
      /\ pc[s] \in Receiving /\ k > 0 /\ Received(s) + k = HDR + o
  BY DEF TypeOK
<1>r. Received(s) \in Nat /\ k <= wire[s]
  BY DEF TypeOK, Received
<1>2. /\ pc' \in [Sides -> Control] /\ pc'[Peer(s)] = pc[Peer(s)]
      /\ pc'[s] = AfterCopy(s, o)
  BY DEF AfterCopy, TypeOK
<1>3. TypeOK'
  BY <1>1, <1>2 DEF TypeOK, AfterCopy
<1>c. CASE s = "client"
  <2>1. /\ served /\ pc["client"] # "idle" /\ pc["client"] # "gone"
        /\ pending["server"] + buffered["server"] + wire["client"] + Received("client")
             = HDR + frame_size["client"]
    BY <1>c, <1>1 DEF TypeOK, ResponseFlow, Inflight, Received
  <2>2. o <= frame_size["client"]
    BY <1>c, <1>1, <1>r, <2>1 DEF TypeOK
  <2>3. /\ pc'["client"] \in {"body", "idle"}
        /\ pc'["client"] = "body" => o < frame_size["client"]
        /\ pc'["client"] = "idle" =>
             o = frame_size["client"] /\ wire'["client"] = 0 /\ Quiet("server")
    BY <1>c, <1>1, <1>2, <1>r, <2>1, <2>2 DEF AfterCopy, TypeOK, Quiet
  <2>a. pc'["client"] \notin {"sending", "gone", "header", "first"} /\ Quiet("client")'
    BY <1>c, <1>1, <2>3 DEF LocalInv, Quiet
  <2>b. /\ pc'["server"] = "sending" => buffered'["server"] > 0
        /\ pc'["server"] \notin {"sending", "gone"} => Quiet("server")'
        /\ pc'["server"] = "header" => received'["server"] < HDR
    BY <1>c, <1>1, <1>2 DEF LocalInv, Quiet
  <2>4. LocalInv'
    BY <1>c, <1>1, <1>2, <2>1, <2>3, <2>a, <2>b DEF LocalInv
  <2>5. RequestFlow'
    BY <1>c, <1>1, <1>2 DEF TypeOK, RequestFlow, Inflight, Received
  <2>6. ResponseFlow'
    <3>1. CASE pc'["client"] = "idle"
      BY <3>1, <1>c, <1>1, <2>3 DEF ResponseFlow, Inflight, Received, Quiet
    <3>2. CASE pc'["client"] = "body"
      <4>1. Received("client")' = Received("client") + k
        BY <3>2, <1>c, <1>1 DEF Received
      <4> QED BY <3>2, <4>1, <1>c, <1>1, <1>r, <2>1 DEF TypeOK, ResponseFlow, Inflight
    <3> QED BY <2>3, <3>1, <3>2
  <2>7. WholeFrame'
    BY <1>c, <1>1, <1>2, <2>3 DEF TypeOK, WholeFrame
  <2> QED BY <1>3, <2>4, <2>5, <2>6, <2>7
<1>s. CASE s = "server"
  <2>1. /\ ~served /\ pc["server"] # "handling" /\ pc["server"] # "gone"
        /\ pending["client"] + buffered["client"] + wire["server"] + Received("server")
             = HDR + frame_size["server"]
    BY <1>s, <1>1 DEF TypeOK, RequestFlow, Inflight, Received
  <2>2. o <= frame_size["server"]
    BY <1>s, <1>1, <1>r, <2>1 DEF TypeOK
  <2>3. /\ pc'["server"] \in {"body", "handling"}
        /\ pc'["server"] = "body" => o < frame_size["server"]
        /\ pc'["server"] = "handling" =>
             o = frame_size["server"] /\ wire'["server"] = 0 /\ Quiet("client")
    BY <1>s, <1>1, <1>2, <1>r, <2>1, <2>2 DEF AfterCopy, TypeOK, Quiet
  <2>a. pc'["server"] \notin {"sending", "gone", "header", "first"} /\ Quiet("server")'
    BY <1>s, <1>1, <2>3 DEF LocalInv, Quiet
  <2>b. /\ pc'["client"] = "sending" => buffered'["client"] > 0
        /\ pc'["client"] \notin {"sending", "gone"} => Quiet("client")'
        /\ pc'["client"] = "header" => received'["client"] < HDR
    BY <1>s, <1>1, <1>2 DEF LocalInv, Quiet
  <2>4. LocalInv'
    BY <1>s, <1>1, <1>2, <2>1, <2>3, <2>a, <2>b DEF LocalInv
  <2>5. RequestFlow'
    BY <1>s, <1>1, <1>2, <2>1, <2>3 DEF TypeOK, RequestFlow, Inflight, Received, Quiet
  <2>6. ResponseFlow'
    BY <1>s, <1>1, <1>2 DEF TypeOK, ResponseFlow, Inflight, Received
  <2>7. WholeFrame'
    BY <1>s, <1>1, <1>2, <2>3 DEF TypeOK, WholeFrame
  <2> QED BY <1>3, <2>4, <2>5, <2>6, <2>7
<1> QED BY <1>c, <1>s

LEMMA RecvHeaderIInv ==
  ASSUME IInv, NEW s \in Sides, NEW k \in 1..MAXMSGLEN, RecvHeader(s, k)
  PROVE  IInv'
<1> USE DEF IInv
<1> DEFINE had == IF pc[s] = "first" THEN 0 ELSE received[s]
<1> DEFINE got == had + k
<1>1. had \in Nat /\ got \in Nat /\ got <= MAXMSGLEN /\ k \in Nat /\ k > 0
      /\ k <= wire[s] /\ had = Received(s) /\ pc[s] \in {"first", "header"}
  BY DEF RecvHeader, TypeOK, Received
<1>2. /\ wire' = [wire EXCEPT ![s] = @ - k]
      /\ received' = [received EXCEPT ![s] = got]
      /\ UNCHANGED <<pending, buffered, frame_size, served>>
  BY DEF RecvHeader
<1>3. \/ got < HDR /\ pc' = [pc EXCEPT ![s] = "header"] /\ UNCHANGED off
      \/ /\ got >= HDR
         /\ off' = [off EXCEPT ![s] = got - HDR]
         /\ pc' = [pc EXCEPT ![s] = AfterCopy(s, got - HDR)]
  BY DEF RecvHeader
<1> HIDE DEF had, got
<1>4. received' \in [Sides -> 0..MAXMSGLEN] /\ received'[s] = got
      /\ \A t \in Sides : t # s => received'[t] = received[t]
  BY <1>1, <1>2 DEF TypeOK
<1>5. CASE /\ got >= HDR
           /\ off' = [off EXCEPT ![s] = got - HDR]
           /\ pc' = [pc EXCEPT ![s] = AfterCopy(s, got - HDR)]
  <2>1. got - HDR \in Nat /\ Received(s) + k = HDR + (got - HDR)
    BY <1>1, <1>5 DEF got
  <2> QED BY <1>1, <1>2, <1>4, <1>5, <2>1, CopyIInv
<1>6. CASE got < HDR /\ pc' = [pc EXCEPT ![s] = "header"] /\ UNCHANGED off
  <2>0. got = Received(s) + k
    BY <1>1 DEF got
  <2>1. /\ wire' \in [Sides -> Nat] /\ wire'[s] = wire[s] - k
        /\ wire'[Peer(s)] = wire[Peer(s)]
        /\ pc' \in [Sides -> Control] /\ pc'[s] = "header" /\ pc'[Peer(s)] = pc[Peer(s)]
        /\ received'[Peer(s)] = received[Peer(s)]
    BY <1>1, <1>2, <1>4, <1>6 DEF TypeOK
  <2>2. TypeOK'
    BY <1>1, <1>2, <1>4, <1>6, <2>1 DEF TypeOK
  <2>c. CASE s = "client"
    <3>1. LocalInv'
      BY <2>c, <1>1, <1>2, <1>4, <1>6, <2>1 DEF TypeOK, LocalInv, Quiet
    <3>2. RequestFlow'
      BY <2>c, <1>1, <1>2, <1>4, <1>6, <2>1 DEF TypeOK, RequestFlow, Inflight, Received
    <3>3. ResponseFlow'
      BY <2>c, <1>1, <1>2, <1>4, <1>6, <2>0, <2>1 DEF TypeOK, ResponseFlow, Inflight, Received
    <3>4. WholeFrame'
      BY <2>c, <1>2, <1>6, <2>1 DEF TypeOK, WholeFrame
    <3> QED BY <2>2, <3>1, <3>2, <3>3, <3>4
  <2>s. CASE s = "server"
    <3>0. ~served
      BY <2>s, <1>1 DEF TypeOK, RequestFlow, Inflight, Received
    <3>1. LocalInv'
      BY <2>s, <1>1, <1>2, <1>4, <1>6, <2>1, <3>0 DEF TypeOK, LocalInv, Quiet
    <3>2. RequestFlow'
      BY <2>s, <1>1, <1>2, <1>4, <1>6, <2>0, <2>1 DEF TypeOK, RequestFlow, Inflight, Received
    <3>3. ResponseFlow'
      BY <2>s, <1>1, <1>2, <1>4, <1>6, <2>1 DEF TypeOK, ResponseFlow, Inflight, Received
    <3>4. WholeFrame'
      BY <2>s, <1>2, <1>6, <2>1 DEF TypeOK, WholeFrame
    <3> QED BY <2>2, <3>1, <3>2, <3>3, <3>4
  <2> QED BY <2>c, <2>s
<1> QED BY <1>3, <1>5, <1>6

LEMMA RecvBodyIInv ==
  ASSUME IInv, NEW s \in Sides, NEW k \in 1..MAXMSGLEN, RecvBody(s, k)
  PROVE  IInv'
<1> USE DEF IInv
<1>1. /\ pc[s] = "body" /\ k \in Nat /\ k > 0 /\ k <= wire[s]
      /\ off[s] + k \in Nat /\ Received(s) + k = HDR + (off[s] + k)
      /\ received' \in [Sides -> 0..MAXMSGLEN]
      /\ \A t \in Sides : t # s => received'[t] = received[t]
  BY DEF RecvBody, TypeOK, Received
<1>2. /\ wire' = [wire EXCEPT ![s] = @ - k]
      /\ off' = [off EXCEPT ![s] = off[s] + k]
      /\ pc' = [pc EXCEPT ![s] = AfterCopy(s, off[s] + k)]
      /\ UNCHANGED <<pending, buffered, frame_size, served>>
  BY DEF RecvBody
<1> QED BY <1>1, <1>2, CopyIInv

LEMMA RecvEofIInv ==
  ASSUME IInv, NEW s \in Sides, RecvEof(s)
  PROVE  IInv'
<1> USE DEF IInv
<1>0. UNCHANGED <<pending, buffered, wire, off, frame_size, served>>
  BY DEF RecvEof
<1>d. received' = [received EXCEPT ![s] = IF pc[s] = "first" THEN 0 ELSE @]
      /\ received' \in [Sides -> 0..MAXMSGLEN]
  BY DEF RecvEof, TypeOK
<1>p. pc[s] \in Receiving /\ pc' = [pc EXCEPT ![s] = AfterEof(s)]
  BY DEF RecvEof
<1>1. CASE pc[s] = "first" /\ s = "server"
  <2>0. pc' = [pc EXCEPT !["server"] = "gone"]
    BY <1>p, <1>1 DEF AfterEof
  <2>f. pc'["server"] = "gone" /\ pc'["client"] = pc["client"]
        /\ received'["client"] = received["client"]
    BY <2>0, <1>d, <1>1 DEF TypeOK
  <2>1. TypeOK'
    BY <1>0, <1>d, <2>0 DEF TypeOK
  <2>2. LocalInv'
    BY <1>0, <2>f DEF TypeOK, LocalInv, Quiet
  <2>3. RequestFlow'
    BY <2>f DEF RequestFlow
  <2>4. ResponseFlow'
    BY <1>0, <2>f DEF ResponseFlow, Inflight, Received
  <2>5. WholeFrame'
    BY <1>0, <2>f DEF WholeFrame
  <2> QED BY <2>1, <2>2, <2>3, <2>4, <2>5
<1>2. CASE pc[s] \in {"header", "body"}
  <2>1. UNCHANGED <<pc, received>>
    BY <1>d, <1>p, <1>2 DEF AfterEof, TypeOK
  <2> QED BY <1>0, <2>1 DEF TypeOK, LocalInv, RequestFlow, ResponseFlow, WholeFrame,
                            Inflight, Received, Quiet
<1>3. CASE pc[s] = "first" /\ s = "client"
  <2>0. /\ pc' = [pc EXCEPT !["client"] = "header"]
        /\ received' = [received EXCEPT !["client"] = 0]
    BY <1>d, <1>p, <1>3 DEF AfterEof
  <2>1. TypeOK'
    BY <1>0, <1>3, <2>0 DEF TypeOK
  <2>2. LocalInv'
    BY <1>0, <1>3, <2>0 DEF TypeOK, LocalInv, Quiet
  <2>3. RequestFlow'
    BY <1>0, <1>3, <2>0 DEF TypeOK, RequestFlow, Inflight, Received
  <2>4. ResponseFlow'
    BY <1>0, <1>3, <2>0 DEF TypeOK, ResponseFlow, Inflight, Received
  <2>5. WholeFrame'
    BY <1>0, <1>3, <2>0 DEF TypeOK, WholeFrame
  <2> QED BY <2>1, <2>2, <2>3, <2>4, <2>5
<1> QED BY <1>p, <1>1, <1>2, <1>3

LEMMA StepIInv ==
  ASSUME IInv, [Next]_vars
  PROVE  IInv'
<1>1. CASE \E n \in Sizes : Call(n) \/ Handle(n)
  BY <1>1, CallIInv, HandleIInv
<1>2. CASE Exit
  BY <1>2, GoneIInv DEF Exit
<1>3. ASSUME NEW s \in Sides, Send(s)
      PROVE  IInv'
  BY <1>3, SendIInv DEF Send
<1>4. ASSUME NEW s \in Sides, Recv(s)
      PROVE  IInv'
  BY <1>4, RecvHeaderIInv, RecvBodyIInv DEF Recv
<1>5. ASSUME NEW s \in Sides, SendFails(s) \/ RecvError(s) \/ Die(s)
      PROVE  IInv'
  BY <1>5, GoneIInv DEF SendFails, RecvError, Die
<1>6. CASE UNCHANGED vars
  BY <1>6 DEF vars, IInv, TypeOK, LocalInv, RequestFlow, ResponseFlow, WholeFrame,
              Inflight, Received, Quiet
<1> QED BY <1>1, <1>2, <1>3, <1>4, <1>5, <1>6, RecvEofIInv DEF Next

(* The inductive invariant holds in every reachable state.                 *)
THEOREM Inductive == Spec => []IInv
<1>1. IInv /\ [Next]_vars => IInv'
  BY StepIInv
<1> QED BY InitIInv, <1>1, PTL DEF Spec

(* Every counter stays in its range; in particular the receive buffer is   *)
(* never filled beyond MAXMSGLEN bytes, whatever recv returns.             *)
THEOREM TypeCorrect == Spec => []TypeOK
<1>1. IInv => TypeOK
  BY DEF IInv
<1> QED BY Inductive, <1>1, PTL

(* Frames are delivered whole: the copy loops, which never tell recv how   *)
(* many bytes are missing, still fill the heap buffer exactly.             *)
THEOREM FramesWhole == Spec => []WholeFrame
<1>1. IInv => WholeFrame
  BY DEF IInv
<1> QED BY Inductive, <1>1, PTL

(* Between two calls the stream is empty in both directions and the        *)
(* session is at the start of a frame.                                     *)
THEOREM StreamClean == Spec => []CleanBetweenCalls
<1>1. IInv => CleanBetweenCalls
  <2> SUFFICES ASSUME IInv, pc["client"] = "idle"
               PROVE  /\ wire["client"] = 0
                      /\ pc["server"] # "gone" =>
                           /\ wire["server"] = 0
                           /\ pc["server"] = "first"
                           /\ pending["server"] = 0 /\ buffered["server"] = 0
    BY DEF CleanBetweenCalls
  <2>1. served /\ pending["server"] = 0 /\ buffered["server"] = 0 /\ wire["client"] = 0
    BY DEF IInv, TypeOK, LocalInv, ResponseFlow, Inflight, Received
  <2>2. pc["server"] \in {"first", "gone"}
    BY <2>1 DEF IInv, TypeOK, LocalInv
  <2>3. pc["server"] # "gone" => wire["server"] = 0
    BY <2>1, <2>2 DEF IInv, TypeOK, RequestFlow, Inflight, Received
  <2> QED BY <2>1, <2>2, <2>3
<1> QED BY Inductive, <1>1, PTL

(* The two sides never send at the same time.                              *)
THEOREM OneSender == Spec => []HalfDuplex
<1>1. IInv => HalfDuplex
  BY DEF IInv, LocalInv, HalfDuplex
<1> QED BY Inductive, <1>1, PTL

(* However the bytes of the frames are split, the connection behaves as    *)
(* RemoteCall says: each call is executed at most once, before it returns. *)
THEOREM Refinement == Spec => ImplementsRemoteCall
<1>1. Init => Rpc!Init
  BY DEF Init, Rpc!Init
<1>2. ASSUME IInv, [Next]_vars
      PROVE  [Rpc!Next]_(Rpc!vars)
  <2>0. /\ pc \in [Sides -> Control] /\ pc["client"] # "handling"
        /\ served \in BOOLEAN /\ wire \in [Sides -> Nat]
    BY <1>2 DEF IInv, TypeOK
  <2>1. ASSUME NEW n \in Sizes, Call(n)
        PROVE  Rpc!Call
    <3>1. /\ pc["client"] = "idle" /\ pc' = [pc EXCEPT !["client"] = "sending"]
          /\ served' = FALSE
      BY <2>1 DEF Call, StartSend
    <3> QED BY <2>0, <3>1 DEF Rpc!Call
  <2>2. ASSUME NEW n \in Sizes, Handle(n)
        PROVE  Rpc!Execute
    <3>1. /\ served = FALSE /\ served' = TRUE /\ pc' = [pc EXCEPT !["server"] = "sending"]
      BY <1>2, <2>2 DEF Handle, StartSend, IInv, TypeOK, LocalInv
    <3> QED BY <2>0, <3>1 DEF Rpc!Execute
  <2>3. ASSUME NEW s \in Sides, pc' = [pc EXCEPT ![s] = "gone"], UNCHANGED served
        PROVE  [Rpc!Vanish]_(Rpc!vars)
    BY <2>0, <2>3 DEF Rpc!Vanish, Rpc!vars
  <2>4. ASSUME NEW s \in Sides, Send(s)
        PROVE  UNCHANGED Rpc!vars
    <3>1. /\ pc[s] = "sending" /\ served' = served
          /\ pc' = pc \/ pc' = [pc EXCEPT ![s] = "first"]
      BY <2>4 DEF Send, SendBytes
    <3>2. CASE pc' = pc
      BY <3>1, <3>2 DEF Rpc!vars
    <3>3. CASE pc' = [pc EXCEPT ![s] = "first"]
      <4>1. s = "client" \/ pc'["client"] = pc["client"]
        BY <2>0, <3>3
      <4>2. s = "client" => pc'["client"] = "first" /\ pc["client"] = "sending"
        BY <2>0, <3>1, <3>3
      <4> QED BY <3>1, <4>1, <4>2 DEF Rpc!vars
    <3> QED BY <3>1, <3>2, <3>3
  <2>5. ASSUME NEW s \in Sides, NEW k \in 1..MAXMSGLEN, RecvHeader(s, k) \/ RecvBody(s, k)
        PROVE  [Rpc!Return]_(Rpc!vars)
    <3>a. /\ pc[s] \in Receiving /\ served' = served /\ k \in Nat /\ k > 0 /\ k <= wire[s]
      BY <1>2, <2>0, <2>5 DEF RecvHeader, RecvBody, IInv, TypeOK
    <3>b. \E c \in {"header", "body", IF s = "client" THEN "idle" ELSE "handling"} :
               pc' = [pc EXCEPT ![s] = c]
      <4>1. \A o : AfterCopy(s, o) \in {"body", IF s = "client" THEN "idle" ELSE "handling"}
        BY DEF AfterCopy
      <4>2. CASE RecvHeader(s, k)
        BY <4>1, <4>2 DEF RecvHeader
      <4>3. CASE RecvBody(s, k)
        BY <4>1, <4>3 DEF RecvBody
      <4> QED BY <2>5, <4>2, <4>3
    <3>0. /\ pc[s] \in Receiving /\ served' = served /\ k \in Nat /\ k > 0 /\ k <= wire[s]
          /\ \E c \in {"header", "body", IF s = "client" THEN "idle" ELSE "handling"} :
               pc' = [pc EXCEPT ![s] = c]
      BY <3>a, <3>b
    <3>1. CASE s = "server"
      <4>1. pc'["client"] = pc["client"]
        BY <2>0, <3>0, <3>1
      <4> QED BY <3>0, <4>1 DEF Rpc!vars
    <3>2. CASE s = "client"
      <4>1. served
        <5>1. Inflight("client") > 0
          BY <1>2, <3>0, <3>2 DEF IInv, TypeOK, Inflight, Received
        <5>2. Inflight("client") = 0 \/ served
          BY <1>2, <3>0, <3>2 DEF IInv, ResponseFlow
        <5> QED BY <5>1, <5>2
      <4>2. pc'["client"] \in {"header", "body", "idle"}
        BY <2>0, <3>0, <3>2
      <4> QED BY <2>0, <3>0, <3>2, <4>1, <4>2 DEF Rpc!Return, Rpc!vars
    <3> QED BY <3>1, <3>2
  <2>6. ASSUME NEW s \in Sides, RecvEof(s)
        PROVE  [Rpc!Vanish]_(Rpc!vars)
    <3>1. /\ served' = served /\ pc[s] \in Receiving
          /\ \/ pc' = pc
             \/ pc' = [pc EXCEPT ![s] = "gone"]
             \/ pc' = [pc EXCEPT ![s] = "header"]
      BY <2>0, <2>6 DEF RecvEof, AfterEof
    <3>2. CASE pc' = [pc EXCEPT ![s] = "gone"]
      BY <3>1, <3>2, <2>3
    <3>3. CASE pc' = pc
      BY <3>1, <3>3 DEF Rpc!vars
    <3>4. CASE pc' = [pc EXCEPT ![s] = "header"]
      <4>1. s = "client" \/ pc'["client"] = pc["client"]
        BY <2>0, <3>4
      <4>2. s = "client" => pc'["client"] = "header" /\ pc["client"] \in Receiving
        BY <2>0, <3>1, <3>4
      <4> QED BY <3>1, <4>1, <4>2 DEF Rpc!vars
    <3> QED BY <3>1, <3>2, <3>3, <3>4
  <2>7. ASSUME NEW s \in Sides, SendFails(s) \/ RecvError(s) \/ Die(s)
        PROVE  [Rpc!Vanish]_(Rpc!vars)
    BY <2>7, <2>3 DEF SendFails, RecvError, Die
  <2>8. CASE Exit
    BY <2>8, <2>3 DEF Exit, Rpc!Next
  <2>9. ASSUME NEW s \in Sides, Recv(s)
        PROVE  [Rpc!Return]_(Rpc!vars)
    BY <2>9, <2>5 DEF Recv
  <2>10. CASE UNCHANGED vars
    BY <2>10 DEF vars, Rpc!vars
  <2> QED BY <1>2, <2>1, <2>2, <2>4, <2>6, <2>7, <2>8, <2>9, <2>10 DEF Next, Rpc!Next
<1> QED BY Inductive, <1>1, <1>2, PTL DEF Spec, Rpc!Spec, ImplementsRemoteCall
=============================================================================
