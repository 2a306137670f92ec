------------------------------- MODULE Framing -------------------------------
(***************************************************************************)
(* One connection of the remote file service: the client library's         *)
(* send_request and the session loop of the server, exchanging frames over *)
(* a TCP stream.  Both sides run the same code: send_all writes a header   *)
(* of HDR bytes that holds the payload size and then the payload, in       *)
(* chunks of at most MAXMSGLEN bytes; the receiver accumulates the header, *)
(* allocates a buffer of that size and appends whatever recv returns,      *)
(* without limiting recv to the bytes that are missing.                    *)
(*                                                                         *)
(* Bytes are counted, not represented.  A step is one send or recv call    *)
(* with the local computation that follows it; send and recv may transfer  *)
(* any positive number of bytes the buffers allow.                         *)
(***************************************************************************)
EXTENDS Integers

CONSTANTS
  HDR,        \* sizeof(int), the width of the header
  MAXMSGLEN,  \* size of the stack buffer used by send and recv
  Sizes,      \* the payload sizes a frame may have
  MayDie      \* the sides whose process may die at any point

Sides == {"client", "server"}
Peer(s) == IF s = "client" THEN "server" ELSE "client"

ASSUME FramingAssumption ==
  /\ HDR \in Nat \ {0}
  /\ MAXMSGLEN \in Nat
  /\ HDR < MAXMSGLEN
  /\ Sizes \subseteq Nat \ {0}
  /\ MayDie \subseteq Sides

VARIABLES
  pc,          \* where each side is in its loop
  pending,     \* send_all: payload bytes not yet copied to the buffer
  buffered,    \* send_all: bytes of the buffer that are not yet sent
  wire,        \* wire[s]: bytes sent to s that s has not received
  received,    \* bytes in the buffer while the header is incomplete
  off,         \* bytes written to the frame's heap buffer
  frame_size,  \* frame_size[s]: payload size of the last frame sent to s
  served       \* history: the request of the latest call was handled

vars == <<pc, pending, buffered, wire, received, off, frame_size, served>>

Receiving == {"first", "header", "body"}
Control == {"idle", "sending", "handling", "gone"} \cup Receiving

TypeOK ==
  /\ pc \in [Sides -> Control]
  /\ pc["client"] # "handling" /\ pc["server"] # "idle"
  /\ pending \in [Sides -> Nat]
  /\ buffered \in [Sides -> 0..MAXMSGLEN]
  /\ wire \in [Sides -> Nat]
  /\ received \in [Sides -> 0..MAXMSGLEN]
  /\ off \in [Sides -> Nat]
  /\ frame_size \in [Sides -> Nat]
  /\ served \in BOOLEAN

(* The connection has just been accepted; no call was made on it.          *)
Init ==
  /\ pc = [s \in Sides |-> IF s = "client" THEN "idle" ELSE "first"]
  /\ pending = [s \in Sides |-> 0]
  /\ buffered = [s \in Sides |-> 0]
  /\ wire = [s \in Sides |-> 0]
  /\ received = [s \in Sides |-> 0]
  /\ off = [s \in Sides |-> 0]
  /\ frame_size = [s \in Sides |-> 0]
  /\ served = TRUE

-----------------------------------------------------------------------------
(* send_all *)

AtMost(a, b) == IF a < b THEN a ELSE b

(* The first buffer of send_all: the header and as much payload as fits.   *)
(* The variant leaves no room for the header.                              *)
StartSendNoRoom(s, n) ==
  LET len == AtMost(n, MAXMSGLEN) IN
  /\ frame_size' = [frame_size EXCEPT ![Peer(s)] = n]
  /\ buffered' = [buffered EXCEPT ![s] = HDR + len]
  /\ pending' = [pending EXCEPT ![s] = n - len]
  /\ pc' = [pc EXCEPT ![s] = "sending"]
StartSend(s, n) ==
  LET len == AtMost(n, MAXMSGLEN - HDR) IN
  /\ frame_size' = [frame_size EXCEPT ![Peer(s)] = n]
  /\ buffered' = [buffered EXCEPT ![s] = HDR + len]
  /\ pending' = [pending EXCEPT ![s] = n - len]
  /\ pc' = [pc EXCEPT ![s] = "sending"]

(* send returns k; an emptied buffer is refilled from the pending payload, *)
(* and once nothing is pending the side waits for the other's frame.       *)
SendBytes(s, k) ==
  /\ pc[s] = "sending"
  /\ k \in 1..buffered[s]
  /\ wire' = [wire EXCEPT ![Peer(s)] = @ + k]
  /\ \/ /\ k < buffered[s]
        /\ buffered' = [buffered EXCEPT ![s] = @ - k]
        /\ UNCHANGED <<pc, pending>>
     \/ /\ k = buffered[s]
        /\ pending[s] > 0
        /\ LET len == AtMost(pending[s], MAXMSGLEN) IN
             /\ buffered' = [buffered EXCEPT ![s] = len]
             /\ pending' = [pending EXCEPT ![s] = @ - len]
        /\ UNCHANGED pc
     \/ /\ k = buffered[s]
        /\ pending[s] = 0
        /\ buffered' = [buffered EXCEPT ![s] = 0]
        /\ pc' = [pc EXCEPT ![s] = "first"]
        /\ UNCHANGED pending
  /\ UNCHANGED <<received, off, frame_size, served>>

(* The peer is gone and left bytes unread: the kernel has seen its reset,  *)
(* so send raises SIGPIPE or returns -1, and err(1, 0) exits.              *)
SendFails(s) ==
  /\ pc[s] = "sending"
  /\ pc[Peer(s)] = "gone" /\ wire[Peer(s)] > 0
  /\ pc' = [pc EXCEPT ![s] = "gone"]
  /\ UNCHANGED <<pending, buffered, wire, received, off, frame_size, served>>

-----------------------------------------------------------------------------
(* The receive loops of send_request and handle_session *)

(* Where a side goes once o bytes of its frame are in the heap buffer: on  *)
(* receiving while some are missing, else back to the caller (client) or   *)
(* to the handler (server).  The variants are off by one, in both          *)
(* directions, and handle a request before its payload is complete.        *)
AfterCopyEarly(s, o) ==
  IF o < frame_size[s] - 1 THEN "body"
  ELSE IF s = "client" THEN "idle" ELSE "handling"
AfterCopyLate(s, o) ==
  IF o <= frame_size[s] THEN "body"
  ELSE IF s = "client" THEN "idle" ELSE "handling"
AfterCopyHeaderOnly(s, o) ==
  IF o < frame_size[s] /\ s = "client" THEN "body"
  ELSE IF s = "client" THEN "idle" ELSE "handling"
AfterCopy(s, o) ==
  IF o < frame_size[s] THEN "body"
  ELSE IF s = "client" THEN "idle" ELSE "handling"

(* The bytes recv may return when the buffer already holds some.           *)
RecvableUnbounded(s, had) == AtMost(wire[s], MAXMSGLEN)
Recvable(s, had) == AtMost(wire[s], MAXMSGLEN - had)

(* recv returns k > 0 before the header is complete.  The bytes that       *)
(* follow the header are copied to the heap buffer.                        *)
RecvHeader(s, k) ==
  LET had == IF pc[s] = "first" THEN 0 ELSE received[s]
      got == had + k
  IN /\ pc[s] \in {"first", "header"}
     /\ k \in 1..Recvable(s, had)
     /\ wire' = [wire EXCEPT ![s] = @ - k]
     /\ received' = [received EXCEPT ![s] = got]
     /\ \/ /\ got < HDR
           /\ pc' = [pc EXCEPT ![s] = "header"]
           /\ UNCHANGED off
        \/ /\ got >= HDR
           /\ off' = [off EXCEPT ![s] = got - HDR]
           /\ pc' = [pc EXCEPT ![s] = AfterCopy(s, got - HDR)]
     /\ UNCHANGED <<pending, buffered, frame_size, served>>

(* recv returns k > 0 in the loop that completes the frame.                *)
RecvBody(s, k) ==
  /\ pc[s] = "body"
  /\ k \in 1..Recvable(s, 0)
  /\ wire' = [wire EXCEPT ![s] = @ - k]
  /\ off' = [off EXCEPT ![s] = @ + k]
  /\ pc' = [pc EXCEPT ![s] = AfterCopy(s, off[s] + k)]
  /\ UNCHANGED <<pending, buffered, received, frame_size, served>>

(* recv returns 0: the peer closed its end and every byte was read.  The   *)
(* server's outer loop ends the session; the client enters its header loop *)
(* with received = 0; the two inner loops, on both sides, only test for a  *)
(* negative result and call recv again.  In the variants the client takes  *)
(* the end of the stream for a reply, and the server never ends.           *)
AfterEofReturned(s) ==
  CASE pc[s] = "first" -> IF s = "server" THEN "gone" ELSE "idle"
    [] OTHER -> pc[s]
AfterEofEndless(s) ==
  CASE pc[s] = "first" -> "header"
    [] OTHER -> pc[s]
AfterEof(s) ==
  CASE pc[s] = "first" -> IF s = "server" THEN "gone" ELSE "header"
    [] OTHER -> pc[s]

RecvEof(s) ==
  /\ pc[s] \in Receiving
  /\ pc[Peer(s)] = "gone" /\ wire[s] = 0
  /\ pc' = [pc EXCEPT ![s] = AfterEof(s)]
  /\ received' = [received EXCEPT ![s] = IF pc[s] = "first" THEN 0 ELSE @]
  /\ UNCHANGED <<pending, buffered, wire, off, frame_size, served>>

(* recv returns -1: the peer is gone and reset the connection because it   *)
(* left bytes unread.  Every loop calls err(1, 0), except the client's     *)
(* first recv: there received = -1 passes the unsigned comparison with     *)
(* sizeof(int), and the size is read from an uninitialised buffer; it is   *)
(* either not positive (err) or followed by a memcpy of -5 bytes, so the   *)
(* process ends in every case.                                             *)
RecvError(s) ==
  /\ pc[s] \in Receiving
  /\ pc[Peer(s)] = "gone" /\ wire[Peer(s)] > 0
  /\ pc' = [pc EXCEPT ![s] = "gone"]
  /\ UNCHANGED <<pending, buffered, wire, received, off, frame_size, served>>

-----------------------------------------------------------------------------
(* The interposed call, the handler and the ends of the two processes *)

(* An interposed function marshals its arguments and calls send_request.   *)
Call(n) ==
  /\ pc["client"] = "idle"
  /\ StartSend("client", n)
  /\ served' = FALSE
  /\ UNCHANGED <<wire, received, off>>

(* The session process unmarshals the frame, runs the handler and starts   *)
(* to send the marshalled response.                                        *)
Handle(n) ==
  /\ pc["server"] = "handling"
  /\ StartSend("server", n)
  /\ served' = TRUE
  /\ UNCHANGED <<wire, received, off>>

(* The client program ends between two calls, or closes its last file.     *)
Exit ==
  /\ pc["client"] = "idle"
  /\ pc' = [pc EXCEPT !["client"] = "gone"]
  /\ UNCHANGED <<pending, buffered, wire, received, off, frame_size, served>>

(* A process is killed, or its machine stops, in the middle of anything.   *)
Die(s) ==
  /\ s \in MayDie
  /\ pc[s] # "gone"
  /\ pc' = [pc EXCEPT ![s] = "gone"]
  /\ UNCHANGED <<pending, buffered, wire, received, off, frame_size, served>>

Send(s) == \E k \in 1..buffered[s] : SendBytes(s, k)
Recv(s) == \E k \in 1..MAXMSGLEN : RecvHeader(s, k) \/ RecvBody(s, k)

Next ==
  \/ \E n \in Sizes : Call(n) \/ Handle(n)
  \/ Exit
  \/ \E s \in Sides :
       Send(s) \/ SendFails(s) \/ Recv(s) \/ RecvEof(s) \/ RecvError(s) \/ Die(s)

Spec == Init /\ [][Next]_vars

(* TCP delivers, and the kernel schedules both processes: a side that can  *)
(* send, receive or handle eventually does.  Nothing obliges the client    *)
(* program to make a call or to end.                                       *)
Fairness ==
  /\ \A s \in Sides : WF_vars(Send(s)) /\ WF_vars(Recv(s))
  /\ \A s \in Sides : WF_vars(RecvEof(s))
  /\ \A s \in Sides : WF_vars(RecvError(s)) /\ WF_vars(SendFails(s))
  /\ WF_vars(\E n \in Sizes : Handle(n))

FairSpec == Spec /\ Fairness
-----------------------------------------------------------------------------
(* Properties *)

(* A frame is delivered whole: what the receiver wrote to the heap buffer  *)
(* of frame_size bytes is short of it while it receives and exactly fills  *)
(* it when the frame is handed on, although recv is never told how many    *)
(* bytes are missing (server.c 171-183, mylib.c 706-719).                  *)
WholeFrame ==
  /\ \A s \in Sides : pc[s] = "body" => off[s] < frame_size[s]
  /\ pc["client"] = "idle" => off["client"] = frame_size["client"]
  /\ pc["server"] \in {"handling", "sending"} => off["server"] = frame_size["server"]

(* Between two calls nothing of an earlier frame is left in either         *)
(* direction and the session waits at the start of a frame, so the bytes   *)
(* its next recv returns are a header (server.c 151-164).                  *)
CleanBetweenCalls ==
  pc["client"] = "idle" =>
    /\ wire["client"] = 0
    /\ pc["server"] # "gone" =>
         /\ wire["server"] = 0
         /\ pc["server"] = "first"
         /\ pending["server"] = 0 /\ buffered["server"] = 0

(* At most one side is in send_all: a request is complete before its       *)
(* response begins and a response before the next request.                 *)
HalfDuplex ==
  \A s, t \in Sides : pc[s] = "sending" /\ pc[t] = "sending" => s = t

(* The bytes of the frame that travels to s, wherever they are.            *)
Received(s) ==
  IF pc[s] = "header" THEN received[s] ELSE IF pc[s] = "body" THEN HDR + off[s] ELSE 0
Inflight(s) == pending[Peer(s)] + buffered[Peer(s)] + wire[s] + Received(s)

Quiet(s) == pending[s] = 0 /\ buffered[s] = 0

(* What each side's loop position says of its own counters.                *)
LocalInv ==
  /\ \A s \in Sides :
       /\ pc[s] = "sending" => buffered[s] > 0
       /\ pc[s] \notin {"sending", "gone"} => Quiet(s)
       /\ pc[s] = "header" => received[s] < HDR
  /\ pc["server"] \in {"header", "body", "handling"} => ~served
  /\ pc["server"] = "sending" => served
  /\ pc["client"] = "idle" => served
  /\ pc["client"] = "sending" => ~served

(* A session that can still receive has the unhandled request's header and *)
(* payload coming to it, byte for byte, and nothing otherwise.             *)
RequestFlow ==
  pc["server"] # "gone" =>
    Inflight("server") =
      IF ~served /\ pc["server"] # "handling" THEN HDR + frame_size["server"] ELSE 0

(* The same for the client: the response to the handled request.           *)
ResponseFlow ==
  pc["client"] # "gone" =>
    Inflight("client") =
      IF served /\ pc["client"] # "idle" THEN HDR + frame_size["client"] ELSE 0

(* The inductive invariant.                                                *)
IInv == TypeOK /\ LocalInv /\ RequestFlow /\ ResponseFlow /\ WholeFrame

(* The connection implements RemoteCall: a request whose bytes are split   *)
(* and reassembled is one call, executed once by the session and answered  *)
(* after that.                                                             *)
Rpc == INSTANCE RemoteCall WITH
  phase <- IF pc["client"] \in {"idle", "gone"} THEN pc["client"] ELSE "calling",
  executed <- served
ImplementsRemoteCall == Rpc!Spec

(* Every call ends, while the session process lives: neither side waits    *)
(* for bytes the other has not sent, wherever the frames are split, and no *)
(* length is misread into one that never comes (mylib.c 675-728).  Nothing *)
(* is claimed of a call whose session process has died.                    *)
CallsReturn ==
  pc["client"] = "sending" ~> pc["client"] \in {"idle", "gone"} \/ pc["server"] = "gone"

(* A session process ends after its client is gone: "get messages and send *)
(* replies to this client, until it goes away" (server.c 150).             *)
SessionEnds == pc["client"] = "gone" ~> pc["server"] = "gone"

(* It does if the client's last frame was sent to the end, wherever the    *)
(* session process is in handling it and in sending the response.          *)
SessionEndsAfterFrame ==
  pc["client"] = "gone" /\ Quiet("client") ~> pc["server"] = "gone"

(* A call that cannot be answered fails: the client does not wait for ever *)
(* once the session process is gone ("A -1 is returned if an error         *)
(* occurs", mylib.c 672, of send_request).                                 *)
CallEndsWithoutServer ==
  pc["server"] = "gone" ~> pc["client"] \in {"idle", "gone"}
=============================================================================
