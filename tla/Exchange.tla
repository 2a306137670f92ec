------------------------------ MODULE Exchange ------------------------------
(***************************************************************************)
(* What one remote call carries (trfo mylib.c and server.c): the library   *)
(* marshals its arguments into a frame, the server unmarshals them, does   *)
(* the system call and marshals its results, the library unmarshals those  *)
(* for its caller and takes over errno.  Messages arrive whole and one at  *)
(* a time (Framing), and the calls that reach the server are chosen in     *)
(* Trfo.  Buffers have the sizes of the code up to the scale of BUFFERLEN, *)
(* MAXMSGLEN and MAXTREESIZE.                                              *)
(*                                                                         *)
(* The system calls are external: they succeed or fail in any way their    *)
(* interface allows, and when they succeed errno may hold anything.        *)
(***************************************************************************)
EXTENDS Serde

CONSTANTS
  Calls,        \* the calls of the program, records with the op and its arguments
  BUFFERLEN, MAXMSGLEN, MAXTREESIZE,
  FD_OFFSET, O_CREAT,
  Errnos,       \* error numbers
  Fds,          \* descriptors of the session process
  Positions,    \* where lseek and getdirentries may end
  Contents,     \* what may be read, as sequences of bytes
  Stat          \* a struct stat, as bytes

VARIABLES
  phase,         \* where the call under way is
  call,          \* the call under way
  wire,          \* the message under way
  server_errno,
  executed,      \* history: the system call the server did for it, and its result
  ret,           \* what the library returned
  errno,         \* the program's
  over,          \* buffers of this call that were written past their end
  damaged        \* a heap was written past a buffer, by this or an earlier call

vars == <<phase, call, wire, server_errno, executed, ret, errno, over, damaged>>

-----------------------------------------------------------------------------
(* The types of mylib.h and of the system calls *)

(* Arguments: int and off_t are signed, size_t and flags are not.          *)
Call ==
  [op : {"open"}, path : String, flags : UInt(4), mode : UInt(2)]
  \cup [op : {"close"}, fd : SInt(4)]
  \cup [op : {"write"}, fd : SInt(4), buf : Memory, count : UInt(8)]
  \cup [op : {"read"}, fd : SInt(4), count : UInt(8)]
  \cup [op : {"lseek"}, fd : SInt(4), offset : SInt(8), whence : SInt(4)]
  \cup [op : {"stat"}, ver : SInt(4), path : String]
  \cup [op : {"unlink", "getdirtree"}, path : String]
  \cup [op : {"getdirentries"}, fd : SInt(4), nbytes : UInt(8), basep : SInt(8)]

ASSUME CallsAssumption ==
  /\ Calls \subseteq Call
  /\ \A c \in Calls : c.op = "write" => c.count = Len(c.buf)

ASSUME ResultsAssumption ==
  /\ Errnos \subseteq SInt(4)
  /\ FD_OFFSET \in Nat /\ O_CREAT \in Nat \ {0}
  /\ Fds \subseteq Nat /\ \A fd \in Fds : fd + FD_OFFSET \in SInt(4)
  /\ Positions \subseteq SInt(8)
  /\ Contents \subseteq Memory /\ Stat \in Memory

(* What fits one message, whose size is an int, and what has its place in  *)
(* buffers of fixed size.                                                  *)
ASSUME SizesAssumption ==
  /\ BUFFERLEN \in UInt(4) /\ MAXMSGLEN \in Nat /\ MAXTREESIZE \in Nat
  /\ \A c \in Calls :
       /\ c.op = "write" => Len(c.buf) + 20 \in UInt(4)
       /\ "path" \in DOMAIN c => StrLen1(c.path) + 18 \in UInt(4)
  /\ \A s \in Contents \cup {Stat} : Len(s) + 16 \in UInt(4)
  /\ \A tree \in Trees : Len(mem_write_tree[tree]) \in UInt(4)
  /\ 28 <= BUFFERLEN /\ 16 <= MAXMSGLEN /\ BUFFERLEN <= MAXMSGLEN
  /\ Len(Stat) + 4 <= MAXMSGLEN

-----------------------------------------------------------------------------
(* No call: before the first one, or before its result.                    *)
None == [op |-> "none"]

Init ==
  /\ phase = "idle"
  /\ call = None /\ wire = << >> /\ executed = None /\ ret = None
  /\ server_errno = 0 /\ errno = 0
  /\ over = {} /\ damaged = FALSE

-----------------------------------------------------------------------------
(* The library: building a request *)

Opcode == [open |-> 1, write |-> 2, close |-> 3, read |-> 4, lseek |-> 5,
           stat |-> 6, unlink |-> 7, getdirentries |-> 8, getdirtree |-> 9]

(* The mode is an argument only if a file may be created.                  *)
OpenMode(c) == IF (c.flags \div O_CREAT) % 2 = 1 THEN c.mode ELSE 0

Payload(c) ==
  CASE c.op = "open" -> call_open_marshal(c.path, c.flags, OpenMode(c))
    [] c.op = "close" -> call_close_marshal(c.fd)
    [] c.op = "write" -> call_write_marshal(c.fd, c.buf, c.count)
    [] c.op = "read" -> call_read_marshal(c.fd, c.count)
    [] c.op = "lseek" -> call_lseek_marshal(c.fd, c.offset, c.whence)
    [] c.op = "stat" -> call_stat_marshal(c.ver, c.path)
    [] c.op = "unlink" -> call_unlink_marshal(c.path)
    [] c.op = "getdirentries" -> call_getdirentries_marshal(c.fd, c.nbytes, c.basep)
    [] c.op = "getdirtree" -> call_dirtreenode_marshal(c.path)

(* The sizes of the two buffers.  The variant has no room for the count.   *)
PayloadSizeNoCount(c) == IF c.op = "write" THEN c.count + 4 ELSE BUFFERLEN
PayloadSize(c) == IF c.op = "write" THEN c.count + 4 + 8 ELSE BUFFERLEN
FrameSize(c) == IF c.op = "write" THEN c.count + 16 ELSE BUFFERLEN

Past(buffer, data, size) == IF Len(data) > size THEN {buffer} ELSE {}

Send(c) ==
  LET frame == marshal_frame(Opcode[c.op], Payload(c)) IN
  /\ phase = "idle"
  /\ phase' = "requested"
  /\ call' = c
  /\ wire' = frame
  /\ over' = Past("payload", Payload(c), PayloadSize(c)) \cup Past("frame", frame, FrameSize(c))
  /\ damaged' = (damaged \/ over' # {})
  /\ executed' = None /\ ret' = None
  /\ UNCHANGED <<server_errno, errno>>

-----------------------------------------------------------------------------
(* The server: do_open ... do_dirtreenode *)

pack_fd(fd) == IF fd < 0 THEN fd ELSE fd + FD_OFFSET
(* The variant forgets to take the offset off.                             *)
unpack_fd_packed(fd) == fd
unpack_fd(fd) == IF fd < 0 THEN fd ELSE fd - FD_OFFSET

WithFd(args) == [args EXCEPT !.fd = unpack_fd(@)]

(* The system call that a frame asks for.                                  *)
Request(frame) ==
  LET in == frame.payload IN
  CASE frame.opcode = Opcode.open -> call_open_unmarshal(in)
    [] frame.opcode = Opcode.close -> WithFd(call_close_unmarshal(in))
    [] frame.opcode = Opcode.write -> WithFd(call_write_unmarshal(in))
    [] frame.opcode = Opcode.read -> WithFd(call_read_unmarshal(in))
    [] frame.opcode = Opcode.lseek -> WithFd(call_lseek_unmarshal(in))
    [] frame.opcode = Opcode.stat -> call_stat_unmarshal(in)
    [] frame.opcode = Opcode.unlink -> call_unlink_unmarshal(in)
    [] frame.opcode = Opcode.getdirentries ->
         WithFd(call_getdirentries_unmarshal(in))
    [] frame.opcode = Opcode.getdirtree -> call_dirtreenode_unmarshal(in)

(* What a system call may return: a number, and data with it.              *)
Nothing == << >>
Failure(c) ==
  [r |-> -1, out |-> IF c.op = "getdirentries" THEN [pos |-> c.basep, data |-> Nothing]
                     ELSE Nothing]
Results(c) ==
  {Failure(c)} \cup
  CASE c.op = "open" -> [r : Fds, out : {Nothing}]
    [] c.op \in {"close", "unlink"} -> [r : {0}, out : {Nothing}]
    [] c.op = "write" -> [r : {0, c.count}, out : {Nothing}]
    [] c.op = "read" -> {[r |-> Len(s), out |-> s] : s \in {t \in Contents : Len(t) <= c.count}}
    [] c.op = "lseek" -> [r : Positions, out : {Nothing}]
    [] c.op = "stat" -> [r : {0}, out : {Stat}]
    [] c.op = "getdirentries" ->
         {[r |-> Len(s), out |-> [pos |-> p, data |-> s]] :
            p \in Positions, s \in {t \in Contents : Len(t) <= c.nbytes}}
    [] c.op = "getdirtree" -> [r : {0}, out : Trees]

(* resp->data.                                                             *)
Answer(op, o) ==
  CASE op = "open" -> Int32(pack_fd(o.r))
    [] op \in {"close", "unlink"} -> Int32(o.r)
    [] op \in {"write", "lseek"} -> Int64(o.r)
    [] op = "read" -> Int64(o.r) \o o.out
    [] op = "stat" -> Int32(o.r) \o o.out
    [] op = "getdirentries" -> Int64(o.r) \o Int64(o.out.pos) \o o.out.data
    [] op = "getdirtree" -> IF o.r < 0 THEN << >> ELSE mem_write_tree[o.out]

(* Its size.                                                               *)
AnswerSize(op, o) ==
  CASE op = "open" \/ op = "close" -> 4
    [] op \in {"write", "lseek"} -> 8
    [] op = "read" -> o.r + 8
    [] op = "getdirtree" -> MAXTREESIZE
    [] op \in {"stat", "unlink", "getdirentries"} -> MAXMSGLEN

(* The errno that goes with the answer.  The variant reads it before the   *)
(* system call is made.                                                    *)
SavedErrnoStale(before, after) == before
SavedErrno(before, after) == after

(* The buffer for the path of a call that has one.                         *)
PathBuffer(c) ==
  IF "path" \in DOMAIN c THEN Past("path", CString(c.path), MAXMSGLEN) ELSE {}

Handle ==
  LET c == Request(read_frame(wire)) IN
  /\ phase = "requested"
  /\ \E o \in Results(c), e \in Errnos :
       LET data == Answer(c.op, o) IN
       /\ server_errno' = e
       /\ executed' = [op |-> c.op, call |-> c, result |-> o, errno |-> e]
       /\ wire' = marshal_resp(SavedErrno(server_errno, e), data)
       /\ over' = over \cup PathBuffer(c)
                       \cup Past("answer", data, AnswerSize(c.op, o))
                       \cup Past("response", wire', Len(data) + 16)
  /\ phase' = "answered"
  /\ damaged' = (damaged \/ over' # {})
  /\ UNCHANGED <<call, ret, errno>>

-----------------------------------------------------------------------------
(* The library: the results *)

(* An empty tree stands for a failure.  The caller then gets the root that *)
(* was allocated and never filled in, and not NULL (mylib.c 532, 552).     *)
Uninitialised == [name |-> "uninitialised"]
Returned(op, data) ==
  LET r == IF op \in {"open", "close", "stat", "unlink"}
           THEN Signed(data, 0, 4) ELSE Signed(data, 0, 8)
  IN
  CASE op = "read" -> [r |-> r, out |-> mem_read_data(data, 8, IF r > 0 THEN r ELSE 0)]
    [] op = "stat" -> [r |-> r, out |-> mem_read_data(data, 4, IF r >= 0 THEN Len(Stat) ELSE 0)]
    [] op = "getdirentries" ->
         [r |-> r, out |-> [pos |-> Signed(data, 8, 8),
                            data |-> mem_read_data(data, 16, IF r > 0 THEN r ELSE 0)]]
    [] op = "getdirtree" ->
         IF data = << >> THEN [r |-> 0, out |-> Uninitialised]
         ELSE [r |-> 0, out |-> mem_read_tree(data, 0).tree]
    [] OTHER -> [r |-> r, out |-> Nothing]

(* When the library takes errno over: getdirtree looks at the answer.      *)
Failed(op, data, o) == IF op = "getdirtree" THEN data = << >> ELSE o.r < 0

Receive ==
  LET resp == read_resp(wire)
      o == Returned(call.op, resp.data)
  IN
  /\ phase = "answered"
  /\ phase' = "idle"
  /\ ret' = o
  /\ errno' = IF Failed(call.op, resp.data, o) THEN resp.err_no ELSE errno
  /\ wire' = << >>
  /\ UNCHANGED <<call, server_errno, executed, over, damaged>>

(* A process whose heap was written past the end of a buffer may abort,    *)
(* then or later.                                                          *)
Abort ==
  /\ damaged /\ phase # "aborted"
  /\ phase' = "aborted"
  /\ UNCHANGED <<call, wire, server_errno, executed, ret, errno, over, damaged>>

Next == (\E c \in Calls : Send(c)) \/ Handle \/ Receive \/ Abort

Spec == Init /\ [][Next]_vars
-----------------------------------------------------------------------------
(* Properties *)

(* The call that a program means when it makes c.                          *)
Meant(c) ==
  CASE c.op = "open" -> [c EXCEPT !.mode = OpenMode(c)]
    [] c.op \in {"close", "write", "read", "lseek", "getdirentries"} ->
         [c EXCEPT !.fd = IF @ < 0 THEN @ ELSE @ - FD_OFFSET]
    [] OTHER -> c

(* The server does the call the program made, argument for argument, on    *)
(* the descriptor that it gave out under that number: "Call related        *)
(* variables is marshaled with call specific order" (mylib.c 7).           *)
ServerDecodes == executed # None => executed.call = Meant(call)

(* What is under way is the call that was made, whole and by itself, and   *)
(* then what the server got of exactly that call: the answer carries the   *)
(* errno and the result of one and the same system call (server.c 251).    *)
UnderWay ==
  /\ phase = "requested" =>
       /\ call \in Calls /\ executed = None /\ ret = None
       /\ wire = marshal_frame(Opcode[call.op], Payload(call))
  /\ phase = "answered" =>
       /\ executed # None /\ ret = None
       /\ wire = marshal_resp(executed.errno, Answer(call.op, executed.result))
  /\ executed # None =>
       /\ call \in Calls
       /\ executed \in [op : {call.op}, call : {Meant(call)},
                        result : Results(Meant(call)), errno : Errnos]

(* The caller gets what the system call returned - the bytes read, the     *)
(* position, the tree node for node - and if it failed, why: "client will  *)
(* receive errno from the server and set it to local" (mylib.c 13).  The   *)
(* exception is a getdirtree that failed: errno is set, but the caller     *)
(* gets a tree all the same, with nothing in it that it may use            *)
(* (mylib.c 552).                                                          *)
CallerGets ==
  ret # None =>
    LET o == executed.result IN
    /\ o.r < 0 => errno = executed.errno
    /\ IF call.op = "getdirtree" /\ o.r < 0
       THEN ret = [r |-> 0, out |-> Uninitialised]
       ELSE /\ ret.r = IF call.op = "open" /\ o.r >= 0 THEN o.r + FD_OFFSET ELSE o.r
            /\ ret.out = o.out

(* What limits the length of a path: the frame around it.                  *)
Around == [open |-> 18, stat |-> 20, unlink |-> 12, getdirtree |-> 12]
TooLong(c) == c.op \in DOMAIN Around /\ StrLen1(c.path) + Around[c.op] > BUFFERLEN

(* Of the payload and the frame the library builds, the server's copy of  *)
(* the path, its answer and its response, none is written past its buffer, *)
(* save in these cases: a path that does not fit BUFFERLEN with its frame  *)
(* - only such a path is too long for the server's copy of it -; the frame *)
(* of a write, which is always four bytes longer than its buffer (mylib.c  *)
(* 260); the answer to a read that failed, one byte longer (server.c 358); *)
(* entries or a tree larger than the server's buffers for them.            *)
WithinBuffers ==
  /\ "payload" \in over => TooLong(call)
  /\ "frame" \in over => TooLong(call) \/ call.op = "write"
  /\ "path" \in over => TooLong(call)
  /\ "answer" \in over =>
       \/ executed.op = "read" /\ executed.result.r = -1
       \/ executed.op = "getdirentries" /\ executed.result.r > MAXMSGLEN - 16
       \/ executed.op = "getdirtree" /\ Len(mem_write_tree[executed.result.out]) > MAXTREESIZE
  /\ "response" \notin over
=============================================================================
