-------------------------------- MODULE Trfo --------------------------------
(***************************************************************************)
(* The remote file service: client programs with the interposed library    *)
(* (mylib.c), and the server that forks one session process per connection *)
(* (server.c).  Messages are whole, as module Framing shows of one         *)
(* connection; here the subject is what the two sides remember about each  *)
(* other between messages: the library's socket, min_fd and opened_fd, and *)
(* the descriptor table of the session process.                            *)
(*                                                                         *)
(* A program makes one call at a time.  It may exit or be killed at any    *)
(* point, and may be started again.  Killed within a frame, it leaves a    *)
(* part of a request behind, for which its session process waits for ever. *)
(***************************************************************************)
EXTENDS Posix

CONSTANTS
  Clients,     \* the programs that run with the library
  Sessions,    \* places for connections
  LocalFds,    \* descriptors a program has open for other purposes
  Ops,         \* the interposed functions the programs call
  FD_OFFSET,   \* server.c adds it to every descriptor it hands out
  INT_MAX,     \* min_fd before the first file is opened
  Partial,     \* the part of a request a program was killed in
  ForkMayFail  \* whether fork in the server may fail

FileFds == {f + FD_OFFSET : f \in Fds}

ASSUME TrfoAssumption ==
  /\ None \notin Sessions
  /\ FD_OFFSET \in Nat /\ INT_MAX \in Nat
  /\ LocalFds \subseteq 0..FD_OFFSET - 1
  /\ FD_OFFSET <= INT_MAX /\ \A d \in FileFds : d <= INT_MAX
  /\ ForkMayFail \in BOOLEAN

Calls ==
  {FdCall(op, fd) : op \in Ops \cap FdOps, fd \in FileFds \cup LocalFds}
    \cup {PathCall(op, p, FALSE) : op \in Ops \cap PathOps, p \in Paths}
    \cup {PathCall(op, p, TRUE) : op \in Ops \cap {"open"}, p \in Paths}

Errors == {"none", "ENOENT", "EMFILE", "EBADF"}
Replies == [r : Int, err : Errors, file : Paths \cup {None}]

ASSUME MessageAssumption ==
  None \notin Calls /\ None \notin Replies /\ Partial \notin Calls \cup {None}

VARIABLES
  cpc,        \* cpc[c]: "off", "idle", or "waiting" for a reply
  sock,       \* _sockfd: the program's connection, None if it is -1
  min_fd,     \* the lowest descriptor any open has returned
  opened_fd,  \* number of files the program has open
  call,       \* the program's latest call
  ret,        \* what the call that finished last returned
  local,      \* the open descriptors among LocalFds
  status,     \* status[s]: "free", "queued" in the server's backlog,
              \* "running" in a session process, "dropped" if fork failed
  request,    \* request[s]: the request sent and not yet handled, or Partial
  reply,      \* reply[s]: the reply sent and not yet received
  table,      \* table[s]: the session process's files
  files       \* the files that exist on the server

client == <<cpc, sock, min_fd, opened_fd, call, ret, local>>
vars == <<cpc, sock, min_fd, opened_fd, call, ret, local,
          status, request, reply, table, files>>

TypeOK ==
  /\ cpc \in [Clients -> {"off", "idle", "waiting"}]
  /\ sock \in [Clients -> Sessions \cup {None}]
  /\ min_fd \in [Clients -> Nat]
  /\ opened_fd \in [Clients -> Nat]
  /\ call \in [Clients -> Calls \cup {None}]
  /\ ret \in [Clients -> Replies \cup {None}]
  /\ local \in [Clients -> SUBSET LocalFds]
  /\ status \in [Sessions -> {"free", "queued", "running", "dropped"}]
  /\ request \in [Sessions -> Calls \cup {None, Partial}]
  /\ reply \in [Sessions -> Replies \cup {None}]
  /\ table \in [Sessions -> [Fds -> Paths \cup {None}]]
  /\ files \in SUBSET Paths

Init ==
  /\ cpc = [c \in Clients |-> "off"]
  /\ sock = [c \in Clients |-> None]
  /\ min_fd = [c \in Clients |-> INT_MAX]
  /\ opened_fd = [c \in Clients |-> 0]
  /\ call = [c \in Clients |-> None]
  /\ ret = [c \in Clients |-> None]
  /\ local = [c \in Clients |-> {}]
  /\ status = [s \in Sessions |-> "free"]
  /\ request = [s \in Sessions |-> None]
  /\ reply = [s \in Sessions |-> None]
  /\ table = [s \in Sessions |-> EmptyTable(Fds)]
  /\ files \in SUBSET Paths

-----------------------------------------------------------------------------
(* The client library *)

(* _init: connect, and reset the two counters.                             *)
Start(c) ==
  /\ cpc[c] = "off"
  /\ \E s \in Sessions :
       /\ status[s] = "free"
       /\ status' = [status EXCEPT ![s] = "queued"]
       /\ sock' = [sock EXCEPT ![c] = s]
  /\ cpc' = [cpc EXCEPT ![c] = "idle"]
  /\ min_fd' = [min_fd EXCEPT ![c] = INT_MAX]
  /\ opened_fd' = [opened_fd EXCEPT ![c] = 0]
  /\ local' = [local EXCEPT ![c] = LocalFds]
  /\ UNCHANGED <<call, ret, request, reply, table, files>>

(* The test at the head of close, read and write; the other calls have     *)
(* none.  The variant also takes the lowest remote descriptor for a local  *)
(* one.                                                                    *)
RoutedLocallyToo(c, q) ==
  q.op \in {"close", "read", "write"} /\ q.fd <= min_fd[c]
RoutedLocally(c, q) ==
  q.op \in {"close", "read", "write"} /\ q.fd < min_fd[c]

(* The test at the head of lseek and getdirentries; off by one in the      *)
(* variant.                                                                *)
RefusedEarly(c, q) ==
  q.op \in {"lseek", "getdirentries"} /\ opened_fd[c] <= 1
Refused(c, q) ==
  q.op \in {"lseek", "getdirentries"} /\ opened_fd[c] = 0

(* orig_close, orig_read and orig_write.                                   *)
CallLocal(c, q) ==
  /\ cpc[c] = "idle"
  /\ RoutedLocally(c, q)
  /\ LET m == IF q.fd \in local[c] THEN Success(0, None) ELSE Failure("EBADF")
     IN ret' = [ret EXCEPT ![c] = m]
  /\ local' = [local EXCEPT ![c] = IF q.op = "close" THEN @ \ {q.fd} ELSE @]
  /\ call' = [call EXCEPT ![c] = q]
  /\ UNCHANGED <<cpc, sock, min_fd, opened_fd, status, request, reply, table, files>>

CallRefused(c, q) ==
  /\ cpc[c] = "idle"
  /\ Refused(c, q)
  /\ ret' = [ret EXCEPT ![c] = Failure("EBADF")]
  /\ call' = [call EXCEPT ![c] = q]
  /\ UNCHANGED <<cpc, sock, min_fd, opened_fd, local, status, request, reply, table, files>>

(* get_socket_fd: the connection s, made again if the library has closed   *)
(* its socket.  What is then sent on it is lost if it was dropped.         *)
SendOn(c, s, what) ==
  /\ \/ sock[c] = s /\ UNCHANGED status
     \/ sock[c] = None /\ status[s] = "free" /\ status' = [status EXCEPT ![s] = "queued"]
  /\ request' = [request EXCEPT ![s] = IF status[s] = "dropped" THEN None ELSE what]

(* send_request.                                                           *)
CallRemote(c, q) ==
  /\ cpc[c] = "idle"
  /\ ~RoutedLocally(c, q) /\ ~Refused(c, q)
  /\ \E s \in Sessions : SendOn(c, s, q) /\ sock' = [sock EXCEPT ![c] = s]
  /\ call' = [call EXCEPT ![c] = q]
  /\ cpc' = [cpc EXCEPT ![c] = "waiting"]
  /\ ret' = [ret EXCEPT ![c] = None]
  /\ UNCHANGED <<min_fd, opened_fd, local, reply, table, files>>

(* What the caller is told: getdirtree never returns a null pointer.       *)
Told(q, m) == IF q.op = "getdirtree" THEN [m EXCEPT !.r = 0] ELSE m

(* opened_fd after reply m to call q, from n.  The variants count a close  *)
(* that failed, or forget the files opened before.                         *)
OpenedIgnoringErrors(q, m, n) ==
  CASE q.op = "open" /\ m.r >= 0 -> n + 1
    [] q.op = "close" -> n - 1
    [] OTHER -> n
OpenedUncounted(q, m, n) ==
  CASE q.op = "open" /\ m.r >= 0 -> 1
    [] q.op = "close" /\ m.r = 0 -> n - 1
    [] OTHER -> n
Opened(q, m, n) ==
  CASE q.op = "open" /\ m.r >= 0 -> n + 1
    [] q.op = "close" /\ m.r = 0 -> n - 1
    [] OTHER -> n

(* min_fd after it; the variant keeps the latest descriptor instead of the *)
(* lowest.                                                                 *)
LatestFd(q, m, n) == IF q.op = "open" /\ m.r >= 0 THEN m.r ELSE n
LowestFd(q, m, n) == IF q.op = "open" /\ m.r >= 0 /\ m.r < n THEN m.r ELSE n

(* The reply arrives.  open updates both counters; close counts down and   *)
(* closes the socket with the last file.                                   *)
Receive(c) ==
  /\ cpc[c] = "waiting"
  /\ LET s == sock[c]
         q == call[c]
         m == reply[s]
         opens == Opened(q, m, opened_fd[c])
     IN /\ m # None
        /\ min_fd' = [min_fd EXCEPT ![c] = LowestFd(q, m, @)]
        /\ opened_fd' = [opened_fd EXCEPT ![c] = opens]
        /\ sock' = [sock EXCEPT ![c] =
                      IF q.op = "close" /\ m.r = 0 /\ opens = 0 THEN None ELSE @]
        /\ ret' = [ret EXCEPT ![c] = Told(q, m)]
        /\ reply' = [reply EXCEPT ![s] = None]
  /\ cpc' = [cpc EXCEPT ![c] = "idle"]
  /\ UNCHANGED <<call, local, status, request, table, files>>

(* What is left of a program that is gone: nothing.                        *)
Gone(c) ==
  /\ cpc' = [cpc EXCEPT ![c] = "off"]
  /\ sock' = [sock EXCEPT ![c] = None]
  /\ min_fd' = [min_fd EXCEPT ![c] = INT_MAX]
  /\ opened_fd' = [opened_fd EXCEPT ![c] = 0]
  /\ call' = [call EXCEPT ![c] = None]
  /\ ret' = [ret EXCEPT ![c] = None]
  /\ local' = [local EXCEPT ![c] = {}]

(* The program exits, is killed, or ends in err(1, 0) because the server   *)
(* has reset a dropped connection.                                         *)
Exit(c) ==
  /\ cpc[c] # "off"
  /\ Gone(c)
  /\ UNCHANGED <<status, request, reply, table, files>>

(* It is killed between the sends of a request.  The bound: some place for *)
(* a connection is left to the others.                                     *)
RoomBeside(s) == \E t \in Sessions \ {s} : request[t] # Partial
KilledSending(c) ==
  /\ cpc[c] = "idle"
  /\ \E q \in Calls : ~RoutedLocally(c, q) /\ ~Refused(c, q)
  /\ \E s \in Sessions : RoomBeside(s) /\ SendOn(c, s, Partial)
  /\ Gone(c)
  /\ UNCHANGED <<reply, table, files>>

-----------------------------------------------------------------------------
(* The server *)

(* The parent waits for nothing but a connection; in the variant also for  *)
(* the session process of the client before.                               *)
AcceptableOneAtATime(s) ==
  status[s] = "queued" /\ \A t \in Sessions : status[t] # "running"
Acceptable(s) == status[s] = "queued"

(* accept and fork; when fork fails the parent still closes its end.       *)
Accept(s) ==
  /\ Acceptable(s)
  /\ \/ /\ status' = [status EXCEPT ![s] = "running"]
        /\ UNCHANGED request
     \/ /\ ForkMayFail
        /\ status' = [status EXCEPT ![s] = "dropped"]
        /\ request' = [request EXCEPT ![s] = None]
  /\ UNCHANGED <<cpc, sock, min_fd, opened_fd, call, ret, local, reply, table, files>>

(* Descriptors on the wire; the variant forgets the offset.                *)
pack_fd_unshifted(fd) == fd
pack_fd(fd) == IF fd < 0 THEN fd ELSE fd + FD_OFFSET
unpack_fd(fd) == IF fd < 0 THEN fd ELSE fd - FD_OFFSET

(* The do_ functions: the descriptor is unpacked, the call made, its       *)
(* result marshalled; do_open packs the descriptor.  What is missing from  *)
(* a partial request is waited for: recv returns 0, which is no error.     *)
Handle(s) ==
  /\ status[s] = "running"
  /\ request[s] \notin {None, Partial}
  /\ LET q == [request[s] EXCEPT !.fd = unpack_fd(@)]
         m == ReplyTo(q, table[s], files)
     IN /\ table' = [table EXCEPT ![s] = TableAfter(q, m, @)]
        /\ files' = FilesAfter(q, m, files)
        /\ reply' = [reply EXCEPT ![s] =
                       IF q.op = "open" THEN [m EXCEPT !.r = pack_fd(@)] ELSE m]
  /\ request' = [request EXCEPT ![s] = None]
  /\ UNCHANGED <<cpc, sock, min_fd, opened_fd, call, ret, local, status>>

Attached(s) == \E c \in Clients : sock[c] = s

(* The connection is closed between frames and its requests are handled:   *)
(* recv returns 0 where the type of a request is read.                     *)
(* The variant waits for files the client will never close.                *)
EndedWhenClosed(s) == ~Attached(s) /\ request[s] = None /\ Open(table[s]) = {}
Ended(s) == ~Attached(s) /\ request[s] = None

(* The session process exits, which closes its files.                      *)
EndSession(s) ==
  /\ status[s] \in {"running", "dropped"}
  /\ Ended(s)
  /\ status' = [status EXCEPT ![s] = "free"]
  /\ reply' = [reply EXCEPT ![s] = None]
  /\ table' = [table EXCEPT ![s] = EmptyTable(Fds)]
  /\ UNCHANGED <<cpc, sock, min_fd, opened_fd, call, ret, local, request, files>>

Next ==
  \/ \E c \in Clients :
       \/ Start(c) \/ Receive(c) \/ Exit(c) \/ KilledSending(c)
       \/ \E q \in Calls : CallLocal(c, q) \/ CallRefused(c, q) \/ CallRemote(c, q)
  \/ \E s \in Sessions : Accept(s) \/ Handle(s) \/ EndSession(s)

Spec == Init /\ [][Next]_vars

(* The processes of the service run: a session that is queued is accepted, *)
(* a request is handled, a reply is received, and a session whose client   *)
(* closed the connection between frames ends.  Nothing obliges a program   *)
(* to make a call or to exit, nor a session to end in the middle of one.   *)
Fairness ==
  /\ \A c \in Clients : WF_vars(Receive(c))
  /\ \A s \in Sessions : WF_vars(Accept(s)) /\ WF_vars(Handle(s)) /\ WF_vars(EndSession(s))

FairSpec == Spec /\ Fairness
-----------------------------------------------------------------------------
(* Properties *)

(* The descriptors of the session process that serves c.                   *)
FilesOf(c) == IF sock[c] = None THEN {} ELSE Open(table[sock[c]])
Arrived(c) == IF cpc[c] = "waiting" THEN reply[sock[c]] ELSE None

(* The descriptors c has been told of: those of its session, but for the   *)
(* open or close whose reply is on its way.                                *)
Known(c) ==
  IF Arrived(c) # None /\ Arrived(c).r >= 0 /\ call[c].op = "open"
  THEN FilesOf(c) \ {unpack_fd(Arrived(c).r)}
  ELSE IF Arrived(c) # None /\ Arrived(c).r >= 0 /\ call[c].op = "close"
  THEN FilesOf(c) \cup {unpack_fd(call[c].fd)}
  ELSE FilesOf(c)

(* opened_fd, which decides when the library closes its connection and     *)
(* whether lseek and getdirentries are sent at all, is the number of files *)
(* the session process has open for this program (mylib.c 103, 157-163).   *)
Counted(c) == opened_fd[c] = Cardinality(Known(c))
OpenCount == \A c \in Clients : Counted(c)

(* Descriptors are told apart by number alone: every file the session has  *)
(* open for c, once c knows it, is at min_fd or above and so is sent to    *)
(* the server by close, read and write; every local descriptor is below    *)
(* and stays local (mylib.c 102, 125, 190, 246).                           *)
Routed(c) ==
  /\ \A f \in Known(c) : f + FD_OFFSET >= min_fd[c]
  /\ \A d \in LocalFds : d < min_fd[c]
Routing == \A c \in Clients : Routed(c)

(* No two programs share a session: none of them can receive the reply, or *)
(* use the descriptors, of another.                                        *)
Private ==
  \A c, d \in Clients : sock[c] # None /\ sock[c] = sock[d] => c = d

(* What the library's state says of its connection, and what is under way  *)
(* in it: nothing unless the program waits.                                *)
Connected(c) ==
  /\ cpc[c] = "off" => sock[c] = None
  /\ cpc[c] = "waiting" =>
       sock[c] # None /\ call[c] # None /\ request[sock[c]] \in {None, call[c]}
  /\ sock[c] # None => status[sock[c]] # "free"
  /\ sock[c] # None /\ cpc[c] = "idle" =>
       request[sock[c]] = None /\ reply[sock[c]] = None

(* What an unread reply says of the descriptor table: the descriptor open  *)
(* returns is open, the one close has closed is not.                       *)
ReplyTrue(c) ==
  Arrived(c) # None /\ Arrived(c).r >= 0 =>
    /\ call[c].op = "open" => Arrived(c).r \in FileFds /\ unpack_fd(Arrived(c).r) \in FilesOf(c)
    /\ call[c].op = "close" =>
         Arrived(c).r = 0 /\ unpack_fd(call[c].fd) \in Fds \ FilesOf(c)

(* A session has either a request or the reply to it under way, and only   *)
(* session processes have replied or have files open.                      *)
Mailbox(s) ==
  /\ status[s] # "running" => reply[s] = None /\ Open(table[s]) = {}
  /\ status[s] \in {"free", "dropped"} => request[s] = None
  /\ request[s] # None => reply[s] = None

(* The inductive invariant.                                                *)
ClientOk(c) == Connected(c) /\ ReplyTrue(c) /\ Counted(c) /\ Routed(c)
IInv ==
  /\ TypeOK
  /\ Private
  /\ \A c \in Clients : ClientOk(c)
  /\ \A s \in Sessions : Mailbox(s)

(* The library closes the connection of a running program only when the    *)
(* session has no file open: no file is closed behind the program's back   *)
(* (mylib.c 159-164).                                                      *)
DisconnectsIdle ==
  [][\A c \in Clients :
       sock[c] # None /\ sock'[c] = None /\ cpc'[c] # "off" => FilesOf(c) = {}]_vars

(* A session whose client has left between frames ends, and with it the    *)
(* files it has open, whatever other sessions are stuck (server.c 146-195; *)
(* one whose client was killed within a frame keeps them for ever, 177-183). *)
Reaped ==
  \A s \in Sessions :
    status[s] # "free" /\ ~Attached(s) /\ request[s] # Partial ~> status[s] = "free"

(* Every call of a program that is not killed returns.                     *)
CallsReturn == \A c \in Clients : cpc[c] = "waiting" ~> cpc[c] # "waiting"

(* The service implements LocalFiles: programs with the library behave as  *)
(* programs on the server machine, whatever their calls interleave with.   *)
Local == INSTANCE LocalFiles WITH
  Slots <- Sessions,
  prog <- [c \in Clients |-> IF cpc[c] = "waiting" THEN "called" ELSE cpc[c]],
  answer <- [c \in Clients |-> Arrived(c)],
  tbl <- [c \in Clients |->
            [d \in FileFds |-> IF sock[c] = None THEN None ELSE table[sock[c]][unpack_fd(d)]]],
  late <- [s \in Sessions |->
             IF Attached(s) \/ request[s] = Partial THEN None ELSE request[s]]
Transparent == Local!Spec

(* getdirtree returns a "pointer to root node of directory tree structure  *)
(* or NULL if there was en error" (mylib.c 511-512).                       *)
TreeErrorIsNull ==
  \A c \in Clients : ret[c] # None /\ ret[c].err # "none" => ret[c].r < 0
=============================================================================
