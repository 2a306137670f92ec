--------------------------- MODULE TrfoRefinement ---------------------------
(***************************************************************************)
(* Proof that the remote file service implements LocalFiles: for every     *)
(* number of programs, connections, paths and descriptors, programs with   *)
(* the library behave as programs on the server machine.                   *)
(*                                                                         *)
(* A call takes effect when its session handles it, which for a killed     *)
(* program is later than its end; the library's own answers are calls that *)
(* take effect at once.  Everything else is invisible.                     *)
(***************************************************************************)
EXTENDS TrfoProofs

-----------------------------------------------------------------------------
(* One kernel for both: the session's calls on its descriptors are the     *)
(* program's calls on the descriptors it was given.                        *)

(* A session's table as its program sees it.                               *)
Seen(tb) == [d \in FileFds |-> tb[unpack_fd(d)]]

(* The reply a session sends.                                              *)
Packed(q, m) == IF q.op = "open" THEN [m EXCEPT !.r = pack_fd(@)] ELSE m

LEMMA Offset ==
  /\ \A f \in Fds : f + FD_OFFSET \in FileFds /\ f \in Nat /\ unpack_fd(f + FD_OFFSET) = f
  /\ \A d \in FileFds : unpack_fd(d) \in Fds /\ unpack_fd(d) + FD_OFFSET = d /\ d \in Nat
  /\ \A d \in FileFds : d \notin LocalFds
  /\ \A d \in LocalFds : d \in Nat /\ unpack_fd(d) \notin Fds
BY PosixAssumption, TrfoAssumption DEF FileFds, unpack_fd

LEMMA LowestOffset ==
  ASSUME NEW D, D \subseteq Fds, D # {}
  PROVE  Lowest({f + FD_OFFSET : f \in D}) = Lowest(D) + FD_OFFSET
<1> DEFINE E == {f + FD_OFFSET : f \in D}
<1>1. D \subseteq Nat /\ IsFiniteSet(D) /\ FD_OFFSET \in Nat
  BY PosixAssumption, TrfoAssumption, FS_Subset
<1>2. E \subseteq Nat /\ IsFiniteSet(E) /\ E # {}
  <2>1. IsFiniteSet(E)
    <3> DEFINE shift == [f \in D |-> f + FD_OFFSET]
    <3>1. shift \in Surjection(D, E)
      BY DEF Surjection
    <3> QED BY <1>1, <3>1, FS_Surjection
  <2>2. \A f \in D : f + FD_OFFSET \in Nat
    BY <1>1
  <2>3. E \subseteq Nat
    BY <2>2
  <2> QED BY <2>1, <2>3
<1>3. Lowest(D) \in D /\ \A e \in D : Lowest(D) <= e
  BY <1>1, LowestElement
<1>4. Lowest(E) \in E /\ \A e \in E : Lowest(E) <= e
  BY <1>2, LowestElement
<1>5. PICK f \in D : Lowest(E) = f + FD_OFFSET
  BY <1>4
<1>6. Lowest(E) <= Lowest(D) + FD_OFFSET /\ Lowest(D) <= f
  BY <1>3, <1>4
<1>7. Lowest(D) \in Nat /\ f \in Nat
  BY <1>1, <1>3
<1>8. Lowest(D) = f
  BY <1>1, <1>5, <1>6, <1>7
<1> QED BY <1>5, <1>8

LEMMA SeenOpen ==
  ASSUME NEW tb \in [Fds -> Paths \cup {None}]
  PROVE  /\ Closed(Seen(tb)) = {f + FD_OFFSET : f \in Closed(tb)}
         /\ \A f \in Fds : f + FD_OFFSET \in Open(Seen(tb)) <=> f \in Open(tb)
         /\ Open(Seen(tb)) \subseteq FileFds /\ Closed(tb) \subseteq Fds
  BY Offset DEF Seen, Open, Closed

(* A call that is not on a local descriptor has the same outcome.          *)
LEMMA SameKernel ==
  ASSUME NEW q \in Calls, q.fd \notin LocalFds,
         NEW tb \in [Fds -> Paths \cup {None}], NEW ex \in SUBSET Paths,
         NEW m, m = ReplyTo(Unpacked(q), tb, ex)
  PROVE  /\ Packed(q, m) = ReplyTo(q, Seen(tb), ex)
         /\ Seen(TableAfter(Unpacked(q), m, tb)) = TableAfter(q, Packed(q, m), Seen(tb))
         /\ FilesAfter(Unpacked(q), m, ex) = FilesAfter(q, Packed(q, m), ex)
<1> DEFINE u == Unpacked(q)
<1>0. /\ u.op = q.op /\ u.path = q.path /\ u.creat = q.creat /\ u.fd = unpack_fd(q.fd)
      /\ q.op \in FdOps \cup PathOps
      /\ q.op \in FdOps => q.fd \in FileFds
  BY UnpackedFields, CallFields
<1> HIDE DEF u
<1>1. m = ReplyTo(u, tb, ex)
  BY DEF u
<1>2. CASE q.op = "open"
  <2>1. Closed(Seen(tb)) = {} <=> Closed(tb) = {}
    BY SeenOpen
  <2>2. Closed(tb) # {} => /\ Lowest(Closed(Seen(tb))) = Lowest(Closed(tb)) + FD_OFFSET
                           /\ Lowest(Closed(tb)) \in Fds
    <3>1. Closed(tb) \subseteq Nat /\ IsFiniteSet(Closed(tb))
      BY SeenOpen, PosixAssumption, FS_Subset
    <3> QED BY <3>1, SeenOpen, LowestOffset, LowestElement
  <2>3. CASE Closed(tb) = {} \/ (q.path \notin ex /\ ~q.creat)
    <3>1. m \in {Failure("EMFILE"), Failure("ENOENT")} /\ ReplyTo(q, Seen(tb), ex) = m
      BY <1>0, <1>1, <1>2, <2>1, <2>3 DEF ReplyTo, FdOps
    <3>2. m.r = -1 /\ Packed(q, m) = m
      BY <1>2, <3>1 DEF Packed, pack_fd, Failure
    <3> QED BY <3>1, <3>2 DEF TableAfter, FilesAfter, u
  <2>4. CASE ~(Closed(tb) = {} \/ (q.path \notin ex /\ ~q.creat))
    <3> DEFINE f == Lowest(Closed(tb))
    <3>1. m = Success(f, q.path) /\ f \in Fds /\ f \in Nat
      BY <1>0, <1>1, <1>2, <2>2, <2>4, Offset DEF ReplyTo, FdOps
    <3>2. ReplyTo(q, Seen(tb), ex) = Success(f + FD_OFFSET, q.path)
      BY <1>2, <2>1, <2>2, <2>4 DEF ReplyTo, FdOps
    <3> HIDE DEF f
    <3>3. Packed(q, m) = Success(f + FD_OFFSET, q.path)
      BY <1>2, <3>1 DEF Packed, pack_fd, Success
    <3>4. m.r = f /\ Packed(q, m).r = f + FD_OFFSET /\ f + FD_OFFSET \in Nat
      BY <3>1, <3>3, TrfoAssumption DEF Success
    <3>5. TableAfter(u, m, tb) = [tb EXCEPT ![f] = q.path]
      BY <1>0, <1>2, <3>1, <3>4 DEF TableAfter
    <3>6. TableAfter(q, Packed(q, m), Seen(tb)) = [Seen(tb) EXCEPT ![f + FD_OFFSET] = q.path]
      BY <1>2, <3>4 DEF TableAfter
    <3>7. Seen([tb EXCEPT ![f] = q.path]) = [Seen(tb) EXCEPT ![f + FD_OFFSET] = q.path]
      <4>1. \A d \in FileFds : unpack_fd(d) = f <=> d = f + FD_OFFSET
        BY <3>1, Offset
      <4> QED BY <4>1, Offset DEF Seen
    <3>8. FilesAfter(u, m, ex) = FilesAfter(q, Packed(q, m), ex)
      BY <1>0, <1>2, <3>1, <3>4 DEF FilesAfter
    <3> QED BY <3>2, <3>3, <3>5, <3>6, <3>7, <3>8 DEF u
  <2> QED BY <2>3, <2>4
<1>3. CASE q.op \in FdOps
  <2>1. q.fd \in Open(Seen(tb)) <=> u.fd \in Open(tb)
    BY <1>0, <1>3, SeenOpen, Offset
  <2>2. Seen(tb)[q.fd] = tb[u.fd]
    BY <1>0, <1>3 DEF Seen
  <2>3. m = ReplyTo(q, Seen(tb), ex) /\ Packed(q, m) = m
    BY <1>0, <1>1, <1>3, <2>1, <2>2 DEF ReplyTo, Packed, FdOps
  <2>4. Seen(TableAfter(u, m, tb)) = TableAfter(q, m, Seen(tb))
    <3>1. CASE m.r < 0 \/ q.op # "close"
      BY <1>0, <1>3, <3>1 DEF TableAfter, FdOps
    <3>2. CASE ~(m.r < 0 \/ q.op # "close")
      <4>1. \A d \in FileFds : unpack_fd(d) = u.fd <=> d = q.fd
        BY <1>0, <1>3, Offset
      <4>2. /\ TableAfter(u, m, tb) = [tb EXCEPT ![u.fd] = None]
            /\ TableAfter(q, m, Seen(tb)) = [Seen(tb) EXCEPT ![q.fd] = None]
        BY <1>0, <3>2 DEF TableAfter
      <4>3. Seen([tb EXCEPT ![u.fd] = None]) = [Seen(tb) EXCEPT ![q.fd] = None]
        BY <4>1, Offset DEF Seen
      <4> QED BY <4>2, <4>3
    <3> QED BY <3>1, <3>2
  <2>5. FilesAfter(u, m, ex) = FilesAfter(q, m, ex)
    BY <1>0, <1>3 DEF FilesAfter, FdOps
  <2> QED BY <2>3, <2>4, <2>5 DEF u
<1>4. CASE q.op \in PathOps \ {"open"}
  <2>1. m = ReplyTo(q, Seen(tb), ex) /\ Packed(q, m) = m
    BY <1>0, <1>1, <1>4 DEF ReplyTo, Packed, FdOps, PathOps
  <2>2. TableAfter(u, m, tb) = tb /\ TableAfter(q, m, Seen(tb)) = Seen(tb)
    BY <1>0, <1>4 DEF TableAfter, PathOps
  <2>3. FilesAfter(u, m, ex) = FilesAfter(q, m, ex)
    BY <1>0 DEF FilesAfter
  <2> QED BY <2>1, <2>2, <2>3 DEF u
<1> QED BY <1>0, <1>2, <1>3, <1>4

(* One on a local descriptor finds nothing there.                          *)
LEMMA OnLocal ==
  ASSUME NEW q \in Calls, q.fd \in LocalFds
  PROVE  q.op \in FdOps
<1>1. -1 \notin LocalFds
  BY Offset
<1>2. q.op \in FdOps \/ q.fd = -1
  BY DEF Calls, FdCall, PathCall, FdOps, PathOps
<1> QED BY <1>1, <1>2

LEMMA LocalKernel ==
  ASSUME NEW q \in Calls, q.fd \in LocalFds,
         NEW tb \in [Fds -> Paths \cup {None}], NEW ex \in SUBSET Paths,
         NEW m, m = ReplyTo(Unpacked(q), tb, ex)
  PROVE  /\ m = Failure("EBADF") /\ Packed(q, m) = m
         /\ TableAfter(Unpacked(q), m, tb) = tb
         /\ FilesAfter(Unpacked(q), m, ex) = ex
<1>1. q.op \in FdOps /\ Unpacked(q).op = q.op /\ Unpacked(q).fd = unpack_fd(q.fd)
  BY OnLocal, UnpackedFields
<1>2. Unpacked(q).fd \notin Open(tb)
  BY <1>1, Offset DEF Open
<1>3. m = Failure("EBADF")
  BY <1>1, <1>2 DEF ReplyTo, FdOps
<1> QED BY <1>1, <1>3 DEF Packed, TableAfter, FilesAfter, Failure, FdOps

-----------------------------------------------------------------------------
(* What the abstract variables are, place by place *)

ProgOf(c) == IF cpc[c] = "waiting" THEN "called" ELSE cpc[c]
TableOf(c) ==
  [d \in FileFds |-> IF sock[c] = None THEN None ELSE table[sock[c]][unpack_fd(d)]]
LateAt(s) == IF Attached(s) \/ request[s] = Partial THEN None ELSE request[s]

prog == [c \in Clients |-> ProgOf(c)]
answer == [c \in Clients |-> Arrived(c)]
tbl == [c \in Clients |-> TableOf(c)]
late == [s \in Sessions |-> LateAt(s)]

(* No program has a session attached that is free, and a session has at    *)
(* most one program.                                                       *)
LEMMA AttachedFacts ==
  ASSUME IInv
  PROVE  /\ \A s \in Sessions : status[s] = "free" => ~Attached(s)
         /\ \A c \in Clients : sock[c] # None => Attached(sock[c]) /\ sock[c] \in Sessions
         /\ \A s \in Sessions : request[s] # None /\ Attached(s) =>
              \E c \in Clients : sock[c] = s /\ cpc[c] = "waiting" /\ call[c] = request[s]
  BY TrfoAssumption DEF IInv, TypeOK, ClientOk, Connected, Attached

(* A session without files is seen as an empty table.                      *)
LEMMA EmptySeen ==
  ASSUME TypeOK, NEW s \in Sessions, Open(table[s]) = {}
  PROVE  \A d \in FileFds : table[s][unpack_fd(d)] = None
  BY Offset DEF TypeOK, Open

(* Steps that leave the programs' sockets and the sessions' mail alone     *)
(* leave alone what is made of them.                                       *)
LEMMA AnswerSame ==
  ASSUME \A c \in Clients : Arrived(c)' = Arrived(c)
  PROVE  answer' = answer
  BY DEF answer

LEMMA TblSame ==
  ASSUME \A c \in Clients : TableOf(c)' = TableOf(c)
  PROVE  tbl' = tbl
  BY DEF tbl

LEMMA LateSame ==
  ASSUME \A s \in Sessions : LateAt(s)' = LateAt(s)
  PROVE  late' = late
  BY DEF late

(* A call sent to the server on a local descriptor is one the library does *)
(* not tell apart.                                                         *)
Forwarded(c) ==
  cpc[c] = "waiting" /\ call[c].fd \in LocalFds => call[c].op \in {"lseek", "getdirentries"}
AllForwarded == \A c \in Clients : Forwarded(c)

-----------------------------------------------------------------------------
(* Each step of the service is a step of LocalFiles, or none *)

LEMMA StartLocal ==
  ASSUME IInv, NEW c \in Clients, Start(c)
  PROVE  Local!Start(c)
<1>1. PICK s \in Sessions : /\ status[s] = "free"
                            /\ sock' = [sock EXCEPT ![c] = s]
  BY DEF Start
<1>2. /\ cpc[c] = "off"
      /\ cpc' = [cpc EXCEPT ![c] = "idle"]
      /\ local' = [local EXCEPT ![c] = LocalFds]
      /\ UNCHANGED <<call, ret, request, reply, table, files>>
  BY DEF Start
<1>3. TypeOK /\ sock[c] = None /\ s # None
  BY <1>2, TrfoAssumption DEF IInv, ClientOk, Connected
<1>4. prog[c] = "off" /\ prog' = [prog EXCEPT ![c] = "idle"]
  BY <1>2, <1>3 DEF prog, ProgOf, TypeOK
<1>5. \A d \in Clients : Arrived(d)' = Arrived(d)
  BY <1>1, <1>2, <1>3 DEF Arrived, TypeOK
<1>6. ASSUME NEW d \in Clients
      PROVE  TableOf(d)' = TableOf(d)
  <2>1. CASE d = c
    <3>1. Open(table[s]) = {}
      BY <1>1 DEF IInv, Mailbox
    <3>2. \A e \in FileFds : table[s][unpack_fd(e)] = None
      BY <1>3, <3>1, EmptySeen
    <3>3. sock'[c] = s
      BY <1>1, <1>3 DEF TypeOK
    <3> QED BY <1>2, <1>3, <2>1, <3>2, <3>3 DEF TableOf
  <2>2. CASE d # c
    BY <1>1, <1>2, <1>3, <2>2 DEF TableOf, TypeOK
  <2> QED BY <2>1, <2>2
<1>7. ASSUME NEW t \in Sessions
      PROVE  LateAt(t)' = LateAt(t)
  <2>1. CASE t = s
    BY <1>1, <1>2, <2>1 DEF LateAt, IInv, Mailbox
  <2>2. CASE t # s
    <3>1. Attached(t)' <=> Attached(t)
      BY <1>1, <1>3, <2>2, TrfoAssumption DEF Attached, TypeOK
    <3> QED BY <1>2, <3>1 DEF LateAt
  <2> QED BY <2>1, <2>2
<1>8. answer' = answer /\ tbl' = tbl /\ late' = late
  BY <1>5, <1>6, <1>7, AnswerSame, TblSame, LateSame
<1> QED BY <1>2, <1>4, <1>8
        DEF Local!Start, prog, answer, tbl, late, ProgOf, TableOf, LateAt

(* The original functions, and the library's own refusals.                 *)
LEMMA AtOnceLocal ==
  ASSUME IInv, NEW c \in Clients, NEW q \in Calls, CallLocal(c, q) \/ CallRefused(c, q)
  PROVE  Local!CallAtOnce(c)
<1>1. /\ cpc[c] = "idle"
      /\ call' = [call EXCEPT ![c] = q]
      /\ UNCHANGED <<cpc, sock, request, reply, table, files>>
  BY DEF CallLocal, CallRefused
<1>2. TypeOK /\ ClientOk(c) /\ Arrived(c) = None /\ Known(c) = FilesOf(c)
  BY <1>1 DEF IInv, Arrived, Known
<1>3. prog[c] = "idle" /\ prog' = prog
  BY <1>1 DEF prog, ProgOf
<1>4. answer' = answer /\ tbl' = tbl /\ late' = late
  <2>1. \A d \in Clients : Arrived(d)' = Arrived(d) /\ TableOf(d)' = TableOf(d)
    BY <1>1 DEF Arrived, TableOf
  <2>2. \A s \in Sessions : LateAt(s)' = LateAt(s)
    BY <1>1 DEF LateAt, Attached
  <2> QED BY <2>1, <2>2, AnswerSame, TblSame, LateSame
<1>5. q \in Local!Calls
  BY DEF Calls, Local!Calls, FdCall, PathCall, Local!FdCall, Local!PathCall,
         FdOps, PathOps, Local!FdOps, Local!PathOps
<1>6. ASSUME q.fd \notin LocalFds, q.op \in FdOps,
             \A f \in FilesOf(c) : f + FD_OFFSET # q.fd
      PROVE  Failure("EBADF") = Local!ReplyTo(q, tbl[c], files)
  <2>1. \A d \in FileFds : d = q.fd => tbl[c][d] = None
    <3>1. sock[c] # None => \A f \in Fds : f \notin FilesOf(c) => table[sock[c]][f] = None
      BY <1>2 DEF FilesOf, Open, TypeOK
    <3> QED BY <1>6, <3>1, Offset DEF tbl, TableOf
  <2>2. DOMAIN tbl[c] = FileFds
    BY DEF tbl, TableOf
  <2>3. q.fd \notin Local!Open(tbl[c])
    BY <2>1, <2>2 DEF Local!Open
  <2>4. q.op \in Local!FdOps /\ q.op # "open"
    BY <1>6 DEF FdOps, Local!FdOps
  <2> QED BY <2>3, <2>4 DEF Local!ReplyTo, Failure, Local!Failure
<1>7. \E m \in {Local!Success(0, None), Local!Failure("EBADF")} :
        /\ ret' = [ret EXCEPT ![c] = m]
        /\ \/ /\ q.fd \in LocalFds
              /\ \/ m = IF q.fd \in local[c] THEN Local!Success(0, None)
                        ELSE Local!Failure("EBADF")
                 \/ q.op \in {"lseek", "getdirentries"} /\ m = Local!Failure("EBADF")
              /\ local' = [local EXCEPT ![c] = IF q.op = "close" THEN @ \ {q.fd} ELSE @]
           \/ /\ q.fd \notin LocalFds
              /\ m = Local!ReplyTo(q, tbl[c], files)
              /\ m = Local!Failure("EBADF")
              /\ local' = local
  <2>1. CASE CallLocal(c, q) /\ q.fd \in LocalFds
    BY <2>1 DEF CallLocal, Success, Failure, Local!Success, Local!Failure
  <2>2. CASE CallLocal(c, q) /\ q.fd \notin LocalFds
    <3>1. q.op \in FdOps /\ q.fd < min_fd[c]
      BY <2>2 DEF CallLocal, RoutedLocally, FdOps
    <3>2. \A f \in FilesOf(c) : f + FD_OFFSET # q.fd
      <4>1. SUFFICES ASSUME NEW f \in FilesOf(c), f + FD_OFFSET = q.fd
                     PROVE  FALSE
        OBVIOUS
      <4>2. f + FD_OFFSET >= min_fd[c] /\ min_fd[c] \in Nat
        BY <1>2 DEF ClientOk, Routed, TypeOK
      <4>3. f \in Fds
        BY <1>2 DEF FilesOf, Open, TypeOK
      <4>4. f + FD_OFFSET \in Nat
        BY <4>3, PosixAssumption, TrfoAssumption
      <4> QED BY <3>1, <4>1, <4>2, <4>4
    <3>3. Failure("EBADF") = Local!ReplyTo(q, tbl[c], files)
      BY <1>6, <2>2, <3>1, <3>2
    <3>4. local[c] \subseteq LocalFds
      BY <1>2 DEF TypeOK
    <3>5. ret' = [ret EXCEPT ![c] = Failure("EBADF")] /\ local' = local
      <4>1. q.fd \notin local[c] /\ local[c] \ {q.fd} = local[c]
        BY <2>2, <3>4
      <4> QED BY <1>2, <2>2, <4>1 DEF CallLocal, TypeOK
    <3> QED BY <2>2, <3>3, <3>5 DEF Failure, Local!Failure
  <2>3. CASE CallRefused(c, q) /\ q.fd \in LocalFds
    <3>1. /\ ret' = [ret EXCEPT ![c] = Failure("EBADF")] /\ local' = local
          /\ q.op \in {"lseek", "getdirentries"}
      BY <2>3 DEF CallRefused, Refused
    <3>2. local' = [local EXCEPT ![c] = IF q.op = "close" THEN @ \ {q.fd} ELSE @]
      BY <1>2, <3>1 DEF TypeOK
    <3> QED BY <2>3, <3>1, <3>2 DEF Failure, Local!Failure
  <2>4. CASE CallRefused(c, q) /\ q.fd \notin LocalFds
    <3>1. /\ ret' = [ret EXCEPT ![c] = Failure("EBADF")] /\ local' = local
          /\ q.op \in FdOps /\ opened_fd[c] = 0
      BY <2>4 DEF CallRefused, Refused, FdOps
    <3>2. FilesOf(c) = {}
      <4>1. FilesOf(c) \subseteq Fds
        BY <1>2 DEF FilesOf, Open, TypeOK
      <4>2. IsFiniteSet(FilesOf(c)) /\ Cardinality(FilesOf(c)) = 0
        BY <1>2, <3>1, <4>1, PosixAssumption, FS_Subset DEF ClientOk, Counted
      <4> QED BY <4>2, FS_EmptySet
    <3>3. Failure("EBADF") = Local!ReplyTo(q, tbl[c], files)
      BY <1>6, <2>4, <3>1, <3>2
    <3> QED BY <2>4, <3>1, <3>3 DEF Failure, Local!Failure
  <2> QED BY <2>1, <2>2, <2>3, <2>4
<1>8. PICK m \in {Local!Success(0, None), Local!Failure("EBADF")} :
        /\ ret' = [ret EXCEPT ![c] = m]
        /\ Local!Perform(c, q, m)
  <2>1. \A m : m = Local!Failure("EBADF") /\ q.op \notin PathOps =>
          /\ Local!TableAfter(q, m, tbl[c]) = tbl[c]
          /\ Local!FilesAfter(q, m, files) = files
    BY DEF Local!Failure, Local!TableAfter, Local!FilesAfter
  <2>2. q.op \notin PathOps
    BY DEF CallLocal, CallRefused, RoutedLocally, Refused, PathOps
  <2>3. [tbl EXCEPT ![c] = tbl[c]] = tbl
    BY DEF tbl
  <2> QED BY <1>1, <1>4, <1>7, <2>1, <2>2, <2>3, Zenon
          DEF Local!Perform, tbl, TableOf
<1> QED BY <1>1, <1>3, <1>4, <1>5, <1>8
        DEF Local!CallAtOnce, prog, answer, tbl, late, ProgOf, TableOf, LateAt

LEMMA CallRemoteLocal ==
  ASSUME IInv, NEW c \in Clients, NEW q \in Calls, CallRemote(c, q)
  PROVE  Local!Invoke(c)
<1>1. PICK s \in Sessions :
        /\ sock[c] = s \/ (sock[c] = None /\ status[s] = "free")
        /\ sock' = [sock EXCEPT ![c] = s]
        /\ request' = [request EXCEPT ![s] = IF status[s] = "dropped" THEN None ELSE q]
  BY DEF CallRemote, SendOn
<1>2. /\ cpc[c] = "idle"
      /\ cpc' = [cpc EXCEPT ![c] = "waiting"]
      /\ call' = [call EXCEPT ![c] = q]
      /\ ret' = [ret EXCEPT ![c] = None]
      /\ UNCHANGED <<local, reply, table, files>>
  BY DEF CallRemote
<1>3. TypeOK /\ s # None
  BY TrfoAssumption DEF IInv
<1>4. /\ sock'[c] = s
      /\ \A d \in Clients \ {c} : sock'[d] = sock[d] /\ sock[d] # s
      /\ request[s] = None /\ reply[s] = None
  <2>1. CASE sock[c] = s
    BY <1>1, <1>2, <1>3, <2>1 DEF IInv, ClientOk, Connected, Private, TypeOK
  <2>2. CASE sock[c] = None /\ status[s] = "free"
    <3>1. ~Attached(s)
      BY <2>2, AttachedFacts
    <3>2. request[s] = None /\ reply[s] = None
      BY <2>2 DEF IInv, Mailbox
    <3> QED BY <1>1, <1>3, <2>2, <3>1, <3>2 DEF Attached, TypeOK
  <2> QED BY <1>1, <2>1, <2>2
<1>5. prog[c] = "idle" /\ prog' = [prog EXCEPT ![c] = "called"]
  BY <1>2, <1>3 DEF prog, ProgOf, TypeOK
<1>6. \A d \in Clients : Arrived(d)' = Arrived(d)
  BY <1>2, <1>3, <1>4 DEF Arrived, TypeOK
<1>7. ASSUME NEW d \in Clients
      PROVE  TableOf(d)' = TableOf(d)
  <2>1. CASE d = c /\ sock[c] = None
    <3>1. status[s] = "free" /\ Open(table[s]) = {}
      BY <1>1, <1>3, <2>1 DEF IInv, Mailbox
    <3>2. \A e \in FileFds : table[s][unpack_fd(e)] = None
      BY <1>3, <3>1, EmptySeen
    <3> QED BY <1>2, <1>3, <1>4, <2>1, <3>2 DEF TableOf
  <2>2. CASE d = c /\ sock[c] = s
    BY <1>2, <1>4, <2>2 DEF TableOf
  <2>3. CASE d # c
    BY <1>2, <1>4, <2>3 DEF TableOf
  <2> QED BY <1>1, <2>1, <2>2, <2>3
<1>8. ASSUME NEW t \in Sessions
      PROVE  LateAt(t)' = LateAt(t)
  <2>1. CASE t = s
    <3>1. LateAt(s) = None
      BY <1>4 DEF LateAt
    <3>2. Attached(s)'
      BY <1>4 DEF Attached
    <3> QED BY <2>1, <3>1, <3>2 DEF LateAt
  <2>2. CASE t # s
    <3>1. Attached(t)' <=> Attached(t)
      <4>1. sock[c] # t /\ sock'[c] # t
        BY <1>1, <1>4, <2>2, TrfoAssumption
      <4> QED BY <1>4, <4>1 DEF Attached
    <3> QED BY <1>1, <1>3, <2>2, <3>1 DEF LateAt, TypeOK
  <2> QED BY <2>1, <2>2
<1>9. answer' = answer /\ tbl' = tbl /\ late' = late
  BY <1>6, <1>7, <1>8, AnswerSame, TblSame, LateSame
<1>10. \E r \in Local!Calls : call' = [call EXCEPT ![c] = r]
  <2>1. q \in Local!Calls
    BY DEF Calls, Local!Calls, FdCall, PathCall, Local!FdCall, Local!PathCall,
           FdOps, PathOps, Local!FdOps, Local!PathOps
  <2> QED BY <1>2, <2>1
<1> QED BY <1>2, <1>5, <1>9, <1>10
        DEF Local!Invoke, prog, answer, tbl, late, ProgOf, TableOf, LateAt

LEMMA ReceiveLocal ==
  ASSUME IInv, NEW c \in Clients, Receive(c)
  PROVE  Local!Return(c)
<1> DEFINE s == sock[c]
<1>1. /\ s \in Sessions /\ s # None /\ request[s] = None
      /\ reply' = [reply EXCEPT ![s] = None]
      /\ sock' \in {sock, [sock EXCEPT ![c] = None]}
      /\ sock'[c] = None => FilesOf(c) = {}
  BY ReceiveFacts
<1>2. /\ cpc[c] = "waiting" /\ reply[s] # None
      /\ cpc' = [cpc EXCEPT ![c] = "idle"]
      /\ ret' = [ret EXCEPT ![c] = Told(call[c], reply[s])]
      /\ UNCHANGED <<call, local, status, request, table, files>>
  BY DEF Receive
<1>3. TypeOK
  BY DEF IInv
<1>4. /\ \A d \in Clients \ {c} : sock'[d] = sock[d] /\ sock[d] # s
      /\ sock'[c] \in {s, None}
  BY <1>1, <1>3 DEF IInv, Private, TypeOK
<1>5. prog[c] = "called" /\ prog' = [prog EXCEPT ![c] = "idle"]
  BY <1>2, <1>3 DEF prog, ProgOf, TypeOK
<1>6. answer[c] = reply[s] /\ answer' = [answer EXCEPT ![c] = None]
  <2>1. Arrived(c) = reply[s] /\ Arrived(c)' = None
    BY <1>1, <1>2, <1>3 DEF Arrived, TypeOK
  <2>2. ASSUME NEW d \in Clients \ {c}
        PROVE  Arrived(d)' = Arrived(d)
    <3>1. cpc'[d] = cpc[d] /\ sock'[d] = sock[d] /\ (cpc[d] = "waiting" => sock[d] \in Sessions)
      BY <1>2, <1>3, <1>4 DEF TypeOK, IInv, ClientOk, Connected
    <3> QED BY <1>1, <1>3, <1>4, <3>1 DEF Arrived, TypeOK
  <2> QED BY <2>1, <2>2 DEF answer
<1>7. ASSUME NEW d \in Clients
      PROVE  TableOf(d)' = TableOf(d)
  <2>1. CASE d = c /\ sock'[c] = None
    <3>1. Open(table[s]) = {}
      BY <1>1, <2>1 DEF FilesOf
    <3>2. \A e \in FileFds : table[s][unpack_fd(e)] = None
      BY <1>1, <1>3, <3>1, EmptySeen
    <3> QED BY <1>1, <2>1, <3>2 DEF TableOf
  <2>2. CASE d = c /\ sock'[c] = s
    BY <1>2, <2>2 DEF TableOf
  <2>3. CASE d # c
    BY <1>2, <1>4, <2>3 DEF TableOf
  <2> QED BY <1>4, <2>1, <2>2, <2>3
<1>8. ASSUME NEW t \in Sessions
      PROVE  LateAt(t)' = LateAt(t)
  <2>1. CASE t = s
    BY <1>1, <1>2, <2>1 DEF LateAt
  <2>2. CASE t # s
    <3>1. Attached(t)' <=> Attached(t)
      BY <1>1, <1>4, <2>2, TrfoAssumption DEF Attached
    <3> QED BY <1>2, <3>1 DEF LateAt
  <2> QED BY <2>1, <2>2
<1>9. tbl' = tbl /\ late' = late
  BY <1>7, <1>8, TblSame, LateSame
<1>10. \/ ret' = [ret EXCEPT ![c] = answer[c]]
       \/ /\ call[c].op = "getdirtree"
          /\ ret' = [ret EXCEPT ![c] = [answer[c] EXCEPT !.r = 0]]
  BY <1>2, <1>6 DEF Told
<1> QED BY <1>1, <1>2, <1>5, <1>6, <1>9, <1>10
        DEF Local!Return, prog, answer, tbl, late, ProgOf, TableOf, LateAt

(* What a killed program had asked for and was not handled stays with its  *)
(* session.                                                                *)
LEMMA ExitLocal ==
  ASSUME IInv, NEW c \in Clients, Exit(c)
  PROVE  Local!End(c)
<1> DEFINE s == sock[c]
<1>1. /\ cpc[c] # "off"
      /\ cpc' = [cpc EXCEPT ![c] = "off"]
      /\ sock' = [sock EXCEPT ![c] = None]
      /\ call' = [call EXCEPT ![c] = None]
      /\ ret' = [ret EXCEPT ![c] = None]
      /\ local' = [local EXCEPT ![c] = {}]
      /\ UNCHANGED <<request, reply, table, files>>
  BY DEF Exit, Gone
<1>2. TypeOK /\ ClientOk(c)
  BY DEF IInv
<1>3. /\ \A d \in Clients \ {c} : sock'[d] = sock[d]
      /\ sock'[c] = None
      /\ s # None => s \in Sessions /\ \A d \in Clients \ {c} : sock[d] # s
  BY <1>1, <1>2 DEF IInv, Private, TypeOK
<1>4. prog[c] # "off" /\ prog' = [prog EXCEPT ![c] = "off"]
  BY <1>1, <1>2 DEF prog, ProgOf, TypeOK
<1>5. answer' = [answer EXCEPT ![c] = None]
  <2>1. Arrived(c)' = None /\ \A d \in Clients \ {c} : Arrived(d)' = Arrived(d)
    BY <1>1, <1>2, <1>3 DEF Arrived, TypeOK
  <2> QED BY <2>1 DEF answer
<1>6. tbl' = [tbl EXCEPT ![c] = Local!EmptyTable(FileFds)]
  <2>1. /\ TableOf(c)' = [d \in FileFds |-> None]
        /\ \A d \in Clients \ {c} : TableOf(d)' = TableOf(d)
    BY <1>1, <1>3 DEF TableOf
  <2> QED BY <2>1 DEF tbl, Local!EmptyTable
<1>7. \A t \in Sessions : t # s => LateAt(t)' = LateAt(t)
  <2>1. \A t \in Sessions : t # s => (Attached(t)' <=> Attached(t))
    BY <1>3, TrfoAssumption DEF Attached
  <2> QED BY <1>1, <2>1 DEF LateAt
<1>8. CASE s = None \/ request[s] = None
  <2>1. \A t \in Sessions : LateAt(t)' = LateAt(t)
    BY <1>1, <1>7, <1>8, TrfoAssumption DEF LateAt
  <2> QED BY <1>1, <1>4, <1>5, <1>6, <2>1, LateSame
          DEF Local!End, prog, answer, tbl, late, ProgOf, TableOf, LateAt
<1>9. CASE s # None /\ request[s] # None
  <2>1. /\ s \in Sessions /\ cpc[c] = "waiting" /\ call[c] = request[s] /\ reply[s] = None
        /\ request[s] # Partial
    BY <1>1, <1>2, <1>3, <1>9, MessageAssumption DEF ClientOk, Connected, IInv, Mailbox, TypeOK
  <2>2. prog[c] = "called" /\ answer[c] = None
    BY <2>1 DEF prog, ProgOf, answer, Arrived
  <2>3. PICK k \in Sessions : k = s
    BY <2>1
  <2>4. Attached(k) /\ ~Attached(k)'
    BY <1>3, <1>9, <2>3, TrfoAssumption DEF Attached
  <2>5. late[k] = None /\ LateAt(k)' = call[c]
    BY <1>1, <2>1, <2>3, <2>4 DEF late, LateAt
  <2>6. late' = [late EXCEPT ![k] = call[c]]
    BY <1>7, <2>3, <2>5 DEF late
  <2>7. \E t \in Sessions : late[t] = None /\ late' = [late EXCEPT ![t] = call[c]]
    BY <2>5, <2>6
  <2> QED BY <1>1, <1>4, <1>5, <1>6, <2>2, <2>7
          DEF Local!End, prog, answer, tbl, late, ProgOf, TableOf, LateAt
<1> QED BY <1>8, <1>9

(* One killed within a frame had asked for nothing.                        *)
LEMMA KilledSendingLocal ==
  ASSUME IInv, NEW c \in Clients, KilledSending(c)
  PROVE  Local!End(c)
<1>1. /\ cpc[c] = "idle"
      /\ cpc' = [cpc EXCEPT ![c] = "off"]
      /\ sock' = [sock EXCEPT ![c] = None]
      /\ call' = [call EXCEPT ![c] = None]
      /\ ret' = [ret EXCEPT ![c] = None]
      /\ local' = [local EXCEPT ![c] = {}]
      /\ UNCHANGED <<reply, table, files>>
  BY DEF KilledSending, Gone
<1>2. PICK s \in Sessions :
        /\ s # None /\ sock[c] \in {s, None} /\ \A d \in Clients \ {c} : sock[d] # s
        /\ request[s] = None
        /\ request' = [request EXCEPT ![s] = IF status[s] = "dropped" THEN None ELSE Partial]
  BY KilledSendingFacts
<1>3. TypeOK /\ None \notin Sessions
  BY TrfoAssumption DEF IInv
<1>4. /\ \A d \in Clients \ {c} : sock'[d] = sock[d]
      /\ sock'[c] = None
      /\ request'[s] \in {None, Partial}
      /\ \A t \in Sessions \ {s} : request'[t] = request[t]
  BY <1>1, <1>2, <1>3 DEF TypeOK
<1>5. prog[c] # "off" /\ prog' = [prog EXCEPT ![c] = "off"]
  BY <1>1, <1>3 DEF prog, ProgOf, TypeOK
<1>6. answer' = [answer EXCEPT ![c] = None]
  <2>1. Arrived(c)' = None /\ \A d \in Clients \ {c} : Arrived(d)' = Arrived(d)
    BY <1>1, <1>3, <1>4 DEF Arrived, TypeOK
  <2> QED BY <2>1 DEF answer
<1>7. tbl' = [tbl EXCEPT ![c] = Local!EmptyTable(FileFds)]
  <2>1. /\ TableOf(c)' = [d \in FileFds |-> None]
        /\ \A d \in Clients \ {c} : TableOf(d)' = TableOf(d)
    BY <1>1, <1>4 DEF TableOf
  <2> QED BY <2>1 DEF tbl, Local!EmptyTable
<1>8. ASSUME NEW t \in Sessions
      PROVE  LateAt(t)' = LateAt(t)
  <2>1. CASE t = s
    <3>1. LateAt(s) = None /\ LateAt(s)' = None
      BY <1>2, <1>4 DEF LateAt
    <3> QED BY <2>1, <3>1
  <2>2. CASE t # s
    <3>1. sock[c] # t
      BY <1>2, <1>3, <2>2
    <3>2. Attached(t)' <=> Attached(t)
      BY <1>3, <1>4, <3>1 DEF Attached
    <3> QED BY <1>4, <2>2, <3>2 DEF LateAt
  <2> QED BY <2>1, <2>2
<1> QED BY <1>1, <1>5, <1>6, <1>7, <1>8, LateSame
        DEF Local!End, prog, answer, tbl, late, ProgOf, TableOf, LateAt

(* Accepting and ending a session are invisible, but that a request which  *)
(* a failed fork loses is one that never takes effect.                     *)
LEMMA ParentLocal ==
  ASSUME IInv, NEW s \in Sessions, Accept(s) \/ EndSession(s)
  PROVE  Local!LateEffect(s) \/ UNCHANGED Local!vars
<1>1. TypeOK /\ UNCHANGED <<cpc, sock, call, ret, local, files>>
  BY DEF IInv, Accept, EndSession
<1>2. prog' = prog /\ \A t : Attached(t)' <=> Attached(t)
  BY <1>1 DEF prog, ProgOf, Attached
<1>3. answer' = answer /\ tbl' = tbl
  <2>1. CASE Accept(s)
    BY <1>1, <2>1 DEF Accept, answer, Arrived, tbl, TableOf
  <2>2. CASE EndSession(s)
    <3>1. /\ \A c \in Clients : sock[c] # s
          /\ reply' = [reply EXCEPT ![s] = None]
          /\ table' = [table EXCEPT ![s] = EmptyTable(Fds)]
      BY <2>2 DEF EndSession, Ended, Attached
    <3>2. ASSUME NEW c \in Clients
          PROVE  Arrived(c)' = Arrived(c) /\ TableOf(c)' = TableOf(c)
      <4>1. cpc[c] = "waiting" => sock[c] \in Sessions
        BY <1>1 DEF IInv, ClientOk, Connected, TypeOK
      <4> QED BY <1>1, <3>1, <4>1 DEF Arrived, TableOf, TypeOK
    <3> QED BY <3>2, AnswerSame, TblSame
  <2> QED BY <2>1, <2>2
<1>4. CASE late' = late
  BY <1>1, <1>2, <1>3, <1>4
     DEF Local!vars, prog, answer, tbl, late, ProgOf, TableOf, LateAt
<1>5. CASE late' # late
  <2>1. PICK t \in Sessions : LateAt(t)' # LateAt(t)
    BY <1>5, LateSame
  <2>2. /\ request' = [request EXCEPT ![s] = None]
        /\ ~Attached(s) /\ request[s] \notin {None, Partial}
    BY <1>1, <1>2, <2>1 DEF LateAt, Accept, EndSession, TypeOK
  <2>3. late[s] # None /\ late' = [late EXCEPT ![s] = None]
    BY <1>1, <1>2, <2>2 DEF late, LateAt, TypeOK
  <2> QED BY <1>1, <1>2, <1>3, <2>3
          DEF Local!LateEffect, prog, answer, tbl, late, ProgOf, TableOf, LateAt
<1> QED BY <1>4, <1>5

(* Kernels agree.                                                          *)
LEMMA LocalReply ==
  ASSUME NEW q, NEW tb, NEW ex, NEW m
  PROVE  /\ Local!ReplyTo(q, tb, ex) = ReplyTo(q, tb, ex)
         /\ Local!TableAfter(q, m, tb) = TableAfter(q, m, tb)
         /\ Local!FilesAfter(q, m, ex) = FilesAfter(q, m, ex)
         /\ Local!Failure("EBADF") = Failure("EBADF")
         /\ Local!EmptyTable(tb) = EmptyTable(tb)
  BY DEF Local!ReplyTo, ReplyTo, Local!Closed, Closed, Local!Open, Open, Local!Lowest, Lowest,
         Local!Failure, Failure, Local!Success, Success, Local!FdOps, FdOps,
         Local!TableAfter, TableAfter, Local!FilesAfter, FilesAfter,
         Local!EmptyTable, EmptyTable

(* What a session does with a request.                                     *)
LEMMA HandleFacts ==
  ASSUME IInv, NEW s \in Sessions, Handle(s),
         NEW q, q = request[s], NEW m, m = ReplyTo(Unpacked(q), table[s], files)
  PROVE  /\ q \in Calls /\ q # None /\ reply[s] = None
         /\ table[s] \in [Fds -> Paths \cup {None}] /\ files \in SUBSET Paths
         /\ table' = [table EXCEPT ![s] = TableAfter(Unpacked(q), m, table[s])]
         /\ files' = FilesAfter(Unpacked(q), m, files)
         /\ reply' = [reply EXCEPT ![s] = Packed(q, m)]
         /\ request' = [request EXCEPT ![s] = None]
         /\ UNCHANGED <<cpc, sock, call, ret, local>>
<1>1. TypeOK
  BY DEF IInv
<1>2. q \in Calls /\ q # None /\ reply[s] = None
  BY <1>1 DEF Handle, TypeOK, IInv, Mailbox
<1>3. Unpacked(q).op = q.op
  BY <1>2, UnpackedFields
<1>4. /\ table' = [table EXCEPT ![s] = TableAfter(Unpacked(q), m, table[s])]
      /\ files' = FilesAfter(Unpacked(q), m, files)
      /\ reply' = [reply EXCEPT ![s] = Packed(q, m)]
  BY <1>3 DEF Handle, Unpacked, Packed
<1>5. request' = [request EXCEPT ![s] = None] /\ UNCHANGED <<cpc, sock, call, ret, local>>
  BY DEF Handle
<1> QED BY <1>1, <1>2, <1>4, <1>5 DEF TypeOK

(* A request is the call of the program that waits for it.                 *)
LEMMA HandleAttached ==
  ASSUME IInv, AllForwarded, NEW s \in Sessions, Handle(s), Attached(s)
  PROVE  \E c \in Clients : Local!TakeEffect(c)
<1> DEFINE q == request[s]
           m == ReplyTo(Unpacked(q), table[s], files)
           tb == TableAfter(Unpacked(q), m, table[s])
<1>1. /\ q \in Calls /\ q # None /\ reply[s] = None
      /\ table[s] \in [Fds -> Paths \cup {None}] /\ files \in SUBSET Paths
      /\ table' = [table EXCEPT ![s] = tb]
      /\ files' = FilesAfter(Unpacked(q), m, files)
      /\ reply' = [reply EXCEPT ![s] = Packed(q, m)]
      /\ request' = [request EXCEPT ![s] = None]
      /\ UNCHANGED <<cpc, sock, call, ret, local>>
  BY HandleFacts
<1>2. PICK c \in Clients : sock[c] = s /\ cpc[c] = "waiting" /\ call[c] = q
  BY <1>1, AttachedFacts
<1>3. TypeOK /\ s # None /\ \A d \in Clients \ {c} : sock[d] # s
  BY <1>2, TrfoAssumption DEF IInv, Private
<1>4. prog[c] = "called" /\ answer[c] = None /\ prog' = prog
  BY <1>1, <1>2 DEF prog, ProgOf, answer, Arrived
<1>5. tbl[c] = Seen(table[s]) /\ tbl' = [tbl EXCEPT ![c] = Seen(tb)]
  <2>1. TableOf(c) = Seen(table[s]) /\ TableOf(c)' = Seen(tb)
    <3>1. table'[s] = tb
      BY <1>1, <1>3 DEF TypeOK
    <3> HIDE DEF tb
    <3> QED BY <1>1, <1>2, <1>3, <3>1 DEF TableOf, Seen
  <2>2. \A d \in Clients \ {c} : TableOf(d)' = TableOf(d)
    BY <1>1, <1>3 DEF TableOf, TypeOK
  <2> QED BY <2>1, <2>2 DEF tbl
<1>6. answer' = [answer EXCEPT ![c] = Packed(q, m)]
  <2>1. Arrived(c)' = Packed(q, m)
    BY <1>1, <1>2, <1>3 DEF Arrived, TypeOK
  <2>2. ASSUME NEW d \in Clients \ {c}
        PROVE  Arrived(d)' = Arrived(d)
    <3>1. sock[d] # s /\ (cpc[d] = "waiting" => sock[d] \in Sessions)
      BY <1>3 DEF IInv, ClientOk, Connected, TypeOK
    <3> QED BY <1>1, <1>3, <3>1 DEF Arrived, TypeOK
  <2> QED BY <2>1, <2>2 DEF answer
<1>7. late' = late
  <2>1. Attached(s)' /\ \A t : Attached(t)' <=> Attached(t)
    BY <1>1 DEF Attached
  <2>2. \A t \in Sessions : LateAt(t)' = LateAt(t)
    BY <1>1, <1>3, <2>1 DEF LateAt, TypeOK
  <2> QED BY <2>2, LateSame
<1> HIDE DEF q, m, tb
<1>8. CASE q.fd \in LocalFds
  <2>1. /\ m = Failure("EBADF") /\ Packed(q, m) = m
        /\ tb = table[s] /\ files' = files
    BY <1>1, <1>8, LocalKernel DEF m, tb
  <2>2. q.op \in {"lseek", "getdirentries"}
    BY <1>2, <1>8 DEF AllForwarded, Forwarded
  <2>3. tbl' = tbl
    BY <1>5, <2>1 DEF tbl
  <2>4. local' = [local EXCEPT ![c] = IF q.op = "close" THEN @ \ {q.fd} ELSE @]
    BY <1>1, <1>3, <2>2 DEF TypeOK
  <2>5. /\ Packed(q, m) = Local!Failure("EBADF")
        /\ Local!Perform(c, call[c], Packed(q, m))
    BY <1>2, <1>8, <2>1, <2>2, <2>3, <2>4, LocalReply DEF Local!Perform, tbl, TableOf
  <2>6. Local!TakeEffect(c)
    BY <1>1, <1>4, <1>6, <1>7, <2>5
       DEF Local!TakeEffect, prog, answer, tbl, late, ProgOf, TableOf, LateAt
  <2> QED BY <2>6
<1>9. CASE q.fd \notin LocalFds
  <2>1. /\ Packed(q, m) = Local!ReplyTo(q, tbl[c], files)
        /\ Seen(tb) = Local!TableAfter(q, Packed(q, m), tbl[c])
        /\ files' = Local!FilesAfter(q, Packed(q, m), files)
    BY <1>1, <1>5, <1>9, SameKernel, LocalReply DEF m, tb
  <2>2. Local!Perform(c, call[c], Packed(q, m))
    <3>1. tbl' = [tbl EXCEPT ![c] = Local!TableAfter(q, Packed(q, m), @)]
      BY <1>5, <2>1
    <3> QED BY <1>1, <1>2, <1>9, <2>1, <3>1 DEF Local!Perform, tbl, TableOf
  <2>3. Local!TakeEffect(c)
    BY <1>1, <1>2, <1>4, <1>6, <1>7, <2>1, <2>2
       DEF Local!TakeEffect, prog, answer, tbl, late, ProgOf, TableOf, LateAt
  <2> QED BY <2>3
<1> QED BY <1>8, <1>9

(* Or one that a killed program has left behind.  The session may by then  *)
(* have no room for a file the program could have opened, which leaves the *)
(* files as they were.                                                     *)
LEMMA HandleLate ==
  ASSUME IInv, NEW s \in Sessions, Handle(s), ~Attached(s)
  PROVE  Local!LateEffect(s)
<1> DEFINE q == request[s]
           m == ReplyTo(Unpacked(q), table[s], files)
           e == ReplyTo(q, EmptyTable(FileFds), files)
<1>1. /\ q \in Calls /\ q # None
      /\ table[s] \in [Fds -> Paths \cup {None}] /\ files \in SUBSET Paths
      /\ table' = [table EXCEPT ![s] = TableAfter(Unpacked(q), m, table[s])]
      /\ files' = FilesAfter(Unpacked(q), m, files)
      /\ reply' = [reply EXCEPT ![s] = Packed(q, m)]
      /\ request' = [request EXCEPT ![s] = None]
      /\ UNCHANGED <<cpc, sock, call, ret, local>>
  BY HandleFacts
<1>2. TypeOK /\ \A c \in Clients : sock[c] # s
  BY DEF IInv, Attached
<1>3. prog' = prog /\ answer' = answer /\ tbl' = tbl
  <2>1. ASSUME NEW c \in Clients
        PROVE  Arrived(c)' = Arrived(c) /\ TableOf(c)' = TableOf(c)
    <3>1. sock[c] # s /\ (cpc[c] = "waiting" => sock[c] \in Sessions)
      BY <1>2 DEF IInv, ClientOk, Connected, TypeOK
    <3> QED BY <1>1, <1>2, <3>1 DEF Arrived, TableOf, TypeOK
  <2> QED BY <1>1, <2>1, AnswerSame, TblSame DEF prog, ProgOf
<1>4. late[s] = q /\ late' = [late EXCEPT ![s] = None]
  <2>1. LateAt(s) = q /\ LateAt(s)' = None
    BY <1>1, <1>2, MessageAssumption DEF LateAt, TypeOK
  <2>2. \A t \in Sessions \ {s} : LateAt(t)' = LateAt(t)
    BY <1>1, <1>2 DEF LateAt, Attached, TypeOK
  <2> QED BY <2>1, <2>2 DEF late
<1> HIDE DEF q, m, e
<1>5. files' = files \/ files' = FilesAfter(q, e, files)
  <2>1. /\ Unpacked(q).op = q.op /\ Unpacked(q).path = q.path
        /\ Unpacked(q).creat = q.creat
    BY <1>1, UnpackedFields
  <2>2. CASE q.op = "open" /\ m.r >= 0
    <3>1. m.r \in Fds
      BY <1>1, <2>2, KernelFacts DEF m
    <3>2. m # Failure("ENOENT") /\ m # Failure("EMFILE")
      BY <2>2 DEF Failure
    <3>3. q.path \in files \/ q.creat
      BY <2>1, <2>2, <3>2 DEF m, ReplyTo, FdOps
    <3>4. Closed(EmptyTable(FileFds)) = FileFds /\ FileFds # {}
      BY <3>1, Offset DEF Closed, Open, EmptyTable
    <3>5. e = Success(Lowest(FileFds), q.path)
      BY <2>2, <3>3, <3>4 DEF e, ReplyTo, FdOps
    <3>6. Lowest(FileFds) \in Nat
      <4>1. Fds # {} /\ Fds \subseteq Nat /\ IsFiniteSet(Fds) /\ FD_OFFSET \in Nat
        BY <3>4, PosixAssumption, TrfoAssumption DEF FileFds
      <4>2. Lowest(Fds) \in Nat
        BY <4>1, LowestElement
      <4>3. Lowest(FileFds) = Lowest(Fds) + FD_OFFSET
        BY <4>1, LowestOffset DEF FileFds
      <4> QED BY <4>1, <4>2, <4>3
    <3> QED BY <1>1, <2>1, <2>2, <3>5, <3>6 DEF FilesAfter, Success, m
  <2>3. CASE q.op \notin {"open"} \cup FdOps
    BY <1>1, <2>1, <2>3 DEF FilesAfter, m, e, ReplyTo
  <2>4. CASE q.op \in FdOps \/ m.r < 0
    BY <1>1, <2>1, <2>4 DEF FilesAfter, FdOps, m
  <2>5. m.r \in Int
    BY <1>1, KernelFacts DEF m, Replies
  <2> QED BY <2>2, <2>3, <2>4, <2>5
<1> QED BY <1>1, <1>3, <1>4, <1>5, LocalReply
        DEF Local!LateEffect, prog, answer, tbl, late, ProgOf, TableOf, LateAt, e

LEMMA StepForwarded ==
  ASSUME IInv, AllForwarded, [Next]_vars
  PROVE  AllForwarded'
<1> SUFFICES ASSUME NEW c \in Clients
             PROVE  Forwarded(c)'
  BY DEF AllForwarded
<1>1. TypeOK /\ Forwarded(c) /\ Routed(c)
  BY DEF IInv, AllForwarded, ClientOk
<1>2. CASE cpc'[c] = "waiting" /\ cpc[c] = "waiting" /\ call'[c] = call[c]
  BY <1>1, <1>2 DEF Forwarded
<1>3. CASE \E q \in Calls : CallRemote(c, q)
  <2>1. PICK q \in Calls : CallRemote(c, q)
    BY <1>3
  <2>2. call'[c] = q /\ ~RoutedLocally(c, q)
    BY <1>1, <2>1 DEF CallRemote, TypeOK
  <2>3. q.fd \in LocalFds => q.op \notin {"close", "read", "write"}
    BY <1>1, <2>2 DEF RoutedLocally, Routed
  <2> QED BY <2>2, <2>3, OnLocal DEF Forwarded, FdOps
<1>4. \/ cpc'[c] # "waiting"
      \/ cpc[c] = "waiting" /\ call'[c] = call[c]
      \/ \E q \in Calls : CallRemote(c, q)
  <2>1. ASSUME NEW d \in Clients, Start(d) \/ Receive(d) \/ Exit(d) \/ KilledSending(d)
        PROVE  cpc'[c] # "waiting" \/ (cpc[c] = "waiting" /\ call'[c] = call[c])
    BY <1>1, <2>1 DEF Start, Receive, Exit, KilledSending, Gone, TypeOK
  <2>2. ASSUME NEW d \in Clients, NEW q \in Calls, CallLocal(d, q) \/ CallRefused(d, q)
        PROVE  cpc'[c] # "waiting" \/ (cpc[c] = "waiting" /\ call'[c] = call[c])
    BY <1>1, <2>2 DEF CallLocal, CallRefused, TypeOK
  <2>3. ASSUME NEW d \in Clients, NEW q \in Calls, CallRemote(d, q), d # c
        PROVE  cpc'[c] = cpc[c] /\ call'[c] = call[c]
    BY <1>1, <2>3 DEF CallRemote, TypeOK
  <2>4. ASSUME NEW s \in Sessions, Accept(s) \/ Handle(s) \/ EndSession(s)
        PROVE  cpc'[c] = cpc[c] /\ call'[c] = call[c]
    BY <2>4 DEF Accept, Handle, EndSession
  <2>5. CASE UNCHANGED vars
    BY <2>5 DEF vars
  <2> QED BY <2>1, <2>2, <2>3, <2>4, <2>5 DEF Next
<1>5. CASE cpc'[c] # "waiting"
  BY <1>5 DEF Forwarded
<1> QED BY <1>2, <1>3, <1>4, <1>5

LEMMA StepLocal ==
  ASSUME IInv, AllForwarded, [Next]_vars
  PROVE  [Local!Next]_(Local!vars)
<1>1. CASE UNCHANGED vars
  BY <1>1 DEF vars, Local!vars, Arrived, Attached
<1>2. ASSUME NEW c \in Clients, Start(c) \/ Receive(c) \/ Exit(c) \/ KilledSending(c)
      PROVE  Local!Next
  BY <1>2, StartLocal, ReceiveLocal, ExitLocal, KilledSendingLocal DEF Local!Next
<1>3. ASSUME NEW c \in Clients, NEW q \in Calls,
             CallLocal(c, q) \/ CallRefused(c, q) \/ CallRemote(c, q)
      PROVE  Local!Next
  BY <1>3, AtOnceLocal, CallRemoteLocal DEF Local!Next
<1>4. ASSUME NEW s \in Sessions, Handle(s)
      PROVE  Local!Next
  BY <1>4, HandleAttached, HandleLate DEF Local!Next
<1>5. ASSUME NEW s \in Sessions, Accept(s) \/ EndSession(s)
      PROVE  [Local!Next]_(Local!vars)
  BY <1>5, ParentLocal DEF Local!Next
<1> QED BY <1>1, <1>2, <1>3, <1>4, <1>5 DEF Next

LEMMA InitLocal == Init => Local!Init
<1> SUFFICES ASSUME Init
             PROVE  Local!Init
  OBVIOUS
<1>1. \A c \in Clients : ProgOf(c) = "off" /\ Arrived(c) = None
  BY DEF Init, ProgOf, Arrived
<1>2. \A c \in Clients : TableOf(c) = Local!EmptyTable(FileFds)
  BY DEF Init, TableOf, Local!EmptyTable
<1>3. \A s \in Sessions : LateAt(s) = None
  BY DEF Init, LateAt
<1> QED BY <1>1, <1>2, <1>3 DEF Init, Local!Init, ProgOf, TableOf, LateAt

(* Programs with the library behave as programs on the server machine:     *)
(* their calls take effect at one point each, in one order for all of      *)
(* them, on descriptors of their own and on the same files.                *)
THEOREM Refinement == Spec => Transparent
<1>1. Init => AllForwarded
  BY DEF Init, AllForwarded, Forwarded
<1>2. IInv /\ AllForwarded /\ [Next]_vars => AllForwarded'
  BY StepForwarded
<1>3. IInv /\ AllForwarded /\ [Next]_vars => [Local!Next]_(Local!vars)
  BY StepLocal
<1> QED BY <1>1, <1>2, <1>3, InitLocal, Inductive, PTL DEF Spec, Transparent, Local!Spec
=============================================================================
