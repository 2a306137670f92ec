----------------------------- MODULE TrfoProofs -----------------------------
(***************************************************************************)
(* Proofs about module Trfo, for every number of programs, connections,    *)
(* paths and descriptors, with and without failures of fork.               *)
(***************************************************************************)
EXTENDS Trfo, FiniteSetTheorems, WellFoundedInduction, TLAPS

-----------------------------------------------------------------------------
(* The kernel *)

(* A finite nonempty set of numbers has a lowest element, and Lowest       *)
(* chooses it: a minimal initial segment of the set ends in it.            *)
LEMMA LowestElement ==
  ASSUME NEW D, D \subseteq Nat, IsFiniteSet(D), D # {}
  PROVE  Lowest(D) \in D /\ \A e \in D : Lowest(D) <= e
<1> DEFINE upto(d) == {x \in D : x <= d}
           T == {upto(d) : d \in D}
<1>1. T # {} /\ T \subseteq FiniteSubsetsOf(D)
  <2>1. \A d \in D : upto(d) \subseteq D /\ IsFiniteSet(upto(d))
    BY FS_Subset
  <2> QED BY <2>1 DEF FiniteSubsetsOf
<1>2. PICK U \in T : \A V \in T : ~(<<V, U>> \in StrictSubsetOrdering(D))
  BY <1>1, WFMin, FS_StrictSubsetOrderingWellFounded
<1>3. PICK d \in D : U = upto(d)
  BY <1>2
<1>4. ASSUME NEW e \in D, e < d
      PROVE  FALSE
  <2>1. upto(e) \in T /\ upto(e) \subseteq U /\ d \in U /\ d \notin upto(e)
    <3>1. \A x \in D : x <= e => x <= d
      BY <1>4
    <3>2. d <= d /\ ~(d <= e)
      BY <1>4
    <3> QED BY <1>3, <3>1, <3>2
  <2>2. <<upto(e), U>> \in StrictSubsetOrdering(D)
    BY <2>1, <1>3 DEF StrictSubsetOrdering
  <2> QED BY <1>2, <2>1, <2>2
<1>5. \A e \in D : d <= e
  BY <1>4
<1> QED BY <1>5 DEF Lowest

(* What a call is.                                                         *)
LEMMA CallFields ==
  ASSUME NEW q \in Calls
  PROVE  /\ q = [op |-> q.op, fd |-> q.fd, path |-> q.path, creat |-> q.creat]
         /\ q.op \in FdOps \cup PathOps
         /\ q.op \in PathOps => q.path \in Paths
         /\ q.op \in FdOps => q.fd \in FileFds \cup LocalFds
  BY DEF Calls, FdCall, PathCall, FdOps, PathOps

(* A request as a do_ function sees it.                                    *)
Unpacked(q) == [q EXCEPT !.fd = unpack_fd(@)]

LEMMA UnpackedFields ==
  ASSUME NEW q \in Calls
  PROVE  /\ Unpacked(q).op = q.op /\ Unpacked(q).path = q.path
         /\ Unpacked(q).creat = q.creat /\ Unpacked(q).fd = unpack_fd(q.fd)
  BY CallFields DEF Unpacked

(* What the kernel answers, and that only open and close change a table.   *)
LEMMA KernelFacts ==
  ASSUME NEW q \in Calls, NEW tb \in [Fds -> Paths \cup {None}], NEW ex \in SUBSET Paths,
         NEW m, m = ReplyTo(Unpacked(q), tb, ex)
  PROVE  /\ m \in Replies
         /\ m.r >= 0 /\ q.op = "open" =>
              /\ m.r \in Fds \ Open(tb)
              /\ TableAfter(Unpacked(q), m, tb) = [tb EXCEPT ![m.r] = q.path]
         /\ m.r >= 0 /\ q.op = "close" =>
              /\ m.r = 0 /\ unpack_fd(q.fd) \in Open(tb)
              /\ TableAfter(Unpacked(q), m, tb) = [tb EXCEPT ![unpack_fd(q.fd)] = None]
         /\ m.r < 0 \/ q.op \notin {"open", "close"} => TableAfter(Unpacked(q), m, tb) = tb
         /\ FilesAfter(Unpacked(q), m, ex) \in SUBSET Paths
<1> DEFINE u == Unpacked(q)
<1>0. /\ u.op = q.op /\ u.path = q.path /\ u.creat = q.creat /\ u.fd = unpack_fd(q.fd)
      /\ q.op \in FdOps \cup PathOps
      /\ q.op \in PathOps => q.path \in Paths
  BY UnpackedFields, CallFields
<1> HIDE DEF u
<1>1. m = ReplyTo(u, tb, ex)
  BY DEF u
<1>2. Closed(tb) = Fds \ Open(tb) /\ Open(tb) \subseteq Fds
  BY DEF Closed, Open
<1>3. Closed(tb) # {} => Lowest(Closed(tb)) \in Fds \ Open(tb)
  BY <1>2, LowestElement, FS_Subset, PosixAssumption
<1>4. Fds \subseteq Nat
  BY PosixAssumption
<1>5. CASE q.op = "open"
  <2>1. \/ m = Failure("EMFILE")
        \/ m = Failure("ENOENT")
        \/ Closed(tb) # {} /\ m = Success(Lowest(Closed(tb)), q.path)
    BY <1>0, <1>1, <1>5 DEF ReplyTo, FdOps
  <2>2. m \in Replies /\ (m.r >= 0 => m.r \in Fds \ Open(tb))
    BY <1>0, <1>3, <1>4, <1>5, <2>1 DEF Failure, Success, Replies, Errors, PathOps
  <2>3. m.r \in Int /\ q.path \in Paths
    BY <1>0, <1>5, <2>2 DEF Replies, PathOps
  <2>4. FilesAfter(u, m, ex) \in SUBSET Paths
    BY <1>0, <1>5, <2>3 DEF FilesAfter
  <2>5. TableAfter(u, m, tb) = IF m.r < 0 THEN tb ELSE [tb EXCEPT ![m.r] = q.path]
    BY <1>0, <1>5, <2>3 DEF TableAfter
  <2> QED BY <1>5, <2>2, <2>3, <2>4, <2>5 DEF u
<1>6. CASE q.op \in FdOps
  <2>1. \/ m = Failure("EBADF")
        \/ u.fd \in Open(tb) /\ m = Success(0, tb[u.fd])
    BY <1>0, <1>1, <1>6 DEF ReplyTo, FdOps
  <2>2. m \in Replies /\ (m.r >= 0 => m.r = 0 /\ u.fd \in Open(tb))
    BY <2>1, <1>2 DEF Failure, Success, Replies, Errors
  <2> QED BY <1>0, <1>6, <2>2 DEF TableAfter, FilesAfter, u, FdOps
<1>7. CASE q.op \in PathOps \ {"open"}
  <2>1. m = Failure("ENOENT") \/ m = Success(0, q.path)
    BY <1>0, <1>1, <1>7 DEF ReplyTo, FdOps, PathOps
  <2>2. m \in Replies
    BY <1>0, <1>7, <2>1 DEF Failure, Success, Replies, Errors
  <2> QED BY <1>0, <1>7, <2>2 DEF TableAfter, FilesAfter, u, PathOps
<1>8. q.op = "open" \/ q.op \in FdOps \/ q.op \in PathOps \ {"open"}
  BY <1>0
<1> QED BY <1>5, <1>6, <1>7, <1>8

-----------------------------------------------------------------------------
(* The steps *)

LEMMA InitIInv == Init => IInv
<1> SUFFICES ASSUME Init
             PROVE  IInv
  OBVIOUS
<1>1. TypeOK
  BY TrfoAssumption DEF Init, TypeOK, EmptyTable
<1>2. Private
  BY DEF Init, Private
<1>3. ASSUME NEW c \in Clients
      PROVE  ClientOk(c)
  <2>1. cpc[c] = "off" /\ sock[c] = None /\ opened_fd[c] = 0 /\ min_fd[c] = INT_MAX
    BY DEF Init
  <2>2. Known(c) = {} /\ Arrived(c) = None
    BY <2>1 DEF Known, Arrived, FilesOf
  <2>3. \A d \in LocalFds : d < INT_MAX
    BY TrfoAssumption
  <2> QED BY <2>1, <2>2, <2>3, FS_EmptySet
          DEF ClientOk, Connected, ReplyTrue, Counted, Routed
<1>4. ASSUME NEW s \in Sessions
      PROVE  Mailbox(s)
  BY DEF Init, Mailbox, EmptyTable, Open
<1> QED BY <1>1, <1>2, <1>3, <1>4 DEF IInv

(* A program is as it was when neither its own state nor what it can see   *)
(* of its session changes.                                                 *)
LEMMA ClientFrame ==
  ASSUME NEW c \in Clients, ClientOk(c),
         cpc'[c] = cpc[c], sock'[c] = sock[c], min_fd'[c] = min_fd[c],
         opened_fd'[c] = opened_fd[c], call'[c] = call[c],
         sock[c] # None =>
           /\ status'[sock[c]] # "free" /\ request'[sock[c]] \in {request[sock[c]], None}
           /\ reply'[sock[c]] = reply[sock[c]] /\ table'[sock[c]] = table[sock[c]]
  PROVE  ClientOk(c)'
<1>0. cpc[c] = "waiting" => sock[c] # None
  BY DEF ClientOk, Connected
<1>1. FilesOf(c)' = FilesOf(c)
  BY DEF FilesOf, Open
<1>2. Arrived(c)' = Arrived(c)
  BY <1>0 DEF Arrived
<1>3. Known(c)' = Known(c)
  BY <1>1, <1>2 DEF Known
<1>4. Connected(c)'
  BY DEF ClientOk, Connected
<1> QED BY <1>1, <1>2, <1>3, <1>4 DEF ClientOk, ReplyTrue, Counted, Routed

LEMMA MailboxFrame ==
  ASSUME NEW s \in Sessions, Mailbox(s),
         status'[s] = status[s], request'[s] = request[s],
         reply'[s] = reply[s], table'[s] = table[s]
  PROVE  Mailbox(s)'
  BY DEF Mailbox, Open

LEMMA StartIInv ==
  ASSUME IInv, NEW c \in Clients, Start(c)
  PROVE  IInv'
<1>1. PICK s \in Sessions : /\ status[s] = "free"
                            /\ status' = [status EXCEPT ![s] = "queued"]
                            /\ sock' = [sock EXCEPT ![c] = s]
  BY DEF Start
<1>2. /\ cpc[c] = "off"
      /\ cpc' = [cpc EXCEPT ![c] = "idle"]
      /\ min_fd' = [min_fd EXCEPT ![c] = INT_MAX]
      /\ opened_fd' = [opened_fd EXCEPT ![c] = 0]
      /\ local' = [local EXCEPT ![c] = LocalFds]
      /\ UNCHANGED <<call, ret, request, reply, table, files>>
  BY DEF Start
<1>3. TypeOK
  BY DEF IInv
<1>4. TypeOK'
  BY <1>1, <1>2, <1>3, TrfoAssumption DEF TypeOK
<1>5. \A d \in Clients : sock[d] # s
  BY <1>1, TrfoAssumption DEF IInv, ClientOk, Connected
<1>6. Private'
  BY <1>1, <1>3, <1>5 DEF IInv, Private, TypeOK
<1>7. ASSUME NEW d \in Clients
      PROVE  ClientOk(d)'
  <2>1. CASE d = c
    <3>1. /\ cpc'[c] = "idle" /\ sock'[c] = s /\ min_fd'[c] = INT_MAX /\ opened_fd'[c] = 0
          /\ status'[s] = "queued" /\ s # None
      BY <1>1, <1>2, <1>3, TrfoAssumption DEF TypeOK
    <3>2. request[s] = None /\ reply[s] = None /\ Open(table[s]) = {}
      BY <1>1 DEF IInv, Mailbox
    <3>3. Known(c)' = {} /\ Arrived(c)' = None
      BY <1>2, <3>1, <3>2 DEF Known, Arrived, FilesOf, Open
    <3>4. \A e \in LocalFds : e < INT_MAX
      BY TrfoAssumption
    <3> QED BY <2>1, <1>2, <3>1, <3>2, <3>3, <3>4, FS_EmptySet
            DEF ClientOk, Connected, ReplyTrue, Counted, Routed
  <2>2. CASE d # c
    BY <2>2, <1>1, <1>2, <1>3, <1>5, ClientFrame DEF IInv, TypeOK, ClientOk, Connected
  <2> QED BY <2>1, <2>2
<1>8. ASSUME NEW t \in Sessions
      PROVE  Mailbox(t)'
  <2>1. CASE t = s
    BY <2>1, <1>1, <1>2, <1>3 DEF IInv, Mailbox, TypeOK, Open
  <2>2. CASE t # s
    BY <2>2, <1>1, <1>2, <1>3, MailboxFrame DEF IInv, TypeOK
  <2> QED BY <2>1, <2>2
<1> QED BY <1>4, <1>6, <1>7, <1>8 DEF IInv

(* Calls that stay in the program's own kernel change what it was told and *)
(* its local descriptors only.                                             *)
LEMMA AtOnceIInv ==
  ASSUME IInv, NEW c \in Clients, NEW q \in Calls, CallLocal(c, q) \/ CallRefused(c, q)
  PROVE  IInv'
<1>1. /\ UNCHANGED <<cpc, sock, min_fd, opened_fd, status, request, reply, table, files>>
      /\ call' = [call EXCEPT ![c] = q]
      /\ cpc[c] = "idle"
      /\ \E m \in Replies : ret' = [ret EXCEPT ![c] = m]
      /\ \E D \in SUBSET LocalFds : local' = [local EXCEPT ![c] = D]
  <2>1. CASE CallLocal(c, q)
    <3>1. LET m == IF q.fd \in local[c] THEN Success(0, None) ELSE Failure("EBADF")
          IN m \in Replies
      BY DEF Success, Failure, Replies, Errors
    <3>2. local[c] \in SUBSET LocalFds
      BY DEF IInv, TypeOK
    <3> QED BY <2>1, <3>1, <3>2 DEF CallLocal
  <2>2. CASE CallRefused(c, q)
    <3>1. Failure("EBADF") \in Replies
      BY DEF Failure, Replies, Errors
    <3>2. local' = [local EXCEPT ![c] = local[c]] /\ local[c] \in SUBSET LocalFds
      BY <2>2 DEF CallRefused, IInv, TypeOK
    <3> QED BY <2>2, <3>1, <3>2 DEF CallRefused
  <2> QED BY <2>1, <2>2
<1>2. TypeOK'
  BY <1>1 DEF IInv, TypeOK
<1>3. Private'
  BY <1>1 DEF IInv, Private
<1>4. ASSUME NEW d \in Clients
      PROVE  ClientOk(d)'
  <2>1. CASE d = c
    <3>1. FilesOf(c)' = FilesOf(c) /\ Arrived(c)' = None /\ Arrived(c) = None
      BY <1>1 DEF FilesOf, Arrived
    <3>2. Known(c)' = FilesOf(c) /\ Known(c) = FilesOf(c)
      BY <3>1 DEF Known
    <3>3. ClientOk(c)
      BY DEF IInv
    <3> QED BY <1>1, <2>1, <3>1, <3>2, <3>3 DEF ClientOk, Connected, ReplyTrue, Counted, Routed
  <2>2. CASE d # c
    BY <1>1, <2>2, ClientFrame DEF IInv, ClientOk, Connected, TypeOK
  <2> QED BY <2>1, <2>2
<1>5. ASSUME NEW s \in Sessions
      PROVE  Mailbox(s)'
  BY <1>1, MailboxFrame DEF IInv
<1> QED BY <1>2, <1>3, <1>4, <1>5 DEF IInv

LEMMA CallRemoteIInv ==
  ASSUME IInv, NEW c \in Clients, NEW q \in Calls, CallRemote(c, q)
  PROVE  IInv'
<1>0. TypeOK /\ ClientOk(c)
  BY DEF IInv
<1>1. PICK s \in Sessions :
        /\ \/ sock[c] = s /\ UNCHANGED status
           \/ /\ sock[c] = None /\ status[s] = "free"
              /\ status' = [status EXCEPT ![s] = "queued"]
        /\ sock' = [sock EXCEPT ![c] = s]
        /\ request' = [request EXCEPT ![s] = IF status[s] = "dropped" THEN None ELSE q]
  BY DEF CallRemote, SendOn
<1>2. /\ cpc[c] = "idle"
      /\ call' = [call EXCEPT ![c] = q]
      /\ cpc' = [cpc EXCEPT ![c] = "waiting"]
      /\ ret' = [ret EXCEPT ![c] = None]
      /\ UNCHANGED <<min_fd, opened_fd, local, reply, table, files>>
  BY DEF CallRemote
<1>3. TypeOK'
  <2>1. request' \in [Sessions -> Calls \cup {None, Partial}]
    BY <1>0, <1>1 DEF TypeOK
  <2>2. sock' \in [Clients -> Sessions \cup {None}]
    BY <1>0, <1>1 DEF TypeOK
  <2>3. status' \in [Sessions -> {"free", "queued", "running", "dropped"}]
    BY <1>0, <1>1 DEF TypeOK
  <2> QED BY <1>0, <1>2, <2>1, <2>2, <2>3 DEF TypeOK
<1>4. s # None /\ sock' = [sock EXCEPT ![c] = s]
  BY <1>0, <1>1, TrfoAssumption DEF TypeOK
<1>5. \A d \in Clients \ {c} : sock[d] # s
  BY <1>1, <1>4 DEF IInv, Private, ClientOk, Connected
<1>6. Private'
  BY <1>0, <1>4, <1>5 DEF IInv, Private, TypeOK
<1>7. request[s] = None /\ reply[s] = None /\ FilesOf(c) = Open(table[s])
  <2>1. CASE sock[c] = s
    BY <2>1, <1>0, <1>2, <1>4 DEF ClientOk, Connected, FilesOf
  <2>2. CASE sock[c] = None /\ status[s] = "free"
    BY <2>2 DEF IInv, Mailbox, FilesOf
  <2> QED BY <1>1, <2>1, <2>2
<1>8. ASSUME NEW d \in Clients
      PROVE  ClientOk(d)'
  <2>1. CASE d = c
    <3>1. /\ cpc'[c] = "waiting" /\ sock'[c] = s /\ call'[c] = q /\ q # None
          /\ status'[s] # "free" /\ request'[s] \in {None, q}
          /\ UNCHANGED <<min_fd, opened_fd>>
      BY <1>0, <1>1, <1>2, <1>4, MessageAssumption DEF TypeOK, ClientOk, Connected
    <3>2. FilesOf(c)' = FilesOf(c) /\ Arrived(c)' = None /\ Arrived(c) = None
      BY <1>2, <1>4, <1>7, <3>1 DEF FilesOf, Arrived, Open
    <3>3. Known(c)' = Known(c)
      BY <3>2 DEF Known
    <3> QED BY <1>0, <1>4, <2>1, <3>1, <3>2, <3>3
            DEF ClientOk, Connected, ReplyTrue, Counted, Routed
  <2>2. CASE d # c
    <3>1. sock[d] # s /\ ClientOk(d)
      BY <2>2, <1>5 DEF IInv
    <3>2. sock[d] # None => status'[sock[d]] = status[sock[d]] /\ request'[sock[d]] = request[sock[d]]
      BY <1>0, <1>1, <3>1 DEF TypeOK
    <3> QED BY <2>2, <1>0, <1>2, <1>4, <3>1, <3>2, ClientFrame DEF TypeOK, ClientOk, Connected
  <2> QED BY <2>1, <2>2
<1>9. ASSUME NEW t \in Sessions
      PROVE  Mailbox(t)'
  <2>1. CASE t = s
    <3>1. request'[s] = IF status[s] = "dropped" THEN None ELSE q
      BY <1>0, <1>1 DEF TypeOK
    <3>2. status'[s] = IF sock[c] = s THEN status[s] ELSE "queued"
      BY <1>0, <1>1, <1>4 DEF TypeOK
    <3>3. sock[c] = s => status[s] # "free"
      BY <1>0, <1>4 DEF ClientOk, Connected
    <3>4. sock[c] # s => status[s] = "free"
      BY <1>1
    <3> QED BY <2>1, <1>2, <1>7, <3>1, <3>2, <3>3, <3>4 DEF IInv, Mailbox, Open
  <2>2. CASE t # s
    BY <2>2, <1>0, <1>1, <1>2, MailboxFrame DEF IInv, TypeOK
  <2> QED BY <2>1, <2>2
<1> QED BY <1>3, <1>6, <1>8, <1>9 DEF IInv

LEMMA ExitIInv ==
  ASSUME IInv, NEW c \in Clients, Exit(c)
  PROVE  IInv'
<1>1. /\ cpc' = [cpc EXCEPT ![c] = "off"]
      /\ sock' = [sock EXCEPT ![c] = None]
      /\ min_fd' = [min_fd EXCEPT ![c] = INT_MAX]
      /\ opened_fd' = [opened_fd EXCEPT ![c] = 0]
      /\ call' = [call EXCEPT ![c] = None]
      /\ ret' = [ret EXCEPT ![c] = None]
      /\ local' = [local EXCEPT ![c] = {}]
      /\ UNCHANGED <<status, request, reply, table, files>>
  BY DEF Exit, Gone
<1>2. TypeOK
  BY DEF IInv
<1>3. TypeOK'
  BY <1>1, <1>2, TrfoAssumption DEF TypeOK
<1>4. Private'
  BY <1>1, <1>2 DEF IInv, Private, TypeOK
<1>5. ASSUME NEW d \in Clients
      PROVE  ClientOk(d)'
  <2>1. CASE d = c
    <3>1. cpc'[c] = "off" /\ sock'[c] = None /\ min_fd'[c] = INT_MAX /\ opened_fd'[c] = 0
      BY <1>1, <1>2 DEF TypeOK
    <3>2. Known(c)' = {} /\ Arrived(c)' = None
      BY <3>1 DEF Known, Arrived, FilesOf
    <3>3. \A e \in LocalFds : e < INT_MAX
      BY TrfoAssumption
    <3> QED BY <2>1, <3>1, <3>2, <3>3, FS_EmptySet
            DEF ClientOk, Connected, ReplyTrue, Counted, Routed
  <2>2. CASE d # c
    BY <2>2, <1>1, <1>2, ClientFrame DEF IInv, TypeOK, ClientOk, Connected
  <2> QED BY <2>1, <2>2
<1>6. ASSUME NEW t \in Sessions
      PROVE  Mailbox(t)'
  BY <1>1, MailboxFrame DEF IInv
<1> QED BY <1>3, <1>4, <1>5, <1>6 DEF IInv

(* A program killed within a frame was between calls, with nothing under   *)
(* way in its connection.                                                  *)
LEMMA KilledSendingFacts ==
  ASSUME IInv, NEW c \in Clients, KilledSending(c)
  PROVE  \E s \in Sessions :
           /\ s # None /\ sock[c] \in {s, None} /\ \A d \in Clients \ {c} : sock[d] # s
           /\ request[s] = None /\ reply[s] = None
           /\ request' = [request EXCEPT ![s] = IF status[s] = "dropped" THEN None ELSE Partial]
           /\ status' = [status EXCEPT ![s] = IF status[s] = "free" THEN "queued" ELSE status[s]]
           /\ sock[c] = None => status[s] = "free"
<1>1. TypeOK /\ ClientOk(c) /\ cpc[c] = "idle"
  BY DEF IInv, KilledSending
<1>2. PICK s \in Sessions :
        /\ \/ sock[c] = s /\ UNCHANGED status
           \/ /\ sock[c] = None /\ status[s] = "free"
              /\ status' = [status EXCEPT ![s] = "queued"]
        /\ request' = [request EXCEPT ![s] = IF status[s] = "dropped" THEN None ELSE Partial]
  BY DEF KilledSending, SendOn
<1>3. s # None
  BY TrfoAssumption
<1>4. CASE sock[c] = s
  <2>1. status[s] # "free" /\ status' = status /\ request[s] = None /\ reply[s] = None
    BY <1>1, <1>2, <1>3, <1>4 DEF ClientOk, Connected
  <2>2. status' = [status EXCEPT ![s] = IF status[s] = "free" THEN "queued" ELSE status[s]]
    BY <1>1, <2>1 DEF TypeOK
  <2> QED BY <1>2, <1>3, <1>4, <2>1, <2>2 DEF IInv, Private
<1>5. CASE sock[c] = None
  <2>1. status[s] = "free" /\ status' = [status EXCEPT ![s] = "queued"]
    BY <1>2, <1>3, <1>5
  <2>2. request[s] = None /\ reply[s] = None /\ \A d \in Clients : sock[d] # s
    BY <1>3, <2>1 DEF IInv, Mailbox, ClientOk, Connected
  <2> QED BY <1>2, <1>3, <1>5, <2>1, <2>2
<1> QED BY <1>2, <1>4, <1>5

LEMMA KilledSendingIInv ==
  ASSUME IInv, NEW c \in Clients, KilledSending(c)
  PROVE  IInv'
<1>1. /\ cpc' = [cpc EXCEPT ![c] = "off"]
      /\ sock' = [sock EXCEPT ![c] = None]
      /\ min_fd' = [min_fd EXCEPT ![c] = INT_MAX]
      /\ opened_fd' = [opened_fd EXCEPT ![c] = 0]
      /\ call' = [call EXCEPT ![c] = None]
      /\ ret' = [ret EXCEPT ![c] = None]
      /\ local' = [local EXCEPT ![c] = {}]
      /\ UNCHANGED <<reply, table, files>>
  BY DEF KilledSending, Gone
<1>2. PICK s \in Sessions :
        /\ s # None /\ sock[c] \in {s, None} /\ \A d \in Clients \ {c} : sock[d] # s
        /\ request[s] = None /\ reply[s] = None
        /\ request' = [request EXCEPT ![s] = IF status[s] = "dropped" THEN None ELSE Partial]
        /\ status' = [status EXCEPT ![s] = IF status[s] = "free" THEN "queued" ELSE status[s]]
        /\ sock[c] = None => status[s] = "free"
  BY KilledSendingFacts
<1>3. TypeOK
  BY DEF IInv
<1>4. /\ status'[s] = IF status[s] = "free" THEN "queued" ELSE status[s]
      /\ request'[s] = IF status[s] = "dropped" THEN None ELSE Partial
      /\ \A t \in Sessions \ {s} : status'[t] = status[t] /\ request'[t] = request[t]
      /\ status' \in [Sessions -> {"free", "queued", "running", "dropped"}]
      /\ request' \in [Sessions -> Calls \cup {None, Partial}]
  BY <1>2, <1>3 DEF TypeOK
<1>5. TypeOK'
  BY <1>1, <1>3, <1>4, TrfoAssumption DEF TypeOK
<1>6. Private'
  BY <1>1, <1>3 DEF IInv, Private, TypeOK
<1>7. ASSUME NEW d \in Clients
      PROVE  ClientOk(d)'
  <2>1. CASE d = c
    <3>1. cpc'[c] = "off" /\ sock'[c] = None /\ min_fd'[c] = INT_MAX /\ opened_fd'[c] = 0
      BY <1>1, <1>3 DEF TypeOK
    <3>2. Known(c)' = {} /\ Arrived(c)' = None
      BY <3>1 DEF Known, Arrived, FilesOf
    <3>3. \A e \in LocalFds : e < INT_MAX
      BY TrfoAssumption
    <3> QED BY <2>1, <3>1, <3>2, <3>3, FS_EmptySet
            DEF ClientOk, Connected, ReplyTrue, Counted, Routed
  <2>2. CASE d # c
    <3>1. sock[d] # None =>
            status'[sock[d]] = status[sock[d]] /\ request'[sock[d]] = request[sock[d]]
      BY <2>2, <1>2, <1>3, <1>4 DEF TypeOK
    <3> QED BY <2>2, <1>1, <1>3, <3>1, ClientFrame DEF IInv, TypeOK, ClientOk, Connected
  <2> QED BY <2>1, <2>2
<1>8. ASSUME NEW t \in Sessions
      PROVE  Mailbox(t)'
  <2>1. CASE t = s
    BY <2>1, <1>1, <1>2, <1>4 DEF IInv, Mailbox, Open
  <2>2. CASE t # s
    BY <2>2, <1>1, <1>4, MailboxFrame DEF IInv
  <2> QED BY <2>1, <2>2
<1> QED BY <1>5, <1>6, <1>7, <1>8 DEF IInv

LEMMA AcceptIInv ==
  ASSUME IInv, NEW s \in Sessions, Accept(s)
  PROVE  IInv'
<1>1. /\ status[s] = "queued"
      /\ UNCHANGED <<cpc, sock, min_fd, opened_fd, call, ret, local, reply, table, files>>
  BY DEF Accept, Acceptable
<1>2. PICK v \in {"running", "dropped"} :
        /\ status' = [status EXCEPT ![s] = v]
        /\ request' = IF v = "running" THEN request ELSE [request EXCEPT ![s] = None]
  BY DEF Accept
<1>3. TypeOK
  BY DEF IInv
<1>4. /\ status' \in [Sessions -> {"free", "queued", "running", "dropped"}]
      /\ request' \in [Sessions -> Calls \cup {None, Partial}]
      /\ status'[s] = v /\ request'[s] \in {request[s], None}
      /\ v = "dropped" => request'[s] = None
      /\ \A t \in Sessions \ {s} : status'[t] = status[t] /\ request'[t] = request[t]
  BY <1>2, <1>3 DEF TypeOK
<1>5. TypeOK'
  BY <1>1, <1>3, <1>4 DEF TypeOK
<1>6. Private'
  BY <1>1 DEF IInv, Private
<1>7. ASSUME NEW d \in Clients
      PROVE  ClientOk(d)'
  <2>1. ClientOk(d) /\ sock[d] \in Sessions \cup {None}
    BY <1>3 DEF IInv, TypeOK
  <2>2. sock[d] # None =>
          status'[sock[d]] # "free" /\ request'[sock[d]] \in {request[sock[d]], None}
    BY <1>4, <2>1 DEF ClientOk, Connected
  <2> QED BY <1>1, <2>1, <2>2, ClientFrame
<1>8. ASSUME NEW t \in Sessions
      PROVE  Mailbox(t)'
  <2>1. CASE t = s
    BY <2>1, <1>1, <1>4 DEF IInv, Mailbox, Open
  <2>2. CASE t # s
    BY <2>2, <1>1, <1>4, MailboxFrame DEF IInv
  <2> QED BY <2>1, <2>2
<1> QED BY <1>5, <1>6, <1>7, <1>8 DEF IInv

LEMMA EndSessionIInv ==
  ASSUME IInv, NEW s \in Sessions, EndSession(s)
  PROVE  IInv'
<1>1. /\ request[s] = None /\ \A d \in Clients : sock[d] # s
      /\ status' = [status EXCEPT ![s] = "free"]
      /\ reply' = [reply EXCEPT ![s] = None]
      /\ table' = [table EXCEPT ![s] = EmptyTable(Fds)]
      /\ UNCHANGED <<cpc, sock, min_fd, opened_fd, call, ret, local, request, files>>
  BY DEF EndSession, Ended, Attached
<1>2. TypeOK
  BY DEF IInv
<1>3. EmptyTable(Fds) \in [Fds -> Paths \cup {None}] /\ Open(EmptyTable(Fds)) = {}
  BY DEF EmptyTable, Open
<1>4. TypeOK'
  BY <1>1, <1>2, <1>3 DEF TypeOK
<1>5. Private'
  BY <1>1 DEF IInv, Private
<1>6. ASSUME NEW d \in Clients
      PROVE  ClientOk(d)'
  BY <1>1, <1>2, ClientFrame DEF IInv, TypeOK, ClientOk, Connected
<1>7. ASSUME NEW t \in Sessions
      PROVE  Mailbox(t)'
  <2>1. CASE t = s
    BY <2>1, <1>1, <1>2, <1>3 DEF TypeOK, Mailbox, Open
  <2>2. CASE t # s
    BY <2>2, <1>1, <1>2, MailboxFrame DEF IInv, TypeOK
  <2> QED BY <2>1, <2>2
<1> QED BY <1>4, <1>5, <1>6, <1>7 DEF IInv

LEMMA HandleIInv ==
  ASSUME IInv, NEW s \in Sessions, Handle(s)
  PROVE  IInv'
<1> DEFINE q == request[s]
           m == ReplyTo(Unpacked(q), table[s], files)
           packed == IF q.op = "open" THEN [m EXCEPT !.r = pack_fd(@)] ELSE m
           tb == TableAfter(Unpacked(q), m, table[s])
<1>1. TypeOK /\ table[s] \in [Fds -> Paths \cup {None}] /\ files \in SUBSET Paths
  BY DEF IInv, TypeOK
<1>2. q \in Calls /\ q # None /\ status[s] = "running"
  BY <1>1 DEF Handle, TypeOK
<1>3. /\ table' = [table EXCEPT ![s] = tb]
      /\ files' = FilesAfter(Unpacked(q), m, files)
      /\ reply' = [reply EXCEPT ![s] = packed]
      /\ request' = [request EXCEPT ![s] = None]
      /\ UNCHANGED <<cpc, sock, min_fd, opened_fd, call, ret, local, status>>
  <2>1. Unpacked(q).op = q.op
    BY <1>2, UnpackedFields
  <2> QED BY <2>1 DEF Handle, Unpacked
<1>4. /\ m \in Replies
      /\ m.r >= 0 /\ q.op = "open" =>
           /\ m.r \in Fds \ Open(table[s])
           /\ tb = [table[s] EXCEPT ![m.r] = q.path]
      /\ m.r >= 0 /\ q.op = "close" =>
           /\ m.r = 0 /\ unpack_fd(q.fd) \in Open(table[s])
           /\ tb = [table[s] EXCEPT ![unpack_fd(q.fd)] = None]
      /\ m.r < 0 \/ q.op \notin {"open", "close"} => tb = table[s]
      /\ files' \in SUBSET Paths
  BY <1>1, <1>2, <1>3, KernelFacts
<1>5. q.op = "open" => q.path \in Paths
  BY <1>2, CallFields DEF PathOps
<1> HIDE DEF m, tb, q
<1>6. packed \in Replies /\ packed.r \in Int
      /\ (q.op # "open" \/ m.r < 0 => packed = m)
      /\ (q.op = "open" /\ m.r >= 0 => packed.r = m.r + FD_OFFSET)
  <2>1. m.r \in Int /\ m = [r |-> m.r, err |-> m.err, file |-> m.file]
    BY <1>4 DEF Replies
  <2> QED BY <1>4, <2>1, TrfoAssumption DEF pack_fd, Replies
<1> HIDE DEF packed
<1>7. tb \in [Fds -> Paths \cup {None}] /\ m.r \in Int
  BY <1>1, <1>4, <1>5 DEF Replies
<1>8. TypeOK'
  BY <1>1, <1>3, <1>4, <1>6, <1>7 DEF TypeOK
<1>9. Private'
  BY <1>3 DEF IInv, Private
<1>10. reply'[s] = packed /\ table'[s] = tb /\ request'[s] = None /\ packed # None
  BY <1>1, <1>3, <1>6, MessageAssumption DEF TypeOK
<1>11. ASSUME NEW c \in Clients
       PROVE  ClientOk(c)'
  <2>1. CASE sock[c] = s
    <3>1. cpc[c] = "waiting" /\ call[c] = q /\ s # None /\ cpc[c] \in {"off", "idle", "waiting"}
      BY <1>1, <1>2, <2>1, TrfoAssumption DEF IInv, ClientOk, Connected, TypeOK, q
    <3>2. Arrived(c) = None /\ Arrived(c)' = packed
      BY <1>2, <1>3, <1>10, <2>1, <3>1 DEF IInv, Mailbox, Arrived, q
    <3>3. FilesOf(c) = Open(table[s]) /\ FilesOf(c)' = Open(tb) /\ Known(c) = FilesOf(c)
      BY <1>3, <1>10, <2>1, <3>1, <3>2 DEF FilesOf, Known, Open
    <3>4. /\ Known(c)' = Known(c)
          /\ ReplyTrue(c)'
      <4>1. CASE q.op = "open" /\ m.r >= 0
        <5>1. packed.r >= 0 /\ unpack_fd(packed.r) = m.r /\ packed.r \in FileFds
          BY <1>4, <1>6, <4>1, PosixAssumption, TrfoAssumption DEF unpack_fd, FileFds
        <5>2. Open(tb) = Open(table[s]) \cup {m.r} /\ m.r \notin Open(table[s])
          BY <1>1, <1>4, <1>5, <1>7, <4>1, PosixAssumption DEF Open
        <5> QED BY <1>3, <1>10, <3>1, <3>2, <3>3, <4>1, <5>1, <5>2 DEF Known, ReplyTrue
      <4>2. CASE q.op = "close" /\ m.r >= 0
        <5>1. packed.r = 0 /\ packed = m
          BY <1>4, <1>6, <4>2
        <5>2. /\ Open(tb) = Open(table[s]) \ {unpack_fd(q.fd)}
              /\ unpack_fd(q.fd) \in Open(table[s])
              /\ unpack_fd(q.fd) \in Fds
          BY <1>1, <1>4, <1>7, <4>2 DEF Open
        <5> QED BY <1>3, <1>10, <3>1, <3>2, <3>3, <4>2, <5>1, <5>2 DEF Known, ReplyTrue, unpack_fd
      <4>3. CASE m.r < 0 \/ q.op \notin {"open", "close"}
        <5>1. tb = table[s] /\ packed = m
          BY <1>4, <1>6, <4>3
        <5> QED BY <1>3, <1>7, <1>10, <3>1, <3>2, <3>3, <4>3, <5>1 DEF Known, ReplyTrue
      <4>4. m.r >= 0 \/ m.r < 0
        BY <1>7
      <4> QED BY <4>1, <4>2, <4>3, <4>4
    <3>5. Connected(c)'
      BY <1>3, <1>10, <2>1, <3>1 DEF IInv, ClientOk, Connected
    <3> QED BY <1>3, <3>4, <3>5 DEF IInv, ClientOk, Counted, Routed
  <2>2. CASE sock[c] # s
    BY <2>2, <1>1, <1>3, ClientFrame DEF IInv, TypeOK, ClientOk, Connected
  <2> QED BY <2>1, <2>2
<1>12. ASSUME NEW t \in Sessions
       PROVE  Mailbox(t)'
  <2>1. CASE t = s
    BY <2>1, <1>2, <1>3, <1>10 DEF Mailbox
  <2>2. CASE t # s
    BY <2>2, <1>1, <1>3, MailboxFrame DEF IInv, TypeOK
  <2> QED BY <2>1, <2>2
<1> QED BY <1>8, <1>9, <1>11, <1>12 DEF IInv

(* What Receive leaves of a program, and that it only closes a connection  *)
(* whose session has no file open.                                         *)
LEMMA ReceiveFacts ==
  ASSUME IInv, NEW c \in Clients, Receive(c)
  PROVE  /\ sock[c] \in Sessions /\ status[sock[c]] = "running" /\ sock[c] # None
         /\ cpc'[c] = "idle" /\ call' = call
         /\ reply' = [reply EXCEPT ![sock[c]] = None] /\ request[sock[c]] = None
         /\ sock' \in {sock, [sock EXCEPT ![c] = None]}
         /\ sock'[c] = None => FilesOf(c) = {}
         /\ opened_fd'[c] = Cardinality(FilesOf(c))
         /\ min_fd'[c] \in Nat
         /\ \A f \in FilesOf(c) : f + FD_OFFSET >= min_fd'[c]
         /\ \A d \in LocalFds : d < min_fd'[c]
<1> DEFINE s == sock[c]
           q == call[c]
           m == reply[s]
<1>1. TypeOK /\ ClientOk(c) /\ cpc[c] = "waiting" /\ m # None
  BY DEF IInv, Receive
<1>2. s \in Sessions /\ s # None /\ q \in Calls /\ m \in Replies /\ m.r \in Int
  BY <1>1 DEF TypeOK, ClientOk, Connected, Replies
<1>3. status[s] = "running" /\ request[s] = None
  BY <1>1, <1>2 DEF IInv, Mailbox
<1>4. Arrived(c) = m /\ FilesOf(c) = Open(table[s])
  BY <1>1, <1>2 DEF Arrived, FilesOf
<1>5. FilesOf(c) \subseteq Fds /\ IsFiniteSet(FilesOf(c)) /\ Cardinality(FilesOf(c)) \in Nat
  <2>1. FilesOf(c) \subseteq Fds
    BY <1>1, <1>2, <1>4 DEF TypeOK, Open
  <2> QED BY <2>1, PosixAssumption, FS_Subset, FS_CardinalityType
<1> DEFINE opens == Opened(q, m, opened_fd[c])
<1>6. /\ min_fd' = [min_fd EXCEPT ![c] = LowestFd(q, m, @)]
      /\ opened_fd' = [opened_fd EXCEPT ![c] = opens]
      /\ sock' = [sock EXCEPT ![c] = IF q.op = "close" /\ m.r = 0 /\ opens = 0 THEN None ELSE @]
      /\ reply' = [reply EXCEPT ![s] = None]
      /\ cpc' = [cpc EXCEPT ![c] = "idle"]
      /\ call' = call
  BY DEF Receive
<1> HIDE DEF s, q, m
<1>7. opens = Cardinality(FilesOf(c))
  <2>1. CASE m.r >= 0 /\ q.op = "open"
    <3>1. Known(c) = FilesOf(c) \ {unpack_fd(m.r)} /\ unpack_fd(m.r) \in FilesOf(c)
      BY <1>1, <1>4, <2>1 DEF Known, ClientOk, ReplyTrue, q
    <3>2. Cardinality(Known(c)) = Cardinality(FilesOf(c)) - 1
      BY <1>5, <3>1, FS_RemoveElement
    <3> QED BY <1>1, <1>5, <2>1, <3>2 DEF ClientOk, Counted, Opened
  <2>2. CASE m.r >= 0 /\ q.op = "close"
    <3>1. /\ m.r = 0 /\ Known(c) = FilesOf(c) \cup {unpack_fd(q.fd)}
          /\ unpack_fd(q.fd) \notin FilesOf(c)
      BY <1>1, <1>4, <2>2 DEF Known, ClientOk, ReplyTrue, q
    <3>2. Cardinality(Known(c)) = Cardinality(FilesOf(c)) + 1
      BY <1>5, <3>1, FS_AddElement
    <3> QED BY <1>1, <1>5, <2>2, <3>1, <3>2 DEF ClientOk, Counted, Opened
  <2>3. CASE m.r < 0 \/ q.op \notin {"open", "close"}
    <3>1. Known(c) = FilesOf(c)
      BY <1>1, <1>2, <1>4, <2>3 DEF Known, q
    <3> QED BY <1>1, <1>2, <2>3, <3>1 DEF ClientOk, Counted, Opened
  <2> QED BY <1>2, <2>1, <2>2, <2>3
<1>8. sock'[c] = None => FilesOf(c) = {}
  BY <1>1, <1>2, <1>5, <1>6, <1>7, FS_EmptySet DEF TypeOK, s
<1>9. sock' \in {sock, [sock EXCEPT ![c] = None]}
  BY <1>1, <1>6 DEF TypeOK
<1>10. /\ min_fd'[c] \in Nat
       /\ \A f \in FilesOf(c) : f + FD_OFFSET >= min_fd'[c]
       /\ \A d \in LocalFds : d < min_fd'[c]
  <2>1. CASE q.op = "open" /\ m.r >= 0
    <3>1. min_fd'[c] = IF m.r < min_fd[c] THEN m.r ELSE min_fd[c]
      BY <1>1, <1>6, <2>1 DEF TypeOK, LowestFd
    <3>2. /\ m.r \in FileFds /\ unpack_fd(m.r) + FD_OFFSET = m.r
          /\ Known(c) = FilesOf(c) \ {unpack_fd(m.r)}
      BY <1>1, <1>2, <1>4, <2>1, TrfoAssumption DEF ClientOk, ReplyTrue, Known, unpack_fd, q
    <3>3. \A d \in LocalFds : d < m.r
      BY <3>2, PosixAssumption, TrfoAssumption DEF FileFds
    <3>4. min_fd[c] \in Nat /\ m.r \in Nat
      BY <1>1, <1>2, <2>1 DEF TypeOK
    <3>5. min_fd'[c] \in Nat /\ min_fd'[c] <= m.r /\ min_fd'[c] <= min_fd[c]
      BY <3>1, <3>4
    <3>6. ASSUME NEW f \in FilesOf(c)
          PROVE  f + FD_OFFSET >= min_fd'[c]
      <4>1. f + FD_OFFSET \in Nat
        <5>1. f \in Nat
          BY <1>5, PosixAssumption
        <5>2. FD_OFFSET \in Nat
          BY TrfoAssumption
        <5> QED BY <5>1, <5>2
      <4>2. CASE f = unpack_fd(m.r)
        BY <3>2, <3>4, <3>5, <4>2
      <4>3. CASE f \in Known(c)
        BY <1>1, <3>4, <3>5, <4>1, <4>3 DEF ClientOk, Routed
      <4> QED BY <3>2, <4>2, <4>3
    <3>7. ASSUME NEW d \in LocalFds
          PROVE  d < min_fd'[c]
      BY <1>1, <3>1, <3>3 DEF ClientOk, Routed
    <3> QED BY <3>5, <3>6, <3>7
  <2>2. CASE ~(q.op = "open" /\ m.r >= 0)
    <3>1. min_fd'[c] = min_fd[c] /\ min_fd[c] \in Nat
      BY <1>1, <1>6, <2>2 DEF TypeOK, LowestFd
    <3>2. FilesOf(c) \subseteq Known(c)
      BY <1>4, <2>2 DEF Known, q
    <3> QED BY <1>1, <3>1, <3>2 DEF ClientOk, Routed
  <2> QED BY <2>1, <2>2
<1>11. cpc'[c] = "idle" /\ call' = call /\ opened_fd'[c] = Cardinality(FilesOf(c))
  BY <1>1, <1>6, <1>7 DEF TypeOK
<1> QED BY <1>2, <1>3, <1>6, <1>8, <1>9, <1>10, <1>11 DEF s

LEMMA ReceiveIInv ==
  ASSUME IInv, NEW c \in Clients, Receive(c)
  PROVE  IInv'
<1> DEFINE s == sock[c]
<1>1. TypeOK
  BY DEF IInv
<1>2. /\ s \in Sessions /\ status[s] = "running" /\ s # None
      /\ cpc'[c] = "idle" /\ call' = call
      /\ reply' = [reply EXCEPT ![s] = None] /\ request[s] = None
      /\ sock' \in {sock, [sock EXCEPT ![c] = None]}
      /\ sock'[c] = None => FilesOf(c) = {}
      /\ opened_fd'[c] = Cardinality(FilesOf(c))
      /\ min_fd'[c] \in Nat
      /\ \A f \in FilesOf(c) : f + FD_OFFSET >= min_fd'[c]
      /\ \A d \in LocalFds : d < min_fd'[c]
  BY ReceiveFacts
<1>3. /\ cpc' = [cpc EXCEPT ![c] = cpc'[c]]
      /\ min_fd' = [min_fd EXCEPT ![c] = min_fd'[c]]
      /\ opened_fd' = [opened_fd EXCEPT ![c] = opened_fd'[c]]
      /\ ret' = [ret EXCEPT ![c] = Told(call[c], reply[s])]
      /\ UNCHANGED <<local, status, request, table, files>>
  BY <1>1 DEF Receive, TypeOK
<1>4. Told(call[c], reply[s]) \in Replies
  <2>1. reply[s] \in Replies
    BY <1>1, <1>2 DEF Receive, TypeOK
  <2> QED BY <2>1 DEF Told, Replies
<1>5. opened_fd'[c] \in Nat
  <2>1. FilesOf(c) \subseteq Fds
    BY <1>1, <1>2 DEF TypeOK, FilesOf, Open
  <2> QED BY <1>2, <2>1, PosixAssumption, FS_Subset, FS_CardinalityType
<1>6. TypeOK'
  <2>1. cpc' \in [Clients -> {"off", "idle", "waiting"}]
    BY <1>1, <1>2, <1>3 DEF TypeOK
  <2>2. min_fd' \in [Clients -> Nat] /\ opened_fd' \in [Clients -> Nat]
    BY <1>1, <1>2, <1>3, <1>5 DEF TypeOK
  <2>3. call' \in [Clients -> Calls \cup {None}] /\ ret' \in [Clients -> Replies \cup {None}]
    BY <1>1, <1>2, <1>3, <1>4 DEF TypeOK
  <2>4. sock' \in [Clients -> Sessions \cup {None}]
    BY <1>1, <1>2 DEF TypeOK
  <2>5. reply' \in [Sessions -> Replies \cup {None}]
    BY <1>1, <1>2 DEF TypeOK
  <2> QED BY <1>1, <1>3, <2>1, <2>2, <2>3, <2>4, <2>5 DEF TypeOK
<1>7. /\ \A d \in Clients \ {c} : sock'[d] = sock[d] /\ sock[d] # s
      /\ sock'[c] \in {s, None}
  BY <1>1, <1>2 DEF IInv, Private, TypeOK
<1>8. Private'
  BY <1>2, <1>7 DEF IInv, Private
<1>9. ASSUME NEW d \in Clients
      PROVE  ClientOk(d)'
  <2>1. CASE d = c
    <3>1. Arrived(c)' = None /\ reply'[s] = None
      BY <1>1, <1>2 DEF Arrived, TypeOK
    <3>2. FilesOf(c)' = FilesOf(c)
      BY <1>2, <1>3, <1>7 DEF FilesOf, Open
    <3>3. Known(c)' = FilesOf(c)
      BY <3>1, <3>2 DEF Known
    <3> QED BY <1>2, <1>3, <1>7, <2>1, <3>1, <3>3
            DEF ClientOk, Connected, ReplyTrue, Counted, Routed
  <2>2. CASE d # c
    BY <2>2, <1>1, <1>2, <1>3, <1>7, ClientFrame DEF IInv, TypeOK, ClientOk, Connected
  <2> QED BY <2>1, <2>2
<1>10. ASSUME NEW t \in Sessions
       PROVE  Mailbox(t)'
  <2>1. CASE t = s
    BY <2>1, <1>1, <1>2, <1>3 DEF TypeOK, Mailbox
  <2>2. CASE t # s
    BY <2>2, <1>1, <1>2, <1>3, MailboxFrame DEF IInv, TypeOK
  <2> QED BY <2>1, <2>2
<1> QED BY <1>6, <1>8, <1>9, <1>10 DEF IInv

LEMMA StepIInv ==
  ASSUME IInv, [Next]_vars
  PROVE  IInv'
<1>1. ASSUME NEW c \in Clients, NEW q \in Calls,
             CallLocal(c, q) \/ CallRefused(c, q) \/ CallRemote(c, q)
      PROVE  IInv'
  BY <1>1, AtOnceIInv, CallRemoteIInv
<1>2. CASE UNCHANGED vars
  <2>1. TypeOK' /\ Private'
    BY <1>2 DEF IInv, TypeOK, Private, vars
  <2>2. ASSUME NEW c \in Clients
        PROVE  ClientOk(c)'
    BY <1>2, ClientFrame DEF IInv, ClientOk, Connected, vars
  <2>3. ASSUME NEW s \in Sessions
        PROVE  Mailbox(s)'
    BY <1>2, MailboxFrame DEF IInv, vars
  <2> QED BY <2>1, <2>2, <2>3 DEF IInv
<1> QED BY <1>1, <1>2, StartIInv, ReceiveIInv, ExitIInv, KilledSendingIInv, AcceptIInv,
        HandleIInv, EndSessionIInv
        DEF Next

-----------------------------------------------------------------------------
(* The theorems *)

(* The inductive invariant holds in every reachable state.                 *)
THEOREM Inductive == Spec => []IInv
<1>1. IInv /\ [Next]_vars => IInv'
  BY StepIInv
<1> QED BY InitIInv, <1>1, PTL DEF Spec

(* Every variable keeps its type; in particular opened_fd never falls      *)
(* below zero, and replies carry only descriptors the kernel handed out.   *)
THEOREM TypeCorrect == Spec => []TypeOK
<1>1. IInv => TypeOK
  BY DEF IInv
<1> QED BY Inductive, <1>1, PTL

(* opened_fd is the number of files the session has open, but for the      *)
(* reply on its way.                                                       *)
THEOREM CountsOpenFiles == Spec => []OpenCount
<1>1. IInv => OpenCount
  BY DEF IInv, ClientOk, OpenCount
<1> QED BY Inductive, <1>1, PTL

(* min_fd separates the descriptors of the server from local ones.         *)
THEOREM RoutesByNumber == Spec => []Routing
<1>1. IInv => Routing
  BY DEF IInv, ClientOk, Routing
<1> QED BY Inductive, <1>1, PTL

(* The library never disconnects a running program from open files.        *)
THEOREM DisconnectsOnlyIdle == Spec => DisconnectsIdle
<1>1. ASSUME IInv, [Next]_vars, NEW c \in Clients,
             sock[c] # None, sock'[c] = None, cpc'[c] # "off"
      PROVE  FilesOf(c) = {}
  <2> USE <1>1
  <2>0. TypeOK
    BY DEF IInv
  <2>1. ASSUME NEW d \in Clients, Start(d)
        PROVE  FALSE
    BY <2>0, <2>1, TrfoAssumption DEF Start, TypeOK
  <2>2. ASSUME NEW d \in Clients, NEW q \in Calls, CallLocal(d, q) \/ CallRefused(d, q)
        PROVE  FALSE
    BY <2>2 DEF CallLocal, CallRefused
  <2>3. ASSUME NEW d \in Clients, NEW q \in Calls, CallRemote(d, q)
        PROVE  FALSE
    BY <2>0, <2>3, TrfoAssumption DEF CallRemote, TypeOK
  <2>4. ASSUME NEW d \in Clients, Receive(d)
        PROVE  FilesOf(c) = {}
    <3>1. CASE d = c
      BY <2>4, <3>1, ReceiveFacts
    <3>2. CASE d # c
      BY <2>0, <2>4, <3>2 DEF Receive, TypeOK
    <3> QED BY <3>1, <3>2
  <2>5. ASSUME NEW d \in Clients, Exit(d) \/ KilledSending(d)
        PROVE  FALSE
    <3>1. d # c
      BY <2>0, <2>5 DEF Exit, KilledSending, Gone, TypeOK
    <3> QED BY <2>0, <2>5, <3>1 DEF Exit, KilledSending, Gone, TypeOK
  <2>6. ASSUME NEW s \in Sessions, Accept(s) \/ Handle(s) \/ EndSession(s)
        PROVE  FALSE
    BY <2>6 DEF Accept, Handle, EndSession
  <2>7. CASE UNCHANGED vars
    BY <2>7 DEF vars
  <2> QED BY <2>1, <2>2, <2>3, <2>4, <2>5, <2>6, <2>7 DEF Next
<1>2. IInv /\ [Next]_vars =>
        [\A c \in Clients :
           sock[c] # None /\ sock'[c] = None /\ cpc'[c] # "off" => FilesOf(c) = {}]_vars
  BY <1>1
<1> QED BY Inductive, <1>2, PTL DEF Spec, DisconnectsIdle
=============================================================================
