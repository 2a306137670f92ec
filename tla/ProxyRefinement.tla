--------------------------- MODULE ProxyRefinement ---------------------------
(***************************************************************************)
(* Proof that the proxy keeps what FileHandling promises its clients, for  *)
(* any number of client threads and any directory, whichever descriptors   *)
(* the clients name.                                                       *)
(*                                                                         *)
(* IInv does not say what a thread may still rely on of the answers it got *)
(* earlier from the file system: Remembers adds that.  No client makes or  *)
(* removes a directory, so a path that led to none leads to none, although *)
(* files come and go behind it.                                            *)
(***************************************************************************)
EXTENDS ProxyProofs

-----------------------------------------------------------------------------
(* What the abstract variables are *)

HoldSteps == {"number", "put"} \cup IOSteps
Holds(t) == IF pc[t] \in {"number", "put"} \cup IOSteps THEN status[t] ELSE None

running == {t \in Threads : pc[t] # "off"}
taken == [t \in Threads |-> Holds(t)]
stage == [t \in Threads |-> Stage(t)]

(* The stage of a call on descriptor fd at step l.                         *)
StageAt(l, fd) ==
  IF l \in {"remove", "get"} /\ fd \notin Keys THEN "lost"
  ELSE IF l = "seek" THEN "aimed"
  ELSE IF l = "endAgain" THEN "moved"
  ELSE "none"

(* What a thread at step l of call r with FileStatus s has learned from    *)
(* the file system and still holds.                                        *)
Remembers(l, r, s) ==
  /\ l = "existsNew" => r.how = "CREATE_NEW" /\ (s.isDir <=> names[r.path] = Dir)
  /\ l = "create" => r.how \in {"CREATE", "CREATE_NEW"}
  /\ l \in {"create", "openFile", "delete"} => names[r.path] # Dir
  /\ l \in {"existsNew", "create", "openFile"} => s.mode = Mode(r.how)
  /\ l = "remove" => r.op = "close"
  /\ l \in {"get"} \cup IOSteps => r.op # "close"

RInv == \A t \in Threads : Remembers(pc[t], req[t], status[t])

(* Directories stay.                                                       *)
DirsStay == \A p \in Paths : names'[p] = Dir <=> names[p] = Dir

(* Both modules compute with the same files.                               *)
LEMMA SameDisk ==
  /\ \A e : Contract!Error(e) = Error(e)
  /\ \A v : Contract!Result(v) = Result(v)
  /\ \A w, len, pos : Contract!Base(w, len, pos) = Base(w, len, pos)
  /\ \A len, pos, n : Contract!Readable(len, pos, n) = Readable(len, pos, n)
  /\ \A a, b : Contract!Larger(a, b) = Larger(a, b)
  /\ Contract!AllCalls = AllCalls /\ Contract!Fds = Fds
<1>1. \A op, p, fd, how, n : Contract!Request(op, p, fd, how, n) = Request(op, p, fd, how, n)
  BY DEF Contract!Request, Request
<1>2. Contract!Fds = Fds /\ Contract!NeverFd = NeverFd
  BY DEF Contract!Fds, Fds, Contract!NeverFd, NeverFd, Contract!FirstFd, FirstFd
<1>3. Contract!AllCalls = AllCalls
  BY <1>1, <1>2 DEF Contract!AllCalls, AllCalls, Contract!OpenCalls, OpenCalls,
     Contract!UnlinkCalls, UnlinkCalls, Contract!CloseCalls, CloseCalls,
     Contract!BufferCalls, BufferCalls, Contract!SeekCalls, SeekCalls
<1> QED BY <1>2, <1>3
        DEF Contract!Error, Error, Contract!Result, Result, Contract!Base, Base,
            Contract!Readable, Readable, Contract!Smaller, Smaller, Contract!Larger, Larger

(* What an open descriptor is in both.                                     *)
LEMMA SameOpen == \A fd \in Fds : Contract!IsOpen(fd) <=> fd \in Keys
BY SameDisk DEF Contract!IsOpen, Keys

LEMMA StageIs == \A t \in Threads : Stage(t) = StageAt(pc[t], req[t].fd)
BY DEF Stage, StageAt

-----------------------------------------------------------------------------
(* How a thread goes on, as both modules see it *)

(* The stage of a thread that does not move, and the descriptors given,    *)
(* when the table and the counter stay.                                    *)
LEMMA OthersStay ==
  ASSUME IInv, NEW t \in Threads, pc[t] # "put", pc'[t] # "put",
         \A u \in Threads \ {t} :
           pc'[u] = pc[u] /\ req'[u] = req[u] /\ newFd'[u] = newFd[u],
         UNCHANGED <<globalFD, fileTable>>
  PROVE  /\ Given' = Given /\ Keys' = Keys
         /\ \A u \in Threads \ {t} : Stage(u)' = Stage(u)
<1>1. Keys' = Keys
  BY DEF Keys
<1>2. Given' = Given
  BY DEF Given
<1>3. \A u \in Threads \ {t} : Stage(u)' = Stage(u)
  BY <1>1 DEF Stage
<1> QED BY <1>1, <1>2, <1>3

(* The others still know what they knew.                                   *)
LEMMA OthersRemember ==
  ASSUME IInv, RInv, NEW t \in Threads, DirsStay,
         \A u \in Threads \ {t} :
           pc'[u] = pc[u] /\ req'[u] = req[u] /\ status'[u] = status[u],
         Remembers(pc[t], req[t], status[t])'
  PROVE  RInv'
<1>1. ASSUME NEW u \in Threads, u # t
      PROVE  Remembers(pc[u], req[u], status[u])'
  <2>1. pc[u] \in {"existsNew", "create", "openFile", "delete"} => req[u].path \in Paths
    BY IInvSound DEF Sound, OpenSteps, UnlinkSteps
  <2> QED BY <1>1, <2>1 DEF RInv, Remembers, DirsStay
<1> QED BY <1>1 DEF RInv

LEMMA AfterLeave ==
  ASSUME IInv, RInv, NEW t \in Threads, pc[t] # "off",
         NEW l \in {"off", "ready"}, NEW m, Leave(t, l, m), DirsStay
  PROVE  /\ RInv'
         /\ running' = IF l = "off" THEN running \ {t} ELSE running
         /\ Contract!Answer(t, m)
         /\ Stage(t)' = "none"
         /\ \A u \in Threads \ {t} :
              pc'[u] = pc[u] /\ req'[u] = req[u] /\ newFd'[u] = newFd[u]
         /\ pc'[t] \in {"off", "ready"}
<1>1. /\ pc'[t] = l /\ pc'[t] \in {"off", "ready"}
      /\ \A u \in Threads \ {t} :
           pc'[u] = pc[u] /\ req'[u] = req[u] /\ status'[u] = status[u] /\ newFd'[u] = newFd[u]
  BY DEF IInv, TypeOK, Leave
<1>2. RInv'
  <2>1. Remembers(pc[t], req[t], status[t])'
    BY <1>1 DEF Remembers, IOSteps
  <2> QED BY <1>1, <2>1, OthersRemember
<1>3. running' = IF l = "off" THEN running \ {t} ELSE running
  BY <1>1 DEF running
<1>4. taken' = [taken EXCEPT ![t] = None]
  BY <1>1 DEF taken, Holds, IOSteps
<1>5. Contract!Answer(t, m)
  BY <1>4 DEF Contract!Answer, taken, Holds, Leave
<1>6. Stage(t)' = "none"
  BY <1>1 DEF Stage
<1> QED BY <1>1, <1>2, <1>3, <1>5, <1>6

(* Most calls end without a change of the table or the counter.            *)
LEMMA AfterReturn ==
  ASSUME IInv, RInv, NEW t \in Threads, pc[t] \notin {"off", "put"},
         NEW m, Return(t, m), DirsStay, UNCHANGED <<globalFD, fileTable>>
  PROVE  /\ RInv' /\ running' = running /\ Given' = Given
         /\ Contract!Answer(t, m) /\ Contract!Over(t)
<1>1. /\ RInv' /\ running' = running /\ Contract!Answer(t, m) /\ Stage(t)' = "none"
      /\ \A u \in Threads \ {t} :
           pc'[u] = pc[u] /\ req'[u] = req[u] /\ newFd'[u] = newFd[u]
      /\ pc'[t] # "put"
  <2>1. Leave(t, "ready", m)
    BY DEF Return
  <2> QED BY <2>1, AfterLeave
<1>2. Given' = Given /\ \A u \in Threads \ {t} : Stage(u)' = Stage(u)
  BY <1>1, OthersStay
<1>3. stage' = [stage EXCEPT ![t] = "none"]
  BY <1>1, <1>2 DEF stage
<1> QED BY <1>1, <1>2, <1>3 DEF Contract!Over, stage

LEMMA AfterGoto ==
  ASSUME IInv, RInv, NEW t \in Threads, NEW l, NEW s, GotoWith(t, l, s),
         pc[t] \notin {"off", "put"}, l \notin {"off", "put"}, Remembers(l, req[t], s),
         l \in {"existsNew", "create", "openFile", "delete"} => req[t].path \in Paths,
         DirsStay, UNCHANGED <<globalFD, fileTable>>
  PROVE  /\ RInv' /\ Given' = Given
         /\ running' = running /\ req' = req /\ ret' = ret /\ from' = from
         /\ taken' = [taken EXCEPT ![t] = IF l \in HoldSteps THEN s ELSE None]
         /\ stage' = [stage EXCEPT ![t] = StageAt(l, req[t].fd)]
<1>1. /\ pc'[t] = l /\ status'[t] = s /\ req' = req /\ ret' = ret /\ from' = from
      /\ newFd' = newFd
      /\ \A u \in Threads \ {t} : pc'[u] = pc[u] /\ status'[u] = status[u]
  BY DEF IInv, TypeOK, GotoWith
<1>2. RInv'
  <2>1. Remembers(pc[t], req[t], status[t])'
    BY <1>1 DEF Remembers, DirsStay
  <2> QED BY <1>1, <2>1, OthersRemember
<1>3. taken' = [taken EXCEPT ![t] = IF l \in HoldSteps THEN s ELSE None]
  BY <1>1 DEF taken, Holds, HoldSteps
<1>4. Given' = Given /\ Keys' = Keys /\ \A u \in Threads \ {t} : Stage(u)' = Stage(u)
  BY <1>1, OthersStay
<1>5. Stage(t)' = StageAt(l, req[t].fd)
  BY <1>1, <1>4 DEF Stage, StageAt
<1>6. stage' = [stage EXCEPT ![t] = StageAt(l, req[t].fd)]
  BY <1>4, <1>5 DEF stage
<1>7. running' = running
  BY <1>1 DEF running
<1> QED BY <1>1, <1>2, <1>3, <1>4, <1>6, <1>7

(* What a step leaves alone that touches neither table nor directory.      *)
LEMMA Untouched ==
  ASSUME UNCHANGED <<table, disk>>
  PROVE  DirsStay /\ UNCHANGED <<globalFD, fileTable, filePointer, names, length>>
BY DEF DirsStay, table, disk

(* A call that fails.                                                      *)
LEMMA Fails ==
  ASSUME IInv, RInv, NEW t \in Threads, NEW e, Return(t, Error(e)),
         pc[t] \notin {"off", "ready", "put"}, UNCHANGED <<table, disk>>,
         e \in IF req[t].op \in {"open", "unlink"} THEN Contract!PathErrors(req[t])
               ELSE Contract!FdErrors(t, req[t])
  PROVE  RInv' /\ Contract!Next
<1>1. req[t] # None
  BY IInvSound DEF Sound
<1>2. /\ RInv' /\ running' = running /\ Given' = Given
      /\ Contract!Answer(t, Error(e)) /\ Contract!Over(t)
      /\ UNCHANGED <<fileTable, filePointer, names, length>>
  BY AfterReturn, Untouched
<1>3. Contract!Answer(t, Contract!Error(e))
  BY <1>2, SameDisk
<1>4. UNCHANGED <<Contract!fds, Contract!files>> /\ running' = running
  BY <1>2 DEF Contract!fds, Contract!files
<1>5. Contract!Fail(t)
  BY <1>1, <1>2, <1>3, <1>4 DEF Contract!Fail, running
<1> QED BY <1>2, <1>5 DEF Contract!Next

LEMMA FailsOnPath ==
  ASSUME IInv, RInv, NEW t \in Threads, NEW e, Return(t, Error(e)),
         pc[t] \in (OpenSteps \cup UnlinkSteps) \ {"put"}, e \in Contract!PathErrors(req[t]),
         UNCHANGED <<table, disk>>
  PROVE  RInv' /\ Contract!Next
<1>1. req[t].op \in {"open", "unlink"}
  BY IInvSound DEF Sound
<1>2. pc[t] \notin {"off", "ready", "put"}
  BY DEF OpenSteps, UnlinkSteps
<1> QED BY <1>1, <1>2, Fails

LEMMA FailsOnFd ==
  ASSUME IInv, RInv, NEW t \in Threads, NEW e, Return(t, Error(e)),
         pc[t] \in FdSteps, e \in Contract!FdErrors(t, req[t]),
         UNCHANGED <<table, disk>>
  PROVE  RInv' /\ Contract!Next
<1>1. req[t].op \notin {"open", "unlink"}
  BY IInvSound DEF Sound
<1>2. pc[t] \notin {"off", "ready", "put"}
  BY DEF FdSteps, IOSteps
<1> QED BY <1>1, <1>2, Fails

(* A step to a place where nothing is held yet cannot be seen.             *)
LEMMA Invisible ==
  ASSUME IInv, RInv, NEW t \in Threads, NEW l, NEW s, GotoWith(t, l, s),
         pc[t] \notin {"off", "remove", "get"} \cup HoldSteps,
         l \notin {"off"} \cup HoldSteps,
         l \in {"remove", "get"} => req[t].fd \in Keys,
         Remembers(l, req[t], s),
         l \in {"existsNew", "create", "openFile", "delete"} => req[t].path \in Paths,
         UNCHANGED <<table, disk>>
  PROVE  RInv' /\ UNCHANGED Contract!vars
<1>1. pc[t] \notin {"off", "put"} /\ l \notin {"off", "put"}
  BY DEF HoldSteps
<1>2. /\ RInv' /\ running' = running /\ req' = req /\ ret' = ret /\ from' = from
      /\ taken' = [taken EXCEPT ![t] = None] /\ Given' = Given
      /\ stage' = [stage EXCEPT ![t] = StageAt(l, req[t].fd)]
      /\ UNCHANGED <<fileTable, filePointer, names, length>>
  BY <1>1, AfterGoto, Untouched
<1>3. taken' = taken
  BY <1>2 DEF taken, Holds, HoldSteps
<1>4. StageAt(l, req[t].fd) = "none" /\ Stage(t) = "none"
  BY DEF StageAt, Stage, HoldSteps, IOSteps
<1>5. stage' = stage
  BY <1>2, <1>4 DEF stage
<1> QED BY <1>2, <1>3, <1>5 DEF Contract!vars, running, taken, stage, Holds

-----------------------------------------------------------------------------
(* Each step of the proxy is a step of FileHandling, or none: sessions *)

LEMMA ConnectSeen ==
  ASSUME IInv, RInv, NEW t \in Threads, Connect(t)
  PROVE  RInv' /\ Contract!Next
<1>1. /\ pc[t] = "off" /\ pc' = [pc EXCEPT ![t] = "ready"]
      /\ UNCHANGED <<req, ret, status, newFd, from>>
      /\ UNCHANGED <<globalFD, fileTable, filePointer, names, length>>
  BY DEF Connect, Goto, GotoWith, table, disk, IInv, TypeOK
<1>2. /\ pc'[t] = "ready" /\ \A u \in Threads \ {t} : pc'[u] = pc[u]
  BY <1>1 DEF IInv, TypeOK
<1>3. RInv'
  <2>1. Remembers(pc[t], req[t], status[t])'
    BY <1>2 DEF Remembers, IOSteps
  <2> QED BY <1>1, <1>2, <2>1, OthersRemember DEF DirsStay
<1>4. t \notin running /\ running' = running \cup {t}
  BY <1>1, <1>2 DEF running
<1>5. taken' = taken
  BY <1>1, <1>2 DEF taken, Holds, IOSteps
<1>6. Given' = Given /\ stage' = stage
  <2>1. Given' = Given /\ \A u \in Threads \ {t} : Stage(u)' = Stage(u)
    BY <1>1, <1>2, OthersStay
  <2>2. Stage(t)' = "none" /\ Stage(t) = "none"
    BY <1>1, <1>2 DEF Stage
  <2> QED BY <2>1, <2>2 DEF stage
<1>7. Contract!Connect(t)
  BY <1>1, <1>4, <1>5, <1>6
     DEF Contract!Connect, Contract!fds, Contract!files, running, taken, stage, Holds
<1> QED BY <1>3, <1>7 DEF Contract!Next

LEMMA ClientDoneSeen ==
  ASSUME IInv, RInv, NEW t \in Threads, ClientDone(t)
  PROVE  RInv' /\ Contract!Next
<1>1. /\ pc[t] = "ready" /\ Leave(t, "off", None) /\ req[t] = None
      /\ UNCHANGED <<globalFD, fileTable, filePointer, names, length>>
  BY IInvSound DEF ClientDone, ClientDoneEffect, disk, Sound
<1>2. /\ RInv' /\ running' = running \ {t} /\ Contract!Answer(t, None)
      /\ Stage(t)' = "none" /\ pc'[t] # "put"
      /\ \A u \in Threads \ {t} :
           pc'[u] = pc[u] /\ req'[u] = req[u] /\ newFd'[u] = newFd[u]
  <2>1. DirsStay
    BY <1>1 DEF DirsStay
  <2> QED BY <1>1, <2>1, AfterLeave
<1>3. Given' = Given /\ stage' = stage
  <2>1. Given' = Given /\ \A u \in Threads \ {t} : Stage(u)' = Stage(u)
    BY <1>1, <1>2, OthersStay
  <2>2. Stage(t) = "none"
    BY <1>1 DEF Stage
  <2> QED BY <1>2, <2>1, <2>2 DEF stage
<1>4. t \in running
  BY <1>1 DEF running
<1>5. Contract!End(t)
  BY <1>1, <1>2, <1>3, <1>4 DEF Contract!End, Contract!fds, Contract!files, running, stage
<1> QED BY <1>2, <1>5 DEF Contract!Next

LEMMA BeginSeen ==
  ASSUME IInv, RInv, NEW t \in Threads, NEW q \in AllCalls, Begin(t, q)
  PROVE  RInv' /\ Contract!Next
<1>1. /\ UNCHANGED <<table, disk>> /\ pc[t] = "ready" /\ req[t] = None /\ q.op \in Ops
      /\ t \in running
  BY IInvSound DEF Begin, Sound, running
<1>2. DirsStay /\ UNCHANGED <<globalFD, fileTable, filePointer, names, length>>
  BY <1>1, Untouched
<1>3. CASE q.op \in {"open", "unlink"} /\ q.path = None
  <2> DEFINE e == IF q.op = "open" THEN "EINVAL" ELSE "ENOENT"
  <2>1. Return(t, Error(e))
    BY <1>3 DEF Begin
  <2>2. /\ RInv' /\ running' = running /\ Given' = Given
        /\ Contract!Answer(t, Error(e)) /\ Contract!Over(t)
    <3> HIDE DEF e
    <3> QED BY <1>1, <1>2, <2>1, AfterReturn
  <2>3. stage' = stage
    <3>1. Stage(t) = "none"
      BY <1>1 DEF Stage
    <3> QED BY <2>2, <3>1 DEF Contract!Over, stage
  <2>4. Contract!Answer(t, Contract!Error(e))
    BY <2>2, SameDisk
  <2>5. \/ "open" \in Ops /\ Contract!Answer(t, Contract!Error("EINVAL"))
        \/ "unlink" \in Ops /\ Contract!Answer(t, Contract!Error("ENOENT"))
    <3>1. CASE q.op = "open"
      BY <1>1, <2>4, <3>1
    <3>2. CASE q.op = "unlink"
      BY <1>1, <2>4, <3>2
    <3> QED BY <1>3, <3>1, <3>2
  <2>6. Contract!Refuse(t)
    BY <1>1, <1>2, <2>2, <2>3, <2>5
       DEF Contract!Refuse, Contract!fds, Contract!files, running, stage
  <2> QED BY <2>2, <2>6 DEF Contract!Next
<1>4. CASE ~(q.op \in {"open", "unlink"} /\ q.path = None)
  <2>1. /\ pc' = [pc EXCEPT ![t] = FirstStep(q)]
        /\ req' = [req EXCEPT ![t] = q]
        /\ ret' = [ret EXCEPT ![t] = None]
        /\ UNCHANGED <<status, newFd, from>>
    BY <1>4 DEF Begin
  <2>2. FirstStep(q) \in {"isDirectory", "exists", "unlinkExists", "containsKey"}
    BY DEF FirstStep
  <2>3. /\ pc'[t] \in {"isDirectory", "exists", "unlinkExists", "containsKey"}
        /\ \A u \in Threads \ {t} : pc'[u] = pc[u] /\ req'[u] = req[u]
    BY <2>1, <2>2 DEF IInv, TypeOK
  <2>4. running' = running /\ taken' = taken
    BY <1>1, <2>1, <2>3 DEF running, taken, Holds, IOSteps
  <2>5. Given' = Given /\ stage' = stage
    <3>1. Given' = Given /\ \A u \in Threads \ {t} : Stage(u)' = Stage(u)
      BY <1>1, <1>2, <2>1, <2>3, OthersStay
    <3>2. Stage(t)' = "none" /\ Stage(t) = "none"
      BY <1>1, <2>3 DEF Stage
    <3> QED BY <3>1, <3>2 DEF stage
  <2>6. RInv'
    <3>1. Remembers(pc[t], req[t], status[t])'
      BY <2>3 DEF Remembers, IOSteps
    <3> QED BY <1>2, <2>1, <2>3, <3>1, OthersRemember
  <2>7. Contract!Call(t)
    BY <1>1, <1>2, <2>1, <2>4, <2>5, SameDisk
       DEF Contract!Call, Contract!fds, Contract!files, running, taken, stage, Holds
  <2> QED BY <2>6, <2>7 DEF Contract!Next
<1> QED BY <1>3, <1>4

-----------------------------------------------------------------------------
(* open *)

(* What a thread at a step of open holds.                                  *)
LEMMA Opening ==
  ASSUME IInv, RInv, NEW t \in Threads, pc[t] \in OpenSteps
  PROVE  /\ req[t] # None /\ req[t].op = "open" /\ req[t].path \in Paths
         /\ req[t].how \in {"READ", "WRITE", "CREATE", "CREATE_NEW"}
         /\ pc[t] # "off" /\ status[t] \in Drafts
         /\ Remembers(pc[t], req[t], status[t])
<1>1. /\ req[t] # None /\ req[t].op = "open" /\ req[t].path \in Paths /\ pc[t] # "off"
  BY IInvSound DEF Sound, OpenSteps
<1>2. req[t] \in AllCalls /\ status[t] \in Drafts
  BY <1>1 DEF IInv, TypeOK
<1>3. req[t].how \in {"READ", "WRITE", "CREATE", "CREATE_NEW"}
  BY <1>1, <1>2, CallParts, DiskAssumption
<1> QED BY <1>1, <1>2, <1>3 DEF RInv

LEMMA OpenExistsSeen ==
  ASSUME IInv, RInv, NEW t \in Threads, OpenExists(t)
  PROVE  RInv' /\ [Contract!Next]_(Contract!vars)
<1>1. /\ pc[t] = "exists" /\ pc[t] \in (OpenSteps \cup UnlinkSteps) \ {"put"}
      /\ UNCHANGED <<table, disk>>
  BY DEF OpenExists, OpenSteps
<1>2. CASE Exists(t)
  BY <1>1, <1>2, Invisible DEF OpenExists, Goto, Remembers, HoldSteps, IOSteps
<1>3. CASE ~Exists(t)
  <2>1. "ENOENT" \in Contract!PathErrors(req[t])
    BY <1>3 DEF Exists, Contract!PathErrors
  <2> QED BY <1>1, <1>3, <2>1, FailsOnPath DEF OpenExists
<1> QED BY <1>2, <1>3

LEMMA OpenIsDirectorySeen ==
  ASSUME IInv, RInv, NEW t \in Threads, OpenIsDirectory(t)
  PROVE  RInv' /\ [Contract!Next]_(Contract!vars)
<1> DEFINE how == req[t].how
           s == [isDir |-> IsDirectory(t), mode |-> Mode(how), file |-> None]
<1>1. /\ pc[t] = "isDirectory" /\ pc[t] \in OpenSteps
      /\ pc[t] \in (OpenSteps \cup UnlinkSteps) \ {"put"}
      /\ pc[t] \notin {"off", "put", "remove", "get"} \cup HoldSteps
      /\ UNCHANGED <<table, disk>>
  BY DEF OpenIsDirectory, OpenSteps, HoldSteps, IOSteps
<1>2. /\ req[t] # None /\ req[t].op = "open" /\ req[t].path \in Paths
      /\ how \in {"READ", "WRITE", "CREATE", "CREATE_NEW"}
  BY <1>1, Opening
<1>3. CASE how = "READ" /\ IsDirectory(t)
  <2>1. GotoWith(t, "number", s)
    BY <1>3 DEF OpenIsDirectory
  <2>2. DirsStay /\ UNCHANGED <<globalFD, fileTable, filePointer, names, length>>
    BY <1>1, Untouched
  <2>3. /\ RInv' /\ running' = running /\ req' = req /\ ret' = ret /\ from' = from
        /\ taken' = [taken EXCEPT ![t] = s] /\ Given' = Given
        /\ stage' = [stage EXCEPT ![t] = StageAt("number", req[t].fd)]
    <3>1. Remembers("number", req[t], s)
      BY DEF Remembers, IOSteps
    <3> HIDE DEF s
    <3> QED BY <1>1, <2>1, <2>2, <3>1, AfterGoto DEF HoldSteps
  <2>4. taken[t] = None /\ stage' = stage
    BY <1>1, <2>3 DEF taken, Holds, HoldSteps, stage, Stage, StageAt
  <2>5. names[req[t].path] = Dir /\ s = [isDir |-> TRUE, mode |-> "r", file |-> None]
    BY <1>3 DEF IsDirectory, Mode
  <2> HIDE DEF s
  <2>6. Contract!Take(t)
    BY <1>2, <1>3, <2>2, <2>3, <2>4, <2>5, DiskAssumption
       DEF Contract!Take, Contract!fds, Contract!files, running, taken, stage, Holds
  <2> QED BY <2>3, <2>6 DEF Contract!Next
<1>4. CASE how \in {"WRITE", "CREATE"} /\ IsDirectory(t)
  <2>1. Return(t, Error("EISDIR"))
    BY <1>4 DEF OpenIsDirectory
  <2>2. "EISDIR" \in Contract!PathErrors(req[t])
    BY <1>4 DEF IsDirectory, Contract!PathErrors
  <2> QED BY <1>1, <2>1, <2>2, FailsOnPath
<1>5. CASE ~IsDirectory(t) \/ how = "CREATE_NEW"
  <2>1. PICK l \in {"openFile", "existsNew", "create"} :
          GotoWith(t, l, s) /\ Remembers(l, req[t], s)
    <3>1. CASE how = "READ"
      BY <1>5, <3>1 DEF OpenIsDirectory, Remembers, IsDirectory, IOSteps
    <3>2. CASE how = "CREATE_NEW"
      BY <3>2 DEF OpenIsDirectory, Remembers, IsDirectory, IOSteps
    <3>3. CASE how = "WRITE"
      BY <1>5, <3>3 DEF OpenIsDirectory, Remembers, IsDirectory, IOSteps
    <3>4. CASE how = "CREATE"
      BY <1>5, <3>4 DEF OpenIsDirectory, Remembers, IsDirectory, IOSteps
    <3> QED BY <1>2, <3>1, <3>2, <3>3, <3>4
  <2>2. l \notin {"off"} \cup HoldSteps /\ l \notin {"remove", "get"}
    BY DEF HoldSteps, IOSteps
  <2> HIDE DEF s
  <2> QED BY <1>1, <1>2, <2>1, <2>2, Invisible
<1> QED BY <1>2, <1>3, <1>4, <1>5

LEMMA OpenExistsNewSeen ==
  ASSUME IInv, RInv, NEW t \in Threads, OpenExistsNew(t)
  PROVE  RInv' /\ [Contract!Next]_(Contract!vars)
<1>1. /\ pc[t] = "existsNew" /\ pc[t] \in OpenSteps
      /\ pc[t] \in (OpenSteps \cup UnlinkSteps) \ {"put"}
      /\ UNCHANGED <<table, disk>>
  BY DEF OpenExistsNew, OpenSteps
<1>2. /\ req[t].path \in Paths /\ req[t].how = "CREATE_NEW" /\ status[t].isDir \in BOOLEAN
      /\ status[t].isDir <=> names[req[t].path] = Dir
      /\ status[t].mode = Mode(req[t].how)
  BY <1>1, Opening DEF Remembers, Drafts
<1>3. CASE Exists(t)
  <2>1. Return(t, Error("EEXIST"))
    BY <1>3 DEF OpenExistsNew
  <2>2. "EEXIST" \in Contract!PathErrors(req[t])
    BY <1>2, <1>3 DEF Exists, Contract!PathErrors
  <2> QED BY <1>1, <2>1, <2>2, FailsOnPath
<1>4. CASE ~Exists(t)
  <2>1. ~status[t].isDir
    BY <1>2, <1>4, DiskAssumption DEF Exists
  <2>2. GotoWith(t, "create", status[t])
    BY <1>4, <2>1 DEF OpenExistsNew, Goto
  <2>3. Remembers("create", req[t], status[t])
    BY <1>2, <2>1 DEF Remembers, IOSteps
  <2> QED BY <1>1, <1>2, <2>2, <2>3, Invisible DEF HoldSteps, IOSteps
<1> QED BY <1>3, <1>4

(* A file that is made is new to all clients.                              *)
LEMMA MakesFile ==
  ASSUME IInv, NEW p \in Paths, names[p] = None, MakeFile(p)
  PROVE  /\ DirsStay
         /\ \E i \in Inodes :
              /\ ~Contract!InUse(i)
              /\ names' = [names EXCEPT ![p] = i] /\ names'[p] = i
              /\ length' = [length EXCEPT ![i] = 0]
<1>1. PICK i \in Inodes : /\ Fresh(i) /\ names' = [names EXCEPT ![p] = i]
                          /\ length' = [length EXCEPT ![i] = 0]
  BY DEF MakeFile
<1>2. ~Contract!InUse(i)
  <2>1. \A fd \in Fds : Contract!IsOpen(fd) => fileTable[fd].file # i
    BY <1>1, SameOpen DEF Fresh
  <2>2. \A u \in Threads : taken[u] # None => taken[u].file # i
    BY <1>1 DEF Fresh, taken, Holds
  <2> QED BY <1>1, <2>1, <2>2, SameDisk DEF Fresh, Contract!InUse, taken, Holds
<1>3. names'[p] = i
  BY <1>1 DEF IInv, TypeOK
<1>4. DirsStay
  BY <1>1, DiskAssumption DEF DirsStay, IInv, TypeOK
<1> QED BY <1>1, <1>2, <1>3, <1>4

LEMMA OpenCreateSeen ==
  ASSUME IInv, RInv, NEW t \in Threads, OpenCreate(t)
  PROVE  RInv' /\ [Contract!Next]_(Contract!vars)
<1>1. /\ pc[t] = "create" /\ pc[t] \in OpenSteps /\ UNCHANGED table
      /\ pc[t] \in (OpenSteps \cup UnlinkSteps) \ {"put"}
      /\ pc[t] \notin {"off", "put", "remove", "get"} \cup HoldSteps
  BY DEF OpenCreate, OpenSteps, HoldSteps, IOSteps
<1>2. /\ req[t] # None /\ req[t].op = "open" /\ req[t].path \in Paths
      /\ req[t].how # "READ"
      /\ Remembers("openFile", req[t], status[t])
  BY <1>1, Opening DEF Remembers, IOSteps
<1>3. CASE IOMayFail /\ Return(t, Error("EIO")) /\ UNCHANGED disk
  <2>1. "EIO" \in Contract!PathErrors(req[t])
    BY <1>3 DEF Contract!PathErrors
  <2> QED BY <1>1, <1>3, <2>1, FailsOnPath
<1>4. CASE Exists(t) /\ UNCHANGED disk /\ Goto(t, "openFile")
  BY <1>1, <1>2, <1>4, Invisible DEF Goto, HoldSteps, IOSteps
<1>5. CASE ~Exists(t) /\ MakeFile(req[t].path) /\ Goto(t, "openFile")
  <2>1. names[req[t].path] = None
    BY <1>5 DEF Exists
  <2>2. /\ DirsStay
        /\ \E i \in Inodes :
             /\ ~Contract!InUse(i)
             /\ names' = [names EXCEPT ![req[t].path] = i]
             /\ length' = [length EXCEPT ![i] = 0]
    <3> HIDE DEF IInv
    <3> QED BY <1>2, <1>5, <2>1, MakesFile
  <2>3. UNCHANGED <<globalFD, fileTable, filePointer>>
    BY <1>1 DEF table
  <2>4. GotoWith(t, "openFile", status[t])
    BY <1>5 DEF Goto
  <2>5. /\ RInv' /\ running' = running /\ req' = req /\ ret' = ret /\ from' = from
        /\ taken' = [taken EXCEPT ![t] = None] /\ Given' = Given
        /\ stage' = [stage EXCEPT ![t] = StageAt("openFile", req[t].fd)]
    BY <1>1, <1>2, <2>2, <2>3, <2>4, AfterGoto DEF HoldSteps, IOSteps
  <2>6. taken' = taken /\ stage' = stage
    BY <1>1, <2>5 DEF taken, Holds, HoldSteps, stage, Stage, StageAt
  <2>7. Contract!Make(t)
    BY <1>2, <2>1, <2>2, <2>3, <2>5, <2>6
       DEF Contract!Make, Contract!fds, running, taken, stage, Holds
  <2> QED BY <2>5, <2>7 DEF Contract!Next
<1> QED BY <1>3, <1>4, <1>5 DEF OpenCreate, CreateAgain

(* A FileStatus gets its file.                                             *)
LEMMA WithFile ==
  ASSUME NEW s \in Drafts, NEW i \in Inodes
  PROVE  [s EXCEPT !.file = i] = [isDir |-> s.isDir, mode |-> s.mode, file |-> i]
BY DEF Drafts

LEMMA OpenFileSeen ==
  ASSUME IInv, RInv, NEW t \in Threads, OpenFile(t)
  PROVE  RInv' /\ [Contract!Next]_(Contract!vars)
<1> DEFINE p == req[t].path
<1>1. /\ pc[t] = "openFile" /\ pc[t] \in OpenSteps /\ UNCHANGED table
      /\ pc[t] \in (OpenSteps \cup UnlinkSteps) \ {"put"}
      /\ pc[t] \notin {"off", "put", "remove", "get"} \cup HoldSteps
  BY DEF OpenFile, OpenSteps, HoldSteps, IOSteps
<1>2. /\ req[t] # None /\ req[t].op = "open" /\ p \in Paths
      /\ status[t] \in Drafts /\ names[p] # Dir
      /\ status[t].mode = IF req[t].how = "READ" THEN "r" ELSE "rw"
  BY <1>1, Opening DEF Remembers, Mode
<1>3. status[t].isDir = FALSE
  <2>1. ~status[t].isDir /\ status[t].isDir \in BOOLEAN
    BY <1>1, <1>2, IInvSound DEF Sound, Drafts
  <2> QED BY <2>1
<1>4. \A i \in Inodes : [status[t] EXCEPT !.file = i] =
                           [isDir |-> FALSE, mode |-> status[t].mode, file |-> i]
  BY <1>2, <1>3, WithFile
<1>5. UNCHANGED <<globalFD, fileTable, filePointer>> /\ taken[t] = None
  BY <1>1 DEF table, taken, Holds, HoldSteps
<1>9. ASSUME NEW s, GotoWith(t, "number", s), DirsStay
      PROVE  /\ RInv' /\ running' = running /\ req' = req /\ ret' = ret /\ from' = from
             /\ taken' = [taken EXCEPT ![t] = s] /\ Given' = Given /\ stage' = stage
  <2>1. Remembers("number", req[t], s)
    BY DEF Remembers, IOSteps
  <2>2. /\ RInv' /\ running' = running /\ req' = req /\ ret' = ret /\ from' = from
        /\ taken' = [taken EXCEPT ![t] = s] /\ Given' = Given
        /\ stage' = [stage EXCEPT ![t] = StageAt("number", req[t].fd)]
    BY <1>1, <1>5, <1>9, <2>1, AfterGoto DEF HoldSteps
  <2> QED BY <1>1, <2>2 DEF stage, Stage, StageAt
<1>6. CASE Return(t, Error("ENOENT")) /\ UNCHANGED disk
           /\ (IOMayFail \/ IsDirectory(t) \/ (~Exists(t) /\ status[t].mode = "r"))
  <2>1. "ENOENT" \in Contract!PathErrors(req[t])
    BY <1>2, <1>6 DEF Contract!PathErrors, IsDirectory, Exists
  <2> QED BY <1>1, <1>6, <2>1, FailsOnPath
<1>7. CASE /\ Exists(t) /\ UNCHANGED disk
           /\ GotoWith(t, "number", [status[t] EXCEPT !.file = names[p]])
  <2> DEFINE s == [status[t] EXCEPT !.file = names[p]]
  <2>1. DirsStay /\ UNCHANGED <<names, length>>
    BY <1>7 DEF DirsStay, disk
  <2>3. /\ RInv' /\ running' = running /\ req' = req /\ ret' = ret /\ from' = from
        /\ taken' = [taken EXCEPT ![t] = s] /\ Given' = Given /\ stage' = stage
    <3>1. GotoWith(t, "number", s)
      BY <1>7
    <3> HIDE DEF s
    <3> QED BY <1>9, <2>1, <3>1
  <2>4. s = [isDir |-> names[p] = Dir, mode |-> IF req[t].how = "READ" THEN "r" ELSE "rw",
             file |-> IF names[p] = Dir THEN None ELSE names[p]]
    <3>1. names[p] \in Inodes
      BY <1>2, <1>7 DEF Exists, IInv, TypeOK
    <3> QED BY <1>2, <1>4, <3>1
  <2>5. names[p] # None
    BY <1>7 DEF Exists
  <2> HIDE DEF s
  <2>6. Contract!Take(t)
    BY <1>2, <1>5, <2>1, <2>3, <2>4, <2>5
       DEF Contract!Take, Contract!fds, Contract!files, running, taken, stage, Holds
  <2> QED BY <2>3, <2>6 DEF Contract!Next
<1>8. CASE /\ ~Exists(t) /\ status[t].mode = "rw" /\ MakeFile(p)
           /\ GotoWith(t, "number", [status[t] EXCEPT !.file = names'[p]])
  <2> DEFINE s == [status[t] EXCEPT !.file = names'[p]]
  <2>1. names[p] = None
    BY <1>8 DEF Exists
  <2>2. /\ DirsStay
        /\ \E i \in Inodes :
             /\ ~Contract!InUse(i)
             /\ names' = [names EXCEPT ![p] = i]
             /\ length' = [length EXCEPT ![i] = 0]
    <3> HIDE DEF IInv, p
    <3> QED BY <1>2, <1>8, <2>1, MakesFile
  <2>4. /\ RInv' /\ running' = running /\ req' = req /\ ret' = ret /\ from' = from
        /\ taken' = [taken EXCEPT ![t] = s] /\ Given' = Given /\ stage' = stage
    <3>1. GotoWith(t, "number", s)
      BY <1>8
    <3> HIDE DEF s
    <3> QED BY <1>9, <2>2, <3>1
  <2>5. s = [isDir |-> FALSE, mode |-> "rw", file |-> names'[p]]
    <3>1. names'[p] \in Inodes
      BY <1>2, <1>8, MakeFileTypes
    <3> QED BY <1>4, <1>8, <3>1
  <2>6. req[t].how # "READ"
    BY <1>2, <1>8
  <2> HIDE DEF s
  <2>7. Contract!Make(t)
    BY <1>2, <1>5, <2>1, <2>2, <2>4, <2>5, <2>6
       DEF Contract!Make, Contract!fds, running, taken, stage, Holds
  <2> QED BY <2>4, <2>7 DEF Contract!Next
<1> QED BY <1>6, <1>7, <1>8 DEF OpenFile

(* A number that is drawn is not given out yet.                            *)
LEMMA NumberHeld ==
  ASSUME IInv, NEW t \in Threads, OpenNumber(t)
  PROVE  Given' = Given
<1>1. /\ pc[t] = "number" /\ globalFD' = globalFD + 1 /\ globalFD \in Int
      /\ pc'[t] = "put" /\ newFd'[t] = globalFD + 1
      /\ \A u \in Threads \ {t} : pc'[u] = pc[u] /\ newFd'[u] = newFd[u]
  BY DEF OpenNumber, IInv, TypeOK
<1>2. globalFD >= NeverFd
  BY DiskAssumption DEF IInv, Unique, NeverFd, FirstFd
<1>3. FirstFd..globalFD' = (FirstFd..globalFD) \cup {globalFD + 1}
      /\ globalFD + 1 \notin FirstFd..globalFD
  BY <1>1, <1>2 DEF FirstFd, NeverFd
<1>4. {newFd[u] : u \in {v \in Threads : pc[v] = "put"}}'
        = {newFd[u] : u \in {v \in Threads : pc[v] = "put"}} \cup {globalFD + 1}
  BY <1>1
<1> QED BY <1>3, <1>4 DEF Given

LEMMA OpenNumberSeen ==
  ASSUME IInv, RInv, NEW t \in Threads, OpenNumber(t)
  PROVE  RInv' /\ [Contract!Next]_(Contract!vars)
<1>1. /\ pc[t] = "number" /\ pc'[t] = "put"
      /\ \A u \in Threads \ {t} : pc'[u] = pc[u]
      /\ UNCHANGED <<req, ret, status, from, fileTable, filePointer, names, length>>
  BY DEF OpenNumber, disk, IInv, TypeOK
<1>2. running' = running /\ taken' = taken
  BY <1>1 DEF running, taken, Holds
<1>3. stage' = stage
  <2>1. \A u \in Threads : Stage(u)' = Stage(u)
    BY <1>1 DEF Stage, Keys
  <2> QED BY <2>1 DEF stage
<1>4. RInv'
  <2>1. Remembers(pc[t], req[t], status[t])'
    BY <1>1 DEF Remembers, IOSteps
  <2> QED BY <1>1, <2>1, OthersRemember DEF DirsStay
<1> QED BY <1>1, <1>2, <1>3, <1>4, NumberHeld DEF Contract!vars, running, taken, stage, Holds

LEMMA OpenPutSeen ==
  ASSUME IInv, RInv, NEW t \in Threads, OpenPut(t)
  PROVE  RInv' /\ [Contract!Next]_(Contract!vars)
<1>0. PICK fd : fd = newFd[t]
  OBVIOUS
<1>1. /\ pc[t] = "put" /\ pc[t] # "off"
      /\ filePointer' = [filePointer EXCEPT ![fd] = 0]
      /\ Leave(t, "ready", Result(fd))
      /\ UNCHANGED <<names, length>>
  <2>1. Return(t, Result(newFd[t]))
    BY DEF OpenPut, Number
  <2> QED BY <1>0, <2>1 DEF OpenPut, Number, Return, Leave, disk
<1>2. /\ fd \in Fds /\ fd \notin Given /\ fd \notin Keys
      /\ status[t] \in Statuses
      /\ fileTable' = [fileTable EXCEPT ![fd] = status[t]]
      /\ Keys' = Keys \cup {fd} /\ Given' = Given \cup {fd}
  BY <1>0, PutTable
<1>3. /\ RInv' /\ running' = running
      /\ Contract!Answer(t, Result(fd))
      /\ Stage(t)' = "none"
      /\ \A u \in Threads \ {t} : pc'[u] = pc[u] /\ req'[u] = req[u]
  <2>1. DirsStay
    BY <1>1 DEF DirsStay
  <2> QED BY <1>1, <2>1, AfterLeave
<1>4. Contract!Over(t)
  <2>1. ASSUME NEW u \in Threads \ {t}
        PROVE  Stage(u)' = Stage(u)
    <3>1. pc[u] \in {"remove", "get"} => req[u].fd # fd
      BY <1>2, IInvSound DEF Sound, FdSteps
    <3> QED BY <1>2, <1>3, <3>1 DEF Stage
  <2>2. stage' = [stage EXCEPT ![t] = "none"]
    BY <1>3, <2>1 DEF stage
  <2> QED BY <2>2 DEF Contract!Over, stage
<1>5. req[t] # None /\ req[t].op = "open"
  BY <1>1, Opening DEF OpenSteps
<1>6. taken[t] = status[t] /\ taken[t] # None
  BY <1>1, <1>2, NoneAssumption DEF taken, Holds
<1>7. Contract!Opened(t)
  <2>1. Contract!Answer(t, Contract!Result(fd)) /\ fd \in Contract!Fds \ Given
    BY <1>2, <1>3, SameDisk
  <2>2. /\ Given' = Given \cup {fd} /\ fileTable' = [fileTable EXCEPT ![fd] = taken[t]]
        /\ running' = running /\ UNCHANGED <<names, length>>
    BY <1>1, <1>2, <1>3, <1>6
  <2> QED BY <1>1, <1>4, <1>5, <1>6, <2>1, <2>2, Zenon
          DEF Contract!Opened, Contract!files, running, taken, Holds
<1> QED BY <1>3, <1>7 DEF Contract!Next

-----------------------------------------------------------------------------
(* close, read, write, lseek *)

LEMMA ContainsKeySeen ==
  ASSUME IInv, RInv, NEW t \in Threads, ContainsKey(t)
  PROVE  RInv' /\ [Contract!Next]_(Contract!vars)
<1>1. /\ pc[t] = "containsKey" /\ pc[t] \in FdSteps
      /\ pc[t] \notin {"off", "remove", "get"} \cup HoldSteps
      /\ UNCHANGED <<table, disk>>
  BY DEF ContainsKey, FdSteps, HoldSteps, IOSteps
<1>2. CASE req[t].fd \in Keys
  <2>1. PICK l \in {"remove", "get"} :
          GotoWith(t, l, status[t]) /\ (l = "remove" <=> req[t].op = "close")
    BY <1>2 DEF ContainsKey, Goto
  <2>2. Remembers(l, req[t], status[t]) /\ l \notin {"off"} \cup HoldSteps
    BY <2>1 DEF Remembers, IOSteps, HoldSteps
  <2> QED BY <1>1, <1>2, <2>1, <2>2, Invisible
<1>3. CASE req[t].fd \notin Keys
  <2>1. "EBADF" \in Contract!FdErrors(t, req[t])
    <3>1. taken[t] = None /\ stage[t] = "none"
      BY <1>1 DEF taken, Holds, HoldSteps, stage, Stage
    <3>2. ~Contract!IsOpen(req[t].fd)
      BY <1>3, SameDisk DEF Contract!IsOpen, Keys
    <3> QED BY <3>1, <3>2 DEF Contract!FdErrors, taken, Holds, stage
  <2> QED BY <1>1, <1>3, <2>1, FailsOnFd DEF ContainsKey
<1> QED BY <1>2, <1>3

(* What a thread holds once it has found its descriptor in the table.      *)
LEMMA UsesFd ==
  ASSUME IInv, NEW t \in Threads, pc[t] \in FdSteps \ {"containsKey"}
  PROVE  /\ req[t] # None /\ req[t].op \in {"close", "read", "write", "lseek"}
         /\ req[t].fd \in Fds
         /\ fileTable[req[t].fd] \in Statuses \cup {None}
         /\ req[t].fd \notin Keys => fileTable[req[t].fd] = None
         /\ pc[t] \notin {"off", "ready", "put"}
<1>1. /\ req[t] # None /\ req[t].op \in {"close", "read", "write", "lseek"}
      /\ req[t].fd \in Given /\ pc[t] \notin {"off", "ready", "put"}
  BY IInvSound DEF Sound, FdSteps, IOSteps
<1>2. req[t].fd \in Fds
  BY <1>1, GivenFds
<1> QED BY <1>1, <1>2 DEF Keys, IInv, TypeOK

LEMMA RemoveSeen ==
  ASSUME IInv, RInv, NEW t \in Threads, Remove(t)
  PROVE  RInv' /\ [Contract!Next]_(Contract!vars)
<1>0. PICK fd : fd = req[t].fd
  OBVIOUS
<1>1. /\ pc[t] = "remove" /\ pc[t] \in FdSteps \ {"containsKey"}
      /\ fileTable' = [fileTable EXCEPT ![fd] = None]
      /\ Leave(t, "ready", Result(0))
      /\ UNCHANGED <<globalFD, filePointer, names, length>>
  BY <1>0 DEF Remove, Return, disk, FdSteps
<1>2. /\ req[t] # None /\ req[t].op = "close" /\ pc[t] # "off" /\ fd \in Fds
      /\ fd \notin Keys => fileTable[fd] = None
  BY <1>0, <1>1, UsesFd DEF RInv, Remembers
<1>3. /\ RInv' /\ running' = running /\ Contract!Answer(t, Result(0))
      /\ Stage(t)' = "none" /\ pc'[t] # "put"
      /\ \A u \in Threads \ {t} : pc'[u] = pc[u] /\ req'[u] = req[u] /\ newFd'[u] = newFd[u]
  <2>1. DirsStay
    BY <1>1 DEF DirsStay
  <2> QED BY <1>1, <1>2, <2>1, AfterLeave
<1>4. Given' = Given
  BY <1>1, <1>3 DEF Given
<1>5. Keys' = Keys \ {fd}
  BY <1>1, <1>2 DEF Keys, IInv, TypeOK
<1>6. Contract!Answer(t, Contract!Result(0))
  BY <1>3, SameDisk
<1>7. CASE fd \in Keys
  <2> DEFINE losers == {u \in Threads \ {t} : pc[u] \in {"remove", "get"} /\ req[u].fd = fd}
             may == {u \in Threads \ {t} :
                       /\ req[u] # None /\ req[u].op \notin {"open", "unlink"}
                       /\ req[u].fd = req[t].fd /\ taken[u] = None}
  <2>1. losers \in SUBSET may
    <3>1. ASSUME NEW u \in Threads, pc[u] \in {"remove", "get"}
          PROVE  req[u] # None /\ req[u].op \notin {"open", "unlink"} /\ taken[u] = None
      <4>1. pc[u] \in FdSteps \ {"containsKey"} /\ pc[u] \notin {"number", "put"} \cup IOSteps
        BY <3>1 DEF FdSteps, IOSteps
      <4>2. req[u] # None /\ req[u].op \in {"close", "read", "write", "lseek"}
        BY <4>1, UsesFd
      <4> QED BY <4>1, <4>2 DEF taken, Holds
    <3> QED BY <1>0, <3>1
  <2>2. stage' = [u \in Threads |->
                    IF u = t THEN "none" ELSE IF u \in losers THEN "lost" ELSE stage[u]]
    <3>1. ASSUME NEW u \in Threads \ {t}
          PROVE  Stage(u)' = IF u \in losers THEN "lost" ELSE Stage(u)
      BY <1>3, <1>5 DEF Stage
    <3> QED BY <1>3, <3>1 DEF stage
  <2>3. Contract!IsOpen(fd)
    BY <1>2, <1>7, SameOpen
  <2> HIDE DEF losers
  <2>4. \E ls \in SUBSET may :
          stage' = [u \in Threads |->
                      IF u = t THEN "none" ELSE IF u \in ls THEN "lost" ELSE stage[u]]
    BY <2>1, <2>2
  <2>5. Contract!Close(t)
    BY <1>0, <1>1, <1>2, <1>3, <1>4, <1>6, <2>3, <2>4
       DEF Contract!Close, Contract!files, running, taken, stage, Holds
  <2> QED BY <1>3, <2>5 DEF Contract!Next
<1>8. CASE fd \notin Keys
  <2>1. fileTable' = fileTable /\ Keys' = Keys
    BY <1>1, <1>2, <1>5, <1>8 DEF IInv, TypeOK
  <2>2. stage[t] = "lost"
    BY <1>0, <1>1, <1>8 DEF stage, Stage
  <2>3. Contract!Over(t)
    <3>1. \A u \in Threads \ {t} : Stage(u)' = Stage(u)
      BY <1>3, <2>1 DEF Stage
    <3>2. stage' = [stage EXCEPT ![t] = "none"]
      BY <1>3, <3>1 DEF stage
    <3> QED BY <3>2 DEF Contract!Over, stage
  <2>4. Contract!Close(t)
    BY <1>1, <1>2, <1>3, <1>4, <1>6, <2>1, <2>2, <2>3
       DEF Contract!Close, Contract!files, running, stage
  <2> QED BY <1>3, <2>4 DEF Contract!Next
<1> QED BY <1>7, <1>8

LEMMA GetSeen ==
  ASSUME IInv, RInv, NEW t \in Threads, Get(t)
  PROVE  RInv' /\ [Contract!Next]_(Contract!vars)
<1> DEFINE s == fileTable[req[t].fd]
<1>1. /\ pc[t] = "get" /\ pc[t] \in FdSteps \ {"containsKey"} /\ pc[t] \in FdSteps
      /\ pc[t] \notin {"off", "put"} \cup HoldSteps
      /\ UNCHANGED <<table, disk>>
  BY DEF Get, FdSteps, HoldSteps, IOSteps
<1>2. /\ req[t] # None /\ req[t].op \in {"read", "write", "lseek"}
      /\ s \in Statuses \cup {None} /\ req[t].fd \in Fds
      /\ taken[t] = None
  BY <1>1, UsesFd DEF RInv, Remembers, taken, Holds, HoldSteps
<1>3. DirsStay /\ UNCHANGED <<globalFD, fileTable, filePointer, names, length>>
  BY <1>1, Untouched
<1>4. CASE s = None
  <2>1. Leave(t, "off", None)
    BY <1>4 DEF Get, Throw
  <2>2. /\ RInv' /\ running' = running \ {t} /\ Contract!Answer(t, None)
        /\ Stage(t)' = "none" /\ pc'[t] # "put"
        /\ \A u \in Threads \ {t} : pc'[u] = pc[u] /\ req'[u] = req[u] /\ newFd'[u] = newFd[u]
    BY <1>1, <1>3, <2>1, AfterLeave
  <2>3. Given' = Given /\ \A u \in Threads \ {t} : Stage(u)' = Stage(u)
    BY <1>1, <1>3, <2>2, OthersStay
  <2>4. stage[t] = "lost" /\ stage' = [stage EXCEPT ![t] = "none"]
    <3>1. Stage(t) = "lost"
      BY <1>1, <1>4 DEF Stage, Keys
    <3> QED BY <2>2, <2>3, <3>1 DEF stage
  <2>5. Contract!Broken(t)
    BY <1>2, <1>3, <2>2, <2>3, <2>4
       DEF Contract!Broken, Contract!Over, Contract!fds, Contract!files, running, stage
  <2> QED BY <2>2, <2>5 DEF Contract!Next
<1>5. CASE s # None
  <2>1. /\ s \in Statuses /\ s.isDir \in BOOLEAN /\ s.mode \in {"r", "rw"}
        /\ Contract!IsOpen(req[t].fd)
    BY <1>2, <1>5, SameOpen DEF Statuses, Keys
  <2>2. CASE s.isDir
    <3>1. Return(t, Error("EISDIR"))
      BY <1>5, <2>2 DEF Get
    <3>2. "EISDIR" \in Contract!FdErrors(t, req[t])
      BY <1>2, <2>1, <2>2 DEF Contract!FdErrors, taken, Holds
    <3> QED BY <1>1, <3>1, <3>2, FailsOnFd
  <2>3. CASE ~s.isDir /\ ReadOnly(req[t], s)
    <3>1. Return(t, Error("EBADF"))
      BY <1>5, <2>3 DEF Get
    <3>2. "EBADF" \in Contract!FdErrors(t, req[t])
      BY <1>2, <2>1, <2>3 DEF Contract!FdErrors, ReadOnly, taken, Holds
    <3> QED BY <1>1, <3>1, <3>2, FailsOnFd
  <2>4. CASE ~s.isDir /\ ~ReadOnly(req[t], s)
    <3>1. GotoWith(t, "io", s)
      BY <1>5, <2>4 DEF Get
    <3>2. Remembers("io", req[t], s)
      BY <1>2 DEF Remembers
    <3>3. "io" \in HoldSteps /\ "io" \notin {"off", "put"}
      BY DEF HoldSteps, IOSteps
    <3>4. /\ RInv' /\ running' = running /\ req' = req /\ ret' = ret /\ from' = from
          /\ taken' = [taken EXCEPT ![t] = s] /\ Given' = Given
          /\ stage' = [stage EXCEPT ![t] = StageAt("io", req[t].fd)]
      <4> HIDE DEF s
      <4> QED BY <1>1, <1>3, <3>1, <3>2, <3>3, AfterGoto
    <3>5. stage' = stage
      <4>1. Stage(t) = "none"
        BY <1>1, <1>5, <2>1, SameOpen, <1>2 DEF Stage
      <4> QED BY <3>4, <4>1 DEF stage, StageAt
    <3>6. Contract!Hold(t)
      BY <1>2, <1>3, <2>1, <2>4, <3>4, <3>5
         DEF Contract!Hold, Contract!fds, Contract!files, ReadOnly, running, taken, stage, Holds
    <3> QED BY <3>4, <3>6 DEF Contract!Next
  <2> QED BY <2>2, <2>3, <2>4
<1> QED BY <1>4, <1>5

(* A thread that works on a file, as FileHandling sees it.                 *)
LEMMA Working ==
  ASSUME IInv, RInv, NEW t \in Threads, pc[t] \in IOSteps
  PROVE  /\ pc[t] \in FdSteps \ {"containsKey"} /\ pc[t] \notin {"off", "put"}
         /\ req[t] # None /\ req[t].op \in {"read", "write", "lseek"}
         /\ status[t] # None /\ taken[t] = status[t]
         /\ pc[t] \in {"seek", "endAgain"} => req[t].op = "lseek"
         /\ req[t].fd \in Fds /\ req[t].n \in Int /\ from[t] \in Int
<1>1. pc[t] \in FdSteps \ {"containsKey"} /\ pc[t] \notin {"off", "put"}
  BY DEF FdSteps, IOSteps
<1>2. req[t] # None /\ req[t].op \in {"read", "write", "lseek"}
  BY <1>1, UsesFd DEF RInv, Remembers
<1>3. taken[t] = status[t]
  BY DEF taken, Holds
<1>4. status[t] # None
  <2>1. Backed(status[t]) /\ status[t] \in Drafts /\ status[t].file \in Inodes
    BY AtIO DEF Sound
  <2>2. status[t] \in Statuses
    BY <2>1 DEF Backed, Drafts, Statuses
  <2> QED BY <2>2, NoneAssumption
<1>5. pc[t] \in {"seek", "endAgain"} => req[t].op = "lseek"
  BY IInvSound DEF Sound
<1> QED BY <1>1, <1>2, <1>3, <1>4, <1>5, AtIO

(* Bytes are transferred.                                                  *)
LEMMA Transfers ==
  ASSUME IInv, RInv, NEW t \in Threads, pc[t] = "io", req[t].op \in {"read", "write"},
         NEW n,
         n = IF req[t].op = "write" THEN req[t].n
             ELSE Readable(length[status[t].file], filePointer[req[t].fd], req[t].n),
         filePointer' = [filePointer EXCEPT ![req[t].fd] = @ + n],
         length' = IF req[t].op = "write"
                   THEN [length EXCEPT ![status[t].file] = Larger(@, filePointer[req[t].fd] + n)]
                   ELSE length,
         UNCHANGED <<globalFD, fileTable, names>>,
         Return(t, Result(n))
  PROVE  RInv' /\ Contract!Next
<1>1. /\ req[t] # None /\ pc[t] \notin {"off", "put"}
      /\ status[t] # None /\ taken[t] = status[t]
  BY Working DEF IOSteps
<1>2. /\ RInv' /\ running' = running /\ Given' = Given
      /\ Contract!Answer(t, Result(n)) /\ Contract!Over(t)
  <2>1. DirsStay
    BY DEF DirsStay
  <2> QED BY <1>1, <2>1, AfterReturn
<1>3. Contract!Answer(t, Contract!Result(n))
  BY <1>2, SameDisk
<1>4. n = IF req[t].op = "write" THEN req[t].n
          ELSE Contract!Readable(length[taken[t].file], filePointer[req[t].fd], req[t].n)
  BY <1>1, SameDisk
<1>5. length' = IF req[t].op = "write"
                THEN [length EXCEPT ![taken[t].file] =
                        Contract!Larger(@, filePointer[req[t].fd] + n)]
                ELSE length
  BY <1>1, SameDisk
<1>6. Contract!Transfer(t)
  <2> DEFINE k == IF req[t].op = "write" THEN req[t].n
                  ELSE Contract!Readable(length[taken[t].file], filePointer[req[t].fd], req[t].n)
  <2>1. n = k
    BY <1>4
  <2>2. Contract!Answer(t, Contract!Result(k))
    BY <1>3, <2>1 DEF Contract!Answer
  <2>3. /\ filePointer' = [filePointer EXCEPT ![req[t].fd] = @ + k]
        /\ length' = IF req[t].op = "write"
                THEN [length EXCEPT ![taken[t].file] =
                        Contract!Larger(@, filePointer[req[t].fd] + k)]
                ELSE length
    BY <1>5, <2>1
  <2> HIDE DEF k
  <2>4. /\ req[t] # None /\ req[t].op \in {"read", "write"} /\ taken[t] # None
        /\ Contract!Over(t) /\ running' = running /\ UNCHANGED <<Given, fileTable, names>>
    BY <1>1, <1>2
  <2> QED BY <2>2, <2>3, <2>4, Zenon DEF Contract!Transfer, running, taken, Holds, k
<1> QED BY <1>2, <1>6 DEF Contract!Next

LEMMA WriteSeen ==
  ASSUME IInv, RInv, NEW t \in Threads, Write(t)
  PROVE  RInv' /\ [Contract!Next]_(Contract!vars)
<1>1. PICK n : n = req[t].n
  OBVIOUS
<1>2. /\ pc[t] = "io" /\ req[t].op = "write"
      /\ length' = [length EXCEPT ![status[t].file] = Larger(@, filePointer[req[t].fd] + n)]
      /\ filePointer' = [filePointer EXCEPT ![req[t].fd] = @ + n]
      /\ UNCHANGED <<globalFD, fileTable, names>>
  BY <1>1 DEF Write, MoveTo
<1>3. Return(t, Result(n))
  <2>1. Return(t, Result(req[t].n))
    BY DEF Write
  <2> QED BY <1>1, <2>1 DEF Return, Leave
<1> QED BY <1>1, <1>2, <1>3, Transfers

LEMMA ReadSeen ==
  ASSUME IInv, RInv, NEW t \in Threads, Read(t)
  PROVE  RInv' /\ [Contract!Next]_(Contract!vars)
<1> DEFINE m == Readable(length[status[t].file], filePointer[req[t].fd], req[t].n)
<1>1. PICK n : n = m
  OBVIOUS
<1>2. /\ pc[t] = "io" /\ req[t].op = "read" /\ length' = length
      /\ filePointer' = [filePointer EXCEPT ![req[t].fd] = @ + n]
      /\ UNCHANGED <<globalFD, fileTable, names>>
  BY <1>1 DEF Read, disk
<1>3. Return(t, Result(n))
  <2>1. Return(t, Result(m))
    BY DEF Read
  <2> QED BY <1>1, <2>1 DEF Return, Leave
<1> QED BY <1>1, <1>2, <1>3, Transfers

LEMMA MeasureSeen ==
  ASSUME IInv, RInv, NEW t \in Threads, Measure(t)
  PROVE  RInv' /\ [Contract!Next]_(Contract!vars)
<1>1. /\ pc[t] = "io" /\ pc[t] \in IOSteps /\ req[t].op = "lseek"
      /\ from' = [from EXCEPT ![t] =
                    Base(req[t].how, length[status[t].file], filePointer[req[t].fd])]
      /\ pc'[t] = "seek" /\ \A u \in Threads \ {t} : pc'[u] = pc[u]
      /\ UNCHANGED <<req, ret, status, newFd>>
      /\ UNCHANGED <<globalFD, fileTable, filePointer, names, length>>
  BY DEF Measure, IOSteps, table, disk, IInv, TypeOK
<1>2. req[t] # None /\ pc[t] # "put" /\ status[t] # None /\ taken[t] = status[t]
  BY <1>1, Working
<1>3. RInv'
  <2>1. Remembers(pc[t], req[t], status[t])'
    BY <1>1 DEF Remembers, IOSteps
  <2> QED BY <1>1, <2>1, OthersRemember DEF DirsStay
<1>4. running' = running /\ taken' = taken
  BY <1>1 DEF running, taken, Holds, IOSteps
<1>5. Given' = Given /\ stage' = [stage EXCEPT ![t] = "aimed"] /\ stage[t] = "none"
  <2>1. Given' = Given /\ \A u \in Threads \ {t} : Stage(u)' = Stage(u)
    BY <1>1, <1>2, OthersStay
  <2>2. Stage(t)' = "aimed" /\ Stage(t) = "none"
    BY <1>1 DEF Stage
  <2> QED BY <2>1, <2>2 DEF stage
<1>6. from' = [from EXCEPT ![t] =
                 Contract!Base(req[t].how, length[taken[t].file], filePointer[req[t].fd])]
  BY <1>1, <1>2, SameDisk
<1>7. Contract!Aim(t)
  BY <1>1, <1>2, <1>4, <1>5, <1>6
     DEF Contract!Aim, Contract!fds, Contract!files, running, taken, stage, Holds
<1> QED BY <1>3, <1>7 DEF Contract!Next

LEMMA SeekSeen ==
  ASSUME IInv, RInv, NEW t \in Threads, Seek(t)
  PROVE  RInv' /\ [Contract!Next]_(Contract!vars)
<1>0. PICK n : n = from[t] + req[t].n
  OBVIOUS
<1>1. /\ pc[t] = "seek" /\ pc[t] \in IOSteps /\ pc[t] \in FdSteps
      /\ UNCHANGED <<globalFD, fileTable, names, length>>
  BY DEF Seek, IOSteps, FdSteps, disk
<1>2. /\ req[t] # None /\ req[t].op = "lseek" /\ pc[t] \notin {"off", "put"}
      /\ status[t] # None /\ taken[t] = status[t] /\ stage[t] = "aimed"
  BY <1>1, Working DEF stage, Stage
<1>3. DirsStay
  BY <1>1 DEF DirsStay
<1>4. CASE n < 0 /\ Return(t, Error("EBUSY")) /\ UNCHANGED filePointer
  <2>1. "EBUSY" \in Contract!FdErrors(t, req[t])
    BY <1>0, <1>2, <1>4 DEF Contract!FdErrors, taken, Holds, stage
  <2>2. UNCHANGED <<table, disk>>
    BY <1>1, <1>4 DEF table, disk
  <2> QED BY <1>1, <1>4, <2>1, <2>2, FailsOnFd
<1>5. CASE /\ n >= 0 /\ filePointer' = [filePointer EXCEPT ![req[t].fd] = n]
           /\ req[t].how = "FROM_END" /\ Goto(t, "endAgain")
  <2>1. /\ RInv' /\ running' = running /\ req' = req /\ ret' = ret /\ from' = from
        /\ taken' = [taken EXCEPT ![t] = status[t]] /\ Given' = Given
        /\ stage' = [stage EXCEPT ![t] = StageAt("endAgain", req[t].fd)]
    <3>1. Remembers("endAgain", req[t], status[t])
      BY <1>2 DEF Remembers
    <3>2. "endAgain" \in HoldSteps
      BY DEF HoldSteps, IOSteps
    <3> QED BY <1>1, <1>2, <1>3, <1>5, <3>1, <3>2, AfterGoto DEF Goto
  <2>2. taken' = taken /\ stage' = [stage EXCEPT ![t] = "moved"]
    BY <1>2, <2>1 DEF taken, StageAt
  <2>3. Contract!Move(t)
    BY <1>0, <1>1, <1>2, <1>5, <2>1, <2>2
       DEF Contract!Move, Contract!files, running, taken, stage, Holds
  <2> QED BY <2>1, <2>3 DEF Contract!Next
<1>6. CASE /\ n >= 0 /\ filePointer' = [filePointer EXCEPT ![req[t].fd] = n]
           /\ req[t].how # "FROM_END" /\ Return(t, Result(n))
  <2>1. /\ RInv' /\ running' = running /\ Given' = Given
        /\ Contract!Answer(t, Result(n)) /\ Contract!Over(t)
    BY <1>1, <1>2, <1>3, <1>6, AfterReturn
  <2>2. Contract!Answer(t, Contract!Result(n))
    BY <2>1, SameDisk
  <2>3. Contract!Answer(t, Contract!Result(from[t] + req[t].n))
    BY <1>0, <2>2 DEF Contract!Answer
  <2>4. /\ from[t] + req[t].n >= 0
        /\ filePointer' = [filePointer EXCEPT ![req[t].fd] = from[t] + req[t].n]
    BY <1>0, <1>6
  <2>5. Contract!Move(t)
    BY <1>1, <1>2, <1>6, <2>1, <2>3, <2>4, Zenon
       DEF Contract!Move, Contract!files, running, taken, stage, Holds
  <2> QED BY <2>1, <2>5 DEF Contract!Next
<1>7. \/ /\ n >= 0 /\ filePointer' = [filePointer EXCEPT ![req[t].fd] = n]
         /\ \/ req[t].how = "FROM_END" /\ Goto(t, "endAgain")
            \/ req[t].how # "FROM_END" /\ Return(t, Result(n))
      \/ n < 0 /\ Return(t, Error("EBUSY")) /\ UNCHANGED filePointer
  <2>1. Return(t, Result(from[t] + req[t].n)) => Return(t, Result(n))
    BY <1>0 DEF Return, Leave
  <2> QED BY <1>0, <2>1 DEF Seek, MoveTo
<1> QED BY <1>4, <1>5, <1>6, <1>7

LEMMA SeekEndAgainSeen ==
  ASSUME IInv, RInv, NEW t \in Threads, SeekEndAgain(t)
  PROVE  RInv' /\ [Contract!Next]_(Contract!vars)
<1>0. PICK n : n = length[status[t].file] + req[t].n
  OBVIOUS
<1>1. /\ pc[t] = "endAgain" /\ pc[t] \in IOSteps /\ Return(t, Result(n))
      /\ UNCHANGED <<table, disk>>
  <2>1. Return(t, Result(length[status[t].file] + req[t].n))
    BY DEF SeekEndAgain
  <2> QED BY <1>0, <2>1 DEF SeekEndAgain, IOSteps, Return, Leave
<1>2. pc[t] \notin {"off", "put"} /\ taken[t] = status[t] /\ stage[t] = "moved"
  BY <1>1, Working DEF stage, Stage
<1>3. /\ RInv' /\ running' = running /\ Given' = Given
      /\ Contract!Answer(t, Result(n)) /\ Contract!Over(t)
      /\ UNCHANGED <<fileTable, filePointer, names, length>>
  BY <1>1, <1>2, AfterReturn, Untouched
<1>4. Contract!Answer(t, Contract!Result(n))
  BY <1>3, SameDisk
<1>5. Contract!Answer(t, Contract!Result(length[taken[t].file] + req[t].n))
  BY <1>0, <1>2, <1>4 DEF Contract!Answer
<1>6. Contract!Report(t)
  BY <1>2, <1>3, <1>5, Zenon
     DEF Contract!Report, Contract!fds, Contract!files, running, taken, stage, Holds
<1> QED BY <1>3, <1>6 DEF Contract!Next

LEMMA IOFailsSeen ==
  ASSUME IInv, RInv, NEW t \in Threads, IOFails(t)
  PROVE  RInv' /\ [Contract!Next]_(Contract!vars)
<1>1. /\ pc[t] \in IOSteps /\ pc[t] \in FdSteps /\ IOMayFail
      /\ Return(t, Error("EBUSY")) /\ UNCHANGED <<table, disk>>
  BY DEF IOFails, FdSteps
<1>2. taken[t] # None
  BY <1>1, Working
<1>3. "EBUSY" \in Contract!FdErrors(t, req[t])
  BY <1>1, <1>2 DEF Contract!FdErrors, taken, Holds
<1> QED BY <1>1, <1>3, FailsOnFd

-----------------------------------------------------------------------------
(* unlink *)

LEMMA Unlinking ==
  ASSUME IInv, RInv, NEW t \in Threads, pc[t] \in UnlinkSteps
  PROVE  /\ req[t] # None /\ req[t].op = "unlink" /\ req[t].path \in Paths
         /\ req[t].how # "READ" /\ pc[t] # "off"
         /\ names[req[t].path] \in Inodes \cup {None, Dir}
<1>1. /\ req[t] # None /\ req[t].op = "unlink" /\ req[t].path \in Paths /\ pc[t] # "off"
  BY IInvSound DEF Sound, UnlinkSteps
<1>2. req[t] \in AllCalls /\ names[req[t].path] \in Inodes \cup {None, Dir}
  BY <1>1 DEF IInv, TypeOK
<1>3. req[t] \in UnlinkCalls
  BY <1>1, <1>2
     DEF AllCalls, OpenCalls, CloseCalls, BufferCalls, SeekCalls, Request
<1> QED BY <1>1, <1>2, <1>3 DEF UnlinkCalls, Request

LEMMA UnlinkExistsSeen ==
  ASSUME IInv, RInv, NEW t \in Threads, UnlinkExists(t)
  PROVE  RInv' /\ [Contract!Next]_(Contract!vars)
<1>1. /\ pc[t] = "unlinkExists" /\ pc[t] \in (OpenSteps \cup UnlinkSteps) \ {"put"}
      /\ UNCHANGED <<table, disk>>
  BY DEF UnlinkExists, UnlinkSteps
<1>2. CASE Exists(t)
  BY <1>1, <1>2, Invisible DEF UnlinkExists, Goto, Remembers, HoldSteps, IOSteps
<1>3. CASE ~Exists(t)
  <2>1. "ENOENT" \in Contract!PathErrors(req[t])
    BY <1>3 DEF Exists, Contract!PathErrors
  <2> QED BY <1>1, <1>3, <2>1, FailsOnPath DEF UnlinkExists
<1> QED BY <1>2, <1>3

LEMMA UnlinkIsDirectorySeen ==
  ASSUME IInv, RInv, NEW t \in Threads, UnlinkIsDirectory(t)
  PROVE  RInv' /\ [Contract!Next]_(Contract!vars)
<1>1. /\ pc[t] = "unlinkIsDirectory" /\ pc[t] \in UnlinkSteps
      /\ pc[t] \in (OpenSteps \cup UnlinkSteps) \ {"put"}
      /\ UNCHANGED <<table, disk>>
  BY DEF UnlinkIsDirectory, UnlinkSteps
<1>2. req[t].path \in Paths /\ req[t].how # "READ"
  BY <1>1, Unlinking
<1>3. CASE ~IsDirectory(t)
  <2>1. Remembers("delete", req[t], status[t])
    BY <1>3 DEF Remembers, IsDirectory, IOSteps
  <2> QED BY <1>1, <1>2, <1>3, <2>1, Invisible DEF UnlinkIsDirectory, Goto, HoldSteps, IOSteps
<1>4. CASE IsDirectory(t)
  <2>1. "EISDIR" \in Contract!PathErrors(req[t])
    BY <1>2, <1>4 DEF IsDirectory, Contract!PathErrors
  <2> QED BY <1>1, <1>4, <2>1, FailsOnPath DEF UnlinkIsDirectory
<1> QED BY <1>3, <1>4

LEMMA UnlinkDeleteSeen ==
  ASSUME IInv, RInv, NEW t \in Threads, UnlinkDelete(t)
  PROVE  RInv' /\ [Contract!Next]_(Contract!vars)
<1>1. /\ pc[t] = "delete" /\ pc[t] \in UnlinkSteps
      /\ pc[t] \in (OpenSteps \cup UnlinkSteps) \ {"put"}
      /\ UNCHANGED <<table, length>> /\ UNCHANGED <<globalFD, fileTable, filePointer>>
  BY DEF UnlinkDelete, UnlinkSteps, table
<1>2. /\ req[t] # None /\ req[t].op = "unlink" /\ req[t].path \in Paths
      /\ req[t].how # "READ" /\ pc[t] \notin {"off", "put"}
      /\ names[req[t].path] \in Inodes \cup {None}
  BY <1>1, Unlinking DEF RInv, Remembers
<1>3. CASE /\ Exists(t) /\ names' = [names EXCEPT ![req[t].path] = None]
           /\ Return(t, Result(0))
  <2>1. DirsStay
    BY <1>2, <1>3, DiskAssumption DEF DirsStay, IInv, TypeOK
  <2>2. /\ RInv' /\ running' = running /\ Given' = Given
        /\ Contract!Answer(t, Result(0)) /\ Contract!Over(t)
    BY <1>1, <1>2, <1>3, <2>1, AfterReturn
  <2>3. stage' = stage
    <3>1. Stage(t) = "none"
      BY <1>1 DEF Stage
    <3> QED BY <2>2, <3>1 DEF Contract!Over, stage
  <2>4. Contract!Answer(t, Contract!Result(0))
    BY <2>2, SameDisk
  <2>5. names[req[t].path] \in Inodes
    BY <1>2, <1>3 DEF Exists
  <2>6. Contract!Unlinked(t)
    BY <1>1, <1>2, <1>3, <2>2, <2>3, <2>4, <2>5
       DEF Contract!Unlinked, Contract!fds, running, stage
  <2> QED BY <2>2, <2>6 DEF Contract!Next
<1>4. CASE /\ ~Exists(t) \/ IsDirectory(t) \/ IOMayFail
           /\ Return(t, Error("EIO")) /\ UNCHANGED names
  <2>1. ~IsDirectory(t)
    BY <1>2, DiskAssumption DEF IsDirectory
  <2>2. "EIO" \in Contract!PathErrors(req[t])
    BY <1>2, <1>4, <2>1 DEF Exists, Contract!PathErrors
  <2>3. UNCHANGED <<table, disk>>
    BY <1>1, <1>4 DEF disk
  <2> QED BY <1>1, <1>4, <2>2, <2>3, FailsOnPath
<1> QED BY <1>3, <1>4 DEF UnlinkDelete

-----------------------------------------------------------------------------
LEMMA StepSeen ==
  ASSUME IInv, RInv, [Next]_vars
  PROVE  RInv' /\ [Contract!Next]_(Contract!vars)
<1>1. CASE UNCHANGED vars
  <2>1. UNCHANGED <<pc, req, ret, status, newFd, from, globalFD, fileTable, filePointer,
                    names, length>>
    BY <1>1 DEF vars
  <2>2. running' = running /\ taken' = taken /\ Given' = Given
    BY <2>1 DEF running, taken, Holds, Given
  <2>3. stage' = stage
    <3>1. \A t \in Threads : Stage(t)' = Stage(t)
      BY <2>1 DEF Stage, Keys
    <3> QED BY <3>1 DEF stage
  <2>4. ASSUME NEW t \in Threads
        PROVE  Remembers(pc[t], req[t], status[t])'
    BY <2>1 DEF RInv, Remembers
  <2> QED BY <2>1, <2>2, <2>3, <2>4 DEF RInv, Contract!vars, running, taken, stage, Holds
<1>2. ASSUME NEW t \in Threads, Open(t) \/ UseFd(t) \/ Unlink(t)
      PROVE  RInv' /\ [Contract!Next]_(Contract!vars)
  <2>1. CASE Open(t)
    BY <2>1, OpenExistsSeen, OpenIsDirectorySeen, OpenExistsNewSeen, OpenCreateSeen,
       OpenFileSeen, OpenNumberSeen, OpenPutSeen DEF Open
  <2>2. CASE UseFd(t)
    BY <2>2, ContainsKeySeen, RemoveSeen, GetSeen, WriteSeen, ReadSeen, MeasureSeen,
       SeekSeen, SeekEndAgainSeen, IOFailsSeen DEF UseFd
  <2>3. CASE Unlink(t)
    BY <2>3, UnlinkExistsSeen, UnlinkIsDirectorySeen, UnlinkDeleteSeen DEF Unlink
  <2> QED BY <1>2, <2>1, <2>2, <2>3
<1>3. ASSUME NEW t \in Threads, Connect(t) \/ ClientDone(t)
      PROVE  RInv' /\ [Contract!Next]_(Contract!vars)
  BY <1>3, ConnectSeen, ClientDoneSeen
<1>4. ASSUME NEW t \in Threads, NEW q \in AllCalls, Begin(t, q)
      PROVE  RInv' /\ [Contract!Next]_(Contract!vars)
  BY <1>4, BeginSeen
<1> QED BY <1>1, <1>2, <1>3, <1>4 DEF Next

LEMMA StartsSeen ==
  ASSUME Init
  PROVE  RInv /\ Contract!Init
<1>1. RInv
  BY DEF Init, RInv, Remembers, IOSteps
<1>2. running = {} /\ taken = [t \in Threads |-> None]
  BY DEF Init, running, taken, Holds, IOSteps
<1>3. stage = [t \in Threads |-> "none"]
  <2>1. \A t \in Threads : Stage(t) = "none"
    BY DEF Init, Stage
  <2> QED BY <2>1 DEF stage
<1>4. Given = {}
  BY DEF Init, Given, NeverFd, FirstFd
<1> QED BY <1>1, <1>2, <1>3, <1>4, SameDisk
        DEF Init, Contract!Init, running, taken, stage, Holds

(* The proxy keeps what FileHandling promises its clients, whatever        *)
(* descriptors they name and whenever they leave: although a method asks   *)
(* the file system, the table and the counter in several steps with those  *)
(* of other threads between them (Proxy.java 25-90, 97-101, 108-128,       *)
(* 133-152, 158-184, 192-210), every read, write, close and unlink takes   *)
(* effect at one point with the result it returns, open and lseek at the   *)
(* few points FileHandling names, and a call goes unanswered only if       *)
(* another client has closed its descriptor since it began.                *)
THEOREM Refinement == Spec => HandlesFiles
<1>1. Init => RInv /\ Contract!Init
  BY StartsSeen
<1>2. IInv /\ RInv /\ [Next]_vars => RInv' /\ [Contract!Next]_(Contract!vars)
  BY StepSeen
<1> QED BY <1>1, <1>2, Inductive, PTL DEF Spec, HandlesFiles, Contract!Spec
=============================================================================
