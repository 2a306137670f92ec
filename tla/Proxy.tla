-------------------------------- MODULE Proxy --------------------------------
(***************************************************************************)
(* The file proxy (Proxy.java).  RPCreceiver runs one thread per client;   *)
(* all of them share the static fileTable and globalFD and the directory   *)
(* they serve.  A step is one access to something shared - a question to   *)
(* the file system, an operation of the concurrent map, of the counter or  *)
(* of a file - with the thread's own computation that follows it.          *)
(*                                                                         *)
(* A client may name any descriptor: its own, one that was never given     *)
(* out, and those of other clients, which the proxy does not tell apart.   *)
(***************************************************************************)
EXTENDS Disk, FiniteSets

CONSTANTS
  Threads,    \* the client threads of the RPC receiver
  Ops,        \* the operations the clients call
  IOMayFail   \* whether the file system may refuse, for reasons of its own

ASSUME ProxyAssumption == IOMayFail \in BOOLEAN /\ IsFiniteSet(Threads)

VARIABLES
  pc,           \* pc[t]: "off", "ready" for a call, or what the thread does next
  req,          \* the call the thread executes
  ret,          \* what its latest call has returned
  status,       \* its local fileStatus
  newFd,        \* its local fd in open
  from,         \* the position its lseek counts from: curHeader, or the length
  globalFD,     \* the last descriptor given out
  fileTable,    \* fileTable[fd]: None, or the FileStatus
  filePointer,  \* the position of the file behind each descriptor
  names,        \* names[p]: the file, None, or Dir
  length        \* the length of each file

vars == <<pc, req, ret, status, newFd, from, globalFD, fileTable, filePointer, names, length>>
disk == <<names, length>>
table == <<globalFD, fileTable, filePointer>>

OpenSteps == {"exists", "isDirectory", "existsNew", "create", "openFile", "number", "put"}
IOSteps == {"io", "seek", "endAgain"}
FdSteps == {"containsKey", "remove", "get"} \cup IOSteps
UnlinkSteps == {"unlinkExists", "unlinkIsDirectory", "delete"}

(* A FileStatus under construction has no mode.                            *)
Drafts == [isDir : BOOLEAN, mode : {"r", "rw", None}, file : Inodes \cup {None}]
NewStatus == [isDir |-> FALSE, mode |-> None, file |-> None]

TypeOK ==
  /\ pc \in [Threads -> {"off", "ready"} \cup OpenSteps \cup FdSteps \cup UnlinkSteps]
  /\ req \in [Threads -> AllCalls \cup {None}]
  /\ ret \in [Threads -> Results \cup {None}]
  /\ status \in [Threads -> Drafts]
  /\ newFd \in [Threads -> Int]
  /\ from \in [Threads -> Int]
  /\ globalFD \in Int
  /\ fileTable \in [Fds -> Statuses \cup {None}]
  /\ filePointer \in [Fds -> Int]
  /\ names \in [Paths -> Inodes \cup {None, Dir}]
  /\ length \in [Inodes -> Int]

(* Names are not links: two of them never lead to one file.                *)
Init ==
  /\ pc = [t \in Threads |-> "off"]
  /\ req = [t \in Threads |-> None]
  /\ ret = [t \in Threads |-> None]
  /\ status = [t \in Threads |-> NewStatus]
  /\ newFd = [t \in Threads |-> NeverFd]
  /\ from = [t \in Threads |-> 0]
  /\ globalFD = NeverFd
  /\ fileTable = [fd \in Fds |-> None]
  /\ filePointer = [fd \in Fds |-> 0]
  /\ names \in [Paths -> Inodes \cup {None, Dir}]
  /\ \A p, q \in Paths : names[p] \in Inodes /\ names[p] = names[q] => p = q
  /\ length = [i \in Inodes |-> 0]

Keys == {fd \in Fds : fileTable[fd] # None}
Exists(t) == names[req[t].path] # None
IsDirectory(t) == names[req[t].path] = Dir

(* Thread t goes on with step l, with FileStatus s.                        *)
GotoWith(t, l, s) ==
  /\ pc' = [pc EXCEPT ![t] = l]
  /\ status' = [status EXCEPT ![t] = s]
  /\ UNCHANGED <<req, ret, newFd, from>>
Goto(t, l) == GotoWith(t, l, status[t])

(* The locals of thread t's method are gone, with what it has returned: it *)
(* is ready for the next call, or at its end.                              *)
Leave(t, l, r) ==
  /\ pc' = [pc EXCEPT ![t] = l]
  /\ ret' = [ret EXCEPT ![t] = r]
  /\ req' = [req EXCEPT ![t] = None]
  /\ status' = [status EXCEPT ![t] = NewStatus]
  /\ newFd' = [newFd EXCEPT ![t] = NeverFd]
  /\ from' = [from EXCEPT ![t] = 0]
Return(t, r) == Leave(t, "ready", r)

(* The method throws what the receiver does not catch: the thread ends and *)
(* the client gets no answer.                                              *)
Throw(t) == Leave(t, "off", None)

-----------------------------------------------------------------------------
(* Clients *)

(* RPCreceiver starts a thread for a new client: newclient.                *)
Connect(t) ==
  /\ pc[t] = "off"
  /\ Goto(t, "ready")
  /\ UNCHANGED <<table, disk>>

(* clientdone, which does nothing.  In the variant it clears the table.    *)
ClientDoneClears(t) == fileTable' = [fd \in Fds |-> None]
ClientDoneEffect(t) == UNCHANGED fileTable

ClientDone(t) ==
  /\ pc[t] = "ready"
  /\ Leave(t, "off", None)
  /\ ClientDoneEffect(t)
  /\ UNCHANGED <<globalFD, filePointer, disk>>

(* Bound: a descriptor is left for every open under way.                   *)
OpensUnderWay == {t \in Threads : pc[t] \in OpenSteps \ {"put"}}
WithinBounds(q) == q.op = "open" => globalFD + Cardinality(OpensUnderWay) < MaxFd

(* The first step of a call whose path is not null.                        *)
FirstStep(q) ==
  CASE q.op = "open" ->
         IF q.how \in {"CREATE", "CREATE_NEW"} THEN "isDirectory" ELSE "exists"
    [] q.op = "unlink" -> "unlinkExists"
    [] OTHER -> "containsKey"

(* The thread receives a call; a null path is answered at once.            *)
Begin(t, q) ==
  /\ pc[t] = "ready"
  /\ q.op \in Ops
  /\ WithinBounds(q)
  /\ IF q.op \in {"open", "unlink"} /\ q.path = None
     THEN Return(t, Error(IF q.op = "open" THEN "EINVAL" ELSE "ENOENT"))
     ELSE /\ pc' = [pc EXCEPT ![t] = FirstStep(q)]
          /\ req' = [req EXCEPT ![t] = q]
          /\ ret' = [ret EXCEPT ![t] = None]
          /\ UNCHANGED <<status, newFd, from>>
  /\ UNCHANGED <<table, disk>>

-----------------------------------------------------------------------------
(* open *)

OpenExists(t) ==
  /\ pc[t] = "exists"
  /\ IF Exists(t) THEN Goto(t, "isDirectory") ELSE Return(t, Error("ENOENT"))
  /\ UNCHANGED <<table, disk>>

(* setMode; the variant leaves it out with CREATE and CREATE_NEW.          *)
ModeUnset(how) == CASE how = "READ" -> "r" [] how = "WRITE" -> "rw" [] OTHER -> None
Mode(how) == IF how = "READ" THEN "r" ELSE "rw"

(* isDirectory, and the switch.                                            *)
OpenIsDirectory(t) ==
  LET how == req[t].how
      s == [isDir |-> IsDirectory(t), mode |-> Mode(how), file |-> None]
  IN /\ pc[t] = "isDirectory"
     /\ CASE how = "READ" -> GotoWith(t, IF s.isDir THEN "number" ELSE "openFile", s)
          [] how = "CREATE_NEW" -> GotoWith(t, "existsNew", s)
          [] how \in {"WRITE", "CREATE"} /\ s.isDir -> Return(t, Error("EISDIR"))
          [] how = "WRITE" /\ ~s.isDir -> GotoWith(t, "openFile", s)
          [] how = "CREATE" /\ ~s.isDir -> GotoWith(t, "create", s)
     /\ UNCHANGED <<table, disk>>

(* CREATE_NEW asks again, and falls through to CREATE.                     *)
OpenExistsNew(t) ==
  /\ pc[t] = "existsNew"
  /\ CASE Exists(t) -> Return(t, Error("EEXIST"))
       [] ~Exists(t) /\ status[t].isDir -> Return(t, Error("EISDIR"))
       [] OTHER -> Goto(t, "create")
  /\ UNCHANGED <<table, disk>>

(* A file that is neither named nor open.                                  *)
Fresh(i) ==
  /\ \A p \in Paths : names[p] # i
  /\ \A fd \in Keys : fileTable[fd].file # i
  /\ \A t \in Threads : status[t].file # i

MakeFile(p) ==
  \E i \in Inodes :
    /\ Fresh(i)
    /\ names' = [names EXCEPT ![p] = i]
    /\ length' = [length EXCEPT ![i] = 0]

(* createNewFile does nothing if the file exists; the variant empties it.  *)
CreateAgainEmpties(t) ==
  names' = names /\ length' = [length EXCEPT ![names[req[t].path]] = 0]
CreateAgain(t) == UNCHANGED disk

(* open ignores what createNewFile answers.                                *)
OpenCreate(t) ==
  /\ pc[t] = "create"
  /\ \/ /\ IF Exists(t) THEN CreateAgain(t) ELSE MakeFile(req[t].path)
        /\ Goto(t, "openFile")
     \/ /\ IOMayFail
        /\ Return(t, Error("EIO"))
        /\ UNCHANGED disk
  /\ UNCHANGED table

(* new RandomAccessFile: in mode "rw" it creates a file that is missing.   *)
OpenFile(t) ==
  /\ pc[t] = "openFile"
  /\ \/ /\ Exists(t) /\ ~IsDirectory(t)
        /\ UNCHANGED disk
        /\ GotoWith(t, "number", [status[t] EXCEPT !.file = names[req[t].path]])
     \/ /\ ~Exists(t) /\ status[t].mode = "rw"
        /\ MakeFile(req[t].path)
        /\ GotoWith(t, "number", [status[t] EXCEPT !.file = names'[req[t].path]])
     \/ /\ IOMayFail \/ IsDirectory(t) \/ (~Exists(t) /\ status[t].mode = "r")
        /\ Return(t, Error("ENOENT"))
        /\ UNCHANGED disk
  /\ UNCHANGED table

(* globalFD.incrementAndGet(); WithinBounds has left a descriptor for it.  *)
OpenNumber(t) ==
  /\ pc[t] = "number"
  /\ globalFD < MaxFd
  /\ globalFD' = globalFD + 1
  /\ newFd' = [newFd EXCEPT ![t] = globalFD + 1]
  /\ pc' = [pc EXCEPT ![t] = "put"]
  /\ UNCHANGED <<req, ret, status, from, fileTable, filePointer, disk>>

(* The descriptor open returns; the variant reads the counter again.       *)
NumberOfLatest(t) == globalFD
Number(t) == newFd[t]

(* fileTable.put, and open returns.                                        *)
OpenPut(t) ==
  /\ pc[t] = "put"
  /\ fileTable' = [fileTable EXCEPT ![Number(t)] = status[t]]
  /\ filePointer' = [filePointer EXCEPT ![Number(t)] = 0]
  /\ Return(t, Result(Number(t)))
  /\ UNCHANGED <<globalFD, disk>>

-----------------------------------------------------------------------------
(* close, read, write, lseek *)

ContainsKey(t) ==
  /\ pc[t] = "containsKey"
  /\ IF req[t].fd \in Keys
     THEN Goto(t, IF req[t].op = "close" THEN "remove" ELSE "get")
     ELSE Return(t, Error("EBADF"))
  /\ UNCHANGED <<table, disk>>

(* The entry goes, its file is not closed.                                 *)
Remove(t) ==
  /\ pc[t] = "remove"
  /\ fileTable' = [fileTable EXCEPT ![req[t].fd] = None]
  /\ Return(t, Result(0))
  /\ UNCHANGED <<globalFD, filePointer, disk>>

(* The test of write; the variant leaves it out.                           *)
RefusesNothing(q, s) == FALSE
ReadOnly(q, s) == q.op = "write" /\ s.mode = "r"

(* fileTable.get and the tests of the FileStatus, which is null if another *)
(* client has closed the descriptor since containsKey.                     *)
Get(t) ==
  LET s == fileTable[req[t].fd] IN
  /\ pc[t] = "get"
  /\ CASE s = None -> Throw(t)
       [] s # None /\ s.isDir -> Return(t, Error("EISDIR"))
       [] s # None /\ ~s.isDir /\ ReadOnly(req[t], s) -> Return(t, Error("EBADF"))
       [] s # None /\ ~s.isDir /\ ~ReadOnly(req[t], s) -> GotoWith(t, "io", s)
  /\ UNCHANGED <<table, disk>>

(* The file behind t's descriptor, also if that is closed by now, is moved *)
(* to position n.                                                          *)
MoveTo(t, n) == n <= MaxLength /\ filePointer' = [filePointer EXCEPT ![req[t].fd] = n]

Write(t) ==
  LET q == req[t]
      end == filePointer[q.fd] + q.n
  IN /\ pc[t] = "io" /\ q.op = "write"
     /\ length' = [length EXCEPT ![status[t].file] = Larger(@, end)]
     /\ MoveTo(t, end)
     /\ Return(t, Result(q.n))
     /\ UNCHANGED <<globalFD, fileTable, names>>

Read(t) ==
  LET q == req[t]
      n == Readable(length[status[t].file], filePointer[q.fd], q.n)
  IN /\ pc[t] = "io" /\ q.op = "read"
     /\ filePointer' = [filePointer EXCEPT ![q.fd] = @ + n]
     /\ Return(t, Result(n))
     /\ UNCHANGED <<globalFD, fileTable, disk>>

(* lseek reads what it counts from: the position, or the length.           *)
Measure(t) ==
  LET q == req[t] IN
  /\ pc[t] = "io" /\ q.op = "lseek"
  /\ from' = [from EXCEPT ![t] = Base(q.how, length[status[t].file], filePointer[q.fd])]
  /\ pc' = [pc EXCEPT ![t] = "seek"]
  /\ UNCHANGED <<req, ret, status, newFd, table, disk>>

(* seek throws if the position is negative.  With FROM_END the length is   *)
(* asked for a second time after it.                                       *)
Seek(t) ==
  LET n == from[t] + req[t].n IN
  /\ pc[t] = "seek"
  /\ \/ /\ n >= 0 /\ MoveTo(t, n)
        /\ IF req[t].how = "FROM_END" THEN Goto(t, "endAgain") ELSE Return(t, Result(n))
     \/ /\ n < 0
        /\ Return(t, Error("EBUSY"))
        /\ UNCHANGED filePointer
  /\ UNCHANGED <<globalFD, fileTable, disk>>

SeekEndAgain(t) ==
  /\ pc[t] = "endAgain"
  /\ Return(t, Result(length[status[t].file] + req[t].n))
  /\ UNCHANGED <<table, disk>>

IOFails(t) ==
  /\ pc[t] \in IOSteps
  /\ IOMayFail
  /\ Return(t, Error("EBUSY"))
  /\ UNCHANGED <<table, disk>>

-----------------------------------------------------------------------------
(* unlink *)

UnlinkExists(t) ==
  /\ pc[t] = "unlinkExists"
  /\ IF Exists(t) THEN Goto(t, "unlinkIsDirectory") ELSE Return(t, Error("ENOENT"))
  /\ UNCHANGED <<table, disk>>

UnlinkIsDirectory(t) ==
  /\ pc[t] = "unlinkIsDirectory"
  /\ IF IsDirectory(t) THEN Return(t, Error("EISDIR")) ELSE Goto(t, "delete")
  /\ UNCHANGED <<table, disk>>

(* delete answers false if the name is gone by now.                        *)
UnlinkDelete(t) ==
  /\ pc[t] = "delete"
  /\ \/ /\ Exists(t) /\ ~IsDirectory(t)
        /\ names' = [names EXCEPT ![req[t].path] = None]
        /\ Return(t, Result(0))
     \/ /\ ~Exists(t) \/ IsDirectory(t) \/ IOMayFail
        /\ Return(t, Error("EIO"))
        /\ UNCHANGED names
  /\ UNCHANGED <<table, length>>

-----------------------------------------------------------------------------
Open(t) ==
  \/ OpenExists(t) \/ OpenIsDirectory(t) \/ OpenExistsNew(t) \/ OpenCreate(t)
  \/ OpenFile(t) \/ OpenNumber(t) \/ OpenPut(t)
UseFd(t) ==
  \/ ContainsKey(t) \/ Remove(t) \/ Get(t)
  \/ Write(t) \/ Read(t) \/ Measure(t) \/ Seek(t) \/ SeekEndAgain(t) \/ IOFails(t)
Unlink(t) == UnlinkExists(t) \/ UnlinkIsDirectory(t) \/ UnlinkDelete(t)

Next ==
  \E t \in Threads :
    \/ Connect(t) \/ ClientDone(t)
    \/ \E q \in AllCalls : Begin(t, q)
    \/ Open(t) \/ UseFd(t) \/ Unlink(t)

Spec == Init /\ [][Next]_vars
-----------------------------------------------------------------------------
(* Properties *)

(* The descriptors open has returned.                                      *)
Given ==
  (FirstFd..globalFD) \ {newFd[t] : t \in {u \in Threads : pc[u] = "put"}}

(* No two opens get one descriptor, and none gets a descriptor that is in  *)
(* the table or was there before, although every thread draws from one     *)
(* counter and puts later, in any order (Proxy.java 89-90).                *)
Unique ==
  /\ globalFD \in NeverFd..MaxFd
  /\ Keys \subseteq Given
  /\ \A t \in Threads : pc[t] = "put" => newFd[t] \in FirstFd..globalFD
  /\ \A t, u \in Threads :
       t # u /\ pc[t] = "put" /\ pc[u] = "put" => newFd[t] # newFd[u]

(* containsKey, get and the use of the file are steps of their own, and    *)
(* any client may close the descriptor between them (Proxy.java 97-101,    *)
(* 108-122).  The entry may then be gone, but it is never another one: a   *)
(* file in use is the descriptor's, or the descriptor is closed for good.  *)
Held ==
  \A t \in Threads :
    /\ pc[t] \in FdSteps \ {"containsKey"} => req[t].fd \in Given
    /\ pc[t] \in IOSteps /\ req[t].fd \in Keys => status[t] = fileTable[req[t].fd]

(* Every open file has a mode, and a file behind it unless it is a         *)
(* directory, so that no method calls a null String or RandomAccessFile,   *)
(* although what the path leads to is asked once to set isDir and again to *)
(* open it (Proxy.java 27, 36, 40, 117).                                   *)
Backed(s) == s.mode # None /\ (s.isDir <=> s.file = None)
FileBehind ==
  /\ \A fd \in Keys : Backed(fileTable[fd])
  /\ \A t \in Threads :
       /\ pc[t] \in {"number", "put"} \cup IOSteps => Backed(status[t])
       /\ pc[t] \in IOSteps => ~status[t].isDir
       /\ pc[t] \in {"create", "openFile"} => ~status[t].isDir
       /\ pc[t] \in {"existsNew", "create", "openFile"} => status[t].mode # None

(* What a step of a method says of the call and the descriptor at hand.    *)
AtStep(t) ==
  /\ pc[t] \in {"off", "ready"} <=> req[t] = None
  /\ pc[t] \in OpenSteps => req[t].op = "open" /\ req[t].path \in Paths
  /\ pc[t] \in UnlinkSteps => req[t].op = "unlink" /\ req[t].path \in Paths
  /\ pc[t] \in FdSteps => req[t].op \in {"close", "read", "write", "lseek"}
  /\ pc[t] \in {"seek", "endAgain"} => req[t].op = "lseek"
  /\ pc[t] = "endAgain" => req[t].how = "FROM_END"

(* The inductive invariant.                                                *)
IInv ==
  /\ TypeOK
  /\ Unique
  /\ Held
  /\ FileBehind
  /\ \A t \in Threads : AtStep(t)

(* The lseek of t answers a position, at its last step; and that to which  *)
(* it has moved the descriptor, wherever others may have moved it since.   *)
SeekAnswers(t) ==
  /\ pc[t] \in {"seek", "endAgain"} /\ pc'[t] = "ready"
  /\ ret'[t].error = "none"
MovedTo(t) == from[t] + req[t].n

(* An lseek from the end asks for the length twice, and other clients may  *)
(* write, unlink and create in between (Proxy.java 176-178).  What it      *)
(* returns may then lie behind the position it has moved to, but never     *)
(* before it: nobody shortens a file that is in use, though its descriptor *)
(* be closed and its name unlinked.                                        *)
SeekAtLeast ==
  [][\A t \in Threads : SeekAnswers(t) => ret'[t].value >= MovedTo(t)]_vars

(* lseek "returns the new position" (FileHandling.html 347), also if it    *)
(* counts from the end of a file that other clients write to (Proxy.java   *)
(* 176, 178).                                                              *)
SeekEndTrue ==
  [][\A t \in Threads : SeekAnswers(t) => ret'[t].value = MovedTo(t)]_vars

(* The proxy keeps what FileHandling promises every client, whatever the   *)
(* others do with the same descriptors, also when they leave - with the    *)
(* exceptions FileHandling.tla states.                                     *)
Stage(t) ==
  CASE pc[t] \in {"remove", "get"} /\ req[t].fd \notin Keys -> "lost"
    [] pc[t] = "seek" -> "aimed"
    [] pc[t] = "endAgain" -> "moved"
    [] OTHER -> "none"
Contract == INSTANCE FileHandling WITH
  Clients <- Threads,
  running <- {t \in Threads : pc[t] # "off"},
  call <- req,
  result <- ret,
  taken <- [t \in Threads |-> IF pc[t] \in {"number", "put"} \cup IOSteps THEN status[t] ELSE None],
  stage <- [t \in Threads |-> Stage(t)],
  given <- Given,
  tbl <- fileTable,
  pos <- filePointer
HandlesFiles == Contract!Spec

(* OpenOption.CREATE_NEW: "Create new file for read/write, returning error *)
(* if it already exists" (FileHandling.OpenOption.html 292): no two of the *)
(* clients that have asked for a new file are given the same one.          *)
WantsNew(t) == pc[t] \in {"number", "put"} /\ req[t].how = "CREATE_NEW"
CreatesNew ==
  \A t, u \in Threads :
    t # u /\ WantsNew(t) /\ WantsNew(u) => status[t].file # status[u].file
=============================================================================
