----------------------------- MODULE ProxyProofs -----------------------------
(***************************************************************************)
(* Proofs about Proxy: IInv is inductive, for any number of client threads *)
(* and any directory.  Most steps change only what their own thread        *)
(* remembers; LocalStep is the argument they share.  The others - a number *)
(* is drawn, an entry is put or removed - have a lemma each.               *)
(***************************************************************************)
EXTENDS Proxy, TLAPS

Labels == {"off", "ready"} \cup OpenSteps \cup FdSteps \cup UnlinkSteps

(* What the components of a call are.                                      *)
LEMMA CallParts ==
  ASSUME NEW q \in AllCalls
  PROVE  /\ q.op \in {"open", "unlink", "close", "read", "write", "lseek"}
         /\ q.op = "lseek" => q.how \in Whences
         /\ q.path \in Paths \cup {None}
         /\ q.fd \in Fds \cup {NeverFd}
         /\ q.n \in Int
         /\ q.op = "open" => q.how \in Options
         /\ q # None
<1>0. q # None
  BY NoneAssumption
<1>1. CASE q \in OpenCalls
  BY <1>0, <1>1 DEF OpenCalls, Request
<1>2. CASE q \in UnlinkCalls
  BY <1>0, <1>2 DEF UnlinkCalls, Request
<1>3. CASE q \in CloseCalls
  BY <1>0, <1>3 DEF CloseCalls, Request
<1>4. CASE q \in BufferCalls
  BY <1>0, <1>4, DiskAssumption DEF BufferCalls, Request
<1>5. CASE q \in SeekCalls
  BY <1>0, <1>5, DiskAssumption DEF SeekCalls, Request
<1> QED BY <1>1, <1>2, <1>3, <1>4, <1>5 DEF AllCalls

(* What thread t, at step l of call r with FileStatus s, may rely on.      *)
Sound(t, l, r, s) ==
  /\ l \in {"off", "ready"} <=> r = None
  /\ l \in OpenSteps => r.op = "open" /\ r.path \in Paths
  /\ l \in UnlinkSteps => r.op = "unlink" /\ r.path \in Paths
  /\ l \in FdSteps => r.op \in {"close", "read", "write", "lseek"}
  /\ l \in {"seek", "endAgain"} => r.op = "lseek"
  /\ l = "endAgain" => r.how = "FROM_END"
  /\ l \in FdSteps \ {"containsKey"} => r.fd \in Given
  /\ l \in IOSteps /\ r.fd \in Keys => s = fileTable[r.fd]
  /\ l \in IOSteps => Backed(s) /\ ~s.isDir
  /\ l \in {"number", "put"} => Backed(s)
  /\ l \in {"create", "openFile"} => ~s.isDir
  /\ l \in {"existsNew", "create", "openFile"} => s.mode # None

LEMMA IInvSound ==
  ASSUME IInv, NEW t \in Threads
  PROVE  Sound(t, pc[t], req[t], status[t])
BY DEF IInv, AtStep, Held, FileBehind, Sound

LEMMA SoundIInv ==
  ASSUME TypeOK, Unique,
         \A t \in Threads : Sound(t, pc[t], req[t], status[t]),
         \A fd \in Keys : Backed(fileTable[fd])
  PROVE  IInv
BY DEF IInv, AtStep, Held, FileBehind, Sound

(* A step of thread t that leaves the table and the counter alone.         *)
LEMMA LocalStep ==
  ASSUME IInv, NEW t \in Threads, pc[t] # "put",
         NEW l \in Labels \ {"put"}, NEW r \in AllCalls \cup {None}, NEW s \in Drafts,
         pc' = [pc EXCEPT ![t] = l],
         req' = [req EXCEPT ![t] = r],
         status' = [status EXCEPT ![t] = s],
         newFd' \in [Threads -> Int],
         \A u \in Threads : u # t => newFd'[u] = newFd[u],
         from' \in [Threads -> Int],
         ret' \in [Threads -> Results \cup {None}],
         UNCHANGED <<globalFD, fileTable>>,
         filePointer' \in [Fds -> Int],
         names' \in [Paths -> Inodes \cup {None, Dir}],
         length' \in [Inodes -> Int],
         Sound(t, l, r, s)
  PROVE  IInv'
<1>1. TypeOK'
  BY DEF IInv, TypeOK, Labels
<1>2. /\ pc'[t] = l /\ req'[t] = r /\ status'[t] = s
      /\ \A u \in Threads : u # t =>
           pc'[u] = pc[u] /\ req'[u] = req[u] /\ status'[u] = status[u]
  BY DEF IInv, TypeOK
<1>3. Keys' = Keys /\ Given' = Given
  <2>1. \A u \in Threads : pc'[u] = "put" <=> pc[u] = "put"
    BY <1>2
  <2>2. \A u \in Threads : pc[u] = "put" => newFd'[u] = newFd[u]
    OBVIOUS
  <2> QED BY <2>1, <2>2 DEF Keys, Given
<1>4. Unique'
  BY <1>2, <1>3 DEF IInv, Unique
<1>5. ASSUME NEW u \in Threads
      PROVE  Sound(u, pc[u], req[u], status[u])'
  <2>2. CASE u = t
    BY <1>2, <1>3, <2>2 DEF Sound, Backed
  <2>3. CASE u # t
    BY <1>2, <1>3, <2>3, IInvSound DEF Sound, Backed
  <2> QED BY <2>2, <2>3
<1>6. (\A fd \in Keys : Backed(fileTable[fd]))'
  BY <1>3 DEF IInv, FileBehind, Backed
<1> QED BY <1>1, <1>4, <1>5, <1>6 DEF IInv, AtStep, Held, FileBehind, Sound

(* The ways such a step ends.                                              *)
LEMMA LeaveStep ==
  ASSUME IInv, NEW t \in Threads, pc[t] # "put",
         NEW l \in {"off", "ready"}, NEW m \in Results \cup {None}, Leave(t, l, m),
         UNCHANGED <<globalFD, fileTable>>,
         filePointer' \in [Fds -> Int],
         names' \in [Paths -> Inodes \cup {None, Dir}],
         length' \in [Inodes -> Int]
  PROVE  IInv'
<1>1. l \in Labels \ {"put"} /\ NewStatus \in Drafts
  BY DEF Labels, OpenSteps, NewStatus, Drafts
<1>2. /\ newFd' \in [Threads -> Int] /\ from' \in [Threads -> Int]
      /\ \A u \in Threads : u # t => newFd'[u] = newFd[u]
      /\ ret' \in [Threads -> Results \cup {None}]
  BY DEF IInv, TypeOK, Leave, NeverFd, FirstFd
<1>3. Sound(t, l, None, NewStatus)
  BY DEF Sound, OpenSteps, UnlinkSteps, FdSteps, IOSteps, IOSteps
<1> QED BY <1>1, <1>2, <1>3, LocalStep DEF Leave

LEMMA ReturnStep ==
  ASSUME IInv, NEW t \in Threads, pc[t] # "put", NEW m \in Results, Return(t, m),
         UNCHANGED <<globalFD, fileTable>>,
         filePointer' \in [Fds -> Int],
         names' \in [Paths -> Inodes \cup {None, Dir}],
         length' \in [Inodes -> Int]
  PROVE  IInv'
BY LeaveStep DEF Return

LEMMA GotoStep ==
  ASSUME IInv, NEW t \in Threads, pc[t] # "put",
         NEW l \in Labels \ {"put"}, NEW s \in Drafts, GotoWith(t, l, s),
         UNCHANGED <<globalFD, fileTable>>,
         filePointer' \in [Fds -> Int],
         names' \in [Paths -> Inodes \cup {None, Dir}],
         length' \in [Inodes -> Int],
         Sound(t, l, req[t], s)
  PROVE  IInv'
<1>1. /\ newFd' \in [Threads -> Int] /\ from' \in [Threads -> Int]
      /\ \A u \in Threads : u # t => newFd'[u] = newFd[u]
      /\ ret' \in [Threads -> Results \cup {None}]
      /\ req[t] \in AllCalls \cup {None}
      /\ req' = [req EXCEPT ![t] = req[t]]
  BY DEF IInv, TypeOK, GotoWith
<1> QED BY <1>1, LocalStep DEF GotoWith

(* The results that methods return.                                        *)
LEMMA ResultTypes ==
  /\ \A e \in Errors : Error(e) \in Results
  /\ \A n \in Int : Result(n) \in Results
BY DEF Error, Result, Results, Errors

LEMMA Shared ==
  ASSUME IInv, UNCHANGED <<table, disk>>
  PROVE  /\ UNCHANGED <<globalFD, fileTable>>
         /\ filePointer' \in [Fds -> Int]
         /\ names' \in [Paths -> Inodes \cup {None, Dir}]
         /\ length' \in [Inodes -> Int]
BY DEF IInv, TypeOK, table, disk

(* The steps of open that neither make a file nor take a number.           *)
LEMMA OpenExistsStep ==
  ASSUME IInv, NEW t \in Threads, OpenExists(t)
  PROVE  IInv'
<1>1. Sound(t, "exists", req[t], status[t]) /\ status[t] \in Drafts
  BY IInvSound DEF OpenExists, IInv, TypeOK
<1>2. CASE Exists(t)
  <2>1. GotoWith(t, "isDirectory", status[t])
    BY <1>2 DEF OpenExists, Goto
  <2>2. Sound(t, "isDirectory", req[t], status[t])
    BY <1>1 DEF Sound, OpenSteps, UnlinkSteps, FdSteps, IOSteps
  <2>3. "isDirectory" \in Labels \ {"put"}
    BY DEF Labels, OpenSteps
  <2> QED BY <1>1, <2>1, <2>2, <2>3, Shared, GotoStep DEF OpenExists
<1>3. CASE ~Exists(t)
  BY <1>3, Shared, ReturnStep, ResultTypes DEF OpenExists, Errors
<1> QED BY <1>2, <1>3

LEMMA OpenIsDirectoryStep ==
  ASSUME IInv, NEW t \in Threads, OpenIsDirectory(t)
  PROVE  IInv'
<1> DEFINE how == req[t].how
           s == [isDir |-> IsDirectory(t), mode |-> Mode(how), file |-> None]
<1>1. Sound(t, "isDirectory", req[t], status[t]) /\ s \in Drafts
  BY IInvSound DEF OpenIsDirectory, IsDirectory, Drafts, Mode
<1>2. req[t].op = "open" /\ req[t].path \in Paths /\ req[t] # None
  BY <1>1 DEF Sound, OpenSteps
<1>3. how \in {"READ", "WRITE", "CREATE", "CREATE_NEW"}
  <2>1. req[t] \in AllCalls
    BY <1>2 DEF IInv, TypeOK
  <2> QED BY <1>2, <2>1, CallParts, DiskAssumption
<1>4. \A l \in {"number", "openFile", "existsNew", "create"} : l \in Labels \ {"put"}
  BY DEF Labels, OpenSteps
<1>10. s.mode # None
  BY NoneAssumption DEF Mode
<1>5. \A l \in {"number", "openFile", "existsNew", "create"} :
        (l \in {"openFile", "create"} => ~s.isDir) /\ (l = "number" => s.isDir)
          => Sound(t, l, req[t], s)
  BY <1>2, <1>10 DEF Sound, OpenSteps, UnlinkSteps, FdSteps, IOSteps, Backed
<1>6. \/ \E l \in {"number", "openFile", "existsNew", "create"} :
           /\ GotoWith(t, l, s)
           /\ (l \in {"openFile", "create"} => ~s.isDir) /\ (l = "number" => s.isDir)
      \/ Return(t, Error("EISDIR"))
  <2>1. CASE how = "READ"
    BY <2>1 DEF OpenIsDirectory
  <2>2. CASE how = "CREATE_NEW"
    BY <2>2 DEF OpenIsDirectory
  <2>3. CASE how = "WRITE"
    BY <2>3 DEF OpenIsDirectory
  <2>4. CASE how = "CREATE"
    BY <2>4 DEF OpenIsDirectory
  <2> QED BY <1>3, <2>1, <2>2, <2>3, <2>4
<1>7. UNCHANGED <<table, disk>> /\ pc[t] # "put"
  BY DEF OpenIsDirectory
<1>8. CASE Return(t, Error("EISDIR"))
  BY <1>7, <1>8, Shared, ReturnStep, ResultTypes DEF Errors
<1>9. ASSUME NEW l \in {"number", "openFile", "existsNew", "create"}, GotoWith(t, l, s),
             (l \in {"openFile", "create"} => ~s.isDir) /\ (l = "number" => s.isDir)
      PROVE  IInv'
  <2>1. Sound(t, l, req[t], s) /\ l \in Labels \ {"put"}
    BY <1>4, <1>5, <1>9
  <2> QED BY <1>1, <1>7, <1>9, <2>1, Shared, GotoStep
<1> QED BY <1>6, <1>8, <1>9

LEMMA OpenExistsNewStep ==
  ASSUME IInv, NEW t \in Threads, OpenExistsNew(t)
  PROVE  IInv'
<1>1. Sound(t, "existsNew", req[t], status[t]) /\ status[t] \in Drafts
  BY IInvSound DEF OpenExistsNew, IInv, TypeOK
<1>2. \/ \E e \in {"EEXIST", "EISDIR"} : Return(t, Error(e))
      \/ GotoWith(t, "create", status[t]) /\ ~status[t].isDir
  <2>1. status[t].isDir \in BOOLEAN
    BY <1>1 DEF Drafts
  <2> QED BY <2>1 DEF OpenExistsNew, Goto
<1>3. ASSUME NEW e \in {"EEXIST", "EISDIR"}, Return(t, Error(e))
      PROVE  IInv'
  BY <1>3, Shared, ReturnStep, ResultTypes DEF Errors, OpenExistsNew
<1>4. ASSUME GotoWith(t, "create", status[t]), ~status[t].isDir
      PROVE  IInv'
  <2>1. Sound(t, "create", req[t], status[t])
    BY <1>1, <1>4 DEF Sound, OpenSteps, UnlinkSteps, FdSteps, IOSteps
  <2>2. "create" \in Labels \ {"put"}
    BY DEF Labels, OpenSteps
  <2> QED BY <1>1, <1>4, <2>1, <2>2, Shared, GotoStep DEF OpenExistsNew
<1> QED BY <1>2, <1>3, <1>4

(* The steps of open that may make a file.                                 *)
LEMMA MakeFileTypes ==
  ASSUME IInv, NEW p \in Paths, MakeFile(p)
  PROVE  /\ names' \in [Paths -> Inodes \cup {None, Dir}]
         /\ length' \in [Inodes -> Int]
         /\ names'[p] \in Inodes
BY DEF IInv, TypeOK, MakeFile

LEMMA OpenCreateStep ==
  ASSUME IInv, NEW t \in Threads, OpenCreate(t)
  PROVE  IInv'
<1>1. /\ Sound(t, "create", req[t], status[t]) /\ status[t] \in Drafts
      /\ req[t].path \in Paths
  BY IInvSound DEF OpenCreate, IInv, TypeOK, Sound, OpenSteps
<1>2. /\ UNCHANGED <<globalFD, fileTable>>
      /\ filePointer' \in [Fds -> Int]
      /\ names' \in [Paths -> Inodes \cup {None, Dir}]
      /\ length' \in [Inodes -> Int]
  <2>1. UNCHANGED disk \/ MakeFile(req[t].path)
    BY DEF OpenCreate, CreateAgain
  <2>2. UNCHANGED table
    BY DEF OpenCreate
  <2> QED BY <1>1, <2>1, <2>2, MakeFileTypes DEF disk, table, IInv, TypeOK
<1>3. /\ pc[t] # "put"
      /\ Return(t, Error("EIO")) \/ GotoWith(t, "openFile", status[t])
  BY DEF OpenCreate, Goto
<1>4. CASE Return(t, Error("EIO"))
  BY <1>2, <1>3, <1>4, ReturnStep, ResultTypes DEF Errors
<1>5. CASE GotoWith(t, "openFile", status[t])
  <2>1. Sound(t, "openFile", req[t], status[t]) /\ "openFile" \in Labels \ {"put"}
    BY <1>1 DEF Sound, OpenSteps, UnlinkSteps, FdSteps, IOSteps, Labels
  <2> QED BY <1>1, <1>2, <1>3, <1>5, <2>1, GotoStep
<1> QED BY <1>3, <1>4, <1>5

LEMMA OpenFileStep ==
  ASSUME IInv, NEW t \in Threads, OpenFile(t)
  PROVE  IInv'
<1>1. /\ Sound(t, "openFile", req[t], status[t]) /\ status[t] \in Drafts
      /\ req[t].path \in Paths /\ ~status[t].isDir
  BY IInvSound DEF OpenFile, IInv, TypeOK, Sound, OpenSteps
<1>2. UNCHANGED table /\ pc[t] # "put"
  BY DEF OpenFile
<1>3. CASE Return(t, Error("ENOENT")) /\ UNCHANGED disk
  BY <1>2, <1>3, Shared, ReturnStep, ResultTypes DEF Errors
<1>4. ASSUME NEW i \in Inodes, GotoWith(t, "number", [status[t] EXCEPT !.file = i]),
             names' \in [Paths -> Inodes \cup {None, Dir}], length' \in [Inodes -> Int]
      PROVE  IInv'
  <2> DEFINE s == [status[t] EXCEPT !.file = i]
  <2>1. s \in Drafts /\ ~s.isDir /\ s.file = i /\ s.mode = status[t].mode
    BY <1>1 DEF Drafts
  <2>2. Backed(s)
    BY <1>1, <2>1, DiskAssumption DEF Backed, Sound
  <2>3. Sound(t, "number", req[t], s) /\ "number" \in Labels \ {"put"}
    BY <1>1, <2>2 DEF Sound, OpenSteps, UnlinkSteps, FdSteps, IOSteps, Labels
  <2>4. UNCHANGED <<globalFD, fileTable>> /\ filePointer' \in [Fds -> Int]
    BY <1>2 DEF table, IInv, TypeOK
  <2> QED BY <1>2, <1>4, <2>1, <2>3, <2>4, GotoStep
<1>5. CASE /\ Exists(t) /\ ~IsDirectory(t) /\ UNCHANGED disk
           /\ GotoWith(t, "number", [status[t] EXCEPT !.file = names[req[t].path]])
  <2>1. names[req[t].path] \in Inodes
    BY <1>1, <1>5 DEF Exists, IsDirectory, IInv, TypeOK
  <2>2. names' \in [Paths -> Inodes \cup {None, Dir}] /\ length' \in [Inodes -> Int]
    BY <1>5 DEF disk, IInv, TypeOK
  <2> QED BY <1>4, <1>5, <2>1, <2>2
<1>6. CASE /\ MakeFile(req[t].path)
           /\ GotoWith(t, "number", [status[t] EXCEPT !.file = names'[req[t].path]])
  BY <1>1, <1>4, <1>6, MakeFileTypes
<1> QED BY <1>3, <1>5, <1>6 DEF OpenFile

(* A number is drawn: it is above every number drawn before.               *)
LEMMA OpenNumberStep ==
  ASSUME IInv, NEW t \in Threads, OpenNumber(t)
  PROVE  IInv'
<1>1. /\ pc[t] = "number" /\ globalFD < MaxFd /\ globalFD' = globalFD + 1
      /\ newFd' = [newFd EXCEPT ![t] = globalFD + 1]
      /\ pc' = [pc EXCEPT ![t] = "put"]
      /\ UNCHANGED <<req, ret, status, from, fileTable, filePointer, names, length>>
  BY DEF OpenNumber, disk
<1>2. TypeOK'
  BY <1>1 DEF IInv, TypeOK, OpenSteps
<1>3. Keys' = Keys
  BY <1>1 DEF Keys
<1>4. /\ pc'[t] = "put" /\ newFd'[t] = globalFD + 1
      /\ \A u \in Threads : u # t => pc'[u] = pc[u] /\ newFd'[u] = newFd[u]
  BY <1>1 DEF IInv, TypeOK
<1>5. globalFD \in Int /\ globalFD >= NeverFd
  BY DiskAssumption DEF IInv, TypeOK, Unique, NeverFd, FirstFd
<1>6. FirstFd..globalFD' = (FirstFd..globalFD) \cup {globalFD + 1}
      /\ globalFD + 1 \notin FirstFd..globalFD
  BY <1>1, <1>5 DEF FirstFd, NeverFd
<1>7. Given' = Given
  <2>1. {newFd[u] : u \in {v \in Threads : pc[v] = "put"}}'
          = {newFd[u] : u \in {v \in Threads : pc[v] = "put"}} \cup {globalFD + 1}
    BY <1>1, <1>4
  <2> QED BY <1>6, <2>1 DEF Given
<1>8. Unique'
  <2>1. globalFD' \in NeverFd..MaxFd
    BY <1>1, <1>5, DiskAssumption DEF NeverFd, FirstFd
  <2>2. \A u \in Threads : pc'[u] = "put" => newFd'[u] \in FirstFd..globalFD'
    BY <1>4, <1>6 DEF IInv, Unique
  <2>3. \A u, v \in Threads :
          u # v /\ pc'[u] = "put" /\ pc'[v] = "put" => newFd'[u] # newFd'[v]
    BY <1>4, <1>6 DEF IInv, Unique
  <2> QED BY <1>3, <1>7, <2>1, <2>2, <2>3 DEF IInv, Unique
<1>10. ASSUME NEW u \in Threads
       PROVE  Sound(u, pc[u], req[u], status[u])'
  <2>1. Sound(u, pc[u], req[u], status[u])
    BY IInvSound
  <2>2. CASE u = t
    BY <1>1, <1>3, <1>4, <1>7, <2>1, <2>2
       DEF Sound, Backed, OpenSteps, FdSteps, UnlinkSteps, IOSteps
  <2>3. CASE u # t
    BY <1>1, <1>3, <1>4, <1>7, <2>1, <2>3 DEF Sound, Backed
  <2> QED BY <2>2, <2>3
<1>11. (\A fd \in Keys : Backed(fileTable[fd]))'
  BY <1>1, <1>3 DEF IInv, FileBehind, Backed
<1> QED BY <1>2, <1>8, <1>10, <1>11 DEF IInv, AtStep, Held, FileBehind, Sound

(* The entry is put: its descriptor is new to the table, and nobody who    *)
(* has found one there is using it.                                        *)
LEMMA PutTable ==
  ASSUME IInv, NEW t \in Threads, OpenPut(t)
  PROVE  /\ newFd[t] \in Fds /\ newFd[t] \notin Given /\ newFd[t] \notin Keys
         /\ status[t] \in Statuses /\ Backed(status[t])
         /\ fileTable' = [fileTable EXCEPT ![newFd[t]] = status[t]]
         /\ Keys' = Keys \cup {newFd[t]} /\ Given' = Given \cup {newFd[t]}
<1> DEFINE fd == newFd[t]
<1>1. /\ pc[t] = "put" /\ globalFD' = globalFD
      /\ fileTable' = [fileTable EXCEPT ![fd] = status[t]]
      /\ Return(t, Result(fd))
  BY DEF OpenPut, Number
<1>2. fd \in FirstFd..globalFD /\ fd \notin Given
  BY <1>1 DEF IInv, Unique, Given
<1>3. fd \in Fds /\ fd \notin Keys
  <2>1. globalFD \in NeverFd..MaxFd
    BY DEF IInv, Unique
  <2> QED BY <1>2, <2>1, DiskAssumption DEF IInv, Unique, Fds, FirstFd, NeverFd
<1>4. status[t] \in Statuses /\ Backed(status[t])
  <2>1. Backed(status[t]) /\ status[t] \in Drafts
    BY <1>1, IInvSound DEF Sound, IInv, TypeOK
  <2> QED BY <2>1 DEF Backed, Drafts, Statuses
<1>5. Keys' = Keys \cup {fd}
  BY <1>1, <1>3, <1>4, NoneAssumption DEF Keys, IInv, TypeOK
<1>6. Given' = Given \cup {fd}
  <2>1. \A u \in Threads : u # t => pc'[u] = pc[u] /\ newFd'[u] = newFd[u]
    BY <1>1 DEF Return, Leave, IInv, TypeOK
  <2>2. pc'[t] = "ready"
    BY <1>1 DEF Return, Leave, IInv, TypeOK
  <2>3. \A u \in Threads : u # t /\ pc[u] = "put" => newFd[u] # fd
    BY <1>1 DEF IInv, Unique
  <2>4. {newFd[u] : u \in {v \in Threads : pc[v] = "put"}}'
          = {newFd[u] : u \in {v \in Threads : pc[v] = "put"}} \ {fd}
    BY <1>1, <2>1, <2>2, <2>3
  <2> QED BY <1>1, <1>2, <2>4 DEF Given
<1> QED BY <1>1, <1>2, <1>3, <1>4, <1>5, <1>6

LEMMA OpenPutStep ==
  ASSUME IInv, NEW t \in Threads, OpenPut(t)
  PROVE  IInv'
<1> DEFINE fd == newFd[t]
<1>1. /\ pc[t] = "put" /\ Return(t, Result(fd))
      /\ filePointer' = [filePointer EXCEPT ![fd] = 0]
      /\ UNCHANGED <<globalFD, names, length>>
  BY DEF OpenPut, Number, disk
<1>2. /\ fd \in Fds /\ fd \notin Given /\ fd \notin Keys
      /\ status[t] \in Statuses /\ Backed(status[t])
      /\ fileTable' = [fileTable EXCEPT ![fd] = status[t]]
      /\ Keys' = Keys \cup {fd} /\ Given' = Given \cup {fd}
  BY PutTable
<1> HIDE DEF fd
<1>3. fd \in Int
  BY <1>2, DiskAssumption DEF Fds, FirstFd
<1>7. TypeOK'
  <2>1. pc' \in [Threads -> Labels] /\ req' \in [Threads -> AllCalls \cup {None}]
    BY <1>1 DEF Return, Leave, IInv, TypeOK, Labels
  <2>2. ret' \in [Threads -> Results \cup {None}]
    BY <1>1, <1>3, ResultTypes DEF Return, Leave, IInv, TypeOK
  <2>3. /\ status' \in [Threads -> Drafts] /\ newFd' \in [Threads -> Int]
        /\ from' \in [Threads -> Int]
    BY <1>1 DEF Return, Leave, IInv, TypeOK, NewStatus, Drafts, NeverFd, FirstFd
  <2>4. /\ fileTable' \in [Fds -> Statuses \cup {None}]
        /\ filePointer' \in [Fds -> Int]
    BY <1>1, <1>2 DEF IInv, TypeOK
  <2> QED BY <1>1, <2>1, <2>2, <2>3, <2>4 DEF IInv, TypeOK, Labels
<1>9. /\ pc'[t] = "ready" /\ req'[t] = None
      /\ \A u \in Threads : u # t =>
           /\ pc'[u] = pc[u] /\ req'[u] = req[u] /\ status'[u] = status[u]
           /\ newFd'[u] = newFd[u]
  BY <1>1 DEF Return, Leave, IInv, TypeOK
<1>11. Unique'
  BY <1>1, <1>2, <1>9 DEF IInv, Unique
<1>12. ASSUME NEW u \in Threads
       PROVE  Sound(u, pc[u], req[u], status[u])'
  <2>1. CASE u = t
    BY <1>9, <2>1 DEF Sound, OpenSteps, UnlinkSteps, FdSteps, IOSteps
  <2>2. CASE u # t
    <3>1. Sound(u, pc[u], req[u], status[u])
      BY IInvSound
    <3>2. \A e \in Keys : fileTable'[e] = fileTable[e]
      BY <1>2 DEF Keys, IInv, TypeOK
    <3> QED BY <1>2, <1>9, <2>2, <3>1, <3>2 DEF Sound, Backed, FdSteps, IOSteps
  <2> QED BY <2>1, <2>2
<1>13. (\A e \in Keys : Backed(fileTable[e]))'
  <2>1. fileTable'[fd] = status[t]
    BY <1>2 DEF IInv, TypeOK
  <2>2. \A e \in Keys : fileTable'[e] = fileTable[e]
    BY <1>2 DEF Keys, IInv, TypeOK
  <2> QED BY <1>2, <2>1, <2>2 DEF IInv, FileBehind, Backed
<1> QED BY <1>7, <1>11, <1>12, <1>13 DEF IInv, AtStep, Held, FileBehind, Sound

(* The entry is removed; threads that use its file keep it.                *)
LEMMA RemoveStep ==
  ASSUME IInv, NEW t \in Threads, Remove(t)
  PROVE  IInv'
<1> DEFINE fd == req[t].fd
<1>1. /\ pc[t] = "remove"
      /\ fileTable' = [fileTable EXCEPT ![fd] = None]
      /\ Return(t, Result(0))
      /\ UNCHANGED <<globalFD, filePointer, names, length>>
  BY DEF Remove, disk
<1>4. TypeOK'
  <2>1. pc' \in [Threads -> Labels] /\ req' \in [Threads -> AllCalls \cup {None}]
    BY <1>1 DEF Return, Leave, IInv, TypeOK, Labels
  <2>2. ret' \in [Threads -> Results \cup {None}]
    BY <1>1, ResultTypes DEF Return, Leave, IInv, TypeOK
  <2>3. /\ status' \in [Threads -> Drafts] /\ newFd' \in [Threads -> Int]
        /\ from' \in [Threads -> Int]
    BY <1>1 DEF Return, Leave, IInv, TypeOK, NewStatus, Drafts, NeverFd, FirstFd
  <2>4. fileTable' \in [Fds -> Statuses \cup {None}]
    BY <1>1 DEF IInv, TypeOK
  <2> QED BY <1>1, <2>1, <2>2, <2>3, <2>4 DEF IInv, TypeOK, Labels
<1>5. Keys' = Keys \ {fd} /\ \A e \in Keys \ {fd} : fileTable'[e] = fileTable[e]
  BY <1>1 DEF Keys, IInv, TypeOK
<1>6. /\ pc'[t] = "ready" /\ req'[t] = None
      /\ \A u \in Threads : u # t =>
           /\ pc'[u] = pc[u] /\ req'[u] = req[u] /\ status'[u] = status[u]
           /\ newFd'[u] = newFd[u]
  BY <1>1 DEF Return, Leave, IInv, TypeOK
<1>7. Given' = Given
  <2>1. \A u \in Threads : pc'[u] = "put" <=> pc[u] = "put"
    BY <1>1, <1>6
  <2>2. \A u \in Threads : pc[u] = "put" => newFd'[u] = newFd[u]
    BY <1>1, <1>6
  <2> QED BY <1>1, <2>1, <2>2 DEF Given
<1>8. Unique'
  BY <1>1, <1>5, <1>6, <1>7 DEF IInv, Unique
<1>9. ASSUME NEW u \in Threads
      PROVE  Sound(u, pc[u], req[u], status[u])'
  <2>1. CASE u = t
    BY <1>6, <2>1 DEF Sound, OpenSteps, UnlinkSteps, FdSteps, IOSteps
  <2>2. CASE u # t
    <3>1. Sound(u, pc[u], req[u], status[u])
      BY IInvSound
    <3> QED BY <1>5, <1>6, <1>7, <2>2, <3>1 DEF Sound, Backed
  <2> QED BY <2>1, <2>2
<1>10. (\A e \in Keys : Backed(fileTable[e]))'
  BY <1>5 DEF IInv, FileBehind, Backed
<1> QED BY <1>4, <1>8, <1>9, <1>10 DEF IInv, AtStep, Held, FileBehind, Sound

(* Clients come, call and go.                                              *)
LEMMA ConnectStep ==
  ASSUME IInv, NEW t \in Threads, Connect(t)
  PROVE  IInv'
<1>1. Sound(t, "off", req[t], status[t]) /\ status[t] \in Drafts
  BY IInvSound DEF Connect, IInv, TypeOK
<1>2. Sound(t, "ready", req[t], status[t]) /\ "ready" \in Labels \ {"put"}
  BY <1>1 DEF Sound, OpenSteps, UnlinkSteps, FdSteps, IOSteps, Labels
<1> QED BY <1>1, <1>2, Shared, GotoStep DEF Connect, Goto

LEMMA BeginStep ==
  ASSUME IInv, NEW t \in Threads, NEW q \in AllCalls, Begin(t, q)
  PROVE  IInv'
<1>1. UNCHANGED <<table, disk>> /\ pc[t] # "put"
  BY DEF Begin
<1>2. CASE q.op \in {"open", "unlink"} /\ q.path = None
  BY <1>1, <1>2, Shared, ReturnStep, ResultTypes DEF Begin, Errors
<1>3. CASE ~(q.op \in {"open", "unlink"} /\ q.path = None)
  <2>1. /\ pc' = [pc EXCEPT ![t] = FirstStep(q)]
        /\ req' = [req EXCEPT ![t] = q]
        /\ ret' = [ret EXCEPT ![t] = None]
        /\ status' = status /\ newFd' = newFd /\ from' = from
    BY <1>3 DEF Begin
  <2>2. /\ q.op \in {"open", "unlink", "close", "read", "write", "lseek"}
        /\ q.path \in Paths \cup {None} /\ q # None
    BY CallParts
  <2>3. \/ q.op = "open" /\ q.path \in Paths /\ FirstStep(q) \in {"isDirectory", "exists"}
        \/ q.op = "unlink" /\ q.path \in Paths /\ FirstStep(q) = "unlinkExists"
        \/ q.op \in {"close", "read", "write", "lseek"} /\ FirstStep(q) = "containsKey"
    BY <1>3, <2>2 DEF FirstStep
  <2>4. Sound(t, FirstStep(q), q, status[t])
    BY <2>1, <2>2, <2>3 DEF Sound, OpenSteps, UnlinkSteps, FdSteps, IOSteps
  <2>5. FirstStep(q) \in Labels \ {"put"}
    BY <2>3 DEF Labels, OpenSteps, UnlinkSteps, FdSteps, IOSteps
  <2>6. /\ status' = [status EXCEPT ![t] = status[t]] /\ status[t] \in Drafts
        /\ newFd' \in [Threads -> Int] /\ from' \in [Threads -> Int]
        /\ \A u \in Threads : u # t => newFd'[u] = newFd[u]
        /\ ret' \in [Threads -> Results \cup {None}]
    BY <2>1 DEF IInv, TypeOK
  <2> QED BY <1>1, <2>1, <2>4, <2>5, <2>6, Shared, LocalStep
<1> QED BY <1>2, <1>3

LEMMA ClientDoneStep ==
  ASSUME IInv, NEW t \in Threads, ClientDone(t)
  PROVE  IInv'
<1>1. /\ pc[t] # "put" /\ Leave(t, "off", None)
      /\ UNCHANGED <<globalFD, fileTable, filePointer, names, length>>
  BY DEF ClientDone, ClientDoneEffect, disk
<1> QED BY <1>1, LeaveStep DEF IInv, TypeOK

(* The methods that use a descriptor.                                      *)
LEMMA ContainsKeyStep ==
  ASSUME IInv, NEW t \in Threads, ContainsKey(t)
  PROVE  IInv'
<1>1. Sound(t, "containsKey", req[t], status[t]) /\ status[t] \in Drafts
  BY IInvSound DEF ContainsKey, IInv, TypeOK
<1>2. UNCHANGED <<table, disk>> /\ pc[t] # "put"
  BY DEF ContainsKey
<1>3. CASE req[t].fd \notin Keys
  BY <1>2, <1>3, Shared, ReturnStep, ResultTypes DEF ContainsKey, Errors
<1>4. CASE req[t].fd \in Keys
  <2>1. PICK l \in {"remove", "get"} : GotoWith(t, l, status[t])
    BY <1>4 DEF ContainsKey, Goto
  <2>3. req[t].fd \in Given
    BY <1>4 DEF IInv, Unique
  <2>2. Sound(t, l, req[t], status[t]) /\ l \in Labels \ {"put"}
    BY <1>1, <1>4, <2>3 DEF Sound, OpenSteps, UnlinkSteps, FdSteps, IOSteps, Labels
  <2> QED BY <1>1, <1>2, <2>1, <2>2, Shared, GotoStep
<1> QED BY <1>3, <1>4

LEMMA GivenFds ==
  ASSUME IInv
  PROVE  Given \subseteq Fds
<1>1. globalFD \in NeverFd..MaxFd
  BY DEF IInv, Unique
<1> QED BY <1>1, DiskAssumption DEF Given, Fds, NeverFd, FirstFd

LEMMA GetStep ==
  ASSUME IInv, NEW t \in Threads, Get(t)
  PROVE  IInv'
<1> DEFINE s == fileTable[req[t].fd]
<1>1. Sound(t, "get", req[t], status[t]) /\ req[t].fd \in Fds
  BY IInvSound, GivenFds DEF Get, Sound, FdSteps, IOSteps
<1>2. UNCHANGED <<table, disk>> /\ pc[t] # "put"
  BY DEF Get
<1>3. s \in Statuses \cup {None}
  BY <1>1 DEF IInv, TypeOK
<1>4. \/ \E e \in {"EISDIR", "EBADF"} : Return(t, Error(e))
      \/ Throw(t)
      \/ GotoWith(t, "io", s) /\ s # None /\ ~s.isDir
  <2>1. s.isDir \/ ~s.isDir
    OBVIOUS
  <2>2. ReadOnly(req[t], s) \/ ~ReadOnly(req[t], s)
    OBVIOUS
  <2>3. CASE s = None
    BY <2>3 DEF Get
  <2>4. CASE s # None
    BY <2>1, <2>2, <2>4 DEF Get
  <2> QED BY <2>3, <2>4
<1>5. ASSUME NEW e \in {"EISDIR", "EBADF"}, Return(t, Error(e))
      PROVE  IInv'
  BY <1>2, <1>5, Shared, ReturnStep, ResultTypes DEF Errors
<1>6. ASSUME GotoWith(t, "io", s), s # None, ~s.isDir
      PROVE  IInv'
  <2>1. Backed(s) /\ s \in Drafts
    BY <1>1, <1>3, <1>6 DEF IInv, FileBehind, Keys, Statuses, Drafts
  <2>2. Sound(t, "io", req[t], s) /\ "io" \in Labels \ {"put"}
    BY <1>1, <1>6, <2>1 DEF Sound, OpenSteps, UnlinkSteps, FdSteps, IOSteps, Labels
  <2> QED BY <1>2, <1>3, <1>6, <2>1, <2>2, Shared, GotoStep
<1>7. CASE Throw(t)
  BY <1>2, <1>7, Shared, LeaveStep DEF Throw
<1> QED BY <1>4, <1>5, <1>6, <1>7

(* What the transfers are computed from.                                   *)
LEMMA AtIO ==
  ASSUME IInv, NEW t \in Threads, pc[t] \in IOSteps
  PROVE  /\ Sound(t, pc[t], req[t], status[t])
         /\ status[t] \in Drafts /\ status[t].file \in Inodes
         /\ req[t].fd \in Fds /\ req[t].n \in Int /\ from[t] \in Int
         /\ filePointer \in [Fds -> Int] /\ filePointer[req[t].fd] \in Int
         /\ length[status[t].file] \in Int /\ length \in [Inodes -> Int]
<1>1. Sound(t, pc[t], req[t], status[t]) /\ status[t] \in Drafts
  BY IInvSound DEF IInv, TypeOK
<1>2. req[t] \in AllCalls
  BY <1>1 DEF IInv, TypeOK, Sound, IOSteps
<1>3. req[t].fd \in Fds
  BY <1>1, GivenFds DEF Sound, FdSteps, IOSteps
<1>4. status[t].file \in Inodes
  BY <1>1 DEF Sound, Backed, Drafts
<1> QED BY <1>1, <1>2, <1>3, <1>4, CallParts DEF IInv, TypeOK

LEMMA TransferStep ==
  ASSUME IInv, NEW t \in Threads,
         Write(t) \/ Read(t) \/ Measure(t) \/ Seek(t) \/ SeekEndAgain(t) \/ IOFails(t)
  PROVE  IInv'
<1> DEFINE q == req[t]
           pos == filePointer[req[t].fd]
           len == length[status[t].file]
<1>1. /\ Sound(t, pc[t], req[t], status[t]) /\ pc[t] \in IOSteps /\ pc[t] # "put"
      /\ status[t] \in Drafts /\ status[t].file \in Inodes
      /\ q.fd \in Fds /\ q.n \in Int /\ from[t] \in Int
      /\ filePointer \in [Fds -> Int] /\ pos \in Int
      /\ len \in Int /\ length \in [Inodes -> Int]
      /\ names \in [Paths -> Inodes \cup {None, Dir}]
  <2>1. pc[t] \in IOSteps
    BY DEF Write, Read, Measure, Seek, SeekEndAgain, IOFails, IOSteps
  <2> QED BY <2>1, AtIO DEF IOSteps, IInv, TypeOK
<1>2. CASE Write(t)
  <2>1. pos + q.n \in Int /\ Larger(len, pos + q.n) \in Int
    BY <1>1 DEF Larger
  <2>2. length' \in [Inodes -> Int] /\ filePointer' \in [Fds -> Int]
    BY <1>1, <1>2, <2>1 DEF Write, MoveTo
  <2> QED BY <1>1, <1>2, <2>2, ReturnStep, ResultTypes DEF Write
<1>3. CASE Read(t)
  <2>1. Readable(len, pos, q.n) \in Int
    BY <1>1 DEF Readable, Smaller
  <2>2. filePointer' \in [Fds -> Int]
    BY <1>1, <1>3, <2>1 DEF Read
  <2> QED BY <1>1, <1>3, <2>1, <2>2, ReturnStep, ResultTypes DEF Read, disk
<1>4. CASE Measure(t)
  <2>1. Base(q.how, len, pos) \in Int
    BY <1>1 DEF Base
  <2>2. /\ from' \in [Threads -> Int]
        /\ pc' = [pc EXCEPT ![t] = "seek"]
        /\ req' = [req EXCEPT ![t] = req[t]]
        /\ status' = [status EXCEPT ![t] = status[t]]
        /\ newFd' \in [Threads -> Int] /\ ret' \in [Threads -> Results \cup {None}]
        /\ \A u \in Threads : u # t => newFd'[u] = newFd[u]
        /\ req[t] \in AllCalls \cup {None}
        /\ pc[t] = "io" /\ q.op = "lseek" /\ UNCHANGED <<table, disk>>
    BY <1>1, <1>4, <2>1 DEF Measure, IInv, TypeOK
  <2>3. Sound(t, "seek", q, status[t]) /\ "seek" \in Labels \ {"put"}
    BY <1>1, <2>2 DEF Sound, OpenSteps, UnlinkSteps, FdSteps, IOSteps, Labels
  <2> QED BY <1>1, <2>2, <2>3, Shared, LocalStep
<1>5. CASE Seek(t)
  <2> DEFINE n == from[t] + q.n
  <2>1. n \in Int /\ pc[t] = "seek" /\ UNCHANGED <<globalFD, fileTable, disk>>
    BY <1>1, <1>5 DEF Seek
  <2>2. filePointer' \in [Fds -> Int]
    BY <1>1, <1>5, <2>1 DEF Seek, MoveTo
  <2>3. CASE Return(t, Result(n)) \/ Return(t, Error("EBUSY"))
    BY <1>1, <2>1, <2>2, <2>3, ReturnStep, ResultTypes DEF Errors, disk
  <2>4. CASE q.how = "FROM_END" /\ GotoWith(t, "endAgain", status[t])
    <3>1. Sound(t, "endAgain", q, status[t]) /\ "endAgain" \in Labels \ {"put"}
      BY <1>1, <2>1, <2>4 DEF Sound, OpenSteps, UnlinkSteps, FdSteps, IOSteps, Labels
    <3> QED BY <1>1, <2>1, <2>2, <2>4, <3>1, GotoStep DEF disk
  <2> QED BY <1>5, <2>3, <2>4 DEF Seek, Goto
<1>6. CASE SeekEndAgain(t)
  BY <1>1, <1>6, Shared, ReturnStep, ResultTypes DEF SeekEndAgain
<1>7. CASE IOFails(t)
  BY <1>1, <1>7, Shared, ReturnStep, ResultTypes DEF IOFails, Errors
<1> QED BY <1>2, <1>3, <1>4, <1>5, <1>6, <1>7

LEMMA UnlinkStep ==
  ASSUME IInv, NEW t \in Threads, Unlink(t)
  PROVE  IInv'
<1>1. Sound(t, pc[t], req[t], status[t]) /\ status[t] \in Drafts
  BY IInvSound DEF IInv, TypeOK
<1>5. pc[t] # "put"
  BY DEF Unlink, UnlinkExists, UnlinkIsDirectory, UnlinkDelete
<1>2. CASE \/ UnlinkExists(t) /\ ~Exists(t)
           \/ UnlinkIsDirectory(t) /\ IsDirectory(t)
  <2>1. \E e \in {"ENOENT", "EISDIR"} : Return(t, Error(e))
    BY <1>2 DEF UnlinkExists, UnlinkIsDirectory
  <2>2. UNCHANGED <<table, disk>>
    BY <1>2 DEF UnlinkExists, UnlinkIsDirectory
  <2> QED BY <1>5, <2>1, <2>2, Shared, ReturnStep, ResultTypes DEF Errors
<1>3. CASE \/ UnlinkExists(t) /\ Exists(t)
           \/ UnlinkIsDirectory(t) /\ ~IsDirectory(t)
  <2>1. PICK l \in {"unlinkIsDirectory", "delete"} : GotoWith(t, l, status[t])
    BY <1>3 DEF UnlinkExists, UnlinkIsDirectory, Goto
  <2>2. UNCHANGED <<table, disk>> /\ pc[t] \in UnlinkSteps
    BY <1>3 DEF UnlinkExists, UnlinkIsDirectory, UnlinkSteps
  <2>3. Sound(t, l, req[t], status[t]) /\ l \in Labels \ {"put"}
    BY <1>1, <2>2 DEF Sound, OpenSteps, UnlinkSteps, FdSteps, IOSteps, Labels
  <2> QED BY <1>1, <1>5, <2>1, <2>2, <2>3, Shared, GotoStep
<1>4. CASE UnlinkDelete(t)
  <2>1. PICK m \in Results : Return(t, m)
    BY <1>4, ResultTypes DEF UnlinkDelete, Errors
  <2>2. /\ UNCHANGED <<globalFD, fileTable>>
        /\ filePointer' \in [Fds -> Int]
        /\ length' \in [Inodes -> Int]
        /\ names' \in [Paths -> Inodes \cup {None, Dir}]
    BY <1>4 DEF UnlinkDelete, table, IInv, TypeOK
  <2> QED BY <1>5, <2>1, <2>2, ReturnStep
<1> QED BY <1>2, <1>3, <1>4 DEF Unlink

-----------------------------------------------------------------------------
LEMMA InitIInv == Init => IInv
<1> SUFFICES ASSUME Init PROVE IInv
  OBVIOUS
<1>1. Keys = {} /\ \A t \in Threads : pc[t] # "put"
  BY DEF Init, Keys
<1>2. TypeOK
  BY DEF Init, TypeOK, NewStatus, Drafts, NeverFd, FirstFd
<1>3. Unique
  BY <1>1, DiskAssumption DEF Init, Unique, NeverFd, FirstFd
<1>4. \A t \in Threads : Sound(t, pc[t], req[t], status[t])
  BY DEF Init, Sound, OpenSteps, UnlinkSteps, FdSteps, IOSteps
<1> QED BY <1>1, <1>2, <1>3, <1>4, SoundIInv

LEMMA StepIInv == IInv /\ [Next]_vars => IInv'
<1> SUFFICES ASSUME IInv, [Next]_vars PROVE IInv'
  OBVIOUS
<1>1. CASE UNCHANGED vars
  BY <1>1 DEF vars, IInv, TypeOK, Unique, Given, Keys, Held, FileBehind, Backed, AtStep
<1>2. ASSUME NEW t \in Threads, Open(t)
      PROVE  IInv'
  BY <1>2, OpenExistsStep, OpenIsDirectoryStep, OpenExistsNewStep, OpenCreateStep,
     OpenFileStep, OpenNumberStep, OpenPutStep DEF Open
<1>3. ASSUME NEW t \in Threads, UseFd(t)
      PROVE  IInv'
  BY <1>3, ContainsKeyStep, RemoveStep, GetStep, TransferStep DEF UseFd
<1> QED BY <1>1, <1>2, <1>3, ConnectStep, ClientDoneStep, BeginStep, UnlinkStep DEF Next

-----------------------------------------------------------------------------
(* The invariant holds of every execution, for any clients and directory.  *)
THEOREM Inductive == Spec => []IInv
BY InitIInv, StepIInv, PTL DEF Spec

(* Every variable keeps its type; every open file has its mode.            *)
THEOREM TypeCorrect == Spec => []TypeOK
<1>1. IInv => TypeOK
  BY DEF IInv
<1> QED BY <1>1, Inductive, PTL

(* No descriptor is given out twice, whatever the order in which threads   *)
(* draw numbers and put entries.                                           *)
THEOREM DescriptorsUnique == Spec => []Unique
<1>1. IInv => Unique
  BY DEF IInv
<1> QED BY <1>1, Inductive, PTL

(* A method that uses the file of a descriptor while any client may close  *)
(* it uses that of its descriptor, or of one that is closed for good.      *)
THEOREM FileIsTheDescriptors == Spec => []Held
<1>1. IInv => Held
  BY DEF IInv
<1> QED BY <1>1, Inductive, PTL

(* Every open file has a RandomAccessFile and a mode, and no directory has *)
(* a RandomAccessFile.                                                     *)
THEOREM FileIsBehind == Spec => []FileBehind
<1>1. IInv => FileBehind
  BY DEF IInv
<1> QED BY <1>1, Inductive, PTL

-----------------------------------------------------------------------------
(* What lseek returns *)

Step(u) ==
  \/ Connect(u) \/ ClientDone(u)
  \/ \E q \in AllCalls : Begin(u, q)
  \/ Open(u) \/ UseFd(u) \/ Unlink(u)

(* A step is that of one thread and leaves the others where they are.      *)
Kept(u) ==
  \A t \in Threads \ {u} :
    /\ pc'[t] = pc[t] /\ req'[t] = req[t] /\ ret'[t] = ret[t]
    /\ status'[t] = status[t] /\ from'[t] = from[t]

LEMMA OneThread ==
  ASSUME IInv, NEW u \in Threads, Step(u)
  PROVE  Kept(u)
<1>1. ASSUME NEW l, NEW s, GotoWith(u, l, s) PROVE Kept(u)
  BY <1>1 DEF GotoWith, Kept, IInv, TypeOK
<1>9. ASSUME NEW l, NEW m, Leave(u, l, m) PROVE Kept(u)
  BY <1>9 DEF Leave, Kept, IInv, TypeOK
<1>2. ASSUME NEW m, Return(u, m) PROVE Kept(u)
  BY <1>2, <1>9 DEF Return
<1>3. CASE Connect(u)
  BY <1>1, <1>3 DEF Connect, Goto
<1>4. CASE ClientDone(u)
  BY <1>4, <1>9 DEF ClientDone
<1>5. ASSUME NEW q \in AllCalls, Begin(u, q) PROVE Kept(u)
  <2>1. CASE \E m : Return(u, m)
    BY <1>2, <2>1
  <2>2. CASE /\ pc' = [pc EXCEPT ![u] = FirstStep(q)]
             /\ req' = [req EXCEPT ![u] = q] /\ ret' = [ret EXCEPT ![u] = None]
             /\ UNCHANGED <<status, from>>
    BY <2>2 DEF Kept, IInv, TypeOK
  <2> QED BY <1>5, <2>1, <2>2 DEF Begin
<1>6. CASE Open(u)
  <2>1. CASE OpenExists(u) \/ OpenExistsNew(u) \/ OpenCreate(u) \/ OpenFile(u) \/ OpenPut(u)
    BY <1>1, <1>2, <2>1 DEF OpenExists, OpenExistsNew, OpenCreate, OpenFile, OpenPut, Goto
  <2>2. CASE OpenIsDirectory(u)
    <3>1. req[u].how \in {"READ", "WRITE", "CREATE", "CREATE_NEW"}
      <4>1. Sound(u, "isDirectory", req[u], status[u])
        BY <2>2, IInvSound DEF OpenIsDirectory
      <4>2. req[u] \in AllCalls /\ req[u].op = "open"
        BY <4>1 DEF Sound, OpenSteps, IInv, TypeOK
      <4> QED BY <4>2, CallParts, DiskAssumption
    <3> DEFINE s == [isDir |-> IsDirectory(u),
                     mode |-> Mode(req[u].how), file |-> None]
    <3>2. Return(u, Error("EISDIR")) \/ \E l : GotoWith(u, l, s)
      <4>1. CASE req[u].how = "READ"
        BY <2>2, <4>1 DEF OpenIsDirectory
      <4>2. CASE req[u].how = "CREATE_NEW"
        BY <2>2, <4>2 DEF OpenIsDirectory
      <4>3. CASE req[u].how = "WRITE"
        BY <2>2, <4>3 DEF OpenIsDirectory
      <4>4. CASE req[u].how = "CREATE"
        BY <2>2, <4>4 DEF OpenIsDirectory
      <4> QED BY <3>1, <4>1, <4>2, <4>3, <4>4
    <3> QED BY <1>1, <1>2, <3>2
  <2>3. CASE OpenNumber(u)
    BY <2>3 DEF OpenNumber, Kept, IInv, TypeOK
  <2> QED BY <1>6, <2>1, <2>2, <2>3 DEF Open
<1>7. CASE UseFd(u)
  <2>1. CASE ContainsKey(u) \/ Remove(u)
    BY <1>1, <1>2, <2>1 DEF ContainsKey, Remove, Goto
  <2>2. CASE Get(u)
    <3>1. (\E e : Return(u, Error(e))) \/ Throw(u) \/ GotoWith(u, "io", fileTable[req[u].fd])
      <4>1. fileTable[req[u].fd].isDir \/ ~fileTable[req[u].fd].isDir
        OBVIOUS
      <4>2. CASE fileTable[req[u].fd] = None
        BY <2>2, <4>2 DEF Get
      <4>3. CASE fileTable[req[u].fd] # None
        BY <2>2, <4>1, <4>3 DEF Get, ReadOnly
      <4> QED BY <4>2, <4>3
    <3> QED BY <1>1, <1>2, <1>9, <3>1 DEF Throw
  <2>3. CASE Write(u) \/ Read(u) \/ Seek(u) \/ SeekEndAgain(u) \/ IOFails(u)
    BY <1>1, <1>2, <2>3 DEF Write, Read, Seek, SeekEndAgain, IOFails, Goto
  <2>4. CASE Measure(u)
    BY <2>4 DEF Measure, Kept, IInv, TypeOK
  <2> QED BY <1>7, <2>1, <2>2, <2>3, <2>4 DEF UseFd
<1>8. CASE Unlink(u)
  BY <1>1, <1>2, <1>8 DEF Unlink, UnlinkExists, UnlinkIsDirectory, UnlinkDelete, Goto
<1> QED BY <1>3, <1>4, <1>5, <1>6, <1>7, <1>8 DEF Step

(* Which steps end an lseek.                                               *)
LEMMA SeekingThread ==
  ASSUME IInv, Next, NEW t \in Threads, SeekAnswers(t)
  PROVE  Seek(t) \/ SeekEndAgain(t) \/ IOFails(t)
<1>1. PICK u \in Threads : Step(u)
  BY DEF Next, Step
<1>2. u = t
  BY <1>1, OneThread DEF Kept, SeekAnswers
<1> QED
  BY <1>1, <1>2 DEF SeekAnswers, Step, Connect, ClientDone, Begin, Open, UseFd, Unlink,
     OpenExists, OpenIsDirectory, OpenExistsNew, OpenCreate, OpenFile, OpenNumber, OpenPut,
     ContainsKey, Remove, Get, Write, Read, Measure, UnlinkExists, UnlinkIsDirectory,
     UnlinkDelete

(* Where a thread stands that has asked for the length and will ask again. *)
EndKnown ==
  \A t \in Threads :
    pc[t] \in {"seek", "endAgain"} /\ req[t].how = "FROM_END"
      => from[t] <= length[status[t].file]

(* Meanwhile the file does not get shorter: a new one is never a file that *)
(* is in use.                                                              *)
LEMMA OthersKeep ==
  ASSUME IInv, NEW u \in Threads, Step(u), NEW t \in Threads, pc[t] \in IOSteps
  PROVE  length'[status[t].file] >= length[status[t].file]
<1> DEFINE i == status[t].file
<1>1. i \in Inodes /\ length \in [Inodes -> Int] /\ length[i] \in Int
  BY AtIO
<1>3. CASE length' = length
  BY <1>1, <1>3
<1>4. CASE Connect(u) \/ ClientDone(u) \/ \E q \in AllCalls : Begin(u, q)
  BY <1>3, <1>4 DEF Connect, ClientDone, Begin, disk
<1>5. CASE Open(u)
  <2>1. CASE OpenExists(u) \/ OpenIsDirectory(u) \/ OpenExistsNew(u) \/ OpenNumber(u)
    BY <1>3, <2>1 DEF OpenExists, OpenIsDirectory, OpenExistsNew, OpenNumber, disk
  <2>2. CASE OpenCreate(u) \/ OpenFile(u)
    <3>2. UNCHANGED disk \/ MakeFile(req[u].path)
      BY <2>2 DEF OpenCreate, OpenFile, CreateAgain
    <3>3. CASE MakeFile(req[u].path)
      <4>1. PICK j \in Inodes : Fresh(j) /\ length' = [length EXCEPT ![j] = 0]
        BY <3>3 DEF MakeFile
      <4>2. j # i
        BY <4>1 DEF Fresh
      <4> QED BY <1>1, <4>1, <4>2
    <3> QED BY <1>3, <3>2, <3>3 DEF disk
  <2>3. CASE OpenPut(u)
    BY <1>3, <2>3 DEF OpenPut, disk
  <2> QED BY <1>5, <2>1, <2>2, <2>3 DEF Open
<1>6. CASE UseFd(u)
  <2>1. CASE length' = length
    BY <1>3, <2>1
  <2>2. CASE Write(u)
    <3> DEFINE end == filePointer[req[u].fd] + req[u].n
               j == status[u].file
    <3>1. length' = [length EXCEPT ![j] = Larger(length[j], end)]
      BY <2>2 DEF Write
    <3>2. j \in Inodes /\ end \in Int /\ length[j] \in Int
      BY <2>2, AtIO DEF Write, IOSteps
    <3> HIDE DEF end, j
    <3>3. Larger(length[j], end) >= length[j]
      BY <3>2 DEF Larger
    <3>4. length'[i] = IF i = j THEN Larger(length[j], end) ELSE length[i]
      BY <1>1, <3>1
    <3> QED BY <1>1, <3>3, <3>4
  <2> QED BY <1>6, <2>1, <2>2
        DEF UseFd, ContainsKey, Remove, Get, Read, Measure, Seek, SeekEndAgain, IOFails, disk
<1>7. CASE Unlink(u)
  BY <1>3, <1>7 DEF Unlink, UnlinkExists, UnlinkIsDirectory, UnlinkDelete, disk
<1> QED BY <1>4, <1>5, <1>6, <1>7 DEF Step

(* There are two ways to get there.                                        *)
LEMMA EndStarts ==
  ASSUME IInv, NEW u \in Threads, Step(u), pc'[u] \in {"seek", "endAgain"}
  PROVE  Measure(u) \/ Seek(u)
<1>1. ASSUME NEW l, NEW s, GotoWith(u, l, s) PROVE l \in {"seek", "endAgain"}
  BY <1>1 DEF GotoWith, IInv, TypeOK
<1>12. ~ Throw(u) /\ ~ Leave(u, "off", None)
  BY DEF Throw, Leave, IInv, TypeOK
<1>2. ASSUME NEW m, Return(u, m) PROVE FALSE
  BY <1>2 DEF Return, Leave, IInv, TypeOK
<1>3. ~ Connect(u) /\ ~ ClientDone(u)
  BY <1>1, <1>12 DEF Connect, ClientDone, Goto
<1>4. ASSUME NEW q \in AllCalls, Begin(u, q) PROVE FALSE
  <2>1. pc'[u] = FirstStep(q)
    BY <1>2, <1>4 DEF Begin, IInv, TypeOK
  <2> QED BY <2>1, CallParts DEF FirstStep
<1>5. ~ Unlink(u)
  BY <1>1, <1>2 DEF Unlink, UnlinkExists, UnlinkIsDirectory, UnlinkDelete, Goto
<1>6. ~ OpenExists(u) /\ ~ OpenExistsNew(u) /\ ~ OpenCreate(u) /\ ~ OpenFile(u) /\ ~ OpenPut(u)
  BY <1>1, <1>2 DEF OpenExists, OpenExistsNew, OpenCreate, OpenFile, OpenPut, Goto
<1>7. ~ OpenIsDirectory(u)
  <2>1. ASSUME OpenIsDirectory(u) PROVE FALSE
    <3>1. req[u].how \in {"READ", "WRITE", "CREATE", "CREATE_NEW"}
      <4>1. Sound(u, "isDirectory", req[u], status[u])
        BY <2>1, IInvSound DEF OpenIsDirectory
      <4>2. req[u] \in AllCalls /\ req[u].op = "open"
        BY <4>1 DEF Sound, OpenSteps, IInv, TypeOK
      <4> QED BY <4>2, CallParts, DiskAssumption
    <3>2. CASE req[u].how = "READ"
      BY <1>1, <2>1, <3>2 DEF OpenIsDirectory
    <3>3. CASE req[u].how = "CREATE_NEW"
      BY <1>1, <2>1, <3>3 DEF OpenIsDirectory
    <3>4. CASE req[u].how \in {"WRITE", "CREATE"}
      <4>1. Return(u, Error("EISDIR")) \/ \E l \in {"openFile", "create"} : \E s : GotoWith(u, l, s)
        <5>1. CASE req[u].how = "WRITE"
          BY <2>1, <5>1 DEF OpenIsDirectory
        <5>2. CASE req[u].how = "CREATE"
          BY <2>1, <5>2 DEF OpenIsDirectory
        <5> QED BY <3>4, <5>1, <5>2
      <4> QED BY <1>1, <1>2, <4>1
    <3> QED BY <3>1, <3>2, <3>3, <3>4
  <2> QED BY <2>1
<1>8. ~ OpenNumber(u)
  BY DEF OpenNumber, IInv, TypeOK
<1>9. ~ ContainsKey(u) /\ ~ Remove(u)
  BY <1>1, <1>2 DEF ContainsKey, Remove, Goto
<1>10. ~ Get(u)
  <2>1. ASSUME Get(u) PROVE FALSE
    <3>1. fileTable[req[u].fd].isDir \/ ~fileTable[req[u].fd].isDir
      OBVIOUS
    <3>2. CASE fileTable[req[u].fd] = None
      BY <1>12, <2>1, <3>2 DEF Get
    <3>3. CASE fileTable[req[u].fd] # None
      <4>1. \/ \E e : Return(u, Error(e))
            \/ GotoWith(u, "io", fileTable[req[u].fd])
        BY <2>1, <3>1, <3>3 DEF Get, ReadOnly
      <4> QED BY <1>1, <1>2, <4>1
    <3> QED BY <3>2, <3>3
  <2> QED BY <2>1
<1>11. ~ Write(u) /\ ~ Read(u) /\ ~ SeekEndAgain(u) /\ ~ IOFails(u)
  BY <1>2 DEF Write, Read, SeekEndAgain, IOFails
<1> QED BY <1>3, <1>4, <1>5, <1>6, <1>7, <1>8, <1>9, <1>10, <1>11 DEF Step, Open, UseFd

LEMMA EndKept ==
  ASSUME IInv, EndKnown, NEW u \in Threads, Step(u)
  PROVE  EndKnown'
<1> SUFFICES ASSUME NEW t \in Threads, pc'[t] \in {"seek", "endAgain"},
                    req'[t].how = "FROM_END"
             PROVE  from'[t] <= length'[status'[t].file]
  BY DEF EndKnown
<1>1. CASE t = u /\ Measure(u)
  <2>1. /\ from'[t] = Base(req[t].how, length[status[t].file], filePointer[req[t].fd])
        /\ req' = req /\ status' = status /\ length' = length /\ pc[t] \in IOSteps
    BY <1>1 DEF Measure, IOSteps, disk, IInv, TypeOK
  <2>2. from'[t] = length[status[t].file]
    BY <2>1 DEF Base
  <2>3. length[status[t].file] \in Int
    BY <2>1, AtIO
  <2> QED BY <2>1, <2>2, <2>3
<1>2. CASE t = u /\ Seek(u)
  <2>1. ~ \E m : Return(t, m)
    BY DEF Return, Leave, IInv, TypeOK
  <2>2. Goto(t, "endAgain") /\ length' = length /\ pc[t] = "seek"
    BY <1>2, <2>1 DEF Seek, disk
  <2>3. req' = req /\ status' = status /\ from' = from
    BY <2>2 DEF Goto, GotoWith, IInv, TypeOK
  <2> QED BY <2>2, <2>3 DEF EndKnown
<1>3. CASE t # u
  <2>1. pc'[t] = pc[t] /\ req'[t] = req[t] /\ status'[t] = status[t] /\ from'[t] = from[t]
    BY <1>3, OneThread DEF Kept
  <2>2. from[t] <= length[status[t].file] /\ pc[t] \in IOSteps
    BY <2>1 DEF EndKnown, IOSteps
  <2>3. length'[status[t].file] >= length[status[t].file]
    BY <2>2, OthersKeep
  <2>4. /\ from[t] \in Int /\ length[status[t].file] \in Int /\ status[t].file \in Inodes
    BY <2>2, AtIO
  <2>5. length'[status[t].file] \in Int
    <3>1. IInv'
      BY StepIInv DEF Next, Step
    <3> QED BY <2>4, <3>1 DEF IInv, TypeOK
  <2> QED BY <2>1, <2>2, <2>3, <2>4, <2>5
<1> QED BY <1>1, <1>2, <1>3, EndStarts

LEMMA SeekEndStep ==
  ASSUME IInv, EndKnown, Next, NEW t \in Threads, SeekAnswers(t)
  PROVE  ret'[t].value >= MovedTo(t)
<1>1. Seek(t) \/ SeekEndAgain(t) \/ IOFails(t)
  BY SeekingThread
<1>2. /\ req[t].n \in Int /\ from[t] \in Int /\ length[status[t].file] \in Int
      /\ Sound(t, pc[t], req[t], status[t])
  BY AtIO DEF SeekAnswers, IOSteps
<1>3. ASSUME NEW m, Return(t, m) PROVE ret'[t] = m
  BY <1>3 DEF Return, Leave, IInv, TypeOK
<1>4. CASE Seek(t)
  <2>1. ~ Goto(t, "endAgain")
    BY DEF Goto, GotoWith, SeekAnswers, IInv, TypeOK
  <2>2. Return(t, Result(from[t] + req[t].n)) \/ Return(t, Error("EBUSY"))
    BY <1>4, <2>1 DEF Seek
  <2>3. ret'[t] = Result(from[t] + req[t].n)
    BY <1>3, <2>2 DEF SeekAnswers, Error
  <2> QED BY <1>2, <2>3 DEF Result, MovedTo
<1>5. CASE SeekEndAgain(t)
  <2>1. ret'[t].value = length[status[t].file] + req[t].n
    BY <1>3, <1>5 DEF SeekEndAgain, Result
  <2>2. from[t] <= length[status[t].file]
    BY <1>2, <1>5 DEF SeekEndAgain, EndKnown, Sound
  <2> QED BY <1>2, <2>1, <2>2 DEF MovedTo
<1>6. CASE IOFails(t)
  BY <1>3, <1>6 DEF IOFails, Error, SeekAnswers
<1> QED BY <1>1, <1>4, <1>5, <1>6

(* What an lseek returns may lie behind where it has moved the descriptor, *)
(* if it counts from the end and others have written to the file since,    *)
(* but never before it: no client makes a file in use shorter, neither     *)
(* under its descriptor nor by its name.                                   *)
THEOREM SeekNeverShort == Spec => SeekAtLeast
<1> DEFINE A == \A t \in Threads : SeekAnswers(t) => ret'[t].value >= MovedTo(t)
<1>1. Init => EndKnown
  BY DEF Init, EndKnown
<1>2. IInv /\ EndKnown /\ [Next]_vars => EndKnown'
  <2>1. ASSUME IInv, EndKnown, Next PROVE EndKnown'
    BY <2>1, EndKept DEF Next, Step
  <2>2. ASSUME EndKnown, UNCHANGED vars PROVE EndKnown'
    BY <2>2 DEF vars, EndKnown
  <2> QED BY <2>1, <2>2
<1>3. IInv /\ EndKnown /\ Next => A
  BY SeekEndStep
<1>4. Spec => [][A]_vars
  BY <1>1, <1>2, <1>3, Inductive, PTL DEF Spec
<1> QED BY <1>4 DEF SeekAtLeast
=============================================================================
