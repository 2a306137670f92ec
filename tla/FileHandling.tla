---------------------------- MODULE FileHandling ----------------------------
(***************************************************************************)
(* What the clients of the proxy get of the interface FileHandling.  They  *)
(* share the directory and one table of descriptors: whoever knows the     *)
(* number of a descriptor may use it and close it.  An open returns a      *)
(* number that was never given out.  A read, a write and an unlink take    *)
(* effect, with the result they return, at one point while they run.       *)
(*                                                                         *)
(* Exceptions to what the interface's documentation says:                  *)
(*  - open may make the file it names as soon as it has begun; it gets     *)
(*    hold of the file at one point and of a descriptor at a later one;    *)
(*  - read, write and lseek get hold of the file of a descriptor, and use  *)
(*    it though the descriptor is closed meanwhile;                        *)
(*  - lseek looks where to count from, moves the descriptor, and, counting *)
(*    from the end, looks for the end again to answer, at three points;    *)
(*  - a call whose descriptor another client closes when it has begun may  *)
(*    get no answer, and with that the session ends; close returns 0;      *)
(*  - a session that ends leaves the client's descriptors open.            *)
(***************************************************************************)
EXTENDS Disk

CONSTANTS Clients, Ops, IOMayFail

VARIABLES
  running,  \* the clients that have a session
  call,     \* call[c]: the call c waits for, or None
  result,   \* result[c]: what the latest call returned, or None
  taken,    \* taken[c]: the file or directory the call has got hold of
  from,     \* from[c]: the position an lseek counts from
  stage,    \* stage[c]: "lost" its descriptor, or an lseek that has "aimed" or "moved"
  given,    \* the descriptors open has returned
  tbl,      \* tbl[fd]: what a descriptor stands for, None unless it is open
  pos,      \* the position of each descriptor
  names,    \* names[p]: the file a path leads to, None, or Dir
  length    \* the length of each file

vars == <<running, call, result, taken, from, stage, given, tbl, pos, names, length>>
fds == <<given, tbl, pos>>
files == <<names, length>>

Init ==
  /\ running = {}
  /\ call = [c \in Clients |-> None]
  /\ result = [c \in Clients |-> None]
  /\ taken = [c \in Clients |-> None]
  /\ from = [c \in Clients |-> 0]
  /\ stage = [c \in Clients |-> "none"]
  /\ given = {}
  /\ tbl = [fd \in Fds |-> None]
  /\ pos = [fd \in Fds |-> 0]
  /\ names \in [Paths -> Inodes \cup {None, Dir}]
  /\ \A p, q \in Paths : names[p] \in Inodes /\ names[p] = names[q] => p = q
  /\ length = [i \in Inodes |-> 0]

(* The call of c ends with result r.                                       *)
Answer(c, r) ==
  /\ call' = [call EXCEPT ![c] = None]
  /\ result' = [result EXCEPT ![c] = r]
  /\ taken' = [taken EXCEPT ![c] = None]
  /\ from' = [from EXCEPT ![c] = 0]

(* The stages of the call of c are over.                                   *)
Over(c) == stage' = [stage EXCEPT ![c] = "none"]

Connect(c) ==
  /\ c \notin running
  /\ running' = running \cup {c}
  /\ UNCHANGED <<call, result, taken, from, stage, fds, files>>

(* A session ends; the descriptors stay.                                   *)
End(c) ==
  /\ c \in running /\ call[c] = None
  /\ running' = running \ {c}
  /\ Answer(c, None)
  /\ UNCHANGED <<stage, fds, files>>

Call(c) ==
  /\ c \in running /\ call[c] = None
  /\ \E q \in AllCalls : q.op \in Ops /\ call' = [call EXCEPT ![c] = q]
  /\ result' = [result EXCEPT ![c] = None]
  /\ UNCHANGED <<running, taken, from, stage, fds, files>>

(* An open or unlink without a path is refused.                            *)
Refuse(c) ==
  /\ c \in running /\ call[c] = None
  /\ \/ "open" \in Ops /\ Answer(c, Error("EINVAL"))
     \/ "unlink" \in Ops /\ Answer(c, Error("ENOENT"))
  /\ UNCHANGED <<running, stage, fds, files>>

(* The errors call q of c may return now.                                  *)
PathErrors(q) ==
  LET n == names[q.path] IN
  (IF n = None THEN {"ENOENT"} ELSE {})
    \cup (IF n # None /\ q.how = "CREATE_NEW" THEN {"EEXIST"} ELSE {})
    \cup (IF n = Dir /\ q.how # "READ" THEN {"EISDIR"} ELSE {})
    \cup (IF n = None /\ q.op = "unlink" THEN {"EIO"} ELSE {})
    \cup (IF IOMayFail THEN {"ENOENT", "EIO"} ELSE {})

(* A descriptor is refused if it is not open, unless another client has    *)
(* closed it while the call ran.                                           *)
IsOpen(fd) == fd \in Fds /\ tbl[fd] # None
FdErrors(c, q) ==
  CASE taken[c] # None ->
         IF IOMayFail \/ (stage[c] = "aimed" /\ from[c] + q.n < 0) THEN {"EBUSY"} ELSE {}
    [] taken[c] = None /\ IsOpen(q.fd) ->
         (IF tbl[q.fd].isDir THEN {"EISDIR"} ELSE {})
           \cup (IF q.op = "write" /\ tbl[q.fd].mode = "r" THEN {"EBADF"} ELSE {})
    [] OTHER -> IF stage[c] = "none" THEN {"EBADF"} ELSE {}

Fail(c) ==
  LET q == call[c] IN
  /\ q # None
  /\ \E e \in IF q.op \in {"open", "unlink"} THEN PathErrors(q) ELSE FdErrors(c, q) :
       Answer(c, Error(e))
  /\ Over(c)
  /\ UNCHANGED <<running, fds, files>>

(* open, other than for reading, makes a file where there is none.         *)
InUse(i) ==
  \/ \E p \in Paths : names[p] = i
  \/ \E fd \in Fds : IsOpen(fd) /\ tbl[fd].file = i
  \/ \E c \in Clients : taken[c] # None /\ taken[c].file = i
Make(c) ==
  LET q == call[c] IN
  /\ q # None /\ q.op = "open" /\ q.how # "READ"
  /\ names[q.path] = None
  /\ \E i \in Inodes :
       /\ ~InUse(i)
       /\ names' = [names EXCEPT ![q.path] = i]
       /\ length' = [length EXCEPT ![i] = 0]
  /\ \/ UNCHANGED taken
     \/ taken' = [taken EXCEPT ![c] = [isDir |-> FALSE, mode |-> "rw", file |-> names'[q.path]]]
  /\ UNCHANGED <<running, call, result, from, stage, fds>>

(* open gets hold of what the path leads to; only reading opens directories. *)
Take(c) ==
  LET q == call[c] IN
  /\ q # None /\ q.op = "open" /\ taken[c] = None
  /\ names[q.path] # None
  /\ names[q.path] = Dir => q.how = "READ"
  /\ taken' = [taken EXCEPT ![c] =
                 [isDir |-> names[q.path] = Dir, mode |-> IF q.how = "READ" THEN "r" ELSE "rw",
                  file |-> IF names[q.path] = Dir THEN None ELSE names[q.path]]]
  /\ UNCHANGED <<running, call, result, from, stage, fds, files>>

(* open returns a descriptor that was never given out.                     *)
Opened(c) ==
  LET q == call[c] IN
  /\ q # None /\ q.op = "open" /\ taken[c] # None
  /\ \E fd \in Fds \ given :
       /\ given' = given \cup {fd}
       /\ tbl' = [tbl EXCEPT ![fd] = taken[c]]
       /\ pos' = [pos EXCEPT ![fd] = 0]
       /\ Answer(c, Result(fd))
  /\ Over(c)
  /\ UNCHANGED <<running, files>>

(* close; some of the other calls on the descriptor, those that have found *)
(* it but not got hold of its file, lose it.                               *)
Close(c) ==
  LET q == call[c] IN
  /\ q # None /\ q.op = "close"
  /\ \/ /\ IsOpen(q.fd)
        /\ tbl' = [tbl EXCEPT ![q.fd] = None]
        /\ \E losers \in SUBSET {d \in Clients \ {c} :
               call[d] # None /\ call[d].op \notin {"open", "unlink"}
                 /\ call[d].fd = q.fd /\ taken[d] = None} :
             stage' = [d \in Clients |->
                         IF d = c THEN "none" ELSE IF d \in losers THEN "lost" ELSE stage[d]]
     \/ /\ stage[c] = "lost"
        /\ UNCHANGED tbl
        /\ Over(c)
  /\ Answer(c, Result(0))
  /\ UNCHANGED <<running, given, pos, files>>

(* Another call that has lost its descriptor gets no answer.               *)
Broken(c) ==
  /\ stage[c] = "lost" /\ call[c].op # "close"
  /\ running' = running \ {c}
  /\ Answer(c, None)
  /\ Over(c)
  /\ UNCHANGED <<fds, files>>

(* read, write and lseek get hold of the file of their descriptor.         *)
Hold(c) ==
  LET q == call[c] IN
  /\ q # None /\ q.op \in {"read", "write", "lseek"}
  /\ taken[c] = None /\ IsOpen(q.fd) /\ ~tbl[q.fd].isDir
  /\ q.op = "write" => tbl[q.fd].mode = "rw"
  /\ taken' = [taken EXCEPT ![c] = tbl[q.fd]]
  /\ UNCHANGED <<running, call, result, from, stage, fds, files>>

(* read and write move the descriptor and return the bytes transferred.    *)
Transfer(c) ==
  LET q == call[c]
      i == taken[c].file
      n == IF q.op = "write" THEN q.n ELSE Readable(length[i], pos[q.fd], q.n)
  IN /\ q # None /\ q.op \in {"read", "write"} /\ taken[c] # None
     /\ pos' = [pos EXCEPT ![q.fd] = @ + n]
     /\ length' = IF q.op = "write"
                  THEN [length EXCEPT ![i] = Larger(@, pos[q.fd] + n)] ELSE length
     /\ Answer(c, Result(n))
     /\ Over(c)
     /\ UNCHANGED <<running, given, tbl, names>>

(* lseek looks for the position to count from, moves the descriptor, and,  *)
(* if it counts from the end, looks for that again to answer.              *)
Aim(c) ==
  LET q == call[c] IN
  /\ q # None /\ q.op = "lseek" /\ taken[c] # None /\ stage[c] = "none"
  /\ from' = [from EXCEPT ![c] = Base(q.how, length[taken[c].file], pos[q.fd])]
  /\ stage' = [stage EXCEPT ![c] = "aimed"]
  /\ UNCHANGED <<running, call, result, taken, fds, files>>
Move(c) ==
  LET q == call[c]
      n == from[c] + q.n
  IN /\ stage[c] = "aimed" /\ n >= 0
     /\ pos' = [pos EXCEPT ![q.fd] = n]
     /\ IF q.how = "FROM_END"
        THEN /\ stage' = [stage EXCEPT ![c] = "moved"]
             /\ UNCHANGED <<call, result, taken, from>>
        ELSE Answer(c, Result(n)) /\ Over(c)
     /\ UNCHANGED <<running, given, tbl, files>>
Report(c) ==
  /\ stage[c] = "moved"
  /\ Answer(c, Result(length[taken[c].file] + call[c].n))
  /\ Over(c)
  /\ UNCHANGED <<running, fds, files>>

Unlinked(c) ==
  LET q == call[c] IN
  /\ q # None /\ q.op = "unlink"
  /\ names[q.path] \in Inodes
  /\ names' = [names EXCEPT ![q.path] = None]
  /\ Answer(c, Result(0))
  /\ UNCHANGED <<running, stage, fds, length>>

Next ==
  \E c \in Clients :
    \/ Connect(c) \/ End(c) \/ Call(c) \/ Refuse(c) \/ Fail(c)
    \/ Make(c) \/ Take(c) \/ Opened(c) \/ Close(c) \/ Broken(c)
    \/ Hold(c) \/ Transfer(c) \/ Aim(c) \/ Move(c) \/ Report(c) \/ Unlinked(c)

Spec == Init /\ [][Next]_vars
=============================================================================
