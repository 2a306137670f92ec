----------------------------- MODULE LocalFiles -----------------------------
(***************************************************************************)
(* What transparent remote file operations promise: the programs behave as *)
(* if they ran on the machine that holds the files.  Every program has one *)
(* descriptor table for files; all of them share the files.  A call takes  *)
(* effect at one point between its invocation and its return.              *)
(*                                                                         *)
(* Two things a remote call cannot hide: a program may be killed after it  *)
(* has made a call and the call takes effect later ("late"), and a call    *)
(* may never return.                                                       *)
(***************************************************************************)
EXTENDS Posix

CONSTANTS
  Clients,    \* the programs
  Slots,      \* places for the calls of killed programs
  FileFds,    \* the descriptors open returns to a program
  LocalFds,   \* the descriptors a program has for other purposes
  Ops         \* the calls programs make

VARIABLES
  prog,    \* prog[c]: "off", "idle", or "called" inside a call
  call,    \* call[c]: the latest call
  answer,  \* answer[c]: its outcome once it took effect, else None
  ret,     \* ret[c]: what the latest finished call returned
  tbl,     \* tbl[c]: the file behind each descriptor of FileFds
  local,   \* local[c]: the open descriptors of LocalFds
  files,   \* the files that exist
  late     \* late[t]: a killed program's call that may still take effect

vars == <<prog, call, answer, ret, tbl, local, files, late>>

Calls ==
  {FdCall(op, fd) : op \in Ops \cap FdOps, fd \in FileFds \cup LocalFds}
    \cup {PathCall(op, p, FALSE) : op \in Ops \cap PathOps, p \in Paths}
    \cup {PathCall(op, p, TRUE) : op \in Ops \cap {"open"}, p \in Paths}

Init ==
  /\ prog = [c \in Clients |-> "off"]
  /\ call = [c \in Clients |-> None]
  /\ answer = [c \in Clients |-> None]
  /\ ret = [c \in Clients |-> None]
  /\ tbl = [c \in Clients |-> EmptyTable(FileFds)]
  /\ local = [c \in Clients |-> {}]
  /\ files \in SUBSET Paths
  /\ late = [t \in Slots |-> None]

(* A program starts with its standard descriptors and no file.             *)
Start(c) ==
  /\ prog[c] = "off"
  /\ prog' = [prog EXCEPT ![c] = "idle"]
  /\ local' = [local EXCEPT ![c] = LocalFds]
  /\ UNCHANGED <<call, answer, ret, tbl, files, late>>

(* Call q of c takes effect with outcome m.  Seeking and listing, which no *)
(* standard descriptor needs, may be refused on local descriptors.         *)
Perform(c, q, m) ==
  \/ /\ q.fd \in LocalFds
     /\ \/ m = IF q.fd \in local[c] THEN Success(0, None) ELSE Failure("EBADF")
        \/ q.op \in {"lseek", "getdirentries"} /\ m = Failure("EBADF")
     /\ local' = [local EXCEPT ![c] = IF q.op = "close" THEN @ \ {q.fd} ELSE @]
     /\ UNCHANGED <<tbl, files>>
  \/ /\ q.fd \notin LocalFds
     /\ m = ReplyTo(q, tbl[c], files)
     /\ tbl' = [tbl EXCEPT ![c] = TableAfter(q, m, @)]
     /\ files' = FilesAfter(q, m, files)
     /\ UNCHANGED local

(* A call that never leaves the program's own kernel.                      *)
CallAtOnce(c) ==
  /\ prog[c] = "idle"
  /\ \E q \in Calls :
       \E m \in {Success(0, None), Failure("EBADF")} :
         Perform(c, q, m) /\ ret' = [ret EXCEPT ![c] = m]
       /\ call' = [call EXCEPT ![c] = q]
  /\ UNCHANGED <<prog, answer, late>>

Invoke(c) ==
  /\ prog[c] = "idle"
  /\ prog' = [prog EXCEPT ![c] = "called"]
  /\ \E q \in Calls : call' = [call EXCEPT ![c] = q]
  /\ ret' = [ret EXCEPT ![c] = None]
  /\ UNCHANGED <<answer, tbl, local, files, late>>

TakeEffect(c) ==
  /\ prog[c] = "called" /\ answer[c] = None
  /\ \E m \in {Success(0, None), Failure("EBADF"), ReplyTo(call[c], tbl[c], files)} :
       Perform(c, call[c], m) /\ answer' = [answer EXCEPT ![c] = m]
  /\ UNCHANGED <<prog, call, ret, late>>

(* getdirtree may return a tree although it failed.                        *)
Return(c) ==
  /\ prog[c] = "called" /\ answer[c] # None
  /\ prog' = [prog EXCEPT ![c] = "idle"]
  /\ \/ ret' = [ret EXCEPT ![c] = answer[c]]
     \/ /\ call[c].op = "getdirtree"
        /\ ret' = [ret EXCEPT ![c] = [answer[c] EXCEPT !.r = 0]]
  /\ answer' = [answer EXCEPT ![c] = None]
  /\ UNCHANGED <<call, tbl, local, files, late>>

(* The program exits or is killed; a call it was in may take effect later. *)
End(c) ==
  /\ prog[c] # "off"
  /\ prog' = [prog EXCEPT ![c] = "off"]
  /\ call' = [call EXCEPT ![c] = None]
  /\ answer' = [answer EXCEPT ![c] = None]
  /\ ret' = [ret EXCEPT ![c] = None]
  /\ tbl' = [tbl EXCEPT ![c] = EmptyTable(FileFds)]
  /\ local' = [local EXCEPT ![c] = {}]
  /\ \/ UNCHANGED late
     \/ /\ prog[c] = "called" /\ answer[c] = None
        /\ \E t \in Slots :
             late[t] = None /\ late' = [late EXCEPT ![t] = call[c]]
  /\ UNCHANGED files

LateEffect(t) ==
  /\ late[t] # None
  /\ late' = [late EXCEPT ![t] = None]
  /\ \/ UNCHANGED files
     \/ LET m == ReplyTo(late[t], EmptyTable(FileFds), files)
        IN files' = FilesAfter(late[t], m, files)
  /\ UNCHANGED <<prog, call, answer, ret, tbl, local>>

Next ==
  \/ \E c \in Clients :
       Start(c) \/ CallAtOnce(c) \/ Invoke(c) \/ TakeEffect(c) \/ Return(c) \/ End(c)
  \/ \E t \in Slots : LateEffect(t)

Spec == Init /\ [][Next]_vars
=============================================================================
