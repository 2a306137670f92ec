-------------------------------- MODULE Posix --------------------------------
(***************************************************************************)
(* The system calls the remote file service is built on, as far as it can  *)
(* tell their outcomes apart: a process has a descriptor table, machines   *)
(* have a set of existing files.  The contents of files and the positions  *)
(* of descriptors stay inside the kernel; a call on a descriptor answers   *)
(* which file it reached.                                                  *)
(*                                                                         *)
(* Outcome is a function of the call, the table and the files, so that the *)
(* server's session and a program that runs on the server machine itself   *)
(* can be given the same kernel.                                           *)
(***************************************************************************)
EXTENDS Integers, FiniteSets

CONSTANTS
  Paths,   \* names of files
  Fds,     \* descriptors a session's kernel hands out: not stdio or its socket
  None     \* no file, no session, no message

ASSUME PosixAssumption ==
  /\ Fds \subseteq Nat /\ IsFiniteSet(Fds)
  /\ None \notin Paths

FdOps == {"close", "read", "write", "lseek", "getdirentries"}
PathOps == {"open", "stat", "unlink", "getdirtree"}

(* A call names a descriptor or a path; creat is the flag O_CREAT.         *)
FdCall(op, fd) == [op |-> op, fd |-> fd, path |-> None, creat |-> FALSE]
PathCall(op, p, creat) == [op |-> op, fd |-> -1, path |-> p, creat |-> creat]

(* What a call returns: its value, errno if that is negative, and the file *)
(* it reached.                                                             *)
Success(r, p) == [r |-> r, err |-> "none", file |-> p]
Failure(e) == [r |-> -1, err |-> e, file |-> None]

(* A descriptor table: the file behind each descriptor, None if closed.    *)
EmptyTable(D) == [d \in D |-> None]
Open(tbl) == {d \in DOMAIN tbl : tbl[d] # None}
Closed(tbl) == DOMAIN tbl \ Open(tbl)
Lowest(D) == CHOOSE d \in D : \A e \in D : d <= e

(* The reply to call q of a process with descriptor table tbl.             *)
ReplyTo(q, tbl, existing) ==
  CASE q.op = "open" ->
         IF Closed(tbl) = {} THEN Failure("EMFILE")
         ELSE IF q.path \notin existing /\ ~q.creat THEN Failure("ENOENT")
         ELSE Success(Lowest(Closed(tbl)), q.path)
    [] q.op \in FdOps ->
         IF q.fd \in Open(tbl) THEN Success(0, tbl[q.fd]) ELSE Failure("EBADF")
    [] OTHER ->
         IF q.path \in existing THEN Success(0, q.path) ELSE Failure("ENOENT")

(* The descriptor table after call q was answered with m.                  *)
TableAfter(q, m, tbl) ==
  IF m.r < 0 \/ q.op \notin {"open", "close"} THEN tbl
  ELSE IF q.op = "open" THEN [tbl EXCEPT ![m.r] = q.path]
  ELSE [tbl EXCEPT ![q.fd] = None]

(* The files that exist after it.                                          *)
FilesAfter(q, m, existing) ==
  IF m.r < 0 \/ q.op \notin {"open", "unlink"} THEN existing
  ELSE IF q.op = "open" THEN existing \cup {q.path} ELSE existing \ {q.path}
=============================================================================
