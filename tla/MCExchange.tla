----------------------------- MODULE MCExchange -----------------------------
(***************************************************************************)
(* Calls and results for TLC: short and longest paths, values that need    *)
(* all of their width, negative ones, and trees of several shapes.         *)
(***************************************************************************)
EXTENDS Exchange

Path(n) == [i \in 1..n |-> 1 + (i % 7)]
Longest == 30 - 1        \* BUFFERLEN, and MAXMSGLEN, without the NUL
Paths(op) == {Path(n) : n \in {1, Longest - Around[op], Longest - Around[op] + 1,
                               Longest, Longest + 1}}
OpenFds == {-1, 5, 1003, 1004}

MCCalls ==
  [op : {"open"}, path : Paths("open"), flags : {0, 4, 2049}, mode : {0, 52}]
  \cup [op : {"open"}, path : {Path(2)}, flags : {4}, mode : {63}]
  \cup [op : {"close"}, fd : OpenFds]
  \cup {[op |-> "write", fd |-> fd, buf |-> Path(n), count |-> n] : fd \in OpenFds, n \in {0, 1, 9}}
  \cup [op : {"read"}, fd : OpenFds, count : {0, 2, 5000}]
  \cup [op : {"lseek"}, fd : OpenFds, offset : {-70000, 0, 70000}, whence : 0..2]
  \cup [op : {"stat"}, ver : {1}, path : Paths("stat")]
  \cup [op : {"unlink"}, path : Paths("unlink")]
  \cup [op : {"getdirentries"}, fd : OpenFds, nbytes : {1, 14, 15}, basep : {0, 70000}]
  \cup [op : {"getdirtree"}, path : Paths("getdirtree")]

MCContents == {<< >>, <<0>>, <<1, 0>>, [i \in 1..14 |-> i % 8], [i \in 1..15 |-> i % 8]}
MCPositions == {0, 9, 100000}
MCStat == <<7, 0, 1, 2, 0, 3>>

Leaf(n) == [name |-> Path(n), subdirs |-> << >>]
Node(n, s) == [name |-> Path(n), subdirs |-> s]
MCTrees ==
  {Leaf(1), Leaf(2), Leaf(3), Leaf(47), Leaf(48),
   Node(1, <<Leaf(2)>>), Node(2, <<Leaf(3)>>), Node(2, <<Leaf(1), Leaf(3)>>),
   Node(1, <<Node(2, <<Leaf(3)>>)>>),
   Node(1, <<Node(1, <<Leaf(2)>>), Leaf(1)>>)}
=============================================================================
