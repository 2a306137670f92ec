-------------------------------- MODULE Serde --------------------------------
(***************************************************************************)
(* serde.c: calls, responses, frames and directory trees as bytes.         *)
(*                                                                         *)
(* Memory is a sequence of bytes of BASE values each; BASE is smaller than *)
(* 256, the widths are those of the code.  A buffer is written from its    *)
(* start and without gaps, so writing is appending, and the offset that    *)
(* the mem_write functions return is the length.  A string is the sequence *)
(* of its characters, none of them NUL.                                    *)
(***************************************************************************)
EXTENDS Integers, Sequences, SequencesExt

CONSTANTS
  BASE,
  Trees         \* directory trees, with all the trees below them

ASSUME SerdeAssumption == BASE \in Nat /\ BASE > 1

Byte == 0..(BASE - 1)
NUL == 0
Memory == Seq(Byte)
String == Seq(Byte \ {NUL})

(* What n bytes can count: BASE to the power of n.                         *)
Scale[n \in Nat] == IF n = 0 THEN 1 ELSE BASE * Scale[n - 1]

UInt(n) == 0..(Scale[n] - 1)
SInt(n) == (Scale[n] \div 2 - Scale[n])..(Scale[n] \div 2 - 1)

-----------------------------------------------------------------------------
(* Integers and strings in memory *)

(* The low n bytes of v, little-endian, in two's complement.               *)
Bytes(v, n) == [k \in 1..n |-> (v \div Scale[k - 1]) % BASE]

Int16(v) == Bytes(v, 2)   \* u_int16_t
Int32(v) == Bytes(v, 4)   \* u_int32_t and int
Int64(v) == Bytes(v, 8)   \* size_t, ssize_t and off_t

CString(s) == Append(s, NUL)
StrLen1(s) == Len(s) + 1

(* n bytes after the first off; what follows the end of a buffer is some   *)
(* byte.                                                                   *)
mem_read_data(in, off, n) ==
  [k \in 1..n |-> IF off + k <= Len(in) THEN in[off + k] ELSE NUL]

Value(s) ==
  LET sum[k \in 0..Len(s)] == IF k = 0 THEN 0 ELSE sum[k - 1] + s[k] * Scale[k - 1]
  IN  sum[Len(s)]

Unsigned(in, off, n) == Value(mem_read_data(in, off, n))
Signed(in, off, n) ==
  LET u == Unsigned(in, off, n)
  IN  IF u < Scale[n] \div 2 THEN u ELSE u - Scale[n]

(* The string in a buffer into which n bytes were copied.                  *)
StringAt(in, off, n) ==
  LET s == mem_read_data(in, off, n)
  IN  SubSeq(s, 1, SelectInSeq(s, LAMBDA b : b = NUL) - 1)

-----------------------------------------------------------------------------
(* The payload of a request *)

PathPayload(path) == Int32(StrLen1(path)) \o CString(path)

(* Where flags and mode go.  The variant swaps them.                       *)
OpenFlagsModeSwapped(flags, mode) == Int16(flags) \o Int32(mode)
OpenFlagsMode(flags, mode) == Int32(flags) \o Int16(mode)
call_open_marshal(path, flags, mode) == OpenFlagsMode(flags, mode) \o PathPayload(path)
call_close_marshal(fd) == Int32(fd)
call_write_marshal(fd, buf, count) == Int32(fd) \o Int64(count) \o buf
call_read_marshal(fd, count) == Int32(fd) \o Int64(count)
call_lseek_marshal(fd, offset, whence) == Int32(fd) \o Int64(offset) \o Int32(whence)
call_stat_marshal(ver, path) == Int32(ver) \o Int64(StrLen1(path)) \o CString(path)
call_unlink_marshal(path) == PathPayload(path)
call_getdirentries_marshal(fd, nbytes, basep) == Int32(fd) \o Int64(basep) \o Int64(nbytes)
call_dirtreenode_marshal(path) == PathPayload(path)

PathAt(in, off) == StringAt(in, off + 4, Unsigned(in, off, 4))

call_open_unmarshal(in) ==
  [op |-> "open", flags |-> Unsigned(in, 0, 4), mode |-> Unsigned(in, 4, 2), path |-> PathAt(in, 6)]
call_close_unmarshal(in) == [op |-> "close", fd |-> Signed(in, 0, 4)]
call_write_unmarshal(in) ==
  LET count == Unsigned(in, 4, 8)
  IN  [op |-> "write", fd |-> Signed(in, 0, 4), count |-> count, buf |-> mem_read_data(in, 12, count)]
call_read_unmarshal(in) == [op |-> "read", fd |-> Signed(in, 0, 4), count |-> Unsigned(in, 4, 8)]
call_lseek_unmarshal(in) ==
  [op |-> "lseek", fd |-> Signed(in, 0, 4), offset |-> Signed(in, 4, 8), whence |-> Signed(in, 12, 4)]
call_stat_unmarshal(in) ==
  [op |-> "stat", ver |-> Signed(in, 0, 4), path |-> StringAt(in, 12, Unsigned(in, 4, 8))]
call_unlink_unmarshal(in) == [op |-> "unlink", path |-> PathAt(in, 0)]
call_getdirentries_unmarshal(in) ==
  [op |-> "getdirentries", fd |-> Signed(in, 0, 4), basep |-> Signed(in, 4, 8), nbytes |-> Unsigned(in, 12, 8)]
call_dirtreenode_unmarshal(in) == [op |-> "getdirtree", path |-> PathAt(in, 0)]

-----------------------------------------------------------------------------
(* Frames and responses *)

marshal_frame(opcode, payload) == Int32(opcode) \o Int32(Len(payload)) \o payload
read_frame(in) ==
  [opcode |-> Unsigned(in, 0, 4), payload |-> mem_read_data(in, 8, Unsigned(in, 4, 4))]

marshal_resp(err_no, data) == Int32(err_no) \o Int32(Len(data)) \o data
read_resp(in) ==
  [err_no |-> Signed(in, 0, 4), data |-> mem_read_data(in, 8, Unsigned(in, 4, 4))]

-----------------------------------------------------------------------------
(* Directory trees, in preorder *)

(* A tree is finite, and its sizes fit their types.                        *)
ASSUME TreesAssumption ==
  /\ Trees \subseteq [name : String, subdirs : Seq(Trees)]
  /\ \A tree \in Trees : StrLen1(tree.name) \in UInt(8) /\ Len(tree.subdirs) \in UInt(4)
  /\ \A T \in SUBSET Trees : T # {} =>
       \E tree \in T : \A i \in DOMAIN tree.subdirs : tree.subdirs[i] \notin T

mem_write_tree[tree \in Trees] ==
  Int32(Len(tree.subdirs)) \o Int64(StrLen1(tree.name)) \o CString(tree.name)
    \o FlattenSeq([i \in DOMAIN tree.subdirs |-> mem_write_tree[tree.subdirs[i]]])

(* Where the subdirectory after one that was read begins.  The variant     *)
(* reads every subdirectory where the first one is.                        *)
NextSubdirFirst(first, off) == first
NextSubdir(first, off) == off

(* The tree at an offset, and the offset behind it.                        *)
mem_read_tree(in, off) ==
  LET read[o \in Nat] ==
        LET num_subdirs == Unsigned(in, o, 4)
            name_len == Unsigned(in, o + 4, 8)
            first == o + 12 + name_len
            next[i \in 0..num_subdirs] ==
              IF i = 0 THEN first ELSE NextSubdir(first, read[next[i - 1]].off)
        IN  [tree |-> [name |-> StringAt(in, o + 12, name_len),
                       subdirs |-> [i \in 1..num_subdirs |-> read[next[i - 1]].tree]],
             off |-> next[num_subdirs]]
  IN  read[off]
=============================================================================
