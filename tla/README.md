# 15640-DistributedSystem: a TLA+ verification project

The repository holds four course projects on distributed systems. This
directory specifies the ones that have logic of their own, model-checks the
specifications with TLC, and proves their invariants, and that they implement
what they promise, with TLAPS.

Paths below are relative to `src/`. `P1` is
`p1-Transparent-Remote-File-Operations`, `P2` `p2-File-Caching-Proxy`, `P3`
`p3-Web-Service-Performance-Tuning`, `P4` `p4-Two-phase-Commit`.

## 1. Inventory

| Component | Where | State it keeps | Operations |
|---|---|---|---|
| Client library | `P1/trfo/mylib.c` | `_sockfd`, `min_fd`, `opened_fd` | `open close read write lseek __xstat unlink getdirentries getdirtree freedirtree`, `_init`, `init_client`, `send_request`, `send_all` |
| File server | `P1/trfo/server.c` | listening socket; per session process: receive buffer, kernel descriptor table | `main` (accept, fork), `handle_session`, `handle`, nine `do_` functions, `send_all` |
| Marshalling | `P1/trfo/serde.c`, `serde.h`, and the buffers in `mylib.c` and `server.c` | the buffers of one call, `errno` on both sides | `call_*_marshal` and `_unmarshal`, `marshal_frame`, `marshal_resp`, directory trees |
| First RPC checkpoint | `P1/rpc/mylib.c`, `P1/rpc/server.c` | a connection per call; one server process | connect, send the name of the call, receive a reply, close; accept, print, reply |
| Samples | `P1/interpose`, `P1/tcp-sample` | none | handed out with the project |
| File proxy | `P2/src/Proxy.java`, `FileStatus.java` | `globalFD`, `fileTable`, a `RandomAccessFile` per entry | `open close read write lseek unlink clientdone`, `newclient` |
| Scaling web server | `P3/cp1/Server.java` | its VMs and threads, the request each is processing; the queues are in the provided cloud | `main`, `startSvr`, `runSvr` |
| Scaling sample | `P3/sample/Server.java` | none | start one more server, take requests |
| Skeletons | `P2/sample`, `P2/src/Test.java`, `P4/sample` | none | answer `ENOSYS`, print |
| Provided code | `P2/lib`, `P2/doc`, `P3/lib`, `P3/doc` | - | class files, javadoc |

### How they interact

* A program loads the client library. Each interposed call either goes to the
  original function, is refused, or is sent to the server on one TCP connection
  and waits for the reply. The server's parent process only accepts and forks;
  a session process serves one connection, one request after another, with the
  system calls of its own process. What the two sides share is a byte stream and
  two assumptions: descriptors from the server are distinguished from local
  ones by value, and the client's counter of open files agrees with the
  descriptor table of the session process.
* `RPCreceiver` (provided) runs a thread for each client of the proxy and calls
  the methods of that client's `FileHandler`. All handlers share the static
  `fileTable` and `globalFD` and the directory on disk, without locks.
* A program with the library of the first checkpoint makes a connection for every
  call and waits for one reply. The server serves the connections one after
  another in a single process.
* Every server of `P3` takes requests from the provided load balancer; the
  first one starts others, as many as a table gives for the hour of the day.

### What is hard, and what makes each part correct

| Component | Hard behaviour | Correctness |
|---|---|---|
| Framing | partial sends and receives, a receive that is not bounded by the frame, end of stream or reset in any loop, either process dying | a frame is handed on when it is complete, nothing is left for the next, a call is executed at most once and before it returns, calls return and sessions end |
| Remote files | two views of the open files, reconnection, fork failures, killed clients whose request still arrives, in whole or in part, sessions that interleave on the same files | counters agree with the table, routing is right, no disconnection under open files, the programs behave as on the server machine |
| Proxy | statements of two threads interleave on table, counter and directory; answers of `exists`, `isDirectory`, `containsKey` are used later; clients may use and close each other's descriptors | no descriptor is given out twice, a call uses the file of its descriptor although any client may close it, open files have a file behind them, `lseek` never answers a position before the one it moved to, what open creates and refuses |
| Marshalling | field orders and widths written twice, buffer sizes computed apart from what is written, recursion over trees, `errno` of the right call | the server does the call that was made, the caller gets its results and its error, nothing is written past the buffers for requests, paths and answers but in named cases |
| First checkpoint | names and replies in pieces, one process for all clients, clients that leave over an unread reply, an end of the server that hits everybody, results of `send` and `recv` that are not looked at | no waiting for a reply that will not come, every connected call ends, a call goes on unprinted only if the server ended, the server ends only after an early departure |
| Scaling | servers boot and register while others already take requests, as many threads start them as there are servers | the number of servers follows the table, a request is in one place and answered once, lines keep their order |

## 2. Modules

| Module | What it is |
|---|---|
| `RemoteCall` | abstract: one connection executes a call at most once, before it returns |
| `Framing` | one connection, byte-counted: `send_all`, the receive loops, end of stream, resets, deaths |
| `FramingProofs` | `Framing`'s inductive invariant, safety properties, refinement of `RemoteCall` |
| `Posix` | external: the system calls, as functions of a call, a descriptor table and the existing files |
| `LocalFiles` | abstract: programs that run on the server machine |
| `Trfo` | client library, accepting parent and session processes; messages are whole |
| `TrfoProofs` | `Trfo`'s inductive invariant and safety properties |
| `TrfoRefinement` | proof that `Trfo` implements `LocalFiles` |
| `Serde` | `serde.c`: integers, strings, calls, responses, frames and trees as bytes |
| `Exchange` | one remote call from the library's buffers to the system call and back |
| `ExchangeProofs` | what `Serde` writes it reads back; `Exchange`'s safety properties |
| `LogRpc` | the first checkpoint: library, server process, backlog, resets |
| `LoggedCall` | abstract: a call is printed before it goes on, as long as the server is up |
| `LogRpcProofs` | `LogRpc`'s inductive invariant, safety properties, refinement of `LoggedCall` |
| `Disk` | external: names, files, lengths; the proxy's calls and results |
| `FileHandling` | abstract: what clients get of the interface of that name, and where less than it promises |
| `Proxy` | `Proxy.java`, one access to shared state per step |
| `ProxyProofs` | `Proxy`'s inductive invariant and safety properties |
| `ProxyRefinement` | proof that `Proxy` implements `FileHandling` |
| `Farm` | abstract: lines of requests at servers that open |
| `Cloud` | the scaling web server on every VM |
| `CloudProofs` | `Cloud`'s inductive invariant and refinement of `Farm` |
| `MCTrfo`, `MCProxy`, `MCExchange` | symmetry sets and constants for TLC |

`Framing` and `Trfo` describe the same connection at two levels. `Framing`
shows that a request is one message, delivered once, and its reply another;
`Trfo` relies on that and lets a session hold at most one request or reply.
`Exchange` opens one such message: what is in it, byte for byte, and whether it
fits the buffers it is built in. It leaves to `Trfo` which calls are sent and
what files and descriptors mean.

A few operators have a second form next to them, such as `Recvable` and
`RecvableUnbounded`. The second is a plausible mistake in the code the first
models. No specification uses it; replacing the first by it shows which
properties notice the mistake.

### Framing

Each side has its place in the loops (`pc`), the counters of the code
(`pending` and `buffered` of `send_all`; `received`, `off`, `frame_size` of the
receive loop) and the bytes on the wire to it. `StartSend` and `SendBytes` are
`send_all`; `RecvHeader` and `RecvBody` the loops of `send_request` and
`handle_session`; `RecvEof`, `RecvError` and `SendFails` what they do when the
other side is gone; `Die` is a process killed anywhere. Every split of the
bytes by `send` and `recv` is a different step. The bytes themselves are not
represented: what can go wrong here is where a frame begins and ends.

One outcome is the result of reading uninitialised data: the client's first
`recv` returning -1 passes an unsigned comparison and the size is then read from
the buffer. Either branch ends the process (`err`, or a copy of -5 bytes), so
the model has one outcome.

### Trfo

The library's `sock`, `min_fd`, `opened_fd`; for each place for a connection
its status, the message under way in it and the descriptor table of its session
process; the files on the server. `call` and `ret` keep the latest call and what it
returned, so that `LocalFiles` compares the two, also for calls that never leave
the program. `CallLocal`, `CallRefused` and `CallRemote`
are the three ways out of an interposed function, with the tests that choose
between them (`RoutedLocally`, `Refused`), `Receive` is what the function does
with the reply, `Handle` the `do_` function with packing and unpacking of
descriptors, `Accept` accept and fork, `EndSession` the end of the session
process. `Exit` ends a program at any point, `KilledSending` ends it between the
sends of a request, and `Start` starts it again. What `KilledSending` leaves
behind is a `Partial` request: the session waits for the rest of it for ever
(`Framing`'s finding 1), with the files it has open, so `EndSession` does not apply
to it and `Reaped` does not speak of it. Of the many points within a
request at which a program can be killed `Trfo` needs only this one outcome; their
bytes are `Framing`'s.

Assumed of the environment: descriptors below `FD_OFFSET` are local
(`TrfoAssumption`; the source adds 1000 to what the server's kernel hands out,
so that a program with a thousand descriptors of its own is outside the
assumption), a program uses one call at a time, and it names descriptors it could have been given - not the numbers of
the session process's own standard streams and socket.

### Proxy

`pc[t]` names the next access of client thread `t` to shared state. `exists`,
`isDirectory`, `createNewFile`, `new RandomAccessFile`, `incrementAndGet`,
`put`, `containsKey`, `get`, `remove`, a transfer, the two parts of an `lseek`
(reading what it counts from, and moving), a second `length()` and `delete`
are steps; local computation belongs to the step before it. Clients
may name any descriptor, their own, each other's, closed ones, and a number that
open never returns: `Proxy.java` looks it up in the one table and asks no more.
So an entry can go between `containsKey` and `get`, and the call then throws
(`Throw`: the thread ends without an answer; what the receiver makes of it is
external), and two clients can move one descriptor. `clientdone` leaves the
table as it is. There is no history variable: what open has given out is
what has been drawn from the counter and put (`Given`). `IOMayFail` lets the
file system refuse for reasons of its own.

### Serde and Exchange

`Serde` has one operator for each function of `serde.c`, on sequences of bytes.
A byte has `BASE` values, 8 in the run, and fields have the widths of the
code (2, 4 and 8 bytes): every offset, order and width is that of the source, and
values that need the upper half of a field or are negative exist. Memory past
the end of a message reads as some byte. What is recursive in the code is a recursive
function here (`mem_write_tree`, the one inside `mem_read_tree`, and `Scale`, the number of
values of n bytes), so that theorems can be stated about it. `Trees` is any set of finite trees
that has their subtrees; `Call` gives the calls the types of `serde.h`.

`Exchange` has three steps: `Send` marshals a call, `Handle` unmarshals it, does
the system call and marshals its results, `Receive` unmarshals those. System
calls are external: any result and any `errno` their interface allows. For five
buffers - the payload and the frame of the request, the server's copy of the
path, its answer, the response - the model compares the bytes written
with the size the code allocates; `over` names those that were too small for the call under way,
and after one a process may abort at any time (`Abort`), as a heap may when it
is damaged. A `getdirtree` that failed gives its caller the root that was allocated
and never filled in (`Uninitialised`), which is finding 3.

### LogRpc

Programs make calls of five steps: connect, send the name, one `recv` for the
reply, close, the original function. The server is in `accept`, in `recv` or
about to reply. Bytes on the wire are counted in each direction, a `recv` takes
any number of those that have arrived. TCP is external and modelled for what
the code can tell: a close that leaves bytes unread resets the connection, a
reply to a closed connection breaks it, `recv` on a reset one fails and
`err(1, 0)` ends the server, a second reply on a broken one may raise SIGPIPE. When the
server has ended, the kernel resets the connections of its backlog. A program notices in
one of two ways, depending on when the reset arrives: its `send` takes the
error, which the library does not look at, and `recv` returns 0, which passes for
a reply (`SendFails`, `RecvNothing`: the program goes on unprinted); or its
`recv` takes it and `err(1, 0)` ends the program (`CallFails`).
Mortal clients may be killed at any point.

### Cloud

Each VM has a main thread (`main[v]`: booting, registering, deciding, done) and
a thread that takes requests (`taker[v]`, with its request in `hand[v]`). The
main thread starts the other before it registers, so a VM can have requests
while it decides. The first VM reads the hour and starts a thread for each
server the table gives; the hour is any of the 24, the table that of the source.
VM numbers, the load balancer and its queues are external.

## 3. Runs

| Run | Instance | Shows |
|---|---|---|
| `framing_connection` | header 2 bytes, buffer 4, payloads 1, 3, 9; both may die | types, `WholeFrame`, `CleanBetweenCalls`, `HalfDuplex`, `IInv`, refinement of `RemoteCall`, `CallsReturn`, `SessionEndsAfterFrame` |
| `framing_client_dies` | client may die | **violated**: `SessionEnds` |
| `framing_server_dies` | session may die | **violated**: `CallEndsWithoutServer` |
| `trfo_one` | 1 program, 2 connections, descriptors 3 and 5, all nine calls, fork may fail | types, `IInv`, `OpenCount`, `Routing`, `DisconnectsIdle`, `Transparent` |
| `trfo_live` | 2 programs on one file, 2 connections, fork succeeds and no session process dies; programs may be killed | `IInv`, `Transparent`, `CallsReturn`, `Reaped` |
| `trfo_tree_error` | 1 program | **violated**: `TreeErrorIsNull` |
| `exchange_calls` | all nine calls; paths of length 1, of the longest that fits the request and one more, the longest that fits the server's copy and one more; contents and trees around the sizes of the buffers; negative and wide values | `UnderWay`, `ServerDecodes`, `CallerGets`, `WithinBuffers` |
| `logrpc_calls` | 3 programs, one of them mortal, a backlog of 2, names and replies of 2 bytes | `IInv`, `EndsOnlyByDeparture`, refinement of `LoggedCall`, `CallsEnd` |
| `proxy_calls` | 2 clients, 1 path, 2 descriptors, every call and open option on every descriptor, seeking also from the end, failing I/O | types, `IInv`, `SeekAtLeast`, refinement of `FileHandling` |
| `proxy_new` | 2 clients that ask for a new file | **violated**: `CreatesNew` |
| `proxy_seek_end` | 2 clients that seek from the end | **violated**: `SeekEndTrue` |
| `cloud_requests` | 3 requests, 5 servers, every hour | `IInv`, refinement of `Farm`, `ScalesOut`, `AllAnswered` |

What the properties say beyond the safety of a single step: `CallsReturn`
(Framing) - a call ends while its session process lives; nothing is claimed of one
whose session has died (finding 2). `CallsReturn` (Trfo) - the same with two programs and
reconnection; no session process dies there and no fork fails;
`SessionEndsAfterFrame` - a session ends if its client left between two frames;
`Reaped` - a session whose program left between two frames ends and its files are closed,
whatever sessions of programs killed within a request hang beside it;
`Transparent`, `HandlesFiles`, `ImplementsRemoteCall`, `ImplementsLoggedCall`, `ImplementsFarm` -
the program implements its abstraction; `CallsEnd` - a program that
is connected is served in the end, although others are served before it and may
be killed; `ScalesOut` - as many servers as the table gave take requests in the
end, and it stays so; `AllAnswered` - every request that came is answered.

Bounds, and why they suffice. *Framing*: with a header of 2 and a buffer of 4,
payload 1 fits in one buffer with its header, 3 needs a second buffer, 9 needs
several; headers arrive whole, split, or followed by payload. Nothing in the
loops depends on a count of calls, and the invariant makes the connection return
to the same state after each. *Trfo*: two descriptors make the session's kernel
reuse a low number while a higher one is open, which is when `min_fd` matters;
descriptors 3 and 5 are not adjacent so that off-by-one comparisons show. Two
connections per program let a reconnection overlap the end of the old session.
`RoomBeside` bounds the sessions that hang: one place for a connection stays usable
(the server has no bound, a session that hangs only takes memory from it).
The theorems remove the bounds for safety. *Proxy*: `MaxFd` allows two
opens; races are between two statements of two threads, on one descriptor, on two,
or on a file both have open. `MaxLength` bounds positions - a write or `lseek` that would go
further can only fail, which `IOMayFail` allows -, `Inodes` how many files
ever exist: one more than the opens can create. *Exchange*: `BUFFERLEN` and
`MAXMSGLEN` are 30 instead of 4096 and `MAXTREESIZE` is 60 instead of 40960, so that
paths, entries and trees of the length at which each buffer is exactly full, and
one byte past it, are short. `FD_OFFSET` is 1000, as in the code. The trees have up to two
subdirectories and a depth of three, and every subtree is itself a tree of the run. *LogRpc*: a name and a
reply of two bytes come whole or in two pieces; three programs and a backlog of two
make one wait to connect while another is queued and a third is served.
*Cloud*: five servers are all that the table ever asks for; three requests
make a line in which one is being processed and two wait.

Deadlock is checked except where a system may stop for good: both sides of a
connection gone (`Framing_*.cfg`), clients that can only open, with no
descriptor left within the bound (`Proxy_new.cfg`), the server and all programs
gone (`LogRpc_calls.cfg`), all requests answered (`Cloud_requests.cfg`), and an
aborted process (`Exchange_calls.cfg`).

### Fairness

`Framing!Fairness` is weak fairness of sending, receiving, handling, noticing the
end of the stream and errors: TCP delivers and the kernel schedules both processes.
`Trfo!Fairness` is the same one level up; it obliges a session to end only when its client left
between frames, where `recv` returning 0 ends the loop (`server.c:151`), and never one with a partial request. `LogRpc!Fairness` lets the server
process run (`Serve`) and a program go on once it has connected
(`Proceed`), that is, no program is stopped in the middle of a call; connecting is not fair, since a full backlog makes a program wait for
as long as others are quicker. `Cloud!Fairness`: VMs boot, their threads run and
the calls of `ServerLib` return. Nothing makes a program call, exit
or be killed, or a client send a request. The violated liveness properties are checked under the same
fairness, so their counterexamples are loops of the code: `recv` returning 0
again and again.

## 4. Proofs

All theorems hold for every value of the constants that satisfies the named
assumptions (`FramingAssumption`, `PosixAssumption`, `TrfoAssumption`,
`DiskAssumption`, `CallsAssumption`, ...). TLC evaluates the assumptions in every run.

* **Framing.** `IInv` adds to the types an account of bytes: for a side that
  can receive, what the sender has not copied, what is in its buffer, on the wire
  and received sums to exactly the frame under way, and to nothing otherwise
  (`RequestFlow`, `ResponseFlow`), together with what each place in the loop
  says of its counters. This is why an unbounded `recv` cannot take bytes of a
  next frame: there are none. From it: `TypeCorrect`, `FramesWhole`,
  `StreamClean`, `OneSender`, and `Refinement` to `RemoteCall`.
* **Trfo.** `OpenCount` and `Routing` are not inductive: between the server's
  change to its table and the client's receipt of the reply the two sides
  differ by the call under way. `IInv` says by what (`Known`, `ReplyTrue`), that
  sessions are private (`Private`), and that a connection holds a request or a
  reply only while its client waits (`Connected`, `Mailbox`). From it:
  `TypeCorrect`, `CountsOpenFiles`, `RoutesByNumber`, `DisconnectsOnlyIdle`.
* **Proxy.** `IInv` says that a number drawn from the counter, whether put
into the table yet or not, is nobody else's and was never in the table (`Unique`);
hence, although any client may close any descriptor between `containsKey`, `get` and the
use of the file, what a method uses is the file of its descriptor as long as that is open,
and a closed number never comes to stand for another file (`Held`). Every
entry has a mode, and a file unless it is a directory (`FileBehind`). `LocalStep` is
the common argument of steps that change only their thread's locals. From it:
`TypeCorrect`, `DescriptorsUnique`, `FileIsTheDescriptors`, `FileIsBehind`. An `lseek` from
the end can answer another position than it moved to (finding 5); `SeekNeverShort` says
that it is at least never before that. Between the two
lengths the file only grows, though its descriptor be closed and its name unlinked: `createNewFile`
leaves a file that exists alone and a new one takes no inode in use
(`EndKnown`, an invariant of each thread by itself).
* **First checkpoint.** `ReplyComing` needs an account of the name: what of it is
  under way and what the server has printed make it up (`NameFlow`), which in turn
  needs every connection in use to be in the backlog or served, once
(`Connected`). A server that ends complicates both: the connections that are left are all in
its backlog, nothing of their names was printed, and only then may a program be in or past its
call unprinted. `EndsOnlyByDeparture` needs what a reset or broken connection, a
reply to a closed one, and a name unread after its sender left all have in
common: somebody left early (`Departures`). From `IInv`: `RepliesComing`,
`ServerEnds`, and `Refinement` to a `LoggedCall` for each program.
* **Cloud.** `IInv` counts servers (`Provisioning`), ties the threads of a VM to
  each other (`Attended`) and puts a request in one place (`OnePlace`).
  `Refinement` to `Farm` maps a server's line to the request in hand in front
  of those queued; `OnePlace` is why an answer is the first one for its request.
* **Trfo implements LocalFiles** (`TrfoRefinement`). A call takes effect when its
  session handles it - for a killed program, after its end - and the library's
  own answers take effect at once. The core is that the session's kernel on its
  descriptors and the abstract kernel on those the program was given agree
  under the offset (`Offset`, `LowestOffset`, `SameKernel`), and that calls
  kept from the server are the ones a local kernel would answer the same
  (`LocalKernel`). One more invariant, `AllForwarded`: a call sent to the server on a
  local descriptor is an `lseek` or `getdirentries`.
* **Proxy implements FileHandling** (`ProxyRefinement`). A method takes several
  steps, one of which is the point where its call takes effect; the others are invisible, or make
  a file on the way. `IInv` does not say what a thread may still rely on
  of earlier answers of the file system: `Remembers` adds it, and holds
  because no client makes or removes a directory (`DirsStay`). A close takes the descriptor
  from every other call that has found its entry and not yet its file; that the entry is gone
  for those, and only closed for the others, is `Held`.

* **Marshalling** (`ExchangeProofs`). For each integer, string, request, frame,
  response and tree a lemma says that what was written at an offset is read from it. What is
  recursive needs induction over data. The library's induction theorems are out of
  reach (they take a predicate as a parameter), but a least counterexample is not: a
  non-empty set of numbers has a least element (`NatLeast`), a non-empty set of trees
  one whose subdirectories are not in it (`LeastTree`, the finiteness stated by
  `TreesAssumption`). That way a recursive function is first shown to exist (`ScaleDef`,
  `WriteTreeDef`, `ReadTreeDef`: reading an offset depends on larger offsets only, and
  behind the end of the buffer there are no subdirectories), then to have the property:
  `ValueOfBytes` for the digits of a number, `TreesReadBack` for trees.
  `UnderWay` says what the message on the wire is in each phase and that the
  server kept the result of that call; with `CallerGets` and `WithinBuffers` it is inductive.
  From it: `OneCallUnderWay`, `ServerDecodesCalls`, `CallersGetResults`, `BuffersSuffice`.
  The assumptions: arguments, results and `errno` have their C types (`CallsAssumption`,
  `ResultsAssumption`), and messages and trees are short enough for the 32-bit sizes, buffers
  long enough for the fields of fixed length and `MAXMSGLEN` no smaller than `BUFFERLEN`, as in the
  code, where both are 4096 (`SizesAssumption`).

Every safety property the passing runs check is the statement of a theorem. Only
model-checked: liveness, `CallsReturn`, `SessionEndsAfterFrame`, `Reaped`, `CallsEnd`,
`ScalesOut` and `AllAnswered` - fairness and ENABLED are out of the prover's reach.

## 5. Findings

Where the code does something else than a comment or document says, and a run
shows it:

1. A client that dies in mid-frame leaves a session process calling `recv` for ever (`server.c:177`; `framing_client_dies`).
2. A call whose session process is gone never returns (`mylib.c:692`; `framing_server_dies`).
3. `getdirtree` returns a tree when the remote call failed (`mylib.c:552`; `trfo_tree_error`).
4. Two clients can both create the same new file (`Proxy.java:62`; `proxy_new`).
5. `lseek` from the end can return another position than the descriptor's (`Proxy.java:178`; `proxy_seek_end`).

Others the models contain as plain facts, for which no run was spent. Buffers that are
too small, which `WithinBuffers` lists as its exceptions: the frame of a write, four bytes
longer than its buffer, always (`mylib.c:260`); the answer to a `read` that failed, one byte
longer (`server.c:358`); a path that does not fit `BUFFERLEN` with its
frame (`mylib.c:77`), and if it is longer still the server's copy of it (`server.c:373`); directory entries and trees larger than the server's buffers for
them. The server of the first checkpoint "quit after 10 clients" in a comment, but serves without end,
until a client resets its connection (`rpc/server.c:45`, `64`). The number of servers in `P3`
follows the hour at which the first one started, for ever (`cp1/Server.java:23`). And: the
server handles clients concurrently and for ever, where its comment says one at
a time and ten in all (`server.c:74`); `lseek` and `getdirentries` on a local descriptor
are sent to the server, which answers `EBADF` (`mylib.c:304`); opening
for writing creates a file that was unlinked after `exists` was asked
(`Proxy.java:54`); `clientdone` cleans nothing up (`Proxy.java:223`), although the interface says
that it "will clean up any state, open files, etc." (`P2/doc/FileHandling.html:371-375`); any client can use
and close the descriptors of the others (`Proxy.java:97`), and a call whose descriptor goes
between `containsKey` and `get` throws instead of returning `EBADF` (`Proxy.java:112`); a
program goes on without its call having been printed when the server of the first
checkpoint has ended (`rpc/mylib.c:153`, `157-159`).

`LocalFiles`, `FileHandling` and `LoggedCall` are the promises with these exceptions
allowed for.

* `LocalFiles`: seeking and listing may be refused on local descriptors;
  `getdirtree` returns a tree also when it fails; a call may never return, as
  when the server cannot fork for its connection; and a call of a program that was killed may
  take effect after its end, or, if it was killed in sending it, not at all.
* `FileHandling`: an open for writing may create the file, and two clients may
  create the same one; open gets hold of its file at one point and of its descriptor at
  another; `read`, `write` and `lseek` go on using a file whose descriptor was closed after
  they got hold of it; an `lseek` reads what it counts from, moves the descriptor, and, counting
  from the end, reads the length again to answer (`Report`), at three points, so that it may
  answer another position than it moved to (finding 5); descriptors belong to nobody; a call
  whose descriptor another client closes may get no answer (`Broken`), and a `close` then still
  returns 0; the end of a session leaves its descriptors open.
* `LoggedCall`: one call of each program may go on unprinted after the server has ended.

Everything else they say is exact.

## 6. Not modelled

* Contents of files, modes and flags other than `O_CREAT`, offsets of `lseek` in
  P1: they pass through the library and the session unchanged and no state of
  this code depends on them.
* The two models of a message together: `Trfo` treats it as a record, `Exchange`
  as bytes. `ServerDecodes` and `CallerGets` are what `Trfo` relies on; no
  theorem composes them.
* Writes of 2^31 bytes and more, which the 32-bit sizes cut short.
* Zombie processes of the server: they are never waited for, and nothing reads
  the process table.
* Several threads in one program with the P1 library: it keeps no locks; the
  programs it is handed out with are single-threaded.
* The 32-bit width of `globalFD`; collection of the proxy's unclosed files.
* The samples and skeletons listed in section 1, which print, echo or answer
  `ENOSYS`, and the sample of the scaling server, which `cp1/Server.java` replaces.
* Provided class files and documentation. The scripts under `P2/doc`, `P3/doc` and
  `P4/doc` are jQuery, jszip and what javadoc generates for its search box: no part
  of the programs uses them, and they are by far the largest number of lines
  in the repository. The programs themselves are the C and Java files of section 1.

## 7. Plan

Done, in this order: `Framing`, `Trfo` and `Proxy` with their abstractions,
invariants and proofs; `LogRpc`; `Cloud`; `Serde` and `Exchange`; the proofs of
`Transparent` and `HandlesFiles`; the proofs of `Exchange`.

Left:

1. The two models of a message together: `Trfo`'s records carried by `Exchange`'s bytes.
2. Several threads in one program with the P1 library, if it is ever used so:
   `min_fd`, `opened_fd` and the socket would need locks first.
3. Counts and descriptors at the width of their types.
