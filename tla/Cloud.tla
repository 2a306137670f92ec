-------------------------------- MODULE Cloud --------------------------------
(***************************************************************************)
(* The scaling web server (p3 cp1/Server.java).  Every VM runs the same    *)
(* program: one thread takes requests from the queue of its front end and  *)
(* processes them, the main thread registers the front end, and on the     *)
(* first VM it starts as many others as a table gives for the hour of the  *)
(* day, each from a thread of its own.                                     *)
(*                                                                         *)
(* The cloud behind ServerLib is external: it numbers and boots the VMs,   *)
(* tells the time, hands each request to one registered front end and      *)
(* queues it there.                                                        *)
(***************************************************************************)
EXTENDS Integers, Sequences

CONSTANTS
  Requests,   \* the requests clients send
  None

ASSUME CloudAssumption == None \notin Requests

PRIMARY_VM_ID == 1

(* How many servers the table starts at an hour.                           *)
StartsAt(hour) ==
  CASE hour \in 1..5 -> 1
    [] hour \in {0, 6, 9, 10, 15, 16, 17, 23} -> 2
    [] hour \in {7, 11} -> 3
    [] hour \in {8, 12, 13, 14} \cup 18..22 -> 4

(* The first VM and those it may start.                                    *)
Servers == 1..5

VARIABLES
  created,    \* VMs the cloud has created; their numbers are 1..created
  main,       \* main[v]: where the main thread of v is, "off" while v boots
  asked,      \* history: servers the first VM found in the table
  starting,   \* its threads that have not called startVM yet
  registered, \* the front ends the load balancer knows
  taker,      \* taker[v]: where the thread of runSvr is
  hand,       \* hand[v]: its r
  queue,      \* queue[v]: requests at the front end of v
  arrived,    \* requests that have come
  answered    \* requests that processRequest has replied to

vars == <<created, main, asked, starting, registered, taker, hand, queue, arrived, answered>>
scaling == <<created, main, asked, starting, registered>>
serving == <<taker, hand, queue, arrived, answered>>

TypeOK ==
  /\ created \in Servers
  /\ main \in [Servers -> {"off", "registering", "deciding", "done"}]
  /\ asked \in 0..4 /\ starting \in 0..4
  /\ registered \subseteq Servers
  /\ taker \in [Servers -> {"off", "taking", "processing"}]
  /\ hand \in [Servers -> Requests \cup {None}]
  /\ queue \in [Servers -> Seq(Requests)]
  /\ arrived \subseteq Requests /\ answered \subseteq Requests

(* The cloud has created the first VM.                                     *)
Init ==
  /\ created = 1
  /\ main = [v \in Servers |-> "off"]
  /\ asked = 0 /\ starting = 0
  /\ registered = {}
  /\ taker = [v \in Servers |-> "off"]
  /\ hand = [v \in Servers |-> None]
  /\ queue = [v \in Servers |-> << >>]
  /\ arrived = {} /\ answered = {}

-----------------------------------------------------------------------------
(* main and startSvr *)

(* A VM has booted: main connects to the cloud and starts the thread of    *)
(* runSvr.  The variant leaves the loop to the end of main, where it is    *)
(* commented out.                                                          *)
BootIdle(v) ==
  /\ v <= created /\ main[v] = "off"
  /\ main' = [main EXCEPT ![v] = "registering"]
  /\ UNCHANGED <<created, asked, starting, registered, serving>>
Boot(v) ==
  /\ v <= created /\ main[v] = "off"
  /\ main' = [main EXCEPT ![v] = "registering"]
  /\ taker' = [taker EXCEPT ![v] = "taking"]
  /\ UNCHANGED <<created, asked, starting, registered, hand, queue, arrived, answered>>

Register(v) ==
  /\ main[v] = "registering"
  /\ registered' = registered \cup {v}
  /\ main' = [main EXCEPT ![v] = "deciding"]
  /\ UNCHANGED <<created, asked, starting, serving>>

(* The VMs that read the table.  The variant lets each of them read it.    *)
ProvisionsAlways(v) == TRUE
Provisions(v) == v = PRIMARY_VM_ID

(* The hour is read and the switch entered; startSvr starts the threads.   *)
Decide(v) ==
  /\ main[v] = "deciding"
  /\ main' = [main EXCEPT ![v] = "done"]
  /\ \/ /\ Provisions(v)
        /\ \E hour \in 0..23 :
             /\ asked' = StartsAt(hour)
             /\ starting' = starting + StartsAt(hour)
     \/ ~Provisions(v) /\ UNCHANGED <<asked, starting>>
  /\ UNCHANGED <<created, registered, serving>>

(* A thread calls startVM and ends.  The variant calls it again.           *)
StartVMAgain ==
  /\ starting > 0 /\ created < 5
  /\ created' = created + 1
  /\ UNCHANGED <<main, asked, starting, registered, serving>>
StartVM ==
  /\ starting > 0
  /\ starting' = starting - 1
  /\ created' = created + 1
  /\ UNCHANGED <<main, asked, registered, serving>>

-----------------------------------------------------------------------------
(* Requests *)

(* The load balancer hands a request to one of the front ends it knows.    *)
Arrive(v, r) ==
  /\ v \in registered /\ r \notin arrived
  /\ arrived' = arrived \cup {r}
  /\ queue' = [queue EXCEPT ![v] = Append(@, r)]
  /\ UNCHANGED <<scaling, taker, hand, answered>>

(* getNextRequest, which waits for one.  The variant comes round the loop  *)
(* before r has been processed.                                            *)
TakeWhileBusy(v) ==
  /\ taker[v] # "off" /\ queue[v] # << >>
  /\ taker' = [taker EXCEPT ![v] = "processing"]
  /\ hand' = [hand EXCEPT ![v] = Head(queue[v])]
  /\ queue' = [queue EXCEPT ![v] = Tail(@)]
  /\ UNCHANGED <<scaling, arrived, answered>>
Take(v) ==
  /\ taker[v] = "taking" /\ queue[v] # << >>
  /\ taker' = [taker EXCEPT ![v] = "processing"]
  /\ hand' = [hand EXCEPT ![v] = Head(queue[v])]
  /\ queue' = [queue EXCEPT ![v] = Tail(@)]
  /\ UNCHANGED <<scaling, arrived, answered>>

(* processRequest replies, and the loop comes round.                       *)
Process(v) ==
  /\ taker[v] = "processing"
  /\ taker' = [taker EXCEPT ![v] = "taking"]
  /\ answered' = answered \cup {hand[v]}
  /\ hand' = [hand EXCEPT ![v] = None]
  /\ UNCHANGED <<scaling, queue, arrived>>

Run(v) == Boot(v) \/ Register(v) \/ Decide(v)
Serve(v) == Take(v) \/ Process(v)
ArriveSomewhere == \E v \in Servers, r \in Requests : Arrive(v, r)

Next ==
  \/ StartVM \/ ArriveSomewhere
  \/ \E v \in Servers : Run(v) \/ Serve(v)

Spec == Init /\ [][Next]_vars

(* VMs boot and their threads run, the calls of ServerLib return.  Nothing *)
(* makes a client send a request.                                          *)
Fairness ==
  /\ WF_vars(StartVM)
  /\ \A v \in Servers : WF_vars(Run(v)) /\ WF_vars(Serve(v))

FairSpec == Spec /\ Fairness
-----------------------------------------------------------------------------
(* Properties *)

(* The servers created and those under way are the first one and what the  *)
(* table gave: neither the threads of startSvr nor the servers they start  *)
(* bring in others (Server.java 22, 62).                                   *)
Provisioning ==
  /\ created + starting = 1 + asked
  /\ asked > 0 => main[PRIMARY_VM_ID] = "done"
  /\ \A v \in Servers : main[v] # "off" => v <= created

(* A front end that is known has a thread that takes its requests, even if *)
(* main has not come back from register_frontend (Server.java 17, 19).     *)
Attended ==
  \A v \in Servers :
    /\ v \in registered <=> main[v] \in {"deciding", "done"}
    /\ main[v] # "off" <=> taker[v] # "off"
    /\ taker[v] = "processing" <=> hand[v] # None
    /\ v \notin registered => queue[v] = << >> /\ taker[v] # "processing"

(* A request that has come is in one place: a queue, the hands of one      *)
(* thread, or answered.                                                    *)
OnePlace ==
  /\ answered \subseteq arrived
  /\ \A v \in Servers :
    /\ hand[v] # None => hand[v] \in arrived \ answered
    /\ \A i \in 1..Len(queue[v]) :
         /\ queue[v][i] \in arrived \ answered
         /\ \A w \in Servers : queue[v][i] # hand[w]
         /\ \A w \in Servers : \A j \in 1..Len(queue[w]) :
              queue[v][i] = queue[w][j] => v = w /\ i = j
    /\ \A w \in Servers : hand[v] # None /\ hand[v] = hand[w] => v = w

(* The inductive invariant.                                                *)
IInv == TypeOK /\ Provisioning /\ Attended /\ OnePlace

(* To the clients the service is a Farm: the thread's r is the first in    *)
(* the line of its server.                                                 *)
Line == [v \in Servers |->
           IF hand[v] = None THEN queue[v] ELSE <<hand[v]>> \o queue[v]]
F == INSTANCE Farm WITH open <- registered, line <- Line
ImplementsFarm == F!Spec

(* As many servers as the table gave for the hour that was read take       *)
(* requests in the end, and it stays so.                                   *)
ScalesOut == <>[](registered = 1..(1 + asked) /\ main[PRIMARY_VM_ID] = "done")

(* Every request that has come is answered.                                *)
AllAnswered == \A r \in Requests : r \in arrived ~> r \in answered
=============================================================================
