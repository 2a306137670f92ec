----------------------------- MODULE CloudProofs -----------------------------
(***************************************************************************)
(* IInv is an inductive invariant of Cloud, for any requests, and from it: *)
(* the number of servers stays what the table gave, a request is in one    *)
(* place, and the service is a Farm.  Steps that leave the requests alone  *)
(* and steps that leave the provisioning alone are treated apart.          *)
(***************************************************************************)
EXTENDS Cloud, TLAPS

USE CloudAssumption

(* The table has an answer for every hour, and it starts at most four.     *)
LEMMA TableRange == \A hour \in 0..23 : StartsAt(hour) \in 1..4
<1> SUFFICES ASSUME NEW hour \in 0..23 PROVE StartsAt(hour) \in 1..4
  OBVIOUS
<1>1. \/ hour \in 1..5
      \/ hour \in {0, 6, 9, 10, 15, 16, 17, 23}
      \/ hour \in {7, 11}
      \/ hour \in {8, 12, 13, 14} \cup 18..22
  OBVIOUS
<1> QED BY <1>1 DEF StartsAt

LEMMA InitIInv == Init => IInv
<1> SUFFICES ASSUME Init PROVE IInv
  OBVIOUS
<1> DEFINE NoQueue == [v \in Servers |-> << >>]
<1>1. << >> \in Seq(Requests) /\ Len(<< >>) = 0
  OBVIOUS
<1>2. TypeOK
  BY <1>1 DEF Init, TypeOK, Servers
<1>3. Provisioning /\ Attended
  BY DEF Init, Provisioning, Attended, Servers, PRIMARY_VM_ID
<1>4. OnePlace
  BY <1>1 DEF Init, OnePlace
<1> QED BY <1>2, <1>3, <1>4 DEF IInv

(* Steps of main and of the threads of startSvr.                           *)
LEMMA StepScaling ==
  ASSUME IInv, StartVM \/ \E v \in Servers : Run(v)
  PROVE  IInv'
<1> USE DEF IInv
<1>1. UNCHANGED <<hand, queue, arrived, answered>>
  BY DEF StartVM, Run, Boot, Register, Decide, serving
<1>2. OnePlace'
  BY <1>1 DEF OnePlace
<1>3. CASE StartVM
  <2>1. /\ starting > 0 /\ starting' = starting - 1 /\ created' = created + 1
        /\ UNCHANGED <<main, asked, registered, taker, hand, queue, arrived, answered>>
    BY <1>3 DEF StartVM, serving
  <2>2. Provisioning'
    BY <2>1 DEF Provisioning, TypeOK, Servers
  <2>3. created' \in Servers /\ starting' \in 0..4
    BY <2>1 DEF Provisioning, TypeOK, Servers
  <2>4. TypeOK'
    BY <2>1, <2>3 DEF TypeOK
  <2>5. Attended'
    BY <2>1 DEF Attended
  <2> QED BY <1>2, <2>2, <2>4, <2>5
<1>4. ASSUME NEW v \in Servers, Boot(v)
      PROVE  IInv'
  <2>1. /\ v <= created /\ main[v] = "off"
        /\ main' = [main EXCEPT ![v] = "registering"]
        /\ taker' = [taker EXCEPT ![v] = "taking"]
        /\ UNCHANGED <<created, asked, starting, registered, hand, queue, arrived, answered>>
    BY <1>4 DEF Boot
  <2>2. TypeOK'
    BY <2>1 DEF TypeOK
  <2>3. Provisioning'
    BY <2>1 DEF Provisioning, TypeOK, Servers, PRIMARY_VM_ID
  <2>4. Attended'
    BY <2>1 DEF Attended, TypeOK
  <2> QED BY <1>2, <2>2, <2>3, <2>4
<1>5. ASSUME NEW v \in Servers, Register(v)
      PROVE  IInv'
  <2>1. /\ main[v] = "registering"
        /\ main' = [main EXCEPT ![v] = "deciding"]
        /\ registered' = registered \cup {v}
        /\ UNCHANGED <<created, asked, starting, taker, hand, queue, arrived, answered>>
    BY <1>5 DEF Register, serving
  <2>2. TypeOK'
    BY <2>1 DEF TypeOK
  <2>3. Provisioning'
    BY <2>1 DEF Provisioning, TypeOK, Servers, PRIMARY_VM_ID
  <2>4. Attended'
    BY <2>1 DEF Attended, TypeOK
  <2> QED BY <1>2, <2>2, <2>3, <2>4
<1>6. ASSUME NEW v \in Servers, Decide(v)
      PROVE  IInv'
  <2>1. /\ main[v] = "deciding"
        /\ main' = [main EXCEPT ![v] = "done"]
        /\ UNCHANGED <<created, registered, taker, hand, queue, arrived, answered>>
    BY <1>6 DEF Decide, serving
  <2>2. \/ v = 1 /\ \E n \in 1..4 : asked' = n /\ starting' = starting + n
        \/ v # 1 /\ UNCHANGED <<asked, starting>>
    BY <1>6, TableRange DEF Decide, Provisions, PRIMARY_VM_ID
  <2>3. v = 1 => asked = 0 /\ starting = 0
    BY <2>1 DEF Provisioning, TypeOK, Servers, PRIMARY_VM_ID
  <2>4. TypeOK'
    BY <2>1, <2>2, <2>3 DEF TypeOK
  <2>5. Provisioning'
    BY <2>1, <2>2, <2>3 DEF Provisioning, TypeOK, Servers, PRIMARY_VM_ID
  <2>6. Attended'
    BY <2>1 DEF Attended, TypeOK
  <2> QED BY <1>2, <2>4, <2>5, <2>6
<1> QED BY <1>3, <1>4, <1>5, <1>6 DEF Run

(* A request joins the queue of a front end.                               *)
LEMMA StepArrive ==
  ASSUME IInv, NEW v \in Servers, NEW r \in Requests, Arrive(v, r)
  PROVE  IInv'
<1> USE DEF IInv
<1>1. /\ v \in registered /\ r \notin arrived
      /\ arrived' = arrived \cup {r}
      /\ queue' = [queue EXCEPT ![v] = Append(@, r)]
      /\ UNCHANGED <<created, main, asked, starting, registered, taker, hand, answered>>
  BY DEF Arrive, scaling
<1>2. queue \in [Servers -> Seq(Requests)] /\ queue[v] \in Seq(Requests)
  BY DEF TypeOK
<1>3. /\ queue'[v] = Append(queue[v], r) /\ queue'[v] \in Seq(Requests)
      /\ \A w \in Servers : w # v => queue'[w] = queue[w]
      /\ queue' \in [Servers -> Seq(Requests)]
  BY <1>1, <1>2
<1>4. /\ Len(queue[v]) \in Nat /\ Len(queue'[v]) = Len(queue[v]) + 1
      /\ queue'[v][Len(queue[v]) + 1] = r
      /\ \A i \in 1..Len(queue[v]) : queue'[v][i] = queue[v][i]
  BY <1>2, <1>3
<1>5. TypeOK'
  BY <1>1, <1>3 DEF TypeOK
<1>6. Provisioning'
  BY <1>1 DEF Provisioning
<1>7. Attended'
  BY <1>1, <1>3 DEF Attended
<1>8. r \notin answered
  BY <1>1 DEF OnePlace
<1>9. \A w \in Servers : hand[w] # r
  BY <1>1 DEF OnePlace
<1>10. \A w \in Servers : \A i \in 1..Len(queue'[w]) :
         \/ w = v /\ i = Len(queue[v]) + 1 /\ queue'[w][i] = r
         \/ i \in 1..Len(queue[w]) /\ queue'[w][i] = queue[w][i] /\ queue[w][i] # r
  BY <1>1, <1>3, <1>4 DEF OnePlace
<1>11. OnePlace'
  BY <1>1, <1>8, <1>9, <1>10 DEF OnePlace
<1> QED BY <1>5, <1>6, <1>7, <1>11

(* The thread of runSvr takes the first request of its queue.              *)
LEMMA StepTake ==
  ASSUME IInv, NEW v \in Servers, Take(v)
  PROVE  IInv'
<1> USE DEF IInv
<1>1. /\ taker[v] = "taking" /\ queue[v] # << >>
      /\ taker' = [taker EXCEPT ![v] = "processing"]
      /\ hand' = [hand EXCEPT ![v] = Head(queue[v])]
      /\ queue' = [queue EXCEPT ![v] = Tail(@)]
      /\ UNCHANGED <<created, main, asked, starting, registered, arrived, answered>>
  BY DEF Take, scaling
<1>2. queue \in [Servers -> Seq(Requests)] /\ queue[v] \in Seq(Requests)
  BY DEF TypeOK
<1>3. /\ queue'[v] = Tail(queue[v]) /\ queue'[v] \in Seq(Requests)
      /\ \A w \in Servers : w # v => queue'[w] = queue[w]
      /\ queue' \in [Servers -> Seq(Requests)]
  BY <1>1, <1>2
<1>4. /\ Len(queue[v]) \in Nat \ {0} /\ Len(queue'[v]) = Len(queue[v]) - 1
      /\ Head(queue[v]) = queue[v][1] /\ Head(queue[v]) \in Requests
      /\ \A i \in 1..Len(queue'[v]) : queue'[v][i] = queue[v][i + 1]
  BY <1>1, <1>2, <1>3
<1>5. /\ hand'[v] = queue[v][1] /\ hand'[v] # None /\ hand[v] = None
      /\ \A w \in Servers : w # v => hand'[w] = hand[w]
  BY <1>1, <1>4 DEF TypeOK, Attended
<1>6. TypeOK'
  BY <1>1, <1>3, <1>4 DEF TypeOK
<1>7. Provisioning'
  BY <1>1 DEF Provisioning
<1>8. Attended'
  <2>1. v \in registered
    BY <1>1 DEF Attended
  <2> QED BY <1>1, <1>3, <1>5, <2>1 DEF Attended, TypeOK
<1>9. \A w \in Servers : \A i \in 1..Len(queue'[w]) : \E j \in 1..Len(queue[w]) :
         /\ queue'[w][i] = queue[w][j]
         /\ w # v => i = j
         /\ w = v => j = i + 1
  <2> SUFFICES ASSUME NEW w \in Servers, NEW i \in 1..Len(queue'[w])
               PROVE  \E j \in 1..Len(queue[w]) :
                        /\ queue'[w][i] = queue[w][j]
                        /\ w # v => i = j
                        /\ w = v => j = i + 1
    OBVIOUS
  <2>1. CASE w # v
    BY <1>3, <2>1
  <2>2. CASE w = v
    <3>1. i \in 1..Len(queue'[v]) /\ i + 1 \in 1..Len(queue[v])
      BY <1>4, <2>2
    <3>2. queue'[v][i] = queue[v][i + 1]
      BY <1>4, <3>1
    <3> QED BY <2>2, <3>1, <3>2
  <2> QED BY <2>1, <2>2
<1>10. 1 \in 1..Len(queue[v])
  BY <1>4
<1>11. OnePlace'
  <2>1. \A w \in Servers : hand'[w] # None => hand'[w] \in arrived \ answered
    BY <1>5, <1>10 DEF OnePlace
  <2>2. \A w \in Servers : \A i \in 1..Len(queue'[w]) : queue'[w][i] \in arrived \ answered
    BY <1>9 DEF OnePlace
  <2>3. ASSUME NEW w \in Servers, NEW i \in 1..Len(queue'[w]), NEW u \in Servers
        PROVE  queue'[w][i] # hand'[u]
    <3>1. PICK j \in 1..Len(queue[w]) :
            queue'[w][i] = queue[w][j] /\ (w = v => j = i + 1)
      BY <1>9
    <3>2. CASE u = v
      <4>1. w = v => j # 1
        BY <3>1, <1>3, <1>4
      <4> QED BY <3>1, <3>2, <4>1, <1>5, <1>10 DEF OnePlace
    <3>3. CASE u # v
      BY <3>1, <3>3, <1>5 DEF OnePlace
    <3> QED BY <3>2, <3>3
  <2>4. ASSUME NEW w \in Servers, NEW i \in 1..Len(queue'[w]),
               NEW u \in Servers, NEW k \in 1..Len(queue'[u]),
               queue'[w][i] = queue'[u][k]
        PROVE  w = u /\ i = k
    <3>1. PICK j \in 1..Len(queue[w]) :
            /\ queue'[w][i] = queue[w][j] /\ (w # v => i = j) /\ (w = v => j = i + 1)
      BY <1>9
    <3>2. PICK l \in 1..Len(queue[u]) :
            /\ queue'[u][k] = queue[u][l] /\ (u # v => k = l) /\ (u = v => l = k + 1)
      BY <1>9
    <3>3. queue[w][j] = queue[u][l]
      BY <2>4, <3>1, <3>2
    <3>4. w = u /\ j = l
      BY <3>3 DEF OnePlace
    <3>5. i \in Int /\ k \in Int
      BY <1>2, <1>3
    <3> QED BY <3>1, <3>2, <3>4, <3>5
  <2>5. \A w, u \in Servers : hand'[w] # None /\ hand'[w] = hand'[u] => w = u
    BY <1>5, <1>10 DEF OnePlace
  <2> QED BY <1>1, <2>1, <2>2, <2>3, <2>4, <2>5 DEF OnePlace
<1> QED BY <1>6, <1>7, <1>8, <1>11

(* A request is answered.                                                  *)
LEMMA StepProcess ==
  ASSUME IInv, NEW v \in Servers, Process(v)
  PROVE  IInv'
<1> USE DEF IInv
<1>1. /\ taker[v] = "processing"
      /\ taker' = [taker EXCEPT ![v] = "taking"]
      /\ answered' = answered \cup {hand[v]}
      /\ hand' = [hand EXCEPT ![v] = None]
      /\ UNCHANGED <<created, main, asked, starting, registered, queue, arrived>>
  BY DEF Process, scaling
<1>2. hand[v] # None /\ hand[v] \in Requests
  BY <1>1 DEF Attended, TypeOK
<1>3. hand'[v] = None /\ \A w \in Servers : w # v => hand'[w] = hand[w]
  BY <1>1 DEF TypeOK
<1>4. TypeOK'
  BY <1>1, <1>2 DEF TypeOK
<1>5. Provisioning'
  BY <1>1 DEF Provisioning
<1>6. Attended'
  BY <1>1, <1>3 DEF Attended, TypeOK
<1>7. OnePlace'
  <2>1. \A w \in Servers : \A i \in 1..Len(queue[w]) : queue[w][i] # hand[v] /\ queue[w][i] # None
    BY <1>2 DEF OnePlace, TypeOK
  <2>2. \A w \in Servers : w # v => hand[w] # hand[v]
    BY <1>2 DEF OnePlace
  <2> QED BY <1>1, <1>2, <1>3, <2>1, <2>2 DEF OnePlace
<1> QED BY <1>4, <1>5, <1>6, <1>7

LEMMA NextIInv == IInv /\ [Next]_vars => IInv'
<1> SUFFICES ASSUME IInv, [Next]_vars PROVE IInv'
  OBVIOUS
<1>1. CASE UNCHANGED vars
  BY <1>1 DEF vars, IInv, TypeOK, Provisioning, Attended, OnePlace
<1>2. CASE StartVM \/ \E v \in Servers : Run(v)
  BY <1>2, StepScaling
<1>3. CASE ArriveSomewhere
  BY <1>3, StepArrive DEF ArriveSomewhere
<1>4. CASE \E v \in Servers : Serve(v)
  BY <1>4, StepTake, StepProcess DEF Serve
<1> QED BY <1>1, <1>2, <1>3, <1>4 DEF Next

-----------------------------------------------------------------------------
(* The provisioning and the way of each request are accounted for in every *)
(* state, however many requests there are.                                 *)
THEOREM Inductive == Spec => []IInv
BY InitIInv, NextIInv, PTL DEF Spec

(* A request in front of a queue.                                          *)
LEMMA InFront ==
  ASSUME NEW q \in Seq(Requests), NEW h \in Requests, NEW r \in Requests
  PROVE  /\ <<h>> \o q # << >>
         /\ Head(<<h>> \o q) = h
         /\ Tail(<<h>> \o q) = q
         /\ Append(<<h>> \o q, r) = <<h>> \o Append(q, r)
         /\ q # << >> => <<Head(q)>> \o Tail(q) = q
<1>1. <<h>> \o q \in Seq(Requests) /\ Len(<<h>> \o q) = Len(q) + 1
  OBVIOUS
<1>2. <<h>> \o q # << >> /\ Head(<<h>> \o q) = h
  BY <1>1
<1>3. Tail(<<h>> \o q) = q
  BY <1>1
<1>4. Append(<<h>> \o q, r) = <<h>> \o Append(q, r)
  BY <1>1
<1>5. q # << >> => <<Head(q)>> \o Tail(q) = q
  OBVIOUS
<1> QED BY <1>2, <1>3, <1>4, <1>5

(* A step that changes neither hands nor queues changes no line.           *)
LEMMA SameLine == UNCHANGED <<hand, queue>> => UNCHANGED Line
BY DEF Line

LEMMA FarmScaling ==
  ASSUME IInv, StartVM \/ \E v \in Servers : Run(v)
  PROVE  F!Next \/ UNCHANGED F!vars
<1>1. UNCHANGED <<hand, queue, arrived, answered, Line>>
  BY SameLine DEF StartVM, Run, Boot, Register, Decide, serving
<1>2. CASE \E v \in Servers : Register(v)
  <2>1. PICK v \in Servers : Register(v)
    BY <1>2
  <2>2. v \notin registered
    BY <2>1 DEF Register, IInv, Attended
  <2>3. F!Open(v)
    BY <1>1, <2>1, <2>2 DEF Register, F!Open
  <2> QED BY <2>3 DEF F!Next
<1>3. CASE ~\E v \in Servers : Register(v)
  <2>1. UNCHANGED registered
    BY <1>3 DEF StartVM, Run, Boot, Decide
  <2> QED BY <1>1, <2>1 DEF F!vars
<1> QED BY <1>2, <1>3

LEMMA FarmArrive ==
  ASSUME IInv, NEW v \in Servers, NEW r \in Requests, Arrive(v, r)
  PROVE  F!Arrive(v, r)
<1>1. queue \in [Servers -> Seq(Requests)] /\ hand \in [Servers -> Requests \cup {None}]
  BY DEF IInv, TypeOK
<1>2. UNCHANGED hand /\ queue' = [queue EXCEPT ![v] = Append(@, r)]
  BY DEF Arrive
<1>3. Line'[v] = Append(Line[v], r)
  <2>1. CASE hand[v] = None
    BY <1>1, <1>2, <2>1 DEF Line
  <2>2. CASE hand[v] # None
    <3>1. hand[v] \in Requests /\ queue[v] \in Seq(Requests)
      BY <1>1, <2>2
    <3>2. Line[v] = <<hand[v]>> \o queue[v]
      BY <2>2 DEF Line
    <3>3. Line'[v] = <<hand[v]>> \o Append(queue[v], r)
      BY <1>1, <1>2, <2>2 DEF Line
    <3> QED BY <3>1, <3>2, <3>3, InFront
  <2> QED BY <2>1, <2>2
<1>4. \A w \in Servers : w # v => Line'[w] = Line[w]
  BY <1>1, <1>2 DEF Line
<1>5. Line' = [Line EXCEPT ![v] = Append(@, r)]
  BY <1>3, <1>4, Zenon DEF Line
<1> QED BY <1>5 DEF Arrive, scaling, F!Arrive

LEMMA FarmTake ==
  ASSUME IInv, NEW v \in Servers, Take(v)
  PROVE  UNCHANGED F!vars
<1>1. /\ queue \in [Servers -> Seq(Requests)] /\ hand \in [Servers -> Requests \cup {None}]
      /\ hand[v] = None
  BY DEF IInv, TypeOK, Attended, Take
<1>2. /\ queue[v] # << >> /\ hand' = [hand EXCEPT ![v] = Head(queue[v])]
      /\ queue' = [queue EXCEPT ![v] = Tail(@)]
  BY DEF Take
<1>3. queue[v] \in Seq(Requests) /\ Head(queue[v]) \in Requests
  BY <1>1, <1>2
<1>4. Line'[v] = Line[v]
  <2>1. Line[v] = queue[v]
    BY <1>1 DEF Line
  <2>2. Line'[v] = <<Head(queue[v])>> \o Tail(queue[v])
    BY <1>1, <1>2, <1>3 DEF Line
  <2> QED BY <1>2, <1>3, <2>1, <2>2, InFront
<1>5. \A w \in Servers : w # v => Line'[w] = Line[w]
  BY <1>1, <1>2 DEF Line
<1>6. Line' = Line
  BY <1>4, <1>5, Zenon DEF Line
<1> QED BY <1>6 DEF Take, scaling, F!vars

LEMMA FarmProcess ==
  ASSUME IInv, NEW v \in Servers, Process(v)
  PROVE  F!Answer(v)
<1>1. /\ queue \in [Servers -> Seq(Requests)] /\ hand \in [Servers -> Requests \cup {None}]
      /\ hand[v] # None /\ hand[v] \notin answered
  BY DEF IInv, TypeOK, Attended, OnePlace, Process
<1>2. hand' = [hand EXCEPT ![v] = None] /\ UNCHANGED queue
  BY DEF Process
<1>3. hand[v] \in Requests /\ queue[v] \in Seq(Requests)
  BY <1>1
<1>4. Line[v] = <<hand[v]>> \o queue[v] /\ Line'[v] = queue[v]
  BY <1>1, <1>2 DEF Line
<1>5. Line[v] # << >> /\ Head(Line[v]) = hand[v] /\ Line'[v] = Tail(Line[v])
  BY <1>3, <1>4, InFront
<1>6. \A w \in Servers : w # v => Line'[w] = Line[w]
  BY <1>1, <1>2 DEF Line
<1>7. Line' = [Line EXCEPT ![v] = Tail(@)]
  BY <1>5, <1>6, Zenon DEF Line
<1> QED BY <1>1, <1>5, <1>7 DEF Process, scaling, F!Answer

(* The servers of the cloud are a farm: lines are served in order and no   *)
(* request is lost or answered twice, whatever the hour and the number of  *)
(* servers.                                                                *)
THEOREM Refinement == Spec => ImplementsFarm
<1>1. Init => F!Init
  <2> SUFFICES ASSUME Init PROVE F!Init
    OBVIOUS
  <2>1. Line = [v \in Servers |-> << >>]
    BY DEF Init, Line
  <2> QED BY <2>1 DEF Init, F!Init
<1>2. IInv /\ [Next]_vars => [F!Next]_F!vars
  <2> SUFFICES ASSUME IInv, [Next]_vars PROVE F!Next \/ UNCHANGED F!vars
    OBVIOUS
  <2>1. CASE UNCHANGED vars
    BY <2>1, SameLine DEF vars, F!vars
  <2>2. CASE StartVM \/ \E v \in Servers : Run(v)
    BY <2>2, FarmScaling
  <2>3. CASE ArriveSomewhere
    BY <2>3, FarmArrive DEF ArriveSomewhere, F!Next
  <2>4. CASE \E v \in Servers : Serve(v)
    BY <2>4, FarmTake, FarmProcess DEF Serve, F!Next
  <2> QED BY <2>1, <2>2, <2>3, <2>4 DEF Next
<1> QED BY <1>1, <1>2, Inductive, PTL DEF Spec, ImplementsFarm, F!Spec
=============================================================================
