-------------------------------- MODULE Farm --------------------------------
(***************************************************************************)
(* What the scaling web service promises its clients: a request joins the  *)
(* line of one server that is open, each line is served in the order of    *)
(* arrival, and every request is answered at most once.  Servers open, and *)
(* none closes.                                                            *)
(***************************************************************************)
EXTENDS Sequences

CONSTANTS Servers, Requests

VARIABLES
  open,      \* the servers that take requests
  line,      \* line[s]: requests that wait or are being processed at s
  arrived,   \* requests that have joined a line
  answered   \* requests that have left it with their answer

vars == <<open, line, arrived, answered>>

Init ==
  /\ open = {}
  /\ line = [s \in Servers |-> << >>]
  /\ arrived = {} /\ answered = {}

Open(s) ==
  /\ s \notin open
  /\ open' = open \cup {s}
  /\ UNCHANGED <<line, arrived, answered>>

Arrive(s, r) ==
  /\ s \in open /\ r \notin arrived
  /\ line' = [line EXCEPT ![s] = Append(@, r)]
  /\ arrived' = arrived \cup {r}
  /\ UNCHANGED <<open, answered>>

Answer(s) ==
  /\ line[s] # << >>
  /\ Head(line[s]) \notin answered
  /\ answered' = answered \cup {Head(line[s])}
  /\ line' = [line EXCEPT ![s] = Tail(@)]
  /\ UNCHANGED <<open, arrived>>

Next ==
  \E s \in Servers :
    Open(s) \/ Answer(s) \/ \E r \in Requests : Arrive(s, r)

Spec == Init /\ [][Next]_vars
=============================================================================
