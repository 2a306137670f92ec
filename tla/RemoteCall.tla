----------------------------- MODULE RemoteCall -----------------------------
(***************************************************************************)
(* What one connection promises its client: a call is executed at most     *)
(* once, it returns only after it was executed, and the next call starts   *)
(* only after it returned.  Either process may disappear: then the call    *)
(* may stay unexecuted, or be executed and never return.                   *)
(***************************************************************************)

VARIABLES
  phase,     \* "idle", "calling", or "gone" once the client has ended
  executed   \* the latest call was executed (TRUE before the first one)

vars == <<phase, executed>>

Init == phase = "idle" /\ executed = TRUE

Call ==
  /\ phase = "idle"
  /\ phase' = "calling"
  /\ executed' = FALSE

Execute ==
  /\ executed = FALSE
  /\ executed' = TRUE
  /\ UNCHANGED phase

Return ==
  /\ phase = "calling" /\ executed
  /\ phase' = "idle"
  /\ UNCHANGED executed

Vanish ==
  /\ phase # "gone"
  /\ phase' = "gone"
  /\ UNCHANGED executed

Next == Call \/ Execute \/ Return \/ Vanish

Spec == Init /\ [][Next]_vars
=============================================================================
