----------------------------- MODULE LoggedCall -----------------------------
(***************************************************************************)
(* What the server of the first checkpoint promises to one program: a call *)
(* is printed at most once, and goes on to the original function only      *)
(* after it was printed, as long as the server is up.  A server that ends  *)
(* does so for good; one call that was begun before may then go on         *)
(* unprinted, and there is no other after it.                              *)
(***************************************************************************)

VARIABLES
  phase,     \* "idle", "calling", or "gone" once the program has ended
  printed,   \* the server printed the latest call (TRUE before the first)
  up         \* the server has not ended

vars == <<phase, printed, up>>

Init == phase = "idle" /\ printed = TRUE /\ up = TRUE

Call ==
  /\ phase = "idle" /\ up
  /\ phase' = "calling"
  /\ printed' = FALSE
  /\ UNCHANGED up

(* It may be the call of a program that was killed.                        *)
PrintName ==
  /\ up /\ ~printed
  /\ printed' = TRUE
  /\ UNCHANGED <<phase, up>>

Return ==
  /\ phase = "calling" /\ (up => printed)
  /\ phase' = "idle"
  /\ UNCHANGED <<printed, up>>

ServerEnds ==
  /\ up
  /\ up' = FALSE
  /\ UNCHANGED <<phase, printed>>

Vanish ==
  /\ phase # "gone"
  /\ phase' = "gone"
  /\ UNCHANGED <<printed, up>>

Next == Call \/ PrintName \/ Return \/ ServerEnds \/ Vanish

Spec == Init /\ [][Next]_vars
=============================================================================
