--------------------------------- MODULE Latch ---------------------------------
(***************************************************************************)
(* What the event system and the shutdown blocks promise to the code that   *)
(* shuts the app down: it closes the latch, then waits; new work is refused *)
(* once the latch is closed, and the wait is over when no work is left.     *)
(***************************************************************************)
CONSTANT Work

VARIABLES
  active,   \* work that has been let in and has not ended
  closing,  \* no more work is let in
  done      \* the wait is over

latchVars == <<active, closing, done>>

LatchInit == active = {} /\ ~closing /\ ~done

Begin(w) ==
  /\ ~closing /\ w \notin active
  /\ active' = active \union {w}
  /\ UNCHANGED <<closing, done>>

End(w) ==
  /\ w \in active
  /\ active' = active \ {w}
  /\ UNCHANGED <<closing, done>>

Close ==
  /\ ~closing /\ closing' = TRUE
  /\ UNCHANGED <<active, done>>

Finish ==
  /\ closing /\ active = {} /\ ~done
  /\ done' = TRUE
  /\ UNCHANGED <<active, closing>>

LatchNext == Close \/ Finish \/ \E w \in Work : Begin(w) \/ End(w)

LatchSpec == LatchInit /\ [][LatchNext]_latchVars

===============================================================================
