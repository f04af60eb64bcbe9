-------------------------------- MODULE Process --------------------------------
(***************************************************************************)
(* What Windows keeps for the app's process: its event objects, which are   *)
(* known by the numbers of their handles, and whether fatal() has ended it. *)
(***************************************************************************)
EXTENDS Integers

CONSTANTS
  Handles,   \* handle numbers CreateEvent() can return
  NoHandle   \* a HANDLE that is null

VARIABLES
  open,      \* handle numbers of the events that exist
  signalled, \* those that are set
  fatal      \* why fatal() was called, "no" if it was not

process == <<open, signalled, fatal>>

ProcessInit == open = {} /\ signalled = {} /\ fatal = "no"

CreateEvent(h) == h \notin open /\ open' = open \union {h} /\ UNCHANGED <<signalled, fatal>>

(* Setting a handle that is not open fails, and nobody looks at the result. *)
SetEvent(h) == signalled' = (signalled \union {h}) \intersect open

CloseHandle(h) ==
  open' = open \ {h} /\ signalled' = signalled \ {h} /\ UNCHANGED fatal

===============================================================================
