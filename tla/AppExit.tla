-------------------------------- MODULE AppExit --------------------------------
(***************************************************************************)
(* The end of the app: MainWindow::Shutdown() waits for the event system,   *)
(* then App::CleanupAndExitAsync() for the shutdown blocks, but not longer  *)
(* than a second.                                                           *)
(***************************************************************************)
EXTENDS Events, ShutdownBlocks, FiniteSets

CONSTANTS
  UI  \* the thread of the window

ASSUME AppExitAssumption ==
  /\ UI \in Threads
  /\ Owner \in [Connections -> Threads]
  /\ Self \notin Blockers
  /\ Emissions \subseteq Nat /\ IsFiniteSet(Emissions) /\ IsFiniteSet(Blockers)
  /\ NoHandle \notin Handles
  /\ MaxDelay \in [Threads -> Nat]

VARIABLES
  spc,       \* how far the shutdown is
  timedOut   \* it went on after a second

vars == <<process, eventVars, blockVars, spc, timedOut>>

Init ==
  /\ ProcessInit /\ EventsInit /\ BlocksInit
  /\ spc = "running" /\ timedOut = FALSE

(***************************************************************************)
(* MainWindow::Shutdown().                                                  *)
(***************************************************************************)
StopEvents ==
  /\ spc = "running" /\ spc' = "stopEvents"
  /\ \E h \in Handles : EventsShutdown(UI, h)
  /\ UNCHANGED <<blockVars, timedOut>>

EventsStopped ==
  /\ spc = "stopEvents" /\ spc' = "waitEvents"
  /\ EventsReturn(UI)
  /\ UNCHANGED <<blockVars, timedOut>>

(* The wait is over, and the event goes out of scope.  The event system     *)
(* keeps the number of its handle.                                          *)
EventsWaited ==
  /\ spc = "waitEvents" /\ eventsHandle \in signalled /\ spc' = "dispose"
  /\ CloseHandle(eventsHandle)
  /\ UNCHANGED <<eventVars, blockVars, timedOut>>

(***************************************************************************)
(* App::CleanupAndExitAsync().  CreateEvent() may return the number of the  *)
(* event the event system has closed and still signals.                     *)
(***************************************************************************)
Cleanup ==
  /\ spc = "dispose" /\ spc' = "stopBlocks"
  /\ \E h \in Handles : SetEventOnCompletion(h)
  /\ UNCHANGED <<eventVars, timedOut>>

CleanupBlocks ==
  /\ spc = "stopBlocks" /\ spc' = "waitBlocks"
  /\ BlocksClose
  /\ UNCHANGED <<eventVars, timedOut>>

BlocksWaited ==
  /\ spc = "waitBlocks" /\ blocksHandle \in signalled /\ spc' = "quit"
  /\ UNCHANGED <<process, eventVars, blockVars, timedOut>>

(* "Failed to cleanup after 1 second, quitting anyway." *)
TimeOut ==
  /\ spc = "waitBlocks" /\ spc' = "quit" /\ timedOut' = TRUE
  /\ UNCHANGED <<process, eventVars, blockVars>>

-------------------------------------------------------------------------------
Alive == fatal = "no" /\ spc # "quit"
InEvents(step) == Alive /\ step /\ UNCHANGED <<blockVars, spc, timedOut>>
InBlocks(step) == Alive /\ step /\ UNCHANGED <<eventVars, spc, timedOut>>
InExit(step) == Alive /\ step

ExitStep ==
  \/ EventsStopped \/ EventsWaited \/ Cleanup \/ CleanupBlocks
  \/ BlocksWaited \/ TimeOut

Next ==
  \/ \E t \in Threads : InEvents(EventsStep(t))
  \/ \E b \in Blockers \union {Self} : InBlocks(Increment(b) \/ BlockStep(b))
  \/ InExit(StopEvents \/ ExitStep)

Spec == Init /\ [][Next]_vars

(* The shutdown goes on as soon as it can, threads keep running, handlers   *)
(* return, and the scopes of EventDelays end and do not overlap for ever.   *)
Fairness ==
  /\ WF_vars(InExit(ExitStep))
  /\ \A b \in Blockers \union {Self} : WF_vars(InBlocks(BlockStep(b)))
  /\ \A t \in Threads :
       /\ WF_vars(InEvents(\/ \E e \in Emissions : EmissionStep(t, e)
                            \/ Flush(t) \/ ShutdownStep(t)))
       /\ \A depth \in 1 .. MaxDelay[t] :
            SF_vars(InEvents(DelayEnds(t) /\ delay[t] = depth))
       /\ SF_vars(InEvents(\E e \in Emissions : HandlerReturns(t, e)))

FairSpec == Spec /\ Fairness

-------------------------------------------------------------------------------
ProcessOK ==
  /\ open \subseteq Handles /\ signalled \subseteq open
  /\ fatal \in {"no", "eventCount", "blockCount", "lateBlock"}
CountsOK ==
  /\ eventCount \in Nat /\ eventsClosing \in BOOLEAN
  /\ eventsHandle \in Handles \union {NoHandle}
  /\ base \in {"held", "signal", "gone"}
ThreadsOK ==
  /\ emission \in [Emissions -> {"none", "added", "rejected", "queued", "calling",
                                 "handler", "signal", "done"}]
  /\ todo \in [Emissions -> SUBSET Connections]
  /\ stack \in [Threads -> Seq(Emissions \union {Flushing, ShuttingDown})]
  /\ queue \in [Threads -> Seq(Emissions)]
  /\ delay \in [Threads -> Nat]
ListenersOK ==
  receivers \subseteq Connections /\ handlers \subseteq receivers /\ senders \subseteq receivers
BlocksOK ==
  /\ blockCount \in Nat /\ blocksClosing \in BOOLEAN
  /\ blocksHandle \in Handles \union {NoHandle}
  /\ block \in [Blockers \union {Self} -> {"none", "added", "active", "signal", "gone"}]
ExitOK ==
  /\ spc \in {"running", "stopEvents", "waitEvents", "dispose", "stopBlocks",
              "waitBlocks", "quit"}
  /\ timedOut \in BOOLEAN

(* Every variable has its type; in particular neither count wraps around    *)
(* below zero, and no handler is set for a connection no event knows.       *)
TypeOK == ProcessOK /\ CountsOK /\ ThreadsOK /\ ListenersOK /\ BlocksOK /\ ExitOK

(* Neither count reaches zero before its shutdown has begun, which both     *)
(* treat as fatal, although emissions and blocks begin and end on any       *)
(* thread and are counted before they are let in.                           *)
CountsHold == fatal \notin {"eventCount", "blockCount"}

(* MainWindow::Shutdown() gets past its wait only when no handler is        *)
(* running and no emission is in a queue, and none is let in from then on.  *)
EventsLatch ==
  INSTANCE Latch WITH
    Work <- Emissions, active <- ActiveEmissions, closing <- eventsClosing,
    done <- spc \in {"dispose", "stopBlocks", "waitBlocks", "quit"}
EventsAreOver == EventsLatch!LatchSpec

(* The app ends within the second only when all shutdown blocks are gone,   *)
(* and lets none in after it has begun to wait for them, unless the event   *)
(* it waits for has the number of the one that the event system closed and  *)
(* keeps signalling: then a late emission ends the wait, see BlocksShutdown. *)
BlocksLatch ==
  INSTANCE Latch WITH
    Work <- Blockers, active <- ActiveBlocks, closing <- blocksClosing,
    done <- spc = "quit" /\ ~timedOut /\ blocksHandle # eventsHandle
BlocksAreOver == BlocksLatch!LatchSpec

(* A handler starts only while its receiver is still listening, although    *)
(* emissions call a copy of the receivers that was made before they waited  *)
(* in a queue and before other handlers ran.                                *)
NoCallAfterRemoval ==
  [][\A e \in Emissions :
       emission[e] = "calling" /\ emission'[e] = "handler" =>
         todo[e] \ todo'[e] \subseteq senders]_vars

(* An emission that waits in a queue is delivered: whatever delays nest and *)
(* whatever handlers do while a queue is flushed, none is left behind.      *)
QueuedIsDelivered ==
  \A e \in Emissions :
    emission[e] = "queued" ~> (emission[e] # "queued" \/ fatal # "no")

(* The app ends once it has begun to. *)
ExitCompletes == spc = "stopEvents" ~> (spc = "quit" \/ fatal # "no")
(* "Block process shutdown until it has been destroyed"                     *)
(* (ProcessShutdownBlock.hpp): when the app ends before the second is over, *)
(* no block is left, whatever number its event has.                         *)
BlocksShutdown == spc = "quit" /\ ~timedOut => ActiveBlocks = {}

(* "Event handlers are not invoked recursively to avoid deadlocks"          *)
(* (Events.hpp): no handler starts on a thread while another one runs.      *)
NotRecursive ==
  \A t \in Threads : \A i, j \in 1 .. Len(stack[t]) :
    {stack[t][i], stack[t][j]} \subseteq
        {e \in Emissions : emission[e] = "handler"} => i = j

===============================================================================
