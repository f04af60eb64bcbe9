-------------------------------- MODULE Events --------------------------------
(***************************************************************************)
(* The event system: emissions run the handlers of their event's listeners  *)
(* on the thread that emits, or wait in the queue of that thread while an   *)
(* EventDelay is alive on it; a global count of the emissions in flight     *)
(* lets EventBase::Shutdown() wait for the last one.                        *)
(*                                                                          *)
(* An event and its listeners are used on one thread.  A hook that stops an *)
(* emission changes nothing and has no action.                              *)
(***************************************************************************)
EXTENDS Process, Sequences

CONSTANTS
  Threads,      \* threads that emit
  Emissions,    \* bound: the emissions of one behaviour, numbered in order
  Connections,  \* listeners that are added
  Owner,        \* the thread each of them is used on
  MaxDelay      \* bound: EventDelays alive on each thread

VARIABLES
  eventCount,     \* mEventCount
  eventsClosing,  \* mShuttingDown
  eventsHandle,   \* mShutdownEvent
  base,           \* the count's initial 1, which Shutdown() takes back
  emission,       \* where each emission is
  todo,           \* connections each emission has yet to call
  stack,          \* each thread's calls into the event system, innermost first
  queue,          \* mEmitterQueue of each thread
  delay,          \* mDelayDepth of each thread
  receivers,      \* mReceivers: connections the events know
  handlers,       \* connections whose mHandler is set
  senders         \* mSenders: connections the receivers know

counts == <<eventCount, eventsClosing, eventsHandle, base>>
threads == <<emission, todo, stack, queue, delay>>
listeners == <<receivers, handlers, senders>>
eventVars == <<counts, threads, listeners>>

EventsInit ==
  /\ eventCount = 1 /\ eventsClosing = FALSE /\ eventsHandle = NoHandle
  /\ base = "held"
  /\ emission = [e \in Emissions |-> "none"]
  /\ todo = [e \in Emissions |-> {}]
  /\ stack = [t \in Threads |-> <<>>]
  /\ queue = [t \in Threads |-> <<>>]
  /\ delay = [t \in Threads |-> 0]
  /\ receivers = {} /\ handlers = {} /\ senders = {}

(* Calls that are not emissions. *)
Flushing == -1
ShuttingDown == -2

Top(t, x) == stack[t] # <<>> /\ Head(stack[t]) = x
Pushed(t, x) == [stack EXCEPT ![t] = <<x>> \o @]
Popped(t) == [stack EXCEPT ![t] = Tail(@)]

(* Code outside the event system runs on t: a handler or a message. *)
Running(t) ==
  stack[t] = <<>> \/ \E e \in Emissions : Top(t, e) /\ emission[e] = "handler"

(***************************************************************************)
(* Listeners.                                                               *)
(***************************************************************************)
AddEventListener(t, c) ==
  /\ Running(t) /\ Owner[c] = t /\ c \notin receivers
  /\ receivers' = receivers \union {c}
  /\ handlers' = handlers \union {c}
  /\ senders' = senders \union {c}
  /\ UNCHANGED <<process, counts, threads>>

(* Mutant: the connection is forgotten, but its handler is not reset. *)
RemoveEventListener_KeepHandler(t, c) ==
  /\ Running(t) /\ Owner[c] = t /\ c \in senders
  /\ senders' = senders \ {c}
  /\ UNCHANGED <<process, counts, threads, receivers, handlers>>

(* The event keeps the connection, and calls it for nothing from now on. *)
RemoveEventListener(t, c) ==
  /\ Running(t) /\ Owner[c] = t /\ c \in senders
  /\ senders' = senders \ {c}
  /\ handlers' = handlers \ {c}
  /\ UNCHANGED <<process, counts, threads, receivers>>

(***************************************************************************)
(* Emissions.                                                               *)
(***************************************************************************)

(* Mutant: the emission is not counted. *)
Emit_NotCounted(t, e) ==
  /\ Running(t) /\ emission[e] = "none"
  /\ emission' = [emission EXCEPT ![e] = "added"]
  /\ todo' = [todo EXCEPT ![e] = {c \in receivers : Owner[c] = t}]
  /\ stack' = Pushed(t, e)
  /\ UNCHANGED <<process, counts, queue, delay, listeners>>

(* Emit() copies the receivers, then StartEvent() counts the emission... *)
Emit(t, e) ==
  /\ Running(t) /\ emission[e] = "none"
  /\ \A f \in Emissions : f < e => emission[f] # "none"
  /\ emission' = [emission EXCEPT ![e] = "added"]
  /\ todo' = [todo EXCEPT ![e] = {c \in receivers : Owner[c] = t}]
  /\ eventCount' = eventCount + 1
  /\ stack' = Pushed(t, e)
  /\ UNCHANGED <<process, eventsClosing, eventsHandle, base, queue, delay, listeners>>

(* Mutant: StartEvent() is followed by FinishEvent() for a queued one, too.  *)
StartEvent_FinishQueued(t, e) ==
  /\ Top(t, e) /\ emission[e] = "added"
  /\ \/ /\ eventsClosing
        /\ emission' = [emission EXCEPT ![e] = "rejected"]
        /\ UNCHANGED <<stack, queue, eventCount>>
     \/ /\ ~eventsClosing /\ delay[t] = 0
        /\ emission' = [emission EXCEPT ![e] = "calling"]
        /\ UNCHANGED <<stack, queue, eventCount>>
     \/ /\ ~eventsClosing /\ delay[t] > 0
        /\ emission' = [emission EXCEPT ![e] = "queued"]
        /\ stack' = Popped(t)
        /\ queue' = [queue EXCEPT ![t] = Append(@, e)]
        /\ eventCount' = eventCount - 1
  /\ UNCHANGED <<process, eventsClosing, eventsHandle, base, todo, delay, listeners>>

(* Mutant: the emission is let in whatever it finds. *)
StartEvent_NoTest(t, e) ==
  /\ Top(t, e) /\ emission[e] = "added"
  /\ emission' = [emission EXCEPT ![e] = "calling"]
  /\ UNCHANGED <<process, counts, todo, stack, queue, delay, listeners>>

(* ...and looks whether it came too late. *)
StartEvent(t, e) ==
  /\ Top(t, e) /\ emission[e] = "added"
  /\ \/ /\ eventsClosing
        /\ emission' = [emission EXCEPT ![e] = "rejected"]
        /\ UNCHANGED <<stack, queue>>
     \/ /\ ~eventsClosing /\ delay[t] = 0
        /\ emission' = [emission EXCEPT ![e] = "calling"]
        /\ UNCHANGED <<stack, queue>>
     \/ /\ ~eventsClosing /\ delay[t] > 0
        /\ emission' = [emission EXCEPT ![e] = "queued"]
        /\ stack' = Popped(t)
        /\ queue' = [queue EXCEPT ![t] = Append(@, e)]
  /\ UNCHANGED <<process, counts, todo, delay, listeners>>

(* EventConnection::Call() of one receiver: nothing if its handler is reset.*)
Call(t, e, c) ==
  /\ Top(t, e) /\ emission[e] = "calling" /\ c \in todo[e]
  /\ todo' = [todo EXCEPT ![e] = @ \ {c}]
  /\ emission' = [emission EXCEPT ![e] = IF c \in handlers THEN "handler" ELSE "calling"]
  /\ UNCHANGED <<process, counts, stack, queue, delay, listeners>>

HandlerReturns(t, e) ==
  /\ Top(t, e) /\ emission[e] = "handler"
  /\ emission' = [emission EXCEPT ![e] = "calling"]
  /\ UNCHANGED <<process, counts, todo, stack, queue, delay, listeners>>

(* Sub1() on the way out of StartEvent() or in FinishEvent(): the last one  *)
(* to leave sets the event, which must be after Shutdown().                 *)
Sub1(t, e) ==
  /\ Top(t, e)
  /\ emission[e] = "rejected" \/ (emission[e] = "calling" /\ todo[e] = {})
  /\ eventCount' = eventCount - 1
  /\ LET last == eventCount = 1
     IN /\ fatal' = IF last /\ ~eventsClosing THEN "eventCount" ELSE fatal
        /\ emission' = [emission EXCEPT ![e] = IF last THEN "signal" ELSE "done"]
        /\ stack' = IF last THEN stack ELSE Popped(t)
  /\ UNCHANGED <<open, signalled, eventsClosing, eventsHandle, base, todo, queue,
                 delay, listeners>>

SignalEvent(t, e) ==
  /\ Top(t, e) /\ emission[e] = "signal"
  /\ SetEvent(eventsHandle)
  /\ emission' = [emission EXCEPT ![e] = "done"]
  /\ stack' = Popped(t)
  /\ UNCHANGED <<open, fatal, counts, todo, queue, delay, listeners>>

(***************************************************************************)
(* EventDelay.  A coroutine can hold one while its thread does other work.  *)
(***************************************************************************)
DelayBegins(t) ==
  /\ Running(t) /\ delay[t] < MaxDelay[t]
  /\ delay' = [delay EXCEPT ![t] = @ + 1]
  /\ UNCHANGED <<process, counts, emission, todo, stack, queue, listeners>>

DelayEnds(t) ==
  /\ Running(t) /\ delay[t] > 0
  /\ delay' = [delay EXCEPT ![t] = @ - 1]
  /\ stack' = IF delay[t] = 1 THEN Pushed(t, Flushing) ELSE stack
  /\ UNCHANGED <<process, counts, emission, todo, queue, listeners>>

(* Mutant: Flush() stops at the first emission. *)
Flush_One(t) ==
  /\ Top(t, Flushing)
  /\ IF queue[t] = <<>>
     THEN stack' = Popped(t) /\ UNCHANGED <<queue, emission>>
     ELSE /\ queue' = [queue EXCEPT ![t] = Tail(@)]
          /\ emission' = [emission EXCEPT ![Head(queue[t])] = "calling"]
          /\ stack' = [stack EXCEPT ![t] = <<Head(queue[t])>> \o Tail(@)]
  /\ UNCHANGED <<process, counts, todo, delay, listeners>>

(* One turn of the loop in Flush(). *)
Flush(t) ==
  /\ Top(t, Flushing)
  /\ IF queue[t] = <<>>
     THEN stack' = Popped(t) /\ UNCHANGED <<queue, emission>>
     ELSE /\ queue' = [queue EXCEPT ![t] = Tail(@)]
          /\ emission' = [emission EXCEPT ![Head(queue[t])] = "calling"]
          /\ stack' = Pushed(t, Head(queue[t]))
  /\ UNCHANGED <<process, counts, todo, delay, listeners>>

(***************************************************************************)
(* EventBase::Shutdown(), statement by statement.                           *)
(***************************************************************************)
EventsShutdown(t, h) ==
  /\ Running(t)
  /\ CreateEvent(h)
  /\ eventsHandle' = h
  /\ stack' = Pushed(t, ShuttingDown)
  /\ UNCHANGED <<eventCount, eventsClosing, base, emission, todo, queue, delay, listeners>>

EventsClose(t) ==
  /\ Top(t, ShuttingDown) /\ base = "held" /\ ~eventsClosing
  /\ eventsClosing' = TRUE
  /\ UNCHANGED <<process, eventCount, eventsHandle, base, threads, listeners>>

(* Mutant: Shutdown() does not look whether it was the last one. *)
EventsSub1_NoSignal(t) ==
  /\ Top(t, ShuttingDown) /\ base = "held" /\ eventsClosing
  /\ eventCount' = eventCount - 1
  /\ base' = "gone"
  /\ UNCHANGED <<process, eventsClosing, eventsHandle, threads, listeners>>

EventsSub1(t) ==
  /\ Top(t, ShuttingDown) /\ base = "held" /\ eventsClosing
  /\ eventCount' = eventCount - 1
  /\ base' = IF eventCount = 1 THEN "signal" ELSE "gone"
  /\ UNCHANGED <<process, eventsClosing, eventsHandle, threads, listeners>>

EventsSignal(t) ==
  /\ Top(t, ShuttingDown) /\ base = "signal"
  /\ SetEvent(eventsHandle)
  /\ base' = "gone"
  /\ UNCHANGED <<open, fatal, eventCount, eventsClosing, eventsHandle, threads, listeners>>

EventsReturn(t) ==
  /\ Top(t, ShuttingDown) /\ base = "gone"
  /\ stack' = Popped(t)
  /\ UNCHANGED <<process, counts, emission, todo, queue, delay, listeners>>

-------------------------------------------------------------------------------
EmissionStep(t, e) ==
  \/ StartEvent(t, e) \/ Sub1(t, e) \/ SignalEvent(t, e)
  \/ \E c \in Connections : Call(t, e, c)

ShutdownStep(t) == EventsClose(t) \/ EventsSub1(t) \/ EventsSignal(t)

EventsStep(t) ==
  \/ \E c \in Connections : AddEventListener(t, c) \/ RemoveEventListener(t, c)
  \/ \E e \in Emissions : Emit(t, e) \/ EmissionStep(t, e) \/ HandlerReturns(t, e)
  \/ DelayBegins(t) \/ DelayEnds(t) \/ Flush(t) \/ ShutdownStep(t)

(* Emissions that were let in and have not ended. *)
ActiveEmissions == {e \in Emissions : emission[e] \in {"queued", "calling", "handler"}}

(* Emissions that are part of the count. *)
CountedEmissions ==
  {e \in Emissions : emission[e] \in {"added", "rejected", "queued", "calling", "handler"}}

===============================================================================
