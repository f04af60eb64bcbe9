----------------------------- MODULE AppExit_proofs -----------------------------
(***************************************************************************)
(* The two latches of the app's end, for any threads, emissions and blocks. *)
(***************************************************************************)
EXTENDS AppExit, FiniteSetTheorems, SequenceTheorems, TLAPS

(* What a queue holds is queued, and is in it once. *)
QueuesOK ==
  /\ \A t \in Threads : \A i \in 1 .. Len(queue[t]) : emission[queue[t][i]] = "queued"
  /\ \A t, u \in Threads : \A i \in 1 .. Len(queue[t]), j \in 1 .. Len(queue[u]) :
       queue[t][i] = queue[u][j] => t = u /\ i = j

(* Nothing is active and nothing will be. *)
EventsQuiet ==
  /\ eventsClosing /\ base # "held"
  /\ \A e \in Emissions : emission[e] \notin {"queued", "calling", "handler"}
BlocksQuiet == blocksClosing /\ \A b \in Blockers : block[b] # "active"

EventCountOK ==
  eventCount = Cardinality(CountedEmissions) + (IF base = "held" THEN 1 ELSE 0)

EventsInv ==
  /\ base # "held" => eventsClosing
  /\ base = "signal" => EventsQuiet
  /\ \A e \in Emissions : emission[e] = "signal" => EventsQuiet
  /\ spc = "running" => eventsHandle = NoHandle
  /\ spc \in {"stopEvents", "waitEvents"} /\ eventsHandle \in signalled => EventsQuiet
  /\ spc \in {"dispose", "stopBlocks", "waitBlocks", "quit"} => EventsQuiet

BlockCountOK == blockCount = Cardinality(CountedBlocks)

BlocksInv ==
  /\ block[Self] \in {"active", "signal", "gone"}
  /\ ~blocksClosing => block[Self] = "active"
  /\ \A b \in Blockers \union {Self} : block[b] = "signal" => BlocksQuiet
  /\ spc \notin {"stopBlocks", "waitBlocks", "quit"} => blocksHandle = NoHandle

(* Only handles whose numbers differ tell the two events apart. *)
HandlesInv ==
  blocksHandle # eventsHandle =>
    /\ spc \in {"stopBlocks", "waitBlocks"} /\ blocksHandle \in signalled => BlocksQuiet
    /\ spc = "quit" /\ ~timedOut => BlocksQuiet

IInv ==
  /\ TypeOK /\ QueuesOK /\ EventCountOK /\ EventsInv /\ BlockCountOK /\ BlocksInv
  /\ CountsHold

LEMMA InitIInv == Init => IInv
<1> SUFFICES ASSUME Init PROVE IInv OBVIOUS
<1> USE AppExitAssumption DEF Init, ProcessInit, EventsInit, BlocksInit
<1>1. TypeOK
  <2>1. ProcessOK /\ CountsOK /\ ListenersOK /\ ExitOK
    BY DEF ProcessOK, CountsOK, ListenersOK, ExitOK
  <2>2. ThreadsOK BY DEF ThreadsOK
  <2>3. BlocksOK BY DEF BlocksOK
  <2> QED BY <2>1, <2>2, <2>3 DEF TypeOK
<1>2. EventCountOK
  <2>1. CountedEmissions = {} BY DEF CountedEmissions
  <2> QED BY <2>1, FS_EmptySet DEF EventCountOK
<1>3. CountedBlocks = {Self} BY DEF CountedBlocks
<1>4. BlockCountOK BY <1>3, FS_Singleton DEF BlockCountOK
<1> QED BY <1>1, <1>2, <1>4 DEF IInv, QueuesOK, EventsInv, BlocksInv, CountsHold

-------------------------------------------------------------------------------
(* The count of the emissions. *)

LEMMA EmissionsFinite == IsFiniteSet(CountedEmissions)
BY AppExitAssumption, FS_Subset DEF CountedEmissions

(* An emission leaves the count, or not. *)
LEMMA Uncounted ==
  ASSUME NEW e \in CountedEmissions
  PROVE  /\ Cardinality(CountedEmissions) \in Nat
         /\ Cardinality(CountedEmissions) >= 1
         /\ Cardinality(CountedEmissions \ {e}) = Cardinality(CountedEmissions) - 1
         /\ Cardinality(CountedEmissions) = 1 => CountedEmissions = {e}
<1>1. IsFiniteSet(CountedEmissions) BY EmissionsFinite
<1>2. Cardinality(CountedEmissions) \in Nat BY <1>1, FS_CardinalityType
<1>3. /\ IsFiniteSet(CountedEmissions \ {e})
      /\ Cardinality(CountedEmissions \ {e}) = Cardinality(CountedEmissions) - 1
  BY <1>1, FS_RemoveElement
<1>4. Cardinality(CountedEmissions \ {e}) \in Nat BY <1>3, FS_CardinalityType
<1>5. ASSUME Cardinality(CountedEmissions) = 1 PROVE CountedEmissions = {e}
  <2>1. Cardinality(CountedEmissions \ {e}) = 0 BY <1>2, <1>3, <1>5
  <2>2. CountedEmissions \ {e} = {} BY <2>1, <1>3, FS_EmptySet
  <2> QED BY <2>2
<1> QED BY <1>2, <1>3, <1>4, <1>5

(* The same of the count of the blocks. *)

LEMMA BlocksFinite == IsFiniteSet(CountedBlocks)
<1>1. IsFiniteSet(Blockers \union {Self}) BY AppExitAssumption, FS_AddElement
<1> QED BY <1>1, FS_Subset DEF CountedBlocks

LEMMA Unblocked ==
  ASSUME NEW b \in CountedBlocks
  PROVE  /\ Cardinality(CountedBlocks) \in Nat
         /\ Cardinality(CountedBlocks) >= 1
         /\ Cardinality(CountedBlocks \ {b}) = Cardinality(CountedBlocks) - 1
         /\ Cardinality(CountedBlocks) = 1 => CountedBlocks = {b}
<1>1. IsFiniteSet(CountedBlocks) BY BlocksFinite
<1>2. Cardinality(CountedBlocks) \in Nat BY <1>1, FS_CardinalityType
<1>3. /\ IsFiniteSet(CountedBlocks \ {b})
      /\ Cardinality(CountedBlocks \ {b}) = Cardinality(CountedBlocks) - 1
  BY <1>1, FS_RemoveElement
<1>4. Cardinality(CountedBlocks \ {b}) \in Nat BY <1>3, FS_CardinalityType
<1>5. ASSUME Cardinality(CountedBlocks) = 1 PROVE CountedBlocks = {b}
  <2>1. Cardinality(CountedBlocks \ {b}) = 0 BY <1>2, <1>3, <1>5
  <2>2. CountedBlocks \ {b} = {} BY <2>1, <1>3, FS_EmptySet
  <2> QED BY <2>2
<1> QED BY <1>2, <1>3, <1>4, <1>5

-------------------------------------------------------------------------------
(* Types. *)

LEMMA StackType ==
  ASSUME ThreadsOK, NEW t \in Threads, NEW x \in Emissions \union {Flushing, ShuttingDown}
  PROVE  /\ Pushed(t, x) \in [Threads -> Seq(Emissions \union {Flushing, ShuttingDown})]
         /\ stack[t] # <<>> =>
              Popped(t) \in [Threads -> Seq(Emissions \union {Flushing, ShuttingDown})]
BY DEF ThreadsOK, Pushed, Popped

LEMMA QueueType ==
  ASSUME ThreadsOK, NEW t \in Threads, NEW e \in Emissions
  PROVE  /\ [queue EXCEPT ![t] = Append(@, e)] \in [Threads -> Seq(Emissions)]
         /\ queue[t] # <<>> =>
              /\ Head(queue[t]) \in Emissions
              /\ [queue EXCEPT ![t] = Tail(@)] \in [Threads -> Seq(Emissions)]
BY DEF ThreadsOK

LEMMA StartEventType ==
  ASSUME ThreadsOK, NEW t \in Threads, NEW e \in Emissions, StartEvent(t, e)
  PROVE  ThreadsOK'
<1>1. emission' \in [Emissions -> {"none", "added", "rejected", "queued", "calling",
                                 "handler", "signal", "done"}]
  BY DEF StartEvent, ThreadsOK
<1>2. stack' \in [Threads -> Seq(Emissions \union {Flushing, ShuttingDown})]
  <2>1. stack[t] # <<>> /\ (stack' = stack \/ stack' = Popped(t))
    BY DEF StartEvent, Top
  <2>2. CASE stack' = stack BY <2>2 DEF ThreadsOK
  <2>3. CASE stack' = Popped(t) BY <2>1, <2>3, StackType
  <2> QED BY <2>1, <2>2, <2>3
<1>3. queue' \in [Threads -> Seq(Emissions)]
  <2>1. queue' = queue \/ queue' = [queue EXCEPT ![t] = Append(@, e)]
    BY DEF StartEvent
  <2>2. CASE queue' = queue BY <2>2 DEF ThreadsOK
  <2>3. CASE queue' = [queue EXCEPT ![t] = Append(@, e)] BY <2>3, QueueType
  <2> QED BY <2>1, <2>2, <2>3
<1> QED BY <1>1, <1>2, <1>3 DEF StartEvent, ThreadsOK

LEMMA Sub1Type ==
  ASSUME ThreadsOK, NEW t \in Threads, NEW e \in Emissions, Sub1(t, e)
  PROVE  ThreadsOK'
<1>1. emission' = [emission EXCEPT ![e] = "signal"] \/ emission' = [emission EXCEPT ![e] = "done"]
  BY DEF Sub1
<1>2. emission' \in [Emissions -> {"none", "added", "rejected", "queued", "calling",
                                 "handler", "signal", "done"}]
  BY <1>1 DEF ThreadsOK
<1>3. stack' \in [Threads -> Seq(Emissions \union {Flushing, ShuttingDown})]
  <2>1. stack[t] # <<>> /\ (stack' = stack \/ stack' = Popped(t))
    BY DEF Sub1, Top
  <2>2. CASE stack' = stack BY <2>2 DEF ThreadsOK
  <2>3. CASE stack' = Popped(t) BY <2>1, <2>3, StackType
  <2> QED BY <2>1, <2>2, <2>3
<1> QED BY <1>2, <1>3 DEF Sub1, ThreadsOK

LEMMA FlushType ==
  ASSUME ThreadsOK, NEW t \in Threads, Flush(t)
  PROVE  ThreadsOK'
<1>0. stack[t] # <<>> BY DEF Flush, Top
<1>1. CASE queue[t] = <<>>
  <2>1. stack' = Popped(t) /\ UNCHANGED <<emission, queue, todo, delay>> BY <1>1 DEF Flush
  <2> QED BY <1>0, <2>1, StackType DEF ThreadsOK
<1>2. CASE queue[t] # <<>>
  <2> DEFINE h == Head(queue[t])
  <2>1. /\ emission' = [emission EXCEPT ![h] = "calling"]
        /\ stack' = Pushed(t, h)
        /\ queue' = [queue EXCEPT ![t] = Tail(@)]
        /\ UNCHANGED <<todo, delay>>
    BY <1>2 DEF Flush
  <2>2. h \in Emissions /\ queue' \in [Threads -> Seq(Emissions)]
    BY <1>2, <2>1 DEF ThreadsOK
  <2>3. stack' \in [Threads -> Seq(Emissions \union {Flushing, ShuttingDown})]
    BY <2>1, <2>2, StackType
  <2>4. emission' \in [Emissions -> {"none", "added", "rejected", "queued", "calling",
                                   "handler", "signal", "done"}]
    BY <2>1, <2>2 DEF ThreadsOK
  <2> QED BY <2>1, <2>2, <2>3, <2>4 DEF ThreadsOK
<1> QED BY <1>1, <1>2

LEMMA EventsType ==
  ASSUME TypeOK, EventCountOK, NEW t \in Threads, InEvents(EventsStep(t))
  PROVE  TypeOK'
<1> USE AppExitAssumption DEF TypeOK, InEvents, blockVars
<1> DEFINE Same == UNCHANGED <<blockVars, spc, timedOut>>
<1>0. BlocksOK' /\ ExitOK' BY DEF BlocksOK, ExitOK
<1>1. ASSUME NEW c \in Connections, AddEventListener(t, c) PROVE TypeOK'
  BY <1>0, <1>1 DEF AddEventListener, process, counts, threads, ProcessOK, CountsOK, ThreadsOK, ListenersOK
<1>2. ASSUME NEW c \in Connections, RemoveEventListener(t, c) PROVE TypeOK'
  BY <1>0, <1>2 DEF RemoveEventListener, process, counts, threads, ProcessOK, CountsOK, ThreadsOK, ListenersOK
<1>3. ASSUME NEW e \in Emissions, Emit(t, e) PROVE TypeOK'
  <2>1. ThreadsOK' BY <1>3, StackType DEF Emit, ThreadsOK, ListenersOK
  <2> QED BY <1>0, <1>3, <2>1 DEF Emit, process, listeners, ProcessOK, CountsOK, ListenersOK
<1>4. ASSUME NEW e \in Emissions, StartEvent(t, e) PROVE TypeOK'
  <2>1. ThreadsOK' BY <1>4, StartEventType
  <2> QED BY <1>0, <1>4, <2>1 DEF StartEvent, process, counts, listeners, ProcessOK, CountsOK, ListenersOK
<1>5. ASSUME NEW e \in Emissions, NEW c \in Connections, Call(t, e, c) PROVE TypeOK'
  BY <1>0, <1>5 DEF Call, process, counts, listeners, ProcessOK, CountsOK, ThreadsOK, ListenersOK
<1>6. ASSUME NEW e \in Emissions, HandlerReturns(t, e) PROVE TypeOK'
  BY <1>0, <1>6 DEF HandlerReturns, process, counts, listeners, ProcessOK, CountsOK, ThreadsOK, ListenersOK
<1>7. ASSUME NEW e \in Emissions, Sub1(t, e) PROVE TypeOK'
  <2>1. ThreadsOK' BY <1>7, Sub1Type
  <2>2. e \in CountedEmissions BY <1>7 DEF Sub1, CountedEmissions
  <2>a. Cardinality(CountedEmissions) \in Nat /\ Cardinality(CountedEmissions) >= 1
    BY ONLY <2>2, Uncounted
  <2>3. eventCount >= 1 BY <2>a DEF EventCountOK
  <2> QED BY <1>0, <1>7, <2>1, <2>3 DEF Sub1, counts, listeners, ProcessOK, CountsOK, ListenersOK
<1>8. ASSUME NEW e \in Emissions, SignalEvent(t, e) PROVE TypeOK'
  <2>1. ThreadsOK' BY <1>8, StackType DEF SignalEvent, Top, ThreadsOK
  <2> QED BY <1>0, <1>8, <2>1 DEF SignalEvent, SetEvent, counts, listeners, ProcessOK, CountsOK, ListenersOK
<1>9. CASE DelayBegins(t)
  BY <1>0, <1>9 DEF DelayBegins, process, counts, listeners, ProcessOK, CountsOK, ThreadsOK, ListenersOK
<1>10. CASE DelayEnds(t)
  <2>0. delay' \in [Threads -> Nat] BY <1>10 DEF DelayEnds, ThreadsOK
  <2>1. stack' \in [Threads -> Seq(Emissions \union {Flushing, ShuttingDown})]
    BY <1>10, StackType DEF DelayEnds, ThreadsOK
  <2>2. ThreadsOK' BY <1>10, <2>0, <2>1 DEF DelayEnds, ThreadsOK
  <2> QED BY <1>0, <1>10, <2>2 DEF DelayEnds, process, counts, listeners, ProcessOK, CountsOK, ListenersOK
<1>11. CASE Flush(t)
  <2>1. ThreadsOK' BY <1>11, FlushType
  <2> QED BY <1>0, <1>11, <2>1 DEF Flush, process, counts, listeners, ProcessOK, CountsOK, ListenersOK
<1>12. CASE EventsClose(t)
  BY <1>0, <1>12 DEF EventsClose, process, threads, listeners, ProcessOK, CountsOK, ThreadsOK, ListenersOK
<1>13. CASE EventsSub1(t)
  <2>1. Cardinality(CountedEmissions) \in Nat BY EmissionsFinite, FS_CardinalityType
  <2>2. eventCount >= 1 BY <1>13, <2>1 DEF EventsSub1, EventCountOK
  <2> QED BY <1>0, <1>13, <2>2 DEF EventsSub1, process, threads, listeners, ProcessOK, CountsOK, ThreadsOK, ListenersOK
<1>14. CASE EventsSignal(t)
  BY <1>0, <1>14 DEF EventsSignal, SetEvent, threads, listeners, ProcessOK, CountsOK, ThreadsOK, ListenersOK
<1> QED
  BY <1>1, <1>2, <1>3, <1>4, <1>5, <1>6, <1>7, <1>8, <1>9, <1>10, <1>11, <1>12, <1>13, <1>14
  DEF EventsStep, EmissionStep, ShutdownStep

LEMMA BlocksType ==
  ASSUME TypeOK, BlockCountOK, NEW b \in Blockers \union {Self},
         InBlocks(Increment(b) \/ BlockStep(b))
  PROVE  TypeOK'
<1>0. CountsOK' /\ ThreadsOK' /\ ListenersOK' /\ ExitOK'
  BY DEF TypeOK, InBlocks, eventVars, counts, threads, listeners, CountsOK, ThreadsOK, ListenersOK, ExitOK
<1>1. CASE Increment(b)
  BY <1>0, <1>1 DEF TypeOK, Increment, process, ProcessOK, BlocksOK
<1>2. CASE Incremented(b)
  BY <1>0, <1>2 DEF TypeOK, Incremented, ProcessOK, BlocksOK
<1>3. CASE Decrement(b)
  <2>1. b \in CountedBlocks BY <1>3 DEF Decrement, CountedBlocks
  <2>2. Cardinality(CountedBlocks) \in Nat /\ Cardinality(CountedBlocks) >= 1
    BY ONLY <2>1, Unblocked
  <2>3. blockCount >= 1 BY <2>2 DEF BlockCountOK
  <2> QED BY <1>0, <1>3, <2>3 DEF TypeOK, Decrement, ProcessOK, BlocksOK
<1>4. CASE SignalBlocks(b)
  BY <1>0, <1>4 DEF TypeOK, SignalBlocks, SetEvent, ProcessOK, BlocksOK
<1> QED BY <1>1, <1>2, <1>3, <1>4 DEF InBlocks, BlockStep

LEMMA ExitType ==
  ASSUME TypeOK, InExit(StopEvents \/ ExitStep)
  PROVE  TypeOK'
<1> USE AppExitAssumption DEF TypeOK
<1>1. CASE StopEvents
  <2>1. PICK h \in Handles : EventsShutdown(UI, h) BY <1>1 DEF StopEvents
  <2>2. ThreadsOK' BY <2>1, StackType DEF EventsShutdown, ThreadsOK
  <2> QED
    BY <1>1, <2>1, <2>2
    DEF StopEvents, EventsShutdown, CreateEvent, blockVars, listeners, ProcessOK, CountsOK,
        ListenersOK, BlocksOK, ExitOK
<1>2. CASE EventsStopped
  <2>1. ThreadsOK' BY <1>2, StackType DEF EventsStopped, EventsReturn, Top, ThreadsOK
  <2> QED
    BY <1>2, <2>1
    DEF EventsStopped, EventsReturn, process, counts, listeners, blockVars, ProcessOK, CountsOK,
        ListenersOK, BlocksOK, ExitOK
<1> USE DEF eventVars, counts, threads, listeners, blockVars, ProcessOK, CountsOK, ThreadsOK,
            ListenersOK, BlocksOK, ExitOK
<1>3. CASE EventsWaited BY <1>3 DEF EventsWaited, CloseHandle
<1>4. CASE Cleanup BY <1>4 DEF Cleanup, SetEventOnCompletion, CreateEvent
<1>5. CASE CleanupBlocks BY <1>5 DEF CleanupBlocks, BlocksClose, process
<1>6. CASE BlocksWaited BY <1>6 DEF BlocksWaited, process
<1>7. CASE TimeOut BY <1>7 DEF TimeOut, process
<1> QED BY <1>1, <1>2, <1>3, <1>4, <1>5, <1>6, <1>7 DEF InExit, ExitStep

-------------------------------------------------------------------------------
(* The queues. *)

LEMMA QueuesKept ==
  ASSUME ThreadsOK, QueuesOK, UNCHANGED queue,
         \A e \in Emissions : emission[e] = "queued" => emission'[e] = "queued"
  PROVE  QueuesOK'
BY DEF ThreadsOK, QueuesOK

LEMMA EventsQueues ==
  ASSUME TypeOK, QueuesOK, NEW t \in Threads, InEvents(EventsStep(t))
  PROVE  QueuesOK'
<1>0. ThreadsOK BY DEF TypeOK
<1>1. ASSUME NEW e \in Emissions, StartEvent(t, e) PROVE QueuesOK'
  <2>1. CASE UNCHANGED queue
    <3>1. \A x \in Emissions : emission[x] = "queued" => emission'[x] = "queued"
      BY <1>0, <1>1, <2>1 DEF StartEvent, ThreadsOK
    <3> QED BY <1>0, <2>1, <3>1, QueuesKept
  <2>2. CASE /\ emission' = [emission EXCEPT ![e] = "queued"]
             /\ queue' = [queue EXCEPT ![t] = Append(@, e)]
    <3>1. emission[e] = "added" BY <1>1 DEF StartEvent
    <3> QED BY <1>0, <2>2, <3>1 DEF ThreadsOK, QueuesOK
  <2> QED BY <1>1, <2>1, <2>2 DEF StartEvent
<1>2. CASE Flush(t)
  <2>1. CASE queue[t] = <<>>
    <3>1. UNCHANGED <<queue, emission>> BY <1>2, <2>1 DEF Flush
    <3> QED BY <1>0, <3>1, QueuesKept
  <2>2. CASE queue[t] # <<>>
    <3>1. /\ queue' = [queue EXCEPT ![t] = Tail(@)]
          /\ emission' = [emission EXCEPT ![Head(queue[t])] = "calling"]
      BY <1>2, <2>2 DEF Flush
    <3> QED BY <1>0, <2>2, <3>1 DEF ThreadsOK, QueuesOK
  <2> QED BY <2>1, <2>2
<1>3. ASSUME UNCHANGED queue, NEW e \in Emissions, emission[e] # "queued",
             \A x \in Emissions \ {e} : emission'[x] = emission[x]
      PROVE  QueuesOK'
  BY <1>0, <1>3, QueuesKept
<1>4. ASSUME NEW e \in Emissions, Emit(t, e) \/ Sub1(t, e) \/ SignalEvent(t, e) \/ HandlerReturns(t, e)
      PROVE  QueuesOK'
  BY <1>0, <1>3, <1>4 DEF Emit, Sub1, SignalEvent, HandlerReturns, ThreadsOK
<1>5. ASSUME NEW e \in Emissions, NEW c \in Connections, Call(t, e, c) PROVE QueuesOK'
  BY <1>0, <1>3, <1>5 DEF Call, ThreadsOK
<1>6. CASE UNCHANGED <<emission, queue>> BY <1>0, <1>6, QueuesKept
<1> QED
  BY <1>1, <1>2, <1>4, <1>5, <1>6
  DEF InEvents, EventsStep, EmissionStep, ShutdownStep, AddEventListener, RemoveEventListener,
      DelayBegins, DelayEnds, EventsClose, EventsSub1, EventsSignal, threads

-------------------------------------------------------------------------------
(* The event system keeps its count. *)

LEMMA CountKept ==
  ASSUME EventCountOK, UNCHANGED <<eventCount, base>>, CountedEmissions' = CountedEmissions
  PROVE  EventCountOK'
BY DEF EventCountOK

LEMMA CountedKept ==
  ASSUME \A x \in Emissions :
           emission'[x] = emission[x]
             \/ (emission[x] \in {"added", "rejected", "queued", "calling", "handler"}
                  /\ emission'[x] \in {"added", "rejected", "queued", "calling", "handler"})
             \/ (emission[x] \notin {"added", "rejected", "queued", "calling", "handler"}
                  /\ emission'[x] \notin {"added", "rejected", "queued", "calling", "handler"})
  PROVE  CountedEmissions' = CountedEmissions
BY DEF CountedEmissions

LEMMA EmitCounts ==
  ASSUME ThreadsOK, EventCountOK, NEW t \in Threads, NEW e \in Emissions, Emit(t, e)
  PROVE  EventCountOK'
<1>1. e \notin CountedEmissions BY DEF Emit, CountedEmissions
<1>2. CountedEmissions' = CountedEmissions \union {e}
  BY DEF Emit, CountedEmissions, ThreadsOK
<1>3. /\ Cardinality(CountedEmissions) \in Nat
      /\ Cardinality(CountedEmissions \union {e}) = Cardinality(CountedEmissions) + 1
  BY <1>1, EmissionsFinite, FS_AddElement, FS_CardinalityType
<1>4. eventCount' = eventCount + 1 /\ base' = base BY DEF Emit
<1> QED BY <1>2, <1>3, <1>4 DEF EventCountOK

LEMMA Sub1Counts ==
  ASSUME ThreadsOK, EventCountOK, NEW t \in Threads, NEW e \in Emissions, Sub1(t, e)
  PROVE  EventCountOK'
<1>1. e \in CountedEmissions BY DEF Sub1, CountedEmissions
<1>2. CountedEmissions' = CountedEmissions \ {e}
  BY DEF Sub1, CountedEmissions, ThreadsOK
<1>3. /\ Cardinality(CountedEmissions) \in Nat
      /\ Cardinality(CountedEmissions \ {e}) = Cardinality(CountedEmissions) - 1
  BY ONLY <1>1, Uncounted
<1>4. eventCount' = eventCount - 1 /\ base' = base BY DEF Sub1
<1> QED BY <1>2, <1>3, <1>4 DEF EventCountOK

LEMMA EventsCount ==
  ASSUME TypeOK, QueuesOK, EventCountOK, NEW t \in Threads, InEvents(EventsStep(t))
  PROVE  EventCountOK'
<1>0. ThreadsOK BY DEF TypeOK
<1>1. ASSUME NEW e \in Emissions, Emit(t, e) PROVE EventCountOK'
  BY <1>0, <1>1, EmitCounts
<1>2. ASSUME NEW e \in Emissions, StartEvent(t, e) PROVE EventCountOK'
  <2>1. CountedEmissions' = CountedEmissions
    BY <1>0, <1>2, CountedKept DEF StartEvent, ThreadsOK
  <2> QED BY <1>2, <2>1, CountKept DEF StartEvent, counts
<1>3. ASSUME NEW e \in Emissions, Sub1(t, e) PROVE EventCountOK'
  BY <1>0, <1>3, Sub1Counts
<1>4. ASSUME NEW e \in Emissions, SignalEvent(t, e) PROVE EventCountOK'
  <2>1. CountedEmissions' = CountedEmissions
    BY <1>0, <1>4, CountedKept DEF SignalEvent, ThreadsOK
  <2> QED BY <1>4, <2>1, CountKept DEF SignalEvent, counts
<1>5. ASSUME NEW e \in Emissions, NEW c \in Connections, Call(t, e, c) PROVE EventCountOK'
  <2>1. CountedEmissions' = CountedEmissions
    BY <1>0, <1>5, CountedKept DEF Call, ThreadsOK
  <2> QED BY <1>5, <2>1, CountKept DEF Call, counts
<1>6. ASSUME NEW e \in Emissions, HandlerReturns(t, e) PROVE EventCountOK'
  <2>1. CountedEmissions' = CountedEmissions
    BY <1>0, <1>6, CountedKept DEF HandlerReturns, ThreadsOK
  <2> QED BY <1>6, <2>1, CountKept DEF HandlerReturns, counts
<1>7. CASE Flush(t)
  <2>1. CASE queue[t] = <<>>
    <3>1. UNCHANGED emission BY <1>7, <2>1 DEF Flush
    <3> QED BY <1>7, <3>1, CountKept DEF Flush, counts, CountedEmissions
  <2>2. CASE queue[t] # <<>>
    <3> DEFINE h == Head(queue[t])
    <3>1. h \in Emissions /\ emission[h] = "queued"
      BY <1>0, <2>2 DEF ThreadsOK, QueuesOK
    <3>2. emission' = [emission EXCEPT ![h] = "calling"] BY <1>7, <2>2 DEF Flush
    <3>3. CountedEmissions' = CountedEmissions
      BY <1>0, <3>1, <3>2, CountedKept DEF ThreadsOK
    <3> QED BY <1>7, <3>3, CountKept DEF Flush, counts
  <2> QED BY <2>1, <2>2
<1>8. CASE EventsSub1(t)
  <2>1. UNCHANGED emission /\ base = "held" /\ base' # "held" /\ eventCount' = eventCount - 1
    BY <1>8 DEF EventsSub1, threads
  <2>2. CountedEmissions' = CountedEmissions BY <2>1 DEF CountedEmissions
  <2>3. Cardinality(CountedEmissions) \in Nat BY EmissionsFinite, FS_CardinalityType
  <2> QED BY <2>1, <2>2, <2>3 DEF EventCountOK
<1>9. CASE EventsSignal(t)
  <2>1. UNCHANGED <<emission, eventCount>> /\ base # "held" /\ base' # "held"
    BY <1>9 DEF EventsSignal, threads
  <2> QED BY <2>1 DEF EventCountOK, CountedEmissions
<1>10. CASE UNCHANGED <<emission, eventCount, base>>
  BY <1>10, CountKept DEF CountedEmissions
<1> QED
  BY <1>1, <1>2, <1>3, <1>4, <1>5, <1>6, <1>7, <1>8, <1>9, <1>10
  DEF InEvents, EventsStep, EmissionStep, ShutdownStep, AddEventListener, RemoveEventListener,
      DelayBegins, DelayEnds, EventsClose, threads, counts

-------------------------------------------------------------------------------
(* Once nothing is active, nothing becomes active again. *)

LEMMA QuietStays ==
  ASSUME TypeOK, QueuesOK, EventsQuiet, NEW t \in Threads, InEvents(EventsStep(t))
  PROVE  EventsQuiet'
<1>0. ThreadsOK BY DEF TypeOK
<1>1. eventsClosing' /\ base' # "held"
  BY DEF EventsQuiet, InEvents, EventsStep, EmissionStep, ShutdownStep, AddEventListener,
         RemoveEventListener, Emit, StartEvent, Call, HandlerReturns, Sub1, SignalEvent,
         DelayBegins, DelayEnds, Flush, EventsClose, EventsSub1, EventsSignal, counts
<1>2. queue[t] = <<>>
  <2> SUFFICES ASSUME queue[t] # <<>> PROVE FALSE OBVIOUS
  <2>1. queue[t] \in Seq(Emissions) BY <1>0 DEF ThreadsOK
  <2>2. 1 \in 1 .. Len(queue[t]) /\ queue[t][1] \in Emissions BY <2>1
  <2>3. emission[queue[t][1]] = "queued" BY <2>2 DEF QueuesOK
  <2> QED BY <2>2, <2>3 DEF EventsQuiet
<1>3. \A e \in Emissions : emission'[e] \notin {"queued", "calling", "handler"}
  <2>1. ASSUME NEW e \in Emissions,
               Emit(t, e) \/ StartEvent(t, e) \/ Sub1(t, e) \/ SignalEvent(t, e)
        PROVE  \A x \in Emissions : emission'[x] \notin {"queued", "calling", "handler"}
    BY <1>0, <2>1 DEF EventsQuiet, ThreadsOK, Emit, StartEvent, Sub1, SignalEvent
  <2>2. ASSUME NEW e \in Emissions, HandlerReturns(t, e) \/ \E c \in Connections : Call(t, e, c)
        PROVE  FALSE
    BY <2>2 DEF EventsQuiet, HandlerReturns, Call
  <2>3. CASE UNCHANGED emission BY <2>3 DEF EventsQuiet
  <2>4. CASE Flush(t) BY <1>2, <2>3, <2>4 DEF Flush
  <2> QED
    BY <2>1, <2>2, <2>3, <2>4
    DEF InEvents, EventsStep, EmissionStep, ShutdownStep, AddEventListener, RemoveEventListener,
        DelayBegins, DelayEnds, EventsClose, EventsSub1, EventsSignal, threads
<1> QED BY <1>1, <1>3 DEF EventsQuiet

(* The last emission of the count leaves after Shutdown() has taken its 1.  *)
LEMMA LastIsQuiet ==
  ASSUME TypeOK, EventCountOK, EventsInv, NEW t \in Threads, NEW e \in Emissions,
         Sub1(t, e), eventCount = 1
  PROVE  eventsClosing /\ EventsQuiet'
<1>1. e \in CountedEmissions BY DEF Sub1, CountedEmissions
<1>2. /\ Cardinality(CountedEmissions) \in Nat /\ Cardinality(CountedEmissions) >= 1
      /\ Cardinality(CountedEmissions) = 1 => CountedEmissions = {e}
  BY ONLY <1>1, Uncounted
<1>3. base # "held" BY <1>2 DEF EventCountOK
<1>4. CountedEmissions = {e} BY <1>2, <1>3 DEF EventCountOK
<1>5. eventsClosing BY <1>3 DEF EventsInv
<1>6. \A x \in Emissions : emission'[x] \notin {"queued", "calling", "handler"}
  BY <1>4 DEF Sub1, CountedEmissions, TypeOK, ThreadsOK
<1> QED BY <1>3, <1>5, <1>6 DEF Sub1, EventsQuiet

LEMMA BaseIsQuiet ==
  ASSUME TypeOK, EventCountOK, NEW t \in Threads, EventsSub1(t), eventCount = 1
  PROVE  EventsQuiet'
<1>1. Cardinality(CountedEmissions) \in Nat BY EmissionsFinite, FS_CardinalityType
<1>2. Cardinality(CountedEmissions) = 0 BY <1>1 DEF EventCountOK, EventsSub1
<1>3. CountedEmissions = {} BY <1>2, EmissionsFinite, FS_EmptySet
<1> QED BY <1>3 DEF EventsQuiet, EventsSub1, threads, CountedEmissions

LEMMA EventsKeepInv ==
  ASSUME TypeOK, QueuesOK, EventCountOK, EventsInv, CountsHold,
         NEW t \in Threads, InEvents(EventsStep(t))
  PROVE  EventsInv' /\ CountsHold'
<1>1. EventsQuiet => EventsQuiet' BY QuietStays
<1>2. base' # "held" => eventsClosing'
  BY DEF EventsInv, InEvents, EventsStep, EmissionStep, ShutdownStep, AddEventListener,
         RemoveEventListener, Emit, StartEvent, Call, HandlerReturns, Sub1, SignalEvent,
         DelayBegins, DelayEnds, Flush, EventsClose, EventsSub1, EventsSignal, counts
<1>3. base' = "signal" => base = "signal" \/ (EventsSub1(t) /\ eventCount = 1)
  BY DEF InEvents, EventsStep, EmissionStep, ShutdownStep, AddEventListener,
         RemoveEventListener, Emit, StartEvent, Call, HandlerReturns, Sub1, SignalEvent,
         DelayBegins, DelayEnds, Flush, EventsClose, EventsSub1, EventsSignal, counts
<1>4. ASSUME NEW x \in Emissions, emission'[x] = "signal"
      PROVE  emission[x] = "signal" \/ \E e \in Emissions : Sub1(t, e) /\ eventCount = 1
  BY <1>4
  DEF TypeOK, ThreadsOK, InEvents, EventsStep, EmissionStep, ShutdownStep, AddEventListener,
      RemoveEventListener, Emit, StartEvent, Call, HandlerReturns, Sub1, SignalEvent,
      DelayBegins, DelayEnds, Flush, EventsClose, EventsSub1, EventsSignal, threads
<1>5. UNCHANGED <<spc, eventsHandle>>
  BY DEF InEvents, EventsStep, EmissionStep, ShutdownStep, AddEventListener,
         RemoveEventListener, Emit, StartEvent, Call, HandlerReturns, Sub1, SignalEvent,
         DelayBegins, DelayEnds, Flush, EventsClose, EventsSub1, EventsSignal, counts
<1>6. \/ signalled' = signalled
      \/ base = "signal" \/ \E e \in Emissions : emission[e] = "signal"
  BY DEF InEvents, EventsStep, EmissionStep, ShutdownStep, AddEventListener,
         RemoveEventListener, Emit, StartEvent, Call, HandlerReturns, Sub1, SignalEvent,
         DelayBegins, DelayEnds, Flush, EventsClose, EventsSub1, EventsSignal, process
<1>7. fatal' = fatal \/ \E e \in Emissions : Sub1(t, e) /\ eventCount = 1 /\ ~eventsClosing
  BY DEF InEvents, EventsStep, EmissionStep, ShutdownStep, AddEventListener,
         RemoveEventListener, Emit, StartEvent, Call, HandlerReturns, Sub1, SignalEvent,
         DelayBegins, DelayEnds, Flush, EventsClose, EventsSub1, EventsSignal, process
<1>8. CountsHold' BY <1>7, LastIsQuiet DEF CountsHold
<1>9. base' = "signal" => EventsQuiet' BY <1>1, <1>3, BaseIsQuiet DEF EventsInv
<1>10. \A x \in Emissions : emission'[x] = "signal" => EventsQuiet'
  BY <1>1, <1>4, LastIsQuiet DEF EventsInv
<1>11. spc' \in {"stopEvents", "waitEvents"} /\ eventsHandle' \in signalled' => EventsQuiet'
  BY <1>1, <1>5, <1>6 DEF EventsInv
<1>12. /\ spc' = "running" => eventsHandle' = NoHandle
       /\ spc' \in {"dispose", "stopBlocks", "waitBlocks", "quit"} => EventsQuiet'
  BY <1>1, <1>5 DEF EventsInv
<1> QED BY <1>2, <1>8, <1>9, <1>10, <1>11, <1>12 DEF EventsInv

-------------------------------------------------------------------------------
(* The shutdown blocks keep their count, and block nothing that is over.    *)

LEMMA BlocksCount ==
  ASSUME TypeOK, BlockCountOK, NEW b \in Blockers \union {Self},
         InBlocks(Increment(b) \/ BlockStep(b))
  PROVE  BlockCountOK'
<1>0. BlocksOK BY DEF TypeOK
<1>1. CASE Increment(b)
  <2>1. b \notin CountedBlocks BY <1>1 DEF Increment, CountedBlocks
  <2>2. CountedBlocks' = CountedBlocks \union {b}
    BY <1>0, <1>1 DEF Increment, CountedBlocks, BlocksOK
  <2>3. /\ Cardinality(CountedBlocks) \in Nat
        /\ Cardinality(CountedBlocks \union {b}) = Cardinality(CountedBlocks) + 1
    BY <2>1, BlocksFinite, FS_AddElement, FS_CardinalityType
  <2> QED BY <1>1, <2>2, <2>3 DEF BlockCountOK, Increment
<1>2. CASE Incremented(b)
  <2>1. CountedBlocks' = CountedBlocks
    BY <1>0, <1>2 DEF Incremented, CountedBlocks, BlocksOK
  <2> QED BY <1>2, <2>1 DEF BlockCountOK, Incremented
<1>3. CASE Decrement(b)
  <2>1. b \in CountedBlocks BY <1>3 DEF Decrement, CountedBlocks
  <2>2. CountedBlocks' = CountedBlocks \ {b}
    BY <1>0, <1>3 DEF Decrement, CountedBlocks, BlocksOK
  <2>3. Cardinality(CountedBlocks \ {b}) = Cardinality(CountedBlocks) - 1
    BY ONLY <2>1, Unblocked
  <2> QED BY <1>3, <2>2, <2>3 DEF BlockCountOK, Decrement
<1>4. CASE SignalBlocks(b)
  <2>1. CountedBlocks' = CountedBlocks
    BY <1>0, <1>4 DEF SignalBlocks, CountedBlocks, BlocksOK
  <2> QED BY <1>4, <2>1 DEF BlockCountOK, SignalBlocks
<1> QED BY <1>1, <1>2, <1>3, <1>4 DEF InBlocks, BlockStep

(* The last block to go is Self, or goes after it. *)
LEMMA LastBlockIsQuiet ==
  ASSUME TypeOK, BlockCountOK, BlocksInv, NEW b \in Blockers \union {Self},
         Decrement(b), blockCount = 1
  PROVE  blocksClosing /\ BlocksQuiet'
<1>1. b \in CountedBlocks BY DEF Decrement, CountedBlocks
<1>2. Cardinality(CountedBlocks) = 1 => CountedBlocks = {b} BY ONLY <1>1, Unblocked
<1>3. CountedBlocks = {b} BY <1>2 DEF BlockCountOK
<1>4. blocksClosing BY <1>3 DEF BlocksInv, Decrement, CountedBlocks
<1>5. \A x \in Blockers : block'[x] # "active"
  BY <1>3 DEF Decrement, CountedBlocks, TypeOK, BlocksOK
<1> QED BY <1>4, <1>5 DEF BlocksQuiet, Decrement

LEMMA BlocksKeepInv ==
  ASSUME TypeOK, BlockCountOK, BlocksInv, CountsHold, NEW b \in Blockers \union {Self},
         InBlocks(Increment(b) \/ BlockStep(b))
  PROVE  BlocksInv' /\ CountsHold' /\ (BlocksQuiet => BlocksQuiet')
<1> USE AppExitAssumption
<1>0. BlocksOK /\ UNCHANGED <<spc, timedOut>> BY DEF TypeOK, InBlocks
<1>1. CASE Increment(b)
  BY <1>0, <1>1 DEF Increment, process, BlocksInv, CountsHold, BlocksQuiet, BlocksOK
<1>2. CASE Incremented(b)
  BY <1>0, <1>2 DEF Incremented, BlocksInv, CountsHold, BlocksQuiet, BlocksOK
<1>3. CASE Decrement(b)
  <2>1. BlocksQuiet => BlocksQuiet' BY <1>0, <1>3 DEF Decrement, BlocksQuiet, BlocksOK
  <2>2. blockCount = 1 => blocksClosing /\ BlocksQuiet' BY <1>3, LastBlockIsQuiet
  <2>3. CountsHold' BY <1>3, <2>2 DEF Decrement, CountsHold
  <2>4. \A x \in Blockers \union {Self} : block'[x] = "signal" => BlocksQuiet'
    BY <1>0, <1>3, <2>1, <2>2 DEF Decrement, BlocksInv, BlocksOK
  <2>5. /\ block'[Self] \in {"active", "signal", "gone"}
        /\ ~blocksClosing' => block'[Self] = "active"
        /\ spc' \notin {"stopBlocks", "waitBlocks", "quit"} => blocksHandle' = NoHandle
    BY <1>0, <1>3 DEF Decrement, BlocksInv, BlocksOK
  <2> QED BY <2>1, <2>3, <2>4, <2>5 DEF BlocksInv
<1>4. CASE SignalBlocks(b)
  BY <1>0, <1>4 DEF SignalBlocks, BlocksInv, CountsHold, BlocksQuiet, BlocksOK
<1> QED BY <1>1, <1>2, <1>3, <1>4 DEF InBlocks, BlockStep

(* The blocks' event is not the event system's before Cleanup. *)
LEMMA BlocksLeaveEvents ==
  ASSUME TypeOK, QueuesOK, EventCountOK, EventsInv, BlocksInv,
         NEW b \in Blockers \union {Self}, InBlocks(Increment(b) \/ BlockStep(b))
  PROVE  QueuesOK' /\ EventCountOK' /\ EventsInv'
<1> USE AppExitAssumption
<1>1. UNCHANGED <<eventVars, spc>> BY DEF InBlocks
<1>2. QueuesOK' BY <1>1 DEF QueuesOK, eventVars, threads
<1>3. EventCountOK' BY <1>1 DEF EventCountOK, CountedEmissions, eventVars, threads, counts
<1>4. EventsQuiet' = EventsQuiet BY <1>1 DEF EventsQuiet, eventVars, threads, counts
<1>5. spc \in {"stopEvents", "waitEvents"} => signalled' \subseteq signalled
  BY DEF TypeOK, ProcessOK, BlocksInv, InBlocks, BlockStep, Increment, Incremented, Decrement,
         SignalBlocks, SetEvent, process
<1> QED BY <1>1, <1>2, <1>3, <1>4, <1>5 DEF EventsInv, eventVars, threads, counts

-------------------------------------------------------------------------------
(* The steps of the shutdown. *)

LEMMA ExitInv ==
  ASSUME IInv, InExit(StopEvents \/ ExitStep)
  PROVE  IInv'
<1> USE AppExitAssumption
<1>1. TypeOK' BY ExitType DEF IInv
<1>2. UNCHANGED <<eventCount, base, emission, queue, eventsClosing, fatal, block, blockCount>>
  BY DEF InExit, ExitStep, StopEvents, EventsShutdown, CreateEvent, EventsStopped, EventsReturn,
         EventsWaited, CloseHandle, Cleanup, SetEventOnCompletion, CleanupBlocks, BlocksClose,
         BlocksWaited, TimeOut, process, eventVars, blockVars, counts, threads
<1>3. /\ QueuesOK' /\ EventCountOK' /\ BlockCountOK' /\ CountsHold'
      /\ EventsQuiet' = EventsQuiet
  BY <1>2 DEF IInv, QueuesOK, EventCountOK, CountedEmissions, BlockCountOK, CountedBlocks,
              CountsHold, EventsQuiet
<1>4. EventsInv'
  <2>1. /\ spc' = "running" => eventsHandle' = NoHandle
        /\ spc' \in {"stopEvents", "waitEvents"} /\ eventsHandle' \in signalled' => EventsQuiet
    BY DEF IInv, TypeOK, ProcessOK, EventsInv, InExit, ExitStep, StopEvents, EventsShutdown,
           CreateEvent, EventsStopped, EventsReturn, EventsWaited, Cleanup, CleanupBlocks,
           BlocksWaited, TimeOut, process, counts
  <2>2. spc' \in {"dispose", "stopBlocks", "waitBlocks", "quit"} => EventsQuiet
    BY DEF IInv, EventsInv, InExit, ExitStep, StopEvents, EventsStopped, EventsWaited, Cleanup,
           CleanupBlocks, BlocksWaited, TimeOut
  <2> QED BY <1>2, <1>3, <2>1, <2>2 DEF IInv, EventsInv
<1>5. BlocksInv'
  <2>1. spc' \notin {"stopBlocks", "waitBlocks", "quit"} => blocksHandle' = NoHandle
    BY DEF IInv, BlocksInv, InExit, ExitStep, StopEvents, EventsStopped, EventsWaited, Cleanup,
           CleanupBlocks, BlocksWaited, TimeOut, blockVars
  <2>2. blocksClosing => blocksClosing'
    BY DEF InExit, ExitStep, StopEvents, EventsStopped, EventsWaited, Cleanup,
           SetEventOnCompletion, CleanupBlocks, BlocksClose, BlocksWaited, TimeOut, blockVars
  <2> QED BY <1>2, <2>1, <2>2 DEF IInv, BlocksInv, BlocksQuiet
<1> QED BY <1>1, <1>3, <1>4, <1>5 DEF IInv

LEMMA EventsKeepBlocks ==
  ASSUME IInv, NEW t \in Threads, InEvents(EventsStep(t))
  PROVE  BlockCountOK' /\ BlocksInv' /\ BlocksQuiet' = BlocksQuiet
BY DEF IInv, InEvents, blockVars, BlockCountOK, CountedBlocks, BlocksInv, BlocksQuiet

LEMMA StepIInv == IInv /\ [Next]_vars => IInv'
<1> SUFFICES ASSUME IInv, [Next]_vars PROVE IInv' OBVIOUS
<1>1. ASSUME NEW t \in Threads, InEvents(EventsStep(t)) PROVE IInv'
  <2>1. TypeOK' BY <1>1, EventsType DEF IInv
  <2>2. QueuesOK' BY <1>1, EventsQueues DEF IInv
  <2>3. EventCountOK' BY <1>1, EventsCount DEF IInv
  <2>4. EventsInv' /\ CountsHold' BY <1>1, EventsKeepInv DEF IInv
  <2>5. BlockCountOK' /\ BlocksInv' BY <1>1, EventsKeepBlocks
  <2> QED BY <2>1, <2>2, <2>3, <2>4, <2>5 DEF IInv
<1>2. ASSUME NEW b \in Blockers \union {Self}, InBlocks(Increment(b) \/ BlockStep(b))
      PROVE  IInv'
  <2>1. TypeOK' BY <1>2, BlocksType DEF IInv
  <2>2. QueuesOK' /\ EventCountOK' /\ EventsInv' BY <1>2, BlocksLeaveEvents DEF IInv
  <2>3. BlockCountOK' BY <1>2, BlocksCount DEF IInv
  <2>4. BlocksInv' /\ CountsHold' BY <1>2, BlocksKeepInv DEF IInv
  <2> QED BY <2>1, <2>2, <2>3, <2>4 DEF IInv
<1>3. CASE InExit(StopEvents \/ ExitStep) BY <1>3, ExitInv
<1>4. CASE UNCHANGED vars
  BY <1>4
  DEF vars, process, eventVars, counts, threads, listeners, blockVars, IInv, TypeOK, ProcessOK,
      CountsOK, ThreadsOK, ListenersOK, BlocksOK, ExitOK, QueuesOK, EventCountOK,
      CountedEmissions, EventsInv, EventsQuiet, BlockCountOK, CountedBlocks, BlocksInv,
      BlocksQuiet, CountsHold
<1> QED BY <1>1, <1>2, <1>3, <1>4 DEF Next

LEMMA AlwaysIInv == Spec => []IInv
BY InitIInv, StepIInv, PTL DEF Spec

(* Every variable keeps its type: in particular neither of the two unsigned *)
(* counts is taken below zero.                                              *)
THEOREM TypeCorrect == Spec => []TypeOK
<1>1. IInv => TypeOK BY DEF IInv
<1> QED BY <1>1, AlwaysIInv, PTL

(* No count of the event system or of the shutdown blocks reaches zero      *)
(* before its shutdown has begun: Sub1() and Decrement() are never fatal.   *)
THEOREM CountsNeverEarly == Spec => []CountsHold
<1>1. IInv => CountsHold BY DEF IInv
<1> QED BY <1>1, AlwaysIInv, PTL

-------------------------------------------------------------------------------
(* The event system is a latch. *)

Over == spc \in {"dispose", "stopBlocks", "waitBlocks", "quit"}

LEMMA ActiveKept ==
  ASSUME \A x \in Emissions :
           (emission'[x] \in {"queued", "calling", "handler"})
             <=> (emission[x] \in {"queued", "calling", "handler"})
  PROVE  ActiveEmissions' = ActiveEmissions
BY DEF ActiveEmissions

LEMMA EmissionIsLatched ==
  ASSUME TypeOK, QueuesOK, NEW t \in Threads, InEvents(EventsStep(t))
  PROVE  EventsLatch!LatchNext \/ UNCHANGED <<ActiveEmissions, eventsClosing, Over>>
<1>0. ThreadsOK /\ Over' = Over BY DEF TypeOK, InEvents, Over
<1>1. ASSUME NEW e \in Emissions, StartEvent(t, e)
      PROVE  EventsLatch!Begin(e) \/ UNCHANGED <<ActiveEmissions, eventsClosing, Over>>
  <2>1. e \notin ActiveEmissions BY <1>1 DEF StartEvent, ActiveEmissions
  <2>2. CASE eventsClosing
    <3>1. emission' = [emission EXCEPT ![e] = "rejected"] BY <1>1, <2>2 DEF StartEvent
    <3>2. ActiveEmissions' = ActiveEmissions
      BY <1>0, <1>1, <3>1, ActiveKept DEF StartEvent, ThreadsOK
    <3> QED BY <1>0, <1>1, <3>2 DEF StartEvent, counts
  <2>3. CASE ~eventsClosing
    <3>1. ActiveEmissions' = ActiveEmissions \union {e}
      BY <1>0, <1>1, <2>3 DEF StartEvent, ActiveEmissions, ThreadsOK
    <3> QED BY <1>0, <1>1, <2>1, <2>3, <3>1 DEF EventsLatch!Begin, StartEvent, counts, Over
  <2> QED BY <2>2, <2>3
<1>2. ASSUME NEW e \in Emissions, Sub1(t, e)
      PROVE  EventsLatch!End(e) \/ UNCHANGED <<ActiveEmissions, eventsClosing, Over>>
  <2>1. CASE emission[e] = "rejected"
    <3>1. ActiveEmissions' = ActiveEmissions
      BY <1>0, <1>2, <2>1, ActiveKept DEF Sub1, ThreadsOK
    <3> QED BY <1>0, <1>2, <3>1 DEF Sub1
  <2>2. CASE emission[e] = "calling"
    <3>1. e \in ActiveEmissions /\ ActiveEmissions' = ActiveEmissions \ {e}
      BY <1>0, <1>2, <2>2 DEF Sub1, ActiveEmissions, ThreadsOK
    <3> QED BY <1>0, <1>2, <3>1 DEF EventsLatch!End, Sub1, Over
  <2> QED BY <1>2, <2>1, <2>2 DEF Sub1
<1>3. ASSUME NEW e \in Emissions, Emit(t, e) \/ SignalEvent(t, e) \/ HandlerReturns(t, e)
      PROVE  UNCHANGED <<ActiveEmissions, eventsClosing, Over>>
  <2>1. ActiveEmissions' = ActiveEmissions
    BY <1>0, <1>3, ActiveKept DEF Emit, SignalEvent, HandlerReturns, ThreadsOK
  <2> QED BY <1>0, <1>3, <2>1 DEF Emit, SignalEvent, HandlerReturns, counts
<1>4. ASSUME NEW e \in Emissions, NEW c \in Connections, Call(t, e, c)
      PROVE  UNCHANGED <<ActiveEmissions, eventsClosing, Over>>
  <2>1. ActiveEmissions' = ActiveEmissions
    BY <1>0, <1>4, ActiveKept DEF Call, ThreadsOK
  <2> QED BY <1>0, <1>4, <2>1 DEF Call, counts
<1>5. CASE Flush(t)
  <2>1. CASE queue[t] = <<>>
    BY <1>0, <1>5, <2>1 DEF Flush, counts, ActiveEmissions
  <2>2. CASE queue[t] # <<>>
    <3> DEFINE h == Head(queue[t])
    <3>1. h \in Emissions /\ emission[h] = "queued"
      BY <1>0, <2>2 DEF ThreadsOK, QueuesOK
    <3>2. emission' = [emission EXCEPT ![h] = "calling"] BY <1>5, <2>2 DEF Flush
    <3>3. ActiveEmissions' = ActiveEmissions BY <1>0, <3>1, <3>2, ActiveKept DEF ThreadsOK
    <3> QED BY <1>0, <1>5, <3>3 DEF Flush, counts
  <2> QED BY <2>1, <2>2
<1>6. CASE EventsClose(t)
  BY <1>0, <1>6 DEF EventsClose, EventsLatch!LatchNext, EventsLatch!Close, threads,
                    ActiveEmissions, Over
<1>7. CASE UNCHANGED <<emission, eventsClosing>> BY <1>0, <1>7 DEF ActiveEmissions
<1> QED
  BY <1>1, <1>2, <1>3, <1>4, <1>5, <1>6, <1>7
  DEF EventsLatch!LatchNext, InEvents, EventsStep, EmissionStep, ShutdownStep,
      AddEventListener, RemoveEventListener, DelayBegins, DelayEnds, EventsSub1, EventsSignal,
      threads, counts

LEMMA ExitIsLatched ==
  ASSUME IInv, InExit(StopEvents \/ ExitStep)
  PROVE  EventsLatch!LatchNext \/ UNCHANGED <<ActiveEmissions, eventsClosing, Over>>
<1>1. UNCHANGED <<ActiveEmissions, eventsClosing>>
  BY DEF InExit, ExitStep, StopEvents, EventsShutdown, EventsStopped, EventsReturn,
         EventsWaited, Cleanup, CleanupBlocks, BlocksWaited, TimeOut, eventVars, counts,
         threads, ActiveEmissions
<1>2. CASE EventsWaited
  <2>1. EventsQuiet BY <1>2 DEF EventsWaited, IInv, EventsInv
  <2>2. ActiveEmissions = {} /\ eventsClosing BY <2>1 DEF EventsQuiet, ActiveEmissions
  <2> QED
    BY <1>1, <1>2, <2>2 DEF EventsWaited, EventsLatch!LatchNext, EventsLatch!Finish
<1>3. CASE ~EventsWaited
  <2>1. Over' = Over
    BY <1>3 DEF InExit, ExitStep, StopEvents, EventsStopped, Cleanup, CleanupBlocks,
                BlocksWaited, TimeOut, Over
  <2> QED BY <1>1, <2>1
<1> QED BY <1>2, <1>3

(* MainWindow::Shutdown() gets past its wait for the event system only when *)
(* no handler runs and no emission waits in a queue, and none is let in     *)
(* after it closed: AppExit implements Latch.                               *)
THEOREM EventsLatchHolds == Spec => EventsAreOver
<1>1. Init => EventsLatch!LatchInit
  BY DEF Init, EventsInit, EventsLatch!LatchInit, ActiveEmissions
<1>2. IInv /\ [Next]_vars => [EventsLatch!LatchNext]_(EventsLatch!latchVars)
  <2> SUFFICES ASSUME IInv, [Next]_vars
               PROVE  EventsLatch!LatchNext \/ UNCHANGED <<ActiveEmissions, eventsClosing, Over>>
    BY DEF EventsLatch!latchVars, Over
  <2>1. ASSUME NEW t \in Threads, InEvents(EventsStep(t))
        PROVE  EventsLatch!LatchNext \/ UNCHANGED <<ActiveEmissions, eventsClosing, Over>>
    BY <2>1, EmissionIsLatched DEF IInv
  <2>2. CASE InExit(StopEvents \/ ExitStep) BY <2>2, ExitIsLatched
  <2>3. CASE UNCHANGED <<eventVars, spc>>
    BY <2>3 DEF eventVars, threads, counts, ActiveEmissions, Over
  <2> QED BY <2>1, <2>2, <2>3 DEF Next, InBlocks, vars
<1> QED BY <1>1, <1>2, AlwaysIInv, PTL DEF Spec, EventsAreOver, EventsLatch!LatchSpec

-------------------------------------------------------------------------------
(* The shutdown blocks are a latch as far as their event does not have the  *)
(* number of the event system's closed one.                                 *)

Ended == spc = "quit" /\ ~timedOut /\ blocksHandle # eventsHandle

LEMMA InitHandles == Init => HandlesInv
BY AppExitAssumption DEF Init, BlocksInit, HandlesInv

LEMMA EventsKeepHandle ==
  ASSUME NEW t \in Threads, InEvents(EventsStep(t))
  PROVE  eventsHandle' = eventsHandle
BY DEF InEvents, EventsStep, EmissionStep, ShutdownStep, AddEventListener,
       RemoveEventListener, Emit, StartEvent, Call, HandlerReturns, Sub1, SignalEvent,
       DelayBegins, DelayEnds, Flush, EventsClose, EventsSub1, EventsSignal, counts

LEMMA EventsKeepHandles ==
  ASSUME IInv, HandlesInv, NEW t \in Threads, InEvents(EventsStep(t))
  PROVE  HandlesInv'
<1> USE AppExitAssumption
<1>1. UNCHANGED <<blocksHandle, spc, timedOut>> /\ BlocksQuiet' = BlocksQuiet
  BY EventsKeepBlocks DEF InEvents, blockVars
<1>2. eventsHandle' = eventsHandle BY EventsKeepHandle
<1>3. signalled' \subseteq (signalled \union {eventsHandle}) /\ signalled' \subseteq Handles
  BY DEF IInv, TypeOK, ProcessOK, InEvents, EventsStep, EmissionStep, ShutdownStep,
         AddEventListener, RemoveEventListener, Emit, StartEvent, Call, HandlerReturns, Sub1,
         SignalEvent, DelayBegins, DelayEnds, Flush, EventsClose, EventsSub1, EventsSignal,
         SetEvent, process
<1> QED BY <1>1, <1>2, <1>3 DEF HandlesInv

LEMMA BlocksKeepHandles ==
  ASSUME IInv, HandlesInv, NEW b \in Blockers \union {Self},
         InBlocks(Increment(b) \/ BlockStep(b))
  PROVE  HandlesInv'
<1>1. BlocksQuiet => BlocksQuiet' BY BlocksKeepInv DEF IInv
<1>2. UNCHANGED <<blocksHandle, eventsHandle, spc, timedOut>>
  BY DEF InBlocks, BlockStep, Increment, Incremented, Decrement, SignalBlocks, eventVars, counts
<1>3. signalled' = signalled \/ block[b] = "signal"
  BY DEF InBlocks, BlockStep, Increment, Incremented, Decrement, SignalBlocks, process
<1>4. block[b] = "signal" => BlocksQuiet BY DEF IInv, BlocksInv
<1> QED BY <1>1, <1>2, <1>3, <1>4 DEF HandlesInv

LEMMA ExitKeepsHandles ==
  ASSUME IInv, HandlesInv, InExit(StopEvents \/ ExitStep)
  PROVE  HandlesInv'
<1> USE AppExitAssumption
<1>1. block' = block /\ (blocksClosing => blocksClosing')
  BY DEF InExit, ExitStep, StopEvents, EventsStopped, EventsWaited, Cleanup,
         SetEventOnCompletion, CleanupBlocks, BlocksClose, BlocksWaited, TimeOut, blockVars
<1>2. BlocksQuiet => BlocksQuiet' BY <1>1 DEF BlocksQuiet
<1>3. CASE StopEvents
  <2>1. blocksHandle' = NoHandle /\ spc' = "stopEvents"
    BY <1>3 DEF StopEvents, IInv, BlocksInv, blockVars
  <2> QED BY <2>1 DEF HandlesInv
<1>4. CASE EventsStopped \/ EventsWaited
  <2>1. blocksHandle' = NoHandle /\ spc' \in {"waitEvents", "dispose"}
    BY <1>4 DEF EventsStopped, EventsWaited, IInv, BlocksInv, blockVars
  <2> QED BY <2>1 DEF HandlesInv
<1>5. CASE Cleanup
  <2>1. PICK h \in Handles : SetEventOnCompletion(h) BY <1>5 DEF Cleanup
  <2>2. /\ blocksHandle' = h /\ eventsHandle' = eventsHandle /\ h \notin signalled'
        /\ spc' = "stopBlocks"
    BY <1>5, <2>1 DEF Cleanup, SetEventOnCompletion, CreateEvent, IInv, TypeOK, ProcessOK,
                      eventVars, counts
  <2> QED BY <2>1, <2>2 DEF HandlesInv
<1>6. CASE CleanupBlocks \/ BlocksWaited \/ TimeOut
  <2>1. UNCHANGED <<blocksHandle, eventsHandle, signalled>>
    BY <1>6 DEF CleanupBlocks, BlocksClose, BlocksWaited, TimeOut, process, eventVars, blockVars,
                counts
  <2>2. spc \in {"stopBlocks", "waitBlocks"}
    BY <1>6 DEF CleanupBlocks, BlocksWaited, TimeOut
  <2>3. spc' = "quit" /\ ~timedOut' => blocksHandle \in signalled
    BY <1>6 DEF CleanupBlocks, BlocksWaited, TimeOut
  <2> QED BY <1>2, <2>1, <2>2, <2>3 DEF HandlesInv
<1> QED BY <1>3, <1>4, <1>5, <1>6 DEF InExit, ExitStep

LEMMA AlwaysHandles == Spec => [](IInv /\ HandlesInv)
<1>1. IInv /\ HandlesInv /\ [Next]_vars => HandlesInv'
  <2> SUFFICES ASSUME IInv, HandlesInv, [Next]_vars PROVE HandlesInv' OBVIOUS
  <2>1. CASE UNCHANGED vars
    BY <2>1 DEF vars, process, eventVars, counts, blockVars, HandlesInv, BlocksQuiet
  <2> QED BY <2>1, EventsKeepHandles, BlocksKeepHandles, ExitKeepsHandles DEF Next
<1> QED BY <1>1, InitHandles, AlwaysIInv, PTL DEF Spec

LEMMA BlockIsLatched ==
  ASSUME IInv, NEW b \in Blockers \union {Self}, InBlocks(Increment(b) \/ BlockStep(b))
  PROVE  BlocksLatch!LatchNext \/ UNCHANGED <<ActiveBlocks, blocksClosing, Ended>>
<1> USE AppExitAssumption
<1>00. blocksHandle' = blocksHandle
  BY DEF InBlocks, Increment, BlockStep, Incremented, Decrement, SignalBlocks
<1>0. BlocksOK /\ Ended' = Ended
  BY <1>00 DEF IInv, TypeOK, InBlocks, Alive, Ended, eventVars, counts
<1>1. CASE Increment(b)
  <2>1. ActiveBlocks' = ActiveBlocks BY <1>0, <1>1 DEF Increment, ActiveBlocks, BlocksOK
  <2> QED BY <1>0, <1>1, <2>1 DEF Increment
<1>2. CASE Incremented(b)
  <2>1. CASE blocksClosing
    BY <1>0, <1>2, <2>1 DEF Incremented, ActiveBlocks
  <2>2. CASE ~blocksClosing
    <3>1. b \in Blockers BY <1>2 DEF Incremented, IInv, BlocksInv
    <3>2. b \notin ActiveBlocks /\ ActiveBlocks' = ActiveBlocks \union {b}
      BY <1>0, <1>2, <2>2, <3>1 DEF Incremented, ActiveBlocks, BlocksOK
    <3> QED
      BY <1>0, <1>2, <2>2, <3>1, <3>2
      DEF Incremented, BlocksLatch!LatchNext, BlocksLatch!Begin, Ended
  <2> QED BY <2>1, <2>2
<1>3. CASE Decrement(b)
  <2>1. CASE b \in Blockers
    <3>1. b \in ActiveBlocks /\ ActiveBlocks' = ActiveBlocks \ {b}
      BY <1>0, <1>3, <2>1 DEF Decrement, ActiveBlocks, BlocksOK
    <3> QED
      BY <1>0, <1>3, <2>1, <3>1 DEF Decrement, BlocksLatch!LatchNext, BlocksLatch!End, Ended
  <2>2. CASE b = Self
    <3>1. ActiveBlocks' = ActiveBlocks
      BY <1>0, <1>3, <2>2 DEF Decrement, ActiveBlocks, BlocksOK
    <3> QED BY <1>0, <1>3, <3>1 DEF Decrement
  <2> QED BY <2>1, <2>2
<1>4. CASE SignalBlocks(b)
  <2>1. ActiveBlocks' = ActiveBlocks BY <1>0, <1>4 DEF SignalBlocks, ActiveBlocks, BlocksOK
  <2> QED BY <1>0, <1>4, <2>1 DEF SignalBlocks
<1> QED BY <1>1, <1>2, <1>3, <1>4 DEF InBlocks, BlockStep

LEMMA ExitIsBlocksLatched ==
  ASSUME IInv, HandlesInv, InExit(StopEvents \/ ExitStep)
  PROVE  BlocksLatch!LatchNext \/ UNCHANGED <<ActiveBlocks, blocksClosing, Ended>>
<1>1. CASE CleanupBlocks
  BY <1>1 DEF CleanupBlocks, BlocksClose, BlocksLatch!LatchNext, BlocksLatch!Close,
              ActiveBlocks, Ended
<1>2. CASE BlocksWaited /\ blocksHandle = eventsHandle
  BY <1>2 DEF BlocksWaited, eventVars, counts, blockVars, ActiveBlocks, Ended
<1>3. CASE BlocksWaited /\ blocksHandle # eventsHandle
  <2>1. BlocksQuiet BY <1>3 DEF BlocksWaited, HandlesInv
  <2>2. ActiveBlocks = {} /\ blocksClosing BY <2>1 DEF BlocksQuiet, ActiveBlocks
  <2>3. UNCHANGED <<ActiveBlocks, blocksClosing, blocksHandle, eventsHandle>> /\ ~Ended
    BY <1>3 DEF BlocksWaited, blockVars, eventVars, counts, ActiveBlocks, Ended
  <2>4. ~timedOut' => Ended'
    BY <1>3, <2>3 DEF BlocksWaited, Ended
  <2>5. timedOut' => ~Ended' BY DEF Ended
  <2> QED BY <2>2, <2>3, <2>4, <2>5 DEF BlocksLatch!LatchNext, BlocksLatch!Finish, Ended
<1>4. CASE StopEvents \/ EventsStopped \/ EventsWaited \/ Cleanup \/ TimeOut
  BY <1>4 DEF StopEvents, EventsStopped, EventsWaited, Cleanup, SetEventOnCompletion, TimeOut,
              blockVars, ActiveBlocks, Ended
<1> QED BY <1>1, <1>2, <1>3, <1>4 DEF InExit, ExitStep

(* The app ends within its second only when every shutdown block is gone    *)
(* and lets none in once it waits, unless CreateEvent() has given its event *)
(* the number of the event system's closed one: AppExit implements Latch    *)
(* again.                                                                   *)
THEOREM BlocksLatchHolds == Spec => BlocksAreOver
<1>1. Init => BlocksLatch!LatchInit
  BY AppExitAssumption DEF Init, BlocksInit, BlocksLatch!LatchInit, ActiveBlocks
<1>2. IInv /\ HandlesInv /\ [Next]_vars => [BlocksLatch!LatchNext]_(BlocksLatch!latchVars)
  <2> SUFFICES ASSUME IInv, HandlesInv, [Next]_vars
               PROVE  BlocksLatch!LatchNext \/ UNCHANGED <<ActiveBlocks, blocksClosing, Ended>>
    BY DEF BlocksLatch!latchVars, Ended
  <2>1. ASSUME NEW b \in Blockers \union {Self}, InBlocks(Increment(b) \/ BlockStep(b))
        PROVE  BlocksLatch!LatchNext \/ UNCHANGED <<ActiveBlocks, blocksClosing, Ended>>
    BY <2>1, BlockIsLatched
  <2>2. CASE InExit(StopEvents \/ ExitStep) BY <2>2, ExitIsBlocksLatched
  <2>3. CASE UNCHANGED <<blockVars, spc, timedOut, eventsHandle>>
    BY <2>3 DEF blockVars, ActiveBlocks, Ended
  <2>4. ASSUME NEW t \in Threads, InEvents(EventsStep(t)) PROVE eventsHandle' = eventsHandle
    BY <2>4, EventsKeepHandle
  <2> QED BY <2>1, <2>2, <2>3, <2>4 DEF Next, InEvents, vars, eventVars, counts
<1> QED BY <1>1, <1>2, AlwaysHandles, PTL DEF Spec, BlocksAreOver, BlocksLatch!LatchSpec

-------------------------------------------------------------------------------
(* The listeners: a connection has a handler exactly as long as it listens. *)

Listening == handlers = senders

LEMMA ListenersKept ==
  ASSUME TypeOK, Listening, [Next]_vars
  PROVE  Listening'
<1>1. CASE UNCHANGED listeners BY <1>1 DEF Listening, listeners
<1>2. ASSUME NEW t \in Threads, InEvents(EventsStep(t)), ~UNCHANGED listeners
      PROVE  Listening'
  <2>1. PICK c \in Connections : AddEventListener(t, c) \/ RemoveEventListener(t, c)
    BY <1>2 DEF InEvents, EventsStep, EmissionStep, ShutdownStep, Emit, StartEvent, Call,
       HandlerReturns, Sub1, SignalEvent, DelayBegins, DelayEnds, Flush, EventsClose,
       EventsSub1, EventsSignal, listeners
  <2> QED BY <2>1 DEF AddEventListener, RemoveEventListener, Listening
<1>3. ASSUME NEW b \in Blockers \union {Self}, InBlocks(Increment(b) \/ BlockStep(b))
      PROVE  UNCHANGED listeners
  BY <1>3 DEF InBlocks, eventVars
<1>4. ASSUME InExit(StopEvents \/ ExitStep) PROVE UNCHANGED listeners
  BY <1>4 DEF InExit, StopEvents, ExitStep, EventsShutdown, EventsStopped, EventsReturn,
     EventsWaited, Cleanup, CleanupBlocks, BlocksWaited, TimeOut, eventVars, listeners
<1>5. CASE UNCHANGED vars BY <1>5 DEF vars, eventVars, listeners, Listening
<1> QED BY <1>1, <1>2, <1>3, <1>4, <1>5 DEF Next

(* Only Call() starts a handler. *)
LEMMA HandlersStart ==
  ASSUME TypeOK, Listening, NEW e \in Emissions, [Next]_vars,
         emission[e] = "calling", emission'[e] = "handler"
  PROVE  todo[e] \ todo'[e] \subseteq senders
<1>1. ASSUME NEW t \in Threads, InEvents(EventsStep(t))
      PROVE  todo[e] \ todo'[e] \subseteq senders
  <2>1. ASSUME NEW f \in Emissions, Emit(t, f) \/ StartEvent(t, f) \/ Sub1(t, f)
                                    \/ SignalEvent(t, f) \/ HandlerReturns(t, f)
        PROVE  FALSE
    BY <2>1 DEF Emit, StartEvent, Sub1, SignalEvent, HandlerReturns, TypeOK, ThreadsOK
  <2>2. ASSUME NEW f \in Emissions, NEW c \in Connections, Call(t, f, c)
        PROVE  todo[e] \ todo'[e] \subseteq senders
    <3>1. f = e BY <2>2 DEF Call, TypeOK, ThreadsOK
    <3>2. c \in handlers BY <2>2, <3>1 DEF Call, TypeOK, ThreadsOK
    <3> QED BY <2>2, <3>1, <3>2 DEF Call, TypeOK, ThreadsOK, Listening
  <2>3. CASE Flush(t)
    <3>1. queue[t] # <<>> /\ emission' = [emission EXCEPT ![Head(queue[t])] = "calling"]
      BY <2>3 DEF Flush
    <3> QED BY <3>1 DEF TypeOK, ThreadsOK
  <2>4. emission' # emission OBVIOUS
  <2> QED
    BY <1>1, <2>1, <2>2, <2>3, <2>4
    DEF InEvents, EventsStep, EmissionStep, ShutdownStep, AddEventListener, RemoveEventListener,
        DelayBegins, DelayEnds, EventsClose, EventsSub1, EventsSignal, threads
<1>2. CASE UNCHANGED emission BY <1>2
<1>3. ASSUME NEW b \in Blockers \union {Self}, InBlocks(Increment(b) \/ BlockStep(b))
      PROVE  UNCHANGED emission
  BY <1>3 DEF InBlocks, eventVars, threads
<1>4. ASSUME InExit(StopEvents \/ ExitStep) PROVE UNCHANGED emission
  BY <1>4 DEF InExit, StopEvents, ExitStep, EventsShutdown, EventsStopped, EventsReturn,
     EventsWaited, Cleanup, CleanupBlocks, BlocksWaited, TimeOut, eventVars, threads
<1>5. CASE UNCHANGED vars BY <1>5 DEF vars, eventVars, threads
<1> QED BY <1>1, <1>2, <1>3, <1>4, <1>5 DEF Next

(* No handler of a listener starts after it was removed, however long the   *)
(* emission waited with its copy of the receivers                           *)
(* (EventReceiver::RemoveEventListener(), EventConnection::Call()).         *)
THEOREM RemovedAreNotCalled == Spec => NoCallAfterRemoval
<1> DEFINE Starts ==
      \A e \in Emissions :
        emission[e] = "calling" /\ emission'[e] = "handler" =>
          todo[e] \ todo'[e] \subseteq senders
<1>1. Init => Listening BY DEF Init, EventsInit, Listening
<1>2. TypeOK /\ Listening /\ [Next]_vars => Listening' BY ListenersKept
<1>3. TypeOK /\ Listening /\ [Next]_vars => [Starts]_vars BY HandlersStart
<1>4. Spec => [][Starts]_vars BY <1>1, <1>2, <1>3, TypeCorrect, PTL DEF Spec
<1> QED BY <1>4 DEF NoCallAfterRemoval
===============================================================================
