--------------------------------- MODULE SHM ---------------------------------
(***************************************************************************)
(* The shared-memory frame feed: one writer (InterprocessRenderer and its   *)
(* SHM::Writer, in the OpenKneeboard app) and any number of readers         *)
(* (SHM::CachedReader in games, SteamVR and viewers).  The processes share  *)
(* one FrameMetadata header, a named mutex and textures with GPU fences.    *)
(*                                                                          *)
(* A texture and its fence are created together and are one "resource".    *)
(* GPU work is asynchronous: a process appends to the in-order queue of its *)
(* device and goes on.  Two queue heads may run at the same time.           *)
(***************************************************************************)
EXTENDS Integers, Sequences

CONSTANTS
  Readers,          \* consumers, each with its own process and GPU queue
  Writer,           \* the feeder's name as a mutex owner
  NoOne,            \* the mutex is free
  SwapchainLength,  \* SHMSwapchainLength
  Targets,          \* the sets of readers a Config::mTarget pattern matches
  Faults,           \* which of AllFaults the environment may produce
  MaxFaults,        \* bound: how many of them in one behaviour
  MaxFrame,         \* bound: frames submitted in one session
  MaxResources,     \* bound: textures created in one behaviour
  MaxCopies         \* bound: copies a reader has queued on its GPU

AllFaults == {"resize", "quit", "writerCrash", "readerCrash", "handleReuse"}

ASSUME SHMAssumption ==
  /\ Writer \notin Readers /\ NoOne \notin Readers /\ NoOne # Writer
  /\ SwapchainLength \in Nat \ {0}
  /\ Targets \subseteq SUBSET Readers /\ Targets # {}
  /\ Faults \subseteq AllFaults
  /\ MaxFaults \in Nat /\ MaxFrame \in Nat /\ MaxResources \in Nat
  /\ MaxCopies \in Nat

Index == 0 .. SwapchainLength - 1
Resource == 1 .. MaxResources
NoResource == 0
NoHandle == [foreign |-> NoResource, object |-> NoResource]
NoHandles == [i \in Index |-> NoHandle]
NoSwapchain == [i \in Index |-> NoResource]

(* A frame is named by its session and its number in that session.  Session *)
(* ids are random in the code; here the n-th session is called n, so that    *)
(* names also say which frame is newer.  Session 0 is zero-filled memory.    *)
Frame == Nat \X Nat
NoFrame == <<0, 0>>
AtLeast(f, g) == f[1] > g[1] \/ (f[1] = g[1] /\ f[2] >= g[2])

VARIABLES
  header,     \* *mHeader, in shared memory
  mutex,      \* owner of the named mutex
  abandoned,  \* the last owner died without releasing it
  wpc,        \* control state of the feeder
  visible,    \* "shown", "hiding" (mFirstInvisible) or "hidden"
  canvas,     \* mCanvasSize is that of the views
  swapchain,  \* mIPCSwapchain
  created,    \* number of resources created so far
  drawQueue,  \* the feeder's GPU queue: copies into shared textures
  drawing,    \* its head is executing
  content,    \* the frame each resource holds
  fence,      \* the completed value of each resource's fence
  rpc,        \* control state of each reader
  call,       \* locals of each reader's MaybeGet() or MaybeGetMetadata()
  reader,     \* members of each CachedReader and its Reader::Impl
  copyQueue,  \* each reader's GPU queue: copies out of shared textures
  copying,    \* its head is executing
  fault,      \* the assertions and exceptions each reader has run into
  faults      \* faults used up so far

shared  == <<header, mutex, abandoned>>
writer  == <<wpc, visible, canvas, swapchain, created>>
gpu     == <<drawQueue, drawing, content, fence>>
readers == <<rpc, call, reader, fault>>
copies  == <<copyQueue, copying>>
vars == <<shared, writer, gpu, readers, copies, faults>>

EmptyHeader(session) ==
  [session |-> session, frame |-> 0, feeder |-> FALSE, layers |-> FALSE,
   target |-> Readers, res |-> NoResource, ready |-> [i \in Index |-> 0]]

(* Mutant: the header is cleared without a new session id. *)
FreshHeader_SameSession == EmptyHeader(header.session)

(* *mHeader = {}: a new session with nothing published. *)
FreshHeader == EmptyHeader(header.session + 1)

Published == <<header.session, header.frame>>

NewReader ==
  [textures |-> FALSE, session |-> 0, impl |-> 0, handles |-> NoHandles,
   stale |-> {}, key |-> NoFrame, cache |-> NoFrame, state |-> "none"]

NoCall == [texture |-> FALSE, began |-> NoFrame, session |-> 0,
           key |-> NoFrame, slot |-> 0, result |-> NoFrame]

Init ==
  /\ header = EmptyHeader(0)
  /\ mutex = NoOne /\ abandoned = FALSE
  /\ wpc = "off" /\ visible = "shown" /\ canvas = FALSE
  /\ swapchain = NoSwapchain /\ created = 0
  /\ drawQueue = <<>> /\ drawing = FALSE
  /\ content = [x \in Resource |-> NoFrame]
  /\ fence = [x \in Resource |-> 0]
  /\ rpc = [r \in Readers |-> "off"]
  /\ call = [r \in Readers |-> NoCall]
  /\ reader = [r \in Readers |-> NewReader]
  /\ fault = [r \in Readers |-> {}]
  /\ copyQueue = [r \in Readers |-> <<>>]
  /\ copying = [r \in Readers |-> FALSE]
  /\ faults = 0

Fault(kind) == kind \in Faults /\ faults < MaxFaults /\ faults' = faults + 1

(***************************************************************************)
(* The mutex.  The owner after an abandonment resets the header.            *)
(***************************************************************************)
Acquire(p) ==
  /\ mutex = NoOne
  /\ mutex' = p
  /\ abandoned' = FALSE
  /\ header' = IF abandoned THEN FreshHeader ELSE header

(* Mutant: readers return without the unlock. *)
Release_Lost(p) ==
  mutex = p /\ mutex' = (IF p = Writer THEN NoOne ELSE p) /\ UNCHANGED abandoned

Release(p) == mutex = p /\ mutex' = NoOne /\ UNCHANGED abandoned

(* Mutant: the mutex of a dead process is never given up. *)
Abandon_Kept(p) == UNCHANGED <<mutex, abandoned>>

(* The kernel's part when process p dies: an owned mutex is abandoned. *)
Abandon(p) ==
  /\ mutex' = IF mutex = p THEN NoOne ELSE mutex
  /\ abandoned' = (abandoned \/ mutex = p)

(***************************************************************************)
(* The feeder: SHM::Writer driven by InterprocessRenderer.                  *)
(***************************************************************************)

(* The constructor resets the header and does not take the lock. *)
WriterStart ==
  /\ wpc = "off" /\ wpc' = "idle"
  /\ header' = FreshHeader
  /\ visible' = "shown" /\ canvas' = FALSE /\ swapchain' = NoSwapchain
  /\ UNCHANGED <<mutex, abandoned, created, gpu, readers, copies, faults>>

Hide ==
  /\ wpc \in {"idle", "rendering"} /\ visible # "hiding" /\ header.frame < MaxFrame
  /\ visible' = "hiding"
  /\ UNCHANGED <<shared, wpc, canvas, swapchain, created, gpu, readers, copies, faults>>

Show ==
  /\ wpc \in {"idle", "rendering"} /\ visible # "shown" /\ header.frame < MaxFrame
  /\ visible' = "shown"
  /\ UNCHANGED <<shared, wpc, canvas, swapchain, created, gpu, readers, copies, faults>>

(* Mutant: the flag that asks for the empty frame is spent without one. *)
RenderInvisible_NoFrame ==
  /\ wpc = "idle" /\ visible = "hiding"
  /\ visible' = "hidden"
  /\ UNCHANGED <<shared, wpc, canvas, swapchain, created, gpu, readers, copies, faults>>

(* RenderNow() while invisible: one empty frame after each hide. *)
RenderInvisible ==
  /\ wpc = "idle" /\ visible = "hiding"
  /\ visible' = "hidden" /\ wpc' = "lockEmpty"
  /\ UNCHANGED <<shared, canvas, swapchain, created, gpu, readers, copies, faults>>

(* RenderNow() with the canvas it has: the layers are rendered next. *)
RenderVisible ==
  /\ wpc = "idle" /\ visible = "shown" /\ header.frame < MaxFrame
  /\ canvas
  /\ wpc' = "rendering"
  /\ UNCHANGED <<shared, visible, canvas, swapchain, created, gpu, readers, copies, faults>>

(* Mutant: the textures survive the reset of the session. *)
RenderResized_KeepTextures ==
  /\ wpc = "idle" /\ visible = "shown" /\ header.frame < MaxFrame
  /\ IF canvas THEN Fault("resize") ELSE UNCHANGED faults
  /\ canvas' = TRUE
  /\ wpc' = "lockDetach"
  /\ UNCHANGED <<shared, visible, swapchain, created, gpu, readers, copies>>

(* RenderNow() with a new canvas size: InitializeCanvas() drops the shared  *)
(* textures, then waits for the lock to start a new session.                *)
RenderResized ==
  /\ wpc = "idle" /\ visible = "shown" /\ header.frame < MaxFrame
  /\ IF canvas THEN Fault("resize") ELSE UNCHANGED faults
  /\ canvas' = TRUE /\ swapchain' = NoSwapchain
  /\ wpc' = "lockDetach"
  /\ UNCHANGED <<shared, visible, created, gpu, readers, copies>>

Quit ==
  /\ wpc = "idle" /\ Fault("quit")
  /\ wpc' = "lockQuit"
  /\ UNCHANGED <<shared, visible, canvas, swapchain, created, gpu, readers, copies>>

LockedState ==
  [rendering |-> "frame", lockEmpty |-> "empty", lockDetach |-> "detach",
   lockQuit |-> "quit", lockDestroy |-> "destroy"]

WriterLock ==
  /\ wpc \in DOMAIN LockedState
  /\ Acquire(Writer)
  /\ wpc' = LockedState[wpc]
  /\ UNCHANGED <<visible, canvas, swapchain, created, gpu, readers, copies, faults>>

(* Detach() under the lock: in InitializeCanvas(), in ~InterprocessRenderer *)
(* (which drops the textures afterwards) and once more in ~Writer.          *)
Detach ==
  /\ wpc \in {"detach", "quit", "destroy"}
  /\ Release(Writer)
  /\ header' = FreshHeader
  /\ wpc' = [detach |-> "rendering", quit |-> "lockDestroy", destroy |-> "off"][wpc]
  /\ swapchain' = IF wpc = "quit" THEN NoSwapchain ELSE swapchain
  /\ UNCHANGED <<visible, canvas, created, gpu, readers, copies, faults>>

NextSlot == (header.frame + 1) % SwapchainLength

(* SubmitFrame() up to the queued GPU work: BeginFrame() picks the slot and *)
(* its next fence value, GetIPCTextureResources() creates what is missing,  *)
(* and the copy and the signal go to the GPU.                               *)
BeginFrame ==
  /\ wpc = "frame"
  /\ LET slot  == NextSlot
         new   == swapchain[slot] = NoResource
         res   == IF new THEN created + 1 ELSE swapchain[slot]
         value == header.ready[slot] + 1
     IN /\ res \in Resource
        /\ header' = [header EXCEPT !.ready[slot] = value]
        /\ created' = IF new THEN res ELSE created
        /\ swapchain' = [swapchain EXCEPT ![slot] = res]
        /\ drawQueue' = Append(drawQueue,
             [res |-> res, value |-> value,
              frame |-> <<header.session, header.frame + 1>>])
  /\ wpc' = "drawn"
  /\ UNCHANGED <<mutex, abandoned, visible, canvas, drawing, content, fence,
                 readers, copies, faults>>

DrawnTexture == swapchain[NextSlot]

SubmitFrame ==
  /\ wpc = "drawn" /\ wpc' = "idle"
  /\ Release(Writer)
  /\ \E target \in Targets :
       header' = [header EXCEPT !.frame = @ + 1, !.feeder = TRUE, !.layers = TRUE,
                                !.target = target, !.res = DrawnTexture]
  /\ UNCHANGED <<visible, canvas, swapchain, created, gpu, readers, copies, faults>>

(* Mutant: the empty frame leaves the layers of the last one in place. *)
EmptiedHeader_KeepLayers == [header EXCEPT !.frame = @ + 1]

EmptiedHeader == [header EXCEPT !.frame = @ + 1, !.layers = FALSE]

SubmitEmptyFrame ==
  /\ wpc = "empty" /\ wpc' = "idle"
  /\ Release(Writer)
  /\ header' = EmptiedHeader
  /\ UNCHANGED <<visible, canvas, swapchain, created, gpu, readers, copies, faults>>

(* The app dies: its handles are closed and its GPU work is dropped. *)
WriterCrash ==
  /\ wpc # "off" /\ Fault("writerCrash")
  /\ wpc' = "off" /\ swapchain' = NoSwapchain
  /\ Abandon(Writer)
  /\ drawQueue' = <<>> /\ drawing' = FALSE
  /\ UNCHANGED <<header, visible, canvas, created, content, fence, readers, copies>>

(* The feeder's GPU: the copy into the texture, then the fence's signal. *)
DrawStart ==
  /\ drawQueue # <<>> /\ ~drawing
  /\ drawing' = TRUE
  /\ UNCHANGED <<shared, writer, drawQueue, content, fence, readers, copies, faults>>

DrawEnd ==
  /\ drawing
  /\ LET job == Head(drawQueue)
     IN /\ content' = [content EXCEPT ![job.res] = job.frame]
        /\ fence' = [fence EXCEPT ![job.res] = job.value]
  /\ drawQueue' = Tail(drawQueue) /\ drawing' = FALSE
  /\ UNCHANGED <<shared, writer, readers, copies, faults>>

(***************************************************************************)
(* The readers: CachedReader::MaybeGet() and MaybeGetMetadata().  Up to the *)
(* lock they read the header without it, one field at a time.               *)
(***************************************************************************)

Step(r, from, to) == rpc[r] = from /\ rpc' = [rpc EXCEPT ![r] = to]

(* Return frame f to the game, NoFrame standing for a snapshot without      *)
(* metadata (Empty, IncorrectKind, IncorrectGPU).                           *)
Return(r, from, f) ==
  /\ Step(r, from, "idle")
  /\ call' = [call EXCEPT ![r] = [NoCall EXCEPT !.began = call[r].began, !.result = f]]

ReaderStart(r) ==
  /\ Step(r, "off", "idle")
  /\ UNCHANGED <<shared, writer, gpu, call, reader, fault, copies, faults>>

InitializeCache(r) ==
  /\ rpc[r] = "idle"
  /\ reader' = [reader EXCEPT ![r].textures = TRUE, ![r].key = NoFrame,
                              ![r].cache = NoFrame, ![r].state = "none"]
  /\ UNCHANGED <<shared, writer, gpu, rpc, call, fault, copies, faults>>

MaybeGet(r) ==
  /\ reader[r].textures
  /\ Step(r, "idle", "feeder")
  /\ call' = [call EXCEPT ![r] = [NoCall EXCEPT !.texture = TRUE, !.began = Published]]
  /\ UNCHANGED <<shared, writer, gpu, reader, fault, copies, faults>>

MaybeGetMetadata(r) ==
  /\ Step(r, "idle", "feeder")
  /\ call' = [call EXCEPT ![r] = [NoCall EXCEPT !.began = Published]]
  /\ UNCHANGED <<shared, writer, gpu, reader, fault, copies, faults>>

CheckFeeder(r) ==
  /\ IF header.feeder
     THEN Step(r, "feeder", "session") /\ UNCHANGED call
     ELSE Return(r, "feeder", NoFrame)
  /\ UNCHANGED <<shared, writer, gpu, reader, fault, copies, faults>>

ReadSession(r) ==
  /\ Step(r, "session",
          IF header.session = reader[r].session THEN "keySession" ELSE "release")
  /\ call' = [call EXCEPT ![r].session = header.session]
  /\ UNCHANGED <<shared, writer, gpu, reader, fault, copies, faults>>

(* Mutant: slots without a handle are taken for open objects. *)
UpdatedImpl_EmptySlots(rd) ==
  IF rd.impl = header.session THEN rd
  ELSE [rd EXCEPT !.impl = header.session, !.handles = NoHandles,
          !.stale = @ \union {rd.handles[i].object : i \in Index}]

(* Reader::Impl::UpdateSession(): the duplicated handles are closed, but    *)
(* not the D3D objects that were opened through them and are looked up by   *)
(* the handle's number.                                                     *)
UpdatedImpl(rd) ==
  IF rd.impl = header.session THEN rd
  ELSE [rd EXCEPT !.impl = header.session, !.handles = NoHandles,
          !.stale = (@ \union {rd.handles[i].object : i \in Index}) \ {NoResource}]

(* ReleaseIPCHandles(): forget the D3D objects. *)
Released(rd) ==
  [rd EXCEPT !.stale = {},
     !.handles = [i \in Index |-> [foreign |-> rd.handles[i].foreign,
                                   object  |-> rd.handles[i].foreign]]]

(* CachedReader::UpdateSession() once the pending copies are done. *)
UpdateSession(r) ==
  /\ copyQueue[r] = <<>>
  /\ Step(r, "release", "keySession")
  /\ reader' = [reader EXCEPT ![r] =
       [UpdatedImpl(Released(reader[r])) EXCEPT !.session = call[r].session]]
  /\ UNCHANGED <<shared, writer, gpu, call, fault, copies, faults>>

ReadKeySession(r) ==
  /\ Step(r, "keySession", "keyFrame")
  /\ call' = [call EXCEPT ![r].key = <<header.session, 0>>]
  /\ UNCHANGED <<shared, writer, gpu, reader, fault, copies, faults>>

(* Mutant: the cache is looked up by session only. *)
Hit_AnyFrame(r, key) ==
  /\ key[1] = reader[r].key[1]
  /\ IF call[r].texture THEN reader[r].state = "texture" ELSE reader[r].state # "none"

(* May the call return the cached snapshot, whose key is the current one? *)
Hit(r, key) ==
  /\ key = reader[r].key
  /\ IF call[r].texture THEN reader[r].state = "texture" ELSE reader[r].state # "none"

(* The second half of the key, and the look-up.  MaybeGetMetadata() goes on *)
(* as MaybeGet() once there are textures to fill.                           *)
LookUp(r) ==
  LET key == <<call[r].key[1], header.frame>>
      restart == reader[r].textures /\ ~call[r].texture
  IN /\ rpc[r] = "keyFrame"
     /\ \/ Hit(r, key) /\ Return(r, "keyFrame", reader[r].cache)
        \/ /\ ~Hit(r, key)
           /\ Step(r, "keyFrame", IF restart THEN "feeder" ELSE "lock")
           /\ call' = [call EXCEPT ![r].key = key, ![r].texture = reader[r].textures]
     /\ UNCHANGED <<shared, writer, gpu, reader, fault, copies, faults>>

ReaderLock(r) ==
  /\ Step(r, "lock", IF call[r].texture THEN "locked" ELSE "uncached")
  /\ Len(copyQueue[r]) < MaxCopies
  /\ Acquire(r)
  /\ UNCHANGED <<writer, gpu, call, reader, fault, copies, faults>>

(* MaybeGet() with the lock: nothing to copy if there are no layers. *)
CheckLayers(r) ==
  /\ rpc[r] = "locked"
  /\ IF header.layers
     THEN Step(r, "locked", "uncached") /\ UNCHANGED <<call, mutex, abandoned>>
     ELSE /\ Return(r, "locked", IF header.feeder THEN Published ELSE NoFrame)
          /\ Release(r)
  /\ UNCHANGED <<header, writer, gpu, reader, fault, copies, faults>>

(* The cache after a call that found frame f: the key was read before the   *)
(* lock was taken, the frame after.                                         *)
Cached(rd, r, f, state) ==
  [rd EXCEPT !.key = call[r].key, !.cache = f, !.state = state]

(* MaybeGetUncached() of a consumer the header's target pattern excludes. *)
IncorrectKind(r) ==
  /\ r \notin header.target
  /\ Return(r, "uncached", NoFrame)
  /\ Release(r)
  /\ reader' = [reader EXCEPT ![r] =
       IF call[r].texture THEN Cached(@, r, NoFrame, "invalid") ELSE @]
  /\ UNCHANGED <<header, writer, gpu, fault, copies, faults>>

(* MaybeGetUncached() without a texture to fill. *)
TakeMetadata(r) ==
  /\ r \in header.target /\ ~call[r].texture
  /\ Return(r, "uncached", IF header.feeder THEN Published ELSE NoFrame)
  /\ Release(r)
  /\ reader' = [reader EXCEPT ![r] =
       IF header.feeder THEN Cached(UpdatedImpl(@), r, Published, "metadata")
       ELSE UpdatedImpl(@)]
  /\ UNCHANGED <<header, writer, gpu, fault, copies, faults>>

(* MaybeGetUncached() of a header whose GPU is not the reader's.  Readers   *)
(* run on the feeder's GPU: this is a header nothing was submitted to.      *)
IncorrectGPU(r) ==
  /\ r \in header.target /\ call[r].texture /\ ~header.feeder
  /\ Return(r, "uncached", NoFrame)
  /\ Release(r)
  /\ reader' = [reader EXCEPT ![r] = Cached(UpdatedImpl(@), r, NoFrame, "invalid")]
  /\ UNCHANGED <<header, writer, gpu, fault, copies, faults>>

ThisSlot == header.frame % SwapchainLength

(* MaybeGetUncached() once kind and GPU match. *)
MatchSession(r) ==
  /\ r \in header.target /\ call[r].texture /\ header.feeder
  /\ Step(r, "uncached", "handles")
  /\ reader' = [reader EXCEPT ![r] = UpdatedImpl(@)]
  /\ UNCHANGED <<shared, writer, gpu, call, fault, copies, faults>>

(* The D3D objects a reader may get for the header's resource: a handle can *)
(* be duplicated to the number of one that was closed, and the object that  *)
(* was opened under that number is then found instead.                      *)
Objects(r) ==
  {header.res} \union (IF "handleReuse" \in Faults THEN reader[r].stale ELSE {})

(* MaybeGetUncached() finds or duplicates the handles of the frame's slot.  *)
(* Duplicating a handle the feeder does not have open throws, and unwinding *)
(* releases the lock.                                                       *)
FindHandles(r) ==
  LET handles   == reader[r].handles[ThisSlot]
      replace   == handles # NoHandle /\ handles.foreign # header.res
      duplicate == handles = NoHandle \/ replace
      open      == \E i \in Index : swapchain[i] = header.res /\ header.res # NoResource
      broken    == (IF replace THEN {"handlesReplaced"} ELSE {}) \union
                   (IF duplicate /\ ~open THEN {"duplicateFailed"} ELSE {})
  IN /\ Step(r, "handles", IF duplicate /\ ~open THEN "dead" ELSE "copy")
     /\ fault' = [fault EXCEPT ![r] = @ \union broken]
     /\ call' = [call EXCEPT ![r].slot = ThisSlot]
     /\ IF duplicate /\ ~open
        THEN Release(r) /\ UNCHANGED reader
        ELSE /\ UNCHANGED <<mutex, abandoned>>
             /\ IF duplicate
                THEN \E object \in Objects(r) :
                       reader' = [reader EXCEPT ![r].handles[ThisSlot] =
                                   [foreign |-> header.res, object |-> object]]
                ELSE UNCHANGED reader
     /\ UNCHANGED <<header, writer, gpu, copies, faults>>

(* Snapshot's constructor, and MaybeGet() up to its return: the copy is     *)
(* queued behind the frame's fence value and the snapshot becomes the cache.*)
TakeSnapshot(r) ==
  /\ rpc[r] = "copy"
  /\ LET rd == reader[r]
         handles == rd.handles[call[r].slot]
     IN /\ copyQueue' = [copyQueue EXCEPT ![r] = Append(@,
             [res |-> handles.object, value |-> header.ready[ThisSlot],
              frame |-> Published, named |-> handles.foreign])]
        /\ IF header.feeder
           THEN /\ Return(r, "copy", Published)
                /\ reader' = [reader EXCEPT ![r] = Cached(@, r, Published, "texture")]
                /\ UNCHANGED fault
           ELSE /\ Return(r, "copy", rd.cache)
                /\ fault' = [fault EXCEPT ![r] =
                     IF rd.state = "none" THEN @ \union {"emptyCache"} ELSE @]
                /\ UNCHANGED reader
        /\ Release(r)
  /\ UNCHANGED <<header, writer, gpu, copying, faults>>

ReaderCrash(r) ==
  /\ rpc[r] \notin {"off", "dead"} /\ Fault("readerCrash")
  /\ rpc' = [rpc EXCEPT ![r] = "dead"]
  /\ Abandon(r)
  /\ copyQueue' = [copyQueue EXCEPT ![r] = <<>>]
  /\ copying' = [copying EXCEPT ![r] = FALSE]
  /\ UNCHANGED <<header, writer, gpu, call, reader, fault>>

(* Mutant: the copy is not queued behind the frame's fence. *)
FenceReached_Always(copy) == TRUE

FenceReached(copy) == fence[copy.res] >= copy.value

(* The reader's GPU waits for the fence, then copies. *)
CopyStart(r) ==
  /\ copyQueue[r] # <<>> /\ ~copying[r]
  /\ FenceReached(Head(copyQueue[r]))
  /\ copying' = [copying EXCEPT ![r] = TRUE]
  /\ UNCHANGED <<shared, writer, gpu, readers, copyQueue, faults>>

CopyEnd(r) ==
  /\ copying[r]
  /\ copyQueue' = [copyQueue EXCEPT ![r] = Tail(@)]
  /\ copying' = [copying EXCEPT ![r] = FALSE]
  /\ UNCHANGED <<shared, writer, gpu, readers, faults>>

-------------------------------------------------------------------------------
FeederStep == WriterLock \/ Detach \/ BeginFrame \/ SubmitFrame \/ SubmitEmptyFrame

ReaderStep(r) ==
  \/ CheckFeeder(r) \/ ReadSession(r) \/ UpdateSession(r)
  \/ ReadKeySession(r) \/ LookUp(r) \/ ReaderLock(r) \/ CheckLayers(r)
  \/ IncorrectKind(r) \/ TakeMetadata(r) \/ IncorrectGPU(r)
  \/ MatchSession(r) \/ FindHandles(r) \/ TakeSnapshot(r)

GPUStep == DrawStart \/ DrawEnd \/ \E r \in Readers : CopyStart(r) \/ CopyEnd(r)

Next ==
  \/ WriterStart \/ Hide \/ Show \/ RenderInvisible \/ RenderVisible
  \/ RenderResized \/ Quit \/ FeederStep \/ WriterCrash
  \/ GPUStep
  \/ \E r \in Readers : \/ ReaderStart(r) \/ InitializeCache(r)
                        \/ MaybeGet(r) \/ MaybeGetMetadata(r)
                        \/ ReaderStep(r) \/ ReaderCrash(r)

Spec == Init /\ [][Next]_vars

(* The frame timer keeps ticking, games finish the calls they make, GPUs    *)
(* finish their work, and the kernel queues the waiters of a mutex, so that *)
(* no one waits for ever while others take turns.                           *)
Fairness ==
  /\ WF_vars(RenderInvisible)
  /\ SF_vars(WriterLock) /\ WF_vars(FeederStep) /\ WF_vars(DrawStart) /\ WF_vars(DrawEnd)
  /\ \A r \in Readers :
       /\ SF_vars(ReaderLock(r)) /\ WF_vars(ReaderStep(r))
       /\ WF_vars(CopyStart(r)) /\ WF_vars(CopyEnd(r))

FairSpec == Spec /\ Fairness

-------------------------------------------------------------------------------
MaybeResource == Resource \union {NoResource}
Header == [session : Nat, frame : Nat, feeder : BOOLEAN, layers : BOOLEAN,
           target : SUBSET Readers, res : MaybeResource, ready : [Index -> Nat]]
Job == [res : Resource, value : Nat, frame : Frame]
Copy == [res : MaybeResource, value : Nat, frame : Frame, named : MaybeResource]
Call == [texture : BOOLEAN, began : Frame, session : Nat, key : Frame, slot : Index,
         result : Frame]
Handle == [foreign : MaybeResource, object : MaybeResource]
Reader == [textures : BOOLEAN, session : Nat, impl : Nat, handles : [Index -> Handle],
           stale : SUBSET Resource, key : Frame, cache : Frame,
           state : {"none", "invalid", "metadata", "texture"}]

SharedOK ==
  /\ header \in Header
  /\ mutex \in Readers \union {Writer, NoOne} /\ abandoned \in BOOLEAN
WriterOK ==
  /\ wpc \in {"off", "idle", "rendering", "frame", "drawn", "lockEmpty", "empty",
              "lockDetach", "detach", "lockQuit", "quit", "lockDestroy", "destroy"}
  /\ visible \in {"shown", "hiding", "hidden"} /\ canvas \in BOOLEAN
  /\ swapchain \in [Index -> MaybeResource]
  /\ created \in MaybeResource
GPUOK ==
  /\ drawQueue \in Seq(Job) /\ drawing \in BOOLEAN
  /\ drawing => drawQueue # <<>>
  /\ content \in [Resource -> Frame] /\ fence \in [Resource -> Nat]
ReadersOK ==
  /\ rpc \in [Readers -> {"off", "idle", "feeder", "session", "release", "keySession",
                          "keyFrame", "lock", "locked", "uncached", "handles", "copy", "dead"}]
  /\ call \in [Readers -> Call]
  /\ reader \in [Readers -> Reader]
  /\ fault \in [Readers -> SUBSET {"handlesReplaced", "duplicateFailed", "emptyCache"}]
CopiesOK ==
  /\ copyQueue \in [Readers -> Seq(Copy)] /\ copying \in [Readers -> BOOLEAN]
  /\ \A r \in Readers : copying[r] => copyQueue[r] # <<>>

(* Every variable has its type, the control states of feeder and readers    *)
(* are those of InterprocessRenderer and CachedReader, and a GPU that is    *)
(* busy has something in its queue.                                         *)
TypeOK ==
  SharedOK /\ WriterOK /\ GPUOK /\ ReadersOK /\ CopiesOK /\ faults \in Nat

(* The lock protects the frame: whoever is past lock() and before unlock()  *)
(* owns the mutex, and nobody else does, whichever processes have died.     *)
WriterLocked == wpc \in {"frame", "drawn", "empty", "detach", "quit", "destroy"}
ReaderLocked(r) == rpc[r] \in {"locked", "uncached", "handles", "copy"}
LockDiscipline ==
  /\ WriterLocked <=> mutex = Writer
  /\ \A r \in Readers : ReaderLocked(r) <=> mutex = r
  /\ mutex # NoOne => ~abandoned

(* A header with layers names the texture of its frame number's slot: after *)
(* any number of empty frames, hides, resets and restarts, the texture the  *)
(* readers look up by frame number is the one the frame was drawn to.       *)
SwapchainDropped == wpc \in {"off", "lockDetach", "detach"}
HeaderNamesSlot ==
  header.layers =>
    /\ header.feeder /\ header.res # NoResource
    /\ SwapchainDropped \/ swapchain[ThisSlot] = header.res

(* A published fence value is reached only once its texture holds the       *)
(* published frame or a newer one.                                          *)
FrameReady ==
  header.layers /\ fence[header.res] >= header.ready[ThisSlot] =>
    AtLeast(content[header.res], Published)

(* A reader's GPU never copies a texture that holds an older frame than the *)
(* one the snapshot's metadata describes.  A snapshot of a header that was   *)
(* reset under the reader describes no frame and is not given to the game;  *)
(* a reader that finds the D3D object of another handle (CleanStart) copies *)
(* another texture than the metadata names.                                 *)
FencedRead ==
  \A r \in Readers : copying[r] =>
    LET copy == Head(copyQueue[r])
    IN  copy.frame[2] > 0 /\ copy.res = copy.named => AtLeast(content[copy.res], copy.frame)

(* A snapshot is never older than the frame that was published when the     *)
(* game asked for it, unless the session was reset meanwhile, although the  *)
(* cache is searched without the lock, with a key read in two halves, and   *)
(* filled under a key that was read before the lock.                        *)
Fresh ==
  \A r \in Readers :
    /\ rpc[r] = "idle" /\ call[r].result # NoFrame
    /\ header.session = call[r].began[1]
    => AtLeast(call[r].result, call[r].began)

(* Published frames never go backwards, even through resets and restarts. *)
FramesAdvance == [][AtLeast(Published', Published)]_header

(* "As we lock the entire SHM segment before touching the texture,          *)
(* buffering isn't needed" (config.in.hpp): the feeder's GPU never writes a  *)
(* texture while a reader's GPU reads it.                                   *)
NoTextureRace ==
  \A r \in Readers : copying[r] /\ drawing =>
    Head(drawQueue).res # Head(copyQueue[r]).res

(* "Let's force a clean start on the clients, including resetting the       *)
(* session ID" (InterprocessRenderer.cpp): after a reset the readers use    *)
(* the textures the new header names and nothing left from before it.       *)
CleanStart ==
  \A r \in Readers : \A i \in 1 .. Len(copyQueue[r]) :
    copyQueue[r][i].res = copyQueue[r][i].named

(* "Impl::UpdateSession() should have nuked the whole lot" (SHM.cpp 680): a *)
(* reader never finds handles of another texture within one session, and    *)
(* never falls back to a cache that is empty.                               *)
HandlesFollowSession == \A r \in Readers : fault[r] \subseteq {"duplicateFailed"}

(* A call into the reader returns: neither the lock nor the wait for copies *)
(* whose fences the feeder has yet to signal holds up a game for ever.      *)
CallsReturn ==
  \A r \in Readers : rpc[r] = "feeder" ~> rpc[r] \in {"idle", "dead"}

(* A hide reaches the readers unless it is taken back: an empty frame       *)
(* replaces the last one that was rendered.                                 *)
HideTakesEffect == visible = "hiding" ~> (visible = "shown" \/ ~header.layers)

===============================================================================
