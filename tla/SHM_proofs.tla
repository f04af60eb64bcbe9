------------------------------- MODULE SHM_proofs -------------------------------
(***************************************************************************)
(* The safety of the frame feed for any number of readers, any length of    *)
(* the swapchain and any of the faults.                                     *)
(***************************************************************************)
EXTENDS SHM, TLAPS

USE SHMAssumption

(* What the operators on headers and readers return. *)

LEMMA NoFrameType == NoFrame \in Frame /\ NoHandle \in Handle /\ NoCall \in Call
<1>1. NoFrame \in Frame BY DEF NoFrame, Frame
<1>2. NoHandle \in Handle BY DEF NoHandle, Handle, MaybeResource, NoResource
<1>3. 0 \in Index BY DEF Index
<1> QED BY <1>1, <1>2, <1>3 DEF NoCall, Call

LEMMA NoHandlesType == NoHandles \in [Index -> Handle]
BY NoFrameType DEF NoHandles

LEMMA EmptyHeaderType ==
  ASSUME NEW session \in Nat
  PROVE  EmptyHeader(session) \in Header
BY DEF EmptyHeader, Header, MaybeResource, NoResource

LEMMA PublishedType ==
  ASSUME header \in Header
  PROVE  Published \in Frame
BY DEF Published, Frame, Header

LEMMA SlotType ==
  ASSUME header \in Header
  PROVE  ThisSlot \in Index /\ NextSlot \in Index
BY DEF ThisSlot, NextSlot, Index, Header

LEMMA NewReaderType == NewReader \in Reader
BY NoFrameType, NoHandlesType DEF NewReader, Reader

LEMMA UpdatedImplType ==
  ASSUME header \in Header, NEW rd \in Reader
  PROVE  UpdatedImpl(rd) \in Reader
<1>1. (rd.stale \union {rd.handles[i].object : i \in Index}) \ {NoResource}
        \in SUBSET Resource
  BY DEF Reader, Handle, MaybeResource
<1>2. header.session \in Nat BY DEF Header
<1> QED BY <1>1, <1>2, NoHandlesType DEF UpdatedImpl, Reader

LEMMA ReleasedType ==
  ASSUME NEW rd \in Reader
  PROVE  Released(rd) \in Reader
<1>1. [i \in Index |-> [foreign |-> rd.handles[i].foreign,
                        object  |-> rd.handles[i].foreign]] \in [Index -> Handle]
  BY DEF Reader, Handle
<1>2. {} \in SUBSET Resource OBVIOUS
<1> QED BY <1>1, <1>2 DEF Released, Reader

LEMMA CachedType ==
  ASSUME call \in [Readers -> Call], NEW r \in Readers, NEW rd \in Reader,
         NEW f \in Frame, NEW state \in {"none", "invalid", "metadata", "texture"}
  PROVE  Cached(rd, r, f, state) \in Reader
BY DEF Cached, Reader, Call

LEMMA AppendType ==
  ASSUME NEW S, NEW q \in Seq(S), NEW e \in S
  PROVE  Append(q, e) \in Seq(S) /\ Append(q, e) # <<>>
OBVIOUS

LEMMA ReturnType ==
  ASSUME TypeOK, NEW r \in Readers, NEW from, NEW f \in Frame, Return(r, from, f)
  PROVE  /\ rpc' = [rpc EXCEPT ![r] = "idle"] /\ rpc[r] = from
         /\ call' \in [Readers -> Call]
<1>1. [NoCall EXCEPT !.began = call[r].began, !.result = f] \in Call
  BY NoFrameType DEF TypeOK, ReadersOK, Call
<1> QED BY <1>1 DEF Return, Step, TypeOK, ReadersOK

-------------------------------------------------------------------------------
LEMMA InitType == Init => TypeOK
<1> SUFFICES ASSUME Init PROVE TypeOK OBVIOUS
<1>1. SharedOK
  <2>1. header \in Header BY EmptyHeaderType DEF Init
  <2> QED BY <2>1 DEF Init, SharedOK
<1>2. WriterOK
  <2>1. swapchain \in [Index -> MaybeResource]
    BY DEF Init, NoSwapchain, MaybeResource
  <2>2. created \in MaybeResource BY DEF Init, MaybeResource, NoResource
  <2> QED BY <2>1, <2>2 DEF Init, WriterOK
<1>3. GPUOK
  <2>1. content \in [Resource -> Frame] BY NoFrameType DEF Init
  <2>2. drawQueue \in Seq(Job) /\ fence \in [Resource -> Nat] BY DEF Init
  <2>3. drawing = FALSE BY DEF Init
  <2> QED BY <2>1, <2>2, <2>3 DEF GPUOK
<1>4. ReadersOK
  <2>1. call \in [Readers -> Call] /\ reader \in [Readers -> Reader]
    BY NoFrameType, NewReaderType DEF Init
  <2> QED BY <2>1 DEF Init, ReadersOK
<1>5. CopiesOK BY DEF Init, CopiesOK
<1> QED BY <1>1, <1>2, <1>3, <1>4, <1>5 DEF Init, TypeOK

LEMMA UnchangedType ==
  ASSUME TypeOK
  PROVE  /\ UNCHANGED shared => SharedOK'
         /\ UNCHANGED writer => WriterOK'
         /\ UNCHANGED gpu => GPUOK'
         /\ UNCHANGED readers => ReadersOK'
         /\ UNCHANGED copies => CopiesOK'
BY DEF TypeOK, shared, SharedOK, writer, WriterOK, gpu, GPUOK, readers, ReadersOK,
       copies, CopiesOK

LEMMA FreshHeaderType ==
  ASSUME TypeOK
  PROVE  FreshHeader \in Header
<1>1. header.session + 1 \in Nat BY DEF TypeOK, SharedOK, Header
<1> QED BY <1>1, EmptyHeaderType DEF FreshHeader

LEMMA AcquireType ==
  ASSUME TypeOK, NEW p \in Readers \union {Writer}, Acquire(p)
  PROVE  SharedOK'
BY FreshHeaderType DEF Acquire, TypeOK, SharedOK

LEMMA ReleaseType ==
  ASSUME TypeOK, NEW p, Release(p)
  PROVE  mutex' \in Readers \union {Writer, NoOne} /\ abandoned' \in BOOLEAN
BY DEF Release, TypeOK, SharedOK

LEMMA AbandonType ==
  ASSUME TypeOK, NEW p, Abandon(p)
  PROVE  mutex' \in Readers \union {Writer, NoOne} /\ abandoned' \in BOOLEAN
BY DEF Abandon, TypeOK, SharedOK

LEMMA FaultType ==
  ASSUME TypeOK, NEW kind, Fault(kind)
  PROVE  faults' \in Nat
BY DEF Fault, TypeOK

-------------------------------------------------------------------------------
(* The feeder's steps keep the types. *)

LEMMA WriterType ==
  ASSUME TypeOK,
         \/ WriterStart \/ Hide \/ Show \/ RenderInvisible \/ RenderVisible
         \/ RenderResized \/ Quit \/ FeederStep \/ WriterCrash
  PROVE  TypeOK'
<1>1. CASE WriterStart
  <2>1. SharedOK' BY <1>1, FreshHeaderType DEF WriterStart, TypeOK, SharedOK
  <2>2. WriterOK'
    BY <1>1 DEF WriterStart, TypeOK, WriterOK, NoSwapchain, MaybeResource
  <2> QED BY <1>1, <2>1, <2>2, UnchangedType DEF WriterStart, TypeOK
<1>2. CASE Hide \/ Show \/ RenderInvisible \/ RenderVisible
  <2>1. WriterOK'
    BY <1>2 DEF Hide, Show, RenderInvisible, RenderVisible, TypeOK, WriterOK
  <2> QED
    BY <1>2, <2>1, UnchangedType DEF Hide, Show, RenderInvisible, RenderVisible, TypeOK
<1>3. CASE RenderResized
  <2>1. WriterOK'
    BY <1>3 DEF RenderResized, TypeOK, WriterOK, NoSwapchain, MaybeResource
  <2>2. faults' \in Nat BY <1>3, FaultType DEF RenderResized, TypeOK
  <2> QED BY <1>3, <2>1, <2>2, UnchangedType DEF RenderResized, TypeOK
<1>4. CASE Quit
  <2>1. WriterOK' BY <1>4 DEF Quit, TypeOK, WriterOK
  <2>2. faults' \in Nat BY <1>4, FaultType DEF Quit
  <2> QED BY <1>4, <2>1, <2>2, UnchangedType DEF Quit, TypeOK
<1>5. CASE WriterLock
  <2>1. SharedOK' BY <1>5, AcquireType DEF WriterLock
  <2>2. WriterOK' BY <1>5 DEF WriterLock, LockedState, TypeOK, WriterOK
  <2> QED BY <1>5, <2>1, <2>2, UnchangedType DEF WriterLock, TypeOK
<1>6. CASE Detach
  <2>1. SharedOK' BY <1>6, FreshHeaderType, ReleaseType DEF Detach, SharedOK
  <2>2. WriterOK' BY <1>6 DEF Detach, TypeOK, WriterOK, NoSwapchain, MaybeResource
  <2> QED BY <1>6, <2>1, <2>2, UnchangedType DEF Detach, TypeOK
<1>7. CASE BeginFrame
  <2> DEFINE slot  == NextSlot
             new   == swapchain[slot] = NoResource
             res   == IF new THEN created + 1 ELSE swapchain[slot]
             value == header.ready[slot] + 1
             job   == [res |-> res, value |-> value,
                       frame |-> <<header.session, header.frame + 1>>]
  <2>1. slot \in Index /\ value \in Nat /\ res \in Resource
    BY <1>7, SlotType DEF BeginFrame, TypeOK, SharedOK, Header
  <2>2. job \in Job BY <2>1 DEF Job, Frame, TypeOK, SharedOK, Header
  <2>3. SharedOK'
    <3>1. [header EXCEPT !.ready[slot] = value] \in Header
      BY <2>1 DEF TypeOK, SharedOK, Header
    <3> QED BY <1>7, <3>1 DEF BeginFrame, TypeOK, SharedOK
  <2>4. WriterOK' BY <1>7, <2>1 DEF BeginFrame, TypeOK, WriterOK, MaybeResource
  <2>5. GPUOK'
    <3>1. Append(drawQueue, job) \in Seq(Job) /\ Append(drawQueue, job) # <<>>
      BY <2>2 DEF TypeOK, GPUOK
    <3> QED BY <1>7, <3>1 DEF BeginFrame, TypeOK, GPUOK
  <2> QED BY <1>7, <2>3, <2>4, <2>5, UnchangedType DEF BeginFrame, TypeOK
<1>8. CASE SubmitFrame
  <2>1. SharedOK'
    <3>1. PICK target \in Targets :
            header' = [header EXCEPT !.frame = @ + 1, !.feeder = TRUE, !.layers = TRUE,
                                     !.target = target, !.res = DrawnTexture]
      BY <1>8 DEF SubmitFrame
    <3>2. DrawnTexture \in MaybeResource /\ target \in SUBSET Readers
      BY SlotType DEF DrawnTexture, TypeOK, WriterOK, SharedOK
    <3>3. header.frame + 1 \in Nat BY DEF TypeOK, SharedOK, Header
    <3>4. header' \in Header BY <3>1, <3>2, <3>3 DEF TypeOK, SharedOK, Header
    <3> QED BY <1>8, <3>4, ReleaseType DEF SubmitFrame, SharedOK
  <2>2. WriterOK' BY <1>8 DEF SubmitFrame, TypeOK, WriterOK
  <2> QED BY <1>8, <2>1, <2>2, UnchangedType DEF SubmitFrame, TypeOK
<1>9. CASE SubmitEmptyFrame
  <2>1. SharedOK'
    <3>1. header.frame + 1 \in Nat BY DEF TypeOK, SharedOK, Header
    <3>2. EmptiedHeader \in Header
      BY <3>1 DEF EmptiedHeader, TypeOK, SharedOK, Header
    <3> QED BY <1>9, <3>2, ReleaseType DEF SubmitEmptyFrame, SharedOK
  <2>2. WriterOK' BY <1>9 DEF SubmitEmptyFrame, TypeOK, WriterOK
  <2> QED BY <1>9, <2>1, <2>2, UnchangedType DEF SubmitEmptyFrame, TypeOK
<1>10. CASE WriterCrash
  <2>1. SharedOK' BY <1>10, AbandonType DEF WriterCrash, TypeOK, SharedOK
  <2>2. WriterOK'
    BY <1>10 DEF WriterCrash, TypeOK, WriterOK, NoSwapchain, MaybeResource
  <2>3. GPUOK'
    <3>1. drawQueue' \in Seq(Job) BY <1>10 DEF WriterCrash
    <3>2. drawing' = FALSE BY <1>10 DEF WriterCrash
    <3>3. content' \in [Resource -> Frame] /\ fence' \in [Resource -> Nat]
      BY <1>10 DEF WriterCrash, TypeOK, GPUOK
    <3> QED BY <3>1, <3>2, <3>3 DEF GPUOK
  <2>4. faults' \in Nat BY <1>10, FaultType DEF WriterCrash
  <2> QED BY <1>10, <2>1, <2>2, <2>3, <2>4, UnchangedType DEF WriterCrash, TypeOK
<1> QED
  BY <1>1, <1>2, <1>3, <1>4, <1>5, <1>6, <1>7, <1>8, <1>9, <1>10 DEF FeederStep

-------------------------------------------------------------------------------
(* The steps of the GPUs keep the types. *)

LEMMA GPUType ==
  ASSUME TypeOK, GPUStep
  PROVE  TypeOK'
<1>1. CASE DrawStart
  <2>1. GPUOK' BY <1>1 DEF DrawStart, TypeOK, GPUOK
  <2> QED BY <1>1, <2>1, UnchangedType DEF DrawStart, TypeOK
<1>2. CASE DrawEnd
  <2>1. drawQueue # <<>> BY <1>2 DEF DrawEnd, TypeOK, GPUOK
  <2>2. Head(drawQueue) \in Job /\ Tail(drawQueue) \in Seq(Job)
    BY <2>1 DEF TypeOK, GPUOK
  <2>3. content' \in [Resource -> Frame] /\ fence' \in [Resource -> Nat]
    BY <1>2, <2>2 DEF DrawEnd, TypeOK, GPUOK, Job
  <2>4. drawQueue' \in Seq(Job) /\ drawing' = FALSE BY <1>2, <2>2 DEF DrawEnd
  <2>5. GPUOK' BY <2>3, <2>4 DEF GPUOK
  <2> QED BY <1>2, <2>5, UnchangedType DEF DrawEnd, TypeOK
<1>3. ASSUME NEW r \in Readers, CopyStart(r)
      PROVE  TypeOK'
  <2>1. CopiesOK' BY <1>3 DEF CopyStart, TypeOK, CopiesOK
  <2> QED BY <1>3, <2>1, UnchangedType DEF CopyStart, TypeOK
<1>4. ASSUME NEW r \in Readers, CopyEnd(r)
      PROVE  TypeOK'
  <2>1. copyQueue[r] # <<>> BY <1>4 DEF CopyEnd, TypeOK, CopiesOK
  <2>2. Tail(copyQueue[r]) \in Seq(Copy) BY <2>1 DEF TypeOK, CopiesOK
  <2>3. copyQueue' \in [Readers -> Seq(Copy)] BY <1>4, <2>2 DEF CopyEnd, TypeOK, CopiesOK
  <2>4. /\ copying' \in [Readers -> BOOLEAN]
        /\ \A s \in Readers : copying'[s] => s # r /\ copying[s]
    BY <1>4 DEF CopyEnd, TypeOK, CopiesOK
  <2>5. \A s \in Readers \ {r} : copyQueue'[s] = copyQueue[s]
    BY <1>4 DEF CopyEnd, TypeOK, CopiesOK
  <2>6. CopiesOK' BY <2>3, <2>4, <2>5 DEF TypeOK, CopiesOK
  <2> QED BY <1>4, <2>6, UnchangedType DEF CopyEnd, TypeOK
<1> QED BY <1>1, <1>2, <1>3, <1>4 DEF GPUStep

-------------------------------------------------------------------------------
(* The readers' steps keep the types. *)

(* A step of a reader that stays in its call. *)
LEMMA StepType ==
  ASSUME TypeOK, NEW r \in Readers, NEW from,
         NEW to \in {"off", "idle", "feeder", "session", "release", "keySession",
                     "keyFrame", "lock", "locked", "uncached", "handles", "copy", "dead"},
         Step(r, from, to), call' \in [Readers -> Call], reader' \in [Readers -> Reader],
         UNCHANGED fault
  PROVE  ReadersOK'
BY DEF Step, TypeOK, ReadersOK

(* A step of a reader that returns to the game. *)
LEMMA ReturnStepType ==
  ASSUME TypeOK, NEW r \in Readers, NEW from, NEW f \in Frame,
         Return(r, from, f), reader' \in [Readers -> Reader], UNCHANGED fault
  PROVE  ReadersOK'
BY ReturnType DEF TypeOK, ReadersOK

LEMMA UnlockedType ==
  ASSUME TypeOK, NEW r \in Readers,
         \/ ReaderStart(r) \/ InitializeCache(r) \/ MaybeGet(r) \/ MaybeGetMetadata(r)
         \/ CheckFeeder(r) \/ ReadSession(r) \/ UpdateSession(r) \/ ReadKeySession(r)
         \/ LookUp(r)
  PROVE  TypeOK'
<1>0. /\ call \in [Readers -> Call] /\ reader \in [Readers -> Reader]
      /\ call[r] \in Call /\ reader[r] \in Reader /\ header \in Header
  BY DEF TypeOK, ReadersOK, SharedOK
<1>1. CASE ReaderStart(r)
  <2>1. ReadersOK' BY <1>1, <1>0, StepType DEF ReaderStart
  <2> QED BY <1>1, <2>1, UnchangedType DEF ReaderStart, TypeOK
<1>2. CASE InitializeCache(r)
  <2>1. [reader[r] EXCEPT !.textures = TRUE, !.key = NoFrame, !.cache = NoFrame,
                          !.state = "none"] \in Reader
    BY <1>0, NoFrameType DEF Reader
  <2>2. reader' \in [Readers -> Reader] BY <1>2, <1>0, <2>1 DEF InitializeCache
  <2>3. ReadersOK' BY <1>2, <2>2 DEF InitializeCache, TypeOK, ReadersOK
  <2> QED BY <1>2, <2>3, UnchangedType DEF InitializeCache, TypeOK
<1>3. CASE MaybeGet(r) \/ MaybeGetMetadata(r)
  <2>1. /\ [NoCall EXCEPT !.texture = TRUE, !.began = Published] \in Call
        /\ [NoCall EXCEPT !.began = Published] \in Call
    BY <1>0, NoFrameType, PublishedType DEF Call
  <2>2. call' \in [Readers -> Call]
    BY <1>3, <1>0, <2>1 DEF MaybeGet, MaybeGetMetadata
  <2>3. ReadersOK' BY <1>3, <1>0, <2>2, StepType DEF MaybeGet, MaybeGetMetadata
  <2> QED BY <1>3, <2>3, UnchangedType DEF MaybeGet, MaybeGetMetadata, TypeOK
<1>4. CASE CheckFeeder(r)
  <2>1. CASE header.feeder
    BY <1>4, <1>0, <2>1, StepType, UnchangedType DEF CheckFeeder, TypeOK
  <2>2. CASE ~header.feeder
    BY <1>4, <1>0, <2>2, NoFrameType, ReturnStepType, UnchangedType DEF CheckFeeder, TypeOK
  <2> QED BY <2>1, <2>2
<1>5. CASE ReadSession(r)
  <2>1. [call[r] EXCEPT !.session = header.session] \in Call BY <1>0 DEF Call, Header
  <2>2. call' \in [Readers -> Call] BY <1>5, <1>0, <2>1 DEF ReadSession
  <2>3. ReadersOK' BY <1>5, <1>0, <2>2, StepType DEF ReadSession
  <2> QED BY <1>5, <2>3, UnchangedType DEF ReadSession, TypeOK
<1>6. CASE UpdateSession(r)
  <2>1. UpdatedImpl(Released(reader[r])) \in Reader
    BY <1>0, ReleasedType, UpdatedImplType
  <2>2. [UpdatedImpl(Released(reader[r])) EXCEPT !.session = call[r].session] \in Reader
    BY <1>0, <2>1 DEF Reader, Call
  <2>3. reader' \in [Readers -> Reader] BY <1>6, <1>0, <2>2 DEF UpdateSession
  <2>4. ReadersOK' BY <1>6, <1>0, <2>3, StepType DEF UpdateSession
  <2> QED BY <1>6, <2>4, UnchangedType DEF UpdateSession, TypeOK
<1>7. CASE ReadKeySession(r)
  <2>1. [call[r] EXCEPT !.key = <<header.session, 0>>] \in Call
    BY <1>0 DEF Call, Header, Frame
  <2>2. call' \in [Readers -> Call] BY <1>7, <1>0, <2>1 DEF ReadKeySession
  <2>3. ReadersOK' BY <1>7, <1>0, <2>2, StepType DEF ReadKeySession
  <2> QED BY <1>7, <2>3, UnchangedType DEF ReadKeySession, TypeOK
<1>8. CASE LookUp(r)
  <2> DEFINE key == <<call[r].key[1], header.frame>>
             restart == reader[r].textures /\ ~call[r].texture
  <2>1. CASE Return(r, "keyFrame", reader[r].cache)
    <3>1. reader[r].cache \in Frame BY <1>0 DEF Reader
    <3>2. ReadersOK' BY <1>8, <1>0, <2>1, <3>1, ReturnStepType DEF LookUp
    <3> QED BY <1>8, <3>2, UnchangedType DEF LookUp, TypeOK
  <2>2. CASE /\ Step(r, "keyFrame", IF restart THEN "feeder" ELSE "lock")
             /\ call' = [call EXCEPT ![r].key = key, ![r].texture = reader[r].textures]
    <3>1. key \in Frame BY <1>0 DEF Call, Header, Frame
    <3>2. [call[r] EXCEPT !.key = key, !.texture = reader[r].textures] \in Call
      BY <1>0, <3>1 DEF Call, Reader
    <3>3. call' \in [Readers -> Call] BY <1>0, <2>2, <3>2
    <3>4. ReadersOK' BY <1>8, <1>0, <2>2, <3>3, StepType DEF LookUp
    <3> QED BY <1>8, <3>4, UnchangedType DEF LookUp, TypeOK
  <2> QED BY <1>8, <2>1, <2>2 DEF LookUp
<1> QED BY <1>1, <1>2, <1>3, <1>4, <1>5, <1>6, <1>7, <1>8

LEMMA LockedType ==
  ASSUME TypeOK, NEW r \in Readers,
         \/ ReaderLock(r) \/ CheckLayers(r) \/ IncorrectKind(r) \/ TakeMetadata(r)
         \/ IncorrectGPU(r) \/ MatchSession(r)
  PROVE  TypeOK'
<1>0. /\ call \in [Readers -> Call] /\ reader \in [Readers -> Reader]
      /\ call[r] \in Call /\ reader[r] \in Reader /\ header \in Header
  BY DEF TypeOK, ReadersOK, SharedOK
<1>1. CASE ReaderLock(r)
  <2>1. SharedOK' BY <1>1, AcquireType DEF ReaderLock
  <2>2. ReadersOK' BY <1>1, <1>0, StepType DEF ReaderLock
  <2> QED BY <1>1, <2>1, <2>2, UnchangedType DEF ReaderLock, TypeOK
<1>2. CASE CheckLayers(r)
  <2>1. CASE header.layers
    <3>1. SharedOK' BY <1>2, <2>1 DEF CheckLayers, TypeOK, SharedOK
    <3>2. ReadersOK' BY <1>2, <1>0, <2>1, StepType DEF CheckLayers
    <3> QED BY <1>2, <3>1, <3>2, UnchangedType DEF CheckLayers, TypeOK
  <2>2. CASE ~header.layers
    <3>1. SharedOK' BY <1>2, <1>0, <2>2, ReleaseType DEF CheckLayers, SharedOK
    <3>2. (IF header.feeder THEN Published ELSE NoFrame) \in Frame
      BY <1>0, NoFrameType, PublishedType
    <3>3. ReadersOK' BY <1>2, <1>0, <2>2, <3>2, ReturnStepType DEF CheckLayers
    <3> QED BY <1>2, <3>1, <3>3, UnchangedType DEF CheckLayers, TypeOK
  <2> QED BY <2>1, <2>2
<1>3. CASE IncorrectKind(r)
  <2>1. SharedOK' BY <1>3, <1>0, ReleaseType DEF IncorrectKind, SharedOK
  <2>2. (IF call[r].texture THEN Cached(reader[r], r, NoFrame, "invalid") ELSE reader[r])
          \in Reader
    BY <1>0, NoFrameType, CachedType
  <2>3. reader' \in [Readers -> Reader] BY <1>3, <1>0, <2>2 DEF IncorrectKind
  <2>4. ReadersOK' BY <1>3, <2>3, NoFrameType, ReturnStepType DEF IncorrectKind
  <2> QED BY <1>3, <2>1, <2>4, UnchangedType DEF IncorrectKind, TypeOK
<1>4. CASE TakeMetadata(r)
  <2>1. SharedOK' BY <1>4, <1>0, ReleaseType DEF TakeMetadata, SharedOK
  <2>2. /\ UpdatedImpl(reader[r]) \in Reader
        /\ Cached(UpdatedImpl(reader[r]), r, Published, "metadata") \in Reader
    BY <1>0, UpdatedImplType, PublishedType, CachedType
  <2>3. (IF header.feeder THEN Cached(UpdatedImpl(reader[r]), r, Published, "metadata")
         ELSE UpdatedImpl(reader[r])) \in Reader
    BY <2>2
  <2>4. reader' \in [Readers -> Reader] BY <1>4, <1>0, <2>3 DEF TakeMetadata
  <2>5. (IF header.feeder THEN Published ELSE NoFrame) \in Frame
    BY <1>0, NoFrameType, PublishedType
  <2>6. ReadersOK' BY <1>4, <2>4, <2>5, ReturnStepType DEF TakeMetadata
  <2> QED BY <1>4, <2>1, <2>6, UnchangedType DEF TakeMetadata, TypeOK
<1>5. CASE IncorrectGPU(r)
  <2>1. SharedOK' BY <1>5, <1>0, ReleaseType DEF IncorrectGPU, SharedOK
  <2>2. Cached(UpdatedImpl(reader[r]), r, NoFrame, "invalid") \in Reader
    BY <1>0, UpdatedImplType, NoFrameType, CachedType
  <2>3. reader' \in [Readers -> Reader] BY <1>5, <1>0, <2>2 DEF IncorrectGPU
  <2>4. ReadersOK' BY <1>5, <2>3, NoFrameType, ReturnStepType DEF IncorrectGPU
  <2> QED BY <1>5, <2>1, <2>4, UnchangedType DEF IncorrectGPU, TypeOK
<1>6. CASE MatchSession(r)
  <2>1. UpdatedImpl(reader[r]) \in Reader BY <1>0, UpdatedImplType
  <2>2. reader' \in [Readers -> Reader] BY <1>6, <1>0, <2>1 DEF MatchSession
  <2>3. ReadersOK' BY <1>6, <1>0, <2>2, StepType DEF MatchSession
  <2> QED BY <1>6, <2>3, UnchangedType DEF MatchSession, TypeOK
<1> QED BY <1>1, <1>2, <1>3, <1>4, <1>5, <1>6

LEMMA SnapshotType ==
  ASSUME TypeOK, NEW r \in Readers, FindHandles(r) \/ TakeSnapshot(r) \/ ReaderCrash(r)
  PROVE  TypeOK'
<1>0. /\ call \in [Readers -> Call] /\ reader \in [Readers -> Reader]
      /\ call[r] \in Call /\ reader[r] \in Reader /\ header \in Header
      /\ fault \in [Readers -> SUBSET {"handlesReplaced", "duplicateFailed", "emptyCache"}]
  BY DEF TypeOK, ReadersOK, SharedOK
<1>1. CASE FindHandles(r)
  <2> DEFINE handles   == reader[r].handles[ThisSlot]
             replace   == handles # NoHandle /\ handles.foreign # header.res
             duplicate == handles = NoHandle \/ replace
             open      == \E i \in Index : swapchain[i] = header.res /\ header.res # NoResource
             broken    == (IF replace THEN {"handlesReplaced"} ELSE {}) \union
                          (IF duplicate /\ ~open THEN {"duplicateFailed"} ELSE {})
             lost      == duplicate /\ ~open
  <2>1. rpc' \in [Readers -> {"off", "idle", "feeder", "session", "release", "keySession",
                    "keyFrame", "lock", "locked", "uncached", "handles", "copy", "dead"}]
    BY <1>1 DEF FindHandles, Step, TypeOK, ReadersOK
  <2>2. fault' \in [Readers -> SUBSET {"handlesReplaced", "duplicateFailed", "emptyCache"}]
    <3>1. fault[r] \union broken \in SUBSET {"handlesReplaced", "duplicateFailed", "emptyCache"}
      BY <1>0
    <3>2. fault' = [fault EXCEPT ![r] = @ \union broken] BY <1>1 DEF FindHandles
    <3> QED BY <1>0, <3>1, <3>2
  <2>3. call' \in [Readers -> Call]
    <3>1. [call[r] EXCEPT !.slot = ThisSlot] \in Call BY <1>0, SlotType DEF Call
    <3>2. call' = [call EXCEPT ![r].slot = ThisSlot] BY <1>1 DEF FindHandles
    <3> QED BY <1>0, <3>1, <3>2
  <2>4. reader' \in [Readers -> Reader]
    <3>1. ASSUME NEW object \in Objects(r),
                 reader' = [reader EXCEPT ![r].handles[ThisSlot] =
                              [foreign |-> header.res, object |-> object]]
          PROVE  reader' \in [Readers -> Reader]
      <4>1. object \in MaybeResource /\ header.res \in MaybeResource
        BY <1>0 DEF Objects, Header, Reader, MaybeResource
      <4>2. [foreign |-> header.res, object |-> object] \in Handle BY <4>1 DEF Handle
      <4>3. [reader[r].handles EXCEPT ![ThisSlot] =
               [foreign |-> header.res, object |-> object]] \in [Index -> Handle]
        BY <1>0, <4>2 DEF Reader
      <4>4. [reader[r] EXCEPT !.handles = [reader[r].handles EXCEPT ![ThisSlot] =
               [foreign |-> header.res, object |-> object]]] \in Reader
        BY <1>0, <4>3 DEF Reader
      <4> QED BY <1>0, <3>1, <4>4
    <3>2. \/ UNCHANGED reader
          \/ \E object \in Objects(r) :
               reader' = [reader EXCEPT ![r].handles[ThisSlot] =
                            [foreign |-> header.res, object |-> object]]
      BY <1>1 DEF FindHandles
    <3> QED BY <1>0, <3>1, <3>2
  <2>5. SharedOK'
    <3>1. Release(r) \/ UNCHANGED <<mutex, abandoned>> BY <1>1 DEF FindHandles
    <3>2. UNCHANGED header BY <1>1 DEF FindHandles
    <3> QED BY <3>1, <3>2, ReleaseType DEF TypeOK, SharedOK
  <2>6. UNCHANGED <<writer, gpu, copies, faults>> BY <1>1 DEF FindHandles
  <2> QED BY <2>1, <2>2, <2>3, <2>4, <2>5, <2>6, UnchangedType DEF TypeOK, ReadersOK
<1>2. CASE TakeSnapshot(r)
  <2> DEFINE handles == reader[r].handles[call[r].slot]
             copy == [res |-> handles.object, value |-> header.ready[ThisSlot],
                      frame |-> Published, named |-> handles.foreign]
  <2>1. copy \in Copy
    BY <1>0, SlotType, PublishedType DEF Copy, Call, Reader, Handle, Header
  <2>2. Append(copyQueue[r], copy) \in Seq(Copy) /\ Append(copyQueue[r], copy) # <<>>
    <3>1. copyQueue[r] \in Seq(Copy) BY DEF TypeOK, CopiesOK
    <3> QED BY <2>1, <3>1, AppendType
  <2>3. copyQueue' = [copyQueue EXCEPT ![r] = Append(@, copy)] /\ UNCHANGED copying
    BY <1>2 DEF TakeSnapshot
  <2> HIDE DEF copy
  <2>4. CopiesOK' BY <2>2, <2>3 DEF TypeOK, CopiesOK
  <2>5. SharedOK' BY <1>2, ReleaseType DEF TakeSnapshot, TypeOK, SharedOK
  <2>6. ReadersOK'
    <3>1. CASE header.feeder
      <4>1. Cached(reader[r], r, Published, "texture") \in Reader
        BY <1>0, PublishedType, CachedType
      <4>2. reader' \in [Readers -> Reader]
        BY <1>2, <1>0, <3>1, <4>1 DEF TakeSnapshot
      <4> QED BY <1>2, <1>0, <3>1, <4>2, PublishedType, ReturnStepType DEF TakeSnapshot
    <3>2. CASE ~header.feeder
      <4>1. reader[r].cache \in Frame BY <1>0 DEF Reader
      <4>2. /\ Return(r, "copy", reader[r].cache) /\ UNCHANGED reader
            /\ fault' = [fault EXCEPT ![r] =
                 IF reader[r].state = "none" THEN @ \union {"emptyCache"} ELSE @]
        BY <1>2, <3>2 DEF TakeSnapshot
      <4>3. fault' \in [Readers -> SUBSET {"handlesReplaced", "duplicateFailed", "emptyCache"}]
        BY <1>0, <4>2
      <4> QED BY <4>1, <4>2, <4>3, ReturnType DEF TypeOK, ReadersOK
    <3> QED BY <3>1, <3>2
  <2> QED BY <1>2, <2>4, <2>5, <2>6, UnchangedType DEF TakeSnapshot, TypeOK
<1>3. CASE ReaderCrash(r)
  <2>1. SharedOK' BY <1>3, AbandonType DEF ReaderCrash, TypeOK, SharedOK
  <2>2. ReadersOK' BY <1>3 DEF ReaderCrash, TypeOK, ReadersOK
  <2>3. copyQueue' \in [Readers -> Seq(Copy)] BY <1>3 DEF ReaderCrash, TypeOK, CopiesOK
  <2>4. /\ copying' \in [Readers -> BOOLEAN]
        /\ \A s \in Readers : copying'[s] => s # r /\ copying[s]
    BY <1>3 DEF ReaderCrash, TypeOK, CopiesOK
  <2>5. \A s \in Readers \ {r} : copyQueue'[s] = copyQueue[s]
    BY <1>3 DEF ReaderCrash, TypeOK, CopiesOK
  <2>6. CopiesOK' BY <2>3, <2>4, <2>5 DEF TypeOK, CopiesOK
  <2>7. faults' \in Nat BY <1>3, FaultType DEF ReaderCrash
  <2> QED BY <1>3, <2>1, <2>2, <2>6, <2>7, UnchangedType DEF ReaderCrash, TypeOK
<1> QED BY <1>1, <1>2, <1>3

(* The types of the variables, which every other proof relies on.           *)
THEOREM TypeCorrect == Spec => []TypeOK
<1>1. TypeOK /\ [Next]_vars => TypeOK'
  <2> SUFFICES ASSUME TypeOK, [Next]_vars PROVE TypeOK' OBVIOUS
  <2>1. CASE UNCHANGED vars BY <2>1, UnchangedType DEF vars, TypeOK
  <2> QED BY <2>1, WriterType, GPUType, UnlockedType, LockedType, SnapshotType
          DEF Next, ReaderStep
<1> QED BY InitType, <1>1, PTL DEF Spec

-------------------------------------------------------------------------------
(* The mutex. *)

(* A step of one reader, by what it does to the mutex. *)
LEMMA ReaderLockSteps ==
  ASSUME TypeOK, LockDiscipline, NEW r \in Readers,
         ReaderStart(r) \/ InitializeCache(r) \/ MaybeGet(r) \/ MaybeGetMetadata(r)
         \/ ReaderStep(r) \/ ReaderCrash(r)
  PROVE  LockDiscipline'
<1> USE DEF WriterLocked, ReaderLocked, LockDiscipline
<1>0. /\ rpc \in [Readers -> {"off", "idle", "feeder", "session", "release", "keySession",
                    "keyFrame", "lock", "locked", "uncached", "handles", "copy", "dead"}]
      /\ mutex \in Readers \union {Writer, NoOne}
  BY DEF TypeOK, ReadersOK, SharedOK
<1>1. UNCHANGED wpc
  BY DEF ReaderStart, InitializeCache, MaybeGet, MaybeGetMetadata, ReaderStep, CheckFeeder,
         ReadSession, UpdateSession, ReadKeySession, LookUp, ReaderLock, CheckLayers,
         IncorrectKind, TakeMetadata, IncorrectGPU, MatchSession, FindHandles, TakeSnapshot,
         ReaderCrash, writer
<1>2. CASE \/ ReaderStart(r) \/ InitializeCache(r) \/ MaybeGet(r) \/ MaybeGetMetadata(r)
           \/ CheckFeeder(r) \/ ReadSession(r) \/ UpdateSession(r) \/ ReadKeySession(r)
           \/ LookUp(r)
  <2>1. UNCHANGED <<mutex, abandoned>>
    BY <1>2 DEF ReaderStart, InitializeCache, MaybeGet, MaybeGetMetadata, CheckFeeder,
                ReadSession, UpdateSession, ReadKeySession, LookUp, shared
  <2>2. \E to \in {"off", "idle", "feeder", "session", "release", "keySession", "keyFrame",
                   "lock"} :
          /\ ~ReaderLocked(r)
          /\ rpc' = rpc \/ rpc' = [rpc EXCEPT ![r] = to]
    BY <1>2, <1>0 DEF ReaderStart, InitializeCache, MaybeGet, MaybeGetMetadata, CheckFeeder,
                ReadSession, UpdateSession, ReadKeySession, LookUp, Step, Return
  <2> QED BY <1>0, <1>1, <2>1, <2>2
<1>3. CASE ReaderLock(r)
  BY <1>0, <1>1, <1>3 DEF ReaderLock, Acquire, Step
<1>4. CASE MatchSession(r)
  BY <1>0, <1>1, <1>4 DEF MatchSession, Step, shared
<1>5. CASE ReaderCrash(r)
  BY <1>0, <1>1, <1>5 DEF ReaderCrash, Abandon
<1>6. CASE \/ CheckLayers(r) \/ IncorrectKind(r) \/ TakeMetadata(r) \/ IncorrectGPU(r)
           \/ FindHandles(r) \/ TakeSnapshot(r)
  <2>1. \/ /\ UNCHANGED <<mutex, abandoned>> /\ ReaderLocked(r)
           /\ \E to \in {"uncached", "copy"} : rpc' = [rpc EXCEPT ![r] = to]
        \/ /\ Release(r)
           /\ \E to \in {"idle", "dead"} : rpc' = [rpc EXCEPT ![r] = to]
    BY <1>6, <1>0 DEF CheckLayers, IncorrectKind, TakeMetadata, IncorrectGPU, FindHandles,
                TakeSnapshot, Step, Return
  <2> QED BY <1>0, <1>1, <2>1 DEF Release
<1> QED BY <1>2, <1>3, <1>4, <1>5, <1>6 DEF ReaderStep

LEMMA WriterLockSteps ==
  ASSUME TypeOK, LockDiscipline,
         \/ WriterStart \/ Hide \/ Show \/ RenderInvisible \/ RenderVisible
         \/ RenderResized \/ Quit \/ FeederStep \/ WriterCrash
  PROVE  LockDiscipline'
<1> USE DEF WriterLocked, ReaderLocked, LockDiscipline
<1>0. mutex \in Readers \union {Writer, NoOne} BY DEF TypeOK, SharedOK
<1>1. UNCHANGED rpc
  BY DEF WriterStart, Hide, Show, RenderInvisible, RenderVisible, RenderResized, Quit,
         FeederStep, WriterLock, Detach, BeginFrame, SubmitFrame, SubmitEmptyFrame,
         WriterCrash, readers
<1>2. CASE \/ WriterStart \/ Hide \/ Show \/ RenderInvisible \/ RenderVisible
           \/ RenderResized \/ Quit
  BY <1>1, <1>2 DEF WriterStart, Hide, Show, RenderInvisible, RenderVisible, RenderResized,
                    Quit, shared
<1>3. CASE WriterLock
  BY <1>0, <1>1, <1>3 DEF WriterLock, LockedState, Acquire
<1>4. CASE BeginFrame BY <1>1, <1>4 DEF BeginFrame
<1>5. CASE Detach BY <1>0, <1>1, <1>5 DEF Detach, Release
<1>6. CASE SubmitFrame \/ SubmitEmptyFrame
  BY <1>0, <1>1, <1>6 DEF SubmitFrame, SubmitEmptyFrame, Release
<1>7. CASE WriterCrash BY <1>0, <1>1, <1>7 DEF WriterCrash, Abandon
<1> QED BY <1>2, <1>3, <1>4, <1>5, <1>6, <1>7 DEF FeederStep

(* Whoever works on the frame owns the mutex, whichever processes died.     *)
THEOREM LockSafe == Spec => []LockDiscipline
<1>1. Init => LockDiscipline
  BY DEF Init, LockDiscipline, WriterLocked, ReaderLocked
<1>2. TypeOK /\ LockDiscipline /\ [Next]_vars => LockDiscipline'
  <2> SUFFICES ASSUME TypeOK, LockDiscipline, [Next]_vars PROVE LockDiscipline' OBVIOUS
  <2>1. CASE GPUStep \/ UNCHANGED vars
    BY <2>1 DEF GPUStep, DrawStart, DrawEnd, CopyStart, CopyEnd, vars, shared, writer,
                readers, LockDiscipline, WriterLocked, ReaderLocked
  <2> QED BY <2>1, WriterLockSteps, ReaderLockSteps DEF Next
<1> QED BY TypeCorrect, <1>1, <1>2, PTL DEF Spec

-------------------------------------------------------------------------------
(* What is published. *)

(* The texture of the frame being drawn is in its slot.                     *)
DrawnIsNamed == wpc = "drawn" => swapchain[NextSlot] \in Resource

SlotInv == HeaderNamesSlot /\ DrawnIsNamed

(* A step of a reader leaves the header alone or, with an abandoned mutex,  *)
(* resets it, and touches nothing of the feeder.                            *)
LEMMA ReaderHeader ==
  ASSUME NEW r \in Readers,
         ReaderStart(r) \/ InitializeCache(r) \/ MaybeGet(r) \/ MaybeGetMetadata(r)
         \/ ReaderStep(r) \/ ReaderCrash(r)
  PROVE  /\ UNCHANGED writer
         /\ UNCHANGED header \/ (header' = FreshHeader /\ mutex = NoOne)
<1>1. CASE \/ ReaderStart(r) \/ InitializeCache(r) \/ MaybeGet(r) \/ MaybeGetMetadata(r)
           \/ CheckFeeder(r) \/ ReadSession(r) \/ UpdateSession(r) \/ ReadKeySession(r)
           \/ LookUp(r) \/ MatchSession(r)
  <2>1. UNCHANGED <<shared, writer>>
    BY <1>1 DEF ReaderStart, InitializeCache, MaybeGet, MaybeGetMetadata, CheckFeeder,
                ReadSession, UpdateSession, ReadKeySession, LookUp, MatchSession
  <2> QED BY <2>1 DEF shared, writer
<1>2. CASE ReaderLock(r) BY <1>2 DEF ReaderLock, Acquire
<1>3. CASE CheckLayers(r) \/ IncorrectKind(r) \/ TakeMetadata(r) \/ IncorrectGPU(r)
  BY <1>3 DEF CheckLayers, IncorrectKind, TakeMetadata, IncorrectGPU, writer
<1>4. CASE FindHandles(r) BY <1>4 DEF FindHandles, writer
<1>5. CASE TakeSnapshot(r) BY <1>5 DEF TakeSnapshot, writer
<1>6. CASE ReaderCrash(r) BY <1>6 DEF ReaderCrash, writer
<1> QED BY <1>1, <1>2, <1>3, <1>4, <1>5, <1>6 DEF ReaderStep

LEMMA FreshSlots ==
  ASSUME header' = FreshHeader
  PROVE  HeaderNamesSlot'
BY DEF FreshHeader, EmptyHeader, HeaderNamesSlot

LEMMA WriterSlots ==
  ASSUME TypeOK, LockDiscipline, SlotInv,
         \/ WriterStart \/ Hide \/ Show \/ RenderInvisible \/ RenderVisible
         \/ RenderResized \/ Quit \/ FeederStep \/ WriterCrash
  PROVE  SlotInv'
<1> USE DEF SlotInv
<1>0. ThisSlot \in Index /\ NextSlot \in Index
  BY SlotType DEF TypeOK, SharedOK
<1>1. CASE WriterStart
  <2>1. DrawnIsNamed' BY <1>1 DEF WriterStart, DrawnIsNamed
  <2> QED BY <1>1, <2>1, FreshSlots DEF WriterStart
<1>2. CASE Hide \/ Show \/ RenderInvisible \/ RenderVisible \/ RenderResized \/ Quit
  <2>1. UNCHANGED header /\ wpc \in {"idle", "rendering"} /\ wpc' # "drawn"
    BY <1>2 DEF Hide, Show, RenderInvisible, RenderVisible, RenderResized, Quit, shared
  <2>2. UNCHANGED swapchain \/ wpc' = "lockDetach"
    BY <1>2 DEF Hide, Show, RenderInvisible, RenderVisible, RenderResized, Quit
  <2> QED BY <2>1, <2>2 DEF HeaderNamesSlot, SwapchainDropped, ThisSlot, DrawnIsNamed
<1>3. CASE WriterLock
  <2>1. UNCHANGED swapchain /\ wpc' # "drawn" /\ SwapchainDropped' = SwapchainDropped
    BY <1>3 DEF WriterLock, LockedState, SwapchainDropped
  <2>2. CASE UNCHANGED header
    BY <2>1, <2>2 DEF HeaderNamesSlot, ThisSlot, DrawnIsNamed
  <2>3. CASE header' = FreshHeader BY <2>1, <2>3, FreshSlots DEF DrawnIsNamed
  <2> QED BY <1>3, <2>2, <2>3 DEF WriterLock, Acquire
<1>4. CASE Detach
  <2>1. wpc' # "drawn" BY <1>4 DEF Detach
  <2> QED BY <1>4, <2>1, FreshSlots DEF Detach, DrawnIsNamed
<1>5. CASE BeginFrame
  <2> DEFINE new   == swapchain[NextSlot] = NoResource
             res   == IF new THEN created + 1 ELSE swapchain[NextSlot]
             value == header.ready[NextSlot] + 1
  <2>1. /\ res \in Resource
        /\ header' = [header EXCEPT !.ready[NextSlot] = value]
        /\ swapchain' = [swapchain EXCEPT ![NextSlot] = res]
        /\ wpc = "frame" /\ wpc' = "drawn"
    BY <1>5 DEF BeginFrame
  <2>2. /\ header'.frame = header.frame /\ header'.layers = header.layers
        /\ header'.feeder = header.feeder /\ header'.res = header.res
    BY <2>1 DEF TypeOK, SharedOK, Header
  <2>3. ThisSlot' = ThisSlot /\ NextSlot' = NextSlot BY <2>2 DEF ThisSlot, NextSlot
  <2>4. swapchain'[NextSlot] = res
    BY <1>0, <2>1 DEF TypeOK, WriterOK
  <2>5. swapchain[ThisSlot] # NoResource => swapchain'[ThisSlot] = swapchain[ThisSlot]
    BY <1>0, <2>1 DEF TypeOK, WriterOK
  <2> QED BY <2>1, <2>2, <2>3, <2>4, <2>5
          DEF HeaderNamesSlot, SwapchainDropped, DrawnIsNamed
<1>6. CASE SubmitFrame
  <2>1. PICK target \in Targets :
          header' = [header EXCEPT !.frame = @ + 1, !.feeder = TRUE, !.layers = TRUE,
                                   !.target = target, !.res = DrawnTexture]
    BY <1>6 DEF SubmitFrame
  <2>2. header'.frame = header.frame + 1 /\ header'.res = DrawnTexture
        /\ header'.feeder
    BY <2>1 DEF TypeOK, SharedOK, Header
  <2>3. ThisSlot' = NextSlot BY <2>2 DEF ThisSlot, NextSlot
  <2>4. DrawnTexture \in Resource /\ UNCHANGED swapchain /\ wpc' = "idle"
    BY <1>6 DEF SubmitFrame, DrawnIsNamed, DrawnTexture
  <2>5. DrawnTexture # NoResource BY <2>4 DEF Resource, NoResource
  <2> QED BY <2>2, <2>3, <2>4, <2>5 DEF HeaderNamesSlot, DrawnIsNamed, DrawnTexture
<1>7. CASE SubmitEmptyFrame
  <2>1. header' = [header EXCEPT !.frame = @ + 1, !.layers = FALSE]
    BY <1>7 DEF SubmitEmptyFrame, EmptiedHeader
  <2>2. header'.layers = FALSE BY <2>1 DEF TypeOK, SharedOK, Header
  <2>3. wpc' = "idle" BY <1>7 DEF SubmitEmptyFrame
  <2> QED BY <2>2, <2>3 DEF HeaderNamesSlot, DrawnIsNamed
<1>8. CASE WriterCrash
  <2>1. UNCHANGED header /\ wpc' = "off" BY <1>8 DEF WriterCrash
  <2> QED BY <2>1 DEF HeaderNamesSlot, SwapchainDropped, DrawnIsNamed
<1> QED BY <1>1, <1>2, <1>3, <1>4, <1>5, <1>6, <1>7, <1>8 DEF FeederStep

(* The header names the texture its frame number selects, through empty     *)
(* frames, resets, crashes and restarts.                                    *)
THEOREM SlotsAgree == Spec => []HeaderNamesSlot
<1>1. Init => SlotInv
  BY DEF Init, EmptyHeader, SlotInv, HeaderNamesSlot, DrawnIsNamed
<1>2. TypeOK /\ LockDiscipline /\ SlotInv /\ [Next]_vars => SlotInv'
  <2> SUFFICES ASSUME TypeOK, LockDiscipline, SlotInv, [Next]_vars PROVE SlotInv' OBVIOUS
  <2>1. CASE GPUStep \/ UNCHANGED vars
    <3>1. UNCHANGED <<header, wpc, swapchain>>
      BY <2>1 DEF GPUStep, DrawStart, DrawEnd, CopyStart, CopyEnd, vars, shared, writer
    <3> QED BY <3>1 DEF SlotInv, HeaderNamesSlot, SwapchainDropped, ThisSlot, DrawnIsNamed,
                        NextSlot
  <2>2. ASSUME NEW r \in Readers,
               ReaderStart(r) \/ InitializeCache(r) \/ MaybeGet(r) \/ MaybeGetMetadata(r)
               \/ ReaderStep(r) \/ ReaderCrash(r)
        PROVE  SlotInv'
    <3>1. UNCHANGED <<wpc, swapchain>> BY <2>2, ReaderHeader DEF writer
    <3>2. CASE UNCHANGED header
      BY <3>1, <3>2 DEF SlotInv, HeaderNamesSlot, SwapchainDropped, ThisSlot, DrawnIsNamed,
                        NextSlot
    <3>3. CASE header' = FreshHeader /\ mutex = NoOne
      <4>1. wpc # "drawn" BY <3>3 DEF LockDiscipline, WriterLocked
      <4> QED BY <3>1, <3>3, <4>1, FreshSlots DEF SlotInv, DrawnIsNamed
    <3> QED BY <2>2, <3>2, <3>3, ReaderHeader
  <2> QED BY <2>1, <2>2, WriterSlots DEF Next
<1>3. SlotInv => HeaderNamesSlot BY DEF SlotInv
<1> QED BY TypeCorrect, LockSafe, <1>1, <1>2, <1>3, PTL DEF Spec

(* No step takes back a frame that was published.                           *)
THEOREM FramesOnlyAdvance == Spec => FramesAdvance
<1>1. ASSUME TypeOK, header' = FreshHeader
      PROVE  AtLeast(Published', Published)
  <2>1. header'.session = header.session + 1 BY <1>1 DEF FreshHeader, EmptyHeader
  <2>2. header.session \in Nat BY <1>1 DEF TypeOK, SharedOK, Header
  <2> QED BY <2>1, <2>2 DEF AtLeast, Published
<1>2. ASSUME TypeOK, header'.session = header.session,
             header'.frame \in {header.frame, header.frame + 1}
      PROVE  AtLeast(Published', Published)
  <2>1. header.frame \in Nat BY <1>2 DEF TypeOK, SharedOK, Header
  <2> QED BY <1>2, <2>1 DEF AtLeast, Published
<1>3. TypeOK /\ [Next]_vars => [AtLeast(Published', Published)]_header
  <2> SUFFICES ASSUME TypeOK, Next, header' # header
               PROVE  AtLeast(Published', Published)
    BY DEF vars, shared
  <2> USE DEF TypeOK, SharedOK, Header
  <2>1. CASE WriterStart \/ Detach \/ WriterLock
    BY <1>1, <2>1 DEF WriterStart, Detach, WriterLock, Acquire
  <2>2. CASE BeginFrame
    <3>1. header'.session = header.session /\ header'.frame = header.frame
      BY <2>2 DEF BeginFrame
    <3> QED BY <1>2, <3>1
  <2>3. CASE SubmitFrame
    <3>1. PICK target \in Targets :
            header' = [header EXCEPT !.frame = @ + 1, !.feeder = TRUE, !.layers = TRUE,
                                     !.target = target, !.res = DrawnTexture]
      BY <2>3 DEF SubmitFrame
    <3>2. header'.session = header.session /\ header'.frame = header.frame + 1 BY <3>1
    <3> QED BY <1>2, <3>2
  <2>4. CASE SubmitEmptyFrame
    <3>1. header'.session = header.session /\ header'.frame = header.frame + 1
      BY <2>4 DEF SubmitEmptyFrame, EmptiedHeader
    <3> QED BY <1>2, <3>1
  <2>5. CASE Hide \/ Show \/ RenderInvisible \/ RenderVisible \/ RenderResized \/ Quit
             \/ WriterCrash \/ GPUStep
    BY <2>5 DEF Hide, Show, RenderInvisible, RenderVisible, RenderResized, Quit, WriterCrash,
                GPUStep, DrawStart, DrawEnd, CopyStart, CopyEnd, shared
  <2>6. ASSUME NEW r \in Readers,
               ReaderStart(r) \/ InitializeCache(r) \/ MaybeGet(r) \/ MaybeGetMetadata(r)
               \/ ReaderStep(r) \/ ReaderCrash(r)
        PROVE  AtLeast(Published', Published)
    BY <1>1, <2>6, ReaderHeader
  <2> QED BY <2>1, <2>2, <2>3, <2>4, <2>5, <2>6 DEF Next, FeederStep
<1> QED BY TypeCorrect, <1>3, PTL DEF Spec, FramesAdvance

===============================================================================
