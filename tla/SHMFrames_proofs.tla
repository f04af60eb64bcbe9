---------------------------- MODULE SHMFrames_proofs ----------------------------
(***************************************************************************)
(* What the readers of the frame feed get: snapshots that are fresh, and    *)
(* textures that hold the frame that the snapshot describes, with the       *)
(* faults of the environment that each of them survives.                    *)
(***************************************************************************)
EXTENDS SHM_proofs

LEMMA AtLeastOrder ==
  ASSUME NEW f \in Frame, NEW g \in Frame, NEW h \in Frame
  PROVE  /\ AtLeast(f, f)
         /\ AtLeast(f, g) /\ AtLeast(g, h) => AtLeast(f, h)
BY DEF Frame, AtLeast

(* A step of reader r. *)
StepOf(r) ==
  \/ ReaderStart(r) \/ InitializeCache(r) \/ MaybeGet(r) \/ MaybeGetMetadata(r)
  \/ ReaderStep(r) \/ ReaderCrash(r)

(* The steps that change the header, and how.                               *)
LEMMA HeaderSteps ==
  ASSUME [Next]_vars
  PROVE  \/ UNCHANGED header
         \/ header' = FreshHeader
         \/ BeginFrame \/ SubmitFrame \/ SubmitEmptyFrame
<1>1. CASE UNCHANGED vars BY <1>1 DEF vars, shared
<1>2. CASE WriterStart \/ Detach \/ WriterLock
  BY <1>2 DEF WriterStart, Detach, WriterLock, Acquire
<1>3. CASE Hide \/ Show \/ RenderInvisible \/ RenderVisible \/ RenderResized \/ Quit
           \/ WriterCrash \/ GPUStep
  BY <1>3 DEF Hide, Show, RenderInvisible, RenderVisible, RenderResized, Quit, WriterCrash,
              GPUStep, DrawStart, DrawEnd, CopyStart, CopyEnd, shared
<1>4. ASSUME NEW r \in Readers, StepOf(r)
      PROVE  UNCHANGED header \/ header' = FreshHeader
  BY <1>4, ReaderHeader DEF StepOf
<1> QED BY <1>1, <1>2, <1>3, <1>4 DEF Next, FeederStep, StepOf

-------------------------------------------------------------------------------
(* Snapshots are fresh. *)

(* What is published advances, and a session keeps its feeder.              *)
Advances ==
  /\ AtLeast(Published', Published)
  /\ header'.session = header.session /\ header.feeder => header'.feeder

LEMMA FeedAdvances ==
  ASSUME TypeOK, [Next]_vars
  PROVE  Advances
<1> USE DEF TypeOK, SharedOK, Header, Advances, AtLeast, Published
<1>1. CASE UNCHANGED header BY <1>1
<1>2. CASE header' = FreshHeader
  <2>1. header'.session = header.session + 1 BY <1>2 DEF FreshHeader, EmptyHeader
  <2> QED BY <2>1
<1>3. CASE BeginFrame
  <2>1. /\ header'.session = header.session /\ header'.frame = header.frame
        /\ header'.feeder = header.feeder
    BY <1>3 DEF BeginFrame
  <2> QED BY <2>1
<1>4. CASE SubmitFrame
  <2>1. PICK target \in Targets :
          header' = [header EXCEPT !.frame = @ + 1, !.feeder = TRUE, !.layers = TRUE,
                                   !.target = target, !.res = DrawnTexture]
    BY <1>4 DEF SubmitFrame
  <2>2. /\ header'.session = header.session /\ header'.frame = header.frame + 1
        /\ header'.feeder
    BY <2>1
  <2> QED BY <2>2
<1>5. CASE SubmitEmptyFrame
  <2>1. /\ header'.session = header.session /\ header'.frame = header.frame + 1
        /\ header'.feeder = header.feeder
    BY <1>5 DEF SubmitEmptyFrame, EmptiedHeader
  <2> QED BY <2>1
<1> QED BY <1>1, <1>2, <1>3, <1>4, <1>5, HeaderSteps

(* The parts of a call: the feeder was seen, the key is complete.           *)
Past(r) == rpc[r] \in {"session", "release", "keySession", "keyFrame", "lock", "locked",
                       "uncached", "handles", "copy"}
Keyed(r) == rpc[r] \in {"lock", "locked", "uncached", "handles", "copy"}

(* A call never sees less than when it began, its key names something that  *)
(* has been published since, and a cached snapshot is as new as its key.    *)
CallBegan(r) == AtLeast(Published, call[r].began)
FeederSeen(r) == Past(r) /\ header.session = call[r].began[1] => header.feeder
KeyBegun(r) ==
  rpc[r] = "keyFrame" => call[r].key[1] \in call[r].began[1] .. header.session
KeyPublished(r) == Keyed(r) => AtLeast(Published, call[r].key)
CacheAsNewAsKey(r) ==
  reader[r].cache # NoFrame => AtLeast(reader[r].cache, reader[r].key)
ResultFresh(r) ==
  /\ rpc[r] \in {"off", "idle"} /\ call[r].result # NoFrame
  /\ header.session = call[r].began[1]
  => AtLeast(call[r].result, call[r].began)
CallInv(r) ==
  /\ CallBegan(r) /\ FeederSeen(r) /\ KeyBegun(r) /\ KeyPublished(r)
  /\ CacheAsNewAsKey(r) /\ ResultFresh(r)

LEMMA ReaderTypes ==
  ASSUME TypeOK, NEW r \in Readers
  PROVE  /\ header \in Header
         /\ header.session \in Nat /\ header.frame \in Nat
         /\ Published \in Frame
         /\ call[r] \in Call /\ call[r].began \in Frame /\ call[r].key \in Frame
         /\ call[r].result \in Frame
         /\ reader[r] \in Reader /\ reader[r].key \in Frame /\ reader[r].cache \in Frame
         /\ reader[r].handles \in [Index -> Handle] /\ reader[r].impl \in Nat
BY PublishedType DEF TypeOK, SharedOK, ReadersOK, Header, Call, Reader

(* What others do leaves a call's facts true, and so does what goes on in   *)
(* a call with its key, or ends it without a return.                        *)
LEMMA CallKept ==
  ASSUME TypeOK, TypeOK', Advances, NEW r \in Readers, CallInv(r),
         rpc'[r] = rpc[r] \/ rpc'[r] = "dead" \/ (Keyed(r) /\ Keyed(r)'),
         call'[r].began = call[r].began, call'[r].key = call[r].key,
         call'[r].result = call[r].result,
         reader'[r].key = reader[r].key, reader'[r].cache = reader[r].cache
  PROVE  CallInv(r)'
<1> DEFINE b == call[r].began
<1>0. /\ header.session \in Nat /\ header.frame \in Nat
      /\ header'.session \in Nat /\ header'.frame \in Nat
      /\ Published \in Frame /\ Published' \in Frame
      /\ b \in Frame /\ call[r].key \in Frame
  BY ReaderTypes DEF TypeOK, SharedOK, Header, Published, Frame
<1>1. CallBegan(r)'
  BY <1>0, AtLeastOrder DEF CallInv, CallBegan, Advances
<1>2. header'.session >= header.session /\ header.session >= b[1] /\ b[1] \in Nat
  BY <1>0 DEF CallInv, CallBegan, Advances, AtLeast, Published, Frame
<1>3. header'.session = b[1] => header.session = b[1]
  BY <1>0, <1>2
<1>4. FeederSeen(r)'
  BY <1>3 DEF CallInv, FeederSeen, Past, Keyed, Advances
<1>5. KeyBegun(r)'
  BY <1>0, <1>2 DEF CallInv, KeyBegun, Keyed, Frame
<1>6. KeyPublished(r)'
  <2>1. Keyed(r)' => Keyed(r) BY DEF Keyed
  <2> QED BY <1>0, <2>1, AtLeastOrder DEF CallInv, KeyPublished, Advances
<1>7. CacheAsNewAsKey(r)' BY DEF CallInv, CacheAsNewAsKey
<1>8. ResultFresh(r)' BY <1>3 DEF CallInv, ResultFresh, Keyed
<1> QED BY <1>1, <1>4, <1>5, <1>6, <1>7, <1>8 DEF CallInv

(* What a reader does before it has the lock.                               *)
LEMMA CallUnlocked ==
  ASSUME TypeOK, TypeOK', Advances, NEW r \in Readers, CallInv(r),
         \/ ReaderStart(r) \/ InitializeCache(r) \/ MaybeGet(r) \/ MaybeGetMetadata(r)
         \/ CheckFeeder(r) \/ ReadSession(r) \/ UpdateSession(r) \/ ReadKeySession(r)
         \/ LookUp(r)
  PROVE  CallInv(r)'
<1> USE DEF CallInv, CallBegan, FeederSeen, KeyBegun, KeyPublished, CacheAsNewAsKey,
            ResultFresh, Past, Keyed
<1>0. /\ header \in Header /\ header.session \in Nat /\ header.frame \in Nat
      /\ Published \in Frame
      /\ call[r] \in Call /\ call[r].began \in Frame /\ call[r].key \in Frame
      /\ reader[r] \in Reader /\ reader[r].key \in Frame /\ reader[r].cache \in Frame
      /\ rpc \in [Readers -> {"off", "idle", "feeder", "session", "release", "keySession",
                    "keyFrame", "lock", "locked", "uncached", "handles", "copy", "dead"}]
      /\ call \in [Readers -> Call] /\ reader \in [Readers -> Reader]
      /\ NoFrame \in Frame
  BY ReaderTypes, NoFrameType DEF TypeOK, ReadersOK
<1>1. UNCHANGED header /\ Published' = Published
  BY DEF ReaderStart, InitializeCache, MaybeGet, MaybeGetMetadata, CheckFeeder, ReadSession,
         UpdateSession, ReadKeySession, LookUp, shared, Published
<1>2. CASE ReaderStart(r)
  <2>1. rpc[r] = "off" /\ rpc'[r] = "idle" /\ UNCHANGED <<call, reader>>
    BY <1>0, <1>2 DEF ReaderStart, Step
  <2> QED BY <1>1, <2>1
<1>3. CASE InitializeCache(r)
  <2>1. UNCHANGED <<rpc, call>> /\ reader'[r].cache = NoFrame
    BY <1>0, <1>3 DEF InitializeCache, Reader
  <2>2. CacheAsNewAsKey(r)' BY <2>1
  <2> QED BY <1>1, <2>1, <2>2
<1>4. CASE MaybeGet(r) \/ MaybeGetMetadata(r)
  <2>1. /\ rpc'[r] = "feeder" /\ UNCHANGED reader
        /\ call'[r].began = Published
    <3>1. CASE MaybeGet(r) BY <1>0, <3>1 DEF MaybeGet, Step, NoCall
    <3>2. CASE MaybeGetMetadata(r) BY <1>0, <3>2 DEF MaybeGetMetadata, Step, NoCall
    <3> QED BY <1>4, <3>1, <3>2
  <2>2. CallBegan(r)' BY <1>0, <1>1, <2>1, AtLeastOrder
  <2> QED BY <1>1, <2>1, <2>2
<1>5. CASE CheckFeeder(r)
  <2>1. CASE header.feeder
    <3>1. rpc[r] = "feeder" /\ rpc'[r] = "session" /\ UNCHANGED <<call, reader>>
      BY <1>0, <1>5, <2>1 DEF CheckFeeder, Step
    <3> QED BY <1>1, <2>1, <3>1
  <2>2. CASE ~header.feeder
    <3>1. /\ rpc'[r] = "idle" /\ UNCHANGED reader
          /\ call'[r].began = call[r].began /\ call'[r].result = NoFrame
      <4>1. Return(r, "feeder", NoFrame) /\ UNCHANGED reader
        BY <1>5, <2>2 DEF CheckFeeder
      <4> QED BY <1>0, <4>1 DEF Return, Step, NoCall
    <3> QED BY <1>1, <3>1
  <2> QED BY <2>1, <2>2
<1>6. CASE ReadSession(r)
  <2>1. /\ rpc[r] = "session" /\ rpc'[r] \in {"keySession", "release"} /\ UNCHANGED reader
        /\ call'[r].began = call[r].began
    BY <1>0, <1>6 DEF ReadSession, Step, Call
  <2> QED BY <1>0, <1>1, <2>1
<1>7. CASE UpdateSession(r)
  <2>1. rpc[r] = "release" /\ rpc'[r] = "keySession" /\ UNCHANGED call
    BY <1>0, <1>7 DEF UpdateSession, Step
  <2>2. Released(reader[r]) \in Reader BY <1>0, ReleasedType
  <2>3. reader'[r].cache = reader[r].cache /\ reader'[r].key = reader[r].key
    BY <1>0, <1>7, <2>2 DEF UpdateSession, UpdatedImpl, Released, Reader
  <2> QED BY <1>0, <1>1, <2>1, <2>3
<1>8. CASE ReadKeySession(r)
  <2>1. /\ rpc[r] = "keySession" /\ rpc'[r] = "keyFrame" /\ UNCHANGED reader
        /\ call'[r].began = call[r].began /\ call'[r].key = <<header.session, 0>>
    BY <1>0, <1>8 DEF ReadKeySession, Step, Call
  <2>2. header.session \in call[r].began[1] .. header.session
    BY <1>0 DEF AtLeast, Published, Frame
  <2> QED BY <1>0, <1>1, <2>1, <2>2
<1>9. CASE LookUp(r)
  <2> DEFINE key == <<call[r].key[1], header.frame>>
             began == call[r].began
  <2>1. rpc[r] = "keyFrame" /\ UNCHANGED reader BY <1>9 DEF LookUp
  <2>2. /\ key[1] \in began[1] .. header.session /\ began[1] \in Nat /\ key \in Frame
    BY <1>0, <2>1 DEF Frame
  <2>3. CASE Hit(r, key) /\ Return(r, "keyFrame", reader[r].cache)
    <3>1. /\ rpc'[r] = "idle" /\ call'[r].began = began /\ call'[r].result = reader[r].cache
          /\ key = reader[r].key
      BY <1>0, <2>3 DEF Return, Step, NoCall, Hit
    <3>2. header.session = began[1] => AtLeast(key, began)
      BY <1>0, <2>2 DEF AtLeast, Published, Frame
    <3>3. call'[r].result # NoFrame /\ header.session = began[1]
            => AtLeast(call'[r].result, began)
      BY <1>0, <2>2, <3>1, <3>2, AtLeastOrder
    <3> QED BY <1>0, <1>1, <2>1, <3>1, <3>3
  <2>4. CASE ~Hit(r, key)
    <3>1. /\ rpc'[r] \in {"feeder", "lock"} /\ call'[r].began = began
          /\ call'[r].key = key
      BY <1>0, <1>9, <2>4 DEF LookUp, Step, Call
    <3>2. AtLeast(Published, key) BY <1>0, <2>2 DEF AtLeast, Published, Frame
    <3> QED BY <1>0, <1>1, <2>1, <3>1, <3>2
  <2> QED BY <1>9, <2>3, <2>4 DEF LookUp
<1> QED BY <1>2, <1>3, <1>4, <1>5, <1>6, <1>7, <1>8, <1>9

(* What a call returns that had the lock, and what it leaves in the cache.  *)
LEMMA CallReturns ==
  ASSUME TypeOK, NEW r \in Readers, CallInv(r), Keyed(r), UNCHANGED header,
         rpc'[r] = "idle", call'[r].began = call[r].began,
         call'[r].result \in {NoFrame, Published} \/ ~header.feeder,
         \/ reader'[r].key = reader[r].key /\ reader'[r].cache = reader[r].cache
         \/ reader'[r].key = call[r].key /\ reader'[r].cache \in {NoFrame, Published}
  PROVE  CallInv(r)'
<1>1. Published' = Published BY DEF Published
<1>2. CallBegan(r)' BY <1>1 DEF CallInv, CallBegan
<1>3. FeederSeen(r)' /\ KeyBegun(r)' /\ KeyPublished(r)'
  BY DEF FeederSeen, Past, KeyBegun, KeyPublished, Keyed
<1>4. CacheAsNewAsKey(r)' BY DEF CallInv, CacheAsNewAsKey, KeyPublished
<1>5. header.session = call[r].began[1] => header.feeder
  BY DEF CallInv, FeederSeen, Past, Keyed
<1>6. ResultFresh(r)' BY <1>5 DEF CallInv, ResultFresh, CallBegan
<1> QED BY <1>2, <1>3, <1>4, <1>6 DEF CallInv

LEMMA CallLocked ==
  ASSUME TypeOK, TypeOK', Advances, NEW r \in Readers, CallInv(r),
         \/ ReaderLock(r) \/ CheckLayers(r) \/ IncorrectKind(r) \/ TakeMetadata(r)
         \/ IncorrectGPU(r) \/ MatchSession(r) \/ FindHandles(r) \/ TakeSnapshot(r)
         \/ ReaderCrash(r)
  PROVE  CallInv(r)'
<1>0. /\ header \in Header /\ call[r] \in Call /\ reader[r] \in Reader
      /\ rpc \in [Readers -> {"off", "idle", "feeder", "session", "release", "keySession",
                    "keyFrame", "lock", "locked", "uncached", "handles", "copy", "dead"}]
      /\ call \in [Readers -> Call] /\ reader \in [Readers -> Reader]
      /\ NoFrame \in Frame /\ Published \in Frame
      /\ UpdatedImpl(reader[r]) \in Reader
  BY ReaderTypes, NoFrameType, UpdatedImplType DEF TypeOK, ReadersOK
<1>1. UpdatedImpl(reader[r]).key = reader[r].key
      /\ UpdatedImpl(reader[r]).cache = reader[r].cache
  BY <1>0 DEF UpdatedImpl, Reader
<1>2. CASE ReaderLock(r)
  <2>1. Keyed(r) /\ Keyed(r)' /\ UNCHANGED <<call, reader>>
    BY <1>0, <1>2 DEF ReaderLock, Step, Keyed
  <2> QED BY <2>1, CallKept
<1>3. CASE ReaderCrash(r)
  <2>1. rpc'[r] = "dead" /\ UNCHANGED <<call, reader>> BY <1>0, <1>3 DEF ReaderCrash
  <2> QED BY <2>1, CallKept
<1>4. CASE MatchSession(r)
  <2>1. Keyed(r) /\ Keyed(r)' /\ UNCHANGED call /\ reader'[r] = UpdatedImpl(reader[r])
    BY <1>0, <1>4 DEF MatchSession, Step, Keyed
  <2> QED BY <1>1, <2>1, CallKept
<1>5. CASE FindHandles(r)
  <2>1. rpc[r] = "handles" /\ rpc'[r] \in {"dead", "copy"}
    BY <1>0, <1>5 DEF FindHandles, Step
  <2>2. call'[r] = [call[r] EXCEPT !.slot = ThisSlot]
    BY <1>0, <1>5 DEF FindHandles
  <2>3. /\ call'[r].began = call[r].began /\ call'[r].key = call[r].key
        /\ call'[r].result = call[r].result
    BY <1>0, <2>2 DEF Call
  <2>4. \/ UNCHANGED reader
        \/ \E h : reader' = [reader EXCEPT ![r].handles[ThisSlot] = h]
    BY <1>5 DEF FindHandles
  <2>5. reader'[r].key = reader[r].key /\ reader'[r].cache = reader[r].cache
    BY <1>0, <2>4 DEF Reader
  <2> QED BY <2>1, <2>3, <2>5, CallKept DEF Keyed
<1>6. CASE CheckLayers(r)
  <2>1. UNCHANGED <<header, reader>> /\ rpc[r] = "locked"
    BY <1>6 DEF CheckLayers
  <2>2. CASE header.layers
    <3>1. rpc'[r] = "uncached" /\ UNCHANGED call
      BY <1>0, <1>6, <2>2 DEF CheckLayers, Step
    <3> QED BY <2>1, <3>1, CallKept DEF Keyed
  <2>3. CASE ~header.layers
    <3>1. /\ rpc'[r] = "idle" /\ call'[r].began = call[r].began
          /\ call'[r].result \in {NoFrame, Published}
      <4>1. \E f \in {NoFrame, Published} : Return(r, "locked", f)
        BY <1>6, <2>3 DEF CheckLayers
      <4> QED BY <1>0, <4>1 DEF Return, Step, NoCall
    <3> QED BY <2>1, <3>1, CallReturns DEF Keyed
  <2> QED BY <2>2, <2>3
<1>7. CASE IncorrectKind(r) \/ IncorrectGPU(r)
  <2>1. UNCHANGED header /\ Return(r, "uncached", NoFrame)
    BY <1>7 DEF IncorrectKind, IncorrectGPU
  <2>2. /\ rpc[r] = "uncached" /\ rpc'[r] = "idle"
        /\ call'[r].began = call[r].began /\ call'[r].result = NoFrame
    BY <1>0, <2>1 DEF Return, Step, NoCall
  <2>3. \/ reader'[r] = reader[r]
        \/ reader'[r] = Cached(reader[r], r, NoFrame, "invalid")
        \/ reader'[r] = Cached(UpdatedImpl(reader[r]), r, NoFrame, "invalid")
    BY <1>0, <1>7 DEF IncorrectKind, IncorrectGPU
  <2>4. \/ reader'[r] = reader[r]
        \/ reader'[r].key = call[r].key /\ reader'[r].cache = NoFrame
    BY <1>0, <2>3 DEF Cached, Reader
  <2> QED BY <2>1, <2>2, <2>4, CallReturns DEF Keyed
<1>8. CASE TakeMetadata(r)
  <2>1. UNCHANGED header /\ \E f \in {NoFrame, Published} : Return(r, "uncached", f)
    BY <1>8 DEF TakeMetadata
  <2>2. /\ rpc[r] = "uncached" /\ rpc'[r] = "idle"
        /\ call'[r].began = call[r].began /\ call'[r].result \in {NoFrame, Published}
    BY <1>0, <2>1 DEF Return, Step, NoCall
  <2>3. \/ reader'[r] = UpdatedImpl(reader[r])
        \/ reader'[r] = Cached(UpdatedImpl(reader[r]), r, Published, "metadata")
    BY <1>0, <1>8 DEF TakeMetadata
  <2>4. \/ reader'[r].key = reader[r].key /\ reader'[r].cache = reader[r].cache
        \/ reader'[r].key = call[r].key /\ reader'[r].cache = Published
    BY <1>0, <1>1, <2>3 DEF Cached, Reader
  <2> QED BY <2>1, <2>2, <2>4, CallReturns DEF Keyed
<1>9. CASE TakeSnapshot(r)
  <2>1. UNCHANGED header /\ rpc[r] = "copy" BY <1>9 DEF TakeSnapshot
  <2>2. CASE header.feeder
    <3>1. /\ rpc'[r] = "idle" /\ call'[r].began = call[r].began
          /\ call'[r].result = Published
      <4>1. Return(r, "copy", Published) BY <1>9, <2>2 DEF TakeSnapshot
      <4> QED BY <1>0, <4>1 DEF Return, Step, NoCall
    <3>2. reader'[r] = Cached(reader[r], r, Published, "texture")
      BY <1>0, <1>9, <2>2 DEF TakeSnapshot
    <3>3. reader'[r].key = call[r].key /\ reader'[r].cache = Published
      BY <1>0, <3>2 DEF Cached, Reader
    <3> QED BY <2>1, <3>1, <3>3, CallReturns DEF Keyed
  <2>3. CASE ~header.feeder
    <3>1. /\ rpc'[r] = "idle" /\ call'[r].began = call[r].began /\ UNCHANGED reader
      <4>1. Return(r, "copy", reader[r].cache) /\ UNCHANGED reader
        BY <1>9, <2>3 DEF TakeSnapshot
      <4> QED BY <1>0, <4>1 DEF Return, Step, NoCall
    <3> QED BY <2>1, <2>3, <3>1, CallReturns DEF Keyed
  <2> QED BY <2>2, <2>3
<1> QED BY <1>2, <1>3, <1>4, <1>5, <1>6, <1>7, <1>8, <1>9

(* Nobody but reader r moves in its call.                                   *)
SameReader(r) ==
  /\ rpc'[r] = rpc[r] /\ call'[r] = call[r] /\ reader'[r] = reader[r]
  /\ fault'[r] = fault[r]

SameCopies(r) == copyQueue'[r] = copyQueue[r] /\ copying'[r] = copying[r]

LEMMA OthersLeave ==
  ASSUME TypeOK, [Next]_vars, NEW r \in Readers
  PROVE  \/ StepOf(r)
         \/ SameReader(r) /\ (SameCopies(r) \/ CopyStart(r) \/ CopyEnd(r))
<1> USE DEF SameReader, SameCopies
<1>0. /\ rpc = [s \in Readers |-> rpc[s]] /\ call = [s \in Readers |-> call[s]]
      /\ reader = [s \in Readers |-> reader[s]] /\ fault = [s \in Readers |-> fault[s]]
      /\ copyQueue = [s \in Readers |-> copyQueue[s]]
      /\ copying = [s \in Readers |-> copying[s]]
  BY DEF TypeOK, ReadersOK, CopiesOK
<1>1. CASE UNCHANGED vars BY <1>1 DEF vars, readers, copies
<1>2. CASE \/ WriterStart \/ Hide \/ Show \/ RenderInvisible \/ RenderVisible
           \/ RenderResized \/ Quit \/ FeederStep \/ WriterCrash \/ DrawStart \/ DrawEnd
  <2>1. UNCHANGED <<readers, copies>>
    BY <1>2 DEF WriterStart, Hide, Show, RenderInvisible, RenderVisible, RenderResized, Quit,
                FeederStep, WriterLock, Detach, BeginFrame, SubmitFrame, SubmitEmptyFrame,
                WriterCrash, DrawStart, DrawEnd
  <2> QED BY <2>1 DEF readers, copies
<1>3. ASSUME NEW s \in Readers, s # r, CopyStart(s) \/ CopyEnd(s)
      PROVE  SameReader(r) /\ SameCopies(r)
  BY <1>0, <1>3 DEF CopyStart, CopyEnd, readers
<1>4. CASE CopyStart(r) \/ CopyEnd(r)
  BY <1>4 DEF CopyStart, CopyEnd, readers
<1>5. ASSUME NEW s \in Readers, s # r,
             \/ ReaderStart(s) \/ InitializeCache(s) \/ MaybeGet(s) \/ MaybeGetMetadata(s)
             \/ CheckFeeder(s) \/ ReadSession(s) \/ UpdateSession(s) \/ ReadKeySession(s)
             \/ LookUp(s)
      PROVE  SameReader(r) /\ SameCopies(r)
  <2>1. UNCHANGED <<fault, copies>>
    BY <1>5 DEF ReaderStart, InitializeCache, MaybeGet, MaybeGetMetadata, CheckFeeder,
                ReadSession, UpdateSession, ReadKeySession, LookUp
  <2>2. rpc'[r] = rpc[r]
    BY <1>0, <1>5 DEF ReaderStart, InitializeCache, MaybeGet, MaybeGetMetadata, CheckFeeder,
                ReadSession, UpdateSession, ReadKeySession, LookUp, Step, Return
  <2>3. call'[r] = call[r]
    BY <1>0, <1>5 DEF ReaderStart, InitializeCache, MaybeGet, MaybeGetMetadata, CheckFeeder,
                ReadSession, UpdateSession, ReadKeySession, LookUp, Return
  <2>4. reader'[r] = reader[r]
    BY <1>0, <1>5 DEF ReaderStart, InitializeCache, MaybeGet, MaybeGetMetadata, CheckFeeder,
                ReadSession, UpdateSession, ReadKeySession, LookUp
  <2> QED BY <2>1, <2>2, <2>3, <2>4 DEF copies
<1>6. ASSUME NEW s \in Readers, s # r,
             \/ ReaderLock(s) \/ CheckLayers(s) \/ IncorrectKind(s) \/ TakeMetadata(s)
             \/ IncorrectGPU(s) \/ MatchSession(s)
      PROVE  SameReader(r) /\ SameCopies(r)
  <2>1. UNCHANGED <<fault, copies>>
    BY <1>6 DEF ReaderLock, CheckLayers, IncorrectKind, TakeMetadata, IncorrectGPU,
                MatchSession
  <2>2. rpc'[r] = rpc[r] /\ call'[r] = call[r]
    BY <1>0, <1>6 DEF ReaderLock, CheckLayers, IncorrectKind, TakeMetadata, IncorrectGPU,
                MatchSession, Step, Return
  <2>3. reader'[r] = reader[r]
    BY <1>0, <1>6 DEF ReaderLock, CheckLayers, IncorrectKind, TakeMetadata, IncorrectGPU,
                MatchSession
  <2> QED BY <2>1, <2>2, <2>3 DEF copies
<1>7. ASSUME NEW s \in Readers, s # r, FindHandles(s)
      PROVE  SameReader(r) /\ SameCopies(r)
  <2>1. /\ UNCHANGED copies /\ fault'[r] = fault[r]
        /\ rpc'[r] = rpc[r] /\ call'[r] = call[r]
    BY <1>0, <1>7 DEF FindHandles, Step
  <2>2. \/ UNCHANGED reader
        \/ \E h : reader' = [reader EXCEPT ![s].handles[ThisSlot] = h]
    BY <1>7 DEF FindHandles
  <2> QED BY <1>0, <1>7, <2>1, <2>2 DEF copies
<1>8. ASSUME NEW s \in Readers, s # r, TakeSnapshot(s)
      PROVE  SameReader(r) /\ SameCopies(r)
  <2>1. \E f : Return(s, "copy", f) BY <1>8 DEF TakeSnapshot
  <2>2. rpc'[r] = rpc[r] /\ call'[r] = call[r]
    BY <1>0, <1>8, <2>1 DEF Return, Step
  <2>3. UNCHANGED copying /\ \E q : copyQueue' = [copyQueue EXCEPT ![s] = q]
    BY <1>8 DEF TakeSnapshot
  <2>4. UNCHANGED reader \/ \E rd : reader' = [reader EXCEPT ![s] = rd]
    BY <1>8 DEF TakeSnapshot
  <2>5. UNCHANGED fault \/ \E f : fault' = [fault EXCEPT ![s] = f]
    BY <1>8 DEF TakeSnapshot
  <2> QED BY <1>0, <1>8, <2>2, <2>3, <2>4, <2>5
<1>9. ASSUME NEW s \in Readers, s # r, ReaderCrash(s)
      PROVE  SameReader(r) /\ SameCopies(r)
  BY <1>0, <1>9 DEF ReaderCrash
<1> QED BY <1>1, <1>2, <1>3, <1>4, <1>5, <1>6, <1>7, <1>8, <1>9
        DEF Next, GPUStep, StepOf, ReaderStep

(* A snapshot is as new as what was published when the game asked for it,   *)
(* however calls, frames, resets, crashes and restarts interleave: the      *)
(* unlocked look-up of CachedReader::MaybeGet() loses nothing.              *)
THEOREM SnapshotsFresh == Spec => []Fresh
<1> DEFINE Inv == \A r \in Readers : CallInv(r)
<1>1. Init => Inv
  <2> SUFFICES ASSUME Init, NEW r \in Readers PROVE CallInv(r) OBVIOUS
  <2>1. /\ rpc[r] = "off" /\ call[r] = NoCall /\ reader[r] = NewReader
        /\ Published = <<0, 0>>
    BY DEF Init, EmptyHeader, Published
  <2> QED BY <2>1 DEF CallInv, CallBegan, FeederSeen, KeyBegun, KeyPublished,
                      CacheAsNewAsKey, ResultFresh, Past, Keyed, NoCall, NewReader, NoFrame,
                      AtLeast
<1>2. TypeOK /\ TypeOK' /\ Inv /\ [Next]_vars => Inv'
  <2> SUFFICES ASSUME TypeOK, TypeOK', Inv, [Next]_vars, NEW r \in Readers
               PROVE  CallInv(r)'
    OBVIOUS
  <2>1. Advances BY FeedAdvances
  <2>2. CASE StepOf(r)
    BY <2>1, <2>2, CallUnlocked, CallLocked DEF StepOf, ReaderStep
  <2>3. CASE SameReader(r)
    BY <2>1, <2>3, CallKept DEF SameReader
  <2> QED BY <2>2, <2>3, OthersLeave
<1>3. Inv => Fresh BY DEF CallInv, ResultFresh, Fresh
<1> QED BY TypeCorrect, <1>1, <1>2, <1>3, PTL DEF Spec

-------------------------------------------------------------------------------
(* Textures hold the frame that is described.  Fence values start again     *)
(* with every header, so this is about who resets the header while the      *)
(* textures stay: the next owner of a mutex that a reader has abandoned     *)
(* does.  A feeder that quits, dies or changes its canvas draws to new      *)
(* textures afterwards.                                                     *)
ReadersSurvive == "readerCrash" \notin Faults
FeederSurvives == "writerCrash" \notin Faults

(* The constructor of SHM::Writer, which takes no lock, resets no frame that *)
(* somebody may read.                                                       *)
StartsClear == WriterStart => ~header.layers

(* Between two sessions of its own the feeder has no textures.              *)
Between == wpc \in {"off", "lockDetach", "detach", "lockDestroy", "destroy"}
BareBetween == Between => swapchain = NoSwapchain

(* An abandoned mutex was the feeder's, and its textures went with it.      *)
Orphaned == abandoned => swapchain = NoSwapchain

(* A feeder that ends in order leaves no frame behind.                      *)
EndsEmpty == wpc = "off" => ~header.layers

LEMMA BareKept ==
  ASSUME BareBetween, [Next]_vars
  PROVE  BareBetween'
<1> USE DEF BareBetween, Between
<1>1. CASE UNCHANGED vars BY <1>1 DEF vars, writer
<1>2. CASE Hide \/ Show \/ GPUStep
  BY <1>2 DEF Hide, Show, GPUStep, DrawStart, DrawEnd, CopyStart, CopyEnd, writer
<1>3. CASE WriterStart \/ RenderResized \/ WriterCrash
  BY <1>3 DEF WriterStart, RenderResized, WriterCrash
<1>4. CASE RenderInvisible \/ RenderVisible \/ Quit \/ BeginFrame \/ SubmitFrame
           \/ SubmitEmptyFrame
  BY <1>4 DEF RenderInvisible, RenderVisible, Quit, BeginFrame, SubmitFrame,
              SubmitEmptyFrame
<1>5. CASE WriterLock BY <1>5 DEF WriterLock, LockedState
<1>6. CASE Detach BY <1>6 DEF Detach
<1>7. ASSUME NEW r \in Readers, StepOf(r) PROVE UNCHANGED writer
  BY <1>7, ReaderHeader DEF StepOf
<1> QED BY <1>1, <1>2, <1>3, <1>4, <1>5, <1>6, <1>7 DEF Next, FeederStep, StepOf, writer

LEMMA BareAlways == Spec => []BareBetween
<1>1. Init => BareBetween BY DEF Init, BareBetween
<1> QED BY BareKept, <1>1, PTL DEF Spec

(* Who resets the header, and who may change it otherwise.                  *)
LEMMA HeaderOwners ==
  ASSUME [Next]_vars
  PROVE  UNCHANGED header \/ WriterStart \/ WriterLocked \/ mutex = NoOne
<1>1. CASE UNCHANGED vars BY <1>1 DEF vars, shared
<1>2. CASE Hide \/ Show \/ RenderInvisible \/ RenderVisible \/ RenderResized \/ Quit
           \/ WriterCrash \/ GPUStep
  BY <1>2 DEF Hide, Show, RenderInvisible, RenderVisible, RenderResized, Quit, WriterCrash,
              GPUStep, DrawStart, DrawEnd, CopyStart, CopyEnd, shared
<1>3. CASE FeederStep
  BY <1>3 DEF FeederStep, WriterLock, Detach, BeginFrame, SubmitFrame, SubmitEmptyFrame,
              Acquire, WriterLocked
<1>4. ASSUME NEW r \in Readers, StepOf(r) PROVE UNCHANGED header \/ mutex = NoOne
  BY <1>4, ReaderHeader DEF StepOf
<1> QED BY <1>1, <1>2, <1>3, <1>4 DEF Next, StepOf

(* A reader that has the lock, and a frame under it, keeps the frame.       *)
LEMMA HeldHeader ==
  ASSUME LockDiscipline, StartsClear, [Next]_vars, NEW r \in Readers, ReaderLocked(r),
         header.layers
  PROVE  UNCHANGED header
<1>1. mutex = r /\ ~WriterLocked /\ mutex # NoOne BY SHMAssumption DEF LockDiscipline
<1> QED BY <1>1, HeaderOwners DEF StartsClear

(* Steps that leave what is drawn and published alone.                      *)
Quiet ==
  /\ UNCHANGED <<header, swapchain, created, drawQueue, content, fence>>
  /\ (wpc' = "drawn" <=> wpc = "drawn") /\ (wpc' = "off" <=> wpc = "off")
  /\ SwapchainDropped' <=> SwapchainDropped

(* A new session, with new textures unless the mutex was abandoned.         *)
Reset ==
  /\ header' = FreshHeader
  /\ wpc # "drawn" /\ wpc' # "drawn"
  /\ swapchain' = NoSwapchain \/ (abandoned /\ UNCHANGED swapchain)
  /\ UNCHANGED <<created, drawQueue, content, fence>>

Dropped ==
  /\ swapchain' = NoSwapchain
  /\ wpc = "idle" /\ wpc' = "lockDetach"
  /\ UNCHANGED <<header, created, drawQueue, content, fence>>

LEMMA ReaderGPU ==
  ASSUME NEW r \in Readers, StepOf(r)
  PROVE  UNCHANGED gpu
BY DEF StepOf, ReaderStep, ReaderStart, InitializeCache, MaybeGet, MaybeGetMetadata,
       CheckFeeder, ReadSession, UpdateSession, ReadKeySession, LookUp, ReaderLock,
       CheckLayers, IncorrectKind, TakeMetadata, IncorrectGPU, MatchSession, FindHandles,
       TakeSnapshot, ReaderCrash

(* A reader resets the header only as it takes an abandoned mutex.          *)
LEMMA ReaderResets ==
  ASSUME NEW r \in Readers, StepOf(r)
  PROVE  UNCHANGED header \/ (header' = FreshHeader /\ abandoned /\ mutex = NoOne)
<1>1. CASE ReaderLock(r) BY <1>1 DEF ReaderLock, Acquire
<1>2. CASE ~ReaderLock(r)
  <2>1. UNCHANGED header
    BY <1>2 DEF StepOf, ReaderStep, ReaderStart, InitializeCache, MaybeGet, MaybeGetMetadata,
       CheckFeeder, ReadSession, UpdateSession, ReadKeySession, LookUp, CheckLayers,
       IncorrectKind, TakeMetadata, IncorrectGPU, MatchSession, FindHandles, TakeSnapshot,
       ReaderCrash, shared
  <2> QED BY <2>1
<1> QED BY <1>1, <1>2

LEMMA FeedSteps ==
  ASSUME LockDiscipline, BareBetween, [Next]_vars
  PROVE  \/ Quiet \/ Reset \/ Dropped \/ WriterCrash
         \/ BeginFrame \/ SubmitFrame \/ SubmitEmptyFrame \/ DrawEnd
<1>1. CASE UNCHANGED vars
  BY <1>1 DEF vars, shared, writer, gpu, Quiet, SwapchainDropped
<1>2. CASE WriterStart
  BY <1>2 DEF WriterStart, gpu, Reset
<1>3. CASE Detach
  BY <1>3 DEF Detach, gpu, Reset, BareBetween, Between
<1>4. CASE RenderResized
  BY <1>4 DEF RenderResized, gpu, shared, Dropped
<1>5. CASE Hide \/ Show \/ RenderInvisible \/ RenderVisible \/ Quit
  BY <1>5 DEF Hide, Show, RenderInvisible, RenderVisible, Quit, shared, gpu, Quiet,
              SwapchainDropped
<1>6. CASE WriterLock
  <2>1. /\ wpc # "drawn" /\ wpc' # "drawn" /\ wpc # "off" /\ wpc' # "off"
        /\ SwapchainDropped' <=> SwapchainDropped
        /\ UNCHANGED <<swapchain, created, drawQueue, content, fence>>
    BY <1>6 DEF WriterLock, LockedState, gpu, SwapchainDropped
  <2> QED BY <1>6, <2>1 DEF WriterLock, Acquire, Quiet, Reset
<1>7. CASE DrawStart \/ \E r \in Readers : CopyStart(r) \/ CopyEnd(r)
  BY <1>7 DEF DrawStart, CopyStart, CopyEnd, shared, writer, gpu, Quiet, SwapchainDropped
<1>8. ASSUME NEW r \in Readers, StepOf(r)
      PROVE  Quiet \/ Reset
  <2>1. UNCHANGED writer /\ UNCHANGED gpu BY <1>8, ReaderHeader, ReaderGPU DEF StepOf
  <2>2. CASE UNCHANGED header BY <2>1, <2>2 DEF writer, gpu, Quiet, SwapchainDropped
  <2>3. CASE header' = FreshHeader /\ abandoned /\ mutex = NoOne
    <3>1. wpc # "drawn" BY <2>3, SHMAssumption DEF LockDiscipline, WriterLocked
    <3> QED BY <2>1, <2>3, <3>1 DEF writer, gpu, Reset
  <2> QED BY <1>8, <2>2, <2>3, ReaderResets
<1> QED BY <1>1, <1>2, <1>3, <1>4, <1>5, <1>6, <1>7, <1>8
        DEF Next, FeederStep, GPUStep, StepOf

LEMMA OrphanedKept ==
  ASSUME ReadersSurvive, LockDiscipline, BareBetween, Orphaned, [Next]_vars
  PROVE  Orphaned'
<1>1. CASE UNCHANGED <<abandoned, swapchain>> BY <1>1 DEF Orphaned
<1>2. CASE \/ UNCHANGED vars \/ Hide \/ Show \/ RenderInvisible \/ RenderVisible \/ Quit
           \/ GPUStep
  BY <1>1, <1>2 DEF vars, shared, writer, Hide, Show, RenderInvisible, RenderVisible, Quit,
                    GPUStep, DrawStart, DrawEnd, CopyStart, CopyEnd
<1>3. CASE WriterStart \/ RenderResized \/ WriterCrash
  BY <1>3 DEF WriterStart, RenderResized, WriterCrash, Orphaned
<1>4. CASE WriterLock BY <1>4 DEF WriterLock, Acquire, Orphaned
<1>5. CASE Detach \/ BeginFrame \/ SubmitFrame \/ SubmitEmptyFrame
  <2>1. mutex = Writer BY <1>5 DEF Detach, BeginFrame, SubmitFrame, SubmitEmptyFrame,
                                   LockDiscipline, WriterLocked
  <2>2. ~abandoned BY <2>1, SHMAssumption DEF LockDiscipline
  <2>3. UNCHANGED abandoned
    BY <1>5 DEF Detach, BeginFrame, SubmitFrame, SubmitEmptyFrame, Release
  <2> QED BY <2>2, <2>3 DEF Orphaned
<1>6. ASSUME NEW r \in Readers, StepOf(r) PROVE Orphaned'
  <2>1. ~ReaderCrash(r) BY DEF ReadersSurvive, ReaderCrash, Fault
  <2>2. UNCHANGED swapchain BY <1>6, ReaderHeader DEF StepOf, writer
  <2>3. UNCHANGED abandoned \/ ~abandoned'
    BY <1>6, <2>1 DEF StepOf, ReaderStep, ReaderStart, InitializeCache, MaybeGet,
       MaybeGetMetadata, CheckFeeder, ReadSession, UpdateSession, ReadKeySession, LookUp,
       ReaderLock, CheckLayers, IncorrectKind, TakeMetadata, IncorrectGPU, MatchSession,
       FindHandles, TakeSnapshot, shared, Acquire, Release
  <2> QED BY <2>2, <2>3 DEF Orphaned
<1> QED BY <1>2, <1>3, <1>4, <1>5, <1>6 DEF Next, FeederStep, StepOf

LEMMA EndsEmptyKept ==
  ASSUME FeederSurvives, TypeOK, LockDiscipline, BareBetween, EndsEmpty, [Next]_vars
  PROVE  EndsEmpty'
<1>0. ~WriterCrash BY DEF FeederSurvives, WriterCrash, Fault
<1>1. CASE Quiet BY <1>1 DEF Quiet, EndsEmpty
<1>2. CASE Reset BY <1>2 DEF Reset, FreshHeader, EmptyHeader, EndsEmpty
<1>3. CASE Dropped BY <1>3 DEF Dropped, EndsEmpty
<1>4. CASE BeginFrame \/ SubmitFrame \/ SubmitEmptyFrame
  BY <1>4 DEF BeginFrame, SubmitFrame, SubmitEmptyFrame, EndsEmpty
<1>5. CASE DrawEnd BY <1>5 DEF DrawEnd, shared, writer, EndsEmpty
<1> QED BY <1>0, <1>1, <1>2, <1>3, <1>4, <1>5, FeedSteps

(* A feeder that does not die starts with no frame left to be read.         *)
LEMMA SurvivorsStartClear ==
  ASSUME FeederSurvives
  PROVE  Spec => [][StartsClear]_vars
<1>1. Init => EndsEmpty BY DEF Init, EmptyHeader, EndsEmpty
<1>2. TypeOK /\ LockDiscipline /\ BareBetween /\ EndsEmpty /\ [Next]_vars => EndsEmpty'
  BY EndsEmptyKept
<1>3. EndsEmpty => StartsClear BY DEF EndsEmpty, StartsClear, WriterStart
<1> QED BY TypeCorrect, LockSafe, BareAlways, <1>1, <1>2, <1>3, PTL DEF Spec

LEMMA ClearStep ==
  ASSUME [StartsClear]_vars
  PROVE  StartsClear
<1>1. CASE UNCHANGED vars BY <1>1 DEF vars, writer, WriterStart, StartsClear
<1> QED BY <1>1

(* What the feeder draws into which texture. *)

Pending == 1 .. Len(drawQueue)

(* A texture is in one slot, and those not created yet have not been used.  *)
SlotsApart ==
  \A i, j \in Index : swapchain[i] = swapchain[j] /\ i # j => swapchain[i] = NoResource
OnlyCreated ==
  /\ \A i \in Index : swapchain[i] <= created
  /\ \A x \in Resource : x > created => fence[x] = 0 /\ \A k \in Pending : drawQueue[k].res # x

(* A slot's fence value bounds what its texture's fence has and will reach. *)
FencesBounded ==
  \A i \in Index : swapchain[i] # NoResource =>
    /\ fence[swapchain[i]] <= header.ready[i]
    /\ \A k \in Pending : drawQueue[k].res = swapchain[i] => drawQueue[k].value <= header.ready[i]

(* Frames are drawn in order, and nothing newer than the one begun last,    *)
(* which a feeder that has died may have been about to submit.              *)
Drawn ==
  IF wpc \in {"off", "drawn"} THEN <<header.session, header.frame + 1>> ELSE Published
DrawnInOrder ==
  /\ \A x \in Resource : AtLeast(Drawn, content[x])
  /\ \A k \in Pending : AtLeast(Drawn, drawQueue[k].frame)
  /\ \A k \in Pending, x \in Resource : AtLeast(drawQueue[k].frame, content[x])
  /\ \A k \in Pending, l \in Pending :
       l <= k => AtLeast(drawQueue[k].frame, drawQueue[l].frame)

(* Once the fence of texture x has reached v, x holds f or something newer. *)
Delivers(x, v, f) ==
  /\ fence[x] >= v => AtLeast(content[x], f)
  /\ \A k \in Pending : drawQueue[k].res = x /\ drawQueue[k].value >= v =>
       AtLeast(drawQueue[k].frame, f)

LayersDelivered == header.layers => Delivers(header.res, header.ready[ThisSlot], Published)
DrawnDelivered == wpc = "drawn" => Delivers(DrawnTexture, header.ready[NextSlot], Drawn)

DrawInv ==
  /\ SlotsApart /\ OnlyCreated /\ FencesBounded /\ DrawnInOrder
  /\ DrawnIsNamed /\ DrawnDelivered /\ LayersDelivered

LEMMA FeedTypes ==
  ASSUME TypeOK
  PROVE  /\ header \in Header /\ header.session \in Nat /\ header.frame \in Nat
         /\ header.ready \in [Index -> Nat] /\ header.res \in MaybeResource
         /\ Published \in Frame /\ Drawn \in Frame
         /\ <<header.session, header.frame + 1>> \in Frame
         /\ ThisSlot \in Index /\ NextSlot \in Index
         /\ swapchain \in [Index -> MaybeResource] /\ created \in MaybeResource
         /\ drawQueue \in Seq(Job) /\ Len(drawQueue) \in Nat
         /\ content \in [Resource -> Frame] /\ fence \in [Resource -> Nat]
         /\ \A k \in Pending : /\ drawQueue[k] \in Job /\ drawQueue[k].res \in Resource
                               /\ drawQueue[k].value \in Nat /\ drawQueue[k].frame \in Frame
         /\ MaybeResource \subseteq Nat /\ Resource \subseteq Nat
<1>1. header \in Header /\ drawQueue \in Seq(Job) BY DEF TypeOK, SharedOK, GPUOK
<1>2. ThisSlot \in Index /\ NextSlot \in Index /\ Published \in Frame
  BY <1>1, SlotType, PublishedType
<1>3. <<header.session, header.frame + 1>> \in Frame BY <1>1 DEF Header, Frame
<1>4. Drawn \in Frame BY <1>2, <1>3 DEF Drawn
<1>5. \A k \in Pending : /\ drawQueue[k] \in Job /\ drawQueue[k].res \in Resource
                         /\ drawQueue[k].value \in Nat /\ drawQueue[k].frame \in Frame
  <2>1. \A k \in Pending : drawQueue[k] \in Job BY <1>1 DEF Pending
  <2> QED BY <2>1 DEF Job
<1>6. MaybeResource \subseteq Nat /\ Resource \subseteq Nat
  BY DEF MaybeResource, Resource, NoResource
<1> QED BY <1>1, <1>2, <1>3, <1>4, <1>5, <1>6 DEF TypeOK, Header, WriterOK, GPUOK

(* What the end of a draw does to the queue, the texture and its fence.     *)
LEMMA DrawEnds ==
  ASSUME TypeOK, DrawEnd
  PROVE  /\ 1 \in Pending
         /\ \A k \in Pending' : k + 1 \in Pending /\ drawQueue'[k] = drawQueue[k + 1]
         /\ \A x \in Resource \ {drawQueue[1].res} :
              content'[x] = content[x] /\ fence'[x] = fence[x]
         /\ content'[drawQueue[1].res] = drawQueue[1].frame
         /\ fence'[drawQueue[1].res] = drawQueue[1].value
         /\ UNCHANGED <<header, wpc, swapchain, created>>
<1>1. drawQueue \in Seq(Job) /\ drawQueue # <<>> /\ drawQueue' = Tail(drawQueue)
  BY DEF TypeOK, GPUOK, DrawEnd
<1>2. 1 \in Pending /\ Head(drawQueue) = drawQueue[1] BY <1>1 DEF Pending
<1>3. \A k \in Pending' : k + 1 \in Pending /\ drawQueue'[k] = drawQueue[k + 1]
  BY <1>1 DEF Pending
<1>4. /\ content' = [content EXCEPT ![drawQueue[1].res] = drawQueue[1].frame]
      /\ fence' = [fence EXCEPT ![drawQueue[1].res] = drawQueue[1].value]
  BY <1>2 DEF DrawEnd
<1>5. drawQueue[1].res \in Resource BY <1>2, FeedTypes
<1> QED BY <1>2, <1>3, <1>4, <1>5 DEF DrawEnd, shared, writer, TypeOK, GPUOK

(* What the beginning of a frame does, with the texture x that it uses.     *)
FrameBegun(x) ==
  /\ IF swapchain[NextSlot] = NoResource
     THEN x = created + 1 /\ created' = x
     ELSE x = swapchain[NextSlot] /\ UNCHANGED created
  /\ swapchain' = [swapchain EXCEPT ![NextSlot] = x]
  /\ header'.session = header.session /\ header'.frame = header.frame
  /\ header'.layers = header.layers /\ header'.res = header.res
  /\ header'.ready = [header.ready EXCEPT ![NextSlot] = @ + 1]
  /\ ThisSlot' = ThisSlot /\ NextSlot' = NextSlot /\ Published' = Published
  /\ wpc = "frame" /\ wpc' = "drawn"
  /\ UNCHANGED <<content, fence>>
  /\ Pending' = Pending \union {Len(drawQueue) + 1}
  /\ \A k \in Pending : drawQueue'[k] = drawQueue[k] /\ k < Len(drawQueue) + 1
  /\ drawQueue'[Len(drawQueue) + 1] =
       [res |-> x, value |-> header.ready[NextSlot] + 1,
        frame |-> <<header.session, header.frame + 1>>]

LEMMA FrameBegins ==
  ASSUME TypeOK, BeginFrame
  PROVE  \E x \in Resource : FrameBegun(x)
<1> DEFINE x == IF swapchain[NextSlot] = NoResource THEN created + 1
                ELSE swapchain[NextSlot]
           job == [res |-> x, value |-> header.ready[NextSlot] + 1,
                   frame |-> <<header.session, header.frame + 1>>]
<1>1. /\ x \in Resource
      /\ created' = IF swapchain[NextSlot] = NoResource THEN x ELSE created
      /\ swapchain' = [swapchain EXCEPT ![NextSlot] = x]
      /\ drawQueue' = Append(drawQueue, job)
      /\ header' = [header EXCEPT !.ready[NextSlot] = header.ready[NextSlot] + 1]
      /\ wpc = "frame" /\ wpc' = "drawn" /\ UNCHANGED <<content, fence>>
  BY DEF BeginFrame
<1>2. /\ header'.session = header.session /\ header'.frame = header.frame
      /\ header'.layers = header.layers /\ header'.res = header.res
      /\ header'.ready = [header.ready EXCEPT ![NextSlot] = @ + 1]
  BY <1>1, FeedTypes DEF Header
<1>3. ThisSlot' = ThisSlot /\ NextSlot' = NextSlot /\ Published' = Published
  BY <1>2 DEF ThisSlot, NextSlot, Published
<1>4. job \in Job
  <2>1. header.ready[NextSlot] + 1 \in Nat BY FeedTypes
  <2>2. <<header.session, header.frame + 1>> \in Frame BY FeedTypes
  <2> QED BY <1>1, <2>1, <2>2 DEF Job
<1>5. drawQueue \in Seq(Job) BY FeedTypes
<1> HIDE DEF job
<1>6. /\ Len(drawQueue') = Len(drawQueue) + 1 /\ Len(drawQueue) \in Nat
      /\ \A k \in 1 .. Len(drawQueue) : drawQueue'[k] = drawQueue[k]
      /\ drawQueue'[Len(drawQueue) + 1] = job
  BY <1>1, <1>4, <1>5
<1>7. /\ Pending' = Pending \union {Len(drawQueue) + 1}
      /\ \A k \in Pending : drawQueue'[k] = drawQueue[k] /\ k < Len(drawQueue) + 1
  BY <1>6 DEF Pending
<1> QED BY <1>1, <1>2, <1>3, <1>6, <1>7 DEF job, FrameBegun

LEMMA SlotsApartKept ==
  ASSUME TypeOK, SlotsApart, OnlyCreated, BeginFrame
  PROVE  SlotsApart'
<1>0. PICK x \in Resource : FrameBegun(x) BY FrameBegins
<1>1. /\ swapchain' = [swapchain EXCEPT ![NextSlot] = x]
      /\ IF swapchain[NextSlot] = NoResource THEN x = created + 1
         ELSE x = swapchain[NextSlot]
  BY <1>0 DEF FrameBegun
<1>2. swapchain \in [Index -> MaybeResource] /\ NextSlot \in Index /\ created \in Nat
      /\ \A i \in Index : swapchain[i] \in Nat /\ swapchain[i] <= created
  BY FeedTypes DEF OnlyCreated
<1>3. CASE swapchain[NextSlot] = NoResource
  <2>1. \A i \in Index : swapchain[i] # x BY <1>1, <1>2, <1>3
  <2> QED BY <1>1, <1>2, <2>1 DEF SlotsApart
<1>4. CASE swapchain[NextSlot] # NoResource
  <2>1. swapchain' = swapchain BY <1>1, <1>2, <1>4
  <2> QED BY <2>1 DEF SlotsApart
<1> QED BY <1>3, <1>4

LEMMA OnlyCreatedKept ==
  ASSUME TypeOK, OnlyCreated, BeginFrame \/ DrawEnd
  PROVE  OnlyCreated'
<1>0. /\ swapchain \in [Index -> MaybeResource] /\ NextSlot \in Index /\ created \in Nat
      /\ \A i \in Index : swapchain[i] \in Nat /\ swapchain[i] <= created
      /\ Resource \subseteq Nat
  BY FeedTypes DEF OnlyCreated
<1>1. CASE BeginFrame
  <2>0. PICK x \in Resource : FrameBegun(x) BY <1>1, FrameBegins
  <2>1. /\ swapchain' = [swapchain EXCEPT ![NextSlot] = x]
        /\ IF swapchain[NextSlot] = NoResource
           THEN x = created + 1 /\ created' = x
           ELSE x = swapchain[NextSlot] /\ UNCHANGED created
        /\ UNCHANGED fence
        /\ Pending' = Pending \union {Len(drawQueue) + 1}
        /\ \A k \in Pending : drawQueue'[k] = drawQueue[k]
        /\ drawQueue'[Len(drawQueue) + 1].res = x
    BY <2>0 DEF FrameBegun
  <2>2. created' \in Nat /\ created' >= created /\ x <= created'
    BY <1>0, <2>1
  <2>3. \A i \in Index : swapchain'[i] <= created'
    BY <1>0, <2>1, <2>2
  <2>4. ASSUME NEW y \in Resource, y > created'
        PROVE  fence'[y] = 0 /\ \A k \in Pending' : drawQueue'[k].res # y
    <3>1. y > created /\ y # x BY <1>0, <2>2, <2>4
    <3> QED BY <2>1, <3>1 DEF OnlyCreated
  <2> QED BY <2>3, <2>4 DEF OnlyCreated
<1>2. CASE DrawEnd
  <2>1. UNCHANGED <<swapchain, created>> BY <1>2, DrawEnds
  <2>2. ASSUME NEW y \in Resource, y > created
        PROVE  fence'[y] = 0 /\ \A k \in Pending' : drawQueue'[k].res # y
    BY <1>2, <2>2, DrawEnds DEF OnlyCreated
  <2> QED BY <2>1, <2>2 DEF OnlyCreated
<1> QED BY <1>1, <1>2

LEMMA FencesBoundedKept ==
  ASSUME TypeOK, SlotsApart, OnlyCreated, FencesBounded, BeginFrame \/ DrawEnd
  PROVE  FencesBounded'
<1>0. /\ swapchain \in [Index -> MaybeResource] /\ NextSlot \in Index /\ created \in Nat
      /\ header.ready \in [Index -> Nat] /\ fence \in [Resource -> Nat]
      /\ \A i \in Index : swapchain[i] \in Nat /\ swapchain[i] <= created
      /\ \A i \in Index : swapchain[i] # NoResource => swapchain[i] \in Resource
      /\ \A k \in Pending : drawQueue[k].value \in Nat
      /\ Resource \subseteq Nat
  BY FeedTypes DEF OnlyCreated, MaybeResource
<1>1. CASE BeginFrame
  <2> DEFINE last == Len(drawQueue) + 1
  <2>0. PICK x \in Resource : FrameBegun(x) BY <1>1, FrameBegins
  <2>1. /\ swapchain' = [swapchain EXCEPT ![NextSlot] = x]
        /\ swapchain[NextSlot] = NoResource => x = created + 1
        /\ swapchain[NextSlot] # NoResource => x = swapchain[NextSlot]
        /\ header'.ready = [header.ready EXCEPT ![NextSlot] = @ + 1]
        /\ UNCHANGED fence
        /\ Pending' = Pending \union {last}
        /\ \A k \in Pending : drawQueue'[k] = drawQueue[k]
        /\ drawQueue'[last].res = x
        /\ drawQueue'[last].value = header.ready[NextSlot] + 1
    BY <2>0 DEF FrameBegun
  <2> HIDE DEF last
  <2>2. swapchain[NextSlot] = NoResource => fence[x] = 0 /\ \A k \in Pending : drawQueue[k].res # x
    BY <1>0, <2>1 DEF OnlyCreated
  <2>3. /\ fence[x] <= header.ready[NextSlot]
        /\ \A k \in Pending : drawQueue[k].res = x => drawQueue[k].value <= header.ready[NextSlot]
    BY <1>0, <2>1, <2>2 DEF FencesBounded
  <2>4. ASSUME NEW i \in Index, swapchain'[i] # NoResource
        PROVE  /\ fence'[swapchain'[i]] <= header'.ready[i]
               /\ \A k \in Pending' : drawQueue'[k].res = swapchain'[i] =>
                    drawQueue'[k].value <= header'.ready[i]
    <3>1. CASE i = NextSlot
      <4>1. swapchain'[i] = x /\ header'.ready[i] = header.ready[NextSlot] + 1
        BY <1>0, <2>1, <3>1
      <4>2. fence'[x] <= header.ready[NextSlot] + 1 BY <1>0, <2>1, <2>3
      <4>3. ASSUME NEW k \in Pending, drawQueue'[k].res = x
            PROVE  drawQueue'[k].value <= header.ready[NextSlot] + 1
        BY <1>0, <2>1, <2>3, <4>3
      <4>4. drawQueue'[last].value <= header.ready[NextSlot] + 1 BY <1>0, <2>1
      <4> QED BY <2>1, <4>1, <4>2, <4>3, <4>4
    <3>2. CASE i # NextSlot
      <4>1. swapchain'[i] = swapchain[i] /\ header'.ready[i] = header.ready[i]
        BY <1>0, <2>1, <3>2
      <4>2. x # swapchain[i]
        BY <1>0, <2>1, <2>4, <3>2, <4>1 DEF SlotsApart
      <4> QED BY <2>1, <2>4, <4>1, <4>2 DEF FencesBounded
    <3> QED BY <3>1, <3>2
  <2> QED BY <2>4 DEF FencesBounded
<1>2. CASE DrawEnd
  <2>1. UNCHANGED <<header, swapchain>> BY <1>2, DrawEnds
  <2>2. ASSUME NEW i \in Index, swapchain[i] # NoResource
        PROVE  /\ fence'[swapchain[i]] <= header.ready[i]
               /\ \A k \in Pending' : drawQueue'[k].res = swapchain[i] =>
                    drawQueue'[k].value <= header.ready[i]
    BY <1>0, <1>2, <2>2, DrawEnds DEF FencesBounded
  <2> QED BY <2>1, <2>2 DEF FencesBounded
<1> QED BY <1>1, <1>2

LEMMA DrawnInOrderKept ==
  ASSUME TypeOK, TypeOK', DrawnInOrder, BeginFrame \/ DrawEnd
  PROVE  DrawnInOrder'
<1>0. /\ Published \in Frame /\ Drawn \in Frame /\ Drawn' \in Frame
      /\ <<header.session, header.frame + 1>> \in Frame
      /\ header.session \in Nat /\ header.frame \in Nat
      /\ \A x \in Resource : content[x] \in Frame
      /\ \A k \in Pending : drawQueue[k].frame \in Frame /\ drawQueue[k].res \in Resource
  <2>1. Drawn' \in Frame BY DEF TypeOK, SharedOK, Header, Drawn, Published, Frame
  <2> QED BY <2>1, FeedTypes
<1>1. CASE BeginFrame
  <2> DEFINE last == Len(drawQueue) + 1
             new  == <<header.session, header.frame + 1>>
  <2>0. PICK x \in Resource : FrameBegun(x) BY <1>1, FrameBegins
  <2>1. /\ UNCHANGED content
        /\ Pending' = Pending \union {last}
        /\ \A k \in Pending : drawQueue'[k] = drawQueue[k] /\ k < last
        /\ drawQueue'[last].frame = new
    BY <2>0 DEF FrameBegun
  <2>2. Drawn = Published /\ Drawn' = new
    BY <2>0 DEF FrameBegun, Drawn
  <2>3. AtLeast(new, Published) /\ AtLeast(new, new)
    BY <1>0 DEF AtLeast, Published
  <2> HIDE DEF last, new
  <2>4. \A y \in Resource : AtLeast(new, content[y])
    BY <1>0, <2>2, <2>3, AtLeastOrder DEF DrawnInOrder
  <2>5. \A k \in Pending : AtLeast(new, drawQueue[k].frame)
    BY <1>0, <2>2, <2>3, AtLeastOrder DEF DrawnInOrder
  <2>6. \A k \in Pending' : AtLeast(new, drawQueue'[k].frame)
    BY <2>1, <2>3, <2>5
  <2>7. \A k \in Pending', y \in Resource : AtLeast(drawQueue'[k].frame, content[y])
    BY <2>1, <2>4 DEF DrawnInOrder
  <2>8. ASSUME NEW k \in Pending', NEW l \in Pending', l <= k
        PROVE  AtLeast(drawQueue'[k].frame, drawQueue'[l].frame)
    <3>1. CASE k = last BY <2>1, <2>6, <3>1
    <3>2. CASE k \in Pending
      <4>1. l \in Pending
        <5>1. k \in Nat /\ last \in Nat BY <3>2, FeedTypes DEF Pending, last
        <5>2. l # last BY <2>1, <2>8, <3>2, <5>1
        <5> QED BY <2>1, <5>2
      <4> QED BY <2>1, <2>8, <3>2, <4>1 DEF DrawnInOrder
    <3> QED BY <2>1, <3>1, <3>2
  <2> QED BY <2>1, <2>2, <2>4, <2>6, <2>7, <2>8 DEF DrawnInOrder
<1>2. CASE DrawEnd
  <2> DEFINE x == drawQueue[1].res
             done == drawQueue[1].frame
  <2>1. /\ 1 \in Pending
        /\ \A k \in Pending' : k + 1 \in Pending /\ drawQueue'[k] = drawQueue[k + 1]
        /\ \A y \in Resource \ {x} : content'[y] = content[y]
        /\ content'[x] = done /\ UNCHANGED <<header, wpc>>
    BY <1>2, DrawEnds
  <2>2. Drawn' = Drawn BY <2>1 DEF Drawn, Published
  <2>3. \A y \in Resource : AtLeast(Drawn, content'[y])
    BY <2>1 DEF DrawnInOrder
  <2>4. \A k \in Pending' : AtLeast(Drawn, drawQueue'[k].frame)
    BY <2>1 DEF DrawnInOrder
  <2>5. ASSUME NEW k \in Pending', NEW y \in Resource
        PROVE  AtLeast(drawQueue'[k].frame, content'[y])
    <3>1. AtLeast(drawQueue[k + 1].frame, content[y]) BY <2>1 DEF DrawnInOrder
    <3>2. AtLeast(drawQueue[k + 1].frame, done)
      <4>1. 1 <= k + 1 BY DEF Pending
      <4> QED BY <2>1, <4>1 DEF DrawnInOrder
    <3> QED BY <2>1, <3>1, <3>2
  <2>6. ASSUME NEW k \in Pending', NEW l \in Pending', l <= k
        PROVE  AtLeast(drawQueue'[k].frame, drawQueue'[l].frame)
    <3>1. l + 1 <= k + 1 BY <2>6 DEF Pending
    <3> QED BY <2>1, <3>1 DEF DrawnInOrder
  <2> QED BY <2>2, <2>3, <2>4, <2>5, <2>6 DEF DrawnInOrder
<1> QED BY <1>1, <1>2

(* A texture keeps what it delivers: frames are drawn to it in their order. *)
LEMMA DeliversKept ==
  ASSUME TypeOK, NEW x \in Resource, NEW v \in Nat, NEW f \in Frame,
         Delivers(x, v, f), DrawEnd \/ (BeginFrame /\ AtLeast(Published, f))
  PROVE  Delivers(x, v, f)'
<1>0. /\ Published \in Frame /\ <<header.session, header.frame + 1>> \in Frame
      /\ header.session \in Nat /\ header.frame \in Nat
  BY FeedTypes
<1>1. CASE BeginFrame /\ AtLeast(Published, f)
  <2> DEFINE last == Len(drawQueue) + 1
  <2>0. PICK y \in Resource : FrameBegun(y) BY <1>1, FrameBegins
  <2>1. /\ UNCHANGED <<content, fence>>
        /\ Pending' = Pending \union {last}
        /\ \A k \in Pending : drawQueue'[k] = drawQueue[k]
        /\ drawQueue'[last].frame = <<header.session, header.frame + 1>>
    BY <2>0 DEF FrameBegun
  <2>2. AtLeast(<<header.session, header.frame + 1>>, Published)
    BY <1>0 DEF AtLeast, Published
  <2>3. AtLeast(drawQueue'[last].frame, f) BY <1>0, <1>1, <2>1, <2>2, AtLeastOrder
  <2> QED BY <2>1, <2>3 DEF Delivers
<1>2. CASE DrawEnd
  BY <1>2, DrawEnds DEF Delivers
<1> QED BY <1>1, <1>2

LEMMA LayersDeliveredKept ==
  ASSUME TypeOK, TypeOK', HeaderNamesSlot, LayersDelivered, BeginFrame \/ DrawEnd
  PROVE  LayersDelivered'
<1> DEFINE x == header.res
           v == header.ready[ThisSlot]
           f == Published
<1>0. /\ v \in Nat /\ f \in Frame /\ AtLeast(Published, f)
      /\ header.layers => x \in Resource
      /\ header.ready \in [Index -> Nat] /\ ThisSlot \in Index /\ NextSlot \in Index
  BY FeedTypes, AtLeastOrder DEF HeaderNamesSlot, MaybeResource
<1>1. PICK fx, fv, ff : fx = x /\ fv = v /\ ff = f OBVIOUS
<1>2. header.layers => Delivers(fx, fv, ff)'
  BY <1>0, <1>1, DeliversKept DEF LayersDelivered
<1>3. /\ header'.res = fx /\ Published' = ff /\ header'.layers = header.layers
      /\ ThisSlot' = ThisSlot /\ header'.ready[ThisSlot] >= fv
  <2>1. CASE BeginFrame
    <3>1. PICK y \in Resource : FrameBegun(y) BY <2>1, FrameBegins
    <3>2. header'.ready[ThisSlot] >= v BY <1>0, <3>1 DEF FrameBegun
    <3> QED BY <1>1, <3>1, <3>2 DEF FrameBegun
  <2>2. CASE DrawEnd
    <3>1. UNCHANGED header BY <2>2, DrawEnds
    <3> QED BY <1>0, <1>1, <3>1 DEF Published, ThisSlot
  <2> QED BY <2>1, <2>2
<1>4. ASSUME header.layers
      PROVE  Delivers(header.res, header.ready[ThisSlot], Published)'
  <2> DEFINE w == header'.ready[ThisSlot]
  <2>1. fx \in Resource /\ fv \in Nat /\ w \in Nat /\ fence' \in [Resource -> Nat]
        /\ drawQueue' \in Seq(Job)
    BY <1>0, <1>1, <1>4 DEF TypeOK, SharedOK, Header, GPUOK
  <2>2. fence'[fx] \in Nat /\ \A k \in Pending' : drawQueue'[k].value \in Nat
    <3>1. \A k \in Pending' : drawQueue'[k] \in Job BY <2>1 DEF Pending
    <3> QED BY <2>1, <3>1 DEF Job
  <2>3. fence'[fx] >= w => AtLeast(content'[fx], ff)
    BY <1>2, <1>3, <1>4, <2>1, <2>2 DEF Delivers
  <2>4. \A k \in Pending' : drawQueue'[k].res = fx /\ drawQueue'[k].value >= w =>
          AtLeast(drawQueue'[k].frame, ff)
    BY <1>2, <1>3, <1>4, <2>1, <2>2 DEF Delivers
  <2> QED BY <1>3, <2>3, <2>4 DEF Delivers
<1> QED BY <1>3, <1>4 DEF LayersDelivered

LEMMA DrawnDeliveredKept ==
  ASSUME TypeOK, OnlyCreated, FencesBounded, DrawnIsNamed, DrawnDelivered,
         BeginFrame \/ DrawEnd
  PROVE  DrawnIsNamed' /\ DrawnDelivered'
<1>0. /\ swapchain \in [Index -> MaybeResource] /\ NextSlot \in Index /\ created \in Nat
      /\ header.ready \in [Index -> Nat] /\ fence \in [Resource -> Nat]
      /\ \A k \in Pending : drawQueue[k].value \in Nat
      /\ Drawn \in Frame /\ <<header.session, header.frame + 1>> \in Frame
  BY FeedTypes
<1>1. CASE BeginFrame
  <2> DEFINE last == Len(drawQueue) + 1
             new  == <<header.session, header.frame + 1>>
             v    == header.ready[NextSlot] + 1
  <2>0. PICK x \in Resource : FrameBegun(x) BY <1>1, FrameBegins
  <2>1. /\ UNCHANGED <<content, fence>>
        /\ Pending' = Pending \union {last}
        /\ \A k \in Pending : drawQueue'[k] = drawQueue[k]
        /\ drawQueue'[last].frame = new
        /\ swapchain' = [swapchain EXCEPT ![NextSlot] = x]
        /\ header'.ready = [header.ready EXCEPT ![NextSlot] = v]
        /\ NextSlot' = NextSlot /\ wpc' = "drawn"
        /\ Drawn' = new
    BY <2>0 DEF FrameBegun, Drawn
  <2>2. swapchain'[NextSlot'] = x /\ header'.ready[NextSlot'] = v /\ v \in Nat
    BY <1>0, <2>1
  <2>3. /\ fence[x] < v
        /\ \A k \in Pending : drawQueue[k].res = x => drawQueue[k].value < v
    <3>1. CASE swapchain[NextSlot] = NoResource
      <4>1. x > created BY <1>0, <2>0, <3>1 DEF FrameBegun
      <4> QED BY <1>0, <4>1 DEF OnlyCreated
    <3>2. CASE swapchain[NextSlot] # NoResource
      <4>1. swapchain[NextSlot] = x BY <2>0, <3>2 DEF FrameBegun
      <4> QED BY <1>0, <3>2, <4>1 DEF FencesBounded
    <3> QED BY <3>1, <3>2
  <2>4. AtLeast(new, new) BY <1>0, AtLeastOrder
  <2> HIDE DEF last, new, v
  <2>5. ~(fence'[x] >= v) BY <1>0, <2>1, <2>2, <2>3
  <2>6. \A k \in Pending' : drawQueue'[k].res = x /\ drawQueue'[k].value >= v =>
          AtLeast(drawQueue'[k].frame, new)
    BY <1>0, <2>1, <2>2, <2>3, <2>4
  <2>7. DrawnIsNamed' BY <2>1, <2>2 DEF DrawnIsNamed
  <2>8. DrawnDelivered'
    BY <2>1, <2>2, <2>5, <2>6 DEF DrawnDelivered, DrawnTexture, Delivers
  <2> QED BY <2>7, <2>8
<1>2. CASE DrawEnd
  <2>1. UNCHANGED <<header, wpc, swapchain>> BY <1>2, DrawEnds
  <2>2. /\ DrawnTexture' = DrawnTexture /\ NextSlot' = NextSlot /\ Drawn' = Drawn
        /\ header'.ready = header.ready
    BY <2>1 DEF DrawnTexture, NextSlot, Drawn, Published
  <2>3. DrawnIsNamed' BY <2>1, <2>2 DEF DrawnIsNamed
  <2>4. ASSUME wpc = "drawn" PROVE Delivers(DrawnTexture, header.ready[NextSlot], Drawn)'
    <3>1. DrawnTexture \in Resource /\ header.ready[NextSlot] \in Nat
      BY <1>0, <2>4 DEF DrawnIsNamed, DrawnTexture
    <3>2. PICK x \in Resource, v \in Nat, f \in Frame :
            x = DrawnTexture /\ v = header.ready[NextSlot] /\ f = Drawn
      BY <1>0, <3>1
    <3>3. Delivers(x, v, f) BY <2>4, <3>2 DEF DrawnDelivered
    <3>4. Delivers(x, v, f)' BY <1>2, <3>3, DeliversKept
    <3> QED BY <2>2, <3>2, <3>4 DEF Delivers
  <2> QED BY <2>1, <2>3, <2>4 DEF DrawnDelivered
<1> QED BY <1>1, <1>2

LEMMA DrawKept ==
  ASSUME TypeOK, TypeOK', LockDiscipline, BareBetween, Orphaned, DrawInv, [Next]_vars,
         HeaderNamesSlot
  PROVE  DrawInv'
<1> USE DEF DrawInv
<1>0. /\ Published \in Frame /\ Drawn \in Frame /\ Drawn' \in Frame /\ Published' \in Frame
      /\ header \in Header /\ header.session \in Nat /\ header.frame \in Nat
      /\ created \in Nat
      /\ \A x \in Resource : content[x] \in Frame
      /\ \A k \in Pending : drawQueue[k].frame \in Frame
      /\ NextSlot \in Index
  <2>1. Drawn' \in Frame /\ Published' \in Frame
    BY DEF TypeOK, SharedOK, Header, Drawn, Published, Frame
  <2> QED BY <2>1, FeedTypes
<1>1. ASSUME UNCHANGED <<drawQueue, content>>, AtLeast(Drawn', Drawn)
      PROVE  DrawnInOrder'
  <2>1. Pending' = Pending BY <1>1 DEF Pending
  <2> QED BY <1>0, <1>1, <2>1, AtLeastOrder DEF DrawnInOrder
<1>2. ASSUME UNCHANGED <<swapchain, created, drawQueue, fence>>,
             header'.ready = header.ready
      PROVE  SlotsApart' /\ OnlyCreated' /\ FencesBounded'
  <2>1. Pending' = Pending BY <1>2 DEF Pending
  <2> QED BY <1>2, <2>1 DEF SlotsApart, OnlyCreated, FencesBounded
<1>3. ASSUME UNCHANGED <<created, drawQueue, fence>>, swapchain' = NoSwapchain
      PROVE  SlotsApart' /\ OnlyCreated' /\ FencesBounded'
  <2>1. Pending' = Pending BY <1>3 DEF Pending
  <2> QED BY <1>0, <1>3, <2>1 DEF SlotsApart, OnlyCreated, FencesBounded, NoSwapchain,
                                  NoResource
<1>4. CASE Quiet
  <2>1. /\ UNCHANGED <<header, swapchain, created, drawQueue, content, fence>>
        /\ (wpc' = "drawn" <=> wpc = "drawn") /\ (wpc' = "off" <=> wpc = "off")
    BY <1>4 DEF Quiet
  <2>2. Pending' = Pending /\ Published' = Published /\ Drawn' = Drawn
        /\ ThisSlot' = ThisSlot /\ NextSlot' = NextSlot /\ DrawnTexture' = DrawnTexture
    BY <2>1 DEF Pending, Published, Drawn, ThisSlot, NextSlot, DrawnTexture
  <2>3. DrawnInOrder' BY <1>0, <1>1, <2>1, <2>2, AtLeastOrder
  <2>4. LayersDelivered' /\ DrawnDelivered' /\ DrawnIsNamed'
    BY <2>1, <2>2 DEF LayersDelivered, DrawnDelivered, DrawnIsNamed, Delivers
  <2> QED BY <1>2, <2>1, <2>3, <2>4
<1>5. CASE Reset
  <2>1. /\ header' = FreshHeader /\ swapchain' = NoSwapchain
        /\ wpc # "drawn" /\ wpc' # "drawn"
        /\ UNCHANGED <<created, drawQueue, content, fence>>
    BY <1>5 DEF Reset, Orphaned
  <2>2. /\ header'.session = header.session + 1 /\ ~header'.layers
    BY <2>1 DEF FreshHeader, EmptyHeader
  <2>3. AtLeast(Drawn', Drawn) BY <1>0, <2>2 DEF AtLeast, Published, Drawn
  <2>4. DrawnInOrder' BY <1>1, <2>1, <2>3
  <2>5. LayersDelivered' /\ DrawnDelivered' /\ DrawnIsNamed'
    BY <2>1, <2>2 DEF LayersDelivered, DrawnDelivered, DrawnIsNamed
  <2> QED BY <1>3, <2>1, <2>4, <2>5
<1>6. CASE Dropped
  <2>1. /\ swapchain' = NoSwapchain /\ wpc = "idle" /\ wpc' = "lockDetach"
        /\ UNCHANGED <<header, created, drawQueue, content, fence>>
    BY <1>6 DEF Dropped
  <2>2. Pending' = Pending /\ Published' = Published /\ Drawn' = Drawn
        /\ ThisSlot' = ThisSlot
    BY <2>1 DEF Pending, Published, Drawn, ThisSlot
  <2>3. DrawnInOrder' BY <1>0, <1>1, <2>1, <2>2, AtLeastOrder
  <2>4. LayersDelivered' /\ DrawnDelivered' /\ DrawnIsNamed'
    BY <2>1, <2>2 DEF LayersDelivered, DrawnDelivered, DrawnIsNamed, Delivers
  <2> QED BY <1>3, <2>1, <2>3, <2>4
<1>7. CASE SubmitFrame
  <2>1. PICK target \in Targets :
          header' = [header EXCEPT !.frame = @ + 1, !.feeder = TRUE, !.layers = TRUE,
                                   !.target = target, !.res = DrawnTexture]
    BY <1>7 DEF SubmitFrame
  <2>2. /\ header'.session = header.session /\ header'.frame = header.frame + 1
        /\ header'.res = DrawnTexture /\ header'.ready = header.ready
    BY <1>0, <2>1 DEF Header
  <2>3. /\ wpc = "drawn" /\ wpc' = "idle"
        /\ UNCHANGED <<swapchain, created, drawQueue, content, fence>>
    BY <1>7 DEF SubmitFrame, gpu
  <2>4. ThisSlot' = NextSlot /\ Pending' = Pending /\ Published' = Drawn /\ Drawn' = Drawn
    BY <2>2, <2>3 DEF ThisSlot, NextSlot, Pending, Published, Drawn
  <2>5. DrawnInOrder' BY <1>0, <1>1, <2>3, <2>4, AtLeastOrder
  <2>6. LayersDelivered'
    BY <2>2, <2>3, <2>4 DEF LayersDelivered, DrawnDelivered, Delivers
  <2>7. DrawnDelivered' /\ DrawnIsNamed' BY <2>3 DEF DrawnDelivered, DrawnIsNamed
  <2> QED BY <1>2, <2>2, <2>3, <2>5, <2>6, <2>7
<1>8. CASE SubmitEmptyFrame
  <2>1. header' = [header EXCEPT !.frame = @ + 1, !.layers = FALSE]
    BY <1>8 DEF SubmitEmptyFrame, EmptiedHeader
  <2>2. /\ header'.session = header.session /\ header'.frame = header.frame + 1
        /\ ~header'.layers /\ header'.ready = header.ready
    BY <1>0, <2>1 DEF Header
  <2>3. /\ wpc = "empty" /\ wpc' = "idle"
        /\ UNCHANGED <<swapchain, created, drawQueue, content, fence>>
    BY <1>8 DEF SubmitEmptyFrame, gpu
  <2>4. Drawn = Published /\ Drawn' = Published' BY <2>3 DEF Drawn
  <2>5. AtLeast(Published', Published) BY <1>0, <2>2 DEF AtLeast, Published
  <2>6. DrawnInOrder' BY <1>1, <2>3, <2>4, <2>5
  <2>7. LayersDelivered' /\ DrawnDelivered' /\ DrawnIsNamed'
    BY <2>2, <2>3 DEF LayersDelivered, DrawnDelivered, DrawnIsNamed
  <2> QED BY <1>2, <2>2, <2>3, <2>6, <2>7
<1>9. CASE BeginFrame \/ DrawEnd
  <2>1. SlotsApart'
    <3>1. CASE DrawEnd
      <4>1. UNCHANGED swapchain BY <3>1, DrawEnds
      <4> QED BY <4>1 DEF SlotsApart
    <3> QED BY <1>9, <3>1, SlotsApartKept
  <2> QED BY <1>9, <2>1, OnlyCreatedKept, FencesBoundedKept, DrawnInOrderKept,
             DrawnDeliveredKept, LayersDeliveredKept
<1>10. CASE WriterCrash
  <2>1. /\ swapchain' = NoSwapchain /\ wpc' = "off" /\ drawQueue' = <<>>
        /\ UNCHANGED <<header, created, content, fence>>
    BY <1>10 DEF WriterCrash
  <2>2. /\ Pending' = {} /\ Published' = Published /\ ThisSlot' = ThisSlot
        /\ Drawn' = <<header.session, header.frame + 1>>
    BY <2>1 DEF Pending, Published, Drawn, ThisSlot
  <2>3. AtLeast(Drawn', Drawn) BY <1>0, <2>2 DEF AtLeast, Published, Drawn
  <2>4. DrawnInOrder' BY <1>0, <2>1, <2>2, <2>3, AtLeastOrder DEF DrawnInOrder
  <2>5. LayersDelivered' /\ DrawnDelivered' /\ DrawnIsNamed'
    BY <2>1, <2>2 DEF LayersDelivered, DrawnDelivered, DrawnIsNamed, Delivers
  <2>6. SlotsApart' /\ OnlyCreated' /\ FencesBounded'
    BY <1>0, <2>1, <2>2 DEF SlotsApart, OnlyCreated, FencesBounded, NoSwapchain, NoResource
  <2> QED BY <2>4, <2>5, <2>6
<1> QED BY <1>4, <1>5, <1>6, <1>7, <1>8, <1>9, <1>10, FeedSteps

LEMMA DrawInit ==
  ASSUME Init
  PROVE  DrawInv
<1>1. /\ swapchain = NoSwapchain /\ created = 0 /\ Len(drawQueue) = 0
      /\ content = [x \in Resource |-> NoFrame] /\ fence = [x \in Resource |-> 0]
      /\ wpc = "off" /\ ~header.layers /\ Published = <<0, 0>>
  BY DEF Init, EmptyHeader, Published
<1>2. Pending = {} /\ Drawn = <<0, 1>>
  BY <1>1 DEF Pending, Drawn, Init, EmptyHeader
<1>3. AtLeast(Drawn, NoFrame) BY <1>2 DEF NoFrame, AtLeast
<1> QED BY <1>1, <1>2, <1>3 DEF DrawInv, SlotsApart, OnlyCreated, FencesBounded, DrawnInOrder,
             DrawnIsNamed, DrawnDelivered, LayersDelivered, NoSwapchain, NoResource

LEMMA DrawAlways ==
  ASSUME ReadersSurvive
  PROVE  Spec => []DrawInv
<1>1. Init => Orphaned BY DEF Init, Orphaned
<1>2. /\ TypeOK /\ TypeOK' /\ LockDiscipline /\ BareBetween /\ HeaderNamesSlot
      /\ Orphaned /\ DrawInv /\ [Next]_vars
      => Orphaned' /\ DrawInv'
  BY OrphanedKept, DrawKept
<1> QED BY TypeCorrect, LockSafe, BareAlways, SlotsAgree, DrawInit, <1>1, <1>2, PTL DEF Spec

(* Unless a reader dies with the lock, the fence value that is published    *)
(* with a frame is reached only by a texture that holds the frame or a      *)
(* newer one, for any number of slots (Writer::SubmitFrame()), although the *)
(* canvas changes and the feeder quits, dies in the middle of a frame and   *)
(* starts again.                                                            *)
THEOREM FenceMeansFrame ==
  ASSUME ReadersSurvive
  PROVE  Spec => []FrameReady
<1>1. TypeOK /\ DrawInv => FrameReady
  BY FeedTypes DEF DrawInv, LayersDelivered, Delivers, FrameReady
<1> QED BY TypeCorrect, DrawAlways, <1>1, PTL

-------------------------------------------------------------------------------
(* The handles a reader has in the session are those of the feeder's slots, *)
(* and a reader with the lock works on the header it has checked.           *)
HandlesInv(r) ==
  /\ reader[r].impl <= header.session
  /\ \A i \in Index :
       reader[r].handles[i].foreign = NoResource => reader[r].handles[i].object = NoResource
  /\ \A i \in Index :
       reader[r].impl = header.session /\ reader[r].handles[i].foreign # NoResource =>
         /\ SwapchainDropped \/ swapchain[i] = reader[r].handles[i].foreign
         /\ header.layers /\ i = ThisSlot => reader[r].handles[i].foreign = header.res

CheckedInv(r) ==
  /\ rpc[r] = "uncached" /\ call[r].texture => header.layers
  /\ rpc[r] \in {"handles", "copy"} => header.layers /\ reader[r].impl = header.session
  /\ rpc[r] = "copy" =>
       call[r].slot = ThisSlot /\ reader[r].handles[ThisSlot].foreign = header.res

HandleInv(r) ==
  HandlesInv(r) /\ CheckedInv(r) /\ fault[r] \subseteq {"duplicateFailed"}

(* What the feeder does leaves the handles right.                           *)
LEMMA HandlesKept ==
  ASSUME TypeOK, LockDiscipline, BareBetween, HeaderNamesSlot, StartsClear, [Next]_vars,
         NEW r \in Readers, HandleInv(r), SameReader(r)
  PROVE  HandleInv(r)'
<1> DEFINE rd == reader[r]
<1>0. /\ header \in Header /\ header.session \in Nat /\ rd.impl \in Nat
      /\ rd.handles \in [Index -> Handle]
      /\ swapchain \in [Index -> MaybeResource] /\ NextSlot \in Index
      /\ header.frame \in Nat
  BY FeedTypes, ReaderTypes
<1>1. CheckedInv(r)'
  <2>1. CASE ReaderLocked(r) /\ header.layers
    <3>1. UNCHANGED header BY <2>1, HeldHeader
    <3>2. ThisSlot' = ThisSlot BY <3>1 DEF ThisSlot
    <3> QED BY <3>1, <3>2 DEF HandleInv, CheckedInv, SameReader
  <2>2. CASE ~(ReaderLocked(r) /\ header.layers)
    BY <2>2 DEF HandleInv, CheckedInv, SameReader, ReaderLocked
  <2> QED BY <2>1, <2>2
<1>2. HandlesInv(r)'
  <2> USE DEF HandlesInv, HandleInv, SameReader
  <2>1. CASE Quiet \/ DrawEnd
    <3>1. UNCHANGED <<header, swapchain>> /\ (SwapchainDropped' <=> SwapchainDropped)
      BY <2>1 DEF Quiet, DrawEnd, shared, writer, SwapchainDropped
    <3>2. ThisSlot' = ThisSlot BY <3>1 DEF ThisSlot
    <3> QED BY <3>1, <3>2
  <2>2. CASE Reset
    <3>1. header'.session = header.session + 1
      BY <2>2 DEF Reset, FreshHeader, EmptyHeader
    <3>2. rd.impl <= header'.session /\ rd.impl # header'.session BY <1>0, <3>1
    <3> QED BY <3>2
  <2>3. CASE Dropped \/ WriterCrash
    <3>1. UNCHANGED header /\ SwapchainDropped'
      BY <2>3 DEF Dropped, WriterCrash, SwapchainDropped
    <3>2. ThisSlot' = ThisSlot BY <3>1 DEF ThisSlot
    <3> QED BY <3>1, <3>2
  <2>4. CASE BeginFrame
    <3>0. PICK x \in Resource : FrameBegun(x) BY <2>4, FrameBegins
    <3>1. /\ header'.session = header.session /\ header'.layers = header.layers
          /\ header'.res = header.res /\ ThisSlot' = ThisSlot
          /\ ~SwapchainDropped
      BY <3>0 DEF FrameBegun, SwapchainDropped
    <3>2. \A i \in Index : swapchain[i] # NoResource => swapchain'[i] = swapchain[i]
      BY <1>0, <3>0 DEF FrameBegun
    <3> QED BY <3>1, <3>2
  <2>5. CASE SubmitFrame
    <3>1. PICK target \in Targets :
            header' = [header EXCEPT !.frame = @ + 1, !.feeder = TRUE, !.layers = TRUE,
                                     !.target = target, !.res = DrawnTexture]
      BY <2>5 DEF SubmitFrame
    <3>2. /\ header'.session = header.session /\ header'.frame = header.frame + 1
          /\ header'.res = swapchain[NextSlot]
      BY <1>0, <3>1 DEF Header, DrawnTexture
    <3>3. ThisSlot' = NextSlot BY <3>2 DEF ThisSlot, NextSlot
    <3>4. UNCHANGED swapchain /\ ~SwapchainDropped
      BY <2>5 DEF SubmitFrame, SwapchainDropped
    <3> QED BY <3>2, <3>3, <3>4
  <2>6. CASE SubmitEmptyFrame
    <3>1. header' = [header EXCEPT !.frame = @ + 1, !.layers = FALSE]
      BY <2>6 DEF SubmitEmptyFrame, EmptiedHeader
    <3>2. header'.session = header.session /\ ~header'.layers
      BY <1>0, <3>1 DEF Header
    <3>3. UNCHANGED swapchain /\ ~SwapchainDropped
      BY <2>6 DEF SubmitEmptyFrame, SwapchainDropped
    <3> QED BY <3>2, <3>3
  <2> QED BY <2>1, <2>2, <2>3, <2>4, <2>5, <2>6, FeedSteps
<1> QED BY <1>1, <1>2 DEF HandleInv, SameReader

(* The steps of a reader, by what they do to its handles.                   *)
LEMMA HandlesStepped ==
  ASSUME TypeOK, HeaderNamesSlot, NEW r \in Readers, HandleInv(r), StepOf(r)
  PROVE  HandlesInv(r)'
<1> DEFINE rd == reader[r]
           upd == UpdatedImpl(rd)
<1>0. /\ header \in Header /\ header.session \in Nat /\ rd \in Reader
      /\ rd.impl \in Nat /\ rd.handles \in [Index -> Handle]
      /\ reader \in [Readers -> Reader] /\ ThisSlot \in Index
      /\ NoHandles \in [Index -> Handle]
  BY FeedTypes, ReaderTypes, NoHandlesType DEF TypeOK, ReadersOK
<1>1. UNCHANGED swapchain /\ (SwapchainDropped' <=> SwapchainDropped)
  BY ReaderHeader DEF StepOf, writer, SwapchainDropped
<1>2. ASSUME \/ /\ \A i \in Index : /\ reader'[r].handles[i].foreign = rd.handles[i].foreign
                                    /\ rd.handles[i].foreign = NoResource =>
                                         reader'[r].handles[i].object = NoResource
                /\ reader'[r].impl = rd.impl
             \/ reader'[r].handles = NoHandles /\ reader'[r].impl = header.session
      PROVE  HandlesInv(r)'
  <2>1. \A i \in Index : reader'[r].handles[i].foreign = NoResource =>
                             reader'[r].handles[i].object = NoResource
    <3>1. \A i \in Index : NoHandles[i].object = NoResource BY DEF NoHandles, NoHandle
    <3> QED BY <1>2, <3>1
  <2>2. reader'[r].impl \in Nat /\ reader'[r].impl <= header.session
    BY <1>0, <1>2 DEF HandlesInv, HandleInv
  <2>3. CASE header' = FreshHeader
    <3>1. header'.session = header.session + 1 BY <2>3 DEF FreshHeader, EmptyHeader
    <3>2. reader'[r].impl <= header'.session /\ reader'[r].impl # header'.session
      BY <1>0, <2>2, <3>1
    <3> QED BY <2>1, <3>2 DEF HandlesInv
  <2>4. CASE UNCHANGED header
    <3>1. ThisSlot' = ThisSlot BY <2>4 DEF ThisSlot
    <3>2. CASE reader'[r].handles = NoHandles
      <4>1. \A i \in Index : NoHandles[i].foreign = NoResource BY DEF NoHandles, NoHandle
      <4> QED BY <2>1, <2>2, <2>4, <3>2, <4>1 DEF HandlesInv
    <3>3. CASE /\ \A i \in Index : reader'[r].handles[i].foreign = rd.handles[i].foreign
               /\ reader'[r].impl = rd.impl
      <4>1. \A i \in Index :
              rd.impl = header.session /\ rd.handles[i].foreign # NoResource =>
                /\ SwapchainDropped \/ swapchain[i] = rd.handles[i].foreign
                /\ header.layers /\ i = ThisSlot => rd.handles[i].foreign = header.res
        BY DEF HandlesInv, HandleInv
      <4>2. \A i \in Index :
              reader'[r].impl = header'.session /\ reader'[r].handles[i].foreign # NoResource =>
                /\ SwapchainDropped' \/ swapchain'[i] = reader'[r].handles[i].foreign
                /\ header'.layers /\ i = ThisSlot' =>
                     reader'[r].handles[i].foreign = header'.res
        BY <1>1, <2>4, <3>1, <3>3, <4>1
      <4> QED BY <2>1, <2>2, <2>4, <4>2 DEF HandlesInv
    <3> QED BY <1>2, <3>2, <3>3
  <2> QED BY <2>3, <2>4, ReaderResets
<1>3. ASSUME NEW d \in Reader
      PROVE  /\ UpdatedImpl(d) \in Reader
             /\ \/ UpdatedImpl(d).handles = d.handles /\ UpdatedImpl(d).impl = d.impl
                \/ /\ UpdatedImpl(d).handles = NoHandles
                   /\ UpdatedImpl(d).impl = header.session
  <2>1. UpdatedImpl(d) \in Reader BY <1>0, UpdatedImplType
  <2>2. CASE d.impl = header.session BY <1>3, <2>1, <2>2 DEF UpdatedImpl
  <2>3. CASE d.impl # header.session
    <3>1. UpdatedImpl(d).impl = header.session /\ UpdatedImpl(d).handles = NoHandles
      BY <1>3, <2>3 DEF UpdatedImpl, Reader
    <3> QED BY <2>1, <3>1
  <2> QED BY <2>2, <2>3
<1>10. \A i \in Index : rd.handles[i].foreign = NoResource => rd.handles[i].object = NoResource
  BY DEF HandlesInv, HandleInv
<1>4. CASE \/ ReaderStart(r) \/ MaybeGet(r) \/ MaybeGetMetadata(r) \/ CheckFeeder(r)
           \/ ReadSession(r) \/ ReadKeySession(r) \/ LookUp(r) \/ ReaderLock(r)
           \/ CheckLayers(r) \/ ReaderCrash(r)
  <2>1. UNCHANGED reader
    BY <1>4 DEF ReaderStart, MaybeGet, MaybeGetMetadata, CheckFeeder, ReadSession,
                ReadKeySession, LookUp, ReaderLock, CheckLayers, ReaderCrash
  <2> QED BY <1>2, <1>10, <2>1
<1>5. CASE InitializeCache(r)
  <2>1. reader'[r].handles = rd.handles /\ reader'[r].impl = rd.impl
    BY <1>0, <1>5 DEF InitializeCache, Reader
  <2> QED BY <1>2, <1>10, <2>1
<1>6. CASE UpdateSession(r)
  <2> DEFINE rel == Released(rd)
  <2>1. rel \in Reader BY <1>0, ReleasedType
  <2>2. /\ \A i \in Index : /\ rel.handles[i].foreign = rd.handles[i].foreign
                            /\ rel.handles[i].object = rd.handles[i].foreign
        /\ rel.impl = rd.impl
    BY <1>0 DEF Released, Reader
  <2>3. reader'[r] = [UpdatedImpl(rel) EXCEPT !.session = call[r].session]
    BY <1>0, <1>6 DEF UpdateSession
  <2> HIDE DEF rel
  <2>4. /\ reader'[r].handles = UpdatedImpl(rel).handles
        /\ reader'[r].impl = UpdatedImpl(rel).impl
    BY <1>3, <2>1, <2>3 DEF Reader
  <2> QED BY <1>2, <1>3, <2>1, <2>2, <2>4
<1>7. CASE \/ IncorrectKind(r) \/ TakeMetadata(r) \/ IncorrectGPU(r) \/ MatchSession(r)
           \/ TakeSnapshot(r)
  <2>1. /\ upd \in Reader
        /\ \/ upd.handles = rd.handles /\ upd.impl = rd.impl
           \/ upd.handles = NoHandles /\ upd.impl = header.session
    BY <1>0, <1>3
  <2>2. \E d \in {rd, upd} : \/ reader'[r] = d
                             \/ \E f, state : reader'[r] = Cached(d, r, f, state)
    BY <1>0, <1>7 DEF IncorrectKind, TakeMetadata, IncorrectGPU, MatchSession, TakeSnapshot
  <2>3. \E d \in {rd, upd} : reader'[r].handles = d.handles /\ reader'[r].impl = d.impl
    BY <1>0, <2>1, <2>2 DEF Cached, Reader
  <2> QED BY <1>2, <1>10, <2>1, <2>3
<1>8. CASE FindHandles(r)
  <2>1. rpc[r] = "handles" /\ header.layers /\ rd.impl = header.session
    BY <1>8 DEF FindHandles, Step, HandleInv, CheckedInv
  <2>2. UNCHANGED header /\ ThisSlot' = ThisSlot BY <1>8 DEF FindHandles, ThisSlot
  <2>3. \/ UNCHANGED reader
        \/ \E object \in Objects(r) :
             reader' = [reader EXCEPT ![r].handles[ThisSlot] =
                         [foreign |-> header.res, object |-> object]]
    BY <1>8 DEF FindHandles
  <2>4. CASE UNCHANGED reader BY <1>2, <1>10, <2>4
  <2>5. ASSUME NEW object \in Objects(r),
               reader' = [reader EXCEPT ![r].handles[ThisSlot] =
                           [foreign |-> header.res, object |-> object]]
        PROVE  HandlesInv(r)'
    <3>1. /\ reader'[r].impl = header.session
          /\ reader'[r].handles = [rd.handles EXCEPT ![ThisSlot] =
                                    [foreign |-> header.res, object |-> object]]
      BY <1>0, <2>1, <2>5 DEF Reader
    <3>2. ASSUME NEW i \in Index, i # ThisSlot
          PROVE  reader'[r].handles[i] = rd.handles[i]
      BY <1>0, <3>1, <3>2
    <3>3. reader'[r].handles[ThisSlot].foreign = header.res
      BY <1>0, <3>1
    <3>4. header.res # NoResource /\ (SwapchainDropped \/ swapchain[ThisSlot] = header.res)
      BY <2>1 DEF HeaderNamesSlot
    <3>5. ASSUME NEW i \in Index
          PROVE  /\ reader'[r].handles[i].foreign = NoResource =>
                      reader'[r].handles[i].object = NoResource
                 /\ reader'[r].handles[i].foreign # NoResource =>
                      /\ SwapchainDropped \/ swapchain[i] = reader'[r].handles[i].foreign
                      /\ i = ThisSlot => reader'[r].handles[i].foreign = header.res
      BY <2>1, <3>2, <3>3, <3>4 DEF HandlesInv, HandleInv
    <3> QED BY <1>0, <1>1, <2>2, <3>1, <3>5 DEF HandlesInv
  <2> QED BY <2>3, <2>4, <2>5
<1> QED BY <1>4, <1>5, <1>6, <1>7, <1>8 DEF StepOf, ReaderStep

(* The steps of a reader, by what it has checked and run into.              *)
LEMMA CheckedStepped ==
  ASSUME TypeOK, HeaderNamesSlot, NEW r \in Readers, HandleInv(r), StepOf(r)
  PROVE  CheckedInv(r)' /\ fault'[r] \subseteq {"duplicateFailed"}
<1> DEFINE rd == reader[r]
<1>0. /\ header \in Header /\ rd \in Reader /\ rd.handles \in [Index -> Handle]
      /\ reader \in [Readers -> Reader] /\ call \in [Readers -> Call] /\ call[r] \in Call
      /\ rpc \in [Readers -> {"off", "idle", "feeder", "session", "release", "keySession",
                    "keyFrame", "lock", "locked", "uncached", "handles", "copy", "dead"}]
      /\ fault \in [Readers -> SUBSET {"handlesReplaced", "duplicateFailed", "emptyCache"}]
      /\ ThisSlot \in Index
  BY FeedTypes, ReaderTypes DEF TypeOK, ReadersOK
<1>2. fault[r] \subseteq {"duplicateFailed"} BY DEF HandleInv
<1>3. ASSUME rpc'[r] \notin {"uncached", "handles", "copy"}
      PROVE  CheckedInv(r)'
  BY <1>3 DEF CheckedInv
<1>4. CASE \/ ReaderStart(r) \/ InitializeCache(r) \/ MaybeGet(r) \/ MaybeGetMetadata(r)
           \/ CheckFeeder(r) \/ ReadSession(r) \/ UpdateSession(r) \/ ReadKeySession(r)
           \/ LookUp(r)
  <2>1. UNCHANGED fault
    BY <1>4 DEF ReaderStart, InitializeCache, MaybeGet, MaybeGetMetadata, CheckFeeder,
                ReadSession, UpdateSession, ReadKeySession, LookUp
  <2>2. rpc'[r] \notin {"uncached", "handles", "copy"}
    BY <1>0, <1>4 DEF ReaderStart, InitializeCache, MaybeGet, MaybeGetMetadata, CheckFeeder,
                ReadSession, UpdateSession, ReadKeySession, LookUp, Step, Return
  <2> QED BY <1>2, <1>3, <2>1, <2>2
<1>5. CASE IncorrectKind(r) \/ TakeMetadata(r) \/ IncorrectGPU(r) \/ ReaderCrash(r)
  <2>1. UNCHANGED fault /\ rpc'[r] \in {"idle", "dead"}
    BY <1>0, <1>5 DEF IncorrectKind, TakeMetadata, IncorrectGPU, ReaderCrash, Return, Step
  <2> QED BY <1>2, <1>3, <2>1
<1>6. CASE ReaderLock(r)
  <2>1. /\ UNCHANGED <<call, fault>> /\ rpc'[r] \in {"locked", "uncached"}
        /\ rpc'[r] = "uncached" => ~call[r].texture
    BY <1>0, <1>6 DEF ReaderLock, Step, Call
  <2> QED BY <1>2, <2>1 DEF CheckedInv
<1>7. CASE CheckLayers(r)
  <2>1. UNCHANGED fault BY <1>7 DEF CheckLayers
  <2>2. CASE header.layers
    <3>1. rpc'[r] = "uncached" BY <1>0, <1>7, <2>2 DEF CheckLayers, Step
    <3>2. UNCHANGED header BY <1>7 DEF CheckLayers
    <3> QED BY <1>2, <2>1, <2>2, <3>1, <3>2 DEF CheckedInv
  <2>3. CASE ~header.layers
    <3>1. rpc'[r] = "idle" BY <1>0, <1>7, <2>3 DEF CheckLayers, Return, Step
    <3> QED BY <1>2, <1>3, <2>1, <3>1
  <2> QED BY <2>2, <2>3
<1>8. CASE MatchSession(r)
  <2>1. /\ UNCHANGED fault /\ rpc[r] = "uncached" /\ rpc'[r] = "handles" /\ header.layers
        /\ reader'[r] = UpdatedImpl(rd)
    BY <1>0, <1>8 DEF MatchSession, Step, HandleInv, CheckedInv
  <2>2. reader'[r].impl = header.session
    BY <1>0, <2>1 DEF UpdatedImpl, Reader
  <2>3. UNCHANGED header BY <1>8 DEF MatchSession, shared
  <2> QED BY <1>2, <2>1, <2>2, <2>3 DEF CheckedInv
<1>9. CASE FindHandles(r)
  <2> DEFINE h == rd.handles[ThisSlot]
             replace == h # NoHandle /\ h.foreign # header.res
             duplicate == h = NoHandle \/ replace
             open == \E i \in Index : swapchain[i] = header.res /\ header.res # NoResource
  <2>1. rpc[r] = "handles" /\ header.layers /\ rd.impl = header.session
    BY <1>9 DEF FindHandles, Step, HandleInv, CheckedInv
  <2>2. h \in Handle /\ (h.foreign = NoResource => h.object = NoResource)
    BY <1>0 DEF HandleInv, HandlesInv
  <2>3. h # NoHandle => h.foreign # NoResource
    BY <2>2 DEF Handle, NoHandle
  <2>4. ~replace
    BY <1>0, <2>1, <2>3 DEF HandleInv, HandlesInv
  <2>5. fault'[r] \subseteq {"duplicateFailed"}
    <3>1. fault'[r] = fault[r] \union
            ((IF replace THEN {"handlesReplaced"} ELSE {}) \union
             (IF duplicate /\ ~open THEN {"duplicateFailed"} ELSE {}))
      BY <1>0, <1>9 DEF FindHandles
    <3> QED BY <1>2, <2>4, <3>1
  <2>6. CASE duplicate /\ ~open
    <3>1. rpc'[r] = "dead" BY <1>0, <1>9, <2>6 DEF FindHandles, Step
    <3> QED BY <1>3, <2>5, <3>1
  <2>7. CASE ~(duplicate /\ ~open)
    <3>1. /\ rpc'[r] = "copy"
          /\ call' = [call EXCEPT ![r].slot = ThisSlot]
      BY <1>0, <1>9, <2>7 DEF FindHandles, Step
    <3>2. call'[r].slot = ThisSlot BY <1>0, <3>1 DEF Call
    <3>3. reader'[r].impl = header.session /\ reader'[r].handles[ThisSlot].foreign = header.res
      <4>1. CASE duplicate
        <5>1. PICK object \in Objects(r) :
                reader' = [reader EXCEPT ![r].handles[ThisSlot] =
                            [foreign |-> header.res, object |-> object]]
          BY <1>9, <2>7, <4>1 DEF FindHandles
        <5>2. /\ reader'[r].impl = header.session
              /\ reader'[r].handles = [rd.handles EXCEPT ![ThisSlot] =
                                        [foreign |-> header.res, object |-> object]]
          BY <1>0, <2>1, <5>1 DEF Reader
        <5> QED BY <1>0, <5>2
      <4>2. CASE ~duplicate
        <5>1. UNCHANGED reader BY <1>9, <2>7, <4>2 DEF FindHandles
        <5> QED BY <2>1, <2>4, <4>2, <5>1
      <4> QED BY <4>1, <4>2
    <3>4. UNCHANGED header /\ ThisSlot' = ThisSlot BY <1>9 DEF FindHandles, ThisSlot
    <3> QED BY <2>1, <2>5, <3>1, <3>2, <3>3, <3>4 DEF CheckedInv
  <2> QED BY <2>6, <2>7
<1>10. CASE TakeSnapshot(r)
  <2>1. rpc[r] = "copy" /\ header.layers
    BY <1>10 DEF TakeSnapshot, HandleInv, CheckedInv
  <2>2. header.feeder BY <2>1 DEF HeaderNamesSlot
  <2>3. UNCHANGED fault /\ Return(r, "copy", Published) BY <1>10, <2>2 DEF TakeSnapshot
  <2>4. rpc'[r] = "idle" BY <1>0, <2>3 DEF Return, Step
  <2> QED BY <1>2, <1>3, <2>3, <2>4
<1> QED BY <1>4, <1>5, <1>6, <1>7, <1>8, <1>9, <1>10 DEF StepOf, ReaderStep

LEMMA HandlesAlways == Spec /\ [][StartsClear]_vars => [](\A r \in Readers : HandleInv(r))
<1> DEFINE Inv == \A r \in Readers : HandleInv(r)
<1>1. Init => Inv
  <2> SUFFICES ASSUME Init, NEW r \in Readers PROVE HandleInv(r) OBVIOUS
  <2>1. reader[r] = NewReader /\ header.session = 0 /\ rpc[r] = "off" /\ fault[r] = {}
    BY DEF Init, EmptyHeader
  <2> QED BY <2>1 DEF HandleInv, HandlesInv, CheckedInv, NewReader, NoHandles, NoHandle
<1>2. /\ TypeOK /\ LockDiscipline /\ BareBetween /\ HeaderNamesSlot /\ Inv
      /\ [Next]_vars /\ [StartsClear]_vars
      => Inv'
  <2> SUFFICES ASSUME TypeOK, LockDiscipline, BareBetween, HeaderNamesSlot, Inv,
                      [Next]_vars, [StartsClear]_vars, NEW r \in Readers
               PROVE  HandleInv(r)'
    OBVIOUS
  <2>1. CASE SameReader(r) BY <2>1, HandlesKept, ClearStep
  <2>2. CASE StepOf(r)
    BY <2>2, HandlesStepped, CheckedStepped DEF HandleInv
  <2> QED BY <2>1, <2>2, OthersLeave
<1> QED BY TypeCorrect, LockSafe, BareAlways, SlotsAgree, <1>1, <1>2, PTL DEF Spec

LEMMA HandlesFollow ==
  ASSUME \A r \in Readers : HandleInv(r)
  PROVE  HandlesFollowSession
BY DEF HandleInv, HandlesFollowSession

(* Unless the feeder dies, a reader never finds handles of another texture  *)
(* than the header names, nor falls back to an empty cache: that            *)
(* Impl::UpdateSession() "should have nuked the whole lot" (SHM.cpp 680) is *)
(* true, through resizes and restarts of the feeder, readers that die with  *)
(* the lock and handle numbers that are used again.                         *)
THEOREM HandlesAreTheSessions ==
  ASSUME FeederSurvives
  PROVE  Spec => []HandlesFollowSession
BY SurvivorsStartClear, HandlesAlways, HandlesFollow, PTL

-------------------------------------------------------------------------------
(* A reader with the lock that is about to copy has the handles the header   *)
(* names, unless a feeder has started meanwhile, whose header has no frame. *)
ChosenInv(r) ==
  header.frame = 0 \/
    /\ rpc[r] = "uncached" /\ call[r].texture => header.layers
    /\ rpc[r] \in {"handles", "copy"} => header.layers
    /\ rpc[r] = "copy" =>
         call[r].slot = ThisSlot /\ reader[r].handles[ThisSlot].foreign = header.res

LEMMA ChosenKept ==
  ASSUME LockDiscipline, [Next]_vars, NEW r \in Readers, ChosenInv(r), SameReader(r)
  PROVE  ChosenInv(r)'
<1>1. CASE ~ReaderLocked(r)
  BY <1>1 DEF ChosenInv, SameReader, ReaderLocked
<1>2. CASE ReaderLocked(r)
  <2>1. mutex = r /\ ~WriterLocked /\ mutex # NoOne
    BY <1>2, SHMAssumption DEF LockDiscipline
  <2>2. CASE UNCHANGED header
    <3>1. ThisSlot' = ThisSlot BY <2>2 DEF ThisSlot
    <3> QED BY <2>2, <3>1 DEF ChosenInv, SameReader
  <2>3. CASE WriterStart
    <3>1. header'.frame = 0 BY <2>3 DEF WriterStart, FreshHeader, EmptyHeader
    <3> QED BY <3>1 DEF ChosenInv
  <2> QED BY <2>1, <2>2, <2>3, HeaderOwners
<1> QED BY <1>1, <1>2

LEMMA ChosenStepped ==
  ASSUME TypeOK, NEW r \in Readers, ChosenInv(r), StepOf(r)
  PROVE  ChosenInv(r)'
<1> DEFINE rd == reader[r]
<1>0. /\ header \in Header /\ rd \in Reader /\ rd.handles \in [Index -> Handle]
      /\ reader \in [Readers -> Reader] /\ call \in [Readers -> Call] /\ call[r] \in Call
      /\ rpc \in [Readers -> {"off", "idle", "feeder", "session", "release", "keySession",
                    "keyFrame", "lock", "locked", "uncached", "handles", "copy", "dead"}]
      /\ ThisSlot \in Index
  BY FeedTypes, ReaderTypes DEF TypeOK, ReadersOK
<1>1. ASSUME rpc'[r] \notin {"uncached", "handles", "copy"}
      PROVE  ChosenInv(r)'
  BY <1>1 DEF ChosenInv
<1>2. CASE \/ ReaderStart(r) \/ InitializeCache(r) \/ MaybeGet(r) \/ MaybeGetMetadata(r)
           \/ CheckFeeder(r) \/ ReadSession(r) \/ UpdateSession(r) \/ ReadKeySession(r)
           \/ LookUp(r)
  <2>1. rpc'[r] \notin {"uncached", "handles", "copy"}
    BY <1>0, <1>2 DEF ReaderStart, InitializeCache, MaybeGet, MaybeGetMetadata, CheckFeeder,
                ReadSession, UpdateSession, ReadKeySession, LookUp, Step, Return
  <2> QED BY <1>1, <2>1
<1>3. CASE \/ IncorrectKind(r) \/ TakeMetadata(r) \/ IncorrectGPU(r) \/ ReaderCrash(r)
           \/ TakeSnapshot(r)
  <2>1. rpc'[r] \in {"idle", "dead"}
    BY <1>0, <1>3 DEF IncorrectKind, TakeMetadata, IncorrectGPU, ReaderCrash, TakeSnapshot,
                Return, Step
  <2> QED BY <1>1, <2>1
<1>4. CASE ReaderLock(r)
  <2>1. /\ UNCHANGED call /\ rpc'[r] \in {"locked", "uncached"}
        /\ rpc'[r] = "uncached" => ~call[r].texture
    BY <1>0, <1>4 DEF ReaderLock, Step, Call
  <2> QED BY <2>1 DEF ChosenInv
<1>5. CASE CheckLayers(r)
  <2>1. UNCHANGED header BY <1>5 DEF CheckLayers
  <2>2. CASE header.layers
    <3>1. rpc'[r] = "uncached" BY <1>0, <1>5, <2>2 DEF CheckLayers, Step
    <3> QED BY <2>1, <2>2, <3>1 DEF ChosenInv
  <2>3. CASE ~header.layers
    <3>1. rpc'[r] = "idle" BY <1>0, <1>5, <2>3 DEF CheckLayers, Return, Step
    <3> QED BY <1>1, <3>1
  <2> QED BY <2>2, <2>3
<1>6. CASE MatchSession(r)
  <2>1. /\ UNCHANGED header /\ rpc[r] = "uncached" /\ call[r].texture /\ rpc'[r] = "handles"
    BY <1>0, <1>6 DEF MatchSession, Step, shared
  <2> QED BY <2>1 DEF ChosenInv
<1>7. CASE FindHandles(r)
  <2> DEFINE h == rd.handles[ThisSlot]
             replace == h # NoHandle /\ h.foreign # header.res
             duplicate == h = NoHandle \/ replace
             open == \E i \in Index : swapchain[i] = header.res /\ header.res # NoResource
  <2>1. /\ rpc[r] = "handles" /\ UNCHANGED header /\ ThisSlot' = ThisSlot
    BY <1>7 DEF FindHandles, Step, ThisSlot
  <2>2. CASE duplicate /\ ~open
    <3>1. rpc'[r] = "dead" BY <1>0, <1>7, <2>2 DEF FindHandles, Step
    <3> QED BY <1>1, <3>1
  <2>3. CASE ~(duplicate /\ ~open)
    <3>1. rpc'[r] = "copy" /\ call' = [call EXCEPT ![r].slot = ThisSlot]
      BY <1>0, <1>7, <2>3 DEF FindHandles, Step
    <3>2. call'[r].slot = ThisSlot BY <1>0, <3>1 DEF Call
    <3>3. reader'[r].handles[ThisSlot].foreign = header.res
      <4>1. CASE duplicate
        <5>1. PICK object \in Objects(r) :
                reader' = [reader EXCEPT ![r].handles[ThisSlot] =
                            [foreign |-> header.res, object |-> object]]
          BY <1>7, <2>3, <4>1 DEF FindHandles
        <5>2. reader'[r].handles = [rd.handles EXCEPT ![ThisSlot] =
                                     [foreign |-> header.res, object |-> object]]
          BY <1>0, <5>1 DEF Reader
        <5> QED BY <1>0, <5>2
      <4>2. CASE ~duplicate
        <5>1. UNCHANGED reader BY <1>7, <2>3, <4>2 DEF FindHandles
        <5> QED BY <4>2, <5>1
      <4> QED BY <4>1, <4>2
    <3> QED BY <2>1, <3>1, <3>2, <3>3 DEF ChosenInv
  <2> QED BY <2>2, <2>3
<1> QED BY <1>2, <1>3, <1>4, <1>5, <1>6, <1>7 DEF StepOf, ReaderStep

(* The copy is of a published frame, and of the texture its metadata names. *)
Describes(c) == c.frame[2] > 0 /\ c.res = c.named

(* What has been copied, or waits to be, is what its snapshot describes.    *)
CopiesInv(r) ==
  /\ \A k \in 1 .. Len(copyQueue[r]) :
       Describes(copyQueue[r][k]) =>
         /\ copyQueue[r][k].res \in Resource
         /\ AtLeast(Published, copyQueue[r][k].frame)
         /\ Delivers(copyQueue[r][k].res, copyQueue[r][k].value, copyQueue[r][k].frame)
  /\ copying[r] /\ Describes(copyQueue[r][1]) =>
       AtLeast(content[copyQueue[r][1].res], copyQueue[r][1].frame)

LEMMA CopyTypes ==
  ASSUME TypeOK, NEW r \in Readers
  PROVE  /\ copyQueue[r] \in Seq(Copy) /\ Len(copyQueue[r]) \in Nat
         /\ \A k \in 1 .. Len(copyQueue[r]) :
              /\ copyQueue[r][k] \in Copy
              /\ copyQueue[r][k].value \in Nat /\ copyQueue[r][k].frame \in Frame
         /\ copying[r] => 1 \in 1 .. Len(copyQueue[r])
<1>1. copyQueue[r] \in Seq(Copy) BY DEF TypeOK, CopiesOK
<1>2. \A k \in 1 .. Len(copyQueue[r]) : copyQueue[r][k] \in Copy BY <1>1
<1>3. copying[r] => copyQueue[r] # <<>> BY DEF TypeOK, CopiesOK
<1> QED BY <1>1, <1>2, <1>3 DEF Copy

(* A step changes no texture, or draws in order.                            *)
LEMMA DrawnSteps ==
  ASSUME TypeOK, LockDiscipline, BareBetween, DrawnInOrder, [Next]_vars
  PROVE  /\ \/ UNCHANGED <<content, fence>> /\ drawQueue' \in {drawQueue, <<>>}
            \/ BeginFrame \/ DrawEnd
         /\ \A x \in Resource : AtLeast(content'[x], content[x])
<1>0. \A x \in Resource : content[x] \in Frame /\ AtLeast(content[x], content[x])
  BY FeedTypes, AtLeastOrder
<1>1. \/ UNCHANGED <<content, fence>> /\ drawQueue' \in {drawQueue, <<>>}
      \/ BeginFrame \/ DrawEnd
  BY FeedSteps DEF Quiet, Reset, Dropped, WriterCrash, SubmitFrame, SubmitEmptyFrame, gpu
<1>2. CASE UNCHANGED content BY <1>0, <1>1, <1>2
<1>3. CASE BeginFrame
  <2>1. UNCHANGED content BY <1>3 DEF BeginFrame
  <2> QED BY <1>0, <1>1, <2>1
<1>4. CASE DrawEnd
  BY <1>0, <1>4, DrawEnds DEF DrawnInOrder
<1> QED BY <1>1, <1>2, <1>3, <1>4

(* Copies that are queued keep what they wait for.                          *)
LEMMA QueuedKept ==
  ASSUME TypeOK, LockDiscipline, BareBetween, DrawnInOrder, Advances,
         Published' \in Frame, [Next]_vars,
         NEW x \in Resource, NEW v \in Nat, NEW f \in Frame,
         Delivers(x, v, f), AtLeast(Published, f)
  PROVE  Delivers(x, v, f)' /\ AtLeast(Published', f)
<1>1. AtLeast(Published', f) BY FeedTypes, AtLeastOrder DEF Advances
<1>2. CASE UNCHANGED <<content, fence, drawQueue>>
  <2>1. Pending' = Pending BY <1>2 DEF Pending
  <2> QED BY <1>1, <1>2, <2>1 DEF Delivers
<1>3. CASE UNCHANGED <<content, fence>> /\ drawQueue' = <<>>
  <2>1. Pending' = {} BY <1>3 DEF Pending
  <2> QED BY <1>1, <1>3, <2>1 DEF Delivers
<1> QED BY <1>1, <1>2, <1>3, DrawnSteps, DeliversKept

(* What holds of a copy from when it is queued.                             *)
Promised(c) ==
  Describes(c) =>
    c.res \in Resource /\ AtLeast(Published, c.frame) /\ Delivers(c.res, c.value, c.frame)

LEMMA CopiesKept ==
  ASSUME TypeOK, TypeOK', LockDiscipline, BareBetween, HeaderNamesSlot, DrawInv,
         [Next]_vars, NEW r \in Readers, ChosenInv(r), CopiesInv(r)
  PROVE  CopiesInv(r)'
<1>0. /\ copyQueue[r] \in Seq(Copy) /\ Len(copyQueue[r]) \in Nat
      /\ \A k \in 1 .. Len(copyQueue[r]) :
           /\ copyQueue[r][k] \in Copy
           /\ copyQueue[r][k].value \in Nat /\ copyQueue[r][k].frame \in Frame
      /\ copying[r] => 1 \in 1 .. Len(copyQueue[r])
      /\ copyQueue \in [Readers -> Seq(Copy)] /\ copying \in [Readers -> BOOLEAN]
  BY CopyTypes DEF TypeOK, CopiesOK
<1>1. Published' \in Frame /\ content' \in [Resource -> Frame]
  BY DEF TypeOK, SharedOK, Header, Published, Frame, GPUOK
<1>2. ASSUME NEW c \in Copy, Promised(c)
      PROVE  Promised(c)'
  <2>1. CASE ~Describes(c) BY <2>1 DEF Promised, Describes
  <2>2. CASE Describes(c)
    <3>1. /\ c.res \in Resource /\ c.value \in Nat /\ c.frame \in Frame
          /\ AtLeast(Published, c.frame) /\ Delivers(c.res, c.value, c.frame)
      BY <1>2, <2>2 DEF Promised, Copy
    <3>2. Advances BY FeedAdvances
    <3>3. Delivers(c.res, c.value, c.frame)' /\ AtLeast(Published', c.frame)
      BY <1>1, <3>1, <3>2, QueuedKept DEF DrawInv
    <3> QED BY <3>1, <3>3 DEF Promised
  <2> QED BY <2>1, <2>2
<1>3. ASSUME NEW c \in Copy, Promised(c), Describes(c), AtLeast(content[c.res], c.frame)
      PROVE  AtLeast(content'[c.res], c.frame)
  <2>1. c.res \in Resource /\ c.frame \in Frame BY <1>3 DEF Promised, Copy
  <2>2. content[c.res] \in Frame /\ content'[c.res] \in Frame
    BY <1>1, <2>1, FeedTypes
  <2>3. AtLeast(content'[c.res], content[c.res]) BY <2>1, DrawnSteps DEF DrawInv
  <2> QED BY <1>3, <2>1, <2>2, <2>3, AtLeastOrder
<1>4. \A k \in 1 .. Len(copyQueue[r]) : Promised(copyQueue[r][k])
  BY DEF CopiesInv, Promised
<1>5. copying[r] /\ Describes(copyQueue[r][1]) =>
        AtLeast(content[copyQueue[r][1].res], copyQueue[r][1].frame)
  BY DEF CopiesInv
<1>6. ASSUME \A k \in 1 .. Len(copyQueue'[r]) : Promised(copyQueue[r][k])',
             copying'[r] /\ Describes(copyQueue'[r][1]) =>
               AtLeast(content'[copyQueue'[r][1].res], copyQueue'[r][1].frame)
      PROVE  CopiesInv(r)'
  BY <1>6 DEF CopiesInv, Promised, Describes
<1>7. ASSUME NEW k \in 1 .. Len(copyQueue[r])
      PROVE  /\ copyQueue[r][k] \in Copy
             /\ \A c \in Copy : c = copyQueue[r][k] => Promised(c)'
  <2>1. copyQueue[r][k] \in Copy /\ Promised(copyQueue[r][k]) BY <1>0, <1>4
  <2>2. ASSUME NEW c \in Copy, c = copyQueue[r][k] PROVE Promised(c)'
    <3>1. Promised(c) BY <2>1, <2>2 DEF Promised
    <3> QED BY <1>2, <3>1
  <2> QED BY <2>1, <2>2
<1>8. ASSUME copying[r], Describes(copyQueue[r][1])
      PROVE  AtLeast(content'[copyQueue[r][1].res], copyQueue[r][1].frame)
  BY <1>0, <1>3, <1>4, <1>5, <1>8
<1>9. CASE SameCopies(r)
  <2>1. \A k \in 1 .. Len(copyQueue'[r]) : Promised(copyQueue[r][k])'
    BY <1>7, <1>9 DEF SameCopies, Promised, Describes, Delivers, Pending
  <2> QED BY <1>6, <1>8, <1>9, <2>1 DEF SameCopies
<1>10. CASE CopyStart(r)
  <2>1. UNCHANGED copyQueue /\ copyQueue[r] # <<>> /\ FenceReached(Head(copyQueue[r]))
    BY <1>10 DEF CopyStart
  <2>2. 1 \in 1 .. Len(copyQueue[r]) /\ Head(copyQueue[r]) = copyQueue[r][1]
    BY <1>0, <2>1
  <2>3. Describes(copyQueue[r][1]) => AtLeast(content[copyQueue[r][1].res], copyQueue[r][1].frame)
    BY <1>4, <2>1, <2>2 DEF Promised, Delivers, FenceReached
  <2>4. Describes(copyQueue[r][1]) =>
          AtLeast(content'[copyQueue[r][1].res], copyQueue[r][1].frame)
    BY <1>0, <1>3, <1>4, <2>2, <2>3
  <2>5. \A k \in 1 .. Len(copyQueue'[r]) : Promised(copyQueue[r][k])'
    BY <1>7, <2>1 DEF Promised, Describes, Delivers, Pending
  <2> QED BY <1>6, <2>1, <2>4, <2>5
<1>11. CASE CopyEnd(r)
  <2>1. copying[r] /\ copyQueue'[r] = Tail(copyQueue[r]) /\ ~copying'[r]
    BY <1>0, <1>11 DEF CopyEnd
  <2>2. \A k \in 1 .. Len(copyQueue'[r]) :
          k + 1 \in 1 .. Len(copyQueue[r]) /\ copyQueue'[r][k] = copyQueue[r][k + 1]
    BY <1>0, <2>1
  <2>3. \A k \in 1 .. Len(copyQueue'[r]) : Promised(copyQueue[r][k])'
    BY <1>7, <2>2 DEF Promised, Describes, Delivers, Pending
  <2> QED BY <1>6, <2>1, <2>3
<1>12. CASE TakeSnapshot(r)
  <2> DEFINE new == [res |-> reader[r].handles[call[r].slot].object,
                     value |-> header.ready[ThisSlot], frame |-> Published,
                     named |-> reader[r].handles[call[r].slot].foreign]
             last == Len(copyQueue[r]) + 1
  <2>1. /\ copyQueue' = [copyQueue EXCEPT ![r] = Append(copyQueue[r], new)]
        /\ UNCHANGED copying /\ rpc[r] = "copy"
    BY <1>12 DEF TakeSnapshot
  <2>2. new \in Copy
    <3>1. reader[r].handles[call[r].slot] \in Handle
      BY ReaderTypes DEF Call
    <3> QED BY <3>1, FeedTypes DEF Copy, Handle, MaybeResource
  <2>3. ASSUME header.frame > 0, new.res = new.named
        PROVE  /\ header.layers /\ ThisSlot \in Index
               /\ new.res = header.res /\ header.res \in Resource
    <3>1. /\ header.layers /\ call[r].slot = ThisSlot /\ ThisSlot \in Index
          /\ reader[r].handles[ThisSlot].foreign = header.res
      BY <2>1, <2>3, FeedTypes DEF ChosenInv
    <3>2. header.res \in Resource
      BY <3>1, FeedTypes DEF HeaderNamesSlot, MaybeResource
    <3> QED BY <2>3, <3>1, <3>2
  <2>4. Promised(new)
    <3>1. SUFFICES ASSUME Describes(new)
                   PROVE  new.res \in Resource /\ AtLeast(Published, Published)
                          /\ Delivers(new.res, header.ready[ThisSlot], Published)
      BY DEF Promised
    <3>2. header.frame > 0 /\ new.res = new.named
      BY <3>1 DEF Describes, Published
    <3>3. AtLeast(Published, Published) BY FeedTypes, AtLeastOrder
    <3> QED BY <2>3, <3>2, <3>3 DEF DrawInv, LayersDelivered
  <2> HIDE DEF new
  <2>5. \A c \in Copy : c = new => Promised(c)'
    <3>1. ASSUME NEW c \in Copy, c = new PROVE Promised(c)'
      <4>1. Promised(c) BY <2>4, <3>1 DEF Promised
      <4> QED BY <1>2, <4>1
    <3> QED BY <3>1
  <2>6. /\ Len(copyQueue'[r]) = last
        /\ \A k \in 1 .. Len(copyQueue[r]) : copyQueue'[r][k] = copyQueue[r][k]
        /\ copyQueue'[r][last] = new
    <3>1. copyQueue'[r] = Append(copyQueue[r], new) BY <1>0, <2>1
    <3> QED BY <1>0, <2>2, <3>1
  <2>7. \A k \in 1 .. Len(copyQueue'[r]) : Promised(copyQueue[r][k])'
    <3>1. ASSUME NEW k \in 1 .. Len(copyQueue'[r]) PROVE Promised(copyQueue[r][k])'
      <4>1. CASE k = last
        BY <2>2, <2>5, <2>6, <4>1 DEF Promised, Describes, Delivers, Pending
      <4>2. CASE k # last
        <5>1. k \in 1 .. Len(copyQueue[r]) BY <1>0, <2>6, <4>2
        <5> QED BY <1>7, <2>6, <5>1 DEF Promised, Describes, Delivers, Pending
      <4> QED BY <4>1, <4>2
    <3> QED BY <3>1
  <2>8. copying'[r] /\ Describes(copyQueue'[r][1]) =>
          AtLeast(content'[copyQueue'[r][1].res], copyQueue'[r][1].frame)
    BY <1>0, <1>8, <2>1, <2>6
  <2> QED BY <1>6, <2>7, <2>8
<1>13. CASE StepOf(r) /\ ~TakeSnapshot(r) /\ ~ReaderCrash(r)
  <2>1. UNCHANGED copies
    BY <1>13 DEF StepOf, ReaderStep, ReaderStart, InitializeCache, MaybeGet,
       MaybeGetMetadata, CheckFeeder, ReadSession, UpdateSession, ReadKeySession, LookUp,
       ReaderLock, CheckLayers, IncorrectKind, TakeMetadata, IncorrectGPU, MatchSession,
       FindHandles
  <2> QED BY <1>9, <2>1 DEF copies, SameCopies
<1>14. CASE ReaderCrash(r)
  <2>1. copyQueue'[r] = <<>> /\ ~copying'[r] BY <1>0, <1>14 DEF ReaderCrash
  <2> QED BY <2>1 DEF CopiesInv
<1> QED BY <1>9, <1>10, <1>11, <1>12, <1>13, <1>14, OthersLeave

(* No reader ever copies a texture that holds an older frame than its       *)
(* snapshot describes (Snapshot::Snapshot()), however many frames, resets,  *)
(* deaths and restarts of the feeder are between the snapshot and the copy, *)
(* unless a reader dies with the lock: the fence of the named texture is    *)
(* enough.                                                                  *)
THEOREM CopiesAreFenced ==
  ASSUME ReadersSurvive
  PROVE  Spec => []FencedRead
<1> DEFINE Own == \A r \in Readers : ChosenInv(r) /\ CopiesInv(r)
<1>1. Init => Own
  <2> SUFFICES ASSUME Init, NEW r \in Readers PROVE ChosenInv(r) /\ CopiesInv(r)
    OBVIOUS
  <2>1. header.frame = 0 /\ copyQueue[r] = <<>> /\ ~copying[r] BY DEF Init, EmptyHeader
  <2> QED BY <2>1 DEF ChosenInv, CopiesInv
<1>2. /\ TypeOK /\ TypeOK' /\ LockDiscipline /\ BareBetween /\ HeaderNamesSlot /\ DrawInv
      /\ Own /\ [Next]_vars
      => Own'
  <2> SUFFICES ASSUME TypeOK, TypeOK', LockDiscipline, BareBetween, HeaderNamesSlot,
                      DrawInv, Own, [Next]_vars, NEW r \in Readers
               PROVE  ChosenInv(r)' /\ CopiesInv(r)'
    OBVIOUS
  <2>1. CopiesInv(r)' BY CopiesKept
  <2>2. CASE SameReader(r) BY <2>1, <2>2, ChosenKept
  <2>3. CASE StepOf(r) BY <2>1, <2>3, ChosenStepped
  <2> QED BY <2>2, <2>3, OthersLeave
<1>3. TypeOK /\ Own => FencedRead
  <2> SUFFICES ASSUME TypeOK, Own, NEW r \in Readers, copying[r],
                      Describes(Head(copyQueue[r]))
               PROVE  AtLeast(content[Head(copyQueue[r]).res], Head(copyQueue[r]).frame)
    BY DEF FencedRead, Describes
  <2>1. Head(copyQueue[r]) = copyQueue[r][1]
    BY CopyTypes
  <2> QED BY <2>1 DEF CopiesInv
<1> QED BY TypeCorrect, LockSafe, BareAlways, SlotsAgree, DrawAlways, <1>1, <1>2, <1>3,
        PTL DEF Spec

===============================================================================
