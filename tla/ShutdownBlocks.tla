---------------------------- MODULE ShutdownBlocks ----------------------------
(***************************************************************************)
(* ProcessShutdownBlock: objects with asynchronous cleanup hold one, and    *)
(* the app waits for the last one before it ends.  mActiveBlocks is for the *)
(* log and left out.                                                        *)
(***************************************************************************)
EXTENDS Process

CONSTANTS
  Blockers,  \* objects that hold a block, each for one stretch of time
  Self       \* the block of ShutdownData itself

VARIABLES
  blockCount,     \* mBlockCount
  blocksClosing,  \* mShuttingDown
  blocksHandle,   \* mShutdownEvent
  block           \* where each block is

blockVars == <<blockCount, blocksClosing, blocksHandle, block>>

BlocksInit ==
  /\ blockCount = 1 /\ blocksClosing = FALSE /\ blocksHandle = NoHandle
  /\ block = [b \in Blockers \union {Self} |-> IF b = Self THEN "active" ELSE "none"]

Increment(b) ==
  /\ block[b] = "none"
  /\ block' = [block EXCEPT ![b] = "added"]
  /\ blockCount' = blockCount + 1
  /\ UNCHANGED <<process, blocksClosing, blocksHandle>>

(* Mutant: a block is let in after the shutdown has begun. *)
Incremented_Late(b) ==
  /\ block[b] = "added"
  /\ block' = [block EXCEPT ![b] = "active"]
  /\ UNCHANGED <<process, blockCount, blocksClosing, blocksHandle>>

(* The rest of Increment(): to be late is fatal. *)
Incremented(b) ==
  /\ block[b] = "added"
  /\ IF blocksClosing
     THEN fatal' = "lateBlock" /\ UNCHANGED block
     ELSE block' = [block EXCEPT ![b] = "active"] /\ UNCHANGED fatal
  /\ UNCHANGED <<open, signalled, blockCount, blocksClosing, blocksHandle>>

(* Decrement(), also of mMyID by SetEventOnCompletion(). *)
Decrement(b) ==
  /\ block[b] = "active" /\ (b = Self => blocksClosing)
  /\ blockCount' = blockCount - 1
  /\ block' = [block EXCEPT ![b] = IF blockCount = 1 THEN "signal" ELSE "gone"]
  /\ fatal' = IF blockCount = 1 /\ ~blocksClosing THEN "blockCount" ELSE fatal
  /\ UNCHANGED <<open, signalled, blocksClosing, blocksHandle>>

SignalBlocks(b) ==
  /\ block[b] = "signal"
  /\ SetEvent(blocksHandle)
  /\ block' = [block EXCEPT ![b] = "gone"]
  /\ UNCHANGED <<open, fatal, blockCount, blocksClosing, blocksHandle>>

(* SetEventOnCompletion() with the event of CleanupAndExitAsync(). *)
SetEventOnCompletion(h) ==
  /\ CreateEvent(h)
  /\ blocksHandle' = h
  /\ UNCHANGED <<blockCount, blocksClosing, block>>

BlocksClose ==
  /\ ~blocksClosing /\ blocksClosing' = TRUE
  /\ UNCHANGED <<process, blockCount, blocksHandle, block>>

-------------------------------------------------------------------------------
BlockStep(b) == Incremented(b) \/ Decrement(b) \/ SignalBlocks(b)

ActiveBlocks == {b \in Blockers : block[b] = "active"}

CountedBlocks == {b \in Blockers \union {Self} : block[b] \in {"added", "active"}}

===============================================================================
