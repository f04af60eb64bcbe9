--------------------------------- MODULE Task ---------------------------------
(***************************************************************************)
(* task<T> and fire_and_forget (task.hpp): the coroutine frame of each task *)
(* is shared by its body, which may finish on any thread, and by the        *)
(* coroutine that called it, which runs on the UI thread.  The two sides    *)
(* meet in mWaiting, an atomic word that each of them exchanges once.       *)
(*                                                                          *)
(* One caller starts all the tasks, in any order, and awaits them one by    *)
(* one, as TabsList::LoadSettings() and PDFFilePageSource::Reload() do.      *)
(***************************************************************************)
EXTENDS Naturals, FiniteSets

CONSTANTS
  Tasks,     \* the tasks the caller starts
  Required,  \* those that are task<T>; the others are fire_and_forget
  Owner,     \* the caller, as occupant of the UI thread
  Idle       \* the UI thread is in its message loop

ASSUME TaskAssumption ==
  /\ Required \subseteq Tasks
  /\ Owner \notin Tasks /\ Idle \notin Tasks /\ Owner # Idle

VARIABLES
  ui,       \* who runs on the UI thread
  waiting,  \* mWaiting: a TaskPromiseState, or "Next" for a caller's handle
  result,   \* mResultState, with one kind of result
  body,     \* where the task's coroutine is
  thread,   \* the thread that runs it
  own,      \* what the caller does with the task
  frees,    \* how often the coroutine frame was destroyed
  fatal     \* fatal() was called, and why

vars == <<ui, waiting, result, body, thread, own, frees, fatal>>

Init ==
  /\ ui = Owner
  /\ waiting = [t \in Tasks |-> "Running"]
  /\ result = [t \in Tasks |-> "NoResult"]
  /\ body = [t \in Tasks |-> "none"]
  /\ thread = [t \in Tasks |-> "ui"]
  /\ own = [t \in Tasks |-> "new"]
  /\ frees = [t \in Tasks |-> 0]
  /\ fatal = "no"

Alive == fatal = "no"

(* The caller is in none of its calls of a task and none of its awaits. *)
Between == \A t \in Tasks : own[t] \in {"new", "held", "gone"}

(* std::coroutine_handle::destroy() *)
Destroy(t) == frees' = [frees EXCEPT ![t] = @ + 1]

-------------------------------------------------------------------------------
(* The body.  It starts inside the call, since initial_suspend() never      *)
(* suspends; the call returns the Task when the body first suspends or ends.*)

Call(t) ==
  /\ Alive /\ ui = Owner /\ Between /\ own[t] = "new"
  /\ own' = [own EXCEPT ![t] = "calling"]
  /\ body' = [body EXCEPT ![t] = "running"]
  /\ ui' = t
  /\ UNCHANGED <<waiting, result, thread, frees, fatal>>

(* What becomes of the UI thread when t's body leaves it. *)
LeaveUI(t) ==
  /\ ui' = IF thread[t] = "pool" THEN ui ELSE IF own[t] = "calling" THEN Owner ELSE Idle
  /\ own' = IF own[t] = "calling" THEN [own EXCEPT ![t] = "held"] ELSE own

Suspend(t) ==
  /\ Alive /\ body[t] = "running"
  /\ body' = [body EXCEPT ![t] = "suspended"]
  /\ LeaveUI(t)
  /\ UNCHANGED <<waiting, result, thread, frees, fatal>>

(* What the body waits for continues it from the message loop, or on a      *)
(* thread-pool thread as after winrt::resume_background().                  *)
Resume(t) ==
  /\ Alive /\ body[t] = "suspended"
  /\ body' = [body EXCEPT ![t] = "running"]
  /\ \/ ui = Idle /\ ui' = t /\ thread' = [thread EXCEPT ![t] = "ui"]
     \/ UNCHANGED ui /\ thread' = [thread EXCEPT ![t] = "pool"]
  /\ UNCHANGED <<waiting, result, own, frees, fatal>>

Return(t) ==
  /\ Alive /\ body[t] = "running"
  /\ body' = [body EXCEPT ![t] = "returning"]
  /\ result' = [result EXCEPT ![t] = "HaveResult"]
  /\ UNCHANGED <<ui, waiting, thread, own, frees, fatal>>

(* unhandled_exception() *)
Throw(t) ==
  /\ Alive /\ body[t] = "running"
  /\ IF t \in Required
     THEN /\ body' = [body EXCEPT ![t] = "returning"]
          /\ result' = [result EXCEPT ![t] = "HaveException"]
          /\ UNCHANGED fatal
     ELSE fatal' = "exception" /\ UNCHANGED <<body, result>>
  /\ UNCHANGED <<ui, waiting, thread, own, frees>>

(* The caller is resumed in place, on its own thread only, or else through  *)
(* the thread pool; one of the calls which that takes may fail.             *)
ResumeNext_AnyThread(t) ==
  /\ own' = [own EXCEPT ![t] = "resuming"]
  /\ ui' = IF thread[t] = "ui" THEN Owner ELSE ui
  /\ UNCHANGED fatal

ResumeNext(t) ==
  \/ /\ thread[t] = "ui"
     /\ ui' = Owner /\ own' = [own EXCEPT ![t] = "resuming"]
     /\ UNCHANGED fatal
  \/ /\ thread[t] = "pool"
     /\ own' = [own EXCEPT ![t] = "queued"]
     /\ UNCHANGED <<ui, fatal>>
  \/ /\ thread[t] = "pool"
     /\ fatal' = "resumption"
     /\ UNCHANGED <<ui, own>>

(* TaskFinalAwaiter::await_suspend(): nobody wants the result any more,     *)
(* nobody waits for it yet, or somebody waits for it.                       *)
FinalSuspend(t) ==
  /\ Alive /\ body[t] = "returning"
  /\ body' = [body EXCEPT ![t] = "final"]
  /\ waiting' = [waiting EXCEPT ![t] = "Completed"]
  /\ \/ waiting[t] = "Abandoned" /\ Destroy(t) /\ LeaveUI(t) /\ UNCHANGED fatal
     \/ waiting[t] = "Running" /\ LeaveUI(t) /\ UNCHANGED <<frees, fatal>>
     \/ waiting[t] = "Next" /\ ResumeNext(t) /\ UNCHANGED frees
  /\ UNCHANGED <<result, thread>>

-------------------------------------------------------------------------------
(* The caller. *)

Abandon_Always(t) ==
  /\ waiting' = [waiting EXCEPT ![t] = "Abandoned"]
  /\ Destroy(t)

Abandon_Never(t) ==
  /\ waiting' = [waiting EXCEPT ![t] = "Abandoned"]
  /\ UNCHANGED frees

(* abandon(), from the deleter of the promise pointer: the last of the two  *)
(* sides destroys the frame. *)
Abandon(t) ==
  /\ waiting' = [waiting EXCEPT ![t] = "Abandoned"]
  /\ IF waiting[t] = "Running" THEN UNCHANGED frees ELSE Destroy(t)

Discard_Silent(t) ==
  /\ Alive /\ ui = Owner /\ Between /\ own[t] = "held"
  /\ own' = [own EXCEPT ![t] = "gone"] /\ Abandon(t)
  /\ UNCHANGED <<ui, result, body, thread, fatal>>

(* ~Task(): a fire_and_forget is dropped as soon as it is returned; a       *)
(* task<T> only by a mistake of the caller, or an exception of its own.     *)
Discard(t) ==
  /\ Alive /\ ui = Owner /\ Between /\ own[t] = "held"
  /\ IF t \in Required
     THEN fatal' = "notAwaited" /\ UNCHANGED <<waiting, own, frees>>
     ELSE own' = [own EXCEPT ![t] = "gone"] /\ Abandon(t) /\ UNCHANGED fatal
  /\ UNCHANGED <<ui, result, body, thread>>

(* The caller awaits something else while it holds tasks. *)
Yield ==
  /\ Alive /\ ui = Owner /\ Between
  /\ ui' = Idle
  /\ UNCHANGED <<waiting, result, body, thread, own, frees, fatal>>

Continue ==
  /\ Alive /\ ui = Idle /\ Between
  /\ ui' = Owner
  /\ UNCHANGED <<waiting, result, body, thread, own, frees, fatal>>

AwaitReady(t) ==
  /\ Alive /\ ui = Owner /\ Between /\ own[t] = "held" /\ t \in Required
  /\ own' = [own EXCEPT ![t] =
               IF waiting[t] = "Completed" THEN "resuming" ELSE "suspending"]
  /\ UNCHANGED <<ui, waiting, result, body, thread, frees, fatal>>

AwaitSuspend_Stays(t) ==
  /\ Alive /\ own[t] = "suspending"
  /\ waiting' = [waiting EXCEPT ![t] = "Next"]
  /\ own' = [own EXCEPT ![t] = "awaiting"] /\ ui' = Idle
  /\ UNCHANGED <<result, body, thread, frees, fatal>>

(* TaskAwaiter::await_suspend(): stay suspended only if the body had not    *)
(* finished by then.                                                        *)
AwaitSuspend(t) ==
  /\ Alive /\ own[t] = "suspending"
  /\ waiting' = [waiting EXCEPT ![t] = "Next"]
  /\ IF waiting[t] = "Running"
     THEN own' = [own EXCEPT ![t] = "awaiting"] /\ ui' = Idle
     ELSE own' = [own EXCEPT ![t] = "resuming"] /\ UNCHANGED ui
  /\ UNCHANGED <<result, body, thread, frees, fatal>>

(* The thread pool hands the caller back to the UI thread. *)
ResumeOwner(t) ==
  /\ Alive /\ own[t] = "queued" /\ ui = Idle
  /\ own' = [own EXCEPT ![t] = "resuming"] /\ ui' = Owner
  /\ UNCHANGED <<waiting, result, body, thread, frees, fatal>>

(* await_resume().  It is noexcept, so that rethrowing there the exception  *)
(* of the body ends the process.  Otherwise the awaiter is destroyed next.  *)
AwaitResume(t) ==
  /\ Alive /\ own[t] = "resuming"
  /\ \/ /\ waiting[t] # "Completed"
        /\ fatal' = "assert"
        /\ UNCHANGED <<waiting, result, own, frees>>
     \/ /\ waiting[t] = "Completed" /\ result[t] = "HaveException"
        /\ result' = [result EXCEPT ![t] = "ThrownException"]
        /\ fatal' = "terminate"
        /\ UNCHANGED <<waiting, own, frees>>
     \/ /\ waiting[t] = "Completed" /\ result[t] = "HaveResult"
        /\ result' = [result EXCEPT ![t] = "ReturnedResult"]
        /\ own' = [own EXCEPT ![t] = "gone"]
        /\ Abandon(t)
        /\ UNCHANGED fatal
  /\ UNCHANGED <<ui, body, thread>>

BodyStep(t) == Suspend(t) \/ Resume(t) \/ Return(t) \/ Throw(t) \/ FinalSuspend(t)
OwnerStep(t) ==
  \/ Call(t) \/ Discard(t) \/ AwaitReady(t) \/ AwaitSuspend(t)
  \/ ResumeOwner(t) \/ AwaitResume(t)

Next == Yield \/ Continue \/ \E t \in Tasks : BodyStep(t) \/ OwnerStep(t)

Spec == Init /\ [][Next]_vars

(* What a body waits for happens, and every body comes to an end; the UI    *)
(* thread serves its messages in order; the caller awaits what it holds.    *)
Fairness ==
  /\ \A t \in Tasks : /\ WF_vars(Resume(t) \/ FinalSuspend(t))
                      /\ SF_vars(Return(t) \/ Throw(t))
  /\ SF_vars(Continue)
  /\ SF_vars(\E t \in Tasks : AwaitReady(t) \/ Discard(t) \/ ResumeOwner(t))
  /\ WF_vars(\E t \in Tasks : AwaitSuspend(t) \/ AwaitResume(t))

FairSpec == Spec /\ Fairness

-------------------------------------------------------------------------------
(* Every variable has its type; in particular no coroutine frame is ever    *)
(* destroyed twice, whichever of the two sides comes last (task.hpp 150-153 *)
(* and 330-340).                                                            *)
TypeOK ==
  /\ ui \in Tasks \cup {Owner, Idle}
  /\ waiting \in [Tasks -> {"Running", "Next", "Completed", "Abandoned"}]
  /\ result \in [Tasks -> {"NoResult", "HaveResult", "ReturnedResult",
                           "HaveException", "ThrownException"}]
  /\ body \in [Tasks -> {"none", "running", "suspended", "returning", "final"}]
  /\ thread \in [Tasks -> {"ui", "pool"}]
  /\ own \in [Tasks -> {"new", "calling", "held", "suspending", "awaiting",
                        "queued", "resuming", "gone"}]
  /\ frees \in [Tasks -> 0..1]
  /\ fatal \in {"no", "exception", "terminate", "assert", "notAwaited", "resumption"}

(* mWaiting tells each side how far the other one got: what either of them  *)
(* reads when it exchanges the word decides who resumes the caller and who  *)
(* destroys the frame.                                                      *)
HandshakeOf(t) ==
  /\ body[t] = "none" <=> own[t] = "new"
  /\ waiting[t] = "Running" =>
       /\ own[t] \in {"new", "calling", "held", "suspending"}
       /\ body[t] # "final" /\ frees[t] = 0
  /\ waiting[t] = "Next" =>
       /\ own[t] = IF body[t] = "final" THEN "resuming" ELSE "awaiting"
       /\ frees[t] = 0
  /\ waiting[t] = "Completed" =>
       /\ body[t] = "final"
       /\ \/ own[t] \in {"held", "suspending", "queued", "resuming"} /\ frees[t] = 0
          \/ own[t] = "awaiting" /\ ~Alive /\ frees[t] = 0
          \/ own[t] = "gone" /\ frees[t] = 1
  /\ waiting[t] = "Abandoned" =>
       /\ own[t] = "gone"
       /\ frees[t] = IF body[t] = "final" THEN 1 ELSE 0

Handshake == \A t \in Tasks : HandshakeOf(t)

(* A coroutine frame is destroyed only when both sides are done with it:    *)
(* the body reached its final suspension and the caller holds neither the   *)
(* task nor an awaiter of it.                                               *)
FreedWhenDone ==
  \A t \in Tasks : frees[t] = 1 => body[t] = "final" /\ own[t] = "gone"

(* A task<T> that the caller is rid of, in a program that still runs, ran   *)
(* to its end and its result was handed over: "calls fatal() if not         *)
(* awaited" (task.hpp 674).                                                 *)
AwaitedToCompletion ==
  \A t \in Required :
    own[t] = "gone" => body[t] = "final" /\ result[t] = "ReturnedResult"

(* The caller only ever continues on the UI thread, and alone there,        *)
(* whatever thread a body finished on: a task "always returns to the same   *)
(* thread it was invoked from" (task.hpp 671).                              *)
ReturnsToThread ==
  \A t \in Tasks : own[t] \in {"suspending", "resuming"} => ui = Owner

(* No wakeup is lost: a caller that suspended on a task gets its result,    *)
(* unless the process ends.                                                 *)
CallerProceeds ==
  \A t \in Tasks : own[t] \in {"awaiting", "queued"} ~> own[t] = "gone" \/ ~Alive

(* No frame leaks: once the caller let go of a task its frame is destroyed, *)
(* by the caller or later by the body.                                      *)
Reclaimed ==
  \A t \in Tasks : own[t] = "gone" ~> frees[t] = 1 \/ ~Alive

(* await_resume() asserts that the body has completed (task.hpp 538).       *)
NoAssertFailure == fatal # "assert"

(* task<T> "propagates uncaught exceptions back to the caller" (task.hpp    *)
(* 677): an exception of a body does not end the process in await_resume(). *)
ExceptionsPropagate == fatal # "terminate"

===============================================================================
