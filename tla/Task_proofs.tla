------------------------------ MODULE Task_proofs ------------------------------
(***************************************************************************)
(* The safety of task<T> for any number of tasks of either kind.            *)
(***************************************************************************)
EXTENDS Task, TLAPS

(* The caller is busy with one task at a time, and a body that runs on the  *)
(* UI thread has it for itself.                                             *)
Serialized ==
  /\ \A t, u \in Tasks :
       own[t] \notin {"new", "held", "gone"} /\ own[u] \notin {"new", "held", "gone"}
       => t = u
  /\ \A t \in Tasks :
       /\ body[t] \in {"running", "returning"} /\ thread[t] = "ui" => ui = t
       /\ own[t] \in {"suspending", "resuming"} => ui = Owner

IInv == TypeOK /\ Handshake /\ Serialized /\ AwaitedToCompletion

LEMMA InitIInv == Init => IInv
BY TaskAssumption DEF Init, IInv, TypeOK, Handshake, HandshakeOf, Serialized, AwaitedToCompletion

-------------------------------------------------------------------------------
(* The steps of a body. *)

LEMMA BodyIInv ==
  ASSUME IInv, NEW t \in Tasks, BodyStep(t)
  PROVE  IInv'
<1> USE TaskAssumption DEF IInv, Alive
<1>1. CASE Suspend(t)
  <2>1. TypeOK' BY <1>1 DEF Suspend, LeaveUI, TypeOK
  <2>2. Handshake' BY <1>1 DEF Suspend, LeaveUI, TypeOK, Handshake, HandshakeOf
  <2>3. Serialized' BY <1>1 DEF Suspend, LeaveUI, TypeOK, Serialized
  <2>4. AwaitedToCompletion' BY <1>1 DEF Suspend, LeaveUI, TypeOK, AwaitedToCompletion
  <2> QED BY <2>1, <2>2, <2>3, <2>4
<1>2. CASE Resume(t)
  <2>1. TypeOK' BY <1>2 DEF Resume, TypeOK
  <2>2. Handshake' BY <1>2 DEF Resume, TypeOK, Handshake, HandshakeOf
  <2>3. Serialized' BY <1>2 DEF Resume, TypeOK, Serialized
  <2>4. AwaitedToCompletion' BY <1>2 DEF Resume, TypeOK, AwaitedToCompletion
  <2> QED BY <2>1, <2>2, <2>3, <2>4
<1>3. CASE Return(t)
  <2>1. TypeOK' BY <1>3 DEF Return, TypeOK
  <2>2. Handshake' BY <1>3 DEF Return, TypeOK, Handshake, HandshakeOf
  <2>3. Serialized' BY <1>3 DEF Return, TypeOK, Serialized
  <2>4. AwaitedToCompletion' BY <1>3 DEF Return, TypeOK, AwaitedToCompletion
  <2> QED BY <2>1, <2>2, <2>3, <2>4
<1>4. CASE Throw(t)
  <2>1. TypeOK' BY <1>4 DEF Throw, TypeOK
  <2>2. Handshake' BY <1>4 DEF Throw, TypeOK, Handshake, HandshakeOf
  <2>3. Serialized' BY <1>4 DEF Throw, TypeOK, Serialized
  <2>4. AwaitedToCompletion' BY <1>4 DEF Throw, TypeOK, AwaitedToCompletion
  <2> QED BY <2>1, <2>2, <2>3, <2>4
<1>5. CASE FinalSuspend(t)
  <2> DEFINE Common == /\ body' = [body EXCEPT ![t] = "final"]
                       /\ waiting' = [waiting EXCEPT ![t] = "Completed"]
                       /\ UNCHANGED <<result, thread>>
  <2>0. body[t] = "returning" /\ Alive /\ Common BY <1>5 DEF FinalSuspend
  <2>1. CASE waiting[t] = "Abandoned" /\ Destroy(t) /\ LeaveUI(t) /\ UNCHANGED fatal
    <3>1. TypeOK'
      BY <2>0, <2>1 DEF Destroy, LeaveUI, TypeOK, Handshake, HandshakeOf
    <3>2. Handshake'
      BY <2>0, <2>1 DEF Destroy, LeaveUI, TypeOK, Handshake, HandshakeOf
    <3>3. Serialized' BY <2>0, <2>1 DEF LeaveUI, TypeOK, Serialized
    <3>4. AwaitedToCompletion' BY <2>0, <2>1 DEF LeaveUI, TypeOK, AwaitedToCompletion
    <3> QED BY <3>1, <3>2, <3>3, <3>4
  <2>2. CASE waiting[t] = "Running" /\ LeaveUI(t) /\ UNCHANGED <<frees, fatal>>
    <3>1. TypeOK' BY <2>0, <2>2 DEF LeaveUI, TypeOK
    <3>2. Handshake' BY <2>0, <2>2 DEF LeaveUI, TypeOK, Handshake, HandshakeOf
    <3>3. Serialized' BY <2>0, <2>2 DEF LeaveUI, TypeOK, Serialized
    <3>4. AwaitedToCompletion' BY <2>0, <2>2 DEF LeaveUI, TypeOK, AwaitedToCompletion
    <3> QED BY <3>1, <3>2, <3>3, <3>4
  <2>3. CASE waiting[t] = "Next" /\ ResumeNext(t) /\ UNCHANGED frees
    <3>0. own[t] = "awaiting" BY <2>0, <2>3 DEF Handshake, HandshakeOf
    <3>1. TypeOK' BY <2>0, <2>3 DEF ResumeNext, TypeOK
    <3>2. Handshake'
      BY <2>0, <2>3, <3>0 DEF ResumeNext, TypeOK, Handshake, HandshakeOf
    <3>3. Serialized' BY <2>0, <2>3, <3>0 DEF ResumeNext, TypeOK, Serialized
    <3>4. AwaitedToCompletion' BY <2>0, <2>3, <3>0 DEF ResumeNext, TypeOK, AwaitedToCompletion
    <3> QED BY <3>1, <3>2, <3>3, <3>4
  <2> QED BY <1>5, <2>1, <2>2, <2>3 DEF FinalSuspend
<1> QED BY <1>1, <1>2, <1>3, <1>4, <1>5 DEF BodyStep

-------------------------------------------------------------------------------
(* The steps of the caller. *)

LEMMA OwnerIInv ==
  ASSUME IInv, NEW t \in Tasks, OwnerStep(t)
  PROVE  IInv'
<1> USE TaskAssumption DEF IInv, Alive
<1>1. CASE Call(t)
  <2>1. TypeOK' BY <1>1 DEF Call, TypeOK
  <2>2. Handshake' BY <1>1 DEF Call, TypeOK, Handshake, HandshakeOf
  <2>3. Serialized'
    <3>1. \A u \in Tasks : own[u] \in {"new", "held", "gone"} BY <1>1 DEF Call, Between
    <3>2. \A u \in Tasks : body[u] \in {"running", "returning"} => thread[u] # "ui"
      BY <1>1 DEF Call, Serialized
    <3> QED BY <1>1, <3>1, <3>2 DEF Call, TypeOK, Serialized
  <2>4. AwaitedToCompletion' BY <1>1 DEF Call, TypeOK, AwaitedToCompletion
  <2> QED BY <2>1, <2>2, <2>3, <2>4
<1>2. CASE Discard(t)
  <2>1. TypeOK' BY <1>2 DEF Discard, Abandon, Destroy, TypeOK, Handshake, HandshakeOf
  <2>2. Handshake' BY <1>2 DEF Discard, Abandon, Destroy, TypeOK, Handshake, HandshakeOf
  <2>3. Serialized' BY <1>2 DEF Discard, TypeOK, Serialized
  <2>4. AwaitedToCompletion' BY <1>2 DEF Discard, TypeOK, AwaitedToCompletion
  <2> QED BY <2>1, <2>2, <2>3, <2>4
<1>3. CASE AwaitReady(t)
  <2>1. TypeOK' BY <1>3 DEF AwaitReady, TypeOK
  <2>2. Handshake' BY <1>3 DEF AwaitReady, TypeOK, Handshake, HandshakeOf
  <2>3. Serialized' BY <1>3 DEF AwaitReady, Between, TypeOK, Serialized
  <2>4. AwaitedToCompletion' BY <1>3 DEF AwaitReady, TypeOK, AwaitedToCompletion
  <2> QED BY <2>1, <2>2, <2>3, <2>4
<1>4. CASE AwaitSuspend(t)
  <2>1. TypeOK' BY <1>4 DEF AwaitSuspend, TypeOK
  <2>2. Handshake' BY <1>4 DEF AwaitSuspend, TypeOK, Handshake, HandshakeOf
  <2>3. Serialized' BY <1>4 DEF AwaitSuspend, TypeOK, Serialized
  <2>4. AwaitedToCompletion' BY <1>4 DEF AwaitSuspend, TypeOK, AwaitedToCompletion
  <2> QED BY <2>1, <2>2, <2>3, <2>4
<1>5. CASE ResumeOwner(t)
  <2>1. TypeOK' BY <1>5 DEF ResumeOwner, TypeOK
  <2>2. Handshake' BY <1>5 DEF ResumeOwner, TypeOK, Handshake, HandshakeOf
  <2>3. Serialized' BY <1>5 DEF ResumeOwner, TypeOK, Serialized
  <2>4. AwaitedToCompletion' BY <1>5 DEF ResumeOwner, TypeOK, AwaitedToCompletion
  <2> QED BY <2>1, <2>2, <2>3, <2>4
<1>6. CASE AwaitResume(t)
  <2>1. TypeOK' BY <1>6 DEF AwaitResume, Abandon, Destroy, TypeOK, Handshake, HandshakeOf
  <2>2. Handshake'
    BY <1>6 DEF AwaitResume, Abandon, Destroy, TypeOK, Handshake, HandshakeOf
  <2>3. Serialized' BY <1>6 DEF AwaitResume, TypeOK, Serialized
  <2>4. AwaitedToCompletion' BY <1>6 DEF AwaitResume, TypeOK, Handshake, HandshakeOf, AwaitedToCompletion
  <2> QED BY <2>1, <2>2, <2>3, <2>4
<1> QED BY <1>1, <1>2, <1>3, <1>4, <1>5, <1>6 DEF OwnerStep

-------------------------------------------------------------------------------

LEMMA NextIInv == IInv /\ [Next]_vars => IInv'
<1> SUFFICES ASSUME IInv, [Next]_vars PROVE IInv' OBVIOUS
<1>1. CASE Yield \/ Continue
  <2> USE TaskAssumption DEF IInv
  <2>1. TypeOK' BY <1>1 DEF Yield, Continue, TypeOK
  <2>2. Handshake' BY <1>1 DEF Yield, Continue, Handshake, HandshakeOf, Alive
  <2>3. Serialized' BY <1>1 DEF Yield, Continue, Between, Serialized
  <2>4. AwaitedToCompletion' BY <1>1 DEF Yield, Continue, AwaitedToCompletion
  <2> QED BY <2>1, <2>2, <2>3, <2>4
<1>2. CASE \E t \in Tasks : BodyStep(t) \/ OwnerStep(t) BY <1>2, BodyIInv, OwnerIInv
<1>3. CASE UNCHANGED vars
  BY <1>3 DEF vars, IInv, TypeOK, Handshake, HandshakeOf, Serialized, AwaitedToCompletion, Alive
<1> QED BY <1>1, <1>2, <1>3 DEF Next

THEOREM Invariance == Spec => []IInv
<1>1. Init => IInv BY InitIInv
<1>2. IInv /\ [Next]_vars => IInv' BY NextIInv
<1> QED BY <1>1, <1>2, PTL DEF Spec

(* The variables keep their types, and no frame is destroyed twice.         *)
THEOREM TypeCorrect == Spec => []TypeOK
<1>1. IInv => TypeOK BY DEF IInv
<1> QED BY <1>1, Invariance, PTL

(* The two sides agree on how far they got, through mWaiting.               *)
THEOREM HandshakeHolds == Spec => []Handshake
<1>1. IInv => Handshake BY DEF IInv
<1> QED BY <1>1, Invariance, PTL

(* A frame is destroyed only when neither side needs it.                    *)
THEOREM FreesAreSafe == Spec => []FreedWhenDone
<1>1. IInv => FreedWhenDone
  BY DEF IInv, TypeOK, Handshake, HandshakeOf, FreedWhenDone
<1> QED BY <1>1, Invariance, PTL

(* Whoever goes on without a task<T> it started has its result.             *)
THEOREM AwaitedTasksComplete == Spec => []AwaitedToCompletion
<1>1. IInv => AwaitedToCompletion BY DEF IInv
<1> QED BY <1>1, Invariance, PTL

(* The caller resumes on its own thread and alone there.                    *)
THEOREM CallerKeepsThread == Spec => []ReturnsToThread
<1>1. IInv => ReturnsToThread BY DEF IInv, Serialized, ReturnsToThread
<1> QED BY <1>1, Invariance, PTL

===============================================================================
