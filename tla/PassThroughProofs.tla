-------------------------- MODULE PassThroughProofs --------------------------
(***************************************************************************)
(* No callback reaches a driver that is gone, whatever the number of       *)
(* threads and whatever OperationStatusCtx wraps around at.                *)
(***************************************************************************)
EXTENDS PassThrough, TLAPS

Operation == [stage : {"none", "pre", "count", "below", "ended"}, kind : Kind,
              arg : 0 .. Context - 1, due : SUBSET {"post", "status"}]

TypeOK == /\ image \in {"out", "entry", "in", "unload"}
          /\ filter \in {"none", "registered", "started", "ending"}
          /\ instance \in {"none", "attached", "leaving"}
          /\ ctx \in 0 .. Context - 1
          /\ op \in [Thread -> Operation]

\* DriverEntry and PtUnload keep in step with the manager.
InStep == /\ image = "out" <=> filter = "none"
          /\ image = "entry" <=> filter = "registered"
          /\ image = "in" <=> filter = "started"
          /\ image = "unload" <=> filter = "ending"

\* An instance belongs to a filter that has been started, and an operation to
\* an instance.
Attached == /\ filter \in {"none", "registered"} => instance = "none"
            /\ \A t \in Thread : InFlight(t) => instance # "none"

\* Only a status operation counts, and only an entry with a post callback has
\* one due.
DueRight == \A t \in Thread : /\ op[t].stage = "count" => op[t].kind = "status"
                              /\ "post" \in op[t].due => HasPost(op[t].kind)

IInv == TypeOK /\ InStep /\ Attached /\ DueRight

LEMMA ArgInRange == (1 % Context) \in 0 .. Context - 1 /\ \A n \in Nat : (n % Context) \in 0 .. Context - 1
BY ContextAssumption

LEMMA IInvInit == Init => IInv
BY ArgInRange, ContextAssumption
   DEF Init, IInv, TypeOK, InStep, Attached, DueRight, InFlight, NoOp, Operation, Kind, HasPost

\* The steps that leave operations alone.
LEMMA ManagerStep ==
  ASSUME IInv, \/ FltRegisterFilter \/ FltStartFiltering \/ PtUnload \/ FltUnregisterFilter
               \/ PtInstanceSetup \/ PtInstanceTeardownStart \/ PtInstanceTeardownComplete
  PROVE  IInv'
<1> USE DEF IInv, TypeOK, InStep, Attached, DueRight, InFlight, HasPost
<1>1. CASE FltRegisterFilter
  BY <1>1 DEF FltRegisterFilter
<1>2. CASE FltStartFiltering
  BY <1>2 DEF FltStartFiltering
<1>3. CASE PtUnload
  BY <1>3 DEF PtUnload
<1>4. CASE FltUnregisterFilter
  BY <1>4 DEF FltUnregisterFilter
<1>5. CASE PtInstanceSetup
  BY <1>5 DEF PtInstanceSetup
<1>6. CASE PtInstanceTeardownStart
  BY <1>6 DEF PtInstanceTeardownStart
<1>7. CASE PtInstanceTeardownComplete
  BY <1>7 DEF PtInstanceTeardownComplete, Drained
<1> QED
  BY <1>1, <1>2, <1>3, <1>4, <1>5, <1>6, <1>7

\* What a step of an operation has to leave to keep the invariant.
LEMMA OperationStep ==
  ASSUME IInv, NEW t \in Thread, NEW o \in Operation,
         op' = [op EXCEPT ![t] = o], ctx' \in 0 .. Context - 1,
         UNCHANGED <<image, filter, instance>>,
         o.stage # "none" => instance # "none",
         o.stage = "count" => o.kind = "status",
         "post" \in o.due => HasPost(o.kind)
  PROVE  IInv'
<1>1. op' \in [Thread -> Operation] /\ op'[t] = o /\ \A q \in Thread \ {t} : op'[q] = op[q]
  BY DEF IInv, TypeOK
<1>2. \A q \in Thread : InFlight(q)' => instance # "none"
  BY <1>1 DEF IInv, Attached, InFlight
<1>3. DueRight'
  BY <1>1 DEF IInv, DueRight
<1> QED
  BY <1>1, <1>2, <1>3 DEF IInv, TypeOK, InStep, Attached

LEMMA IssueStep ==
  ASSUME IInv, NEW t \in Thread, NEW k \in Kind, Issue(t, k)
  PROVE  IInv'
<1> DEFINE o == [NoOp EXCEPT !.stage = "pre", !.kind = k]
<1>1. NoOp \in Operation /\ NoOp.due = {}
  BY ContextAssumption DEF NoOp, Operation, Kind
<1>2. op' = [op EXCEPT ![t] = o]
  BY DEF Issue
<1>3. o \in Operation /\ o.stage = "pre" /\ o.due = {}
  BY <1>1 DEF Operation
<1>4. instance = "attached" /\ UNCHANGED <<image, filter, instance>> /\ ctx' \in 0 .. Context - 1
  BY DEF Issue, IInv, TypeOK
<1> HIDE DEF o
<1> QED
  BY <1>2, <1>3, <1>4, OperationStep

\* The steps of an operation that is under way.
LEMMA UnderStep ==
  ASSUME IInv, NEW t \in Thread, Under(t)
  PROVE  IInv'
<1>1. /\ op \in [Thread -> Operation] /\ op[t] \in Operation /\ ctx \in 0 .. Context - 1
      /\ op[t].stage # "none" => instance # "none"
      /\ op[t].stage = "count" => op[t].kind = "status"
      /\ "post" \in op[t].due => HasPost(op[t].kind)
  BY DEF IInv, TypeOK, Attached, DueRight, InFlight
<1>2. CASE PtPreOperationPassThrough(t)
  <2> DEFINE o == [op[t] EXCEPT !.stage = "below", !.due = {"post"}]
  <2>1. op' = [op EXCEPT ![t] = o]
    BY <1>1, <1>2 DEF PtPreOperationPassThrough, Below
  <2>2. o \in Operation /\ o.stage = "below" /\ o.kind = "plain"
    BY <1>1, <1>2 DEF PtPreOperationPassThrough, Operation
  <2> QED
    BY <1>1, <1>2, <2>1, <2>2, OperationStep DEF PtPreOperationPassThrough, HasPost
<1>3. CASE PtPreOperationNoPostOperationPassThrough(t)
  <2> DEFINE o == [op[t] EXCEPT !.stage = "below", !.due = {}]
  <2>1. op' = [op EXCEPT ![t] = o]
    BY <1>1, <1>3 DEF PtPreOperationNoPostOperationPassThrough, Below
  <2>2. o \in Operation /\ o.stage = "below" /\ o.due = {}
    BY <1>1, <1>3 DEF PtPreOperationNoPostOperationPassThrough, Operation
  <2> QED
    BY <1>1, <1>3, <2>1, <2>2, OperationStep DEF PtPreOperationNoPostOperationPassThrough
<1>4. CASE LoadStatusCtx(t)
  <2> DEFINE o == [op[t] EXCEPT !.stage = "count", !.arg = (ctx + 1) % Context]
  <2>1. op' = [op EXCEPT ![t] = o]
    BY <1>1, <1>4 DEF LoadStatusCtx
  <2>2. (ctx + 1) % Context \in 0 .. Context - 1
    BY <1>1, ArgInRange, ContextAssumption
  <2>3. /\ o \in Operation /\ o.stage = "count" /\ o.kind = "status"
        /\ o.due = op[t].due
    BY <1>1, <1>4, <2>2 DEF LoadStatusCtx, Operation
  <2> QED
    BY <1>1, <1>4, <2>1, <2>3, OperationStep DEF LoadStatusCtx, HasPost
<1>5. CASE FltRequestOperationStatusCallback(t)
  <2>1. PICK granted \in BOOLEAN : Below(t, {"post"} \cup (IF granted THEN {"status"} ELSE {}))
    BY <1>5 DEF FltRequestOperationStatusCallback
  <2> DEFINE due == {"post"} \cup (IF granted THEN {"status"} ELSE {})
             o == [op[t] EXCEPT !.stage = "below", !.due = due]
  <2>2. op' = [op EXCEPT ![t] = o]
    BY <1>1, <2>1 DEF Below
  <2>3. due \in SUBSET {"post", "status"}
    OBVIOUS
  <2>4. /\ o \in Operation /\ o.stage = "below" /\ o.kind = "status"
        /\ op[t].arg \in 0 .. Context - 1
    BY <1>1, <1>5, <2>3 DEF FltRequestOperationStatusCallback, Operation
  <2> QED
    BY <1>1, <1>5, <2>2, <2>4, OperationStep DEF FltRequestOperationStatusCallback, HasPost
<1>6. CASE PtOperationStatusCallback(t)
  <2> DEFINE o == [op[t] EXCEPT !.due = @ \ {"status"}]
  <2>1. op' = [op EXCEPT ![t] = o]
    BY <1>1, <1>6 DEF PtOperationStatusCallback
  <2>2. /\ o \in Operation /\ o.stage = op[t].stage /\ o.kind = op[t].kind
        /\ o.due \subseteq op[t].due
    BY <1>1 DEF Operation
  <2> QED
    BY <1>1, <1>6, <2>1, <2>2, OperationStep DEF PtOperationStatusCallback
<1>7. CASE PtPostOperationPassThrough(t)
  <2> DEFINE o == [op[t] EXCEPT !.due = @ \ {"post"}]
  <2>1. op' = [op EXCEPT ![t] = o]
    BY <1>1, <1>7 DEF PtPostOperationPassThrough
  <2>2. /\ o \in Operation /\ o.stage = op[t].stage /\ o.kind = op[t].kind
        /\ "post" \notin o.due
    BY <1>1 DEF Operation
  <2> QED
    BY <1>1, <1>7, <2>1, <2>2, OperationStep DEF PtPostOperationPassThrough
<1>8. CASE Done(t)
  <2>1. op' = [op EXCEPT ![t] = NoOp]
    BY <1>8 DEF Done
  <2>2. NoOp \in Operation /\ NoOp.stage = "none" /\ NoOp.due = {}
    BY ContextAssumption DEF NoOp, Operation, Kind
  <2> QED
    BY <1>1, <1>8, <2>1, <2>2, OperationStep DEF Done
<1> QED
  BY <1>2, <1>3, <1>4, <1>5, <1>6, <1>7, <1>8 DEF Under

\* The steps that end an operation below the filter.
LEMMA EndStep ==
  ASSUME IInv, NEW t \in Thread, End(t)
  PROVE  IInv'
<1> DEFINE o == [op[t] EXCEPT !.stage = "ended"]
<1>1. /\ op \in [Thread -> Operation] /\ op[t] \in Operation /\ ctx \in 0 .. Context - 1
      /\ op[t].stage # "none" => instance # "none"
      /\ "post" \in op[t].due => HasPost(op[t].kind)
  BY DEF IInv, TypeOK, Attached, DueRight, InFlight
<1>2. op' = [op EXCEPT ![t] = o]
  BY <1>1 DEF End
<1>3. /\ o \in Operation /\ o.stage = "ended" /\ o.kind = op[t].kind
      /\ o.due = op[t].due
  BY <1>1 DEF Operation
<1> QED
  BY <1>1, <1>2, <1>3, OperationStep DEF End

LEMMA IInvStep == IInv /\ [Next]_vars => IInv'
<1> SUFFICES ASSUME IInv, [Next]_vars PROVE IInv'
  OBVIOUS
<1>1. CASE UNCHANGED vars
  BY <1>1 DEF vars, IInv, TypeOK, InStep, Attached, DueRight, InFlight
<1> QED
  BY <1>1, ManagerStep, IssueStep, UnderStep, EndStep DEF Next, CompleteBelow, Drain

LEMMA InvariantHolds == Spec => []IInv
BY IInvInit, IInvStep, PTL DEF Spec

(***************************************************************************)
(* A driver that is out has left the manager nothing, an operation under   *)
(* way has an instance and a driver to call back, and no post callback is  *)
(* due to an entry that names none (DriverEntry, PtUnload, Callbacks).     *)
(***************************************************************************)
THEOREM CallbacksHold == Spec => []CallbacksHaveCode
<1>1. IInv => CallbacksHaveCode
  BY DEF IInv, TypeOK, InStep, Attached, DueRight, CallbacksHaveCode
<1> QED
  BY <1>1, InvariantHolds, PTL
=============================================================================
