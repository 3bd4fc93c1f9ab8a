---------------------------- MODULE PassThrough ----------------------------
(***************************************************************************)
(* driver/passThroughfilter.c: a minifilter that lets every operation      *)
(* pass and asks for the status of some.  The filter manager is modelled   *)
(* from what the filter relies on: it calls the callbacks of an attached   *)
(* filter for each operation, the status callback when the driver below    *)
(* returns and the post callback when the operation has ended, in either   *)
(* order; a request for a status may fail; an operation the driver below   *)
(* keeps (an oplock, a directory notification) may never end by itself, so *)
(* a teardown drains those still there; and the manager neither detaches   *)
(* nor unregisters a filter before the operations let through are done.    *)
(***************************************************************************)
EXTENDS Integers

CONSTANTS
  Thread,    \* who makes operations
  Context    \* bound: values of OperationStatusCtx, which wraps around

ASSUME ContextAssumption == Context \in Nat \ {0}

Kind == {"plain", "status", "shutdown"}  \* as PtDoRequestOperationStatus and Callbacks tell

VARIABLES
  image,     \* the code of the driver: "out", "entry", "in", "unload"
  filter,    \* what the manager has of it: "none", "registered", "started", "ending"
  instance,  \* its instance on the volume: "none", "attached", "leaving"
  ctx,       \* OperationStatusCtx
  op         \* the operation of each thread: [stage, kind, arg, due]

vars == <<image, filter, instance, ctx, op>>

NoOp == [stage |-> "none", kind |-> "plain", arg |-> 0, due |-> {}]
InFlight(t) == op[t].stage # "none"
Drained == \A t \in Thread : ~ InFlight(t)

\* The kinds of operation whose entry in Callbacks has a post callback.
HasPost(k) == k # "shutdown"

Init == /\ image = "out" /\ filter = "none" /\ instance = "none"
        /\ ctx = 1 % Context
        /\ op = [t \in Thread |-> NoOp]

(***************************************************************************)
(* DriverEntry and PtUnload.                                               *)
(***************************************************************************)
\* The first half of DriverEntry: a filter that cannot be registered is not
\* loaded, and its entry returns the error.
FltRegisterFilter ==
  /\ image = "out"
  /\ \/ image' = "entry" /\ filter' = "registered"
     \/ UNCHANGED <<image, filter>>
  /\ UNCHANGED <<instance, ctx, op>>

\* WRONG: a filter that cannot be started is not unregistered.
StartAlone ==
  /\ image = "entry"
  /\ \/ image' = "in" /\ filter' = "started"
     \/ image' = "out" /\ UNCHANGED filter
  /\ UNCHANGED <<instance, ctx, op>>

\* The second half: FltStartFiltering, and FltUnregisterFilter when it fails.
FltStartFiltering ==
  /\ image = "entry"
  /\ \/ image' = "in" /\ filter' = "started"
     \/ image' = "out" /\ filter' = "none"
  /\ UNCHANGED <<instance, ctx, op>>

\* PtUnload ends the filter and returns when the manager has let go of it.
PtUnload ==
  /\ image = "in"
  /\ image' = "unload" /\ filter' = "ending"
  /\ UNCHANGED <<instance, ctx, op>>

FltUnregisterFilter ==
  /\ filter = "ending" /\ instance = "none"
  /\ image' = "out" /\ filter' = "none"
  /\ UNCHANGED <<instance, ctx, op>>

(***************************************************************************)
(* The instance: the callbacks attach to every volume and let every detach *)
(* begin; the manager completes it when no operation is left in it.        *)
(***************************************************************************)
PtInstanceSetup ==
  /\ filter = "started" /\ instance = "none"
  /\ instance' = "attached"
  /\ UNCHANGED <<image, filter, ctx, op>>

\* PtInstanceQueryTeardown (a detach asked for, or an unload that asks no one)
\* and PtInstanceTeardownStart.
PtInstanceTeardownStart ==
  /\ instance = "attached"
  /\ instance' = "leaving"
  /\ UNCHANGED <<image, filter, ctx, op>>

PtInstanceTeardownComplete ==
  /\ instance = "leaving" /\ Drained
  /\ instance' = "none"
  /\ UNCHANGED <<image, filter, ctx, op>>

(***************************************************************************)
(* Operations.  A pre callback that asks for the status increments the     *)
(* counter of all threads and does so without a lock: a load, then a       *)
(* store.  The request may fail, which is only logged.                     *)
(***************************************************************************)
Issue(t, k) ==
  /\ instance = "attached" /\ ~ InFlight(t)
  /\ op' = [op EXCEPT ![t] = [NoOp EXCEPT !.stage = "pre", !.kind = k]]
  /\ UNCHANGED <<image, filter, instance, ctx>>

Below(t, due) == op' = [op EXCEPT ![t].stage = "below", ![t].due = due]

PtPreOperationPassThrough(t) ==
  /\ op[t].stage = "pre" /\ op[t].kind = "plain"
  /\ Below(t, {"post"})
  /\ UNCHANGED <<image, filter, instance, ctx>>

\* WRONG: WITH_CALLBACK, as its comment says, for an entry with no post callback.
NoPostWithCallback(t) ==
  /\ op[t].stage = "pre" /\ op[t].kind = "shutdown"
  /\ Below(t, {"post"})
  /\ UNCHANGED <<image, filter, instance, ctx>>

PtPreOperationNoPostOperationPassThrough(t) ==
  /\ op[t].stage = "pre" /\ op[t].kind = "shutdown"
  /\ Below(t, {})
  /\ UNCHANGED <<image, filter, instance, ctx>>

LoadStatusCtx(t) ==
  /\ op[t].stage = "pre" /\ op[t].kind = "status"
  /\ op' = [op EXCEPT ![t].stage = "count", ![t].arg = (ctx + 1) % Context]
  /\ UNCHANGED <<image, filter, instance, ctx>>

FltRequestOperationStatusCallback(t) ==
  /\ op[t].stage = "count"
  /\ ctx' = op[t].arg
  /\ \E granted \in BOOLEAN : Below(t, {"post"} \cup (IF granted THEN {"status"} ELSE {}))
  /\ UNCHANGED <<image, filter, instance>>

(***************************************************************************)
(* The driver below ends an operation when it will, and some never.  The   *)
(* manager ends the ones an instance that leaves still has below it: their *)
(* post callback is told of the draining in Flags, which it ignores.       *)
(***************************************************************************)
End(t) ==
  /\ op[t].stage = "below" /\ op' = [op EXCEPT ![t].stage = "ended"]
  /\ UNCHANGED <<image, filter, instance, ctx>>

CompleteBelow(t) == End(t)
Drain(t) == instance = "leaving" /\ End(t)

PtOperationStatusCallback(t) ==
  /\ "status" \in op[t].due
  /\ op' = [op EXCEPT ![t].due = @ \ {"status"}]
  /\ UNCHANGED <<image, filter, instance, ctx>>

\* WRONG: the post callback keeps the operation and nothing ever completes it.
PostMore(t) ==
  /\ op[t].stage = "ended" /\ "post" \in op[t].due
  /\ UNCHANGED vars

\* PtPostOperationPassThrough, which always finishes.
PtPostOperationPassThrough(t) ==
  /\ op[t].stage = "ended" /\ "post" \in op[t].due /\ HasPost(op[t].kind)
  /\ op' = [op EXCEPT ![t].due = @ \ {"post"}]
  /\ UNCHANGED <<image, filter, instance, ctx>>

\* The manager is done with an operation when no callback is due for it: at
\* once when its entry has no post callback.
Done(t) ==
  /\ op[t].stage \in {"below", "ended"} /\ op[t].due = {}
  /\ op' = [op EXCEPT ![t] = NoOp]
  /\ UNCHANGED <<image, filter, instance, ctx>>

(***************************************************************************)
(* The specification.  The manager and the callbacks it calls get on with  *)
(* what they began; nobody has to load, unload, detach or make operations, *)
(* and the driver below has to end none.                                   *)
(***************************************************************************)
Under(t) == \/ PtPreOperationPassThrough(t)
            \/ PtPreOperationNoPostOperationPassThrough(t)
            \/ LoadStatusCtx(t) \/ FltRequestOperationStatusCallback(t)
            \/ PtOperationStatusCallback(t) \/ PtPostOperationPassThrough(t)
            \/ Done(t)

Next == \/ FltRegisterFilter \/ FltStartFiltering \/ PtUnload \/ FltUnregisterFilter
        \/ PtInstanceSetup \/ PtInstanceTeardownStart \/ PtInstanceTeardownComplete
        \/ \E t \in Thread : \/ \E k \in Kind : Issue(t, k)
                             \/ Under(t) \/ CompleteBelow(t) \/ Drain(t)

\* An instance of a filter that ends is torn down unasked.
EndInstance == filter = "ending" /\ PtInstanceTeardownStart

Fairness == /\ \A t \in Thread : WF_vars(Under(t)) /\ WF_vars(Drain(t))
            /\ WF_vars(EndInstance) /\ WF_vars(PtInstanceTeardownComplete)
            /\ WF_vars(FltUnregisterFilter)

Spec == Init /\ [][Next]_vars /\ Fairness

(***************************************************************************)
(* Properties.                                                             *)
(***************************************************************************)
\* No callback into a driver that is gone: whatever DriverEntry and PtUnload
\* met on the way, a driver that is out has left the manager nothing of its
\* filter, an operation under way has an instance and a driver to call back,
\* and no post callback is due to an operation whose entry names none.
CallbacksHaveCode ==
  /\ image = "out" => filter = "none"
  /\ filter \in {"none", "registered"} => instance = "none"
  /\ \A t \in Thread : InFlight(t) => /\ instance # "none" /\ image \in {"in", "unload"}
                                      /\ "post" \in op[t].due => HasPost(op[t].kind)

\* A teardown drains: when the instance leaves, each operation the filter let
\* through gets its callbacks and is done, the ones nothing else would ever end
\* too, whether or not their status request was granted and whichever callback
\* came first; so the instance is gone in the end, and PtUnload, which waits
\* for all of that in FltUnregisterFilter, returns.
UnloadDrains ==
  /\ \A t \in Thread : (InFlight(t) /\ instance = "leaving") ~> ~ InFlight(t)
  /\ instance = "leaving" ~> instance = "none"
  /\ image = "unload" ~> image = "out"
=============================================================================
