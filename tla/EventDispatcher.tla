--------------------------- MODULE EventDispatcher ---------------------------
(***************************************************************************)
(* pkg/events/event_dispatcher.go, for one event type: dispatches run the  *)
(* handlers they found registered, without the lock, while other callers,  *)
(* and the handlers themselves, register and remove handlers.              *)
(***************************************************************************)
EXTENDS Naturals, Sequences, SequencesExt

CONSTANTS EventHandlers,  \* the handlers
          Dispatches,     \* the calls of Dispatch
          MaxChanges      \* bound: calls of Register, Remove and Clear

ASSUME DispatcherAssumption == MaxChanges \in Nat

VARIABLES
    registered,  \* the handlers of the type, in order
    dispatch,    \* for each call: its copy, how far it is, what it returned
    changes,     \* how many changes were made
    since        \* history: which change registered a handler; 0 is none

dispatcherVars == <<registered, dispatch, changes, since>>

Registered(h) == \E i \in 1 .. Len(registered) : registered[i] = h

DispatcherTypeOK ==
    /\ registered \in Seq(EventHandlers)
    /\ dispatch \in [Dispatches ->
          [at : {"idle", "running", "over"}, copy : Seq(EventHandlers),
           called : Seq(EventHandlers), result : {"none", "nil", "invalid", "error", "canceled"},
           begun : 0 .. MaxChanges]]
    /\ changes \in 0 .. MaxChanges
    /\ since \in [EventHandlers -> 0 .. MaxChanges]
    /\ \A h \in EventHandlers : Registered(h) = (since[h] > 0)

DispatcherInit ==
    /\ registered = << >>
    /\ dispatch = [d \in Dispatches |->
          [at |-> "idle", copy |-> << >>, called |-> << >>, result |-> "none", begun |-> 0]]
    /\ changes = 0
    /\ since = [h \in EventHandlers |-> 0]
-----------------------------------------------------------------------------
Changed == changes < MaxChanges /\ changes' = changes + 1

(* Register refuses a handler that is there, an empty type and a nil.      *)
Register(h) ==
    /\ ~Registered(h)
    /\ Changed
    /\ registered' = Append(registered, h)
    /\ since' = [since EXCEPT ![h] = changes + 1]
    /\ UNCHANGED dispatch

Unregister(h) ==
    /\ Registered(h)
    /\ Changed
    /\ \E i \in 1 .. Len(registered) :
           registered[i] = h /\ registered' = RemoveAt(registered, i)
    /\ since' = [since EXCEPT ![h] = 0]
    /\ UNCHANGED dispatch

Clear ==
    /\ registered # << >>
    /\ Changed
    /\ registered' = << >>
    /\ since' = [h \in EventHandlers |-> 0]
    /\ UNCHANGED dispatch

(* Dispatch, under the read lock: a nil event or an empty type is refused, *)
(* a type without handlers is no error, and the handlers are copied.       *)
DispatchBegins(d, valid) ==
    /\ dispatch[d].at = "idle"
    /\ dispatch' = [dispatch EXCEPT ![d] =
          IF valid THEN [@ EXCEPT !.at = "running", !.copy = registered, !.begun = changes]
          ELSE [@ EXCEPT !.at = "over", !.result = "invalid"]]
    /\ UNCHANGED <<registered, changes, since>>

DispatchReturns(d, result) ==
    /\ dispatch' = [dispatch EXCEPT ![d].at = "over", ![d].result = result]
    /\ UNCHANGED <<registered, changes, since>>

CallsMade(d) == Len(dispatch[d].called)

(* Mistake: the handlers are looked up again for each call.                *)
HandlerCalledLive(d) ==
    /\ dispatch[d].at = "running" /\ CallsMade(d) < Len(registered)
    /\ dispatch' = [dispatch EXCEPT ![d].called = Append(@, registered[CallsMade(d) + 1])]
    /\ UNCHANGED <<registered, changes, since>>

(* The next handler of the copy returns nil.                               *)
HandlerCalled(d) ==
    /\ dispatch[d].at = "running" /\ CallsMade(d) < Len(dispatch[d].copy)
    /\ dispatch' = [dispatch EXCEPT ![d].called = Append(@, dispatch[d].copy[CallsMade(d) + 1])]
    /\ UNCHANGED <<registered, changes, since>>

(* It returns an error, or the context was done before it was called.      *)
HandlerErrs(d) ==
    /\ dispatch[d].at = "running" /\ CallsMade(d) < Len(dispatch[d].copy)
    /\ dispatch' = [dispatch EXCEPT
          ![d].at = "over", ![d].result = "error",
          ![d].called = Append(@, dispatch[d].copy[CallsMade(d) + 1])]
    /\ UNCHANGED <<registered, changes, since>>

DispatchCanceled(d) ==
    /\ dispatch[d].at = "running" /\ CallsMade(d) < Len(dispatch[d].copy)
    /\ DispatchReturns(d, "canceled")

DispatchEnds(d) ==
    /\ dispatch[d].at = "running" /\ CallsMade(d) = Len(dispatch[d].copy)
    /\ DispatchReturns(d, "nil")

DispatcherNext ==
    \/ \E h \in EventHandlers : Register(h) \/ Unregister(h)
    \/ Clear
    \/ \E d \in Dispatches :
           \/ \E valid \in BOOLEAN : DispatchBegins(d, valid)
           \/ HandlerCalled(d) \/ HandlerErrs(d) \/ DispatchCanceled(d) \/ DispatchEnds(d)

DispatcherSpec == DispatcherInit /\ [][DispatcherNext]_dispatcherVars
-----------------------------------------------------------------------------
(* A dispatch calls handlers in the order of their registration, each at   *)
(* most once, and none that was registered after it began; when it returns *)
(* nil, it has called every handler that was registered before it began    *)
(* and still is, whatever was registered or removed meanwhile              *)
(* (event_dispatcher.go:43-76, 108-134).                                   *)
DispatchInOrder ==
    \A d \in Dispatches :
        LET called == dispatch[d].called
            Within(h) == \E i \in 1 .. Len(called) : called[i] = h IN
        /\ \A i, j \in 1 .. Len(called) : i < j =>
               /\ called[i] # called[j]
               /\ since[called[i]] \in 1 .. dispatch[d].begun
                  /\ since[called[j]] \in 1 .. dispatch[d].begun
                  => since[called[i]] < since[called[j]]
        /\ dispatch[d].result = "nil" =>
               \A h \in EventHandlers : since[h] \in 1 .. dispatch[d].begun => Within(h)
        /\ \A i \in 1 .. Len(called) :
               since[called[i]] > dispatch[d].begun =>
                   \E k \in 1 .. Len(dispatch[d].copy) : dispatch[d].copy[k] = called[i]
=============================================================================
