---------------------- MODULE EventDispatcher_proofs ----------------------
(***************************************************************************)
(* That a dispatch keeps to the handlers it found, for any handlers, any   *)
(* dispatches and any number of changes.                                   *)
(***************************************************************************)
EXTENDS EventDispatcher, SequenceTheorems, TLAPS

(* The types, without the link between registered and since.               *)
Types ==
    /\ registered \in Seq(EventHandlers)
    /\ dispatch \in [Dispatches ->
          [at : {"idle", "running", "over"}, copy : Seq(EventHandlers),
           called : Seq(EventHandlers), result : {"none", "nil", "invalid", "error", "canceled"},
           begun : 0 .. MaxChanges]]
    /\ changes \in 0 .. MaxChanges
    /\ since \in [EventHandlers -> 0 .. MaxChanges]

(* The handlers are registered in the order of their registration, and no  *)
(* other handler has one.                                                  *)
RegisteredInv ==
    /\ \A h \in EventHandlers : since[h] <= changes
    /\ \A i \in 1 .. Len(registered) : since[registered[i]] > 0
    /\ \A i, j \in 1 .. Len(registered) :
           i < j => since[registered[i]] < since[registered[j]]
    /\ \A h \in EventHandlers :
           since[h] > 0 => \E i \in 1 .. Len(registered) : registered[i] = h

(* The handler has its registration since before the dispatch began.       *)
StillKept(d, h) == since[h] \in 1 .. dispatch[d].begun

(* A dispatch has called the first handlers of its copy, and all of them   *)
(* if it succeeded.                                                        *)
CalledInv(d) ==
    /\ dispatch[d].begun <= changes
    /\ dispatch[d].at \in {"idle", "running"} => dispatch[d].result = "none"
    /\ dispatch[d].at = "idle" => Len(dispatch[d].called) = 0
    /\ dispatch[d].result = "nil" => Len(dispatch[d].called) = Len(dispatch[d].copy)
    /\ Len(dispatch[d].called) <= Len(dispatch[d].copy)
    /\ \A i \in 1 .. Len(dispatch[d].called) : dispatch[d].called[i] = dispatch[d].copy[i]

(* The copy holds no handler twice and has every kept one, in order.       *)
CopyInv(d) ==
    /\ \A i, j \in 1 .. Len(dispatch[d].copy) :
           i < j => dispatch[d].copy[i] # dispatch[d].copy[j]
    /\ \A i, j \in 1 .. Len(dispatch[d].copy) :
           i < j /\ StillKept(d, dispatch[d].copy[i]) /\ StillKept(d, dispatch[d].copy[j])
               => since[dispatch[d].copy[i]] < since[dispatch[d].copy[j]]
    /\ \A h \in EventHandlers :
           StillKept(d, h) => \E i \in 1 .. Len(dispatch[d].copy) : dispatch[d].copy[i] = h

IInv == Types /\ RegisteredInv /\ \A d \in Dispatches : CalledInv(d) /\ CopyInv(d)
-----------------------------------------------------------------------------
LEMMA InitIInv == DispatcherInit => IInv
BY DispatcherAssumption DEF DispatcherInit, IInv, Types, RegisteredInv, CalledInv, CopyInv, StillKept

(* What a change of the handlers leaves of a dispatch: nobody gets an      *)
(* earlier registration by it.                                             *)
LEMMA ChangeKeepsCopies ==
    ASSUME IInv, Types', changes' = changes + 1, UNCHANGED dispatch,
           \A h \in EventHandlers : since'[h] \in {since[h], 0, changes + 1}
    PROVE  \A d \in Dispatches : CalledInv(d)' /\ CopyInv(d)'
<1> TAKE d \in Dispatches
<1>1. CalledInv(d) /\ CopyInv(d) /\ Types
  BY DEF IInv
<1>2. /\ dispatch[d].copy \in Seq(EventHandlers)
      /\ dispatch[d].begun \in Nat /\ changes \in Nat /\ dispatch[d].begun <= changes
      /\ \A h \in EventHandlers : since[h] \in Nat
  BY <1>1, DispatcherAssumption, SMTT(30) DEF Types, CalledInv
<1>3. ASSUME NEW h \in EventHandlers, StillKept(d, h)'
      PROVE  since'[h] = since[h] /\ StillKept(d, h)
  BY <1>2, <1>3 DEF StillKept
<1>4. \A i \in 1 .. Len(dispatch[d].copy) : dispatch[d].copy[i] \in EventHandlers
  BY <1>2
<1>5. CalledInv(d)'
  BY <1>1, <1>2 DEF CalledInv
<1>6. ASSUME NEW i \in 1 .. Len(dispatch[d].copy), NEW j \in 1 .. Len(dispatch[d].copy),
             i < j, StillKept(d, dispatch[d].copy[i])', StillKept(d, dispatch[d].copy[j])'
      PROVE  since'[dispatch[d].copy[i]] < since'[dispatch[d].copy[j]]
  <2>1. /\ since'[dispatch[d].copy[i]] = since[dispatch[d].copy[i]] /\ StillKept(d, dispatch[d].copy[i])
        /\ since'[dispatch[d].copy[j]] = since[dispatch[d].copy[j]] /\ StillKept(d, dispatch[d].copy[j])
    BY <1>3, <1>4, <1>6 DEF StillKept
  <2> QED
    BY <1>1, <1>6, <2>1 DEF CopyInv
<1>7. CopyInv(d)'
  BY <1>1, <1>3, <1>6 DEF CopyInv
<1> QED
  BY <1>5, <1>7

LEMMA RegisterStep ==
    ASSUME IInv, NEW h \in EventHandlers, Register(h)
    PROVE  IInv'
<1>1. /\ Types /\ RegisteredInv
      /\ changes < MaxChanges /\ changes' = changes + 1 /\ UNCHANGED dispatch
      /\ registered' = Append(registered, h)
      /\ since' = [since EXCEPT ![h] = changes + 1]
  BY DEF IInv, Register, Changed
<1>2. Types'
  BY <1>1, DispatcherAssumption DEF Types
<1>3. RegisteredInv'
  <2>1. /\ Len(registered') = Len(registered) + 1 /\ registered'[Len(registered) + 1] = h
        /\ \A i \in 1 .. Len(registered) : registered'[i] = registered[i] /\ registered[i] \in EventHandlers
        /\ Len(registered) \in Nat
    BY <1>1 DEF Types
  <2>2. \A i \in 1 .. Len(registered) : registered[i] # h
    BY DEF Register, Registered
  <2>3. /\ since'[h] = changes + 1
        /\ \A k \in EventHandlers : k # h => since'[k] = since[k]
    BY <1>1 DEF Types
  <2>4. changes \in Nat /\ \A k \in EventHandlers : since[k] \in Nat
    BY <1>1, DispatcherAssumption DEF Types
  <2> QED
    BY <1>1, <2>1, <2>2, <2>3, <2>4 DEF RegisteredInv
<1>4. \A d \in Dispatches : CalledInv(d)' /\ CopyInv(d)'
  <2>1. \A k \in EventHandlers : since'[k] \in {since[k], 0, changes + 1}
    BY <1>1 DEF Types
  <2> QED
    BY <1>1, <1>2, <2>1, ChangeKeepsCopies
<1> QED
  BY <1>2, <1>3, <1>4 DEF IInv

(* What is left of a sequence without one of its elements.                 *)
LEMMA RemovedAt ==
    ASSUME NEW S, NEW s \in Seq(S), NEW n \in 1 .. Len(s)
    PROVE  /\ RemoveAt(s, n) \in Seq(S) /\ Len(s) \in Nat
           /\ Len(RemoveAt(s, n)) = Len(s) - 1
           /\ \A i \in 1 .. Len(s) - 1 :
                  RemoveAt(s, n)[i] = IF i < n THEN s[i] ELSE s[i + 1]
<1> DEFINE before == SubSeq(s, 1, n - 1)
           after == SubSeq(s, n + 1, Len(s))
<1>1. Len(s) \in Nat /\ n \in Nat /\ 1 <= n /\ n <= Len(s)
  OBVIOUS
<1>2. /\ before \in Seq(S) /\ Len(before) = n - 1
      /\ \A i \in 1 .. n - 1 : before[i] = s[i]
  BY <1>1
<1>3. /\ after \in Seq(S) /\ Len(after) = Len(s) - n
      /\ \A i \in 1 .. Len(s) - n : after[i] = s[n + i]
  BY <1>1
<1>4. RemoveAt(s, n) = before \o after
  BY DEF RemoveAt
<1> HIDE DEF before, after
<1>5. /\ before \o after \in Seq(S) /\ Len(before \o after) = Len(s) - 1
      /\ \A i \in 1 .. Len(s) - 1 :
             (before \o after)[i] = IF i <= n - 1 THEN before[i] ELSE after[i - (n - 1)]
  <2>1. /\ before \o after \in Seq(S)
        /\ Len(before \o after) = Len(before) + Len(after)
        /\ \A i \in 1 .. Len(before) + Len(after) :
               (before \o after)[i] =
                   IF i <= Len(before) THEN before[i] ELSE after[i - Len(before)]
    <3>1. before \in Seq(S) /\ after \in Seq(S)
      BY <1>2, <1>3
    <3> QED
      BY <3>1, ConcatProperties, Zenon
  <2>2. Len(before) + Len(after) = Len(s) - 1
    BY <1>1, <1>2, <1>3
  <2> QED
    BY <1>2, <2>1, <2>2
<1>6. ASSUME NEW i \in 1 .. Len(s) - 1
      PROVE  (before \o after)[i] = IF i < n THEN s[i] ELSE s[i + 1]
  <2>1. CASE i < n
    BY <1>1, <1>2, <1>5, <2>1
  <2>2. CASE ~(i < n)
    <3>1. (before \o after)[i] = after[i - (n - 1)]
      BY <1>1, <1>5, <2>2
    <3>2. i - (n - 1) \in 1 .. Len(s) - n /\ n + (i - (n - 1)) = i + 1
      BY <1>1, <2>2
    <3> QED
      BY <1>3, <2>2, <3>1, <3>2
  <2> QED
    BY <2>1, <2>2
<1> QED
  BY <1>1, <1>4, <1>5, <1>6

LEMMA UnregisterStep ==
    ASSUME IInv, NEW h \in EventHandlers, Unregister(h)
    PROVE  IInv'
<1>1. /\ Types /\ RegisteredInv
      /\ changes < MaxChanges /\ changes' = changes + 1 /\ UNCHANGED dispatch
      /\ since' = [since EXCEPT ![h] = 0]
  BY DEF IInv, Unregister, Changed
<1>2. PICK n \in 1 .. Len(registered) :
          registered[n] = h /\ registered' = RemoveAt(registered, n)
  BY DEF Unregister
<1>3. /\ registered' \in Seq(EventHandlers) /\ Len(registered) \in Nat
      /\ Len(registered') = Len(registered) - 1
      /\ \A i \in 1 .. Len(registered) - 1 :
             registered'[i] = IF i < n THEN registered[i] ELSE registered[i + 1]
  BY <1>1, <1>2, RemovedAt DEF Types
<1>4. Types'
  BY <1>1, <1>3, DispatcherAssumption DEF Types
<1>5. RegisteredInv'
  <2>1. /\ since'[h] = 0
        /\ \A k \in EventHandlers : k # h => since'[k] = since[k]
    BY <1>1 DEF Types
  <2>2. changes \in Nat /\ \A k \in EventHandlers : since[k] \in Nat
    BY <1>1, DispatcherAssumption DEF Types
  <2>3. \A i \in 1 .. Len(registered) : registered[i] \in EventHandlers
    BY <1>1 DEF Types
  <2>4. \A i \in 1 .. Len(registered) : i # n => registered[i] # h
    BY <1>1, <1>2, <1>3, <2>2, <2>3 DEF RegisteredInv
  <2>5. \A k \in EventHandlers : since'[k] <= changes'
    BY <1>1, <2>1, <2>2 DEF RegisteredInv
  <2>6. \A i \in 1 .. Len(registered') : since'[registered'[i]] > 0
    BY <1>1, <1>3, <2>1, <2>2, <2>3, <2>4 DEF RegisteredInv
  <2>7. \A i, j \in 1 .. Len(registered') :
            i < j => since'[registered'[i]] < since'[registered'[j]]
    <3> SUFFICES ASSUME NEW i \in 1 .. Len(registered'), NEW j \in 1 .. Len(registered'), i < j
                 PROVE  since'[registered'[i]] < since'[registered'[j]]
      OBVIOUS
    <3> DEFINE Was(k) == IF k < n THEN k ELSE k + 1
    <3>1. /\ Was(i) \in 1 .. Len(registered) /\ Was(j) \in 1 .. Len(registered)
          /\ Was(i) < Was(j) /\ Was(i) # n /\ Was(j) # n
      BY <1>3
    <3>2. registered'[i] = registered[Was(i)] /\ registered'[j] = registered[Was(j)]
      BY <1>3
    <3> HIDE DEF Was
    <3>3. since[registered[Was(i)]] < since[registered[Was(j)]]
      BY <1>1, <3>1 DEF RegisteredInv
    <3> QED
      BY <2>1, <2>3, <2>4, <3>1, <3>2, <3>3
  <2>8. ASSUME NEW k \in EventHandlers, since'[k] > 0
        PROVE  \E i \in 1 .. Len(registered') : registered'[i] = k
    <3>1. k # h /\ since[k] > 0
      BY <2>1, <2>8
    <3>2. PICK m \in 1 .. Len(registered) : registered[m] = k
      BY <1>1, <3>1 DEF RegisteredInv
    <3>3. m # n
      BY <1>2, <3>1, <3>2
    <3>4. CASE m < n
      BY <1>3, <3>2, <3>4
    <3>5. CASE m > n
      <4> DEFINE i == m - 1
      <4>1. i \in 1 .. Len(registered') /\ ~(i < n) /\ i + 1 = m
        BY <1>3, <3>5
      <4> QED
        BY <1>3, <3>2, <4>1
    <3> QED
      BY <1>3, <3>3, <3>4, <3>5
  <2> QED
    BY <2>5, <2>6, <2>7, <2>8 DEF RegisteredInv
<1>6. \A d \in Dispatches : CalledInv(d)' /\ CopyInv(d)'
  <2>1. \A k \in EventHandlers : since'[k] \in {since[k], 0, changes + 1}
    BY <1>1 DEF Types
  <2> QED
    BY <1>1, <1>4, <2>1, ChangeKeepsCopies
<1> QED
  BY <1>4, <1>5, <1>6 DEF IInv

LEMMA ClearStep ==
    ASSUME IInv, Clear
    PROVE  IInv'
<1>1. /\ Types
      /\ changes < MaxChanges /\ changes' = changes + 1 /\ UNCHANGED dispatch
      /\ registered' = << >> /\ since' = [h \in EventHandlers |-> 0]
  BY DEF IInv, Clear, Changed
<1>2. Types'
  BY <1>1, DispatcherAssumption DEF Types
<1>3. RegisteredInv'
  BY <1>1, DispatcherAssumption DEF RegisteredInv, Types
<1>4. \A d \in Dispatches : CalledInv(d)' /\ CopyInv(d)'
  BY <1>1, <1>2, ChangeKeepsCopies
<1> QED
  BY <1>2, <1>3, <1>4 DEF IInv
-----------------------------------------------------------------------------
(* A step of one dispatch leaves the handlers and the others alone.        *)
LEMMA OneDispatch ==
    ASSUME IInv, NEW d \in Dispatches, Types',
           UNCHANGED <<registered, changes, since>>,
           \A e \in Dispatches : e # d => dispatch'[e] = dispatch[e],
           CalledInv(d)', CopyInv(d)'
    PROVE  IInv'
<1>1. ASSUME NEW e \in Dispatches, e # d PROVE CalledInv(e)' /\ CopyInv(e)'
  <2>1. dispatch'[e] = dispatch[e] /\ CalledInv(e) /\ CopyInv(e)
    BY <1>1 DEF IInv
  <2>2. CalledInv(e)'
    BY <2>1 DEF CalledInv
  <2>3. CopyInv(e)'
    BY <2>1 DEF CopyInv, StillKept
  <2> QED
    BY <2>2, <2>3
<1>2. RegisteredInv'
  BY DEF IInv, RegisteredInv
<1> QED
  BY <1>1, <1>2 DEF IInv

LEMMA DispatchBeginsStep ==
    ASSUME IInv, NEW d \in Dispatches, NEW valid \in BOOLEAN, DispatchBegins(d, valid)
    PROVE  IInv'
<1>1. /\ Types /\ RegisteredInv /\ CalledInv(d) /\ CopyInv(d)
      /\ UNCHANGED <<registered, changes, since>> /\ dispatch[d].at = "idle"
  BY DEF IInv, DispatchBegins
<1>2. \A e \in Dispatches : e # d => dispatch'[e] = dispatch[e]
  BY <1>1 DEF DispatchBegins, Types
<1>3. Types'
  BY <1>1, ZenonT(60) DEF DispatchBegins, Types
<1>4. CASE valid
  <2>1. /\ dispatch'[d].copy = registered /\ dispatch'[d].begun = changes
        /\ dispatch'[d].called = dispatch[d].called /\ dispatch'[d].result = dispatch[d].result
        /\ dispatch'[d].at = "running"
    BY <1>1, <1>4 DEF DispatchBegins, Types
  <2>2. /\ Len(dispatch[d].called) = 0 /\ dispatch[d].result = "none"
        /\ changes \in Nat /\ Len(registered) \in Nat
        /\ \A h \in EventHandlers : since[h] \in Nat
        /\ \A i \in 1 .. Len(registered) : registered[i] \in EventHandlers
    BY <1>1, DispatcherAssumption DEF CalledInv, Types
  <2>3. CalledInv(d)'
    BY <1>1, <2>1, <2>2 DEF CalledInv
  <2>4. \A i, j \in 1 .. Len(registered) : i < j => registered[i] # registered[j]
    BY <1>1, <2>2 DEF RegisteredInv
  <2>5. \A h \in EventHandlers : StillKept(d, h)' => since[h] > 0
    BY <1>1, <2>1, <2>2 DEF StillKept
  <2>6. CopyInv(d)'
    BY <1>1, <2>1, <2>4, <2>5 DEF CopyInv, RegisteredInv
  <2> QED
    BY <1>1, <1>2, <1>3, <2>3, <2>6, OneDispatch
<1>5. CASE ~valid
  <2>1. /\ dispatch'[d].copy = dispatch[d].copy /\ dispatch'[d].begun = dispatch[d].begun
        /\ dispatch'[d].called = dispatch[d].called /\ dispatch'[d].result = "invalid"
        /\ dispatch'[d].at = "over"
    BY <1>1, <1>5 DEF DispatchBegins, Types
  <2>2. CalledInv(d)'
    BY <1>1, <2>1 DEF CalledInv
  <2>3. CopyInv(d)'
    BY <1>1, <2>1 DEF CopyInv, StillKept
  <2> QED
    BY <1>1, <1>2, <1>3, <2>2, <2>3, OneDispatch
<1> QED
  BY <1>4, <1>5

(* A call of the next handler, after which the dispatch runs on or is over *)
(* without success.                                                        *)
LEMMA NextHandler ==
    ASSUME IInv, NEW d \in Dispatches, Types',
           UNCHANGED <<registered, changes, since>>,
           \A e \in Dispatches : e # d => dispatch'[e] = dispatch[e],
           Len(dispatch[d].called) < Len(dispatch[d].copy),
           dispatch'[d].copy = dispatch[d].copy, dispatch'[d].begun = dispatch[d].begun,
           dispatch'[d].called =
               Append(dispatch[d].called, dispatch[d].copy[Len(dispatch[d].called) + 1]),
           \/ dispatch'[d].at = "running" /\ dispatch'[d].result = "none"
           \/ dispatch'[d].at = "over" /\ dispatch'[d].result = "error"
    PROVE  IInv'
<1> DEFINE made == Len(dispatch[d].called)
           next == dispatch[d].copy[made + 1]
<1>1. Types /\ CalledInv(d) /\ CopyInv(d)
  BY DEF IInv
<1>2. /\ dispatch[d].copy \in Seq(EventHandlers) /\ dispatch[d].called \in Seq(EventHandlers)
      /\ made \in Nat /\ Len(dispatch[d].copy) \in Nat
  BY <1>1 DEF Types
<1>3. next \in EventHandlers
  BY <1>2
<1>4. /\ Len(dispatch'[d].called) = made + 1
      /\ dispatch'[d].called[made + 1] = next
      /\ \A i \in 1 .. made : dispatch'[d].called[i] = dispatch[d].called[i]
  BY <1>2, <1>3
<1>5. CalledInv(d)'
  <2>1. \A i \in 1 .. Len(dispatch'[d].called) : dispatch'[d].called[i] = dispatch'[d].copy[i]
    BY <1>1, <1>2, <1>4 DEF CalledInv
  <2>2. Len(dispatch'[d].called) <= Len(dispatch'[d].copy)
    BY <1>2, <1>4
  <2> QED
    BY <1>1, <2>1, <2>2 DEF CalledInv
<1>6. CopyInv(d)'
  BY <1>1, SMTT(30) DEF CopyInv, StillKept
<1> QED
  BY <1>5, <1>6, OneDispatch

LEMMA HandlerCalledStep ==
    ASSUME IInv, NEW d \in Dispatches, HandlerCalled(d)
    PROVE  IInv'
<1>1. /\ Types /\ CalledInv(d)
      /\ Len(dispatch[d].called) < Len(dispatch[d].copy) /\ dispatch[d].at = "running"
      /\ UNCHANGED <<registered, changes, since>>
  BY DEF IInv, HandlerCalled, CallsMade
<1> DEFINE next == dispatch[d].copy[Len(dispatch[d].called) + 1]
<1>2. next \in EventHandlers /\ Append(dispatch[d].called, next) \in Seq(EventHandlers)
  <2>1. dispatch[d].copy \in Seq(EventHandlers) /\ dispatch[d].called \in Seq(EventHandlers)
    BY <1>1 DEF Types
  <2> QED
    BY <1>1, <2>1
<1>3. dispatch' = [dispatch EXCEPT ![d].called = Append(dispatch[d].called, next)]
  BY DEF HandlerCalled, CallsMade
<1> HIDE DEF next
<1>4. Types'
  BY <1>1, <1>2, <1>3 DEF Types
<1>5. /\ \A e \in Dispatches : e # d => dispatch'[e] = dispatch[e]
      /\ dispatch'[d].copy = dispatch[d].copy /\ dispatch'[d].begun = dispatch[d].begun
      /\ dispatch'[d].called = Append(dispatch[d].called, next)
      /\ dispatch'[d].at = "running" /\ dispatch'[d].result = dispatch[d].result
  BY <1>1, <1>3 DEF Types
<1>6. dispatch[d].result = "none"
  BY <1>1 DEF CalledInv
<1> QED
  BY <1>1, <1>4, <1>5, <1>6, NextHandler DEF next

LEMMA HandlerErrsStep ==
    ASSUME IInv, NEW d \in Dispatches, HandlerErrs(d)
    PROVE  IInv'
<1>1. /\ Types
      /\ Len(dispatch[d].called) < Len(dispatch[d].copy)
      /\ UNCHANGED <<registered, changes, since>>
  BY DEF IInv, HandlerErrs, CallsMade
<1> DEFINE next == dispatch[d].copy[Len(dispatch[d].called) + 1]
<1>2. next \in EventHandlers /\ Append(dispatch[d].called, next) \in Seq(EventHandlers)
  <2>1. dispatch[d].copy \in Seq(EventHandlers) /\ dispatch[d].called \in Seq(EventHandlers)
    BY <1>1 DEF Types
  <2> QED
    BY <1>1, <2>1
<1>3. dispatch' = [dispatch EXCEPT
          ![d] = [dispatch[d] EXCEPT !.at = "over", !.result = "error",
                                     !.called = Append(dispatch[d].called, next)]]
  BY <1>1 DEF HandlerErrs, CallsMade, Types
<1> HIDE DEF next
<1>4. Types'
  BY <1>1, <1>2, <1>3 DEF Types
<1>5. /\ \A e \in Dispatches : e # d => dispatch'[e] = dispatch[e]
      /\ dispatch'[d].copy = dispatch[d].copy /\ dispatch'[d].begun = dispatch[d].begun
      /\ dispatch'[d].called = Append(dispatch[d].called, next)
      /\ dispatch'[d].at = "over" /\ dispatch'[d].result = "error"
  BY <1>1, <1>3 DEF Types
<1> QED
  BY <1>1, <1>4, <1>5, NextHandler DEF next

LEMMA DispatchReturnsStep ==
    ASSUME IInv, NEW d \in Dispatches, NEW result \in {"nil", "canceled"},
           result = "nil" => Len(dispatch[d].called) = Len(dispatch[d].copy),
           DispatchReturns(d, result)
    PROVE  IInv'
<1>1. Types /\ CalledInv(d) /\ CopyInv(d) /\ UNCHANGED <<registered, changes, since>>
  BY DEF IInv, DispatchReturns
<1>2. Types'
  BY <1>1, ZenonT(60) DEF DispatchReturns, Types
<1>3. /\ \A e \in Dispatches : e # d => dispatch'[e] = dispatch[e]
      /\ dispatch'[d].copy = dispatch[d].copy /\ dispatch'[d].begun = dispatch[d].begun
      /\ dispatch'[d].called = dispatch[d].called
      /\ dispatch'[d].result = result /\ dispatch'[d].at = "over"
  BY <1>1 DEF DispatchReturns, Types
<1>4. CalledInv(d)'
  BY <1>1, <1>3 DEF CalledInv
<1>5. CopyInv(d)'
  BY <1>1, <1>3 DEF CopyInv, StillKept
<1> QED
  BY <1>1, <1>2, <1>3, <1>4, <1>5, OneDispatch

LEMMA NextIInv == IInv /\ [DispatcherNext]_dispatcherVars => IInv'
<1> SUFFICES ASSUME IInv, [DispatcherNext]_dispatcherVars PROVE IInv'
  OBVIOUS
<1>1. ASSUME NEW h \in EventHandlers, Register(h) \/ Unregister(h) PROVE IInv'
  BY <1>1, RegisterStep, UnregisterStep
<1>2. CASE Clear
  BY <1>2, ClearStep
<1>3. ASSUME NEW d \in Dispatches, NEW valid \in BOOLEAN, DispatchBegins(d, valid) PROVE IInv'
  BY <1>3, DispatchBeginsStep
<1>4. ASSUME NEW d \in Dispatches, HandlerCalled(d) \/ HandlerErrs(d) PROVE IInv'
  BY <1>4, HandlerCalledStep, HandlerErrsStep
<1>5. ASSUME NEW d \in Dispatches, DispatchCanceled(d) PROVE IInv'
  BY <1>5, DispatchReturnsStep DEF DispatchCanceled
<1>6. ASSUME NEW d \in Dispatches, DispatchEnds(d) PROVE IInv'
  BY <1>6, DispatchReturnsStep DEF DispatchEnds, CallsMade
<1>7. CASE UNCHANGED dispatcherVars
  BY <1>7 DEF dispatcherVars, IInv, Types, RegisteredInv, CalledInv, CopyInv, StillKept
<1> QED
  BY <1>1, <1>2, <1>3, <1>4, <1>5, <1>6, <1>7 DEF DispatcherNext

(* The invariant holds of every behaviour.                                 *)
THEOREM DispatcherInvariant == DispatcherSpec => []IInv
BY InitIInv, NextIInv, PTL DEF DispatcherSpec

(* What the invariant says of the order of a dispatch.                     *)
LEMMA DispatchIsInOrder ==
    ASSUME IInv
    PROVE  DispatchInOrder
<1>1. ASSUME NEW d \in Dispatches
      PROVE  /\ \A i, j \in 1 .. Len(dispatch[d].called) : i < j =>
                    /\ dispatch[d].called[i] # dispatch[d].called[j]
                    /\ StillKept(d, dispatch[d].called[i]) /\ StillKept(d, dispatch[d].called[j])
                       => since[dispatch[d].called[i]] < since[dispatch[d].called[j]]
             /\ dispatch[d].result = "nil" =>
                    \A h \in EventHandlers : StillKept(d, h) =>
                        \E i \in 1 .. Len(dispatch[d].called) : dispatch[d].called[i] = h
             /\ \A i \in 1 .. Len(dispatch[d].called) :
                    \E k \in 1 .. Len(dispatch[d].copy) :
                        dispatch[d].copy[k] = dispatch[d].called[i]
  <2>1. /\ CalledInv(d) /\ CopyInv(d)
        /\ Len(dispatch[d].copy) \in Nat /\ Len(dispatch[d].called) \in Nat
    BY DEF IInv, Types
  <2>2. \A i \in 1 .. Len(dispatch[d].called) :
            i \in 1 .. Len(dispatch[d].copy) /\ dispatch[d].called[i] = dispatch[d].copy[i]
    BY <2>1 DEF CalledInv
  <2>3. \A i, j \in 1 .. Len(dispatch[d].called) : i < j =>
            /\ dispatch[d].called[i] # dispatch[d].called[j]
            /\ StillKept(d, dispatch[d].called[i]) /\ StillKept(d, dispatch[d].called[j])
               => since[dispatch[d].called[i]] < since[dispatch[d].called[j]]
    BY <2>1, <2>2 DEF CopyInv
  <2>4. dispatch[d].result = "nil" =>
            \A h \in EventHandlers : StillKept(d, h) =>
                \E i \in 1 .. Len(dispatch[d].called) : dispatch[d].called[i] = h
    BY <2>1, <2>2 DEF CalledInv, CopyInv
  <2> QED
    BY <2>2, <2>3, <2>4
<1> QED
  BY <1>1 DEF DispatchInOrder, StillKept

(* A dispatch calls the handlers it found, in the order of their           *)
(* registration, and all that stay registered when it succeeds, whatever   *)
(* is registered and removed meanwhile (event_dispatcher.go:43-134).       *)
THEOREM DispatchCorrect == DispatcherSpec => []DispatchInOrder
<1>1. IInv => DispatchInOrder
  BY DispatchIsInOrder
<1> QED
  BY <1>1, DispatcherInvariant, PTL
=============================================================================
