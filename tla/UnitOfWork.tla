----------------------------- MODULE UnitOfWork -----------------------------
(***************************************************************************)
(* pkg/database/uow: unitOfWork.Do over the manager of DBManager.  The     *)
(* manager's transactions are the Do calls: call t opens transaction t,    *)
(* runs the user's function, and commits or rolls back.                    *)
(*                                                                         *)
(* A goroutine may call Do from inside the function of another Do, on the  *)
(* same UnitOfWork or another one, with the context it was given or with a *)
(* fresh one; a context that carries a transaction may also be handed to   *)
(* another goroutine.  The function returns a value, returns an error,     *)
(* panics, or ends its goroutine with runtime.Goexit.                      *)
(***************************************************************************)
EXTENDS DBManager, SequencesExt

CONSTANTS
    Goroutines, \* goroutines that call Do
    Units       \* UnitOfWork instances, each with its reentrancyGuard

VARIABLES
    do,      \* for each call: where it is; its verdict once it returned
    who,     \* for each call: the instance and goroutine, <<u, g>>
    why,     \* for each call: the reason for the rollback under way
    stack,   \* for each goroutine: its calls of Do that have not returned
    active,  \* reentrancyGuard.active of every instance, as pairs <<u, g>>
    durable  \* for each call: what the database did with its transaction

doVars == <<do, who, why, stack, active>>
uowVars == <<do, who, why, stack, active, durable>>
allVars == <<vars, uowVars>>

Errors == {"fnErr", "panic", "commitErr"}
DoVerdicts == Errors \cup {"ok", "nested", "beginErr", "goexit"}
Inside == {"begin", "fn", "commit", "abort", "rollback"}

(* The goroutine is running user code: outside any Do, or in the function  *)
(* of its innermost one.                                                   *)
InUserCode(g) == stack[g] # <<>> => do[Last(stack[g])] = "fn"

Innermost(t) ==
    \E g \in Goroutines : stack[g] # <<>> /\ Last(stack[g]) = t

UowTypeOK ==
    /\ do \in [Txs -> {"idle"} \cup Inside \cup DoVerdicts]
    /\ who \in [Txs -> (Units \X Goroutines) \cup {<<>>}]
    /\ why \in [Txs -> Errors]
    /\ stack \in [Goroutines -> Seq(Txs)]
    /\ active \subseteq Units \X Goroutines
    /\ durable \in [Txs -> {"none", "open", "committed", "aborted"}]

UowInit ==
    /\ Init
    /\ do = [t \in Txs |-> "idle"]
    /\ who = [t \in Txs |-> <<>>]
    /\ why = [t \in Txs |-> "fnErr"]
    /\ stack = [g \in Goroutines |-> <<>>]
    /\ active = {}
    /\ durable = [t \in Txs |-> "none"]
-----------------------------------------------------------------------------
(* Do returns verdict v: the deferred Leave removes the goroutine from the *)
(* guard of the call's instance.                                           *)
Return(t, v) ==
    LET g == who[t][2] IN
    /\ do' = [do EXCEPT ![t] = v]
    /\ stack' = [stack EXCEPT ![g] = Front(@)]
    /\ active' = active \ {who[t]}
    /\ UNCHANGED <<who, why>>

(* Mistake: a rejected nested call clears the entry of the outer one.      *)
EnterClears(t, u, g, carriesTx) ==
    /\ do[t] = "idle"
    /\ InUserCode(g)
    /\ carriesTx => \E r \in Txs : durable[r] # "none"
    /\ who' = [who EXCEPT ![t] = <<u, g>>]
    /\ IF <<u, g>> \in active \/ carriesTx
       THEN /\ do' = [do EXCEPT ![t] = "nested"]
            /\ active' = active \ {<<u, g>>}
            /\ UNCHANGED stack
       ELSE /\ do' = [do EXCEPT ![t] = "begin"]
            /\ stack' = [stack EXCEPT ![g] = Append(@, t)]
            /\ active' = active \cup {<<u, g>>}
    /\ UNCHANGED <<why, durable, vars>>

(* Do is called.  A goroutine already inside a Do of this instance is      *)
(* turned away without touching the guard; a context that carries a        *)
(* transaction, running or long ended, is turned away by a call that       *)
(* entered and leaves the guard again.                                     *)
Enter(t, u, g, carriesTx) ==
    /\ do[t] = "idle"
    /\ InUserCode(g)
    /\ carriesTx => \E r \in Txs : durable[r] # "none"
    /\ who' = [who EXCEPT ![t] = <<u, g>>]
    /\ IF <<u, g>> \in active \/ carriesTx
       THEN /\ do' = [do EXCEPT ![t] = "nested"]
            /\ UNCHANGED <<stack, active>>
       ELSE /\ do' = [do EXCEPT ![t] = "begin"]
            /\ stack' = [stack EXCEPT ![g] = Append(@, t)]
            /\ active' = active \cup {<<u, g>>}
    /\ UNCHANGED <<why, durable, vars>>

DoBegin(t) ==
    /\ do[t] = "begin"
    /\ BeginTx(t)
    /\ IF closed THEN Return(t, "beginErr") ELSE UNCHANGED doVars
    /\ UNCHANGED durable

DoBegun(t) ==
    /\ do[t] = "begin"
    /\ BeginTxOk(t)
    /\ do' = [do EXCEPT ![t] = "fn"]
    /\ durable' = [durable EXCEPT ![t] = "open"]
    /\ UNCHANGED <<who, why, stack, active>>

DoBeginFailed(t) ==
    /\ do[t] = "begin"
    /\ BeginTxErr(t)
    /\ Return(t, "beginErr")
    /\ UNCHANGED durable

(* The function returned a value: tx.Commit.                               *)
FnOk(t) ==
    /\ do[t] = "fn" /\ Innermost(t)
    /\ CommitCall(t)
    /\ do' = [do EXCEPT ![t] = "commit"]
    /\ UNCHANGED <<who, why, stack, active, durable>>

(* The function failed or panicked: rollbackWithFreshContext.              *)
FnFailed(t) ==
    /\ do[t] = "fn" /\ Innermost(t)
    /\ RollbackCall(t)
    /\ do' = [do EXCEPT ![t] = "rollback"]
    /\ why' \in {[why EXCEPT ![t] = e] : e \in {"fnErr", "panic"}}
    /\ UNCHANGED <<who, stack, active, durable>>

(* The function called runtime.Goexit: recover returns nil in every Do of  *)
(* the goroutine, so each of them leaves its guard and none rolls back.    *)
FnGoexit(t) ==
    LET g == who[t][2]
        dying == ToSet(stack[g])
    IN
    /\ do[t] = "fn" /\ Innermost(t)
    /\ do' = [r \in Txs |-> IF r \in dying THEN "goexit" ELSE do[r]]
    /\ active' = active \ {who[r] : r \in dying}
    /\ stack' = [stack EXCEPT ![g] = <<>>]
    /\ UNCHANGED <<who, why, durable, vars>>

DoCommitted(t) ==
    /\ do[t] = "commit"
    /\ CommitReturn(t)
    /\ durable' = [durable EXCEPT ![t] = "committed"]
    /\ Return(t, "ok")

(* Mistakes: after a failed commit Do returns without the rollback, or     *)
(* rolls back and returns no error.                                        *)
DoCommitFailedLeaves(t) ==
    /\ do[t] = "commit"
    /\ CommitReturn(t)
    /\ durable' \in {[durable EXCEPT ![t] = d] : d \in {"committed", "open"}}
    /\ Return(t, "commitErr")

DoCommitFailedSilent(t) ==
    /\ do[t] = "commit"
    /\ CommitReturn(t)
    /\ durable' \in {[durable EXCEPT ![t] = d] : d \in {"committed", "open"}}
    /\ do' = [do EXCEPT ![t] = "abort"]
    /\ why' = [why EXCEPT ![t] = "ok"]
    /\ UNCHANGED <<who, stack, active>>

(* A commit that fails may have reached the database all the same.         *)
DoCommitFailed(t) ==
    /\ do[t] = "commit"
    /\ CommitReturn(t)
    /\ durable' \in {[durable EXCEPT ![t] = d] : d \in {"committed", "open"}}
    /\ do' = [do EXCEPT ![t] = "abort"]
    /\ why' = [why EXCEPT ![t] = "commitErr"]
    /\ UNCHANGED <<who, stack, active>>

DoAbort(t) ==
    /\ do[t] = "abort"
    /\ RollbackCall(t)
    /\ do' = [do EXCEPT ![t] = "rollback"]
    /\ UNCHANGED <<who, why, stack, active, durable>>

(* The rollback answers; its error is logged and nothing else.  Do returns *)
(* the original error, or goes on panicking in its caller's function.  A   *)
(* rollback that fails on the wire leaves an abandoned transaction, which  *)
(* the database aborts too.                                                *)
DoRolledBack(t) ==
    /\ do[t] = "rollback"
    /\ RollbackReturn(t)
    /\ durable' = [durable EXCEPT ![t] = IF @ = "open" THEN "aborted" ELSE @]
    /\ Return(t, why[t])
-----------------------------------------------------------------------------
DoNext(t) ==
    \/ \E u \in Units, g \in Goroutines, c \in BOOLEAN : Enter(t, u, g, c)
    \/ DoBegin(t)
    \/ DoBegun(t)
    \/ DoBeginFailed(t)
    \/ FnOk(t)
    \/ FnFailed(t)
    \/ FnGoexit(t)
    \/ DoCommitted(t)
    \/ DoCommitFailed(t)
    \/ DoAbort(t)
    \/ DoRolledBack(t)

UowNext ==
    \/ \E t \in Txs : DoNext(t)
    \/ ManagerNext /\ UNCHANGED uowVars

UowSpec == UowInit /\ [][UowNext]_allVars
-----------------------------------------------------------------------------
(* What Do tells its caller is what the database did: a value means the    *)
(* transaction committed, an error or a panic of the function means it did *)
(* not, and no Do that returns leaves a transaction open or counted by the *)
(* manager, however the function left (uow.go:100-149).  Goexit is the      *)
(* exception the code has: nothing rolls back then.                        *)
OutcomeIsTrue ==
    \A t \in Txs :
        /\ do[t] = "ok" => durable[t] = "committed"
        /\ do[t] \in {"fnErr", "panic"} => durable[t] = "aborted"
        /\ do[t] \in {"nested", "beginErr"} => durable[t] = "none"
        /\ do[t] \in DoVerdicts \ {"goexit"} => ~Live(t) /\ durable[t] # "open"

(* A goroutine is registered in the guard of an instance exactly while it  *)
(* is inside one Do of that instance, and never inside two: a rejected     *)
(* nested call does not open the door for the next one (uow.go:59-66,       *)
(* 180-203).                                                               *)
GuardIsExact ==
    \A u \in Units, g \in Goroutines :
        LET inside == {t \in Txs : do[t] \in Inside /\ who[t] = <<u, g>>}
        IN  /\ Cardinality(inside) <= 1
            /\ (<<u, g>> \in active) <=> (inside # {})

(* A Shutdown that closes the pool cuts no Do short: by then no function   *)
(* is running and no outcome is open but one, the rollback after a commit  *)
(* that already failed, which the manager has counted as ended             *)
(* (manager.go:202-206, 237-257; uow.go:133-137).                          *)
CloseSparesDo ==
    closer # "none" =>
        \A t \in Txs :
            /\ do[t] \notin {"fn", "commit"}
            /\ do[t] = "begin" => tx[t] = "idle"
            /\ do[t] = "rollback" => why[t] = "commitErr"
=============================================================================
