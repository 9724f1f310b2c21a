----------------------------- MODULE HttpServer -----------------------------
(***************************************************************************)
(* pkg/http_server, both adapters, and the shutdown of the observability   *)
(* provider they own (pkg/observability/otel/shutdown.go).                 *)
(*                                                                         *)
(* A request of the chi server is served by three goroutines: the one of   *)
(* net/http, which runs the middlewares and waits at the global timeout    *)
(* (layer 1); the one that timeout starts, which waits at the timeout of   *)
(* the route if there is one (layer 2); and the one of the handler.  Each  *)
(* layer has its own writer, which passes writes on to the layer outside.  *)
(* The fiber server runs everything in one goroutine and sends a response  *)
(* when the handler chain has returned.                                    *)
(***************************************************************************)
EXTENDS Naturals, FiniteSets, FiniteSetsExt

CONSTANTS
    Requests,    \* the requests
    Starter,     \* the goroutine in Start, which calls Shutdown at its end
    Stopper,     \* a goroutine that calls Shutdown on its own
    Main,        \* a goroutine that shuts the provider down directly
    ProviderSteps, \* how many steps the provider registers
    ServerKinds  \* the servers: an adapter, whether the route has a timeout,
                 \* and whether the wait after a timeout is enabled

Callers == {Starter, Stopper}
NoCaller == "free"

ASSUME HttpAssumption ==
    /\ Cardinality({Starter, Stopper, Main}) = 3
    /\ {NoCaller, "done"} \cap {Starter, Stopper, Main} = {}
    /\ ProviderSteps \in Nat /\ IsFiniteSet(Requests)
    /\ ServerKinds \subseteq
           [adapter : {"chi", "fiber"}, route : BOOLEAN, cleanup : BOOLEAN]

VARIABLES
    kind,      \* the server that is run
    server,    \* "off", "serving", or "closed" for new requests
    rq,        \* for each request: its goroutines, writers and response
    leaks,     \* http_handler_timeout_leak_total
    once,      \* shutdownOnce: free, run by a caller, or "done"
    stop,      \* for each caller of Shutdown: where it is
    verdict,   \* what its call returned
    provider,  \* the coordinator: who runs it, the steps done, its error
    flush      \* for each caller of the provider's Shutdown: where it is

httpVars == <<kind, server, rq, leaks, once, stop, verdict, provider, flush>>

Layers == IF kind.route THEN {1, 2} ELSE {1}
Inner == Max(Layers)

NewRequest ==
    [at |-> [l \in 1 .. 2 |-> "none"],      \* the goroutine that waits at a layer
     handler |-> "none",
     writer |-> [l \in 1 .. 2 |-> "clean"],  \* clean, written or timedOut
     sent |-> [l \in 1 .. 2 |-> "none"],    \* what the goroutine it started sent
     expired |-> [l \in 1 .. 2 |-> FALSE],  \* is its context done?
     status |-> 0, by |-> {},               \* the response, and who wrote to it
     seen |-> 0, failure |-> FALSE,         \* what the telemetry was told
     stray |-> FALSE]                       \* a write after the response was over

Codes == {200, 204, 403, 404, 408, 413, 500}

HttpTypeOK ==
    /\ kind \in ServerKinds
    /\ server \in {"off", "serving", "closed"}
    /\ \A r \in Requests :
           /\ rq[r].at \in [1 .. 2 -> {"none", "wait", "answer", "cleanup", "over"}]
           /\ rq[r].handler \in {"none", "run", "over"}
           /\ rq[r].status \in Codes \cup {0} /\ rq[r].seen \in Codes \cup {0}
           /\ rq[r].by \subseteq {"handler", "problem", "timeout"}
           /\ rq[r].failure \in BOOLEAN
    /\ leaks \in 0 .. Cardinality(Requests)
    /\ once \in Callers \cup {NoCaller, "done"}
    /\ stop \in [Callers -> {"none", "idle", "entered", "drain", "provider", "over"}]
    /\ verdict \in [Callers -> {"none", "ok", "error"}]
    /\ provider.done \in 0 .. 2 * ProviderSteps
    /\ flush \in [Callers \cup {Main} -> {"none", "run", "wait", "ok", "error"}]

HttpStart(k) ==
    /\ kind = k
    /\ server = "off"
    /\ rq = [r \in Requests |-> NewRequest]
    /\ leaks = 0
    /\ once = NoCaller
    /\ stop = [c \in Callers |-> IF c = Starter THEN "none" ELSE "idle"]
    /\ verdict = [c \in Callers |-> "none"]
    /\ provider = [by |-> NoCaller, done |-> 0, failed |-> FALSE, over |-> FALSE]
    /\ flush = [c \in Callers \cup {Main} |-> "none"]

HttpInit == \E k \in ServerKinds : HttpStart(k)
-----------------------------------------------------------------------------
(* Responses.  The first write settles the status.                         *)
Wire(q, who, code) ==
    [q EXCEPT !.status = IF @ = 0 THEN code ELSE @,
              !.by = @ \cup {who},
              !.stray = @ \/ q.at[1] = "over"]

(* timeoutWriter: a write to a layer that has timed out is dropped.        *)
Outer(q, who, code) ==
    IF q.writer[1] = "timedOut" THEN q
    ELSE Wire([q EXCEPT !.writer[1] = "written"], who, code)

Write(q, l, who, code) ==
    CASE l = 0 -> Wire(q, who, code)
      [] l = 1 -> Outer(q, who, code)
      [] OTHER -> IF q.writer[2] = "timedOut" THEN q
                  ELSE Outer([q EXCEPT !.writer[2] = "written"], who, code)

(* The request is over: its contexts end, and net/http answers 200 if      *)
(* nothing was written.                                                    *)
Over(q) ==
    [q EXCEPT !.at[1] = "over",
              !.expired = [l \in 1 .. 2 |-> TRUE],
              !.status = IF @ = 0 THEN 200 ELSE @]

(* Finish: the request counts as failed when OnError was called or the     *)
(* status is one of the server's.                                          *)
Finish(q, code, onError) ==
    [q EXCEPT !.seen = code, !.failure = onError \/ code >= 500]

(* finishObservedRequest, deferred by observabilityMiddleware.             *)
ServeHTTPReturns(q) == LET o == Over(q) IN Finish(o, o.status, FALSE)

(* Layer l returns to the goroutine that called it, as runHandler says.    *)
LayerReturns(q, l) ==
    IF l = 1 THEN ServeHTTPReturns(q)
    ELSE [q EXCEPT !.at[2] = "over", !.sent[1] = "done"]

(* It panics: recoverMiddleware answers unless something was written.      *)
LayerPanics(q, l) ==
    IF l = 1 THEN Finish(Over(IF q.status = 0 THEN Wire(q, "problem", 500) ELSE q),
                         500, TRUE)
    ELSE [q EXCEPT !.at[2] = "over", !.sent[1] = "panic"]

(* What ProblemFromError makes of a handler's error.                       *)
Problem(err) ==
    CASE err \in {"fiber", "wrapped"} -> 404
      [] err = "deadline" /\ kind.adapter = "fiber" -> 408
      [] OTHER -> 500

(* What fiberStatusCode tells the telemetry: it does not look into a       *)
(* wrapped error.                                                          *)
FiberStatusCode(err) == IF err = "wrapped" THEN 500 ELSE Problem(err)

(* The middlewares before the handler may answer themselves; fiber refuses *)
(* a body that is too large before any of them.                            *)
Screen ==
    [passed |-> 0, tooLarge |-> 413, badOrigin |-> 403, preflight |-> 204]

Refused(q, what) ==
    LET code == Screen[what]
        o == Over(Wire(q, "problem", code)) IN
    CASE kind.adapter = "chi" -> Finish(o, code, FALSE)
      [] kind.adapter = "fiber" /\ what = "tooLarge" -> o
      [] OTHER -> Finish(o, code, what = "badOrigin")

onlyRq == <<kind, server, leaks, once, stop, verdict, provider, flush>>

Arrive(r, what) ==
    /\ server = "serving"
    /\ rq[r].at[1] = "none"
    /\ rq' = [rq EXCEPT ![r] =
          IF what # "passed" THEN Refused(@, what)
          ELSE [@ EXCEPT !.at = [l \in 1 .. 2 |-> IF l \in Layers THEN "wait" ELSE "none"],
                         !.handler = "run"]]
    /\ UNCHANGED onlyRq

(* The deadline of layer l; the client's leaving is one of layer 1.  Only  *)
(* the handler itself looks at fiber's.                                    *)
Expire(r, l) ==
    /\ kind.adapter = "chi"
    /\ l \in Layers /\ rq[r].at[1] \notin {"none", "over"}
    /\ ~rq[r].expired[l]
    /\ rq' = [rq EXCEPT ![r] =
                 [@ EXCEPT !.expired = [m \in 1 .. 2 |-> rq[r].expired[m] \/ m >= l]]]
    /\ UNCHANGED onlyRq

(* The handler's goroutine ends, and sends how.                            *)
HandlerEnds(q, how) == [q EXCEPT !.handler = "over", !.sent[Inner] = how]

HandlerWrites(r) ==
    /\ kind.adapter = "chi"
    /\ rq[r].handler = "run"
    /\ rq' = [rq EXCEPT ![r] = Write(@, Inner, "handler", 200)]
    /\ rq' # rq
    /\ UNCHANGED onlyRq

HandlerReturns(r) ==
    /\ kind.adapter = "chi"
    /\ rq[r].handler = "run"
    /\ rq' = [rq EXCEPT ![r] = HandlerEnds(@, "done")]
    /\ UNCHANGED onlyRq

(* An error: adaptHandler calls defaultErrorHandler, which writes.         *)
HandlerFails(r, err) ==
    /\ kind.adapter = "chi"
    /\ rq[r].handler = "run"
    /\ rq' = [rq EXCEPT ![r] = HandlerEnds(Write(@, Inner, "problem", Problem(err)), "done")]
    /\ UNCHANGED onlyRq

HandlerPanics(r) ==
    /\ kind.adapter = "chi"
    /\ rq[r].handler = "run"
    /\ rq' = [rq EXCEPT ![r] = HandlerEnds(@, "panic")]
    /\ UNCHANGED onlyRq

(* The goroutine that waits at layer l takes one of its three channels.    *)
LayerReceives(r, l) ==
    /\ kind.adapter = "chi"
    /\ rq[r].at[l] = "wait" /\ rq[r].sent[l] # "none"
    /\ rq' = [rq EXCEPT ![r] = IF @.sent[l] = "done" THEN LayerReturns(@, l)
                               ELSE LayerPanics(@, l)]
    /\ UNCHANGED onlyRq

AfterTimeout(q, l) ==
    IF l = 2 /\ kind.cleanup THEN [q EXCEPT !.at[2] = "cleanup"] ELSE LayerReturns(q, l)

(* Mistake: the flag is not looked at before the timeout is answered.      *)
LayerTimesOutBlindly(r, l) ==
    /\ kind.adapter = "chi"
    /\ rq[r].at[l] = "wait" /\ rq[r].expired[l]
    /\ rq' = [rq EXCEPT ![r] =
                 [@ EXCEPT !.writer[l] = "timedOut", !.at[l] = "answer"]]
    /\ UNCHANGED onlyRq

LayerTimesOut(r, l) ==
    /\ kind.adapter = "chi"
    /\ rq[r].at[l] = "wait" /\ rq[r].expired[l]
    /\ rq' = [rq EXCEPT ![r] =
                 IF @.writer[l] = "clean"
                 THEN [@ EXCEPT !.writer[l] = "timedOut", !.at[l] = "answer"]
                 ELSE AfterTimeout(@, l)]
    /\ UNCHANGED onlyRq

(* writeStatusError to the writer of the layer outside.                    *)
LayerAnswers(r, l) ==
    /\ rq[r].at[l] = "answer"
    /\ rq' = [rq EXCEPT ![r] = AfterTimeout(Write(@, l - 1, "timeout", 408), l)]
    /\ UNCHANGED onlyRq

(* The wait after a timeout of the route: the handler has ended, or the    *)
(* window is over and the leak is counted.                                 *)
CleanupReceives(r) ==
    /\ rq[r].at[2] = "cleanup" /\ rq[r].sent[2] # "none"
    /\ rq' = [rq EXCEPT ![r] = IF @.sent[2] = "done" THEN LayerReturns(@, 2)
                               ELSE LayerPanics(@, 2)]
    /\ UNCHANGED onlyRq

CleanupExpires(r) ==
    /\ rq[r].at[2] = "cleanup"
    /\ rq' = [rq EXCEPT ![r] = LayerReturns(@, 2)]
    /\ leaks' = leaks + 1
    /\ UNCHANGED <<kind, server, once, stop, verdict, provider, flush>>

(* Fiber: the chain returns, panics, or returns the error of a context,    *)
(* which the timeout middleware maps; the response is sent as a whole.     *)
ChainEnds(r, how) ==
    /\ kind.adapter = "fiber"
    /\ rq[r].handler = "run"
    /\ rq' = [rq EXCEPT ![r] =
          LET q == [@ EXCEPT !.handler = "over"] IN
          CASE how = "ok"    -> Finish(Over(Wire(q, "handler", 200)), 200, FALSE)
            [] how = "panic" -> Finish(Over(Wire(q, "problem", 500)), 500, TRUE)
            [] OTHER         -> Finish(Over(Wire(q, "problem", Problem(how))),
                                       FiberStatusCode(how), TRUE)]
    /\ UNCHANGED onlyRq
-----------------------------------------------------------------------------
(* Start: listens, and waits for an error, the context or a signal.        *)
Start ==
    /\ server = "off" /\ stop[Starter] = "none"
    /\ server' = "serving"
    /\ stop' = [stop EXCEPT ![Starter] = "idle"]
    /\ UNCHANGED <<kind, rq, leaks, once, verdict, provider, flush>>

(* Listening fails: Start returns without a shutdown.                      *)
ListenFails ==
    /\ server = "serving" /\ stop[Starter] = "idle"
    /\ \A r \in Requests : rq[r].at[1] = "none"
    /\ server' = "closed"
    /\ stop' = [stop EXCEPT ![Starter] = "over"]
    /\ verdict' = [verdict EXCEPT ![Starter] = "error"]
    /\ UNCHANGED <<kind, rq, leaks, once, provider, flush>>

(* Shutdown: by Start, when its context ends or a signal comes, or by      *)
(* another goroutine.  The Once lets one in, which closes the listener.    *)
Shutdown(c) ==
    /\ stop[c] = "idle" /\ server # "off"
    /\ stop' = [stop EXCEPT ![c] = "entered"]
    /\ UNCHANGED <<kind, server, rq, leaks, once, verdict, provider, flush>>

Enter(c) ==
    /\ stop[c] = "entered" /\ once = NoCaller
    /\ once' = c
    /\ server' = "closed"
    /\ stop' = [stop EXCEPT ![c] = "drain"]
    /\ UNCHANGED <<kind, rq, leaks, verdict, provider, flush>>

(* The others wait for the Once and return nil.                            *)
Skip(c) ==
    /\ stop[c] = "entered" /\ once = "done"
    /\ stop' = [stop EXCEPT ![c] = "over"]
    /\ verdict' = [verdict EXCEPT ![c] = "ok"]
    /\ UNCHANGED <<kind, server, rq, leaks, once, provider, flush>>

InFlight == {r \in Requests : rq[r].at[1] \notin {"none", "over"}}

(* Mistake: the error of the drain is not kept.                            *)
DrainForgives(c) ==
    /\ stop[c] = "drain"
    /\ verdict' = [verdict EXCEPT ![c] = "ok"]
    /\ stop' = [stop EXCEPT ![c] = "provider"]
    /\ UNCHANGED <<kind, server, rq, leaks, once, provider, flush>>

(* The library's Shutdown: nil when no request is being served, the        *)
(* context's error otherwise.  The provider's comes next in any case.      *)
Drain(c) ==
    /\ stop[c] = "drain"
    /\ verdict' = [verdict EXCEPT ![c] = IF InFlight = {} THEN "ok" ELSE "error"]
    /\ stop' = [stop EXCEPT ![c] = "provider"]
    /\ UNCHANGED <<kind, server, rq, leaks, once, provider, flush>>

(* It has shut the provider down, and joins the errors.                    *)
ShutdownReturns(c) ==
    /\ stop[c] = "provider" /\ flush[c] \in {"ok", "error"}
    /\ once' = "done"
    /\ stop' = [stop EXCEPT ![c] = "over"]
    /\ verdict' = [verdict EXCEPT ![c] = IF flush[c] = "error" THEN "error" ELSE @]
    /\ UNCHANGED <<kind, server, rq, leaks, provider, flush>>
-----------------------------------------------------------------------------
onlyFlush == <<kind, server, rq, leaks, once, stop, verdict>>

(* Mistake: who comes second does not wait.                                *)
BeginShutdownHastily(c) ==
    /\ flush[c] = "none"
    /\ c # Main => stop[c] = "provider"
    /\ IF provider.by = NoCaller
       THEN /\ provider' = [provider EXCEPT !.by = c]
            /\ flush' = [flush EXCEPT ![c] = "run"]
       ELSE /\ flush' = [flush EXCEPT ![c] = IF provider.failed THEN "error" ELSE "ok"]
            /\ UNCHANGED provider
    /\ UNCHANGED onlyFlush

(* The coordinator: the first caller runs the steps, the others wait.      *)
BeginShutdown(c) ==
    /\ flush[c] = "none"
    /\ c # Main => stop[c] = "provider"
    /\ IF provider.by = NoCaller
       THEN /\ provider' = [provider EXCEPT !.by = c]
            /\ flush' = [flush EXCEPT ![c] = "run"]
       ELSE /\ flush' = [flush EXCEPT ![c] = "wait"]
            /\ UNCHANGED provider
    /\ UNCHANGED onlyFlush

(* execute: every step is flushed, then every step is shut down, whatever  *)
(* fails; a step that has no such function fails neither.                  *)
Execute(c, fails) ==
    /\ flush[c] = "run" /\ provider.done < 2 * ProviderSteps
    /\ provider' = [provider EXCEPT !.done = @ + 1, !.failed = @ \/ fails]
    /\ UNCHANGED <<onlyFlush, flush>>

FinishShutdown(c) ==
    /\ flush[c] = "run" /\ provider.done = 2 * ProviderSteps
    /\ provider' = [provider EXCEPT !.over = TRUE]
    /\ flush' = [flush EXCEPT ![c] = IF provider.failed THEN "error" ELSE "ok"]
    /\ UNCHANGED onlyFlush

AlreadyStopped(c) ==
    /\ flush[c] = "wait" /\ provider.over
    /\ flush' = [flush EXCEPT ![c] = IF provider.failed THEN "error" ELSE "ok"]
    /\ UNCHANGED <<onlyFlush, provider>>
-----------------------------------------------------------------------------
HttpNext ==
    \/ Start \/ ListenFails
    \/ \E r \in Requests :
           \/ \E what \in DOMAIN Screen : Arrive(r, what)
           \/ \E l \in 1 .. 2 :
                  Expire(r, l) \/ LayerReceives(r, l) \/ LayerTimesOut(r, l)
                  \/ LayerAnswers(r, l)
           \/ HandlerWrites(r) \/ HandlerReturns(r) \/ HandlerPanics(r)
           \/ \E err \in {"plain", "fiber"} : HandlerFails(r, err)
           \/ CleanupReceives(r) \/ CleanupExpires(r)
           \/ \E how \in {"ok", "panic", "plain", "fiber", "wrapped", "deadline"} :
                  ChainEnds(r, how)
    \/ \E c \in Callers :
           Shutdown(c) \/ Enter(c) \/ Skip(c) \/ Drain(c) \/ ShutdownReturns(c)
    \/ \E c \in Callers \cup {Main} :
           \/ BeginShutdown(c) \/ FinishShutdown(c) \/ AlreadyStopped(c)
           \/ \E fails \in BOOLEAN : Execute(c, fails)

(* What the program does by itself, whatever clients and handlers do:      *)
(* timers fire, channels that are ready are received from, calls return.   *)
HttpProgress ==
    \/ \E r \in Requests, l \in 1 .. 2 :
           Expire(r, l) \/ LayerReceives(r, l) \/ LayerTimesOut(r, l) \/ LayerAnswers(r, l)
    \/ \E r \in Requests : CleanupReceives(r) \/ CleanupExpires(r)
    \/ \E c \in Callers : Enter(c) \/ Skip(c) \/ Drain(c) \/ ShutdownReturns(c)
    \/ \E c \in Callers \cup {Main} :
           \/ c # Main /\ BeginShutdown(c)
           \/ FinishShutdown(c) \/ AlreadyStopped(c)
           \/ \E fails \in BOOLEAN : Execute(c, fails)

HttpSpec == HttpInit /\ [][HttpNext]_httpVars /\ WF_httpVars(HttpProgress)
-----------------------------------------------------------------------------
(* The wire carries one response: what the timeout answers is not mixed    *)
(* with anything of the handler, of whichever layer, and no byte follows   *)
(* the end of the request unless the handler had begun to answer before    *)
(* its deadline (chi middleware.go:262-301, 494-544).                      *)
OneResponse ==
    \A r \in Requests :
        /\ "timeout" \in rq[r].by => rq[r].by = {"timeout"} /\ rq[r].status = 408
        /\ rq[r].stray => \E l \in 1 .. 2 : rq[r].writer[l] = "written"

(* The telemetry of a request that is over has the status that was sent;   *)
(* except when chi's handler panicked after an answer had begun, its own   *)
(* or the timeout's, and when fiber's wrapped its error: told as 500.      *)
(* What the client saw fail on the server's side is counted as failed, and *)
(* no leak is counted where the wait is disabled (chi                      *)
(* middleware.go:188-202, 527, fiber middleware.go:196-234,                *)
(* otel/http.go:172-204).                                                  *)
TelemetryIsTrue ==
    /\ \A r \in Requests : rq[r].at[1] = "over" /\ rq[r].seen # 0 =>
           /\ \/ rq[r].seen = rq[r].status
              \/ /\ rq[r].seen = 500
                 /\ IF kind.adapter = "chi" THEN rq[r].sent[1] = "panic"
                    ELSE rq[r].status = 404
           /\ rq[r].status >= 500 => rq[r].failure
    /\ ~kind.cleanup => leaks = 0

(* Of the calls of the server's Shutdown, the one that does the work       *)
(* reports success only if every request has ended and the provider's      *)
(* steps have all succeeded.  A later one returns nil when the first is    *)
(* done, whatever that one was told: the sync.Once keeps no verdict.  Who  *)
(* calls the provider's own Shutdown, first or not, returns after its      *)
(* steps and with their error                                              *)
(* (lifecycle.go:57-85, otel/shutdown.go:45-108).                          *)
StopIsTrue ==
    /\ \A c \in Callers : stop[c] = "over" /\ verdict[c] = "ok" => once = "done"
    /\ \A c \in Callers : stop[c] = "over" /\ verdict[c] = "ok" /\ flush[c] # "none" =>
           InFlight = {} /\ provider.done = 2 * ProviderSteps /\ ~provider.failed
    /\ \A c \in Callers \cup {Main} : flush[c] \in {"ok", "error"} =>
           /\ provider.done = 2 * ProviderSteps
           /\ (flush[c] = "error") = provider.failed

(* A request of the chi server that is not over, whatever its handler      *)
(* does, or a call of Shutdown that has not returned.                      *)
HttpWaits ==
    \/ kind.adapter = "chi" /\ \E r \in Requests : rq[r].at[1] \notin {"none", "over"}
    \/ \E c \in Callers : stop[c] \notin {"none", "idle", "over"}
=============================================================================
