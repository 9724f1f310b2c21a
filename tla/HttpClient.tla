----------------------------- MODULE HttpClient -----------------------------
(***************************************************************************)
(* pkg/httpclient: a call through BaseClient or observable.Client, with or *)
(* without the retry transport, or through MakeRequest.  One RoundTrip of  *)
(* the http.Client is modelled: a redirect would be another.               *)
(***************************************************************************)
EXTENDS Naturals, Sequences, FiniteSets

CONSTANTS Calls,         \* the calls that are made: client, options, request
          MaxRetryAttempts \* 10 in the code

Policies == {"default", "idempotent", "none", "nil"}

(* What the base transport returns: an answer of some status, or an error. *)
Answers == [ok |-> 200, noContent |-> 204, notFound |-> 404,
            tooMany |-> 429, broken |-> 500]
Errors == {"netErr", "ctxErr"}
Outcomes == DOMAIN Answers \cup Errors
NoResult == "none"

ASSUME HttpClientAssumption ==
    /\ MaxRetryAttempts \in Nat \ {0}
    /\ Calls \subseteq
         [client : {"base", "observable", "make"},
          attempts : Nat,                 \* WithRetry's; 0 when it is not used
          policy : Policies, badBackoff : BOOLEAN,
          body : {"none", "small", "large", "broken"}]

VARIABLES
    call,     \* the call
    trip,     \* where it is, its attempt, what came back, bodies left open
    expired,  \* the context, or the client's timeout
    told      \* what the span and the metrics of the call were told

clientVars == <<call, trip, expired, told>>

Places == {"call", "buffer", "send", "judge", "sleep", "returned", "decode", "over"}

ClientTypeOK ==
    /\ call \in Calls
    /\ trip.at \in Places
    /\ trip.attempt \in 1 .. MaxRetryAttempts
    /\ trip.log \in Seq(Outcomes)
    /\ trip.open \in Nat
    /\ trip.request \in {"open", "closed"}
    /\ trip.hooks \in Nat
    /\ expired \in BOOLEAN
    /\ told.requests \in Nat /\ told.errors \in Nat /\ told.span \in {"none", "open", "ok", "error"}

ClientStart(c) ==
    /\ call = c
    /\ trip = [at |-> "call", attempt |-> 1, log |-> << >>, result |-> NoResult,
               open |-> 0, request |-> IF c.body = "none" THEN "closed" ELSE "open",
               hooks |-> 0]
    /\ expired = FALSE
    /\ told = [requests |-> 0, errors |-> 0, span |-> "none"]

ClientInit == \E c \in Calls : ClientStart(c)
-----------------------------------------------------------------------------
Observed == call.client = "observable"

(* WithRetry of no attempts is ignored; MakeRequest never retries.         *)
RetryEnabled == call.attempts > 0 /\ call.client # "make"

ValidateRetryConfig ==
    /\ call.attempts <= MaxRetryAttempts
    /\ ~call.badBackoff
    /\ call.policy # "nil"

LastOutcome == trip.log[Len(trip.log)]

(* The retry policies.                                                     *)
IsRetryable(policy, outcome) ==
    /\ policy # "none"
    /\ IF outcome \in Errors THEN outcome = "netErr"
       ELSE \/ Answers[outcome] >= 500
            \/ policy = "idempotent" /\ Answers[outcome] = 429

(* How the span of an observable call ends, and what its counters say.     *)
Report(result) ==
    LET err == result \notin DOMAIN Answers IN
    IF ~Observed THEN told
    ELSE [requests |-> told.requests + 1,
          errors |-> told.errors + (IF err THEN 1 ELSE 0),
          span |-> IF err THEN "error"
                   ELSE IF Answers[result] >= 400 THEN "error" ELSE "ok"]

(* The transports return to the http.Client.                               *)
Return(t, result) ==
    /\ trip' = [t EXCEPT !.at = "returned", !.result = result]
    /\ told' = Report(result)
    /\ UNCHANGED <<call, expired>>
-----------------------------------------------------------------------------
CallExpires ==
    /\ ~expired /\ trip.at \notin {"returned", "decode", "over"}
    /\ expired' = TRUE
    /\ UNCHANGED <<call, trip, told>>

(* execute: an invalid retry configuration ends the call before any span.  *)
ExecuteCall ==
    /\ trip.at = "call"
    /\ IF RetryEnabled /\ ~ValidateRetryConfig
       THEN /\ trip' = [trip EXCEPT !.at = "over", !.result = "invalid"]
            /\ UNCHANGED told
       ELSE /\ trip' = [trip EXCEPT !.at = IF RetryEnabled THEN "buffer" ELSE "send"]
            /\ told' = [told EXCEPT !.span = IF Observed THEN "open" ELSE @]
    /\ UNCHANGED <<call, expired>>

(* bufferBody: reads, and closes whatever it read.                         *)
BufferBody ==
    /\ trip.at = "buffer"
    /\ LET t == [trip EXCEPT !.request = "closed"] IN
       CASE call.body = "large"  -> Return(t, "tooLarge")
         [] call.body = "broken" -> Return(t, "unread")
         [] OTHER -> /\ trip' = [t EXCEPT !.at = "send"]
                     /\ UNCHANGED <<call, expired, told>>

(* The base transport; it answers nothing once the context is done.        *)
Send(o) ==
    /\ trip.at = "send"
    /\ expired => o = "ctxErr"
    /\ ~RetryEnabled /\ call.body = "broken" => o \in Errors
    /\ trip' = [trip EXCEPT !.at = "judge",
                            !.log = Append(@, o),
                            !.open = @ + (IF o \in Errors THEN 0 ELSE 1),
                            !.request = "closed"]
    /\ UNCHANGED <<call, expired, told>>

(* The caller gets the last answer as it is.                               *)
GiveUp ==
    \/ ~RetryEnabled
    \/ ~IsRetryable(call.policy, LastOutcome)
    \/ trip.attempt >= call.attempts

ReturnAnswer ==
    /\ trip.at = "judge" /\ GiveUp
    /\ Return(trip, LastOutcome)

Drained == [trip EXCEPT !.open = IF LastOutcome \in Errors THEN @ ELSE @ - 1]

AbandonRetry ==
    /\ trip.at = "judge" /\ ~GiveUp
    /\ expired
    /\ Return(Drained, "ctxErr")

(* Mistake: the answer that is not used stays open.                        *)
PrepareRetryUndrained ==
    /\ trip.at = "judge" /\ ~GiveUp
    /\ ~expired
    /\ trip' = [trip EXCEPT !.at = "sleep", !.hooks = @ + 1]
    /\ UNCHANGED <<call, expired, told>>

(* The hook is called for a retry that the sleep may still give up.        *)
PrepareRetry ==
    /\ trip.at = "judge" /\ ~GiveUp
    /\ ~expired
    /\ trip' = [Drained EXCEPT !.at = "sleep", !.hooks = @ + 1]
    /\ UNCHANGED <<call, expired, told>>

(* sleepWithContext: the timer, or the context; both may be ready.         *)
Sleep ==
    /\ trip.at = "sleep"
    /\ trip' = [trip EXCEPT !.at = "send", !.attempt = @ + 1]
    /\ UNCHANGED <<call, expired, told>>

SleepCancelled ==
    /\ trip.at = "sleep" /\ expired
    /\ Return(trip, "ctxErr")

(* The call is over for the caller of a client; MakeRequest goes on.       *)
EndCall ==
    /\ trip.at = "returned"
    /\ trip' = [trip EXCEPT !.at = IF call.client = "make" /\ trip.result \notin Errors
                                   THEN "decode" ELSE "over"]
    /\ UNCHANGED <<call, expired, told>>

(* readLimited and the decoding, then the deferred Close.  An answer       *)
(* without a body, such as 204, cannot be decoded.                         *)
Decode(how) ==
    /\ trip.at = "decode"
    /\ trip.result = "noContent" => how # "decoded"
    /\ trip' = [trip EXCEPT !.at = "over", !.open = @ - 1,
                            !.result = IF how # "decoded" THEN how
                                       ELSE IF Answers[@] \in 200 .. 299 THEN "success" ELSE "errorBody"]
    /\ UNCHANGED <<call, expired, told>>

ClientNext ==
    \/ CallExpires \/ ExecuteCall \/ BufferBody
    \/ \E o \in Outcomes : Send(o)
    \/ ReturnAnswer \/ AbandonRetry \/ PrepareRetry \/ Sleep \/ SleepCancelled
    \/ EndCall
    \/ \E how \in {"decoded", "responseTooLarge", "unreadable", "closeFailed"} : Decode(how)

(* The base transport answers, and timers fire.                            *)
ClientSpec == ClientInit /\ [][ClientNext]_clientVars /\ WF_clientVars(ClientNext)
-----------------------------------------------------------------------------
Given == trip.at = "over" /\ trip.result \in DOMAIN Answers

(* A call that is over was sent no more often than asked for, and again    *)
(* only after an outcome its policy retries; the caller is given the       *)
(* outcome of the last attempt, or the end of its context; the only        *)
(* response body left open is the one the caller was given, and the body   *)
(* of the request is closed unless nothing was attempted                   *)
(* (transport_retry.go:52-99, request.go:28-66).                           *)
CallIsAccounted ==
    /\ Len(trip.log) <= IF RetryEnabled THEN call.attempts ELSE 1
    /\ \A i \in 1 .. Len(trip.log) - 1 : IsRetryable(call.policy, trip.log[i])
    /\ trip.at = "over" =>
           /\ trip.open = IF Given THEN 1 ELSE 0
           /\ trip.result \in Outcomes =>
                  \/ trip.result = LastOutcome
                  \/ trip.result = "ctxErr" /\ expired
           /\ trip.request = "open" => trip.result = "invalid"

(* An observable call counts as one request however often it was sent, as  *)
(* one error exactly when the caller gets one, and its span is ended, with *)
(* an error for every answer of 400 or more; the hook was told of every    *)
(* attempt but the first (observable/transport.go:20-92).                  *)
CallIsReported ==
    trip.at = "over" /\ Observed /\ trip.result # "invalid" =>
        /\ told.requests = 1
        /\ (told.errors = 1) = ~Given
        /\ told.span = IF Given /\ trip.result \in {"ok", "noContent"} THEN "ok" ELSE "error"
        /\ \/ trip.log # << >> /\ trip.hooks = Len(trip.log) - 1
           \/ trip.hooks = Len(trip.log) /\ trip.result # "ok"

(* A call that has not ended.                                              *)
CallWaits == trip.at # "over"
=============================================================================
