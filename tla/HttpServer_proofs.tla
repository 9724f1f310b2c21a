------------------------- MODULE HttpServer_proofs -------------------------
(***************************************************************************)
(* The HTTP servers, for any number of requests at once: their answers,    *)
(* their telemetry and their shutdown.                                     *)
(***************************************************************************)
EXTENDS HttpServer, FiniteSetTheorems, TLAPS

HttpPlaces == {"none", "wait", "answer", "cleanup", "over"}
HowOver == {"none", "done", "panic"}
Writers == {"handler", "problem", "timeout"}

Request ==
    [at : [1 .. 2 -> HttpPlaces], handler : {"none", "run", "over"},
     writer : [1 .. 2 -> {"clean", "written", "timedOut"}], sent : [1 .. 2 -> HowOver],
     expired : [1 .. 2 -> BOOLEAN], status : Codes \cup {0}, by : SUBSET Writers,
     seen : Codes \cup {0}, failure : BOOLEAN, stray : BOOLEAN]

(* A request that has not come yet, and what is over: its status is        *)
(* settled, and the telemetry has it.                                      *)
RestInv(k, q) ==
    /\ q.at[1] = "none" => q = NewRequest
    /\ q.at[1] # "none" /\ q.seen # 0 => q.at[1] = "over"
    /\ q.at[1] = "over" => q.status # 0
    /\ q.by = {} /\ q.status # 0 => q.at[1] = "over"
    /\ q.at[1] = "over" /\ q.seen # 0 =>
           /\ \/ q.seen = q.status
              \/ /\ q.seen = 500
                 /\ IF k.adapter = "chi" THEN q.sent[1] = "panic" ELSE q.status = 404
           /\ q.status >= 500 => q.failure

(* The fiber adapter: one goroutine, one response at its end.              *)
FiberInv(q) ==
    /\ q.handler = "run" => q.at[1] = "wait"
    /\ q.at[1] \in {"none", "wait", "over"} /\ q.at[2] \notin {"answer", "cleanup"}
    /\ "timeout" \notin q.by /\ ~q.stray
    /\ q.at[1] = "wait" => q.status = 0

(* The goroutines of a request of chi: who has yet to send.                *)
PlacesInv(k, q) ==
    /\ ~k.route => q.at[2] = "none" /\ q.writer[2] = "clean"
    /\ ~k.route /\ q.handler = "run" => q.sent[1] = "none"
    /\ q.at[2] \in {"wait", "answer", "cleanup"} => q.sent[1] = "none"
    /\ q.at[2] = "cleanup" => k.cleanup
    /\ q.at[1] # "cleanup"

(* Its writers: clean as long as nothing went through them; what has timed *)
(* out clean lets nothing through but the answer to the timeout.           *)
WritersInv(k, q) ==
    /\ q.writer[1] = "clean" /\ q.at[1] # "over" => q.by = {}
    /\ q.writer[1] = "clean" /\ q.at[1] = "over" => q.at[2] \in {"none", "over"}
    /\ q.writer[1] = "written" => q.by # {}
    /\ q.writer[1] = "timedOut" => q.at[1] \in {"answer", "over"}
    /\ q.writer[2] = "timedOut" => q.by \subseteq {"timeout"}
    /\ k.route /\ q.writer[2] = "clean" /\ q.at[2] \notin {"none", "over"} =>
           q.by \subseteq {"timeout"}
    /\ q.at[2] = "answer" => q.writer[2] = "timedOut"
    /\ q.writer[2] = "timedOut" /\ q.at[2] # "answer" /\ q.at[1] = "wait" => q.status = 408

AnswerInv(q) == q.at[1] = "answer" => q.writer[1] = "timedOut" /\ q.by = {}

TimeoutInv(q) ==
    /\ "timeout" \in q.by =>
           /\ q.by = {"timeout"} /\ q.status = 408
           /\ q.writer[1] = "timedOut" \/ q.writer[2] = "timedOut"
    /\ q.stray => q.writer[1] = "written" \/ q.writer[2] = "written"

RequestInv(k, q) ==
    /\ q \in Request
    /\ RestInv(k, q)
    /\ k.adapter = "fiber" => FiberInv(q)
    /\ k.adapter = "chi" =>
           PlacesInv(k, q) /\ WritersInv(k, q) /\ AnswerInv(q) /\ TimeoutInv(q)

RequestsInv ==
    /\ rq \in [Requests -> Request]
    /\ \A r \in Requests : RequestInv(kind, rq[r])
    /\ leaks \in Nat /\ (~kind.cleanup => leaks = 0)

CallersTypes ==
    /\ server \in {"off", "serving", "closed"}
    /\ once \in Callers \cup {NoCaller, "done"}
    /\ stop \in [Callers -> {"none", "idle", "entered", "drain", "provider", "over"}]
    /\ verdict \in [Callers -> {"none", "ok", "error"}]
    /\ flush \in [Callers \cup {Main} -> {"none", "run", "wait", "ok", "error"}]
    /\ provider \in [by : Callers \cup {Main, NoCaller}, done : 0 .. 2 * ProviderSteps,
                     failed : BOOLEAN, over : BOOLEAN]

(* The Once: who is inside, and what its place implies.                    *)
OnceInv ==
    \A c \in Callers :
        /\ stop[c] \in {"drain", "provider"} => once = c /\ server = "closed"
        /\ flush[c] # "none" => stop[c] \in {"provider", "over"}
        /\ stop[c] = "over" /\ flush[c] # "none" =>
               /\ flush[c] \in {"ok", "error"}
               /\ server = "closed" /\ (verdict[c] = "ok" => flush[c] = "ok")
        /\ stop[c] = "over" /\ verdict[c] = "ok" => once = "done"
        /\ stop[c] \in {"provider", "over"} /\ verdict[c] = "ok"
           /\ (stop[c] = "over" => flush[c] # "none") => InFlight = {}

(* The coordinator: one caller runs the steps.                             *)
ProviderInv ==
    /\ \A c \in Callers \cup {Main} :
           /\ flush[c] # "none" => provider.by # NoCaller
           /\ flush[c] = "run" => provider.by = c /\ ~provider.over
           /\ flush[c] \in {"ok", "error"} =>
                  provider.over /\ ((flush[c] = "error") = provider.failed)
    /\ provider.over => provider.done = 2 * ProviderSteps /\ provider.by # NoCaller

HttpInv == kind \in ServerKinds /\ RequestsInv /\ CallersTypes /\ OnceInv /\ ProviderInv
-----------------------------------------------------------------------------
(* The updates the operators on requests are made of.                      *)
Placed(q, l, x) == [q EXCEPT !.at[l] = x]
Sealed(q, l, x) == [q EXCEPT !.writer[l] = x]
Sending(q, l, x) == [q EXCEPT !.sent[l] = x]
Settling(q, x, code) == [q EXCEPT !.expired = x, !.status = code]
Told(q, code, x) == [q EXCEPT !.seen = code, !.failure = x]
Finished(q, l, x) == [q EXCEPT !.handler = "over", !.sent[l] = x]
Handed(q, x) == [q EXCEPT !.at[2] = "over", !.sent[1] = x]

LEMMA LayersAre ==
    ASSUME kind.route \in BOOLEAN
    PROVE  /\ kind.route => Layers = {1, 2} /\ Inner = 2
           /\ ~kind.route => Layers = {1} /\ Inner = 1
  BY DEF Layers, Inner, Max

LEMMA WireFields ==
    ASSUME NEW q \in Request, NEW who \in Writers, NEW code \in Codes,
           NEW w, w = Wire(q, who, code)
    PROVE  /\ w \in Request
           /\ w.at = q.at /\ w.handler = q.handler /\ w.writer = q.writer /\ w.sent = q.sent
           /\ w.expired = q.expired /\ w.seen = q.seen /\ w.failure = q.failure
           /\ w.status = (IF q.status = 0 THEN code ELSE q.status)
           /\ w.by = q.by \cup {who}
           /\ w.stray = (q.stray \/ q.at[1] = "over")
  BY DEF Wire, Request

(* A writer of a request, or the place at a layer, is set.                 *)
LEMMA WriterFields ==
    ASSUME NEW q \in Request, NEW l \in 1 .. 2, NEW x \in {"clean", "written", "timedOut"},
           NEW w, w = Sealed(q, l, x)
    PROVE  /\ w \in Request
           /\ w.at = q.at /\ w.handler = q.handler /\ w.sent = q.sent
           /\ w.expired = q.expired /\ w.seen = q.seen /\ w.failure = q.failure
           /\ w.status = q.status /\ w.by = q.by /\ w.stray = q.stray
           /\ w.writer[l] = x /\ \A m \in 1 .. 2 : m # l => w.writer[m] = q.writer[m]
  BY DEF Request, Sealed

LEMMA PlaceFields ==
    ASSUME NEW q \in Request, NEW l \in 1 .. 2, NEW x \in HttpPlaces,
           NEW w, w = Placed(q, l, x)
    PROVE  /\ w \in Request
           /\ w.writer = q.writer /\ w.handler = q.handler /\ w.sent = q.sent
           /\ w.expired = q.expired /\ w.seen = q.seen /\ w.failure = q.failure
           /\ w.status = q.status /\ w.by = q.by /\ w.stray = q.stray
           /\ w.at[l] = x /\ \A m \in 1 .. 2 : m # l => w.at[m] = q.at[m]
  BY DEF Request, Placed

LEMMA SendFields ==
    ASSUME NEW q \in Request, NEW l \in 1 .. 2, NEW x \in HowOver,
           NEW w, w = Sending(q, l, x)
    PROVE  /\ w \in Request
           /\ w.at = q.at /\ w.handler = q.handler /\ w.writer = q.writer
           /\ w.expired = q.expired /\ w.seen = q.seen /\ w.failure = q.failure
           /\ w.status = q.status /\ w.by = q.by /\ w.stray = q.stray
           /\ w.sent[l] = x /\ \A m \in 1 .. 2 : m # l => w.sent[m] = q.sent[m]
  BY DEF Request, Sending

LEMMA ContextFields ==
    ASSUME NEW q \in Request, NEW x \in [1 .. 2 -> BOOLEAN], NEW code \in Codes \cup {0},
           NEW w, w = Settling(q, x, code)
    PROVE  /\ w \in Request
           /\ w.at = q.at /\ w.handler = q.handler /\ w.writer = q.writer /\ w.sent = q.sent
           /\ w.expired = x /\ w.seen = q.seen /\ w.failure = q.failure
           /\ w.status = code /\ w.by = q.by /\ w.stray = q.stray
  BY DEF Request, Settling

LEMMA ToldFields ==
    ASSUME NEW q \in Request, NEW code \in Codes, NEW x \in BOOLEAN,
           NEW w, w = Told(q, code, x)
    PROVE  /\ w \in Request
           /\ w.at = q.at /\ w.handler = q.handler /\ w.writer = q.writer /\ w.sent = q.sent
           /\ w.expired = q.expired /\ w.status = q.status /\ w.by = q.by /\ w.stray = q.stray
           /\ w.seen = code /\ w.failure = x
  BY DEF Request, Told

LEMMA OverFields ==
    ASSUME NEW q \in Request, NEW w, w = Over(q)
    PROVE  /\ w \in Request
           /\ w.writer = q.writer /\ w.handler = q.handler /\ w.sent = q.sent
           /\ w.seen = q.seen /\ w.failure = q.failure /\ w.by = q.by /\ w.stray = q.stray
           /\ w.status = (IF q.status = 0 THEN 200 ELSE q.status)
           /\ w.at[1] = "over" /\ w.at[2] = q.at[2]
<1> DEFINE v == Placed(q, 1, "over")
           x == [l \in 1 .. 2 |-> TRUE]
           code == IF q.status = 0 THEN 200 ELSE q.status
<1>1. "over" \in HttpPlaces /\ x \in [1 .. 2 -> BOOLEAN] /\ code \in Codes \cup {0}
  BY DEF HttpPlaces, Codes, Request
<1>2. /\ v \in Request
      /\ v.writer = q.writer /\ v.handler = q.handler /\ v.sent = q.sent
      /\ v.seen = q.seen /\ v.failure = q.failure
      /\ v.status = q.status /\ v.by = q.by /\ v.stray = q.stray
      /\ v.at[1] = "over" /\ v.at[2] = q.at[2]
  <2> HIDE DEF v
  <2>1. 1 \in 1 .. 2 /\ 2 \in 1 .. 2
    OBVIOUS
  <2>2. v = Placed(q, 1, "over")
    BY DEF v
  <2> QED
    BY <1>1, <2>1, <2>2, PlaceFields
<1>3. w = Settling(v, x, code)
  BY DEF Over, Settling, Placed
<1> HIDE DEF v, x, code
<1>4. w.status = code /\ w \in Request /\ w.at = v.at /\ w.handler = v.handler
      /\ w.writer = v.writer /\ w.sent = v.sent /\ w.seen = v.seen /\ w.failure = v.failure
      /\ w.by = v.by /\ w.stray = v.stray
  BY <1>1, <1>2, <1>3, ContextFields
<1> QED
  BY <1>2, <1>4 DEF code

LEMMA FinishFields ==
    ASSUME NEW q \in Request, NEW code \in Codes, NEW e \in BOOLEAN,
           NEW w, w = Finish(q, code, e)
    PROVE  /\ w \in Request
           /\ w.at = q.at /\ w.handler = q.handler /\ w.writer = q.writer /\ w.sent = q.sent
           /\ w.expired = q.expired /\ w.status = q.status /\ w.by = q.by /\ w.stray = q.stray
           /\ w.seen = code /\ w.failure = (e \/ code >= 500)
<1> DEFINE x == e \/ code >= 500
<1>1. x \in BOOLEAN /\ w = Told(q, code, x)
  BY DEF Finish, Told
<1> HIDE DEF x
<1>2. /\ w \in Request
      /\ w.at = q.at /\ w.handler = q.handler /\ w.writer = q.writer /\ w.sent = q.sent
      /\ w.expired = q.expired /\ w.status = q.status /\ w.by = q.by /\ w.stray = q.stray
      /\ w.seen = code /\ w.failure = x
  BY <1>1, ToldFields
<1> QED
  BY <1>2 DEF x

LEMMA SentFields ==
    ASSUME NEW q \in Request, NEW x \in HowOver, NEW w,
           w = Handed(q, x)
    PROVE  /\ w \in Request
           /\ w.handler = q.handler /\ w.writer = q.writer /\ w.expired = q.expired
           /\ w.status = q.status /\ w.by = q.by /\ w.stray = q.stray
           /\ w.seen = q.seen /\ w.failure = q.failure
           /\ w.at[1] = q.at[1] /\ w.at[2] = "over"
           /\ w.sent[1] = x /\ w.sent[2] = q.sent[2]
<1> DEFINE v == Placed(q, 2, "over")
<1>1. w = Sending(v, 1, x)
  BY DEF Handed, Sending, Placed
<1>2. v = Placed(q, 2, "over") /\ "over" \in HttpPlaces /\ 1 \in 1 .. 2 /\ 2 \in 1 .. 2
  BY DEF HttpPlaces
<1> HIDE DEF v
<1>3. /\ v \in Request /\ v.at[1] = q.at[1] /\ v.at[2] = "over"
      /\ v.handler = q.handler /\ v.writer = q.writer /\ v.expired = q.expired
      /\ v.status = q.status /\ v.by = q.by /\ v.stray = q.stray
      /\ v.seen = q.seen /\ v.failure = q.failure /\ v.sent = q.sent
  BY <1>2, PlaceFields
<1>4. /\ w \in Request /\ w.at = v.at
      /\ w.handler = v.handler /\ w.writer = v.writer /\ w.expired = v.expired
      /\ w.status = v.status /\ w.by = v.by /\ w.stray = v.stray
      /\ w.seen = v.seen /\ w.failure = v.failure
      /\ w.sent[1] = x /\ w.sent[2] = v.sent[2]
  BY <1>1, <1>2, <1>3, SendFields
<1> QED
  BY <1>3, <1>4

LEMMA EndsFields ==
    ASSUME NEW q \in Request, NEW x \in HowOver, NEW l \in 1 .. 2, NEW w,
           w = Finished(q, l, x)
    PROVE  /\ w \in Request
           /\ w.at = q.at /\ w.writer = q.writer /\ w.expired = q.expired
           /\ w.status = q.status /\ w.by = q.by /\ w.stray = q.stray
           /\ w.seen = q.seen /\ w.failure = q.failure /\ w.handler = "over"
           /\ w.sent[l] = x /\ \A m \in 1 .. 2 : m # l => w.sent[m] = q.sent[m]
  BY DEF Request, Finished
-----------------------------------------------------------------------------
(* What the operators keep of a request of chi.                            *)
ChiInv(k, q) ==
    /\ q \in Request /\ RestInv(k, q)
    /\ PlacesInv(k, q) /\ WritersInv(k, q) /\ AnswerInv(q) /\ TimeoutInv(q)

LEMMA ChiFacts ==
    ASSUME NEW q \in Request
    PROVE  /\ q.at[1] \in HttpPlaces /\ q.at[2] \in HttpPlaces
           /\ q.writer[1] \in {"clean", "written", "timedOut"}
           /\ q.writer[2] \in {"clean", "written", "timedOut"}
           /\ q.sent[1] \in HowOver /\ q.sent[2] \in HowOver
           /\ q.handler \in {"none", "run", "over"}
           /\ q.status \in Codes \cup {0} /\ q.status \in Nat
           /\ q.seen \in Codes \cup {0} /\ q.seen \in Nat
           /\ q.by \subseteq Writers /\ q.failure \in BOOLEAN /\ q.stray \in BOOLEAN
  BY DEF Request, Codes

LEMMA FreshFacts ==
    /\ NewRequest \in Request
    /\ NewRequest.at[1] = "none" /\ NewRequest.at[2] = "none" /\ NewRequest.handler = "none"
    /\ NewRequest.writer[1] = "clean" /\ NewRequest.writer[2] = "clean"
    /\ NewRequest.sent[1] = "none" /\ NewRequest.sent[2] = "none"
    /\ NewRequest.status = 0 /\ NewRequest.by = {} /\ NewRequest.seen = 0
    /\ NewRequest.stray = FALSE
  BY DEF NewRequest, Request, HttpPlaces, HowOver

(* A write of the handler or of defaultErrorHandler, to the inner writer.  *)
LEMMA OuterKeeps ==
    ASSUME NEW k \in ServerKinds, NEW q, ChiInv(k, q), NEW who \in {"handler", "problem"},
           NEW code \in Codes, code # 0, "timeout" \notin q.by \/ q.writer[1] = "timedOut",
           q.writer[2] # "timedOut", q.at[1] # "none",
           k.route => q.writer[2] = "written",
           NEW w, w = Outer(q, who, code)
    PROVE  /\ ChiInv(k, w) /\ w.at = q.at /\ w.handler = q.handler /\ w.sent = q.sent
           /\ w.writer[2] = q.writer[2]
<1>1. CASE q.writer[1] = "timedOut"
  BY <1>1 DEF Outer
<1>2. CASE q.writer[1] # "timedOut"
  <2> DEFINE v == Sealed(q, 1, "written")
  <2>1. v = Sealed(q, 1, "written") /\ 1 \in 1 .. 2 /\ 2 \in 1 .. 2 /\ q \in Request
        /\ "written" \in {"clean", "written", "timedOut"}
    BY DEF ChiInv
  <2>2. w = Wire(v, who, code)
    BY <1>2 DEF Outer, Sealed
  <2> HIDE DEF v
  <2>3. /\ v \in Request
        /\ v.at = q.at /\ v.handler = q.handler /\ v.sent = q.sent
        /\ v.seen = q.seen /\ v.failure = q.failure
        /\ v.status = q.status /\ v.by = q.by /\ v.stray = q.stray
        /\ v.writer[1] = "written" /\ v.writer[2] = q.writer[2]
    BY <2>1, WriterFields
  <2>4. /\ w \in Request
        /\ w.at = v.at /\ w.handler = v.handler /\ w.writer = v.writer /\ w.sent = v.sent
        /\ w.seen = v.seen /\ w.failure = v.failure
        /\ w.status = (IF v.status = 0 THEN code ELSE v.status)
        /\ w.by = v.by \cup {who}
        /\ w.stray = (v.stray \/ v.at[1] = "over")
    BY <2>2, <2>3, WireFields DEF Writers
  <2>5. RestInv(k, w)
    BY <2>3, <2>4, ChiFacts DEF ChiInv, RestInv
  <2>6. PlacesInv(k, w)
    BY <2>3, <2>4 DEF ChiInv, PlacesInv
  <2>7. WritersInv(k, w) /\ AnswerInv(w)
    BY <1>2, <2>3, <2>4, ChiFacts DEF ChiInv, WritersInv, AnswerInv
  <2>8. TimeoutInv(w)
    BY <1>2, <2>3, <2>4 DEF ChiInv, TimeoutInv
  <2> QED
    BY <2>3, <2>4, <2>5, <2>6, <2>7, <2>8 DEF ChiInv
<1> QED
  BY <1>1, <1>2

LEMMA WriteKeeps ==
    ASSUME NEW k \in ServerKinds, NEW q, ChiInv(k, q), NEW who \in {"handler", "problem"},
           NEW code \in Codes, q.at[1] # "none",
           NEW w, w = Write(q, IF k.route THEN 2 ELSE 1, who, code)
    PROVE  ChiInv(k, w) /\ w.at = q.at /\ w.handler = q.handler /\ w.sent = q.sent
<1>1. code # 0 /\ q \in Request
  BY DEF Codes, ChiInv
<1>2. "timeout" \in q.by => q.writer[1] = "timedOut" \/ q.writer[2] = "timedOut"
  BY DEF ChiInv, TimeoutInv
<1>3. CASE ~k.route
  <2>1. w = Outer(q, who, code)
    BY <1>3 DEF Write
  <2>2. q.writer[2] = "clean"
    BY <1>3 DEF ChiInv, PlacesInv
  <2> QED
    BY <1>1, <1>2, <1>3, <2>1, <2>2, OuterKeeps
<1>4. CASE k.route /\ q.writer[2] = "timedOut"
  BY <1>4 DEF Write
<1>5. CASE k.route /\ q.writer[2] # "timedOut"
  <2> DEFINE v == Sealed(q, 2, "written")
  <2>1. v = Sealed(q, 2, "written") /\ 1 \in 1 .. 2 /\ 2 \in 1 .. 2
        /\ "written" \in {"clean", "written", "timedOut"}
    OBVIOUS
  <2>2. w = Outer(v, who, code)
    BY <1>5 DEF Write, Sealed
  <2> HIDE DEF v
  <2>3. /\ v \in Request
        /\ v.at = q.at /\ v.handler = q.handler /\ v.sent = q.sent
        /\ v.seen = q.seen /\ v.failure = q.failure
        /\ v.status = q.status /\ v.by = q.by /\ v.stray = q.stray
        /\ v.writer[2] = "written" /\ v.writer[1] = q.writer[1]
    BY <1>1, <2>1, WriterFields
  <2>4. RestInv(k, v)
    BY <2>3 DEF ChiInv, RestInv
  <2>5. PlacesInv(k, v) /\ TimeoutInv(v)
    BY <1>5, <2>3 DEF ChiInv, PlacesInv, TimeoutInv
  <2>6. WritersInv(k, v) /\ AnswerInv(v)
    BY <1>5, <2>3 DEF ChiInv, WritersInv, AnswerInv
  <2>7. "timeout" \notin v.by \/ v.writer[1] = "timedOut"
    BY <1>2, <1>5, <2>3
  <2>8. ChiInv(k, v) /\ v.writer[2] # "timedOut" /\ v.at[1] # "none"
    BY <2>3, <2>4, <2>5, <2>6 DEF ChiInv
  <2>9. ChiInv(k, w) /\ w.at = v.at /\ w.handler = v.handler /\ w.sent = v.sent
    BY <1>1, <2>2, <2>3, <2>7, <2>8, OuterKeeps
  <2> QED
    BY <2>3, <2>9
<1> QED
  BY <1>3, <1>4, <1>5

(* The handler's goroutine ends: it sends to the inner layer.              *)
LEMMA EndsKeeps ==
    ASSUME NEW k \in ServerKinds, k.route \in BOOLEAN, NEW q, ChiInv(k, q), q.handler = "run",
           NEW how \in {"done", "panic"},
           NEW w, w = Finished(q, IF k.route THEN 2 ELSE 1, how)
    PROVE  ChiInv(k, w) /\ w.at = q.at
<1> DEFINE l == IF k.route THEN 2 ELSE 1
<1>1. l \in 1 .. 2 /\ how \in HowOver /\ q \in Request /\ (k.route => l = 2) /\ (~k.route => l = 1)
  BY DEF HowOver, ChiInv
<1>2. w = Finished(q, l, how)
  OBVIOUS
<1> HIDE DEF l
<1>3. /\ w \in Request
      /\ w.at = q.at /\ w.writer = q.writer
      /\ w.status = q.status /\ w.by = q.by /\ w.stray = q.stray
      /\ w.seen = q.seen /\ w.failure = q.failure /\ w.handler = "over"
      /\ w.sent[l] = how /\ \A m \in 1 .. 2 : m # l => w.sent[m] = q.sent[m]
  BY <1>1, <1>2, EndsFields
<1>4. k.route => w.sent[1] = q.sent[1]
  BY <1>1, <1>3
<1>5. q.at[1] # "none"
  BY FreshFacts DEF ChiInv, RestInv
<1>6. ~k.route => q.sent[1] = "none" /\ q.at[2] = "none"
  BY DEF ChiInv, PlacesInv
<1>7. RestInv(k, w)
  BY <1>3, <1>4, <1>5, <1>6 DEF ChiInv, RestInv
<1>8. PlacesInv(k, w)
  BY <1>3, <1>4, <1>6 DEF ChiInv, PlacesInv
<1>9. WritersInv(k, w) /\ AnswerInv(w) /\ TimeoutInv(w)
  BY <1>3 DEF ChiInv, WritersInv, AnswerInv, TimeoutInv
<1> QED
  BY <1>3, <1>7, <1>8, <1>9 DEF ChiInv


(* ServeHTTP returns: what the layer's goroutine was to send has come, or  *)
(* something has gone through its writer.                                  *)
LEMMA ServeReturnsKeeps ==
    ASSUME NEW k \in ServerKinds, NEW q \in Request, PlacesInv(k, q), WritersInv(k, q),
           TimeoutInv(q), q.writer[1] # "clean" \/ q.sent[1] # "none",
           NEW w, w = LayerReturns(q, 1)
    PROVE  ChiInv(k, w) /\ w.at[1] = "over"
<1>1. q \in Request /\ 1 \in 1 .. 2 /\ 2 \in 1 .. 2
  BY DEF ChiInv
<1> DEFINE o == Over(q)
<1>2. o = Over(q)
  OBVIOUS
<1>3. w = Finish(o, o.status, FALSE)
  BY DEF LayerReturns, ServeHTTPReturns
<1> HIDE DEF o
<1>4. /\ o \in Request
      /\ o.writer = q.writer /\ o.handler = q.handler /\ o.sent = q.sent
      /\ o.seen = q.seen /\ o.failure = q.failure /\ o.by = q.by /\ o.stray = q.stray
      /\ o.status = (IF q.status = 0 THEN 200 ELSE q.status)
      /\ o.at[1] = "over" /\ o.at[2] = q.at[2]
  BY <1>1, <1>2, OverFields
<1>5. o.status \in Codes /\ FALSE \in BOOLEAN /\ o.status # 0
  BY <1>1, <1>4, ChiFacts DEF Codes
<1>6. /\ w \in Request
      /\ w.at = o.at /\ w.handler = o.handler /\ w.writer = o.writer /\ w.sent = o.sent
      /\ w.status = o.status /\ w.by = o.by /\ w.stray = o.stray
      /\ w.seen = o.status /\ (o.status >= 500 => w.failure)
  <2> DEFINE code == o.status
             e == FALSE
  <2>1. code \in Codes /\ e \in BOOLEAN /\ w = Finish(o, code, e)
    BY <1>3, <1>5
  <2> HIDE DEF code, e
  <2>2. /\ w \in Request
        /\ w.at = o.at /\ w.handler = o.handler /\ w.writer = o.writer /\ w.sent = o.sent
        /\ w.status = o.status /\ w.by = o.by /\ w.stray = o.stray
        /\ w.seen = code /\ w.failure = (e \/ code >= 500)
    BY <1>4, <2>1, FinishFields
  <2> QED
    BY <2>2 DEF code, e
<1>7. RestInv(k, w)
  BY <1>4, <1>5, <1>6 DEF RestInv
<1>8. PlacesInv(k, w)
  BY <1>4, <1>6 DEF ChiInv, PlacesInv
<1>9. q.writer[1] = "clean" => q.at[2] \in {"none", "over"}
  BY <1>1, ChiFacts DEF ChiInv, PlacesInv, HttpPlaces
<1>10. WritersInv(k, w) /\ AnswerInv(w)
  BY <1>4, <1>6, <1>9 DEF ChiInv, WritersInv, AnswerInv
<1>11. TimeoutInv(w)
  BY <1>4, <1>6 DEF ChiInv, TimeoutInv
<1> QED
  BY <1>4, <1>6, <1>7, <1>8, <1>10, <1>11 DEF ChiInv

(* It panics.                                                              *)
LEMMA ServePanicsKeeps ==
    ASSUME NEW k \in ServerKinds, k.adapter = "chi", NEW q, ChiInv(k, q),
           q.at[1] = "wait", q.sent[1] = "panic",
           NEW w, w = LayerPanics(q, 1)
    PROVE  ChiInv(k, w) /\ w.at[1] = "over"
<1>1. q \in Request /\ 1 \in 1 .. 2 /\ 2 \in 1 .. 2
  BY DEF ChiInv
<1> DEFINE v == IF q.status = 0 THEN Wire(q, "problem", 500) ELSE q
           o == Over(v)
<1>2. v = IF q.status = 0 THEN Wire(q, "problem", 500) ELSE q
  OBVIOUS
<1>3. o = Over(v)
  OBVIOUS
<1>4. w = Finish(o, 500, TRUE)
  BY DEF LayerPanics
<1> HIDE DEF v, o
<1>5. /\ v \in Request
      /\ v.at = q.at /\ v.handler = q.handler /\ v.writer = q.writer /\ v.sent = q.sent
      /\ v.status = (IF q.status = 0 THEN 500 ELSE q.status)
      /\ v.by = (IF q.status = 0 THEN q.by \cup {"problem"} ELSE q.by)
      /\ v.stray = q.stray
  <2>1. CASE q.status = 0
    <3>1. v = Wire(q, "problem", 500) /\ "problem" \in Writers /\ 500 \in Codes
      BY <1>2, <2>1 DEF Writers, Codes
    <3>2. /\ v \in Request
          /\ v.at = q.at /\ v.handler = q.handler /\ v.writer = q.writer /\ v.sent = q.sent
          /\ v.status = (IF q.status = 0 THEN 500 ELSE q.status)
          /\ v.by = q.by \cup {"problem"}
          /\ v.stray = (q.stray \/ q.at[1] = "over")
      BY <1>1, <3>1, WireFields
    <3> QED
      BY <1>1, <2>1, <3>2, ChiFacts
  <2>2. CASE q.status # 0
    BY <1>1, <1>2, <2>2
  <2> QED
    BY <2>1, <2>2
<1>6. /\ o \in Request
      /\ o.writer = v.writer /\ o.handler = v.handler /\ o.sent = v.sent
      /\ o.by = v.by /\ o.stray = v.stray
      /\ o.status = (IF v.status = 0 THEN 200 ELSE v.status)
      /\ o.at[1] = "over" /\ o.at[2] = v.at[2]
  BY <1>3, <1>5, OverFields
<1>7. /\ w \in Request
      /\ w.at = o.at /\ w.handler = o.handler /\ w.writer = o.writer /\ w.sent = o.sent
      /\ w.status = o.status /\ w.by = o.by /\ w.stray = o.stray
      /\ w.seen = 500 /\ w.failure
  <2> DEFINE code == 500
             e == TRUE
  <2>1. code \in Codes /\ e \in BOOLEAN /\ w = Finish(o, code, e)
    BY <1>4, ZenonT(60) DEF Codes
  <2> HIDE DEF code, e
  <2>2. /\ w \in Request
        /\ w.at = o.at /\ w.handler = o.handler /\ w.writer = o.writer /\ w.sent = o.sent
        /\ w.status = o.status /\ w.by = o.by /\ w.stray = o.stray
        /\ w.seen = code /\ w.failure = (e \/ code >= 500)
    BY <1>6, <2>1, FinishFields
  <2> QED
    BY <2>2 DEF code, e
<1>8. /\ w.at[1] = "over" /\ w.at[2] = q.at[2] /\ w.handler = q.handler
      /\ w.writer = q.writer /\ w.sent = q.sent /\ w.stray = q.stray
      /\ w.status = (IF q.status = 0 THEN 500 ELSE q.status)
      /\ w.by = (IF q.status = 0 THEN q.by \cup {"problem"} ELSE q.by)
  BY <1>5, <1>6, <1>7
<1>9. q.at[2] \in {"none", "over"}
  BY <1>1, ChiFacts DEF ChiInv, PlacesInv, HttpPlaces
<1>10. q.status = 0 => q.writer[2] # "timedOut" /\ "timeout" \notin q.by
  BY <1>9 DEF ChiInv, WritersInv, AnswerInv, TimeoutInv
<1>11. RestInv(k, w)
  BY <1>7, <1>8 DEF RestInv
<1>12. PlacesInv(k, w)
  BY <1>8 DEF ChiInv, PlacesInv
<1>13. WritersInv(k, w) /\ AnswerInv(w)
  BY <1>8, <1>9, <1>10 DEF ChiInv, WritersInv, AnswerInv
<1>14. TimeoutInv(w)
  BY <1>8, <1>10 DEF ChiInv, TimeoutInv
<1> QED
  BY <1>7, <1>8, <1>11, <1>12, <1>13, <1>14 DEF ChiInv

(* The goroutine of the route's timeout sends to the one outside, or goes  *)
(* to wait for the handler.                                                *)
LEMMA RouteSendsKeeps ==
    ASSUME NEW k \in ServerKinds, NEW q, ChiInv(k, q), k.adapter = "chi",
           q.at[2] \in {"wait", "answer", "cleanup"},
           q.writer[2] = "timedOut" /\ q.at[1] = "wait" => q.status = 408,
           NEW x \in {"done", "panic"}, NEW w, w = Handed(q, x)
    PROVE  ChiInv(k, w) /\ w.at[1] = q.at[1]
<1>1. q \in Request /\ x \in HowOver
  BY DEF ChiInv, HowOver
<1>2. /\ w \in Request
      /\ w.handler = q.handler /\ w.writer = q.writer
      /\ w.status = q.status /\ w.by = q.by /\ w.stray = q.stray
      /\ w.seen = q.seen /\ w.failure = q.failure
      /\ w.at[1] = q.at[1] /\ w.at[2] = "over"
      /\ w.sent[1] = x /\ w.sent[2] = q.sent[2]
  BY <1>1, SentFields
<1>3. q.at[1] # "none" /\ k.route /\ q.sent[1] = "none"
  BY FreshFacts DEF ChiInv, RestInv, PlacesInv
<1>4. RestInv(k, w)
  BY <1>2, <1>3 DEF ChiInv, RestInv
<1>5. PlacesInv(k, w)
  BY <1>2, <1>3 DEF ChiInv, PlacesInv
<1>6. WritersInv(k, w) /\ AnswerInv(w)
  BY <1>2, <1>3 DEF ChiInv, WritersInv, AnswerInv
<1>7. TimeoutInv(w)
  BY <1>2 DEF ChiInv, TimeoutInv
<1> QED
  BY <1>2, <1>4, <1>5, <1>6, <1>7 DEF ChiInv

LEMMA RouteWaitsKeeps ==
    ASSUME NEW k \in ServerKinds, NEW q, ChiInv(k, q), k.cleanup,
           q.at[2] \in {"wait", "answer", "cleanup"},
           q.writer[2] = "timedOut" /\ q.at[1] = "wait" => q.status = 408,
           NEW w, w = Placed(q, 2, "cleanup")
    PROVE  ChiInv(k, w) /\ w.at[1] = q.at[1]
<1>1. q \in Request /\ "cleanup" \in HttpPlaces /\ 1 \in 1 .. 2 /\ 2 \in 1 .. 2
  BY DEF ChiInv, HttpPlaces
<1>2. /\ w \in Request
      /\ w.handler = q.handler /\ w.writer = q.writer /\ w.sent = q.sent
      /\ w.status = q.status /\ w.by = q.by /\ w.stray = q.stray
      /\ w.seen = q.seen /\ w.failure = q.failure
      /\ w.at[1] = q.at[1] /\ w.at[2] = "cleanup"
  BY <1>1, PlaceFields
<1>3. q.at[1] # "none" /\ k.route /\ q.sent[1] = "none"
  BY FreshFacts DEF ChiInv, RestInv, PlacesInv
<1>4. RestInv(k, w)
  BY <1>2, <1>3 DEF ChiInv, RestInv
<1>5. PlacesInv(k, w)
  BY <1>2, <1>3 DEF ChiInv, PlacesInv
<1>6. WritersInv(k, w) /\ AnswerInv(w)
  BY <1>2, <1>3 DEF ChiInv, WritersInv, AnswerInv
<1>7. TimeoutInv(w)
  BY <1>2 DEF ChiInv, TimeoutInv
<1> QED
  BY <1>2, <1>4, <1>5, <1>6, <1>7 DEF ChiInv

LEMMA RouteAfterTimeoutKeeps ==
    ASSUME kind \in ServerKinds, NEW q, ChiInv(kind, q), kind.adapter = "chi",
           q.at[2] \in {"wait", "answer", "cleanup"},
           q.writer[2] = "timedOut" /\ q.at[1] = "wait" => q.status = 408,
           NEW w, w = AfterTimeout(q, 2)
    PROVE  ChiInv(kind, w) /\ w.at[1] = q.at[1]
<1>1. CASE kind.cleanup
  <2>1. w = Placed(q, 2, "cleanup")
    BY <1>1 DEF AfterTimeout, Placed
  <2> QED
    BY <1>1, <2>1, RouteWaitsKeeps
<1>2. CASE ~kind.cleanup
  <2>1. w = Handed(q, "done") /\ "done" \in {"done", "panic"}
    BY <1>2 DEF AfterTimeout, LayerReturns, Handed
  <2> QED
    BY <2>1, RouteSendsKeeps
<1> QED
  BY <1>1, <1>2
-----------------------------------------------------------------------------
(* The steps of a request of chi: what a lemma above says of the request   *)
(* holds of all of them, and nobody's request begins.                      *)
LEMMA KindFacts ==
    ASSUME kind \in ServerKinds
    PROVE  /\ kind.adapter \in {"chi", "fiber"} /\ kind.route \in BOOLEAN
           /\ Inner = (IF kind.route THEN 2 ELSE 1) /\ Inner \in 1 .. 2
<1>1. kind.adapter \in {"chi", "fiber"} /\ kind.route \in BOOLEAN
  BY HttpAssumption DEF HttpAssumption
<1> QED
  BY <1>1, LayersAre

LEMMA OneChanges ==
    ASSUME RequestsInv, NEW r \in Requests, NEW w, RequestInv(kind, w),
           rq' = [rq EXCEPT ![r] = w], kind' = kind,
           leaks' = leaks \/ (kind.cleanup /\ leaks' = leaks + 1)
    PROVE  /\ RequestsInv'
           /\ rq[r].at[1] # "none" /\ (rq[r].at[1] = "over" => w.at[1] = "over") =>
                  InFlight' \subseteq InFlight
<1>1. w \in Request
  BY DEF RequestInv
<1>2. rq' \in [Requests -> Request]
  BY <1>1 DEF RequestsInv
<1>3. \A s \in Requests : rq'[s] = IF s = r THEN w ELSE rq[s]
  BY DEF RequestsInv
<1>4. \A s \in Requests : RequestInv(kind, rq'[s])
  BY <1>3 DEF RequestsInv
<1>5. leaks' \in Nat /\ (~kind.cleanup => leaks' = 0)
  BY DEF RequestsInv
<1>6. RequestsInv'
  BY <1>2, <1>4, <1>5 DEF RequestsInv
<1>7. rq[r].at[1] # "none" /\ (rq[r].at[1] = "over" => w.at[1] = "over") =>
          InFlight' \subseteq InFlight
  BY <1>3 DEF InFlight
<1> QED
  BY <1>6, <1>7

LEMMA ChiChanges ==
    ASSUME RequestsInv, kind.adapter = "chi", NEW r \in Requests, rq[r].at[1] # "none",
           NEW w, ChiInv(kind, w), rq[r].at[1] = "over" => w.at[1] = "over",
           rq' = [rq EXCEPT ![r] = w], UNCHANGED onlyRq
    PROVE  RequestsInv' /\ InFlight' \subseteq InFlight
<1>1. RequestInv(kind, w)
  BY DEF ChiInv, RequestInv
<1>2. kind' = kind /\ leaks' = leaks
  BY DEF onlyRq
<1>3. leaks' = leaks \/ (kind.cleanup /\ leaks' = leaks + 1)
  BY <1>2
<1> QED
  BY <1>1, <1>2, <1>3, OneChanges

(* A request of chi, and where one of its goroutines being under way means *)
(* that it has come.                                                       *)
LEMMA ChiRequest ==
    ASSUME RequestsInv, kind.adapter = "chi", NEW r \in Requests
    PROVE  /\ ChiInv(kind, rq[r])
           /\ rq[r].at[1] = "none" =>
                  rq[r].handler = "none" /\ rq[r].at[2] = "none"
           /\ rq[r].at[1] \in HttpPlaces /\ rq[r].at[2] \in HttpPlaces
<1>1. ChiInv(kind, rq[r])
  BY DEF RequestsInv, RequestInv, ChiInv
<1>2. rq[r] \in Request /\ RestInv(kind, rq[r])
  BY <1>1 DEF ChiInv
<1>3. rq[r].at[1] = "none" => rq[r] = NewRequest
  BY <1>2 DEF RestInv
<1> QED
  BY <1>1, <1>2, <1>3, FreshFacts, ChiFacts

LEMMA ExpireKeeps ==
    ASSUME RequestsInv, NEW r \in Requests, NEW l \in 1 .. 2, Expire(r, l)
    PROVE  RequestsInv' /\ InFlight' \subseteq InFlight
<1> DEFINE q == rq[r]
           x == [m \in 1 .. 2 |-> rq[r].expired[m] \/ m >= l]
           w == Settling(q, x, q.status)
<1>1. kind.adapter = "chi" /\ q.at[1] \notin {"none", "over"} /\ UNCHANGED onlyRq
  BY DEF Expire
<1>2. ChiInv(kind, q) /\ q \in Request
  BY <1>1, ChiRequest DEF ChiInv
<1>3. [q EXCEPT !.expired = x] = w
  BY <1>2 DEF Settling, Request
<1>4. rq' = [rq EXCEPT ![r] = w]
  BY <1>3 DEF Expire
<1>5. x \in [1 .. 2 -> BOOLEAN] /\ q.status \in Codes \cup {0} /\ w = Settling(q, x, q.status)
  <2>1. x \in [1 .. 2 -> BOOLEAN]
    BY <1>2, Zenon DEF Request
  <2> QED
    BY <1>2, <2>1, ChiFacts
<1> HIDE DEF x, w
<1>6. /\ w \in Request
      /\ w.at = q.at /\ w.handler = q.handler /\ w.writer = q.writer /\ w.sent = q.sent
      /\ w.seen = q.seen /\ w.failure = q.failure
      /\ w.status = q.status /\ w.by = q.by /\ w.stray = q.stray
  <2> DEFINE code == q.status
  <2>1. code \in Codes \cup {0} /\ w = Settling(q, x, code)
    BY <1>5
  <2> HIDE DEF code, q
  <2>2. /\ w \in Request
        /\ w.at = q.at /\ w.handler = q.handler /\ w.writer = q.writer /\ w.sent = q.sent
        /\ w.seen = q.seen /\ w.failure = q.failure
        /\ w.status = code /\ w.by = q.by /\ w.stray = q.stray
    BY <1>2, <1>5, <2>1, ContextFields
  <2> QED
    BY <2>2 DEF code
<1>7. RestInv(kind, w)
  BY <1>1, <1>2, <1>6 DEF ChiInv, RestInv
<1>8. PlacesInv(kind, w)
  BY <1>2, <1>6 DEF ChiInv, PlacesInv
<1>9. WritersInv(kind, w) /\ AnswerInv(w) /\ TimeoutInv(w)
  BY <1>2, <1>6 DEF ChiInv, WritersInv, AnswerInv, TimeoutInv
<1>10. ChiInv(kind, w)
  BY <1>6, <1>7, <1>8, <1>9 DEF ChiInv
<1> QED
  BY <1>1, <1>4, <1>10, ChiChanges

(* The handler of chi.                                                     *)
LEMMA HandlerKeeps ==
    ASSUME kind \in ServerKinds, RequestsInv, NEW r \in Requests,
           \/ HandlerWrites(r) \/ HandlerReturns(r) \/ HandlerPanics(r)
           \/ \E err \in {"plain", "fiber"} : HandlerFails(r, err)
    PROVE  RequestsInv' /\ InFlight' \subseteq InFlight
<1> DEFINE q == rq[r]
           l == IF kind.route THEN 2 ELSE 1
<1>1. kind.adapter = "chi" /\ q.handler = "run" /\ UNCHANGED onlyRq
  BY DEF HandlerWrites, HandlerReturns, HandlerPanics, HandlerFails
<1>2. ChiInv(kind, q) /\ q.at[1] # "none" /\ Inner = l /\ kind.route \in BOOLEAN
  BY <1>1, ChiRequest, KindFacts
<1> HIDE DEF q
<1>3. CASE HandlerWrites(r)
  <2> DEFINE w == Write(q, l, "handler", 200)
  <2>1. rq' = [rq EXCEPT ![r] = w]
    BY <1>2, <1>3 DEF HandlerWrites, q
  <2>2. w = Write(q, IF kind.route THEN 2 ELSE 1, "handler", 200)
        /\ 200 \in Codes /\ "handler" \in {"handler", "problem"}
    BY DEF Codes
  <2> HIDE DEF w
  <2>3. ChiInv(kind, w) /\ w.at = q.at
    BY <1>2, <2>2, WriteKeeps
  <2> QED
    BY <1>1, <1>2, <2>1, <2>3, ChiChanges DEF q
<1>4. ASSUME NEW how \in {"done", "panic"}, rq' = [rq EXCEPT ![r] = HandlerEnds(@, how)]
      PROVE  RequestsInv' /\ InFlight' \subseteq InFlight
  <2> DEFINE w == Finished(q, l, how)
  <2>1. rq' = [rq EXCEPT ![r] = w]
    BY <1>2, <1>4 DEF HandlerEnds, Finished, q
  <2>2. w = Finished(q, IF kind.route THEN 2 ELSE 1, how)
    OBVIOUS
  <2> HIDE DEF w
  <2>3. ChiInv(kind, w) /\ w.at = q.at
    BY <1>1, <1>2, <1>4, <2>2, EndsKeeps
  <2> QED
    BY <1>1, <1>2, <2>1, <2>3, ChiChanges DEF q
<1>5. ASSUME NEW err \in {"plain", "fiber"}, HandlerFails(r, err)
      PROVE  RequestsInv' /\ InFlight' \subseteq InFlight
  <2> DEFINE code == Problem(err)
             v == Write(q, l, "problem", code)
             w == Finished(v, l, "done")
  <2>1. rq' = [rq EXCEPT ![r] = w]
    BY <1>2, <1>5 DEF HandlerFails, HandlerEnds, Finished, q
  <2>2. code \in Codes
    BY DEF Problem, Codes
  <2> HIDE DEF code
  <2>3. v = Write(q, IF kind.route THEN 2 ELSE 1, "problem", code)
        /\ "problem" \in {"handler", "problem"}
    OBVIOUS
  <2>4. w = Finished(v, IF kind.route THEN 2 ELSE 1, "done") /\ "done" \in {"done", "panic"}
    OBVIOUS
  <2> HIDE DEF v, w
  <2>5. ChiInv(kind, v) /\ v.at = q.at /\ v.handler = q.handler
    BY <1>2, <2>2, <2>3, WriteKeeps
  <2>6. ChiInv(kind, w) /\ w.at = v.at
    BY <1>1, <1>2, <2>4, <2>5, EndsKeeps
  <2> QED
    BY <1>1, <1>2, <2>1, <2>5, <2>6, ChiChanges DEF q
<1>6. CASE HandlerReturns(r)
  BY <1>4, <1>6 DEF HandlerReturns
<1>7. CASE HandlerPanics(r)
  BY <1>4, <1>7 DEF HandlerPanics
<1> QED
  BY <1>3, <1>5, <1>6, <1>7

(* The goroutines that wait at the two layers of chi.                      *)
LEMMA RouteHandsKeeps ==
    ASSUME kind \in ServerKinds, RequestsInv, kind.adapter = "chi", NEW r \in Requests,
           rq[r].at[2] \in {"wait", "cleanup"}, NEW how \in {"done", "panic"},
           rq' = [rq EXCEPT ![r] = Handed(@, how)], kind' = kind,
           leaks' = leaks \/ (kind.cleanup /\ leaks' = leaks + 1)
    PROVE  RequestsInv' /\ InFlight' \subseteq InFlight
<1> DEFINE q == rq[r]
           w == Handed(q, how)
<1>1. ChiInv(kind, q) /\ q.at[1] # "none"
  BY ChiRequest
<1>2. q.writer[2] = "timedOut" /\ q.at[1] = "wait" => q.status = 408
  BY <1>1 DEF ChiInv, WritersInv, AnswerInv
<1>3. w = Handed(q, how) /\ rq' = [rq EXCEPT ![r] = w]
  OBVIOUS
<1> HIDE DEF q, w
<1>4. ChiInv(kind, w) /\ w.at[1] = q.at[1]
  BY <1>1, <1>2, <1>3, RouteSendsKeeps DEF q
<1>5. RequestInv(kind, w)
  BY <1>4 DEF ChiInv, RequestInv
<1> QED
  BY <1>1, <1>3, <1>4, <1>5, OneChanges, ZenonT(60) DEF q

LEMMA LayerReceivesKeeps ==
    ASSUME kind \in ServerKinds, RequestsInv, NEW r \in Requests, NEW l \in 1 .. 2,
           LayerReceives(r, l)
    PROVE  RequestsInv' /\ InFlight' \subseteq InFlight
<1> DEFINE q == rq[r]
<1>1. kind.adapter = "chi" /\ q.at[l] = "wait" /\ q.sent[l] # "none" /\ UNCHANGED onlyRq
  BY DEF LayerReceives
<1>2. ChiInv(kind, q) /\ q \in Request /\ kind' = kind /\ leaks' = leaks
  BY <1>1, ChiRequest DEF ChiInv, onlyRq
<1>3. CASE l = 2
  <2>1. /\ q.sent[2] = "done" => rq' = [rq EXCEPT ![r] = Handed(@, "done")]
        /\ q.sent[2] # "done" => rq' = [rq EXCEPT ![r] = Handed(@, "panic")]
    <3>1. \A x : LayerReturns(x, 2) = Handed(x, "done") /\ LayerPanics(x, 2) = Handed(x, "panic")
      BY DEF LayerReturns, LayerPanics, Handed
    <3> QED
      BY <1>3, <3>1 DEF LayerReceives
  <2> QED
    BY <1>1, <1>2, <1>3, <2>1, RouteHandsKeeps
<1>4. CASE l = 1 /\ q.sent[1] = "done"
  <2> DEFINE w == LayerReturns(q, 1)
  <2>1. w = LayerReturns(q, 1) /\ rq' = [rq EXCEPT ![r] = w]
    BY <1>4 DEF LayerReceives
  <2> HIDE DEF w
  <2>2. ChiInv(kind, w) /\ w.at[1] = "over"
    BY <1>1, <1>2, <1>4, <2>1, ServeReturnsKeeps DEF ChiInv
  <2> QED
    BY <1>1, <1>4, <2>1, <2>2, ChiChanges
<1>5. CASE l = 1 /\ q.sent[1] # "done"
  <2> DEFINE w == LayerPanics(q, 1)
  <2>1. w = LayerPanics(q, 1) /\ rq' = [rq EXCEPT ![r] = w]
    BY <1>5 DEF LayerReceives
  <2>2. q.sent[1] = "panic"
    BY <1>1, <1>2, <1>5, ChiFacts DEF HowOver
  <2> HIDE DEF w
  <2>3. ChiInv(kind, w) /\ w.at[1] = "over"
    BY <1>1, <1>2, <1>5, <2>1, <2>2, ServePanicsKeeps
  <2> QED
    BY <1>1, <1>5, <2>1, <2>3, ChiChanges
<1> QED
  BY <1>3, <1>4, <1>5

LEMMA LayerTimesOutKeeps ==
    ASSUME kind \in ServerKinds, RequestsInv, NEW r \in Requests, NEW l \in 1 .. 2,
           LayerTimesOut(r, l)
    PROVE  RequestsInv' /\ InFlight' \subseteq InFlight
<1> DEFINE q == rq[r]
<1>1. kind.adapter = "chi" /\ q.at[l] = "wait" /\ UNCHANGED onlyRq
  BY DEF LayerTimesOut
<1>2. ChiInv(kind, q) /\ q \in Request /\ q.at[1] # "none" /\ 1 \in 1 .. 2 /\ 2 \in 1 .. 2
  BY <1>1, ChiRequest DEF ChiInv
<1>3. CASE q.writer[l] = "clean"
  <2> DEFINE v == Sealed(q, l, "timedOut")
             w == Placed(v, l, "answer")
  <2>1. w = [q EXCEPT !.writer[l] = "timedOut", !.at[l] = "answer"]
    BY DEF Sealed, Placed
  <2>2. rq' = [rq EXCEPT ![r] = w]
    BY <1>3, <2>1 DEF LayerTimesOut
  <2>3. v = Sealed(q, l, "timedOut") /\ w = Placed(v, l, "answer")
        /\ "answer" \in HttpPlaces /\ "timedOut" \in {"clean", "written", "timedOut"}
    BY DEF HttpPlaces
  <2> HIDE DEF v, w, q
  <2>4. /\ v \in Request
        /\ v.at = q.at /\ v.handler = q.handler /\ v.sent = q.sent
        /\ v.seen = q.seen /\ v.failure = q.failure
        /\ v.status = q.status /\ v.by = q.by /\ v.stray = q.stray
        /\ v.writer[l] = "timedOut" /\ \A m \in 1 .. 2 : m # l => v.writer[m] = q.writer[m]
    BY <1>2, <2>3, WriterFields
  <2>5. /\ w \in Request
        /\ w.writer = v.writer /\ w.handler = v.handler /\ w.sent = v.sent
        /\ w.seen = v.seen /\ w.failure = v.failure
        /\ w.status = v.status /\ w.by = v.by /\ w.stray = v.stray
        /\ w.at[l] = "answer" /\ \A m \in 1 .. 2 : m # l => w.at[m] = v.at[m]
    BY <2>3, <2>4, PlaceFields
  <2>6. \/ /\ l = 1 /\ w.at[1] = "answer" /\ w.at[2] = q.at[2]
           /\ w.writer[1] = "timedOut" /\ w.writer[2] = q.writer[2]
        \/ /\ l = 2 /\ w.at[2] = "answer" /\ w.at[1] = q.at[1] /\ kind.route
           /\ w.writer[2] = "timedOut" /\ w.writer[1] = q.writer[1]
    <3>1. l = 2 => kind.route
      BY <1>1, <1>2 DEF ChiInv, PlacesInv, q
    <3> QED
      BY <1>2, <2>4, <2>5, <3>1
  <2>7. RestInv(kind, w)
    <3>1. q.at[1] = "over" => w.at[1] = "over"
      BY <1>1, <2>6 DEF q
    <3>2. w.at[1] # "none"
      BY <1>2, <2>6 DEF q
    <3>3. w.at[1] = "over" => q.at[1] = "over"
      BY <2>6
    <3> QED
      BY <1>2, <2>4, <2>5, <3>1, <3>2, <3>3 DEF ChiInv, RestInv
  <2>8. PlacesInv(kind, w)
    BY <1>1, <1>2, <2>4, <2>5, <2>6 DEF ChiInv, PlacesInv, q
  <2>9. WritersInv(kind, w) /\ AnswerInv(w)
    BY <1>1, <1>2, <1>3, <2>4, <2>5, <2>6 DEF ChiInv, WritersInv, AnswerInv, q
  <2>10. TimeoutInv(w)
    BY <1>3, <2>4, <2>5, <2>6, <1>2 DEF ChiInv, TimeoutInv, q
  <2>11. ChiInv(kind, w)
    BY <2>5, <2>7, <2>8, <2>9, <2>10 DEF ChiInv
  <2>12. q.at[1] = "over" => w.at[1] = "over"
    BY <1>1, <2>6 DEF q
  <2> QED
    BY <1>1, <1>2, <2>2, <2>11, <2>12, ChiChanges DEF q
<1>4. CASE q.writer[l] # "clean"
  <2> DEFINE w == AfterTimeout(q, l)
  <2>1. w = AfterTimeout(q, l) /\ rq' = [rq EXCEPT ![r] = w]
    BY <1>4 DEF LayerTimesOut
  <2> HIDE DEF w
  <2>2. CASE l = 1
    <3>1. w = LayerReturns(q, 1)
      BY <2>1, <2>2 DEF AfterTimeout
    <3>2. ChiInv(kind, w) /\ w.at[1] = "over"
      BY <1>2, <1>4, <2>2, <3>1, ServeReturnsKeeps DEF ChiInv
    <3> QED
      BY <1>1, <1>2, <2>1, <3>2, ChiChanges
  <2>3. CASE l = 2
    <3>1. q.writer[2] = "timedOut" /\ q.at[1] = "wait" => q.status = 408
      BY <1>1, <1>2, <2>3 DEF ChiInv, WritersInv, AnswerInv
    <3>2. ChiInv(kind, w) /\ w.at[1] = q.at[1]
      BY <1>1, <1>2, <2>1, <2>3, <3>1, RouteAfterTimeoutKeeps
    <3> QED
      BY <1>1, <1>2, <2>1, <3>2, ChiChanges
  <2> QED
    BY <2>2, <2>3
<1> QED
  BY <1>3, <1>4

(* A request of fiber is never at a place only chi has.                    *)
LEMMA FiberPlaces ==
    ASSUME kind \in ServerKinds, RequestsInv, NEW r \in Requests,
           \/ rq[r].at[1] = "answer" \/ rq[r].at[2] \in {"answer", "cleanup"}
    PROVE  kind.adapter = "chi"
  BY KindFacts DEF RequestsInv, RequestInv, FiberInv

(* The timeout of the route is answered through the writer of layer 1.     *)
LEMMA TimeoutAnsweredKeeps ==
    ASSUME NEW k \in ServerKinds, NEW q, ChiInv(k, q), q.at[2] = "answer",
           NEW w, w = Outer(q, "timeout", 408)
    PROVE  /\ ChiInv(k, w) /\ w.at = q.at
           /\ w.writer[2] = "timedOut" /\ w.at[1] = "wait" => w.status = 408
<1>1. CASE q.writer[1] = "timedOut"
  BY <1>1 DEF Outer, ChiInv, WritersInv
<1>2. CASE q.writer[1] # "timedOut"
  <2> DEFINE v == Sealed(q, 1, "written")
  <2>1. v = Sealed(q, 1, "written") /\ 1 \in 1 .. 2 /\ 2 \in 1 .. 2 /\ q \in Request
        /\ "written" \in {"clean", "written", "timedOut"}
        /\ "timeout" \in Writers /\ 408 \in Codes
    BY DEF ChiInv, Writers, Codes
  <2>2. w = Wire(v, "timeout", 408)
    BY <1>2 DEF Outer, Sealed
  <2> HIDE DEF v
  <2>3. /\ v \in Request
        /\ v.at = q.at /\ v.handler = q.handler /\ v.sent = q.sent
        /\ v.seen = q.seen /\ v.failure = q.failure
        /\ v.status = q.status /\ v.by = q.by /\ v.stray = q.stray
        /\ v.writer[1] = "written" /\ v.writer[2] = q.writer[2]
    BY <2>1, WriterFields
  <2>4. /\ w \in Request
        /\ w.at = v.at /\ w.handler = v.handler /\ w.writer = v.writer /\ w.sent = v.sent
        /\ w.seen = v.seen /\ w.failure = v.failure
        /\ w.status = (IF v.status = 0 THEN 408 ELSE v.status)
        /\ w.by = v.by \cup {"timeout"}
        /\ w.stray = (v.stray \/ v.at[1] = "over")
    BY <2>1, <2>2, <2>3, WireFields
  <2>5. q.writer[2] = "timedOut" /\ q.by \subseteq {"timeout"} /\ q.at[1] # "answer"
        /\ q.at[1] # "none"
    BY <1>2, <2>1, ChiFacts, FreshFacts DEF ChiInv, WritersInv, AnswerInv, RestInv
  <2>6. q.status \in {0, 408}
    <3>1. CASE q.by = {}
      <4>1. q.at[1] # "over"
        BY <1>2, <2>1, <3>1, ChiFacts DEF ChiInv, WritersInv
      <4> QED
        BY <3>1, <4>1 DEF ChiInv, RestInv
    <3>2. CASE q.by # {}
      BY <2>5, <3>2 DEF ChiInv, TimeoutInv
    <3> QED
      BY <3>1, <3>2
  <2>7. RestInv(k, w)
    BY <2>3, <2>4, <2>5, <2>6 DEF ChiInv, RestInv
  <2>8. PlacesInv(k, w)
    BY <2>3, <2>4 DEF ChiInv, PlacesInv
  <2>9. WritersInv(k, w) /\ AnswerInv(w)
    BY <2>3, <2>4, <2>5, <2>6 DEF ChiInv, WritersInv, AnswerInv
  <2>10. TimeoutInv(w)
    BY <2>3, <2>4, <2>5, <2>6 DEF ChiInv, TimeoutInv
  <2> QED
    BY <2>3, <2>4, <2>6, <2>7, <2>8, <2>9, <2>10 DEF ChiInv
<1> QED
  BY <1>1, <1>2

LEMMA LayerAnswersKeeps ==
    ASSUME kind \in ServerKinds, RequestsInv, NEW r \in Requests, NEW l \in 1 .. 2,
           LayerAnswers(r, l)
    PROVE  RequestsInv' /\ InFlight' \subseteq InFlight
<1> DEFINE q == rq[r]
           w == AfterTimeout(Write(q, l - 1, "timeout", 408), l)
<1>1. q.at[l] = "answer" /\ UNCHANGED onlyRq /\ rq' = [rq EXCEPT ![r] = w]
  BY DEF LayerAnswers
<1>2. kind.adapter = "chi"
  BY <1>1, FiberPlaces
<1>3. ChiInv(kind, q) /\ q \in Request /\ q.at[1] # "none" /\ 1 \in 1 .. 2 /\ 2 \in 1 .. 2
      /\ "timeout" \in Writers /\ 408 \in Codes /\ "written" \in {"clean", "written", "timedOut"}
  BY <1>1, <1>2, ChiRequest DEF ChiInv, Writers, Codes
<1>4. CASE l = 1
  <2> DEFINE v == Wire(q, "timeout", 408)
  <2>1. v = Wire(q, "timeout", 408) /\ w = LayerReturns(v, 1)
    BY <1>4 DEF AfterTimeout, Write
  <2> HIDE DEF v, w, q
  <2>2. /\ v \in Request
        /\ v.at = q.at /\ v.handler = q.handler /\ v.writer = q.writer /\ v.sent = q.sent
        /\ v.seen = q.seen /\ v.failure = q.failure
        /\ v.status = (IF q.status = 0 THEN 408 ELSE q.status)
        /\ v.by = q.by \cup {"timeout"}
        /\ v.stray = (q.stray \/ q.at[1] = "over")
    BY <1>3, <2>1, WireFields
  <2>3. q.by = {} /\ q.writer[1] = "timedOut" /\ q.at[1] = "answer"
    BY <1>1, <1>3, <1>4 DEF ChiInv, WritersInv, AnswerInv, q
  <2>4. q.status = 0
    BY <1>3, <2>3 DEF ChiInv, RestInv
  <2>5. WritersInv(kind, v)
    BY <1>3, <2>2, <2>3, ChiFacts DEF ChiInv, WritersInv, HttpPlaces
  <2>6. PlacesInv(kind, v)
    BY <1>3, <2>2 DEF ChiInv, PlacesInv
  <2>7. TimeoutInv(v)
    BY <1>3, <2>2, <2>3, <2>4, ChiFacts DEF ChiInv, TimeoutInv
  <2>8. v.writer[1] # "clean"
    BY <2>2, <2>3
  <2>9. ChiInv(kind, w) /\ w.at[1] = "over"
    BY <2>1, <2>2, <2>5, <2>6, <2>7, <2>8, ServeReturnsKeeps
  <2> QED
    BY <1>1, <1>2, <1>3, <2>9, ChiChanges DEF q
<1>5. CASE l = 2
  <2> DEFINE v == Outer(q, "timeout", 408)
  <2>1. v = Outer(q, "timeout", 408) /\ w = AfterTimeout(v, 2)
    BY <1>5 DEF Write
  <2> HIDE DEF v, w
  <2>2. q.at[2] = "answer" /\ q.writer[2] = "timedOut" /\ q.by \subseteq {"timeout"}
    BY <1>1, <1>3, <1>5 DEF ChiInv, WritersInv, AnswerInv
  <2>3. ChiInv(kind, v) /\ v.at = q.at
        /\ (v.writer[2] = "timedOut" /\ v.at[1] = "wait" => v.status = 408)
    BY <1>3, <2>1, <2>2, TimeoutAnsweredKeeps
  <2>4. ChiInv(kind, w) /\ w.at[1] = v.at[1]
    BY <1>2, <2>1, <2>2, <2>3, RouteAfterTimeoutKeeps
  <2>5. w.at[1] = q.at[1]
    BY <2>3, <2>4
  <2> HIDE DEF q
  <2> QED
    BY <1>1, <1>2, <1>3, <2>4, <2>5, ChiChanges DEF q
<1> QED
  BY <1>4, <1>5

LEMMA CleanupKeeps ==
    ASSUME kind \in ServerKinds, RequestsInv, NEW r \in Requests,
           CleanupReceives(r) \/ CleanupExpires(r)
    PROVE  RequestsInv' /\ InFlight' \subseteq InFlight
<1>1. rq[r].at[2] = "cleanup" /\ kind' = kind
  BY DEF CleanupReceives, CleanupExpires, onlyRq
<1>2. kind.adapter = "chi" /\ kind.cleanup
  <2>1. kind.adapter = "chi"
    BY <1>1, FiberPlaces
  <2> QED
    BY <1>1, <2>1, ChiRequest DEF ChiInv, PlacesInv
<1>3. \A x : LayerReturns(x, 2) = Handed(x, "done") /\ LayerPanics(x, 2) = Handed(x, "panic")
  BY DEF LayerReturns, LayerPanics, Handed
<1>4. \/ rq' = [rq EXCEPT ![r] = Handed(@, "done")]
      \/ rq' = [rq EXCEPT ![r] = Handed(@, "panic")]
  BY <1>3 DEF CleanupReceives, CleanupExpires
<1>5. leaks' = leaks \/ (kind.cleanup /\ leaks' = leaks + 1)
  BY <1>2 DEF CleanupReceives, CleanupExpires, onlyRq
<1> QED
  BY <1>1, <1>2, <1>4, <1>5, RouteHandsKeeps
-----------------------------------------------------------------------------
(* A request that arrives, and the requests of fiber.                      *)
Begun(q, at) == [q EXCEPT !.at = at, !.handler = "run"]

LEMMA BegunFields ==
    ASSUME NEW q \in Request, NEW at \in [1 .. 2 -> HttpPlaces], NEW w, w = Begun(q, at)
    PROVE  /\ w \in Request
           /\ w.writer = q.writer /\ w.sent = q.sent /\ w.expired = q.expired
           /\ w.seen = q.seen /\ w.failure = q.failure
           /\ w.status = q.status /\ w.by = q.by /\ w.stray = q.stray
           /\ w.at = at /\ w.handler = "run"
  BY DEF Request, Begun

(* What is written at the end of a request by one goroutine.               *)
LEMMA WireOverFields ==
    ASSUME NEW q \in Request, NEW who \in Writers, NEW code \in Codes,
           q.at[1] # "over", q.status = 0, NEW w, w = Over(Wire(q, who, code))
    PROVE  /\ w \in Request
           /\ w.writer = q.writer /\ w.handler = q.handler /\ w.sent = q.sent
           /\ w.seen = q.seen /\ w.failure = q.failure
           /\ w.by = q.by \cup {who} /\ (w.stray <=> q.stray)
           /\ w.status = code /\ w.at[1] = "over" /\ w.at[2] = q.at[2]
<1> DEFINE v == Wire(q, who, code)
<1>1. v = Wire(q, who, code) /\ w = Over(v)
  OBVIOUS
<1> HIDE DEF v
<1>2. /\ v \in Request
      /\ v.at = q.at /\ v.handler = q.handler /\ v.writer = q.writer /\ v.sent = q.sent
      /\ v.expired = q.expired /\ v.seen = q.seen /\ v.failure = q.failure
      /\ v.status = (IF q.status = 0 THEN code ELSE q.status)
      /\ v.by = q.by \cup {who}
      /\ v.stray = (q.stray \/ q.at[1] = "over")
  BY <1>1, WireFields
<1>3. /\ w \in Request
      /\ w.writer = v.writer /\ w.handler = v.handler /\ w.sent = v.sent
      /\ w.seen = v.seen /\ w.failure = v.failure /\ w.by = v.by /\ w.stray = v.stray
      /\ w.status = (IF v.status = 0 THEN 200 ELSE v.status)
      /\ w.at[1] = "over" /\ w.at[2] = v.at[2]
  BY <1>1, <1>2, OverFields
<1>4. code # 0 /\ v.status = code /\ w.status = code
  BY <1>2, <1>3 DEF Codes
<1>5. w.stray <=> q.stray
  BY <1>2, <1>3
<1> QED
  BY <1>2, <1>3, <1>4, <1>5

LEMMA RefusedKeeps ==
    ASSUME kind \in ServerKinds, NEW what \in {"tooLarge", "badOrigin", "preflight"},
           NEW w, w = Refused(NewRequest, what)
    PROVE  RequestInv(kind, w)
<1> DEFINE code == Screen[what]
           o == Over(Wire(NewRequest, "problem", code))
<1>1. o = Over(Wire(NewRequest, "problem", code))
  OBVIOUS
<1>2. code \in Codes /\ ~(code >= 500) /\ "problem" \in Writers /\ code # 0
  BY DEF Screen, Codes, Writers
<1>3. \/ w = Finish(o, code, FALSE) \/ w = Finish(o, code, TRUE)
      \/ w = o /\ kind.adapter = "fiber"
  <2>1. CASE kind.adapter = "chi"
    BY <2>1 DEF Refused
  <2>2. CASE kind.adapter = "fiber" /\ what = "tooLarge"
    BY <2>2 DEF Refused
  <2>3. CASE kind.adapter = "fiber" /\ what = "badOrigin"
    BY <2>3 DEF Refused
  <2>4. CASE kind.adapter = "fiber" /\ what = "preflight"
    BY <2>4 DEF Refused
  <2> QED
    BY <2>1, <2>2, <2>3, <2>4, KindFacts
<1> HIDE DEF code, o
<1>4. /\ o \in Request
      /\ o.writer = NewRequest.writer /\ o.handler = NewRequest.handler
      /\ o.sent = NewRequest.sent
      /\ o.seen = NewRequest.seen /\ o.failure = NewRequest.failure
      /\ o.by = NewRequest.by \cup {"problem"} /\ (o.stray <=> NewRequest.stray)
      /\ o.status = code /\ o.at[1] = "over" /\ o.at[2] = NewRequest.at[2]
  BY <1>1, <1>2, FreshFacts, WireOverFields
<1>5. /\ o.writer[1] = "clean" /\ o.writer[2] = "clean" /\ o.handler = "none"
      /\ o.seen = 0 /\ o.by = {"problem"} /\ ~o.stray /\ o.at[2] = "none"
  BY <1>4, FreshFacts
<1>6. /\ w \in Request /\ w.at = o.at /\ w.handler = o.handler /\ w.writer = o.writer
      /\ w.by = o.by /\ w.stray = o.stray /\ w.status = o.status
      /\ w.seen = code \/ (w.seen = 0 /\ kind.adapter = "fiber")
  <2>1. CASE w = o /\ kind.adapter = "fiber"
    BY <1>4, <1>5, <2>1
  <2>2. ASSUME NEW e \in BOOLEAN, w = Finish(o, code, e)
        PROVE  /\ w \in Request /\ w.at = o.at /\ w.handler = o.handler /\ w.writer = o.writer
               /\ w.by = o.by /\ w.stray = o.stray /\ w.status = o.status
               /\ w.seen = code
    BY <1>2, <1>4, <2>2, FinishFields
  <2>3. FALSE \in BOOLEAN /\ TRUE \in BOOLEAN
    OBVIOUS
  <2> QED
    BY <1>3, <2>1, <2>2, <2>3
<1>7. RestInv(kind, w)
  BY <1>2, <1>4, <1>5, <1>6 DEF RestInv
<1>8. FiberInv(w)
  BY <1>4, <1>5, <1>6 DEF FiberInv
<1>9. kind.adapter = "chi" => PlacesInv(kind, w)
  BY <1>4, <1>5, <1>6 DEF PlacesInv
<1>10. WritersInv(kind, w) /\ AnswerInv(w) /\ TimeoutInv(w)
  BY <1>4, <1>5, <1>6 DEF WritersInv, AnswerInv, TimeoutInv
<1> QED
  BY <1>6, <1>7, <1>8, <1>9, <1>10 DEF RequestInv

LEMMA BegunKeeps ==
    ASSUME kind \in ServerKinds, NEW f \in [1 .. 2 -> HttpPlaces],
           f[1] = "wait", f[2] \in {"none", "wait"}, ~kind.route => f[2] = "none",
           NEW w, w = Begun(NewRequest, f)
    PROVE  RequestInv(kind, w)
<1> DEFINE q == NewRequest
<1>1. q \in Request /\ w = Begun(q, f)
  BY FreshFacts
<1>2. /\ q.at[1] = "none" /\ q.writer[1] = "clean" /\ q.writer[2] = "clean"
      /\ q.sent[1] = "none" /\ q.sent[2] = "none"
      /\ q.status = 0 /\ q.by = {} /\ q.seen = 0 /\ q.stray = FALSE
  BY FreshFacts
<1> HIDE DEF q
<1>3. /\ w \in Request
      /\ w.writer = q.writer /\ w.sent = q.sent
      /\ w.seen = q.seen /\ w.failure = q.failure
      /\ w.status = q.status /\ w.by = q.by /\ w.stray = q.stray
      /\ w.at = f /\ w.handler = "run"
  BY <1>1, BegunFields
<1>4. RestInv(kind, w)
  BY <1>2, <1>3 DEF RestInv
<1>5. FiberInv(w)
  BY <1>2, <1>3 DEF FiberInv
<1>6. PlacesInv(kind, w)
  BY <1>2, <1>3 DEF PlacesInv
<1>7. WritersInv(kind, w) /\ AnswerInv(w) /\ TimeoutInv(w)
  BY <1>2, <1>3 DEF WritersInv, AnswerInv, TimeoutInv
<1> QED
  BY <1>3, <1>4, <1>5, <1>6, <1>7 DEF RequestInv

LEMMA ArriveKeeps ==
    ASSUME kind \in ServerKinds, RequestsInv, NEW r \in Requests,
           NEW what \in DOMAIN Screen, Arrive(r, what)
    PROVE  RequestsInv' /\ server = "serving"
<1>1. rq[r] = NewRequest
  BY DEF Arrive, RequestsInv, RequestInv, RestInv
<1>2. server = "serving" /\ kind' = kind /\ leaks' = leaks
  BY DEF Arrive, onlyRq
<1>3. what = "passed" \/ what \in {"tooLarge", "badOrigin", "preflight"}
  BY DEF Screen
<1>4. ASSUME NEW w, RequestInv(kind, w), rq' = [rq EXCEPT ![r] = w]
      PROVE  RequestsInv'
  BY <1>2, <1>4, OneChanges
<1>5. CASE what = "passed"
  <2> DEFINE f == [l \in 1 .. 2 |-> IF l \in Layers THEN "wait" ELSE "none"]
             w == Begun(NewRequest, f)
  <2>1. rq' = [rq EXCEPT ![r] = w]
    BY <1>1, <1>5 DEF Arrive, Begun
  <2>2. f \in [1 .. 2 -> HttpPlaces] /\ f[1] = "wait" /\ f[2] \in {"none", "wait"}
        /\ (~kind.route => f[2] = "none")
    BY KindFacts, LayersAre DEF HttpPlaces
  <2>3. w = Begun(NewRequest, f)
    OBVIOUS
  <2> HIDE DEF f, w
  <2>4. RequestInv(kind, w)
    BY <2>2, <2>3, BegunKeeps
  <2> QED
    BY <1>2, <1>4, <2>1, <2>4
<1>6. CASE what \in {"tooLarge", "badOrigin", "preflight"}
  <2> DEFINE w == Refused(NewRequest, what)
  <2>1. rq' = [rq EXCEPT ![r] = w]
    BY <1>1, <1>6 DEF Arrive
  <2>2. w = Refused(NewRequest, what)
    OBVIOUS
  <2> HIDE DEF w
  <2>3. RequestInv(kind, w)
    BY <1>6, <2>2, RefusedKeeps
  <2> QED
    BY <1>2, <1>4, <2>1, <2>3
<1> QED
  BY <1>3, <1>5, <1>6

(* The chain of fiber ends: everything is said in one go.                  *)
HandlerOver(q) == [q EXCEPT !.handler = "over"]

LEMMA HandlerOverFields ==
    ASSUME NEW q \in Request, NEW w, w = HandlerOver(q)
    PROVE  /\ w \in Request
           /\ w.at = q.at /\ w.writer = q.writer /\ w.sent = q.sent
           /\ w.seen = q.seen /\ w.failure = q.failure
           /\ w.status = q.status /\ w.by = q.by /\ w.stray = q.stray
           /\ w.handler = "over"
  BY DEF Request, HandlerOver

LEMMA ChainOver ==
    ASSUME kind \in ServerKinds, kind.adapter = "fiber", NEW q, RequestInv(kind, q),
           q.handler = "run", NEW who \in {"handler", "problem"}, NEW code \in Codes,
           NEW seen \in Codes, seen = code \/ (seen = 500 /\ code = 404),
           NEW e \in BOOLEAN, code >= 500 => e,
           NEW w, w = Finish(Over(Wire(HandlerOver(q), who, code)), seen, e)
    PROVE  RequestInv(kind, w) /\ w.at[1] = "over" /\ q.at[1] # "none"
<1> DEFINE v == HandlerOver(q)
           o == Over(Wire(v, who, code))
<1>1. v = HandlerOver(q) /\ o = Over(Wire(v, who, code)) /\ w = Finish(o, seen, e)
  OBVIOUS
<1> HIDE DEF v, o
<1>2. q \in Request /\ RestInv(kind, q) /\ FiberInv(q) /\ who \in Writers
  BY DEF RequestInv, Writers
<1>3. q.at[1] = "wait" /\ q.status = 0
  BY <1>2 DEF FiberInv
<1>4. /\ v \in Request
      /\ v.at = q.at /\ v.writer = q.writer /\ v.sent = q.sent
      /\ v.status = q.status /\ v.by = q.by /\ v.stray = q.stray
      /\ v.handler = "over"
  BY <1>1, <1>2, HandlerOverFields
<1>5. /\ o \in Request
      /\ o.writer = v.writer /\ o.handler = v.handler /\ o.sent = v.sent
      /\ o.by = v.by \cup {who} /\ (o.stray <=> v.stray)
      /\ o.status = code /\ o.at[1] = "over" /\ o.at[2] = v.at[2]
  BY <1>1, <1>2, <1>3, <1>4, WireOverFields
<1>6. /\ w \in Request
      /\ w.at = o.at /\ w.handler = o.handler /\ w.writer = o.writer /\ w.sent = o.sent
      /\ w.status = o.status /\ w.by = o.by /\ w.stray = o.stray
      /\ w.seen = seen /\ w.failure = (e \/ seen >= 500)
  BY <1>1, <1>5, FinishFields
<1>7. code # 0
  BY DEF Codes
<1>8. RestInv(kind, w)
  BY <1>5, <1>6, <1>7 DEF RestInv
<1>9. FiberInv(w)
  BY <1>2, <1>4, <1>5, <1>6 DEF FiberInv
<1> QED
  BY <1>3, <1>5, <1>6, <1>8, <1>9 DEF RequestInv

LEMMA ChainEndsKeeps ==
    ASSUME kind \in ServerKinds, RequestsInv, NEW r \in Requests,
           NEW how \in {"ok", "panic", "plain", "fiber", "wrapped", "deadline"},
           ChainEnds(r, how)
    PROVE  RequestsInv' /\ InFlight' \subseteq InFlight
<1> DEFINE q == rq[r]
<1>1. kind.adapter = "fiber" /\ q.handler = "run" /\ kind' = kind /\ leaks' = leaks
      /\ RequestInv(kind, q)
  BY DEF ChainEnds, onlyRq, RequestsInv
<1>2. ASSUME NEW who \in {"handler", "problem"}, NEW code \in Codes, NEW seen \in Codes,
             seen = code \/ (seen = 500 /\ code = 404), NEW e \in BOOLEAN, code >= 500 => e,
             rq' = [rq EXCEPT ![r] = Finish(Over(Wire(HandlerOver(q), who, code)), seen, e)]
      PROVE  RequestsInv' /\ InFlight' \subseteq InFlight
  <2> DEFINE w == Finish(Over(Wire(HandlerOver(q), who, code)), seen, e)
  <2>1. w = Finish(Over(Wire(HandlerOver(q), who, code)), seen, e)
        /\ rq' = [rq EXCEPT ![r] = w]
    BY <1>2
  <2> HIDE DEF w
  <2>2. RequestInv(kind, w) /\ w.at[1] = "over" /\ q.at[1] # "none"
    BY <1>1, <1>2, <2>1, ChainOver
  <2> QED
    BY <1>1, <2>1, <2>2, OneChanges
<1>3. CASE how = "ok"
  <2>1. rq' = [rq EXCEPT ![r] = Finish(Over(Wire(HandlerOver(q), "handler", 200)), 200, FALSE)]
    BY <1>3 DEF ChainEnds, HandlerOver
  <2>2. 200 \in Codes /\ FALSE \in BOOLEAN /\ "handler" \in {"handler", "problem"}
        /\ ~(200 >= 500)
    BY DEF Codes
  <2> QED
    BY <1>2, <2>1, <2>2, ZenonT(60)
<1>4. CASE how = "panic"
  <2>1. rq' = [rq EXCEPT ![r] = Finish(Over(Wire(HandlerOver(q), "problem", 500)), 500, TRUE)]
    BY <1>4 DEF ChainEnds, HandlerOver
  <2> DEFINE e == TRUE
             code == 500
             who == "problem"
  <2>2. /\ rq' = [rq EXCEPT ![r] = Finish(Over(Wire(HandlerOver(q), who, code)), code, e)]
        /\ code \in Codes /\ e \in BOOLEAN /\ e /\ who \in {"handler", "problem"}
    BY <2>1 DEF Codes
  <2> HIDE DEF e, code, who
  <2> QED
    BY <1>2, <2>2
<1>5. CASE how \notin {"ok", "panic"}
  <2>1. rq' = [rq EXCEPT ![r] = Finish(Over(Wire(HandlerOver(q), "problem", Problem(how))),
                                       FiberStatusCode(how), TRUE)]
    BY <1>5 DEF ChainEnds, HandlerOver
  <2>2. Problem(how) \in Codes /\ FiberStatusCode(how) \in Codes /\ TRUE \in BOOLEAN
        /\ "problem" \in {"handler", "problem"}
        /\ \/ FiberStatusCode(how) = Problem(how)
           \/ FiberStatusCode(how) = 500 /\ Problem(how) = 404
    BY DEF Codes, Problem, FiberStatusCode
  <2> DEFINE code == Problem(how)
             seen == FiberStatusCode(how)
             e == TRUE
             who == "problem"
             w == Finish(Over(Wire(HandlerOver(q), who, code)), seen, e)
  <2>3. /\ code \in Codes /\ seen \in Codes /\ (seen = code \/ (seen = 500 /\ code = 404))
        /\ e \in BOOLEAN /\ (code >= 500 => e) /\ who \in {"handler", "problem"}
    BY <2>2
  <2>4. rq' = [rq EXCEPT ![r] = w]
        /\ w = Finish(Over(Wire(HandlerOver(q), who, code)), seen, e)
    BY <2>1
  <2> HIDE DEF code, seen, e, who, w, q
  <2>5. RequestInv(kind, w) /\ w.at[1] = "over" /\ q.at[1] # "none"
    BY <1>1, <2>3, <2>4, ChainOver
  <2> QED
    BY <1>1, <2>4, <2>5, OneChanges DEF q
<1> QED
  BY <1>3, <1>4, <1>5

RequestStep(r) ==
    \/ \E what \in DOMAIN Screen : Arrive(r, what)
    \/ \E l \in 1 .. 2 :
           Expire(r, l) \/ LayerReceives(r, l) \/ LayerTimesOut(r, l) \/ LayerAnswers(r, l)
    \/ HandlerWrites(r) \/ HandlerReturns(r) \/ HandlerPanics(r)
    \/ \E err \in {"plain", "fiber"} : HandlerFails(r, err)
    \/ CleanupReceives(r) \/ CleanupExpires(r)
    \/ \E how \in {"ok", "panic", "plain", "fiber", "wrapped", "deadline"} : ChainEnds(r, how)

theOthers == <<kind, server, once, stop, verdict, provider, flush>>

LEMMA RequestStepKeeps ==
    ASSUME kind \in ServerKinds, RequestsInv, NEW r \in Requests, RequestStep(r)
    PROVE  /\ RequestsInv' /\ UNCHANGED theOthers
           /\ server = "serving" \/ InFlight' \subseteq InFlight
<1>1. UNCHANGED theOthers
  BY DEF RequestStep, Arrive, Expire, LayerReceives, LayerTimesOut, LayerAnswers,
         HandlerWrites, HandlerReturns, HandlerPanics, HandlerFails, CleanupReceives,
         CleanupExpires, ChainEnds, onlyRq, theOthers
<1>2. CASE \E what \in DOMAIN Screen : Arrive(r, what)
  BY <1>1, <1>2, ArriveKeeps
<1>3. CASE \E l \in 1 .. 2 : Expire(r, l)
  BY <1>1, <1>3, ExpireKeeps
<1>4. CASE \E l \in 1 .. 2 : LayerReceives(r, l)
  BY <1>1, <1>4, LayerReceivesKeeps
<1>5. CASE \E l \in 1 .. 2 : LayerTimesOut(r, l)
  BY <1>1, <1>5, LayerTimesOutKeeps
<1>6. CASE \E l \in 1 .. 2 : LayerAnswers(r, l)
  BY <1>1, <1>6, LayerAnswersKeeps
<1>7. CASE \/ HandlerWrites(r) \/ HandlerReturns(r) \/ HandlerPanics(r)
           \/ \E err \in {"plain", "fiber"} : HandlerFails(r, err)
  BY <1>1, <1>7, HandlerKeeps
<1>8. CASE CleanupReceives(r) \/ CleanupExpires(r)
  BY <1>1, <1>8, CleanupKeeps
<1>9. CASE \E how \in {"ok", "panic", "plain", "fiber", "wrapped", "deadline"} :
               ChainEnds(r, how)
  BY <1>1, <1>9, ChainEndsKeeps
<1> QED
  BY <1>2, <1>3, <1>4, <1>5, <1>6, <1>7, <1>8, <1>9 DEF RequestStep
-----------------------------------------------------------------------------
(* Shutdown and the provider's coordinator.                                *)
LEMMA CallersAre ==
    /\ Main \notin Callers
    /\ \A c \in Callers \cup {Main} : c # NoCaller /\ c # "done"
<1> DEFINE two == {Starter, Stopper}
<1>1. IsFiniteSet({}) /\ Cardinality({}) = 0
  BY FS_EmptySet
<1>2. {Starter} = {} \cup {Starter} /\ two = {Starter} \cup {Stopper}
  OBVIOUS
<1>3. IsFiniteSet({Starter}) /\ Cardinality({Starter}) = 1
  BY FS_Singleton
<1>4. Cardinality(two) \in {1, 2}
  BY <1>2, <1>3, FS_AddElement
<1>5. Main \in two => {Starter, Stopper, Main} = two
  OBVIOUS
<1>6. Main \notin two
  BY <1>4, <1>5, HttpAssumption DEF HttpAssumption
<1> QED
  BY <1>6, HttpAssumption DEF HttpAssumption, Callers

LEMMA RequestStepSpares ==
    ASSUME OnceInv, ProviderInv, CallersTypes, UNCHANGED theOthers,
           server = "serving" \/ InFlight' \subseteq InFlight
    PROVE  OnceInv' /\ ProviderInv' /\ CallersTypes'
<1>1. CallersTypes' /\ ProviderInv'
  BY DEF CallersTypes, ProviderInv, theOthers
<1>2. OnceInv'
  BY DEF OnceInv, theOthers
<1> QED
  BY <1>1, <1>2

CallerStep(c) == Shutdown(c) \/ Enter(c) \/ Skip(c) \/ Drain(c) \/ ShutdownReturns(c)

theRequests == <<kind, rq, leaks>>

LEMMA StartKeeps ==
    ASSUME OnceInv, ProviderInv, CallersTypes, Start \/ ListenFails
    PROVE  OnceInv' /\ ProviderInv' /\ CallersTypes' /\ UNCHANGED theRequests
<1>1. CallersTypes' /\ ProviderInv' /\ UNCHANGED theRequests
  BY DEF CallersTypes, ProviderInv, Start, ListenFails, theRequests, Callers
<1>2. OnceInv'
  BY DEF OnceInv, CallersTypes, Start, ListenFails, InFlight, Callers
<1> QED
  BY <1>1, <1>2

LEMMA CallerStepKeeps ==
    ASSUME OnceInv, ProviderInv, CallersTypes, NEW c \in Callers, CallerStep(c)
    PROVE  OnceInv' /\ ProviderInv' /\ CallersTypes' /\ UNCHANGED theRequests
<1>1. UNCHANGED theRequests /\ ProviderInv' /\ flush' = flush /\ InFlight' = InFlight
      /\ UNCHANGED provider
  BY DEF CallerStep, ProviderInv, Shutdown, Enter, Skip, Drain, ShutdownReturns, theRequests,
         InFlight
<1>2. CallersTypes'
  BY DEF CallersTypes, CallerStep, Shutdown, Enter, Skip, Drain, ShutdownReturns, theRequests,
         InFlight
<1>3. CASE Shutdown(c)
  BY <1>1, <1>3 DEF OnceInv, CallersTypes, Shutdown
<1>4. CASE Enter(c)
  <2>1. once = NoCaller /\ once' = c /\ server' = "closed" /\ verdict' = verdict
        /\ stop[c] = "entered" /\ stop'[c] = "drain"
        /\ \A d \in Callers : d # c => stop'[d] = stop[d]
    BY <1>4 DEF CallersTypes, Enter
  <2>2. \A d \in Callers : d # NoCaller
    BY CallersAre
  <2>3. NoCaller # "done"
    BY DEF NoCaller
  <2> QED
    BY <1>1, <1>2, <2>1, <2>2, <2>3 DEF OnceInv
<1>5. CASE Skip(c)
  BY <1>1, <1>5 DEF OnceInv, CallersTypes, Skip
<1>6. CASE Drain(c)
  BY <1>1, <1>6 DEF OnceInv, CallersTypes, Drain
<1>7. CASE ShutdownReturns(c)
  BY <1>1, <1>7, CallersAre DEF OnceInv, CallersTypes, ShutdownReturns
<1> QED
  BY <1>1, <1>2, <1>3, <1>4, <1>5, <1>6, <1>7 DEF CallerStep

ProviderStep(c) ==
    \/ BeginShutdown(c) \/ FinishShutdown(c) \/ AlreadyStopped(c)
    \/ \E fails \in BOOLEAN : Execute(c, fails)

LEMMA ProviderStepKeeps ==
    ASSUME OnceInv, ProviderInv, CallersTypes, NEW c \in Callers \cup {Main}, ProviderStep(c)
    PROVE  OnceInv' /\ ProviderInv' /\ CallersTypes' /\ UNCHANGED theRequests
<1>1. UNCHANGED onlyFlush /\ InFlight' = InFlight
  BY DEF ProviderStep, BeginShutdown, FinishShutdown, AlreadyStopped, Execute, onlyFlush,
         InFlight
<1>2. UNCHANGED theRequests
  BY <1>1 DEF onlyFlush, theRequests
<1>3. ProviderSteps \in Nat
  BY HttpAssumption DEF HttpAssumption
<1>4. CASE BeginShutdown(c)
  <2>1. CallersTypes'
    BY <1>1, <1>4 DEF CallersTypes, BeginShutdown, onlyFlush
  <2>2. ProviderInv'
    BY <1>4, CallersAre DEF ProviderInv, CallersTypes, BeginShutdown
  <2>3. OnceInv'
    BY <1>1, <1>4, CallersAre DEF OnceInv, CallersTypes, BeginShutdown, onlyFlush
  <2> QED
    BY <1>2, <2>1, <2>2, <2>3
<1>5. CASE FinishShutdown(c)
  <2>1. CallersTypes'
    BY <1>1, <1>5 DEF CallersTypes, FinishShutdown, onlyFlush
  <2>2. ProviderInv'
    BY <1>5, CallersAre DEF ProviderInv, CallersTypes, FinishShutdown
  <2>3. OnceInv'
    BY <1>1, <1>5, CallersAre DEF OnceInv, CallersTypes, FinishShutdown, onlyFlush
  <2> QED
    BY <1>2, <2>1, <2>2, <2>3
<1>6. CASE AlreadyStopped(c)
  <2>1. CallersTypes'
    BY <1>1, <1>6 DEF CallersTypes, AlreadyStopped, onlyFlush
  <2>2. ProviderInv'
    BY <1>6, CallersAre DEF ProviderInv, CallersTypes, AlreadyStopped
  <2>3. OnceInv'
    BY <1>1, <1>6, CallersAre DEF OnceInv, CallersTypes, AlreadyStopped, onlyFlush
  <2> QED
    BY <1>2, <2>1, <2>2, <2>3
<1>7. ASSUME NEW fails \in BOOLEAN, Execute(c, fails)
      PROVE  OnceInv' /\ ProviderInv' /\ CallersTypes' /\ UNCHANGED theRequests
  <2>1. CallersTypes'
    <3> DEFINE more == provider.done + 1
               failed == provider.failed \/ fails
    <3>1. more \in 0 .. 2 * ProviderSteps /\ failed \in BOOLEAN
      BY <1>3, <1>7 DEF CallersTypes, Execute
    <3>2. provider' = [provider EXCEPT !.done = more, !.failed = failed] /\ flush' = flush
      BY <1>7 DEF Execute
    <3> HIDE DEF more, failed
    <3>3. provider' \in [by : Callers \cup {Main, NoCaller}, done : 0 .. 2 * ProviderSteps,
                         failed : BOOLEAN, over : BOOLEAN]
      BY <3>1, <3>2 DEF CallersTypes
    <3> QED
      BY <1>1, <3>2, <3>3 DEF CallersTypes, onlyFlush
  <2>2. ProviderInv'
    BY <1>3, <1>7, CallersAre DEF ProviderInv, CallersTypes, Execute
  <2>3. OnceInv'
    BY <1>1, <1>7 DEF OnceInv, Execute, onlyFlush
  <2> QED
    BY <1>2, <2>1, <2>2, <2>3
<1> QED
  BY <1>4, <1>5, <1>6, <1>7 DEF ProviderStep
-----------------------------------------------------------------------------
LEMMA HttpStarts ==
    ASSUME NEW k \in ServerKinds, HttpStart(k)
    PROVE  HttpInv
<1>1. \A r \in Requests : rq[r] = NewRequest
  BY DEF HttpStart
<1>2. RestInv(kind, NewRequest) /\ FiberInv(NewRequest) /\ PlacesInv(kind, NewRequest)
      /\ WritersInv(kind, NewRequest) /\ AnswerInv(NewRequest) /\ TimeoutInv(NewRequest)
  BY FreshFacts DEF RestInv, FiberInv, PlacesInv, WritersInv, AnswerInv, TimeoutInv
<1>3. RequestInv(kind, NewRequest)
  BY <1>2, FreshFacts DEF RequestInv
<1>4. rq \in [Requests -> Request]
  BY FreshFacts DEF HttpStart
<1>5. RequestsInv
  BY <1>1, <1>3, <1>4 DEF RequestsInv, HttpStart
<1>6. ProviderSteps \in Nat /\ 0 \in 0 .. 2 * ProviderSteps
  BY HttpAssumption DEF HttpAssumption
<1>7. CallersTypes
  BY <1>6 DEF CallersTypes, HttpStart
<1>8. OnceInv
  BY DEF OnceInv, HttpStart
<1>9. ProviderInv
  BY DEF ProviderInv, HttpStart
<1> QED
  BY <1>5, <1>7, <1>8, <1>9 DEF HttpInv, HttpStart

LEMMA HttpNextKeeps ==
    ASSUME HttpInv, HttpNext
    PROVE  HttpInv'
<1>1. kind \in ServerKinds /\ RequestsInv /\ CallersTypes /\ OnceInv /\ ProviderInv
  BY DEF HttpInv
<1>2. ASSUME UNCHANGED theRequests, OnceInv' /\ ProviderInv' /\ CallersTypes'
      PROVE  HttpInv'
  BY <1>1, <1>2 DEF HttpInv, RequestsInv, theRequests
<1>3. CASE Start \/ ListenFails
  BY <1>1, <1>2, <1>3, StartKeeps
<1>4. CASE \E r \in Requests : RequestStep(r)
  <2>1. RequestsInv' /\ UNCHANGED theOthers
        /\ (server = "serving" \/ InFlight' \subseteq InFlight)
    BY <1>1, <1>4, RequestStepKeeps
  <2>2. OnceInv' /\ ProviderInv' /\ CallersTypes'
    BY <1>1, <2>1, RequestStepSpares
  <2> QED
    BY <1>1, <2>1, <2>2 DEF HttpInv, theOthers
<1>5. CASE \E c \in Callers : CallerStep(c)
  BY <1>1, <1>2, <1>5, CallerStepKeeps
<1>6. CASE \E c \in Callers \cup {Main} : ProviderStep(c)
  BY <1>1, <1>2, <1>6, ProviderStepKeeps
<1> QED
  BY <1>3, <1>4, <1>5, <1>6 DEF HttpNext, RequestStep, CallerStep, ProviderStep

LEMMA HttpRests ==
    ASSUME HttpInv, UNCHANGED httpVars
    PROVE  HttpInv'
<1>1. kind' = kind /\ rq' = rq /\ leaks' = leaks
  BY DEF httpVars
<1>2. RequestsInv'
  BY <1>1 DEF HttpInv, RequestsInv
<1>3. CallersTypes' /\ OnceInv' /\ ProviderInv'
  BY DEF HttpInv, CallersTypes, OnceInv, ProviderInv, InFlight, httpVars
<1> QED
  BY <1>1, <1>2, <1>3 DEF HttpInv

(* What the invariant says of one response, of the telemetry and of        *)
(* Shutdown.                                                               *)
LEMMA HttpOneResponse ==
    ASSUME HttpInv
    PROVE  OneResponse
<1>1. ASSUME NEW r \in Requests
      PROVE  /\ "timeout" \in rq[r].by => rq[r].by = {"timeout"} /\ rq[r].status = 408
             /\ rq[r].stray => \E l \in 1 .. 2 : rq[r].writer[l] = "written"
  <2>1. RequestInv(kind, rq[r]) /\ kind.adapter \in {"chi", "fiber"}
    BY KindFacts DEF HttpInv, RequestsInv
  <2>2. CASE kind.adapter = "chi"
    BY <2>1, <2>2 DEF RequestInv, TimeoutInv
  <2>3. CASE kind.adapter = "fiber"
    BY <2>1, <2>3 DEF RequestInv, FiberInv
  <2> QED
    BY <2>1, <2>2, <2>3
<1> QED
  BY <1>1 DEF OneResponse

LEMMA HttpTelemetryIsTrue ==
    ASSUME HttpInv
    PROVE  TelemetryIsTrue
  BY DEF HttpInv, RequestsInv, RequestInv, RestInv, TelemetryIsTrue

LEMMA HttpStopIsTrue ==
    ASSUME HttpInv
    PROVE  StopIsTrue
<1>1. ASSUME NEW c \in Callers, stop[c] = "over", verdict[c] = "ok"
      PROVE  once = "done"
  BY <1>1 DEF HttpInv, OnceInv
<1>2. ASSUME NEW c \in Callers, stop[c] = "over", verdict[c] = "ok", flush[c] # "none"
      PROVE  InFlight = {} /\ provider.done = 2 * ProviderSteps /\ ~provider.failed
  <2>1. flush[c] = "ok" /\ InFlight = {}
    BY <1>2 DEF HttpInv, OnceInv
  <2>2. provider.over /\ ((flush[c] = "error") = provider.failed)
    BY <2>1 DEF HttpInv, ProviderInv
  <2>3. ~provider.failed
    BY <2>1, <2>2 DEF HttpInv, CallersTypes
  <2> QED
    BY <2>1, <2>2, <2>3 DEF HttpInv, ProviderInv
<1>3. ASSUME NEW c \in Callers \cup {Main}, flush[c] \in {"ok", "error"}
      PROVE  provider.done = 2 * ProviderSteps /\ ((flush[c] = "error") = provider.failed)
  BY <1>3 DEF HttpInv, ProviderInv
<1> QED
  BY <1>1, <1>2, <1>3 DEF StopIsTrue
-----------------------------------------------------------------------------
(* A leak is counted once for a request: when its wait after a timeout is  *)
(* over, which nothing undoes.                                             *)
Waited(served) == {r \in Requests : served[r].at[2] = "over"}

LeaksBounds == leaks <= Cardinality(Waited(rq))

LEMMA ServedStaysWaited ==
    ASSUME NEW q \in Request, NEW w,
           w = LayerReturns(q, 1) \/ (w = LayerPanics(q, 1))
    PROVE  w.at[2] = q.at[2]
<1>1. CASE w = LayerReturns(q, 1)
  <2> DEFINE o == Over(q)
  <2>1. o = Over(q) /\ w = Finish(o, o.status, FALSE)
    BY <1>1 DEF LayerReturns, ServeHTTPReturns
  <2> HIDE DEF o
  <2>2. /\ o \in Request /\ o.at[2] = q.at[2]
        /\ o.status = IF q.status = 0 THEN 200 ELSE q.status
    BY <2>1, OverFields
  <2>3. o.status \in Codes
    BY <2>2, ChiFacts DEF Codes
  <2> DEFINE code == o.status
             e == FALSE
  <2>4. code \in Codes /\ e \in BOOLEAN /\ w = Finish(o, code, e)
    BY <2>1, <2>3
  <2> HIDE DEF code, e
  <2> QED
    BY <2>2, <2>4, FinishFields
<1>2. CASE w = LayerPanics(q, 1)
  <2> DEFINE v == IF q.status = 0 THEN Wire(q, "problem", 500) ELSE q
             o == Over(v)
  <2>1. "problem" \in Writers /\ 500 \in Codes
    BY DEF Writers, Codes
  <2>2. v \in Request /\ v.at = q.at
    BY <2>1, WireFields
  <2>3. o = Over(v) /\ w = Finish(o, 500, TRUE)
    BY <1>2 DEF LayerPanics
  <2> HIDE DEF v, o
  <2>4. o \in Request /\ o.at[2] = v.at[2]
    BY <2>2, <2>3, OverFields
  <2> DEFINE code == 500
             e == TRUE
  <2>6. code \in Codes /\ e \in BOOLEAN /\ w = Finish(o, code, e)
    BY <2>1, <2>3
  <2> HIDE DEF code, e
  <2>5. w.at = o.at
    BY <2>4, <2>6, FinishFields
  <2> QED
    BY <2>2, <2>4, <2>5
<1> QED
  BY <1>1, <1>2

(* One request's step: the rest stay as they are.                          *)
LEMMA WaitedStays ==
    ASSUME kind \in ServerKinds, RequestsInv, NEW r \in Requests, RequestStep(r)
    PROVE  /\ rq[r].at[2] = "over" => rq'[r].at[2] = "over"
           /\ \A s \in Requests \ {r} : rq'[s] = rq[s]
<1> DEFINE q == rq[r]
           l == IF kind.route THEN 2 ELSE 1
<1>1. /\ q \in Request /\ RequestInv(kind, q) /\ rq \in [Requests -> Request]
      /\ 1 \in 1 .. 2 /\ 2 \in 1 .. 2 /\ "over" \in HttpPlaces
  BY DEF RequestsInv, HttpPlaces
<1>2. ASSUME NEW w, rq' = [rq EXCEPT ![r] = w], q.at[2] = "over" => w.at[2] = "over"
      PROVE  /\ rq[r].at[2] = "over" => rq'[r].at[2] = "over"
             /\ \A s \in Requests \ {r} : rq'[s] = rq[s]
  BY <1>1, <1>2
<1>3. CASE \E what \in DOMAIN Screen : Arrive(r, what)
  <2>1. q.at[1] = "none" /\ \E w : rq' = [rq EXCEPT ![r] = w]
    BY <1>3 DEF Arrive
  <2>2. q.at[2] # "over"
    BY <1>1, <2>1, FreshFacts DEF RequestInv, RestInv
  <2> QED
    BY <1>2, <2>1, <2>2
<1>4. CASE \E m \in 1 .. 2 : Expire(r, m)
  <2>1. PICK m \in 1 .. 2 : Expire(r, m)
    BY <1>4
  <2> DEFINE x == [n \in 1 .. 2 |-> q.expired[n] \/ n >= m]
             w == [q EXCEPT !.expired = x]
  <2>2. rq' = [rq EXCEPT ![r] = w]
    BY <2>1 DEF Expire
  <2>3. w.at = q.at
    <3> HIDE DEF x, q
    <3> QED
      BY <1>1 DEF Request
  <2> HIDE DEF w
  <2> QED
    BY <1>2, <2>2, <2>3
<1>5. CASE \E m \in 1 .. 2 : LayerReceives(r, m)
  <2>1. PICK m \in 1 .. 2 : LayerReceives(r, m)
    BY <1>5
  <2>2. PICK w \in {LayerReturns(q, m), LayerPanics(q, m)} : rq' = [rq EXCEPT ![r] = w]
    BY <2>1 DEF LayerReceives
  <2>3. q.at[m] = "wait"
    BY <2>1 DEF LayerReceives
  <2>4. m = 1 => w.at[2] = q.at[2]
    BY <1>1, <2>2, ServedStaysWaited
  <2>5. m = 1 \/ m = 2
    OBVIOUS
  <2> QED
    BY <1>2, <2>2, <2>3, <2>4, <2>5
<1>6. CASE \E m \in 1 .. 2 : LayerTimesOut(r, m)
  <2>1. PICK m \in 1 .. 2 : LayerTimesOut(r, m)
    BY <1>6
  <2> DEFINE v == [q EXCEPT !.writer[m] = "timedOut", !.at[m] = "answer"]
  <2>2. PICK w \in {v, AfterTimeout(q, m)} : rq' = [rq EXCEPT ![r] = w]
    BY <2>1 DEF LayerTimesOut
  <2>3. q.at[m] = "wait"
    BY <2>1 DEF LayerTimesOut
  <2>4. ASSUME m = 1
        PROVE  v.at[2] = q.at[2]
    <3> HIDE DEF q
    <3> QED
      BY <1>1, <2>4 DEF Request
  <2>5. m = 1 => AfterTimeout(q, m) = LayerReturns(q, 1)
    BY DEF AfterTimeout
  <2>6. ASSUME m = 1
        PROVE  w.at[2] = q.at[2]
    <3>1. CASE w = v
      BY <2>4, <2>6, <3>1
    <3>2. CASE w = AfterTimeout(q, m)
      <4>1. w = LayerReturns(q, 1)
        BY <2>5, <2>6, <3>2
      <4> QED
        BY <1>1, <4>1, ServedStaysWaited
    <3> QED
      BY <2>2, <3>1, <3>2
  <2>7. m = 1 \/ m = 2
    OBVIOUS
  <2> QED
    BY <1>2, <2>2, <2>3, <2>6, <2>7
<1>7. CASE \E m \in 1 .. 2 : LayerAnswers(r, m)
  <2>1. PICK m \in 1 .. 2 : LayerAnswers(r, m)
    BY <1>7
  <2> DEFINE w == AfterTimeout(Write(q, m - 1, "timeout", 408), m)
  <2>2. q.at[m] = "answer" /\ rq' = [rq EXCEPT ![r] = w]
    BY <2>1 DEF LayerAnswers
  <2>3. ASSUME m = 1
        PROVE  w.at[2] = q.at[2]
    <3> DEFINE v == Wire(q, "timeout", 408)
    <3>1. v = Wire(q, "timeout", 408) /\ w = LayerReturns(v, 1)
      BY <2>3 DEF AfterTimeout, Write
    <3> HIDE DEF v, w
    <3>2. v \in Request /\ v.at = q.at
      <4>1. "timeout" \in Writers /\ 408 \in Codes
        BY DEF Writers, Codes
      <4> QED
        BY <1>1, <3>1, <4>1, WireFields
    <3> QED
      BY <3>1, <3>2, ServedStaysWaited
  <2>4. m = 1 \/ m = 2
    OBVIOUS
  <2> HIDE DEF w
  <2> QED
    BY <1>2, <2>2, <2>3, <2>4
<1>8. ASSUME kind.adapter = "chi", q.handler = "run"
      PROVE  /\ ChiInv(kind, q) /\ q.at[1] # "none" /\ Inner = l /\ kind.route \in BOOLEAN
  BY <1>8, ChiRequest, KindFacts
<1>9. ASSUME kind.adapter = "chi", q.handler = "run", NEW how \in {"done", "panic"},
             NEW v, ChiInv(kind, v), v.at = q.at, v.handler = "run",
             rq' = [rq EXCEPT ![r] = HandlerEnds(v, how)]
      PROVE  /\ rq[r].at[2] = "over" => rq'[r].at[2] = "over"
             /\ \A s \in Requests \ {r} : rq'[s] = rq[s]
  <2> DEFINE w == Finished(v, l, how)
  <2>1. rq' = [rq EXCEPT ![r] = w]
    BY <1>8, <1>9 DEF HandlerEnds, Finished
  <2>2. w = Finished(v, IF kind.route THEN 2 ELSE 1, how)
    OBVIOUS
  <2> HIDE DEF w
  <2>3. w.at = v.at
    BY <1>8, <1>9, <2>2, EndsKeeps
  <2> QED
    BY <1>2, <1>9, <2>1, <2>3
<1>10. CASE HandlerWrites(r)
  <2> DEFINE w == Write(q, l, "handler", 200)
  <2>1. kind.adapter = "chi" /\ q.handler = "run"
    BY <1>10 DEF HandlerWrites
  <2>2. rq' = [rq EXCEPT ![r] = w]
    BY <1>8, <1>10, <2>1 DEF HandlerWrites
  <2>3. w = Write(q, IF kind.route THEN 2 ELSE 1, "handler", 200)
        /\ 200 \in Codes /\ "handler" \in {"handler", "problem"}
    BY DEF Codes
  <2> HIDE DEF w
  <2>4. w.at = q.at
    BY <1>8, <2>1, <2>3, WriteKeeps
  <2> QED
    BY <1>2, <2>2, <2>4
<1>11. CASE HandlerReturns(r) \/ HandlerPanics(r)
  <2>1. kind.adapter = "chi" /\ q.handler = "run"
    BY <1>11 DEF HandlerReturns, HandlerPanics
  <2>2. PICK how \in {"done", "panic"} : rq' = [rq EXCEPT ![r] = HandlerEnds(q, how)]
    BY <1>11 DEF HandlerReturns, HandlerPanics
  <2> HIDE DEF q
  <2> QED
    BY <1>8, <1>9, <2>1, <2>2
<1>12. CASE \E err \in {"plain", "fiber"} : HandlerFails(r, err)
  <2>1. PICK err \in {"plain", "fiber"} : HandlerFails(r, err)
    BY <1>12
  <2> DEFINE code == Problem(err)
             v == Write(q, l, "problem", code)
  <2>2. kind.adapter = "chi" /\ q.handler = "run"
    BY <2>1 DEF HandlerFails
  <2>3. rq' = [rq EXCEPT ![r] = HandlerEnds(v, "done")]
    BY <1>8, <2>1, <2>2 DEF HandlerFails
  <2>4. code \in Codes
    BY DEF Problem, Codes
  <2> HIDE DEF code
  <2>5. v = Write(q, IF kind.route THEN 2 ELSE 1, "problem", code)
        /\ "problem" \in {"handler", "problem"} /\ "done" \in {"done", "panic"}
    OBVIOUS
  <2> HIDE DEF v, q
  <2>6. ChiInv(kind, v) /\ v.at = q.at /\ v.handler = q.handler
    BY <1>8, <2>2, <2>4, <2>5, WriteKeeps
  <2> QED
    BY <1>9, <2>2, <2>3, <2>5, <2>6
<1>13. CASE CleanupReceives(r) \/ CleanupExpires(r)
  <2>1. q.at[2] = "cleanup" /\ \E w : rq' = [rq EXCEPT ![r] = w]
    BY <1>13 DEF CleanupReceives, CleanupExpires
  <2> QED
    BY <1>2, <2>1
<1>14. ASSUME kind.adapter = "fiber", q.handler = "run",
              NEW who \in Writers, NEW code \in Codes, NEW seen \in Codes, NEW e \in BOOLEAN,
              rq' = [rq EXCEPT ![r] = Finish(Over(Wire(HandlerOver(q), who, code)), seen, e)]
       PROVE  /\ rq[r].at[2] = "over" => rq'[r].at[2] = "over"
              /\ \A s \in Requests \ {r} : rq'[s] = rq[s]
  <2> DEFINE v == HandlerOver(q)
             o == Over(Wire(v, who, code))
             w == Finish(o, seen, e)
  <2>1. v \in Request /\ v.at = q.at /\ v.status = q.status
    BY <1>1, HandlerOverFields
  <2>2. q.status = 0 /\ q.at[1] = "wait"
    BY <1>1, <1>14 DEF RequestInv, FiberInv
  <2>3. rq' = [rq EXCEPT ![r] = w]
    BY <1>14
  <2> HIDE DEF v, q
  <2>4. o \in Request /\ o.at[2] = v.at[2]
    BY <1>14, <2>1, <2>2, WireOverFields
  <2>5. w = Finish(o, seen, e)
    OBVIOUS
  <2> HIDE DEF o, w
  <2>6. w.at = o.at
    BY <1>14, <2>4, <2>5, FinishFields
  <2> QED
    BY <1>2, <2>1, <2>3, <2>4, <2>6
<1>15. CASE \E how \in {"ok", "panic", "plain", "fiber", "wrapped", "deadline"} :
                ChainEnds(r, how)
  <2>1. PICK how \in {"ok", "panic", "plain", "fiber", "wrapped", "deadline"} :
                 ChainEnds(r, how)
    BY <1>15
  <2>2. kind.adapter = "fiber" /\ q.handler = "run"
    BY <2>1 DEF ChainEnds
  <2> DEFINE who == IF how = "ok" THEN "handler" ELSE "problem"
             code == IF how = "ok" THEN 200 ELSE IF how = "panic" THEN 500 ELSE Problem(how)
             seen == IF how = "ok" THEN 200 ELSE IF how = "panic" THEN 500
                     ELSE FiberStatusCode(how)
             e == how # "ok"
  <2>3. who \in Writers /\ code \in Codes /\ seen \in Codes /\ e \in BOOLEAN
    BY DEF Problem, FiberStatusCode, Codes, Writers
  <2>4. rq' = [rq EXCEPT ![r] = Finish(Over(Wire(HandlerOver(q), who, code)), seen, e)]
    <3>1. CASE how = "ok"
      BY <2>1, <3>1 DEF ChainEnds, HandlerOver
    <3>2. CASE how = "panic"
      <4>1. rq' = [rq EXCEPT ![r] = Finish(Over(Wire(HandlerOver(q), "problem", 500)), 500, TRUE)]
        BY <2>1, <3>2 DEF ChainEnds, HandlerOver
      <4>2. who = "problem" /\ code = 500 /\ seen = 500 /\ e = TRUE
        BY <3>2
      <4> HIDE DEF who, code, seen, e, q
      <4> QED
        BY <4>1, <4>2, ZenonT(60)
    <3>3. CASE how \notin {"ok", "panic"}
      BY <2>1, <3>3 DEF ChainEnds, HandlerOver
    <3> QED
      BY <3>1, <3>2, <3>3
  <2> HIDE DEF who, code, seen, e, q
  <2> QED
    BY <1>14, <2>2, <2>3, <2>4
<1> QED
  BY <1>3, <1>4, <1>5, <1>6, <1>7, <1>10, <1>11, <1>12, <1>13, <1>15 DEF RequestStep

LEMMA LeaksStart ==
    ASSUME NEW k \in ServerKinds, HttpStart(k)
    PROVE  LeaksBounds
<1>1. IsFiniteSet(Requests)
  BY HttpAssumption DEF HttpAssumption
<1>2. IsFiniteSet(Waited(rq))
  BY <1>1, FS_Subset DEF Waited
<1>3. Cardinality(Waited(rq)) \in Nat
  BY <1>2, FS_CardinalityType
<1> QED
  BY <1>3 DEF LeaksBounds, HttpStart

LEMMA LeaksKeep ==
    ASSUME HttpInv, LeaksBounds, HttpNext \/ UNCHANGED httpVars
    PROVE  LeaksBounds'
<1> DEFINE W == Waited(rq)
           V == Waited(rq')
<1>1. IsFiniteSet(Requests) /\ W \subseteq Requests /\ V \subseteq Requests
  BY HttpAssumption DEF HttpAssumption, Waited
<1>2. IsFiniteSet(W) /\ IsFiniteSet(V)
  BY <1>1, FS_Subset
<1>3. kind \in ServerKinds /\ RequestsInv /\ leaks \in Nat /\ leaks <= Cardinality(W)
  BY DEF HttpInv, RequestsInv, LeaksBounds
<1>4. Cardinality(W) \in Nat /\ Cardinality(V) \in Nat
  BY <1>2, FS_CardinalityType
<1>5. ASSUME leaks' <= Cardinality(V)
      PROVE  LeaksBounds'
  BY <1>5 DEF LeaksBounds, Waited
<1>6. CASE UNCHANGED <<rq, leaks>>
  BY <1>3, <1>6 DEF LeaksBounds, Waited
<1>7. CASE \E r \in Requests : RequestStep(r)
  <2>1. PICK r \in Requests : RequestStep(r)
    BY <1>7
  <2>2. /\ rq[r].at[2] = "over" => rq'[r].at[2] = "over"
        /\ \A s \in Requests \ {r} : rq'[s] = rq[s]
    BY <1>3, <2>1, WaitedStays
  <2>3. W \subseteq V
    BY <2>2 DEF Waited
  <2>4. CASE CleanupExpires(r)
    <3>1. rq[r].at[2] = "cleanup" /\ rq'[r].at[2] = "over" /\ leaks' = leaks + 1
      <4>1. rq \in [Requests -> Request] /\ rq[r] \in Request
        BY <1>3 DEF RequestsInv
      <4>2. rq' = [rq EXCEPT ![r] = Handed(rq[r], "done")]
        BY <2>4 DEF CleanupExpires, LayerReturns, Handed
      <4>3. Handed(rq[r], "done").at[2] = "over"
        BY <4>1, SentFields DEF HowOver
      <4> QED
        BY <2>4, <4>1, <4>2, <4>3 DEF CleanupExpires
    <3>2. r \notin W /\ W \cup {r} \subseteq V
      BY <2>3, <3>1 DEF Waited
    <3> HIDE DEF W, V
    <3>3. IsFiniteSet(W \cup {r}) /\ Cardinality(W \cup {r}) = Cardinality(W) + 1
      BY <1>2, <3>2, FS_AddElement
    <3>4. Cardinality(W \cup {r}) <= Cardinality(V)
      BY <1>2, <3>2, FS_Subset
    <3>5. leaks' <= Cardinality(V)
      BY <1>3, <1>4, <3>1, <3>3, <3>4
    <3> QED
      BY <1>5, <3>5
  <2>5. CASE ~CleanupExpires(r)
    <3>1. leaks' = leaks
      BY <2>1, <2>5 DEF RequestStep, Arrive, Expire, LayerReceives, LayerTimesOut,
         LayerAnswers, HandlerWrites, HandlerReturns, HandlerPanics, HandlerFails,
         CleanupReceives, ChainEnds, onlyRq
    <3> HIDE DEF W, V
    <3>2. Cardinality(W) <= Cardinality(V)
      BY <1>2, <2>3, FS_Subset
    <3>3. leaks' <= Cardinality(V)
      BY <1>3, <1>4, <3>1, <3>2
    <3> QED
      BY <1>5, <3>3
  <2> QED
    BY <2>4, <2>5
<1>8. CASE Start \/ ListenFails \/ \E c \in Callers : CallerStep(c)
  <2>1. UNCHANGED <<rq, leaks>>
    BY <1>8 DEF Start, ListenFails, CallerStep, Shutdown, Enter, Skip, Drain, ShutdownReturns
  <2> QED
    BY <1>6, <2>1
<1>9. CASE \E c \in Callers \cup {Main} : ProviderStep(c)
  <2>1. UNCHANGED <<rq, leaks>>
    BY <1>9 DEF ProviderStep, BeginShutdown, Execute, FinishShutdown, AlreadyStopped, onlyFlush
  <2> QED
    BY <1>6, <2>1
<1>10. CASE UNCHANGED httpVars
  BY <1>6, <1>10 DEF httpVars
<1> QED
  BY <1>7, <1>8, <1>9, <1>10 DEF HttpNext, RequestStep, CallerStep, ProviderStep

LEMMA HttpTyped ==
    ASSUME HttpInv, LeaksBounds
    PROVE  HttpTypeOK
<1>1. kind \in ServerKinds /\ RequestsInv /\ CallersTypes
  BY DEF HttpInv
<1>2. IsFiniteSet(Requests) /\ Waited(rq) \subseteq Requests
  BY HttpAssumption DEF HttpAssumption, Waited
<1>3. /\ Cardinality(Waited(rq)) \in Nat /\ Cardinality(Requests) \in Nat
      /\ Cardinality(Waited(rq)) <= Cardinality(Requests)
  BY <1>2, FS_Subset, FS_CardinalityType
<1>4. leaks \in 0 .. Cardinality(Requests)
  BY <1>1, <1>3 DEF RequestsInv, LeaksBounds
<1>5. ASSUME NEW r \in Requests
      PROVE  /\ rq[r].at \in [1 .. 2 -> {"none", "wait", "answer", "cleanup", "over"}]
             /\ rq[r].handler \in {"none", "run", "over"}
             /\ rq[r].status \in Codes \cup {0} /\ rq[r].seen \in Codes \cup {0}
             /\ rq[r].by \subseteq {"handler", "problem", "timeout"}
             /\ rq[r].failure \in BOOLEAN
  <2>1. rq[r] \in Request
    BY <1>1, <1>5 DEF RequestsInv
  <2> QED
    BY <2>1 DEF Request, HttpPlaces, Writers
<1> QED
  BY <1>1, <1>4, <1>5 DEF HttpTypeOK, CallersTypes

(* The invariant of the servers, inductive as it stands.                   *)
THEOREM HttpInvariant == HttpSpec => []HttpInv
<1>1. HttpInit => HttpInv
  BY HttpStarts DEF HttpInit
<1>2. HttpInv /\ [HttpNext]_httpVars => HttpInv'
  BY HttpNextKeeps, HttpRests
<1> QED
  BY <1>1, <1>2, PTL DEF HttpSpec

=============================================================================
