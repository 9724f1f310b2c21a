-------------------------- MODULE DatabaseTelemetry --------------------------
(***************************************************************************)
(* What the database packages tell of themselves: the span and the         *)
(* measurement of one statement (manager/instrumentation.go), which ends   *)
(* where its result ends, and the pool's scraper (internal/pool).          *)
(***************************************************************************)
EXTENDS Naturals

CONSTANTS MaxRows,    \* bound: rows of a result
          MaxScrapes  \* bound: ticks of the scraper

ASSUME TelemetryAssumption == MaxRows \in Nat /\ MaxScrapes \in Nat

VARIABLES
    statement,  \* the call, its result, and whether the driver saw an error
    sqlSpan,    \* its span: how often it ended, what it was told, measurements
    pool,       \* the pool's own statistics; waited is in halves of a ms
    scraper,    \* is it running, its ticks, what it saw last
    gauges      \* the sums of what the scraper added to the instruments

telemetryVars == <<statement, sqlSpan, pool, scraper, gauges>>

StatementKinds == {"exec", "query", "query_row", "commit"}
Stats == [open : 0 .. 1, idle : 0 .. 1, waits : 0 .. MaxScrapes, waited : 0 .. MaxScrapes]

DatabaseTelemetryTypeOK ==
    /\ statement \in [kind : StatementKinds, rows : 0 .. MaxRows, broken : BOOLEAN,
           at : {"idle", "running", "rows", "row", "forgotten", "over"}]
    /\ sqlSpan \in [open : BOOLEAN, ended : 0 .. 2, status : {"none", "ok", "error"},
                    measured : 0 .. 2]
    /\ pool \in Stats
    /\ scraper \in [running : BOOLEAN, ticks : 0 .. MaxScrapes, saw : Stats]
    /\ gauges \in [open : 0 .. 1, idle : 0 .. 1, waits : Nat, waitedMs : Nat]

NoStats == [open |-> 0, idle |-> 0, waits |-> 0, waited |-> 0]

StatementStart(k) ==
    /\ statement = [kind |-> k, rows |-> 0, broken |-> FALSE, at |-> "idle"]
    /\ sqlSpan = [open |-> FALSE, ended |-> 0, status |-> "none", measured |-> 0]
    /\ pool = NoStats
    /\ scraper = [running |-> TRUE, ticks |-> 0, saw |-> NoStats]
    /\ gauges = [open |-> 0, idle |-> 0, waits |-> 0, waitedMs |-> 0]

TelemetryInit == \E k \in StatementKinds : StatementStart(k)
-----------------------------------------------------------------------------
(* Mistake: whoever comes last ends the span again.                        *)
FinishAgain(ok) ==
    sqlSpan' = [open |-> FALSE, ended |-> sqlSpan.ended + 1,
                status |-> IF ok THEN "ok" ELSE "error", measured |-> sqlSpan.measured + 1]

(* finish, behind the Once of a result that several calls may end.         *)
FinishOnce(ok) ==
    sqlSpan' = IF ~sqlSpan.open THEN sqlSpan
               ELSE [open |-> FALSE, ended |-> sqlSpan.ended + 1,
                     status |-> IF ok THEN "ok" ELSE "error", measured |-> sqlSpan.measured + 1]

StartStatement ==
    /\ statement.at = "idle"
    /\ statement' = [statement EXCEPT !.at = "running"]
    /\ sqlSpan' = [sqlSpan EXCEPT !.open = TRUE]
    /\ UNCHANGED <<pool, scraper, gauges>>

(* The driver returns.  QueryRowContext has no error to return: the row    *)
(* keeps it for Scan.                                                      *)
StatementReturns(ok) ==
    /\ statement.at = "running"
    /\ statement' = [statement EXCEPT !.broken = ~ok,
          !.at = CASE statement.kind = "query_row" -> "row"
                   [] statement.kind = "query" /\ ok -> "rows"
                   [] OTHER -> "over"]
    /\ IF statement.kind = "query_row" \/ (statement.kind = "query" /\ ok)
       THEN UNCHANGED sqlSpan ELSE FinishOnce(ok)
    /\ UNCHANGED <<pool, scraper, gauges>>

(* The connection or the context ends under the rows.                      *)
RowsBreak ==
    /\ statement.at = "rows" /\ ~statement.broken
    /\ statement' = [statement EXCEPT !.broken = TRUE]
    /\ UNCHANGED <<sqlSpan, pool, scraper, gauges>>

NextRow(more) ==
    /\ statement.at = "rows"
    /\ more => statement.rows < MaxRows /\ ~statement.broken
    /\ statement' = [statement EXCEPT !.rows = @ + (IF more THEN 1 ELSE 0)]
    /\ IF more THEN UNCHANGED sqlSpan ELSE FinishOnce(~statement.broken)
    /\ UNCHANGED <<pool, scraper, gauges>>

RowsErr ==
    /\ statement.at = "rows"
    /\ IF statement.broken THEN FinishOnce(FALSE) ELSE UNCHANGED sqlSpan
    /\ UNCHANGED <<statement, pool, scraper, gauges>>

(* Close tells its own error, which is not that of the rows.               *)
CloseRows ==
    /\ statement.at = "rows"
    /\ statement' = [statement EXCEPT !.at = "over"]
    /\ FinishOnce(TRUE)
    /\ UNCHANGED <<pool, scraper, gauges>>

ScanRow(ok) ==
    /\ statement.at = "row"
    /\ statement.broken => ~ok
    /\ statement' = [statement EXCEPT !.at = "over", !.broken = ~ok]
    /\ FinishOnce(ok)
    /\ UNCHANGED <<pool, scraper, gauges>>

(* A row that nobody scans is collected, and its span with it.             *)
ForgetRow ==
    /\ statement.at = "row"
    /\ statement' = [statement EXCEPT !.at = "forgotten"]
    /\ UNCHANGED <<sqlSpan, pool, scraper, gauges>>

FinishOrphanRowSpan ==
    /\ statement.at = "forgotten"
    /\ statement' = [statement EXCEPT !.at = "over"]
    /\ FinishOnce(TRUE)
    /\ UNCHANGED <<pool, scraper, gauges>>
-----------------------------------------------------------------------------
(* The pool works: connections come and go, the waits only grow.           *)
PoolWorks(s) ==
    /\ s.waits >= pool.waits /\ s.waited >= pool.waited
    /\ s.waits <= pool.waits + 1 /\ s.waited <= pool.waited + 1
    /\ s.idle <= s.open
    /\ s # pool
    /\ pool' = s
    /\ UNCHANGED <<statement, sqlSpan, scraper, gauges>>

(* A tick: the differences are added, a gauge's whatever its sign and a    *)
(* counter's where it is positive, in whole milliseconds.                  *)
Scrape ==
    /\ scraper.running /\ scraper.ticks < MaxScrapes
    /\ scraper' = [scraper EXCEPT !.ticks = @ + 1, !.saw = pool]
    /\ gauges' = [open |-> (gauges.open + pool.open) - scraper.saw.open,
                  idle |-> (gauges.idle + pool.idle) - scraper.saw.idle,
                  waits |-> gauges.waits + (pool.waits - scraper.saw.waits),
                  waitedMs |-> gauges.waitedMs + ((pool.waited - scraper.saw.waited) \div 2)]
    /\ UNCHANGED <<statement, sqlSpan, pool>>

(* Stop waits for the goroutine; the gauges keep what they had.            *)
StopScraper ==
    /\ scraper.running
    /\ scraper' = [scraper EXCEPT !.running = FALSE]
    /\ UNCHANGED <<statement, sqlSpan, pool, gauges>>

TelemetryNext ==
    \/ StartStatement \/ RowsBreak \/ RowsErr \/ CloseRows \/ ForgetRow \/ FinishOrphanRowSpan
    \/ \E ok \in BOOLEAN : StatementReturns(ok) \/ ScanRow(ok)
    \/ \E more \in BOOLEAN : NextRow(more)
    \/ \E s \in Stats : PoolWorks(s)
    \/ Scrape \/ StopScraper

TelemetrySpec == TelemetryInit /\ [][TelemetryNext]_telemetryVars
-----------------------------------------------------------------------------
(* However many calls find the end of a result, the span ends and the      *)
(* duration is measured once, and by the time the caller is done with the  *)
(* result it has; an error that is told is one the driver had, and one it  *)
(* had is told unless the rows were closed, or the row dropped, before     *)
(* anybody asked.  The gauges are what the scraper saw last, the waits are *)
(* counted once, and the time waited falls behind by less than the number  *)
(* of ticks (instrumentation.go:61-253, metrics.go:42-113).                *)
StatementsAreTold ==
    /\ sqlSpan.ended <= 1 /\ sqlSpan.measured = sqlSpan.ended
    /\ statement.at = "over" => sqlSpan.ended = 1 /\ ~sqlSpan.open
    /\ sqlSpan.status = "error" => statement.broken
    /\ statement.at = "over" /\ statement.kind \in {"exec", "commit"} =>
           (sqlSpan.status = "error") = statement.broken
    /\ gauges.open = scraper.saw.open /\ gauges.idle = scraper.saw.idle
    /\ gauges.waits = scraper.saw.waits
    /\ 2 * gauges.waitedMs \in scraper.saw.waited - scraper.ticks .. scraper.saw.waited
=============================================================================
