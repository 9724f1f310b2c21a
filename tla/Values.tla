------------------------------- MODULE Values -------------------------------
(***************************************************************************)
(* The pure parts: pkg/vos (Money and Percentage), pkg/linq, and the waits *)
(* between two attempts of pkg/messaging.  Each is evaluated on an input   *)
(* and compared with what it is meant to compute.  The width of an int64   *)
(* and the limit of an amount are parameters: the code's are 2^63 and 2^53.*)
(***************************************************************************)
EXTENDS Integers, Sequences, SequencesExt, FiniteSetsExt, Functions

CONSTANTS Amounts,   \* the operands that are tried
          Limit,     \* maxMoneyCents, maxPercentageValue
          MaxInt64,  \* math.MaxInt64
          Unit,      \* 100 * percentageScaleFactor
          Tries,     \* numbers of attempts
          Lists      \* slices

ASSUME ValuesAssumption ==
    /\ Limit \in Nat /\ Unit \in Nat \ {0} /\ MaxInt64 \in Nat /\ Limit < MaxInt64
    /\ Amounts \subseteq -MaxInt64 .. MaxInt64 /\ Tries \subseteq Nat
    /\ Lists \subseteq Seq(Int)

VARIABLES
    calculation,  \* the operation and its operands
    answer        \* what the code returns

valuesVars == <<calculation, answer>>

Operations == {"add", "subtract", "multiply", "divide", "multiplyPercentage", "apply"}

Calculations ==
    [op : Operations, x : Amounts, y : Amounts, same : BOOLEAN]
    \cup [op : {"retryBackoff"}, tries : Tries]
    \cup [op : {"nextBackoff"}, tries : 0 .. 4, first : 1 .. 5, most : 1 .. 5]
    \cup [op : {"filter", "remove", "find", "map", "groupBy"}, list : Lists]

CalculationStart(c) == calculation = c /\ answer = [kind |-> "none"]

ValuesInit == \E c \in Calculations : CalculationStart(c)
-----------------------------------------------------------------------------
Value(v) == [kind |-> "value", value |-> v]
Fails(why) == [kind |-> why]

Abs(v) == IF v < 0 THEN -v ELSE v

(* Go's division, which truncates.                                         *)
Quotient(a, b) == (IF (a < 0) = (b < 0) THEN 1 ELSE -1) * (Abs(a) \div Abs(b))

NewMoney(cents) == IF Abs(cents) > Limit THEN Fails("overflow") ELSE Value(cents)

(* Mistake: the check is made for the positive side alone.                 *)
MoneyAddUpwards(x, y) ==
    IF y > 0 /\ x > Limit - y THEN Fails("overflow") ELSE Value(x + y)

MoneyAdd(x, y) ==
    IF (y > 0 /\ x > Limit - y) \/ (y < 0 /\ x < -Limit - y)
    THEN Fails("overflow") ELSE Value(x + y)

MoneySubtract(x, y) ==
    IF (y < 0 /\ x > Limit + y) \/ (y > 0 /\ x < -Limit + y)
    THEN Fails("overflow") ELSE Value(x - y)

(* Money.Multiply divides by the factor, and a zero is not looked at.      *)
MoneyMultiply(x, y) ==
    CASE y = 0 -> Fails("panic")
      [] y # 0 /\ Abs(x) > Limit \div Abs(y) -> Fails("overflow")
      [] OTHER -> Value(x * y)

MoneyDivide(x, y) == IF y = 0 THEN Fails("divisionByZero") ELSE Value(Quotient(x, y))

(* Percentage.Multiply: a negative factor turns the bounds around.         *)
PercentageMultiply(x, y) ==
    IF y # 0 /\ (x > Quotient(Limit, y) \/ x < Quotient(-Limit, y))
    THEN Fails("overflow") ELSE Value(x * y)

(* Percentage.Apply: of an amount x, y thousandths of a percent.           *)
PercentageApply(x, y) ==
    IF y # 0 /\ Abs(x) > MaxInt64 \div Abs(y) THEN Fails("overflow")
    ELSE NewMoney(Quotient(x * y, Unit))

Arithmetic(c) ==
    CASE c.op \in {"add", "subtract"} /\ ~c.same -> Fails("currencyMismatch")
      [] c.op = "add" /\ c.same -> MoneyAdd(c.x, c.y)
      [] c.op = "subtract" /\ c.same -> MoneySubtract(c.x, c.y)
      [] c.op = "multiply" -> MoneyMultiply(c.x, c.y)
      [] c.op = "divide" -> MoneyDivide(c.x, c.y)
      [] c.op = "multiplyPercentage" -> PercentageMultiply(c.x, c.y)
      [] OTHER -> PercentageApply(c.x, c.y)
-----------------------------------------------------------------------------
(* calculateRetryBackoff, in ms: 10^8 ns * 2^tries in 64 bits, which is    *)
(* 390625 * 2^(8 + tries).  From 37 on the top of the odd part is cut off, *)
(* and what is left may be negative; from 56 on nothing is left.           *)
Odd(tries) == 390625 % (2 ^ (56 - tries))

RetryBackoff(tries) ==
    CASE tries <= 8 -> 100 * 2 ^ tries
      [] tries \in 9 .. 36 -> 30000
      [] tries \in 37 .. 55 -> IF Odd(tries) >= 2 ^ (55 - tries) THEN -1 ELSE 30000
      [] OTHER -> 0

(* calculateBackoff of pkg/messaging/kafka, tries times over.              *)
NextBackoff(current, most) == IF 2 * current > most THEN most ELSE 2 * current

KafkaBackoff(c) ==
    LET wait[n \in Nat] == IF n = 0 THEN c.first ELSE NextBackoff(wait[n - 1], c.most)
    IN wait[c.tries]
-----------------------------------------------------------------------------
(* pkg/linq, with "is even" as the predicate, the function and the key.    *)
Even(v) == v % 2 = 0

LinqResult(c) ==
    CASE c.op = "filter" -> FoldLeft(LAMBDA r, v : IF Even(v) THEN Append(r, v) ELSE r, << >>, c.list)
      [] c.op = "remove" -> FoldLeft(LAMBDA r, v : IF Even(v) THEN r ELSE Append(r, v), << >>, c.list)
      [] c.op = "find" -> FoldLeft(LAMBDA r, v : IF r = << >> /\ Even(v) THEN <<v>> ELSE r, << >>, c.list)
      [] c.op = "map" -> [i \in DOMAIN c.list |-> Even(c.list[i])]
      [] OTHER -> FoldLeft(LAMBDA r, v : [r EXCEPT ![Even(v)] = Append(@, v)],
                           [k \in BOOLEAN |-> << >>], c.list)

Calculate ==
    /\ answer.kind = "none"
    /\ answer' = CASE calculation.op \in Operations -> Arithmetic(calculation)
                   [] calculation.op = "retryBackoff" -> Value(RetryBackoff(calculation.tries))
                   [] calculation.op = "nextBackoff" -> Value(KafkaBackoff(calculation))
                   [] OTHER -> Value(LinqResult(calculation))
    /\ UNCHANGED calculation

ValuesSpec == ValuesInit /\ [][Calculate]_valuesVars
-----------------------------------------------------------------------------
(* The integer an operation is about, and the value that is meant.         *)
Exact(c) ==
    CASE c.op = "add" -> c.x + c.y
      [] c.op = "subtract" -> c.x - c.y
      [] c.op = "apply" -> Quotient(c.x * c.y, Unit)
      [] OTHER -> c.x * c.y

(* What the comments of the code promise: the exact result, or an error    *)
(* that says why there is none.                                            *)
Meant(c) ==
    CASE c.op \in {"add", "subtract"} /\ ~c.same -> Fails("currencyMismatch")
      [] c.op = "apply" /\ Abs(c.x * c.y) > MaxInt64 -> Fails("overflow")
      [] OTHER -> IF Abs(Exact(c)) > Limit THEN Fails("overflow") ELSE Value(Exact(c))

(* Two calculations that have a result and do not get it: Money by zero    *)
(* panics, Percentage by a negative factor fails (money.go:172-184,        *)
(* percentage.go:136-141).                                                 *)
Unserved(c) ==
    \/ c.op = "multiply" /\ c.y = 0
    \/ c.op = "multiplyPercentage" /\ c.y < 0

(* Arithmetic on amounts within the limit: a value that is returned is the *)
(* exact one and within the limit again, and what was meant is returned,   *)
(* but for the calculations the code does not serve, of which only the     *)
(* first is said.                                                          *)
ArithmeticIsExact ==
    calculation.op \in Operations \ {"divide"} /\ Abs(calculation.x) <= Limit
        /\ Abs(calculation.y) <= Limit =>
            /\ answer.kind = "value" => answer = Meant(calculation)
            /\ Unserved(calculation) \/ answer = Meant(calculation)

(* RabbitMQ's wait doubles from 100 ms up to 30 s and stays there, up to a *)
(* count of 36; nothing is said of higher counts, for which the product    *)
(* wraps and the wait is zero or negative (consumer.go:598).  Kafka's is   *)
(* at most its maximum after the first, and never shrinks but to it.       *)
WaitsAreBounded ==
    /\ calculation.op = "retryBackoff" /\ calculation.tries <= 36 =>
           /\ answer.value \in 100 .. 30000
           /\ calculation.tries > 0 =>
                  LET before == RetryBackoff(calculation.tries - 1) IN
                  answer.value \in {2 * before, 30000} /\ answer.value >= before
    /\ calculation.op = "nextBackoff" =>
           LET doubled == calculation.first * 2 ^ calculation.tries IN
           answer.value = CASE calculation.tries = 0 -> calculation.first
                            [] calculation.tries > 0 /\ doubled > calculation.most -> calculation.most
                            [] OTHER -> doubled

(* linq: order is kept, nothing is lost between Filter and Remove, and     *)
(* GroupBy is both of them.                                                *)
ListsAreKept ==
    /\ calculation.op = "filter" => answer.value = SelectSeq(calculation.list, Even)
    /\ calculation.op = "remove" =>
           answer.value = SelectSeq(calculation.list, LAMBDA v : ~Even(v))
    /\ calculation.op = "find" =>
           LET found == SelectSeq(calculation.list, Even) IN
           answer.value = IF found = << >> THEN << >> ELSE <<found[1]>>
    /\ calculation.op = "groupBy" =>
           /\ answer.value[TRUE] = SelectSeq(calculation.list, Even)
           /\ Len(answer.value[TRUE]) + Len(answer.value[FALSE]) = Len(calculation.list)

(* The pure functions return what they are meant to, with the exceptions   *)
(* that ArithmeticIsExact and WaitsAreBounded name (money.go:120-215,      *)
(* percentage.go:104-186, consumer.go:592-605, client.go:391-397,          *)
(* slices.go:27-160).                                                      *)
ResultsAreRight ==
    answer.kind # "none" => ArithmeticIsExact /\ WaitsAreBounded /\ ListsAreKept
=============================================================================
