---------------------------------- MODULE Cron ----------------------------------
(***************************************************************************)
(* Cron expressions (internal/core/cron.go) and the second reading the     *)
(* manifest loader gives them (internal/manifest/loader.go).  A field is   *)
(* "*", "*/n", or a list of segments: a number, a range lo-hi, or text     *)
(* that is neither ("junk", which stands for an empty segment too).        *)
(***************************************************************************)
EXTENDS Integers, Sequences, FiniteSets

Star == [kind |-> "star", n |-> 0, segs |-> <<>>]
Step(n) == [kind |-> "step", n |-> n, segs |-> <<>>]
List(segs) == [kind |-> "list", n |-> 0, segs |-> segs]
Number(v) == [kind |-> "number", lo |-> v, hi |-> v]
Span(lo, hi) == [kind |-> "range", lo |-> lo, hi |-> hi]
Junk == [kind |-> "junk", lo |-> 0, hi |-> 0]

Segments(f) == {f.segs[i] : i \in DOMAIN f.segs}

(* minute, hour, day of month, month, day of week *)
Bounds == <<[min |-> 0, max |-> 59], [min |-> 0, max |-> 23], [min |-> 1, max |-> 31],
            [min |-> 1, max |-> 12], [min |-> 0, max |-> 7]>>

-------------------------------------------------------------------------------
(* The scheduler's reading                                                  *)

(* addWithSundayAlias that knows the alias in one direction only. *)
WithOneSunday(v, b) == {v} \cup (IF b.max = 7 /\ v = 0 THEN {7} ELSE {})

WithSundayAlias(v, b) == {v} \cup (IF b.max = 7 /\ v \in {0, 7} THEN {0, 7} ELSE {})

(* parseField.  A field of steps is no wildcard even when it allows all. *)
ParseField(f, b) ==
  CASE f.kind = "star" ->
         [ok |-> TRUE, allowed |-> b.min..b.max, wildcard |-> TRUE]
    [] f.kind = "step" ->
         [ok |-> f.n > 0 /\ f.n <= b.max - b.min + 1,
          allowed |-> {v \in b.min..b.max : f.n > 0 /\ (v - b.min) % f.n = 0},
          wildcard |-> FALSE]
    [] OTHER ->
         [ok |-> \A s \in Segments(f) :
                   s.kind # "junk" /\ s.lo <= s.hi /\ b.min <= s.lo /\ s.hi <= b.max,
          allowed |-> UNION {WithSundayAlias(v, b) : v \in UNION {s.lo..s.hi : s \in Segments(f)}},
          wildcard |-> FALSE]

(* ParseCron: the five fields of the expression *)
ParseCron(e) == [i \in 1..5 |-> ParseField(e[i], Bounds[i])]

Parses(e) == Len(e) = 5 /\ \A i \in 1..5 : ParseCron(e)[i].ok

(* CronExpression.Matches; a weekday of package time is 0..6. *)
Matches(c, t) ==
  LET dom == t.day \in c[3].allowed
      dow == t.weekday \in c[5].allowed IN
  /\ t.minute \in c[1].allowed
  /\ t.hour \in c[2].allowed
  /\ t.month \in c[4].allowed
  /\ IF c[3].wildcard \/ c[5].wildcard THEN dom /\ dow ELSE dom \/ dow

MonthLengths == <<31, 29, 31, 30, 31, 30, 31, 31, 30, 31, 30, 31>>
DaysBefore[m \in 1..13] == IF m = 1 THEN 0 ELSE DaysBefore[m - 1] + MonthLengths[m - 1]

(* Package time in UTC: the fields of minute t of the year 2024, which     *)
(* began on a Monday.                                                      *)
At(t) ==
  LET d == t \div 1440
      m == CHOOSE m \in 1..12 : DaysBefore[m] <= d /\ d < DaysBefore[m + 1] IN
  [minute |-> t % 60, hour |-> (t \div 60) % 24, month |-> m,
   day |-> d - DaysBefore[m] + 1, weekday |-> (d + 1) % 7]

NoRun == -1

(* NextRun over limit minutes (366 days in the code). *)
NextRun(c, after, limit) ==
  LET from[i \in 0..limit] ==
        IF i = limit THEN NoRun
        ELSE IF Matches(c, At(after + 1 + i)) THEN after + 1 + i ELSE from[i + 1]
  IN from[0]

-------------------------------------------------------------------------------
(* The loader's reading                                                     *)

(* validateCronField that takes any positive step. *)
ValidFieldAnyStep(f, b) ==
  CASE f.kind = "star" -> TRUE
    [] f.kind = "step" -> f.n > 0
    [] OTHER -> \A s \in Segments(f) :
                  s.kind # "junk" /\ s.lo <= s.hi /\ s.lo >= b.min /\ s.hi <= b.max

(* validateCronField *)
ValidField(f, b) ==
  CASE f.kind = "star" -> TRUE
    [] f.kind = "step" -> f.n > 0 /\ f.n <= b.max - b.min + 1
    [] OTHER -> \A s \in Segments(f) :
                  s.kind # "junk" /\ s.lo <= s.hi /\ s.lo >= b.min /\ s.hi <= b.max

(* validateCronExpression *)
ValidExpression(e) == Len(e) = 5 /\ \A i \in 1..5 : ValidField(e[i], Bounds[i])

-------------------------------------------------------------------------------
(* What MANIFEST_SCHEMA.md says of an expression                            *)

(* The values a field names, in the words of the document. *)
Names(f, b, v) ==
  CASE f.kind = "star" -> TRUE
    [] f.kind = "step" -> \E k \in 0..b.max : v = b.min + k * f.n
    [] OTHER -> \E s \in Segments(f) : s.lo <= v /\ v <= s.hi

(* Sunday can be 0 or 7. *)
NamesWeekday(f, d) ==
  \/ Names(f, Bounds[5], d)
  \/ d = 0 /\ Names(f, Bounds[5], 7)

(* When both day fields are restricted, a time matches when either does.   *)
SchemaMatches(e, t) ==
  LET dom == Names(e[3], Bounds[3], t.day)
      dow == NamesWeekday(e[5], t.weekday) IN
  /\ Names(e[1], Bounds[1], t.minute)
  /\ Names(e[2], Bounds[2], t.hour)
  /\ Names(e[4], Bounds[4], t.month)
  /\ CASE e[3] = Star -> dow
       [] e[5] = Star -> dom
       [] OTHER       -> dom \/ dow
================================================================================
