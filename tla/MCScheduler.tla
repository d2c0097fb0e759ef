------------------------------ MODULE MCScheduler ------------------------------
(* TLC instances of Scheduler, of the cron expressions it works with, and of *)
(* the manifests they come in.                                               *)
EXTENDS Scheduler, MCManifests, TLC

CONSTANTS home, west

(* Three minutes with texts of their own, in one zone.                      *)
ThreeMinutes == [z \in Zones |-> [m \in Minutes |-> m]]

(* In the first zone the first text comes again; the other one is behind.   *)
RepeatedText ==
  home :> [m \in Minutes |-> IF m = 2 THEN 0 ELSE m]
    @@ west :> [m \in Minutes |-> IF m = 0 THEN 2 ELSE m - 1]

(* Every minute, or, in the other zone, the second one only.                *)
TwoSchedules == {[texts |-> Labels, zone |-> home], [texts |-> {0}, zone |-> west]}
EveryMinute  == [texts: {Labels}, zone: Zones]

(* Callers are interchangeable.                                             *)
Symmetry == Permutations(Callers)

(* Fields at the limits of the five ranges, well-formed or not.             *)
SampleValues == {-1, 0, 1, 6, 7, 8, 12, 13, 23, 24, 31, 32, 59, 60}
SampleSegments ==
  {Junk} \cup {Number(v) : v \in SampleValues}
    \cup {Span(lo, hi) : lo \in {0, 1, 5}, hi \in {0, 6, 7, 8, 12, 31, 59, 60}}
SampleFields ==
  {Star} \cup {Step(n) : n \in {-1, 0} \cup SampleValues}
    \cup {List(<<s>>) : s \in SampleSegments}
    \cup {List(<<s, Number(1)>>) : s \in SampleSegments}

(* Expressions that restrict the days in every way the scheduler tells apart *)
SampleDays == {Star, Step(1), Step(10), List(<<Number(29)>>),
               List(<<Number(31), Span(1, 2)>>)}
SampleWeekdays == {Star, Step(1), Step(5), Step(7), List(<<Number(0)>>), List(<<Number(7)>>),
                   List(<<Span(5, 7)>>), List(<<Span(0, 6)>>), List(<<Number(3), Number(7)>>)}
SampleMonths == {Star, List(<<Number(2)>>), Step(2)}
SampleMinutes == {Star, List(<<Number(0)>>), Step(59)}
SampleExpressions ==
  {<<m, Star, d, mon, w>> : m \in SampleMinutes, d \in SampleDays, mon \in SampleMonths,
                            w \in SampleWeekdays}

(* A minute before, at and after every midnight of January to March, a leap *)
(* day among them.                                                          *)
SampleTimes == {1440 * d + k : d \in 1..91, k \in {-1, 0, 1}}

(* The properties below are about constants: one state is enough.       *)

(* validateCronField and parseField are two readers of one format: what the *)
(* loader accepts at import the scheduler can parse at every tick, and      *)
(* nothing else is accepted (loader.go:488, cron.go:101).                    *)
LoaderAgreesWithScheduler ==
  Init => \A f \in SampleFields, i \in 1..5 :
    ValidField(f, Bounds[i]) <=> ParseField(f, Bounds[i]).ok

(* A parsed expression matches the minutes MANIFEST_SCHEMA.md:194-196 says  *)
(* it does, Sunday being 0 and 7 and two restricted day fields being joined *)
(* by "or" (cron.go:57), and NextRun returns the first of them after the    *)
(* given minute, or none when there is none in its window (cron.go:75).     *)
CronFollowsSchema ==
  Init => \A e \in SampleExpressions :
    LET c == ParseCron(e) IN
    /\ \A t \in SampleTimes : Matches(c, At(t)) <=> SchemaMatches(e, At(t))
    /\ \A t \in {1440 * 31 - 2, 1440 * 59 - 1, 1440 * 60 - 3} :
         LET ahead == {u \in (t + 1)..(t + 5) : SchemaMatches(e, At(u))}
             next == NextRun(c, t, 5) IN
         IF ahead = {} THEN next = NoRun
         ELSE next \in ahead /\ \A u \in ahead : next <= u

(* What the loader lets through at import, nothing stops at a run: the      *)
(* runner, which sets the defaults again on the same manifest, finds what   *)
(* was validated, the scheduler can parse the schedule, there is a python   *)
(* to run, a run directory for every path a browser policy promises, and    *)
(* an isolated script sees its own directories whatever the environment     *)
(* files and the manifest say (loader.go:88, browser.go:13, runner.go:436).  *)
AdmittedManifestsRun ==
  Init => \A m \in SampleManifests :
    Loads(m) =>
      LET d == Defaults(m) IN
      /\ Defaults(d) = d
      /\ Parses(d.expression)
      /\ ResolvePython(d) # ""
      /\ d.browser.enabled => BrowserPathsExist(d)
      /\ d.isolated => Isolated(d)
===============================================================================
