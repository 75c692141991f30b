--------------------------- MODULE TestProgram_proof ---------------------------
(***************************************************************************)
(* That the exit status of the test program can be relied upon, for every  *)
(* list of tests: Accounted says what "no failure on record" is worth, and *)
(* a successful exit status is given on nothing else.                      *)
(***************************************************************************)
EXTENDS TestProgram, TLAPS

\* What was printed stays printed, and what is printed is added.
LEMMA PrintKeeps ==
    ASSUME NEW lines \in Seq(Lines), tap \in Seq(Lines), Emit(lines)
    PROVE  /\ tap' \in Seq(Lines)
           /\ Printed \subseteq Printed'
           /\ \A k \in 1..Len(lines) : lines[k] \in Printed'
           /\ lines # <<>> => tap' # <<>> /\ tap'[Len(tap')] = lines[Len(lines)]
<1>1. tap' = tap \o lines
  BY DEF Emit
<1>2. /\ tap' \in Seq(Lines)
      /\ Len(tap') = Len(tap) + Len(lines)
      /\ Len(tap) \in Nat /\ Len(lines) \in Nat
  BY <1>1
<1>3. ASSUME NEW k \in DOMAIN tap
      PROVE  tap[k] \in Printed'
  <2>1. k \in DOMAIN tap' /\ tap'[k] = tap[k]
    BY <1>1, <1>2, <1>3
  <2> QED
    BY <2>1 DEF Printed
<1>4. ASSUME NEW k \in 1..Len(lines)
      PROVE  lines[k] \in Printed'
  <2>1. Len(tap) + k \in DOMAIN tap' /\ tap'[Len(tap) + k] = lines[k]
    BY <1>1, <1>2, <1>4
  <2> QED
    BY <2>1 DEF Printed
<1>5. lines # <<>> => tap' # <<>> /\ tap'[Len(tap')] = lines[Len(lines)]
  BY <1>1, <1>2
<1> QED
  BY <1>2, <1>3, <1>4, <1>5 DEF Printed

\* A line is a line.
LEMMA LineTyped ==
    ASSUME NEW w \in {"ok", "not ok", "output", "plan"}, NEW a \in Nat, NEW n \in Nat
    PROVE  Line(w, a, n) \in Lines
BY DEF Line, Lines

\* One line after another, or none, is a sequence of lines.
LEMMA TwoLines ==
    ASSUME NEW x \in Lines, NEW y \in Lines
    PROVE  /\ <<x>> \in Seq(Lines) /\ << >> \in Seq(Lines)
           /\ << >> \o <<x>> \in Seq(Lines) /\ <<y>> \o <<x>> \in Seq(Lines)
           /\ <<x>> \o << >> \in Seq(Lines)
           /\ 1 \in 1..Len(<<x>> \o << >>) /\ (<<x>> \o << >>)[1] = x
           /\ <<x>> \o <<y>> \in Seq(Lines)
           /\ 1 \in 1..Len(<<x>> \o <<y>>) /\ (<<x>> \o <<y>>)[1] = x
OBVIOUS

\* What the counters' ranges are in numbers.
LEMMA InNumbers ==
    ASSUME Accounted
    PROVE  /\ Count \in Nat
           /\ next \in 1..(Count + 1)
           /\ next \in Nat /\ 1 <= next /\ next <= Count + 1
           /\ testsRun \in Nat /\ tap \in Seq(Lines)
           /\ verdict \in {"ok", "not ok"}
           /\ InTest => next <= Count
           /\ pc \in {"plan", "exited"} => next = Count + 1
<1>1. Count \in Nat
  BY TestAssumption DEF Count
<1>2. next \in 1..(Count + 1)
  BY Zenon DEF Accounted, Counters
<1>3. next \in Nat /\ 1 <= next /\ next <= Count + 1
  BY <1>1, <1>2
<1> QED
  BY <1>1, <1>2, <1>3, Zenon DEF Accounted, Counters

\* How the counters are established after a step.
LEMMA CountersAfter ==
    ASSUME next' \in 1..(Count + 1), testsRun' \in Nat, tap' \in Seq(Lines),
           failed' \in BOOLEAN, verdict' \in {"ok", "not ok"},
           InTest' => next' <= Count,
           pc' \in {"plan", "exited"} => next' = Count + 1
    PROVE  Counters'
BY Zenon DEF Counters, Count

\* The initial state accounts for no test at all.
LEMMA InitAccounted == Init => Accounted
<1> SUFFICES ASSUME Init PROVE Accounted
  OBVIOUS
<1>1. Count \in Nat
  BY TestAssumption DEF Count
<1>2. /\ next = 1 /\ testsRun = 0 /\ tap = << >> /\ pc = "start" /\ verdict = "ok"
      /\ outer = "running" /\ failed \in BOOLEAN /\ usable
  BY Zenon DEF Init
<1>3. Counters
  BY <1>1, <1>2 DEF Counters, InTest
<1>4. Recorded
  BY <1>2, Zenon DEF Recorded
<1>5. Counted /\ PlanIsLast /\ Earned
  BY <1>2 DEF Counted, PlanIsLast, Earned, InTest
<1> QED
  BY <1>3, <1>4, <1>5 DEF Accounted

\* What the verdict depends upon.
verdictVars == <<pc, next, usable, verdict, testsRun, failed, tap, outer>>

\* A step that touches none of it keeps the account.
LEMMA FrameStep == Accounted /\ UNCHANGED verdictVars => Accounted'
<1> SUFFICES ASSUME Accounted, UNCHANGED verdictVars PROVE Accounted'
  OBVIOUS
<1>1. UNCHANGED <<pc, next, usable, verdict, testsRun, failed, tap, outer>>
  BY DEF verdictVars
<1>2. Counters'
  BY <1>1, Zenon DEF Accounted, Counters, InTest, Count
<1>3. Recorded' /\ Counted'
  BY <1>1, Zenon DEF Accounted, Recorded, Counted, InTest, Printed
<1>4. PlanIsLast' /\ Earned'
  BY <1>1, Zenon DEF Accounted, PlanIsLast, Earned
<1> QED
  BY <1>2, <1>3, <1>4 DEF Accounted

\* Steps that print nothing: where the program is changes, the account does not.
LEMMA QuietStep ==
    ASSUME Accounted,
           UNCHANGED <<next, testsRun, failed, tap, outer>>,
           ~usable' => failed,
           verdict' \in {"ok", "not ok"},
           InTest' <=> InTest,
           pc \notin {"exited", "killed"},
           pc' # "exited",
           pc' = "plan" => next = Count + 1
    PROVE  Accounted'
<1>1. Counters'
  BY Zenon DEF Accounted, Counters, Count
<1>2. Recorded' /\ Counted'
  BY Zenon DEF Accounted, Recorded, Counted, Printed
<1>3. PlanIsLast' /\ Earned'
  BY Zenon DEF Accounted, PlanIsLast, Earned
<1> QED
  BY <1>1, <1>2, <1>3 DEF Accounted

\* A failed setUpClass is put on record.
LEMMA FailStep ==
    ASSUME Accounted, pc \in {"setup", "verify"}, SetUpFails,
           UNCHANGED <<next, verdict, testsRun, stdout, outer>>
    PROVE  Accounted'
<1>1. /\ Count \in Nat /\ next \in 1..(Count + 1) /\ next \in Nat
      /\ testsRun \in Nat /\ tap \in Seq(Lines) /\ verdict \in {"ok", "not ok"}
  BY InNumbers
<1>2. Line("output", next, testsRun) \in Lines /\ Line("not ok", next, testsRun) \in Lines
  BY <1>1, LineTyped
<1>3. SetUpOutput(next) = <<Line("output", next, testsRun)>> \/ SetUpOutput(next) = << >>
  BY Zenon DEF SetUpOutput
<1>4. SetUpOutput(next) \o <<Line("not ok", next, testsRun)>> \in Seq(Lines)
  BY <1>2, <1>3, TwoLines, Zenon
<1>5. tap' \in Seq(Lines)
  <2>1. Emit(SetUpOutput(next) \o <<Line("not ok", next, testsRun)>>)
    BY Zenon DEF SetUpFails
  <2> QED
    BY <1>1, <1>4, <2>1, PrintKeeps, Zenon
<1>6. failed' /\ failed' \in BOOLEAN
  BY Zenon DEF SetUpFails
<1>7. pc' = "between"
  BY DEF SetUpFails
<1>8. Counters'
  BY <1>1, <1>5, <1>6, <1>7 DEF Counters, InTest, Count
<1>9. Recorded' /\ Counted'
  BY <1>6, Zenon DEF Recorded, Counted
<1>10. PlanIsLast' /\ Earned'
  BY <1>7 DEF PlanIsLast, Earned, Accounted
<1> QED
  BY <1>8, <1>9, <1>10 DEF Accounted

\* A test is reported under its own number, and a failure is put on record.
LEMMA ReportStep == Accounted /\ Report => Accounted'
<1> SUFFICES ASSUME Accounted, Report PROVE Accounted'
  OBVIOUS
<1> DEFINE lines == <<Line(verdict, next, testsRun)>>
                       \o IF verdict = "not ok" THEN <<Line("output", next, testsRun)>> ELSE <<>>
<1>1. /\ Count \in Nat /\ next \in Nat /\ 1 <= next /\ testsRun \in Nat
      /\ tap \in Seq(Lines) /\ verdict \in {"ok", "not ok"}
  BY InNumbers
<1>2. pc = "report" /\ InTest /\ next <= Count
  BY InNumbers DEF Report, InTest
<1>3. Line("output", next, testsRun) \in Lines /\ Line(verdict, next, testsRun) \in Lines
  BY <1>1, LineTyped
<1>4. lines \in Seq(Lines) /\ lines[1] = Line(verdict, next, testsRun) /\ 1 \in 1..Len(lines)
  <2>1. \/ lines = <<Line(verdict, next, testsRun)>> \o <<Line("output", next, testsRun)>>
        \/ lines = <<Line(verdict, next, testsRun)>> \o << >>
    BY Zenon
  <2> QED
    BY <1>3, <2>1, TwoLines, Zenon
<1>5. Emit(lines)
  BY DEF Report
<1> HIDE DEF lines
<1>6. tap' \in Seq(Lines) /\ Printed \subseteq Printed' /\ Line(verdict, next, testsRun) \in Printed'
  BY <1>1, <1>4, <1>5, PrintKeeps
<1>7. /\ next' = next + 1 /\ pc' = "between"
      /\ UNCHANGED <<usable, verdict, testsRun, outer>>
  BY DEF Report, testVars
<1>8. failed' = (failed \/ verdict = "not ok") /\ failed' \in BOOLEAN
  BY Zenon DEF Report
<1>9. next \in Nat /\ next' = next + 1 /\ next' \in 1..(Count + 1)
  <2>1. Count \in Nat /\ next \in Nat /\ 1 <= next /\ next <= Count /\ next' = next + 1
    BY <1>1, <1>2, <1>7, Zenon
  <2> QED
    BY <2>1
<1>10. Counters'
  <2>1. ~InTest' /\ pc' \notin {"plan", "exited"}
    BY <1>7 DEF InTest
  <2> QED
    BY <1>1, <1>6, <1>7, <1>8, <1>9, <2>1, CountersAfter, Zenon
<1>11. Recorded'
  BY <1>7, <1>8, Zenon DEF Accounted, Recorded
<1>12. Counted'
  <2> SUFFICES ASSUME ~failed'
               PROVE  /\ testsRun' = next' - 1
                      /\ \A i \in 1..(next' - 1) : Line("ok", i, i) \in Printed'
    BY <1>7 DEF Counted, InTest
  <2>1. ~failed /\ verdict = "ok"
    BY <1>1, <1>8, Zenon
  <2>2. testsRun = next /\ \A i \in 1..(next - 1) : Line("ok", i, i) \in Printed
    BY <1>2, <2>1 DEF Accounted, Counted
  <2>3. ASSUME NEW i \in 1..(next' - 1) PROVE Line("ok", i, i) \in Printed'
    <3>1. i = next \/ i \in 1..(next - 1)
      BY <1>9
    <3> QED
      BY <1>6, <2>1, <2>2, <3>1
  <2>4. testsRun' = next' - 1
    <3>1. testsRun' = testsRun
      BY <1>7
    <3> QED
      BY <1>9, <2>2, <3>1
  <2> QED
    BY <2>3, <2>4
<1>13. PlanIsLast' /\ Earned'
  BY <1>2, <1>7 DEF PlanIsLast, Earned, Accounted
<1> QED
  BY <1>10, <1>11, <1>12, <1>13 DEF Accounted

\* Every step of the program or the instance keeps the account.
LEMMA AccountedStep == Accounted /\ [Next]_vars => Accounted'
<1> SUFFICES ASSUME Accounted, [Next]_vars PROVE Accounted'
  OBVIOUS
<1>0. /\ Count \in Nat /\ next \in 1..(Count + 1)
      /\ next \in Nat /\ 1 <= next /\ next <= Count + 1 /\ testsRun \in Nat
  BY InNumbers, Zenon
<1>1. /\ tap \in Seq(Lines) /\ verdict \in {"ok", "not ok"} /\ failed \in BOOLEAN
      /\ InTest => next <= Count
      /\ pc \in {"plan", "exited"} => next = Count + 1
  BY Zenon DEF Accounted, Counters
<1>2. ~usable => failed
  BY Zenon DEF Accounted, Recorded
<1>3. CASE RerunUnderFlux
  <2>1. UNCHANGED <<next, testsRun, failed, tap, outer, usable, verdict>>
    BY <1>3 DEF RerunUnderFlux, testVars, tapVars
  <2>2. pc = "start" /\ pc' = "between"
    BY <1>3 DEF RerunUnderFlux
  <2>3. InTest' <=> InTest
    BY <2>2 DEF InTest
  <2> QED
    BY <1>1, <1>2, <2>1, <2>2, <2>3, QuietStep, Zenon
<1>4. CASE ChangeClass
  <2>1. /\ UNCHANGED <<next, testsRun, failed, tap, outer, verdict>>
        /\ pc = "between" /\ usable'
    BY <1>4, Zenon DEF ChangeClass, tapVars
  <2>2. pc' \in {"plan", "setup", "between"} /\ (pc' = "plan" => next > Count)
    BY <1>4 DEF ChangeClass
  <2>3. InTest' <=> InTest
    BY <2>1, <2>2 DEF InTest
  <2>4. pc' = "plan" => next = Count + 1
    BY <1>0, <2>2
  <2>5. pc \notin {"exited", "killed"} /\ pc' # "exited"
    BY <2>1, <2>2
  <2> QED
    BY <1>1, <2>1, <2>3, <2>4, <2>5, QuietStep, Zenon
<1>5. CASE SubmitJobs
  <2>1. UNCHANGED <<next, verdict, testsRun, stdout, outer>> /\ pc = "setup"
    BY <1>5, Zenon DEF SubmitJobs
  <2>2. CASE SetUpFails
    BY <2>1, <2>2, FailStep
  <2>3. CASE pc' = "await" /\ UNCHANGED <<usable, tap, failed>>
    <3>1. InTest' <=> InTest
      BY <2>1, <2>3 DEF InTest
    <3> QED
      BY <1>1, <1>2, <2>1, <2>3, <3>1, QuietStep, Zenon
  <2> QED
    BY <1>5, <2>2, <2>3, Zenon DEF SubmitJobs
<1>6. CASE AwaitStart
  <2>1. UNCHANGED <<next, testsRun, failed, tap, outer, usable, verdict>>
    BY <1>6 DEF AwaitStart, testVars, tapVars
  <2>2. pc = "await" /\ pc' \in {"verify", "between"}
    BY <1>6 DEF AwaitStart
  <2>3. /\ InTest' <=> InTest
        /\ pc \notin {"exited", "killed"} /\ pc' \notin {"exited", "plan"}
    BY <2>2 DEF InTest
  <2> QED
    BY <1>1, <1>2, <2>1, <2>3, QuietStep, Zenon
<1>7. CASE VerifyJobs
  <2>1. UNCHANGED <<next, verdict, testsRun, stdout, outer>> /\ pc = "verify"
    BY <1>7, Zenon DEF VerifyJobs
  <2>2. CASE SetUpFails
    BY <2>1, <2>2, FailStep
  <2>3. CASE pc' = "between" /\ UNCHANGED <<usable, failed, tap>>
    <3>1. InTest' <=> InTest
      BY <2>1, <2>3 DEF InTest
    <3> QED
      BY <1>1, <1>2, <2>1, <2>3, <3>1, QuietStep, Zenon
  <2> QED
    BY <1>7, <2>2, <2>3, Zenon DEF VerifyJobs
<1>8. CASE SkipTest
  <2>1. /\ pc = "between" /\ next <= Count /\ next' = next + 1 /\ ~usable
        /\ UNCHANGED <<pc, usable, verdict, testsRun, failed, tap, outer>>
    BY <1>8, Zenon DEF SkipTest, testVars, tapVars
  <2>2. failed /\ failed'
    BY <1>2, <2>1, Zenon
  <2>3. Counters'
    <3>1. next' \in 1..(Count + 1)
      BY <1>0, <2>1
    <3>2. ~InTest' /\ pc' \notin {"plan", "exited"}
      BY <2>1 DEF InTest
    <3> QED
      BY <1>0, <1>1, <2>1, <3>1, <3>2, CountersAfter, Zenon
  <2>4. Recorded' /\ Counted'
    BY <2>2, Zenon DEF Recorded, Counted
  <2>5. PlanIsLast' /\ Earned'
    BY <2>1 DEF PlanIsLast, Earned, Accounted
  <2> QED
    BY <2>3, <2>4, <2>5 DEF Accounted
<1>9. CASE StartTest
  <2>1. /\ pc = "between" /\ pc' = "body" /\ next <= Count /\ testsRun' = testsRun + 1
        /\ UNCHANGED <<next, usable, verdict, failed, tap, outer>>
    BY <1>9, Zenon DEF StartTest, testVars
  <2>2. Counters'
    <3>1. testsRun' \in Nat
      BY <1>0, <2>1
    <3>2. pc' \notin {"plan", "exited"}
      BY <2>1
    <3> QED
      BY <1>0, <1>1, <2>1, <3>1, <3>2, CountersAfter, Zenon
  <2>3. Recorded'
    BY <2>1, Zenon DEF Accounted, Recorded
  <2>4. Counted'
    <3> SUFFICES ASSUME ~failed
                 PROVE  /\ testsRun' = next
                        /\ \A i \in 1..(next - 1) : Line("ok", i, i) \in Printed
      BY <2>1 DEF Counted, InTest, Printed
    <3>1. /\ testsRun = next - 1
          /\ \A i \in 1..(next - 1) : Line("ok", i, i) \in Printed
      BY <2>1 DEF Accounted, Counted, InTest
    <3>2. testsRun' = next
      BY <1>0, <2>1, <3>1
    <3> QED
      BY <3>1, <3>2
  <2>5. PlanIsLast' /\ Earned'
    BY <2>1 DEF PlanIsLast, Earned, Accounted
  <2> QED
    BY <2>2, <2>3, <2>4, <2>5 DEF Accounted
<1>10. CASE PlainTest
  <2>1. UNCHANGED <<next, testsRun, failed, tap, outer, usable>>
    BY <1>10 DEF PlainTest, tapVars
  <2>2. pc = "body" /\ pc' = "report" /\ verdict' \in {"ok", "not ok"}
    BY <1>10 DEF PlainTest
  <2>3. InTest' <=> InTest
    BY <2>2 DEF InTest
  <2> QED
    BY <1>1, <1>2, <2>1, <2>2, <2>3, QuietStep, Zenon
<1>11. CASE MakeHelper
  <2>1. UNCHANGED <<next, testsRun, failed, tap, outer, usable>>
    BY <1>11 DEF MakeHelper, tapVars
  <2>2. pc = "body" /\ pc' \in {"holding", "report"} /\ verdict' \in {"ok", "not ok"}
    BY <1>1, <1>11 DEF MakeHelper
  <2>3. /\ InTest' <=> InTest
        /\ pc \notin {"exited", "killed"} /\ pc' \notin {"exited", "plan"}
    BY <2>2 DEF InTest
  <2> QED
    BY <1>1, <1>2, <2>1, <2>2, <2>3, QuietStep, Zenon
<1>12. CASE RunTest
  <2>1. UNCHANGED <<next, testsRun, failed, tap, outer, usable>>
    BY <1>12 DEF RunTest, tapVars
  <2>2. pc = "holding" /\ pc' = "report" /\ verdict' \in {"ok", "not ok"}
    BY <1>12, Zenon DEF RunTest
  <2>3. InTest' <=> InTest
    BY <2>2 DEF InTest
  <2> QED
    BY <1>1, <1>2, <2>1, <2>2, <2>3, QuietStep, Zenon
<1>13. CASE Report
  BY <1>13, ReportStep
<1>14. CASE PrintPlan
  <2>1. /\ pc = "plan" /\ pc' = "exited" /\ Emit(<<Line("plan", 0, testsRun)>>)
        /\ UNCHANGED <<next, usable, verdict, testsRun, failed, outer>>
    BY <1>14, Zenon DEF PrintPlan, testVars
  <2>2. <<Line("plan", 0, testsRun)>> \in Seq(Lines)
    <3>1. Line("plan", 0, testsRun) \in Lines
      BY <1>0, LineTyped
    <3> QED
      BY <3>1
  <2>3. /\ tap' \in Seq(Lines) /\ Printed \subseteq Printed'
        /\ tap' # <<>> /\ tap'[Len(tap')] = Line("plan", 0, testsRun)
    BY <1>1, <2>1, <2>2, PrintKeeps
  <2>4. Counters'
    <3>1. ~InTest' /\ next' = Count + 1
      BY <1>1, <2>1 DEF InTest
    <3> QED
      BY <1>0, <1>1, <2>1, <2>3, <3>1, CountersAfter, Zenon
  <2>5. Recorded'
    BY <2>1, Zenon DEF Accounted, Recorded
  <2>6. Counted'
    <3> SUFFICES ASSUME ~failed
                 PROVE  /\ testsRun = next - 1
                        /\ \A i \in 1..(next - 1) : Line("ok", i, i) \in Printed'
      BY <2>1 DEF Counted, InTest
    <3> QED
      BY <2>1, <2>3 DEF Accounted, Counted, InTest
  <2>7. PlanIsLast' /\ Earned'
    BY <2>1, <2>3 DEF PlanIsLast, Earned, Accounted
  <2> QED
    BY <2>4, <2>5, <2>6, <2>7 DEF Accounted
<1>15. CASE Exit
  <2>1. /\ pc \in {"exited", "killed"}
        /\ outer' = IF ChildFailed THEN "failure" ELSE "success"
        /\ UNCHANGED <<pc, next, usable, verdict, testsRun, failed, tap>>
    BY <1>15, Zenon DEF Exit, testVars, tapVars
  <2>2. Earned'
    BY <2>1 DEF ChildFailed, Earned
  <2>3. Counters' /\ Recorded' /\ Counted' /\ PlanIsLast'
    BY <2>1, Zenon DEF Accounted, Counters, Recorded, Counted, PlanIsLast, InTest, Printed, Count
  <2> QED
    BY <2>2, <2>3 DEF Accounted
<1>16. CASE Killed
  <2>1. /\ pc \notin {"start", "exited", "killed"} /\ pc' = "killed"
        /\ UNCHANGED <<next, usable, verdict, testsRun, failed, tap, outer>>
    BY <1>16, Zenon DEF Killed, testVars, tapVars
  <2>2. Counters'
    <3>1. ~InTest' /\ pc' \notin {"plan", "exited"}
      BY <2>1 DEF InTest
    <3> QED
      BY <1>0, <1>1, <2>1, <3>1, CountersAfter, Zenon
  <2>3. Recorded' /\ Counted'
    BY <2>1, Zenon DEF Accounted, Recorded, Counted
  <2>4. PlanIsLast' /\ Earned'
    BY <2>1 DEF PlanIsLast, Earned, Accounted
  <2> QED
    BY <2>2, <2>3, <2>4 DEF Accounted
<1>17. CASE \E j \in Jobs : JobStarts(j) \/ JobEnds(j) \/ ListFollows(j)
  <2>1. UNCHANGED verdictVars
    BY <1>17 DEF JobStarts, JobEnds, ListFollows, testVars, tapVars, verdictVars
  <2> QED
    BY <2>1, FrameStep
<1>18. CASE UNCHANGED vars
  BY <1>18, FrameStep DEF vars, testVars, tapVars, verdictVars
<1> QED
  BY <1>3, <1>4, <1>5, <1>6, <1>7, <1>8, <1>9, <1>10, <1>11, <1>12, <1>13, <1>14, <1>15,
     <1>16, <1>17, <1>18 DEF Next, Program

\* Unless a failure is on record, every test so far ran, passed and was counted.
THEOREM AlwaysAccounted == Spec => []Accounted
BY InitAccounted, AccountedStep, PTL DEF Spec

\* A successful exit status means that all the tests passed, and the plan says so.
THEOREM GreenIsGreen == Spec => []GreenMeansAllPassed
<1>1. Accounted => GreenMeansAllPassed
  <2> SUFFICES ASSUME Accounted, outer = "success"
               PROVE  /\ \A i \in 1..Count : Line("ok", i, i) \in Printed
                      /\ tap[Len(tap)] = Line("plan", 0, Count)
    BY DEF GreenMeansAllPassed, Printed
  <2>1. pc = "exited" /\ ~failed
    BY Zenon DEF Accounted, Earned
  <2>2. next = Count + 1 /\ Count \in Nat
    BY <2>1, InNumbers
  <2>3. testsRun = next - 1 /\ \A i \in 1..(next - 1) : Line("ok", i, i) \in Printed
    BY <2>1 DEF Accounted, Counted, InTest
  <2>4. next - 1 = Count
    BY <2>2
  <2>5. tap[Len(tap)] = Line("plan", 0, testsRun)
    BY <2>1, Zenon DEF Accounted, PlanIsLast
  <2> QED
    BY <2>3, <2>4, <2>5
<1> QED
  BY <1>1, AlwaysAccounted, PTL

===============================================================================
