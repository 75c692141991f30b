------------------------ MODULE TestProgram_tests_proof ------------------------
(***************************************************************************)
(* That tests and their output do not get into each other's way, for every *)
(* list of tests in the order of their classes: no test finds a lock that  *)
(* another one left, those of the jobs find their jobs listed, and every   *)
(* failure has its explanation next to it.                                 *)
(*                                                                         *)
(* The inductive invariant Separate is taken conjunct by conjunct.         *)
(***************************************************************************)
EXTENDS TestProgram, FiniteSetTheorems, TLAPS

\* Statements of Separate about the counters, in the form the solvers use.
LEMMA SeparateNumbers ==
    ASSUME TypeOK
    PROVE  /\ Count \in Nat /\ next \in 1..(Count + 1) /\ next \in Nat /\ 1 <= next
           /\ testsRun \in 0..Count /\ testsRun \in Nat
<1>1. Count \in Nat
  BY TestAssumption DEF Count
<1>2. next \in 1..(Count + 1) /\ testsRun \in 0..Count
  BY Zenon DEF TypeOK
<1> QED
  BY <1>1, <1>2

LEMMA CountTyped == Count \in Nat /\ 0 \in 0..Count
<1>1. Count \in Nat
  BY TestAssumption DEF Count
<1> QED
  BY <1>1

LEMMA TestsTyped ==
    /\ DOMAIN Tests = 1..Count
    /\ \A i \in 1..Count : Tests[i] \in Classes
BY TestAssumption DEF Count

LEMMA JobsTyped == \A c : JobsOf(c) \subseteq Jobs
BY DEF JobsOf, Jobs, Ranks

LEMMA DirTyped == ASSUME NEW i \in 1..Count PROVE DirOf(i) \in Dirs
<1>1. Count \in Nat /\ Tests[i] \in Classes
  BY TestAssumption, TestsTyped DEF Count
<1>2. i \in 0..Count /\ 0 \in 0..Count
  BY <1>1
<1> QED
  BY <1>1, <1>2 DEF DirOf, Dirs

-------------------------------------------------------------------------------
(* Fixtures *)

LEMMA FixturesStep == TypeOK /\ Fixtures /\ [Next]_vars => Fixtures'
<1> SUFFICES ASSUME TypeOK, Fixtures, [Next]_vars PROVE Fixtures'
  OBVIOUS
<1> USE DEF Fixtures, InTest
<1>0. Count \in Nat /\ next \in 1..(Count + 1)
  BY SeparateNumbers
<1>1. CASE RerunUnderFlux \/ Killed
  BY <1>1 DEF RerunUnderFlux, Killed
<1>2. CASE ChangeClass
  BY <1>0, <1>2 DEF ChangeClass, ClassAt
<1>3. CASE SubmitJobs
  BY <1>3 DEF SubmitJobs, SetUpFails
<1>4. CASE AwaitStart
  BY <1>4 DEF AwaitStart, testVars
<1>5. CASE VerifyJobs
  BY <1>5 DEF VerifyJobs, SetUpFails
<1>6. CASE SkipTest
  BY <1>6 DEF SkipTest
<1>7. CASE StartTest
  BY <1>0, <1>7 DEF StartTest, testVars, ClassAt
<1>8. CASE PlainTest
  BY <1>8 DEF PlainTest
<1>9. CASE MakeHelper
  BY <1>9 DEF MakeHelper
<1>10. CASE RunTest
  BY <1>10 DEF RunTest
<1>11. CASE Report
  BY <1>11 DEF Report
<1>12. CASE PrintPlan \/ Exit
  BY <1>12 DEF PrintPlan, Exit, testVars
<1>13. CASE \E j \in Jobs : JobStarts(j) \/ JobEnds(j) \/ ListFollows(j)
  BY <1>13 DEF JobStarts, JobEnds, ListFollows, testVars
<1>14. CASE UNCHANGED vars
  BY <1>14 DEF vars, testVars
<1> QED
  BY <1>1, <1>2, <1>3, <1>4, <1>5, <1>6, <1>7, <1>8, <1>9, <1>10, <1>11, <1>12, <1>13,
     <1>14 DEF Next, Program

-------------------------------------------------------------------------------
(* Redirected output and the counter *)

LEMMA RedirectedStep == TypeOK /\ Fixtures /\ Redirected /\ [Next]_vars => Redirected'
<1> SUFFICES ASSUME TypeOK, Fixtures, Redirected, [Next]_vars PROVE Redirected'
  OBVIOUS
<1> USE DEF Redirected, InTest
<1>0. Count \in Nat /\ next \in Nat /\ testsRun \in Nat
  BY SeparateNumbers
<1>1. CASE RerunUnderFlux \/ Killed
  BY <1>1 DEF RerunUnderFlux, Killed, tapVars
<1>2. CASE ChangeClass
  BY <1>2 DEF ChangeClass, tapVars
<1>3. CASE SubmitJobs
  BY <1>3 DEF SubmitJobs, SetUpFails
<1>4. CASE AwaitStart
  BY <1>4 DEF AwaitStart, tapVars
<1>5. CASE VerifyJobs
  BY <1>5 DEF VerifyJobs, SetUpFails
<1>6. CASE SkipTest
  BY <1>0, <1>6 DEF SkipTest, tapVars
<1>7. CASE StartTest
  BY <1>0, <1>7 DEF StartTest
<1>8. CASE PlainTest
  BY <1>8 DEF PlainTest, tapVars
<1>9. CASE MakeHelper
  BY <1>9 DEF MakeHelper, tapVars
<1>10. CASE RunTest
  BY <1>10 DEF RunTest, tapVars
<1>11. CASE Report
  <2>1. pc = "report" /\ stdout' = TRUE /\ next' = next + 1 /\ testsRun' = testsRun
    BY <1>11 DEF Report
  <2>2. Count' = Count
    BY DEF Count
  <2> QED
    BY <1>0, <2>1, <2>2
<1>12. CASE PrintPlan \/ Exit
  BY <1>12 DEF PrintPlan, Exit, tapVars
<1>13. CASE \E j \in Jobs : JobStarts(j) \/ JobEnds(j) \/ ListFollows(j)
  BY <1>13 DEF JobStarts, JobEnds, ListFollows, tapVars
<1>14. CASE UNCHANGED vars
  BY <1>14 DEF vars, tapVars
<1> QED
  BY <1>1, <1>2, <1>3, <1>4, <1>5, <1>6, <1>7, <1>8, <1>9, <1>10, <1>11, <1>12, <1>13,
     <1>14 DEF Next, Program

-------------------------------------------------------------------------------
(* Locks *)

\* What another test left is not in the directory of this one.
LEMMA DirsApart ==
    ASSUME NEW i \in 1..Count, NEW k \in 1..Count, i # k
    PROVE  DirOf(k) # <<"kill", i>>
<1>1. CASE JobsOf(Tests[k]) = {}
  BY <1>1 DEF DirOf
<1>2. CASE JobsOf(Tests[k]) # {}
  BY <1>2 DEF DirOf, JobsOf
<1> QED
  BY <1>1, <1>2

LEMMA KillDir == ASSUME NEW i, Tests[i] = "kill" PROVE DirOf(i) = <<"kill", i>>
BY DEF DirOf, JobsOf

LEMMA LocksStep == TypeOK /\ Fixtures /\ LocksLeft /\ [Next]_vars => LocksLeft'
<1> SUFFICES ASSUME TypeOK, Fixtures, LocksLeft, [Next]_vars, pc # "killed", pc' # "killed"
             PROVE  LocksLeft'
  <2>1. CASE Program /\ ~Exit
    BY <2>1 DEF Program, RerunUnderFlux, ChangeClass, SubmitJobs, AwaitStart, VerifyJobs,
           SkipTest, StartTest, PlainTest, MakeHelper, RunTest, Report, PrintPlan, LocksLeft
  <2>2. CASE Exit \/ Killed \/ UNCHANGED vars
    BY <2>2 DEF Exit, Killed, vars, LocksLeft
  <2>3. CASE \E j \in Jobs : JobStarts(j) \/ JobEnds(j) \/ ListFollows(j)
    BY <2>3 DEF JobStarts, JobEnds, ListFollows, LocksLeft
  <2> QED
    BY <2>1, <2>2, <2>3 DEF Next
<1> DEFINE Left(i) == i \in 1..Count /\ (i < next \/ (i = next /\ pc = "report"))
<1>0. Count \in Nat /\ next \in Nat
  BY SeparateNumbers
<1>1. pc = "holding" => env = DirOf(next)
  BY DEF LocksLeft
<1>2. \A d \in locks : (pc = "holding" /\ d = DirOf(next)) \/ \E i : Left(i) /\ d = <<"kill", i>>
  BY DEF LocksLeft
<1>3. ASSUME pc' = "holding" => env' = DirOf(next'),
             \A d \in locks' : \/ pc' = "holding" /\ d = DirOf(next')
                              \/ \E i : Left(i)' /\ d = <<"kill", i>>
      PROVE  LocksLeft'
  BY <1>3 DEF LocksLeft, DirOf, Count
<1>4. CASE UNCHANGED locks /\ pc # "holding" /\ pc' # "holding"
           /\ (\/ next' = next /\ (pc = "report" => pc' = "report")
               \/ next' = next + 1)
  <2>1. \A i : Left(i) => Left(i)'
    BY <1>0, <1>4 DEF Count
  <2> QED
    BY <1>2, <1>3, <1>4, <2>1
<1>5. CASE UNCHANGED <<pc, next, env, locks>>
  BY <1>5 DEF LocksLeft, DirOf, Count
<1>6. CASE MakeHelper
  <2>1. pc = "body" /\ next' = next /\ pc' \in {"holding", "report"}
    BY <1>6 DEF MakeHelper
  <2>2. \A i : Left(i) => Left(i)'
    BY <2>1 DEF Count
  <2>3. CASE env' = DirOf(next) /\ locks' = locks \cup {env'} /\ pc' = "holding"
    <3>1. env' = DirOf(next')
      BY <2>1, <2>3
    <3> HIDE DEF Left
    <3> QED
      BY <1>2, <1>3, <2>1, <2>2, <2>3, <3>1
  <2>4. CASE UNCHANGED locks /\ pc' = "report"
    BY <1>2, <1>3, <2>1, <2>2, <2>4
  <2> QED
    BY <1>6, <2>3, <2>4 DEF MakeHelper
<1>7. CASE RunTest
  <2>1. /\ pc = "holding" /\ next' = next /\ pc' = "report"
        /\ locks' = locks \ {env} \/ (locks' = locks /\ class = "kill")
    BY <1>7 DEF RunTest, Released
  <2>2. \A i : Left(i) => Left(i)'
    BY <2>1 DEF Count
  <2>3. CASE locks' = locks \ {env}
    <3> HIDE DEF Left
    <3> QED
      BY <1>1, <1>2, <1>3, <2>1, <2>2, <2>3
  <2>4. CASE locks' = locks /\ class = "kill"
    <3>1. next \in 1..Count /\ Tests[next] = "kill"
      BY <1>0, <2>1, <2>4, SeparateNumbers DEF Fixtures, InTest
    <3>2. DirOf(next) = <<"kill", next>> /\ Left(next)'
      BY <2>1, <3>1, KillDir DEF Count
    <3> HIDE DEF Left
    <3> QED
      BY <1>2, <1>3, <2>1, <2>2, <2>4, <3>2
  <2> QED
    BY <2>1, <2>3, <2>4
<1>8. CASE RerunUnderFlux \/ ChangeClass \/ SubmitJobs \/ AwaitStart \/ VerifyJobs \/ SkipTest
           \/ StartTest \/ PlainTest \/ Report \/ PrintPlan
  BY <1>4, <1>8
     DEF RerunUnderFlux, ChangeClass, SubmitJobs, AwaitStart, VerifyJobs, SkipTest, StartTest,
         PlainTest, Report, PrintPlan, SetUpFails, testVars
<1>9. CASE Exit \/ (\E j \in Jobs : JobStarts(j) \/ JobEnds(j) \/ ListFollows(j)) \/ UNCHANGED vars
  BY <1>5, <1>9 DEF Exit, JobStarts, JobEnds, ListFollows, vars, testVars
<1> QED
  BY <1>6, <1>7, <1>8, <1>9 DEF Next, Program, Killed

-------------------------------------------------------------------------------
(* Jobs and the list of them *)

LEMMA MapperStep == TypeOK /\ Fixtures /\ MapperJobIsNew /\ [Next]_vars => MapperJobIsNew'
<1> SUFFICES ASSUME TypeOK, Fixtures, MapperJobIsNew, [Next]_vars,
                    \A k \in 1..Count : Tests[k] = "mapper" => next' < k
             PROVE  jobs'["m"] = "none" /\ "m" \notin listed'
  BY DEF MapperJobIsNew, Count
<1>0. Count \in Nat /\ next \in 1..(Count + 1) /\ next \in Nat
  BY SeparateNumbers
<1>1. "m" \in Jobs /\ jobs \in [Jobs -> {"none", "pending", "running", "cancelled", "gone"}]
  BY Zenon DEF Jobs, Ranks, TypeOK
<1>2. next' = next \/ next' = next + 1
  BY DEF Next, Program, RerunUnderFlux, ChangeClass, SubmitJobs, AwaitStart, VerifyJobs,
         SkipTest, StartTest, PlainTest, MakeHelper, RunTest, Report, PrintPlan, Exit,
         Killed, JobStarts, JobEnds, ListFollows, vars
<1>3. \A k \in 1..Count : Tests[k] = "mapper" => next < k
  BY <1>0, <1>2
<1>4. jobs["m"] = "none" /\ "m" \notin listed
  BY <1>3 DEF MapperJobIsNew
<1>5. CASE UNCHANGED jobVars
  BY <1>4, <1>5 DEF jobVars
<1>6. CASE ChangeClass
  <2>1. jobs' = [j \in Jobs |-> IF usable /\ Cancels(j) THEN "cancelled" ELSE jobs[j]]
           /\ listed' = listed
    BY <1>6 DEF ChangeClass
  <2>2. ~Cancels("m")
    BY <1>4 DEF Cancels
  <2> QED
    BY <1>1, <1>4, <2>1, <2>2
<1>7. CASE SubmitJobs
  <2>1. "m" \notin JobsOf(class)
    <3>1. next \in 1..Count /\ class = Tests[next]
      BY <1>0, <1>7 DEF SubmitJobs, Fixtures
    <3>2. class # "mapper"
      BY <1>3, <3>1
    <3> QED
      BY <3>2 DEF JobsOf
  <2>2. listed' = listed /\ \E some \in SUBSET JobsOf(class) :
            jobs' = [j \in Jobs |-> IF j \in some THEN "pending" ELSE jobs[j]]
    BY <1>7 DEF SubmitJobs
  <2> QED
    BY <1>1, <1>4, <2>1, <2>2
<1>8. ASSUME NEW j \in Jobs, JobStarts(j) \/ JobEnds(j)
      PROVE  jobs'["m"] = "none" /\ "m" \notin listed'
  BY <1>1, <1>4, <1>8 DEF JobStarts, JobEnds
<1>9. ASSUME NEW j \in Jobs, ListFollows(j)
      PROVE  jobs'["m"] = "none" /\ "m" \notin listed'
  BY <1>1, <1>4, <1>9 DEF ListFollows
<1>10. CASE RerunUnderFlux \/ AwaitStart \/ VerifyJobs \/ SkipTest \/ StartTest \/ PlainTest
            \/ MakeHelper \/ RunTest \/ Report \/ PrintPlan \/ Exit \/ Killed \/ UNCHANGED vars
  BY <1>5, <1>10
     DEF RerunUnderFlux, AwaitStart, VerifyJobs, SkipTest, StartTest, PlainTest, MakeHelper,
         RunTest, Report, PrintPlan, Exit, Killed, vars
<1> QED
  BY <1>6, <1>7, <1>8, <1>9, <1>10 DEF Next, Program

\* Three of three jobs are all of them.
LEMMA ThreeAreAll ==
    ASSUME NEW S, S \subseteq {"a", "b", "c"}, ~(Cardinality(S) < 3)
    PROVE  S = {"a", "b", "c"}
<1>1. IsFiniteSet({}) /\ Cardinality({}) = 0
  BY FS_EmptySet
<1>2. IsFiniteSet({"a"}) /\ Cardinality({"a"}) = 1
  <2>1. {"a"} = {} \cup {"a"}
    OBVIOUS
  <2> QED
    BY <1>1, <2>1, FS_AddElement
<1>3. IsFiniteSet({"a", "b"}) /\ Cardinality({"a", "b"}) = 2
  <2>1. {"a", "b"} = {"a"} \cup {"b"}
    OBVIOUS
  <2> QED
    BY <1>2, <2>1, FS_AddElement
<1>4. IsFiniteSet({"a", "b", "c"}) /\ Cardinality({"a", "b", "c"}) = 3
  <2>1. {"a", "b", "c"} = {"a", "b"} \cup {"c"}
    OBVIOUS
  <2> QED
    BY <1>3, <2>1, FS_AddElement
<1> DEFINE A == {"a", "b", "c"}
<1>5. Cardinality(S) <= 3 /\ (Cardinality(S) = 3 => S = A) /\ IsFiniteSet(S)
  <2>1. IsFiniteSet(A) /\ Cardinality(A) = 3 /\ S \in SUBSET A
    BY <1>4
  <2> HIDE DEF A
  <2>2. /\ IsFiniteSet(S)
        /\ Cardinality(S) <= Cardinality(A)
        /\ Cardinality(A) = Cardinality(S) => A = S
    BY <2>1, FS_Subset, Zenon
  <2> QED
    BY <2>1, <2>2
<1>6. Cardinality(S) \in Nat
  BY <1>5, FS_CardinalityType
<1> QED
  BY <1>5, <1>6

LEMMA JobsStep ==
    TypeOK /\ Fixtures /\ MapperJobIsNew /\ JobsFollowed /\ [Next]_vars => JobsFollowed'
<1> DEFINE There(j)   == jobs[j] # "none"
           Started(j) == jobs[j] \notin {"none", "pending"}
           Seen(j)    == Started(j) /\ (jobs[j] = "running" => j \in listed)
           Ready      == usable /\ (pc = "between" \/ InTest)
<1> SUFFICES ASSUME TypeOK, Fixtures, MapperJobIsNew, JobsFollowed, [Next]_vars,
                    class' = "jobs", NEW j \in JobsOf("jobs")
             PROVE  /\ pc' = "await" => There(j)'
                    /\ pc' = "verify" => Started(j)'
                    /\ Ready' => Seen(j)'
  BY DEF JobsFollowed
<1>0. /\ Count \in Nat /\ next \in 1..(Count + 1) /\ next \in Nat
      /\ j \in Jobs /\ j \in {"a", "b", "c"} /\ JobsOf("jobs") # {}
      /\ None # "jobs"
  BY SeparateNumbers, TestAssumption DEF JobsOf, Jobs, Ranks, Classes
<1>1. jobs \in [Jobs -> {"none", "pending", "running", "cancelled", "gone"}]
  BY Zenon DEF TypeOK
<1>2. class = "jobs" =>
          /\ pc = "await" => There(j)
          /\ pc = "verify" => Started(j)
          /\ Ready => Seen(j)
  BY DEF JobsFollowed
<1>3. CASE /\ UNCHANGED <<jobs, listed, class, usable>>
           /\ pc' = "await" => pc = "await"
           /\ pc' = "verify" => pc = "verify"
           /\ pc' = "between" \/ InTest' => pc = "between" \/ InTest
  BY <1>2, <1>3
<1>4. CASE RerunUnderFlux
  BY <1>0, <1>4 DEF RerunUnderFlux, testVars, Fixtures
<1>5. CASE ChangeClass
  <2>1. class' = ClassAt(next) /\ next \in 1..Count
    BY <1>0, <1>5 DEF ChangeClass, ClassAt
  <2>2. pc' = "setup"
    BY <1>0, <1>5, <2>1 DEF ChangeClass
  <2> QED
    BY <2>2 DEF InTest
<1>6. CASE SubmitJobs
  <2>1. CASE /\ jobs' = [k \in Jobs |-> IF k \in JobsOf(class) THEN "pending" ELSE jobs[k]]
             /\ pc' = "await"
    <3>1. class = "jobs"
      BY <1>6 DEF SubmitJobs
    <3>2. jobs'[j] = "pending"
      BY <1>0, <2>1, <3>1
    <3> QED
      BY <2>1, <3>2 DEF InTest
  <2>2. CASE SetUpFails
    BY <2>2 DEF SetUpFails, InTest
  <2> QED
    BY <1>6, <2>1, <2>2 DEF SubmitJobs
<1>7. CASE AwaitStart
  <2>1. class = "jobs" /\ jobs[j] # "pending" /\ jobs' = jobs /\ pc = "await"
    BY <1>7 DEF AwaitStart, testVars, jobVars
  <2>2. pc' = "verify"
    BY <1>7, <2>1 DEF AwaitStart, Verifies
  <2> QED
    BY <1>2, <2>1, <2>2 DEF InTest
<1>8. CASE VerifyJobs
  <2>1. class = "jobs" /\ jobs' = jobs /\ listed' = listed /\ pc = "verify" /\ Started(j)
    BY <1>2, <1>8 DEF VerifyJobs, jobVars
  <2>2. CASE SetUpFails
    BY <2>2 DEF SetUpFails, InTest
  <2>3. CASE ~(Cardinality(listed) < 3) /\ pc' = "between"
    <3>1. next \in 1..Count /\ Tests[next] = "jobs"
      BY <1>0, <2>1 DEF Fixtures
    <3>2. \A k \in 1..Count : Tests[k] = "mapper" => next < k
      BY <3>1, TestsTyped, LoadOrderAssumption
    <3>3. "m" \notin listed
      BY <3>2 DEF MapperJobIsNew
    <3>4. listed \subseteq {"a", "b", "c"}
      BY <3>3, Zenon DEF TypeOK, Jobs, Ranks
    <3>5. j \in listed
      BY <1>0, <2>3, <3>4, ThreeAreAll
    <3> QED
      BY <2>1, <2>3, <3>5
  <2> QED
    BY <1>8, <2>2, <2>3 DEF VerifyJobs
<1>9. ASSUME NEW k \in Jobs, JobStarts(k) \/ JobEnds(k) \/ ListFollows(k)
      PROVE  /\ pc' = "await" => There(j)'
             /\ pc' = "verify" => Started(j)'
             /\ Ready' => Seen(j)'
  <2>1. UNCHANGED <<pc, class, usable>>
    BY <1>9 DEF JobStarts, JobEnds, ListFollows, testVars
  <2>2. InTest' = InTest
    BY <2>1 DEF InTest
  <2>3. CASE JobStarts(k)
    BY <1>0, <1>1, <1>2, <2>1, <2>2, <2>3 DEF JobStarts
  <2>4. CASE JobEnds(k)
    BY <1>0, <1>1, <1>2, <2>1, <2>2, <2>4 DEF JobEnds
  <2>5. CASE ListFollows(k)
    BY <1>0, <1>1, <1>2, <2>1, <2>2, <2>5 DEF ListFollows
  <2> QED
    BY <1>9, <2>3, <2>4, <2>5
<1>10. CASE SkipTest \/ StartTest \/ PlainTest \/ MakeHelper \/ RunTest \/ Report \/ PrintPlan
            \/ Exit \/ Killed \/ UNCHANGED vars
  BY <1>3, <1>10
     DEF SkipTest, StartTest, PlainTest, MakeHelper, RunTest, Report, PrintPlan, Exit, Killed,
         vars, testVars, jobVars, InTest
<1> QED
  BY <1>4, <1>5, <1>6, <1>7, <1>8, <1>9, <1>10 DEF Next, Program

-------------------------------------------------------------------------------
(* Types *)

LEMMA TapLine ==
    ASSUME NEW w \in {"ok", "not ok", "output", "plan"}, NEW a \in 0..Count, NEW n \in 0..Count
    PROVE  Line(w, a, n) \in TapLines
BY DEF Line, TapLines

\* What is printed, by whatever step prints it.
LEMMA EmitTyped ==
    ASSUME TypeOK, NEW lines \in Seq(TapLines), Emit(lines)
    PROVE  tap' \in Seq(TapLines)
<1>1. tap \in Seq(TapLines)
  BY Zenon DEF TypeOK
<1> QED
  BY <1>1 DEF Emit

\* One element after another, or none, is a sequence.
LEMMA TwoOfThem ==
    ASSUME NEW S, NEW x \in S, NEW y \in S
    PROVE  /\ <<x>> \o <<>> \in Seq(S) /\ <<>> \o <<x>> \in Seq(S)
           /\ <<x>> \o <<y>> \in Seq(S) /\ <<x>> \in Seq(S)
OBVIOUS

\* The lines of a test, with or without output.
LEMMA ReportLines ==
    ASSUME NEW v \in {"ok", "not ok"}, NEW a \in 0..Count, NEW n \in 0..Count
    PROVE  /\ <<Line(v, a, n)>> \o <<>> \in Seq(TapLines)
           /\ <<Line(v, a, n)>> \o <<Line("output", a, n)>> \in Seq(TapLines)
           /\ <<Line("plan", 0, n)>> \in Seq(TapLines)
           /\ <<>> \o <<Line("not ok", a, n)>> \in Seq(TapLines)
           /\ <<Line("output", a, n)>> \o <<Line("not ok", a, n)>> \in Seq(TapLines)
<1>1. /\ Line(v, a, n) \in TapLines /\ Line("output", a, n) \in TapLines
      /\ Line("not ok", a, n) \in TapLines
  BY TapLine
<1>2. Line("plan", 0, n) \in TapLines
  BY CountTyped, TapLine
<1> QED
  BY <1>1, <1>2, TwoOfThem, Zenon

\* How the types are established after a step, in two halves.
ControlTypes ==
    /\ pc \in {"start", "between", "setup", "await", "verify", "body", "holding",
               "report", "plan", "exited", "killed"}
    /\ next \in 1..(Count + 1)
    /\ class \in Classes \cup {None}
    /\ usable \in BOOLEAN
    /\ verdict \in {"ok", "not ok"}
    /\ outer \in {"running", "success", "failure"}

SharedTypes ==
    /\ env \in Dirs \cup {None}
    /\ locks \subseteq Dirs
    /\ jobs \in [Jobs -> {"none", "pending", "running", "cancelled", "gone"}]
    /\ listed \subseteq Jobs

OutputTypes ==
    /\ testsRun \in 0..Count
    /\ stdout \in BOOLEAN
    /\ failed \in BOOLEAN
    /\ tap \in Seq(TapLines)

LEMMA TypesTogether == TypeOK <=> ControlTypes /\ SharedTypes /\ OutputTypes
BY Zenon DEF TypeOK, ControlTypes, SharedTypes, OutputTypes

LEMMA ControlStep == TypeOK /\ Fixtures /\ [Next]_vars => ControlTypes'
<1> SUFFICES ASSUME TypeOK, Fixtures, [Next]_vars PROVE ControlTypes'
  OBVIOUS
<1> USE DEF ControlTypes
<1>0. ControlTypes /\ Count' = Count /\ ClassAt(next) \in Classes \cup {None}
  BY TypesTogether, TestsTyped DEF Count, ClassAt
<1>1. next <= Count => next + 1 \in 1..(Count + 1)
  BY SeparateNumbers
<1>2. CASE RerunUnderFlux \/ AwaitStart \/ StartTest \/ PrintPlan \/ Killed \/ Exit
           \/ UNCHANGED vars
  BY <1>0, <1>2
     DEF RerunUnderFlux, AwaitStart, StartTest, PrintPlan, Killed, Exit, vars, testVars
<1>3. CASE ChangeClass
  BY <1>0, <1>3 DEF ChangeClass
<1>4. CASE SubmitJobs \/ VerifyJobs
  BY <1>0, <1>4 DEF SubmitJobs, VerifyJobs, SetUpFails
<1>5. CASE PlainTest \/ MakeHelper \/ RunTest
  BY <1>0, <1>5 DEF PlainTest, MakeHelper, RunTest
<1>6. CASE SkipTest
  BY <1>0, <1>1, <1>6 DEF SkipTest, testVars
<1>7. CASE Report
  <2>1. next' \in 1..(Count + 1)
    BY <1>1, <1>7 DEF Report, Fixtures, InTest
  <2> QED
    BY <1>0, <1>7, <2>1 DEF Report, testVars
<1>8. CASE \E j \in Jobs : JobStarts(j) \/ JobEnds(j) \/ ListFollows(j)
  BY <1>0, <1>8 DEF JobStarts, JobEnds, ListFollows, testVars
<1> QED
  BY <1>2, <1>3, <1>4, <1>5, <1>6, <1>7, <1>8 DEF Next, Program

LEMMA SharedStep == TypeOK /\ Fixtures /\ [Next]_vars => SharedTypes'
<1> SUFFICES ASSUME TypeOK, Fixtures, [Next]_vars PROVE SharedTypes'
  OBVIOUS
<1>1. next <= Count => next \in 1..Count
  BY SeparateNumbers
<1>2. /\ Dirs' = Dirs
      /\ env \in Dirs \cup {None} /\ locks \subseteq Dirs
      /\ jobs \in [Jobs -> {"none", "pending", "running", "cancelled", "gone"}]
      /\ listed \subseteq Jobs
  BY TypesTogether DEF Dirs, Count, SharedTypes
<1>3. CASE UNCHANGED <<env, locks, jobs, listed>>
  BY <1>2, <1>3 DEF SharedTypes
<1>4. CASE RerunUnderFlux \/ AwaitStart \/ VerifyJobs \/ SkipTest \/ StartTest \/ PlainTest
           \/ Report \/ PrintPlan \/ Killed \/ Exit \/ UNCHANGED vars
  BY <1>3, <1>4
     DEF RerunUnderFlux, AwaitStart, VerifyJobs, SkipTest, StartTest, PlainTest, Report,
         PrintPlan, Killed, Exit, vars, testVars, jobVars
<1>5. CASE ChangeClass
  BY <1>2, <1>5 DEF ChangeClass, SharedTypes
<1>6. CASE SubmitJobs
  <2>1. /\ UNCHANGED <<env, locks, listed>>
        /\ \E some \in SUBSET JobsOf(class) :
              jobs' = [j \in Jobs |-> IF j \in some THEN "pending" ELSE jobs[j]]
    BY <1>6 DEF SubmitJobs
  <2> QED
    BY <1>2, <2>1 DEF SharedTypes
<1>7. CASE MakeHelper
  <2>1. DirOf(next) \in Dirs
    BY <1>1, <1>7, DirTyped DEF MakeHelper, Fixtures, InTest
  <2>2. /\ UNCHANGED <<jobs, listed>> /\ env' \in {DirOf(next), None}
        /\ locks' = locks \/ locks' = locks \cup {DirOf(next)}
    BY <1>7 DEF MakeHelper, jobVars
  <2> QED
    BY <1>2, <2>1, <2>2 DEF SharedTypes
<1>8. CASE RunTest
  <2>1. UNCHANGED <<jobs, listed>> /\ env' = None /\ locks' \subseteq locks
    BY <1>8 DEF RunTest, jobVars
  <2> QED
    BY <1>2, <2>1 DEF SharedTypes
<1>9. ASSUME NEW j \in Jobs, JobStarts(j) \/ JobEnds(j) \/ ListFollows(j)
      PROVE  SharedTypes'
  <2>1. UNCHANGED <<env, locks>>
    BY <1>9 DEF JobStarts, JobEnds, ListFollows, testVars
  <2> QED
    BY <1>2, <1>9, <2>1 DEF JobStarts, JobEnds, ListFollows, SharedTypes
<1> QED
  BY <1>4, <1>5, <1>6, <1>7, <1>8, <1>9 DEF Next, Program

LEMMA OutputStep ==
    TypeOK /\ Fixtures /\ Redirected /\ [Next]_vars => OutputTypes'
<1> SUFFICES ASSUME TypeOK, Fixtures, Redirected, [Next]_vars PROVE OutputTypes'
  OBVIOUS
<1>1. next <= Count => next \in 0..Count
  BY SeparateNumbers
<1>2. testsRun < next /\ next <= Count => testsRun + 1 \in 0..Count
  BY SeparateNumbers
<1>3. testsRun <= next /\ testsRun # next => testsRun < next
  BY SeparateNumbers
<1>4. /\ testsRun \in 0..Count /\ stdout \in BOOLEAN /\ failed \in BOOLEAN
      /\ tap \in Seq(TapLines) /\ verdict \in {"ok", "not ok"}
      /\ Count' = Count /\ TapLines' = TapLines
  BY TypesTogether DEF OutputTypes, ControlTypes, Count, TapLines
<1>5. CASE UNCHANGED tapVars
  BY <1>4, <1>5 DEF OutputTypes, tapVars
<1>6. CASE RerunUnderFlux \/ ChangeClass \/ AwaitStart \/ SkipTest \/ PlainTest \/ MakeHelper
           \/ RunTest \/ Killed \/ Exit \/ UNCHANGED vars
  BY <1>5, <1>6
     DEF RerunUnderFlux, ChangeClass, AwaitStart, SkipTest, PlainTest, MakeHelper, RunTest,
         Killed, Exit, vars
<1>7. ASSUME SetUpFails, pc \in {"setup", "verify"}, UNCHANGED <<testsRun, stdout>>
      PROVE  OutputTypes'
  <2>1. next \in 0..Count
    BY <1>1, <1>7 DEF Fixtures
  <2>2. SetUpOutput(next) \o <<Line("not ok", next, testsRun)>> \in Seq(TapLines)
    BY <1>4, <2>1, ReportLines DEF SetUpOutput
  <2>3. tap' \in Seq(TapLines)
    BY <1>7, <2>2, EmitTyped DEF SetUpFails
  <2> QED
    BY <1>4, <1>7, <2>3 DEF OutputTypes, SetUpFails
<1>8. CASE SubmitJobs \/ VerifyJobs
  BY <1>4, <1>7, <1>8 DEF SubmitJobs, VerifyJobs, OutputTypes
<1>9. CASE StartTest
  <2>1. testsRun' \in 0..Count /\ stdout' = FALSE /\ UNCHANGED <<failed, tap>>
    BY <1>2, <1>3, <1>9 DEF StartTest, Redirected, InTest
  <2> QED
    BY <1>4, <2>1 DEF OutputTypes
<1>10. CASE Report
  <2>1. next \in 0..Count
    BY <1>1, <1>10 DEF Report, Fixtures, InTest
  <2>2. /\ Emit(<<Line(verdict, next, testsRun)>>
                   \o IF verdict = "not ok" THEN <<Line("output", next, testsRun)>> ELSE <<>>)
        /\ failed' = (failed \/ verdict = "not ok")
        /\ stdout' = TRUE /\ testsRun' = testsRun
    BY <1>10, Zenon DEF Report
  <2>3. <<Line(verdict, next, testsRun)>>
            \o (IF verdict = "not ok" THEN <<Line("output", next, testsRun)>> ELSE <<>>)
          \in Seq(TapLines)
    BY <1>4, <2>1, ReportLines
  <2>4. tap' \in Seq(TapLines)
    BY <2>2, <2>3, EmitTyped
  <2>5. failed' \in BOOLEAN
    BY <1>4, <2>2, Zenon
  <2> QED
    BY <1>4, <2>2, <2>4, <2>5 DEF OutputTypes
<1>11. CASE PrintPlan
  <2>1. Emit(<<Line("plan", 0, testsRun)>>) /\ UNCHANGED <<testsRun, stdout, failed>>
    BY <1>11 DEF PrintPlan
  <2>2. tap' \in Seq(TapLines)
    BY <1>4, <2>1, CountTyped, ReportLines, EmitTyped
  <2> QED
    BY <1>4, <2>1, <2>2 DEF OutputTypes
<1>12. CASE \E j \in Jobs : JobStarts(j) \/ JobEnds(j) \/ ListFollows(j)
  BY <1>5, <1>12 DEF JobStarts, JobEnds, ListFollows
<1> QED
  BY <1>6, <1>8, <1>9, <1>10, <1>11, <1>12 DEF Next, Program

-------------------------------------------------------------------------------
(* Explanations *)

\* Some other of these lines explains the failure that the i-th one reports.
Explains(lines, i) ==
    \E k \in 1..Len(lines) :
        /\ k = i - 1 \/ k = i + 1
        /\ lines[k].what = "output"
        /\ lines[k].about = lines[i].about

Explained(lines) == \A i \in 1..Len(lines) : lines[i].what = "not ok" => Explains(lines, i)

\* Lines that are explained among themselves, printed after others that are: what
\* was next to a line stays next to it.
LEMMA ExplainedTogether ==
    ASSUME NEW S, NEW s \in Seq(S), NEW t \in Seq(S), Explained(s), Explained(t)
    PROVE  Explained(s \o t)
<1>1. PICK n \in Nat : n = Len(s)
  OBVIOUS
<1>2. PICK l \in Nat : l = Len(t)
  OBVIOUS
<1>3. PICK u : u = s \o t
  OBVIOUS
<1>4. /\ Len(u) = n + l
      /\ \A i \in 1..n : u[i] = s[i]
      /\ \A i \in 1..l : u[n + i] = t[i]
  BY <1>1, <1>2, <1>3
<1>5. SUFFICES ASSUME NEW i \in 1..(n + l), u[i].what = "not ok"
               PROVE  \E k \in 1..(n + l) :
                          /\ k = i - 1 \/ k = i + 1
                          /\ u[k].what = "output"
                          /\ u[k].about = u[i].about
  BY <1>3, <1>4 DEF Explained, Explains
<1>6. CASE i \in 1..n
  <2>1. PICK k \in 1..n : /\ k = i - 1 \/ k = i + 1
                         /\ s[k].what = "output"
                         /\ s[k].about = s[i].about
    BY <1>1, <1>4, <1>5, <1>6 DEF Explained, Explains
  <2>2. k \in 1..(n + l)
    OBVIOUS
  <2> QED
    BY <1>4, <1>6, <2>1, <2>2
<1>7. CASE i \notin 1..n
  <2>1. PICK j \in 1..l : i = n + j
    <3>1. i - n \in 1..l /\ i = n + (i - n)
      BY <1>7
    <3> QED
      BY <3>1
  <2>2. PICK k \in 1..l : /\ k = j - 1 \/ k = j + 1
                         /\ t[k].what = "output"
                         /\ t[k].about = t[j].about
    BY <1>2, <1>4, <1>5, <2>1 DEF Explained, Explains
  <2>3. n + k \in 1..(n + l) /\ (n + k = i - 1 \/ n + k = i + 1)
    BY <2>1, <2>2
  <2> QED
    BY <1>4, <2>1, <2>2, <2>3
<1> QED
  BY <1>6, <1>7

\* The property in these terms.
LEMMA ExplainedTap == ASSUME TypeOK PROVE FailuresAreExplained <=> Explained(tap)
<1>1. tap \in Seq(TapLines)
  BY Zenon DEF TypeOK
<1>2. DOMAIN tap = 1..Len(tap)
  BY <1>1
<1> QED
  BY <1>2 DEF FailuresAreExplained, Explained, Explains

\* A failure and its output, in either order.
LEMMA PairExplained ==
    ASSUME NEW a \in 0..Count, NEW n \in 0..Count
    PROVE  /\ Explained(<<Line("output", a, n)>> \o <<Line("not ok", a, n)>>)
           /\ Explained(<<Line("not ok", a, n)>> \o <<Line("output", a, n)>>)
<1>1. PICK out : out = Line("output", a, n)
  OBVIOUS
<1>2. PICK bad : bad = Line("not ok", a, n)
  OBVIOUS
<1>3. out.what = "output" /\ out.about = a /\ bad.about = a
  BY <1>1, <1>2 DEF Line
<1>4. ASSUME NEW s, s = <<out>> \o <<bad>> \/ s = <<bad>> \o <<out>>
      PROVE  Explained(s)
  <2>1. Len(s) = 2 /\ ((s[1] = out /\ s[2] = bad) \/ (s[1] = bad /\ s[2] = out))
    BY <1>4
  <2>2. 1 \in 1..2 /\ 2 \in 1..2 /\ 1 = 2 - 1 /\ 2 = 1 + 1 /\ \A i \in 1..2 : i = 1 \/ i = 2
    OBVIOUS
  <2>3. CASE s[1] = out /\ s[2] = bad
    <3>1. Explains(s, 2) /\ s[1].what # "not ok"
      BY <1>3, <2>1, <2>2, <2>3, Zenon DEF Explains
    <3> QED
      BY <2>1, <2>2, <3>1, Zenon DEF Explained
  <2>4. CASE s[1] = bad /\ s[2] = out
    <3>1. Explains(s, 1) /\ s[2].what # "not ok"
      BY <1>3, <2>1, <2>2, <2>4, Zenon DEF Explains
    <3> QED
      BY <2>1, <2>2, <3>1, Zenon DEF Explained
  <2> QED
    BY <2>1, <2>3, <2>4
<1> QED
  BY <1>1, <1>2, <1>4

LEMMA OneElement ==
    /\ \A x : Len(<<x>>) = 1 /\ <<x>>[1] = x
    /\ \A x : Len(<<x>> \o <<>>) = 1 /\ (<<x>> \o <<>>)[1] = x
    /\ \A i \in 1..1 : i = 1
OBVIOUS

\* A single line that reports no failure.
LEMMA SingleExplained ==
    ASSUME NEW x \in TapLines, x.what # "not ok"
    PROVE  Explained(<<x>>) /\ Explained(<<x>> \o <<>>)
<1>1. ASSUME NEW s, s = <<x>> \/ s = <<x>> \o <<>>
      PROVE  Explained(s)
  <2>1. Len(s) = 1 /\ s[1] = x
    BY <1>1, OneElement, Zenon
  <2>2. \A i \in 1..1 : i = 1
    BY OneElement, Zenon
  <2> QED
    BY <2>1, <2>2, Zenon DEF Explained
<1> QED
  BY <1>1

LEMMA ExplainedStep ==
    TypeOK /\ TypeOK' /\ Fixtures /\ Redirected /\ FailuresAreExplained /\ [Next]_vars
        => FailuresAreExplained'
<1> SUFFICES ASSUME TypeOK, TypeOK', Fixtures, Redirected, FailuresAreExplained, [Next]_vars
             PROVE  FailuresAreExplained'
  OBVIOUS
<1>1. testsRun \in 0..Count /\ verdict \in {"ok", "not ok"} /\ tap \in Seq(TapLines)
  BY Zenon DEF TypeOK
<1>2. next <= Count => next \in 0..Count
  BY SeparateNumbers
<1>3. CASE UNCHANGED tap
  BY <1>3 DEF FailuresAreExplained
<1>4. ASSUME NEW lines \in Seq(TapLines), Emit(lines), Explained(lines)
      PROVE  FailuresAreExplained'
  <2>1. Explained(tap)
    BY ExplainedTap
  <2>2. Explained(tap \o lines)
    BY <1>1, <1>4, <2>1, ExplainedTogether
  <2>3. tap' = tap \o lines
    BY <1>4 DEF Emit
  <2>4. tap' \in Seq(TapLines)
    BY <1>4, EmitTyped
  <2>5. DOMAIN tap' = 1..Len(tap')
    BY <2>4
  <2>6. Explained(tap')
    BY <2>2, <2>3
  <2> QED
    BY <2>5, <2>6 DEF FailuresAreExplained, Explained, Explains
<1>5. ASSUME SetUpFails, pc \in {"setup", "verify"}
      PROVE  FailuresAreExplained'
  <2>1. next \in 0..Count
    BY <1>2, <1>5 DEF Fixtures
  <2>2. stdout = TRUE
    BY <1>5 DEF Redirected, InTest, TypeOK
  <2>3. Emit(<<Line("output", next, testsRun)>> \o <<Line("not ok", next, testsRun)>>)
    BY <1>5, <2>2 DEF SetUpFails, SetUpOutput
  <2> QED
    BY <1>1, <1>4, <2>1, <2>3, PairExplained, ReportLines
<1>6. CASE Report
  <2>1. next \in 0..Count
    BY <1>2, <1>6 DEF Report, Fixtures, InTest
  <2>2. Emit(<<Line(verdict, next, testsRun)>>
                \o IF verdict = "not ok" THEN <<Line("output", next, testsRun)>> ELSE <<>>)
    BY <1>6, Zenon DEF Report
  <2>3. CASE verdict = "not ok"
    <3>1. Emit(<<Line("not ok", next, testsRun)>> \o <<Line("output", next, testsRun)>>)
      BY <2>2, <2>3
    <3> QED
      BY <1>1, <1>4, <2>1, <3>1, PairExplained, ReportLines
  <2>4. CASE verdict = "ok"
    <3>1. Emit(<<Line("ok", next, testsRun)>> \o <<>>)
      BY <2>2, <2>4
    <3>2. Line("ok", next, testsRun) \in TapLines /\ Line("ok", next, testsRun).what = "ok"
      BY <1>1, <2>1, TapLine DEF Line
    <3> QED
      BY <1>1, <1>4, <2>1, <3>1, <3>2, SingleExplained, ReportLines
  <2> QED
    BY <1>1, <2>3, <2>4
<1>7. CASE PrintPlan
  <2>1. Emit(<<Line("plan", 0, testsRun)>>)
    BY <1>7 DEF PrintPlan
  <2>2. Line("plan", 0, testsRun) \in TapLines /\ Line("plan", 0, testsRun).what = "plan"
    BY <1>1, CountTyped, TapLine DEF Line
  <2> QED
    BY <1>1, <1>4, <2>1, <2>2, CountTyped, SingleExplained, ReportLines
<1>8. CASE SubmitJobs \/ VerifyJobs
  BY <1>3, <1>5, <1>8 DEF SubmitJobs, VerifyJobs
<1>9. CASE RerunUnderFlux \/ ChangeClass \/ AwaitStart \/ SkipTest \/ StartTest \/ PlainTest
           \/ MakeHelper \/ RunTest \/ Killed \/ Exit \/ UNCHANGED vars
           \/ \E j \in Jobs : JobStarts(j) \/ JobEnds(j) \/ ListFollows(j)
  BY <1>3, <1>9
     DEF RerunUnderFlux, ChangeClass, AwaitStart, SkipTest, StartTest, PlainTest, MakeHelper,
         RunTest, Killed, Exit, vars, tapVars, JobStarts, JobEnds, ListFollows
<1> QED
  BY <1>6, <1>7, <1>8, <1>9 DEF Next, Program

-------------------------------------------------------------------------------
(* The theorems *)

LEMMA SeparateInit == Init => Separate /\ FailuresAreExplained
<1> SUFFICES ASSUME Init PROVE Separate /\ FailuresAreExplained
  OBVIOUS
<1>1. Count \in Nat /\ 0 \in 0..Count /\ 1 \in 1..(Count + 1)
  BY CountTyped
<1>2. TypeOK
  <2>1. next = 1 /\ testsRun = 0 /\ tap = <<>>
    BY DEF Init
  <2>2. ControlTypes
    BY <1>1, <2>1 DEF Init, ControlTypes
  <2>3. SharedTypes
    BY DEF Init, SharedTypes
  <2>4. OutputTypes
    <3>1. <<>> \in Seq(TapLines)
      OBVIOUS
    <3>2. stdout = TRUE /\ failed = FALSE
      BY Zenon DEF Init
    <3> QED
      BY <1>1, <2>1, <3>1, <3>2 DEF OutputTypes
  <2> QED
    BY <2>2, <2>3, <2>4, TypesTogether
<1>3. Fixtures /\ LocksLeft /\ MapperJobIsNew /\ JobsFollowed
  BY TestAssumption, JobsTyped
     DEF Init, Fixtures, LocksLeft, MapperJobIsNew, JobsFollowed, InTest, Classes, Jobs, Ranks
<1>4. Redirected
  BY <1>1 DEF Init, Redirected
<1>5. FailuresAreExplained
  <2>1. tap = <<>> /\ DOMAIN <<>> = {}
    BY DEF Init
  <2> QED
    BY <2>1 DEF FailuresAreExplained
<1> QED
  BY <1>2, <1>3, <1>4, <1>5 DEF Separate

LEMMA InvariantStep == Separate /\ [Next]_vars => Separate'
<1> SUFFICES ASSUME Separate, [Next]_vars PROVE Separate'
  OBVIOUS
<1>1. TypeOK /\ Fixtures /\ Redirected /\ LocksLeft /\ MapperJobIsNew /\ JobsFollowed
  BY DEF Separate
<1>2. ControlTypes' /\ SharedTypes' /\ OutputTypes'
  BY <1>1, ControlStep, SharedStep, OutputStep
<1>3. TypeOK'
  BY <1>2, Zenon DEF TypeOK, ControlTypes, SharedTypes, OutputTypes
<1> QED
  BY <1>1, <1>3, FixturesStep, RedirectedStep, LocksStep, MapperStep, JobsStep DEF Separate

\* The inductive invariant of the fixtures, for every list of tests.
THEOREM AlwaysSeparate == Spec => []Separate
<1>1. Init => Separate
  BY SeparateInit
<1> QED
  BY <1>1, InvariantStep, PTL DEF Spec

\* Every variable of the test program keeps its type.
THEOREM TypeCorrect == Spec => []TypeOK
<1>1. Separate => TypeOK
  BY DEF Separate
<1> QED
  BY <1>1, AlwaysSeparate, PTL

\* No test finds a lock that another has left, however many tests of whatever
\* classes there are and however they failed.
THEOREM LocksAreAlwaysOwn == Spec => []LocksAreOwn
<1>1. Separate => LocksAreOwn
  <2> SUFFICES ASSUME Separate, pc = "body", DirOf(next) \in locks PROVE FALSE
    BY DEF LocksAreOwn
  <2>1. next \in 1..Count /\ next \in Nat
    BY SeparateNumbers DEF Separate, Fixtures, InTest
  <2>2. PICK i \in 1..Count : DirOf(next) = <<"kill", i>> /\ i < next
    BY DEF Separate, LocksLeft
  <2>3. i # next
    BY <2>1, <2>2, CountTyped
  <2> QED
    BY <2>1, <2>2, <2>3, DirsApart
<1> QED
  BY <1>1, AlwaysSeparate, PTL

\* Tests of the class with jobs see in job-list those that run, whatever the lag.
THEOREM JobsAreSeen == Spec => []JobTestsSeeJobs
<1>1. Separate => JobTestsSeeJobs
  BY DEF Separate, Fixtures, JobsFollowed, JobTestsSeeJobs, InTest
<1> QED
  BY <1>1, AlwaysSeparate, PTL

\* Every "not ok" has its explanation next to it.
THEOREM FailuresAlwaysExplained == Spec => []FailuresAreExplained
<1>1. Init => FailuresAreExplained
  BY SeparateInit
<1>2. Separate /\ FailuresAreExplained /\ [Next]_vars => FailuresAreExplained'
  BY InvariantStep, ExplainedStep DEF Separate
<1> QED
  BY <1>1, <1>2, AlwaysSeparate, PTL DEF Spec

===============================================================================
