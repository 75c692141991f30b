------------------------------ MODULE TestProgram ------------------------------
(***************************************************************************)
(* t/python/t0001-pam.py as "make check" runs it: the program starts       *)
(* itself again under a Flux instance of its own (subflux.py), runs its    *)
(* tests one after the other with unittest and reports them as TAP         *)
(* (pycotap), and hands the verdict back as its exit status.               *)
(*                                                                         *)
(* The tests share the environment, the lock files, the standard output    *)
(* and the jobs of the instance, whose job-list follows with a delay.      *)
(***************************************************************************)
EXTENDS Naturals, Sequences, FiniteSets

CONSTANTS
    Tests,   \* the class of each test, in the order unittest loads them
    Cores,   \* the cores of each broker
    None

\* "plain" tests pass a directory of their own to acquire_lock(), or none.  The
\* others make a PAMHelper, which takes the directory from FLUX_PAM_LOCK_DIR.
Classes == {"linger", "kill", "plain", "helper", "jobs", "mapper"}

ASSUME TestAssumption ==
    /\ Tests \in Seq(Classes)
    /\ Cores \in Nat \ {0}
    /\ None \notin Classes

\* unittest loads the classes in the order of their names, TestPAMHelperWithJobs
\* before TestPAMHelperWithMapper.
ASSUME LoadOrderAssumption ==
    \A i, k \in DOMAIN Tests : Tests[i] = "jobs" /\ Tests[k] = "mapper" => i < k

\* Mutant: one broker less.
FluxSize_Three == 3

\* __flux_size()
FluxSize == 4

\* Three jobs of one node each, and one of four nodes.
Ranks ==
    [a |-> {0}, b |-> {1}, c |-> {2}, m |-> {0, 1, 2, 3}]

Jobs == DOMAIN Ranks

JobsOf(c) == CASE c = "jobs" -> {"a", "b", "c"} [] c = "mapper" -> {"m"} [] OTHER -> {}

VARIABLES
    pc,       \* where the program under Flux is
    next,     \* the test to run
    class,    \* the class whose fixtures are set up
    usable,   \* setUpClass has not failed
    verdict,  \* how the test went
    env,      \* FLUX_PAM_LOCK_DIR
    locks,    \* the directories whose lock file is locked
    jobs,     \* the state of each job in the instance
    listed,   \* the jobs that job-list shows as running
    testsRun, \* the number of tests started
    stdout,   \* whether sys.stdout is the program's own
    failed,   \* not result.wasSuccessful()
    tap,      \* what was printed
    outer     \* the exit status the test driver sees

testVars == <<class, usable, verdict, env, locks>>
tapVars  == <<testsRun, stdout, failed, tap>>
jobVars  == <<jobs, listed>>

vars == <<pc, next, testVars, tapVars, jobVars, outer>>

\* One line of output: a result, its diagnostics, or the plan.  It is about a test,
\* or, for the first test of a class whose setUpClass failed, about that.
Line(what, about, n) == [what |-> what, about |-> about, n |-> n]

Count == Len(Tests)

\* The temporary directories: of a class, or of one of its tests.
Dirs == Classes \X (0..Count)

ClassAt(i) == IF i \in 1..Count THEN Tests[i] ELSE None

TapLines ==
    [what : {"ok", "not ok", "output", "plan"}, about : 0..Count, n : 0..Count]

TypeOK ==
    /\ pc \in {"start", "between", "setup", "await", "verify", "body", "holding",
               "report", "plan", "exited", "killed"}
    /\ next \in 1..(Count + 1)
    /\ class \in Classes \cup {None}
    /\ usable \in BOOLEAN
    /\ verdict \in {"ok", "not ok"}
    /\ env \in Dirs \cup {None}
    /\ locks \subseteq Dirs
    /\ jobs \in [Jobs -> {"none", "pending", "running", "cancelled", "gone"}]
    /\ listed \subseteq Jobs
    /\ testsRun \in 0..Count
    /\ stdout \in BOOLEAN
    /\ failed \in BOOLEAN
    /\ tap \in Seq(TapLines)
    /\ outer \in {"running", "success", "failure"}

Init ==
    /\ pc = "start"
    /\ next = 1
    /\ class = None
    /\ usable = TRUE
    /\ verdict = "ok"
    /\ env = None
    /\ locks = {}
    /\ jobs = [j \in Jobs |-> "none"]
    /\ listed = {}
    /\ testsRun = 0
    /\ stdout = TRUE
    /\ failed = FALSE
    /\ tap = <<>>
    /\ outer = "running"

Emit(lines) == tap' = tap \o lines

-------------------------------------------------------------------------------
(* The instance *)

\* The scheduler gives one core of each rank.
HasRoom(r) ==
    Cardinality({k \in Jobs : jobs[k] \in {"running", "cancelled"} /\ r \in Ranks[k]}) < Cores

JobStarts(j) ==
    /\ jobs[j] = "pending"
    /\ \A r \in Ranks[j] : r < FluxSize /\ HasRoom(r)
    /\ jobs' = [jobs EXCEPT ![j] = "running"]
    /\ UNCHANGED <<pc, next, testVars, tapVars, listed, outer>>

\* sleep 300 is over, or the job has been cancelled.
JobEnds(j) ==
    /\ jobs[j] \in {"running", "cancelled"}
    /\ jobs' = [jobs EXCEPT ![j] = "gone"]
    /\ UNCHANGED <<pc, next, testVars, tapVars, listed, outer>>

\* job-list hears of a job that started or ended.
ListFollows(j) ==
    /\ listed' = IF jobs[j] = "gone" THEN listed \ {j}
                 ELSE IF jobs[j] = "none" \/ jobs[j] = "pending" THEN listed
                 ELSE listed \cup {j}
    /\ UNCHANGED <<pc, next, testVars, tapVars, jobs, outer>>

-------------------------------------------------------------------------------
(* unittest: class fixtures *)

\* rerun_under_flux(): IN_SUBFLUX is set for the child, which goes on to run.
RerunUnderFlux ==
    /\ pc = "start"
    /\ pc' = "between"
    /\ UNCHANGED <<next, testVars, tapVars, jobVars, outer>>

Cancels(j) ==
    class # None /\ j \in JobsOf(class) /\ jobs[j] \in {"pending", "running"}

\* tearDownClass cancels the jobs without waiting for them to end.  unittest
\* does not call it when setUpClass failed.
ChangeClass ==
    /\ pc = "between"
    /\ class # ClassAt(next)
    /\ jobs' = [j \in Jobs |-> IF usable /\ Cancels(j) THEN "cancelled" ELSE jobs[j]]
    /\ class' = ClassAt(next)
    /\ usable' = TRUE
    /\ pc' = IF next > Count THEN "plan"
             ELSE IF JobsOf(ClassAt(next)) # {} THEN "setup"
             ELSE "between"
    /\ UNCHANGED <<next, verdict, env, locks, tapVars, listed, outer>>

\* Mutant: the exception is left to unittest.
SetUpOutput_None(i) == <<>>

\* setUpClass prints the exception itself, on the standard output of the moment.
SetUpOutput(i) == IF stdout THEN <<Line("output", i, testsRun)>> ELSE <<>>

\* addError without startTest: the message goes to the buffer of the test before,
\* which has been printed, and the number is that test's.
SetUpFails ==
    /\ Emit(SetUpOutput(next) \o <<Line("not ok", next, testsRun)>>)
    /\ usable' = FALSE
    /\ failed' = TRUE
    /\ pc' = "between"

\* The jobs are submitted one by one; an exception leaves the earlier ones.
SubmitJobs ==
    /\ pc = "setup"
    /\ \/ /\ jobs' = [j \in Jobs |-> IF j \in JobsOf(class) THEN "pending" ELSE jobs[j]]
          /\ pc' = "await"
          /\ UNCHANGED <<usable, tap, failed>>
       \/ /\ \E some \in SUBSET JobsOf(class) :
                jobs' = [j \in Jobs |-> IF j \in some THEN "pending" ELSE jobs[j]]
          /\ SetUpFails
    /\ UNCHANGED <<next, class, verdict, env, locks, testsRun, stdout, listed, outer>>

\* Mutant: only the start events are waited for.
Verifies_No(c) == FALSE

Verifies(c) == c = "jobs"

\* event_wait() for the start event of each, without a timeout.
AwaitStart ==
    /\ pc = "await"
    /\ \A j \in JobsOf(class) : jobs[j] # "pending"
    /\ pc' = IF Verifies(class) THEN "verify" ELSE "between"
    /\ UNCHANGED <<next, testVars, tapVars, jobVars, outer>>

\* "Verify we got all jobs running", as job-list has it.
VerifyJobs ==
    /\ pc = "verify"
    /\ IF Cardinality(listed) < 3
       THEN SetUpFails
       ELSE pc' = "between" /\ UNCHANGED <<usable, failed, tap>>
    /\ UNCHANGED <<next, class, verdict, env, locks, testsRun, stdout, jobVars, outer>>

-------------------------------------------------------------------------------
(* One test *)

\* The tests of a class whose setUpClass failed do not run and are not reported.
SkipTest ==
    /\ pc = "between"
    /\ class = ClassAt(next)
    /\ next <= Count
    /\ ~usable
    /\ next' = next + 1
    /\ UNCHANGED <<pc, testVars, tapVars, jobVars, outer>>

\* startTest() redirects the standard output.
StartTest ==
    /\ pc = "between"
    /\ class = ClassAt(next)
    /\ next <= Count
    /\ usable
    /\ testsRun' = testsRun + 1
    /\ stdout' = FALSE
    /\ pc' = "body"
    /\ UNCHANGED <<next, testVars, failed, tap, jobVars, outer>>

\* Mutant: the directory is not made.
DirOf_None(i) == None

\* The tests with jobs share the directory that setUpClass made; the others make
\* their own.
DirOf(i) == IF JobsOf(Tests[i]) = {} THEN <<Tests[i], i>> ELSE <<Tests[i], 0>>

PlainTest ==
    /\ pc = "body"
    /\ class = "plain"
    /\ verdict' \in {"ok", "not ok"}
    /\ pc' = "report"
    /\ UNCHANGED <<next, class, usable, env, locks, tapVars, jobVars, outer>>

\* PAMHelper(): an exception of the constructor, or the lock's timeout, fails the
\* test.  The tests of check_linger() make the helper before their try.
MakeHelper ==
    /\ pc = "body"
    /\ class # "plain"
    /\ \/ /\ DirOf(next) \notin locks
          /\ env' = DirOf(next)
          /\ locks' = locks \cup {env'}
          /\ pc' = "holding"
          /\ UNCHANGED verdict
       \/ /\ env' = IF class = "linger" THEN DirOf(next) ELSE None
          /\ verdict' = "not ok"
          /\ pc' = "report"
          /\ UNCHANGED locks
    /\ UNCHANGED <<next, class, usable, tapVars, jobVars, outer>>

\* Mutant: a failed assertion leaves without releasing.
Released_IfOk(v) == class # "kill" /\ v = "ok"

\* By the with statement or _cleanup_helper(); the tests of the clean-up leave
\* the descriptor open.
Released(v) == class # "kill"

\* The body passes or fails; finally the environment is restored.
RunTest ==
    /\ pc = "holding"
    /\ \E v \in {"ok", "not ok"} :
          /\ verdict' = v
          /\ locks' = IF Released(v) THEN locks \ {env} ELSE locks
    /\ env' = None
    /\ pc' = "report"
    /\ UNCHANGED <<next, class, usable, tapVars, jobVars, outer>>

\* addSuccess() or addFailure() or addError(), then stopTest(), which prints what
\* they left in the buffer and restores the standard output.
Report ==
    /\ pc = "report"
    /\ Emit(<<Line(verdict, next, testsRun)>>
                \o IF verdict = "not ok" THEN <<Line("output", next, testsRun)>> ELSE <<>>)
    /\ failed' = (failed \/ verdict = "not ok")
    /\ stdout' = TRUE
    /\ next' = next + 1
    /\ pc' = "between"
    /\ UNCHANGED <<testVars, testsRun, jobVars, outer>>

-------------------------------------------------------------------------------
(* The end *)

\* printErrors() prints the plan, unittest.main() exits.
PrintPlan ==
    /\ pc = "plan"
    /\ Emit(<<Line("plan", 0, testsRun)>>)
    /\ pc' = "exited"
    /\ UNCHANGED <<next, testVars, testsRun, stdout, failed, jobVars, outer>>

\* flux start is killed with everything under it.
Killed ==
    /\ pc \notin {"start", "exited", "killed"}
    /\ pc' = "killed"
    /\ UNCHANGED <<next, testVars, tapVars, jobVars, outer>>

\* Mutant: only a positive return code is passed on.
ChildFailed_Positive == pc = "exited" /\ failed

ChildFailed == pc = "killed" \/ failed

\* rerun_under_flux() exits with what its child returned, or returns False.
Exit ==
    /\ pc \in {"exited", "killed"}
    /\ outer = "running"
    /\ outer' = IF ChildFailed THEN "failure" ELSE "success"
    /\ UNCHANGED <<pc, next, testVars, tapVars, jobVars>>

-------------------------------------------------------------------------------

Program ==
    \/ RerunUnderFlux \/ ChangeClass \/ SubmitJobs \/ AwaitStart \/ VerifyJobs
    \/ SkipTest \/ StartTest \/ PlainTest \/ MakeHelper \/ RunTest \/ Report
    \/ PrintPlan \/ Exit

Next ==
    \/ Program
    \/ Killed
    \/ \E j \in Jobs : JobStarts(j) \/ JobEnds(j) \/ ListFollows(j)

Spec == Init /\ [][Next]_vars

\* The program runs on; the scheduler starts what fits; every job sleeps for 300s
\* at most.  job-list need not ever catch up.
FairSpec ==
    /\ Spec
    /\ WF_vars(Program)
    /\ \A j \in Jobs : WF_vars(JobStarts(j)) /\ WF_vars(JobEnds(j))

-------------------------------------------------------------------------------
(* Properties *)

\* Every "not ok" comes with output about the same failure: a failed setUpClass,
\* whose message pycotap loses, has printed its own before, and not into the
\* buffer of a test.
FailuresAreExplained ==
    \A i \in DOMAIN tap :
        tap[i].what = "not ok" =>
            \E k \in DOMAIN tap \cap {i - 1, i + 1} :
                tap[k].what = "output" /\ tap[k].about = tap[i].about

\* Success means that every test ran and passed and was counted: neither a
\* class that was passed over nor a program that died under Flux goes unnoticed.
GreenMeansAllPassed ==
    outer = "success" =>
        /\ \A i \in 1..Count : Line("ok", i, i) \in {tap[k] : k \in DOMAIN tap}
        /\ tap[Len(tap)] = Line("plan", 0, Count)

\* No test waits for a lock that an earlier one has left, however that one
\* failed: a failure does not spread.
LocksAreOwn == pc = "body" /\ class # "plain" => DirOf(next) \notin locks

\* While a test of the jobs runs, job-list shows those that have not ended:
\* the lag between the start event and the list is not the tests' to see.
JobTestsSeeJobs ==
    class = "jobs" /\ pc \in {"body", "holding"} =>
        \A j \in JobsOf("jobs") : jobs[j] = "running" => j \in listed

\* The program ends, also when the jobs that a failed setUpClass left behind
\* occupy the cores that the next class waits for.
Ends == <>(outer # "running")

-------------------------------------------------------------------------------
(* The inductive invariant behind the verdict                               *)

Lines == [what : {"ok", "not ok", "output", "plan"}, about : Nat, n : Nat]

Printed == {tap[k] : k \in DOMAIN tap}

InTest == pc \in {"body", "holding", "report"}

\* The counters are numbers, and the program is past the last test at the end only.
Counters ==
    /\ next \in 1..(Count + 1)
    /\ testsRun \in Nat
    /\ tap \in Seq(Lines)
    /\ failed \in BOOLEAN
    /\ verdict \in {"ok", "not ok"}
    /\ InTest => next <= Count
    /\ pc \in {"plan", "exited"} => next = Count + 1

\* The inductive invariant: unless a failure is on record, every test before the
\* next has run and has been reported, under its own number; a class is passed
\* over only when there is one; and the last line of a program that ended by
\* itself is the plan.
Recorded == ~usable => failed

Counted ==
    ~failed /\ pc # "killed" =>
        /\ testsRun = IF InTest THEN next ELSE next - 1
        /\ \A i \in 1..(next - 1) : Line("ok", i, i) \in Printed

PlanIsLast == pc = "exited" => tap # <<>> /\ tap[Len(tap)] = Line("plan", 0, testsRun)

Earned == outer = "success" => pc = "exited" /\ ~failed

Accounted == Counters /\ Recorded /\ Counted /\ PlanIsLast /\ Earned

\* The inductive invariant behind the tests' separation: a test runs among the
\* fixtures of its own class, which did not fail.
Fixtures ==
    /\ pc = "start" => class = None
    /\ pc \in {"setup", "await", "verify"} => next <= Count /\ class = Tests[next]
    /\ InTest => next <= Count /\ class = Tests[next] /\ usable

\* The output is redirected during a test only, and the number of the last test
\* that was started is below that of the next.
Redirected ==
    /\ stdout \/ InTest \/ pc = "killed"
    /\ testsRun <= Count
    /\ testsRun <= next
    /\ testsRun = next => InTest \/ pc = "killed"

\* A lock is held for the test that is running, or was left by a clean-up test in
\* a directory that no other test has.
LocksLeft ==
    pc # "killed" =>
        /\ pc = "holding" => env = DirOf(next)
        /\ \A d \in locks :
              \/ pc = "holding" /\ d = DirOf(next)
              \/ \E i \in 1..Count :
                    /\ d = <<"kill", i>>
                    /\ i < next \/ (i = next /\ pc = "report")

\* Before the class with the mapper no job of its is in the instance or the list.
MapperJobIsNew ==
    (\A k \in 1..Count : Tests[k] = "mapper" => next < k)
        => jobs["m"] = "none" /\ "m" \notin listed

\* The jobs of the class with jobs, from their submission on: there, started, and,
\* once setUpClass has looked, listed for as long as they run.
JobsFollowed ==
    class = "jobs" =>
        \A j \in JobsOf("jobs") :
            /\ pc = "await" => jobs[j] # "none"
            /\ pc = "verify" => jobs[j] \notin {"none", "pending"}
            /\ usable /\ (pc = "between" \/ InTest) =>
                  /\ jobs[j] \notin {"none", "pending"}
                  /\ jobs[j] = "running" => j \in listed

Separate == TypeOK /\ Fixtures /\ Redirected /\ LocksLeft /\ MapperJobIsNew /\ JobsFollowed

===============================================================================
