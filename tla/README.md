# flux-pam in TLA+

flux-pam lets users log in to the compute nodes of a Flux system where they
have a job, and keeps those login sessions inside the resources of their jobs.
This directory holds TLA+ models of its two PAM callbacks, its prolog and
housekeeping scripts and the per-user state they share, and of the test program
that guards them, the TLC instances that check them and the TLAPS proofs about
them.  Paths below are relative to the
repository; `pam.py` is `src/bindings/python/flux/pam.py`.

    tlc -workers 2 -config gate.cfg MC_UserSlice
    tlapm UserSlice_proof.tla

## The system

On each node three kinds of process meet, without knowing of each other:

| process | started by | code |
| --- | --- | --- |
| prolog | the job manager, before a job's tasks start on the node | `src/scripts/flux-pam-prolog.in`, `pam.py` |
| housekeeping | the job manager, after a job freed the node | `src/scripts/flux-pam-housekeeping.in`, `pam.py` |
| login | sshd, through the account and session stacks of PAM | `src/pam/pam_flux.c` |

They communicate through state kept per user, and through nothing else:

| state | written by | read by |
| --- | --- | --- |
| flock on `/run/flux-pam/uid.UID.lock` | all three | all three |
| marker `/run/flux-pam/uid.UID.active` | prolog creates, housekeeping removes | session callback |
| runtime drop-ins of `user-UID.slice` | prolog and housekeeping (`systemctl set-property`, `revert`) | systemd |
| `user@UID.service` | prolog starts, housekeeping stops | systemd |
| scopes `flux-pam-PID.scope` in the slice | session callback | housekeeping's look for orphans |

Inputs come from the broker: `job-list` (the user's jobs on the node),
`security.owner`, the configuration `pam.*` and `exec.sdexec-constrain-resources`,
which an administrator may reload at any time, R of each job, and
`sdexec-mapper`, which turns R into properties of a systemd unit.  Exit statuses
go back to the job manager: a failed prolog fails the job, a failed
housekeeping drains the node.

### Inventory

**Account callback** (`pam_sm_acct_mgmt`).  Keeps nothing but the sentinel
`pam_flux_authorized`.  Lists the jobs in RUN on this rank of the user and,
under `allow-guest-user`, of the instance owner, and lets the first entry that
says anything decide.  Hard: the order of the list is not defined, entries may
be unreadable, the callback that relies on its decision runs later.  Correct
when it admits owners and guests with a host and nobody else, and when an
owner cannot lose the sentinel.

**Session callback** (`pam_sm_open_session`).  Acts on the sentinel only; reads
the configuration, then under the user's lock tests the marker and has systemd
move the login process to a scope in the slice, then sets the environment.
Hard: test and use of the marker are two steps; replies are lost; the process
may die at each step; the lock is waited for without a timeout.  Correct when a
session that pam_flux admitted while the feature is on is in the slice or
refused, and enters only while the user has a job.

**Lock** (`acquire_lock`, `release_lock`, `user_lock_acquire`,
`user_lock_release`).  Scripts poll it every 100 ms for 60 s, logins block.
Correct when it is held by one process at a time, exactly inside the critical
sections, and never left behind; useful when the wait of one is longer than
the hold of another.  A script that holds it may wait for the broker, which has no
timeout either (`job-list`, the lookup of R, the mapper).

**Prolog**.  Reads the configuration, locks, returns if the feature is off or
the user is the instance owner, refuses users with linger, counts the user's
other jobs, applies the union of their resources and the new job's, creates the
marker, tries to start the user manager, unlocks.

**Housekeeping**.  Reads the configuration, locks, returns as above, counts the
user's jobs; if some remain it applies the union of their resources, else it
tears the slice down: removes the marker, tries to stop the user manager, kills
what remains if `kill-user-slice` is set, reverts the drop-ins.

For both scripts, hard is that scripts of several jobs of one user overlap with
each other and with logins, that every external command can fail, hang or fail
after it had its effect, that the scripts can be killed, and that the two
scripts of one job may see different configurations.  They are correct when the
marker exists exactly as long as it should, and when a slice that sessions can
enter is confined to no more than its user's jobs hold and to no less than its
started jobs hold.

**Slice properties** (`apply_resource_constraints`, `resource_union`,
`lookup_properties`, `modify_slice`, `revert_slice`).  An update is a lookup per
job, a request to the mapper and a command; each may fail, the first for some of
the jobs only.  systemd keeps what an update does not name, so the slice is a
function of its history.  Correct when the slice is always that of one whole
update, and a script that goes on has made it for all of the jobs it counted.

**Clean-up** (`_cleanup_user_slice`, `_wait_for_slice_empty`).  SIGTERM, poll,
SIGKILL, poll, with a growing sleep between polls, everything under the lock.
Correct when processes that leave in time are noticed and the lock is given
back in bounded time, also when the clock of the wall is set meanwhile, and so that
a prolog that waits for it gives up no earlier than it must.

**Test program** (`t/python/t0001-pam.py` with `subflux.py` and `pycotap`).  Starts
itself again under a Flux instance of four brokers, runs its tests in one process
and reports them as TAP; its exit status is what `make check` believes.  Tests
share `FLUX_PAM_LOCK_DIR`, lock files, the standard output and the jobs of the
instance.  Hard: fixtures wait for jobs with no timeout, `job-list` lags behind
the events, the jobs of a class are cancelled and not waited for, a failing
`setUpClass` reports outside any test, the whole program may be killed.  Correct
when it ends, is green only if every test ran and passed, explains its failures,
and no test's failure causes another's.

**External**: the job manager, `job-list`, `sdexec-mapper`, systemd, the kernel,
sshd and other PAM modules.  **Without a model**: the denial message, the
tmpfiles.d line, build, packaging, CI, and the tests written in shell and C.

`PROJECT.json` lists each component, and each hazard at its line with the
properties that cover it.

## The modules

| specification | proofs | TLC instance |
| --- | --- | --- |
| `AccessGate`, which `UserSlice` refines | `UserSlice_proof` | `MC_UserSlice` |
| `UserSlice` | `UserSlice_proof`; `UserSlice_marker_proof`, which extends it | `MC_UserSlice` |
| `PamLogin` | `PamLogin_proof` | `MC_PamLogin` |
| `SliceProperties` | `SliceProperties_proof` | `MC_SliceProperties` |
| `SliceCleanup`, which refines steps of `UserSlice` | `SliceCleanup_proof` | `MC_SliceCleanup` |
| `TestProgram` | `TestProgram_proof` (the verdict), `TestProgram_tests_proof` (the tests among each other) | `MC_TestProgram` |

**AccessGate** is what the manuals promise, without mechanism.  Each user's gate
is closed, open or draining; sessions enter while it is open; with `Purge` a
gate that closes leaves no session inside.

**UserSlice** is the core: all scripts and logins of one node with the state
above.  `step[j]` is the program counter of job `j`'s script, `sess[s]` of login
`s`.  Each step another process can tell apart is an action, named for the
function it models, with one disjunct per outcome; a disjunct that is a failure
is guarded by membership in `Faults`.  A step that raises goes to `exit` through
`Fail`, as the exception goes to `main` through `__exit__`.  Commands that report
a failure or hang may have had their effect.  `phase[j]` is what the job
manager knows of `j`; resources are the scheduler's from `Alloc` to the end of
housekeeping, so no two users hold one at a time.  `allowed[u]` is what the slice
may use; `Resources` means unconstrained.  Times are not modelled here: a
timeout may strike whenever its fault is enabled.  The orphan check and signals
are atomic looks at `scopes`; scopes may end at any step, by themselves or by a
signal.  A cgroup that cannot be read counts as empty, as the code ignores the error
(pam.py:587): with the fault `unreadable` a look may find nothing whatever is there
(`SeesNone`).  `JobListAnswers` is what `job-list` tells a script: the present jobs, or,
with the faults `late_start` and `late_end`, a list that misses jobs whose prolog
still runs or still has jobs that are in housekeeping.

**PamLogin** is one login through both callbacks, over every list of jobs the
broker may return.  It covers what UserSlice leaves out: guests, the owner of
the instance, unreadable entries, users admitted by other modules, builds
with and without libsystemd.  What happens at the lock is here one action, `Attach`,
that succeeds or fails; UserSlice is its expansion.  An instance asked for
`access.allow-guest-user` may also never answer: the code's request has no timeout,
so the login stays where it is (`Stalls`).

**SliceProperties** is the history of one slice: updates and reverts, one after
the other because the lock is held.  An update goes through the stages of
`apply_resource_constraints`: `ActiveLocalJobs` picks any jobs, `ResourceUnion`
looks up their R, which fails for any of them, `LookupProperties` asks the mapper,
which restricts nothing, CPUs, or CPUs and devices (`mapper`) and may answer with
blank entries and without some keys, and `ModifySlice` walks the answer in any
order of its keys (`KeyOrders`), after the resets (`Reset`), one assignment of each
key (`Assign`), and runs `systemctl`, which may fail or time out after it had its
effect.  `AllowedMemoryNodes` is treated like `AllowedCPUs` by the code, so one of
them is enough.

**SliceCleanup** is one teardown and one waiting prolog with a clock.  A process
that is due runs before time passes, so that only the code's own sleeps and
the duration of subprocesses make it late.  The factor 1.5 of the back-off is
rounded up to a tick.  `now` is real time, which sleeps and the timeouts of
commands follow; `Clock` is what `time.time()` says, which an administrator or the
network may set at any moment, by `ClockStep` at most.  Its actions are those of
UserSlice's teardown taken apart and timed: `Node` is an instance of UserSlice with
one user, the job that ends, the one that starts and the login that is being
killed.  There, `sigterm`, the wait after it and `sigkill` are all `term`, time and
polls do not show, and what a timeout or an expired grace time does is a failure
that may strike at any time.

**TestProgram** is one run of the test program.  `Tests` is the class of each test
in the order unittest loads them; `pc` is the program under Flux, `outer` the exit
status of the one that started it.  unittest's treatment of class fixtures, the
scheduler and `job-list` are external actions; `SubmitJobs`, `AwaitStart` and
`VerifyJobs` are the fixtures, `StartTest`, `MakeHelper`, `RunTest` and `Report` a
test, whose assertions are reduced to a choice of `ok` and `not ok`.  The TAP
output is kept as a sequence of lines, each with the test it is about and the
number it carries.

Operators marked "Mutant:" are not part of a model.  Each is a plausible mistake
in the definition that follows; `PROJECT.json` names, for every property, the
one that it catches.

## What the runs check

| run | asks | bounds |
| --- | --- | --- |
| `gate` | UserSlice implements AccessGate; types, exclusive and never abandoned lock, the inductive invariant; every failure but `unreadable` (`Readable`), kills of processes and `kill-user-slice` | 1 user, 2 jobs, 2 logins |
| `marker` | marker and confinement agree with the jobs; the invariant of their proofs; default `kill-user-slice=false`, every failure, `job-list` up to date (`Prompt`) | 2 jobs of a user, 1 of the instance owner, 2 logins |
| `isolation` | with `kill-user-slice` no session reaches beyond its user's jobs, unless its processes outlive SIGKILL and the node is drained, and an idle user leaves nothing; the invariant of the proof of the latter | 2 jobs of a user, 1 job of another that takes over resources, 2 logins |
| `liveness` | jobs are released and logins answered, unless the broker leaves a request without an answer; every failure, kills, reloads and constraints | 1 user, 2 jobs, 1 login, 2 resources, `job-list` up to date |
| `login` | the two callbacks together, with the inductive invariant `CallbackInv`; what alone keeps an owner out, lets one escape the slice, or leaves a login waiting | up to 3 jobs, in every order and with every attribute |
| `properties` | the slice is that of one whole update, for all of the jobs when the script goes on | 3 jobs, 2 CPUs, 2 devices, up to 3 entries per list |
| `cleanup` | exits are noticed, the lock is bounded, a prolog gives up only on a teardown that could still take its timeout; the inductive invariant `ClockInv`; every step is one of UserSlice; the clock may be set | grace time 6, sleeps 1 to 2, commands 2, lock timeout 4, polls of the lock every 2, clock set by 1, in ticks |
| `suite` | the test program ends, is green only if everything passed, explains failures, keeps tests apart; the two inductive invariants (`Accounted`, `Separate`) | 7 tests of all 6 kinds, 2 of them in the class whose tests share a lock; 4 brokers of one core |

Two jobs of one user are the smallest number at which scripts of one user
overlap, each being the other's "remaining job" or "last job"; a third of
another user is needed for resources to change hands; a second login is needed
for logins to contend.  Jobs and logins happen once each, which bounds the
models; a user's slice still goes through set-up, teardown and set-up again
with two jobs.  In `cleanup` the grace time is three caps long, so that the
back-off reaches the cap before the wait ends; with an uncapped back-off
the overshoot would exceed the cap; the lock timeout is two command timeouts, as in
the code (60 s and 30 s), so that prologs do time out while the teardown is in order.  In `properties` two of the jobs share a CPU
and one has no device, so that a union over some of the jobs differs from the
whole in every way.  In `suite` one core per broker makes the last class, whose job
needs all four, wait for the jobs of the one before.

Both `marker` and `isolation` leave out a `job-list` that lags (`Prompt`), with
which the properties do not hold: a housekeeping that still sees a job that is over
leaves the slice to it, one that does not see a job yet tears down what that job's
prolog has set up.  `gate` has the lag; `liveness` leaves it out for size.

`isolation` leaves out three more failures (`AsTold`): a `systemctl stop` or
`revert` whose failure is ignored, with which `CleanWhenIdle` does not hold, and
cgroups that cannot be read, with which neither property does, by the code's
choice.  `gate` leaves out the last one too, so that `Purge` of the gate is in force.
A clean-up that finds processes left after SIGKILL (`grace_expired`) reverts the slice
under them (pam.py:709): `isolation` has it, and `Isolation` allows exactly that, a
slice whose limits are lifted (`Loose`) while the failure is on record, in the script
or with the job manager, and drains the node.

The configurations with `CHECK_DEADLOCK FALSE` are those in which every job and
login can be over, and nothing happens any more.

### What the documentation says and the code does not

| run | sentence | what happens |
| --- | --- | --- |
| `stop_timeout` | constraints "do not linger", the stop of the user manager is best effort | a stop that hangs raises TimeoutExpired, which only CalledProcessError handlers surround: clean-up and revert are skipped |
| `false_drain` | the node is drained "if processes still remain" | the error is raised after the second wait whatever the last look finds |
| `reload` | the marker means the user has an active job | switched off between prolog and housekeeping, the feature leaves the marker for good |
| `guest_owner` | a job owner is never admitted as a guest | the first job that hosts guests ends the search |

More that have no run, being plain from the lines themselves:

  - `modify_slice` documents that an empty dictionary resets the slice because it
    means "execution is unconstrained", but resets only `DeviceAllow` and
    `DevicePolicy`; CPUs and memory nodes of an earlier update stay.
  - The manual bounds the clean-up by twice the grace time, but each wait
    overshoots by up to one sleep, and commands come on top.  With default values
    this matters: twice 30 s is the 60 s that a prolog waits for the lock.
    The teardown may take 181 s, and a user's next job can fail while nothing is
    wrong.  `PrologOutwaits` says when: only if what was left of the teardown as the
    prolog found it, its remaining commands and waits at their longest, reached the
    lock timeout.  A prolog that comes during the last wait with default values, 60.5 s
    before the end at most, is the borderline; one that comes in the revert is safe.
  - With `kill-user-slice = false` the manual says that processes left behind keep
    access to resources of previous jobs (flux-config-pam.rst:349).  `revert_slice`
    lifts every limit from them (pam.py:709).
  - "PID alone is sufficient for uniqueness system-wide" (pam_flux.c:452) holds for
    processes, not for scopes: one whose first process ended lives on with its
    children, and the pid is free for another login.
  - `lookup_properties` passes on what the mapper answers; `None` would raise a
    TypeError in the caller's `len()`, although `modify_slice` documents it.
  - pycotap's `addUnexpectedSuccess` passes `self` twice and would raise a TypeError;
    the program has no expected failures.  A failed `setUpClass` is printed under
    the number of the test before it and not counted in the plan, which the exit
    status makes up for.  `rerun_under_flux` drops the program's arguments, so that
    a test named on the command line is not the only one to run.
  - A grace time of 0 means that nothing is looked at after the signals, so
    every clean-up that found processes drains the node.

## Fairness

The requests to the broker have no timeout: `Flux()` and `conf_get()` before the lock,
and under it `attr_get()`, `job-list` (pam.py:283), the lookup of R (pam.py:333) and the
request to the mapper (pam.py:391).  `UserSlice!FairSpec` therefore assumes nothing of a
script at such a step (`AsksBroker`), nor of the session callback while it reads the
configuration (`SessionAsksBroker`), nor of a login in `flock()` while the lock is held
(`WaitsForLock`).  It assumes weak fairness of the other steps of each script and login,
and of the job manager's reactions to a script that ended and to a job that ended.
Those steps end by themselves: the poll of the lock after 60 s, a subprocess after
30 s, the clean-up with its grace times, a call to systemd with sd-bus's default
timeout.  That a subprocess killed at its timeout can be waited for, as
`subprocess.run()` does, is assumed.

What follows is what the two properties say.  `JobsRelease`: a script waits for ever for
nothing but an answer of the broker to its own request.  Another script that waits so
with the lock in its hands makes it fail after 60 s, and the node is drained; this is
where the poll with a timeout matters, and the mutant is a `flock()` without one.
`LoginsResolve`: a login, whose `flock()` has no timeout, can besides be left waiting for
such a holder of the lock, and for no other one.  Weak fairness is enough for the lock
although it is taken and released by others, because scripts and logins are finitely
many in an instance; under endless contention the code itself promises nothing to
a login.  Nothing is assumed of users: no job need end, no session need exit, nothing
need fail.

`PamLogin!FairSpec` assumes that the login process runs on while a step is enabled;
a request to an instance that hangs is not.  The system's own broker is taken to answer
there; what its silence does to a login is in `UserSlice`.  `TestProgram!FairSpec` assumes the same
of the program, that the scheduler starts a job once there is room for it, and that
every job ends, because it sleeps for 300 s; `job-list` need not ever catch up.

## What is proved

All theorems hold for every value of the constants that satisfies the module's
assumption (`ConstantsAssumption`: the functions have their types, jobs and
sessions are distinct; `CleanupAssumption`: times are naturals, sleeps are
positive; `PamAssumption`: the owner is a user, the bound on lists a natural;
`SliceAssumption`: each job has CPUs and devices, and what stands for a blank or a
missing value is none of the others; `TestAssumption`: the list of tests is a sequence
of classes; `LoadOrderAssumption`, for `TestProgram_tests_proof` only: the tests of
the jobs come before those of the mapper, as unittest sorts classes by name).

**UserSlice_proof.**  `TypeCorrect` (`Spec => []TypeOK`), `LockCorrect`
(`Spec => []LockInv`) and `GateImplemented` (`Spec => GateSpec`), all from the
inductive invariant `IndInv` (`Invariance`).  `LockInv` is not inductive as it
stands, nor is the refinement a matter of single steps:

  - `ScriptInv` ties the program counter to the phase: without it, `Free` could
    restart a script that holds the lock, and a step of the prolog could occur in
    housekeeping.
  - `LockInv` says that a process is in its critical section exactly when it is
    the lock's holder, hence that two are never inside together.
  - `CheckInv` uses it.  A session that saw the marker still sees it as it
    creates its scope, and a housekeeping that saw no orphans has none when it
    reverts, because every step that could change this needs the lock.

The lemmas go conjunct by conjunct: `TypeStep`, `ScriptStepInv`, `LockStep`,
`CheckStep`.  For the refinement `GateOf(u)` is "open" with the marker,
"draining" from its removal to the end of a housekeeping that succeeds and for
as long as one that failed, "closed" otherwise; `GateStep` shows for each action
that it opens, drains or closes one gate, admits or drops one session, or
changes neither.  Housekeeping that failed leaves a draining gate that need
not be empty; that is the promise's own exception.  `NobodyIsForgotten` is what the
gate is good for: by the gate's own steps (`GateForgetsNobody`), and hence by the
node's, with `kill-user-slice` no live session has a closed gate, whatever fails but
the reading of a cgroup (`Purges`).

**UserSlice_marker_proof.**  What marker and slice promise, each with the
assumptions that its proof uses:

| theorem | property | assumes |
| --- | --- | --- |
| `StartedIsMarked` | `StartedHasMarker` | no `late_start` |
| `StartedIsCovered` | `StartedCovered` | no `late_start` |
| `MarkerIsOwned` | `MarkerHasJob` | no reload, no `late_end` |
| `MarkerIsContained` | `MarkerMeansContained` | no reload, no `late_end` |
| `NothingIsLeft` | `CleanWhenIdle` | as above, `kill-user-slice`, no `unreadable`, no `stop_error`, no `revert_error` |
| `SessionsAreIsolated` | `Isolation` | no reload, no `late_end`, `kill-user-slice`, no `unreadable` |

`CleanInvariance` (`CleanInv`), behind `NothingIsLeft`, has the same assumptions.
So a `job-list` that lags behind starts can only cost a started job its marker or
its cores, one that lags behind ends can only leave too much behind.  The argument
is three invariants on top of `IndInv`.  `PublishInv`: a job whose prolog set the
marker is one that any teardown has counted, up to the removal of the marker,
because the lock keeps new ones from being published in between.  `CoverInv`: a
script about to apply a union has counted every job that an earlier one covered.
`ExposeInv`: while sessions can enter or live, the slice is confined to jobs that
are `Pending`, which is stronger than holding resources: they still have a script
to run that will look at the slice, or failed in it; so whatever a script leaves
to "the remaining jobs" is left to somebody.  Once the marker is gone the slice may
also be `Loose`; that the failure behind it stays on record until the node is back in
service is a lemma of its own (`CleanupStaysFailed`).  `CleanInv` adds that anything dirty
has such a job.  `MarkerInvariance` puts them together as `marker` checks them.

**SliceCleanup_proof.**  `TypeCorrect`, `LockBounded` (`[]LockHeldAtMost`),
`PrologGivesUpLate` (`[]PrologOutwaits`), `ExitSeen` (`ExitNoticed`) and
`NodeImplemented` (`NodeSteps`).  The
invariant `ClockInv` bounds the end of the teardown, seen from its current step
(`EndsBy`: what that step may take and what may follow), says that no step puts it off
(`Deadlines`) and that nothing runs later than it is due (`OnTime`), and
that a slice found empty late was seen alive one sleep ago (`LastLook`).  All are
stated for a clock that is set by up to `ClockStep` in either direction, which
lengthens or shortens each wait by that much and no more.  For `PrologOutwaits` the
history variable `latest` keeps the bound that held when the prolog began to wait: the
lock is busy until then at most, so that a prolog that finds it busy after its timeout
began no later than the timeout before it.

`NodeImplemented` says that the timed teardown starts in a state that UserSlice's
inductive invariant allows (`NodeStart`) and takes steps of UserSlice only
(`NodeStepsTaken`), so what `UserSlice_proof` derives from that invariant holds of it
too, for every grace time and back-off: the failures that UserSlice lets strike at
any time cover what time can do.  Each lemma shows one kind of step:
`RaisesOnNode` that an exception is the failure of the step it interrupts,
`TeardownOnNode` that the slice is reverted only after it was seen empty or the error
was noted, `LockOnNode` that the lock changes hands through nobody.  It needs
`HandedOver`: an error is on record only when nothing but the revert and the exit is
left, and the waiting prolog has the lock only after that.  The constraints are left
out (`Constrain` is `FALSE` there).

**PamLogin_proof.**  `TypeCorrect`, `GrantsAreJustified`, `OwnersAreAdmitted`,
`OwnersAreContained` and `OthersAreLeftAlone`, for lists of any length, from
`Invariance` (`CallbackInv`).  What the callbacks promise is about their last state; the
invariant adds what the steps before rely on: `Scanned`, that no job the scan has
passed could be read as an answer, and `Progress`, what each stage finds done
(the sentinel is there exactly for a job owner, nothing is attached before the
end).  A denied owner is one the scan did not reach: `Scanned` puts the unreadable
entry that ended it before every job of the owner's.  `AnswerStands` then says that the session callback changes nothing of the
account callback's answer.

**SliceProperties_proof.**  For any jobs, CPUs and devices and lists of any length:
`UnionAlwaysComplete` (`UnionIsComplete`), because the code refuses every lookup that
is not whole (`LookupIsWhole`); `UpdatesApply` (`AppliedForAllJobs`) and
`UpdatesAreWhole` (`NoPartialUpdate`), with `TypeCorrect`, from `Invariance`.  The
invariant, `UpdateInv`, adds to the properties that no call has ended while it is under way, and that
what is about to be set is the mapper's answer for the union (`AnswerIsOwn`).  The
heart is `UpdateGrants`: after the resets, the three assignments in any order of
the keys leave a slice that depends on the answer and on nothing before, CPUs that
the answer does not name excepted.  The walk over the answer is three assignments in
one of six orders, and splitting a list is a set, so that no induction over data is
needed.

**TestProgram_proof.**  `AlwaysAccounted` (`Accounted`) and `GreenIsGreen`
(`GreenMeansAllPassed`), for every list of tests.  The invariant says that unless a
failure is on record every test before the next has its own line under its own
number, and that a class can be passed over only when one is; the plan is then
printed last, and only a program that exited by itself is reported as success.

**TestProgram_tests_proof.**  `LocksAreAlwaysOwn` (`LocksAreOwn`), `JobsAreSeen`
(`JobTestsSeeJobs`), `FailuresAlwaysExplained` (`FailuresAreExplained`) and
`TypeCorrect`, for every list of tests in the order of their classes, from
`AlwaysSeparate` (`Separate`): a test runs among the fixtures of its own class
(`Fixtures`); output is redirected during a test only (`Redirected`), so that what
`setUpClass` prints of its failure is not swallowed; a lock that is left is in a
directory that only its test uses (`LocksLeft`); the jobs of a class are in the list
once `setUpClass` has looked, for as long as they run (`JobsFollowed`).  That look
counts jobs and does not compare them: three listed jobs are the three of the class
only because the fourth, the mapper's, cannot be there yet (`MapperJobIsNew`,
`ThreeAreAll`), which is where the order of the classes comes in.  For
`FailuresAreExplained` lines are explained in the group they are printed in, and groups
put one after the other stay explained (`ExplainedTogether`).

**Model-checked only.**  Liveness (`JobsRelease`, `LoginsResolve`, `LoginAnswered`,
`Ends`), which is out of the prover's reach.

## What the models assume

  - `job-list` has heard of a job that started once its prolog is over, and has
    forgotten a job that ended once its housekeeping is.
  - What `systemctl` asks of systemd happens before its script goes on or is killed, or
    not at all.  A request that systemd carries out only after the script was killed,
    and another one got the lock, is not modelled.
  - A scope exists when StartTransientUnit has answered.  systemd answers when the
    start is queued.
  - After a failed housekeeping the administrator returns the node to service
    only when it is clean; the models stop there, so that a stale marker on a
    drained node is not carried to later jobs.
  - Users are model values: widths of uids and formats of numbers are left out.
  - The other attributes of a job that PamLogin abstracts: `first` and `guests`
    stand for the decoding of ranks, the rewriting of the URI and the
    configuration of the user's instance.
  - The mapper is not reconfigured in the middle of an update, and answers for the
    union it is asked about.

## Not modelled

  - The asynchronous start of a scope: how systemd orders the queued job and the stop
    of a later housekeeping is not in this repository.
  - Pids and widths of uids; the text of messages.
  - The assertions of the single tests, and the tests written in shell and C, which
    run one process after the other.
  - The scripts that build the documentation.
  - The denial message, the tmpfiles.d line, build, packaging and CI.

## Plan

Done: UserSlice with its refinement and the proofs of all its safety properties;
PamLogin, SliceProperties and TestProgram with the proofs of theirs; SliceCleanup with
its own and its refinement of UserSlice's teardown.  Left, in this order:

 1. A composition of UserSlice and PamLogin: UserSlice's `Account` replaced by the
    scan of a changing list of jobs, with guests and the owner among the logins.
 2. `SliceProperties` as what UserSlice's `ApplyConstraints` and `Revert` abstract:
    `allowed` there as a function of the properties here.
