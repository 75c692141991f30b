----------------------------- MODULE SliceCleanup -----------------------------
(***************************************************************************)
(* The clock of one teardown: user_slice_teardown() with kill-user-slice   *)
(* holds the user's lock while it stops the user manager, signals and      *)
(* polls the slice with a growing interval, and reverts it; meanwhile the  *)
(* prolog of the user's next job polls the lock, for a limited time.       *)
(*                                                                         *)
(* Time is counted in ticks.  A process that is due to run runs before     *)
(* time passes: what is late here is late by the code's own sleeps.  Both  *)
(* waits are measured with time.time(), the clock of the wall, which may   *)
(* be set meanwhile; sleeps and the timeouts of commands do not follow it. *)
(*                                                                         *)
(* The steps are those of UserSlice, see Node below, taken apart and timed. *)
(***************************************************************************)
EXTENDS Naturals

CONSTANTS
    Grace,         \* kill-slice-grace-time
    FirstInterval, \* the first pause between two polls of the slice, 10ms
    MaxInterval,   \* the longest, 500ms
    CmdTimeout,    \* what run_subprocess() allows systemctl, 30s
    LockTimeout,   \* what acquire_lock() allows, 60s
    LockInterval,  \* the pause between two tries of the lock, 100ms
    ClockStep      \* bound on how far the clock is set, forward or back

ASSUME CleanupAssumption ==
    /\ Grace \in Nat
    /\ FirstInterval \in Nat \ {0}
    /\ MaxInterval \in Nat /\ FirstInterval <= MaxInterval
    /\ CmdTimeout \in Nat
    /\ LockTimeout \in Nat
    /\ LockInterval \in Nat \ {0}
    /\ ClockStep \in Nat

VARIABLES
    now,       \* the time since the teardown began
    ahead,     \* how much more the clock shows
    step,      \* what the teardown is doing
    start,     \* when that command began, or what the clock showed as the wait did
    wake,      \* when it goes on: a command returns or a sleep ends
    interval,  \* the next sleep of the current wait
    failed,    \* cleanup_error is set, or the script ends by an exception
    alive,     \* whether orphan processes remain in the slice
    emptied,   \* when the last of them exited
    waiter,    \* the next job's prolog: "away", "waiting", "locked", "timedout"
    since,     \* what the clock showed when it began to wait
    retry,     \* when it tries the lock again
    latest     \* history: when the teardown would be over, as it began to wait

waiterVars == <<waiter, since, retry, latest>>
sliceVars  == <<alive, emptied>>

vars == <<now, ahead, step, start, wake, interval, failed, sliceVars, waiterVars>>

Commands == {"stop", "sigterm", "sigkill", "revert"}
Waits    == {"term", "kill"}
Instants == {"orphans", "exit"}

\* How long a wait may take: it is given up one sleep after the grace time at
\* the latest, as long as the clock is not set back.
LongestWait == Grace + MaxInterval + ClockStep

Longest == 4 * CmdTimeout + 2 * LongestWait

\* What the current step may take, from its start.
Allowance ==
    IF step \in Commands THEN CmdTimeout
    ELSE IF step \in Waits THEN Grace + MaxInterval
    ELSE 0

\* What may follow it.
Rest ==
    IF step \in {"stop", "orphans"} THEN 3 * CmdTimeout + 2 * LongestWait
    ELSE IF step = "sigterm" THEN 2 * CmdTimeout + 2 * LongestWait
    ELSE IF step = "term" THEN 2 * CmdTimeout + LongestWait
    ELSE IF step = "sigkill" THEN CmdTimeout + LongestWait
    ELSE IF step = "kill" THEN CmdTimeout
    ELSE 0

\* When the teardown is over at the latest, seen from its current step.
EndsBy == start + Allowance + Rest

TypeOK ==
    /\ now \in 0..(Longest + LockInterval)
    /\ step \in Commands \cup Waits \cup Instants \cup {"end"}
    /\ ahead \in 0..ClockStep
    /\ start \in 0..(now + ClockStep)
    /\ wake \in Nat
    /\ interval \in FirstInterval..MaxInterval
    /\ failed \in BOOLEAN
    /\ alive \in BOOLEAN
    /\ emptied \in 0..now
    /\ waiter \in {"away", "waiting", "locked", "timedout"}
    /\ since \in 0..(now + ClockStep)
    /\ retry \in Nat
    /\ latest \in 0..Longest

\* The marker is cleared and systemctl stop is running.
Init ==
    /\ now = 0
    /\ ahead \in 0..ClockStep
    /\ step = "stop"
    /\ start = 0
    /\ wake \in 0..CmdTimeout
    /\ interval = FirstInterval
    /\ failed = FALSE
    /\ alive \in BOOLEAN
    /\ emptied = 0
    /\ waiter = "away"
    /\ since = 0
    /\ retry = 0
    /\ latest = 0

-------------------------------------------------------------------------------
(* The teardown *)

\* time.time()
Clock == now + ahead

\* The lock is held to the end of the with statement, however that is left.
Busy == step # "end"

Due == Busy /\ now >= wake

\* A subprocess takes any time up to its timeout.
Run(cmd) ==
    /\ step' = cmd
    /\ start' = now
    /\ \E d \in 0..CmdTimeout : wake' = now + d

\* What takes no time.
Goto(l) == step' = l /\ start' = now /\ wake' = now

\* run_subprocess() raises TimeoutExpired, or CalledProcessError where nothing
\* catches it; with cleanup_error set, either takes its place.
Raises ==
    /\ Due
    /\ \/ step \in Commands /\ now - start >= CmdTimeout
       \/ step \in {"sigterm", "sigkill"}
    /\ Goto("exit")
    /\ failed' = TRUE
    /\ UNCHANGED <<now, ahead, interval, sliceVars, waiterVars>>

\* The user manager is stopped, or systemctl says it is not.
Stopped ==
    /\ Due
    /\ step = "stop"
    /\ Goto("orphans")
    /\ UNCHANGED <<now, ahead, interval, failed, sliceVars, waiterVars>>

\* Mutant: a slice without a user manager is taken to be empty.
Empty_Unseen == TRUE

\* check_orphan_processes() finds none.
Empty == ~alive

\* _cleanup_user_slice() begins.
CheckOrphans ==
    /\ Due
    /\ step = "orphans"
    /\ IF Empty THEN Run("revert") ELSE Run("sigterm")
    /\ UNCHANGED <<now, ahead, interval, failed, sliceVars, waiterVars>>

\* _wait_for_slice_empty() begins when systemctl kill has returned.
Signalled ==
    /\ Due
    /\ \/ step = "sigterm" /\ step' = "term"
       \/ step = "sigkill" /\ step' = "kill"
    /\ start' = Clock
    /\ wake' = now
    /\ interval' = FirstInterval
    /\ UNCHANGED <<now, ahead, failed, sliceVars, waiterVars>>

\* Mutant: the interval grows without a cap.
Grow_Uncapped(i) == (3 * i + 1) \div 2

\* interval * 1.5, rounded up to a tick, but never more than the cap.
Grow(i) == LET next == (3 * i + 1) \div 2
           IN  IF next <= MaxInterval THEN next ELSE MaxInterval

\* Mutant: the wait is given up before a sleep that would outlast it.
InGrace_Early == Clock + interval - start < Grace

InGrace == Clock - start < Grace

\* One round of the loop finds processes, and sleeps.
PollAlive ==
    /\ Due
    /\ step \in Waits
    /\ InGrace
    /\ ~Empty
    /\ wake' = now + interval
    /\ interval' = Grow(interval)
    /\ UNCHANGED <<now, ahead, step, start, failed, sliceVars, waiterVars>>

PollEmpty ==
    /\ Due
    /\ step \in Waits
    /\ InGrace
    /\ Empty
    /\ Run("revert")
    /\ UNCHANGED <<now, ahead, interval, failed, sliceVars, waiterVars>>

\* The grace time is over: what is left in the slice is not looked at again
\* before SIGKILL, or before cleanup_error is set.
Expired ==
    /\ Due
    /\ ~InGrace
    /\ \/ step = "term" /\ Run("sigkill") /\ UNCHANGED failed
       \/ step = "kill" /\ Run("revert") /\ failed' = TRUE
    /\ UNCHANGED <<now, ahead, interval, sliceVars, waiterVars>>

\* The slice is reverted, and cleanup_error is raised if there is one.
Reverted ==
    /\ Due
    /\ step = "revert"
    /\ Goto("exit")
    /\ UNCHANGED <<now, ahead, interval, failed, sliceVars, waiterVars>>

\* PAMHelper.__exit__ releases the lock.
ExitScript ==
    /\ Due
    /\ step = "exit"
    /\ step' = "end"
    /\ UNCHANGED <<now, ahead, start, wake, interval, failed, sliceVars, waiterVars>>

\* The last process exits, by itself or on a signal.
Exit ==
    /\ alive
    /\ Busy
    /\ alive' = FALSE
    /\ emptied' = now
    /\ UNCHANGED <<now, ahead, step, start, wake, interval, failed, waiterVars>>

-------------------------------------------------------------------------------
(* The prolog of the user's next job, in acquire_lock() *)

Arrive ==
    /\ waiter = "away"
    /\ Busy
    /\ waiter' = "waiting"
    /\ since' = Clock
    /\ retry' = now
    /\ latest' = EndsBy
    /\ UNCHANGED <<now, ahead, step, start, wake, interval, failed, sliceVars>>

Retries == waiter = "waiting" /\ now >= retry

\* The lock is free once the teardown is over, in whatever way.
TryLock ==
    /\ Retries
    /\ \/ /\ ~Busy
          /\ waiter' = "locked"
          /\ UNCHANGED retry
       \/ /\ Busy
          /\ Clock - since >= LockTimeout
          /\ waiter' = "timedout"
          /\ UNCHANGED retry
       \/ /\ Busy
          /\ Clock - since < LockTimeout
          /\ retry' = now + LockInterval
          /\ UNCHANGED waiter
    /\ UNCHANGED <<now, ahead, step, start, wake, interval, failed, sliceVars, since, latest>>

-------------------------------------------------------------------------------

Tick ==
    /\ Busy \/ waiter = "waiting"
    /\ ~Due
    /\ ~Retries
    /\ now' = now + 1
    /\ UNCHANGED <<ahead, step, start, wake, interval, failed, sliceVars, waiterVars>>

\* The clock is set, by hand or from the network.
SetClock ==
    /\ ahead' \in 0..ClockStep
    /\ UNCHANGED <<now, step, start, wake, interval, failed, sliceVars, waiterVars>>

Next ==
    \/ Raises \/ Stopped \/ CheckOrphans \/ Signalled \/ PollAlive \/ PollEmpty
    \/ Expired \/ Reverted \/ ExitScript
    \/ Exit
    \/ Arrive \/ TryLock
    \/ Tick
    \/ SetClock

Spec == Init /\ [][Next]_vars

-------------------------------------------------------------------------------
(* Properties *)

\* When the last process leaves more than a cap of the back-off before the end
\* of a grace time, it is noticed: no SIGKILL follows and the node is not
\* drained.  Neither the growing sleeps nor a clock that is set by less than the
\* grace time may step over the end of the wait.
ExitNoticed ==
    [][Expired /\ Grace > ClockStep
        => alive \/ emptied + MaxInterval + ClockStep >= start + Grace]_vars

\* The lock is not held for longer than four commands and two waits, each by as
\* much longer as the clock is set back.
LockHeldAtMost == Busy => now <= Longest

\* The prolog gives up, and its user's next job is lost, only if the teardown it
\* found could still take the lock timeout.  One that arrives in the last wait
\* less than that before its end, or in the revert, gets the lock, however the
\* waits and the polls of the lock fall and the clock is set.
PrologOutwaits == waiter = "timedout" => latest + ClockStep >= since + LockTimeout

-------------------------------------------------------------------------------
(* The inductive invariant behind them: how late each command or wait can  *)
(* be, and that nothing runs late but by its own sleeps.                   *)

\* No step puts off the end of the teardown.
Deadlines ==
    Busy => /\ wake <= start + Allowance
            /\ EndsBy <= Longest
            /\ waiter = "waiting" => EndsBy <= latest

\* The last look at the slice is at most one sleep old.
LastLook ==
    step \in Waits =>
        /\ wake <= now + MaxInterval
        /\ alive \/ wake <= start \/ emptied + MaxInterval >= wake

OnTime ==
    /\ Busy => now <= wake
    /\ waiter = "waiting" => retry <= Longest + LockInterval /\ now <= retry
    /\ now <= Longest + LockInterval

\* A failure is only decided to be reported after the clean-up, and the lock is
\* the prolog's once the teardown has given it back.
HandedOver ==
    /\ failed => step \in {"revert", "exit", "end"}
    /\ waiter = "locked" => ~Busy

ClockInv ==
    /\ TypeOK /\ Deadlines /\ LastLook /\ OnTime
    /\ HandedOver
    /\ LockHeldAtMost /\ PrologOutwaits

-------------------------------------------------------------------------------
(* The same on the node of UserSlice, whose timeouts are failures that may *)
(* strike at any time: one user, the job that ends, the next one, and the  *)
(* login the clean-up is after, with nothing constrained.                  *)

Pair(ending, starting) ==
    [j \in {"ending", "starting"} |-> IF j = "ending" THEN ending ELSE starting]

OfUser(x) == [u \in {"user"} |-> x]

NodeStep == IF step \in {"sigterm", "term", "sigkill"} THEN "term" ELSE step

NodeWait ==
    CASE waiter = "away"     -> "init"
      [] waiter = "waiting"  -> "lock"
      [] waiter = "locked"   -> "check"
      [] waiter = "timedout" -> "end"

NodeErrs ==
    (IF failed THEN {"ending"} ELSE {})
        \cup (IF waiter = "timedout" THEN {"starting"} ELSE {})

NodeLock ==
    IF Busy THEN "ending" ELSE IF waiter = "locked" THEN "starting" ELSE "none"

Node == INSTANCE UserSlice
            WITH Users <- {"user"},
                 Jobs <- {"ending", "starting"},
                 Sessions <- {"login"},
                 Resources <- {"core"},
                 JobUser <- Pair("user", "user"),
                 JobR <- Pair({}, {}),
                 SessionUser <- [s \in {"login"} |-> "user"],
                 InstanceOwner <- "owner",
                 Constrain <- FALSE,
                 KillSlice <- TRUE,
                 AllowReload <- FALSE,
                 Faults <- {"lock", "stop_timeout", "kill_error", "grace_expired",
                            "revert_timeout"},
                 None <- "none",
                 phase <- Pair("housekeeping", "prolog"),
                 ended <- {"ending"},
                 step <- Pair(NodeStep, NodeWait),
                 conf <- Pair(TRUE, waiter # "away"),
                 cached <- Pair({}, {}),
                 errs <- NodeErrs,
                 lock <- OfUser(NodeLock),
                 marker <- {},
                 allowed <- OfUser({"core"}),
                 service <- IF step = "stop" THEN {"user"} ELSE {},
                 sess <- [s \in {"login"} |-> IF alive THEN "open" ELSE "closed"],
                 scopes <- IF alive THEN {"login"} ELSE {},
                 manage <- TRUE,
                 drained <- FALSE

\* The timed teardown begins where UserSlice's invariant allows it and takes no
\* step that UserSlice does not: what is proved of the node whatever times out,
\* the lock, the gate and the clean slice, is true of it.
NodeSteps == Node!IndInv /\ [][Node!Next]_(Node!vars)

===============================================================================
