--------------------------- MODULE SliceCleanup_proof ---------------------------
(***************************************************************************)
(* That the teardown holds the lock for a bounded time, for every grace    *)
(* time, back-off and timeout.  ClockInv bounds the end of the teardown,   *)
(* seen from its current step, and no step puts that end off; the rest is  *)
(* linear arithmetic, action by action.  That it is UserSlice's teardown,  *)
(* step by step, follows.                                                  *)
(***************************************************************************)
EXTENDS SliceCleanup, TLAPS

\* The bounds are numbers.
LEMMA BoundsAreNumbers ==
    /\ {Longest, LongestWait} \subseteq Nat
    /\ LongestWait = Grace + MaxInterval + ClockStep
    /\ Longest = 4 * CmdTimeout + 2 * LongestWait
BY CleanupAssumption DEF Longest, LongestWait

\* The initial states satisfy the inductive invariant.
LEMMA InitClockInv == Init => ClockInv
<1> SUFFICES ASSUME Init PROVE ClockInv
  OBVIOUS
<1> USE CleanupAssumption, BoundsAreNumbers DEF Init
<1>1. TypeOK
  <2>1. failed \in BOOLEAN
    BY Zenon
  <2> QED
    BY <2>1 DEF TypeOK, Commands, Waits, Instants
<1>2. Deadlines
  BY DEF Deadlines, Busy, EndsBy, Allowance, Rest, Commands, Waits
<1>3. LastLook
  BY DEF LastLook, Waits
<1>4. OnTime /\ LockHeldAtMost
  BY DEF OnTime, LockHeldAtMost, Busy
<1>5. PrologOutwaits /\ HandedOver
  BY DEF PrologOutwaits, HandedOver
<1> QED
  BY <1>1, <1>2, <1>3, <1>4, <1>5 DEF ClockInv

\* A pause grows from the first to the longest, and never beyond it.
LEMMA GrowBounded ==
    ASSUME NEW i \in FirstInterval..MaxInterval
    PROVE  Grow(i) \in FirstInterval..MaxInterval
BY CleanupAssumption DEF Grow

\* A subprocess is over within its timeout.
LEMMA RunBounded ==
    ASSUME TypeOK, NEW cmd, Run(cmd)
    PROVE  /\ step' = cmd /\ start' = now
           /\ wake' \in Nat /\ wake' >= now /\ wake' <= now + CmdTimeout
BY CleanupAssumption DEF Run, TypeOK

\* Every step keeps the inductive invariant.
LEMMA ClockStepKeeps == ClockInv /\ [Next]_vars => ClockInv'
<1> SUFFICES ASSUME ClockInv, [Next]_vars PROVE ClockInv'
  OBVIOUS
<1> USE CleanupAssumption, BoundsAreNumbers
    DEF ClockInv, TypeOK, Deadlines, LastLook, OnTime, LockHeldAtMost, PrologOutwaits,
        HandedOver, EndsBy, Allowance, Rest, Commands, Waits, Instants, Busy, Due, Goto,
        Empty, sliceVars, waiterVars
<1>1. CASE Raises
  BY <1>1 DEF Raises
<1>2. CASE Stopped
  BY <1>2 DEF Stopped
<1>3. CASE CheckOrphans
  BY <1>3, RunBounded DEF CheckOrphans
<1>4. CASE Signalled
  BY <1>4 DEF Signalled, Clock
<1>5. CASE PollAlive
  BY <1>5, GrowBounded DEF PollAlive, InGrace, Clock
<1>6. CASE PollEmpty
  BY <1>6, RunBounded DEF PollEmpty, InGrace, Clock
<1>7. CASE Expired
  <2>1. CASE step = "term" /\ Run("sigkill") /\ UNCHANGED failed
    BY <1>7, <2>1, RunBounded DEF Expired, InGrace, Clock
  <2>2. CASE step = "kill" /\ Run("revert") /\ failed' = TRUE
    <3>1. failed' \in BOOLEAN
      BY <2>2, Zenon
    <3> QED
      BY <1>7, <2>2, <3>1, RunBounded DEF Expired, InGrace, Clock
  <2> QED
    BY <1>7, <2>1, <2>2 DEF Expired
<1>8. CASE Reverted
  BY <1>8 DEF Reverted
<1>9. CASE ExitScript
  BY <1>9 DEF ExitScript
<1>10. CASE Exit
  <2>1. alive' \in BOOLEAN
    BY <1>10, Zenon DEF Exit
  <2> QED
    BY <1>10, <2>1 DEF Exit
<1>11. CASE Arrive
  BY <1>11 DEF Arrive, Clock
<1>12. CASE TryLock
  BY <1>12 DEF TryLock, Retries, Clock
<1>13. CASE Tick
  BY <1>13 DEF Tick, Retries
<1>14. CASE SetClock
  BY <1>14 DEF SetClock
<1>15. CASE UNCHANGED vars
  BY <1>15 DEF vars
<1> QED
  BY <1>1, <1>2, <1>3, <1>4, <1>5, <1>6, <1>7, <1>8, <1>9, <1>10, <1>11, <1>12,
     <1>13, <1>14, <1>15 DEF Next

\* The inductive invariant holds: no step of the teardown is late by more than
\* its own sleeps.
THEOREM Invariance == Spec => []ClockInv
BY InitClockInv, ClockStepKeeps, PTL DEF Spec

\* Type correctness.
THEOREM TypeCorrect == Spec => []TypeOK
<1>1. ClockInv => TypeOK
  BY DEF ClockInv
<1> QED
  BY <1>1, Invariance, PTL

\* The teardown is over, and the lock released, within Longest.
THEOREM LockBounded == Spec => []LockHeldAtMost
<1>1. ClockInv => LockHeldAtMost
  BY DEF ClockInv
<1> QED
  BY <1>1, Invariance, PTL

\* A prolog gives up only on a teardown that could still take its timeout when
\* the prolog found it, for every grace time, back-off and timeout.
THEOREM PrologGivesUpLate == Spec => []PrologOutwaits
<1>1. ClockInv => PrologOutwaits
  BY DEF ClockInv
<1> QED
  BY <1>1, Invariance, PTL

\* A slice that empties more than a cap of the back-off before the end of a
\* grace time is neither killed nor reported.
THEOREM ExitSeen == Spec => ExitNoticed
<1>1. ClockInv /\ [Next]_vars
      => [Expired /\ Grace > ClockStep
            => alive \/ emptied + MaxInterval + ClockStep >= start + Grace]_vars
  <2> SUFFICES ASSUME ClockInv, Expired, Grace > ClockStep, ~alive
               PROVE  emptied + MaxInterval + ClockStep >= start + Grace
    OBVIOUS
  <2>1. step \in Waits /\ now >= wake /\ now + ahead >= start + Grace
    BY CleanupAssumption DEF Expired, Due, InGrace, Clock, Waits, ClockInv, TypeOK
  <2>2. now <= wake
    BY <2>1 DEF ClockInv, OnTime, Busy, Waits
  <2>3. wake <= start \/ emptied + MaxInterval >= wake
    BY <2>1 DEF ClockInv, LastLook
  <2>4. ahead <= ClockStep
    BY CleanupAssumption DEF ClockInv, TypeOK
  <2> QED
    BY <2>1, <2>2, <2>3, <2>4, CleanupAssumption DEF ClockInv, TypeOK
<1> QED
  BY <1>1, Invariance, PTL DEF Spec, ExitNoticed

-------------------------------------------------------------------------------
(* The teardown on the node *)

LEMMA PairValues ==
    ASSUME NEW a, NEW b, NEW c
    PROVE  /\ Pair(a, b)["ending"] = a /\ Pair(a, b)["starting"] = b
           /\ [Pair(a, b) EXCEPT !["ending"] = c] = Pair(c, b)
           /\ [Pair(a, b) EXCEPT !["starting"] = c] = Pair(a, c)
BY DEF Pair

LEMMA UserValues ==
    ASSUME NEW a, NEW b
    PROVE  /\ OfUser(a)["user"] = a
           /\ [OfUser(a) EXCEPT !["user"] = b] = OfUser(b)
BY DEF OfUser

\* The node does not see time pass, nor a command become a wait.
LEMMA NodeUnmoved ==
    ASSUME NodeStep' = NodeStep, NodeErrs' = NodeErrs, NodeLock' = NodeLock,
           waiter' = waiter, alive' = alive, (step' = "stop") = (step = "stop")
    PROVE  UNCHANGED Node!vars
<1>1. NodeWait' = NodeWait
  BY DEF NodeWait
<1> QED
  BY <1>1 DEF Node!vars, Node!jobVars, Node!scriptVars, Node!sliceVars, Node!sessVars,
              Node!nodeVars

\* What the node keeps while the teardown's own step changes.
TeardownOnly ==
    /\ Busy /\ Busy'
    /\ NodeWait' = NodeWait /\ NodeLock = "ending" /\ NodeLock' = "ending"
    /\ waiter' = waiter /\ alive' = alive

LEMMA StaysBusy ==
    ASSUME Busy, Busy', waiter' = waiter, alive' = alive
    PROVE  TeardownOnly
BY DEF TeardownOnly, NodeWait, NodeLock

LEMMA RaisesOnNode ==
    ASSUME ClockInv, Raises
    PROVE  \/ Node!StopService("ending") \/ Node!AwaitTerm("ending") \/ Node!Revert("ending")
<1> USE PairValues, UserValues
    DEF Node!At, Node!Goto, Node!Fail, Node!jobVars, Node!sliceVars, Node!sessVars,
        Node!nodeVars
<1>1. TeardownOnly /\ NodeStep' = "exit" /\ step' = "exit"
  BY StaysBusy DEF Raises, Due, Busy, Goto, NodeStep, waiterVars, sliceVars
<1>2. NodeErrs' = NodeErrs \cup {"ending"}
  BY DEF Raises, NodeErrs, waiterVars
<1>3. CASE step = "stop"
  BY <1>1, <1>2, <1>3 DEF TeardownOnly, NodeStep, Node!StopService
<1>4. CASE step \in {"sigterm", "sigkill"}
  BY <1>1, <1>2, <1>4 DEF TeardownOnly, NodeStep, Node!AwaitTerm
<1>5. CASE step = "revert"
  BY <1>1, <1>2, <1>5 DEF TeardownOnly, NodeStep, Node!Revert
<1> QED
  BY <1>3, <1>4, <1>5 DEF Raises, Commands

\* The step of the node that each step of the teardown takes, if any.
LEMMA TeardownOnNode ==
    ASSUME ClockInv,
           \/ Stopped \/ CheckOrphans \/ Signalled \/ PollAlive \/ PollEmpty
           \/ Expired \/ Reverted
    PROVE  \/ Node!StopService("ending") \/ Node!CheckOrphans("ending")
           \/ Node!AwaitTerm("ending") \/ Node!AwaitKill("ending")
           \/ Node!Revert("ending")
           \/ UNCHANGED Node!vars
<1> USE PairValues, UserValues
    DEF Node!At, Node!Goto, Node!Fail, Node!jobVars, Node!sliceVars, Node!sessVars,
        Node!nodeVars
<1>1. TeardownOnly
  BY StaysBusy
     DEF Stopped, CheckOrphans, Signalled, PollAlive, PollEmpty, Expired, Reverted, Due,
         Busy, Goto, Run, Waits, waiterVars, sliceVars
<1>2. ASSUME failed' = failed PROVE NodeErrs' = NodeErrs
  BY <1>1, <1>2 DEF TeardownOnly, NodeErrs
<1>3. CASE Stopped
  <2>1. step = "stop" /\ step' = "orphans" /\ NodeErrs' = NodeErrs
    BY <1>2, <1>3 DEF Stopped, Goto
  <2> QED
    BY <1>1, <2>1 DEF TeardownOnly, NodeStep, Node!StopService
<1>4. CASE CheckOrphans
  <2>1. /\ step = "orphans" /\ NodeErrs' = NodeErrs
        /\ step' = IF alive THEN "sigterm" ELSE "revert"
    BY <1>2, <1>4 DEF CheckOrphans, Empty, Run
  <2> QED
    BY <1>1, <2>1 DEF TeardownOnly, NodeStep, Node!CheckOrphans, Node!SeesNone, Node!Orphans
<1>5. CASE Signalled
  <2>1. /\ NodeErrs' = NodeErrs
        /\ \/ step = "sigterm" /\ step' = "term"
           \/ step = "sigkill" /\ step' = "kill"
    BY <1>2, <1>5 DEF Signalled
  <2>2. CASE step = "sigterm"
    BY <1>1, <2>1, <2>2, NodeUnmoved DEF TeardownOnly, NodeStep
  <2>3. CASE step = "sigkill"
    BY <1>1, <2>1, <2>3 DEF TeardownOnly, NodeStep, Node!AwaitTerm
  <2> QED
    BY <2>1, <2>2, <2>3
<1>6. CASE PollAlive
  <2>1. step' = step /\ NodeErrs' = NodeErrs
    BY <1>2, <1>6 DEF PollAlive
  <2> QED
    BY <1>1, <2>1, NodeUnmoved DEF TeardownOnly, NodeStep
<1>7. CASE PollEmpty
  <2>1. /\ step \in {"term", "kill"} /\ step' = "revert" /\ NodeErrs' = NodeErrs
        /\ ~alive
    BY <1>2, <1>7 DEF PollEmpty, Run, Waits, Empty
  <2>2. CASE step = "term"
    BY <1>1, <2>1, <2>2 DEF TeardownOnly, NodeStep, Node!AwaitTerm, Node!SeesNone, Node!Orphans
  <2>3. CASE step = "kill"
    BY <1>1, <2>1, <2>3 DEF TeardownOnly, NodeStep, Node!AwaitKill, Node!SeesNone, Node!Orphans
  <2> QED
    BY <2>1, <2>2, <2>3
<1>8. CASE Expired
  <2>1. CASE step = "term" /\ Run("sigkill") /\ UNCHANGED failed
    <3>1. step' = "sigkill" /\ NodeErrs' = NodeErrs
      BY <1>2, <2>1 DEF Run
    <3> QED
      BY <1>1, <2>1, <3>1, NodeUnmoved DEF TeardownOnly, NodeStep
  <2>2. CASE step = "kill" /\ Run("revert") /\ failed' = TRUE
    <3>1. step' = "revert" /\ NodeErrs' = NodeErrs \cup {"ending"}
      BY <1>1, <2>2 DEF Run, NodeErrs, TeardownOnly
    <3> QED
      BY <1>1, <2>2, <3>1 DEF TeardownOnly, NodeStep, Node!AwaitKill
  <2> QED
    BY <1>8, <2>1, <2>2 DEF Expired
<1>9. CASE Reverted
  <2>1. step = "revert" /\ step' = "exit" /\ NodeErrs' = NodeErrs
    BY <1>2, <1>9 DEF Reverted, Goto
  <2> QED
    BY <1>1, <2>1 DEF TeardownOnly, NodeStep, Node!Revert
<1> QED
  BY <1>3, <1>4, <1>5, <1>6, <1>7, <1>8, <1>9

\* The lock goes back to the node, and the prolog may take it or give up.
LEMMA LockOnNode ==
    ASSUME ClockInv, ExitScript \/ Arrive \/ TryLock
    PROVE  \/ Node!ExitScript("ending")
           \/ Node!ReadConfig("starting") \/ Node!AcquireLock("starting")
           \/ UNCHANGED Node!vars
<1> USE PairValues, UserValues
    DEF Node!At, Node!Goto, Node!jobVars, Node!sliceVars, Node!sessVars, Node!nodeVars
<1>1. CASE ExitScript
  <2>1. /\ step = "exit" /\ step' = "end" /\ waiter # "locked"
        /\ waiter' = waiter /\ alive' = alive /\ failed' = failed
    BY <1>1 DEF ExitScript, ClockInv, HandedOver, Busy, waiterVars, sliceVars
  <2>2. /\ NodeWait' = NodeWait /\ NodeErrs' = NodeErrs
        /\ NodeLock = "ending" /\ NodeLock' = "none"
    BY <2>1 DEF NodeWait, NodeErrs, NodeLock, Busy
  <2> QED
    BY <2>1, <2>2 DEF NodeStep, Node!ExitScript, Node!Release
<1>2. CASE Arrive
  <2>1. /\ waiter = "away" /\ waiter' = "waiting"
        /\ step' = step /\ alive' = alive /\ failed' = failed
    BY <1>2 DEF Arrive, sliceVars
  <2>2. /\ NodeStep' = NodeStep /\ NodeErrs' = NodeErrs /\ NodeLock' = NodeLock
        /\ NodeWait = "init" /\ NodeWait' = "lock"
    BY <2>1 DEF NodeStep, NodeErrs, NodeLock, NodeWait, Busy
  <2>3. Pair(TRUE, waiter' # "away") = [Pair(TRUE, waiter # "away") EXCEPT !["starting"] = TRUE]
    <3>1. PICK was : was = (waiter # "away")
      OBVIOUS
    <3>2. PICK yes : yes = TRUE
      OBVIOUS
    <3>3. Pair(yes, yes) = [Pair(yes, was) EXCEPT !["starting"] = yes]
      BY PairValues
    <3>4. (waiter' # "away") = TRUE
      BY <2>1
    <3> QED
      BY <3>1, <3>2, <3>3, <3>4, Zenon
  <2>4. /\ Node!At("starting", "init") /\ Node!Goto("starting", "lock")
        /\ UNCHANGED NodeErrs
        /\ UNCHANGED <<Node!jobVars, Pair({}, {}), OfUser(NodeLock), Node!sliceVars,
                      Node!sessVars, Node!nodeVars>>
    BY <2>1, <2>2
  <2>5. Node!ReadConfig("starting")
    BY <2>3, <2>4, Zenon DEF Node!ReadConfig, Node!ConfGet
  <2> QED
    BY <2>5
<1>3. CASE TryLock
  <2>1. /\ waiter = "waiting" /\ waiter' \in {"waiting", "locked", "timedout"}
        /\ waiter' = "locked" => ~Busy
        /\ step' = step /\ alive' = alive /\ failed' = failed
    BY <1>3 DEF TryLock, Retries, sliceVars
  <2>2. NodeStep' = NodeStep /\ NodeWait = "lock"
    BY <2>1 DEF NodeStep, NodeWait
  <2>3. CASE waiter' = "waiting"
    <3>1. NodeErrs' = NodeErrs /\ NodeLock' = NodeLock
      BY <2>1, <2>3 DEF NodeErrs, NodeLock, Busy
    <3> QED
      BY <2>1, <2>2, <2>3, <3>1, NodeUnmoved
  <2>4. CASE waiter' = "locked"
    <3>1. /\ NodeErrs' = NodeErrs /\ NodeWait' = "check"
          /\ NodeLock = "none" /\ NodeLock' = "starting"
      BY <2>1, <2>4 DEF NodeErrs, NodeLock, NodeWait, Busy
    <3> QED
      BY <2>1, <2>2, <2>4, <3>1 DEF Node!AcquireLock, Node!LockFree, Node!Take
  <2>5. CASE waiter' = "timedout"
    <3>1. /\ NodeErrs' = NodeErrs \cup {"starting"} /\ NodeWait' = "end"
          /\ NodeLock' = NodeLock
      BY <2>1, <2>5 DEF NodeErrs, NodeLock, NodeWait, Busy
    <3> QED
      BY <2>1, <2>2, <2>5, <3>1 DEF Node!AcquireLock, Node!GivesUp
  <2> QED
    BY <2>1, <2>3, <2>4, <2>5
<1> QED
  BY <1>1, <1>2, <1>3

LEMMA ExitOnNode == ASSUME ClockInv, Exit PROVE Node!ScopeExit("login")
<1>1. /\ alive = TRUE /\ alive' = FALSE
      /\ step' = step /\ failed' = failed /\ waiter' = waiter
  BY DEF Exit, ClockInv, TypeOK, waiterVars
<1>2. /\ NodeStep' = NodeStep /\ NodeErrs' = NodeErrs /\ NodeLock' = NodeLock
      /\ NodeWait' = NodeWait
  BY <1>1 DEF NodeStep, NodeErrs, NodeLock, NodeWait, Busy
<1> QED
  BY <1>1, <1>2
     DEF Node!ScopeExit, Node!SGoto, Node!jobVars, Node!scriptVars, Node!sliceVars,
         Node!nodeVars

LEMMA NodeStepsTaken == ClockInv /\ [Next]_vars => [Node!Next]_(Node!vars)
<1> SUFFICES ASSUME ClockInv, [Next]_vars PROVE Node!Next \/ UNCHANGED Node!vars
  OBVIOUS
<1>1. ASSUME NEW j \in {"ending", "starting"}, Node!ScriptStep(j) PROVE Node!Next
  BY <1>1 DEF Node!Next
<1>2. CASE Raises
  BY <1>1, <1>2, RaisesOnNode DEF Node!ScriptStep
<1>3. CASE \/ Stopped \/ CheckOrphans \/ Signalled \/ PollAlive \/ PollEmpty
           \/ Expired \/ Reverted
  BY <1>1, <1>3, TeardownOnNode DEF Node!ScriptStep
<1>4. CASE ExitScript \/ Arrive \/ TryLock
  BY <1>1, <1>4, LockOnNode DEF Node!ScriptStep
<1>5. CASE Exit
  BY <1>5, ExitOnNode DEF Node!Next
<1>6. CASE Tick \/ SetClock \/ UNCHANGED vars
  <2>1. step' = step /\ failed' = failed /\ alive' = alive /\ waiter' = waiter
    BY <1>6 DEF Tick, SetClock, vars, sliceVars, waiterVars
  <2>2. NodeStep' = NodeStep /\ NodeErrs' = NodeErrs /\ NodeLock' = NodeLock
    BY <2>1 DEF NodeStep, NodeErrs, NodeLock, Busy
  <2> QED
    BY <2>1, <2>2, NodeUnmoved
<1> QED
  BY <1>2, <1>3, <1>4, <1>5, <1>6 DEF Next

\* The node is one that UserSlice and its theorems are about.
LEMMA NodeConstants ==
    /\ Pair("user", "user") \in [{"ending", "starting"} -> {"user"}]
    /\ Pair({}, {}) \in [{"ending", "starting"} -> SUBSET {"core"}]
    /\ {"lock", "stop_timeout", "kill_error", "grace_expired", "revert_timeout"}
            \subseteq Node!FaultKinds
BY DEF Pair, Node!FaultKinds

\* The teardown begins in a state of the node that the invariant there allows.
LEMMA NodeStart == Init => Node!IndInv
<1> SUFFICES ASSUME Init PROVE Node!IndInv
  OBVIOUS
<1>1. step = "stop" /\ failed = FALSE /\ waiter = "away" /\ alive \in BOOLEAN
  BY Zenon DEF Init
<1>2. NodeStep = "stop" /\ NodeWait = "init" /\ NodeErrs = {} /\ NodeLock = "ending"
  BY <1>1 DEF NodeStep, NodeWait, NodeErrs, NodeLock, Busy
<1> USE <1>1, <1>2
    DEF Pair, OfUser, Node!Phases, Node!CommonSteps, Node!PrologSteps,
        Node!TeardownSteps, Node!LockedSteps, Node!SessPhases
<1>3. Node!TypeOK
  BY DEF Node!TypeOK
<1>4. Node!ScriptInv
  BY DEF Node!ScriptInv
<1>5. Node!LockInv
  BY DEF Node!LockInv
<1>6. Node!CheckInv
  BY DEF Node!CheckInv
<1> QED
  BY <1>3, <1>4, <1>5, <1>6 DEF Node!IndInv

\* The timed teardown, and the prolog that waits for it, take UserSlice's steps
\* only, for every grace time, back-off and timeout.
THEOREM NodeImplemented == Spec => NodeSteps
<1> QED
  BY NodeStart, NodeStepsTaken, Invariance, PTL DEF Spec, NodeSteps

===============================================================================
