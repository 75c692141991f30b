---------------------------- MODULE UserSlice_proof ----------------------------
(***************************************************************************)
(* Proofs about UserSlice, for every number of users, jobs and sessions,   *)
(* every configuration and every set of failures.                          *)
(***************************************************************************)
EXTENDS UserSlice, TLAPS

(* Initially no script runs and nobody holds a lock. *)
LEMMA InitIndInv == Init => IndInv
<1> SUFFICES ASSUME Init PROVE IndInv
  OBVIOUS
<1> USE ConstantsAssumption DEF Init
<1>1. TypeOK
  BY DEF TypeOK, Phases, SessPhases
<1>2. ScriptInv
  BY DEF ScriptInv, PrologSteps, TeardownSteps
<1>3. LockInv
  BY DEF LockInv, LockedSteps, CommonSteps, PrologSteps, TeardownSteps
<1>4. CheckInv
  BY DEF CheckInv, TeardownSteps
<1>5. QED
  BY <1>1, <1>2, <1>3, <1>4 DEF IndInv

-------------------------------------------------------------------------------
(* Type correctness *)

(* The variables keep their types, whatever fails. *)
LEMMA TypeStep == TypeOK /\ [Next]_vars => TypeOK'
<1> SUFFICES ASSUME TypeOK, [Next]_vars PROVE TypeOK'
  OBVIOUS
<1> USE ConstantsAssumption
<1> USE DEF TypeOK, Phases, SessPhases, LockedSteps, CommonSteps, PrologSteps,
            TeardownSteps, jobVars, scriptVars, sliceVars, sessVars, nodeVars,
            Goto, Fail, Take, Release, At
<1>1. ASSUME NEW j \in Jobs, JobManager(j) PROVE TypeOK'
  <2>1. CASE Alloc(j)
    BY <2>1 DEF Alloc
  <2>2. CASE Finish(j)
    BY <2>2 DEF Finish
  <2>3. CASE PrologFinish(j)
    <3>1. drained' \in BOOLEAN
      BY <2>3, Zenon DEF PrologFinish
    <3>2. CASE j \in errs
      BY <2>3, <3>1, <3>2 DEF PrologFinish
    <3>3. CASE j \notin errs
      BY <2>3, <3>1, <3>3 DEF PrologFinish
    <3>4. QED
      BY <3>2, <3>3
  <2>4. CASE Free(j)
    BY <2>4 DEF Free
  <2>5. CASE HousekeepingFinish(j)
    BY <2>5 DEF HousekeepingFinish
  <2>6. QED
    BY <1>1, <2>1, <2>2, <2>3, <2>4, <2>5 DEF JobManager
<1>2. ASSUME NEW j \in Jobs, ScriptStep(j) PROVE TypeOK'
  <2>1. CASE ReadConfig(j)
    BY <2>1 DEF ReadConfig, ConfGet
  <2>2. CASE AcquireLock(j)
    BY <2>2 DEF AcquireLock, GivesUp
  <2>3. CASE CheckSkip(j)
    BY <2>3 DEF CheckSkip
  <2>4. CASE CountJobs(j)
    <3>1. \A listed \in JobListAnswers(j) : listed \in SUBSET Jobs
      BY DEF ActiveLocalJobs, JobListAnswers
    <3>2. QED
      BY <2>4, <3>1 DEF CountJobs
  <2>5. CASE ApplyConstraints(j)
    <3>1. ResourceUnion(j) \in SUBSET Resources
      BY DEF ResourceUnion
    <3>2. QED
      BY <2>5, <3>1 DEF ApplyConstraints
  <2>6. CASE SetMarker(j)
    BY <2>6 DEF SetMarker
  <2>7. CASE StartService(j)
    BY <2>7 DEF StartService
  <2>8. CASE ClearMarker(j)
    BY <2>8 DEF ClearMarker
  <2>9. CASE StopService(j)
    BY <2>9 DEF StopService
  <2>10. CASE CheckOrphans(j)
    BY <2>10 DEF CheckOrphans
  <2>11. CASE AwaitTerm(j)
    BY <2>11 DEF AwaitTerm
  <2>12. CASE AwaitKill(j)
    BY <2>12 DEF AwaitKill
  <2>13. CASE Revert(j)
    BY <2>13 DEF Revert
  <2>14. CASE ExitScript(j)
    BY <2>14 DEF ExitScript
  <2>15. QED
    BY <1>2, <2>1, <2>2, <2>3, <2>4, <2>5, <2>6, <2>7, <2>8, <2>9, <2>10,
       <2>11, <2>12, <2>13, <2>14 DEF ScriptStep
<1>3. ASSUME NEW j \in Jobs, ScriptKilled(j) PROVE TypeOK'
  BY <1>3 DEF ScriptKilled
<1>4. ASSUME NEW s \in Sessions,
             Account(s) \/ LoginStep(s) \/ SessionKilled(s) \/ ScopeExit(s)
      PROVE  TypeOK'
  <2> USE DEF SGoto, SAt, Deny
  <2>1. CASE Account(s)
    BY <2>1 DEF Account
  <2>2. CASE ReadSessionConfig(s)
    BY <2>2 DEF ReadSessionConfig
  <2>3. CASE LockSession(s)
    BY <2>3 DEF LockSession
  <2>4. CASE CheckMarker(s)
    BY <2>4 DEF CheckMarker
  <2>5. CASE CreateScope(s)
    BY <2>5 DEF CreateScope
  <2>6. CASE ReleaseSession(s)
    BY <2>6 DEF ReleaseSession
  <2>7. CASE SessionKilled(s)
    BY <2>7 DEF SessionKilled
  <2>8. CASE ScopeExit(s)
    BY <2>8 DEF ScopeExit
  <2>9. QED
    BY <1>4, <2>1, <2>2, <2>3, <2>4, <2>5, <2>6, <2>7, <2>8 DEF LoginStep
<1>5. CASE Undrain \/ Reload
  BY <1>5 DEF Undrain, Reload
<1>6. CASE UNCHANGED vars
  BY <1>6 DEF vars
<1>7. QED
  BY <1>1, <1>2, <1>3, <1>4, <1>5, <1>6 DEF Next

(* TypeOK: every variable of the node keeps its type. *)
THEOREM TypeCorrect == Spec => []TypeOK
<1>1. Init => TypeOK
  BY InitIndInv DEF IndInv
<1>2. QED
  BY <1>1, TypeStep, PTL DEF Spec

-------------------------------------------------------------------------------
(* The scripts and the lock *)

(* ScriptInv is preserved by every step. *)
LEMMA ScriptStepInv == TypeOK /\ ScriptInv /\ [Next]_vars => ScriptInv'
<1> SUFFICES ASSUME TypeOK, ScriptInv, [Next]_vars PROVE ScriptInv'
  OBVIOUS
<1> USE ConstantsAssumption
<1> USE DEF TypeOK, jobVars, scriptVars, sliceVars, sessVars, nodeVars,
            Goto, Fail, Take, Release, At, ScriptInv, Phases, LockedSteps,
            CommonSteps, PrologSteps, TeardownSteps
<1>1. ASSUME NEW j \in Jobs, JobManager(j) PROVE ScriptInv'
  <2>1. CASE Alloc(j)
    BY <2>1 DEF Alloc
  <2>2. CASE Finish(j)
    BY <2>2 DEF Finish
  <2>3. CASE PrologFinish(j)
    BY <2>3 DEF PrologFinish
  <2>4. CASE Free(j)
    BY <2>4 DEF Free
  <2>5. CASE HousekeepingFinish(j)
    BY <2>5 DEF HousekeepingFinish
  <2>6. QED
    BY <1>1, <2>1, <2>2, <2>3, <2>4, <2>5 DEF JobManager
<1>2. ASSUME NEW j \in Jobs, ScriptStep(j) PROVE ScriptInv'
  <2>1. CASE ReadConfig(j)
    BY <2>1 DEF ReadConfig, ConfGet
  <2>2. CASE AcquireLock(j)
    BY <2>2 DEF AcquireLock, GivesUp
  <2>3. CASE CheckSkip(j)
    BY <2>3 DEF CheckSkip
  <2>4. CASE CountJobs(j)
    BY <2>4 DEF CountJobs
  <2>5. CASE ApplyConstraints(j)
    BY <2>5 DEF ApplyConstraints
  <2>6. CASE SetMarker(j)
    BY <2>6 DEF SetMarker
  <2>7. CASE StartService(j)
    BY <2>7 DEF StartService
  <2>8. CASE ClearMarker(j)
    BY <2>8 DEF ClearMarker
  <2>9. CASE StopService(j)
    BY <2>9 DEF StopService
  <2>10. CASE CheckOrphans(j)
    BY <2>10 DEF CheckOrphans
  <2>11. CASE AwaitTerm(j)
    BY <2>11 DEF AwaitTerm
  <2>12. CASE AwaitKill(j)
    BY <2>12 DEF AwaitKill
  <2>13. CASE Revert(j)
    BY <2>13 DEF Revert
  <2>14. CASE ExitScript(j)
    BY <2>14 DEF ExitScript
  <2>15. QED
    BY <1>2, <2>1, <2>2, <2>3, <2>4, <2>5, <2>6, <2>7, <2>8, <2>9,
       <2>10, <2>11, <2>12, <2>13, <2>14 DEF ScriptStep
<1>3. ASSUME NEW j \in Jobs, ScriptKilled(j) PROVE ScriptInv'
  BY <1>3 DEF ScriptKilled
<1>4. ASSUME NEW s \in Sessions,
             Account(s) \/ LoginStep(s) \/ SessionKilled(s) \/ ScopeExit(s)
       PROVE ScriptInv'
  <2> USE DEF SGoto, SAt, Deny
  <2>1. CASE Account(s)
    BY <2>1 DEF Account
  <2>2. CASE ReadSessionConfig(s)
    BY <2>2 DEF ReadSessionConfig
  <2>3. CASE LockSession(s)
    BY <2>3 DEF LockSession
  <2>4. CASE CheckMarker(s)
    BY <2>4 DEF CheckMarker
  <2>5. CASE CreateScope(s)
    BY <2>5 DEF CreateScope
  <2>6. CASE ReleaseSession(s)
    BY <2>6 DEF ReleaseSession
  <2>7. CASE SessionKilled(s)
    BY <2>7 DEF SessionKilled
  <2>8. CASE ScopeExit(s)
    BY <2>8 DEF ScopeExit
  <2>9. QED
    BY <1>4, <2>1, <2>2, <2>3, <2>4, <2>5, <2>6, <2>7, <2>8 DEF
       LoginStep
<1>5. CASE Undrain \/ Reload
  BY <1>5 DEF Undrain, Reload
<1>6. CASE UNCHANGED vars
  BY <1>6 DEF vars
<1>7. QED
  BY <1>1, <1>2, <1>3, <1>4, <1>5, <1>6 DEF Next

(* LockInv is preserved by every step: a script enters and leaves the locked
   steps with the lock, a scope never ends while its login is locked. *)
LEMMA LockStep == IndInv /\ [Next]_vars => LockInv'
<1> SUFFICES ASSUME IndInv, [Next]_vars PROVE LockInv'
  OBVIOUS
<1> USE ConstantsAssumption
<1> USE DEF TypeOK, jobVars, scriptVars, sliceVars, sessVars, nodeVars,
            Goto, Fail, Take, Release, At, LockInv, LockedSteps, CommonSteps,
            PrologSteps, TeardownSteps, IndInv
<1>1. ASSUME NEW j \in Jobs, JobManager(j) PROVE LockInv'
  <2>1. CASE Alloc(j)
    BY <2>1 DEF Alloc, ScriptInv
  <2>2. CASE Finish(j)
    BY <2>2 DEF Finish
  <2>3. CASE PrologFinish(j)
    BY <2>3 DEF PrologFinish
  <2>4. CASE Free(j)
    BY <2>4 DEF Free, ScriptInv
  <2>5. CASE HousekeepingFinish(j)
    BY <2>5 DEF HousekeepingFinish
  <2>6. QED
    BY <1>1, <2>1, <2>2, <2>3, <2>4, <2>5 DEF JobManager
<1>2. ASSUME NEW j \in Jobs, ScriptStep(j) PROVE LockInv'
  <2>1. CASE ReadConfig(j)
    BY <2>1 DEF ReadConfig, ConfGet
  <2>2. CASE AcquireLock(j)
    BY <2>2 DEF AcquireLock, GivesUp, LockFree
  <2>3. CASE CheckSkip(j)
    BY <2>3 DEF CheckSkip
  <2>4. CASE CountJobs(j)
    BY <2>4 DEF CountJobs
  <2>5. CASE ApplyConstraints(j)
    BY <2>5 DEF ApplyConstraints
  <2>6. CASE SetMarker(j)
    BY <2>6 DEF SetMarker
  <2>7. CASE StartService(j)
    BY <2>7 DEF StartService
  <2>8. CASE ClearMarker(j)
    BY <2>8 DEF ClearMarker
  <2>9. CASE StopService(j)
    BY <2>9 DEF StopService
  <2>10. CASE CheckOrphans(j)
    BY <2>10 DEF CheckOrphans
  <2>11. CASE AwaitTerm(j)
    BY <2>11 DEF AwaitTerm
  <2>12. CASE AwaitKill(j)
    BY <2>12 DEF AwaitKill
  <2>13. CASE Revert(j)
    BY <2>13 DEF Revert
  <2>14. CASE ExitScript(j)
    BY <2>14 DEF ExitScript
  <2>15. QED
    BY <1>2, <2>1, <2>2, <2>3, <2>4, <2>5, <2>6, <2>7, <2>8, <2>9,
       <2>10, <2>11, <2>12, <2>13, <2>14 DEF ScriptStep
<1>3. ASSUME NEW j \in Jobs, ScriptKilled(j) PROVE LockInv'
  BY <1>3 DEF ScriptKilled
<1>4. ASSUME NEW s \in Sessions,
             Account(s) \/ LoginStep(s) \/ SessionKilled(s) \/ ScopeExit(s)
       PROVE LockInv'
  <2> USE DEF SGoto, SAt, Deny
  <2>1. CASE Account(s)
    BY <2>1 DEF Account
  <2>2. CASE ReadSessionConfig(s)
    BY <2>2 DEF ReadSessionConfig
  <2>3. CASE LockSession(s)
    BY <2>3 DEF LockSession, LockFree
  <2>4. CASE CheckMarker(s)
    BY <2>4 DEF CheckMarker
  <2>5. CASE CreateScope(s)
    BY <2>5 DEF CreateScope
  <2>6. CASE ReleaseSession(s)
    BY <2>6 DEF ReleaseSession
  <2>7. CASE SessionKilled(s)
    BY <2>7 DEF SessionKilled
  <2>8. CASE ScopeExit(s)
    BY <2>8 DEF ScopeExit, CheckInv
  <2>9. QED
    BY <1>4, <2>1, <2>2, <2>3, <2>4, <2>5, <2>6, <2>7, <2>8 DEF
       LoginStep
<1>5. CASE Undrain \/ Reload
  BY <1>5 DEF Undrain, Reload
<1>6. CASE UNCHANGED vars
  BY <1>6 DEF vars
<1>7. QED
  BY <1>1, <1>2, <1>3, <1>4, <1>5, <1>6 DEF Next

(* CheckInv is preserved by every step. *)
LEMMA CheckStep == IndInv /\ [Next]_vars => CheckInv'
<1> SUFFICES ASSUME IndInv, [Next]_vars PROVE CheckInv'
  OBVIOUS
<1> USE ConstantsAssumption
<1> USE DEF TypeOK, jobVars, scriptVars, sliceVars, sessVars, nodeVars,
            Goto, Fail, Take, Release, At, LockInv, LockedSteps, CommonSteps,
            PrologSteps, TeardownSteps, IndInv, ScriptInv, CheckInv, Orphans,
            SeesNone, Purges
<1>1. ASSUME NEW j \in Jobs, JobManager(j) PROVE CheckInv'
  <2>1. CASE Alloc(j)
    BY <2>1 DEF Alloc
  <2>2. CASE Finish(j)
    BY <2>2 DEF Finish
  <2>3. CASE PrologFinish(j)
    BY <2>3 DEF PrologFinish
  <2>4. CASE Free(j)
    BY <2>4 DEF Free
  <2>5. CASE HousekeepingFinish(j)
    BY <2>5 DEF HousekeepingFinish
  <2>6. QED
    BY <1>1, <2>1, <2>2, <2>3, <2>4, <2>5 DEF JobManager
<1>2. ASSUME NEW j \in Jobs, ScriptStep(j) PROVE CheckInv'
  <2>1. CASE ReadConfig(j)
    BY <2>1 DEF ReadConfig, ConfGet
  <2>2. CASE AcquireLock(j)
    BY <2>2 DEF AcquireLock, GivesUp
  <2>3. CASE CheckSkip(j)
    BY <2>3 DEF CheckSkip
  <2>4. CASE CountJobs(j)
    BY <2>4 DEF CountJobs
  <2>5. CASE ApplyConstraints(j)
    BY <2>5 DEF ApplyConstraints
  <2>6. CASE SetMarker(j)
    BY <2>6 DEF SetMarker
  <2>7. CASE StartService(j)
    BY <2>7 DEF StartService
  <2>8. CASE ClearMarker(j)
    BY <2>8 DEF ClearMarker
  <2>9. CASE StopService(j)
    BY <2>9 DEF StopService
  <2>10. CASE CheckOrphans(j)
    BY <2>10 DEF CheckOrphans
  <2>11. CASE AwaitTerm(j)
    BY <2>11 DEF AwaitTerm
  <2>12. CASE AwaitKill(j)
    BY <2>12 DEF AwaitKill
  <2>13. CASE Revert(j)
    BY <2>13 DEF Revert
  <2>14. CASE ExitScript(j)
    BY <2>14 DEF ExitScript
  <2>15. QED
    BY <1>2, <2>1, <2>2, <2>3, <2>4, <2>5, <2>6, <2>7, <2>8, <2>9,
       <2>10, <2>11, <2>12, <2>13, <2>14 DEF ScriptStep
<1>3. ASSUME NEW j \in Jobs, ScriptKilled(j) PROVE CheckInv'
  BY <1>3 DEF ScriptKilled
<1>4. ASSUME NEW s \in Sessions,
             Account(s) \/ LoginStep(s) \/ SessionKilled(s) \/ ScopeExit(s)
       PROVE CheckInv'
  <2> USE DEF SGoto, SAt, Deny
  <2>1. CASE Account(s)
    BY <2>1 DEF Account
  <2>2. CASE ReadSessionConfig(s)
    BY <2>2 DEF ReadSessionConfig
  <2>3. CASE LockSession(s)
    BY <2>3 DEF LockSession
  <2>4. CASE CheckMarker(s)
    BY <2>4 DEF CheckMarker
  <2>5. CASE CreateScope(s)
    BY <2>5 DEF CreateScope
  <2>6. CASE ReleaseSession(s)
    BY <2>6 DEF ReleaseSession
  <2>7. CASE SessionKilled(s)
    BY <2>7 DEF SessionKilled
  <2>8. CASE ScopeExit(s)
    BY <2>8 DEF ScopeExit
  <2>9. QED
    BY <1>4, <2>1, <2>2, <2>3, <2>4, <2>5, <2>6, <2>7, <2>8 DEF
       LoginStep
<1>5. CASE Undrain \/ Reload
  BY <1>5 DEF Undrain, Reload
<1>6. CASE UNCHANGED vars
  BY <1>6 DEF vars
<1>7. QED
  BY <1>1, <1>2, <1>3, <1>4, <1>5, <1>6 DEF Next


(* IndInv is inductive. *)
LEMMA IndStep == IndInv /\ [Next]_vars => IndInv'
BY TypeStep, ScriptStepInv, LockStep, CheckStep DEF IndInv

(* IndInv: what the flock protects, and how far each script is. *)
THEOREM Invariance == Spec => []IndInv
BY InitIndInv, IndStep, PTL DEF Spec

(* LockInv: the flock is held exactly in the locked sections of scripts and
   logins, by one of them, whatever fails or is killed. *)
THEOREM LockCorrect == Spec => []LockInv
<1>1. IndInv => LockInv
  BY DEF IndInv
<1>2. QED
  BY <1>1, Invariance, PTL

-------------------------------------------------------------------------------
(* UserSlice implements AccessGate *)

(* Every gate is closed at first. *)
LEMMA GateInit == Init => Gate!Init
BY DEF Init, Gate!Init, GateOf, Draining, Cleaning, InTeardown

(* A step that leaves the marker, the scopes and every clean-up alone does not
   show at the gate. *)
LEMMA GateStutter ==
    ASSUME UNCHANGED marker, UNCHANGED scopes,
           \A k \in Jobs : Cleaning(k)' <=> Cleaning(k)
    PROVE  UNCHANGED Gate!vars
<1>1. \A u \in Users : Draining(u)' <=> Draining(u)
  BY DEF Draining
<1>2. \A u \in Users : GateOf(u)' = GateOf(u)
  BY <1>1 DEF GateOf
<1>3. QED
  BY <1>2 DEF Gate!vars

(* What one script does to its user's gate is a step of the gate if it does not
   close an open gate, nor a draining one while there are sessions to purge. *)
LEMMA GateOfOneUser ==
    ASSUME NEW j \in Jobs, UNCHANGED scopes,
           \A v \in Users \ {JobUser[j]} : v \in marker' <=> v \in marker,
           \A k \in Jobs \ {j} : Cleaning(k)' <=> Cleaning(k),
           ~(GateOf(JobUser[j]) = "open" /\ GateOf(JobUser[j])' = "closed"),
           Purges /\ GateOf(JobUser[j]) = "draining" /\ GateOf(JobUser[j])' = "closed"
               => Orphans(JobUser[j]) = {}
    PROVE  [Gate!Next]_(Gate!vars)
<1> DEFINE u == JobUser[j]
           gate == [v \in Users |-> GateOf(v)]
<1>1. u \in Users
  BY ConstantsAssumption
<1>2. \A v \in Users \ {u} : GateOf(v)' = GateOf(v)
  <2> SUFFICES ASSUME NEW v \in Users \ {u} PROVE GateOf(v)' = GateOf(v)
    OBVIOUS
  <2>1. Draining(v)' <=> Draining(v)
    BY DEF Draining
  <2>2. QED
    BY <2>1 DEF GateOf
<1>3. gate' = [gate EXCEPT ![u] = GateOf(u)']
  BY <1>1, <1>2
<1>4. /\ GateOf(u) \in {"open", "draining", "closed"}
      /\ GateOf(u)' \in {"open", "draining", "closed"}
  BY DEF GateOf
<1>5. CASE GateOf(u)' = GateOf(u)
  BY <1>1, <1>2, <1>5 DEF Gate!vars
<1>6. CASE GateOf(u)' # GateOf(u) /\ GateOf(u)' = "open"
  <2>1. Gate!Open(u)
    BY <1>1, <1>3, <1>6 DEF Gate!Open
  <2>2. QED
    BY <1>1, <2>1 DEF Gate!Next
<1>7. CASE GateOf(u)' # GateOf(u) /\ GateOf(u)' = "draining"
  <2>1. Gate!Drain(u)
    BY <1>1, <1>3, <1>7 DEF Gate!Drain
  <2>2. QED
    BY <1>1, <2>1 DEF Gate!Next
<1>8. CASE GateOf(u) = "draining" /\ GateOf(u)' = "closed"
  <2>1. Gate!Close(u)
    BY <1>1, <1>3, <1>8 DEF Gate!Close, Gate!InsideOf, Orphans
  <2>2. QED
    BY <1>1, <2>1 DEF Gate!Next
<1>9. QED
  BY <1>4, <1>5, <1>6, <1>7, <1>8

(* A script that fails may begin a clean-up that others will have to finish. *)
LEMMA GateOfFailure ==
    ASSUME NEW j \in Jobs, UNCHANGED marker, UNCHANGED scopes,
           \A k \in Jobs \ {j} : Cleaning(k)' <=> Cleaning(k),
           Cleaning(j) => Cleaning(j)'
    PROVE  [Gate!Next]_(Gate!vars)
<1>1. GateOf(JobUser[j])' = "closed" => GateOf(JobUser[j]) = "closed"
  BY DEF GateOf, Draining
<1>2. QED
  BY <1>1, GateOfOneUser

(* Every step of the node is a step of the gate, or does not show there. *)
LEMMA GateStep == IndInv /\ [Next]_vars => [Gate!Next]_(Gate!vars)
<1> SUFFICES ASSUME IndInv, [Next]_vars PROVE [Gate!Next]_(Gate!vars)
  OBVIOUS
<1> USE ConstantsAssumption
<1> USE DEF IndInv, TypeOK, ScriptInv, Phases, LockedSteps, CommonSteps, PrologSteps,
            TeardownSteps, jobVars, scriptVars, sliceVars, sessVars, nodeVars,
            Goto, Fail, Take, Release, At
<1>1. ASSUME NEW j \in Jobs, JobManager(j) PROVE [Gate!Next]_(Gate!vars)
  <2>1. CASE Alloc(j)
    <3>1. /\ UNCHANGED <<marker, scopes>>
          /\ \A k \in Jobs \ {j} : Cleaning(k)' <=> Cleaning(k)
          /\ Cleaning(j) => Cleaning(j)'
      BY <2>1 DEF Alloc, Cleaning, InTeardown
    <3>2. QED
      BY <3>1, GateOfFailure
  <2>2. CASE Finish(j)
    <3>1. /\ UNCHANGED <<marker, scopes>>
          /\ \A k \in Jobs : Cleaning(k)' <=> Cleaning(k)
      BY <2>2 DEF Finish, Cleaning, InTeardown
    <3>2. QED
      BY <3>1, GateStutter
  <2>3. CASE PrologFinish(j)
    <3>1. /\ UNCHANGED <<marker, scopes>>
          /\ \A k \in Jobs \ {j} : Cleaning(k)' <=> Cleaning(k)
          /\ Cleaning(j) => Cleaning(j)'
      BY <2>3 DEF PrologFinish, Cleaning, InTeardown
    <3>2. QED
      BY <3>1, GateOfFailure
  <2>4. CASE Free(j)
    <3>1. /\ UNCHANGED <<marker, scopes>>
          /\ \A k \in Jobs \ {j} : Cleaning(k)' <=> Cleaning(k)
          /\ Cleaning(j) => Cleaning(j)'
      BY <2>4 DEF Free, Cleaning, InTeardown
    <3>2. QED
      BY <3>1, GateOfFailure
  <2>5. CASE HousekeepingFinish(j)
    <3>1. /\ UNCHANGED <<marker, scopes>>
          /\ \A k \in Jobs \ {j} : Cleaning(k)' <=> Cleaning(k)
          /\ Cleaning(j) => Cleaning(j)'
      BY <2>5 DEF HousekeepingFinish, Cleaning, InTeardown
    <3>2. QED
      BY <3>1, GateOfFailure
  <2>6. QED
    BY <1>1, <2>1, <2>2, <2>3, <2>4, <2>5 DEF JobManager
<1>2. ASSUME NEW j \in Jobs, ScriptStep(j) PROVE [Gate!Next]_(Gate!vars)
  <2>1. CASE ReadConfig(j)
    <3>1. /\ UNCHANGED <<marker, scopes>>
          /\ \A k \in Jobs \ {j} : Cleaning(k)' <=> Cleaning(k)
          /\ Cleaning(j) => Cleaning(j)'
      BY <2>1 DEF ReadConfig, ConfGet, Cleaning, InTeardown
    <3>2. QED
      BY <3>1, GateOfFailure
  <2>2. CASE AcquireLock(j)
    <3>1. /\ UNCHANGED <<marker, scopes>>
          /\ \A k \in Jobs \ {j} : Cleaning(k)' <=> Cleaning(k)
          /\ Cleaning(j) => Cleaning(j)'
      BY <2>2 DEF AcquireLock, GivesUp, Cleaning, InTeardown
    <3>2. QED
      BY <3>1, GateOfFailure
  <2>3. CASE CheckSkip(j)
    <3>1. /\ UNCHANGED <<marker, scopes>>
          /\ \A k \in Jobs \ {j} : Cleaning(k)' <=> Cleaning(k)
          /\ Cleaning(j) => Cleaning(j)'
      BY <2>3 DEF CheckSkip, Cleaning, InTeardown
    <3>2. QED
      BY <3>1, GateOfFailure
  <2>4. CASE CountJobs(j)
    <3>1. /\ UNCHANGED <<marker, scopes>>
          /\ \A k \in Jobs \ {j} : Cleaning(k)' <=> Cleaning(k)
          /\ Cleaning(j) => Cleaning(j)'
      BY <2>4 DEF CountJobs, Cleaning, InTeardown
    <3>2. QED
      BY <3>1, GateOfFailure
  <2>5. CASE ApplyConstraints(j)
    <3>1. /\ UNCHANGED <<marker, scopes>>
          /\ \A k \in Jobs \ {j} : Cleaning(k)' <=> Cleaning(k)
          /\ Cleaning(j) => Cleaning(j)'
      BY <2>5 DEF ApplyConstraints, Cleaning, InTeardown
    <3>2. QED
      BY <3>1, GateOfFailure
  <2>6. CASE SetMarker(j)
    <3>1. \A k \in Jobs : ~Cleaning(k)' <=> ~Cleaning(k)
      BY <2>6 DEF SetMarker, Cleaning, InTeardown
    <3>2. CASE j \in errs'
      BY <2>6, <3>1, <3>2, GateStutter DEF SetMarker
    <3>3. CASE j \notin errs'
      <4>1. JobUser[j] \in marker'
        BY <2>6, <3>3 DEF SetMarker
      <4>2. GateOf(JobUser[j])' = "open"
        BY <4>1 DEF GateOf
      <4>3. QED
        BY <2>6, <3>1, <4>2, GateOfOneUser DEF SetMarker
    <3>4. QED
      BY <3>2, <3>3
  <2>7. CASE StartService(j)
    <3>1. /\ UNCHANGED <<marker, scopes>>
          /\ \A k \in Jobs \ {j} : Cleaning(k)' <=> Cleaning(k)
          /\ Cleaning(j) => Cleaning(j)'
      BY <2>7 DEF StartService, Cleaning, InTeardown
    <3>2. QED
      BY <3>1, GateOfFailure
  <2>8. CASE ClearMarker(j)
    <3>1. \A k \in Jobs \ {j} : Cleaning(k)' <=> Cleaning(k)
      BY <2>8 DEF ClearMarker, Cleaning, InTeardown
    <3>2. Cleaning(j)'
      BY <2>8 DEF ClearMarker, Cleaning, InTeardown
    <3>3. GateOf(JobUser[j])' # "closed"
      BY <3>2 DEF GateOf, Draining
    <3>4. QED
      BY <2>8, <3>1, <3>3, GateOfOneUser DEF ClearMarker
  <2>9. CASE StopService(j)
    <3>1. /\ UNCHANGED <<marker, scopes>>
          /\ \A k \in Jobs \ {j} : Cleaning(k)' <=> Cleaning(k)
          /\ Cleaning(j) => Cleaning(j)'
      BY <2>9 DEF StopService, Cleaning, InTeardown
    <3>2. QED
      BY <3>1, GateOfFailure
  <2>10. CASE CheckOrphans(j)
    <3>1. /\ UNCHANGED <<marker, scopes>>
          /\ \A k \in Jobs \ {j} : Cleaning(k)' <=> Cleaning(k)
          /\ Cleaning(j) => Cleaning(j)'
      BY <2>10 DEF CheckOrphans, Cleaning, InTeardown
    <3>2. QED
      BY <3>1, GateOfFailure
  <2>11. CASE AwaitTerm(j)
    <3>1. /\ UNCHANGED <<marker, scopes>>
          /\ \A k \in Jobs \ {j} : Cleaning(k)' <=> Cleaning(k)
          /\ Cleaning(j) => Cleaning(j)'
      BY <2>11 DEF AwaitTerm, Cleaning, InTeardown
    <3>2. QED
      BY <3>1, GateOfFailure
  <2>12. CASE AwaitKill(j)
    <3>1. /\ UNCHANGED <<marker, scopes>>
          /\ \A k \in Jobs \ {j} : Cleaning(k)' <=> Cleaning(k)
          /\ Cleaning(j) => Cleaning(j)'
      BY <2>12 DEF AwaitKill, Cleaning, InTeardown
    <3>2. QED
      BY <3>1, GateOfFailure
  <2>13. CASE Revert(j)
    <3>1. /\ UNCHANGED <<marker, scopes>>
          /\ \A k \in Jobs \ {j} : Cleaning(k)' <=> Cleaning(k)
      BY <2>13 DEF Revert, Cleaning, InTeardown
    <3>2. CASE j \in errs
      <4>1. Cleaning(j)'
        BY <2>13, <3>2 DEF Revert, Cleaning, InTeardown
      <4>2. QED
        BY <3>1, <4>1, GateOfFailure
    <3>3. CASE j \notin errs
      <4>1. GateOf(JobUser[j]) # "open"
        BY <2>13 DEF Revert, CheckInv, GateOf
      <4>2. Purges => Orphans(JobUser[j]) = {}
        BY <2>13, <3>3 DEF Revert, CheckInv
      <4>3. QED
        BY <3>1, <4>1, <4>2, GateOfOneUser
    <3>4. QED
      BY <3>2, <3>3
  <2>14. CASE ExitScript(j)
    <3>1. /\ UNCHANGED <<marker, scopes>>
          /\ \A k \in Jobs \ {j} : Cleaning(k)' <=> Cleaning(k)
          /\ Cleaning(j) => Cleaning(j)'
      BY <2>14 DEF ExitScript, Cleaning, InTeardown
    <3>2. QED
      BY <3>1, GateOfFailure
  <2>15. QED
    BY <1>2, <2>1, <2>2, <2>3, <2>4, <2>5, <2>6, <2>7, <2>8, <2>9,
       <2>10, <2>11, <2>12, <2>13, <2>14 DEF ScriptStep
<1>3. ASSUME NEW j \in Jobs, ScriptKilled(j) PROVE [Gate!Next]_(Gate!vars)
  <2>1. /\ UNCHANGED <<marker, scopes>>
        /\ \A k \in Jobs \ {j} : Cleaning(k)' <=> Cleaning(k)
        /\ Cleaning(j) => Cleaning(j)'
    BY <1>3 DEF ScriptKilled, Cleaning, InTeardown
  <2>2. QED
    BY <2>1, GateOfFailure
<1>4. ASSUME NEW s \in Sessions,
             Account(s) \/ LoginStep(s) \/ SessionKilled(s) \/ ScopeExit(s)
       PROVE [Gate!Next]_(Gate!vars)
  <2> USE DEF SGoto, SAt, Deny
  <2>1. CASE Account(s)
    <3>1. /\ UNCHANGED <<marker, scopes>>
          /\ \A k \in Jobs : Cleaning(k)' <=> Cleaning(k)
      BY <2>1 DEF Account, Cleaning, InTeardown
    <3>2. QED
      BY <3>1, GateStutter
  <2>2. CASE ReadSessionConfig(s)
    <3>1. /\ UNCHANGED <<marker, scopes>>
          /\ \A k \in Jobs : Cleaning(k)' <=> Cleaning(k)
      BY <2>2 DEF ReadSessionConfig, Cleaning, InTeardown
    <3>2. QED
      BY <3>1, GateStutter
  <2>3. CASE LockSession(s)
    <3>1. /\ UNCHANGED <<marker, scopes>>
          /\ \A k \in Jobs : Cleaning(k)' <=> Cleaning(k)
      BY <2>3 DEF LockSession, Cleaning, InTeardown
    <3>2. QED
      BY <3>1, GateStutter
  <2>4. CASE CheckMarker(s)
    <3>1. /\ UNCHANGED <<marker, scopes>>
          /\ \A k \in Jobs : Cleaning(k)' <=> Cleaning(k)
      BY <2>4 DEF CheckMarker, Cleaning, InTeardown
    <3>2. QED
      BY <3>1, GateStutter
  <2>5. CASE CreateScope(s)
    <3>1. /\ UNCHANGED marker
          /\ \A k \in Jobs : Cleaning(k)' <=> Cleaning(k)
      BY <2>5 DEF CreateScope, Cleaning, InTeardown
    <3>2. CASE scopes' = scopes
      BY <3>1, <3>2, GateStutter
    <3>3. CASE scopes' = scopes \cup {s}
      <4>1. GateOf(SessionUser[s]) = "open" /\ s \notin scopes
        BY <2>5 DEF CreateScope, CheckInv, GateOf
      <4>2. \A u \in Users : GateOf(u)' = GateOf(u)
        BY <3>1 DEF GateOf, Draining
      <4>3. Gate!Admit(s)
        BY <3>3, <4>1, <4>2 DEF Gate!Admit
      <4>4. QED
        BY <4>3 DEF Gate!Next
    <3>4. QED
      BY <2>5, <3>2, <3>3 DEF CreateScope
  <2>6. CASE ReleaseSession(s)
    <3>1. /\ UNCHANGED <<marker, scopes>>
          /\ \A k \in Jobs : Cleaning(k)' <=> Cleaning(k)
      BY <2>6 DEF ReleaseSession, Cleaning, InTeardown
    <3>2. QED
      BY <3>1, GateStutter
  <2>7. CASE SessionKilled(s)
    <3>1. /\ UNCHANGED <<marker, scopes>>
          /\ \A k \in Jobs : Cleaning(k)' <=> Cleaning(k)
      BY <2>7 DEF SessionKilled, Cleaning, InTeardown
    <3>2. QED
      BY <3>1, GateStutter
  <2>8. CASE ScopeExit(s)
    <3>1. /\ UNCHANGED marker
          /\ \A k \in Jobs : Cleaning(k)' <=> Cleaning(k)
      BY <2>8 DEF ScopeExit, Cleaning, InTeardown
    <3>2. \A u \in Users : GateOf(u)' = GateOf(u)
      BY <3>1 DEF GateOf, Draining
    <3>3. Gate!Leave(s)
      BY <2>8, <3>2 DEF ScopeExit, Gate!Leave
    <3>4. QED
      BY <3>3 DEF Gate!Next
  <2>9. QED
    BY <1>4, <2>1, <2>2, <2>3, <2>4, <2>5, <2>6, <2>7, <2>8 DEF
       LoginStep
<1>5. CASE Undrain \/ Reload \/ UNCHANGED vars
  <2>1. /\ UNCHANGED <<marker, scopes>>
        /\ \A k \in Jobs : Cleaning(k)' <=> Cleaning(k)
    BY <1>5 DEF Undrain, Reload, vars, Cleaning, InTeardown
  <2>2. QED
    BY <2>1, GateStutter
<1>6. QED
  BY <1>1, <1>2, <1>3, <1>4, <1>5 DEF Next

(* GateSpec: the node implements the abstract access gate.  A session enters its
   user's slice only while the gate is open, and with kill-user-slice and cgroups
   that can be read a gate is closed only when no session is left inside. *)
THEOREM GateImplemented == Spec => GateSpec
<1>1. Init => Gate!Init
  BY GateInit
<1>2. IndInv /\ [Next]_vars => [Gate!Next]_(Gate!vars)
  BY GateStep
<1>3. QED
  BY <1>1, <1>2, Invariance, PTL DEF Spec, GateSpec, Gate!Spec

(* The abstract gate forgets nobody, by its own steps alone. *)
LEMMA GateForgetsNobody ==
    /\ Gate!Init => Gate!TypeOK /\ Gate!NobodyForgotten
    /\ Gate!TypeOK /\ Gate!NobodyForgotten /\ [Gate!Next]_(Gate!vars)
          => Gate!TypeOK' /\ Gate!NobodyForgotten'
<1> USE ConstantsAssumption
<1>1. Gate!Init => Gate!TypeOK /\ Gate!NobodyForgotten
  BY DEF Gate!Init, Gate!TypeOK, Gate!NobodyForgotten
<1>2. ASSUME Gate!TypeOK, Gate!NobodyForgotten, [Gate!Next]_(Gate!vars)
      PROVE  Gate!TypeOK' /\ Gate!NobodyForgotten'
  <2>1. CASE UNCHANGED Gate!vars
    BY <1>2, <2>1 DEF Gate!vars, Gate!TypeOK, Gate!NobodyForgotten
  <2>2. ASSUME NEW u \in Users, Gate!Open(u) \/ Gate!Drain(u) \/ Gate!Close(u)
        PROVE  Gate!TypeOK' /\ Gate!NobodyForgotten'
    BY <1>2, <2>2
       DEF Gate!Open, Gate!Drain, Gate!Close, Gate!TypeOK, Gate!NobodyForgotten,
           Gate!InsideOf
  <2>3. ASSUME NEW s \in Sessions, Gate!Admit(s) \/ Gate!Leave(s)
        PROVE  Gate!TypeOK' /\ Gate!NobodyForgotten'
    BY <1>2, <2>3
       DEF Gate!Admit, Gate!Leave, Gate!TypeOK, Gate!NobodyForgotten
  <2> QED
    BY <1>2, <2>1, <2>2, <2>3 DEF Gate!Next
<1> QED
  BY <1>1, <1>2

(* With kill-user-slice, whatever fails but the reading of a cgroup: the user of a
   live session has the marker, or a housekeeping that is cleaning up or has failed
   and drained the node. *)
THEOREM NobodyIsForgotten == Spec => []Gate!NobodyForgotten
<1>1. Gate!Spec => []Gate!NobodyForgotten
  BY GateForgetsNobody, PTL DEF Gate!Spec
<1>2. QED
  BY <1>1, GateImplemented, PTL DEF GateSpec

===============================================================================
