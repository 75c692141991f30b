------------------------- MODULE UserSlice_marker_proof -------------------------
(***************************************************************************)
(* Proofs about what the marker says of the user's jobs and what the slice *)
(* is confined to.  Each theorem names the failure it excludes.            *)
(***************************************************************************)
EXTENDS UserSlice_proof

(* Two scripts of one user are never both in a locked step. *)
LEMMA Exclusive ==
    ASSUME LockInv, NEW j \in Jobs, NEW k \in Jobs, JobUser[j] = JobUser[k],
           step[j] \in LockedSteps, step[k] \in LockedSteps
    PROVE  j = k
BY DEF LockInv

(* The end of a prolog publishes nothing that was not published before. *)
LEMMA PublishedBefore ==
    ASSUME TypeOK, NEW j \in Jobs, PrologFinish(j)
    PROVE  \A k \in Jobs : Published(k)' => Published(k)
<1> USE DEF TypeOK, Phases, Published, Skip, At, Goto
<1>1. /\ step' = [step EXCEPT ![j] = "none"]
      /\ errs' = errs \ {j}
      /\ UNCHANGED conf
      /\ phase' \in {[phase EXCEPT ![j] = "started"], [phase EXCEPT ![j] = "aborted"]}
  BY DEF PrologFinish
<1>2. Published(j)' => Published(j)
  <2>1. CASE j \in errs
    <3>1. phase' = [phase EXCEPT ![j] = "aborted"]
      BY <2>1, Zenon DEF PrologFinish
    <3>2. QED
      BY <3>1
  <2>2. CASE j \notin errs
    BY <1>1, <2>2 DEF PrologFinish
  <2>3. QED
    BY <2>1, <2>2
<1>3. \A k \in Jobs : k # j => (Published(k)' <=> Published(k))
  BY <1>1
<1>4. QED
  BY <1>2, <1>3

(* PublishInv is preserved: a job is published under the lock, and a clean-up
   that removes the marker has seen no such job. *)
LEMMA PublishStep ==
    ASSUME "late_start" \notin Faults, IndInv, PublishInv, [Next]_vars
    PROVE  PublishInv'
<1> USE ConstantsAssumption
<1> USE DEF TypeOK, Phases, jobVars, scriptVars, sliceVars, sessVars,
            nodeVars, Goto, Fail, Take, Release, At, IndInv, ScriptInv,
            LockedSteps, CommonSteps, PrologSteps, TeardownSteps, Skip,
            PublishInv, Published
<1>1. ASSUME NEW j \in Jobs, JobManager(j) PROVE PublishInv'
  <2>1. CASE Alloc(j)
    BY <2>1 DEF Alloc
  <2>2. CASE Finish(j)
    BY <2>2 DEF Finish
  <2>3. CASE PrologFinish(j)
    <3>1. \A k \in Jobs : Published(k)' => Published(k)
      BY <2>3, PublishedBefore
    <3>2. /\ step' = [step EXCEPT ![j] = "none"]
          /\ UNCHANGED <<conf, cached, marker, allowed>>
      BY <2>3 DEF PrologFinish
    <3> HIDE DEF Published
    <3>3. QED
      BY <3>1, <3>2
  <2>4. CASE Free(j)
    BY <2>4 DEF Free
  <2>5. CASE HousekeepingFinish(j)
    BY <2>5 DEF HousekeepingFinish
  <2>6. QED
    BY <1>1, <2>1, <2>2, <2>3, <2>4, <2>5 DEF JobManager
<1>2. ASSUME NEW j \in Jobs, ScriptStep(j) PROVE PublishInv'
  <2>1. CASE ReadConfig(j)
    BY <2>1 DEF ReadConfig, ConfGet
  <2>2. CASE AcquireLock(j)
    BY <2>2 DEF AcquireLock, GivesUp
  <2>3. CASE CheckSkip(j)
    BY <2>3 DEF CheckSkip
  <2>4. CASE CountJobs(j)
    <3>1. \A listed \in JobListAnswers(j) : ActiveLocalJobs(j) \subseteq listed
      BY DEF JobListAnswers
    <3>2. ActiveLocalJobs(j) = {} =>
              \A k \in Jobs : JobUser[k] = JobUser[j] /\ k # j => ~Published(k)
      BY DEF ActiveLocalJobs, Active
    <3>3. QED
      BY <2>4, <3>1, <3>2 DEF CountJobs
  <2>5. CASE ApplyConstraints(j)
    BY <2>5 DEF ApplyConstraints
  <2>6. CASE SetMarker(j)
    <3>1. \A k \in Jobs : JobUser[k] = JobUser[j] /\ k # j => step[k] \notin LockedSteps
      BY <2>6, Exclusive DEF SetMarker
    <3>2. QED
      BY <2>6, <3>1 DEF SetMarker
  <2>7. CASE StartService(j)
    BY <2>7 DEF StartService
  <2>8. CASE ClearMarker(j)
    BY <2>8 DEF ClearMarker
  <2>9. CASE StopService(j)
    BY <2>9 DEF StopService
  <2>10. CASE CheckOrphans(j)
    BY <2>10 DEF CheckOrphans
  <2>11. CASE AwaitTerm(j)
    BY <2>11 DEF AwaitTerm
  <2>12. CASE AwaitKill(j)
    BY <2>12 DEF AwaitKill
  <2>13. CASE Revert(j)
    BY <2>13 DEF Revert
  <2>14. CASE ExitScript(j)
    BY <2>14 DEF ExitScript
  <2>15. QED
    BY <1>2, <2>1, <2>2, <2>3, <2>4, <2>5, <2>6, <2>7, <2>8, <2>9,
       <2>10, <2>11, <2>12, <2>13, <2>14 DEF ScriptStep
<1>3. ASSUME NEW j \in Jobs, ScriptKilled(j) PROVE PublishInv'
  BY <1>3 DEF ScriptKilled
<1>4. ASSUME NEW s \in Sessions,
             Account(s) \/ LoginStep(s) \/ SessionKilled(s) \/ ScopeExit(s)
       PROVE PublishInv'
  <2> USE DEF SGoto, SAt, Deny
  <2>1. CASE Account(s)
    BY <2>1 DEF Account
  <2>2. CASE ReadSessionConfig(s)
    BY <2>2 DEF ReadSessionConfig
  <2>3. CASE LockSession(s)
    BY <2>3 DEF LockSession
  <2>4. CASE CheckMarker(s)
    BY <2>4 DEF CheckMarker
  <2>5. CASE CreateScope(s)
    BY <2>5 DEF CreateScope
  <2>6. CASE ReleaseSession(s)
    BY <2>6 DEF ReleaseSession
  <2>7. CASE SessionKilled(s)
    BY <2>7 DEF SessionKilled
  <2>8. CASE ScopeExit(s)
    BY <2>8 DEF ScopeExit
  <2>9. QED
    BY <1>4, <2>1, <2>2, <2>3, <2>4, <2>5, <2>6, <2>7, <2>8 DEF
       LoginStep
<1>5. CASE Undrain \/ Reload
  BY <1>5 DEF Undrain, Reload
<1>6. CASE UNCHANGED vars
  BY <1>6 DEF vars
<1>7. QED
  BY <1>1, <1>2, <1>3, <1>4, <1>5, <1>6 DEF Next

(* CoverInv is preserved: the union that a script applies was computed from every
   job that was covered when it counted, and none has been covered since. *)
LEMMA CoverStep ==
    ASSUME "late_start" \notin Faults, Constrain, IndInv, PublishInv,
           CoverInv, [Next]_vars
    PROVE  CoverInv'
<1> USE ConstantsAssumption
<1> USE DEF TypeOK, Phases, jobVars, scriptVars, sliceVars, sessVars,
            nodeVars, Goto, Fail, Take, Release, At, IndInv, ScriptInv,
            LockedSteps, CommonSteps, PrologSteps, TeardownSteps, Skip,
            PublishInv, Published, CoverInv, Covered
<1>1. ASSUME NEW j \in Jobs, JobManager(j) PROVE CoverInv'
  <2>1. CASE Alloc(j)
    BY <2>1 DEF Alloc
  <2>2. CASE Finish(j)
    BY <2>2 DEF Finish
  <2>3. CASE PrologFinish(j)
    <3>1. \A k \in Jobs : Published(k)' => Published(k)
      BY <2>3, PublishedBefore
    <3>2. /\ step' = [step EXCEPT ![j] = "none"]
          /\ UNCHANGED <<conf, cached, marker, allowed>>
      BY <2>3 DEF PrologFinish
    <3> HIDE DEF Published
    <3>3. QED
      BY <3>1, <3>2
  <2>4. CASE Free(j)
    BY <2>4 DEF Free
  <2>5. CASE HousekeepingFinish(j)
    BY <2>5 DEF HousekeepingFinish
  <2>6. QED
    BY <1>1, <2>1, <2>2, <2>3, <2>4, <2>5 DEF JobManager
<1>2. ASSUME NEW j \in Jobs, ScriptStep(j) PROVE CoverInv'
  <2>1. CASE ReadConfig(j)
    BY <2>1 DEF ReadConfig, ConfGet
  <2>2. CASE AcquireLock(j)
    BY <2>2 DEF AcquireLock, GivesUp
  <2>3. CASE CheckSkip(j)
    BY <2>3 DEF CheckSkip
  <2>4. CASE CountJobs(j)
    <3>1. \A listed \in JobListAnswers(j) : ActiveLocalJobs(j) \subseteq listed
      BY DEF JobListAnswers
    <3>2. \A k \in Jobs \ {j} : JobUser[k] = JobUser[j] /\ Covered(k) => k \in ActiveLocalJobs(j)
      BY DEF ActiveLocalJobs, Active
    <3>3. QED
      BY <2>4, <3>1, <3>2 DEF CountJobs
  <2>5. CASE ApplyConstraints(j)
    <3>1. \A k \in Jobs : JobUser[k] = JobUser[j] /\ k # j => step[k] \notin LockedSteps
      BY <2>5, Exclusive DEF ApplyConstraints
    <3>2. QED
      BY <2>5, <3>1 DEF ApplyConstraints, ResourceUnion, IncludeCurrent
  <2>6. CASE SetMarker(j)
    BY <2>6 DEF SetMarker
  <2>7. CASE StartService(j)
    BY <2>7 DEF StartService
  <2>8. CASE ClearMarker(j)
    BY <2>8 DEF ClearMarker
  <2>9. CASE StopService(j)
    BY <2>9 DEF StopService
  <2>10. CASE CheckOrphans(j)
    BY <2>10 DEF CheckOrphans
  <2>11. CASE AwaitTerm(j)
    BY <2>11 DEF AwaitTerm
  <2>12. CASE AwaitKill(j)
    BY <2>12 DEF AwaitKill
  <2>13. CASE Revert(j)
    BY <2>13 DEF Revert
  <2>14. CASE ExitScript(j)
    BY <2>14 DEF ExitScript
  <2>15. QED
    BY <1>2, <2>1, <2>2, <2>3, <2>4, <2>5, <2>6, <2>7, <2>8, <2>9,
       <2>10, <2>11, <2>12, <2>13, <2>14 DEF ScriptStep
<1>3. ASSUME NEW j \in Jobs, ScriptKilled(j) PROVE CoverInv'
  BY <1>3 DEF ScriptKilled
<1>4. ASSUME NEW s \in Sessions,
             Account(s) \/ LoginStep(s) \/ SessionKilled(s) \/ ScopeExit(s)
       PROVE CoverInv'
  <2> USE DEF SGoto, SAt, Deny
  <2>1. CASE Account(s)
    BY <2>1 DEF Account
  <2>2. CASE ReadSessionConfig(s)
    BY <2>2 DEF ReadSessionConfig
  <2>3. CASE LockSession(s)
    BY <2>3 DEF LockSession
  <2>4. CASE CheckMarker(s)
    BY <2>4 DEF CheckMarker
  <2>5. CASE CreateScope(s)
    BY <2>5 DEF CreateScope
  <2>6. CASE ReleaseSession(s)
    BY <2>6 DEF ReleaseSession
  <2>7. CASE SessionKilled(s)
    BY <2>7 DEF SessionKilled
  <2>8. CASE ScopeExit(s)
    BY <2>8 DEF ScopeExit
  <2>9. QED
    BY <1>4, <2>1, <2>2, <2>3, <2>4, <2>5, <2>6, <2>7, <2>8 DEF
       LoginStep
<1>5. CASE Undrain \/ Reload
  BY <1>5 DEF Undrain, Reload
<1>6. CASE UNCHANGED vars
  BY <1>6 DEF vars
<1>7. QED
  BY <1>1, <1>2, <1>3, <1>4, <1>5, <1>6 DEF Next

(* A clean-up that failed is never forgotten: its script reports it, and then the
   job manager keeps it. *)
LEMMA CleanupStaysFailed ==
    ASSUME IndInv, [Next]_vars
    PROVE  \A u \in Users : CleanupFailed(u) => CleanupFailed(u)'
<1> DEFINE Bad(j) == phase[j] = "failed" \/ (phase[j] = "housekeeping" /\ j \in errs)
<1> SUFFICES \A k \in Jobs : Bad(k) => Bad(k)'
  BY DEF CleanupFailed
<1> USE DEF TypeOK, jobVars, scriptVars, sliceVars, sessVars, nodeVars, Goto, Fail, At, IndInv
<1>1. ASSUME NEW j \in Jobs, JobManager(j) PROVE \A k \in Jobs : Bad(k) => Bad(k)'
  <2>1. CASE PrologFinish(j)
    <3>1. \A k \in Jobs \ {j} : (k \in errs => k \in errs') /\ phase'[k] = phase[k]
      BY <2>1 DEF PrologFinish
    <3>2. ~Bad(j)
      BY <2>1 DEF PrologFinish
    <3>3. QED
      BY <3>1, <3>2
  <2>2. CASE ~PrologFinish(j)
    BY <1>1, <2>2 DEF JobManager, Alloc, Finish, Free, HousekeepingFinish
  <2>3. QED
    BY <2>1, <2>2
<1>2. ASSUME NEW j \in Jobs, ScriptStep(j) \/ ScriptKilled(j)
      PROVE  \A k \in Jobs : Bad(k) => Bad(k)'
  <2>1. UNCHANGED phase /\ errs \subseteq errs'
    BY <1>2 DEF ScriptStep, ScriptKilled, ReadConfig, AcquireLock, CheckSkip, CountJobs,
       ApplyConstraints, SetMarker, StartService, ClearMarker, StopService, CheckOrphans,
       AwaitTerm, AwaitKill, Revert, ExitScript
  <2>2. QED
    BY <2>1
<1>3. ASSUME NEW s \in Sessions,
             Account(s) \/ LoginStep(s) \/ SessionKilled(s) \/ ScopeExit(s)
      PROVE  \A k \in Jobs : Bad(k) => Bad(k)'
  BY <1>3 DEF Account, LoginStep, SessionKilled, ScopeExit, ReadSessionConfig, LockSession,
     CheckMarker, CreateScope, ReleaseSession
<1>4. CASE Undrain \/ Reload \/ UNCHANGED vars
  BY <1>4 DEF Undrain, Reload, vars
<1>5. QED
  BY <1>1, <1>2, <1>3, <1>4 DEF Next

(* ExposeInv is preserved: a job stays pending until its clean-up has left the
   marker and the slice to another pending job, or has removed them. *)
LEMMA ExposeStep ==
    ASSUME ~AllowReload, "late_end" \notin Faults, IndInv, ExposeInv,
           [Next]_vars
    PROVE  ExposeInv'
<1> USE ConstantsAssumption
<1> USE DEF TypeOK, Phases, jobVars, scriptVars, sliceVars, sessVars,
            nodeVars, Goto, Fail, Take, Release, At, IndInv, ScriptInv,
            LockedSteps, CommonSteps, PrologSteps, TeardownSteps, Skip,
            CheckInv, ExposeInv, Exposed, Loose, Confined, Pending, PendingJobs,
            Orphans
<1>0. \A u \in Users : CleanupFailed(u) => CleanupFailed(u)'
  BY CleanupStaysFailed
<1>1. ASSUME NEW j \in Jobs, JobManager(j) PROVE ExposeInv'
  <2>1. CASE Alloc(j)
    BY <1>0, <2>1 DEF Alloc
  <2>2. CASE Finish(j)
    BY <1>0, <2>2 DEF Finish
  <2>3. CASE PrologFinish(j)
    <3>1. /\ step' = [step EXCEPT ![j] = "none"]
          /\ errs' = errs \ {j}
          /\ UNCHANGED <<conf, cached, marker, allowed, scopes, manage>>
          /\ phase' \in {[phase EXCEPT ![j] = "started"], [phase EXCEPT ![j] = "aborted"]}
      BY <1>0, <2>3 DEF PrologFinish
    <3>2. \A k \in Jobs : Pending(k)' <=> Pending(k)
      BY <2>3, <3>1 DEF PrologFinish
    <3>3. \A u \in Users : PendingJobs(u)' = PendingJobs(u)
      BY <3>2
    <3> HIDE DEF PendingJobs, Pending
    <3>4. QED
      BY <1>0, <2>3, <3>1, <3>3 DEF PrologFinish
  <2>4. CASE Free(j)
    BY <1>0, <2>4 DEF Free
  <2>5. CASE HousekeepingFinish(j)
    BY <1>0, <2>5 DEF HousekeepingFinish
  <2>6. QED
    BY <1>1, <2>1, <2>2, <2>3, <2>4, <2>5 DEF JobManager
<1>2. ASSUME NEW j \in Jobs, ScriptStep(j) PROVE ExposeInv'
  <2>1. CASE ReadConfig(j)
    BY <1>0, <2>1 DEF ReadConfig, ConfGet
  <2>2. CASE AcquireLock(j)
    BY <1>0, <2>2 DEF AcquireLock, GivesUp
  <2>3. CASE CheckSkip(j)
    BY <1>0, <2>3 DEF CheckSkip
  <2>4. CASE CountJobs(j)
    <3>1. \A listed \in JobListAnswers(j) : listed \subseteq ActiveLocalJobs(j)
      BY DEF JobListAnswers
    <3>2. ActiveLocalJobs(j) \subseteq PendingJobs(JobUser[j]) \ {j}
      BY DEF ActiveLocalJobs, Active
    <3>3. \A k \in Jobs : Pending(k)' <=> Pending(k)
      BY <1>0, <2>4 DEF CountJobs
    <3>4. \A u \in Users : PendingJobs(u)' = PendingJobs(u)
      BY <3>3
    <3> HIDE DEF PendingJobs, Pending
    <3>5. QED
      BY <1>0, <2>4, <3>1, <3>2, <3>4 DEF CountJobs
  <2>5. CASE ApplyConstraints(j)
    <3>1. CASE phase[j] = "housekeeping" /\ j \notin errs'
      <4>1. /\ step' = [step EXCEPT ![j] = "exit"]
            /\ Constrain => allowed' = [allowed EXCEPT ![JobUser[j]] = UNION {JobR[k] : k \in cached[j]}]
            /\ ~Constrain => UNCHANGED allowed
            /\ UNCHANGED <<phase, errs, conf, cached, marker, scopes, manage>>
        BY <2>5, <3>1 DEF ApplyConstraints, ResourceUnion, IncludeCurrent
      <4>2. \A k \in Jobs : k # j => (Pending(k)' <=> Pending(k))
        BY <4>1
      <4>3. \A u \in Users : PendingJobs(u)' = PendingJobs(u) \ {j}
        BY <2>5, <3>1, <4>1, <4>2 DEF ApplyConstraints
      <4>4. \A k \in Jobs : JobUser[k] = JobUser[j] /\ k # j => step[k] \notin LockedSteps
        BY <2>5, Exclusive DEF ApplyConstraints
      <4>5. \A u \in Users : u # JobUser[j] => PendingJobs(u)' = PendingJobs(u)
        BY <4>3
      <4> HIDE DEF PendingJobs, Pending
      <4>6. cached[j] \subseteq PendingJobs(JobUser[j])' /\ PendingJobs(JobUser[j])' # {}
        BY <2>5, <3>1, <4>3 DEF ApplyConstraints
      <4>7. \A u \in Users :
               /\ Exposed(u)' => /\ (manage /\ u # InstanceOwner)'
                                 /\ (Confined(u) \/ (u \notin marker /\ Loose(u)))'
               /\ u \in marker' => PendingJobs(u)' # {}
        <5>1. ASSUME NEW u \in Users, u # JobUser[j]
              PROVE  /\ Exposed(u)' => /\ (manage /\ u # InstanceOwner)'
                                       /\ (Confined(u) \/ (u \notin marker /\ Loose(u)))'
                     /\ u \in marker' => PendingJobs(u)' # {}
          BY <1>0, <2>5, <4>1, <4>5, <5>1 DEF ApplyConstraints
        <5>2. Confined(JobUser[j])'
          BY <2>5, <4>1, <4>6 DEF ApplyConstraints
        <5>3. QED
          BY <1>0, <2>5, <4>1, <4>6, <5>1, <5>2 DEF ApplyConstraints
      <4>8. QED
        BY <2>5, <4>1, <4>4, <4>5, <4>7 DEF ApplyConstraints
    <3>2. CASE ~(phase[j] = "housekeeping" /\ j \notin errs')
      <4>1. \A k \in Jobs : Pending(k)' <=> Pending(k)
        BY <2>5, <3>2 DEF ApplyConstraints
      <4>2. \A u \in Users : PendingJobs(u)' = PendingJobs(u)
        BY <4>1
      <4>3. \A k \in Jobs : JobUser[k] = JobUser[j] /\ k # j => step[k] \notin LockedSteps
        BY <2>5, Exclusive DEF ApplyConstraints
      <4>4. j \in PendingJobs(JobUser[j])
        BY <1>0, <2>5 DEF ApplyConstraints
      <4> HIDE DEF PendingJobs, Pending
      <4>5. ResourceUnion(j) \subseteq UNION {JobR[k] : k \in PendingJobs(JobUser[j])}
        BY <2>5, <4>4 DEF ApplyConstraints, ResourceUnion
      <4>6. QED
        BY <1>0, <2>5, <4>2, <4>3, <4>5 DEF ApplyConstraints
    <3>3. QED
      BY <3>1, <3>2
  <2>6. CASE SetMarker(j)
    BY <1>0, <2>6 DEF SetMarker
  <2>7. CASE StartService(j)
    BY <1>0, <2>7 DEF StartService
  <2>8. CASE ClearMarker(j)
    BY <1>0, <2>8 DEF ClearMarker
  <2>9. CASE StopService(j)
    BY <1>0, <2>9 DEF StopService
  <2>10. CASE CheckOrphans(j)
    BY <1>0, <2>10 DEF CheckOrphans
  <2>11. CASE AwaitTerm(j)
    BY <1>0, <2>11 DEF AwaitTerm
  <2>12. CASE AwaitKill(j)
    BY <1>0, <2>12 DEF AwaitKill
  <2>13. CASE Revert(j)
    <3>1. /\ allowed' \in {allowed, [allowed EXCEPT ![JobUser[j]] = Resources]}
          /\ step' = [step EXCEPT ![j] = "exit"]
          /\ UNCHANGED <<phase, conf, cached, marker, scopes, manage>>
          /\ errs' \in {errs, errs \cup {j}}
      BY <1>0, <2>13 DEF Revert
    <3>2. /\ JobUser[j] \notin marker
          /\ j \notin errs => ~Exposed(JobUser[j])
          /\ j \in errs => CleanupFailed(JobUser[j])
      BY <2>13 DEF Revert, CleanupFailed
    <3>3. \A k \in Jobs : k # j => (Pending(k)' <=> Pending(k))
      BY <3>1
    <3>4. \A u \in Users : u # JobUser[j] => PendingJobs(u)' = PendingJobs(u)
      BY <3>3
    <3>5. \A k \in Jobs : JobUser[k] = JobUser[j] /\ k # j => step[k] \notin LockedSteps
      BY <2>13, Exclusive DEF Revert
    <3>6. CASE j \in errs
      <4>1. \A k \in Jobs : Pending(k)' <=> Pending(k)
        BY <2>13, <3>1, <3>3, <3>6 DEF Revert
      <4>2. \A u \in Users : PendingJobs(u)' = PendingJobs(u)
        BY <4>1
      <4> HIDE DEF PendingJobs, Pending
      <4>3. QED
        BY <1>0, <2>13, <3>1, <3>2, <3>5, <3>6, <4>2 DEF Revert
    <3>7. CASE j \notin errs
      <4> HIDE DEF PendingJobs, Pending
      <4>1. QED
        BY <1>0, <2>13, <3>1, <3>2, <3>4, <3>5, <3>7 DEF Revert
    <3>8. QED
      BY <3>6, <3>7
  <2>14. CASE ExitScript(j)
    BY <1>0, <2>14 DEF ExitScript
  <2>15. QED
    BY <1>2, <2>1, <2>2, <2>3, <2>4, <2>5, <2>6, <2>7, <2>8, <2>9,
       <2>10, <2>11, <2>12, <2>13, <2>14 DEF ScriptStep
<1>3. ASSUME NEW j \in Jobs, ScriptKilled(j) PROVE ExposeInv'
  BY <1>0, <1>3 DEF ScriptKilled
<1>4. ASSUME NEW s \in Sessions,
             Account(s) \/ LoginStep(s) \/ SessionKilled(s) \/ ScopeExit(s)
       PROVE ExposeInv'
  <2> USE DEF SGoto, SAt, Deny
  <2>1. CASE Account(s)
    BY <1>0, <2>1 DEF Account
  <2>2. CASE ReadSessionConfig(s)
    BY <1>0, <2>2 DEF ReadSessionConfig
  <2>3. CASE LockSession(s)
    BY <1>0, <2>3 DEF LockSession
  <2>4. CASE CheckMarker(s)
    BY <1>0, <2>4 DEF CheckMarker
  <2>5. CASE CreateScope(s)
    BY <1>0, <2>5 DEF CreateScope
  <2>6. CASE ReleaseSession(s)
    BY <1>0, <2>6 DEF ReleaseSession
  <2>7. CASE SessionKilled(s)
    BY <1>0, <2>7 DEF SessionKilled
  <2>8. CASE ScopeExit(s)
    BY <1>0, <2>8 DEF ScopeExit
  <2>9. QED
    BY <1>4, <2>1, <2>2, <2>3, <2>4, <2>5, <2>6, <2>7, <2>8 DEF
       LoginStep
<1>5. CASE Undrain \/ Reload
  BY <1>0, <1>5 DEF Undrain, Reload
<1>6. CASE UNCHANGED vars
  BY <1>0, <1>6 DEF vars
<1>7. QED
  BY <1>1, <1>2, <1>3, <1>4, <1>5, <1>6 DEF Next

(* CleanInv is preserved: a clean-up that reports success has stopped the
   service, seen the slice empty and reverted it. *)
LEMMA CleanStep ==
    ASSUME ~AllowReload, KillSlice, "late_end" \notin Faults,
           "unreadable" \notin Faults, "stop_error" \notin Faults,
           "revert_error" \notin Faults,
           IndInv, ExposeInv, CleanInv, [Next]_vars
    PROVE  CleanInv'
<1> USE ConstantsAssumption
<1> USE DEF TypeOK, Phases, jobVars, scriptVars, sliceVars, sessVars,
            nodeVars, Goto, Fail, Take, Release, At, IndInv, ScriptInv,
            LockedSteps, CommonSteps, PrologSteps, TeardownSteps, Skip,
            CheckInv, ExposeInv, CleanInv, Dirty, Pending, PendingJobs,
            Orphans, SeesNone, Purges
<1>1. ASSUME NEW j \in Jobs, JobManager(j) PROVE CleanInv'
  <2>1. CASE Alloc(j)
    BY <2>1 DEF Alloc
  <2>2. CASE Finish(j)
    BY <2>2 DEF Finish
  <2>3. CASE PrologFinish(j)
    <3>1. /\ step' = [step EXCEPT ![j] = "none"]
          /\ errs' = errs \ {j}
          /\ UNCHANGED <<conf, cached, marker, allowed, service, scopes, manage>>
          /\ phase' \in {[phase EXCEPT ![j] = "started"], [phase EXCEPT ![j] = "aborted"]}
      BY <2>3 DEF PrologFinish
    <3>2. \A k \in Jobs : Pending(k)' <=> Pending(k)
      BY <2>3, <3>1 DEF PrologFinish
    <3>3. \A u \in Users : PendingJobs(u)' = PendingJobs(u)
      BY <3>2
    <3> HIDE DEF PendingJobs, Pending
    <3>4. QED
      BY <2>3, <3>1, <3>3 DEF PrologFinish
  <2>4. CASE Free(j)
    BY <2>4 DEF Free
  <2>5. CASE HousekeepingFinish(j)
    BY <2>5 DEF HousekeepingFinish
  <2>6. QED
    BY <1>1, <2>1, <2>2, <2>3, <2>4, <2>5 DEF JobManager
<1>2. ASSUME NEW j \in Jobs, ScriptStep(j) PROVE CleanInv'
  <2>1. CASE ReadConfig(j)
    BY <2>1 DEF ReadConfig, ConfGet
  <2>2. CASE AcquireLock(j)
    BY <2>2 DEF AcquireLock, GivesUp
  <2>3. CASE CheckSkip(j)
    BY <2>3 DEF CheckSkip
  <2>4. CASE CountJobs(j)
    BY <2>4 DEF CountJobs
  <2>5. CASE ApplyConstraints(j)
    BY <2>5 DEF ApplyConstraints
  <2>6. CASE SetMarker(j)
    BY <2>6 DEF SetMarker
  <2>7. CASE StartService(j)
    <3>1. \A k \in Jobs : JobUser[k] = JobUser[j] /\ k # j => step[k] \notin LockedSteps
      BY <2>7, Exclusive DEF StartService
    <3>2. \A k \in Jobs : Pending(k)' <=> Pending(k)
      BY <2>7 DEF StartService
    <3>3. \A u \in Users : PendingJobs(u)' = PendingJobs(u)
      BY <3>2
    <3>4. j \in PendingJobs(JobUser[j]) /\ ~Skip(j) /\ conf[j] = manage
      BY <2>7 DEF StartService
    <3> HIDE DEF PendingJobs, Pending
    <3>5. QED
      BY <2>7, <3>1, <3>3, <3>4 DEF StartService
  <2>8. CASE ClearMarker(j)
    BY <2>8 DEF ClearMarker
  <2>9. CASE StopService(j)
    BY <2>9 DEF StopService
  <2>10. CASE CheckOrphans(j)
    BY <2>10 DEF CheckOrphans
  <2>11. CASE AwaitTerm(j)
    BY <2>11 DEF AwaitTerm
  <2>12. CASE AwaitKill(j)
    BY <2>12 DEF AwaitKill
  <2>13. CASE Revert(j)
    BY <2>13 DEF Revert
  <2>14. CASE ExitScript(j)
    BY <2>14 DEF ExitScript
  <2>15. QED
    BY <1>2, <2>1, <2>2, <2>3, <2>4, <2>5, <2>6, <2>7, <2>8, <2>9,
       <2>10, <2>11, <2>12, <2>13, <2>14 DEF ScriptStep
<1>3. ASSUME NEW j \in Jobs, ScriptKilled(j) PROVE CleanInv'
  BY <1>3 DEF ScriptKilled
<1>4. ASSUME NEW s \in Sessions,
             Account(s) \/ LoginStep(s) \/ SessionKilled(s) \/ ScopeExit(s)
       PROVE CleanInv'
  <2> USE DEF SGoto, SAt, Deny
  <2>1. CASE Account(s)
    BY <2>1 DEF Account
  <2>2. CASE ReadSessionConfig(s)
    BY <2>2 DEF ReadSessionConfig
  <2>3. CASE LockSession(s)
    BY <2>3 DEF LockSession
  <2>4. CASE CheckMarker(s)
    BY <2>4 DEF CheckMarker
  <2>5. CASE CreateScope(s)
    BY <2>5 DEF CreateScope
  <2>6. CASE ReleaseSession(s)
    BY <2>6 DEF ReleaseSession
  <2>7. CASE SessionKilled(s)
    BY <2>7 DEF SessionKilled
  <2>8. CASE ScopeExit(s)
    BY <2>8 DEF ScopeExit
  <2>9. QED
    BY <1>4, <2>1, <2>2, <2>3, <2>4, <2>5, <2>6, <2>7, <2>8 DEF
       LoginStep
<1>5. CASE Undrain \/ Reload
  BY <1>5 DEF Undrain, Reload
<1>6. CASE UNCHANGED vars
  BY <1>6 DEF vars
<1>7. QED
  BY <1>1, <1>2, <1>3, <1>4, <1>5, <1>6 DEF Next

-------------------------------------------------------------------------------
(* Theorems *)

(* Initially there is no marker and no script. *)
LEMMA MarkerInit == Init => MarkerInv
<1> SUFFICES ASSUME Init PROVE MarkerInv
  OBVIOUS
<1> USE ConstantsAssumption DEF Init, At
<1>1. PublishInv
  BY DEF PublishInv, Published, LockedSteps, CommonSteps, PrologSteps, TeardownSteps
<1>2. CoverInv
  BY DEF CoverInv, Covered, Published
<1>3. ExposeInv
  BY DEF ExposeInv, Exposed, Orphans, LockedSteps, CommonSteps, PrologSteps, TeardownSteps
<1>4. QED
  BY <1>1, <1>2, <1>3 DEF MarkerInv

(* PublishInv, which is all that StartedHasMarker needs. *)
LEMMA PublishAlways == ASSUME "late_start" \notin Faults PROVE Spec => [](IndInv /\ PublishInv)
<1>1. Init => IndInv /\ PublishInv
  BY InitIndInv, MarkerInit DEF MarkerInv
<1>2. IndInv /\ PublishInv /\ [Next]_vars => IndInv' /\ PublishInv'
  BY IndStep, PublishStep
<1>3. QED
  BY <1>1, <1>2, PTL DEF Spec

(* ExposeInv, for the properties of the marker and of live sessions. *)
LEMMA ExposeAlways ==
    ASSUME ~AllowReload, "late_end" \notin Faults PROVE Spec => [](IndInv /\ ExposeInv)
<1>1. Init => IndInv /\ ExposeInv
  BY InitIndInv, MarkerInit DEF MarkerInv
<1>2. IndInv /\ ExposeInv /\ [Next]_vars => IndInv' /\ ExposeInv'
  BY IndStep, ExposeStep
<1>3. QED
  BY <1>1, <1>2, PTL DEF Spec

(* CoverInv, when there are constraints. *)
LEMMA CoverAlways ==
    ASSUME "late_start" \notin Faults PROVE Spec => [](Constrain => CoverInv)
<1>1. Init => (Constrain => CoverInv)
  BY MarkerInit DEF MarkerInv
<1>2. IndInv /\ PublishInv /\ (Constrain => CoverInv) /\ [Next]_vars => (Constrain => CoverInv)'
  BY CoverStep
<1>3. QED
  BY <1>1, <1>2, PublishAlways, PTL DEF Spec

(* MarkerInv: the inductive invariants together, as the runs check them. *)
THEOREM MarkerInvariance ==
    ASSUME ~AllowReload, "late_start" \notin Faults, "late_end" \notin Faults
    PROVE  Spec => []MarkerInv
<1>1. PublishInv /\ (Constrain => CoverInv) /\ ExposeInv => MarkerInv
  BY DEF MarkerInv
<1>2. QED
  BY <1>1, PublishAlways, CoverAlways, ExposeAlways, PTL

(* StartedHasMarker: no housekeeping takes the marker away from a started job,
   provided job-list knows of every job whose prolog set it. *)
THEOREM StartedIsMarked == ASSUME "late_start" \notin Faults PROVE Spec => []StartedHasMarker
<1>1. PublishInv => StartedHasMarker
  BY DEF PublishInv, Published, StartedHasMarker, Managed
<1>2. QED
  BY <1>1, PublishAlways, PTL

(* StartedCovered: no script shrinks the slice below what a started job holds,
   provided job-list knows of every job whose prolog applied it. *)
THEOREM StartedIsCovered == ASSUME "late_start" \notin Faults PROVE Spec => []StartedCovered
<1>1. (Constrain => CoverInv) => StartedCovered
  BY DEF CoverInv, Covered, Published, StartedCovered, Managed
<1>2. QED
  BY <1>1, CoverAlways, PTL

(* MarkerHasJob: the marker never outlives the user's jobs, provided the
   configuration stays and job-list has forgotten the jobs that are over. *)
THEOREM MarkerIsOwned ==
    ASSUME ~AllowReload, "late_end" \notin Faults PROVE Spec => []MarkerHasJob
<1>1. TypeOK /\ ExposeInv => MarkerHasJob
  BY DEF TypeOK, ExposeInv, MarkerHasJob, PendingJobs, Pending, JobsHolding, Holding
<1>2. IndInv => TypeOK
  BY DEF IndInv
<1>3. QED
  BY <1>1, <1>2, ExposeAlways, PTL

(* MarkerMeansContained: under the same provisos sessions are admitted only to
   a slice that is confined to what the user's jobs hold. *)
THEOREM MarkerIsContained ==
    ASSUME ~AllowReload, "late_end" \notin Faults PROVE Spec => []MarkerMeansContained
<1>1. \A u : PendingJobs(u) \subseteq JobsHolding(u)
  BY DEF PendingJobs, Pending, JobsHolding, Holding
<1>2. TypeOK /\ ExposeInv => MarkerMeansContained
  BY <1>1 DEF TypeOK, ExposeInv, Exposed, Confined, MarkerMeansContained, Held
<1>3. IndInv => TypeOK
  BY DEF IndInv
<1>4. QED
  BY <1>2, <1>3, ExposeAlways, PTL

(* CleanInv: whatever a user has left on the node has a job, not yet through its
   housekeeping, that will look at it, if cgroups can be read and systemctl stop and
   revert do what they report. *)
THEOREM CleanInvariance ==
    ASSUME ~AllowReload, KillSlice, "late_end" \notin Faults,
           "unreadable" \notin Faults, "stop_error" \notin Faults,
           "revert_error" \notin Faults
    PROVE  Spec => []CleanInv
<1>1. Init => CleanInv
  BY ConstantsAssumption DEF Init, CleanInv, Dirty, Orphans, TeardownSteps
<1>2. IndInv /\ ExposeInv /\ CleanInv /\ [Next]_vars => CleanInv'
  BY CleanStep
<1>3. QED
  BY <1>1, <1>2, ExposeAlways, PTL DEF Spec

(* CleanWhenIdle: nothing is left of a user without a job, under the same
   provisos. *)
THEOREM NothingIsLeft ==
    ASSUME ~AllowReload, KillSlice, "late_end" \notin Faults,
           "unreadable" \notin Faults, "stop_error" \notin Faults,
           "revert_error" \notin Faults
    PROVE  Spec => []CleanWhenIdle
<1>1. CleanInv => CleanWhenIdle
  BY DEF CleanInv, Dirty, CleanWhenIdle, PendingJobs, Pending, JobsHolding, Holding
<1>2. QED
  BY <1>1, CleanInvariance, PTL

(* Isolation: with kill-user-slice, and cgroups that can be read, a live session
   never reaches beyond its user's jobs, unless its processes outlive SIGKILL and
   the node is drained for it. *)
THEOREM SessionsAreIsolated ==
    ASSUME ~AllowReload, KillSlice, "late_end" \notin Faults, "unreadable" \notin Faults
    PROVE  Spec => []Isolation
<1>1. \A u : PendingJobs(u) \subseteq JobsHolding(u)
  BY DEF PendingJobs, Pending, JobsHolding, Holding
<1>2. TypeOK /\ ExposeInv => Isolation
  BY <1>1, ConstantsAssumption
     DEF TypeOK, ExposeInv, Exposed, Purges, Orphans, Confined, Isolation, Held
<1>3. IndInv => TypeOK
  BY DEF IndInv
<1>4. QED
  BY <1>2, <1>3, ExposeAlways, PTL

===============================================================================
