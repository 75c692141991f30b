------------------------------- MODULE UserSlice -------------------------------
(***************************************************************************)
(* One compute node running flux-pam: the prolog and housekeeping scripts  *)
(* of the jobs allocated to the node, and pam_flux's account and session   *)
(* callbacks in the login processes, all meeting at three pieces of state  *)
(* per user: the flock on uid.<UID>.lock, the marker file uid.<UID>.active *)
(* and the systemd slice user-<UID>.slice.                                 *)
(*                                                                         *)
(* Each step of a script or of a login that another process can observe is *)
(* an action; the job manager, systemd and the users are the environment.  *)
(***************************************************************************)
EXTENDS FiniteSets

CONSTANTS
    Users,
    Jobs,           \* the jobs that may be allocated to the node, once each
    Sessions,       \* the ssh logins, once each
    Resources,      \* the cores, devices... of the node
    JobUser,        \* the owner of each job
    JobR,           \* the resources of the node in each job's R
    SessionUser,    \* the user who logs in
    InstanceOwner,  \* the uid of security.owner
    Constrain,      \* exec.sdexec-constrain-resources
    KillSlice,      \* pam.kill-user-slice
    AllowReload,    \* whether the administrator edits pam.manage-user-slice
    Faults,         \* the failures that may happen, see FaultKinds
    None

FaultKinds ==
    { "connect",        \* flux_open, conf_get, attr_get or parse_fsd fails in a script
      "lock",           \* a script waits 60s, or the lock file cannot be opened
      "linger",         \* linger is enabled or loginctl fails
      "query",          \* listing the user's jobs fails
      "late_start",     \* job-list has not heard of a job whose prolog still runs
      "late_end",       \* job-list still lists a job that is in housekeeping
      "apply",          \* looking up R or its properties, or set-property, fails
      "marker",         \* the marker cannot be created or removed
      "start",          \* systemctl start fails or hangs
      "stop_error",     \* systemctl stop reports an error
      "stop_timeout",   \* systemctl stop hangs for 30s
      "kill_error",     \* systemctl kill fails or hangs
      "unreadable",     \* cgroup.procs of a session cannot be read
      "grace_expired",  \* the slice is not seen empty within the grace time of SIGKILL
      "revert_error",   \* systemctl revert reports an error
      "revert_timeout", \* systemctl revert hangs for 30s
      "crash",          \* a script or a login process is killed
      "rpc",            \* a login process cannot reach the broker
      "scope",          \* StartTransientUnit fails or its reply is lost
      "putenv" }        \* pam_putenv fails

ASSUME ConstantsAssumption ==
    /\ JobUser \in [Jobs -> Users]
    /\ SessionUser \in [Sessions -> Users]
    /\ JobR \in [Jobs -> SUBSET Resources]
    /\ Jobs \cap Sessions = {}
    /\ None \notin Jobs \cup Sessions
    /\ Constrain \in BOOLEAN
    /\ KillSlice \in BOOLEAN
    /\ AllowReload \in BOOLEAN
    /\ Faults \subseteq FaultKinds

VARIABLES
    phase,    \* how far each job is in the job manager's hands
    ended,    \* the jobs that left state RUN: finished, cancelled or failed
    step,     \* the next step of each job's script
    conf,     \* pam.manage-user-slice as each script read it
    cached,   \* _cached_jobids of each script
    errs,     \* the jobs whose script will return 1
    lock,     \* the holder of each user's flock
    marker,   \* the users with an active marker
    allowed,  \* what user-<UID>.slice may use: Resources when unconstrained
    service,  \* the users whose user@<UID>.service runs
    sess,     \* how far each login is
    scopes,   \* the sessions with a live scope in their user's slice
    manage,   \* pam.manage-user-slice in the broker
    drained   \* whether the node is drained

scriptVars == <<step, conf, cached, errs>>
jobVars    == <<phase, ended>>
sliceVars  == <<marker, allowed, service>>
sessVars   == <<sess, scopes>>
nodeVars   == <<manage, drained>>

vars == <<jobVars, scriptVars, lock, sliceVars, sessVars, nodeVars>>

Phases == {"idle", "prolog", "started", "aborted", "housekeeping", "done", "failed"}

\* The steps of a script between taking the user's lock and releasing it.
CommonSteps   == {"check", "count", "apply", "exit"}
PrologSteps   == {"marker", "start"}
TeardownSteps == {"clear", "stop", "orphans", "term", "kill", "revert"}
LockedSteps   == CommonSteps \cup PrologSteps \cup TeardownSteps

SessPhases == {"new", "authorized", "locking", "locked", "checked", "attached",
               "open", "bypass", "denied", "closed"}

TypeOK ==
    /\ phase \in [Jobs -> Phases]
    /\ ended \subseteq Jobs
    /\ step \in [Jobs -> LockedSteps \cup {"none", "init", "lock", "end"}]
    /\ conf \in [Jobs -> BOOLEAN]
    /\ cached \in [Jobs -> SUBSET Jobs]
    /\ errs \subseteq Jobs
    /\ lock \in [Users -> Jobs \cup Sessions \cup {None}]
    /\ marker \subseteq Users
    /\ allowed \in [Users -> SUBSET Resources]
    /\ service \subseteq Users
    /\ sess \in [Sessions -> SessPhases]
    /\ scopes \subseteq Sessions
    /\ manage \in BOOLEAN
    /\ drained \in BOOLEAN

Init ==
    /\ phase = [j \in Jobs |-> "idle"]
    /\ ended = {}
    /\ step = [j \in Jobs |-> "none"]
    /\ conf = [j \in Jobs |-> FALSE]
    /\ cached = [j \in Jobs |-> {}]
    /\ errs = {}
    /\ lock = [u \in Users |-> None]
    /\ marker = {}
    /\ allowed = [u \in Users |-> Resources]
    /\ service = {}
    /\ sess = [s \in Sessions |-> "new"]
    /\ scopes = {}
    /\ manage \in BOOLEAN
    /\ drained = FALSE

-------------------------------------------------------------------------------
(* Helpers *)

\* Mutant: a flock that would block is taken for granted.
LockFree_Ignored(u) == TRUE

LockFree(u) == lock[u] = None

Take(u, p) == lock' = [lock EXCEPT ![u] = p]

\* Mutant: the descriptor is leaked.
Release_Leaked(u) == UNCHANGED lock

Release(u) == lock' = [lock EXCEPT ![u] = None]

\* In state RUN, which is what the account check asks for.
Running(j) == phase[j] \in {"prolog", "started", "aborted"} /\ j \notin ended

\* Mutant: only jobs that have a start event are counted.
Active_Started(j) == phase[j] = "started"

\* Mutant: filters=["run"], which leaves out jobs in CLEANUP.
Active_Run(j) == Running(j)

\* Mutant: a job is counted until its housekeeping is over.
Active_Housekeeping(j) == Running(j) \/ phase[j] = "housekeeping"

\* In state RUN or CLEANUP: job-list's "running".
Active(j) == phase[j] \in {"prolog", "started", "aborted"}

\* The scheduler does not give a job's resources away before its housekeeping
\* is over, and a failed housekeeping leaves them on a drained node.
Holding(j) == phase[j] \notin {"idle", "done"}

\* Mutant: JobList without user=.
ActiveLocalJobs_AnyUser(j) == {k \in Jobs : k # j /\ Active(k)}

\* active_local_jobs(): the user's other jobs on this rank.
ActiveLocalJobs(j) ==
    {k \in Jobs : k # j /\ JobUser[k] = JobUser[j] /\ Active(k)}

\* What job-list answers: it follows the job manager's journal, with a delay.
JobListAnswers(j) ==
    LET others  == {k \in Jobs \ {j} : JobUser[k] = JobUser[j]}
        unheard == {k \in others : "late_start" \in Faults /\ phase[k] = "prolog"}
        stale   == {k \in others : "late_end" \in Faults /\ phase[k] = "housekeeping"}
    IN  {(ActiveLocalJobs(j) \ missed) \cup extra :
            missed \in SUBSET unheard, extra \in SUBSET stale}

\* Mutant: housekeeping includes the job that ended.
IncludeCurrent_Always(j) == TRUE

IncludeCurrent(j) == phase[j] = "prolog"

\* resource_union(include_current)
ResourceUnion(j) ==
    UNION {JobR[k] : k \in cached[j] \cup (IF IncludeCurrent(j) THEN {j} ELSE {})}

\* Mutant: the walk skips every path that begins like the service's.
Orphans_Prefix(u) == {}

Orphans(u) == {s \in scopes : SessionUser[s] = u}

\* check_orphan_processes() returns an empty list: a cgroup whose processes
\* cannot be read counts as one without any.
SeesNone(u) == Orphans(u) = {} \/ "unreadable" \in Faults

\* Mutant: conf_get() without a default, which returns None for an unset key.
ConfGet_NoDefault == IF manage THEN TRUE ELSE None

\* conf_get("pam.manage-user-slice", False)
ConfGet == manage

Skip(j) == ~conf[j] \/ JobUser[j] = InstanceOwner

Goto(j, l) == step' = [step EXCEPT ![j] = l]

At(j, l) == step[j] = l

\* An exception reaches main(), which returns 1; __exit__ releases the lock.
Fail(j) ==
    /\ Goto(j, "exit")
    /\ errs' = errs \cup {j}


-------------------------------------------------------------------------------
(* The job manager: when scripts run, and what their exit status does.     *)

\* A job starts: state RUN, and its prolog is run.
Alloc(j) ==
    /\ phase[j] = "idle"
    /\ ~drained
    /\ \A k \in Jobs : Holding(k) => JobR[k] \cap JobR[j] = {}
    /\ phase' = [phase EXCEPT ![j] = "prolog"]
    /\ Goto(j, "init")
    /\ UNCHANGED <<ended, conf, cached, errs, lock, sliceVars, sessVars, nodeVars>>

\* The job's tasks exit, or it gets a fatal exception, on this node or another.
Finish(j) ==
    /\ phase[j] \in {"prolog", "started"}
    /\ j \notin ended
    /\ ended' = ended \cup {j}
    /\ UNCHANGED <<phase, scriptVars, lock, sliceVars, sessVars, nodeVars>>

\* A failed prolog fails the job, and may drain the node.
PrologFinish(j) ==
    /\ phase[j] = "prolog"
    /\ At(j, "end")
    /\ Goto(j, "none")
    /\ errs' = errs \ {j}
    /\ \/ /\ j \notin errs
          /\ phase' = [phase EXCEPT ![j] = "started"]
          /\ UNCHANGED <<ended, drained>>
       \/ /\ j \in errs
          /\ phase' = [phase EXCEPT ![j] = "aborted"]
          /\ ended' = ended \cup {j}
          /\ drained' \in {drained, TRUE}
    /\ UNCHANGED <<conf, cached, lock, sliceVars, sessVars, manage>>

\* The job is over: its resources go through housekeeping.
Free(j) ==
    /\ phase[j] \in {"started", "aborted"}
    /\ j \in ended
    /\ phase' = [phase EXCEPT ![j] = "housekeeping"]
    /\ Goto(j, "init")
    /\ conf' = [conf EXCEPT ![j] = FALSE]
    /\ cached' = [cached EXCEPT ![j] = {}]
    /\ UNCHANGED <<ended, errs, lock, sliceVars, sessVars, nodeVars>>

\* A failed housekeeping drains the node.
HousekeepingFinish(j) ==
    /\ phase[j] = "housekeeping"
    /\ At(j, "end")
    /\ Goto(j, "none")
    /\ errs' = errs \ {j}
    /\ \/ /\ j \notin errs
          /\ phase' = [phase EXCEPT ![j] = "done"]
          /\ UNCHANGED drained
       \/ /\ j \in errs
          /\ phase' = [phase EXCEPT ![j] = "failed"]
          /\ drained' = TRUE
    /\ UNCHANGED <<ended, conf, cached, lock, sliceVars, sessVars, manage>>

\* The administrator returns to service a node that housekeeping left clean.
Undrain ==
    /\ drained
    /\ \A j \in Jobs : phase[j] # "failed"
    /\ drained' = FALSE
    /\ UNCHANGED <<jobVars, scriptVars, lock, sliceVars, sessVars, manage>>

\* The administrator edits the configuration and reloads it.
Reload ==
    /\ AllowReload
    /\ manage' = ~manage
    /\ UNCHANGED <<jobVars, scriptVars, lock, sliceVars, sessVars, drained>>

-------------------------------------------------------------------------------
(* The scripts: both create a PAMHelper, whose lock the with statement     *)
(* holds to the end.                                                       *)

\* PAMHelper.__init__ reads the configuration before it takes the lock.
ReadConfig(j) ==
    /\ At(j, "init")
    /\ \/ /\ conf' = [conf EXCEPT ![j] = ConfGet]
          /\ Goto(j, "lock")
          /\ UNCHANGED errs
       \/ /\ "connect" \in Faults
          /\ Goto(j, "end")
          /\ errs' = errs \cup {j}
          /\ UNCHANGED conf
    /\ UNCHANGED <<jobVars, cached, lock, sliceVars, sessVars, nodeVars>>

\* Mutant: flock() without LOCK_NB, which waits for as long as it takes.
GivesUp_Never == FALSE

\* The poll ends after 60s at the latest.
GivesUp == "lock" \in Faults

\* acquire_lock()
AcquireLock(j) ==
    /\ At(j, "lock")
    /\ \/ /\ LockFree(JobUser[j])
          /\ Take(JobUser[j], j)
          /\ Goto(j, "check")
          /\ UNCHANGED errs
       \/ /\ GivesUp
          /\ Goto(j, "end")
          /\ errs' = errs \cup {j}
          /\ UNCHANGED lock
    /\ UNCHANGED <<jobVars, conf, cached, sliceVars, sessVars, nodeVars>>

\* should_skip(), then the prolog's check_linger().
CheckSkip(j) ==
    /\ At(j, "check")
    /\ \/ /\ Skip(j)
          /\ Goto(j, "exit")
          /\ UNCHANGED errs
       \/ /\ ~Skip(j)
          /\ Goto(j, "count")
          /\ UNCHANGED errs
       \/ /\ ~Skip(j)
          /\ phase[j] = "prolog"
          /\ "linger" \in Faults
          /\ Fail(j)
       \/ /\ "connect" \in Faults
          /\ Fail(j)
    /\ UNCHANGED <<jobVars, conf, cached, lock, sliceVars, sessVars, nodeVars>>

\* active_local_jobs(); housekeeping tears the slice down when none remain.
CountJobs(j) ==
    /\ At(j, "count")
    /\ \/ /\ \E listed \in JobListAnswers(j) :
                /\ cached' = [cached EXCEPT ![j] = listed]
                /\ IF phase[j] = "housekeeping" /\ listed = {}
                   THEN Goto(j, "clear")
                   ELSE Goto(j, "apply")
          /\ UNCHANGED errs
       \/ /\ "query" \in Faults
          /\ Fail(j)
          /\ UNCHANGED cached
    /\ UNCHANGED <<jobVars, conf, lock, sliceVars, sessVars, nodeVars>>

\* apply_resource_constraints(): a set-property that is reported failed, or
\* hangs for 30s, may still have taken effect.
ApplyConstraints(j) ==
    LET u == JobUser[j]
        applied == [allowed EXCEPT ![u] = ResourceUnion(j)]
    IN  /\ At(j, "apply")
        /\ \/ /\ IF phase[j] = "prolog" THEN Goto(j, "marker") ELSE Goto(j, "exit")
              /\ allowed' = IF Constrain THEN applied ELSE allowed
              /\ UNCHANGED errs
           \/ /\ "apply" \in Faults
              /\ Constrain
              /\ Fail(j)
              /\ allowed' \in {allowed, applied}
        /\ UNCHANGED <<jobVars, conf, cached, lock, marker, service, sessVars, nodeVars>>

\* set_active_marker(), after the constraints are in place.
SetMarker(j) ==
    /\ At(j, "marker")
    /\ \/ /\ marker' = marker \cup {JobUser[j]}
          /\ Goto(j, "start")
          /\ UNCHANGED errs
       \/ /\ "marker" \in Faults
          /\ Fail(j)
          /\ UNCHANGED marker
    /\ UNCHANGED <<jobVars, conf, cached, lock, allowed, service, sessVars, nodeVars>>

\* user_service_start(): whatever happens, the prolog goes on.
StartService(j) ==
    /\ At(j, "start")
    /\ Goto(j, "exit")
    /\ \/ service' = service \cup {JobUser[j]}
       \/ "start" \in Faults /\ UNCHANGED service
    /\ UNCHANGED <<jobVars, conf, cached, errs, lock, marker, allowed, sessVars, nodeVars>>

\* user_slice_teardown() begins: from here on no session is admitted.
ClearMarker(j) ==
    /\ At(j, "clear")
    /\ \/ /\ marker' = marker \ {JobUser[j]}
          /\ Goto(j, "stop")
          /\ UNCHANGED errs
       \/ /\ "marker" \in Faults
          /\ Fail(j)
          /\ UNCHANGED marker
    /\ UNCHANGED <<jobVars, conf, cached, lock, allowed, service, sessVars, nodeVars>>

\* systemctl stop user@UID.service: a CalledProcessError is ignored, a
\* TimeoutExpired ends the script.
StopService(j) ==
    LET stopped == service \ {JobUser[j]}
        CleanUp == IF KillSlice THEN Goto(j, "orphans") ELSE Goto(j, "revert")
    IN  /\ At(j, "stop")
        /\ \/ /\ service' = stopped
              /\ CleanUp
              /\ UNCHANGED errs
           \/ /\ "stop_error" \in Faults
              /\ service' \in {service, stopped}
              /\ CleanUp
              /\ UNCHANGED errs
           \/ /\ "stop_timeout" \in Faults
              /\ service' \in {service, stopped}
              /\ Fail(j)
        /\ UNCHANGED <<jobVars, conf, cached, lock, marker, allowed, sessVars, nodeVars>>

-------------------------------------------------------------------------------
(* _cleanup_user_slice(), when kill-user-slice is set                      *)

\* Nothing to kill, or SIGTERM.
CheckOrphans(j) ==
    LET orphans == Orphans(JobUser[j])
    IN  /\ At(j, "orphans")
        /\ \/ /\ SeesNone(JobUser[j])
              /\ Goto(j, "revert")
              /\ UNCHANGED errs
           \/ /\ orphans # {}
              /\ Goto(j, "term")
              /\ UNCHANGED errs
           \/ /\ orphans # {}
              /\ "kill_error" \in Faults
              /\ Fail(j)
        /\ UNCHANGED <<jobVars, conf, cached, lock, sliceVars, sessVars, nodeVars>>

\* The slice is seen empty within the grace time, or SIGKILL.  The last look
\* may be older than the decision to kill.
AwaitTerm(j) ==
    /\ At(j, "term")
    /\ \/ /\ SeesNone(JobUser[j])
          /\ Goto(j, "revert")
          /\ UNCHANGED errs
       \/ /\ Goto(j, "kill")
          /\ UNCHANGED errs
       \/ /\ "kill_error" \in Faults
          /\ Fail(j)
    /\ UNCHANGED <<jobVars, conf, cached, lock, sliceVars, sessVars, nodeVars>>

\* The slice is seen empty within the grace time, or a RuntimeError that
\* user_slice_teardown() keeps until the slice is reverted.
AwaitKill(j) ==
    /\ At(j, "kill")
    /\ Goto(j, "revert")
    /\ \/ /\ SeesNone(JobUser[j])
          /\ UNCHANGED errs
       \/ /\ "grace_expired" \in Faults
          /\ errs' = errs \cup {j}
    /\ UNCHANGED <<jobVars, conf, cached, lock, sliceVars, sessVars, nodeVars>>

\* revert_slice(): a CalledProcessError is ignored, a TimeoutExpired is not.
Revert(j) ==
    LET reverted == [allowed EXCEPT ![JobUser[j]] = Resources]
    IN  /\ At(j, "revert")
        /\ \/ /\ allowed' = reverted
              /\ Goto(j, "exit")
              /\ UNCHANGED errs
           \/ /\ "revert_error" \in Faults
              /\ allowed' \in {allowed, reverted}
              /\ Goto(j, "exit")
              /\ UNCHANGED errs
           \/ /\ "revert_timeout" \in Faults
              /\ allowed' \in {allowed, reverted}
              /\ Fail(j)
        /\ UNCHANGED <<jobVars, conf, cached, lock, marker, service, sessVars, nodeVars>>

-------------------------------------------------------------------------------

\* PAMHelper.__exit__
ExitScript(j) ==
    /\ At(j, "exit")
    /\ Goto(j, "end")
    /\ Release(JobUser[j])
    /\ UNCHANGED <<jobVars, conf, cached, errs, sliceVars, sessVars, nodeVars>>

\* A script is killed; the kernel drops its flock.
ScriptKilled(j) ==
    LET u == JobUser[j]
    IN  /\ "crash" \in Faults
        /\ step[j] \notin {"none", "end"}
        /\ Goto(j, "end")
        /\ errs' = errs \cup {j}
        /\ IF lock[u] = j THEN Release(u) ELSE UNCHANGED lock
        /\ UNCHANGED <<jobVars, conf, cached, sliceVars, sessVars, nodeVars>>

-------------------------------------------------------------------------------
(* The login process: pam_sm_acct_mgmt, then pam_sm_open_session.          *)

SGoto(s, l) == sess' = [sess EXCEPT ![s] = l]

SAt(s, l) == sess[s] = l

\* PAM_SESSION_ERR: the descriptor of the lock is closed, sshd ends the login.
Deny(s) ==
    /\ SGoto(s, "denied")
    /\ Release(SessionUser[s])

\* flux_check_user(): a job of the user runs here.  The sentinel is set.
Account(s) ==
    /\ SAt(s, "new")
    /\ \E j \in Jobs : JobUser[j] = SessionUser[s] /\ Running(j)
    /\ SGoto(s, "authorized")
    /\ UNCHANGED <<jobVars, scriptVars, lock, sliceVars, scopes, nodeVars>>

\* check_pam_manage_user_slice(), and what follows from it without the lock.
\* The owner is not recognised when the attribute cannot be read.
ReadSessionConfig(s) ==
    /\ SAt(s, "authorized")
    /\ \/ ~manage /\ SGoto(s, "bypass")
       \/ manage /\ SessionUser[s] = InstanceOwner /\ SGoto(s, "bypass")
       \/ manage /\ SessionUser[s] # InstanceOwner /\ SGoto(s, "locking")
       \/ "rpc" \in Faults /\ manage /\ SGoto(s, "locking")
       \/ "rpc" \in Faults /\ SGoto(s, "denied")
    /\ UNCHANGED <<jobVars, scriptVars, lock, sliceVars, scopes, nodeVars>>

\* user_lock_acquire(): waits for as long as it takes.
LockSession(s) ==
    /\ SAt(s, "locking")
    /\ \/ /\ LockFree(SessionUser[s])
          /\ Take(SessionUser[s], s)
          /\ SGoto(s, "locked")
       \/ /\ "lock" \in Faults
          /\ SGoto(s, "denied")
          /\ UNCHANGED lock
    /\ UNCHANGED <<jobVars, scriptVars, sliceVars, scopes, nodeVars>>

\* check_active_marker()
CheckMarker(s) ==
    /\ SAt(s, "locked")
    /\ \/ /\ SessionUser[s] \in marker
          /\ SGoto(s, "checked")
          /\ UNCHANGED lock
       \/ /\ SessionUser[s] \notin marker
          /\ Deny(s)
    /\ UNCHANGED <<jobVars, scriptVars, sliceVars, scopes, nodeVars>>

\* create_session_scope(): when the reply is lost the scope may exist.
CreateScope(s) ==
    /\ SAt(s, "checked")
    /\ \/ /\ scopes' = scopes \cup {s}
          /\ SGoto(s, "attached")
          /\ UNCHANGED lock
       \/ /\ "scope" \in Faults
          /\ scopes' \in {scopes, scopes \cup {s}}
          /\ Deny(s)
    /\ UNCHANGED <<jobVars, scriptVars, sliceVars, nodeVars>>

\* The lock is released, then the environment is set.
ReleaseSession(s) ==
    /\ SAt(s, "attached")
    /\ Release(SessionUser[s])
    /\ \/ SGoto(s, "open")
       \/ "putenv" \in Faults /\ SGoto(s, "denied")
    /\ UNCHANGED <<jobVars, scriptVars, sliceVars, scopes, nodeVars>>

\* The login process is killed on its way; the kernel drops its flock.
SessionKilled(s) ==
    LET u == SessionUser[s]
    IN  /\ "crash" \in Faults
        /\ sess[s] \in {"authorized", "locking", "locked", "checked", "attached"}
        /\ SGoto(s, "denied")
        /\ IF lock[u] = s THEN Release(u) ELSE UNCHANGED lock
        /\ UNCHANGED <<jobVars, scriptVars, sliceVars, scopes, nodeVars>>

\* The last process of the scope exits, by itself or on a signal.  The login
\* process that still holds the lock is in the scope.
ScopeExit(s) ==
    /\ s \in scopes
    /\ sess[s] # "attached"
    /\ scopes' = scopes \ {s}
    /\ SGoto(s, "closed")
    /\ UNCHANGED <<jobVars, scriptVars, lock, sliceVars, nodeVars>>

-------------------------------------------------------------------------------

JobManager(j) ==
    Alloc(j) \/ Finish(j) \/ PrologFinish(j) \/ Free(j) \/ HousekeepingFinish(j)

ScriptStep(j) ==
    \/ ReadConfig(j) \/ AcquireLock(j) \/ CheckSkip(j) \/ CountJobs(j)
    \/ ApplyConstraints(j) \/ SetMarker(j) \/ StartService(j)
    \/ ClearMarker(j) \/ StopService(j)
    \/ CheckOrphans(j) \/ AwaitTerm(j) \/ AwaitKill(j)
    \/ Revert(j) \/ ExitScript(j)

LoginStep(s) ==
    \/ ReadSessionConfig(s) \/ LockSession(s) \/ CheckMarker(s)
    \/ CreateScope(s) \/ ReleaseSession(s)

Next ==
    \/ \E j \in Jobs : JobManager(j) \/ ScriptStep(j) \/ ScriptKilled(j)
    \/ \E s \in Sessions : Account(s) \/ LoginStep(s) \/ SessionKilled(s) \/ ScopeExit(s)
    \/ Undrain
    \/ Reload

Spec == Init /\ [][Next]_vars

-------------------------------------------------------------------------------
(* Fairness.  The broker need not answer: no request of a script or of the *)
(* session callback has a timeout, so nothing is assumed of a step that    *)
(* makes one.  All but its first ones a script makes under the lock.       *)
(* Every other step of a script ends by itself, the poll of the lock after *)
(* 60s, a subprocess after 30s, the clean-up with its grace times.  A      *)
(* login waits in flock() for as long as the lock is held.  The job        *)
(* manager reaps the scripts and frees the jobs that ended.  No job need   *)
(* end, and no session need exit.                                          *)

\* Flux() and conf_get(); attr_get() in should_skip(); job-list; the lookup of R
\* and the request to the mapper.
AsksBroker(j) ==
    \/ step[j] \in {"init", "check", "count"}
    \/ At(j, "apply") /\ Constrain

\* check_pam_manage_user_slice() connects and asks for the configuration.
SessionAsksBroker(s) == SAt(s, "authorized")

WaitsForLock(s) == SAt(s, "locking") /\ ~LockFree(SessionUser[s])

Fairness ==
    /\ \A j \in Jobs : /\ WF_vars(~AsksBroker(j) /\ ScriptStep(j))
                       /\ WF_vars(PrologFinish(j))
                       /\ WF_vars(Free(j))
                       /\ WF_vars(HousekeepingFinish(j))
    /\ \A s \in Sessions :
          WF_vars(~SessionAsksBroker(s) /\ ~WaitsForLock(s) /\ LoginStep(s))

FairSpec == Spec /\ Fairness

-------------------------------------------------------------------------------
(* The abstract gate *)

InTeardown(j) ==
    /\ phase[j] = "housekeeping"
    /\ step[j] \in TeardownSteps \ {"clear"} \/ j \in errs

\* A housekeeping that failed, or will, leaves a gate that is not open draining.
Cleaning(j) == phase[j] = "failed" \/ InTeardown(j)

Draining(u) == \E j \in Jobs : JobUser[j] = u /\ Cleaning(j)

GateOf(u) ==
    IF u \in marker THEN "open"
    ELSE IF Draining(u) THEN "draining"
    ELSE "closed"

\* The clean-up is asked for, and can see every process it is to kill.
Purges == KillSlice /\ "unreadable" \notin Faults

Gate == INSTANCE AccessGate
            WITH gate <- [u \in Users |-> GateOf(u)],
                 inside <- scopes,
                 Purge <- Purges

\* Every step of the node is a step of the gate or none of its business: in
\* particular a scope is created only while the marker is there, although
\* pam_sm_open_session looks at it one step earlier, and with kill-user-slice
\* a clean-up that reports success leaves no session behind, provided that it
\* could read the cgroups it looked at.
GateSpec == Gate!Spec

-------------------------------------------------------------------------------
(* Safety *)

\* The flock is held exactly between acquire_lock() and the end of the with
\* statement, or between user_lock_acquire() and user_lock_release(): never
\* by two, never left behind, whatever fails or is killed in between.
LockInv ==
    /\ \A j \in Jobs : step[j] \in LockedSteps <=> lock[JobUser[j]] = j
    /\ \A s \in Sessions :
          sess[s] \in {"locked", "checked", "attached"} <=> lock[SessionUser[s]] = s
    /\ \A u \in Users : \/ lock[u] = None
                        \/ lock[u] \in Jobs /\ JobUser[lock[u]] = u
                        \/ lock[u] \in Sessions /\ SessionUser[lock[u]] = u

JobsHolding(u) == {j \in Jobs : JobUser[j] = u /\ Holding(j)}

Held(u) == UNION {JobR[j] : j \in JobsHolding(u)}

\* The marker never outlives the user's jobs: some job of the user still has
\* its housekeeping to come, or a failed one drained the node.  Housekeeping
\* scripts of jobs that end together must not each leave it to the other.
MarkerHasJob == \A u \in marker : JobsHolding(u) # {}

\* The prolog ran, with manage-user-slice on, and reported success.
Managed(j) == phase[j] = "started" /\ ~Skip(j)

\* From the job's start to its end its user is not denied a session: no
\* housekeeping of another job takes the marker away.
StartedHasMarker == \A j \in Jobs : Managed(j) => JobUser[j] \in marker

\* Sessions are admitted to a slice that is confined to what the user's jobs
\* hold, so never to what the scheduler may give to another user.
MarkerMeansContained == Constrain => \A u \in marker : allowed[u] \subseteq Held(u)

\* The slice is never confined to less than the user's started jobs hold: no
\* script applies a union computed before a job that started since.
StartedCovered ==
    Constrain => \A j \in Jobs : Managed(j) => JobR[j] \subseteq allowed[JobUser[j]]

\* Housekeeping of the user's has failed, or will when its script is over, and
\* the node is drained for it.
CleanupFailed(u) ==
    \E j \in Jobs :
        /\ JobUser[j] = u
        /\ \/ phase[j] = "failed"
           \/ phase[j] = "housekeeping" /\ j \in errs

\* Reverted although sessions may be left.
Loose(u) == allowed[u] = Resources /\ CleanupFailed(u)

\* A live session never reaches beyond its user's jobs, from admission until
\* it is killed: the slice is reverted once it is empty, or under processes that
\* outlive SIGKILL, and then the failure is on record and drains the node.
Isolation ==
    Constrain =>
        \A s \in scopes : \/ allowed[SessionUser[s]] \subseteq Held(SessionUser[s])
                         \/ Loose(SessionUser[s])

\* When the user has no job on the node nothing of flux-pam is left there.
CleanWhenIdle ==
    \A u \in Users :
        JobsHolding(u) = {} => /\ u \notin marker
                               /\ u \notin service
                               /\ allowed[u] = Resources
                               /\ Orphans(u) = {}

-------------------------------------------------------------------------------
(* What the documentation says of the program and a run refutes *)

\* "Revert on last-job teardown so this job's constraints do not linger"
\* (revert_slice), after a "best-effort stop" of the user manager whose
\* failure is "logged and ignored" (flux-config-pam(5)): once no script of the
\* user is left to run and the marker is gone, so are the constraints.
NoLingeringConstraints ==
    \A u \in Users :
        /\ u \notin marker
        /\ \A j \in Jobs : JobUser[j] = u => phase[j] \in {"idle", "done", "failed"}
        => allowed[u] = Resources

\* "If processes still remain, raises an error and drains the node": the
\* error of the clean-up is raised only when processes remain.
DrainsOnlyOnOrphans ==
    [][\A j \in Jobs :
        At(j, "kill") /\ At(j, "revert")' /\ j \in errs' \ errs => Orphans(JobUser[j]) # {}]_vars

-------------------------------------------------------------------------------
(* The inductive invariant behind LockInv and GateSpec *)

\* A script runs in the prolog and in housekeeping, each with steps of its own,
\* and once its failure is decided it only reverts the slice and exits.
ScriptInv ==
    \A j \in Jobs :
        /\ step[j] = "none" <=> phase[j] \notin {"prolog", "housekeeping"}
        /\ step[j] \in PrologSteps => phase[j] = "prolog"
        /\ step[j] \in TeardownSteps => phase[j] = "housekeeping"
        /\ j \in errs => step[j] \in {"revert", "exit", "end"}

\* What the marker check and the look for orphans established still holds when
\* it is acted upon: the lock kept the other side away.
CheckInv ==
    /\ \A s \in Sessions : sess[s] = "checked" => SessionUser[s] \in marker
    /\ \A s \in scopes : sess[s] \in {"attached", "open", "denied"}
    /\ \A j \in Jobs :
          /\ step[j] \in TeardownSteps \ {"clear"} => JobUser[j] \notin marker
          /\ Purges /\ step[j] = "revert" /\ j \notin errs => Orphans(JobUser[j]) = {}

IndInv == TypeOK /\ ScriptInv /\ LockInv /\ CheckInv

-------------------------------------------------------------------------------
(* The inductive invariants behind the properties of marker and slice      *)

\* The job's prolog has set the marker, and reported or will report success.
Published(j) ==
    /\ ~Skip(j)
    /\ \/ phase[j] = "started"
       \/ phase[j] = "prolog" /\ step[j] \in {"start", "exit", "end"} /\ j \notin errs

\* A clean-up that is about to remove the marker found no such job, and the
\* lock keeps a new one from being published before it does.
PublishInv ==
    \A j \in Jobs :
        /\ step[j] \in LockedSteps \ {"check", "exit"} => ~Skip(j)
        /\ Published(j) => JobUser[j] \in marker
        /\ step[j] = "clear" =>
              \A k \in Jobs : JobUser[k] = JobUser[j] => ~Published(k)

\* The constraints have been applied for the job.
Covered(j) == Published(j) \/ At(j, "marker")

\* A script about to apply a union has counted every job that was covered.
CoverInv ==
    \A j \in Jobs :
        /\ Covered(j) => JobR[j] \subseteq allowed[JobUser[j]]
        /\ At(j, "apply") =>
              \A k \in Jobs \ {j} :
                  JobUser[k] = JobUser[j] /\ Covered(k) => k \in cached[j]

\* The job still has a script to run that looks at the slice, or failed in it.
Pending(j) ==
    /\ phase[j] \notin {"idle", "done"}
    /\ ~(phase[j] = "housekeeping" /\ step[j] \in {"exit", "end"} /\ j \notin errs)

PendingJobs(u) == {j \in Jobs : JobUser[j] = u /\ Pending(j)}

Confined(u) == Constrain => allowed[u] \subseteq UNION {JobR[j] : j \in PendingJobs(u)}

\* Sessions of the user are admitted, or live where a clean-up must kill them.
Exposed(u) == u \in marker \/ (Purges /\ Orphans(u) # {})

\* Jobs that a script has counted stay pending while it holds the lock, so the
\* marker and the slice are never left to a job that is past its clean-up.
ExposeInv ==
    /\ \A u \in Users :
          /\ Exposed(u) => /\ manage /\ u # InstanceOwner
                           /\ Confined(u) \/ (u \notin marker /\ Loose(u))
          /\ u \in marker => PendingJobs(u) # {}
    /\ \A j \in Jobs :
          /\ step[j] \in LockedSteps \cup {"lock"} => conf[j] = manage
          /\ step[j] \in LockedSteps \ {"check", "exit"} => ~Skip(j)
          /\ At(j, "apply") => cached[j] \subseteq PendingJobs(JobUser[j]) \ {j}
          /\ At(j, "apply") /\ phase[j] = "housekeeping" => cached[j] # {}
          /\ At(j, "marker") => Confined(JobUser[j])

MarkerInv == PublishInv /\ (Constrain => CoverInv) /\ ExposeInv

\* Something of flux-pam's is left of the user.
Dirty(u) ==
    \/ u \in marker
    \/ u \in service
    \/ allowed[u] # Resources
    \/ Orphans(u) # {}

\* What is dirty has a job that will clean it up or fail trying.
CleanInv ==
    /\ \A u \in Users :
          Dirty(u) => manage /\ u # InstanceOwner /\ PendingJobs(u) # {}
    /\ \A j \in Jobs :
          step[j] \in TeardownSteps \ {"clear", "stop"} => JobUser[j] \notin service

-------------------------------------------------------------------------------
(* Liveness *)

\* A job that ended gets its resources released, or its node drained: a script
\* waits for ever for no lock, no subprocess and no process that stays, but for a
\* broker that does not answer its own request.  Another script that does so with
\* the lock in its hands fails the job, and does not keep it.
JobsRelease ==
    \A j \in Jobs : j \in ended ~> phase[j] \in {"done", "failed"} \/ []AsksBroker(j)

\* A script that keeps the user's lock while the broker does not answer.
HolderAsksBroker(u) == lock[u] \in Jobs /\ AsksBroker(lock[u])

\* A login that was authorized is let in or refused, whoever fails or dies with
\* the lock, unless the broker leaves it without an answer, or the script that
\* has the lock: flock() in the login has no timeout.
LoginsResolve ==
    \A s \in Sessions :
        sess[s] = "authorized" ~>
            \/ sess[s] \in {"open", "bypass", "denied", "closed"}
            \/ []SessionAsksBroker(s)
            \/ [](SAt(s, "locking") /\ HolderAsksBroker(SessionUser[s]))

===============================================================================
