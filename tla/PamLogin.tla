------------------------------- MODULE PamLogin -------------------------------
(***************************************************************************)
(* One login through the two callbacks of pam_flux.so: who is admitted by  *)
(* pam_sm_acct_mgmt, what that leaves for pam_sm_open_session, and whether *)
(* the session ends up in the user's slice.                                *)
(*                                                                         *)
(* The callbacks share nothing but the sentinel pam_flux_authorized, and   *)
(* each asks the broker anew: between them jobs end and the configuration  *)
(* changes.  What happens at the user's lock is the subject of UserSlice;  *)
(* here attaching a session succeeds or fails.                             *)
(***************************************************************************)
EXTENDS Naturals, Sequences

CONSTANTS
    Uids,         \* the users who log in or own jobs
    Owner,        \* the instance owner, security.owner
    MaxJobs       \* bound on the jobs listed for one login

ASSUME PamAssumption ==
    /\ Owner \in Uids
    /\ MaxJobs \in Nat

VARIABLES
    user,      \* the uid of PAM_USER
    build,     \* whether the module was built with libsystemd
    options,   \* the module's options on the account line
    stage,     \* how far the login is
    jobs,      \* job-list's answer: jobs in RUN on this rank, of user or owner
    index,     \* the next job check_jobs_array() looks at
    account,   \* what the account stack says, and who said it
    sentinel,  \* pam_flux_authorized
    managed,   \* pam.manage-user-slice as the session callback read it
    session,   \* what pam_sm_open_session returned
    attached   \* whether the session is in a scope of the user's slice

vars == <<user, build, options, stage, jobs, index, account, sentinel, managed, session, attached>>

\* A job as check_jobs_array() sees it.  first: the job's ranks decode and this
\* rank is the first of them.  guests: it is an instance that can be reached and
\* has access.allow-guest-user; "hangs": it takes the request and never answers.
JobEntries ==
    [uid : Uids, readable : BOOLEAN, first : BOOLEAN, guests : {"no", "yes", "hangs"}]

Stages == {"account", "scan", "session", "config", "attach", "done"}

TypeOK ==
    /\ user \in Uids
    /\ build \in {"with libsystemd", "without"}
    /\ options \in [valid : BOOLEAN, allow_guest_user : BOOLEAN]
    /\ stage \in Stages
    /\ jobs \in Seq(JobEntries) /\ Len(jobs) <= MaxJobs
    /\ index \in 1..(MaxJobs + 1)
    /\ account \in {"none", "other", "denied", "owner", "guest", "error", "ignore"}
    /\ sentinel \in BOOLEAN
    /\ managed \in BOOLEAN
    /\ session \in {"none", "success", "ignore", "error"}
    /\ attached \in BOOLEAN

Init ==
    /\ user \in Uids
    /\ build \in {"with libsystemd", "without"}
    /\ options \in [valid : BOOLEAN, allow_guest_user : BOOLEAN]
    /\ stage = "account"
    /\ jobs = <<>>
    /\ index = 1
    /\ account = "none"
    /\ sentinel = FALSE
    /\ managed = FALSE
    /\ session = "none"
    /\ attached = FALSE

-------------------------------------------------------------------------------
(* pam_sm_acct_mgmt *)

\* The account stack goes on to the session unless pam_flux denies.  PAM_IGNORE
\* leaves it to the other modules.
AccountReturns(r) ==
    /\ account' = r
    /\ stage' = IF r \in {"other", "owner", "guest", "ignore"} THEN "session" ELSE "done"

\* An earlier sufficient module admits the user: pam_flux is not asked.
AdmittedByOther ==
    /\ stage = "account"
    /\ AccountReturns("other")
    /\ UNCHANGED <<user, build, options, jobs, index, sentinel, managed, session, attached>>

\* PAM_USER_UNKNOWN, PAM_SYSTEM_ERR, or PAM_IGNORE for systemd-user.
AccountEarly ==
    /\ stage = "account"
    /\ \/ AccountReturns("error")
       \/ options.valid /\ AccountReturns("ignore")
    /\ UNCHANGED <<user, build, options, jobs, index, sentinel, managed, session, attached>>

\* The other user whose jobs count: the instance owner, if guests may come with
\* them and security.owner can be read.
AllowIfUser == IF options.allow_guest_user THEN Owner ELSE user

\* flux_check_user(): the jobs arrive in any order.  The owner's are asked for
\* as well if guests are allowed, unless security.owner cannot be read.
ListJobs ==
    /\ stage = "account"
    /\ options.valid
    /\ \/ /\ \E n \in 0..MaxJobs, uids \in {{user}, {user, AllowIfUser}} :
                jobs' \in [1..n -> {e \in JobEntries : e.uid \in uids}]
          /\ stage' = "scan"
          /\ UNCHANGED account
       \/ /\ AccountReturns("denied")
          /\ UNCHANGED jobs
    /\ UNCHANGED <<user, build, options, index, sentinel, managed, session, attached>>

\* Mutant: any job of the host counts, whatever its rank 0.
HostsGuests_AnyRank(e) == e.uid = AllowIfUser /\ e.guests = "yes"

OwnedByUser(e) == e.uid = user

\* Mutant: every job of the host on the node is asked.
AsksGuest_AnyRank(e) == e.uid = AllowIfUser

\* check_guest_allowed() is asked on rank 0 of the job only.
AsksGuest(e) == e.uid = AllowIfUser /\ e.first

HostsGuests(e) == AsksGuest(e) /\ e.guests = "yes"

\* The request has no timeout: the login waits for as long as the instance does.
Stalls(e) == e.readable /\ ~OwnedByUser(e) /\ AsksGuest(e) /\ e.guests = "hangs"

\* Mutant: the loop skips every other job.
Following_Skip(i) == i + 2

Following(i) == i + 1

\* Mutant: the whole array is unpacked before any job is looked at.
Refused_Ahead(i) == \E k \in i..Len(jobs) : ~jobs[k].readable

\* A job without userid or ranks ends the loop with a denial.
Refused(i) == ~jobs[i].readable

\* Mutant: an owner is let in although the sentinel cannot be stored.
Unstored_Admitted == "owner"

\* The answer when pam_set_data() fails.
Unstored == "error"

\* check_jobs_array(): the first job that says anything decides.
ScanJob ==
    LET e == jobs[index]
    IN  /\ stage = "scan"
        /\ index <= Len(jobs)
        /\ ~Stalls(e)
        /\ \/ Refused(index) /\ AccountReturns("denied") /\ UNCHANGED <<index, sentinel>>
           \/ /\ ~Refused(index) /\ OwnedByUser(e)
              /\ \/ AccountReturns("owner") /\ sentinel' = TRUE
                 \/ AccountReturns(Unstored) /\ UNCHANGED sentinel
              /\ UNCHANGED index
           \/ /\ ~Refused(index) /\ ~OwnedByUser(e) /\ HostsGuests(e)
              /\ AccountReturns("guest")
              /\ UNCHANGED <<index, sentinel>>
           \/ /\ ~Refused(index) /\ ~OwnedByUser(e) /\ ~HostsGuests(e)
              /\ index' = Following(index)
              /\ UNCHANGED <<account, stage, sentinel>>
        /\ UNCHANGED <<user, build, options, jobs, managed, session, attached>>

NoJobLeft ==
    /\ stage = "scan"
    /\ index > Len(jobs)
    /\ AccountReturns("denied")
    /\ UNCHANGED <<user, build, options, jobs, index, sentinel, managed, session, attached>>

-------------------------------------------------------------------------------
(* pam_sm_open_session *)

SessionReturns(r) == session' = r /\ stage' = "done"

\* Mutant: the session is set up for everybody who got this far.
Authorized_Always == TRUE

Authorized == sentinel

\* Bad options, systemd-user, no sentinel, or a uid that is gone.
SessionEarly ==
    /\ stage = "session"
    /\ \/ SessionReturns("error")
       \/ account = "ignore" /\ SessionReturns("ignore")
       \/ ~Authorized /\ SessionReturns("ignore")
    /\ UNCHANGED <<user, build, options, jobs, index, account, sentinel, managed, attached>>

\* check_pam_manage_user_slice() finds the feature off, on, or no broker.
FetchConfig ==
    /\ stage = "session"
    /\ Authorized
    /\ account # "ignore"
    /\ \/ SessionReturns("error") /\ UNCHANGED managed
       \/ SessionReturns("success") /\ managed' = FALSE
       \/ stage' = "config" /\ managed' = TRUE /\ UNCHANGED session
    /\ UNCHANGED <<user, build, options, jobs, index, account, sentinel, attached>>

\* No uid matches an owner that cannot be read.
SkipsOwner(known) == known /\ user = Owner

\* The instance owner is let through, a build without libsystemd refuses.
DecideAttach ==
    /\ stage = "config"
    /\ \E known \in BOOLEAN :
          \/ SkipsOwner(known) /\ SessionReturns("success")
          \/ ~SkipsOwner(known) /\ build = "without" /\ SessionReturns("error")
          \/ ~SkipsOwner(known) /\ build # "without" /\ stage' = "attach" /\ UNCHANGED session
    /\ UNCHANGED <<user, build, options, jobs, index, account, sentinel, managed, attached>>

\* Lock, marker, scope and environment; the environment comes last.
Attach ==
    /\ stage = "attach"
    /\ \/ attached' = TRUE /\ SessionReturns("success")
       \/ attached' \in BOOLEAN /\ SessionReturns("error")
    /\ UNCHANGED <<user, build, options, jobs, index, account, sentinel, managed>>

-------------------------------------------------------------------------------

Next ==
    \/ AdmittedByOther \/ AccountEarly \/ ListJobs \/ ScanJob \/ NoJobLeft
    \/ SessionEarly \/ FetchConfig \/ DecideAttach \/ Attach

Spec == Init /\ [][Next]_vars

\* The login's process runs on; the broker of the node answers or fails.
FairSpec == Spec /\ WF_vars(Next)

-------------------------------------------------------------------------------
(* Properties *)

Jobs == {jobs[i] : i \in 1..Len(jobs)}

HasOwnJob == \E e \in Jobs : e.uid = user

\* What pam_flux(8) asks for under allow-guest-user.
HasHost ==
    /\ options.allow_guest_user
    /\ \E e \in Jobs : e.uid = Owner /\ e.first /\ e.guests = "yes"

\* pam_flux admits only users with a job of their own on the node, or guests of
\* the instance owner where all four conditions of the manual hold.
GrantJustified ==
    /\ account = "owner" => HasOwnJob
    /\ account = "guest" => HasHost

\* A user with a job on the node is denied for one reason only: before that job
\* the answer has an entry that cannot be read.  No entry behind it, and no job
\* of another user's, keeps the user out.
OwnerAdmitted ==
    account = "denied" =>
        \A i \in 1..Len(jobs) :
            jobs[i].readable /\ jobs[i].uid = user
                => \E k \in 1..(i - 1) : ~jobs[k].readable

\* Whoever pam_flux admitted as a job owner gets a session in the slice or none
\* at all.  A session outside of it takes a configuration that was read and has
\* the feature off, or the instance owner: what the account callback knew is not
\* lost on the way to the session callback.
ContainedOrRefused ==
    account = "owner" /\ session # "none" =>
        \/ attached
        \/ session = "error"
        \/ session = "success" /\ (~managed \/ user = Owner)

\* pam_flux touches only the sessions of the job owners it admitted itself: a
\* guest, or a user another module admitted, never enters a slice.
OnlyOwnersAttached == attached => account = "owner" /\ HasOwnJob

\* The only thing that may keep a login waiting is an instance that does not
\* answer: with allow-guest-user, for a user who is not the instance owner, at a
\* job of the owner's whose first node this is, with nothing before it in the
\* list that decides.  No other list, and no other hung job, does: a user whose
\* own job comes first is not kept waiting by one behind it.
WaitsForHost ==
    /\ stage = "scan"
    /\ options.allow_guest_user
    /\ user # Owner
    /\ \E k \in 1..Len(jobs) :
          /\ jobs[k].readable
          /\ jobs[k].uid = Owner /\ jobs[k].first /\ jobs[k].guests = "hangs"
          /\ \A i \in 1..(k - 1) :
                /\ jobs[i].readable
                /\ jobs[i].uid = Owner
                /\ jobs[i].first => jobs[i].guests = "no"

LoginAnswered == <>(stage = "done" \/ WaitsForHost)

-------------------------------------------------------------------------------
(* The inductive invariant behind them                                      *)

\* The jobs that were looked at said nothing.
Scanned ==
    \A i \in 1..(index - 1) :
        i <= Len(jobs) => /\ jobs[i].readable
                          /\ ~OwnedByUser(jobs[i])
                          /\ ~HostsGuests(jobs[i])

\* What each callback leaves behind for the next.
Progress ==
    /\ stage \in {"account", "scan"} <=> account = "none"
    /\ stage \in {"account", "scan", "session"} => session = "none" /\ ~managed
    /\ stage \in {"config", "attach"} => session = "none" /\ managed /\ sentinel
    /\ stage # "done" => ~attached
    /\ stage = "account" => jobs = <<>> /\ index = 1
    /\ index <= Len(jobs) + 1
    /\ sentinel <=> account = "owner"

\* The inductive invariant: the jobs check_jobs_array() has passed gave it no
\* answer, and the callbacks' answers stand once given.
CallbackInv ==
    /\ TypeOK /\ Scanned /\ Progress
    /\ GrantJustified /\ OwnerAdmitted /\ ContainedOrRefused /\ OnlyOwnersAttached

-------------------------------------------------------------------------------
(* What the documentation says of the program and a run refutes *)

\* "A guest has no job of their own on the node, so there is no slice holding
\* the resources their session should be confined to" (pam_flux(8)), and the
\* comment on check_jobs_array(): "If any job owner is uid, permit as
\* FLUX_AUTH_JOB_OWNER".
GuestHasNoJob == account = "guest" => ~HasOwnJob

===============================================================================
