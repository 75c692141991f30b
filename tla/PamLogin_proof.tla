----------------------------- MODULE PamLogin_proof -----------------------------
(***************************************************************************)
(* What pam_flux.so decides about one login, for every set of users, every *)
(* instance owner and job lists of any length.                             *)
(***************************************************************************)
EXTENDS PamLogin, TLAPS

\* The initial states satisfy the inductive invariant.
LEMMA InitCallbackInv == Init => CallbackInv
<1> SUFFICES ASSUME Init PROVE CallbackInv
  OBVIOUS
<1>1. TypeOK
  <2>1. sentinel \in BOOLEAN /\ managed \in BOOLEAN /\ attached \in BOOLEAN
    BY Zenon DEF Init
  <2>2. /\ user \in Uids /\ build \in {"with libsystemd", "without"}
        /\ options \in [valid : BOOLEAN, allow_guest_user : BOOLEAN]
        /\ stage \in Stages /\ account = "none" /\ session = "none"
    BY DEF Init, Stages
  <2>3. jobs = << >> /\ index = 1
    BY DEF Init
  <2>4. jobs \in Seq(JobEntries) /\ Len(jobs) <= MaxJobs /\ index \in 1..(MaxJobs + 1)
    BY <2>3, PamAssumption
  <2> QED
    BY <2>1, <2>2, <2>4 DEF TypeOK
<1>2. index = 1 /\ stage = "account" /\ account = "none" /\ session = "none" /\ jobs = << >>
  BY DEF Init
<1>3. ~sentinel /\ ~managed /\ ~attached
  BY Zenon DEF Init
<1>4. Scanned
  BY <1>2 DEF Scanned
<1>5. Progress
  BY <1>2, <1>3 DEF Progress
<1>6. GrantJustified /\ OwnerAdmitted /\ ContainedOrRefused /\ OnlyOwnersAttached
  BY <1>2, <1>3 DEF GrantJustified, OwnerAdmitted, ContainedOrRefused, OnlyOwnersAttached
<1> QED
  BY <1>1, <1>4, <1>5, <1>6 DEF CallbackInv

\* A list the broker may return is a sequence of job entries.
LEMMA ListIsSeq ==
    ASSUME NEW n \in 0..MaxJobs, NEW f, NEW uids,
           f \in [1..n -> {e \in JobEntries : e.uid \in uids}]
    PROVE  f \in Seq(JobEntries) /\ Len(f) = n
BY PamAssumption

\* The length of a sequence is a number.
LEMMA LengthIsNat == ASSUME NEW s \in Seq(JobEntries) PROVE Len(s) \in Nat
OBVIOUS

\* What the broker may answer.
LEMMA ListOutcomes ==
    ASSUME ListJobs
    PROVE  /\ stage = "account"
           /\ UNCHANGED <<user, build, options, index, sentinel, managed, session, attached>>
           /\ \/ /\ jobs' \in Seq(JobEntries) /\ Len(jobs') <= MaxJobs
                 /\ stage' = "scan" /\ UNCHANGED account
              \/ UNCHANGED jobs /\ account' = "denied" /\ stage' = "done"
<1>1. CASE /\ \E n \in 0..MaxJobs, uids \in {{user}, {user, AllowIfUser}} :
                 jobs' \in [1..n -> {e \in JobEntries : e.uid \in uids}]
           /\ stage' = "scan" /\ UNCHANGED account
  <2>1. PICK n \in 0..MaxJobs, uids \in {{user}, {user, AllowIfUser}} :
            jobs' \in [1..n -> {e \in JobEntries : e.uid \in uids}]
    BY <1>1
  <2>2. jobs' \in Seq(JobEntries) /\ Len(jobs') = n
    BY <2>1, ListIsSeq
  <2>3. Len(jobs') <= MaxJobs
    BY <2>2, PamAssumption
  <2> QED
    BY <1>1, <2>2, <2>3 DEF ListJobs
<1>2. CASE AccountReturns("denied") /\ UNCHANGED jobs
  BY <1>2, Zenon DEF ListJobs, AccountReturns
<1> QED
  BY <1>1, <1>2 DEF ListJobs

\* The outcomes of looking at one job, told apart.
LEMMA ScanOutcomes ==
    ASSUME ScanJob
    PROVE  /\ stage = "scan" /\ index <= Len(jobs)
           /\ UNCHANGED <<user, build, options, jobs, managed, session, attached>>
           /\ \/ /\ ~jobs[index].readable
                 /\ account' = "denied" /\ stage' = "done" /\ UNCHANGED <<index, sentinel>>
              \/ /\ OwnedByUser(jobs[index])
                 /\ account' = "owner" /\ stage' = "session" /\ UNCHANGED index
                 /\ sentinel' /\ sentinel' \in BOOLEAN
              \/ account' = "error" /\ stage' = "done" /\ UNCHANGED <<index, sentinel>>
              \/ /\ ~OwnedByUser(jobs[index]) /\ HostsGuests(jobs[index])
                 /\ account' = "guest" /\ stage' = "session" /\ UNCHANGED <<index, sentinel>>
              \/ /\ jobs[index].readable
                 /\ ~OwnedByUser(jobs[index]) /\ ~HostsGuests(jobs[index])
                 /\ index' = index + 1 /\ UNCHANGED <<account, stage, sentinel>>
BY Zenon DEF ScanJob, AccountReturns, Following, Refused, Unstored

\* The position in the list is a number, and so is the length of the list.
LEMMA Positions == TypeOK => index \in Nat /\ Len(jobs) \in Nat
<1> SUFFICES ASSUME TypeOK PROVE index \in Nat /\ Len(jobs) \in Nat
  OBVIOUS
<1>1. jobs \in Seq(JobEntries) /\ index \in 1..(MaxJobs + 1)
  BY Zenon DEF TypeOK
<1> QED
  BY <1>1, LengthIsNat, PamAssumption

\* The position never leaves the list by more than one.
LEMMA PositionStep ==
    ASSUME CallbackInv, ScanJob
    PROVE  /\ index' \in Nat /\ index' <= Len(jobs) + 1
           /\ index' \in 1..(MaxJobs + 1)
<1>1. /\ jobs \in Seq(JobEntries) /\ Len(jobs) <= MaxJobs
      /\ index \in 1..(MaxJobs + 1)
      /\ index <= Len(jobs) + 1
  BY Zenon DEF CallbackInv, TypeOK, Progress
<1>2. index <= Len(jobs) /\ (index' = index \/ index' = index + 1)
  BY ScanOutcomes, Zenon
<1> QED
  BY <1>1, <1>2, LengthIsNat, PamAssumption

\* Every step keeps the types.
LEMMA TypeStep == CallbackInv /\ [Next]_vars => TypeOK'
<1> SUFFICES ASSUME CallbackInv, [Next]_vars PROVE TypeOK'
  OBVIOUS
<1> USE PamAssumption DEF CallbackInv, TypeOK, Stages, Progress
<1>1. CASE AdmittedByOther
  BY <1>1 DEF AdmittedByOther, AccountReturns
<1>2. CASE AccountEarly
  BY <1>2 DEF AccountEarly, AccountReturns
<1>3. CASE ListJobs
  BY <1>3, ListOutcomes
<1>4. CASE ScanJob
  <2>1. index' \in 1..(MaxJobs + 1)
    BY <1>4, PositionStep
  <2>2. /\ account' \in {"none", "denied", "owner", "error", "guest"}
        /\ stage' \in Stages
        /\ sentinel' \in BOOLEAN
    BY <1>4, ScanOutcomes, Zenon
  <2>3. UNCHANGED <<user, build, options, jobs, managed, session, attached>>
    BY <1>4, ScanOutcomes
  <2> QED
    BY <2>1, <2>2, <2>3
<1>5. CASE NoJobLeft
  BY <1>5 DEF NoJobLeft, AccountReturns
<1>6. CASE SessionEarly
  BY <1>6 DEF SessionEarly, SessionReturns, Authorized
<1>7. CASE FetchConfig
  BY <1>7 DEF FetchConfig, SessionReturns, Authorized
<1>8. CASE DecideAttach
  BY <1>8 DEF DecideAttach, SessionReturns, SkipsOwner
<1>9. CASE Attach
  BY <1>9 DEF Attach, SessionReturns
<1>10. CASE UNCHANGED vars
  BY <1>10 DEF vars
<1> QED
  BY <1>1, <1>2, <1>3, <1>4, <1>5, <1>6, <1>7, <1>8, <1>9, <1>10 DEF Next

\* Every step keeps what the callbacks leave for each other.
LEMMA ProgressStep == CallbackInv /\ [Next]_vars => Progress'
<1> SUFFICES ASSUME CallbackInv, [Next]_vars PROVE Progress'
  OBVIOUS
<1> USE PamAssumption DEF CallbackInv, TypeOK, Stages, Progress
<1>1. CASE AdmittedByOther
  BY <1>1 DEF AdmittedByOther, AccountReturns
<1>2. CASE AccountEarly
  BY <1>2 DEF AccountEarly, AccountReturns
<1>3. CASE ListJobs
  <2>1. index' <= Len(jobs') + 1
    <3>1. index = 1 /\ index' = index
      BY <1>3, ListOutcomes, Zenon
    <3>2. jobs' \in Seq(JobEntries)
      BY <1>3, ListOutcomes, Zenon
    <3> HIDE DEF CallbackInv, TypeOK, Progress
    <3> QED
      BY <3>1, <3>2, LengthIsNat
  <2>2. /\ stage = "account" /\ account = "none" /\ ~sentinel
        /\ session = "none" /\ ~managed /\ ~attached
    BY <1>3, ListOutcomes, Zenon
  <2>3. UNCHANGED <<managed, session, attached, sentinel>>
    BY <1>3, ListOutcomes, Zenon
  <2>4. \/ stage' = "scan" /\ account' = "none"
        \/ stage' = "done" /\ account' = "denied"
    BY <1>3, <2>2, ListOutcomes, Zenon
  <2> QED
    BY <2>1, <2>2, <2>3, <2>4, Zenon
<1>4. CASE ScanJob
  <2>1. /\ stage = "scan" /\ account = "none" /\ ~sentinel
        /\ session = "none" /\ ~managed /\ ~attached
    BY <1>4, ScanOutcomes, Zenon
  <2>2. UNCHANGED <<jobs, managed, session, attached>>
    BY <1>4, ScanOutcomes, Zenon
  <2>3. index' <= Len(jobs') + 1
    BY <1>4, <2>2, PositionStep, Zenon
  <2>4. \/ stage' = "done" /\ account' = "denied" /\ ~sentinel'
        \/ stage' = "done" /\ account' = "error" /\ ~sentinel'
        \/ stage' = "session" /\ account' = "owner" /\ sentinel'
        \/ stage' = "session" /\ account' = "guest" /\ ~sentinel'
        \/ stage' = "scan" /\ account' = "none" /\ ~sentinel'
    BY <1>4, <2>1, ScanOutcomes, Zenon
  <2> QED
    BY <2>1, <2>2, <2>3, <2>4, Zenon
<1>5. CASE NoJobLeft
  BY <1>5 DEF NoJobLeft, AccountReturns
<1>6. CASE SessionEarly
  BY <1>6 DEF SessionEarly, SessionReturns, Authorized
<1>7. CASE FetchConfig
  BY <1>7 DEF FetchConfig, SessionReturns, Authorized
<1>8. CASE DecideAttach
  BY <1>8 DEF DecideAttach, SessionReturns, SkipsOwner
<1>9. CASE Attach
  BY <1>9 DEF Attach, SessionReturns
<1>10. CASE UNCHANGED vars
  BY <1>10 DEF vars
<1> QED
  BY <1>1, <1>2, <1>3, <1>4, <1>5, <1>6, <1>7, <1>8, <1>9, <1>10 DEF Next

\* Only the answer of the broker and the scan touch what the scan is about.
LEMMA Frame ==
    ASSUME [Next]_vars, ~ListJobs, ~ScanJob
    PROVE  UNCHANGED <<user, options, jobs, index>>
BY Zenon DEF Next, vars, AdmittedByOther, AccountEarly, NoJobLeft, SessionEarly, FetchConfig,
    DecideAttach, Attach

\* Every step keeps Scanned: the scan moves on past jobs that say nothing only.
LEMMA ScannedStep == CallbackInv /\ [Next]_vars => Scanned'
<1> SUFFICES ASSUME CallbackInv, [Next]_vars,
                    NEW i \in 1..(index' - 1), i <= Len(jobs')
             PROVE  /\ (jobs[i].readable)'
                    /\ ~OwnedByUser(jobs[i])'
                    /\ ~HostsGuests(jobs[i])'
  BY Zenon DEF Scanned
<1>1. CASE ListJobs
  <2>1. index' = 1
    BY <1>1, ListOutcomes, Zenon DEF CallbackInv, Progress
  <2> QED
    BY <2>1
<1>2. CASE ScanJob
  <2>1. UNCHANGED <<user, options, jobs>>
    BY <1>2, ScanOutcomes, Zenon
  <2>2. CASE index' = index
    <3>1. /\ jobs[i].readable /\ ~OwnedByUser(jobs[i]) /\ ~HostsGuests(jobs[i])
      BY <2>1, <2>2, Zenon DEF CallbackInv, Scanned
    <3> QED
      BY <2>1, <3>1, Zenon DEF OwnedByUser, HostsGuests, AsksGuest, AllowIfUser
  <2>3. CASE /\ index' = index + 1
             /\ jobs[index].readable
             /\ ~OwnedByUser(jobs[index]) /\ ~HostsGuests(jobs[index])
    <3>1. index \in Nat
      BY Positions, Zenon DEF CallbackInv
    <3>2. i \in 1..(index - 1) \/ i = index
      BY <2>3, <3>1
    <3>3. /\ jobs[i].readable /\ ~OwnedByUser(jobs[i]) /\ ~HostsGuests(jobs[i])
      BY <2>1, <2>3, <3>2, Zenon DEF CallbackInv, Scanned
    <3> QED
      BY <2>1, <3>3, Zenon DEF OwnedByUser, HostsGuests, AsksGuest, AllowIfUser
  <2> QED
    BY <1>2, <2>2, <2>3, ScanOutcomes, Zenon
<1>3. CASE ~ListJobs /\ ~ScanJob
  <2>1. UNCHANGED <<user, options, jobs, index>>
    BY <1>3, Frame, Zenon
  <2>2. /\ jobs[i].readable /\ ~OwnedByUser(jobs[i]) /\ ~HostsGuests(jobs[i])
    BY <2>1, Zenon DEF CallbackInv, Scanned
  <2> QED
    BY <2>1, <2>2, Zenon DEF OwnedByUser, HostsGuests, AsksGuest, AllowIfUser
<1> QED
  BY <1>1, <1>2, <1>3

\* Once the account callback has answered, its answer stands.
LEMMA AnswerStands ==
    ASSUME CallbackInv, [Next]_vars, account # "none"
    PROVE  /\ UNCHANGED <<user, build, options, jobs, account, sentinel>>
           /\ stage' \notin {"account", "scan"}
<1>1. stage \notin {"account", "scan"}
  BY Zenon DEF CallbackInv, Progress
<1>2. UNCHANGED <<user, build, options, jobs, account, sentinel>>
  BY <1>1, Zenon DEF Next, vars, AdmittedByOther, AccountEarly, ListJobs, ScanJob, NoJobLeft,
      SessionEarly, FetchConfig, DecideAttach, Attach
<1>3. Progress'
  BY ProgressStep, Zenon
<1> QED
  BY <1>2, <1>3, Zenon DEF Progress

\* Every answer of the account callback is justified by the list it was given.
LEMMA AnswerStep ==
    CallbackInv /\ [Next]_vars => GrantJustified' /\ OwnerAdmitted'
<1> SUFFICES ASSUME CallbackInv, [Next]_vars PROVE GrantJustified' /\ OwnerAdmitted'
  OBVIOUS
<1>1. CASE account # "none"
  <2>1. UNCHANGED <<user, options, jobs, account>>
    BY <1>1, AnswerStands, Zenon
  <2>2. GrantJustified /\ OwnerAdmitted
    BY Zenon DEF CallbackInv
  <2> QED
    BY <2>1, <2>2, Zenon DEF GrantJustified, OwnerAdmitted, HasOwnJob, HasHost, Jobs
<1>2. CASE account = "none" /\ account' \notin {"owner", "guest", "denied"}
  BY <1>2, Zenon DEF GrantJustified, OwnerAdmitted
<1>3. CASE account = "none" /\ account' \in {"owner", "guest", "denied"}
  <2>1. CASE ListJobs
    <3>1. account' = "denied" /\ jobs' = << >>
      BY <1>3, <2>1, ListOutcomes, Zenon DEF CallbackInv, Progress
    <3> QED
      BY <3>1 DEF GrantJustified, OwnerAdmitted, HasOwnJob, Jobs
  <2>2. CASE NoJobLeft
    <3>1. account' = "denied" /\ index > Len(jobs) /\ UNCHANGED <<user, jobs>>
      BY <2>2, Zenon DEF NoJobLeft, AccountReturns
    <3>2. \A i \in 1..Len(jobs) : i \in 1..(index - 1) /\ i <= Len(jobs)
      <4>1. index \in Nat /\ Len(jobs) \in Nat
        BY Positions, Zenon DEF CallbackInv
      <4> QED
        BY <3>1, <4>1
    <3>3. ~HasOwnJob
      BY <3>2, Zenon DEF CallbackInv, Scanned, HasOwnJob, Jobs, OwnedByUser
    <3> QED
      BY <3>1, <3>3, Zenon DEF GrantJustified, OwnerAdmitted, HasOwnJob, Jobs
  <2>3. CASE ScanJob
    <3>1. index \in 1..Len(jobs)
      <4>1. index \in Nat /\ index >= 1 /\ Len(jobs) \in Nat
        <5>1. index \in 1..(MaxJobs + 1)
          BY Zenon DEF CallbackInv, TypeOK
        <5>2. index \in Nat /\ Len(jobs) \in Nat
          BY Positions, Zenon DEF CallbackInv
        <5> QED
          BY <5>1, <5>2, PamAssumption
      <4>2. index <= Len(jobs)
        BY <2>3, ScanOutcomes, Zenon
      <4> QED
        BY <4>1, <4>2
    <3>2. jobs[index] \in Jobs
      BY <3>1, Zenon DEF Jobs
    <3>3. \/ account' = "denied" /\ ~jobs[index].readable
          \/ account' = "owner" /\ OwnedByUser(jobs[index])
          \/ /\ account' = "guest"
             /\ ~OwnedByUser(jobs[index]) /\ HostsGuests(jobs[index])
      BY <1>3, <2>3, ScanOutcomes, Zenon
    <3>4. UNCHANGED <<user, options, jobs>>
      BY <2>3, ScanOutcomes, Zenon
    <3>5. GrantJustified'
      BY <3>2, <3>3, <3>4, Zenon
      DEF GrantJustified, HasOwnJob, HasHost, Jobs, OwnedByUser, HostsGuests, AsksGuest, AllowIfUser
    <3>6. OwnerAdmitted'
      <4>1. CASE account' = "denied" /\ ~jobs[index].readable
        <5>1. ASSUME NEW i \in 1..Len(jobs), jobs[i].readable, jobs[i].uid = user
              PROVE  index \in 1..(i - 1)
          <6>1. Len(jobs) \in Nat
            BY Positions, Zenon DEF CallbackInv
          <6>2. i <= Len(jobs)
            BY <6>1
          <6>3. i \notin 1..(index - 1)
            BY <5>1, <6>2, Zenon DEF CallbackInv, Scanned, OwnedByUser
          <6>4. i # index
            BY <4>1, <5>1
          <6> QED
            BY <3>1, <6>1, <6>3, <6>4
        <5> QED
          BY <3>4, <4>1, <5>1, Zenon DEF OwnerAdmitted
      <4>2. CASE account' # "denied"
        BY <4>2, Zenon DEF OwnerAdmitted
      <4> QED
        BY <3>3, <4>1, <4>2
    <3> QED
      BY <3>5, <3>6
  <2>4. CASE ~ListJobs /\ ~NoJobLeft /\ ~ScanJob
    <3>1. account' \in {"none", "other", "error", "ignore"}
      BY <1>3, <2>4, Zenon DEF Next, vars, AdmittedByOther, AccountEarly, SessionEarly,
          FetchConfig, DecideAttach, Attach, AccountReturns
    <3> QED
      BY <1>3, <3>1
  <2> QED
    BY <2>1, <2>2, <2>3, <2>4
<1> QED
  BY <1>1, <1>2, <1>3

\* What becomes of the session follows from the sentinel and the configuration.
LEMMA SessionStep ==
    CallbackInv /\ [Next]_vars => ContainedOrRefused' /\ OnlyOwnersAttached'
<1> SUFFICES ASSUME CallbackInv, [Next]_vars PROVE ContainedOrRefused' /\ OnlyOwnersAttached'
  OBVIOUS
<1>1. CASE account = "none"
  <2>1. /\ stage = "account" \/ stage = "scan"
        /\ session = "none" /\ ~attached
    BY <1>1, Zenon DEF CallbackInv, Progress
  <2>2. ~SessionEarly /\ ~FetchConfig /\ ~DecideAttach /\ ~Attach
    BY <2>1 DEF SessionEarly, FetchConfig, DecideAttach, Attach
  <2>3. UNCHANGED <<session, attached>>
    BY <2>2, Zenon DEF Next, vars, AdmittedByOther, AccountEarly, ListJobs, ScanJob, NoJobLeft
  <2> QED
    BY <2>1, <2>3, Zenon DEF ContainedOrRefused, OnlyOwnersAttached
<1>2. CASE account # "none"
  <2>1. UNCHANGED <<user, options, jobs, account, sentinel>>
    BY <1>2, AnswerStands, Zenon
  <2>2. ContainedOrRefused'
    <3>1. CASE UNCHANGED <<session, managed, attached>>
      BY <2>1, <3>1, Zenon DEF CallbackInv, ContainedOrRefused
    <3>2. CASE SessionEarly \/ FetchConfig
      <4>1. stage = "session" /\ session = "none" /\ ~managed /\ (account = "owner" => sentinel)
        BY <3>2, Zenon DEF CallbackInv, Progress, SessionEarly, FetchConfig
      <4>2. \/ session' = "error"
            \/ account = "ignore"
            \/ ~sentinel
            \/ session' = "success" /\ ~managed'
            \/ session' = session
        BY <3>2, Zenon DEF SessionEarly, FetchConfig, SessionReturns, Authorized
      <4> QED
        BY <2>1, <4>1, <4>2, Zenon DEF ContainedOrRefused
    <3>3. CASE DecideAttach \/ Attach
      BY <2>1, <3>3, Zenon DEF CallbackInv, Progress, ContainedOrRefused, DecideAttach, Attach,
          SessionReturns, SkipsOwner
    <3> QED
      BY <3>1, <3>2, <3>3, Zenon DEF Next, vars, AdmittedByOther, AccountEarly, ListJobs,
          ScanJob, NoJobLeft
  <2>3. OnlyOwnersAttached'
    <3>1. CASE UNCHANGED attached
      BY <2>1, <3>1, Zenon DEF CallbackInv, OnlyOwnersAttached, HasOwnJob, Jobs
    <3>2. CASE Attach
      <4>1. account = "owner" /\ HasOwnJob
        BY <3>2, Zenon DEF CallbackInv, Progress, Attach, GrantJustified
      <4> QED
        BY <2>1, <4>1, Zenon DEF OnlyOwnersAttached, HasOwnJob, Jobs
    <3> QED
      BY <3>1, <3>2, Zenon DEF Next, vars, AdmittedByOther, AccountEarly, ListJobs, ScanJob,
          NoJobLeft, SessionEarly, FetchConfig, DecideAttach
  <2> QED
    BY <2>2, <2>3
<1> QED
  BY <1>1, <1>2

\* The inductive invariant holds.
THEOREM Invariance == Spec => []CallbackInv
<1>1. CallbackInv /\ [Next]_vars => CallbackInv'
  BY TypeStep, ProgressStep, ScannedStep, AnswerStep, SessionStep, Zenon DEF CallbackInv
<1> QED
  BY <1>1, InitCallbackInv, PTL DEF Spec

\* Every variable of the login keeps its type.
THEOREM TypeCorrect == Spec => []TypeOK
<1>1. CallbackInv => TypeOK
  BY DEF CallbackInv
<1> QED
  BY <1>1, Invariance, PTL

\* Only users with a job, or guests whose host is there, are admitted.
THEOREM GrantsAreJustified == Spec => []GrantJustified
<1>1. CallbackInv => GrantJustified
  BY DEF CallbackInv
<1> QED
  BY <1>1, Invariance, PTL

\* A user with a job is denied only if an entry before it cannot be read.
THEOREM OwnersAreAdmitted == Spec => []OwnerAdmitted
<1>1. CallbackInv => OwnerAdmitted
  BY DEF CallbackInv
<1> QED
  BY <1>1, Invariance, PTL

\* A job owner's session is in the slice or refused, while the feature is on.
THEOREM OwnersAreContained == Spec => []ContainedOrRefused
<1>1. CallbackInv => ContainedOrRefused
  BY DEF CallbackInv
<1> QED
  BY <1>1, Invariance, PTL

\* Nobody else's session is put in a slice.
THEOREM OthersAreLeftAlone == Spec => []OnlyOwnersAttached
<1>1. CallbackInv => OnlyOwnersAttached
  BY DEF CallbackInv
<1> QED
  BY <1>1, Invariance, PTL

===============================================================================
