------------------------- MODULE SliceProperties_proof -------------------------
(***************************************************************************)
(* The slice is that of one whole update, for any number of jobs, CPUs and *)
(* devices and any length of the mapper's lists: what modify_slice() makes *)
(* of an answer (Updated), then the inductive invariant UpdateInv step by  *)
(* step.                                                                   *)
(***************************************************************************)
EXTENDS SliceProperties, TLAPS

\* A lookup that is not taken for a failure brought the R of every job.
LEMMA LookupIsWhole ==
    ASSUME NEW js, NEW lookup \in Lookups(js), ~Failed(lookup)
    PROVE  lookup.results = js
<1>1. lookup.errors = {} /\ lookup.results # {}
  BY DEF Failed
<1>2. lookup # [results |-> {}, errors |-> {}]
  BY <1>1
<1>3. PICK e \in SUBSET js : lookup = [results |-> js \ e, errors |-> e]
  BY <1>2 DEF Lookups
<1>4. e = {}
  BY <1>1, <1>3
<1> QED
  BY <1>3, <1>4

\* Every step keeps the union whole: only a lookup sets it, and no step before
\* the mapper is asked changes the jobs it is about.
LEMMA UnionStep == UnionIsComplete /\ [Next]_vars => UnionIsComplete'
<1> SUFFICES ASSUME UnionIsComplete, [Next]_vars
             PROVE  (stage \in {"lookup", "modify"} => union = UnionOf(jobids))'
  BY DEF UnionIsComplete
<1>1. CASE Reconfigure
  BY <1>1 DEF Reconfigure
<1>2. CASE ActiveLocalJobs
  BY <1>2 DEF ActiveLocalJobs
<1>3. CASE ResourceUnion
  <2>1. PICK lookup \in Lookups(jobids) :
            IF Failed(lookup)
            THEN Raise /\ UNCHANGED union
            ELSE /\ union' = UnionOf(lookup.results)
                 /\ stage' = "lookup"
                 /\ UNCHANGED result
    BY <1>3 DEF ResourceUnion
  <2>2. UNCHANGED jobids
    BY <1>3 DEF ResourceUnion
  <2>3. CASE Failed(lookup)
    BY <2>1, <2>3 DEF Raise
  <2>4. CASE ~Failed(lookup)
    <3>1. lookup.results = jobids
      BY <2>4, LookupIsWhole
    <3>2. union' = UnionOf(jobids)
      BY <2>1, <2>4, <3>1
    <3> QED
      BY <2>2, <3>2 DEF UnionOf
  <2> QED
    BY <2>3, <2>4
<1>4. CASE LookupProperties
  BY <1>4 DEF LookupProperties, UnionIsComplete, UnionOf, Raise
<1>5. CASE ModifySlice
  <2>1. stage' = "idle"
    BY <1>5 DEF ModifySlice, Raise
  <2> QED
    BY <2>1
<1>6. CASE RevertSlice
  BY <1>6 DEF RevertSlice
<1>7. CASE UNCHANGED vars
  BY <1>7 DEF vars, UnionIsComplete, UnionOf
<1> QED
  BY <1>1, <1>2, <1>3, <1>4, <1>5, <1>6, <1>7 DEF Next

\* The mapper is asked about all that the counted jobs hold, for every set of jobs
\* and whichever lookups fail.
THEOREM UnionAlwaysComplete == Spec => []UnionIsComplete
<1>1. Init => UnionIsComplete
  BY DEF Init, UnionIsComplete
<1> QED
  BY <1>1, UnionStep, PTL DEF Spec

-------------------------------------------------------------------------------
(* What modify_slice() sets *)

\* Each key comes once, in whatever order.
LEMMA KeysDistinct ==
    ASSUME NEW o \in KeyOrders
    PROVE  /\ o[1] \in Keys /\ o[2] \in Keys /\ o[3] \in Keys
           /\ o[1] # o[2] /\ o[1] # o[3] /\ o[2] # o[3]
           /\ "DeviceAllow" \in {o[1], o[2], o[3]}
<1>1. o \in [1..3 -> Keys] /\ Range(o) = Keys
  BY DEF KeyOrders
<1>2. 1..3 = {1, 2, 3}
  OBVIOUS
<1>3. Keys = {o[1], o[2], o[3]}
  BY <1>1, <1>2 DEF Range
<1>4. o[1] \in Keys /\ o[2] \in Keys /\ o[3] \in Keys
  BY <1>1, <1>2
<1> QED
  BY <1>3, <1>4 DEF Keys

\* The entries of a list, split and stripped, are devices.
LEMMA EntriesAreDevices ==
    ASSUME NEW p \in Values, p.DeviceAllow # NotGiven
    PROVE  Entries(p.DeviceAllow) \subseteq Devices
<1>1. p.DeviceAllow \in EntryLists
  BY DEF Values
<1>2. PICK n \in 1..MaxEntries : p.DeviceAllow \in [1..n -> Devices \cup {Blank}]
  BY <1>1 DEF EntryLists
<1> QED
  BY <1>2 DEF Entries, Range

\* The resets change these two properties and no other.
LEMMA ResetBoth ==
    ASSUME NEW s \in Slices
    PROVE  /\ Reset(s) \in Slices
           /\ Reset(s).AllowedCPUs = s.AllowedCPUs
           /\ Reset(s).DeviceAllow = {}
           /\ Reset(s).DevicePolicy = "auto"
<1>1. [s EXCEPT !.DeviceAllow = {}] \in Slices
  BY DEF Slices
<1> QED
  BY <1>1 DEF Reset, Slices

\* One key of the answer changes the property of that name only.
LEMMA AssignOne ==
    ASSUME NEW t \in Slices, NEW p \in Values, NEW k \in Keys
    PROVE  /\ Assign(t, p, k) \in Slices
           /\ Assign(t, p, k).AllowedCPUs =
                  IF k = "AllowedCPUs" /\ p.AllowedCPUs # NotGiven THEN p.AllowedCPUs
                  ELSE t.AllowedCPUs
           /\ Assign(t, p, k).DeviceAllow =
                  IF k = "DeviceAllow" /\ p.DeviceAllow # NotGiven
                  THEN t.DeviceAllow \cup Entries(p.DeviceAllow) ELSE t.DeviceAllow
           /\ Assign(t, p, k).DevicePolicy =
                  IF k = "DevicePolicy" /\ p.DevicePolicy # NotGiven THEN p.DevicePolicy
                  ELSE t.DevicePolicy
<1>1. CASE p[k] = NotGiven
  BY <1>1 DEF Assign, Keys
<1>2. CASE p[k] # NotGiven /\ k = "AllowedCPUs"
  <2>1. p.AllowedCPUs \in (SUBSET CPUs) \cup {NotGiven}
    BY DEF Values
  <2> QED
    BY <1>2, <2>1 DEF Assign, Slices
<1>3. CASE p[k] # NotGiven /\ k = "DeviceAllow"
  BY <1>3, EntriesAreDevices DEF Assign, Slices
<1>4. CASE p[k] # NotGiven /\ k = "DevicePolicy"
  <2>1. p.DevicePolicy \in {"auto", "closed", NotGiven}
    BY DEF Values
  <2> QED
    BY <1>4, <2>1 DEF Assign, Slices
<1> QED
  BY <1>1, <1>2, <1>3, <1>4 DEF Keys

\* The properties of a slice after an update, whatever it was before and in
\* whatever order the answer's keys come.
LEMMA Updated ==
    ASSUME NEW s \in Slices, NEW p \in Values, NEW o \in KeyOrders
    PROVE  LET t == SetProperty(s, p, o)
           IN  /\ t \in Slices
               /\ t.AllowedCPUs = IF p.AllowedCPUs = NotGiven THEN s.AllowedCPUs
                                  ELSE p.AllowedCPUs
               /\ t.DeviceAllow = IF p.DeviceAllow = NotGiven THEN {}
                                  ELSE Entries(p.DeviceAllow)
               /\ t.DevicePolicy = IF p.DevicePolicy = NotGiven THEN "auto"
                                   ELSE p.DevicePolicy
<1> DEFINE t0 == Reset(s)
           t1 == Assign(t0, p, o[1])
           t2 == Assign(t1, p, o[2])
           t3 == Assign(t2, p, o[3])
<1>1. t0 \in Slices /\ t0.AllowedCPUs = s.AllowedCPUs /\ t0.DeviceAllow = {}
        /\ t0.DevicePolicy = "auto"
  BY ResetBoth
<1>2. t1 \in Slices /\ t2 \in Slices /\ t3 \in Slices
  BY <1>1, AssignOne, KeysDistinct
<1> HIDE DEF t0
<1>3. t3.AllowedCPUs = IF p.AllowedCPUs = NotGiven THEN s.AllowedCPUs ELSE p.AllowedCPUs
  <2>1. \A t \in Slices, k \in Keys :
           Assign(t, p, k).AllowedCPUs =
               IF k = "AllowedCPUs" /\ p.AllowedCPUs # NotGiven THEN p.AllowedCPUs
               ELSE t.AllowedCPUs
    BY AssignOne
  <2> QED
    BY <1>1, <1>2, <2>1, KeysDistinct DEF Keys
<1>4. t3.DeviceAllow = IF p.DeviceAllow = NotGiven THEN {} ELSE Entries(p.DeviceAllow)
  <2>1. \A t \in Slices, k \in Keys :
           Assign(t, p, k).DeviceAllow =
               IF k = "DeviceAllow" /\ p.DeviceAllow # NotGiven
               THEN t.DeviceAllow \cup Entries(p.DeviceAllow) ELSE t.DeviceAllow
    BY AssignOne
  <2>2. CASE p.DeviceAllow = NotGiven
    BY <1>1, <1>2, <2>1, <2>2, KeysDistinct
  <2>3. CASE p.DeviceAllow # NotGiven /\ o[1] = "DeviceAllow"
    BY <1>1, <1>2, <2>1, <2>3, KeysDistinct
  <2>4. CASE p.DeviceAllow # NotGiven /\ o[2] = "DeviceAllow"
    BY <1>1, <1>2, <2>1, <2>4, KeysDistinct
  <2>5. CASE p.DeviceAllow # NotGiven /\ o[3] = "DeviceAllow"
    BY <1>1, <1>2, <2>1, <2>5, KeysDistinct
  <2> QED
    BY <2>2, <2>3, <2>4, <2>5, KeysDistinct
<1>5. t3.DevicePolicy = IF p.DevicePolicy = NotGiven THEN "auto" ELSE p.DevicePolicy
  <2>1. \A t \in Slices, k \in Keys :
           Assign(t, p, k).DevicePolicy =
               IF k = "DevicePolicy" /\ p.DevicePolicy # NotGiven THEN p.DevicePolicy
               ELSE t.DevicePolicy
    BY AssignOne
  <2> QED
    BY <1>1, <1>2, <2>1, KeysDistinct DEF Keys
<1> QED
  BY <1>2, <1>3, <1>4, <1>5 DEF SetProperty, t0

-------------------------------------------------------------------------------
(* The update *)

LEMMA UnsetTyped == Unset \in Slices
<1>1. /\ NotGiven \in (SUBSET CPUs) \cup {NotGiven}
      /\ {} \in SUBSET Devices
      /\ "auto" \in {"auto", "closed"}
  OBVIOUS
<1> QED
  BY <1>1, Zenon DEF Unset, Slices

LEMMA UnionTyped == ASSUME NEW js \in SUBSET Jobs PROVE UnionOf(js) \in ResourceSets
<1>1. \A j \in js : R[j].cpus \subseteq CPUs /\ R[j].devices \subseteq Devices
  BY SliceAssumption DEF ResourceSets
<1> QED
  BY <1>1 DEF UnionOf, ResourceSets

\* systemctl given the mapper's answer for the union of the jobs' R makes the slice
\* grant what the jobs hold.
LEMMA UpdateGrants ==
    ASSUME TypeOK, NEW js \in SUBSET Jobs, NEW o \in KeyOrders,
           answer \in MapperAnswers(UnionOf(js))
    PROVE  Grants(SetProperty(slice, answer, o), js)
<1> DEFINE u == UnionOf(js)
           t == SetProperty(slice, answer, o)
<1>1. u.cpus # NotGiven /\ NotGiven \notin {"auto", "closed"}
  BY UnionTyped, SliceAssumption DEF ResourceSets
<1>2. /\ answer \in Values
      /\ answer.AllowedCPUs = IF mapper = "off" THEN NotGiven ELSE u.cpus
      /\ IF mapper = "devices"
         THEN answer.DevicePolicy = "closed" /\ DevicesOf(answer) = u.devices
         ELSE answer.DevicePolicy # "closed" /\ answer.DeviceAllow = NotGiven
  BY DEF MapperAnswers
<1>3. answer.DevicePolicy \in {"auto", "closed", NotGiven}
  BY <1>2 DEF Values
<1>4. /\ t.AllowedCPUs = IF answer.AllowedCPUs = NotGiven THEN slice.AllowedCPUs
                         ELSE answer.AllowedCPUs
      /\ t.DeviceAllow = IF answer.DeviceAllow = NotGiven THEN {}
                         ELSE Entries(answer.DeviceAllow)
      /\ t.DevicePolicy = IF answer.DevicePolicy = NotGiven THEN "auto"
                          ELSE answer.DevicePolicy
  BY <1>2, Updated DEF TypeOK
<1>5. t.DeviceAllow = DevicesOf(answer)
  BY <1>4 DEF DevicesOf, Entries
<1> HIDE DEF u, t
<1>6. mapper # "off" => t.AllowedCPUs = u.cpus
  BY <1>1, <1>2, <1>4
<1>7. t.DeviceAllow = IF mapper = "devices" THEN u.devices ELSE {}
  BY <1>2, <1>5 DEF DevicesOf
<1>8. t.DevicePolicy = IF mapper = "devices" THEN "closed" ELSE "auto"
  BY <1>1, <1>2, <1>3, <1>4
<1> QED
  BY <1>6, <1>7, <1>8 DEF Grants, u, t

\* What ModifySlice sets, if it sets anything, is a whole update.
LEMMA ModifiedWhole ==
    ASSUME UpdateInv, ModifySlice
    PROVE  /\ slice' \in Slices
           /\ slice' = slice \/ Grants(slice', jobids)
           /\ result' = "returned" => Grants(slice', jobids)
<1>1. stage = "modify"
  BY DEF ModifySlice
<1>2. answer \in MapperAnswers(UnionOf(jobids)) /\ jobids \in SUBSET Jobs /\ slice \in Slices
  BY <1>1 DEF UpdateInv, AnswerIsOwn, UnionIsComplete, TypeOK
<1>3. answer \in Values
  BY <1>2 DEF MapperAnswers
<1>4. ASSUME NEW o \in KeyOrders, slice' = SetProperty(slice, answer, o)
      PROVE  slice' \in Slices /\ Grants(slice', jobids)
  <2>1. Grants(SetProperty(slice, answer, o), jobids)
    BY <1>2, UpdateGrants DEF UpdateInv
  <2>2. SetProperty(slice, answer, o) \in Slices
    BY <1>2, <1>3, Updated
  <2> QED
    BY <1>4, <2>1, <2>2
<1> QED
  BY <1>2, <1>4 DEF ModifySlice, Raise

\* Every step preserves the inductive invariant.
LEMMA InvStep == UpdateInv /\ [Next]_vars => UpdateInv'
<1> SUFFICES ASSUME UpdateInv, [Next]_vars
             PROVE  TypeOK' /\ AnswerIsOwn' /\ AppliedForAllJobs'
  BY UnionStep DEF UpdateInv
<1> USE DEF UpdateInv
<1>1. CASE Reconfigure
  BY <1>1 DEF Reconfigure, TypeOK, AnswerIsOwn, AppliedForAllJobs
<1>2. CASE ActiveLocalJobs
  BY <1>2 DEF ActiveLocalJobs, TypeOK, AnswerIsOwn, AppliedForAllJobs
<1>3. CASE ResourceUnion
  <2>1. PICK lookup \in Lookups(jobids) :
            IF Failed(lookup)
            THEN Raise /\ UNCHANGED union
            ELSE /\ union' = UnionOf(lookup.results)
                 /\ stage' = "lookup"
                 /\ UNCHANGED result
    BY <1>3 DEF ResourceUnion
  <2>2. stage = "union" /\ UNCHANGED <<slice, mapper, jobids, answer>>
    BY <1>3 DEF ResourceUnion
  <2>3. union' \in ResourceSets \cup {NotGiven}
    <3>1. CASE Failed(lookup)
      BY <2>1, <3>1 DEF TypeOK
    <3>2. CASE ~Failed(lookup)
      BY <2>1, <3>2, LookupIsWhole, UnionTyped DEF TypeOK
    <3> QED
      BY <3>1, <3>2
  <2> QED
    BY <2>1, <2>2, <2>3 DEF Raise, TypeOK, AnswerIsOwn, AppliedForAllJobs
<1>4. CASE LookupProperties
  <2>1. stage = "lookup" /\ UNCHANGED <<slice, mapper, jobids, union>>
    BY <1>4 DEF LookupProperties
  <2>2. CASE answer' \in MapperAnswers(union) /\ stage' = "modify" /\ UNCHANGED result
    <3>1. answer' \in Values
      BY <2>2 DEF MapperAnswers
    <3>2. answer' \in MapperAnswers(union)'
      BY <2>1, <2>2 DEF MapperAnswers
    <3> QED
      BY <2>1, <2>2, <3>1, <3>2 DEF TypeOK, AnswerIsOwn, AppliedForAllJobs
  <2>3. CASE Raise /\ UNCHANGED answer
    BY <2>1, <2>3 DEF Raise, TypeOK, AnswerIsOwn, AppliedForAllJobs
  <2> QED
    BY <1>4, <2>2, <2>3 DEF LookupProperties
<1>5. CASE ModifySlice
  <2>1. /\ slice' \in Slices
        /\ result' = "returned" => Grants(slice', jobids)
    BY <1>5, ModifiedWhole
  <2>2. /\ UNCHANGED <<mapper, jobids, union, answer>>
        /\ stage' = "idle"
        /\ result' \in {"returned", "raised"}
    BY <1>5 DEF ModifySlice, Raise
  <2>3. Grants(slice', jobids) => Grants(slice, jobids)'
    BY <2>2 DEF Grants, UnionOf
  <2> QED
    BY <2>1, <2>2, <2>3 DEF TypeOK, AnswerIsOwn, AppliedForAllJobs
<1>6. CASE RevertSlice
  BY <1>6, UnsetTyped DEF RevertSlice, TypeOK, AnswerIsOwn, AppliedForAllJobs
<1>7. CASE UNCHANGED vars
  BY <1>7 DEF vars, TypeOK, AnswerIsOwn, AppliedForAllJobs, MapperAnswers, Grants, UnionOf
<1> QED
  BY <1>1, <1>2, <1>3, <1>4, <1>5, <1>6, <1>7 DEF Next

\* The inductive invariant holds, for any number of jobs and resources.
THEOREM Invariance == Spec => []UpdateInv
<1>1. Init => UpdateInv
  BY UnsetTyped
     DEF Init, UpdateInv, TypeOK, AnswerIsOwn, UnionIsComplete, AppliedForAllJobs
<1> QED
  BY <1>1, InvStep, PTL DEF Spec

\* Every variable keeps its type: whatever the answers' entries are, the slice's
\* list holds devices only.
THEOREM TypeCorrect == Spec => []TypeOK
<1>1. UpdateInv => TypeOK
  BY DEF UpdateInv
<1> QED
  BY <1>1, Invariance, PTL

\* A script goes on only after the slice was made to grant exactly what its jobs
\* hold, whatever updates came before and however they failed.
THEOREM UpdatesApply == Spec => []AppliedForAllJobs
<1>1. UpdateInv => AppliedForAllJobs
  BY DEF UpdateInv
<1> QED
  BY <1>1, Invariance, PTL

\* The slice changes by whole updates and reverts only.
THEOREM UpdatesAreWhole == Spec => NoPartialUpdate
<1>1. UpdateInv /\ [Next]_vars =>
          [slice' = slice \/ slice' = Unset \/ Grants(slice', jobids)]_vars
  <2> SUFFICES ASSUME UpdateInv, Next
               PROVE  slice' = slice \/ slice' = Unset \/ Grants(slice', jobids)
    OBVIOUS
  <2>1. CASE ModifySlice
    BY <2>1, ModifiedWhole
  <2>2. CASE RevertSlice
    BY <2>2 DEF RevertSlice
  <2> QED
    BY <2>1, <2>2
       DEF Next, Reconfigure, ActiveLocalJobs, ResourceUnion, LookupProperties
<1> QED
  BY <1>1, Invariance, PTL DEF Spec, NoPartialUpdate

===============================================================================
