---------------------------- MODULE SliceProperties ----------------------------
(***************************************************************************)
(* One update of a user's slice after the other, each by the script that   *)
(* holds the user's lock: apply_resource_constraints() looks up the R of   *)
(* the user's jobs, asks sdexec-mapper for the properties of their union,  *)
(* and sets them with systemctl set-property --runtime.                    *)
(*                                                                         *)
(* Each of the three may fail, the first for some of the jobs only.        *)
(* systemd keeps what an update does not name and accumulates DeviceAllow, *)
(* so the slice depends on its history unless modify_slice() undoes it.    *)
(***************************************************************************)
EXTENDS Naturals, Functions

CONSTANTS
    Jobs,
    CPUs,
    Devices,      \* what DeviceAllow entries name
    R,            \* the CPUs and devices of each job on this node
    MaxEntries,   \* bound on the entries of one DeviceAllow value
    Blank,        \* an entry of nothing but whitespace
    NotGiven      \* a property that is not named, or not set

ResourceSets == [cpus : SUBSET CPUs, devices : SUBSET Devices]

ASSUME SliceAssumption ==
    /\ R \in [Jobs -> ResourceSets]
    /\ MaxEntries \in Nat
    /\ Blank \notin Devices
    /\ NotGiven \notin {"auto", "closed"}
    /\ \A cpus \in SUBSET CPUs : cpus # NotGiven

VARIABLES
    slice,    \* the properties systemd keeps for the slice
    mapper,   \* what sdexec-mapper restricts, as it is configured
    stage,    \* where apply_resource_constraints() is
    jobids,   \* the jobs it is about, _cached_jobids and the current one
    union,    \* what resource_union() returned
    answer,   \* what lookup_properties() returned
    result    \* how the last call ended: the scripts go on, or fail

vars == <<slice, mapper, stage, jobids, union, answer, result>>

Slices ==
    [AllowedCPUs : (SUBSET CPUs) \cup {NotGiven},
     DeviceAllow : SUBSET Devices,
     DevicePolicy : {"auto", "closed"}]

EntryLists == UNION {[1..n -> Devices \cup {Blank}] : n \in 1..MaxEntries}

\* A mapper's answer: any of the keys may be missing.  AllowedMemoryNodes goes
\* the way of AllowedCPUs and is not told apart from it.
Values ==
    [AllowedCPUs : (SUBSET CPUs) \cup {NotGiven},
     DeviceAllow : EntryLists \cup {NotGiven},
     DevicePolicy : {"auto", "closed", NotGiven}]

Keys == {"AllowedCPUs", "DeviceAllow", "DevicePolicy"}

\* The dictionary is walked in the order of its insertions.
KeyOrders == {o \in [1..3 -> Keys] : Range(o) = Keys}

Unset == [AllowedCPUs |-> NotGiven, DeviceAllow |-> {}, DevicePolicy |-> "auto"]

TypeOK ==
    /\ slice \in Slices
    /\ mapper \in {"off", "cpus", "devices"}
    /\ stage \in {"idle", "union", "lookup", "modify"}
    /\ jobids \subseteq Jobs
    /\ union \in ResourceSets \cup {NotGiven}
    /\ answer \in Values \cup {NotGiven}
    /\ result \in {"none", "returned", "raised"}

Init ==
    /\ slice = Unset
    /\ mapper \in {"off", "cpus", "devices"}
    /\ stage = "idle"
    /\ jobids = {}
    /\ union = NotGiven
    /\ answer = NotGiven
    /\ result = "none"

-------------------------------------------------------------------------------
(* What is asked: job-info, sdexec-mapper, systemd *)

UnionOf(js) ==
    [cpus |-> UNION {R[j].cpus : j \in js}, devices |-> UNION {R[j].devices : j \in js}]

\* JobKVSLookup drops the jobs that fail and collects their errors; it may also
\* bring nothing at all.
Lookups(js) ==
    {[results |-> js \ e, errors |-> e] : e \in SUBSET js}
        \cup {[results |-> {}, errors |-> {}]}

DevicesOf(p) ==
    IF p.DeviceAllow = NotGiven THEN {} ELSE Range(p.DeviceAllow) \ {Blank}

\* The mapper restricts nothing, or the CPUs, or the devices as well.
MapperAnswers(u) ==
    {p \in Values :
        /\ p.AllowedCPUs = IF mapper = "off" THEN NotGiven ELSE u.cpus
        /\ IF mapper = "devices"
           THEN p.DevicePolicy = "closed" /\ DevicesOf(p) = u.devices
           ELSE p.DevicePolicy # "closed" /\ p.DeviceAllow = NotGiven}

\* The mapper is reloaded with another configuration.
Reconfigure ==
    /\ stage = "idle"
    /\ mapper' \in {"off", "cpus", "devices"} \ {mapper}
    /\ result' = "none"
    /\ UNCHANGED <<slice, stage, jobids, union, answer>>

-------------------------------------------------------------------------------
(* apply_resource_constraints() *)

\* An exception ends the script.
Raise == stage' = "idle" /\ result' = "raised"

\* active_local_jobs(), and the current job in the prolog.  Housekeeping calls
\* apply_resource_constraints() only if jobs are left.
ActiveLocalJobs ==
    /\ stage = "idle"
    /\ jobids' \in (SUBSET Jobs) \ {{}}
    /\ stage' = "union"
    /\ union' = NotGiven
    /\ answer' = NotGiven
    /\ result' = "none"
    /\ UNCHANGED <<slice, mapper>>

\* Mutant: the errors are not looked at.
Failed_IfEmpty(lookup) == lookup.results = {}

Failed(lookup) == lookup.errors # {} \/ lookup.results = {}

ResourceUnion ==
    /\ stage = "union"
    /\ \E lookup \in Lookups(jobids) :
          IF Failed(lookup)
          THEN Raise /\ UNCHANGED union
          ELSE /\ union' = UnionOf(lookup.results)
               /\ stage' = "lookup"
               /\ UNCHANGED result
    /\ UNCHANGED <<slice, mapper, jobids, answer>>

LookupProperties ==
    /\ stage = "lookup"
    /\ \/ /\ answer' \in MapperAnswers(union)
          /\ stage' = "modify"
          /\ UNCHANGED result
       \/ Raise /\ UNCHANGED answer
    /\ UNCHANGED <<slice, mapper, jobids, union>>

\* Mutant: only the list is reset, as before DevicePolicy was.
Reset_KeepPolicy(s) == [s EXCEPT !.DeviceAllow = {}]

\* A bare "DeviceAllow=" empties the list; any other property is overwritten.
Reset(s) == [s EXCEPT !.DeviceAllow = {}, !.DevicePolicy = "auto"]

\* Mutant: the value is passed on in one piece.
Entries_Unsplit(v) == {v}

Entries(v) == Range(v) \ {Blank}

\* The assignments of one key of the answer.  systemd adds entries to the list.
Assign(s, p, k) ==
    IF p[k] = NotGiven THEN s
    ELSE IF k = "DeviceAllow" THEN [s EXCEPT !.DeviceAllow = @ \cup Entries(p[k])]
    ELSE [s EXCEPT ![k] = p[k]]

\* The resets come first: a later assignment overrides them.
SetProperty(s, p, order) ==
    Assign(Assign(Assign(Reset(s), p, order[1]), p, order[2]), p, order[3])

\* systemctl succeeds, or fails, or is killed at its timeout when systemd has
\* taken the properties.
ModifySlice ==
    /\ stage = "modify"
    /\ \/ /\ \E order \in KeyOrders : slice' = SetProperty(slice, answer, order)
          /\ \/ stage' = "idle" /\ result' = "returned"
             \/ Raise
       \/ UNCHANGED slice /\ Raise
    /\ UNCHANGED <<mapper, jobids, union, answer>>

\* revert_slice(), which ignores a failing systemctl.
RevertSlice ==
    /\ stage = "idle"
    /\ slice' \in {slice, Unset}
    /\ result' = "none"
    /\ UNCHANGED <<mapper, stage, jobids, union, answer>>

Next ==
    \/ Reconfigure \/ ActiveLocalJobs \/ ResourceUnion \/ LookupProperties
    \/ ModifySlice \/ RevertSlice

Spec == Init /\ [][Next]_vars

-------------------------------------------------------------------------------
(* Properties *)

\* The slice grants what all of the jobs hold, as far as the mapper restricts it,
\* and no restriction or grant of an earlier update's devices is left.
Grants(s, js) ==
    /\ mapper # "off" => s.AllowedCPUs = UnionOf(js).cpus
    /\ s.DeviceAllow = IF mapper = "devices" THEN UnionOf(js).devices ELSE {}
    /\ s.DevicePolicy = IF mapper = "devices" THEN "closed" ELSE "auto"

\* When a script goes on, and the prolog to publish the marker, the slice grants
\* exactly what the jobs it counted hold, whatever updates came before and
\* however they failed.
AppliedForAllJobs == result = "returned" => Grants(slice, jobids)

\* What the mapper is asked about is all that the counted jobs hold: a lookup that
\* fails for some of them, or brings nothing, never passes for a smaller union.
UnionIsComplete == stage \in {"lookup", "modify"} => union = UnionOf(jobids)

\* The inductive invariant: the call under way has not ended, and what is about to
\* be set is the mapper's answer for the union, as the mapper is configured still.
AnswerIsOwn ==
    /\ stage # "idle" => result = "none"
    /\ stage = "modify" => answer \in MapperAnswers(union)

UpdateInv == TypeOK /\ AnswerIsOwn /\ UnionIsComplete /\ AppliedForAllJobs

\* Nothing but a whole update for all of the jobs, or a revert, changes the
\* slice: a lookup that fails for some of them leaves it as it was, and a timeout
\* leaves no mixture of two updates.
NoPartialUpdate == [][slice' = slice \/ slice' = Unset \/ Grants(slice', jobids)]_vars

===============================================================================
