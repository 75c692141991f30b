------------------------------ MODULE AccessGate ------------------------------
(***************************************************************************)
(* What flux-pam promises about one compute node, told without locks,      *)
(* files, scripts or systemd: each user has a gate.                        *)
(*                                                                         *)
(* A login session may enter the user's slice only while the gate is open. *)
(* When the user's last job ends the gate drains, and it is not called     *)
(* closed before the sessions that entered are gone, if the site asked     *)
(* for them to be killed.  A node whose clean-up failed stays draining,    *)
(* or opens again for the user's next job.                                 *)
(*                                                                         *)
(* UserSlice implements this: see GateOf there for what the three states   *)
(* of the gate are made of.                                                *)
(***************************************************************************)
EXTENDS FiniteSets

CONSTANTS
    Users,        \* the users known to the node
    Sessions,     \* login sessions
    SessionUser,  \* the user of each session
    Purge         \* whether sessions must be gone when the gate closes

VARIABLES
    gate,    \* "closed", "open" or "draining", for each user
    inside   \* the sessions that run in their user's slice

vars == <<gate, inside>>

TypeOK ==
    /\ gate \in [Users -> {"closed", "open", "draining"}]
    /\ inside \subseteq Sessions

Init ==
    /\ gate = [u \in Users |-> "closed"]
    /\ inside = {}

InsideOf(u) == {s \in inside : SessionUser[s] = u}

\* The user's slice is set up for a job.
Open(u) ==
    /\ gate[u] # "open"
    /\ gate' = [gate EXCEPT ![u] = "open"]
    /\ UNCHANGED inside

\* The user's last job is over: nobody enters from here on.
Drain(u) ==
    /\ gate[u] # "draining"
    /\ gate' = [gate EXCEPT ![u] = "draining"]
    /\ UNCHANGED inside

\* The clean-up is over.
Close(u) ==
    /\ gate[u] = "draining"
    /\ Purge => InsideOf(u) = {}
    /\ gate' = [gate EXCEPT ![u] = "closed"]
    /\ UNCHANGED inside

Admit(s) ==
    /\ gate[SessionUser[s]] = "open"
    /\ s \notin inside
    /\ inside' = inside \cup {s}
    /\ UNCHANGED gate

\* A session ends by itself or is killed.
Leave(s) ==
    /\ s \in inside
    /\ inside' = inside \ {s}
    /\ UNCHANGED gate

Next ==
    \/ \E u \in Users : Open(u) \/ Drain(u) \/ Close(u)
    \/ \E s \in Sessions : Admit(s) \/ Leave(s)

Spec == Init /\ [][Next]_vars

\* What the gate is for: with Purge a session that is inside has a gate that is
\* open, or draining until it is gone; no closed gate forgets one.
NobodyForgotten == Purge => \A s \in inside : gate[SessionUser[s]] # "closed"

===============================================================================
