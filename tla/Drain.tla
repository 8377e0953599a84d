-------------------------------- MODULE Drain --------------------------------
(***************************************************************************)
(* What revoking shared resources promises: users enter a resource only    *)
(* while it is open, shutting it lets nobody new in, and it is gone only   *)
(* when nobody uses it any more.                                           *)
(*                                                                         *)
(* Volatile resources live in the memory of a process: they may be opened  *)
(* again, and they end with the process, together with all their users.    *)
(***************************************************************************)
CONSTANTS
    Resources,
    Users,
    Volatile

VARIABLES
    phase,  \* of each resource: "new", "open", "shut" or "gone"
    users   \* of each resource: who uses it

vars == <<phase, users>>

Init ==
    /\ phase \in [Resources -> {"new", "gone"}]
    /\ users = [r \in Resources |-> {}]

Open(r) ==
    /\ phase[r] = "new" \/ (Volatile /\ phase[r] \in {"shut", "gone"})
    /\ phase'[r] = "open" /\ users'[r] = users[r]

Enter(r, u) ==
    /\ phase[r] = "open" /\ phase'[r] = "open"
    /\ users'[r] = users[r] \union {u}

Leave(r) == users'[r] \subseteq users[r] /\ phase'[r] = phase[r]

Shut(r) == phase[r] = "open" /\ phase'[r] = "shut" /\ users'[r] = users[r]

Retire(r) ==
    /\ phase[r] = "shut" /\ users[r] = {}
    /\ phase'[r] = "gone" /\ users'[r] = {}

Abort(r) == Volatile /\ phase'[r] = "gone" /\ users'[r] = {}

\* Several resources may change at once; Leave includes that nothing happens.
Next ==
    \A r \in Resources :
        Open(r) \/ (\E u \in Users : Enter(r, u)) \/ Leave(r) \/ Shut(r) \/ Retire(r) \/ Abort(r)

Spec == Init /\ [][Next]_vars

\* The point of it: what is gone is not in use.
GoneIsUnused == \A r \in Resources : phase[r] \in {"new", "gone"} => users[r] = {}

=============================================================================
