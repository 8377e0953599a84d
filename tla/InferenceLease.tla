--------------------------- MODULE InferenceLease ---------------------------
(***************************************************************************)
(* Leased private inference capacity of one agent: the coordinator         *)
(* (llm/inference_leases.py), the single route it activates in the LLM     *)
(* service (llm/remote_backend.py) and the calls that use that route.      *)
(*                                                                         *)
(* The coordinator's operations hold one lock, so at most one is under way *)
(* (op); between its awaits the route's calls, the provider, a shutdown or *)
(* a crash may step in.  A provider call, the check of its answer and the  *)
(* assignment of the record are one action, because nothing is awaited     *)
(* between them; saving the record and (de)activating the route follow as  *)
(* actions of their own, as they are awaited.                              *)
(*                                                                         *)
(* The provider is external: it acquires idempotently by request id, so a  *)
(* lease is named by its request, and it stamps its answers with the time  *)
(* of the answer.  Local expiry of a lease may be found at any look at it. *)
(***************************************************************************)
EXTENDS Naturals

CONSTANTS
    Requests,   \* request ids, each naming the lease it acquires
    Calls,      \* LLM calls that may use the route
    None        \* no record, no lease, no caller

VARIABLES
    saved,      \* the record in agent_metadata
    record,     \* self._record
    cap,        \* external: the provider's state of each lease
    op,         \* the coordinator operation that holds self._lock
    route,      \* _remote_lease, _remote_accepting, _remote_route_epoch
    call,       \* where each LLM call stands
    up,         \* the process runs and the coordinator was built
    closed,     \* _remote_route_closed
    asked,      \* history: leases whose release reached the provider
    unplanned   \* history: leases first acquired without a saved plan

vars == <<saved, record, cap, op, route, call, up, closed, asked, unplanned>>
history == <<asked, unplanned>>

Terminal == {"failed", "released", "expired"}
Ended == Terminal \union {"releasing"}
Billed == {"pending", "ready"}
States == Billed \union Ended

\* A record without a lease has the state "planned".
Records == [req : Requests, state : States \union {"planned"}]

ASSUME NoneAssumption == None \notin Requests \union Calls \union Records

Steps == {"status", "acquire", "touch", "release", "save", "route", "drain", "swap"}
Ops == [step : Steps, req : Requests, caller : Calls \union {None},
        next : {"route", "acquire", "release"},
        finally : {"end", "plan", "recheck", "mark"}, plan : Requests \union {None}]
Idle == [at |-> "idle", req |-> None, epoch |-> 0]

(***************************************************************************)
(* Types of the variables.                                                 *)
(***************************************************************************)
TypeOK ==
    /\ saved \in Records \union {None}
    /\ record \in Records \union {None}
    /\ cap \in [Requests -> States \union {"absent"}]
    /\ op \in Ops \union {None}
    /\ route \in [lease : Requests \union {None}, accepting : BOOLEAN, epoch : Nat]
    /\ call \in [Calls -> [at : {"idle", "selected", "renewing", "renewed", "pinned"},
                           req : Requests \union {None}, epoch : Nat]]
    /\ up \in BOOLEAN /\ closed \in BOOLEAN
    /\ asked \subseteq Requests /\ unplanned \subseteq Requests

Init ==
    /\ saved = None /\ record = None
    /\ cap = [r \in Requests |-> "absent"]
    /\ op = None
    /\ route = [lease |-> None, accepting |-> FALSE, epoch |-> 0]
    /\ call = [c \in Calls |-> Idle]
    /\ up = TRUE /\ closed = FALSE
    /\ asked = {} /\ unplanned = {}

MutantPinned == {c \in Calls : call[c].at \in {"renewing", "renewed", "pinned"}}

Pinned == {c \in Calls : call[c].at = "pinned"}   \* _remote_inflight

-----------------------------------------------------------------------------
(* Entering the lock.                                                      *)

Operation(step, r, finally, plan) ==
    [step |-> step, req |-> r, caller |-> None, next |-> "route",
     finally |-> finally, plan |-> plan]

\* The operation ends; a call that waited for its renewal goes on or is refused.
Return(ok) ==
    /\ op' = None
    /\ call' = IF op.caller = None THEN call
               ELSE [call EXCEPT ![op.caller] = IF ok THEN [@ EXCEPT !.at = "renewed"] ELSE Idle]

Fail == Return(FALSE)

\* Write the plan of request r, the next thing after which is its acquisition.
Plan(r) ==
    /\ record' = [req |-> r, state |-> "planned"]
    /\ op' = [Operation("save", r, "end", None) EXCEPT !.next = "acquire"]

MutantAcquire(r) ==
    /\ up /\ op = None
    /\ record # None => record.state \in Terminal \union {"planned"}
    /\ Plan(r)
    /\ UNCHANGED <<saved, cap, route, call, up, closed, history>>

\* A fresh plan, the resumption of one (same request id only), or a recheck of
\* the old lease before it is replaced.  Anything else is refused.
Acquire(r) ==
    /\ up /\ op = None
    /\ \/ record = None /\ Plan(r)
       \/ /\ record # None /\ record.state = "planned" /\ record.req = r
          /\ op' = Operation("acquire", r, "end", None)
          /\ UNCHANGED record
       \/ /\ record # None /\ record.state \in Terminal
          /\ op' = Operation("status", record.req, "plan", r)
          /\ UNCHANGED record
    /\ UNCHANGED <<saved, cap, route, call, up, closed, history>>

\* The record names a lease of the provider.
Leased(r) == record # None /\ record.req = r /\ record.state # "planned"

MutantStatus(r) ==
    /\ up /\ op = None /\ Leased(r)
    /\ op' = Operation("status", r, "plan", None)
    /\ UNCHANGED <<saved, record, cap, route, call, up, closed, history>>

Status(r) ==
    /\ up /\ op = None /\ Leased(r)
    /\ op' = Operation("status", r, "end", None)
    /\ UNCHANGED <<saved, record, cap, route, call, up, closed, history>>

\* deactivate_inference_lease begins: no new calls on r's route.
StopAccepting(r) == route' = [route EXCEPT !.accepting = @ /\ route.lease # r]

\* A terminal lease is first rechecked with the provider.
Release(r) ==
    /\ up /\ op = None /\ Leased(r)
    /\ \/ /\ record.state \in Terminal
          /\ op' = Operation("status", r, "recheck", None)
          /\ UNCHANGED route
       \/ /\ record.state \notin Terminal
          /\ op' = Operation("drain", r, "mark", None)
          /\ StopAccepting(r)
    /\ UNCHANGED <<saved, record, cap, call, up, closed, history>>

\* A call renews the lease it selected; only a ready one can be renewed.
Touch(c) ==
    /\ op = None
    /\ call[c].at = "selected"
    /\ \/ /\ Leased(call[c].req) /\ record.state = "ready"
          /\ op' = [Operation("touch", call[c].req, "end", None) EXCEPT !.caller = c]
          /\ call' = [call EXCEPT ![c].at = "renewing"]
       \/ /\ ~(Leased(call[c].req) /\ record.state = "ready")
          /\ call' = [call EXCEPT ![c] = Idle]
          /\ UNCHANGED op
    /\ UNCHANGED <<saved, record, cap, route, up, closed, history>>

\* A saved ready lease is read back as pending: its route was not saved.
Loaded(rec) == IF rec # None /\ rec.state = "ready" THEN [rec EXCEPT !.state = "pending"] ELSE rec

\* The process starts, and reconciles what it finds before anything else.
Restart ==
    /\ ~up
    /\ up' = TRUE
    /\ record' = Loaded(saved)
    /\ op' = IF saved = None THEN None
             ELSE Operation(IF saved.state = "planned" THEN "acquire" ELSE "status",
                            saved.req, "end", None)
    /\ UNCHANGED <<saved, cap, route, call, closed, history>>

-----------------------------------------------------------------------------
(* Provider calls.                                                         *)

\* External: what the call does to the lease.
Effect(step, s) ==
    CASE step = "acquire" -> IF s = "absent" THEN Billed ELSE {s}
      [] step = "release" -> IF s \in {"released", "expired"} THEN {s} ELSE {"releasing", "released"}
      [] OTHER -> {s}

\* External: a wrong answer calls an ended lease ready again.
Answers(step, s) == IF step \in {"status", "touch"} THEN {s, "ready"} ELSE {s}

MutantAllowed(old, new) == TRUE

\* _ALLOWED_TRANSITIONS
Allowed(old, new) ==
    \/ old = "planned"
    \/ old = "pending"
    \/ old = "ready" /\ new # "pending"
    \/ old = "releasing" /\ new \in Ended
    \/ old \in Terminal /\ new \in {old, "releasing"}

\* The answer is checked against the record and becomes it, or is an error.
Apply(r, answer) ==
    IF Allowed(record.state, answer)
    THEN /\ record' = [req |-> r, state |-> answer]
         /\ op' = [op EXCEPT !.step = "save", !.next = "route"]
         /\ UNCHANGED call
    ELSE Fail /\ UNCHANGED record

\* The call fails without effect, takes effect and loses its answer, or
\* answers.
CallProvider ==
    /\ op # None /\ op.step \in {"status", "acquire", "touch", "release"}
    /\ LET r == op.req IN
       \/ Fail /\ UNCHANGED <<record, cap, history>>
       \/ \E s \in Effect(op.step, cap[r]) :
             /\ cap' = [cap EXCEPT ![r] = s]
             /\ asked' = IF op.step = "release" THEN asked \union {r} ELSE asked
             /\ unplanned' = IF cap[r] = "absent" /\ (saved = None \/ saved.req # r)
                             THEN unplanned \union {r} ELSE unplanned
             /\ \/ Fail /\ UNCHANGED record
                \/ \E answer \in Answers(op.step, s) : Apply(r, answer)
    /\ UNCHANGED <<saved, route, up, closed>>

\* External: capacity becomes ready, fails, expires, is taken back, and old
\* cleanup may turn out unfinished.
ProviderStep(r) ==
    /\ \/ cap[r] = "pending" /\ \E s \in States \ {"pending"} : cap' = [cap EXCEPT ![r] = s]
       \/ cap[r] = "ready" /\ \E s \in Ended : cap' = [cap EXCEPT ![r] = s]
       \/ cap[r] = "releasing" /\ \E s \in Terminal : cap' = [cap EXCEPT ![r] = s]
       \/ cap[r] \in Terminal /\ cap' = [cap EXCEPT ![r] = "releasing"]
    /\ UNCHANGED <<saved, record, op, route, call, up, closed, history>>

-----------------------------------------------------------------------------
(* Saving the record, then the route.                                      *)

\* _persist.  A failed write leaves the record ahead of the saved one.
Save ==
    /\ op # None /\ op.step = "save"
    /\ \/ /\ saved' = record
          /\ op' = [op EXCEPT !.step = op.next]
          /\ UNCHANGED call
       \/ Fail /\ UNCHANGED saved
    /\ UNCHANGED <<record, cap, route, up, closed, history>>

\* After the route was brought in line with the record: the operation ends,
\* plans a replacement, or goes on to release the lease.
Finally ==
    \/ /\ op.finally = "plan" /\ record.state \in Terminal
       /\ Plan(op.plan)
       /\ UNCHANGED call
    \/ /\ op.finally = "recheck" /\ record.state \notin {"released", "expired"}
       /\ op' = [op EXCEPT !.step = "drain", !.finally = "mark"]
       /\ UNCHANGED <<record, call>>
    \/ /\ op.finally = "mark"
       /\ record' = [record EXCEPT !.state = "releasing"]
       /\ op' = [op EXCEPT !.step = "save", !.next = "release", !.finally = "end"]
       /\ UNCHANGED call
    \/ /\ \/ op.finally = "end"
          \/ op.finally = "plan" /\ record.state \notin Terminal
          \/ op.finally = "recheck" /\ record.state \in {"released", "expired"}
       /\ Return(record.state = "ready")
       /\ UNCHANGED record

\* A lease that is still pending changes no route.
KeepRoute ==
    /\ op # None /\ op.step = "route" /\ record.state = "pending"
    /\ Finally
    /\ UNCHANGED <<saved, cap, route, up, closed, history>>

\* activate_inference_lease: publish the route, refresh it in place, or drain
\* it because its endpoint or credentials changed.  Refused when the service
\* is closed, the route drains, or another lease is active.
Activate ==
    /\ op # None /\ op.step = "route" /\ record.state = "ready"
    /\ LET r == op.req
           current == route.lease = r /\ route.accepting IN
       \/ /\ ~closed /\ route.lease = None
          /\ route' = [route EXCEPT !.lease = r, !.accepting = TRUE]
          /\ Return(TRUE)
       \/ ~closed /\ current /\ Return(TRUE) /\ UNCHANGED route
       \/ /\ ~closed /\ current
          /\ op' = [op EXCEPT !.step = "swap"]
          /\ route' = [route EXCEPT !.accepting = FALSE]
          /\ UNCHANGED call
       \/ /\ closed \/ (route.lease # None /\ ~current)
          /\ Fail /\ UNCHANGED route
    /\ UNCHANGED <<saved, record, cap, up, closed, history>>

\* The calls on the old client are over before the new one is published.
Swap ==
    /\ op # None /\ op.step = "swap" /\ Pinned = {}
    /\ IF closed THEN Fail /\ UNCHANGED route
       ELSE Return(TRUE) /\ route' = [route EXCEPT !.lease = op.req, !.accepting = TRUE]
    /\ UNCHANGED <<saved, record, cap, up, closed, history>>

SwapTimeout ==
    /\ op # None /\ op.step = "swap" /\ Pinned # {}
    /\ route' = [route EXCEPT !.accepting = ~closed]
    /\ Fail
    /\ UNCHANGED <<saved, record, cap, up, closed, history>>

Deactivate ==
    /\ op # None /\ op.step = "route" /\ record.state \in Ended
    /\ StopAccepting(op.req)
    /\ op' = [op EXCEPT !.step = "drain"]
    /\ UNCHANGED <<saved, record, cap, call, up, closed, history>>

\* Forget the route's secrets; renewals that started before notice the epoch.
Forgotten == [lease |-> None, accepting |-> FALSE, epoch |-> route.epoch + 1]

MutantDrained ==
    /\ op # None /\ op.step = "drain"
    /\ route' = IF route.lease = op.req THEN Forgotten ELSE route
    /\ Finally
    /\ UNCHANGED <<saved, cap, up, closed, history>>

\* The last pinned call ended, or r's route is not the active one.
Drained ==
    /\ op # None /\ op.step = "drain"
    /\ route.lease = op.req => Pinned = {}
    /\ route' = IF route.lease = op.req THEN Forgotten ELSE route
    /\ Finally
    /\ UNCHANGED <<saved, cap, up, closed, history>>

\* Unless the service is closing, draining gives up; the route stays shut.
DrainTimeout ==
    /\ op # None /\ op.step = "drain" /\ route.lease = op.req /\ Pinned # {}
    /\ ~closed
    /\ Fail
    /\ UNCHANGED <<saved, record, cap, route, up, closed, history>>

-----------------------------------------------------------------------------
(* Calls on the route.                                                     *)

\* _remote_route_attempt, first look: an accepting route is selected, and one
\* found expired is shut.
Select(c) ==
    /\ up /\ call[c] = Idle /\ route.accepting
    /\ \/ /\ call' = [call EXCEPT ![c] = [at |-> "selected", req |-> route.lease,
                                          epoch |-> route.epoch]]
          /\ UNCHANGED route
       \/ route' = [route EXCEPT !.accepting = FALSE] /\ UNCHANGED call
    /\ UNCHANGED <<saved, record, cap, op, up, closed, history>>

\* The route is still the one that was selected.
Unchanged(c) ==
    /\ route.epoch = call[c].epoch
    /\ route.lease = call[c].req
    /\ route.accepting

MutantPin(c) ==
    /\ call[c].at = "renewed"
    /\ call' = [call EXCEPT ![c].at = "pinned"]
    /\ UNCHANGED <<saved, record, cap, op, route, up, closed, history>>

\* Second look, after the renewal: pin the route, or refuse the call.
Pin(c) ==
    /\ call[c].at = "renewed"
    /\ \/ /\ Unchanged(c)
          /\ call' = [call EXCEPT ![c].at = "pinned"]
          /\ UNCHANGED route
       \/ /\ call' = [call EXCEPT ![c] = Idle]
          /\ route' = IF Unchanged(c) THEN [route EXCEPT !.accepting = FALSE] ELSE route
    /\ UNCHANGED <<saved, record, cap, op, up, closed, history>>

\* The model's answer or its failure; the last one wakes the drains.
EndCall(c) ==
    /\ call[c].at = "pinned"
    /\ call' = [call EXCEPT ![c] = Idle]
    /\ UNCHANGED <<saved, record, cap, op, route, up, closed, history>>

-----------------------------------------------------------------------------
(* Shutdown and crash.                                                     *)

\* LLMService.close forbids activation, then drains without a deadline.
Close ==
    /\ up /\ ~closed
    /\ closed' = TRUE
    /\ route' = [route EXCEPT !.accepting = FALSE]
    /\ UNCHANGED <<saved, record, cap, op, call, up, history>>

CloseDrained ==
    /\ closed /\ route.lease # None /\ Pinned = {}
    /\ route' = Forgotten
    /\ UNCHANGED <<saved, record, cap, op, call, up, closed, history>>

\* The process dies, or ends after its close.
Crash ==
    /\ up
    /\ up' = FALSE /\ closed' = FALSE
    /\ record' = None /\ op' = None
    /\ route' = [lease |-> None, accepting |-> FALSE, epoch |-> 0]
    /\ call' = [c \in Calls |-> Idle]
    /\ UNCHANGED <<saved, cap, history>>

-----------------------------------------------------------------------------
OperationStep ==
    \/ CallProvider \/ Save \/ KeepRoute \/ Activate \/ Swap \/ Deactivate \/ Drained

Next ==
    \/ \E r \in Requests : Acquire(r) \/ Status(r) \/ Release(r) \/ ProviderStep(r)
    \/ \E c \in Calls : Select(c) \/ Touch(c) \/ Pin(c) \/ EndCall(c)
    \/ OperationStep \/ SwapTimeout \/ DrainTimeout
    \/ Close \/ CloseDrained \/ Crash \/ Restart

Spec == Init /\ [][Next]_vars

\* The event loop runs what is ready; a call to the model ends (its client has
\* a timeout); asyncio.Lock serves its waiters in order.  No drain deadline is
\* assumed to strike.
Fairness ==
    /\ WF_vars(OperationStep) /\ WF_vars(CloseDrained)
    /\ \A c \in Calls : WF_vars(Pin(c)) /\ WF_vars(EndCall(c)) /\ SF_vars(Touch(c))

FairSpec == Spec /\ Fairness

-----------------------------------------------------------------------------
(***************************************************************************)
(* The lease a route serves is the one the coordinator has on record, so a *)
(* release or an expiry always finds the route it must shut, also after a  *)
(* replacement, a failed save or a refused activation.                     *)
(***************************************************************************)
RouteFollowsRecord ==
    route.lease # None => record # None /\ record.req = route.lease

(***************************************************************************)
(* No call runs on capacity whose release was requested from the provider: *)
(* release shuts and drains the route first, and a call that was renewing  *)
(* meanwhile is refused ("Pin an active route for one call so release      *)
(* cannot race it", remote_backend.py).                                    *)
(***************************************************************************)
NoCallAfterRelease == \A c \in Pinned : call[c].req \notin asked

\* The route of a lease as a resource used by the calls pinned to it.
Routes == INSTANCE Drain WITH
    Resources <- Requests, Users <- Calls, Volatile <- TRUE,
    phase <- [r \in Requests |-> IF route.lease # r THEN "gone"
                                 ELSE IF route.accepting THEN "open" ELSE "shut"],
    users <- [r \in Requests |-> {c \in Pinned : call[c].req = r}]

(***************************************************************************)
(* A route is taken away the way Drain promises: calls are pinned only     *)
(* while it accepts, and its secrets are forgotten only after the last of  *)
(* them, through release, expiry, credential swaps, drain deadlines,       *)
(* shutdown and crashes.                                                   *)
(***************************************************************************)
RouteDrains == Routes!Spec

(***************************************************************************)
(* Capacity is billed for at most one lease at a time: a replacement waits *)
(* until the provider confirms the old lease's end, and a restart resumes  *)
(* the saved request.  Exempt are leases that were acquired while their    *)
(* plan was not saved, see BilledIsDurable.                                *)
(***************************************************************************)
OneBilledLease ==
    \A r, s \in Requests :
        cap[r] \in Billed /\ cap[s] \in Billed /\ r # s => {r, s} \cap unplanned # {}

(***************************************************************************)
(* A lease whose saved record says that it ended is never saved as pending *)
(* or ready again, whatever the provider answers (_ALLOWED_TRANSITIONS:    *)
(* "must never revive terminal work or credentials").                      *)
(***************************************************************************)
NoRevival ==
    [][saved # None /\ saved.state \in Ended /\ saved' # None /\ saved'.req = saved.req
        => saved'.state \notin Billed]_vars

(***************************************************************************)
(* The coordinator's lock and the drain do not wait for each other: every  *)
(* operation ends and every call is served or refused, without a drain     *)
(* deadline having to strike, because a call is pinned only after its      *)
(* renewal has left the lock.                                              *)
(***************************************************************************)
NobodyWaitsForever ==
    /\ op # None ~> op = None
    /\ \A c \in Calls : call[c].at # "idle" ~> call[c].at = "idle"

(***************************************************************************)
(* inference_leases.py: "Persist the idempotency request and selected      *)
(* quote before the first billable mutation.  A crash can then resume      *)
(* acquire with the exact same request identifier."  So billed capacity    *)
(* is always that of the saved record.                                     *)
(***************************************************************************)
BilledIsDurable ==
    \A r \in Requests : cap[r] \in Billed => saved # None /\ saved.req = r

=============================================================================
