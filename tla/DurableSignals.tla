--------------------------- MODULE DurableSignals ---------------------------
(***************************************************************************)
(* The durable consumer-delivery ledger (signals/durable.py) of one agent  *)
(* and one source, together with the processes that drive it: dispatcher   *)
(* generations, which own a heartbeat row and run managed cognition, and   *)
(* public executors, which own nothing but a lease token                   *)
(* (signals/dispatcher.py).                                                *)
(*                                                                         *)
(* One action is one store transaction together with the process-local     *)
(* bookkeeping done with its result.  Every transaction that creates or    *)
(* claims deliveries holds the scope's handoff lock (or SQLite's writer    *)
(* slot), so transactions do not overlap.                                  *)
(*                                                                         *)
(* Time is abstracted to what the code compares: a lease is live or past   *)
(* its deadline, an owner's heartbeat is fresh or stale, a retry is due or *)
(* not, an event's retention has ended or not.  Any of these may change at *)
(* any moment (the actions under "Time"), so no relation between the       *)
(* configured durations is assumed.                                        *)
(*                                                                         *)
(* Operators named Mutant... are seeded faults of the definition that      *)
(* follows them; they are not part of the specification.                   *)
(***************************************************************************)
EXTENDS Integers, FiniteSets, Functions

CONSTANTS
    Consumers,      \* consumer_id values
    CoreConsumers,  \* core_cognition_consumers()
    Replaying,      \* consumers registered with replay_retained
    Events,         \* events of the source
    Selects,        \* Selects[c]: the events consumer c's selector matches
    Dispatchers,    \* dispatcher generations, "dispatcher:<generation>"
    Executors,      \* public executor ids
    Tokens,         \* lease tokens; a fresh one is drawn for every lease
    MaxAttempts,    \* MaxAttempts[c]; 0 is unlimited
    Nobody,         \* NULL in lease_owner and lease_token
    Mortal          \* generations that may crash or shut down

Deliveries == Consumers \X Events
Holders == Dispatchers \union Executors

ASSUME ConstantsAssumption ==
    /\ CoreConsumers \subseteq Consumers
    /\ Replaying \subseteq Consumers
    /\ Selects \in [Consumers -> SUBSET Events]
    /\ MaxAttempts \in [Consumers -> Nat]
    /\ Dispatchers \intersect Executors = {}
    /\ Nobody \notin Holders \union Tokens

VARIABLES
    consumer,  \* CONSUMERS: "none", "active" or "inactive"
    event,     \* EVENTS: "new", "retained", "ended" (retention over), "purged"
    row,       \* DELIVERIES, one record per (consumer, event)
    ownerRow,  \* RUNTIME_OWNERS: "none", "fresh", "stale" or "stopped"
    runtime,   \* the dispatcher processes: "off", "up", "closing", "gone"
    lease,     \* what the holder of each token is doing, lost with its process
    hold,      \* the agent's Hold is engaged
    turns,     \* history: executions begun and not returned by Hold
    earlier    \* history: events already committed when a consumer registered

db == <<consumer, event, row, ownerRow>>
vars == <<consumer, event, row, ownerRow, runtime, lease, hold, turns, earlier>>

-----------------------------------------------------------------------------
(* Rows.                                                                   *)

Terminal == {"acknowledged", "failed", "terminal_ackable"}
Open == {"pending", "initial_reserved", "leased", "retry"}
Statuses == Open \union Terminal \union {"absent"}

\* `alive': lease_expires_at > now.  `due': next_attempt_at is NULL or past.
\* `unstarted': last_error is the admission-pending marker of a claim.
Rows == [status : Statuses, attempts : Nat,
         owner : Holders \union {Nobody}, token : Tokens \union {Nobody},
         alive : BOOLEAN, due : BOOLEAN, unstarted : BOOLEAN]

AbsentRow == [status |-> "absent", attempts |-> 0, owner |-> Nobody,
              token |-> Nobody, alive |-> FALSE, due |-> TRUE,
              unstarted |-> FALSE]

PendingRow == [AbsentRow EXCEPT !.status = "pending"]

ReservedRow(o, t) ==
    [AbsentRow EXCEPT !.status = "initial_reserved", !.owner = o, !.token = t]

\* Every transition that gives the row up: no owner, no token, no deadline.
Cleared(r, status) ==
    [r EXCEPT !.status = status, !.owner = Nobody, !.token = Nobody,
              !.alive = FALSE, !.due = TRUE, !.unstarted = FALSE]

LeasedRow(r, x, t) ==
    [r EXCEPT !.status = "leased", !.attempts = @ + 1, !.owner = x, !.token = t,
              !.alive = TRUE, !.due = TRUE, !.unstarted = TRUE]

Spent(c, attempts) == MaxAttempts[c] > 0 /\ attempts >= MaxAttempts[c]

MutantRefundBelowZero(r) == r.attempts - 1

Refunded(r) == IF r.attempts > 0 THEN r.attempts - 1 ELSE 0

\* _retry_identity_assignment: the retry keeps its owner and token.
RetainsIdentity(c, r) ==
    /\ c \in CoreConsumers
    /\ r.owner \in Dispatchers

\* nack_delivery, release_managed_delivery_after_task.
NackedRow(c, r, outcome, due) ==
    CASE outcome = "ackable" -> Cleared(r, "terminal_ackable")
      [] outcome = "terminal" \/ (outcome = "retry" /\ Spent(c, r.attempts)) ->
            Cleared(r, "failed")
      [] outcome = "retry" /\ ~Spent(c, r.attempts) ->
            IF RetainsIdentity(c, r)
            THEN [r EXCEPT !.status = "retry", !.alive = FALSE, !.due = due,
                           !.unstarted = FALSE]
            ELSE [Cleared(r, "retry") EXCEPT !.due = due]

\* release_delivery_for_hold: the attempt is returned, whatever the deadline.
HoldReturnedRow(c, r) ==
    IF RetainsIdentity(c, r)
    THEN [r EXCEPT !.status = "retry", !.attempts = Refunded(r),
                   !.alive = FALSE, !.due = TRUE, !.unstarted = FALSE]
    ELSE [Cleared(r, "retry") EXCEPT !.attempts = Refunded(r)]

MutantRecoverRefundsAlways(c, r) ==
    LET a == Refunded(r)
    IN [Cleared(r, IF Spent(c, a) THEN "failed" ELSE "retry")
            EXCEPT !.attempts = a]

\* recover_abandoned_leases, _recover_expired_leases: an attempt whose
\* execution never began is returned before the budget is checked.
RecoveredRow(c, r) ==
    LET a == IF r.unstarted THEN Refunded(r) ELSE r.attempts
    IN [Cleared(r, IF Spent(c, a) THEN "failed" ELSE "retry")
            EXCEPT !.attempts = a]

-----------------------------------------------------------------------------
(* Processes and their leases.                                             *)

\* What a token's holder does: an unactivated reservation, an activated first
\* lease, a claim before its execution begins, a begun execution before the
\* turn's own Hold check, a running turn, or a settlement whose outcome is
\* unknown and must be terminalized under the same token.
Phases == {"reserved", "first", "claimed", "begun", "running", "debt"}

Free == [phase |-> "free"]
Leases == {Free} \union
          [phase : Phases, holder : Holders, on : Deliveries, lapsed : BOOLEAN]

Held(t) == lease[t] # Free

\* An owner row that keeps its leases out of recovery.
LiveOwner(o) == ownerRow[o] = "fresh"

\* A lease as it is handed out.  `lapsed' is history: at some moment since,
\* the holder's heartbeat was not fresh.
Handed(phase, x, d) ==
    [phase |-> phase, holder |-> x, on |-> d,
     lapsed |-> x \in Dispatchers /\ ~LiveOwner(x)]

Fresh(t) == ~Held(t) /\ \A d \in Deliveries : row[d].token # t

HeldBy(o) == {t \in Tokens : Held(t) /\ lease[t].holder = o}

\* The row this token still owns.
Owns(t, d) == row[d].status = "leased" /\ row[d].token = t

\* _lock_live_delivery_lease
OwnsAlive(t, d) == Owns(t, d) /\ row[d].alive

Drop(t) == lease' = [lease EXCEPT ![t] = Free]
Enter(t, phase) == lease' = [lease EXCEPT ![t].phase = phase]
Forget(ts) == lease' = [t \in Tokens |-> IF t \in ts THEN Free ELSE lease[t]]

-----------------------------------------------------------------------------
(* Consumers and events.                                                   *)

Init ==
    /\ consumer = [c \in Consumers |-> "none"]
    /\ event = [e \in Events |-> "new"]
    /\ row = [d \in Deliveries |-> AbsentRow]
    /\ ownerRow = [o \in Dispatchers |-> "none"]
    /\ runtime = [o \in Dispatchers |-> "off"]
    /\ lease = [t \in Tokens |-> Free]
    /\ hold = FALSE
    /\ turns = [d \in Deliveries |-> 0]
    /\ earlier = [c \in Consumers |-> {}]

Serving == \E o \in Dispatchers : runtime[o] = "up"

\* _backfill_consumer: retained, unexpired, selected events without a row.
Backfilled(c, rows) ==
    [d \in Deliveries |->
        IF /\ d[1] = c /\ c \in Replaying
           /\ d[2] \in Selects[c] /\ event[d[2]] = "retained"
           /\ rows[d].status = "absent"
        THEN PendingRow ELSE rows[d]]

MutantRegisterWithoutBackfill(c) ==
    /\ Serving
    /\ consumer[c] = "none"
    /\ consumer' = [consumer EXCEPT ![c] = "active"]
    /\ earlier' = [earlier EXCEPT ![c] = {e \in Events : event[e] # "new"}]
    /\ UNCHANGED <<event, row, ownerRow, runtime, lease, hold, turns>>

\* register_consumer: insert the contract and backfill it in one transaction.
RegisterConsumer(c) ==
    /\ Serving
    /\ consumer[c] = "none"
    /\ consumer' = [consumer EXCEPT ![c] = "active"]
    /\ row' = Backfilled(c, row)
    /\ earlier' = [earlier EXCEPT ![c] = {e \in Events : event[e] # "new"}]
    /\ UNCHANGED <<event, ownerRow, runtime, lease, hold, turns>>

MutantTerminalizedSparesReservations(c, rows) ==
    [d \in Deliveries |->
        IF d[1] = c /\ rows[d].status \in Open \ {"initial_reserved"}
        THEN Cleared(rows[d], "failed") ELSE rows[d]]

Terminalized(c, rows) ==
    [d \in Deliveries |->
        IF d[1] = c /\ rows[d].status \in Open
        THEN Cleared(rows[d], "failed") ELSE rows[d]]

\* deactivate_consumer: its open deliveries fail in the same transaction.
DeactivateConsumer(c) ==
    /\ Serving
    /\ consumer[c] = "active"
    /\ consumer' = [consumer EXCEPT ![c] = "inactive"]
    /\ row' = Terminalized(c, row)
    /\ UNCHANGED <<event, ownerRow, runtime, lease, hold, turns, earlier>>

Subscribers(e) == {c \in Consumers : consumer[c] = "active" /\ e \in Selects[c]}

\* persist_signal: the event and one delivery for each active consumer that
\* selects it, in one transaction.
PersistSignal(o, e) ==
    /\ runtime[o] = "up"
    /\ event[e] = "new"
    /\ event' = [event EXCEPT ![e] = "retained"]
    /\ row' = [d \in Deliveries |->
                 IF d[2] = e /\ d[1] \in Subscribers(e)
                 THEN PendingRow ELSE row[d]]
    /\ UNCHANGED <<consumer, ownerRow, runtime, lease, hold, turns, earlier>>

\* persist_signal with initial_lease_owner: each delivery is reserved for the
\* emitting dispatcher, which installs its capability before the commit.
PersistReserved(o, e, tokenFor) ==
    /\ runtime[o] = "up"
    /\ event[e] = "new"
    /\ \A c \in Subscribers(e) : Fresh(tokenFor[c])
    /\ event' = [event EXCEPT ![e] = "retained"]
    /\ row' = [d \in Deliveries |->
                 IF d[2] = e /\ d[1] \in Subscribers(e)
                 THEN ReservedRow(o, tokenFor[d[1]]) ELSE row[d]]
    /\ lease' = [t \in Tokens |->
                   IF \E c \in Subscribers(e) : tokenFor[c] = t
                   THEN Handed("reserved", o,
                               <<CHOOSE c \in Subscribers(e) : tokenFor[c] = t, e>>)
                   ELSE lease[t]]
    /\ UNCHANGED <<consumer, ownerRow, runtime, hold, turns, earlier>>

MutantPurgeIgnoresReservations(e) ==
    /\ Serving
    /\ event[e] = "ended"
    /\ \A c \in Consumers : row[<<c, e>>].status \notin Open \ {"initial_reserved"}
    /\ event' = [event EXCEPT ![e] = "purged"]
    /\ row' = [d \in Deliveries |-> IF d[2] = e THEN AbsentRow ELSE row[d]]
    /\ UNCHANGED <<consumer, ownerRow, runtime, lease, hold, turns, earlier>>

\* purge_expired: an event past its retention goes, with its deliveries, once
\* every one of them is terminal.
PurgeExpired(e) ==
    /\ Serving
    /\ event[e] = "ended"
    /\ \A c \in Consumers : row[<<c, e>>].status \notin Open
    /\ event' = [event EXCEPT ![e] = "purged"]
    /\ row' = [d \in Deliveries |-> IF d[2] = e THEN AbsentRow ELSE row[d]]
    /\ UNCHANGED <<consumer, ownerRow, runtime, lease, hold, turns, earlier>>

-----------------------------------------------------------------------------
(* Dispatcher generations.                                                 *)

\* initialize_durable_delivery: register_runtime_owner.  The recoveries that
\* follow are RecoverAbandonedInitialReservations and RecoverAbandonedLeases.
RegisterRuntimeOwner(o) ==
    /\ runtime[o] = "off"
    /\ runtime' = [runtime EXCEPT ![o] = "up"]
    /\ ownerRow' = [ownerRow EXCEPT ![o] = "fresh"]
    /\ UNCHANGED <<consumer, event, row, lease, hold, turns, earlier>>

\* heartbeat_runtime_owner; a closing process keeps its owner row fresh until
\* its tasks have settled.
HeartbeatRuntimeOwner(o) ==
    /\ runtime[o] \in {"up", "closing"}
    /\ ownerRow' = [ownerRow EXCEPT ![o] = "fresh"]
    /\ UNCHANGED <<consumer, event, row, runtime, lease, hold, turns, earlier>>

\* The owner rows another generation may recover from.
Abandoned(o, r) ==
    /\ r.owner \in Dispatchers \ {o}
    /\ ownerRow[r.owner] \in {"stale", "stopped"}

\* recover_abandoned_initial_reservations
RecoverAbandonedInitialReservations(o) ==
    /\ runtime[o] = "up"
    /\ row' = [d \in Deliveries |->
                 IF row[d].status = "initial_reserved" /\ Abandoned(o, row[d])
                 THEN Cleared(row[d], "retry") ELSE row[d]]
    /\ UNCHANGED <<consumer, event, ownerRow, runtime, lease, hold, turns,
                   earlier>>

\* recover_abandoned_leases
RecoverAbandonedLeases(o) ==
    /\ runtime[o] = "up"
    /\ row' = [d \in Deliveries |->
                 IF row[d].status = "leased" /\ Abandoned(o, row[d])
                 THEN RecoveredRow(d[1], row[d]) ELSE row[d]]
    /\ UNCHANGED <<consumer, event, ownerRow, runtime, lease, hold, turns,
                   earlier>>

\* The heartbeat's last step, under the pending-admission lock: with no claim
\* of its own in flight, a lease still marked unstarted is one whose Hold
\* release failed (recover_owned_pending_cognition_admissions).
RecoverOwnedPendingAdmissions(o) ==
    /\ runtime[o] = "up"
    /\ \A t \in HeldBy(o) : lease[t].phase # "claimed"
    /\ row' = [d \in Deliveries |->
                 IF /\ row[d].status = "leased" /\ row[d].owner = o
                    /\ row[d].unstarted
                 THEN [Cleared(row[d], "retry") EXCEPT
                         !.attempts = Refunded(row[d])]
                 ELSE row[d]]
    /\ UNCHANGED <<consumer, event, ownerRow, runtime, lease, hold, turns,
                   earlier>>

\* Shutdown closes admission; what still runs keeps the owner fenced.
BeginShutdown(o) ==
    /\ o \in Mortal
    /\ runtime[o] = "up"
    /\ runtime' = [runtime EXCEPT ![o] = "closing"]
    /\ UNCHANGED <<db, lease, hold, turns, earlier>>

\* A closing process writes nothing for work it defers or interrupts: the
\* lease is left to owner recovery.
InterruptedByShutdown(t) ==
    /\ Held(t)
    /\ lease[t].phase \in {"claimed", "begun", "running"}
    /\ lease[t].holder \in Dispatchers
    /\ runtime[lease[t].holder] = "closing"
    /\ Drop(t)
    /\ UNCHANGED <<db, runtime, hold, turns, earlier>>

\* release_initial_reservations
ReservationsReleased(o) ==
    [d \in Deliveries |->
        IF row[d].status = "initial_reserved" /\ row[d].owner = o
        THEN Cleared(row[d], "retry") ELSE row[d]]

Handoffs(o) == {t \in HeldBy(o) : lease[t].phase \in {"reserved", "first"}}

\* _activate_retained_durable_shutdown_fence: a turn resists cancellation, so
\* the owner stays live; its first handoffs are dropped, and only those still
\* reserved return to retry.
FenceShutdown(o) ==
    /\ runtime[o] = "closing"
    /\ \E t \in HeldBy(o) : lease[t].phase \in {"begun", "running"}
    /\ ownerRow' = [ownerRow EXCEPT ![o] = "fresh"]
    /\ row' = ReservationsReleased(o)
    /\ Forget(Handoffs(o))
    /\ UNCHANGED <<consumer, event, runtime, hold, turns, earlier>>

\* _release_runtime_owner_after_shutdown(mark_owner_stopped=True): only after
\* every retained task and every owed terminalization has settled.
FinishShutdown(o) ==
    /\ runtime[o] = "closing"
    /\ HeldBy(o) = Handoffs(o)
    /\ runtime' = [runtime EXCEPT ![o] = "gone"]
    /\ ownerRow' = [ownerRow EXCEPT ![o] = "stopped"]
    /\ row' = ReservationsReleased(o)
    /\ Forget(HeldBy(o))
    /\ UNCHANGED <<consumer, event, hold, turns, earlier>>

\* The process dies: its leases' holders vanish, its rows stay.
Crash(o) ==
    /\ o \in Mortal
    /\ runtime[o] \in {"up", "closing"}
    /\ runtime' = [runtime EXCEPT ![o] = "gone"]
    /\ Forget(HeldBy(o))
    /\ UNCHANGED <<db, hold, turns, earlier>>

-----------------------------------------------------------------------------
(* The reserved first lease of a payload-eliding event.                    *)

\* activate_initial_delivery.  The owner row is touched in the same
\* transaction.  A reservation that cannot be activated is given up.
ActivateInitialDelivery(t) ==
    /\ Held(t) /\ lease[t].phase = "reserved"
    /\ LET d == lease[t].on
           o == lease[t].holder
           active == consumer[d[1]] = "active"
           mine == /\ row[d].status = "initial_reserved"
                   /\ row[d].owner = o /\ row[d].token = t
       IN /\ runtime[o] = "up"
          /\ ownerRow' = IF active THEN [ownerRow EXCEPT ![o] = "fresh"]
                                   ELSE ownerRow
          /\ IF active /\ mine
             THEN /\ row' = [row EXCEPT ![d].status = "leased", ![d].alive = TRUE]
                  /\ Enter(t, "first")
             ELSE Drop(t) /\ UNCHANGED row
    /\ UNCHANGED <<consumer, event, runtime, hold, turns, earlier>>

MutantAbandonReservedOnly(t) ==
    /\ Held(t) /\ lease[t].phase = "reserved"
    /\ LET d == lease[t].on
           o == lease[t].holder
           mine == /\ row[d].status = "initial_reserved"
                   /\ row[d].owner = o /\ row[d].token = t
       IN /\ runtime[o] = "up"
          /\ row' = IF mine THEN [row EXCEPT ![d] = Cleared(@, "retry")] ELSE row
    /\ Drop(t)
    /\ UNCHANGED <<consumer, event, ownerRow, runtime, hold, turns, earlier>>

\* abandon_initial_reservation: after a failed or cancelled handoff, or when
\* the first lease expired before any worker claimed it.
AbandonInitialReservation(t) ==
    /\ Held(t) /\ lease[t].phase \in {"reserved", "first"}
    /\ LET d == lease[t].on
           o == lease[t].holder
           mine == /\ row[d].status \in {"initial_reserved", "leased"}
                   /\ row[d].owner = o /\ row[d].token = t
       IN /\ runtime[o] = "up"
          /\ lease[t].phase = "first" => ~row[d].alive
          /\ row' = IF mine THEN [row EXCEPT ![d] = Cleared(@, "retry")] ELSE row
    /\ Drop(t)
    /\ UNCHANGED <<consumer, event, ownerRow, runtime, hold, turns, earlier>>

-----------------------------------------------------------------------------
(* Claiming.                                                               *)

MutantExpiryIgnoresOwner(c) ==
    [d \in Deliveries |->
        IF d[1] = c /\ row[d].status = "leased" /\ ~row[d].alive
        THEN RecoveredRow(c, row[d]) ELSE row[d]]

\* _recover_expired_leases, at the start of every claim of the consumer.
ExpiredRecovered(c) ==
    [d \in Deliveries |->
        IF /\ d[1] = c /\ row[d].status = "leased" /\ ~row[d].alive
           /\ row[d].owner \in Dispatchers => ~LiveOwner(row[d].owner)
        THEN RecoveredRow(c, row[d]) ELSE row[d]]

ReadyRows(c) == Backfilled(c, ExpiredRecovered(c))

MutantRetryAlwaysTransferable(x, c, r) == TRUE

\* _managed_retry_claim_sql: a core retry keeps its live owner.
RetryTransferable(x, c, r) ==
    c \in CoreConsumers /\ r.status = "retry" /\ r.owner \in Dispatchers =>
        r.owner = x \/ ~LiveOwner(r.owner)

\* _retry_receipt_exclusion_sql: this process does not claim a delivery whose
\* release outcome it still has to establish.
ReceiptOwed(x, d) ==
    \E t \in HeldBy(x) : lease[t].phase = "debt" /\ lease[t].on = d

\* _lock_claimable_delivery
Claimable(x, d, r) ==
    /\ r.status \in {"pending", "retry"}
    /\ ~Spent(d[1], r.attempts)
    /\ r.due
    /\ RetryTransferable(x, d[1], r)
    /\ ~ReceiptOwed(x, d)

\* A dispatcher's own workers claim core consumers only; a public executor
\* may claim for any consumer.
MayClaim(x, c) ==
    /\ ~hold
    /\ consumer[c] = "active"
    /\ Serving
    /\ x \in Dispatchers => runtime[x] = "up" /\ c \in CoreConsumers

\* claim_delivery, claim_delivery_for_event.
ClaimDelivery(x, d, t) ==
    /\ MayClaim(x, d[1])
    /\ Fresh(t)
    /\ Claimable(x, d, ReadyRows(d[1])[d])
    /\ row' = [ReadyRows(d[1]) EXCEPT ![d] = LeasedRow(@, x, t)]
    /\ lease' = [lease EXCEPT ![t] = Handed("claimed", x, d)]
    /\ UNCHANGED <<consumer, event, ownerRow, runtime, hold, turns, earlier>>

\* A claim that finds nothing still commits its recovery and backfill.
ClaimNothing(x, c) ==
    /\ MayClaim(x, c)
    /\ \A d \in Deliveries : d[1] = c => ~Claimable(x, d, ReadyRows(c)[d])
    /\ row' = ReadyRows(c)
    /\ UNCHANGED <<consumer, event, ownerRow, runtime, lease, hold, turns,
                   earlier>>

\* claim_initial_delivery: the emitting dispatcher hands its live first lease
\* to a worker under a new token.
ClaimInitialDelivery(t, x, t2) ==
    /\ Held(t) /\ lease[t].phase = "first"
    /\ LET d == lease[t].on
           o == lease[t].holder
       IN /\ runtime[o] = "up"
          /\ x \in {o} \union Executors
          /\ MayClaim(x, d[1])
          /\ OwnsAlive(t, d) /\ row[d].owner = o
          /\ Fresh(t2)
          /\ row' = [row EXCEPT ![d] = LeasedRow(@, x, t2)]
          /\ lease' = [lease EXCEPT ![t] = Free, ![t2] = Handed("claimed", x, d)]
    /\ UNCHANGED <<consumer, event, ownerRow, runtime, hold, turns, earlier>>

-----------------------------------------------------------------------------
(* Executing and settling a claim.                                         *)

\* The holder can reach the store: a managed holder through its own process.
Connected(x) == IF x \in Dispatchers THEN runtime[x] = "up" ELSE Serving

\* begin_cognition_execution, after the last Hold check: clear the marker.
\* A public executor is published by it; managed cognition still has the
\* turn's own Hold check ahead.  A lost claim is dropped.
BeginExecution(t) ==
    /\ Held(t) /\ lease[t].phase = "claimed"
    /\ Connected(lease[t].holder)
    /\ ~hold
    /\ LET d == lease[t].on
           x == lease[t].holder
       IN IF Owns(t, d) /\ row[d].owner = x /\ row[d].unstarted
          THEN /\ row' = [row EXCEPT ![d].unstarted = FALSE]
               /\ Enter(t, IF x \in Dispatchers THEN "begun" ELSE "running")
               /\ turns' = [turns EXCEPT ![d] = @ + 1]
          ELSE Drop(t) /\ UNCHANGED <<row, turns>>
    /\ UNCHANGED <<consumer, event, ownerRow, runtime, hold, earlier>>

\* The route passes the turn's final Hold check: effects may follow.
StartTurn(t) ==
    /\ Held(t) /\ lease[t].phase = "begun"
    /\ Connected(lease[t].holder)
    /\ ~hold
    /\ Enter(t, "running")
    /\ UNCHANGED <<db, runtime, hold, turns, earlier>>

\* release_delivery_for_hold: Hold won before any effect, the exact lease and
\* its attempt are returned.
ReleaseForHold(t) ==
    /\ Held(t) /\ lease[t].phase \in {"first", "claimed", "begun"}
    /\ Connected(lease[t].holder)
    /\ hold
    /\ LET d == lease[t].on
       IN IF Owns(t, d)
          THEN /\ row' = [row EXCEPT ![d] = HoldReturnedRow(d[1], @)]
               /\ turns' = [turns EXCEPT ![d] =
                              IF lease[t].phase = "begun" THEN @ - 1 ELSE @]
          ELSE UNCHANGED <<row, turns>>
    /\ Drop(t)
    /\ UNCHANGED <<consumer, event, ownerRow, runtime, hold, earlier>>

\* The same release failing in the store: the claim is forgotten locally and
\* only its marker still says that nothing began.
ReleaseForHoldFails(t) ==
    /\ Held(t) /\ lease[t].phase = "claimed"
    /\ hold
    /\ Drop(t)
    /\ UNCHANGED <<db, runtime, hold, turns, earlier>>

\* ack_delivery: the original live lease only.  A rejected ack ends a public
\* execution; managed work goes on to ReleaseAfterTask.
AckDelivery(t) ==
    /\ Held(t) /\ lease[t].phase = "running"
    /\ Connected(lease[t].holder)
    /\ LET d == lease[t].on
       IN \/ /\ OwnsAlive(t, d)
             /\ row' = [row EXCEPT ![d] = Cleared(@, "acknowledged")]
          \/ /\ ~OwnsAlive(t, d)
             /\ lease[t].holder \in Executors
             /\ UNCHANGED row
    /\ Drop(t)
    /\ UNCHANGED <<consumer, event, ownerRow, runtime, hold, turns, earlier>>

\* ack_delivery with complete_consumer: the ack stands, the consumer's other
\* work fails with it.
AckAndComplete(t) ==
    /\ Held(t) /\ lease[t].phase = "running"
    /\ lease[t].holder \in Executors
    /\ Serving
    /\ LET d == lease[t].on
       IN /\ OwnsAlive(t, d)
          /\ row' = Terminalized(d[1],
                       [row EXCEPT ![d] = Cleared(@, "acknowledged")])
          /\ consumer' = [consumer EXCEPT ![d[1]] = "inactive"]
    /\ Drop(t)
    /\ UNCHANGED <<event, ownerRow, runtime, hold, turns, earlier>>

\* An execution begun by the holder, settled by its result.
Begun(t) == Held(t) /\ lease[t].phase \in {"begun", "running"}

\* nack_delivery: the original live lease only.
NackDelivery(t, outcome, due) ==
    /\ Begun(t)
    /\ Connected(lease[t].holder)
    /\ LET d == lease[t].on
       IN \/ /\ OwnsAlive(t, d)
             /\ row' = [row EXCEPT ![d] = NackedRow(d[1], @, outcome, due)]
          \/ /\ ~OwnsAlive(t, d)
             /\ lease[t].holder \in Executors
             /\ UNCHANGED row
    /\ Drop(t)
    /\ UNCHANGED <<consumer, event, ownerRow, runtime, hold, turns, earlier>>

\* release_managed_delivery_after_task: the task has ended, so the exact owner
\* and token settle the row even past the deadline.
ReleaseAfterTask(t, outcome) ==
    /\ Begun(t)
    /\ lease[t].holder \in Dispatchers
    /\ runtime[lease[t].holder] = "up"
    /\ LET d == lease[t].on
       IN row' = IF Owns(t, d) /\ row[d].owner = lease[t].holder
                 THEN [row EXCEPT ![d] = NackedRow(d[1], @, outcome, TRUE)]
                 ELSE row
    /\ Drop(t)
    /\ UNCHANGED <<consumer, event, ownerRow, runtime, hold, turns, earlier>>

\* A managed settlement that raises: whether it reached the row is unknown, a
\* second release raises too, and the token becomes a debt
\* (_own_cognition_claim_body, _release_retained_durable_cognition_task).
SettlementUnknown(t) ==
    /\ Begun(t)
    /\ lease[t].holder \in Dispatchers
    /\ runtime[lease[t].holder] = "up"
    /\ LET d == lease[t].on
       IN \/ UNCHANGED <<row, turns>>
          \/ /\ OwnsAlive(t, d)
             /\ row' = [row EXCEPT ![d] = NackedRow(d[1], @, "retry", TRUE)]
             /\ UNCHANGED turns
          \/ /\ OwnsAlive(t, d) /\ lease[t].phase = "running"
             /\ row' = [row EXCEPT ![d] = Cleared(@, "acknowledged")]
             /\ UNCHANGED turns
          \/ /\ Owns(t, d) /\ lease[t].phase = "begun" /\ hold
             /\ row' = [row EXCEPT ![d] = HoldReturnedRow(d[1], @)]
             /\ turns' = [turns EXCEPT ![d] = @ - 1]
    /\ Enter(t, "debt")
    /\ UNCHANGED <<consumer, event, ownerRow, runtime, hold, earlier>>

\* The cleanup of a task retained past its lease loss meets an ordinary store
\* error: it is logged and the lease is nobody's until the process ends.
RetainedReleaseFails(t) ==
    /\ Held(t) /\ lease[t].phase = "running"
    /\ lease[t].holder \in Dispatchers
    /\ runtime[lease[t].holder] = "up"
    /\ ~OwnsAlive(t, lease[t].on)
    /\ Drop(t)
    /\ UNCHANGED <<db, runtime, hold, turns, earlier>>

\* _terminalize_failed_cognition: fail the row under the original owner and
\* token, whether it is still leased or already a retry of that capability.
\* A row that no longer matches leaves the debt standing (PostgreSQL; SQLite
\* keeps the debt but lifts the claim exclusion).
TerminalizeFailedCognition(t) ==
    /\ Held(t) /\ lease[t].phase = "debt"
    /\ runtime[lease[t].holder] \in {"up", "closing"}
    /\ LET d == lease[t].on
       IN /\ row[d].status \in {"leased", "retry"}
          /\ row[d].owner = lease[t].holder /\ row[d].token = t
          /\ row' = [row EXCEPT ![d] = Cleared(@, "failed")]
    /\ Drop(t)
    /\ UNCHANGED <<consumer, event, ownerRow, runtime, hold, turns, earlier>>

\* A public executor dies with its lease.
ExecutorVanishes(t) ==
    /\ Held(t)
    /\ lease[t].holder \in Executors
    /\ Drop(t)
    /\ UNCHANGED <<db, runtime, hold, turns, earlier>>

-----------------------------------------------------------------------------
(* Time and Hold.                                                          *)

LeaseExpires(d) ==
    /\ row[d].status = "leased" /\ row[d].alive
    /\ row' = [row EXCEPT ![d].alive = FALSE]
    /\ UNCHANGED <<consumer, event, ownerRow, runtime, lease, hold, turns,
                   earlier>>

RetryBecomesDue(d) ==
    /\ row[d].status = "retry" /\ ~row[d].due
    /\ row' = [row EXCEPT ![d].due = TRUE]
    /\ UNCHANGED <<consumer, event, ownerRow, runtime, lease, hold, turns,
                   earlier>>

RetentionEnds(e) ==
    /\ event[e] = "retained"
    /\ event' = [event EXCEPT ![e] = "ended"]
    /\ UNCHANGED <<consumer, row, ownerRow, runtime, lease, hold, turns, earlier>>

HeartbeatGoesStale(o) ==
    /\ ownerRow[o] = "fresh"
    /\ ownerRow' = [ownerRow EXCEPT ![o] = "stale"]
    /\ lease' = [t \in Tokens |->
                   IF t \in HeldBy(o) THEN [lease[t] EXCEPT !.lapsed = TRUE]
                                      ELSE lease[t]]
    /\ UNCHANGED <<consumer, event, row, runtime, hold, turns, earlier>>

ToggleHold ==
    /\ hold' = ~hold
    /\ UNCHANGED <<db, runtime, lease, turns, earlier>>

-----------------------------------------------------------------------------

Registry ==
    \E c \in Consumers : RegisterConsumer(c) \/ DeactivateConsumer(c)

Ingress ==
    \E e \in Events :
        \/ PurgeExpired(e)
        \/ \E o \in Dispatchers :
              \/ PersistSignal(o, e)
              \/ \E f \in Injection(Subscribers(e), Tokens) :
                    PersistReserved(o, e, f)

Lifecycle ==
    \E o \in Dispatchers :
        \/ RegisterRuntimeOwner(o)
        \/ HeartbeatRuntimeOwner(o)
        \/ RecoverAbandonedInitialReservations(o)
        \/ RecoverAbandonedLeases(o)
        \/ RecoverOwnedPendingAdmissions(o)
        \/ BeginShutdown(o)
        \/ FenceShutdown(o)
        \/ FinishShutdown(o)
        \/ Crash(o)

Claiming ==
    \E x \in Holders :
        \/ \E d \in Deliveries, t \in Tokens : ClaimDelivery(x, d, t)
        \/ \E c \in Consumers : ClaimNothing(x, c)
        \/ \E t, t2 \in Tokens : ClaimInitialDelivery(t, x, t2)

Executing ==
    \E t \in Tokens :
        \/ ActivateInitialDelivery(t)
        \/ AbandonInitialReservation(t)
        \/ BeginExecution(t)
        \/ StartTurn(t)
        \/ ReleaseForHold(t)
        \/ ReleaseForHoldFails(t)
        \/ AckDelivery(t)
        \/ AckAndComplete(t)
        \/ \E outcome \in {"retry", "terminal", "ackable"}, due \in BOOLEAN :
              NackDelivery(t, outcome, due)
        \/ \E outcome \in {"retry", "ackable"} : ReleaseAfterTask(t, outcome)
        \/ SettlementUnknown(t)
        \/ RetainedReleaseFails(t)
        \/ TerminalizeFailedCognition(t)
        \/ InterruptedByShutdown(t)
        \/ ExecutorVanishes(t)

Time ==
    \/ \E d \in Deliveries : LeaseExpires(d) \/ RetryBecomesDue(d)
    \/ \E e \in Events : RetentionEnds(e)
    \/ \E o \in Dispatchers : HeartbeatGoesStale(o)
    \/ ToggleHold

Next == Registry \/ Ingress \/ Lifecycle \/ Claiming \/ Executing \/ Time

Spec == Init /\ [][Next]_vars

(***************************************************************************)
(* What the code's scheduling guarantees: processes start, heartbeats and   *)
(* their recoveries recur, drains keep claiming while work is due, tasks    *)
(* end, deadlines pass.  Nothing is assumed of Hold, crashes or shutdowns.  *)
(***************************************************************************)
ManagedClaim(d) ==
    \/ \E o \in Dispatchers, t \in Tokens : ClaimDelivery(o, d, t)
    \/ \E o \in Dispatchers, t, t2 \in Tokens :
          Held(t) /\ lease[t].on = d /\ ClaimInitialDelivery(t, o, t2)

Settle(t) ==
    \/ AckDelivery(t)
    \/ \E outcome \in {"retry", "terminal", "ackable"}, due \in BOOLEAN :
          NackDelivery(t, outcome, due)
    \/ \E outcome \in {"retry", "ackable"} : ReleaseAfterTask(t, outcome)
    \/ SettlementUnknown(t)

Fairness ==
    /\ \A o \in Dispatchers :
          /\ WF_vars(RegisterRuntimeOwner(o))
          /\ WF_vars(HeartbeatRuntimeOwner(o))
          /\ WF_vars(RecoverAbandonedInitialReservations(o))
          /\ WF_vars(RecoverAbandonedLeases(o))
          /\ WF_vars(RecoverOwnedPendingAdmissions(o))
          /\ WF_vars(FinishShutdown(o))
          /\ WF_vars(runtime[o] = "gone" /\ HeartbeatGoesStale(o))
    /\ \A t \in Tokens :
          /\ WF_vars(ActivateInitialDelivery(t))
          /\ WF_vars(AbandonInitialReservation(t))
          /\ WF_vars(BeginExecution(t))
          /\ WF_vars(StartTurn(t))
          /\ WF_vars(ReleaseForHold(t))
          /\ WF_vars(Settle(t))
          /\ WF_vars(TerminalizeFailedCognition(t))
          /\ WF_vars(InterruptedByShutdown(t))
    /\ \A d \in Deliveries :
          /\ WF_vars(ManagedClaim(d))
          /\ WF_vars(RetryBecomesDue(d))
          /\ WF_vars(LeaseExpires(d))

FairSpec == Spec /\ Fairness

-----------------------------------------------------------------------------

TypeOK ==
    /\ consumer \in [Consumers -> {"none", "active", "inactive"}]
    /\ event \in [Events -> {"new", "retained", "ended", "purged"}]
    /\ row \in [Deliveries -> Rows]
    /\ ownerRow \in [Dispatchers -> {"none", "fresh", "stale", "stopped"}]
    /\ runtime \in [Dispatchers -> {"off", "up", "closing", "gone"}]
    /\ lease \in [Tokens -> Leases]
    /\ hold \in BOOLEAN
    /\ turns \in [Deliveries -> Int]
    /\ earlier \in [Consumers -> SUBSET Events]

\* A managed lease whose owner's heartbeat never lapsed since it was handed out.
Protected(t) ==
    /\ Held(t)
    /\ lease[t].holder \in Dispatchers
    /\ ~lease[t].lapsed

Settled(d) == row[d].status \notin Open

(***************************************************************************)
(* While a dispatcher's heartbeat holds, nobody takes a delivery from under *)
(* its turn, even past the lease deadline: the row stays leased to that     *)
(* owner and token until that owner settles it or the consumer is retired. *)
(* release_managed_delivery_after_task settles expired leases on the        *)
(* strength of this ("no other claimant could have acquired the row").      *)
(***************************************************************************)
LiveOwnerKeepsItsRow ==
    \A t \in Tokens :
        Protected(t) /\ lease[t].phase \in {"claimed", "begun", "running"} =>
            \/ Settled(lease[t].on)
            \/ Owns(t, lease[t].on) /\ row[lease[t].on].owner = lease[t].holder

(***************************************************************************)
(* No two managed executions of one delivery overlap while both owners'     *)
(* heartbeats hold, and none starts while an owner still owes the           *)
(* terminalization of a settlement whose outcome it does not know           *)
(* (_managed_retry_claim_sql, _retry_receipt_exclusion_sql).                *)
(***************************************************************************)
NoOverlappingTurns ==
    \A t1, t2 \in Tokens :
        /\ Protected(t1) /\ lease[t1].phase \in {"begun", "running", "debt"}
        /\ Protected(t2) /\ lease[t2].phase \in {"begun", "running", "debt"}
        /\ lease[t1].on = lease[t2].on
        => t1 = t2

(***************************************************************************)
(* Executions begun for a delivery never exceed its consumer's              *)
(* max_attempts, although claims, Hold returns, lost owners and unstarted   *)
(* admissions all move the attempts column.                                 *)
(***************************************************************************)
TurnsWithinBudget ==
    \A d \in Deliveries :
        MaxAttempts[d[1]] > 0 => turns[d] <= MaxAttempts[d[1]]

(***************************************************************************)
(* An active consumer has a delivery row for every retained event it        *)
(* selects that was committed after its registration, or before it when it  *)
(* replays retained history and the retention has not ended                 *)
(* (register_consumer against persist_signal).                              *)
(***************************************************************************)
NoLostDelivery ==
    \A c \in Consumers, e \in Events :
        /\ consumer[c] = "active" /\ e \in Selects[c]
        /\ \/ event[e] \in {"retained", "ended"} /\ e \notin earlier[c]
           \/ event[e] = "retained" /\ c \in Replaying
        => row[<<c, e>>].status # "absent"

(***************************************************************************)
(* A deactivated consumer has no open delivery, and no late activation,     *)
(* claim, recovery or settlement gives it one (deactivate_consumer: "a      *)
(* stale worker cannot acknowledge, retry, release, or reactivate").        *)
(***************************************************************************)
InactiveConsumerIsDrained ==
    \A d \in Deliveries : consumer[d[1]] = "inactive" => Settled(d)

(***************************************************************************)
(* A terminal delivery never changes again except by being purged with its  *)
(* event, and an open delivery is never dropped.                            *)
(***************************************************************************)
TerminalIsFinal ==
    [][\A d \in Deliveries :
          /\ row[d].status \in Terminal => row'[d] \in {row[d], AbsentRow}
          /\ row[d].status \in Open => row'[d].status # "absent"]_vars

\* A turn whose owner's heartbeat lapsed and whose settlement was then lost:
\* the terminalization no longer matches the row and stays owed ("cleanup debt
\* remains unresolved"), and the owing process never claims the row again.
UnresolvedDebt(d) ==
    \E t \in Tokens :
        Held(t) /\ lease[t].phase = "debt" /\ lease[t].on = d /\ lease[t].lapsed

\* A begun lease of a running process that none of its tasks holds any more.
StrandedLease(d) ==
    /\ row[d].status = "leased" /\ ~row[d].unstarted
    /\ row[d].owner \in Dispatchers
    /\ runtime[row[d].owner] \in {"up", "closing"}
    /\ \A t \in Tokens : row[d].token = t => ~Held(t)

(***************************************************************************)
(* Every open delivery of a core consumer is eventually settled once Hold   *)
(* stays off and running dispatchers' heartbeats stay fresh: no first lease *)
(* that expired unclaimed under a live owner, failed Hold release, lost     *)
(* settlement, crash or shutdown strands it for ever.  The two exceptions   *)
(* last exactly as long as the owning process: an unresolved debt, which    *)
(* fails closed, and a stranded lease.                                      *)
(***************************************************************************)
EveryDeliverySettles ==
    (/\ <>[]~hold
     /\ <>[](\A o \in Dispatchers : runtime[o] \in {"up", "closing"} => LiveOwner(o)))
    => \A d \in Deliveries :
          row[d].status \in Open ~>
              (Settled(d) \/ []UnresolvedDebt(d) \/ []StrandedLease(d))

=============================================================================
