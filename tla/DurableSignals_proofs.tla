----------------------- MODULE DurableSignals_proofs -----------------------
(***************************************************************************)
(* TLAPS proofs about DurableSignals, for every set of consumers, events,  *)
(* dispatchers, executors and tokens.                                      *)
(***************************************************************************)
EXTENDS DurableSignals, TLAPS

-----------------------------------------------------------------------------
(* Types.                                                                  *)

\* The row transitions of the ledger stay within the row type.
LEMMA RowTypes ==
    ASSUME NEW c \in Consumers, NEW r \in Rows
    PROVE  /\ \A s \in Statuses : Cleared(r, s) \in Rows
           /\ Refunded(r) \in Nat
           /\ RecoveredRow(c, r) \in Rows
           /\ HoldReturnedRow(c, r) \in Rows
           /\ [Cleared(r, "retry") EXCEPT !.attempts = Refunded(r)] \in Rows
           /\ \A outcome \in {"retry", "terminal", "ackable"}, due \in BOOLEAN :
                 NackedRow(c, r, outcome, due) \in Rows
<1>1. \A s \in Statuses : Cleared(r, s) \in Rows
  BY DEF Cleared, Rows
<1>2. Refunded(r) \in Nat
  BY DEF Refunded, Rows
<1>3. RecoveredRow(c, r) \in Rows
  BY <1>2 DEF RecoveredRow, Cleared, Rows, Statuses, Open, Terminal
<1>4. HoldReturnedRow(c, r) \in Rows
  BY <1>2 DEF HoldReturnedRow, Cleared, Rows, Statuses, Open
<1>5. [Cleared(r, "retry") EXCEPT !.attempts = Refunded(r)] \in Rows
  BY <1>2 DEF Cleared, Rows, Statuses, Open
<1>6. ASSUME NEW outcome \in {"retry", "terminal", "ackable"}, NEW due \in BOOLEAN
      PROVE  NackedRow(c, r, outcome, due) \in Rows
  BY <1>1 DEF NackedRow, Cleared, Rows, Statuses, Open, Terminal
<1> QED
  BY <1>1, <1>2, <1>3, <1>4, <1>5, <1>6

\* So do the rows a commit or a claim writes.
LEMMA GrantTypes ==
    /\ AbsentRow \in Rows
    /\ PendingRow \in Rows
    /\ \A x \in Holders, t \in Tokens : ReservedRow(x, t) \in Rows
    /\ \A r \in Rows, x \in Holders, t \in Tokens : LeasedRow(r, x, t) \in Rows
<1>1. AbsentRow \in Rows /\ PendingRow \in Rows
  BY DEF AbsentRow, PendingRow, Rows, Statuses, Open
<1>2. \A x \in Holders, t \in Tokens : ReservedRow(x, t) \in Rows
  BY DEF AbsentRow, ReservedRow, Rows, Statuses, Open
<1>3. ASSUME NEW r \in Rows, NEW x \in Holders, NEW t \in Tokens
      PROVE  LeasedRow(r, x, t) \in Rows
  <2>1. r.attempts + 1 \in Nat /\ "leased" \in Statuses
    BY DEF Rows, Statuses, Open
  <2> QED
    BY <2>1 DEF LeasedRow, Rows
<1> QED
  BY <1>1, <1>2, <1>3

\* A claim's recovery and backfill keep the table well typed.
LEMMA TableTypes ==
    ASSUME TypeOK, NEW c \in Consumers
    PROVE  /\ ReadyRows(c) \in [Deliveries -> Rows]
           /\ Backfilled(c, row) \in [Deliveries -> Rows]
           /\ Terminalized(c, row) \in [Deliveries -> Rows]
<1>1. AbsentRow \in Rows /\ PendingRow \in Rows
  BY GrantTypes
<1>2. \A d \in Deliveries : d[1] \in Consumers /\ d[2] \in Events /\ row[d] \in Rows
  BY DEF Deliveries, TypeOK
<1>3. \A r \in Rows : Cleared(r, "failed") \in Rows
  BY DEF Cleared, Rows, Statuses, Terminal
<1>4. \A r \in Rows : RecoveredRow(c, r) \in Rows
  BY RowTypes
<1>5. ExpiredRecovered(c) \in [Deliveries -> Rows]
  BY <1>2, <1>4 DEF ExpiredRecovered
<1>6. \A rows \in [Deliveries -> Rows] : Backfilled(c, rows) \in [Deliveries -> Rows]
  BY <1>1 DEF Backfilled
<1>7. ReadyRows(c) \in [Deliveries -> Rows]
  BY <1>5, <1>6 DEF ReadyRows
<1>8. Backfilled(c, row) \in [Deliveries -> Rows]
  BY <1>6 DEF TypeOK
<1>9. Terminalized(c, row) \in [Deliveries -> Rows]
  BY <1>2, <1>3 DEF Terminalized
<1> QED
  BY <1>7, <1>8, <1>9

\* A held token's lease is a full lease record.
LEMMA HeldLease ==
    ASSUME TypeOK, NEW t \in Tokens, Held(t)
    PROVE  /\ lease[t] \in [phase : Phases, holder : Holders, on : Deliveries,
                            lapsed : BOOLEAN]
           /\ lease[t].on \in Deliveries
           /\ lease[t].on[1] \in Consumers
           /\ lease[t].holder \in Holders
           /\ row[lease[t].on] \in Rows
BY DEF TypeOK, Leases, Held, Deliveries

\* Every way a lease changes keeps the table of leases well typed.
LEMMA LeaseTypes ==
    ASSUME TypeOK
    PROVE  /\ \A t \in Tokens : Drop(t) => lease' \in [Tokens -> Leases]
           /\ \A t \in Tokens, p \in Phases :
                 Held(t) /\ Enter(t, p) => lease' \in [Tokens -> Leases]
           /\ \A ts : Forget(ts) => lease' \in [Tokens -> Leases]
           /\ \A p \in Phases, x \in Holders, d \in Deliveries :
                 Handed(p, x, d) \in Leases
<1>1. Free \in Leases
  BY DEF Leases
<1>2. \A t \in Tokens : Drop(t) => lease' \in [Tokens -> Leases]
  BY <1>1 DEF Drop, TypeOK
<1>3. ASSUME NEW t \in Tokens, NEW p \in Phases, Held(t), Enter(t, p)
      PROVE  lease' \in [Tokens -> Leases]
  <2>1. lease[t] \in [phase : Phases, holder : Holders, on : Deliveries,
                      lapsed : BOOLEAN]
    BY <1>3, HeldLease
  <2>2. [lease[t] EXCEPT !.phase = p] \in Leases
    BY <2>1 DEF Leases
  <2> QED
    BY <1>3, <2>2 DEF Enter, TypeOK
<1>4. ASSUME NEW ts, Forget(ts) PROVE lease' \in [Tokens -> Leases]
  BY <1>1, <1>4 DEF Forget, TypeOK
<1>5. ASSUME NEW p \in Phases, NEW x \in Holders, NEW d \in Deliveries
      PROVE  Handed(p, x, d) \in Leases
  <2>1. (x \in Dispatchers /\ ~LiveOwner(x)) \in BOOLEAN
    OBVIOUS
  <2> QED
    BY <2>1 DEF Handed, Leases
<1> QED
  BY <1>2, <1>3, <1>4, <1>5

\* Consumers and events: registration, deactivation, commit and purge.
LEMMA IngressTypes ==
    ASSUME TypeOK, Registry \/ Ingress
    PROVE  TypeOK'
<1> USE ConstantsAssumption
<1>1. ASSUME NEW c \in Consumers, RegisterConsumer(c)
      PROVE  TypeOK'
  <2>1. row' \in [Deliveries -> Rows]
    BY <1>1, TableTypes DEF RegisterConsumer
  <2> QED
    BY <1>1, <2>1 DEF RegisterConsumer, TypeOK
<1>2. ASSUME NEW c \in Consumers, DeactivateConsumer(c)
      PROVE  TypeOK'
  <2>1. row' \in [Deliveries -> Rows]
    BY <1>2, TableTypes DEF DeactivateConsumer
  <2> QED
    BY <1>2, <2>1 DEF DeactivateConsumer, TypeOK
<1>3. ASSUME NEW e \in Events, PurgeExpired(e)
      PROVE  TypeOK'
  BY <1>3, GrantTypes DEF PurgeExpired, TypeOK
<1>4. ASSUME NEW o \in Dispatchers, NEW e \in Events, PersistSignal(o, e)
      PROVE  TypeOK'
  BY <1>4, GrantTypes DEF PersistSignal, TypeOK
<1>5. ASSUME NEW o \in Dispatchers, NEW e \in Events,
             NEW f \in Injection(Subscribers(e), Tokens), PersistReserved(o, e, f)
      PROVE  TypeOK'
  <2>1. f \in [Subscribers(e) -> Tokens]
    BY DEF Injection
  <2>2. \A d \in Deliveries : d[1] \in Subscribers(e) => ReservedRow(o, f[d[1]]) \in Rows
    BY <2>1, GrantTypes DEF Holders
  <2>3. row' \in [Deliveries -> Rows]
    BY <1>5, <2>2 DEF PersistReserved, TypeOK
  <2>4. \A c \in Subscribers(e) : Handed("reserved", o, <<c, e>>) \in Leases
    BY LeaseTypes DEF Subscribers, Deliveries, Holders, Phases
  <2>5. \A t \in Tokens : (\E c \in Subscribers(e) : f[c] = t) =>
           Handed("reserved", o,
                  <<CHOOSE c \in Subscribers(e) : f[c] = t, e>>) \in Leases
    BY <2>4
  <2>6. lease' \in [Tokens -> Leases]
    BY <1>5, <2>5 DEF PersistReserved, TypeOK
  <2> QED
    BY <1>5, <2>3, <2>6 DEF PersistReserved, TypeOK
<1> QED
  BY <1>1, <1>2, <1>3, <1>4, <1>5 DEF Registry, Ingress

\* Dispatcher generations: registration, heartbeats, recovery and shutdown.
LEMMA LifecycleTypes ==
    ASSUME TypeOK, Lifecycle
    PROVE  TypeOK'
<1> PICK o \in Dispatchers :
        \/ RegisterRuntimeOwner(o)
        \/ HeartbeatRuntimeOwner(o)
        \/ RecoverAbandonedInitialReservations(o)
        \/ RecoverAbandonedLeases(o)
        \/ RecoverOwnedPendingAdmissions(o)
        \/ BeginShutdown(o)
        \/ FenceShutdown(o)
        \/ FinishShutdown(o)
        \/ Crash(o)
  BY DEF Lifecycle
<1>r. \A d \in Deliveries :
         /\ row[d] \in Rows
         /\ Cleared(row[d], "retry") \in Rows
         /\ RecoveredRow(d[1], row[d]) \in Rows
         /\ [Cleared(row[d], "retry") EXCEPT !.attempts = Refunded(row[d])] \in Rows
  BY RowTypes DEF TypeOK, Deliveries, Statuses, Open
<1>1. CASE RegisterRuntimeOwner(o)
  BY <1>1 DEF RegisterRuntimeOwner, TypeOK
<1>2. CASE HeartbeatRuntimeOwner(o)
  BY <1>2 DEF HeartbeatRuntimeOwner, TypeOK
<1>3. CASE RecoverAbandonedInitialReservations(o)
  BY <1>3, <1>r DEF RecoverAbandonedInitialReservations, TypeOK
<1>4. CASE RecoverAbandonedLeases(o)
  BY <1>4, <1>r DEF RecoverAbandonedLeases, TypeOK
<1>5. CASE RecoverOwnedPendingAdmissions(o)
  BY <1>5, <1>r DEF RecoverOwnedPendingAdmissions, TypeOK
<1>6. CASE BeginShutdown(o)
  BY <1>6 DEF BeginShutdown, TypeOK, db
<1>7. CASE FenceShutdown(o) \/ FinishShutdown(o)
  <2>1. lease' \in [Tokens -> Leases]
    BY <1>7, LeaseTypes DEF FenceShutdown, FinishShutdown
  <2>2. row' \in [Deliveries -> Rows]
    BY <1>7, <1>r DEF FenceShutdown, FinishShutdown, ReservationsReleased
  <2> QED
    BY <1>7, <2>1, <2>2 DEF FenceShutdown, FinishShutdown, TypeOK
<1>8. CASE Crash(o)
  <2>1. lease' \in [Tokens -> Leases]
    BY <1>8, LeaseTypes DEF Crash
  <2> QED
    BY <1>8, <2>1 DEF Crash, TypeOK, db
<1> QED
  BY <1>1, <1>2, <1>3, <1>4, <1>5, <1>6, <1>7, <1>8

\* Claims.
LEMMA ClaimingTypes ==
    ASSUME TypeOK, Claiming
    PROVE  TypeOK'
<1>1. ASSUME NEW x \in Holders, NEW d \in Deliveries, NEW t \in Tokens,
             ClaimDelivery(x, d, t)
      PROVE  TypeOK'
  <2>1. d[1] \in Consumers
    BY DEF Deliveries
  <2>2. ReadyRows(d[1]) \in [Deliveries -> Rows]
    BY <2>1, TableTypes
  <2>3. row' \in [Deliveries -> Rows]
    BY <1>1, <2>2, GrantTypes DEF ClaimDelivery
  <2>4. lease' \in [Tokens -> Leases]
    BY <1>1, LeaseTypes DEF ClaimDelivery, TypeOK, Phases
  <2> QED
    BY <1>1, <2>3, <2>4 DEF ClaimDelivery, TypeOK
<1>2. ASSUME NEW x \in Holders, NEW c \in Consumers, ClaimNothing(x, c)
      PROVE  TypeOK'
  <2>1. row' \in [Deliveries -> Rows]
    BY <1>2, TableTypes DEF ClaimNothing
  <2> QED
    BY <1>2, <2>1 DEF ClaimNothing, TypeOK
<1>3. ASSUME NEW x \in Holders, NEW t \in Tokens, NEW t2 \in Tokens,
             ClaimInitialDelivery(t, x, t2)
      PROVE  TypeOK'
  <2>1. lease[t].on \in Deliveries /\ row[lease[t].on] \in Rows
    BY <1>3, HeldLease DEF ClaimInitialDelivery
  <2>2. LeasedRow(row[lease[t].on], x, t2) \in Rows
    BY <2>1, GrantTypes
  <2>3. row' \in [Deliveries -> Rows]
    BY <1>3, <2>2 DEF ClaimInitialDelivery, TypeOK
  <2>4. Handed("claimed", x, lease[t].on) \in Leases /\ Free \in Leases
    BY <2>1, LeaseTypes DEF Phases, Leases
  <2>5. lease' \in [Tokens -> Leases]
    BY <1>3, <2>4 DEF ClaimInitialDelivery, TypeOK
  <2> QED
    BY <1>3, <2>3, <2>5 DEF ClaimInitialDelivery, TypeOK
<1> QED
  BY <1>1, <1>2, <1>3 DEF Claiming

\* Activation, execution and settlement of one token's lease.
LEMMA ExecutingTypes ==
    ASSUME TypeOK, Executing
    PROVE  TypeOK'
<1> PICK t \in Tokens :
        \/ ActivateInitialDelivery(t)
        \/ AbandonInitialReservation(t)
        \/ BeginExecution(t)
        \/ StartTurn(t)
        \/ ReleaseForHold(t)
        \/ ReleaseForHoldFails(t)
        \/ AckDelivery(t)
        \/ AckAndComplete(t)
        \/ \E outcome \in {"retry", "terminal", "ackable"}, due \in BOOLEAN :
              NackDelivery(t, outcome, due)
        \/ \E outcome \in {"retry", "ackable"} : ReleaseAfterTask(t, outcome)
        \/ SettlementUnknown(t)
        \/ RetainedReleaseFails(t)
        \/ TerminalizeFailedCognition(t)
        \/ InterruptedByShutdown(t)
        \/ ExecutorVanishes(t)
  BY DEF Executing
<1> DEFINE d == lease[t].on
<1>h. Held(t)
  BY DEF ActivateInitialDelivery, AbandonInitialReservation, BeginExecution,
     StartTurn, ReleaseForHold, ReleaseForHoldFails, AckDelivery, AckAndComplete,
     NackDelivery, ReleaseAfterTask, SettlementUnknown, RetainedReleaseFails,
     TerminalizeFailedCognition, InterruptedByShutdown, ExecutorVanishes, Begun
<1>d. d \in Deliveries /\ d[1] \in Consumers /\ row[d] \in Rows
      /\ lease[t].holder \in Holders
  BY <1>h, HeldLease
<1>r. /\ \A s \in Statuses : Cleared(row[d], s) \in Rows
      /\ HoldReturnedRow(d[1], row[d]) \in Rows
      /\ \A outcome \in {"retry", "terminal", "ackable"}, due \in BOOLEAN :
            NackedRow(d[1], row[d], outcome, due) \in Rows
  BY <1>d, RowTypes
<1>n. \A outcome \in {"retry", "ackable"} :
         NackedRow(d[1], row[d], outcome, TRUE) \in Rows
  BY <1>r
<1>s. \A s \in {"retry", "failed", "acknowledged", "leased"} : s \in Statuses
  BY DEF Statuses, Open, Terminal
<1>v. \A r \in Rows : [row EXCEPT ![d] = r] \in [Deliveries -> Rows]
  BY <1>d DEF TypeOK
<1>l. /\ Drop(t) => lease' \in [Tokens -> Leases]
      /\ \A p \in Phases : Enter(t, p) => lease' \in [Tokens -> Leases]
  BY <1>h, LeaseTypes
<1>1. CASE ActivateInitialDelivery(t)
  <2>1. [row[d] EXCEPT !.status = "leased", !.alive = TRUE] \in Rows
    BY <1>d, <1>s DEF Rows
  <2>2. row' \in [Deliveries -> Rows]
    <3>1. CASE UNCHANGED row
      BY <3>1 DEF TypeOK
    <3>2. CASE row' = [row EXCEPT ![d].status = "leased", ![d].alive = TRUE]
      BY <2>1, <3>2, <1>d DEF TypeOK
    <3> QED
      BY <1>1, <3>1, <3>2 DEF ActivateInitialDelivery
  <2>3. lease' \in [Tokens -> Leases]
    BY <1>1, <1>l DEF ActivateInitialDelivery, Phases
  <2>4. ownerRow' \in [Dispatchers -> {"none", "fresh", "stale", "stopped"}]
    BY <1>1 DEF ActivateInitialDelivery, TypeOK
  <2> QED
    BY <1>1, <2>2, <2>3, <2>4 DEF ActivateInitialDelivery, TypeOK
<1>2. CASE AbandonInitialReservation(t)
  <2>1. row' \in [Deliveries -> Rows]
    BY <1>2, <1>r, <1>s, <1>v DEF AbandonInitialReservation, TypeOK
  <2> QED
    BY <1>2, <1>l, <2>1 DEF AbandonInitialReservation, TypeOK
<1>3. CASE BeginExecution(t)
  <2>1. [row[d] EXCEPT !.unstarted = FALSE] \in Rows
    BY <1>d DEF Rows
  <2>2. row' \in [Deliveries -> Rows]
    BY <1>3, <1>v, <2>1 DEF BeginExecution, TypeOK
  <2>3. lease' \in [Tokens -> Leases]
    BY <1>3, <1>l DEF BeginExecution, Phases
  <2>4. turns' \in [Deliveries -> Int]
    BY <1>3, <1>d DEF BeginExecution, TypeOK
  <2> QED
    BY <1>3, <2>2, <2>3, <2>4 DEF BeginExecution, TypeOK
<1>4. CASE StartTurn(t)
  BY <1>4, <1>l DEF StartTurn, TypeOK, db, Phases
<1>5. CASE ReleaseForHold(t)
  <2>1. row' \in [Deliveries -> Rows]
    BY <1>5, <1>r, <1>v DEF ReleaseForHold, TypeOK
  <2>2. turns' \in [Deliveries -> Int]
    BY <1>5, <1>d DEF ReleaseForHold, TypeOK
  <2> QED
    BY <1>5, <1>l, <2>1, <2>2 DEF ReleaseForHold, TypeOK
<1>6. CASE ReleaseForHoldFails(t)
  BY <1>6, <1>l DEF ReleaseForHoldFails, TypeOK, db
<1>7. CASE AckDelivery(t)
  <2>1. row' \in [Deliveries -> Rows]
    BY <1>7, <1>r, <1>s, <1>v DEF AckDelivery, TypeOK
  <2> QED
    BY <1>7, <1>l, <2>1 DEF AckDelivery, TypeOK
<1>8. CASE AckAndComplete(t)
  <2> DEFINE acked == [row EXCEPT ![d] = Cleared(@, "acknowledged")]
  <2>1. acked \in [Deliveries -> Rows]
    BY <1>r, <1>s, <1>v
  <2>2. \A k \in Deliveries : Cleared(acked[k], "failed") \in Rows
    BY <1>d, <1>s, <2>1, RowTypes
  <2>3. row' = Terminalized(d[1], acked)
    BY <1>8 DEF AckAndComplete
  <2>4. row' \in [Deliveries -> Rows]
    <3> HIDE DEF acked
    <3> QED BY <2>1, <2>2, <2>3 DEF Terminalized
  <2>5. consumer' \in [Consumers -> {"none", "active", "inactive"}]
    BY <1>8 DEF AckAndComplete, TypeOK
  <2> QED
    BY <1>8, <1>l, <2>4, <2>5 DEF AckAndComplete, TypeOK
<1>9. CASE \E outcome \in {"retry", "terminal", "ackable"}, due \in BOOLEAN :
              NackDelivery(t, outcome, due)
  <2>1. row' \in [Deliveries -> Rows]
    BY <1>9, <1>r, <1>v DEF NackDelivery, TypeOK
  <2> QED
    BY <1>9, <1>l, <2>1 DEF NackDelivery, TypeOK
<1>10. CASE \E outcome \in {"retry", "ackable"} : ReleaseAfterTask(t, outcome)
  <2>1. row' \in [Deliveries -> Rows]
    BY <1>10, <1>n, <1>v DEF ReleaseAfterTask, TypeOK
  <2> QED
    BY <1>10, <1>l, <2>1 DEF ReleaseAfterTask, TypeOK
<1>11. CASE SettlementUnknown(t)
  <2>1. row' \in [Deliveries -> Rows]
    BY <1>11, <1>n, <1>r, <1>s, <1>v DEF SettlementUnknown, TypeOK
  <2>t. turns' = turns \/ turns' = [turns EXCEPT ![d] = @ - 1]
    BY <1>11 DEF SettlementUnknown
  <2>2. turns' \in [Deliveries -> Int]
    BY <2>t, <1>d DEF TypeOK
  <2>3. lease' \in [Tokens -> Leases]
    BY <1>11, <1>l DEF SettlementUnknown, Phases
  <2> QED
    BY <1>11, <2>1, <2>2, <2>3 DEF SettlementUnknown, TypeOK
<1>12. CASE TerminalizeFailedCognition(t)
  <2>1. row' \in [Deliveries -> Rows]
    BY <1>12, <1>r, <1>s, <1>v DEF TerminalizeFailedCognition, TypeOK
  <2> QED
    BY <1>12, <1>l, <2>1 DEF TerminalizeFailedCognition, TypeOK
<1>13. CASE InterruptedByShutdown(t)
  BY <1>13, <1>l DEF InterruptedByShutdown, TypeOK, db
<1>14. CASE ExecutorVanishes(t) \/ RetainedReleaseFails(t)
  BY <1>14, <1>l DEF ExecutorVanishes, RetainedReleaseFails, TypeOK, db
<1> QED
  BY <1>1, <1>2, <1>3, <1>4, <1>5, <1>6, <1>7, <1>8, <1>9, <1>10, <1>11, <1>12,
     <1>13, <1>14

\* The passing of time and the toggling of Hold.
LEMMA TimeTypes ==
    ASSUME TypeOK, Time
    PROVE  TypeOK'
<1>1. ASSUME NEW d \in Deliveries, LeaseExpires(d) \/ RetryBecomesDue(d)
      PROVE  TypeOK'
  <2>r. \A r \in Rows : [r EXCEPT !.alive = FALSE] \in Rows /\ [r EXCEPT !.due = TRUE] \in Rows
    BY DEF Rows
  <2>1. [row[d] EXCEPT !.alive = FALSE] \in Rows /\ [row[d] EXCEPT !.due = TRUE] \in Rows
    BY <2>r DEF TypeOK
  <2>2. row' \in [Deliveries -> Rows]
    BY <1>1, <2>1 DEF LeaseExpires, RetryBecomesDue, TypeOK
  <2> QED
    BY <1>1, <2>2 DEF LeaseExpires, RetryBecomesDue, TypeOK
<1>2. ASSUME NEW e \in Events, RetentionEnds(e)
      PROVE  TypeOK'
  BY <1>2 DEF RetentionEnds, TypeOK
<1>3. ASSUME NEW o \in Dispatchers, HeartbeatGoesStale(o)
      PROVE  TypeOK'
  <2>1. \A t \in HeldBy(o) : [lease[t] EXCEPT !.lapsed = TRUE] \in Leases
    BY HeldLease DEF HeldBy, Leases
  <2>2. lease' \in [Tokens -> Leases]
    BY <1>3, <2>1 DEF HeartbeatGoesStale, TypeOK
  <2> QED
    BY <1>3, <2>2 DEF HeartbeatGoesStale, TypeOK
<1>4. CASE ToggleHold
  BY <1>4, Zenon DEF ToggleHold, TypeOK, db
<1> QED
  BY <1>1, <1>2, <1>3, <1>4 DEF Time

\* Every reachable state of the ledger and its processes is well typed; in
\* particular no refund takes attempts below zero.
THEOREM TypeCorrect == Spec => []TypeOK
<1>1. Init => TypeOK
  <2> SUFFICES ASSUME Init PROVE TypeOK
    OBVIOUS
  <2>1. row \in [Deliveries -> Rows]
    BY GrantTypes DEF Init
  <2>2. lease \in [Tokens -> Leases]
    BY DEF Init, Leases
  <2>3. hold \in BOOLEAN
    BY Zenon DEF Init
  <2> QED
    BY <2>1, <2>2, <2>3 DEF Init, TypeOK
<1>2. TypeOK /\ [Next]_vars => TypeOK'
  <2> SUFFICES ASSUME TypeOK, [Next]_vars PROVE TypeOK'
    OBVIOUS
  <2>1. CASE UNCHANGED vars
    BY <2>1 DEF vars, TypeOK
  <2> QED
    BY <2>1, IngressTypes, LifecycleTypes, ClaimingTypes, ExecutingTypes, TimeTypes
       DEF Next
<1> QED
  BY <1>1, <1>2, PTL DEF Spec

-----------------------------------------------------------------------------
(* Life of a delivery row.                                                 *)

\* What any step may do to one row: keep it; move an open row; open an absent
\* one for an active consumer; or purge a settled one with its event.
RowStep(d) ==
    \/ row'[d] = row[d]
    \/ row[d].status \in Open /\ row'[d].status \in Open \union Terminal
    \/ /\ row[d].status = "absent" /\ row'[d].status \in Open
       /\ consumer'[d[1]] = "active" /\ event'[d[2]] # "new"
    \/ Settled(d) /\ row'[d] = AbsentRow /\ event'[d[2]] = "purged"

NewIsAbsent ==
    \A d \in Deliveries : event[d[2]] = "new" => row[d].status = "absent"

\* A step that neither registers a consumer nor commits an event.
QuietStep ==
    /\ \A c \in Consumers :
          /\ consumer'[c] = "active" => consumer[c] = "active"
          /\ consumer[c] = "inactive" => consumer'[c] = "inactive"
    /\ \A e \in Events :
          /\ event'[e] = "new" => event[e] = "new"
          /\ event'[e] \in {"retained", "ended"} => event[e] \in {"retained", "ended"}
          /\ event'[e] = "retained" => event[e] = "retained"
    /\ earlier' = earlier

\* The status each row transition leaves (nack_delivery, the releases and the
\* recoveries never reopen or drop a row).
LEMMA RowStatuses ==
    ASSUME NEW r \in Rows, NEW c
    PROVE  /\ \A s : Cleared(r, s).status = s
           /\ \A x, t : LeasedRow(r, x, t).status = "leased"
           /\ RecoveredRow(c, r).status \in {"failed", "retry"}
           /\ HoldReturnedRow(c, r).status = "retry"
           /\ [Cleared(r, "retry") EXCEPT !.attempts = Refunded(r)].status = "retry"
           /\ \A outcome \in {"retry", "terminal", "ackable"} : \A due :
                 NackedRow(c, r, outcome, due).status
                     \in {"failed", "retry", "terminal_ackable"}
           /\ PendingRow.status = "pending"
           /\ \A x, t : ReservedRow(x, t).status = "initial_reserved"
           /\ AbsentRow.status = "absent"
<1>1. \A s : Cleared(r, s).status = s
  BY DEF Cleared, Rows
<1>2. \A x, t : LeasedRow(r, x, t).status = "leased"
  BY DEF LeasedRow, Rows
<1>3. RecoveredRow(c, r).status \in {"failed", "retry"}
  BY DEF RecoveredRow, Cleared, Rows
<1>4. HoldReturnedRow(c, r).status = "retry"
  BY DEF HoldReturnedRow, Cleared, Rows
<1>5. [Cleared(r, "retry") EXCEPT !.attempts = Refunded(r)].status = "retry"
  BY DEF Cleared, Rows
<1>6. ASSUME NEW outcome \in {"retry", "terminal", "ackable"}, NEW due
      PROVE  NackedRow(c, r, outcome, due).status
                 \in {"failed", "retry", "terminal_ackable"}
  BY <1>1 DEF NackedRow, Cleared, Rows
<1>7. PendingRow.status = "pending" /\ AbsentRow.status = "absent"
      /\ \A x, t : ReservedRow(x, t).status = "initial_reserved"
  BY DEF PendingRow, ReservedRow, AbsentRow
<1> QED
  BY <1>1, <1>2, <1>3, <1>4, <1>5, <1>6, <1>7

\* A claim's recovery and backfill obey RowStep.
LEMMA ReadyRowStep ==
    ASSUME TypeOK, NEW c \in Consumers, NEW d \in Deliveries
    PROVE  /\ ReadyRows(c)[d] \in Rows
           /\ \/ ReadyRows(c)[d] = row[d]
              \/ /\ row[d].status \in Open
                 /\ ReadyRows(c)[d].status \in Open \union Terminal
              \/ /\ row[d].status = "absent" /\ ReadyRows(c)[d].status = "pending"
                 /\ d[1] = c /\ event[d[2]] = "retained"
<1>1. row[d] \in Rows /\ d[1] \in Consumers
  BY DEF TypeOK, Deliveries
<1>2. ReadyRows(c)[d] \in Rows
  BY TableTypes
<1>3. \/ ExpiredRecovered(c)[d] = row[d]
      \/ /\ row[d].status = "leased"
         /\ ExpiredRecovered(c)[d].status \in {"failed", "retry"}
  BY <1>1, RowStatuses DEF ExpiredRecovered
<1>4. \/ ReadyRows(c)[d] = ExpiredRecovered(c)[d]
      \/ /\ ExpiredRecovered(c)[d].status = "absent"
         /\ ReadyRows(c)[d].status = "pending"
         /\ d[1] = c /\ event[d[2]] = "retained"
  BY <1>1, RowStatuses DEF ReadyRows, Backfilled
<1> QED
  BY <1>2, <1>3, <1>4 DEF Open, Terminal

\* Registration, deactivation, commit and purge obey RowStep.
LEMMA IngressRowStep ==
    ASSUME TypeOK, NewIsAbsent, Registry \/ Ingress
    PROVE  \A d \in Deliveries : RowStep(d)
<1> USE ConstantsAssumption
<1> SUFFICES ASSUME NEW d \in Deliveries PROVE RowStep(d)
  OBVIOUS
<1>t. d[1] \in Consumers /\ d[2] \in Events /\ row[d] \in Rows
  BY DEF Deliveries, TypeOK
<1>s. /\ PendingRow.status = "pending" /\ AbsentRow.status = "absent"
      /\ \A x, t : ReservedRow(x, t).status = "initial_reserved"
      /\ \A s : Cleared(row[d], s).status = s
  BY <1>t, RowStatuses
<1>1. ASSUME NEW c \in Consumers, RegisterConsumer(c)
      PROVE  RowStep(d)
  <2>1. \/ row'[d] = row[d]
        \/ /\ row[d].status = "absent" /\ row'[d] = PendingRow
           /\ d[1] = c /\ event[d[2]] = "retained"
    BY <1>1 DEF RegisterConsumer, Backfilled
  <2>2. consumer'[c] = "active" /\ event' = event
    BY <1>1 DEF RegisterConsumer, TypeOK
  <2> QED
    BY <2>1, <2>2, <1>s DEF RowStep, Open
<1>2. ASSUME NEW c \in Consumers, DeactivateConsumer(c)
      PROVE  RowStep(d)
  <2>1. \/ row'[d] = row[d]
        \/ row[d].status \in Open /\ row'[d] = Cleared(row[d], "failed")
    BY <1>2 DEF DeactivateConsumer, Terminalized
  <2> QED
    BY <2>1, <1>s DEF RowStep, Terminal
<1>3. ASSUME NEW e \in Events, PurgeExpired(e)
      PROVE  RowStep(d)
  <2>1. CASE d[2] = e
    <3>1. d = <<d[1], e>>
      BY <2>1 DEF Deliveries
    <3>2. Settled(d)
      BY <1>3, <1>t, <3>1 DEF PurgeExpired, Settled
    <3> QED
      BY <1>3, <2>1, <3>2 DEF PurgeExpired, RowStep, TypeOK
  <2>2. CASE d[2] # e
    BY <1>3, <2>2 DEF PurgeExpired, RowStep
  <2> QED
    BY <2>1, <2>2
<1>4. ASSUME NEW o \in Dispatchers, NEW e \in Events, PersistSignal(o, e)
      PROVE  RowStep(d)
  <2>1. \/ row'[d] = row[d]
        \/ /\ row'[d] = PendingRow /\ event[d[2]] = "new"
           /\ consumer[d[1]] = "active" /\ event'[d[2]] = "retained"
    BY <1>4 DEF PersistSignal, Subscribers, TypeOK
  <2> QED
    BY <1>4, <2>1, <1>s DEF RowStep, Open, NewIsAbsent, PersistSignal
<1>5. ASSUME NEW o \in Dispatchers, NEW e \in Events,
             NEW f \in Injection(Subscribers(e), Tokens), PersistReserved(o, e, f)
      PROVE  RowStep(d)
  <2>1. \/ row'[d] = row[d]
        \/ /\ row'[d] = ReservedRow(o, f[d[1]]) /\ event[d[2]] = "new"
           /\ consumer[d[1]] = "active" /\ event'[d[2]] = "retained"
    BY <1>5 DEF PersistReserved, Subscribers, TypeOK
  <2> QED
    BY <1>5, <2>1, <1>s DEF RowStep, Open, NewIsAbsent, PersistReserved
<1> QED
  BY <1>1, <1>2, <1>3, <1>4, <1>5 DEF Registry, Ingress

\* Every other step moves open rows only, or opens one by a claim's backfill.
LEMMA WorkRowStep ==
    ASSUME TypeOK, Lifecycle \/ Claiming \/ Executing \/ Time
    PROVE  \A d \in Deliveries : RowStep(d)
<1> SUFFICES ASSUME NEW d \in Deliveries PROVE RowStep(d)
  OBVIOUS
<1>t. d[1] \in Consumers /\ d[2] \in Events /\ row[d] \in Rows
  BY DEF Deliveries, TypeOK
<1>s. /\ \A s : Cleared(row[d], s).status = s
      /\ \A x, t : LeasedRow(row[d], x, t).status = "leased"
      /\ RecoveredRow(d[1], row[d]).status \in {"failed", "retry"}
      /\ HoldReturnedRow(d[1], row[d]).status = "retry"
      /\ [Cleared(row[d], "retry") EXCEPT !.attempts = Refunded(row[d])].status = "retry"
      /\ \A outcome \in {"retry", "terminal", "ackable"} : \A due :
            NackedRow(d[1], row[d], outcome, due).status
                \in {"failed", "retry", "terminal_ackable"}
  BY <1>t, RowStatuses
<1>n. \A outcome \in {"retry", "ackable"} :
         NackedRow(d[1], row[d], outcome, TRUE).status
             \in {"failed", "retry", "terminal_ackable"}
  BY <1>s
<1> DEFINE Moves == row[d].status \in Open /\ row'[d].status \in Open \union Terminal
<1>m. row'[d] = row[d] \/ Moves => RowStep(d)
  BY DEF RowStep
<1>1. CASE Lifecycle
  <2> PICK o \in Dispatchers :
        \/ RegisterRuntimeOwner(o)
        \/ HeartbeatRuntimeOwner(o)
        \/ RecoverAbandonedInitialReservations(o)
        \/ RecoverAbandonedLeases(o)
        \/ RecoverOwnedPendingAdmissions(o)
        \/ BeginShutdown(o)
        \/ FenceShutdown(o)
        \/ FinishShutdown(o)
        \/ Crash(o)
    BY <1>1 DEF Lifecycle
  <2>1. CASE RegisterRuntimeOwner(o) \/ HeartbeatRuntimeOwner(o)
             \/ BeginShutdown(o) \/ Crash(o)
    BY <2>1, <1>m
       DEF RegisterRuntimeOwner, HeartbeatRuntimeOwner, BeginShutdown, Crash, db
  <2>2. CASE \/ RecoverAbandonedInitialReservations(o)
             \/ FenceShutdown(o) \/ FinishShutdown(o)
    <3>1. \/ row'[d] = row[d]
          \/ row[d].status = "initial_reserved" /\ row'[d] = Cleared(row[d], "retry")
      BY <2>2 DEF RecoverAbandonedInitialReservations, FenceShutdown, FinishShutdown,
         ReservationsReleased
    <3> QED
      BY <3>1, <1>s, <1>m DEF Open
  <2>3. CASE RecoverAbandonedLeases(o)
    <3>1. \/ row'[d] = row[d]
          \/ row[d].status = "leased" /\ row'[d] = RecoveredRow(d[1], row[d])
      BY <2>3 DEF RecoverAbandonedLeases
    <3> QED
      BY <3>1, <1>s, <1>m DEF Open, Terminal
  <2>4. CASE RecoverOwnedPendingAdmissions(o)
    <3>1. \/ row'[d] = row[d]
          \/ /\ row[d].status = "leased"
             /\ row'[d] = [Cleared(row[d], "retry") EXCEPT !.attempts = Refunded(row[d])]
      BY <2>4 DEF RecoverOwnedPendingAdmissions
    <3> QED
      BY <3>1, <1>s, <1>m DEF Open
  <2> QED
    BY <2>1, <2>2, <2>3, <2>4
<1>2. CASE Claiming
  <2>1. ASSUME NEW x \in Holders, NEW k \in Deliveries, NEW t \in Tokens,
               ClaimDelivery(x, k, t)
        PROVE  RowStep(d)
    <3>1. k[1] \in Consumers
      BY DEF Deliveries
    <3>2. /\ consumer' = consumer /\ event' = event
          /\ consumer[k[1]] = "active"
          /\ row' = [ReadyRows(k[1]) EXCEPT ![k] = LeasedRow(@, x, t)]
          /\ ReadyRows(k[1])[k].status \in {"pending", "retry"}
      BY <2>1 DEF ClaimDelivery, MayClaim, Claimable
    <3>3. ReadyRows(k[1]) \in [Deliveries -> Rows]
      BY <3>1, TableTypes
    <3>4. CASE d # k
      <4>1. row'[d] = ReadyRows(k[1])[d]
        BY <3>2, <3>3, <3>4
      <4> QED
        BY <4>1, <3>1, <3>2, ReadyRowStep DEF RowStep, Open
    <3>5. CASE d = k
      <4>1. row'[d].status = "leased"
        BY <3>2, <3>3, <3>5, RowStatuses
      <4> QED
        BY <4>1, <3>1, <3>2, <3>5, ReadyRowStep DEF RowStep, Open, Terminal
    <3> QED
      BY <3>4, <3>5
  <2>2. ASSUME NEW x \in Holders, NEW c \in Consumers, ClaimNothing(x, c)
        PROVE  RowStep(d)
    <3>1. /\ consumer' = consumer /\ event' = event /\ consumer[c] = "active"
          /\ row'[d] = ReadyRows(c)[d]
      BY <2>2 DEF ClaimNothing, MayClaim
    <3> QED
      BY <3>1, ReadyRowStep DEF RowStep, Open
  <2>3. ASSUME NEW x \in Holders, NEW t \in Tokens, NEW t2 \in Tokens,
               ClaimInitialDelivery(t, x, t2)
        PROVE  RowStep(d)
    <3>1. row'[d] = row[d] \/ Moves
      BY <2>3, <1>s DEF ClaimInitialDelivery, OwnsAlive, Owns, Open, TypeOK
    <3> QED
      BY <3>1, <1>m
  <2> QED
    BY <1>2, <2>1, <2>2, <2>3 DEF Claiming
<1>3. CASE Executing
  <2> PICK t \in Tokens :
        \/ ActivateInitialDelivery(t)
        \/ AbandonInitialReservation(t)
        \/ BeginExecution(t)
        \/ StartTurn(t)
        \/ ReleaseForHold(t)
        \/ ReleaseForHoldFails(t)
        \/ AckDelivery(t)
        \/ AckAndComplete(t)
        \/ \E outcome \in {"retry", "terminal", "ackable"}, due \in BOOLEAN :
              NackDelivery(t, outcome, due)
        \/ \E outcome \in {"retry", "ackable"} : ReleaseAfterTask(t, outcome)
        \/ SettlementUnknown(t)
        \/ RetainedReleaseFails(t)
        \/ TerminalizeFailedCognition(t)
        \/ InterruptedByShutdown(t)
        \/ ExecutorVanishes(t)
    BY <1>3 DEF Executing
  <2>1. CASE ActivateInitialDelivery(t)
    <3>1. \/ row' = row
          \/ /\ row' = [row EXCEPT ![lease[t].on].status = "leased",
                                   ![lease[t].on].alive = TRUE]
             /\ row[lease[t].on].status = "initial_reserved"
      BY <2>1 DEF ActivateInitialDelivery
    <3>2. row'[d] = row[d] \/ Moves
      BY <3>1, <1>t DEF TypeOK, Open, Rows
    <3> QED
      BY <3>2, <1>m
  <2>2. CASE AbandonInitialReservation(t)
    <3>1. row'[d] = row[d] \/ Moves
      BY <2>2, <1>s DEF AbandonInitialReservation, TypeOK, Open
    <3> QED
      BY <3>1, <1>m
  <2>3. CASE BeginExecution(t)
    <3>1. \/ row' = row
          \/ /\ row' = [row EXCEPT ![lease[t].on].unstarted = FALSE]
             /\ row[lease[t].on].status = "leased"
      BY <2>3 DEF BeginExecution, Owns
    <3>2. row'[d] = row[d] \/ Moves
      BY <3>1, <1>t DEF TypeOK, Open, Rows
    <3> QED
      BY <3>2, <1>m
  <2>4. CASE ReleaseForHold(t)
    <3>1. row'[d] = row[d] \/ Moves
      BY <2>4, <1>s DEF ReleaseForHold, Owns, TypeOK, Open
    <3> QED
      BY <3>1, <1>m
  <2>5. CASE AckDelivery(t)
    <3>1. row'[d] = row[d] \/ Moves
      BY <2>5, <1>s DEF AckDelivery, OwnsAlive, Owns, TypeOK, Open, Terminal
    <3> QED
      BY <3>1, <1>m
  <2>6. CASE AckAndComplete(t)
    <3> DEFINE k == lease[t].on
               acked == [row EXCEPT ![k] = Cleared(@, "acknowledged")]
    <3>1. row[k].status = "leased" /\ row' = Terminalized(k[1], acked)
      BY <2>6 DEF AckAndComplete, OwnsAlive, Owns
    <3>2. CASE d = k
      <4>1. acked[d] = Cleared(row[d], "acknowledged")
        BY <3>2 DEF TypeOK
      <4>2. acked[d].status = "acknowledged"
        BY <4>1, <1>s
      <4>3. row'[d] = acked[d]
        BY <3>1, <4>2 DEF Terminalized, Open
      <4>4. Moves
        BY <3>1, <3>2, <4>2, <4>3 DEF Open, Terminal
      <4> QED
        BY <4>4, <1>m
    <3>3. CASE d # k
      <4>1. acked[d] = row[d]
        BY <3>3 DEF TypeOK
      <4>2. \/ row'[d] = row[d]
            \/ row[d].status \in Open /\ row'[d] = Cleared(row[d], "failed")
        BY <3>1, <4>1 DEF Terminalized
      <4> QED
        BY <4>2, <1>s, <1>m DEF Terminal
    <3> QED
      BY <3>2, <3>3
  <2>7. CASE \E outcome \in {"retry", "terminal", "ackable"}, due \in BOOLEAN :
                NackDelivery(t, outcome, due)
    <3>1. row'[d] = row[d] \/ Moves
      BY <2>7, <1>s DEF NackDelivery, OwnsAlive, Owns, TypeOK, Open, Terminal
    <3> QED
      BY <3>1, <1>m
  <2>8. CASE \/ \E outcome \in {"retry", "ackable"} : ReleaseAfterTask(t, outcome)
             \/ SettlementUnknown(t)
    <3> DEFINE k == lease[t].on
    <3>1. \/ row' = row
          \/ /\ row[k].status = "leased"
             /\ \E r : /\ row' = [row EXCEPT ![k] = r]
                       /\ \/ \E outcome \in {"retry", "ackable"} :
                                r = NackedRow(k[1], row[k], outcome, TRUE)
                          \/ r = Cleared(row[k], "acknowledged")
                          \/ r = HoldReturnedRow(k[1], row[k])
      BY <2>8 DEF ReleaseAfterTask, SettlementUnknown, OwnsAlive, Owns
    <3>2. row'[d] = row[d] \/ Moves
      <4>1. CASE row' = row
        BY <4>1
      <4>2. CASE row' # row
        <5> PICK r : /\ row' = [row EXCEPT ![k] = r]
                     /\ \/ \E outcome \in {"retry", "ackable"} :
                              r = NackedRow(k[1], row[k], outcome, TRUE)
                        \/ r = Cleared(row[k], "acknowledged")
                        \/ r = HoldReturnedRow(k[1], row[k])
          BY <3>1, <4>2
        <5>1. CASE d = k
          <6>1. row'[d] = r
            BY <5>1 DEF TypeOK
          <6>2. r.status \in {"failed", "retry", "terminal_ackable", "acknowledged"}
            <7> HIDE DEF k
            <7>1. CASE \E outcome \in {"retry", "ackable"} :
                          r = NackedRow(d[1], row[d], outcome, TRUE)
              BY <7>1, <1>n
            <7>2. CASE r = Cleared(row[d], "acknowledged")
              BY <7>2, <1>s
            <7>3. CASE r = HoldReturnedRow(d[1], row[d])
              BY <7>3, <1>s
            <7> QED
              BY <5>1, <7>1, <7>2, <7>3
          <6>3. row[d].status = "leased"
            BY <3>1, <4>2, <5>1
          <6> QED
            BY <6>1, <6>2, <6>3 DEF Open, Terminal
        <5>2. CASE d # k
          BY <5>2 DEF TypeOK
        <5> QED
          BY <5>1, <5>2
      <4> QED
        BY <4>1, <4>2
    <3> QED
      BY <3>2, <1>m
  <2>9. CASE TerminalizeFailedCognition(t)
    <3>1. row'[d] = row[d] \/ Moves
      BY <2>9, <1>s DEF TerminalizeFailedCognition, TypeOK, Open, Terminal
    <3> QED
      BY <3>1, <1>m
  <2>10. CASE StartTurn(t) \/ ReleaseForHoldFails(t) \/ InterruptedByShutdown(t)
              \/ ExecutorVanishes(t) \/ RetainedReleaseFails(t)
    BY <2>10, <1>m DEF StartTurn, ReleaseForHoldFails, InterruptedByShutdown,
       ExecutorVanishes, RetainedReleaseFails, db
  <2> QED
    BY <2>1, <2>2, <2>3, <2>4, <2>5, <2>6, <2>7, <2>8, <2>9, <2>10
<1>4. CASE Time
  <2>1. ASSUME NEW k \in Deliveries, LeaseExpires(k) \/ RetryBecomesDue(k)
        PROVE  row'[d] = row[d] \/ Moves
    <3>1. /\ row[k].status \in {"leased", "retry"}
          /\ \/ row' = [row EXCEPT ![k].alive = FALSE]
             \/ row' = [row EXCEPT ![k].due = TRUE]
      BY <2>1 DEF LeaseExpires, RetryBecomesDue
    <3> QED
      BY <3>1, <1>t DEF TypeOK, Open, Rows
  <2>2. CASE row' = row
    BY <2>2, <1>m
  <2> QED
    BY <1>4, <1>m, <2>1, <2>2
       DEF Time, RetentionEnds, HeartbeatGoesStale, ToggleHold, db
<1> QED
  BY <1>1, <1>2, <1>3, <1>4

\* What a step does to the registry and the events.
LEMMA StepKinds ==
    ASSUME TypeOK, Next
    PROVE  \/ QuietStep
           \/ \E c \in Consumers : RegisterConsumer(c)
           \/ \E o \in Dispatchers, e \in Events :
                 \/ PersistSignal(o, e)
                 \/ \E f \in Injection(Subscribers(e), Tokens) : PersistReserved(o, e, f)
<1>1. CASE Registry
  BY <1>1 DEF Registry, DeactivateConsumer, QuietStep, TypeOK
<1>2. CASE Ingress
  BY <1>2 DEF Ingress, PurgeExpired, QuietStep, TypeOK
<1>3. CASE Lifecycle
  BY <1>3 DEF Lifecycle, RegisterRuntimeOwner, HeartbeatRuntimeOwner,
     RecoverAbandonedInitialReservations, RecoverAbandonedLeases,
     RecoverOwnedPendingAdmissions, BeginShutdown, FenceShutdown, FinishShutdown, Crash, db,
     QuietStep
<1>4. CASE Claiming
  BY <1>4 DEF Claiming, ClaimDelivery, ClaimNothing, ClaimInitialDelivery, QuietStep
<1>5. CASE Executing
  <2>1. CASE \E t \in Tokens : AckAndComplete(t)
    <3> PICK t \in Tokens : AckAndComplete(t)
      BY <2>1
    <3>1. /\ consumer' = [consumer EXCEPT ![lease[t].on[1]] = "inactive"]
          /\ event' = event /\ earlier' = earlier
      BY DEF AckAndComplete
    <3> QED
      BY <3>1 DEF QuietStep, TypeOK
  <2>2. CASE ~\E t \in Tokens : AckAndComplete(t)
    <3>1. consumer' = consumer /\ event' = event /\ earlier' = earlier
      BY <1>5, <2>2 DEF Executing, ActivateInitialDelivery, AbandonInitialReservation,
         BeginExecution, StartTurn, ReleaseForHold, ReleaseForHoldFails, AckDelivery,
         NackDelivery, ReleaseAfterTask, SettlementUnknown, RetainedReleaseFails,
         TerminalizeFailedCognition, InterruptedByShutdown, ExecutorVanishes, db
    <3> QED
      BY <3>1 DEF QuietStep
  <2> QED
    BY <2>1, <2>2
<1>6. CASE Time
  BY <1>6 DEF Time, LeaseExpires, RetryBecomesDue, RetentionEnds,
     HeartbeatGoesStale, ToggleHold, db, QuietStep, TypeOK
<1> QED
  BY <1>1, <1>2, <1>3, <1>4, <1>5, <1>6 DEF Next

\* A consumer leaves the registry drained (deactivate_consumer, ack_delivery
\* with complete_consumer).
LEMMA DeactivationDrains ==
    ASSUME TypeOK, Next, NEW d \in Deliveries,
           consumer'[d[1]] = "inactive", consumer[d[1]] # "inactive"
    PROVE  Settled(d)'
<1>t. d[1] \in Consumers /\ row[d] \in Rows
  BY DEF TypeOK, Deliveries
<1>s. \A r \in Rows, s \in Terminal : Cleared(r, s).status \notin Open
  BY RowStatuses DEF Open, Terminal
<1>1. ASSUME NEW c \in Consumers, NEW rows \in [Deliveries -> Rows], d[1] = c
      PROVE  Terminalized(c, rows)[d].status \notin Open
  <2>1. rows[d] \in Rows
    OBVIOUS
  <2> QED
    BY <1>1, <1>s, <2>1 DEF Terminalized, Terminal
<1>2. ASSUME NEW c \in Consumers, DeactivateConsumer(c)
      PROVE  Settled(d)'
  <2>1. d[1] = c
    BY <1>2, <1>t DEF DeactivateConsumer, TypeOK
  <2>2. row \in [Deliveries -> Rows] /\ row' = Terminalized(c, row)
    BY <1>2 DEF DeactivateConsumer, TypeOK
  <2> QED
    BY <1>1, <2>1, <2>2 DEF Settled
<1>3. ASSUME NEW t \in Tokens, AckAndComplete(t)
      PROVE  Settled(d)'
  <2> DEFINE k == lease[t].on
             acked == [row EXCEPT ![k] = Cleared(@, "acknowledged")]
  <2>1. /\ consumer' = [consumer EXCEPT ![k[1]] = "inactive"]
        /\ row' = Terminalized(k[1], acked)
    BY <1>3 DEF AckAndComplete
  <2>2. k \in Deliveries /\ k[1] \in Consumers /\ row[k] \in Rows
    BY <1>3, HeldLease DEF AckAndComplete
  <2>3. d[1] = k[1]
    BY <2>1, <1>t DEF TypeOK
  <2>4. Cleared(row[k], "acknowledged") \in Rows
    BY <2>2, RowTypes DEF Statuses, Terminal
  <2>5. acked \in [Deliveries -> Rows]
    BY <2>4 DEF TypeOK
  <2> QED
    BY <1>1, <2>1, <2>2, <2>3, <2>5 DEF Settled
<1>4. CASE consumer'[d[1]] = consumer[d[1]]
  BY <1>4
<1>5. ASSUME NEW c \in Consumers, RegisterConsumer(c)
      PROVE  consumer'[d[1]] # "inactive"
  BY <1>5, <1>t DEF RegisterConsumer, TypeOK
<1>6. \/ \E c \in Consumers : RegisterConsumer(c) \/ DeactivateConsumer(c)
      \/ \E t \in Tokens : AckAndComplete(t)
      \/ consumer' = consumer
  <2>1. CASE Registry
    BY <2>1 DEF Registry
  <2>2. CASE Ingress
    BY <2>2 DEF Ingress, PurgeExpired, PersistSignal, PersistReserved
  <2>3. CASE Lifecycle
    BY <2>3 DEF Lifecycle, RegisterRuntimeOwner, HeartbeatRuntimeOwner,
       RecoverAbandonedInitialReservations, RecoverAbandonedLeases,
       RecoverOwnedPendingAdmissions, BeginShutdown, FenceShutdown, FinishShutdown, Crash, db
  <2>4. CASE Claiming
    BY <2>4 DEF Claiming, ClaimDelivery, ClaimNothing, ClaimInitialDelivery
  <2>5. CASE Executing
    BY <2>5 DEF Executing, ActivateInitialDelivery, AbandonInitialReservation,
       BeginExecution, StartTurn, ReleaseForHold, ReleaseForHoldFails, AckDelivery,
       NackDelivery, ReleaseAfterTask, SettlementUnknown, RetainedReleaseFails,
       TerminalizeFailedCognition, InterruptedByShutdown, ExecutorVanishes, db
  <2>6. CASE Time
    BY <2>6 DEF Time, LeaseExpires, RetryBecomesDue, RetentionEnds,
       HeartbeatGoesStale, ToggleHold, db
  <2> QED
    BY <2>1, <2>2, <2>3, <2>4, <2>5, <2>6 DEF Next
<1> QED
  BY <1>2, <1>3, <1>4, <1>5, <1>6

\* The invariants that follow from the life of a row, with the auxiliary one.
LifeInv == NewIsAbsent /\ InactiveConsumerIsDrained /\ NoLostDelivery

\* The inductive step: every operation, crash and passing of time keeps LifeInv.
LEMMA LifeInvInductive ==
    ASSUME TypeOK, LifeInv, Next
    PROVE  LifeInv'
<1> USE ConstantsAssumption DEF LifeInv
<1>r. \A d \in Deliveries : RowStep(d)
  BY IngressRowStep, WorkRowStep DEF Next
<1>d. \A d \in Deliveries : d[1] \in Consumers /\ d[2] \in Events /\ d = <<d[1], d[2]>>
  BY DEF Deliveries
<1>e. \A e \in Events : event'[e] = "new" => event[e] = "new"
  <2>1. CASE QuietStep
    BY <2>1 DEF QuietStep
  <2>2. CASE ~QuietStep
    BY <2>2, StepKinds DEF RegisterConsumer, PersistSignal, PersistReserved, TypeOK
  <2> QED
    BY <2>1, <2>2
<1>a. AbsentRow.status = "absent"
  BY DEF AbsentRow
<1>1. NewIsAbsent'
  <2> SUFFICES ASSUME NEW d \in Deliveries, event'[d[2]] = "new"
               PROVE  row'[d].status = "absent"
    BY DEF NewIsAbsent
  <2>1. row[d].status = "absent"
    BY <1>d, <1>e DEF NewIsAbsent
  <2> QED
    BY <2>1, <1>r DEF RowStep, Open
<1>2. InactiveConsumerIsDrained'
  <2> SUFFICES ASSUME NEW d \in Deliveries, consumer'[d[1]] = "inactive"
               PROVE  Settled(d)'
    BY DEF InactiveConsumerIsDrained
  <2>1. CASE consumer[d[1]] # "inactive"
    BY <2>1, DeactivationDrains
  <2>2. CASE consumer[d[1]] = "inactive"
    <3>1. row[d].status \notin Open
      BY <2>2 DEF InactiveConsumerIsDrained, Settled
    <3> QED
      BY <3>1, <1>r, <1>a DEF RowStep, Settled, Open
  <2> QED
    BY <2>1, <2>2
<1>3. NoLostDelivery'
  <2> SUFFICES ASSUME NEW c \in Consumers, NEW e \in Events,
                      consumer'[c] = "active", e \in Selects[c],
                      \/ event'[e] \in {"retained", "ended"} /\ e \notin earlier'[c]
                      \/ event'[e] = "retained" /\ c \in Replaying
               PROVE  row'[<<c, e>>].status # "absent"
    BY DEF NoLostDelivery
  <2> DEFINE d == <<c, e>>
  <2>d. d \in Deliveries /\ d[1] = c /\ d[2] = e /\ event'[e] # "purged"
    BY DEF Deliveries
  <2>1. CASE row[d].status # "absent"
    <3>1. RowStep(d)
      BY <1>r, <2>d
    <3> QED
      BY <2>1, <2>d, <3>1 DEF RowStep, Open, Terminal
  <2>2. CASE row[d].status = "absent"
    <3>1. CASE QuietStep
      BY <3>1, <2>2 DEF QuietStep, NoLostDelivery
    <3>2. ASSUME NEW c2 \in Consumers, RegisterConsumer(c2)
          PROVE  row'[d].status # "absent"
      <4>1. CASE c2 = c
        <5>1. event' = event /\ earlier'[c] = {f \in Events : event[f] # "new"}
          BY <3>2, <4>1 DEF RegisterConsumer, TypeOK
        <5>2. event[e] = "retained" /\ c \in Replaying
          BY <5>1
        <5>3. row'[d] = PendingRow
          BY <3>2, <4>1, <5>2, <2>2, <2>d DEF RegisterConsumer, Backfilled
        <5> QED
          BY <5>3 DEF PendingRow, AbsentRow
      <4>2. CASE c2 # c
        <5>1. event' = event /\ consumer[c] = "active" /\ earlier'[c] = earlier[c]
          BY <3>2, <4>2 DEF RegisterConsumer, TypeOK
        <5> QED
          BY <5>1, <2>2 DEF NoLostDelivery
      <4> QED
        BY <4>1, <4>2
    <3>3. ASSUME NEW o \in Dispatchers, NEW e2 \in Events,
                 \/ PersistSignal(o, e2)
                 \/ \E f \in Injection(Subscribers(e2), Tokens) : PersistReserved(o, e2, f)
          PROVE  row'[d].status # "absent"
      <4>1. consumer' = consumer /\ earlier' = earlier
        BY <3>3 DEF PersistSignal, PersistReserved
      <4>2. CASE e2 = e
        <5>1. c \in Subscribers(e)
          BY <4>1 DEF Subscribers
        <5>2. row'[d] = PendingRow \/ \E t : row'[d] = ReservedRow(o, t)
          BY <3>3, <4>2, <5>1, <2>d DEF PersistSignal, PersistReserved
        <5> QED
          BY <5>2 DEF PendingRow, ReservedRow, AbsentRow
      <4>3. CASE e2 # e
        <5>1. event'[e] = event[e]
          BY <3>3, <4>3 DEF PersistSignal, PersistReserved, TypeOK
        <5> QED
          BY <4>1, <5>1, <2>2 DEF NoLostDelivery
      <4> QED
        BY <4>2, <4>3
    <3> QED
      BY <3>1, <3>2, <3>3, StepKinds
  <2> QED
    BY <2>1, <2>2
<1> QED
  BY <1>1, <1>2, <1>3

\* The three hold in every reachable state.
THEOREM LifeInvHolds == Spec => []LifeInv
<1>1. Init => LifeInv
  <2> SUFFICES ASSUME Init PROVE LifeInv
    OBVIOUS
  <2>1. \A d \in Deliveries : row[d].status = "absent" /\ d[1] \in Consumers
    BY DEF Init, AbsentRow, Deliveries
  <2>2. NewIsAbsent
    BY <2>1 DEF NewIsAbsent
  <2>3. InactiveConsumerIsDrained
    BY <2>1 DEF Init, InactiveConsumerIsDrained
  <2>4. NoLostDelivery
    BY DEF Init, NoLostDelivery
  <2> QED
    BY <2>2, <2>3, <2>4 DEF LifeInv
<1>2. TypeOK /\ LifeInv /\ [Next]_vars => LifeInv'
  <2> SUFFICES ASSUME TypeOK, LifeInv, [Next]_vars PROVE LifeInv'
    OBVIOUS
  <2>1. CASE UNCHANGED vars
    BY <2>1 DEF vars, LifeInv, NewIsAbsent, InactiveConsumerIsDrained,
       NoLostDelivery, Settled
  <2> QED
    BY <2>1, LifeInvInductive
<1> QED
  BY <1>1, <1>2, TypeCorrect, PTL DEF Spec

\* A deactivated consumer never has an open delivery again, whatever late
\* activation, claim, recovery or settlement arrives (deactivate_consumer).
THEOREM InactiveStaysDrained == Spec => []InactiveConsumerIsDrained
<1>1. LifeInv => InactiveConsumerIsDrained
  BY DEF LifeInv
<1> QED
  BY <1>1, LifeInvHolds, PTL

\* Whatever the order of registration and commits, an active consumer has a
\* row for every event it is owed (register_consumer, persist_signal).
THEOREM NothingLost == Spec => []NoLostDelivery
<1>1. LifeInv => NoLostDelivery
  BY DEF LifeInv
<1> QED
  BY <1>1, LifeInvHolds, PTL

\* A terminal delivery only ever disappears with its event, and an open one is
\* never dropped (purge_expired and every settlement).
THEOREM TerminalStaysFinal == Spec => TerminalIsFinal
<1> DEFINE Final == \A d \in Deliveries :
          /\ row[d].status \in Terminal => row'[d] \in {row[d], AbsentRow}
          /\ row[d].status \in Open => row'[d].status # "absent"
<1>1. TypeOK /\ LifeInv /\ [Next]_vars => [Final]_vars
  <2> SUFFICES ASSUME TypeOK, LifeInv, Next, NEW d \in Deliveries
               PROVE  /\ row[d].status \in Terminal => row'[d] \in {row[d], AbsentRow}
                      /\ row[d].status \in Open => row'[d].status # "absent"
    OBVIOUS
  <2>1. RowStep(d)
    BY IngressRowStep, WorkRowStep DEF Next, LifeInv
  <2> QED
    BY <2>1 DEF RowStep, Settled, Open, Terminal
<1> QED
  BY <1>1, TypeCorrect, LifeInvHolds, PTL DEF Spec, TerminalIsFinal

=============================================================================
