------------------------ MODULE DurableTurns_proofs ------------------------
(***************************************************************************)
(* TLAPS proofs about who owns a delivery and how often it is executed:    *)
(* LiveOwnerKeepsItsRow, NoOverlappingTurns and TurnsWithinBudget of       *)
(* DurableSignals, for every value of its constants.                       *)
(*                                                                         *)
(* The argument has three parts.  TurnInv ties the phase of each lease to  *)
(* its row, and the executions begun to the attempts column.  Each action  *)
(* is classified by what it may do to one row and one lease: nothing but   *)
(* background work, a grant of a fresh token, or a step of one holder.     *)
(* Each class keeps TurnInv.                                               *)
(***************************************************************************)
EXTENDS DurableSignals_proofs

-----------------------------------------------------------------------------
(* The inductive invariant.                                                *)

Working == {"claimed", "begun", "running", "debt"}
Engaged == {"begun", "running", "debt"}

\* What the phase of a held token says about the row it was handed for.
PhaseInv(t) ==
    LET d == lease[t].on
        p == lease[t].phase
        x == lease[t].holder
    IN /\ row[d].status = "absent" => event[d[2]] = "purged"
       /\ Protected(t) => LiveOwner(x)
       /\ p \in Working /\ x \in Dispatchers => d[1] \in CoreConsumers
       /\ Protected(t) /\ p \in Working =>
             \/ Settled(d)
             \/ /\ row[d].token = t /\ row[d].owner = x
                /\ row[d].status = "leased" \/ (row[d].status = "retry" /\ p = "debt")
       /\ p \in Engaged /\ row[d].token = t => ~row[d].unstarted
       /\ p = "claimed" /\ Owns(t, d) => row[d].unstarted
       /\ p \in {"reserved", "first"} /\ row[d].token = t =>
             row[d].attempts = 0 /\ ~row[d].unstarted

\* The attempts column pays for every execution, and for the next one while
\* the claim's marker stands.
Budget(d) ==
    /\ row[d].status = "absent" /\ event[d[2]] # "purged" => turns[d] <= 0
    /\ row[d].status # "absent" =>
          /\ turns[d] <= row[d].attempts
          /\ row[d].unstarted => turns[d] + 1 <= row[d].attempts
    /\ MaxAttempts[d[1]] > 0 =>
          row[d].attempts <= MaxAttempts[d[1]] /\ turns[d] <= MaxAttempts[d[1]]

TurnInv ==
    /\ \A t \in Tokens : Held(t) => PhaseInv(t)
    /\ \A d \in Deliveries : Budget(d)
    /\ NoOverlappingTurns

-----------------------------------------------------------------------------
(* Classes of steps.                                                       *)

Same(r, s) ==
    /\ s.status = r.status /\ s.attempts = r.attempts /\ s.owner = r.owner
    /\ s.token = r.token /\ s.unstarted = r.unstarted

\* No protected holder relies on the row.
Unguarded(r) ==
    \/ r.status = "initial_reserved"
    \/ /\ r.status = "leased"
       /\ \/ r.owner \notin Dispatchers
          \/ ~LiveOwner(r.owner)
          \/ r.unstarted /\ \A t \in HeldBy(r.owner) : lease[t].phase # "claimed"

\* Deactivation, owner and expiry recovery: the row loses its holder.
Taken(r, s) ==
    /\ r.status \in Open
    /\ s.status \in Terminal \/ (s.status = "retry" /\ Unguarded(r))
    /\ s.token = Nobody /\ ~s.unstarted
    /\ s.attempts \in {r.attempts, IF r.unstarted THEN Refunded(r) ELSE r.attempts}

\* What background work may do to a row, short of purging it.
Background(d, r, s) ==
    \/ Same(r, s)
    \/ r.status = "absent" /\ event[d[2]] \in {"new", "retained"} /\ s = PendingRow
    \/ Taken(r, s)

PurgedRow(d) == Settled(d) /\ row'[d] = AbsentRow /\ event'[d[2]] = "purged"

BackgroundRow(d) ==
    /\ Background(d, row[d], row'[d]) \/ PurgedRow(d)
    /\ turns'[d] = turns[d]
    /\ event[d[2]] = "purged" => event'[d[2]] = "purged"

\* A lease that is not concerned is kept, lapses, or is lost.
BackgroundLease(t) ==
    lease'[t] # Free =>
        /\ Held(t)
        /\ lease'[t].phase = lease[t].phase
        /\ lease'[t].holder = lease[t].holder
        /\ lease'[t].on = lease[t].on
        /\ lease[t].lapsed => lease'[t].lapsed
        /\ lease[t].holder \in Dispatchers /\ ~lease'[t].lapsed
              /\ LiveOwner(lease[t].holder) => LiveOwner(lease[t].holder)'

BackgroundStep ==
    /\ \A d \in Deliveries : BackgroundRow(d)
    /\ \A t \in Tokens : BackgroundLease(t)

\* The holder of t gives the row up, keeping or clearing its identity there.
Settling(r, s) ==
    /\ s.status \in {"retry"} \union Terminal
    /\ s.token \in {r.token, Nobody}
    /\ ~s.unstarted

KeepsIdentity(d, r, s) ==
    s.status = "retry" /\ d[1] \in CoreConsumers /\ r.owner \in Dispatchers =>
        s.token = r.token /\ s.owner = r.owner

\* The holder ends its work on row d.
EndsStep(t, d) ==
    /\ lease'[t] = Free
    /\ \/ Same(row[d], row'[d]) /\ turns'[d] = turns[d]
       \/ /\ row[d].token = t /\ row[d].status \in {"initial_reserved", "leased", "retry"}
          /\ Settling(row[d], row'[d])
          /\ \/ row'[d].attempts = row[d].attempts /\ turns'[d] = turns[d]
             \/ /\ row[d].status = "leased"
                /\ lease[t].phase \in {"first", "claimed", "begun"}
                /\ row'[d].attempts = Refunded(row[d])
                /\ turns'[d] = IF lease[t].phase = "begun" THEN turns[d] - 1 ELSE turns[d]

\* The holder goes on: its lease keeps everything but its phase.
GoesOn(t, phase) == lease'[t] = [lease[t] EXCEPT !.phase = phase]

ActivatesStep(t, d) ==
    /\ lease[t].phase = "reserved" /\ GoesOn(t, "first")
    /\ row[d].token = t /\ row[d].status = "initial_reserved"
    /\ Same([row[d] EXCEPT !.status = "leased"], row'[d])
    /\ turns'[d] = turns[d]

BeginsStep(t, d) ==
    /\ lease[t].phase = "claimed" /\ (GoesOn(t, "begun") \/ GoesOn(t, "running"))
    /\ Owns(t, d) /\ row[d].unstarted
    /\ Same([row[d] EXCEPT !.unstarted = FALSE], row'[d])
    /\ turns'[d] = turns[d] + 1

StartsStep(t, d) ==
    /\ lease[t].phase = "begun" /\ GoesOn(t, "running")
    /\ row'[d] = row[d] /\ turns'[d] = turns[d]

OwesStep(t, d) ==
    /\ lease[t].phase \in {"begun", "running"} /\ GoesOn(t, "debt")
    /\ \/ row'[d] = row[d] /\ turns'[d] = turns[d]
       \/ /\ Owns(t, d)
          /\ Settling(row[d], row'[d]) /\ KeepsIdentity(d, row[d], row'[d])
          /\ \/ row'[d].attempts = row[d].attempts /\ turns'[d] = turns[d]
             \/ /\ row'[d].attempts = Refunded(row[d])
                /\ turns'[d] = turns[d] - 1

HolderStep(t) ==
    /\ Held(t)
    /\ event' = event
    /\ \A d \in Deliveries \ {lease[t].on} : BackgroundRow(d)
    /\ \A u \in Tokens \ {t} : BackgroundLease(u)
    /\ \A o \in Dispatchers : LiveOwner(o) => LiveOwner(o)'
    /\ \/ EndsStep(t, lease[t].on)
       \/ ActivatesStep(t, lease[t].on)
       \/ BeginsStep(t, lease[t].on)
       \/ StartsStep(t, lease[t].on)
       \/ OwesStep(t, lease[t].on)

\* A fresh token is handed out for row d, found as q after the claim's recovery.
GrantStep(x, d, t, q) ==
    /\ ~Held(t) /\ lease'[t] = Handed("claimed", x, d)
    /\ x \in Dispatchers => d[1] \in CoreConsumers
    /\ event' = event /\ ownerRow' = ownerRow
    /\ q \in Rows
    /\ row'[d] = LeasedRow(q, x, t)
    /\ turns'[d] = turns[d]
    /\ \/ /\ Background(d, row[d], q)
          /\ Claimable(x, d, q)
       \/ /\ q = row[d] /\ row[d].status = "leased" /\ row[d].attempts = 0
          /\ \E u \in Tokens : Held(u) /\ lease[u].phase = "first"
                               /\ lease[u].on = d /\ row[d].token = u
    /\ \A k \in Deliveries \ {d} : BackgroundRow(k)
    /\ \A u \in Tokens \ {t} : BackgroundLease(u)

-----------------------------------------------------------------------------
(* Each class of steps keeps the invariant.                                *)

\* The fields of the rows the transitions write.
LEMMA RowFields ==
    ASSUME NEW c \in Consumers, NEW r \in Rows
    PROVE  /\ \A s : /\ Cleared(r, s).status = s /\ Cleared(r, s).attempts = r.attempts
                     /\ Cleared(r, s).token = Nobody /\ ~Cleared(r, s).unstarted
           /\ \A x, t : LET l == LeasedRow(r, x, t)
                        IN /\ l.status = "leased" /\ l.attempts = r.attempts + 1
                           /\ l.owner = x /\ l.token = t /\ l.unstarted
           /\ LET q == RecoveredRow(c, r)
              IN /\ q.status \in {"failed", "retry"} /\ q.token = Nobody /\ ~q.unstarted
                 /\ q.attempts = IF r.unstarted THEN Refunded(r) ELSE r.attempts
           /\ Refunded(r) \in Nat /\ r.attempts - 1 <= Refunded(r)
           /\ Refunded(r) <= r.attempts /\ (r.attempts > 0 => Refunded(r) = r.attempts - 1)
<1> USE DEF Rows
<1>1. \A s : /\ Cleared(r, s).status = s /\ Cleared(r, s).attempts = r.attempts
             /\ Cleared(r, s).token = Nobody /\ ~Cleared(r, s).unstarted
  BY DEF Cleared
<1>2. \A x, t : LET l == LeasedRow(r, x, t)
                IN /\ l.status = "leased" /\ l.attempts = r.attempts + 1
                   /\ l.owner = x /\ l.token = t /\ l.unstarted
  BY DEF LeasedRow
<1>3. LET q == RecoveredRow(c, r)
      IN /\ q.status \in {"failed", "retry"} /\ q.token = Nobody /\ ~q.unstarted
         /\ q.attempts = IF r.unstarted THEN Refunded(r) ELSE r.attempts
  BY DEF RecoveredRow, Cleared
<1>4. /\ Refunded(r) \in Nat /\ r.attempts - 1 <= Refunded(r)
      /\ Refunded(r) <= r.attempts /\ (r.attempts > 0 => Refunded(r) = r.attempts - 1)
  BY DEF Refunded
<1> QED
  BY <1>1, <1>2, <1>3, <1>4

\* A row's budget survives whatever happens in the background.
LEMMA BackgroundBudget ==
    ASSUME TypeOK, TypeOK', NEW d \in Deliveries, Budget(d), BackgroundRow(d)
    PROVE  Budget(d)'
<1>1. /\ row[d] \in Rows /\ row'[d] \in Rows /\ turns[d] \in Int /\ turns'[d] = turns[d]
      /\ d[1] \in Consumers /\ MaxAttempts[d[1]] \in Nat
  BY ConstantsAssumption DEF TypeOK, BackgroundRow, Deliveries
<1>2. /\ row[d].attempts \in Nat /\ Refunded(row[d]) \in Nat
      /\ Refunded(row[d]) <= row[d].attempts
      /\ row[d].attempts - 1 <= Refunded(row[d])
  BY <1>1, RowFields DEF Rows
<1>3. CASE Same(row[d], row'[d])
  BY <1>1, <1>2, <1>3 DEF Same, Budget, BackgroundRow
<1>4. CASE row[d].status = "absent" /\ event[d[2]] \in {"new", "retained"}
           /\ row'[d] = PendingRow
  BY <1>1, <1>4 DEF Budget, PendingRow, AbsentRow
<1>5. CASE Taken(row[d], row'[d])
  BY <1>1, <1>2, <1>5 DEF Taken, Budget, Open, Terminal
<1>6. CASE PurgedRow(d)
  BY <1>1, <1>6 DEF PurgedRow, Budget, AbsentRow
<1> QED
  BY <1>3, <1>4, <1>5, <1>6 DEF BackgroundRow, Background

\* So does what a lease's phase says of its row.
LEMMA BackgroundPhase ==
    ASSUME TypeOK, TypeOK', NEW t \in Tokens, Held(t) => PhaseInv(t),
           BackgroundLease(t), Held(t)',
           BackgroundRow(lease[t].on)
    PROVE  PhaseInv(t)'
<1> DEFINE d == lease[t].on
           p == lease[t].phase
           x == lease[t].holder
<1>1. /\ Held(t) /\ lease'[t].phase = p /\ lease'[t].holder = x /\ lease'[t].on = d
      /\ Protected(t)' => Protected(t) /\ (LiveOwner(x) => LiveOwner(x)')
  BY DEF BackgroundLease, Held, Protected
<1>2. d \in Deliveries /\ row[d] \in Rows /\ row'[d] \in Rows
  BY <1>1, HeldLease DEF TypeOK
<1>3. /\ row[d].status = "absent" => event[d[2]] = "purged"
      /\ Protected(t) => LiveOwner(x)
      /\ p \in Working /\ x \in Dispatchers => d[1] \in CoreConsumers
      /\ Protected(t) /\ p \in Working =>
             \/ Settled(d)
             \/ /\ row[d].token = t /\ row[d].owner = x
                /\ row[d].status = "leased" \/ (row[d].status = "retry" /\ p = "debt")
      /\ p \in Engaged /\ row[d].token = t => ~row[d].unstarted
      /\ p = "claimed" /\ Owns(t, d) => row[d].unstarted
      /\ p \in {"reserved", "first"} /\ row[d].token = t =>
             row[d].attempts = 0 /\ ~row[d].unstarted
  BY <1>1 DEF PhaseInv
<1>4. SUFFICES
      /\ row'[d].status = "absent" => event'[d[2]] = "purged"
      /\ Protected(t) /\ p \in Working =>
             \/ row'[d].status \notin Open
             \/ /\ row'[d].token = t /\ row'[d].owner = x
                /\ row'[d].status = "leased" \/ (row'[d].status = "retry" /\ p = "debt")
      /\ p \in Engaged /\ row'[d].token = t => ~row'[d].unstarted
      /\ p = "claimed" /\ row'[d].status = "leased" /\ row'[d].token = t => row'[d].unstarted
      /\ p \in {"reserved", "first"} /\ row'[d].token = t =>
             row'[d].attempts = 0 /\ ~row'[d].unstarted
  BY <1>1, <1>3 DEF PhaseInv, Owns, Settled
<1> HIDE DEF d, p, x
<1>5. Nobody # t
  BY ConstantsAssumption
<1>6. CASE Same(row[d], row'[d])
  <2>1. event[d[2]] = "purged" => event'[d[2]] = "purged"
    BY DEF BackgroundRow, d
  <2> QED
    BY <1>3, <1>6, <2>1 DEF Same, Owns, Settled
<1>7. CASE row[d].status = "absent" /\ event[d[2]] \in {"new", "retained"}
  BY <1>3, <1>7
<1>8. CASE PurgedRow(d)
  BY <1>5, <1>8 DEF PurgedRow, AbsentRow, Settled, Open
<1>9. CASE Taken(row[d], row'[d])
  <2>1. CASE row'[d].status \in Terminal
    BY <1>5, <1>9, <2>1 DEF Taken, Settled, Terminal, Open
  <2>2. CASE row'[d].status = "retry" /\ Unguarded(row[d])
    <3>1. ~(Protected(t) /\ p \in Working)
      <4> SUFFICES ASSUME Protected(t), p \in Working PROVE FALSE
        OBVIOUS
      <4>1. row[d].token = t /\ row[d].owner = x /\ row[d].status # "initial_reserved"
        BY <1>3, <1>9 DEF Taken, Settled
      <4>2. x \in Dispatchers /\ LiveOwner(x) /\ t \in HeldBy(x)
        BY <1>1, <1>3 DEF Protected, HeldBy, x
      <4>3. row[d].unstarted /\ p # "claimed"
        BY <2>2, <4>1, <4>2 DEF Unguarded, p
      <4> QED
        BY <1>3, <4>1, <4>3 DEF Working, Engaged
    <3> QED
      BY <1>5, <1>9, <2>2, <3>1 DEF Taken
  <2> QED
    BY <1>9, <2>1, <2>2 DEF Taken
<1> QED
  BY <1>6, <1>7, <1>8, <1>9 DEF BackgroundRow, Background, d

\* A holder whose row passes to another token, or is given up by it, had no
\* claim to it any more.
LEMMA ForeignPhase ==
    ASSUME TypeOK, TypeOK', NEW u \in Tokens, Held(u) => PhaseInv(u),
           BackgroundLease(u), Held(u)',
           row'[lease[u].on].status # "absent", row'[lease[u].on].token # u,
           ~(Protected(u) /\ lease[u].phase \in Working)
    PROVE  PhaseInv(u)'
<1>1. /\ Held(u) /\ lease'[u].phase = lease[u].phase
      /\ lease'[u].holder = lease[u].holder /\ lease'[u].on = lease[u].on
      /\ Protected(u)' => /\ Protected(u)
                          /\ LiveOwner(lease[u].holder) => LiveOwner(lease[u].holder)'
  BY DEF BackgroundLease, Held, Protected
<1> QED
  BY <1>1 DEF PhaseInv, Owns

\* The other holders when the holder of t steps.
LEMMA HolderForeign ==
    ASSUME TypeOK, TypeOK', TurnInv, NEW t \in Tokens, HolderStep(t),
           NEW u \in Tokens, u # t, Held(u)'
    PROVE  PhaseInv(u)'
<1> DEFINE d == lease[t].on
<1>1. Held(t) /\ d \in Deliveries /\ row[d] \in Rows /\ event' = event
  BY HeldLease DEF HolderStep
<1>2. BackgroundLease(u) /\ Held(u) /\ PhaseInv(u) /\ lease[u].on \in Deliveries
  <2>1. BackgroundLease(u)
    BY DEF HolderStep
  <2>2. Held(u)
    BY <2>1 DEF BackgroundLease, Held
  <2> QED
    BY <2>1, <2>2, HeldLease DEF TurnInv
<1>3. CASE lease[u].on # d
  <2>1. BackgroundRow(lease[u].on)
    BY <1>2, <1>3 DEF HolderStep
  <2> QED
    BY <1>2, <2>1, BackgroundPhase
<1>4. CASE lease[u].on = d /\ Same(row[d], row'[d]) /\ turns'[d] = turns[d]
  <2>1. BackgroundRow(lease[u].on)
    BY <1>1, <1>4 DEF BackgroundRow, Background
  <2> QED
    BY <1>2, <2>1, BackgroundPhase
<1>5. CASE /\ lease[u].on = d /\ row[d].token = t /\ row[d].status \in Open
           /\ row'[d].token \in {t, Nobody} /\ row'[d].status # "absent"
  <2>1. row'[d].token # u
    BY <1>5, ConstantsAssumption
  <2>2. ~(Protected(u) /\ lease[u].phase \in Working)
    BY <1>2, <1>5 DEF PhaseInv, Settled
  <2> QED
    BY <1>2, <1>5, <2>1, <2>2, ForeignPhase
<1>6. \/ Same(row[d], row'[d]) /\ turns'[d] = turns[d]
      \/ /\ row[d].token = t /\ row[d].status \in Open
         /\ row'[d].token \in {t, Nobody} /\ row'[d].status # "absent"
  <2>s. Same(row[d], row[d])
    BY DEF Same
  <2>1. CASE EndsStep(t, d)
    BY <2>1 DEF EndsStep, Settling, Open, Terminal
  <2>2. CASE ActivatesStep(t, d)
    BY <1>1, <2>2 DEF ActivatesStep, Same, Open, Rows
  <2>3. CASE BeginsStep(t, d)
    BY <1>1, <2>3 DEF BeginsStep, Owns, Same, Open, Rows
  <2>4. CASE StartsStep(t, d)
    BY <2>s, <2>4 DEF StartsStep
  <2>5. CASE OwesStep(t, d)
    BY <2>s, <2>5 DEF OwesStep, Settling, Owns, Open, Terminal
  <2> QED
    BY <2>1, <2>2, <2>3, <2>4, <2>5 DEF HolderStep
<1> QED
  BY <1>3, <1>4, <1>5, <1>6

\* The holder itself.
LEMMA HolderOwn ==
    ASSUME TypeOK, TypeOK', TurnInv, NEW t \in Tokens, HolderStep(t), Held(t)'
    PROVE  PhaseInv(t)'
<1> DEFINE d == lease[t].on
           p == lease[t].phase
           x == lease[t].holder
<1>1. /\ Held(t) /\ d \in Deliveries /\ row[d] \in Rows /\ event' = event
      /\ lease[t] \in [phase : Phases, holder : Holders, on : Deliveries, lapsed : BOOLEAN]
      /\ x \in Dispatchers /\ LiveOwner(x) => ownerRow'[x] = "fresh"
      /\ Nobody # t
  BY HeldLease, ConstantsAssumption DEF HolderStep, LiveOwner
<1>2. PhaseInv(t)
  BY <1>1 DEF TurnInv
<1>3. ASSUME NEW q, GoesOn(t, q)
      PROVE  /\ lease'[t].phase = q /\ lease'[t].on = d /\ lease'[t].holder = x
             /\ lease'[t].lapsed = lease[t].lapsed
             /\ Protected(t)' => Protected(t)
  BY <1>1, <1>3 DEF GoesOn, Protected
<1>4. CASE ActivatesStep(t, d)
  <2>1. /\ lease'[t].phase = "first" /\ lease'[t].on = d /\ lease'[t].holder = x
        /\ Protected(t)' => Protected(t)
        /\ row'[d].status = "leased" /\ row'[d].attempts = row[d].attempts
        /\ row'[d].unstarted = row[d].unstarted /\ row[d].token = t /\ p = "reserved"
    BY <1>1, <1>3, <1>4 DEF ActivatesStep, Same, Rows
  <2> QED
    BY <1>1, <1>2, <2>1 DEF PhaseInv, Working, Engaged, Protected, LiveOwner
<1>5. CASE BeginsStep(t, d)
  <2>1. /\ lease'[t].phase \in {"begun", "running"} /\ lease'[t].on = d
        /\ lease'[t].holder = x
        /\ Protected(t)' => Protected(t)
        /\ row'[d].status = "leased" /\ row'[d].token = t
        /\ row'[d].owner = row[d].owner
        /\ row[d].status = "leased" /\ p = "claimed"
    BY <1>1, <1>3, <1>5 DEF BeginsStep, Same, Rows, Owns
  <2>2. ~row'[d].unstarted
    BY <1>1, <1>5 DEF BeginsStep, Same, Rows
  <2> QED
    BY <1>1, <1>2, <2>1, <2>2
       DEF PhaseInv, Working, Engaged, Protected, LiveOwner, Settled, Open
<1>6. CASE StartsStep(t, d)
  <2>1. /\ lease'[t].phase = "running" /\ lease'[t].on = d /\ lease'[t].holder = x
        /\ Protected(t)' => Protected(t)
        /\ row'[d] = row[d] /\ p = "begun"
    BY <1>3, <1>6 DEF StartsStep
  <2> QED
    BY <1>1, <1>2, <2>1 DEF PhaseInv, Working, Engaged, Protected, LiveOwner, Settled
<1>7. CASE OwesStep(t, d)
  <2>1. /\ lease'[t].phase = "debt" /\ lease'[t].on = d /\ lease'[t].holder = x
        /\ Protected(t)' => Protected(t)
        /\ p \in {"begun", "running"}
    BY <1>3, <1>7 DEF OwesStep
  <2>2. CASE row'[d] = row[d]
    BY <1>1, <1>2, <2>1, <2>2 DEF PhaseInv, Working, Engaged, Protected, LiveOwner, Settled
  <2>3. CASE /\ Owns(t, d) /\ Settling(row[d], row'[d])
             /\ KeepsIdentity(d, row[d], row'[d])
    <3>1. row[d].status = "leased" /\ row[d].token = t
      BY <2>3 DEF Owns
    <3>2. /\ row'[d].status \in {"retry"} \union Terminal
          /\ ~row'[d].unstarted
      BY <2>3 DEF Settling
    <3>3. Protected(t) => \/ row'[d].status \notin Open
                          \/ /\ row'[d].status = "retry" /\ row'[d].token = t
                             /\ row'[d].owner = x
      <4> SUFFICES ASSUME Protected(t), row'[d].status = "retry"
                   PROVE  row'[d].token = t /\ row'[d].owner = x
        BY <3>2 DEF Terminal, Open
      <4>1. row[d].owner = x /\ d[1] \in CoreConsumers /\ x \in Dispatchers
        BY <1>2, <2>1, <3>1 DEF PhaseInv, Settled, Open, Working, Protected
      <4> QED
        BY <2>3, <3>1, <4>1 DEF KeepsIdentity
    <3> QED
      BY <1>1, <1>2, <2>1, <3>2, <3>3
         DEF PhaseInv, Working, Engaged, Protected, LiveOwner, Settled, Terminal
  <2> QED
    BY <1>7, <2>2, <2>3 DEF OwesStep
<1>8. ~EndsStep(t, d)
  BY DEF EndsStep, Held
<1> QED
  BY <1>4, <1>5, <1>6, <1>7, <1>8 DEF HolderStep

\* Its row's budget.
LEMMA HolderBudget ==
    ASSUME TypeOK, TypeOK', TurnInv, NEW t \in Tokens, HolderStep(t),
           NEW d \in Deliveries, d = lease[t].on
    PROVE  Budget(d)'
<1> DEFINE r == row[d]
           s == row'[d]
           m == MaxAttempts[d[1]]
<1>1. /\ Held(t) /\ r \in Rows /\ s \in Rows /\ turns[d] \in Int /\ turns'[d] \in Int
      /\ m \in Nat /\ event' = event /\ d[1] \in Consumers
  BY HeldLease, ConstantsAssumption DEF HolderStep, TypeOK, Deliveries
<1>2. /\ r.attempts \in Nat /\ s.attempts \in Nat /\ Refunded(r) \in Nat
      /\ Refunded(r) <= r.attempts /\ r.attempts - 1 <= Refunded(r)
      /\ r.attempts > 0 => Refunded(r) = r.attempts - 1
  BY <1>1, RowFields DEF Rows
<1>3. Budget(d) /\ PhaseInv(t)
  BY <1>1 DEF TurnInv
<1>4. CASE Same(r, s) /\ turns'[d] = turns[d]
  BY <1>1, <1>3, <1>4 DEF Same, Budget
<1>5. CASE /\ r.status # "absent" /\ s.status # "absent" /\ ~s.unstarted
           /\ \/ s.attempts = r.attempts /\ turns'[d] = turns[d]
              \/ s.attempts = Refunded(r) /\ turns'[d] = turns[d] - 1
              \/ s.attempts = r.attempts /\ turns'[d] = turns[d] + 1 /\ r.unstarted
  <2> HIDE DEF m
  <2>1. /\ turns[d] <= r.attempts /\ (r.unstarted => turns[d] + 1 <= r.attempts)
        /\ m > 0 => r.attempts <= m
    BY <1>3, <1>5 DEF Budget, m
  <2>2. turns'[d] <= s.attempts /\ (m > 0 => s.attempts <= m /\ turns'[d] <= m)
    BY <1>1, <1>2, <1>5, <2>1
  <2> QED
    BY <1>5, <2>2 DEF Budget, m
<1>6. CASE /\ r.status = "leased" /\ r.token = t /\ lease[t].phase \in {"first", "claimed"}
           /\ s.status # "absent" /\ ~s.unstarted
           /\ s.attempts = Refunded(r) /\ turns'[d] = turns[d]
  <2> HIDE DEF m
  <2>1. r.unstarted \/ r.attempts = 0
    BY <1>3, <1>6 DEF PhaseInv, Owns
  <2>2. /\ turns[d] <= r.attempts /\ (r.unstarted => turns[d] + 1 <= r.attempts)
        /\ m > 0 => r.attempts <= m
    BY <1>3, <1>6 DEF Budget, m
  <2>3. turns'[d] <= s.attempts /\ (m > 0 => s.attempts <= m /\ turns'[d] <= m)
    BY <1>1, <1>2, <1>6, <2>1, <2>2
  <2> QED
    BY <1>6, <2>3 DEF Budget, m
<1>7. CASE EndsStep(t, d)
  <2>1. Settling(r, s) => s.status # "absent" /\ ~s.unstarted
    BY DEF Settling, Terminal
  <2> QED
    BY <1>4, <1>5, <1>6, <1>7, <2>1 DEF EndsStep
<1>8. CASE ActivatesStep(t, d)
  <2>1. /\ r.status # "absent" /\ s.status # "absent" /\ s.unstarted = r.unstarted
        /\ s.attempts = r.attempts /\ turns'[d] = turns[d]
    BY <1>1, <1>8 DEF ActivatesStep, Same, Rows
  <2> QED
    BY <1>1, <1>3, <2>1 DEF Budget
<1>9. CASE BeginsStep(t, d)
  <2>1. /\ r.status # "absent" /\ s.status # "absent"
        /\ s.attempts = r.attempts /\ turns'[d] = turns[d] + 1
    BY <1>1, <1>9 DEF BeginsStep, Same, Owns, Rows
  <2>2. r.unstarted /\ ~s.unstarted
    BY <1>1, <1>9 DEF BeginsStep, Same, Rows
  <2> QED
    BY <1>5, <2>1, <2>2
<1>10. CASE StartsStep(t, d)
  BY <1>4, <1>10 DEF StartsStep, Same
<1>11. CASE OwesStep(t, d)
  <2>1. Settling(r, s) => s.status # "absent" /\ ~s.unstarted
    BY DEF Settling, Terminal
  <2>2. CASE row'[d] = row[d] /\ turns'[d] = turns[d]
    BY <1>4, <2>2 DEF Same
  <2> QED
    BY <1>5, <1>11, <2>1, <2>2 DEF OwesStep, Owns
<1> QED
  BY <1>7, <1>8, <1>9, <1>10, <1>11 DEF HolderStep

\* No two engaged holders of one delivery: only a begun execution adds one,
\* and it owns the row every other one would have to own.
LEMMA HolderApart ==
    ASSUME TypeOK, TypeOK', TurnInv, NEW t \in Tokens, HolderStep(t)
    PROVE  NoOverlappingTurns'
<1>1. ASSUME NEW u \in Tokens, u # t, Protected(u)'
      PROVE  /\ Protected(u) /\ lease'[u].phase = lease[u].phase
             /\ lease'[u].on = lease[u].on
  BY <1>1 DEF HolderStep, BackgroundLease, Protected, Held
<1>2. Held(t) /\ lease[t] \in [phase : Phases, holder : Holders, on : Deliveries,
                               lapsed : BOOLEAN]
  BY HeldLease DEF HolderStep
<1>3. Protected(t)' =>
         /\ Protected(t) /\ lease'[t].on = lease[t].on
         /\ lease[t].phase = "claimed" => Owns(t, lease[t].on)
  BY <1>2 DEF HolderStep, EndsStep, ActivatesStep, BeginsStep, StartsStep, OwesStep,
     GoesOn, Protected, Held
<1>4. lease'[t] # Free /\ lease'[t].phase \in {"begun", "running", "debt"} =>
         lease[t].phase \in {"claimed", "begun", "running"}
  BY <1>2 DEF HolderStep, EndsStep, ActivatesStep, BeginsStep, StartsStep, OwesStep, GoesOn
<1>5. ASSUME NEW u \in Tokens, u # t, Protected(u)', Protected(t)',
             lease'[u].phase \in {"begun", "running", "debt"},
             lease'[t].phase \in {"begun", "running", "debt"},
             lease'[u].on = lease'[t].on
      PROVE  FALSE
  <2>1. /\ Protected(u) /\ lease[u].phase \in {"begun", "running", "debt"}
        /\ lease[u].on = lease[t].on /\ Protected(t)
    BY <1>1, <1>3, <1>5
  <2>2. lease[t].phase \in {"claimed", "begun", "running"}
    BY <1>4, <1>5 DEF Protected, Held
  <2>3. CASE lease[t].phase = "claimed"
    <3>1. PhaseInv(u)
      BY <2>1 DEF TurnInv, Protected
    <3>2. row[lease[u].on].status = "leased" /\ row[lease[u].on].token = t
      BY <1>3, <1>5, <2>1, <2>3 DEF Owns
    <3> QED
      BY <1>5, <2>1, <3>1, <3>2 DEF PhaseInv, Settled, Open, Working
  <2>4. CASE lease[t].phase # "claimed"
    BY <1>5, <2>1, <2>2, <2>4 DEF TurnInv, NoOverlappingTurns
  <2> QED
    BY <2>3, <2>4
<1> SUFFICES ASSUME NEW t1 \in Tokens, NEW t2 \in Tokens, t1 # t2,
                    Protected(t1)', lease'[t1].phase \in {"begun", "running", "debt"},
                    Protected(t2)', lease'[t2].phase \in {"begun", "running", "debt"},
                    lease'[t1].on = lease'[t2].on
             PROVE  FALSE
  BY DEF NoOverlappingTurns
<1>6. CASE t1 = t \/ t2 = t
  BY <1>5, <1>6
<1>7. CASE t1 # t /\ t2 # t
  BY <1>1, <1>7 DEF TurnInv, NoOverlappingTurns
<1> QED
  BY <1>6, <1>7

\* Together: a step of one holder keeps the invariant.
LEMMA HolderKeeps ==
    ASSUME TypeOK, TypeOK', TurnInv, NEW t \in Tokens, HolderStep(t)
    PROVE  TurnInv'
<1>1. ASSUME NEW u \in Tokens, Held(u)' PROVE PhaseInv(u)'
  BY <1>1, HolderOwn, HolderForeign
<1>2. ASSUME NEW d \in Deliveries PROVE Budget(d)'
  <2>1. CASE d = lease[t].on
    BY <2>1, HolderBudget
  <2>2. CASE d # lease[t].on
    BY <2>2, BackgroundBudget DEF TurnInv, HolderStep
  <2> QED
    BY <2>1, <2>2
<1> QED
  BY <1>1, <1>2, HolderApart DEF TurnInv

\* So does background work.
LEMMA BackgroundKeeps ==
    ASSUME TypeOK, TypeOK', TurnInv, BackgroundStep
    PROVE  TurnInv'
<1>1. ASSUME NEW u \in Tokens, Held(u)' PROVE PhaseInv(u)'
  <2>1. BackgroundLease(u)
    BY DEF BackgroundStep
  <2>2. Held(u) /\ PhaseInv(u)
    BY <1>1, <2>1 DEF BackgroundLease, Held, TurnInv
  <2>3. lease[u].on \in Deliveries
    BY <2>2, HeldLease
  <2>4. BackgroundRow(lease[u].on)
    BY <2>3 DEF BackgroundStep
  <2> QED
    BY <1>1, <2>1, <2>2, <2>4, BackgroundPhase
<1>2. ASSUME NEW d \in Deliveries PROVE Budget(d)'
  BY BackgroundBudget DEF TurnInv, BackgroundStep
<1>3. NoOverlappingTurns'
  <2>1. ASSUME NEW u \in Tokens, Protected(u)'
        PROVE  /\ Protected(u) /\ lease'[u].phase = lease[u].phase
               /\ lease'[u].on = lease[u].on
    BY <2>1 DEF BackgroundStep, BackgroundLease, Protected, Held
  <2> QED
    BY <2>1 DEF TurnInv, NoOverlappingTurns
<1> QED
  BY <1>1, <1>2, <1>3 DEF TurnInv

\* A claimable row has no protected holder at work on it: it is not leased,
\* and a retry kept for a live owner is not offered to anybody else, nor to
\* the owner itself while it owes a receipt.
LEMMA GrantForeign ==
    ASSUME TypeOK, TurnInv, NEW x, NEW d \in Deliveries, NEW t \in Tokens, NEW q,
           GrantStep(x, d, t, q), NEW u \in Tokens, Held(u), lease[u].on = d
    PROVE  ~(Protected(u) /\ lease[u].phase \in Working)
<1> SUFFICES ASSUME Protected(u), lease[u].phase \in Working PROVE FALSE
  OBVIOUS
<1> DEFINE o == lease[u].holder
<1>1. /\ PhaseInv(u) /\ LiveOwner(o) /\ o \in Dispatchers /\ u \in HeldBy(o)
      /\ d[1] \in CoreConsumers
  BY DEF TurnInv, PhaseInv, Protected, HeldBy
<1>2. \/ row[d].status \notin Open
      \/ /\ row[d].token = u /\ row[d].owner = o
         /\ row[d].status = "leased" \/ (row[d].status = "retry" /\ lease[u].phase = "debt")
  BY <1>1 DEF PhaseInv, Settled
<1>3. CASE /\ row[d].status = "leased"
           /\ \E w \in Tokens : Held(w) /\ lease[w].phase = "first"
                                /\ lease[w].on = d /\ row[d].token = w
  BY <1>2, <1>3 DEF Open, Working
<1>4. CASE Background(d, row[d], q) /\ Claimable(x, d, q)
  <2>1. q.status \in {"pending", "retry"}
    BY <1>4 DEF Claimable
  <2>2. CASE Same(row[d], q)
    <3>1. q.status = "retry" /\ q.owner = o /\ lease[u].phase = "debt"
      BY <1>2, <2>1, <2>2 DEF Same, Open
    <3>2. x = o
      BY <1>1, <1>4, <3>1 DEF Claimable, RetryTransferable
    <3>3. ReceiptOwed(x, d)
      BY <1>1, <3>1, <3>2 DEF ReceiptOwed
    <3> QED
      BY <1>4, <3>3 DEF Claimable
  <2>3. CASE row[d].status = "absent" /\ event[d[2]] \in {"new", "retained"}
    BY <1>1, <2>3 DEF PhaseInv
  <2>4. CASE Taken(row[d], q)
    <3>1. row[d].status \in Open /\ Unguarded(row[d])
      BY <2>1, <2>4 DEF Taken, Terminal
    <3>2. row[d].unstarted /\ lease[u].phase # "claimed"
      BY <1>1, <1>2, <3>1 DEF Unguarded
    <3> QED
      BY <1>1, <1>2, <3>1, <3>2 DEF PhaseInv, Working, Engaged
  <2> QED
    BY <1>4, <2>2, <2>3, <2>4 DEF Background
<1> QED
  BY <1>3, <1>4 DEF GrantStep

\* A claim keeps the invariant.
LEMMA GrantKeeps ==
    ASSUME TypeOK, TypeOK', TurnInv, NEW x \in Holders, NEW d \in Deliveries,
           NEW t \in Tokens, NEW q, GrantStep(x, d, t, q)
    PROVE  TurnInv'
<1>1. /\ q \in Rows /\ row[d] \in Rows /\ turns[d] \in Int /\ turns'[d] = turns[d]
      /\ d[1] \in Consumers /\ MaxAttempts[d[1]] \in Nat
      /\ event' = event /\ ownerRow' = ownerRow
  BY ConstantsAssumption DEF GrantStep, TypeOK, Deliveries
<1>2. /\ row'[d].status = "leased" /\ row'[d].attempts = q.attempts + 1
      /\ row'[d].owner = x /\ row'[d].token = t /\ row'[d].unstarted
  BY <1>1, RowFields DEF GrantStep
<1>3. /\ lease'[t].phase = "claimed" /\ lease'[t].holder = x /\ lease'[t].on = d
      /\ x \in Dispatchers /\ ~lease'[t].lapsed => LiveOwner(x)
  <2> DEFINE b == x \in Dispatchers /\ ~LiveOwner(x)
  <2>1. b \in BOOLEAN /\ (x \in Dispatchers /\ ~b => LiveOwner(x))
    OBVIOUS
  <2>2. lease'[t] = [phase |-> "claimed", holder |-> x, on |-> d, lapsed |-> b]
    BY DEF GrantStep, Handed
  <2> HIDE DEF b
  <2> QED
    BY <2>1, <2>2
<1>4. PhaseInv(t)'
  <2>1. Protected(t)' => x \in Dispatchers /\ ownerRow'[x] = "fresh"
    BY <1>1, <1>3 DEF Protected, LiveOwner
  <2>2. x \in Dispatchers => d[1] \in CoreConsumers
    BY DEF GrantStep
  <2> QED
    BY <1>2, <1>3, <2>1, <2>2 DEF PhaseInv, LiveOwner, Working, Engaged, Owns
<1>5. ASSUME NEW u \in Tokens, u # t, Held(u)' PROVE PhaseInv(u)'
  <2>1. BackgroundLease(u)
    BY <1>5 DEF GrantStep
  <2>2. Held(u) /\ PhaseInv(u)
    BY <1>5, <2>1 DEF BackgroundLease, Held, TurnInv
  <2>3. lease[u].on \in Deliveries
    BY <2>2, HeldLease
  <2>4. CASE lease[u].on # d
    <3>1. BackgroundRow(lease[u].on)
      BY <2>3, <2>4 DEF GrantStep
    <3> QED
      BY <1>5, <2>1, <2>2, <3>1, BackgroundPhase
  <2>5. CASE lease[u].on = d
    <3>1. ~(Protected(u) /\ lease[u].phase \in Working)
      BY <2>2, <2>5, GrantForeign
    <3> QED
      BY <1>2, <1>5, <2>1, <2>2, <2>5, <3>1, ForeignPhase
  <2> QED
    BY <2>4, <2>5
<1>6. ASSUME NEW k \in Deliveries, k # d PROVE Budget(k)'
  BY <1>6, BackgroundBudget DEF TurnInv, GrantStep
<1>7. Budget(d)'
  <2> DEFINE m == MaxAttempts[d[1]]
  <2>1. Budget(d) /\ row[d].attempts \in Nat /\ q.attempts \in Nat
    BY <1>1 DEF TurnInv, Rows
  <2>2. turns[d] <= q.attempts
    <3>1. CASE q = row[d] /\ row[d].status = "leased"
      BY <2>1, <3>1 DEF Budget
    <3>2. CASE Same(row[d], q) /\ q.status \in {"pending", "retry"}
      BY <2>1, <3>2 DEF Budget, Same
    <3>3. CASE row[d].status = "absent" /\ event[d[2]] \in {"new", "retained"}
               /\ q = PendingRow
      BY <2>1, <3>3 DEF Budget, PendingRow, AbsentRow
    <3>4. CASE Taken(row[d], q)
      <4>1. /\ Refunded(row[d]) \in Nat /\ row[d].attempts - 1 <= Refunded(row[d])
        BY <1>1, RowFields
      <4> QED
        BY <1>1, <2>1, <3>4, <4>1 DEF Budget, Taken, Open
    <3> QED
      BY <3>1, <3>2, <3>3, <3>4 DEF GrantStep, Claimable, Background
  <2>3. m > 0 => q.attempts + 1 <= m
    <3>1. CASE q.attempts = 0
      BY <1>1, <3>1
    <3>2. CASE Claimable(x, d, q)
      BY <1>1, <2>1, <3>2 DEF Claimable, Spent
    <3> QED
      BY <3>1, <3>2 DEF GrantStep
  <2> HIDE DEF m
  <2>4. /\ turns'[d] <= q.attempts + 1 /\ turns'[d] + 1 <= q.attempts + 1
        /\ m > 0 => q.attempts + 1 <= m /\ turns'[d] <= m
    BY <1>1, <2>1, <2>2, <2>3 DEF m
  <2> QED
    BY <1>2, <2>4 DEF Budget, m
<1>8. NoOverlappingTurns'
  <2>1. ASSUME NEW u \in Tokens, Protected(u)',
               lease'[u].phase \in {"begun", "running", "debt"}
        PROVE  /\ Protected(u) /\ lease'[u].phase = lease[u].phase
               /\ lease'[u].on = lease[u].on
    <3>1. u # t
      BY <1>3, <2>1
    <3> QED
      BY <2>1, <3>1 DEF GrantStep, BackgroundLease, Protected, Held
  <2> QED
    BY <2>1 DEF TurnInv, NoOverlappingTurns
<1> QED
  BY <1>4, <1>5, <1>6, <1>7, <1>8 DEF TurnInv

-----------------------------------------------------------------------------
(* Every operation belongs to a class.                                     *)

\* Owners that were live stay live.
OwnersStay == \A o \in Dispatchers : ownerRow[o] = "fresh" => ownerRow'[o] = "fresh"

\* Rows and leases that a step leaves alone.
LEMMA Frames ==
    /\ \A d \in Deliveries :
          /\ row'[d] = row[d] /\ turns'[d] = turns[d]
          /\ event[d[2]] = "purged" => event'[d[2]] = "purged"
          => BackgroundRow(d)
    /\ \A t \in Tokens : lease'[t] = lease[t] /\ OwnersStay => BackgroundLease(t)
    /\ \A t \in Tokens : lease'[t] = Free => BackgroundLease(t)
<1>1. ASSUME NEW d \in Deliveries, row'[d] = row[d], turns'[d] = turns[d],
             event[d[2]] = "purged" => event'[d[2]] = "purged"
      PROVE  BackgroundRow(d)
  BY <1>1 DEF BackgroundRow, Background, Same
<1>2. ASSUME NEW t \in Tokens, lease'[t] = lease[t], OwnersStay
      PROVE  BackgroundLease(t)
  BY <1>2 DEF BackgroundLease, OwnersStay, Held, LiveOwner
<1>3. ASSUME NEW t \in Tokens, lease'[t] = Free
      PROVE  BackgroundLease(t)
  BY <1>3 DEF BackgroundLease
<1> QED
  BY <1>1, <1>2, <1>3

\* A claim's expiry recovery and backfill are background work on every row.
LEMMA ReadyBackground ==
    ASSUME TypeOK, NEW c \in Consumers, NEW d \in Deliveries
    PROVE  Background(d, row[d], ReadyRows(c)[d])
<1> DEFINE q == ExpiredRecovered(c)[d]
<1>1. row[d] \in Rows /\ d[1] \in Consumers
  BY DEF TypeOK, Deliveries
<1>2. \/ q = row[d]
      \/ /\ q = RecoveredRow(c, row[d]) /\ row[d].status = "leased"
         /\ row[d].owner \in Dispatchers => ~LiveOwner(row[d].owner)
  BY DEF ExpiredRecovered
<1>3. \/ ReadyRows(c)[d] = q
      \/ /\ ReadyRows(c)[d] = PendingRow /\ q.status = "absent"
         /\ event[d[2]] = "retained"
  BY DEF ReadyRows, Backfilled
<1>4. CASE q = row[d]
  BY <1>3, <1>4 DEF Background, Same
<1>5. CASE /\ q = RecoveredRow(c, row[d]) /\ row[d].status = "leased"
           /\ row[d].owner \in Dispatchers => ~LiveOwner(row[d].owner)
  <2>1. /\ q.status \in {"failed", "retry"} /\ q.token = Nobody /\ ~q.unstarted
        /\ q.attempts = IF row[d].unstarted THEN Refunded(row[d]) ELSE row[d].attempts
    BY <1>1, <1>5, RowFields
  <2>2. ReadyRows(c)[d] = q
    BY <1>3, <2>1
  <2>3. Taken(row[d], q)
    BY <1>5, <2>1 DEF Taken, Unguarded, Open, Terminal
  <2> QED
    BY <2>2, <2>3 DEF Background
<1> QED
  BY <1>2, <1>4, <1>5

\* Registration, deactivation, commit without reservation, purge.
LEMMA IngressBackground ==
    ASSUME TypeOK, NewIsAbsent,
           \/ Registry
           \/ \E e \in Events : PurgeExpired(e)
           \/ \E o \in Dispatchers, e \in Events : PersistSignal(o, e)
    PROVE  BackgroundStep
<1>1. /\ lease' = lease /\ ownerRow' = ownerRow /\ turns' = turns
  BY DEF Registry, RegisterConsumer, DeactivateConsumer, PurgeExpired, PersistSignal
<1>2. \A t \in Tokens : BackgroundLease(t)
  BY <1>1, Frames DEF OwnersStay
<1>3. ASSUME NEW d \in Deliveries PROVE BackgroundRow(d)
  <2>1. row[d] \in Rows /\ d[1] \in Consumers /\ d[2] \in Events /\ d = <<d[1], d[2]>>
    BY DEF TypeOK, Deliveries
  <2>2. event[d[2]] = "purged" => event'[d[2]] = "purged"
    BY <2>1 DEF Registry, RegisterConsumer, DeactivateConsumer, PurgeExpired,
       PersistSignal, TypeOK
  <2>3. ASSUME NEW c \in Consumers, RegisterConsumer(c) PROVE BackgroundRow(d)
    <3>1. \/ row'[d] = row[d]
          \/ row[d].status = "absent" /\ event[d[2]] = "retained" /\ row'[d] = PendingRow
      BY <2>3 DEF RegisterConsumer, Backfilled
    <3> QED
      BY <1>1, <2>2, <3>1, Frames DEF BackgroundRow, Background
  <2>4. ASSUME NEW c \in Consumers, DeactivateConsumer(c) PROVE BackgroundRow(d)
    <3>1. \/ row'[d] = row[d]
          \/ row[d].status \in Open /\ row'[d] = Cleared(row[d], "failed")
      BY <2>4 DEF DeactivateConsumer, Terminalized
    <3>2. row[d].status \in Open /\ row'[d] = Cleared(row[d], "failed") =>
             Taken(row[d], row'[d])
      BY <2>1, RowFields DEF Taken, Terminal
    <3> QED
      BY <1>1, <2>2, <3>1, <3>2, Frames DEF BackgroundRow, Background
  <2>5. ASSUME NEW e \in Events, PurgeExpired(e) PROVE BackgroundRow(d)
    <3>1. CASE d[2] # e
      BY <1>1, <2>2, <2>5, <3>1, Frames DEF PurgeExpired
    <3>2. CASE d[2] = e
      <4>1. Settled(d) /\ row'[d] = AbsentRow /\ event'[d[2]] = "purged"
        BY <2>1, <2>5, <3>2 DEF PurgeExpired, Settled, TypeOK
      <4> QED
        BY <1>1, <4>1 DEF BackgroundRow, PurgedRow
    <3> QED
      BY <3>1, <3>2
  <2>6. ASSUME NEW o \in Dispatchers, NEW e \in Events, PersistSignal(o, e)
        PROVE  BackgroundRow(d)
    <3>1. \/ row'[d] = row[d]
          \/ row'[d] = PendingRow /\ d[2] = e /\ event[d[2]] = "new"
      BY <2>6 DEF PersistSignal
    <3>2. event[d[2]] = "new" => row[d].status = "absent"
      BY DEF NewIsAbsent, AbsentRow
    <3> QED
      BY <1>1, <2>2, <3>1, <3>2, Frames DEF BackgroundRow, Background
  <2> QED
    BY <2>3, <2>4, <2>5, <2>6 DEF Registry
<1> QED
  BY <1>2, <1>3 DEF BackgroundStep

\* Start, heartbeat, recovery, shutdown and crash of a dispatcher.
LEMMA LifecycleBackground ==
    ASSUME TypeOK, Lifecycle
    PROVE  BackgroundStep
<1> PICK o \in Dispatchers :
      \/ RegisterRuntimeOwner(o)
      \/ HeartbeatRuntimeOwner(o)
      \/ RecoverAbandonedInitialReservations(o)
      \/ RecoverAbandonedLeases(o)
      \/ RecoverOwnedPendingAdmissions(o)
      \/ BeginShutdown(o)
      \/ FenceShutdown(o)
      \/ FinishShutdown(o)
      \/ Crash(o)
  BY DEF Lifecycle
<1>1. event' = event /\ turns' = turns
  BY DEF RegisterRuntimeOwner, HeartbeatRuntimeOwner,
     RecoverAbandonedInitialReservations, RecoverAbandonedLeases,
     RecoverOwnedPendingAdmissions, BeginShutdown, FenceShutdown, FinishShutdown,
     Crash, db
<1>2. ASSUME NEW t \in Tokens PROVE BackgroundLease(t)
  <2>1. CASE FinishShutdown(o)
    <3>1. CASE t \in HeldBy(o)
      BY <2>1, <3>1, Frames DEF FinishShutdown, Forget
    <3>2. CASE t \notin HeldBy(o)
      <4>1. /\ lease'[t] = lease[t] /\ (Held(t) => lease[t].holder # o)
            /\ ownerRow' = [ownerRow EXCEPT ![o] = "stopped"]
        BY <2>1, <3>2 DEF FinishShutdown, Forget, HeldBy
      <4> QED
        BY <4>1 DEF BackgroundLease, Held, LiveOwner, TypeOK
    <3> QED
      BY <3>1, <3>2
  <2>2. CASE ~FinishShutdown(o)
    <3>1. OwnersStay /\ (lease'[t] = lease[t] \/ lease'[t] = Free)
      BY <2>2 DEF RegisterRuntimeOwner, HeartbeatRuntimeOwner,
         RecoverAbandonedInitialReservations, RecoverAbandonedLeases,
         RecoverOwnedPendingAdmissions, BeginShutdown, FenceShutdown,
         Crash, db, Forget, OwnersStay, TypeOK
    <3> QED
      BY <3>1, Frames
  <2> QED
    BY <2>1, <2>2
<1>3. ASSUME NEW d \in Deliveries PROVE BackgroundRow(d)
  <2>1. row[d] \in Rows /\ d[1] \in Consumers
    BY DEF TypeOK, Deliveries
  <2>2. CASE row'[d] = row[d]
    BY <1>1, <2>2, Frames
  <2>3. CASE row[d].status = "initial_reserved" /\ row'[d] = Cleared(row[d], "retry")
    <3>1. Taken(row[d], row'[d])
      BY <2>1, <2>3, RowFields DEF Taken, Unguarded, Open
    <3> QED
      BY <1>1, <3>1 DEF BackgroundRow, Background
  <2>4. CASE RecoverAbandonedLeases(o) /\ row'[d] # row[d]
    <3>1. /\ row[d].status = "leased" /\ Abandoned(o, row[d])
          /\ row'[d] = RecoveredRow(d[1], row[d])
      BY <2>4 DEF RecoverAbandonedLeases
    <3>2. ~LiveOwner(row[d].owner)
      BY <3>1 DEF Abandoned, LiveOwner
    <3>3. Taken(row[d], row'[d])
      BY <2>1, <3>1, <3>2, RowFields DEF Taken, Unguarded, Open, Terminal
    <3> QED
      BY <1>1, <3>3 DEF BackgroundRow, Background
  <2>5. CASE RecoverOwnedPendingAdmissions(o) /\ row'[d] # row[d]
    <3>1. /\ row[d].status = "leased" /\ row[d].owner = o /\ row[d].unstarted
          /\ row'[d] = [Cleared(row[d], "retry") EXCEPT !.attempts = Refunded(row[d])]
          /\ \A t \in HeldBy(o) : lease[t].phase # "claimed"
      BY <2>5 DEF RecoverOwnedPendingAdmissions
    <3>2. /\ row'[d].status = "retry" /\ row'[d].token = Nobody
          /\ ~row'[d].unstarted /\ row'[d].attempts = Refunded(row[d])
      BY <2>1, <3>1 DEF Cleared, Rows
    <3>3. Taken(row[d], row'[d])
      BY <3>1, <3>2 DEF Taken, Unguarded, Open
    <3> QED
      BY <1>1, <3>3 DEF BackgroundRow, Background
  <2>6. CASE \/ RegisterRuntimeOwner(o) \/ HeartbeatRuntimeOwner(o)
             \/ BeginShutdown(o) \/ Crash(o)
    BY <2>2, <2>6 DEF RegisterRuntimeOwner, HeartbeatRuntimeOwner, BeginShutdown,
       Crash, db
  <2>7. CASE \/ RecoverAbandonedInitialReservations(o)
             \/ FenceShutdown(o) \/ FinishShutdown(o)
    BY <2>2, <2>3, <2>7 DEF RecoverAbandonedInitialReservations, FenceShutdown,
       FinishShutdown, ReservationsReleased
  <2> QED
    BY <2>2, <2>4, <2>5, <2>6, <2>7
<1> QED
  BY <1>2, <1>3 DEF BackgroundStep

\* Time passing, and Hold.
LEMMA TimeBackground ==
    ASSUME TypeOK, Time
    PROVE  BackgroundStep
<1>1. turns' = turns /\ \A d \in Deliveries :
                           event[d[2]] = "purged" => event'[d[2]] = "purged"
  BY DEF Time, LeaseExpires, RetryBecomesDue, RetentionEnds, HeartbeatGoesStale,
     ToggleHold, db, TypeOK, Deliveries
<1>2. ASSUME NEW d \in Deliveries PROVE BackgroundRow(d)
  <2>1. CASE row' = row
    BY <1>1, <2>1, Frames
  <2>2. ASSUME NEW k \in Deliveries, LeaseExpires(k) \/ RetryBecomesDue(k)
        PROVE  Same(row[d], row'[d])
    <3>1. \/ row' = [row EXCEPT ![k].alive = FALSE]
          \/ row' = [row EXCEPT ![k].due = TRUE]
      BY <2>2 DEF LeaseExpires, RetryBecomesDue
    <3>2. row[d] \in Rows
      BY DEF TypeOK
    <3> QED
      BY <3>1, <3>2 DEF Same, TypeOK, Rows
  <2>3. CASE \E k \in Deliveries : LeaseExpires(k) \/ RetryBecomesDue(k)
    BY <1>1, <2>2, <2>3 DEF BackgroundRow, Background
  <2> QED
    BY <2>1, <2>3 DEF Time, RetentionEnds, HeartbeatGoesStale, ToggleHold, db
<1>3. ASSUME NEW t \in Tokens PROVE BackgroundLease(t)
  <2>1. ASSUME NEW o \in Dispatchers, HeartbeatGoesStale(o)
        PROVE  BackgroundLease(t)
    <3>1. ownerRow' = [ownerRow EXCEPT ![o] = "stale"]
      BY <2>1 DEF HeartbeatGoesStale
    <3>2. CASE t \in HeldBy(o)
      <4>1. Held(t) /\ lease'[t] = [lease[t] EXCEPT !.lapsed = TRUE]
        BY <2>1, <3>2 DEF HeartbeatGoesStale, HeldBy
      <4>2. lease[t] \in [phase : Phases, holder : Holders, on : Deliveries,
                          lapsed : BOOLEAN]
        BY <4>1, HeldLease
      <4> QED
        BY <4>1, <4>2 DEF BackgroundLease
    <3>3. CASE t \notin HeldBy(o)
      <4>1. lease'[t] = lease[t] /\ (Held(t) => lease[t].holder # o)
        BY <2>1, <3>3 DEF HeartbeatGoesStale, HeldBy
      <4> QED
        BY <3>1, <4>1 DEF BackgroundLease, Held, LiveOwner, TypeOK
    <3> QED
      BY <3>2, <3>3
  <2>2. CASE lease' = lease /\ ownerRow' = ownerRow
    BY <2>2, Frames DEF OwnersStay
  <2> QED
    BY <2>1, <2>2 DEF Time, LeaseExpires, RetryBecomesDue, RetentionEnds, ToggleHold, db
<1> QED
  BY <1>2, <1>3 DEF BackgroundStep

\* Claims.
LEMMA ClaimingKeeps ==
    ASSUME TypeOK, TypeOK', TurnInv, Claiming
    PROVE  TurnInv'
<1>1. ASSUME NEW x \in Holders, NEW c \in Consumers, ClaimNothing(x, c)
      PROVE  TurnInv'
  <2>1. /\ row' = ReadyRows(c) /\ lease' = lease /\ ownerRow' = ownerRow
        /\ turns' = turns /\ event' = event
    BY <1>1 DEF ClaimNothing
  <2>2. ASSUME NEW d \in Deliveries PROVE BackgroundRow(d)
    BY <2>1, ReadyBackground DEF BackgroundRow
  <2>3. \A t \in Tokens : BackgroundLease(t)
    BY <2>1, Frames DEF OwnersStay
  <2> QED
    BY <2>2, <2>3, BackgroundKeeps DEF BackgroundStep
<1>2. ASSUME NEW x \in Holders, NEW d \in Deliveries, NEW t \in Tokens,
             ClaimDelivery(x, d, t)
      PROVE  TurnInv'
  <2> DEFINE ready == ReadyRows(d[1])
  <2>1. /\ row' = [ready EXCEPT ![d] = LeasedRow(@, x, t)]
        /\ lease' = [lease EXCEPT ![t] = Handed("claimed", x, d)]
        /\ ownerRow' = ownerRow /\ turns' = turns /\ event' = event
        /\ Claimable(x, d, ready[d])
    BY <1>2 DEF ClaimDelivery
  <2>2. ~Held(t) /\ (x \in Dispatchers => d[1] \in CoreConsumers)
    BY <1>2 DEF ClaimDelivery, Fresh, MayClaim
  <2>3. d[1] \in Consumers /\ ready \in [Deliveries -> Rows]
    BY TableTypes DEF Deliveries
  <2>4. \A k \in Deliveries : Background(k, row[k], ready[k])
    BY <2>3, ReadyBackground
  <2> HIDE DEF ready
  <2>5. \A k \in Deliveries \ {d} : BackgroundRow(k)
    BY <2>1, <2>3, <2>4 DEF BackgroundRow
  <2>6. \A u \in Tokens \ {t} : BackgroundLease(u)
    BY <2>1, Frames DEF OwnersStay, TypeOK
  <2>7. lease'[t] = Handed("claimed", x, d) /\ row'[d] = LeasedRow(ready[d], x, t)
    BY <2>1, <2>3 DEF TypeOK
  <2>8. GrantStep(x, d, t, ready[d])
    BY <2>1, <2>2, <2>3, <2>4, <2>5, <2>6, <2>7 DEF GrantStep
  <2> QED
    BY <2>8, GrantKeeps
<1>3. ASSUME NEW x \in Holders, NEW t \in Tokens, NEW t2 \in Tokens,
             ClaimInitialDelivery(t, x, t2)
      PROVE  TurnInv'
  <2> DEFINE d == lease[t].on
  <2>1. /\ Held(t) /\ lease[t].phase = "first" /\ Fresh(t2)
        /\ row[d].status = "leased" /\ row[d].token = t
        /\ row' = [row EXCEPT ![d] = LeasedRow(@, x, t2)]
        /\ lease' = [lease EXCEPT ![t] = Free, ![t2] = Handed("claimed", x, d)]
        /\ ownerRow' = ownerRow /\ turns' = turns /\ event' = event
        /\ x \in Dispatchers => d[1] \in CoreConsumers
    BY <1>3 DEF ClaimInitialDelivery, OwnsAlive, Owns, MayClaim
  <2>2. d \in Deliveries /\ row[d] \in Rows /\ row[d].attempts = 0
    BY <2>1, HeldLease DEF TurnInv, PhaseInv
  <2> HIDE DEF d
  <2>3. \A k \in Deliveries \ {d} : BackgroundRow(k)
    BY <2>1, Frames DEF TypeOK
  <2>4. \A u \in Tokens \ {t2} : BackgroundLease(u)
    <3>1. \A u \in Tokens \ {t2} : lease'[u] = lease[u] \/ lease'[u] = Free
      BY <2>1 DEF TypeOK
    <3> QED
      BY <2>1, <3>1, Frames DEF OwnersStay
  <2>5. lease'[t2] = Handed("claimed", x, d) /\ row'[d] = LeasedRow(row[d], x, t2)
    BY <2>1, <2>2 DEF TypeOK
  <2>6. GrantStep(x, d, t2, row[d])
    BY <2>1, <2>2, <2>3, <2>4, <2>5 DEF GrantStep, Fresh, d
  <2> QED
    BY <2>2, <2>6, GrantKeeps
<1> QED
  BY <1>1, <1>2, <1>3 DEF Claiming

\* A commit that reserves its deliveries: the rows were absent and no lease
\* was ever handed out for them.
LEMMA ReservedKeeps ==
    ASSUME TypeOK, TypeOK', TurnInv, NewIsAbsent, NEW o \in Dispatchers, NEW e \in Events,
           NEW f \in Injection(Subscribers(e), Tokens), PersistReserved(o, e, f)
    PROVE  TurnInv'
<1>1. /\ event[e] = "new" /\ event' = [event EXCEPT ![e] = "retained"]
      /\ \A c \in Subscribers(e) : Fresh(f[c])
      /\ turns' = turns /\ ownerRow' = ownerRow
  BY DEF PersistReserved
<1>2. \A d \in Deliveries :
         row'[d] = IF d[2] = e /\ d[1] \in Subscribers(e)
                   THEN ReservedRow(o, f[d[1]]) ELSE row[d]
  BY DEF PersistReserved
<1>3. /\ \A c \in Subscribers(e) : f[c] \in Tokens /\ c \in Consumers
      /\ \A c, k \in Subscribers(e) : f[c] = f[k] => c = k
  BY DEF Injection, IsInjective, Subscribers
<1>4. \A d \in Deliveries : /\ row[d] \in Rows /\ d[1] \in Consumers /\ d[2] \in Events
                            /\ turns[d] \in Int
  BY DEF TypeOK, Deliveries
<1>5. \A d \in Deliveries : event[d[2]] = "purged" => event'[d[2]] = "purged"
  BY <1>1, <1>4 DEF TypeOK
<1>6. ASSUME NEW d \in Deliveries, ~(d[2] = e /\ d[1] \in Subscribers(e))
      PROVE  BackgroundRow(d)
  BY <1>1, <1>2, <1>5, <1>6, Frames
<1>7. ASSUME NEW u \in Tokens, Held(u)'
      PROVE  \/ /\ Held(u) /\ lease'[u] = lease[u] /\ lease[u].on[2] # e
                /\ lease[u].on \in Deliveries
             \/ \E c \in Subscribers(e) : /\ u = f[c]
                                          /\ lease'[u] = Handed("reserved", o, <<c, e>>)
  <2>1. CASE \E c \in Subscribers(e) : f[c] = u
    <3> PICK c \in Subscribers(e) : f[c] = u
      BY <2>1
    <3>1. (CHOOSE k \in Subscribers(e) : f[k] = u) = c
      BY <1>3
    <3> QED
      BY <2>1, <3>1 DEF PersistReserved
  <2>2. CASE ~\E c \in Subscribers(e) : f[c] = u
    <3>1. lease'[u] = lease[u] /\ Held(u)
      BY <1>7, <2>2 DEF PersistReserved, Held
    <3>2. lease[u].on \in Deliveries /\ PhaseInv(u)
      BY <3>1, HeldLease DEF TurnInv
    <3>3. lease[u].on[2] # e
      BY <1>1, <3>2 DEF PhaseInv, NewIsAbsent
    <3> QED
      BY <3>1, <3>2, <3>3
  <2> QED
    BY <2>1, <2>2
<1>8. ASSUME NEW u \in Tokens, Held(u)' PROVE PhaseInv(u)'
  <2>1. CASE Held(u) /\ lease'[u] = lease[u] /\ lease[u].on[2] # e
             /\ lease[u].on \in Deliveries
    <3>1. BackgroundRow(lease[u].on) /\ BackgroundLease(u) /\ PhaseInv(u)
      BY <1>1, <1>6, <2>1, Frames DEF OwnersStay, TurnInv
    <3> QED
      BY <1>8, <3>1, BackgroundPhase
  <2>2. ASSUME NEW c \in Subscribers(e), u = f[c],
               lease'[u] = Handed("reserved", o, <<c, e>>)
        PROVE  PhaseInv(u)'
    <3> DEFINE d == <<c, e>>
               b == o \in Dispatchers /\ ~LiveOwner(o)
    <3>1. d \in Deliveries /\ d[1] = c /\ d[2] = e
      BY <1>3, <2>2 DEF Deliveries
    <3>2. row'[d] = ReservedRow(o, u)
      BY <1>2, <2>2, <3>1
    <3>3. /\ row'[d].status = "initial_reserved" /\ row'[d].attempts = 0
          /\ ~row'[d].unstarted
      BY <3>2 DEF ReservedRow, AbsentRow
    <3>4. b \in BOOLEAN /\ (~b => LiveOwner(o))
      OBVIOUS
    <3>5. lease'[u] = [phase |-> "reserved", holder |-> o, on |-> d, lapsed |-> b]
      BY <2>2 DEF Handed
    <3> HIDE DEF b, d
    <3>6. /\ lease'[u].phase = "reserved" /\ lease'[u].on = d /\ lease'[u].holder = o
          /\ ~lease'[u].lapsed => LiveOwner(o)
      BY <3>4, <3>5
    <3> QED
      BY <1>1, <3>3, <3>6 DEF PhaseInv, Protected, LiveOwner, Working, Engaged
  <2> QED
    BY <1>7, <1>8, <2>1, <2>2
<1>9. ASSUME NEW d \in Deliveries PROVE Budget(d)'
  <2>1. CASE ~(d[2] = e /\ d[1] \in Subscribers(e))
    BY <1>6, <2>1, BackgroundBudget DEF TurnInv
  <2>2. CASE d[2] = e /\ d[1] \in Subscribers(e)
    <3>1. row'[d].attempts = 0 /\ ~row'[d].unstarted
      BY <1>2, <2>2 DEF ReservedRow, AbsentRow
    <3>2. turns'[d] <= 0 /\ turns'[d] \in Int
      BY <1>1, <1>4, <2>2 DEF TurnInv, Budget, NewIsAbsent
    <3>3. MaxAttempts[d[1]] \in Nat
      BY <1>4, ConstantsAssumption
    <3> QED
      BY <3>1, <3>2, <3>3 DEF Budget
  <2> QED
    BY <2>1, <2>2
<1>10. NoOverlappingTurns'
  <2>1. ASSUME NEW u \in Tokens, Protected(u)',
               lease'[u].phase \in {"begun", "running", "debt"}
        PROVE  Protected(u) /\ lease'[u] = lease[u]
    <3> DEFINE b == o \in Dispatchers /\ ~LiveOwner(o)
    <3>h. \A c : Handed("reserved", o, <<c, e>>) =
                    [phase |-> "reserved", holder |-> o, on |-> <<c, e>>, lapsed |-> b]
      BY DEF Handed
    <3> HIDE DEF b
    <3>1. ASSUME NEW c, lease'[u] = Handed("reserved", o, <<c, e>>) PROVE FALSE
      <4>1. lease'[u] = [phase |-> "reserved", holder |-> o, on |-> <<c, e>>, lapsed |-> b]
        BY <3>1, <3>h
      <4>2. lease'[u].phase = "reserved"
        BY <4>1
      <4> QED
        BY <2>1, <4>2
    <3> QED
      BY <1>7, <2>1, <3>1 DEF Protected, Held
  <2> QED
    BY <2>1 DEF TurnInv, NoOverlappingTurns
<1> QED
  BY <1>8, <1>9, <1>10 DEF TurnInv

\* What a step of one holder leaves alone.
LEMMA HolderFrame ==
    ASSUME TypeOK, NEW t \in Tokens, Held(t), event' = event, OwnersStay,
           \A d \in Deliveries \ {lease[t].on} : row'[d] = row[d] /\ turns'[d] = turns[d],
           \A u \in Tokens \ {t} : lease'[u] = lease[u],
           \/ EndsStep(t, lease[t].on)
           \/ ActivatesStep(t, lease[t].on)
           \/ BeginsStep(t, lease[t].on)
           \/ StartsStep(t, lease[t].on)
           \/ OwesStep(t, lease[t].on)
    PROVE  HolderStep(t)
<1>1. \A d \in Deliveries \ {lease[t].on} : BackgroundRow(d)
  BY Frames
<1>2. \A u \in Tokens \ {t} : BackgroundLease(u)
  BY Frames
<1>3. \A o \in Dispatchers : LiveOwner(o) => LiveOwner(o)'
  BY DEF OwnersStay, LiveOwner
<1> QED
  BY <1>1, <1>2, <1>3 DEF HolderStep

\* The rows a holder writes when it settles.
LEMMA SettledFields ==
    ASSUME NEW d \in Deliveries, NEW r \in Rows
    PROVE  /\ \A s \in {"retry"} \union Terminal :
                 Settling(r, Cleared(r, s)) /\ Cleared(r, s).attempts = r.attempts
           /\ LET s == HoldReturnedRow(d[1], r)
              IN /\ Settling(r, s) /\ s.attempts = Refunded(r)
                 /\ KeepsIdentity(d, r, s)
           /\ \A outcome \in {"retry", "terminal", "ackable"}, due \in BOOLEAN :
                 LET s == NackedRow(d[1], r, outcome, due)
                 IN /\ Settling(r, s) /\ s.attempts = r.attempts
                    /\ KeepsIdentity(d, r, s)
<1> USE DEF Rows, Settling, Terminal
<1>1. \A s \in {"retry"} \union Terminal :
         Settling(r, Cleared(r, s)) /\ Cleared(r, s).attempts = r.attempts
  BY DEF Cleared
<1>2. LET s == HoldReturnedRow(d[1], r)
      IN /\ Settling(r, s) /\ s.attempts = Refunded(r)
         /\ KeepsIdentity(d, r, s)
  BY DEF HoldReturnedRow, Cleared, RetainsIdentity, KeepsIdentity
<1>3. ASSUME NEW outcome \in {"retry", "terminal", "ackable"}, NEW due \in BOOLEAN
      PROVE  LET s == NackedRow(d[1], r, outcome, due)
             IN /\ Settling(r, s) /\ s.attempts = r.attempts
                /\ KeepsIdentity(d, r, s)
  BY DEF NackedRow, Cleared, RetainsIdentity, KeepsIdentity
<1> QED
  BY <1>1, <1>2, <1>3

\* Everything the holder of a token does is a step of that holder.
LEMMA ExecutingHolder ==
    ASSUME TypeOK, Executing
    PROVE  \E t \in Tokens : HolderStep(t)
<1> PICK t \in Tokens :
      \/ ActivateInitialDelivery(t)
      \/ AbandonInitialReservation(t)
      \/ BeginExecution(t)
      \/ StartTurn(t)
      \/ ReleaseForHold(t)
      \/ ReleaseForHoldFails(t)
      \/ AckDelivery(t)
      \/ AckAndComplete(t)
      \/ \E outcome \in {"retry", "terminal", "ackable"}, due \in BOOLEAN :
            NackDelivery(t, outcome, due)
      \/ \E outcome \in {"retry", "ackable"} : ReleaseAfterTask(t, outcome)
      \/ SettlementUnknown(t)
      \/ RetainedReleaseFails(t)
      \/ TerminalizeFailedCognition(t)
      \/ InterruptedByShutdown(t)
      \/ ExecutorVanishes(t)
  BY DEF Executing
<1> DEFINE d == lease[t].on
<1>h. Held(t)
  BY DEF ActivateInitialDelivery, AbandonInitialReservation, BeginExecution, StartTurn,
     ReleaseForHold, ReleaseForHoldFails, AckDelivery, AckAndComplete, NackDelivery,
     ReleaseAfterTask, SettlementUnknown, RetainedReleaseFails,
     TerminalizeFailedCognition, InterruptedByShutdown, ExecutorVanishes, Begun
<1>t. /\ d \in Deliveries /\ d[1] \in Consumers /\ row[d] \in Rows
      /\ d = <<d[1], d[2]>> /\ row \in [Deliveries -> Rows]
      /\ turns \in [Deliveries -> Int] /\ lease \in [Tokens -> Leases]
      /\ Same(row[d], row[d])
  BY <1>h, HeldLease DEF TypeOK, Deliveries, Same
<1>e. event' = event /\ OwnersStay
  BY DEF ActivateInitialDelivery, AbandonInitialReservation, BeginExecution, StartTurn,
     ReleaseForHold, ReleaseForHoldFails, AckDelivery, AckAndComplete, NackDelivery,
     ReleaseAfterTask, SettlementUnknown, RetainedReleaseFails,
     TerminalizeFailedCognition, InterruptedByShutdown, ExecutorVanishes, db,
     OwnersStay, TypeOK
<1>l. ASSUME Drop(t) \/ \E p \in Phases : Enter(t, p)
      PROVE  \A u \in Tokens \ {t} : lease'[u] = lease[u]
  BY <1>l, <1>t DEF Drop, Enter
<1>d. ASSUME Drop(t) PROVE lease'[t] = Free
  BY <1>d, <1>t DEF Drop
<1>p. ASSUME NEW p, Enter(t, p) PROVE GoesOn(t, p)
  BY <1>p, <1>t DEF Enter, GoesOn
<1>f. /\ \A s \in {"retry"} \union Terminal :
            Settling(row[d], Cleared(row[d], s))
            /\ Cleared(row[d], s).attempts = row[d].attempts
      /\ LET s == HoldReturnedRow(d[1], row[d])
         IN /\ Settling(row[d], s) /\ s.attempts = Refunded(row[d])
            /\ KeepsIdentity(d, row[d], s)
      /\ \A outcome \in {"retry", "terminal", "ackable"}, due \in BOOLEAN :
            LET s == NackedRow(d[1], row[d], outcome, due)
            IN /\ Settling(row[d], s) /\ s.attempts = row[d].attempts
               /\ KeepsIdentity(d, row[d], s)
  BY <1>t, SettledFields
<1>r. ASSUME NEW s, row' = [row EXCEPT ![d] = s]
      PROVE  row'[d] = s /\ \A k \in Deliveries \ {d} : row'[k] = row[k]
  BY <1>r, <1>t
<1> HIDE DEF d
\* The holder stops without touching its row.
<1>1. CASE row' = row /\ turns' = turns /\ Drop(t)
  <2>1. EndsStep(t, d)
    BY <1>1, <1>d, <1>t DEF EndsStep
  <2> QED
    BY <1>1, <1>e, <1>h, <1>l, <2>1, HolderFrame DEF d
\* The holder gives its row up with the attempt counted.
<1>2. CASE /\ turns' = turns /\ Drop(t) /\ row[d].token = t
           /\ row[d].status \in {"initial_reserved", "leased", "retry"}
           /\ \E s : /\ row' = [row EXCEPT ![d] = s] /\ Settling(row[d], s)
                     /\ s.attempts = row[d].attempts
  <2>1. EndsStep(t, d) /\ \A k \in Deliveries \ {d} : row'[k] = row[k]
    BY <1>2, <1>d, <1>r DEF EndsStep
  <2> QED
    BY <1>2, <1>e, <1>h, <1>l, <2>1, HolderFrame DEF d
<1>3. CASE ActivateInitialDelivery(t)
  <2>1. CASE row' = row
    BY <1>1, <2>1, <1>3, <1>t DEF ActivateInitialDelivery, d, Enter, Rows
  <2>2. CASE row' # row
    <3>1. /\ row' = [row EXCEPT ![d].status = "leased", ![d].alive = TRUE]
          /\ row[d].status = "initial_reserved" /\ row[d].token = t
          /\ Enter(t, "first") /\ turns' = turns /\ lease[t].phase = "reserved"
      BY <1>3, <2>2 DEF ActivateInitialDelivery, d
    <3>2. \A k \in Deliveries \ {d} : row'[k] = row[k]
      BY <3>1, <1>t
    <3>3. row'[d] = [row[d] EXCEPT !.status = "leased", !.alive = TRUE]
      BY <3>1, <1>t
    <3>4. Same([row[d] EXCEPT !.status = "leased"], row'[d])
      BY <3>3, <1>t DEF Same, Rows
    <3>5. ActivatesStep(t, d)
      BY <3>1, <3>4, <1>p DEF ActivatesStep
    <3>6. "first" \in Phases
      BY DEF Phases
    <3> QED
      BY <1>e, <1>h, <1>l, <3>1, <3>2, <3>5, <3>6, HolderFrame DEF d
  <2> QED
    BY <2>1, <2>2
<1>4. CASE AbandonInitialReservation(t)
  BY <1>1, <1>2, <1>4, <1>f DEF AbandonInitialReservation, d
<1>5. CASE BeginExecution(t)
  <2>1. CASE Drop(t) /\ row' = row /\ turns' = turns
    BY <1>1, <2>1
  <2>2. CASE ~(Drop(t) /\ row' = row /\ turns' = turns)
    <3>1. /\ row' = [row EXCEPT ![d].unstarted = FALSE]
          /\ Owns(t, d) /\ row[d].unstarted /\ lease[t].phase = "claimed"
          /\ turns' = [turns EXCEPT ![d] = @ + 1]
          /\ Enter(t, "begun") \/ Enter(t, "running")
      BY <1>5, <2>2 DEF BeginExecution, d
    <3>2. /\ \A k \in Deliveries \ {d} : row'[k] = row[k] /\ turns'[k] = turns[k]
          /\ turns'[d] = turns[d] + 1
      BY <3>1, <1>t
    <3>3. row'[d] = [row[d] EXCEPT !.unstarted = FALSE]
      BY <3>1, <1>t
    <3>4. Same([row[d] EXCEPT !.unstarted = FALSE], row'[d])
      BY <3>3 DEF Same
    <3>5. BeginsStep(t, d)
      BY <3>1, <3>2, <3>4, <1>p DEF BeginsStep
    <3>6. "begun" \in Phases /\ "running" \in Phases
      BY DEF Phases
    <3> QED
      BY <1>e, <1>h, <1>l, <3>1, <3>2, <3>5, <3>6, HolderFrame DEF d
  <2> QED
    BY <2>1, <2>2
<1>6. CASE StartTurn(t)
  <2>1. /\ row' = row /\ turns' = turns /\ Enter(t, "running")
        /\ lease[t].phase = "begun" /\ "running" \in Phases
    BY <1>6 DEF StartTurn, db, Phases
  <2>2. StartsStep(t, d)
    BY <2>1, <1>p DEF StartsStep
  <2> QED
    BY <1>e, <1>h, <1>l, <2>1, <2>2, HolderFrame DEF d
<1>7. CASE ReleaseForHold(t)
  <2>1. CASE row' = row /\ turns' = turns
    BY <1>1, <1>7, <2>1 DEF ReleaseForHold
  <2>2. CASE ~(row' = row /\ turns' = turns)
    <3>1. /\ row' = [row EXCEPT ![d] = HoldReturnedRow(d[1], row[d])]
          /\ Owns(t, d) /\ Drop(t)
          /\ turns' = [turns EXCEPT ![d] = IF lease[t].phase = "begun" THEN @ - 1 ELSE @]
          /\ lease[t].phase \in {"first", "claimed", "begun"}
      BY <1>7, <2>2 DEF ReleaseForHold, d
    <3>2. /\ \A k \in Deliveries \ {d} : row'[k] = row[k] /\ turns'[k] = turns[k]
          /\ row'[d] = HoldReturnedRow(d[1], row[d])
          /\ turns'[d] = IF lease[t].phase = "begun" THEN turns[d] - 1 ELSE turns[d]
      BY <3>1, <1>t
    <3>3. EndsStep(t, d)
      BY <1>d, <1>f, <3>1, <3>2 DEF EndsStep, Owns
    <3> QED
      BY <1>e, <1>h, <1>l, <3>1, <3>2, <3>3, HolderFrame DEF d
  <2> QED
    BY <2>1, <2>2
<1>8. CASE AckDelivery(t)
  <2>1. /\ Drop(t) /\ turns' = turns
        /\ \/ row' = row
           \/ /\ row[d].status = "leased" /\ row[d].token = t
              /\ row' = [row EXCEPT ![d] = Cleared(row[d], "acknowledged")]
    BY <1>8 DEF AckDelivery, OwnsAlive, Owns, d
  <2>2. "acknowledged" \in {"retry"} \union Terminal
    BY DEF Terminal
  <2> QED
    BY <1>1, <1>2, <1>f, <2>1, <2>2
<1>9. CASE AckAndComplete(t)
  <2> DEFINE acked == [row EXCEPT ![d] = Cleared(@, "acknowledged")]
  <2>1. /\ row[d].status = "leased" /\ row[d].token = t /\ Drop(t) /\ turns' = turns
        /\ row' = Terminalized(d[1], acked)
    BY <1>9 DEF AckAndComplete, OwnsAlive, Owns, d
  <2>2. Settling(row[d], Cleared(row[d], "acknowledged"))
        /\ Cleared(row[d], "acknowledged").attempts = row[d].attempts
        /\ Cleared(row[d], "acknowledged").status = "acknowledged"
    BY <1>f, <1>t, RowFields DEF Terminal
  <2>3. acked[d] = Cleared(row[d], "acknowledged")
        /\ \A k \in Deliveries \ {d} : acked[k] = row[k]
    BY <1>t
  <2>4. row'[d] = Cleared(row[d], "acknowledged")
    BY <1>t, <2>1, <2>2, <2>3 DEF Terminalized, Open
  <2>5. EndsStep(t, d)
    BY <1>d, <2>1, <2>2, <2>4 DEF EndsStep
  <2>6. ASSUME NEW k \in Deliveries \ {d} PROVE BackgroundRow(k)
    <3>1. \/ row'[k] = row[k]
          \/ row[k].status \in Open /\ row'[k] = Cleared(row[k], "failed")
      BY <2>1, <2>3 DEF Terminalized
    <3>2. row[k] \in Rows /\ k[1] \in Consumers
      BY <1>t DEF Deliveries
    <3>3. row[k].status \in Open /\ row'[k] = Cleared(row[k], "failed") =>
             Taken(row[k], row'[k])
      BY <3>2, RowFields DEF Taken, Terminal
    <3> QED
      BY <1>e, <2>1, <3>1, <3>3, Frames DEF BackgroundRow, Background
  <2>7. \A u \in Tokens \ {t} : BackgroundLease(u)
    BY <1>e, <1>l, <2>1, Frames
  <2>8. \A o \in Dispatchers : LiveOwner(o) => LiveOwner(o)'
    BY <1>e DEF OwnersStay, LiveOwner
  <2> QED
    BY <1>e, <1>h, <2>5, <2>6, <2>7, <2>8 DEF HolderStep, d
<1>10. CASE \E outcome \in {"retry", "terminal", "ackable"}, due \in BOOLEAN :
               NackDelivery(t, outcome, due)
  <2> PICK outcome \in {"retry", "terminal", "ackable"}, due \in BOOLEAN :
        NackDelivery(t, outcome, due)
    BY <1>10
  <2>1. /\ Drop(t) /\ turns' = turns
        /\ \/ row' = row
           \/ /\ row[d].status = "leased" /\ row[d].token = t
              /\ row' = [row EXCEPT ![d] = NackedRow(d[1], row[d], outcome, due)]
    BY DEF NackDelivery, OwnsAlive, Owns, d
  <2>2. /\ Settling(row[d], NackedRow(d[1], row[d], outcome, due))
        /\ NackedRow(d[1], row[d], outcome, due).attempts = row[d].attempts
    BY <1>f
  <2> QED
    BY <1>1, <1>2, <2>1, <2>2
<1>11. CASE \E outcome \in {"retry", "ackable"} : ReleaseAfterTask(t, outcome)
  BY <1>1, <1>2, <1>11, <1>f DEF ReleaseAfterTask, Owns, d
<1>12. CASE SettlementUnknown(t)
  <2>1. Enter(t, "debt") /\ lease[t].phase \in {"begun", "running"} /\ "debt" \in Phases
    BY <1>12 DEF SettlementUnknown, Begun, Phases
  <2>2. CASE row' = row /\ turns' = turns
    <3>1. OwesStep(t, d)
      BY <1>p, <2>1, <2>2 DEF OwesStep
    <3> QED
      BY <1>e, <1>h, <1>l, <2>1, <2>2, <3>1, HolderFrame DEF d
  <2>3. CASE ~(row' = row /\ turns' = turns)
    <3>1. /\ Owns(t, d)
          /\ \/ /\ row' = [row EXCEPT ![d] = NackedRow(d[1], row[d], "retry", TRUE)]
                /\ turns' = turns
             \/ /\ row' = [row EXCEPT ![d] = Cleared(row[d], "acknowledged")]
                /\ turns' = turns
             \/ /\ row' = [row EXCEPT ![d] = HoldReturnedRow(d[1], row[d])]
                /\ turns' = [turns EXCEPT ![d] = @ - 1]
      BY <1>12, <2>3 DEF SettlementUnknown, OwnsAlive, Owns, d
    <3>2. \A k \in Deliveries \ {d} : row'[k] = row[k] /\ turns'[k] = turns[k]
      BY <1>t, <3>1
    <3>3. \/ row'[d] = NackedRow(d[1], row[d], "retry", TRUE) /\ turns'[d] = turns[d]
          \/ row'[d] = Cleared(row[d], "acknowledged") /\ turns'[d] = turns[d]
          \/ row'[d] = HoldReturnedRow(d[1], row[d]) /\ turns'[d] = turns[d] - 1
      BY <1>t, <3>1
    <3>4. KeepsIdentity(d, row[d], Cleared(row[d], "acknowledged"))
      BY <1>t, RowFields DEF KeepsIdentity
    <3>5. /\ Settling(row[d], row'[d]) /\ KeepsIdentity(d, row[d], row'[d])
          /\ \/ row'[d].attempts = row[d].attempts /\ turns'[d] = turns[d]
             \/ row'[d].attempts = Refunded(row[d]) /\ turns'[d] = turns[d] - 1
      BY <1>f, <3>3, <3>4 DEF Terminal
    <3>6. OwesStep(t, d)
      BY <1>p, <2>1, <3>1, <3>5 DEF OwesStep
    <3> QED
      BY <1>e, <1>h, <1>l, <2>1, <3>2, <3>6, HolderFrame DEF d
  <2> QED
    BY <2>2, <2>3
<1>13. CASE TerminalizeFailedCognition(t)
  BY <1>2, <1>13, <1>f DEF TerminalizeFailedCognition, Terminal, d
<1>14. CASE \/ ReleaseForHoldFails(t) \/ RetainedReleaseFails(t)
            \/ InterruptedByShutdown(t) \/ ExecutorVanishes(t)
  BY <1>1, <1>14 DEF ReleaseForHoldFails, RetainedReleaseFails, InterruptedByShutdown,
     ExecutorVanishes, db
<1> QED
  BY <1>3, <1>4, <1>5, <1>6, <1>7, <1>8, <1>9, <1>10, <1>11, <1>12, <1>13, <1>14

-----------------------------------------------------------------------------
(* The theorems.                                                           *)

\* The inductive step: every operation keeps TurnInv.
LEMMA TurnInvInductive ==
    ASSUME TypeOK, TypeOK', NewIsAbsent, TurnInv, Next
    PROVE  TurnInv'
<1>1. CASE Registry
  BY <1>1, IngressBackground, BackgroundKeeps
<1>2. CASE Ingress
  <2>1. ASSUME NEW e \in Events, PurgeExpired(e) PROVE TurnInv'
    BY <2>1, IngressBackground, BackgroundKeeps
  <2>2. ASSUME NEW o \in Dispatchers, NEW e \in Events, PersistSignal(o, e)
        PROVE  TurnInv'
    BY <2>2, IngressBackground, BackgroundKeeps
  <2>3. ASSUME NEW o \in Dispatchers, NEW e \in Events,
               NEW f \in Injection(Subscribers(e), Tokens), PersistReserved(o, e, f)
        PROVE  TurnInv'
    BY <2>3, ReservedKeeps
  <2> QED
    BY <1>2, <2>1, <2>2, <2>3 DEF Ingress
<1>3. CASE Lifecycle
  BY <1>3, LifecycleBackground, BackgroundKeeps
<1>4. CASE Claiming
  BY <1>4, ClaimingKeeps
<1>5. CASE Executing
  BY <1>5, ExecutingHolder, HolderKeeps
<1>6. CASE Time
  BY <1>6, TimeBackground, BackgroundKeeps
<1> QED
  BY <1>1, <1>2, <1>3, <1>4, <1>5, <1>6 DEF Next

\* In every reachable state the phase of each lease agrees with its row and
\* the attempts column pays for every execution begun.
THEOREM TurnInvHolds == Spec => []TurnInv
<1>1. Init => TurnInv
  <2> SUFFICES ASSUME Init PROVE TurnInv
    OBVIOUS
  <2>1. \A t \in Tokens : ~Held(t)
    BY DEF Init, Held
  <2>2. ASSUME NEW d \in Deliveries PROVE Budget(d)
    <3>1. turns[d] = 0 /\ row[d] = AbsentRow /\ MaxAttempts[d[1]] \in Nat
      BY ConstantsAssumption DEF Init, Deliveries
    <3> QED
      BY <3>1 DEF Budget, AbsentRow
  <2>3. NoOverlappingTurns
    BY <2>1 DEF NoOverlappingTurns, Protected
  <2> QED
    BY <2>1, <2>2, <2>3 DEF TurnInv
<1>2. TypeOK /\ TypeOK' /\ NewIsAbsent /\ TurnInv /\ [Next]_vars => TurnInv'
  <2>1. CASE Next
    BY <2>1, TurnInvInductive
  <2>2. CASE UNCHANGED vars
    BY <2>2 DEF vars, TurnInv, PhaseInv, Budget, NoOverlappingTurns, Protected, Held,
       LiveOwner, Settled, Owns
  <2> QED
    BY <2>1, <2>2
<1>3. LifeInv => NewIsAbsent
  BY DEF LifeInv
<1> QED
  BY <1>1, <1>2, <1>3, TypeCorrect, LifeInvHolds, PTL DEF Spec

\* A live owner is never robbed of a row it works on, even past the deadline
\* of its lease (release_managed_delivery_after_task relies on it).
THEOREM OwnerKeepsRow == Spec => []LiveOwnerKeepsItsRow
<1>1. TurnInv => LiveOwnerKeepsItsRow
  BY DEF TurnInv, PhaseInv, LiveOwnerKeepsItsRow, Protected, Owns, Working
<1> QED
  BY <1>1, TurnInvHolds, PTL

\* Managed executions of one delivery, and the debts they leave, never overlap
\* while their owners' heartbeats hold.
THEOREM TurnsApart == Spec => []NoOverlappingTurns
<1>1. TurnInv => NoOverlappingTurns
  BY DEF TurnInv
<1> QED
  BY <1>1, TurnInvHolds, PTL

\* No delivery is executed more often than its consumer's max_attempts.
THEOREM BudgetHolds == Spec => []TurnsWithinBudget
<1>1. TurnInv => TurnsWithinBudget
  BY DEF TurnInv, Budget, TurnsWithinBudget
<1> QED
  BY <1>1, TurnInvHolds, PTL

=============================================================================
