--------------------------- MODULE SourceSequence ---------------------------
(***************************************************************************)
(* The per-scope commit counter of the durable signal ledger               *)
(* (signals/durable.py) for one (agent, source) scope.                     *)
(*                                                                         *)
(* The counter is stored three times (SOURCE_SEQUENCES, ..._RECOVERY and   *)
(* ..._HIGH_WATER), next to a marker row (..._SEEN) saying that the scope  *)
(* was used.  Every transaction that needs the counter first runs          *)
(* _source_sequence_locked, which repairs the copies from their maximum or *)
(* raises.  A raise rolls the transaction back, so an operation whose      *)
(* guard is false here is one the code refuses.                            *)
(* Operators named Mutant... are seeded faults of the definition that      *)
(* follows them; they are not part of the specification.                   *)
(*                                                                         *)
(* Each transaction holds the scope's handoff lock, so it is one action.   *)
(* A missing row and a row holding 0 are the same to the code (it inserts  *)
(* 0 for a missing row before reading), so both are 0 here.                *)
(***************************************************************************)
EXTENDS Integers, FiniteSets

CONSTANTS
    Events,        \* identities of the events of this scope
    MaxSequence    \* _MAX_SOURCE_SEQUENCE

ASSUME MaxSequenceAssumption == MaxSequence \in Nat

VARIABLES
    primary,     \* SOURCE_SEQUENCES.current_sequence
    recovery,    \* SOURCE_SEQUENCE_RECOVERY.recovery_sequence
    highWater,   \* SOURCE_SEQUENCE_HIGH_WATER.high_water_sequence
    seen,        \* SOURCE_SEQUENCE_SEEN has a row for the scope
    retained,    \* events whose row is still in EVENTS
    sequenceOf,  \* the source_sequence each event was committed with, 0: none
    top,         \* history: the highest sequence ever committed
    captured,    \* history: <<boundary, events committed when it was taken>>
    undetectable \* history: some loss left no evidence that could reveal it

ledger == <<primary, recovery, highWater, seen>>
vars == <<primary, recovery, highWater, seen, retained, sequenceOf, top,
          captured, undetectable>>

Sequences == 0..MaxSequence

Larger(a, b) == IF a >= b THEN a ELSE b

\* exact_sequence: what the surviving copies agree on at most.
Exact(p, r, h) == Larger(p, Larger(r, h))

\* retained_sequence of _source_sequence_locked exceeds n: the descending
\* index lookup finds a retained event numbered above n.
RetainedAbove(n) == \E e \in retained : sequenceOf[e] > n

Committed == {e \in Events : sequenceOf[e] > 0}

(***************************************************************************)
(* _source_sequence_locked raises when the scope was used but neither      *)
(* independent copy is positive, or when retained history exceeds every    *)
(* copy; otherwise it returns the maximum.                                 *)
(***************************************************************************)
MutantReadableIgnoresHistory == ~(seen /\ recovery < 1 /\ highWater < 1)

MutantReadableRefusesOneLoss ==
    /\ ~(seen /\ (recovery < 1 \/ highWater < 1))
    /\ ~RetainedAbove(Exact(primary, recovery, highWater))

CounterReadable ==
    /\ ~(seen /\ recovery < 1 /\ highWater < 1)
    /\ ~RetainedAbove(Exact(primary, recovery, highWater))

RepairedSequence == Exact(primary, recovery, highWater)

\* _set_source_sequence_locked: every copy, and the marker once positive.
SetSequence(n) ==
    /\ primary' = n
    /\ recovery' = n
    /\ highWater' = n
    /\ seen' = (seen \/ n > 0)

-----------------------------------------------------------------------------

(***************************************************************************)
(* What the surviving rows must still say for a loss to be repairable or   *)
(* noticed: an exact copy, the marker alone, or a retained event numbered  *)
(* above the copies.                                                       *)
(***************************************************************************)
Evident(p, r, h, s, kept) ==
    \/ Exact(p, r, h) = top
    \/ s /\ p = 0 /\ r = 0 /\ h = 0
    \/ \E e \in kept : sequenceOf[e] > Exact(p, r, h)

Init ==
    /\ primary = 0 /\ recovery = 0 /\ highWater = 0
    /\ seen = FALSE
    /\ retained = {}
    /\ sequenceOf = [e \in Events |-> 0]
    /\ top = 0
    /\ captured = {}
    /\ undetectable = FALSE

MutantPersistWithoutOverflowCheck(e) ==
    /\ sequenceOf[e] = 0
    /\ CounterReadable
    /\ SetSequence(RepairedSequence + 1)
    /\ sequenceOf' = [sequenceOf EXCEPT ![e] = RepairedSequence + 1]
    /\ top' = Larger(top, RepairedSequence + 1)
    /\ retained' = retained \union {e}
    /\ UNCHANGED <<captured, undetectable>>

\* persist_signal of an event the ledger does not hold: advance the counter
\* and insert the event with it.  The overflow check is part of the advance.
PersistSignal(e) ==
    /\ sequenceOf[e] = 0
    /\ CounterReadable
    /\ RepairedSequence < MaxSequence
    /\ LET n == RepairedSequence + 1
       IN /\ SetSequence(n)
          /\ sequenceOf' = [sequenceOf EXCEPT ![e] = n]
          /\ top' = Larger(top, n)
    /\ retained' = retained \union {e}
    /\ UNCHANGED <<captured, undetectable>>

MutantCaptureReadsPrimaryOnly ==
    /\ CounterReadable
    /\ SetSequence(RepairedSequence)
    /\ captured' = captured \union {<<primary, Committed>>}
    /\ UNCHANGED <<retained, sequenceOf, top, undetectable>>

\* capture_source_boundary: return the counter; the repair is committed.
CaptureSourceBoundary ==
    /\ CounterReadable
    /\ SetSequence(RepairedSequence)
    /\ captured' = captured \union {<<RepairedSequence, Committed>>}
    /\ UNCHANGED <<retained, sequenceOf, top, undetectable>>

\* purge_expired: retention removes events; whether an event's deliveries are
\* terminal is DurableSignals' business.  It never reads the counter, so it
\* may remove the last evidence of a loss.
PurgeExpired(gone) ==
    /\ gone # {}
    /\ gone \subseteq retained
    /\ retained' = retained \ gone
    /\ undetectable' =
         (undetectable \/ ~Evident(primary, recovery, highWater, seen, retained'))
    /\ UNCHANGED <<ledger, sequenceOf, top, captured>>

\* retire_source_history: refuse a boundary beyond the counter, otherwise
\* delete everything at or below it.
RetireSourceHistory(boundary) ==
    /\ CounterReadable
    /\ boundary <= RepairedSequence
    /\ SetSequence(RepairedSequence)
    /\ retained' = {e \in retained : sequenceOf[e] > boundary}
    /\ UNCHANGED <<sequenceOf, top, captured, undetectable>>

-----------------------------------------------------------------------------

(***************************************************************************)
(* Damage.  Rows of the counter tables can be deleted, and a restored      *)
(* backup can leave an older value in an independent copy (the primary's   *)
(* update triggers clamp an older value, so the primary is only deleted).  *)
(***************************************************************************)
Damage(p, r, h, s) ==
    /\ p \in {0, primary}
    /\ r \in 0..recovery
    /\ h \in 0..highWater
    /\ s => seen

LoseRows(p, r, h, s) ==
    /\ Damage(p, r, h, s)
    /\ primary' = p
    /\ recovery' = r
    /\ highWater' = h
    /\ seen' = s
    /\ undetectable' = (undetectable \/ ~Evident(p, r, h, s, retained))
    /\ UNCHANGED <<retained, sequenceOf, top, captured>>

(***************************************************************************)
(* A restart after the tables in `dropped' were lost while the process was *)
(* down: the bootstrap (SQLite path) recreates them, restores the primary  *)
(* from the larger independent copy (its insert trigger mirrors the value  *)
(* back to the others), and, when an independent table or the marker table *)
(* is new, adopts the surviving values into all of them.                   *)
(***************************************************************************)
Tables == {"primary", "recovery", "highWater", "seen"}

Bootstrap(dropped) ==
    LET p0 == IF "primary" \in dropped THEN 0 ELSE primary
        r0 == IF "recovery" \in dropped THEN 0 ELSE recovery
        h0 == IF "highWater" \in dropped THEN 0 ELSE highWater
        s0 == seen /\ "seen" \notin dropped
        restore == "primary" \in dropped /\ Larger(r0, h0) > 0
        p1 == IF restore THEN Larger(r0, h0) ELSE p0
        adopt == \/ "recovery" \in dropped /\ "primary" \notin dropped
                 \/ "highWater" \in dropped
                 \/ "seen" \in dropped
        r1 == IF restore \/ (adopt /\ r0 = 0) THEN p1 ELSE r0
        h1 == IF restore \/ adopt THEN Exact(p1, r1, h0) ELSE h0
    IN /\ dropped # {}
       /\ primary' = p1
       /\ recovery' = r1
       /\ highWater' = h1
       /\ seen' = (s0 \/ ((restore \/ adopt) /\ Exact(p1, r1, h1) > 0))
       /\ undetectable' = (undetectable \/ ~Evident(p0, r0, h0, s0, retained))
       /\ UNCHANGED <<retained, sequenceOf, top, captured>>

Next ==
    \/ \E e \in Events : PersistSignal(e)
    \/ CaptureSourceBoundary
    \/ \E gone \in SUBSET retained : PurgeExpired(gone)
    \/ \E boundary \in Sequences : RetireSourceHistory(boundary)
    \/ \E p \in Sequences, r \in Sequences, h \in Sequences, s \in BOOLEAN :
          LoseRows(p, r, h, s)
    \/ \E dropped \in SUBSET Tables : Bootstrap(dropped)

Spec == Init /\ [][Next]_vars

-----------------------------------------------------------------------------

TypeOK ==
    /\ primary \in Sequences
    /\ recovery \in Sequences
    /\ highWater \in Sequences
    /\ seen \in BOOLEAN
    /\ retained \subseteq Events
    /\ sequenceOf \in [Events -> Sequences]
    /\ top \in Sequences
    /\ captured \subseteq (Sequences \X SUBSET Events)
    /\ undetectable \in BOOLEAN

(***************************************************************************)
(* No sequence number is ever issued twice, whatever rows or tables of the *)
(* counter were lost between two commits and whatever history was purged,  *)
(* as long as every loss left some evidence (_source_sequence_locked,      *)
(* _advance_source_sequence_locked, the bootstrap's restore and adoption). *)
(***************************************************************************)
NoSequenceReuse ==
    ~undetectable =>
        \A e, f \in Committed : sequenceOf[e] = sequenceOf[f] => e = f

(***************************************************************************)
(* A boundary returned by capture_source_boundary separates the history:   *)
(* an event is eligible (is_event_eligible: sequence above the boundary)   *)
(* exactly when it committed after the capture, for ever after, across     *)
(* purges, retirement, damage, repair and restarts.                        *)
(***************************************************************************)
BoundarySeparatesHistory ==
    ~undetectable =>
        \A b \in captured : \A e \in Committed :
            sequenceOf[e] <= b[1] <=> e \in b[2]

(***************************************************************************)
(* Losing any single row of the four never stops ingress: the counter can  *)
(* still be read and repaired (the fail-closed checks of                   *)
(* _source_sequence_locked fire only on a compound loss).                  *)
(***************************************************************************)
Survivors ==
    {t \in Tables : \/ t = "primary" /\ primary = top
                    \/ t = "recovery" /\ recovery = top
                    \/ t = "highWater" /\ highWater = top
                    \/ t = "seen" /\ (seen \/ top = 0)}

SingleLossIsRepairable ==
    Cardinality(Survivors) >= 3 => CounterReadable /\ RepairedSequence = top

(***************************************************************************)
(* The inductive invariant behind the first two: while no loss went        *)
(* unnoticed, the copies' maximum is exact or an operation will refuse.    *)
(***************************************************************************)
CopiesBounded ==
    /\ primary <= top
    /\ recovery <= top
    /\ highWater <= top

HistoryBounded ==
    /\ retained \subseteq Committed
    /\ \A e \in Events : sequenceOf[e] <= top
    /\ \A b \in captured : b[1] <= top /\ b[2] \subseteq Committed

EvidenceStands ==
    ~undetectable => Evident(primary, recovery, highWater, seen, retained)

SequenceInv ==
    /\ CopiesBounded
    /\ HistoryBounded
    /\ EvidenceStands
    /\ NoSequenceReuse
    /\ BoundarySeparatesHistory

=============================================================================
