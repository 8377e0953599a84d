----------------------- MODULE SourceSequence_proofs -----------------------
(***************************************************************************)
(* TLAPS proofs about SourceSequence, for every set of events and every    *)
(* bound of the counter.                                                   *)
(***************************************************************************)
EXTENDS SourceSequence, FiniteSetTheorems, TLAPS

\* The copies' maximum is one of them and bounds the others
\* (exact_sequence of _source_sequence_locked).
LEMMA ExactIsMaximum ==
    ASSUME NEW p \in Nat, NEW r \in Nat, NEW h \in Nat
    PROVE  /\ Exact(p, r, h) \in {p, r, h}
           /\ p <= Exact(p, r, h)
           /\ r <= Exact(p, r, h)
           /\ h <= Exact(p, r, h)
BY DEF Exact, Larger

\* Every reachable state is well typed: no operation of the counter, no loss
\* and no bootstrap leaves the range of _MAX_SOURCE_SEQUENCE.
THEOREM TypeCorrect == Spec => []TypeOK
<1>1. Init => TypeOK
  <2> SUFFICES ASSUME Init PROVE TypeOK
    OBVIOUS
  <2>1. 0 \in Sequences
    BY MaxSequenceAssumption DEF Sequences
  <2>2. sequenceOf \in [Events -> Sequences]
    BY <2>1 DEF Init
  <2>3. seen \in BOOLEAN /\ undetectable \in BOOLEAN
    BY Zenon DEF Init
  <2>4. retained \subseteq Events /\ captured \subseteq (Sequences \X SUBSET Events)
    BY Zenon DEF Init
  <2>5. primary \in Sequences /\ recovery \in Sequences /\ highWater \in Sequences
        /\ top \in Sequences
    BY <2>1 DEF Init
  <2> QED
    BY <2>2, <2>3, <2>4, <2>5 DEF TypeOK
<1>2. TypeOK /\ [Next]_vars => TypeOK'
  <2> SUFFICES ASSUME TypeOK, [Next]_vars PROVE TypeOK'
    OBVIOUS
  <2>r. RepairedSequence \in Sequences
    BY ExactIsMaximum, MaxSequenceAssumption DEF TypeOK, Sequences, RepairedSequence
  <2>1. CASE \E e \in Events : PersistSignal(e)
    <3> PICK e \in Events : PersistSignal(e)
      BY <2>1
    <3> DEFINE n == RepairedSequence + 1
    <3>1. n \in Sequences
      BY <2>r, MaxSequenceAssumption DEF PersistSignal, Sequences
    <3>2. Larger(top, n) \in Sequences
      BY <3>1 DEF Larger, TypeOK
    <3> QED
      BY <3>1, <3>2 DEF TypeOK, PersistSignal, SetSequence
  <2>2. CASE CaptureSourceBoundary
    <3>1. <<RepairedSequence, Committed>> \in Sequences \X SUBSET Events
      BY <2>r DEF Committed
    <3> QED
      BY <2>2, <2>r, <3>1 DEF TypeOK, CaptureSourceBoundary, SetSequence
  <2>3. CASE \E gone \in SUBSET retained : PurgeExpired(gone)
    BY <2>3 DEF TypeOK, PurgeExpired, ledger
  <2>4. CASE \E boundary \in Sequences : RetireSourceHistory(boundary)
    BY <2>4, <2>r DEF TypeOK, RetireSourceHistory, SetSequence
  <2>5. CASE \E p \in Sequences, r \in Sequences, h \in Sequences, s \in BOOLEAN :
                LoseRows(p, r, h, s)
    BY <2>5 DEF TypeOK, LoseRows
  <2>6. CASE \E dropped \in SUBSET Tables : Bootstrap(dropped)
    <3> PICK dropped \in SUBSET Tables : Bootstrap(dropped)
      BY <2>6
    <3>1. /\ primary' \in Sequences
          /\ recovery' \in Sequences
          /\ highWater' \in Sequences
      BY MaxSequenceAssumption DEF TypeOK, Bootstrap, Exact, Larger, Sequences
    <3> QED
      BY <3>1 DEF TypeOK, Bootstrap
  <2>7. CASE UNCHANGED vars
    BY <2>7 DEF TypeOK, vars
  <2> QED
    BY <2>1, <2>2, <2>3, <2>4, <2>5, <2>6, <2>7 DEF Next
<1> QED
  BY <1>1, <1>2, PTL DEF Spec

\* The heart of _source_sequence_locked: when it does not raise and no loss
\* went unnoticed, the value it returns is the last sequence committed.
LEMMA ReadableIsExact ==
    ASSUME TypeOK, CopiesBounded, EvidenceStands, ~undetectable, CounterReadable
    PROVE  RepairedSequence = top
<1>1. Evident(primary, recovery, highWater, seen, retained)
  BY DEF EvidenceStands
<1>2. ~(seen /\ primary = 0 /\ recovery = 0 /\ highWater = 0)
  BY DEF CounterReadable
<1>3. ~\E e \in retained : sequenceOf[e] > Exact(primary, recovery, highWater)
  BY DEF CounterReadable, RetainedAbove
<1> QED
  BY <1>1, <1>2, <1>3 DEF Evident, RepairedSequence

\* The repaired value never exceeds what was committed.
LEMMA RepairedBounded ==
    ASSUME TypeOK, CopiesBounded
    PROVE  RepairedSequence \in Sequences /\ RepairedSequence <= top
BY ExactIsMaximum, MaxSequenceAssumption
   DEF TypeOK, CopiesBounded, Sequences, RepairedSequence

\* A bootstrap keeps the maximum of what survived, so it neither destroys nor
\* invents evidence (_adopt_source_sequence_recovery, _restore_primary).
LEMMA BootstrapKeepsMaximum ==
    ASSUME TypeOK, CopiesBounded, NEW dropped \in SUBSET Tables, Bootstrap(dropped)
    PROVE  /\ primary' <= top /\ recovery' <= top /\ highWater' <= top
           /\ ~undetectable' =>
                 Evident(primary', recovery', highWater', seen', retained)
<1> DEFINE p0 == IF "primary" \in dropped THEN 0 ELSE primary
           r0 == IF "recovery" \in dropped THEN 0 ELSE recovery
           h0 == IF "highWater" \in dropped THEN 0 ELSE highWater
           s0 == seen /\ "seen" \notin dropped
<1>1. /\ p0 \in Nat /\ r0 \in Nat /\ h0 \in Nat /\ top \in Nat
      /\ p0 <= top /\ r0 <= top /\ h0 <= top
  BY MaxSequenceAssumption DEF TypeOK, CopiesBounded, Sequences
<1> DEFINE restore == "primary" \in dropped /\ Larger(r0, h0) > 0
           p1 == IF restore THEN Larger(r0, h0) ELSE p0
           adopt == \/ "recovery" \in dropped /\ "primary" \notin dropped
                    \/ "highWater" \in dropped
                    \/ "seen" \in dropped
           r1 == IF restore \/ (adopt /\ r0 = 0) THEN p1 ELSE r0
           h1 == IF restore \/ adopt THEN Exact(p1, r1, h0) ELSE h0
<1>b. primary' = p1 /\ recovery' = r1 /\ highWater' = h1
  BY DEF Bootstrap
<1>c. restore => p0 = 0
  OBVIOUS
<1>2. /\ Exact(primary', recovery', highWater') = Exact(p0, r0, h0)
      /\ primary' <= top /\ recovery' <= top /\ highWater' <= top
  <2> HIDE DEF p0, r0, h0, restore, adopt
  <2>1. CASE restore
    <3>1. p1 = Larger(r0, h0) /\ p0 = 0 /\ r1 = p1 /\ h1 = Exact(p1, p1, h0)
      BY <2>1, <1>c
    <3>2. primary' = Larger(r0, h0) /\ recovery' = Larger(r0, h0)
          /\ highWater' = Exact(Larger(r0, h0), Larger(r0, h0), h0)
      BY <3>1, <1>b
    <3> QED
      BY <3>1, <3>2, <1>1 DEF Exact, Larger
  <2>2. CASE ~restore
    <3>1. primary' = p0 /\ recovery' \in {p0, r0}
          /\ highWater' \in {h0, Exact(p0, recovery', h0)}
          /\ (recovery' = p0 => recovery' = r0 \/ r0 = 0)
      BY <2>2, <1>b
    <3> QED
      BY <3>1, <1>1 DEF Exact, Larger
  <2> QED
    BY <2>1, <2>2
<1>3. /\ p0 = 0 /\ r0 = 0 /\ h0 = 0 => primary' = 0 /\ recovery' = 0 /\ highWater' = 0
      /\ s0 => seen'
  BY <1>1 DEF Bootstrap, Exact, Larger
<1>4. ~undetectable' => Evident(p0, r0, h0, s0, retained)
  BY DEF Bootstrap
<1> QED
  BY <1>2, <1>3, <1>4 DEF Evident

\* One committed event: its number is above every earlier number and every
\* captured boundary (persist_signal).
LEMMA PersistPreserves ==
    ASSUME TypeOK, SequenceInv, NEW e \in Events, PersistSignal(e)
    PROVE  SequenceInv'
<1> DEFINE n == RepairedSequence + 1
<1> USE DEF SequenceInv
<1>1. /\ RepairedSequence \in Nat /\ RepairedSequence <= top /\ top \in Nat
      /\ n \in Nat /\ n > 0 /\ n <= top + 1
  BY RepairedBounded, MaxSequenceAssumption DEF TypeOK, Sequences
<1>2. ~undetectable => n = top + 1
  BY ReadableIsExact DEF PersistSignal
<1>3. /\ primary' = n /\ recovery' = n /\ highWater' = n
      /\ sequenceOf' = [sequenceOf EXCEPT ![e] = n]
      /\ top' = Larger(top, n)
      /\ retained' = retained \union {e}
      /\ captured' = captured /\ undetectable' = undetectable
      /\ sequenceOf[e] = 0
  BY DEF PersistSignal, SetSequence
<1> HIDE DEF n
<1>4. /\ top' \in Nat /\ top <= top' /\ n <= top'
      /\ ~undetectable => top' = n
  BY <1>1, <1>2, <1>3 DEF Larger
<1>5. /\ \A f \in Events : sequenceOf'[f] = IF f = e THEN n ELSE sequenceOf[f]
      /\ \A f \in Events : sequenceOf[f] \in Nat
  BY <1>3, MaxSequenceAssumption DEF TypeOK, Sequences
<1>6. /\ Committed' = Committed \union {e}
      /\ e \notin Committed
  BY <1>1, <1>3, <1>5 DEF Committed
<1>7. CopiesBounded'
  BY <1>3, <1>4 DEF CopiesBounded
<1>8. HistoryBounded'
  <2>1. retained' \subseteq Committed'
    BY <1>3, <1>6 DEF HistoryBounded
  <2>2. \A f \in Events : sequenceOf'[f] <= top'
    BY <1>1, <1>4, <1>5 DEF HistoryBounded
  <2>3. \A b \in captured' : b[1] <= top' /\ b[2] \subseteq Committed'
    <3>1. \A b \in captured : b[1] \in Nat
      BY MaxSequenceAssumption DEF TypeOK, Sequences
    <3> QED
      BY <1>1, <1>3, <1>4, <1>6, <3>1 DEF HistoryBounded
  <2> QED
    BY <2>1, <2>2, <2>3 DEF HistoryBounded
<1>9. EvidenceStands'
  <2>1. Exact(primary', recovery', highWater') = n
    BY <1>1, <1>3 DEF Exact, Larger
  <2> QED
    BY <2>1, <1>3, <1>4 DEF EvidenceStands, Evident
<1>10. NoSequenceReuse'
  <2> SUFFICES ASSUME ~undetectable, NEW f \in Committed', NEW g \in Committed',
                      sequenceOf'[f] = sequenceOf'[g]
               PROVE  f = g
    BY <1>3 DEF NoSequenceReuse
  <2>1. f \in Events /\ g \in Events
    BY DEF Committed
  <2>2. sequenceOf[f] < n /\ sequenceOf[g] < n
    BY <1>1, <1>2, <1>5, <2>1 DEF HistoryBounded
  <2>3. n \in Int /\ sequenceOf[f] \in Int /\ sequenceOf[g] \in Int
    BY <1>1, <1>5, <2>1
  <2>4. CASE f = e \/ g = e
    BY <2>1, <2>2, <2>3, <2>4, <1>5
  <2>5. CASE f # e /\ g # e
    BY <2>1, <2>5, <1>5, <1>6 DEF NoSequenceReuse
  <2> QED
    BY <2>4, <2>5
<1>11. BoundarySeparatesHistory'
  <2> SUFFICES ASSUME ~undetectable, NEW b \in captured, NEW f \in Committed'
               PROVE  sequenceOf'[f] <= b[1] <=> f \in b[2]
    BY <1>3 DEF BoundarySeparatesHistory
  <2>1. f \in Events /\ b[1] \in Nat /\ b[1] <= top /\ b[2] \subseteq Committed
    BY MaxSequenceAssumption DEF Committed, TypeOK, Sequences, HistoryBounded
  <2>2. CASE f = e
    <3>1. ~(sequenceOf'[f] <= b[1])
      BY <1>1, <1>2, <1>5, <2>1, <2>2
    <3>2. f \notin b[2]
      BY <2>1, <2>2, <1>6
    <3> QED
      BY <3>1, <3>2
  <2>3. CASE f # e
    BY <2>1, <2>3, <1>5, <1>6 DEF BoundarySeparatesHistory
  <2> QED
    BY <2>2, <2>3
<1> QED
  BY <1>7, <1>8, <1>9, <1>10, <1>11

\* What a step that commits no event and captures no boundary has to show.
LEMMA FramePreserves ==
    ASSUME SequenceInv, UNCHANGED <<sequenceOf, top, captured>>,
           retained' \subseteq retained, undetectable => undetectable',
           CopiesBounded', EvidenceStands'
    PROVE  SequenceInv'
<1>1. Committed' = Committed
  BY DEF Committed
<1>2. HistoryBounded'
  BY <1>1 DEF SequenceInv, HistoryBounded
<1>3. NoSequenceReuse'
  BY <1>1 DEF SequenceInv, NoSequenceReuse
<1>4. BoundarySeparatesHistory'
  BY <1>1 DEF SequenceInv, BoundarySeparatesHistory
<1> QED
  BY <1>2, <1>3, <1>4 DEF SequenceInv

\* The repair that every counter transaction commits keeps the evidence.
LEMMA RepairKeepsEvidence ==
    ASSUME TypeOK, SequenceInv, CounterReadable, SetSequence(RepairedSequence),
           top' = top, undetectable' = undetectable
    PROVE  CopiesBounded' /\ EvidenceStands'
<1>1. RepairedSequence \in Nat /\ RepairedSequence <= top
  BY RepairedBounded, MaxSequenceAssumption DEF SequenceInv, Sequences
<1>2. /\ primary' = RepairedSequence /\ recovery' = RepairedSequence
      /\ highWater' = RepairedSequence
  BY DEF SetSequence
<1>3. ~undetectable => RepairedSequence = top
  BY ReadableIsExact DEF SequenceInv
<1>4. Exact(primary', recovery', highWater') = RepairedSequence
  BY <1>1, <1>2 DEF Exact, Larger
<1> QED
  BY <1>1, <1>2, <1>3, <1>4 DEF CopiesBounded, EvidenceStands, Evident

\* capture_source_boundary: the boundary is the last committed number, so it
\* lies above exactly the events committed so far.
LEMMA CapturePreserves ==
    ASSUME TypeOK, SequenceInv, CaptureSourceBoundary
    PROVE  SequenceInv'
<1>1. /\ UNCHANGED <<retained, sequenceOf, top, undetectable>>
      /\ captured' = captured \union {<<RepairedSequence, Committed>>}
  BY DEF CaptureSourceBoundary
<1>2. CopiesBounded' /\ EvidenceStands'
  BY <1>1, RepairKeepsEvidence DEF CaptureSourceBoundary
<1>3. Committed' = Committed
  BY <1>1 DEF Committed
<1>4. HistoryBounded'
  BY <1>1, <1>3, RepairedBounded DEF SequenceInv, HistoryBounded
<1>5. NoSequenceReuse'
  BY <1>1, <1>3 DEF SequenceInv, NoSequenceReuse
<1>6. BoundarySeparatesHistory'
  <2> SUFFICES ASSUME ~undetectable, NEW b \in captured', NEW f \in Committed
               PROVE  sequenceOf[f] <= b[1] <=> f \in b[2]
    BY <1>1, <1>3 DEF BoundarySeparatesHistory
  <2>1. CASE b \in captured
    BY <2>1 DEF SequenceInv, BoundarySeparatesHistory
  <2>2. CASE b = <<RepairedSequence, Committed>>
    <3>1. RepairedSequence = top
      BY ReadableIsExact DEF CaptureSourceBoundary, SequenceInv
    <3>2. sequenceOf[f] <= top
      BY DEF Committed, SequenceInv, HistoryBounded
    <3> QED
      BY <2>2, <3>1, <3>2
  <2> QED
    BY <1>1, <2>1, <2>2
<1> QED
  BY <1>2, <1>4, <1>5, <1>6 DEF SequenceInv

\* The inductive step: every operation, loss and restart keeps SequenceInv.
LEMMA SequenceInvInductive ==
    ASSUME TypeOK, SequenceInv, [Next]_vars
    PROVE  SequenceInv'
<1>1. CASE \E e \in Events : PersistSignal(e)
  BY <1>1, PersistPreserves
<1>2. CASE CaptureSourceBoundary
  BY <1>2, CapturePreserves
<1>3. CASE \E gone \in SUBSET retained : PurgeExpired(gone)
  <2>1. /\ UNCHANGED <<primary, recovery, highWater, seen, sequenceOf, top, captured>>
        /\ retained' \subseteq retained
        /\ undetectable' =
             (undetectable \/ ~Evident(primary, recovery, highWater, seen, retained'))
    BY <1>3 DEF PurgeExpired, ledger
  <2>2. CopiesBounded' /\ EvidenceStands'
    BY <2>1 DEF SequenceInv, CopiesBounded, EvidenceStands, Evident
  <2> QED
    BY <2>1, <2>2, FramePreserves
<1>4. CASE \E boundary \in Sequences : RetireSourceHistory(boundary)
  <2>1. /\ CounterReadable /\ SetSequence(RepairedSequence)
        /\ UNCHANGED <<sequenceOf, top, captured, undetectable>>
        /\ retained' \subseteq retained
    BY <1>4 DEF RetireSourceHistory
  <2> QED
    BY <2>1, RepairKeepsEvidence, FramePreserves
<1>5. CASE \E p \in Sequences, r \in Sequences, h \in Sequences, s \in BOOLEAN :
              LoseRows(p, r, h, s)
  <2> PICK p \in Sequences, r \in Sequences, h \in Sequences, s \in BOOLEAN :
              LoseRows(p, r, h, s)
    BY <1>5
  <2>1. /\ primary' = p /\ recovery' = r /\ highWater' = h /\ seen' = s
        /\ p \in {0, primary} /\ r \in 0..recovery /\ h \in 0..highWater
        /\ undetectable' = (undetectable \/ ~Evident(p, r, h, s, retained))
        /\ UNCHANGED <<retained, sequenceOf, top, captured>>
    BY DEF LoseRows, Damage
  <2>2. CopiesBounded'
    BY <2>1, MaxSequenceAssumption
       DEF SequenceInv, CopiesBounded, TypeOK, Sequences
  <2>3. EvidenceStands'
    BY <2>1 DEF EvidenceStands, Evident
  <2> QED
    BY <2>1, <2>2, <2>3, FramePreserves
<1>6. CASE \E dropped \in SUBSET Tables : Bootstrap(dropped)
  <2> PICK dropped \in SUBSET Tables : Bootstrap(dropped)
    BY <1>6
  <2>1. /\ UNCHANGED <<retained, sequenceOf, top, captured>>
        /\ undetectable => undetectable'
    BY DEF Bootstrap
  <2>2. CopiesBounded' /\ EvidenceStands'
    BY <2>1, BootstrapKeepsMaximum
       DEF SequenceInv, CopiesBounded, EvidenceStands, Evident
  <2> QED
    BY <2>1, <2>2, FramePreserves
<1>7. CASE UNCHANGED vars
  BY <1>7 DEF vars, SequenceInv, CopiesBounded, HistoryBounded, EvidenceStands,
     NoSequenceReuse, BoundarySeparatesHistory, Evident, Committed
<1> QED
  BY <1>1, <1>2, <1>3, <1>4, <1>5, <1>6, <1>7 DEF Next

\* The inductive invariant holds in every reachable state.
THEOREM SequenceInvHolds == Spec => []SequenceInv
<1>1. Init => SequenceInv
  BY DEF Init, SequenceInv, CopiesBounded, HistoryBounded, EvidenceStands,
     NoSequenceReuse, BoundarySeparatesHistory, Evident, Committed, Exact, Larger
<1>2. TypeOK /\ SequenceInv /\ [Next]_vars => SequenceInv'
  BY SequenceInvInductive
<1> QED
  BY <1>1, <1>2, TypeCorrect, PTL DEF Spec

\* No sequence number is issued twice while every loss left some evidence,
\* whatever was lost, purged, retired or restored (_source_sequence_locked,
\* _advance_source_sequence_locked).
THEOREM NoReuse == Spec => []NoSequenceReuse
<1>1. SequenceInv => NoSequenceReuse
  BY DEF SequenceInv
<1> QED
  BY <1>1, SequenceInvHolds, PTL

\* A captured boundary separates earlier from later events for ever
\* (capture_source_boundary, is_event_eligible).
THEOREM BoundarySeparates == Spec => []BoundarySeparatesHistory
<1>1. SequenceInv => BoundarySeparatesHistory
  BY DEF SequenceInv
<1> QED
  BY <1>1, SequenceInvHolds, PTL

-----------------------------------------------------------------------------
\* The marker is written with the first positive sequence
\* (_set_source_sequence_locked, the bootstrap's adoption).
SeenIsUsed == seen => top > 0

\* Every operation, loss and restart keeps it: whatever sets the marker read a
\* positive copy, and no copy exceeds what was committed.
LEMMA SeenIsUsedInductive ==
    ASSUME TypeOK, CopiesBounded, SeenIsUsed, [Next]_vars
    PROVE  SeenIsUsed'
<1>1. RepairedSequence \in Nat /\ RepairedSequence <= top /\ top \in Nat
  BY RepairedBounded, MaxSequenceAssumption DEF TypeOK, Sequences
<1>2. CASE \E e \in Events : PersistSignal(e)
  <2>1. top' = Larger(top, RepairedSequence + 1)
    BY <1>2 DEF PersistSignal
  <2>2. \A n \in Nat : n <= top => Larger(top, n + 1) > 0
    BY <1>1 DEF Larger
  <2>3. top' > 0
    BY <1>1, <2>1, <2>2
  <2> QED BY <2>3 DEF SeenIsUsed
<1>3. CASE CaptureSourceBoundary \/ \E b \in Sequences : RetireSourceHistory(b)
  <2>1. (seen' => seen \/ RepairedSequence > 0) /\ top' = top
    BY <1>3 DEF CaptureSourceBoundary, RetireSourceHistory, SetSequence
  <2> QED BY <1>1, <2>1 DEF SeenIsUsed
<1>4. CASE \E gone \in SUBSET retained : PurgeExpired(gone)
  BY <1>4 DEF PurgeExpired, ledger, SeenIsUsed
<1>5. CASE \E p \in Sequences, r \in Sequences, h \in Sequences, s \in BOOLEAN :
              LoseRows(p, r, h, s)
  BY <1>5 DEF LoseRows, Damage, SeenIsUsed
<1>6. CASE \E dropped \in SUBSET Tables : Bootstrap(dropped)
  <2> PICK dropped \in SUBSET Tables : Bootstrap(dropped)
    BY <1>6
  <2>1. /\ primary' <= top /\ recovery' <= top /\ highWater' <= top
        /\ primary' \in Nat /\ recovery' \in Nat /\ highWater' \in Nat
    <3>1. primary \in Nat /\ recovery \in Nat /\ highWater \in Nat
      BY MaxSequenceAssumption DEF TypeOK, Sequences
    <3> QED BY <3>1, BootstrapKeepsMaximum DEF Bootstrap, Exact, Larger
  <2>2. Exact(primary', recovery', highWater') <= top /\ Exact(primary', recovery', highWater') \in Nat
    BY <2>1, ExactIsMaximum
  <2>3. seen' => seen \/ Exact(primary', recovery', highWater') > 0
    BY DEF Bootstrap
  <2>4. top' = top
    BY DEF Bootstrap
  <2> QED BY <1>1, <2>2, <2>3, <2>4 DEF SeenIsUsed
<1>7. CASE UNCHANGED vars
  BY <1>7 DEF vars, SeenIsUsed
<1> QED BY <1>2, <1>3, <1>4, <1>5, <1>6, <1>7 DEF Next

\* Three survivors of four include one of the two independent copies.
LEMMA SurvivorIsCopy ==
    ASSUME Cardinality(Survivors) >= 3
    PROVE  recovery = top \/ highWater = top
<1> SUFFICES ASSUME recovery # top, highWater # top PROVE FALSE
  OBVIOUS
<1>1. Survivors \subseteq {"primary"} \union {"seen"}
  BY DEF Survivors, Tables
<1>2. IsFiniteSet({"primary"}) /\ Cardinality({"primary"}) = 1
  BY FS_Singleton
<1>3. /\ IsFiniteSet({"primary"} \union {"seen"})
      /\ Cardinality({"primary"} \union {"seen"}) = 2
  BY <1>2, FS_AddElement
<1>4. Cardinality(Survivors) <= Cardinality({"primary"} \union {"seen"})
      /\ IsFiniteSet(Survivors)
  BY <1>1, <1>3, FS_Subset
<1>5. Cardinality(Survivors) \in Nat
  BY <1>4, FS_CardinalityType
<1> QED BY <1>3, <1>4, <1>5

\* The loss of one of the four rows never stops ingress nor loses the
\* counter: the checks of _source_sequence_locked that fail closed fire only
\* when two or more are lost, for every set of events and every bound.
THEOREM OneLossIsRepaired == Spec => []SingleLossIsRepairable
<1>1. Init => SeenIsUsed
  BY DEF Init, SeenIsUsed
<1>2. TypeOK /\ SequenceInv /\ SeenIsUsed /\ [Next]_vars => SeenIsUsed'
  BY SeenIsUsedInductive DEF SequenceInv
<1>3. TypeOK /\ SequenceInv /\ SeenIsUsed => SingleLossIsRepairable
  <2> SUFFICES ASSUME TypeOK, SequenceInv, SeenIsUsed, Cardinality(Survivors) >= 3
               PROVE CounterReadable /\ RepairedSequence = top
    BY DEF SingleLossIsRepairable
  <2>1. /\ primary \in Nat /\ recovery \in Nat /\ highWater \in Nat /\ top \in Nat
        /\ primary <= top /\ recovery <= top /\ highWater <= top
    BY MaxSequenceAssumption DEF TypeOK, Sequences, SequenceInv, CopiesBounded
  <2>2. recovery = top \/ highWater = top
    BY SurvivorIsCopy
  <2>3. Exact(primary, recovery, highWater) = top
    BY <2>1, <2>2, ExactIsMaximum
  <2>4. ~(seen /\ recovery < 1 /\ highWater < 1)
    BY <2>1, <2>2 DEF SeenIsUsed
  <2>5. ~RetainedAbove(top)
    <3>1. \A e \in retained : sequenceOf[e] \in Nat /\ sequenceOf[e] <= top
      BY MaxSequenceAssumption DEF TypeOK, Sequences, SequenceInv, HistoryBounded
    <3> QED BY <2>1, <3>1 DEF RetainedAbove
  <2> QED BY <2>3, <2>4, <2>5 DEF CounterReadable, RepairedSequence
<1> QED BY <1>1, <1>2, <1>3, TypeCorrect, SequenceInvHolds, PTL DEF Spec

=============================================================================
