------------------------ MODULE DeliveryQueue_proofs ------------------------
(***************************************************************************)
(* Proofs about DeliveryQueue, for any number of entries, keys, policies   *)
(* and faults: an accepted message is never lost, a logical delivery has   *)
(* one live row and is accepted once, a keyed delivery keeps its policy.   *)
(*                                                                         *)
(* Each action is first shown to be a step of one of six kinds, stated     *)
(* by what it does to the tables: RowStep, Inserted, Buries, Retries,      *)
(* Purges, ClaimStep, and for the worker the actions themselves.  Each     *)
(* invariant is then shown to survive each kind.                           *)
(***************************************************************************)
EXTENDS DeliveryQueue, TLAPS

\* An id that was never drawn has no history and no dead letter; every other
\* one belongs to a logical delivery.  The retry row of a dead letter waits
\* untouched until its dead letter is consumed.
Bookkeeping ==
    \A e \in Entries :
        /\ row[e].status = "unused" => root[e] = None /\ dead[e] = None
        /\ row[e].status # "unused" => root[e] \in Entries /\ root[root[e]] = root[e]
        /\ row[e].status \notin {"unused", "reserved"} => row[e].policy \in Policies
        /\ dead[e] # None => row[e].status \in {"pending", "failed", "gone"}
        /\ dead[e] # None /\ dead[e].retry # None =>
              /\ dead[dead[e].retry] = None
              /\ row[dead[e].retry].status \in {"reserved", "pending"}
              /\ root[dead[e].retry] = root[e]

\* A claim names an entry whose row was inserted.
ClaimsInv ==
    \A k \in Keys :
        claim[k] # None => row[claim[k].entry].status \notin {"unused", "reserved"}

\* What the worker holds stays live and undelivered: nobody else settles it.
WorkerInv ==
    /\ ~worker.up => worker.todo = {} /\ worker.stage = "idle"
    /\ worker.stage = "idle" <=> worker.cur = None
    /\ worker.cur \notin worker.todo
    /\ \A e \in worker.todo : Live(e) /\ row[e].status \in {"pending", "failed"}
    /\ worker.stage # "idle" =>
          /\ Live(worker.cur)
          /\ row[worker.cur].status \in
                IF worker.stage = "burying" THEN {"pending", "failed"} ELSE {"in_flight"}

\* Holds for every release that writes the tables.
QueueInv == TypeOK /\ Bookkeeping /\ ClaimsInv /\ WorkerInv /\ NothingLost

\* The rows and dead letters that may still lead to a delivery.
Holder(e) == Live(e) \/ dead[e] # None

\* Its entry is gone without a dead letter.
Stale(k) == claim[k] # None /\ ~Exists(claim[k].entry) /\ ~Tombstoned(claim[k].entry)

OneHolder ==
    \A e1, e2 \in Entries :
        Holder(e1) /\ Holder(e2) /\ root[e1] = root[e2] => e1 = e2

\* The claims on a logical delivery are on its holder, or on the retry row.
ClaimsFollow ==
    \A k \in Keys, e \in Entries :
        claim[k] # None /\ Holder(e) /\ root[claim[k].entry] = root[e] =>
            \/ claim[k].entry = e
            \/ dead[e] # None /\ claim[k].entry = dead[e].retry

\* Stale claims on a logical delivery are repaired together.
StaleTogether ==
    \A j, k \in Keys :
        Stale(j) /\ claim[k] # None /\ root[claim[j].entry] = root[claim[k].entry] =>
            claim[j].entry = claim[k].entry

HolderInv == OneHolder /\ ClaimsFollow /\ StaleTogether

\* Not accepted yet, or accepted and the acknowledgement lost.
Clean(r) == r \in unsure \/ sent[r] = 0

SentInv ==
    /\ \A e \in Entries :
          /\ row[e].status = "unused" => sent[e] = 0
          /\ dead[e] # None => Clean(root[e])
          /\ Live(e) /\ row[e].status # "delivered" =>
                \/ Clean(root[e])
                \/ worker.stage = "accepted" /\ worker.cur = e /\ sent[root[e]] = 1
    /\ \A k \in Keys : Stale(k) => Clean(root[claim[k].entry])
    /\ AcceptedOnce

\* Where a policy is known it is the row's, which outlives the row.
PolicyInv ==
    /\ \A e \in Entries :
          /\ dead[e] # None => dead[e].policy \in {None, row[e].policy}
          /\ dead[e] # None /\ dead[e].policy = None => "bury" \in OldWriters
          /\ dead[e] # None /\ dead[e].retry # None => Joined
    /\ \A k \in Keys : claim[k] # None =>
          /\ claim[k].policy \in {None, row[claim[k].entry].policy}
          /\ claim[k].policy = None => "enqueue" \in OldWriters
    /\ \A k \in Keys, e, f \in Entries :
          /\ claim[k] # None /\ claim[k].entry = e
          /\ dead[e] # None /\ dead[e].retry = f /\ Exists(f)
          => row[f].policy = row[e].policy
    /\ \A x, y \in Entries :
          dead[x] # None /\ dead[y] # None /\ dead[x].retry = dead[y].retry
          /\ dead[x].retry # None => x = y

-----------------------------------------------------------------------------
(* Facts about the operators.                                              *)

LEMMA EffectiveType ==
    ASSUME TypeOK, NEW requested \in Requested
    PROVE  Effective(requested) \in Policies
BY ConstantsAssumption DEF TypeOK, Effective

LEMMA NewRowType ==
    ASSUME NEW content \in Contents \union {None}, NEW policy \in Policies \union {None}
    PROVE  /\ NewRow(content, policy) \in Rows
           /\ NewRow(content, policy).status = "pending"
           /\ NewRow(content, policy).policy = policy
BY DEF NewRow, Rows, Stored

LEMMA NewClaimType ==
    ASSUME TypeOK, NEW e \in Entries, NEW content \in Contents, NEW requested \in Requested,
           NEW previous \in Entries \union {None, Unissued}
    PROVE  /\ NewClaim(e, content, requested, previous) \in Claims
           /\ NewClaim(e, content, requested, previous).entry = e
           /\ NewClaim(e, content, requested, previous).policy = Effective(requested)
           /\ NewClaim(e, content, requested, previous) # None
<1>1. Effective(requested) \in Policies BY EffectiveType
<1>2. Present \in SUBSET Entries BY DEF Present
<1>3. /\ NewClaim(e, content, requested, previous) \in Claims
      /\ NewClaim(e, content, requested, previous).entry = e
      /\ NewClaim(e, content, requested, previous).policy = Effective(requested)
    BY <1>1, <1>2 DEF NewClaim, Claims
<1> QED BY <1>3, NoneAssumption

\* A row that was deleted keeps its content and its policy.
LEMMA DeletedFacts ==
    ASSUME TypeOK, NEW es
    PROVE  /\ Deleted(es) \in [Entries -> Rows]
           /\ \A e \in Entries :
                 /\ Deleted(es)[e].policy = row[e].policy
                 /\ Deleted(es)[e].status =
                       IF e \in es /\ Exists(e) THEN "gone" ELSE row[e].status
                 /\ e \notin es => Deleted(es)[e] = row[e]
<1> DEFINE gone(r) == [r EXCEPT !.status = "gone", !.attempts = 0, !.due = FALSE, !.recent = FALSE]
<1>1. ASSUME NEW r \in Rows
      PROVE  gone(r) \in Rows /\ gone(r).status = "gone" /\ gone(r).policy = r.policy
    BY DEF Rows
<1>2. Deleted(es) = [e \in Entries |-> IF e \in es /\ Exists(e) THEN gone(row[e]) ELSE row[e]]
    BY DEF Deleted
<1>3. \A e \in Entries : row[e] \in Rows BY DEF TypeOK
<1> HIDE DEF gone
<1> QED BY <1>1, <1>2, <1>3

LEMMA AttemptedFacts ==
    ASSUME NEW r \in Rows, NEW status \in Stored, NEW due \in BOOLEAN
    PROVE  /\ Attempted(r, status, due) \in Rows
           /\ Attempted(r, status, due).status = status
           /\ Attempted(r, status, due).policy = r.policy
<1>1. PICK n : n = r.attempts + 1 OBVIOUS
<1>2. n \in Nat BY <1>1 DEF Rows
<1>3. Attempted(r, status, due) = [r EXCEPT !.status = status, !.attempts = n, !.due = due]
    BY <1>1 DEF Attempted
<1> QED BY <1>2, <1>3 DEF Rows

LEMMA MovedType ==
    ASSUME TypeOK, NEW old \in Entries, NEW new \in Entries
    PROVE  /\ Moved(old, new) \in [Keys -> {None} \union Claims]
           /\ \A k \in Keys :
                 /\ Moved(old, new)[k] = None <=> claim[k] = None
                 /\ claim[k] # None =>
                       /\ Moved(old, new)[k].policy = claim[k].policy
                       /\ Moved(old, new)[k].entry =
                             IF claim[k].entry = old THEN new ELSE claim[k].entry
<1>1. Present \in SUBSET Entries BY DEF Present
<1> DEFINE moved(c) == [c EXCEPT !.entry = new, !.previous = old, !.older = Present]
<1>2. ASSUME NEW c \in Claims
      PROVE  moved(c) \in Claims /\ moved(c).policy = c.policy /\ moved(c).entry = new
    BY <1>1 DEF Claims
<1>3. Moved(old, new) = [k \in Keys |-> IF claim[k] # None /\ claim[k].entry = old
                                       THEN moved(claim[k]) ELSE claim[k]]
    BY DEF Moved
<1>4. \A k \in Keys : claim[k] # None => claim[k] \in Claims BY DEF TypeOK
<1> HIDE DEF moved
<1> QED BY <1>2, <1>3, <1>4, NoneAssumption

LEMMA RetryPolicyType ==
    ASSUME TypeOK, NEW o \in Entries, dead[o] # None
    PROVE  RetryPolicy(o) \in Policies
<1>1. ASSUME NEW p \in LedgerPolicies(o) PROVE p \in Policies
    BY DEF LedgerPolicies, TypeOK, Claims
<1>2. dead[o].policy # None => dead[o].policy \in Policies BY DEF TypeOK, Letters
<1>3. default \in Policies BY DEF TypeOK
<1>4. LedgerPolicies(o) # {} => (CHOOSE p \in LedgerPolicies(o) : TRUE) \in LedgerPolicies(o)
    OBVIOUS
<1> QED BY <1>1, <1>2, <1>3, <1>4 DEF RetryPolicy

\* The retry row that a dead letter is to be retried with.
RetryTarget(o, e) ==
    /\ dead[o] # None
    /\ IF dead[o].retry = None THEN row[e].status = "unused" ELSE e = dead[o].retry

LEMMA RetryTargetFacts ==
    ASSUME TypeOK, Bookkeeping, NEW o \in Entries, NEW e \in Entries, RetryTarget(o, e)
    PROVE  /\ e # o
           /\ dead[e] = None
           /\ row[e].status \in {"unused", "reserved", "pending"}
           /\ row[e].status # "unused" => root[e] = root[o]
           /\ row[o].status \in {"pending", "failed", "gone"}
           /\ root[o] \in Entries /\ root[root[o]] = root[o]
           /\ \A x \in Entries : dead[x] # None /\ dead[x].retry # None => dead[x].retry # o
<1>1. row[o].status \in {"pending", "failed", "gone"} BY DEF Bookkeeping, RetryTarget
<1>2. CASE dead[o].retry = None
    BY <1>1, <1>2 DEF Bookkeeping, RetryTarget
<1>3. CASE dead[o].retry # None
    BY <1>1, <1>3 DEF Bookkeeping, RetryTarget
<1> QED BY <1>2, <1>3

LEMMA RetryRowsFacts ==
    ASSUME TypeOK, Bookkeeping, NEW o \in Entries, NEW e \in Entries, NEW n \in 1..5,
           RetryTarget(o, e)
    PROVE  /\ RetryRows(o, e, n) \in [Entries -> Rows]
           /\ \A x \in Entries \ {o, e} : RetryRows(o, e, n)[x] = row[x]
           /\ RetryRows(o, e, n)[o].policy = row[o].policy
           /\ RetryRows(o, e, n)[o].status =
                 IF n >= 2 /\ Exists(o) THEN "gone" ELSE row[o].status
           /\ RetryRows(o, e, n)[e].policy =
                 IF n >= 3 /\ ~Exists(e) THEN RetryPolicy(o) ELSE row[e].policy
           /\ RetryRows(o, e, n)[e].status =
                 IF n >= 3 \/ Exists(e) THEN "pending" ELSE "reserved"
<1> DEFINE kept == IF n >= 2 /\ e # o THEN Deleted({o}) ELSE row
           fresh == NewRow(row[o].content, RetryPolicy(o))
<1>1. e # o /\ row[e].status \in {"unused", "reserved", "pending"}
    BY RetryTargetFacts
<1>2. /\ kept \in [Entries -> Rows]
      /\ \A x \in Entries \ {o} : kept[x] = row[x]
      /\ kept[o].policy = row[o].policy
      /\ kept[o].status = IF n >= 2 /\ Exists(o) THEN "gone" ELSE row[o].status
    <2>1. row \in [Entries -> Rows] BY DEF TypeOK
    <2> QED BY <1>1, <2>1, DeletedFacts
<1>3. fresh \in Rows /\ fresh.status = "pending" /\ fresh.policy = RetryPolicy(o)
    <2>1. row[o].content \in Contents \union {None} BY DEF TypeOK, Rows
    <2>2. RetryPolicy(o) \in Policies \union {None} BY RetryPolicyType DEF RetryTarget
    <2> QED BY <2>1, <2>2, NewRowType
<1>4. /\ [kept[e] EXCEPT !.status = "reserved"] \in Rows
      /\ [kept[e] EXCEPT !.status = "reserved"].status = "reserved"
      /\ [kept[e] EXCEPT !.status = "reserved"].policy = kept[e].policy
    <2>1. kept[e] \in Rows BY <1>2
    <2> HIDE DEF kept
    <2> QED BY <2>1 DEF Rows
<1>5. Exists(e) <=> row[e].status = "pending" BY <1>1 DEF Exists, Stored
<1>6. RetryRows(o, e, n) =
        IF n >= 3 /\ ~Exists(e) THEN [kept EXCEPT ![e] = fresh]
        ELSE IF row[e].status = "unused"
             THEN [kept EXCEPT ![e] = [kept[e] EXCEPT !.status = "reserved"]] ELSE kept
    BY <1>2 DEF RetryRows
<1> HIDE DEF kept, fresh
<1>7. CASE n >= 3 /\ ~Exists(e) BY <1>1, <1>2, <1>3, <1>6, <1>7
<1>8. CASE ~(n >= 3 /\ ~Exists(e)) /\ row[e].status = "unused"
    BY <1>1, <1>2, <1>4, <1>5, <1>6, <1>8
<1>9. CASE ~(n >= 3 /\ ~Exists(e)) /\ row[e].status # "unused"
    BY <1>1, <1>2, <1>5, <1>6, <1>9
<1> QED BY <1>7, <1>8, <1>9

LEMMA RetryClaimsFacts ==
    ASSUME TypeOK, NEW o \in Entries, NEW e \in Entries, NEW n \in 1..5, dead[o] # None
    PROVE  /\ RetryClaims(o, e, n) \in [Keys -> {None} \union Claims]
           /\ \A k \in Keys :
                 /\ RetryClaims(o, e, n)[k] = None <=> claim[k] = None
                 /\ claim[k] # None /\ ~(n >= 4 /\ claim[k].entry = o) =>
                       RetryClaims(o, e, n)[k] = claim[k]
                 /\ claim[k] # None /\ n >= 4 /\ claim[k].entry = o =>
                       /\ RetryClaims(o, e, n)[k].entry = e
                       /\ RetryClaims(o, e, n)[k].policy =
                             IF claim[k].policy = None THEN RetryPolicy(o) ELSE claim[k].policy
<1> DEFINE moved(c) == [c EXCEPT !.entry = e, !.older = Present,
                                 !.previous = IF @ = None THEN o ELSE @,
                                 !.policy = IF @ = None THEN RetryPolicy(o) ELSE @]
<1>1. Present \in SUBSET Entries BY DEF Present
<1>2. RetryPolicy(o) \in Policies BY RetryPolicyType
<1>3. ASSUME NEW c \in Claims
      PROVE  /\ moved(c) \in Claims /\ moved(c).entry = e
             /\ moved(c).policy = IF c.policy = None THEN RetryPolicy(o) ELSE c.policy
    BY <1>1, <1>2 DEF Claims
<1>4. RetryClaims(o, e, n) = [k \in Keys |-> IF n >= 4 /\ claim[k] # None /\ claim[k].entry = o
                                           THEN moved(claim[k]) ELSE claim[k]]
    BY DEF RetryClaims
<1>5. \A k \in Keys : claim[k] # None => claim[k] \in Claims BY DEF TypeOK
<1> HIDE DEF moved
<1> QED BY <1>3, <1>4, <1>5, NoneAssumption

LEMMA RetryDeadFacts ==
    ASSUME TypeOK, NEW o \in Entries, NEW e \in Entries, NEW n \in 1..5, dead[o] # None
    PROVE  /\ RetryDead(o, e, n) \in [Entries -> {None} \union Letters]
           /\ \A x \in Entries \ {o} : RetryDead(o, e, n)[x] = dead[x]
           /\ RetryDead(o, e, n)[o] = None <=> n = 5
           /\ n # 5 => /\ RetryDead(o, e, n)[o].retry = e
                       /\ RetryDead(o, e, n)[o].policy = dead[o].policy
<1>1. dead[o] \in Letters BY DEF TypeOK
<1>2. /\ [dead[o] EXCEPT !.retry = e] \in Letters
      /\ [dead[o] EXCEPT !.retry = e].retry = e
      /\ [dead[o] EXCEPT !.retry = e].policy = dead[o].policy
    BY <1>1 DEF Letters
<1>3. dead \in [Entries -> {None} \union Letters] BY DEF TypeOK
<1>4. RetryDead(o, e, n) =
        [dead EXCEPT ![o] = IF n >= 5 THEN None ELSE [dead[o] EXCEPT !.retry = e]]
    BY <1>3 DEF RetryDead
<1> QED BY <1>2, <1>3, <1>4, NoneAssumption

-----------------------------------------------------------------------------
(* Type correctness.                                                       *)

Workers == [up : BOOLEAN, todo : SUBSET Entries, cur : Entries \union {None},
            stage : {"idle", "sending", "accepted", "refused", "burying"},
            left : SUBSET Entries]

LEMMA WorkerUpdate ==
    ASSUME NEW w \in Workers, NEW todo \in SUBSET Entries, NEW left \in SUBSET Entries,
           NEW stage \in {"idle", "sending", "accepted", "refused", "burying"},
           NEW cur \in Entries \union {None}
    PROVE  /\ Idle \in Workers /\ [Idle EXCEPT !.up = TRUE] \in Workers
           /\ [w EXCEPT !.todo = todo] \in Workers
           /\ [w EXCEPT !.stage = stage] \in Workers
           /\ [w EXCEPT !.todo = todo, !.cur = cur, !.stage = stage] \in Workers
           /\ Finish(w) \in Workers
           /\ [Finish(w) EXCEPT !.todo = todo, !.left = left] \in Workers
BY DEF Workers, Idle, Finish

\* The same without the worker and without the last bound.
LEMMA FaultType ==
    ASSUME TypeOK, Fault
    PROVE  faults' \in 0..MaxFaults
BY ConstantsAssumption DEF TypeOK, Fault

LEMMA RequestsType ==
    ASSUME TypeOK, Requests
    PROVE  TypeOK'
<1>1. PICK content \in Contents, requested \in Requested :
        \/ \E e \in Entries : Enqueue(e, content, requested)
        \/ \E k \in Keys :
              \/ AdoptNewKey(k, content, requested)
              \/ ReplayLive(k, content, requested)
              \/ ReplayAdopts(k, content, requested)
              \/ RecreateCompensated(k, content, requested)
              \/ \E e \in Entries :
                    \/ EnqueueNewKey(k, e, content, requested)
                    \/ ReplayRecreates(k, e, content, requested)
                    \/ \E p \in Policies : OldEnqueue(k, e, content, requested, p)
    BY DEF Requests
<1>2. Effective(requested) \in Policies BY EffectiveType
<1>3. ASSUME NEW e \in Entries, Enqueue(e, content, requested) PROVE TypeOK'
    <2>1. NewRow(content, Effective(requested)) \in Rows BY <1>2, NewRowType
    <2> QED BY <1>3, <2>1 DEF Enqueue, Insert, Begin, TypeOK
<1>4. ASSUME NEW k \in Keys, AdoptNewKey(k, content, requested) PROVE TypeOK'
    <2>1. PICK d \in Duplicates(content, {Effective(requested)}) :
            claim' = [claim EXCEPT ![k] = NewClaim(d, content, requested, Unissued)]
        BY <1>4 DEF AdoptNewKey
    <2>2. d \in Entries BY DEF Duplicates
    <2>3. NewClaim(d, content, requested, Unissued) \in Claims BY <2>2, NewClaimType
    <2> QED BY <1>4, <2>1, <2>3 DEF AdoptNewKey, TypeOK, history
<1>5. ASSUME NEW k \in Keys, ReplayLive(k, content, requested) PROVE TypeOK'
    <2>1. claim[k] \in Claims BY <1>5 DEF ReplayLive, Replayable, TypeOK
    <2>2. row[claim[k].entry].policy \in Policies \union {None}
        BY <2>1 DEF TypeOK, Rows, Claims
    <2>3. [claim[k] EXCEPT !.policy = row[claim[k].entry].policy] \in Claims
        BY <2>1, <2>2 DEF Claims
    <2> QED BY <1>5, <2>3 DEF ReplayLive, TypeOK, history
<1>6. ASSUME NEW k \in Keys, ReplayAdopts(k, content, requested) PROVE TypeOK'
    <2>1. PICK e \in Entries : claim' = Moved(claim[k].entry, e)
        BY <1>6 DEF ReplayAdopts, Duplicates, Replacements
    <2>2. claim[k].entry \in Entries
        BY <1>6 DEF ReplayAdopts, StaleClaim, Replayable, TypeOK, Claims
    <2>3. claim' \in [Keys -> {None} \union Claims] BY <2>1, <2>2, MovedType
    <2> QED BY <1>6, <2>3 DEF ReplayAdopts, TypeOK, history
<1>7. ASSUME NEW k \in Keys, RecreateCompensated(k, content, requested) PROVE TypeOK'
    <2>1. PICK ks : claim' = [j \in Keys |->
                      IF j \in ks
                      THEN [claim[j] EXCEPT !.previous = None, !.older = Present]
                      ELSE claim[j]]
                  /\ ks \in {{k}, {j \in Keys : claim[j] # None /\ claim[j].entry = claim[k].entry}}
        BY <1>7 DEF RecreateCompensated
    <2>2. claim[k] # None BY <1>7 DEF RecreateCompensated, MayRecreate, StaleClaim, Replayable
    <2>3. Present \in SUBSET Entries BY DEF Present
    <2>4. ASSUME NEW c \in Claims
          PROVE  [c EXCEPT !.previous = None, !.older = Present] \in Claims
        BY <2>3 DEF Claims
    <2>5. \A j \in ks : claim[j] # None BY <2>1, <2>2
    <2>6. claim' \in [Keys -> {None} \union Claims] BY <2>1, <2>4, <2>5 DEF TypeOK
    <2> QED BY <1>7, <2>6, FaultType DEF RecreateCompensated, TypeOK, history
<1>8. ASSUME NEW k \in Keys, NEW e \in Entries, EnqueueNewKey(k, e, content, requested)
      PROVE  TypeOK'
    <2>1. NewRow(content, Effective(requested)) \in Rows BY <1>2, NewRowType
    <2>2. NewClaim(e, content, requested, None) \in Claims BY NewClaimType
    <2> QED BY <1>8, <2>1, <2>2 DEF EnqueueNewKey, Insert, Begin, TypeOK
<1>9. ASSUME NEW k \in Keys, NEW e \in Entries, ReplayRecreates(k, e, content, requested)
      PROVE  TypeOK'
    <2>1. /\ claim[k] # None /\ claim[k].entry \in Entries
          /\ claim[k].policy \in Policies
        BY <1>9 DEF ReplayRecreates, MayRecreate, StaleClaim, Replayable, TypeOK, Claims
    <2>2. NewRow(content, claim[k].policy) \in Rows BY <2>1, NewRowType
    <2>3. claim' \in [Keys -> {None} \union Claims] BY <1>9, <2>1, MovedType DEF ReplayRecreates
    <2> QED BY <1>9, <2>1, <2>2, <2>3 DEF ReplayRecreates, Insert, TypeOK
<1>10. ASSUME NEW k \in Keys, NEW e \in Entries, NEW p \in Policies,
              OldEnqueue(k, e, content, requested, p)
       PROVE  TypeOK'
    <2>1. NewRow(content, p) \in Rows BY NewRowType
    <2>2. NewClaim(e, content, requested, None) \in Claims BY NewClaimType
    <2>3. [NewClaim(e, content, requested, None) EXCEPT !.policy = None] \in Claims
        BY <2>2 DEF Claims
    <2> QED BY <1>10, <2>1, <2>3, FaultType DEF OldEnqueue, Insert, Begin, TypeOK
<1> QED BY <1>1, <1>3, <1>4, <1>5, <1>6, <1>7, <1>8, <1>9, <1>10

LEMMA OperatorType ==
    ASSUME TypeOK, Bookkeeping, Operator
    PROVE  TypeOK'
<1>1. ASSUME NEW e \in Entries, RetryFailed(e) PROVE TypeOK'
    <2>1. [[row[e] EXCEPT !.status = "pending"] EXCEPT !.due = TRUE] \in Rows
        <3>1. row[e] \in Rows BY DEF TypeOK
        <3> QED BY <3>1 DEF Rows, Stored
    <2>2. row' = [row EXCEPT ![e] = [[row[e] EXCEPT !.status = "pending"] EXCEPT !.due = TRUE]]
        BY <1>1 DEF RetryFailed, TypeOK
    <2> QED BY <1>1, <2>1, <2>2 DEF RetryFailed, TypeOK, history
<1>2. ASSUME NEW e \in Entries, OldBury(e) PROVE TypeOK'
    <2>1. [retry |-> None, policy |-> None] \in Letters BY DEF Letters
    <2>2. row' \in [Entries -> Rows] BY <1>2, DeletedFacts DEF OldBury
    <2> QED BY <1>2, <2>1, <2>2, FaultType DEF OldBury, TypeOK, history
<1>3. ASSUME NEW o \in Entries, NEW e \in Entries, OldRetry(o, e) PROVE TypeOK'
    <2>1. row[o].content \in Contents \union {None} /\ row[o].policy \in Policies \union {None}
        BY DEF TypeOK, Rows
    <2>2. NewRow(row[o].content, row[o].policy) \in Rows BY <2>1, NewRowType
    <2> QED BY <1>3, <2>2, FaultType DEF OldRetry, Insert, TypeOK
<1>4. ASSUME NEW o \in Entries, NEW e \in Entries, NEW n \in 1..5, RetryDeadLetter(o, e, n)
      PROVE  TypeOK'
    <2>1. RetryTarget(o, e) BY <1>4 DEF RetryDeadLetter, RetryTarget
    <2>2. row' \in [Entries -> Rows] BY <1>4, <2>1, RetryRowsFacts DEF RetryDeadLetter
    <2>3. claim' \in [Keys -> {None} \union Claims]
        BY <1>4, RetryClaimsFacts DEF RetryDeadLetter
    <2>4. dead' \in [Entries -> {None} \union Letters] BY <1>4, RetryDeadFacts DEF RetryDeadLetter
    <2>5. faults' \in 0..MaxFaults BY <1>4, FaultType DEF RetryDeadLetter, TypeOK
    <2> QED BY <1>4, <2>2, <2>3, <2>4, <2>5 DEF RetryDeadLetter, TypeOK
<1>5. ASSUME NEW es \in SUBSET Entries, PurgeDelivered(es) PROVE TypeOK'
    <2>1. row' \in [Entries -> Rows] BY <1>5, DeletedFacts DEF PurgeDelivered, Expire
    <2>2. claim' \in [Keys -> {None} \union Claims] /\ faults' \in 0..MaxFaults
        BY <1>5, FaultType DEF PurgeDelivered, TypeOK
    <2>3. \A e \in es : root[e] \in Entries
        BY <1>5 DEF PurgeDelivered, Delivered, Bookkeeping
    <2>4. expired' \subseteq Entries BY <1>5, <2>3 DEF PurgeDelivered, Expire, TypeOK
    <2>5. sent' \in [Entries -> 0..2] BY <1>5 DEF PurgeDelivered, Expire, TypeOK
    <2> QED BY <1>5, <2>1, <2>2, <2>4, <2>5 DEF PurgeDelivered, Expire, TypeOK
<1> QED BY <1>1, <1>2, <1>3, <1>4, <1>5 DEF Operator

LEMMA WorkType ==
    ASSUME TypeOK, Bookkeeping, WorkerInv, Work
    PROVE  TypeOK'
<1>0. worker \in Workers BY DEF TypeOK, Workers
<1>a. TypeOK <=> /\ row \in [Entries -> Rows]
                 /\ dead \in [Entries -> {None} \union Letters]
                 /\ claim \in [Keys -> {None} \union Claims]
                 /\ default \in Policies
                 /\ worker \in Workers
                 /\ root \in [Entries -> Entries \union {None}]
                 /\ sent \in [Entries -> 0..2]
                 /\ unsure \subseteq Entries
                 /\ expired \subseteq Entries
                 /\ faults \in 0..MaxFaults
    BY DEF TypeOK, Workers
<1>1. ASSUME NEW es \in SUBSET Entries, Poll(es) PROVE TypeOK'
    <2>1. worker' \in Workers BY <1>0, <1>1, WorkerUpdate DEF Poll
    <2> QED BY <1>1, <2>1 DEF Poll, TypeOK, Workers, history
<1>2. ASSUME NEW e \in Entries, MarkInFlight(e) PROVE TypeOK'
    <2>1. worker' \in Workers
        <3>1. worker.todo \ {e} \in SUBSET Entries BY <1>0 DEF Workers
        <3>2. worker' = [worker EXCEPT !.todo = worker.todo \ {e}, !.cur = e, !.stage = "sending"]
            BY <1>2 DEF MarkInFlight
        <3> QED BY <1>0, <3>1, <3>2, WorkerUpdate
    <2>2. row[e] \in Rows BY DEF TypeOK
    <2>3. row' = [row EXCEPT ![e] = [row[e] EXCEPT !.status =
                                       IF Exists(e) THEN "in_flight" ELSE row[e].status]]
        BY <1>2 DEF MarkInFlight, TypeOK
    <2>4. [row[e] EXCEPT !.status = IF Exists(e) THEN "in_flight" ELSE row[e].status] \in Rows
        BY <2>2 DEF Rows, Stored
    <2>5. row' \in [Entries -> Rows] BY <2>3, <2>4 DEF TypeOK
    <2> QED BY <1>2, <2>1, <2>5 DEF MarkInFlight, TypeOK, Workers, history
<1>3. ASSUME NEW accepted \in BOOLEAN, Deliver(accepted) PROVE TypeOK'
    <2>1. worker' \in Workers BY <1>0, <1>3, WorkerUpdate DEF Deliver
    <2>2. sent' \in [Entries -> 0..2]
        <3> DEFINE r == root[worker.cur]
        <3>1. CASE r \in Entries
            <4>1. sent[r] \in 0..2 BY <3>1 DEF TypeOK
            <4>2. (IF sent[r] < 2 THEN sent[r] + 1 ELSE 2) \in 0..2 BY <4>1
            <4> HIDE DEF r
            <4> QED BY <1>3, <4>2 DEF Deliver, TypeOK, r
        <3>2. CASE r \notin Entries BY <1>3, <3>2 DEF Deliver, TypeOK
        <3> QED BY <3>1, <3>2
    <2> QED BY <1>3, <2>1, <2>2 DEF Deliver, TypeOK, Workers
<1>4. ASSUME NEW status \in Stored, NEW due \in BOOLEAN, Record(status, due), worker.cur \in Entries
      PROVE  row' \in [Entries -> Rows]
    <2>1. row[worker.cur] \in Rows BY <1>4 DEF TypeOK
    <2>2. Attempted(row[worker.cur], status, due) \in Rows
        BY <1>4, <2>1, AttemptedFacts
    <2> QED BY <1>4, <2>1, <2>2 DEF Record, TypeOK
<1>5. worker.stage # "idle" => worker.cur \in Entries BY <1>0 DEF WorkerInv, Workers
<1>6. ASSUME RecordDelivered PROVE TypeOK'
    <2>1. row' \in [Entries -> Rows] BY <1>4, <1>5, <1>6 DEF RecordDelivered, Stored
    <2>2. worker' \in Workers BY <1>0, <1>6, WorkerUpdate DEF RecordDelivered
    <2> QED BY <1>6, <2>1, <2>2 DEF RecordDelivered, TypeOK, Workers, history
<1>7. ASSUME RecordFailed PROVE TypeOK'
    <2>1. row[worker.cur].due \in BOOLEAN
        <3>1. worker.cur \in Entries BY <1>5, <1>7 DEF RecordFailed
        <3>2. row[worker.cur] \in Rows BY <3>1 DEF TypeOK
        <3> QED BY <3>2 DEF Rows
    <2>2. row' \in [Entries -> Rows]
        BY <1>4, <1>5, <1>7, <2>1 DEF RecordFailed, Stored
    <2>3. worker' \in Workers BY <1>0, <1>7, WorkerUpdate DEF RecordFailed
    <2> QED BY <1>7, <2>2, <2>3 DEF RecordFailed, TypeOK, Workers, history
<1>8. ASSUME MoveToDeadLetter PROVE TypeOK'
    <2>1. worker.cur \in Entries BY <1>5, <1>8 DEF MoveToDeadLetter
    <2>2. row[worker.cur].policy \in Policies \union {None} BY <2>1 DEF TypeOK, Rows
    <2>3. [retry |-> None, policy |-> row[worker.cur].policy] \in Letters BY <2>2 DEF Letters
    <2>4. dead' \in [Entries -> {None} \union Letters]
        BY <1>8, <2>3 DEF MoveToDeadLetter, Buried, TypeOK
    <2>5. row' \in [Entries -> Rows] BY <1>8, DeletedFacts DEF MoveToDeadLetter, TypeOK
    <2>6. worker' \in Workers BY <1>0, <1>8, WorkerUpdate DEF MoveToDeadLetter
    <2>7. faults' \in 0..MaxFaults BY <1>8, FaultType DEF MoveToDeadLetter, TypeOK
    <2> QED BY <1>8, <2>4, <2>5, <2>6, <2>7 DEF MoveToDeadLetter, TypeOK, Workers, history
<1> QED BY <1>1, <1>2, <1>3, <1>6, <1>7, <1>8 DEF Work

LEMMA LifecycleType ==
    ASSUME TypeOK, Bookkeeping, WorkerInv, Lifecycle
    PROVE  TypeOK'
<1>0. worker \in Workers BY DEF TypeOK, Workers
<1>1. ASSUME NEW p \in Policies, Start(p) PROVE TypeOK'
    <2>1. worker' \in Workers BY <1>0, <1>1, WorkerUpdate DEF Start
    <2>2. ASSUME NEW e \in Entries
          PROVE  [row[e] EXCEPT !.status = "pending", !.due = TRUE] \in Rows
        <3>1. row[e] \in Rows BY DEF TypeOK
        <3> QED BY <3>1 DEF Rows, Stored
    <2>3. row' \in [Entries -> Rows] BY <1>1, <2>2 DEF Start, TypeOK
    <2> QED BY <1>1, <2>1, <2>3 DEF Start, TypeOK, Workers, history
<1>2. ASSUME Stop PROVE TypeOK'
    BY <1>0, <1>2, WorkerUpdate DEF Stop, TypeOK, Workers, history
<1>3. Doubt \subseteq Entries
    <2>1. CASE worker.stage = "accepted"
        <3>1. worker.cur \in Entries BY <1>0, <2>1 DEF WorkerInv, Workers
        <3>2. root[worker.cur] \in Entries
            BY <2>1, <3>1 DEF WorkerInv, Bookkeeping, Live, Exists, Stored
        <3> QED BY <3>2 DEF Doubt
    <2> QED BY <2>1 DEF Doubt
<1>4. ASSUME TickError PROVE TypeOK'
    <2>1. worker' \in Workers
        <3> DEFINE left == IF worker.stage \in {"accepted", "refused"}
                           THEN worker.left \union {worker.cur} ELSE worker.left
        <3>1. left \in SUBSET Entries BY <1>0 DEF WorkerInv, Workers
        <3>2. worker' = [Finish(worker) EXCEPT !.todo = {}, !.left = left]
            BY <1>0, <1>4 DEF TickError, Finish, Workers
        <3> HIDE DEF left
        <3> QED BY <1>0, <3>1, <3>2, WorkerUpdate
    <2> QED BY <1>3, <1>4, <2>1, FaultType DEF TickError, TypeOK, Workers, history
<1>5. ASSUME Crash PROVE TypeOK'
    <2>1. worker' \in Workers BY <1>0, <1>5, WorkerUpdate DEF Crash
    <2> QED BY <1>3, <1>5, <2>1, FaultType DEF Crash, TypeOK, Workers, history
<1> QED BY <1>1, <1>2, <1>4, <1>5 DEF Lifecycle

LEMMA TimeType ==
    ASSUME TypeOK, Time
    PROVE  TypeOK'
<1>1. PICK e \in Entries : BackoffEnds(e) \/ WindowPasses(e) BY DEF Time
<1>2. row[e] \in Rows BY DEF TypeOK
<1>3. [row[e] EXCEPT !.due = TRUE] \in Rows /\ [row[e] EXCEPT !.recent = FALSE] \in Rows
    BY <1>2 DEF Rows
<1>4. CASE BackoffEnds(e) BY <1>3, <1>4 DEF BackoffEnds, TypeOK, history
<1>5. CASE WindowPasses(e) BY <1>3, <1>5 DEF WindowPasses, TypeOK, history
<1> QED BY <1>1, <1>4, <1>5

LEMMA TypeStep ==
    ASSUME TypeOK, Bookkeeping, WorkerInv, [Next]_vars
    PROVE  TypeOK'
<1>1. CASE Next
    BY <1>1, RequestsType, OperatorType, WorkType, LifecycleType, TimeType DEF Next
<1>2. CASE UNCHANGED vars BY <1>2 DEF vars, history, TypeOK
<1> QED BY <1>1, <1>2

-----------------------------------------------------------------------------
(* Steps that neither insert nor delete a row.                             *)

LEMMA StoredFacts ==
    /\ Stored = {"pending", "in_flight", "failed", "delivered"}
    /\ \A e \in Entries : Exists(e) <=> row[e].status \in {"pending", "in_flight", "failed", "delivered"}
BY DEF Exists, Stored

LEMMA SameTables ==
    ASSUME UNCHANGED dead, \A e \in Entries : Exists(e)' <=> Exists(e)
    PROVE  \A e \in Entries : /\ Tombstoned(e)' <=> Tombstoned(e)
                              /\ Live(e)' <=> Live(e)
                              /\ Holder(e)' <=> Holder(e)
BY DEF Tombstoned, Live, Holder

\* Only live rows get another status, and they stay rows.
RowStep ==
    /\ UNCHANGED <<dead, claim, root, expired>>
    /\ \A e \in Entries :
          /\ row'[e].policy = row[e].policy
          /\ row'[e].status # row[e].status => Live(e) /\ row'[e].status \in Stored

LEMMA RowStepExists ==
    ASSUME RowStep
    PROVE  /\ \A e \in Entries : Exists(e)' <=> Exists(e)
           /\ \A e \in Entries : Tombstoned(e)' <=> Tombstoned(e)
           /\ \A e \in Entries : Live(e)' <=> Live(e)
           /\ \A e \in Entries : Holder(e)' <=> Holder(e)
<1>1. \A e \in Entries : Exists(e)' <=> Exists(e) BY DEF RowStep, Exists, Live
<1>2. UNCHANGED dead BY DEF RowStep
<1> QED BY <1>1, <1>2, SameTables

LEMMA RowStepKeeps ==
    ASSUME TypeOK, RowStep
    PROVE  /\ Bookkeeping => Bookkeeping'
           /\ ClaimsInv => ClaimsInv'
           /\ NothingLost => NothingLost'
           /\ HolderInv => HolderInv'
           /\ PolicyInv => PolicyInv'
<1>1. /\ \A e \in Entries : Exists(e)' <=> Exists(e)
      /\ \A e \in Entries : Tombstoned(e)' <=> Tombstoned(e)
      /\ \A e \in Entries : Live(e)' <=> Live(e)
      /\ \A e \in Entries : Holder(e)' <=> Holder(e)
    BY RowStepExists
<1>2. /\ UNCHANGED <<dead, claim, root, expired>>
      /\ \A e \in Entries :
            /\ row'[e].policy = row[e].policy
            /\ row'[e].status # row[e].status =>
                  ~Tombstoned(e) /\ row[e].status \in Stored /\ row'[e].status \in Stored
    BY DEF RowStep, Live, Exists
<1>3. \A e \in Entries : dead[e] # None /\ dead[e].retry # None => dead[e].retry \in Entries
    BY DEF TypeOK, Letters
<1>4. \A k \in Keys : claim[k] # None => claim[k].entry \in Entries BY DEF TypeOK, Claims
<1>5. ASSUME Bookkeeping PROVE Bookkeeping'
    <2> SUFFICES ASSUME NEW e \in Entries
                 PROVE  /\ row'[e].status = "unused" => root[e] = None /\ dead[e] = None
                        /\ row'[e].status # "unused" => root[e] \in Entries /\ root[root[e]] = root[e]
                        /\ row'[e].status \notin {"unused", "reserved"} =>
                              row'[e].policy \in Policies
                        /\ dead[e] # None => row'[e].status \in {"pending", "failed", "gone"}
                        /\ dead[e] # None /\ dead[e].retry # None =>
                              /\ dead[dead[e].retry] = None
                              /\ row'[dead[e].retry].status \in {"reserved", "pending"}
                              /\ root[dead[e].retry] = root[e]
        BY <1>1, <1>2 DEF Bookkeeping
    <2>1. /\ row'[e].status = "unused" <=> row[e].status = "unused"
          /\ row'[e].status \in {"unused", "reserved"} <=> row[e].status \in {"unused", "reserved"}
        BY <1>2, StoredFacts
    <2>2. dead[e] # None => row'[e].status = row[e].status BY <1>2 DEF Tombstoned
    <2>3. dead[e] # None /\ dead[e].retry # None =>
            row'[dead[e].retry].status = row[dead[e].retry].status
        BY <1>2, <1>3 DEF Tombstoned
    <2>4. /\ row[e].status = "unused" => root[e] = None /\ dead[e] = None
          /\ row[e].status # "unused" => root[e] \in Entries /\ root[root[e]] = root[e]
          /\ row[e].status \notin {"unused", "reserved"} => row[e].policy \in Policies
          /\ dead[e] # None => row[e].status \in {"pending", "failed", "gone"}
          /\ dead[e] # None /\ dead[e].retry # None =>
                /\ dead[dead[e].retry] = None
                /\ row[dead[e].retry].status \in {"reserved", "pending"}
                /\ root[dead[e].retry] = root[e]
        BY <1>5 DEF Bookkeeping
    <2>5. row'[e].policy = row[e].policy BY <1>2
    <2> QED BY <2>1, <2>2, <2>3, <2>4, <2>5
<1>6. ASSUME ClaimsInv PROVE ClaimsInv'
    BY <1>2, <1>4, <1>6, StoredFacts DEF ClaimsInv
<1>7. ASSUME NothingLost PROVE NothingLost' BY <1>1, <1>2, <1>7 DEF NothingLost
<1>8. ASSUME HolderInv PROVE HolderInv'
    <2>1. OneHolder' BY <1>1, <1>2, <1>8 DEF HolderInv, OneHolder
    <2>2. ClaimsFollow' BY <1>1, <1>2, <1>8 DEF HolderInv, ClaimsFollow
    <2>3. \A k \in Keys : Stale(k)' <=> Stale(k) BY <1>1, <1>2, <1>4 DEF Stale
    <2>4. StaleTogether' BY <1>2, <1>8, <2>3 DEF HolderInv, StaleTogether
    <2> QED BY <2>1, <2>2, <2>4 DEF HolderInv
<1>9. ASSUME PolicyInv PROVE PolicyInv'
    BY <1>1, <1>2, <1>3, <1>4, <1>9 DEF PolicyInv
<1> QED BY <1>5, <1>6, <1>7, <1>8, <1>9

LEMMA RowSteps ==
    ASSUME TypeOK, WorkerInv
    PROVE  /\ \A e \in Entries :
                 RetryFailed(e) \/ BackoffEnds(e) \/ WindowPasses(e) \/ MarkInFlight(e) => RowStep
           /\ \A p \in Policies : Start(p) => RowStep
           /\ \A es \in SUBSET Entries : Poll(es) => RowStep
           /\ \A accepted \in BOOLEAN : Deliver(accepted) => RowStep
           /\ RecordDelivered \/ RecordFailed \/ Stop \/ TickError \/ Crash => RowStep
<1>0. row \in [Entries -> Rows] BY DEF TypeOK
<1>1. ASSUME NEW e \in Entries, RetryFailed(e) PROVE RowStep
    <2>1. row' = [row EXCEPT ![e] = [[row[e] EXCEPT !.status = "pending"] EXCEPT !.due = TRUE]]
        BY <1>0, <1>1 DEF RetryFailed
    <2>2. row[e] \in Rows BY <1>0
    <2>3. /\ [[row[e] EXCEPT !.status = "pending"] EXCEPT !.due = TRUE].status = "pending"
          /\ [[row[e] EXCEPT !.status = "pending"] EXCEPT !.due = TRUE].policy = row[e].policy
        BY <2>2 DEF Rows
    <2>4. \A x \in Entries : /\ row'[x].policy = row[x].policy
                             /\ x # e => row'[x].status = row[x].status
                             /\ x = e => row'[x].status = "pending"
        BY <1>0, <2>1, <2>3
    <2>5. Live(e) /\ UNCHANGED <<dead, claim, root, expired>>
        BY <1>1 DEF RetryFailed, history
    <2>6. "pending" \in Stored BY DEF Stored
    <2> QED BY <2>4, <2>5, <2>6 DEF RowStep
<1>2. ASSUME NEW e \in Entries, BackoffEnds(e) \/ WindowPasses(e) PROVE RowStep
    <2>1. row[e] \in Rows BY <1>0
    <2>2. /\ [row[e] EXCEPT !.due = TRUE].status = row[e].status
          /\ [row[e] EXCEPT !.due = TRUE].policy = row[e].policy
          /\ [row[e] EXCEPT !.recent = FALSE].status = row[e].status
          /\ [row[e] EXCEPT !.recent = FALSE].policy = row[e].policy
        BY <2>1 DEF Rows
    <2>3. \/ row' = [row EXCEPT ![e] = [row[e] EXCEPT !.due = TRUE]]
          \/ row' = [row EXCEPT ![e] = [row[e] EXCEPT !.recent = FALSE]]
        BY <1>0, <1>2 DEF BackoffEnds, WindowPasses
    <2>4. \A x \in Entries : row'[x].policy = row[x].policy /\ row'[x].status = row[x].status
        BY <1>0, <2>2, <2>3
    <2> QED BY <1>2, <2>4 DEF BackoffEnds, WindowPasses, RowStep, history
<1>3. ASSUME NEW e \in Entries, MarkInFlight(e) PROVE RowStep
    <2>1. Live(e) BY <1>3 DEF MarkInFlight, WorkerInv
    <2>2. row' = [row EXCEPT ![e] = [row[e] EXCEPT !.status = "in_flight"]]
        BY <1>0, <1>3, <2>1 DEF MarkInFlight, Live
    <2>3. row[e] \in Rows BY <1>0
    <2>4. /\ [row[e] EXCEPT !.status = "in_flight"].status = "in_flight"
          /\ [row[e] EXCEPT !.status = "in_flight"].policy = row[e].policy
        BY <2>3 DEF Rows
    <2>5. \A x \in Entries : /\ row'[x].policy = row[x].policy
                             /\ x # e => row'[x].status = row[x].status
                             /\ x = e => row'[x].status = "in_flight"
        BY <1>0, <2>2, <2>4
    <2> QED BY <1>3, <2>1, <2>5, StoredFacts DEF MarkInFlight, RowStep, history
<1>4. ASSUME NEW p \in Policies, Start(p) PROVE RowStep
    <2>1. ASSUME NEW e \in Entries
          PROVE  /\ [row[e] EXCEPT !.status = "pending", !.due = TRUE].status = "pending"
                 /\ [row[e] EXCEPT !.status = "pending", !.due = TRUE].policy = row[e].policy
        <3>1. row[e] \in Rows BY <1>0
        <3> QED BY <3>1 DEF Rows
    <2>2. \A e \in Entries :
            row'[e] = IF Live(e) /\ row[e].status = "in_flight"
                      THEN [row[e] EXCEPT !.status = "pending", !.due = TRUE] ELSE row[e]
        BY <1>4 DEF Start
    <2>3. \A x \in Entries : /\ row'[x].policy = row[x].policy
                             /\ row'[x].status # row[x].status =>
                                   Live(x) /\ row'[x].status = "pending"
        BY <2>1, <2>2
    <2>4. UNCHANGED <<dead, claim, root, expired>> BY <1>4 DEF Start, history
    <2>5. "pending" \in Stored BY DEF Stored
    <2> QED BY <2>3, <2>4, <2>5 DEF RowStep
<1>5. \A es \in SUBSET Entries : Poll(es) => RowStep BY DEF Poll, RowStep, history
<1>6. \A accepted \in BOOLEAN : Deliver(accepted) => RowStep BY DEF Deliver, RowStep
<1>7. Stop \/ TickError \/ Crash => RowStep BY DEF Stop, TickError, Crash, RowStep, history
<1>8. ASSUME NEW status \in Stored, NEW due \in BOOLEAN, Record(status, due),
             worker.stage # "idle", UNCHANGED <<dead, claim, root, expired>>
      PROVE  RowStep
    <2>1. worker.cur \in Entries /\ Live(worker.cur) BY <1>8 DEF WorkerInv, TypeOK
    <2>2. row[worker.cur] \in Rows BY <1>0, <2>1
    <2>3. row' = [row EXCEPT ![worker.cur] = Attempted(row[worker.cur], status, due)]
        BY <1>0, <1>8, <2>1 DEF Record, Live
    <2>4. /\ Attempted(row[worker.cur], status, due).status = status
          /\ Attempted(row[worker.cur], status, due).policy = row[worker.cur].policy
        BY <2>2, AttemptedFacts
    <2>5. \A x \in Entries : /\ row'[x].policy = row[x].policy
                             /\ x # worker.cur => row'[x].status = row[x].status
                             /\ x = worker.cur => row'[x].status = status
        BY <1>0, <2>3, <2>4
    <2> QED BY <1>8, <2>1, <2>5 DEF RowStep
<1>9. RecordDelivered => RowStep BY <1>8, StoredFacts DEF RecordDelivered, history
<1>10. ASSUME RecordFailed PROVE RowStep
    <2>1. worker.cur \in Entries BY <1>10 DEF RecordFailed, WorkerInv, TypeOK
    <2>2. row[worker.cur] \in Rows BY <1>0, <2>1
    <2>3. row[worker.cur].due \in BOOLEAN BY <2>2 DEF Rows
    <2> QED BY <1>8, <1>10, <2>3, StoredFacts DEF RecordFailed, history
<1> QED BY <1>1, <1>2, <1>3, <1>4, <1>5, <1>6, <1>7, <1>9, <1>10

-----------------------------------------------------------------------------
(* Steps that insert a row.                                                *)

\* Entry e is new, the next row of the logical delivery r.
Inserted(e, r) ==
    /\ row[e].status = "unused"
    /\ row'[e].status = "pending" /\ row'[e].policy \in Policies
    /\ \A x \in Entries \ {e} : row'[x] = row[x]
    /\ root' = [root EXCEPT ![e] = r]
    /\ r = e \/ (r \in Entries /\ root[r] = r)

\* A dead letter that is consumed by an older writer, if any.
Consumed(o) ==
    \A x \in Entries : dead'[x] = IF x = o THEN None ELSE dead[x]

LEMMA InsertedExists ==
    ASSUME TypeOK, Bookkeeping, NEW e \in Entries, NEW r, Inserted(e, r)
    PROVE  /\ \A x \in Entries : Exists(x)' <=> Exists(x) \/ x = e
           /\ ~Exists(e) /\ ~Tombstoned(e) /\ dead[e] = None /\ root[e] = None
           /\ UNCHANGED dead =>
                 \A x \in Entries : /\ Tombstoned(x)' <=> Tombstoned(x)
                                    /\ Live(x)' <=> Live(x) \/ x = e
                                    /\ Holder(x)' <=> Holder(x) \/ x = e
<1>1. \A x \in Entries : Exists(x)' <=> Exists(x) \/ x = e
    BY DEF Inserted, Exists, Stored
<1>2. dead[e] = None /\ root[e] = None /\ ~Exists(e)
    BY DEF Inserted, Bookkeeping, Exists, Stored
<1>3. ~Tombstoned(e)
    <2>1. ASSUME NEW o \in Entries, dead[o] # None, dead[o].retry = e PROVE FALSE
        <3>1. dead[o].retry # None BY <2>1, ConstantsAssumption
        <3>2. row[e].status \in {"reserved", "pending"} BY <2>1, <3>1 DEF Bookkeeping
        <3> QED BY <3>2 DEF Inserted
    <2> QED BY <1>2, <2>1 DEF Tombstoned
<1>4. UNCHANGED dead => \A x \in Entries : Tombstoned(x)' <=> Tombstoned(x) BY DEF Tombstoned
<1> QED BY <1>1, <1>2, <1>3, <1>4 DEF Live, Holder

LEMMA InsertedKeeps ==
    ASSUME TypeOK, Bookkeeping, NEW e \in Entries, NEW r, Inserted(e, r),
           UNCHANGED dead \/ \E o \in Entries : Consumed(o)
    PROVE  Bookkeeping'
<1> SUFFICES ASSUME NEW x \in Entries
             PROVE  /\ row'[x].status = "unused" => root'[x] = None /\ dead'[x] = None
                    /\ row'[x].status # "unused" =>
                          root'[x] \in Entries /\ root'[root'[x]] = root'[x]
                    /\ row'[x].status \notin {"unused", "reserved"} => row'[x].policy \in Policies
                    /\ dead'[x] # None => row'[x].status \in {"pending", "failed", "gone"}
                    /\ dead'[x] # None /\ dead'[x].retry # None =>
                          /\ dead'[dead'[x].retry] = None
                          /\ row'[dead'[x].retry].status \in {"reserved", "pending"}
                          /\ root'[dead'[x].retry] = root'[x]
    BY DEF Bookkeeping
<1>1. \A y \in Entries : dead'[y] = dead[y] \/ dead'[y] = None
    BY DEF Consumed
<1>2. \A y \in Entries : root'[y] = IF y = e THEN r ELSE root[y]
    BY DEF Inserted, TypeOK
<1>3. root[e] = None /\ dead[e] = None /\ row[e].status = "unused" /\ None \notin Entries
    BY ConstantsAssumption DEF Inserted, Bookkeeping
<1>4. r \in Entries /\ root'[r] = r BY <1>2, <1>3 DEF Inserted
<1>5. row'[x].status # "unused" => root'[x] \in Entries /\ root'[root'[x]] = root'[x]
    <2>1. CASE x = e BY <1>2, <1>4, <2>1
    <2>2. CASE x # e BY <1>2, <1>3, <2>2 DEF Inserted, Bookkeeping
    <2> QED BY <2>1, <2>2
<1>6. dead'[x] # None => x # e /\ dead'[x] = dead[x] /\ row'[x] = row[x] /\ root'[x] = root[x]
    BY <1>1, <1>2, <1>3 DEF Inserted
<1>7. ASSUME dead'[x] # None, dead'[x].retry # None
      PROVE  /\ dead'[dead'[x].retry] = None
             /\ row'[dead'[x].retry].status \in {"reserved", "pending"}
             /\ root'[dead'[x].retry] = root'[x]
    <2>1. dead[x].retry \in Entries BY <1>6, <1>7 DEF TypeOK, Letters
    <2>2. /\ dead[dead[x].retry] = None
          /\ row[dead[x].retry].status \in {"reserved", "pending"}
          /\ root[dead[x].retry] = root[x]
        BY <1>6, <1>7 DEF Bookkeeping
    <2>3. dead[x].retry # e BY <1>3, <2>2
    <2>4. row'[dead[x].retry] = row[dead[x].retry] BY <2>1, <2>3 DEF Inserted
    <2>5. root'[dead[x].retry] = root[dead[x].retry] BY <1>2, <2>1, <2>3
    <2>6. dead'[dead[x].retry] = None BY <1>1, <2>1, <2>2
    <2> QED BY <1>6, <1>7, <2>2, <2>4, <2>5, <2>6
<1>8. dead'[x] # None => row'[x].status \in {"pending", "failed", "gone"}
    BY <1>6 DEF Bookkeeping
<1>9. /\ row'[x].status = "unused" => root'[x] = None /\ dead'[x] = None
      /\ row'[x].status \notin {"unused", "reserved"} => row'[x].policy \in Policies
    <2>1. CASE x = e BY <2>1 DEF Inserted
    <2>2. CASE x # e BY <1>1, <1>2, <2>2 DEF Inserted, Bookkeeping
    <2> QED BY <2>1, <2>2
<1> QED BY <1>5, <1>7, <1>8, <1>9

LEMMA InsertType ==
    ASSUME TypeOK, NEW e \in Entries, NEW content \in Contents \union {None},
           NEW policy \in Policies \union {None}, row[e].status = "unused",
           Insert(e, content, policy)
    PROVE  /\ row'[e].status = "pending" /\ row'[e].policy = policy
           /\ \A x \in Entries \ {e} : row'[x] = row[x]
<1>1. row' = [row EXCEPT ![e] = NewRow(content, policy)] BY DEF Insert
<1> QED BY <1>1, NewRowType DEF TypeOK

\* The first row of a logical delivery.
Started(e) == Inserted(e, e) /\ UNCHANGED <<dead, sent, unsure, expired, worker>>

LEMMA StartedSteps ==
    ASSUME TypeOK, NEW e \in Entries, NEW content \in Contents, NEW requested \in Requested
    PROVE  /\ Enqueue(e, content, requested) => Started(e)
           /\ \A k \in Keys : EnqueueNewKey(k, e, content, requested) => Started(e)
           /\ \A k \in Keys, p \in Policies :
                 OldEnqueue(k, e, content, requested, p) => Started(e)
<1>1. ASSUME NEW p \in Policies, row[e].status = "unused", Insert(e, content, p), Begin(e),
             UNCHANGED <<dead, worker>>
      PROVE  Started(e)
    <2>1. /\ row'[e].status = "pending" /\ row'[e].policy = p
          /\ \A x \in Entries \ {e} : row'[x] = row[x]
        BY <1>1, InsertType
    <2> QED BY <1>1, <2>1 DEF Started, Inserted, Begin
<1>2. Effective(requested) \in Policies BY EffectiveType
<1> QED BY <1>1, <1>2 DEF Enqueue, EnqueueNewKey, OldEnqueue

\* A stale claim's new row.
LEMMA RecreateInserts ==
    ASSUME TypeOK, Bookkeeping, ClaimsInv, NEW k \in Keys, NEW e \in Entries,
           NEW content \in Contents, NEW requested \in Requested,
           ReplayRecreates(k, e, content, requested)
    PROVE  /\ Stale(k) /\ claim[k].entry \in Entries
           /\ Inserted(e, root[claim[k].entry])
<1>1. Stale(k) /\ claim[k].entry \in Entries /\ claim[k].policy \in Policies
    BY DEF ReplayRecreates, MayRecreate, StaleClaim, Replayable, Stale, TypeOK, Claims
<1>2. row[claim[k].entry].status # "unused" BY <1>1 DEF ClaimsInv, Stale
<1>3. root[claim[k].entry] \in Entries /\ root[root[claim[k].entry]] = root[claim[k].entry]
    BY <1>1, <1>2 DEF Bookkeeping
<1> QED BY <1>1, <1>3, InsertType DEF ReplayRecreates, Inserted

LEMMA OldRetryInserts ==
    ASSUME TypeOK, Bookkeeping, NEW o \in Entries, NEW e \in Entries, OldRetry(o, e)
    PROVE  Inserted(e, root[o]) /\ Consumed(o)
<1>1. row[o].status \in {"pending", "failed", "gone"} BY DEF OldRetry, Bookkeeping
<1>2. row[o].policy \in Policies /\ root[o] \in Entries /\ root[root[o]] = root[o]
    BY <1>1 DEF Bookkeeping
<1>3. row[o].content \in Contents \union {None} BY DEF TypeOK, Rows
<1>4. Consumed(o) BY DEF OldRetry, Consumed, TypeOK
<1> QED BY <1>2, <1>3, <1>4, InsertType DEF OldRetry, Inserted

-----------------------------------------------------------------------------
(* Steps that write or consume dead letters, or delete rows.               *)

\* A live row goes to the dead letters, at once or first as a tombstone only.
Buries(e) ==
    /\ Live(e) /\ row[e].status \in {"pending", "failed"}
    /\ dead'[e] # None /\ dead'[e].retry = None
    /\ dead'[e].policy \in {None, row[e].policy}
    /\ dead'[e].policy = None => "bury" \in OldWriters
    /\ \A x \in Entries \ {e} : dead'[x] = dead[x]
    /\ \A x \in Entries :
          /\ row'[x].policy = row[x].policy
          /\ row'[x].status = row[x].status \/ (x = e /\ row'[x].status = "gone")
    /\ UNCHANGED <<claim, root, sent, expired>>

LEMMA BurySteps ==
    ASSUME TypeOK, Bookkeeping, WorkerInv
    PROVE  /\ MoveToDeadLetter => worker.cur \in Entries /\ Buries(worker.cur)
           /\ \A e \in Entries : OldBury(e) => Buries(e)
<1>0. dead \in [Entries -> {None} \union Letters] BY DEF TypeOK
<1>1. ASSUME NEW e \in Entries, NEW p \in Policies \union {None}
      PROVE  LET letter == [retry |-> None, policy |-> p] IN
             letter # None /\ letter.retry = None /\ letter.policy = p
    <2>1. [retry |-> None, policy |-> p] \in Letters BY DEF Letters
    <2> QED BY <2>1, NoneAssumption
<1>2. \A e \in Entries : row[e].policy \in Policies \union {None} BY DEF TypeOK, Rows
<1>3. ASSUME MoveToDeadLetter
      PROVE  worker.cur \in Entries /\ Buries(worker.cur)
    <2> DEFINE c == worker.cur
    <2>1. c \in Entries /\ Live(c) /\ row[c].status \in {"pending", "failed"}
        BY <1>3 DEF MoveToDeadLetter, WorkerInv, TypeOK
    <2>2. dead' = [dead EXCEPT ![c] = [retry |-> None, policy |-> row[c].policy]]
        BY <1>3, <2>1 DEF MoveToDeadLetter, Buried, Live
    <2>3. /\ dead'[c] # None /\ dead'[c].retry = None /\ dead'[c].policy = row[c].policy
          /\ \A x \in Entries \ {c} : dead'[x] = dead[x]
        BY <1>0, <1>1, <1>2, <2>1, <2>2
    <2>4. row' = Deleted({c}) \/ row' = row BY <1>3 DEF MoveToDeadLetter
    <2>5. \A x \in Entries :
             /\ row'[x].policy = row[x].policy
             /\ row'[x].status = row[x].status \/ (x = c /\ row'[x].status = "gone")
        BY <2>4, DeletedFacts
    <2>6. UNCHANGED <<claim, root, sent, expired>> BY <1>3 DEF MoveToDeadLetter, history
    <2>7. row[c].policy # None BY <2>1, ConstantsAssumption DEF Bookkeeping
    <2> QED BY <2>1, <2>3, <2>5, <2>6, <2>7 DEF Buries
<1>4. ASSUME NEW e \in Entries, OldBury(e) PROVE Buries(e)
    <2>1. Live(e) /\ row[e].status \in {"pending", "failed"} BY <1>4 DEF OldBury
    <2>2. /\ dead'[e] # None /\ dead'[e].retry = None /\ dead'[e].policy = None
          /\ \A x \in Entries \ {e} : dead'[x] = dead[x]
        BY <1>0, <1>1, <1>4 DEF OldBury
    <2>3. row' = Deleted({e}) BY <1>4 DEF OldBury
    <2>4. \A x \in Entries :
             /\ row'[x].policy = row[x].policy
             /\ row'[x].status = row[x].status \/ (x = e /\ row'[x].status = "gone")
        BY <2>3, DeletedFacts
    <2>5. UNCHANGED <<claim, root, sent, expired>> BY <1>4 DEF OldBury, history
    <2>6. "bury" \in OldWriters BY <1>4 DEF OldBury
    <2> QED BY <2>1, <2>2, <2>4, <2>5, <2>6 DEF Buries
<1> QED BY <1>3, <1>4

LEMMA BuriesExists ==
    ASSUME TypeOK, NEW e \in Entries, Buries(e)
    PROVE  /\ \A x \in Entries : Exists(x)' => Exists(x)
           /\ \A x \in Entries : x # e => (Exists(x)' <=> Exists(x))
           /\ \A x \in Entries : Tombstoned(x)' <=> Tombstoned(x) \/ x = e
           /\ \A x \in Entries : Live(x)' <=> Live(x) /\ x # e
           /\ \A x \in Entries : Holder(x)' <=> Holder(x)
           /\ dead[e] = None
<1>1. \A x \in Entries : Exists(x)' => Exists(x) BY DEF Buries, Exists, Stored
<1>2. \A x \in Entries : x # e => (Exists(x)' <=> Exists(x)) BY DEF Buries, Exists
<1>3. dead[e] = None BY DEF Buries, Live, Tombstoned
<1>4. ASSUME NEW x \in Entries PROVE Tombstoned(x)' <=> Tombstoned(x) \/ x = e
    <2>1. None # x BY ConstantsAssumption
    <2> QED BY <1>3, <2>1 DEF Buries, Tombstoned
<1>5. \A x \in Entries : Live(x)' <=> Live(x) /\ x # e BY <1>1, <1>2, <1>4 DEF Live
<1>6. \A x \in Entries : Holder(x)' <=> Holder(x) BY <1>3, <1>5 DEF Holder, Buries
<1> QED BY <1>1, <1>2, <1>3, <1>4, <1>5, <1>6

LEMMA BuriesKeeps ==
    ASSUME TypeOK, Bookkeeping, ClaimsInv, NothingLost, NEW e \in Entries, Buries(e)
    PROVE  Bookkeeping' /\ ClaimsInv' /\ NothingLost'
<1>1. /\ row[e].status \in {"pending", "failed"} /\ dead[e] = None /\ ~Tombstoned(e)
      /\ dead'[e] # None /\ dead'[e].retry = None
      /\ \A x \in Entries \ {e} : dead'[x] = dead[x]
      /\ \A x \in Entries :
            /\ row'[x].policy = row[x].policy
            /\ row'[x].status = row[x].status \/ (x = e /\ row'[x].status = "gone")
      /\ UNCHANGED <<claim, root, expired>>
    BY BuriesExists DEF Buries, Live
<1>2. Bookkeeping'
    <2> SUFFICES ASSUME NEW x \in Entries
                 PROVE  /\ row'[x].status = "unused" => root[x] = None /\ dead'[x] = None
                        /\ row'[x].status # "unused" => root[x] \in Entries /\ root[root[x]] = root[x]
                        /\ row'[x].status \notin {"unused", "reserved"} => row'[x].policy \in Policies
                        /\ dead'[x] # None => row'[x].status \in {"pending", "failed", "gone"}
                        /\ dead'[x] # None /\ dead'[x].retry # None =>
                              /\ dead'[dead'[x].retry] = None
                              /\ row'[dead'[x].retry].status \in {"reserved", "pending"}
                              /\ root[dead'[x].retry] = root[x]
        BY <1>1 DEF Bookkeeping
    <2>1. CASE x = e BY <1>1, <2>1 DEF Bookkeeping
    <2>2. CASE x # e
        <3>1. dead'[x] = dead[x] /\ row'[x].status = row[x].status /\ row'[x].policy = row[x].policy
            BY <1>1, <2>2
        <3>2. ASSUME dead[x] # None, dead[x].retry # None
              PROVE  /\ dead'[dead[x].retry] = None
                     /\ row'[dead[x].retry].status \in {"reserved", "pending"}
                     /\ root[dead[x].retry] = root[x]
            <4>1. dead[x].retry \in Entries BY <3>2 DEF TypeOK, Letters
            <4>2. dead[x].retry # e BY <1>1, <3>2 DEF Tombstoned
            <4> QED BY <1>1, <3>2, <4>1, <4>2 DEF Bookkeeping
        <3> QED BY <3>1, <3>2 DEF Bookkeeping
    <2> QED BY <2>1, <2>2
<1>3. \A k \in Keys : claim[k] # None => claim[k].entry \in Entries BY DEF TypeOK, Claims
<1>4. ClaimsInv' BY <1>1, <1>3 DEF ClaimsInv
<1>5. NothingLost'
    <2>1. \A x \in Entries : Exists(x) \/ dead[x] # None => Exists(x)' \/ dead'[x] # None
        BY <1>1, BuriesExists
    <2> QED BY <1>1, <2>1 DEF NothingLost
<1> QED BY <1>2, <1>4, <1>5

\* A dead letter's retry, with what it does to each table.
Retries(o, e, n) ==
    /\ RetryTarget(o, e)
    /\ \A x \in Entries \ {o, e} : row'[x] = row[x]
    /\ row'[o].policy = row[o].policy
    /\ row'[o].status = IF n >= 2 /\ Exists(o) THEN "gone" ELSE row[o].status
    /\ row'[e].policy = IF n >= 3 /\ ~Exists(e) THEN RetryPolicy(o) ELSE row[e].policy
    /\ row'[e].status = IF n >= 3 \/ Exists(e) THEN "pending" ELSE "reserved"
    /\ \A k \in Keys :
          /\ claim'[k] = None <=> claim[k] = None
          /\ claim[k] # None /\ ~(n >= 4 /\ claim[k].entry = o) => claim'[k] = claim[k]
          /\ claim[k] # None /\ n >= 4 /\ claim[k].entry = o =>
                /\ claim'[k].entry = e
                /\ claim'[k].policy =
                      IF claim[k].policy = None THEN RetryPolicy(o) ELSE claim[k].policy
    /\ \A x \in Entries \ {o} : dead'[x] = dead[x]
    /\ dead'[o] = None <=> n = 5
    /\ n # 5 => Joined /\ dead'[o].retry = e /\ dead'[o].policy = dead[o].policy
    /\ \A x \in Entries : root'[x] = IF x = e THEN root[o] ELSE root[x]
    /\ UNCHANGED <<worker, sent, unsure, expired>>

LEMMA RetrySteps ==
    ASSUME TypeOK, Bookkeeping, NEW o \in Entries, NEW e \in Entries, NEW n \in 1..5,
           RetryDeadLetter(o, e, n)
    PROVE  Retries(o, e, n)
<1>1. RetryTarget(o, e) /\ dead[o] # None BY DEF RetryDeadLetter, RetryTarget
<1>2. row' = RetryRows(o, e, n) /\ claim' = RetryClaims(o, e, n) /\ dead' = RetryDead(o, e, n)
    BY DEF RetryDeadLetter
<1>3. \A x \in Entries : root'[x] = IF x = e THEN root[o] ELSE root[x]
    BY DEF RetryDeadLetter, TypeOK
<1>4. UNCHANGED <<worker, sent, unsure, expired>> BY DEF RetryDeadLetter
<1>5. /\ \A x \in Entries \ {o, e} : row'[x] = row[x]
      /\ row'[o].policy = row[o].policy
      /\ row'[o].status = IF n >= 2 /\ Exists(o) THEN "gone" ELSE row[o].status
      /\ row'[e].policy = IF n >= 3 /\ ~Exists(e) THEN RetryPolicy(o) ELSE row[e].policy
      /\ row'[e].status = IF n >= 3 \/ Exists(e) THEN "pending" ELSE "reserved"
    BY <1>1, <1>2, RetryRowsFacts
<1>6. \A k \in Keys :
        /\ claim'[k] = None <=> claim[k] = None
        /\ claim[k] # None /\ ~(n >= 4 /\ claim[k].entry = o) => claim'[k] = claim[k]
        /\ claim[k] # None /\ n >= 4 /\ claim[k].entry = o =>
              /\ claim'[k].entry = e
              /\ claim'[k].policy =
                    IF claim[k].policy = None THEN RetryPolicy(o) ELSE claim[k].policy
    BY <1>1, <1>2, RetryClaimsFacts
<1>7. /\ \A x \in Entries \ {o} : dead'[x] = dead[x]
      /\ dead'[o] = None <=> n = 5
      /\ n # 5 => dead'[o].retry = e /\ dead'[o].policy = dead[o].policy
    BY <1>1, <1>2, RetryDeadFacts
<1>8. n # 5 => Joined BY DEF RetryDeadLetter
<1> QED BY <1>1, <1>3, <1>4, <1>5, <1>6, <1>7, <1>8 DEF Retries

LEMMA RetriesExists ==
    ASSUME TypeOK, Bookkeeping, NEW o \in Entries, NEW e \in Entries, NEW n \in 1..5,
           Retries(o, e, n)
    PROVE  /\ \A x \in Entries \ {o, e} :
                 /\ Exists(x)' <=> Exists(x)
                 /\ Tombstoned(x)' <=> Tombstoned(x)
                 /\ Live(x)' <=> Live(x)
                 /\ Holder(x)' <=> Holder(x)
           /\ Exists(o)' <=> Exists(o) /\ n < 2
           /\ Exists(e)' <=> Exists(e) \/ n >= 3
           /\ ~Live(o) /\ ~Live(e) /\ ~Live(o)'
           /\ Holder(o) /\ ~Holder(e)
           /\ Tombstoned(o)' <=> n # 5
           /\ n # 5 => Tombstoned(e)' /\ ~Holder(e)'
           /\ dead'[e] = None
<1> USE RetryTargetFacts DEF Retries
<1>0. \A x \in Entries : x # None BY ConstantsAssumption
<1>1. /\ e # o /\ dead[e] = None /\ row[e].status \in {"unused", "reserved", "pending"}
      /\ dead[o] # None /\ dead'[e] = None
      /\ row[e].status # "unused" => dead[o].retry = e
      /\ \A x \in Entries : dead[x] # None /\ dead[x].retry # None => dead[x].retry # o
    BY DEF RetryTarget
<1>2. /\ \A x \in Entries \ {o, e} : Exists(x)' <=> Exists(x)
      /\ Exists(o)' <=> Exists(o) /\ n < 2
      /\ Exists(e)' <=> Exists(e) \/ n >= 3
    <2>1. \A x \in Entries \ {o, e} : Exists(x)' <=> Exists(x) BY DEF Exists
    <2>2. Exists(o)' <=> Exists(o) /\ n < 2
        <3>1. n < 2 <=> ~(n >= 2) OBVIOUS
        <3> QED BY <3>1 DEF Exists, Stored
    <2>3. Exists(e)' <=> Exists(e) \/ n >= 3 BY <1>1 DEF Exists, Stored
    <2> QED BY <2>1, <2>2, <2>3
<1>3. ASSUME NEW x \in Entries \ {o, e} PROVE Tombstoned(x)' <=> Tombstoned(x)
    <2>1. dead'[x] = dead[x] OBVIOUS
    <2>2. ~(dead[o].retry = x) BY <1>0, <1>1 DEF RetryTarget
    <2>3. \A y \in Entries : dead'[y] # None /\ dead'[y].retry = x <=>
                             dead[y] # None /\ dead[y].retry = x
        BY <2>2
    <2> QED BY <2>1, <2>3 DEF Tombstoned
<1>4. Tombstoned(o) /\ (row[e].status # "unused" => Tombstoned(e))
    BY <1>1 DEF Tombstoned
<1>5. ~Live(o) /\ ~Live(e) BY <1>4 DEF Live, Exists, Stored
<1>6. Tombstoned(o)' <=> n # 5
    <2>1. \A y \in Entries : ~(dead'[y] # None /\ dead'[y].retry = o) BY <1>0, <1>1
    <2> QED BY <2>1 DEF Tombstoned
<1>7. n # 5 => Tombstoned(e)' BY DEF Tombstoned
<1>8. ~Live(o)' BY <1>2, <1>6 DEF Live
<1>9. \A x \in Entries \ {o, e} : (Live(x)' <=> Live(x)) /\ (Holder(x)' <=> Holder(x))
    BY <1>2, <1>3 DEF Live, Holder
<1>10. Holder(o) /\ ~Holder(e) BY <1>1, <1>5 DEF Holder
<1>11. n # 5 => ~Holder(e)' BY <1>1, <1>7 DEF Holder, Live
<1> QED BY <1>1, <1>2, <1>3, <1>5, <1>6, <1>7, <1>8, <1>9, <1>10, <1>11

LEMMA RetriesKeeps ==
    ASSUME TypeOK, Bookkeeping, ClaimsInv, NothingLost,
           NEW o \in Entries, NEW e \in Entries, NEW n \in 1..5, Retries(o, e, n)
    PROVE  Bookkeeping' /\ ClaimsInv' /\ NothingLost'
<1>0. \A x \in Entries : x # None BY ConstantsAssumption
<1>1. RetryTarget(o, e) /\ dead[o] # None BY DEF Retries, RetryTarget
<1>2. /\ e # o /\ dead[e] = None /\ dead'[e] = None
      /\ row[e].status \in {"unused", "reserved", "pending"}
      /\ row[e].status # "unused" => root[e] = root[o]
      /\ row[o].status \in {"pending", "failed", "gone"}
      /\ root[o] \in Entries /\ root[root[o]] = root[o]
      /\ \A x \in Entries : dead[x] # None /\ dead[x].retry # None => dead[x].retry # o
    BY <1>1, RetryTargetFacts, RetriesExists
<1>3. row[e].status = "unused" => root[e] = None BY DEF Bookkeeping
<1>4. Exists(e) => row[e].status = "pending" BY <1>2 DEF Exists, Stored
<1>5. RetryPolicy(o) \in Policies BY <1>1, RetryPolicyType
<1>6. /\ row'[e].status \in {"reserved", "pending"}
      /\ row'[e].status = "pending" => row'[e].policy \in Policies
    <2>1. row[e].status = "pending" => row[e].policy \in Policies BY DEF Bookkeeping
    <2> QED BY <1>4, <1>5, <2>1 DEF Retries
<1>7. row'[o].status \in {"pending", "failed", "gone"} /\ row'[o].policy = row[o].policy
    BY <1>2 DEF Retries
<1>8. \A x \in Entries : root[x] # None => root'[x] = root[x]
    BY <1>2, <1>3 DEF Retries
<1>9. Bookkeeping'
    <2> SUFFICES ASSUME NEW x \in Entries
                 PROVE  /\ row'[x].status = "unused" => root'[x] = None /\ dead'[x] = None
                        /\ row'[x].status # "unused" =>
                              root'[x] \in Entries /\ root'[root'[x]] = root'[x]
                        /\ row'[x].status \notin {"unused", "reserved"} =>
                              row'[x].policy \in Policies
                        /\ dead'[x] # None => row'[x].status \in {"pending", "failed", "gone"}
                        /\ dead'[x] # None /\ dead'[x].retry # None =>
                              /\ dead'[dead'[x].retry] = None
                              /\ row'[dead'[x].retry].status \in {"reserved", "pending"}
                              /\ root'[dead'[x].retry] = root'[x]
        BY DEF Bookkeeping
    <2>1. root'[root[o]] = root[o] BY <1>0, <1>2, <1>8
    <2>2. CASE x = e
        BY <1>2, <1>6, <2>1, <2>2 DEF Retries
    <2>3. CASE x = o
        <3>1. root'[o] = root[o] BY <1>0, <1>2, <1>8
        <3>2. row[o].policy \in Policies BY <1>2 DEF Bookkeeping
        <3>3. n # 5 => dead'[o].retry = e /\ root'[e] = root[o] BY DEF Retries
        <3>4. n = 5 => dead'[o] = None BY DEF Retries
        <3> QED BY <1>2, <1>6, <1>7, <2>1, <2>3, <3>1, <3>2, <3>3, <3>4
    <2>4. CASE x \notin {o, e}
        <3>1. row'[x] = row[x] /\ dead'[x] = dead[x] /\ root'[x] = root[x]
            BY <2>4 DEF Retries
        <3>2. ASSUME dead[x] # None, dead[x].retry # None
              PROVE  /\ dead'[dead[x].retry] = None
                     /\ row'[dead[x].retry].status \in {"reserved", "pending"}
                     /\ root'[dead[x].retry] = root[x]
            <4> DEFINE y == dead[x].retry
            <4>1. y \in Entries /\ y # o BY <1>2, <3>2 DEF TypeOK, Letters
            <4>2. /\ dead[y] = None /\ row[y].status \in {"reserved", "pending"}
                  /\ root[y] = root[x]
                BY <3>2 DEF Bookkeeping
            <4>3. root[x] \in Entries BY <3>2 DEF Bookkeeping
            <4>4. dead'[y] = None BY <4>1, <4>2 DEF Retries
            <4>5. root'[y] = root[x] BY <1>0, <1>8, <4>1, <4>2, <4>3
            <4>6. row'[y].status \in {"reserved", "pending"}
                BY <1>6, <4>1, <4>2 DEF Retries
            <4> QED BY <4>4, <4>5, <4>6
        <3>3. row[x].status # "unused" =>
                root'[x] \in Entries /\ root'[root'[x]] = root'[x]
            BY <1>0, <1>8, <3>1 DEF Bookkeeping
        <3> QED BY <3>1, <3>2, <3>3 DEF Bookkeeping
    <2> QED BY <2>2, <2>3, <2>4
<1>10. \A k \in Keys : claim[k] # None => claim[k].entry \in Entries BY DEF TypeOK, Claims
<1>11. ClaimsInv'
    <2> SUFFICES ASSUME NEW k \in Keys, claim'[k] # None
                 PROVE  row'[claim'[k].entry].status \notin {"unused", "reserved"}
        BY DEF ClaimsInv
    <2>1. claim[k] # None BY DEF Retries
    <2>2. row[claim[k].entry].status \notin {"unused", "reserved"} BY <2>1 DEF ClaimsInv
    <2>3. CASE n >= 4 /\ claim[k].entry = o
        <3>1. claim'[k].entry = e BY <2>1, <2>3 DEF Retries
        <3>2. n >= 3 BY <2>3
        <3> QED BY <3>1, <3>2 DEF Retries
    <2>4. CASE ~(n >= 4 /\ claim[k].entry = o)
        <3>1. claim'[k] = claim[k] BY <2>1, <2>4 DEF Retries
        <3>2. CASE claim[k].entry = e BY <1>2, <1>4, <2>2, <3>1, <3>2 DEF Retries, Exists, Stored
        <3>3. CASE claim[k].entry = o BY <1>7, <3>1, <3>3
        <3>4. CASE claim[k].entry \notin {o, e}
            BY <1>10, <2>1, <2>2, <3>1, <3>4 DEF Retries
        <3> QED BY <3>2, <3>3, <3>4
    <2> QED BY <2>3, <2>4
<1>12. NothingLost'
    <2> SUFFICES ASSUME NEW r \in Entries, root'[r] = r, r \notin expired
                 PROVE  \E x \in Entries : root'[x] = r /\ (Exists(x)' \/ dead'[x] # None)
        BY DEF NothingLost, Retries
    <2>1. root[r] = r
        BY <1>0, <1>2, <1>8 DEF Retries
    <2>2. PICK x \in Entries : root[x] = r /\ (Exists(x) \/ dead[x] # None)
        BY <2>1 DEF NothingLost
    <2>3. root'[x] = r BY <1>0, <1>8, <2>2
    <2>4. CASE x \notin {o, e}
        BY <2>2, <2>3, <2>4, RetriesExists DEF Retries
    <2>5. CASE x = e
        BY <1>2, <2>2, <2>3, <2>5, RetriesExists
    <2>6. CASE x = o
        <3>1. CASE n = 5
            <4>1. root'[e] = r BY <2>2, <2>6 DEF Retries
            <4>2. Exists(e)' BY <3>1, RetriesExists
            <4> QED BY <4>1, <4>2
        <3>2. CASE n # 5
            <4>1. dead'[o] # None BY <3>2 DEF Retries
            <4> QED BY <2>3, <2>6, <4>1
        <3> QED BY <3>1, <3>2
    <2> QED BY <2>4, <2>5, <2>6
<1> QED BY <1>9, <1>11, <1>12

\* Delivered rows are deleted, and their claims with them or not.
Purges(es) ==
    /\ es \subseteq Delivered
    /\ \A x \in Entries :
          /\ row'[x].policy = row[x].policy
          /\ row'[x].status = IF x \in es THEN "gone" ELSE row[x].status
    /\ \A k \in Keys : claim'[k] = claim[k] \/ claim'[k] = None
    /\ expired' = expired \union {root[e] : e \in es}
    /\ \A r \in Entries : sent'[r] = IF \E e \in es : root[e] = r THEN 0 ELSE sent[r]
    /\ UNCHANGED <<dead, worker, root, unsure>>

LEMMA PurgeSteps ==
    ASSUME TypeOK, NEW es \in SUBSET Entries, PurgeDelivered(es)
    PROVE  Purges(es)
<1>1. es \subseteq Delivered BY DEF PurgeDelivered
<1>2. \A x \in es : Exists(x) BY <1>1 DEF Delivered, Exists, Stored
<1>3. row' = Deleted(es) BY DEF PurgeDelivered, Expire
<1>4. \A x \in Entries :
        /\ row'[x].policy = row[x].policy
        /\ row'[x].status = IF x \in es THEN "gone" ELSE row[x].status
    BY <1>2, <1>3, DeletedFacts
<1>5. \A k \in Keys : claim'[k] = claim[k] \/ claim'[k] = None BY DEF PurgeDelivered
<1>6. \A r \in Entries : sent'[r] = IF \E e \in es : root[e] = r THEN 0 ELSE sent[r]
    BY DEF PurgeDelivered, Expire
<1>7. expired' = expired \union {root[e] : e \in es} /\ UNCHANGED <<dead, worker, root, unsure>>
    BY DEF PurgeDelivered, Expire
<1> QED BY <1>1, <1>4, <1>5, <1>6, <1>7 DEF Purges

LEMMA PurgesExists ==
    ASSUME TypeOK, Bookkeeping, NEW es \in SUBSET Entries, Purges(es)
    PROVE  /\ \A x \in Entries : Exists(x)' <=> Exists(x) /\ x \notin es
           /\ \A x \in Entries : Tombstoned(x)' <=> Tombstoned(x)
           /\ \A x \in Entries : Live(x)' <=> Live(x) /\ x \notin es
           /\ \A x \in es : Live(x) /\ row[x].status = "delivered"
<1>1. \A x \in es : row[x].status = "delivered" BY DEF Purges, Delivered
<1>2. \A x \in Entries : Exists(x)' <=> Exists(x) /\ x \notin es
    BY DEF Purges, Exists, Stored
<1>3. \A x \in Entries : Tombstoned(x)' <=> Tombstoned(x) BY DEF Purges, Tombstoned
<1>4. ASSUME NEW x \in es PROVE Live(x)
    <2>1. dead[x] = None BY <1>1 DEF Bookkeeping
    <2>2. ASSUME NEW o \in Entries, dead[o] # None, dead[o].retry = x PROVE FALSE
        <3>1. dead[o].retry # None BY <2>2, ConstantsAssumption
        <3>2. row[x].status \in {"reserved", "pending"} BY <2>2, <3>1 DEF Bookkeeping
        <3> QED BY <1>1, <3>2
    <2>3. Exists(x) BY <1>1 DEF Exists, Stored
    <2> QED BY <2>1, <2>2, <2>3 DEF Live, Tombstoned
<1> QED BY <1>1, <1>2, <1>3, <1>4 DEF Live

LEMMA PurgesKeeps ==
    ASSUME TypeOK, Bookkeeping, ClaimsInv, NothingLost, NEW es \in SUBSET Entries, Purges(es)
    PROVE  Bookkeeping' /\ ClaimsInv' /\ NothingLost'
<1>1. /\ \A x \in Entries :
            /\ row'[x].policy = row[x].policy
            /\ row'[x].status = IF x \in es THEN "gone" ELSE row[x].status
      /\ UNCHANGED <<dead, root>>
    BY DEF Purges
<1>2. \A x \in es : row[x].status = "delivered" BY DEF Purges, Delivered
<1>3. Bookkeeping'
    <2> SUFFICES ASSUME NEW x \in Entries
                 PROVE  /\ row'[x].status = "unused" => root[x] = None /\ dead[x] = None
                        /\ row'[x].status # "unused" => root[x] \in Entries /\ root[root[x]] = root[x]
                        /\ row'[x].status \notin {"unused", "reserved"} => row'[x].policy \in Policies
                        /\ dead[x] # None => row'[x].status \in {"pending", "failed", "gone"}
                        /\ dead[x] # None /\ dead[x].retry # None =>
                              /\ dead[dead[x].retry] = None
                              /\ row'[dead[x].retry].status \in {"reserved", "pending"}
                              /\ root[dead[x].retry] = root[x]
        BY <1>1 DEF Bookkeeping
    <2>1. ASSUME dead[x] # None, dead[x].retry # None
          PROVE  row'[dead[x].retry].status \in {"reserved", "pending"}
        <3>1. dead[x].retry \in Entries BY <2>1 DEF TypeOK, Letters
        <3>2. row[dead[x].retry].status \in {"reserved", "pending"} BY <2>1 DEF Bookkeeping
        <3>3. dead[x].retry \notin es BY <1>2, <3>2
        <3> QED BY <1>1, <3>1, <3>2, <3>3
    <2>2. CASE x \in es BY <1>1, <1>2, <2>1, <2>2 DEF Bookkeeping
    <2>3. CASE x \notin es BY <1>1, <2>1, <2>3 DEF Bookkeeping
    <2> QED BY <2>2, <2>3
<1>4. \A k \in Keys : claim[k] # None => claim[k].entry \in Entries BY DEF TypeOK, Claims
<1>5. ClaimsInv'
    <2> SUFFICES ASSUME NEW k \in Keys, claim'[k] # None
                 PROVE  row'[claim'[k].entry].status \notin {"unused", "reserved"}
        BY DEF ClaimsInv
    <2>1. claim'[k] = claim[k] BY DEF Purges
    <2>2. row[claim[k].entry].status \notin {"unused", "reserved"} BY <2>1 DEF ClaimsInv
    <2> QED BY <1>1, <1>4, <2>1, <2>2
<1>6. NothingLost'
    <2> SUFFICES ASSUME NEW r \in Entries, root[r] = r, r \notin expired'
                 PROVE  \E x \in Entries : root[x] = r /\ (Exists(x)' \/ dead[x] # None)
        BY <1>1 DEF NothingLost
    <2>1. r \notin expired /\ \A e \in es : root[e] # r BY DEF Purges
    <2>2. PICK x \in Entries : root[x] = r /\ (Exists(x) \/ dead[x] # None)
        BY <2>1 DEF NothingLost
    <2>3. x \notin es BY <2>1, <2>2
    <2> QED BY <2>2, <2>3, PurgesExists
<1> QED BY <1>3, <1>5, <1>6

-----------------------------------------------------------------------------
(* Steps that only write claims.                                           *)

\* A claim stays, or moves to a live row.
ClaimStep ==
    /\ UNCHANGED <<row, dead, worker, root, sent, unsure, expired>>
    /\ \A k \in Keys : claim'[k] # None =>
          \/ claim[k] # None /\ claim'[k].entry = claim[k].entry
          \/ claim'[k].entry \in Entries /\ Live(claim'[k].entry)

LEMMA ClaimSteps ==
    ASSUME TypeOK, NEW k \in Keys, NEW content \in Contents, NEW requested \in Requested
    PROVE  /\ AdoptNewKey(k, content, requested) => ClaimStep
           /\ ReplayLive(k, content, requested) => ClaimStep
           /\ ReplayAdopts(k, content, requested) => ClaimStep
           /\ RecreateCompensated(k, content, requested) => ClaimStep
<1>0. claim \in [Keys -> {None} \union Claims] BY DEF TypeOK
<1>1. ASSUME AdoptNewKey(k, content, requested) PROVE ClaimStep
    <2>1. PICK d \in Entries : /\ Live(d)
                               /\ claim' = [claim EXCEPT ![k] = NewClaim(d, content, requested, Unissued)]
        BY <1>1 DEF AdoptNewKey, Duplicates
    <2>2. NewClaim(d, content, requested, Unissued).entry = d BY NewClaimType
    <2>3. \A j \in Keys : claim'[j] = IF j = k THEN NewClaim(d, content, requested, Unissued)
                                                ELSE claim[j]
        BY <1>0, <2>1
    <2> QED BY <1>1, <2>1, <2>2, <2>3 DEF AdoptNewKey, ClaimStep, history
<1>2. ASSUME ReplayLive(k, content, requested) PROVE ClaimStep
    <2>1. claim[k] \in Claims BY <1>0, <1>2 DEF ReplayLive, Replayable
    <2>2. claim' = [claim EXCEPT ![k] = [claim[k] EXCEPT !.policy = row[claim[k].entry].policy]]
        BY <1>0, <1>2 DEF ReplayLive
    <2>3. [claim[k] EXCEPT !.policy = row[claim[k].entry].policy].entry = claim[k].entry
        BY <2>1 DEF Claims
    <2>4. claim[k] # None BY <1>2 DEF ReplayLive, Replayable
    <2>5. \A j \in Keys : claim'[j] # None => claim[j] # None /\ claim'[j].entry = claim[j].entry
        BY <1>0, <2>2, <2>3, <2>4
    <2> QED BY <1>2, <2>5 DEF ReplayLive, ClaimStep, history
<1>3. ASSUME ReplayAdopts(k, content, requested) PROVE ClaimStep
    <2>1. PICK e \in Entries : Live(e) /\ claim' = Moved(claim[k].entry, e)
        BY <1>3 DEF ReplayAdopts, Duplicates, Replacements
    <2>2. claim[k].entry \in Entries
        BY <1>0, <1>3 DEF ReplayAdopts, StaleClaim, Replayable, Claims
    <2>3. \A j \in Keys : claim'[j] # None =>
            claim[j] # None /\ claim'[j].entry \in {claim[j].entry, e}
        BY <2>1, <2>2, MovedType
    <2> QED BY <1>3, <2>1, <2>3 DEF ReplayAdopts, ClaimStep, history
<1>4. ASSUME RecreateCompensated(k, content, requested) PROVE ClaimStep
    <2>1. PICK ks : /\ claim' = [j \in Keys |->
                          IF j \in ks
                          THEN [claim[j] EXCEPT !.previous = None, !.older = Present]
                          ELSE claim[j]]
                    /\ ks \in {{k}, {j \in Keys : claim[j] # None /\ claim[j].entry = claim[k].entry}}
        BY <1>4 DEF RecreateCompensated
    <2>2. claim[k] # None BY <1>4 DEF RecreateCompensated, MayRecreate, StaleClaim, Replayable
    <2>3. ASSUME NEW c \in Claims
          PROVE  [c EXCEPT !.previous = None, !.older = Present].entry = c.entry
        BY DEF Claims
    <2>4. \A j \in ks : claim[j] # None BY <2>1, <2>2
    <2>5. ASSUME NEW j \in Keys, claim'[j] # None
          PROVE  claim[j] # None /\ claim'[j].entry = claim[j].entry
        BY <1>0, <2>1, <2>3, <2>4, <2>5
    <2> QED BY <1>4, <2>5 DEF RecreateCompensated, ClaimStep, history
<1> QED BY <1>1, <1>2, <1>3, <1>4

LEMMA ClaimStepKeeps ==
    ASSUME TypeOK, Bookkeeping, ClaimsInv, NothingLost, ClaimStep
    PROVE  /\ Bookkeeping' /\ ClaimsInv' /\ NothingLost'
           /\ \A e \in Entries : /\ Exists(e)' <=> Exists(e)
                                 /\ Tombstoned(e)' <=> Tombstoned(e)
                                 /\ Live(e)' <=> Live(e)
                                 /\ Holder(e)' <=> Holder(e)
<1>1. UNCHANGED <<row, dead, root, expired>> BY DEF ClaimStep
<1>2. Bookkeeping' BY <1>1 DEF Bookkeeping
<1>3. NothingLost' BY <1>1 DEF NothingLost, Exists
<1>4. \A e \in Entries : Exists(e)' <=> Exists(e) BY <1>1 DEF Exists
<1>5. \A e \in Entries : Live(e) => row[e].status \notin {"unused", "reserved"}
    BY DEF Live, Exists, Stored
<1>6. ClaimsInv' BY <1>1, <1>5 DEF ClaimStep, ClaimsInv
<1> QED BY <1>1, <1>2, <1>3, <1>4, <1>6, SameTables

-----------------------------------------------------------------------------
(* The worker.                                                             *)

\* The others leave what the worker holds alone.
Waiting == {"pending", "failed"}

Spared(e) ==
    /\ Live(e) /\ row[e].status \in Waiting => Live(e)' /\ row'[e].status \in Waiting
    /\ Live(e) /\ row[e].status = "in_flight" => Live(e)' /\ row'[e].status = "in_flight"

LEMMA WorkerKept ==
    ASSUME TypeOK, WorkerInv, UNCHANGED worker, \A e \in Entries : Spared(e)
    PROVE  WorkerInv'
<1>1. worker.todo \subseteq Entries BY DEF TypeOK
<1>2. worker.stage # "idle" => worker.cur \in Entries BY DEF TypeOK, WorkerInv
<1>3. \A e \in worker.todo : Live(e)' /\ row'[e].status \in {"pending", "failed"}
    BY <1>1 DEF WorkerInv, Spared, Waiting
<1>4. worker.stage # "idle" =>
        /\ Live(worker.cur)'
        /\ row'[worker.cur].status \in
              IF worker.stage = "burying" THEN {"pending", "failed"} ELSE {"in_flight"}
    BY <1>2 DEF WorkerInv, Spared, Waiting
<1> QED BY <1>3, <1>4 DEF WorkerInv

LEMMA RequestsWorker ==
    ASSUME TypeOK, Bookkeeping, ClaimsInv, WorkerInv, Requests
    PROVE  WorkerInv'
<1>1. ASSUME NEW e \in Entries, NEW r, Inserted(e, r), UNCHANGED <<dead, worker>>
      PROVE  WorkerInv'
    <2>1. \A x \in Entries : x # e => row'[x] = row[x] BY <1>1 DEF Inserted
    <2>2. ~Live(e) BY <1>1, InsertedExists DEF Live
    <2>3. \A x \in Entries : Live(x) => Live(x)' BY <1>1, InsertedExists
    <2> QED BY <1>1, <2>1, <2>2, <2>3, WorkerKept DEF Spared
<1>3. ASSUME ClaimStep PROVE WorkerInv'
    <2>1. UNCHANGED <<row, dead, worker>> BY <1>3 DEF ClaimStep
    <2>2. \A e \in Entries : Live(e)' <=> Live(e) BY <2>1 DEF Live, Tombstoned, Exists
    <2> QED BY <2>1, <2>2, WorkerKept DEF Spared
<1>4. \A e \in Entries : Started(e) => WorkerInv' BY <1>1 DEF Started
<1>5. ASSUME NEW k \in Keys, NEW e \in Entries, NEW content \in Contents,
             NEW requested \in Requested, ReplayRecreates(k, e, content, requested)
      PROVE  WorkerInv'
    <2>1. UNCHANGED <<dead, worker>> BY <1>5 DEF ReplayRecreates
    <2>2. Inserted(e, root[claim[k].entry]) BY <1>5, RecreateInserts
    <2> QED BY <1>1, <2>1, <2>2
<1>6. PICK content \in Contents, requested \in Requested :
        \/ \E e \in Entries : Enqueue(e, content, requested)
        \/ \E k \in Keys :
              \/ AdoptNewKey(k, content, requested)
              \/ ReplayLive(k, content, requested)
              \/ ReplayAdopts(k, content, requested)
              \/ RecreateCompensated(k, content, requested)
              \/ \E e \in Entries :
                    \/ EnqueueNewKey(k, e, content, requested)
                    \/ ReplayRecreates(k, e, content, requested)
                    \/ \E p \in Policies : OldEnqueue(k, e, content, requested, p)
    BY DEF Requests
<1>7. ASSUME NEW e \in Entries, Enqueue(e, content, requested) PROVE WorkerInv'
    BY <1>4, <1>7, StartedSteps
<1> QED BY <1>3, <1>4, <1>5, <1>6, <1>7, StartedSteps, ClaimSteps

LEMMA OperatorWorker ==
    ASSUME TypeOK, Bookkeeping, WorkerInv, Operator
    PROVE  WorkerInv'
<1>1. ASSUME NEW e \in Entries, RetryFailed(e) PROVE WorkerInv'
    <2>1. \A x \in Entries : Live(x)' <=> Live(x) BY <1>1, RowSteps, RowStepExists
    <2>2. row[e] \in Rows /\ row \in [Entries -> Rows] BY DEF TypeOK
    <2>3. row' = [row EXCEPT ![e] = [[row[e] EXCEPT !.status = "pending"] EXCEPT !.due = TRUE]]
        BY <1>1, <2>2 DEF RetryFailed
    <2>4. [[row[e] EXCEPT !.status = "pending"] EXCEPT !.due = TRUE].status = "pending"
        BY <2>2 DEF Rows
    <2>5. \A x \in Entries : row'[x].status = IF x = e THEN "pending" ELSE row[x].status
        BY <2>2, <2>3, <2>4
    <2>6. row[e].status \in Waiting BY <1>1 DEF RetryFailed, Waiting
    <2>7. UNCHANGED worker BY <1>1 DEF RetryFailed
    <2> QED BY <2>1, <2>5, <2>6, <2>7, WorkerKept DEF Spared, Waiting
<1>2. ASSUME NEW e \in Entries, OldBury(e) PROVE WorkerInv'
    BY <1>2 DEF OldBury, WorkerInv
<1>3. ASSUME NEW o \in Entries, NEW e \in Entries, OldRetry(o, e) PROVE WorkerInv'
    <2>1. Inserted(e, root[o]) /\ Consumed(o) BY <1>3, OldRetryInserts
    <2>2. /\ \A x \in Entries : Exists(x)' <=> Exists(x) \/ x = e
          /\ ~Exists(e)
        BY <2>1, InsertedExists
    <2>3. \A x \in Entries : Tombstoned(x)' => Tombstoned(x)
        BY <2>1 DEF Consumed, Tombstoned
    <2>4. \A x \in Entries : Live(x) => x # e /\ Live(x)' BY <2>2, <2>3 DEF Live
    <2>5. \A x \in Entries : x # e => row'[x] = row[x] BY <2>1 DEF Inserted
    <2>6. UNCHANGED worker BY <1>3 DEF OldRetry
    <2> QED BY <2>4, <2>5, <2>6, WorkerKept DEF Spared
<1>4. ASSUME NEW o \in Entries, NEW e \in Entries, NEW n \in 1..5, RetryDeadLetter(o, e, n)
      PROVE  WorkerInv'
    <2>1. Retries(o, e, n) BY <1>4, RetrySteps
    <2>2. \A x \in Entries : Live(x) => x \notin {o, e} BY <2>1, RetriesExists
    <2>3. \A x \in Entries \ {o, e} : Live(x)' <=> Live(x) BY <2>1, RetriesExists
    <2>4. \A x \in Entries \ {o, e} : row'[x] = row[x] BY <2>1 DEF Retries
    <2>5. UNCHANGED worker BY <2>1 DEF Retries
    <2> QED BY <2>2, <2>3, <2>4, <2>5, WorkerKept DEF Spared
<1>5. ASSUME NEW es \in SUBSET Entries, PurgeDelivered(es) PROVE WorkerInv'
    <2>1. Purges(es) BY <1>5, PurgeSteps
    <2>2. \A x \in Entries : Live(x)' <=> Live(x) /\ x \notin es BY <2>1, PurgesExists
    <2>3. \A x \in es : row[x].status = "delivered" BY <2>1, PurgesExists
    <2>4. \A x \in Entries : x \notin es => row'[x].status = row[x].status BY <2>1 DEF Purges
    <2>5. UNCHANGED worker BY <2>1 DEF Purges
    <2> QED BY <2>2, <2>3, <2>4, <2>5, WorkerKept DEF Spared, Waiting
<1> QED BY <1>1, <1>2, <1>3, <1>4, <1>5 DEF Operator

LEMMA WorkWorker ==
    ASSUME TypeOK, Bookkeeping, WorkerInv, Work
    PROVE  WorkerInv'
<1>0. /\ worker \in Workers /\ row \in [Entries -> Rows]
      /\ worker.stage # "idle" => worker.cur \in Entries
      /\ None \notin Entries
    BY ConstantsAssumption DEF TypeOK, Workers, WorkerInv
<1>1. ASSUME NEW es \in SUBSET Entries, Poll(es) PROVE WorkerInv'
    <2>1. \A x \in Entries : Live(x)' <=> Live(x) BY <1>1, RowSteps, RowStepExists
    <2>2. worker' = [worker EXCEPT !.todo = es] /\ UNCHANGED row BY <1>1 DEF Poll
    <2>3. /\ worker'.todo = es /\ worker'.cur = worker.cur
          /\ worker'.stage = worker.stage /\ worker'.up = worker.up
        BY <1>0, <2>2 DEF Workers
    <2>4. worker.up /\ worker.stage = "idle" /\ \A e \in es : Live(e) /\ row[e].status \in {"pending", "failed"}
        BY <1>1 DEF Poll, Ready
    <2> QED BY <1>0, <2>1, <2>2, <2>3, <2>4 DEF WorkerInv
<1>2. ASSUME NEW e \in Entries, MarkInFlight(e) PROVE WorkerInv'
    <2>1. \A x \in Entries : Live(x)' <=> Live(x) BY <1>2, RowSteps, RowStepExists
    <2>2. worker' = [worker EXCEPT !.todo = worker.todo \ {e}, !.cur = e, !.stage = "sending"]
        BY <1>2 DEF MarkInFlight
    <2>3. /\ worker'.todo = worker.todo \ {e} /\ worker'.cur = e
          /\ worker'.stage = "sending" /\ worker'.up = worker.up
        BY <1>0, <2>2 DEF Workers
    <2>4. e \in worker.todo /\ worker.up /\ Live(e) BY <1>2 DEF MarkInFlight, WorkerInv
    <2>5. row' = [row EXCEPT ![e] = [row[e] EXCEPT !.status = "in_flight"]]
        BY <1>0, <1>2, <2>4 DEF MarkInFlight, Live
    <2>6. row[e] \in Rows BY <1>0
    <2>7. [row[e] EXCEPT !.status = "in_flight"].status = "in_flight" BY <2>6 DEF Rows
    <2>8. \A x \in Entries : row'[x].status = IF x = e THEN "in_flight" ELSE row[x].status
        BY <1>0, <2>5, <2>7
    <2>9. worker.todo \subseteq Entries BY <1>0 DEF Workers
    <2> QED BY <1>0, <2>1, <2>3, <2>4, <2>8, <2>9 DEF WorkerInv
<1>3. ASSUME NEW accepted \in BOOLEAN, Deliver(accepted) PROVE WorkerInv'
    <2>1. \A x \in Entries : Live(x)' <=> Live(x) BY <1>3, RowSteps, RowStepExists
    <2>2. worker.stage = "sending" /\ UNCHANGED row BY <1>3 DEF Deliver
    <2>3. /\ worker'.todo = worker.todo /\ worker'.cur = worker.cur
          /\ worker'.stage \in {"accepted", "refused"} /\ worker'.up = worker.up
        BY <1>0, <1>3 DEF Deliver, Workers
    <2>4. worker.todo \subseteq Entries BY <1>0 DEF Workers
    <2> QED BY <1>0, <2>1, <2>2, <2>3, <2>4 DEF WorkerInv
<1>4. /\ Finish(worker).todo = worker.todo /\ Finish(worker).cur = None
      /\ Finish(worker).stage = "idle" /\ Finish(worker).up = worker.up
    BY <1>0 DEF Finish, Workers
<1>5. ASSUME worker' = Finish(worker), worker.up,
             \A e \in Entries \ {worker.cur} :
                (Live(e) => Live(e)') /\ row'[e].status = row[e].status
      PROVE  WorkerInv'
    <2>1. worker.todo \subseteq Entries \ {worker.cur} BY <1>0 DEF Workers, WorkerInv
    <2>2. None \notin worker.todo BY <1>0, <2>1
    <2> QED BY <1>4, <1>5, <2>1, <2>2 DEF WorkerInv
<1>6. ASSUME NEW status \in Stored, NEW due \in BOOLEAN, Record(status, due), worker.stage # "idle"
      PROVE  \A x \in Entries : row'[x].status = IF x = worker.cur THEN status ELSE row[x].status
    <2>1. Live(worker.cur) BY <1>6 DEF WorkerInv
    <2>2. row[worker.cur] \in Rows BY <1>0, <1>6
    <2>3. row' = [row EXCEPT ![worker.cur] = Attempted(row[worker.cur], status, due)]
        BY <1>0, <1>6, <2>1 DEF Record, Live
    <2>4. Attempted(row[worker.cur], status, due).status = status BY <1>6, <2>2, AttemptedFacts
    <2> QED BY <1>0, <1>6, <2>3, <2>4
<1>7. ASSUME RecordDelivered PROVE WorkerInv'
    <2>1. \A x \in Entries : Live(x)' <=> Live(x) BY <1>7, RowSteps, RowStepExists
    <2>2. \A x \in Entries \ {worker.cur} : row'[x].status = row[x].status
        BY <1>6, <1>7, StoredFacts DEF RecordDelivered
    <2>3. worker.up /\ worker' = Finish(worker) BY <1>7 DEF RecordDelivered, WorkerInv
    <2> QED BY <1>5, <2>1, <2>2, <2>3
<1>8. ASSUME RecordFailed PROVE WorkerInv'
    <2>1. \A x \in Entries : Live(x)' <=> Live(x) BY <1>8, RowSteps, RowStepExists
    <2>2. worker.cur \in Entries /\ worker.up BY <1>0, <1>8 DEF RecordFailed, WorkerInv
    <2>3. row[worker.cur].due \in BOOLEAN
        <3>1. row[worker.cur] \in Rows BY <1>0, <2>2
        <3> QED BY <3>1 DEF Rows
    <2>4. \A x \in Entries : row'[x].status = IF x = worker.cur THEN "failed" ELSE row[x].status
        BY <1>6, <1>8, <2>3, StoredFacts DEF RecordFailed
    <2>5. CASE worker' = Finish(worker) BY <1>5, <2>1, <2>2, <2>4, <2>5
    <2>6. CASE worker' = [worker EXCEPT !.stage = "burying"]
        <3>1. /\ worker'.todo = worker.todo /\ worker'.cur = worker.cur
              /\ worker'.stage = "burying" /\ worker'.up = worker.up
            BY <1>0, <2>6 DEF Workers
        <3>2. worker.todo \subseteq Entries BY <1>0 DEF Workers
        <3>3. worker.stage = "refused" BY <1>8 DEF RecordFailed
        <3> QED BY <1>0, <2>1, <2>2, <2>4, <3>1, <3>2, <3>3 DEF WorkerInv
    <2> QED BY <1>8, <2>5, <2>6 DEF RecordFailed
<1>9. ASSUME MoveToDeadLetter PROVE WorkerInv'
    <2>1. worker.cur \in Entries /\ Buries(worker.cur) BY <1>9, BurySteps
    <2>2. \A x \in Entries \ {worker.cur} :
            (Live(x) => Live(x)') /\ row'[x].status = row[x].status
        BY <2>1, BuriesExists DEF Buries
    <2>3. worker.up /\ worker' = Finish(worker) BY <1>9 DEF MoveToDeadLetter, WorkerInv
    <2> QED BY <1>5, <2>2, <2>3
<1> QED BY <1>1, <1>2, <1>3, <1>7, <1>8, <1>9 DEF Work

LEMMA LifecycleWorker ==
    ASSUME TypeOK, WorkerInv, Lifecycle
    PROVE  WorkerInv'
<1>0. worker \in Workers /\ None \notin Entries BY ConstantsAssumption DEF TypeOK, Workers
<1>1. /\ Idle.todo = {} /\ Idle.stage = "idle" /\ Idle.cur = None
      /\ [Idle EXCEPT !.up = TRUE].todo = {} /\ [Idle EXCEPT !.up = TRUE].stage = "idle"
      /\ [Idle EXCEPT !.up = TRUE].cur = None
    BY DEF Idle
<1>2. ASSUME worker'.todo = {}, worker'.stage = "idle", worker'.cur = None PROVE WorkerInv'
    BY <1>2 DEF WorkerInv
<1>3. ASSUME TickError PROVE WorkerInv'
    <2>1. worker'.todo = {} /\ worker'.stage = "idle" /\ worker'.cur = None
        BY <1>0, <1>3 DEF TickError, Finish, Workers
    <2> QED BY <1>2, <2>1
<1> QED BY <1>1, <1>2, <1>3 DEF Lifecycle, Start, Stop, Crash

LEMMA TimeWorker ==
    ASSUME TypeOK, WorkerInv, Time
    PROVE  WorkerInv'
<1>1. PICK e \in Entries : BackoffEnds(e) \/ WindowPasses(e) BY DEF Time
<1>2. \A x \in Entries : Live(x)' <=> Live(x) BY <1>1, RowSteps, RowStepExists
<1>3. row[e] \in Rows /\ row \in [Entries -> Rows] BY DEF TypeOK
<1>4. /\ [row[e] EXCEPT !.due = TRUE].status = row[e].status
      /\ [row[e] EXCEPT !.recent = FALSE].status = row[e].status
    BY <1>3 DEF Rows
<1>5. \/ row' = [row EXCEPT ![e] = [row[e] EXCEPT !.due = TRUE]]
      \/ row' = [row EXCEPT ![e] = [row[e] EXCEPT !.recent = FALSE]]
    BY <1>1, <1>3 DEF BackoffEnds, WindowPasses
<1>6. \A x \in Entries : row'[x].status = row[x].status BY <1>3, <1>4, <1>5
<1>7. UNCHANGED worker BY <1>1 DEF BackoffEnds, WindowPasses
<1> QED BY <1>2, <1>6, <1>7, WorkerKept DEF Spared

-----------------------------------------------------------------------------
(* The invariant of the queue.                                             *)

LEMMA QueueInit ==
    ASSUME Init
    PROVE  QueueInv
<1>1. TypeOK
    <2>1. UnusedRow \in Rows BY DEF UnusedRow, Rows
    <2>2. Idle \in Workers BY DEF Idle, Workers
    <2> QED BY <2>1, <2>2, ConstantsAssumption DEF Init, TypeOK, Workers
<1>2. \A e \in Entries : row[e].status = "unused" /\ dead[e] = None /\ root[e] = None
    BY DEF Init, UnusedRow
<1>3. Bookkeeping BY <1>2 DEF Bookkeeping
<1>4. ClaimsInv BY DEF Init, ClaimsInv
<1>5. WorkerInv BY DEF Init, Idle, WorkerInv
<1>6. NothingLost BY <1>2, ConstantsAssumption DEF NothingLost
<1> QED BY <1>1, <1>3, <1>4, <1>5, <1>6 DEF QueueInv

LEMMA RequestsQueue ==
    ASSUME QueueInv, Requests
    PROVE  Bookkeeping' /\ ClaimsInv' /\ NothingLost'
<1> USE DEF QueueInv
<1>1. PICK content \in Contents, requested \in Requested :
        \/ \E e \in Entries : Enqueue(e, content, requested)
        \/ \E k \in Keys :
              \/ AdoptNewKey(k, content, requested)
              \/ ReplayLive(k, content, requested)
              \/ ReplayAdopts(k, content, requested)
              \/ RecreateCompensated(k, content, requested)
              \/ \E e \in Entries :
                    \/ EnqueueNewKey(k, e, content, requested)
                    \/ ReplayRecreates(k, e, content, requested)
                    \/ \E p \in Policies : OldEnqueue(k, e, content, requested, p)
    BY DEF Requests
<1>2. \A k \in Keys : claim[k] # None => claim[k].entry \in Entries BY DEF TypeOK, Claims
<1>3. ASSUME NEW e \in Entries, NEW r, Inserted(e, r), UNCHANGED dead,
             \A k \in Keys : claim'[k] # None =>
                \/ claim[k] # None /\ claim'[k].entry = claim[k].entry
                \/ claim'[k].entry = e,
             \A x \in Entries : x \notin expired' => x \notin expired \/ x = r
      PROVE  Bookkeeping' /\ ClaimsInv' /\ NothingLost'
    <2>1. Bookkeeping' BY <1>3, InsertedKeeps
    <2>2. ClaimsInv'
        <3>1. \A x \in Entries : row[x].status \notin {"unused", "reserved"} =>
                row'[x].status \notin {"unused", "reserved"}
            BY <1>3 DEF Inserted
        <3>2. row'[e].status \notin {"unused", "reserved"} BY <1>3 DEF Inserted
        <3> QED BY <1>2, <1>3, <3>1, <3>2 DEF ClaimsInv
    <2>3. NothingLost'
        <3> SUFFICES ASSUME NEW x \in Entries, root'[x] = x, x \notin expired'
                     PROVE  \E y \in Entries : root'[y] = x /\ (Exists(y)' \/ dead'[y] # None)
            BY DEF NothingLost
        <3>1. \A y \in Entries : root'[y] = IF y = e THEN r ELSE root[y]
            BY <1>3 DEF Inserted, TypeOK
        <3>2. Exists(e)' /\ ~Exists(e) /\ dead[e] = None
            BY <1>3, InsertedExists
        <3>3. CASE x = e \/ x = r BY <1>3, <3>1, <3>2, <3>3 DEF Inserted
        <3>4. CASE x # e /\ x # r
            <4>1. PICK y \in Entries : root[y] = x /\ (Exists(y) \/ dead[y] # None)
                BY <1>3, <3>1, <3>4 DEF NothingLost
            <4>2. y # e BY <3>2, <4>1
            <4>3. Exists(y) => Exists(y)' BY <1>3, InsertedExists
            <4> QED BY <1>3, <3>1, <4>1, <4>2, <4>3
        <3> QED BY <3>3, <3>4
    <2> QED BY <2>1, <2>2, <2>3
<1>4. claim \in [Keys -> {None} \union Claims] BY DEF TypeOK
<1>5. ASSUME NEW e \in Entries, Enqueue(e, content, requested)
      PROVE  Bookkeeping' /\ ClaimsInv' /\ NothingLost'
    <2>1. Started(e) BY <1>5, StartedSteps
    <2>2. UNCHANGED claim BY <1>5 DEF Enqueue
    <2> QED BY <1>3, <2>1, <2>2 DEF Started
<1>6. ASSUME NEW k \in Keys, NEW e \in Entries, EnqueueNewKey(k, e, content, requested)
      PROVE  Bookkeeping' /\ ClaimsInv' /\ NothingLost'
    <2>1. Started(e) BY <1>6, StartedSteps
    <2>2. claim' = [claim EXCEPT ![k] = NewClaim(e, content, requested, None)]
        BY <1>6 DEF EnqueueNewKey
    <2>3. NewClaim(e, content, requested, None).entry = e BY NewClaimType
    <2>4. \A j \in Keys : j # k => claim'[j] = claim[j] BY <1>4, <2>2
    <2>5. claim'[k].entry = e BY <1>4, <2>2, <2>3
    <2> QED BY <1>3, <2>1, <2>4, <2>5 DEF Started
<1>7. ASSUME NEW k \in Keys, NEW e \in Entries, NEW p \in Policies,
             OldEnqueue(k, e, content, requested, p)
      PROVE  Bookkeeping' /\ ClaimsInv' /\ NothingLost'
    <2>1. Started(e) BY <1>7, StartedSteps
    <2>2. claim' = [claim EXCEPT ![k] =
                      [NewClaim(e, content, requested, None) EXCEPT !.policy = None]]
        BY <1>7 DEF OldEnqueue
    <2>3. [NewClaim(e, content, requested, None) EXCEPT !.policy = None].entry = e
        BY NewClaimType DEF Claims
    <2>4. \A j \in Keys : j # k => claim'[j] = claim[j] BY <1>4, <2>2
    <2>5. claim'[k].entry = e BY <1>4, <2>2, <2>3
    <2> QED BY <1>3, <2>1, <2>4, <2>5 DEF Started
<1>8. ASSUME NEW k \in Keys, NEW e \in Entries, ReplayRecreates(k, e, content, requested)
      PROVE  Bookkeeping' /\ ClaimsInv' /\ NothingLost'
    <2> DEFINE old == claim[k].entry
    <2>1. old \in Entries /\ Inserted(e, root[old]) BY <1>8, RecreateInserts
    <2>2. claim' = Moved(old, e) /\ UNCHANGED dead /\ expired' = expired \ {root[old]}
        BY <1>8 DEF ReplayRecreates
    <2>3. \A j \in Keys : claim'[j] # None =>
            claim[j] # None /\ claim'[j].entry \in {claim[j].entry, e}
        BY <2>1, <2>2, MovedType
    <2> QED BY <1>3, <2>1, <2>2, <2>3
<1> QED BY <1>1, <1>5, <1>6, <1>7, <1>8, ClaimSteps, ClaimStepKeeps

LEMMA OperatorQueue ==
    ASSUME QueueInv, Operator
    PROVE  Bookkeeping' /\ ClaimsInv' /\ NothingLost'
<1> USE DEF QueueInv
<1>1. ASSUME NEW e \in Entries, RetryFailed(e) PROVE Bookkeeping' /\ ClaimsInv' /\ NothingLost'
    BY <1>1, RowSteps, RowStepKeeps
<1>2. ASSUME NEW e \in Entries, OldBury(e) PROVE Bookkeeping' /\ ClaimsInv' /\ NothingLost'
    BY <1>2, BurySteps, BuriesKeeps
<1>3. ASSUME NEW o \in Entries, NEW e \in Entries, OldRetry(o, e)
      PROVE  Bookkeeping' /\ ClaimsInv' /\ NothingLost'
    <2>1. Inserted(e, root[o]) /\ Consumed(o) BY <1>3, OldRetryInserts
    <2>2. Bookkeeping' BY <2>1, InsertedKeeps
    <2>3. UNCHANGED <<claim, expired>> BY <1>3 DEF OldRetry
    <2>4. \A k \in Keys : claim[k] # None => claim[k].entry \in Entries BY DEF TypeOK, Claims
    <2>5. \A x \in Entries : row[x].status \notin {"unused", "reserved"} =>
            row'[x].status \notin {"unused", "reserved"}
        BY <2>1 DEF Inserted
    <2>6. ClaimsInv' BY <2>3, <2>4, <2>5 DEF ClaimsInv
    <2>7. NothingLost'
        <3> SUFFICES ASSUME NEW x \in Entries, root'[x] = x, x \notin expired
                     PROVE  \E y \in Entries : root'[y] = x /\ (Exists(y)' \/ dead'[y] # None)
            BY <2>3 DEF NothingLost
        <3>1. \A y \in Entries : root'[y] = IF y = e THEN root[o] ELSE root[y]
            BY <2>1 DEF Inserted, TypeOK
        <3>2. Exists(e)' /\ ~Exists(e) /\ dead[e] = None BY <2>1, InsertedExists
        <3>3. CASE x = e \/ x = root[o] BY <2>1, <3>1, <3>2, <3>3 DEF Inserted
        <3>4. CASE x # e /\ x # root[o]
            <4>1. PICK y \in Entries : root[y] = x /\ (Exists(y) \/ dead[y] # None)
                BY <3>1, <3>4 DEF NothingLost
            <4>2. y # e /\ y # o BY <3>2, <3>4, <4>1
            <4>3. Exists(y) => Exists(y)' BY <2>1, InsertedExists
            <4> QED BY <2>1, <3>1, <4>1, <4>2, <4>3 DEF Consumed
        <3> QED BY <3>3, <3>4
    <2> QED BY <2>2, <2>6, <2>7
<1>4. ASSUME NEW o \in Entries, NEW e \in Entries, NEW n \in 1..5, RetryDeadLetter(o, e, n)
      PROVE  Bookkeeping' /\ ClaimsInv' /\ NothingLost'
    BY <1>4, RetrySteps, RetriesKeeps
<1>5. ASSUME NEW es \in SUBSET Entries, PurgeDelivered(es)
      PROVE  Bookkeeping' /\ ClaimsInv' /\ NothingLost'
    BY <1>5, PurgeSteps, PurgesKeeps
<1> QED BY <1>1, <1>2, <1>3, <1>4, <1>5 DEF Operator

LEMMA QueueStep ==
    ASSUME QueueInv, [Next]_vars
    PROVE  QueueInv'
<1>1. TypeOK' BY TypeStep DEF QueueInv
<1>2. CASE Requests BY <1>1, <1>2, RequestsQueue, RequestsWorker DEF QueueInv
<1>3. CASE Operator BY <1>1, <1>3, OperatorQueue, OperatorWorker DEF QueueInv
<1>4. CASE Work
    <2>1. CASE MoveToDeadLetter
        BY <1>1, <1>4, <2>1, BurySteps, BuriesKeeps, WorkWorker DEF QueueInv
    <2>2. CASE ~MoveToDeadLetter
        <3>1. RowStep BY <1>4, <2>2, RowSteps DEF Work, QueueInv
        <3> QED BY <1>1, <1>4, <3>1, RowStepKeeps, WorkWorker DEF QueueInv
    <2> QED BY <2>1, <2>2
<1>5. CASE Lifecycle
    <2>1. RowStep BY <1>5, RowSteps DEF Lifecycle, QueueInv
    <2> QED BY <1>1, <1>5, <2>1, RowStepKeeps, LifecycleWorker DEF QueueInv
<1>6. CASE Time
    <2>1. RowStep BY <1>6, RowSteps DEF Time, QueueInv
    <2> QED BY <1>1, <1>6, <2>1, RowStepKeeps, TimeWorker DEF QueueInv
<1>7. CASE UNCHANGED vars
    <2>1. RowStep BY <1>7 DEF vars, history, RowStep
    <2>2. WorkerInv'
        BY <1>7 DEF vars, WorkerInv, Live, Exists, Tombstoned, QueueInv
    <2> QED BY <1>1, <2>1, <2>2, RowStepKeeps DEF QueueInv
<1> QED BY <1>2, <1>3, <1>4, <1>5, <1>6, <1>7 DEF Next

(***************************************************************************)
(* The invariant of the queue tables and of the worker, whatever releases  *)
(* write them: what _reclaim_in_flight, the tombstones and retry_entry_id  *)
(* are for.                                                                *)
(***************************************************************************)
THEOREM QueueInvHolds == Spec => []QueueInv
<1>1. Init => QueueInv BY QueueInit
<1>2. QueueInv /\ [Next]_vars => QueueInv' BY QueueStep
<1> QED BY <1>1, <1>2, PTL DEF Spec

\* Every table keeps its schema, and a claim or a row never has a policy that
\* is not one of the configured numbers.
THEOREM TypeCorrect == Spec => []TypeOK
<1>1. QueueInv => TypeOK BY DEF QueueInv
<1> QED BY <1>1, QueueInvHolds, PTL

\* An accepted message has a row or a dead letter until its retention ends,
\* also between the statements of cut moves and retries and with older writers
\* on the same tables.
THEOREM MessagesAreKept == Spec => []NothingLost
<1>1. QueueInv => NothingLost BY DEF QueueInv
<1> QED BY <1>1, QueueInvHolds, PTL

-----------------------------------------------------------------------------
(* The retry policy.  An older enqueue leaves a claim without a policy, an *)
(* older move a dead letter without one; a retry of both that is cut after *)
(* its INSERT and resumed under another default writes that default to the *)
(* ledger.  One of the three must be excluded.                             *)

PolicyOnRecord == Joined => "enqueue" \notin OldWriters \/ "bury" \notin OldWriters

LEMMA RetryPolicyKept ==
    ASSUME TypeOK, PolicyInv, NEW o \in Entries, dead[o] # None,
           dead[o].policy # None \/ LedgerPolicies(o) # {}
    PROVE  RetryPolicy(o) = row[o].policy
<1>1. \A p \in LedgerPolicies(o) : p = row[o].policy BY DEF LedgerPolicies, PolicyInv
<1>2. dead[o].policy # None => dead[o].policy = row[o].policy BY DEF PolicyInv
<1>3. LedgerPolicies(o) # {} => (CHOOSE p \in LedgerPolicies(o) : TRUE) \in LedgerPolicies(o)
    OBVIOUS
<1> QED BY <1>1, <1>2, <1>3 DEF RetryPolicy

\* A claim that is written has the policy of its row.
LEMMA ClaimStepPolicy ==
    ASSUME TypeOK, PolicyInv, ClaimsInv, NEW k \in Keys, NEW content \in Contents,
           NEW requested \in Requested,
           \/ AdoptNewKey(k, content, requested) \/ ReplayLive(k, content, requested)
           \/ ReplayAdopts(k, content, requested) \/ RecreateCompensated(k, content, requested)
    PROVE  PolicyInv'
<1>0. claim \in [Keys -> {None} \union Claims] BY DEF TypeOK
<1>1. ClaimStep BY ClaimSteps
<1>2. UNCHANGED <<row, dead>> BY <1>1 DEF ClaimStep
<1>3. Effective(requested) \in Policies /\ None \notin Policies BY EffectiveType, ConstantsAssumption
<1>4. \A j \in Keys : claim'[j] # None =>
        /\ claim'[j].policy \in {None, row[claim'[j].entry].policy}
        /\ claim'[j].policy = None => "enqueue" \in OldWriters
    <2>0. \A j \in Keys : claim[j] # None =>
            /\ claim[j].policy \in {None, row[claim[j].entry].policy}
            /\ claim[j].policy = None => "enqueue" \in OldWriters
        BY DEF PolicyInv
    <2>1. CASE AdoptNewKey(k, content, requested)
        <3>1. PICK d \in Entries :
                /\ row[d].policy = Effective(requested)
                /\ claim' = [claim EXCEPT ![k] = NewClaim(d, content, requested, Unissued)]
            BY <2>1 DEF AdoptNewKey, Duplicates
        <3>2. /\ NewClaim(d, content, requested, Unissued).entry = d
              /\ NewClaim(d, content, requested, Unissued).policy = Effective(requested)
            BY NewClaimType
        <3>3. \A j \in Keys : claim'[j] = IF j = k THEN NewClaim(d, content, requested, Unissued)
                                                    ELSE claim[j]
            BY <1>0, <3>1
        <3> QED BY <1>3, <2>0, <3>1, <3>2, <3>3
    <2>2. CASE ReplayLive(k, content, requested)
        <3> DEFINE c == [claim[k] EXCEPT !.policy = row[claim[k].entry].policy]
        <3>1. claim[k] # None /\ claim[k] \in Claims BY <1>0, <2>2 DEF ReplayLive, Replayable
        <3>2. claim' = [claim EXCEPT ![k] = c] BY <1>0, <2>2 DEF ReplayLive
        <3>3. c.entry = claim[k].entry /\ c.policy = row[claim[k].entry].policy
            BY <3>1 DEF Claims
        <3>4. claim[k].policy = None BY <2>2 DEF ReplayLive
        <3>5. \A j \in Keys : claim'[j] = IF j = k THEN c ELSE claim[j] BY <1>0, <3>2
        <3> HIDE DEF c
        <3> QED BY <2>0, <3>1, <3>3, <3>4, <3>5
    <2>3. CASE ReplayAdopts(k, content, requested)
        <3>1. PICK e \in Entries : /\ row[e].policy = claim[k].policy
                                   /\ claim' = Moved(claim[k].entry, e)
            BY <2>3 DEF ReplayAdopts, Duplicates, Replacements
        <3>2. claim[k] # None /\ claim[k].policy # None /\ claim[k].entry \in Entries
            BY <1>0, <2>3 DEF ReplayAdopts, StaleClaim, Replayable, Claims
        <3>3. row[e].policy = row[claim[k].entry].policy BY <2>0, <3>1, <3>2
        <3>4. \A j \in Keys : claim'[j] # None =>
                /\ claim[j] # None /\ claim'[j].policy = claim[j].policy
                /\ claim'[j].entry = IF claim[j].entry = claim[k].entry THEN e ELSE claim[j].entry
            BY <3>1, <3>2, MovedType
        <3> QED BY <2>0, <3>3, <3>4
    <2>4. CASE RecreateCompensated(k, content, requested)
        <3>1. PICK ks : /\ claim' = [j \in Keys |->
                              IF j \in ks
                              THEN [claim[j] EXCEPT !.previous = None, !.older = Present]
                              ELSE claim[j]]
                        /\ ks \in {{k}, {j \in Keys : claim[j] # None /\ claim[j].entry = claim[k].entry}}
            BY <2>4 DEF RecreateCompensated
        <3>2. claim[k] # None BY <2>4 DEF RecreateCompensated, MayRecreate, StaleClaim, Replayable
        <3>3. ASSUME NEW c \in Claims
              PROVE  /\ [c EXCEPT !.previous = None, !.older = Present].entry = c.entry
                     /\ [c EXCEPT !.previous = None, !.older = Present].policy = c.policy
            BY DEF Claims
        <3>4. \A j \in ks : claim[j] # None BY <3>1, <3>2
        <3>5. ASSUME NEW j \in Keys, claim'[j] # None
              PROVE  /\ claim[j] # None /\ claim'[j].entry = claim[j].entry
                     /\ claim'[j].policy = claim[j].policy
            BY <1>0, <3>1, <3>3, <3>4, <3>5
        <3> QED BY <2>0, <3>5
    <2> QED BY <2>1, <2>2, <2>3, <2>4
<1>5. ASSUME NEW j \in Keys, NEW e \in Entries, NEW f \in Entries,
             claim'[j] # None, claim'[j].entry = e,
             dead[e] # None, dead[e].retry = f, Exists(f)
      PROVE  row[f].policy = row[e].policy
    <2>1. ~Live(e) BY <1>5 DEF Live, Tombstoned
    <2>2. claim[j] # None /\ claim[j].entry = e BY <1>1, <1>5, <2>1 DEF ClaimStep
    <2> QED BY <1>5, <2>2 DEF PolicyInv
<1>6. \A f \in Entries : Exists(f)' <=> Exists(f) BY <1>2 DEF Exists
<1>7. \A j \in Keys, e, f \in Entries :
        /\ claim'[j] # None /\ claim'[j].entry = e
        /\ dead'[e] # None /\ dead'[e].retry = f /\ Exists(f)'
        => row'[f].policy = row'[e].policy
    BY <1>2, <1>5, <1>6
<1> QED BY <1>2, <1>4, <1>7 DEF PolicyInv

\* The claims of an inserted row have its policy.
LEMMA InsertedPolicy ==
    ASSUME TypeOK, Bookkeeping, ClaimsInv, PolicyInv, NEW e \in Entries, NEW r, Inserted(e, r),
           UNCHANGED dead \/ \E o \in Entries : Consumed(o),
           \A k \in Keys : claim'[k] # None =>
              \/ claim'[k] = claim[k]
              \/ /\ claim'[k].entry = e
                 /\ claim'[k].policy \in {None, row'[e].policy}
                 /\ claim'[k].policy = None => "enqueue" \in OldWriters
    PROVE  PolicyInv'
<1>1. \A x \in Entries : dead'[x] # None => dead[x] # None /\ dead'[x] = dead[x]
    BY DEF Consumed
<1>2. \A x \in Entries : x # e => row'[x] = row[x] BY DEF Inserted
<1>3. dead[e] = None /\ \A x \in Entries : Exists(x)' <=> Exists(x) \/ x = e
    BY InsertedExists
<1>4. \A k \in Keys : claim[k] # None => claim[k].entry \in Entries /\ claim[k].entry # e
    BY DEF TypeOK, Claims, ClaimsInv, Inserted
<1>5. \A x \in Entries : dead[x] # None => dead[x].retry # e
    BY ConstantsAssumption DEF Bookkeeping, Inserted
<1>6. \A x \in Entries :
        /\ dead'[x] # None => dead'[x].policy \in {None, row'[x].policy}
        /\ dead'[x] # None /\ dead'[x].policy = None => "bury" \in OldWriters
        /\ dead'[x] # None /\ dead'[x].retry # None => Joined
    BY <1>1, <1>2, <1>3 DEF PolicyInv
<1>7. \A k \in Keys : claim'[k] # None =>
        /\ claim'[k].policy \in {None, row'[claim'[k].entry].policy}
        /\ claim'[k].policy = None => "enqueue" \in OldWriters
    BY <1>2, <1>4 DEF PolicyInv
<1>8. ASSUME NEW k \in Keys, NEW x \in Entries, NEW f \in Entries,
             claim'[k] # None, claim'[k].entry = x,
             dead'[x] # None, dead'[x].retry = f, Exists(f)'
      PROVE  row'[f].policy = row'[x].policy
    <2>1. x # e /\ dead[x] # None /\ dead'[x] = dead[x] BY <1>1, <1>3, <1>8
    <2>2. claim[k] # None /\ claim[k].entry = x BY <1>8, <2>1
    <2>3. f # e BY <1>5, <1>8, <2>1
    <2>4. Exists(f) BY <1>3, <1>8, <2>3
    <2>5. row[f].policy = row[x].policy BY <1>8, <2>1, <2>2, <2>4 DEF PolicyInv
    <2> QED BY <1>2, <2>1, <2>3, <2>5
<1>9. \A x, y \in Entries :
        dead'[x] # None /\ dead'[y] # None /\ dead'[x].retry = dead'[y].retry
        /\ dead'[x].retry # None => x = y
    BY <1>1 DEF PolicyInv
<1> QED BY <1>6, <1>7, <1>8, <1>9 DEF PolicyInv

LEMMA BuriesPolicy ==
    ASSUME TypeOK, PolicyInv, NEW e \in Entries, Buries(e)
    PROVE  PolicyInv'
<1>1. /\ dead'[e] # None /\ dead'[e].retry = None
      /\ dead'[e].policy \in {None, row[e].policy}
      /\ dead'[e].policy = None => "bury" \in OldWriters
      /\ \A x \in Entries : x # e => dead'[x] = dead[x]
      /\ \A x \in Entries : row'[x].policy = row[x].policy
      /\ UNCHANGED claim
    BY DEF Buries
<1>2. \A x \in Entries : Exists(x)' => Exists(x) BY BuriesExists
<1>3. \A x \in Entries : dead'[x] # None /\ dead'[x].retry # None =>
        x # e /\ dead'[x] = dead[x]
    BY <1>1
<1>4. \A k \in Keys : claim[k] # None => claim[k].entry \in Entries BY DEF TypeOK, Claims
<1>5. \A x \in Entries :
        /\ dead'[x] # None => dead'[x].policy \in {None, row'[x].policy}
        /\ dead'[x] # None /\ dead'[x].policy = None => "bury" \in OldWriters
        /\ dead'[x] # None /\ dead'[x].retry # None => Joined
    BY <1>1 DEF PolicyInv
<1>6. \A k \in Keys : claim'[k] # None =>
        /\ claim'[k].policy \in {None, row'[claim'[k].entry].policy}
        /\ claim'[k].policy = None => "enqueue" \in OldWriters
    BY <1>1, <1>4 DEF PolicyInv
<1>7. ASSUME NEW k \in Keys, NEW x \in Entries, NEW f \in Entries,
             claim'[k] # None, claim'[k].entry = x,
             dead'[x] # None, dead'[x].retry = f, Exists(f)'
      PROVE  row'[f].policy = row'[x].policy
    <2>1. f # None BY ConstantsAssumption
    <2>2. dead'[x] = dead[x] BY <1>3, <1>7, <2>1
    <2>3. row[f].policy = row[x].policy BY <1>1, <1>2, <1>7, <2>2 DEF PolicyInv
    <2> QED BY <1>1, <2>3
<1>8. \A x, y \in Entries :
        dead'[x] # None /\ dead'[y] # None /\ dead'[x].retry = dead'[y].retry
        /\ dead'[x].retry # None => x = y
    BY <1>3 DEF PolicyInv
<1> QED BY <1>5, <1>6, <1>7, <1>8 DEF PolicyInv

LEMMA PurgesPolicy ==
    ASSUME TypeOK, Bookkeeping, PolicyInv, NEW es \in SUBSET Entries, Purges(es)
    PROVE  PolicyInv'
<1>1. /\ \A x \in Entries : row'[x].policy = row[x].policy
      /\ \A k \in Keys : claim'[k] # None => claim'[k] = claim[k]
      /\ UNCHANGED dead
    BY DEF Purges
<1>2. \A x \in Entries : Exists(x)' => Exists(x) BY PurgesExists
<1>3. \A k \in Keys : claim[k] # None => claim[k].entry \in Entries BY DEF TypeOK, Claims
<1> QED BY <1>1, <1>2, <1>3 DEF PolicyInv

LEMMA RetriesPolicy ==
    ASSUME PolicyOnRecord, TypeOK, Bookkeeping, ClaimsInv, PolicyInv,
           NEW o \in Entries, NEW e \in Entries, NEW n \in 1..5, Retries(o, e, n)
    PROVE  PolicyInv'
<1>0. None \notin Policies /\ \A x \in Entries : x # None BY ConstantsAssumption
<1>1. RetryTarget(o, e) /\ dead[o] # None BY DEF Retries, RetryTarget
<1>2. /\ e # o /\ dead[e] = None /\ dead'[e] = None
      /\ row[e].status \in {"unused", "reserved", "pending"}
    BY <1>1, RetryTargetFacts, RetriesExists
<1>3. Exists(e) => dead[o].retry = e /\ Joined
    BY <1>0, <1>1 DEF RetryTarget, Exists, Stored, PolicyInv
<1>4. \A k \in Keys : claim[k] # None => claim[k].entry \in Entries BY DEF TypeOK, Claims
<1>5. RetryPolicy(o) # None BY <1>0, <1>1, RetryPolicyType
\* The policy of the retry row, as far as a claim waits for it.
<1>6. ASSUME NEW k \in Keys, claim[k] # None, claim[k].entry = o
      PROVE  /\ Joined => row[o].policy = RetryPolicy(o)
             /\ claim[k].policy # None => claim[k].policy = RetryPolicy(o)
             /\ Exists(e) => row[e].policy = row[o].policy
    <2>1. claim[k].policy # None => LedgerPolicies(o) # {} /\ claim[k].policy = row[o].policy
        BY <1>6 DEF LedgerPolicies, PolicyInv
    <2>2. claim[k].policy = None /\ Joined => dead[o].policy # None
        BY <1>1, <1>6 DEF PolicyInv, PolicyOnRecord
    <2>3. claim[k].policy # None \/ Joined => RetryPolicy(o) = row[o].policy
        BY <1>1, <2>1, <2>2, RetryPolicyKept
    <2>4. Exists(e) => row[e].policy = row[o].policy
        BY <1>0, <1>1, <1>3, <1>6 DEF PolicyInv
    <2> QED BY <2>1, <2>3, <2>4
<1>7. \A x \in Entries : dead'[x] # None =>
        /\ dead[x] # None /\ dead'[x].policy = dead[x].policy
        /\ x # o => dead'[x] = dead[x]
        /\ x = o => n # 5 /\ Joined /\ dead'[o].retry = e
    BY <1>1 DEF Retries
<1>8. \A x \in Entries : x # e => row'[x].policy = row[x].policy BY DEF Retries
<1>9. \A x \in Entries :
        /\ dead'[x] # None => dead'[x].policy \in {None, row'[x].policy}
        /\ dead'[x] # None /\ dead'[x].policy = None => "bury" \in OldWriters
        /\ dead'[x] # None /\ dead'[x].retry # None => Joined
    BY <1>2, <1>7, <1>8 DEF PolicyInv
<1>10. Exists(e) => row'[e].policy = row[e].policy BY DEF Retries
<1>11. ASSUME NEW k \in Keys, claim'[k] # None
       PROVE  /\ claim'[k].policy \in {None, row'[claim'[k].entry].policy}
              /\ claim'[k].policy = None => "enqueue" \in OldWriters
    <2>1. claim[k] # None BY <1>11 DEF Retries
    <2>2. /\ claim[k].policy \in {None, row[claim[k].entry].policy}
          /\ claim[k].policy = None => "enqueue" \in OldWriters
        BY <2>1 DEF PolicyInv
    <2>3. CASE n >= 4 /\ claim[k].entry = o
        <3>1. /\ claim'[k].entry = e
              /\ claim'[k].policy =
                    IF claim[k].policy = None THEN RetryPolicy(o) ELSE claim[k].policy
            BY <2>1, <2>3 DEF Retries
        <3>2. claim'[k].policy = RetryPolicy(o) BY <1>6, <2>1, <2>3, <3>1
        <3>3. CASE Exists(e)
            BY <1>3, <1>5, <1>6, <1>10, <2>1, <2>3, <3>1, <3>2, <3>3
        <3>4. CASE ~Exists(e)
            <4>1. n >= 3 BY <2>3
            <4>2. row'[e].policy = RetryPolicy(o) BY <3>4, <4>1 DEF Retries
            <4> QED BY <1>5, <3>1, <3>2, <4>2
        <3> QED BY <3>3, <3>4
    <2>4. CASE ~(n >= 4 /\ claim[k].entry = o)
        <3>1. claim'[k] = claim[k] BY <2>1, <2>4 DEF Retries
        <3>2. claim[k].entry = e => Exists(e)
            BY <1>2, <2>1 DEF ClaimsInv, Exists, Stored
        <3> QED BY <1>4, <1>8, <1>10, <2>1, <2>2, <3>1, <3>2
    <2> QED BY <2>3, <2>4
<1>12. \A x \in Entries : dead[x] # None /\ dead[x].retry = e => x = o
    <2>1. ASSUME NEW x \in Entries, dead[x] # None, dead[x].retry = e PROVE x = o
        <3>1. row[e].status # "unused" BY <1>0, <2>1 DEF Bookkeeping
        <3>2. dead[o].retry = e BY <1>1, <3>1 DEF RetryTarget
        <3> QED BY <1>0, <1>1, <2>1, <3>2 DEF PolicyInv
    <2> QED BY <2>1
<1>13. ASSUME NEW k \in Keys, NEW x \in Entries, NEW f \in Entries,
              claim'[k] # None, claim'[k].entry = x,
              dead'[x] # None, dead'[x].retry = f, Exists(f)'
       PROVE  row'[f].policy = row'[x].policy
    <2>1. x # e /\ dead[x] # None BY <1>2, <1>7, <1>13
    <2>2. claim[k] # None /\ claim[k] = claim'[k] BY <1>13, <2>1 DEF Retries
    <2>3. CASE x = o
        <3>1. n # 5 /\ Joined /\ f = e BY <1>7, <1>13, <2>3
        <3>2. CASE Exists(e)
            BY <1>6, <1>8, <1>10, <1>13, <2>1, <2>2, <2>3, <3>1, <3>2
        <3>3. CASE ~Exists(e)
            <4>1. n >= 3 BY <1>13, <3>1, <3>3, RetriesExists
            <4>2. row'[e].policy = RetryPolicy(o) BY <3>3, <4>1 DEF Retries
            <4> QED BY <1>6, <1>8, <1>13, <2>1, <2>2, <2>3, <3>1, <4>2
        <3> QED BY <3>2, <3>3
    <2>4. CASE x # o
        <3>1. dead'[x] = dead[x] BY <1>7, <1>13, <2>4
        <3>2. f # None BY <1>0
        <3>3. f # e BY <1>12, <1>13, <2>1, <2>4, <3>1
        <3>4. f # o BY <1>1, <1>13, <2>1, <3>1, <3>2, RetryTargetFacts
        <3>5. Exists(f) BY <1>13, <3>3, <3>4, RetriesExists
        <3>6. row[f].policy = row[x].policy
            BY <1>13, <2>1, <2>2, <3>1, <3>5 DEF PolicyInv
        <3> QED BY <1>8, <2>1, <3>3, <3>6
    <2> QED BY <2>3, <2>4
<1>14. ASSUME NEW x \in Entries, NEW y \in Entries, dead'[x] # None, dead'[y] # None,
              dead'[x].retry = dead'[y].retry, dead'[x].retry # None
       PROVE  x = y
    BY <1>7, <1>12, <1>14 DEF PolicyInv
<1> QED BY <1>9, <1>11, <1>13, <1>14 DEF PolicyInv

LEMMA PolicyInit ==
    ASSUME Init
    PROVE  PolicyInv
BY ConstantsAssumption DEF Init, PolicyInv

LEMMA RequestsPolicy ==
    ASSUME QueueInv, PolicyInv, Requests
    PROVE  PolicyInv'
<1> USE DEF QueueInv
<1>0. claim \in [Keys -> {None} \union Claims] BY DEF TypeOK
<1>1. PICK content \in Contents, requested \in Requested :
        \/ \E e \in Entries : Enqueue(e, content, requested)
        \/ \E k \in Keys :
              \/ AdoptNewKey(k, content, requested) \/ ReplayLive(k, content, requested)
              \/ ReplayAdopts(k, content, requested) \/ RecreateCompensated(k, content, requested)
              \/ \E e \in Entries :
                    \/ EnqueueNewKey(k, e, content, requested)
                    \/ ReplayRecreates(k, e, content, requested)
                    \/ \E p \in Policies : OldEnqueue(k, e, content, requested, p)
    BY DEF Requests
<1>2. Effective(requested) \in Policies BY EffectiveType
<1>3. ASSUME NEW e \in Entries, Enqueue(e, content, requested) PROVE PolicyInv'
    <2>1. Started(e) BY <1>3, StartedSteps
    <2>2. UNCHANGED claim BY <1>3 DEF Enqueue
    <2> QED BY <2>1, <2>2, InsertedPolicy DEF Started
<1>4. ASSUME NEW k \in Keys, NEW e \in Entries, EnqueueNewKey(k, e, content, requested)
      PROVE  PolicyInv'
    <2>1. Started(e) BY <1>4, StartedSteps
    <2>2. /\ claim' = [claim EXCEPT ![k] = NewClaim(e, content, requested, None)]
          /\ Insert(e, content, Effective(requested))
          /\ row[e].status = "unused"
        BY <1>4 DEF EnqueueNewKey
    <2>3. row'[e].policy = Effective(requested) BY <1>2, <2>2, InsertType
    <2>4. /\ NewClaim(e, content, requested, None).entry = e
          /\ NewClaim(e, content, requested, None).policy = Effective(requested)
        BY NewClaimType
    <2>5. \A j \in Keys : claim'[j] = IF j = k THEN NewClaim(e, content, requested, None)
                                                ELSE claim[j]
        BY <1>0, <2>2
    <2>6. Effective(requested) # None BY <1>2, ConstantsAssumption
    <2>7. \A j \in Keys : claim'[j] # None =>
            \/ claim'[j] = claim[j]
            \/ /\ claim'[j].entry = e
               /\ claim'[j].policy \in {None, row'[e].policy}
               /\ claim'[j].policy = None => "enqueue" \in OldWriters
        BY <2>3, <2>4, <2>5, <2>6
    <2> QED BY <2>1, <2>7, InsertedPolicy DEF Started
<1>5. ASSUME NEW k \in Keys, NEW e \in Entries, NEW p \in Policies,
             OldEnqueue(k, e, content, requested, p)
      PROVE  PolicyInv'
    <2> DEFINE c == [NewClaim(e, content, requested, None) EXCEPT !.policy = None]
    <2>1. Started(e) /\ "enqueue" \in OldWriters BY <1>5, StartedSteps DEF OldEnqueue
    <2>2. claim' = [claim EXCEPT ![k] = c] BY <1>5 DEF OldEnqueue
    <2>3. c.entry = e /\ c.policy = None BY NewClaimType DEF Claims
    <2> HIDE DEF c
    <2>4. \A j \in Keys : claim'[j] = IF j = k THEN c ELSE claim[j] BY <1>0, <2>2
    <2>5. \A j \in Keys : claim'[j] # None =>
            \/ claim'[j] = claim[j]
            \/ /\ claim'[j].entry = e
               /\ claim'[j].policy \in {None, row'[e].policy}
               /\ claim'[j].policy = None => "enqueue" \in OldWriters
        BY <2>1, <2>3, <2>4
    <2> QED BY <2>1, <2>5, InsertedPolicy DEF Started
<1>6. ASSUME NEW k \in Keys, NEW e \in Entries, ReplayRecreates(k, e, content, requested)
      PROVE  PolicyInv'
    <2> DEFINE old == claim[k].entry
    <2>1. Stale(k) /\ old \in Entries /\ Inserted(e, root[old]) BY <1>6, RecreateInserts
    <2>2. /\ claim' = Moved(old, e) /\ UNCHANGED dead
          /\ row[e].status = "unused" /\ Insert(e, content, claim[k].policy)
          /\ claim[k] # None /\ claim[k].policy # None
        BY <1>6 DEF ReplayRecreates, MayRecreate, StaleClaim, Replayable
    <2>3. claim[k].policy \in Policies \union {None} BY <1>0, <2>2 DEF Claims
    <2>4. row'[e].policy = row[old].policy
        BY <2>2, <2>3, InsertType DEF PolicyInv
    <2>5. \A j \in Keys : claim'[j] # None =>
            /\ claim[j] # None /\ claim'[j].policy = claim[j].policy
            /\ claim'[j] = claim[j] \/ (claim[j].entry = old /\ claim'[j].entry = e)
        <3>1. \A j \in Keys : claim[j] # None /\ claim[j].entry # old => claim'[j] = claim[j]
            BY <2>2 DEF Moved
        <3> QED BY <2>1, <2>2, <3>1, MovedType
    <2>6. \A j \in Keys : claim'[j] # None =>
            \/ claim'[j] = claim[j]
            \/ /\ claim'[j].entry = e
               /\ claim'[j].policy \in {None, row'[e].policy}
               /\ claim'[j].policy = None => "enqueue" \in OldWriters
        BY <2>4, <2>5 DEF PolicyInv
    <2> QED BY <2>1, <2>2, <2>6, InsertedPolicy
<1> QED BY <1>1, <1>3, <1>4, <1>5, <1>6, ClaimStepPolicy

LEMMA PolicyStep ==
    ASSUME PolicyOnRecord, QueueInv, PolicyInv, [Next]_vars
    PROVE  PolicyInv'
<1> USE DEF QueueInv
<1>1. CASE Requests BY <1>1, RequestsPolicy
<1>2. CASE Operator
    <2>1. ASSUME NEW e \in Entries, RetryFailed(e) PROVE PolicyInv'
        BY <2>1, RowSteps, RowStepKeeps
    <2>2. ASSUME NEW e \in Entries, OldBury(e) PROVE PolicyInv'
        BY <2>2, BurySteps, BuriesPolicy
    <2>3. ASSUME NEW o \in Entries, NEW e \in Entries, OldRetry(o, e) PROVE PolicyInv'
        <3>1. Inserted(e, root[o]) /\ Consumed(o) BY <2>3, OldRetryInserts
        <3>2. UNCHANGED claim BY <2>3 DEF OldRetry
        <3> QED BY <3>1, <3>2, InsertedPolicy
    <2>4. ASSUME NEW o \in Entries, NEW e \in Entries, NEW n \in 1..5, RetryDeadLetter(o, e, n)
          PROVE  PolicyInv'
        BY <2>4, RetrySteps, RetriesPolicy
    <2>5. ASSUME NEW es \in SUBSET Entries, PurgeDelivered(es) PROVE PolicyInv'
        BY <2>5, PurgeSteps, PurgesPolicy
    <2> QED BY <1>2, <2>1, <2>2, <2>3, <2>4, <2>5 DEF Operator
<1>3. CASE Work
    <2>1. CASE MoveToDeadLetter BY <2>1, BurySteps, BuriesPolicy
    <2>2. CASE ~MoveToDeadLetter
        <3>1. RowStep BY <1>3, <2>2, RowSteps DEF Work
        <3> QED BY <3>1, RowStepKeeps
    <2> QED BY <2>1, <2>2
<1>4. CASE Lifecycle \/ Time
    <2>1. RowStep BY <1>4, RowSteps DEF Lifecycle, Time
    <2> QED BY <2>1, RowStepKeeps
<1>5. CASE UNCHANGED vars
    <2>1. RowStep BY <1>5 DEF vars, history, RowStep
    <2> QED BY <2>1, RowStepKeeps
<1> QED BY <1>1, <1>2, <1>3, <1>4, <1>5 DEF Next

\* A keyed delivery keeps its effective retry policy through dead letters,
\* retries, stale repairs and restarts under other defaults, as long as the
\* policy is on record somewhere: in the ledger or in the dead letter.
THEOREM PolicyStays ==
    ASSUME PolicyOnRecord
    PROVE  Spec => []PolicyKept
<1>1. Init => PolicyInv BY PolicyInit
<1>2. QueueInv /\ PolicyInv /\ [Next]_vars => PolicyInv' BY PolicyStep
<1>3. PolicyInv => PolicyKept BY DEF PolicyInv, PolicyKept
<1> QED BY <1>1, <1>2, <1>3, QueueInvHolds, PTL DEF Spec

-----------------------------------------------------------------------------
(* One live row.  An older retry consumes the dead letter of a delivery    *)
(* whose claims it leaves behind; without it the claims of a logical       *)
(* delivery stay with its one holder, so that a stale claim proves that    *)
(* there is none.                                                          *)

RetriesFollowed == "retry" \notin OldWriters

LEMMA StaleMeans ==
    ASSUME NEW k \in Keys, NEW e \in Entries
    PROVE  /\ claim[k] # None /\ claim[k].entry = e =>
                 (Stale(k) <=> ~Exists(e) /\ ~Tombstoned(e))
           /\ claim'[k] # None /\ claim'[k].entry = e =>
                 (Stale(k)' <=> ~Exists(e)' /\ ~Tombstoned(e)')
BY DEF Stale, Exists, Tombstoned

LEMMA ClaimRoots ==
    ASSUME TypeOK, Bookkeeping, ClaimsInv, NEW k \in Keys, claim[k] # None
    PROVE  /\ claim[k].entry \in Entries
           /\ row[claim[k].entry].status # "unused"
           /\ root[claim[k].entry] \in Entries
           /\ root[root[claim[k].entry]] = root[claim[k].entry]
<1>1. claim[k].entry \in Entries BY DEF TypeOK, Claims
<1>2. row[claim[k].entry].status # "unused" BY DEF ClaimsInv
<1> QED BY <1>1, <1>2 DEF Bookkeeping

LEMMA HolderRoots ==
    ASSUME Bookkeeping, NEW e \in Entries, Holder(e)
    PROVE  /\ row[e].status # "unused"
           /\ root[e] \in Entries /\ root[root[e]] = root[e]
<1>1. row[e].status # "unused" BY DEF Bookkeeping, Holder, Live, Exists, Stored
<1> QED BY <1>1 DEF Bookkeeping

\* A stale claim shows that its logical delivery has no holder left.
LEMMA StaleAlone ==
    ASSUME TypeOK, HolderInv, NEW k \in Keys, Stale(k), NEW e \in Entries, Holder(e)
    PROVE  root[claim[k].entry] # root[e]
<1>1. claim[k] # None /\ claim[k].entry \in Entries BY DEF Stale, TypeOK, Claims
<1>2. ~Exists(claim[k].entry) /\ ~Tombstoned(claim[k].entry) BY DEF Stale
<1>3. claim[k].entry # e BY <1>2 DEF Holder, Live, Tombstoned
<1>4. dead[e] # None => claim[k].entry # dead[e].retry BY <1>2 DEF Tombstoned
<1> QED BY <1>1, <1>3, <1>4 DEF HolderInv, ClaimsFollow

LEMMA ClaimStepHolder ==
    ASSUME TypeOK, Bookkeeping, ClaimsInv, NothingLost, HolderInv, ClaimStep
    PROVE  HolderInv' /\ \A k \in Keys : Stale(k)' => Stale(k) /\ claim'[k].entry = claim[k].entry
<1>1. \A e \in Entries : /\ Exists(e)' <=> Exists(e)
                         /\ Tombstoned(e)' <=> Tombstoned(e)
                         /\ Holder(e)' <=> Holder(e)
    BY ClaimStepKeeps
<1>2. UNCHANGED <<row, dead, root>> BY DEF ClaimStep
<1>3. \A k \in Keys : claim'[k] # None =>
        \/ claim[k] # None /\ claim'[k].entry = claim[k].entry
        \/ claim'[k].entry \in Entries /\ Live(claim'[k].entry)
    BY DEF ClaimStep
<1>4. \A k \in Keys : claim[k] # None => claim[k].entry \in Entries BY DEF TypeOK, Claims
<1>5. ASSUME NEW k \in Keys, Stale(k)'
      PROVE  Stale(k) /\ claim[k] # None /\ claim'[k].entry = claim[k].entry
    <2>1. claim'[k] # None BY <1>5 DEF Stale
    <2>2. claim'[k].entry \in Entries BY <1>3, <1>4, <2>1
    <2>3. ~Exists(claim'[k].entry) /\ ~Tombstoned(claim'[k].entry)
        BY <1>1, <1>5, <2>1, <2>2, StaleMeans
    <2>4. claim[k] # None /\ claim'[k].entry = claim[k].entry
        BY <1>3, <2>1, <2>3 DEF Live
    <2> QED BY <2>2, <2>3, <2>4, StaleMeans
<1>6. OneHolder' BY <1>1, <1>2 DEF OneHolder, HolderInv
<1>7. ClaimsFollow'
    <2> SUFFICES ASSUME NEW k \in Keys, NEW e \in Entries, claim'[k] # None, Holder(e),
                        root[claim'[k].entry] = root[e]
                 PROVE  \/ claim'[k].entry = e
                        \/ dead[e] # None /\ claim'[k].entry = dead[e].retry
        BY <1>1, <1>2 DEF ClaimsFollow
    <2>1. CASE claim[k] # None /\ claim'[k].entry = claim[k].entry
        BY <2>1 DEF HolderInv, ClaimsFollow
    <2>2. CASE claim'[k].entry \in Entries /\ Live(claim'[k].entry)
        BY <2>2 DEF HolderInv, OneHolder, Holder
    <2> QED BY <1>3, <2>1, <2>2
<1>8. StaleTogether'
    <2> SUFFICES ASSUME NEW j \in Keys, NEW k \in Keys, Stale(j)', claim'[k] # None,
                        root[claim'[j].entry] = root[claim'[k].entry]
                 PROVE  claim'[j].entry = claim'[k].entry
        BY <1>2 DEF StaleTogether
    <2>1. Stale(j) /\ claim'[j].entry = claim[j].entry BY <1>5
    <2>2. CASE claim[k] # None /\ claim'[k].entry = claim[k].entry
        BY <2>1, <2>2 DEF HolderInv, StaleTogether
    <2>3. CASE claim'[k].entry \in Entries /\ Live(claim'[k].entry)
        BY <2>1, <2>3, StaleAlone DEF Holder
    <2> QED BY <1>3, <2>2, <2>3
<1> QED BY <1>5, <1>6, <1>7, <1>8 DEF HolderInv

\* A new row takes over a logical delivery that has no holder, with its claims:
\* the row of a new request, or of a stale claim.
TakesOver(e, r) ==
    /\ Inserted(e, r) /\ UNCHANGED <<dead, worker, sent, unsure>>
    /\ \A x \in Entries : Holder(x) => root[x] # r
    /\ \A k \in Keys : claim'[k] # None =>
          \/ claim[k] # None /\ claim'[k] = claim[k] /\ root[claim[k].entry] # r
          \/ claim'[k].entry = e
    /\ r = e \/ \E k \in Keys : Stale(k) /\ root[claim[k].entry] = r

LEMMA InsertedHolder ==
    ASSUME TypeOK, Bookkeeping, ClaimsInv, HolderInv,
           NEW e \in Entries, NEW r \in Entries, TakesOver(e, r)
    PROVE  HolderInv' /\ \A k \in Keys : Stale(k)' => Stale(k) /\ claim'[k] = claim[k]
<1> USE DEF TakesOver
<1>1. \A x \in Entries : /\ Exists(x)' <=> Exists(x) \/ x = e
                         /\ Tombstoned(x)' <=> Tombstoned(x)
                         /\ Holder(x)' <=> Holder(x) \/ x = e
    BY InsertedExists
<1>2. \A x \in Entries : root'[x] = IF x = e THEN r ELSE root[x] BY DEF Inserted, TypeOK
<1>3. \A k \in Keys : claim[k] # None => claim[k].entry \in Entries /\ claim[k].entry # e
    BY ClaimRoots DEF Inserted
<1>4. \A x \in Entries : Holder(x) => x # e BY HolderRoots DEF Inserted
<1>5. ASSUME NEW k \in Keys, Stale(k)'
      PROVE  Stale(k) /\ claim[k] # None /\ claim'[k] = claim[k] /\ root[claim[k].entry] # r
    <2>1. claim'[k] # None BY <1>5 DEF Stale
    <2>2. claim'[k].entry \in Entries BY <1>3, <2>1
    <2>3. claim'[k].entry # e
        <3>1. Exists(e)' BY <1>1
        <3>2. claim'[k].entry = e => (Stale(k)' <=> ~Exists(e)' /\ ~Tombstoned(e)')
            BY <2>1, StaleMeans
        <3> QED BY <1>5, <3>1, <3>2
    <2>4. claim[k] # None /\ claim'[k] = claim[k] /\ root[claim[k].entry] # r BY <2>1, <2>3
    <2>5. PICK x \in Entries : x = claim[k].entry BY <1>3, <2>4
    <2>6. ~Exists(x)' /\ ~Tombstoned(x)' BY <1>5, <2>1, <2>4, <2>5, StaleMeans
    <2>7. ~Exists(x) /\ ~Tombstoned(x) BY <1>1, <2>6
    <2> QED BY <2>4, <2>5, <2>7, StaleMeans
<1>6. OneHolder'
    <2> SUFFICES ASSUME NEW x \in Entries, NEW y \in Entries, Holder(x)', Holder(y)',
                        root'[x] = root'[y]
                 PROVE  x = y
        BY DEF OneHolder
    <2> QED BY <1>1, <1>2, <1>4 DEF HolderInv, OneHolder
<1>7. ClaimsFollow'
    <2> SUFFICES ASSUME NEW k \in Keys, NEW x \in Entries, claim'[k] # None, Holder(x)',
                        root'[claim'[k].entry] = root'[x]
                 PROVE  \/ claim'[k].entry = x
                        \/ dead[x] # None /\ claim'[k].entry = dead[x].retry
        BY DEF ClaimsFollow
    <2>1. CASE claim'[k].entry = e
        <3>1. root'[x] = r BY <1>2, <2>1
        <3> QED BY <1>1, <1>2, <2>1, <3>1
    <2>2. CASE claim[k] # None /\ claim'[k] = claim[k] /\ root[claim[k].entry] # r
        <3>1. root'[claim[k].entry] = root[claim[k].entry] BY <1>2, <1>3, <2>2
        <3>2. x # e BY <1>2, <2>2, <3>1
        <3>3. Holder(x) /\ root[claim[k].entry] = root[x] BY <1>1, <1>2, <2>2, <3>1, <3>2
        <3> QED BY <2>2, <3>3 DEF HolderInv, ClaimsFollow
    <2> QED BY <2>1, <2>2
<1>8. StaleTogether'
    <2> SUFFICES ASSUME NEW j \in Keys, NEW k \in Keys, Stale(j)', claim'[k] # None,
                        root'[claim'[j].entry] = root'[claim'[k].entry]
                 PROVE  claim'[j].entry = claim'[k].entry
        BY DEF StaleTogether
    <2>1. /\ Stale(j) /\ claim[j] # None /\ claim'[j] = claim[j]
          /\ root[claim[j].entry] # r
        BY <1>5
    <2>2. root'[claim[j].entry] = root[claim[j].entry] BY <1>2, <1>3, <2>1
    <2>3. CASE claim'[k].entry = e BY <1>2, <2>1, <2>2, <2>3
    <2>4. CASE claim[k] # None /\ claim'[k] = claim[k]
        <3>1. root'[claim[k].entry] = root[claim[k].entry] BY <1>2, <1>3, <2>4
        <3> QED BY <2>1, <2>2, <2>4, <3>1 DEF HolderInv, StaleTogether
    <2> QED BY <2>3, <2>4
<1> QED BY <1>5, <1>6, <1>7, <1>8 DEF HolderInv

LEMMA BuriesHolder ==
    ASSUME TypeOK, HolderInv, NEW e \in Entries, Buries(e)
    PROVE  HolderInv' /\ \A k \in Keys : Stale(k)' => Stale(k)
<1>1. /\ \A x \in Entries : Exists(x)' => Exists(x)
      /\ \A x \in Entries : x # e => (Exists(x)' <=> Exists(x))
      /\ \A x \in Entries : Tombstoned(x)' <=> Tombstoned(x) \/ x = e
      /\ \A x \in Entries : Holder(x)' <=> Holder(x)
      /\ dead[e] = None
    BY BuriesExists
<1>2. /\ UNCHANGED <<claim, root>> /\ dead'[e] # None /\ dead'[e].retry = None
      /\ \A x \in Entries : x # e => dead'[x] = dead[x]
    BY DEF Buries
<1>3. \A k \in Keys : claim[k] # None => claim[k].entry \in Entries BY DEF TypeOK, Claims
<1>4. ASSUME NEW k \in Keys, Stale(k)' PROVE Stale(k)
    <2>1. claim[k] # None BY <1>2, <1>4 DEF Stale
    <2>2. PICK x \in Entries : x = claim[k].entry BY <1>3, <2>1
    <2>3. ~Exists(x)' /\ ~Tombstoned(x)' BY <1>2, <1>4, <2>1, <2>2, StaleMeans
    <2>4. ~Exists(x) /\ ~Tombstoned(x) BY <1>1, <2>3
    <2> QED BY <2>1, <2>2, <2>4, StaleMeans
<1>5. OneHolder' BY <1>1, <1>2 DEF HolderInv, OneHolder
<1>6. ClaimsFollow'
    <2> SUFFICES ASSUME NEW k \in Keys, NEW x \in Entries, claim[k] # None, Holder(x)',
                        root[claim[k].entry] = root[x]
                 PROVE  \/ claim[k].entry = x
                        \/ dead'[x] # None /\ claim[k].entry = dead'[x].retry
        BY <1>2 DEF ClaimsFollow
    <2>1. \/ claim[k].entry = x
          \/ dead[x] # None /\ claim[k].entry = dead[x].retry
        BY <1>1 DEF HolderInv, ClaimsFollow
    <2> QED BY <1>1, <1>2, <2>1
<1>7. StaleTogether' BY <1>2, <1>4 DEF HolderInv, StaleTogether
<1> QED BY <1>4, <1>5, <1>6, <1>7 DEF HolderInv

\* A retry hands the logical delivery over from the dead letter to the new row.
LEMMA RetriesHolder ==
    ASSUME TypeOK, Bookkeeping, ClaimsInv, HolderInv,
           NEW o \in Entries, NEW e \in Entries, NEW n \in 1..5, Retries(o, e, n)
    PROVE  /\ HolderInv'
           /\ \A k \in Keys : Stale(k)' =>
                 Stale(k) /\ root'[claim'[k].entry] = root[claim[k].entry]
<1>0. None \notin Entries BY ConstantsAssumption
<1>1. RetryTarget(o, e) /\ dead[o] # None BY DEF Retries, RetryTarget
<1>2. /\ \A x \in Entries \ {o, e} : /\ Exists(x)' <=> Exists(x)
                                     /\ Tombstoned(x)' <=> Tombstoned(x)
                                     /\ Holder(x)' <=> Holder(x)
      /\ Exists(e)' <=> Exists(e) \/ n >= 3
      /\ Holder(o) /\ ~Holder(e) /\ ~Live(o)'
      /\ Tombstoned(o)' <=> n # 5
      /\ n # 5 => Tombstoned(e)' /\ ~Holder(e)'
      /\ dead'[e] = None
    BY RetriesExists
<1>3. /\ e # o /\ (row[e].status # "unused" => root[e] = root[o]) BY <1>1, RetryTargetFacts
<1>4. \A x \in Entries : root'[x] = IF x = e THEN root[o] ELSE root[x] BY DEF Retries
<1>5. Holder(o)' => n # 5 BY <1>2 DEF Retries, Holder
<1>6. \A k \in Keys : claim[k] # None =>
        claim[k].entry \in Entries /\ root'[claim[k].entry] = root[claim[k].entry]
    BY <1>3, <1>4, ClaimRoots
\* What becomes of a claim, and that it stays with its logical delivery.
<1>7. ASSUME NEW k \in Keys, claim'[k] # None
      PROVE  /\ claim[k] # None /\ claim'[k].entry \in Entries
             /\ \/ claim'[k] = claim[k] /\ ~(n >= 4 /\ claim[k].entry = o)
                \/ n >= 4 /\ claim[k].entry = o /\ claim'[k].entry = e
             /\ root'[claim'[k].entry] = root[claim[k].entry]
    <2>1. claim[k] # None BY <1>7 DEF Retries
    <2>2. \/ claim'[k] = claim[k] /\ ~(n >= 4 /\ claim[k].entry = o)
          \/ n >= 4 /\ claim[k].entry = o /\ claim'[k].entry = e
        BY <2>1 DEF Retries
    <2> QED BY <1>4, <1>6, <2>1, <2>2
<1>8. ASSUME NEW k \in Keys, Stale(k)'
      PROVE  /\ Stale(k) /\ claim[k] # None /\ claim'[k] = claim[k]
             /\ claim[k].entry \notin {o, e}
             /\ root'[claim'[k].entry] = root[claim[k].entry]
    <2>1. claim'[k] # None BY <1>8 DEF Stale
    <2>2. PICK x \in Entries : x = claim'[k].entry BY <1>7, <2>1
    <2>3. ~Exists(x)' /\ ~Tombstoned(x)' BY <1>8, <2>1, <2>2, StaleMeans
    <2>4. x # e
        <3>1. CASE n = 5 BY <1>2, <2>3, <3>1
        <3>2. CASE n # 5 BY <1>2, <2>3, <3>2
        <3> QED BY <3>1, <3>2
    <2>5. claim'[k] = claim[k] /\ ~(n >= 4 /\ claim[k].entry = o) BY <1>7, <2>1, <2>2, <2>4
    <2>6. x # o
        <3>1. CASE n = 5 BY <2>2, <2>5, <3>1
        <3>2. CASE n # 5 BY <1>2, <2>3, <3>2
        <3> QED BY <3>1, <3>2
    <2>7. ~Exists(x) /\ ~Tombstoned(x) BY <1>2, <2>3, <2>4, <2>6
    <2>8. Stale(k) BY <1>7, <2>1, <2>2, <2>5, <2>7, StaleMeans
    <2> QED BY <1>7, <2>1, <2>2, <2>4, <2>5, <2>6, <2>8
<1>9. OneHolder'
    <2> SUFFICES ASSUME NEW x \in Entries, NEW y \in Entries, Holder(x)', Holder(y)',
                        root'[x] = root'[y]
                 PROVE  x = y
        BY DEF OneHolder
    <2>1. CASE n = 5
        <3>1. \A z \in Entries : Holder(z)' => z = e \/ (Holder(z) /\ z # o)
            BY <1>2, <1>5, <2>1
        <3> QED BY <1>2, <1>4, <3>1 DEF HolderInv, OneHolder
    <2>2. CASE n # 5
        <3>1. \A z \in Entries : Holder(z)' => z # e /\ Holder(z) BY <1>2, <2>2
        <3> QED BY <1>4, <3>1 DEF HolderInv, OneHolder
    <2> QED BY <2>1, <2>2
<1>10. ClaimsFollow'
    <2> SUFFICES ASSUME NEW k \in Keys, NEW x \in Entries, claim'[k] # None, Holder(x)',
                        root'[claim'[k].entry] = root'[x]
                 PROVE  \/ claim'[k].entry = x
                        \/ dead'[x] # None /\ claim'[k].entry = dead'[x].retry
        BY DEF ClaimsFollow
    <2>1. root[claim[k].entry] = root'[x] /\ claim[k] # None BY <1>7
    \* Where the claim was when it belonged to the retried delivery.
    <2>2. root[claim[k].entry] = root[o] => claim[k].entry \in {o, e}
        <3>1. dead[o].retry # None => dead[o].retry = e BY <1>1 DEF RetryTarget
        <3>2. claim[k].entry # None BY <1>0, <1>6, <2>1
        <3> QED BY <1>2, <2>1, <3>1, <3>2 DEF HolderInv, ClaimsFollow
    <2>3. CASE x = e
        <3>1. n = 5 BY <1>2, <2>3
        <3> QED BY <1>4, <1>7, <2>1, <2>2, <2>3, <3>1
    <2>4. CASE x = o
        <3>1. n # 5 BY <1>5, <2>4
        <3>2. dead'[o] # None /\ dead'[o].retry = e BY <3>1 DEF Retries
        <3>3. claim[k].entry \in {o, e} BY <1>3, <1>4, <2>1, <2>2, <2>4
        <3>4. claim'[k].entry \in {o, e} BY <1>7, <3>3
        <3> QED BY <2>4, <3>2, <3>4
    <2>5. CASE x \notin {o, e}
        <3>1. Holder(x) /\ root'[x] = root[x] /\ dead'[x] = dead[x]
            BY <1>2, <1>4, <2>5 DEF Retries
        <3>2. root[x] # root[o] BY <1>2, <2>5, <3>1 DEF HolderInv, OneHolder
        <3>3. claim[k].entry # o BY <2>1, <3>1, <3>2
        <3>4. claim'[k] = claim[k] BY <1>7, <3>3
        <3> QED BY <2>1, <3>1, <3>4 DEF HolderInv, ClaimsFollow
    <2> QED BY <2>3, <2>4, <2>5
<1>11. StaleTogether'
    <2> SUFFICES ASSUME NEW j \in Keys, NEW k \in Keys, Stale(j)', claim'[k] # None,
                        root'[claim'[j].entry] = root'[claim'[k].entry]
                 PROVE  claim'[j].entry = claim'[k].entry
        BY DEF StaleTogether
    <2>1. /\ Stale(j) /\ claim'[j] = claim[j] /\ claim[j].entry \notin {o, e}
          /\ root'[claim'[j].entry] = root[claim[j].entry]
        BY <1>8
    <2>2. claim[k] # None /\ root[claim[j].entry] = root[claim[k].entry] BY <1>7, <2>1
    <2>3. claim[k].entry = claim[j].entry BY <2>1, <2>2 DEF HolderInv, StaleTogether
    <2>4. claim'[k] = claim[k] BY <1>7, <2>1, <2>3
    <2> QED BY <2>1, <2>3, <2>4
<1> QED BY <1>8, <1>9, <1>10, <1>11 DEF HolderInv

\* Retention takes the holder of a delivered message; its claims were on it.
LEMMA PurgesHolder ==
    ASSUME TypeOK, Bookkeeping, HolderInv, NEW es \in SUBSET Entries, Purges(es)
    PROVE  /\ HolderInv'
           /\ \A k \in Keys : Stale(k)' =>
                 /\ claim'[k] = claim[k] /\ claim[k] # None
                 /\ Stale(k) \/ claim[k].entry \in es
<1>1. /\ \A x \in Entries : Exists(x)' <=> Exists(x) /\ x \notin es
      /\ \A x \in Entries : Tombstoned(x)' <=> Tombstoned(x)
      /\ \A x \in Entries : Live(x)' <=> Live(x) /\ x \notin es
      /\ \A x \in es : Live(x)
    BY PurgesExists
<1>2. /\ UNCHANGED <<dead, root>>
      /\ \A k \in Keys : claim'[k] # None => claim'[k] = claim[k]
    BY DEF Purges
<1>3. \A x \in Entries : Holder(x)' => Holder(x) BY <1>1, <1>2 DEF Holder
<1>4. \A k \in Keys : claim[k] # None => claim[k].entry \in Entries BY DEF TypeOK, Claims
<1>5. ASSUME NEW k \in Keys, Stale(k)'
      PROVE  /\ claim'[k] = claim[k] /\ claim[k] # None
             /\ Stale(k) \/ claim[k].entry \in es
    <2>1. claim'[k] # None BY <1>5 DEF Stale
    <2>2. claim'[k] = claim[k] /\ claim[k] # None BY <1>2, <2>1
    <2>3. PICK x \in Entries : x = claim[k].entry BY <1>4, <2>2
    <2>4. ~Exists(x)' /\ ~Tombstoned(x)' BY <1>5, <2>1, <2>2, <2>3, StaleMeans
    <2>5. x \in es \/ (~Exists(x) /\ ~Tombstoned(x)) BY <1>1, <2>4
    <2> QED BY <2>2, <2>3, <2>5, StaleMeans
<1>6. OneHolder' BY <1>2, <1>3 DEF HolderInv, OneHolder
<1>7. ClaimsFollow'
    <2> SUFFICES ASSUME NEW k \in Keys, NEW x \in Entries, claim'[k] # None, Holder(x)',
                        root[claim'[k].entry] = root[x]
                 PROVE  \/ claim'[k].entry = x
                        \/ dead[x] # None /\ claim'[k].entry = dead[x].retry
        BY <1>2 DEF ClaimsFollow
    <2> QED BY <1>2, <1>3 DEF HolderInv, ClaimsFollow
<1>8. StaleTogether'
    <2> SUFFICES ASSUME NEW j \in Keys, NEW k \in Keys, Stale(j)', claim'[k] # None,
                        root[claim'[j].entry] = root[claim'[k].entry]
                 PROVE  claim'[j].entry = claim'[k].entry
        BY <1>2 DEF StaleTogether
    <2>1. /\ claim'[j] = claim[j] /\ claim[j] # None
          /\ Stale(j) \/ claim[j].entry \in es
        BY <1>5
    <2>2. claim'[k] = claim[k] BY <1>2
    <2>3. CASE Stale(j) BY <2>1, <2>2, <2>3 DEF HolderInv, StaleTogether
    <2>4. CASE claim[j].entry \in es
        <3>1. PICK x \in es : x = claim[j].entry BY <2>4
        <3>2. Holder(x) /\ dead[x] = None BY <1>1 DEF Holder, Live, Tombstoned
        <3> QED BY <2>1, <2>2, <3>1, <3>2 DEF HolderInv, ClaimsFollow
    <2> QED BY <2>1, <2>3, <2>4
<1> QED BY <1>5, <1>6, <1>7, <1>8 DEF HolderInv

\* What a request inserts starts a logical delivery or continues one that has
\* neither a live row nor a dead letter.
LEMMA RequestsInsert ==
    ASSUME QueueInv, HolderInv, NEW content \in Contents, NEW requested \in Requested,
           NEW e \in Entries,
           \/ Enqueue(e, content, requested)
           \/ \E k \in Keys :
                 \/ EnqueueNewKey(k, e, content, requested)
                 \/ ReplayRecreates(k, e, content, requested)
                 \/ \E p \in Policies : OldEnqueue(k, e, content, requested, p)
    PROVE  \E r \in Entries : TakesOver(e, r)
<1> USE DEF QueueInv
<1>0. claim \in [Keys -> {None} \union Claims] BY DEF TypeOK
<1>1. ASSUME Started(e), \A k \in Keys : claim'[k] # None =>
                            (claim[k] # None /\ claim'[k] = claim[k]) \/ claim'[k].entry = e
      PROVE  TakesOver(e, e)
    <2>1. Inserted(e, e) /\ root[e] = None BY <1>1, InsertedExists DEF Started
    <2>2. e # None BY ConstantsAssumption
    <2>3. \A x \in Entries : Holder(x) => root[x] # e BY <2>1, <2>2, HolderRoots
    <2>4. \A k \in Keys : claim[k] # None => root[claim[k].entry] # e
        BY <2>1, <2>2, ClaimRoots
    <2> QED BY <1>1, <2>1, <2>3, <2>4 DEF Started, TakesOver
<1>2. CASE Enqueue(e, content, requested)
    <2>1. Started(e) BY <1>2, StartedSteps
    <2>2. UNCHANGED claim BY <1>2 DEF Enqueue
    <2> QED BY <1>1, <2>1, <2>2
<1>3. ASSUME NEW k \in Keys, NEW p \in Policies,
             EnqueueNewKey(k, e, content, requested) \/ OldEnqueue(k, e, content, requested, p)
      PROVE  /\ Started(e)
             /\ \A j \in Keys : claim'[j] # None =>
                   (claim[j] # None /\ claim'[j] = claim[j]) \/ claim'[j].entry = e
    <2> DEFINE c == NewClaim(e, content, requested, None)
    <2>1. Started(e) BY <1>3, StartedSteps
    <2>2. \/ claim' = [claim EXCEPT ![k] = c]
          \/ claim' = [claim EXCEPT ![k] = [c EXCEPT !.policy = None]]
        BY <1>3 DEF EnqueueNewKey, OldEnqueue
    <2>3. c.entry = e /\ [c EXCEPT !.policy = None].entry = e BY NewClaimType DEF Claims
    <2> HIDE DEF c
    <2>4. \A j \in Keys : j # k => claim'[j] = claim[j] BY <1>0, <2>2
    <2>5. claim'[k].entry = e BY <1>0, <2>2, <2>3
    <2> QED BY <2>1, <2>4, <2>5
<1>4. ASSUME NEW k \in Keys, ReplayRecreates(k, e, content, requested)
      PROVE  root[claim[k].entry] \in Entries /\ TakesOver(e, root[claim[k].entry])
    <2> DEFINE old == claim[k].entry
    <2>1. Stale(k) /\ old \in Entries /\ Inserted(e, root[old]) BY <1>4, RecreateInserts
    <2>2. claim' = Moved(old, e) /\ UNCHANGED <<dead, worker, sent, unsure>>
        BY <1>4 DEF ReplayRecreates
    <2>3. claim[k] # None BY <2>1 DEF Stale
    <2>4. \A x \in Entries : Holder(x) => root[x] # root[old] BY <2>1, StaleAlone
    <2>5. ASSUME NEW j \in Keys, claim'[j] # None
          PROVE  \/ claim[j] # None /\ claim'[j] = claim[j] /\ root[claim[j].entry] # root[old]
                 \/ claim'[j].entry = e
        <3>1. claim[j] # None BY <2>1, <2>2, <2>5, MovedType
        <3>2. CASE claim[j].entry = old BY <2>1, <2>2, <3>1, <3>2, MovedType
        <3>3. CASE claim[j].entry # old
            <4>1. claim'[j] = claim[j] BY <2>2, <3>3 DEF Moved
            <4>2. root[claim[j].entry] # root[old]
                BY <2>1, <3>1, <3>3 DEF HolderInv, StaleTogether
            <4> QED BY <3>1, <4>1, <4>2
        <3> QED BY <3>2, <3>3
    <2>6. root[old] \in Entries BY <2>3, ClaimRoots
    <2> QED BY <2>1, <2>2, <2>4, <2>5, <2>6 DEF TakesOver
<1>5. CASE Started(e) /\ \A k \in Keys : claim'[k] # None =>
                            (claim[k] # None /\ claim'[k] = claim[k]) \/ claim'[k].entry = e
    BY <1>1, <1>5
<1>6. CASE \E k \in Keys : ReplayRecreates(k, e, content, requested)
    <2>1. PICK k \in Keys : ReplayRecreates(k, e, content, requested) BY <1>6
    <2>2. PICK r \in Entries : r = root[claim[k].entry] BY <1>4, <2>1
    <2> QED BY <1>4, <2>1, <2>2
<1>7. CASE \E k \in Keys : EnqueueNewKey(k, e, content, requested)
    <2>1. default \in Policies BY DEF TypeOK
    <2> QED BY <1>3, <1>5, <1>7, <2>1
<1> QED BY <1>2, <1>3, <1>5, <1>6, <1>7

\* The requests that only write claims, and those that insert a row.
LEMMA RequestsCases ==
    ASSUME QueueInv, HolderInv, Requests
    PROVE  \/ ClaimStep
           \/ \E e, r \in Entries : TakesOver(e, r)
<1>1. PICK content \in Contents, requested \in Requested :
        \/ \E e \in Entries : Enqueue(e, content, requested)
        \/ \E k \in Keys :
              \/ AdoptNewKey(k, content, requested) \/ ReplayLive(k, content, requested)
              \/ ReplayAdopts(k, content, requested) \/ RecreateCompensated(k, content, requested)
              \/ \E e \in Entries :
                    \/ EnqueueNewKey(k, e, content, requested)
                    \/ ReplayRecreates(k, e, content, requested)
                    \/ \E p \in Policies : OldEnqueue(k, e, content, requested, p)
    BY DEF Requests
<1>2. CASE \E k \in Keys :
              \/ AdoptNewKey(k, content, requested) \/ ReplayLive(k, content, requested)
              \/ ReplayAdopts(k, content, requested) \/ RecreateCompensated(k, content, requested)
    BY <1>2, ClaimSteps DEF QueueInv
<1>3. CASE \E e \in Entries :
              \/ Enqueue(e, content, requested)
              \/ \E k \in Keys :
                    \/ EnqueueNewKey(k, e, content, requested)
                    \/ ReplayRecreates(k, e, content, requested)
                    \/ \E p \in Policies : OldEnqueue(k, e, content, requested, p)
    BY <1>3, RequestsInsert
<1> QED BY <1>1, <1>2, <1>3

LEMMA HolderInit ==
    ASSUME Init
    PROVE  HolderInv
<1>1. \A e \in Entries : ~Holder(e) BY DEF Init, Holder, Live, Exists, Stored, UnusedRow
<1>2. \A k \in Keys : claim[k] = None BY DEF Init
<1> QED BY <1>1, <1>2 DEF HolderInv, OneHolder, ClaimsFollow, StaleTogether, Stale

LEMMA HolderStep ==
    ASSUME RetriesFollowed, QueueInv, HolderInv, [Next]_vars
    PROVE  HolderInv'
<1> USE DEF QueueInv
<1>1. CASE Requests BY <1>1, RequestsCases, ClaimStepHolder, InsertedHolder
<1>2. CASE Operator
    <2>1. ASSUME NEW e \in Entries, RetryFailed(e) PROVE HolderInv'
        BY <2>1, RowSteps, RowStepKeeps
    <2>2. ASSUME NEW e \in Entries, OldBury(e) PROVE HolderInv'
        BY <2>2, BurySteps, BuriesHolder
    <2>3. ASSUME NEW o \in Entries, NEW e \in Entries, OldRetry(o, e) PROVE FALSE
        BY <2>3 DEF OldRetry, RetriesFollowed
    <2>4. ASSUME NEW o \in Entries, NEW e \in Entries, NEW n \in 1..5, RetryDeadLetter(o, e, n)
          PROVE  HolderInv'
        BY <2>4, RetrySteps, RetriesHolder
    <2>5. ASSUME NEW es \in SUBSET Entries, PurgeDelivered(es) PROVE HolderInv'
        BY <2>5, PurgeSteps, PurgesHolder
    <2> QED BY <1>2, <2>1, <2>2, <2>3, <2>4, <2>5 DEF Operator
<1>3. CASE Work
    <2>1. CASE MoveToDeadLetter BY <2>1, BurySteps, BuriesHolder
    <2>2. CASE ~MoveToDeadLetter
        <3>1. RowStep BY <1>3, <2>2, RowSteps DEF Work
        <3> QED BY <3>1, RowStepKeeps
    <2> QED BY <2>1, <2>2
<1>4. CASE Lifecycle \/ Time
    <2>1. RowStep BY <1>4, RowSteps DEF Lifecycle, Time
    <2> QED BY <2>1, RowStepKeeps
<1>5. CASE UNCHANGED vars
    <2>1. RowStep BY <1>5 DEF vars, history, RowStep
    <2> QED BY <2>1, RowStepKeeps
<1> QED BY <1>1, <1>2, <1>3, <1>4, <1>5 DEF Next

\* However retries, stale repairs, partial commits and moves interleave, a
\* logical delivery never has two rows that could both be delivered.
THEOREM OneRowAtATime ==
    ASSUME RetriesFollowed
    PROVE  Spec => []OneLiveRow
<1>1. Init => HolderInv BY HolderInit
<1>2. QueueInv /\ HolderInv /\ [Next]_vars => HolderInv' BY HolderStep
<1>3. HolderInv => OneLiveRow BY DEF HolderInv, OneHolder, Holder, OneLiveRow
<1> QED BY <1>1, <1>2, <1>3, QueueInvHolds, PTL DEF Spec

-----------------------------------------------------------------------------
(* Accepted once.  Whatever may still be sent - the undelivered holder of  *)
(* a logical delivery, or the row of a stale claim - belongs to a delivery *)
(* that was not accepted yet, or whose acknowledgement was lost.           *)

LEMMA SentInit ==
    ASSUME Init
    PROVE  SentInv
<1>1. \A e \in Entries : ~Live(e) /\ dead[e] = None /\ sent[e] = 0
    BY DEF Init, Live, Exists, Stored, UnusedRow
<1>2. \A k \in Keys : ~Stale(k) BY DEF Init, Stale
<1> QED BY <1>1, <1>2 DEF SentInv, AcceptedOnce

\* A step that leaves the counts alone keeps SentInv if it leaves a delivered
\* row delivered, and if an accepted attempt that ends is recorded or unsure.
LEMMA RowStepSent ==
    ASSUME TypeOK, Bookkeeping, ClaimsInv, SentInv, RowStep,
           UNCHANGED sent, unsure \subseteq unsure',
           \A e \in Entries :
              Live(e) /\ row'[e].status # "delivered" => row[e].status # "delivered",
           worker.stage = "accepted" =>
              \/ worker'.stage = "accepted" /\ worker'.cur = worker.cur
              \/ root[worker.cur] \in unsure'
              \/ row'[worker.cur].status = "delivered"
    PROVE  SentInv'
<1>1. /\ \A e \in Entries : Exists(e)' <=> Exists(e)
      /\ \A e \in Entries : Tombstoned(e)' <=> Tombstoned(e)
      /\ \A e \in Entries : Live(e)' <=> Live(e)
    BY RowStepExists
<1>2. UNCHANGED <<dead, claim, root, sent>> BY DEF RowStep
<1>3. \A e \in Entries : row'[e].status = "unused" => row[e].status = "unused"
    BY DEF RowStep, Stored
<1>4. \A r : Clean(r) => Clean(r)' BY <1>2 DEF Clean
<1>5. ASSUME NEW k \in Keys, Stale(k)' PROVE Clean(root[claim[k].entry])
    <2>1. claim[k] # None BY <1>2, <1>5 DEF Stale
    <2>2. PICK x \in Entries : x = claim[k].entry BY <2>1, ClaimRoots
    <2>3. ~Exists(x)' /\ ~Tombstoned(x)' BY <1>2, <1>5, <2>1, <2>2, StaleMeans
    <2>4. Stale(k) BY <1>1, <2>1, <2>2, <2>3, StaleMeans
    <2> QED BY <2>4 DEF SentInv
<1>6. ASSUME NEW e \in Entries, Live(e)', row'[e].status # "delivered"
      PROVE  \/ Clean(root[e])'
             \/ worker'.stage = "accepted" /\ worker'.cur = e /\ sent'[root'[e]] = 1
    <2>1. Live(e) /\ row[e].status # "delivered" BY <1>1, <1>6
    <2>2. \/ Clean(root[e])
          \/ worker.stage = "accepted" /\ worker.cur = e /\ sent[root[e]] = 1
        BY <2>1 DEF SentInv
    <2>3. CASE Clean(root[e]) BY <1>2, <1>4, <2>3 DEF Clean
    <2>4. CASE worker.stage = "accepted" /\ worker.cur = e /\ sent[root[e]] = 1
        BY <1>2, <1>6, <2>4 DEF Clean
    <2> QED BY <2>2, <2>3, <2>4
<1>7. \A e \in Entries : dead'[e] # None => Clean(root[e])'
    BY <1>2, <1>4 DEF SentInv, Clean
<1>8. \A k \in Keys : Stale(k)' => Clean(root[claim[k].entry])'
    BY <1>2, <1>5 DEF Clean
<1>9. AcceptedOnce' BY <1>2 DEF SentInv, AcceptedOnce
<1>10. \A e \in Entries : row'[e].status = "unused" => sent'[e] = 0
    BY <1>2, <1>3 DEF SentInv
<1> QED BY <1>6, <1>7, <1>8, <1>9, <1>10 DEF SentInv

LEMMA ClaimStepSent ==
    ASSUME TypeOK, Bookkeeping, ClaimsInv, NothingLost, HolderInv, SentInv, ClaimStep
    PROVE  SentInv'
<1>1. UNCHANGED <<row, dead, worker, root, sent, unsure>> BY DEF ClaimStep
<1>2. \A e \in Entries : Live(e)' <=> Live(e) BY ClaimStepKeeps
<1>3. \A k \in Keys : Stale(k)' => Stale(k) /\ claim'[k].entry = claim[k].entry
    BY ClaimStepHolder
<1>4. \A k \in Keys : Stale(k)' => Clean(root[claim[k].entry])'
    BY <1>1, <1>3 DEF SentInv, Clean
<1>5. \A e \in Entries : dead'[e] # None => Clean(root[e])'
    BY <1>1 DEF SentInv, Clean
<1>6. \A e \in Entries :
        Live(e)' /\ row'[e].status # "delivered" =>
            \/ Clean(root[e])'
            \/ worker'.stage = "accepted" /\ worker'.cur = e /\ sent'[root'[e]] = 1
    BY <1>1, <1>2 DEF SentInv, Clean
<1>7. AcceptedOnce' BY <1>1 DEF SentInv, AcceptedOnce
<1>8. \A e \in Entries : row'[e].status = "unused" => sent'[e] = 0 BY <1>1 DEF SentInv
<1> QED BY <1>4, <1>5, <1>6, <1>7, <1>8 DEF SentInv

LEMMA InsertedSent ==
    ASSUME TypeOK, Bookkeeping, ClaimsInv, HolderInv, SentInv,
           NEW e \in Entries, NEW r \in Entries, TakesOver(e, r)
    PROVE  SentInv'
<1>1. Inserted(e, r) /\ UNCHANGED <<dead, worker, sent, unsure>> BY DEF TakesOver
<1>2. \A x \in Entries : Live(x)' <=> Live(x) \/ x = e BY <1>1, InsertedExists
<1>3. dead[e] = None /\ row[e].status = "unused" BY <1>1, InsertedExists DEF Inserted
<1>4. \A x \in Entries : root'[x] = IF x = e THEN r ELSE root[x]
    BY <1>1 DEF Inserted, TypeOK
<1>5. Clean(r) BY <1>3 DEF TakesOver, SentInv, Clean
<1>6. \A x \in Entries : x # e => row'[x] = row[x] BY <1>1 DEF Inserted
<1>7. \A k \in Keys : Stale(k)' => Stale(k) /\ claim'[k] = claim[k] BY InsertedHolder
<1>8. \A k \in Keys : claim[k] # None => claim[k].entry \in Entries /\ claim[k].entry # e
    BY <1>3, ClaimRoots
<1>9. ASSUME NEW k \in Keys, Stale(k)'
      PROVE  Clean(root[claim[k].entry])'
    <2>1. Stale(k) /\ claim[k] # None /\ claim'[k] = claim[k] BY <1>7, <1>9 DEF Stale
    <2>2. root'[claim'[k].entry] = root[claim[k].entry] BY <1>4, <1>8, <2>1
    <2>3. Clean(root[claim[k].entry]) BY <2>1 DEF SentInv
    <2> QED BY <1>1, <2>2, <2>3 DEF Clean
<1>10. \A x \in Entries : dead'[x] # None => Clean(root[x])'
    BY <1>1, <1>3, <1>4 DEF SentInv, Clean
<1>11. ASSUME NEW x \in Entries, Live(x)', row'[x].status # "delivered"
       PROVE  \/ Clean(root[x])'
              \/ worker'.stage = "accepted" /\ worker'.cur = x /\ sent'[root'[x]] = 1
    <2>1. CASE x = e BY <1>1, <1>4, <1>5, <2>1 DEF Clean
    <2>2. CASE x # e
        <3>1. Live(x) /\ row[x].status # "delivered" BY <1>2, <1>6, <1>11, <2>2
        <3>2. root'[x] = root[x] BY <1>4, <2>2
        <3> QED BY <1>1, <3>1, <3>2 DEF SentInv, Clean
    <2> QED BY <2>1, <2>2
<1>12. AcceptedOnce' BY <1>1 DEF SentInv, AcceptedOnce
<1>13. \A x \in Entries : row'[x].status = "unused" => sent'[x] = 0
    BY <1>1, <1>6 DEF SentInv, Inserted
<1> QED BY <1>9, <1>10, <1>11, <1>12, <1>13 DEF SentInv

LEMMA BuriesSent ==
    ASSUME TypeOK, ClaimsInv, Bookkeeping, HolderInv, SentInv, NEW e \in Entries, Buries(e),
           UNCHANGED unsure, worker.stage # "accepted"
    PROVE  SentInv'
<1>1. UNCHANGED <<claim, root, sent, unsure>> BY DEF Buries
<1>2. /\ \A x \in Entries : x # e => dead'[x] = dead[x]
      /\ \A x \in Entries : row'[x].status = row[x].status \/ (x = e /\ row'[x].status = "gone")
      /\ Live(e) /\ row[e].status # "delivered"
    BY DEF Buries
<1>3. \A x \in Entries : Live(x)' <=> Live(x) /\ x # e BY BuriesExists
<1>4. \A k \in Keys : Stale(k)' => Stale(k) BY BuriesHolder
<1>5. \A x \in Entries : dead'[x] # None => Clean(root[x])
    BY <1>2 DEF SentInv
<1>6. \A x \in Entries : Live(x)' /\ row'[x].status # "delivered" => Clean(root[x])
    BY <1>2, <1>3 DEF SentInv
<1>7. \A k \in Keys : Stale(k)' => Clean(root[claim[k].entry]) BY <1>4 DEF SentInv
<1>8. AcceptedOnce' BY <1>1 DEF SentInv, AcceptedOnce
<1>9. \A x \in Entries : row'[x].status = "unused" => sent'[x] = 0
    BY <1>1, <1>2 DEF SentInv
<1>10. \A x \in Entries : dead'[x] # None => Clean(root[x])' BY <1>1, <1>5 DEF Clean
<1>11. \A x \in Entries : Live(x)' /\ row'[x].status # "delivered" => Clean(root[x])'
    BY <1>1, <1>6 DEF Clean
<1>12. \A k \in Keys : Stale(k)' => Clean(root[claim[k].entry])' BY <1>1, <1>7 DEF Clean
<1> QED BY <1>8, <1>9, <1>10, <1>11, <1>12 DEF SentInv

LEMMA RetriesSent ==
    ASSUME TypeOK, Bookkeeping, ClaimsInv, HolderInv, SentInv,
           NEW o \in Entries, NEW e \in Entries, NEW n \in 1..5, Retries(o, e, n)
    PROVE  SentInv'
<1>1. /\ UNCHANGED <<worker, sent, unsure>>
      /\ \A x \in Entries : root'[x] = IF x = e THEN root[o] ELSE root[x]
      /\ \A x \in Entries \ {o} : dead'[x] = dead[x]
      /\ \A x \in Entries \ {o, e} : row'[x] = row[x]
    BY DEF Retries
<1>2. dead[o] # None BY DEF Retries, RetryTarget
<1>3. /\ \A x \in Entries \ {o, e} : Live(x)' <=> Live(x)
      /\ ~Live(o)' /\ dead'[e] = None
    BY RetriesExists
<1>4. \A k \in Keys : Stale(k)' =>
        Stale(k) /\ root'[claim'[k].entry] = root[claim[k].entry]
    BY RetriesHolder
<1>5. Clean(root[o]) BY <1>2 DEF SentInv
<1>6. \A x \in Entries : dead'[x] # None => Clean(root[x])'
    BY <1>1, <1>2, <1>3 DEF SentInv, Clean
<1>7. ASSUME NEW x \in Entries, Live(x)', row'[x].status # "delivered"
      PROVE  \/ Clean(root[x])'
             \/ worker'.stage = "accepted" /\ worker'.cur = x /\ sent'[root'[x]] = 1
    <2>1. CASE x = e BY <1>1, <1>5, <2>1 DEF Clean
    <2>2. CASE x # e
        <3>1. x # o /\ Live(x) /\ row[x].status # "delivered" BY <1>1, <1>3, <1>7, <2>2
        <3>2. root'[x] = root[x] BY <1>1, <2>2
        <3> QED BY <1>1, <3>1, <3>2 DEF SentInv, Clean
    <2> QED BY <2>1, <2>2
<1>8. \A k \in Keys : Stale(k)' => Clean(root[claim[k].entry])'
    BY <1>1, <1>4 DEF SentInv, Clean
<1>9. AcceptedOnce' BY <1>1 DEF SentInv, AcceptedOnce
<1>10. \A x \in Entries : row'[x].status = "unused" => row[x].status = "unused"
    BY RetryTargetFacts DEF Retries
<1>11. \A x \in Entries : row'[x].status = "unused" => sent'[x] = 0
    BY <1>1, <1>10 DEF SentInv
<1> QED BY <1>6, <1>7, <1>8, <1>9, <1>11 DEF SentInv

\* Retention starts the count of a logical delivery anew.
LEMMA PurgesSent ==
    ASSUME TypeOK, Bookkeeping, ClaimsInv, HolderInv, SentInv,
           NEW es \in SUBSET Entries, Purges(es)
    PROVE  SentInv'
<1>1. /\ UNCHANGED <<dead, worker, root, unsure>>
      /\ \A x \in Entries : row'[x].status = IF x \in es THEN "gone" ELSE row[x].status
      /\ \A r \in Entries : sent'[r] = IF \E e \in es : root[e] = r THEN 0 ELSE sent[r]
    BY DEF Purges
<1>2. /\ \A x \in Entries : Live(x)' <=> Live(x) /\ x \notin es
      /\ \A x \in es : Live(x)
    BY PurgesExists
<1>3. \A k \in Keys : Stale(k)' =>
        /\ claim'[k] = claim[k] /\ claim[k] # None
        /\ Stale(k) \/ claim[k].entry \in es
    BY PurgesHolder
<1>4. \A r \in Entries : Clean(r) => Clean(r)' BY <1>1 DEF Clean
<1>5. ASSUME NEW x \in Entries, dead'[x] # None PROVE Clean(root[x])'
    <2>1. Holder(x) /\ Clean(root[x]) BY <1>1, <1>5 DEF Holder, SentInv
    <2>2. root[x] \in Entries BY <2>1, HolderRoots
    <2> QED BY <1>1, <2>1, <2>2 DEF Clean
<1>6. ASSUME NEW x \in Entries, Live(x)', row'[x].status # "delivered"
      PROVE  \/ Clean(root[x])'
             \/ worker'.stage = "accepted" /\ worker'.cur = x /\ sent'[root'[x]] = 1
    <2>1. Live(x) /\ row[x].status # "delivered" BY <1>1, <1>2, <1>6
    <2>2. root[x] \in Entries BY <2>1, HolderRoots DEF Holder
    <2>3. \/ Clean(root[x])
          \/ worker.stage = "accepted" /\ worker.cur = x /\ sent[root[x]] = 1
        BY <2>1 DEF SentInv
    <2> QED BY <1>1, <2>2, <2>3 DEF Clean
<1>7. ASSUME NEW k \in Keys, Stale(k)' PROVE Clean(root[claim[k].entry])'
    <2>1. /\ claim'[k] = claim[k] /\ claim[k] # None
          /\ Stale(k) \/ claim[k].entry \in es
        BY <1>3, <1>7
    <2>2. root[claim[k].entry] \in Entries BY <2>1, ClaimRoots
    <2>3. CASE Stale(k)
        <3>1. Clean(root[claim[k].entry]) BY <2>3 DEF SentInv
        <3> QED BY <1>1, <2>1, <2>2, <3>1 DEF Clean
    <2>4. CASE claim[k].entry \in es BY <1>1, <2>1, <2>2, <2>4 DEF Clean
    <2> QED BY <2>1, <2>3, <2>4
<1>8. AcceptedOnce' BY <1>1 DEF SentInv, AcceptedOnce
<1>9. \A x \in Entries : row'[x].status = "unused" => sent'[x] = 0 BY <1>1 DEF SentInv
<1> QED BY <1>5, <1>6, <1>7, <1>8, <1>9 DEF SentInv

\* The attempted row is the only holder of its logical delivery: what the
\* provider accepts was clean, and nothing else that may be sent counts on it.
LEMMA DeliverSent ==
    ASSUME QueueInv, HolderInv, SentInv, NEW accepted \in BOOLEAN, Deliver(accepted)
    PROVE  SentInv'
<1> USE DEF QueueInv
<1> DEFINE cur == worker.cur
<1>1. /\ UNCHANGED <<row, dead, claim, root, unsure>>
      /\ worker' = [worker EXCEPT !.stage = IF accepted THEN "accepted" ELSE "refused"]
      /\ worker.stage = "sending"
    BY DEF Deliver
<1>2. cur \in Entries /\ Live(cur) /\ row[cur].status = "in_flight"
    BY <1>1 DEF WorkerInv, TypeOK
<1>3. root[cur] \in Entries /\ root[root[cur]] = root[cur] /\ Holder(cur)
    BY <1>2, HolderRoots DEF Holder
<1>4. worker'.stage = (IF accepted THEN "accepted" ELSE "refused") /\ worker'.cur = cur
    BY <1>1 DEF TypeOK
<1>5. Clean(root[cur]) BY <1>1, <1>2 DEF SentInv
<1>6. sent[root[cur]] \in 0..2 BY <1>3 DEF TypeOK
<1>7. /\ \A r \in Entries : r # root[cur] => sent'[r] = sent[r]
      /\ ~accepted => sent'[root[cur]] = sent[root[cur]]
      /\ sent[root[cur]] = 0 /\ accepted => sent'[root[cur]] = 1
    BY <1>3 DEF Deliver, TypeOK
<1>8. \A e \in Entries : /\ Live(e)' <=> Live(e)
                         /\ Exists(e)' <=> Exists(e)
                         /\ Tombstoned(e)' <=> Tombstoned(e)
    BY <1>1 DEF Live, Exists, Tombstoned
<1>9. \A e \in Entries : Holder(e) /\ root[e] = root[cur] => e = cur
    BY <1>2, <1>3 DEF HolderInv, OneHolder
<1>10. ASSUME NEW r \in Entries, r # root[cur], Clean(r) PROVE Clean(r)'
    BY <1>1, <1>7, <1>10 DEF Clean
<1>11. ASSUME NEW e \in Entries, dead'[e] # None PROVE Clean(root[e])'
    <2>1. Holder(e) /\ Clean(root[e]) BY <1>1, <1>11 DEF Holder, SentInv
    <2>2. e # cur BY <1>1, <1>2, <1>11 DEF Live, Tombstoned
    <2>3. root[e] \in Entries /\ root[e] # root[cur] BY <1>9, <2>1, <2>2, HolderRoots
    <2>4. root'[e] = root[e] BY <1>1
    <2> QED BY <1>10, <2>1, <2>3, <2>4 DEF Clean
<1>12. ASSUME NEW e \in Entries, Live(e)', row'[e].status # "delivered"
       PROVE  \/ Clean(root[e])'
              \/ worker'.stage = "accepted" /\ worker'.cur = e /\ sent'[root'[e]] = 1
    <2>1. Live(e) /\ row[e].status # "delivered" BY <1>1, <1>8, <1>12
    <2>2. root'[e] = root[e] BY <1>1
    <2>3. CASE e = cur
        BY <1>1, <1>4, <1>5, <1>7, <2>2, <2>3 DEF Clean
    <2>4. CASE e # cur
        <3>1. Clean(root[e]) BY <1>1, <2>1 DEF SentInv
        <3>2. root[e] \in Entries /\ root[e] # root[cur]
            BY <1>9, <2>1, <2>4, HolderRoots DEF Holder
        <3> QED BY <1>10, <2>2, <3>1, <3>2 DEF Clean
    <2> QED BY <2>3, <2>4
<1>13. ASSUME NEW k \in Keys, Stale(k)' PROVE Clean(root[claim[k].entry])'
    <2>1. claim[k] # None BY <1>1, <1>13 DEF Stale
    <2>2. PICK x \in Entries : x = claim[k].entry BY <2>1, ClaimRoots
    <2>3. ~Exists(x)' /\ ~Tombstoned(x)' BY <1>1, <1>13, <2>1, <2>2, StaleMeans
    <2>4. Stale(k) BY <1>8, <2>1, <2>2, <2>3, StaleMeans
    <2>5. root[x] # root[cur] BY <1>2, <1>3, <2>2, <2>4, StaleAlone
    <2>6. root[x] \in Entries BY <2>1, <2>2, ClaimRoots
    <2>7. Clean(root[x]) BY <2>2, <2>4 DEF SentInv
    <2>8. claim'[k].entry = x /\ root'[x] = root[x] BY <1>1, <2>2
    <2> QED BY <1>10, <2>5, <2>6, <2>7, <2>8 DEF Clean
<1>14. ASSUME NEW r \in Entries, r \notin unsure' PROVE sent'[r] < 2
    <2>1. CASE r = root[cur]
        <3>1. sent[r] = 0 BY <1>1, <1>5, <1>14, <2>1 DEF Clean
        <3> QED BY <1>7, <2>1, <3>1
    <2>2. CASE r # root[cur] BY <1>1, <1>7, <1>14, <2>2 DEF SentInv, AcceptedOnce
    <2> QED BY <2>1, <2>2
<1>15. ASSUME NEW e \in Entries, row'[e].status = "unused" PROVE sent'[e] = 0
    <2>1. row[e].status = "unused" /\ sent[e] = 0 BY <1>1, <1>15 DEF SentInv
    <2>2. root[e] = None BY <2>1 DEF Bookkeeping
    <2>3. e # root[cur] BY <1>3, <2>2, ConstantsAssumption
    <2> QED BY <1>7, <2>1, <2>3
<1> QED BY <1>11, <1>12, <1>13, <1>14, <1>15 DEF SentInv, AcceptedOnce

\* The steps that only change the status of live rows or the worker.
LEMMA QuietSteps ==
    ASSUME QueueInv, SentInv,
           \/ \E e \in Entries : \/ RetryFailed(e) \/ MarkInFlight(e)
                                 \/ BackoffEnds(e) \/ WindowPasses(e)
           \/ \E es \in SUBSET Entries : Poll(es)
           \/ RecordDelivered \/ RecordFailed
           \/ Lifecycle
    PROVE  SentInv'
<1> USE DEF QueueInv
<1>0. row \in [Entries -> Rows] BY DEF TypeOK
<1>1. RowStep BY RowSteps DEF Lifecycle
<1>2. SUFFICES /\ UNCHANGED sent /\ unsure \subseteq unsure'
               /\ \A e \in Entries :
                     Live(e) /\ row'[e].status # "delivered" => row[e].status # "delivered"
               /\ worker.stage = "accepted" =>
                     \/ worker'.stage = "accepted" /\ worker'.cur = worker.cur
                     \/ root[worker.cur] \in unsure'
                     \/ row'[worker.cur].status = "delivered"
    BY <1>1, RowStepSent
<1>3. ASSUME NEW e \in Entries, RetryFailed(e) \/ BackoffEnds(e) \/ WindowPasses(e)
      PROVE  /\ UNCHANGED <<worker, sent, unsure>>
             /\ \A x \in Entries :
                   row'[x].status # "delivered" => row[x].status # "delivered"
    <2>1. \A x \in Entries : x # e => row'[x] = row[x]
        BY <1>0, <1>3 DEF RetryFailed, BackoffEnds, WindowPasses
    <2>2. row'[e].status = row[e].status \/ row[e].status \in {"pending", "failed"}
        <3>1. row[e] \in Rows BY <1>0
        <3>2. /\ [row[e] EXCEPT !.due = TRUE].status = row[e].status
              /\ [row[e] EXCEPT !.recent = FALSE].status = row[e].status
            BY <3>1 DEF Rows
        <3> QED BY <1>0, <1>3, <3>2 DEF RetryFailed, BackoffEnds, WindowPasses
    <2>3. UNCHANGED <<worker, sent, unsure>>
        BY <1>3 DEF RetryFailed, BackoffEnds, WindowPasses, history
    <2> QED BY <2>1, <2>2, <2>3
<1>4. ASSUME NEW e \in Entries, MarkInFlight(e)
      PROVE  /\ worker.stage = "idle" /\ UNCHANGED <<sent, unsure>>
             /\ \A x \in Entries :
                   row'[x].status # "delivered" => row[x].status # "delivered"
    <2>1. row[e].status \in {"pending", "failed"} BY <1>4 DEF MarkInFlight, WorkerInv
    <2>2. \A x \in Entries : x # e => row'[x] = row[x] BY <1>0, <1>4 DEF MarkInFlight
    <2> QED BY <1>4, <2>1, <2>2 DEF MarkInFlight, history
<1>5. ASSUME NEW es \in SUBSET Entries, Poll(es)
      PROVE  worker.stage = "idle" /\ UNCHANGED <<row, sent, unsure>>
    BY <1>5 DEF Poll, history
<1>6. ASSUME RecordDelivered
      PROVE  /\ UNCHANGED <<sent, unsure>>
             /\ row'[worker.cur].status = "delivered"
             /\ \A x \in Entries :
                   row'[x].status # "delivered" => row[x].status # "delivered"
    <2>1. worker.cur \in Entries /\ Live(worker.cur) BY <1>6 DEF RecordDelivered, WorkerInv, TypeOK
    <2>2. row' = [row EXCEPT ![worker.cur] = Attempted(row[worker.cur], "delivered", FALSE)]
        BY <1>0, <1>6, <2>1 DEF RecordDelivered, Record, Live
    <2>3. row[worker.cur] \in Rows /\ "delivered" \in Stored BY <1>0, <2>1 DEF Stored
    <2>4. Attempted(row[worker.cur], "delivered", FALSE).status = "delivered"
        BY <2>3, AttemptedFacts
    <2>5. \A x \in Entries : x # worker.cur => row'[x] = row[x] BY <1>0, <2>2
    <2>6. row'[worker.cur].status = "delivered" BY <1>0, <2>1, <2>2, <2>4
    <2> QED BY <1>6, <2>5, <2>6 DEF RecordDelivered, history
<1>7. ASSUME RecordFailed
      PROVE  /\ worker.stage = "refused" /\ UNCHANGED <<sent, unsure>>
             /\ \A x \in Entries :
                   row'[x].status # "delivered" => row[x].status # "delivered"
    <2>1. worker.cur \in Entries /\ row[worker.cur].status = "in_flight"
        BY <1>7 DEF RecordFailed, WorkerInv, TypeOK
    <2>2. \A x \in Entries : x # worker.cur => row'[x] = row[x]
        BY <1>0, <1>7 DEF RecordFailed, Record
    <2> QED BY <1>7, <2>1, <2>2 DEF RecordFailed, history
<1>8. ASSUME NEW p \in Policies, Start(p)
      PROVE  /\ worker.stage = "idle" /\ UNCHANGED <<sent, unsure>>
             /\ \A x \in Entries :
                   row'[x].status # "delivered" => row[x].status # "delivered"
    <2>1. worker.stage = "idle" BY <1>8 DEF Start, WorkerInv
    <2>2. \A x \in Entries : row'[x] = row[x] \/ row[x].status = "in_flight" BY <1>8 DEF Start
    <2> QED BY <1>8, <2>1, <2>2 DEF Start, history
<1>9. ASSUME Stop PROVE worker.stage = "idle" /\ UNCHANGED <<row, sent, unsure>>
    BY <1>9 DEF Stop, history
<1>10. ASSUME TickError \/ Crash
       PROVE  /\ UNCHANGED <<row, sent>> /\ unsure \subseteq unsure'
              /\ worker.stage = "accepted" => root[worker.cur] \in unsure'
    BY <1>10 DEF TickError, Crash, Doubt
<1> QED BY <1>3, <1>4, <1>5, <1>6, <1>7, <1>8, <1>9, <1>10 DEF Lifecycle

LEMMA SentStep ==
    ASSUME RetriesFollowed, QueueInv, HolderInv, SentInv, [Next]_vars
    PROVE  SentInv'
<1> USE DEF QueueInv
<1>1. CASE Requests BY <1>1, RequestsCases, ClaimStepSent, InsertedSent
<1>2. CASE Operator
    <2>1. ASSUME NEW e \in Entries, RetryFailed(e) PROVE SentInv'
        BY <2>1, QuietSteps
    <2>2. ASSUME NEW e \in Entries, OldBury(e) PROVE SentInv'
        <3>1. worker.stage = "idle" /\ UNCHANGED unsure BY <2>2 DEF OldBury, WorkerInv, history
        <3>2. worker.stage # "accepted" BY <3>1
        <3> QED BY <2>2, <3>1, <3>2, BurySteps, BuriesSent
    <2>3. ASSUME NEW o \in Entries, NEW e \in Entries, OldRetry(o, e) PROVE FALSE
        BY <2>3 DEF OldRetry, RetriesFollowed
    <2>4. ASSUME NEW o \in Entries, NEW e \in Entries, NEW n \in 1..5, RetryDeadLetter(o, e, n)
          PROVE  SentInv'
        BY <2>4, RetrySteps, RetriesSent
    <2>5. ASSUME NEW es \in SUBSET Entries, PurgeDelivered(es) PROVE SentInv'
        BY <2>5, PurgeSteps, PurgesSent
    <2> QED BY <1>2, <2>1, <2>2, <2>3, <2>4, <2>5 DEF Operator
<1>3. CASE Work
    <2>1. CASE MoveToDeadLetter
        <3>1. worker.stage # "accepted" /\ UNCHANGED unsure
            BY <2>1 DEF MoveToDeadLetter, history
        <3> QED BY <2>1, <3>1, BurySteps, BuriesSent
    <2>2. CASE \E accepted \in BOOLEAN : Deliver(accepted) BY <2>2, DeliverSent
    <2>3. CASE \/ \E e \in Entries : MarkInFlight(e)
               \/ \E es \in SUBSET Entries : Poll(es)
               \/ RecordDelivered \/ RecordFailed
        BY <2>3, QuietSteps
    <2> QED BY <1>3, <2>1, <2>2, <2>3 DEF Work
<1>4. CASE Lifecycle BY <1>4, QuietSteps
<1>5. CASE Time BY <1>5, QuietSteps DEF Time
<1>6. CASE UNCHANGED vars
    <2>1. RowStep /\ UNCHANGED <<row, worker, sent, unsure>>
        BY <1>6 DEF vars, history, RowStep
    <2> QED BY <2>1, RowStepSent
<1> QED BY <1>1, <1>2, <1>3, <1>4, <1>5, <1>6 DEF Next

\* The provider accepts a logical delivery at most once within its retention,
\* unless a crash or a failed write lost an earlier acknowledgement.
THEOREM AcceptedOnceUnlessUnsure ==
    ASSUME RetriesFollowed
    PROVE  Spec => []AcceptedOnce
<1>1. Init => HolderInv /\ SentInv BY HolderInit, SentInit
<1>2. QueueInv /\ HolderInv /\ SentInv /\ [Next]_vars => HolderInv' /\ SentInv'
    BY HolderStep, SentStep
<1>3. SentInv => AcceptedOnce BY DEF SentInv
<1> QED BY <1>1, <1>2, <1>3, QueueInvHolds, PTL DEF Spec

=============================================================================
