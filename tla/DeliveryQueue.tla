--------------------------- MODULE DeliveryQueue ---------------------------
(***************************************************************************)
(* The outbound delivery queue of one agent (features/delivery/queue.py):  *)
(* the queue, dead-letter and idempotency tables, the single polling       *)
(* worker, and the callers that enqueue, retry and purge.                  *)
(*                                                                         *)
(* An API call is one immediate transaction, hence one action.  A call     *)
(* that fails inside a transaction of its caller is rolled back by itself  *)
(* only on PostgreSQL; on SQLite ("joined" nesting) a caller that catches  *)
(* the error commits whatever the call did so far.  Those partial commits  *)
(* are actions of their own, allowed when Joined is TRUE.  The worker's    *)
(* statements run outside any transaction and are one action each.         *)
(*                                                                         *)
(* Recipient and content are one value, and channel_type, which the code   *)
(* compares exactly where it compares max_retries, is folded into it.      *)
(* Writers of the preceding release, which share the tables during a       *)
(* rolling deployment, appear as the external actions named Old...         *)
(*                                                                         *)
(* Operators named Mutant... are seeded faults of the definition that      *)
(* follows them; they are not part of the specification.                   *)
(***************************************************************************)
EXTENDS Naturals, FiniteSets

CONSTANTS
    Entries,    \* queue entry ids, each used at most once
    Keys,       \* idempotency keys
    Contents,   \* recipient and message content
    Policies,   \* values of max_retries
    Requested,  \* what callers pass for it: a policy or Omitted
    Omitted,    \* the caller left max_retries out
    None,       \* NULL
    Unissued,   \* an id drawn for a row that was then not inserted
    BatchSize,  \* batch_size
    OldWriters, \* what writers of the preceding release do
    Joined,     \* partial commits of failed nested calls are possible
    MaxFaults   \* bound on crashes, failures, partial commits and old writes

ASSUME ConstantsAssumption ==
    /\ Policies \subseteq Nat
    /\ Omitted \notin Policies
    /\ Requested \subseteq Policies \union {Omitted}
    /\ None \notin Policies \union Entries \union Contents \union {Unissued}
    /\ BatchSize \in Nat \ {0}
    /\ OldWriters \subseteq {"enqueue", "bury", "retry"}
    /\ Joined \in BOOLEAN
    /\ MaxFaults \in Nat

VARIABLES
    row,      \* delivery_queue
    dead,     \* delivery_dead_letter, by original_id
    claim,    \* delivery_idempotency
    default,  \* the running process's configured max_retries
    worker,   \* the polling task
    root,     \* history: the first entry of a logical delivery
    sent,     \* history: times the provider accepted it, since its retention
    unsure,   \* history: accepted, but the acknowledgement was not recorded
    expired,  \* history: delivered and past its retention
    faults    \* crashes, failed statements and partial commits so far

history == <<root, sent, unsure, expired>>
vars == <<row, dead, claim, default, worker, root, sent, unsure, expired, faults>>

-----------------------------------------------------------------------------

Stored == {"pending", "in_flight", "failed", "delivered"}

\* `reserved': named by a dead letter's retry_entry_id, not inserted yet.
Rows == [status : Stored \union {"unused", "reserved", "gone"},
         content : Contents \union {None},
         policy : Policies \union {None}, attempts : Nat,
         due : BOOLEAN, recent : BOOLEAN]

\* `older': the rows created before the claim's created_at.
Claims == [entry : Entries, content : Contents, requested : Requested,
           policy : Policies \union {None}, previous : Entries \union {None, Unissued},
           older : SUBSET Entries]

Letters == [retry : Entries \union {None}, policy : Policies \union {None}]

\* NULL is no row of a table.
ASSUME NoneAssumption == None \notin Claims /\ None \notin Letters

UnusedRow == [status |-> "unused", content |-> None, policy |-> None,
              attempts |-> 0, due |-> FALSE, recent |-> FALSE]

NewRow(content, policy) ==
    [status |-> "pending", content |-> content, policy |-> policy,
     attempts |-> 0, due |-> TRUE, recent |-> TRUE]

Exists(e) == row[e].status \in Stored
Present == {e \in Entries : Exists(e)}

\* A dead letter names the entry as its original_id or its retry_entry_id.
Tombstoned(e) ==
    \/ dead[e] # None
    \/ \E o \in Entries : dead[o] # None /\ dead[o].retry = e

Live(e) == Exists(e) /\ ~Tombstoned(e)

MutantEffectiveAsGiven(requested) == requested

Effective(requested) == IF requested = Omitted THEN default ELSE requested

\* _find_recent_duplicate: rows of the same content inside the window; any of
\* them stands for the most recent one.
Duplicates(content, policies) ==
    {e \in Entries : /\ Live(e) /\ row[e].recent
                     /\ row[e].content = content /\ row[e].policy \in policies}

\* _find_replacement_for_prior_entry
Replacements(c, old) ==
    {e \in Entries :
        /\ Live(e) /\ row[e].content = c.content /\ row[e].policy = c.policy
        /\ \E k \in Keys :
              claim[k] # None /\ claim[k].entry = e /\ claim[k].previous = old}

MutantUnlinkedNever(c) == FALSE

\* _has_unlinked_compatible_queue_row
UnlinkedRow(c) ==
    \E e \in Entries \ c.older :
        /\ Live(e) /\ row[e].content = c.content /\ row[e].policy = c.policy
        /\ \A k \in Keys : claim[k] = None \/ claim[k].entry # e

Fault == faults < MaxFaults /\ faults' = faults + 1

\* Every claim on entry `old' follows it to entry `new'.
Moved(old, new) ==
    [k \in Keys |->
        IF claim[k] # None /\ claim[k].entry = old
        THEN [claim[k] EXCEPT !.entry = new, !.previous = old, !.older = Present]
        ELSE claim[k]]

\* A new row, the first of a logical delivery or the next one of `parent'.
Insert(e, content, policy) == row' = [row EXCEPT ![e] = NewRow(content, policy)]
Begin(e) == root' = [root EXCEPT ![e] = e] /\ UNCHANGED <<sent, unsure, expired>>

\* `left' is history: rows this worker left in flight after a failed write.
Idle == [up |-> FALSE, todo |-> {}, cur |-> None, stage |-> "idle", left |-> {}]

Init ==
    /\ row = [e \in Entries |-> UnusedRow]
    /\ dead = [e \in Entries |-> None]
    /\ claim = [k \in Keys |-> None]
    /\ default \in Policies
    /\ worker = Idle
    /\ root = [e \in Entries |-> None]
    /\ sent = [e \in Entries |-> 0]
    /\ unsure = {}
    /\ expired = {}
    /\ faults = 0

-----------------------------------------------------------------------------
(* Enqueue.                                                                *)

\* enqueue without a key: a duplicate inside the window is returned as it is.
Enqueue(e, content, requested) ==
    /\ row[e].status = "unused"
    /\ Duplicates(content, Policies) = {}
    /\ Insert(e, content, Effective(requested))
    /\ Begin(e)
    /\ UNCHANGED <<dead, claim, default, worker, faults>>

NewClaim(e, content, requested, previous) ==
    [entry |-> e, content |-> content, requested |-> requested,
     policy |-> Effective(requested), previous |-> previous, older |-> Present]

\* _enqueue_idempotent with a new key and no compatible duplicate.  Failing
\* half-way undoes claim and row (the compensation trigger).
EnqueueNewKey(k, e, content, requested) ==
    /\ claim[k] = None
    /\ row[e].status = "unused"
    /\ Duplicates(content, {Effective(requested)}) = {}
    /\ claim' = [claim EXCEPT ![k] = NewClaim(e, content, requested, None)]
    /\ Insert(e, content, Effective(requested))
    /\ Begin(e)
    /\ UNCHANGED <<dead, default, worker, faults>>

\* With a duplicate of the same policy, the claim moves from its candidate id
\* to that row.
AdoptNewKey(k, content, requested) ==
    /\ claim[k] = None
    /\ \E d \in Duplicates(content, {Effective(requested)}) :
          claim' = [claim EXCEPT ![k] = NewClaim(d, content, requested, Unissued)]
    /\ UNCHANGED <<row, dead, default, worker, history, faults>>

\* The key names this very request (its payload_digest) and no dead letter.
Replayable(k, content, requested) ==
    /\ claim[k] # None
    /\ claim[k].content = content /\ claim[k].requested = requested
    /\ ~Tombstoned(claim[k].entry)

\* Replay while the row exists: adopt it, and learn a legacy claim's policy
\* unless an anchor shows that the row was made for another claim.
ReplayLive(k, content, requested) ==
    /\ Replayable(k, content, requested)
    /\ Exists(claim[k].entry)
    /\ claim[k].policy = None /\ claim[k].previous = None
    /\ claim' = [claim EXCEPT ![k].policy = row[claim[k].entry].policy]
    /\ UNCHANGED <<row, dead, default, worker, history, faults>>

\* The row is gone: the claim is stale and must have kept its policy.
StaleClaim(k, content, requested) ==
    /\ Replayable(k, content, requested)
    /\ ~Exists(claim[k].entry)
    /\ claim[k].policy # None

\* Stale repair by adoption: of a recent duplicate, or of the one replacement
\* another claim on the same prior entry has already got.
ReplayAdopts(k, content, requested) ==
    /\ StaleClaim(k, content, requested)
    /\ LET old == claim[k].entry
           duplicates == Duplicates(content, {claim[k].policy})
           replacements == Replacements(claim[k], old)
       IN \E e \in IF duplicates # {} THEN duplicates ELSE replacements :
             /\ duplicates # {} \/ Cardinality(replacements) = 1
             /\ claim' = Moved(old, e)
    /\ UNCHANGED <<row, dead, default, worker, history, faults>>

MayRecreate(k, content, requested) ==
    /\ StaleClaim(k, content, requested)
    /\ Duplicates(content, {claim[k].policy}) = {}
    /\ Replacements(claim[k], claim[k].entry) = {}
    /\ ~UnlinkedRow(claim[k])

\* Stale repair by re-creation under the stored policy.
ReplayRecreates(k, e, content, requested) ==
    /\ MayRecreate(k, content, requested)
    /\ row[e].status = "unused"
    /\ claim' = Moved(claim[k].entry, e)
    /\ Insert(e, content, claim[k].policy)
    /\ root' = [root EXCEPT ![e] = root[claim[k].entry]]
    /\ expired' = expired \ {root[claim[k].entry]}
    /\ UNCHANGED <<dead, default, worker, sent, unsure, faults>>

\* Its failure, compensated: the row goes, and each claim that had followed it
\* (the caller's own, or all) returns to the prior entry without its anchor
\* and with its new created_at.
RecreateCompensated(k, content, requested) ==
    /\ Joined /\ Fault
    /\ MayRecreate(k, content, requested)
    /\ \E ks \in {{k}, {j \in Keys : claim[j] # None
                                     /\ claim[j].entry = claim[k].entry}} :
          claim' = [j \in Keys |->
                      IF j \in ks
                      THEN [claim[j] EXCEPT !.previous = None, !.older = Present]
                      ELSE claim[j]]
    /\ UNCHANGED <<row, dead, default, worker, history>>

-----------------------------------------------------------------------------
(* Dead letters, manual retry and retention.                               *)

\* move_to_dead_letter writes the tombstone before it deletes the row.
Buried(e) ==
    IF Tombstoned(e) THEN dead
    ELSE [dead EXCEPT ![e] = [retry |-> None, policy |-> row[e].policy]]

\* A deleted row; its content and policy live on in its dead letter.
Deleted(es) ==
    [e \in Entries |->
        IF e \in es /\ Exists(e)
        THEN [row[e] EXCEPT !.status = "gone", !.attempts = 0,
                            !.due = FALSE, !.recent = FALSE]
        ELSE row[e]]

\* _retry_entry on a queue row.
RetryFailed(e) ==
    /\ Live(e)
    /\ row[e].status \in {"pending", "failed"}
    /\ row' = [row EXCEPT ![e].status = "pending", ![e].due = TRUE]
    /\ UNCHANGED <<dead, claim, default, worker, history, faults>>

LedgerPolicies(o) ==
    {claim[k].policy : k \in {j \in Keys : /\ claim[j] # None
                                           /\ claim[j].entry = o
                                           /\ claim[j].policy # None}}

MutantRetryPolicyIsDefault(o) ==
    IF dead[o].policy # None THEN dead[o].policy ELSE default

\* The ledger's policy, else the dead letter's, else the configured one.
RetryPolicy(o) ==
    IF LedgerPolicies(o) # {} THEN CHOOSE p \in LedgerPolicies(o) : TRUE
    ELSE IF dead[o].policy # None THEN dead[o].policy ELSE default

\* The statements of _retry_entry on a dead letter, each as the tables they
\* leave: name the retry row, delete a residual original, insert the retry
\* row, move the claims, and only then delete the dead letter.
MutantRetryKeepsOriginal(o, e, n) ==
    IF n >= 3 /\ ~Exists(e)
    THEN [row EXCEPT ![e] = NewRow(row[o].content, RetryPolicy(o))]
    ELSE IF row[e].status = "unused"
         THEN [row EXCEPT ![e].status = "reserved"] ELSE row

RetryRows(o, e, n) ==
    LET kept == IF n >= 2 /\ e # o THEN Deleted({o}) ELSE row
    IN IF n >= 3 /\ ~Exists(e)
       THEN [kept EXCEPT ![e] = NewRow(row[o].content, RetryPolicy(o))]
       ELSE IF row[e].status = "unused"
            THEN [kept EXCEPT ![e].status = "reserved"] ELSE kept

RetryClaims(o, e, n) ==
    [k \in Keys |->
        IF n >= 4 /\ claim[k] # None /\ claim[k].entry = o
        THEN [claim[k] EXCEPT
                !.entry = e, !.older = Present,
                !.previous = IF @ = None THEN o ELSE @,
                !.policy = IF @ = None THEN RetryPolicy(o) ELSE @]
        ELSE claim[k]]

MutantRetryDeadFirst(o, e, n) ==
    [dead EXCEPT ![o] = IF n >= 1 THEN None ELSE [@ EXCEPT !.retry = e]]

RetryDead(o, e, n) ==
    [dead EXCEPT ![o] = IF n >= 5 THEN None ELSE [@ EXCEPT !.retry = e]]

\* _retry_entry on a dead letter, complete (n = 5) or cut after statement n.
\* An interrupted retry left its id in retry_entry_id and is resumed with it.
RetryDeadLetter(o, e, n) ==
    /\ dead[o] # None
    /\ IF dead[o].retry = None THEN row[e].status = "unused" ELSE e = dead[o].retry
    /\ Cardinality(LedgerPolicies(o)) <= 1
    /\ row' = RetryRows(o, e, n)
    /\ claim' = RetryClaims(o, e, n)
    /\ dead' = RetryDead(o, e, n)
    /\ root' = [root EXCEPT ![e] = root[o]]
    /\ IF n = 5 THEN UNCHANGED faults ELSE Joined /\ Fault
    /\ UNCHANGED <<default, worker, sent, unsure, expired>>

\* Deleting delivered rows ends the replay-safety window of what they delivered.
Expire(es) ==
    /\ row' = Deleted(es)
    /\ expired' = expired \union {root[e] : e \in es}
    /\ sent' = [r \in Entries |-> IF \E e \in es : root[e] = r THEN 0 ELSE sent[r]]
    /\ UNCHANGED <<root, unsure>>

Delivered == {e \in Entries : row[e].status = "delivered"}

\* purge_delivered: the rows delivered before some moment, then their claims.
PurgeDelivered(es) ==
    /\ es # {} /\ es \subseteq Delivered
    /\ Expire(es)
    /\ \/ /\ claim' = [k \in Keys |->
                        IF claim[k] # None /\ claim[k].entry \in es
                        THEN None ELSE claim[k]]
          /\ UNCHANGED faults
       \/ Joined /\ Fault /\ UNCHANGED claim
    /\ UNCHANGED <<dead, default, worker>>

-----------------------------------------------------------------------------
(* The worker.                                                             *)

MutantStartWithoutReclaim(policy) ==
    /\ ~worker.up
    /\ worker' = [Idle EXCEPT !.up = TRUE]
    /\ default' = policy
    /\ UNCHANGED <<row, dead, claim, history, faults>>

\* start: the schema, then the rows a dead worker left in flight.
Start(policy) ==
    /\ ~worker.up
    /\ worker' = [Idle EXCEPT !.up = TRUE]
    /\ default' = policy
    /\ row' = [e \in Entries |->
                 IF Live(e) /\ row[e].status = "in_flight"
                 THEN [row[e] EXCEPT !.status = "pending", !.due = TRUE]
                 ELSE row[e]]
    /\ UNCHANGED <<dead, claim, history, faults>>

\* stop lets the attempt in progress finish and gives up the rest of its batch.
Stop ==
    /\ worker.up /\ worker.stage = "idle"
    /\ worker' = Idle
    /\ UNCHANGED <<row, dead, claim, default, history, faults>>

MutantReadyIgnoresTombstones(e) == row[e].status \in {"pending", "failed"} /\ row[e].due

Ready(e) == Live(e) /\ row[e].status \in {"pending", "failed"} /\ row[e].due

\* process_pending: one batch of due rows, read outside any transaction.
Poll(es) ==
    /\ worker.up /\ worker.stage = "idle" /\ worker.todo = {}
    /\ es # {}
    /\ \A e \in es : Ready(e)
    /\ LET ready == Cardinality({e \in Entries : Ready(e)})
       IN Cardinality(es) = IF ready < BatchSize THEN ready ELSE BatchSize
    /\ worker' = [worker EXCEPT !.todo = es]
    /\ UNCHANGED <<row, dead, claim, default, history, faults>>

\* _attempt_delivery marks the row whatever became of it since the poll.
MarkInFlight(e) ==
    /\ worker.stage = "idle"
    /\ e \in worker.todo
    /\ row' = [row EXCEPT ![e].status = IF Exists(e) THEN "in_flight" ELSE @]
    /\ worker' = [worker EXCEPT !.todo = @ \ {e}, !.cur = e, !.stage = "sending"]
    /\ UNCHANGED <<dead, claim, default, history, faults>>

\* The provider accepts the message, or refuses it (or raises).
Deliver(accepted) ==
    /\ worker.stage = "sending"
    /\ worker' = [worker EXCEPT !.stage = IF accepted THEN "accepted" ELSE "refused"]
    /\ sent' = IF accepted
               THEN [sent EXCEPT ![root[worker.cur]] = IF @ < 2 THEN @ + 1 ELSE 2]
               ELSE sent
    /\ UNCHANGED <<row, dead, claim, default, root, unsure, expired, faults>>

Finish(w) == [w EXCEPT !.cur = None, !.stage = "idle"]

Attempted(r, status, due) == [r EXCEPT !.status = status, !.attempts = @ + 1, !.due = due]

\* An UPDATE of the attempted row, if it is still there.
Record(status, due) ==
    row' = [row EXCEPT ![worker.cur] =
              IF Exists(worker.cur) THEN Attempted(@, status, due) ELSE @]

RecordDelivered ==
    /\ worker.stage = "accepted"
    /\ Record("delivered", FALSE)
    /\ worker' = Finish(worker)
    /\ UNCHANGED <<dead, claim, default, history, faults>>

Exhausted(e) == row[e].attempts + 1 >= row[e].policy

\* A refused attempt is scheduled again with backoff; the last one keeps its
\* due date and goes on to the dead letters, in a transaction of its own.
RecordFailed ==
    /\ worker.stage = "refused"
    /\ IF Exhausted(worker.cur)
       THEN /\ Record("failed", row[worker.cur].due)
            /\ worker' = [worker EXCEPT !.stage = "burying"]
       ELSE /\ Record("failed", FALSE)
            /\ worker' = Finish(worker)
    /\ UNCHANGED <<dead, claim, default, history, faults>>

\* move_to_dead_letter, complete or cut before its final DELETE.
MoveToDeadLetter ==
    /\ worker.stage = "burying"
    /\ dead' = IF Exists(worker.cur) THEN Buried(worker.cur) ELSE dead
    /\ \/ row' = Deleted({worker.cur}) /\ UNCHANGED faults
       \/ Joined /\ Fault /\ UNCHANGED row
    /\ worker' = Finish(worker)
    /\ UNCHANGED <<claim, default, history>>

\* What an interrupted attempt leaves in doubt.
Doubt == IF worker.stage = "accepted" THEN {root[worker.cur]} ELSE {}

\* A failed statement: the tick is logged and its batch given up.  (An ordinary
\* exception of the provider is a refusal, see Deliver.)
TickError ==
    /\ worker.stage # "sending"
    /\ worker.stage # "idle" \/ worker.todo # {}
    /\ Fault
    /\ worker' = [Finish(worker) EXCEPT
                     !.todo = {},
                     !.left = IF worker.stage \in {"accepted", "refused"}
                              THEN @ \union {worker.cur} ELSE @]
    /\ unsure' = unsure \union Doubt
    /\ UNCHANGED <<row, dead, claim, default, root, sent, expired>>

\* The process dies, or an execution-control error (the database's or the
\* provider's) leaves _loop, which ends the worker the same way.
Crash ==
    /\ worker.up
    /\ Fault
    /\ worker' = Idle
    /\ unsure' = unsure \union Doubt
    /\ UNCHANGED <<row, dead, claim, default, root, sent, expired>>

-----------------------------------------------------------------------------
(* Time, and writers of the preceding release.                             *)

BackoffEnds(e) ==
    /\ Exists(e) /\ row[e].status = "failed" /\ ~row[e].due
    /\ row' = [row EXCEPT ![e].due = TRUE]
    /\ UNCHANGED <<dead, claim, default, worker, history, faults>>

WindowPasses(e) ==
    /\ Exists(e) /\ row[e].recent
    /\ row' = [row EXCEPT ![e].recent = FALSE]
    /\ UNCHANGED <<dead, claim, default, worker, history, faults>>

\* Its claims carry no effective_max_retries.
OldEnqueue(k, e, content, requested, policy) ==
    /\ "enqueue" \in OldWriters /\ Fault
    /\ claim[k] = None
    /\ row[e].status = "unused"
    /\ requested \in {Omitted, policy}
    /\ Duplicates(content, Policies) = {}
    /\ claim' = [claim EXCEPT ![k] =
                   [NewClaim(e, content, requested, None) EXCEPT !.policy = None]]
    /\ Insert(e, content, policy)
    /\ Begin(e)
    /\ UNCHANGED <<dead, default, worker>>

\* Its dead letters carry no max_retries.
OldBury(e) ==
    /\ "bury" \in OldWriters /\ Fault
    /\ ~worker.up
    /\ Live(e) /\ row[e].status = "failed"
    /\ dead' = [dead EXCEPT ![e] = [retry |-> None, policy |-> None]]
    /\ row' = Deleted({e})
    /\ UNCHANGED <<claim, default, worker, history>>

\* Its retry consumes the dead letter and leaves the claims where they are.
OldRetry(o, e) ==
    /\ "retry" \in OldWriters /\ Fault
    /\ dead[o] # None /\ dead[o].retry = None /\ ~Exists(o)
    /\ row[e].status = "unused"
    /\ dead' = [dead EXCEPT ![o] = None]
    /\ Insert(e, row[o].content, row[o].policy)
    /\ root' = [root EXCEPT ![e] = root[o]]
    /\ UNCHANGED <<claim, default, worker, sent, unsure, expired>>

-----------------------------------------------------------------------------

Requests ==
    \E content \in Contents, requested \in Requested :
        \/ \E e \in Entries : Enqueue(e, content, requested)
        \/ \E k \in Keys :
              \/ AdoptNewKey(k, content, requested)
              \/ ReplayLive(k, content, requested)
              \/ ReplayAdopts(k, content, requested)
              \/ RecreateCompensated(k, content, requested)
              \/ \E e \in Entries :
                    \/ EnqueueNewKey(k, e, content, requested)
                    \/ ReplayRecreates(k, e, content, requested)
                    \/ \E p \in Policies : OldEnqueue(k, e, content, requested, p)

Operator ==
    \/ \E e \in Entries : RetryFailed(e) \/ OldBury(e)
    \/ \E o, e \in Entries :
          OldRetry(o, e) \/ \E n \in 1..5 : RetryDeadLetter(o, e, n)
    \/ \E es \in SUBSET Entries : PurgeDelivered(es)

Work ==
    \/ \E es \in SUBSET Entries : Poll(es)
    \/ \E e \in Entries : MarkInFlight(e)
    \/ \E accepted \in BOOLEAN : Deliver(accepted)
    \/ RecordDelivered \/ RecordFailed \/ MoveToDeadLetter

Lifecycle ==
    \/ \E p \in Policies : Start(p)
    \/ Stop \/ TickError \/ Crash

Time == \E e \in Entries : BackoffEnds(e) \/ WindowPasses(e)

Next == Requests \/ Operator \/ Work \/ Lifecycle \/ Time

Spec == Init /\ [][Next]_vars

\* The polling loop runs on, the provider answers, and backoffs end.
Fairness ==
    /\ WF_vars(\E es \in SUBSET Entries : Poll(es))
    /\ WF_vars(\E e \in Entries : MarkInFlight(e))
    /\ WF_vars(\E accepted \in BOOLEAN : Deliver(accepted))
    /\ WF_vars(RecordDelivered)
    /\ WF_vars(RecordFailed)
    /\ WF_vars(MoveToDeadLetter)
    /\ \A e \in Entries : WF_vars(BackoffEnds(e))

FairSpec == Spec /\ Fairness

-----------------------------------------------------------------------------

TypeOK ==
    /\ row \in [Entries -> Rows]
    /\ dead \in [Entries -> {None} \union Letters]
    /\ claim \in [Keys -> {None} \union Claims]
    /\ default \in Policies
    /\ worker \in [up : BOOLEAN, todo : SUBSET Entries,
                   cur : Entries \union {None},
                   stage : {"idle", "sending", "accepted", "refused", "burying"},
                   left : SUBSET Entries]
    /\ root \in [Entries -> Entries \union {None}]
    /\ sent \in [Entries -> 0..2]
    /\ unsure \subseteq Entries
    /\ expired \subseteq Entries
    /\ faults \in 0..MaxFaults

(***************************************************************************)
(* A logical delivery never has two rows that could both be delivered,      *)
(* however retries, stale-claim repairs and partial commits interleave      *)
(* ("prevents both payload loss ... and duplicate live rows when operators  *)
(* race").  With one key this includes older writers' retries; with two it  *)
(* does not (a row another key has adopted no longer looks unlinked).       *)
(***************************************************************************)
OneLiveRow ==
    \A e1, e2 \in Entries :
        Live(e1) /\ Live(e2) /\ root[e1] = root[e2] => e1 = e2

(***************************************************************************)
(* An accepted message is never lost: until its retention ends it has a     *)
(* queue row or a dead letter, also between the statements of an            *)
(* interrupted dead-letter move or retry.                                   *)
(***************************************************************************)
NothingLost ==
    \A r \in Entries :
        root[r] = r /\ r \notin expired =>
            \E e \in Entries : root[e] = r /\ (Exists(e) \/ dead[e] # None)

(***************************************************************************)
(* The provider accepts a logical delivery at most once within its          *)
(* retention, unless a crash or a failed write lost the acknowledgement of  *)
(* an earlier acceptance (_reclaim_in_flight: at-least-once only then).     *)
(***************************************************************************)
AcceptedOnce == \A r \in Entries : r \notin unsure => sent[r] < 2

(***************************************************************************)
(* A keyed delivery keeps the effective retry policy of the request that    *)
(* made the claim, through dead letters, retries and stale repairs in       *)
(* processes with other defaults (stored_retries, ledger_policy).  Where    *)
(* older writers left the policy out of both the ledger and the dead        *)
(* letter, a retry that is cut and resumed may take it from two processes.  *)
(***************************************************************************)
PolicyKept ==
    \A k \in Keys :
        claim[k] # None /\ claim[k].policy # None /\ Exists(claim[k].entry) =>
            row[claim[k].entry].policy = claim[k].policy

(***************************************************************************)
(* Once the worker stays up, every undelivered row is delivered or dead-    *)
(* lettered, also after crashes in the middle of an attempt.  The exception *)
(* is a row whose settlement could not be written: it stays in flight, out  *)
(* of reach of the poll and of retry, as long as this worker runs (only     *)
(* start reclaims it).                                                      *)
(***************************************************************************)
EveryRowSettles ==
    <>[](worker.up) =>
        \A e \in Entries :
            Live(e) /\ row[e].status # "delivered" ~>
                \/ ~Live(e) \/ row[e].status = "delivered"
                \/ [](e \in worker.left)

=============================================================================
