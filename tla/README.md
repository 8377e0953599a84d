# Verification of Kestrel Sovereign's delivery, lease and wake machinery

Kestrel Sovereign (`src/kestrel_sovereign`, Python) is a framework for
long-running AI agents.  Most of it is adapters, prompts and stores around a
language model.  Its own hard logic is in the parts that promise something
across processes, crashes and time: a signal that was accepted wakes its
consumers, an outbound message is delivered once, leased capacity is not used
after its release, a revoked callback gets no more requests, the end of
asynchronous work wakes the agent once.  This project models those parts in TLA+, checks them with
TLC and proves what matters most with TLAPS.

Every definition is translated from the code; `PROJECT.json` maps each one to
its lines.

## 1. Inventory

### Parts modelled

**Source sequence counter** (`signals/durable.py`).  Every event of an
(agent, source) scope gets a commit number.  The counter is stored three times
(primary, recovery, high-water) with a marker that the scope was used.  Every
transaction that needs it repairs the copies from their maximum or refuses.
*Operations:* commit an event, capture a boundary, purge, retire history,
bootstrap after tables were lost.  *Hard:* partial row loss, a stale backup,
dropped tables, retention removing the last evidence, the 2^63-1 limit.
*Correct when:* no number is issued twice, a captured boundary separates earlier
from later events for ever, losing one row never stops ingress.

**Durable signal ledger and its dispatchers** (`signals/durable.py`,
`signals/dispatcher.py`).  Tables of consumers, events, deliveries and runtime
owners; one delivery row per (consumer, event) moves through
pending / initial_reserved / leased / retry to acknowledged / failed /
terminal_ackable.  Dispatcher processes ("generations") own a heartbeat row,
reserve the first lease of events whose payload is not stored, claim deliveries,
run a cognition turn and settle it; public executors do the same through the API
with nothing but a token.  *Interaction:* all processes share the tables;
within one the claims, turns, retained tasks and cleanup debts are in memory and
vanish with it.  *Hard:* a lease deadline passing under a live turn, a heartbeat
lapsing, Hold engaging between two checks, a settlement whose outcome is
unknown, crash and shutdown at any point, registration racing ingress.
*Correct when:* a live owner keeps its row, turns of one delivery do not
overlap, the attempt budget holds, nobody misses an event, terminal means
terminal, and every open delivery is settled eventually.

**Outbound delivery queue** (`features/delivery/queue.py`).  A queue table, a
dead-letter table and an idempotency ledger.  *Operations:* enqueue with
short-window content deduplication, enqueue under an idempotency key with repair
of stale claims, the polling worker (poll, mark, send, record, dead-letter),
manual retry, purge, start and stop.  *Hard:* a failed call inside a caller's
SQLite transaction is committed half-way; a crash between the provider's
acceptance and its record; restarts with another default policy; writers of the
preceding release during a rolling deployment.  *Correct when:* one live row per
logical delivery, no payload lost, no second acceptance without a lost
acknowledgement, a key keeps its retry policy, every row settles.

**Inference leases and the private route** (`llm/inference_leases.py`,
`llm/remote_backend.py`).  An agent leases private inference capacity.  A
coordinator keeps one record (planned, pending, ready, releasing, ended), saves
it, and activates one route in the LLM service; calls select the route, renew
the lease, pin the route and use it.  *Interaction:* the coordinator's
operations hold one lock, the route has a condition of its own, a renewing call
goes through both.  *Hard:* a release or a credential swap between a call's
renewal and its pin; a drain that waits for calls under the lock those calls
need; a crash or a failed save around the billable call; a provider that changes
its mind.  *Correct when:* no call runs on released capacity, an ended lease is
never revived, one lease is billed at a time, nobody waits for ever.

**A2A push delivery** (`a2a/push_outbox.py`, `push_worker.py`,
`push_transport.py` and their stores).  A callback registration is an immutable
generation with a durable consumer and a boundary in the journal of task
changes, which a trigger writes.  Resident workers forward journal rows, claim
the deliveries, POST the current task and settle.  *Interaction:* all processes
share the tables; the deliveries are rows of the durable signal ledger.  *Hard:*
revocation racing the admission of a POST, a task that ends between the read and
the acknowledgement, a lease lost during a POST, a connection that cannot be
closed, the exit of a process with a POST under way.  *Correct when:* no change
is lost, the terminal state arrives, and credentials are forgotten once, and only
once, no request with them is open.

**Wait reconciler** (`waits/reconciler.py`, `storage/async_wait_signal_store.py`).
A ledger row per handle of asynchronous work: the token of the event told, the
one in flight, attempts, and a watch with the baseline it was armed over.  Two
drivers run ticks that harvest dispatched wakes, poll the provider and decide
whether the terminal event is news.  *Hard:* overlapping drivers, a crash with
a wake in flight, watches registered inside the wake's own turn, events
re-labelled or read through another view, re-runs that look like the run before.
*Correct when:* no event is told twice, every event is told or given up, and a
parked resume consumer is watched.

### Parts not modelled yet

Dispatcher resource locks, outcome custody, stop invocations and receipts, the
stop circuit, Hold's own persistence, the generation gate, blocking waits, A2A
task history, spawn and delegated wallets, the scheduler, the restart
coordinator, storage synchronisation, request lifecycle, execution custody,
multi-agent supervision and fleet.  They hold state worth modelling; the plan
(section 7) orders them.  Privacy, identity, constitution and knowledge layers,
LLM adapters, endpoints and UI are data formats and I/O, out of a model
checker's reach.  `PROJECT.json` lists each with its reason.

The hazards of the modelled code (orders nobody tests, crashes between two
statements, limits, waiting that must end) are listed in `PROJECT.json`, each
at its line with the properties that would catch it.

## 2. Modules

| Module | Models | State |
|---|---|---|
| `SourceSequence` | the counter of one scope | three copies, marker, retained events, each event's number |
| `SourceSequence_proofs` | its theorems | |
| `DurableSignals` | ledger, dispatchers and executors | consumers, events, delivery rows, owner rows, process phases, lease holders, Hold |
| `DurableSignals_proofs` | its theorems | |
| `DurableTurns_proofs` | theorems on ownership and budget | |
| `DeliveryQueue` | queue, dead letters, idempotency ledger, worker | one record per row, dead letter and claim; the worker's stage |
| `DeliveryQueue_proofs` | its theorems | |
| `Drain` | abstract: taking a shared resource away | a phase and the users of each resource |
| `Drain_proofs` | its theorem | |
| `InferenceLease` | coordinator, route and calls | saved and current record, the provider's leases, the operation under the lock, route, calls |
| `InferenceLease_proofs` | its theorems, its refinement of `Drain` included | |
| `PushOutbox` | generations of one callback of one task | journal, configurations, consumers, deliveries, the delivery each worker runs |
| `PushOutbox_proofs` | theorems on revocation and on owed changes | |
| `WaitReconciler` | wakes of one handle | ledger row, wake in flight, stage of each driver, resume consumer |
| `WaitReconciler_proofs` | its theorems | |
| `MC...` | symmetry sets and function-valued constants for TLC | |

Operators named `Mutant...` are seeded faults of the definition that follows
them.  They are not part of any specification: for each property one of them
shows that a plausible bug would be found.

### How actions correspond to code

*Transactions are atomic.*  In `DurableSignals` and `SourceSequence` an action
is one store transaction with the bookkeeping done on its result.  Every
transaction that creates or claims deliveries holds the scope's handoff lock
(SQLite: the writer slot), so they do not overlap.  In `DeliveryQueue` an API
call is one immediate transaction, but the worker's statements run outside any
transaction and are one action each, and the partial commits that a caught error
leaves behind on SQLite are actions of their own.

*Time is what the code compares.*  A lease is live or past its deadline, a
heartbeat fresh or stale, a retry due or not, a row inside the deduplication
window or not.  Each may change at any moment, so no relation between configured
durations is assumed.  Renewing a lease is therefore no step: a lease that was
renewed is one that has not expired yet.

*Names.*  Actions carry the names of the store's methods (`PersistSignal`,
`ClaimDelivery`, `RecoverAbandonedLeases`, `MoveToDeadLetter`).  What a process
does between transactions is the `phase` of its lease: reserved, first, claimed,
begun, running, debt.

*History variables* record what properties talk about and the code does not
store: numbers ever issued, executions begun, the events that preceded a
registration, the first entry of a logical delivery, acceptances by the
provider.

*Await by await.*  `InferenceLease`, `PushOutbox` and `WaitReconciler` are about
asyncio code: an action is what happens between two awaits, or one awaited call
with the assignments that follow it without another await.  A lock is a guard
(`op = None`, `Unlocked`), so whatever the code may do while another task holds
it, the model may do too.

*The abstract specification.*  `Drain` says what taking a resource away means:
users enter only while it is open, nobody enters once it is shut, it is gone only
when unused.  Two components implement it, each checked as a refinement with
`INSTANCE ... WITH`: the route of a lease, whose users are pinned calls
(`RouteDrains`), and a push generation, whose users are admitted POSTs
(`RevocationDrains`).  A route lives in memory and may open again (`Volatile`), a
generation is durable and may not.

*External parts:* the inference provider (idempotent by request id, may answer
wrongly or lose an answer), the callback's answer, the exit of a process, the
work behind a handle and how its provider names it, the turn of a wake, the provider that accepts or refuses a message, the loss of
database rows, and writers of the preceding release.  The last are limited to
what the code's compatibility branches answer: a claim or a dead letter without
a policy, and a retry that does not move the claim and meets a dead letter with
no retry in progress and no residual row.

## 3. Runs

| Run | Question | Size |
|---|---|---|
| `source_sequence` | any losses, restores, restarts, purges and retirements between commits and captures | 4 events, numbers up to 3, so the fourth commit meets the limit |
| `durable_ownership` | can a row be taken from a live owner, turns overlap, the budget be exceeded, an event be missed, work be reopened | 1 core delivery, 2 generations, 1 executor, 3 tokens, 2 attempts |
| `durable_liveness` | is every open delivery settled | 1 core delivery, a mortal and an immortal generation |
| `delivery_replay` | duplicate rows, lost payloads, second acceptances | 2 keys, 3 entries, 2 faults |
| `delivery_rolling` | an older writer's enqueue and retry against a key's replay | 1 key, 3 entries, 3 faults |
| `delivery_liveness` | is every row settled, does a key keep its policy | 1 key, 2 entries, batches of 2, policies 0 and 2, older dead letters, 2 faults |
| `inference_lease` | calls against release, swap, close and crash | 1 request, 2 calls |
| `inference_replacement` | one lease after another through failed saves and restarts | 2 requests, 1 call |
| `inference_plan` | is billed capacity always on the saved record (it is not) | 1 request |
| `push_delivery` | is every change delivered and every revoked generation forgotten | 1 worker, 2 generations, 1 change, 2 attempts, 1 fault |
| `push_revocation` | can a forgotten generation still be in use | 2 workers, 2 generations, 2 faults |
| `wait_delivery` | repeated, lost and unwatched wakes | 2 drivers, 2 executions, 2 shifts of view or class, 2 attempts, 1 fault |

Why these are enough.  The ledger's transactions treat deliveries one by one
(selection, recovery and terminalization are pointwise in the row), so a second
delivery matters only for what crosses consumers and rows; those properties
(`NoLostDelivery`, `InactiveConsumerIsDrained`, `TerminalIsFinal`) are also
proved for every number of them.  Two generations are a victim and a rescuer; three
tokens let an old, a current and a next lease of a delivery coexist; two
attempts let a refund matter.  In the queue, three entries are an original, its
retry or re-creation, and a rival row; two keys can share an entry or fight over
it; two faults let a second interruption hit the repair of the first.  A lease
needs two calls for one to drain while the other renews, and two requests for a
replacement.  Two generations are an old and a new registration, two workers a
process that posts and one that deletes.  Two executions are the one told and the
one that looks like it; two shifts let a view switch there and back.  Two faults with
one shift were explored for `wait_delivery` too, with the same result.  Entries
are ids used once, so runs end when they are used up; the actions then still
possible (time, retries, restarts) keep the state space deadlock-free.  Named
bounds: `MaxSequence`, `MaxFaults`, `BatchSize`, the size of `Entries`,
`Tokens`, `Events`, `MaxGens`, `MaxChanges`, `MaxAttempts`, `MaxExecs`,
`MaxShifts`.

### What the runs show

One run finds a disagreement with the code's own words.  `acquire` keeps a new
plan in memory when saving it failed; a retry with the same request id then
resumes the acquisition and calls the provider without any saved plan, so a crash
afterwards leaves billed capacity that no restart finds.  The comment at
`llm/inference_leases.py:607` promises the opposite (`inference_plan`,
`BilledIsDurable`).  `OneBilledLease` excepts exactly such leases.

All other properties hold.  Some behaviours a reader should know are visible in
the statements, because the plain form does not hold:

* A managed settlement that raises while the owner's heartbeat had lapsed leaves
  a cleanup debt that no longer matches its row, and an ordinary store error
  while releasing a retained task leaves a lease no task holds.  Both last as
  long as the owning process; `EveryDeliverySettles` excepts exactly these
  (`UnresolvedDebt`, `StrandedLease`).
* A queue row whose settlement write fails stays in flight until the worker is
  restarted: neither the poll nor manual retry touches it
  (`EveryRowSettles`, `worker.left`).
* `AcceptedOnce` excepts deliveries whose acknowledgement was lost; the code
  documents at-least-once delivery for them.
* `PolicyKept` does not hold when an older enqueue left the policy out of the
  ledger *and* an older move left it out of the dead letter: a retry that is cut
  after its INSERT and resumed by a process with another default then inserts the
  row under the first default and writes the second one to the ledger.  The
  counterexample takes three faults, an older enqueue, an older bury and a cut
  retry (`OldWriters = {"enqueue", "bury"}`, `Joined`, `MaxFaults = 3`), and came
  out of the proof: the invariant could not be closed without `PolicyOnRecord`.
  No run has both older writers.
* A worker whose POST failed and whose lease was lost meanwhile raises out of its
  resident (`push_worker.py:380`); an unclosable connection does too.  The push
  liveness properties except the case that every resident has ended (`Halted`),
  which lasts until the host is restarted.
* A wake that was given up (a permanent rejection, or the last attempt) also
  disarms the watch, so a caller parked on a resume consumer is left unwatched;
  `ConsumerIsWatched` excepts it.  A dispatcher that raises at every attempt is
  enough.
* `EveryEventIsTold` excepts a new execution that is first read through another
  view, which the code names as an accepted limit.  The limit reaches further
  than its comment: such an execution inherits the attempts of the older one's
  undelivered wake, and may be locked without a dispatch of its own.  And when
  the retry of the older wake carries it under the older token, it is told again
  if the view switches back; `NoRepeatedWake` exempts that (`settled`).

Smaller observations: a tick cancelled between recording a wake and dispatching
it is later recorded as lost at a restart that did not happen, a harmless soft
failure; a manual retry accepted between the last FAILED write and
the burial is dead-lettered all the same; a crash at that point gives the row an
attempt beyond `max_retries`; and an older writer's retry row that a second key
adopts inside the window looks linked, so the first key's later replay creates
another row (the reason `delivery_rolling` has one key).

## 4. Fairness

`DurableSignals!Fairness` is weak fairness of what a loop or a timer of the code
repeats: start-up, the heartbeat and the recoveries it runs, activation or
abandonment of a first lease, the drain loop's claims, a task's progress from
claim to settlement, terminalization of debts, and the passing of deadlines.
Strong fairness is nowhere assumed.  Nothing is assumed of Hold, crashes,
shutdowns or failures: the property itself says "once Hold stays off and running
owners' heartbeats stay fresh".  `DeliveryQueue!Fairness` is the polling loop,
the provider's answer (an assumption about the channel adapters: the queue sets
no timeout of its own, and a provider that never answers blocks the worker), the
writes that follow, and the end of a backoff; the property starts from "the
worker stays up".

`InferenceLease!Fairness`: the event loop runs what is ready, a call on the route
ends (its client has a timeout), and `asyncio.Lock` serves its waiters in order,
which is strong fairness of `Touch`, because other operations take the lock in
between.  No drain deadline is assumed to strike: the property says that nobody
needs one.  `PushOutbox!Fairness`: a resident goes on with its pass (every POST
has a deadline), unattended leases run out, a Delete under way finishes.  Nothing
is assumed of crashes or of an operator restarting a host.
`WaitReconciler!Fairness`: some driver keeps running ticks (the fallback loop
never ends), turns end, an advised time comes.

## 5. Proofs

TLAPS checks every leaf (SMT, Zenon and LS4); nothing is assumed but the named
assumptions on the constants: `MaxSequenceAssumption` (the limit is a natural
number), the `ConstantsAssumption` of `DurableSignals` (core and replaying
consumers are consumers, selectors and attempt limits have their types,
dispatchers and executors are different, NULL is neither a holder nor a token)
and of `DeliveryQueue` (policies are natural numbers, what callers ask for is a
policy or nothing, NULL is no entry or policy), for `PushOutbox`
`BoundsAssumption` (the bounds are natural numbers, None is no worker), and for
`InferenceLease`, `DeliveryQueue` and `WaitReconciler` `NoneAssumption` (NULL is
no request, call, record, claim, dead letter, token or wake).  Every invariant,
action property and refinement that a passing run checks is stated by a theorem;
liveness is not.

`SourceSequence_proofs`: `TypeCorrect`, `NoReuse`, `BoundarySeparates`,
`OneLossIsRepaired`.  The two in between are not inductive: after a loss the copies
may be below the last number, and a property about numbers alone says nothing
about what the next commit will read.  `SequenceInv` adds `EvidenceStands`: the
copies' maximum is exact, or the marker stands alone, or a retained event
exceeds every copy; in the last two cases every reader refuses.
`OneLossIsRepaired` adds that the marker is only there once a number was
committed (`SeenIsUsed`): otherwise the check on the marker could refuse an
unused scope whose rows are all intact.

`DurableSignals_proofs`: `TypeCorrect`, `NothingLost`, `InactiveStaysDrained`,
`TerminalStaysFinal`.  Every action is first shown to move a row along
`RowStep`: it leaves it, opens an absent row of an active consumer, moves an
open one on, or purges a settled one.  `LifeInv` adds that an uncommitted
event has no rows (`NewIsAbsent`), without which a commit could meet an existing
row.

`DurableTurns_proofs`: `OwnerKeepsRow`, `TurnsApart`, `BudgetHolds`.  The
inductive invariant `TurnInv` says what the phase of a lease means for its row.
A protected holder's row is settled or still carries its owner and token, as a
lease or, for a debt, as a retry kept for it.  A claimed row that is still owned
has its marker, a begun one has not.  A first lease has used no attempt.  The
attempts column pays for every execution begun, and for one more while the
marker stands: this is what makes the refunds (Hold, recovery of unstarted
admissions) sound.  The thirty actions fall into three classes, defined on one
row and one lease: background work, a grant of a fresh token, a step of one
holder.  Each class is shown to keep `TurnInv`, each action to belong to a
class.

`PushOutbox_proofs`: `GenerationsDrain` (revocation implements `Drain`) and
`ForgottenIsQuiet`.  The inductive invariant `RevocationInv` says that a POST
between its admission and its close belongs to a generation that is active or
deleting, and that a Delete holds only revoked generations; without the second
part a Delete could forget a generation that was never shut.  Every action moves
one worker without admitting a POST (`Moves`), admits one, or ages generations
(`Ages`: a new one opens, an active one is revoked, a revoked one that is not
busy is forgotten); each class keeps the invariant and is a step of `Drain`.
`Drain_proofs`: `GoneStaysUnused`, what an implementation of `Drain` gets.

The second half of `PushOutbox_proofs`: `TypeCorrect`, `ChangesAreOwed`.
`NothingOwed` is not inductive: when a delivery is acknowledged, nothing in it
says that the callback has seen what the row was for.  `OwedInv` therefore follows
a delivery from its claim.  What a worker read is at least as new as its row, and
if it read the end of the task it read the last version (`Reads`); a success is
recorded only for a row before the boundary or for a state the callback has
confirmed (`Confirmed`); an active generation lacks its consumer only when the
task is over (`RowsInv`), so that the trigger captures every change; and rows,
versions and registrations keep step (`JournalInv`), which also bounds the
journal.  An action moves one worker (`Advances`), rewrites tables without noting
anything new (`TablesStay`), or notes a row (`Register`, `ChangeTask`).

`InferenceLease_proofs`: `TypeCorrect`, `RouteIsOnRecord`, `ReleaseIsQuiet`,
`BilledOnce`, `EndedStaysEnded`, `RouteImplementsDrain`.  The properties relate
the route, two records and the provider, but each step of an operation sees only
some of them.  `LeaseInv` therefore says what the step an operation has reached
means for the record (`OpInv`): only an acquisition sees a planned record, only a
release one that is releasing and off the route, and the provider is asked to
release only what is saved as releasing.  A record that is terminal is true of
the provider (`Truthful`); the saved record may lag behind the current one only
for a lease that has ended (`SavedInv`), which is why a restart that loads it
revives nothing; a lease whose release was requested is past for the provider,
the route and both records (`AskedInv`).  `RouteImplementsDrain` then shows every
step to be one of `Drain` for each lease or a stutter.

`DeliveryQueue_proofs`: `TypeCorrect`, `MessagesAreKept`, `OneRowAtATime`,
`AcceptedOnceUnlessUnsure`, `PolicyStays`.  Three invariants are built on each
other.

* `QueueInv`, for every release that writes the tables.  Every id that was drawn
  belongs to a logical delivery whose root is its own root (`Bookkeeping`), and
  the row named by a dead letter's `retry_entry_id` waits, without a tombstone of
  its own, until the dead letter is consumed: this is what makes a cut retry
  resumable.  Claims name rows that were inserted (`ClaimsInv`).  What the worker
  has polled or attempts is live and nobody else settles it (`WorkerInv`).
* `HolderInv`, unless an older release retries dead letters (`RetriesFollowed`).
  The holder of a logical delivery, its live row or its dead letter, is unique;
  every claim on the delivery is on the holder or on its retry row; stale claims
  of one delivery sit on one entry.  `OneLiveRow` alone is not inductive: a stale
  claim's re-creation adds a row, and only the place of the claims shows that no
  row is left.  The hypothesis cannot be dropped: an older retry consumes the dead
  letter and leaves the claims behind, and with two keys the code's guard for that
  (an unlinked compatible row) is defeated, see above.
* `SentInv`, on top of it.  What may still be sent, an undelivered holder or the
  row of a stale claim, belongs to a delivery that was not accepted or is unsure,
  except the row the worker is about to record.

`PolicyInv` says that a policy on record, in a claim or a dead letter, is that of
the row, which outlives the row; its hypothesis `PolicyOnRecord` (no partial
commits, or not both older enqueues and older dead letters) is needed, see
section 3.  Six kinds of steps (`RowStep`, `Inserted`, `Buries`, `Retries`,
`Purges`, `ClaimStep`) cover what the actions do to the tables; every invariant
is carried over each kind once.

`WaitReconciler_proofs`: `TypeCorrect`, `ParkedIsWatched`, `WakesAreNotRepeated`.
`WaitInv` ties the ledger row to the work behind the handle.  Tokens of one
execution agree in all but view and class (`SameWork`), and one that is final
names the provider's last event (`TokenOK`).  A driver that decides or enqueues
holds a token of the execution it polled, and found nothing newer told
(`DriverInv`).  The wake of a told execution either waits for its harvest, its
token pending, or its token is locked (`SettledInv`); this is what makes a
repeated poll, a re-key or a view switch recognise it.  A parked consumer's watch
is armed, and the harvest of a wake in flight leaves it armed because the baseline
is that wake's token (`Armed`), or a wake was given up and none runs (`GivenUp`):
more than `ConsumerIsWatched` says.  Ticks and registrations exclude each other
(`LockInv`), so a step needs an argument only for the driver that takes it
(`HolderKeeps`); the provider's steps keep what is on record (`Proceeds`).

TLC looked for a counterexample to every inductive invariant before it was
proved: `QueueInv` with all older writers, the others under their hypotheses,
`WaitInv` with two executions and one fault, `OwedInv` on the instance of
`push_delivery` (with two workers the search was not completed).

*Only model-checked:* the runs' `OneLiveRow` with an older writer's retry and one key (the theorem excludes the
older retry for any number of keys), and the liveness properties, among them
`NobodyWaitsForever` of `InferenceLease`, `EveryRowSettles` of
`DeliveryQueue` and `EveryEventIsTold` of `WaitReconciler` (fairness and ENABLED
are out of the prover's reach).  So is
induction over data and any module with a RECURSIVE operator; the modules have
none.

## 6. Left out

*SourceSequence:* PostgreSQL's batched migration, and the legacy backfill of
numbers for events from before the counter existed.

*DurableSignals:* writer fences between schema versions, the order in which due
deliveries are claimed (any due one may be), SQLite lifting the claim exclusion
of a debt that no longer matches (the debt stays, as on PostgreSQL), payload
elision and privacy, transient signals, wake policy.  History retirement is in
`SourceSequence`, where the boundary is.

*DeliveryQueue:* JSON canonicalisation and the two content hashes (contents are
compared as values), schema migration, bounded purge batches, and the
statement-level interleaving of PostgreSQL transactions.

*InferenceLease:* quotes and their constraints (a plan stands for the chosen
quote), the clock (an expiry may be found at any look), closing of clients,
`switch_backend`, which refuses while a lease is active.

*PushOutbox:* several configurations in one batch, removal of the task, owners on
another kernel session (whose exit cannot be observed), encryption and URL checks,
repeated identical registrations, the creator's authority beyond a refusal at any
moment, batch limits of the cleanup.

*WaitReconciler:* the coalescing window and its keys, replay labels and the dates
they compare, visibility verdicts, origin sessions, ownership checks of a
reference, rows from before events were named, more than one handle (rows are
independent; the lock is shared), the blocking wait loop.

## 7. Plan

1. Proofs: the safety steps behind the liveness properties, as action properties
   (a settled row stays settled, an attempt never returns to its budget); the
   abstract specifications of item 3, with proved refinements.
2. The PostgreSQL handoff lock as a refinement: row locks and advisory locks
   under `DurableSignals` and `DeliveryQueue`, with their deadlock hazards.
3. Abstract specifications: a delivery with at most one live owner, refined by
   `DurableSignals`; a logical delivery per key, refined by `DeliveryQueue`.
4. The composition of `PushOutbox` with the ledger's own retention and history
   retirement, and of `WaitReconciler` with the durable delivery of a wake.
5. `StopCircuit` (`stop/circuit.py`), then stop invocations with owner
   heartbeats and receipts, then Hold's own state; generation gate, dispatcher
   locks, scheduler claims, delegated wallets, restart coordinator.
