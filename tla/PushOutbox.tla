----------------------------- MODULE PushOutbox -----------------------------
(***************************************************************************)
(* Push notification of one A2A task to one callback configuration:        *)
(* a2a/push_outbox.py, push_worker.py, push_transport.py and the stores    *)
(* push_config_store.py and task_change_store.py.                          *)
(*                                                                         *)
(* A registration is an immutable generation with a durable consumer and a *)
(* boundary in the journal of task changes.  Workers (processes that share *)
(* the database) forward journal rows to the consumers, claim the          *)
(* resulting deliveries under a lease, POST the current task and settle.   *)
(* Every action is one transaction, or one step of a POST.                 *)
(*                                                                         *)
(* A generation that is replaced or deleted is revoked at once and         *)
(* forgotten only when each POST that was admitted for it has closed its   *)
(* connection, or the process that ran it has exited.  The workers share a *)
(* kernel, so an exit is always observable.  Repeating an unchanged        *)
(* registration changes nothing and is left out.                           *)
(***************************************************************************)
EXTENDS Naturals, Sequences, FiniteSets

CONSTANTS
    Workers,        \* processes with a resident push worker
    MaxGens,        \* bound on registrations
    MaxChanges,     \* bound on task changes
    MaxAttempts,    \* max_delivery_attempts
    BatchSize,      \* batch_size of a forwarding transaction
    MaxFaults,      \* bound on crashes, stalls, refusals and failed closes
    None            \* no worker

ASSUME BoundsAssumption ==
    /\ MaxGens \in Nat /\ MaxChanges \in Nat /\ MaxFaults \in Nat
    /\ MaxAttempts \in Nat \ {0} /\ BatchSize \in Nat \ {0}
    /\ None \notin Workers

Gens == 1..MaxGens
Seqs == 1..(MaxGens + MaxChanges)

VARIABLES
    task,       \* a2a_tasks: a version, and whether the state is terminal
    journal,    \* a2a_task_changes: the version each row notes, and its state
    config,     \* a2a_push_configs: state of each generation
    consumer,   \* durable_signal_consumers: active
    after,      \* a2a_push_subscriptions: after_sequence
    row,        \* durable_signal_deliveries of each consumer and journal row
    worker,     \* the delivery each worker runs
    orphan,     \* generations with an unretired attempt of an exited process
    deleting,   \* inventory of the Delete request under way in each process
    sent,       \* history: newest version the callback has confirmed
    gaveUp,     \* history: generations with a delivery that used up its attempts
    faults

vars == <<task, journal, config, consumer, after, row, worker, orphan, deleting,
          sent, gaveUp, faults>>
history == <<sent, gaveUp>>

Absent == [state |-> "absent", owner |-> None, tries |-> 0]
Fresh == [Absent EXCEPT !.state = "open"]
Done == [Absent EXCEPT !.state = "settled"]   \* acknowledged or failed
Pass(step) == [at |-> step, gen |-> 0, seq |-> 0, seen |-> 0, final |-> FALSE, result |-> "none"]

\* The delivery is over; the pass goes on to its last step.
Over == Pass("retire")

\* From its admission until its close a POST has an unretired attempt row.
InHttp == {"admitted", "sending", "closing", "debt"}
Running == InHttp \union {"claimed", "ready", "settling"}

(***************************************************************************)
(* Types of the variables.                                                 *)
(***************************************************************************)
TypeOK ==
    /\ task \in [version : 1..(MaxChanges + 1), over : BOOLEAN]
    /\ Len(journal) \in 0..(MaxGens + MaxChanges)
    /\ \A s \in 1..Len(journal) :
          journal[s] \in [version : 0..(MaxChanges + 1), state : {"pending", "forwarded", "purged"}]
    /\ config \in [Gens -> {"none", "active", "deleting", "deleted"}]
    /\ consumer \in [Gens -> BOOLEAN]
    /\ after \in [Gens -> 0..(MaxGens + MaxChanges)]
    /\ row \in [Gens -> [Seqs -> [state : {"absent", "open", "leased", "settled"},
                                  owner : Workers \union {None}, tries : 0..MaxAttempts]]]
    /\ worker \in [Workers ->
          [at : Running \union {"forward", "claim", "retire", "stopped"}, gen : Gens \union {0}, seq : Seqs \union {0},
           seen : 0..(MaxChanges + 1), final : BOOLEAN, result : {"none", "ok", "error", "revoked"}]]
    /\ \A g \in Gens, s \in Seqs : row[g][s].state = "leased" <=> row[g][s].owner # None
    /\ orphan \subseteq Gens
    /\ deleting \in [Workers -> SUBSET Gens]
    /\ sent \in [Gens -> 0..(MaxChanges + 1)]
    /\ gaveUp \subseteq Gens
    /\ faults \in 0..MaxFaults

Init ==
    /\ task = [version |-> 1, over |-> FALSE]
    /\ journal = <<>>
    /\ config = [g \in Gens |-> "none"]
    /\ consumer = [g \in Gens |-> FALSE]
    /\ after = [g \in Gens |-> 0]
    /\ row = [g \in Gens |-> [s \in Seqs |-> Absent]]
    /\ worker = [w \in Workers |-> Pass("forward")]
    /\ orphan = {} /\ deleting = [w \in Workers |-> {}]
    /\ sent = [g \in Gens |-> 0] /\ gaveUp = {}
    /\ faults = 0

Fault == faults < MaxFaults /\ faults' = faults + 1

-----------------------------------------------------------------------------
(* The task, its journal and the registrations.                            *)

\* The trigger's condition: an active generation with its active consumer.
Captured == \E g \in Gens : config[g] = "active" /\ consumer[g]

Noted(version) == Append(journal, [version |-> version, state |-> "pending"])

\* A terminal task never changes again.
ChangeTask(over) ==
    /\ ~task.over /\ task.version <= MaxChanges
    /\ task' = [version |-> task.version + 1, over |-> over]
    /\ journal' = IF Captured THEN Noted(task.version + 1) ELSE journal
    /\ UNCHANGED <<config, consumer, after, row, worker, orphan, deleting, history, faults>>

Live == {s \in 1..Len(journal) : journal[s].state # "purged"}

\* lock_task_boundary: MAX(sequence) of the rows that are left, 0 for none
Boundary(b) == b \in Live \union {0} /\ \A s \in Live : s <= b

\* deactivate_consumer: work that is not settled fails, and its leases are void.
Deactivated(G) ==
    [g \in Gens |-> [s \in Seqs |->
        IF g \in G /\ consumer[g] /\ row[g][s].state \in {"open", "leased"}
        THEN Done
        ELSE row[g][s]]]

\* Generations that are revoked and those an operation revokes now.
Revoked == {g \in Gens : config[g] \in {"active", "deleting"}}

\* register_prepared: a new value replaces the active generation, whose
\* consumer is deactivated, and is told the current state.
Register ==
    \E g \in Gens, b \in 0..Len(journal) :
        /\ config[g] = "none" /\ \A h \in 1..(g - 1) : config[h] # "none"
        /\ config' = [h \in Gens |-> IF h = g THEN "active"
                                     ELSE IF config[h] = "active" THEN "deleting" ELSE config[h]]
        /\ consumer' = [h \in Gens |-> h = g \/ (consumer[h] /\ h \notin Revoked)]
        /\ row' = Deactivated(Revoked)
        /\ Boundary(b) /\ after' = [after EXCEPT ![g] = b]
        /\ journal' = Noted(task.version)
        /\ UNCHANGED <<task, worker, orphan, deleting, history, faults>>

Pending == {s \in 1..Len(journal) : journal[s].state = "pending"}

\* forward_pending: the first rows each become an event with a delivery for
\* every active consumer.
Forward(w) ==
    LET batch == {s \in Pending : Cardinality({t \in Pending : t <= s}) <= BatchSize} IN
    /\ worker[w].at = "forward"
    /\ worker' = [worker EXCEPT ![w].at = "claim"]
    /\ journal' = [s \in 1..Len(journal) |->
                      IF s \in batch THEN [journal[s] EXCEPT !.state = "forwarded"] ELSE journal[s]]
    /\ row' = [g \in Gens |-> [s \in Seqs |->
                  IF s \in batch /\ consumer[g] THEN Fresh ELSE row[g][s]]]
    /\ UNCHANGED <<task, config, consumer, after, orphan, deleting, history, faults>>

-----------------------------------------------------------------------------
(* One delivery.                                                           *)

Owns(w) == row[worker[w].gen][worker[w].seq].state = "leased"
           /\ row[worker[w].gen][worker[w].seq].owner = w

Current(w) == config[worker[w].gen] = "active" /\ Owns(w)

Lesser(m, n) == IF m < n THEN m ELSE n
Greater(m, n) == IF m < n THEN n ELSE m

Claim(w) ==
    \E g \in Gens, s \in Seqs :
        /\ worker[w].at = "claim" /\ row[g][s].state = "open"
        /\ row' = [row EXCEPT ![g][s] = [state |-> "leased", owner |-> w,
                                         tries |-> Lesser(@.tries + 1, MaxAttempts)]]
        /\ worker' = [worker EXCEPT ![w] = [@ EXCEPT !.at = "claimed", !.gen = g, !.seq = s]]
        /\ UNCHANGED <<task, journal, config, consumer, after, orphan, deleting, history, faults>>

NothingDue(w) ==
    /\ worker[w].at = "claim"
    /\ \A g \in Gens, s \in Seqs : row[g][s].state # "open"
    /\ worker' = [worker EXCEPT ![w] = Over]
    /\ UNCHANGED <<task, journal, config, consumer, after, row, orphan, deleting, history, faults>>

\* A lease runs out: at once when nobody works on it, else the worker stalled.
ExpireLease(g, s) ==
    /\ row[g][s].state = "leased"
    /\ row' = [row EXCEPT ![g][s].state = "open", ![g][s].owner = None]
    /\ IF \E w \in Workers : /\ worker[w].at \in Running
                             /\ worker[w].gen = g /\ worker[w].seq = s /\ Owns(w)
       THEN Fault ELSE UNCHANGED faults
    /\ UNCHANGED <<task, journal, config, consumer, after, worker, orphan, deleting, history>>

\* A change at or before the boundary is acknowledged unsent; otherwise the
\* generation must be active still, and the current task is read.
Prepare(w) ==
    /\ worker[w].at = "claimed"
    /\ worker' = [worker EXCEPT ![w] =
          IF @.seq <= after[@.gen] THEN [@ EXCEPT !.at = "settling", !.result = "ok"]
          ELSE IF config[@.gen] = "active"
               THEN [@ EXCEPT !.at = "ready", !.seen = task.version, !.final = task.over]
               ELSE Over]
    /\ UNCHANGED <<task, journal, config, consumer, after, row, orphan, deleting, history, faults>>

MutantAdmit(w) ==
    /\ worker[w].at = "ready"
    /\ worker' = [worker EXCEPT ![w].at = "admitted"]
    /\ UNCHANGED <<task, journal, config, consumer, after, row, orphan, deleting, history, faults>>

\* admit_delivery
Admit(w) ==
    /\ worker[w].at = "ready"
    /\ worker' = [worker EXCEPT ![w] =
          IF config[@.gen] = "active" THEN [@ EXCEPT !.at = "admitted"] ELSE Over]
    /\ UNCHANGED <<task, journal, config, consumer, after, row, orphan, deleting, history, faults>>

\* delivery_is_current and _admit_http, before the first byte is sent
Dispatch(w) ==
    /\ worker[w].at = "admitted" /\ Current(w)
    /\ worker' = [worker EXCEPT ![w].at = "sending"]
    /\ UNCHANGED <<task, journal, config, consumer, after, row, orphan, deleting, history, faults>>

\* The callback's 2xx answer
Confirm(w) ==
    /\ worker[w].at = "sending"
    /\ worker' = [worker EXCEPT ![w].at = "closing", ![w].result = "ok"]
    /\ sent' = [sent EXCEPT ![worker[w].gen] = Greater(@, worker[w].seen)]
    /\ UNCHANGED <<task, journal, config, consumer, after, row, orphan, deleting, gaveUp, faults>>

\* A refused address, a timeout or an error answer
HttpError(w) ==
    /\ worker[w].at \in {"admitted", "sending"}
    /\ worker' = [worker EXCEPT ![w].at = "closing", ![w].result = "error"]
    /\ UNCHANGED <<task, journal, config, consumer, after, row, orphan, deleting, history, faults>>

Withdrawn(w) == IF worker[w].at \in InHttp
                THEN [worker[w] EXCEPT !.at = "closing", !.result = "revoked"] ELSE Over

\* The check, the monitor or a Delete in this process stops the delivery.
Cancel(w) ==
    /\ worker[w].at \in Running \ {"debt", "settling"}
    /\ \/ worker[w].at \notin {"claimed", "closing"} /\ ~Current(w)
       \/ worker[w].gen \in deleting[w]
    /\ worker' = [worker EXCEPT ![w] = Withdrawn(w)]
    /\ UNCHANGED <<task, journal, config, consumer, after, row, orphan, deleting, history, faults>>

\* The recipient no longer authorizes the creator.  The claim is kept.
Refuse(w) ==
    /\ worker[w].at \in Running \ {"debt", "closing", "settling"}
    /\ Fault
    /\ worker' = [worker EXCEPT ![w] = Withdrawn(w)]
    /\ UNCHANGED <<task, journal, config, consumer, after, row, orphan, deleting, history>>

\* The connection is closed and the attempt retired.
Close(w) ==
    /\ worker[w].at = "closing"
    /\ worker' = [worker EXCEPT ![w] = IF @.result = "revoked" THEN Over
                                       ELSE [@ EXCEPT !.at = "settling"]]
    /\ UNCHANGED <<task, journal, config, consumer, after, row, orphan, deleting, history, faults>>

\* A connection that cannot be closed is a debt, and ends the resident.
CloseFails(w) ==
    /\ worker[w].at = "closing"
    /\ Fault
    /\ worker' = [worker EXCEPT ![w].at = "debt"]
    /\ UNCHANGED <<task, journal, config, consumer, after, row, orphan, deleting, history>>

MutantAck(w) ==
    /\ worker[w].at = "settling" /\ worker[w].result = "ok"
    /\ worker' = [worker EXCEPT ![w] = Over]
    /\ LET g == worker[w].gen IN
       IF Owns(w)
       THEN /\ row' = [IF task.over THEN Deactivated({g}) ELSE row
                       EXCEPT ![g][worker[w].seq] = Done]
            /\ consumer' = IF task.over THEN [consumer EXCEPT ![g] = FALSE] ELSE consumer
       ELSE UNCHANGED <<row, consumer>>
    /\ UNCHANGED <<task, journal, config, after, orphan, deleting, history, faults>>

\* ack_delivery; a terminal state that was sent completes the consumer.  A
\* lost lease is left to its next owner.
Ack(w) ==
    /\ worker[w].at = "settling" /\ worker[w].result = "ok"
    /\ worker' = [worker EXCEPT ![w] = Over]
    /\ LET g == worker[w].gen
           final == worker[w].final IN
       IF Owns(w)
       THEN /\ row' = [IF final THEN Deactivated({g}) ELSE row
                       EXCEPT ![g][worker[w].seq] = Done]
            /\ consumer' = IF final THEN [consumer EXCEPT ![g] = FALSE] ELSE consumer
       ELSE UNCHANGED <<row, consumer>>
    /\ UNCHANGED <<task, journal, config, after, orphan, deleting, history, faults>>

MutantNack(w) ==
    /\ worker[w].at = "settling" /\ worker[w].result = "error"
    /\ LET g == worker[w].gen
           s == worker[w].seq
           last == row[g][s].tries = MaxAttempts IN
       IF Owns(w)
       THEN /\ row' = [row EXCEPT ![g][s].state = IF last THEN "settled" ELSE "open"]
            /\ gaveUp' = IF last THEN gaveUp \union {g} ELSE gaveUp
            /\ worker' = [worker EXCEPT ![w] = Over]
       ELSE /\ worker' = [worker EXCEPT ![w] = Pass("stopped")]
            /\ UNCHANGED <<row, gaveUp>>
    /\ UNCHANGED <<task, journal, config, consumer, after, orphan, deleting, sent, faults>>

\* nack_delivery: retry, or fail for good.  A lost lease ends the resident.
Nack(w) ==
    /\ worker[w].at = "settling" /\ worker[w].result = "error"
    /\ LET g == worker[w].gen
           s == worker[w].seq
           last == row[g][s].tries = MaxAttempts IN
       IF Owns(w)
       THEN /\ row' = [row EXCEPT ![g][s] = IF last THEN Done
                                              ELSE [@ EXCEPT !.state = "open", !.owner = None]]
            /\ gaveUp' = IF last THEN gaveUp \union {g} ELSE gaveUp
            /\ worker' = [worker EXCEPT ![w] = Over]
       ELSE /\ worker' = [worker EXCEPT ![w] = Pass("stopped")]
            /\ UNCHANGED <<row, gaveUp>>
    /\ UNCHANGED <<task, journal, config, consumer, after, orphan, deleting, sent, faults>>

-----------------------------------------------------------------------------
(* Revocation and retirement.                                              *)

\* An unretired attempt of a process that lives
Busy(g) == \E w \in Workers : worker[w].at \in InHttp /\ worker[w].gen = g

\* NativePushWorker.delete: revoke, take the inventory, cancel its own run.
Delete(w) ==
    /\ worker[w].at \notin {"stopped", "debt"} /\ deleting[w] = {}
    /\ config' = [g \in Gens |-> IF config[g] = "active" THEN "deleting" ELSE config[g]]
    /\ consumer' = [g \in Gens |-> consumer[g] /\ g \notin Revoked]
    /\ row' = Deactivated(Revoked)
    /\ deleting' = [deleting EXCEPT ![w] = Revoked]
    /\ UNCHANGED <<task, journal, after, worker, orphan, history, faults>>

MutantFinishDelete(w) ==
    \E g \in deleting[w] :
        /\ ~(worker[w].at \in Running /\ worker[w].gen \in deleting[w])
        /\ config' = [config EXCEPT ![g] = "deleted"]
        /\ deleting' = [deleting EXCEPT ![w] = @ \ {g}]
        /\ orphan' = orphan \ {g}
        /\ UNCHANGED <<task, journal, consumer, after, row, worker, history, faults>>

\* finish_delete of one generation, once the own run has ended.  An attempt in
\* another process leaves the deletion pending, unacknowledged.
FinishDelete(w) ==
    \E g \in deleting[w] :
        /\ ~(worker[w].at \in Running /\ worker[w].gen \in deleting[w])
        /\ IF Busy(g)
           THEN deleting' = [deleting EXCEPT ![w] = {}] /\ UNCHANGED config
           ELSE /\ deleting' = [deleting EXCEPT ![w] = @ \ {g}]
                /\ config' = [config EXCEPT ![g] = "deleted"]
        /\ orphan' = orphan \ {g}
        /\ UNCHANGED <<task, journal, consumer, after, row, worker, history, faults>>

Settled(s) == \A g \in Gens : row[g][s].state \in {"absent", "settled"}

Purged == [version |-> 0, state |-> "purged"]

\* purge_expired and retire_forwarded: events up to the last one that expired
\* go with their journal rows, but none with unsettled work.
Purge(last) ==
    LET S == {s \in 1..last : journal[s].state = "forwarded" /\ Settled(s)} IN
    /\ journal' = [s \in 1..Len(journal) |-> IF s \in S THEN Purged ELSE journal[s]]
    /\ row' = [g \in Gens |-> [s \in Seqs |-> IF s \in S THEN Absent ELSE row[g][s]]]

MutantRetireHistory(w) ==
    /\ worker[w].at = "retire"
    /\ worker' = [worker EXCEPT ![w].at = "forward"]
    /\ \E last \in 0..Len(journal) : Purge(last)
    /\ orphan' = {}
    /\ UNCHANGED <<task, config, consumer, after, deleting, history, faults>>

\* retire_history: expired events are purged, attempts of exited processes
\* retired, and idle revoked generations forgotten.
RetireHistory(w) ==
    /\ worker[w].at = "retire"
    /\ worker' = [worker EXCEPT ![w].at = "forward"]
    /\ \E last \in 0..Len(journal) : Purge(last)
    /\ config' = [g \in Gens |-> IF config[g] = "deleting" /\ ~Busy(g) THEN "deleted" ELSE config[g]]
    /\ orphan' = {}
    /\ UNCHANGED <<task, consumer, after, deleting, history, faults>>

\* The process dies, and a new one takes its place.  Its lease runs out later.
Exit(w) ==
    /\ worker' = [worker EXCEPT ![w] = Pass("forward")]
    /\ deleting' = [deleting EXCEPT ![w] = {}]
    /\ orphan' = IF worker[w].at \in InHttp THEN orphan \union {worker[w].gen} ELSE orphan
    /\ UNCHANGED <<task, journal, config, consumer, after, row, history>>

Crash(w) == worker[w].at \in Running \ {"debt"} /\ Fault /\ Exit(w)

\* An operator restarts a host whose resident has ended.
Restart(w) == worker[w].at \in {"stopped", "debt"} /\ Exit(w) /\ UNCHANGED faults

-----------------------------------------------------------------------------
\* run_once: forward, run one delivery, retire.
PassStep(w) ==
    \/ Forward(w) \/ Claim(w) \/ NothingDue(w) \/ Prepare(w) \/ Admit(w) \/ Dispatch(w)
    \/ Confirm(w) \/ HttpError(w) \/ Cancel(w) \/ Close(w) \/ Ack(w) \/ Nack(w)
    \/ RetireHistory(w)

LeaseRunsOut == \E g \in Gens, s \in Seqs : ExpireLease(g, s)

Next ==
    \/ Register \/ LeaseRunsOut
    \/ \E over \in BOOLEAN : ChangeTask(over)
    \/ \E w \in Workers :
          \/ PassStep(w) \/ Refuse(w) \/ CloseFails(w)
          \/ Delete(w) \/ FinishDelete(w) \/ Crash(w) \/ Restart(w)

Spec == Init /\ [][Next]_vars

\* A living resident goes on with its pass, of which every POST has a
\* deadline; unattended leases run out; a Delete joins and finishes.
Fairness ==
    /\ \A w \in Workers : WF_vars(PassStep(w)) /\ WF_vars(FinishDelete(w))
    /\ WF_vars(LeaseRunsOut)

FairSpec == Spec /\ Fairness

-----------------------------------------------------------------------------
(***************************************************************************)
(* A generation whose credentials are forgotten has no POST left that is   *)
(* admitted, under way or not closed in any living process: what a         *)
(* successful Delete acknowledges, and what a replacement's cleanup needs. *)
(***************************************************************************)
DeletedIsQuiet == \A g \in Gens : config[g] = "deleted" => ~Busy(g)

Phase(state) == CASE state = "none" -> "new"
                  [] state = "active" -> "open"
                  [] state = "deleting" -> "shut"
                  [] state = "deleted" -> "gone"

\* A generation as a resource used by the POSTs of the workers.
Generations == INSTANCE Drain WITH
    Resources <- Gens, Users <- Workers, Volatile <- FALSE,
    phase <- [g \in Gens |-> Phase(config[g])],
    users <- [g \in Gens |-> {w \in Workers : worker[w].at \in InHttp /\ worker[w].gen = g}]

(***************************************************************************)
(* Every generation is revoked the way Drain promises: no POST is admitted *)
(* once it is revoked, it is forgotten only after its last POST, and it    *)
(* never comes back, through replacement, Delete in any process, resident  *)
(* cleanup, crashes and connections that fail to close.                    *)
(***************************************************************************)
RevocationDrains == Generations!Spec

(***************************************************************************)
(* No state change is lost: the callback of an active generation has       *)
(* confirmed the newest state, or a journal row past its boundary or an    *)
(* open delivery of that state is on the way, unless a delivery used up    *)
(* its attempts.  A completed consumer has therefore seen the final state. *)
(***************************************************************************)
NothingOwed ==
    \A g \in Gens \ gaveUp : config[g] = "active" =>
        \/ sent[g] = task.version
        \/ \E s \in (after[g] + 1)..Len(journal) :
              /\ consumer[g] /\ journal[s].version = task.version
              /\ journal[s].state = "pending" \/ row[g][s].state \in {"open", "leased"}

Halted == \A w \in Workers : worker[w].at \in {"stopped", "debt"}

(***************************************************************************)
(* The terminal state of a task reaches its callback, through forwarding,  *)
(* claims, lost leases and retries, unless the generation is revoked, a    *)
(* delivery uses up its attempts or every resident has ended.              *)
(***************************************************************************)
FinalStateArrives ==
    \A g \in Gens :
        task.over /\ config[g] = "active"
            ~> sent[g] = task.version \/ config[g] # "active" \/ g \in gaveUp \/ Halted

(***************************************************************************)
(* The credentials of a revoked generation are forgotten without a further *)
(* Delete, unless a living process still holds a connection that failed to *)
(* close or every resident has ended.                                      *)
(***************************************************************************)
RevokedIsForgotten ==
    \A g \in Gens :
        config[g] = "deleting"
            ~> \/ config[g] = "deleted" \/ Halted
               \/ \E w \in Workers : worker[w].at = "debt" /\ worker[w].gen = g

=============================================================================
