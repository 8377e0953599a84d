--------------------------- MODULE WaitReconciler ---------------------------
(***************************************************************************)
(* Waking the agent when asynchronous work ends: waits/reconciler.py over  *)
(* its ledger storage/async_wait_signal_store.py, for one handle.          *)
(*                                                                         *)
(* Two drivers, the scheduler's cron and the fallback loop of the wait     *)
(* feature, run ticks under one lock; registrations take the same lock.  A *)
(* tick harvests the wake an earlier tick dispatched, polls the provider,  *)
(* and decides from the ledger row whether the terminal event it sees is   *)
(* news.  Each action is one awaited call of the tick.                     *)
(*                                                                         *)
(* The provider is external.  Its work runs again and again (executions,   *)
(* numbered), on one head commit or on a new one.  A CI provider names the *)
(* event, and reads an execution through one of two views that name it     *)
(* differently; a talon provider names none and reports a native status.   *)
(* Either may change the outcome class it reports for an old execution.    *)
(***************************************************************************)
EXTENDS Naturals

CONSTANTS
    Drivers,        \* who runs ticks
    Kinds,          \* of the provider: "ci" and "talon"
    MaxExecs,       \* bound on executions
    MaxShifts,      \* bound on view switches and changes of class
    MaxAttempts,    \* MAX_DELIVERY_ATTEMPTS
    MaxFaults,      \* bound on crashes, interrupted ticks and rate limits
    None            \* SQL NULL

ASSUME BoundsAssumption ==
    /\ Kinds \subseteq {"ci", "talon"}
    /\ MaxExecs \in Nat \ {0} /\ MaxAttempts \in Nat \ {0}
    /\ MaxShifts \in Nat /\ MaxFaults \in Nat

Execs == 1..MaxExecs

VARIABLES
    provider,   \* external: the handle's work as a poll reads it
    row,        \* wait_signal_state
    wake,       \* _pending_signal_tasks: the dispatched wake
    tick,       \* where each driver stands in its tick or registration
    latched,    \* _terminal_control is set
    consumer,   \* the durable resume consumer of the handle
    fate,       \* history: what became of each execution
    settled,    \* history: executions told and not forgotten in a crash
    armed,      \* history: the newest execution the last watch knew of
    shifts,
    faults

vars == <<provider, row, wake, tick, latched, consumer, fate, settled, armed, shifts, faults>>
history == <<fate, settled, armed>>

Tokens == [event : 0..(MaxExecs + 1), detail : 0..MaxExecs, view : 0..2,
           class : 1..2, native : 0..MaxExecs]
Result == {"persisted", "hard", "soft", "deferred"}
Wakes == [exec : Execs, state : Result \union {"running"}]

\* NULL is no token and no wake.
ASSUME NoneAssumption == None \notin Tokens \union Wakes

Idle == [at |-> "idle", tok |-> None, exec |-> 0]

\* Nothing is expected of a watch that has fired or was never registered.
Off == MaxExecs

(***************************************************************************)
(* Types of the variables.                                                 *)
(***************************************************************************)
TypeOK ==
    /\ provider \in [kind : Kinds, exec : Execs, over : BOOLEAN, final : BOOLEAN,
                     head : 1..(MaxExecs + 1), view : 1..2, class : 1..2]
    /\ row \in [signaled : Tokens \union {None}, pending : Tokens \union {None},
                target : Tokens \union {None}, attempts : 0..MaxAttempts,
                deferred : BOOLEAN, watching : BOOLEAN, baseline : Tokens \union {None}]
    /\ wake \in Wakes \union {None}
    /\ tick \in [Drivers -> [at : {"idle", "harvest", "pop", "poll", "decide", "enqueue",
                                   "watched", "registered"},
                             tok : Tokens \union {None}, exec : Execs \union {0}]]
    /\ latched \in BOOLEAN
    /\ consumer \in {"none", "stored", "parked", "served"}
    /\ fate \in [Execs -> {"none", "told", "dropped", "absorbed"}]
    /\ settled \subseteq Execs /\ armed \in 0..MaxExecs
    /\ shifts \in 0..MaxShifts /\ faults \in 0..MaxFaults

Init ==
    /\ provider \in [kind : Kinds, exec : {1}, over : {FALSE}, final : {FALSE},
                     head : {1}, view : {1}, class : {1}]
    /\ row = [signaled |-> None, pending |-> None, target |-> None, attempts |-> 0,
              deferred |-> FALSE, watching |-> FALSE, baseline |-> None]
    /\ wake = None
    /\ tick = [d \in Drivers |-> Idle]
    /\ latched = FALSE /\ consumer = "none"
    /\ fate = [e \in Execs |-> "none"] /\ settled = {} /\ armed = Off
    /\ shifts = 0 /\ faults = 0

Fault == faults < MaxFaults /\ faults' = faults + 1

Monitored == provider.kind = "talon"   \* active_handles lists it

-----------------------------------------------------------------------------
(* External: the work and how it is read.                                  *)

\* A re-run, a run on a new head, or a corrected native status.
NewExecution ==
    /\ provider.exec < MaxExecs /\ ~provider.final
    /\ \E over \in BOOLEAN, step \in {0, 1} :
          provider' = [provider EXCEPT !.exec = @ + 1, !.over = over, !.head = @ + step]
    /\ UNCHANGED <<row, wake, tick, latched, consumer, history, shifts, faults>>

\* The execution ends; a merge is an event of its own and final.
Finish ==
    /\ ~provider.over
    /\ \/ provider' = [provider EXCEPT !.over = TRUE]
       \/ /\ provider.kind = "ci"
          /\ provider' = [provider EXCEPT !.over = TRUE, !.final = TRUE, !.head = @ + 1]
    /\ UNCHANGED <<row, wake, tick, latched, consumer, history, shifts, faults>>

\* A credential gains or loses a view, or a classifier changes.
Shift ==
    /\ shifts < MaxShifts /\ shifts' = shifts + 1
    /\ \/ /\ provider.kind = "ci"
          /\ provider' = [provider EXCEPT !.view = 3 - @]
       \/ provider' = [provider EXCEPT !.class = 3 - @]
    /\ UNCHANGED <<row, wake, tick, latched, consumer, history, faults>>

\* TerminalToken.of
Token ==
    [event  |-> IF provider.kind = "ci" THEN provider.head ELSE 0,
     detail |-> IF provider.kind = "ci" /\ ~provider.final THEN provider.exec ELSE 0,
     view   |-> IF provider.kind = "ci" /\ ~provider.final THEN provider.view ELSE 0,
     class  |-> provider.class,
     native |-> IF provider.kind = "talon" THEN provider.exec ELSE 0]

\* TERMINAL_EVENT_FINAL_KEY
Final(tok) == tok.event # 0 /\ tok.detail = 0

MutantNamesSameEvent(a, b) ==
    IF a.event = 0 \/ b.event = 0
    THEN IF a.native # 0 /\ b.native # 0 THEN a.native = b.native ELSE a.class = b.class
    ELSE a.event = b.event

\* names_same_event
NamesSameEvent(a, b) ==
    IF a.event = 0 \/ b.event = 0
    THEN IF a.native # 0 /\ b.native # 0 THEN a.native = b.native
         ELSE a.class = b.class /\ a.native = b.native
    ELSE a.event = b.event /\ (a.view # b.view \/ a.detail = b.detail)

-----------------------------------------------------------------------------
(* One tick.                                                               *)

Unlocked == ~latched /\ \A d \in Drivers : tick[d] = Idle

To(d, step) == tick' = [tick EXCEPT ![d].at = step]
Over(d) == tick' = [tick EXCEPT ![d] = Idle]

MutantStartTick(d) ==
    /\ ~latched /\ tick[d] = Idle
    /\ To(d, "harvest")
    /\ UNCHANGED <<provider, row, wake, latched, consumer, history, shifts, faults>>

StartTick(d) ==
    /\ Unlocked
    /\ To(d, "harvest")
    /\ UNCHANGED <<provider, row, wake, latched, consumer, history, shifts, faults>>

Running == wake # None /\ wake.state = "running"

\* Nothing to harvest; a row whose task is gone is counted as a soft failure.
NothingToHarvest(d) ==
    /\ tick[d].at = "harvest" /\ (wake = None \/ Running)
    /\ row' = IF wake = None THEN [row EXCEPT !.pending = None] ELSE row
    /\ To(d, "poll")
    /\ UNCHANGED <<provider, wake, latched, consumer, history, shifts, faults>>

\* A token is locked, and the watch that was armed over another one has fired.
Locked(r, tok) == [r EXCEPT !.signaled = tok, !.watching = @ /\ r.baseline = tok]

\* The execution was told or given up: a watch that did not know it has fired.
Fired(e) == IF e > armed \/ fate[e] # "none" THEN Off ELSE armed

\* record_delivery, or record_deferral which gives the attempt back
Harvest(d) ==
    /\ tick[d].at = "harvest" /\ wake # None /\ ~Running
    /\ LET target == row.pending
           clear == [row EXCEPT !.pending = None] IN
       row' = IF target = None THEN clear
              ELSE IF wake.state \in {"persisted", "hard"} THEN Locked(clear, target)
              ELSE IF wake.state = "deferred"
                   THEN [clear EXCEPT !.attempts = IF @ > 0 THEN @ - 1 ELSE @, !.deferred = TRUE]
              ELSE clear
    /\ IF wake.state = "hard"
       THEN fate' = [fate EXCEPT ![wake.exec] = "dropped"] /\ armed' = Fired(wake.exec)
       ELSE UNCHANGED <<fate, armed>>
    /\ To(d, "pop")
    /\ UNCHANGED <<provider, wake, latched, consumer, settled, shifts, faults>>

Pop(d) ==
    /\ tick[d].at = "pop"
    /\ wake' = None
    /\ To(d, "poll")
    /\ UNCHANGED <<provider, row, latched, consumer, history, shifts, faults>>

\* list_watched
Watched == row.watching /\ (row.baseline # None \/ row.signaled = None)

\* The handle is polled when it is monitored or watched, and terminal or not.
Poll(d) ==
    /\ tick[d].at = "poll"
    /\ IF (Monitored \/ Watched) /\ provider.over
       THEN tick' = [tick EXCEPT ![d] = [at |-> "decide", tok |-> Token, exec |-> provider.exec]]
       ELSE Over(d)
    /\ UNCHANGED <<provider, row, wake, latched, consumer, history, shifts, faults>>

\* The attempts on record are for the event that was polled.
SameTransition(tok) == row.target # None /\ NamesSameEvent(row.target, tok)

\* Its wake was dispatched and not delivered.
Owed(tok) == SameTransition(tok) /\ row.target # row.signaled

Rekeys(tok) == ~Owed(tok) /\ row.signaled # None /\ NamesSameEvent(row.signaled, tok)

\* _retire_final_watch
Retired(r, tok) == [r EXCEPT !.watching = @ /\ ~Final(tok)]

\* The event was delivered already, is in flight, or is parked.
Skip(d) ==
    /\ tick[d].at = "decide"
    /\ LET tok == tick[d].tok IN
       \/ row.signaled = tok /\ row' = Retired(row, tok)
       \/ /\ row.signaled # tok
          /\ \/ wake # None
             \/ ~Rekeys(tok) /\ SameTransition(tok) /\ row.deferred
          /\ UNCHANGED row
    /\ Over(d)
    /\ UNCHANGED <<provider, wake, latched, consumer, history, shifts, faults>>

\* adopt_signaled_token: another string for the event already delivered.
Rekey(d) ==
    /\ tick[d].at = "decide" /\ wake = None
    /\ LET tok == tick[d].tok
           moved(t) == IF t = row.signaled THEN tok ELSE t IN
       /\ row.signaled # tok /\ Rekeys(tok)
       /\ row' = Retired([row EXCEPT !.signaled = tok, !.baseline = moved(@), !.target = moved(@)], tok)
       /\ fate' = IF fate[tick[d].exec] = "none" /\ tok.view # row.signaled.view
                  THEN [fate EXCEPT ![tick[d].exec] = "absorbed"] ELSE fate
    /\ Over(d)
    /\ UNCHANGED <<provider, wake, latched, consumer, settled, armed, shifts, faults>>

\* The event is news, or its wake is owed and its time has come.
Due(d) ==
    LET tok == tick[d].tok IN
    /\ tick[d].at = "decide" /\ wake = None
    /\ row.signaled # tok /\ ~Rekeys(tok)
    /\ ~(SameTransition(tok) /\ row.deferred)

Spent(tok) == IF SameTransition(tok) THEN row.attempts ELSE 0

\* lock_at_max_attempts
LockAtMaxAttempts(d) ==
    /\ Due(d) /\ Spent(tick[d].tok) >= MaxAttempts
    /\ row' = Locked(row, row.target)
    /\ fate' = [fate EXCEPT ![tick[d].exec] = "dropped"]
    /\ armed' = Fired(tick[d].exec)
    /\ Over(d)
    /\ UNCHANGED <<provider, wake, latched, consumer, settled, shifts, faults>>

MutantRecordPending(d) ==
    /\ Due(d) /\ Spent(tick[d].tok) <= MaxAttempts
    /\ LET tok == tick[d].tok
           kept == IF SameTransition(tok) THEN row.target ELSE tok IN
       row' = [row EXCEPT !.pending = kept, !.target = kept, !.attempts = Spent(tok) + 1,
                          !.deferred = FALSE]
    /\ To(d, "enqueue")
    /\ UNCHANGED <<provider, wake, latched, consumer, history, shifts, faults>>

\* record_pending: a retry keeps the token of its first attempt.
RecordPending(d) ==
    /\ Due(d) /\ Spent(tick[d].tok) < MaxAttempts
    /\ LET tok == tick[d].tok
           kept == IF SameTransition(tok) THEN row.target ELSE tok IN
       row' = [row EXCEPT !.pending = kept, !.target = kept, !.attempts = Spent(tok) + 1,
                          !.deferred = FALSE]
    /\ To(d, "enqueue")
    /\ UNCHANGED <<provider, wake, latched, consumer, history, shifts, faults>>

\* enqueue_signal: the wake's turn is started, and its consumer served, or the
\* call raises, a soft failure.
Enqueue(d) ==
    /\ tick[d].at = "enqueue"
    /\ \/ /\ wake' = [exec |-> tick[d].exec, state |-> "running"]
          /\ consumer' = IF consumer = "none" THEN "none" ELSE "served"
          /\ UNCHANGED row
       \/ row' = [row EXCEPT !.pending = None] /\ UNCHANGED <<wake, consumer>>
    /\ Over(d)
    /\ UNCHANGED <<provider, latched, history, shifts, faults>>

-----------------------------------------------------------------------------
(* The wake's turn, the registrations, time and faults.                    *)

\* A turn that ran told its execution.  One told under the token of another
\* execution may be told again, see NoRepeatedWake.
TurnEnds(result) ==
    /\ Running
    /\ IF result = "deferred" THEN Fault ELSE UNCHANGED faults
    /\ wake' = [wake EXCEPT !.state = result]
    /\ IF result = "persisted"
       THEN /\ fate' = [fate EXCEPT ![wake.exec] = "told"]
            /\ settled' = IF row.pending # None /\ row.pending.detail \in {0, wake.exec}
                          THEN settled \union {wake.exec} ELSE settled
            /\ armed' = Fired(wake.exec)
       ELSE UNCHANGED history
    /\ UNCHANGED <<provider, row, tick, latched, consumer, shifts>>

\* The time the model provider advised has come.
RetryTimeComes ==
    /\ row.deferred
    /\ row' = [row EXCEPT !.deferred = FALSE]
    /\ UNCHANGED <<provider, wake, tick, latched, consumer, history, shifts, faults>>

Told == {e \in Execs : fate[e] \in {"told", "dropped"}}

\* start_watch: armed over the event in flight, else the one delivered.
StartWatch ==
    /\ row' = [row EXCEPT !.watching = TRUE,
                          !.baseline = IF row.pending # None THEN row.pending ELSE row.signaled]
    /\ armed' \in IF wake # None /\ row.pending # None THEN {wake.exec}
                  ELSE {e \in Told \union {0} : \A f \in Told : f <= e}

\* register_wait_watch
RegisterWatch ==
    /\ Unlocked
    /\ StartWatch
    /\ UNCHANGED <<provider, wake, tick, latched, consumer, fate, settled, shifts, faults>>

MutantArmForResume(d) ==
    /\ Unlocked /\ consumer \in {"none", "stored"}
    /\ consumer' = "stored"
    /\ To(d, "watched")
    /\ UNCHANGED <<provider, row, wake, latched, history, shifts, faults>>

\* register_wait_resume_consumer: the watch, the consumer, and a last poll.
ArmForResume(d) ==
    /\ Unlocked /\ consumer \in {"none", "stored"}
    /\ StartWatch
    /\ To(d, "watched")
    /\ UNCHANGED <<provider, wake, latched, consumer, fate, settled, shifts, faults>>

RegisterConsumer(d) ==
    /\ tick[d].at = "watched"
    /\ consumer' = "stored"
    /\ To(d, "registered")
    /\ UNCHANGED <<provider, row, wake, latched, history, shifts, faults>>

ReturnResume(d) ==
    /\ tick[d].at = "registered"
    /\ consumer' = IF provider.over THEN "served" ELSE "parked"
    /\ Over(d)
    /\ UNCHANGED <<provider, row, wake, latched, history, shifts, faults>>

\* A call of the tick fails or is cancelled; native control also ends the
\* reconciler for the rest of the process.
Interrupt(d) ==
    /\ tick[d].at # "idle" /\ Fault
    /\ latched' \in BOOLEAN
    /\ Over(d)
    /\ UNCHANGED <<provider, row, wake, consumer, history, shifts>>

\* The process dies, or is restarted after native control ended its
\* reconciler; a wake that was not harvested is lost.
Crash ==
    /\ IF latched THEN UNCHANGED faults ELSE Fault
    /\ wake' = None /\ latched' = FALSE
    /\ tick' = [d \in Drivers |-> Idle]
    /\ settled' = IF wake # None /\ row.pending # None THEN settled \ {wake.exec} ELSE settled
    /\ UNCHANGED <<provider, row, consumer, fate, armed, shifts>>

-----------------------------------------------------------------------------
TickStep(d) ==
    \/ StartTick(d) \/ NothingToHarvest(d) \/ Harvest(d) \/ Pop(d) \/ Poll(d) \/ Skip(d)
    \/ Rekey(d) \/ LockAtMaxAttempts(d) \/ RecordPending(d) \/ Enqueue(d)
    \/ RegisterConsumer(d) \/ ReturnResume(d)

TurnStep == \E result \in Result : TurnEnds(result)

Next ==
    \/ \E d \in Drivers : TickStep(d) \/ ArmForResume(d) \/ Interrupt(d)
    \/ NewExecution \/ Finish \/ Shift
    \/ TurnStep \/ RetryTimeComes \/ RegisterWatch \/ Crash

Spec == Init /\ [][Next]_vars

\* Some driver runs ticks for ever, a turn ends, and the advised time comes.
Fairness ==
    /\ WF_vars(\E d \in Drivers : TickStep(d))
    /\ WF_vars(TurnStep) /\ WF_vars(RetryTimeComes)

FairSpec == Spec /\ Fairness

-----------------------------------------------------------------------------
(***************************************************************************)
(* A wake is dispatched only while no other wake of the handle is in       *)
(* flight, and never for an execution whose wake has already run, unless a *)
(* crash lost the record of it: two drivers, re-labelled outcomes, another *)
(* view, retries and re-armed watches repeat nothing.  (An execution that  *)
(* was told by the retry of an older one's wake, under the older token, is *)
(* exempt: it is told again when the view switches back at once.)          *)
(***************************************************************************)
NoRepeatedWake ==
    [][wake' # None /\ wake'.state = "running" /\ wake' # wake
        => wake = None /\ wake'.exec \notin settled]_vars

\* The last execution is over and a watch, or the monitoring, is to tell it.
Expected(e) == provider.exec = e /\ provider.over /\ (Monitored \/ e > armed)

(***************************************************************************)
(* Every terminal event that is monitored, or that a watch did not know    *)
(* when it was registered (also from inside the turn of the wake before),  *)
(* is told to the agent, or given up after a permanent rejection or the    *)
(* last attempt, through crashes, interrupted ticks, soft failures, rate   *)
(* limits and re-keys.  Exempt are events overtaken by a new execution or  *)
(* by the wake that fires the watch, the accepted limit of a view switch,  *)
(* and native control.                                                     *)
(***************************************************************************)
EveryEventIsTold ==
    \A e \in Execs : Expected(e) ~> ~Expected(e) \/ fate[e] # "none" \/ latched

(***************************************************************************)
(* A durable resume consumer on which a caller has parked, and that no     *)
(* wake has reached yet, has an armed watch, so that its handle is polled: *)
(* "A consumer without a watch is an unrecoverable stall" (reconciler.py). *)
(* Wakes in flight or owed at the registration, re-keys and crashes do not *)
(* disarm it; only a wake that was given up does.                          *)
(***************************************************************************)
ConsumerIsWatched ==
    consumer = "parked" => row.watching \/ \E e \in Execs : fate[e] = "dropped"

=============================================================================
