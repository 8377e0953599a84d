------------------------- MODULE PushOutbox_proofs -------------------------
(***************************************************************************)
(* Theorems about PushOutbox, for every set of workers and every bound: a  *)
(* revocation drains, as the abstract specification Drain promises, a      *)
(* forgotten generation has no POST left, and no state change is lost.     *)
(*                                                                         *)
(* For revocation (RevocationInv), every action moves one worker without   *)
(* admitting a POST (Moves), admits one, or changes the state of           *)
(* generations.  For the changes (OwedInv), it moves one worker            *)
(* (Advances), rewrites the tables without noting anything new             *)
(* (TablesStay), or notes a row.                                           *)
(***************************************************************************)
EXTENDS PushOutbox, TLAPS

Stages == Running \union {"forward", "claim", "retire", "stopped"}

Run == [at : Stages, gen : Gens \union {0}, seq : Seqs \union {0}, seen : Nat,
        final : BOOLEAN, result : {"none", "ok", "error", "revoked"}]

\* The types the argument needs.
Shapes ==
    /\ task \in [version : Nat, over : BOOLEAN]
    /\ config \in [Gens -> {"none", "active", "deleting", "deleted"}]
    /\ worker \in [Workers -> Run]
    /\ deleting \in [Workers -> SUBSET Gens]

\* A delivery under way is one of a registered generation.
RunHasGen == \A w \in Workers : worker[w].at \in Running => worker[w].gen \in Gens

\* An admitted POST still has its credentials.
HttpHasCredentials ==
    \A w \in Workers : worker[w].at \in InHttp => config[worker[w].gen] \in {"active", "deleting"}

\* A Delete holds only generations that are revoked.
DeletingIsRevoked ==
    \A w \in Workers : \A g \in deleting[w] : config[g] \in {"deleting", "deleted"}

RevocationInv == Shapes /\ RunHasGen /\ HttpHasCredentials /\ DeletingIsRevoked

\* Worker w moves on without admitting a POST.
Moves(w) ==
    /\ UNCHANGED <<task, config>>
    /\ deleting' \in [Workers -> SUBSET Gens]
    /\ \A v \in Workers : deleting'[v] \subseteq deleting[v]
    /\ worker' \in [Workers -> Run]
    /\ \A v \in Workers \ {w} : worker'[v] = worker[v]
    /\ worker'[w].at \in Running => worker'[w].gen \in Gens
    /\ worker'[w].at \in InHttp => worker[w].at \in InHttp /\ worker'[w].gen = worker[w].gen

-----------------------------------------------------------------------------
(***************************************************************************)
(* A move keeps the invariant, and no generation gains a user.             *)
(***************************************************************************)
LEMMA MovesKeep ==
    ASSUME RevocationInv, NEW w \in Workers, Moves(w)
    PROVE RevocationInv' /\ Generations!Next
<1>1. Shapes'
  BY DEF RevocationInv, Shapes, Moves
<1>2. RunHasGen'
  BY DEF RevocationInv, RunHasGen, Moves
<1>3. HttpHasCredentials'
  BY DEF RevocationInv, HttpHasCredentials, Moves
<1>4. DeletingIsRevoked'
  BY DEF RevocationInv, DeletingIsRevoked, Moves
<1>5. Generations!Next
  <2> SUFFICES ASSUME NEW g \in Gens PROVE Generations!Leave(g)
    BY DEF Generations!Next
  <2>1. {v \in Workers : worker'[v].at \in InHttp /\ worker'[v].gen = g}
        \subseteq {v \in Workers : worker[v].at \in InHttp /\ worker[v].gen = g}
    BY DEF Moves
  <2> QED BY <2>1 DEF Moves, Generations!Leave
<1> QED BY <1>1, <1>2, <1>3, <1>4, <1>5 DEF RevocationInv

(***************************************************************************)
(* Neither does a step that leaves generations, workers and Deletes alone. *)
(***************************************************************************)
LEMMA QuietKeeps ==
    ASSUME RevocationInv, UNCHANGED <<config, worker, deleting>>,
           task' \in [version : Nat, over : BOOLEAN]
    PROVE RevocationInv' /\ Generations!Next
<1>1. RevocationInv'
  BY DEF RevocationInv, Shapes, RunHasGen, HttpHasCredentials, DeletingIsRevoked
<1>2. ASSUME NEW g \in Gens PROVE Generations!Leave(g)
  BY DEF Generations!Leave
<1> QED BY <1>1, <1>2 DEF Generations!Next

(***************************************************************************)
(* The steps of a pass other than admission and retirement, refusals,      *)
(* failed closes and process exits are moves.                              *)
(***************************************************************************)
LEMMA StepsMove ==
    ASSUME RevocationInv, NEW w \in Workers,
           \/ Forward(w) \/ Claim(w) \/ NothingDue(w) \/ Prepare(w) \/ Dispatch(w)
           \/ Confirm(w) \/ HttpError(w) \/ Cancel(w) \/ Refuse(w) \/ Close(w)
           \/ CloseFails(w) \/ Ack(w) \/ Nack(w) \/ Crash(w) \/ Restart(w)
    PROVE Moves(w)
<1> USE DEF Moves, RevocationInv, Shapes, RunHasGen, Run, Stages, Running, InHttp
<1>1. CASE Forward(w) BY <1>1 DEF Forward
<1>2. CASE Claim(w)
  <2>1. PICK g \in Gens, s \in Seqs :
            worker' = [worker EXCEPT ![w] = [@ EXCEPT !.at = "claimed", !.gen = g, !.seq = s]]
    BY <1>2 DEF Claim
  <2>2. UNCHANGED <<task, config, deleting>>
    BY <1>2 DEF Claim
  <2>3. worker'[w] = [worker[w] EXCEPT !.at = "claimed", !.gen = g, !.seq = s] /\ worker[w] \in Run
    BY <2>1
  <2>4. worker'[w] \in Run /\ worker'[w].at = "claimed" /\ worker'[w].gen = g
    BY <2>3
  <2> QED BY <2>1, <2>2, <2>4
<1>3. CASE NothingDue(w) BY <1>3 DEF NothingDue, Over, Pass
<1>4. CASE Prepare(w)
  <2>1. worker'[w] \in Run /\ worker'[w].at \notin InHttp /\ worker'[w].gen \in {worker[w].gen, 0}
    BY <1>4 DEF Prepare, Over, Pass
  <2>2. worker'[w].at \in Running => worker'[w].gen = worker[w].gen
    BY <1>4 DEF Prepare, Over, Pass
  <2> QED BY <1>4, <2>1, <2>2 DEF Prepare
<1>5. CASE Dispatch(w) BY <1>5 DEF Dispatch
<1>6. CASE Confirm(w)
  <2>1. worker' = [worker EXCEPT ![w].at = "closing", ![w].result = "ok"] /\ worker[w].at \in InHttp
    BY <1>6 DEF Confirm
  <2>2. worker'[w] = [worker[w] EXCEPT !.at = "closing", !.result = "ok"] /\ worker[w] \in Run
    BY <2>1
  <2>3. worker'[w] \in Run /\ worker'[w].at = "closing" /\ worker'[w].gen = worker[w].gen
    BY <2>2
  <2>4. UNCHANGED <<task, config, deleting>>
    BY <1>6 DEF Confirm
  <2> QED BY <2>1, <2>3, <2>4
<1>7. CASE HttpError(w)
  <2>1. worker' = [worker EXCEPT ![w].at = "closing", ![w].result = "error"] /\ worker[w].at \in InHttp
    BY <1>7 DEF HttpError
  <2>2. worker'[w] = [worker[w] EXCEPT !.at = "closing", !.result = "error"] /\ worker[w] \in Run
    BY <2>1
  <2>3. worker'[w] \in Run /\ worker'[w].at = "closing" /\ worker'[w].gen = worker[w].gen
    BY <2>2
  <2>4. UNCHANGED <<task, config, deleting>>
    BY <1>7 DEF HttpError
  <2> QED BY <2>1, <2>3, <2>4
<1>8. CASE Cancel(w) BY <1>8 DEF Cancel, Withdrawn, Over, Pass
<1>9. CASE Refuse(w) BY <1>9 DEF Refuse, Withdrawn, Over, Pass
<1>10. CASE Close(w) BY <1>10 DEF Close, Over, Pass
<1>11. CASE CloseFails(w) BY <1>11 DEF CloseFails
<1>12. CASE Ack(w) BY <1>12 DEF Ack, Over, Pass
<1>13. CASE Nack(w)
  <2>1. worker' = [worker EXCEPT ![w] = Over] \/ worker' = [worker EXCEPT ![w] = Pass("stopped")]
    BY <1>13 DEF Nack
  <2>2. UNCHANGED <<task, config, deleting>>
    BY <1>13 DEF Nack
  <2>3. CASE worker' = [worker EXCEPT ![w] = Over]
    BY <2>2, <2>3 DEF Over, Pass
  <2>4. CASE worker' = [worker EXCEPT ![w] = Pass("stopped")]
    BY <2>2, <2>4 DEF Pass
  <2> QED BY <2>1, <2>3, <2>4
<1>14. CASE Crash(w) BY <1>14 DEF Crash, Exit, Pass
<1>15. CASE Restart(w) BY <1>15 DEF Restart, Exit, Pass
<1> QED BY <1>1, <1>2, <1>3, <1>4, <1>5, <1>6, <1>7, <1>8, <1>9, <1>10, <1>11, <1>12,
           <1>13, <1>14, <1>15

(***************************************************************************)
(* A POST is admitted only for an active generation, which gains one user. *)
(***************************************************************************)
LEMMA AdmitKeeps ==
    ASSUME RevocationInv, NEW w \in Workers, Admit(w)
    PROVE RevocationInv' /\ Generations!Next
<1> DEFINE h == worker[w].gen
<1>1. UNCHANGED <<task, config, deleting>> /\ h \in Gens
  BY DEF Admit, RevocationInv, RunHasGen, Running
<1>2. CASE config[h] # "active"
  <2>1. worker' = [worker EXCEPT ![w] = Over]
    BY <1>2 DEF Admit
  <2>2. Moves(w)
    BY <1>1, <2>1 DEF Moves, RevocationInv, Shapes, Run, Stages, Running, InHttp, Over, Pass
  <2> QED BY <2>2, MovesKeep
<1>3. CASE config[h] = "active"
  <2>1. worker' = [worker EXCEPT ![w] = [worker[w] EXCEPT !.at = "admitted"]]
    BY <1>3 DEF Admit
  <2>2. /\ worker' \in [Workers -> Run]
        /\ worker'[w].at = "admitted" /\ worker'[w].gen = h
        /\ \A v \in Workers \ {w} : worker'[v] = worker[v]
    BY <2>1 DEF RevocationInv, Shapes, Run, Stages, Running, InHttp
  <2>3. RevocationInv'
    BY <1>1, <1>3, <2>2
       DEF RevocationInv, Shapes, RunHasGen, HttpHasCredentials, DeletingIsRevoked, Running, InHttp
  <2>4. ASSUME NEW g \in Gens PROVE Generations!Enter(g, w) \/ Generations!Leave(g)
    <3> DEFINE Users(run) == {v \in Workers : run[v].at \in InHttp /\ run[v].gen = g}
    <3>1. worker[w].at \notin InHttp
      BY DEF Admit, InHttp
    <3>2. CASE g = h
      <4>1. Users(worker') = Users(worker) \union {w}
        BY <2>2, <3>2 DEF InHttp
      <4>2. Phase(config[g]) = "open" /\ Phase(config'[g]) = "open"
        BY <1>1, <1>3, <3>2 DEF Phase
      <4> QED BY <4>1, <4>2 DEF Generations!Enter
    <3>3. CASE g # h
      <4>1. Users(worker') = Users(worker)
        BY <2>2, <3>1, <3>3
      <4> QED BY <1>1, <4>1 DEF Generations!Leave
    <3> QED BY <3>2, <3>3
  <2> QED BY <2>3, <2>4 DEF Generations!Next
<1> QED BY <1>2, <1>3

-----------------------------------------------------------------------------
(* Generations change.                                                     *)

(***************************************************************************)
(* What a generation may do while nobody enters: shut, go when unused, or  *)
(* open when it is new.                                                    *)
(***************************************************************************)
Ages(g) ==
    \/ config'[g] = config[g]
    \/ config[g] = "none" /\ config'[g] = "active"
    \/ config[g] = "active" /\ config'[g] = "deleting"
    \/ config[g] = "deleting" /\ config'[g] = "deleted" /\ ~Busy(g)

(***************************************************************************)
(* Then the abstract specification takes a step.                           *)
(***************************************************************************)
LEMMA AgesDrain ==
    ASSUME RevocationInv, \A g \in Gens : Ages(g),
           \A v \in Workers :
               worker'[v] # worker[v] => worker[v].at \notin InHttp /\ worker'[v].at \notin InHttp
    PROVE Generations!Next
<1> SUFFICES ASSUME NEW g \in Gens
             PROVE \/ Generations!Open(g) \/ Generations!Leave(g)
                   \/ Generations!Shut(g) \/ Generations!Retire(g)
  BY DEF Generations!Next
<1> DEFINE Users(run) == {v \in Workers : run[v].at \in InHttp /\ run[v].gen = g}
<1>1. Users(worker') = Users(worker)
  OBVIOUS
<1>2. CASE config'[g] = config[g]
  BY <1>1, <1>2 DEF Generations!Leave
<1>3. CASE config[g] = "none" /\ config'[g] = "active"
  BY <1>1, <1>3 DEF Generations!Open, Phase
<1>4. CASE config[g] = "active" /\ config'[g] = "deleting"
  BY <1>1, <1>4 DEF Generations!Shut, Phase
<1>5. CASE config[g] = "deleting" /\ config'[g] = "deleted" /\ ~Busy(g)
  <2>1. Users(worker) = {}
    BY <1>5 DEF Busy
  <2> QED BY <1>1, <1>5, <2>1 DEF Generations!Retire, Phase
<1> QED BY <1>2, <1>3, <1>4, <1>5 DEF Ages

(***************************************************************************)
(* A registration replaces the active generation by a new one.             *)
(***************************************************************************)
LEMMA RegisterKeeps ==
    ASSUME RevocationInv, Register
    PROVE RevocationInv' /\ Generations!Next
<1>1. PICK g \in Gens :
        /\ config[g] = "none"
        /\ config' = [h \in Gens |-> IF h = g THEN "active"
                                     ELSE IF config[h] = "active" THEN "deleting" ELSE config[h]]
        /\ UNCHANGED <<task, worker, deleting>>
  BY DEF Register
<1>2. \A h \in Gens : Ages(h)
  BY <1>1 DEF Ages
<1>3. Shapes' /\ RunHasGen' /\ DeletingIsRevoked'
  BY <1>1 DEF RevocationInv, Shapes, RunHasGen, DeletingIsRevoked
<1>4. HttpHasCredentials'
  BY <1>1 DEF RevocationInv, Shapes, RunHasGen, HttpHasCredentials, Running
<1>5. Generations!Next
  BY <1>1, <1>2, AgesDrain
<1> QED BY <1>3, <1>4, <1>5 DEF RevocationInv

(***************************************************************************)
(* A Delete revokes what is active and lists what is revoked.              *)
(***************************************************************************)
LEMMA DeleteKeeps ==
    ASSUME RevocationInv, NEW w \in Workers, Delete(w)
    PROVE RevocationInv' /\ Generations!Next
<1>1. /\ config' = [g \in Gens |-> IF config[g] = "active" THEN "deleting" ELSE config[g]]
      /\ deleting' = [deleting EXCEPT ![w] = Revoked]
      /\ UNCHANGED <<task, worker>>
  BY DEF Delete
<1>2. \A g \in Gens : Ages(g)
  BY <1>1 DEF Ages
<1>3. Shapes' /\ RunHasGen' /\ DeletingIsRevoked'
  BY <1>1 DEF RevocationInv, Shapes, RunHasGen, DeletingIsRevoked, Revoked
<1>4. HttpHasCredentials'
  BY <1>1 DEF RevocationInv, Shapes, RunHasGen, HttpHasCredentials, Running
<1>5. Generations!Next
  BY <1>1, <1>2, AgesDrain
<1> QED BY <1>3, <1>4, <1>5 DEF RevocationInv

(***************************************************************************)
(* A Delete forgets a generation, or gives up on one that is in use.       *)
(***************************************************************************)
LEMMA FinishDeleteKeeps ==
    ASSUME RevocationInv, NEW w \in Workers, FinishDelete(w)
    PROVE RevocationInv' /\ Generations!Next
<1>1. PICK g \in deleting[w] :
        /\ IF Busy(g)
           THEN deleting' = [deleting EXCEPT ![w] = {}] /\ UNCHANGED config
           ELSE /\ deleting' = [deleting EXCEPT ![w] = @ \ {g}]
                /\ config' = [config EXCEPT ![g] = "deleted"]
        /\ UNCHANGED <<task, worker>>
  BY DEF FinishDelete
<1>2. g \in Gens /\ config[g] \in {"deleting", "deleted"}
  BY DEF RevocationInv, Shapes, DeletingIsRevoked
<1>3. CASE Busy(g)
  <2>1. Moves(w)
    BY <1>1, <1>3 DEF Moves, RevocationInv, Shapes, RunHasGen
  <2> QED BY <2>1, MovesKeep
<1>4. CASE ~Busy(g)
  <2>1. /\ deleting' = [deleting EXCEPT ![w] = @ \ {g}]
        /\ config' = [config EXCEPT ![g] = "deleted"]
        /\ UNCHANGED <<task, worker>>
    BY <1>1, <1>4
  <2>2. \A h \in Gens : Ages(h)
    BY <1>2, <1>4, <2>1 DEF Ages, RevocationInv, Shapes
  <2>3. Shapes' /\ RunHasGen' /\ DeletingIsRevoked'
    BY <1>2, <2>1 DEF RevocationInv, Shapes, RunHasGen, DeletingIsRevoked
  <2>4. HttpHasCredentials'
    BY <1>2, <1>4, <2>1 DEF RevocationInv, Shapes, HttpHasCredentials, Busy
  <2>5. Generations!Next
    BY <2>1, <2>2, AgesDrain
  <2> QED BY <2>3, <2>4, <2>5 DEF RevocationInv
<1> QED BY <1>3, <1>4

(***************************************************************************)
(* The resident's cleanup forgets revoked generations that are not in use. *)
(***************************************************************************)
LEMMA RetireHistoryKeeps ==
    ASSUME RevocationInv, NEW w \in Workers, RetireHistory(w)
    PROVE RevocationInv' /\ Generations!Next
<1>1. /\ worker[w].at = "retire"
      /\ worker' = [worker EXCEPT ![w].at = "forward"]
      /\ config' = [g \in Gens |-> IF config[g] = "deleting" /\ ~Busy(g) THEN "deleted" ELSE config[g]]
      /\ UNCHANGED <<task, deleting>>
  BY DEF RetireHistory
<1>2. /\ worker' \in [Workers -> Run]
      /\ worker'[w].at = "forward"
      /\ \A v \in Workers \ {w} : worker'[v] = worker[v]
  BY <1>1 DEF RevocationInv, Shapes, Run, Stages
<1>3. \A g \in Gens : Ages(g)
  BY <1>1 DEF Ages
<1>4. Shapes' /\ RunHasGen' /\ DeletingIsRevoked'
  BY <1>1, <1>2 DEF RevocationInv, Shapes, RunHasGen, DeletingIsRevoked, Running, InHttp
<1>5. HttpHasCredentials'
  BY <1>1, <1>2 DEF RevocationInv, Shapes, RunHasGen, HttpHasCredentials, Busy, Running, InHttp
<1>6. Generations!Next
  <2>1. \A v \in Workers :
            worker'[v] # worker[v] => worker[v].at \notin InHttp /\ worker'[v].at \notin InHttp
    BY <1>1, <1>2 DEF InHttp
  <2> QED BY <1>3, <2>1, AgesDrain
<1> QED BY <1>4, <1>5, <1>6 DEF RevocationInv

-----------------------------------------------------------------------------
(***************************************************************************)
(* Initially no generation is registered and no POST is under way.         *)
(***************************************************************************)
LEMMA InitHolds == Init => RevocationInv /\ Generations!Init
<1> SUFFICES ASSUME Init PROVE RevocationInv /\ Generations!Init
  OBVIOUS
<1>1. worker \in [Workers -> Run] /\ \A w \in Workers : worker[w].at = "forward"
  BY DEF Init, Pass, Run, Stages
<1>2. RevocationInv
  BY <1>1, BoundsAssumption DEF Init, RevocationInv, Shapes, RunHasGen, HttpHasCredentials,
     DeletingIsRevoked, Running, InHttp
<1>3. \A g \in Gens : /\ Phase(config[g]) = "new"
                      /\ {w \in Workers : worker[w].at \in InHttp /\ worker[w].gen = g} = {}
  BY <1>1 DEF Init, Phase, InHttp
<1>4. Generations!Init
  BY <1>3 DEF Generations!Init
<1> QED BY <1>2, <1>4

(***************************************************************************)
(* Every step keeps the invariant and is a step of Drain, or a stutter.    *)
(***************************************************************************)
LEMMA NextKeeps ==
    ASSUME RevocationInv, Next
    PROVE RevocationInv' /\ Generations!Next
<1>1. CASE Register
  BY <1>1, RegisterKeeps
<1>2. CASE LeaseRunsOut
  <2>1. UNCHANGED <<task, config, worker, deleting>>
    BY <1>2 DEF LeaseRunsOut, ExpireLease
  <2> QED BY <2>1, QuietKeeps DEF RevocationInv, Shapes
<1>3. ASSUME NEW over \in BOOLEAN, ChangeTask(over)
      PROVE RevocationInv' /\ Generations!Next
  <2>1. UNCHANGED <<config, worker, deleting>> /\ task' = [version |-> task.version + 1, over |-> over]
    BY <1>3 DEF ChangeTask
  <2>2. task' \in [version : Nat, over : BOOLEAN]
    BY <2>1 DEF RevocationInv, Shapes
  <2> QED BY <2>1, <2>2, QuietKeeps
<1>4. ASSUME NEW w \in Workers,
             \/ PassStep(w) \/ Refuse(w) \/ CloseFails(w)
             \/ Delete(w) \/ FinishDelete(w) \/ Crash(w) \/ Restart(w)
      PROVE RevocationInv' /\ Generations!Next
  <2>1. CASE Admit(w) BY <2>1, AdmitKeeps
  <2>2. CASE RetireHistory(w) BY <2>2, RetireHistoryKeeps
  <2>3. CASE Delete(w) BY <2>3, DeleteKeeps
  <2>4. CASE FinishDelete(w) BY <2>4, FinishDeleteKeeps
  <2>5. CASE \/ Forward(w) \/ Claim(w) \/ NothingDue(w) \/ Prepare(w) \/ Dispatch(w)
             \/ Confirm(w) \/ HttpError(w) \/ Cancel(w) \/ Refuse(w) \/ Close(w)
             \/ CloseFails(w) \/ Ack(w) \/ Nack(w) \/ Crash(w) \/ Restart(w)
    BY <2>5, StepsMove, MovesKeep
  <2> QED BY <1>4, <2>1, <2>2, <2>3, <2>4, <2>5 DEF PassStep
<1> QED BY <1>1, <1>2, <1>3, <1>4 DEF Next

(***************************************************************************)
(* An admitted POST always has a generation whose credentials are stored,  *)
(* and a Delete lists only revoked generations.                            *)
(***************************************************************************)
THEOREM RevocationInvHolds == Spec => []RevocationInv
<1>1. Init => RevocationInv
  BY InitHolds
<1>2. RevocationInv /\ [Next]_vars => RevocationInv'
  <2>1. RevocationInv /\ Next => RevocationInv'
    BY NextKeeps
  <2>2. RevocationInv /\ UNCHANGED vars => RevocationInv'
    BY DEF vars, RevocationInv, Shapes, RunHasGen, HttpHasCredentials, DeletingIsRevoked
  <2> QED BY <2>1, <2>2
<1> QED BY <1>1, <1>2, PTL DEF Spec

(***************************************************************************)
(* Revocation implements Drain (push_outbox.py revoke and register, the    *)
(* worker's delete, push_config_store.py): no POST is admitted for a       *)
(* revoked generation, and none is forgotten before its last POST, for any *)
(* number of processes, registrations and faults.                          *)
(***************************************************************************)
THEOREM GenerationsDrain == Spec => RevocationDrains
<1>1. Init => Generations!Init
  BY InitHolds
<1>2. RevocationInv /\ [Next]_vars => [Generations!Next]_(Generations!vars)
  <2>1. RevocationInv /\ Next => Generations!Next
    BY NextKeeps
  <2>2. UNCHANGED vars => UNCHANGED Generations!vars
    BY DEF vars, Generations!vars
  <2> QED BY <2>1, <2>2
<1> QED BY <1>1, <1>2, RevocationInvHolds, PTL DEF Spec, RevocationDrains, Generations!Spec

(***************************************************************************)
(* A generation whose credentials are forgotten has no open POST in any    *)
(* living process: finish_delete and retire_ready are sound.               *)
(***************************************************************************)
THEOREM ForgottenIsQuiet == Spec => []DeletedIsQuiet
<1>1. RevocationInv => DeletedIsQuiet
  BY DEF RevocationInv, HttpHasCredentials, DeletedIsQuiet, Busy
<1> QED BY <1>1, RevocationInvHolds, PTL

-----------------------------------------------------------------------------
(* Every change is owed until it is confirmed.                             *)

\* Rows are noted by registrations, one for each generation, and by changes.
JournalInv ==
    /\ journal \in Seq([version : 0..(MaxChanges + 1), state : {"pending", "forwarded", "purged"}])
    /\ \E k \in 0..MaxGens :
          /\ \A g \in Gens : config[g] # "none" <=> g <= k
          /\ Len(journal) < k + task.version
    /\ \A s \in 1..Len(journal) : journal[s].version <= task.version
    /\ \A g \in Gens : after[g] <= Len(journal) /\ sent[g] <= task.version

\* Deliveries are of rows that were forwarded to a registered generation, whose
\* consumer stays until it is revoked or has seen the end of the task.
RowsInv ==
    \A g \in Gens :
        /\ \A s \in Seqs : row[g][s].state # "absent" => s <= Len(journal) /\ config[g] # "none"
        /\ consumer[g] => config[g] # "none"
        /\ config[g] = "active" /\ ~consumer[g] => task.over

\* What worker w has read is at least as new as the row it delivers.
Reads(w) ==
    /\ worker[w].seen <= task.version
    /\ journal[worker[w].seq].version <= worker[w].seen
    /\ worker[w].final => task.over /\ worker[w].seen = task.version

\* A success was confirmed by the callback, or the row is not the generation's.
Confirmed(w) ==
    \/ worker[w].seq <= after[worker[w].gen] /\ ~worker[w].final
    \/ Reads(w) /\ worker[w].seen <= sent[worker[w].gen]

RunInv(w) ==
    /\ worker[w].at \in Running =>
          /\ worker[w].gen \in Gens /\ config[worker[w].gen] # "none"
          /\ worker[w].seq \in 1..Len(journal)
    /\ worker[w].at \in {"retire", "forward", "claim", "claimed"} => ~worker[w].final
    /\ worker[w].at \in {"ready", "admitted", "sending"} => Reads(w)
    /\ worker[w].at \in {"closing", "settling"} /\ worker[w].result = "ok" => Confirmed(w)

DeliveryInv == \A w \in Workers : RunInv(w)

OwedInv == TypeOK /\ JournalInv /\ RowsInv /\ DeliveryInv /\ NothingOwed

RunType == [at : Running \union {"forward", "claim", "retire", "stopped"},
            gen : Gens \union {0}, seq : Seqs \union {0}, seen : 0..(MaxChanges + 1),
            final : BOOLEAN, result : {"none", "ok", "error", "revoked"}]

RowType == [state : {"absent", "open", "leased", "settled"},
            owner : Workers \union {None}, tries : 0..MaxAttempts]

\* Worker w moves on: tables, task and history stay.
Advances(w) ==
    /\ UNCHANGED <<task, journal, config, consumer, after, row, sent, gaveUp>>
    /\ worker' \in [Workers -> RunType]
    /\ \A v \in Workers \ {w} : worker'[v] = worker[v]
    /\ orphan' \subseteq Gens /\ deleting' \in [Workers -> SUBSET Gens]
    /\ faults' \in 0..MaxFaults

\* A worker that moves on keeps the invariant if it keeps its own part.
LEMMA AdvanceKeeps ==
    ASSUME OwedInv, NEW w \in Workers, Advances(w), RunInv(w)'
    PROVE OwedInv'
<1>1. TypeOK'
  BY DEF OwedInv, TypeOK, Advances, RunType
<1>2. JournalInv' /\ RowsInv'
  BY DEF OwedInv, JournalInv, RowsInv, Advances
<1>3. ASSUME NEW v \in Workers \ {w} PROVE RunInv(v)'
  BY DEF OwedInv, DeliveryInv, RunInv, Reads, Confirmed, Advances
<1>4. NothingOwed'
  BY DEF OwedInv, NothingOwed, Advances
<1> QED BY <1>1, <1>2, <1>3, <1>4 DEF OwedInv, DeliveryInv

\* Nothing is asked of a worker between two deliveries.
LEMMA PassIsSound ==
    ASSUME NEW w \in Workers, NEW step \in {"forward", "retire", "stopped"}, worker'[w] = Pass(step)
    PROVE RunInv(w)'
BY DEF RunInv, Pass, Running, InHttp

\* A worker between two deliveries holds none.
LEMMA PassType ==
    ASSUME NEW step \in {"forward", "retire", "stopped"}
    PROVE Pass(step) \in RunType
BY BoundsAssumption DEF Pass, RunType

\* The steps of one delivery that change nothing but the worker.
LEMMA StepsAdvance ==
    ASSUME OwedInv, NEW w \in Workers,
           \/ NothingDue(w) \/ Prepare(w) \/ Admit(w) \/ Dispatch(w) \/ HttpError(w)
           \/ Cancel(w) \/ Refuse(w) \/ Close(w) \/ CloseFails(w) \/ Crash(w) \/ Restart(w)
    PROVE OwedInv'
<1> DEFINE r == worker[w]
<1>0. /\ worker \in [Workers -> RunType] /\ r \in RunType /\ RunInv(w)
      /\ task.version \in 0..(MaxChanges + 1) /\ task.over \in BOOLEAN
      /\ orphan \subseteq Gens /\ deleting \in [Workers -> SUBSET Gens] /\ faults \in 0..MaxFaults
  BY DEF OwedInv, TypeOK, RunType, DeliveryInv
<1> DEFINE Stage(x) ==
         \/ x = Pass("retire") \/ x = Pass("forward")
         \/ /\ x = [r EXCEPT !.at = "closing", !.result = "revoked"] /\ r.at \in Running
         \/ /\ x = [r EXCEPT !.at = "closing", !.result = "error"] /\ r.at \in Running
         \/ /\ x = [r EXCEPT !.at = "settling", !.result = "ok"]
            /\ r.at = "claimed" /\ r.seq <= after[r.gen]
         \/ /\ x = [r EXCEPT !.at = "ready", !.seen = task.version, !.final = task.over]
            /\ r.at = "claimed"
         \/ x = [r EXCEPT !.at = "admitted"] /\ r.at = "ready"
         \/ x = [r EXCEPT !.at = "sending"] /\ r.at = "admitted"
         \/ x = [r EXCEPT !.at = "settling"] /\ r.at = "closing"
         \/ x = [r EXCEPT !.at = "debt"] /\ r.at = "closing"
<1>1. \E x : worker' = [worker EXCEPT ![w] = x] /\ Stage(x)
  <2>1. CASE NothingDue(w) BY <2>1 DEF NothingDue, Over
  <2>2. CASE Prepare(w) BY <2>2 DEF Prepare, Over
  <2>3. CASE Admit(w) BY <2>3 DEF Admit, Over
  <2>4. CASE Dispatch(w) BY <2>4 DEF Dispatch
  <2>5. CASE HttpError(w)
    <3>1. worker' = [worker EXCEPT ![w] = [r EXCEPT !.at = "closing", !.result = "error"]]
          /\ r.at \in Running
      BY <1>0, <2>5 DEF HttpError, Running, InHttp
    <3> QED BY <3>1
  <2>6. CASE Cancel(w) BY <2>6 DEF Cancel, Withdrawn, Over
  <2>7. CASE Refuse(w) BY <2>7 DEF Refuse, Withdrawn, Over
  <2>8. CASE Close(w) BY <2>8 DEF Close, Over
  <2>9. CASE CloseFails(w) BY <2>9 DEF CloseFails
  <2>10. CASE Crash(w) BY <2>10 DEF Crash, Exit
  <2>11. CASE Restart(w) BY <2>11 DEF Restart, Exit
  <2> QED BY <2>1, <2>2, <2>3, <2>4, <2>5, <2>6, <2>7, <2>8, <2>9, <2>10, <2>11
<1>2. PICK x : worker' = [worker EXCEPT ![w] = x] /\ Stage(x)
  BY <1>1
<1>3. x \in RunType
  BY <1>0, <1>2, PassType DEF RunType, Running, InHttp
<1>4. worker' \in [Workers -> RunType] /\ worker'[w] = x /\ \A v \in Workers \ {w} : worker'[v] = worker[v]
  BY <1>0, <1>2, <1>3
<1>5. /\ UNCHANGED <<task, journal, config, consumer, after, row, sent, gaveUp>>
      /\ faults' = faults \/ Fault
      /\ (orphan' = orphan /\ deleting' = deleting) \/ Exit(w)
  BY DEF NothingDue, Prepare, Admit, Dispatch, HttpError, Cancel, Refuse, Close, CloseFails,
     Crash, Restart, Exit, history
<1>6. faults' \in 0..MaxFaults
  BY <1>0, <1>5, BoundsAssumption DEF Fault
<1>7. orphan' \subseteq Gens /\ deleting' \in [Workers -> SUBSET Gens]
  BY <1>0, <1>5 DEF Exit, RunInv, Running
<1>8. Advances(w)
  BY <1>4, <1>5, <1>6, <1>7 DEF Advances
<1>9. RunInv(w)'
  <2>1. CASE x = Pass("retire") \/ x = Pass("forward")
    BY <1>4, <2>1, PassIsSound
  <2>2. CASE /\ \/ x = [r EXCEPT !.at = "closing", !.result = "revoked"]
                \/ x = [r EXCEPT !.at = "closing", !.result = "error"]
             /\ r.at \in Running
    <3>1. x.at = "closing" /\ x.result # "ok" /\ x.gen = r.gen /\ x.seq = r.seq
      BY <1>0, <2>2 DEF RunType
    <3> QED BY <1>0, <1>4, <1>5, <2>2, <3>1 DEF RunInv
  <2>3. CASE /\ x = [r EXCEPT !.at = "settling", !.result = "ok"]
             /\ r.at = "claimed" /\ r.seq <= after[r.gen]
    <3>1. x.at = "settling" /\ x.gen = r.gen /\ x.seq = r.seq /\ x.final = r.final
      BY <1>0, <2>3 DEF RunType
    <3> QED BY <1>0, <1>4, <1>5, <2>3, <3>1 DEF RunInv, Confirmed, Running
  <2>4. CASE /\ x = [r EXCEPT !.at = "ready", !.seen = task.version, !.final = task.over]
             /\ r.at = "claimed"
    <3>1. x.at = "ready" /\ x.gen = r.gen /\ x.seq = r.seq /\ x.seen = task.version /\ x.final = task.over
      BY <1>0, <2>4 DEF RunType
    <3>2. r.seq \in 1..Len(journal) /\ r.gen \in Gens /\ config[r.gen] # "none"
      BY <1>0, <2>4 DEF RunInv, Running
    <3>3. journal[r.seq].version <= task.version
      BY <3>2 DEF OwedInv, JournalInv
    <3> QED BY <1>0, <1>4, <1>5, <3>1, <3>2, <3>3 DEF RunInv, Reads
  <2>5. CASE \/ x = [r EXCEPT !.at = "admitted"] /\ r.at = "ready"
             \/ x = [r EXCEPT !.at = "sending"] /\ r.at = "admitted"
    <3>1. /\ x.at \in {"admitted", "sending"} /\ x.gen = r.gen /\ x.seq = r.seq
          /\ x.seen = r.seen /\ x.final = r.final
      BY <1>0, <2>5 DEF RunType
    <3> QED BY <1>0, <1>4, <1>5, <2>5, <3>1 DEF RunInv, Reads, Running, InHttp
  <2>6. CASE \/ x = [r EXCEPT !.at = "settling"] /\ r.at = "closing"
             \/ x = [r EXCEPT !.at = "debt"] /\ r.at = "closing"
    <3>1. /\ x.at \in {"settling", "debt"} /\ x.gen = r.gen /\ x.seq = r.seq
          /\ x.seen = r.seen /\ x.final = r.final /\ x.result = r.result
      BY <1>0, <2>6 DEF RunType
    <3> QED BY <1>0, <1>4, <1>5, <2>6, <3>1 DEF RunInv, Reads, Confirmed, Running, InHttp
  <2> QED BY <1>2, <2>1, <2>2, <2>3, <2>4, <2>5, <2>6
<1> QED BY <1>8, <1>9, AdvanceKeeps

JournalRow == [version : 0..(MaxChanges + 1), state : {"pending", "forwarded", "purged"}]

\* Journal row s tells generation g of the newest state.
OnTheWay(g, s) ==
    /\ consumer[g] /\ journal[s].version = task.version
    /\ journal[s].state = "pending" \/ row[g][s].state \in {"open", "leased"}

\* Nothing is noted or registered: rows keep their versions or are purged,
\* generations are at most revoked.
TablesStay ==
    /\ UNCHANGED <<task, after>>
    /\ journal' \in Seq(JournalRow) /\ Len(journal') = Len(journal)
    /\ \A s \in 1..Len(journal) : journal'[s].version <= journal[s].version
    /\ \A g \in Gens : /\ config'[g] # "none" <=> config[g] # "none"
                       /\ config'[g] = "active" => config[g] = "active"
                       /\ sent[g] <= sent'[g] /\ sent'[g] <= task.version
    /\ gaveUp \subseteq gaveUp'

\* When nothing is noted or registered, what is owed stays owed or is confirmed.
LEMMA TablesKeep ==
    ASSUME OwedInv, TablesStay, TypeOK', RowsInv',
           \A v \in Workers : worker'[v] = worker[v] \/ RunInv(v)',
           \A g \in Gens \ gaveUp', s \in 1..Len(journal) :
               config'[g] = "active" /\ after[g] < s /\ OnTheWay(g, s)
                   => OnTheWay(g, s)' \/ sent'[g] = task.version
    PROVE OwedInv'
<1>1. /\ task.version \in 0..(MaxChanges + 1) /\ Len(journal) \in Nat /\ MaxChanges \in Nat
      /\ \A g \in Gens : after[g] \in Nat /\ sent[g] \in Nat /\ sent'[g] \in Nat
      /\ \A s \in 1..Len(journal) : journal[s].version \in Nat /\ journal'[s].version \in Nat
  BY BoundsAssumption DEF OwedInv, TypeOK, TablesStay
<1>2. JournalInv'
  <2>1. journal' \in Seq([version : 0..(MaxChanges + 1), state : {"pending", "forwarded", "purged"}])
    BY DEF TablesStay, JournalRow
  <2>2. \E k \in 0..MaxGens :
          /\ \A g \in Gens : config'[g] # "none" <=> g <= k
          /\ Len(journal') < k + task'.version
    BY DEF OwedInv, JournalInv, TablesStay
  <2>3. \A s \in 1..Len(journal') : journal'[s].version <= task'.version
    BY <1>1 DEF OwedInv, JournalInv, TablesStay
  <2>4. \A g \in Gens : after'[g] <= Len(journal') /\ sent'[g] <= task'.version
    BY DEF OwedInv, JournalInv, TablesStay
  <2> QED BY <2>1, <2>2, <2>3, <2>4 DEF JournalInv
<1>3. ASSUME NEW v \in Workers, worker'[v] = worker[v]
      PROVE RunInv(v)'
  <2>1. RunInv(v) /\ worker[v].seen \in Nat
    BY DEF OwedInv, DeliveryInv, TypeOK
  <2>2. worker[v].seq \in 1..Len(journal) /\ Reads(v) => Reads(v)'
    BY <1>1, <1>3, <2>1 DEF Reads, TablesStay
  <2>3. worker[v].gen \in Gens /\ worker[v].seq \in 1..Len(journal) /\ Confirmed(v) => Confirmed(v)'
    BY <1>1, <1>3, <2>1, <2>2 DEF Confirmed, TablesStay
  <2> QED BY <1>3, <2>1, <2>2, <2>3 DEF RunInv, TablesStay, Running, InHttp
<1>4. DeliveryInv'
  BY <1>3 DEF DeliveryInv
<1>5. NothingOwed'
  <2> SUFFICES ASSUME NEW g \in Gens \ gaveUp', config'[g] = "active"
               PROVE \/ sent'[g] = task'.version
                     \/ \E s \in (after'[g] + 1)..Len(journal') : OnTheWay(g, s)'
    BY DEF NothingOwed, OnTheWay
  <2>1. config[g] = "active" /\ g \in Gens \ gaveUp
    BY DEF TablesStay
  <2>2. CASE sent[g] = task.version
    BY <1>1, <2>2 DEF TablesStay
  <2>3. CASE \E s \in (after[g] + 1)..Len(journal) : OnTheWay(g, s)
    <3>1. PICK s \in (after[g] + 1)..Len(journal) : OnTheWay(g, s)
      BY <2>3
    <3>2. s \in 1..Len(journal) /\ after[g] < s
      BY <1>1
    <3>3. OnTheWay(g, s)' \/ sent'[g] = task.version
      BY <2>1, <3>1, <3>2
    <3> QED BY <3>3 DEF TablesStay
  <2> QED BY <2>1, <2>2, <2>3 DEF OwedInv, NothingOwed, OnTheWay
<1> QED BY <1>2, <1>4, <1>5 DEF OwedInv

\* The parts of the invariant that mention the tables.
LEMMA TableFacts ==
    ASSUME OwedInv
    PROVE /\ row \in [Gens -> [Seqs -> RowType]] /\ worker \in [Workers -> RunType]
          /\ journal \in Seq(JournalRow) /\ Len(journal) \in 0..(MaxGens + MaxChanges)
          /\ \A s \in 1..Len(journal) : s \in Seqs /\ journal[s] \in JournalRow
          /\ \A g \in Gens, s \in Seqs : row[g][s].state = "leased" <=> row[g][s].owner # None
<1>1. journal \in Seq(JournalRow) /\ Len(journal) \in 0..(MaxGens + MaxChanges)
      /\ \A s \in 1..Len(journal) : journal[s] \in JournalRow
  BY DEF OwedInv, JournalInv, TypeOK, JournalRow
<1>2. \A s \in 1..Len(journal) : s \in Seqs
  BY <1>1, BoundsAssumption DEF Seqs
<1> QED BY <1>1, <1>2 DEF OwedInv, TypeOK, RowType, RunType

\* The callback confirms what the worker read.
LEMMA ConfirmKeeps ==
    ASSUME OwedInv, NEW w \in Workers, Confirm(w)
    PROVE OwedInv'
<1> DEFINE r == worker[w]
<1>1. /\ r.at = "sending"
      /\ worker' = [worker EXCEPT ![w].at = "closing", ![w].result = "ok"]
      /\ sent' = [sent EXCEPT ![r.gen] = Greater(@, r.seen)]
      /\ UNCHANGED <<task, journal, config, consumer, after, row, orphan, deleting, gaveUp, faults>>
  BY DEF Confirm
<1>2. /\ r \in RunType /\ worker \in [Workers -> RunType] /\ r.seen \in 0..(MaxChanges + 1) /\ RunInv(w)
      /\ sent \in [Gens -> 0..(MaxChanges + 1)] /\ task.version \in Nat
      /\ r.gen \in Gens /\ Reads(w) /\ r.seq \in 1..Len(journal) /\ config[r.gen] # "none"
  BY <1>1 DEF OwedInv, TypeOK, RunType, DeliveryInv, RunInv, Running, InHttp
<1>3. /\ worker'[w] = [r EXCEPT !.at = "closing", !.result = "ok"]
      /\ \A v \in Workers \ {w} : worker'[v] = worker[v]
      /\ worker' = [worker EXCEPT ![w] = [r EXCEPT !.at = "closing", !.result = "ok"]]
  BY <1>1, <1>2
<1>4. /\ worker'[w].at = "closing" /\ worker'[w].gen = r.gen /\ worker'[w].seq = r.seq
      /\ worker'[w].seen = r.seen /\ worker'[w].final = r.final
  BY <1>2, <1>3 DEF RunType
<1>5. worker' \in [Workers -> RunType]
  <2>1. [r EXCEPT !.at = "closing", !.result = "ok"] \in RunType
    BY <1>2 DEF RunType, Running, InHttp
  <2> QED BY <1>2, <1>3, <2>1
<1>6. /\ sent' \in [Gens -> 0..(MaxChanges + 1)] /\ r.seen <= sent'[r.gen]
      /\ \A g \in Gens : sent[g] <= sent'[g] /\ sent'[g] <= task.version
  <2>1. \A g \in Gens : sent[g] <= task.version
    BY DEF OwedInv, JournalInv
  <2> QED BY <1>1, <1>2, <2>1 DEF Greater, Reads
<1>7. TypeOK'
  BY <1>1, <1>5, <1>6 DEF OwedInv, TypeOK, RunType
<1>8. RowsInv'
  BY <1>1 DEF OwedInv, RowsInv
<1>9. RunInv(w)'
  BY <1>1, <1>2, <1>4, <1>6 DEF RunInv, Confirmed, Reads
<1>10. TablesStay
  BY <1>1, <1>2, <1>6, TableFacts, BoundsAssumption DEF TablesStay, JournalRow
<1>11. \A g \in Gens, s \in 1..Len(journal) : OnTheWay(g, s) => OnTheWay(g, s)'
  BY <1>1 DEF OnTheWay
<1> QED BY <1>3, <1>7, <1>8, <1>9, <1>10, <1>11, TablesKeep

\* Only deliveries and workers change.
LEMMA UntouchedTables ==
    ASSUME OwedInv, UNCHANGED <<task, journal, config, after, sent>>, gaveUp \subseteq gaveUp'
    PROVE TablesStay
<1>1. journal \in Seq(JournalRow) /\ \A s \in 1..Len(journal) : journal[s].version \in Nat
  BY TableFacts, BoundsAssumption DEF JournalRow
<1>2. \A g \in Gens : sent[g] \in Nat /\ sent[g] <= task.version
  BY BoundsAssumption DEF OwedInv, JournalInv, TypeOK
<1> QED BY <1>1, <1>2 DEF TablesStay

\* One cell of the delivery table changes.
LEMMA CellStep ==
    ASSUME OwedInv, NEW g \in Gens, NEW s \in Seqs, NEW x \in RowType,
           x.state = "leased" <=> x.owner # None, row' = [row EXCEPT ![g][s] = x]
    PROVE /\ row' \in [Gens -> [Seqs -> RowType]]
          /\ \A h \in Gens, t \in Seqs :
                /\ row'[h][t].state = "leased" <=> row'[h][t].owner # None
                /\ row'[h][t] = IF h = g /\ t = s THEN x ELSE row[h][t]
<1>1. row \in [Gens -> [Seqs -> RowType]]
  BY TableFacts
<1>2. row' \in [Gens -> [Seqs -> RowType]]
      /\ \A h \in Gens, t \in Seqs : row'[h][t] = IF h = g /\ t = s THEN x ELSE row[h][t]
  BY <1>1
<1> QED BY <1>2, TableFacts

\* A claimed delivery is still on the way.
LEMMA ClaimKeeps ==
    ASSUME OwedInv, NEW w \in Workers, Claim(w)
    PROVE OwedInv'
<1>1. PICK g \in Gens, s \in Seqs :
        /\ worker[w].at = "claim" /\ row[g][s].state = "open"
        /\ row' = [row EXCEPT ![g][s] = [state |-> "leased", owner |-> w,
                                         tries |-> Lesser(@.tries + 1, MaxAttempts)]]
        /\ worker' = [worker EXCEPT ![w] = [@ EXCEPT !.at = "claimed", !.gen = g, !.seq = s]]
        /\ UNCHANGED <<task, journal, config, consumer, after, orphan, deleting, sent, gaveUp, faults>>
  BY DEF Claim, history
<1> DEFINE x == [state |-> "leased", owner |-> w, tries |-> Lesser(row[g][s].tries + 1, MaxAttempts)]
           y == [worker[w] EXCEPT !.at = "claimed", !.gen = g, !.seq = s]
<1>2. row \in [Gens -> [Seqs -> RowType]] /\ worker \in [Workers -> RunType] /\ w # None
  BY TableFacts, BoundsAssumption
<1>3. x \in RowType /\ (x.state = "leased" <=> x.owner # None) /\ row' = [row EXCEPT ![g][s] = x]
  <2>1. Lesser(row[g][s].tries + 1, MaxAttempts) \in 0..MaxAttempts
    BY <1>2, BoundsAssumption DEF Lesser, RowType
  <2> QED BY <1>1, <1>2, <2>1 DEF RowType
<1>4. /\ row' \in [Gens -> [Seqs -> RowType]]
      /\ \A h \in Gens, t \in Seqs :
            /\ row'[h][t].state = "leased" <=> row'[h][t].owner # None
            /\ row'[h][t] = IF h = g /\ t = s THEN x ELSE row[h][t]
  BY <1>3, CellStep
<1>5. /\ worker' \in [Workers -> RunType] /\ worker'[w] = y
      /\ \A v \in Workers \ {w} : worker'[v] = worker[v]
  <2>1. y \in RunType
    BY <1>2 DEF RunType, Running
  <2> QED BY <1>1, <1>2, <2>1
<1>6. TypeOK'
  <2>1. UNCHANGED <<task, journal, config, consumer, after, orphan, deleting, sent, gaveUp, faults>>
    BY <1>1
  <2>2. \A h \in Gens, t \in Seqs : row'[h][t].state = "leased" <=> row'[h][t].owner # None
    BY <1>4
  <2> QED BY <1>4, <1>5, <2>1, <2>2 DEF OwedInv, TypeOK, RunType, RowType
<1>7. \A h \in Gens, t \in Seqs : /\ row'[h][t].state = "absent" <=> row[h][t].state = "absent"
                                  /\ row[h][t].state \in {"open", "leased"} => row'[h][t].state \in {"open", "leased"}
  BY <1>1, <1>4
<1>8. RowsInv'
  BY <1>1, <1>7 DEF OwedInv, RowsInv
<1>9. RunInv(w)'
  <2>1. y.at = "claimed" /\ y.gen = g /\ y.seq = s /\ y.final = worker[w].final
    BY <1>2 DEF RunType
  <2>2. ~worker[w].final
    BY <1>1 DEF OwedInv, DeliveryInv, RunInv
  <2>3. s \in 1..Len(journal) /\ config[g] # "none"
    BY <1>1, TableFacts DEF OwedInv, RowsInv, Seqs
  <2> QED BY <1>1, <1>5, <2>1, <2>2, <2>3 DEF RunInv
<1>10. TablesStay
  BY <1>1, UntouchedTables
<1>11. \A h \in Gens, t \in 1..Len(journal) : OnTheWay(h, t) => OnTheWay(h, t)'
  BY <1>1, <1>7, TableFacts DEF OnTheWay
<1> QED BY <1>5, <1>6, <1>8, <1>9, <1>10, <1>11, TablesKeep

\* So is one whose lease has run out.
LEMMA LeaseRunsOutKeeps ==
    ASSUME OwedInv, LeaseRunsOut
    PROVE OwedInv'
<1>1. PICK g \in Gens, s \in Seqs : ExpireLease(g, s)
  BY DEF LeaseRunsOut
<1> DEFINE x == [row[g][s] EXCEPT !.state = "open", !.owner = None]
<1>2. /\ row[g][s].state = "leased"
      /\ row' = [row EXCEPT ![g][s].state = "open", ![g][s].owner = None]
      /\ UNCHANGED <<task, journal, config, consumer, after, worker, orphan, deleting, sent, gaveUp>>
      /\ faults' = faults \/ Fault
  BY <1>1 DEF ExpireLease, history
<1>3. row \in [Gens -> [Seqs -> RowType]] /\ row[g][s] \in RowType
  BY TableFacts
<1>4. x \in RowType /\ (x.state = "leased" <=> x.owner # None) /\ x.state = "open"
  BY <1>3 DEF RowType
<1>5. row' = [row EXCEPT ![g][s] = x]
  BY <1>2, <1>3
<1> HIDE DEF x
<1>6. /\ row' \in [Gens -> [Seqs -> RowType]]
      /\ \A h \in Gens, t \in Seqs :
            /\ row'[h][t].state = "leased" <=> row'[h][t].owner # None
            /\ row'[h][t] = IF h = g /\ t = s THEN x ELSE row[h][t]
  BY <1>4, <1>5, CellStep
<1>7. faults' \in 0..MaxFaults
  BY <1>2, BoundsAssumption DEF Fault, OwedInv, TypeOK
<1>8. TypeOK'
  BY <1>2, <1>6, <1>7 DEF OwedInv, TypeOK, RowType
<1>9. \A h \in Gens, t \in Seqs : /\ row'[h][t].state = "absent" <=> row[h][t].state = "absent"
                                  /\ row[h][t].state \in {"open", "leased"} => row'[h][t].state \in {"open", "leased"}
  BY <1>2, <1>4, <1>6
<1>10. RowsInv'
  BY <1>2, <1>9 DEF OwedInv, RowsInv
<1>11. TablesStay
  BY <1>2, UntouchedTables
<1>12. \A h \in Gens, t \in 1..Len(journal) : OnTheWay(h, t) => OnTheWay(h, t)'
  BY <1>2, <1>9, TableFacts DEF OnTheWay
<1> QED BY <1>2, <1>8, <1>10, <1>11, <1>12, TablesKeep

\* A sequence is rewritten row by row.
LEMMA RewrittenJournal ==
    ASSUME NEW S, NEW n \in Nat, NEW f \in [1..n -> S]
    PROVE f \in Seq(S) /\ Len(f) = n
OBVIOUS

\* A pending row becomes an open delivery of every active consumer.
LEMMA ForwardKeeps ==
    ASSUME OwedInv, NEW w \in Workers, Forward(w)
    PROVE OwedInv'
<1> DEFINE batch == {s \in Pending : Cardinality({t \in Pending : t <= s}) <= BatchSize}
           F(s) == IF s \in batch THEN [journal[s] EXCEPT !.state = "forwarded"] ELSE journal[s]
<1>1. /\ worker[w].at = "forward"
      /\ worker' = [worker EXCEPT ![w].at = "claim"]
      /\ journal' = [s \in 1..Len(journal) |-> F(s)]
      /\ row' = [g \in Gens |-> [s \in Seqs |-> IF s \in batch /\ consumer[g] THEN Fresh ELSE row[g][s]]]
      /\ UNCHANGED <<task, config, consumer, after, orphan, deleting, sent, gaveUp, faults>>
  BY DEF Forward, history
<1>2. batch \subseteq 1..Len(journal)
  BY DEF Pending
<1> HIDE DEF batch
<1>3. /\ row \in [Gens -> [Seqs -> RowType]] /\ worker \in [Workers -> RunType]
      /\ Len(journal) \in Nat
      /\ \A s \in 1..Len(journal) : s \in Seqs /\ journal[s] \in JournalRow
  BY TableFacts
<1>4. \A s \in 1..Len(journal) :
         /\ F(s) \in JournalRow /\ F(s).version = journal[s].version
         /\ F(s).state = IF s \in batch THEN "forwarded" ELSE journal[s].state
  BY <1>3 DEF JournalRow
<1>5. journal' \in Seq(JournalRow) /\ Len(journal') = Len(journal)
  <2>1. journal' \in [1..Len(journal) -> JournalRow]
    BY <1>1, <1>4
  <2> QED BY <1>3, <2>1, RewrittenJournal
<1>6. \A s \in 1..Len(journal) :
         /\ journal'[s] \in JournalRow /\ journal'[s].version = journal[s].version
         /\ journal'[s].state = IF s \in batch THEN "forwarded" ELSE journal[s].state
  BY <1>1, <1>4
<1>7. Fresh \in RowType /\ Fresh.state = "open" /\ Fresh.owner = None
  BY BoundsAssumption DEF Fresh, Absent, RowType
<1>8. /\ row' \in [Gens -> [Seqs -> RowType]]
      /\ \A g \in Gens, s \in Seqs :
            row'[g][s] = IF s \in batch /\ consumer[g] THEN Fresh ELSE row[g][s]
  BY <1>1, <1>3, <1>7
<1>9. /\ worker' \in [Workers -> RunType] /\ \A v \in Workers \ {w} : worker'[v] = worker[v]
      /\ worker'[w].at = "claim" /\ worker'[w].final = worker[w].final
  BY <1>1, <1>3 DEF RunType
<1>10. TypeOK'
  <2>1. \A g \in Gens, s \in Seqs : row'[g][s].state = "leased" <=> row'[g][s].owner # None
    BY <1>7, <1>8, TableFacts
  <2>2. /\ Len(journal') \in 0..(MaxGens + MaxChanges)
        /\ \A s \in 1..Len(journal') : journal'[s] \in JournalRow
    BY <1>5, <1>6, TableFacts
  <2> QED BY <1>1, <1>8, <1>9, <2>1, <2>2 DEF OwedInv, TypeOK, RunType, RowType, JournalRow
<1>11. RowsInv'
  <2>1. \A g \in Gens, s \in Seqs : row'[g][s].state # "absent" => s <= Len(journal') /\ config'[g] # "none"
    BY <1>1, <1>2, <1>3, <1>5, <1>8 DEF OwedInv, RowsInv
  <2> QED BY <1>1, <2>1 DEF OwedInv, RowsInv
<1>12. RunInv(w)'
  BY <1>1, <1>9 DEF OwedInv, DeliveryInv, RunInv, Running, InHttp
<1>13. TablesStay
  BY <1>1, <1>3, <1>5, <1>6, BoundsAssumption DEF OwedInv, JournalInv, TypeOK, TablesStay, JournalRow
<1>14. \A g \in Gens, s \in 1..Len(journal) : OnTheWay(g, s) => OnTheWay(g, s)'
  BY <1>1, <1>3, <1>6, <1>7, <1>8 DEF OnTheWay
<1> QED BY <1>9, <1>10, <1>11, <1>12, <1>13, <1>14, TablesKeep

\* Unsettled deliveries of the consumers that end are settled.
LEMMA DeactivatedRows ==
    ASSUME OwedInv, NEW G
    PROVE /\ Deactivated(G) \in [Gens -> [Seqs -> RowType]]
          /\ \A g \in Gens, s \in Seqs :
                /\ Deactivated(G)[g][s].state = "leased" <=> Deactivated(G)[g][s].owner # None
                /\ Deactivated(G)[g][s].state = "absent" <=> row[g][s].state = "absent"
                /\ g \notin G => Deactivated(G)[g][s] = row[g][s]
<1>1. Done \in RowType /\ Done.state = "settled" /\ Done.owner = None
  BY BoundsAssumption DEF Done, Absent, RowType
<1>2. row \in [Gens -> [Seqs -> RowType]]
  BY TableFacts
<1>3. /\ Deactivated(G) \in [Gens -> [Seqs -> RowType]]
      /\ \A g \in Gens, s \in Seqs :
            Deactivated(G)[g][s] = IF g \in G /\ consumer[g] /\ row[g][s].state \in {"open", "leased"}
                                   THEN Done ELSE row[g][s]
  BY <1>1, <1>2 DEF Deactivated
<1> QED BY <1>1, <1>3, TableFacts

\* The delivery is settled after the callback confirmed a state at least as
\* new; a consumer is completed after it confirmed the last state.
LEMMA AckKeeps ==
    ASSUME OwedInv, NEW w \in Workers, Ack(w)
    PROVE OwedInv'
<1> DEFINE g == worker[w].gen
           s == worker[w].seq
           base == IF worker[w].final THEN Deactivated({g}) ELSE row
<1>1. /\ worker[w].at = "settling" /\ worker[w].result = "ok"
      /\ worker' = [worker EXCEPT ![w] = Over]
      /\ UNCHANGED <<task, journal, config, after, orphan, deleting, sent, gaveUp, faults>>
  BY DEF Ack, history
<1>2. \/ row' = row /\ consumer' = consumer
      \/ /\ Owns(w) /\ row' = [base EXCEPT ![g][s] = Done]
         /\ consumer' = IF worker[w].final THEN [consumer EXCEPT ![g] = FALSE] ELSE consumer
  BY DEF Ack
<1>3. /\ worker' \in [Workers -> RunType] /\ worker'[w] = Pass("retire")
      /\ \A v \in Workers \ {w} : worker'[v] = worker[v]
  BY <1>1, TableFacts, PassType DEF Over
<1>4. RunInv(w)'
  BY <1>3, PassIsSound
<1>5. TablesStay
  BY <1>1, UntouchedTables
<1>6. CASE row' = row /\ consumer' = consumer
  <2>1. Advances(w)
    BY <1>1, <1>3, <1>6 DEF Advances, OwedInv, TypeOK
  <2> QED BY <1>4, <2>1, AdvanceKeeps
<1>7. CASE /\ Owns(w) /\ row' = [base EXCEPT ![g][s] = Done]
           /\ consumer' = IF worker[w].final THEN [consumer EXCEPT ![g] = FALSE] ELSE consumer
  <2>1. g \in Gens /\ s \in 1..Len(journal) /\ s \in Seqs /\ Confirmed(w)
    <3>1. g \in Gens /\ s \in 1..Len(journal) /\ Confirmed(w)
      BY <1>1 DEF OwedInv, DeliveryInv, RunInv, Running
    <3> QED BY <3>1, TableFacts
  <2>2. /\ base \in [Gens -> [Seqs -> RowType]]
        /\ \A h \in Gens, t \in Seqs :
              /\ base[h][t].state = "leased" <=> base[h][t].owner # None
              /\ base[h][t].state = "absent" <=> row[h][t].state = "absent"
              /\ h # g \/ ~worker[w].final => base[h][t] = row[h][t]
    BY TableFacts, DeactivatedRows
  <2> HIDE DEF base
  <2>3. Done \in RowType /\ Done.state = "settled" /\ Done.owner = None
    BY BoundsAssumption DEF Done, Absent, RowType
  <2>4. /\ row' \in [Gens -> [Seqs -> RowType]]
        /\ \A h \in Gens, t \in Seqs : row'[h][t] = IF h = g /\ t = s THEN Done ELSE base[h][t]
    BY <1>7, <2>1, <2>2, <2>3
  <2>5. row[g][s].state = "leased"
    BY <1>7 DEF Owns
  <2>6. \A h \in Gens, t \in Seqs :
           /\ row'[h][t].state = "leased" <=> row'[h][t].owner # None
           /\ row'[h][t].state = "absent" <=> row[h][t].state = "absent"
    BY <2>2, <2>3, <2>4, <2>5
  <2>7. consumer' \in [Gens -> BOOLEAN] /\ \A h \in Gens : consumer'[h] = (consumer[h] /\ ~(worker[w].final /\ h = g))
    BY <1>7, <2>1 DEF OwedInv, TypeOK
  <2>8. TypeOK'
    BY <1>1, <1>3, <2>4, <2>6, <2>7 DEF OwedInv, TypeOK, RunType, RowType
  <2>9. worker[w].final => task.over /\ sent[g] = task.version
    BY <2>1, BoundsAssumption DEF Confirmed, Reads, OwedInv, JournalInv, TypeOK
  <2>10. RowsInv'
    <3>1. ASSUME NEW h \in Gens PROVE /\ \A t \in Seqs : row'[h][t].state # "absent" => t <= Len(journal') /\ config'[h] # "none"
                                      /\ consumer'[h] => config'[h] # "none"
      BY <1>1, <2>6, <2>7 DEF OwedInv, RowsInv
    <3>2. ASSUME NEW h \in Gens, config'[h] = "active", ~consumer'[h] PROVE task'.over
      BY <1>1, <2>7, <2>9, <3>2 DEF OwedInv, RowsInv
    <3> QED BY <3>1, <3>2 DEF RowsInv
  <2>11. ASSUME NEW h \in Gens, NEW t \in 1..Len(journal), after[h] < t, OnTheWay(h, t)
         PROVE OnTheWay(h, t)' \/ sent'[h] = task.version
    <3>0. t \in Seqs
      BY TableFacts
    <3>1. CASE h # g
      BY <1>1, <2>1, <2>2, <2>4, <2>7, <2>11, <3>0, <3>1 DEF OnTheWay
    <3>2. CASE h = g /\ worker[w].final
      BY <1>1, <2>9, <3>2
    <3>3. CASE h = g /\ ~worker[w].final /\ t # s
      BY <1>1, <2>1, <2>2, <2>4, <2>7, <2>11, <3>0, <3>3 DEF OnTheWay
    <3>4. CASE h = g /\ ~worker[w].final /\ t = s
      <4>1. journal[s].version = task.version /\ after[g] < s
        BY <2>11, <3>4 DEF OnTheWay
      <4>2. /\ after[g] \in Nat /\ sent[g] \in Nat /\ worker[w].seen \in Nat /\ task.version \in Nat
            /\ sent[g] <= task.version /\ s \in Nat
        <5>1. after[g] \in 0..(MaxGens + MaxChanges) /\ sent[g] \in 0..(MaxChanges + 1)
              /\ task.version \in 1..(MaxChanges + 1) /\ worker[w].seen \in 0..(MaxChanges + 1)
          BY <2>1 DEF OwedInv, TypeOK
        <5>2. sent[g] <= task.version
          BY <2>1 DEF OwedInv, JournalInv
        <5> QED BY <2>1, <5>1, <5>2, BoundsAssumption
      <4>3. Reads(w) /\ worker[w].seen <= sent[g]
        BY <2>1, <4>1, <4>2 DEF Confirmed
      <4>4. sent[g] = task.version
        BY <4>1, <4>2, <4>3 DEF Reads
      <4> QED BY <1>1, <3>4, <4>4
    <3> QED BY <3>1, <3>2, <3>3, <3>4
  <2> QED BY <1>3, <1>4, <1>5, <2>8, <2>10, <2>11, TablesKeep
<1> QED BY <1>2, <1>6, <1>7

\* A failed attempt is owed again, or is the last one.
LEMMA NackKeeps ==
    ASSUME OwedInv, NEW w \in Workers, Nack(w)
    PROVE OwedInv'
<1> DEFINE g == worker[w].gen
           s == worker[w].seq
           last == row[g][s].tries = MaxAttempts
           x == IF last THEN Done ELSE [row[g][s] EXCEPT !.state = "open", !.owner = None]
<1>1. /\ worker[w].at = "settling"
      /\ UNCHANGED <<task, journal, config, consumer, after, orphan, deleting, sent, faults>>
  BY DEF Nack
<1>2. \/ /\ Owns(w) /\ worker' = [worker EXCEPT ![w] = Over]
         /\ row' = [row EXCEPT ![g][s] = x]
         /\ gaveUp' = IF last THEN gaveUp \union {g} ELSE gaveUp
      \/ worker' = [worker EXCEPT ![w] = Pass("stopped")] /\ UNCHANGED <<row, gaveUp>>
  BY DEF Nack
<1>3. /\ worker' \in [Workers -> RunType]
      /\ worker'[w] = Pass("retire") \/ worker'[w] = Pass("stopped")
      /\ \A v \in Workers \ {w} : worker'[v] = worker[v]
  BY <1>2, TableFacts, PassType DEF Over
<1>4. RunInv(w)'
  BY <1>3, PassIsSound
<1>5. CASE UNCHANGED <<row, gaveUp>>
  <2>1. Advances(w)
    BY <1>1, <1>3, <1>5 DEF Advances, OwedInv, TypeOK
  <2> QED BY <1>4, <2>1, AdvanceKeeps
<1>6. CASE /\ Owns(w) /\ row' = [row EXCEPT ![g][s] = x]
           /\ gaveUp' = IF last THEN gaveUp \union {g} ELSE gaveUp
  <2>1. g \in Gens /\ s \in Seqs
    <3>1. g \in Gens /\ s \in 1..Len(journal)
      BY <1>1 DEF OwedInv, DeliveryInv, RunInv, Running
    <3> QED BY <3>1, TableFacts
  <2>2. row[g][s] \in RowType /\ row[g][s].state = "leased"
    <3>1. row \in [Gens -> [Seqs -> RowType]]
      BY TableFacts
    <3> QED BY <1>6, <2>1, <3>1 DEF Owns
  <2>3. /\ x \in RowType /\ x.owner = None /\ x.state \in {"open", "settled"}
        /\ ~last => x.state = "open"
    <3>1. Done \in RowType /\ Done.state = "settled" /\ Done.owner = None
      BY BoundsAssumption DEF Done, Absent, RowType
    <3>2. \A z \in RowType : /\ [z EXCEPT !.state = "open", !.owner = None] \in RowType
                             /\ [z EXCEPT !.state = "open", !.owner = None].state = "open"
                             /\ [z EXCEPT !.state = "open", !.owner = None].owner = None
      BY DEF RowType
    <3> QED BY <2>2, <3>1, <3>2
  <2>3a. x.state = "leased" <=> x.owner # None
    BY <2>3
  <2> HIDE DEF x, g, s, last
  <2>4. /\ row' \in [Gens -> [Seqs -> RowType]]
        /\ \A h \in Gens, t \in Seqs :
              /\ row'[h][t].state = "leased" <=> row'[h][t].owner # None
              /\ row'[h][t] = IF h = g /\ t = s THEN x ELSE row[h][t]
    <3>1. row' = [row EXCEPT ![g][s] = x]
      BY <1>6
    <3>2. row \in [Gens -> [Seqs -> RowType]]
      BY TableFacts
    <3>3. /\ row' \in [Gens -> [Seqs -> RowType]]
          /\ \A h \in Gens, t \in Seqs : row'[h][t] = IF h = g /\ t = s THEN x ELSE row[h][t]
      BY <2>1, <2>3, <3>1, <3>2
    <3> QED BY <2>3a, <3>3, TableFacts
  <2>5. gaveUp' \subseteq Gens /\ gaveUp \subseteq gaveUp' /\ (last => g \in gaveUp')
    BY <1>6, <2>1 DEF OwedInv, TypeOK
  <2>6. TypeOK'
    <3>1. \A h \in Gens, t \in Seqs : row'[h][t].state = "leased" <=> row'[h][t].owner # None
      BY <2>4
    <3> QED BY <1>1, <1>3, <2>4, <2>5, <3>1 DEF OwedInv, TypeOK, RunType, RowType
  <2>7. \A h \in Gens, t \in Seqs :
           /\ row'[h][t].state = "absent" <=> row[h][t].state = "absent"
           /\ h \notin gaveUp' /\ row[h][t].state \in {"open", "leased"} => row'[h][t].state \in {"open", "leased"}
    BY <2>2, <2>3, <2>4, <2>5
  <2>8. RowsInv'
    BY <1>1, <2>7 DEF OwedInv, RowsInv
  <2>9. TablesStay
    BY <1>1, <2>5, UntouchedTables
  <2>10. \A h \in Gens \ gaveUp', t \in 1..Len(journal) : OnTheWay(h, t) => OnTheWay(h, t)'
    BY <1>1, <2>7, TableFacts DEF OnTheWay
  <2> QED BY <1>3, <1>4, <2>6, <2>8, <2>9, <2>10, TablesKeep
<1> QED BY <1>2, <1>5, <1>6

-----------------------------------------------------------------------------
(* Registrations, revocations, history and the task.                       *)

\* After a Delete no generation is active, and nothing is owed.
LEMMA DeleteOwes ==
    ASSUME OwedInv, NEW w \in Workers, Delete(w)
    PROVE OwedInv'
<1>1. /\ config' = [g \in Gens |-> IF config[g] = "active" THEN "deleting" ELSE config[g]]
      /\ consumer' = [g \in Gens |-> consumer[g] /\ g \notin Revoked]
      /\ row' = Deactivated(Revoked)
      /\ deleting' = [deleting EXCEPT ![w] = Revoked]
      /\ UNCHANGED <<task, journal, after, worker, orphan, sent, gaveUp, faults>>
  BY DEF Delete, history
<1>2. /\ row' \in [Gens -> [Seqs -> RowType]]
      /\ \A g \in Gens, s \in Seqs :
            /\ row'[g][s].state = "leased" <=> row'[g][s].owner # None
            /\ row'[g][s].state = "absent" <=> row[g][s].state = "absent"
  BY <1>1, DeactivatedRows
<1>3. /\ config' \in [Gens -> {"none", "active", "deleting", "deleted"}]
      /\ consumer' \in [Gens -> BOOLEAN] /\ deleting' \in [Workers -> SUBSET Gens]
      /\ \A g \in Gens : /\ config'[g] # "none" <=> config[g] # "none"
                         /\ config'[g] # "active" /\ (consumer'[g] => consumer[g])
  BY <1>1 DEF OwedInv, TypeOK, Revoked
<1>4. TypeOK'
  BY <1>1, <1>2, <1>3 DEF OwedInv, TypeOK, RowType
<1>5. RowsInv'
  BY <1>1, <1>2, <1>3 DEF OwedInv, RowsInv
<1>6. TablesStay
  <2>1. journal \in Seq(JournalRow) /\ \A s \in 1..Len(journal) : journal[s].version \in Nat
    BY TableFacts, BoundsAssumption DEF JournalRow
  <2>2. \A g \in Gens : sent[g] \in Nat /\ sent[g] <= task.version
    BY BoundsAssumption DEF OwedInv, JournalInv, TypeOK
  <2> QED BY <1>1, <1>3, <2>1, <2>2 DEF TablesStay
<1> QED BY <1>1, <1>3, <1>4, <1>5, <1>6, TablesKeep

\* What is forgotten was revoked before.
LEMMA FinishDeleteOwes ==
    ASSUME OwedInv, RevocationInv, NEW w \in Workers, FinishDelete(w)
    PROVE OwedInv'
<1>1. PICK g \in deleting[w] :
        /\ \/ deleting' = [deleting EXCEPT ![w] = {}] /\ UNCHANGED config
           \/ /\ deleting' = [deleting EXCEPT ![w] = @ \ {g}]
              /\ config' = [config EXCEPT ![g] = "deleted"]
        /\ orphan' = orphan \ {g}
        /\ UNCHANGED <<task, journal, consumer, after, row, worker, sent, gaveUp, faults>>
  BY DEF FinishDelete, history
<1>2. g \in Gens /\ config[g] \in {"deleting", "deleted"}
  BY DEF RevocationInv, Shapes, DeletingIsRevoked
<1>3. /\ config' \in [Gens -> {"none", "active", "deleting", "deleted"}]
      /\ orphan' \subseteq Gens /\ deleting' \in [Workers -> SUBSET Gens]
      /\ \A h \in Gens : /\ config'[h] # "none" <=> config[h] # "none"
                         /\ config'[h] = "active" => config[h] = "active"
  <2>1. /\ config \in [Gens -> {"none", "active", "deleting", "deleted"}]
        /\ deleting \in [Workers -> SUBSET Gens] /\ orphan \subseteq Gens
    BY DEF OwedInv, TypeOK
  <2>2. orphan' \subseteq Gens /\ deleting' \in [Workers -> SUBSET Gens]
    BY <1>1, <2>1
  <2>3. config' = config \/ config' = [config EXCEPT ![g] = "deleted"]
    BY <1>1
  <2> QED BY <1>2, <2>1, <2>2, <2>3
<1>4. TypeOK'
  BY <1>1, <1>3 DEF OwedInv, TypeOK
<1>5. RowsInv'
  BY <1>1, <1>3 DEF OwedInv, RowsInv
<1>6. TablesStay
  <2>1. journal \in Seq(JournalRow) /\ \A s \in 1..Len(journal) : journal[s].version \in Nat
    BY TableFacts, BoundsAssumption DEF JournalRow
  <2>2. \A h \in Gens : sent[h] \in Nat /\ sent[h] <= task.version
    BY BoundsAssumption DEF OwedInv, JournalInv, TypeOK
  <2> QED BY <1>1, <1>3, <2>1, <2>2 DEF TablesStay
<1>7. \A h \in Gens, s \in 1..Len(journal) : OnTheWay(h, s) => OnTheWay(h, s)'
  BY <1>1 DEF OnTheWay
<1> QED BY <1>1, <1>4, <1>5, <1>6, <1>7, TablesKeep

\* Only settled events are purged.
LEMMA RetireHistoryOwes ==
    ASSUME OwedInv, NEW w \in Workers, RetireHistory(w)
    PROVE OwedInv'
<1>1. PICK last \in 0..Len(journal) : Purge(last)
  BY DEF RetireHistory
<1> DEFINE S == {s \in 1..last : journal[s].state = "forwarded" /\ Settled(s)}
           F(s) == IF s \in S THEN Purged ELSE journal[s]
<1>2. /\ worker[w].at = "retire"
      /\ worker' = [worker EXCEPT ![w].at = "forward"]
      /\ journal' = [s \in 1..Len(journal) |-> F(s)]
      /\ row' = [g \in Gens |-> [s \in Seqs |-> IF s \in S THEN Absent ELSE row[g][s]]]
      /\ config' = [g \in Gens |-> IF config[g] = "deleting" /\ ~Busy(g) THEN "deleted" ELSE config[g]]
      /\ orphan' = {}
      /\ UNCHANGED <<task, consumer, after, deleting, sent, gaveUp, faults>>
  BY <1>1 DEF RetireHistory, Purge, history
<1>3. \A s \in S : journal[s].state = "forwarded" /\ \A g \in Gens : row[g][s].state \in {"absent", "settled"}
  BY DEF Settled
<1> HIDE DEF S
<1>4. /\ row \in [Gens -> [Seqs -> RowType]] /\ worker \in [Workers -> RunType]
      /\ Len(journal) \in Nat
      /\ \A s \in 1..Len(journal) : s \in Seqs /\ journal[s] \in JournalRow
  BY TableFacts
<1>5. \A s \in 1..Len(journal) : /\ F(s) \in JournalRow /\ F(s).version <= journal[s].version
                                 /\ s \notin S => F(s) = journal[s]
  BY <1>4, BoundsAssumption DEF JournalRow, Purged
<1>6. journal' \in Seq(JournalRow) /\ Len(journal') = Len(journal)
  <2>1. journal' \in [1..Len(journal) -> JournalRow]
    BY <1>2, <1>5
  <2> QED BY <1>4, <2>1, RewrittenJournal
<1>7. \A s \in 1..Len(journal) : /\ journal'[s] \in JournalRow /\ journal'[s].version <= journal[s].version
                                 /\ s \notin S => journal'[s] = journal[s]
  BY <1>2, <1>5
<1>8. Absent \in RowType /\ Absent.state = "absent" /\ Absent.owner = None
  BY BoundsAssumption DEF Absent, RowType
<1>9. /\ row' \in [Gens -> [Seqs -> RowType]]
      /\ \A g \in Gens, s \in Seqs : row'[g][s] = IF s \in S THEN Absent ELSE row[g][s]
  BY <1>2, <1>4, <1>8
<1>10. /\ worker' \in [Workers -> RunType] /\ \A v \in Workers \ {w} : worker'[v] = worker[v]
       /\ worker'[w].at = "forward" /\ worker'[w].final = worker[w].final
  BY <1>2, <1>4 DEF RunType
<1>11. /\ config' \in [Gens -> {"none", "active", "deleting", "deleted"}]
       /\ \A g \in Gens : /\ config'[g] # "none" <=> config[g] # "none"
                          /\ config'[g] = "active" => config[g] = "active"
  BY <1>2 DEF OwedInv, TypeOK
<1>12. TypeOK'
  <2>1. \A g \in Gens, s \in Seqs : row'[g][s].state = "leased" <=> row'[g][s].owner # None
    BY <1>8, <1>9, TableFacts
  <2>2. /\ Len(journal') \in 0..(MaxGens + MaxChanges)
        /\ \A s \in 1..Len(journal') : journal'[s] \in JournalRow
    BY <1>6, <1>7, TableFacts
  <2> QED BY <1>2, <1>9, <1>10, <1>11, <2>1, <2>2 DEF OwedInv, TypeOK, RunType, RowType, JournalRow
<1>13. RowsInv'
  <2>1. \A g \in Gens, s \in Seqs : row'[g][s].state # "absent" => s <= Len(journal') /\ config'[g] # "none"
    BY <1>6, <1>8, <1>9, <1>11 DEF OwedInv, RowsInv
  <2> QED BY <1>2, <1>11, <2>1 DEF OwedInv, RowsInv
<1>14. RunInv(w)'
  BY <1>2, <1>10 DEF OwedInv, DeliveryInv, RunInv, Running, InHttp
<1>15. TablesStay
  <2>1. \A g \in Gens : sent[g] \in Nat /\ sent[g] <= task.version
    BY BoundsAssumption DEF OwedInv, JournalInv, TypeOK
  <2> QED BY <1>2, <1>6, <1>7, <1>11, <2>1 DEF TablesStay
<1>16. ASSUME NEW g \in Gens, NEW s \in 1..Len(journal), OnTheWay(g, s)
       PROVE OnTheWay(g, s)'
  <2>1. s \notin S
    BY <1>3, <1>16 DEF OnTheWay
  <2>2. journal'[s] = journal[s] /\ row'[g][s] = row[g][s]
    BY <1>4, <1>7, <1>9, <2>1
  <2> QED BY <1>2, <1>16, <2>2 DEF OnTheWay
<1> QED BY <1>10, <1>12, <1>13, <1>14, <1>15, <1>16, TablesKeep

\* A row is noted at the end of the journal.
LEMMA AppendedRow ==
    ASSUME NEW j \in Seq(JournalRow), NEW z \in JournalRow
    PROVE /\ Append(j, z) \in Seq(JournalRow) /\ Len(Append(j, z)) = Len(j) + 1
          /\ \A s \in 1..Len(j) : Append(j, z)[s] = j[s]
          /\ Append(j, z)[Len(j) + 1] = z
OBVIOUS

\* A change of the task is noted for the active generations, of which none has
\* seen the end of a task that still changes.
LEMMA ChangeTaskOwes ==
    ASSUME OwedInv, NEW over \in BOOLEAN, ChangeTask(over)
    PROVE OwedInv'
<1> DEFINE v == task.version + 1
           z == [version |-> v, state |-> "pending"]
           n == Len(journal)
<1>1. /\ ~task.over /\ task.version <= MaxChanges
      /\ task' = [version |-> v, over |-> over]
      /\ UNCHANGED <<config, consumer, after, row, worker, orphan, deleting, sent, gaveUp, faults>>
  BY DEF ChangeTask, history
<1>2. /\ Captured => journal' = Append(journal, z)
      /\ ~Captured => journal' = journal
  BY DEF ChangeTask, Noted
<1>3. /\ journal \in Seq(JournalRow) /\ n \in Nat /\ task.version \in Nat /\ v \in 1..(MaxChanges + 1)
      /\ \A s \in 1..n : journal[s] \in JournalRow /\ journal[s].version \in Nat /\ journal[s].version <= task.version
      /\ after \in [Gens -> Nat] /\ sent \in [Gens -> 0..(MaxChanges + 1)]
      /\ \A g \in Gens : after[g] <= n /\ sent[g] <= task.version
      /\ MaxChanges \in Nat /\ MaxGens \in Nat
  BY <1>1, TableFacts, BoundsAssumption DEF OwedInv, TypeOK, JournalInv, JournalRow
<1>4. z \in JournalRow /\ z.version = v /\ z.state = "pending"
  BY <1>3 DEF JournalRow
<1> HIDE DEF z
<1>5. /\ journal' \in Seq(JournalRow) /\ Len(journal') \in {n, n + 1}
      /\ \A s \in 1..n : journal'[s] = journal[s]
      /\ Len(journal') = n + 1 => journal'[n + 1] = z
      /\ Captured => Len(journal') = n + 1
  <2>1. CASE Captured
    <3>1. journal' = Append(journal, z)
      BY <1>2, <2>1
    <3> QED BY <1>3, <1>4, <3>1, AppendedRow
  <2>2. CASE ~Captured
    <3>1. journal' = journal
      BY <1>2, <2>2
    <3> QED BY <1>3, <2>2, <3>1
  <2> QED BY <2>1, <2>2
<1>6. /\ task'.version = v /\ task'.over \in BOOLEAN
      /\ task' \in [version : 1..(MaxChanges + 1), over : BOOLEAN]
  BY <1>1, <1>3
<1> HIDE DEF v, n
<1>7. \A s \in 1..Len(journal') : journal'[s] \in JournalRow /\ journal'[s].version <= v
  <2>1. v = task.version + 1
    BY DEF v
  <2>2. ASSUME NEW s \in 1..Len(journal') PROVE s \in 1..n \/ (s = n + 1 /\ Len(journal') = n + 1)
    BY <1>3, <1>5
  <2> QED BY <1>3, <1>4, <1>5, <2>1, <2>2
<1>8. PICK k \in 0..MaxGens : (\A g \in Gens : config[g] # "none" <=> g <= k) /\ n < k + task.version
  BY DEF OwedInv, JournalInv, n
<1>9. Len(journal') < k + v /\ Len(journal') \in 0..(MaxGens + MaxChanges) /\ n <= Len(journal')
  BY <1>1, <1>3, <1>5, <1>8 DEF v
<1>10. TypeOK'
  BY <1>1, <1>6, <1>7, <1>9 DEF OwedInv, TypeOK, JournalRow
<1>11. JournalInv'
  <2>1. \A g \in Gens : after'[g] <= Len(journal') /\ sent'[g] <= v
    BY <1>1, <1>3, <1>9 DEF v
  <2>2. \A g \in Gens : config'[g] # "none" <=> g <= k
    BY <1>1, <1>8
  <2> QED BY <1>5, <1>6, <1>7, <1>9, <2>1, <2>2 DEF JournalInv, JournalRow
<1>12. \A g \in Gens : config[g] = "active" => consumer[g]
  BY <1>1 DEF OwedInv, RowsInv
<1>13. RowsInv'
  <2>1. \A g \in Gens, s \in Seqs : row[g][s].state # "absent" => s <= Len(journal')
    BY <1>3, <1>9, BoundsAssumption DEF OwedInv, RowsInv, Seqs, n
  <2> QED BY <1>1, <1>12, <2>1 DEF OwedInv, RowsInv
<1>14. ASSUME NEW w \in Workers PROVE RunInv(w)'
  <2>1. RunInv(w) /\ worker'[w] = worker[w] /\ worker[w] \in RunType
    BY <1>1, TableFacts DEF OwedInv, DeliveryInv
  <2>2. worker[w].seen \in Nat /\ worker[w].final \in BOOLEAN
    BY <2>1, <1>3 DEF RunType
  <2>3. worker[w].seq \in 1..n /\ Reads(w) => Reads(w)' /\ ~worker[w].final
    <3>1. worker[w].seq \in 1..n /\ Reads(w) => ~worker[w].final /\ worker[w].seen <= task.version
                                            /\ journal[worker[w].seq].version <= worker[w].seen
      BY <1>1 DEF Reads
    <3>2. task.version <= v
      BY <1>3 DEF v
    <3>3. worker[w].seq \in 1..n => journal'[worker[w].seq] = journal[worker[w].seq]
      BY <1>5
    <3>4. worker[w].seen <= task.version => worker[w].seen <= task'.version
      BY <1>3, <1>6, <2>2, <3>2
    <3> QED BY <2>1, <3>1, <3>3, <3>4 DEF Reads
  <2>4. worker[w].seq \in 1..n /\ Confirmed(w) => Confirmed(w)'
    BY <1>1, <2>1, <2>3 DEF Confirmed
  <2>5. worker[w].seq \in 1..n => worker[w].seq \in 1..Len(journal')
    BY <1>3, <1>9
  <2>6. worker[w].at \in Running => worker[w].seq \in 1..n
    BY <2>1 DEF RunInv, n
  <2> QED BY <1>1, <2>1, <2>3, <2>4, <2>5, <2>6 DEF RunInv, Running, InHttp
<1>15. NothingOwed'
  <2> SUFFICES ASSUME NEW g \in Gens, config[g] = "active"
               PROVE \E s \in (after'[g] + 1)..Len(journal') :
                        /\ consumer'[g] /\ journal'[s].version = task'.version
                        /\ journal'[s].state = "pending" \/ row'[g][s].state \in {"open", "leased"}
    BY <1>1 DEF NothingOwed
  <2>1. Len(journal') = n + 1 /\ journal'[n + 1] = z
    BY <1>5, <1>12 DEF Captured
  <2>2. n + 1 \in (after'[g] + 1)..Len(journal')
    BY <1>1, <1>3, <2>1
  <2>3. consumer'[g] /\ journal'[n + 1].version = task'.version /\ journal'[n + 1].state = "pending"
    BY <1>1, <1>4, <1>6, <1>12, <2>1
  <2> QED BY <2>2, <2>3
<1> QED BY <1>10, <1>11, <1>13, <1>14, <1>15 DEF OwedInv, DeliveryInv

\* A registration notes the current state past its own boundary, and leaves no
\* other generation active.
LEMMA RegisterOwes ==
    ASSUME OwedInv, Register
    PROVE OwedInv'
<1>1. PICK g \in Gens, b \in 0..Len(journal) :
        /\ config[g] = "none" /\ \A h \in 1..(g - 1) : config[h] # "none"
        /\ config' = [h \in Gens |-> IF h = g THEN "active"
                                     ELSE IF config[h] = "active" THEN "deleting" ELSE config[h]]
        /\ consumer' = [h \in Gens |-> h = g \/ (consumer[h] /\ h \notin Revoked)]
        /\ row' = Deactivated(Revoked)
        /\ after' = [after EXCEPT ![g] = b]
        /\ journal' = Noted(task.version)
        /\ UNCHANGED <<task, worker, orphan, deleting, sent, gaveUp, faults>>
  BY DEF Register, history
<1> DEFINE z == [version |-> task.version, state |-> "pending"]
           n == Len(journal)
<1>2. /\ journal \in Seq(JournalRow) /\ n \in 0..(MaxGens + MaxChanges)
      /\ task.version \in 1..(MaxChanges + 1)
      /\ \A s \in 1..n : journal[s] \in JournalRow /\ journal[s].version \in Nat /\ journal[s].version <= task.version
      /\ after \in [Gens -> 0..(MaxGens + MaxChanges)]
      /\ \A h \in Gens : after[h] <= n /\ sent[h] <= task.version
      /\ config \in [Gens -> {"none", "active", "deleting", "deleted"}]
      /\ consumer \in [Gens -> BOOLEAN]
      /\ MaxChanges \in Nat /\ MaxGens \in Nat
  BY TableFacts, BoundsAssumption DEF OwedInv, TypeOK, JournalInv, JournalRow
<1>3. z \in JournalRow /\ z.version = task.version /\ z.state = "pending"
  BY <1>2 DEF JournalRow
<1>4. journal' = Append(journal, z)
  BY <1>1 DEF Noted
<1> HIDE DEF z
<1>5. /\ journal' \in Seq(JournalRow) /\ Len(journal') = n + 1 /\ journal'[n + 1] = z
      /\ \A s \in 1..n : journal'[s] = journal[s]
  BY <1>2, <1>3, <1>4, AppendedRow
<1>6. b \in 0..n
  BY <1>1
<1> HIDE DEF n
<1>7. /\ config' \in [Gens -> {"none", "active", "deleting", "deleted"}] /\ config'[g] = "active"
      /\ \A h \in Gens \ {g} : config'[h] # "active" /\ (config'[h] # "none" <=> config[h] # "none")
      /\ config[g] = "none"
  BY <1>1, <1>2
<1>8. /\ consumer' \in [Gens -> BOOLEAN] /\ consumer'[g]
      /\ \A h \in Gens \ {g} : consumer'[h] => consumer[h]
  BY <1>1, <1>2
<1>9. /\ after' \in [Gens -> 0..(MaxGens + MaxChanges)] /\ after'[g] = b
      /\ \A h \in Gens \ {g} : after'[h] = after[h]
  <2>1. b \in 0..(MaxGens + MaxChanges)
    BY <1>2, <1>6
  <2>2. after' = [after EXCEPT ![g] = b]
    BY <1>1
  <2> QED BY <1>2, <2>1, <2>2
<1>10. /\ row' \in [Gens -> [Seqs -> RowType]]
       /\ \A h \in Gens, s \in Seqs :
             /\ row'[h][s].state = "leased" <=> row'[h][s].owner # None
             /\ row'[h][s].state = "absent" <=> row[h][s].state = "absent"
  BY <1>1, DeactivatedRows
<1>11. PICK k \in 0..MaxGens : (\A h \in Gens : config[h] # "none" <=> h <= k) /\ n < k + task.version
  BY DEF OwedInv, JournalInv, n
<1>12. g = k + 1
  <2>1. g \in 1..MaxGens /\ ~(g <= k)
    BY <1>7, <1>11 DEF Gens
  <2>2. g > 1 => g - 1 <= k
    <3> SUFFICES ASSUME g > 1 PROVE g - 1 <= k
      OBVIOUS
    <3>1. g - 1 \in 1..(g - 1) /\ g - 1 \in Gens
      BY <1>2, <2>1 DEF Gens
    <3> QED BY <1>1, <1>11, <3>1
  <2> QED BY <1>2, <2>1, <2>2
<1>13. Len(journal') < g + task.version /\ Len(journal') \in 0..(MaxGens + MaxChanges)
  <2>1. g \in 1..MaxGens /\ k \in Nat
    BY <1>2, <1>12 DEF Gens
  <2> QED BY <1>2, <1>5, <1>11, <1>12, <2>1
<1>14. \A s \in 1..Len(journal') : journal'[s] \in JournalRow /\ journal'[s].version <= task.version
  <2>1. ASSUME NEW s \in 1..Len(journal') PROVE s \in 1..n \/ s = n + 1
    BY <1>2, <1>5
  <2> QED BY <1>2, <1>3, <1>5, <2>1
<1>15. TypeOK'
  <2>1. UNCHANGED <<task, worker, orphan, deleting, sent, gaveUp, faults>>
    BY <1>1
  <2> QED BY <1>7, <1>8, <1>9, <1>10, <1>13, <1>14, <2>1 DEF OwedInv, TypeOK, JournalRow, RowType
<1>16. JournalInv'
  <2>1. \A h \in Gens : config'[h] # "none" <=> h <= g
    <3>1. ASSUME NEW h \in Gens \ {g} PROVE config'[h] # "none" <=> h <= g
      <4>1. config'[h] # "none" <=> h <= k
        BY <1>7, <1>11
      <4>2. h \in Nat /\ k \in Nat /\ h # k + 1
        BY <1>2, <1>12 DEF Gens
      <4> QED BY <1>12, <4>1, <4>2
    <3>2. config'[g] # "none" /\ g <= g
      BY <1>2, <1>7 DEF Gens
    <3> QED BY <3>1, <3>2
  <2>2. g \in 0..MaxGens
    BY <1>2 DEF Gens
  <2>3. \A h \in Gens : after'[h] <= Len(journal')
    <3>1. ASSUME NEW h \in Gens PROVE after'[h] \in Nat /\ after'[h] <= n
      <4>1. after'[g] \in Nat /\ after'[g] <= n
        BY <1>2, <1>6, <1>9
      <4>2. after[h] \in Nat /\ after[h] <= n
        BY <1>2
      <4>3. h = g \/ after'[h] = after[h]
        BY <1>9
      <4> QED BY <4>1, <4>2, <4>3
    <3> QED BY <1>2, <1>5, <3>1
  <2>4. UNCHANGED <<task, sent>>
    BY <1>1
  <2> QED BY <1>2, <1>5, <1>13, <1>14, <2>1, <2>2, <2>3, <2>4 DEF JournalInv, JournalRow
<1>17. RowsInv'
  <2>1. \A h \in Gens, s \in Seqs : row[h][s].state # "absent" => s <= Len(journal')
    BY <1>2, <1>5, BoundsAssumption DEF OwedInv, RowsInv, Seqs, n
  <2> QED BY <1>7, <1>8, <1>10, <2>1 DEF OwedInv, RowsInv
<1>18. ASSUME NEW w \in Workers PROVE RunInv(w)'
  <2>1. RunInv(w) /\ worker'[w] = worker[w] /\ task' = task /\ sent' = sent
    BY <1>1 DEF OwedInv, DeliveryInv
  <2>2. CASE worker[w].at \in Running
    <3>1. worker[w].gen \in Gens \ {g} /\ config[worker[w].gen] # "none" /\ worker[w].seq \in 1..n
      BY <1>7, <2>1, <2>2 DEF RunInv, n
    <3>2. /\ journal'[worker[w].seq] = journal[worker[w].seq] /\ worker[w].seq \in 1..Len(journal')
          /\ after'[worker[w].gen] = after[worker[w].gen] /\ config'[worker[w].gen] # "none"
      BY <1>2, <1>5, <1>7, <1>9, <3>1
    <3>3. (Reads(w) => Reads(w)') /\ (Confirmed(w) => Confirmed(w)')
      BY <2>1, <3>2 DEF Reads, Confirmed
    <3> QED BY <2>1, <3>1, <3>2, <3>3 DEF RunInv
  <2>3. CASE worker[w].at \notin Running
    BY <2>1, <2>3 DEF RunInv, Running, InHttp
  <2> QED BY <2>2, <2>3
<1>19. NothingOwed'
  <2> SUFFICES ASSUME NEW h \in Gens, config'[h] = "active"
               PROVE \E s \in (after'[h] + 1)..Len(journal') :
                        /\ consumer'[h] /\ journal'[s].version = task'.version
                        /\ journal'[s].state = "pending" \/ row'[h][s].state \in {"open", "leased"}
    BY DEF NothingOwed
  <2>1. h = g
    BY <1>7
  <2>2. n + 1 \in (after'[g] + 1)..Len(journal')
    BY <1>2, <1>5, <1>6, <1>9
  <2>3. consumer'[g] /\ journal'[n + 1].version = task'.version /\ journal'[n + 1].state = "pending"
    BY <1>1, <1>3, <1>5, <1>8
  <2> QED BY <2>1, <2>2, <2>3
<1> QED BY <1>15, <1>16, <1>17, <1>18, <1>19 DEF OwedInv, DeliveryInv

\* No generation is registered yet.
LEMMA InitOwes == Init => OwedInv
<1> SUFFICES ASSUME Init PROVE OwedInv
  OBVIOUS
<1>1. Absent \in RowType /\ Absent.state = "absent" /\ Absent.owner = None
  BY BoundsAssumption DEF Absent, RowType
<1>2. Pass("forward") \in RunType /\ Pass("forward").at = "forward" /\ ~Pass("forward").final
  BY PassType DEF Pass
<1>3. Len(journal) = 0 /\ 1..Len(journal) = {} /\ task.version = 1
  BY DEF Init
<1>4. /\ row \in [Gens -> [Seqs -> RowType]] /\ \A g \in Gens, s \in Seqs : row[g][s] = Absent
      /\ worker \in [Workers -> RunType] /\ \A w \in Workers : worker[w] = Pass("forward")
  BY <1>1, <1>2 DEF Init
<1>5. TypeOK
  <2>1. \A g \in Gens, s \in Seqs : row[g][s].state = "leased" <=> row[g][s].owner # None
    BY <1>1, <1>4
  <2> QED BY <1>3, <1>4, <2>1, BoundsAssumption DEF Init, TypeOK, RowType, RunType
<1>6. JournalInv
  <2>1. \A g \in Gens : config[g] # "none" <=> g <= 0
    BY BoundsAssumption DEF Init, Gens
  <2>2. journal \in Seq([version : 0..(MaxChanges + 1), state : {"pending", "forwarded", "purged"}])
    BY DEF Init
  <2>3. \A g \in Gens : after[g] <= 0 /\ sent[g] <= 1
    BY DEF Init
  <2>4. 0 \in 0..MaxGens /\ 0 < 0 + 1
    BY BoundsAssumption
  <2> QED BY <1>3, <2>1, <2>2, <2>3, <2>4 DEF JournalInv
<1>7. RowsInv
  BY <1>1, <1>4 DEF RowsInv, Init
<1>8. DeliveryInv
  BY <1>2, <1>4 DEF DeliveryInv, RunInv, Running, InHttp
<1>9. NothingOwed
  BY DEF NothingOwed, Init
<1> QED BY <1>5, <1>6, <1>7, <1>8, <1>9 DEF OwedInv

\* Every action keeps what is owed.
LEMMA NextOwes ==
    ASSUME OwedInv, RevocationInv, [Next]_vars
    PROVE OwedInv'
<1>1. CASE UNCHANGED vars
  BY <1>1 DEF OwedInv, TypeOK, JournalInv, RowsInv, DeliveryInv, RunInv, Reads, Confirmed,
              NothingOwed, vars, history
<1>2. CASE Register
  BY <1>2, RegisterOwes
<1>3. CASE LeaseRunsOut
  BY <1>3, LeaseRunsOutKeeps
<1>4. CASE \E over \in BOOLEAN : ChangeTask(over)
  BY <1>4, ChangeTaskOwes
<1>5. ASSUME NEW w \in Workers,
             \/ PassStep(w) \/ Refuse(w) \/ CloseFails(w)
             \/ Delete(w) \/ FinishDelete(w) \/ Crash(w) \/ Restart(w)
      PROVE OwedInv'
  <2>1. CASE \/ NothingDue(w) \/ Prepare(w) \/ Admit(w) \/ Dispatch(w) \/ HttpError(w)
             \/ Cancel(w) \/ Refuse(w) \/ Close(w) \/ CloseFails(w) \/ Crash(w) \/ Restart(w)
    BY <2>1, StepsAdvance
  <2>2. CASE Forward(w) \/ Claim(w) \/ Confirm(w)
    BY <2>2, ForwardKeeps, ClaimKeeps, ConfirmKeeps
  <2>3. CASE Ack(w) \/ Nack(w)
    BY <2>3, AckKeeps, NackKeeps
  <2>4. CASE Delete(w) \/ FinishDelete(w) \/ RetireHistory(w)
    BY <2>4, DeleteOwes, FinishDeleteOwes, RetireHistoryOwes
  <2> QED BY <1>5, <2>1, <2>2, <2>3, <2>4 DEF PassStep
<1> QED BY <1>1, <1>2, <1>3, <1>4, <1>5 DEF Next

(***************************************************************************)
(* The argument for NothingOwed: every delivery under way has read a state *)
(* at least as new as its row, and success is recorded only after the      *)
(* callback confirmed it.                                                  *)
(***************************************************************************)
THEOREM OwedInvHolds == Spec => []OwedInv
<1>1. Init => OwedInv
  BY InitOwes
<1>2. OwedInv /\ RevocationInv /\ [Next]_vars => OwedInv'
  BY NextOwes
<1> QED BY <1>1, <1>2, RevocationInvHolds, PTL DEF Spec

(***************************************************************************)
(* Every table keeps its type (push_outbox.py, push_config_store.py and    *)
(* task_change_store.py): a delivery is leased exactly while it has an     *)
(* owner, its attempts stay within max_delivery_attempts, and the journal  *)
(* has no more rows than registrations and changes.                        *)
(***************************************************************************)
THEOREM TypeCorrect == Spec => []TypeOK
<1>1. OwedInv => TypeOK
  BY DEF OwedInv
<1> QED BY <1>1, OwedInvHolds, PTL

(***************************************************************************)
(* No change of the task is lost between the capture trigger,              *)
(* forward_pending, claims, lost leases, ack_delivery of an older state,   *)
(* replacement and purge_expired (push_outbox.py, push_worker.py): the     *)
(* newest state is confirmed or on the way to every active generation      *)
(* whose deliveries have attempts left, for any number of processes.       *)
(***************************************************************************)
THEOREM ChangesAreOwed == Spec => []NothingOwed
<1>1. OwedInv => NothingOwed
  BY DEF OwedInv
<1> QED BY <1>1, OwedInvHolds, PTL

=============================================================================
