----------------------- MODULE InferenceLease_proofs -----------------------
(***************************************************************************)
(* Theorems about InferenceLease, for any number of requests and calls:    *)
(* the route follows the record, no call runs on capacity whose release    *)
(* was requested, the route drains as Drain promises, an ended lease is    *)
(* not revived, and capacity is billed once.                               *)
(***************************************************************************)
EXTENDS InferenceLease, TLAPS

Route == [lease : Requests \union {None}, accepting : BOOLEAN, epoch : Nat]
Call == [at : {"idle", "selected", "renewing", "renewed", "pinned"},
         req : Requests \union {None}, epoch : Nat]

\* What the stage of the operation that holds the lock says of the record.
OpInv == op # None =>
    /\ up /\ record # None /\ record.req = op.req
    /\ op.caller # None => call[op.caller].at = "renewing"
    /\ op.finally = "plan" => op.plan \in Requests
    /\ op.finally = "mark" => op.step = "drain"
    /\ record.state = "planned" <=> op.step = "acquire" \/ (op.step = "save" /\ op.next = "acquire")
    /\ op.step = "swap" => record.state = "ready"
    /\ op.step = "release" \/ (op.step = "save" /\ op.next = "release")
          => record.state = "releasing" /\ route.lease # op.req
    /\ op.step = "release" => saved = record

\* What a record says of the provider's lease.
Truthful(rec) == rec # None =>
    /\ rec.state # "planned" => cap[rec.req] # "absent"
    /\ rec.state \in Terminal => cap[rec.req] \in Ended

\* How far the record may be ahead of the saved one.
SavedInv == saved # None =>
    /\ up => record # None
    /\ record # None /\ record.req # saved.req => cap[saved.req] \in Ended
    /\ record # None /\ record.req = saved.req /\ saved.state \in Ended
          => record.state \in Ended \/ (record.state = "planned" /\ cap[saved.req] \in Ended)

\* Only the saved lease is billed.
BilledInv == \A r \in Requests :
    cap[r] \in Billed /\ r \notin unplanned => saved # None /\ saved.req = r

\* Calls are pinned to the route of the record.
RouteInv ==
    /\ RouteFollowsRecord
    /\ route.accepting => route.lease # None
    /\ \A c \in Calls : call[c].at = "pinned" => call[c].req = route.lease /\ route.lease # None

\* A record of r says that r has ended, or plans to acquire it again.
Past(rec, r) == rec # None /\ rec.req = r => rec.state \in Ended \union {"planned"}

\* A lease whose release was requested has ended for everyone.
AskedInv == \A r \in asked :
    cap[r] \in Ended /\ route.lease # r /\ Past(record, r) /\ Past(saved, r)

DownInv == ~up => record = None /\ op = None

LeaseInv == /\ TypeOK /\ OpInv /\ Truthful(record) /\ Truthful(saved) /\ SavedInv
            /\ BilledInv /\ RouteInv /\ AskedInv /\ DownInv

\* No call is pinned and none ends.
PinsStay == /\ call' \in [Calls -> Call]
            /\ \A c \in Calls : "pinned" \in {call[c].at, call'[c].at} => call'[c] = call[c]

-----------------------------------------------------------------------------
(* Facts about the operators.                                              *)

(***************************************************************************)
(* An operation that returns releases the lock; pinned calls stay pinned.  *)
(***************************************************************************)
LEMMA ReturnUnlocks ==
    ASSUME LeaseInv, op # None, NEW ok \in BOOLEAN, Return(ok)
    PROVE op' = None /\ PinsStay
<1>1. CASE op.caller = None
  BY <1>1 DEF Return, PinsStay, LeaseInv, TypeOK, Call
<1>2. CASE op.caller # None
  <2> DEFINE b == op.caller
             v == IF ok THEN [call[b] EXCEPT !.at = "renewed"] ELSE Idle
  <2>1. b \in Calls /\ call[b].at = "renewing"
    BY <1>2 DEF LeaseInv, OpInv, TypeOK, Ops
  <2>2. v \in Call /\ v.at # "pinned"
    BY <2>1 DEF LeaseInv, TypeOK, Call, Idle
  <2>3. op' = None /\ call' = [call EXCEPT ![b] = v]
    BY <1>2 DEF Return
  <2> HIDE DEF v
  <2> QED BY <2>1, <2>2, <2>3 DEF PinsStay, LeaseInv, TypeOK, Call
<1> QED BY <1>1, <1>2

(***************************************************************************)
(* A step that leaves the records and the leases alone keeps what is said  *)
(* of them.                                                                *)
(***************************************************************************)
LEMMA Frame ==
    ASSUME LeaseInv, UNCHANGED <<saved, record, cap, up, history>>,
           TypeOK', OpInv', RouteInv', route'.lease # None => route'.lease \notin asked
    PROVE LeaseInv'
<1>1. Truthful(record)' /\ Truthful(saved)' /\ SavedInv' /\ BilledInv'
  BY DEF LeaseInv, Truthful, SavedInv, BilledInv, history
<1>2. AskedInv'
  BY NoneAssumption DEF LeaseInv, AskedInv, Past, history, TypeOK
<1>3. DownInv'
  BY DEF LeaseInv, DownInv, OpInv
<1> QED BY <1>1, <1>2, <1>3 DEF LeaseInv

(***************************************************************************)
(* An operation that only ends keeps the invariant.                        *)
(***************************************************************************)
LEMMA EndKeeps ==
    ASSUME LeaseInv, UNCHANGED <<saved, record, cap, up, closed, history>>,
           op' = None, PinsStay,
           route' \in Route,
           route'.lease = route.lease, route'.accepting => route'.lease # None
    PROVE LeaseInv'
<1>1. TypeOK'
  BY DEF LeaseInv, TypeOK, PinsStay, Call, Route, history
<1>2. OpInv'
  BY DEF OpInv
<1>3. RouteInv'
  BY DEF LeaseInv, RouteInv, RouteFollowsRecord, PinsStay
<1>4. route'.lease # None => route'.lease \notin asked
  BY DEF LeaseInv, AskedInv
<1> QED BY <1>1, <1>2, <1>3, <1>4, Frame

-----------------------------------------------------------------------------
(* The steps of calls.                                                     *)

(***************************************************************************)
(* A call is pinned only to the accepting route it had selected.           *)
(***************************************************************************)
LEMMA CallStepsKeep ==
    ASSUME LeaseInv, NEW c \in Calls, Select(c) \/ Touch(c) \/ Pin(c) \/ EndCall(c)
    PROVE LeaseInv'
<1> USE NoneAssumption DEF LeaseInv
<1>1. UNCHANGED <<saved, record, cap, up, closed, history>>
  BY DEF Select, Touch, Pin, EndCall
<1>2. CASE Select(c)
  <2>1. TypeOK'
    <3>1. [at |-> "selected", req |-> route.lease, epoch |-> route.epoch] \in Call
      BY DEF TypeOK, Call
    <3>2. call' \in [Calls -> Call]
      BY <1>2, <3>1 DEF Select, TypeOK, Call
    <3>3. route' \in Route
      BY <1>2 DEF Select, TypeOK, Route
    <3> QED BY <1>1, <1>2, <3>2, <3>3 DEF Select, TypeOK, Call, Route, history
  <2>2. OpInv'
    BY <1>1, <1>2 DEF Select, OpInv, TypeOK, Ops, Idle
  <2>3. RouteInv' /\ route'.lease = route.lease
    BY <1>1, <1>2 DEF Select, RouteInv, RouteFollowsRecord, TypeOK
  <2> QED BY <1>1, <2>1, <2>2, <2>3, Frame DEF AskedInv
<1>3. CASE Touch(c)
  <2>1. TypeOK'
    <3>1. call' \in [Calls -> Call]
      BY <1>3 DEF Touch, TypeOK, Call, Idle
    <3>2. op' \in Ops \union {None}
      <4>1. CASE Leased(call[c].req)
        <5>1. call[c].req \in Requests
          BY <4>1 DEF Leased, TypeOK, Records
        <5>2. [Operation("touch", call[c].req, "end", None) EXCEPT !.caller = c] \in Ops
          BY <5>1 DEF Operation, Ops, Steps
        <5> QED BY <1>3, <5>2 DEF Touch, TypeOK
      <4>2. CASE ~Leased(call[c].req)
        BY <1>3, <4>2 DEF Touch, TypeOK
      <4> QED BY <4>1, <4>2
    <3> QED BY <1>1, <1>3, <3>1, <3>2 DEF Touch, TypeOK, Call, history
  <2>2. OpInv'
    BY <1>1, <1>3 DEF Touch, OpInv, Operation, Leased, DownInv, TypeOK
  <2>3. RouteInv' /\ route' = route
    BY <1>1, <1>3 DEF Touch, RouteInv, RouteFollowsRecord, TypeOK, Idle
  <2> QED BY <1>1, <2>1, <2>2, <2>3, Frame DEF AskedInv
<1>4. CASE Pin(c)
  <2>1. TypeOK'
    <3>1. call' \in [Calls -> Call]
      BY <1>4 DEF Pin, TypeOK, Call, Idle
    <3>2. route' \in Route
      BY <1>4 DEF Pin, TypeOK, Route
    <3> QED BY <1>1, <1>4, <3>1, <3>2 DEF Pin, TypeOK, Call, Route, history
  <2>2. OpInv'
    BY <1>1, <1>4 DEF Pin, OpInv, TypeOK, Ops
  <2>3. RouteInv' /\ route'.lease = route.lease
    BY <1>1, <1>4 DEF Pin, Unchanged, RouteInv, RouteFollowsRecord, TypeOK, Idle
  <2> QED BY <1>1, <2>1, <2>2, <2>3, Frame DEF AskedInv
<1>5. CASE EndCall(c)
  <2>1. TypeOK'
    BY <1>1, <1>5 DEF EndCall, TypeOK, history, Idle
  <2>2. OpInv'
    BY <1>1, <1>5 DEF EndCall, OpInv, TypeOK, Ops
  <2>3. RouteInv' /\ route' = route
    BY <1>1, <1>5 DEF EndCall, RouteInv, RouteFollowsRecord, TypeOK, Idle
  <2> QED BY <1>1, <2>1, <2>2, <2>3, Frame DEF AskedInv
<1> QED BY <1>2, <1>3, <1>4, <1>5

-----------------------------------------------------------------------------
(* Entering the lock.                                                      *)

(***************************************************************************)
(* A plan is made when nothing is on record, or when the provider has said *)
(* that the lease on record ended; no route is active then.                *)
(***************************************************************************)
LEMMA PlanKeeps ==
    ASSUME LeaseInv, NEW r \in Requests, Plan(r), up, route'.lease = None, route' \in Route,
           ~route'.accepting, PinsStay, \A c \in Calls : call'[c].at # "pinned",
           record # None => record.state \in Terminal,
           UNCHANGED <<saved, cap, up, closed, history>>
    PROVE LeaseInv'
<1> USE NoneAssumption
<1>1. record' = [req |-> r, state |-> "planned"] /\ record' \in Records /\ record' # None
  BY DEF Plan, Records
<1>2. /\ op' \in Ops /\ op'.req = r /\ op'.step = "save" /\ op'.next = "acquire"
      /\ op'.finally = "end" /\ op'.caller = None
  BY DEF Plan, Operation, Ops, Steps
<1>3. TypeOK'
  BY <1>1, <1>2 DEF LeaseInv, TypeOK, Route, Call, PinsStay, history
<1>4. OpInv'
  BY <1>1, <1>2 DEF OpInv
<1>5. Truthful(record)' /\ Truthful(saved)' /\ BilledInv'
  BY <1>1 DEF LeaseInv, Truthful, BilledInv, Terminal, history
<1>6. SavedInv'
  <2> SUFFICES ASSUME saved # None
               PROVE cap[saved.req] \in Ended
    BY <1>1 DEF SavedInv
  <2>1. record # None /\ record.state \in Terminal
    BY DEF LeaseInv, SavedInv
  <2> QED BY <2>1 DEF LeaseInv, SavedInv, Truthful
<1>7. RouteInv'
  BY <1>1 DEF RouteInv, RouteFollowsRecord
<1>8. AskedInv' /\ DownInv'
  BY <1>1 DEF LeaseInv, AskedInv, Past, DownInv, TypeOK, history
<1> QED BY <1>3, <1>4, <1>5, <1>6, <1>7, <1>8 DEF LeaseInv

(***************************************************************************)
(* An operation begins with the lease on record.                           *)
(***************************************************************************)
LEMMA EnterKeeps ==
    ASSUME LeaseInv, NEW r \in Requests, Acquire(r) \/ Status(r) \/ Release(r)
    PROVE LeaseInv'
<1> USE NoneAssumption
<1>1. up /\ op = None /\ UNCHANGED <<saved, cap, call, up, closed, history>>
  BY DEF Acquire, Status, Release
<1>2. CASE record' # record
  <2>1. record = None /\ Plan(r) /\ route' = route
    BY <1>2 DEF Acquire, Status, Release
  <2>2. route.lease = None /\ ~route.accepting
    BY <2>1 DEF LeaseInv, RouteInv, RouteFollowsRecord
  <2>3. PinsStay /\ \A c \in Calls : call'[c].at # "pinned"
    BY <1>1, <2>2 DEF LeaseInv, PinsStay, RouteInv, TypeOK, Call
  <2> QED BY <1>1, <2>1, <2>2, <2>3, PlanKeeps DEF LeaseInv, TypeOK, Route
<1>3. CASE record' = record
  <2>1. record # None
    <3>1. CASE Acquire(r) /\ record = None
      BY <1>3, <3>1 DEF Acquire, Plan, Records
    <3> QED BY <3>1 DEF Acquire, Status, Release, Leased
  <2>2. record \in Records
    BY <2>1 DEF LeaseInv, TypeOK
  <2>3. /\ op' \in Ops /\ op'.req = record.req /\ op'.step \in {"acquire", "status", "drain"}
        /\ op'.caller = None
        /\ op'.step = "acquire" <=> record.state = "planned"
        /\ op'.finally = "plan" => op'.plan \in Requests
        /\ op'.finally = "mark" => op'.step = "drain"
    <3>1. CASE Acquire(r)
      BY <2>1, <2>2, <3>1 DEF Acquire, Operation, Ops, Steps, Records, Terminal
    <3>2. CASE Status(r)
      BY <2>2, <3>2 DEF Status, Leased, Operation, Ops, Steps, Records
    <3>3. CASE Release(r)
      BY <2>2, <3>3 DEF Release, Leased, Operation, Ops, Steps, Records
    <3> QED BY <3>1, <3>2, <3>3
  <2>4. route' \in Route /\ route'.lease = route.lease /\ (route'.accepting => route.accepting)
    BY DEF Acquire, Status, Release, StopAccepting, LeaseInv, TypeOK, Route
  <2>5. TypeOK'
    BY <1>1, <1>3, <2>3, <2>4 DEF LeaseInv, TypeOK, Route, history
  <2>6. OpInv'
    BY <1>1, <1>3, <2>1, <2>3 DEF OpInv
  <2>7. RouteInv'
    BY <1>1, <1>3, <2>4 DEF LeaseInv, RouteInv, RouteFollowsRecord
  <2> QED BY <1>1, <1>3, <2>4, <2>5, <2>6, <2>7, Frame DEF LeaseInv, AskedInv
<1> QED BY <1>2, <1>3

(***************************************************************************)
(* A restart takes up the saved record; a crash forgets the rest.          *)
(***************************************************************************)
LEMMA CrashKeeps ==
    ASSUME LeaseInv, Crash
    PROVE LeaseInv'
<1> USE NoneAssumption DEF Crash
<1>1. TypeOK'
  BY DEF LeaseInv, TypeOK, Idle, history
<1>2. OpInv' /\ Truthful(record)' /\ Truthful(saved)' /\ SavedInv' /\ BilledInv' /\ DownInv'
  BY DEF LeaseInv, OpInv, Truthful, SavedInv, BilledInv, DownInv, history
<1>3. RouteInv'
  BY DEF RouteInv, RouteFollowsRecord, Idle
<1>4. AskedInv'
  BY DEF LeaseInv, AskedInv, Past, TypeOK, history
<1> QED BY <1>1, <1>2, <1>3, <1>4 DEF LeaseInv

(***************************************************************************)
(* A saved lease that was ready is loaded as pending.                      *)
(***************************************************************************)
LEMMA RestartKeeps ==
    ASSUME LeaseInv, Restart
    PROVE LeaseInv'
<1> USE NoneAssumption
<1>1. ~up /\ up' /\ UNCHANGED <<saved, cap, route, call, closed, history>> /\ record = None
  BY DEF Restart, LeaseInv, DownInv
<1>2. route.lease = None
  BY <1>1 DEF LeaseInv, RouteInv, RouteFollowsRecord
<1>3. CASE saved = None
  <2>1. record' = None /\ op' = None
    BY <1>3 DEF Restart, Loaded
  <2>2. TypeOK' /\ OpInv' /\ DownInv'
    BY <1>1, <2>1 DEF LeaseInv, TypeOK, OpInv, DownInv, history
  <2>3. Truthful(record)' /\ Truthful(saved)' /\ SavedInv' /\ BilledInv'
    BY <1>1, <1>3, <2>1 DEF LeaseInv, Truthful, SavedInv, BilledInv, history
  <2>4. RouteInv' /\ AskedInv'
    BY <1>1, <1>2, <2>1 DEF LeaseInv, RouteInv, RouteFollowsRecord, AskedInv, Past, history
  <2> QED BY <2>2, <2>3, <2>4 DEF LeaseInv
<1>4. CASE saved # None
  <2>1. saved \in Records
    BY <1>4 DEF LeaseInv, TypeOK
  <2>2. /\ record' \in Records /\ record' # None /\ record'.req = saved.req
        /\ record'.state = IF saved.state = "ready" THEN "pending" ELSE saved.state
    BY <1>4, <2>1 DEF Restart, Loaded, Records, States, Billed
  <2>3. /\ op' \in Ops /\ op'.req = saved.req /\ op'.finally = "end" /\ op'.caller = None
        /\ op'.step = IF saved.state = "planned" THEN "acquire" ELSE "status"
    BY <1>4, <2>1 DEF Restart, Operation, Ops, Steps, Records
  <2>4. TypeOK'
    BY <1>1, <2>2, <2>3 DEF LeaseInv, TypeOK, history
  <2>5. OpInv' /\ DownInv'
    BY <1>1, <2>2, <2>3 DEF OpInv, DownInv
  <2>6. Truthful(record)' /\ Truthful(saved)' /\ SavedInv' /\ BilledInv'
    BY <1>1, <1>4, <2>2 DEF LeaseInv, Truthful, SavedInv, BilledInv, Terminal, Ended, history
  <2>7. RouteInv' /\ AskedInv'
    BY <1>1, <1>2, <1>4, <2>2 DEF LeaseInv, RouteInv, RouteFollowsRecord, AskedInv, Past, Ended, Terminal,
       history
  <2> QED BY <2>4, <2>5, <2>6, <2>7 DEF LeaseInv
<1> QED BY <1>3, <1>4

-----------------------------------------------------------------------------
(* The provider.                                                           *)

(***************************************************************************)
(* Capacity that has ended stays so, and only an acquisition bills it.     *)
(***************************************************************************)
LEMMA ProviderStepKeeps ==
    ASSUME LeaseInv, NEW r \in Requests, ProviderStep(r)
    PROVE LeaseInv'
<1>1. UNCHANGED <<saved, record, op, route, call, up, closed, history>>
  BY DEF ProviderStep
<1>2. PICK s \in States : /\ cap' = [cap EXCEPT ![r] = s] /\ cap[r] # "absent"
                          /\ cap[r] \in Ended => s \in Ended
                          /\ s \in Billed => cap[r] \in Billed
  BY DEF ProviderStep, States, Billed, Ended, Terminal
<1>3. TypeOK'
  BY <1>1, <1>2 DEF LeaseInv, TypeOK, history
<1>4. \A q \in Requests : /\ cap[q] # "absent" => cap'[q] # "absent"
                          /\ cap[q] \in Ended => cap'[q] \in Ended
                          /\ cap'[q] \in Billed => cap[q] \in Billed
  BY <1>2 DEF LeaseInv, TypeOK, States, Billed, Ended, Terminal
<1>5. Truthful(record)' /\ Truthful(saved)' /\ SavedInv'
  BY <1>1, <1>4 DEF LeaseInv, Truthful, SavedInv, TypeOK, Records
<1>6. BilledInv' /\ AskedInv'
  BY <1>1, <1>4 DEF LeaseInv, BilledInv, AskedInv, Past, TypeOK, history
<1>7. OpInv' /\ RouteInv' /\ DownInv'
  BY <1>1 DEF LeaseInv, OpInv, RouteInv, RouteFollowsRecord, DownInv
<1> QED BY <1>3, <1>5, <1>6, <1>7 DEF LeaseInv

(***************************************************************************)
(* What a call of the provider does to the lease r.                        *)
(***************************************************************************)
LEMMA EffectIsLease ==
    ASSUME NEW step \in Steps, NEW c \in States \union {"absent"}, NEW s \in Effect(step, c)
    PROVE /\ s \in States \union {"absent"}
          /\ c # "absent" => s # "absent"
          /\ c \in Ended => s \in Ended
          /\ step = "acquire" => s # "absent" /\ (c # "absent" => s = c)
          /\ step = "release" => s \in Ended
          /\ s \in Billed => c \in Billed \/ (c = "absent" /\ step = "acquire")
<1>1. CASE step = "acquire"
  BY <1>1 DEF Effect, States, Billed, Ended, Terminal
<1>2. CASE step = "release"
  BY <1>2 DEF Effect, States, Billed, Ended, Terminal
<1>3. CASE step \notin {"acquire", "release"}
  BY <1>3 DEF Effect, States, Billed, Ended, Terminal
<1> QED BY <1>1, <1>2, <1>3

(***************************************************************************)
(* The effect of a call, before its answer: the record stays truthful, a   *)
(* lease is billed under its saved plan or noted as unplanned, and a lease *)
(* whose release is requested is past for everyone.                        *)
(***************************************************************************)
LEMMA EffectKeeps ==
    ASSUME LeaseInv, op # None, op.step \in {"status", "acquire", "touch", "release"},
           NEW s \in Effect(op.step, cap[op.req]),
           cap' = [cap EXCEPT ![op.req] = s],
           asked' = IF op.step = "release" THEN asked \union {op.req} ELSE asked,
           unplanned' = IF cap[op.req] = "absent" /\ (saved = None \/ saved.req # op.req)
                        THEN unplanned \union {op.req} ELSE unplanned,
           UNCHANGED <<saved, route, up, closed>>
    PROVE /\ op \in Ops /\ cap' \in [Requests -> States \union {"absent"}]
          /\ asked' \subseteq Requests /\ unplanned' \subseteq Requests
          /\ \A q \in Requests : /\ cap[q] # "absent" => cap'[q] # "absent"
                                 /\ cap[q] \in Ended => cap'[q] \in Ended
          /\ Truthful(saved)' /\ BilledInv'
          /\ \A q \in asked' : /\ cap'[q] \in Ended /\ route'.lease # q /\ Past(saved, q)'
                               /\ Past(record, q)
<1>1. op \in Ops /\ op.req \in Requests /\ op.step \in Steps
  BY DEF LeaseInv, TypeOK, Ops
<1>2. /\ s \in States \union {"absent"}
      /\ cap[op.req] # "absent" => s # "absent"
      /\ cap[op.req] \in Ended => s \in Ended
      /\ op.step = "release" => s \in Ended
      /\ s \in Billed => cap[op.req] \in Billed \/ cap[op.req] = "absent"
  BY <1>1, EffectIsLease DEF LeaseInv, TypeOK
<1>3. cap' \in [Requests -> States \union {"absent"}]
  BY <1>1, <1>2 DEF LeaseInv, TypeOK
<1>4. asked' \subseteq Requests /\ unplanned' \subseteq Requests
  BY <1>1 DEF LeaseInv, TypeOK
<1>5. \A q \in Requests : /\ cap[q] # "absent" => cap'[q] # "absent"
                          /\ cap[q] \in Ended => cap'[q] \in Ended
  BY <1>1, <1>2 DEF LeaseInv, TypeOK
<1>6. Truthful(saved)'
  BY <1>5 DEF LeaseInv, Truthful, TypeOK, Records
<1>7. BilledInv'
  <2> SUFFICES ASSUME NEW q \in Requests, cap'[q] \in Billed, q \notin unplanned'
               PROVE saved # None /\ saved.req = q
    BY DEF BilledInv
  <2>1. CASE q = op.req
    BY <1>2, <2>1 DEF LeaseInv, BilledInv, TypeOK
  <2>2. CASE q # op.req
    BY <2>2 DEF LeaseInv, BilledInv, TypeOK
  <2> QED BY <2>1, <2>2
<1>8. ASSUME NEW q \in asked'
      PROVE cap'[q] \in Ended /\ route'.lease # q /\ Past(saved, q)' /\ Past(record, q)
  <2>1. CASE q \in asked
    BY <1>5, <2>1 DEF LeaseInv, AskedInv, Past, TypeOK
  <2>2. CASE q \notin asked
    <3>1. q = op.req /\ op.step = "release"
      BY <2>2
    <3>2. record.state = "releasing" /\ saved = record /\ route.lease # q
      BY <3>1 DEF LeaseInv, OpInv
    <3> QED BY <1>1, <1>2, <3>1, <3>2 DEF LeaseInv, TypeOK, Past, Ended
  <2> QED BY <2>1, <2>2
<1> QED BY <1>1, <1>3, <1>4, <1>5, <1>6, <1>7, <1>8

(***************************************************************************)
(* An answer that is allowed is true, or calls a lease ready that was not  *)
(* known to have ended.                                                    *)
(***************************************************************************)
LEMMA AnswerIsLease ==
    ASSUME LeaseInv, op # None, op.step \in {"status", "acquire", "touch", "release"},
           NEW s \in Effect(op.step, cap[op.req]), NEW answer \in Answers(op.step, s),
           Allowed(record.state, answer)
    PROVE /\ answer \in States
          /\ s # "absent"
          /\ answer \in Terminal => s \in Ended
          /\ record.state \in Ended => answer \in Ended
          /\ record.state = "planned" /\ cap[op.req] \in Ended => answer \in Ended
<1>1. /\ op.req \in Requests /\ op.step \in Steps /\ record # None /\ record.req = op.req
      /\ cap[op.req] \in States \union {"absent"}
  BY DEF LeaseInv, TypeOK, OpInv, Ops
<1>2. record.state = "planned" <=> op.step = "acquire"
  BY DEF LeaseInv, OpInv
<1>3. /\ s \in States \union {"absent"}
      /\ cap[op.req] # "absent" => s # "absent"
      /\ cap[op.req] \in Ended => s \in Ended
      /\ op.step = "acquire" => s # "absent" /\ (cap[op.req] # "absent" => s = cap[op.req])
  BY <1>1, EffectIsLease
<1>4. s # "absent"
  BY <1>1, <1>2, <1>3 DEF LeaseInv, Truthful
<1>5. answer \in {s, "ready"} /\ (op.step = "acquire" => answer = s)
  BY DEF Answers
<1>6. answer \in States
  BY <1>3, <1>4, <1>5 DEF States, Billed
<1>7. answer \in Terminal => s \in Ended
  BY <1>5 DEF Terminal, Ended
<1>8. record.state \in Ended => answer \in Ended
  BY <1>6 DEF Allowed, Ended, Terminal, States, Billed
<1> QED BY <1>1, <1>2, <1>3, <1>4, <1>5, <1>6, <1>7, <1>8

(***************************************************************************)
(* A provider call fails, loses its answer, or is answered.                *)
(***************************************************************************)
LEMMA CallProviderKeeps ==
    ASSUME LeaseInv, CallProvider
    PROVE LeaseInv'
<1> USE NoneAssumption
<1>1. /\ op # None /\ op.step \in {"status", "acquire", "touch", "release"}
      /\ UNCHANGED <<saved, route, up, closed>>
  BY DEF CallProvider
<1>2. CASE Fail /\ UNCHANGED <<record, cap, history>>
  <2>1. op' = None /\ PinsStay
    BY <1>1, <1>2, ReturnUnlocks DEF Fail, LeaseInv
  <2> QED BY <1>1, <1>2, <2>1, EndKeeps DEF LeaseInv, TypeOK, Route, RouteInv
<1>3. ASSUME NEW s \in Effect(op.step, cap[op.req]),
             cap' = [cap EXCEPT ![op.req] = s],
             asked' = IF op.step = "release" THEN asked \union {op.req} ELSE asked,
             unplanned' = IF cap[op.req] = "absent" /\ (saved = None \/ saved.req # op.req)
                          THEN unplanned \union {op.req} ELSE unplanned,
             (Fail /\ UNCHANGED record) \/ \E answer \in Answers(op.step, s) : Apply(op.req, answer)
      PROVE LeaseInv'
  <2>1. /\ op \in Ops /\ cap' \in [Requests -> States \union {"absent"}]
        /\ asked' \subseteq Requests /\ unplanned' \subseteq Requests
        /\ \A q \in Requests : /\ cap[q] # "absent" => cap'[q] # "absent"
                               /\ cap[q] \in Ended => cap'[q] \in Ended
        /\ Truthful(saved)' /\ BilledInv'
        /\ \A q \in asked' : /\ cap'[q] \in Ended /\ route'.lease # q /\ Past(saved, q)'
                             /\ Past(record, q)
    BY <1>1, <1>3, EffectKeeps
  <2>2. ASSUME Fail, UNCHANGED record PROVE LeaseInv'
    <3>1. op' = None /\ PinsStay
      BY <1>1, <2>2, ReturnUnlocks DEF Fail, LeaseInv
    <3>2. TypeOK' /\ OpInv' /\ DownInv'
      BY <1>1, <2>1, <2>2, <3>1 DEF LeaseInv, TypeOK, OpInv, DownInv, PinsStay, Call
    <3>3. Truthful(record)' /\ SavedInv'
      BY <1>1, <2>1, <2>2 DEF LeaseInv, Truthful, SavedInv, TypeOK, Records
    <3>4. RouteInv' /\ AskedInv'
      BY <1>1, <2>1, <2>2, <3>1
         DEF LeaseInv, RouteInv, RouteFollowsRecord, AskedInv, Past, PinsStay
    <3> QED BY <2>1, <3>2, <3>3, <3>4 DEF LeaseInv
  <2>3. ASSUME NEW answer \in Answers(op.step, s), Apply(op.req, answer),
               Allowed(record.state, answer)
        PROVE LeaseInv'
    <3>1. /\ record' = [req |-> op.req, state |-> answer]
          /\ op' = [op EXCEPT !.step = "save", !.next = "route"] /\ call' = call
      BY <2>3 DEF Apply
    <3>2. /\ answer \in States /\ s # "absent"
          /\ answer \in Terminal => s \in Ended
          /\ record.state \in Ended => answer \in Ended
          /\ record.state = "planned" /\ cap[op.req] \in Ended => answer \in Ended
      BY <1>1, <2>3, AnswerIsLease
    <3>3. record # None /\ record.req = op.req /\ op.req \in Requests /\ up /\ cap'[op.req] = s
      BY <1>1, <1>3, <2>1 DEF LeaseInv, OpInv, Ops, TypeOK
    <3>4. record' \in Records /\ record' # None /\ record'.req = op.req /\ record'.state = answer
      BY <3>1, <3>2, <3>3 DEF Records
    <3>5. /\ op' \in Ops /\ op'.req = op.req /\ op'.step = "save" /\ op'.next = "route"
          /\ op'.finally = op.finally /\ op'.plan = op.plan /\ op'.caller = op.caller
      BY <2>1, <3>1 DEF Ops, Steps
    <3>6. TypeOK'
      BY <1>1, <2>1, <3>1, <3>4, <3>5 DEF LeaseInv, TypeOK
    <3>7. OpInv' /\ DownInv'
      BY <1>1, <3>1, <3>2, <3>3, <3>4, <3>5
         DEF LeaseInv, OpInv, DownInv, States, Billed, Ended, Terminal
    <3>8. Truthful(record)'
      BY <3>2, <3>3, <3>4 DEF Truthful
    <3>9. SavedInv'
      BY <1>1, <2>1, <3>2, <3>3, <3>4 DEF LeaseInv, SavedInv, TypeOK, Records
    <3>10. RouteInv'
      BY <1>1, <3>1, <3>3, <3>4 DEF LeaseInv, RouteInv, RouteFollowsRecord
    <3>11. AskedInv'
      <4> SUFFICES ASSUME NEW q \in asked', q = op.req
                   PROVE answer \in Ended \union {"planned"}
        BY <2>1, <3>4 DEF AskedInv, Past
      <4>1. CASE record.state = "planned" /\ q \in asked
        BY <3>2, <4>1 DEF LeaseInv, AskedInv
      <4>2. CASE record.state = "planned" /\ q \notin asked
        BY <1>1, <1>3, <4>2 DEF LeaseInv, OpInv
      <4>3. CASE record.state # "planned"
        BY <2>1, <3>2, <3>3, <4>3 DEF Past
      <4> QED BY <4>1, <4>2, <4>3
    <3> QED BY <2>1, <3>6, <3>7, <3>8, <3>9, <3>10, <3>11 DEF LeaseInv
  <2> QED BY <1>3, <2>2, <2>3 DEF Apply
<1> QED BY <1>2, <1>3 DEF CallProvider

-----------------------------------------------------------------------------
(* Saving the record, then the route.                                      *)

(***************************************************************************)
(* A save moves the saved record on to a lease that may be billed only     *)
(* when the one it replaces has ended.                                     *)
(***************************************************************************)
LEMMA SaveKeeps ==
    ASSUME LeaseInv, Save
    PROVE LeaseInv'
<1> USE NoneAssumption
<1>1. op # None /\ op.step = "save" /\ UNCHANGED <<record, cap, route, up, closed, history>>
  BY DEF Save
<1>2. CASE Fail /\ UNCHANGED saved
  <2>1. op' = None /\ PinsStay
    BY <1>1, <1>2, ReturnUnlocks DEF Fail, LeaseInv
  <2> QED BY <1>1, <1>2, <2>1, EndKeeps DEF LeaseInv, TypeOK, Route, RouteInv
<1>3. CASE saved' = record /\ op' = [op EXCEPT !.step = op.next] /\ UNCHANGED call
  <2>1. op \in Ops /\ up /\ record # None /\ record \in Records
    BY <1>1 DEF LeaseInv, TypeOK, OpInv
  <2>2. /\ op' \in Ops /\ op'.req = op.req /\ op'.step = op.next /\ op'.finally = op.finally
        /\ op'.plan = op.plan /\ op'.caller = op.caller /\ op.next \in {"route", "acquire", "release"}
    BY <1>3, <2>1 DEF Ops, Steps
  <2>3. TypeOK'
    BY <1>1, <1>3, <2>2 DEF LeaseInv, TypeOK, history
  <2>4. OpInv' /\ DownInv'
    BY <1>1, <1>3, <2>1, <2>2 DEF LeaseInv, OpInv, DownInv
  <2>5. Truthful(record)' /\ Truthful(saved)' /\ SavedInv'
    BY <1>1, <1>3, <2>1 DEF LeaseInv, Truthful, SavedInv
  <2>6. BilledInv'
    BY <1>1, <1>3, <2>1 DEF LeaseInv, BilledInv, SavedInv, Billed, Ended, Terminal, history
  <2>7. RouteInv' /\ AskedInv'
    BY <1>1, <1>3 DEF LeaseInv, RouteInv, RouteFollowsRecord, AskedInv, Past, history
  <2> QED BY <2>3, <2>4, <2>5, <2>6, <2>7 DEF LeaseInv
<1> QED BY <1>1, <1>2, <1>3 DEF Save

(***************************************************************************)
(* Once the route is in line with the record, the operation goes on.       *)
(***************************************************************************)
LEMMA FinallyKeeps ==
    ASSUME LeaseInv, op # None, op.step \in {"route", "drain"}, Finally,
           UNCHANGED <<saved, cap, up, closed, history>>,
           route' \in Route, route'.accepting => route'.lease # None,
           \/ route' = route
           \/ route'.lease = None /\ \A c \in Calls : call[c].at # "pinned",
           op.step = "drain" => route'.lease # op.req,
           op.step = "route" => record.state \notin Terminal
    PROVE LeaseInv'
<1> USE NoneAssumption
<1>1. /\ op \in Ops /\ up /\ record # None /\ record \in Records /\ record.req = op.req
      /\ record.state # "planned"
  BY DEF LeaseInv, TypeOK, OpInv
<1>2. CASE op.finally = "plan" /\ record.state \in Terminal /\ Plan(op.plan) /\ UNCHANGED call
  <2>1. op.plan \in Requests
    BY <1>2 DEF LeaseInv, OpInv
  <2>2. route'.lease = None
    BY <1>1, <1>2 DEF LeaseInv, RouteInv, RouteFollowsRecord
  <2>3. PinsStay /\ \A c \in Calls : call'[c].at # "pinned"
    BY <1>1, <1>2, <2>2 DEF LeaseInv, PinsStay, RouteInv, TypeOK, Call
  <2> QED BY <1>1, <1>2, <2>1, <2>2, <2>3, PlanKeeps
<1>3. CASE /\ op.finally = "recheck" /\ record.state \notin {"released", "expired"}
           /\ op' = [op EXCEPT !.step = "drain", !.finally = "mark"]
           /\ UNCHANGED <<record, call>>
  <2>1. /\ op' \in Ops /\ op'.req = op.req /\ op'.step = "drain" /\ op'.finally = "mark"
        /\ op'.caller = op.caller
    BY <1>1, <1>3 DEF Ops, Steps
  <2>2. TypeOK'
    BY <1>3, <2>1 DEF LeaseInv, TypeOK, Route, history
  <2>3. OpInv'
    BY <1>1, <1>3, <2>1 DEF LeaseInv, OpInv
  <2>4. RouteInv' /\ route'.lease \in {None, route.lease}
    BY <1>3 DEF LeaseInv, RouteInv, RouteFollowsRecord
  <2> QED BY <1>3, <2>2, <2>3, <2>4, Frame DEF LeaseInv, AskedInv
<1>4. CASE /\ op.finally = "mark" /\ record' = [record EXCEPT !.state = "releasing"]
           /\ op' = [op EXCEPT !.step = "save", !.next = "release", !.finally = "end"]
           /\ UNCHANGED call
  <2>1. op.step = "drain"
    BY <1>4 DEF LeaseInv, OpInv
  <2>2. record' \in Records /\ record' # None /\ record'.req = op.req /\ record'.state = "releasing"
    BY <1>1, <1>4 DEF Records, States, Ended
  <2>3. /\ op' \in Ops /\ op'.req = op.req /\ op'.step = "save" /\ op'.next = "release"
        /\ op'.finally = "end" /\ op'.caller = op.caller
    BY <1>1, <1>4 DEF Ops, Steps
  <2>4. TypeOK'
    BY <1>4, <2>2, <2>3 DEF LeaseInv, TypeOK, Route, history
  <2>5. OpInv' /\ DownInv'
    BY <1>1, <1>4, <2>1, <2>2, <2>3 DEF LeaseInv, OpInv, DownInv
  <2>6. Truthful(record)' /\ Truthful(saved)' /\ BilledInv'
    BY <1>1, <2>2 DEF LeaseInv, Truthful, BilledInv, Terminal, history
  <2>7. SavedInv'
    BY <1>1, <2>2 DEF LeaseInv, SavedInv, Ended
  <2>8. RouteInv' /\ AskedInv'
    BY <1>1, <1>4, <2>2
       DEF LeaseInv, RouteInv, RouteFollowsRecord, AskedInv, Past, Ended, TypeOK, history
  <2> QED BY <2>4, <2>5, <2>6, <2>7, <2>8 DEF LeaseInv
<1>5. CASE Return(record.state = "ready") /\ UNCHANGED record
  <2>1. op' = None /\ PinsStay
    BY <1>5, ReturnUnlocks DEF LeaseInv
  <2>2. TypeOK' /\ OpInv'
    BY <1>5, <2>1 DEF LeaseInv, TypeOK, OpInv, PinsStay, Call, Route, history
  <2>3. RouteInv' /\ route'.lease \in {None, route.lease}
    BY <1>5, <2>1 DEF LeaseInv, RouteInv, RouteFollowsRecord, PinsStay
  <2> QED BY <1>5, <2>2, <2>3, Frame DEF LeaseInv, AskedInv
<1> QED BY <1>2, <1>3, <1>4, <1>5 DEF Finally

(***************************************************************************)
(* A drain that ended, or a lease still pending, lets the operation go on. *)
(***************************************************************************)
LEMMA DrainedKeeps ==
    ASSUME LeaseInv, KeepRoute \/ Drained
    PROVE LeaseInv'
<1>1. CASE KeepRoute
  BY <1>1, FinallyKeeps DEF KeepRoute, LeaseInv, RouteInv, TypeOK, Route, Terminal
<1>2. CASE Drained
  <2>1. Forgotten \in Route /\ Forgotten.lease = None /\ ~Forgotten.accepting
    BY DEF Forgotten, LeaseInv, TypeOK, Route
  <2>2. op.req # None
    BY <1>2, NoneAssumption DEF Drained, LeaseInv, TypeOK, Ops
  <2>3. route.lease = op.req => \A c \in Calls : call[c].at # "pinned"
    BY <1>2 DEF Drained, Pinned
  <2> QED BY <1>2, <2>1, <2>2, <2>3, FinallyKeeps DEF Drained, LeaseInv, RouteInv, TypeOK, Route
<1> QED BY <1>1, <1>2

(***************************************************************************)
(* A route is published only for the lease on record, and shut while it    *)
(* drains.                                                                 *)
(***************************************************************************)
LEMMA RouteStepsKeep ==
    ASSUME LeaseInv, Activate \/ Swap \/ SwapTimeout \/ Deactivate \/ DrainTimeout
    PROVE LeaseInv'
<1> USE NoneAssumption
<1>1. /\ op # None /\ op.step \in {"route", "swap", "drain"}
      /\ UNCHANGED <<saved, record, cap, up, closed, history>>
  BY DEF Activate, Swap, SwapTimeout, Deactivate, DrainTimeout
<1>2. /\ op \in Ops /\ op.req \in Requests /\ op.req # None /\ up
      /\ record # None /\ record.req = op.req /\ record.state # "planned"
  BY <1>1 DEF LeaseInv, TypeOK, OpInv, Ops
<1>3. CASE UNCHANGED route /\ \E ok \in BOOLEAN : Return(ok)
  <2>1. op' = None /\ PinsStay
    BY <1>1, <1>3, ReturnUnlocks DEF LeaseInv
  <2> QED BY <1>1, <1>3, <2>1, EndKeeps DEF LeaseInv, TypeOK, Route, RouteInv
<1>4. CASE /\ route' = [route EXCEPT !.lease = op.req, !.accepting = TRUE] /\ Return(TRUE)
           /\ \A c \in Calls : call[c].at # "pinned"
           /\ record.state = "ready"
  <2>1. op' = None /\ PinsStay
    BY <1>1, <1>4, ReturnUnlocks DEF LeaseInv
  <2>2. route' \in Route /\ route'.lease = op.req /\ route'.accepting
    BY <1>2, <1>4 DEF LeaseInv, TypeOK, Route
  <2>3. TypeOK' /\ OpInv'
    BY <1>1, <2>1, <2>2 DEF LeaseInv, TypeOK, OpInv, PinsStay, Call, Route, history
  <2>4. RouteInv'
    BY <1>1, <1>2, <1>4, <2>1, <2>2 DEF RouteInv, RouteFollowsRecord, PinsStay
  <2>5. op.req \notin asked
    BY <1>2, <1>4 DEF LeaseInv, AskedInv, Past, Ended, Terminal
  <2> QED BY <1>1, <2>2, <2>3, <2>4, <2>5, Frame
<1>5. CASE /\ UNCHANGED call
           /\ \/ op' = [op EXCEPT !.step = "swap"] /\ record.state = "ready"
              \/ op' = [op EXCEPT !.step = "drain"]
           /\ route' \in Route /\ route'.lease = route.lease /\ (route'.accepting => route.accepting)
           /\ op.step = "route"
  <2>1. /\ op' \in Ops /\ op'.req = op.req /\ op'.finally = op.finally /\ op'.plan = op.plan
        /\ op'.caller = op.caller
        /\ op'.step \in {"swap", "drain"} /\ (op'.step = "swap" => record.state = "ready")
    BY <1>2, <1>5 DEF Ops, Steps
  <2>2. TypeOK'
    BY <1>1, <1>5, <2>1 DEF LeaseInv, TypeOK, Route, history
  <2>3. OpInv'
    BY <1>1, <1>2, <1>5, <2>1 DEF LeaseInv, OpInv
  <2>4. RouteInv'
    BY <1>1, <1>5 DEF LeaseInv, RouteInv, RouteFollowsRecord
  <2> QED BY <1>1, <1>5, <2>2, <2>3, <2>4, Frame DEF LeaseInv, AskedInv
<1>6. CASE Activate
  BY <1>2, <1>3, <1>4, <1>5, <1>6
     DEF Activate, Fail, LeaseInv, RouteInv, TypeOK, Route
<1>7. CASE Swap
  <2>1. record.state = "ready" /\ \A c \in Calls : call[c].at # "pinned"
    BY <1>7 DEF Swap, Pinned, LeaseInv, OpInv
  <2> QED BY <1>3, <1>4, <1>7, <2>1 DEF Swap, Fail
<1>8. CASE SwapTimeout
  <2>1. op' = None /\ PinsStay
    BY <1>1, <1>8, ReturnUnlocks DEF SwapTimeout, Fail, LeaseInv
  <2>2. route' \in Route /\ route'.lease = route.lease
    BY <1>8 DEF SwapTimeout, LeaseInv, TypeOK, Route
  <2>3. route.lease # None
    BY <1>8 DEF SwapTimeout, Pinned, LeaseInv, RouteInv
  <2> QED BY <1>1, <2>1, <2>2, <2>3, EndKeeps
<1>9. CASE Deactivate
  <2>1. route' \in Route /\ route'.lease = route.lease /\ (route'.accepting => route.accepting)
    BY <1>9 DEF Deactivate, StopAccepting, LeaseInv, TypeOK, Route
  <2> QED BY <1>5, <1>9, <2>1 DEF Deactivate
<1>10. CASE DrainTimeout
  BY <1>3, <1>10 DEF DrainTimeout, Fail
<1> QED BY <1>6, <1>7, <1>8, <1>9, <1>10

(***************************************************************************)
(* Closing the service shuts the route and then forgets it.                *)
(***************************************************************************)
LEMMA CloseKeeps ==
    ASSUME LeaseInv, Close \/ CloseDrained
    PROVE LeaseInv'
<1> USE NoneAssumption
<1>1. UNCHANGED <<saved, record, cap, op, call, up, history>> /\ closed' \in BOOLEAN
  BY DEF Close, CloseDrained, LeaseInv, TypeOK
<1>2. /\ route' \in Route /\ ~route'.accepting
      /\ \/ route'.lease = route.lease
         \/ route'.lease = None /\ \A c \in Calls : call[c].at # "pinned"
  <2>1. CASE Close
    BY <2>1 DEF Close, LeaseInv, TypeOK, Route
  <2>2. CASE CloseDrained
    BY <2>2 DEF CloseDrained, Forgotten, Pinned, LeaseInv, TypeOK, Route
  <2> QED BY <2>1, <2>2
<1>3. TypeOK'
  BY <1>1, <1>2 DEF LeaseInv, TypeOK, Route, history
<1>4. OpInv'
  BY <1>1, <1>2 DEF LeaseInv, OpInv, TypeOK, Ops
<1>5. RouteInv'
  BY <1>1, <1>2 DEF LeaseInv, RouteInv, RouteFollowsRecord
<1> QED BY <1>1, <1>2, <1>3, <1>4, <1>5, Frame DEF LeaseInv, AskedInv

-----------------------------------------------------------------------------
(***************************************************************************)
(* The invariant holds initially, with nothing on record.                  *)
(***************************************************************************)
LEMMA InitKeeps == Init => LeaseInv
<1> SUFFICES ASSUME Init PROVE LeaseInv
  OBVIOUS
<1>1. TypeOK
  BY DEF Init, TypeOK, Idle
<1>2. OpInv /\ Truthful(record) /\ Truthful(saved) /\ SavedInv /\ DownInv /\ AskedInv
  BY DEF Init, OpInv, Truthful, SavedInv, DownInv, AskedInv
<1>3. BilledInv
  BY DEF Init, BilledInv, Billed
<1>4. RouteInv
  BY DEF Init, RouteInv, RouteFollowsRecord, Idle
<1> QED BY <1>1, <1>2, <1>3, <1>4 DEF LeaseInv

(***************************************************************************)
(* Every step keeps it.                                                    *)
(***************************************************************************)
LEMMA NextKeeps == LeaseInv /\ [Next]_vars => LeaseInv'
<1> SUFFICES ASSUME LeaseInv, [Next]_vars PROVE LeaseInv'
  OBVIOUS
<1>1. CASE UNCHANGED vars
  BY <1>1 DEF vars, LeaseInv, TypeOK, OpInv, Truthful, SavedInv, BilledInv, RouteInv,
     RouteFollowsRecord, AskedInv, Past, DownInv
<1>2. ASSUME NEW r \in Requests, Acquire(r) \/ Status(r) \/ Release(r) \/ ProviderStep(r)
      PROVE LeaseInv'
  BY <1>2, EnterKeeps, ProviderStepKeeps
<1>3. ASSUME NEW c \in Calls, Select(c) \/ Touch(c) \/ Pin(c) \/ EndCall(c)
      PROVE LeaseInv'
  BY <1>3, CallStepsKeep
<1>4. CASE OperationStep
  BY <1>4, CallProviderKeeps, SaveKeeps, DrainedKeeps, RouteStepsKeep DEF OperationStep
<1>5. CASE SwapTimeout \/ DrainTimeout
  BY <1>5, RouteStepsKeep
<1>6. CASE Close \/ CloseDrained \/ Crash \/ Restart
  BY <1>6, CloseKeeps, CrashKeeps, RestartKeeps
<1> QED BY <1>1, <1>2, <1>3, <1>4, <1>5, <1>6 DEF Next

(***************************************************************************)
(* The inductive invariant of the coordinator, its route and its calls.    *)
(***************************************************************************)
THEOREM LeaseInvHolds == Spec => []LeaseInv
  BY InitKeeps, NextKeeps, PTL DEF Spec

(***************************************************************************)
(* Every state of the coordinator is well typed.                           *)
(***************************************************************************)
THEOREM TypeCorrect == Spec => []TypeOK
<1>1. LeaseInv => TypeOK
  BY DEF LeaseInv
<1> QED BY <1>1, LeaseInvHolds, PTL

(***************************************************************************)
(* The active route is always that of the record (_apply_route, activate   *)
(* and deactivate in remote_backend.py), for any number of requests.       *)
(***************************************************************************)
THEOREM RouteIsOnRecord == Spec => []RouteFollowsRecord
<1>1. LeaseInv => RouteFollowsRecord
  BY DEF LeaseInv, RouteInv
<1> QED BY <1>1, LeaseInvHolds, PTL

(***************************************************************************)
(* No call runs on capacity whose release was requested.                   *)
(***************************************************************************)
THEOREM ReleaseIsQuiet == Spec => []NoCallAfterRelease
<1>1. LeaseInv => NoCallAfterRelease
  BY DEF LeaseInv, NoCallAfterRelease, Pinned, RouteInv, AskedInv
<1> QED BY <1>1, LeaseInvHolds, PTL

(***************************************************************************)
(* Capacity is billed for one lease at a time, apart from leases acquired  *)
(* while their plan was not saved.                                         *)
(***************************************************************************)
THEOREM BilledOnce == Spec => []OneBilledLease
<1>1. LeaseInv => OneBilledLease
  BY DEF LeaseInv, BilledInv, OneBilledLease
<1> QED BY <1>1, LeaseInvHolds, PTL

(***************************************************************************)
(* A lease that was saved as ended is never saved as pending or ready.     *)
(***************************************************************************)
THEOREM EndedStaysEnded == Spec => NoRevival
<1>1. LeaseInv /\ [Next]_vars =>
        [saved # None /\ saved.state \in Ended /\ saved' # None /\ saved'.req = saved.req
            => saved'.state \notin Billed]_vars
  <2> SUFFICES ASSUME LeaseInv, [Next]_vars, saved # None, saved.state \in Ended, saved' # None,
                      saved'.req = saved.req
               PROVE saved'.state \notin Billed
    OBVIOUS
  <2>1. saved' = saved \/ saved' = record
    BY DEF Next, OperationStep, Acquire, Status, Release, ProviderStep, Select, Touch, Pin, EndCall,
       CallProvider, Save, KeepRoute, Activate, Swap, SwapTimeout, Deactivate, Drained,
       DrainTimeout, Close, CloseDrained, Crash, Restart, vars
  <2> QED BY <2>1 DEF LeaseInv, SavedInv, Billed, Ended, Terminal
<1> QED BY <1>1, LeaseInvHolds, PTL DEF Spec, NoRevival

-----------------------------------------------------------------------------
(* The route as a resource that drains.                                    *)

(***************************************************************************)
(* While the pinned calls stay, a route may be shut or kept, or another    *)
(* one is published or none is left when nobody uses it.                   *)
(***************************************************************************)
LEMMA RouteMoves ==
    ASSUME LeaseInv, PinsStay,
           \/ route'.lease = route.lease
           \/ /\ route'.accepting \/ route'.lease = None
              /\ \A c \in Calls : call[c].at # "pinned"
    PROVE Routes!Next
<1> USE NoneAssumption
<1> SUFFICES ASSUME NEW r \in Requests
             PROVE Routes!Open(r) \/ Routes!Leave(r) \/ Routes!Shut(r) \/ Routes!Abort(r)
  BY DEF Routes!Next
<1> DEFINE Users(run) == {c \in {d \in Calls : run[d].at = "pinned"} : run[c].req = r}
<1>1. Users(call') = Users(call)
  BY DEF PinsStay
<1>2. CASE route'.lease = r /\ route'.accepting
  BY <1>1, <1>2 DEF Routes!Open, Routes!Leave, Pinned
<1>3. CASE route'.lease = r /\ ~route'.accepting
  <2>1. route.lease = r
    BY <1>3
  <2> QED BY <1>1, <1>3, <2>1 DEF Routes!Shut, Routes!Leave, Pinned
<1>4. CASE route'.lease # r
  <2>1. CASE route.lease # r
    BY <1>1, <1>4, <2>1 DEF Routes!Leave, Pinned
  <2>2. CASE route.lease = r
    <3>1. Users(call) = {}
      BY <1>4, <2>2
    <3> QED BY <1>1, <1>4, <3>1 DEF Routes!Abort, Pinned
  <2> QED BY <2>1, <2>2
<1> QED BY <1>2, <1>3, <1>4

(***************************************************************************)
(* A call that does not pin or end keeps the pins of all.                  *)
(***************************************************************************)
LEMMA OtherCall ==
    ASSUME LeaseInv, NEW c \in Calls, NEW v \in Call, call[c].at # "pinned", v.at # "pinned",
           call' = [call EXCEPT ![c] = v]
    PROVE PinsStay
  BY DEF LeaseInv, TypeOK, PinsStay, Call

(***************************************************************************)
(* Select, Touch, Pin and EndCall as steps of Drain.                       *)
(***************************************************************************)
LEMMA CallsDrain ==
    ASSUME LeaseInv, NEW c \in Calls, Select(c) \/ Touch(c) \/ Pin(c) \/ EndCall(c)
    PROVE Routes!Next
<1>1. CASE UNCHANGED call /\ route'.lease = route.lease
  <2>1. PinsStay
    BY <1>1 DEF LeaseInv, TypeOK, PinsStay, Call
  <2> QED BY <1>1, <2>1, RouteMoves
<1>2. ASSUME NEW v \in Call, call[c].at # "pinned", v.at # "pinned",
             call' = [call EXCEPT ![c] = v], route'.lease = route.lease
      PROVE Routes!Next
  <2>1. PinsStay
    BY <1>2, OtherCall
  <2> QED BY <1>2, <2>1, RouteMoves
<1>3. Idle \in Call /\ Idle.at = "idle"
  BY DEF Idle, Call
<1>4. CASE Select(c)
  <2>1. CASE UNCHANGED call
    BY <1>1, <1>4, <2>1 DEF Select, LeaseInv, TypeOK
  <2>2. CASE call' = [call EXCEPT ![c] = [at |-> "selected", req |-> route.lease,
                                          epoch |-> route.epoch]] /\ UNCHANGED route
    <3>1. [at |-> "selected", req |-> route.lease, epoch |-> route.epoch] \in Call
      BY DEF LeaseInv, TypeOK, Call
    <3>2. call[c].at # "pinned"
      BY <1>4 DEF Select, Idle
    <3> QED BY <1>2, <2>2, <3>1, <3>2
  <2> QED BY <1>4, <2>1, <2>2 DEF Select
<1>5. CASE Touch(c)
  <2>1. call[c].at = "selected" /\ route' = route /\ call[c] \in Call
    BY <1>5 DEF Touch, LeaseInv, TypeOK, Call
  <2>2. /\ [call[c] EXCEPT !.at = "renewing"] \in Call
        /\ [call[c] EXCEPT !.at = "renewing"].at = "renewing"
    BY <2>1 DEF Call
  <2>3. \/ call' = [call EXCEPT ![c] = [call[c] EXCEPT !.at = "renewing"]]
        \/ call' = [call EXCEPT ![c] = Idle]
    BY <1>5 DEF Touch
  <2> QED BY <1>2, <1>3, <2>1, <2>2, <2>3
<1>6. CASE Pin(c)
  <2>1. call[c].at = "renewed" /\ call[c] \in Call
    BY <1>6 DEF Pin, LeaseInv, TypeOK, Call
  <2>2. CASE call' = [call EXCEPT ![c] = Idle]
    BY <1>2, <1>3, <1>6, <2>1, <2>2 DEF Pin, LeaseInv, TypeOK
  <2>3. CASE Unchanged(c) /\ call' = [call EXCEPT ![c].at = "pinned"] /\ UNCHANGED route
    <3>1. call'[c].at = "pinned" /\ call'[c].req = call[c].req /\ call[c].req = route.lease
      BY <2>1, <2>3 DEF Unchanged, LeaseInv, TypeOK, Call
    <3>2. \A d \in Calls \ {c} : call'[d] = call[d]
      BY <2>3 DEF LeaseInv, TypeOK
    <3> SUFFICES ASSUME NEW r \in Requests PROVE Routes!Enter(r, c) \/ Routes!Leave(r)
      BY DEF Routes!Next
    <3> DEFINE Users(run) == {k \in {d \in Calls : run[d].at = "pinned"} : run[k].req = r}
    <3>3. CASE r = route.lease
      <4>1. Users(call') = Users(call) \union {c}
        BY <3>1, <3>2, <3>3
      <4> QED BY <2>3, <3>3, <4>1 DEF Routes!Enter, Pinned, Unchanged
    <3>4. CASE r # route.lease
      <4>1. Users(call') = Users(call)
        BY <2>1, <3>1, <3>2, <3>4
      <4> QED BY <2>3, <4>1 DEF Routes!Leave, Pinned
    <3> QED BY <3>3, <3>4
  <2> QED BY <1>6, <2>2, <2>3 DEF Pin
<1>7. CASE EndCall(c)
  <2> SUFFICES ASSUME NEW r \in Requests PROVE Routes!Leave(r)
    BY DEF Routes!Next
  <2>1. call' = [call EXCEPT ![c] = Idle] /\ route' = route
    BY <1>7 DEF EndCall
  <2>2. {k \in {d \in Calls : call'[d].at = "pinned"} : call'[k].req = r}
        \subseteq {k \in {d \in Calls : call[d].at = "pinned"} : call[k].req = r}
    BY <1>3, <2>1 DEF LeaseInv, TypeOK
  <2> QED BY <2>1, <2>2 DEF Routes!Leave, Pinned
<1> QED BY <1>4, <1>5, <1>6, <1>7

(***************************************************************************)
(* The steps of an operation as steps of Drain.                            *)
(***************************************************************************)
LEMMA OperationsDrain ==
    ASSUME LeaseInv, OperationStep \/ SwapTimeout \/ DrainTimeout
    PROVE Routes!Next
<1> USE NoneAssumption
<1>1. op # None
  BY DEF OperationStep, CallProvider, Save, KeepRoute, Activate, Swap, Deactivate, Drained,
     SwapTimeout, DrainTimeout
<1>2. PinsStay
  <2>1. UNCHANGED call \/ \E ok \in BOOLEAN : Return(ok)
    BY DEF OperationStep, CallProvider, Apply, Save, KeepRoute, Finally, Activate, Swap, Deactivate,
       Drained, SwapTimeout, DrainTimeout, Fail
  <2> QED BY <1>1, <2>1, ReturnUnlocks DEF PinsStay, LeaseInv, TypeOK, Call
<1>3. \/ route'.lease = route.lease
      \/ /\ route'.accepting \/ route'.lease = None
         /\ \A c \in Calls : call[c].at # "pinned"
  <2>1. CASE CallProvider \/ Save \/ KeepRoute \/ DrainTimeout
    BY <2>1 DEF CallProvider, Save, KeepRoute, DrainTimeout
  <2>2. CASE Activate
    BY <2>2 DEF Activate, LeaseInv, TypeOK, RouteInv
  <2>3. CASE Swap
    BY <2>3 DEF Swap, Pinned, LeaseInv, TypeOK
  <2>4. CASE Deactivate \/ SwapTimeout
    BY <2>4 DEF Deactivate, StopAccepting, SwapTimeout, LeaseInv, TypeOK
  <2>5. CASE Drained
    BY <2>5 DEF Drained, Forgotten, Pinned
  <2> QED BY <2>1, <2>2, <2>3, <2>4, <2>5 DEF OperationStep
<1> QED BY <1>2, <1>3, RouteMoves

(***************************************************************************)
(* Every step is a step of Drain.                                          *)
(***************************************************************************)
LEMMA NextDrains == LeaseInv /\ Next => Routes!Next
<1> SUFFICES ASSUME LeaseInv, Next PROVE Routes!Next
  OBVIOUS
<1>1. CASE UNCHANGED call /\ route'.lease = route.lease
  <2>1. PinsStay
    BY <1>1 DEF LeaseInv, TypeOK, PinsStay, Call
  <2> QED BY <1>1, <2>1, RouteMoves
<1>2. ASSUME NEW r \in Requests, Acquire(r) \/ Status(r) \/ Release(r) \/ ProviderStep(r)
      PROVE Routes!Next
  BY <1>1, <1>2 DEF Acquire, Status, Release, StopAccepting, ProviderStep, LeaseInv, TypeOK
<1>3. ASSUME NEW c \in Calls, Select(c) \/ Touch(c) \/ Pin(c) \/ EndCall(c)
      PROVE Routes!Next
  BY <1>3, CallsDrain
<1>4. CASE OperationStep \/ SwapTimeout \/ DrainTimeout
  BY <1>4, OperationsDrain
<1>5. CASE Close \/ Restart
  BY <1>1, <1>5 DEF Close, Restart, LeaseInv, TypeOK
<1>6. CASE CloseDrained
  <2>1. PinsStay
    BY <1>6 DEF CloseDrained, LeaseInv, TypeOK, PinsStay, Call
  <2>2. route'.lease = None /\ \A c \in Calls : call[c].at # "pinned"
    BY <1>6 DEF CloseDrained, Forgotten, Pinned
  <2> QED BY <2>1, <2>2, RouteMoves
<1>7. CASE Crash
  <2> SUFFICES ASSUME NEW r \in Requests PROVE Routes!Abort(r)
    BY DEF Routes!Next
  <2>1. route'.lease # r
    BY <1>7, NoneAssumption DEF Crash
  <2>2. {k \in {d \in Calls : call'[d].at = "pinned"} : call'[k].req = r} = {}
    BY <1>7 DEF Crash, Idle
  <2> QED BY <2>1, <2>2 DEF Routes!Abort, Pinned
<1> QED BY <1>2, <1>3, <1>4, <1>5, <1>6, <1>7 DEF Next

(***************************************************************************)
(* The route implements Drain (_remote_route_attempt, activation, drains   *)
(* and close in remote_backend.py): calls enter it only while it accepts,  *)
(* and it is forgotten only after the last of them, for any number of      *)
(* calls and leases.                                                       *)
(***************************************************************************)
THEOREM RouteImplementsDrain == Spec => RouteDrains
<1>1. Init => Routes!Init
  <2> SUFFICES ASSUME Init PROVE Routes!Init
    OBVIOUS
  <2>1. \A r \in Requests : route.lease # r
    BY NoneAssumption DEF Init
  <2>2. \A r \in Requests : {k \in {d \in Calls : call[d].at = "pinned"} : call[k].req = r} = {}
    BY DEF Init, Idle
  <2> QED BY <2>1, <2>2 DEF Routes!Init, Pinned
<1>2. LeaseInv /\ [Next]_vars => [Routes!Next]_(Routes!vars)
  <2>1. UNCHANGED vars => UNCHANGED Routes!vars
    BY DEF vars, Routes!vars, Pinned
  <2> QED BY <2>1, NextDrains
<1> QED BY <1>1, <1>2, LeaseInvHolds, PTL DEF Spec, RouteDrains, Routes!Spec

=============================================================================
