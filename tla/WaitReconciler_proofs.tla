----------------------- MODULE WaitReconciler_proofs -----------------------
(***************************************************************************)
(* Proofs about WaitReconciler, for any number of drivers, executions,     *)
(* attempts, view switches and faults: no wake is repeated, and a parked   *)
(* consumer stays watched.                                                 *)
(*                                                                         *)
(* The provider's steps keep what is on record about the last execution    *)
(* (Proceeds); a driver's step concerns the driver that holds the lock     *)
(* (HolderKeeps, EndKeeps); turns, time and crashes concern the wake.      *)
(***************************************************************************)
EXTENDS WaitReconciler, TLAPS

\* The tokens of one execution differ only in view and class.
SameWork(a, b) == a.event = b.event /\ a.detail = b.detail /\ a.native = b.native

\* The provider numbers heads no faster than executions; a merge is the end.
ProviderInv ==
    /\ provider.head <= provider.exec + (IF provider.final THEN 1 ELSE 0)
    /\ provider.final => provider.over /\ provider.kind = "ci"

\* A CI token names its event, a talon token its native status.  The event of a
\* final token is the provider's last, and no other token's.
TokenOK(t) ==
    /\ t.event = 0 <=> provider.kind = "talon"
    /\ t.event = 0 <=> t.native # 0
    /\ t.event = 0 => t.detail = 0
    /\ t.event <= provider.head
    /\ Final(t) => provider.final /\ t.event = provider.head
    /\ provider.final /\ t.event = provider.head => Final(t)

TokensInv ==
    /\ row.signaled # None => TokenOK(row.signaled)
    /\ row.pending # None => TokenOK(row.pending)
    /\ row.target # None => TokenOK(row.target)
    /\ row.baseline # None => TokenOK(row.baseline)
    /\ \A d \in Drivers : tick[d].tok # None => TokenOK(tick[d].tok)

\* Ticks and registrations exclude each other.
LockInv == \A c, d \in Drivers : tick[c] # Idle /\ tick[d] # Idle => c = d

\* Execution e was polled; while it is the last one, t is a token of it.
Polled(e, t) ==
    /\ e \in Execs /\ e <= provider.exec
    /\ e = provider.exec => provider.over /\ SameWork(t, Token)

\* The attempt on record is for execution e.
Attempted(e) ==
    /\ row.pending # None /\ row.pending = row.target
    /\ e = provider.exec /\ row.pending.detail \in {0, e} => SameWork(row.pending, Token)

\* The wake is for the newest execution polled, until it is harvested.
WakeInv ==
    wake # None =>
        /\ wake.exec <= provider.exec
        /\ wake.exec = provider.exec => provider.over
        /\ Running => row.pending # None
        /\ row.pending # None => Attempted(wake.exec)

\* What a driver polled in this tick, and what it found on record.
DriverInv(d) ==
    /\ tick[d].at = "idle" => tick[d] = Idle
    /\ tick[d].at = "pop" => wake # None /\ ~Running /\ row.pending = None
    /\ tick[d].at \in {"decide", "enqueue"} =>
          /\ tick[d].tok # None /\ tick[d].tok.detail \in {0, tick[d].exec}
          /\ Polled(tick[d].exec, tick[d].tok)
          /\ \A e \in settled : e <= tick[d].exec
          /\ wake # None => wake.exec <= tick[d].exec
    /\ tick[d].at = "decide" /\ tick[d].exec \in settled /\ wake = None =>
          /\ row.signaled # None /\ row.target = row.signaled
          /\ SameWork(row.signaled, tick[d].tok)
    /\ tick[d].at = "enqueue" =>
          wake = None /\ tick[d].exec \notin settled /\ Attempted(tick[d].exec)
    /\ tick[d].at \in {"watched", "registered"} =>
          /\ row.watching
          /\ wake # None /\ row.pending # None => row.baseline = row.pending

TickInv == \A d \in Drivers : DriverInv(d)

\* The wake of the last execution has run: its token waits for the harvest, or
\* is locked.
SettledInv ==
    \A e \in settled :
        /\ e <= provider.exec
        /\ e = provider.exec =>
              /\ provider.over
              /\ \/ /\ wake # None /\ wake.exec = e /\ wake.state = "persisted"
                    /\ row.pending # None /\ SameWork(row.pending, Token)
                 \/ /\ row.signaled # None /\ SameWork(row.signaled, Token)
                    /\ row.target = row.signaled /\ row.pending = None

\* A wake was given up, and none has been dispatched since.
GivenUp == ~Running /\ \E e \in Execs : fate[e] = "dropped"

\* The watch is armed, and the harvest of a wake that was in flight keeps it so.
Armed ==
    /\ row.watching
    /\ row.signaled # None => ~Final(row.signaled)
    /\ wake # None /\ row.pending # None => row.baseline = row.pending /\ ~Final(row.pending)

ParkedInv == consumer = "parked" => GivenUp \/ Armed

WaitInv ==
    /\ TypeOK /\ ProviderInv /\ TokensInv /\ LockInv /\ WakeInv /\ TickInv
    /\ SettledInv /\ ParkedInv

-----------------------------------------------------------------------------
(* Facts about tokens.                                                     *)

\* What a poll reads now is a token like any other.
LEMMA TokenIsSound ==
    ASSUME TypeOK, ProviderInv
    PROVE /\ Token \in Tokens /\ Token # None /\ TokenOK(Token)
          /\ Token.detail \in {0, provider.exec}
<1>1. provider.kind \in {"ci", "talon"} /\ provider.exec \in 1..MaxExecs
      /\ provider.head \in 1..(MaxExecs + 1) /\ provider.view \in 1..2
      /\ provider.class \in 1..2 /\ provider.final \in BOOLEAN /\ MaxExecs \in Nat
  BY BoundsAssumption DEF TypeOK, Execs
<1>2. Token \in Tokens
  BY <1>1 DEF Token, Tokens
<1>3. TokenOK(Token) /\ Token.detail \in {0, provider.exec}
  BY <1>1 DEF Token, TokenOK, Final, ProviderInv
<1> QED BY <1>2, <1>3, NoneAssumption

\* Tokens of one execution name one event, whatever the view and the class.
LEMMA SameWorkNames ==
    ASSUME NEW a, NEW b, TokenOK(a), SameWork(a, b)
    PROVE NamesSameEvent(a, b)
BY DEF TokenOK, SameWork, NamesSameEvent

\* A token that names the event of an execution, and no other execution, is
\* one of its tokens.
LEMMA NamesSameWork ==
    ASSUME NEW a, NEW b, NEW e \in Execs, TokenOK(a), TokenOK(b), NamesSameEvent(a, b),
           a.detail \in {0, e}, b.detail \in {0, e}
    PROVE SameWork(a, b)
BY DEF TokenOK, SameWork, NamesSameEvent, Final, Execs

\* Only a final token names a final event.
LEMMA FinalNames ==
    ASSUME NEW a, NEW b, TokenOK(a), TokenOK(b), NamesSameEvent(a, b), Final(b)
    PROVE Final(a)
BY DEF TokenOK, NamesSameEvent, Final

\* Being tokens of one execution is an equivalence.
LEMMA SameWorkFacts ==
    /\ \A a : SameWork(a, a)
    /\ \A a, b : SameWork(a, b) => SameWork(b, a)
    /\ \A a, b, c : SameWork(a, b) /\ SameWork(b, c) => SameWork(a, c)
BY DEF SameWork

-----------------------------------------------------------------------------
(* The provider moves on.                                                  *)

\* The last execution, once over, keeps what its tokens say; a final one is
\* the last.
Proceeds ==
    /\ provider'.kind = provider.kind /\ provider'.exec >= provider.exec
    /\ \A t \in Tokens : TokenOK(t) => TokenOK(t)'
    /\ provider'.exec = provider.exec /\ provider.over =>
          provider'.over /\ SameWork(Token', Token)

\* A re-run, an end, a merge, another view or class: all proceed.
LEMMA ProviderSteps ==
    ASSUME WaitInv, NewExecution \/ Finish \/ Shift
    PROVE TypeOK' /\ ProviderInv' /\ Proceeds
<1>0. /\ provider.kind \in {"ci", "talon"} /\ provider.exec \in 1..MaxExecs
      /\ provider.head \in 1..(MaxExecs + 1) /\ provider.view \in 1..2
      /\ provider.class \in 1..2 /\ provider.final \in BOOLEAN /\ provider.over \in BOOLEAN
      /\ MaxExecs \in Nat
  BY BoundsAssumption DEF WaitInv, TypeOK, Execs
<1>1. CASE NewExecution
  <2>1. PICK over \in BOOLEAN, step \in {0, 1} :
          provider' = [provider EXCEPT !.exec = @ + 1, !.over = over, !.head = @ + step]
    BY <1>1 DEF NewExecution
  <2>2. provider.exec < MaxExecs /\ ~provider.final /\ UNCHANGED <<row, wake, tick, latched, consumer, history, shifts, faults>>
    BY <1>1 DEF NewExecution
  <2>3. /\ provider'.exec = provider.exec + 1 /\ provider'.over = over
        /\ provider'.head = provider.head + step /\ provider'.kind = provider.kind
        /\ provider'.final = FALSE
    BY <1>0, <2>1, <2>2 DEF WaitInv, TypeOK
  <2>4. provider.head <= provider.exec
    BY <1>0, <2>2 DEF WaitInv, ProviderInv
  <2>5. provider' \in [kind : Kinds, exec : Execs, over : BOOLEAN, final : BOOLEAN,
                     head : 1..(MaxExecs + 1), view : 1..2, class : 1..2]
    <3>1. provider.exec + 1 \in Execs /\ provider.head + step \in 1..(MaxExecs + 1)
      BY <1>0, <2>2, <2>4 DEF Execs
    <3> QED BY <2>1, <3>1 DEF WaitInv, TypeOK
  <2>6. TypeOK'
    BY <2>2, <2>5 DEF WaitInv, TypeOK, history, Told
  <2>7. ProviderInv'
    BY <1>0, <2>3, <2>4 DEF ProviderInv
  <2>8. ASSUME NEW t \in Tokens, TokenOK(t) PROVE TokenOK(t)'
    BY <1>0, <2>2, <2>3, <2>8 DEF TokenOK, Final, Tokens
  <2> QED BY <1>0, <2>3, <2>6, <2>7, <2>8 DEF Proceeds
<1>2. CASE Finish
  <2>1. ~provider.over /\ ~provider.final /\ UNCHANGED <<row, wake, tick, latched, consumer, history, shifts, faults>>
    BY <1>2 DEF Finish, WaitInv, ProviderInv
  <2>2. provider.head <= provider.exec
    BY <1>0, <2>1 DEF WaitInv, ProviderInv
  <2>3. CASE provider' = [provider EXCEPT !.over = TRUE]
    <3>1. TypeOK'
      BY <2>1, <2>3 DEF WaitInv, TypeOK, history
    <3>2. /\ provider'.exec = provider.exec /\ provider'.head = provider.head
          /\ provider'.kind = provider.kind /\ provider'.final = provider.final
      BY <2>3 DEF WaitInv, TypeOK
    <3>3. ProviderInv'
      BY <1>0, <2>1, <2>2, <3>2 DEF ProviderInv
    <3>4. ASSUME NEW t \in Tokens, TokenOK(t) PROVE TokenOK(t)'
      BY <3>2, <3>4 DEF TokenOK, Final
    <3> QED BY <1>0, <2>1, <3>1, <3>2, <3>3, <3>4 DEF Proceeds
  <2>4. CASE /\ provider.kind = "ci"
             /\ provider' = [provider EXCEPT !.over = TRUE, !.final = TRUE, !.head = @ + 1]
    <3>1. provider' \in [kind : Kinds, exec : Execs, over : BOOLEAN, final : BOOLEAN,
                     head : 1..(MaxExecs + 1), view : 1..2, class : 1..2]
      <4>1. provider.head + 1 \in 1..(MaxExecs + 1)
        BY <1>0, <2>2
      <4> QED BY <2>4, <4>1 DEF WaitInv, TypeOK
    <3>2. TypeOK'
      BY <2>1, <3>1 DEF WaitInv, TypeOK, history
    <3>3. /\ provider'.exec = provider.exec /\ provider'.head = provider.head + 1
          /\ provider'.kind = "ci" /\ provider'.final /\ provider'.over
      BY <2>4 DEF WaitInv, TypeOK
    <3>4. ProviderInv'
      BY <1>0, <2>2, <3>3 DEF ProviderInv
    <3>5. ASSUME NEW t \in Tokens, TokenOK(t) PROVE TokenOK(t)'
      BY <1>0, <2>1, <2>4, <3>3, <3>5 DEF TokenOK, Final, Tokens
    <3> QED BY <1>0, <2>1, <2>4, <3>2, <3>3, <3>4, <3>5 DEF Proceeds
  <2> QED BY <1>2, <2>3, <2>4 DEF Finish
<1>3. CASE Shift
  <2>1. /\ shifts < MaxShifts /\ shifts' = shifts + 1
        /\ UNCHANGED <<row, wake, tick, latched, consumer, history, faults>>
        /\ \/ provider' = [provider EXCEPT !.view = 3 - @]
           \/ provider' = [provider EXCEPT !.class = 3 - @]
    BY <1>3 DEF Shift
  <2>2. provider' \in [kind : Kinds, exec : Execs, over : BOOLEAN, final : BOOLEAN,
                     head : 1..(MaxExecs + 1), view : 1..2, class : 1..2]
    BY <1>0, <2>1 DEF WaitInv, TypeOK
  <2>3. shifts' \in 0..MaxShifts
    BY <2>1, BoundsAssumption DEF WaitInv, TypeOK
  <2>4. TypeOK'
    BY <2>1, <2>2, <2>3 DEF WaitInv, TypeOK, history
  <2>5. /\ provider'.exec = provider.exec /\ provider'.head = provider.head
        /\ provider'.kind = provider.kind /\ provider'.final = provider.final
        /\ provider'.over = provider.over
    BY <2>1 DEF WaitInv, TypeOK
  <2>6. ProviderInv'
    BY <1>0, <2>5 DEF WaitInv, ProviderInv
  <2>7. ASSUME NEW t \in Tokens, TokenOK(t) PROVE TokenOK(t)'
    BY <2>5, <2>7 DEF TokenOK, Final
  <2>8. SameWork(Token', Token)
    BY <2>5 DEF SameWork, Token
  <2> QED BY <1>0, <2>4, <2>5, <2>6, <2>7, <2>8 DEF Proceeds
<1> QED BY <1>1, <1>2, <1>3

\* What is on record about an execution outlives the provider's progress.
LEMMA ProviderKeeps ==
    ASSUME WaitInv, NewExecution \/ Finish \/ Shift
    PROVE WaitInv'
<1>1. TypeOK' /\ ProviderInv' /\ Proceeds
  BY ProviderSteps
<1>2. UNCHANGED <<row, wake, tick, latched, consumer, fate, settled, armed>>
  BY DEF NewExecution, Finish, Shift, history
<1>3. provider.exec \in Nat /\ provider'.exec \in Nat
  BY <1>1 DEF WaitInv, TypeOK, Execs
<1>4. TokensInv'
  <2>1. \A t \in Tokens : TokenOK(t) => TokenOK(t)'
    BY <1>1 DEF Proceeds
  <2>2. /\ row.signaled # None => row.signaled \in Tokens
        /\ row.pending # None => row.pending \in Tokens
        /\ row.target # None => row.target \in Tokens
        /\ row.baseline # None => row.baseline \in Tokens
        /\ \A d \in Drivers : tick[d].tok # None => tick[d].tok \in Tokens
    BY DEF WaitInv, TypeOK
  <2>3. /\ row'.signaled # None => TokenOK(row.signaled)'
        /\ row'.pending # None => TokenOK(row.pending)'
    BY <1>2, <2>1, <2>2 DEF WaitInv, TokensInv, TokenOK, Final
  <2>4. /\ row'.target # None => TokenOK(row.target)'
        /\ row'.baseline # None => TokenOK(row.baseline)'
    BY <1>2, <2>1, <2>2 DEF WaitInv, TokensInv, TokenOK, Final
  <2>5. \A d \in Drivers : tick'[d].tok # None => TokenOK(tick[d].tok)'
    BY <1>2, <2>1, <2>2 DEF WaitInv, TokensInv, TokenOK, Final
  <2> QED BY <2>3, <2>4, <2>5 DEF TokensInv
<1>5. ASSUME NEW t, SameWork(t, Token), provider.over, provider'.exec = provider.exec
      PROVE SameWork(t, Token')
  BY <1>1, <1>5 DEF Proceeds, SameWork
<1>6. LockInv'
  BY <1>2 DEF WaitInv, LockInv
<1>7. ASSUME NEW e, e <= provider.exec, e \in Nat
      PROVE e <= provider'.exec /\ (e = provider'.exec => e = provider.exec)
  BY <1>1, <1>3, <1>7 DEF Proceeds
<1>8. provider'.exec = provider.exec /\ provider.over => provider'.over
  BY <1>1 DEF Proceeds
<1>9. WakeInv'
  <2> SUFFICES ASSUME wake # None PROVE WakeInv'
    BY <1>2 DEF WakeInv
  <2>1. wake.exec \in Nat
    BY DEF WaitInv, TypeOK, Wakes, Execs
  <2>2. /\ wake.exec <= provider.exec
        /\ wake.exec = provider.exec => provider.over
        /\ Running => row.pending # None
        /\ row.pending # None => Attempted(wake.exec)
    BY DEF WaitInv, WakeInv
  <2>3. wake.exec <= provider'.exec /\ (wake.exec = provider'.exec => provider'.over)
    BY <1>7, <1>8, <2>1, <2>2
  <2>4. row.pending # None /\ wake.exec = provider'.exec /\ row.pending.detail \in {0, wake.exec} =>
           SameWork(row.pending, Token')
    BY <1>5, <1>7, <2>1, <2>2 DEF Attempted
  <2> QED BY <1>2, <2>2, <2>3, <2>4 DEF WakeInv, Attempted, Running
<1>10. TickInv'
  <2> SUFFICES ASSUME NEW d \in Drivers PROVE DriverInv(d)'
    BY DEF TickInv
  <2> DEFINE e == tick[d].exec
  <2>1. DriverInv(d) /\ e \in Nat
    BY DEF WaitInv, TickInv, TypeOK, Execs
  <2>2. tick[d].at \in {"decide", "enqueue"} => Polled(e, tick[d].tok)'
    BY <1>2, <1>5, <1>7, <1>8, <2>1 DEF DriverInv, Polled
  <2>3. tick[d].at = "enqueue" => Attempted(e)'
    BY <1>2, <1>5, <1>7, <1>8, <2>1 DEF DriverInv, Attempted, Polled
  <2> QED BY <1>2, <2>1, <2>2, <2>3 DEF DriverInv, Running
<1>11. SettledInv'
  <2> SUFFICES ASSUME NEW e \in settled
               PROVE /\ e <= provider'.exec
                     /\ e = provider'.exec =>
                          /\ provider'.over
                          /\ \/ /\ wake # None /\ wake.exec = e /\ wake.state = "persisted"
                                /\ row.pending # None /\ SameWork(row.pending, Token')
                             \/ /\ row.signaled # None /\ SameWork(row.signaled, Token')
                                /\ row.target = row.signaled /\ row.pending = None
    BY <1>2 DEF SettledInv
  <2>1. e \in Nat
    BY DEF WaitInv, TypeOK, Execs
  <2> QED BY <1>5, <1>7, <1>8, <2>1 DEF WaitInv, SettledInv
<1>12. ParkedInv'
  BY <1>2 DEF WaitInv, ParkedInv, GivenUp, Armed, Running, Final
<1> QED BY <1>1, <1>4, <1>6, <1>9, <1>10, <1>11, <1>12 DEF WaitInv

-----------------------------------------------------------------------------
(* The driver that holds the lock takes a step.                            *)

TickType == [at : {"idle", "harvest", "pop", "poll", "decide", "enqueue", "watched", "registered"},
             tok : Tokens \union {None}, exec : Execs \union {0}]

RowTokens ==
    /\ row.signaled # None => TokenOK(row.signaled)
    /\ row.pending # None => TokenOK(row.pending)
    /\ row.target # None => TokenOK(row.target)
    /\ row.baseline # None => TokenOK(row.baseline)

\* Driver d holds the lock or takes it; the others and the provider wait.
Holds(d) ==
    /\ tick[d].at # "idle" \/ Unlocked
    /\ \A c \in Drivers \ {d} : tick'[c] = tick[c]
    /\ UNCHANGED <<provider, shifts>>

\* Nobody else is affected.
LEMMA HolderKeeps ==
    ASSUME WaitInv, NEW d \in Drivers, Holds(d), TypeOK', RowTokens',
           tick'[d].tok # None => TokenOK(tick'[d].tok),
           DriverInv(d)', WakeInv', SettledInv', ParkedInv'
    PROVE WaitInv'
<1>1. \A c \in Drivers \ {d} : tick[c] = Idle
  BY DEF WaitInv, TickInv, DriverInv, LockInv, Holds, Unlocked, Idle
<1>2. \A c \in Drivers \ {d} : tick'[c] = Idle
  BY <1>1 DEF Holds
<1>3. LockInv'
  BY <1>2 DEF LockInv
<1>4. \A c \in Drivers \ {d} : DriverInv(c)'
  BY <1>2 DEF DriverInv, Idle
<1>5. TickInv'
  BY <1>4 DEF TickInv
<1>6. ProviderInv'
  BY DEF WaitInv, ProviderInv, Holds
<1>7. \A c \in Drivers : tick'[c].tok # None => TokenOK(tick[c].tok)'
  <2> SUFFICES ASSUME NEW c \in Drivers, tick'[c].tok # None PROVE TokenOK(tick[c].tok)'
    OBVIOUS
  <2>1. c = d
    BY <1>2 DEF Idle
  <2> QED BY <2>1 DEF TokenOK, Final, Holds
<1>8. TokensInv'
  BY <1>7 DEF TokensInv, RowTokens
<1> QED BY <1>3, <1>5, <1>6, <1>8 DEF WaitInv

\* The ledger, the wake and the consumer stay as they are.
LEMMA FrameKeeps ==
    ASSUME WaitInv, UNCHANGED <<provider, row, wake, consumer, fate, settled>>
    PROVE RowTokens' /\ WakeInv' /\ SettledInv' /\ ParkedInv'
<1>1. Token' = Token
  BY DEF Token
<1>2. RowTokens'
  BY DEF WaitInv, TokensInv, RowTokens, TokenOK, Final
<1>3. WakeInv'
  BY <1>1 DEF WaitInv, WakeInv, Attempted, Running
<1>4. SettledInv'
  BY <1>1 DEF WaitInv, SettledInv
<1>5. ParkedInv'
  BY DEF WaitInv, ParkedInv, GivenUp, Armed, Running, Final
<1> QED BY <1>2, <1>3, <1>4, <1>5

\* The driver goes to another step of its tick, or ends it.
LEMMA MoveTypes ==
    ASSUME TypeOK, NEW d \in Drivers, NEW step \in {"harvest", "pop", "poll", "enqueue", "watched", "registered"},
           To(d, step) \/ Over(d)
    PROVE /\ tick' \in [Drivers -> TickType]
          /\ tick'[d] = Idle \/ tick'[d] = [tick[d] EXCEPT !.at = step]
          /\ Over(d) => tick'[d] = Idle
          /\ To(d, step) => tick'[d].at = step /\ tick'[d].tok = tick[d].tok /\ tick'[d].exec = tick[d].exec
          /\ \A c \in Drivers \ {d} : tick'[c] = tick[c]
<1>1. tick \in [Drivers -> TickType]
  BY DEF TypeOK, TickType
<1>2. CASE To(d, step)
  <2>1. tick' = [tick EXCEPT ![d] = [tick[d] EXCEPT !.at = step]]
    BY <1>2 DEF To
  <2>2. [tick[d] EXCEPT !.at = step] \in TickType
    BY <1>1 DEF TickType
  <2>3. tick'[d] = [tick[d] EXCEPT !.at = step]
    BY <1>1, <2>1
  <2>4. tick' \in [Drivers -> TickType] /\ \A c \in Drivers \ {d} : tick'[c] = tick[c]
    BY <1>1, <2>1, <2>2
  <2>5. tick'[d].at = step /\ tick'[d].tok = tick[d].tok /\ tick'[d].exec = tick[d].exec
    BY <1>1, <2>3 DEF TickType
  <2>6. step # "idle"
    OBVIOUS
  <2>7. Over(d) => tick'[d] = Idle
    BY <1>1 DEF Over
  <2> QED BY <2>3, <2>4, <2>5, <2>7
<1>3. CASE Over(d)
  <2>1. tick' = [tick EXCEPT ![d] = Idle] /\ Idle \in TickType
    BY <1>3 DEF Over, Idle, TickType
  <2>2. tick' \in [Drivers -> TickType] /\ tick'[d] = Idle /\ \A c \in Drivers \ {d} : tick'[c] = tick[c]
    BY <1>1, <2>1
  <2>3. To(d, step) => tick'[d].at = step /\ tick'[d].tok = tick[d].tok /\ tick'[d].exec = tick[d].exec
    <3>1. ASSUME To(d, step) PROVE tick' = [tick EXCEPT ![d] = [tick[d] EXCEPT !.at = step]]
      BY <3>1 DEF To
    <3>2. To(d, step) => tick'[d] = [tick[d] EXCEPT !.at = step]
      BY <1>1, <3>1
    <3> QED BY <1>1, <3>2 DEF TickType
  <2> QED BY <2>2, <2>3
<1> QED BY <1>2, <1>3

\* Nothing is asked of a driver that is not in a tick.
LEMMA IdleIsSound ==
    ASSUME NEW d \in Drivers, tick'[d] = Idle
    PROVE DriverInv(d)' /\ tick'[d].tok = None
BY DEF DriverInv, Idle

\* A tick starts, finds nothing to harvest, or pops the wake it harvested.
LEMMA StartTickKeeps ==
    ASSUME WaitInv, NEW d \in Drivers, StartTick(d)
    PROVE WaitInv'
<1>1. Unlocked /\ To(d, "harvest") /\ UNCHANGED <<provider, row, wake, latched, consumer, history, shifts, faults>>
  BY DEF StartTick
<1>2. tick[d] = Idle
  BY <1>1 DEF Unlocked
<1>3. /\ tick' \in [Drivers -> TickType] /\ tick'[d].at = "harvest" /\ tick'[d].tok = None
      /\ \A c \in Drivers \ {d} : tick'[c] = tick[c]
  <2>1. tick'[d].tok = tick[d].tok /\ tick[d].tok = None
    <3>1. tick[d].tok = None
      BY <1>2 DEF Idle
    <3> QED BY <1>1, <3>1, MoveTypes DEF WaitInv
  <2> QED BY <1>1, <2>1, MoveTypes DEF WaitInv
<1>4. TypeOK'
  BY <1>1, <1>3 DEF WaitInv, TypeOK, TickType, history
<1>5. DriverInv(d)'
  BY <1>3 DEF DriverInv
<1>6. Holds(d)
  BY <1>1, <1>3 DEF Holds
<1>7. RowTokens' /\ WakeInv' /\ SettledInv' /\ ParkedInv'
  BY <1>1, FrameKeeps DEF history
<1> QED BY <1>3, <1>4, <1>5, <1>6, <1>7, HolderKeeps

\* A row whose task is gone owes its wake again.
LEMMA NothingToHarvestKeeps ==
    ASSUME WaitInv, NEW d \in Drivers, NothingToHarvest(d)
    PROVE WaitInv'
<1>1. /\ tick[d].at = "harvest" /\ (wake = None \/ Running) /\ To(d, "poll")
      /\ row' = IF wake = None THEN [row EXCEPT !.pending = None] ELSE row
      /\ UNCHANGED <<provider, wake, latched, consumer, fate, settled, armed, shifts, faults>>
  BY DEF NothingToHarvest, history
<1>2. /\ tick' \in [Drivers -> TickType] /\ tick'[d].at = "poll" /\ tick'[d].tok = tick[d].tok
      /\ \A c \in Drivers \ {d} : tick'[c] = tick[c]
  BY <1>1, MoveTypes DEF WaitInv
<1>3. /\ row' \in [signaled : Tokens \union {None}, pending : Tokens \union {None},
                target : Tokens \union {None}, attempts : 0..MaxAttempts,
                deferred : BOOLEAN, watching : BOOLEAN, baseline : Tokens \union {None}]
      /\ row'.signaled = row.signaled /\ row'.target = row.target
      /\ row'.watching = row.watching /\ row'.baseline = row.baseline
      /\ row'.pending = IF wake = None THEN None ELSE row.pending
  BY <1>1 DEF WaitInv, TypeOK
<1>4. TypeOK'
  BY <1>1, <1>2, <1>3 DEF WaitInv, TypeOK, TickType
<1>5. DriverInv(d)'
  BY <1>2 DEF DriverInv
<1>6. Holds(d)
  BY <1>1, <1>2 DEF Holds
<1>7. RowTokens'
  BY <1>1, <1>3 DEF WaitInv, TokensInv, RowTokens, TokenOK, Final
<1>8. Token' = Token /\ (tick'[d].tok # None => TokenOK(tick'[d].tok))
  BY <1>1, <1>2 DEF Token, WaitInv, TokensInv
<1>9. WakeInv'
  BY <1>1, <1>3, <1>8 DEF WaitInv, WakeInv, Attempted, Running
<1>10. SettledInv'
  BY <1>1, <1>3, <1>8 DEF WaitInv, SettledInv
<1>11. ParkedInv'
  BY <1>1, <1>3 DEF WaitInv, ParkedInv, GivenUp, Armed, Running, Final
<1> QED BY <1>4, <1>5, <1>6, <1>7, <1>8, <1>9, <1>10, <1>11, HolderKeeps

\* A harvested wake has left the ledger.
LEMMA PopKeeps ==
    ASSUME WaitInv, NEW d \in Drivers, Pop(d)
    PROVE WaitInv'
<1>1. /\ tick[d].at = "pop" /\ wake' = None /\ To(d, "poll")
      /\ UNCHANGED <<provider, row, latched, consumer, fate, settled, armed, shifts, faults>>
  BY DEF Pop, history
<1>2. /\ tick' \in [Drivers -> TickType] /\ tick'[d].at = "poll" /\ tick'[d].tok = tick[d].tok
      /\ \A c \in Drivers \ {d} : tick'[c] = tick[c]
  BY <1>1, MoveTypes DEF WaitInv
<1>3. wake # None /\ ~Running /\ row.pending = None
  BY <1>1 DEF WaitInv, TickInv, DriverInv
<1>4. TypeOK'
  BY <1>1, <1>2 DEF WaitInv, TypeOK, TickType
<1>5. DriverInv(d)'
  BY <1>2 DEF DriverInv
<1>6. Holds(d)
  BY <1>1, <1>2 DEF Holds
<1>7. RowTokens'
  BY <1>1 DEF WaitInv, TokensInv, RowTokens, TokenOK, Final
<1>8. Token' = Token /\ (tick'[d].tok # None => TokenOK(tick'[d].tok))
  BY <1>1, <1>2 DEF Token, WaitInv, TokensInv
<1>9. WakeInv'
  BY <1>1 DEF WakeInv
<1>10. SettledInv'
  BY <1>1, <1>3, <1>8 DEF WaitInv, SettledInv
<1>11. ParkedInv'
  BY <1>1, <1>3 DEF WaitInv, ParkedInv, GivenUp, Armed, Running, Final
<1> QED BY <1>4, <1>5, <1>6, <1>7, <1>8, <1>9, <1>10, <1>11, HolderKeeps

RowType == [signaled : Tokens \union {None}, pending : Tokens \union {None},
            target : Tokens \union {None}, attempts : 0..MaxAttempts,
            deferred : BOOLEAN, watching : BOOLEAN, baseline : Tokens \union {None}]

\* The wake's result is taken over: its token is locked, or owed again.
LEMMA HarvestKeeps ==
    ASSUME WaitInv, NEW d \in Drivers, Harvest(d)
    PROVE WaitInv'
<1> DEFINE locks == row.pending # None /\ wake.state \in {"persisted", "hard"}
<1>1. /\ tick[d].at = "harvest" /\ wake # None /\ ~Running /\ To(d, "pop")
      /\ UNCHANGED <<provider, wake, latched, consumer, settled, shifts, faults>>
  BY DEF Harvest
<1>2. wake.exec \in Execs /\ row \in RowType /\ armed \in 0..MaxExecs
  BY <1>1 DEF WaitInv, TypeOK, Wakes, RowType
<1>3. /\ tick' \in [Drivers -> TickType] /\ tick'[d].at = "pop" /\ tick'[d].tok = tick[d].tok
      /\ \A c \in Drivers \ {d} : tick'[c] = tick[c]
  BY <1>1, MoveTypes DEF WaitInv
<1>4. /\ row' \in RowType /\ row'.pending = None /\ row'.target = row.target /\ row'.baseline = row.baseline
      /\ locks => /\ row'.signaled = row.pending
                  /\ row'.watching = (row.watching /\ row.baseline = row.pending)
      /\ ~locks => row'.signaled = row.signaled /\ row'.watching = row.watching
  <2> DEFINE clear == [row EXCEPT !.pending = None]
  <2>1. row' = IF row.pending = None THEN clear
               ELSE IF wake.state \in {"persisted", "hard"} THEN Locked(clear, row.pending)
               ELSE IF wake.state = "deferred"
                    THEN [clear EXCEPT !.attempts = IF @ > 0 THEN @ - 1 ELSE @, !.deferred = TRUE]
               ELSE clear
    BY DEF Harvest
  <2>2. /\ clear \in RowType /\ clear.pending = None /\ clear.target = row.target
        /\ clear.baseline = row.baseline /\ clear.signaled = row.signaled
        /\ clear.watching = row.watching /\ clear.attempts = row.attempts
    BY <1>2 DEF RowType
  <2> HIDE DEF clear
  <2>3. CASE locks
    <3>1. row' = [clear EXCEPT !.signaled = row.pending, !.watching = row.watching /\ row.baseline = row.pending]
      BY <2>1, <2>2, <2>3 DEF Locked, RowType
    <3>2. row.pending \in Tokens /\ (row.watching /\ row.baseline = row.pending) \in BOOLEAN
      BY <1>2, <2>3 DEF RowType
    <3> QED BY <2>2, <2>3, <3>1, <3>2 DEF RowType
  <2>4. CASE ~locks /\ (row.pending = None \/ wake.state # "deferred")
    BY <2>1, <2>2, <2>4
  <2>5. CASE row.pending # None /\ wake.state = "deferred"
    <3>1. PICK n \in 0..MaxAttempts : row' = [clear EXCEPT !.attempts = n, !.deferred = TRUE]
      <4>1. row.attempts \in 0..MaxAttempts /\ MaxAttempts \in Nat
        BY <1>2, BoundsAssumption DEF RowType
      <4>2. (IF row.attempts > 0 THEN row.attempts - 1 ELSE row.attempts) \in 0..MaxAttempts
        BY <4>1
      <4>3. row' = [clear EXCEPT !.attempts = IF row.attempts > 0 THEN row.attempts - 1 ELSE row.attempts, !.deferred = TRUE]
        BY <2>1, <2>2, <2>5 DEF RowType
      <4> QED BY <4>2, <4>3
    <3> QED BY <2>2, <2>5, <3>1 DEF RowType
  <2> QED BY <2>3, <2>4, <2>5
<1>5. /\ fate' \in [Execs -> {"none", "told", "dropped", "absorbed"}] /\ armed' \in 0..MaxExecs
      /\ \A e \in Execs : fate[e] = "dropped" => fate'[e] = "dropped"
  BY <1>2, BoundsAssumption DEF Harvest, WaitInv, TypeOK, Fired, Off
<1>6. TypeOK'
  BY <1>1, <1>3, <1>4, <1>5 DEF WaitInv, TypeOK, TickType, RowType
<1>7. DriverInv(d)'
  BY <1>1, <1>3, <1>4 DEF DriverInv, Running
<1>8. Holds(d)
  BY <1>1, <1>3 DEF Holds
<1>9. Token' = Token /\ (tick'[d].tok # None => TokenOK(tick'[d].tok))
  BY <1>1, <1>3 DEF Token, WaitInv, TokensInv
<1>10. RowTokens'
  BY <1>1, <1>4 DEF WaitInv, TokensInv, RowTokens, TokenOK, Final
<1>11. WakeInv'
  BY <1>1, <1>4 DEF WaitInv, WakeInv, Running
<1>12. SettledInv'
  <2> SUFFICES ASSUME NEW e \in settled, e = provider.exec
               PROVE /\ row'.signaled # None /\ SameWork(row'.signaled, Token)
                     /\ row'.target = row'.signaled /\ row'.pending = None
    BY <1>1, <1>9 DEF WaitInv, SettledInv
  <2>1. CASE row.pending = None
    BY <1>4, <2>1 DEF WaitInv, SettledInv
  <2>2. CASE row.pending # None
    <3>1. wake.state = "persisted" /\ SameWork(row.pending, Token)
      BY <2>2 DEF WaitInv, SettledInv
    <3>2. row.pending = row.target
      BY <1>1, <2>2 DEF WaitInv, WakeInv, Attempted
    <3> QED BY <1>4, <2>2, <3>1, <3>2
  <2> QED BY <2>1, <2>2
<1>13. ParkedInv'
  <2> SUFFICES ASSUME consumer = "parked" PROVE GivenUp' \/ Armed'
    BY <1>1 DEF ParkedInv
  <2>1. CASE GivenUp
    BY <1>1, <1>5, <2>1 DEF GivenUp, Running
  <2>2. CASE Armed
    BY <1>1, <1>4, <2>2 DEF Armed, Final
  <2> QED BY <2>1, <2>2 DEF WaitInv, ParkedInv
<1> QED BY <1>6, <1>7, <1>8, <1>9, <1>10, <1>11, <1>12, <1>13, HolderKeeps

\* The poll reads a token of the last execution, if it is over.
LEMMA PollKeeps ==
    ASSUME WaitInv, NEW d \in Drivers, Poll(d)
    PROVE WaitInv'
<1>1. /\ tick[d].at = "poll"
      /\ UNCHANGED <<provider, row, wake, latched, consumer, fate, settled, armed, shifts, faults>>
  BY DEF Poll, history
<1>2. RowTokens' /\ WakeInv' /\ SettledInv' /\ ParkedInv'
  BY <1>1, FrameKeeps
<1>3. CASE Over(d)
  <2>1. /\ tick' \in [Drivers -> TickType] /\ tick'[d] = Idle
        /\ \A c \in Drivers \ {d} : tick'[c] = tick[c]
    BY <1>3, MoveTypes DEF WaitInv
  <2>2. TypeOK'
    BY <1>1, <2>1 DEF WaitInv, TypeOK, TickType
  <2>3. Holds(d)
    BY <1>1, <2>1 DEF Holds
  <2> QED BY <1>2, <2>1, <2>2, <2>3, IdleIsSound, HolderKeeps
<1>4. CASE /\ provider.over
           /\ tick' = [tick EXCEPT ![d] = [at |-> "decide", tok |-> Token, exec |-> provider.exec]]
  <2>1. Token \in Tokens /\ Token # None /\ TokenOK(Token) /\ Token.detail \in {0, provider.exec}
    BY TokenIsSound DEF WaitInv
  <2>2. provider.exec \in Execs /\ provider.exec \in Nat
    BY DEF WaitInv, TypeOK, Execs
  <2>3. [at |-> "decide", tok |-> Token, exec |-> provider.exec] \in TickType
    BY <2>1, <2>2 DEF TickType
  <2>4. /\ tick' \in [Drivers -> TickType]
        /\ tick'[d] = [at |-> "decide", tok |-> Token, exec |-> provider.exec]
        /\ \A c \in Drivers \ {d} : tick'[c] = tick[c]
    BY <1>4, <2>3 DEF WaitInv, TypeOK, TickType
  <2>5. tick'[d].at = "decide" /\ tick'[d].tok = Token /\ tick'[d].exec = provider.exec
    BY <2>4
  <2>6. TypeOK'
    BY <1>1, <2>4 DEF WaitInv, TypeOK, TickType
  <2>7. Holds(d)
    BY <1>1, <2>4 DEF Holds
  <2>8. Token' = Token
    BY <1>1 DEF Token
  <2>9. Polled(tick[d].exec, tick[d].tok)'
    BY <1>1, <1>4, <2>2, <2>5, <2>8 DEF Polled, SameWork
  <2>10. /\ \A e \in settled : e <= provider.exec
         /\ wake # None => wake.exec <= provider.exec
    BY DEF WaitInv, SettledInv, WakeInv
  <2>11. provider.exec \in settled /\ wake = None =>
            /\ row.signaled # None /\ row.target = row.signaled
            /\ SameWork(row.signaled, Token)
    BY DEF WaitInv, SettledInv
  <2>12. DriverInv(d)'
    BY <1>1, <2>1, <2>5, <2>9, <2>10, <2>11 DEF DriverInv
  <2> QED BY <1>2, <2>1, <2>5, <2>6, <2>7, <2>12, HolderKeeps
<1> QED BY <1>3, <1>4 DEF Poll

\* The tick ends: what is left of it is the change to the ledger.
LEMMA EndKeeps ==
    ASSUME WaitInv, NEW d \in Drivers, tick[d].at # "idle", Over(d), row' \in RowType,
           UNCHANGED <<provider, settled, shifts>>, consumer' \in {"none", "stored", "parked", "served"},
           wake' \in Wakes \union {None}, latched' \in BOOLEAN,
           fate' \in [Execs -> {"none", "told", "dropped", "absorbed"}],
           armed' \in 0..MaxExecs, faults' \in 0..MaxFaults,
           RowTokens', WakeInv', SettledInv', ParkedInv'
    PROVE WaitInv'
<1>1. /\ tick' \in [Drivers -> TickType] /\ tick'[d] = Idle
      /\ \A c \in Drivers \ {d} : tick'[c] = tick[c]
  BY MoveTypes DEF WaitInv
<1>2. TypeOK'
  BY <1>1 DEF WaitInv, TypeOK, TickType, RowType
<1>3. Holds(d)
  BY <1>1 DEF Holds
<1> QED BY <1>1, <1>2, <1>3, IdleIsSound, HolderKeeps

\* The event was told or is in flight.  Only a final token retires the watch.
LEMMA SkipKeeps ==
    ASSUME WaitInv, NEW d \in Drivers, Skip(d)
    PROVE WaitInv'
<1>1. /\ tick[d].at = "decide" /\ Over(d)
      /\ UNCHANGED <<provider, wake, latched, consumer, fate, settled, armed, shifts, faults>>
      /\ \/ row.signaled = tick[d].tok /\ row' = Retired(row, tick[d].tok)
         \/ row' = row
  BY DEF Skip, history
<1>2. row \in RowType /\ Token' = Token
  BY <1>1 DEF WaitInv, TypeOK, RowType, Token
<1>3. CASE row' = row
  <2>1. RowTokens' /\ WakeInv' /\ SettledInv' /\ ParkedInv'
    BY <1>1, <1>3, FrameKeeps
  <2> QED BY <1>1, <1>2, <1>3, <2>1, EndKeeps DEF WaitInv, TypeOK
<1>4. CASE row.signaled = tick[d].tok /\ row' = Retired(row, tick[d].tok)
  <2>1. /\ row' \in RowType /\ row'.pending = row.pending /\ row'.target = row.target
        /\ row'.baseline = row.baseline /\ row'.signaled = row.signaled
        /\ row'.watching = (row.watching /\ ~Final(row.signaled))
    BY <1>2, <1>4 DEF Retired, RowType
  <2>2. row.signaled # None
    BY <1>1, <1>4 DEF WaitInv, TickInv, DriverInv
  <2>3. RowTokens'
    BY <1>1, <2>1 DEF WaitInv, TokensInv, RowTokens, TokenOK, Final
  <2>4. WakeInv'
    BY <1>1, <1>2, <2>1 DEF WaitInv, WakeInv, Attempted, Running
  <2>5. SettledInv'
    BY <1>1, <1>2, <2>1 DEF WaitInv, SettledInv
  <2>6. ParkedInv'
    BY <1>1, <2>1, <2>2 DEF WaitInv, ParkedInv, GivenUp, Armed, Running, Final
  <2> QED BY <1>1, <2>1, <2>3, <2>4, <2>5, <2>6, EndKeeps DEF WaitInv, TypeOK
<1> QED BY <1>1, <1>3, <1>4

\* In a tick that has polled, a settled last execution is the one polled.
LEMMA PolledIsLast ==
    ASSUME WaitInv, NEW d \in Drivers, tick[d].at \in {"decide", "enqueue"}, provider.exec \in settled
    PROVE tick[d].exec = provider.exec
<1>1. /\ Polled(tick[d].exec, tick[d].tok) /\ provider.exec <= tick[d].exec
      /\ provider.exec \in Nat
  BY DEF WaitInv, TickInv, DriverInv, TypeOK, Execs
<1> QED BY <1>1 DEF Polled, Execs

\* The event delivered is polled again under another token.
LEMMA RekeyKeeps ==
    ASSUME WaitInv, NEW d \in Drivers, Rekey(d)
    PROVE WaitInv'
<1> DEFINE tok == tick[d].tok
           moved(t) == IF t = row.signaled THEN tok ELSE t
<1>1. /\ tick[d].at = "decide" /\ wake = None /\ Over(d)
      /\ UNCHANGED <<provider, wake, latched, consumer, settled, armed, shifts, faults>>
      /\ row.signaled # None /\ NamesSameEvent(row.signaled, tok)
      /\ row' = Retired([row EXCEPT !.signaled = tok, !.baseline = moved(@), !.target = moved(@)], tok)
      /\ fate' = IF fate[tick[d].exec] = "none" /\ tok.view # row.signaled.view
                 THEN [fate EXCEPT ![tick[d].exec] = "absorbed"] ELSE fate
  BY DEF Rekey, Rekeys
<1>2. /\ row \in RowType /\ Token' = Token /\ tok \in Tokens /\ tok # None /\ TokenOK(tok)
      /\ tick[d].exec \in Execs /\ Polled(tick[d].exec, tok)
      /\ fate \in [Execs -> {"none", "told", "dropped", "absorbed"}]
  BY <1>1 DEF WaitInv, TypeOK, RowType, Token, TickInv, DriverInv, TokensInv, Polled
<1>3. /\ row' \in RowType /\ row'.pending = row.pending /\ row'.target = moved(row.target)
      /\ row'.baseline = moved(row.baseline) /\ row'.signaled = tok
      /\ row'.watching = (row.watching /\ ~Final(tok))
  <2>1. row' = [row EXCEPT !.signaled = tok, !.baseline = moved(row.baseline),
                           !.target = moved(row.target), !.watching = row.watching /\ ~Final(tok)]
    BY <1>1, <1>2 DEF Retired, RowType
  <2>2. moved(row.baseline) \in Tokens \union {None} /\ moved(row.target) \in Tokens \union {None}
    BY <1>2 DEF RowType
  <2> HIDE DEF moved
  <2> QED BY <1>2, <2>1, <2>2 DEF RowType
<1>4. /\ fate' \in [Execs -> {"none", "told", "dropped", "absorbed"}]
      /\ \A e \in Execs : fate[e] = "dropped" => fate'[e] = "dropped"
  BY <1>1, <1>2
<1>5. RowTokens'
  <2>1. /\ row.pending # None => TokenOK(row.pending)
        /\ row.target # None => TokenOK(row.target)
        /\ row.baseline # None => TokenOK(row.baseline)
    BY DEF WaitInv, TokensInv
  <2>2. /\ row'.signaled # None => TokenOK(row'.signaled)
        /\ row'.pending # None => TokenOK(row'.pending)
        /\ row'.target # None => TokenOK(row'.target)
        /\ row'.baseline # None => TokenOK(row'.baseline)
    BY <1>2, <1>3, <2>1
  <2> QED BY <1>1, <2>2 DEF RowTokens, TokenOK, Final
<1>6. WakeInv'
  BY <1>1 DEF WakeInv
<1>7. SettledInv'
  <2> SUFFICES ASSUME provider.exec \in settled
               PROVE /\ row'.signaled # None /\ SameWork(row'.signaled, Token)
                     /\ row'.target = row'.signaled /\ row'.pending = None
    BY <1>1, <1>2 DEF WaitInv, SettledInv
  <2>1. row.target = row.signaled /\ row.pending = None
    BY <1>1 DEF WaitInv, SettledInv
  <2>2. SameWork(tok, Token)
    BY <1>1, <1>2, PolledIsLast DEF Polled
  <2> QED BY <1>2, <1>3, <2>1, <2>2
<1>8. ParkedInv'
  <2> SUFFICES ASSUME consumer = "parked" PROVE GivenUp' \/ Armed'
    BY <1>1 DEF ParkedInv
  <2>1. CASE GivenUp
    BY <1>1, <1>4, <2>1 DEF GivenUp, Running
  <2>2. CASE Armed
    <3>1. ~Final(tok)
      <4>1. TokenOK(row.signaled) /\ ~Final(row.signaled)
        BY <1>1, <2>2 DEF WaitInv, TokensInv, Armed
      <4> QED BY <1>1, <1>2, <4>1, FinalNames
    <3> QED BY <1>1, <1>3, <2>2, <3>1 DEF Armed, Final
  <2> QED BY <2>1, <2>2 DEF WaitInv, ParkedInv
<1> QED BY <1>1, <1>3, <1>4, <1>5, <1>6, <1>7, <1>8, EndKeeps DEF WaitInv, TypeOK

\* What is due has not been told.
LEMMA DueIsNews ==
    ASSUME WaitInv, NEW d \in Drivers, Due(d)
    PROVE /\ tick[d].exec \notin settled /\ provider.exec \notin settled
          /\ tick[d].at = "decide" /\ wake = None
          /\ tick[d].tok \in Tokens /\ tick[d].tok # None /\ TokenOK(tick[d].tok)
          /\ tick[d].exec \in Execs /\ Polled(tick[d].exec, tick[d].tok)
<1>1. /\ tick[d].at = "decide" /\ wake = None
      /\ ~Rekeys(tick[d].tok)
  BY DEF Due
<1>2. /\ tick[d].tok \in Tokens /\ tick[d].tok # None /\ TokenOK(tick[d].tok)
      /\ tick[d].exec \in Execs /\ Polled(tick[d].exec, tick[d].tok)
  BY <1>1 DEF WaitInv, TypeOK, TickInv, DriverInv, TokensInv, Polled
<1>3. tick[d].exec \notin settled
  <2> SUFFICES ASSUME tick[d].exec \in settled PROVE FALSE
    OBVIOUS
  <2>1. /\ row.signaled # None /\ row.target = row.signaled
        /\ SameWork(row.signaled, tick[d].tok)
    BY <1>1 DEF WaitInv, TickInv, DriverInv
  <2>2. NamesSameEvent(row.signaled, tick[d].tok)
    BY <2>1, SameWorkNames DEF WaitInv, TokensInv
  <2> QED BY <1>1, <2>1, <2>2 DEF Rekeys, Owed
<1>4. provider.exec \notin settled
  BY <1>1, <1>3, PolledIsLast
<1> QED BY <1>1, <1>2, <1>3, <1>4

\* The last attempt is spent: the wake is given up.
LEMMA LockAtMaxAttemptsKeeps ==
    ASSUME WaitInv, NEW d \in Drivers, LockAtMaxAttempts(d)
    PROVE WaitInv'
<1>1. /\ Due(d) /\ Spent(tick[d].tok) >= MaxAttempts /\ Over(d)
      /\ row' = Locked(row, row.target)
      /\ fate' = [fate EXCEPT ![tick[d].exec] = "dropped"]
      /\ armed' = Fired(tick[d].exec)
      /\ UNCHANGED <<provider, wake, latched, consumer, settled, shifts, faults>>
  BY DEF LockAtMaxAttempts
<1>2. /\ provider.exec \notin settled /\ tick[d].at = "decide" /\ wake = None
      /\ tick[d].exec \in Execs
  BY <1>1, DueIsNews
<1>3. row.target # None
  BY <1>1, BoundsAssumption DEF Spent, SameTransition
<1>4. /\ row \in RowType /\ Token' = Token
      /\ fate \in [Execs -> {"none", "told", "dropped", "absorbed"}]
      /\ armed \in 0..MaxExecs /\ MaxExecs \in Nat
  BY <1>1, BoundsAssumption DEF WaitInv, TypeOK, RowType, Token
<1>5. /\ row' \in RowType /\ row'.pending = row.pending /\ row'.target = row.target
      /\ row'.baseline = row.baseline /\ row'.signaled = row.target
  BY <1>1, <1>4 DEF Locked, RowType
<1>6. /\ fate' \in [Execs -> {"none", "told", "dropped", "absorbed"}]
      /\ fate'[tick[d].exec] = "dropped" /\ armed' \in 0..MaxExecs
  BY <1>1, <1>2, <1>4 DEF Fired, Off
<1>7. RowTokens'
  BY <1>1, <1>3, <1>5 DEF WaitInv, TokensInv, RowTokens, TokenOK, Final
<1>8. WakeInv'
  BY <1>1, <1>2 DEF WakeInv
<1>9. SettledInv'
  BY <1>1, <1>2 DEF WaitInv, SettledInv
<1>10. ParkedInv'
  BY <1>1, <1>2, <1>6 DEF ParkedInv, GivenUp, Running
<1> QED BY <1>1, <1>2, <1>5, <1>6, <1>7, <1>8, <1>9, <1>10, EndKeeps DEF WaitInv, TypeOK

\* An attempt is recorded, under the token of the first attempt.
LEMMA RecordPendingKeeps ==
    ASSUME WaitInv, NEW d \in Drivers, RecordPending(d)
    PROVE WaitInv'
<1> DEFINE tok == tick[d].tok
           kept == IF SameTransition(tok) THEN row.target ELSE tok
<1>1. /\ Due(d) /\ Spent(tok) < MaxAttempts /\ To(d, "enqueue")
      /\ row' = [row EXCEPT !.pending = kept, !.target = kept, !.attempts = Spent(tok) + 1,
                            !.deferred = FALSE]
      /\ UNCHANGED <<provider, wake, latched, consumer, fate, settled, armed, shifts, faults>>
  BY DEF RecordPending, history
<1>2. /\ tick[d].exec \notin settled /\ provider.exec \notin settled
      /\ tick[d].at = "decide" /\ wake = None
      /\ tok \in Tokens /\ tok # None /\ TokenOK(tok)
      /\ tick[d].exec \in Execs /\ Polled(tick[d].exec, tok)
  BY <1>1, DueIsNews
<1>3. tok.detail \in {0, tick[d].exec} /\ \A e \in settled : e <= tick[d].exec
  BY <1>2 DEF WaitInv, TickInv, DriverInv
<1>4. row \in RowType /\ Token' = Token
  BY <1>1 DEF WaitInv, TypeOK, RowType, Token
<1>5. kept \in Tokens /\ kept # None /\ TokenOK(kept)
  BY <1>2, <1>4 DEF SameTransition, RowType, WaitInv, TokensInv
<1>6. kept.detail \in {0, tick[d].exec} => SameWork(kept, tok)
  <2>1. CASE SameTransition(tok)
    <3>1. TokenOK(row.target) /\ NamesSameEvent(row.target, tok)
      BY <2>1 DEF SameTransition, WaitInv, TokensInv
    <3> QED BY <1>2, <1>3, <2>1, <3>1, NamesSameWork
  <2>2. CASE ~SameTransition(tok)
    BY <2>2, SameWorkFacts
  <2> QED BY <2>1, <2>2
<1> HIDE DEF kept
<1>7. /\ row' \in RowType /\ row'.pending = kept /\ row'.target = kept
      /\ row'.baseline = row.baseline /\ row'.signaled = row.signaled /\ row'.watching = row.watching
  <2>1. Spent(tok) + 1 \in 0..MaxAttempts
    BY <1>1, <1>4, BoundsAssumption DEF Spent, RowType
  <2> QED BY <1>1, <1>4, <1>5, <2>1 DEF RowType
<1>8. /\ tick' \in [Drivers -> TickType] /\ tick'[d].at = "enqueue"
      /\ tick'[d].tok = tok /\ tick'[d].exec = tick[d].exec
      /\ \A c \in Drivers \ {d} : tick'[c] = tick[c]
  BY <1>1, MoveTypes DEF WaitInv
<1>9. TypeOK'
  BY <1>1, <1>7, <1>8 DEF WaitInv, TypeOK, TickType, RowType
<1>10. Holds(d)
  BY <1>1, <1>2, <1>8 DEF Holds
<1>11. RowTokens'
  <2>1. /\ row'.signaled # None => TokenOK(row'.signaled)
        /\ row'.pending # None => TokenOK(row'.pending)
        /\ row'.target # None => TokenOK(row'.target)
        /\ row'.baseline # None => TokenOK(row'.baseline)
    BY <1>5, <1>7 DEF WaitInv, TokensInv
  <2> QED BY <1>1, <2>1 DEF RowTokens, TokenOK, Final
<1>12. Polled(tick[d].exec, tick[d].tok)'
  BY <1>1, <1>2, <1>4, <1>8 DEF Polled
<1>13. Attempted(tick[d].exec)'
  <2>1. tick[d].exec = provider.exec /\ kept.detail \in {0, tick[d].exec} => SameWork(kept, Token)
    BY <1>2, <1>6, SameWorkFacts DEF Polled
  <2> QED BY <1>1, <1>4, <1>5, <1>7, <1>8, <2>1 DEF Attempted
<1>14. DriverInv(d)'
  BY <1>1, <1>2, <1>3, <1>8, <1>12, <1>13 DEF DriverInv
<1>15. WakeInv'
  BY <1>1, <1>2 DEF WakeInv
<1>16. SettledInv'
  BY <1>1, <1>2 DEF WaitInv, SettledInv
<1>17. ParkedInv'
  BY <1>1, <1>2, <1>7 DEF WaitInv, ParkedInv, GivenUp, Armed, Running, Final
<1> QED BY <1>2, <1>8, <1>9, <1>10, <1>11, <1>14, <1>15, <1>16, <1>17, HolderKeeps

\* The wake is dispatched, and serves the consumer, or the dispatch raises.
LEMMA EnqueueKeeps ==
    ASSUME WaitInv, NEW d \in Drivers, Enqueue(d)
    PROVE WaitInv'
<1>1. /\ tick[d].at = "enqueue" /\ Over(d)
      /\ UNCHANGED <<provider, latched, fate, settled, armed, shifts, faults>>
      /\ \/ /\ wake' = [exec |-> tick[d].exec, state |-> "running"]
            /\ consumer' = IF consumer = "none" THEN "none" ELSE "served"
            /\ row' = row
         \/ row' = [row EXCEPT !.pending = None] /\ UNCHANGED <<wake, consumer>>
  BY DEF Enqueue, history
<1>2. /\ wake = None /\ tick[d].exec \notin settled /\ Attempted(tick[d].exec)
      /\ Polled(tick[d].exec, tick[d].tok) /\ tick[d].exec \in Execs
  BY <1>1 DEF WaitInv, TickInv, DriverInv, Polled
<1>3. provider.exec \notin settled
  BY <1>1, <1>2, PolledIsLast
<1>4. SettledInv'
  BY <1>1, <1>3 DEF WaitInv, SettledInv
<1>5. row \in RowType /\ Token' = Token
  BY <1>1 DEF WaitInv, TypeOK, RowType, Token
<1>6. CASE /\ wake' = [exec |-> tick[d].exec, state |-> "running"]
           /\ consumer' = IF consumer = "none" THEN "none" ELSE "served"
           /\ row' = row
  <2>1. /\ wake' \in Wakes /\ wake'.exec = tick[d].exec
        /\ consumer' \in {"none", "served"}
    BY <1>2, <1>6 DEF Wakes
  <2>2. RowTokens'
    BY <1>1, <1>6 DEF WaitInv, TokensInv, RowTokens, TokenOK, Final
  <2>3. WakeInv'
    BY <1>1, <1>2, <1>5, <1>6, <2>1 DEF WakeInv, Attempted, Polled, Running
  <2>4. ParkedInv'
    BY <2>1 DEF ParkedInv
  <2> QED BY <1>1, <1>4, <1>5, <1>6, <2>1, <2>2, <2>3, <2>4, EndKeeps DEF WaitInv, TypeOK
<1>7. CASE row' = [row EXCEPT !.pending = None] /\ UNCHANGED <<wake, consumer>>
  <2>1. /\ row' \in RowType /\ row'.pending = None /\ row'.target = row.target
        /\ row'.baseline = row.baseline /\ row'.signaled = row.signaled /\ row'.watching = row.watching
    BY <1>5, <1>7 DEF RowType
  <2>2. RowTokens'
    BY <1>1, <2>1 DEF WaitInv, TokensInv, RowTokens, TokenOK, Final
  <2>3. WakeInv'
    BY <1>2, <1>7 DEF WakeInv
  <2>4. ParkedInv'
    BY <1>1, <1>2, <1>7, <2>1 DEF WaitInv, ParkedInv, GivenUp, Armed, Running, Final
  <2> QED BY <1>1, <1>4, <1>7, <2>1, <2>2, <2>3, <2>4, EndKeeps DEF WaitInv, TypeOK
<1> QED BY <1>1, <1>6, <1>7

-----------------------------------------------------------------------------
(* Registrations.                                                          *)

\* The watch is armed over the wake in flight, if there is one.
LEMMA StartWatchFacts ==
    ASSUME WaitInv, StartWatch
    PROVE /\ row' \in RowType /\ row'.watching
          /\ row'.pending = row.pending /\ row'.target = row.target /\ row'.signaled = row.signaled
          /\ row'.baseline = IF row.pending # None THEN row.pending ELSE row.signaled
          /\ armed' \in 0..MaxExecs
<1>1. row \in RowType /\ (wake # None => wake.exec \in Execs)
  BY DEF WaitInv, TypeOK, RowType, Wakes
<1>2. armed' \in Execs \union {0}
  BY <1>1 DEF StartWatch, Told
<1>3. armed' \in 0..MaxExecs
  BY <1>2, BoundsAssumption DEF Execs
<1>4. (IF row.pending # None THEN row.pending ELSE row.signaled) \in Tokens \union {None}
  BY <1>1 DEF RowType
<1> QED BY <1>1, <1>3, <1>4 DEF StartWatch, RowType

\* A watch is armed anew: what a parked consumer relies on is not disturbed.
LEMMA WatchKeeps ==
    ASSUME WaitInv, StartWatch, UNCHANGED <<provider, wake, consumer, fate, settled>>
    PROVE RowTokens' /\ WakeInv' /\ SettledInv' /\ ParkedInv'
<1>1. /\ row'.watching
      /\ row'.pending = row.pending /\ row'.target = row.target /\ row'.signaled = row.signaled
      /\ row'.baseline = IF row.pending # None THEN row.pending ELSE row.signaled
  BY StartWatchFacts
<1>2. Token' = Token
  BY DEF Token
<1>3. RowTokens'
  BY <1>1 DEF WaitInv, TokensInv, RowTokens, TokenOK, Final
<1>4. WakeInv'
  BY <1>1, <1>2 DEF WaitInv, WakeInv, Attempted, Running
<1>5. SettledInv'
  BY <1>1, <1>2 DEF WaitInv, SettledInv
<1>6. ParkedInv'
  BY <1>1 DEF WaitInv, ParkedInv, GivenUp, Armed, Running, Final
<1> QED BY <1>3, <1>4, <1>5, <1>6

\* A registration without a consumer.
LEMMA RegisterWatchKeeps ==
    ASSUME WaitInv, RegisterWatch
    PROVE WaitInv'
<1>1. /\ Unlocked /\ StartWatch
      /\ UNCHANGED <<provider, wake, tick, latched, consumer, fate, settled, shifts, faults>>
  BY DEF RegisterWatch
<1>2. RowTokens' /\ WakeInv' /\ SettledInv' /\ ParkedInv'
  BY <1>1, WatchKeeps
<1>3. TypeOK'
  BY <1>1, StartWatchFacts DEF WaitInv, TypeOK, RowType
<1>4. \A d \in Drivers : tick'[d] = Idle
  BY <1>1 DEF Unlocked
<1>5. TickInv' /\ LockInv'
  BY <1>4, IdleIsSound DEF TickInv, LockInv
<1>6. TokensInv'
  BY <1>2, <1>4 DEF TokensInv, RowTokens, Idle
<1>7. ProviderInv'
  BY <1>1 DEF WaitInv, ProviderInv
<1> QED BY <1>2, <1>3, <1>5, <1>6, <1>7 DEF WaitInv

\* The watch of a resume consumer is armed first,
LEMMA ArmForResumeKeeps ==
    ASSUME WaitInv, NEW d \in Drivers, ArmForResume(d)
    PROVE WaitInv'
<1>1. /\ Unlocked /\ StartWatch /\ To(d, "watched")
      /\ UNCHANGED <<provider, wake, latched, consumer, fate, settled, shifts, faults>>
  BY DEF ArmForResume
<1>2. RowTokens' /\ WakeInv' /\ SettledInv' /\ ParkedInv'
  BY <1>1, WatchKeeps
<1>3. tick[d] = Idle
  BY <1>1 DEF Unlocked
<1>4. tick[d].tok = None
  BY <1>3 DEF Idle
<1>5. /\ tick' \in [Drivers -> TickType] /\ tick'[d].at = "watched" /\ tick'[d].tok = None
      /\ \A c \in Drivers \ {d} : tick'[c] = tick[c]
  BY <1>1, <1>4, MoveTypes DEF WaitInv
<1>6. TypeOK'
  BY <1>1, <1>5, StartWatchFacts DEF WaitInv, TypeOK, RowType, TickType
<1>7. DriverInv(d)'
  BY <1>1, <1>5, StartWatchFacts DEF DriverInv
<1>8. Holds(d)
  BY <1>1, <1>5 DEF Holds
<1> QED BY <1>2, <1>5, <1>6, <1>7, <1>8, HolderKeeps

\* then its consumer is stored, under the same lock.
LEMMA RegisterConsumerKeeps ==
    ASSUME WaitInv, NEW d \in Drivers, RegisterConsumer(d)
    PROVE WaitInv'
<1>1. /\ tick[d].at = "watched" /\ consumer' = "stored" /\ To(d, "registered")
      /\ UNCHANGED <<provider, row, wake, latched, fate, settled, armed, shifts, faults>>
  BY DEF RegisterConsumer, history
<1>2. /\ tick' \in [Drivers -> TickType] /\ tick'[d].at = "registered" /\ tick'[d].tok = tick[d].tok
      /\ \A c \in Drivers \ {d} : tick'[c] = tick[c]
  BY <1>1, MoveTypes DEF WaitInv
<1>3. TypeOK'
  BY <1>1, <1>2 DEF WaitInv, TypeOK, TickType
<1>4. DriverInv(d)'
  BY <1>1, <1>2 DEF WaitInv, TickInv, DriverInv
<1>5. Holds(d)
  BY <1>1, <1>2 DEF Holds
<1>6. Token' = Token /\ (tick'[d].tok # None => TokenOK(tick'[d].tok))
  BY <1>1, <1>2 DEF Token, WaitInv, TokensInv
<1>7. RowTokens'
  BY <1>1 DEF WaitInv, TokensInv, RowTokens, TokenOK, Final
<1>8. WakeInv' /\ SettledInv'
  BY <1>1, <1>6 DEF WaitInv, WakeInv, Attempted, Running, SettledInv
<1>9. ParkedInv'
  BY <1>1 DEF ParkedInv
<1> QED BY <1>3, <1>4, <1>5, <1>6, <1>7, <1>8, <1>9, HolderKeeps

\* The caller parks only while the last execution runs: no token is final.
LEMMA ReturnResumeKeeps ==
    ASSUME WaitInv, NEW d \in Drivers, ReturnResume(d)
    PROVE WaitInv'
<1>1. /\ tick[d].at = "registered" /\ Over(d)
      /\ consumer' = IF provider.over THEN "served" ELSE "parked"
      /\ UNCHANGED <<provider, row, wake, latched, fate, settled, armed, shifts, faults>>
  BY DEF ReturnResume, history
<1>2. Token' = Token /\ row' \in RowType
  BY <1>1 DEF Token, WaitInv, TypeOK, RowType
<1>3. RowTokens'
  BY <1>1 DEF WaitInv, TokensInv, RowTokens, TokenOK, Final
<1>4. WakeInv' /\ SettledInv'
  BY <1>1, <1>2 DEF WaitInv, WakeInv, Attempted, Running, SettledInv
<1>5. ParkedInv'
  <2> SUFFICES ASSUME ~provider.over PROVE Armed'
    BY <1>1 DEF ParkedInv
  <2>1. ~provider.final
    BY DEF WaitInv, ProviderInv
  <2>2. /\ row.signaled # None => ~Final(row.signaled)
        /\ row.pending # None => ~Final(row.pending)
    BY <2>1 DEF WaitInv, TokensInv, TokenOK
  <2>3. row.watching /\ (wake # None /\ row.pending # None => row.baseline = row.pending)
    BY <1>1 DEF WaitInv, TickInv, DriverInv
  <2> QED BY <1>1, <2>2, <2>3 DEF Armed, Final
<1> QED BY <1>1, <1>2, <1>3, <1>4, <1>5, EndKeeps DEF WaitInv, TypeOK

-----------------------------------------------------------------------------
(* Turns, time and faults.                                                 *)

\* A tick that is cut leaves the ledger as its last call left it.
LEMMA InterruptKeeps ==
    ASSUME WaitInv, NEW d \in Drivers, Interrupt(d)
    PROVE WaitInv'
<1>1. /\ tick[d].at # "idle" /\ Fault /\ latched' \in BOOLEAN /\ Over(d)
      /\ UNCHANGED <<provider, row, wake, consumer, fate, settled, armed, shifts>>
  BY DEF Interrupt, history
<1>2. RowTokens' /\ WakeInv' /\ SettledInv' /\ ParkedInv'
  BY <1>1, FrameKeeps
<1>3. faults' \in 0..MaxFaults
  BY <1>1, BoundsAssumption DEF Fault, WaitInv, TypeOK
<1> QED BY <1>1, <1>2, <1>3, EndKeeps DEF WaitInv, TypeOK, RowType

\* A turn ends beside the ticks: its token is still on record as pending.
LEMMA TurnEndsKeeps ==
    ASSUME WaitInv, NEW result \in Result, TurnEnds(result)
    PROVE WaitInv'
<1>1. /\ wake # None /\ wake.state = "running" /\ wake' = [wake EXCEPT !.state = result]
      /\ UNCHANGED <<provider, row, tick, latched, consumer, shifts>>
  BY DEF TurnEnds, Running
<1>2. wake \in Wakes /\ wake.exec \in Execs /\ armed \in 0..MaxExecs /\ MaxExecs \in Nat
      /\ settled \subseteq Execs /\ fate \in [Execs -> {"none", "told", "dropped", "absorbed"}]
  BY <1>1, BoundsAssumption DEF WaitInv, TypeOK, Wakes
<1>3. /\ wake' \in Wakes /\ wake'.exec = wake.exec /\ wake'.state = result
      /\ wake' # None /\ ~Running'
  BY <1>1, <1>2, NoneAssumption DEF Wakes, Running, Result
<1>4. /\ settled' = settled
         \/ /\ result = "persisted" /\ settled' = settled \union {wake.exec}
            /\ row.pending # None /\ row.pending.detail \in {0, wake.exec}
      /\ fate' \in [Execs -> {"none", "told", "dropped", "absorbed"}]
      /\ armed' \in 0..MaxExecs
  BY <1>2 DEF TurnEnds, history, Fired, Off
<1>5. faults' \in 0..MaxFaults
  BY BoundsAssumption DEF TurnEnds, Fault, WaitInv, TypeOK
<1>6. TypeOK'
  BY <1>1, <1>2, <1>3, <1>4, <1>5 DEF WaitInv, TypeOK
<1>7. Token' = Token /\ ProviderInv' /\ LockInv'
  BY <1>1 DEF Token, WaitInv, ProviderInv, LockInv
<1>8. TokensInv'
  BY <1>1 DEF WaitInv, TokensInv, TokenOK, Final
<1>9. /\ wake.exec <= provider.exec /\ (wake.exec = provider.exec => provider.over)
      /\ row.pending # None /\ Attempted(wake.exec)
  BY <1>1 DEF WaitInv, WakeInv, Running
<1>10. WakeInv'
  BY <1>1, <1>3, <1>7, <1>9 DEF WakeInv, Attempted
<1>11. TickInv'
  <2> SUFFICES ASSUME NEW d \in Drivers PROVE DriverInv(d)'
    BY DEF TickInv
  <2>1. DriverInv(d) /\ tick[d].at # "pop" /\ tick[d].at # "enqueue"
    BY <1>1 DEF WaitInv, TickInv, DriverInv, Running
  <2>2. tick[d].at = "decide" => Polled(tick[d].exec, tick[d].tok)'
    BY <1>1, <1>7, <2>1 DEF DriverInv, Polled
  <2>3. tick[d].at = "decide" => \A e \in settled' : e <= tick[d].exec
    BY <1>1, <1>4, <2>1 DEF DriverInv
  <2> QED BY <1>1, <1>3, <2>1, <2>2, <2>3 DEF DriverInv
<1>12. SettledInv'
  <2>1. provider.exec \notin settled
    BY <1>1, <1>9 DEF WaitInv, SettledInv
  <2>2. \A e \in settled' : e <= provider.exec
    BY <1>4, <1>9 DEF WaitInv, SettledInv
  <2>3. ASSUME NEW e \in settled', e = provider.exec
        PROVE /\ provider.over /\ wake' # None /\ wake'.exec = e /\ wake'.state = "persisted"
              /\ row.pending # None /\ SameWork(row.pending, Token)
    BY <1>3, <1>4, <1>9, <2>1, <2>3 DEF Attempted
  <2> QED BY <1>1, <1>7, <2>2, <2>3 DEF SettledInv
<1>13. ParkedInv'
  BY <1>1 DEF WaitInv, ParkedInv, GivenUp, Armed, Running, Final
<1> QED BY <1>6, <1>7, <1>8, <1>10, <1>11, <1>12, <1>13 DEF WaitInv

\* Time passes for a parked retry.
LEMMA RetryTimeComesKeeps ==
    ASSUME WaitInv, RetryTimeComes
    PROVE WaitInv'
<1>1. /\ row' = [row EXCEPT !.deferred = FALSE]
      /\ UNCHANGED <<provider, wake, tick, latched, consumer, fate, settled, armed, shifts, faults>>
  BY DEF RetryTimeComes, history
<1>2. /\ row' \in RowType /\ row'.pending = row.pending /\ row'.target = row.target
      /\ row'.baseline = row.baseline /\ row'.signaled = row.signaled /\ row'.watching = row.watching
  BY <1>1 DEF WaitInv, TypeOK, RowType
<1>3. TypeOK'
  BY <1>1, <1>2 DEF WaitInv, TypeOK, RowType
<1>4. Token' = Token /\ ProviderInv' /\ LockInv'
  BY <1>1 DEF Token, WaitInv, ProviderInv, LockInv
<1>5. TokensInv'
  BY <1>1, <1>2 DEF WaitInv, TokensInv, TokenOK, Final
<1>6. WakeInv'
  BY <1>1, <1>2, <1>4 DEF WaitInv, WakeInv, Attempted, Running
<1>7. SettledInv'
  BY <1>1, <1>2, <1>4 DEF WaitInv, SettledInv
<1>8. TickInv'
  BY <1>1, <1>2, <1>4 DEF WaitInv, TickInv, DriverInv, Polled, Attempted, Running
<1>9. ParkedInv'
  BY <1>1, <1>2 DEF WaitInv, ParkedInv, GivenUp, Armed, Running, Final
<1> QED BY <1>3, <1>4, <1>5, <1>6, <1>7, <1>8, <1>9 DEF WaitInv

\* A crash forgets the wake, and the record that its execution was told.
LEMMA CrashKeeps ==
    ASSUME WaitInv, Crash
    PROVE WaitInv'
<1>1. /\ wake' = None /\ latched' = FALSE /\ tick' = [d \in Drivers |-> Idle]
      /\ settled' = IF wake # None /\ row.pending # None THEN settled \ {wake.exec} ELSE settled
      /\ UNCHANGED <<provider, row, consumer, fate, armed, shifts>>
  BY DEF Crash
<1>2. faults' \in 0..MaxFaults
  BY BoundsAssumption DEF Crash, Fault, WaitInv, TypeOK
<1>3. \A d \in Drivers : tick'[d] = Idle
  BY <1>1
<1>4. tick' \in [Drivers -> TickType]
  BY <1>1 DEF Idle, TickType
<1>5. TypeOK'
  BY <1>1, <1>2, <1>4 DEF WaitInv, TypeOK, TickType
<1>6. TickInv' /\ LockInv'
  BY <1>3, IdleIsSound DEF TickInv, LockInv
<1>7. TokensInv'
  BY <1>1, <1>3 DEF WaitInv, TokensInv, TokenOK, Final, Idle
<1>8. Token' = Token /\ ProviderInv' /\ WakeInv'
  BY <1>1 DEF Token, WaitInv, ProviderInv, WakeInv
<1>9. SettledInv'
  BY <1>1, <1>8 DEF WaitInv, SettledInv
<1>10. ParkedInv'
  BY <1>1 DEF WaitInv, ParkedInv, GivenUp, Armed, Running, Final
<1> QED BY <1>5, <1>6, <1>7, <1>8, <1>9, <1>10 DEF WaitInv

-----------------------------------------------------------------------------
(* The theorems.                                                           *)

\* Nothing is on record at first.
LEMMA InitHolds == Init => WaitInv
<1> SUFFICES ASSUME Init PROVE WaitInv
  OBVIOUS
<1>1. \A d \in Drivers : tick[d] = Idle
  BY DEF Init
<1>2. /\ \E kind \in Kinds :
            provider = [kind |-> kind, exec |-> 1, over |-> FALSE, final |-> FALSE,
                        head |-> 1, view |-> 1, class |-> 1]
      /\ row = [signaled |-> None, pending |-> None, target |-> None, attempts |-> 0,
                deferred |-> FALSE, watching |-> FALSE, baseline |-> None]
      /\ wake = None /\ consumer = "none" /\ settled = {}
  BY DEF Init
<1>3. TypeOK
  <2>1. Idle \in TickType
    BY DEF Idle, TickType
  <2>2. tick \in [Drivers -> TickType]
    BY <2>1 DEF Init
  <2>3. MaxExecs \in Nat /\ 1 \in Execs /\ 1 \in 1..(MaxExecs + 1)
    BY BoundsAssumption DEF Execs
  <2>4. provider \in [kind : Kinds, exec : Execs, over : BOOLEAN, final : BOOLEAN,
                      head : 1..(MaxExecs + 1), view : 1..2, class : 1..2]
    BY <1>2, <2>3
  <2>5. row \in RowType
    BY <1>2, BoundsAssumption DEF RowType
  <2>6. /\ latched = FALSE /\ fate \in [Execs -> {"none", "told", "dropped", "absorbed"}]
        /\ armed \in 0..MaxExecs /\ shifts \in 0..MaxShifts /\ faults \in 0..MaxFaults
    BY <2>3, BoundsAssumption DEF Init, Off
  <2> QED BY <1>2, <2>2, <2>4, <2>5, <2>6 DEF TypeOK, TickType, RowType
<1>4. ProviderInv
  BY <1>2 DEF ProviderInv
<1>5. TokensInv
  BY <1>1, <1>2 DEF TokensInv, Idle
<1>6. LockInv /\ TickInv
  BY <1>1 DEF LockInv, TickInv, DriverInv, Idle
<1>7. WakeInv /\ SettledInv /\ ParkedInv
  BY <1>2 DEF WakeInv, SettledInv, ParkedInv
<1> QED BY <1>3, <1>4, <1>5, <1>6, <1>7 DEF WaitInv

\* Every step keeps the invariant.
LEMMA NextKeeps ==
    ASSUME WaitInv, [Next]_vars
    PROVE WaitInv'
<1>1. CASE UNCHANGED vars
  <2>1. TypeOK' /\ ProviderInv' /\ TokensInv' /\ LockInv'
    BY <1>1 DEF vars, WaitInv, TypeOK, ProviderInv, TokensInv, TokenOK, Final, LockInv
  <2>2. RowTokens' /\ WakeInv' /\ SettledInv' /\ ParkedInv'
    BY <1>1, FrameKeeps DEF vars
  <2>3. TickInv'
    BY <1>1 DEF vars, WaitInv, TickInv, DriverInv, Polled, Attempted, Running, Token
  <2> QED BY <2>1, <2>2, <2>3 DEF WaitInv
<1>2. ASSUME NEW d \in Drivers, TickStep(d) \/ ArmForResume(d) \/ Interrupt(d)
      PROVE WaitInv'
  BY <1>2, StartTickKeeps, NothingToHarvestKeeps, HarvestKeeps, PopKeeps, PollKeeps, SkipKeeps,
     RekeyKeeps, LockAtMaxAttemptsKeeps, RecordPendingKeeps, EnqueueKeeps, RegisterConsumerKeeps,
     ReturnResumeKeeps, ArmForResumeKeeps, InterruptKeeps DEF TickStep
<1>3. CASE NewExecution \/ Finish \/ Shift
  BY <1>3, ProviderKeeps
<1>4. CASE TurnStep \/ RetryTimeComes \/ RegisterWatch \/ Crash
  BY <1>4, TurnEndsKeeps, RetryTimeComesKeeps, RegisterWatchKeeps, CrashKeeps DEF TurnStep
<1> QED BY <1>1, <1>2, <1>3, <1>4 DEF Next

(***************************************************************************)
(* The inductive invariant of the reconciler: ticks exclude each other,    *)
(* the attempt on record is for the execution it was polled for, a token   *)
(* of a told execution waits for its harvest or is locked, and a parked    *)
(* consumer's watch is armed over the wake in flight.                      *)
(***************************************************************************)
THEOREM WaitInvHolds == Spec => []WaitInv
<1>1. WaitInv /\ [Next]_vars => WaitInv'
  BY NextKeeps
<1> QED BY <1>1, InitHolds, PTL DEF Spec

(***************************************************************************)
(* The ledger row of async_wait_signal_store.py and the reconciler's own   *)
(* state keep their types; the attempts never pass MAX_DELIVERY_ATTEMPTS.  *)
(***************************************************************************)
THEOREM TypeCorrect == Spec => []TypeOK
<1>1. WaitInv => TypeOK
  BY DEF WaitInv
<1> QED BY <1>1, WaitInvHolds, PTL

(***************************************************************************)
(* A parked resume consumer is watched until a wake reaches it or is given *)
(* up (register_wait_resume_consumer), for any number of drivers,          *)
(* executions, retries, re-keys and crashes.                               *)
(***************************************************************************)
THEOREM ParkedIsWatched == Spec => []ConsumerIsWatched
<1>1. WaitInv => ConsumerIsWatched
  BY DEF WaitInv, ParkedInv, GivenUp, Armed, ConsumerIsWatched
<1> QED BY <1>1, WaitInvHolds, PTL

(***************************************************************************)
(* The reconciler dispatches one wake at a time, and none for an execution *)
(* whose wake has run, unless a crash lost the record of it                *)
(* (_reconcile_once and _process_handle over record_pending and            *)
(* record_delivery).                                                       *)
(***************************************************************************)
THEOREM WakesAreNotRepeated == Spec => NoRepeatedWake
<1> DEFINE dispatch == wake' # None /\ wake'.state = "running" /\ wake' # wake
           once == dispatch => wake = None /\ wake'.exec \notin settled
<1>1. ASSUME WaitInv, [Next]_vars PROVE [once]_vars
  <2> SUFFICES ASSUME Next, dispatch PROVE wake = None /\ wake'.exec \notin settled
    BY <1>1
  <2>1. \A result \in Result : ~TurnEnds(result)
    <3> SUFFICES ASSUME NEW result \in Result, TurnEnds(result) PROVE FALSE
      OBVIOUS
    <3>1. wake' = [wake EXCEPT !.state = result] /\ wake \in Wakes
      BY <1>1 DEF TurnEnds, Running, WaitInv, TypeOK
    <3>2. wake'.state = result
      BY <3>1 DEF Wakes
    <3> QED BY <3>2 DEF Result
  <2>2. ~(NewExecution \/ Finish \/ Shift \/ RetryTimeComes \/ RegisterWatch \/ Crash)
    BY DEF NewExecution, Finish, Shift, RetryTimeComes, RegisterWatch, Crash
  <2>3. PICK d \in Drivers : TickStep(d) \/ ArmForResume(d) \/ Interrupt(d)
    BY <2>1, <2>2 DEF Next, TurnStep
  <2>4. Enqueue(d)
    BY <2>3 DEF TickStep, StartTick, NothingToHarvest, Harvest, Pop, Poll, Skip, Rekey,
       LockAtMaxAttempts, RecordPending, RegisterConsumer, ReturnResume, ArmForResume, Interrupt
  <2>5. wake'.exec = tick[d].exec /\ tick[d].at = "enqueue"
    BY <2>4 DEF Enqueue
  <2> QED BY <1>1, <2>5 DEF WaitInv, TickInv, DriverInv
<1> QED BY <1>1, WaitInvHolds, PTL DEF Spec, NoRepeatedWake

=============================================================================
