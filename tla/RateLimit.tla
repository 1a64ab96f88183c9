----------------------------- MODULE RateLimit -----------------------------
(***************************************************************************)
(* The outermost layer, middleware/rate_limit.rs: a per-address ceiling on *)
(* requests in flight (a semaphore behind a map of weak references) and    *)
(* the persistent GCRA limiter of services/rate_limit.rs, whose rows       *)
(* outlive the process.  login_persistent is the same limiter with its own *)
(* keys and rate.                                                          *)
(*                                                                         *)
(* A GCRA decision is one transaction (SQLite) or one script (Redis) and   *)
(* reads the clock inside it; the clock is taken not to run backwards.  A  *)
(* SQLite decision runs on a blocking thread, so a client that goes away   *)
(* gives back its permit at once and the decision is made all the same.    *)
(***************************************************************************)
EXTENDS Integers, Sequences, FiniteSets

CONSTANTS Ips, NoIp,
          Requests,        \* request slots that may be in flight together
          MaxPerIp,        \* max_coroutines_per_ip
          Interval,        \* GcraRate::interval_us
          Burst,           \* burst_size
          CleanupEvery,    \* cleanup_interval_requests
          SweepInterval,
          MaxTime          \* bound: the clock

ASSUME LimiterConstants ==
    /\ NoIp \notin Ips /\ IsFiniteSet(Requests)
    /\ MaxPerIp \in Nat \ {0} /\ Interval \in Nat \ {0} /\ Burst \in Nat \ {0}
    /\ CleanupEvery \in Nat \ {0} /\ SweepInterval \in Nat \ {0} /\ MaxTime \in Nat

VARIABLES config,          \* backend and fail_open
          now,
          table,           \* rate_limit_gcra: tat_us of a key, or NoRow
          checks,          \* SqliteBackend::requests, modulo CleanupEvery
          semaphores,      \* LimiterState::semaphores
          calls,           \* LimiterState::calls_since_sweep
          req,
          granted          \* history: when each address was allowed

vars == <<config, now, table, checks, semaphores, calls, req, granted>>

-----------------------------------------------------------------------------
Configs == [backend : {"sqlite", "redis"}, failOpen : BOOLEAN]

\* GcraRate::new: tolerance_us.
Tolerance == Interval * (Burst - 1)

\* Times start at 1, so 0 is free.
NoRow == 0

\* Live semaphores.  In the map, an address has no entry, one whose semaphore
\* has been dropped, or one that upgrades to a semaphore in use.
Sems == 1..Cardinality(Requests)
NoEntry == 0
Dead == -1

\* A request has its semaphore in hand (asking), holds a permit (check,
\* handler), or is gone while its decision is still to be made (detached).
Pcs == {"idle", "asking", "check", "handler", "detached"}
Request == [pc : Pcs, ip : Ips \cup {NoIp}, sem : Sems \cup {NoEntry}, cleanup : BOOLEAN]
Idle == [pc |-> "idle", ip |-> NoIp, sem |-> NoEntry, cleanup |-> FALSE]

TypeOK ==
    /\ config \in Configs
    /\ now \in 1..(MaxTime + 1)
    /\ table \in [Ips -> Nat]
    /\ checks \in 0..(CleanupEvery - 1)
    /\ semaphores \in [Ips -> Sems \cup {NoEntry, Dead}]
    /\ calls \in 0..(SweepInterval - 1)
    /\ req \in [Requests -> Request]
    /\ granted \in [Ips -> Seq(Nat)]

Init ==
    /\ config \in Configs
    /\ now = 1
    /\ table = [i \in Ips |-> NoRow]
    /\ checks = 0
    /\ semaphores = [i \in Ips |-> NoEntry]
    /\ calls = 0
    /\ req = [r \in Requests |-> Idle]
    /\ granted = [i \in Ips |-> <<>>]

-----------------------------------------------------------------------------
\* The strong references to a semaphore.
Holders(s) == {r \in Requests : req[r].sem = s}
Permits(s) == {r \in Holders(s) : req[r].pc \in {"check", "handler"}}

\* Request r becomes q and gives up its semaphore: the last strong reference
\* to go leaves a dead weak one in the map.
Leave(r, q) ==
    /\ req' = [req EXCEPT ![r] = q]
    /\ semaphores' = [i \in Ips |->
         IF semaphores[i] = req[r].sem /\ Holders(req[r].sem) = {r} THEN Dead ELSE semaphores[i]]

\* Mutant: the sweep keeps the dead entries and drops the live ones.
SweptInverted(m) == [i \in Ips |-> IF m[i] = Dead THEN Dead ELSE NoEntry]

\* The sweep keeps entries whose strong_count is above zero.
Swept(m) == [i \in Ips |-> IF m[i] = Dead THEN NoEntry ELSE m[i]]

\* Mutant: the counter is not reset by the sweep.
CountedOn(c) == c + 1

\* The calls since the last sweep, after one more.
Counted(c) == IF c + 1 >= SweepInterval THEN 0 ELSE c + 1

\* apply, first half: IpConcurrencyLimiter::semaphore, under its mutex.
Arrive(r, i) ==
    LET swept == IF calls + 1 >= SweepInterval THEN Swept(semaphores) ELSE semaphores
        s == IF swept[i] \in Sems THEN swept[i] ELSE CHOOSE t \in Sems : Holders(t) = {}
    IN /\ req[r].pc = "idle"
       /\ calls' = Counted(calls)
       /\ semaphores' = [swept EXCEPT ![i] = s]
       /\ req' = [req EXCEPT ![r] = [Idle EXCEPT !.pc = "asking", !.ip = i, !.sem = s]]
       /\ UNCHANGED <<config, now, table, checks, granted>>

\* The counter that SqliteBackend::check bumps before it hands the decision over;
\* at zero the check cleans up.
NextCheck == IF config.backend = "sqlite" THEN (checks + 1) % CleanupEvery ELSE checks

\* try_acquire_owned.
Acquire(r) ==
    /\ req[r].pc = "asking"
    /\ Cardinality(Permits(req[r].sem)) < MaxPerIp
    /\ checks' = NextCheck
    /\ req' = [req EXCEPT ![r].pc = "check",
                          ![r].cleanup = (config.backend = "sqlite" /\ NextCheck = 0)]
    /\ UNCHANGED <<config, now, table, semaphores, calls, granted>>

\* No permit left: 429, without queueing.
TooMany(r) ==
    /\ req[r].pc = "asking"
    /\ Cardinality(Permits(req[r].sem)) >= MaxPerIp
    /\ Leave(r, Idle)
    /\ UNCHANGED <<config, now, table, checks, calls, granted>>

-----------------------------------------------------------------------------
Expired(i) == table[i] # NoRow /\ table[i] + Tolerance <= now

\* Mutant: the row expires with its tat, less the tolerance instead of plus.
CleanedEarly(cleanup) ==
    [i \in Ips |-> IF cleanup /\ config.backend = "sqlite" /\ table[i] - Tolerance <= now
                   THEN NoRow ELSE table[i]]

\* DELETE ... WHERE expires_at_us <= now; expires_at_us is tat_us + tolerance.
Cleaned(cleanup) ==
    [i \in Ips |-> IF cleanup /\ config.backend = "sqlite" /\ Expired(i) THEN NoRow ELSE table[i]]

\* The decision on a table: a key without a row starts at now.
Tat(t, i) == IF t[i] = NoRow THEN now ELSE t[i]
Allows(t, i) == now >= Tat(t, i) - Tolerance

\* Mutant: the idle time before a late request is credited.
TatFromRow(t, i) == Tat(t, i) + Interval

NewTat(t, i) == (IF Tat(t, i) > now THEN Tat(t, i) ELSE now) + Interval

\* The transaction, and the Redis script.
Decide(i, cleanup) ==
    LET t == Cleaned(cleanup)
    IN IF Allows(t, i)
       THEN /\ table' = [t EXCEPT ![i] = NewTat(t, i)]
            /\ granted' = [granted EXCEPT ![i] = Append(@, now)]
       ELSE table' = t /\ UNCHANGED granted

\* limiter.check: the request goes on to the handlers, or to 429.
Check(r) ==
    LET i == req[r].ip
    IN /\ req[r].pc = "check"
       /\ Decide(i, req[r].cleanup)
       /\ IF Allows(Cleaned(req[r].cleanup), i)
          THEN /\ req' = [req EXCEPT ![r].pc = "handler", ![r].cleanup = FALSE]
               /\ UNCHANGED semaphores
          ELSE Leave(r, Idle)
       /\ UNCHANGED <<config, now, checks, calls>>

\* The backend fails; an answer of Redis may also be lost after the script ran.
\* fail_open decides.
CheckFails(r) ==
    /\ req[r].pc = "check"
    /\ \/ UNCHANGED <<table, granted>>
       \/ config.backend = "redis" /\ Decide(req[r].ip, FALSE)
    /\ IF config.failOpen
       THEN /\ req' = [req EXCEPT ![r].pc = "handler", ![r].cleanup = FALSE]
            /\ UNCHANGED semaphores
       ELSE Leave(r, Idle)
    /\ UNCHANGED <<config, now, checks, calls>>

\* The client goes away during the check: the permit is dropped with the
\* future, the decision is not.
Detach(r) ==
    /\ req[r].pc = "check"
    /\ Leave(r, [req[r] EXCEPT !.pc = "detached", !.sem = NoEntry])
    /\ UNCHANGED <<config, now, table, checks, calls, granted>>

DetachedCheck(r) ==
    /\ req[r].pc = "detached"
    /\ \/ Decide(req[r].ip, req[r].cleanup)
       \/ UNCHANGED <<table, granted>>      \* the backend fails
    /\ req' = [req EXCEPT ![r] = Idle]
    /\ UNCHANGED <<config, now, checks, semaphores, calls>>

\* The handler answers, or its client goes away.
Answer(r) ==
    /\ req[r].pc = "handler"
    /\ Leave(r, Idle)
    /\ UNCHANGED <<config, now, table, checks, calls, granted>>

\* Mutant: no timeout around next.run; what it was to end runs on.
TimeoutMissing(r) ==
    /\ req[r].pc = "handler"
    /\ UNCHANGED vars

\* tokio::time::timeout around next.run: 408, and the future is dropped.
Timeout(r) ==
    /\ req[r].pc = "handler"
    /\ Leave(r, Idle)
    /\ UNCHANGED <<config, now, table, checks, calls, granted>>

Tick ==
    /\ now <= MaxTime
    /\ now' = now + 1
    /\ UNCHANGED <<config, table, checks, semaphores, calls, req, granted>>

\* Redis drops a key some time after its PX, which is at least new_tat - now +
\* tolerance.
KeyExpires(i) ==
    /\ config.backend = "redis"
    /\ Expired(i)
    /\ table' = [table EXCEPT ![i] = NoRow]
    /\ UNCHANGED <<config, now, checks, semaphores, calls, req, granted>>

\* The process ends and starts again: only the backend's rows survive.
Restart ==
    /\ checks' = 0 /\ calls' = 0
    /\ semaphores' = [i \in Ips |-> NoEntry]
    /\ req' = [r \in Requests |-> Idle]
    /\ UNCHANGED <<config, now, table, granted>>

Step(r) ==
    \/ \E i \in Ips : Arrive(r, i)
    \/ Acquire(r) \/ TooMany(r)
    \/ Check(r) \/ CheckFails(r) \/ Detach(r) \/ DetachedCheck(r)
    \/ Answer(r) \/ Timeout(r)

Next ==
    \/ \E r \in Requests : Step(r)
    \/ \E i \in Ips : KeyExpires(i)
    \/ Tick \/ Restart

\* The limiter's own steps are taken: they are a mutex and a compare-and-swap, a
\* transaction with a busy timeout or a call with a response timeout, and a
\* timer.  Nothing is assumed of clients and handlers.
Fairness ==
    \A r \in Requests :
        /\ WF_vars(Acquire(r) \/ TooMany(r))
        /\ WF_vars(Check(r) \/ CheckFails(r))
        /\ WF_vars(DetachedCheck(r))
        /\ WF_vars(Timeout(r))

Spec == Init /\ [][Next]_vars
FairSpec == Spec /\ Fairness

-----------------------------------------------------------------------------
(***************************************************************************)
(* Properties.                                                             *)
(***************************************************************************)

\* max_coroutines_per_ip is the "maximum simultaneously executing requests per
\* IP" (docs/rate-limiting.md), across sweeps of the map, semaphores dropped and
\* made anew, and requests caught between the map and the permit.
ConcurrencyBounded ==
    \A i \in Ips :
        Cardinality({r \in Requests : req[r].ip = i /\ req[r].pc \in {"check", "handler"}})
            <= MaxPerIp

\* The GCRA contract, over a history of grants: no stretch of it is more than a
\* burst ahead of one grant per interval.
Conforms(h) ==
    \A i, j \in 1..Len(h) : i <= j => (j - i + 1 - Burst) * Interval <= h[j] - h[i]

\* The limiter allows a request exactly when the history with it still conforms:
\* rows that expire, are swept or survive a restart never make it forget a
\* grant or hold one against the client for too long.
AllowsExactly ==
    \A i \in Ips : Allows(table, i) <=> Conforms(Append(granted[i], now))

\* What an address was granted conforms to the contract for good, restarts of
\* the console included ("keeps a restart from immediately resetting every
\* allowance", docs/rate-limiting.md).
GrantsConform == \A i \in Ips : Conforms(granted[i])

\* Every request gives its slot back, whatever its handler does: the timeout
\* ends it.
RequestEnds == \A r \in Requests : req[r].pc # "idle" ~> req[r].pc = "idle"

=============================================================================
