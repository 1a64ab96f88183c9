--------------------------- MODULE LoginThrottle ---------------------------
(***************************************************************************)
(* The failure counters in front of the password and code checks:          *)
(* LoginThrottle and AccountFailureMonitor (security/rate_limit.rs), as    *)
(* login_submit and mfa_verify (controllers/auth.rs) use them.             *)
(*                                                                         *)
(* A request asks whether its keys are locked, then waits (persistent      *)
(* limiter, database, hash slot), then records the outcome: attempts that  *)
(* are under way when a key locks still finish.  The state is local to the *)
(* process and a restart clears it, so one run of the process is modelled. *)
(***************************************************************************)
EXTENDS Naturals, Sequences, FiniteSets

CONSTANTS Ips, Users,
          Targets,          \* what is attempted: <<"login", user>>, <<"mfa", user>>
          Requests,         \* attempts that may be under way together
          MaxFailures, Window, Lockout,
          PruneAfter,       \* the hour after which prune drops an entry
          AlertWindow, AlertThreshold,
          MaxTime,          \* bound: the clock
          MaxMisses         \* bound: failures of an account in one AlertWindow

\* Default: a window of five minutes, a lockout of fifteen, entries kept an hour.
ASSUME ThrottleConstants ==
    /\ IsFiniteSet(Requests)
    /\ Targets \subseteq {"login", "mfa"} \X Users
    /\ MaxFailures \in Nat \ {0} /\ Window \in Nat /\ Lockout \in Nat /\ MaxTime \in Nat /\ MaxMisses \in Nat
    /\ AlertWindow \in Nat /\ AlertThreshold \in Nat \ {0}
    /\ PruneAfter \in Nat /\ PruneAfter >= Window /\ Lockout > Window

VARIABLES now,
          entries,          \* LoginThrottle::entries
          accounts,         \* AccountFailureMonitor::entries
          req,
          tries,            \* history: recent failures of a key since its last success
          misses,           \* history: recent failures of an account
          alerts            \* history: when each account was last reported

vars == <<now, entries, accounts, req, tries, misses, alerts>>

-----------------------------------------------------------------------------
Times == 1..(MaxTime + 1)

\* "ip:..", "ip:..|user:.." and "mfa:..|user:..".
IpKey(i) == <<"ip", i>>
UserKey(kind, i, u) == <<kind, i, u>>
Keys == {IpKey(i) : i \in Ips} \cup {UserKey(t[1], i, t[2]) : i \in Ips, t \in Targets}

\* Attempt; until is locked_until, 0 for None.
Attempt == [failures : 0..MaxFailures, started : 0..(MaxTime + 1), until : 0..(MaxTime + 1 + Lockout)]
NoAttempt == [failures |-> 0, started |-> 0, until |-> 0]
Account == [count : Nat, started : 0..(MaxTime + 1), alerted : BOOLEAN]
NoAccount == [count |-> 0, started |-> 0, alerted |-> FALSE]

\* A login request has passed the lock of its address ("user": the one of its
\* account is next) or both ("verify").
Request == [pc : {"user", "verify"}, kind : {"login", "mfa"}, ip : Ips, user : Users]
Idle == [pc |-> "idle"]

TypeOK ==
    /\ now \in Times
    /\ entries \in [Keys -> Attempt]
    /\ accounts \in [Users -> Account]
    /\ req \in [Requests -> Request \cup {Idle}]
    /\ tries \in [Keys -> Seq(Times)]
    /\ misses \in [Users -> Seq(Times)]
    /\ alerts \in [Users -> 0..(MaxTime + 1)]

Init ==
    /\ now = 1
    /\ entries = [k \in Keys |-> NoAttempt]
    /\ accounts = [u \in Users |-> NoAccount]
    /\ req = [r \in Requests |-> Idle]
    /\ tries = [k \in Keys |-> <<>>]
    /\ misses = [u \in Users |-> <<>>]
    /\ alerts = [u \in Users |-> 0]

-----------------------------------------------------------------------------
Locked(k) == entries[k].until > now

\* locked_for_at: an elapsed lockout is dropped on the way.
Looked(k) ==
    [entries EXCEPT ![k] = IF @.until # 0 /\ @.until <= now THEN NoAttempt ELSE @]

\* prune
Pruned(a) ==
    IF a.until # 0 THEN (IF a.until > now THEN a ELSE NoAttempt)
    ELSE IF now - a.started <= PruneAfter THEN a ELSE NoAttempt

\* A window of failures that begins now.
Fresh == [failures |-> 0, started |-> now, until |-> 0]

\* The counting half of record_failure_at.
Count(a) ==
    [a EXCEPT !.failures = @ + 1,
              !.until = IF a.failures + 1 >= MaxFailures THEN now + Lockout ELSE 0]

\* Mutant: a failure on a locked key locks it anew.
FailedLockedAnew(a) ==
    IF a = NoAttempt \/ a.until # 0 \/ now - a.started > Window
    THEN [Fresh EXCEPT !.failures = MaxFailures, !.until = now + Lockout]
    ELSE Count(a)

\* Mutant: every failure outside a lock begins a window.
FailedAlwaysFresh(a) == IF a.until > now THEN a ELSE Count(Fresh)

\* Mutant: the failures of an elapsed window are kept.
FailedNoWindow(a) ==
    IF a = NoAttempt THEN Count(Fresh) ELSE [a EXCEPT !.failures = @ + 1]

\* record_failure_at on the entry of its key, after prune.
Failed(a) ==
    IF a.until > now THEN a
    ELSE IF a = NoAttempt \/ a.until # 0 \/ now - a.started > Window THEN Count(Fresh)
    ELSE Count(a)

\* Mutant: the account is reported only from a threshold further on.
NotedLate(a) ==
    LET b == IF a = NoAccount \/ now - a.started > AlertWindow
             THEN [NoAccount EXCEPT !.started = now] ELSE a
    IN [b EXCEPT !.count = @ + 1, !.alerted = @ \/ b.count + 1 >= 2 * AlertThreshold]

\* note_failure_at; the report is made when alerted turns true.
Noted(a) ==
    LET b == IF a = NoAccount \/ now - a.started > AlertWindow
             THEN [NoAccount EXCEPT !.started = now] ELSE a
    IN [b EXCEPT !.count = @ + 1, !.alerted = @ \/ b.count + 1 >= AlertThreshold]

-----------------------------------------------------------------------------
Become(r, q) == req' = [req EXCEPT ![r] = q]

\* The lock of the address, before anything else; mfa_verify has one key only.
CheckFirst(r, kind, i, u) ==
    LET k == IF kind = "login" THEN IpKey(i) ELSE UserKey(kind, i, u)
    IN /\ req[r] = Idle
       /\ entries' = Looked(k)
       /\ IF Locked(k)
          THEN UNCHANGED req
          ELSE Become(r, [pc |-> IF kind = "login" THEN "user" ELSE "verify",
                          kind |-> kind, ip |-> i, user |-> u])
       /\ UNCHANGED <<now, accounts, tries, misses, alerts>>

\* After the persistent limiter's answer: the lock of the account.
CheckUser(r) ==
    LET k == UserKey("login", req[r].ip, req[r].user)
    IN /\ req[r].pc = "user"
       /\ entries' = Looked(k)
       /\ Become(r, IF Locked(k) THEN Idle ELSE [req[r] EXCEPT !.pc = "verify"])
       /\ UNCHANGED <<now, accounts, tries, misses, alerts>>

\* The keys that an attempt is recorded under.
KeysOf(q) ==
    {UserKey(q.kind, q.ip, q.user)} \cup (IF q.kind = "login" THEN {IpKey(q.ip)} ELSE {})

\* register_login_failure, and record_failure in mfa_verify: the monitor is for
\* passwords only.
Fail(r) ==
    LET q == req[r]
        noted == Noted(IF now - accounts[q.user].started <= AlertWindow
                       THEN accounts[q.user] ELSE NoAccount)
    IN /\ q.pc = "verify"
       /\ Len(misses[q.user]) < MaxMisses
       /\ entries' = [k \in Keys |->
            IF k \in KeysOf(q) THEN Failed(Pruned(entries[k])) ELSE Pruned(entries[k])]
       /\ tries' = [k \in Keys |-> IF k \in KeysOf(q) THEN Append(tries[k], now) ELSE tries[k]]
       /\ IF q.kind = "login"
          THEN /\ accounts' = [u \in Users |->
                    IF u = q.user THEN noted
                    ELSE IF now - accounts[u].started <= AlertWindow THEN accounts[u]
                    ELSE NoAccount]
               /\ misses' = [misses EXCEPT ![q.user] = Append(@, now)]
               /\ alerts' = [alerts EXCEPT ![q.user] =
                    IF noted.alerted /\ ~(accounts[q.user].alerted
                                          /\ noted.started = accounts[q.user].started)
                    THEN now ELSE @]
          ELSE UNCHANGED <<accounts, misses, alerts>>
       /\ Become(r, Idle)
       /\ UNCHANGED now

\* record_success: the failures of the keys are forgotten.
Succeed(r) ==
    LET q == req[r]
    IN /\ q.pc = "verify"
       /\ entries' = [k \in Keys |-> IF k \in KeysOf(q) THEN NoAttempt ELSE entries[k]]
       /\ tries' = [k \in Keys |-> IF k \in KeysOf(q) THEN <<>> ELSE tries[k]]
       /\ Become(r, Idle)
       /\ UNCHANGED <<now, accounts, misses, alerts>>

\* Ends with nothing recorded: the persistent limiter refuses, the role has no
\* console, the account is gone, the client or the database is.
Drop(r) ==
    /\ req[r] # Idle
    /\ Become(r, Idle)
    /\ UNCHANGED <<now, entries, accounts, tries, misses, alerts>>

\* The history keeps what the windows can still see; it is in the order of time,
\* so what it lets go is at its head.
Outdated(s, w) == {i \in DOMAIN s : now + 1 - s[i] > w}
Recent(s, w) == SubSeq(s, Cardinality(Outdated(s, w)) + 1, Len(s))

Tick ==
    /\ now <= MaxTime
    /\ now' = now + 1
    /\ tries' = [k \in Keys |-> Recent(tries[k], Window)]
    /\ misses' = [u \in Users |-> Recent(misses[u], AlertWindow)]
    /\ UNCHANGED <<entries, accounts, req, alerts>>

Next ==
    \/ \E r \in Requests :
        \/ \E i \in Ips, t \in Targets : CheckFirst(r, t[1], i, t[2])
        \/ CheckUser(r) \/ Fail(r) \/ Succeed(r) \/ Drop(r)
    \/ Tick

Spec == Init /\ [][Next]_vars

-----------------------------------------------------------------------------
(***************************************************************************)
(* Properties.                                                             *)
(***************************************************************************)

\* The failures that the beginning of a window leaves behind: of the window before
\* it, which did not lock, or of a lock that has ended, under which the attempts
\* that it found under way, all but the one that locked, failed late.
LeftOver ==
    (IF MaxFailures >= Cardinality(Requests) THEN MaxFailures ELSE Cardinality(Requests)) - 1

\* What the throttle is worth.  A window starts at its first failure (it does
\* not slide, whatever the comment on LoginThrottle says), so in any stretch of
\* its length a key sees at most the failures from before the window, those of
\* the window up to the lock, and those of the attempts under way when it locked.
WindowBudget ==
    \A k \in Keys :
        Len(tries[k]) <= LeftOver + (MaxFailures - 1) + Cardinality(Requests)

\* Detection is not blind at the seam of two windows: an account that draws
\* 2 * alert_threshold - 1 failures within a window was reported.
AlertNotMissed ==
    \A u \in Users : Len(misses[u]) >= 2 * AlertThreshold - 1
        => alerts[u] # 0 /\ now - alerts[u] <= 2 * AlertWindow

\* Attempts that fail on a locked key, having begun before the lock, neither
\* push the end of the lockout out nor pull it in.
LockNotExtended ==
    [][\A k \in Keys : Locked(k) /\ entries'[k].until # 0
            => entries'[k].until = entries[k].until]_vars

=============================================================================
