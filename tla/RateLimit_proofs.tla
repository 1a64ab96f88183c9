-------------------------- MODULE RateLimit_proofs --------------------------
(***************************************************************************)
(* The GCRA limiter keeps its contract for every rate, burst and clock,    *)
(* through clean-up, expiry, lost answers and restarts.                    *)
(*                                                                         *)
(* The inductive invariant says what a row is: tat is the latest, over all *)
(* grants, of the time at which that grant and those after it are paid     *)
(* off; a key without a row is one whose grants are all paid off.          *)
(*                                                                         *)
(* The ceiling on requests in flight rests on an invariant of its own: the *)
(* semaphore a request has in hand is the one the map upgrades to for its  *)
(* address, until the last of them lets it go.                             *)
(***************************************************************************)
EXTENDS RateLimit, FiniteSetTheorems, TLAPS

\* The time that x requests are worth.
Times(x) == x * Interval

\* When grant k of history h, and those after it, are paid off.
PaidOff(h, k) == h[k] + Times(Len(h) - k + 1)

Types ==
    /\ config \in Configs
    /\ now \in Nat \ {0}
    /\ table \in [Ips -> Nat]
    /\ granted \in [Ips -> Seq(Nat)]

\* What a row t[i], or its absence, says of the history.
RowOK(t, i) ==
    LET h == granted[i]
    IN IF t[i] = NoRow
       THEN \A k \in 1..Len(h) : PaidOff(h, k) <= now
       ELSE /\ \A k \in 1..Len(h) : PaidOff(h, k) <= t[i]
            /\ \E k \in 1..Len(h) : PaidOff(h, k) = t[i]

PastOK(i) == \A k \in 1..Len(granted[i]) : granted[i][k] <= now

IInv ==
    /\ Types
    /\ \A i \in Ips : RowOK(table, i) /\ PastOK(i) /\ Conforms(granted[i])

-----------------------------------------------------------------------------
LEMMA TimesFacts ==
    /\ \A x \in Int : Times(x) \in Int
    /\ \A x, y \in Int : Times(x - y) = Times(x) - Times(y)
    /\ \A x \in Int : Times(x + 1) = Times(x) + Interval
    /\ \A x, y \in Int : x <= y => Times(x) <= Times(y)
    /\ Times(0) = 0 /\ Times(1) = Interval
<1>0. Interval \in Nat /\ Interval > 0
  BY LimiterConstants
<1>1. \A x \in Int : Times(x) \in Int
  BY <1>0 DEF Times
<1>2. \A x, y \in Int : Times(x - y) = Times(x) - Times(y)
  BY <1>0 DEF Times
<1>3. \A x \in Int : Times(x + 1) = Times(x) + Interval
  BY <1>0 DEF Times
<1>4. \A x, y \in Int : x <= y => Times(x) <= Times(y)
  BY <1>0 DEF Times
<1>5. Times(0) = 0 /\ Times(1) = Interval
  BY <1>0 DEF Times
<1>6. QED
  BY <1>1, <1>2, <1>3, <1>4, <1>5

LEMMA ToleranceFact == Tolerance = Times(Burst - 1) /\ Tolerance \in Nat
  BY LimiterConstants DEF Tolerance, Times

\* The contract with the multiplications named.
LEMMA ConformsTimes ==
    ASSUME NEW h
    PROVE  Conforms(h) <=> \A i, j \in 1..Len(h) : i <= j => Times(j - i + 1 - Burst) <= h[j] - h[i]
  BY DEF Conforms, Times

-----------------------------------------------------------------------------
\* A decision is exact: on a row in order, it allows what conforms.
LEMMA Exact ==
    ASSUME Types, NEW t \in [Ips -> Nat], NEW i \in Ips,
           RowOK(t, i), PastOK(i), Conforms(granted[i])
    PROVE  Allows(t, i) <=> Conforms(Append(granted[i], now))
<1> DEFINE h == granted[i]
           n == Len(h)
           g == Append(h, now)
<1>1. /\ h \in Seq(Nat) /\ n \in Nat /\ now \in Nat /\ t[i] \in Nat
      /\ \A k \in 1..n : h[k] \in Nat
  BY DEF Types
<1>2. Burst \in Nat /\ Burst >= 1 /\ Interval \in Nat
  BY LimiterConstants
<1>3. /\ Len(g) = n + 1 /\ g[n + 1] = now
      /\ \A k \in 1..n : g[k] = h[k]
  BY <1>1
<1>4. /\ t[i] = NoRow => \A k \in 1..n : h[k] + Times(n - k + 1) <= now
      /\ t[i] # NoRow => /\ \A k \in 1..n : h[k] + Times(n - k + 1) <= t[i]
                        /\ \E k \in 1..n : h[k] + Times(n - k + 1) = t[i]
  BY DEF RowOK, PaidOff
<1>5. /\ Conforms(h)
      /\ Conforms(h) <=> \A a, b \in 1..n : a <= b => Times(b - a + 1 - Burst) <= h[b] - h[a]
  BY ConformsTimes
<1>6. Conforms(g) <=> \A a, b \in 1..(n + 1) : a <= b => Times(b - a + 1 - Burst) <= g[b] - g[a]
  BY <1>3, ConformsTimes
<1>7. Allows(t, i) <=> now >= (IF t[i] = NoRow THEN now ELSE t[i]) - Tolerance
  BY DEF Allows, Tat
<1> HIDE DEF g, n, h
\* The newest grant, at now, is as far ahead of grant a as the row says.
<1>8. ASSUME NEW a \in 1..n
      PROVE  /\ Times((n + 1) - a + 1 - Burst) = Times(n - a + 1) - Tolerance
             /\ Times(n - a + 1) \in Int
  <2>1. a \in Int /\ n \in Int /\ Burst \in Int /\ Interval \in Int
    BY <1>1, <1>2
  <2>2. QED
    BY <2>1 DEF Times, Tolerance
<1>9. ASSUME Conforms(g) PROVE Allows(t, i)
  <2>1. CASE t[i] = NoRow
    BY <1>1, <1>7, <2>1, ToleranceFact
  <2>2. CASE t[i] # NoRow
    <3>1. PICK k \in 1..n : h[k] + Times(n - k + 1) = t[i]
      BY <1>4, <2>2
    <3>2. k \in 1..(n + 1) /\ n + 1 \in 1..(n + 1) /\ k <= n + 1
      BY <1>1
    <3>3. Times((n + 1) - k + 1 - Burst) <= g[n + 1] - g[k]
      BY <1>6, <1>9, <3>2
    <3>4. /\ Times((n + 1) - k + 1 - Burst) = Times(n - k + 1) - Tolerance
          /\ Times(n - k + 1) \in Int
      BY <1>8
    <3>5. g[n + 1] = now /\ g[k] = h[k] /\ h[k] \in Nat
      BY <1>1, <1>3
    <3>6. Times(n - k + 1) - Tolerance <= now - h[k]
      BY <3>3, <3>4, <3>5
    <3>7. now >= t[i] - Tolerance
      <4> DEFINE owed == Times(n - k + 1)
      <4>1. h[k] + owed = t[i] /\ owed - Tolerance <= now - h[k]
        BY <3>1, <3>6
      <4>2. owed \in Int /\ Tolerance \in Nat /\ h[k] \in Nat /\ now \in Nat
        BY <1>1, <3>4, <3>5, ToleranceFact
      <4> HIDE DEF owed
      <4>3. QED
        BY <4>1, <4>2
    <3>8. QED
      BY <1>7, <2>2, <3>7
  <2>3. QED
    BY <2>1, <2>2
<1>10. ASSUME Allows(t, i) PROVE Conforms(g)
  <2> SUFFICES ASSUME NEW a \in 1..(n + 1), NEW b \in 1..(n + 1), a <= b
               PROVE  Times(b - a + 1 - Burst) <= g[b] - g[a]
    BY <1>6
  <2>1. CASE b <= n
    <3>1. a \in 1..n /\ b \in 1..n
      BY <1>1, <2>1
    <3>2. QED
      BY <1>3, <1>5, <3>1
  <2>2. CASE a = n + 1
    <3>1. b - a + 1 - Burst <= 0 /\ b - a + 1 - Burst \in Int /\ b = a
      BY <1>1, <1>2, <2>2
    <3>2. Times(b - a + 1 - Burst) <= 0
      BY <3>1, TimesFacts
    <3>3. QED
      BY <1>1, <1>3, <2>2, <3>1, <3>2
  <2>3. CASE a <= n /\ b = n + 1
    <3>1. a \in 1..n /\ h[a] \in Nat /\ g[a] = h[a] /\ g[b] = now
      BY <1>1, <1>3, <2>3
    <3>2. Times(b - a + 1 - Burst) = Times(n - a + 1) - Tolerance /\ Times(n - a + 1) \in Int
      BY <1>8, <2>3, <3>1
    <3>3. h[a] + Times(n - a + 1) <= (IF t[i] = NoRow THEN now ELSE t[i])
      BY <1>4, <3>1
    <3>4. now >= (IF t[i] = NoRow THEN now ELSE t[i]) - Tolerance
      BY <1>7, <1>10
    <3>5. Tolerance \in Nat /\ (IF t[i] = NoRow THEN now ELSE t[i]) \in Nat
      BY <1>1, ToleranceFact
    <3>6. Times(n - a + 1) - Tolerance <= now - h[a]
      <4> DEFINE due == IF t[i] = NoRow THEN now ELSE t[i]
                 owed == Times(n - a + 1)
      <4>1. h[a] + owed <= due /\ now >= due - Tolerance
        BY <3>3, <3>4
      <4>2. due \in Nat /\ owed \in Int /\ Tolerance \in Nat /\ h[a] \in Nat /\ now \in Nat
        BY <1>1, <3>1, <3>2, <3>5
      <4> HIDE DEF due, owed
      <4>3. owed - Tolerance <= now - h[a]
        BY <4>1, <4>2
      <4>4. QED
        BY <4>3 DEF owed
    <3>7. QED
      BY <3>1, <3>2, <3>6
  <2>4. QED
    BY <1>1, <2>1, <2>2, <2>3
<1>11. QED
  BY <1>9, <1>10 DEF g, h

\* Removing a row that has expired loses nothing.
LEMMA ExpiredOK ==
    ASSUME Types, NEW i \in Ips, RowOK(table, i), Expired(i)
    PROVE  \A k \in 1..Len(granted[i]) : PaidOff(granted[i], k) <= now
<1> SUFFICES ASSUME NEW k \in 1..Len(granted[i]) PROVE PaidOff(granted[i], k) <= now
  OBVIOUS
<1>1. PaidOff(granted[i], k) <= table[i]
  BY DEF RowOK, Expired
<1>2. PaidOff(granted[i], k) \in Int
  BY LimiterConstants DEF PaidOff, Types, Times
<1>3. QED
  BY <1>1, <1>2, ToleranceFact DEF Types, Expired

LEMMA CleanedOK ==
    ASSUME IInv, NEW c
    PROVE  Cleaned(c) \in [Ips -> Nat] /\ \A i \in Ips : RowOK(Cleaned(c), i)
<1>1. Cleaned(c) \in [Ips -> Nat]
  BY DEF Cleaned, NoRow, IInv, Types
<1>2. ASSUME NEW i \in Ips PROVE RowOK(Cleaned(c), i)
  <2>1. CASE Cleaned(c)[i] = table[i]
    BY <2>1 DEF IInv, RowOK
  <2>2. CASE Cleaned(c)[i] # table[i]
    <3>1. Expired(i) /\ Cleaned(c)[i] = NoRow
      BY <2>2 DEF Cleaned
    <3>2. QED
      BY <3>1, ExpiredOK DEF IInv, RowOK
  <2>3. QED
    BY <2>1, <2>2
<1>3. QED
  BY <1>1, <1>2

-----------------------------------------------------------------------------
\* One decision keeps every row in order.
LEMMA DecideStep ==
    ASSUME IInv, NEW i, NEW c, Decide(i, c), now' = now, config' = config
    PROVE  IInv'
<1> DEFINE t == Cleaned(c)
<1>1. t \in [Ips -> Nat] /\ \A j \in Ips : RowOK(t, j)
  BY CleanedOK
<1>2. /\ now \in Nat /\ now > 0 /\ Interval \in Nat /\ granted \in [Ips -> Seq(Nat)]
      /\ \A j \in Ips : PastOK(j) /\ Conforms(granted[j])
      /\ Types
  BY LimiterConstants DEF IInv, Types
<1> HIDE DEF t
\* A key that this decision leaves alone.
<1>3. ASSUME NEW j \in Ips, table'[j] = t[j], granted'[j] = granted[j]
      PROVE  RowOK(table, j)' /\ PastOK(j)' /\ Conforms(granted[j])'
  BY <1>1, <1>2, <1>3 DEF RowOK, PastOK, Conforms, PaidOff
<1>4. CASE ~Allows(t, i) \/ i \notin Ips
  <2>1. table' = t /\ granted' = granted
    BY <1>1, <1>2, <1>4 DEF Decide, t
  <2>2. QED
    BY <1>1, <1>2, <1>3, <2>1 DEF IInv, Types
<1>5. CASE Allows(t, i) /\ i \in Ips
  <2> DEFINE h == granted[i]
             n == Len(h)
             g == Append(h, now)
             tat == Tat(t, i)
             new == NewTat(t, i)
  <2>1. table' = [t EXCEPT ![i] = new] /\ granted' = [granted EXCEPT ![i] = g]
    BY <1>5 DEF Decide, t
  <2>2. /\ h \in Seq(Nat) /\ n \in Nat /\ t[i] \in Nat /\ \A k \in 1..n : h[k] \in Nat
        /\ g \in Seq(Nat) /\ Len(g) = n + 1 /\ g[n + 1] = now /\ \A k \in 1..n : g[k] = h[k]
    BY <1>1, <1>2, <1>5
  <2>3. Conforms(g)
    BY <1>1, <1>2, <1>5, Exact
  <2>4. /\ tat = (IF t[i] = NoRow THEN now ELSE t[i])
        /\ new = (IF tat > now THEN tat ELSE now) + Interval
        /\ tat \in Nat
    BY <1>2, <2>2 DEF Tat, NewTat
  <2>5. /\ \A k \in 1..n : h[k] + Times(n - k + 1) <= tat
        /\ tat > now => \E k \in 1..n : h[k] + Times(n - k + 1) = tat
    BY <1>1, <1>2, <1>5, <2>4 DEF RowOK, PaidOff
  <2>6. table'[i] = new /\ granted'[i] = g /\ new \in Nat /\ new # NoRow
    BY <1>1, <1>2, <1>5, <2>1, <2>2, <2>4 DEF NoRow
  <2> HIDE DEF h, n, g, tat, new
  <2>7. ASSUME NEW k \in 1..n
        PROVE  PaidOff(g, k) = h[k] + Times(n - k + 1) + Interval /\ Times(n - k + 1) \in Int
    <3>1. k \in Int /\ n \in Int /\ Interval \in Int /\ h[k] \in Int /\ g[k] = h[k]
      BY <1>2, <2>2
    <3>2. PaidOff(g, k) = h[k] + Times((n + 1) - k + 1)
      BY <2>2, <3>1 DEF PaidOff
    <3>3. Times((n + 1) - k + 1) = Times(n - k + 1) + Interval /\ Times(n - k + 1) \in Int
      BY <3>1 DEF Times
    <3>4. QED
      BY <3>1, <3>2, <3>3
  <2>8. PaidOff(g, n + 1) = now + Interval
    <3>1. PaidOff(g, n + 1) = now + Times((n + 1) - (n + 1) + 1)
      BY <2>2 DEF PaidOff
    <3>2. (n + 1) - (n + 1) + 1 = 1
      BY <2>2
    <3>3. QED
      BY <3>1, <3>2, TimesFacts
  <2>9. \A k \in 1..(n + 1) : PaidOff(g, k) <= new
    <3> SUFFICES ASSUME NEW k \in 1..(n + 1) PROVE PaidOff(g, k) <= new
      OBVIOUS
    <3>1. CASE k = n + 1
      BY <1>2, <2>4, <2>8, <3>1
    <3>2. CASE k # n + 1
      <4>1. k \in 1..n
        BY <2>2, <3>2
      <4>2. h[k] + Times(n - k + 1) <= tat /\ h[k] \in Nat
        BY <2>2, <2>5, <4>1
      <4>3. PaidOff(g, k) = h[k] + Times(n - k + 1) + Interval /\ Times(n - k + 1) \in Int
        BY <2>7, <4>1
      <4>4. QED
        BY <1>2, <2>4, <4>2, <4>3
    <3>3. QED
      BY <3>1, <3>2
  <2>10. \E k \in 1..(n + 1) : PaidOff(g, k) = new
    <3>1. CASE tat > now
      <4>1. PICK k \in 1..n : h[k] + Times(n - k + 1) = tat
        BY <2>5, <3>1
      <4>2. PaidOff(g, k) = new
        BY <2>4, <2>7, <3>1, <4>1
      <4>3. k \in 1..(n + 1)
        BY <2>2
      <4>4. QED
        BY <4>2, <4>3
    <3>2. CASE ~(tat > now)
      <4>1. n + 1 \in 1..(n + 1) /\ PaidOff(g, n + 1) = new
        BY <1>2, <2>2, <2>4, <2>8, <3>2
      <4>2. QED
        BY <4>1
    <3>3. QED
      BY <3>1, <3>2
  <2>11. RowOK(table, i)'
    BY <2>2, <2>6, <2>9, <2>10 DEF RowOK, PaidOff
  <2>12. PastOK(i)'
    <3>1. \A k \in 1..n : h[k] <= now
      BY <1>2, <1>5 DEF PastOK, h, n
    <3>2. \A k \in 1..(n + 1) : g[k] <= now
      BY <1>2, <2>2, <3>1
    <3>3. QED
      BY <2>2, <2>6, <3>2 DEF PastOK
  <2>13. ASSUME NEW j \in Ips, j # i PROVE table'[j] = t[j] /\ granted'[j] = granted[j]
    BY <1>1, <1>2, <2>1, <2>13
  <2>14. Types'
    BY <1>1, <1>2, <2>1, <2>2, <2>6 DEF Types
  <2>15. Conforms(granted[i])'
    BY <2>3, <2>6 DEF Conforms
  <2>16. QED
    BY <1>3, <2>11, <2>12, <2>13, <2>14, <2>15 DEF IInv
<1>6. QED
  BY <1>4, <1>5

\* Steps that touch neither the rows nor the history; time may pass.
LEMMA QuietStep ==
    ASSUME IInv, UNCHANGED <<config, table, granted>>, now' \in Nat, now' >= now
    PROVE  IInv'
<1>1. Types'
  BY DEF IInv, Types
<1>2. ASSUME NEW i \in Ips PROVE RowOK(table, i)' /\ PastOK(i)' /\ Conforms(granted[i])'
  <2>1. /\ granted'[i] = granted[i] /\ table'[i] = table[i] /\ now \in Nat
        /\ granted[i] \in Seq(Nat)
    BY DEF IInv, Types
  <2>2. \A k \in 1..Len(granted[i]) : PaidOff(granted[i], k) \in Int /\ granted[i][k] \in Nat
    BY <2>1, LimiterConstants DEF PaidOff, Times
  <2>3. PastOK(i)' /\ Conforms(granted[i])'
    <3>1. PastOK(i)'
      <4>1. \A k \in 1..Len(granted[i]) : granted[i][k] <= now
        BY DEF IInv, PastOK
      <4>2. \A k \in 1..Len(granted[i]) : granted[i][k] <= now'
        BY <2>1, <2>2, <4>1
      <4>3. QED
        BY <2>1, <4>2 DEF PastOK
    <3>2. Conforms(granted[i])'
      BY <2>1 DEF IInv, Conforms
    <3>3. QED
      BY <3>1, <3>2
  <2>4. \A k \in 1..Len(granted[i]) : PaidOff(granted[i], k) <= now => PaidOff(granted[i], k) <= now'
    BY <2>1, <2>2
  <2>5. RowOK(table, i) /\ \A k : PaidOff(granted[i], k)' = PaidOff(granted[i], k)
    BY <2>1 DEF IInv, PaidOff
  <2>6. RowOK(table, i)'
    BY <2>1, <2>4, <2>5 DEF RowOK
  <2>7. QED
    BY <2>3, <2>6
<1>3. QED
  BY <1>1, <1>2 DEF IInv

\* A key that Redis has expired.
LEMMA ExpiryStep ==
    ASSUME IInv, NEW i \in Ips, KeyExpires(i)
    PROVE  IInv'
<1>1. table' = [table EXCEPT ![i] = NoRow] /\ UNCHANGED <<config, now, granted>> /\ Expired(i)
  BY DEF KeyExpires
<1>2. Types'
  BY <1>1 DEF IInv, Types, NoRow
<1>3. ASSUME NEW j \in Ips PROVE RowOK(table, j)' /\ PastOK(j)' /\ Conforms(granted[j])'
  <2>1. PastOK(j)' /\ Conforms(granted[j])'
    BY <1>1 DEF IInv, PastOK, Conforms
  <2>2. CASE j # i
    <3>1. table'[j] = table[j]
      BY <1>1, <2>2 DEF IInv, Types
    <3>2. QED
      BY <1>1, <2>1, <3>1 DEF IInv, RowOK, PaidOff
  <2>3. CASE j = i
    <3>1. table'[j] = NoRow
      BY <1>1, <2>3 DEF IInv, Types
    <3>2. \A k \in 1..Len(granted[j]) : PaidOff(granted[j], k) <= now
      BY <1>1, <2>3, ExpiredOK DEF IInv
    <3>3. QED
      BY <1>1, <2>1, <3>1, <3>2 DEF RowOK, PaidOff
  <2>4. QED
    BY <2>2, <2>3
<1>4. QED
  BY <1>2, <1>3 DEF IInv

LEMMA InitIInv == Init => IInv
<1> SUFFICES ASSUME Init PROVE IInv
  OBVIOUS
<1>1. Types
  BY DEF Init, Types, NoRow
<1>2. \A i \in Ips : Len(granted[i]) = 0 /\ table[i] = NoRow
  BY DEF Init
<1>3. QED
  BY <1>1, <1>2 DEF IInv, RowOK, PastOK, Conforms

LEMMA NextIInv ==
    ASSUME IInv, [Next]_vars
    PROVE  IInv'
<1>0. now \in Nat
  BY DEF IInv, Types
<1>1. CASE UNCHANGED vars
  BY <1>0, <1>1, QuietStep DEF vars
<1>2. ASSUME NEW r \in Requests, Step(r) PROVE IInv'
  <2>1. CASE \E i \in Ips : Arrive(r, i)
    BY <1>0, <2>1, QuietStep DEF Arrive
  <2>2. CASE Acquire(r) \/ TooMany(r) \/ Detach(r) \/ Answer(r) \/ Timeout(r)
    <3>1. UNCHANGED <<config, now, table, granted>>
      BY <2>2 DEF Acquire, TooMany, Detach, Answer, Timeout
    <3>2. QED
      BY <1>0, <3>1, QuietStep
  <2>3. CASE Check(r)
    BY <2>3, DecideStep DEF Check
  <2>4. CASE CheckFails(r)
    <3>1. config' = config /\ now' = now
      BY <2>4 DEF CheckFails
    <3>2. CASE UNCHANGED <<table, granted>>
      BY <1>0, <3>1, <3>2, QuietStep
    <3>3. CASE Decide(req[r].ip, FALSE)
      BY <3>1, <3>3, DecideStep
    <3>4. QED
      BY <2>4, <3>2, <3>3 DEF CheckFails
  <2>5. CASE DetachedCheck(r)
    BY <1>0, <2>5, DecideStep, QuietStep DEF DetachedCheck
  <2>6. QED
    BY <1>2, <2>1, <2>2, <2>3, <2>4, <2>5 DEF Step
<1>3. CASE Tick \/ Restart
  BY <1>0, <1>3, QuietStep DEF Tick, Restart
<1>4. QED
  BY <1>1, <1>2, <1>3, ExpiryStep DEF Next

\* The inductive invariant: a row is the latest time at which the grants of its
\* key are paid off; without a row they all are.
THEOREM Invariance == Spec => []IInv
  BY InitIInv, NextIInv, PTL DEF Spec

\* The limiter allows exactly the requests that keep to the contract.
THEOREM ExactDecision == Spec => []AllowsExactly
<1>1. IInv => AllowsExactly
  BY Exact DEF IInv, Types, AllowsExactly
<1>2. QED
  BY <1>1, Invariance, PTL

\* What an address was granted keeps to the contract, for every rate and burst,
\* through clean-up, expiry, lost answers and restarts.
THEOREM Contract == Spec => []GrantsConform
<1>1. IInv => GrantsConform
  BY DEF IInv, GrantsConform
<1>2. QED
  BY <1>1, Invariance, PTL

-----------------------------------------------------------------------------
LiveTypes ==
    /\ now \in 1..(MaxTime + 1)
    /\ checks \in 0..(CleanupEvery - 1)
    /\ semaphores \in [Ips -> Sems \cup {NoEntry, Dead}]
    /\ calls \in 0..(SweepInterval - 1)
    /\ req \in [Requests -> Request]

\* A request between the map and its answer has the semaphore of the map.
HandOK(q) ==
    IF q.pc \in {"asking", "check", "handler"}
    THEN q.ip \in Ips /\ q.sem \in Sems /\ semaphores[q.ip] = q.sem
    ELSE q.sem = NoEntry

\* An entry that upgrades belongs to one address and to some request.
EntryOK(i) ==
    semaphores[i] \in Sems =>
        /\ Holders(semaphores[i]) # {}
        /\ \A j \in Ips : semaphores[j] = semaphores[i] => j = i

PermitInv ==
    /\ LiveTypes
    /\ \A r \in Requests : HandOK(req[r])
    /\ \A i \in Ips : EntryOK(i)
    /\ \A s \in Sems : Cardinality(Permits(s)) <= MaxPerIp

LEMMA SemFacts ==
    /\ IsFiniteSet(Requests) /\ Cardinality(Requests) \in Nat
    /\ NoEntry \notin Sems /\ Dead \notin Sems
    /\ \A s \in Sems : s \in Nat
<1>1. Cardinality(Requests) \in Nat
  BY LimiterConstants, FS_CardinalityType
<1>2. QED
  BY <1>1, LimiterConstants DEF Sems, NoEntry, Dead

LEMMA PermitsFinite ==
    ASSUME NEW s
    PROVE  /\ Permits(s) \subseteq Requests /\ IsFiniteSet(Permits(s))
           /\ Cardinality(Permits(s)) \in Nat
<1>1. Permits(s) \in SUBSET Requests
  BY DEF Permits, Holders
<1>2. IsFiniteSet(Permits(s))
  BY <1>1, SemFacts, FS_Subset, Zenon
<1>3. QED
  BY <1>1, <1>2, FS_CardinalityType

\* While a request is idle, some semaphore is in nobody's hand.
LEMMA FreeSemaphore ==
    ASSUME LiveTypes, NEW r \in Requests, req[r].sem = NoEntry
    PROVE  \E s \in Sems : Holders(s) = {}
<1> SUFFICES ASSUME \A s \in Sems : Holders(s) # {} PROVE FALSE
  BY Zenon
<1> DEFINE n == Cardinality(Requests)
           T == Requests \ {r}
           f == [s \in Sems |-> CHOOSE q \in Requests : q \in Holders(s)]
<1>1. \A s \in Sems : f[s] \in Requests /\ req[f[s]].sem = s
  <2> SUFFICES ASSUME NEW s \in Sems PROVE f[s] \in Requests /\ f[s] \in Holders(s)
    BY DEF Holders
  <2>1. \E q \in Requests : q \in Holders(s)
    BY DEF Holders
  <2>2. QED
    BY <2>1, Zenon
<1> HIDE DEF f
<1>2. \A s \in Sems : f[s] # r
  BY <1>1, SemFacts
<1>3. f \in [Sems -> T]
  <2>1. f = [s \in Sems |-> f[s]]
    BY DEF f
  <2>2. QED
    BY <1>1, <1>2, <2>1
<1>4. IsFiniteSet(T) /\ Cardinality(T) = n - 1
  BY SemFacts, FS_RemoveElement
<1>5. n \in Nat
  BY SemFacts
<1>6. n # 0
  BY SemFacts, FS_EmptySet
<1>7. IsFiniteSet(Sems) /\ Cardinality(Sems) = n
  <2>1. IsFiniteSet(1..n) /\ Cardinality(1..n) = IF 1 > n THEN 0 ELSE n - 1 + 1
    BY <1>5, FS_Interval
  <2>2. QED
    BY <1>5, <1>6, <2>1 DEF Sems
<1>8. Cardinality(T) < Cardinality(Sems)
  BY <1>4, <1>5, <1>7
<1> HIDE DEF T, n
<1>9. \E x, y \in Sems : x # y /\ f[x] = f[y]
  BY <1>3, <1>4, <1>7, <1>8, FS_PigeonHole
<1>10. QED
  BY <1>1, <1>9

LEMMA IdleHand == Idle \in Request /\ Idle.pc = "idle" /\ Idle.sem = NoEntry
  BY DEF Idle, Request, Pcs

\* The requests after r has become q.
LEMMA BecomeFacts ==
    ASSUME LiveTypes, NEW r \in Requests, NEW q \in Request, req' = [req EXCEPT ![r] = q]
    PROVE  /\ req' \in [Requests -> Request]
           /\ \A p \in Requests : req'[p] = IF p = r THEN q ELSE req[p]
  BY DEF LiveTypes

\* What is the same as before, or less, in every semaphore is within bounds.
LEMMA FewerPermits ==
    ASSUME NEW s, Cardinality(Permits(s)) <= MaxPerIp, Permits(s)' \subseteq Permits(s)
    PROVE  Cardinality(Permits(s)') <= MaxPerIp
<1>1. /\ Cardinality(Permits(s)') <= Cardinality(Permits(s))
      /\ Cardinality(Permits(s)') \in Nat
  BY PermitsFinite, FS_Subset, FS_CardinalityType
<1>2. QED
  BY <1>1, PermitsFinite, LimiterConstants

\* A request that lets its semaphore go.
LEMMA LeaveStep ==
    ASSUME PermitInv, NEW r \in Requests, NEW q \in Request, Leave(r, q),
           req[r].pc \in {"asking", "check", "handler"},
           q.pc \in {"idle", "detached"}, q.sem = NoEntry,
           UNCHANGED <<now, checks, calls>>
    PROVE  PermitInv'
<1> DEFINE m == req[r].sem
<1>1. /\ \A p \in Requests : req'[p] = IF p = r THEN q ELSE req[p]
      /\ req' \in [Requests -> Request]
  BY BecomeFacts DEF Leave, PermitInv
<1>2. m \in Sems /\ r \in Holders(m)
  BY DEF PermitInv, HandOK, Holders
<1> HIDE DEF m
<1>3. \A i \in Ips : semaphores'[i] = IF semaphores[i] = m /\ Holders(m) = {r} THEN Dead ELSE semaphores[i]
  BY DEF Leave, m
<1>4. \A s \in Sems : Holders(s)' = Holders(s) \ {r} /\ Permits(s)' \subseteq Permits(s)
  BY <1>1, SemFacts DEF Holders, Permits
<1>5. LiveTypes'
  <2>1. semaphores' = [i \in Ips |-> IF semaphores[i] = m /\ Holders(m) = {r} THEN Dead ELSE semaphores[i]]
    BY DEF Leave, m
  <2>2. semaphores' \in [Ips -> Sems \cup {NoEntry, Dead}]
    BY <2>1 DEF PermitInv, LiveTypes
  <2>3. QED
    BY <1>1, <2>2 DEF PermitInv, LiveTypes
<1>6. ASSUME NEW p \in Requests PROVE HandOK(req[p])'
  <2>1. CASE p = r
    BY <1>1, <2>1 DEF HandOK
  <2>2. CASE p # r
    <3>1. req'[p] = req[p] /\ HandOK(req[p])
      BY <1>1, <2>2 DEF PermitInv
    <3>2. req[p].sem = m => Holders(m) # {r}
      BY <2>2 DEF Holders
    <3>3. QED
      BY <1>3, <3>1, <3>2 DEF HandOK
  <2>3. QED
    BY <2>1, <2>2
<1>7. ASSUME NEW i \in Ips PROVE EntryOK(i)'
  <2>1. SUFFICES ASSUME semaphores'[i] \in Sems
                 PROVE  /\ Holders(semaphores[i])' # {}
                        /\ \A j \in Ips : semaphores'[j] = semaphores'[i] => j = i
    BY DEF EntryOK
  <2>2. /\ semaphores'[i] = semaphores[i] /\ ~(semaphores[i] = m /\ Holders(m) = {r})
    BY <1>3, <2>1, SemFacts
  <2>3. EntryOK(i) /\ semaphores[i] \in Sems
    BY <2>1, <2>2 DEF PermitInv
  <2>4. \A j \in Ips : semaphores'[j] = semaphores'[i] => j = i
    BY <1>3, <2>2, <2>3, SemFacts DEF EntryOK
  <2>5. Holders(semaphores[i]) \ {r} # {}
    <3>1. CASE semaphores[i] = m
      BY <1>2, <2>2, <3>1
    <3>2. CASE semaphores[i] # m
      BY <2>3, <3>2 DEF EntryOK, Holders, m
    <3>3. QED
      BY <3>1, <3>2
  <2>6. Holders(semaphores[i])' = {p \in Requests : req'[p].sem = semaphores[i]}
    BY <2>2 DEF Holders
  <2>7. {p \in Requests : req'[p].sem = semaphores[i]} = Holders(semaphores[i]) \ {r}
    BY <1>1, <2>3, SemFacts DEF Holders
  <2>8. QED
    BY <2>4, <2>5, <2>6, <2>7
<1>8. \A s \in Sems : Cardinality(Permits(s)') <= MaxPerIp
  BY <1>4, FewerPermits DEF PermitInv
<1>9. QED
  BY <1>5, <1>6, <1>7, <1>8 DEF PermitInv

\* A request that goes on with its semaphore in hand.
LEMMA GoOnStep ==
    ASSUME PermitInv, NEW r \in Requests, NEW q \in Request, req' = [req EXCEPT ![r] = q],
           req[r].pc \in {"asking", "check", "handler"}, q.pc \in {"check", "handler"},
           q.ip = req[r].ip, q.sem = req[r].sem,
           req[r].pc = "asking" => Cardinality(Permits(req[r].sem)) < MaxPerIp,
           checks' \in 0..(CleanupEvery - 1), UNCHANGED <<now, semaphores, calls>>
    PROVE  PermitInv'
<1>1. /\ \A p \in Requests : req'[p] = IF p = r THEN q ELSE req[p]
      /\ req' \in [Requests -> Request]
  BY BecomeFacts DEF PermitInv
<1>2. \A s : Holders(s)' = Holders(s)
  BY <1>1 DEF Holders
<1>3. LiveTypes'
  BY <1>1 DEF PermitInv, LiveTypes
<1>4. \A p \in Requests : HandOK(req[p])'
  BY <1>1 DEF PermitInv, HandOK
<1>5. \A i \in Ips : EntryOK(i)'
  BY <1>1 DEF PermitInv, EntryOK, Holders
<1>6. ASSUME NEW s \in Sems PROVE Cardinality(Permits(s)') <= MaxPerIp
  <2>1. CASE req[r].pc = "asking" /\ req[r].sem = s
    <3>1. Permits(s)' = Permits(s) \cup {r} /\ r \notin Permits(s)
      BY <1>1, <2>1 DEF Permits, Holders
    <3>2. Cardinality(Permits(s) \cup {r}) = Cardinality(Permits(s)) + 1
      BY <3>1, PermitsFinite, FS_AddElement
    <3>3. QED
      BY <2>1, <3>1, <3>2, PermitsFinite, LimiterConstants
  <2>2. CASE ~(req[r].pc = "asking" /\ req[r].sem = s)
    <3>1. Permits(s)' \subseteq Permits(s)
      BY <1>1, <2>2 DEF Permits, Holders
    <3>2. QED
      BY <3>1, FewerPermits DEF PermitInv
  <2>3. QED
    BY <2>1, <2>2
<1>7. QED
  BY <1>3, <1>4, <1>5, <1>6 DEF PermitInv

\* The semaphore that an arriving request is handed: the one in use for its
\* address, or one that is in nobody's hand and behind no entry.
LEMMA ArriveStep ==
    ASSUME PermitInv, NEW r \in Requests, NEW i \in Ips, Arrive(r, i)
    PROVE  PermitInv'
<1> DEFINE sw == IF calls + 1 >= SweepInterval THEN Swept(semaphores) ELSE semaphores
           e == IF sw[i] \in Sems THEN sw[i] ELSE CHOOSE t \in Sems : Holders(t) = {}
<1>1. /\ req[r].pc = "idle" /\ calls' = Counted(calls) /\ semaphores' = [sw EXCEPT ![i] = e]
      /\ req' = [req EXCEPT ![r] = [Idle EXCEPT !.pc = "asking", !.ip = i, !.sem = e]]
      /\ UNCHANGED <<now, checks>>
  BY DEF Arrive
<1>2. semaphores \in [Ips -> Sems \cup {NoEntry, Dead}] /\ calls \in 0..(SweepInterval - 1)
  BY DEF PermitInv, LiveTypes
<1>3. /\ sw \in [Ips -> Sems \cup {NoEntry, Dead}]
      /\ \A j \in Ips : IF semaphores[j] \in Sems THEN sw[j] = semaphores[j] ELSE sw[j] \notin Sems
  BY <1>2, SemFacts DEF Swept
<1>4. req[r].sem = NoEntry
  BY <1>1 DEF PermitInv, HandOK
<1> HIDE DEF sw
<1>5. PICK s \in Sems : /\ s = e
                        /\ semaphores[i] \in Sems => s = semaphores[i]
                        /\ semaphores[i] \notin Sems => Holders(s) = {}
  <2>1. \E t \in Sems : Holders(t) = {}
    BY <1>4, FreeSemaphore DEF PermitInv
  <2>2. (CHOOSE t \in Sems : Holders(t) = {}) \in Sems
        /\ Holders(CHOOSE t \in Sems : Holders(t) = {}) = {}
    BY <2>1, Zenon
  <2>3. QED
    BY <1>3, <2>2
<1>6. semaphores' = [sw EXCEPT ![i] = s]
  BY <1>1, <1>5
<1>7. PICK q \in Request : /\ req' = [req EXCEPT ![r] = q]
                           /\ q.pc = "asking" /\ q.ip = i /\ q.sem = s
  <2> DEFINE n == [Idle EXCEPT !.pc = "asking", !.ip = i, !.sem = s]
  <2>1. n \in Request /\ n.pc = "asking" /\ n.ip = i /\ n.sem = s
    BY IdleHand DEF Idle, Request, Pcs
  <2>2. req' = [req EXCEPT ![r] = n]
    BY <1>1, <1>5
  <2>3. QED
    BY <2>1, <2>2
<1> HIDE DEF e
<1>8. /\ \A p \in Requests : req'[p] = IF p = r THEN q ELSE req[p]
      /\ req' \in [Requests -> Request]
  BY <1>7, BecomeFacts DEF PermitInv
<1>9. \A j \in Ips : semaphores'[j] = IF j = i THEN s ELSE sw[j]
  BY <1>3, <1>6
<1>10. \A j \in Ips : j # i => semaphores[j] # s
  <2> SUFFICES ASSUME NEW j \in Ips, j # i, semaphores[j] = s PROVE FALSE
    OBVIOUS
  <2>1. EntryOK(j)
    BY DEF PermitInv
  <2>2. QED
    BY <1>5, <2>1 DEF EntryOK
<1>11. LiveTypes'
  <2>1. semaphores' \in [Ips -> Sems \cup {NoEntry, Dead}]
    BY <1>3, <1>6
  <2>2. calls' \in 0..(SweepInterval - 1)
    BY <1>1, <1>2, LimiterConstants DEF Counted
  <2>3. QED
    BY <1>1, <1>8, <2>1, <2>2 DEF PermitInv, LiveTypes
<1>12. ASSUME NEW p \in Requests PROVE HandOK(req[p])'
  <2>1. CASE p = r
    BY <1>7, <1>8, <1>9, <2>1 DEF HandOK
  <2>2. CASE p # r
    <3>1. req'[p] = req[p] /\ HandOK(req[p])
      BY <1>8, <2>2 DEF PermitInv
    <3>2. ASSUME req[p].pc \in {"asking", "check", "handler"}
          PROVE  semaphores'[req[p].ip] = req[p].sem
      <4>1. req[p].ip \in Ips /\ req[p].sem \in Sems /\ semaphores[req[p].ip] = req[p].sem
        BY <3>1, <3>2 DEF HandOK
      <4>2. QED
        BY <1>3, <1>5, <1>9, <4>1
    <3>3. QED
      BY <3>1, <3>2 DEF HandOK
  <2>3. QED
    BY <2>1, <2>2
<1>13. ASSUME NEW j \in Ips PROVE EntryOK(j)'
  <2>1. SUFFICES ASSUME semaphores'[j] \in Sems
                 PROVE  /\ \E p \in Requests : req'[p].sem = semaphores'[j]
                        /\ \A k \in Ips : semaphores'[k] = semaphores'[j] => k = j
    BY DEF EntryOK, Holders
  <2>2. CASE j = i
    BY <1>3, <1>7, <1>8, <1>9, <1>10, <2>2
  <2>3. CASE j # i
    <3>1. semaphores'[j] = semaphores[j] /\ semaphores[j] \in Sems /\ EntryOK(j)
      BY <1>3, <1>9, <2>1, <2>3 DEF PermitInv
    <3>2. PICK p \in Requests : req[p].sem = semaphores[j]
      BY <3>1 DEF EntryOK, Holders
    <3>3. p # r
      BY <1>4, <3>1, <3>2, SemFacts
    <3>4. \A k \in Ips : semaphores'[k] = semaphores'[j] => k = j
      BY <1>3, <1>9, <1>10, <2>3, <3>1 DEF EntryOK
    <3>5. QED
      BY <1>8, <3>1, <3>2, <3>3, <3>4
  <2>4. QED
    BY <2>2, <2>3
<1>14. \A t \in Sems : Cardinality(Permits(t)') <= MaxPerIp
  <2> SUFFICES ASSUME NEW t \in Sems PROVE Cardinality(Permits(t)') <= MaxPerIp
    OBVIOUS
  <2>1. Permits(t)' \subseteq Permits(t)
    BY <1>7, <1>8 DEF Permits, Holders
  <2>2. QED
    BY <2>1, FewerPermits DEF PermitInv
<1>15. QED
  BY <1>11, <1>12, <1>13, <1>14 DEF PermitInv

\* Steps that no semaphore takes part in.
LEMMA ApartStep ==
    ASSUME PermitInv, UNCHANGED <<semaphores, calls, checks>>, now' \in 1..(MaxTime + 1),
           \/ req' = req
           \/ \E r \in Requests : req[r].pc = "detached" /\ req' = [req EXCEPT ![r] = Idle]
    PROVE  PermitInv'
<1>1. req' \in [Requests -> Request]
  BY IdleHand DEF PermitInv, LiveTypes
<1>2. \A p \in Requests : \/ req'[p] = req[p]
                          \/ req[p].pc = "detached" /\ req'[p] = Idle
  BY DEF PermitInv, LiveTypes
<1>3. \A p \in Requests : req'[p].sem = req[p].sem
  BY <1>2, IdleHand DEF PermitInv, HandOK
<1>4. LiveTypes'
  BY <1>1 DEF PermitInv, LiveTypes
<1>5. \A p \in Requests : HandOK(req[p])'
  BY <1>2, IdleHand DEF PermitInv, HandOK
<1>6. \A i \in Ips : EntryOK(i)'
  BY <1>3 DEF PermitInv, EntryOK, Holders
<1>7. ASSUME NEW s \in Sems PROVE Cardinality(Permits(s)') <= MaxPerIp
  <2>1. Permits(s)' \subseteq Permits(s)
    BY <1>2, <1>3, IdleHand DEF Permits, Holders
  <2>2. QED
    BY <2>1, FewerPermits DEF PermitInv
<1>8. QED
  BY <1>4, <1>5, <1>6, <1>7 DEF PermitInv

\* Nobody holds anything: at the start and after a restart.
LEMMA EmptyHands ==
    ASSUME LiveTypes, \A r \in Requests : req[r] = Idle, \A i \in Ips : semaphores[i] = NoEntry
    PROVE  PermitInv
<1>1. \A s \in Sems : Permits(s) = {}
  BY IdleHand DEF Permits, Holders
<1>2. \A s \in Sems : Cardinality(Permits(s)) <= MaxPerIp
  BY <1>1, FS_EmptySet, LimiterConstants
<1>3. QED
  BY <1>2, IdleHand, SemFacts DEF PermitInv, HandOK, EntryOK

LEMMA InitPermitInv == Init => PermitInv
<1> SUFFICES ASSUME Init PROVE PermitInv
  OBVIOUS
<1>1. now \in 1..(MaxTime + 1) /\ checks \in 0..(CleanupEvery - 1) /\ calls \in 0..(SweepInterval - 1)
  BY LimiterConstants DEF Init
<1>2. LiveTypes
  BY <1>1, IdleHand DEF Init, LiveTypes
<1>3. QED
  BY <1>2, EmptyHands DEF Init

LEMMA RestartStep ==
    ASSUME PermitInv, Restart
    PROVE  PermitInv'
<1>1. /\ checks' = 0 /\ calls' = 0 /\ now' = now /\ semaphores' = [i \in Ips |-> NoEntry]
      /\ req' = [r \in Requests |-> Idle]
  BY DEF Restart
<1>2. checks' \in 0..(CleanupEvery - 1) /\ calls' \in 0..(SweepInterval - 1)
  BY <1>1, LimiterConstants
<1>3. LiveTypes'
  BY <1>1, <1>2, IdleHand DEF PermitInv, LiveTypes
<1>4. \A s \in Sems : Permits(s)' = {}
  BY <1>1, IdleHand DEF Permits, Holders
<1>5. \A s \in Sems : Cardinality(Permits(s)') <= MaxPerIp
  BY <1>4, FS_EmptySet, LimiterConstants
<1>6. (\A r \in Requests : HandOK(req[r])') /\ (\A i \in Ips : EntryOK(i)')
  BY <1>1, IdleHand, SemFacts DEF HandOK, EntryOK
<1>7. QED
  BY <1>3, <1>5, <1>6 DEF PermitInv

\* What the limiter, the backend and the handler do with a request in hand.
LEMMA HandledStep ==
    ASSUME PermitInv, NEW r \in Requests,
           Acquire(r) \/ TooMany(r) \/ Check(r) \/ CheckFails(r) \/ Detach(r) \/ Answer(r) \/ Timeout(r)
    PROVE  PermitInv'
<1>1. req[r] \in Request /\ checks \in 0..(CleanupEvery - 1)
  BY DEF PermitInv, LiveTypes
<1>2. CASE Acquire(r)
  <2>1. PICK c \in BOOLEAN : /\ req' = [req EXCEPT ![r].pc = "check", ![r].cleanup = c]
                             /\ checks' = checks \/ checks' = (checks + 1) % CleanupEvery
    BY <1>2 DEF Acquire, NextCheck
  <2>2. /\ req[r].pc = "asking" /\ Cardinality(Permits(req[r].sem)) < MaxPerIp
        /\ UNCHANGED <<now, semaphores, calls>>
    BY <1>2 DEF Acquire
  <2>3. checks' \in 0..(CleanupEvery - 1)
    BY <1>1, <2>1, LimiterConstants
  <2>4. PICK q \in Request : /\ req' = [req EXCEPT ![r] = q] /\ q.pc = "check"
                             /\ q.ip = req[r].ip /\ q.sem = req[r].sem
    <3> DEFINE n == [req[r] EXCEPT !.pc = "check", !.cleanup = c]
    <3>1. n \in Request /\ n.pc = "check" /\ n.ip = req[r].ip /\ n.sem = req[r].sem
      BY <1>1 DEF Request, Pcs
    <3>2. req' = [req EXCEPT ![r] = n]
      BY <2>1 DEF PermitInv, LiveTypes
    <3>3. QED
      BY <3>1, <3>2
  <2>5. QED
    BY <2>2, <2>3, <2>4, GoOnStep
<1>3. ASSUME req[r].pc \in {"asking", "check", "handler"}, Leave(r, Idle), UNCHANGED <<now, checks, calls>>
      PROVE  PermitInv'
  BY <1>3, IdleHand, LeaveStep
<1>4. ASSUME req[r].pc = "check", req' = [req EXCEPT ![r].pc = "handler", ![r].cleanup = FALSE],
             UNCHANGED <<now, checks, calls, semaphores>>
      PROVE  PermitInv'
  <2>1. PICK q \in Request : /\ req' = [req EXCEPT ![r] = q] /\ q.pc = "handler"
                             /\ q.ip = req[r].ip /\ q.sem = req[r].sem
    <3> DEFINE n == [req[r] EXCEPT !.pc = "handler", !.cleanup = FALSE]
    <3>1. n \in Request /\ n.pc = "handler" /\ n.ip = req[r].ip /\ n.sem = req[r].sem
      BY <1>1 DEF Request, Pcs
    <3>2. req' = [req EXCEPT ![r] = n]
      BY <1>4 DEF PermitInv, LiveTypes
    <3>3. QED
      BY <3>1, <3>2
  <2>2. QED
    BY <1>1, <1>4, <2>1, GoOnStep
<1>5. CASE TooMany(r) \/ Answer(r) \/ Timeout(r)
  BY <1>3, <1>5 DEF TooMany, Answer, Timeout
<1>6. CASE Check(r)
  BY <1>3, <1>4, <1>6 DEF Check
<1>7. CASE CheckFails(r)
  BY <1>3, <1>4, <1>7 DEF CheckFails
<1>8. CASE Detach(r)
  <2>1. req[r].pc = "check" /\ UNCHANGED <<now, checks, calls>>
    BY <1>8 DEF Detach
  <2>2. PICK q \in Request : Leave(r, q) /\ q.pc = "detached" /\ q.sem = NoEntry
    <3> DEFINE n == [req[r] EXCEPT !.pc = "detached", !.sem = NoEntry]
    <3>1. n \in Request /\ n.pc = "detached" /\ n.sem = NoEntry
      BY <1>1 DEF Request, Pcs
    <3>2. Leave(r, n)
      BY <1>8 DEF Detach
    <3>3. QED
      BY <3>1, <3>2
  <2>3. QED
    BY <2>1, <2>2, LeaveStep
<1>9. QED
  BY <1>2, <1>5, <1>6, <1>7, <1>8

LEMMA NextPermitInv ==
    ASSUME PermitInv, [Next]_vars
    PROVE  PermitInv'
<1>0. now \in 1..(MaxTime + 1)
  BY DEF PermitInv, LiveTypes
<1>1. CASE UNCHANGED vars \/ \E i \in Ips : KeyExpires(i)
  <2>1. UNCHANGED <<now, checks, semaphores, calls, req>>
    BY <1>1 DEF vars, KeyExpires
  <2>2. QED
    BY <1>0, <2>1, ApartStep
<1>2. CASE Tick
  <2>1. now' \in 1..(MaxTime + 1)
    BY <1>0, <1>2, LimiterConstants DEF Tick
  <2>2. QED
    BY <1>2, <2>1, ApartStep DEF Tick
<1>3. ASSUME NEW r \in Requests, Step(r) PROVE PermitInv'
  <2>1. CASE DetachedCheck(r)
    <3>1. req[r].pc = "detached" /\ req' = [req EXCEPT ![r] = Idle] /\ UNCHANGED <<now, checks, semaphores, calls>>
      BY <2>1 DEF DetachedCheck
    <3>2. QED
      BY <1>0, <3>1, ApartStep
  <2>2. QED
    BY <1>3, <2>1, ArriveStep, HandledStep DEF Step
<1>4. QED
  BY <1>1, <1>2, <1>3, RestartStep DEF Next

\* The invariant of the semaphores: who holds one has the map's, and the map
\* hands out no other for the same address meanwhile.
THEOREM PermitInvariance == Spec => []PermitInv
  BY InitPermitInv, NextPermitInv, PTL DEF Spec

\* Every row, counter, entry and request stays in its type.
THEOREM TypeCorrect == Spec => []TypeOK
<1>1. IInv /\ PermitInv => TypeOK
  BY DEF IInv, Types, PermitInv, LiveTypes, TypeOK
<1>2. QED
  BY <1>1, Invariance, PermitInvariance, PTL

\* No address ever has more requests executing than it may, for any number of
\* requests and addresses, wherever the sweep of the map, the drop of the last
\* reference and the arrival of the next request fall.
THEOREM ConcurrencyCeiling == Spec => []ConcurrencyBounded
<1>1. ASSUME PermitInv PROVE ConcurrencyBounded
  <2> SUFFICES ASSUME NEW i \in Ips
               PROVE  Cardinality({r \in Requests : req[r].ip = i /\ req[r].pc \in {"check", "handler"}})
                        <= MaxPerIp
    BY DEF ConcurrencyBounded
  <2> DEFINE S == {r \in Requests : req[r].ip = i /\ req[r].pc \in {"check", "handler"}}
  <2>1. CASE semaphores[i] \in Sems
    <3>1. S \in SUBSET Permits(semaphores[i])
      BY <1>1 DEF PermitInv, HandOK, Permits, Holders
    <3>2. Cardinality(Permits(semaphores[i])) <= MaxPerIp /\ Cardinality(Permits(semaphores[i])) \in Nat
          /\ IsFiniteSet(Permits(semaphores[i]))
      BY <1>1, <2>1, PermitsFinite DEF PermitInv
    <3> HIDE DEF S
    <3>3. IsFiniteSet(S) /\ Cardinality(S) <= Cardinality(Permits(semaphores[i]))
      BY <3>1, <3>2, FS_Subset, Zenon
    <3>4. Cardinality(S) \in Nat
      BY <3>3, FS_CardinalityType
    <3>5. Cardinality(S) <= MaxPerIp
      BY <3>2, <3>3, <3>4, LimiterConstants
    <3>6. QED
      BY <3>5 DEF S
  <2>2. CASE semaphores[i] \notin Sems
    <3>1. (S = {})
      BY <1>1, <2>2 DEF PermitInv, HandOK
    <3>2. QED
      BY <3>1, FS_EmptySet, LimiterConstants
  <2>3. QED
    BY <2>1, <2>2
<1>2. QED
  BY <1>1, PermitInvariance, PTL

=============================================================================
