--------------------------- MODULE Security_proofs ---------------------------
(***************************************************************************)
(* The two parts of src/security that count and that scan.                 *)
(*                                                                         *)
(* LoginThrottle: the failure counters keep their promise for every number *)
(* of attempts under way and every choice of limits and windows.  Neither  *)
(* bound is inductive.  What is, says of every key how much of its history *)
(* its entry still answers for: the failures from before the window of an  *)
(* open entry are few, the others are counted in it; a locked entry leaves *)
(* room for the attempts that were under way when it locked and for nobody *)
(* else.  Likewise of every account: the failures that its counter does    *)
(* not count were few, or were reported.                                   *)
(*                                                                         *)
(* Redact: what is shown of a text of any length is the text without its   *)
(* secrets and nothing less.  Neither half is inductive either.  What is,  *)
(* says of what was written so far that no continuation makes a secret of  *)
(* it: every value that a reader finds there is masked and does not take   *)
(* in what follows, no word goes on across the place the scanner is at,    *)
(* and no delimiter comes after a sensitive name that was left as it is.   *)
(***************************************************************************)
EXTENDS LoginThrottle, Redact, FiniteSetTheorems, SequenceTheorems, WellFoundedInduction, TLAPS

\* A history: in the order of time, and nothing in it older than w.
HistoryOK(s, n, w) ==
    /\ \A i \in 1..Len(s) : s[i] <= n /\ n - s[i] <= w
    /\ \A i, j \in 1..Len(s) : i <= j => s[i] <= s[j]

\* The first m failures of a history happened by time t.
By(s, m, t) == \A i \in 1..m : s[i] <= t

\* The keys whose lock an attempt has passed.
Held(q) ==
    IF q = Idle THEN {}
    ELSE (IF q.kind = "login" THEN {IpKey(q.ip)} ELSE {})
         \cup (IF q.pc = "verify" THEN {UserKey(q.kind, q.ip, q.user)} ELSE {})

UnderWay(k) == {r \in Requests : k \in Held(req[r])}

\* An entry, the failures of its key and the number of attempts under way on it.
OpenOK(a, s) ==
    /\ a.failures < MaxFailures
    /\ \E m \in 0..Len(s) :
        m <= LeftOver /\ By(s, m, a.started) /\ Len(s) - m <= a.failures

LockedOK(a, s, f) ==
    /\ Len(s) + f <= LeftOver + (MaxFailures - 1) + Cardinality(Requests)
    /\ \E m \in 0..Len(s) :
        By(s, m, a.until - Lockout) /\ Len(s) - m + f <= Cardinality(Requests) - 1

KeyOK(a, s, f) ==
    /\ a = NoAttempt => Len(s) <= LeftOver
    /\ a # NoAttempt /\ a.until = 0 => OpenOK(a, s)
    /\ a.until # 0 => LockedOK(a, s, f)

\* An account's counter, its failures and its last report.
Reported(s, m, al) == m >= AlertThreshold => al # 0 /\ By(s, m, al + AlertWindow)

CounterOK(a, s, al) ==
    /\ a.count >= AlertThreshold <=> a.alerted
    /\ a.alerted => al # 0 /\ al >= a.started
    /\ \E m \in 0..Len(s) :
        /\ By(s, m, a.started) /\ Len(s) - m <= a.count /\ Reported(s, m, al)
        /\ \A i \in (m + 1)..Len(s) : s[i] <= a.started + AlertWindow

AccountOK(a, s, al) ==
    /\ a = NoAccount => Reported(s, Len(s), al)
    /\ a # NoAccount => CounterOK(a, s, al)

KeysOK ==
    \A k \in Keys : /\ HistoryOK(tries[k], now, Window)
                    /\ KeyOK(entries[k], tries[k], Cardinality(UnderWay(k)))

AccountsOK ==
    \A u \in Users : /\ HistoryOK(misses[u], now, AlertWindow)
                     /\ accounts[u].started <= now /\ alerts[u] <= now
                     /\ AccountOK(accounts[u], misses[u], alerts[u])

\* Only a password attempt has a second lock to pass.
RequestsOK == \A r \in Requests : req[r].pc = "user" => req[r].kind = "login"

IInv == TypeOK /\ RequestsOK /\ KeysOK /\ AccountsOK

-----------------------------------------------------------------------------
(***************************************************************************)
(* The operators.                                                          *)
(***************************************************************************)

\* The constants, and the bounds built from them, are numbers.
LEMMA Constants ==
    /\ MaxFailures \in Nat /\ MaxFailures >= 1
    /\ Window \in Nat /\ Lockout \in Nat /\ Lockout > Window
    /\ PruneAfter \in Nat /\ PruneAfter >= Window
    /\ AlertWindow \in Nat /\ AlertThreshold \in Nat /\ AlertThreshold >= 1
    /\ MaxTime \in Nat /\ Cardinality(Requests) \in Nat
    /\ LeftOver \in Nat
    /\ LeftOver >= MaxFailures - 1 /\ LeftOver >= Cardinality(Requests) - 1
<1>1. Cardinality(Requests) \in Nat
  BY ThrottleConstants, FS_CardinalityType
<1>2. QED
  BY <1>1, ThrottleConstants DEF LeftOver

\* Arithmetic that several steps need.
LEMMA Sums == \A x, y, v, c \in Int : x <= y /\ y + v <= c => x + v <= c
OBVIOUS

LEMMA Further == \A x, y, z, v \in Nat : x <= y + v /\ z >= y => x <= z + v
OBVIOUS

LEMMA Elapsed == \A n, t, l, w \in Nat : t <= n /\ l > w => t - l \in Int /\ n - (t - l) > w
OBVIOUS

LEMMA TimesAreNumbers == Times \subseteq Nat \ {0}
BY Constants DEF Times

LEMMA NoAttemptOK == NoAttempt \in Attempt /\ NoAttempt.until = 0 /\ NoAttempt.failures = 0
BY Constants DEF NoAttempt, Attempt

\* The fields of an entry are numbers.
LEMMA AttemptFields ==
    ASSUME NEW a \in Attempt
    PROVE  a.failures \in Nat /\ a.started \in Nat /\ a.until \in Nat
BY Constants DEF Attempt

\* A window that begins now.
LEMMA FreshOK ==
    ASSUME now \in Times
    PROVE  /\ Fresh \in Attempt
           /\ Fresh.failures = 0 /\ Fresh.started = now /\ Fresh.until = 0
           /\ Fresh # NoAttempt
BY Constants DEF Fresh, Attempt, Times, NoAttempt

\* What the counting half of record_failure_at does to an entry.
LEMMA CountOK ==
    ASSUME now \in Times, NEW a \in Attempt, a.failures < MaxFailures
    PROVE  /\ Count(a) \in Attempt
           /\ Count(a).failures = a.failures + 1 /\ Count(a).started = a.started
           /\ Count(a).until = (IF a.failures + 1 >= MaxFailures THEN now + Lockout ELSE 0)
           /\ Count(a) # NoAttempt
<1>1. /\ Count(a).failures = a.failures + 1 /\ Count(a).started = a.started
      /\ Count(a).until = (IF a.failures + 1 >= MaxFailures THEN now + Lockout ELSE 0)
  BY DEF Count, Attempt
<1>2. a.failures \in Nat
  BY AttemptFields
<1>3. Count(a) # NoAttempt
  BY <1>1, <1>2, NoAttemptOK
<1>4. Count(a) \in Attempt
  <2> DEFINE v == IF a.failures + 1 >= MaxFailures THEN now + Lockout ELSE 0
  <2>1. v \in 0..(MaxTime + 1 + Lockout) /\ a.failures + 1 \in 0..MaxFailures
    BY Constants, <1>2 DEF Times
  <2>2. Count(a) = [a EXCEPT !.failures = a.failures + 1, !.until = v]
    BY DEF Count, Attempt
  <2> HIDE DEF v
  <2>3. QED
    BY <2>1, <2>2 DEF Attempt
<1>5. QED
  BY <1>1, <1>3, <1>4

\* A history that a failure happening now is put on.
LEMMA AppendHistory ==
    ASSUME now \in Times, NEW w \in Nat, NEW s \in Seq(Times), HistoryOK(s, now, w)
    PROVE  /\ Append(s, now) \in Seq(Times) /\ Len(Append(s, now)) = Len(s) + 1
           /\ HistoryOK(Append(s, now), now, w)
           /\ By(Append(s, now), Len(s) + 1, now)
           /\ \A m \in 0..Len(s), t \in Int : By(s, m, t) => By(Append(s, now), m, t)
<1>1. Len(s) \in Nat /\ Append(s, now) \in Seq(Times) /\ Len(Append(s, now)) = Len(s) + 1
  BY LenProperties, AppendProperties
<1>2. \A i \in 1..Len(s) : Append(s, now)[i] = s[i] /\ s[i] \in Times
  BY AppendProperties, ElementOfSeq
<1>3. Append(s, now)[Len(s) + 1] = now
  BY AppendProperties
<1>4. \A i \in 1..(Len(s) + 1) : i \in 1..Len(s) \/ i = Len(s) + 1
  BY <1>1
<1>5. HistoryOK(Append(s, now), now, w)
  <2>1. \A i \in 1..(Len(s) + 1) : Append(s, now)[i] <= now /\ now - Append(s, now)[i] <= w
    BY <1>2, <1>3, <1>4, TimesAreNumbers DEF HistoryOK
  <2>2. \A i, j \in 1..(Len(s) + 1) : i <= j => Append(s, now)[i] <= Append(s, now)[j]
    <3> SUFFICES ASSUME NEW i \in 1..(Len(s) + 1), NEW j \in 1..(Len(s) + 1), i <= j
                 PROVE  Append(s, now)[i] <= Append(s, now)[j]
      OBVIOUS
    <3>1. CASE j = Len(s) + 1
      BY <3>1, <2>1, <1>3
    <3>2. CASE j \in 1..Len(s)
      <4>1. i \in 1..Len(s)
        BY <3>2, <1>1
      <4>2. QED
        BY <3>2, <4>1, <1>2 DEF HistoryOK
    <3>3. QED
      BY <3>1, <3>2, <1>4
  <2>3. QED
    BY <2>1, <2>2, <1>1 DEF HistoryOK
<1>6. By(Append(s, now), Len(s) + 1, now)
  BY <1>2, <1>3, <1>4, TimesAreNumbers DEF HistoryOK, By
<1>7. \A m \in 0..Len(s), t \in Int : By(s, m, t) => By(Append(s, now), m, t)
  BY <1>1, <1>2 DEF By
<1>8. QED
  BY <1>1, <1>5, <1>6, <1>7

\* The failures of a history happened by now, and those that happened by t are
\* none if t is out of sight.
LEMMA HistoryFacts ==
    ASSUME now \in Times, NEW w \in Nat, NEW s \in Seq(Times), HistoryOK(s, now, w)
    PROVE  /\ Len(s) \in Nat /\ \A i \in 1..Len(s) : s[i] \in Nat /\ s[i] <= now /\ now - s[i] <= w
           /\ By(s, Len(s), now)
           /\ \A m \in 0..Len(s), t \in Int : By(s, m, t) /\ now - t > w => m = 0
<1>1. Len(s) \in Nat /\ \A i \in 1..Len(s) : s[i] \in Nat /\ s[i] <= now /\ now - s[i] <= w
  BY LenProperties, ElementOfSeq, TimesAreNumbers DEF HistoryOK
<1>2. By(s, Len(s), now)
  BY <1>1 DEF By
<1>3. \A m \in 0..Len(s), t \in Int : By(s, m, t) /\ now - t > w => m = 0
  <2> SUFFICES ASSUME NEW m \in 0..Len(s), NEW t \in Int, By(s, m, t), now - t > w, m # 0
               PROVE  FALSE
    OBVIOUS
  <2>1. 1 \in 1..m /\ 1 \in 1..Len(s)
    BY <1>1
  <2>2. s[1] <= t /\ s[1] \in Nat /\ now - s[1] <= w
    BY <2>1, <1>1 DEF By
  <2>3. QED
    BY <2>2, TimesAreNumbers
<1>4. QED
  BY <1>1, <1>2, <1>3

\* The d oldest of a history gone from its head.
LEMMA WithoutHead ==
    ASSUME NEW s \in Seq(Times), NEW d \in 0..Len(s), NEW q, q = SubSeq(s, d + 1, Len(s))
    PROVE  /\ q \in Seq(Times) /\ Len(q) = Len(s) - d
           /\ \A i \in 1..(Len(s) - d) : q[i] = s[d + i] /\ d + i \in 1..Len(s)
<1>1. Len(s) \in Nat /\ \A i \in 1..Len(s) : s[i] \in Times
  BY LenProperties, ElementOfSeq
<1>2. PICK n : n = Len(s)
  OBVIOUS
<1>3. PICK m : m = d + 1
  OBVIOUS
<1>4. m \in Int /\ n \in Int /\ \A i \in m..n : s[i] \in Times
  BY <1>1, <1>2, <1>3
<1>5. /\ SubSeq(s, m, n) \in Seq(Times)
      /\ Len(SubSeq(s, m, n)) = IF m <= n THEN n - m + 1 ELSE 0
      /\ \A i \in 1..(n - m + 1) : SubSeq(s, m, n)[i] = s[m + i - 1]
  <2>1. SubSeq(s, m, n) \in Seq(Times)
    BY <1>4, SubSeqProperties
  <2>2. Len(SubSeq(s, m, n)) = IF m <= n THEN n - m + 1 ELSE 0
    BY <1>4, SubSeqProperties
  <2>3. \A i \in 1..(n - m + 1) : SubSeq(s, m, n)[i] = s[m + i - 1]
    BY <1>4, SubSeqProperties
  <2>4. QED
    BY <2>1, <2>2, <2>3
<1>6. q = SubSeq(s, m, n)
  BY <1>2, <1>3
<1>7. Len(q) = Len(s) - d
  BY <1>1, <1>2, <1>3, <1>5, <1>6
<1>8. \A i \in 1..(Len(s) - d) : m + i - 1 = d + i /\ i \in 1..(n - m + 1) /\ d + i \in 1..Len(s)
  BY <1>1, <1>2, <1>3
<1>9. \A i \in 1..(n - m + 1) : q[i] = s[m + i - 1]
  BY <1>5, <1>6
<1>10. \A i \in 1..(Len(s) - d) : q[i] = s[d + i]
  BY <1>8, <1>9
<1>11. QED
  BY <1>5, <1>6, <1>7, <1>8, <1>10

\* What Recent leaves of a history: what it lets go is the head, the d oldest.
LEMMA RecentOK ==
    ASSUME now \in Times, now <= MaxTime, NEW w \in Nat, NEW s \in Seq(Times), HistoryOK(s, now, w)
    PROVE  /\ Recent(s, w) \in Seq(Times) /\ HistoryOK(Recent(s, w), now + 1, w)
           /\ \E d \in 0..Len(s) :
                /\ Len(Recent(s, w)) = Len(s) - d
                /\ \A i \in 1..(Len(s) - d) : Recent(s, w)[i] = s[d + i]
<1>1. Len(s) \in Nat /\ DOMAIN s = 1..Len(s)
  BY LenProperties
<1>2. \A i \in 1..Len(s) : s[i] \in Nat /\ s[i] <= now /\ now - s[i] <= w
  BY HistoryFacts
<1>3. PICK O : O = Outdated(s, w)
  OBVIOUS
<1>4. PICK d : d = Cardinality(O)
  OBVIOUS
<1>5. PICK q : q = Recent(s, w)
  OBVIOUS
<1>6. O \in SUBSET (1..Len(s)) /\ \A i \in 1..Len(s) : i \in O <=> now + 1 - s[i] > w
  BY <1>1, <1>3 DEF Outdated
<1>7. IsFiniteSet(1..Len(s)) /\ Cardinality(1..Len(s)) = Len(s)
  <2>1. 1 \in Int /\ Len(s) \in Int
    BY <1>1
  <2>2. IsFiniteSet(1..Len(s)) /\ Cardinality(1..Len(s)) = IF 1 > Len(s) THEN 0 ELSE Len(s) - 1 + 1
    BY <2>1, FS_Interval, Zenon
  <2>3. QED
    BY <1>1, <2>2
<1>8. IsFiniteSet(O) /\ Cardinality(O) <= Cardinality(1..Len(s))
  BY <1>6, <1>7, FS_Subset, Zenon
<1>9. d \in 0..Len(s)
  <2>1. Cardinality(O) \in Nat
    BY <1>8, FS_CardinalityType, Zenon
  <2>2. QED
    BY <1>1, <1>4, <1>7, <1>8, <2>1
<1>10. \A i \in 1..Len(s) : now + 1 - s[i] > w => i <= d
  <2> SUFFICES ASSUME NEW i \in 1..Len(s), now + 1 - s[i] > w
               PROVE  i <= d
    OBVIOUS
  <2>1. \A j \in 1..i : j \in O
    <3> TAKE j \in 1..i
    <3>1. j \in 1..Len(s) /\ s[j] <= s[i]
      BY <1>1 DEF HistoryOK
    <3>2. s[i] \in Nat /\ s[j] \in Nat /\ now \in Nat
      BY <3>1, <1>2, TimesAreNumbers
    <3>3. now + 1 - s[j] > w
      BY <3>1, <3>2
    <3>4. QED
      BY <3>1, <3>3, <1>6
  <2>2. (1..i) \in SUBSET O
    BY <2>1
  <2>3. Cardinality(1..i) <= Cardinality(O)
    BY <2>2, <1>8, FS_Subset, Zenon
  <2>4. 1 \in Int /\ i \in Int
    BY <1>1
  <2>5. Cardinality(1..i) = IF 1 > i THEN 0 ELSE i - 1 + 1
    BY <2>4, FS_Interval, Zenon
  <2>6. QED
    BY <1>4, <2>3, <2>4, <2>5
<1>11. /\ q \in Seq(Times) /\ Len(q) = Len(s) - d
       /\ \A i \in 1..(Len(s) - d) : q[i] = s[d + i] /\ d + i \in 1..Len(s)
  <2>1. q = SubSeq(s, d + 1, Len(s))
    BY <1>3, <1>4, <1>5 DEF Recent
  <2>2. QED
    BY <1>9, <2>1, WithoutHead
<1>12. PICK n : n = now + 1
  OBVIOUS
<1>13. \A i \in 1..Len(q) : q[i] <= n /\ n - q[i] <= w
  <2> TAKE i \in 1..Len(q)
  <2>1. q[i] = s[d + i] /\ d + i \in 1..Len(s) /\ ~(d + i <= d)
    BY <1>1, <1>9, <1>11
  <2>2. q[i] \in Nat /\ q[i] <= now /\ ~(now + 1 - q[i] > w)
    BY <2>1, <1>2, <1>10
  <2>3. now \in Nat
    BY TimesAreNumbers
  <2>4. QED
    BY <2>2, <2>3, <1>12
<1>14. \A i, j \in 1..Len(q) : i <= j => q[i] <= q[j]
  <2> TAKE i, j \in 1..Len(q)
  <2> HAVE i <= j
  <2>1. /\ q[i] = s[d + i] /\ d + i \in 1..Len(s) /\ q[j] = s[d + j] /\ d + j \in 1..Len(s)
        /\ d + i <= d + j
    BY <1>1, <1>9, <1>11
  <2>2. QED
    BY <2>1 DEF HistoryOK
<1>15. HistoryOK(q, n, w)
  BY <1>13, <1>14, Zenon DEF HistoryOK
<1>16. QED
  BY <1>5, <1>9, <1>11, <1>12, <1>15

\* What remains of the first m of a history when its d oldest are gone.
LEMMA RestBy ==
    ASSUME NEW s \in Seq(Times), NEW q \in Seq(Times), NEW d \in 0..Len(s),
           Len(q) = Len(s) - d, \A i \in 1..(Len(s) - d) : q[i] = s[d + i],
           NEW m \in 0..Len(s)
    PROVE  \E p \in 0..Len(q) :
               /\ p <= m /\ Len(q) - p <= Len(s) - m
               /\ \A t \in Int : By(s, m, t) => By(q, p, t)
               /\ \A i \in (p + 1)..Len(q) : d + i \in (m + 1)..Len(s) /\ q[i] = s[d + i]
<1>1. Len(s) \in Nat /\ Len(q) \in Nat
  BY LenProperties
<1> DEFINE p == IF m >= d THEN m - d ELSE 0
<1>2. p \in 0..Len(q) /\ p <= m /\ Len(q) - p <= Len(s) - m
  BY <1>1
<1>3. \A t \in Int : By(s, m, t) => By(q, p, t)
  <2>1. \A i \in 1..p : i \in 1..(Len(s) - d) /\ d + i \in 1..m
    BY <1>1
  <2>2. QED
    BY <2>1 DEF By
<1>4. \A i \in (p + 1)..Len(q) : d + i \in (m + 1)..Len(s) /\ q[i] = s[d + i]
  <2>1. \A i \in (p + 1)..Len(q) : d + i \in (m + 1)..Len(s) /\ i \in 1..(Len(s) - d)
    BY <1>1
  <2>2. QED
    BY <2>1
<1>5. QED
  BY <1>2, <1>3, <1>4

-----------------------------------------------------------------------------
(***************************************************************************)
(* One key.                                                                *)
(***************************************************************************)

\* What is true of a key stays true when fewer attempts are under way on it; an
\* entry that is not locked says nothing of them.
LEMMA KeyFewer ==
    ASSUME NEW a \in Attempt, NEW s \in Seq(Times), NEW f \in Nat, NEW g \in Nat,
           KeyOK(a, s, f), g <= f \/ a.until = 0
    PROVE  KeyOK(a, s, g)
<1>1. CASE a.until = 0
  BY <1>1 DEF KeyOK
<1>2. CASE a.until # 0
  <2>1. g <= f /\ LockedOK(a, s, f) /\ a # NoAttempt
    BY <1>2, NoAttemptOK DEF KeyOK
  <2>2. Len(s) \in Nat
    BY LenProperties
  <2>3. Len(s) + g <= LeftOver + (MaxFailures - 1) + Cardinality(Requests)
    BY <2>1, <2>2, Constants DEF LockedOK
  <2>4. PICK m \in 0..Len(s) :
          By(s, m, a.until - Lockout) /\ Len(s) - m + f <= Cardinality(Requests) - 1
    BY <2>1 DEF LockedOK
  <2>5. Len(s) - m + g <= Cardinality(Requests) - 1
    BY <2>1, <2>2, <2>4, Constants
  <2>6. LockedOK(a, s, g)
    BY <2>3, <2>4, <2>5 DEF LockedOK
  <2>7. QED
    BY <1>2, <2>1, <2>6 DEF KeyOK
<1>3. QED
  BY <1>1, <1>2

\* When a lock has ended, what is left in sight is what failed under it.
LEMMA LockEnded ==
    ASSUME now \in Times, NEW a \in Attempt, NEW s \in Seq(Times), NEW f \in Nat,
           HistoryOK(s, now, Window), KeyOK(a, s, f), a.until # 0, a.until <= now
    PROVE  Len(s) <= LeftOver
<1>1. PICK m \in 0..Len(s) :
        By(s, m, a.until - Lockout) /\ Len(s) - m + f <= Cardinality(Requests) - 1
  BY DEF KeyOK, LockedOK
<1>2. a.until - Lockout \in Int /\ now - (a.until - Lockout) > Window
  <2>1. a.until \in Nat /\ now \in Nat /\ Lockout \in Nat /\ Window \in Nat /\ Lockout > Window
    BY AttemptFields, TimesAreNumbers, Constants
  <2>2. QED
    BY <2>1, Elapsed, Zenon
<1>3. m = 0
  BY <1>1, <1>2, Constants, HistoryFacts
<1>4. QED
  BY <1>1, <1>3, Constants, LenProperties

\* When a window has elapsed, what is left in sight is what it counted.
LEMMA WindowEnded ==
    ASSUME now \in Times, NEW a \in Attempt, NEW s \in Seq(Times),
           HistoryOK(s, now, Window), OpenOK(a, s), now - a.started > Window
    PROVE  Len(s) <= LeftOver
<1>1. PICK m \in 0..Len(s) : By(s, m, a.started) /\ Len(s) - m <= a.failures
  BY DEF OpenOK
<1>2. a.started \in Int
  BY AttemptFields
<1>3. m = 0
  BY <1>1, <1>2, Constants, HistoryFacts
<1>4. a.failures \in Nat /\ a.failures < MaxFailures /\ Len(s) \in Nat
  BY AttemptFields, LenProperties DEF OpenOK
<1>5. QED
  BY <1>1, <1>3, <1>4, Constants

\* An entry that is not there, or a window that begins now, answers for few failures.
LEMMA NoEntry ==
    ASSUME NEW s, NEW f, Len(s) <= LeftOver
    PROVE  KeyOK(NoAttempt, s, f)
BY NoAttemptOK DEF KeyOK

\* prune, and the drop of an elapsed lockout in locked_for_at.
LEMMA PrunedOK ==
    ASSUME now \in Times, NEW a \in Attempt, NEW s \in Seq(Times), NEW f \in Nat,
           HistoryOK(s, now, Window), KeyOK(a, s, f)
    PROVE  /\ Pruned(a) \in Attempt /\ KeyOK(Pruned(a), s, f)
           /\ Pruned(a).until = 0 \/ Pruned(a).until > now
           /\ Pruned(a).until > now => Pruned(a) = a
           /\ a.until > now => Pruned(a) = a
<1>0. a.until \in Nat /\ a.started \in Nat /\ now \in Nat /\ now > 0
  BY AttemptFields, TimesAreNumbers
<1>1. CASE Pruned(a) = a /\ (a.until = 0 \/ a.until > now)
  BY <1>1
<1>2. CASE Pruned(a) = NoAttempt /\ a.until # 0 /\ a.until <= now
  <2>1. Len(s) <= LeftOver
    BY <1>2, LockEnded
  <2>2. QED
    BY <1>2, <1>0, <2>1, NoEntry, NoAttemptOK
<1>3. CASE Pruned(a) = NoAttempt /\ a.until = 0 /\ now - a.started > PruneAfter
  <2>1. Len(s) <= LeftOver
    <3>1. CASE a = NoAttempt
      BY <3>1 DEF KeyOK
    <3>2. CASE a # NoAttempt
      <4>1. OpenOK(a, s) /\ now - a.started > Window
        BY <3>2, <1>3, <1>0, Constants DEF KeyOK
      <4>2. QED
        BY <4>1, WindowEnded
    <3>3. QED
      BY <3>1, <3>2
  <2>2. QED
    BY <1>3, <1>0, <2>1, NoEntry, NoAttemptOK
<1>4. \/ Pruned(a) = a /\ (a.until = 0 \/ a.until > now)
      \/ Pruned(a) = NoAttempt /\ a.until # 0 /\ a.until <= now
      \/ Pruned(a) = NoAttempt /\ a.until = 0 /\ now - a.started > PruneAfter
  BY <1>0, Constants DEF Pruned
<1>5. QED
  BY <1>1, <1>2, <1>3, <1>4

\* The counting half of record_failure_at, on an entry that is not locked: the
\* attempt that fails is one of those under way.
LEMMA CountKey ==
    ASSUME now \in Times, NEW a \in Attempt, NEW s \in Seq(Times), NEW g \in Nat,
           HistoryOK(s, now, Window), OpenOK(a, s), g <= Cardinality(Requests) - 1
    PROVE  Count(a) \in Attempt /\ KeyOK(Count(a), Append(s, now), g)
<1> DEFINE q == Append(s, now)
<1>1. /\ a.failures \in Nat /\ a.failures < MaxFailures /\ a.started \in Int
      /\ now \in Nat /\ now > 0 /\ Len(s) \in Nat
  BY AttemptFields, TimesAreNumbers, LenProperties DEF OpenOK
<1>2. /\ Count(a) \in Attempt /\ Count(a) # NoAttempt
      /\ Count(a).failures = a.failures + 1 /\ Count(a).started = a.started
      /\ Count(a).until = (IF a.failures + 1 >= MaxFailures THEN now + Lockout ELSE 0)
  BY <1>1, CountOK
<1>3. /\ q \in Seq(Times) /\ Len(q) = Len(s) + 1 /\ By(q, Len(s) + 1, now)
      /\ \A m \in 0..Len(s), t \in Int : By(s, m, t) => By(q, m, t)
  BY Constants, AppendHistory
<1> HIDE DEF q
<1>4. PICK m \in 0..Len(s) : m <= LeftOver /\ By(s, m, a.started) /\ Len(s) - m <= a.failures
  BY DEF OpenOK
<1>5. CASE a.failures + 1 < MaxFailures
  <2>1. Count(a).until = 0
    BY <1>2, <1>5, <1>1, Constants
  <2>2. m \in 0..Len(q) /\ Len(q) - m <= Count(a).failures
    BY <1>1, <1>2, <1>3, <1>4
  <2>3. By(q, m, Count(a).started)
    BY <1>1, <1>2, <1>3, <1>4
  <2>4. OpenOK(Count(a), q)
    BY <2>2, <2>3, <1>2, <1>4, <1>5 DEF OpenOK
  <2>5. QED
    BY <1>2, <2>1, <2>4 DEF KeyOK, q
<1>6. CASE a.failures + 1 >= MaxFailures
  <2>1. Count(a).until = now + Lockout /\ Count(a).until # 0 /\ Count(a).until - Lockout = now
    BY <1>2, <1>6, <1>1, Constants
  <2>2. Len(q) + g <= LeftOver + (MaxFailures - 1) + Cardinality(Requests)
    <3>1. m \in Nat /\ m <= LeftOver /\ Len(s) - m <= a.failures
      BY <1>1, <1>4
    <3>2. Len(s) <= LeftOver + (MaxFailures - 1)
      BY <1>1, <3>1, Constants
    <3>3. QED
      BY <1>1, <1>3, <3>2, Constants
  <2>3. Len(q) \in 0..Len(q) /\ Len(q) - Len(q) + g <= Cardinality(Requests) - 1
    BY <1>1, <1>3, Constants
  <2>4. By(q, Len(q), Count(a).until - Lockout)
    BY <2>1, <1>3
  <2>5. LockedOK(Count(a), q, g)
    BY <2>2, <2>3, <2>4 DEF LockedOK
  <2>6. QED
    BY <1>2, <2>1, <2>5 DEF KeyOK, q
<1>7. QED
  BY <1>1, <1>5, <1>6, Constants

\* record_failure_at, after prune.
LEMMA FailedOK ==
    ASSUME now \in Times, NEW a \in Attempt, NEW s \in Seq(Times), NEW f \in Nat, NEW g \in Nat,
           HistoryOK(s, now, Window), KeyOK(a, s, f), a.until = 0 \/ a.until > now,
           g = f - 1, f <= Cardinality(Requests)
    PROVE  /\ Failed(a) \in Attempt /\ KeyOK(Failed(a), Append(s, now), g)
           /\ a.until > now => Failed(a) = a
<1>0. a.until \in Nat /\ now \in Nat /\ now > 0 /\ a.started \in Nat
  BY AttemptFields, TimesAreNumbers
<1>1. g <= Cardinality(Requests) - 1
  BY Constants
<1>2. CASE a.until > now
  <2> DEFINE q == Append(s, now)
  <2>1. Failed(a) = a /\ a.until # 0 /\ a # NoAttempt /\ LockedOK(a, s, f)
    BY <1>0, <1>2, NoAttemptOK DEF Failed, KeyOK
  <2>2. /\ q \in Seq(Times) /\ Len(q) = Len(s) + 1 /\ Len(s) \in Nat
        /\ \A m \in 0..Len(s), t \in Int : By(s, m, t) => By(q, m, t)
    BY Constants, AppendHistory, LenProperties
  <2> HIDE DEF q
  <2>3. PICK m \in 0..Len(s) :
          By(s, m, a.until - Lockout) /\ Len(s) - m + f <= Cardinality(Requests) - 1
    BY <2>1 DEF LockedOK
  <2>4. Len(q) + g <= LeftOver + (MaxFailures - 1) + Cardinality(Requests)
    BY <2>1, <2>2, Constants DEF LockedOK
  <2>5. m \in 0..Len(q) /\ Len(q) - m + g <= Cardinality(Requests) - 1
    BY <2>2, <2>3, Constants
  <2>6. a.until - Lockout \in Int
    BY <1>0, Constants
  <2>7. By(q, m, a.until - Lockout)
    BY <2>2, <2>3, <2>6
  <2>8. LockedOK(a, q, g)
    BY <2>4, <2>5, <2>7 DEF LockedOK
  <2>9. QED
    BY <2>1, <2>8 DEF KeyOK, q
<1>3. CASE a.until = 0 /\ (a = NoAttempt \/ now - a.started > Window)
  <2>1. Failed(a) = Count(Fresh)
    BY <1>0, <1>3 DEF Failed
  <2>2. Len(s) <= LeftOver
    <3>1. CASE a = NoAttempt
      BY <3>1 DEF KeyOK
    <3>2. CASE a # NoAttempt
      BY <3>2, <1>3, WindowEnded DEF KeyOK
    <3>3. QED
      BY <3>1, <3>2
  <2>3. /\ Fresh \in Attempt /\ Fresh.failures = 0 /\ Fresh.started = now
        /\ Len(s) \in Nat /\ By(s, Len(s), now)
    BY FreshOK, HistoryFacts, Constants
  <2>4. Len(s) \in 0..Len(s) /\ Len(s) - Len(s) <= Fresh.failures /\ Fresh.failures < MaxFailures
    BY <2>3, Constants
  <2>5. OpenOK(Fresh, s)
    BY <2>2, <2>3, <2>4 DEF OpenOK
  <2>6. QED
    BY <1>0, <1>1, <1>3, <2>1, <2>3, <2>5, CountKey
<1>4. CASE a.until = 0 /\ a # NoAttempt /\ ~(now - a.started > Window)
  <2>1. Failed(a) = Count(a) /\ OpenOK(a, s)
    BY <1>0, <1>4 DEF Failed, KeyOK
  <2>2. QED
    BY <1>0, <1>1, <1>4, <2>1, CountKey
<1>5. QED
  BY <1>2, <1>3, <1>4

\* The clock moves: a key answers for what is left of its history.
LEMMA TickKey ==
    ASSUME NEW a \in Attempt, NEW s \in Seq(Times), NEW q \in Seq(Times), NEW f \in Nat, NEW d \in 0..Len(s),
           Len(q) = Len(s) - d, \A i \in 1..(Len(s) - d) : q[i] = s[d + i],
           KeyOK(a, s, f)
    PROVE  KeyOK(a, q, f)
<1>0. Len(s) \in Nat /\ Len(q) \in Nat /\ Len(q) <= Len(s)
  BY LenProperties
<1>1. a.until - Lockout \in Int /\ a.started \in Int /\ a.failures \in Nat
  BY AttemptFields, Constants
<1>2. ASSUME a = NoAttempt
      PROVE  Len(q) <= LeftOver
  BY <1>2, <1>0, Constants DEF KeyOK
<1>3. ASSUME a # NoAttempt, a.until = 0
      PROVE  OpenOK(a, q)
  <2>1. OpenOK(a, s)
    BY <1>3 DEF KeyOK
  <2>2. PICK m \in 0..Len(s) : m <= LeftOver /\ By(s, m, a.started) /\ Len(s) - m <= a.failures
    BY <2>1 DEF OpenOK
  <2>3. PICK p \in 0..Len(q) : p <= m /\ Len(q) - p <= Len(s) - m
                               /\ \A t \in Int : By(s, m, t) => By(q, p, t)
    BY RestBy
  <2>4. By(q, p, a.started)
    BY <2>2, <2>3, <1>1, Zenon
  <2>5. p <= LeftOver /\ Len(q) - p <= a.failures
    <3>1. m \in Nat /\ p \in Nat /\ p <= m /\ Len(q) - p <= Len(s) - m
      BY <2>3, <1>0
    <3>2. m <= LeftOver /\ Len(s) - m <= a.failures
      BY <2>2
    <3>3. LeftOver \in Nat
      BY Constants
    <3>4. \A x, y, z \in Nat : x <= y /\ y <= z => x <= z
      OBVIOUS
    <3>5. \A w, x, y, z, v \in Nat : w - x <= y - z /\ y - z <= v => w - x <= v
      OBVIOUS
    <3>6. QED
      BY <3>1, <3>2, <3>3, <3>4, <3>5, <1>0, <1>1, Zenon
  <2>6. QED
    BY <2>1, <2>4, <2>5 DEF OpenOK
<1>4. ASSUME a.until # 0
      PROVE  LockedOK(a, q, f)
  <2>1. LockedOK(a, s, f)
    BY <1>4 DEF KeyOK
  <2>2. PICK m \in 0..Len(s) :
          By(s, m, a.until - Lockout) /\ Len(s) - m + f <= Cardinality(Requests) - 1
    BY <2>1 DEF LockedOK
  <2>3. PICK p \in 0..Len(q) : p <= m /\ Len(q) - p <= Len(s) - m
                               /\ \A t \in Int : By(s, m, t) => By(q, p, t)
    BY RestBy
  <2>4. By(q, p, a.until - Lockout)
    BY <2>2, <2>3, <1>1, Zenon
  <2>5. Len(q) - p + f <= Cardinality(Requests) - 1
    <3>1. /\ Len(q) - p \in Int /\ Len(s) - m \in Int /\ f \in Int
          /\ Cardinality(Requests) - 1 \in Int
      BY <1>0, Constants
    <3>2. Len(q) - p <= Len(s) - m /\ Len(s) - m + f <= Cardinality(Requests) - 1
      BY <2>2, <2>3
    <3>3. QED
      BY <3>1, <3>2, Sums, Zenon
  <2>6. Len(q) + f <= LeftOver + (MaxFailures - 1) + Cardinality(Requests)
    <3>1. /\ Len(q) \in Int /\ Len(s) \in Int /\ f \in Int
          /\ LeftOver + (MaxFailures - 1) + Cardinality(Requests) \in Int
      BY <1>0, Constants
    <3>2. Len(s) + f <= LeftOver + (MaxFailures - 1) + Cardinality(Requests)
      BY <2>1, Zenon DEF LockedOK
    <3>3. QED
      BY <1>0, <3>1, <3>2, Sums, Zenon
  <2>7. QED
    BY <2>4, <2>5, <2>6 DEF LockedOK
<1>5. QED
  BY <1>2, <1>3, <1>4 DEF KeyOK

-----------------------------------------------------------------------------
(***************************************************************************)
(* One account.                                                            *)
(***************************************************************************)

LEMMA NoAccountOK ==
    NoAccount \in Account /\ NoAccount.started = 0 /\ NoAccount.count = 0 /\ NoAccount.alerted = FALSE
BY Constants DEF NoAccount, Account

LEMMA AccountFields ==
    ASSUME NEW a \in Account
    PROVE  a.count \in Nat /\ a.started \in Nat /\ a.started <= MaxTime + 1 /\ a.alerted \in BOOLEAN
BY Constants DEF Account

\* A later report answers for at least as much.
LEMMA ReportedLater ==
    ASSUME now \in Times, NEW w \in Nat, NEW s \in Seq(Times), HistoryOK(s, now, w), NEW m \in 0..Len(s),
           NEW al \in Nat, NEW l \in Nat, al <= l, Reported(s, m, al)
    PROVE  Reported(s, m, l)
<1>1. Len(s) \in Nat /\ \A i \in 1..Len(s) : s[i] \in Nat
  BY HistoryFacts
<1>2. SUFFICES ASSUME m >= AlertThreshold
               PROVE  l # 0 /\ By(s, m, l + AlertWindow)
  BY DEF Reported
<1>3. al # 0 /\ \A i \in 1..m : s[i] <= al + AlertWindow
  BY <1>2 DEF Reported, By
<1>4. l # 0 /\ \A i \in 1..m : s[i] <= l + AlertWindow
  <2>1. l # 0
    BY <1>3
  <2>2. AlertWindow \in Nat
    BY Constants
  <2>3. \A i \in 1..m : s[i] \in Nat
    BY <1>1
  <2>4. l >= al
    OBVIOUS
  <2>5. QED
    BY <1>3, <2>1, <2>2, <2>3, <2>4, Further, Zenon
<1>5. QED
  BY <1>4 DEF By

\* When a counter has elapsed, what is left in sight was counted in it: it is
\* below the threshold, or it was reported.
LEMMA CounterEnded ==
    ASSUME now \in Times, NEW a \in Account, NEW s \in Seq(Times), NEW al \in Nat,
           HistoryOK(s, now, AlertWindow), AccountOK(a, s, al), now - a.started > AlertWindow
    PROVE  Reported(s, Len(s), al)
<1>1. CASE a = NoAccount
  BY <1>1 DEF AccountOK
<1>2. CASE a # NoAccount
  <2>0. Len(s) \in Nat /\ \A i \in 1..Len(s) : s[i] \in Nat
    BY HistoryFacts, Constants
  <2>1. CounterOK(a, s, al)
    BY <1>2 DEF AccountOK
  <2>2. PICK m \in 0..Len(s) :
          /\ By(s, m, a.started) /\ Len(s) - m <= a.count /\ Reported(s, m, al)
          /\ \A i \in (m + 1)..Len(s) : s[i] <= a.started + AlertWindow
    BY <2>1 DEF CounterOK
  <2>3. a.started \in Int /\ a.count \in Nat /\ a.started \in Nat
    BY AccountFields
  <2>4. m = 0
    BY <2>2, <2>3, Constants, HistoryFacts
  <2>5. SUFFICES ASSUME Len(s) >= AlertThreshold
                 PROVE  al # 0 /\ By(s, Len(s), al + AlertWindow)
    BY DEF Reported
  <2>6. a.count >= AlertThreshold
    BY <2>0, <2>2, <2>3, <2>4, <2>5, Constants
  <2>7. al # 0 /\ al >= a.started
    BY <2>1, <2>6, Zenon DEF CounterOK
  <2>8. \A i \in 1..Len(s) : s[i] <= a.started + AlertWindow
    BY <2>0, <2>2, <2>4
  <2>9. \A i \in 1..Len(s) : s[i] <= al + AlertWindow
    <3>1. AlertWindow \in Nat
      BY Constants
    <3>2. QED
      BY <2>0, <2>3, <2>7, <2>8, <3>1, Further, Zenon
  <2>10. QED
    BY <2>7, <2>9 DEF By
<1>3. QED
  BY <1>1, <1>2

\* The clean-up of note_failure_at.
Kept(a) == IF now - a.started <= AlertWindow THEN a ELSE NoAccount

LEMMA KeptOK ==
    ASSUME now \in Times, NEW a \in Account, NEW s \in Seq(Times), NEW al \in Nat,
           HistoryOK(s, now, AlertWindow), AccountOK(a, s, al), a.started <= now
    PROVE  Kept(a) \in Account /\ AccountOK(Kept(a), s, al) /\ Kept(a).started <= now
<1>1. CASE now - a.started <= AlertWindow
  BY <1>1 DEF Kept
<1>2. CASE ~(now - a.started <= AlertWindow)
  <2>1. now - a.started > AlertWindow /\ now \in Nat
    BY <1>2, AccountFields, TimesAreNumbers, Constants
  <2>2. Reported(s, Len(s), al)
    BY <2>1, CounterEnded
  <2>3. Kept(a) = NoAccount
    BY <1>2 DEF Kept
  <2>4. QED
    BY <2>1, <2>2, <2>3, NoAccountOK DEF AccountOK
<1>3. QED
  BY <1>1, <1>2

\* The two updates that note_failure_at makes: a counter begins,
LEMMA AccountStarted ==
    ASSUME NEW a \in Account, NEW t \in 0..(MaxTime + 1), NEW b, b = [a EXCEPT !.started = t]
    PROVE  b \in Account /\ b.started = t /\ b.count = a.count /\ b.alerted = a.alerted
BY DEF Account

\* and counts.
LEMMA CountedOn ==
    ASSUME NEW a \in Account, NEW b,
           b = [a EXCEPT !.count = @ + 1, !.alerted = @ \/ a.count + 1 >= AlertThreshold]
    PROVE  /\ b \in Account /\ b.started = a.started /\ b.count = a.count + 1
           /\ b.alerted = (a.alerted \/ a.count + 1 >= AlertThreshold)
<1>1. PICK v : v = (a.alerted \/ a.count + 1 >= AlertThreshold)
  OBVIOUS
<1>2. PICK c : c = a.count + 1
  OBVIOUS
<1>3. v \in BOOLEAN
  BY <1>1, Zenon
<1>4. c \in Nat
  BY <1>2, AccountFields
<1>5. b = [a EXCEPT !.count = c, !.alerted = v]
  BY <1>1, <1>2, Zenon
<1>6. b \in Account /\ b.started = a.started /\ b.count = c /\ b.alerted = v
  BY <1>3, <1>4, <1>5 DEF Account
<1>7. QED
  BY <1>1, <1>2, <1>6, Zenon

\* What note_failure_at does to a counter that is not there.
LEMMA NotedNew ==
    ASSUME now \in Times
    PROVE  /\ Noted(NoAccount) \in Account
           /\ Noted(NoAccount).started = now /\ Noted(NoAccount).count = 1
           /\ Noted(NoAccount).alerted <=> (1 >= AlertThreshold)
<1>1. now \in 0..(MaxTime + 1)
  BY Constants DEF Times
<1>2. PICK b : b = [NoAccount EXCEPT !.started = now]
  OBVIOUS
<1>3. b \in Account /\ b.count = 0 /\ b.started = now /\ b.alerted = FALSE
  <2>1. b \in Account /\ b.started = now /\ b.count = NoAccount.count /\ b.alerted = NoAccount.alerted
    BY <1>1, <1>2, NoAccountOK, AccountStarted
  <2>2. QED
    BY <2>1, NoAccountOK, Zenon
<1>4. Noted(NoAccount) = [b EXCEPT !.count = @ + 1, !.alerted = @ \/ b.count + 1 >= AlertThreshold]
  BY <1>2, Zenon DEF Noted
<1>5. /\ Noted(NoAccount) \in Account
      /\ Noted(NoAccount).started = b.started /\ Noted(NoAccount).count = b.count + 1
      /\ Noted(NoAccount).alerted = (b.alerted \/ b.count + 1 >= AlertThreshold)
  BY <1>3, <1>4, CountedOn, Zenon
<1>6. b.count + 1 = 1
  BY <1>3
<1>7. Noted(NoAccount).alerted <=> (b.alerted \/ b.count + 1 >= AlertThreshold)
  BY <1>5, Zenon
<1>8. Noted(NoAccount).alerted <=> (1 >= AlertThreshold)
  BY <1>3, <1>6, <1>7, Zenon
<1>9. QED
  BY <1>3, <1>5, <1>6, <1>8, Zenon

\* What it does to one that runs.
LEMMA NotedOn ==
    ASSUME now \in Times, NEW a \in Account, a # NoAccount, now - a.started <= AlertWindow
    PROVE  /\ Noted(a) \in Account
           /\ Noted(a).started = a.started /\ Noted(a).count = a.count + 1
           /\ Noted(a).alerted <=> (a.alerted \/ a.count + 1 >= AlertThreshold)
<1>1. ~(now - a.started > AlertWindow)
  BY AccountFields, TimesAreNumbers, Constants
<1>2. Noted(a) = [a EXCEPT !.count = @ + 1, !.alerted = @ \/ a.count + 1 >= AlertThreshold]
  BY <1>1, Zenon DEF Noted
<1>3. QED
  BY <1>2, CountedOn, Zenon

\* A report still answers for the first m when a failure follows them.
LEMMA ReportedAppend ==
    ASSUME now \in Times, NEW s \in Seq(Times), HistoryOK(s, now, AlertWindow), NEW m \in 0..Len(s),
           NEW al \in Nat, Reported(s, m, al)
    PROVE  Reported(Append(s, now), m, al)
<1>1. \A t \in Int : By(s, m, t) => By(Append(s, now), m, t)
  BY AppendHistory, Constants
<1>2. al + AlertWindow \in Int
  BY Constants
<1>3. QED
  BY <1>1, <1>2 DEF Reported

\* A failure that begins a counter.
LEMMA NotedFirst ==
    ASSUME now \in Times, NEW s \in Seq(Times), NEW al \in Nat, HistoryOK(s, now, AlertWindow),
           al <= now, Reported(s, Len(s), al),
           NEW l, l = IF Noted(NoAccount).alerted THEN now ELSE al
    PROVE  AccountOK(Noted(NoAccount), Append(s, now), l)
<1>1. PICK c : c = Noted(NoAccount)
  OBVIOUS
<1>2. PICK q : q = Append(s, now)
  OBVIOUS
<1>3. c.started = now /\ c.count = 1 /\ (c.alerted <=> 1 >= AlertThreshold)
  BY <1>1, NotedNew, Zenon
<1>4. now \in Nat /\ now # 0 /\ Len(s) \in Nat /\ \A i \in 1..Len(s) : s[i] \in Nat
  BY TimesAreNumbers, HistoryFacts, Constants
<1>5. /\ Len(q) = Len(s) + 1 /\ By(q, Len(s) + 1, now)
      /\ \A m \in 0..Len(s), t \in Int : By(s, m, t) => By(q, m, t)
  BY <1>2, Constants, AppendHistory
<1>6. l \in Nat /\ al <= l /\ (c.alerted => l = now)
  BY <1>1, <1>4
<1>7. Len(s) \in 0..Len(s) /\ Len(s) \in 0..Len(q) /\ Len(q) - Len(s) <= c.count
  BY <1>3, <1>4, <1>5
<1>8. Reported(q, Len(s), l)
  <2>1. Reported(s, Len(s), l)
    BY <1>6, <1>7, Constants, ReportedLater
  <2>2. QED
    BY <1>2, <1>6, <1>7, <2>1, ReportedAppend
<1>9. By(q, Len(s), c.started)
  <2>1. By(s, Len(s), now) /\ now \in Int
    BY HistoryFacts, Constants, <1>4
  <2>2. QED
    BY <1>3, <1>5, <1>7, <2>1
<1>10. \A i \in (Len(s) + 1)..Len(q) : q[i] <= c.started + AlertWindow
  <2> TAKE i \in (Len(s) + 1)..Len(q)
  <2>1. i = Len(s) + 1
    BY <1>4, <1>5
  <2>2. q[Len(s) + 1] = now
    BY <1>2, AppendProperties
  <2>3. QED
    BY <2>1, <2>2, <1>3, <1>4, Constants
<1>11. c.count >= AlertThreshold <=> c.alerted
  BY <1>3, Zenon
<1>12. c.alerted => l # 0 /\ l >= c.started
  BY <1>3, <1>4, <1>6
<1>13. CounterOK(c, q, l)
  BY <1>7, <1>8, <1>9, <1>10, <1>11, <1>12 DEF CounterOK
<1>14. c # NoAccount
  BY <1>3, NoAccountOK
<1>15. QED
  BY <1>1, <1>2, <1>13, <1>14 DEF AccountOK

\* A failure that a running counter counts.
LEMMA NotedNext ==
    ASSUME now \in Times, NEW a \in Account, NEW s \in Seq(Times), NEW al \in Nat,
           HistoryOK(s, now, AlertWindow), CounterOK(a, s, al), a # NoAccount,
           al <= now, a.started <= now, now - a.started <= AlertWindow,
           NEW l, l = IF Noted(a).alerted /\ ~a.alerted THEN now ELSE al
    PROVE  AccountOK(Noted(a), Append(s, now), l)
<1>1. PICK c : c = Noted(a)
  OBVIOUS
<1>2. PICK q : q = Append(s, now)
  OBVIOUS
<1>3. /\ c.started = a.started /\ c.count = a.count + 1
      /\ c.alerted <=> (a.alerted \/ a.count + 1 >= AlertThreshold)
  BY <1>1, NotedOn, Zenon
<1>4. /\ now \in Nat /\ now # 0 /\ Len(s) \in Nat /\ a.count \in Nat /\ a.started \in Nat
  BY TimesAreNumbers, HistoryFacts, Constants, AccountFields
<1>5. /\ Len(q) = Len(s) + 1 /\ q[Len(s) + 1] = now
      /\ \A m \in 0..Len(s), t \in Int : By(s, m, t) => By(q, m, t)
      /\ \A i \in 1..Len(s) : q[i] = s[i]
  BY <1>2, Constants, AppendHistory, AppendProperties
<1>6. /\ a.count >= AlertThreshold <=> a.alerted
      /\ a.alerted => al # 0 /\ al >= a.started
  BY Zenon DEF CounterOK
<1>7. PICK m \in 0..Len(s) :
        /\ By(s, m, a.started) /\ Len(s) - m <= a.count /\ Reported(s, m, al)
        /\ \A i \in (m + 1)..Len(s) : s[i] <= a.started + AlertWindow
  BY DEF CounterOK
<1>8. l \in Nat /\ al <= l
  BY <1>4
<1>9. c.alerted => l # 0 /\ l >= c.started
  <2>1. CASE a.alerted
    BY <2>1, <1>1, <1>3, <1>6
  <2>2. CASE ~a.alerted
    BY <2>2, <1>1, <1>3, <1>4
  <2>3. QED
    BY <2>1, <2>2
<1>10. c.count >= AlertThreshold <=> c.alerted
  <2>1. a.count >= AlertThreshold => a.count + 1 >= AlertThreshold
    BY <1>4, Constants
  <2>2. QED
    BY <1>3, <1>6, <2>1, Zenon
<1>11. m \in 0..Len(q) /\ Len(q) - m <= c.count
  BY <1>3, <1>4, <1>5, <1>7
<1>12. By(q, m, c.started)
  BY <1>3, <1>4, <1>5, <1>7
<1>13. Reported(q, m, l)
  <2>1. Reported(s, m, l)
    BY <1>7, <1>8, Constants, ReportedLater
  <2>2. QED
    BY <1>2, <1>8, <2>1, ReportedAppend
<1>14. \A i \in (m + 1)..Len(q) : q[i] <= c.started + AlertWindow
  <2> TAKE i \in (m + 1)..Len(q)
  <2>1. CASE i = Len(s) + 1
    BY <2>1, <1>3, <1>4, <1>5, Constants
  <2>2. CASE i # Len(s) + 1
    <3>1. i \in (m + 1)..Len(s) /\ i \in 1..Len(s)
      BY <2>2, <1>4, <1>5
    <3>2. QED
      BY <3>1, <1>3, <1>5, <1>7
  <2>3. QED
    BY <2>1, <2>2
<1>15. CounterOK(c, q, l)
  BY <1>9, <1>10, <1>11, <1>12, <1>13, <1>14 DEF CounterOK
<1>16. c # NoAccount
  BY <1>3, <1>4, NoAccountOK
<1>17. QED
  BY <1>1, <1>2, <1>15, <1>16 DEF AccountOK

\* note_failure_at, its clean-up first; l is when the account was last reported.
LEMMA NotedOK ==
    ASSUME now \in Times, NEW a \in Account, NEW s \in Seq(Times), NEW al \in Nat,
           HistoryOK(s, now, AlertWindow), AccountOK(a, s, al), al <= now, a.started <= now,
           NEW c, c = Noted(Kept(a)),
           NEW l, l = IF c.alerted /\ ~(a.alerted /\ c.started = a.started) THEN now ELSE al
    PROVE  /\ c \in Account /\ c.started <= now /\ l \in {al, now}
           /\ AccountOK(c, Append(s, now), l)
<1>0. now \in Nat /\ now # 0 /\ a.started \in Nat
  BY TimesAreNumbers, AccountFields
<1>1. CASE Kept(a) = NoAccount
  <2>1. c = Noted(NoAccount)
    BY <1>1
  <2>2. c \in Account /\ c.started = now
    BY <2>1, NotedNew, Zenon
  <2>3. Reported(s, Len(s), al)
    BY <1>1, KeptOK DEF AccountOK
  <2>4. ~(a.alerted /\ c.started = a.started)
    <3>1. CASE a = NoAccount
      BY <3>1, NoAccountOK, Zenon
    <3>2. CASE a # NoAccount
      <4>1. ~(now - a.started <= AlertWindow)
        BY <3>2, <1>1 DEF Kept
      <4>2. now # a.started
        BY <4>1, <1>0, Constants
      <4>3. QED
        BY <4>2, <2>2
    <3>3. QED
      BY <3>1, <3>2
  <2>5. l = IF Noted(NoAccount).alerted THEN now ELSE al
    BY <2>1, <2>4, Zenon
  <2>6. AccountOK(Noted(NoAccount), Append(s, now), l)
    BY <2>3, <2>5, NotedFirst
  <2>7. QED
    BY <1>0, <2>1, <2>2, <2>6
<1>2. CASE Kept(a) # NoAccount
  <2>1. Kept(a) = a /\ now - a.started <= AlertWindow /\ a # NoAccount
    BY <1>2 DEF Kept
  <2>2. c = Noted(a)
    BY <2>1
  <2>3. c \in Account /\ c.started = a.started
    BY <2>1, <2>2, NotedOn, Zenon
  <2>4. l = IF Noted(a).alerted /\ ~a.alerted THEN now ELSE al
    BY <2>2, <2>3, Zenon
  <2>5. CounterOK(a, s, al)
    BY <2>1 DEF AccountOK
  <2>6. AccountOK(Noted(a), Append(s, now), l)
    BY <2>1, <2>4, <2>5, NotedNext
  <2>7. l \in {al, now}
    BY <2>4
  <2>8. QED
    BY <2>2, <2>3, <2>6, <2>7
<1>3. QED
  BY <1>1, <1>2

\* The clock moves: an account answers for what is left of its history.
LEMMA TickAccount ==
    ASSUME NEW a \in Account, NEW s \in Seq(Times), NEW q \in Seq(Times), NEW al \in Nat, NEW d \in 0..Len(s),
           Len(q) = Len(s) - d, \A i \in 1..(Len(s) - d) : q[i] = s[d + i],
           AccountOK(a, s, al)
    PROVE  AccountOK(a, q, al)
<1>0. Len(s) \in Nat /\ Len(q) \in Nat
  BY LenProperties
<1>1. a.started \in Int /\ a.count \in Nat /\ al + AlertWindow \in Int
  BY AccountFields, Constants
<1>2. ASSUME NEW m \in 0..Len(s), NEW p \in 0..Len(q), p <= m, Reported(s, m, al),
             \A t \in Int : By(s, m, t) => By(q, p, t)
      PROVE  Reported(q, p, al)
  <2>1. p >= AlertThreshold => m >= AlertThreshold
    BY <1>0, <1>2, Constants
  <2>2. By(s, m, al + AlertWindow) => By(q, p, al + AlertWindow)
    BY <1>1, <1>2, Zenon
  <2>3. QED
    BY <1>2, <2>1, <2>2, Zenon DEF Reported
<1>3. CASE a = NoAccount
  <2>1. Len(s) \in 0..Len(s) /\ Reported(s, Len(s), al)
    BY <1>0, <1>3 DEF AccountOK
  <2>2. PICK p \in 0..Len(q) : p <= Len(s) /\ Len(q) - p <= Len(s) - Len(s)
                               /\ \A t \in Int : By(s, Len(s), t) => By(q, p, t)
    BY <2>1, RestBy
  <2>3. p = Len(q)
    <3>1. p \in Nat /\ p <= Len(q) /\ Len(q) - p <= 0
      BY <1>0, <2>2
    <3>2. \A x, y \in Nat : x <= y /\ y - x <= 0 => x = y
      OBVIOUS
    <3>3. QED
      BY <3>1, <3>2, <1>0, Zenon
  <2>4. Reported(q, Len(q), al)
    BY <1>2, <2>1, <2>2, <2>3
  <2>5. QED
    BY <1>3, <2>4 DEF AccountOK
<1>4. CASE a # NoAccount
  <2>1. CounterOK(a, s, al)
    BY <1>4 DEF AccountOK
  <2>2. PICK m \in 0..Len(s) :
          /\ By(s, m, a.started) /\ Len(s) - m <= a.count /\ Reported(s, m, al)
          /\ \A i \in (m + 1)..Len(s) : s[i] <= a.started + AlertWindow
    BY <2>1 DEF CounterOK
  <2>3. PICK p \in 0..Len(q) :
          /\ p <= m /\ Len(q) - p <= Len(s) - m
          /\ \A t \in Int : By(s, m, t) => By(q, p, t)
          /\ \A i \in (p + 1)..Len(q) : d + i \in (m + 1)..Len(s) /\ q[i] = s[d + i]
    BY RestBy
  <2>4. By(q, p, a.started)
    BY <1>1, <2>2, <2>3, Zenon
  <2>5. Len(q) - p <= a.count
    <3>1. m \in Nat /\ p \in Nat /\ Len(q) - p <= Len(s) - m /\ Len(s) - m <= a.count
      BY <1>0, <2>2, <2>3
    <3>2. QED
      BY <3>1, <1>0, <1>1
  <2>6. Reported(q, p, al)
    BY <1>2, <2>2, <2>3
  <2>7. \A i \in (p + 1)..Len(q) : q[i] <= a.started + AlertWindow
    BY <2>2, <2>3
  <2>8. CounterOK(a, q, al)
    <3>1. /\ a.count >= AlertThreshold <=> a.alerted
          /\ a.alerted => al # 0 /\ al >= a.started
      BY <2>1, Zenon DEF CounterOK
    <3>2. QED
      BY <3>1, <2>4, <2>5, <2>6, <2>7, Zenon DEF CounterOK
  <2>9. QED
    BY <1>4, <2>8 DEF AccountOK
<1>5. QED
  BY <1>3, <1>4

-----------------------------------------------------------------------------
(***************************************************************************)
(* The attempts under way.                                                 *)
(***************************************************************************)

LEMMA UnderWayCount ==
    ASSUME NEW k
    PROVE  /\ IsFiniteSet(UnderWay(k)) /\ Cardinality(UnderWay(k)) \in Nat
           /\ Cardinality(UnderWay(k)) <= Cardinality(Requests)
<1>1. UnderWay(k) \in SUBSET Requests
  BY DEF UnderWay
<1>2. IsFiniteSet(Requests)
  BY ThrottleConstants
<1>3. IsFiniteSet(UnderWay(k)) /\ Cardinality(UnderWay(k)) <= Cardinality(Requests)
  BY <1>1, <1>2, FS_Subset
<1>4. QED
  BY <1>3, FS_CardinalityType

\* What a step of one attempt does to the number under way on a key.
LEMMA UnderWayStep ==
    ASSUME TypeOK, NEW r \in Requests, NEW q, Become(r, q), NEW k
    PROVE  /\ Cardinality(UnderWay(k)') \in Nat
           /\ k \notin Held(q) \/ k \in Held(req[r])
                => Cardinality(UnderWay(k)') <= Cardinality(UnderWay(k))
           /\ k \notin Held(q) /\ k \in Held(req[r])
                => Cardinality(UnderWay(k)') = Cardinality(UnderWay(k)) - 1
<1>0. req' = [req EXCEPT ![r] = q] /\ DOMAIN req = Requests
  BY DEF Become, TypeOK
<1>1. UnderWay(k)' = IF k \in Held(q) THEN UnderWay(k) \cup {r} ELSE UnderWay(k) \ {r}
  BY <1>0 DEF UnderWay
<1>2. r \in UnderWay(k) <=> k \in Held(req[r])
  BY DEF UnderWay
<1>3. IsFiniteSet(UnderWay(k)) /\ Cardinality(UnderWay(k)) \in Nat
  BY UnderWayCount
<1>4. /\ IsFiniteSet(UnderWay(k) \cup {r})
      /\ Cardinality(UnderWay(k) \cup {r}) =
            IF r \in UnderWay(k) THEN Cardinality(UnderWay(k)) ELSE Cardinality(UnderWay(k)) + 1
  BY <1>3, FS_AddElement, Zenon
<1>5. /\ IsFiniteSet(UnderWay(k) \ {r})
      /\ Cardinality(UnderWay(k) \ {r}) =
            IF r \in UnderWay(k) THEN Cardinality(UnderWay(k)) - 1 ELSE Cardinality(UnderWay(k))
  BY <1>3, FS_RemoveElement, Zenon
<1>6. Cardinality(UnderWay(k) \ {r}) \in Nat
  BY <1>5, FS_CardinalityType, Zenon
<1>7. QED
  BY <1>1, <1>2, <1>3, <1>4, <1>5, <1>6

LEMMA RequestKind ==
    ASSUME TypeOK, NEW r \in Requests, req[r].pc \in {"user", "verify"}
    PROVE  req[r] \in Request /\ req[r] # Idle
BY DEF TypeOK, Request, Idle

\* When it is verified, an attempt has passed the locks it is recorded under.
LEMMA HeldVerified ==
    ASSUME NEW q \in Request, q.pc = "verify", q # Idle
    PROVE  Held(q) = KeysOf(q)
BY DEF Held, KeysOf

LEMMA HeldIdle == Held(Idle) = {}
BY DEF Held

-----------------------------------------------------------------------------
(***************************************************************************)
(* The steps.                                                              *)
(***************************************************************************)

LEMMA InitIInv == Init => IInv
<1> SUFFICES ASSUME Init PROVE IInv
  OBVIOUS
<1>1. TypeOK
  <2>1. now \in Times /\ 0 \in 0..(MaxTime + 1)
    BY Constants DEF Init, Times
  <2>2. <<>> \in Seq(Times)
    BY EmptySeq
  <2>3. QED
    BY <2>1, <2>2, NoAttemptOK, NoAccountOK DEF Init, TypeOK
<1>2. RequestsOK
  BY DEF Init, RequestsOK, Idle
<1>3. Len(<<>>) = 0
  BY EmptySeq
<1>4. KeysOK
  BY <1>3, Constants, NoEntry DEF Init, KeysOK, HistoryOK
<1>5. AccountsOK
  <2>1. Reported(<<>>, Len(<<>>), 0)
    BY <1>3, Constants DEF Reported
  <2>2. QED
    BY <1>3, <2>1, NoAccountOK DEF Init, AccountsOK, HistoryOK, AccountOK
<1>6. QED
  BY <1>1, <1>2, <1>4, <1>5 DEF IInv

\* A step that leaves the histories and the monitor alone, in which attempt r
\* goes on as q: the keys it joins are open.
LEMMA QuietStep ==
    ASSUME IInv, UNCHANGED <<now, accounts, tries, misses, alerts>>,
           NEW r \in Requests, NEW q \in Request \cup {Idle}, Become(r, q),
           q.pc = "user" => q.kind = "login",
           entries' \in [Keys -> Attempt],
           \A k \in Keys : KeyOK(entries'[k], tries[k], Cardinality(UnderWay(k))),
           \A k \in Keys : k \in Held(q) => k \in Held(req[r]) \/ entries'[k].until = 0
    PROVE  IInv'
<1>1. TypeOK'
  BY DEF IInv, TypeOK, Become
<1>2. RequestsOK'
  BY DEF IInv, TypeOK, RequestsOK, Become
<1>3. AccountsOK'
  BY DEF IInv, AccountsOK
<1>4. KeysOK'
  <2> SUFFICES ASSUME NEW k \in Keys
               PROVE  /\ HistoryOK(tries'[k], now', Window)
                      /\ KeyOK(entries'[k], tries'[k], Cardinality(UnderWay(k)'))
    BY DEF KeysOK
  <2>1. HistoryOK(tries'[k], now', Window)
    BY DEF IInv, KeysOK
  <2>2. /\ Cardinality(UnderWay(k)) \in Nat /\ Cardinality(UnderWay(k)') \in Nat
        /\ Cardinality(UnderWay(k)') <= Cardinality(UnderWay(k)) \/ entries'[k].until = 0
    BY UnderWayCount, UnderWayStep DEF IInv
  <2>3. entries'[k] \in Attempt /\ tries[k] \in Seq(Times)
    BY DEF IInv, TypeOK
  <2>4. KeyOK(entries'[k], tries[k], Cardinality(UnderWay(k)'))
    BY <2>2, <2>3, KeyFewer
  <2>5. QED
    BY <2>1, <2>4
<1>5. QED
  BY <1>1, <1>2, <1>3, <1>4 DEF IInv

\* locked_for_at leaves the entries as they should be; a key it finds open is open.
LEMMA LookedOK ==
    ASSUME IInv, NEW k0, entries' = Looked(k0)
    PROVE  /\ entries' \in [Keys -> Attempt]
           /\ \A k \in Keys : KeyOK(entries'[k], tries[k], Cardinality(UnderWay(k)))
           /\ k0 \in Keys /\ ~Locked(k0) => entries'[k0].until = 0
<1>0. now \in Times /\ now \in Nat /\ entries \in [Keys -> Attempt]
  BY TimesAreNumbers DEF IInv, TypeOK
<1>1. entries' \in [Keys -> Attempt]
  BY <1>0, NoAttemptOK DEF Looked
<1>2. ASSUME NEW k \in Keys
      PROVE  /\ KeyOK(entries'[k], tries[k], Cardinality(UnderWay(k)))
             /\ k = k0 /\ ~Locked(k0) => entries'[k0].until = 0
  <2>1. /\ entries[k] \in Attempt /\ tries[k] \in Seq(Times) /\ Cardinality(UnderWay(k)) \in Nat
        /\ HistoryOK(tries[k], now, Window)
        /\ KeyOK(entries[k], tries[k], Cardinality(UnderWay(k)))
    BY <1>0, UnderWayCount DEF IInv, TypeOK, KeysOK
  <2>2. entries[k].until \in Nat
    BY <2>1, AttemptFields
  <2>3. CASE k = k0 /\ entries[k].until # 0 /\ entries[k].until <= now
    <3>1. entries'[k] = NoAttempt
      BY <2>3, <1>0 DEF Looked
    <3>2. Len(tries[k]) <= LeftOver
      BY <2>1, <2>3, <1>0, LockEnded
    <3>3. QED
      BY <2>3, <3>1, <3>2, NoEntry, NoAttemptOK
  <2>4. CASE ~(k = k0 /\ entries[k].until # 0 /\ entries[k].until <= now)
    <3>1. entries'[k] = entries[k]
      BY <2>4, <1>0 DEF Looked
    <3>2. QED
      BY <2>1, <2>2, <2>4, <3>1, <1>0 DEF Locked
  <2>5. QED
    BY <2>3, <2>4
<1>3. QED
  BY <1>1, <1>2

LEMMA CheckFirstIInv ==
    ASSUME IInv, NEW r \in Requests, NEW i \in Ips, NEW t \in Targets, CheckFirst(r, t[1], i, t[2])
    PROVE  IInv'
<1>0. t[1] \in {"login", "mfa"} /\ t[2] \in Users
  BY ThrottleConstants
<1>1. PICK k0 : k0 = IF t[1] = "login" THEN IpKey(i) ELSE UserKey(t[1], i, t[2])
  OBVIOUS
<1>2. /\ entries' = Looked(k0) /\ req[r] = Idle
      /\ UNCHANGED <<now, accounts, tries, misses, alerts>>
  BY <1>1, Zenon DEF CheckFirst
<1>3. /\ entries' \in [Keys -> Attempt]
      /\ \A k \in Keys : KeyOK(entries'[k], tries[k], Cardinality(UnderWay(k)))
      /\ k0 \in Keys /\ ~Locked(k0) => entries'[k0].until = 0
  BY <1>2, LookedOK
<1>4. CASE Locked(k0)
  <2>1. req' = req
    BY <1>1, <1>4, Zenon DEF CheckFirst
  <2>2. Become(r, Idle)
    BY <1>2, <2>1 DEF Become, IInv, TypeOK
  <2>3. Idle \in Request \cup {Idle} /\ (Idle.pc = "user" => Idle.kind = "login")
    BY DEF Idle
  <2>4. QED
    BY <1>2, <1>3, <2>2, <2>3, HeldIdle, QuietStep
<1>5. CASE ~Locked(k0)
  <2>1. PICK q : q = [pc |-> IF t[1] = "login" THEN "user" ELSE "verify",
                      kind |-> t[1], ip |-> i, user |-> t[2]]
    OBVIOUS
  <2>2. Become(r, q)
    BY <1>1, <1>5, <2>1, Zenon DEF CheckFirst
  <2>3. q \in Request /\ q # Idle /\ (q.pc = "user" => q.kind = "login")
    BY <1>0, <2>1 DEF Request, Idle
  <2>4. Held(q) = {k0}
    BY <1>0, <1>1, <2>1, <2>3 DEF Held
  <2>5. \A k \in Keys : k \in Held(q) => entries'[k].until = 0
    BY <1>3, <1>5, <2>4
  <2>6. QED
    BY <1>2, <1>3, <2>2, <2>3, <2>5, QuietStep
<1>6. QED
  BY <1>4, <1>5

LEMMA CheckUserIInv ==
    ASSUME IInv, NEW r \in Requests, CheckUser(r)
    PROVE  IInv'
<1>0. req[r] \in Request /\ req[r] # Idle /\ req[r].pc = "user" /\ req[r].kind = "login"
  BY RequestKind DEF IInv, RequestsOK, CheckUser
<1>1. PICK k0 : k0 = UserKey("login", req[r].ip, req[r].user)
  OBVIOUS
<1>2. entries' = Looked(k0) /\ UNCHANGED <<now, accounts, tries, misses, alerts>>
  BY <1>1 DEF CheckUser
<1>3. /\ entries' \in [Keys -> Attempt]
      /\ \A k \in Keys : KeyOK(entries'[k], tries[k], Cardinality(UnderWay(k)))
      /\ k0 \in Keys /\ ~Locked(k0) => entries'[k0].until = 0
  BY <1>2, LookedOK
<1>4. CASE Locked(k0)
  <2>1. Become(r, Idle)
    BY <1>1, <1>4, Zenon DEF CheckUser
  <2>2. Idle \in Request \cup {Idle} /\ (Idle.pc = "user" => Idle.kind = "login")
    BY DEF Idle
  <2>3. QED
    BY <1>2, <1>3, <2>1, <2>2, HeldIdle, QuietStep
<1>5. CASE ~Locked(k0)
  <2>1. PICK q : q = [req[r] EXCEPT !.pc = "verify"]
    OBVIOUS
  <2>2. Become(r, q)
    BY <1>1, <1>5, <2>1, Zenon DEF CheckUser
  <2>3. /\ q \in Request /\ q # Idle /\ q.pc = "verify" /\ q.kind = "login"
        /\ q.ip = req[r].ip /\ q.user = req[r].user
    BY <1>0, <2>1 DEF Request, Idle
  <2>4. Held(q) = Held(req[r]) \cup {k0}
    BY <1>0, <1>1, <2>3 DEF Held
  <2>5. \A k \in Keys : k \in Held(q) => k \in Held(req[r]) \/ entries'[k].until = 0
    BY <1>3, <1>5, <2>4
  <2>6. QED
    BY <1>2, <1>3, <2>2, <2>3, <2>5, QuietStep
<1>6. QED
  BY <1>4, <1>5

LEMMA DropIInv ==
    ASSUME IInv, NEW r \in Requests, Drop(r)
    PROVE  IInv'
<1>1. Become(r, Idle) /\ entries' = entries /\ UNCHANGED <<now, accounts, tries, misses, alerts>>
  BY DEF Drop
<1>2. Idle \in Request \cup {Idle} /\ (Idle.pc = "user" => Idle.kind = "login")
  BY DEF Idle
<1>3. /\ entries' \in [Keys -> Attempt]
      /\ \A k \in Keys : KeyOK(entries'[k], tries[k], Cardinality(UnderWay(k)))
  BY <1>1 DEF IInv, TypeOK, KeysOK
<1>4. QED
  BY <1>1, <1>2, <1>3, HeldIdle, QuietStep

LEMMA SucceedIInv ==
    ASSUME IInv, NEW r \in Requests, Succeed(r)
    PROVE  IInv'
<1>1. PICK q : q = req[r]
  OBVIOUS
<1>2. /\ q.pc = "verify" /\ Become(r, Idle) /\ UNCHANGED <<now, accounts, misses, alerts>>
      /\ entries' = [k \in Keys |-> IF k \in KeysOf(q) THEN NoAttempt ELSE entries[k]]
      /\ tries' = [k \in Keys |-> IF k \in KeysOf(q) THEN <<>> ELSE tries[k]]
  BY <1>1 DEF Succeed
<1>3. <<>> \in Seq(Times) /\ Len(<<>>) = 0
  BY EmptySeq
<1>4. TypeOK'
  BY <1>2, <1>3, NoAttemptOK DEF IInv, TypeOK, Become
<1>5. RequestsOK'
  BY <1>2 DEF IInv, TypeOK, RequestsOK, Become, Idle
<1>6. AccountsOK'
  BY <1>2 DEF IInv, AccountsOK
<1>7. KeysOK'
  <2> SUFFICES ASSUME NEW k \in Keys
               PROVE  /\ HistoryOK(tries'[k], now', Window)
                      /\ KeyOK(entries'[k], tries'[k], Cardinality(UnderWay(k)'))
    BY DEF KeysOK
  <2>1. CASE k \in KeysOf(q)
    <3>1. entries'[k] = NoAttempt /\ tries'[k] = <<>>
      BY <1>2, <2>1
    <3>2. HistoryOK(<<>>, now', Window)
      BY <1>3 DEF HistoryOK
    <3>3. QED
      BY <3>1, <3>2, <1>3, Constants, NoEntry
  <2>2. CASE k \notin KeysOf(q)
    <3>1. entries'[k] = entries[k] /\ tries'[k] = tries[k] /\ now' = now
      BY <1>2, <2>2
    <3>2. /\ Cardinality(UnderWay(k)) \in Nat /\ Cardinality(UnderWay(k)') \in Nat
          /\ Cardinality(UnderWay(k)') <= Cardinality(UnderWay(k))
      BY <1>2, UnderWayCount, UnderWayStep, HeldIdle DEF IInv
    <3>3. /\ entries[k] \in Attempt /\ tries[k] \in Seq(Times) /\ HistoryOK(tries[k], now, Window)
          /\ KeyOK(entries[k], tries[k], Cardinality(UnderWay(k)))
      BY DEF IInv, TypeOK, KeysOK
    <3>4. KeyOK(entries[k], tries[k], Cardinality(UnderWay(k)'))
      BY <3>2, <3>3, KeyFewer
    <3>5. QED
      BY <3>1, <3>3, <3>4
  <2>3. QED
    BY <2>1, <2>2
<1>8. QED
  BY <1>4, <1>5, <1>6, <1>7 DEF IInv

\* What a failed attempt does to the keys.
LEMMA FailKeys ==
    ASSUME IInv, NEW r \in Requests, Fail(r)
    PROVE  /\ entries' \in [Keys -> Attempt] /\ tries' \in [Keys -> Seq(Times)]
           /\ KeysOK'
<1>1. PICK q : q = req[r]
  OBVIOUS
<1>2. /\ q.pc = "verify" /\ Become(r, Idle) /\ now' = now
      /\ entries' = [k \in Keys |->
            IF k \in KeysOf(q) THEN Failed(Pruned(entries[k])) ELSE Pruned(entries[k])]
      /\ tries' = [k \in Keys |-> IF k \in KeysOf(q) THEN Append(tries[k], now) ELSE tries[k]]
  BY <1>1 DEF Fail
<1>3. Held(req[r]) = KeysOf(q)
  BY <1>1, <1>2, RequestKind, HeldVerified DEF IInv
<1>4. now \in Times
  BY DEF IInv, TypeOK
<1>5. ASSUME NEW k \in Keys
      PROVE  /\ entries'[k] \in Attempt /\ tries'[k] \in Seq(Times)
             /\ HistoryOK(tries'[k], now', Window)
             /\ KeyOK(entries'[k], tries'[k], Cardinality(UnderWay(k)'))
  <2>1. /\ entries[k] \in Attempt /\ tries[k] \in Seq(Times) /\ HistoryOK(tries[k], now, Window)
        /\ KeyOK(entries[k], tries[k], Cardinality(UnderWay(k)))
    BY DEF IInv, TypeOK, KeysOK
  <2>2. /\ Cardinality(UnderWay(k)) \in Nat /\ Cardinality(UnderWay(k)') \in Nat
        /\ Cardinality(UnderWay(k)) <= Cardinality(Requests)
        /\ Cardinality(UnderWay(k)') <= Cardinality(UnderWay(k))
        /\ k \in KeysOf(q) => Cardinality(UnderWay(k)') = Cardinality(UnderWay(k)) - 1
    BY <1>2, <1>3, UnderWayCount, UnderWayStep, HeldIdle DEF IInv
  <2>3. PICK b : b = Pruned(entries[k])
    OBVIOUS
  <2>4. /\ b \in Attempt /\ KeyOK(b, tries[k], Cardinality(UnderWay(k)))
        /\ b.until = 0 \/ b.until > now
    BY <1>4, <2>1, <2>2, <2>3, PrunedOK
  <2>5. CASE k \in KeysOf(q)
    <3>1. entries'[k] = Failed(b) /\ tries'[k] = Append(tries[k], now)
      BY <1>2, <2>3, <2>5
    <3>2. Failed(b) \in Attempt /\ KeyOK(Failed(b), Append(tries[k], now), Cardinality(UnderWay(k)'))
      BY <1>4, <2>1, <2>2, <2>4, <2>5, FailedOK
    <3>3. Append(tries[k], now) \in Seq(Times) /\ HistoryOK(Append(tries[k], now), now, Window)
      BY <1>4, <2>1, Constants, AppendHistory
    <3>4. QED
      BY <1>2, <3>1, <3>2, <3>3
  <2>6. CASE k \notin KeysOf(q)
    <3>1. entries'[k] = b /\ tries'[k] = tries[k]
      BY <1>2, <2>3, <2>6
    <3>2. KeyOK(b, tries[k], Cardinality(UnderWay(k)'))
      BY <2>1, <2>2, <2>4, KeyFewer
    <3>3. QED
      BY <1>2, <2>1, <2>4, <3>1, <3>2
  <2>7. QED
    BY <2>5, <2>6
<1>6. entries' \in [Keys -> Attempt] /\ tries' \in [Keys -> Seq(Times)]
  BY <1>2, <1>5
<1>7. KeysOK'
  BY <1>5 DEF KeysOK
<1>8. QED
  BY <1>6, <1>7

\* What it does to the accounts, when it is the failure of a password.
LEMMA FailAccounts ==
    ASSUME IInv, NEW r \in Requests, Fail(r), req[r].kind = "login", req[r].user \in Users
    PROVE  /\ accounts' \in [Users -> Account] /\ misses' \in [Users -> Seq(Times)]
           /\ alerts' \in [Users -> 0..(MaxTime + 1)]
           /\ AccountsOK'
<1>1. PICK v \in Users : v = req[r].user
  OBVIOUS
<1>2. PICK c : c = Noted(Kept(accounts[v]))
  OBVIOUS
<1>3. PICK l : l = IF c.alerted /\ ~(accounts[v].alerted /\ c.started = accounts[v].started)
                   THEN now ELSE alerts[v]
  OBVIOUS
<1>4. now' = now
  BY DEF Fail
<1>5. accounts' = [u \in Users |-> IF u = v THEN c ELSE Kept(accounts[u])]
  BY <1>1, <1>2, Zenon DEF Fail, Kept
<1>6. misses' = [misses EXCEPT ![v] = Append(misses[v], now)]
  BY <1>1 DEF Fail
<1>7. alerts' = [alerts EXCEPT ![v] = l]
  BY <1>1, <1>2, <1>3, Zenon DEF Fail, Kept
<1>8. /\ now \in Times /\ now \in Nat /\ now \in 0..(MaxTime + 1)
      /\ accounts \in [Users -> Account] /\ misses \in [Users -> Seq(Times)]
      /\ alerts \in [Users -> 0..(MaxTime + 1)] /\ 0..(MaxTime + 1) \subseteq Nat
  BY TimesAreNumbers, Constants DEF IInv, TypeOK, Times
<1>9. ASSUME NEW u \in Users
      PROVE  /\ accounts'[u] \in Account /\ misses'[u] \in Seq(Times) /\ alerts'[u] \in 0..(MaxTime + 1)
             /\ HistoryOK(misses'[u], now', AlertWindow)
             /\ accounts'[u].started <= now' /\ alerts'[u] <= now'
             /\ AccountOK(accounts'[u], misses'[u], alerts'[u])
  <2>1. /\ accounts[u] \in Account /\ misses[u] \in Seq(Times)
        /\ alerts[u] \in 0..(MaxTime + 1) /\ alerts[u] \in Nat
        /\ HistoryOK(misses[u], now, AlertWindow) /\ accounts[u].started <= now /\ alerts[u] <= now
        /\ AccountOK(accounts[u], misses[u], alerts[u])
    BY <1>8 DEF IInv, AccountsOK
  <2>2. CASE u = v
    <3>1. accounts'[u] = c /\ misses'[u] = Append(misses[u], now) /\ alerts'[u] = l
      BY <2>2, <1>5, <1>6, <1>7, <1>8
    <3>2. /\ c \in Account /\ c.started <= now /\ l \in {alerts[u], now}
          /\ AccountOK(c, Append(misses[u], now), l)
      BY <2>1, <2>2, <1>2, <1>3, <1>8, NotedOK
    <3>3. Append(misses[u], now) \in Seq(Times) /\ HistoryOK(Append(misses[u], now), now, AlertWindow)
      BY <1>8, <2>1, Constants, AppendHistory
    <3>4. l \in 0..(MaxTime + 1) /\ l <= now
      BY <2>1, <3>2, <1>8
    <3>5. QED
      BY <3>1, <3>2, <3>3, <3>4, <1>4
  <2>3. CASE u # v
    <3>1. accounts'[u] = Kept(accounts[u]) /\ misses'[u] = misses[u] /\ alerts'[u] = alerts[u]
      BY <2>3, <1>5, <1>6, <1>7, <1>8
    <3>2. /\ Kept(accounts[u]) \in Account /\ Kept(accounts[u]).started <= now
          /\ AccountOK(Kept(accounts[u]), misses[u], alerts[u])
      BY <1>8, <2>1, KeptOK
    <3>3. QED
      BY <3>1, <3>2, <2>1, <1>4
  <2>4. QED
    BY <2>2, <2>3
<1>10. /\ accounts' \in [Users -> Account] /\ misses' \in [Users -> Seq(Times)]
       /\ alerts' \in [Users -> 0..(MaxTime + 1)]
  BY <1>5, <1>6, <1>7, <1>8, <1>9
<1>11. AccountsOK'
  BY <1>9 DEF AccountsOK
<1>12. QED
  BY <1>10, <1>11

LEMMA FailIInv ==
    ASSUME IInv, NEW r \in Requests, Fail(r)
    PROVE  IInv'
<1>1. req[r].pc = "verify" /\ Become(r, Idle) /\ now' = now
  BY DEF Fail
<1>2. req[r] \in Request /\ req[r].user \in Users
  BY <1>1, RequestKind DEF IInv, Request
<1>3. entries' \in [Keys -> Attempt] /\ tries' \in [Keys -> Seq(Times)] /\ KeysOK'
  BY FailKeys
<1>4. /\ accounts' \in [Users -> Account] /\ misses' \in [Users -> Seq(Times)]
      /\ alerts' \in [Users -> 0..(MaxTime + 1)] /\ AccountsOK'
  <2>1. CASE req[r].kind = "login"
    BY <1>2, <2>1, FailAccounts
  <2>2. CASE req[r].kind # "login"
    <3>1. UNCHANGED <<now, accounts, misses, alerts>>
      BY <1>1, <2>2 DEF Fail
    <3>2. QED
      BY <3>1 DEF IInv, TypeOK, AccountsOK
  <2>3. QED
    BY <2>1, <2>2
<1>5. RequestsOK'
  BY <1>1 DEF IInv, TypeOK, RequestsOK, Become, Idle
<1>6. now' \in Times /\ req' \in [Requests -> Request \cup {Idle}]
  BY <1>1 DEF IInv, TypeOK, Become
<1>7. TypeOK'
  BY <1>3, <1>4, <1>6 DEF TypeOK
<1>8. QED
  BY <1>3, <1>4, <1>5, <1>7 DEF IInv

LEMMA TickIInv ==
    ASSUME IInv, Tick
    PROVE  IInv'
<1>1. /\ now <= MaxTime /\ now' = now + 1 /\ UNCHANGED <<entries, accounts, req, alerts>>
      /\ tries' = [k \in Keys |-> Recent(tries[k], Window)]
      /\ misses' = [u \in Users |-> Recent(misses[u], AlertWindow)]
  BY DEF Tick
<1>2. now \in Times /\ now \in Nat /\ now' \in Times
  BY <1>1, Constants, TimesAreNumbers DEF IInv, TypeOK, Times
<1>3. ASSUME NEW k \in Keys
      PROVE  /\ tries'[k] \in Seq(Times) /\ HistoryOK(tries'[k], now', Window)
             /\ KeyOK(entries'[k], tries'[k], Cardinality(UnderWay(k)'))
  <2>1. /\ entries[k] \in Attempt /\ tries[k] \in Seq(Times) /\ HistoryOK(tries[k], now, Window)
        /\ KeyOK(entries[k], tries[k], Cardinality(UnderWay(k)))
    BY DEF IInv, TypeOK, KeysOK
  <2>2. PICK q : q = Recent(tries[k], Window)
    OBVIOUS
  <2>3. q \in Seq(Times) /\ HistoryOK(q, now + 1, Window)
    BY <1>1, <1>2, <2>1, <2>2, Constants, RecentOK
  <2>4. PICK d \in 0..Len(tries[k]) :
          /\ Len(q) = Len(tries[k]) - d
          /\ \A i \in 1..(Len(tries[k]) - d) : q[i] = tries[k][d + i]
    <3>1. Window \in Nat
      BY Constants
    <3>2. \E d \in 0..Len(tries[k]) :
            /\ Len(Recent(tries[k], Window)) = Len(tries[k]) - d
            /\ \A i \in 1..(Len(tries[k]) - d) : Recent(tries[k], Window)[i] = tries[k][d + i]
      BY <1>1, <1>2, <2>1, <3>1, RecentOK, Zenon
    <3>3. QED
      BY <2>2, <3>2, Zenon
  <2>5. Cardinality(UnderWay(k)) \in Nat /\ UnderWay(k)' = UnderWay(k)
    BY <1>1, UnderWayCount DEF UnderWay
  <2>6. KeyOK(entries[k], q, Cardinality(UnderWay(k)))
    BY <2>1, <2>3, <2>4, <2>5, TickKey
  <2>7. QED
    BY <1>1, <2>2, <2>3, <2>5, <2>6
<1>4. ASSUME NEW u \in Users
      PROVE  /\ misses'[u] \in Seq(Times) /\ HistoryOK(misses'[u], now', AlertWindow)
             /\ accounts'[u].started <= now' /\ alerts'[u] <= now'
             /\ AccountOK(accounts'[u], misses'[u], alerts'[u])
  <2>1. /\ accounts[u] \in Account /\ misses[u] \in Seq(Times) /\ HistoryOK(misses[u], now, AlertWindow)
        /\ AccountOK(accounts[u], misses[u], alerts[u])
        /\ alerts[u] \in Nat /\ accounts[u].started <= now /\ alerts[u] <= now
    BY Constants DEF IInv, TypeOK, AccountsOK
  <2>2. PICK q : q = Recent(misses[u], AlertWindow)
    OBVIOUS
  <2>3. q \in Seq(Times) /\ HistoryOK(q, now + 1, AlertWindow)
    BY <1>1, <1>2, <2>1, <2>2, Constants, RecentOK
  <2>4. PICK d \in 0..Len(misses[u]) :
          /\ Len(q) = Len(misses[u]) - d
          /\ \A i \in 1..(Len(misses[u]) - d) : q[i] = misses[u][d + i]
    <3>1. AlertWindow \in Nat
      BY Constants
    <3>2. \E d \in 0..Len(misses[u]) :
            /\ Len(Recent(misses[u], AlertWindow)) = Len(misses[u]) - d
            /\ \A i \in 1..(Len(misses[u]) - d) : Recent(misses[u], AlertWindow)[i] = misses[u][d + i]
      BY <1>1, <1>2, <2>1, <3>1, RecentOK, Zenon
    <3>3. QED
      BY <2>2, <3>2, Zenon
  <2>5. AccountOK(accounts[u], q, alerts[u])
    BY <2>1, <2>3, <2>4, TickAccount
  <2>6. accounts[u].started <= now + 1 /\ alerts[u] <= now + 1
    BY <1>2, <2>1, AccountFields
  <2>7. QED
    BY <1>1, <2>2, <2>3, <2>5, <2>6
<1>5. tries' \in [Keys -> Seq(Times)] /\ misses' \in [Users -> Seq(Times)]
  BY <1>1, <1>3, <1>4
<1>6. TypeOK'
  BY <1>1, <1>2, <1>5 DEF IInv, TypeOK
<1>7. RequestsOK'
  BY <1>1 DEF IInv, RequestsOK
<1>8. KeysOK' /\ AccountsOK'
  BY <1>3, <1>4 DEF KeysOK, AccountsOK
<1>9. QED
  BY <1>6, <1>7, <1>8 DEF IInv

LEMMA NextIInv == IInv /\ [Next]_vars => IInv'
<1> SUFFICES ASSUME IInv, [Next]_vars PROVE IInv'
  OBVIOUS
<1>1. CASE UNCHANGED vars
  BY <1>1 DEF vars, IInv, TypeOK, RequestsOK, KeysOK, UnderWay, AccountsOK
<1>2. ASSUME NEW r \in Requests, NEW i \in Ips, NEW t \in Targets, CheckFirst(r, t[1], i, t[2])
      PROVE  IInv'
  BY <1>2, CheckFirstIInv
<1>3. ASSUME NEW r \in Requests, CheckUser(r) \/ Fail(r) \/ Succeed(r) \/ Drop(r)
      PROVE  IInv'
  BY <1>3, CheckUserIInv, FailIInv, SucceedIInv, DropIInv
<1>4. CASE Tick
  BY <1>4, TickIInv
<1>5. QED
  BY <1>1, <1>2, <1>3, <1>4, Zenon DEF Next

-----------------------------------------------------------------------------
(***************************************************************************)
(* The properties.                                                         *)
(***************************************************************************)

\* Every reachable state is one of which the entries and the counters answer for
\* what they no longer count.
THEOREM Inductive == Spec => []IInv
<1>1. Init => IInv
  BY InitIInv
<1>2. IInv /\ [Next]_vars => IInv'
  BY NextIInv
<1>3. QED
  BY <1>1, <1>2, PTL DEF Spec

\* The throttle and the monitor hold entries, counters and times of the kinds that
\* the code declares; no entry counts more than max_failures.
THEOREM TypeCorrect == Spec => []TypeOK
<1>1. IInv => TypeOK
  BY DEF IInv
<1>2. QED
  BY <1>1, Inductive, PTL

LEMMA KeyBudget ==
    ASSUME IInv, NEW k \in Keys
    PROVE  Len(tries[k]) <= LeftOver + (MaxFailures - 1) + Cardinality(Requests)
<1>1. /\ entries[k] \in Attempt /\ tries[k] \in Seq(Times) /\ Len(tries[k]) \in Nat
      /\ KeyOK(entries[k], tries[k], Cardinality(UnderWay(k)))
      /\ Cardinality(UnderWay(k)) \in Nat
  BY UnderWayCount, LenProperties DEF IInv, TypeOK, KeysOK
<1>2. CASE entries[k] = NoAttempt
  BY <1>1, <1>2, Constants DEF KeyOK
<1>3. CASE entries[k] # NoAttempt /\ entries[k].until = 0
  <2>1. OpenOK(entries[k], tries[k])
    BY <1>1, <1>3 DEF KeyOK
  <2>2. PICK m \in 0..Len(tries[k]) : m <= LeftOver /\ Len(tries[k]) - m <= entries[k].failures
    BY <2>1 DEF OpenOK
  <2>3. entries[k].failures \in Nat /\ entries[k].failures < MaxFailures
    BY <1>1, <2>1, AttemptFields DEF OpenOK
  <2>4. m \in Nat /\ Len(tries[k]) \in Nat
    BY <1>1
  <2>5. Len(tries[k]) <= LeftOver + (MaxFailures - 1)
    BY <2>2, <2>3, <2>4, Constants
  <2>6. QED
    BY <2>4, <2>5, Constants
<1>4. CASE entries[k].until # 0
  <2>1. Len(tries[k]) + Cardinality(UnderWay(k)) <= LeftOver + (MaxFailures - 1) + Cardinality(Requests)
    BY <1>1, <1>4 DEF KeyOK, LockedOK
  <2>2. QED
    BY <1>1, <2>1, Constants
<1>5. QED
  BY <1>2, <1>3, <1>4

\* Whatever the limits and however many attempts are under way, a key sees at most
\* its budget of failures in any stretch of the window's length: record_failure_at.
THEOREM BudgetHolds == Spec => []WindowBudget
<1>1. IInv => WindowBudget
  BY KeyBudget DEF WindowBudget
<1>2. QED
  BY <1>1, Inductive, PTL

\* A failure in sight that a report answers for makes the report a recent one.
LEMMA RecentReport ==
    ASSUME now \in Times, NEW s \in Seq(Times), HistoryOK(s, now, AlertWindow), NEW al \in Nat,
           NEW i \in 1..Len(s), s[i] <= al + AlertWindow
    PROVE  now - al <= 2 * AlertWindow
<1>1. now \in Nat /\ s[i] \in Nat /\ now - s[i] <= AlertWindow
  BY TimesAreNumbers, Constants, HistoryFacts
<1>2. QED
  BY <1>1, Constants

LEMMA ReportedTwice ==
    ASSUME now \in Times, NEW a \in Account, NEW s \in Seq(Times), NEW al \in Nat,
           HistoryOK(s, now, AlertWindow), AccountOK(a, s, al), Len(s) >= 2 * AlertThreshold - 1
    PROVE  al # 0 /\ now - al <= 2 * AlertWindow
<1>1. Len(s) \in Nat /\ \A i \in 1..Len(s) : s[i] \in Nat
  BY HistoryFacts, Constants
<1>2. ASSUME NEW m \in 0..Len(s), m >= AlertThreshold, Reported(s, m, al)
      PROVE  al # 0 /\ now - al <= 2 * AlertWindow
  <2>1. 1 \in 1..m /\ 1 \in 1..Len(s)
    BY <1>1, <1>2, Constants
  <2>2. al # 0 /\ s[1] <= al + AlertWindow
    BY <1>2, <2>1 DEF Reported, By
  <2>3. QED
    BY <2>1, <2>2, RecentReport
<1>3. CASE a = NoAccount
  <2>1. Len(s) >= AlertThreshold /\ Len(s) \in 0..Len(s)
    BY <1>1, Constants
  <2>2. QED
    BY <1>2, <1>3, <2>1 DEF AccountOK
<1>4. CASE a # NoAccount
  <2>1. CounterOK(a, s, al)
    BY <1>4 DEF AccountOK
  <2>2. PICK m \in 0..Len(s) :
          /\ Len(s) - m <= a.count /\ Reported(s, m, al)
          /\ \A i \in (m + 1)..Len(s) : s[i] <= a.started + AlertWindow
    BY <2>1 DEF CounterOK
  <2>3. CASE m >= AlertThreshold
    BY <1>2, <2>2, <2>3
  <2>4. CASE ~(m >= AlertThreshold)
    <3>1. a.count \in Nat /\ a.started \in Nat /\ m \in Nat /\ Len(s) - m <= a.count
      BY <1>1, <2>2, AccountFields
    <3>2. m + AlertThreshold <= Len(s)
      BY <1>1, <2>4, <3>1, Constants
    <3>3. a.count >= AlertThreshold
      BY <1>1, <3>1, <3>2, Constants
    <3>4. Len(s) \in (m + 1)..Len(s) /\ Len(s) \in 1..Len(s)
      BY <1>1, <3>1, <3>2, Constants
    <3>5. al # 0 /\ al >= a.started
      BY <2>1, <3>3, Zenon DEF CounterOK
    <3>6. s[Len(s)] <= a.started + AlertWindow /\ s[Len(s)] \in Nat
      BY <1>1, <2>2, <3>4
    <3>7. s[Len(s)] <= al + AlertWindow
      <4>1. AlertWindow \in Nat
        BY Constants
      <4>2. QED
        BY <3>1, <3>5, <3>6, <4>1, Further, Zenon
    <3>8. QED
      BY <3>4, <3>5, <3>7, RecentReport
  <2>5. QED
    BY <2>3, <2>4
<1>5. QED
  BY <1>3, <1>4

LEMMA AccountReported ==
    ASSUME IInv, NEW u \in Users, Len(misses[u]) >= 2 * AlertThreshold - 1
    PROVE  alerts[u] # 0 /\ now - alerts[u] <= 2 * AlertWindow
<1>1. /\ accounts[u] \in Account /\ misses[u] \in Seq(Times) /\ now \in Times
      /\ alerts[u] \in Nat /\ HistoryOK(misses[u], now, AlertWindow)
      /\ AccountOK(accounts[u], misses[u], alerts[u])
  BY Constants DEF IInv, TypeOK, AccountsOK
<1>2. QED
  BY <1>1, ReportedTwice

\* Whatever the threshold and the window, no burst of failures slips through the
\* seam of two windows of note_failure_at.
THEOREM NoBlindSeam == Spec => []AlertNotMissed
<1>1. IInv => AlertNotMissed
  BY AccountReported DEF AlertNotMissed
<1>2. QED
  BY <1>1, Inductive, PTL

\* What a step may do to a key that is locked: leave it, or let it go.
LEMMA LockKept ==
    ASSUME IInv, [Next]_vars, NEW k \in Keys, Locked(k)
    PROVE  entries'[k].until \in {0, entries[k].until}
<1>0. /\ now \in Times /\ now \in Nat /\ entries \in [Keys -> Attempt]
      /\ entries[k] \in Attempt /\ entries[k].until \in Nat /\ entries[k].until > now
  BY TimesAreNumbers, AttemptFields DEF IInv, TypeOK, Locked
<1>1. ASSUME NEW k0, entries' = Looked(k0)
      PROVE  entries'[k] = entries[k]
  BY <1>0, <1>1 DEF Looked
<1>2. CASE UNCHANGED vars
  BY <1>2 DEF vars
<1>3. ASSUME NEW r \in Requests, NEW i \in Ips, NEW t \in Targets, CheckFirst(r, t[1], i, t[2])
      PROVE  entries'[k].until \in {0, entries[k].until}
  BY <1>3, <1>1 DEF CheckFirst
<1>4. ASSUME NEW r \in Requests, CheckUser(r)
      PROVE  entries'[k].until \in {0, entries[k].until}
  BY <1>4, <1>1 DEF CheckUser
<1>5. ASSUME NEW r \in Requests, Fail(r)
      PROVE  entries'[k].until \in {0, entries[k].until}
  <2>1. Pruned(entries[k]) = entries[k]
    BY <1>0 DEF Pruned
  <2>2. Failed(entries[k]) = entries[k]
    BY <1>0 DEF Failed
  <2>3. entries'[k] \in {Failed(Pruned(entries[k])), Pruned(entries[k])}
    BY <1>5 DEF Fail
  <2>4. QED
    BY <2>1, <2>2, <2>3
<1>6. ASSUME NEW r \in Requests, Succeed(r)
      PROVE  entries'[k].until \in {0, entries[k].until}
  BY <1>6, NoAttemptOK DEF Succeed
<1>7. ASSUME NEW r \in Requests, Drop(r)
      PROVE  entries'[k].until \in {0, entries[k].until}
  BY <1>7 DEF Drop
<1>8. CASE Tick
  BY <1>8 DEF Tick
<1>9. QED
  BY <1>2, <1>3, <1>4, <1>5, <1>6, <1>7, <1>8, Zenon DEF Next

\* No step moves the end of a lockout that runs: it is kept until it ends, or a
\* success ends it.
THEOREM LockEndFixed == Spec => LockNotExtended
<1>1. IInv /\ [Next]_vars
        => [\A k \in Keys : Locked(k) /\ entries'[k].until # 0
                => entries'[k].until = entries[k].until]_vars
  BY LockKept
<1>2. QED
  BY <1>1, Inductive, PTL DEF Spec, LockNotExtended

(***************************************************************************)
(*                          The redaction scanner                          *)
(***************************************************************************)

\* What is shown is made of.
Letters == Chars \cup {REDACTED}

\* What may stand between a name and its delimiter, and what ends a bare value.
Gap == Quotes \cup {"_"}
Terminators == {c \in Chars : IsValueTerminator(c)}

\* A whole word, from a to b.
IsWord(s, a, b) ==
    /\ a \in 1..Len(s) /\ b \in 1..Len(s) /\ a <= b
    /\ \A p \in a..b : s[p] \in {"w", "a"}
    /\ a = 1 \/ s[a - 1] \notin {"w", "a"}
    /\ b = Len(s) \/ s[b + 1] \notin {"w", "a"}

\* A sensitive name, and nothing but a gap from there to before d.
Named(s, d) ==
    \E a, b \in 1..Len(s) :
        /\ IsWord(s, a, b) /\ b < d
        /\ \A p \in (b + 1)..(d - 1) : s[p] \in Gap
        /\ \E p \in a..b : s[p] = "w"

\* The value behind d begins at v.
Begins(s, d, v) ==
    /\ v \in (d + 1)..Len(s)
    /\ s[v] # "_"
    /\ \A p \in (d + 1)..(v - 1) : s[p] = "_"

\* The value behind d has an end in the text.
Closed(s, d) ==
    \E v \in 1..Len(s), e \in 1..Len(s) :
        /\ Begins(s, d, v) /\ v <= e
        /\ IF s[v] \in Quotes THEN e > v /\ s[e] = s[v] ELSE s[e] \in Terminators

\* It has not, but a text that goes on with c ends it.
Pending(s, d, c) ==
    /\ c \in Terminators
    /\ \/ \E v \in 1..Len(s) : Begins(s, d, v) /\ s[v] \notin Quotes
       \/ c = "&" /\ \A p \in (d + 1)..Len(s) : s[p] = "_"

\* What was written for s up to place p is safe however s goes on: the values of
\* sensitive parameters are masked, and none of them takes in what follows.
Settled(s, o, p) ==
    \A d \in Secrets(o) :
        /\ \A q \in ToQuote(o, d) : o[q] = REDACTED
        /\ Closed(o, d) \/ p > Len(s) \/ Pending(o, d, s[p])

\* A word that was written, or read, does not go on.
WordEnds(s, o, p) ==
    p <= Len(s) /\ IsKeyChar(s[p]) =>
        /\ o # <<>> => ~IsKeyChar(o[Len(o)])
        /\ p > 1 => ~IsKeyChar(s[p - 1])

\* No delimiter follows a sensitive name that was written as it is.
NameEnds(s, o, p) ==
    Named(o, Len(o) + 1) /\ After(s, p, Gap) <= Len(s) => s[After(s, p, Gap)] # "="

\* What was written shows what was read but for the values behind some delimiters.
Hidden(s, D) == UNION {ToQuote(s, d) : d \in D}
Faithful(s, o, p) ==
    \E D \in SUBSET Secrets(s) :
        Hidden(s, D) \subseteq 1..(p - 1) /\ Shows(s, p - 1, Hidden(s, D), o)

ScanOK(s, o, p) == Settled(s, o, p) /\ WordEnds(s, o, p) /\ NameEnds(s, o, p) /\ Faithful(s, o, p)

TextsOK ==
    /\ viewer \in Roles
    /\ input \in Seq(Chars)
    /\ pos \in 1..(Len(input) + 1)
    /\ out \in Seq(Letters)

RedactInv ==
    /\ TextsOK
    /\ viewer # "admin" => ScanOK(input, out, pos)
    /\ shown => ~Scanning /\ (viewer = "admin" => out = input)

-----------------------------------------------------------------------------
LEMMA CharFacts ==
    /\ Gap = {"dq", "sq", "_"} /\ Quotes = {"dq", "sq"}
    /\ Terminators = {"dq", "sq", "_", "&"}
    /\ Chars = {"w", "a", "dq", "sq", "_", "=", "&", "/"}
    /\ Letters = {"w", "a", "dq", "sq", "_", "=", "&", "/", "+++++"}
    /\ {c \in Chars : IsKeyChar(c)} = {"w", "a"}
  BY DEF Gap, Quotes, Terminators, Chars, Letters, REDACTED, IsKeyChar, IsValueTerminator

LEMMA MinIsLeast ==
    ASSUME NEW S \in SUBSET Nat, S # {}
    PROVE  Min(S) \in S /\ \A y \in S : Min(S) <= y
<1> DEFINE R == {ss \in Nat \X Nat : ss[1] < ss[2]}
<1>1. IsWellFoundedOn(R, Nat)
  BY NatLessThanWellFounded, Zenon DEF OpToRel
<1>2. PICK x \in S : \A y \in S : ~ (<<y, x>> \in R)
  <2> HIDE DEF R
  <2>1. QED
    BY <1>1, WFMin
<1>3. \A y \in S : x <= y
  <2>1. \A y \in S : ~ (<<y, x>>[1] < <<y, x>>[2])
    BY <1>2
  <2>2. QED
    BY <2>1
<1>4. QED
  BY <1>3 DEF Min

\* The end of a run: everything before it is of the run, and it is not.
LEMMA AfterFacts ==
    ASSUME NEW T, NEW s \in Seq(T), NEW p \in 1..(Len(s) + 1), NEW these
    PROVE  /\ After(s, p, these) \in p..(Len(s) + 1)
           /\ \A q \in p..(After(s, p, these) - 1) : s[q] \in these
           /\ After(s, p, these) <= Len(s) => s[After(s, p, these)] \notin these
<1> DEFINE S == {q \in p..Len(s) : s[q] \notin these} \cup {Len(s) + 1}
<1>1. Len(s) \in Nat /\ p \in Nat
  BY LenProperties
<1>2. S \in SUBSET Nat /\ S # {}
  BY <1>1
<1>3. Min(S) \in S /\ \A y \in S : Min(S) <= y
  BY <1>2, MinIsLeast
<1>4. After(s, p, these) = Min(S)
  BY DEF After
<1> HIDE DEF S
<1>5. Min(S) \in p..(Len(s) + 1)
  BY <1>1, <1>3 DEF S
<1>6. \A q \in p..(Min(S) - 1) : s[q] \in these
  BY <1>1, <1>3, <1>5 DEF S
<1>7. Min(S) <= Len(s) => s[Min(S)] \notin these
  BY <1>1, <1>3, <1>5 DEF S
<1>8. QED
  BY <1>4, <1>5, <1>6, <1>7

\* The end of a run does not change while one goes along it.
LEMMA AfterStep ==
    ASSUME NEW T, NEW s \in Seq(T), NEW p \in 1..Len(s), NEW these
    PROVE  /\ s[p] \in these => After(s, p, these) = After(s, p + 1, these)
           /\ s[p] \notin these => After(s, p, these) = p
<1>1. Len(s) \in Nat /\ p \in 1..(Len(s) + 1) /\ p + 1 \in 1..(Len(s) + 1)
  BY LenProperties
<1>2. PICK x : x = After(s, p, these)
  OBVIOUS
<1>3. PICK y : y = After(s, p + 1, these)
  OBVIOUS
<1>4. /\ x \in p..(Len(s) + 1)
      /\ \A q \in p..(x - 1) : s[q] \in these
      /\ x <= Len(s) => s[x] \notin these
  BY <1>1, <1>2, AfterFacts
<1>5. /\ y \in (p + 1)..(Len(s) + 1)
      /\ \A q \in (p + 1)..(y - 1) : s[q] \in these
      /\ y <= Len(s) => s[y] \notin these
  BY <1>1, <1>3, AfterFacts
<1>6. s[p] \in these => x = y
  <2> HAVE s[p] \in these
  <2>1. x > p
    BY <1>1, <1>4
  <2>2. ~(x < y)
    BY <1>1, <1>4, <1>5, <2>1
  <2>3. ~(y < x)
    BY <1>1, <1>4, <1>5
  <2>4. QED
    BY <1>1, <1>4, <1>5, <2>2, <2>3
<1>7. s[p] \notin these => x = p
  BY <1>1, <1>4
<1>8. QED
  BY <1>2, <1>3, <1>6, <1>7

-----------------------------------------------------------------------------
\* The reference definitions, with words as pairs of places.
LEMMA SecretsAre ==
    ASSUME NEW s, Len(s) \in Nat, NEW d
    PROVE  d \in Secrets(s) <=> d \in 1..Len(s) /\ s[d] = "=" /\ Named(s, d)
<1>1. \A a, b : <<a, b>> \in Words(s) <=> IsWord(s, a, b)
  BY DEF Words, IsWord
<1>2. \A w \in Words(s) : w = <<w[1], w[2]>> /\ w[1] \in 1..Len(s) /\ w[2] \in 1..Len(s)
  BY DEF Words
<1>3. ASSUME d \in Secrets(s) PROVE d \in 1..Len(s) /\ s[d] = "=" /\ Named(s, d)
  <2>1. d \in 1..Len(s) /\ s[d] = "="
    BY <1>3 DEF Secrets
  <2>2. PICK w \in Words(s) : /\ w[2] < d
                              /\ \A p \in (w[2] + 1)..(d - 1) : s[p] \in Gap
                              /\ \E p \in w[1]..w[2] : s[p] = "w"
    BY <1>3 DEF Secrets, Gap
  <2>3. IsWord(s, w[1], w[2])
    BY <1>1, <1>2
  <2>4. QED
    BY <1>2, <2>1, <2>2, <2>3 DEF Named
<1>4. ASSUME d \in 1..Len(s), s[d] = "=", Named(s, d) PROVE d \in Secrets(s)
  <2>1. PICK a, b \in 1..Len(s) : /\ IsWord(s, a, b) /\ b < d
                                  /\ \A p \in (b + 1)..(d - 1) : s[p] \in Gap
                                  /\ \E p \in a..b : s[p] = "w"
    BY <1>4 DEF Named
  <2>2. <<a, b>> \in Words(s)
    BY <1>1, <2>1
  <2>3. PICK w : w = <<a, b>>
    OBVIOUS
  <2>4. w[1] = a /\ w[2] = b /\ w \in Words(s)
    BY <2>2, <2>3
  <2>5. \E u \in Words(s) :
          /\ u[2] < d
          /\ \A p \in (u[2] + 1)..(d - 1) : s[p] \in Gap
          /\ \E p \in u[1]..u[2] : s[p] = "w"
    BY <2>1, <2>4
  <2>6. QED
    BY <1>4, <2>5 DEF Secrets, Gap
<1>5. QED
  BY <1>3, <1>4

\* A place is in the value behind d.
InValue(s, v, p) ==
    IF s[v] \in Quotes
    THEN p > v /\ \A q \in (v + 1)..p : s[q] # s[v]
    ELSE p >= v /\ \A q \in v..p : s[q] \notin Terminators

LEMMA BeginsOnce ==
    ASSUME NEW s, Len(s) \in Nat, NEW d \in Nat, NEW u, NEW v, Begins(s, d, u), Begins(s, d, v)
    PROVE  u = v
<1>1. /\ u \in (d + 1)..Len(s) /\ s[u] # "_" /\ \A p \in (d + 1)..(u - 1) : s[p] = "_"
      /\ v \in (d + 1)..Len(s) /\ s[v] # "_" /\ \A p \in (d + 1)..(v - 1) : s[p] = "_"
  BY DEF Begins
<1>2. u \in Nat /\ v \in Nat /\ u >= d + 1 /\ v >= d + 1
  <2>1. u \in (d + 1)..Len(s) /\ v \in (d + 1)..Len(s)
    BY <1>1
  <2>2. QED
    BY <2>1
<1>3. ASSUME u < v PROVE FALSE
  <2>1. u \in (d + 1)..(v - 1)
    BY <1>2, <1>3
  <2>2. QED
    BY <1>1, <2>1
<1>4. ASSUME v < u PROVE FALSE
  <2>1. v \in (d + 1)..(u - 1)
    BY <1>2, <1>4
  <2>2. QED
    BY <1>1, <2>1
<1>5. QED
  BY <1>2, <1>3, <1>4

LEMMA ValueIs ==
    ASSUME NEW s, Len(s) \in Nat, \A q \in 1..Len(s) : s[q] \in Letters, NEW d \in Nat, NEW p
    PROVE  p \in ToQuote(s, d) <=> p \in 1..Len(s) /\ \E v \in 1..Len(s) : Begins(s, d, v) /\ InValue(s, v, p)
<1>1. p \in ToQuote(s, d) <=> p \in 1..Len(s) /\ \E v \in (d + 1)..Len(s) :
         /\ s[v] # "_" /\ \A q \in (d + 1)..(v - 1) : s[q] = "_"
         /\ IF s[v] \in Quotes
            THEN p > v /\ \A q \in (v + 1)..p : s[q] # s[v]
            ELSE p >= v /\ \A q \in v..p : s[q] \notin Quotes \cup {"_", "&"}
  <2>1. ASSUME NEW v \in ValueBegins(s, d), NEW x \in ValueBegins(s, d) PROVE v = x
    <3>1. Begins(s, d, v) /\ Begins(s, d, x)
      BY Zenon DEF ValueBegins, Begins
    <3>2. QED
      BY <3>1, BeginsOnce
  <2>2. ASSUME NEW v \in ValueBegins(s, d), s[v] \in Quotes
        PROVE  p \in ToQuote(s, d) <=> p \in 1..Len(s) /\ p > v /\ \A q \in (v + 1)..p : s[q] # s[v]
    BY <2>1, <2>2, Zenon DEF ToQuote, Value, BehindQuote
  <2>3. ASSUME NEW v \in ValueBegins(s, d), s[v] \notin Quotes
        PROVE  p \in ToQuote(s, d) <=>
                 p \in 1..Len(s) /\ p >= v /\ \A q \in v..p : s[q] \notin Quotes \cup {"_", "&"}
    <3>1. p \in ToQuote(s, d) <=> /\ p \in 1..Len(s)
                                  /\ p >= v /\ \A q \in v..p : s[q] \notin {"_", "&"}
                                  /\ ~\E q \in v..p : s[q] \in Quotes
      BY <2>1, <2>3, Zenon DEF ToQuote, Value, BehindQuote
    <3>2. QED
      BY <3>1, Zenon
  <2>4. p \in ToQuote(s, d) => \E v \in ValueBegins(s, d) : TRUE
    BY Zenon DEF ToQuote, Value
  <2>5. p \in ToQuote(s, d) <=> p \in 1..Len(s) /\ \E v \in ValueBegins(s, d) :
           IF s[v] \in Quotes
           THEN p > v /\ \A q \in (v + 1)..p : s[q] # s[v]
           ELSE p >= v /\ \A q \in v..p : s[q] \notin Quotes \cup {"_", "&"}
    BY <2>2, <2>3, <2>4, Zenon
  <2>6. QED
    BY <2>5, Zenon DEF ValueBegins
<1>2. Quotes \cup {"_", "&"} = Terminators
  BY CharFacts
<1>3. p \in ToQuote(s, d) <=> p \in 1..Len(s) /\ \E v \in (d + 1)..Len(s) : Begins(s, d, v) /\ InValue(s, v, p)
  BY <1>1, <1>2 DEF Begins, InValue
<1>4. \A v \in 1..Len(s) : Begins(s, d, v) => v \in (d + 1)..Len(s)
  BY DEF Begins
<1>5. (d + 1)..Len(s) \subseteq 1..Len(s)
  OBVIOUS
<1>6. QED
  BY <1>3, <1>4, <1>5

LEMMA NoValue ==
    ASSUME NEW s, Len(s) \in Nat, \A q \in 1..Len(s) : s[q] \in Letters, NEW d \in Nat,
           \A p \in (d + 1)..Len(s) : s[p] = "_"
    PROVE  ToQuote(s, d) = {}
<1>1. \A v \in 1..Len(s) : ~Begins(s, d, v)
  BY DEF Begins
<1>2. QED
  BY <1>1, ValueIs

LEMMA BareValue ==
    ASSUME NEW s, Len(s) \in Nat, \A q \in 1..Len(s) : s[q] \in Letters, NEW d \in Nat,
           NEW v, Begins(s, d, v), s[v] \notin Quotes,
           NEW e \in v..(Len(s) + 1), \A q \in v..(e - 1) : s[q] \notin Terminators,
           e <= Len(s) => s[e] \in Terminators
    PROVE  ToQuote(s, d) = v..(e - 1)
<1>1. v \in (d + 1)..Len(s)
  BY DEF Begins
<1>2. \A p \in 1..Len(s) : p \in ToQuote(s, d) <=> InValue(s, v, p)
  BY <1>1, ValueIs, BeginsOnce
<1>3. \A p \in 1..Len(s) : InValue(s, v, p) <=> p \in v..(e - 1)
  BY <1>1 DEF InValue
<1>4. ToQuote(s, d) \subseteq 1..Len(s)
  BY DEF ToQuote, Value
<1>5. v..(e - 1) \subseteq 1..Len(s)
  BY <1>1
<1>6. QED
  BY <1>2, <1>3, <1>4, <1>5

LEMMA QuotedValue ==
    ASSUME NEW s, Len(s) \in Nat, \A q \in 1..Len(s) : s[q] \in Letters, NEW d \in Nat,
           NEW v, Begins(s, d, v), s[v] \in Quotes,
           NEW e \in (v + 1)..(Len(s) + 1), \A q \in (v + 1)..(e - 1) : s[q] # s[v],
           e <= Len(s) => s[e] = s[v]
    PROVE  ToQuote(s, d) = (v + 1)..(e - 1)
<1>1. v \in (d + 1)..Len(s)
  BY DEF Begins
<1>2. \A p \in 1..Len(s) : p \in ToQuote(s, d) <=> InValue(s, v, p)
  BY <1>1, ValueIs, BeginsOnce
<1>3. \A p \in 1..Len(s) : InValue(s, v, p) <=> p \in (v + 1)..(e - 1)
  BY <1>1 DEF InValue
<1>4. ToQuote(s, d) \subseteq 1..Len(s)
  BY DEF ToQuote, Value
<1>5. (v + 1)..(e - 1) \subseteq 1..Len(s)
  BY <1>1
<1>6. QED
  BY <1>2, <1>3, <1>4, <1>5

-----------------------------------------------------------------------------
\* A text that goes on.
GoesOn(s, t) == Len(s) <= Len(t) /\ \A p \in 1..Len(s) : t[p] = s[p]

LEMMA TextType ==
    ASSUME NEW s \in Seq(Letters)
    PROVE  Len(s) \in Nat /\ \A q \in 1..Len(s) : s[q] \in Letters
  BY LenProperties, ElementOfSeq

\* What follows a place gives it no name.
LEMMA NamedBefore ==
    ASSUME NEW s \in Seq(Letters), NEW t \in Seq(Letters), GoesOn(s, t),
           NEW d \in 1..(Len(s) + 1), Named(t, d)
    PROVE  Named(s, d)
<1>1. Len(s) \in Nat /\ Len(t) \in Nat /\ Len(s) <= Len(t) /\ \A p \in 1..Len(s) : t[p] = s[p]
  BY TextType DEF GoesOn
<1>2. PICK a, b \in 1..Len(t) : /\ IsWord(t, a, b) /\ b < d
                                /\ \A p \in (b + 1)..(d - 1) : t[p] \in Gap
                                /\ \E p \in a..b : t[p] = "w"
  BY DEF Named
<1>3. a \in 1..Len(s) /\ b \in 1..Len(s) /\ a <= b
  BY <1>1, <1>2 DEF IsWord
<1>4. \A p \in a..b : t[p] = s[p]
  BY <1>1, <1>3
<1>5. a = 1 \/ s[a - 1] \notin {"w", "a"}
  BY <1>1, <1>2, <1>3 DEF IsWord
<1>6. b = Len(s) \/ s[b + 1] \notin {"w", "a"}
  <2>1. CASE b = Len(s)
    BY <2>1
  <2>2. CASE b < Len(s)
    <3>1. b + 1 \in 1..Len(s) /\ b # Len(t)
      BY <1>1, <1>3, <2>2
    <3>2. t[b + 1] = s[b + 1]
      BY <1>1, <3>1
    <3>3. QED
      BY <1>2, <3>1, <3>2 DEF IsWord
  <2>3. QED
    BY <1>1, <1>3, <2>1, <2>2
<1>7. IsWord(s, a, b)
  BY <1>2, <1>3, <1>4, <1>5, <1>6 DEF IsWord
<1>8. \A p \in (b + 1)..(d - 1) : s[p] \in Gap
  <2> TAKE p \in (b + 1)..(d - 1)
  <2>1. p \in 1..Len(s)
    BY <1>1, <1>3
  <2>2. QED
    BY <1>1, <1>2, <2>1
<1>9. \E p \in a..b : s[p] = "w"
  BY <1>2, <1>4
<1>10. QED
  BY <1>2, <1>3, <1>7, <1>8, <1>9 DEF Named

LEMMA SecretBefore ==
    ASSUME NEW s \in Seq(Letters), NEW t \in Seq(Letters), GoesOn(s, t),
           NEW d \in Secrets(t), d <= Len(s)
    PROVE  d \in Secrets(s)
<1>1. Len(s) \in Nat /\ Len(t) \in Nat
  BY TextType
<1>2. d \in 1..Len(t) /\ t[d] = "=" /\ Named(t, d)
  BY <1>1, SecretsAre
<1>3. d \in 1..Len(s) /\ d \in 1..(Len(s) + 1)
  BY <1>1, <1>2
<1>4. s[d] = "=" /\ Named(s, d)
  BY <1>2, <1>3, NamedBefore DEF GoesOn
<1>5. QED
  BY <1>1, <1>3, <1>4, SecretsAre

\* A value that has an end, or is ended by what follows, does not grow.
LEMMA ValueBefore ==
    ASSUME NEW s \in Seq(Letters), NEW t \in Seq(Letters), GoesOn(s, t), NEW d \in 1..Len(s),
           Closed(s, d) \/ (Len(t) > Len(s) /\ Pending(s, d, t[Len(s) + 1]))
    PROVE  Closed(t, d) /\ ToQuote(t, d) \subseteq ToQuote(s, d)
<1>0. PICK n, k : n = Len(s) /\ k = n + 1
  OBVIOUS
<1>1. /\ n \in Nat /\ k \in Nat /\ k = n + 1 /\ k > n /\ Len(t) \in Nat /\ n <= Len(t) /\ d \in Nat /\ d <= n
      /\ \A p \in 1..n : t[p] = s[p]
      /\ \A q \in 1..n : s[q] \in Letters
      /\ \A q \in 1..Len(t) : t[q] \in Letters
  BY <1>0, TextType DEF GoesOn
<1>2. \A v \in 1..n : Begins(s, d, v) => Begins(t, d, v)
  <2> SUFFICES ASSUME NEW v \in 1..n, Begins(s, d, v) PROVE Begins(t, d, v)
    OBVIOUS
  <2>1. /\ v \in (d + 1)..n /\ s[v] # "_" /\ \A p \in (d + 1)..(v - 1) : s[p] = "_"
    BY <1>0 DEF Begins
  <2>2. v \in (d + 1)..Len(t) /\ t[v] # "_"
    <3>1. t[v] = s[v]
      BY <1>1
    <3>2. v \in (d + 1)..n
      BY <2>1
    <3>3. v \in (d + 1)..Len(t)
      BY <1>1, <3>2
    <3>4. QED
      BY <2>1, <3>1, <3>3
  <2>3. \A p \in (d + 1)..(v - 1) : t[p] = "_"
    <3> TAKE p \in (d + 1)..(v - 1)
    <3>1. p \in 1..n
      BY <1>1
    <3>2. QED
      BY <1>1, <2>1, <3>1
  <2>4. QED
    BY <2>2, <2>3 DEF Begins
<1>3. ASSUME NEW v \in 1..n, Begins(s, d, v), NEW e \in v..Len(t), e <= k,
             IF t[v] \in Quotes THEN e > v /\ t[e] = t[v] ELSE t[e] \in Terminators
      PROVE  Closed(t, d) /\ ToQuote(t, d) \subseteq ToQuote(s, d)
  <2>1. Begins(t, d, v) /\ v \in 1..Len(t) /\ e \in 1..Len(t) /\ v <= e
    BY <1>1, <1>2, <1>3
  <2>2. Closed(t, d)
    BY <1>3, <2>1 DEF Closed
  <2>3. ASSUME NEW p \in ToQuote(t, d) PROVE p \in ToQuote(s, d)
    <3>1. p \in 1..Len(t) /\ InValue(t, v, p)
      BY <1>1, <2>1, ValueIs, BeginsOnce
    <3>2. p \in 1..n
      BY <1>1, <1>3, <2>1, <3>1 DEF InValue
    <3>3. t[v] = s[v] /\ \A q \in v..p : t[q] = s[q]
      BY <1>1, <1>3, <3>2
    <3>4. \A q \in (v + 1)..p : q \in v..p
      BY <1>3
    <3>5. InValue(s, v, p)
      BY <3>1, <3>3, <3>4 DEF InValue
    <3>6. QED
      BY <1>0, <1>1, <1>3, <3>2, <3>5, ValueIs
  <2>4. QED
    BY <2>2, <2>3
<1>4. CASE Closed(s, d)
  <2>1. PICK v \in 1..n, e \in 1..n :
          /\ Begins(s, d, v) /\ v <= e
          /\ IF s[v] \in Quotes THEN e > v /\ s[e] = s[v] ELSE s[e] \in Terminators
    BY <1>0, <1>4 DEF Closed
  <2>2. e \in v..Len(t) /\ e <= k /\ t[v] = s[v] /\ t[e] = s[e]
    BY <1>1, <2>1
  <2>3. QED
    BY <1>3, <2>1, <2>2
<1>5. CASE Len(t) > n /\ Pending(s, d, t[k])
  <2>1. k \in 1..Len(t) /\ t[k] \in Terminators
    <3>1. k \in 1..Len(t)
      BY <1>1, <1>5
    <3>2. QED
      BY <1>5, <3>1 DEF Pending
  <2>2. ASSUME NEW v \in 1..n, Begins(s, d, v), s[v] \notin Quotes
        PROVE  Closed(t, d) /\ ToQuote(t, d) \subseteq ToQuote(s, d)
    <3>1. k \in v..Len(t) /\ t[v] \notin Quotes
      BY <1>1, <2>1, <2>2
    <3>2. QED
      BY <1>1, <1>3, <2>1, <2>2, <3>1
  <2>3. ASSUME t[k] = "&", \A p \in (d + 1)..n : s[p] = "_"
        PROVE  Closed(t, d) /\ ToQuote(t, d) \subseteq ToQuote(s, d)
    <3>1. t[k] # "_" /\ t[k] \notin Quotes
      BY <2>3, CharFacts
    <3>2. Begins(t, d, k)
      <4>1. k \in (d + 1)..Len(t)
        BY <1>1, <2>1
      <4>2. \A p \in (d + 1)..(k - 1) : t[p] = "_"
        <5> TAKE p \in (d + 1)..(k - 1)
        <5>1. p \in 1..n /\ p \in (d + 1)..n
          BY <1>1
        <5>2. QED
          BY <1>1, <2>3, <5>1
      <4>3. QED
        BY <3>1, <4>1, <4>2, Zenon DEF Begins
    <3>3. Closed(t, d)
      <4>1. k <= k
        BY <1>1
      <4>2. QED
        BY <2>1, <3>1, <3>2, <4>1, Zenon DEF Closed
    <3>4. ASSUME NEW p \in ToQuote(t, d) PROVE FALSE
      <4>1. p \in 1..Len(t) /\ InValue(t, k, p)
        BY <1>1, <2>1, <3>2, ValueIs, BeginsOnce
      <4>2. p >= k /\ \A q \in k..p : t[q] \notin Terminators
        BY <3>1, <4>1 DEF InValue
      <4>3. k \in k..p
        BY <1>1, <4>1, <4>2
      <4>4. QED
        BY <2>1, <4>2, <4>3
    <3>5. QED
      BY <3>3, <3>4
  <2>4. QED
    BY <1>0, <1>5, <2>2, <2>3 DEF Pending
<1>6. QED
  BY <1>0, <1>4, <1>5

-----------------------------------------------------------------------------
\* Of the first n places, those that a reader is left with, and how many they are.
Left(n, H) == {p \in 1..n : p \notin H \/ p - 1 \notin H}
Rank(n, H) == Cardinality(Left(n, H))

\* What stands for place p of the text.
Stands(s, p, H, c) == (p \in H => c = REDACTED) /\ (p \notin H => c = s[p])

LEMMA RankFacts ==
    ASSUME NEW n \in Nat, NEW H
    PROVE  /\ IsFiniteSet(Left(n, H)) /\ Rank(n, H) \in Nat
           /\ \A p \in 0..n : Left(p, H) \subseteq Left(n, H) /\ Rank(p, H) \in Nat /\ Rank(p, H) <= Rank(n, H)
           /\ \A p \in Left(n, H) : p \in Left(p, H) /\ Rank(p, H) >= 1
<1>1. \A m \in Nat : IsFiniteSet(Left(m, H)) /\ Rank(m, H) \in Nat
  <2> TAKE m \in Nat
  <2>1. IsFiniteSet(1..m)
    BY FS_Interval
  <2>2. Left(m, H) \subseteq 1..m
    BY DEF Left
  <2>3. QED
    BY <2>1, <2>2, FS_Subset, FS_CardinalityType DEF Rank
<1>2. ASSUME NEW p \in 0..n PROVE Left(p, H) \subseteq Left(n, H) /\ Rank(p, H) \in Nat /\ Rank(p, H) <= Rank(n, H)
  <2>1. p \in Nat
    OBVIOUS
  <2>2. Left(p, H) \subseteq Left(n, H)
    BY DEF Left
  <2>3. QED
    BY <1>1, <2>1, <2>2, FS_Subset DEF Rank
<1>3. ASSUME NEW p \in Left(n, H) PROVE p \in Left(p, H) /\ Rank(p, H) >= 1
  <2>1. p \in Nat /\ p \in Left(p, H)
    BY DEF Left
  <2>2. Rank(p, H) # 0
    BY <1>1, <2>1, FS_EmptySet DEF Rank
  <2>3. QED
    BY <1>1, <2>1, <2>2
<1>4. QED
  BY <1>1, <1>2, <1>3

LEMMA ShowsIs ==
    ASSUME NEW s, NEW n \in Nat, NEW H, NEW o
    PROVE  Shows(s, n, H, o) <=>
             /\ Len(o) = Rank(n, H)
             /\ \A p \in Left(n, H) : Stands(s, p, H, o[Rank(p, H)])
<1>1. \A p \in Left(n, H) : {q \in Left(n, H) : q <= p} = Left(p, H)
  BY DEF Left
<1>2. Left(n, H) = {p \in 1..n : p \notin H \/ p - 1 \notin H}
  BY DEF Left
<1>3. Shows(s, n, H, o) <=>
             /\ Len(o) = Cardinality(Left(n, H))
             /\ \A p \in Left(n, H) :
                  Stands(s, p, H, o[Cardinality({q \in Left(n, H) : q <= p})])
  BY <1>2 DEF Shows, Stands
<1>4. QED
  BY <1>1, <1>3 DEF Rank

\* It depends on what is hidden up to n only.
LEMMA ShowsLocal ==
    ASSUME NEW s, NEW n \in Nat, NEW H, NEW G, NEW o, Shows(s, n, H, o),
           \A p \in 0..n : p \in H <=> p \in G
    PROVE  Shows(s, n, G, o)
<1>1. ASSUME NEW m \in 0..n PROVE Left(m, H) = Left(m, G)
  <2>1. \A p \in 1..m : p \in 0..n /\ p - 1 \in 0..n
    OBVIOUS
  <2>2. \A p \in 1..m : (p \in H <=> p \in G) /\ (p - 1 \in H <=> p - 1 \in G)
    BY <2>1
  <2>3. QED
    BY <2>2 DEF Left
<1>2. n \in 0..n /\ \A p \in Left(n, H) : p \in 0..n
  BY DEF Left
<1>3. Rank(n, G) = Rank(n, H) /\ Left(n, G) = Left(n, H)
  BY <1>1, <1>2 DEF Rank
<1>4. \A p \in Left(n, H) : Rank(p, G) = Rank(p, H)
  BY <1>1, <1>2 DEF Rank
<1>5. QED
  <2>1. /\ Len(o) = Rank(n, H)
        /\ \A p \in Left(n, H) : Stands(s, p, H, o[Rank(p, H)])
    BY ShowsIs
  <2>2. \A p \in Left(n, H) : Stands(s, p, G, o[Rank(p, G)])
    BY <1>2, <1>4, <2>1 DEF Stands
  <2>3. QED
    BY <1>3, <2>1, <2>2, ShowsIs

LEMMA ShowsFacts ==
    ASSUME NEW s, NEW n \in Nat, NEW H, NEW o, Shows(s, n, H, o)
    PROVE  /\ Len(o) = Rank(n, H)
           /\ \A p \in Left(n, H) : Stands(s, p, H, o[Rank(p, H)])
  BY ShowsIs
\* Places that are not hidden are copied.
LEMMA ShowsCopy ==
    ASSUME NEW s, NEW n \in Nat, NEW m \in Nat, n <= m, NEW H, NEW o \in Seq(Letters),
           Shows(s, n, H, o), \A p \in (n + 1)..m : p \notin H,
           NEW t \in Seq(Letters), Len(t) = m - n, \A k \in 1..(m - n) : t[k] = s[n + k]
    PROVE  Shows(s, m, H, o \o t)
<1>1. \A p \in n..m : Left(p, H) = Left(n, H) \cup (n + 1)..p
  BY DEF Left
<1>2. \A p \in n..m : Left(n, H) \cap (n + 1)..p = {}
  BY DEF Left
<1>3. \A p \in n..m : Rank(p, H) = Rank(n, H) + (p - n)
  <2> TAKE p \in n..m
  <2>1. IsFiniteSet((n + 1)..p) /\ Cardinality((n + 1)..p) = p - n
    <3>1. n + 1 \in Int /\ p \in Int /\ n <= p
      OBVIOUS
    <3>2. IsFiniteSet((n + 1)..p)
          /\ Cardinality((n + 1)..p) = IF n + 1 > p THEN 0 ELSE p - (n + 1) + 1
      BY <3>1, FS_Interval
    <3>3. QED
      BY <3>1, <3>2
  <2>2. IsFiniteSet(Left(n, H)) /\ Rank(n, H) \in Nat
    BY RankFacts
  <2>3. Cardinality(Left(n, H) \cup (n + 1)..p)
          = Cardinality(Left(n, H)) + Cardinality((n + 1)..p) - Cardinality(Left(n, H) \cap (n + 1)..p)
    BY <2>1, <2>2, FS_Union
  <2>4. Cardinality({}) = 0
    BY FS_EmptySet
  <2>5. Left(p, H) = Left(n, H) \cup (n + 1)..p /\ Left(n, H) \cap (n + 1)..p = {}
    BY <1>1, <1>2
  <2>6. Cardinality(Left(p, H)) = Cardinality(Left(n, H)) + (p - n) - 0
    BY <2>1, <2>3, <2>4, <2>5
  <2>7. QED
    BY <2>2, <2>6 DEF Rank
<1>4. PICK u, r : u = o \o t /\ r = Rank(n, H)
  OBVIOUS
<1>5. /\ r \in Nat /\ Len(o) = r /\ Len(u) = r + (m - n)
      /\ \A j \in 1..r : u[j] = o[j]
      /\ \A j \in (r + 1)..(r + (m - n)) : u[j] = t[j - r]
  <2>1. Len(o) = Rank(n, H)
    BY ShowsFacts
  <2>2. r \in Nat /\ Len(o) = r
    BY <1>4, <2>1, RankFacts
  <2>3. /\ Len(u) = Len(o) + Len(t)
        /\ \A j \in 1..(Len(o) + Len(t)) : u[j] = IF j <= Len(o) THEN o[j] ELSE t[j - Len(o)]
    BY <1>4, ConcatProperties
  <2>4. Len(t) \in Nat /\ Len(t) = m - n
    OBVIOUS
  <2>5. Len(u) = r + (m - n)
    BY <2>2, <2>3, <2>4
  <2>6. \A j \in 1..r : u[j] = o[j]
    <3>1. \A j \in 1..r : j \in 1..(r + Len(t)) /\ j <= r
      BY <2>2, <2>4
    <3>2. QED
      BY <2>2, <2>3, <3>1
  <2>7. \A j \in (r + 1)..(r + (m - n)) : u[j] = t[j - r]
    <3>1. \A j \in (r + 1)..(r + (m - n)) : j \in 1..(r + Len(t)) /\ ~(j <= r)
      BY <2>2, <2>4
    <3>2. QED
      BY <2>2, <2>3, <3>1
  <2>8. QED
    BY <2>2, <2>5, <2>6, <2>7
<1>6. \A p \in Left(n, H) : Stands(s, p, H, o[Rank(p, H)])
  BY ShowsFacts
<1>7. ASSUME NEW p \in Left(m, H) PROVE Stands(s, p, H, u[Rank(p, H)])
  <2>1. p \in 1..m
    BY DEF Left
  <2>2. CASE p <= n
    <3>1. p \in 0..n /\ p \in Left(n, H)
      BY <1>7, <2>1, <2>2 DEF Left
    <3>2. Rank(p, H) \in 1..r
      BY <1>4, <1>5, <3>1, RankFacts
    <3>3. QED
      BY <1>5, <1>6, <3>1, <3>2
  <2>3. CASE p > n
    <3>1. Rank(p, H) = r + (p - n) /\ p - n \in 1..(m - n)
      BY <1>3, <1>4, <2>1, <2>3
    <3>2. u[Rank(p, H)] = t[p - n]
      BY <1>5, <3>1
    <3>3. t[p - n] = s[p] /\ p \notin H
      BY <2>1, <2>3, <3>1
    <3>4. QED
      BY <3>2, <3>3 DEF Stands
  <2>4. QED
    BY <2>1, <2>2, <2>3
<1>8. Len(u) = Rank(m, H)
  BY <1>3, <1>4, <1>5
<1>9. QED
  BY <1>4, <1>7, <1>8, ShowsIs

\* Of a run of hidden places a placeholder is left.
LEMMA ShowsMask ==
    ASSUME NEW s, NEW n \in Nat, NEW m \in Nat, n < m, NEW H, NEW o \in Seq(Letters),
           Shows(s, n, H, o), n \notin H, \A p \in (n + 1)..m : p \in H
    PROVE  Shows(s, m, H, o \o <<REDACTED>>)
<1>1. \A p \in (n + 1)..m : Left(p, H) = Left(n, H) \cup {n + 1}
  <2> TAKE p \in (n + 1)..m
  <2>1. n + 1 - 1 = n
    OBVIOUS
  <2>2. \A q \in (n + 2)..p : q \in H /\ q - 1 \in H
    OBVIOUS
  <2>3. \A q \in 1..p : q \in 1..n \/ q = n + 1 \/ q \in (n + 2)..p
    OBVIOUS
  <2>4. \A q \in Left(p, H) : q \in Left(n, H) \/ q = n + 1
    BY <2>2, <2>3 DEF Left
  <2>5. Left(n, H) \subseteq Left(p, H) /\ n + 1 \in Left(p, H)
    BY <2>1 DEF Left
  <2>6. QED
    BY <2>4, <2>5
<1>2. n + 1 \notin Left(n, H)
  BY DEF Left
<1>3. \A p \in (n + 1)..m : Rank(p, H) = Rank(n, H) + 1
  <2>1. IsFiniteSet(Left(n, H)) /\ Rank(n, H) \in Nat
    BY RankFacts
  <2>2. Cardinality(Left(n, H) \cup {n + 1}) = Cardinality(Left(n, H)) + 1
    BY <1>2, <2>1, FS_AddElement
  <2>3. QED
    BY <1>1, <2>2 DEF Rank
<1>4. PICK u, r : u = o \o <<REDACTED>> /\ r = Rank(n, H)
  OBVIOUS
<1>5. /\ r \in Nat /\ Len(o) = r /\ Len(u) = r + 1
      /\ \A j \in 1..r : u[j] = o[j]
      /\ u[r + 1] = REDACTED
  <2>1. <<REDACTED>> \in Seq(Letters) /\ Len(<<REDACTED>>) = 1 /\ <<REDACTED>>[1] = REDACTED
    BY DEF Letters
  <2>2. r \in Nat /\ Len(o) = r
    <3>1. Len(o) = Rank(n, H)
      BY ShowsFacts
    <3>2. QED
      BY <1>4, <3>1, RankFacts
  <2>3. QED
    BY <1>4, <2>1, <2>2, ConcatProperties
<1>6. \A p \in Left(n, H) : Stands(s, p, H, o[Rank(p, H)])
  BY ShowsFacts
<1>7. ASSUME NEW p \in Left(m, H) PROVE Stands(s, p, H, u[Rank(p, H)])
  <2>1. p \in 1..m
    BY DEF Left
  <2>2. CASE p <= n
    <3>1. p \in 0..n /\ p \in Left(n, H)
      BY <1>7, <2>1, <2>2 DEF Left
    <3>2. Rank(p, H) \in 1..r
      BY <1>4, <1>5, <3>1, RankFacts
    <3>3. QED
      BY <1>5, <1>6, <3>1, <3>2
  <2>3. CASE p > n
    <3>1. Rank(p, H) = r + 1 /\ p \in H
      BY <1>3, <1>4, <2>1, <2>3
    <3>2. QED
      BY <1>5, <3>1 DEF Stands
  <2>4. QED
    BY <2>1, <2>2, <2>3
<1>8. Len(u) = Rank(m, H)
  BY <1>3, <1>4, <1>5
<1>9. QED
  BY <1>4, <1>7, <1>8, ShowsIs

-----------------------------------------------------------------------------
\* What was written before keeps its masks when the next character follows it.
LEMMA OldSecrets ==
    ASSUME NEW s \in Seq(Chars), NEW p \in 1..Len(s), NEW o \in Seq(Letters), Settled(s, o, p),
           NEW u \in Seq(Letters), GoesOn(o, u), Len(u) > Len(o), u[Len(o) + 1] = s[p],
           NEW d \in Secrets(u), d <= Len(o)
    PROVE  (\A q \in ToQuote(u, d) : u[q] = REDACTED) /\ Closed(u, d)
<1>1. Len(s) \in Nat /\ Len(o) \in Nat /\ Len(u) \in Nat
  BY TextType, LenProperties
<1>2. d \in Secrets(o)
  BY SecretBefore
<1>3. d \in 1..Len(o)
  BY <1>1, <1>2, SecretsAre
<1>4. /\ \A q \in ToQuote(o, d) : o[q] = REDACTED
      /\ Closed(o, d) \/ Pending(o, d, s[p])
  BY <1>1, <1>2 DEF Settled
<1>5. Closed(u, d) /\ ToQuote(u, d) \subseteq ToQuote(o, d)
  BY <1>3, <1>4, ValueBefore
<1>6. \A q \in ToQuote(o, d) : q \in 1..Len(o)
  BY DEF ToQuote, Value
<1>7. \A q \in ToQuote(u, d) : u[q] = REDACTED
  BY <1>4, <1>5, <1>6 DEF GoesOn
<1>8. QED
  BY <1>5, <1>7

\* Copying what follows keeps the text faithful.
LEMMA FaithfulCopy ==
    ASSUME NEW s \in Seq(Chars), NEW p \in 1..(Len(s) + 1), NEW o \in Seq(Letters), Faithful(s, o, p),
           NEW m \in Nat, p <= m + 1, NEW t \in Seq(Letters),
           Len(t) = m - (p - 1), \A k \in 1..(m - (p - 1)) : t[k] = s[(p - 1) + k]
    PROVE  Faithful(s, o \o t, m + 1)
<1>1. PICK D \in SUBSET Secrets(s) : Hidden(s, D) \subseteq 1..(p - 1) /\ Shows(s, p - 1, Hidden(s, D), o)
  BY DEF Faithful
<1>2. p - 1 \in Nat /\ p - 1 <= m /\ Len(s) \in Nat /\ m + 1 - 1 = m
  BY LenProperties
<1>3. \A q \in (p - 1 + 1)..m : q \notin Hidden(s, D)
  BY <1>1, <1>2
<1>4. Shows(s, m, Hidden(s, D), o \o t)
  BY <1>1, <1>2, <1>3, ShowsCopy
<1>5. Hidden(s, D) \subseteq 1..m
  BY <1>1, <1>2
<1>6. QED
  BY <1>2, <1>4, <1>5 DEF Faithful

\* A character that begins no name.
LEMMA PassStep ==
    ASSUME NEW s \in Seq(Chars), NEW p \in 1..Len(s), NEW o \in Seq(Letters), ScanOK(s, o, p),
           ~IsKeyChar(s[p])
    PROVE  Append(o, s[p]) \in Seq(Letters) /\ ScanOK(s, Append(o, s[p]), p + 1)
<1>0. PICK u, n : u = Append(o, s[p]) /\ n = Len(o)
  OBVIOUS
<1>1. s[p] \in Chars /\ s[p] \in Letters /\ Len(s) \in Nat /\ p \in Nat /\ p + 1 \in 1..(Len(s) + 1)
  BY ElementOfSeq, LenProperties DEF Letters
<1>2. /\ u \in Seq(Letters) /\ n \in Nat /\ Len(u) = n + 1 /\ u[n + 1] = s[p]
      /\ \A q \in 1..n : u[q] = o[q]
  BY <1>0, <1>1, AppendProperties, LenProperties
<1>3. GoesOn(o, u)
  BY <1>0, <1>2 DEF GoesOn
<1>4. s[p] \notin {"w", "a"}
  BY DEF IsKeyChar
<1>5. After(s, p, Gap) = IF s[p] \in Gap THEN After(s, p + 1, Gap) ELSE p
  BY AfterStep
<1>6. Settled(s, u, p + 1)
  <2> SUFFICES ASSUME NEW d \in Secrets(u)
               PROVE  (\A q \in ToQuote(u, d) : u[q] = REDACTED) /\ Closed(u, d)
    BY DEF Settled
  <2>1. d \in 1..(n + 1) /\ u[d] = "=" /\ Named(u, d)
    BY <1>2, SecretsAre
  <2>2. CASE d <= n
    <3>1. Settled(s, o, p)
      BY DEF ScanOK
    <3>2. Len(u) > Len(o) /\ u[Len(o) + 1] = s[p] /\ d <= Len(o)
      BY <1>0, <1>2, <2>2
    <3>3. QED
      BY <1>2, <1>3, <3>1, <3>2, OldSecrets
  <2>3. CASE d = n + 1
    <3>1. Named(o, n + 1)
      <4>1. n + 1 \in 1..(Len(o) + 1) /\ Named(u, n + 1)
        BY <1>0, <1>2, <2>1, <2>3
      <4>2. QED
        BY <1>2, <1>3, <4>1, NamedBefore
    <3>2. s[p] = "=" /\ s[p] \notin Gap
      BY <1>2, <2>1, <2>3, CharFacts
    <3>3. QED
      BY <1>0, <1>1, <1>5, <3>1, <3>2 DEF ScanOK, NameEnds
  <2>4. QED
    BY <1>2, <2>1, <2>2, <2>3
<1>7. WordEnds(s, u, p + 1)
  <2>1. p + 1 - 1 = p /\ ~IsKeyChar(u[Len(u)])
    BY <1>1, <1>2
  <2>2. QED
    BY <2>1 DEF WordEnds
<1>8. NameEnds(s, u, p + 1)
  <2> SUFFICES ASSUME Named(u, n + 2), After(s, p + 1, Gap) <= Len(s)
               PROVE  s[After(s, p + 1, Gap)] # "="
    BY <1>2 DEF NameEnds
  <2>1. PICK a, b \in 1..(n + 1) : /\ IsWord(u, a, b) /\ b < n + 2
                                   /\ \A q \in (b + 1)..(n + 2 - 1) : u[q] \in Gap
                                   /\ \E q \in a..b : u[q] = "w"
    BY <1>2 DEF Named
  <2>2. b # n + 1
    BY <1>2, <1>4, <2>1 DEF IsWord
  <2>3. s[p] \in Gap
    <3>1. n + 1 \in (b + 1)..(n + 2 - 1)
      BY <1>2, <2>1, <2>2
    <3>2. QED
      BY <1>2, <2>1, <3>1
  <2>4. Named(u, n + 1)
    <3>1. b < n + 1 /\ \A q \in (b + 1)..(n + 1 - 1) : u[q] \in Gap
      BY <1>2, <2>1, <2>2
    <3>2. QED
      BY <1>2, <2>1, <3>1 DEF Named
  <2>5. Named(o, n + 1)
    <3>1. n + 1 \in 1..(Len(o) + 1)
      BY <1>0, <1>2
    <3>2. QED
      BY <1>2, <1>3, <2>4, <3>1, NamedBefore
  <2>6. QED
    BY <1>0, <1>5, <2>3, <2>5 DEF ScanOK, NameEnds
<1>9. Faithful(s, u, p + 1)
  <2>1. <<s[p]>> \in Seq(Letters) /\ Len(<<s[p]>>) = 1 /\ <<s[p]>>[1] = s[p]
    BY <1>1
  <2>2. u = o \o <<s[p]>>
    BY <1>0, <1>1, AppendIsConcat
  <2>3. p \in Nat /\ p <= p + 1 /\ p - (p - 1) = 1 /\ p \in 1..(Len(s) + 1) /\ (p - 1) + 1 = p
    BY <1>1
  <2>4. Faithful(s, o \o <<s[p]>>, p + 1)
    <3>1. PICK t : t = <<s[p]>>
      OBVIOUS
    <3>2. Len(t) = p - (p - 1) /\ \A k \in 1..(p - (p - 1)) : t[k] = s[(p - 1) + k]
      BY <2>1, <2>3, <3>1
    <3>3. Faithful(s, o \o t, p + 1)
      BY <2>1, <2>3, <3>1, <3>2, FaithfulCopy DEF ScanOK
    <3>4. QED
      BY <3>1, <3>3
  <2>5. QED
    BY <2>2, <2>4
<1>10. QED
  BY <1>0, <1>2, <1>6, <1>7, <1>8, <1>9 DEF ScanOK

\* A text with another behind it, place by place.
LEMMA Appended ==
    ASSUME NEW o \in Seq(Letters), NEW t \in Seq(Letters)
    PROVE  /\ o \o t \in Seq(Letters) /\ Len(o \o t) = Len(o) + Len(t)
           /\ \A k \in 1..Len(o) : (o \o t)[k] = o[k]
           /\ \A k \in 1..Len(t) : (o \o t)[Len(o) + k] = t[k]
           /\ GoesOn(o, o \o t)
<1>0. PICK u, n, m : u = o \o t /\ n = Len(o) /\ m = Len(t)
  OBVIOUS
<1>1. n \in Nat /\ m \in Nat
  BY <1>0, LenProperties
<1>2. /\ Len(u) = n + m
      /\ \A k \in 1..(n + m) : u[k] = IF k <= n THEN o[k] ELSE t[k - n]
  BY <1>0, ConcatProperties
<1>3. \A k \in 1..n : u[k] = o[k]
  BY <1>1, <1>2
<1>4. \A k \in 1..m : u[n + k] = t[k]
  <2> TAKE k \in 1..m
  <2>1. PICK j : j = n + k
    OBVIOUS
  <2>2. j \in 1..(n + m) /\ ~(j <= n) /\ j - n = k
    BY <1>1, <2>1
  <2>3. u[j] = t[j - n]
    BY <1>2, <2>2
  <2>4. QED
    BY <2>1, <2>2, <2>3
<1>5. GoesOn(o, u)
  BY <1>0, <1>1, <1>2, <1>3 DEF GoesOn
<1>6. u \in Seq(Letters)
  BY <1>0, ConcatProperties
<1>7. QED
  BY <1>0, <1>2, <1>3, <1>4, <1>5, <1>6

\* A piece of the text, place by place.
LEMMA Piece ==
    ASSUME NEW s \in Seq(Chars), NEW p \in 1..(Len(s) + 1), NEW e \in p..(Len(s) + 1)
    PROVE  /\ SubSeq(s, p, e - 1) \in Seq(Letters)
           /\ Len(SubSeq(s, p, e - 1)) = e - p
           /\ \A k \in 1..(e - p) : SubSeq(s, p, e - 1)[k] = s[(p - 1) + k]
<1>0. PICK t : t = SubSeq(s, p, e - 1)
  OBVIOUS
<1>1. Len(s) \in Nat /\ p \in Nat /\ e \in Nat /\ \A k \in 1..Len(s) : s[k] \in Letters
  BY LenProperties, ElementOfSeq DEF Letters
<1>2. e - 1 \in Int /\ p \in Int /\ \A k \in p..(e - 1) : s[k] \in Letters
  BY <1>1
<1>3. /\ t \in Seq(Letters)
      /\ Len(t) = IF p <= e - 1 THEN e - 1 - p + 1 ELSE 0
      /\ \A k \in 1..(e - 1 - p + 1) : t[k] = s[p + k - 1]
  BY <1>0, <1>2, SubSeqProperties
<1>4. Len(t) = e - p /\ e - 1 - p + 1 = e - p
  BY <1>1, <1>3
<1>5. \A k \in 1..(e - p) : t[k] = s[(p - 1) + k]
  <2> TAKE k \in 1..(e - p)
  <2>1. p + k - 1 = (p - 1) + k
    BY <1>1
  <2>2. t[k] = s[p + k - 1]
    BY <1>3, <1>4
  <2>3. QED
    BY <2>1, <2>2
<1>6. QED
  BY <1>0, <1>3, <1>4, <1>5

\* A name from p to before e, and that it is not sensitive if a delimiter follows.
NameAt(s, p, e) ==
    /\ \A q \in p..(e - 1) : s[q] \in {"w", "a"}
    /\ e <= Len(s) => s[e] \notin {"w", "a"}
Harmless(s, p, e) ==
    After(s, e, Gap) <= Len(s) /\ s[After(s, e, Gap)] = "=" => \A k \in p..(e - 1) : s[k] # "w"

\* A name that no delimiter follows, or that is not sensitive, is written as it is.
LEMMA WordStep ==
    ASSUME NEW s \in Seq(Chars), NEW p \in 1..Len(s), NEW o \in Seq(Letters), ScanOK(s, o, p),
           NEW e \in (p + 1)..(Len(s) + 1), NameAt(s, p, e), Harmless(s, p, e)
    PROVE  /\ o \o SubSeq(s, p, e - 1) \in Seq(Letters)
           /\ ScanOK(s, o \o SubSeq(s, p, e - 1), e)
<1>0. PICK t, u, n, m : /\ t = SubSeq(s, p, e - 1) /\ u = o \o t /\ n = Len(o) /\ m = e - p
  OBVIOUS
<1>1. Len(s) \in Nat /\ p \in Nat /\ p \in 1..(Len(s) + 1) /\ n \in Nat
  BY <1>0, LenProperties
<1>2. /\ e \in p..(Len(s) + 1)
      /\ \A q \in p..(e - 1) : s[q] \in {"w", "a"}
      /\ e <= Len(s) => s[e] \notin {"w", "a"}
  BY <1>1 DEF NameAt
<1>3. /\ e # p /\ e \in (p + 1)..(Len(s) + 1) /\ e \in Nat /\ p < e
      /\ m \in Nat /\ m >= 1 /\ m = e - p
  BY <1>0, <1>1, <1>2
<1>ar. /\ \A q \in (n + 1)..(n + m) : q - n \in 1..m /\ q = n + (q - n) /\ (p - 1) + (q - n) \in p..(e - 1)
       /\ n + 1 \in (n + 1)..(n + m) /\ n + m \in (n + 1)..(n + m)
       /\ e - 1 \in Nat /\ p <= (e - 1) + 1 /\ m = (e - 1) - (p - 1) /\ (e - 1) + 1 = e
  BY <1>1, <1>3
<1>4. t \in Seq(Letters) /\ Len(t) = m /\ \A k \in 1..m : t[k] = s[(p - 1) + k]
  BY <1>0, <1>1, <1>2, Piece
<1>5. /\ u \in Seq(Letters) /\ Len(u) = n + m /\ GoesOn(o, u)
      /\ \A k \in 1..n : u[k] = o[k]
      /\ \A k \in 1..m : u[n + k] = t[k]
  <2>1. /\ o \o t \in Seq(Letters) /\ Len(o \o t) = Len(o) + Len(t)
        /\ \A k \in 1..Len(o) : (o \o t)[k] = o[k]
        /\ \A k \in 1..Len(t) : (o \o t)[Len(o) + k] = t[k]
        /\ GoesOn(o, o \o t)
    BY <1>4, Appended
  <2>2. u = o \o t /\ n = Len(o) /\ Len(t) = m
    BY <1>0, <1>4
  <2>3. QED
    BY <2>1, <2>2, Zenon
<1>6. \A q \in (n + 1)..(n + m) : u[q] = s[(p - 1) + (q - n)] /\ u[q] \in {"w", "a"}
  <2> TAKE q \in (n + 1)..(n + m)
  <2>1. PICK k : k = q - n
    OBVIOUS
  <2>2. k \in 1..m /\ q = n + k /\ (p - 1) + k \in p..(e - 1)
    BY <1>ar, <2>1
  <2>3. u[q] = t[k] /\ t[k] = s[(p - 1) + k] /\ s[(p - 1) + k] \in {"w", "a"}
    BY <1>2, <1>4, <1>5, <2>2
  <2>4. QED
    BY <2>1, <2>3
<1>7. Settled(s, u, e)
  <2> SUFFICES ASSUME NEW d \in Secrets(u)
               PROVE  (\A q \in ToQuote(u, d) : u[q] = REDACTED) /\ Closed(u, d)
    BY DEF Settled
  <2>1. d \in 1..(n + m) /\ u[d] = "="
    <3>1. Len(u) \in Nat /\ Len(u) = n + m
      BY <1>1, <1>3, <1>5
    <3>2. d \in 1..Len(u) /\ u[d] = "="
      BY <3>1, SecretsAre
    <3>3. QED
      BY <3>1, <3>2
  <2>2. d <= n
    BY <1>1, <1>3, <1>6, <2>1
  <2>3. Settled(s, o, p)
    BY DEF ScanOK
  <2>4. u[n + 1] = s[p]
    <3>1. 1 \in 1..m /\ (p - 1) + 1 = p
      BY <1>1, <1>3
    <3>2. u[n + 1] = t[1] /\ t[1] = s[(p - 1) + 1]
      BY <1>4, <1>5, <3>1
    <3>3. QED
      BY <3>1, <3>2
  <2>5. Len(u) > Len(o) /\ u[Len(o) + 1] = s[p] /\ d <= Len(o)
    <3>1. Len(u) > n
      BY <1>1, <1>3, <1>5
    <3>2. n = Len(o)
      BY <1>0
    <3>3. QED
      BY <2>2, <2>4, <3>1, <3>2
  <2>6. QED
    BY <1>5, <2>3, <2>5, OldSecrets
<1>8. WordEnds(s, u, e)
  BY <1>2 DEF WordEnds, IsKeyChar
<1>9. NameEnds(s, u, e)
  <2> SUFFICES ASSUME Named(u, n + m + 1), After(s, e, Gap) <= Len(s), s[After(s, e, Gap)] = "="
               PROVE  FALSE
    BY <1>5, Zenon DEF NameEnds
  <2>1. PICK a, b \in 1..(n + m) : /\ IsWord(u, a, b) /\ b < n + m + 1
                                   /\ \A q \in (b + 1)..(n + m + 1 - 1) : u[q] \in Gap
                                   /\ \E q \in a..b : u[q] = "w"
    BY <1>5 DEF Named
  <2>2. b = n + m
    <3>1. n + m \in (n + 1)..(n + m)
      BY <1>1, <1>3
    <3>2. u[n + m] \notin Gap
      BY <1>6, <3>1, CharFacts
    <3>3. ~(n + m \in (b + 1)..(n + m + 1 - 1))
      BY <2>1, <3>2
    <3>4. QED
      BY <1>1, <1>3, <2>1, <3>3
  <2>3. a > n
    <3> SUFFICES ASSUME a <= n PROVE FALSE
      BY <1>1, <2>1
    <3>1. n \in a..b /\ n \in 1..n
      BY <1>1, <1>3, <2>1, <2>2
    <3>2. o[n] \in {"w", "a"}
      BY <1>5, <2>1, <3>1 DEF IsWord
    <3>3. o # <<>>
      BY <1>0, <3>1, EmptySeq
    <3>4. WordEnds(s, o, p) /\ p <= Len(s) /\ n = Len(o) /\ s[p] \in {"w", "a"}
      <4>1. p \in p..(e - 1)
        BY <1>1, <1>3
      <4>2. QED
        BY <1>0, <1>1, <1>2, <4>1 DEF ScanOK
    <3>5. QED
      BY <1>1, <3>2, <3>3, <3>4 DEF WordEnds, IsKeyChar
  <2>4. PICK q \in a..b : u[q] = "w"
    BY <2>1
  <2>5. q \in (n + 1)..(n + m) /\ (p - 1) + (q - n) \in p..(e - 1)
    <3>1. q \in (n + 1)..(n + m)
      BY <1>1, <1>3, <2>1, <2>2, <2>3
    <3>2. QED
      BY <1>ar, <3>1
  <2>6. s[(p - 1) + (q - n)] = "w"
    BY <1>6, <2>4, <2>5
  <2>7. QED
    BY <2>5, <2>6 DEF Harmless
<1>10. Faithful(s, u, e)
  <2>1. e - 1 \in Nat /\ p <= (e - 1) + 1 /\ m = (e - 1) - (p - 1) /\ (e - 1) + 1 = e
    BY <1>ar
  <2>2. Len(t) = (e - 1) - (p - 1) /\ \A k \in 1..((e - 1) - (p - 1)) : t[k] = s[(p - 1) + k]
    BY <1>4, <2>1
  <2>3. Faithful(s, o, p)
    BY DEF ScanOK
  <2>4. Faithful(s, o \o t, (e - 1) + 1)
    BY <1>1, <1>4, <2>1, <2>2, <2>3, FaithfulCopy
  <2>5. QED
    BY <1>0, <2>1, <2>4
<1>11. QED
  BY <1>0, <1>3, <1>5, <1>7, <1>8, <1>9, <1>10 DEF ScanOK

\* A sensitive name from p to before e, its delimiter at d, and v where a value would
\* begin.
Parameter(s, p, e, d, v) ==
    /\ \A q \in p..(e - 1) : s[q] \in {"w", "a"}
    /\ \E q \in p..(e - 1) : s[q] = "w"
    /\ \A q \in e..(d - 1) : s[q] \in Gap
    /\ s[d] = "="
    /\ \A q \in (d + 1)..(v - 1) : s[q] = "_"
    /\ v <= Len(s) => s[v] # "_"

LEMMA ParameterIsSecret ==
    ASSUME NEW s \in Seq(Chars), NEW p \in 1..Len(s), NEW o \in Seq(Letters), WordEnds(s, o, p),
           NEW e \in (p + 1)..Len(s), NEW d \in e..Len(s), NEW v \in (d + 1)..(Len(s) + 1),
           Parameter(s, p, e, d, v)
    PROVE  d \in Secrets(s)
<1>1. /\ Len(s) \in Nat /\ p \in Nat /\ e \in Nat /\ d \in Nat /\ p < e /\ e <= d /\ d <= Len(s)
      /\ p \in 1..Len(s) /\ e - 1 \in 1..Len(s) /\ d \in 1..Len(s) /\ (e - 1) + 1 = e /\ p \in p..(e - 1)
  BY LenProperties
<1>2. p = 1 \/ s[p - 1] \notin {"w", "a"}
  <2>1. IsKeyChar(s[p])
    BY <1>1 DEF Parameter, IsKeyChar
  <2>2. QED
    BY <1>1, <2>1 DEF WordEnds, IsKeyChar
<1>3. s[e] \notin {"w", "a"}
  <2>1. s[e] \in Gap \/ s[e] = "="
    <3>1. e = d \/ e \in e..(d - 1)
      BY <1>1
    <3>2. QED
      BY <3>1 DEF Parameter
  <2>2. QED
    BY <2>1, CharFacts
<1>4. IsWord(s, p, e - 1)
  <2>1. \A q \in p..(e - 1) : s[q] \in {"w", "a"}
    BY DEF Parameter
  <2>2. p <= e - 1
    BY <1>1
  <2>3. QED
    BY <1>1, <1>2, <1>3, <2>1, <2>2 DEF IsWord
<1>5. Named(s, d)
  <2>1. PICK b : b = e - 1
    OBVIOUS
  <2>2. /\ b \in 1..Len(s) /\ b < d /\ IsWord(s, p, b) /\ b + 1 = e
    BY <1>1, <1>4, <2>1
  <2>3. /\ \A q \in (b + 1)..(d - 1) : s[q] \in Gap
        /\ \E q \in p..b : s[q] = "w"
    BY <2>1, <2>2 DEF Parameter
  <2>4. QED
    BY <1>1, <2>2, <2>3 DEF Named
<1>6. QED
  BY <1>1, <1>5, SecretsAre DEF Parameter

\* Behind a delimiter whose value is masked no name stands, and no delimiter.
LEMMA MaskTail ==
    ASSUME NEW u \in Seq(Letters), NEW n \in Nat, NEW x \in (n + 1)..Len(u), u[x] = "=",
           \A q \in (n + 1)..(x - 1) : u[q] # "=",
           \A q \in (x + 1)..Len(u) : u[q] \in Gap \cup {REDACTED}
    PROVE  /\ \A d \in Secrets(u) : d <= n \/ d = x
           /\ ~Named(u, Len(u) + 1)
           /\ ~IsKeyChar(u[Len(u)])
<1>1. Len(u) \in Nat /\ x \in Nat /\ n < x /\ x <= Len(u)
  BY LenProperties
<1>2. \A q \in x..Len(u) : u[q] \in {"dq", "sq", "_", "+++++", "="}
  <2> TAKE q \in x..Len(u)
  <2>1. q = x \/ q \in (x + 1)..Len(u)
    BY <1>1
  <2>2. QED
    BY <2>1, CharFacts DEF REDACTED
<1>3. \A d \in Secrets(u) : d <= n \/ d = x
  <2> TAKE d \in Secrets(u)
  <2>1. d \in 1..Len(u) /\ u[d] = "="
    BY <1>1, SecretsAre
  <2>2. d \notin (n + 1)..(x - 1)
    BY <2>1
  <2>3. d \notin (x + 1)..Len(u)
    BY <2>1, CharFacts DEF REDACTED
  <2>4. QED
    BY <1>1, <2>1, <2>2, <2>3
<1>4. ~Named(u, Len(u) + 1)
  <2> SUFFICES ASSUME Named(u, Len(u) + 1) PROVE FALSE
    OBVIOUS
  <2>0. PICK d : d = Len(u) + 1
    OBVIOUS
  <2>1. PICK a, b \in 1..Len(u) : /\ IsWord(u, a, b) /\ b < d
                                  /\ \A q \in (b + 1)..(d - 1) : u[q] \in Gap
                                  /\ \E q \in a..b : u[q] = "w"
    <3>1. Named(u, d)
      BY <2>0
    <3>2. QED
      BY <3>1, Zenon DEF Named
  <2>2. u[b] \in {"w", "a"}
    <3>1. b \in a..b
      BY <2>1 DEF IsWord
    <3>2. QED
      BY <2>1, <3>1 DEF IsWord
  <2>3. ~(b \in x..Len(u))
    BY <1>2, <2>2
  <2>4. x \in (b + 1)..(d - 1)
    BY <1>1, <2>0, <2>1, <2>3
  <2>5. QED
    BY <2>1, <2>4, CharFacts
<1>5. ~IsKeyChar(u[Len(u)])
  <2>1. Len(u) \in x..Len(u)
    BY <1>1
  <2>2. QED
    BY <1>2, <2>1 DEF IsKeyChar
<1>6. QED
  BY <1>3, <1>4, <1>5

\* What is common to all values: the parts of the invariant but that what is shown is
\* faithful, once the new value is masked and nothing can be added to it.
LEMMA Masked ==
    ASSUME NEW s \in Seq(Chars), NEW p \in 1..Len(s), NEW o \in Seq(Letters), ScanOK(s, o, p),
           NEW u \in Seq(Letters), GoesOn(o, u), u[Len(o) + 1] = s[p],
           NEW x \in (Len(o) + 1)..Len(u), u[x] = "=",
           \A q \in (Len(o) + 1)..(x - 1) : u[q] # "=",
           \A q \in (x + 1)..Len(u) : u[q] \in Gap \cup {REDACTED},
           NEW y \in 2..(Len(s) + 1),
           \A q \in ToQuote(u, x) : u[q] = REDACTED,
           Closed(u, x) \/ y > Len(s) \/ Pending(u, x, s[y]),
           y <= Len(s) => ~IsKeyChar(s[y]) \/ ~IsKeyChar(s[y - 1]),
           Faithful(s, u, y)
    PROVE  ScanOK(s, u, y)
<1>1. Len(s) \in Nat /\ Len(o) \in Nat /\ Len(u) \in Nat /\ Len(u) > Len(o)
  BY LenProperties
<1>2. /\ \A d \in Secrets(u) : d <= Len(o) \/ d = x
      /\ ~Named(u, Len(u) + 1)
      /\ ~IsKeyChar(u[Len(u)])
  BY <1>1, MaskTail
<1>3. Settled(s, u, y)
  <2> SUFFICES ASSUME NEW d \in Secrets(u)
               PROVE  /\ \A q \in ToQuote(u, d) : u[q] = REDACTED
                      /\ Closed(u, d) \/ y > Len(s) \/ Pending(u, d, s[y])
    BY DEF Settled
  <2>1. CASE d = x
    BY <2>1
  <2>2. CASE d <= Len(o)
    <3>1. Settled(s, o, p)
      BY DEF ScanOK
    <3>2. QED
      BY <1>1, <2>2, <3>1, OldSecrets
  <2>3. QED
    BY <1>2, <2>1, <2>2
<1>4. WordEnds(s, u, y)
  BY <1>2 DEF WordEnds
<1>5. NameEnds(s, u, y)
  BY <1>2 DEF NameEnds
<1>6. QED
  BY <1>3, <1>4, <1>5 DEF ScanOK

LEMMA MaskFacts ==
    ASSUME NEW f \in Nat, NEW g \in Nat
    PROVE  /\ Mask(f, g) \in Seq(Letters)
           /\ Len(Mask(f, g)) = IF g > f THEN 1 ELSE 0
           /\ \A k \in 1..Len(Mask(f, g)) : Mask(f, g)[k] = REDACTED
<1>1. <<REDACTED>> \in Seq(Letters) /\ Len(<<REDACTED>>) = 1 /\ <<REDACTED>>[1] = REDACTED
  BY DEF Letters
<1>2. <<>> \in Seq(Letters) /\ Len(<<>>) = 0
  BY EmptySeq
<1>3. CASE g > f
  <2>1. Mask(f, g) = <<REDACTED>>
    BY <1>3 DEF Mask
  <2>2. QED
    BY <1>1, <1>3, <2>1
<1>4. CASE ~(g > f)
  <2>1. Mask(f, g) = <<>>
    BY <1>4 DEF Mask
  <2>2. QED
    BY <1>2, <1>4, <2>1
<1>5. QED
  BY <1>3, <1>4

\* Masking the value of one more parameter keeps the text faithful.
LEMMA FaithfulMask ==
    ASSUME NEW s \in Seq(Chars), NEW p \in 1..Len(s), NEW o \in Seq(Letters), Faithful(s, o, p),
           NEW d \in Secrets(s), NEW f \in (p + 1)..(Len(s) + 1), NEW g \in f..(Len(s) + 1),
           ToQuote(s, d) = f..(g - 1)
    PROVE  Faithful(s, (o \o SubSeq(s, p, f - 1)) \o Mask(f, g), g)
<1>0. PICK n, m, l : n = p - 1 /\ m = f - 1 /\ l = g - 1
  OBVIOUS
<1>1. /\ Len(s) \in Nat /\ n \in Nat /\ m \in Nat /\ l \in Nat /\ n < m /\ m <= l
      /\ p = n + 1 /\ f = m + 1 /\ g = l + 1 /\ m - n = f - p
      /\ p \in 1..(Len(s) + 1) /\ f \in p..(Len(s) + 1) /\ f \in Nat /\ g \in Nat
  BY <1>0, LenProperties
<1>2. PICK D \in SUBSET Secrets(s) : Hidden(s, D) \subseteq 1..n /\ Shows(s, n, Hidden(s, D), o)
  BY <1>0 DEF Faithful
<1>3. PICK G, H : G = Hidden(s, D) /\ H = Hidden(s, D \cup {d})
  OBVIOUS
<1>4. H = G \cup (f..l)
  <2>1. Hidden(s, D \cup {d}) = Hidden(s, D) \cup ToQuote(s, d)
    BY DEF Hidden
  <2>2. QED
    BY <1>0, <1>3, <2>1
<1>5. G \subseteq 1..n /\ Shows(s, n, G, o)
  BY <1>2, <1>3
<1>6. \A q \in 0..n : q \in G <=> q \in H
  BY <1>1, <1>4
<1>7. Shows(s, n, H, o)
  BY <1>1, <1>5, <1>6, ShowsLocal
<1>8. PICK t : t = SubSeq(s, p, f - 1)
  OBVIOUS
<1>9. t \in Seq(Letters) /\ Len(t) = m - n /\ \A k \in 1..(m - n) : t[k] = s[n + k]
  BY <1>0, <1>1, <1>8, Piece
<1>10. \A q \in (n + 1)..m : q \notin H
  BY <1>1, <1>4, <1>5
<1>11. Shows(s, m, H, o \o t)
  <2>1. n <= m
    BY <1>1
  <2>2. QED
    BY <1>1, <1>7, <1>9, <1>10, <2>1, ShowsCopy
<1>12. o \o t \in Seq(Letters)
  BY <1>9, Appended
<1>13. Shows(s, l, H, (o \o t) \o Mask(f, g))
  <2>1. CASE m < l
    <3>1. m \notin H
      <4>1. m \in (n + 1)..m
        BY <1>1
      <4>2. QED
        BY <1>10, <4>1
    <3>2. \A q \in (m + 1)..l : q \in H
      BY <1>1, <1>4
    <3>3. Shows(s, l, H, (o \o t) \o <<REDACTED>>)
      BY <1>1, <1>11, <1>12, <2>1, <3>1, <3>2, ShowsMask
    <3>4. Mask(f, g) = <<REDACTED>>
      BY <1>1, <2>1 DEF Mask
    <3>5. QED
      BY <3>3, <3>4
  <2>2. CASE m = l
    <3>1. Mask(f, g) = <<>>
      BY <1>1, <2>2 DEF Mask
    <3>2. (o \o t) \o <<>> = o \o t
      BY <1>12, ConcatEmptySeq
    <3>3. QED
      BY <1>11, <2>2, <3>1, <3>2
  <2>3. QED
    BY <1>1, <2>1, <2>2
<1>14. H \subseteq 1..l
  BY <1>1, <1>4, <1>5
<1>15. D \cup {d} \in SUBSET Secrets(s)
  OBVIOUS
<1>16. QED
  BY <1>0, <1>3, <1>8, <1>13, <1>14, <1>15 DEF Faithful

\* A parameter is written, t in the place of its value: its delimiter goes to x, what is
\* before the value to places up to w.
WrittenAs(s, p, o, d, v, t, u, w, x) ==
    /\ u = (o \o SubSeq(s, p, v - 1)) \o t
    /\ w = Len(o) + (v - p)
    /\ x = Len(o) + (d - p) + 1

ReadsAs(s, p, o, t, u, w, x) ==
    /\ u \in Seq(Letters) /\ Len(u) = w + Len(t) /\ w \in Nat
    /\ GoesOn(o, u) /\ u[Len(o) + 1] = s[p]
    /\ x \in (Len(o) + 1)..w /\ u[x] = "="
    /\ \A q \in (Len(o) + 1)..(x - 1) : u[q] # "="
    /\ \A q \in (x + 1)..w : u[q] = "_"
    /\ \A k \in 1..Len(t) : u[w + k] = t[k]

LEMMA Written ==
    ASSUME NEW s \in Seq(Chars), NEW p \in 1..Len(s), NEW o \in Seq(Letters),
           NEW e \in (p + 1)..Len(s), NEW d \in e..Len(s), NEW v \in (d + 1)..(Len(s) + 1),
           Parameter(s, p, e, d, v), NEW t \in Seq(Letters),
           NEW u, NEW w, NEW x, WrittenAs(s, p, o, d, v, t, u, w, x)
    PROVE  ReadsAs(s, p, o, t, u, w, x)
<1>0. PICK n, r, b, m : n = Len(o) /\ b = SubSeq(s, p, v - 1) /\ r = o \o b /\ m = v - p
  OBVIOUS
<1>1. /\ Len(s) \in Nat /\ n \in Nat /\ p \in Nat /\ e \in Nat /\ d \in Nat /\ v \in Nat
      /\ p < e /\ e <= d /\ d < v /\ m = v - p /\ m \in Nat
      /\ p \in 1..(Len(s) + 1) /\ v \in p..(Len(s) + 1)
  BY <1>0, LenProperties
<1>2. b \in Seq(Letters) /\ Len(b) = m /\ \A k \in 1..m : b[k] = s[(p - 1) + k]
  BY <1>0, <1>1, Piece
<1>3. /\ r \in Seq(Letters) /\ Len(r) = n + m /\ GoesOn(o, r)
      /\ \A k \in 1..n : r[k] = o[k]
      /\ \A k \in 1..m : r[n + k] = b[k]
  <2>1. /\ o \o b \in Seq(Letters) /\ Len(o \o b) = Len(o) + Len(b)
        /\ \A k \in 1..Len(o) : (o \o b)[k] = o[k]
        /\ \A k \in 1..Len(b) : (o \o b)[Len(o) + k] = b[k]
        /\ GoesOn(o, o \o b)
    BY <1>2, Appended
  <2>2. r = o \o b /\ n = Len(o) /\ Len(b) = m
    BY <1>0, <1>2
  <2>3. QED
    BY <2>1, <2>2, Zenon
<1>4. w = n + m /\ w \in Nat /\ x = n + (d - p) + 1 /\ p < d /\ w = n + (v - p)
  BY <1>0, <1>1 DEF WrittenAs
<1>5. /\ u \in Seq(Letters) /\ Len(u) = w + Len(t)
      /\ \A k \in 1..w : u[k] = r[k]
      /\ \A k \in 1..Len(t) : u[w + k] = t[k]
  <2>1. /\ r \o t \in Seq(Letters) /\ Len(r \o t) = Len(r) + Len(t)
        /\ \A k \in 1..Len(r) : (r \o t)[k] = r[k]
        /\ \A k \in 1..Len(t) : (r \o t)[Len(r) + k] = t[k]
    BY <1>3, Appended
  <2>2. u = r \o t /\ Len(r) = w
    BY <1>0, <1>3, <1>4 DEF WrittenAs
  <2>3. QED
    BY <2>1, <2>2, Zenon
<1>6. \A q \in (n + 1)..w : u[q] = s[(p - 1) + (q - n)]
  <2> TAKE q \in (n + 1)..w
  <2>1. PICK k : k = q - n
    OBVIOUS
  <2>2. k \in 1..m /\ q = n + k /\ q \in 1..w
    BY <1>1, <1>4, <2>1
  <2>3. u[q] = r[q] /\ r[q] = b[k] /\ b[k] = s[(p - 1) + k]
    BY <1>2, <1>3, <1>5, <2>2
  <2>4. QED
    BY <2>1, <2>3
<1>7. x \in (n + 1)..w /\ (p - 1) + (x - n) = d
  BY <1>1, <1>4
<1>8. u[x] = "="
  BY <1>6, <1>7 DEF Parameter
<1>9. \A q \in (n + 1)..(x - 1) : u[q] # "="
  <2> TAKE q \in (n + 1)..(x - 1)
  <2>1. PICK k : k = (p - 1) + (q - n)
    OBVIOUS
  <2>2. q \in (n + 1)..w /\ k \in p..(d - 1)
    BY <1>1, <1>4, <1>7, <2>1
  <2>3. u[q] = s[k]
    BY <1>6, <2>1, <2>2
  <2>4. k \in p..(e - 1) \/ k \in e..(d - 1)
    BY <1>1, <2>2
  <2>5. s[k] # "="
    BY <2>4, CharFacts DEF Parameter
  <2>6. QED
    BY <2>3, <2>5
<1>10. \A q \in (x + 1)..w : u[q] = "_"
  <2> TAKE q \in (x + 1)..w
  <2>1. PICK k : k = (p - 1) + (q - n)
    OBVIOUS
  <2>2. q \in (n + 1)..w /\ k \in (d + 1)..(v - 1)
    BY <1>1, <1>4, <1>7, <2>1
  <2>3. u[q] = s[k]
    BY <1>6, <2>1, <2>2
  <2>4. QED
    BY <2>2, <2>3 DEF Parameter
<1>11. u[n + 1] = s[p]
  <2>1. PICK q : q = n + 1
    OBVIOUS
  <2>2. q \in (n + 1)..w /\ (p - 1) + (q - n) = p
    BY <1>1, <1>4, <2>1
  <2>3. QED
    BY <1>6, <2>1, <2>2
<1>12. GoesOn(o, u)
  <2>1. \A k \in 1..n : k \in 1..w
    BY <1>1, <1>4
  <2>2. \A k \in 1..n : u[k] = o[k]
    BY <1>3, <1>5, <2>1
  <2>3. n <= Len(u)
    <3>1. Len(t) \in Nat
      BY LenProperties
    <3>2. QED
      BY <1>1, <1>4, <1>5, <3>1
  <2>4. QED
    BY <1>0, <2>2, <2>3 DEF GoesOn
<1>13. QED
  BY <1>0, <1>4, <1>5, <1>7, <1>8, <1>9, <1>10, <1>11, <1>12 DEF ReadsAs

LEMMA InputType ==
    ASSUME NEW s \in Seq(Chars)
    PROVE  Len(s) \in Nat /\ \A q \in 1..Len(s) : s[q] \in Letters
  BY LenProperties, ElementOfSeq DEF Letters

\* A placeholder behind a delimiter and blanks is its value.
Placeholder(u, x, w) ==
    /\ \A q \in (x + 1)..w : u[q] = "_"
    /\ Len(u) = w + 1 /\ u[w + 1] = REDACTED

LEMMA BareMask ==
    ASSUME NEW u \in Seq(Letters), NEW w \in Nat, NEW x \in 1..w, Placeholder(u, x, w)
    PROVE  /\ Begins(u, x, w + 1) /\ u[w + 1] \notin Quotes /\ w + 1 \in 1..Len(u)
           /\ \A q \in ToQuote(u, x) : u[q] = REDACTED
           /\ \A q \in (x + 1)..Len(u) : u[q] \in Gap \cup {REDACTED}
<1>0. PICK y : y = w + 1
  OBVIOUS
<1>1. Len(u) = y /\ u[y] = REDACTED /\ \A q \in (x + 1)..w : u[q] = "_"
  BY <1>0 DEF Placeholder
<1>2. /\ y \in Nat /\ x \in Nat /\ y \in (x + 1)..y /\ y \in 1..y /\ y - 1 = w
      /\ \A q \in (x + 1)..y : q = y \/ q \in (x + 1)..w
      /\ y + 1 \in y..(y + 1) /\ ~(y + 1 <= y) /\ \A q \in y..(y + 1 - 1) : q = y
  BY <1>0
<1>3. \A q \in 1..Len(u) : u[q] \in Letters
  BY TextType
<1>4. u[y] # "_" /\ u[y] \notin Quotes /\ u[y] \notin Terminators
  BY <1>1, CharFacts DEF REDACTED
<1>5. Begins(u, x, y)
  <2>1. y \in (x + 1)..Len(u)
    BY <1>1, <1>2
  <2>2. \A q \in (x + 1)..(y - 1) : u[q] = "_"
    BY <1>1, <1>2
  <2>3. QED
    BY <1>4, <2>1, <2>2, Zenon DEF Begins
<1>6. \A q \in ToQuote(u, x) : u[q] = REDACTED
  <2>1. PICK z : z = y + 1
    OBVIOUS
  <2>2. z \in y..(Len(u) + 1) /\ ~(z <= Len(u)) /\ Len(u) \in Nat
    BY <1>1, <1>2, <2>1
  <2>3. \A q \in y..(z - 1) : q = y
    BY <1>2, <2>1
  <2>4. \A q \in y..(z - 1) : u[q] \notin Terminators
    BY <1>4, <2>3
  <2>5. ToQuote(u, x) = y..(z - 1)
    <3>1. x \in Nat /\ Len(u) \in Nat /\ z \in y..(Len(u) + 1)
      BY <1>2, <2>2
    <3>2. z <= Len(u) => u[z] \in Terminators
      BY <2>2
    <3>3. u[y] \notin Quotes
      BY <1>4
    <3>4. QED
      BY <1>3, <1>5, <2>4, <3>1, <3>2, <3>3, BareValue
  <2>6. QED
    BY <1>1, <2>3, <2>5
<1>7. \A q \in (x + 1)..Len(u) : u[q] \in Gap \cup {REDACTED}
  <2> TAKE q \in (x + 1)..Len(u)
  <2>1. q = y \/ q \in (x + 1)..w
    BY <1>1, <1>2
  <2>2. QED
    BY <1>1, <2>1, CharFacts
<1>8. QED
  BY <1>0, <1>1, <1>2, <1>4, <1>5, <1>6, <1>7

\* The value is bare, or there is none: it goes up to a terminator, before g.
Blank(s, d, v) == \A q \in (d + 1)..(v - 1) : s[q] = "_"
BareTo(s, v, g) ==
    /\ v <= Len(s) => s[v] \notin Gap
    /\ \A q \in v..(g - 1) : s[q] \notin Terminators
    /\ g <= Len(s) => s[g] \in Terminators

LEMMA BareRead ==
    ASSUME NEW s \in Seq(Chars), NEW d \in 1..Len(s), NEW v \in (d + 1)..(Len(s) + 1),
           Blank(s, d, v), NEW g \in v..(Len(s) + 1), BareTo(s, v, g)
    PROVE  ToQuote(s, d) = v..(g - 1)
<1>1. /\ Len(s) \in Nat /\ d \in Nat /\ v \in Nat /\ g \in Nat /\ v <= Len(s) + 1
      /\ \A q \in 1..Len(s) : s[q] \in Letters
  BY InputType
<1>2. CASE v = Len(s) + 1
  <2>1. \A q \in (d + 1)..Len(s) : s[q] = "_"
    <3>1. v - 1 = Len(s)
      BY <1>1, <1>2
    <3>2. QED
      BY <3>1 DEF Blank
  <2>2. ToQuote(s, d) = {}
    BY <1>1, <2>1, NoValue
  <2>3. v..(g - 1) = {}
    BY <1>1, <1>2
  <2>4. QED
    BY <2>2, <2>3
<1>3. CASE v <= Len(s)
  <2>1. v \in (d + 1)..Len(s)
    BY <1>1, <1>3
  <2>2. Begins(s, d, v)
    <3>1. s[v] # "_"
      BY <1>3, CharFacts DEF BareTo
    <3>2. QED
      BY <2>1, <3>1, Zenon DEF Begins, Blank
  <2>3. s[v] \notin Quotes /\ (\A q \in v..(g - 1) : s[q] \notin Terminators) /\ (g <= Len(s) => s[g] \in Terminators)
    BY <1>3, CharFacts DEF BareTo
  <2>4. QED
    BY <1>1, <2>2, <2>3, BareValue
<1>4. QED
  BY <1>1, <1>2, <1>3

LEMMA MaskBare ==
    ASSUME NEW s \in Seq(Chars), NEW p \in 1..Len(s), NEW o \in Seq(Letters), ScanOK(s, o, p),
           NEW e \in (p + 1)..Len(s), NEW d \in e..Len(s), NEW v \in (d + 1)..(Len(s) + 1),
           Parameter(s, p, e, d, v), NEW g \in v..(Len(s) + 1), BareTo(s, v, g)
    PROVE  /\ (o \o SubSeq(s, p, v - 1)) \o Mask(v, g) \in Seq(Letters)
           /\ ScanOK(s, (o \o SubSeq(s, p, v - 1)) \o Mask(v, g), g)
<1>0. PICK t, u, w, x : /\ t = Mask(v, g) /\ u = (o \o SubSeq(s, p, v - 1)) \o Mask(v, g)
                        /\ WrittenAs(s, p, o, d, v, t, u, w, x)
  <2>1. PICK t, u, w, x : /\ t = Mask(v, g) /\ u = (o \o SubSeq(s, p, v - 1)) \o t
                          /\ w = Len(o) + (v - p) /\ x = Len(o) + (d - p) + 1
    OBVIOUS
  <2>2. QED
    BY <2>1, Zenon DEF WrittenAs
<1>w. WrittenAs(s, p, o, d, v, t, u, w, x)
  BY <1>0
<1>1. /\ Len(s) \in Nat /\ Len(o) \in Nat /\ p \in Nat /\ d \in Nat /\ v \in Nat /\ g \in Nat
      /\ p < v /\ d < v /\ v <= g /\ g <= Len(s) + 1 /\ g \in 2..(Len(s) + 1) /\ v \in (p + 1)..(Len(s) + 1)
      /\ \A q \in 1..Len(s) : s[q] \in Letters
  BY InputType, LenProperties
<1>2. /\ t \in Seq(Letters)
      /\ Len(t) = IF g > v THEN 1 ELSE 0
      /\ \A k \in 1..Len(t) : t[k] = REDACTED
  BY <1>0, <1>1, MaskFacts
<1>3. /\ u \in Seq(Letters) /\ Len(u) = w + Len(t) /\ w \in Nat
      /\ GoesOn(o, u) /\ u[Len(o) + 1] = s[p]
      /\ x \in (Len(o) + 1)..w /\ u[x] = "="
      /\ \A q \in (Len(o) + 1)..(x - 1) : u[q] # "="
      /\ \A q \in (x + 1)..w : u[q] = "_"
      /\ \A k \in 1..Len(t) : u[w + k] = t[k]
  <2>1. t \in Seq(Letters)
    BY <1>2
  <2>2. ReadsAs(s, p, o, t, u, w, x)
    BY <1>w, <2>1, Written
  <2>3. QED
    BY <2>2, Zenon DEF ReadsAs
<1>4. v <= Len(s) => s[v] \notin {"dq", "sq", "_"}
  BY CharFacts DEF BareTo
<1>5. ToQuote(s, d) = v..(g - 1)
  <2>1. Blank(s, d, v)
    BY DEF Parameter, Blank
  <2>2. d \in 1..Len(s)
    BY <1>1
  <2>3. QED
    BY <2>1, <2>2, BareRead
<1>6. Faithful(s, u, g)
  <2>1. d \in Secrets(s)
    BY ParameterIsSecret DEF ScanOK
  <2>2. Faithful(s, o, p)
    BY DEF ScanOK
  <2>3. QED
    BY <1>0, <1>1, <1>5, <2>1, <2>2, FaithfulMask
<1>n. Len(t) \in Nat /\ Len(u) = w + Len(t) /\ w \in Nat /\ Len(o) \in Nat /\ x \in (Len(o) + 1)..w
  BY <1>2, <1>3, LenProperties
<1>7. x \in (Len(o) + 1)..Len(u) /\ x \in 1..w /\ x \in Nat /\ Len(u) \in Nat
  BY <1>n
<1>8. /\ \A q \in (x + 1)..Len(u) : u[q] \in Gap \cup {REDACTED}
      /\ \A q \in ToQuote(u, x) : u[q] = REDACTED
      /\ Closed(u, x) \/ g > Len(s) \/ Pending(u, x, s[g])
  <2>1. CASE g = v
    <3>1. Len(u) = w
      <4>1. Len(t) = 0
        BY <1>1, <1>2, <2>1
      <4>2. QED
        BY <1>n, <4>1
    <3>2. \A q \in (x + 1)..Len(u) : u[q] = "_"
      BY <1>3, <3>1
    <3>3. ToQuote(u, x) = {}
      <4>1. \A q \in 1..Len(u) : u[q] \in Letters
        BY <1>3, TextType
      <4>2. QED
        BY <1>7, <3>2, <4>1, NoValue
    <3>4. g <= Len(s) => Pending(u, x, s[g])
      <4> HAVE g <= Len(s)
      <4>1. s[g] = "&" /\ s[g] \in Terminators
        BY <1>4, <2>1, CharFacts DEF BareTo
      <4>2. QED
        BY <3>2, <4>1 DEF Pending
    <3>5. \A q \in (x + 1)..Len(u) : u[q] \in Gap
      BY <3>2, CharFacts
    <3>6. QED
      BY <1>1, <3>3, <3>4, <3>5
  <2>2. CASE g > v
    <3>1. Len(t) = 1 /\ t[1] = REDACTED
      BY <1>2, <2>2
    <3>2. Len(u) = w + 1 /\ u[w + 1] = REDACTED
      <4>1. Len(u) = w + 1
        BY <1>n, <3>1
      <4>2. u[w + 1] = t[1]
        <5>1. 1 \in 1..Len(t)
          BY <3>1
        <5>2. QED
          BY <1>3, <5>1
      <4>3. QED
        BY <3>1, <4>1, <4>2
    <3>3. /\ Begins(u, x, w + 1) /\ u[w + 1] \notin Quotes /\ w + 1 \in 1..Len(u)
          /\ \A q \in ToQuote(u, x) : u[q] = REDACTED
          /\ \A q \in (x + 1)..Len(u) : u[q] \in Gap \cup {REDACTED}
      <4>1. Placeholder(u, x, w)
        BY <1>3, <3>2 DEF Placeholder
      <4>2. QED
        BY <1>3, <1>7, <4>1, BareMask
    <3>4. g <= Len(s) => Pending(u, x, s[g])
      <4>1. g <= Len(s) => s[g] \in Terminators
        BY DEF BareTo
      <4>2. QED
        BY <3>3, <4>1, Zenon DEF Pending
    <3>5. QED
      BY <1>1, <3>3, <3>4
  <2>3. QED
    BY <1>1, <2>1, <2>2
<1>9. g <= Len(s) => ~IsKeyChar(s[g]) \/ ~IsKeyChar(s[g - 1])
  BY CharFacts DEF IsKeyChar, BareTo
<1>10. ScanOK(s, u, g)
  BY <1>1, <1>3, <1>6, <1>7, <1>8, <1>9, Masked
<1>11. QED
  BY <1>0, <1>3, <1>10

\* The value is quoted: it goes up to the same quote, at g, or to the end of the text.
QuotedTo(s, v, g) ==
    /\ s[v] \in Quotes
    /\ \A q \in (v + 1)..(g - 1) : s[q] # s[v]
    /\ g <= Len(s) => s[g] = s[v]

LEMMA QuotedRead ==
    ASSUME NEW s \in Seq(Chars), NEW d \in 1..Len(s), NEW v \in (d + 1)..Len(s),
           Blank(s, d, v), NEW g \in (v + 1)..(Len(s) + 1), QuotedTo(s, v, g)
    PROVE  ToQuote(s, d) = (v + 1)..(g - 1)
<1>1. Len(s) \in Nat /\ d \in Nat
  BY InputType
<1>2. \A q \in 1..Len(s) : s[q] \in Letters
  BY InputType
<1>3. s[v] \in Quotes /\ (\A q \in (v + 1)..(g - 1) : s[q] # s[v]) /\ (g <= Len(s) => s[g] = s[v])
  BY DEF QuotedTo
<1>4. Begins(s, d, v)
  <2>1. s[v] # "_"
    BY <1>3, CharFacts
  <2>2. QED
    BY <2>1, Zenon DEF Begins, Blank
<1>5. QED
  BY <1>1, <1>2, <1>3, <1>4, QuotedValue, Zenon

\* Behind a delimiter and blanks, a quote, and before e placeholders; then the quote again,
\* or the end of the text.
Quotation(u, x, w, e) ==
    /\ \A q \in (x + 1)..w : u[q] = "_"
    /\ u[w + 1] \in Quotes
    /\ \A q \in (w + 2)..(e - 1) : u[q] = REDACTED
    /\ Len(u) = e => u[e] = u[w + 1]

LEMMA QuotedMask ==
    ASSUME NEW u \in Seq(Letters), NEW w \in Nat, NEW x \in 1..w, NEW e \in (w + 2)..(Len(u) + 1),
           Len(u) <= e, Quotation(u, x, w, e)
    PROVE  /\ \A q \in ToQuote(u, x) : u[q] = REDACTED
           /\ Len(u) = e => Closed(u, x)
           /\ \A q \in (x + 1)..Len(u) : u[q] \in Gap \cup {REDACTED}
<1>0. PICK y : y = w + 1
  OBVIOUS
<1>1. Len(u) \in Nat
  BY TextType
<1>2. /\ y \in Nat /\ x \in Nat /\ e \in Nat /\ y - 1 = w /\ y + 1 = w + 2 /\ e \in (y + 1)..(Len(u) + 1)
      /\ y \in (x + 1)..Len(u) /\ y \in 1..Len(u) /\ y < e
      /\ e <= Len(u) => Len(u) = e /\ e \in 1..Len(u) /\ y <= e
  BY <1>0, <1>1
<1>3. \A q \in (x + 1)..Len(u) : q \in (x + 1)..w \/ q = y \/ q \in (w + 2)..(e - 1) \/ (q = e /\ Len(u) = e)
  BY <1>0, <1>1
<1>4. /\ \A q \in (x + 1)..w : u[q] = "_"
      /\ u[y] \in Quotes
      /\ \A q \in (w + 2)..(e - 1) : u[q] = REDACTED
      /\ Len(u) = e => u[e] = u[y]
  BY <1>0 DEF Quotation
<1>5. u[y] # "_" /\ REDACTED # u[y] /\ u[y] \in Gap
  BY <1>4, CharFacts DEF REDACTED
<1>6. Begins(u, x, y)
  BY <1>2, <1>4, <1>5, Zenon DEF Begins
<1>7. ToQuote(u, x) = (y + 1)..(e - 1)
  <2>1. \A q \in 1..Len(u) : u[q] \in Letters
    BY TextType
  <2>2. \A q \in (y + 1)..(e - 1) : u[q] # u[y]
    BY <1>2, <1>4, <1>5
  <2>3. e <= Len(u) => u[e] = u[y]
    BY <1>2, <1>4
  <2>4. x \in Nat /\ e \in (y + 1)..(Len(u) + 1) /\ u[y] \in Quotes
    BY <1>2, <1>4
  <2>5. QED
    BY <1>1, <1>6, <2>1, <2>2, <2>3, <2>4, QuotedValue, Zenon
<1>8. \A q \in ToQuote(u, x) : u[q] = REDACTED
  BY <1>2, <1>4, <1>7
<1>9. Len(u) = e => Closed(u, x)
  <2> HAVE Len(u) = e
  <2>1. y \in 1..Len(u) /\ e \in 1..Len(u) /\ y <= e /\ e > y
    BY <1>1, <1>2
  <2>2. QED
    BY <1>4, <1>6, <2>1, Zenon DEF Closed
<1>10. \A q \in (x + 1)..Len(u) : u[q] \in Gap \cup {REDACTED}
  <2> TAKE q \in (x + 1)..Len(u)
  <2>1. u[q] = "_" \/ u[q] = u[y] \/ u[q] = REDACTED
    BY <1>3, <1>4
  <2>2. QED
    BY <1>5, <2>1, CharFacts
<1>11. QED
  BY <1>8, <1>9, <1>10

\* What is written for a quoted value.
QuoteReads(t, c, m, z) ==
    /\ t \in Seq(Letters) /\ Len(t) = 1 + Len(m) + Len(z) /\ t[1] = c
    /\ \A k \in 1..Len(m) : t[1 + k] = REDACTED
    /\ \A k \in 1..Len(z) : t[1 + Len(m) + k] = z[k]

LEMMA QuotedText ==
    ASSUME NEW c \in Letters, NEW m \in Seq(Letters), NEW z \in Seq(Letters),
           \A k \in 1..Len(m) : m[k] = REDACTED,
           NEW t, t = (<<c>> \o m) \o z
    PROVE  QuoteReads(t, c, m, z)
<1>0. PICK a, b : a = <<c>> /\ b = a \o m
  OBVIOUS
<1>1. a \in Seq(Letters) /\ Len(a) = 1 /\ a[1] = c
  BY <1>0
<1>2. Len(m) \in Nat /\ Len(z) \in Nat
  BY LenProperties
<1>3. /\ b \in Seq(Letters) /\ Len(b) = 1 + Len(m)
      /\ b[1] = c /\ \A k \in 1..Len(m) : b[1 + k] = REDACTED
  <2>1. /\ a \o m \in Seq(Letters) /\ Len(a \o m) = Len(a) + Len(m)
        /\ \A k \in 1..Len(a) : (a \o m)[k] = a[k]
        /\ \A k \in 1..Len(m) : (a \o m)[Len(a) + k] = m[k]
    BY <1>1, Appended
  <2>2. 1 \in 1..Len(a)
    BY <1>1
  <2>3. QED
    BY <1>0, <1>1, <2>1, <2>2
<1>4. /\ b \o z \in Seq(Letters) /\ Len(b \o z) = Len(b) + Len(z)
      /\ \A k \in 1..Len(b) : (b \o z)[k] = b[k]
      /\ \A k \in 1..Len(z) : (b \o z)[Len(b) + k] = z[k]
  BY <1>3, Appended
<1>5. t = b \o z
  BY <1>0
<1>6. /\ t \in Seq(Letters) /\ Len(t) = 1 + Len(m) + Len(z)
      /\ \A k \in 1..(1 + Len(m)) : t[k] = b[k]
      /\ \A k \in 1..Len(z) : t[1 + Len(m) + k] = z[k]
  BY <1>3, <1>4, <1>5
<1>7. 1 \in 1..(1 + Len(m)) /\ \A k \in 1..Len(m) : 1 + k \in 1..(1 + Len(m))
  BY <1>2
<1>8. QED
  BY <1>3, <1>6, <1>7 DEF QuoteReads

\* The pieces of a text can be put together from the left or from the right.
Regrouped(a, b, c) == (a \o b) \o c = a \o (b \o c)

LEMMA LeftToRight ==
    ASSUME NEW a \in Seq(Letters), NEW b \in Seq(Letters), NEW c \in Seq(Letters)
    PROVE  Regrouped(a, b, c)
  BY ConcatAssociative DEF Regrouped

\* Those of a quoted parameter, from the left or from the value.
SameText(a, b, c, m, z) == ((a \o (b \o c)) \o m) \o z = (a \o b) \o ((c \o m) \o z)

LEMMA Regroup ==
    ASSUME NEW a \in Seq(Letters), NEW b \in Seq(Letters), NEW c \in Seq(Letters),
           NEW m \in Seq(Letters), NEW z \in Seq(Letters)
    PROVE  SameText(a, b, c, m, z)
<1>1. PICK r \in Seq(Letters), k \in Seq(Letters) : r = a \o b /\ k = c \o m
  BY Appended
<1>2. Regrouped(a, b, c) /\ Regrouped(r, c, m) /\ Regrouped(r, k, z)
  BY LeftToRight, Zenon
<1>3. r \o c = a \o (b \o c)
  BY <1>1, <1>2 DEF Regrouped
<1>4. (r \o c) \o m = r \o k
  BY <1>1, <1>2 DEF Regrouped
<1>5. (r \o k) \o z = r \o (k \o z)
  BY <1>2 DEF Regrouped
<1>6. QED
  BY <1>1, <1>3, <1>4, <1>5, Zenon DEF SameText

LEMMA PieceGrows ==
    ASSUME NEW s \in Seq(Chars), NEW p \in 1..Len(s), NEW v \in p..Len(s)
    PROVE  SubSeq(s, p, v) = SubSeq(s, p, v - 1) \o <<s[v]>>
<1>0. PICK b, c, t, f, m : b = SubSeq(s, p, v) /\ c = <<s[v]>> /\ t = SubSeq(s, p, v - 1) /\ f = v + 1 /\ m = v - p
  OBVIOUS
<1>1. /\ Len(s) \in Nat /\ p \in Nat /\ v \in Nat /\ f \in p..(Len(s) + 1) /\ v \in p..(Len(s) + 1) /\ f - 1 = v
      /\ f - p = m + 1 /\ m \in Nat /\ p \in 1..(Len(s) + 1) /\ m = v - p /\ p - 1 + (m + 1) = v
  BY <1>0, LenProperties
<1>2. b \in Seq(Letters) /\ Len(b) = m + 1 /\ \A k \in 1..(m + 1) : b[k] = s[(p - 1) + k]
  <2>1. b = SubSeq(s, p, f - 1)
    BY <1>0, <1>1
  <2>2. /\ SubSeq(s, p, f - 1) \in Seq(Letters) /\ Len(SubSeq(s, p, f - 1)) = f - p
        /\ \A k \in 1..(f - p) : SubSeq(s, p, f - 1)[k] = s[(p - 1) + k]
    BY <1>1, Piece
  <2>3. QED
    BY <1>1, <2>1, <2>2
<1>3. t \in Seq(Letters) /\ Len(t) = m /\ \A k \in 1..m : t[k] = s[(p - 1) + k]
  <2>1. /\ SubSeq(s, p, v - 1) \in Seq(Letters) /\ Len(SubSeq(s, p, v - 1)) = v - p
        /\ \A k \in 1..(v - p) : SubSeq(s, p, v - 1)[k] = s[(p - 1) + k]
    BY <1>1, Piece
  <2>2. QED
    BY <1>0, <2>1
<1>4. c \in Seq(Letters) /\ Len(c) = 1 /\ c[1] = s[v]
  <2>1. s[v] \in Letters
    <3>1. v \in 1..Len(s)
      BY <1>1
    <3>2. QED
      BY <3>1, InputType
  <2>2. QED
    BY <1>0, <2>1
<1>5. /\ t \o c \in Seq(Letters) /\ Len(t \o c) = m + 1
      /\ \A k \in 1..m : (t \o c)[k] = t[k]
      /\ (t \o c)[m + 1] = c[1]
  <2>1. /\ t \o c \in Seq(Letters) /\ Len(t \o c) = Len(t) + Len(c)
        /\ \A k \in 1..Len(t) : (t \o c)[k] = t[k]
        /\ \A k \in 1..Len(c) : (t \o c)[Len(t) + k] = c[k]
    BY <1>3, <1>4, Appended
  <2>2. 1 \in 1..Len(c)
    BY <1>4
  <2>3. (t \o c)[Len(t) + 1] = c[1]
    BY <2>1, <2>2
  <2>4. QED
    BY <1>3, <1>4, <2>1, <2>3
<1>6. \A k \in 1..(m + 1) : b[k] = (t \o c)[k]
  <2> TAKE k \in 1..(m + 1)
  <2>1. k \in 1..m \/ k = m + 1
    BY <1>1
  <2>2. CASE k \in 1..m
    BY <1>2, <1>3, <1>5, <2>2
  <2>3. CASE k = m + 1
    <3>1. b[k] = s[(p - 1) + k] /\ (p - 1) + k = v
      BY <1>1, <1>2, <2>3
    <3>2. QED
      BY <1>4, <1>5, <2>3, <3>1
  <2>4. QED
    BY <2>1, <2>2, <2>3
<1>7. b = t \o c
  <2>1. Len(b) = Len(t \o c) /\ \A k \in 1..Len(b) : b[k] = (t \o c)[k]
    BY <1>2, <1>5, <1>6
  <2>2. QED
    BY <1>2, <1>5, <2>1, SeqEqual
<1>8. QED
  BY <1>0, <1>7

\* What redact_value writes for the quoted value from v up to g, and where it goes on.
Closing(s, g) == IF g <= Len(s) THEN <<s[g]>> ELSE <<>>
Quoted(s, v, g) == (<<s[v]>> \o Mask(v + 1, g)) \o Closing(s, g)
GoesTo(s, g) == IF g <= Len(s) THEN g + 1 ELSE g

LEMMA ClosingFacts ==
    ASSUME NEW s \in Seq(Chars), NEW g \in 1..(Len(s) + 1)
    PROVE  /\ Closing(s, g) \in Seq(Letters)
           /\ g <= Len(s) => Len(Closing(s, g)) = 1 /\ Closing(s, g)[1] = s[g]
           /\ ~(g <= Len(s)) => Closing(s, g) = <<>> /\ Len(Closing(s, g)) = 0
<1>1. CASE g <= Len(s)
  <2>1. g \in 1..Len(s)
    BY <1>1, InputType
  <2>2. s[g] \in Letters
    BY <2>1, InputType
  <2>3. Closing(s, g) = <<s[g]>>
    BY <1>1 DEF Closing
  <2>4. QED
    BY <1>1, <2>2, <2>3
<1>2. CASE ~(g <= Len(s))
  <2>1. Closing(s, g) = <<>>
    BY <1>2 DEF Closing
  <2>2. QED
    BY <1>2, <2>1, EmptySeq
<1>3. QED
  BY <1>1, <1>2

LEMMA QuotedPieces ==
    ASSUME NEW s \in Seq(Chars), NEW p \in 1..Len(s), NEW o \in Seq(Letters),
           NEW v \in p..Len(s), NEW g \in (v + 1)..(Len(s) + 1)
    PROVE  /\ (o \o SubSeq(s, p, v)) \o Mask(v + 1, g) \in Seq(Letters)
           /\ ((o \o SubSeq(s, p, v)) \o Mask(v + 1, g)) \o Closing(s, g)
                = (o \o SubSeq(s, p, v - 1)) \o Quoted(s, v, g)
<1>1. /\ v + 1 \in Nat /\ g \in Nat /\ v \in 1..Len(s) /\ p \in 1..(Len(s) + 1) /\ v \in p..(Len(s) + 1)
      /\ g \in 1..(Len(s) + 1)
  BY InputType
<1>2. SubSeq(s, p, v - 1) \in Seq(Letters)
  BY <1>1, Piece
<1>3. <<s[v]>> \in Seq(Letters)
  <2>1. s[v] \in Letters
    BY <1>1, InputType
  <2>2. QED
    BY <2>1
<1>4. Mask(v + 1, g) \in Seq(Letters)
  BY <1>1, MaskFacts
<1>5. Closing(s, g) \in Seq(Letters)
  BY <1>1, ClosingFacts
<1>6. PICK b \in Seq(Letters), c \in Seq(Letters), m \in Seq(Letters), z \in Seq(Letters) :
        b = SubSeq(s, p, v - 1) /\ c = <<s[v]>> /\ m = Mask(v + 1, g) /\ z = Closing(s, g)
  BY <1>2, <1>3, <1>4, <1>5
<1>7. ((o \o (b \o c)) \o m) \o z = (o \o b) \o ((c \o m) \o z)
  <2>1. SameText(o, b, c, m, z)
    BY Regroup
  <2>2. QED
    BY <2>1, Zenon DEF SameText
<1>8. (o \o (b \o c)) \o m \in Seq(Letters)
  <2>1. b \o c \in Seq(Letters)
    BY Appended
  <2>2. o \o (b \o c) \in Seq(Letters)
    BY <2>1, Appended
  <2>3. QED
    BY <2>2, Appended
<1>9. SubSeq(s, p, v) = b \o c
  BY <1>6, PieceGrows
<1>10. QED
  BY <1>6, <1>7, <1>8, <1>9 DEF Quoted

LEMMA FaithfulQuoted ==
    ASSUME NEW s \in Seq(Chars), NEW p \in 1..Len(s), NEW o \in Seq(Letters), Faithful(s, o, p),
           NEW d \in Secrets(s), NEW v \in (p + 1)..Len(s), NEW g \in (v + 1)..(Len(s) + 1),
           ToQuote(s, d) = (v + 1)..(g - 1)
    PROVE  Faithful(s, (o \o SubSeq(s, p, v - 1)) \o Quoted(s, v, g), GoesTo(s, g))
<1>0. PICK f, r : f = v + 1 /\ r = (o \o SubSeq(s, p, v)) \o Mask(v + 1, g)
  OBVIOUS
<1>1. /\ Len(s) \in Nat /\ p \in Nat /\ v \in Nat /\ g \in Nat /\ f \in (p + 1)..(Len(s) + 1)
      /\ g \in f..(Len(s) + 1) /\ f - 1 = v /\ v \in p..Len(s) /\ v \in 1..Len(s) /\ v \in p..(Len(s) + 1)
      /\ g \in 1..(Len(s) + 1) /\ p \in 1..(Len(s) + 1) /\ f \in p..(Len(s) + 1) /\ f \in Nat
  BY <1>0, InputType
<1>2. Faithful(s, (o \o SubSeq(s, p, f - 1)) \o Mask(f, g), g)
  <2>1. ToQuote(s, d) = f..(g - 1)
    BY <1>0
  <2>2. QED
    BY <1>1, <2>1, FaithfulMask
<1>3. Faithful(s, r, g)
  BY <1>0, <1>1, <1>2
<1>5. r \in Seq(Letters)
  BY <1>0, <1>1, QuotedPieces
<1>6. r \o Closing(s, g) = (o \o SubSeq(s, p, v - 1)) \o Quoted(s, v, g)
  BY <1>0, <1>1, QuotedPieces
<1>7. Faithful(s, r \o Closing(s, g), GoesTo(s, g))
  <2>1. CASE g <= Len(s)
    <3>1. PICK t : t = Closing(s, g)
      OBVIOUS
    <3>2. t \in Seq(Letters) /\ Len(t) = 1 /\ t[1] = s[g]
      BY <1>1, <2>1, <3>1, ClosingFacts
    <3>3. g <= g + 1 /\ g - (g - 1) = 1 /\ (g - 1) + 1 = g
      BY <1>1
    <3>4. Len(t) = g - (g - 1) /\ \A k \in 1..(g - (g - 1)) : t[k] = s[(g - 1) + k]
      BY <3>2, <3>3
    <3>5. Faithful(s, r \o t, g + 1)
      BY <1>1, <1>3, <1>5, <3>2, <3>3, <3>4, FaithfulCopy
    <3>6. QED
      BY <2>1, <3>1, <3>5 DEF GoesTo
  <2>2. CASE ~(g <= Len(s))
    <3>1. Closing(s, g) = <<>>
      BY <1>1, <2>2, ClosingFacts
    <3>2. r \o <<>> = r
      BY <1>5, ConcatEmptySeq
    <3>3. QED
      BY <1>3, <2>2, <3>1, <3>2 DEF GoesTo
  <2>3. QED
    BY <2>1, <2>2
<1>8. QED
  BY <1>6, <1>7

LEMMA QuotePlaces ==
    ASSUME NEW n \in Nat, NEW w \in Nat, NEW a \in Nat, NEW b \in {0, 1}, NEW x \in (n + 1)..w,
           NEW l, l = w + (1 + a + b), NEW h, h = w + 2 + a
    PROVE  /\ h \in (w + 2)..(l + 1) /\ l <= h
           /\ (l = h <=> b = 1)
           /\ x \in 1..w /\ x \in (n + 1)..l
  OBVIOUS

\* The value is quoted.
LEMMA MaskQuoted ==
    ASSUME NEW s \in Seq(Chars), NEW p \in 1..Len(s), NEW o \in Seq(Letters), ScanOK(s, o, p),
           NEW e \in (p + 1)..Len(s), NEW d \in e..Len(s), NEW v \in (d + 1)..Len(s),
           Parameter(s, p, e, d, v), NEW g \in (v + 1)..(Len(s) + 1), QuotedTo(s, v, g)
    PROVE  /\ (o \o SubSeq(s, p, v - 1)) \o Quoted(s, v, g) \in Seq(Letters)
           /\ ScanOK(s, (o \o SubSeq(s, p, v - 1)) \o Quoted(s, v, g), GoesTo(s, g))
<1>0. PICK t, u, w, x, m, z, y : /\ m = Mask(v + 1, g) /\ z = Closing(s, g) /\ y = GoesTo(s, g)
                              /\ t = Quoted(s, v, g) /\ u = (o \o SubSeq(s, p, v - 1)) \o Quoted(s, v, g)
                              /\ WrittenAs(s, p, o, d, v, t, u, w, x)
  <2>1. PICK t, u, w, x, m, z, y : /\ m = Mask(v + 1, g) /\ z = Closing(s, g) /\ y = GoesTo(s, g)
                                /\ t = Quoted(s, v, g) /\ u = (o \o SubSeq(s, p, v - 1)) \o t
                                /\ w = Len(o) + (v - p) /\ x = Len(o) + (d - p) + 1
    OBVIOUS
  <2>2. QED
    BY <2>1, Zenon DEF WrittenAs
<1>w. WrittenAs(s, p, o, d, v, t, u, w, x)
  BY <1>0
<1>1. /\ Len(s) \in Nat /\ Len(o) \in Nat /\ v \in Nat /\ g \in Nat /\ v + 1 \in Nat
      /\ d \in 1..Len(s) /\ v \in 1..Len(s) /\ v \in (p + 1)..Len(s) /\ g \in 1..(Len(s) + 1)
      /\ v \in (d + 1)..(Len(s) + 1) /\ g >= 2 /\ g <= Len(s) + 1
  BY LenProperties
<1>2. /\ m \in Seq(Letters) /\ Len(m) \in {0, 1}
      /\ \A k \in 1..Len(m) : m[k] = REDACTED
  BY <1>0, <1>1, MaskFacts
<1>3. /\ z \in Seq(Letters)
      /\ g <= Len(s) => Len(z) = 1 /\ z[1] = s[g]
      /\ ~(g <= Len(s)) => Len(z) = 0
  BY <1>0, <1>1, ClosingFacts
<1>4. s[v] \in Letters /\ s[v] \in Quotes /\ (g <= Len(s) => s[g] = s[v])
  BY <1>1, InputType DEF QuotedTo
<1>5. /\ t \in Seq(Letters) /\ Len(t) = 1 + Len(m) + Len(z) /\ t[1] = s[v]
      /\ \A k \in 1..Len(m) : t[1 + k] = REDACTED
      /\ \A k \in 1..Len(z) : t[1 + Len(m) + k] = z[k]
  <2>1. t = (<<s[v]>> \o m) \o z
    BY <1>0 DEF Quoted
  <2>2. PICK c \in Letters : c = s[v]
    BY <1>4
  <2>3. m \in Seq(Letters) /\ z \in Seq(Letters)
    BY <1>2, <1>3
  <2>4. \A k \in 1..Len(m) : m[k] = REDACTED
    BY <1>2
  <2>5. t = (<<c>> \o m) \o z
    BY <2>1, <2>2
  <2>6. QuoteReads(t, c, m, z)
    BY <2>3, <2>4, <2>5, QuotedText
  <2>7. QED
    BY <2>2, <2>6, Zenon DEF QuoteReads
<1>6. ReadsAs(s, p, o, t, u, w, x)
  <2>1. t \in Seq(Letters)
    BY <1>5
  <2>2. QED
    BY <1>1, <1>w, <2>1, Written
<1>7. /\ u \in Seq(Letters) /\ Len(u) = w + Len(t) /\ w \in Nat
      /\ GoesOn(o, u) /\ u[Len(o) + 1] = s[p]
      /\ x \in (Len(o) + 1)..w /\ u[x] = "="
      /\ \A q \in (Len(o) + 1)..(x - 1) : u[q] # "="
      /\ \A q \in (x + 1)..w : u[q] = "_"
      /\ \A k \in 1..Len(t) : u[w + k] = t[k]
  BY <1>6, Zenon DEF ReadsAs
<1>8. PICK h : h = w + 2 + Len(m)
  OBVIOUS
<1>m. Len(m) \in Nat /\ Len(m) \in {0, 1}
  BY <1>2
<1>z. Len(z) \in {0, 1} /\ Len(z) \in Nat /\ (g <= Len(s) <=> Len(z) = 1)
  <2>1. CASE g <= Len(s)
    <3>1. Len(z) = 1
      BY <1>3, <2>1
    <3>2. QED
      BY <2>1, <3>1
  <2>2. CASE ~(g <= Len(s))
    <3>1. Len(z) = 0
      BY <1>3, <2>2
    <3>2. QED
      BY <2>2, <3>1
  <2>3. QED
    BY <2>1, <2>2
<1>9. /\ w \in Nat /\ Len(t) = 1 + Len(m) + Len(z) /\ Len(u) = w + Len(t)
      /\ x \in (Len(o) + 1)..w /\ h = w + 2 + Len(m)
  BY <1>5, <1>7, <1>8
<1>10. /\ Len(t) \in Nat /\ h \in (w + 2)..(Len(u) + 1) /\ Len(u) <= h
       /\ (Len(u) = h <=> g <= Len(s))
       /\ x \in 1..w /\ x \in (Len(o) + 1)..Len(u)
  <2>1. Len(o) \in Nat
    BY <1>1
  <2>2. Len(u) = w + (1 + Len(m) + Len(z)) /\ Len(t) \in Nat
    BY <1>m, <1>z, <1>9
  <2>3. /\ h \in (w + 2)..(Len(u) + 1) /\ Len(u) <= h
        /\ (Len(u) = h <=> Len(z) = 1)
        /\ x \in 1..w /\ x \in (Len(o) + 1)..Len(u)
    <3>1. PICK n \in Nat, a \in Nat, b \in {0, 1}, l, i \in Nat :
            n = Len(o) /\ a = Len(m) /\ b = Len(z) /\ l = Len(u) /\ i = w
      BY <1>m, <1>z, <1>9, <2>1
    <3>2. x \in (n + 1)..i /\ l = i + (1 + a + b) /\ h = i + 2 + a
      BY <1>9, <2>2, <3>1
    <3>3. /\ h \in (i + 2)..(l + 1) /\ l <= h
          /\ (l = h <=> b = 1)
          /\ x \in 1..i /\ x \in (n + 1)..l
      BY <3>2, QuotePlaces
    <3>4. QED
      BY <3>1, <3>3
  <2>4. QED
    BY <1>z, <2>2, <2>3
<1>11. Quotation(u, x, w, h)
  <2>1. u[w + 1] = s[v]
    <3>1. 1 \in 1..Len(t)
      BY <1>m, <1>z, <1>9
    <3>2. QED
      BY <1>5, <1>7, <3>1
  <2>2. \A q \in (w + 2)..(h - 1) : u[q] = REDACTED
    <3> TAKE q \in (w + 2)..(h - 1)
    <3>1. PICK k, l : k = q - w /\ l = q - w - 1
      OBVIOUS
    <3>2. k \in 1..Len(t) /\ l \in 1..Len(m) /\ k = 1 + l /\ w + k = q
      BY <1>m, <1>z, <1>9, <3>1
    <3>3. u[w + k] = t[k] /\ t[1 + l] = REDACTED
      BY <1>5, <1>7, <3>2
    <3>4. QED
      BY <3>2, <3>3
  <2>3. Len(u) = h => u[h] = s[v]
    <3> HAVE Len(u) = h
    <3>1. g <= Len(s) /\ Len(z) = 1 /\ z[1] = s[v]
      BY <1>3, <1>4, <1>10
    <3>2. PICK k : k = 1 + Len(m) + 1
      OBVIOUS
    <3>3. k \in 1..Len(t) /\ w + k = h /\ 1 \in 1..Len(z)
      BY <1>m, <1>z, <1>9, <3>1, <3>2
    <3>4. u[w + k] = t[k] /\ t[1 + Len(m) + 1] = z[1]
      BY <1>5, <1>7, <3>3
    <3>5. QED
      BY <3>1, <3>2, <3>3, <3>4
  <2>4. QED
    BY <1>4, <1>7, <2>1, <2>2, <2>3, Zenon DEF Quotation
<1>12. /\ \A q \in ToQuote(u, x) : u[q] = REDACTED
       /\ Len(u) = h => Closed(u, x)
       /\ \A q \in (x + 1)..Len(u) : u[q] \in Gap \cup {REDACTED}
  BY <1>7, <1>10, <1>11, QuotedMask
<1>13. /\ y \in 2..(Len(s) + 1)
       /\ g <= Len(s) => y = g + 1 /\ y - 1 = g
       /\ ~(g <= Len(s)) => y > Len(s)
  BY <1>0, <1>1 DEF GoesTo
<1>14. Closed(u, x) \/ y > Len(s) \/ Pending(u, x, s[y])
  BY <1>10, <1>12, <1>13
<1>15. y <= Len(s) => ~IsKeyChar(s[y]) \/ ~IsKeyChar(s[y - 1])
  <2> HAVE y <= Len(s)
  <2>1. g <= Len(s)
    BY <1>1, <1>13
  <2>2. s[y - 1] \in Quotes
    BY <1>4, <1>13, <2>1
  <2>3. QED
    BY <2>2, CharFacts DEF IsKeyChar
<1>16. Faithful(s, u, y)
  <2>1. d \in Secrets(s)
    BY <1>1, ParameterIsSecret DEF ScanOK
  <2>2. ToQuote(s, d) = (v + 1)..(g - 1)
    <3>1. Blank(s, d, v)
      BY DEF Parameter, Blank
    <3>2. QED
      BY <1>1, <3>1, QuotedRead
  <2>3. Faithful(s, o, p)
    BY DEF ScanOK
  <2>4. Faithful(s, (o \o SubSeq(s, p, v - 1)) \o Quoted(s, v, g), GoesTo(s, g))
    BY <1>1, <2>1, <2>2, <2>3, FaithfulQuoted
  <2>5. QED
    BY <1>0, <2>4
<1>17. ScanOK(s, u, y)
  BY <1>7, <1>10, <1>12, <1>13, <1>14, <1>15, <1>16, Masked
<1>18. QED
  BY <1>0, <1>7, <1>17

-----------------------------------------------------------------------------
LEMMA UptoFacts ==
    ASSUME NEW s \in Seq(Chars), NEW p \in 1..(Len(s) + 1), NEW these
    PROVE  /\ Upto(s, p, these) \in p..(Len(s) + 1)
           /\ \A q \in p..(Upto(s, p, these) - 1) : s[q] \notin these
           /\ Upto(s, p, these) <= Len(s) => s[Upto(s, p, these)] \in these
<1>0. PICK g : g = Upto(s, p, these)
  OBVIOUS
<1>1. /\ g \in p..(Len(s) + 1)
      /\ \A q \in p..(g - 1) : s[q] \in Chars \ these
      /\ g <= Len(s) => s[g] \notin Chars \ these
  BY <1>0, AfterFacts DEF Upto
<1>2. g <= Len(s) => s[g] \in these
  <2> HAVE g <= Len(s)
  <2>1. g \in 1..Len(s)
    BY <1>1, LenProperties
  <2>2. s[g] \in Chars
    BY <2>1, ElementOfSeq
  <2>3. QED
    BY <1>1, <2>2
<1>3. QED
  BY <1>0, <1>1, <1>2

\* A name is read whole, and at least one character of it.
NameEnd(s, p) == After(s, p, {c \in Chars : IsKeyChar(c)})

LEMMA NameRead ==
    ASSUME NEW s \in Seq(Chars), NEW p \in 1..Len(s), IsKeyChar(s[p])
    PROVE  NameEnd(s, p) \in (p + 1)..(Len(s) + 1) /\ NameAt(s, p, NameEnd(s, p))
<1>1. Len(s) \in Nat /\ p \in Nat /\ p \in 1..(Len(s) + 1) /\ p <= Len(s)
  BY LenProperties
<1>k. s[p] \in {"w", "a"}
  BY DEF IsKeyChar
<1>e. PICK e : e = NameEnd(s, p)
  OBVIOUS
<1>2. e = After(s, p, {"w", "a"})
  BY <1>e, CharFacts, Zenon DEF NameEnd
<1>3. /\ After(s, p, {"w", "a"}) \in p..(Len(s) + 1)
      /\ \A q \in p..(After(s, p, {"w", "a"}) - 1) : s[q] \in {"w", "a"}
      /\ After(s, p, {"w", "a"}) <= Len(s) => s[After(s, p, {"w", "a"})] \notin {"w", "a"}
  BY <1>1, AfterFacts
<1>4. e \in p..(Len(s) + 1)
  BY <1>2, <1>3
<1>5. \A q \in p..(e - 1) : s[q] \in {"w", "a"}
  BY <1>2, <1>3
<1>6. e <= Len(s) => s[e] \notin {"w", "a"}
  BY <1>2, <1>3
<1>7. e # p
  BY <1>1, <1>k, <1>6
<1>8. e \in (p + 1)..(Len(s) + 1)
  BY <1>1, <1>4, <1>7
<1>9. NameAt(s, p, e)
  BY <1>5, <1>6, Zenon DEF NameAt
<1>10. QED
  BY <1>e, <1>8, <1>9

LEMMA KeyIsSensitive ==
    ASSUME NEW s \in Seq(Chars), NEW p \in 1..(Len(s) + 1), NEW e \in p..(Len(s) + 1)
    PROVE  IsSensitiveKey(SubSeq(s, p, e - 1)) <=> \E q \in p..(e - 1) : s[q] = "w"
<1>0. PICK t, m : t = SubSeq(s, p, e - 1) /\ m = e - p
  OBVIOUS
<1>1. t \in Seq(Letters) /\ Len(t) = m /\ \A k \in 1..m : t[k] = s[(p - 1) + k]
  BY <1>0, Piece
<1>2. DOMAIN t = 1..m
  BY <1>1
<1>3. IsSensitiveKey(t) <=> \E k \in 1..m : t[k] = "w"
  BY <1>2 DEF IsSensitiveKey, ToSet
<1>4. ASSUME NEW k \in 1..m, t[k] = "w" PROVE \E q \in p..(e - 1) : s[q] = "w"
  <2>1. (p - 1) + k \in p..(e - 1)
    BY <1>0, LenProperties
  <2>2. QED
    BY <1>1, <1>4, <2>1
<1>5. ASSUME NEW q \in p..(e - 1), s[q] = "w" PROVE \E k \in 1..m : t[k] = "w"
  <2>1. PICK k : k = q - (p - 1)
    OBVIOUS
  <2>2. k \in 1..m /\ (p - 1) + k = q
    BY <1>0, <2>1, LenProperties
  <2>3. t[k] = s[(p - 1) + k]
    BY <1>1, <2>2
  <2>4. QED
    BY <1>5, <2>2, <2>3
<1>6. QED
  BY <1>0, <1>3, <1>4, <1>5

\* A sensitive parameter is read as the reference definitions have it.
Behind(s, e) == After(s, e, Gap)
ValueAt(s, d) == After(s, d + 1, {"_"})
Sensitive(s, p, e) == \E q \in p..(e - 1) : s[q] = "w"
Delimited(s, d) == d <= Len(s) /\ s[d] = "="

LEMMA ParameterRead ==
    ASSUME NEW s \in Seq(Chars), NEW p \in 1..Len(s),
           NEW e \in (p + 1)..(Len(s) + 1), NameAt(s, p, e), Sensitive(s, p, e),
           Delimited(s, Behind(s, e))
    PROVE  /\ e \in (p + 1)..Len(s) /\ Behind(s, e) \in e..Len(s)
           /\ ValueAt(s, Behind(s, e)) \in (Behind(s, e) + 1)..(Len(s) + 1)
           /\ Parameter(s, p, e, Behind(s, e), ValueAt(s, Behind(s, e)))
<1>1. Len(s) \in Nat /\ p \in Nat /\ e \in Nat /\ e \in 1..(Len(s) + 1)
  BY LenProperties
<1>d. PICK d : d = Behind(s, e)
  OBVIOUS
<1>v. PICK v : v = ValueAt(s, d)
  OBVIOUS
<1>a. /\ After(s, e, Gap) \in e..(Len(s) + 1)
      /\ \A q \in e..(After(s, e, Gap) - 1) : s[q] \in Gap
  BY <1>1, AfterFacts
<1>2. d \in e..(Len(s) + 1)
  BY <1>d, <1>a, Zenon DEF Behind
<1>g. \A q \in e..(d - 1) : s[q] \in Gap
  BY <1>d, <1>a, Zenon DEF Behind
<1>l. d <= Len(s)
  BY <1>d, Zenon DEF Delimited
<1>s. s[d] = "="
  BY <1>d, Zenon DEF Delimited
<1>3. d \in e..Len(s) /\ d + 1 \in 1..(Len(s) + 1) /\ e \in (p + 1)..Len(s) /\ d \in Nat
  BY <1>1, <1>2, <1>l
<1>b. /\ After(s, d + 1, {"_"}) \in (d + 1)..(Len(s) + 1)
      /\ \A q \in (d + 1)..(After(s, d + 1, {"_"}) - 1) : s[q] \in {"_"}
      /\ After(s, d + 1, {"_"}) <= Len(s) => s[After(s, d + 1, {"_"})] \notin {"_"}
  BY <1>3, AfterFacts
<1>4. /\ v \in (d + 1)..(Len(s) + 1)
      /\ \A q \in (d + 1)..(v - 1) : s[q] \in {"_"}
      /\ v <= Len(s) => s[v] \notin {"_"}
  BY <1>v, <1>b, Zenon DEF ValueAt
<1>5. Parameter(s, p, e, d, v)
  <2>1. \A q \in (d + 1)..(v - 1) : s[q] = "_"
    BY <1>4
  <2>2. v <= Len(s) => s[v] # "_"
    BY <1>4
  <2>3. \A q \in p..(e - 1) : s[q] \in {"w", "a"}
    BY Zenon DEF NameAt
  <2>4. \E q \in p..(e - 1) : s[q] = "w"
    BY Zenon DEF Sensitive
  <2>5. QED
    BY <1>g, <1>s, <2>1, <2>2, <2>3, <2>4, Zenon DEF Parameter
<1>6. QED
  BY <1>d, <1>v, <1>3, <1>4, <1>5, Zenon
-----------------------------------------------------------------------------
LEMMA ScanStarts ==
    ASSUME NEW s \in Seq(Chars)
    PROVE  ScanOK(s, <<>>, 1)
<1>1. Len(<<>>) = 0 /\ 1..Len(<<>>) = {} /\ 1 - 1 = 0
  OBVIOUS
<1>2. Settled(s, <<>>, 1)
  <2>1. Secrets(<<>>) = {}
    BY <1>1 DEF Secrets
  <2>2. QED
    BY <2>1 DEF Settled
<1>3. WordEnds(s, <<>>, 1)
  BY DEF WordEnds
<1>4. NameEnds(s, <<>>, 1)
  <2>1. ~Named(<<>>, Len(<<>>) + 1)
    BY <1>1 DEF Named
  <2>2. QED
    BY <2>1 DEF NameEnds
<1>5. Faithful(s, <<>>, 1)
  <2>1. Hidden(s, {}) = {}
    BY DEF Hidden
  <2>2. Shows(s, 0, {}, <<>>)
    <3>1. Left(0, {}) = {}
      BY DEF Left
    <3>2. Cardinality({}) = 0
      BY FS_EmptySet
    <3>3. QED
      BY <1>1, <3>1, <3>2, Zenon DEF Shows, Left
  <2>3. {} \in SUBSET Secrets(s) /\ Hidden(s, {}) \subseteq 1..(1 - 1)
    BY <2>1
  <2>4. Shows(s, 1 - 1, Hidden(s, {}), <<>>)
    BY <1>1, <2>1, <2>2
  <2>5. QED
    BY <2>3, <2>4, Zenon DEF Faithful
<1>6. QED
  BY <1>2, <1>3, <1>4, <1>5 DEF ScanOK

LEMMA TextsAreSequences ==
    ASSUME NEW S, NEW n \in Nat, NEW s \in BoundedSeq(S, n)
    PROVE  s \in Seq(S)
<1>1. PICK m \in 0..n : s \in [1..m -> S]
  BY DEF BoundedSeq, SeqOf
<1>2. m \in Nat
  OBVIOUS
<1>3. QED
  BY <1>1, <1>2, SeqDef

\* A value that begins at v is masked as the reference definitions have it, and the
\* scanner goes on behind it.
LEMMA ValueMasked ==
    ASSUME TextsOK, viewer # "admin", NEW p \in 1..Len(input), ScanOK(input, out, p),
           NEW e \in (p + 1)..Len(input), NEW d \in e..Len(input),
           NEW v \in (d + 1)..(Len(input) + 1), Parameter(input, p, e, d, v)
    PROVE  /\ out \o SubSeq(input, p, v - 1) \o RedactValue(v).text \in Seq(Letters)
           /\ RedactValue(v).next \in 1..(Len(input) + 1)
           /\ ScanOK(input, out \o SubSeq(input, p, v - 1) \o RedactValue(v).text, RedactValue(v).next)
<1>1. input \in Seq(Chars) /\ out \in Seq(Letters)
  BY Zenon DEF TextsOK
<1>2. Len(input) \in Nat /\ p \in Nat /\ e \in Nat /\ d \in Nat /\ v \in Nat /\ v \in 1..(Len(input) + 1)
  BY <1>1, LenProperties
<1>3. CASE v <= Len(input) /\ input[v] \in Quotes
  <2>1. v \in (d + 1)..Len(input) /\ v + 1 \in 1..(Len(input) + 1)
    BY <1>2, <1>3
  <2>g. PICK g : g = Upto(input, v + 1, {input[v]})
    OBVIOUS
  <2>2. /\ Upto(input, v + 1, {input[v]}) \in (v + 1)..(Len(input) + 1)
        /\ \A q \in (v + 1)..(Upto(input, v + 1, {input[v]}) - 1) : input[q] \notin {input[v]}
        /\ Upto(input, v + 1, {input[v]}) <= Len(input)
             => input[Upto(input, v + 1, {input[v]})] \in {input[v]}
    BY <1>1, <2>1, UptoFacts
  <2>3. /\ g \in (v + 1)..(Len(input) + 1)
        /\ \A q \in (v + 1)..(g - 1) : input[q] \notin {input[v]}
        /\ g <= Len(input) => input[g] \in {input[v]}
    BY <2>g, <2>2, Zenon
  <2>4. QuotedTo(input, v, g)
    <3>1. \A q \in (v + 1)..(g - 1) : input[q] # input[v]
      BY <2>3
    <3>2. g <= Len(input) => input[g] = input[v]
      BY <2>3
    <3>3. QED
      BY <1>3, <3>1, <3>2, Zenon DEF QuotedTo
  <2>5. RedactValue(v) = [text |-> Quoted(input, v, g), next |-> GoesTo(input, g)]
    BY <1>3, <2>g, Zenon DEF RedactValue, Quoted, Closing, GoesTo
  <2>6. RedactValue(v).text = Quoted(input, v, g) /\ RedactValue(v).next = GoesTo(input, g)
    BY <2>5
  <2>7. g \in (v + 1)..(Len(input) + 1)
    BY <2>3, Zenon
  <2>8. GoesTo(input, g) \in 1..(Len(input) + 1)
    BY <1>2, <2>7 DEF GoesTo
  <2>9. /\ (out \o SubSeq(input, p, v - 1)) \o Quoted(input, v, g) \in Seq(Letters)
        /\ ScanOK(input, (out \o SubSeq(input, p, v - 1)) \o Quoted(input, v, g), GoesTo(input, g))
    BY <1>1, <2>1, <2>4, <2>7, MaskQuoted
  <2>10. QED
    BY <2>6, <2>8, <2>9, Zenon
<1>4. CASE ~(v <= Len(input) /\ input[v] \in Quotes)
  <2>g. PICK g : g = Upto(input, v, {c \in Chars : IsValueTerminator(c)})
    OBVIOUS
  <2>1. g = Upto(input, v, Terminators)
    BY <2>g, Zenon DEF Terminators
  <2>2. /\ Upto(input, v, Terminators) \in v..(Len(input) + 1)
        /\ \A q \in v..(Upto(input, v, Terminators) - 1) : input[q] \notin Terminators
        /\ Upto(input, v, Terminators) <= Len(input) => input[Upto(input, v, Terminators)] \in Terminators
    BY <1>1, <1>2, UptoFacts
  <2>3. g \in v..(Len(input) + 1)
    BY <2>1, <2>2, Zenon
  <2>4. BareTo(input, v, g)
    <3>1. \A q \in v..(g - 1) : input[q] \notin Terminators
      BY <2>1, <2>2, Zenon
    <3>2. g <= Len(input) => input[g] \in Terminators
      BY <2>1, <2>2, Zenon
    <3>3. v <= Len(input) => input[v] # "_"
      BY Zenon DEF Parameter
    <3>4. v <= Len(input) => input[v] \notin Gap
      BY <1>4, <3>3 DEF Gap
    <3>5. QED
      BY <3>1, <3>2, <3>4, Zenon DEF BareTo
  <2>5. RedactValue(v) = [text |-> Mask(v, g), next |-> g]
    BY <1>4, <2>g, Zenon DEF RedactValue
  <2>6. RedactValue(v).text = Mask(v, g) /\ RedactValue(v).next = g
    BY <2>5
  <2>7. g \in 1..(Len(input) + 1)
    BY <1>2, <2>3
  <2>8. /\ (out \o SubSeq(input, p, v - 1)) \o Mask(v, g) \in Seq(Letters)
        /\ ScanOK(input, (out \o SubSeq(input, p, v - 1)) \o Mask(v, g), g)
    BY <1>1, <2>3, <2>4, MaskBare
  <2>9. QED
    BY <2>6, <2>7, <2>8, Zenon
<1>5. QED
  BY <1>3, <1>4, Zenon
-----------------------------------------------------------------------------
LEMMA RedactStarts == RedactInit => RedactInv
<1> SUFFICES ASSUME RedactInit PROVE RedactInv
  OBVIOUS
<1>1. input \in Seq(Chars)
  BY RedactConstants, TextsAreSequences DEF RedactInit
<1>2. viewer \in Roles /\ pos = 1 /\ out = <<>> /\ shown = FALSE
  BY DEF RedactInit
<1>3. pos \in 1..(Len(input) + 1)
  BY <1>1, <1>2, LenProperties
<1>4. out \in Seq(Letters)
  BY <1>2
<1>5. ScanOK(input, out, pos)
  BY <1>1, <1>2, ScanStarts
<1>6. TextsOK
  BY <1>1, <1>2, <1>3, <1>4, Zenon DEF TextsOK
<1>7. QED
  BY <1>2, <1>5, <1>6, Zenon DEF RedactInv

\* A round of the scanner keeps the invariant if it keeps the texts safe.
LEMMA Round ==
    ASSUME RedactInv, Scanning, UNCHANGED <<viewer, input, shown>>,
           out' \in Seq(Letters), pos' \in 1..(Len(input) + 1), ScanOK(input, out', pos')
    PROVE  RedactInv'
<1>1. viewer' = viewer /\ input' = input /\ shown' = shown
  OBVIOUS
<1>2. TextsOK'
  BY <1>1, Zenon DEF TextsOK, RedactInv
<1>3. ScanOK(input, out, pos)'
  BY <1>1, Zenon
<1>4. ~shown'
  <2>1. ~shown
    BY Zenon DEF RedactInv
  <2>2. QED
    BY <1>1, <2>1
<1>5. QED
  BY <1>2, <1>3, <1>4, Zenon DEF RedactInv

LEMMA ScanningFacts ==
    ASSUME RedactInv, Scanning
    PROVE  /\ TextsOK /\ viewer # "admin" /\ ScanOK(input, out, pos)
           /\ input \in Seq(Chars) /\ out \in Seq(Letters)
           /\ pos \in 1..Len(input) /\ Len(input) \in Nat
<1>1. TextsOK /\ viewer # "admin" /\ ScanOK(input, out, pos)
  BY Zenon DEF RedactInv, Scanning
<1>2. input \in Seq(Chars) /\ out \in Seq(Letters) /\ pos \in 1..(Len(input) + 1)
  BY <1>1, Zenon DEF TextsOK
<1>3. pos \in 1..Len(input) /\ Len(input) \in Nat
  BY <1>2, LenProperties DEF Scanning
<1>4. QED
  BY <1>1, <1>2, <1>3, Zenon

LEMMA RedactSteps == RedactInv /\ [RedactNext]_redactVars => RedactInv'
<1> SUFFICES ASSUME RedactInv, [RedactNext]_redactVars PROVE RedactInv'
  OBVIOUS
<1>1. CASE PassThrough
  <2>1. Scanning /\ ~IsKeyChar(input[pos]) /\ UNCHANGED <<viewer, input, shown>>
    BY <1>1, Zenon DEF PassThrough
  <2>2. input \in Seq(Chars) /\ out \in Seq(Letters) /\ pos \in 1..Len(input) /\ ScanOK(input, out, pos)
    BY <2>1, ScanningFacts
  <2>3. Append(out, input[pos]) \in Seq(Letters) /\ ScanOK(input, Append(out, input[pos]), pos + 1)
    BY <2>1, <2>2, PassStep
  <2>4. pos + 1 \in 1..(Len(input) + 1)
    BY <2>2, LenProperties
  <2>5. out' = Append(out, input[pos]) /\ pos' = pos + 1
    BY <1>1, Zenon DEF PassThrough
  <2>6. QED
    BY <2>1, <2>3, <2>4, <2>5, Round, Zenon
<1>2. ASSUME Scanning, IsKeyChar(input[pos])
      PROVE  /\ KeyEnd(pos) = NameEnd(input, pos) /\ Delimiter = Behind(input, KeyEnd(pos))
             /\ KeyEnd(pos) \in (pos + 1)..(Len(input) + 1) /\ NameAt(input, pos, KeyEnd(pos))
             /\ IsSensitiveKey(Key) <=> Sensitive(input, pos, KeyEnd(pos))
  <2>1. KeyEnd(pos) = NameEnd(input, pos) /\ Delimiter = Behind(input, KeyEnd(pos))
    BY Zenon DEF KeyEnd, NameEnd, Delimiter, LookAhead, Behind, Gap
  <2>2. input \in Seq(Chars) /\ pos \in 1..Len(input) /\ Len(input) \in Nat
    BY <1>2, ScanningFacts
  <2>3. /\ NameEnd(input, pos) \in (pos + 1)..(Len(input) + 1)
        /\ NameAt(input, pos, NameEnd(input, pos))
    BY <1>2, <2>2, NameRead
  <2>4. pos \in 1..(Len(input) + 1) /\ NameEnd(input, pos) \in pos..(Len(input) + 1)
    BY <2>2, <2>3
  <2>5. IsSensitiveKey(SubSeq(input, pos, NameEnd(input, pos) - 1))
          <=> \E q \in pos..(NameEnd(input, pos) - 1) : input[q] = "w"
    BY <2>2, <2>4, KeyIsSensitive
  <2>6. IsSensitiveKey(Key) <=> Sensitive(input, pos, KeyEnd(pos))
    BY <2>1, <2>5, Zenon DEF Key, Sensitive
  <2>7. QED
    BY <2>1, <2>3, <2>6, Zenon
<1>3. CASE OtherName
  <2>1. /\ Scanning /\ IsKeyChar(input[pos]) /\ ~SensitiveParameter
        /\ UNCHANGED <<viewer, input, shown>>
    BY <1>3, Zenon DEF OtherName
  <2>2. input \in Seq(Chars) /\ out \in Seq(Letters) /\ pos \in 1..Len(input) /\ ScanOK(input, out, pos)
    BY <2>1, ScanningFacts
  <2>e. PICK e : e = KeyEnd(pos)
    OBVIOUS
  <2>3. /\ e \in (pos + 1)..(Len(input) + 1) /\ NameAt(input, pos, e) /\ Delimiter = Behind(input, e)
        /\ IsSensitiveKey(Key) <=> Sensitive(input, pos, e)
    BY <1>2, <2>1, <2>e, Zenon
  <2>4. Harmless(input, pos, e)
    BY <2>1, <2>3, Zenon DEF SensitiveParameter, Behind, Sensitive, Harmless
  <2>5. e \in (pos + 1)..(Len(input) + 1)
    BY <2>3, Zenon
  <2>6. /\ out \o SubSeq(input, pos, e - 1) \in Seq(Letters)
        /\ ScanOK(input, out \o SubSeq(input, pos, e - 1), e)
    BY <2>2, <2>3, <2>4, <2>5, WordStep, Zenon
  <2>7. e \in 1..(Len(input) + 1)
    BY <2>2, <2>5, LenProperties
  <2>8. out' = out \o SubSeq(input, pos, e - 1) /\ pos' = e
    BY <1>3, <2>e, Zenon DEF OtherName, Key
  <2>9. QED
    BY <2>1, <2>6, <2>7, <2>8, Round, Zenon
<1>4. CASE MaskParameter
  <2>1. /\ Scanning /\ IsKeyChar(input[pos]) /\ SensitiveParameter
        /\ UNCHANGED <<viewer, input, shown>>
    BY <1>4, Zenon DEF MaskParameter
  <2>2. /\ TextsOK /\ viewer # "admin"
        /\ input \in Seq(Chars) /\ pos \in 1..Len(input) /\ ScanOK(input, out, pos)
    BY <2>1, ScanningFacts
  <2>e. PICK e, d, v : e = KeyEnd(pos) /\ d = Behind(input, e) /\ v = ValueAt(input, d)
    OBVIOUS
  <2>3. /\ e \in (pos + 1)..(Len(input) + 1) /\ NameAt(input, pos, e) /\ Delimiter = d
        /\ IsSensitiveKey(Key) <=> Sensitive(input, pos, e)
    BY <1>2, <2>1, <2>e, Zenon
  <2>4. Sensitive(input, pos, e) /\ Delimited(input, Behind(input, e))
    BY <2>1, <2>3, <2>e, Zenon DEF SensitiveParameter, Delimited
  <2>5. /\ e \in (pos + 1)..Len(input) /\ Behind(input, e) \in e..Len(input)
        /\ ValueAt(input, Behind(input, e)) \in (Behind(input, e) + 1)..(Len(input) + 1)
        /\ Parameter(input, pos, e, Behind(input, e), ValueAt(input, Behind(input, e)))
    BY <2>2, <2>3, <2>4, ParameterRead, Zenon
  <2>6. /\ e \in (pos + 1)..Len(input) /\ d \in e..Len(input) /\ v \in (d + 1)..(Len(input) + 1)
        /\ Parameter(input, pos, e, d, v)
    BY <2>5, <2>e, Zenon
  <2>7. /\ out \o SubSeq(input, pos, v - 1) \o RedactValue(v).text \in Seq(Letters)
        /\ RedactValue(v).next \in 1..(Len(input) + 1)
        /\ ScanOK(input, out \o SubSeq(input, pos, v - 1) \o RedactValue(v).text, RedactValue(v).next)
    BY <2>2, <2>6, ValueMasked, Zenon
  <2>8. /\ out' = out \o SubSeq(input, pos, v - 1) \o RedactValue(v).text
        /\ pos' = RedactValue(v).next
    BY <1>4, <2>3, <2>e, Zenon DEF MaskParameter, ValueAt
  <2>9. QED
    BY <2>1, <2>7, <2>8, Round, Zenon
<1>5. CASE ViewWafRequest
  <2>1. /\ ~Scanning /\ viewer' = viewer /\ input' = input /\ pos' = pos
        /\ out' = IF viewer = "admin" THEN input ELSE out
    BY <1>5, Zenon DEF ViewWafRequest
  <2>2. TextsOK
    BY Zenon DEF RedactInv
  <2>3. out' \in Seq(Letters)
    <3>1. input \in Seq(Chars) /\ out \in Seq(Letters)
      BY <2>2, Zenon DEF TextsOK
    <3>2. input \in Seq(Letters)
      BY <3>1, InputType
    <3>3. QED
      BY <2>1, <3>1, <3>2, Zenon
  <2>4. TextsOK'
    BY <2>1, <2>2, <2>3, Zenon DEF TextsOK
  <2>5. ~Scanning'
    BY <2>1, Zenon DEF Scanning
  <2>6. viewer = "admin" => out' = input'
    BY <2>1, Zenon
  <2>7. viewer # "admin" => ScanOK(input, out, pos)'
    BY <2>1, Zenon DEF RedactInv
  <2>8. QED
    BY <2>1, <2>4, <2>5, <2>6, <2>7, Zenon DEF RedactInv
<1>6. CASE UNCHANGED redactVars
  <2>1. viewer' = viewer /\ input' = input /\ pos' = pos /\ out' = out /\ shown' = shown
    BY <1>6 DEF redactVars
  <2>2. QED
    BY <2>1, Zenon DEF RedactInv, TextsOK, Scanning
<1>7. QED
  BY <1>1, <1>3, <1>4, <1>5, <1>6, Zenon DEF RedactNext

\* Whatever the scanner has written so far is safe however the captured text goes
\* on, and shows what it has read but for values (redact_sensitive_values).
THEOREM ScannerInvariant == RedactSpec => []RedactInv
  BY RedactStarts, RedactSteps, PTL DEF RedactSpec

\* In a text of any length as it is shown to whoever is no administrator, a quoted
\* value of a sensitive parameter is masked to its closing quote and a bare one to
\* its terminator or the first quote in it, whichever is first (redact_value).  It
\* is less than the document promises, and no more than the code does: what stands
\* behind that quote may be read.
THEOREM MaskedToFirstQuote == RedactSpec => []MaskedToQuote
<1>1. RedactInv => MaskedToQuote
  <2> SUFFICES ASSUME RedactInv, shown, viewer # "admin",
                      NEW d \in Secrets(out), NEW p \in Value(out, d), ~BehindQuote(out, d, p)
               PROVE  out[p] = REDACTED
    BY Zenon DEF MaskedToQuote
  <2>1. p \in ToQuote(out, d)
    BY Zenon DEF ToQuote
  <2>2. QED
    BY <2>1, Zenon DEF RedactInv, ScanOK, Settled
<1>2. QED
  BY <1>1, ScannerInvariant, PTL

\* And in a text of any length nothing but the values of sensitive parameters is
\* lost, whatever they are nested in (redact_sensitive_values); an administrator
\* is shown the text itself (view_waf_request).
THEOREM OnlySecretsAreHidden == RedactSpec => []OnlySecretsHidden
<1>1. RedactInv => OnlySecretsHidden
  <2> SUFFICES ASSUME RedactInv, shown PROVE OnlySecretsHidden
    BY Zenon DEF OnlySecretsHidden
  <2>1. CASE viewer = "admin"
    BY <2>1, Zenon DEF RedactInv, OnlySecretsHidden
  <2>2. CASE viewer # "admin"
    <3>1. input \in Seq(Chars) /\ pos \in 1..(Len(input) + 1) /\ ~Scanning
      BY Zenon DEF RedactInv, TextsOK
    <3>2. pos - 1 = Len(input)
      BY <2>2, <3>1, LenProperties DEF Scanning
    <3>3. Faithful(input, out, pos)
      BY <2>2, Zenon DEF RedactInv, ScanOK
    <3>4. PICK D \in SUBSET Secrets(input) : Shows(input, pos - 1, Hidden(input, D), out)
      BY <3>3, Zenon DEF Faithful
    <3>5. Shows(input, Len(input), UNION {ToQuote(input, d) : d \in D}, out)
      BY <3>2, <3>4, Zenon DEF Hidden
    <3>6. QED
      BY <2>2, <3>5, Zenon DEF OnlySecretsHidden
  <2>3. QED
    BY <2>1, <2>2, Zenon
<1>2. QED
  BY <1>1, ScannerInvariant, PTL

=============================================================================
