-------------------------- MODULE HashSlots_proofs --------------------------
(***************************************************************************)
(* HASH_SLOTS neither loses nor doubles a permit, for any number of        *)
(* permits, connections and requests, whatever handlers they run and       *)
(* wherever they are dropped.                                              *)
(*                                                                         *)
(* The properties are inductive together: that a permit is passed on to    *)
(* somebody who is at a hash and has none rests on what the queue is, and  *)
(* that nobody waits beside a free one on who is in it.                    *)
(*                                                                         *)
(* And nobody waits in a circle: whoever holds something waits only for    *)
(* what is taken after it, in the order of mutex, connection, writer and   *)
(* slot, and who has a slot waits for nobody.                              *)
(***************************************************************************)
EXTENDS HashSlots, FiniteSetTheorems, SequenceTheorems, TLAPS

IInv == TypeOK /\ at \in [Requests -> Nat] /\ SlotsConserved

-----------------------------------------------------------------------------
(***************************************************************************)
(* The queue of the semaphore.                                             *)
(***************************************************************************)

LEMMA QueueFacts ==
    ASSUME NEW S, NEW s \in Seq(S)
    PROVE  /\ Len(s) \in Nat /\ DOMAIN s = 1..Len(s) /\ ToSet(s) \subseteq S
           /\ \A x : x \in ToSet(s) <=> \E i \in 1..Len(s) : s[i] = x
           /\ \A x : x \in ToSet(s) <=> Contains(s, x)
           /\ s = <<>> <=> Len(s) = 0
           /\ s # <<>> => ToSet(s) # {}
           /\ ToSet(<<>>) = {} /\ IsInjective(<<>>)
<1>1. Len(s) \in Nat /\ DOMAIN s = 1..Len(s) /\ \A i \in 1..Len(s) : s[i] \in S
  BY LenProperties, ElementOfSeq
<1>2. \A x : x \in ToSet(s) <=> \E i \in 1..Len(s) : s[i] = x
  BY <1>1 DEF ToSet
<1>3. ToSet(s) \subseteq S
  BY <1>1, <1>2
<1>4. s = <<>> <=> Len(s) = 0
  BY <1>1, EmptySeq
<1>5. s # <<>> => ToSet(s) # {}
  <2> HAVE s # <<>>
  <2>1. 1 \in 1..Len(s)
    BY <1>1, <1>4
  <2>2. QED
    BY <1>2, <2>1
<1>6. ToSet(<<>>) = {} /\ IsInjective(<<>>)
  BY DEF ToSet, IsInjective
<1>7. QED
  BY <1>1, <1>2, <1>3, <1>4, <1>5, <1>6 DEF Contains

\* A request joins at the end.
LEMMA AppendOK ==
    ASSUME NEW S, NEW s \in Seq(S), NEW e \in S, IsInjective(s), e \notin ToSet(s)
    PROVE  /\ Append(s, e) \in Seq(S) /\ IsInjective(Append(s, e))
           /\ ToSet(Append(s, e)) = ToSet(s) \cup {e}
<1>1. PICK q : q = Append(s, e)
  OBVIOUS
<1>2. /\ q \in Seq(S) /\ Len(q) = Len(s) + 1 /\ q[Len(s) + 1] = e
      /\ \A i \in 1..Len(s) : q[i] = s[i]
  BY <1>1, AppendProperties
<1>3. /\ Len(s) \in Nat /\ DOMAIN s = 1..Len(s) /\ DOMAIN q = 1..(Len(s) + 1)
      /\ \A x : x \in ToSet(s) <=> \E i \in 1..Len(s) : s[i] = x
      /\ \A x : x \in ToSet(q) <=> \E i \in 1..(Len(s) + 1) : q[i] = x
  BY <1>2, QueueFacts
<1>4. \A i \in 1..(Len(s) + 1) : i \in 1..Len(s) \/ i = Len(s) + 1
  BY <1>3
<1>5. \A i \in 1..Len(s) : i \in 1..(Len(s) + 1)
  BY <1>3
<1>6. Len(s) + 1 \in 1..(Len(s) + 1)
  BY <1>3
<1>7. ToSet(q) = ToSet(s) \cup {e}
  <2>1. \A x \in ToSet(q) : x \in ToSet(s) \/ x = e
    BY <1>2, <1>3, <1>4
  <2>2. \A x \in ToSet(s) : x \in ToSet(q)
    BY <1>2, <1>3, <1>5
  <2>3. e \in ToSet(q)
    BY <1>2, <1>3, <1>6
  <2>4. QED
    BY <2>1, <2>2, <2>3
<1>8. IsInjective(q)
  <2> SUFFICES ASSUME NEW a \in 1..(Len(s) + 1), NEW b \in 1..(Len(s) + 1), q[a] = q[b]
               PROVE  a = b
    BY <1>3 DEF IsInjective
  <2>1. CASE a \in 1..Len(s) /\ b \in 1..Len(s)
    BY <2>1, <1>2, <1>3 DEF IsInjective
  <2>2. CASE a = Len(s) + 1 /\ b \in 1..Len(s)
    BY <2>2, <1>2, <1>3
  <2>3. CASE b = Len(s) + 1 /\ a \in 1..Len(s)
    BY <2>3, <1>2, <1>3
  <2>4. QED
    BY <2>1, <2>2, <2>3, <1>4
<1>9. QED
  BY <1>1, <1>2, <1>7, <1>8

\* q is the queue s without its place i.
Skips(q, s, i) ==
    /\ Len(q) = Len(s) - 1
    /\ \A j \in 1..(Len(s) - 1) : j < i => q[j] = s[j]
    /\ \A j \in 1..(Len(s) - 1) : ~(j < i) => q[j] = s[j + 1]

\* A queue whose place i is gone: what is in it, and that nobody is in it twice.
LEMMA PlaceGone ==
    ASSUME NEW S, NEW s \in Seq(S), IsInjective(s), NEW i \in 1..Len(s), NEW q \in Seq(S),
           Skips(q, s, i)
    PROVE  IsInjective(q) /\ ToSet(q) = ToSet(s) \ {s[i]}
<1>1. /\ Len(s) \in Nat /\ DOMAIN s = 1..Len(s) /\ DOMAIN q = 1..(Len(s) - 1)
      /\ \A x : x \in ToSet(s) <=> \E j \in 1..Len(s) : s[j] = x
      /\ \A x : x \in ToSet(q) <=> \E j \in 1..(Len(s) - 1) : q[j] = x
  BY QueueFacts DEF Skips
<1>2. \A a, b \in 1..Len(s) : s[a] = s[b] => a = b
  BY <1>1 DEF IsInjective
<1>3. PICK from \in [1..(Len(s) - 1) -> 1..Len(s)] :
        \A j \in 1..(Len(s) - 1) : from[j] = IF j < i THEN j ELSE j + 1
  <2> DEFINE f == [j \in 1..(Len(s) - 1) |-> IF j < i THEN j ELSE j + 1]
  <2>1. f \in [1..(Len(s) - 1) -> 1..Len(s)]
    BY <1>1
  <2>2. QED
    BY <2>1
<1>4. \A j \in 1..(Len(s) - 1) : q[j] = s[from[j]] /\ from[j] # i
  BY <1>1, <1>3 DEF Skips
<1>5. \A a, b \in 1..(Len(s) - 1) : from[a] = from[b] => a = b
  BY <1>1, <1>3
<1>6. \A c \in 1..Len(s) : c # i => \E j \in 1..(Len(s) - 1) : from[j] = c
  <2> SUFFICES ASSUME NEW c \in 1..Len(s), c # i
               PROVE  \E j \in 1..(Len(s) - 1) : from[j] = c
    OBVIOUS
  <2>1. CASE c < i
    <3>1. c \in 1..(Len(s) - 1)
      BY <1>1, <2>1
    <3>2. QED
      BY <3>1, <2>1, <1>3
  <2>2. CASE c > i
    <3>1. c - 1 \in 1..(Len(s) - 1) /\ ~(c - 1 < i) /\ (c - 1) + 1 = c
      BY <1>1, <2>2
    <3>2. QED
      BY <3>1, <1>3
  <2>3. QED
    BY <1>1, <2>1, <2>2
<1>7. IsInjective(q)
  BY <1>1, <1>2, <1>3, <1>4, <1>5 DEF IsInjective
<1>8. \A x \in ToSet(q) : x \in ToSet(s) /\ x # s[i]
  <2> TAKE x \in ToSet(q)
  <2>1. PICK j \in 1..(Len(s) - 1) : q[j] = x
    BY <1>1
  <2>2. PICK c \in 1..Len(s) : c = from[j]
    BY <1>3
  <2>3. x = s[c] /\ c # i
    BY <2>1, <2>2, <1>4
  <2>4. x \in ToSet(s)
    BY <2>3, <1>1
  <2>5. QED
    BY <2>3, <2>4, <1>2
<1>9. \A x \in ToSet(s) : x # s[i] => x \in ToSet(q)
  <2> SUFFICES ASSUME NEW x \in ToSet(s), x # s[i]
               PROVE  x \in ToSet(q)
    OBVIOUS
  <2>1. PICK c \in 1..Len(s) : s[c] = x
    BY <1>1
  <2>2. PICK j \in 1..(Len(s) - 1) : from[j] = c
    BY <2>1, <1>6
  <2>3. q[j] = x
    BY <2>1, <2>2, <1>4
  <2>4. QED
    BY <2>3, <1>1
<1>10. QED
  BY <1>7, <1>8, <1>9

\* The request that has waited longest is served.
LEMMA TailOK ==
    ASSUME NEW S, NEW s \in Seq(S), IsInjective(s), s # <<>>
    PROVE  /\ Head(s) \in ToSet(s) /\ Tail(s) \in Seq(S) /\ IsInjective(Tail(s))
           /\ ToSet(Tail(s)) = ToSet(s) \ {Head(s)}
<1>1. Len(s) \in Nat /\ 1 \in 1..Len(s)
  BY QueueFacts
<1>2. Head(s) = s[1]
  BY <1>1
<1>3. PICK q : q = Tail(s)
  OBVIOUS
<1>4. q \in Seq(S) /\ Len(q) = Len(s) - 1 /\ \A j \in 1..Len(q) : q[j] = s[j + 1]
  BY <1>3, HeadTailProperties
<1>5. \A j \in 1..(Len(s) - 1) : q[j] = s[j + 1]
  BY <1>1, <1>4
<1>6. IsInjective(q) /\ ToSet(q) = ToSet(s) \ {s[1]}
  <2>1. PICK i \in 1..Len(s) : i = 1
    BY <1>1
  <2>2. \A j \in 1..(Len(s) - 1) : ~(j < i)
    BY <1>1, <2>1
  <2>3. Skips(q, s, i)
    BY <1>4, <1>5, <2>2 DEF Skips
  <2>4. IsInjective(q) /\ ToSet(q) = ToSet(s) \ {s[i]}
    BY <1>4, <2>3, PlaceGone
  <2>5. QED
    BY <2>1, <2>4
<1>7. s[1] \in ToSet(s)
  BY <1>1, QueueFacts
<1>8. QED
  BY <1>2, <1>3, <1>4, <1>6, <1>7

\* A request leaves from where it is.
LEMMA RemoveAtOK ==
    ASSUME NEW S, NEW s \in Seq(S), NEW i \in 1..Len(s)
    PROVE  RemoveAt(s, i) \in Seq(S) /\ Skips(RemoveAt(s, i), s, i)
<1>1. Len(s) \in Nat /\ \A j \in 1..Len(s) : s[j] \in S
  BY LenProperties, ElementOfSeq
<1>2. PICK a : a = SubSeq(s, 1, i - 1)
  OBVIOUS
<1>3. PICK b : b = SubSeq(s, i + 1, Len(s))
  OBVIOUS
<1>4. a \in Seq(S) /\ Len(a) = i - 1 /\ \A j \in 1..(i - 1) : a[j] = s[j]
  <2>1. 1 \in Int /\ i - 1 \in Int /\ \A j \in 1..(i - 1) : s[j] \in S
    BY <1>1
  <2>2. SubSeq(s, 1, i - 1) \in Seq(S)
    BY <2>1, SubSeqProperties
  <2>3. Len(SubSeq(s, 1, i - 1)) = IF 1 <= i - 1 THEN (i - 1) - 1 + 1 ELSE 0
    BY <2>1, SubSeqProperties
  <2>4. \A j \in 1..((i - 1) - 1 + 1) : SubSeq(s, 1, i - 1)[j] = s[1 + j - 1]
    BY <2>1, SubSeqProperties
  <2>5. \A j \in 1..(i - 1) : j \in 1..((i - 1) - 1 + 1) /\ 1 + j - 1 = j
    BY <1>1
  <2>6. QED
    BY <1>1, <1>2, <2>2, <2>3, <2>4, <2>5
<1>5. b \in Seq(S) /\ Len(b) = Len(s) - i /\ \A j \in 1..(Len(s) - i) : b[j] = s[i + j]
  <2>1. i + 1 \in Int /\ Len(s) \in Int /\ \A j \in (i + 1)..Len(s) : s[j] \in S
    BY <1>1
  <2>2. SubSeq(s, i + 1, Len(s)) \in Seq(S)
    BY <2>1, SubSeqProperties
  <2>3. Len(SubSeq(s, i + 1, Len(s))) = IF i + 1 <= Len(s) THEN Len(s) - (i + 1) + 1 ELSE 0
    BY <2>1, SubSeqProperties
  <2>4. \A j \in 1..(Len(s) - (i + 1) + 1) : SubSeq(s, i + 1, Len(s))[j] = s[(i + 1) + j - 1]
    BY <2>1, SubSeqProperties
  <2>5. \A j \in 1..(Len(s) - i) : j \in 1..(Len(s) - (i + 1) + 1) /\ (i + 1) + j - 1 = i + j
    BY <1>1
  <2>6. QED
    BY <1>1, <1>3, <2>2, <2>3, <2>4, <2>5
<1>6. RemoveAt(s, i) = a \o b
  BY <1>2, <1>3 DEF RemoveAt
<1>7. /\ a \o b \in Seq(S) /\ Len(a \o b) = Len(a) + Len(b)
      /\ \A j \in 1..(Len(a) + Len(b)) : (a \o b)[j] = IF j <= Len(a) THEN a[j] ELSE b[j - Len(a)]
  BY <1>4, <1>5, ConcatProperties
<1>8. Len(a) + Len(b) = Len(s) - 1
  BY <1>1, <1>4, <1>5
<1>9. ASSUME NEW j \in 1..(Len(s) - 1)
      PROVE  /\ j < i => (a \o b)[j] = s[j]
             /\ ~(j < i) => (a \o b)[j] = s[j + 1]
  <2>1. (a \o b)[j] = IF j <= Len(a) THEN a[j] ELSE b[j - Len(a)]
    BY <1>7, <1>8
  <2>2. CASE j < i
    BY <2>1, <2>2, <1>1, <1>4
  <2>3. CASE ~(j < i)
    <3>1. ~(j <= Len(a)) /\ j - Len(a) \in 1..(Len(s) - i) /\ i + (j - Len(a)) = j + 1
      BY <2>3, <1>1, <1>4
    <3>2. QED
      BY <2>1, <2>3, <3>1, <1>5
  <2>4. QED
    BY <2>2, <2>3
<1>10. Skips(a \o b, s, i)
  BY <1>7, <1>8, <1>9 DEF Skips
<1>11. QED
  BY <1>6, <1>7, <1>10

\* A request leaves the queue, if it is in it.
LEMMA RemoveFirstOK ==
    ASSUME NEW S, NEW s \in Seq(S), IsInjective(s), NEW e
    PROVE  /\ RemoveFirst(s, e) \in Seq(S) /\ IsInjective(RemoveFirst(s, e))
           /\ ToSet(RemoveFirst(s, e)) = ToSet(s) \ {e}
           /\ RemoveFirst(s, e) # <<>> => s # <<>>
<1>1. /\ Len(s) \in Nat /\ DOMAIN s = 1..Len(s)
      /\ \A x : x \in ToSet(s) <=> \E i \in 1..Len(s) : s[i] = x
  BY QueueFacts
<1>2. CASE e \notin ToSet(s)
  <2>1. RemoveFirst(s, e) = s
    BY <1>1, <1>2 DEF RemoveFirst
  <2>2. QED
    BY <1>2, <2>1
<1>3. CASE e \in ToSet(s)
  <2>1. PICK i \in 1..Len(s) : s[i] = e
    BY <1>1, <1>3
  <2>2. PICK I : I = {j \in 1..Len(s) : s[j] = e}
    OBVIOUS
  <2>3. I = {i}
    BY <1>1, <2>1, <2>2 DEF IsInjective
  <2>4. Min(I) = i
    BY <1>1, <2>3 DEF Min
  <2>5. SelectInSeq(s, LAMBDA v : v = e) = i
    BY <2>2, <2>3, <2>4 DEF SelectInSeq
  <2>6. RemoveFirst(s, e) = RemoveAt(s, i)
    BY <2>1, <2>5 DEF RemoveFirst
  <2>7. IsInjective(RemoveAt(s, i)) /\ ToSet(RemoveAt(s, i)) = ToSet(s) \ {s[i]}
    BY RemoveAtOK, PlaceGone
  <2>8. RemoveAt(s, i) \in Seq(S)
    BY RemoveAtOK
  <2>9. s # <<>>
    BY <1>3, QueueFacts
  <2>10. QED
    BY <2>1, <2>6, <2>7, <2>8, <2>9
<1>4. QED
  BY <1>2, <1>3

-----------------------------------------------------------------------------
(***************************************************************************)
(* The semaphore.                                                          *)
(***************************************************************************)

\* What a handler's program is.
LEMMA ProgramLength == \A k \in Kinds : Len(Program[k]) \in Nat
BY DEF Kinds, Program

\* What is true of the semaphore, by itself.
SlotsOK ==
    /\ free \in Nat /\ waiting \in Seq(Requests) /\ held \subseteq Requests
    /\ free + Cardinality(held) = Permits
    /\ waiting # <<>> => free = 0
    /\ IsInjective(waiting) /\ ToSet(waiting) \cap held = {}

\* The requests that have a permit or wait for one.
Users == ToSet(waiting) \cup held

LEMMA Constants == Permits \in Nat /\ Permits >= 1 /\ Nobody \notin Requests /\ IsFiniteSet(Requests)
BY SlotConstants

LEMMA Counted ==
    ASSUME NEW H \in SUBSET Requests
    PROVE  /\ IsFiniteSet(H) /\ Cardinality(H) \in Nat
           /\ \A r \in Requests : Cardinality(H \cup {r}) = IF r \in H THEN Cardinality(H) ELSE Cardinality(H) + 1
           /\ \A r \in Requests : Cardinality(H \ {r}) = IF r \in H THEN Cardinality(H) - 1 ELSE Cardinality(H)
<1>1. IsFiniteSet(H)
  BY Constants, FS_Subset, Zenon
<1>2. QED
  BY <1>1, FS_CardinalityType, FS_AddElement, FS_RemoveElement

LEMMA SlotsOfIInv == IInv => SlotsOK
BY Constants DEF IInv, TypeOK, SlotsConserved, SlotsOK

\* A permit that is free is taken.
LEMMA TakenOK ==
    ASSUME SlotsOK, NEW r \in Requests, r \notin Users, free > 0,
           free' = free - 1, held' = held \cup {r}, waiting' = waiting
    PROVE  SlotsOK' /\ Users' = Users \cup {r}
<1>1. Cardinality(held \cup {r}) = Cardinality(held) + 1 /\ Cardinality(held) \in Nat
  BY Counted DEF SlotsOK, Users
<1>2. waiting = <<>> /\ ToSet(waiting) = {}
  BY QueueFacts DEF SlotsOK
<1>3. SlotsOK'
  BY <1>1, <1>2, Constants DEF SlotsOK
<1>4. QED
  BY <1>3 DEF Users

\* A request waits.
LEMMA QueuedOK ==
    ASSUME SlotsOK, NEW r \in Requests, r \notin Users, ~(free > 0),
           free' = free, held' = held, waiting' = Append(waiting, r)
    PROVE  SlotsOK' /\ Users' = Users \cup {r}
<1>1. free = 0
  BY DEF SlotsOK
<1>2. /\ Append(waiting, r) \in Seq(Requests) /\ IsInjective(Append(waiting, r))
      /\ ToSet(Append(waiting, r)) = ToSet(waiting) \cup {r}
  BY AppendOK DEF SlotsOK, Users
<1>3. SlotsOK'
  BY <1>1, <1>2 DEF SlotsOK, Users
<1>4. QED
  BY <1>2, <1>3 DEF Users

\* SemaphorePermit::drop: whoever leaves, leaves neither a permit nor a place behind.
LEMMA DroppedOK ==
    ASSUME SlotsOK, NEW r \in Requests, DropPermit(r)
    PROVE  SlotsOK' /\ Users' = Users \ {r}
<1>0. /\ free \in Nat /\ waiting \in Seq(Requests) /\ held \in SUBSET Requests
      /\ free + Cardinality(held) = Permits /\ Cardinality(held) \in Nat
      /\ waiting # <<>> => free = 0
      /\ IsInjective(waiting) /\ ToSet(waiting) \cap held = {}
  BY Counted DEF SlotsOK
<1>1. CASE r \notin held
  <2>1. waiting' = RemoveFirst(waiting, r) /\ free' = free /\ held' = held
    BY <1>1 DEF DropPermit
  <2>2. /\ waiting' \in Seq(Requests) /\ IsInjective(waiting')
        /\ ToSet(waiting') = ToSet(waiting) \ {r}
        /\ waiting' # <<>> => waiting # <<>>
    BY <1>0, <2>1, RemoveFirstOK
  <2>3. SlotsOK'
    BY <1>0, <2>1, <2>2 DEF SlotsOK
  <2>4. QED
    BY <1>1, <2>1, <2>2, <2>3 DEF Users
<1>2. CASE r \in held /\ waiting # <<>>
  <2>1. PICK h : h = Head(waiting)
    OBVIOUS
  <2>2. held' = (held \ {r}) \cup {h} /\ waiting' = Tail(waiting) /\ free' = free
    BY <1>2, <2>1 DEF DropPermit
  <2>3. /\ h \in ToSet(waiting) /\ waiting' \in Seq(Requests) /\ IsInjective(waiting')
        /\ ToSet(waiting') = ToSet(waiting) \ {h}
    BY <1>0, <1>2, <2>1, <2>2, TailOK
  <2>4. h \in Requests /\ h \notin held /\ r \notin ToSet(waiting)
    BY <1>0, <1>2, <2>3, QueueFacts
  <2>5. held \ {r} \in SUBSET Requests /\ h \notin held \ {r}
    BY <1>0, <2>4
  <2>6. Cardinality(held \ {r}) = Cardinality(held) - 1
    BY <1>0, <1>2, Counted
  <2>7. Cardinality((held \ {r}) \cup {h}) = Cardinality(held \ {r}) + 1
    BY <2>4, <2>5, Counted
  <2>8. free' + Cardinality(held') = Permits
    BY <1>0, <2>2, <2>6, <2>7
  <2>9. held' \subseteq Requests /\ ToSet(waiting') \cap held' = {} /\ free' = 0
    BY <1>0, <1>2, <2>2, <2>3, <2>4
  <2>10. SlotsOK'
    BY <2>3, <2>8, <2>9 DEF SlotsOK
  <2>11. Users' = Users \ {r}
    BY <1>2, <2>2, <2>3, <2>4 DEF Users
  <2>12. QED
    BY <2>10, <2>11
<1>3. CASE r \in held /\ waiting = <<>>
  <2>1. held' = held \ {r} /\ free' = free + 1 /\ waiting' = waiting
    BY <1>3 DEF DropPermit
  <2>2. Cardinality(held \ {r}) = Cardinality(held) - 1
    BY <1>0, <1>3, Counted
  <2>3. free' + Cardinality(held') = Permits
    BY <1>0, <2>1, <2>2
  <2>4. ToSet(waiting) = {}
    BY <1>3, QueueFacts, <1>0
  <2>5. SlotsOK'
    BY <1>0, <1>3, <2>1, <2>3, <2>4 DEF SlotsOK
  <2>6. QED
    BY <2>1, <2>4, <2>5 DEF Users
<1>4. QED
  BY <1>1, <1>2, <1>3

-----------------------------------------------------------------------------
(***************************************************************************)
(* The steps.                                                              *)
(***************************************************************************)

\* What a step owes: the semaphore in order, whoever uses it at a hash.
LEMMA StepIInv ==
    ASSUME IInv, SlotsOK', NEW r \in Requests, kind' = kind,
           NEW n \in Nat, n \in 1..(Len(Program[kind[r]]) + 1), at' = [at EXCEPT ![r] = n],
           r \notin Users' \/ (n = at[r] /\ Op(r) = "hash"),
           Users' \subseteq Users \cup {r},
           open' \subseteq Requests, writer' \in Requests \cup {Nobody},
           guard' \in Requests \cup {Nobody}, detached' \in Nat
    PROVE  IInv'
<1>1. at' \in [Requests -> Nat]
  BY DEF IInv
<1>2. Cardinality(held') \in Nat
  BY Counted DEF SlotsOK
<1>3. free' \in 0..Permits
  BY <1>2, Constants DEF SlotsOK
<1>4. \A x \in Requests : at'[x] = IF x = r THEN n ELSE at[x]
  BY DEF IInv
<1>5. \A x \in Requests : at'[x] \in 1..(Len(Program[kind'[x]]) + 1)
  BY <1>4 DEF IInv, TypeOK
<1>6. TypeOK'
  BY <1>3, <1>5 DEF IInv, TypeOK, SlotsOK
<1>7. ASSUME NEW x \in Users'
      PROVE  Op(x)' = "hash"
  <2>1. x \in Requests
    BY QueueFacts DEF Users, SlotsOK
  <2>2. x \in Users \/ x = r
    OBVIOUS
  <2>3. at'[x] = at[x] /\ Op(x) = "hash"
    BY <2>1, <2>2, <1>4 DEF IInv, SlotsConserved, Users
  <2>4. QED
    BY <2>3 DEF Op, Finished
<1>8. SlotsConserved'
  BY <1>7 DEF SlotsConserved, SlotsOK, Users
<1>9. QED
  BY <1>1, <1>6, <1>8 DEF IInv

\* An operation that is not a hash: nothing of the semaphore changes.
LEMMA OtherOp ==
    ASSUME IInv, NEW r \in Requests, Op(r) \in {"guard", "open", "write", "commit"},
           UNCHANGED <<kind, free, waiting, held, detached>>, Advance(r),
           open' \subseteq Requests, writer' \in Requests \cup {Nobody},
           guard' \in Requests \cup {Nobody}
    PROVE  IInv'
<1>1. SlotsOK' /\ Users' = Users
  BY SlotsOfIInv DEF SlotsOK, Users
<1>2. r \notin Users
  BY DEF IInv, SlotsConserved, Users
<1>3. at[r] + 1 \in Nat /\ at[r] + 1 \in 1..(Len(Program[kind[r]]) + 1)
  BY ProgramLength DEF IInv, TypeOK, Op, Finished
<1>4. at' = [at EXCEPT ![r] = at[r] + 1]
  BY DEF Advance
<1>5. detached' \in Nat
  BY DEF IInv, TypeOK
<1>6. QED
  BY <1>1, <1>2, <1>3, <1>4, <1>5, StepIInv

LEMMA HashSlotIInv ==
    ASSUME IInv, NEW r \in Requests, HashSlot(r)
    PROVE  IInv'
<1>1. SlotsOK /\ Op(r) = "hash" /\ UNCHANGED <<kind, at, open, writer, guard, detached>>
  BY SlotsOfIInv DEF HashSlot
<1>2. r \notin Users
  BY <1>1, QueueFacts DEF SlotsOK, Users, HashSlot
<1>3. SlotsOK' /\ Users' = Users \cup {r}
  <2>1. CASE free > 0
    BY <2>1, <1>1, <1>2, TakenOK DEF HashSlot
  <2>2. CASE ~(free > 0)
    BY <2>2, <1>1, <1>2, QueuedOK DEF HashSlot
  <2>3. QED
    BY <2>1, <2>2
<1>4. at[r] \in Nat /\ at[r] \in 1..(Len(Program[kind[r]]) + 1) /\ at' = [at EXCEPT ![r] = at[r]]
  BY <1>1 DEF IInv, TypeOK
<1>5. /\ open' \subseteq Requests /\ writer' \in Requests \cup {Nobody}
      /\ guard' \in Requests \cup {Nobody} /\ detached' \in Nat
  BY <1>1 DEF IInv, TypeOK
<1>6. QED
  BY <1>1, <1>3, <1>4, <1>5, StepIInv

LEMMA HashedIInv ==
    ASSUME IInv, NEW r \in Requests, Hashed(r)
    PROVE  IInv'
<1>1. Op(r) = "hash" /\ DropPermit(r) /\ UNCHANGED <<kind, open, writer, guard, detached>>
  BY DEF Hashed
<1>2. SlotsOK' /\ Users' = Users \ {r}
  BY <1>1, SlotsOfIInv, DroppedOK
<1>3. at[r] + 1 \in Nat /\ at[r] + 1 \in 1..(Len(Program[kind[r]]) + 1)
  BY <1>1, ProgramLength DEF IInv, TypeOK, Op, Finished
<1>4. at' = [at EXCEPT ![r] = at[r] + 1]
  BY DEF Hashed, Advance
<1>5. /\ open' \subseteq Requests /\ writer' \in Requests \cup {Nobody}
      /\ guard' \in Requests \cup {Nobody} /\ detached' \in Nat
  BY <1>1 DEF IInv, TypeOK
<1>6. QED
  BY <1>1, <1>2, <1>3, <1>4, <1>5, StepIInv

LEMMA CancelIInv ==
    ASSUME IInv, NEW r \in Requests, Cancel(r)
    PROVE  IInv'
<1>1. /\ DropPermit(r) /\ kind' = kind
      /\ at' = [at EXCEPT ![r] = Len(Program[kind[r]]) + 1]
      /\ open' = open \ {r} /\ writer' = Without(writer, r) /\ guard' = Without(guard, r)
      /\ detached' \in {detached, detached + 1}
  BY DEF Cancel, IInv, TypeOK
<1>2. SlotsOK' /\ Users' = Users \ {r}
  BY <1>1, SlotsOfIInv, DroppedOK
<1>3. PICK n : n = Len(Program[kind[r]]) + 1
  OBVIOUS
<1>4. n \in Nat /\ n \in 1..(Len(Program[kind[r]]) + 1)
  BY <1>3, ProgramLength DEF IInv, TypeOK
<1>5. /\ open' \subseteq Requests /\ writer' \in Requests \cup {Nobody}
      /\ guard' \in Requests \cup {Nobody} /\ detached' \in Nat
  BY <1>1 DEF IInv, TypeOK, Without
<1>6. QED
  BY <1>1, <1>2, <1>3, <1>4, <1>5, StepIInv

LEMMA InitIInv == Init => IInv
<1> SUFFICES ASSUME Init PROVE IInv
  OBVIOUS
<1>1. kind \in [Requests -> Kinds]
  BY SlotConstants DEF Init
<1>2. \A r \in Requests : at[r] = 1 /\ Len(Program[kind[r]]) \in Nat
  BY <1>1, ProgramLength DEF Init
<1>3. Cardinality({}) = 0
  BY FS_EmptySet
<1>4. <<>> \in Seq(Requests) /\ ToSet(<<>>) = {} /\ IsInjective(<<>>)
  BY EmptySeq, QueueFacts
<1>5. TypeOK
  BY <1>1, <1>2, <1>4, Constants DEF Init, TypeOK
<1>6. SlotsConserved
  BY <1>3, <1>4, Constants DEF Init, SlotsConserved
<1>7. at \in [Requests -> Nat]
  BY DEF Init
<1>8. QED
  BY <1>5, <1>6, <1>7 DEF IInv

LEMMA NextIInv == IInv /\ [Next]_vars => IInv'
<1> SUFFICES ASSUME IInv, [Next]_vars PROVE IInv'
  OBVIOUS
<1>0. /\ open \subseteq Requests /\ writer \in Requests \cup {Nobody}
      /\ guard \in Requests \cup {Nobody}
  BY DEF IInv, TypeOK
<1>1. ASSUME NEW r \in Requests, HashSlot(r) \/ Hashed(r)
      PROVE  IInv'
  BY <1>1, HashSlotIInv, HashedIInv
<1>2. ASSUME NEW r \in Requests, Guard(r)
      PROVE  IInv'
  <2>1. /\ Op(r) \in {"guard", "open", "write", "commit"} /\ Advance(r)
        /\ UNCHANGED <<kind, free, waiting, held, detached>>
        /\ guard' = r /\ open' = open /\ writer' = writer
    BY <1>2 DEF Guard
  <2>2. QED
    BY <1>0, <2>1, OtherOp
<1>3. ASSUME NEW r \in Requests, Open(r)
      PROVE  IInv'
  <2>1. /\ Op(r) \in {"guard", "open", "write", "commit"} /\ Advance(r)
        /\ UNCHANGED <<kind, free, waiting, held, detached>>
        /\ guard' = guard /\ open' = open \cup {r} /\ writer' = writer
    BY <1>3 DEF Open
  <2>2. QED
    BY <1>0, <2>1, OtherOp
<1>4. ASSUME NEW r \in Requests, Write(r)
      PROVE  IInv'
  <2>1. /\ Op(r) \in {"guard", "open", "write", "commit"} /\ Advance(r)
        /\ UNCHANGED <<kind, free, waiting, held, detached>>
        /\ guard' = guard /\ open' = open /\ writer' = r
    BY <1>4 DEF Write
  <2>2. QED
    BY <1>0, <2>1, OtherOp
<1>5. ASSUME NEW r \in Requests, Commit(r)
      PROVE  IInv'
  <2>1. /\ Op(r) \in {"guard", "open", "write", "commit"} /\ Advance(r)
        /\ UNCHANGED <<kind, free, waiting, held, detached>>
        /\ guard' \in {guard, Nobody} /\ open' = open \ {r} /\ writer' = Nobody
    BY <1>5 DEF Commit, Without
  <2>2. QED
    BY <1>0, <2>1, OtherOp
<1>6. ASSUME NEW r \in Requests, Cancel(r) \/ Busy(r)
      PROVE  IInv'
  BY <1>6, CancelIInv DEF Busy
<1>7. CASE DetachedEnds
  <2>1. detached' \in Nat
    BY <1>7 DEF DetachedEnds, IInv, TypeOK
  <2>2. QED
    BY <1>7, <2>1 DEF DetachedEnds, IInv, TypeOK, SlotsConserved, Op, Finished
<1>8. CASE UNCHANGED vars
  BY <1>8 DEF vars, IInv, TypeOK, SlotsConserved, Op, Finished
<1>9. QED
  BY <1>1, <1>2, <1>3, <1>4, <1>5, <1>6, <1>7, <1>8, Zenon DEF Next, Proceed

-----------------------------------------------------------------------------
(***************************************************************************)
(* Nobody waits in a circle.                                               *)
(***************************************************************************)

\* What a request may still hold once it has taken it: it gives everything back with
\* its commit.
Within(taking, k, i) ==
    \E t \in 1..(i - 1) :
        /\ Program[k][t] = taking
        /\ \A j \in t..(i - 1) : Program[k][j] # "commit"

Holds(r, taking) == Within(taking, kind[r], at[r])

\* Who holds something is between taking it and its commit.
HoldersInv ==
    /\ \A r \in open : Holds(r, "open")
    /\ writer # Nobody => Holds(writer, "write")
    /\ guard # Nobody => Holds(guard, "guard")

\* Nothing stands in the way of the next operation of r: the guard of Proceed(r).
CanProceed(r) ==
    \/ Op(r) = "hash" /\ (r \in held \/ r \notin ToSet(waiting))
    \/ Op(r) = "guard" /\ guard = Nobody
    \/ Op(r) = "open" /\ Cardinality(open) < Connections
    \/ Op(r) = "write" /\ writer = Nobody
    \/ Op(r) = "commit"

NobodyStuck ==
    (\E r \in Requests : ~Finished(r)) => \E r \in Requests : CanProceed(r)

\* The programs: what is taken is given back, and between the two a handler waits
\* only for what comes later in this order: mutex, connection, writer, slot.
LEMMA Programs ==
    ASSUME NEW k \in Kinds, NEW i \in 1..(Len(Program[k]) + 1)
    PROVE  /\ Within("open", k, i) => i <= Len(Program[k]) /\ Program[k][i] \in {"write", "hash", "commit"}
           /\ Within("write", k, i) => i <= Len(Program[k]) /\ Program[k][i] \in {"hash", "commit"}
           /\ Within("guard", k, i) => i <= Len(Program[k]) /\ Program[k][i] \in {"open", "write", "hash", "commit"}
<1>1. k \in {"sign_in", "password", "insert", "first_time"}
  BY DEF Kinds, Program
<1>2. CASE k = "sign_in"
  <2>1. /\ Program[k] = <<"hash", "open", "write", "commit", "open", "write", "commit">>
        /\ Len(Program[k]) = 7
    BY <1>2 DEF Program
  <2>2. i \in 1..8
    BY <2>1
  <2>3. QED
    BY <2>1, <2>2 DEF Within
<1>3. CASE k = "password"
  <2>1. Program[k] = <<"hash", "hash", "open", "write", "commit">> /\ Len(Program[k]) = 5
    BY <1>3 DEF Program
  <2>2. i \in 1..6
    BY <2>1
  <2>3. QED
    BY <2>1, <2>2 DEF Within
<1>4. CASE k = "insert"
  <2>1. /\ Program[k] = <<"hash", "open", "write", "commit", "open", "write", "hash", "commit">>
        /\ Len(Program[k]) = 8
    BY <1>4 DEF Program
  <2>2. i \in 1..9
    BY <2>1
  <2>3. QED
    BY <2>1, <2>2 DEF Within
<1>5. CASE k = "first_time"
  <2>1. Program[k] = <<"guard", "open", "write", "hash", "commit">> /\ Len(Program[k]) = 5
    BY <1>5 DEF Program
  <2>2. i \in 1..6
    BY <2>1
  <2>3. QED
    BY <2>1, <2>2 DEF Within
<1>6. QED
  BY <1>1, <1>2, <1>3, <1>4, <1>5

LEMMA Operations ==
    ASSUME NEW k \in Kinds, NEW i \in 1..Len(Program[k])
    PROVE  Program[k][i] \in {"hash", "guard", "open", "write", "commit"}
<1>1. k \in {"sign_in", "password", "insert", "first_time"}
  BY DEF Kinds, Program
<1>2. CASE k = "sign_in"
  BY <1>2 DEF Program
<1>3. CASE k = "password"
  BY <1>3 DEF Program
<1>4. CASE k = "insert"
  BY <1>4 DEF Program
<1>5. CASE k = "first_time"
  BY <1>5 DEF Program
<1>6. QED
  BY <1>1, <1>2, <1>3, <1>4, <1>5

\* Going on takes something, or keeps it.
LEMMA GoOn ==
    ASSUME NEW k \in Kinds, NEW i \in Nat \ {0}, NEW taking
    PROVE  /\ Program[k][i] = taking /\ taking # "commit" => Within(taking, k, i + 1)
           /\ Within(taking, k, i) /\ Program[k][i] # "commit" => Within(taking, k, i + 1)
<1>1. i \in 1..((i + 1) - 1) /\ i..((i + 1) - 1) = {i} /\ (i + 1) - 1 = i
  OBVIOUS
<1>2. ASSUME Program[k][i] = taking, taking # "commit" PROVE Within(taking, k, i + 1)
  BY <1>1, <1>2 DEF Within
<1>3. ASSUME Within(taking, k, i), Program[k][i] # "commit" PROVE Within(taking, k, i + 1)
  <2>1. PICK t \in 1..(i - 1) : Program[k][t] = taking /\ \A j \in t..(i - 1) : Program[k][j] # "commit"
    BY <1>3 DEF Within
  <2>2. t \in 1..((i + 1) - 1) /\ \A j \in t..((i + 1) - 1) : j = i \/ j \in t..(i - 1)
    OBVIOUS
  <2>3. QED
    BY <1>3, <2>1, <2>2 DEF Within
<1>4. QED
  BY <1>2, <1>3

\* An operation of r keeps the others' holdings, and r's own unless it commits.
LEMMA StepHolders ==
    ASSUME IInv, HoldersInv, NEW r \in Requests, ~Finished(r), Op(r) # "commit",
           kind' = kind, Advance(r),
           \A x \in open' : x \in open \/ (x = r /\ Op(r) = "open"),
           writer' = writer \/ (writer' = r /\ Op(r) = "write"),
           guard' = guard \/ (guard' = r /\ Op(r) = "guard")
    PROVE  HoldersInv'
<1>1. kind[r] \in Kinds /\ at[r] \in Nat \ {0} /\ Program[kind[r]][at[r]] = Op(r)
  BY DEF IInv, TypeOK, Op
<1>2. \A x \in Requests : at'[x] = IF x = r THEN at[r] + 1 ELSE at[x]
  BY DEF IInv, Advance
<1>3. ASSUME NEW taking \in {"open", "write", "guard"}, NEW x \in Requests,
             Holds(x, taking) \/ (x = r /\ Op(r) = taking)
      PROVE  Holds(x, taking)'
  <2>1. CASE x = r
    <3>1. Within(taking, kind[r], at[r] + 1)
      BY <1>1, <1>3, <2>1, GoOn DEF Holds
    <3>2. QED
      BY <1>2, <2>1, <3>1 DEF Holds
  <2>2. CASE x # r
    BY <1>2, <1>3, <2>2 DEF Holds
  <2>3. QED
    BY <2>1, <2>2
<1>4. open \subseteq Requests /\ writer \in Requests \cup {Nobody} /\ guard \in Requests \cup {Nobody}
  BY DEF IInv, TypeOK
<1>5. \A x \in open' : Holds(x, "open")'
  BY <1>3, <1>4 DEF HoldersInv
<1>6. writer' # Nobody => Holds(writer, "write")'
  BY <1>3, <1>4 DEF HoldersInv
<1>7. guard' # Nobody => Holds(guard, "guard")'
  BY <1>3, <1>4 DEF HoldersInv
<1>8. QED
  BY <1>5, <1>6, <1>7 DEF HoldersInv

\* Whoever has let go of everything may be anywhere.
LEMMA LetGo ==
    ASSUME IInv, HoldersInv, NEW r \in Requests, kind' = kind, NEW n, at' = [at EXCEPT ![r] = n],
           open' = open \ {r}, writer' # r, writer' \in {writer, Nobody},
           guard' # r, guard' \in {guard, Nobody}
    PROVE  HoldersInv'
<1>1. \A x \in Requests : x # r => at'[x] = at[x]
  BY DEF IInv
<1>2. open \subseteq Requests /\ writer \in Requests \cup {Nobody} /\ guard \in Requests \cup {Nobody}
  BY DEF IInv, TypeOK
<1>3. \A x \in Requests, taking \in {"open", "write", "guard"} :
         x # r /\ Holds(x, taking) => Holds(x, taking)'
  BY <1>1 DEF Holds
<1>4. QED
  BY <1>2, <1>3 DEF HoldersInv

LEMMA InitHolders == Init => HoldersInv
BY DEF Init, HoldersInv

LEMMA NextHolders == IInv /\ HoldersInv /\ [Next]_vars => HoldersInv'
<1> SUFFICES ASSUME IInv, HoldersInv, [Next]_vars PROVE HoldersInv'
  OBVIOUS
<1>1. ASSUME NEW r \in Requests, HashSlot(r)
      PROVE  HoldersInv'
  BY <1>1 DEF HashSlot, HoldersInv, Holds
<1>2. ASSUME NEW r \in Requests, Hashed(r) \/ Guard(r) \/ Open(r) \/ Write(r)
      PROVE  HoldersInv'
  <2>1. /\ Op(r) \in {"hash", "guard", "open", "write"} /\ Advance(r) /\ kind' = kind
        /\ \A x \in open' : x \in open \/ (x = r /\ Op(r) = "open")
        /\ writer' = writer \/ (writer' = r /\ Op(r) = "write")
        /\ guard' = guard \/ (guard' = r /\ Op(r) = "guard")
    BY <1>2 DEF Hashed, Guard, Open, Write
  <2>2. ~Finished(r) /\ Op(r) # "commit"
    BY <2>1 DEF Op
  <2>3. QED
    BY <2>1, <2>2, StepHolders
<1>3. ASSUME NEW r \in Requests, Commit(r)
      PROVE  HoldersInv'
  <2>1. /\ kind' = kind /\ at' = [at EXCEPT ![r] = at[r] + 1] /\ open' = open \ {r}
        /\ writer' = Nobody /\ guard' = Without(guard, r)
    BY <1>3 DEF Commit, Advance
  <2>2. r # Nobody
    BY Constants
  <2>3. QED
    BY <2>1, <2>2, LetGo DEF Without
<1>4. ASSUME NEW r \in Requests, Cancel(r) \/ Busy(r)
      PROVE  HoldersInv'
  <2>1. /\ kind' = kind /\ at' = [at EXCEPT ![r] = Len(Program[kind[r]]) + 1] /\ open' = open \ {r}
        /\ writer' = Without(writer, r) /\ guard' = Without(guard, r)
    BY <1>4 DEF Busy, Cancel
  <2>2. r # Nobody
    BY Constants
  <2>3. QED
    BY <2>1, <2>2, LetGo DEF Without
<1>5. CASE DetachedEnds
  BY <1>5 DEF DetachedEnds, HoldersInv, Holds
<1>6. CASE UNCHANGED vars
  BY <1>6 DEF vars, HoldersInv, Holds
<1>7. QED
  BY <1>1, <1>2, <1>3, <1>4, <1>5, <1>6, Zenon DEF Next, Proceed

\* Each waits for one who is further on, and the last of them for nobody.
LEMMA SomebodyGoesOn == IInv /\ HoldersInv => NobodyStuck
<1> SUFFICES ASSUME IInv, HoldersInv, \A r \in Requests : ~CanProceed(r), NEW r \in Requests, ~Finished(r)
             PROVE  FALSE
  BY DEF NobodyStuck
<1>1. \A x \in Requests : kind[x] \in Kinds /\ at[x] \in 1..(Len(Program[kind[x]]) + 1)
  BY DEF IInv, TypeOK
<1>2. \A x \in Requests : Op(x) # "hash"
  <2>1. waiting = <<>> /\ held = {}
    <3>1. held = {}
      <4>1. \A x \in held : x \in Requests /\ Op(x) = "hash"
        BY DEF IInv, TypeOK, SlotsConserved
      <4>2. QED
        BY <4>1 DEF CanProceed
    <3>2. Cardinality(held) = 0
      BY <3>1, FS_EmptySet
    <3>3. free > 0
      BY <3>2, Constants DEF IInv, TypeOK, SlotsConserved
    <3>4. QED
      BY <3>1, <3>3 DEF IInv, SlotsConserved
  <2>2. ToSet(waiting) = {}
    BY <2>1, EmptySeq, QueueFacts
  <2>3. QED
    BY <2>2 DEF CanProceed
<1>3. \A x \in Requests : Op(x) # "commit"
  BY DEF CanProceed
<1>4. ASSUME NEW x \in Requests, NEW taking \in {"open", "write", "guard"}, Holds(x, taking)
      PROVE  /\ Op(x) \in {"open", "write"}
             /\ taking = "write" => FALSE
             /\ taking = "open" => Op(x) = "write"
  <2>1. ~Finished(x) /\ Op(x) = Program[kind[x]][at[x]]
    BY <1>1, <1>4, Programs, ProgramLength DEF Holds, Op, Finished
  <2>2. /\ taking = "open" => Op(x) \in {"write", "hash", "commit"}
        /\ taking = "write" => Op(x) \in {"hash", "commit"}
        /\ taking = "guard" => Op(x) \in {"open", "write", "hash", "commit"}
    BY <1>1, <1>4, <2>1, Programs DEF Holds
  <2>3. QED
    BY <1>2, <1>3, <2>2
<1>5. writer = Nobody
  <2>1. writer \in Requests \cup {Nobody}
    BY DEF IInv, TypeOK
  <2>2. QED
    BY <1>4, <2>1 DEF HoldersInv
<1>6. \A x \in Requests : Op(x) # "write"
  BY <1>5 DEF CanProceed
<1>7. \A x \in Requests : Op(x) # "open"
  <2>1. open = {}
    <3>1. open \subseteq Requests
      BY DEF IInv, TypeOK
    <3>2. QED
      BY <1>4, <1>6, <3>1 DEF HoldersInv
  <2>2. Cardinality(open) = 0
    BY <2>1, FS_EmptySet
  <2>3. Cardinality(open) < Connections
    BY <2>2, SlotConstants
  <2>4. QED
    BY <2>3 DEF CanProceed
<1>8. \A x \in Requests : Op(x) # "guard"
  <2>1. guard \in Requests \cup {Nobody}
    BY DEF IInv, TypeOK
  <2>2. guard = Nobody
    BY <1>4, <1>6, <1>7, <2>1 DEF HoldersInv
  <2>3. QED
    BY <2>2 DEF CanProceed
<1>9. Op(r) \in {"hash", "guard", "open", "write", "commit"}
  <2>1. at[r] \in 1..Len(Program[kind[r]])
    BY <1>1, ProgramLength DEF Finished
  <2>2. QED
    BY <1>1, <2>1, Operations DEF Op
<1>10. QED
  BY <1>2, <1>3, <1>6, <1>7, <1>8, <1>9

-----------------------------------------------------------------------------
(***************************************************************************)
(* The properties.                                                         *)
(***************************************************************************)

\* The invariant the properties rest on holds of every reachable state.
THEOREM Inductive == Spec => []IInv
<1>1. QED
  BY InitIInv, NextIInv, PTL DEF Spec

\* The semaphore never counts below zero or beyond its permits, and everything that
\* is held is held by a request: hash_slot and what drops a permit.
THEOREM TypeCorrect == Spec => []TypeOK
<1>1. IInv => TypeOK
  BY DEF IInv
<1>2. QED
  BY <1>1, Inductive, PTL

\* No permit of HASH_SLOTS is lost or doubled and no waiter is passed over, however
\* many requests come, finish and vanish: hash_slot, spawn_verify, spawn_encrypt.
THEOREM PermitsConserved == Spec => []SlotsConserved
<1>1. IInv => SlotsConserved
  BY DEF IInv
<1>2. QED
  BY <1>1, Inductive, PTL

\* Nobody is stuck: as long as a request is not answered, one of them can go on,
\* although create waits for a slot as SQLite's writer and first_time in its mutex
\* too.  With that, and since no program is endless, requests end without the help of
\* a timeout.
THEOREM NoCircularWait == Spec => []NobodyStuck
<1>1. Init => IInv /\ HoldersInv
  BY InitIInv, InitHolders
<1>2. (IInv /\ HoldersInv) /\ [Next]_vars => (IInv /\ HoldersInv)'
  BY NextIInv, NextHolders
<1>3. Spec => [](IInv /\ HoldersInv)
  BY <1>1, <1>2, PTL DEF Spec
<1>4. QED
  BY <1>3, SomebodyGoesOn, PTL

=============================================================================
