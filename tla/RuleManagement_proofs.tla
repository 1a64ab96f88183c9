------------------------ MODULE RuleManagement_proofs ------------------------
(***************************************************************************)
(* Theorems about the rule console, for any number of tabs, modules, lists *)
(* and saves.                                                              *)
(***************************************************************************)
EXTENDS RuleManagement, FiniteSetTheorems, TLAPS

-----------------------------------------------------------------------------
(***************************************************************************)
(* The inductive invariant.                                                *)
(***************************************************************************)

\* A save that is waited for is the last one of its tab.
SavingInv ==
    \A t \in Tabs : Saving(t) =>
        /\ tab[t].id \in DOMAIN log /\ log[tab[t].id].tab = t
        /\ \A j \in DOMAIN log : log[j].tab = t => j <= tab[t].id

\* A body for the modules says what its form said: a module that was not ticked
\* is sent as it was loaded.
FromForm(msg) ==
    /\ msg.body \in Settings /\ DOMAIN msg.body = DOMAIN msg.base
    /\ \A m \in DOMAIN msg.body : m \notin msg.ticked => msg.body[m] = msg.base[m]

\* A save on its way was logged and not applied, and its body passed its checks.
WireInv ==
    /\ \A msg \in wire :
         /\ msg.id \in DOMAIN log /\ log[msg.id].at = 0
         /\ IF msg.path = "cmc" THEN FromForm(msg)
            ELSE msg.body \in Contents /\ BuildUpdateBody(msg.path, msg.body)
    /\ \A a, b \in wire : a.id = b.id => a = b

\* Places are given out in order: nothing was applied after the last one counted.
PlacesInv == \A i \in DOMAIN log : log[i].at <= AppliedSoFar

IInv ==
    /\ TypeOK /\ SavingInv /\ WireInv /\ PlacesInv
    /\ ListsWellFormed /\ SuccessMeansApplied /\ SavesInOrder

-----------------------------------------------------------------------------
(***************************************************************************)
(* The log.                                                                *)
(***************************************************************************)

LEMMA PathsDiffer == "cmc" \notin Lists
  BY DEF Lists, RegexRuleList

LEMMA IntervalSize == \A n \in Nat : IsFiniteSet(1..n) /\ Cardinality(1..n) = n
<1>1. ASSUME NEW n \in Nat PROVE IsFiniteSet(1..n) /\ Cardinality(1..n) = n
  <2>1. 1 \in Int /\ n \in Int
    OBVIOUS
  <2>2. IsFiniteSet(1..n) /\ Cardinality(1..n) = IF 1 > n THEN 0 ELSE n - 1 + 1
    BY <2>1, FS_Interval, Zenon
  <2>3. QED
    BY <2>2
<1>2. QED
  BY <1>1

\* The applied saves are counted by a natural number, one less than there are
\* saves at most if one of them is not applied.
LEMMA Counting ==
  ASSUME TypeOK
  PROVE  /\ AppliedSoFar \in Nat
         /\ IsFiniteSet({i \in DOMAIN log : log[i].at # 0})
         /\ \A k \in DOMAIN log : log[k].at = 0 => AppliedSoFar < Len(log)
<1> DEFINE A == {i \in DOMAIN log : log[i].at # 0}
<1>1. DOMAIN log = 1..Len(log) /\ Len(log) \in Nat
  BY DEF TypeOK
<1>2. IsFiniteSet(1..Len(log)) /\ Cardinality(1..Len(log)) = Len(log)
  BY <1>1, IntervalSize
<1>3. IsFiniteSet(A) /\ Cardinality(A) \in Nat
  BY <1>1, <1>2, FS_Subset, FS_CardinalityType
<1>4. ASSUME NEW k \in DOMAIN log, log[k].at = 0
      PROVE  Cardinality(A) < Len(log)
  <2>1. A \subseteq 1..Len(log) /\ A # 1..Len(log)
    BY <1>1, <1>4
  <2>2. /\ Cardinality(A) <= Cardinality(1..Len(log))
        /\ Cardinality(1..Len(log)) # Cardinality(A)
    BY <2>1, <1>2, FS_Subset, Zenon
  <2>3. QED
    BY <2>2, <1>1, <1>2, <1>3
<1>5. QED
  BY <1>3, <1>4 DEF AppliedSoFar

\* What Told does to the log: one entry changes, and not its place.
LEMMA ToldEffect ==
  ASSUME TypeOK, NEW t \in Tabs, tab[t].id \in DOMAIN log,
         NEW told \in {"success", "error", "gone"}, NEW audited \in BOOLEAN,
         Told(t, told, audited)
  PROVE  /\ log' \in Seq(Entry) /\ Len(log') = Len(log) /\ DOMAIN log' = DOMAIN log
         /\ \A i \in DOMAIN log : log'[i].tab = log[i].tab /\ log'[i].at = log[i].at
         /\ \A i \in DOMAIN log \ {tab[t].id} : log'[i] = log[i]
         /\ log'[tab[t].id].told = told /\ log'[tab[t].id].audited = audited
<1> DEFINE k == tab[t].id
           e == [log[k] EXCEPT !.told = told, !.audited = audited]
<1>1. log \in Seq(Entry) /\ k \in 1..Len(log) /\ log[k] \in Entry
  BY DEF TypeOK
<1>2. log' = [log EXCEPT ![k] = e]
  BY <1>1 DEF Told, Entry
<1>3. e \in Entry /\ e.tab = log[k].tab /\ e.at = log[k].at /\ e.told = told /\ e.audited = audited
  BY <1>1 DEF Entry
<1> HIDE DEF e, k
<1>4. log' \in Seq(Entry) /\ Len(log') = Len(log) /\ DOMAIN log' = DOMAIN log
  BY <1>1, <1>2, <1>3
<1>5. \A i \in DOMAIN log : log'[i] = IF i = k THEN e ELSE log[i]
  BY <1>1, <1>2
<1>6. QED
  BY <1>1, <1>3, <1>4, <1>5 DEF k

LEMMA PlacesAreNumbers == TypeOK => \A i \in DOMAIN log : log[i] \in Entry /\ log[i].at \in Nat
<1>1. ASSUME TypeOK, NEW i \in DOMAIN log PROVE log[i] \in Entry
  BY <1>1 DEF TypeOK
<1>2. ASSUME TypeOK, NEW i \in DOMAIN log PROVE log[i].at \in Nat
  <2>1. log[i].at \in 0..MaxCalls
    BY <1>1, <1>2 DEF Entry
  <2>2. QED
    BY <2>1
<1>3. QED
  BY <1>1, <1>2

\* The places of the log are untouched when their values are.
LEMMA SamePlaces ==
  ASSUME TypeOK, DOMAIN log' = DOMAIN log, \A i \in DOMAIN log : log'[i].at = log[i].at
  PROVE  AppliedSoFar' = AppliedSoFar
BY DEF AppliedSoFar

-----------------------------------------------------------------------------
(***************************************************************************)
(* Steps that touch neither the firewall nor the log: a tab becomes        *)
(* another one that waits for nothing.                                     *)
(***************************************************************************)

LEMMA TabStep ==
  ASSUME IInv, NEW t \in Tabs, NEW new \in {Closed} \cup CmcTab \cup EditTab,
         Become(t, new), new.page # "none" => new.phase # "saving",
         UNCHANGED <<waf, wire, log>>
  PROVE  IInv'
<1>1. tab' = [tab EXCEPT ![t] = new] /\ waf' = waf /\ wire' = wire /\ log' = log
  BY DEF Become
<1>2. tab \in [Tabs -> {Closed} \cup CmcTab \cup EditTab]
  BY DEF IInv, TypeOK
<1>3. tab'[t] = new /\ \A u \in Tabs \ {t} : tab'[u] = tab[u]
  BY <1>1, <1>2
<1>4. TypeOK'
  <2>1. tab' \in [Tabs -> {Closed} \cup CmcTab \cup EditTab]
    BY <1>1, <1>2
  <2>2. QED
    BY <1>1, <2>1 DEF IInv, TypeOK
<1>5. SavingInv'
  BY <1>1, <1>3 DEF IInv, SavingInv, Saving
<1>6. (WireInv /\ PlacesInv /\ ListsWellFormed /\ SuccessMeansApplied /\ SavesInOrder)'
  BY <1>1 DEF IInv, WireInv, PlacesInv, AppliedSoFar, ListsWellFormed, SuccessMeansApplied,
              SavesInOrder, FromForm
<1>7. QED
  BY <1>4, <1>5, <1>6 DEF IInv

-----------------------------------------------------------------------------
(***************************************************************************)
(* A save is sent.                                                         *)
(***************************************************************************)

LEMMA SendStep ==
  ASSUME IInv, NEW t \in Tabs, tab[t] \in CmcTab \cup EditTab,
         NEW path \in {"cmc"} \cup Lists, NEW body \in Settings \cup Contents,
         NEW base \in Settings, NEW ticked \in SUBSET Modules,
         path = "cmc" => /\ body \in Settings /\ DOMAIN body = DOMAIN base
                         /\ \A m \in DOMAIN body : m \notin ticked => body[m] = base[m],
         path # "cmc" => body \in Contents /\ BuildUpdateBody(path, body),
         Send(t, path, body, base, ticked)
  PROVE  IInv'
<1> DEFINE id  == Len(log) + 1
           msg == [id |-> id, path |-> path, body |-> body, base |-> base, ticked |-> ticked]
           e   == [tab |-> t, at |-> 0, audited |-> FALSE, told |-> "pending"]
           new == [tab[t] EXCEPT !.phase = "saving", !.id = id]
<1>1. /\ id <= MaxCalls /\ wire' = wire \cup {msg} /\ log' = Append(log, e)
      /\ tab' = [tab EXCEPT ![t] = new] /\ waf' = waf
  BY DEF Send, Become
<1>2. /\ log \in Seq(Entry) /\ Len(log) \in Nat /\ DOMAIN log = 1..Len(log) /\ MaxCalls \in Nat
      /\ id \in 1..MaxCalls
  BY <1>1, RuleConstants DEF IInv, TypeOK
<1>3. e \in Entry /\ e.at = 0 /\ e.tab = t /\ e.told = "pending" /\ e.audited = FALSE
  BY <1>2 DEF Entry
<1>4. msg \in Message /\ msg.id = id /\ msg.path = path /\ msg.body = body
      /\ msg.base = base /\ msg.ticked = ticked
  BY <1>2 DEF Message
<1>5. new \in CmcTab \cup EditTab /\ new.id = id
  <2>0. id \in 0..MaxCalls
    BY <1>2
  <2>1. CASE tab[t] \in CmcTab
    BY <2>0, <2>1 DEF CmcTab
  <2>2. CASE tab[t] \in EditTab
    BY <2>0, <2>2 DEF EditTab
  <2>3. QED
    BY <2>1, <2>2
<1> HIDE DEF e, msg, new
<1>6. /\ log' \in Seq(Entry) /\ Len(log') = id /\ DOMAIN log' = 1..id
      /\ \A i \in DOMAIN log : log'[i] = log[i]
      /\ log'[id] = e
  BY <1>1, <1>2, <1>3
<1>7. DOMAIN log' = DOMAIN log \cup {id} /\ id \notin DOMAIN log
      /\ \A i \in DOMAIN log : i < id /\ i # id
  BY <1>2, <1>6
<1>8. tab'[t] = new /\ \A u \in Tabs \ {t} : tab'[u] = tab[u]
  BY <1>1 DEF IInv, TypeOK
<1>9. TypeOK'
  <2>1. tab' \in [Tabs -> {Closed} \cup CmcTab \cup EditTab]
    BY <1>1, <1>5 DEF IInv, TypeOK
  <2>2. QED
    BY <1>1, <1>4, <1>6, <2>1 DEF IInv, TypeOK
<1>10. SavingInv'
  <2>1. ASSUME NEW u \in Tabs, Saving(u)'
        PROVE  /\ tab'[u].id \in DOMAIN log' /\ log'[tab'[u].id].tab = u
               /\ \A j \in DOMAIN log' : log'[j].tab = u => j <= tab'[u].id
    <3>1. CASE u = t
      BY <3>1, <1>2, <1>3, <1>5, <1>6, <1>8
    <3>2. CASE u # t
      <4>1. tab'[u] = tab[u] /\ Saving(u)
        BY <3>2, <2>1, <1>8 DEF Saving
      <4>2. QED
        BY <4>1, <3>2, <1>3, <1>6, <1>7 DEF IInv, SavingInv
    <3>3. QED
      BY <3>1, <3>2
  <2>2. QED
    BY <2>1 DEF SavingInv
<1>11. WireInv'
  <2>1. ASSUME NEW m \in wire
        PROVE  /\ m.id \in DOMAIN log' /\ log'[m.id].at = 0 /\ m.id # id
               /\ IF m.path = "cmc" THEN FromForm(m)
                  ELSE m.body \in Contents /\ BuildUpdateBody(m.path, m.body)
    BY <1>6, <1>7 DEF IInv, WireInv
  <2>2. /\ msg.id \in DOMAIN log' /\ log'[msg.id].at = 0
        /\ IF msg.path = "cmc" THEN FromForm(msg)
           ELSE msg.body \in Contents /\ BuildUpdateBody(msg.path, msg.body)
    BY <1>3, <1>4, <1>6, <1>7 DEF FromForm
  <2>3. \A a, b \in wire \cup {msg} : a.id = b.id => a = b
    BY <2>1, <1>4 DEF IInv, WireInv
  <2>4. QED
    BY <1>1, <2>1, <2>2, <2>3 DEF WireInv, FromForm
<1>12. AppliedSoFar' = AppliedSoFar
  <2>1. {i \in DOMAIN log' : log'[i].at # 0} = {i \in DOMAIN log : log[i].at # 0}
    BY <1>3, <1>6, <1>7
  <2>2. QED
    BY <2>1 DEF AppliedSoFar
<1>13. PlacesInv'
  <2>1. AppliedSoFar \in Nat
    BY Counting DEF IInv
  <2>2. QED
    <3>1. ASSUME NEW i \in DOMAIN log' PROVE log'[i].at <= AppliedSoFar
      <4>1. CASE i = id
        BY <4>1, <2>1, <1>3, <1>6
      <4>2. CASE i # id
        BY <4>2, <1>6, <1>7 DEF IInv, PlacesInv
      <4>3. QED
        BY <4>1, <4>2
    <3>2. QED
      BY <3>1, <1>12 DEF PlacesInv
<1>14. ListsWellFormed' /\ SuccessMeansApplied'
  BY <1>1, <1>3, <1>6, <1>7 DEF IInv, ListsWellFormed, SuccessMeansApplied
<1>15. SavesInOrder'
  BY <1>3, <1>6, <1>7 DEF IInv, SavesInOrder
<1>16. QED
  BY <1>9, <1>10, <1>11, <1>13, <1>14, <1>15 DEF IInv

-----------------------------------------------------------------------------
(***************************************************************************)
(* A save ends for its tab.                                                *)
(***************************************************************************)

LEMMA EndStep ==
  ASSUME IInv, NEW t \in Tabs, Saving(t),
         NEW told \in {"success", "error", "gone"}, NEW audited \in BOOLEAN,
         audited => log[tab[t].id].at # 0, told = "success" => audited,
         Told(t, told, audited),
         NEW new \in {Closed} \cup CmcTab \cup EditTab,
         Become(t, new), new.page # "none" => new.phase # "saving",
         UNCHANGED <<waf, wire>>
  PROVE  IInv'
<1> DEFINE k == tab[t].id
<1>1. /\ k \in DOMAIN log /\ log[k].tab = t
      /\ \A j \in DOMAIN log : log[j].tab = t => j <= k
  BY DEF IInv, SavingInv
<1>2. /\ log' \in Seq(Entry) /\ Len(log') = Len(log) /\ DOMAIN log' = DOMAIN log
      /\ \A i \in DOMAIN log : log'[i].tab = log[i].tab /\ log'[i].at = log[i].at
      /\ \A i \in DOMAIN log \ {k} : log'[i] = log[i]
      /\ log'[k].told = told /\ log'[k].audited = audited
  BY <1>1, ToldEffect DEF IInv
<1>3. tab' = [tab EXCEPT ![t] = new] /\ waf' = waf /\ wire' = wire
  BY DEF Become
<1>4. tab'[t] = new /\ \A u \in Tabs \ {t} : tab'[u] = tab[u]
  BY <1>3 DEF IInv, TypeOK
<1> HIDE DEF k
<1>5. TypeOK'
  <2>1. tab' \in [Tabs -> {Closed} \cup CmcTab \cup EditTab]
    BY <1>3 DEF IInv, TypeOK
  <2>2. QED
    BY <1>2, <1>3, <2>1 DEF IInv, TypeOK
<1>6. SavingInv'
  BY <1>2, <1>4 DEF IInv, SavingInv, Saving
<1>7. WireInv'
  BY <1>2, <1>3 DEF IInv, WireInv, FromForm
<1>8. PlacesInv'
  BY <1>2, SamePlaces DEF IInv, PlacesInv
<1>9. ListsWellFormed'
  BY <1>3 DEF IInv, ListsWellFormed
<1>10. SuccessMeansApplied'
  BY <1>1, <1>2 DEF IInv, SuccessMeansApplied, k
<1>11. SavesInOrder'
  <2>1. ASSUME NEW i \in DOMAIN log, NEW j \in DOMAIN log, i < j,
               log[i].tab = log[j].tab, log'[i].told = "success", log[j].at # 0
        PROVE  log[i].at < log[j].at
    <3>1. i # k
      <4>1. i \in Nat /\ j \in Nat
        BY DEF IInv, TypeOK
      <4>2. QED
        BY <4>1, <2>1, <1>1
    <3>2. QED
      BY <3>1, <2>1, <1>2 DEF IInv, SavesInOrder
  <2>2. QED
    BY <2>1, <1>2 DEF SavesInOrder
<1>12. QED
  BY <1>5, <1>6, <1>7, <1>8, <1>9, <1>10, <1>11 DEF IInv

-----------------------------------------------------------------------------
(***************************************************************************)
(* KrakenWAF.                                                              *)
(***************************************************************************)

LEMMA ApplyStep == ASSUME IInv, NEW msg \in wire, WafApplies(msg) PROVE IInv'
<1> DEFINE k == msg.id
           n == AppliedSoFar + 1
           e == [log[k] EXCEPT !.at = n]
<1>1. /\ k \in DOMAIN log /\ log[k].at = 0 /\ msg \in Message
      /\ IF msg.path = "cmc" THEN FromForm(msg)
         ELSE msg.body \in Contents /\ BuildUpdateBody(msg.path, msg.body)
  BY DEF IInv, WireInv, TypeOK
<1>2. /\ log \in Seq(Entry) /\ Len(log) \in Nat /\ DOMAIN log = 1..Len(log) /\ MaxCalls \in Nat
      /\ log[k] \in Entry /\ Len(log) <= MaxCalls
  BY <1>1, RuleConstants DEF IInv, TypeOK
<1>3. AppliedSoFar \in Nat /\ n \in 1..MaxCalls
  BY <1>1, <1>2, Counting DEF IInv
<1>4. e \in Entry /\ e.at = n /\ e.tab = log[k].tab /\ e.told = log[k].told
      /\ e.audited = log[k].audited
  <2>1. n \in 0..MaxCalls
    BY <1>3
  <2> HIDE DEF n
  <2>2. QED
    BY <1>2, <2>1 DEF Entry
<1>5. log' = [log EXCEPT ![k] = e] /\ wire' = wire \ {msg} /\ tab' = tab
  BY <1>2 DEF WafApplies
<1> HIDE DEF e
<1>6. /\ log' \in Seq(Entry) /\ Len(log') = Len(log) /\ DOMAIN log' = DOMAIN log
      /\ \A i \in DOMAIN log \ {k} : log'[i] = log[i]
      /\ log'[k] = e
  BY <1>1, <1>2, <1>4, <1>5
<1>7. /\ waf' \in [cmc : [Modules -> BOOLEAN], list : [Lists -> Contents]]
      /\ \A l \in Lists : BuildUpdateBody(l, waf'.list[l])
  <2>0. waf \in [cmc : [Modules -> BOOLEAN], list : [Lists -> Contents]]
        /\ \A l \in Lists : BuildUpdateBody(l, waf.list[l])
    BY DEF IInv, TypeOK, ListsWellFormed
  <2>1. CASE msg.path = "cmc"
    <3>1. waf' = [waf EXCEPT !.cmc = Patch(msg.body)]
      BY <2>1 DEF WafApplies
    <3>2. Patch(msg.body) \in [Modules -> BOOLEAN]
      BY <1>1, <2>0, <2>1 DEF Patch, FromForm, Settings
    <3>3. QED
      BY <3>1, <3>2, <2>0
  <2>2. CASE msg.path # "cmc"
    <3>1. msg.path \in Lists
      BY <1>1, <2>2 DEF Message
    <3>2. waf' = [waf EXCEPT !.list[msg.path] = msg.body]
      BY <2>2 DEF WafApplies
    <3>3. waf'.list = [waf.list EXCEPT ![msg.path] = msg.body] /\ waf'.cmc = waf.cmc
          /\ waf' = [cmc |-> waf.cmc, list |-> waf'.list]
      BY <3>2, <2>0
    <3>4. QED
      BY <3>1, <3>3, <1>1, <2>0, <2>2
  <2>3. QED
    BY <2>1, <2>2
<1>8. TypeOK'
  BY <1>5, <1>6, <1>7, <1>2 DEF IInv, TypeOK
<1>9. SavingInv'
  BY <1>4, <1>5, <1>6 DEF IInv, SavingInv, Saving
<1>10. WireInv'
  <2>1. \A m \in wire \ {msg} : m.id # k
    BY DEF IInv, WireInv
  <2>2. QED
    BY <2>1, <1>5, <1>6 DEF IInv, WireInv, FromForm
<1>11. AppliedSoFar' = n
  <2> DEFINE A == {i \in DOMAIN log : log[i].at # 0}
  <2>1. {i \in DOMAIN log' : log'[i].at # 0} = A \cup {k} /\ k \notin A
    BY <1>1, <1>3, <1>4, <1>6
  <2>2. IsFiniteSet(A)
    BY Counting DEF IInv
  <2> HIDE DEF A
  <2>3. Cardinality(A \cup {k}) = Cardinality(A) + 1
    BY <2>1, <2>2, FS_AddElement
  <2>4. QED
    BY <2>1, <2>3 DEF AppliedSoFar, A
<1>12. PlacesInv'
  <2>1. ASSUME NEW i \in DOMAIN log PROVE log'[i].at <= n
    <3>1. CASE i = k
      BY <3>1, <1>3, <1>4, <1>6
    <3>2. CASE i # k
      <4>1. log'[i] = log[i] /\ log[i].at \in Nat /\ log[i].at <= AppliedSoFar
        BY <3>2, <1>6, PlacesAreNumbers DEF IInv, PlacesInv
      <4>2. QED
        BY <4>1, <1>3
    <3>3. QED
      BY <3>1, <3>2
  <2>2. QED
    BY <2>1, <1>6, <1>11 DEF PlacesInv
<1>13. SuccessMeansApplied'
  BY <1>1, <1>3, <1>4, <1>6 DEF IInv, SuccessMeansApplied
<1>14. SavesInOrder'
  <2>1. ASSUME NEW i \in DOMAIN log, NEW j \in DOMAIN log, i < j,
               log'[i].tab = log'[j].tab, log'[i].told = "success", log'[j].at # 0
        PROVE  log'[i].at < log'[j].at
    <3>1. i # k
      BY <2>1, <1>1, <1>4, <1>6 DEF IInv, SuccessMeansApplied
    <3>2. CASE j = k
      <4>1. log'[i].at = log[i].at /\ log[i].at \in Nat /\ log[i].at <= AppliedSoFar
        BY <3>1, <1>6, PlacesAreNumbers DEF IInv, PlacesInv
      <4>2. QED
        BY <4>1, <3>2, <1>3, <1>4, <1>6
    <3>3. CASE j # k
      BY <3>1, <3>3, <2>1, <1>6 DEF IInv, SavesInOrder
    <3>4. QED
      BY <3>2, <3>3
  <2>2. QED
    BY <2>1, <1>6 DEF SavesInOrder
<1>15. QED
  BY <1>7, <1>8, <1>9, <1>10, <1>12, <1>13, <1>14 DEF IInv, ListsWellFormed

LEMMA RefuseStep == ASSUME IInv, NEW msg \in wire, WafRefuses(msg) PROVE IInv'
<1>1. waf' = waf /\ tab' = tab /\ log' = log /\ wire' = wire \ {msg}
  BY DEF WafRefuses
<1>2. (TypeOK /\ SavingInv)'
  BY <1>1 DEF IInv, TypeOK, SavingInv, Saving
<1>3. (WireInv /\ PlacesInv)'
  BY <1>1 DEF IInv, WireInv, FromForm, PlacesInv, AppliedSoFar
<1>4. (ListsWellFormed /\ SuccessMeansApplied /\ SavesInOrder)'
  BY <1>1 DEF IInv, ListsWellFormed, SuccessMeansApplied, SavesInOrder
<1>5. QED
  BY <1>2, <1>3, <1>4 DEF IInv

-----------------------------------------------------------------------------
(***************************************************************************)
(* The actions of a tab.                                                   *)
(***************************************************************************)

LEMMA PartialMaps == \A S \in SUBSET Modules : \A f \in [S -> BOOLEAN] : f \in Settings
  BY DEF Settings

LEMMA EmptyTable == NoRows \in Settings /\ 0 \in 0..MaxCalls
<1>1. NoRows \in [{} -> BOOLEAN] /\ {} \in SUBSET Modules
  BY DEF NoRows
<1>2. NoRows \in Settings
  BY <1>1, PartialMaps
<1>3. 0 \in 0..MaxCalls
  BY RuleConstants
<1>4. QED
  BY <1>2, <1>3

LEMMA TabKinds ==
  ASSUME IInv, NEW t \in Tabs
  PROVE  /\ tab[t].page = "none" => tab[t] = Closed
         /\ tab[t].page = "cmc" => tab[t] \in CmcTab
         /\ tab[t].page = "edit" => tab[t] \in EditTab
         /\ tab[t] \in {Closed} \cup CmcTab \cup EditTab
BY DEF IInv, TypeOK, Closed, CmcTab, EditTab

\* A table's checkboxes and its form are partial maps of the modules.
LEMMA FormShape ==
  ASSUME IInv, NEW t \in Tabs, tab[t].page = "cmc", NEW ticked \in SUBSET Modules
  PROVE  /\ Rows(t) \in Settings /\ Form(t, ticked) \in Settings
         /\ DOMAIN Form(t, ticked) = DOMAIN Rows(t)
         /\ \A m \in DOMAIN Form(t, ticked) : m \notin ticked => Form(t, ticked)[m] = Rows(t)[m]
<1>1. tab[t].all \in Settings /\ tab[t].filter \in SUBSET Modules
  BY TabKinds DEF CmcTab
<1>2. PICK S \in SUBSET Modules : tab[t].all \in [S -> BOOLEAN]
  BY <1>1 DEF Settings
<1>3. S \cap tab[t].filter \in SUBSET Modules
  BY <1>1
<1>4. Rows(t) \in [S \cap tab[t].filter -> BOOLEAN]
  BY <1>2 DEF Rows
<1>5. Form(t, ticked) \in [S \cap tab[t].filter -> BOOLEAN]
  BY <1>4 DEF Form
<1>6. \A m \in S \cap tab[t].filter : m \notin ticked => Form(t, ticked)[m] = Rows(t)[m]
  BY <1>4 DEF Form
<1>7. QED
  BY <1>3, <1>4, <1>5, <1>6, PartialMaps

LEMMA CmcTableStep == ASSUME IInv, NEW t \in Tabs, CmcTable(t) PROVE IInv'
<1>0. 0 \in 0..MaxCalls /\ NoRows \in Settings /\ Modules \in SUBSET Modules
  BY EmptyTable
<1>1. CASE CmcPage(t)
  <2> DEFINE new == [page |-> "cmc", phase |-> "loading", id |-> 0, filter |-> Modules, all |-> NoRows]
  <2>1. new \in CmcTab /\ new.phase # "saving"
    BY <1>0 DEF CmcTab
  <2>2. Become(t, new) /\ UNCHANGED <<waf, wire, log>>
    BY <1>1 DEF CmcPage
  <2> HIDE DEF new
  <2>3. QED
    BY <2>1, <2>2, TabStep
<1>2. CASE ApiCmcList(t)
  <2>1. PICK all \in ListCmc : Become(t, [tab[t] EXCEPT !.phase = "idle", !.all = all])
    BY <1>2 DEF ApiCmcList
  <2> DEFINE new == [tab[t] EXCEPT !.phase = "idle", !.all = all]
  <2>2. all \in Settings
    <3>1. waf.cmc \in [Modules -> BOOLEAN]
      BY DEF IInv, TypeOK
    <3>2. waf.cmc \in Settings
      BY <3>1, <1>0, PartialMaps
    <3>3. QED
      BY <3>2, <1>0 DEF ListCmc
  <2>3. tab[t] \in CmcTab
    BY <1>2, TabKinds DEF ApiCmcList
  <2>4. new \in CmcTab /\ new.phase # "saving"
    BY <2>2, <2>3 DEF CmcTab
  <2>5. Become(t, new) /\ UNCHANGED <<waf, wire, log>>
    BY <1>2, <2>1 DEF ApiCmcList
  <2> HIDE DEF new
  <2>6. QED
    BY <2>4, <2>5, TabStep
<1>3. ASSUME NEW f \in Searches, ApplyFilter(t, f) PROVE IInv'
  <2> DEFINE new == [tab[t] EXCEPT !.filter = f]
  <2>1. tab[t] \in CmcTab /\ tab[t].phase = "idle" /\ f \in SUBSET Modules
    BY <1>3, TabKinds, RuleConstants DEF ApplyFilter
  <2>2. new \in CmcTab /\ new.phase # "saving"
    BY <2>1 DEF CmcTab
  <2>3. Become(t, new) /\ UNCHANGED <<waf, wire, log>>
    BY <1>3 DEF ApplyFilter
  <2> HIDE DEF new
  <2>4. QED
    BY <2>2, <2>3, TabStep
<1>4. ASSUME NEW ticked \in SUBSET Modules, SubmitAll(t, ticked) PROVE IInv'
  <2>1. tab[t].page = "cmc" /\ Send(t, "cmc", Form(t, ticked), Rows(t), ticked)
    BY <1>4 DEF SubmitAll, UpdateCmc
  <2>2. tab[t] \in CmcTab
    BY <2>1, TabKinds
  <2>3. QED
    BY <2>1, <2>2, FormShape, SendStep
<1>5. QED
  BY <1>1, <1>2, <1>3, <1>4 DEF CmcTable

LEMMA EditorStep == ASSUME IInv, NEW t \in Tabs, Editor(t) PROVE IInv'
<1>1. ASSUME NEW name \in RuleNames, RegexEditPage(t, name) PROVE IInv'
  <2> DEFINE new == [page |-> "edit", phase |-> "idle", id |-> 0, list |-> name]
  <2>1. name \in Lists /\ 0 \in 0..MaxCalls
    BY <1>1, RuleConstants DEF RegexEditPage, Lists
  <2>2. new \in EditTab /\ new.phase # "saving"
    BY <2>1 DEF EditTab
  <2>3. Become(t, new) /\ UNCHANGED <<waf, wire, log>>
    BY <1>1 DEF RegexEditPage
  <2> HIDE DEF new
  <2>4. QED
    BY <2>2, <2>3, TabStep
<1>2. ASSUME NEW c \in Contents, UpdateRule(t, c) PROVE IInv'
  <2>1. tab[t].page = "edit" /\ BuildUpdateBody(tab[t].list, c)
        /\ Send(t, tab[t].list, c, NoRows, {})
    BY <1>2 DEF UpdateRule
  <2>2. tab[t] \in EditTab /\ tab[t].list \in Lists
    BY <2>1, TabKinds DEF EditTab
  <2>3. tab[t].list # "cmc"
    BY <2>2, PathsDiffer
  <2>4. {} \in SUBSET Modules
    OBVIOUS
  <2>5. QED
    BY <2>1, <2>2, <2>3, <2>4, EmptyTable, SendStep
<1>3. QED
  BY <1>1, <1>2 DEF Editor

\* A save that is under way in a tab, when its tab waits no longer.
LEMMA Waited ==
  ASSUME IInv, NEW t \in Tabs, Saving(t)
  PROVE  /\ tab[t] \in CmcTab \cup EditTab
         /\ \A a \in AuditedOrNot(t) : a \in BOOLEAN /\ (a => log[tab[t].id].at # 0)
         /\ [tab[t] EXCEPT !.phase = "idle", !.id = 0] \in CmcTab \cup EditTab
         /\ [tab[t] EXCEPT !.phase = "idle", !.id = 0].phase # "saving"
<1>1. tab[t] \in CmcTab \cup EditTab
  BY TabKinds DEF Saving, Closed
<1>2. 0 \in 0..MaxCalls
  BY EmptyTable
<1>3. CASE tab[t] \in CmcTab
  BY <1>1, <1>2, <1>3 DEF CmcTab, AuditedOrNot
<1>4. CASE tab[t] \in EditTab
  BY <1>1, <1>2, <1>4 DEF EditTab, AuditedOrNot
<1>5. QED
  BY <1>1, <1>3, <1>4

LEMMA LeaveStep == ASSUME IInv, NEW t \in Tabs, Leave(t) PROVE IInv'
<1>1. Become(t, Closed) /\ Closed.page = "none" /\ UNCHANGED <<waf, wire>>
  BY DEF Leave, Closed
<1>2. CASE Saving(t)
  <2>1. PICK audited \in AuditedOrNot(t) : Told(t, "gone", audited)
    BY <1>2 DEF Leave
  <2>2. audited \in BOOLEAN /\ (audited => log[tab[t].id].at # 0)
    BY <1>2, Waited
  <2>3. QED
    BY <1>1, <1>2, <2>1, <2>2, EndStep
<1>3. CASE ~Saving(t)
  <2>1. UNCHANGED <<waf, wire, log>>
    BY <1>1, <1>3 DEF Leave
  <2>2. QED
    BY <1>1, <2>1, TabStep
<1>4. QED
  BY <1>2, <1>3

LEMMA AnswerErrorStep == ASSUME IInv, NEW t \in Tabs, AnswerError(t) PROVE IInv'
<1> DEFINE new == [tab[t] EXCEPT !.phase = "idle", !.id = 0]
<1>1. Saving(t) /\ Become(t, new) /\ UNCHANGED <<waf, wire>>
  BY DEF AnswerError
<1>2. PICK audited \in AuditedOrNot(t) : Told(t, "error", audited)
  BY DEF AnswerError
<1>3. /\ audited \in BOOLEAN /\ (audited => log[tab[t].id].at # 0)
      /\ new \in CmcTab \cup EditTab /\ new.phase # "saving"
  BY <1>1, <1>2, Waited
<1> HIDE DEF new
<1>4. QED
  BY <1>1, <1>2, <1>3, EndStep

LEMMA AnswerOkStep == ASSUME IInv, NEW t \in Tabs, AnswerOk(t) PROVE IInv'
<1>1. /\ Saving(t) /\ log[tab[t].id].at # 0 /\ Told(t, "success", TRUE)
      /\ AfterSuccess(t) /\ UNCHANGED <<waf, wire>>
  BY DEF AnswerOk
<1>2. CASE tab[t].page = "cmc"
  <2> DEFINE new == [tab[t] EXCEPT !.phase = "loading", !.id = 0, !.all = NoRows]
  <2>1. NoRows \in Settings /\ 0 \in 0..MaxCalls
    BY EmptyTable
  <2>2. tab[t] \in CmcTab
    BY <1>2, TabKinds
  <2>3. new \in CmcTab /\ new.phase # "saving"
    BY <2>1, <2>2 DEF CmcTab
  <2>4. Become(t, new)
    BY <1>1, <1>2 DEF AfterSuccess
  <2> HIDE DEF new
  <2>5. QED
    BY <1>1, <2>3, <2>4, EndStep
<1>3. CASE tab[t].page # "cmc"
  <2> DEFINE new == [tab[t] EXCEPT !.phase = "idle", !.id = 0]
  <2>1. Become(t, new)
    BY <1>1, <1>3 DEF AfterSuccess
  <2>2. new \in CmcTab \cup EditTab /\ new.phase # "saving"
    BY <1>1, Waited
  <2> HIDE DEF new
  <2>3. QED
    BY <1>1, <2>1, <2>2, EndStep
<1>4. QED
  BY <1>2, <1>3

-----------------------------------------------------------------------------
(***************************************************************************)
(* The theorems.                                                           *)
(***************************************************************************)

LEMMA InitInv == Init => IInv
<1> SUFFICES ASSUME Init PROVE IInv
  OBVIOUS
<1>1. /\ waf \in [cmc : [Modules -> BOOLEAN], list : {Installed}]
      /\ tab = [t \in Tabs |-> Closed] /\ wire = {} /\ log = <<>>
  BY DEF Init
<1>2. TypeOK
  BY <1>1, RuleConstants DEF TypeOK
<1>3. SavingInv /\ WireInv /\ SuccessMeansApplied /\ SavesInOrder /\ PlacesInv
  BY <1>1 DEF SavingInv, Saving, Closed, WireInv, SuccessMeansApplied, SavesInOrder, PlacesInv
<1>4. ListsWellFormed
  BY <1>1, RuleConstants DEF ListsWellFormed
<1>5. QED
  BY <1>2, <1>3, <1>4 DEF IInv

LEMMA NextInv == IInv /\ [Next]_vars => IInv'
<1> SUFFICES ASSUME IInv, [Next]_vars PROVE IInv'
  OBVIOUS
<1>1. ASSUME NEW t \in Tabs, CmcTable(t) \/ Editor(t) \/ Leave(t) \/ AnswerOk(t) \/ AnswerError(t)
      PROVE  IInv'
  BY <1>1, CmcTableStep, EditorStep, LeaveStep, AnswerOkStep, AnswerErrorStep
<1>2. ASSUME NEW msg \in wire, WafApplies(msg) \/ WafRefuses(msg) PROVE IInv'
  BY <1>2, ApplyStep, RefuseStep
<1>3. CASE UNCHANGED vars
  BY <1>3 DEF vars, IInv, TypeOK, SavingInv, Saving, WireInv, FromForm, PlacesInv, AppliedSoFar,
              ListsWellFormed, SuccessMeansApplied, SavesInOrder
<1>4. QED
  BY <1>1, <1>2, <1>3 DEF Next

LEMMA Inductive == Spec => []IInv
  BY InitInv, NextInv, PTL DEF Spec

\* The firewall's rules, the tabs, the messages and the log keep their types.
THEOREM TypeCorrect == Spec => []TypeOK
<1>1. IInv => TypeOK
  BY DEF IInv
<1>2. QED
  BY <1>1, Inductive, PTL

\* No list of the firewall ever holds a text its own codec would refuse, whatever
\* any number of editors send and however late it arrives.
THEOREM WellFormed == Spec => []ListsWellFormed
<1>1. IInv => ListsWellFormed
  BY DEF IInv
<1>2. QED
  BY <1>1, Inductive, PTL

\* "Updated successfully", and an audit entry, mean that the change was applied.
THEOREM Reported == Spec => []SuccessMeansApplied
<1>1. IInv => SuccessMeansApplied
  BY DEF IInv
<1>2. QED
  BY <1>1, Inductive, PTL

\* A confirmed save was applied before every later save of its tab.
THEOREM InOrder == Spec => []SavesInOrder
<1>1. IInv => SavesInOrder
  BY DEF IInv
<1>2. QED
  BY <1>1, Inductive, PTL

\* What a step may do to a module, from the body of the save it applies.
LEMMA RevertStep ==
  ASSUME IInv, [Next]_vars
  PROVE  [\A m \in Modules : waf'.cmc[m] # waf.cmc[m] =>
            \E msg \in wire \ wire' :
               m \in msg.ticked \/ (m \in DOMAIN msg.base /\ msg.base[m] # waf.cmc[m])]_vars
<1>1. ASSUME NEW t \in Tabs, CmcTable(t) \/ Editor(t) \/ Leave(t) \/ AnswerOk(t) \/ AnswerError(t)
      PROVE  waf' = waf
  BY <1>1 DEF CmcTable, Editor, CmcPage, ApiCmcList, ApplyFilter, SubmitAll, UpdateCmc, RegexEditPage,
              UpdateRule, Send, Leave, AnswerOk, AnswerError
<1>2. ASSUME NEW msg \in wire, WafRefuses(msg) PROVE waf' = waf
  BY <1>2 DEF WafRefuses
<1>3. ASSUME NEW msg \in wire, WafApplies(msg), NEW m \in Modules, waf'.cmc[m] # waf.cmc[m]
      PROVE  /\ msg \in wire \ wire'
             /\ m \in msg.ticked \/ (m \in DOMAIN msg.base /\ msg.base[m] # waf.cmc[m])
  <2>0. waf \in [cmc : [Modules -> BOOLEAN], list : [Lists -> Contents]]
    BY DEF IInv, TypeOK
  <2>1. msg.path = "cmc"
    BY <2>0, <1>3 DEF WafApplies
  <2>2. waf'.cmc = Patch(msg.body)
    BY <2>0, <2>1, <1>3 DEF WafApplies
  <2>3. FromForm(msg)
    BY <2>1 DEF IInv, WireInv
  <2>4. m \in DOMAIN msg.body /\ waf'.cmc[m] = msg.body[m]
    BY <2>2, <1>3 DEF Patch
  <2>5. QED
    BY <2>3, <2>4, <1>3 DEF FromForm, WafApplies
<1>4. QED
  BY <1>1, <1>2, <1>3 DEF Next, vars

\* A step changes a module only if the operator of the save it applies switched
\* that module, or the module has changed since that operator's table was loaded.
THEOREM Reverts == Spec => NoSilentRevert
  BY Inductive, RevertStep, PTL DEF Spec, NoSilentRevert

=============================================================================
