--------------------------- MODULE Accounts_proofs ---------------------------
(***************************************************************************)
(* Proofs about Accounts: the operators table keeps its invariants for any *)
(* number of names, addresses, passwords, roles, accounts and requests     *)
(* that read, hash and write at their own pace.                            *)
(***************************************************************************)
EXTENDS Accounts, TLAPS

\* What a request that is about to write relies on, after its reads are stale:
\* its form is complete, the row it names existed once, and a verified password
\* still counts as one of that very account.
RequestOK(q) ==
    /\ q.pc \in {"boot", "first_create", "insert"} => q.form \in Form /\ q.form.pwd \in Passwords
    /\ q.pc \in {"boot", "first_create"} => q.form.role = "admin"
    /\ q.pc \in {"guarded", "insert"} => nextId > 1
    /\ q.pc = "delete" => q.target \in Ids /\ q.target # q.actor
    /\ q.pc = "update" => /\ q.form \in Form
                          /\ q.target = q.actor => q.form.role = "admin"
    /\ q.pc = "password" => q.form.pwd \in Passwords
    /\ q.pc = "rehash" => /\ q.target \in Ids /\ q.target < nextId
                          /\ q.read \in chosen[q.target]
                          /\ q.read \notin retired[q.target]
RequestsOK == \A r \in Requests : RequestOK(req[r])

\* Between count and create a first_time request holds the lock, and until it
\* creates its row none of that origin exists.
LockOK ==
    \A r \in Requests :
        /\ req[r].pc \in {"first_time", "first_create"} => lock = r
        /\ req[r].pc = "first_create" => \A i \in Rows : origin[i] = "other"

\* Ids that AUTOINCREMENT has not handed out yet.
Fresh == \A i \in Ids : i >= nextId => table[i] = NoRow /\ retired[i] = {}

IInv ==
    /\ TypeOK
    /\ Fresh
    /\ RequestsOK
    /\ LockOK
    /\ UniqueIdentity
    /\ FirstTimeOnce
    /\ AdminRemains
    /\ PasswordBelongs
    /\ RetiredStaysRetired

-----------------------------------------------------------------------------
LEMMA IdleFacts == Idle \in Request /\ RequestOK(Idle) /\ Idle.pc = "idle"
  BY AccountsConstants DEF Idle, Request, NoForm, Pcs, RequestOK

\* A stored row is an account; the empty place is none.
LEMMA RowFacts ==
    ASSUME table \in [Ids -> Account \cup {NoRow}]
    PROVE  /\ NoRow \notin Account
           /\ \A i \in Ids : i \in Rows <=> table[i] \in Account
<1>1. NoRow \notin Account
  BY AccountsConstants DEF NoRow, Account
<1>2. QED
  BY <1>1 DEF Rows

\* The forms a slot may hold, the empty one included.
AnyForm == [name : Names, email : Emails \cup {None}, role : Roles, pwd : Passwords \cup {NoPassword}]

LEMMA RequestType ==
    ASSUME TypeOK, NEW r \in Requests
    PROVE  /\ req[r] \in Request
           /\ req[r].pc \in Pcs /\ req[r].actor \in 0..MaxId /\ req[r].target \in 0..MaxId
           /\ req[r].read \in Passwords \cup {NoPassword}
           /\ req[r].form \in AnyForm
  BY DEF TypeOK, Request, AnyForm

LEMMA FormFacts == NoForm \in AnyForm /\ Form \subseteq AnyForm
  BY AccountsConstants DEF NoForm, Form, AnyForm

LEMMA RequestShape ==
    Request = [pc : Pcs, actor : 0..MaxId, target : 0..MaxId, form : AnyForm,
               read : Passwords \cup {NoPassword}]
  BY DEF Request, AnyForm

LEMMA IdsFacts == 0 \in 0..MaxId /\ Ids \subseteq 0..MaxId
  BY AccountsConstants DEF Ids

LEMMA InitIInv == Init => IInv
<1> SUFFICES ASSUME Init PROVE IInv
  OBVIOUS
<1>1. PICK a \in {NoRow} \cup {b \in Account : b.role = "admin"} :
        table = [i \in Ids |-> IF i = 1 THEN a ELSE NoRow]
  BY DEF Init
<1>2. 1 \in Ids /\ table[1] = a /\ \A i \in Ids \ {1} : table[i] = NoRow
  BY <1>1, AccountsConstants DEF Ids
<1>3. table \in [Ids -> Account \cup {NoRow}]
  BY <1>1
<1>4. \A i \in Rows : i = 1 /\ table[i] \in Account /\ table[i].role = "admin"
  BY <1>2 DEF Rows
<1>5. nextId = (IF a = NoRow THEN 1 ELSE 2)
  BY <1>2 DEF Init
<1>6. \A i \in Ids : chosen[i] = IF table[i] = NoRow THEN {} ELSE {table[i].pwd}
  BY DEF Init
<1>7. TypeOK
  <2>1. nextId \in 1..(MaxId + 1)
    BY <1>5, AccountsConstants
  <2>2. chosen \in [Ids -> SUBSET Passwords]
    <3>1. \A i \in Ids : table[i] # NoRow => table[i].pwd \in Passwords
      BY <1>3 DEF Account
    <3>2. QED
      BY <3>1 DEF Init
  <2>3. QED
    BY <1>3, <2>1, <2>2, IdleFacts DEF Init, TypeOK
<1>8. Fresh
  BY <1>2, <1>5, AccountsConstants DEF Fresh, Init, Ids
<1>9. RequestsOK /\ LockOK
  BY IdleFacts DEF Init, RequestsOK, LockOK
<1>10. UniqueIdentity /\ FirstTimeOnce
  BY <1>4 DEF UniqueIdentity, FirstTimeOnce
<1>11. AdminRemains
  BY <1>2, <1>5 DEF AdminRemains, AdminExists, IsAdmin, Rows
<1>12. PasswordBelongs /\ RetiredStaysRetired
  BY <1>6 DEF PasswordBelongs, RetiredStaysRetired, Rows, Init
<1>13. QED
  BY <1>7, <1>8, <1>9, <1>10, <1>11, <1>12 DEF IInv

-----------------------------------------------------------------------------
\* Steps that leave the table and the histories alone.
LEMMA QuietStep ==
    ASSUME IInv, NEW r \in Requests, NEW q \in Request, RequestOK(q),
           Become(r, q), UNCHANGED <<table, nextId, history>>,
           lock' \in Requests \cup {None},
           q.pc \in {"first_time", "first_create"} => lock' = r,
           lock' # lock => lock \in {r, None},
           q.pc = "first_create" => \A i \in Rows : origin[i] = "other"
    PROVE  IInv'
<1> USE DEF IInv
<1>1. UNCHANGED <<table, nextId, origin, chosen, retired, orphaned>>
  BY DEF history
<1>2. \A s \in Requests : req'[s] = IF s = r THEN q ELSE req[s]
  BY DEF Become, TypeOK
<1>3. TypeOK'
  <2>1. req' \in [Requests -> Request]
    BY DEF Become, TypeOK
  <2>2. QED
    BY <1>1, <2>1 DEF TypeOK
<1>4. RequestsOK'
  <2>1. \A s \in Requests : RequestOK(req'[s])
    BY <1>2 DEF RequestsOK
  <2>2. QED
    BY <1>1, <2>1 DEF RequestsOK, RequestOK
<1>5. Rows' = Rows
  BY <1>1 DEF Rows
<1>6. LockOK'
  BY <1>1, <1>2, <1>5, AccountsConstants DEF LockOK
<1>7. (Fresh /\ UniqueIdentity /\ FirstTimeOnce /\ PasswordBelongs /\ RetiredStaysRetired)'
  BY <1>1, <1>5 DEF Fresh, UniqueIdentity, FirstTimeOnce, PasswordBelongs, RetiredStaysRetired
<1>8. AdminRemains'
  BY <1>1, <1>5 DEF AdminRemains, AdminExists, IsAdmin
<1>9. QED
  BY <1>3, <1>4, <1>6, <1>7, <1>8

\* What ends a request: the slot is free and its lock, if it held it, too.
LEMMA FinishFacts ==
    ASSUME TypeOK, NEW r \in Requests, Finish(r)
    PROVE  /\ req' \in [Requests -> Request]
           /\ \A s \in Requests : req'[s] = IF s = r THEN Idle ELSE req[s]
  BY IdleFacts DEF Finish, Become, TypeOK

\* The requests' side of a step that writes to row i and ends request r: the
\* others still rely on what they relied on.
LEMMA OthersOK ==
    ASSUME IInv, NEW r \in Requests, Finish(r),
           nextId' \in Nat, nextId' >= nextId,
           \A j \in Ids : j < nextId => chosen[j] \subseteq chosen'[j],
           \A s \in Requests : req[s].pc = "rehash" /\ s # r =>
                req[s].read \notin retired'[req[s].target]
    PROVE  RequestsOK'
<1> USE DEF IInv
<1>1. \A s \in Requests : req'[s] = IF s = r THEN Idle ELSE req[s]
  BY FinishFacts
<1>2. nextId \in Nat
  BY AccountsConstants DEF TypeOK
<1>3. SUFFICES ASSUME NEW s \in Requests PROVE RequestOK(req[s])'
  BY DEF RequestsOK
<1>4. CASE s = r
  BY <1>1, <1>4, IdleFacts DEF RequestOK
<1>5. CASE s # r
  <2>1. req'[s] = req[s] /\ RequestOK(req[s])
    BY <1>1, <1>5 DEF RequestsOK
  <2>2. req[s].target \in 0..MaxId
    BY RequestType
  <2>3. QED
    BY <1>2, <1>5, <2>1, <2>2, AccountsConstants DEF RequestOK, Ids
<1>6. QED
  BY <1>4, <1>5

\* Create puts a whole account on an id never used before.
LEMMA CreateStep ==
    ASSUME IInv, NEW r \in Requests, NEW f \in Form, f.pwd \in Passwords,
           NEW by \in {"other", "first_time"}, Create(f, by), Finish(r),
           \/ lock' = IF lock = r THEN None ELSE lock
           \/ lock' = lock /\ req[r].pc # "first_create",
           UNCHANGED orphaned,
           f.role = "admin" \/ nextId > 1,
           by = "first_time" => req[r].pc = "first_create"
    PROVE  IInv'
<1> USE DEF IInv
<1> DEFINE a == [name |-> f.name, email |-> f.email, role |-> f.role, pwd |-> f.pwd, outdated |-> FALSE]
<1>1. a \in Account /\ a.name = f.name /\ a.email = f.email /\ a.role = f.role /\ a.pwd = f.pwd
  BY DEF Form, Account
<1>2. nextId \in Ids /\ nextId \in Nat /\ nextId' = nextId + 1 /\ nextId' \in 1..(MaxId + 1)
  BY AccountsConstants DEF Create, Ids
<1>3. /\ table' = [table EXCEPT ![nextId] = a]
      /\ origin' = [origin EXCEPT ![nextId] = by]
      /\ chosen' = [chosen EXCEPT ![nextId] = {f.pwd}]
      /\ retired' = retired /\ UniqueOK(f, 0)
  BY DEF Create
<1> HIDE DEF a
<1>4. /\ \A i \in Ids : table'[i] = IF i = nextId THEN a ELSE table[i]
      /\ \A i \in Ids : origin'[i] = IF i = nextId THEN by ELSE origin[i]
      /\ \A i \in Ids : chosen'[i] = IF i = nextId THEN {f.pwd} ELSE chosen[i]
  BY <1>2, <1>3 DEF TypeOK
<1>5. Rows' = Rows \cup {nextId} /\ nextId \notin Rows /\ 0 \notin Rows
  BY <1>1, <1>2, <1>4, RowFacts DEF Rows, TypeOK, Fresh, Ids
<1>6. TypeOK'
  <2>1. table' \in [Ids -> Account \cup {NoRow}]
    BY <1>1, <1>3 DEF TypeOK
  <2>2. /\ origin' \in [Ids -> {"other", "first_time"}]
        /\ chosen' \in [Ids -> SUBSET Passwords]
        /\ retired' \in [Ids -> SUBSET Passwords]
    BY <1>3 DEF TypeOK
  <2>3. lock' \in Requests \cup {None} /\ orphaned' \in BOOLEAN
    BY DEF TypeOK
  <2>4. QED
    BY <1>2, <2>1, <2>2, <2>3, FinishFacts DEF TypeOK
<1>7. Fresh'
  BY <1>2, <1>3, <1>4 DEF Fresh, Ids
<1>8. RequestsOK'
  <2>1. \A j \in Ids : j < nextId => chosen[j] \subseteq chosen'[j]
    BY <1>2, <1>4 DEF Ids
  <2>2. \A s \in Requests : req[s].pc = "rehash" /\ s # r => req[s].read \notin retired'[req[s].target]
    BY <1>3 DEF RequestsOK, RequestOK
  <2>3. nextId' \in Nat /\ nextId' >= nextId
    BY <1>2
  <2>4. QED
    BY <2>1, <2>2, <2>3, OthersOK
<1>9. LockOK'
  <2>1. SUFFICES ASSUME NEW s \in Requests
                 PROVE  /\ req'[s].pc \in {"first_time", "first_create"} => lock' = s
                        /\ req'[s].pc = "first_create" => \A i \in Rows' : origin'[i] = "other"
    BY DEF LockOK
  <2>2. CASE s = r
    BY <2>2, FinishFacts, IdleFacts
  <2>3. CASE s # r
    <3>1. req'[s] = req[s]
      BY <2>3, FinishFacts
    <3>2. req[s].pc \in {"first_time", "first_create"} => lock = s /\ lock' = s /\ by = "other"
      BY <2>3 DEF LockOK
    <3>3. QED
      BY <1>4, <1>5, <3>1, <3>2 DEF LockOK, Rows
  <2>4. QED
    BY <2>2, <2>3
<1>10. UniqueIdentity'
  <2>1. \A j \in Rows : table[j].name # a.name /\ table[j].email # a.email
    BY <1>1, <1>3, <1>5 DEF UniqueOK, Taken
  <2>2. \A j \in Rows : table'[j] = table[j]
    BY <1>4, <1>5 DEF Rows
  <2>3. table'[nextId] = a
    BY <1>2, <1>4
  <2>4. QED
    BY <1>5, <2>1, <2>2, <2>3 DEF UniqueIdentity
<1>11. FirstTimeOnce'
  <2>1. \A j \in Rows : origin'[j] = origin[j] /\ (by = "first_time" => origin[j] = "other")
    BY <1>4, <1>5 DEF Rows, LockOK
  <2>2. origin'[nextId] = by
    BY <1>2, <1>4
  <2>3. QED
    BY <1>5, <2>1, <2>2 DEF FirstTimeOnce
<1>12. AdminRemains'
  <2>1. \A i \in Rows : IsAdmin(i) => IsAdmin(i)'
    BY <1>4, <1>5 DEF IsAdmin, Rows
  <2>2. f.role = "admin" => AdminExists'
    <3>1. nextId \in Rows'
      BY <1>5
    <3>2. f.role = "admin" => table'[nextId].role = "admin"
      BY <1>1, <1>2, <1>4
    <3>3. QED
      BY <3>1, <3>2 DEF AdminExists, IsAdmin
  <2>3. AdminExists => AdminExists'
    BY <2>1, <1>5 DEF AdminExists
  <2>4. f.role = "admin" \/ AdminExists \/ orphaned
    BY Zenon DEF AdminRemains
  <2>5. AdminExists' \/ orphaned'
    BY <2>2, <2>3, <2>4, Zenon
  <2>6. QED
    BY <2>5 DEF AdminRemains
<1>13. PasswordBelongs'
  BY <1>1, <1>4, <1>5 DEF PasswordBelongs, Rows
<1>14. RetiredStaysRetired'
  <2>1. retired[nextId] = {}
    BY <1>2 DEF Fresh
  <2>2. QED
    BY <1>3, <1>4, <1>5, <2>1 DEF RetiredStaysRetired, Rows
<1>15. QED
  BY <1>6, <1>7, <1>8, <1>9, <1>10, <1>11, <1>12, <1>13, <1>14

\* A step that rewrites row i in place, keeping its identity unique, with a
\* password chosen for it and not retired.
LEMMA RewriteStep ==
    ASSUME IInv, NEW r \in Requests, NEW i \in Ids, i \in Rows, NEW a \in Account,
           table' = [table EXCEPT ![i] = a], Finish(r),
           UNCHANGED <<nextId, lock, origin>>,
           req[r].pc \notin {"first_time", "first_create"},
           ~Taken(a, i),
           chosen' \in [Ids -> SUBSET Passwords], retired' \in [Ids -> SUBSET Passwords],
           \A j \in Ids : chosen[j] \subseteq chosen'[j],
           \A j \in Ids : j # i => retired'[j] = retired[j],
           a.pwd \in chosen'[i], a.pwd \notin retired'[i],
           \A s \in Requests : req[s].pc = "rehash" /\ s # r => req[s].read \notin retired'[req[s].target],
           orphaned' \in BOOLEAN,
           orphaned => orphaned',
           AdminExists => AdminExists' \/ orphaned'
    PROVE  IInv'
<1> USE DEF IInv
<1>1. \A j \in Ids : table'[j] = IF j = i THEN a ELSE table[j]
  BY DEF TypeOK
<1>2. Rows' = Rows
  BY <1>1, RowFacts DEF Rows, TypeOK
<1>3. nextId \in Nat /\ i < nextId
  BY AccountsConstants DEF TypeOK, Fresh, Rows, Ids
<1>4. TypeOK'
  <2>1. table' \in [Ids -> Account \cup {NoRow}]
    BY DEF TypeOK
  <2>2. QED
    BY <2>1, FinishFacts DEF TypeOK
<1>5. Fresh'
  BY <1>1, <1>3 DEF Fresh, Ids
<1>6. RequestsOK'
  BY <1>3, OthersOK
<1>7. LockOK'
  BY <1>2, FinishFacts, IdleFacts DEF LockOK
<1>8. UniqueIdentity'
  BY <1>1, <1>2 DEF UniqueIdentity, Taken, Rows
<1>9. FirstTimeOnce'
  BY <1>2 DEF FirstTimeOnce
<1>10. AdminRemains'
  <2>1. nextId > 1 => AdminExists' \/ orphaned'
    BY Zenon DEF AdminRemains
  <2>2. QED
    BY <2>1 DEF AdminRemains
<1>11. PasswordBelongs'
  BY <1>1, <1>2 DEF PasswordBelongs, Rows
<1>12. RetiredStaysRetired'
  BY <1>1, <1>2 DEF RetiredStaysRetired, Rows
<1>13. QED
  BY <1>4, <1>5, <1>6, <1>7, <1>8, <1>9, <1>10, <1>11, <1>12

\* The histories after a new password: nothing a pending rehash has read is
\* retired, nor is the new password.
LEMMA ChooseFacts ==
    ASSUME IInv, NEW i \in Ids, i \in Rows, NEW p \in Passwords, Choose(i, p)
    PROVE  /\ chosen' \in [Ids -> SUBSET Passwords]
           /\ retired' \in [Ids -> SUBSET Passwords]
           /\ \A j \in Ids : chosen[j] \subseteq chosen'[j]
           /\ \A j \in Ids : j # i => retired'[j] = retired[j]
           /\ p \in chosen'[i] /\ p \notin retired'[i]
           /\ \A s \in Requests : req[s].pc = "rehash" => req[s].read \notin retired'[req[s].target]
<1> USE DEF IInv
<1> DEFINE pending == \E q \in Requests : req[q].pc = "rehash" /\ req[q].target = i
                                            /\ req[q].read = table[i].pwd
           gone == (IF pending THEN retired[i] ELSE retired[i] \cup {table[i].pwd}) \ {p}
<1>1. chosen' = [chosen EXCEPT ![i] = chosen[i] \cup {p}] /\ retired' = [retired EXCEPT ![i] = gone]
  BY DEF Choose
<1>2. table[i].pwd \in Passwords
  BY RowFacts DEF TypeOK, Account
<1>3. gone \subseteq Passwords /\ p \notin gone
  BY <1>2 DEF TypeOK
<1>4. \A s \in Requests : req[s].pc = "rehash" /\ req[s].target = i => req[s].read \notin gone
  BY DEF RequestsOK, RequestOK
<1> HIDE DEF gone
<1>5. /\ \A j \in Ids : chosen'[j] = IF j = i THEN chosen[i] \cup {p} ELSE chosen[j]
      /\ \A j \in Ids : retired'[j] = IF j = i THEN gone ELSE retired[j]
  BY <1>1 DEF TypeOK
<1>6. chosen' \in [Ids -> SUBSET Passwords] /\ retired' \in [Ids -> SUBSET Passwords]
  BY <1>1, <1>3 DEF TypeOK
<1>7. \A s \in Requests : req[s].pc = "rehash" => req[s].read \notin retired'[req[s].target]
  BY <1>4, <1>5 DEF RequestsOK, RequestOK
<1>8. QED
  BY <1>3, <1>5, <1>6, <1>7

-----------------------------------------------------------------------------
LEMMA BootLookInv ==
    ASSUME IInv, NEW r \in Requests, NEW e \in Emails, NEW p \in Passwords, BootLook(r, e, p)
    PROVE  IInv'
<1> DEFINE f == [name |-> "admin", email |-> e, role |-> "admin", pwd |-> p]
           q == [Idle EXCEPT !.pc = "boot", !.form = f]
<1>1. f \in Form /\ f.pwd \in Passwords /\ f.role = "admin"
  BY AccountsConstants DEF Form
<1>2. Become(r, q) /\ lock' = lock /\ UNCHANGED <<table, nextId, history>>
  BY DEF BootLook
<1> HIDE DEF f
<1>3. q \in Request /\ q.pc = "boot" /\ q.form = f
  BY <1>1, FormFacts, IdsFacts, IdleFacts, RequestShape DEF Pcs, Idle
<1> HIDE DEF q
<1>4. RequestOK(q)
  BY <1>1, <1>3 DEF RequestOK
<1>5. lock' \in Requests \cup {None} /\ lock' = lock
  BY <1>2 DEF IInv, TypeOK
<1>6. QED
  BY <1>2, <1>3, <1>4, <1>5, QuietStep

LEMMA FirstTimeLockInv ==
    ASSUME IInv, NEW r \in Requests, FirstTimeLock(r)
    PROVE  IInv'
<1> DEFINE q == [Idle EXCEPT !.pc = "first_time"]
<1>1. Become(r, q) /\ lock = None /\ lock' = r /\ UNCHANGED <<table, nextId, history>>
  BY DEF FirstTimeLock
<1>2. q \in Request /\ q.pc = "first_time"
  BY AccountsConstants DEF Idle, Request, Pcs, NoForm
<1> HIDE DEF q
<1>3. RequestOK(q)
  BY <1>2 DEF RequestOK
<1>4. QED
  BY <1>1, <1>2, <1>3, QuietStep

LEMMA FirstTimeCountInv ==
    ASSUME IInv, NEW r \in Requests, NEW f \in Form, FirstTimeCount(r, f)
    PROVE  IInv'
<1> DEFINE q == [req[r] EXCEPT !.pc = "first_create", !.form = f]
<1>1. /\ Become(r, q) /\ lock' = lock /\ UNCHANGED <<table, nextId, history>>
      /\ req[r].pc = "first_time" /\ Rows = {} /\ f.role = "admin" /\ f.pwd \in Passwords
  BY DEF FirstTimeCount, Form
<1>2. q \in Request /\ q.pc = "first_create" /\ q.form = f
  BY FormFacts, RequestType, RequestShape DEF IInv, Pcs
<1> HIDE DEF q
<1>3. RequestOK(q)
  BY <1>1, <1>2 DEF RequestOK
<1>4. lock = r /\ lock' = lock
  BY <1>1 DEF IInv, LockOK
<1>5. QED
  BY <1>1, <1>2, <1>3, <1>4, QuietStep

LEMMA FirstTimeRefusedInv ==
    ASSUME IInv, NEW r \in Requests, FirstTimeRefused(r)
    PROVE  IInv'
<1>1. Become(r, Idle) /\ lock' = None /\ lock = r /\ UNCHANGED <<table, nextId, history>>
  BY DEF FirstTimeRefused, Finish, IInv, LockOK
<1>2. QED
  BY <1>1, IdleFacts, QuietStep

LEMMA AbortInv ==
    ASSUME IInv, NEW r \in Requests, Abort(r)
    PROVE  IInv'
<1>1. Become(r, Idle) /\ lock' = (IF lock = r THEN None ELSE lock) /\ UNCHANGED <<table, nextId, history>>
  BY DEF Abort, Finish
<1>2. lock' \in Requests \cup {None}
  BY <1>1 DEF IInv, TypeOK
<1>3. QED
  BY <1>1, <1>2, IdleFacts, QuietStep

LEMMA GuardInv ==
    ASSUME IInv, NEW r \in Requests, NEW a \in Ids, Guard(r, a)
    PROVE  IInv'
<1> DEFINE q == [Idle EXCEPT !.pc = "guarded", !.actor = a]
<1>1. Become(r, q) /\ lock' = lock /\ UNCHANGED <<table, nextId, history>> /\ a \in Rows
  BY DEF Guard, IsAdmin
<1>2. q \in Request /\ q.pc = "guarded"
  BY FormFacts, IdsFacts, IdleFacts, RequestShape DEF Pcs, Idle
<1> HIDE DEF q
<1>3. nextId > 1
  BY <1>1, AccountsConstants DEF IInv, TypeOK, Fresh, Rows, Ids
<1>4. RequestOK(q)
  BY <1>2, <1>3 DEF RequestOK
<1>5. lock' \in Requests \cup {None} /\ lock' = lock
  BY <1>1 DEF IInv, TypeOK
<1>6. QED
  BY <1>1, <1>2, <1>4, <1>5, QuietStep

LEMMA InsertPrepareInv ==
    ASSUME IInv, NEW r \in Requests, NEW f \in Form, InsertPrepare(r, f)
    PROVE  IInv'
<1> DEFINE q == [Idle EXCEPT !.pc = "insert", !.form = f]
<1>1. /\ Become(r, q) /\ lock' = lock /\ UNCHANGED <<table, nextId, history>>
      /\ req[r].pc = "guarded" /\ f.pwd \in Passwords
  BY DEF InsertPrepare, Prepare, Admitted, Form
<1>2. q \in Request /\ q.pc = "insert" /\ q.form = f
  BY FormFacts, IdsFacts, IdleFacts, RequestShape DEF Pcs, Idle
<1> HIDE DEF q
<1>3. nextId > 1
  BY <1>1 DEF IInv, RequestsOK, RequestOK
<1>4. RequestOK(q)
  BY <1>1, <1>2, <1>3 DEF RequestOK
<1>5. lock' \in Requests \cup {None} /\ lock' = lock
  BY <1>1 DEF IInv, TypeOK
<1>6. QED
  BY <1>1, <1>2, <1>4, <1>5, QuietStep

LEMMA DeletePrepareInv ==
    ASSUME IInv, NEW r \in Requests, NEW i \in Ids, DeletePrepare(r, i)
    PROVE  IInv'
<1> DEFINE q == [req[r] EXCEPT !.pc = "delete", !.target = i]
<1>1. Become(r, q) /\ lock' = lock /\ UNCHANGED <<table, nextId, history>> /\ i # req[r].actor
  BY DEF DeletePrepare, Prepare
<1>2. q \in Request /\ q.pc = "delete" /\ q.target = i /\ q.actor = req[r].actor
  BY IdsFacts, RequestType, RequestShape DEF IInv, Pcs
<1> HIDE DEF q
<1>3. RequestOK(q)
  BY <1>1, <1>2 DEF RequestOK
<1>4. lock' \in Requests \cup {None} /\ lock' = lock
  BY <1>1 DEF IInv, TypeOK
<1>5. QED
  BY <1>1, <1>2, <1>3, <1>4, QuietStep

LEMMA UpdatePrepareInv ==
    ASSUME IInv, NEW r \in Requests, NEW i \in Ids, NEW f \in Form, UpdatePrepare(r, i, f)
    PROVE  IInv'
<1> DEFINE p == IF f.pwd = NoPassword THEN table[i].pwd ELSE NoPassword
           q == [req[r] EXCEPT !.pc = "update", !.target = i, !.form = f, !.read = p]
<1>1. /\ Become(r, q) /\ lock' = lock /\ UNCHANGED <<table, nextId, history>>
      /\ i \in Rows /\ (i = req[r].actor => f.role = "admin")
  BY DEF UpdatePrepare, Prepare
<1>2. p \in Passwords \cup {NoPassword}
  BY <1>1, RowFacts DEF IInv, TypeOK, Account
<1> HIDE DEF p
<1>3. q \in Request /\ q.pc = "update" /\ q.target = i /\ q.actor = req[r].actor /\ q.form = f
  BY <1>2, FormFacts, IdsFacts, RequestType, RequestShape DEF IInv, Pcs
<1> HIDE DEF q
<1>4. RequestOK(q)
  BY <1>1, <1>3 DEF RequestOK
<1>5. lock' \in Requests \cup {None} /\ lock' = lock
  BY <1>1 DEF IInv, TypeOK
<1>6. QED
  BY <1>1, <1>3, <1>4, <1>5, QuietStep

LEMMA PasswordPrepareInv ==
    ASSUME IInv, NEW r \in Requests, NEW i \in Ids, NEW p \in Passwords, PasswordPrepare(r, i, p)
    PROVE  IInv'
<1> DEFINE f == [NoForm EXCEPT !.pwd = p]
           q == [Idle EXCEPT !.pc = "password", !.target = i, !.form = f]
<1>1. Become(r, q) /\ lock' = lock /\ UNCHANGED <<table, nextId, history>>
  BY DEF PasswordPrepare
<1>2. f \in AnyForm /\ f.pwd = p
  BY AccountsConstants DEF NoForm, AnyForm
<1> HIDE DEF f
<1>3. q \in Request /\ q.pc = "password" /\ q.form = f
  BY <1>2, IdsFacts, IdleFacts, RequestShape DEF Pcs, Idle
<1> HIDE DEF q
<1>4. RequestOK(q)
  BY <1>2, <1>3 DEF RequestOK
<1>5. lock' \in Requests \cup {None} /\ lock' = lock
  BY <1>1 DEF IInv, TypeOK
<1>6. QED
  BY <1>1, <1>3, <1>4, <1>5, QuietStep

LEMMA LoginVerifyInv ==
    ASSUME IInv, NEW r \in Requests, NEW i \in Ids, LoginVerify(r, i)
    PROVE  IInv'
<1> DEFINE q == [Idle EXCEPT !.pc = "rehash", !.target = i, !.read = table[i].pwd]
<1>1. Become(r, q) /\ lock' = lock /\ UNCHANGED <<table, nextId, history>> /\ i \in Rows
  BY DEF LoginVerify
<1>2. table[i].pwd \in Passwords
  BY <1>1, RowFacts DEF IInv, TypeOK, Account
<1>3. q \in Request /\ q.pc = "rehash" /\ q.target = i /\ q.read = table[i].pwd
  BY <1>2, FormFacts, IdsFacts, IdleFacts, RequestShape DEF Pcs, Idle
<1> HIDE DEF q
<1>4. i < nextId
  BY <1>1, AccountsConstants DEF IInv, TypeOK, Fresh, Rows, Ids
<1>5. RequestOK(q)
  BY <1>1, <1>3, <1>4 DEF RequestOK, IInv, PasswordBelongs, RetiredStaysRetired
<1>6. lock' \in Requests \cup {None} /\ lock' = lock
  BY <1>1 DEF IInv, TypeOK
<1>7. QED
  BY <1>1, <1>3, <1>5, <1>6, QuietStep

-----------------------------------------------------------------------------
LEMMA CreationsInv ==
    ASSUME IInv, NEW r \in Requests, BootCreate(r) \/ FirstTimeCreate(r) \/ InsertCommit(r)
    PROVE  IInv'
<1>1. RequestOK(req[r])
  BY DEF IInv, RequestsOK
<1>2. CASE BootCreate(r)
  <2>1. req[r].pc = "boot" /\ Create(req[r].form, "other") /\ Finish(r) /\ lock' = lock /\ orphaned' = orphaned
    BY <1>2 DEF BootCreate
  <2>2. QED
    BY <1>1, <2>1, CreateStep DEF RequestOK
<1>3. CASE FirstTimeCreate(r)
  <2>1. /\ req[r].pc = "first_create" /\ Create(req[r].form, "first_time") /\ Finish(r)
        /\ lock' = (IF lock = r THEN None ELSE lock) /\ orphaned' = orphaned
    BY <1>3 DEF FirstTimeCreate
  <2>2. QED
    BY <1>1, <2>1, CreateStep DEF RequestOK
<1>4. CASE InsertCommit(r)
  <2>1. req[r].pc = "insert" /\ Create(req[r].form, "other") /\ Finish(r) /\ lock' = lock /\ orphaned' = orphaned
    BY <1>4 DEF InsertCommit
  <2>2. QED
    BY <1>1, <2>1, CreateStep DEF RequestOK
<1>5. QED
  BY <1>2, <1>3, <1>4

LEMMA DeleteCommitInv ==
    ASSUME IInv, NEW r \in Requests, DeleteCommit(r)
    PROVE  IInv'
<1> USE DEF IInv
<1> DEFINE i == req[r].target
<1>1. /\ req[r].pc = "delete" /\ table' = [table EXCEPT ![i] = NoRow] /\ Judge(r) /\ Finish(r)
      /\ UNCHANGED <<nextId, lock, origin, chosen, retired>>
  BY DEF DeleteCommit
<1>2. i \in Ids /\ i # req[r].actor
  BY <1>1 DEF RequestsOK, RequestOK
<1> HIDE DEF i
<1>3. \A j \in Ids : table'[j] = IF j = i THEN NoRow ELSE table[j]
  BY <1>1, <1>2 DEF TypeOK
<1>4. Rows' = Rows \ {i}
  BY <1>3 DEF Rows
<1>5. \A j \in Rows' : j \in Ids /\ j \in Rows /\ table'[j] = table[j]
  BY <1>3, <1>4 DEF Rows
<1>6. orphaned' \in BOOLEAN /\ (orphaned' \/ IsAdmin(req[r].actor)) /\ (orphaned => orphaned')
  BY <1>1, Zenon DEF Judge, TypeOK
<1>7. TypeOK'
  <2>1. table' \in [Ids -> Account \cup {NoRow}]
    BY <1>1, <1>2 DEF TypeOK
  <2>2. QED
    BY <1>1, <1>6, <2>1, FinishFacts DEF TypeOK
<1>8. Fresh'
  BY <1>1, <1>3 DEF Fresh
<1>9. RequestsOK'
  <2>1. nextId' \in Nat /\ nextId' >= nextId
    BY <1>1, AccountsConstants DEF TypeOK
  <2>2. \A s \in Requests : req[s].pc = "rehash" /\ s # r => req[s].read \notin retired'[req[s].target]
    BY <1>1 DEF RequestsOK, RequestOK
  <2>3. QED
    BY <1>1, <2>1, <2>2, OthersOK
<1>10. LockOK'
  BY <1>1, <1>5, FinishFacts, IdleFacts DEF LockOK
<1>11. UniqueIdentity'
  BY <1>5 DEF UniqueIdentity
<1>12. FirstTimeOnce'
  BY <1>1, <1>5 DEF FirstTimeOnce
<1>13. AdminRemains'
  <2>1. IsAdmin(req[r].actor) => AdminExists'
    BY <1>2, <1>4, <1>5 DEF IsAdmin, AdminExists
  <2>2. orphaned' \/ AdminExists'
    BY <1>6, <2>1, Zenon
  <2>3. QED
    BY <2>2 DEF AdminRemains
<1>14. PasswordBelongs' /\ RetiredStaysRetired'
  BY <1>1, <1>5 DEF PasswordBelongs, RetiredStaysRetired
<1>15. QED
  BY <1>7, <1>8, <1>9, <1>10, <1>11, <1>12, <1>13, <1>14

LEMMA UpdateCommitInv ==
    ASSUME IInv, NEW r \in Requests, UpdateCommit(r)
    PROVE  IInv'
<1> DEFINE i == req[r].target
           f == req[r].form
           a == [name |-> f.name, email |-> f.email, role |-> f.role, pwd |-> StoredPassword(r),
                 outdated |-> table[i].outdated /\ f.pwd = NoPassword]
<1>1. /\ req[r].pc = "update" /\ i \in Rows /\ UniqueOK(f, i)
      /\ IF f.pwd = NoPassword THEN UNCHANGED <<chosen, retired>> ELSE Choose(i, f.pwd)
      /\ Judge(r) /\ Finish(r) /\ UNCHANGED <<nextId, lock, origin>>
  BY DEF UpdateCommit
<1>2. table' = [table EXCEPT ![i] = a]
  BY DEF UpdateCommit
<1>3. i \in Ids /\ table[i] \in Account
  BY <1>1, RowFacts DEF Rows, IInv, TypeOK
<1>4. f \in Form /\ (i = req[r].actor => f.role = "admin")
  BY <1>1 DEF IInv, RequestsOK, RequestOK
<1>5. StoredPassword(r) = IF f.pwd = NoPassword THEN table[i].pwd ELSE f.pwd
  BY DEF StoredPassword
<1> HIDE DEF i, f
<1>6. a \in Account /\ a.name = f.name /\ a.email = f.email /\ a.role = f.role /\ a.pwd = StoredPassword(r)
  BY <1>3, <1>4, <1>5 DEF Form, Account
<1> HIDE DEF a
<1>7. ~Taken(a, i)
  BY <1>1, <1>6 DEF UniqueOK, Taken
<1>8. /\ chosen' \in [Ids -> SUBSET Passwords] /\ retired' \in [Ids -> SUBSET Passwords]
      /\ \A j \in Ids : chosen[j] \subseteq chosen'[j]
      /\ \A j \in Ids : j # i => retired'[j] = retired[j]
      /\ a.pwd \in chosen'[i] /\ a.pwd \notin retired'[i]
      /\ \A s \in Requests : req[s].pc = "rehash" => req[s].read \notin retired'[req[s].target]
  <2>1. CASE f.pwd = NoPassword
    <3>1. chosen' = chosen /\ retired' = retired /\ a.pwd = table[i].pwd
      BY <1>1, <1>5, <1>6, <2>1
    <3>2. QED
      BY <1>1, <3>1 DEF IInv, TypeOK, PasswordBelongs, RetiredStaysRetired, RequestsOK, RequestOK
  <2>2. CASE f.pwd # NoPassword
    <3>1. f.pwd \in Passwords /\ a.pwd = f.pwd /\ Choose(i, f.pwd)
      BY <1>1, <1>4, <1>5, <1>6, <2>2 DEF Form
    <3>2. QED
      BY <1>1, <1>3, <3>1, ChooseFacts
  <2>3. QED
    BY <2>1, <2>2
<1>9. orphaned' \in BOOLEAN /\ (orphaned' \/ IsAdmin(req[r].actor)) /\ (orphaned => orphaned')
  BY <1>1, Zenon DEF Judge, IInv, TypeOK
<1>10. \A j \in Ids : table'[j] = IF j = i THEN a ELSE table[j]
  BY <1>2, <1>3 DEF IInv, TypeOK
<1>11. IsAdmin(req[r].actor) => AdminExists'
  <2>1. Rows' = Rows
    BY <1>1, <1>6, <1>10, RowFacts DEF Rows, IInv, TypeOK
  <2>2. QED
    BY <1>4, <1>6, <1>10, <2>1 DEF IsAdmin, AdminExists, Rows
<1>12. AdminExists => AdminExists' \/ orphaned'
  BY <1>9, <1>11, Zenon
<1>13. QED
  BY <1>1, <1>2, <1>3, <1>6, <1>7, <1>8, <1>9, <1>12, RewriteStep

\* A password written to a row in place: its identity and its role stay.
LEMMA NewPasswordStep ==
    ASSUME IInv, NEW r \in Requests, NEW i \in Ids, i \in Rows, NEW p \in Passwords,
           table' = [table EXCEPT ![i].pwd = p, ![i].outdated = FALSE],
           Finish(r), UNCHANGED <<nextId, lock, origin, orphaned>>,
           req[r].pc \notin {"first_time", "first_create"},
           chosen' \in [Ids -> SUBSET Passwords], retired' \in [Ids -> SUBSET Passwords],
           \A j \in Ids : chosen[j] \subseteq chosen'[j],
           \A j \in Ids : j # i => retired'[j] = retired[j],
           p \in chosen'[i], p \notin retired'[i],
           \A s \in Requests : req[s].pc = "rehash" => req[s].read \notin retired'[req[s].target]
    PROVE  IInv'
<1> DEFINE a == [table[i] EXCEPT !.pwd = p, !.outdated = FALSE]
<1>1. table \in [Ids -> Account \cup {NoRow}] /\ table[i] \in Account
  BY RowFacts DEF IInv, TypeOK
<1>2. table' = [table EXCEPT ![i] = a]
  BY <1>1
<1>3. a \in Account /\ a.name = table[i].name /\ a.email = table[i].email
      /\ a.role = table[i].role /\ a.pwd = p
  BY <1>1 DEF Account
<1> HIDE DEF a
<1>4. ~Taken(a, i)
  BY <1>3 DEF IInv, UniqueIdentity, Taken
<1>5. AdminExists => AdminExists'
  <2>1. \A j \in Ids : table'[j] = IF j = i THEN a ELSE table[j]
    BY <1>1, <1>2
  <2>2. Rows' = Rows
    <3>1. a # NoRow /\ table[i] # NoRow
      BY <1>1, <1>3, RowFacts
    <3>2. \A j \in Ids : table'[j] # NoRow <=> table[j] # NoRow
      BY <2>1, <3>1, Zenon
    <3>3. QED
      BY <3>2 DEF Rows
  <2>3. \A j \in Rows : table'[j].role = table[j].role
    BY <1>3, <2>1 DEF Rows
  <2>4. QED
    BY <2>2, <2>3 DEF AdminExists, IsAdmin
<1>6. orphaned' \in BOOLEAN /\ (orphaned => orphaned') /\ (AdminExists => AdminExists' \/ orphaned')
  BY <1>5, Zenon DEF IInv, TypeOK
<1>7. \A s \in Requests : req[s].pc = "rehash" /\ s # r => req[s].read \notin retired'[req[s].target]
  OBVIOUS
<1>8. a.pwd \in chosen'[i] /\ a.pwd \notin retired'[i] /\ UNCHANGED <<nextId, lock, origin>>
  BY <1>3
<1>9. QED
  BY <1>2, <1>3, <1>4, <1>6, <1>7, <1>8, RewriteStep

LEMMA PasswordCommitInv ==
    ASSUME IInv, NEW r \in Requests, PasswordCommit(r)
    PROVE  IInv'
<1> DEFINE i == req[r].target
           p == req[r].form.pwd
<1>1. /\ req[r].pc = "password" /\ i \in Rows /\ i \in Ids
      /\ table' = [table EXCEPT ![i].pwd = p, ![i].outdated = FALSE]
      /\ Choose(i, p) /\ Finish(r) /\ UNCHANGED <<nextId, lock, origin, orphaned>>
  BY DEF PasswordCommit, Rows
<1>2. p \in Passwords
  BY <1>1 DEF IInv, RequestsOK, RequestOK
<1> HIDE DEF i, p
<1>3. QED
  BY <1>1, <1>2, ChooseFacts, NewPasswordStep

LEMMA LoginRehashInv ==
    ASSUME IInv, NEW r \in Requests, LoginRehash(r)
    PROVE  IInv'
<1> DEFINE i == req[r].target
           p == req[r].read
<1>1. /\ req[r].pc = "rehash" /\ Finish(r) /\ lock' = lock /\ UNCHANGED <<nextId, history>>
      /\ table' = IF i \in Rows THEN [table EXCEPT ![i].pwd = p, ![i].outdated = FALSE] ELSE table
  BY DEF LoginRehash
<1>2. i \in Ids /\ p \in chosen[i] /\ p \notin retired[i]
  BY <1>1 DEF IInv, RequestsOK, RequestOK
<1>3. p \in Passwords
  BY <1>2 DEF IInv, TypeOK
<1>4. UNCHANGED <<origin, chosen, retired, orphaned>>
  BY <1>1 DEF history
<1>5. \A s \in Requests : req[s].pc = "rehash" => req[s].read \notin retired[req[s].target]
  BY DEF IInv, RequestsOK, RequestOK
<1> HIDE DEF i, p
<1>6. CASE i \in Rows
  <2>1. chosen \in [Ids -> SUBSET Passwords] /\ retired \in [Ids -> SUBSET Passwords]
    BY DEF IInv, TypeOK
  <2>2. QED
    BY <1>1, <1>2, <1>3, <1>4, <1>5, <1>6, <2>1, NewPasswordStep
<1>7. CASE i \notin Rows
  <2>1. Become(r, Idle) /\ table' = table /\ lock' \in Requests \cup {None}
    BY <1>1, <1>7 DEF Finish, IInv, TypeOK
  <2>2. QED
    BY <1>1, <2>1, IdleFacts, QuietStep
<1>8. QED
  BY <1>6, <1>7

-----------------------------------------------------------------------------
LEMMA NextIInv == IInv /\ [Next]_vars => IInv'
<1> SUFFICES ASSUME IInv, [Next]_vars PROVE IInv'
  OBVIOUS
<1>1. CASE UNCHANGED vars
  <2>1. UNCHANGED <<table, nextId, req, lock, origin, chosen, retired, orphaned>>
    BY <1>1 DEF vars, history
  <2>2. QED
    BY <2>1 DEF IInv, TypeOK, Fresh, RequestsOK, RequestOK, LockOK, UniqueIdentity, FirstTimeOnce,
                AdminRemains, AdminExists, IsAdmin, PasswordBelongs, RetiredStaysRetired, Rows
<1>2. CASE Next
  <2>1. PICK r \in Requests :
          \/ \E e \in Emails, p \in Passwords : BootLook(r, e, p)
          \/ BootCreate(r)
          \/ FirstTimeLock(r) \/ FirstTimeRefused(r) \/ FirstTimeCreate(r)
          \/ \E f \in Form : FirstTimeCount(r, f) \/ InsertPrepare(r, f)
          \/ \E i \in Ids : Guard(r, i) \/ DeletePrepare(r, i) \/ LoginVerify(r, i)
          \/ \E i \in Ids, f \in Form : UpdatePrepare(r, i, f)
          \/ \E i \in Ids, p \in Passwords : PasswordPrepare(r, i, p)
          \/ InsertCommit(r) \/ DeleteCommit(r) \/ UpdateCommit(r) \/ PasswordCommit(r)
          \/ LoginRehash(r)
          \/ Abort(r)
    BY <1>2 DEF Next
  <2>2. QED
    BY <2>1, BootLookInv, CreationsInv, FirstTimeLockInv, FirstTimeRefusedInv, FirstTimeCountInv,
       InsertPrepareInv, GuardInv, DeletePrepareInv, LoginVerifyInv, UpdatePrepareInv,
       PasswordPrepareInv, DeleteCommitInv, UpdateCommitInv, PasswordCommitInv, LoginRehashInv,
       AbortInv
<1>3. QED
  BY <1>1, <1>2

\* The inductive invariant of the operators table and of all that is about to
\* write to it.
THEOREM Inductive == Spec => []IInv
<1>1. QED
  BY InitIInv, NextIInv, PTL DEF Spec

\* Every row, request and history stays in its type: no write, however stale
\* its reads, stores half an account.
THEOREM TypeCorrect == Spec => []TypeOK
<1>1. IInv => TypeOK
  BY DEF IInv
<1>2. QED
  BY <1>1, Inductive, PTL

\* No two accounts ever share a name or an address, however many forms,
\* bootstraps and first_time requests passed the same stale lookups.
THEOREM IdentityUnique == Spec => []UniqueIdentity
<1>1. IInv => UniqueIdentity
  BY DEF IInv
<1>2. QED
  BY <1>1, Inductive, PTL

\* first_time leaves at most one administrator behind, for any number of
\* requests that race for it, any crash and any abort between count and create.
THEOREM FirstTimeIsOneShot == Spec => []FirstTimeOnce
<1>1. IInv => FirstTimeOnce
  BY DEF IInv
<1>2. QED
  BY <1>1, Inductive, PTL

\* Once there was an account, an administrator remains unless somebody who had
\* stopped being one committed a change.
THEOREM AdministratorRemains == Spec => []AdminRemains
<1>1. IInv => AdminRemains
  BY DEF IInv
<1>2. QED
  BY <1>1, Inductive, PTL

\* No rehash that was under way while its account was deleted ever lands on
\* another account.
THEOREM PasswordOfItsAccount == Spec => []PasswordBelongs
<1>1. IInv => PasswordBelongs
  BY DEF IInv
<1>2. QED
  BY <1>1, Inductive, PTL

\* A password that was replaced while no sign-in was about to store it again
\* never opens the account afterwards.
THEOREM RetiredForGood == Spec => []RetiredStaysRetired
<1>1. IInv => RetiredStaysRetired
  BY DEF IInv
<1>2. QED
  BY <1>1, Inductive, PTL

=============================================================================
