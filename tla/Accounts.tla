------------------------------ MODULE Accounts ------------------------------
(***************************************************************************)
(* The contents of the operators table: who has an account, under which    *)
(* name, address and role, and which password opens it.  It is written by  *)
(* the bootstrap at start-up (app.rs), the one-shot first_time endpoint    *)
(* (controllers/setup.rs), the administrator's forms and the operator's    *)
(* own password change (controllers/acl.rs), and by every sign-in whose    *)
(* hash is out of date (controllers/auth.rs).                              *)
(*                                                                         *)
(* Each of them reads, hashes a password for about a second, and writes:   *)
(* the reads are stale by then.  A request slot also stands for a process  *)
(* that is starting: source_update launches the replacement, which         *)
(* bootstraps before it binds, while the old process drains.  A crash ends *)
(* every request; the only memory they share is first_time_lock.           *)
(*                                                                         *)
(* Session checks are SessionAuthority.tla; here a request has passed the  *)
(* route guard.  A form that validate_operator refuses changes nothing and *)
(* does not appear.  Sealing and hashing are abstracted to the password    *)
(* the record opens for and whether its parameters are out of date.        *)
(***************************************************************************)
EXTENDS Naturals

CONSTANTS Names,       \* usernames; "admin" is the bootstrap's
          Emails,
          Passwords,
          NoPassword,  \* the field left empty in update_user's form
          Roles,       \* OperatorRole
          Requests,    \* request slots that may be in flight together
          None,
          MaxId        \* bound: rows ever created

ASSUME AccountsConstants ==
    /\ "admin" \in Names /\ "admin" \in Roles
    /\ NoPassword \notin Passwords
    /\ None \notin Requests
    /\ MaxId \in Nat \ {0}

VARIABLES table,       \* the operators table
          nextId,      \* its AUTOINCREMENT counter
          req,         \* the requests in flight
          lock,        \* first_time_lock
          origin,      \* history: the rows that first_time created
          chosen,      \* history: the passwords chosen for each row
          retired,     \* history: those replaced for good
          orphaned     \* history: an ex-administrator's change was committed

history == <<origin, chosen, retired, orphaned>>
vars == <<table, nextId, req, lock, history>>

-----------------------------------------------------------------------------
Ids == 1..MaxId

\* An operators row; outdated: crypto_pwhash_str_needs_rehash would say yes.
Account == [name : Names, email : Emails, role : Roles, pwd : Passwords, outdated : BOOLEAN]
NoRow == [name |-> "admin", email |-> None, role |-> "admin", pwd |-> NoPassword, outdated |-> FALSE]

\* What a form carries: NewOperator, UpdateOperator.
Form == [name : Names, email : Emails, role : Roles, pwd : Passwords \cup {NoPassword}]
NoForm == [name |-> "admin", email |-> None, role |-> "admin", pwd |-> NoPassword]

\* read: the password of the record that the request read and works with.
Pcs == {"idle", "guarded", "insert", "update", "delete", "password", "rehash",
        "boot", "first_time", "first_create"}
Request == [pc : Pcs, actor : 0..MaxId, target : 0..MaxId,
            form : [name : Names, email : Emails \cup {None}, role : Roles,
                    pwd : Passwords \cup {NoPassword}],
            read : Passwords \cup {NoPassword}]
Idle == [pc |-> "idle", actor |-> 0, target |-> 0, form |-> NoForm, read |-> NoPassword]

TypeOK ==
    /\ table \in [Ids -> Account \cup {NoRow}]
    /\ nextId \in 1..(MaxId + 1)
    /\ req \in [Requests -> Request]
    /\ lock \in Requests \cup {None}
    /\ origin \in [Ids -> {"other", "first_time"}]
    /\ chosen \in [Ids -> SUBSET Passwords]
    /\ retired \in [Ids -> SUBSET Passwords]
    /\ orphaned \in BOOLEAN

Rows == {i \in Ids : table[i] # NoRow}
IsAdmin(i) == i \in Rows /\ table[i].role = "admin"
AdminExists == \E i \in Rows : IsAdmin(i)

\* An empty database, or one administrator from an earlier release.
Init ==
    /\ table \in {[i \in Ids |-> IF i = 1 THEN a ELSE NoRow] :
                    a \in {NoRow} \cup {b \in Account : b.role = "admin"}}
    /\ nextId = IF table[1] = NoRow THEN 1 ELSE 2
    /\ req = [r \in Requests |-> Idle]
    /\ lock = None
    /\ origin = [i \in Ids |-> "other"]
    /\ chosen = [i \in Ids |-> IF table[i] = NoRow THEN {} ELSE {table[i].pwd}]
    /\ retired = [i \in Ids |-> {}]
    /\ orphaned = FALSE

-----------------------------------------------------------------------------
Become(r, q) == req' = [req EXCEPT ![r] = q]
Finish(r) == Become(r, Idle)

\* The lookups by email and by username, other than of row i itself.
Taken(f, i) == \E j \in Rows \ {i} : table[j].name = f.name \/ table[j].email = f.email

\* Mutant: the columns are declared without UNIQUE.
NotDeclared(f, i) == TRUE

\* username and email are UNIQUE in the operators table.
UniqueOK(f, i) == ~Taken(f, i)

\* Mutant: a plain INTEGER PRIMARY KEY, which fills the gaps.
FirstGap(f, by) ==
    \E i \in Ids \ Rows :
        /\ \A j \in Ids \ Rows : i <= j
        /\ UniqueOK(f, 0)
        /\ table' = [table EXCEPT ![i] = [name |-> f.name, email |-> f.email, role |-> f.role,
                                          pwd |-> f.pwd, outdated |-> FALSE]]
        /\ nextId' = IF i = nextId THEN i + 1 ELSE nextId
        /\ origin' = [origin EXCEPT ![i] = by]
        /\ chosen' = [chosen EXCEPT ![i] = {f.pwd}]
        /\ UNCHANGED retired

\* OperatorRepository::create.  The row and its record become visible together,
\* at the commit.
Create(f, by) ==
    /\ nextId \in Ids
    /\ UniqueOK(f, 0)
    /\ table' = [table EXCEPT ![nextId] = [name |-> f.name, email |-> f.email, role |-> f.role,
                                           pwd |-> f.pwd, outdated |-> FALSE]]
    /\ nextId' = nextId + 1
    /\ origin' = [origin EXCEPT ![nextId] = by]
    /\ chosen' = [chosen EXCEPT ![nextId] = {f.pwd}]
    /\ UNCHANGED retired

\* History of a new password p for row i: the old one is replaced for good
\* unless a sign-in that has verified it is still to store its rehash.
Choose(i, p) ==
    /\ chosen' = [chosen EXCEPT ![i] = @ \cup {p}]
    /\ retired' = [retired EXCEPT ![i] =
         (IF \E q \in Requests : req[q].pc = "rehash" /\ req[q].target = i
                                    /\ req[q].read = table[i].pwd
          THEN @ ELSE @ \cup {table[i].pwd}) \ {p}]

\* History of a change by an administrator: is the actor still one?
Judge(r) == orphaned' = (orphaned \/ ~IsAdmin(req[r].actor))

-----------------------------------------------------------------------------
\* bootstrap_administrator: looks for the username, not for an administrator.
BootLook(r, email, p) ==
    /\ req[r].pc = "idle"
    /\ \A i \in Rows : table[i].name # "admin"
    /\ Become(r, [Idle EXCEPT !.pc = "boot", !.form = [name |-> "admin", email |-> email,
                                                       role |-> "admin", pwd |-> p]])
    /\ UNCHANGED <<table, nextId, lock, history>>

BootCreate(r) ==
    /\ req[r].pc = "boot"
    /\ Create(req[r].form, "other")
    /\ Finish(r)
    /\ UNCHANGED <<lock, orphaned>>

\* first_time: one request at a time between here and its answer.
FirstTimeLock(r) ==
    /\ req[r].pc = "idle"
    /\ lock = None
    /\ lock' = r
    /\ Become(r, [Idle EXCEPT !.pc = "first_time"])
    /\ UNCHANGED <<table, nextId, history>>

\* Mutant: the guard is a temporary, dropped at once.
CountUnlocked(r, f) ==
    /\ req[r].pc = "first_time"
    /\ Rows = {} /\ f.role = "admin" /\ f.pwd # NoPassword
    /\ Become(r, [req[r] EXCEPT !.pc = "first_create", !.form = f])
    /\ lock' = None
    /\ UNCHANGED <<table, nextId, history>>

\* The table is empty and the form is acceptable.
FirstTimeCount(r, f) ==
    /\ req[r].pc = "first_time"
    /\ Rows = {} /\ f.role = "admin" /\ f.pwd # NoPassword
    /\ Become(r, [req[r] EXCEPT !.pc = "first_create", !.form = f])
    /\ UNCHANGED <<table, nextId, lock, history>>

\* 410 Gone, or 400 for the form: the lock is released on return.
FirstTimeRefused(r) ==
    /\ req[r].pc = "first_time"
    /\ lock' = None
    /\ Finish(r)
    /\ UNCHANGED <<table, nextId, history>>

FirstTimeCreate(r) ==
    /\ req[r].pc = "first_create"
    /\ Create(req[r].form, "first_time")
    /\ lock' = IF lock = r THEN None ELSE lock
    /\ Finish(r)
    /\ UNCHANGED orphaned

-----------------------------------------------------------------------------
\* The route guard of the administrator's pages.
Guard(r, a) ==
    /\ req[r].pc = "idle"
    /\ IsAdmin(a)
    /\ Become(r, [Idle EXCEPT !.pc = "guarded", !.actor = a])
    /\ UNCHANGED <<table, nextId, lock, history>>

\* What precedes the write: the lookups and step_up::verify, which needs the
\* actor's row and not its role.  Their answers are what goes stale.
Admitted(r) == req[r].pc = "guarded" /\ req[r].actor \in Rows
Prepare(r, q) == Become(r, q) /\ UNCHANGED <<table, nextId, lock, history>>

InsertPrepare(r, f) ==
    /\ Admitted(r)
    /\ f.pwd # NoPassword
    /\ ~Taken(f, 0)
    /\ Prepare(r, [Idle EXCEPT !.pc = "insert", !.form = f])

\* Mutant: nothing refuses the administrator's own account.
DeleteAnyone(r, i) ==
    /\ Admitted(r)
    /\ i \in Rows
    /\ Prepare(r, [req[r] EXCEPT !.pc = "delete", !.target = i])

\* "The signed-in administrator cannot remove their own account."
DeletePrepare(r, i) ==
    /\ Admitted(r)
    /\ i \in Rows /\ i # req[r].actor
    /\ Prepare(r, [req[r] EXCEPT !.pc = "delete", !.target = i])

\* "The signed-in administrator cannot change their own role."  The row that
\* was looked up is handed on; its record matters if the form brings none.
UpdatePrepare(r, i, f) ==
    /\ Admitted(r)
    /\ i \in Rows
    /\ i = req[r].actor => f.role = "admin"
    /\ ~Taken(f, i)
    /\ Prepare(r, [req[r] EXCEPT !.pc = "update", !.target = i, !.form = f,
                                   !.read = IF f.pwd = NoPassword THEN table[i].pwd ELSE NoPassword])

InsertCommit(r) ==
    /\ req[r].pc = "insert"
    /\ Create(req[r].form, "other")
    /\ Finish(r)
    /\ UNCHANGED <<lock, orphaned>>

DeleteCommit(r) ==
    /\ req[r].pc = "delete"
    /\ table' = [table EXCEPT ![req[r].target] = NoRow]
    /\ Judge(r)
    /\ Finish(r)
    /\ UNCHANGED <<nextId, lock, origin, chosen, retired>>

\* Mutant: an empty field is stored like any other.
StoreField(r) == req[r].form.pwd

\* Mutant: the statement writes every column of the row that was looked up.
StoreRead(r) == IF req[r].form.pwd = NoPassword THEN req[r].read ELSE req[r].form.pwd

\* The encrypted_password_hash column after the UPDATE: set only with a password.
StoredPassword(r) ==
    IF req[r].form.pwd = NoPassword THEN table[req[r].target].pwd ELSE req[r].form.pwd

\* OperatorRepository::update.
UpdateCommit(r) ==
    LET i == req[r].target
        f == req[r].form
    IN /\ req[r].pc = "update"
       /\ i \in Rows
       /\ UniqueOK(f, i)
       /\ table' = [table EXCEPT ![i] = [name |-> f.name, email |-> f.email, role |-> f.role,
                       pwd |-> StoredPassword(r),
                       outdated |-> @.outdated /\ f.pwd = NoPassword]]
       /\ IF f.pwd = NoPassword THEN UNCHANGED <<chosen, retired>> ELSE Choose(i, f.pwd)
       /\ Judge(r)
       /\ Finish(r)
       /\ UNCHANGED <<nextId, lock, origin>>

-----------------------------------------------------------------------------
\* update_password_action: any role, after the current password.
PasswordPrepare(r, i, p) ==
    /\ req[r].pc = "idle"
    /\ i \in Rows
    /\ Become(r, [Idle EXCEPT !.pc = "password", !.target = i,
                              !.form = [NoForm EXCEPT !.pwd = p]])
    /\ UNCHANGED <<table, nextId, lock, history>>

\* OperatorRepository::update_password.
PasswordCommit(r) ==
    LET i == req[r].target
        p == req[r].form.pwd
    IN /\ req[r].pc = "password"
       /\ i \in Rows
       /\ table' = [table EXCEPT ![i].pwd = p, ![i].outdated = FALSE]
       /\ Choose(i, p)
       /\ Finish(r)
       /\ UNCHANGED <<nextId, lock, origin, orphaned>>

\* login_submit has read a row, verified its password and made a new record.
\* Sign-ins whose record is up to date write nothing here.
LoginVerify(r, i) ==
    /\ req[r].pc = "idle"
    /\ i \in Rows /\ table[i].outdated
    /\ Become(r, [Idle EXCEPT !.pc = "rehash", !.target = i, !.read = table[i].pwd])
    /\ UNCHANGED <<table, nextId, lock, history>>

\* update_encrypted_password: by id, whatever the record is by now; a row that
\* is gone is no error.
LoginRehash(r) ==
    LET i == req[r].target
    IN /\ req[r].pc = "rehash"
       /\ table' = IF i \in Rows
                   THEN [table EXCEPT ![i].pwd = req[r].read, ![i].outdated = FALSE]
                   ELSE table
       /\ Finish(r)
       /\ UNCHANGED <<nextId, lock, history>>

\* A lost client, the request timeout, a crash, a refusal, a UNIQUE conflict:
\* the transaction rolls back and the lock guard is dropped.
Abort(r) ==
    /\ req[r].pc # "idle"
    /\ lock' = IF lock = r THEN None ELSE lock
    /\ Finish(r)
    /\ UNCHANGED <<table, nextId, history>>

-----------------------------------------------------------------------------
Next == \E r \in Requests :
    \/ \E e \in Emails, p \in Passwords : BootLook(r, e, p)
    \/ BootCreate(r)
    \/ FirstTimeLock(r) \/ FirstTimeRefused(r) \/ FirstTimeCreate(r)
    \/ \E f \in Form : FirstTimeCount(r, f) \/ InsertPrepare(r, f)
    \/ \E i \in Ids : Guard(r, i) \/ DeletePrepare(r, i) \/ LoginVerify(r, i)
    \/ \E i \in Ids, f \in Form : UpdatePrepare(r, i, f)
    \/ \E i \in Ids, p \in Passwords : PasswordPrepare(r, i, p)
    \/ InsertCommit(r) \/ DeleteCommit(r) \/ UpdateCommit(r) \/ PasswordCommit(r)
    \/ LoginRehash(r)
    \/ Abort(r)

Spec == Init /\ [][Next]_vars

-----------------------------------------------------------------------------
(***************************************************************************)
(* Properties.                                                             *)
(***************************************************************************)

\* A name and an address identify one operator (find_by_username decides whose
\* password is checked): the lookups before create and update are stale by the
\* commit, so two forms, or a form and a bootstrap, may both have passed them.
UniqueIdentity ==
    \A i, j \in Rows :
        table[i].name = table[j].name \/ table[i].email = table[j].email => i = j

\* first_time is one-shot: two requests that both found the table empty never
\* both leave an administrator behind, because the lock covers count and create.
FirstTimeOnce ==
    \A i, j \in Rows : origin[i] = "first_time" /\ origin[j] = "first_time" => i = j

\* The console never locks its owners out by itself: once there was an account
\* there is an administrator, as long as no change is committed for an actor
\* who stopped being one after the guard (two who remove each other).
AdminRemains == nextId > 1 => AdminExists \/ orphaned

\* A record opens only for a password that was chosen for that very account.  A
\* sign-in under way when its account is deleted stores its rehash by id, and
\* no later account ever has that id.
PasswordBelongs == \A i \in Rows : table[i].pwd \in chosen[i]

\* A replaced password stays replaced: unless a sign-in had verified it and was
\* about to store its rehash, no form that was filled from the old row, no other
\* sign-in and no later change brings it back.
RetiredStaysRetired == \A i \in Rows : table[i].pwd \notin retired[i]

=============================================================================
