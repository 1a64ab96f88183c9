-------------------------- MODULE SessionAuthority --------------------------
(***************************************************************************)
(* Who a session may act for.  The operators table (models/operator.rs,    *)
(* operator_repository.rs) holds the authority, each session row           *)
(* (models/session_store.rs) a copy of it, and the route guard             *)
(* (auth::authorized_role) compares the two.  The requests are those of    *)
(* controllers/auth.rs, acl.rs, mfa.rs and step_up.rs.                     *)
(*                                                                         *)
(* A request loads its session record once, works on that copy, and writes *)
(* it back at the end if it changed: between its database calls any other  *)
(* request may run, so each call is a step.  Ending early (a lost client,  *)
(* the request timeout, a crash, a database error) is possible anywhere    *)
(* and loses the copy, not the rows already written.                       *)
(*                                                                         *)
(* Times are abstracted to choices: whether the id is due for rotation,    *)
(* whether the absolute limit, the challenge's five minutes or a row's     *)
(* inactivity limit has passed.  Secrets are abstracted to the outcome of  *)
(* checking them; which codes are good is OperatorMfa.tla.                 *)
(***************************************************************************)
EXTENDS Naturals

CONSTANTS Users,       \* id_user values; AUTOINCREMENT never reuses one
          NoUser,
          Roles,       \* OperatorRole
          Requests,    \* request slots that may be in flight together
          Operations,  \* the authority-changing handlers that are requested
          MaxEpoch,    \* bound: authz_version
          MaxSid,      \* bound: session ids ever created
          MaxGrant     \* bound: sign-ins ever begun

ASSUME AuthorityConstants ==
    /\ NoUser \notin Users
    /\ "admin" \in Roles
    /\ Operations \subseteq {"insert", "delete", "update", "password", "enroll",
                             "confirm", "disable", "regenerate"}
    /\ MaxEpoch \in Nat /\ MaxSid \in Nat /\ MaxGrant \in Nat

VARIABLES row,         \* the operators table
          store,       \* kraken_sessions
          nextSid,     \* ids are random and never drawn twice
          req,         \* the requests in flight
          owner,       \* history: whose sign-in each grant is
          nextGrant,   \* history: sign-ins so far
          fate,        \* history: what became of each grant
          proved       \* history: grants that showed a second factor

vars == <<row, store, nextSid, req, owner, nextGrant, fate, proved>>

-----------------------------------------------------------------------------
Epochs == 0..MaxEpoch
Sids == 1..MaxSid
Grants == 1..MaxGrant

\* An operators row: AUTOINCREMENT ids are unborn, live or gone, in that order.
Row == [state : {"unborn", "live", "gone"}, role : Roles, authz : Epochs, mfa : BOOLEAN]
Live(u) == row[u].state = "live"

\* The identity keys of a session: sync_session_identity.  The grant (history)
\* is the sign-in they come from; it is not in the code.
Identity == [uid : Users, role : Roles, authz : Epochs, grant : Grants]
Nobody == [uid |-> NoUser, role |-> "admin", authz |-> 0, grant |-> 0]
IdentityOf(u, g) == [uid |-> u, role |-> row[u].role, authz |-> row[u].authz, grant |-> g]

\* A session record: the identity and the MFA_PENDING_USER_ID marker.
Record == [ident : Identity \cup {Nobody}, pend : Users \cup {NoUser}]
Gone == [ident |-> Nobody, pend |-> NoUser]

\* A request: sid 0 is "no row yet", after cycle_id or without a cookie.
\* target and seen: the row an administrator's handler looked up, and its role.
\* snap: the operator row that login_submit or mfa_verify read.
Pcs == {"idle", "loaded", "handler", "insert", "delete", "update", "password",
        "enroll", "confirm", "disable", "regenerate", "refresh",
        "revoke", "revoke_others", "save", "signin", "code"}
Request == [pc : Pcs, sid : 0..MaxSid, data : Record, dirty : BOOLEAN,
            target : Users \cup {NoUser}, seen : Roles, snap : Identity \cup {Nobody}]
Idle == [pc |-> "idle", sid |-> 0, data |-> Gone, dirty |-> FALSE,
         target |-> NoUser, seen |-> "admin", snap |-> Nobody]

Fates == {"live", "out", "racing", "revoked"}

TypeOK ==
    /\ row \in [Users -> Row]
    /\ store \in [Sids -> Record]
    /\ nextSid \in 1..(MaxSid + 1)
    /\ req \in [Requests -> Request]
    /\ owner \in [Grants -> Users \cup {NoUser}]
    /\ nextGrant \in 1..(MaxGrant + 1)
    /\ fate \in [Grants -> Fates]
    /\ proved \subseteq Grants

\* A console started on an existing operators table, with no sessions: the column
\* authz_version is added with default 0, to accounts with two-factor on as well.
Init ==
    /\ row \in [Users -> {w \in Row : /\ w.authz = 0 /\ w.state # "gone"
                                      /\ w.state = "unborn" => w.role = "admin" /\ ~w.mfa}]
    /\ store = [s \in Sids |-> Gone]
    /\ nextSid = 1
    /\ req = [r \in Requests |-> Idle]
    /\ owner = [g \in Grants |-> NoUser]
    /\ nextGrant = 1
    /\ fate = [g \in Grants |-> "live"]
    /\ proved = {}

-----------------------------------------------------------------------------
history == <<owner, nextGrant, fate, proved>>

Uid(r) == req[r].data.ident.uid
Grant(r) == req[r].data.ident.grant

Become(r, q) == req' = [req EXCEPT ![r] = q]
Finish(r) == Become(r, Idle)
Goto(r, pc) == Become(r, [req[r] EXCEPT !.pc = pc])
\* The handler returns, with record d.
Return(r, d, dirty) ==
    Become(r, [req[r] EXCEPT !.pc = "save", !.data = d, !.dirty = dirty,
                             !.target = NoUser, !.seen = "admin", !.snap = Nobody])
Respond(r) == Return(r, req[r].data, req[r].dirty)

\* session.flush, and the deletion half of session.cycle_id.
DeleteRow(sid) == store' = [s \in Sids |-> IF s = sid THEN Gone ELSE store[s]]

\* Mutant: the guard compares the role and not the epoch.
SameRole(i) == i.uid # NoUser /\ Live(i.uid) /\ i.role = row[i.uid].role

\* What authorized_role compares: the row exists, same role, same epoch.
Usable(i) ==
    /\ i.uid # NoUser
    /\ Live(i.uid)
    /\ i.role = row[i.uid].role
    /\ i.authz = row[i.uid].authz

\* Requests whose handler may still copy the operators row into its session.
MayRefresh(q) ==
    req[q].pc \in {"handler", "update", "password", "enroll", "confirm", "disable",
                   "regenerate", "refresh"}

\* Mutant: the UPDATE leaves authz_version out.
NoBump(u, role, mfa) == row' = [row EXCEPT ![u].role = role, ![u].mfa = mfa]

\* authz_version = authz_version + 1, with the other columns of the UPDATE.
SetRow(u, role, mfa) ==
    /\ row[u].authz < MaxEpoch
    /\ row' = [row EXCEPT ![u].role = role, ![u].mfa = mfa, ![u].authz = @ + 1]

\* History of such a change to account u by request r: every other sign-in of u
\* is overtaken, for good unless one of its own requests is under way.
Overtake(r, u) ==
    fate' = [g \in Grants |->
        IF owner[g] # u \/ g = Grant(r) \/ fate[g] = "revoked" THEN fate[g]
        ELSE IF \E q \in Requests : MayRefresh(q) /\ Grant(q) = g THEN "racing"
        ELSE "revoked"]

-----------------------------------------------------------------------------
\* A request arrives with the cookie of a stored session; its record is loaded.
Load(r, s) ==
    /\ req[r].pc = "idle"
    /\ store[s] # Gone
    /\ Become(r, [Idle EXCEPT !.pc = "loaded", !.sid = s, !.data = store[s]])
    /\ UNCHANGED <<row, store, nextSid, history>>

\* A visitor without a session.
Visit(r) ==
    /\ req[r].pc = "idle"
    /\ Become(r, [Idle EXCEPT !.pc = "loaded"])
    /\ UNCHANGED <<row, store, nextSid, history>>

\* authorized_role refuses and flushes: stale copy, or the absolute limit.
GuardRejects(r) ==
    /\ req[r].pc = "loaded"
    /\ Uid(r) # NoUser
    /\ DeleteRow(req[r].sid)
    /\ Finish(r)
    /\ UNCHANGED <<row, nextSid, history>>

\* authorized_role accepts; rotate_session_id_if_due may drop the old id.
GuardAccepts(r) ==
    /\ req[r].pc = "loaded"
    /\ Usable(req[r].data.ident)
    /\ \/ /\ Goto(r, "handler")
          /\ UNCHANGED store
       \/ /\ Become(r, [req[r] EXCEPT !.pc = "handler", !.sid = 0, !.dirty = TRUE])
          /\ DeleteRow(req[r].sid)
    /\ UNCHANGED <<row, nextSid, history>>

\* A handler that writes no authority: a page, a role the route does not admit,
\* a refused form, or an action behind a step-up (mark_reauthenticated).
Serve(r, stepUp) ==
    /\ req[r].pc = "handler"
    /\ stepUp => Live(Uid(r))
    /\ Return(r, req[r].data, req[r].dirty \/ stepUp)
    /\ UNCHANGED <<row, store, nextSid, history>>

\* History: the session of request r is in no other request and, after a rotation
\* that was lost half-way, under no other id.
Alone(r) ==
    /\ \A q \in Requests \ {r} : Grant(r) \notin {Grant(q), req[q].snap.grant}
    /\ \A s \in Sids \ {req[r].sid} : store[s].ident.grant # Grant(r)

\* History of a logout.
LoggedOut(r) == fate' = [fate EXCEPT ![Grant(r)] = IF @ = "live" /\ Alone(r) THEN "out" ELSE @]

\* Mutant: the cookie is taken back, the row is left.
LogoutCookieOnly(r) ==
    /\ req[r].pc = "handler"
    /\ LoggedOut(r)
    /\ Finish(r)
    /\ UNCHANGED <<row, store, nextSid, owner, nextGrant, proved>>

\* logout: the flush takes the row of this id, if it has one.
Logout(r) ==
    /\ req[r].pc = "handler"
    /\ DeleteRow(req[r].sid)
    /\ LoggedOut(r)
    /\ Finish(r)
    /\ UNCHANGED <<row, nextSid, owner, nextGrant, proved>>

\* What the handlers that change authority do before their transaction: the
\* route's role, the look-up of the target, the step-up on the own row.  Only
\* the target's role is remembered, so the look-up and the step-up are one step.
StepUp(r, pc, u, seen) ==
    /\ req[r].pc = "handler" /\ pc \in Operations
    /\ Live(Uid(r))
    /\ Become(r, [req[r] EXCEPT !.pc = pc, !.dirty = TRUE, !.target = u, !.seen = seen])
    /\ UNCHANGED <<row, store, nextSid, history>>

PrepareInsert(r) ==
    /\ req[r].data.ident.role = "admin"
    /\ StepUp(r, "insert", NoUser, "admin")

\* "The signed-in administrator cannot remove their own account."
PrepareDelete(r, u) ==
    /\ req[r].data.ident.role = "admin"
    /\ Live(u) /\ u # Uid(r)
    /\ StepUp(r, "delete", u, "admin")

PrepareUpdate(r, u) ==
    /\ req[r].data.ident.role = "admin"
    /\ Live(u)
    /\ StepUp(r, "update", u, row[u].role)

\* mfa_enroll checks is_enabled; mfa_disable and mfa_regenerate do not.
PrepareMfa(r, pc) ==
    /\ StepUp(r, pc, Uid(r), "admin")
    /\ pc = "enroll" => ~row[Uid(r)].mfa

\* update_password_action and mfa_confirm read the own row and check a secret;
\* there is no step-up, so the session is not touched.
PrepareOwn(r, pc) ==
    /\ req[r].pc = "handler" /\ pc \in Operations
    /\ Live(Uid(r))
    /\ Become(r, [req[r] EXCEPT !.pc = pc, !.target = Uid(r)])
    /\ UNCHANGED <<row, store, nextSid, history>>

-----------------------------------------------------------------------------
\* OperatorRepository::create: authz_version 0 and no MFA, by column default.
InsertTx(r, u, role) ==
    /\ req[r].pc = "insert"
    /\ row[u].state = "unborn"
    /\ row' = [row EXCEPT ![u].state = "live", ![u].role = role]
    /\ Respond(r)
    /\ UNCHANGED <<store, nextSid, history>>

\* delete_by_id: a missing row is no error, the revocation runs either way.
DeleteTx(r) ==
    /\ req[r].pc = "delete"
    /\ row' = [row EXCEPT ![req[r].target].state = "gone", ![req[r].target].mfa = FALSE]
    /\ Goto(r, "revoke")
    /\ UNCHANGED <<store, nextSid, history>>

\* Mutant: the row that update returned is counted up once more.
RefreshedTwice(r, u, role) ==
    [req[r].data EXCEPT !.ident = [uid |-> u, role |-> role, authz |-> row[u].authz + 2,
                                   grant |-> Grant(r)]]

\* The request after its own transaction: the row it returned is copied into
\* the session if it is the session's own.
Refreshed(r, u, role) ==
    [req[r].data EXCEPT !.ident = [uid |-> u, role |-> role, authz |-> row[u].authz + 1,
                                   grant |-> Grant(r)]]

\* OperatorRepository::update and the end of update_user_action.  role_changed
\* compares with the role seen at the look-up.
UpdateTx(r, role) ==
    LET u == req[r].target
        d == IF u = Uid(r) THEN Refreshed(r, u, role) ELSE req[r].data
    IN /\ req[r].pc = "update"
       /\ Live(u)
       /\ u = Uid(r) => role = "admin"
       /\ SetRow(u, role, row[u].mfa)
       /\ Overtake(r, u)
       /\ IF role # req[r].seen
          THEN Become(r, [req[r] EXCEPT !.pc = "revoke", !.data = d])
          ELSE Return(r, d, req[r].dirty)
       /\ UNCHANGED <<store, nextSid, owner, nextGrant, proved>>

\* update_password and the refresh from the row it returns.  session.id() is
\* none after a rotation in this request: then nothing is revoked.
PasswordTx(r) ==
    LET u == req[r].target
        d == Refreshed(r, u, row[u].role)
    IN /\ req[r].pc = "password"
       /\ Live(u)
       /\ SetRow(u, row[u].role, row[u].mfa)
       /\ Overtake(r, u)
       /\ IF req[r].sid # 0
          THEN Become(r, [req[r] EXCEPT !.pc = "revoke_others", !.data = d, !.dirty = TRUE])
          ELSE Return(r, d, TRUE)
       /\ UNCHANGED <<store, nextSid, owner, nextGrant, proved>>

\* begin_enrollment replaces whatever row there is by an unconfirmed one, and
\* leaves authz_version alone.
EnrollTx(r) ==
    /\ req[r].pc = "enroll"
    /\ Live(req[r].target)
    /\ row' = [row EXCEPT ![req[r].target].mfa = FALSE]
    /\ Respond(r)
    /\ UNCHANGED <<store, nextSid, history>>

\* confirm, disable, regenerate_recovery_codes: what is_enabled will answer
\* after the transaction, if its own condition lets it through.
MfaResult(r, mfa) ==
    \/ req[r].pc = "confirm" /\ ~row[req[r].target].mfa /\ mfa
    \/ req[r].pc = "disable" /\ ~mfa
    \/ req[r].pc = "regenerate" /\ row[req[r].target].mfa /\ mfa

\* The operator who confirms has shown a code of the secret.
MfaTx(r, mfa) ==
    LET u == req[r].target
    IN /\ MfaResult(r, mfa)
       /\ Live(u)
       /\ SetRow(u, row[u].role, mfa)
       /\ Overtake(r, u)
       /\ proved' = IF req[r].pc = "confirm" THEN proved \cup {Grant(r)} ELSE proved
       /\ Goto(r, "refresh")
       /\ UNCHANGED <<store, nextSid, owner, nextGrant>>

\* The other outcomes: no pending enrollment, already replaced, not enabled.
MfaRefused(r) ==
    /\ req[r].pc \in {"confirm", "regenerate"}
    /\ Respond(r)
    /\ UNCHANGED <<row, store, nextSid, history>>

\* refresh_current_session reads the row again, after the transaction.
RefreshCurrent(r) ==
    /\ req[r].pc = "refresh"
    /\ Live(Uid(r))
    /\ Return(r, [req[r].data EXCEPT !.ident = IdentityOf(Uid(r), Grant(r))], TRUE)
    /\ UNCHANGED <<row, store, nextSid, history>>

\* delete_by_user_id and delete_by_user_id_except, which may fail.
Revoke(r, works) ==
    /\ req[r].pc \in {"revoke", "revoke_others"}
    /\ store' = [s \in Sids |->
         IF /\ works
            /\ store[s].ident.uid = req[r].target
            /\ req[r].pc = "revoke_others" => s # req[r].sid
         THEN Gone ELSE store[s]]
    /\ Respond(r)
    /\ UNCHANGED <<row, nextSid, history>>

\* The session layer after the handler: a changed record is written back, to a
\* new id after cycle_id, else by an upsert that does not ask if the row is
\* still there.
Save(r) ==
    /\ req[r].pc = "save"
    /\ IF ~req[r].dirty \/ req[r].data = Gone
       THEN UNCHANGED <<store, nextSid>>
       ELSE IF req[r].sid # 0
       THEN /\ store' = [store EXCEPT ![req[r].sid] = req[r].data]
            /\ UNCHANGED nextSid
       ELSE /\ nextSid \in Sids
            /\ store' = [store EXCEPT ![nextSid] = req[r].data]
            /\ nextSid' = nextSid + 1
    /\ Finish(r)
    /\ UNCHANGED <<row, history>>

-----------------------------------------------------------------------------
\* A sign-in begins when the operators row has been read: login_submit after
\* the password, mfa_verify once it knows whom the challenge is for.
BeginGrant(r, u, pc) ==
    /\ nextGrant \in Grants
    /\ Live(u)
    /\ Become(r, [req[r] EXCEPT !.pc = pc, !.snap = IdentityOf(u, nextGrant)])
    /\ owner' = [owner EXCEPT ![nextGrant] = u]
    /\ nextGrant' = nextGrant + 1
    /\ UNCHANGED <<row, store, nextSid, fate, proved>>

LoginPassword(r, u) ==
    /\ req[r].pc = "loaded"
    /\ BeginGrant(r, u, "signin")

\* After session.cycle_id: the record d will be stored under a new id.
NewSession(d) == [Idle EXCEPT !.pc = "save", !.dirty = TRUE, !.data = d]

\* establish_session: a new id, and the identity that was read at the start.
Establish(r, pend) ==
    /\ Become(r, NewSession([ident |-> req[r].snap, pend |-> pend]))
    /\ DeleteRow(req[r].sid)

\* Mutant: login_submit does not ask for the second factor.
PasswordOnly(r) ==
    /\ req[r].pc = "signin"
    /\ Establish(r, req[r].data.pend)
    /\ UNCHANGED <<row, nextSid, history>>

\* login_submit after the password: is_enabled decides between the challenge
\* (which keeps the identity the session had) and the session.
LoginFinish(r) ==
    LET u == req[r].snap.uid
    IN /\ req[r].pc = "signin"
       /\ IF row[u].mfa
          THEN /\ Become(r, NewSession([req[r].data EXCEPT !.pend = u]))
               /\ DeleteRow(req[r].sid)
          ELSE Establish(r, req[r].data.pend)
       /\ UNCHANGED <<row, nextSid, history>>

\* mfa_verify: the marker, the row, the code.
MfaChallenge(r) ==
    /\ req[r].pc = "loaded"
    /\ req[r].data.pend # NoUser
    /\ BeginGrant(r, req[r].data.pend, "code")

\* "The account disappeared between the two steps; abandon the half-login."
MfaAccountGone(r) ==
    /\ req[r].pc = "loaded"
    /\ req[r].data.pend # NoUser
    /\ ~Live(req[r].data.pend)
    /\ DeleteRow(req[r].sid)
    /\ Finish(r)
    /\ UNCHANGED <<row, nextSid, history>>

\* mfa_pending_user_id: the five minutes are over, the marker is removed.
MfaExpired(r) ==
    /\ req[r].pc = "loaded"
    /\ req[r].data.pend # NoUser
    /\ Return(r, [req[r].data EXCEPT !.pend = NoUser], TRUE)
    /\ UNCHANGED <<row, store, nextSid, history>>

\* verify_login_code succeeds: recovery codes are good when the confirmed TOTP row
\* has been replaced as well.  Which codes there are is OperatorMfa's; here any
\* account that is not deleted may have one.
MfaCodeAccepted(r) ==
    /\ req[r].pc = "code"
    /\ Live(req[r].snap.uid)
    /\ proved' = proved \cup {req[r].snap.grant}
    /\ Establish(r, NoUser)
    /\ UNCHANGED <<row, nextSid, owner, nextGrant, fate>>

\* Ending early, at any point.
Abort(r) ==
    /\ req[r].pc # "idle"
    /\ Finish(r)
    /\ UNCHANGED <<row, store, nextSid, history>>

\* A row's inactivity limit passes: load no longer sees it, create prunes it.
RowExpires(s) ==
    /\ store[s] # Gone
    /\ DeleteRow(s)
    /\ UNCHANGED <<row, nextSid, req, history>>

-----------------------------------------------------------------------------
Arrive(r) == Visit(r) \/ \E s \in Sids : Load(r, s)

SignIn(r) ==
    \/ \E u \in Users : LoginPassword(r, u)
    \/ LoginFinish(r) \/ MfaChallenge(r) \/ MfaAccountGone(r) \/ MfaExpired(r)
    \/ MfaCodeAccepted(r)

Guard(r) == GuardRejects(r) \/ GuardAccepts(r)

Handle(r) ==
    \/ \E stepUp \in BOOLEAN : Serve(r, stepUp)
    \/ Logout(r)
    \/ PrepareInsert(r)
    \/ \E u \in Users : PrepareDelete(r, u) \/ PrepareUpdate(r, u)
    \/ \E pc \in {"enroll", "disable", "regenerate"} : PrepareMfa(r, pc)
    \/ \E pc \in {"password", "confirm"} : PrepareOwn(r, pc)

Transact(r) ==
    \/ \E role \in Roles : UpdateTx(r, role) \/ \E u \in Users : InsertTx(r, u, role)
    \/ DeleteTx(r) \/ PasswordTx(r) \/ EnrollTx(r)
    \/ \E mfa \in BOOLEAN : MfaTx(r, mfa)
    \/ MfaRefused(r)

End(r) ==
    \/ RefreshCurrent(r)
    \/ \E works \in BOOLEAN : Revoke(r, works)
    \/ Save(r)
    \/ Abort(r)

Next ==
    \/ \E r \in Requests : Arrive(r) \/ SignIn(r) \/ Guard(r) \/ Handle(r) \/ Transact(r) \/ End(r)
    \/ \E s \in Sids : RowExpires(s)

Spec == Init /\ [][Next]_vars

-----------------------------------------------------------------------------
(***************************************************************************)
(* Properties.                                                             *)
(***************************************************************************)

\* The identities a guard may be asked about: in a stored row, or loaded.
Presentable ==
    {store[s].ident : s \in Sids} \cup {req[r].data.ident : r \in Requests}

\* Revocation is for good ("old sessions fail closed even if best-effort session
\* cleanup fails", operator.rs): after a change of role, password or MFA, no row
\* and no in-flight copy of a sign-in that was overtaken while idle passes the
\* guard again, whatever is saved, resurrected, rotated or refreshed later.
RevokedStaysOut ==
    \A i \in Presentable : i.uid # NoUser /\ fate[i.grant] = "revoked" => ~Usable(i)

\* The epoch alone decides: a copy with the current authz_version has the
\* current role, so no sequence of role changes (demotion and re-promotion
\* included) makes an old copy agree with a row it was not taken from.
EpochDeterminesRole ==
    \A i \in Presentable :
        i.uid # NoUser /\ Live(i.uid) /\ i.authz >= row[i.uid].authz
            => i.authz = row[i.uid].authz /\ i.role = row[i.uid].role

\* Once two-factor is on, every session that works went through it: by a code
\* at sign-in or by confirming the enrollment itself.  A sign-in that passed
\* is_enabled just before the confirmation gets a session that is already stale.
SecondFactorBehindSession ==
    \A i \in Presentable :
        Usable(i) /\ row[i.uid].mfa => i.grant \in proved \/ fate[i.grant] = "racing"

\* The same comment read literally: "Any privilege, password, account or MFA
\* state change increments it so old sessions fail closed".  A request of the
\* old session that is between its guard and its refresh copies the new epoch.
OvertakenFailsClosed ==
    \A s \in Sids : store[s] # Gone /\ store[s].ident.uid # NoUser
        => (fate[store[s].ident.grant] \in {"racing", "revoked"} => ~Usable(store[s].ident))

\* POST /logout destroys the session ("Destroy the session", docs/database.md),
\* whichever id it has after rotations: if no other request and no other row held
\* it at that time, no row and no in-flight copy ever holds it again.  A request of
\* the session that is under way at the logout may still write its row back.
LoggedOutStaysOut ==
    \A i \in Presentable : i.uid # NoUser => fate[i.grant] # "out"

=============================================================================
