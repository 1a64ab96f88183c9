----------------------- MODULE SessionAuthority_proofs -----------------------
(***************************************************************************)
(* Proofs about SessionAuthority: revocation is for good, the epoch        *)
(* determines the role, and two-factor stands behind every session that    *)
(* works, for any number of accounts, roles, sessions, sign-ins and        *)
(* concurrent requests.                                                    *)
(***************************************************************************)
EXTENDS SessionAuthority, TLAPS

\* An identity copied from the operators table at some time: of a sign-in of
\* that account, never ahead of the row, equal to it if as new, and behind it
\* if the sign-in was revoked.
CopyOK(i) ==
    i # Nobody =>
        /\ i \in Identity
        /\ i.grant < nextGrant
        /\ owner[i.grant] = i.uid
        /\ i.authz <= row[i.uid].authz
        /\ i.authz = row[i.uid].authz => i.role = row[i.uid].role
        /\ fate[i.grant] = "revoked" => i.authz < row[i.uid].authz
        /\ row[i.uid].state # "unborn"

\* While two-factor is on, an identity as new as the row has shown it.
FactorOK(i) ==
    i # Nobody /\ row[i.uid].mfa /\ i.authz = row[i.uid].authz
        => i.grant \in proved \/ fate[i.grant] = "racing"

\* What a request that may still copy the row into its session relies on.
RefreshOK(q) ==
    q.pc \in {"handler", "update", "password", "enroll", "confirm", "disable", "regenerate", "refresh"} =>
        /\ q.data.ident # Nobody
        /\ fate[q.data.ident.grant] # "revoked"
        /\ row[q.data.ident.uid].mfa =>
             q.data.ident.grant \in proved \/ fate[q.data.ident.grant] = "racing"

RequestOK(q) ==
    /\ CopyOK(q.data.ident) /\ FactorOK(q.data.ident) /\ CopyOK(q.snap)
    /\ RefreshOK(q)
    /\ q.pc \in {"password", "enroll", "confirm", "disable", "regenerate"} => q.target = q.data.ident.uid
    /\ q.pc \in {"update", "delete", "revoke", "revoke_others"} => q.target \in Users
    /\ q.pc = "delete" => row[q.target].state # "unborn"
    /\ q.pc \in {"signin", "code"} => q.snap # Nobody

\* Grants not handed out yet have no history; unborn rows are pristine.
Pristine ==
    /\ \A g \in Grants : g >= nextGrant => owner[g] = NoUser /\ fate[g] = "live"
    /\ \A u \in Users : row[u].state = "unborn" => row[u].authz = 0 /\ ~row[u].mfa

StoreOK == \A s \in Sids : CopyOK(store[s].ident) /\ FactorOK(store[s].ident)
RequestsOK == \A r \in Requests : RequestOK(req[r])

IInv ==
    /\ TypeOK
    /\ Pristine
    /\ StoreOK
    /\ RequestsOK

-----------------------------------------------------------------------------
LEMMA NobodyOK == ~(Nobody \in Identity) /\ CopyOK(Nobody) /\ FactorOK(Nobody)
  BY AuthorityConstants DEF Nobody, Identity, CopyOK, FactorOK

LEMMA IdleOK == Idle \in Request /\ RequestOK(Idle)
  BY NobodyOK, AuthorityConstants DEF Idle, Request, Record, Gone, Nobody, Pcs, RequestOK, RefreshOK

LEMMA InitIInv == Init => IInv
<1> SUFFICES ASSUME Init PROVE IInv
  OBVIOUS
<1>1. TypeOK
  <2>1. row \in [Users -> Row]
    BY DEF Init
  <2>2. Gone \in Record
    BY DEF Gone, Record
  <2>3. QED
    BY <2>1, <2>2, IdleOK, AuthorityConstants DEF Init, TypeOK, Fates, Sids, Grants
<1>2. Pristine
  BY DEF Init, Pristine
<1>3. StoreOK
  BY NobodyOK DEF Init, StoreOK, Gone
<1>4. RequestsOK
  BY IdleOK DEF Init, RequestsOK
<1>5. QED
  BY <1>1, <1>2, <1>3, <1>4 DEF IInv

-----------------------------------------------------------------------------
\* A step that bumps no epoch: a row that was ever live keeps its epoch and its
\* role and turns two-factor at most off; history only grows, and revokes nobody.
AuthorityKept ==
    /\ \A u \in Users : row[u].state # "unborn" =>
         /\ row'[u].authz = row[u].authz /\ row'[u].role = row[u].role
         /\ row'[u].mfa => row[u].mfa
         /\ row'[u].state # "unborn"
    /\ nextGrant <= nextGrant'
    /\ \A g \in Grants : g < nextGrant =>
         /\ owner'[g] = owner[g]
         /\ fate'[g] = "revoked" => fate[g] = "revoked"
         /\ fate[g] = "racing" => fate'[g] = "racing"
    /\ proved \subseteq proved'

\* Identities and requests that were in order stay in order.
LEMMA KeptIdentity ==
    ASSUME TypeOK, TypeOK', AuthorityKept, NEW i, CopyOK(i)
    PROVE  CopyOK(i)' /\ (FactorOK(i) => FactorOK(i)')
<1>1. CASE i = Nobody
  BY <1>1 DEF CopyOK, FactorOK
<1>2. CASE i # Nobody
  <2>1. /\ i \in Identity /\ i.uid \in Users /\ i.grant \in Grants /\ i.grant < nextGrant
        /\ row[i.uid].state # "unborn"
    BY <1>2 DEF CopyOK, Identity
  <2>2. /\ row'[i.uid].authz = row[i.uid].authz /\ row'[i.uid].role = row[i.uid].role
        /\ row'[i.uid].mfa => row[i.uid].mfa
        /\ row'[i.uid].state # "unborn"
        /\ owner'[i.grant] = owner[i.grant]
        /\ fate'[i.grant] = "revoked" => fate[i.grant] = "revoked"
        /\ fate[i.grant] = "racing" => fate'[i.grant] = "racing"
        /\ i.grant \in proved => i.grant \in proved'
    BY <2>1 DEF AuthorityKept
  <2>3. i.grant < nextGrant'
    BY <2>1 DEF AuthorityKept, TypeOK, Identity, Grants
  <2>4. CopyOK(i)'
    BY <1>2, <2>1, <2>2, <2>3 DEF CopyOK
  <2>5. FactorOK(i) => FactorOK(i)'
    BY <2>2 DEF FactorOK
  <2>6. QED
    BY <2>4, <2>5
<1>3. QED
  BY <1>1, <1>2

LEMMA KeptRequest ==
    ASSUME TypeOK, TypeOK', AuthorityKept, NEW q \in Request, RequestOK(q)
    PROVE  RequestOK(q)'
<1>1. CopyOK(q.data.ident)' /\ FactorOK(q.data.ident)' /\ CopyOK(q.snap)'
  BY KeptIdentity DEF RequestOK
<1>2. RefreshOK(q)'
  <2> SUFFICES ASSUME q.pc \in {"handler", "update", "password", "enroll", "confirm", "disable",
                                "regenerate", "refresh"}
               PROVE  /\ q.data.ident # Nobody
                      /\ fate'[q.data.ident.grant] # "revoked"
                      /\ row'[q.data.ident.uid].mfa =>
                           q.data.ident.grant \in proved' \/ fate'[q.data.ident.grant] = "racing"
    BY DEF RefreshOK
  <2>1. q.data.ident # Nobody /\ RefreshOK(q) /\ CopyOK(q.data.ident)
    BY DEF RequestOK, RefreshOK
  <2>2. /\ q.data.ident.uid \in Users /\ q.data.ident.grant \in Grants
        /\ q.data.ident.grant < nextGrant /\ row[q.data.ident.uid].state # "unborn"
    BY <2>1 DEF CopyOK, Identity
  <2>3. QED
    BY <2>1, <2>2 DEF AuthorityKept, RefreshOK
<1>3. q.pc = "delete" => row'[q.target].state # "unborn"
  BY DEF RequestOK, AuthorityKept
<1>4. QED
  BY <1>1, <1>2, <1>3 DEF RequestOK

\* What holds of a request's value after the step holds of the request.
LEMMA RequestAfter ==
    ASSUME NEW p \in Requests, NEW q \in Request, q = req'[p], RequestOK(q)'
    PROVE  RequestOK(req[p])'
<1>1. CopyOK(req[p].data.ident)'
  BY DEF RequestOK, CopyOK
<1>2. FactorOK(req[p].data.ident)'
  BY DEF RequestOK, FactorOK
<1>3. CopyOK(req[p].snap)'
  BY DEF RequestOK, CopyOK
<1>4. RefreshOK(req[p])'
  BY DEF RequestOK, RefreshOK
<1>5. QED
  BY <1>1, <1>2, <1>3, <1>4 DEF RequestOK

\* A step that leaves the requests alone leaves them in order.
LEMMA KeptRequests ==
    ASSUME IInv, TypeOK', AuthorityKept, req' = req
    PROVE  RequestsOK'
<1> SUFFICES ASSUME NEW p \in Requests PROVE RequestOK(req[p])'
  BY DEF RequestsOK
<1>1. req[p] \in Request /\ RequestOK(req[p]) /\ req'[p] = req[p]
  BY DEF IInv, TypeOK, RequestsOK
<1>2. \A q \in Request : q = req'[p] /\ RequestOK(q) => RequestOK(req[p])'
  <2> SUFFICES ASSUME NEW q \in Request, q = req'[p], RequestOK(q) PROVE RequestOK(req[p])'
    OBVIOUS
  <2>1. RequestOK(q)'
    BY KeptRequest DEF IInv
  <2>2. QED
    BY <2>1, RequestAfter
<1>3. QED
  BY <1>1, <1>2

\* Such a step of request r, which stores what was stored, its own record or
\* nothing, preserves the invariant.
LEMMA KeptStep ==
    ASSUME IInv, NEW r \in Requests, AuthorityKept, TypeOK', Pristine',
           \A p \in Requests : p # r => req'[p] = req[p],
           RequestOK(req[r])',
           \A s \in Sids : store'[s] \in {store[s], Gone, req[r].data}
    PROVE  IInv'
<1> USE DEF IInv
<1>1. StoreOK'
  <2> SUFFICES ASSUME NEW s \in Sids PROVE CopyOK(store[s].ident)' /\ FactorOK(store[s].ident)'
    BY DEF StoreOK
  <2>1. \A i : i = store'[s].ident /\ CopyOK(i)' /\ FactorOK(i)' => CopyOK(store[s].ident)' /\ FactorOK(store[s].ident)'
    BY DEF CopyOK, FactorOK
  <2>2. CASE store'[s] = store[s]
    BY <2>1, <2>2, KeptIdentity DEF StoreOK
  <2>3. CASE store'[s] = Gone
    BY <2>1, <2>3, NobodyOK, KeptIdentity DEF Gone
  <2>4. CASE store'[s] = req[r].data
    BY <2>1, <2>4, KeptIdentity DEF RequestsOK, RequestOK
  <2>5. QED
    BY <2>2, <2>3, <2>4
<1>2. RequestsOK'
  <2> SUFFICES ASSUME NEW p \in Requests, p # r PROVE RequestOK(req[p])'
    BY DEF RequestsOK
  <2>1. RequestOK(req[p]) /\ req'[p] = req[p] /\ req[p] \in Request
    BY DEF RequestsOK, TypeOK
  <2>2. \A q \in Request : q = req'[p] /\ RequestOK(q) => RequestOK(req[p])'
    <3> SUFFICES ASSUME NEW q \in Request, q = req'[p], RequestOK(q)' PROVE RequestOK(req[p])'
      BY KeptRequest
    <3>1. QED
      BY RequestAfter
  <2>3. QED
    BY <2>1, <2>2
<1>3. QED
  BY <1>1, <1>2

\* The most common case: neither the operators table nor the history changes.
LEMMA QuietBecome ==
    ASSUME IInv, NEW r \in Requests, NEW q \in Request, RequestOK(q), Become(r, q),
           UNCHANGED <<row, owner, nextGrant, fate, proved>>,
           store' \in [Sids -> Record], nextSid' \in 1..(MaxSid + 1),
           \A s \in Sids : store'[s] \in {store[s], Gone, req[r].data}
    PROVE  IInv'
<1>1. /\ req' \in [Requests -> Request] /\ req'[r] = q
      /\ \A p \in Requests : p # r => req'[p] = req[p]
  BY DEF IInv, TypeOK, Become
<1>2. RequestOK(req[r])'
  BY <1>1 DEF RequestOK, RefreshOK, CopyOK, FactorOK
<1>3. TypeOK' /\ Pristine' /\ AuthorityKept
  BY <1>1 DEF IInv, TypeOK, Pristine, AuthorityKept
<1>4. QED
  BY <1>1, <1>2, <1>3, KeptStep

\* The same when the session table does not change either.
LEMMA QuietRequest ==
    ASSUME IInv, NEW r \in Requests, NEW q \in Request, RequestOK(q), Become(r, q),
           UNCHANGED <<row, store, nextSid, owner, nextGrant, fate, proved>>
    PROVE  IInv'
  BY QuietBecome DEF IInv, TypeOK

\* ... and when it only loses a row.
LEMMA QuietDelete ==
    ASSUME IInv, NEW r \in Requests, NEW q \in Request, RequestOK(q), Become(r, q),
           NEW sid, DeleteRow(sid),
           UNCHANGED <<row, nextSid, owner, nextGrant, fate, proved>>
    PROVE  IInv'
<1>1. Gone \in Record
  BY DEF Gone, Record
<1>2. store' \in [Sids -> Record] /\ \A s \in Sids : store'[s] \in {store[s], Gone}
  BY <1>1 DEF IInv, TypeOK, DeleteRow
<1>3. nextSid' \in 1..(MaxSid + 1)
  BY DEF IInv, TypeOK
<1>4. QED
  BY <1>2, <1>3, QuietBecome

\* The record a handler returns with.
LEMMA ReturnOK ==
    ASSUME IInv, NEW r \in Requests, NEW d \in Record, NEW dirty \in BOOLEAN,
           CopyOK(d.ident), FactorOK(d.ident)
    PROVE  LET q == [req[r] EXCEPT !.pc = "save", !.data = d, !.dirty = dirty,
                             !.target = NoUser, !.seen = "admin", !.snap = Nobody]
           IN  q \in Request /\ RequestOK(q)
<1> DEFINE q == [req[r] EXCEPT !.pc = "save", !.data = d, !.dirty = dirty,
                             !.target = NoUser, !.seen = "admin", !.snap = Nobody]
<1>1. req[r] \in Request
  BY DEF IInv, TypeOK
<1>2. /\ q \in Request /\ q.pc = "save" /\ q.data = d /\ q.snap = Nobody
  BY <1>1, AuthorityConstants DEF Request, Pcs
<1>3. RequestOK(q)
  BY <1>2, NobodyOK DEF RequestOK, RefreshOK
<1>4. QED
  BY <1>2, <1>3

LEMMA Responds ==
    ASSUME IInv, NEW r \in Requests, NEW d \in Record, NEW dirty \in BOOLEAN,
           CopyOK(d.ident), FactorOK(d.ident), Return(r, d, dirty),
           UNCHANGED <<row, store, nextSid, owner, nextGrant, fate, proved>>
    PROVE  IInv'
  BY ReturnOK, QuietRequest DEF Return

\* What is known of the request that takes a step.
LEMMA Known ==
    ASSUME IInv, NEW r \in Requests
    PROVE  /\ req[r] \in Request /\ RequestOK(req[r])
           /\ req[r].data \in Record /\ req[r].dirty \in BOOLEAN
           /\ CopyOK(req[r].data.ident) /\ FactorOK(req[r].data.ident)
           /\ req[r].data.ident \in Identity \/ req[r].data.ident = Nobody
           /\ Uid(r) # NoUser => req[r].data.ident # Nobody /\ Uid(r) \in Users
  BY AuthorityConstants DEF IInv, TypeOK, RequestsOK, RequestOK, Request, Record, Uid, Nobody, Identity

-----------------------------------------------------------------------------
LEMMA ArriveStep ==
    ASSUME IInv, NEW r \in Requests, Arrive(r)
    PROVE  IInv'
<1>1. CASE Visit(r)
  <2> DEFINE q == [Idle EXCEPT !.pc = "loaded"]
  <2>1. q \in Request /\ RequestOK(q)
    BY IdleOK DEF Request, Pcs, RequestOK, RefreshOK, Idle
  <2>2. QED
    BY <1>1, <2>1, QuietRequest DEF Visit, history
<1>2. ASSUME NEW s \in Sids, Load(r, s) PROVE IInv'
  <2> DEFINE q == [Idle EXCEPT !.pc = "loaded", !.sid = s, !.data = store[s]]
  <2>1. store[s] \in Record /\ CopyOK(store[s].ident) /\ FactorOK(store[s].ident) /\ s \in 0..MaxSid
    BY AuthorityConstants DEF IInv, TypeOK, StoreOK, Sids
  <2>2. q \in Request /\ q.pc = "loaded" /\ q.data = store[s] /\ q.snap = Nobody
    BY <2>1, IdleOK DEF Request, Pcs, Idle
  <2>3. RequestOK(q)
    BY <2>1, <2>2, NobodyOK DEF RequestOK, RefreshOK
  <2>4. QED
    BY <1>2, <2>2, <2>3, QuietRequest DEF Load, history
<1>3. QED
  BY <1>1, <1>2 DEF Arrive

LEMMA GuardStep ==
    ASSUME IInv, NEW r \in Requests, Guard(r)
    PROVE  IInv'
<1>1. CASE GuardRejects(r)
  BY <1>1, IdleOK, QuietDelete DEF GuardRejects, Finish, history
<1>2. CASE GuardAccepts(r)
  <2> DEFINE i == req[r].data.ident
             q1 == [req[r] EXCEPT !.pc = "handler"]
             q2 == [req[r] EXCEPT !.pc = "handler", !.sid = 0, !.dirty = TRUE]
  <2>1. i.uid # NoUser /\ i.authz = row[i.uid].authz /\ i # Nobody /\ i \in Identity
    BY <1>2, Known DEF GuardAccepts, Usable, Uid
  <2>2. RequestOK(req[r]) /\ CopyOK(i) /\ FactorOK(i) /\ req[r] \in Request
    BY Known
  <2>3. /\ fate[i.grant] # "revoked"
        /\ row[i.uid].mfa => i.grant \in proved \/ fate[i.grant] = "racing"
    BY <2>1, <2>2 DEF CopyOK, FactorOK, Identity, IInv, TypeOK, Row, Epochs
  <2>4. /\ q1 \in Request /\ q1.pc = "handler" /\ q1.data = req[r].data /\ q1.snap = req[r].snap
        /\ q2 \in Request /\ q2.pc = "handler" /\ q2.data = req[r].data /\ q2.snap = req[r].snap
    <3>1. q1 \in Request /\ q1.pc = "handler" /\ q1.data = req[r].data /\ q1.snap = req[r].snap
      BY <2>2 DEF Request, Pcs
    <3>2. 0 \in 0..MaxSid
      BY AuthorityConstants
    <3>3. q2 \in Request
      BY <2>2, <3>2 DEF Request, Pcs
    <3>4. q2.pc = "handler" /\ q2.data = req[r].data /\ q2.snap = req[r].snap
      BY <2>2 DEF Request
    <3>5. QED
      BY <3>1, <3>3, <3>4
  <2>5. RequestOK(q1) /\ RequestOK(q2)
    BY <2>1, <2>2, <2>3, <2>4 DEF RequestOK, RefreshOK
  <2>6. CASE Become(r, q1) /\ UNCHANGED store
    BY <1>2, <2>4, <2>5, <2>6, QuietRequest DEF GuardAccepts, history
  <2>7. CASE Become(r, q2) /\ DeleteRow(req[r].sid)
    BY <1>2, <2>4, <2>5, <2>7, QuietDelete DEF GuardAccepts, history
  <2>8. QED
    BY <1>2, <2>6, <2>7 DEF GuardAccepts, Goto
<1>3. QED
  BY <1>1, <1>2 DEF Guard

\* A handler that has prepared its transaction.
LEMMA PreparedOK ==
    ASSUME IInv, NEW r \in Requests, req[r].pc = "handler",
           NEW pc \in {"insert", "delete", "update", "password", "enroll", "confirm", "disable", "regenerate"},
           NEW u \in Users \cup {NoUser}, NEW seen \in Roles, NEW dirty \in BOOLEAN,
           pc \in {"delete", "update"} => u \in Users /\ row[u].state # "unborn",
           pc \in {"password", "enroll", "confirm", "disable", "regenerate"} => u = Uid(r)
    PROVE  LET q == [req[r] EXCEPT !.pc = pc, !.dirty = dirty, !.target = u, !.seen = seen]
           IN  q \in Request /\ RequestOK(q)
<1> DEFINE q == [req[r] EXCEPT !.pc = pc, !.dirty = dirty, !.target = u, !.seen = seen]
<1>1. req[r] \in Request /\ RequestOK(req[r])
  BY Known
<1>2. q \in Request
  BY <1>1 DEF Request, Pcs
<1>3. q.pc = pc /\ q.data = req[r].data /\ q.snap = req[r].snap /\ q.target = u
  BY <1>1 DEF Request
<1>4. RequestOK(q)
  BY <1>1, <1>3 DEF RequestOK, RefreshOK, Uid
<1>5. QED
  BY <1>2, <1>4

LEMMA StepUpStep ==
    ASSUME IInv, NEW r \in Requests,
           NEW pc \in {"insert", "delete", "update", "enroll", "disable", "regenerate"},
           NEW u \in Users \cup {NoUser}, NEW seen \in Roles, StepUp(r, pc, u, seen),
           pc \in {"delete", "update"} => u \in Users /\ row[u].state # "unborn",
           pc \in {"enroll", "disable", "regenerate"} => u = Uid(r)
    PROVE  IInv'
<1> DEFINE q == [req[r] EXCEPT !.pc = pc, !.dirty = TRUE, !.target = u, !.seen = seen]
<1>1. q \in Request /\ RequestOK(q)
  BY PreparedOK, ZenonT(30) DEF StepUp
<1>2. QED
  BY <1>1, QuietRequest DEF StepUp, history

LEMMA LogoutStep ==
    ASSUME IInv, NEW r \in Requests, Logout(r)
    PROVE  IInv'
<1>1. /\ req' \in [Requests -> Request] /\ req'[r] = Idle
      /\ \A p \in Requests : p # r => req'[p] = req[p]
  BY IdleOK DEF IInv, TypeOK, Logout, Finish, Become
<1>2. RequestOK(req[r])'
  BY <1>1, NobodyOK DEF Idle, Gone, Nobody, RequestOK, RefreshOK, CopyOK, FactorOK
<1>3. /\ Gone \in Record /\ store' \in [Sids -> Record] /\ \A s \in Sids : store'[s] \in {store[s], Gone}
  <2>1. Gone \in Record
    BY DEF Gone, Record
  <2>2. QED
    BY <2>1 DEF Logout, DeleteRow, IInv, TypeOK
<1>4. /\ Grant(r) \in Grants /\ Grant(r) < nextGrant
  BY Known DEF Logout, RequestOK, RefreshOK, CopyOK, Identity, Grant
<1>5. /\ fate' \in [Grants -> Fates]
      /\ fate'[Grant(r)] # fate[Grant(r)] => fate[Grant(r)] = "live" /\ fate'[Grant(r)] = "out"
      /\ \A g \in Grants : g # Grant(r) => fate'[g] = fate[g]
  BY <1>4 DEF Logout, LoggedOut, IInv, TypeOK, Fates
<1>6. TypeOK' /\ AuthorityKept
  BY <1>1, <1>3, <1>5 DEF Logout, IInv, TypeOK, AuthorityKept
<1>7. Pristine'
  BY <1>4, <1>5 DEF Logout, IInv, TypeOK, Pristine, Grants
<1>8. QED
  BY <1>1, <1>2, <1>3, <1>6, <1>7, KeptStep

LEMMA HandleStep ==
    ASSUME IInv, NEW r \in Requests, Handle(r)
    PROVE  IInv'
<1>0. req[r].pc = "handler"
  BY DEF Handle, Serve, Logout, PrepareInsert, PrepareDelete, PrepareUpdate, PrepareMfa, PrepareOwn, StepUp
<1>1. Uid(r) \in Users
  BY <1>0, Known DEF RequestOK, RefreshOK, Uid, Identity
<1>2. ASSUME NEW stepUp \in BOOLEAN, Serve(r, stepUp) PROVE IInv'
  BY <1>2, Known, Responds DEF Serve, history
<1>3. CASE Logout(r)
  BY <1>3, LogoutStep
<1>4. CASE PrepareInsert(r)
  BY <1>4, StepUpStep, AuthorityConstants DEF PrepareInsert
<1>5. ASSUME NEW u \in Users, PrepareDelete(r, u) PROVE IInv'
  BY <1>5, StepUpStep, AuthorityConstants DEF PrepareDelete, Live
<1>6. ASSUME NEW u \in Users, PrepareUpdate(r, u) PROVE IInv'
  <2>1. row[u].role \in Roles
    BY DEF IInv, TypeOK, Row
  <2>2. QED
    BY <1>6, <2>1, StepUpStep DEF PrepareUpdate, Live
<1>7. ASSUME NEW pc \in {"enroll", "disable", "regenerate"}, PrepareMfa(r, pc) PROVE IInv'
  BY <1>1, <1>7, StepUpStep, AuthorityConstants DEF PrepareMfa
<1>8. ASSUME NEW pc \in {"password", "confirm"}, PrepareOwn(r, pc) PROVE IInv'
  <2> DEFINE q == [req[r] EXCEPT !.pc = pc, !.target = Uid(r)]
  <2>1. req[r] \in Request /\ RequestOK(req[r])
    BY Known
  <2>2. q \in Request /\ q.pc = pc /\ q.data = req[r].data /\ q.snap = req[r].snap /\ q.target = Uid(r)
    BY <1>1, <2>1 DEF Request, Pcs
  <2>3. RequestOK(q)
    BY <1>0, <2>1, <2>2 DEF RequestOK, RefreshOK, Uid
  <2>4. QED
    BY <1>8, <2>2, <2>3, QuietRequest DEF PrepareOwn, history
<1>9. QED
  BY <1>2, <1>3, <1>4, <1>5, <1>6, <1>7, <1>8 DEF Handle

-----------------------------------------------------------------------------
\* The identity a sign-in reads is as new as the row and of a fresh grant.
LEMMA BeginGrantStep ==
    ASSUME IInv, NEW r \in Requests, NEW u \in Users, NEW pc \in {"signin", "code"},
           BeginGrant(r, u, pc)
    PROVE  IInv'
<1> DEFINE i == IdentityOf(u, nextGrant)
           q == [req[r] EXCEPT !.pc = pc, !.snap = i]
<1>1. req[r] \in Request /\ RequestOK(req[r])
  BY Known
<1>2. /\ i \in Identity /\ i.uid = u /\ i.grant = nextGrant /\ i.authz = row[u].authz /\ i.role = row[u].role
      /\ nextGrant \in Grants /\ row[u] \in Row /\ row[u].state = "live"
  BY DEF BeginGrant, IdentityOf, Identity, IInv, TypeOK, Row, Live
<1> HIDE DEF i
<1>3. q \in Request /\ q.pc = pc /\ q.data = req[r].data /\ q.snap = i
  BY <1>1, <1>2 DEF Request, Pcs
<1>4. req' = [req EXCEPT ![r] = q] /\ owner' = [owner EXCEPT ![nextGrant] = u]
      /\ nextGrant' = nextGrant + 1 /\ UNCHANGED <<row, store, nextSid, fate, proved>>
  BY DEF BeginGrant, Become, i
<1> HIDE DEF q
<1>5. /\ req' \in [Requests -> Request] /\ req'[r] = q
      /\ \A p \in Requests : p # r => req'[p] = req[p]
  BY <1>3, <1>4 DEF IInv, TypeOK
<1>6. TypeOK' /\ Pristine' /\ AuthorityKept
  <2>1. TypeOK'
    BY <1>2, <1>4, <1>5, AuthorityConstants DEF IInv, TypeOK, Grants
  <2>2. Pristine' /\ AuthorityKept
    BY <1>2, <1>4, AuthorityConstants DEF IInv, TypeOK, Grants, Pristine, AuthorityKept
  <2>3. QED
    BY <2>1, <2>2
<1>7. CopyOK(req[r].snap)'
  <2>1. fate[nextGrant] = "live" /\ owner'[nextGrant] = u /\ nextGrant < nextGrant'
    BY <1>2, <1>4 DEF IInv, Pristine, Grants, TypeOK
  <2>2. row[u].authz \in Nat
    BY <1>2 DEF Row, Epochs
  <2>3. req'[r].snap = i
    BY <1>3, <1>5
  <2>4. QED
    BY <1>2, <1>4, <2>1, <2>2, <2>3 DEF CopyOK
<1>8. RequestOK(req[r])'
  <2>1. \A j : CopyOK(j) /\ FactorOK(j) => CopyOK(j)' /\ FactorOK(j)'
    BY <1>6, KeptIdentity DEF IInv
  <2>2. CopyOK(req[r].data.ident)' /\ FactorOK(req[r].data.ident)'
    <3>1. req'[r].data = req[r].data
      BY <1>3, <1>5
    <3>2. CopyOK(req[r].data.ident) /\ FactorOK(req[r].data.ident)
      BY <1>1 DEF RequestOK
    <3>3. \A j : j = req'[r].data.ident /\ CopyOK(j)' /\ FactorOK(j)' =>
              CopyOK(req[r].data.ident)' /\ FactorOK(req[r].data.ident)'
      BY DEF CopyOK, FactorOK
    <3>4. QED
      BY <2>1, <3>1, <3>2, <3>3
  <2>3. req'[r].snap # Nobody /\ req'[r].pc = pc
    BY <1>2, <1>3, <1>5, NobodyOK
  <2>4. QED
    BY <1>7, <2>2, <2>3 DEF RequestOK, RefreshOK
<1>9. QED
  BY <1>4, <1>5, <1>6, <1>8, KeptStep

LEMMA NewSessionOK ==
    ASSUME NEW d \in Record
    PROVE  /\ NewSession(d) \in Request
           /\ NewSession(d).pc = "save" /\ NewSession(d).data = d /\ NewSession(d).snap = Nobody
           /\ CopyOK(d.ident) /\ FactorOK(d.ident) => RequestOK(NewSession(d))
<1>1. /\ NewSession(d) \in Request
      /\ NewSession(d).pc = "save" /\ NewSession(d).data = d /\ NewSession(d).snap = Nobody
  BY IdleOK DEF NewSession, Idle, Request, Pcs
<1>2. QED
  BY <1>1, NobodyOK DEF RequestOK, RefreshOK

LEMMA LoginFinishStep ==
    ASSUME IInv, NEW r \in Requests, LoginFinish(r)
    PROVE  IInv'
<1> DEFINE u == req[r].snap.uid
           d1 == [req[r].data EXCEPT !.pend = u]
           d2 == [ident |-> req[r].snap, pend |-> req[r].data.pend]
<1>1. req[r].data \in Record /\ RequestOK(req[r]) /\ req[r].snap # Nobody
  BY Known DEF LoginFinish, RequestOK
<1>2. /\ req[r].snap \in Identity /\ CopyOK(req[r].snap) /\ u \in Users
      /\ CopyOK(req[r].data.ident) /\ FactorOK(req[r].data.ident)
  BY <1>1 DEF RequestOK, CopyOK, Identity
<1>3. CASE row[u].mfa
  <2>1. d1 \in Record /\ d1.ident = req[r].data.ident
    BY <1>1, <1>2 DEF Record
  <2>2. Become(r, NewSession(d1)) /\ DeleteRow(req[r].sid) /\ UNCHANGED <<row, nextSid, owner, nextGrant, fate, proved>>
    BY <1>3 DEF LoginFinish, history
  <2> HIDE DEF d1
  <2>3. QED
    BY <1>2, <2>1, <2>2, NewSessionOK, QuietDelete
<1>4. CASE ~row[u].mfa
  <2>1. FactorOK(req[r].snap)
    BY <1>4 DEF FactorOK
  <2>2. d2 \in Record /\ d2.ident = req[r].snap
    BY <1>1, <1>2 DEF Record
  <2>3. Become(r, NewSession(d2)) /\ DeleteRow(req[r].sid) /\ UNCHANGED <<row, nextSid, owner, nextGrant, fate, proved>>
    BY <1>4 DEF LoginFinish, Establish, history
  <2> HIDE DEF d2
  <2>4. QED
    BY <1>2, <2>1, <2>2, <2>3, NewSessionOK, QuietDelete
<1>5. QED
  BY <1>3, <1>4

LEMMA CodeAcceptedStep ==
    ASSUME IInv, NEW r \in Requests, MfaCodeAccepted(r)
    PROVE  IInv'
<1> DEFINE d == [ident |-> req[r].snap, pend |-> NoUser]
           q == NewSession(d)
           g == req[r].snap.grant
<1>1. RequestOK(req[r]) /\ req[r].snap # Nobody
  BY Known DEF MfaCodeAccepted, RequestOK
<1>2. req[r].snap \in Identity /\ CopyOK(req[r].snap) /\ g \in Grants
  BY <1>1 DEF RequestOK, CopyOK, Identity
<1>3. d \in Record /\ d.ident = req[r].snap
  BY <1>2 DEF Record
<1>4. /\ proved' = proved \cup {g} /\ req' = [req EXCEPT ![r] = q] /\ DeleteRow(req[r].sid)
      /\ UNCHANGED <<row, nextSid, owner, nextGrant, fate>>
  BY DEF MfaCodeAccepted, Establish, Become
<1> HIDE DEF d
<1>5. q \in Request /\ q.pc = "save" /\ q.data.ident = req[r].snap /\ q.snap = Nobody
  BY <1>3, NewSessionOK
<1> HIDE DEF q
<1>6. /\ req' \in [Requests -> Request] /\ req'[r] = q
      /\ \A p \in Requests : p # r => req'[p] = req[p]
  BY <1>5, <1>4 DEF IInv, TypeOK
<1>7. store' \in [Sids -> Record] /\ \A s \in Sids : store'[s] \in {store[s], Gone}
  <2>1. Gone \in Record
    BY DEF Gone, Record
  <2>2. QED
    BY <1>4, <2>1 DEF DeleteRow, IInv, TypeOK
<1>8. TypeOK' /\ Pristine' /\ AuthorityKept
  BY <1>2, <1>4, <1>6, <1>7 DEF IInv, TypeOK, Pristine, AuthorityKept
<1>9. RequestOK(req[r])'
  <2>1. req'[r].pc = "save" /\ req'[r].data.ident = req[r].snap /\ req'[r].snap = Nobody
    BY <1>5, <1>6
  <2>2. CopyOK(req[r].data.ident)' /\ FactorOK(req[r].data.ident)' /\ CopyOK(req[r].snap)'
    <3>1. CopyOK(req[r].data.ident)'
      BY <1>2, <1>4, <2>1 DEF CopyOK
    <3>2. FactorOK(req[r].data.ident)'
      BY <1>4, <2>1 DEF FactorOK
    <3>3. CopyOK(req[r].snap)'
      BY <2>1 DEF CopyOK
    <3>4. QED
      BY <3>1, <3>2, <3>3
  <2>3. QED
    BY <2>1, <2>2 DEF RequestOK, RefreshOK
<1>10. QED
  BY <1>6, <1>7, <1>8, <1>9, KeptStep

LEMMA SignInStep ==
    ASSUME IInv, NEW r \in Requests, SignIn(r)
    PROVE  IInv'
<1>1. ASSUME NEW u \in Users, LoginPassword(r, u) PROVE IInv'
  BY <1>1, BeginGrantStep DEF LoginPassword
<1>2. CASE MfaChallenge(r)
  <2>1. req[r].data.pend \in Users
    BY <1>2, Known DEF MfaChallenge, Record
  <2>2. QED
    BY <1>2, <2>1, BeginGrantStep DEF MfaChallenge
<1>3. CASE MfaAccountGone(r)
  BY <1>3, IdleOK, QuietDelete DEF MfaAccountGone, Finish, history
<1>4. CASE MfaExpired(r)
  <2> DEFINE d == [req[r].data EXCEPT !.pend = NoUser]
  <2>1. d \in Record /\ d.ident = req[r].data.ident
    BY Known DEF Record
  <2>2. QED
    BY <1>4, <2>1, Known, Responds DEF MfaExpired, history
<1>5. QED
  BY <1>1, <1>2, <1>3, <1>4, LoginFinishStep, CodeAcceptedStep DEF SignIn

-----------------------------------------------------------------------------
LEMMA RefreshStep ==
    ASSUME IInv, NEW r \in Requests, RefreshCurrent(r)
    PROVE  IInv'
<1> DEFINE j == req[r].data.ident
           i == IdentityOf(Uid(r), Grant(r))
           d == [req[r].data EXCEPT !.ident = i]
<1>1. /\ RequestOK(req[r]) /\ CopyOK(j) /\ req[r].data \in Record /\ j # Nobody /\ RefreshOK(req[r])
  BY Known DEF RefreshCurrent, RequestOK, RefreshOK
<1>2. /\ j \in Identity /\ Uid(r) = j.uid /\ Grant(r) = j.grant /\ j.uid \in Users
      /\ row[j.uid] \in Row /\ row[j.uid].state = "live"
  BY <1>1 DEF CopyOK, Uid, Grant, Identity, IInv, TypeOK, RefreshCurrent, Live
<1>3. /\ i \in Identity /\ i.uid = j.uid /\ i.grant = j.grant
      /\ i.authz = row[j.uid].authz /\ i.role = row[j.uid].role
  BY <1>2 DEF IdentityOf, Identity, Row
<1> HIDE DEF i
<1>4. CopyOK(i)
  <2>1. j.grant < nextGrant /\ owner[j.grant] = j.uid
    BY <1>1 DEF CopyOK
  <2>2. fate[j.grant] # "revoked"
    BY <1>1 DEF RefreshCurrent, RefreshOK
  <2>3. row[j.uid].authz \in Nat /\ row[j.uid].authz <= row[j.uid].authz
    BY <1>2 DEF Row, Epochs
  <2> HIDE DEF j
  <2>4. QED
    BY <1>2, <1>3, <2>1, <2>2, <2>3 DEF CopyOK
<1>5. FactorOK(i)
  BY <1>1, <1>2, <1>3 DEF FactorOK, RefreshCurrent, RefreshOK
<1>6. d \in Record /\ d.ident = i
  BY <1>1, <1>3 DEF Record
<1>7. Return(r, d, TRUE) /\ UNCHANGED <<row, store, nextSid, owner, nextGrant, fate, proved>>
  BY DEF RefreshCurrent, history, i
<1> HIDE DEF d
<1>8. QED
  BY <1>4, <1>5, <1>6, <1>7, Responds

LEMMA EndStep ==
    ASSUME IInv, NEW r \in Requests, End(r)
    PROVE  IInv'
<1>1. ASSUME NEW works \in BOOLEAN, Revoke(r, works) PROVE IInv'
  <2> DEFINE q == [req[r] EXCEPT !.pc = "save", !.data = req[r].data, !.dirty = req[r].dirty,
                                 !.target = NoUser, !.seen = "admin", !.snap = Nobody]
  <2>1. q \in Request /\ RequestOK(q)
    BY Known, ReturnOK
  <2>2. Become(r, q) /\ UNCHANGED <<row, nextSid, owner, nextGrant, fate, proved>>
    BY <1>1 DEF Revoke, Respond, Return, history
  <2>3. Gone \in Record
    BY DEF Gone, Record
  <2>4. store' \in [Sids -> Record] /\ \A s \in Sids : store'[s] \in {store[s], Gone}
    BY <1>1, <2>3 DEF Revoke, IInv, TypeOK
  <2>5. nextSid' \in 1..(MaxSid + 1)
    BY <2>2 DEF IInv, TypeOK
  <2> HIDE DEF q
  <2>6. QED
    BY <2>1, <2>2, <2>4, <2>5, QuietBecome
<1>2. CASE Save(r)
  <2>1. Become(r, Idle) /\ UNCHANGED <<row, owner, nextGrant, fate, proved>>
    BY <1>2 DEF Save, Finish, history
  <2>2. store' \in [Sids -> Record] /\ nextSid' \in 1..(MaxSid + 1)
    <3>1. store \in [Sids -> Record] /\ nextSid \in 1..(MaxSid + 1) /\ req[r].data \in Record
      BY Known DEF IInv, TypeOK
    <3>2. nextSid \in Sids => nextSid + 1 \in 1..(MaxSid + 1)
      BY AuthorityConstants DEF Sids
    <3>3. QED
      BY <1>2, <3>1, <3>2 DEF Save
  <2>3. \A s \in Sids : store'[s] \in {store[s], Gone, req[r].data}
    BY <1>2 DEF Save, IInv, TypeOK
  <2>4. QED
    BY <2>1, <2>2, <2>3, IdleOK, QuietBecome
<1>3. CASE Abort(r)
  BY <1>3, IdleOK, QuietRequest DEF Abort, Finish, history
<1>4. QED
  BY <1>1, <1>2, <1>3, RefreshStep DEF End

\* Expiry takes a row away and touches nothing else.
LEMMA ExpiryStep ==
    ASSUME IInv, NEW s \in Sids, RowExpires(s)
    PROVE  IInv'
<1> USE DEF IInv
<1>1. Gone \in Record
  BY DEF Gone, Record
<1>2. TypeOK' /\ Pristine'
  BY <1>1 DEF RowExpires, DeleteRow, history, TypeOK, Pristine
<1>3. StoreOK'
  <2> SUFFICES ASSUME NEW t \in Sids PROVE CopyOK(store[t].ident)' /\ FactorOK(store[t].ident)'
    BY DEF StoreOK
  <2>1. store'[t] = store[t] \/ store'[t].ident = Nobody
    BY DEF RowExpires, DeleteRow, Gone
  <2>2. CASE store'[t] = store[t]
    BY <2>2 DEF RowExpires, history, StoreOK, CopyOK, FactorOK
  <2>3. CASE store'[t].ident = Nobody
    BY <2>3 DEF CopyOK, FactorOK
  <2>4. QED
    BY <2>1, <2>2, <2>3
<1>4. RequestsOK'
  <2>1. req' = req /\ AuthorityKept
    BY DEF RowExpires, history, AuthorityKept, TypeOK
  <2>2. QED
    BY <1>2, <2>1, KeptRequests
<1>5. QED
  BY <1>2, <1>3, <1>4

-----------------------------------------------------------------------------
\* The transactions that bump no epoch.
LEMMA RowStep ==
    ASSUME IInv, NEW r \in Requests,
           \/ \E u \in Users, role \in Roles : InsertTx(r, u, role)
           \/ DeleteTx(r) \/ EnrollTx(r)
    PROVE  IInv'
<1> USE DEF IInv
<1>1. UNCHANGED <<store, nextSid, owner, nextGrant, fate, proved>>
  BY DEF InsertTx, DeleteTx, EnrollTx, history
<1>2. row' \in [Users -> Row] /\ Pristine'
      /\ \A u \in Users : row[u].state # "unborn" =>
           /\ row'[u].authz = row[u].authz /\ row'[u].role = row[u].role
           /\ row'[u].mfa => row[u].mfa
           /\ row'[u].state # "unborn"
  <2>1. CASE \E u \in Users, role \in Roles : InsertTx(r, u, role)
    <3>1. PICK u \in Users, role \in Roles : InsertTx(r, u, role)
      BY <2>1
    <3>2. row[u].state = "unborn" /\ row' = [row EXCEPT ![u].state = "live", ![u].role = role]
      BY <3>1 DEF InsertTx
    <3>3. row' \in [Users -> Row] /\ row'[u].state = "live"
      BY <3>2 DEF TypeOK, Row
    <3>4. \A v \in Users : v # u => row'[v] = row[v]
      BY <3>2 DEF TypeOK
    <3>5. QED
      BY <1>1, <3>2, <3>3, <3>4 DEF Pristine
  <2>2. CASE DeleteTx(r)
    <3> DEFINE u == req[r].target
    <3>1. u \in Users /\ row[u].state # "unborn" /\ row' = [row EXCEPT ![u].state = "gone", ![u].mfa = FALSE]
      BY <2>2, Known DEF DeleteTx, RequestOK
    <3>2. /\ row' \in [Users -> Row]
          /\ row'[u].authz = row[u].authz /\ row'[u].role = row[u].role /\ ~row'[u].mfa /\ row'[u].state = "gone"
      BY <3>1 DEF TypeOK, Row
    <3>3. \A v \in Users : v # u => row'[v] = row[v]
      BY <3>1 DEF TypeOK
    <3>4. QED
      BY <1>1, <3>1, <3>2, <3>3 DEF Pristine
  <2>3. CASE EnrollTx(r)
    <3> DEFINE u == req[r].target
    <3>1. u \in Users /\ row[u].state = "live" /\ row' = [row EXCEPT ![u].mfa = FALSE]
      BY <2>3, Known, AuthorityConstants DEF EnrollTx, Live, RequestOK, RefreshOK, Identity, Nobody
    <3>2. /\ row' \in [Users -> Row]
          /\ row'[u].authz = row[u].authz /\ row'[u].role = row[u].role /\ ~row'[u].mfa /\ row'[u].state = "live"
      BY <3>1 DEF TypeOK, Row
    <3>3. \A v \in Users : v # u => row'[v] = row[v]
      BY <3>1 DEF TypeOK
    <3>4. QED
      BY <1>1, <3>1, <3>2, <3>3 DEF Pristine
  <2>4. QED
    BY <2>1, <2>2, <2>3
<1> DEFINE q1 == [req[r] EXCEPT !.pc = "save", !.data = req[r].data, !.dirty = req[r].dirty,
                                !.target = NoUser, !.seen = "admin", !.snap = Nobody]
           q2 == [req[r] EXCEPT !.pc = "revoke"]
<1>3. q1 \in Request /\ RequestOK(q1)
  BY Known, ReturnOK
<1>4. req[r].pc = "delete" => q2 \in Request /\ RequestOK(q2)
  <2>1. req[r] \in Request /\ RequestOK(req[r])
    BY Known
  <2>2. q2 \in Request /\ q2.pc = "revoke" /\ q2.data = req[r].data /\ q2.snap = req[r].snap
        /\ q2.target = req[r].target
    BY <2>1 DEF Request, Pcs
  <2>3. QED
    BY <2>1, <2>2 DEF RequestOK, RefreshOK
<1>5. req' = [req EXCEPT ![r] = q1] \/ (req[r].pc = "delete" /\ req' = [req EXCEPT ![r] = q2])
  BY DEF InsertTx, DeleteTx, EnrollTx, Respond, Return, Goto, Become
<1> HIDE DEF q1, q2
<1>6. PICK q \in Request : RequestOK(q) /\ req' = [req EXCEPT ![r] = q]
  BY <1>3, <1>4, <1>5
<1>7. /\ req' \in [Requests -> Request] /\ req'[r] = q
      /\ \A p \in Requests : p # r => req'[p] = req[p]
  BY <1>6 DEF TypeOK
<1>8. TypeOK' /\ AuthorityKept
  BY <1>1, <1>2, <1>7 DEF TypeOK, AuthorityKept
<1>9. RequestOK(req[r])'
  <2>1. RequestOK(q)'
    BY <1>6, <1>8, KeptRequest
  <2>2. QED
    BY <1>7, <2>1 DEF RequestOK, RefreshOK, CopyOK, FactorOK
<1>10. QED
  BY <1>1, <1>2, <1>7, <1>8, <1>9, KeptStep

-----------------------------------------------------------------------------
\* What a bump of account u by request r does to the row and to the history.
Bumped(r, u, role, mfa) ==
    /\ u \in Users /\ Live(u) /\ role \in Roles /\ mfa \in BOOLEAN
    /\ SetRow(u, role, mfa) /\ Overtake(r, u)
    /\ req[r].data.ident # Nobody
    /\ UNCHANGED <<store, nextSid, owner, nextGrant>>
    /\ proved' \in {proved, proved \cup {Grant(r)}}
    /\ mfa => row[u].mfa \/ Grant(r) \in proved'

LEMMA BumpFacts ==
    ASSUME IInv, NEW r \in Requests, NEW u, NEW role, NEW mfa, Bumped(r, u, role, mfa)
    PROVE  /\ row' \in [Users -> Row]
           /\ row'[u].authz = row[u].authz + 1 /\ row'[u].role = role /\ row'[u].mfa = mfa
           /\ row'[u].state = "live" /\ row[u].authz \in Nat
           /\ \A v \in Users : v # u => row'[v] = row[v]
           /\ fate' \in [Grants -> Fates]
           /\ \A g \in Grants : owner[g] # u \/ g = Grant(r) => fate'[g] = fate[g]
           /\ \A g \in Grants, p \in Requests :
                 owner[g] = u /\ g # Grant(r) /\ fate[g] # "revoked" /\ MayRefresh(p) /\ Grant(p) = g
                    => fate'[g] = "racing"
           /\ Grant(r) \in Grants /\ proved \subseteq proved' /\ proved' \subseteq Grants
           /\ Pristine'
<1> USE DEF IInv
<1>1. row' = [row EXCEPT ![u].role = role, ![u].mfa = mfa, ![u].authz = @ + 1] /\ row[u].authz < MaxEpoch
      /\ u \in Users /\ role \in Roles /\ mfa \in BOOLEAN /\ row[u].state = "live"
  BY DEF Bumped, SetRow, Live
<1>2. row[u] \in Row /\ row[u].authz \in Nat /\ row[u].authz + 1 \in Epochs
  BY <1>1, AuthorityConstants DEF TypeOK, Row, Epochs
<1>3. row'[u] = [state |-> "live", role |-> role, authz |-> row[u].authz + 1, mfa |-> mfa]
  BY <1>1, <1>2 DEF TypeOK, Row
<1>4. /\ \A v \in Users : v # u => row'[v] = row[v]
      /\ row' \in [Users -> Row]
  BY <1>1, <1>2 DEF TypeOK, Row
<1>5. /\ fate' \in [Grants -> Fates]
      /\ \A g \in Grants : owner[g] # u \/ g = Grant(r) => fate'[g] = fate[g]
      /\ \A g \in Grants, p \in Requests :
            owner[g] = u /\ g # Grant(r) /\ fate[g] # "revoked" /\ MayRefresh(p) /\ Grant(p) = g
               => fate'[g] = "racing"
  BY DEF Bumped, Overtake, TypeOK, Fates
<1>6. Grant(r) \in Grants
  BY Known DEF Bumped, Grant, Identity
<1>7. proved \subseteq proved' /\ proved' \subseteq Grants
  BY <1>6 DEF Bumped, TypeOK
<1>8. Pristine'
  BY <1>1, <1>3, <1>4, <1>5, AuthorityConstants DEF Pristine, Bumped
<1>9. QED
  BY <1>1, <1>2, <1>3, <1>4, <1>5, <1>6, <1>7, <1>8

LEMMA BumpIdentity ==
    ASSUME IInv, NEW r \in Requests, NEW u, NEW role, NEW mfa, Bumped(r, u, role, mfa),
           NEW i, CopyOK(i)
    PROVE  CopyOK(i)' /\ (FactorOK(i) => FactorOK(i)')
<1>1. CASE i = Nobody
  BY <1>1 DEF CopyOK, FactorOK
<1>2. CASE i # Nobody /\ i.uid = u
  <2>1. i.authz <= row[u].authz /\ i.authz \in Nat /\ row[u].authz \in Nat /\ row'[u].authz = row[u].authz + 1
    BY <1>2, BumpFacts DEF CopyOK, Identity, Epochs
  <2>2. i.authz < row'[u].authz
    BY <2>1
  <2>3. QED
    BY <1>2, <2>1, <2>2, BumpFacts DEF CopyOK, FactorOK, Bumped
<1>3. CASE i # Nobody /\ i.uid # u
  <2>1. i.uid \in Users /\ i.grant \in Grants /\ owner[i.grant] = i.uid
    BY <1>3 DEF CopyOK, Identity
  <2>2. row'[i.uid] = row[i.uid] /\ fate'[i.grant] = fate[i.grant] /\ proved \subseteq proved'
    BY <1>3, <2>1, BumpFacts
  <2>3. QED
    BY <1>3, <2>2 DEF CopyOK, FactorOK, Bumped
<1>4. QED
  BY <1>1, <1>2, <1>3

LEMMA BumpRequest ==
    ASSUME IInv, NEW r \in Requests, NEW u, NEW role, NEW mfa, Bumped(r, u, role, mfa),
           NEW p \in Requests
    PROVE  RequestOK(req[p]) /\ req'[p] = req[p] => RequestOK(req[p])'
<1> SUFFICES ASSUME RequestOK(req[p]), req'[p] = req[p] PROVE RequestOK(req[p])'
  OBVIOUS
<1> DEFINE q == req[p]
           g == req[p].data.ident.grant
           v == req[p].data.ident.uid
<1>1. \A i : CopyOK(i) => CopyOK(i)' /\ (FactorOK(i) => FactorOK(i)')
  BY BumpIdentity
<1>2. CopyOK(req[p].data.ident)' /\ FactorOK(req[p].data.ident)' /\ CopyOK(req[p].snap)'
  <2>1. \A i : i = req'[p].data.ident /\ CopyOK(i)' /\ FactorOK(i)' => CopyOK(req[p].data.ident)' /\ FactorOK(req[p].data.ident)'
    BY DEF CopyOK, FactorOK
  <2>2. \A i : i = req'[p].snap /\ CopyOK(i)' => CopyOK(req[p].snap)'
    BY DEF CopyOK
  <2>3. QED
    BY <1>1, <2>1, <2>2 DEF RequestOK
<1>3. RefreshOK(req[p])'
  <2> SUFFICES ASSUME MayRefresh(p)
               PROVE  /\ req[p].data.ident # Nobody /\ fate'[g] # "revoked"
                      /\ row'[v].mfa => g \in proved' \/ fate'[g] = "racing"
    BY DEF RefreshOK, MayRefresh
  <2>1. /\ req[p].data.ident # Nobody /\ fate[g] # "revoked"
        /\ row[v].mfa => g \in proved \/ fate[g] = "racing"
    BY DEF RequestOK, RefreshOK, MayRefresh
  <2>2. v \in Users /\ g \in Grants /\ owner[g] = v /\ Grant(p) = g
    BY <2>1 DEF RequestOK, CopyOK, Identity, Grant
  <2>3. CASE v # u
    BY <2>1, <2>2, <2>3, BumpFacts
  <2>4. CASE v = u /\ g = Grant(r)
    BY <2>1, <2>2, <2>4, BumpFacts DEF Bumped
  <2>5. CASE v = u /\ g # Grant(r)
    <3>1. fate'[g] = "racing"
      BY <2>1, <2>2, <2>5, BumpFacts
    <3>2. QED
      BY <2>1, <3>1
  <2>6. QED
    BY <2>3, <2>4, <2>5
<1>4. req[p].pc = "delete" => row'[req[p].target].state # "unborn"
  BY BumpFacts DEF RequestOK, Bumped
<1>5. QED
  BY <1>2, <1>3, <1>4 DEF RequestOK

LEMMA BumpStep ==
    ASSUME IInv, NEW r \in Requests, NEW u, NEW role, NEW mfa, Bumped(r, u, role, mfa),
           NEW q \in Request, req' = [req EXCEPT ![r] = q], RequestOK(req[r])'
    PROVE  IInv'
<1> USE DEF IInv
<1>1. /\ req' \in [Requests -> Request]
      /\ \A p \in Requests : p # r => req'[p] = req[p]
  BY DEF TypeOK
<1>2. TypeOK' /\ Pristine'
  BY <1>1, BumpFacts DEF TypeOK, Bumped
<1>3. StoreOK'
  <2> SUFFICES ASSUME NEW s \in Sids PROVE CopyOK(store[s].ident)' /\ FactorOK(store[s].ident)'
    BY DEF StoreOK
  <2>1. \A i : i = store'[s].ident /\ CopyOK(i)' /\ FactorOK(i)' => CopyOK(store[s].ident)' /\ FactorOK(store[s].ident)'
    BY DEF CopyOK, FactorOK
  <2>2. CopyOK(store[s].ident) /\ FactorOK(store[s].ident) /\ store'[s] = store[s]
    BY DEF StoreOK, Bumped
  <2>3. QED
    BY <2>1, <2>2, BumpIdentity
<1>4. RequestsOK'
  <2> SUFFICES ASSUME NEW p \in Requests, p # r PROVE RequestOK(req[p])'
    BY DEF RequestsOK
  <2>1. RequestOK(req[p]) /\ req'[p] = req[p]
    BY <1>1 DEF RequestsOK
  <2>2. QED
    BY <2>1, BumpRequest
<1>5. QED
  BY <1>2, <1>3, <1>4

\* A session refreshed from the row its own transaction returned is in order.
LEMMA RefreshedOK ==
    ASSUME IInv, NEW r \in Requests, NEW u, NEW role, NEW mfa, Bumped(r, u, role, mfa),
           req[r].pc \in {"update", "password"}, u = Uid(r), mfa = row[u].mfa
    PROVE  /\ Refreshed(r, u, role) \in Record
           /\ \A i : i = Refreshed(r, u, role).ident => CopyOK(i)' /\ FactorOK(i)'
<1> DEFINE i == [uid |-> u, role |-> role, authz |-> row[u].authz + 1, grant |-> Grant(r)]
<1>1. /\ req[r].data \in Record /\ CopyOK(req[r].data.ident) /\ RefreshOK(req[r])
      /\ req[r].data.ident # Nobody
  BY Known DEF RequestOK, Bumped
<1>2. /\ u \in Users /\ role \in Roles /\ Grant(r) \in Grants /\ owner[Grant(r)] = u /\ Grant(r) < nextGrant
      /\ row'[u] \in Row
  BY <1>1, BumpFacts DEF CopyOK, Identity, Uid, Grant, Bumped
<1>3. /\ row'[u].authz = row[u].authz + 1 /\ row'[u].role = role /\ row'[u].mfa = row[u].mfa
      /\ row'[u].state = "live" /\ fate'[Grant(r)] = fate[Grant(r)] /\ proved \subseteq proved'
  BY <1>2, BumpFacts
<1>4. /\ i \in Identity /\ i.uid = u /\ i.role = role /\ i.authz = row'[u].authz /\ i.grant = Grant(r)
  BY <1>2, <1>3 DEF Identity, Row
<1>5. Refreshed(r, u, role) \in Record /\ Refreshed(r, u, role).ident = i
  BY <1>1, <1>4 DEF Refreshed, Record
<1> HIDE DEF i
<1>6. fate[Grant(r)] # "revoked" /\ (row[u].mfa => Grant(r) \in proved \/ fate[Grant(r)] = "racing")
  BY <1>1 DEF RefreshOK, Uid, Grant
<1>7. row'[u].authz \in Nat
  BY <1>2 DEF Row, Epochs
<1>8. ASSUME NEW j, j = i PROVE CopyOK(j)' /\ FactorOK(j)'
  BY <1>2, <1>3, <1>4, <1>6, <1>7, <1>8 DEF CopyOK, FactorOK, Bumped
<1>9. QED
  BY <1>5, <1>8

LEMMA UpdateStep ==
    ASSUME IInv, NEW r \in Requests, NEW role \in Roles, UpdateTx(r, role)
    PROVE  IInv'
<1> DEFINE u == req[r].target
           d == IF u = Uid(r) THEN Refreshed(r, u, role) ELSE req[r].data
           q1 == [req[r] EXCEPT !.pc = "revoke", !.data = d]
           q2 == [req[r] EXCEPT !.pc = "save", !.data = d, !.dirty = req[r].dirty,
                                !.target = NoUser, !.seen = "admin", !.snap = Nobody]
<1>1. /\ req[r] \in Request /\ RequestOK(req[r]) /\ req[r].data \in Record
      /\ req[r].pc = "update" /\ u \in Users /\ req[r].data.ident # Nobody
  BY Known DEF UpdateTx, RequestOK, RefreshOK
<1>2. row[u].mfa \in BOOLEAN
  BY <1>1 DEF IInv, TypeOK, Row
<1>3. Bumped(r, u, role, row[u].mfa)
  BY <1>1, <1>2 DEF UpdateTx, Bumped
<1>4. d \in Record /\ \A i : i = d.ident => CopyOK(i)' /\ FactorOK(i)'
  <2>1. CASE u = Uid(r)
    BY <1>1, <1>3, <2>1, RefreshedOK
  <2>2. CASE u # Uid(r)
    BY <1>1, <1>3, <2>2, BumpIdentity DEF RequestOK
  <2>3. QED
    BY <2>1, <2>2
<1>5. req' = [req EXCEPT ![r] = q1] \/ req' = [req EXCEPT ![r] = q2]
  BY DEF UpdateTx, Become, Return
<1> HIDE DEF d
<1>6. /\ q1 \in Request /\ q1.pc = "revoke" /\ q1.data = d /\ q1.snap = req[r].snap /\ q1.target = u
  BY <1>1, <1>4 DEF Request, Pcs
<1>7. /\ q2 \in Request /\ q2.pc = "save" /\ q2.data = d /\ q2.snap = Nobody
  BY <1>1, <1>4, AuthorityConstants DEF Request, Pcs
<1> HIDE DEF q1, q2
<1>8. PICK q \in Request : /\ req' = [req EXCEPT ![r] = q] /\ q.data = d /\ q.snap \in {req[r].snap, Nobody}
                           /\ q.pc = "save" \/ (q.pc = "revoke" /\ q.target = u)
  BY <1>5, <1>6, <1>7
<1>9. req'[r] = q
  BY <1>8 DEF IInv, TypeOK
<1>10. RequestOK(req[r])'
  <2>1. CopyOK(req[r].data.ident)' /\ FactorOK(req[r].data.ident)'
    <3>1. \A i : i = req'[r].data.ident /\ CopyOK(i)' /\ FactorOK(i)' => CopyOK(req[r].data.ident)' /\ FactorOK(req[r].data.ident)'
      BY DEF CopyOK, FactorOK
    <3>2. QED
      BY <1>4, <1>8, <1>9, <3>1
  <2>2. CopyOK(req[r].snap)'
    <3>1. \A i : i = req'[r].snap /\ CopyOK(i)' => CopyOK(req[r].snap)'
      BY DEF CopyOK
    <3>2. CopyOK(req[r].snap) /\ CopyOK(Nobody)
      BY <1>1, NobodyOK DEF RequestOK
    <3>3. QED
      BY <1>3, <1>8, <1>9, <3>1, <3>2, BumpIdentity
  <2>3. QED
    BY <1>1, <1>8, <1>9, <2>1, <2>2 DEF RequestOK, RefreshOK
<1>11. QED
  BY <1>3, <1>8, <1>10, BumpStep

LEMMA PasswordStep ==
    ASSUME IInv, NEW r \in Requests, PasswordTx(r)
    PROVE  IInv'
<1> DEFINE u == req[r].target
           d == Refreshed(r, u, row[u].role)
           q1 == [req[r] EXCEPT !.pc = "revoke_others", !.data = d, !.dirty = TRUE]
           q2 == [req[r] EXCEPT !.pc = "save", !.data = d, !.dirty = TRUE,
                                !.target = NoUser, !.seen = "admin", !.snap = Nobody]
<1>1. /\ req[r] \in Request /\ RequestOK(req[r])
      /\ req[r].pc = "password" /\ u = Uid(r) /\ u \in Users /\ req[r].data.ident # Nobody
  BY Known DEF PasswordTx, RequestOK, RefreshOK, Uid, CopyOK, Identity
<1>2. row[u].mfa \in BOOLEAN /\ row[u].role \in Roles
  BY <1>1 DEF IInv, TypeOK, Row
<1>3. Bumped(r, u, row[u].role, row[u].mfa)
  BY <1>1, <1>2 DEF PasswordTx, Bumped
<1>4. d \in Record /\ \A i : i = d.ident => CopyOK(i)' /\ FactorOK(i)'
  BY <1>1, <1>3, RefreshedOK
<1>5. req' = [req EXCEPT ![r] = q1] \/ req' = [req EXCEPT ![r] = q2]
  BY DEF PasswordTx, Become, Return
<1> HIDE DEF d
<1>6. /\ q1 \in Request /\ q1.pc = "revoke_others" /\ q1.data = d /\ q1.snap = req[r].snap /\ q1.target = u
  BY <1>1, <1>4 DEF Request, Pcs
<1>7. /\ q2 \in Request /\ q2.pc = "save" /\ q2.data = d /\ q2.snap = Nobody
  BY <1>1, <1>4, AuthorityConstants DEF Request, Pcs
<1> HIDE DEF q1, q2
<1>8. PICK q \in Request : /\ req' = [req EXCEPT ![r] = q] /\ q.data = d /\ q.snap \in {req[r].snap, Nobody}
                           /\ q.pc = "save" \/ (q.pc = "revoke_others" /\ q.target = u)
  BY <1>5, <1>6, <1>7
<1>9. req'[r] = q
  BY <1>8 DEF IInv, TypeOK
<1>10. RequestOK(req[r])'
  <2>1. CopyOK(req[r].data.ident)' /\ FactorOK(req[r].data.ident)'
    <3>1. \A i : i = req'[r].data.ident /\ CopyOK(i)' /\ FactorOK(i)' => CopyOK(req[r].data.ident)' /\ FactorOK(req[r].data.ident)'
      BY DEF CopyOK, FactorOK
    <3>2. QED
      BY <1>4, <1>8, <1>9, <3>1
  <2>2. CopyOK(req[r].snap)'
    <3>1. \A i : i = req'[r].snap /\ CopyOK(i)' => CopyOK(req[r].snap)'
      BY DEF CopyOK
    <3>2. CopyOK(req[r].snap) /\ CopyOK(Nobody)
      BY <1>1, NobodyOK DEF RequestOK
    <3>3. QED
      BY <1>3, <1>8, <1>9, <3>1, <3>2, BumpIdentity
  <2>3. QED
    BY <1>1, <1>8, <1>9, <2>1, <2>2 DEF RequestOK, RefreshOK
<1>11. QED
  BY <1>3, <1>8, <1>10, BumpStep

LEMMA MfaStep ==
    ASSUME IInv, NEW r \in Requests, NEW mfa \in BOOLEAN, MfaTx(r, mfa)
    PROVE  IInv'
<1> DEFINE u == req[r].target
           g == Grant(r)
           q == [req[r] EXCEPT !.pc = "refresh"]
<1>1. /\ req[r] \in Request /\ RequestOK(req[r])
      /\ req[r].pc \in {"confirm", "disable", "regenerate"} /\ MfaResult(r, mfa)
      /\ u = Uid(r) /\ u \in Users /\ req[r].data.ident # Nobody
  BY Known DEF MfaTx, MfaResult, RequestOK, RefreshOK, Uid, CopyOK, Identity
<1>2. row[u].role \in Roles
  BY <1>1 DEF IInv, TypeOK, Row
<1>3. Bumped(r, u, row[u].role, mfa)
  BY <1>1, <1>2 DEF MfaTx, MfaResult, Bumped
<1>4. /\ q \in Request /\ q.pc = "refresh" /\ q.data = req[r].data /\ q.snap = req[r].snap
  BY <1>1 DEF Request, Pcs
<1>5. req' = [req EXCEPT ![r] = q] /\ req'[r] = q
  BY DEF MfaTx, Goto, Become, IInv, TypeOK
<1>6. /\ fate[g] # "revoked" /\ (row[u].mfa => g \in proved \/ fate[g] = "racing")
  BY <1>1 DEF RequestOK, RefreshOK, Uid, Grant
<1>7. fate'[g] = fate[g] /\ proved \subseteq proved' /\ row'[u].mfa = mfa
  BY <1>3, BumpFacts
<1>8. /\ fate'[g] # "revoked"
      /\ row'[u].mfa => g \in proved' \/ fate'[g] = "racing"
  BY <1>1, <1>6, <1>7 DEF MfaTx, MfaResult
<1> HIDE DEF q
<1>9. RequestOK(req[r])'
  <2>1. CopyOK(req[r].data.ident)' /\ FactorOK(req[r].data.ident)' /\ CopyOK(req[r].snap)'
    <3>1. /\ \A i : i = req'[r].data.ident /\ CopyOK(i)' /\ FactorOK(i)' => CopyOK(req[r].data.ident)' /\ FactorOK(req[r].data.ident)'
          /\ \A i : i = req'[r].snap /\ CopyOK(i)' => CopyOK(req[r].snap)'
      BY DEF CopyOK, FactorOK
    <3>2. CopyOK(req[r].data.ident) /\ FactorOK(req[r].data.ident) /\ CopyOK(req[r].snap)
      BY <1>1 DEF RequestOK
    <3>3. QED
      BY <1>3, <1>4, <1>5, <3>1, <3>2, BumpIdentity
  <2>2. RefreshOK(req[r])'
    BY <1>1, <1>4, <1>5, <1>8 DEF RefreshOK, Uid, Grant
  <2>3. QED
    BY <1>4, <1>5, <2>1, <2>2 DEF RequestOK
<1>10. QED
  BY <1>3, <1>4, <1>5, <1>9, BumpStep

LEMMA TransactStep ==
    ASSUME IInv, NEW r \in Requests, Transact(r)
    PROVE  IInv'
<1>1. CASE MfaRefused(r)
  BY <1>1, Known, Responds DEF MfaRefused, Respond, history
<1>2. QED
  BY <1>1, RowStep, UpdateStep, PasswordStep, MfaStep DEF Transact

-----------------------------------------------------------------------------
LEMMA NextIInv ==
    ASSUME IInv, [Next]_vars
    PROVE  IInv'
<1>1. CASE UNCHANGED vars
  <2>1. /\ row' = row /\ store' = store /\ nextSid' = nextSid /\ req' = req
        /\ owner' = owner /\ nextGrant' = nextGrant /\ fate' = fate /\ proved' = proved
    BY <1>1 DEF vars
  <2>2. TypeOK' /\ Pristine'
    BY <2>1 DEF IInv, TypeOK, Pristine
  <2>3. StoreOK'
    BY <2>1 DEF IInv, StoreOK, CopyOK, FactorOK
  <2>4. RequestsOK'
    <3>1. AuthorityKept
      BY <2>1 DEF AuthorityKept, IInv, TypeOK
    <3>2. QED
      BY <2>1, <2>2, <3>1, KeptRequests
  <2>5. QED
    BY <2>2, <2>3, <2>4 DEF IInv
<1>2. CASE Next
  BY <1>2, ArriveStep, SignInStep, GuardStep, HandleStep, TransactStep, EndStep, ExpiryStep DEF Next
<1>3. QED
  BY <1>1, <1>2

\* The inductive invariant: every copy of an identity, stored or in flight, is a
\* copy of a past or present operators row, and what the guard has let through
\* stays covered by the history until its last refresh.
THEOREM Invariance == Spec => []IInv
  BY InitIInv, NextIInv, PTL DEF Spec

\* Type correctness of the two tables and of the requests in flight.
THEOREM TypeCorrect == Spec => []TypeOK
<1>1. IInv => TypeOK
  BY DEF IInv
<1>2. QED
  BY <1>1, Invariance, PTL

\* Every identity that can be presented to the guard is in order.
LEMMA PresentableOK ==
    ASSUME IInv, NEW i \in Presentable, i.uid # NoUser
    PROVE  i # Nobody /\ CopyOK(i) /\ FactorOK(i) /\ i \in Identity
<1>1. CopyOK(i) /\ FactorOK(i)
  BY DEF IInv, StoreOK, RequestsOK, RequestOK, Presentable
<1>2. i # Nobody
  BY DEF Nobody
<1>3. QED
  BY <1>1, <1>2 DEF CopyOK

\* The authorization epoch makes revocation final, with or without the cleanup
\* of the session table, for every interleaving of requests.
THEOREM Revocation == Spec => []RevokedStaysOut
<1>1. IInv => RevokedStaysOut
  <2> SUFFICES ASSUME IInv, NEW i \in Presentable, i.uid # NoUser, fate[i.grant] = "revoked"
               PROVE  ~Usable(i)
    BY DEF RevokedStaysOut
  <2>1. i.authz < row[i.uid].authz /\ i.authz \in Nat /\ row[i.uid].authz \in Nat
    BY PresentableOK DEF CopyOK, Identity, Epochs, IInv, TypeOK, Row
  <2>2. QED
    BY <2>1 DEF Usable
<1>2. QED
  BY <1>1, Invariance, PTL

\* The role comparison of authorized_role follows from the epoch comparison.
THEOREM EpochRole == Spec => []EpochDeterminesRole
<1>1. IInv => EpochDeterminesRole
  <2> SUFFICES ASSUME IInv, NEW i \in Presentable, i.uid # NoUser, Live(i.uid), i.authz >= row[i.uid].authz
               PROVE  i.authz = row[i.uid].authz /\ i.role = row[i.uid].role
    BY DEF EpochDeterminesRole
  <2>1. i.authz <= row[i.uid].authz /\ i.authz \in Nat /\ row[i.uid].authz \in Nat
    BY PresentableOK DEF CopyOK, Identity, Epochs, IInv, TypeOK, Row
  <2>2. i.authz = row[i.uid].authz
    BY <2>1
  <2>3. QED
    BY <2>2, PresentableOK DEF CopyOK
<1>2. QED
  BY <1>1, Invariance, PTL

\* No interleaving of sign-ins and enrollments leaves a session that works and
\* never met the second factor, except one that was itself in the middle of a
\* change when it was overtaken.
THEOREM SecondFactor == Spec => []SecondFactorBehindSession
<1>1. IInv => SecondFactorBehindSession
  <2> SUFFICES ASSUME IInv, NEW i \in Presentable, Usable(i), row[i.uid].mfa
               PROVE  i.grant \in proved \/ fate[i.grant] = "racing"
    BY DEF SecondFactorBehindSession
  <2>1. QED
    BY PresentableOK DEF FactorOK, Usable
<1>2. QED
  BY <1>1, Invariance, PTL

-----------------------------------------------------------------------------
\* The grants some row, record or sign-in holds.  A step takes none out of the
\* air: what it holds was held before, or is the next sign-in.
Held(g) ==
    \/ \E s \in Sids : store[s].ident.grant = g
    \/ \E r \in Requests : g \in {req[r].data.ident.grant, req[r].snap.grant}

\* A sign-in that was logged out is held nowhere.
OutInv == \A g \in Grants : fate[g] = "out" => ~Held(g)

LEMMA Holders ==
    /\ \A s \in Sids : Held(store[s].ident.grant)
    /\ \A r \in Requests : Held(req[r].data.ident.grant) /\ Held(req[r].snap.grant)
  BY DEF Held

\* A step of request r that logs nobody out and whose rows and records hold only
\* what was held, or the next sign-in.
LEMMA OutKept ==
    ASSUME TypeOK, Pristine, OutInv, NEW r \in Requests,
           NEW q, req' = [req EXCEPT ![r] = q],
           \A g \in Grants : fate'[g] = "out" => fate[g] = "out",
           q.data.ident.grant = 0 \/ Held(q.data.ident.grant),
           q.snap.grant \in {0, nextGrant} \/ Held(q.snap.grant),
           \A s \in Sids : store'[s].ident.grant = 0 \/ Held(store'[s].ident.grant)
    PROVE  OutInv'
<1> SUFFICES ASSUME NEW g \in Grants, fate'[g] = "out" PROVE ~Held(g)'
  BY DEF OutInv
<1>1. fate[g] = "out" /\ ~Held(g) /\ g # 0
  BY DEF OutInv, Grants
<1>2. g # nextGrant
  BY <1>1 DEF Pristine, TypeOK, Grants
<1>3. /\ req'[r] = q
      /\ \A p \in Requests : p # r => req'[p] = req[p]
  BY DEF TypeOK
<1>4. \A s \in Sids : store'[s].ident.grant # g
  BY <1>1
<1>5. \A p \in Requests : req'[p].data.ident.grant # g /\ req'[p].snap.grant # g
  BY <1>1, <1>2, <1>3, Holders
<1>6. QED
  BY <1>4, <1>5 DEF Held

\* The same for the steps that leave the rows alone or delete some.
LEMMA OutKeptRows ==
    ASSUME TypeOK, Pristine, OutInv, NEW r \in Requests,
           NEW q, req' = [req EXCEPT ![r] = q],
           \A g \in Grants : fate'[g] = "out" => fate[g] = "out",
           q.data.ident.grant = 0 \/ Held(q.data.ident.grant),
           q.snap.grant \in {0, nextGrant} \/ Held(q.snap.grant),
           \A s \in Sids : store'[s] \in {store[s], Gone}
    PROVE  OutInv'
<1>1. \A s \in Sids : store'[s].ident.grant = 0 \/ Held(store'[s].ident.grant)
  BY Holders DEF Gone, Nobody
<1>2. QED
  BY <1>1, OutKept

LEMMA OutLogout ==
    ASSUME IInv, OutInv, NEW r \in Requests, Logout(r)
    PROVE  OutInv'
<1> SUFFICES ASSUME NEW g \in Grants, fate'[g] = "out" PROVE ~Held(g)'
  BY DEF OutInv
<1>1. /\ req'[r] = Idle
      /\ \A p \in Requests : p # r => req'[p] = req[p]
  BY DEF IInv, TypeOK, Logout, Finish, Become
<1>2. \A s \in Sids : store'[s] = IF s = req[r].sid THEN Gone ELSE store[s]
  BY DEF Logout, DeleteRow
<1>3. g # 0
  BY DEF Grants
<1>4. CASE fate[g] = "out"
  <2>1. ~Held(g)
    BY <1>4 DEF OutInv
  <2>2. \A s \in Sids : store'[s].ident.grant # g
    BY <2>1, <1>2, <1>3, Holders DEF Gone, Nobody
  <2>3. \A p \in Requests : req'[p].data.ident.grant # g /\ req'[p].snap.grant # g
    BY <2>1, <1>1, <1>3, Holders DEF Idle, Gone, Nobody
  <2>4. QED
    BY <2>2, <2>3 DEF Held
<1>5. CASE fate[g] # "out"
  <2>1. g = Grant(r) /\ Alone(r)
    BY <1>5 DEF Logout, LoggedOut, IInv, TypeOK
  <2>2. \A s \in Sids : store'[s].ident.grant # g
    BY <2>1, <1>2, <1>3 DEF Alone, Gone, Nobody
  <2>3. \A p \in Requests : req'[p].data.ident.grant # g /\ req'[p].snap.grant # g
    BY <2>1, <1>1, <1>3 DEF Alone, Grant, Idle, Gone, Nobody
  <2>4. QED
    BY <2>2, <2>3 DEF Held
<1>6. QED
  BY <1>4, <1>5

\* What a request holds after the steps that use these operators.
LEMMA OutBecome ==
    ASSUME IInv, OutInv, NEW r \in Requests, NEW q, Become(r, q),
           \A g \in Grants : fate'[g] = "out" => fate[g] = "out",
           q.data.ident.grant \in {0, req[r].data.ident.grant, req[r].snap.grant},
           q.snap.grant \in {0, req[r].snap.grant, nextGrant},
           \A s \in Sids : store'[s] \in {store[s], Gone}
    PROVE  OutInv'
<1>1. /\ q.data.ident.grant = 0 \/ Held(q.data.ident.grant)
      /\ q.snap.grant \in {0, nextGrant} \/ Held(q.snap.grant)
  BY Holders
<1>2. QED
  BY <1>1, OutKeptRows DEF IInv, Become

LEMMA OutReturn ==
    ASSUME IInv, OutInv, NEW r \in Requests, NEW d, NEW dirty, Return(r, d, dirty),
           \A g \in Grants : fate'[g] = "out" => fate[g] = "out",
           d.ident.grant = Grant(r),
           \A s \in Sids : store'[s] \in {store[s], Gone}
    PROVE  OutInv'
<1> DEFINE q == [req[r] EXCEPT !.pc = "save", !.data = d, !.dirty = dirty,
                              !.target = NoUser, !.seen = "admin", !.snap = Nobody]
<1>1. Become(r, q)
  BY DEF Return
<1>2. q.data = d /\ q.snap = Nobody
  BY DEF IInv, TypeOK, Request
<1>3. q.data.ident.grant = req[r].data.ident.grant /\ q.snap.grant = 0
  BY <1>2 DEF Grant, Nobody
<1> HIDE DEF q
<1>4. QED
  BY <1>1, <1>3, OutBecome

\* Steps that move request r on and leave its record and its sign-in alone.
LEMMA OutMove ==
    ASSUME IInv, OutInv, NEW r \in Requests, NEW q, Become(r, q),
           \A g \in Grants : fate'[g] = "out" => fate[g] = "out",
           q.data.ident.grant = Grant(r), q.snap = req[r].snap,
           \A s \in Sids : store'[s] \in {store[s], Gone}
    PROVE  OutInv'
<1>1. q.data.ident.grant = req[r].data.ident.grant /\ q.snap.grant = req[r].snap.grant
  BY DEF Grant
<1>2. QED
  BY <1>1, OutBecome

LEMMA OutFinish ==
    ASSUME IInv, OutInv, NEW r \in Requests, Finish(r), UNCHANGED fate,
           \A s \in Sids : store'[s] \in {store[s], Gone}
    PROVE  OutInv'
<1>1. Become(r, Idle) /\ Idle.data.ident.grant = 0 /\ Idle.snap.grant = 0
  BY DEF Finish, Idle, Gone, Nobody
<1>2. QED
  BY <1>1, OutBecome

LEMMA OutArrive ==
    ASSUME IInv, OutInv, NEW r \in Requests, Arrive(r)
    PROVE  OutInv'
<1>1. CASE Visit(r)
  <2> DEFINE q == [Idle EXCEPT !.pc = "loaded"]
  <2>1. Become(r, q) /\ q.data.ident.grant = 0 /\ q.snap.grant = 0
    BY <1>1 DEF Visit, Idle, Gone, Nobody
  <2>2. QED
    BY <1>1, <2>1, OutBecome DEF Visit, history
<1>2. ASSUME NEW s \in Sids, Load(r, s) PROVE OutInv'
  <2> DEFINE q == [Idle EXCEPT !.pc = "loaded", !.sid = s, !.data = store[s]]
  <2>1. req' = [req EXCEPT ![r] = q] /\ q.data = store[s] /\ q.snap.grant = 0
    BY <1>2 DEF Load, Become, Idle, Nobody
  <2>2. Held(q.data.ident.grant)
    BY <2>1, Holders
  <2>3. QED
    BY <1>2, <2>1, <2>2, OutKeptRows DEF Load, history, IInv
<1>3. QED
  BY <1>1, <1>2 DEF Arrive

LEMMA OutGuard ==
    ASSUME IInv, OutInv, NEW r \in Requests, Guard(r)
    PROVE  OutInv'
<1>1. CASE GuardRejects(r)
  BY <1>1, OutFinish DEF GuardRejects, DeleteRow, history
<1>2. CASE GuardAccepts(r)
  <2>1. PICK q \in {[req[r] EXCEPT !.pc = "handler"],
                    [req[r] EXCEPT !.pc = "handler", !.sid = 0, !.dirty = TRUE]} : Become(r, q)
    BY <1>2 DEF GuardAccepts, Goto
  <2>2. q.data = req[r].data /\ q.snap = req[r].snap
    BY <2>1 DEF IInv, TypeOK, Request
  <2>3. \A s \in Sids : store'[s] \in {store[s], Gone}
    BY <1>2 DEF GuardAccepts, DeleteRow
  <2>4. QED
    BY <1>2, <2>1, <2>2, <2>3, OutMove DEF GuardAccepts, history, Grant
<1>3. QED
  BY <1>1, <1>2 DEF Guard

LEMMA OutHandle ==
    ASSUME IInv, OutInv, NEW r \in Requests, Handle(r)
    PROVE  OutInv'
<1>1. ASSUME NEW stepUp \in BOOLEAN, Serve(r, stepUp) PROVE OutInv'
  BY <1>1, OutReturn DEF Serve, history, Grant
<1>2. ASSUME NEW pc, NEW u, NEW seen, StepUp(r, pc, u, seen) PROVE OutInv'
  <2> DEFINE q == [req[r] EXCEPT !.pc = pc, !.dirty = TRUE, !.target = u, !.seen = seen]
  <2>1. Become(r, q) /\ q.data = req[r].data /\ q.snap = req[r].snap
    BY <1>2 DEF StepUp, IInv, TypeOK, Request
  <2>2. QED
    BY <1>2, <2>1, OutMove DEF StepUp, history, Grant
<1>3. ASSUME NEW pc, PrepareOwn(r, pc) PROVE OutInv'
  <2> DEFINE q == [req[r] EXCEPT !.pc = pc, !.target = Uid(r)]
  <2>1. Become(r, q) /\ q.data = req[r].data /\ q.snap = req[r].snap
    BY <1>3 DEF PrepareOwn, IInv, TypeOK, Request
  <2>2. QED
    BY <1>3, <2>1, OutMove DEF PrepareOwn, history, Grant
<1>4. QED
  BY <1>1, <1>2, <1>3, OutLogout DEF Handle, PrepareInsert, PrepareDelete, PrepareUpdate, PrepareMfa

LEMMA OutSignIn ==
    ASSUME IInv, OutInv, NEW r \in Requests, SignIn(r)
    PROVE  OutInv'
<1>1. ASSUME NEW u, NEW pc, BeginGrant(r, u, pc) PROVE OutInv'
  <2> DEFINE q == [req[r] EXCEPT !.pc = pc, !.snap = IdentityOf(u, nextGrant)]
  <2>1. Become(r, q) /\ q.data = req[r].data /\ q.snap.grant = nextGrant
    BY <1>1 DEF BeginGrant, IdentityOf, IInv, TypeOK, Request
  <2>2. QED
    BY <1>1, <2>1, OutBecome DEF BeginGrant
<1>2. ASSUME NEW d, Become(r, NewSession(d)), DeleteRow(req[r].sid), UNCHANGED fate,
             d.ident \in {req[r].data.ident, req[r].snap}
      PROVE  OutInv'
  <2>1. NewSession(d).data = d /\ NewSession(d).snap = Nobody
    BY DEF NewSession, Idle
  <2>2. \A s \in Sids : store'[s] \in {store[s], Gone}
    BY <1>2 DEF DeleteRow
  <2>3. QED
    BY <1>2, <2>1, <2>2, OutBecome DEF Nobody
<1>3. CASE LoginFinish(r)
  <2>1. CASE row[req[r].snap.uid].mfa
    <3> DEFINE d == [req[r].data EXCEPT !.pend = req[r].snap.uid]
    <3>1. d.ident = req[r].data.ident
      BY DEF IInv, TypeOK, Request, Record
    <3>2. QED
      BY <1>3, <2>1, <3>1, <1>2 DEF LoginFinish, history
  <2>2. CASE ~row[req[r].snap.uid].mfa
    BY <1>3, <2>2, <1>2 DEF LoginFinish, Establish, history
  <2>3. QED
    BY <2>1, <2>2
<1>4. CASE MfaAccountGone(r)
  BY <1>4, OutFinish DEF MfaAccountGone, DeleteRow, history
<1>5. CASE MfaExpired(r)
  <2> DEFINE d == [req[r].data EXCEPT !.pend = NoUser]
  <2>1. d.ident = req[r].data.ident
    BY DEF IInv, TypeOK, Request, Record
  <2>2. QED
    BY <1>5, <2>1, OutReturn DEF MfaExpired, history, Grant
<1>6. CASE MfaCodeAccepted(r)
  BY <1>6, <1>2 DEF MfaCodeAccepted, Establish
<1>7. QED
  BY <1>1, <1>3, <1>4, <1>5, <1>6 DEF SignIn, LoginPassword, MfaChallenge

\* A change of authority logs nobody out.
LEMMA OvertakeOut ==
    ASSUME NEW r \in Requests, NEW u, Overtake(r, u)
    PROVE  \A g \in Grants : fate'[g] = "out" => fate[g] = "out"
  BY DEF Overtake

LEMMA OutTransact ==
    ASSUME IInv, OutInv, NEW r \in Requests, Transact(r)
    PROVE  OutInv'
<1>0. ASSUME NEW pc, Goto(r, pc), UNCHANGED store,
             \A g \in Grants : fate'[g] = "out" => fate[g] = "out"
      PROVE  OutInv'
  <2> DEFINE q == [req[r] EXCEPT !.pc = pc]
  <2>1. Become(r, q) /\ q.data = req[r].data /\ q.snap = req[r].snap
    BY <1>0 DEF Goto, IInv, TypeOK, Request
  <2>2. QED
    BY <1>0, <2>1, OutMove DEF Grant
<1>00. ASSUME Respond(r), UNCHANGED <<store, fate>> PROVE OutInv'
  BY <1>00, OutReturn DEF Respond, Grant
<1>1. ASSUME NEW u \in Users, NEW role \in Roles, InsertTx(r, u, role) PROVE OutInv'
  BY <1>1, <1>00 DEF InsertTx, history
<1>2. CASE DeleteTx(r)
  BY <1>2, <1>0 DEF DeleteTx, history
<1>3. CASE EnrollTx(r) \/ MfaRefused(r)
  BY <1>3, <1>00 DEF EnrollTx, MfaRefused, history
<1>4. ASSUME NEW mfa \in BOOLEAN, MfaTx(r, mfa) PROVE OutInv'
  BY <1>4, <1>0, OvertakeOut DEF MfaTx
<1>5. ASSUME NEW u, NEW role PROVE Refreshed(r, u, role).ident.grant = Grant(r)
  BY DEF Refreshed, IInv, TypeOK, Request, Record
<1>6. ASSUME NEW d, NEW q \in {[req[r] EXCEPT !.pc = "revoke", !.data = d],
                               [req[r] EXCEPT !.pc = "revoke_others", !.data = d, !.dirty = TRUE]},
             Become(r, q), d.ident.grant = Grant(r), UNCHANGED store,
             \A g \in Grants : fate'[g] = "out" => fate[g] = "out"
      PROVE  OutInv'
  <2>0. req[r] \in Request
    BY DEF IInv, TypeOK
  <2>1. CASE q = [req[r] EXCEPT !.pc = "revoke", !.data = d]
    <3>1. q.data = d /\ q.snap = req[r].snap
      BY <2>0, <2>1 DEF Request
    <3>2. QED
      BY <1>6, <3>1, OutMove
  <2>2. CASE q = [req[r] EXCEPT !.pc = "revoke_others", !.data = d, !.dirty = TRUE]
    <3>1. q.data = d /\ q.snap = req[r].snap
      BY <2>0, <2>2 DEF Request
    <3>2. QED
      BY <1>6, <3>1, OutMove
  <2>3. QED
    BY <1>6, <2>1, <2>2
<1>7. ASSUME NEW role \in Roles, UpdateTx(r, role) PROVE OutInv'
  <2> DEFINE u == req[r].target
             d == IF u = Uid(r) THEN Refreshed(r, u, role) ELSE req[r].data
  <2>1. d.ident.grant = Grant(r)
    BY <1>5 DEF Grant
  <2>2. \A g \in Grants : fate'[g] = "out" => fate[g] = "out"
    BY <1>7, OvertakeOut DEF UpdateTx
  <2>3. \/ Become(r, [req[r] EXCEPT !.pc = "revoke", !.data = d])
        \/ Return(r, d, req[r].dirty)
    BY <1>7 DEF UpdateTx
  <2>4. UNCHANGED store
    BY <1>7 DEF UpdateTx
  <2> HIDE DEF d
  <2>5. QED
    BY <2>1, <2>2, <2>3, <2>4, <1>6, OutReturn
<1>8. CASE PasswordTx(r)
  <2> DEFINE u == req[r].target
             d == Refreshed(r, u, row[u].role)
  <2>1. d.ident.grant = Grant(r)
    BY <1>5
  <2>2. \A g \in Grants : fate'[g] = "out" => fate[g] = "out"
    BY <1>8, OvertakeOut DEF PasswordTx
  <2>3. \/ Become(r, [req[r] EXCEPT !.pc = "revoke_others", !.data = d, !.dirty = TRUE])
        \/ Return(r, d, TRUE)
    BY <1>8 DEF PasswordTx
  <2>4. UNCHANGED store
    BY <1>8 DEF PasswordTx
  <2> HIDE DEF d
  <2>5. QED
    BY <2>1, <2>2, <2>3, <2>4, <1>6, OutReturn
<1>9. QED
  BY <1>1, <1>2, <1>3, <1>4, <1>7, <1>8 DEF Transact

LEMMA OutEnd ==
    ASSUME IInv, OutInv, NEW r \in Requests, End(r)
    PROVE  OutInv'
<1>1. CASE RefreshCurrent(r)
  <2> DEFINE d == [req[r].data EXCEPT !.ident = IdentityOf(Uid(r), Grant(r))]
  <2>1. d.ident.grant = Grant(r)
    BY DEF IdentityOf, IInv, TypeOK, Request, Record
  <2>2. Return(r, d, TRUE) /\ UNCHANGED <<store, fate>>
    BY <1>1 DEF RefreshCurrent, history
  <2> HIDE DEF d
  <2>3. QED
    BY <2>1, <2>2, OutReturn
<1>2. ASSUME NEW works \in BOOLEAN, Revoke(r, works) PROVE OutInv'
  <2>1. /\ Return(r, req[r].data, req[r].dirty) /\ UNCHANGED fate
        /\ \A s \in Sids : store'[s] \in {store[s], Gone}
    BY <1>2 DEF Revoke, Respond, history
  <2>2. QED
    BY <2>1, OutReturn DEF Grant
<1>3. CASE Save(r)
  <2>1. \A s \in Sids : store'[s] \in {store[s], req[r].data}
    BY <1>3 DEF Save, IInv, TypeOK
  <2>2. \A s \in Sids : store'[s].ident.grant = 0 \/ Held(store'[s].ident.grant)
    BY <2>1, Holders
  <2>3. req' = [req EXCEPT ![r] = Idle] /\ Idle.data.ident.grant = 0 /\ Idle.snap.grant = 0
    BY <1>3 DEF Save, Finish, Become, Idle, Gone, Nobody
  <2>4. QED
    BY <1>3, <2>2, <2>3, OutKept DEF IInv, Save, history
<1>4. CASE Abort(r)
  BY <1>4, OutFinish DEF Abort, history
<1>5. QED
  BY <1>1, <1>2, <1>3, <1>4 DEF End

LEMMA OutNext == IInv /\ OutInv /\ [Next]_vars => OutInv'
<1> SUFFICES ASSUME IInv, OutInv, [Next]_vars PROVE OutInv'
  OBVIOUS
<1>1. ASSUME NEW s \in Sids, RowExpires(s) PROVE OutInv'
  <2>1. /\ \A t \in Sids : store'[t] \in {store[t], Gone}
        /\ UNCHANGED <<req, fate>>
    BY <1>1 DEF RowExpires, DeleteRow, history
  <2> SUFFICES ASSUME NEW g \in Grants, fate[g] = "out" PROVE ~Held(g)'
    BY <2>1 DEF OutInv
  <2>2. ~Held(g) /\ g # 0
    BY DEF OutInv, Grants
  <2>3. \A t \in Sids : store'[t].ident.grant # g
    BY <2>1, <2>2, Holders DEF Gone, Nobody
  <2>4. QED
    BY <2>1, <2>2, <2>3 DEF Held
<1>2. CASE UNCHANGED vars
  BY <1>2 DEF vars, OutInv, Held
<1>3. QED
  BY <1>1, <1>2, OutArrive, OutSignIn, OutGuard, OutHandle, OutTransact, OutEnd DEF Next

\* LoggedOutStaysOut: after a logout that nothing else of the session overlaps, no
\* row and no request holds the session again, for any number of requests, ids and
\* rotations.
THEOREM LogoutFinal == Spec => []LoggedOutStaysOut
<1>1. Init => OutInv
  BY DEF Init, OutInv
<1>2. IInv /\ OutInv => LoggedOutStaysOut
  <2> SUFFICES ASSUME IInv, OutInv, NEW i \in Presentable, i.uid # NoUser
               PROVE  fate[i.grant] # "out"
    BY DEF LoggedOutStaysOut
  <2>1. i.grant \in Grants
    BY PresentableOK DEF CopyOK, Identity, Nobody
  <2>2. Held(i.grant)
    BY Holders DEF Presentable
  <2>3. QED
    BY <2>1, <2>2 DEF OutInv
<1>3. QED
  BY <1>1, <1>2, Invariance, OutNext, PTL DEF Spec

=============================================================================
