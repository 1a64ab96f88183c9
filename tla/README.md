# Verification of KrakenUI

KrakenUI is the web console of the KrakenWAF firewall: an axum server over one
SQLite database, with operators who sign in (password, then optionally a
one-time code), administer each other's accounts, look at attacks, edit the
firewall's modules and update the console itself from source. This directory
holds TLA+ models of the parts of it that keep state, the TLC runs that check
them on small instances, and TLAPS proofs for every instance of what matters
most. `PROJECT.json` maps every modelling definition to the source lines it
stands for, and lists the runs, the hazards, the findings and the theorems.

    tlc -workers 2 -config MCOperatorMfa.cfg MCOperatorMfa      # a run
    tlapm OperatorMfa_proofs.tla                                # the proofs of a module

## 1. Inventory

| Component | Source (under `src/src`) | State | Operations | What makes it correct |
|---|---|---|---|---|
| Two-factor authentication | `models/operator_mfa_repository.rs`, `controllers/mfa.rs`, `controllers/step_up.rs`, `mfa_verify` of `controllers/auth.rs` | TOTP row, recovery rows, `operators.mfa_enabled` | enroll, confirm, disable, regenerate, sign-in code, step-up | a code opens once; only a proved secret is active; flag and rows agree |
| Sign-in, sessions, route guard | `controllers/auth.rs`, `models/session_store.rs`, `middleware/authentication.rs` | session rows, the copy in each request, `operators.authz_version` | login, challenge, guard, rotation, logout, save, expiry | a revoked session never works again; a session's role is the account's |
| Operator administration (ACL) | `controllers/acl.rs`, `models/operator_repository.rs` | operators table | insert, update, delete, own password | unique identities; an administrator remains; changes reach the sessions |
| First administrator | `app.rs` (bootstrap), `controllers/setup.rs` | operators table, `first_time_lock` | bootstrap at start, `first_time` | one-shot; only on an empty console |
| Password storage | `services/password_crypto.rs`, `security/password.rs` | sealed records, `HASH_SLOTS` | hash, verify, rehash | a record opens for its own password only; a replaced password stays replaced; no slot is lost, nobody waits for ever |
| Request rate limiting | `middleware/rate_limit.rs`, `services/rate_limit.rs` | semaphores by address, GCRA rows (SQLite or Redis) | acquire, decide, sweep, cleanup, timeout | the ceilings hold, exactly, across restarts |
| Login throttling, account alerts | `security/rate_limit.rs` | failure windows by key and by account | check, fail, succeed, note | a bounded number of guesses; no attack unreported |
| Source updates | `services/source_update.rs`, `controllers/update.rs` | files on disk, status, `running` | start, look up, download, extract, compile, install, activate, restart | an empty executable path has a whole backup beside it; no downgrade; local files survive |
| Rule management client | `controllers/rule_management.rs`, `services/rule_management.rs`, `services/regex_rules.rs`, `setupCmcRules` of `view/static/app.js`, `view/static/regex_editor.js` | the browser's table or editor; the rules are KrakenWAF's | load, search, submit all, save a list | lists stay well-formed; "success" means applied; a confirmed edit is not undone by an earlier one |
| Attack monitor, dashboard | `controllers/waf.rs`, `controllers/dashboard.rs`, `models/vulnerability_repository.rs`, `services/waf_metrics.rs` | none | queries | - |
| Redaction | `security/redact.rs`, `view_waf_request` of `controllers/waf.rs` | none | scan, mask | a sensitive value is masked, a bare one up to a quote; nothing else is hidden |
| Sanitising, client address | `security/sanitize.rs`, `client_ip.rs` | none | pure functions | - |
| Configuration, secrets, headers, CSRF | `config.rs`, `secrets.rs`, `security/headers.rs`, `csrf.rs` | read at start-up | - | - |
| Views, browser code | `view/` | none | - | - |

**How they interact.** Every request passes the rate-limit layer, then the
session layer (which loads the session row once, and writes the request's copy
back at the end if it changed), then the route guard, then a handler. Handlers
share nothing but SQLite, two in-memory maps behind mutexes (throttle and
limiter) and `first_time_lock`. A handler is a sequence of awaited database
calls, and between two of them every other request may run. SQLite has one
writer at a time, so a transaction is atomic; what was read before it may be
stale. The source updater runs as one background task and hands over to a
second process that runs its start-up while the first one drains. The rule console
keeps nothing itself: a browser tab holds a copy of the firewall's state, and a save
passes the handler's checks and a client with a five second timeout on its way to
KrakenWAF.

**What is hard.** Reads that are a password hash (about a second) old when they
are used; the copy of the session in each request; two browsers of one operator;
two administrators; requests that end between any two calls (lost client,
timeout, crash); decisions that go on after their request is gone; counters and
windows at their boundaries; crashes between the file operations of an update,
and its retries; saves to the firewall that outlive the handler that waits for
them; requests that wait for one resource while they hold another. The `hazards` of
`PROJECT.json` list them line by line.

## 2. Modules

| Module | Models | Composed with |
|---|---|---|
| `OneTimeCodes` | abstract: what a second factor promises | implemented by `OperatorMfa` |
| `OperatorMfa` | the MFA rows of one account and all requests on them | instance of `OneTimeCodes` |
| `SessionAuthority` | operators' authority, session rows, request copies, guard, sign-in, administration | takes from `OperatorMfa` only that a code was accepted or not |
| `Accounts` | names, addresses, roles and passwords in the operators table, and all its writers | takes from `SessionAuthority` that the guard was passed |
| `RateLimit` | the concurrency limiter and the GCRA limiter behind it | - |
| `LoginThrottle` | `LoginThrottle` and `AccountFailureMonitor` with their callers | - |
| `SourceUpdate` | the updater's task, the disk, both processes | - |
| `RuleManagement` | browser tabs, handlers and client of the rule console, and KrakenWAF as they see it | - |
| `HashSlots` | Argon2id slots, connections, SQLite's writer and `first_time_lock` under the handlers that take them | the waiting that `Accounts` leaves out |
| `Redact` | the scanner of `security/redact.rs` and a reference definition | - |
| `*_proofs` | theorems about every module above; those about `LoginThrottle` and `Redact`, the two parts of `src/security` with a loop or counters, are in `Security_proofs`, and `OneTimeCodes` is what those about `OperatorMfa` implement | |
| `MC*` | instances for TLC | |

### OperatorMfa
One account, because every query names `id_user`. `totp` and `recovery` are the
rows, `nextTotp`/`nextCode` their AUTOINCREMENT counters, `now` the time-step.
A request has a `pc` (the next database call), what it does after a step-up
(`then`) and the code it was given. A code is the pair of the enrollment it was
made from and its time-step, or a recovery row's id: two enrollments have
different random secrets, so no code is good for both. Each action is one call of
the repository: `VerifyLoginCode` reads, `ConsumeTotpStep` is the conditional
UPDATE, `ConfirmRead` and `ConfirmTx` the two halves of `confirm`, and so on.
`Abandon` ends a request anywhere. The refinement mapping (`Offered`,
`Withdrawn`) says which codes the rows make good and which are used up.

### SessionAuthority
`row` has the columns a guard depends on (existence, role, `authz_version`, MFA),
`store` the session rows, `req` the copy each request works on. `Load`,
`GuardAccepts` (which may rotate the id), the `Prepare*` actions (look-up and
step-up), the `*Tx` actions (the transactions, each with its increment of
`authz_version`), `RefreshCurrent`, `Revoke` (best-effort deletion of the other
sessions) and `Save` (the upsert) are the steps of the handlers. Durations are
choices: whether a rotation is due, whether a limit has passed. Accounts may have
two-factor on at epoch 0: the migration adds `authz_version` with that default. `fate` records of
each sign-in whether it was overtaken by a change while idle (`revoked`), while
one of its requests was in flight (`racing`), or logged out (`out`).

### Accounts
The same table seen from the other side: who is in it and which password opens
which row. Between the look-up of a form and its commit there is a hash, so
`*Prepare` and `*Commit` are two steps. `BootLook`/`BootCreate` stand for a
process that is starting, which may run beside the serving one. `LoginVerify` and
`LoginRehash` are the two ends of a sign-in with outdated parameters.

### RateLimit
`semaphores` is the map of weak references: no entry, an entry whose semaphore is
gone, or a live one. `Arrive` is the map's critical section with its sweep,
`Acquire`/`TooMany` the try-acquire after it. `Check` is one GCRA decision, with
`Cleaned` before it when its turn has come (SQLite); in `CheckFails` the decision
was not made, or was made and its answer lost (Redis), and `fail_open` says what
becomes of the request. `Detach` is the client that leaves while the blocking
thread works on.

### LoginThrottle
`CheckFirst` and `CheckUser` are the two lock checks, `Fail`, `Succeed` and `Drop`
the ends of an attempt; `Failed` and `Noted` translate the two counters. History
variables keep the recent failures of each key and account, which is what the
properties count. `WindowBudget` is the most that the code allows, and TLC reaches
it: an attempt asks for the lock before its hash, so the attempts under way when a
key locks fail under the lock, and with more attempts than `MaxFailures` the last of
them may fall into the window after it (`LeftOver`).

### SourceUpdate
`file` is the executable with its `.update-new` and `.update-previous`, `tree`
the source directory; a file is absent, cut short, whole at some version, or the
site's own. Copying a file takes two steps so that `Crash` can cut it; every step
may fail (`StepFails`). `ActivateFails` is the second rename that fails, with a
rollback that may fail too; `stranded` remembers a `RemovePrevious` that came after
that, when there was no executable to take the backup's place. `Spawn`, `Release`, `TakeOver`, `ChildExits` and `Boot`
are the hand-over to the replacement and the restart by whoever supervises it.

### RuleManagement
`waf` is KrakenWAF's state, `tab` what each browser tab holds (the answer of its
last load and the search box, or the list it edits), `wire` the saves on their way
and `log` what became of each. `SubmitAll` collects every checkbox that is drawn,
as the script does, and passes the checks of `cmc_update`; `UpdateRule` passes the
check of the browser and then the codec of the list. `AnswerOk` and `AnswerError`
are the handlers after their await: the second may happen at any time, because a
timeout ends the wait and not the request. `WafApplies` and `WafRefuses` are
external. A text is told apart as far as the codecs look (`Forms`, `Rule`). The
validity window of a Rorschach token is left out: in the model a save may arrive
arbitrarily late, which is more than KrakenWAF accepts.

### HashSlots
A handler is the list of operations in `Program` that may wait; a sign-in writes
twice (rehash, `record_authenticated`). Handlers whose only hash is a step-up,
look-ups and the session's own row take the same things in the same order and have no
program of their own. `HashSlot` takes a
permit or joins the queue, `DropPermit` (tokio, external) hands it to the first
waiter, `Open` and `Write` take a connection and SQLite's writer, `Guard` the mutex
of `first_time`. `Cancel` drops a request at any point with everything it holds,
except the hash on its blocking thread (`detached`).

### Redact
A text is a sequence of kinds of characters, as many as the scanner distinguishes.
`PassThrough`, `OtherName` and `MaskParameter` are the three cases of a round of
the loop; `ViewWafRequest` renders the result or, for an administrator, the text.
`Words`, `Secrets` and `Value` say without a scanner what a sensitive parameter and
its value are, as `docs/sensitive-data-redaction.md:42-50` has them: a bare value ends
at one of the terminators listed there, and no quote is among them. The scanner stops
at a quote (`redact.rs:111`), so it does not mask all of such a value; `BehindQuote`
names the part it leaves and `ToQuote` the rest, which is what it does mask. `Shows`
says what a text looks like of which some places are hidden. `i` of the code is `pos`.

## 3. Runs

| Run | Instance | What it shows |
|---|---|---|
| `mfa` | 2 requests, 2 enrollments, 2 recovery sets of 1, 3 time-steps | `CodeAcceptedOnce`, `ConfirmedMeansProved`, `SecondFactorImpliesFlag`, and that the model implements `OneTimeCodes` |
| `mfa_flag` | same | finding: the converse of the last one fails |
| `authority` | 2 operators, 2 requests, 2 sessions, 2 sign-ins, 1 change of authority; insert, delete, update, own password | `RevokedStaysOut`, `EpochDeterminesRole` when one operator administers another or changes the own password |
| `authority_own` | 1 operator in 2 browsers, every operation, 2 changes of authority, two-factor on or off at the start | `LoggedOutStaysOut`, `SecondFactorBehindSession` |
| `authority_overtaken` | same | finding: a request in flight carries its session over a change of authority |
| `accounts` | 2 writers, 2 rows ever, 2 names, addresses, passwords and roles | `UniqueIdentity`, `FirstTimeOnce`, `AdminRemains`, `PasswordBelongs`, `RetiredStaysRetired` |
| `rate_limit` | 3 requests of one address, 2 permits, burst 2, clean-up and sweep every 2 | `ConcurrencyBounded`, `AllowsExactly`, `GrantsConform`, `RequestEnds`, for both backends and both values of `fail_open` |
| `login_throttle` | 2 attempts, 2 accounts and a second factor, 2 failures to lock | `WindowBudget`, `AlertNotMissed`, `LockNotExtended` |
| `source_update` | 3 releases, 2 starters, 4 files | `ExecutableSurvives`, `InstalledNotOlder`, `SourcesBeforeExecutable`, `LocalStateKept` |
| `rule_management` | 2 tabs, 2 modules, a rule bundle and a text list, every search, 2 saves | `ListsWellFormed`, `SavesInOrder`, `SuccessMeansApplied`, `NoSilentRevert` |
| `hash_slots` | 4 requests of every mix of handlers, 2 slots, 2 connections | `SlotsConserved`, `EveryoneAnswered` |
| `redact` | all texts of up to 6 characters of 8 kinds, an administrator and an auditor | `MaskedToQuote`, `OnlySecretsHidden` |

Deadlock is checked everywhere except in `source_update`, where a lost executable
really stops the system, and in `hash_slots` and `redact`, which end when every
request is answered and the page is shown. That nobody is stuck in `hash_slots` is
its liveness property.

**Why the bounds are enough.** Every hazard listed needs two actors; a third
request on the same rows repeats the part of one of them. The exception is
`rate_limit`: a sweep can only go wrong with two holders and one newcomer, so
there are three. Two enrollments are what "the row was replaced meanwhile" takes,
three time-steps let a code of the next step be used early and two follow it. Two
ids make a rotated session and its predecessor; two sign-ins make the revoked one
and the one that revokes. Three releases let an update be retried to a newer one.
Two tabs make the operator with the old form and the one with the new; two saves
make an earlier one and the one it may overtake. Four requests against two slots
leave two in the queue, so that a slot is handed on while another waiter gives up,
and one more writer than connections. Six characters hold a name, a delimiter, a
quoted value and what comes after it, or a parameter inside another one's value.
Windows of one or two ticks put every event on, before and after each boundary.
What the bounds miss is stated by the theorems: with two operators only one
change of authority fits, so demotion and re-promotion of another operator are
in the theorem `EpochRole` and not in a run. With two operators the two-factor
handlers do not fit either: the run has the password handler, which refreshes its
session and deletes the others as they do, and the theorem `Revocation` has them all.

Symmetry is over request slots, users, addresses and passwords, which no action
tells apart; the run with a liveness property has none.

**Fairness.** `RateLimit` and `HashSlots` have liveness properties. The `FairSpec`
of `RateLimit` assumes weak fairness of the limiter's own steps:
`Acquire`/`TooMany` (a mutex that is never held over an await, and a
compare-and-swap), `Check`/`CheckFails` and `DetachedCheck` (a transaction with a
busy timeout, or a call with a response timeout), and `Timeout` (a timer). Nothing
is assumed of clients or handlers: a handler may hang for ever, and the timeout has
to end it. `HashSlots` assumes weak fairness of each request's own next step: the
executor runs tasks that are ready, an Argon2id hash ends, the semaphore is first
come first served by its own definition, and a waiter for the pool or for SQLite's
writer keeps asking (in the instance every request runs once, so the writer is
taken from it only finitely often). It assumes nothing of `Cancel` and `Busy`: that
nobody waits for ever does not rest on anybody giving up.

### Findings
1. `FlagMeansConfirmed`: `mfa_enroll` asks `is_enabled` and replaces the row in a
   later transaction. A confirmation between the two is overwritten; the users
   table says two-factor is on, and sign-in does not ask for it.
2. `OvertakenFailsClosed`: a request past its guard when the authority changes can
   refresh its session from the new row, and the old session goes on working. This
   is why `RevokedStaysOut` speaks of sign-ins that were idle when they were
   overtaken; that they never come back is what the code does guarantee, and what
   is proved.

### Behaviours worth knowing
They follow from the models and from reading the code; no run is spent on them.

- Saving a session is an upsert (`models/session_store.rs:106`): a request of the
  same session that is under way at a logout and has changed its record writes the
  row back. `LoggedOutStaysOut` is about logouts that no such request overlaps.
- A session whose id was rotated by two requests at once has two rows. A logout
  deletes the one of its own request.
- Two administrators who delete or demote each other both pass the check of the own
  account, and nobody is left to administer (`orphaned` in `AdminRemains`).
- A sign-in that verified the old record and stores its rehash (`auth.rs:181`) after a
  password change undoes the change. `RetiredStaysRetired` is about passwords that were
  replaced while no such sign-in was under way.
- The bootstrap looks for the username `admin` (`app.rs:380`), where
  `docs/security.md:101` speaks of an administrator: with the variables still set
  it adds an account beside an administrator of another name.
- `activate_executable` removes the old backup first (`source_update.rs:586`), and
  `docs/source-updates.md:121-122` says "The previous executable is retained". A
  retry after a failed restart leaves no copy of the version that still runs. A retry
  after a failed activation whose rollback failed too removes the only executable there
  is under a known name, and then fails because there is nothing to back up; a third
  one overwrites `.update-new`. `ExecutableSurvives` ends at that removal (`stranded`).
- Between the two renames the executable's path is empty, and nothing puts the backup
  there when the machine starts again: an administrator has to (`PutBack`).
- `docs/rule-management.md:71` says that an update "sends only the modules being
  changed"; the script sends every checkbox on the page, so a form that is older
  than another operator's save undoes it. `NoSilentRevert` says what remains true.
  A search draws the rows anew and drops ticks that were not saved, and one module
  name that `is_valid_module_name` refuses blocks every submission with its row.
- A save that ended in "error in WAF server" may still be applied, after a later
  one and without an audit entry (`SuccessMeansApplied` is one-way).
- `HASH_SLOTS` "caps how many Argon2id hashes run concurrently"
  (`password_crypto.rs:239`) except those of dropped requests, whose blocking
  threads go on without a permit.
- The redactor ends a bare value at a quote (`is_value_terminator`, `redact.rs:111`),
  where `docs/sensitive-data-redaction.md:49-50` says "a **bare** value is replaced up
  to the next terminator" and lists no quote among the terminators. Whoever is no
  administrator is shown `"def` of `password=abc"def`, and `secret` of
  `"token":["secret"]`, whose value begins with the bracket. `MaskedToQuote` promises
  no more than that. A quoted value ends at the next quote of its kind, escaped or not,
  and what follows an escaped one is shown; the document says nothing of escapes, and
  `Value` has it as the code does.
- The list of attacks (`api_attacks`) shows `request_uri` as it is to every role.

## 4. Proofs

The constants are assumed to be what the code makes of them and no more:
`MfaConstants`, `AuthorityConstants`, `AccountsConstants`, `LimiterConstants`,
`ThrottleConstants`, `UpdateConstants`, `RuleConstants`, `SlotConstants` and
`RedactConstants` say which are natural numbers, which are positive, that the "none"
values are outside their sets, that the site's files, the protected ones and the
sources are different files, and that the lists the firewall starts with are ones its
codecs accept. The throttle
keeps an entry at least as long as its window and locks for longer than a window, as
its defaults do (5 minutes, 15 minutes, an hour). The sets of requests, users, roles,
names and addresses are arbitrary; where requests are counted (`RateLimit`,
`LoginThrottle`, `HashSlots`) they are finitely many at a time. The bounds that end
TLC's runs (`MaxId`, `MaxTime`, `MaxVersion`, `MaxMisses`, `MaxLength`) are any number
in the theorems.

**`OperatorMfa_proofs`**: `TypeCorrect`, `SingleUse` (`CodeAcceptedOnce`),
`ProofOfPossession`, `FlagCoversFactor` and `Refinement`
(`Spec => ImplementsOneTimeCodes`). That a code is accepted once is not inductive:
a request about to consume a code says nothing about the row. The invariant `IInv`
adds `RowsInv` (the row was issued before its counter, a confirmed row has used a
step), `RequestsInv` (what a request at each `pc` knows about its code for good:
it was issued, and by which row) and `SpentInv`: an accepted code is withdrawn,
and was accepted once. The consuming statements are conditional on the code not
being withdrawn, so the step that accepts meets a count of zero. Refinement
follows from `IInv` with one step simulation per action.

**`SessionAuthority_proofs`**: `TypeCorrect`, `Revocation` (`RevokedStaysOut`),
`EpochRole`, `SecondFactor` and `LogoutFinal` (`LoggedOutStaysOut`). The invariant says of every copy of an identity, in
a row or a request (`CopyOK`): it is never ahead of the account's epoch, it has
the account's role if it has its epoch, and it is behind if its sign-in was
revoked. `RequestsOK` carries this through the copies in flight, `RefreshOK` says
that a request which may still refresh belongs to a sign-in that is not revoked,
`FactorOK` that a current copy of an account with two-factor on has shown the
factor or was racing. `Pristine` says that sign-ins not yet begun have no history and that accounts not
yet created are at epoch 0. `LogoutFinal` needs a fact of its own, `OutInv`: no
row, no request and no snapshot holds (`Held`) a sign-in that is out. Every action
copies an identity from one holder to another or makes a new sign-in, so what
nobody holds stays that way; a logout makes a sign-in out only when its request
was the last holder.

**`Accounts_proofs`**: `TypeCorrect`, `IdentityUnique` (`UniqueIdentity`),
`FirstTimeIsOneShot` (`FirstTimeOnce`), `AdministratorRemains` (`AdminRemains`),
`PasswordOfItsAccount` (`PasswordBelongs`) and `RetiredForGood`
(`RetiredStaysRetired`). What makes them inductive is what a request still knows when
it comes to write on stale reads (`RequestsOK`): its form is complete, the row it names
was there once, nobody deletes himself or takes his own role away, and a sign-in about
to store a password again holds one that was chosen for that very id and was not
replaced while it was under way. Ids are never handed out twice (`Fresh`), so a rehash that finds its
account gone finds nobody. `LockOK` is the argument for `first_time`: who has counted
zero holds the lock, and no row of that origin can appear before he creates his.

**`SourceUpdate_proofs`**: `TypeCorrect`, `ExecutableNeverLost`
(`ExecutableSurvives`), `NoDowngrade` (`InstalledNotOlder`), `SourcesComplete`
(`SourcesBeforeExecutable`) and the action property `SiteFilesKept`
(`LocalStateKept`). `Exclusive` says that there is one task and that it dies with its
process, `TasksOK` what it has achieved at each of its steps: the new executable is
whole before the first source is copied, every source is whole before the old
executable is moved. The backup is never torn, being made by a rename only; between
the two renames `TasksOK` has it whole, and at least as new as the process, so a
rollback puts no older executable back and a rollback that fails leaves it there. The
one step that takes it away while the path is empty is the `RemovePrevious` that sets
`stranded`, and the theorem says no more than that. `ChildOK` is the hand-over: a replacement waits
only while its parent sleeps, or has ended, and it is the executable on the disk.

**`RateLimit_proofs`**: `ExactDecision` (`AllowsExactly`) and `Contract`
(`GrantsConform`), for every rate, burst and clean-up interval, and
`ConcurrencyCeiling` (`ConcurrencyBounded`) and `TypeCorrect`. The GCRA keeps one
number for an unbounded history; `RowOK` says which: the latest time at which any
grant, with those after it, is paid off, or no row when all of them are paid off
already. From it the decision equals conformance of the extended history, and the
deletion of a row is shown to change no decision. The ceiling has an invariant of its
own, `PermitInv`: the semaphore that a request has in hand is the one the map upgrades
to for its address, and a live entry is held by some request. So a sweep removes only
entries nobody holds, and a new semaphore starts with nobody counted against it.
That a free one exists when it is needed is the pigeonhole principle.

**`Security_proofs`**, login throttling: `TypeCorrect`, `BudgetHolds` (`WindowBudget`), `NoBlindSeam`
(`AlertNotMissed`) and the action property `LockEndFixed` (`LockNotExtended`), for all
limits and windows and any number of attempts under way. The counters are a summary of
a history they do not keep, and the invariant says how good a summary. Of a key
(`KeyOK`): with an open entry, the failures from before its window are at most
`LeftOver` and all the others are counted in it; with a locked one, the failures since
the lock and the attempts still under way on the key are together fewer than the
requests there are, since the one that locked is among neither. A lockout is longer than a window, so
when it ends only the late failures are recent. Of an account (`AccountOK`): the
failures that its counter no longer counts were fewer than the threshold, or were
reported. Which attempts are under way on a key (`UnderWay`) is which lock they
passed, and `RequestsOK` says that only password attempts pass a second one.

**`Security_proofs`**, redaction: `MaskedToFirstQuote` (`MaskedToQuote`) and
`OnlySecretsAreHidden` (`OnlySecretsHidden`), for texts of any length. The first is
about bare values up to the first quote in them, not about all that the document calls
a value; the second says that no more than that is lost. `ValueIs`
says of `ToQuote`, once for both, where it begins and ends. TLC compares
scanner and reference definition at the end of a text; the proof has to say what they
owe each other in the middle of one, where the text that was written so far may still
become a secret by what follows. `ScannerInvariant` (`RedactInv`) says that it cannot:

- `Settled`: every sensitive parameter in what was written has a value masked as far as
  `ToQuote` goes, and that is `Closed` by a terminator or quote that was written too, or is `Pending` and
  the next character ends it. Without this, a placeholder could be followed by a
  character that belongs to it, and is not masked.
- `WordEnds`: a word does not go on across the place the scanner is at, neither in the
  text that is read nor in the one that is written, where the two neighbours may be
  others. Without this, two harmless halves could make a sensitive name.
- `NameEnds`: if what was written ends in a sensitive name and a gap, no delimiter
  follows. This is what looking ahead buys, and why a name is only left as it is when
  it has looked past blanks and quotes.
- `Faithful`: what was written shows what was read but for the values of some of its
  sensitive parameters, all of them read to their ends.

At the end of the text the first conjunct of `Settled` is the one property and
`Faithful` the other. The lemmas follow the scanner: `PassStep` a character, `WordStep`
a name that is left as it is, `MaskBare` and `MaskQuoted` a value of either kind,
`ValueMasked` `redact_value`. They rest on what a continuation can change of
a text's secrets (`SecretBefore`, `ValueBefore`: nothing that is closed) and on
counting the places that a mask leaves (`ShowsCopy`, `ShowsMask`).

**`HashSlots_proofs`**: `TypeCorrect`, `PermitsConserved` (`SlotsConserved`) and
`NoCircularWait`, for any number of permits, connections and requests and any mix of
handlers. `SlotsConserved` is inductive with the types: that a permit which is dropped
goes to somebody who is at a hash and has none rests on what the queue is, and that
nobody waits beside a free permit on who is in it. `DroppedOK` is the lemma for tokio's hand-over, which
finishing, cancelling and a second hash of the same handler all go through.
`NoCircularWait` (`NobodyStuck`) is the safety half of `EveryoneAnswered`: while a
request is not answered, the next operation of one of them has nothing in its way
(`CanProceed` is the guard of `Proceed`, written out because `ENABLED` is outside the
prover). `HoldersInv` says that who holds a connection, the writer or the mutex is
between taking it and its commit, and `Programs` that a handler waits there only for
what comes later in the order mutex, connection, writer, slot. Whoever has a slot waits
for nobody, so of the requests that hold something one can go on. A handler that
wrote first and took the mutex or a second connection afterwards would break
`Programs`, and with it the proof.

**`RuleManagement_proofs`**: `TypeCorrect`, `WellFormed` (`ListsWellFormed`),
`Reported` (`SuccessMeansApplied`), `InOrder` (`SavesInOrder`) and the action
property `Reverts` (`NoSilentRevert`), for any number of tabs, modules, lists and
saves. None of them is inductive, because what a save does is decided when its
form is made and happens when it arrives. `WireInv` carries it across: a save on
its way has not been applied, a list's body passed the codec of that list, a form's
body repeats what was loaded for every module that was not ticked. `SavingInv` says
that the save a tab waits for is its last one, and `PlacesInv` that no place is
beyond the number of applied saves, so the next one is after all of them.

Every invariant and every action property that a run checks is a theorem. Only
model-checked are

- the liveness properties `RequestEnds` and `EveryoneAnswered`: fairness and `ENABLED`
  are outside the prover;
- the findings, which are violations.

No module here uses a recursive operator.

## 5. What is not modelled

- Cryptography: TOTP, Argon2id and XChaCha20-Poly1305 appear as "this code belongs
  to that secret" and "this record opens for that password".
- Durations: how long a writer keeps the others waiting against SQLite's busy
  timeout, the validity of a token. Every write may fail or be given up in the
  models, so what such an error leaves behind is covered.
- The in-memory governor layer in front of the persistent limiter (a library).
- Wall clocks that run backwards.
- KrakenWAF itself: `RuleManagement` has what the client assumes of it. The attack
  monitor and the dashboard only read from it.
- Sanitising, client addresses, configuration, headers, templates and the rest of
  the browser code: stateless, or read once at start-up.

## 6. Plan

Done, in this order: `OneTimeCodes` and `OperatorMfa` with their proofs,
`SessionAuthority` with its proofs, `RateLimit` with its proofs, `LoginThrottle`,
`SourceUpdate`, `Accounts`, `RuleManagement` with its proofs, `HashSlots`, `Redact`;
then the proofs of `Accounts`, `SourceUpdate`, the concurrency limiter,
`LoginThrottle`, `HashSlots` and `Redact`. Two of the proofs corrected the model. The
bound first stated in `WindowBudget` left out the attempts that fail under a lock, and
TLC exceeded it with four attempts against two failures, an instance larger than the
run's. The reference definition of `Redact` first put a text together with a fold, of
which nothing can be proved for every text; `Shows` states the same relation between a
text and what is left of it by counting places.

Open: the hazard of `services/source_update.rs:148` has no property. A `start` that is
dropped between its compare-exchange and its spawn (`StartDropped`) leaves `running`
set, and no update starts until a restart; no document of the repository says that one
always can, so no property calls it wrong.
