----------------------------- MODULE OperatorMfa -----------------------------
(***************************************************************************)
(* The second factor of one operator account: the rows that                *)
(* models/operator_mfa_repository.rs keeps in SQLite, and the requests     *)
(* that work on them (controllers/mfa.rs, controllers/step_up.rs and       *)
(* mfa_verify of controllers/auth.rs).                                     *)
(*                                                                         *)
(* Every query names id_user, so one account is modelled; the requests are *)
(* those of all browsers that act on it.  A request is a sequence of       *)
(* database calls: between two of them any other request may run, so each  *)
(* call is a step of its own and what was read is kept in the request.     *)
(* A transaction is one step: SQLite lets one writer in at a time and      *)
(* fails a reader that lost its snapshot.                                  *)
(*                                                                         *)
(* authz_version, which the same transactions increment, belongs to        *)
(* SessionAuthority.tla: nothing in this component reads it.               *)
(*                                                                         *)
(* A code is abstracted to what it is a code of: the enrollment (a fresh   *)
(* random secret per row) and the time-step, or the recovery row.          *)
(***************************************************************************)
EXTENDS Naturals

CONSTANTS Requests,         \* request slots that may be in flight together
          MaxEnrollments,   \* bound: TOTP rows ever inserted
          CodesPerSet,      \* RECOVERY_CODE_COUNT
          MaxCodes,         \* bound: recovery rows ever inserted
          LastStep          \* bound: the last time-step a code can name

ASSUME MfaConstants ==
    /\ MaxEnrollments \in Nat
    /\ CodesPerSet \in Nat \ {0}
    /\ MaxCodes \in Nat
    /\ LastStep \in Nat \ {0}

VARIABLES operator,    \* the operators row: does it exist, and mfa_enabled
          totp,        \* the operator_mfa_totp row
          nextTotp,    \* its AUTOINCREMENT
          recovery,    \* id_code of the recovery rows with used = 0
          nextCode,    \* their AUTOINCREMENT
          now,         \* the current time-step, unix_time / TOTP_PERIOD
          req,         \* the requests in flight
          accepted     \* history: how often each code was accepted

vars == <<operator, totp, nextTotp, recovery, nextCode, now, req, accepted>>

-----------------------------------------------------------------------------
Enrollments == 1..MaxEnrollments
CodeIds == 1..MaxCodes
Steps == 0..LastStep

TotpCode == [kind : {"totp"}, id : Enrollments, step : 1..LastStep]
RecoveryCode == [kind : {"recovery"}, id : CodeIds, step : {0}]
Code == TotpCode \cup RecoveryCode

\* What an operator types when no code was ever issued to them.
NoCode == [kind |-> "none", id |-> 0, step |-> 0]

\* A missing TOTP row: ids start at 1.
NoRow == [id |-> 0, confirmed |-> FALSE, last_used_step |-> 0]
TotpRow == [id : 0..MaxEnrollments, confirmed : BOOLEAN, last_used_step : Steps]

\* The steps a request can be at, and those that follow a successful step-up
\* or sign-in code ("idle": the handler has no more business with MFA).
Pcs == {"idle", "step_up", "verify", "consume", "recover", "burn", "enroll_check",
        "enroll", "confirm_read", "confirm", "disable", "regenerate"}
Thens == {"idle", "enroll_check", "disable", "regenerate"}

Request == [pc : Pcs, then : Thens, code : Code \cup {NoCode}]
At(pc) == [pc |-> pc, then |-> "idle", code |-> NoCode]
Idle == At("idle")

\* Where each handler starts: mfa_verify at verify_login_code, mfa_confirm at
\* confirm, and everything else at the step-up: mfa_enroll, mfa_disable,
\* mfa_regenerate, and the administration handlers that only need the step-up.
Handlers == {<<"verify", "idle">>, <<"confirm_read", "idle">>, <<"step_up", "idle">>,
             <<"step_up", "enroll_check">>, <<"step_up", "disable">>,
             <<"step_up", "regenerate">>}

TypeOK ==
    /\ operator \in [exists : BOOLEAN, mfa_enabled : BOOLEAN]
    /\ totp \in TotpRow
    /\ nextTotp \in 1..(MaxEnrollments + 1)
    /\ recovery \subseteq CodeIds
    /\ nextCode \in 1..(MaxCodes + 1)
    /\ now \in 1..LastStep
    /\ req \in [Requests -> Request]
    /\ accepted \in [Code -> Nat]

Init ==
    /\ operator = [exists |-> TRUE, mfa_enabled |-> FALSE]
    /\ totp = NoRow
    /\ nextTotp = 1
    /\ recovery = {}
    /\ nextCode = 1
    /\ now = 1
    /\ req = [r \in Requests |-> Idle]
    /\ accepted = [c \in Code |-> 0]

-----------------------------------------------------------------------------
\* is_enabled: only a confirmed row counts.
IsEnabled == totp.confirmed

\* verify_totp_code against a row's secret: the right enrollment, and a step
\* in the window of one step of clock skew on either side.
VerifyTotpCode(row, c) ==
    /\ c.kind = "totp"
    /\ c.id = row.id
    /\ c.step \in {now - 1, now, now + 1}

\* Codes the client may know: those of every enrollment and of every recovery
\* set there ever was, spent and withdrawn ones included.
Issued(c) ==
    \/ c = NoCode
    \/ c.kind = "totp" /\ c.id < nextTotp
    \/ c.kind = "recovery" /\ c.id < nextCode

Goto(r, pc) == req' = [req EXCEPT ![r].pc = pc]
Finish(r) == req' = [req EXCEPT ![r] = Idle]
\* verify_login_code, or the whole step-up, succeeded.
Continue(r) == req' = [req EXCEPT ![r] = At(req[r].then)]
Count(c) == accepted' = [accepted EXCEPT ![c] = @ + 1]

\* Mutant: set_operator_flag_in bumps the epoch and forgets the flag.
FlagUntouched(enabled) == UNCHANGED operator

\* set_operator_flag_in: UPDATE operators ... WHERE id_user, no row once deleted.
SetOperatorFlag(enabled) ==
    operator' = [operator EXCEPT !.mfa_enabled = enabled /\ operator.exists]

\* replace_recovery_codes_in: every old row goes, a full set of fresh ids comes.
ReplaceRecoveryCodes ==
    /\ recovery' = nextCode..(nextCode + CodesPerSet - 1)
    /\ nextCode' = nextCode + CodesPerSet

MayMint == nextCode + CodesPerSet - 1 \in CodeIds

-----------------------------------------------------------------------------
\* A request arrives with some code in its form.
Begin(r, h, c) ==
    /\ req[r].pc = "idle"
    /\ Issued(c)
    /\ req' = [req EXCEPT ![r] = [pc |-> h[1], then |-> h[2], code |-> c]]
    /\ UNCHANGED <<operator, totp, nextTotp, recovery, nextCode, now, accepted>>

\* step_up::verify after the password: a code is asked for if is_enabled.
StepUp(r) ==
    /\ req[r].pc = "step_up"
    /\ IF ~operator.exists THEN Finish(r)
       ELSE IF IsEnabled
            THEN IF req[r].code = NoCode THEN Finish(r) ELSE Goto(r, "verify")
            ELSE Continue(r)
    /\ UNCHANGED <<operator, totp, nextTotp, recovery, nextCode, now, accepted>>

\* verify_login_code, first call: a live TOTP code of the confirmed row whose
\* step is not above last_used_step is a replay; any other code may still be
\* a recovery code.
VerifyLoginCode(r) ==
    /\ req[r].pc = "verify"
    /\ IF totp.confirmed /\ VerifyTotpCode(totp, req[r].code)
       THEN IF req[r].code.step <= totp.last_used_step
            THEN Finish(r)
            ELSE Goto(r, "consume")
       ELSE Goto(r, "recover")
    /\ UNCHANGED <<operator, totp, nextTotp, recovery, nextCode, now, accepted>>

\* Mutant: the UPDATE without AND last_used_step < ?.
UnconditionalConsume(r) ==
    /\ totp.id = req[r].code.id
    /\ totp.confirmed

\* The WHERE clause of consume_totp_step.
ConsumeCondition(r) ==
    /\ totp.id = req[r].code.id
    /\ totp.confirmed
    /\ totp.last_used_step < req[r].code.step

\* Mutant: the end of the skew window is recorded instead of the matched step.
WindowEnd(r) == now + 1

\* The step consume_totp_step records: the one verify_totp_code matched.
UsedStep(r) == req[r].code.step

\* consume_totp_step: the row decides, not what was read before.
ConsumeTotpStep(r) ==
    /\ req[r].pc = "consume"
    /\ IF ConsumeCondition(r)
       THEN /\ totp' = [totp EXCEPT !.last_used_step = UsedStep(r)]
            /\ Count(req[r].code)
            /\ Continue(r)
       ELSE /\ Finish(r)
            /\ UNCHANGED <<totp, accepted>>
    /\ UNCHANGED <<operator, nextTotp, recovery, nextCode, now>>

\* consume_recovery_code: load the unused rows and look for the code.
ConsumeRecoveryCode(r) ==
    /\ req[r].pc = "recover"
    /\ IF req[r].code.kind = "recovery" /\ req[r].code.id \in recovery
       THEN Goto(r, "burn")
       ELSE Finish(r)
    /\ UNCHANGED <<operator, totp, nextTotp, recovery, nextCode, now, accepted>>

\* The WHERE clause of consume_recovery_code_row.
BurnCondition(r) == req[r].code.id \in recovery

\* consume_recovery_code_row: only one request burns a row.
BurnRecoveryCode(r) ==
    /\ req[r].pc = "burn"
    /\ IF BurnCondition(r)
       THEN /\ recovery' = recovery \ {req[r].code.id}
            /\ Count(req[r].code)
            /\ Continue(r)
       ELSE /\ Finish(r)
            /\ UNCHANGED <<recovery, accepted>>
    /\ UNCHANGED <<operator, totp, nextTotp, nextCode, now>>

\* mfa_enroll after the step-up: refuse an account that is already enabled.
EnrollCheck(r) ==
    /\ req[r].pc = "enroll_check"
    /\ IF IsEnabled THEN Finish(r) ELSE Goto(r, "enroll")
    /\ UNCHANGED <<operator, totp, nextTotp, recovery, nextCode, now, accepted>>

\* begin_enrollment: DELETE whatever row there is, INSERT an unconfirmed one.
\* The foreign key refuses the insert for a deleted account.
BeginEnrollment(r) ==
    /\ req[r].pc = "enroll"
    /\ IF operator.exists
       THEN /\ nextTotp \in Enrollments
            /\ totp' = [id |-> nextTotp, confirmed |-> FALSE, last_used_step |-> 0]
            /\ nextTotp' = nextTotp + 1
       ELSE UNCHANGED <<totp, nextTotp>>
    /\ Finish(r)
    /\ UNCHANGED <<operator, recovery, nextCode, now, accepted>>

\* confirm, before its transaction: the pending row and a code of its secret.
ConfirmRead(r) ==
    /\ req[r].pc = "confirm_read"
    /\ IF totp # NoRow /\ ~totp.confirmed /\ VerifyTotpCode(totp, req[r].code)
       THEN Goto(r, "confirm")
       ELSE Finish(r)
    /\ UNCHANGED <<operator, totp, nextTotp, recovery, nextCode, now, accepted>>

\* Mutant: the UPDATE by id_user only, without AND id_totp = ?.
ConfirmAnyRow(r) == totp # NoRow /\ ~totp.confirmed

\* The WHERE clause of the UPDATE in confirm.
ConfirmCondition(r) ==
    /\ totp.id = req[r].code.id
    /\ ~totp.confirmed

\* The transaction of confirm: the row read before must still be there and
\* still pending.  Its code counts as used.
ConfirmTx(r) ==
    /\ req[r].pc = "confirm"
    /\ IF ConfirmCondition(r)
       THEN /\ MayMint
            /\ totp' = [totp EXCEPT !.confirmed = TRUE, !.last_used_step = req[r].code.step]
            /\ SetOperatorFlag(TRUE)
            /\ ReplaceRecoveryCodes
            /\ Count(req[r].code)
       ELSE UNCHANGED <<operator, totp, recovery, nextCode, accepted>>
    /\ Finish(r)
    /\ UNCHANGED <<nextTotp, now>>

\* disable: secret, recovery codes and flag go in one transaction.
DisableTx(r) ==
    /\ req[r].pc = "disable"
    /\ totp' = NoRow
    /\ recovery' = {}
    /\ SetOperatorFlag(FALSE)
    /\ Finish(r)
    /\ UNCHANGED <<nextTotp, nextCode, now, accepted>>

\* Mutant: the new recovery set is added to the old one.
RegenerateKeepingOld(r) ==
    /\ req[r].pc = "regenerate"
    /\ IF IsEnabled
       THEN /\ MayMint
            /\ recovery' = 1..(nextCode + CodesPerSet - 1)
            /\ nextCode' = nextCode + CodesPerSet
       ELSE UNCHANGED <<recovery, nextCode>>
    /\ Finish(r)
    /\ UNCHANGED <<operator, totp, nextTotp, now, accepted>>

\* regenerate_recovery_codes: is_enabled is read inside the transaction.
RegenerateTx(r) ==
    /\ req[r].pc = "regenerate"
    /\ IF IsEnabled
       THEN MayMint /\ ReplaceRecoveryCodes
       ELSE UNCHANGED <<recovery, nextCode>>
    /\ Finish(r)
    /\ UNCHANGED <<operator, totp, nextTotp, now, accepted>>

\* A request ends early at any point: a wrong password at the step-up, a
\* throttled challenge, the request timeout, a lost client, a crash.  What it
\* wrote before stays.
Abandon(r) ==
    /\ req[r].pc # "idle"
    /\ Finish(r)
    /\ UNCHANGED <<operator, totp, nextTotp, recovery, nextCode, now, accepted>>

\* An administrator deletes the account; ON DELETE CASCADE takes the rows.
DeleteOperator ==
    /\ operator.exists
    /\ operator' = [operator EXCEPT !.exists = FALSE, !.mfa_enabled = FALSE]
    /\ totp' = NoRow
    /\ recovery' = {}
    /\ UNCHANGED <<nextTotp, nextCode, now, req, accepted>>

\* The next 30-second step begins.
Tick ==
    /\ now + 1 \in 1..LastStep
    /\ now' = now + 1
    /\ UNCHANGED <<operator, totp, nextTotp, recovery, nextCode, req, accepted>>

Step(r) ==
    \/ StepUp(r) \/ VerifyLoginCode(r) \/ ConsumeTotpStep(r)
    \/ ConsumeRecoveryCode(r) \/ BurnRecoveryCode(r)
    \/ EnrollCheck(r) \/ BeginEnrollment(r)
    \/ ConfirmRead(r) \/ ConfirmTx(r)
    \/ DisableTx(r) \/ RegenerateTx(r)

Next ==
    \/ \E r \in Requests : Step(r)
    \/ \E r \in Requests : Abandon(r)
    \/ \E r \in Requests, h \in Handlers, c \in Code \cup {NoCode} : Begin(r, h, c)
    \/ DeleteOperator
    \/ Tick

Spec == Init /\ [][Next]_vars

-----------------------------------------------------------------------------
(***************************************************************************)
(* Properties.                                                             *)
(***************************************************************************)

\* No code lets anybody in twice, whatever the interleaving of sign-ins,
\* step-ups, confirmations, re-enrollments and regenerations: two requests may
\* both have read the row before either writes it, and the conditional UPDATEs
\* of consume_totp_step, consume_recovery_code_row and confirm decide.
CodeAcceptedOnce == \A c \in Code : accepted[c] <= 1

\* A secret is active only if a code of that very secret was accepted: a
\* confirmation that was checked against one pending enrollment cannot confirm
\* the enrollment that replaced it meanwhile ("confirmed flips to 1 only once
\* the operator proves possession by entering a valid code", database.rs).
ConfirmedMeansProved ==
    totp.confirmed =>
        \E s \in 1..totp.last_used_step :
            accepted[[kind |-> "totp", id |-> totp.id, step |-> s]] = 1

\* Whatever a challenge would accept is announced by operators.mfa_enabled: no
\* interleaving leaves an active secret or a live recovery code on an account
\* that the users table shows with two-factor off.
SecondFactorImpliesFlag ==
    totp.confirmed \/ recovery # {} => operator.mfa_enabled

\* The comment on operators.mfa_enabled (operator.rs): "0 while disabled, 1 once
\* an operator has confirmed an authenticator".  The code does not keep the
\* converse of SecondFactorImpliesFlag: mfa_enroll checks is_enabled and then
\* replaces the row in a later transaction, so a confirmation in between is
\* overwritten by an unconfirmed row while the flag stays 1.
FlagMeansConfirmed == operator.mfa_enabled => totp.confirmed

\* The refinement mapping to OneTimeCodes.
Offered ==
    {c \in Code :
        IF c.kind = "totp"
        THEN totp.confirmed /\ c.id = totp.id /\ c.step > totp.last_used_step
        ELSE c.id \in recovery}

Withdrawn ==
    {c \in Code :
        IF c.kind = "totp"
        THEN c.id < nextTotp /\ (c.id = totp.id => c.step <= totp.last_used_step)
        ELSE c.id < nextCode /\ c.id \notin recovery}

OTC == INSTANCE OneTimeCodes WITH offered <- Offered, withdrawn <- Withdrawn

\* The repository and its callers implement the abstract second factor: every
\* code goes from issued to withdrawn once and for ever, and is accepted only
\* on the way.
ImplementsOneTimeCodes == OTC!Spec

=============================================================================
