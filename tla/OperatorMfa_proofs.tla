------------------------- MODULE OperatorMfa_proofs -------------------------
(***************************************************************************)
(* Proofs about OperatorMfa: type correctness, single use of every code,   *)
(* proof of possession behind every active secret, and the refinement of   *)
(* OneTimeCodes.  They hold for every number of requests, enrollments,     *)
(* codes and time-steps.                                                   *)
(***************************************************************************)
EXTENDS OperatorMfa, TLAPS

\* The ids of the rows were all handed out by AUTOINCREMENT, a row that is not
\* confirmed has consumed no step, and a deleted account has no rows.
RowsInv ==
    /\ totp.id < nextTotp
    /\ totp.id = 0 => totp = NoRow
    /\ ~totp.confirmed => totp.last_used_step = 0
    /\ \A i \in recovery : i < nextCode
    /\ ~operator.exists => totp = NoRow /\ recovery = {}

\* A request that is about to consume or confirm holds an issued TOTP code, one
\* about to burn holds a recovery code.
RequestsInv ==
    \A r \in Requests :
        /\ req[r].pc \in {"consume", "confirm"} =>
             req[r].code \in TotpCode /\ req[r].code.id < nextTotp
        /\ req[r].pc = "burn" => req[r].code \in RecoveryCode

\* Single use in inductive form: what was accepted is withdrawn.
SpentInv ==
    \A c \in Code :
        /\ accepted[c] <= 1
        /\ accepted[c] # 0 => c \in Withdrawn

IInv ==
    /\ TypeOK
    /\ RowsInv
    /\ RequestsInv
    /\ SpentInv
    /\ ConfirmedMeansProved
    /\ SecondFactorImpliesFlag

-----------------------------------------------------------------------------
\* The steps that only move a request along, having read but not written the
\* tables.
LEMMA ReadingSteps ==
    ASSUME IInv, NEW r \in Requests,
           UNCHANGED <<operator, totp, nextTotp, recovery, nextCode, now, accepted>>,
           NEW q \in Request, req' = [req EXCEPT ![r] = q],
           q.pc \in {"consume", "confirm"} => q.code \in TotpCode /\ q.code.id < nextTotp,
           q.pc = "burn" => q.code \in RecoveryCode
    PROVE  IInv'
<1>1. TypeOK'
  BY DEF IInv, TypeOK
<1>2. RowsInv'
  BY DEF IInv, RowsInv
<1>3. RequestsInv'
  BY DEF IInv, RequestsInv, TypeOK
<1>4. SpentInv'
  BY DEF IInv, SpentInv, Withdrawn
<1>5. ConfirmedMeansProved'
  BY DEF IInv, ConfirmedMeansProved
<1>6. SecondFactorImpliesFlag'
  BY DEF IInv, SecondFactorImpliesFlag
<1>7. QED
  BY <1>1, <1>2, <1>3, <1>4, <1>5, <1>6 DEF IInv

\* After a step that consumes a code the request goes on where the code was
\* asked for, after any other it is over: never to another write of a code.
LEMMA Targets ==
    ASSUME TypeOK, NEW r \in Requests
    PROVE  /\ Idle \in Request /\ Idle.pc \notin {"consume", "confirm", "burn"}
           /\ At(req[r].then) \in Request
           /\ At(req[r].then).pc \notin {"consume", "confirm", "burn"}
  BY DEF TypeOK, Idle, At, Request, Pcs, Thens

LEMMA InitIInv == Init => IInv
<1> SUFFICES ASSUME Init PROVE IInv
  OBVIOUS
<1>1. TypeOK
  BY MfaConstants
     DEF Init, TypeOK, NoRow, TotpRow, Steps, CodeIds, Request, Idle, At, Pcs, Thens
<1>2. RowsInv
  BY DEF Init, RowsInv, NoRow
<1>3. RequestsInv
  BY DEF Init, RequestsInv, Idle, At
<1>4. SpentInv
  BY DEF Init, SpentInv
<1>5. ConfirmedMeansProved /\ SecondFactorImpliesFlag
  BY DEF Init, ConfirmedMeansProved, SecondFactorImpliesFlag, NoRow
<1>6. QED
  BY <1>1, <1>2, <1>3, <1>4, <1>5 DEF IInv

-----------------------------------------------------------------------------
\* The writing steps, one lemma each.
LEMMA ConsumeStep ==
    ASSUME IInv, NEW r \in Requests, ConsumeTotpStep(r)
    PROVE  IInv'
<1> USE DEF IInv
<1>0. CASE ~ConsumeCondition(r)
  <2>1. req' = [req EXCEPT ![r] = Idle] /\ UNCHANGED <<operator, totp, nextTotp, recovery, nextCode, now, accepted>>
    BY <1>0 DEF ConsumeTotpStep, Finish
  <2>2. QED
    BY <2>1, Targets, ReadingSteps DEF IInv
<1>1. CASE ConsumeCondition(r)
  <2> DEFINE c == req[r].code
  <2>1. /\ totp.id = c.id /\ totp.confirmed /\ totp.last_used_step < c.step
        /\ totp' = [totp EXCEPT !.last_used_step = c.step]
        /\ accepted' = [accepted EXCEPT ![c] = @ + 1]
        /\ req' = [req EXCEPT ![r] = At(req[r].then)]
        /\ UNCHANGED <<operator, nextTotp, recovery, nextCode, now>>
        /\ req[r].pc = "consume"
    BY <1>1 DEF ConsumeTotpStep, ConsumeCondition, UsedStep, Count, Continue
  <2>2. c \in TotpCode /\ c \in Code /\ c.kind = "totp" /\ c.step \in Nat /\ c.id \in Nat
    BY <2>1, MfaConstants DEF RequestsInv, Code, TotpCode, Enrollments
  <2>3. TypeOK'
    BY <2>1, <2>2, Targets, MfaConstants DEF TypeOK, TotpRow, TotpCode, Steps
  <2>4. RowsInv'
    <3>1. totp \in TotpRow /\ totp' \in TotpRow /\ totp'.id = totp.id /\ totp'.confirmed
      BY <2>1, <2>3 DEF TypeOK, TotpRow
    <3>2. totp.id # 0 /\ operator.exists
      BY <2>1, <2>2, MfaConstants DEF TotpCode, Enrollments, RowsInv, NoRow
    <3>3. QED
      BY <2>1, <3>1, <3>2 DEF RowsInv
  <2>5. RequestsInv'
    BY <2>1, Targets DEF RequestsInv, TypeOK
  <2>6. accepted[c] = 0
    <3>1. c \notin Withdrawn
      BY <2>1, <2>2, MfaConstants DEF Withdrawn, TypeOK, TotpRow, Steps
    <3>2. QED
      BY <2>2, <3>1 DEF SpentInv
  <2>7. SpentInv'
    <3> SUFFICES ASSUME NEW d \in Code
                 PROVE  accepted'[d] <= 1 /\ (accepted'[d] # 0 => d \in Withdrawn')
      BY DEF SpentInv
    <3>1. CASE d = c
      <4>1. accepted'[d] = 1
        BY <2>1, <2>2, <2>6, <3>1 DEF TypeOK
      <4>2. c.id < nextTotp
        BY <2>1 DEF RequestsInv
      <4>3. d \in Withdrawn'
        BY <2>1, <2>2, <3>1, <4>2, MfaConstants DEF Withdrawn, TypeOK, TotpRow, Steps
      <4>4. QED
        BY <4>1, <4>3
    <3>2. CASE d # c
      <4>1. accepted'[d] = accepted[d]
        BY <2>1, <2>2, <3>2 DEF TypeOK
      <4>2. d \in Withdrawn => d \in Withdrawn'
        BY <2>1, <2>2, MfaConstants DEF Withdrawn, TypeOK, TotpRow, Steps, Code, TotpCode, RecoveryCode
      <4>3. QED
        BY <4>1, <4>2 DEF SpentInv
    <3>3. QED
      BY <3>1, <3>2
  <2>8. ConfirmedMeansProved'
    <3>1. c = [kind |-> "totp", id |-> totp'.id, step |-> c.step]
      BY <2>1, <2>2 DEF TotpCode, TypeOK, TotpRow
    <3>2. accepted'[c] = 1
      BY <2>1, <2>2, <2>6 DEF TypeOK
    <3>3. c.step \in 1..(totp'.last_used_step)
      BY <2>1, <2>2, MfaConstants DEF TotpCode, TypeOK, TotpRow
    <3>4. QED
      BY <3>1, <3>2, <3>3 DEF ConfirmedMeansProved
  <2>9. SecondFactorImpliesFlag'
    BY <2>1 DEF SecondFactorImpliesFlag
  <2>10. QED
    BY <2>3, <2>4, <2>5, <2>7, <2>8, <2>9
<1>2. QED
  BY <1>0, <1>1

LEMMA BurnStep ==
    ASSUME IInv, NEW r \in Requests, BurnRecoveryCode(r)
    PROVE  IInv'
<1> USE DEF IInv
<1>0. CASE ~BurnCondition(r)
  <2>1. req' = [req EXCEPT ![r] = Idle] /\ UNCHANGED <<operator, totp, nextTotp, recovery, nextCode, now, accepted>>
    BY <1>0 DEF BurnRecoveryCode, Finish
  <2>2. QED
    BY <2>1, Targets, ReadingSteps DEF IInv
<1>1. CASE BurnCondition(r)
  <2> DEFINE c == req[r].code
  <2>1. /\ c.id \in recovery
        /\ recovery' = recovery \ {c.id}
        /\ accepted' = [accepted EXCEPT ![c] = @ + 1]
        /\ req' = [req EXCEPT ![r] = At(req[r].then)]
        /\ UNCHANGED <<operator, totp, nextTotp, nextCode, now>>
        /\ req[r].pc = "burn"
    BY <1>1 DEF BurnRecoveryCode, BurnCondition, Count, Continue
  <2>2. c \in RecoveryCode /\ c \in Code /\ c.kind = "recovery" /\ c.id < nextCode
    BY <2>1 DEF RequestsInv, RowsInv, Code, RecoveryCode
  <2>3. TypeOK'
    BY <2>1, <2>2, Targets DEF TypeOK
  <2>4. RowsInv'
    BY <2>1 DEF RowsInv
  <2>5. RequestsInv'
    BY <2>1, Targets DEF RequestsInv, TypeOK
  <2>6. accepted[c] = 0
    BY <2>1, <2>2 DEF SpentInv, Withdrawn
  <2>7. SpentInv'
    <3> SUFFICES ASSUME NEW d \in Code
                 PROVE  accepted'[d] <= 1 /\ (accepted'[d] # 0 => d \in Withdrawn')
      BY DEF SpentInv
    <3>1. CASE d = c
      <4>1. accepted'[d] = 1
        BY <2>1, <2>2, <2>6, <3>1 DEF TypeOK
      <4>2. d \in Withdrawn'
        BY <2>1, <2>2, <3>1 DEF Withdrawn
      <4>3. QED
        BY <4>1, <4>2
    <3>2. CASE d # c
      <4>1. accepted'[d] = accepted[d]
        BY <2>1, <2>2, <3>2 DEF TypeOK
      <4>2. d \in Withdrawn => d \in Withdrawn'
        BY <2>1 DEF Withdrawn
      <4>3. QED
        BY <4>1, <4>2 DEF SpentInv
    <3>3. QED
      BY <3>1, <3>2
  <2>8. ConfirmedMeansProved'
    <3> SUFFICES ASSUME totp.confirmed
                 PROVE  \E s \in 1..totp.last_used_step :
                          accepted'[[kind |-> "totp", id |-> totp.id, step |-> s]] = 1
      BY <2>1 DEF ConfirmedMeansProved
    <3>1. PICK s \in 1..totp.last_used_step :
                 accepted[[kind |-> "totp", id |-> totp.id, step |-> s]] = 1
      BY DEF ConfirmedMeansProved
    <3>2. [kind |-> "totp", id |-> totp.id, step |-> s] # c
      BY <2>2
    <3>3. accepted'[[kind |-> "totp", id |-> totp.id, step |-> s]] = 1
      <4>1. [kind |-> "totp", id |-> totp.id, step |-> s] \in Code
        BY MfaConstants, <2>1 DEF Code, TotpCode, Enrollments, TypeOK, TotpRow, Steps, RowsInv, NoRow
      <4>2. QED
        BY <2>1, <3>1, <3>2, <4>1 DEF TypeOK
    <3>4. QED
      BY <3>3
  <2>9. SecondFactorImpliesFlag'
    BY <2>1 DEF SecondFactorImpliesFlag
  <2>10. QED
    BY <2>3, <2>4, <2>5, <2>7, <2>8, <2>9
<1>2. QED
  BY <1>0, <1>1

LEMMA EnrollStep ==
    ASSUME IInv, NEW r \in Requests, BeginEnrollment(r)
    PROVE  IInv'
<1> USE DEF IInv
<1>0. CASE ~operator.exists
  <2>1. req' = [req EXCEPT ![r] = Idle] /\ UNCHANGED <<operator, totp, nextTotp, recovery, nextCode, now, accepted>>
    BY <1>0 DEF BeginEnrollment, Finish
  <2>2. QED
    BY <2>1, Targets, ReadingSteps DEF IInv
<1>1. CASE operator.exists
  <2>1. /\ nextTotp \in Enrollments
        /\ totp' = [id |-> nextTotp, confirmed |-> FALSE, last_used_step |-> 0]
        /\ nextTotp' = nextTotp + 1
        /\ req' = [req EXCEPT ![r] = Idle]
        /\ UNCHANGED <<operator, recovery, nextCode, now, accepted>>
    BY <1>1 DEF BeginEnrollment, Finish
  <2>2. TypeOK'
    BY <2>1, Targets, MfaConstants DEF TypeOK, TotpRow, Enrollments, Steps
  <2>3. RowsInv'
    BY <1>1, <2>1, MfaConstants DEF RowsInv, Enrollments
  <2>4. RequestsInv'
    BY <2>1, Targets, MfaConstants DEF RequestsInv, TypeOK, TotpCode, Enrollments
  <2>5. SpentInv'
    <3>1. \A d \in Code : d \in Withdrawn => d \in Withdrawn'
      BY <2>1, MfaConstants
         DEF Withdrawn, RowsInv, TypeOK, TotpRow, Code, TotpCode, RecoveryCode, Enrollments
    <3>2. QED
      BY <2>1, <3>1 DEF SpentInv
  <2>6. ConfirmedMeansProved'
    BY <2>1 DEF ConfirmedMeansProved
  <2>7. SecondFactorImpliesFlag'
    BY <2>1 DEF SecondFactorImpliesFlag
  <2>8. QED
    BY <2>2, <2>3, <2>4, <2>5, <2>6, <2>7
<1>2. QED
  BY <1>0, <1>1

LEMMA ConfirmStep ==
    ASSUME IInv, NEW r \in Requests, ConfirmTx(r)
    PROVE  IInv'
<1> USE DEF IInv
<1>0. CASE ~ConfirmCondition(r)
  <2>1. req' = [req EXCEPT ![r] = Idle] /\ UNCHANGED <<operator, totp, nextTotp, recovery, nextCode, now, accepted>>
    BY <1>0 DEF ConfirmTx, Finish
  <2>2. QED
    BY <2>1, Targets, ReadingSteps DEF IInv
<1>1. CASE ConfirmCondition(r)
  <2> DEFINE c == req[r].code
  <2>1. /\ totp.id = c.id /\ ~totp.confirmed
        /\ totp' = [totp EXCEPT !.confirmed = TRUE, !.last_used_step = c.step]
        /\ operator' = [operator EXCEPT !.mfa_enabled = TRUE /\ operator.exists]
        /\ nextCode + CodesPerSet - 1 \in CodeIds
        /\ recovery' = nextCode..(nextCode + CodesPerSet - 1)
        /\ nextCode' = nextCode + CodesPerSet
        /\ accepted' = [accepted EXCEPT ![c] = @ + 1]
        /\ req' = [req EXCEPT ![r] = Idle]
        /\ UNCHANGED <<nextTotp, now>>
        /\ req[r].pc = "confirm"
    BY <1>1 DEF ConfirmTx, ConfirmCondition, MayMint, SetOperatorFlag, ReplaceRecoveryCodes, Count, Finish
  <2>2. c \in TotpCode /\ c \in Code /\ c.kind = "totp" /\ c.step \in 1..LastStep /\ c.id \in Enrollments
    BY <2>1 DEF RequestsInv, Code, TotpCode
  <2>3. /\ totp' \in TotpRow /\ totp'.id = totp.id /\ totp'.confirmed /\ totp'.last_used_step = c.step
        /\ totp.last_used_step = 0 /\ totp.id # 0 /\ operator.exists
    <3>1. totp \in TotpRow /\ c.step \in Steps
      BY <2>2, MfaConstants DEF TypeOK, Steps
    <3>2. totp' \in TotpRow /\ totp'.id = totp.id /\ totp'.last_used_step = c.step
      BY <2>1, <3>1 DEF TotpRow
    <3>3. totp'.confirmed
      BY <2>1, <3>1 DEF TotpRow
    <3>4. totp.id # 0
      BY <2>1, <2>2, MfaConstants DEF Enrollments
    <3>5. operator.exists
      BY <3>4 DEF RowsInv, NoRow
    <3>6. totp.last_used_step = 0
      BY <2>1 DEF RowsInv
    <3>7. QED
      BY <3>2, <3>3, <3>4, <3>5, <3>6
  <2>4. TypeOK'
    <3>1. recovery' \subseteq CodeIds /\ nextCode' \in 1..(MaxCodes + 1)
      BY <2>1, MfaConstants DEF TypeOK, CodeIds
    <3>2. operator' \in [exists : BOOLEAN, mfa_enabled : BOOLEAN]
      BY <2>1 DEF TypeOK
    <3>3. req' \in [Requests -> Request] /\ accepted' \in [Code -> Nat]
      BY <2>1, <2>2, Targets DEF TypeOK
    <3>4. QED
      BY <2>1, <2>3, <3>1, <3>2, <3>3 DEF TypeOK
  <2>5. RowsInv'
    BY <2>1, <2>3, MfaConstants DEF RowsInv, TypeOK
  <2>6. RequestsInv'
    BY <2>1, Targets DEF RequestsInv, TypeOK
  <2>7. accepted[c] = 0
    <3>1. c \notin Withdrawn
      BY <2>1, <2>2, <2>3, MfaConstants DEF Withdrawn
    <3>2. QED
      BY <2>2, <3>1 DEF SpentInv
  <2>8. SpentInv'
    <3> SUFFICES ASSUME NEW d \in Code
                 PROVE  accepted'[d] <= 1 /\ (accepted'[d] # 0 => d \in Withdrawn')
      BY DEF SpentInv
    <3>1. CASE d = c
      <4>1. accepted'[d] = 1
        BY <2>1, <2>2, <2>7, <3>1 DEF TypeOK
      <4>2. c.id < nextTotp
        BY <2>1 DEF RequestsInv
      <4>3. d \in Withdrawn'
        BY <2>1, <2>2, <2>3, <3>1, <4>2, MfaConstants DEF Withdrawn
      <4>4. QED
        BY <4>1, <4>3
    <3>2. CASE d # c
      <4>1. accepted'[d] = accepted[d]
        BY <2>1, <2>2, <3>2 DEF TypeOK
      <4>2. CASE d.kind = "totp"
        <5>1. d \in Withdrawn => d \in Withdrawn'
          BY <2>1, <2>2, <2>3, <4>2, MfaConstants DEF Withdrawn, Code, TotpCode, RecoveryCode
        <5>2. QED
          BY <4>1, <5>1 DEF SpentInv
      <4>3. CASE d.kind # "totp"
        <5>1. d \in RecoveryCode /\ d.id \in Nat
          BY <4>3, MfaConstants DEF Code, TotpCode, RecoveryCode, CodeIds
        <5>2. d \in Withdrawn => d \in Withdrawn'
          BY <2>1, <4>3, <5>1, MfaConstants DEF Withdrawn, TypeOK
        <5>3. QED
          BY <4>1, <5>2 DEF SpentInv
      <4>4. QED
        BY <4>2, <4>3
    <3>3. QED
      BY <3>1, <3>2
  <2>9. ConfirmedMeansProved'
    <3>1. c = [kind |-> "totp", id |-> totp'.id, step |-> c.step]
      BY <2>1, <2>2, <2>3 DEF TotpCode
    <3>2. accepted'[c] = 1
      BY <2>1, <2>2, <2>7 DEF TypeOK
    <3>3. c.step \in 1..(totp'.last_used_step)
      BY <2>2, <2>3, MfaConstants
    <3>4. QED
      BY <3>1, <3>2, <3>3 DEF ConfirmedMeansProved
  <2>10. SecondFactorImpliesFlag'
    <3>1. operator'.mfa_enabled = (TRUE /\ operator.exists)
      BY <2>1 DEF TypeOK
    <3>2. operator'.mfa_enabled
      BY <2>3, <3>1
    <3>3. QED
      BY <3>2 DEF SecondFactorImpliesFlag
  <2>11. QED
    BY <2>4, <2>5, <2>6, <2>8, <2>9, <2>10
<1>2. QED
  BY <1>0, <1>1

\* disable, and the cascade of delete_by_id: the rows are gone.
LEMMA RowsGone ==
    ASSUME IInv, totp' = NoRow, recovery' = {}, ~operator'.mfa_enabled,
           operator' \in [exists : BOOLEAN, mfa_enabled : BOOLEAN],
           UNCHANGED <<nextTotp, nextCode, now, accepted>>
    PROVE  RowsInv' /\ SpentInv' /\ ConfirmedMeansProved' /\ SecondFactorImpliesFlag' /\ totp' \in TotpRow
<1> USE DEF IInv
<1>1. RowsInv' /\ ConfirmedMeansProved' /\ SecondFactorImpliesFlag' /\ totp' \in TotpRow
  BY MfaConstants
     DEF NoRow, RowsInv, ConfirmedMeansProved, SecondFactorImpliesFlag, TypeOK, TotpRow, Steps
<1>2. \A d \in Code : d \in Withdrawn => d \in Withdrawn'
  BY MfaConstants DEF Withdrawn, NoRow, Code, TotpCode, RecoveryCode, Enrollments
<1>3. SpentInv'
  BY <1>2 DEF SpentInv
<1>4. QED
  BY <1>1, <1>3

LEMMA DisableStep ==
    ASSUME IInv, NEW r \in Requests, DisableTx(r)
    PROVE  IInv'
<1> USE DEF IInv
<1>1. /\ totp' = NoRow /\ recovery' = {}
      /\ operator' = [operator EXCEPT !.mfa_enabled = FALSE /\ operator.exists]
      /\ req' = [req EXCEPT ![r] = Idle]
      /\ UNCHANGED <<nextTotp, nextCode, now, accepted>>
  BY DEF DisableTx, SetOperatorFlag, Finish
<1>2. operator' \in [exists : BOOLEAN, mfa_enabled : BOOLEAN] /\ ~operator'.mfa_enabled
  BY <1>1 DEF TypeOK
<1>3. RowsInv' /\ SpentInv' /\ ConfirmedMeansProved' /\ SecondFactorImpliesFlag' /\ totp' \in TotpRow
  BY <1>1, <1>2, RowsGone
<1>4. TypeOK'
  BY <1>1, <1>2, <1>3, Targets DEF TypeOK
<1>5. RequestsInv'
  BY <1>1, Targets DEF RequestsInv, TypeOK
<1>6. QED
  BY <1>3, <1>4, <1>5

LEMMA DeleteStep ==
    ASSUME IInv, DeleteOperator
    PROVE  IInv'
<1> USE DEF IInv
<1>1. /\ totp' = NoRow /\ recovery' = {}
      /\ operator' = [operator EXCEPT !.exists = FALSE, !.mfa_enabled = FALSE]
      /\ UNCHANGED <<nextTotp, nextCode, now, req, accepted>>
  BY DEF DeleteOperator
<1>2. operator' \in [exists : BOOLEAN, mfa_enabled : BOOLEAN] /\ ~operator'.mfa_enabled
  BY <1>1 DEF TypeOK
<1>3. RowsInv' /\ SpentInv' /\ ConfirmedMeansProved' /\ SecondFactorImpliesFlag' /\ totp' \in TotpRow
  BY <1>1, <1>2, RowsGone
<1>4. TypeOK'
  BY <1>1, <1>2, <1>3 DEF TypeOK
<1>5. RequestsInv'
  BY <1>1 DEF RequestsInv
<1>6. QED
  BY <1>3, <1>4, <1>5

LEMMA RegenerateStep ==
    ASSUME IInv, NEW r \in Requests, RegenerateTx(r)
    PROVE  IInv'
<1> USE DEF IInv
<1>0. CASE ~IsEnabled
  <2>1. req' = [req EXCEPT ![r] = Idle] /\ UNCHANGED <<operator, totp, nextTotp, recovery, nextCode, now, accepted>>
    BY <1>0 DEF RegenerateTx, Finish
  <2>2. QED
    BY <2>1, Targets, ReadingSteps DEF IInv
<1>1. CASE IsEnabled
  <2>1. /\ nextCode + CodesPerSet - 1 \in CodeIds
        /\ recovery' = nextCode..(nextCode + CodesPerSet - 1)
        /\ nextCode' = nextCode + CodesPerSet
        /\ req' = [req EXCEPT ![r] = Idle]
        /\ UNCHANGED <<operator, totp, nextTotp, now, accepted>>
        /\ totp.confirmed
    BY <1>1 DEF RegenerateTx, IsEnabled, MayMint, ReplaceRecoveryCodes, Finish
  <2>2. TypeOK'
    <3>1. recovery' \subseteq CodeIds /\ nextCode' \in 1..(MaxCodes + 1)
      BY <2>1, MfaConstants DEF TypeOK, CodeIds
    <3>2. QED
      BY <2>1, <3>1, Targets DEF TypeOK
  <2>3. RowsInv'
    BY <2>1, MfaConstants DEF RowsInv, TypeOK, NoRow
  <2>4. RequestsInv'
    BY <2>1, Targets DEF RequestsInv, TypeOK
  <2>5. SpentInv'
    <3>1. \A d \in Code : d \in Withdrawn => d \in Withdrawn'
      BY <2>1, MfaConstants DEF Withdrawn, Code, TotpCode, RecoveryCode, CodeIds, TypeOK
    <3>2. QED
      BY <2>1, <3>1 DEF SpentInv
  <2>6. ConfirmedMeansProved' /\ SecondFactorImpliesFlag'
    BY <2>1 DEF ConfirmedMeansProved, SecondFactorImpliesFlag
  <2>7. QED
    BY <2>2, <2>3, <2>4, <2>5, <2>6
<1>2. QED
  BY <1>0, <1>1

-----------------------------------------------------------------------------
\* The steps that write nothing: each keeps the code it came with, and goes to a
\* writing step only with a code of the right kind.
LEMMA QuietStep ==
    ASSUME IInv, NEW r \in Requests,
           \/ StepUp(r) \/ VerifyLoginCode(r) \/ ConsumeRecoveryCode(r)
           \/ EnrollCheck(r) \/ ConfirmRead(r) \/ Abandon(r)
    PROVE  IInv'
<1> DEFINE To(pc) == [req[r] EXCEPT !.pc = pc]
<1>1. /\ UNCHANGED <<operator, totp, nextTotp, recovery, nextCode, now, accepted>>
      /\ \/ req' = [req EXCEPT ![r] = Idle]
         \/ req' = [req EXCEPT ![r] = At(req[r].then)]
         \/ req' = [req EXCEPT ![r] = To("verify")]
         \/ req' = [req EXCEPT ![r] = To("recover")]
         \/ req' = [req EXCEPT ![r] = To("enroll")]
         \/ VerifyTotpCode(totp, req[r].code) /\ req' = [req EXCEPT ![r] = To("consume")]
         \/ VerifyTotpCode(totp, req[r].code) /\ req' = [req EXCEPT ![r] = To("confirm")]
         \/ req[r].code.kind = "recovery" /\ req' = [req EXCEPT ![r] = To("burn")]
  BY DEF StepUp, VerifyLoginCode, ConsumeRecoveryCode, EnrollCheck, ConfirmRead, Abandon,
         Finish, Continue, Goto
<1>2. /\ req[r] \in Request
      /\ \A pc \in Pcs : To(pc) \in Request /\ To(pc).pc = pc /\ To(pc).code = req[r].code
  BY DEF IInv, TypeOK, Request
<1>3. VerifyTotpCode(totp, req[r].code) => req[r].code \in TotpCode /\ req[r].code.id < nextTotp
  BY <1>2 DEF IInv, RowsInv, VerifyTotpCode, Request, Code, NoCode, TotpCode, RecoveryCode
<1>4. req[r].code.kind = "recovery" => req[r].code \in RecoveryCode
  BY <1>2 DEF Request, Code, NoCode, TotpCode, RecoveryCode
<1> HIDE DEF To
<1>5. CASE req' = [req EXCEPT ![r] = Idle]
  BY <1>1, <1>5, Targets, ReadingSteps DEF IInv
<1>6. CASE req' = [req EXCEPT ![r] = At(req[r].then)]
  BY <1>1, <1>6, Targets, ReadingSteps DEF IInv
<1>7. CASE \E pc \in {"verify", "recover", "enroll"} : req' = [req EXCEPT ![r] = To(pc)]
  BY <1>1, <1>2, <1>7, ReadingSteps, ZenonT(30) DEF Pcs
<1>8. CASE VerifyTotpCode(totp, req[r].code) /\ \E pc \in {"consume", "confirm"} : req' = [req EXCEPT ![r] = To(pc)]
  <2>1. PICK pc \in {"consume", "confirm"} : req' = [req EXCEPT ![r] = To(pc)]
    BY <1>8
  <2>2. To(pc) \in Request /\ To(pc).code \in TotpCode /\ To(pc).code.id < nextTotp /\ To(pc).pc # "burn"
    BY <1>2, <1>3, <1>8 DEF Pcs
  <2>3. QED
    BY <1>1, <2>1, <2>2, ReadingSteps
<1>9. CASE req[r].code.kind = "recovery" /\ req' = [req EXCEPT ![r] = To("burn")]
  BY <1>1, <1>2, <1>4, <1>9, ReadingSteps DEF Pcs
<1>10. QED
  BY <1>1, <1>5, <1>6, <1>7, <1>8, <1>9

LEMMA BeginStep ==
    ASSUME IInv, NEW r \in Requests, NEW h \in Handlers, NEW c \in Code \cup {NoCode}, Begin(r, h, c)
    PROVE  IInv'
<1> DEFINE q == [pc |-> h[1], then |-> h[2], code |-> c]
<1>1. q \in Request /\ q.pc \notin {"consume", "confirm", "burn"}
  BY DEF Handlers, Request, Pcs, Thens
<1>2. req' = [req EXCEPT ![r] = q] /\ UNCHANGED <<operator, totp, nextTotp, recovery, nextCode, now, accepted>>
  BY DEF Begin
<1> HIDE DEF q
<1>3. QED
  BY <1>1, <1>2, ReadingSteps

\* The passing of time: no invariant mentions the clock.
LEMMA TickStep ==
    ASSUME IInv, Tick
    PROVE  IInv'
  BY DEF Tick, IInv, TypeOK, RowsInv, RequestsInv, SpentInv, Withdrawn, ConfirmedMeansProved, SecondFactorImpliesFlag

LEMMA NextIInv ==
    ASSUME IInv, [Next]_vars
    PROVE  IInv'
<1>1. CASE UNCHANGED vars
  BY <1>1
     DEF vars, IInv, TypeOK, RowsInv, RequestsInv, SpentInv, Withdrawn, ConfirmedMeansProved, SecondFactorImpliesFlag
<1>2. CASE \E r \in Requests : Step(r) \/ Abandon(r)
  BY <1>2, QuietStep, ConsumeStep, BurnStep, EnrollStep, ConfirmStep, DisableStep, RegenerateStep DEF Step
<1>3. CASE \E r \in Requests, h \in Handlers, c \in Code \cup {NoCode} : Begin(r, h, c)
  BY <1>3, BeginStep
<1>4. CASE DeleteOperator
  BY <1>4, DeleteStep
<1>5. CASE Tick
  BY <1>5, TickStep
<1>6. QED
  BY <1>1, <1>2, <1>3, <1>4, <1>5 DEF Next

\* The inductive invariant holds in every state of every behaviour: the ids
\* AUTOINCREMENT handed out, the kind of code each in-flight request holds at
\* its write, and "accepted implies withdrawn" support one another.
THEOREM Invariance == Spec => []IInv
  BY InitIInv, NextIInv, PTL DEF Spec

\* Type correctness of the tables and of the requests in flight.
THEOREM TypeCorrect == Spec => []TypeOK
<1>1. IInv => TypeOK
  BY DEF IInv
<1>2. QED
  BY <1>1, Invariance, PTL

\* The conditional UPDATEs of consume_totp_step, consume_recovery_code_row and
\* confirm accept no code twice, for any number of concurrent requests.
THEOREM SingleUse == Spec => []CodeAcceptedOnce
<1>1. IInv => CodeAcceptedOnce
  BY DEF IInv, SpentInv, CodeAcceptedOnce
<1>2. QED
  BY <1>1, Invariance, PTL

\* A secret becomes active only by a code of that same secret: confirm names
\* the id_totp it verified, so a re-enrollment in between makes it fail.
THEOREM ProofOfPossession == Spec => []ConfirmedMeansProved
<1>1. IInv => ConfirmedMeansProved
  BY DEF IInv
<1>2. QED
  BY <1>1, Invariance, PTL

\* The flag on the operators row never hides an active second factor, because
\* set_operator_flag_in runs in the transaction that changes the rows.
THEOREM FlagCoversFactor == Spec => []SecondFactorImpliesFlag
<1>1. IInv => SecondFactorImpliesFlag
  BY DEF IInv
<1>2. QED
  BY <1>1, Invariance, PTL

-----------------------------------------------------------------------------
\* How a step may change the tables: ids are never reused, a row that stays
\* keeps its confirmation and never takes a step back, and recovery rows only
\* disappear or come with fresh ids.
TablesAdvance ==
    /\ nextTotp <= nextTotp' /\ nextCode <= nextCode'
    /\ totp'.id = totp.id =>
         totp.last_used_step <= totp'.last_used_step /\ (totp.confirmed => totp'.confirmed)
    /\ totp'.id # totp.id => totp'.id = 0 \/ totp'.id >= nextTotp
    /\ \A i \in recovery' : i \in recovery \/ i >= nextCode

LEMMA AdvanceRetires ==
    ASSUME IInv, IInv', TablesAdvance
    PROVE  OTC!Retire
<1> USE MfaConstants DEF IInv, Code, TotpCode, RecoveryCode, Enrollments, CodeIds
<1>1. Withdrawn \subseteq Withdrawn'
  <2> SUFFICES ASSUME NEW c \in Code, c \in Withdrawn PROVE c \in Withdrawn'
    BY DEF Withdrawn
  <2>1. CASE c.kind = "totp"
    <3>1. c.id \in Nat /\ c.id # 0 /\ c.step \in Nat
      BY <2>1
    <3>2. c.id < nextTotp /\ (c.id = totp.id => c.step <= totp.last_used_step)
      BY <2>1 DEF Withdrawn
    <3>3. c.id < nextTotp' /\ (c.id = totp'.id => c.step <= totp'.last_used_step)
      BY <3>1, <3>2 DEF TablesAdvance, TypeOK, TotpRow, Steps
    <3>4. QED
      BY <2>1, <3>3 DEF Withdrawn
  <2>2. CASE c.kind # "totp"
    <3>1. c.id \in Nat
      BY <2>2
    <3>2. QED
      BY <2>2, <3>1 DEF Withdrawn, TablesAdvance, TypeOK
  <2>3. QED
    BY <2>1, <2>2
<1>2. Offered' \cap Withdrawn' = {}
  BY DEF Offered, Withdrawn, TypeOK, TotpRow, Steps
<1>3. Offered \subseteq Offered' \cup Withdrawn'
  <2> SUFFICES ASSUME NEW c \in Code, c \in Offered PROVE c \in Offered' \cup Withdrawn'
    BY DEF Offered
  <2>1. CASE c.kind = "totp"
    BY <2>1 DEF Offered, Withdrawn, TablesAdvance, TypeOK, TotpRow, Steps, RowsInv
  <2>2. CASE c.kind # "totp"
    BY <2>2 DEF Offered, Withdrawn, TablesAdvance, TypeOK, RowsInv
  <2>3. QED
    BY <2>1, <2>2
<1>4. QED
  BY <1>1, <1>2, <1>3 DEF OTC!Retire

\* The tables advance in every step, whoever takes it.
LEMMA EveryStepAdvances ==
    ASSUME IInv, [Next]_vars
    PROVE  TablesAdvance
<1> USE MfaConstants DEF IInv
<1>1. CASE UNCHANGED <<totp, nextTotp, recovery, nextCode>>
  BY <1>1 DEF TablesAdvance, TypeOK, TotpRow, Steps
<1>2. ASSUME NEW r \in Requests, ConsumeTotpStep(r), ConsumeCondition(r) PROVE TablesAdvance
  <2>1. /\ totp.last_used_step < req[r].code.step
        /\ totp' = [totp EXCEPT !.last_used_step = req[r].code.step]
        /\ UNCHANGED <<nextTotp, recovery, nextCode>>
    BY <1>2 DEF ConsumeTotpStep, ConsumeCondition, UsedStep
  <2>2. req[r].code.step \in Nat
    BY <1>2 DEF ConsumeTotpStep, RequestsInv, TotpCode
  <2>3. totp' = [id |-> totp.id, confirmed |-> totp.confirmed, last_used_step |-> req[r].code.step]
    BY <2>1 DEF TypeOK, TotpRow
  <2>4. QED
    BY <2>1, <2>2, <2>3 DEF TablesAdvance, TypeOK, TotpRow, Steps
<1>3. ASSUME NEW r \in Requests, BurnRecoveryCode(r) PROVE TablesAdvance
  BY <1>3 DEF BurnRecoveryCode, TablesAdvance, TypeOK, TotpRow, Steps
<1>4. ASSUME NEW r \in Requests, BeginEnrollment(r) PROVE TablesAdvance
  BY <1>4 DEF BeginEnrollment, TablesAdvance, TypeOK, TotpRow, Steps, RowsInv, Enrollments
<1>5. ASSUME NEW r \in Requests, ConfirmTx(r), ConfirmCondition(r) PROVE TablesAdvance
  <2>1. /\ ~totp.confirmed
        /\ totp' = [totp EXCEPT !.confirmed = TRUE, !.last_used_step = req[r].code.step]
        /\ recovery' = nextCode..(nextCode + CodesPerSet - 1)
        /\ nextCode' = nextCode + CodesPerSet
        /\ UNCHANGED nextTotp
    BY <1>5 DEF ConfirmTx, ConfirmCondition, ReplaceRecoveryCodes
  <2>2. req[r].code.step \in Nat
    BY <1>5 DEF ConfirmTx, RequestsInv, TotpCode
  <2>3. totp' = [id |-> totp.id, confirmed |-> TRUE, last_used_step |-> req[r].code.step]
    BY <2>1 DEF TypeOK, TotpRow
  <2>4. totp.last_used_step = 0
    BY <2>1 DEF RowsInv
  <2>5. QED
    BY <2>1, <2>2, <2>3, <2>4 DEF TablesAdvance, TypeOK
<1>6. CASE totp' = NoRow /\ recovery' = {} /\ UNCHANGED <<nextTotp, nextCode>>
  BY <1>6 DEF TablesAdvance, NoRow, RowsInv, TypeOK
<1>7. ASSUME NEW r \in Requests, RegenerateTx(r) PROVE TablesAdvance
  BY <1>7 DEF RegenerateTx, ReplaceRecoveryCodes, TablesAdvance, TypeOK, TotpRow, Steps
<1>8. ASSUME NEW r \in Requests, Step(r) \/ Abandon(r) PROVE TablesAdvance
  <2>1. CASE \/ StepUp(r) \/ VerifyLoginCode(r) \/ ConsumeRecoveryCode(r)
             \/ EnrollCheck(r) \/ ConfirmRead(r) \/ Abandon(r)
    BY <1>1, <2>1 DEF StepUp, VerifyLoginCode, ConsumeRecoveryCode, EnrollCheck, ConfirmRead, Abandon
  <2>2. CASE ConsumeTotpStep(r)
    BY <1>1, <1>2, <2>2 DEF ConsumeTotpStep
  <2>3. CASE ConfirmTx(r)
    BY <1>1, <1>5, <2>3 DEF ConfirmTx
  <2>4. CASE DisableTx(r)
    BY <1>6, <2>4 DEF DisableTx
  <2>5. QED
    BY <1>8, <2>1, <2>2, <2>3, <2>4, <1>3, <1>4, <1>7 DEF Step
<1>9. CASE DeleteOperator
  BY <1>6, <1>9 DEF DeleteOperator
<1>10. QED
  BY <1>1, <1>8, <1>9 DEF Next, Begin, Tick, vars

\* A step that counts a code accepts it in the abstract sense: it was not
\* withdrawn before, and it is after.
LEMMA CountedCode ==
    ASSUME IInv, IInv', [Next]_vars, accepted' # accepted
    PROVE  \E c \in Code : /\ c \notin Withdrawn /\ c \in Withdrawn'
                           /\ accepted' = [accepted EXCEPT ![c] = @ + 1]
<1> USE MfaConstants DEF IInv
<1>1. PICK r \in Requests : \/ ConsumeTotpStep(r) /\ ConsumeCondition(r)
                            \/ BurnRecoveryCode(r) /\ BurnCondition(r)
                            \/ ConfirmTx(r) /\ ConfirmCondition(r)
  BY DEF Next, vars, Step, StepUp, VerifyLoginCode, ConsumeTotpStep, ConsumeRecoveryCode,
         BurnRecoveryCode, EnrollCheck, BeginEnrollment, ConfirmRead, ConfirmTx, DisableTx,
         RegenerateTx, Abandon, Begin, DeleteOperator, Tick
<1> DEFINE c == req[r].code
<1>2. accepted' = [accepted EXCEPT ![c] = @ + 1]
  BY <1>1 DEF ConsumeTotpStep, BurnRecoveryCode, ConfirmTx, Count
<1>3. c \in Code
  BY <1>1 DEF ConsumeTotpStep, BurnRecoveryCode, ConfirmTx, RequestsInv, Code
<1>4. accepted'[c] # 0
  BY <1>2, <1>3 DEF TypeOK
<1>5. c \in Withdrawn'
  BY <1>3, <1>4 DEF SpentInv
<1>6. c \notin Withdrawn
  <2>1. CASE ConsumeTotpStep(r) /\ ConsumeCondition(r)
    BY <2>1 DEF ConsumeTotpStep, ConsumeCondition, RequestsInv, TotpCode, Withdrawn, TypeOK, TotpRow, Steps
  <2>2. CASE BurnRecoveryCode(r) /\ BurnCondition(r)
    BY <2>2 DEF BurnRecoveryCode, BurnCondition, RequestsInv, RecoveryCode, Withdrawn
  <2>3. CASE ConfirmTx(r) /\ ConfirmCondition(r)
    BY <2>3 DEF ConfirmTx, ConfirmCondition, RequestsInv, RowsInv, TotpCode, Withdrawn
  <2>4. QED
    BY <1>1, <2>1, <2>2, <2>3
<1>7. QED
  BY <1>2, <1>3, <1>5, <1>6

\* The repository and the handlers implement OneTimeCodes: in every step of
\* every request codes are only issued fresh or withdrawn for ever, and a code
\* lets somebody in only in the step that withdraws it.
THEOREM Refinement == Spec => ImplementsOneTimeCodes
<1>1. Init => OTC!Init
  BY MfaConstants
     DEF Init, OTC!Init, Offered, Withdrawn, NoRow, Code, TotpCode, RecoveryCode, Enrollments, CodeIds
<1>2. IInv /\ IInv' /\ [Next]_vars => [OTC!Next]_(OTC!vars)
  <2> SUFFICES ASSUME IInv, IInv', [Next]_vars
               PROVE  OTC!Next
    OBVIOUS
  <2>1. OTC!Retire
    BY EveryStepAdvances, AdvanceRetires
  <2>2. CASE accepted' = accepted
    BY <2>1, <2>2 DEF OTC!Next, OTC!Administer
  <2>3. CASE accepted' # accepted
    BY <2>1, <2>3, CountedCode DEF OTC!Next, OTC!Accept
  <2>4. QED
    BY <2>2, <2>3
<1>3. QED
  BY <1>1, <1>2, Invariance, PTL DEF Spec, ImplementsOneTimeCodes, OTC!Spec

=============================================================================
