------------------------------ MODULE Deposits ------------------------------
(***************************************************************************)
(* Deposit processing of src/beacon-chain/core/blocks/deposit.go.          *)
(*                                                                         *)
(* One call of ProcessDeposits (a block's deposit list) or of              *)
(* ProcessPreGenesisDeposits (the chain-start list) on one beacon state.   *)
(* The state is owned by the caller for the whole call, so the model is    *)
(* sequential: one step per loop iteration of the code.                    *)
(*                                                                         *)
(* Data abstraction: a public key is a model value, withdrawal credentials *)
(* are their kind ("bls" 0x00, "eth1" 0x01, "compounding" 0x02), a         *)
(* signature is whether it verifies, and a Merkle proof is the trie leaf   *)
(* position it authenticates (it verifies iff that position is the state's *)
(* eth1_deposit_index).  Amounts are small integers in Gwei units.        *)
(***************************************************************************)
EXTENDS Integers, Sequences, FiniteSets, Functions

CONSTANTS
    Keys,               \* public keys (model values)
    Amounts,            \* deposit amounts that occur
    MaxDeposits,        \* bound on the length of a deposit list
    EffectiveBalanceIncrement,
    MaxEffectiveBalance,
    Versions,           \* the versions a state may have when the call starts
    Nil                 \* a nil deposit or a deposit with nil Data

Forks == <<"phase0", "altair", "bellatrix", "capella", "deneb", "electra">>
ForkIndex(f) == CHOOSE n \in DOMAIN Forks : Forks[n] = f
ForkNames == {Forks[n] : n \in DOMAIN Forks}

ASSUME Versions \subseteq ForkNames
ASSUME MaxDeposits \in Nat \ {0}
ASSUME MaxEffectiveBalance % EffectiveBalanceIncrement = 0

Creds     == {"bls", "eth1", "compounding"}
Positions == 0 .. MaxDeposits - 1          \* leaves of the deposit trie

DepositRec == [pubkey: Keys, cred: {"eth1", "compounding"}, amount: Amounts,
               sigValid: BOOLEAN, proofPos: Positions]
Validator  == [pubkey: Keys, cred: Creds, effBal: Nat, active: BOOLEAN]

VARIABLES
    version,            \* state.version
    validators,         \* state.validators
    balances,           \* state.balances
    prevParticipation,  \* state.previous_epoch_participation
    curParticipation,   \* state.current_epoch_participation
    inactivityScores,   \* state.inactivity_scores
    eth1DepositIndex,   \* state.eth1_deposit_index
    pendingBalanceDeposits, \* state.pending_balance_deposits (electra)
    deposits,           \* the call's input list
    genesis,            \* TRUE for ProcessPreGenesisDeposits
    ctxCancelled,       \* the call's context is cancelled
    verifySig,          \* ProcessDeposits' batchVerified
    i,                  \* loop cursor over deposits
    pc,                 \* "batch" | "deposits" | "activate" | "done" | "failed"
                        \* | "upgrade" | "upgraded" (electra fork upgrade)
    consumed,           \* history: trie leaves whose proof was accepted
    effects,            \* history: registrations, top-ups, switches
    preBalances         \* history: the balances when the call started

stateVars == <<version, validators, balances, prevParticipation, curParticipation,
               inactivityScores, eth1DepositIndex, pendingBalanceDeposits>>
vars == <<stateVars, deposits, genesis, ctxCancelled, verifySig, i, pc,
          consumed, effects, preBalances>>

-----------------------------------------------------------------------------
(* Helpers *)

\* beaconState.Version() >= version.Electra
IsElectra == ForkIndex(version) >= ForkIndex("electra")

\* ValidatorIndexByPubkey: the index of key k, or 0 when absent.
IndexOf(k) ==
    IF \E j \in DOMAIN validators : validators[j].pubkey = k
    THEN CHOOSE j \in DOMAIN validators : validators[j].pubkey = k
    ELSE 0

\* balance - balance % increment, capped at MaxEffectiveBalance.
Quantize(b) ==
    LET q == b - (b % EffectiveBalanceIncrement)
    IN  IF MaxEffectiveBalance < q THEN MaxEffectiveBalance ELSE q

\* GetValidatorFromDeposit: epochs at FAR_FUTURE (inactive); effective
\* balance 0 from electra on, else the quantized, capped amount.
GetValidatorFromDeposit(d) ==
    [pubkey |-> d.pubkey, cred |-> d.cred, active |-> FALSE,
     effBal |-> IF IsElectra THEN 0 ELSE Quantize(d.amount)]

\* verifyDepositDataWithDomain returns nil: empty list, or no cancellation,
\* no nil deposit, and every signature verifies.
BatchSignaturesVerify ==
    \/ deposits = <<>>
    \/ /\ ~ctxCancelled
       /\ \A j \in DOMAIN deposits :
             deposits[j] # Nil /\ deposits[j].sigValid

\* verifyDeposit: the Merkle branch verifies at the current deposit index.
ProofVerifies(d) == d.proofPos = eth1DepositIndex

Effect(kind, d) == [kind |-> kind, pubkey |-> d.pubkey, amount |-> d.amount,
                    sigValid |-> d.sigValid]

-----------------------------------------------------------------------------
(* Initial states: any input list of at most MaxDeposits deposits; a block *)
(* is applied to a registry that already holds at most one validator,      *)
(* pre-genesis processing starts from the empty registry.                  *)

InitialRegistry ==
    {<<>>} \cup
    { <<[pubkey |-> k, cred |-> c, effBal |-> Quantize(b), active |-> TRUE]>> :
        k \in Keys, c \in {"bls", "eth1"}, b \in {MaxEffectiveBalance} }

Init ==
    /\ version \in Versions
    /\ genesis \in BOOLEAN
    /\ validators \in IF genesis THEN {<<>>} ELSE InitialRegistry
    /\ balances = [j \in DOMAIN validators |-> MaxEffectiveBalance]
    /\ prevParticipation = [j \in DOMAIN validators |-> 0]
    /\ curParticipation = [j \in DOMAIN validators |-> 0]
    /\ inactivityScores = [j \in DOMAIN validators |-> 0]
    /\ eth1DepositIndex = 0
    /\ pendingBalanceDeposits = <<>>
    /\ deposits \in UNION {[1 .. n -> DepositRec \cup {Nil}] : n \in 0 .. MaxDeposits}
    /\ ctxCancelled \in BOOLEAN
    /\ verifySig = FALSE
    /\ i = 1
    /\ pc = "batch"
    /\ consumed = <<>>
    /\ effects = <<>>
    /\ preBalances = balances

-----------------------------------------------------------------------------
\* Variant with the flag not inverted: signatures are checked one by one
\* exactly when the batch verification passed.
BatchVerifyFlagNotInverted ==
    /\ pc = "batch"
    /\ verifySig' = BatchSignaturesVerify
    /\ pc' = "deposits"
    /\ UNCHANGED <<stateVars, deposits, genesis, ctxCancelled, i, consumed, effects, preBalances>>

(* ProcessDeposits, lines 86-89, with BatchVerifyDepositsSignatures.       *)
(* "verified" is set to TRUE exactly when the batch verification failed;   *)
(* it is then passed down as ApplyDeposit's verifySignature.               *)
BatchVerifyDepositsSignatures ==
    /\ pc = "batch"
    /\ verifySig' = ~BatchSignaturesVerify
    /\ pc' = "deposits"
    /\ UNCHANGED <<stateVars, deposits, genesis, ctxCancelled, i, consumed, effects, preBalances>>

\* ProcessDeposits, lines 92-94: a nil deposit aborts the call.
NilDeposit ==
    /\ pc = "deposits"
    /\ i <= Len(deposits)
    /\ deposits[i] = Nil
    /\ pc' = "failed"
    /\ UNCHANGED <<stateVars, deposits, genesis, ctxCancelled, verifySig, i, consumed, effects, preBalances>>

\* ProcessDeposit, lines 147-152: the Merkle branch does not verify.
ProofRejected ==
    /\ pc = "deposits"
    /\ i <= Len(deposits)
    /\ deposits[i] # Nil
    /\ ~ProofVerifies(deposits[i])
    /\ pc' = "failed"
    /\ UNCHANGED <<stateVars, deposits, genesis, ctxCancelled, verifySig, i, consumed, effects, preBalances>>

\* Variant that forgets the inactivity score append.
AddValidatorNoInactivityScore(d) ==
    /\ validators' = Append(validators, GetValidatorFromDeposit(d))
    /\ balances' = Append(balances, IF IsElectra THEN 0 ELSE d.amount)
    /\ prevParticipation' = Append(prevParticipation, 0)
    /\ curParticipation' = Append(curParticipation, 0)
    /\ UNCHANGED <<inactivityScores, pendingBalanceDeposits>>

\* Variant that appends a zero balance before electra too.
AddValidatorZeroBalance(d) ==
    /\ validators' = Append(validators, GetValidatorFromDeposit(d))
    /\ balances' = Append(balances, 0)
    /\ prevParticipation' = Append(prevParticipation, 0)
    /\ curParticipation' = Append(curParticipation, 0)
    /\ inactivityScores' = Append(inactivityScores, 0)
    /\ UNCHANGED pendingBalanceDeposits

\* AddValidatorToRegistry: validator, balance (0 from electra on, the
\* pending_balance_deposits append being commented out) and the three
\* parallel arrays are appended.
AddValidatorToRegistry(d) ==
    /\ validators' = Append(validators, GetValidatorFromDeposit(d))
    /\ balances' = Append(balances, IF IsElectra THEN 0 ELSE d.amount)
    /\ prevParticipation' = Append(prevParticipation, 0)
    /\ curParticipation' = Append(curParticipation, 0)
    /\ inactivityScores' = Append(inactivityScores, 0)
    /\ UNCHANGED pendingBalanceDeposits

\* IsValidDepositSignature: the BLS check of the deposit message under the
\* fork-agnostic deposit domain; a failed verification is "not valid", not
\* an error.
IsValidDepositSignature(d) == d.sigValid

\* ApplyDeposit, new public key (lines 185-197).
ApplyNewKey(d) ==
    \/ /\ verifySig /\ ~IsValidDepositSignature(d)   \* skipped, not an error
       /\ UNCHANGED <<validators, balances, prevParticipation, curParticipation,
                      inactivityScores, pendingBalanceDeposits, effects>>
    \/ /\ ~verifySig \/ IsValidDepositSignature(d)
       /\ AddValidatorToRegistry(d)
       /\ effects' = Append(effects, Effect("register", d))

\* Variant that decreases instead of increases the balance on a top-up.
ApplyKnownKeyDecrease(d, idx) ==
    /\ UNCHANGED <<prevParticipation, curParticipation, inactivityScores,
                   pendingBalanceDeposits, validators>>
    /\ balances' = [balances EXCEPT ![idx] = @ - d.amount]
    /\ effects' = Append(effects, Effect("topup", d))

\* Variant whose compounding switch does not require a valid signature.
ApplyKnownKeyUnsignedSwitch(d, idx) ==
    /\ UNCHANGED <<prevParticipation, curParticipation, inactivityScores,
                   pendingBalanceDeposits, balances>>
    /\ IF d.cred = "compounding" /\ validators[idx].cred = "eth1"
       THEN /\ validators' = [validators EXCEPT ![idx].cred = "compounding"]
            /\ effects' = Append(Append(effects, Effect("topup", d)), Effect("switch", d))
       ELSE /\ UNCHANGED validators
            /\ effects' = Append(effects, Effect("topup", d))

\* ApplyDeposit, known public key (lines 198-222).  From electra on the
\* signature is always checked and only a compounding switch may happen;
\* before electra the balance is increased without a signature check.
ApplyKnownKey(d, idx) ==
    /\ UNCHANGED <<prevParticipation, curParticipation, inactivityScores,
                   pendingBalanceDeposits>>
    /\ IF IsElectra
       THEN /\ UNCHANGED balances
            /\ IF d.cred = "compounding" /\ validators[idx].cred = "eth1"
                  /\ IsValidDepositSignature(d)
               THEN \* SwitchToCompoundingValidator
                    /\ validators' = [validators EXCEPT ![idx].cred = "compounding"]
                    /\ effects' = Append(Append(effects, Effect("topup", d)),
                                         Effect("switch", d))
               ELSE /\ UNCHANGED validators
                    /\ effects' = Append(effects, Effect("topup", d))
       ELSE /\ balances' = [balances EXCEPT ![idx] = @ + d.amount]
            /\ UNCHANGED validators
            /\ effects' = Append(effects, Effect("topup", d))

\* Variant that does not advance eth1_deposit_index.
ProcessDepositNoIndexAdvance ==
    /\ pc = "deposits"
    /\ i <= Len(deposits)
    /\ deposits[i] # Nil
    /\ ProofVerifies(deposits[i])
    /\ UNCHANGED eth1DepositIndex
    /\ consumed' = Append(consumed, deposits[i].proofPos)
    /\ LET d == deposits[i] IN
       IF IndexOf(d.pubkey) = 0 THEN ApplyNewKey(d)
                                ELSE ApplyKnownKey(d, IndexOf(d.pubkey))
    /\ i' = i + 1
    /\ UNCHANGED <<version, deposits, genesis, ctxCancelled, verifySig, pc, preBalances>>

\* ProcessDeposit (lines 146-157) followed by ApplyDeposit (180-225).
ProcessDeposit ==
    /\ pc = "deposits"
    /\ i <= Len(deposits)
    /\ deposits[i] # Nil
    /\ ProofVerifies(deposits[i])
    /\ eth1DepositIndex' = eth1DepositIndex + 1
    /\ consumed' = Append(consumed, deposits[i].proofPos)
    /\ LET d == deposits[i] IN
       IF IndexOf(d.pubkey) = 0 THEN ApplyNewKey(d)
                                ELSE ApplyKnownKey(d, IndexOf(d.pubkey))
    /\ i' = i + 1
    /\ UNCHANGED <<version, deposits, genesis, ctxCancelled, verifySig, pc, preBalances>>

\* End of the ProcessDeposits loop; ProcessPreGenesisDeposits goes on to
\* ActivateValidatorWithEffectiveBalance over the same list.
DepositsDone ==
    /\ pc = "deposits"
    /\ i > Len(deposits)
    /\ pc' = IF genesis THEN "activate" ELSE "done"
    /\ i' = 1
    /\ UNCHANGED <<stateVars, deposits, genesis, ctxCancelled, verifySig, consumed, effects, preBalances>>

\* Variant that derives the effective balance from the deposit's amount
\* instead of the validator's balance.
ActivateFromDepositAmount ==
    /\ pc = "activate"
    /\ i <= Len(deposits)
    /\ LET idx == IndexOf(deposits[i].pubkey) IN
       IF idx = 0 THEN UNCHANGED validators
       ELSE LET eb == Quantize(deposits[i].amount) IN
            validators' = [validators EXCEPT
                             ![idx].effBal = eb,
                             ![idx].active = IF eb = MaxEffectiveBalance THEN TRUE ELSE @]
    /\ i' = i + 1
    /\ UNCHANGED <<version, balances, prevParticipation, curParticipation, inactivityScores,
                   eth1DepositIndex, pendingBalanceDeposits, deposits, genesis,
                   ctxCancelled, verifySig, pc, consumed, effects, preBalances>>

\* ActivateValidatorWithEffectiveBalance, one loop iteration (lines 42-66):
\* an unknown key is skipped; otherwise the effective balance is derived
\* from the balance and a validator at the maximum is activated at genesis.
ActivateValidatorWithEffectiveBalance ==
    /\ pc = "activate"
    /\ i <= Len(deposits)
    /\ LET idx == IndexOf(deposits[i].pubkey) IN
       IF idx = 0 THEN UNCHANGED validators
       ELSE LET eb == Quantize(balances[idx]) IN
            validators' = [validators EXCEPT
                             ![idx].effBal = eb,
                             ![idx].active = IF eb = MaxEffectiveBalance THEN TRUE ELSE @]
    /\ i' = i + 1
    /\ UNCHANGED <<version, balances, prevParticipation, curParticipation, inactivityScores,
                   eth1DepositIndex, pendingBalanceDeposits, deposits, genesis,
                   ctxCancelled, verifySig, pc, consumed, effects, preBalances>>

ActivationDone ==
    /\ pc = "activate"
    /\ i > Len(deposits)
    /\ pc' = "done"
    /\ UNCHANGED <<stateVars, deposits, genesis, ctxCancelled, verifySig, i, consumed, effects, preBalances>>

(* The electra fork upgrade applied to the state a pre-electra call        *)
(* returned.  upgrade_to_electra is not in this repository; its loop is    *)
(* modelled from the consensus specification: every validator whose       *)
(* activation epoch is FAR_FUTURE, in (eligibility epoch, index) order, is  *)
(* passed to QueueEntireBalanceAndResetValidator, on the state whose       *)
(* version the upgrade has set to electra.  Every pre-activation    *)
(* validator of the model has eligibility FAR_FUTURE, so the order is the  *)
(* index order.  A second loop then passes every validator with compounding *)
(* credentials to queue_excess_active_balance (the early adopters).        *)
UpgradeToElectra ==
    /\ pc = "done"
    /\ ~IsElectra
    /\ version' = "electra"
    /\ pc' = "upgrade"
    /\ i' = 1
    /\ UNCHANGED <<validators, balances, prevParticipation, curParticipation,
                   inactivityScores, eth1DepositIndex, pendingBalanceDeposits, deposits, genesis, ctxCancelled, verifySig, consumed, effects, preBalances>>

\* Variant that leaves the effective balance in place.
ResetKeepsEffectiveBalance(idx) ==
    /\ balances' = [balances EXCEPT ![idx] = 0]
    /\ UNCHANGED validators
    /\ pendingBalanceDeposits' =
           Append(pendingBalanceDeposits, [index |-> idx, amount |-> balances[idx]])

(* QueueEntireBalanceAndResetValidator (electra/validator.go 24-46): the   *)
(* balance is read, then zeroed, the validator's effective balance is set  *)
(* to 0 and its eligibility to FAR_FUTURE (already FAR_FUTURE here), and   *)
(* the balance read first is appended as a pending balance deposit.        *)
(* BalanceAtIndex and ValidatorAtIndex fail only for an index outside the  *)
(* registry; the caller iterates over the registry and RegistryWellFormed  *)
(* keeps balances and validators the same length, so those error returns,  *)
(* which would leave the balance zeroed and not queued, are unreachable.   *)
QueueEntireBalanceAndResetValidator(idx) ==
    /\ balances' = [balances EXCEPT ![idx] = 0]
    /\ validators' = [validators EXCEPT ![idx].effBal = 0]
    /\ pendingBalanceDeposits' =
           Append(pendingBalanceDeposits, [index |-> idx, amount |-> balances[idx]])

\* One iteration of the upgrade loop: an activated validator is skipped.
UpgradeStep ==
    /\ pc = "upgrade"
    /\ i <= Len(validators)
    /\ \/ /\ validators[i].active
          /\ UNCHANGED <<validators, balances, pendingBalanceDeposits>>
       \/ /\ ~validators[i].active
          /\ QueueEntireBalanceAndResetValidator(i)
    /\ i' = i + 1
    /\ UNCHANGED <<version, prevParticipation, curParticipation, inactivityScores, eth1DepositIndex,
                   deposits, genesis, ctxCancelled, verifySig, pc, consumed, effects, preBalances>>

\* The pre-activation loop is over; the early-adopter loop starts.
UpgradePreActivationDone ==
    /\ pc = "upgrade"
    /\ i > Len(validators)
    /\ pc' = "upgrade_excess"
    /\ i' = 1
    /\ UNCHANGED <<stateVars, deposits, genesis, ctxCancelled, verifySig, consumed, effects, preBalances>>

(* queue_excess_active_balance (consensus specification, not in this       *)
(* repository): a balance above MIN_ACTIVATION_BALANCE, which is the       *)
(* pre-electra maximum effective balance, is cut to it and the excess is   *)
(* appended as a pending balance deposit.                                  *)
QueueExcessActiveBalance(idx) ==
    /\ balances[idx] > MaxEffectiveBalance
    /\ balances' = [balances EXCEPT ![idx] = MaxEffectiveBalance]
    /\ pendingBalanceDeposits' =
           Append(pendingBalanceDeposits,
                  [index |-> idx, amount |-> balances[idx] - MaxEffectiveBalance])

\* One iteration of the early-adopter loop: a validator with compounding
\* credentials has its excess balance queued.
UpgradeExcessStep ==
    /\ pc = "upgrade_excess"
    /\ i <= Len(validators)
    /\ \/ /\ validators[i].cred = "compounding"
          /\ QueueExcessActiveBalance(i)
       \/ /\ ~(validators[i].cred = "compounding" /\ balances[i] > MaxEffectiveBalance)
          /\ UNCHANGED <<balances, pendingBalanceDeposits>>
    /\ i' = i + 1
    /\ UNCHANGED <<version, validators, prevParticipation, curParticipation, inactivityScores,
                   eth1DepositIndex, deposits, genesis, ctxCancelled, verifySig, pc,
                   consumed, effects, preBalances>>

UpgradeDone ==
    /\ pc = "upgrade_excess"
    /\ i > Len(validators)
    /\ pc' = "upgraded"
    /\ UNCHANGED <<stateVars, deposits, genesis, ctxCancelled, verifySig, i, consumed, effects, preBalances>>

\* The call has returned (successfully or with an error).
Returned ==
    /\ pc \in {"done", "failed", "upgraded"}
    /\ UNCHANGED vars

Next ==
    \/ BatchVerifyDepositsSignatures
    \/ NilDeposit
    \/ ProofRejected
    \/ ProcessDeposit
    \/ DepositsDone
    \/ ActivateValidatorWithEffectiveBalance
    \/ ActivationDone
    \/ UpgradeToElectra
    \/ UpgradeStep
    \/ UpgradePreActivationDone
    \/ UpgradeExcessStep
    \/ UpgradeDone
    \/ Returned

Spec == Init /\ [][Next]_vars

-----------------------------------------------------------------------------
(* Properties *)

TypeOK ==
    /\ version \in ForkNames
    /\ validators \in Seq(Validator)
    /\ balances \in Seq(Nat)
    /\ eth1DepositIndex \in Nat
    /\ pendingBalanceDeposits \in Seq([index: Nat, amount: Nat])
    /\ verifySig \in BOOLEAN
    /\ pc \in {"batch", "deposits", "activate", "done", "failed", "upgrade", "upgrade_excess",
               "upgraded"}
    /\ i \in 1 .. MaxDeposits + 2

\* Total amount of the deposits for key k whose value the state must keep:
\* every registration and every top-up.
Deposited(k) ==
    LET J == {j \in DOMAIN effects : effects[j].pubkey = k /\ effects[j].kind # "switch"}
    IN  SumFunctionOnSet([j \in DOMAIN effects |-> effects[j].amount], J)

PendingFor(idx) ==
    LET J == {j \in DOMAIN pendingBalanceDeposits : pendingBalanceDeposits[j].index = idx}
    IN  SumFunctionOnSet([j \in DOMAIN pendingBalanceDeposits |->
                            pendingBalanceDeposits[j].amount], J)

\* The registry stays well formed through any sequence of deposits (one
\* ApplyDeposit branch per deposit): one validator index per public key,
\* and balances and the participation and inactivity arrays appended in
\* lock-step with the validators (AddValidatorToRegistry).
RegistryWellFormed ==
    /\ IsInjective([j \in DOMAIN validators |-> validators[j].pubkey])
    /\ Len(balances) = Len(validators)
    /\ Len(prevParticipation) = Len(validators)
    /\ Len(curParticipation) = Len(validators)
    /\ Len(inactivityScores) = Len(validators)

\* Each leaf of the deposit trie is consumed at most once and in trie
\* order: the proofs accepted by verifyDeposit are exactly the leaves
\* 0 .. eth1_deposit_index - 1, whatever the signatures were (ProcessDeposit
\* advances the index before ApplyDeposit may skip the deposit).
TrieLeavesConsumedInOrder ==
    consumed = [j \in 1 .. eth1DepositIndex |-> j - 1]

\* A validator is registered, or switched to compounding credentials, only
\* on a deposit whose signature verifies: either the batch verification
\* passed for the whole list or ApplyDeposit verified it on its own.  The
\* inverted "batchVerified" flag of BatchVerifyDepositsSignatures is what
\* this depends on.
SignatureGate ==
    \A j \in DOMAIN effects :
        effects[j].kind \in {"register", "switch"} => effects[j].sigValid

\* No deposited value is lost: for every validator, its balance plus its
\* pending balance deposits equal its balance before the call plus the
\* amounts of all its deposits that were applied (registration or top-up).
BalanceAccountsForDeposits ==
    \A j \in DOMAIN validators :
        balances[j] + PendingFor(j) =
            (IF j \in DOMAIN preBalances THEN preBalances[j] ELSE 0)
            + Deposited(validators[j].pubkey)

\* The call ran on an electra state (the upgrade happens only after a
\* pre-electra call, and sets the version itself).
ElectraCall == IsElectra /\ pc \notin {"upgrade", "upgrade_excess", "upgraded"}

\* A pre-electra call keeps every deposited value, also through the electra
\* upgrade that may follow it (BalanceAccountsForDeposits); from electra on
\* it does not (run deposits_electra_value).
BalanceAccountsBeforeElectra ==
    ~ElectraCall => BalanceAccountsForDeposits

\* After a pre-electra ProcessPreGenesisDeposits returns, a registered
\* validator is active at genesis exactly when the quantized total of its
\* applied deposits reaches MaxEffectiveBalance.
GenesisActivation ==
    (genesis /\ pc = "done" /\ ~ElectraCall) =>
        \A j \in DOMAIN validators :
            validators[j].active <=>
                Quantize(Deposited(validators[j].pubkey)) = MaxEffectiveBalance

\* Spec 4.2 / 5: a cancelled context makes the deposit processing call
\* abort with an error; it never returns success.
CancelledCallAborts ==
    (ctxCancelled /\ deposits # <<>>) => pc # "done"

\* The electra upgrade queues in two passes (upgrade_to_electra): first the
\* whole balance of every validator not yet activated, once each and in
\* index order (QueueEntireBalanceAndResetValidator), then the excess over
\* MIN_ACTIVATION_BALANCE of every activated compounding validator, again
\* in index order.  Afterwards a pre-activation validator holds no balance
\* and no effective balance, no compounding validator holds more than the
\* minimum, an excess entry is left holding exactly the minimum, and no
\* queued amount is zero: a balance read after the zeroing would be.
UpgradeQueuesPreActivation ==
    pc = "upgraded" =>
        LET pre  == {j \in DOMAIN validators : ~validators[j].active}
            q    == pendingBalanceDeposits
            P    == Cardinality(pre)
            Incr(S) == \A m, n \in S : m < n => q[m].index < q[n].index
        IN  /\ \A j \in pre : balances[j] = 0 /\ validators[j].effBal = 0
            /\ P <= Len(q)
            /\ {q[n].index : n \in 1 .. P} = pre
            /\ Incr(1 .. P) /\ Incr(P + 1 .. Len(q))
            /\ \A n \in P + 1 .. Len(q) :
                  /\ validators[q[n].index].cred = "compounding"
                  /\ validators[q[n].index].active
                  /\ balances[q[n].index] = MaxEffectiveBalance
            /\ \A j \in DOMAIN validators :
                  validators[j].cred = "compounding" => balances[j] <= MaxEffectiveBalance
            /\ \A n \in DOMAIN q : q[n].amount > 0

=============================================================================
