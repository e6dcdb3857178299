# TLA+ models of deposit processing, the aggregated-attestation pool, the execution-payload wrappers and the API hooks

These modules model five parts of this beacon-chain snapshot (`src/`) that carry state and can be checked by TLC:

* **Deposit processing** (`src/beacon-chain/core/blocks/deposit.go`) applies a block's or the chain start's deposit list to the beacon state.
* **The aggregated-attestation cache** (`src/beacon-chain/operations/attestations/kv/aggregated.go`) is fed by the gossip subscriber (`src/beacon-chain/sync/subscriber_beacon_aggregate_proof.go`). Callers delete attestations from it, and a periodic aggregation routine runs a worker pool over it.
* **The execution-payload wrappers** (`src/consensus-types/blocks/execution.go`) put the fork-specific payloads and headers behind one interface, with header projection, an emptiness check and the decoding of the payload value.
* **The electra validator reset** (`src/beacon-chain/core/electra/validator.go`) moves a validator's whole balance into the pending-deposit queue during the electra fork upgrade.
* **The API middleware hooks** (`src/beacon-chain/rpc/apimiddleware/custom_hooks.go`) rewrite a request body before the HTTP gateway forwards it, or a response body before it is served.

## System inventory

| Part | State | Operations | Interactions |
|---|---|---|---|
| Deposit processing | validators, balances, participation and inactivity arrays, `eth1_deposit_index`, `pending_balance_deposits` | `ProcessPreGenesisDeposits`, `ProcessDeposits`, `BatchVerifyDepositsSignatures`, `ProcessDeposit`, `ApplyDeposit`, `AddValidatorToRegistry`, `ActivateValidatorWithEffectiveBalance` | The caller owns the state for the whole call. A batch signature check decides whether each deposit's signature is checked again. |
| Aggregated attestation cache | `aggregatedAtt`, `blockAtt`, the seen-bits cache, the unaggregated store | `SaveAggregatedAttestation(s)`, `DeleteAggregatedAttestation`, `HasAggregatedAttestation`, `AggregateUnaggregatedAttestations`, plus read-only queries | Each operation takes several separate lock regions. Goroutines from the subscriber, block processing and the worker pool interleave between those regions. |
| Subscriber | none | `beaconAggregateProofSubscriber` | Routes an attestation to the unaggregated or the aggregated store. |
| Execution payload wrappers (`consensus-types/blocks/execution.go`) | immutable wrappers | constructors, `PayloadToHeader*`, `IsEmptyExecutionData`, `PayloadValueToWei`/`PayloadValueToGwei` | Pure functions. Callers decode the execution layer's value and wrap; block blinding chains wrap, project, wrap the header. |
| Electra `QueueEntireBalanceAndResetValidator` | balances, validators, pending balance deposits | one function | Called for each pre-activation validator by the electra fork upgrade, on the state deposit processing produced. The upgrade's second loop queues the early adopters' excess balance. |
| API middleware hooks | one request and one response body | seven array-wrapping hooks, `prepareGraffiti`, `prepareValidatorAggregates`, `serializeV2Block`/`State`/`ProducedV2Block` | The gateway calls one hook per registered endpoint on the body it holds. The hooks share no state. |
| Electra `ProcessDepositReceipts` | none | none | Does not compile in this snapshot. |

The hard behaviours are all in the cache:

* a save's check-then-act, split across an unlocked seen check and the locked merge;
* a delete that marks bits seen before it takes the lock;
* partial failure inside the worker pool.

In deposit processing the delicate points are different: an inverted boolean, an index that advances before a deposit may be skipped, fork-dependent branches, and quantisation at a boundary.

## Modules

### `Deposits.tla` and `MCDeposits.tla`

The model covers one call on one state. The state is owned by the caller, so the model is sequential, with one action per loop iteration. `version` is `state.version()`. `MCDeposits.cfg` starts from a capella or an electra state, so the fork-dependent branches are taken in the same run. `pc` follows the code's phases: `batch` → `deposits` → (`activate`, for genesis only) → `done`/`failed`, and optionally, before electra, `upgrade` → `upgrade_excess` → `upgraded`. The upgrade sets `version` to electra.

The data is abstracted as follows:

* a key is a model value;
* credentials are their kind (`bls`, `eth1`, `compounding`);
* a signature is a boolean that says whether it verifies;
* a Merkle proof is the trie position it authenticates, and it verifies exactly when that position is `eth1_deposit_index`.

`Init` enumerates every deposit list of length up to `MaxDeposits`, including nil entries. It covers the genesis call (empty registry) and a block call (a registry of at most one active validator), with or without a cancelled context.

How the definitions correspond to the code:

* `BatchVerifyDepositsSignatures` is lines 104-117. Its flag is inverted, as in the code.
* `NilDeposit` and `ProofRejected` are the two error returns.
* `ProcessDeposit` is lines 146-157 together with `ApplyDeposit` (`ApplyNewKey`/`ApplyKnownKey`), with the electra and pre-electra branches.
* `AddValidatorToRegistry` is lines 241-267.
* `ActivateValidatorWithEffectiveBalance` is one iteration of lines 42-66.

Three variables are history kept for the properties: `consumed` (the accepted proof positions), `effects` (registrations, top-ups and switches) and `preBalances`.

After a pre-electra call returns, the state may go through the electra fork upgrade:

1. `UpgradeToElectra`;
2. `UpgradeStep`*, then `UpgradePreActivationDone`;
3. `UpgradeExcessStep`*, then `UpgradeDone`.

`pc` is `upgrade`, then `upgrade_excess`, then `upgraded`.

`upgrade_to_electra` is not in this repository, so it is modelled from the consensus specification. It has two loops.

* The first calls `QueueEntireBalanceAndResetValidator` (validator.go 24-46) on every validator not yet activated, in index order.
* The second is the early-adopter loop. It calls `queue_excess_active_balance` on every validator with compounding credentials. That cuts a balance above `MIN_ACTIVATION_BALANCE` (the pre-electra `MaxEffectiveBalance`) down to it and queues the excess.

A capella genesis deposit of 6 with compounding credentials reaches this second loop. That action reads the balance, zeroes it, zeroes the effective balance, and queues the balance it read. Its error returns fire only for an index outside the registry, which the loop never passes because `RegistryWellFormed` keeps the arrays the same length.

From electra on, no deposit amount reaches the balances or the queue (see `deposits_electra_value`). So `BalanceAccountsBeforeElectra` states the balance accounting only for calls on a pre-electra state. For the same reason, a validator registered by an electra `ProcessPreGenesisDeposits` is never activated at genesis, whatever it deposited. `GenesisActivation` is therefore stated for pre-electra calls.

### `AttCaches.tla` and `MCAttCaches.tla`

A key (an `AttestationId`) is a record of the version, slot and committee index the queries filter on, plus a root standing for the rest of the attestation data. An attestation is a key plus its set of aggregation bits. An electra attestation in the pool carries the single committee bit its key folds in. `aggregated` is a function whose domain is the set of keys the Go map holds. `Bucket(k)` is a map read, where a missing key reads as an empty list. `SetBucket` is the delete's filter, which deletes the key when it empties the bucket. Each lock region of the code is one atomic step. A thread's `pc` records the next region:

* `Subscribe` routes the attestation, as the subscriber does.
* `SaveAggregatedAttestation` is three steps: `SaveHas` (lines 142-148), `SaveSeen` (150-156) and `SaveLock` (174-190).
* `DeleteAggregatedAttestation` is three steps: `Delete`, `DeleteSeen` (303-305) and `DeleteLock` (307-331).

The aggregation routine is also split into steps:

* `AggregateStart` snapshots the unaggregated store and buckets it.
* Each `WorkerTake` is one iteration of a worker loop (lines 95-119): a failure, a save through `SaveAggregatedAttestations` (which deletes on error), or a leftover.
* Each `WorkerTake` can fail only on a bucket of two or more attestations. `AggregateDisjointOneBitAtts` returns a single attestation as it is.
* `AggregateFinish` is the `wg.Wait` join followed by the deletion loop (lines 66-78). The loop calls `DeleteUnaggregatedAttestation`, which marks the bits seen and then removes the attestation (`DeleteUnaggregated`).

Two history variables serve the properties:

* `released` records the aggregates given to `DeleteAggregatedAttestation`. Those are the seen marks that account for an attestation.
* `failed` records the attestations of buckets whose aggregation failed.

The channel's capacity and the wait group are not modelled. Every worker step is enabled until it is taken, and `wg.Done` is deferred (line 94), so whether the routine returns is not a question the model can answer meaningfully.

Some of the code this module uses is not in this repository. It is modelled from its contract in `spec.md` and marked `spec_modelled` in `PROJECT.json`. This applies to:

* `attaggregation.Aggregate`: every input is covered, results are unions of disjoint inputs, and no result contains another. Overlapping inputs may make it fail.
* the seen-bits cache, and `DeleteUnaggregatedAttestation`;
* `SaveBlockAttestation`;
* `helpers.IsAggregated`.

The read-only queries are state functions. Each is one read-lock region that changes no state:

* `AggregatedAttestations` (lines 207-218);
* `AggregatedAttestationsBySlotIndex` (222-247), which filters phase0 buckets on slot and committee;
* `AggregatedAttestationsBySlotIndexElectra` (251-276), which filters electra buckets on slot and on the first attestation's committee bit;
* `AggregatedAttestationCount` (391-395), which counts the keys of the map.

`calls` bounds the number of calls into the pool (`MaxCalls`). Once that bound is reached and the callers are idle, `Quiescent` stutters.

### `AttPool.tla`: the abstract pool and the refinement

`AttPool` states what the pool promises, without locks or workers. It has two variables:

* `known`: the attestations the pool accounts for;
* `accepted`: the attestations a save returned success for.

`Learn` lets `known` only grow. `Accept(a)` adds `a` to `accepted` only once `a` is known. `AttCaches` instantiates it as `Pool == INSTANCE AttPool WITH Attestations <- Att, known <- Known`. `Known` is the set of attestations that meet one of these conditions:

* they are in the unaggregated store;
* a retained aggregate, a block attestation or a released aggregate of their key contains them;
* they belong to a failed bucket.

The last group is exempted here and checked by `FailedBucketRetained` instead. `accepted` maps to itself. The run `attpool_pool` checks `PoolSpec == Pool!Spec` as a property, so every step of every thread must be an `AttPool` step.

### `ExecutionData.tla` and `MCExecutionData.tla`

The module has eight wrapper types: a payload or a header, for each of bellatrix, capella, deneb and electra. Each type is a set of accessors that it serves, translated from its methods (`ExecutionPayloadAccessors` … `ExecutionPayloadHeaderElectraAccessors`). Any other accessor returns `ErrUnsupportedField`. A message maps each of its fields to one of three values:

* 0: all-zero bytes, a zero number, or an empty list;
* 1: any other value;
* `OverLimit`: a list longer than its SSZ limit. Computing its root fails.

The roots of lists are non-zero hashes.

`PayloadToHeader`, `PayloadToHeaderCapella`, `PayloadToHeaderDeneb` and `PayloadToHeaderElectra` are translated call by call. Each returns the first error it meets. `IsEmptyExecutionData` follows the code's order of checks.

The state machine is one caller's sequence of calls:

1. `Wrap` (`NewWrappedExecutionData`) or `WrapHeader` (the header constructors);
2. optionally `Blind`: `PayloadToHeader*` for some fork, followed by that fork's header constructor.

The payload value reaches the constructors as callers pass it: `PayloadValueToWei` of the bytes the execution layer sent, or a nil `math.Wei`. `PayloadValueToWei` is `SetBytes` (a RECURSIVE big-endian reading) of the reversed bytes. `PayloadValueToGwei` then divides by `WeiPerGwei`. `received` keeps the bytes, and `source` keeps the payload a header was made from. `MaxNonZero = 1` enumerates the all-zero message and every single-field flip, which is exactly the test shape of spec property 6. Every single-field flip is also enough to detect a field copied into the wrong place.

### `ApiHooks.tla` and `MCApiHooks.tla`

The model covers one request and one response of the endpoint the hooks are registered on, each handled once. The hooks keep no state between calls.

The data is abstracted as follows:

* an array element is a model value;
* a body that `json.Decode` rejects is `Malformed`;
* graffiti is the byte sequence of the client's string (no property is stated on it: truncation and encoding are library code the model would only restate);
* a version string is its fork plus its letter case.

How the definitions correspond to the code:

* `WrapArray(c)` is the seven wrap hooks (lines 19-141). Each one decodes the array and fails on a decode error. Otherwise it puts the array in its container's field: `index` for duties, `data` for the rest.
* `PrepareGraffiti` is lines 143-150. `ToBytes32` and `hexutil.Encode` are library code, modelled by what they do: truncate or zero-pad on the right, then emit `0x` and two lower-case digits per byte, high nibble first.
* `PrepareValidatorAggregates` is lines 152-187, which flatten each subcommittee's validators into a row.
* `SerializeV2(c)` is the three v2 serializers (lines 189-301). A version equal to "phase0" up to case (`strings.EqualFold`) goes out in the phase0 container. Every other version goes out in the altair container.

`json.Marshal` of these structs cannot fail, so its error returns are not modelled.

## Runs

All runs are listed in `PROJECT.json`.

| Run | Config | Result | Shows |
|---|---|---|---|
| deposits_capella | `MCDeposits.cfg` | pass, 121,168 distinct states | Capella and electra calls keep the registry well formed (`RegistryWellFormed`) and consume trie leaves in order (`TrieLeavesConsumedInOrder`). Both register only signed deposits, and switch to compounding only on a signed deposit (`SignatureGate`). A pre-electra call keeps every deposited amount, also through the electra upgrade that follows (`BalanceAccountsBeforeElectra`). Genesis activates exactly the validators at the maximum (`GenesisActivation`). The upgrade queues in two passes (`UpgradeQueuesPreActivation`). It first queues every pre-activation validator's whole balance, emptying the validator. It then queues every active compounding validator's excess over the minimum, leaving exactly the minimum. Each pass runs in index order, and no queued amount is zero. |
| deposits_electra_value | `MCDepositsElectraValue.cfg` | violation | From electra on, a deposit's amount is neither credited nor queued. The `AppendPendingBalanceDeposit` calls are commented out at deposit.go:200-202 and 250-253. |
| deposits_cancel | `MCDepositsCancel.cfg` | violation | A cancelled context in batch verification is swallowed (deposit.go:112-115), and `ProcessDeposits` returns success. |
| attpool_serial | `MCAttCachesSerial.cfg` | pass, 1,710,361 distinct states | With one caller and two keys of different versions, no accepted attestation is lost and no deleted aggregate comes back. |
| attpool_pool | `MCAttCachesPool.cfg` | pass, 695,414 distinct states | Two callers interleave with the aggregation routine, and aggregating a bucket may fail. They lose no accepted attestation outside a failed bucket (`NoAttestationLost`), and every step implements the abstract pool (`PoolSpec`). |
| attpool_resurrection | `MCAttCachesResurrection.cfg` | violation | A save whose seen check happened before a concurrent delete finished puts the deleted aggregate back. The trace is 8 states long. |
| attpool_bucket_error | `MCAttCachesBucketError.cfg` | violation | Two one-bit attestations of one key are subscribed, and aggregating their bucket fails. The deletion loop then removes both from the unaggregated store and marks them seen (aggregated.go:96-100 together with 66-78). Spec 7 says they stay for the next pass (`FailedBucketRetained`). |
| exec_projection | `MCExecutionData.cfg` | pass, 6,135 distinct states | Every wrapper is well formed (`TypeOK`). Every header projection that succeeds is lossless: each header field is the payload's field or the root of its list (`HeaderProjectionLossless`). An all-zero payload or header is always reported empty, without error (`IsEmptyNoFalseNegative`). |
| exec_empty_spec | `MCExecutionDataEmptySpec.cfg` | violation | A capella payload whose only non-zero field is its withdrawals is reported empty. `IsEmptyExecutionData` never checks withdrawals, blob gas or roots. |
| exec_value_order | `MCExecutionDataValueOrder.cfg` | violation | Spec 4.1 and the comment at execution.go:1664 say the supplied value is big-endian (`ValueDecodedBigEndian`). `PayloadValueToWei` reverses the bytes and so reads them least significant byte first: `<<0, 1>>` gives 256 Wei, not 1. |
| api_hooks | `MCApiHooks.cfg` | pass, 8,256 distinct states | A forwarded array request is the container's record, not the bare array (`TypeOK`). A served v2 block or state holds the object of its version, with either letter case (`ServedObjectMatchesVersion`). |
| exec_empty_blinded | `MCExecutionDataEmptyBlinded.cfg` | violation | A payload with transactions is not empty, but the header projected from it is reported empty. A header's transactions root is never checked. |

Each property of a passing run has a mutant in `PROJECT.json`: a plausible bug in the mapped definition that TLC catches.

## Bounds

**Deposits.** The bounds are two keys, amounts {3, 6} with increment 2 and maximum 4, and lists of up to 2 deposits. These are enough for the cases that matter:

* a second deposit to the same key (a top-up, or a switch);
* an amount that is not a multiple of the increment;
* amounts below and above the maximum;
* a proof at the wrong position;
* a nil entry after a valid one.

**Execution data.** The payload values are every byte string of length at most 2 over {0, 1, 3}, plus nil. These include:

* the empty string, and zero-padded strings;
* 3 Wei, which is not a whole number of Gwei when `WeiPerGwei` is 2;
* `<<0, 1>>`, which is 256 read least significant byte first and 1 read the other way.

The messages are every message with at most one non-zero field.

**Electra upgrade.** The upgrade runs on every state of the `deposits_capella` run that returned successfully. That covers genesis states with activated and non-activated validators, and block states with a pre-existing active validator and new inactive ones.

**Cache.** The bounds are three validators and one key (`MCKeys`), or two keys of different versions (`MCTwoKeys`, in the serial run). Three validators give one-bit attestations, overlapping aggregates and strict supersets. `MaxCalls` is 4-5, enough for the resurrection interleaving (subscribe, delete, plus a concurrent save), for an aggregation round between calls, and for a save, merge and delete that empties a bucket. Two keys with `MaxCalls` = 6 take more than five minutes.

**API hooks.** The bounds are arrays of up to 2 elements of one item, plus a malformed body, and graffiti of up to 3 bytes over {0, 255}. Bytes32 is shrunk to 2 bytes, so `PrepareGraffiti` pads, keeps or truncates. Version strings cover both forks in both letter cases.

## Fairness

Every run checks safety only and assumes no fairness. No liveness property is stated. The one candidate is that the aggregation routine returns. Its workers hold no lock across steps and `wg.Done` is deferred, so under weak fairness the routine would return by construction. The real limit is the producer blocking on a channel of `GOMAXPROCS` slots (line 125), and that too is unblocked by every worker step.

## Not modelled, and the plan

For the next sittings:

1. The electra committee-index folding of keys and the `BitIndices()[0]` edge. Every attestation of the model carries the one committee bit its key folds in, which is what the gossip path delivers. An attestation with no committee bit, or with several, is not modelled. The hazard is listed without a property.
2. Larger cache instances: two callers together with two keys and the worker pool exceed the five-minute budget.

Not modelled at all:

* in the API hooks:
  * a gateway body without a `data` field. `prepareValidatorAggregates` and the serializers dereference it unchecked (custom_hooks.go:178, 210, 250, 287). Whether the gateway can send such a body depends on its marshalling, which is not in this repository.
  * versions after altair. The dispatch serves every non-phase0 version in the altair container. The container types and the gateway are not in this snapshot, so only phase0 and altair are modelled.
* the beacon-state struct. It is a declaration, and the fields deposit processing uses are `Deposits`' variables.
* the mocks and test drivers;
* electra `ProcessDepositReceipts`, which does not compile.
