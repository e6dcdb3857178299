----------------------------- MODULE AttCaches -----------------------------
(***************************************************************************)
(* The aggregated-attestation part of the attestation pool                *)
(* (src/beacon-chain/operations/attestations/kv/aggregated.go), driven by *)
(* the gossip subscriber (src/beacon-chain/sync/                           *)
(* subscriber_beacon_aggregate_proof.go), by callers deleting included     *)
(* aggregates, and by the periodic AggregateUnaggregatedAttestations with *)
(* its worker pool.                                                        *)
(*                                                                         *)
(* Data abstraction: an AttestationId (version and data root with the      *)
(* committee index folded in) is an element of Keys, a record of the      *)
(* version, the slot and the committee index the read-only queries look   *)
(* at and a root standing for the rest of the data; an attestation is its *)
(* key and its set of aggregation bits (a subset of Validators).  An      *)
(* electra attestation of the pool carries the one committee bit its key  *)
(* folds in (BitIndices()[0]).  All *)
(* attestations of one key share one version, so the version filters in  *)
(* the bucket loops never drop anything and are not modelled.              *)
(*                                                                         *)
(* Every lock region of the code is one step; what the code does between  *)
(* two lock regions is where other threads may interleave.                *)
(***************************************************************************)
EXTENDS Integers, FiniteSets, Functions, TLC

CONSTANTS
    Keys,               \* AttestationIds: [version, slot, committee, root]
    Validators,         \* committee positions of the aggregation bitlist
    Callers,            \* threads calling the pool (subscriber, block processing)
    Workers,            \* aggregateParallel's goroutines; {} = routine not run
    AggregationMayFail, \* AggregateDisjointOneBitAtts may return an error
    MaxCalls,           \* bound on calls into the pool (model bound)
    None

ASSUME MaxCalls \in Nat
ASSUME AggregationMayFail \in BOOLEAN
ASSUME Callers \cap Workers = {}

Bits    == SUBSET Validators \ {{}}
Att     == [key: Keys, bits: Bits]
Threads == Callers \cup Workers

\* helpers.IsAggregated: more than one aggregation bit set.
IsAggregated(b) == Cardinality(b) > 1

VARIABLES
    aggregated,     \* c.aggregatedAtt: a map from the keys it tracks to the
                    \* retained aggregates' bits
    blockAtts,      \* c.blockAtt: key -> bits of attestations seen in blocks
    unaggregated,   \* the unaggregated store (one-bit attestations)
    seen,           \* the seen-bits cache: key -> bits marked as seen
    released,       \* history: key -> bits given to DeleteAggregatedAttestation
    pc,             \* thread -> step of the operation in progress
    arg,            \* thread -> the attestation of that operation
    aggPhase,       \* AggregateUnaggregatedAttestations: "idle" | "running"
    snapshot,       \* the unaggregated attestations it read
    queue,          \* buckets not yet taken from the channel by a worker
    leftOver,       \* leftOverUnaggregatedAtt
    failed,         \* history: attestations of the buckets whose aggregation
                    \* failed
    accepted,       \* history: attestations the pool accepted
    calls           \* calls made so far (bounded by MaxCalls)

vars == <<aggregated, blockAtts, unaggregated, seen, released, pc, arg,
          aggPhase, snapshot, queue, leftOver, failed, accepted, calls>>
aggVars == <<aggPhase, snapshot, queue, leftOver, failed>>

-----------------------------------------------------------------------------
(* attaggregation.Aggregate is not in this repository; it is modelled by   *)
(* its contract (spec 3 and 4.3): each result combines pairwise disjoint   *)
(* inputs into their union, every input is covered by some result, and no  *)
(* result is a subset of another.  Inputs that overlap without one         *)
(* containing the other may make the merge fail.                           *)

DisjointUnions(L) ==
    { UNION P : P \in { P \in SUBSET L :
                          P # {} /\ \A a, b \in P : a # b => a \cap b = {} } }

AggregateResults(L) ==
    { R \in SUBSET DisjointUnions(L) :
        /\ \A a \in L : \E r \in R : a \subseteq r
        /\ \A r, s \in R : r # s => ~(r \subseteq s) }

AggregateMayFail(L) ==
    \E a, b \in L : a \cap b # {} /\ ~(a \subseteq b) /\ ~(b \subseteq a)

\* A read of c.aggregatedAtt[key]: a key the map does not hold reads as
\* an empty list.
Bucket(k) == IF k \in DOMAIN aggregated THEN aggregated[k] ELSE {}

\* HasAggregatedAttestation: a retained aggregate or a block attestation
\* of the same key contains the bits.
HasAggregated(a) ==
    \E b \in Bucket(a.key) \cup blockAtts[a.key] : a.bits \subseteq b

\* hasSeenBit (seen-bits cache, not in this repository): a seen bitlist of
\* the same key contains the bits.
HasSeenBit(a) == \E s \in seen[a.key] : a.bits \subseteq s

-----------------------------------------------------------------------------
(* The read-only queries (lines 207-276, 391-395).  Each is one region    *)
(* under the read lock and changes no state, so each is a state function. *)

\* AggregatedAttestations: every retained aggregate of every bucket.
AggregatedAttestations ==
    UNION {{[key |-> k, bits |-> b] : b \in aggregated[k]} : k \in DOMAIN aggregated}

\* The committee bits of the bucket's first attestation (GetCommitteeBitsVal).
CommitteeBits(k) == {k.committee}

\* AggregatedAttestationsBySlotIndex: the buckets whose first attestation
\* is a phase0 attestation of the slot and committee.
AggregatedAttestationsBySlotIndex(slot, committeeIndex) ==
    {a \in AggregatedAttestations :
        a.key.version = "phase0" /\ a.key.slot = slot /\ a.key.committee = committeeIndex}

\* AggregatedAttestationsBySlotIndexElectra: the buckets whose first
\* attestation is an electra attestation of the slot with the committee's
\* bit set.
AggregatedAttestationsBySlotIndexElectra(slot, committeeIndex) ==
    {a \in AggregatedAttestations :
        a.key.version = "electra" /\ a.key.slot = slot /\ committeeIndex \in CommitteeBits(a.key)}

\* AggregatedAttestationCount: the number of keys the map holds.
AggregatedAttestationCount == Cardinality(DOMAIN aggregated)

-----------------------------------------------------------------------------

Init ==
    /\ aggregated = [k \in {} |-> {}]
    /\ blockAtts = [k \in Keys |-> {}]
    /\ unaggregated = {}
    /\ seen = [k \in Keys |-> {}]
    /\ released = [k \in Keys |-> {}]
    /\ pc = [t \in Threads |-> "idle"]
    /\ arg = [t \in Threads |-> None]
    /\ aggPhase = "idle"
    /\ snapshot = {}
    /\ queue = {}
    /\ leftOver = {}
    /\ failed = {}
    /\ accepted = {}
    /\ calls = 0

Goto(t, step) == pc' = [pc EXCEPT ![t] = step]

\* A new call into the pool, within the model's bound.
Call == calls < MaxCalls /\ calls' = calls + 1

\* The operation of thread t returns.  A caller is done.  A worker runs
\* SaveAggregatedAttestations: on an error it goes on to
\* DeleteAggregatedAttestation of the same attestation (lines 196-200).
SaveReturns(t, ok) ==
    /\ IF t \in Workers /\ ~ok
       THEN Goto(t, "del_seen") /\ UNCHANGED arg
       ELSE Goto(t, "idle") /\ arg' = [arg EXCEPT ![t] = None]
    /\ accepted' = IF t \in Callers /\ ok THEN accepted \cup {arg[t]} ELSE accepted

\* Variant with the IsAggregated test inverted.
SubscribeInverted(t, a) ==
    /\ pc[t] = "idle"
    /\ Call
    /\ IF ~IsAggregated(a.bits)
       THEN /\ Goto(t, "save_has")
            /\ arg' = [arg EXCEPT ![t] = a]
            /\ UNCHANGED <<unaggregated, accepted>>
       ELSE /\ unaggregated' = unaggregated \cup {a}
            /\ accepted' = accepted \cup {a}
            /\ UNCHANGED <<pc, arg>>
    /\ UNCHANGED <<aggregated, blockAtts, seen, released, aggVars>>

\* beaconAggregateProofSubscriber: an unaggregated attestation goes to the
\* unaggregated store (SaveUnaggregatedAttestation), an aggregated one to
\* SaveAggregatedAttestation.
Subscribe(t, a) ==
    /\ pc[t] = "idle"
    /\ Call
    /\ IF IsAggregated(a.bits)
       THEN /\ Goto(t, "save_has")
            /\ arg' = [arg EXCEPT ![t] = a]
            /\ UNCHANGED <<unaggregated, accepted>>
       ELSE /\ unaggregated' = unaggregated \cup {a}
            /\ accepted' = accepted \cup {a}
            /\ UNCHANGED <<pc, arg>>
    /\ UNCHANGED <<aggregated, blockAtts, seen, released, aggVars>>

\* SaveAggregatedAttestation, lines 142-148: already held (read locks).
SaveHas(t) ==
    /\ pc[t] = "save_has"
    /\ IF HasAggregated(arg[t])
       THEN SaveReturns(t, TRUE)
       ELSE Goto(t, "save_seen") /\ UNCHANGED <<arg, accepted>>
    /\ UNCHANGED <<calls, aggregated, blockAtts, unaggregated, seen, released, aggVars>>

\* Variant without the seen-bits check.
SaveSeenUnchecked(t) ==
    /\ pc[t] = "save_seen"
    /\ Goto(t, "save_lock")
    /\ UNCHANGED <<calls, aggregated, blockAtts, unaggregated, seen, released, arg, aggVars, accepted>>

\* Lines 150-156: already seen.
SaveSeen(t) ==
    /\ pc[t] = "save_seen"
    /\ IF HasSeenBit(arg[t])
       THEN SaveReturns(t, TRUE)
       ELSE Goto(t, "save_lock") /\ UNCHANGED <<arg, accepted>>
    /\ UNCHANGED <<calls, aggregated, blockAtts, unaggregated, seen, released, aggVars>>

\* Lines 174-190, under aggregatedAttLock: a new bucket, or the bucket
\* merged with the attestation by attaggregation.Aggregate, which may fail.
SaveLock(t) ==
    LET a == arg[t]
        L == Bucket(a.key) \cup {a.bits}
    IN
    /\ pc[t] = "save_lock"
    /\ \/ /\ a.key \notin DOMAIN aggregated
          /\ aggregated' = aggregated @@ (a.key :> {a.bits})
          /\ SaveReturns(t, TRUE)
       \/ /\ a.key \in DOMAIN aggregated
          /\ \E R \in AggregateResults(L) :
                aggregated' = [aggregated EXCEPT ![a.key] = R]
          /\ SaveReturns(t, TRUE)
       \/ /\ a.key \in DOMAIN aggregated
          /\ AggregateMayFail(L)
          /\ UNCHANGED aggregated
          /\ SaveReturns(t, FALSE)
    /\ UNCHANGED <<calls, blockAtts, unaggregated, seen, released, aggVars>>

\* DeleteAggregatedAttestation called by a caller on an aggregated
\* attestation (e.g. one included in a block).
Delete(t, a) ==
    /\ pc[t] = "idle"
    /\ Call
    /\ IsAggregated(a.bits)
    /\ Goto(t, "del_seen")
    /\ arg' = [arg EXCEPT ![t] = a]
    /\ UNCHANGED <<aggregated, blockAtts, unaggregated, seen, released, aggVars, accepted>>

\* Lines 303-305: insertSeenBit, before the store lock is taken.
DeleteSeen(t) ==
    /\ pc[t] = "del_seen"
    /\ seen' = [seen EXCEPT ![arg[t].key] = @ \cup {arg[t].bits}]
    /\ released' = [released EXCEPT ![arg[t].key] = @ \cup {arg[t].bits}]
    /\ Goto(t, "del_lock")
    /\ UNCHANGED <<calls, aggregated, blockAtts, unaggregated, arg, aggVars, accepted>>

\* Store the filtered bucket of key k; a bucket left empty is deleted
\* from the map.
SetBucket(k, filtered) ==
    IF filtered = {} THEN Restrict(aggregated, DOMAIN aggregated \ {k})
                     ELSE [aggregated EXCEPT ![k] = filtered]

\* Variant with the Contains test the wrong way round: it drops the
\* retained aggregates that contain the deleted one.
DeleteLockSupersets(t) ==
    LET a == arg[t] IN
    /\ pc[t] = "del_lock"
    /\ aggregated' = IF a.key \notin DOMAIN aggregated THEN aggregated
                     ELSE SetBucket(a.key, {b \in aggregated[a.key] : ~(a.bits \subseteq b)})
    /\ Goto(t, "idle")
    /\ arg' = [arg EXCEPT ![t] = None]
    /\ UNCHANGED <<calls, blockAtts, unaggregated, seen, released, aggVars, accepted>>

\* Lines 307-331, under aggregatedAttLock: a key the map does not hold
\* returns at once; otherwise drop every aggregate contained in the
\* deleted one, and delete the key when its bucket is emptied.
DeleteLock(t) ==
    LET a == arg[t] IN
    /\ pc[t] = "del_lock"
    /\ aggregated' = IF a.key \notin DOMAIN aggregated THEN aggregated
                     ELSE SetBucket(a.key, {b \in aggregated[a.key] : ~(b \subseteq a.bits)})
    /\ Goto(t, "idle")
    /\ arg' = [arg EXCEPT ![t] = None]
    /\ UNCHANGED <<calls, blockAtts, unaggregated, seen, released, aggVars, accepted>>

\* SaveBlockAttestation (not in this repository): block processing records
\* an attestation included in a block.
SaveBlockAttestation(a) ==
    /\ Call
    /\ blockAtts' = [blockAtts EXCEPT ![a.key] = @ \cup {a.bits}]
    /\ UNCHANGED <<aggregated, unaggregated, seen, released, pc, arg, aggVars, accepted>>

-----------------------------------------------------------------------------
(* AggregateUnaggregatedAttestations *)

\* Lines 26-63: snapshot the unaggregated store, bucket it by key and hand
\* the buckets to the pool's channel.
AggregateStart ==
    /\ Workers # {}
    /\ aggPhase = "idle"
    /\ Call
    /\ snapshot' = unaggregated
    /\ queue' = { {u \in unaggregated : u.key = k} : k \in Keys } \ {{}}
    /\ leftOver' = {}
    /\ aggPhase' = "running"
    /\ UNCHANGED <<aggregated, blockAtts, unaggregated, seen, released, pc, arg, failed, accepted>>

\* Variant that does not record a lone attestation as a leftover.
WorkerTakeNoLeftover(w, bucket) ==
    LET agg == [key |-> (CHOOSE u \in bucket : TRUE).key,
                bits |-> UNION {u.bits : u \in bucket}]
    IN
    /\ pc[w] = "idle"
    /\ aggPhase = "running"
    /\ queue' = queue \ {bucket}
    /\ IF IsAggregated(agg.bits)
       THEN Goto(w, "save_has") /\ arg' = [arg EXCEPT ![w] = agg]
       ELSE UNCHANGED <<pc, arg>>
    /\ UNCHANGED <<calls, leftOver, failed, aggregated, blockAtts, unaggregated, seen, released,
                   aggPhase, snapshot, accepted>>

\* One iteration of a worker's loop (lines 95-119): aggregate the bucket;
\* an error is logged and the bucket skipped (AggregateDisjointOneBitAtts
\* returns a one-element list's attestation as it is, so only a bucket of
\* two or more can fail); an aggregated result is saved with
\* SaveAggregatedAttestations; a lone attestation is a leftover.
WorkerTake(w, bucket) ==
    LET agg == [key |-> (CHOOSE u \in bucket : TRUE).key,
                bits |-> UNION {u.bits : u \in bucket}]
    IN
    /\ pc[w] = "idle"
    /\ aggPhase = "running"
    /\ queue' = queue \ {bucket}
    /\ \/ /\ AggregationMayFail /\ Cardinality(bucket) > 1
          /\ failed' = failed \cup bucket
          /\ UNCHANGED <<pc, arg, leftOver>>
       \/ /\ IsAggregated(agg.bits)
          /\ Goto(w, "save_has")
          /\ arg' = [arg EXCEPT ![w] = agg]
          /\ UNCHANGED <<leftOver, failed>>
       \/ /\ ~IsAggregated(agg.bits)
          /\ leftOver' = leftOver \cup bucket
          /\ UNCHANGED <<pc, arg, failed>>
    /\ UNCHANGED <<calls, aggregated, blockAtts, unaggregated, seen, released, aggPhase, snapshot, accepted>>

\* DeleteUnaggregatedAttestation of each attestation of D (not in this
\* repository): insertSeenBit, then removal from the unaggregated store.
DeleteUnaggregated(D) ==
    /\ seen' = [k \in Keys |-> seen[k] \cup {d.bits : d \in {d \in D : d.key = k}}]
    /\ unaggregated' = unaggregated \ D
    /\ UNCHANGED released

\* Variant that deletes the whole snapshot, leftovers included.
AggregateFinishIgnoresLeftover ==
    /\ aggPhase = "running"
    /\ queue = {}
    /\ \A w \in Workers : pc[w] = "idle"
    /\ DeleteUnaggregated(snapshot)
    /\ aggPhase' = "idle"
    /\ snapshot' = {}
    /\ leftOver' = {}
    /\ UNCHANGED <<calls, aggregated, blockAtts, pc, arg, queue, failed, accepted>>

\* Lines 128-131 and 66-78: once the channel is drained and every worker
\* is done, delete the snapshot's attestations that are not leftovers
\* (DeleteUnaggregatedAttestation, which marks their bits seen).
AggregateFinish ==
    /\ aggPhase = "running"
    /\ queue = {}
    /\ \A w \in Workers : pc[w] = "idle"
    /\ DeleteUnaggregated(snapshot \ leftOver)
    /\ aggPhase' = "idle"
    /\ snapshot' = {}
    /\ leftOver' = {}
    /\ UNCHANGED <<calls, aggregated, blockAtts, pc, arg, queue, failed, accepted>>

\* The model's bound on calls is reached and every caller has returned;
\* the aggregation routine may still be running.
Quiescent ==
    /\ calls = MaxCalls
    /\ \A t \in Callers : pc[t] = "idle"
    /\ UNCHANGED vars

-----------------------------------------------------------------------------

Next ==
    \/ \E t \in Callers, a \in Att : Subscribe(t, a) \/ Delete(t, a)
    \/ \E t \in Threads :
          SaveHas(t) \/ SaveSeen(t) \/ SaveLock(t) \/ DeleteSeen(t) \/ DeleteLock(t)
    \/ \E a \in Att : IsAggregated(a.bits) /\ SaveBlockAttestation(a)
    \/ AggregateStart
    \/ \E w \in Workers, b \in queue : WorkerTake(w, b)
    \/ AggregateFinish
    \/ Quiescent

Spec == Init /\ [][Next]_vars

-----------------------------------------------------------------------------
(* Properties *)

TypeOK ==
    /\ DOMAIN aggregated \subseteq Keys
    /\ \A k \in DOMAIN aggregated : aggregated[k] \subseteq Bits
    /\ blockAtts \in [Keys -> SUBSET Bits]
    /\ unaggregated \subseteq {a \in Att : ~IsAggregated(a.bits)}
    /\ seen \in [Keys -> SUBSET Bits]
    /\ released \in [Keys -> SUBSET Bits]
    /\ pc \in [Threads -> {"idle", "save_has", "save_seen", "save_lock",
                           "del_seen", "del_lock"}]
    /\ arg \in [Threads -> Att \cup {None}]
    /\ aggPhase \in {"idle", "running"}
    /\ failed \subseteq Att
    /\ accepted \subseteq Att

\* Bits of an attestation are accounted for when a retained aggregate, a
\* block attestation or an aggregate handed to DeleteAggregatedAttestation
\* (included in a block, or cleaned up after a failed save) contains them.
\* A seen mark made by DeleteUnaggregatedAttestation does not account for
\* anything: it only records that the routine removed the attestation.
Covered(a) ==
    \E b \in Bucket(a.key) \cup blockAtts[a.key] \cup released[a.key] :
        a.bits \subseteq b

\* No attestation the pool accepted is silently dropped (spec 4.3, 8.4):
\* it is still in the unaggregated store, or covered by a retained
\* aggregate, a block attestation or a deleted aggregate, whatever the
\* interleaving of saves, deletes and the aggregation routine.  The
\* attestations of a bucket whose aggregation failed are the subject of
\* FailedBucketRetained.
NoAttestationLost ==
    \A a \in accepted \ failed : a \in unaggregated \/ Covered(a)

\* A delete of bits s for key k has marked them seen and not yet taken the
\* store lock.
DeletePending(k, s) ==
    \E t \in Threads : pc[t] = "del_lock" /\ arg[t] = [key |-> k, bits |-> s]

\* Seen-tracking prevents resurrection (spec 4.3): once a delete has
\* completed, no retained aggregate is contained in a bitlist that
\* DeleteAggregatedAttestation marked as seen.
NoResurrection ==
    \A k \in Keys : \A b \in Bucket(k), s \in released[k] :
        b \subseteq s => DeletePending(k, s)

\* Refinement mapping onto the abstract pool: the pool accounts for what its
\* unaggregated store holds, for what is covered, and (see
\* FailedBucketRetained) for the attestations of failed buckets.
Known == {a \in Att : a \in unaggregated \/ Covered(a) \/ a \in failed}

Pool == INSTANCE AttPool WITH Attestations <- Att, known <- Known

\* AttCaches implements AttPool: no step of any thread (a save's three lock
\* regions, a delete's seen mark and lock region, a block attestation, a
\* worker's take and save, the routine's final deletion loop) makes the pool
\* stop accounting for an attestation, whether or not it was ever accepted,
\* and a save returns success only for an attestation accounted for.
PoolSpec == Pool!Spec

\* Spec 7: an attestation whose aggregation failed is dropped from that pass
\* only and stays in the unaggregated store for a later periodic call
\* (unless a later pass aggregates it).  The worker skips a failed bucket
\* without recording it as a leftover (lines 97-100), so the routine's
\* deletion loop (66-78) removes it once every worker is done.
FailedBucketRetained ==
    \A a \in failed : a \in unaggregated \/ Covered(a)

=============================================================================
