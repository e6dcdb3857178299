---------------------------- MODULE ExecutionData ----------------------------
(***************************************************************************)
(* The execution-payload wrappers of src/consensus-types/blocks/          *)
(* execution.go: eight wrapper types (full payload or blinded header, for  *)
(* bellatrix, capella, deneb and electra) behind the ExecutionData         *)
(* interface, the PayloadToHeader* projections and IsEmptyExecutionData.   *)
(*                                                                         *)
(* A caller wraps a decoded message, and may then project a full payload   *)
(* to a header and wrap that header, as block blinding does.               *)
(*                                                                         *)
(* Data abstraction: a field holds 0 (all-zero bytes, zero number, empty   *)
(* list) or 1 (anything else); a list field may also hold OverLimit, a     *)
(* list longer than its SSZ limit.  The root of a list is RootOf(0) or     *)
(* RootOf(1), both non-zero hashes.  Messages have at most MaxNonZero      *)
(* non-zero fields.                                                        *)
(***************************************************************************)
EXTENDS Integers, FiniteSets, FiniteSetsExt, Sequences, Functions, TLC

CONSTANTS
    WeiPerGwei,     \* math.WeiToGwei's divisor
    MaxNonZero,     \* bound on non-zero fields of an enumerated message
    NilWei,         \* a nil math.Wei
    NoData,         \* no ExecutionData yet
    ByteValues,     \* byte values of the enumerated payload value encodings
    MaxValueLen     \* bound on the length of an encoded payload value

ASSUME ByteValues \subseteq 0 .. 255 /\ WeiPerGwei \in Nat \ {0} /\ MaxNonZero \in Nat

ForkOrder == <<"bellatrix", "capella", "deneb", "electra">>
ForkNames == {ForkOrder[n] : n \in DOMAIN ForkOrder}
Rank(f)   == CHOOSE n \in DOMAIN ForkOrder : ForkOrder[n] = f

\* The byte strings a payload value may arrive as, within the bounds.
ValueBytes == UNION {[1 .. n -> ByteValues] : n \in 0 .. MaxValueLen}

SeqX == INSTANCE SequencesExt

\* big.Int.SetBytes: the bytes read as an unsigned big-endian number.
RECURSIVE SetBytes(_)
SetBytes(b) == IF b = <<>> THEN 0 ELSE SetBytes(SeqX!Front(b)) * 256 + SeqX!Last(b)

\* PayloadValueToWei: SetBytes of bytesutil.ReverseByteOrder(value).
PayloadValueToWei(value) ==
    SetBytes(SeqX!Reverse(value))

\* PayloadValueToGwei: the same decoding, then math.WeiToGwei.
PayloadValueToGwei(value) == PayloadValueToWei(value) \div WeiPerGwei

\* A wrapper type: a fork and whether it wraps a header (blinded).
Variants == [fork: ForkNames, blinded: BOOLEAN]

OverLimit == 2
RootOf(l) == 10 + l

\* The accessors every wrapper type serves from its message.
Structural == {"ParentHash", "FeeRecipient", "StateRoot", "ReceiptsRoot",
               "LogsBloom", "PrevRandao", "BlockNumber", "GasLimit",
               "GasUsed", "Timestamp", "ExtraData", "BaseFeePerGas",
               "BlockHash"}
ListFields == {"Transactions", "Withdrawals", "DepositReceipts", "WithdrawalRequests"}

\* The fields of the enginev1 message a variant wraps (the records built
\* by the PayloadToHeader* functions for headers).
ProtoFields(v) ==
    LET atLeast(f) == Rank(v.fork) >= Rank(f) IN
    Structural
    \cup (IF v.blinded THEN {"TransactionsRoot"} ELSE {"Transactions"})
    \cup (IF ~atLeast("capella") THEN {}
          ELSE IF v.blinded THEN {"WithdrawalsRoot"} ELSE {"Withdrawals"})
    \cup (IF atLeast("deneb") THEN {"BlobGasUsed", "ExcessBlobGas"} ELSE {})
    \cup (IF ~atLeast("electra") THEN {}
          ELSE IF v.blinded THEN {"DepositReceiptsRoot", "WithdrawalRequestsRoot"}
          ELSE {"DepositReceipts", "WithdrawalRequests"})

-----------------------------------------------------------------------------
(* The accessors each wrapper type serves; any other accessor of the       *)
(* interface returns consensus_types.ErrUnsupportedField.                  *)

ExecutionPayloadAccessors == Structural \cup {"Transactions"}
ExecutionPayloadHeaderAccessors == Structural \cup {"TransactionsRoot"}
ExecutionPayloadCapellaAccessors ==
    Structural \cup {"Transactions", "Withdrawals", "ValueInWei", "ValueInGwei"}
ExecutionPayloadHeaderCapellaAccessors ==
    Structural \cup {"TransactionsRoot", "WithdrawalsRoot", "ValueInWei", "ValueInGwei"}
ExecutionPayloadDenebAccessors ==
    ExecutionPayloadCapellaAccessors \cup {"BlobGasUsed", "ExcessBlobGas"}
ExecutionPayloadHeaderDenebAccessors ==
    ExecutionPayloadHeaderCapellaAccessors \cup {"BlobGasUsed", "ExcessBlobGas"}
ExecutionPayloadElectraAccessors ==
    ExecutionPayloadDenebAccessors \cup {"DepositReceipts", "WithdrawalRequests"}
\* DepositReceipts and WithdrawalRequests of the electra header return
\* ErrUnsupportedField.
ExecutionPayloadHeaderElectraAccessors == ExecutionPayloadHeaderDenebAccessors

Accessors(v) ==
    CASE v = [fork |-> "bellatrix", blinded |-> FALSE] -> ExecutionPayloadAccessors
      [] v = [fork |-> "bellatrix", blinded |-> TRUE]  -> ExecutionPayloadHeaderAccessors
      [] v = [fork |-> "capella", blinded |-> FALSE]   -> ExecutionPayloadCapellaAccessors
      [] v = [fork |-> "capella", blinded |-> TRUE]    -> ExecutionPayloadHeaderCapellaAccessors
      [] v = [fork |-> "deneb", blinded |-> FALSE]     -> ExecutionPayloadDenebAccessors
      [] v = [fork |-> "deneb", blinded |-> TRUE]      -> ExecutionPayloadHeaderDenebAccessors
      [] v = [fork |-> "electra", blinded |-> FALSE]   -> ExecutionPayloadElectraAccessors
      [] v = [fork |-> "electra", blinded |-> TRUE]    -> ExecutionPayloadHeaderElectraAccessors

\* Only executionPayloadElectra has DepositReceipts() and
\* WithdrawalRequests() without an error result, so only it satisfies
\* interfaces.ExecutionDataElectra.
ImplementsElectra(v) == v = [fork |-> "electra", blinded |-> FALSE]

\* A wrapper: its type, its message's fields, its weiValue and gweiValue.
Wrapper(v, fields, wei) ==
    [variant |-> v, fields |-> fields, wei |-> wei,
     gwei |-> IF wei = NilWei THEN 0 ELSE wei \div WeiPerGwei]

Ok(x)       == [err |-> "none", val |-> x]
Fail(e)     == [err |-> e, val |-> 0]

\* Calling accessor a on wrapper w (the result and error pair).
Accessor(w, a) ==
    CASE a \notin Accessors(w.variant) -> Fail("ErrUnsupportedField")
      [] a = "ValueInWei"              -> Ok(w.wei)
      [] a = "ValueInGwei"             -> Ok(w.gwei)
      [] a \in DOMAIN w.fields         -> Ok(w.fields[a])
      [] OTHER                         -> Ok(0)

\* ssz.TransactionsRoot, WithdrawalSliceRoot and the receipt and request
\* slice roots: a list over its limit is an error.
ListRoot(l) == IF l = OverLimit THEN Fail("ssz") ELSE Ok(RootOf(l))

-----------------------------------------------------------------------------
(* PayloadToHeader, PayloadToHeaderCapella, -Deneb and -Electra: each call *)
(* in turn, returning the first error; then the header record.             *)

\* The first failed step of a sequence of calls, else the header.
FirstError(steps, header) ==
    LET bad == {j \in DOMAIN steps : steps[j].err # "none"}
    IN  IF bad = {} THEN Ok(header) ELSE Fail(steps[Min(bad)].err)

\* The structural fields, copied with bytesutil.SafeCopyBytes.
CopyStructural(w) == [a \in Structural |-> Accessor(w, a).val]

PayloadToHeader(w) ==
    LET txs == Accessor(w, "Transactions")
        txRoot == ListRoot(txs.val)
    IN  FirstError(<<txs, txRoot>>,
                   CopyStructural(w) @@ ("TransactionsRoot" :> txRoot.val))

PayloadToHeaderCapella(w) ==
    LET txs == Accessor(w, "Transactions")
        txRoot == ListRoot(txs.val)
        ws == Accessor(w, "Withdrawals")
        wsRoot == ListRoot(ws.val)
    IN  FirstError(<<txs, txRoot, ws, wsRoot>>,
                   CopyStructural(w) @@ ("TransactionsRoot" :> txRoot.val)
                                     @@ ("WithdrawalsRoot" :> wsRoot.val))

\* Variant that copies BlobGasUsed into ExcessBlobGas.
PayloadToHeaderDenebSwapped(w) ==
    LET txs == Accessor(w, "Transactions")
        txRoot == ListRoot(txs.val)
        ws == Accessor(w, "Withdrawals")
        wsRoot == ListRoot(ws.val)
        blobGasUsed == Accessor(w, "BlobGasUsed")
        excessBlobGas == Accessor(w, "ExcessBlobGas")
    IN  FirstError(<<txs, txRoot, ws, wsRoot, blobGasUsed, excessBlobGas>>,
                   CopyStructural(w) @@ ("TransactionsRoot" :> txRoot.val)
                                     @@ ("WithdrawalsRoot" :> wsRoot.val)
                                     @@ ("BlobGasUsed" :> blobGasUsed.val)
                                     @@ ("ExcessBlobGas" :> blobGasUsed.val))

PayloadToHeaderDeneb(w) ==
    LET txs == Accessor(w, "Transactions")
        txRoot == ListRoot(txs.val)
        ws == Accessor(w, "Withdrawals")
        wsRoot == ListRoot(ws.val)
        blobGasUsed == Accessor(w, "BlobGasUsed")
        excessBlobGas == Accessor(w, "ExcessBlobGas")
    IN  FirstError(<<txs, txRoot, ws, wsRoot, blobGasUsed, excessBlobGas>>,
                   CopyStructural(w) @@ ("TransactionsRoot" :> txRoot.val)
                                     @@ ("WithdrawalsRoot" :> wsRoot.val)
                                     @@ ("BlobGasUsed" :> blobGasUsed.val)
                                     @@ ("ExcessBlobGas" :> excessBlobGas.val))

\* Takes an interfaces.ExecutionDataElectra, so DepositReceipts() and
\* WithdrawalRequests() cannot fail; only their roots can.
PayloadToHeaderElectra(w) ==
    LET txs == Accessor(w, "Transactions")
        txRoot == ListRoot(txs.val)
        ws == Accessor(w, "Withdrawals")
        wsRoot == ListRoot(ws.val)
        blobGasUsed == Accessor(w, "BlobGasUsed")
        excessBlobGas == Accessor(w, "ExcessBlobGas")
        drRoot == ListRoot(Accessor(w, "DepositReceipts").val)
        wrRoot == ListRoot(Accessor(w, "WithdrawalRequests").val)
    IN  FirstError(<<txs, txRoot, ws, wsRoot, blobGasUsed, excessBlobGas, drRoot, wrRoot>>,
                   CopyStructural(w) @@ ("TransactionsRoot" :> txRoot.val)
                                     @@ ("WithdrawalsRoot" :> wsRoot.val)
                                     @@ ("BlobGasUsed" :> blobGasUsed.val)
                                     @@ ("ExcessBlobGas" :> excessBlobGas.val)
                                     @@ ("DepositReceiptsRoot" :> drRoot.val)
                                     @@ ("WithdrawalRequestsRoot" :> wrRoot.val))

ToHeader(f, w) ==
    CASE f = "bellatrix" -> PayloadToHeader(w)
      [] f = "capella"   -> PayloadToHeaderCapella(w)
      [] f = "deneb"     -> PayloadToHeaderDeneb(w)
      [] f = "electra"   -> PayloadToHeaderElectra(w)

-----------------------------------------------------------------------------
(* IsEmptyExecutionData: the eight byte fields, then the transactions (an *)
(* unsupported field is skipped), then extra data and the four numbers,   *)
(* then the request lists of an ExecutionDataElectra.                     *)

ByteFieldsChecked   == {"ParentHash", "FeeRecipient", "StateRoot", "ReceiptsRoot",
                        "LogsBloom", "PrevRandao", "BaseFeePerGas", "BlockHash"}
ScalarFieldsChecked == {"ExtraData", "BlockNumber", "GasLimit", "GasUsed", "Timestamp"}

\* Variant whose switch returns every error of Transactions(), the
\* ErrUnsupportedField of a header included.
IsEmptyUnsupportedIsError(w) ==
    LET nonZero(a) == Accessor(w, a).val # 0
        txs == Accessor(w, "Transactions")
    IN
    IF w = NoData THEN Ok(TRUE)
    ELSE IF \E a \in ByteFieldsChecked : nonZero(a) THEN Ok(FALSE)
    ELSE IF txs.err # "none" THEN Fail(txs.err)
    ELSE IF txs.val # 0 THEN Ok(FALSE)
    ELSE IF \E a \in ScalarFieldsChecked : nonZero(a) THEN Ok(FALSE)
    ELSE IF ImplementsElectra(w.variant)
            /\ (nonZero("DepositReceipts") \/ nonZero("WithdrawalRequests"))
         THEN Ok(FALSE)
    ELSE Ok(TRUE)

IsEmptyExecutionData(w) ==
    LET nonZero(a) == Accessor(w, a).val # 0
        txs == Accessor(w, "Transactions")
    IN
    IF w = NoData THEN Ok(TRUE)
    ELSE IF \E a \in ByteFieldsChecked : nonZero(a) THEN Ok(FALSE)
    ELSE IF txs.err \notin {"none", "ErrUnsupportedField"} THEN Fail(txs.err)
    ELSE IF txs.err = "none" /\ txs.val # 0 THEN Ok(FALSE)
    ELSE IF \E a \in ScalarFieldsChecked : nonZero(a) THEN Ok(FALSE)
    ELSE IF ImplementsElectra(w.variant)
            /\ (nonZero("DepositReceipts") \/ nonZero("WithdrawalRequests"))
         THEN Ok(FALSE)
    ELSE Ok(TRUE)

-----------------------------------------------------------------------------
(* Messages: a nil message of each type, and messages with at most         *)
(* MaxNonZero non-zero fields.                                             *)

NonZeroValues(f) == IF f \in ListFields THEN {1, OverLimit} ELSE {1}

Messages(v) ==
    {[variant |-> v, isNil |-> TRUE, fields |-> [f \in {} |-> 0]]}
    \cup UNION { { [variant |-> v, isNil |-> FALSE,
                    fields |-> [f \in ProtoFields(v) |-> IF f \in S THEN g[f] ELSE 0]] :
                   g \in [S -> UNION {NonZeroValues(f) : f \in S} \cup {1}] } :
                 S \in UNION {kSubset(k, ProtoFields(v)) : k \in 0 .. MaxNonZero} }

PayloadMsgs == UNION {Messages(v) : v \in {v \in Variants : ~v.blinded}}
HeaderMsgs  == UNION {Messages(v) : v \in {v \in Variants : v.blinded}}

VARIABLES
    data,       \* the ExecutionData the caller holds, or NoData
    err,        \* the error of the caller's last call
    source,     \* history: the payload a header was projected from
    phase,      \* "init" | "wrapped" | "blinded" | "failed"
    received    \* history: the value bytes the execution layer sent, or NilWei

vars == <<data, err, source, phase, received>>

\* The Wrapped* constructors: a nil message is ErrNilObjectWrapped; the
\* bellatrix types take no value; the others store weiValue and
\* uint64(math.WeiToGwei(value)).
Construct(m, wei) ==
    IF m.isNil THEN Fail("ErrNilObjectWrapped")
    ELSE Ok(Wrapper(m.variant, m.fields, IF m.variant.fork = "bellatrix" THEN 0 ELSE wei))

\* Variant without the nil-value default.
NewWrappedExecutionDataNilValue(m, wei) ==
    IF m.variant.blinded THEN Fail("ErrUnsupportedVersion")
    ELSE Construct(m, wei)

\* NewWrappedExecutionData: a nil value becomes 0; only the four payload
\* message types are dispatched, anything else is ErrUnsupportedVersion.
NewWrappedExecutionData(m, wei) ==
    LET weiValue == IF wei = NilWei THEN 0 ELSE wei IN
    IF m.variant.blinded THEN Fail("ErrUnsupportedVersion")
    ELSE Construct(m, weiValue)

\* Record the result of a call.
Returns(r) ==
    /\ data' = IF r.err = "none" THEN r.val ELSE data
    /\ err' = r.err
    /\ phase' = IF r.err = "none" THEN "wrapped" ELSE "failed"

Init ==
    /\ data = NoData
    /\ err = "none"
    /\ source = NoData
    /\ phase = "init"
    /\ received = NilWei

\* The value a caller passes to a constructor: PayloadValueToWei of the
\* execution layer's bytes, or a nil math.Wei.
WeiOf(value) == IF value = NilWei THEN NilWei ELSE PayloadValueToWei(value)

Wrap(m, value) ==
    /\ phase = "init"
    /\ Returns(NewWrappedExecutionData(m, WeiOf(value)))
    /\ received' = value
    /\ UNCHANGED source

\* WrappedExecutionPayloadHeader* called directly on a header message.
WrapHeader(m, value) ==
    /\ phase = "init"
    /\ Returns(Construct(m, PayloadValueToWei(value)))
    /\ received' = value
    /\ UNCHANGED source

\* Blinding: PayloadToHeader* for fork f, then the header constructor of f
\* with the payload's value.  PayloadToHeaderElectra's parameter is an
\* interfaces.ExecutionDataElectra, so the caller has that type.
Blind(f) ==
    LET r == ToHeader(f, data) IN
    /\ phase = "wrapped"
    /\ f = "electra" => ImplementsElectra(data.variant)
    /\ source' = data
    /\ IF r.err = "none"
       THEN /\ data' = Wrapper([fork |-> f, blinded |-> TRUE], r.val,
                               IF f = "bellatrix" THEN 0 ELSE data.wei)
            /\ err' = "none"
            /\ phase' = "blinded"
       ELSE /\ err' = r.err
            /\ phase' = "failed"
            /\ UNCHANGED data
    /\ UNCHANGED received

\* The caller is done with the data.
Finished ==
    /\ phase \in {"wrapped", "blinded", "failed"}
    /\ UNCHANGED vars

Next ==
    \/ \E m \in PayloadMsgs \cup HeaderMsgs, v \in ValueBytes \cup {NilWei} : Wrap(m, v)
    \/ \E m \in HeaderMsgs, v \in ValueBytes : WrapHeader(m, v)
    \/ \E f \in ForkNames : Blind(f)
    \/ Finished

Spec == Init /\ [][Next]_vars

-----------------------------------------------------------------------------
(* Properties *)

TypeOK ==
    /\ data = NoData
       \/ /\ data.variant \in Variants
          /\ DOMAIN data.fields = ProtoFields(data.variant)
          /\ data.wei \in Nat
    /\ err \in {"none", "ssz", "ErrUnsupportedField", "ErrUnsupportedVersion",
                "ErrNilObjectWrapped"}
    /\ phase \in {"init", "wrapped", "blinded", "failed"}

\* The header field holding the root of each list of a payload.
RootField == ("TransactionsRoot" :> "Transactions") @@ ("WithdrawalsRoot" :> "Withdrawals")
             @@ ("DepositReceiptsRoot" :> "DepositReceipts")
             @@ ("WithdrawalRequestsRoot" :> "WithdrawalRequests")

\* The header projection is lossless (spec 4.1, property 5): every field
\* of a header made by PayloadToHeader* and wrapped again is the payload's
\* field of the same name or the root of the payload's list, whichever
\* fork's projection was called on whichever payload; a field the payload
\* does not have makes the projection fail with ErrUnsupportedField.
HeaderProjectionLossless ==
    phase = "blinded" =>
        \A a \in DOMAIN data.fields :
            IF a \in DOMAIN source.fields
            THEN data.fields[a] = source.fields[a]
            ELSE /\ a \in DOMAIN RootField
                 /\ RootField[a] \in DOMAIN source.fields
                 /\ data.fields[a] = RootOf(source.fields[RootField[a]])

\* The reference emptiness of spec 4.1: every field the message has is
\* zero (byte fields all-zero, numbers zero, lists empty).
SpecIsEmpty(w) == \A a \in DOMAIN w.fields : w.fields[a] = 0

\* IsEmptyExecutionData never reports a payload or header whose every
\* field is zero as non-empty or as an error (spec property 6); the
\* ErrUnsupportedField of a header's Transactions() must be skipped.
IsEmptyNoFalseNegative ==
    data # NoData /\ SpecIsEmpty(data) => IsEmptyExecutionData(data) = Ok(TRUE)

\* IsEmptyExecutionData is the reference emptiness (spec 4.1): it reports
\* empty exactly when every present field is zero.
IsEmptyMatchesSpec ==
    data # NoData => IsEmptyExecutionData(data) = Ok(SpecIsEmpty(data))

\* Blinding does not change whether a block's execution data is empty:
\* IsEmptyExecutionData gives the same answer for a payload and for the
\* header PayloadToHeader* makes of it.
BlindingPreservesEmptiness ==
    phase = "blinded" => IsEmptyExecutionData(data) = IsEmptyExecutionData(source)

\* Reference value of a byte string read most significant byte first.
BigEndianValue(b) ==
    SumFunctionOnSet([j \in DOMAIN b |-> b[j] * 256 ^ (Len(b) - j)], DOMAIN b)

\* A wrapper of a fork with a value, built from bytes the execution layer sent.
HoldsReceivedValue ==
    /\ phase \in {"wrapped", "blinded"}
    /\ received # NilWei
    /\ data.variant.fork # "bellatrix"

\* Spec 4.1 and the comment in PayloadValueToWei and PayloadValueToGwei
\* (lines 1664, 1670): the value comes from the execution layer as a
\* big-endian byte string, converted once at construction.  So the Wei a
\* wrapper holds, also after blinding, is those bytes read most significant
\* byte first, and its Gwei is that Wei divided by WeiPerGwei.
ValueDecodedBigEndian ==
    HoldsReceivedValue =>
        /\ data.wei = BigEndianValue(received)
        /\ data.gwei = BigEndianValue(received) \div WeiPerGwei

=============================================================================
