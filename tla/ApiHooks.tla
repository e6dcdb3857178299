------------------------------ MODULE ApiHooks ------------------------------
(***************************************************************************)
(* The request and response hooks of the HTTP API gateway                 *)
(* (src/beacon-chain/rpc/apimiddleware/custom_hooks.go), applied to one   *)
(* request and one response of the endpoint they are registered on.      *)
(*                                                                         *)
(* Data abstraction: an array element is a model value of Items; a JSON   *)
(* body that does not decode is Malformed; graffiti is the byte sequence  *)
(* of the client's string; a version string is its fork and whether it is *)
(* written in upper case (the gateway writes the enum name, "PHASE0").    *)
(* The 32 of bytes32 is the constant Bytes32Len.                          *)
(***************************************************************************)
EXTENDS Integers, Sequences

CONSTANTS
    Items,              \* elements of a posted top-level array
    MaxItems,           \* bound on the length of a posted array
    ByteValues,         \* bytes of the client's graffiti string
    MaxGraffitiLen,     \* bound on the graffiti's length in bytes
    Bytes32Len,         \* the length ToBytes32 pads or truncates to
    Malformed           \* a body that json.Decode rejects

ASSUME ByteValues \subseteq 0 .. 255
ASSUME MaxGraffitiLen > Bytes32Len

\* The seven PostRequest containers that take a top-level array, and the
\* field each wrap hook puts the array in.
WrapField ==
    [submitAttestationRequestJson                   |-> "data",
     dutiesRequestJson                              |-> "index",
     submitAggregateAndProofsRequestJson            |-> "data",
     submitBeaconCommitteeSubscriptionsRequestJson  |-> "data",
     submitSyncCommitteeSubscriptionRequestJson     |-> "data",
     submitSyncCommitteeSignaturesRequestJson       |-> "data",
     submitContributionAndProofsRequestJson         |-> "data"]
ArrayContainers == DOMAIN WrapField

Arrays    == UNION {[1 .. n -> Items] : n \in 0 .. MaxItems}
Graffitis == UNION {[1 .. n -> ByteValues] : n \in 0 .. MaxGraffitiLen}
HexChar   == <<"0", "1", "2", "3", "4", "5", "6", "7",
              "8", "9", "a", "b", "c", "d", "e", "f">>

Requests ==
    [container: ArrayContainers, body: Arrays \cup {Malformed}]
    \cup [container: {"signedBeaconBlockContainerJson"}, body: [graffiti: Graffitis]]

\* A version string: its fork and its letter case.
VersionStrings == [fork: {"phase0", "altair"}, upper: BOOLEAN]

\* The gateway's v2 responses carry the block or state of the version's
\* fork in the field of that fork and leave the other field nil.
V2Containers == {"blockV2ResponseJson", "beaconStateV2ResponseJson",
                 "produceBlockResponseV2Json"}
V2Responses ==
    { [container |-> c, version |-> v,
       phase0 |-> IF v.fork = "phase0" THEN "obj" ELSE "nil",
       altair |-> IF v.fork = "altair" THEN "obj" ELSE "nil"] :
        c \in V2Containers, v \in VersionStrings }
SyncResponses ==
    [container: {"syncCommitteesResponseJson"},
     body: [validators: Arrays,
            aggregates: UNION {[1 .. n -> [validators: Arrays]] : n \in 0 .. MaxItems}]
           \cup {Malformed}]

VARIABLES
    request,        \* the request body as it will be forwarded
    response,       \* the response as it will be served
    sent,           \* history: the request as the client sent it
    reqPhase,       \* "received" | "forwarded" | "failed"
    respPhase       \* "received" | "served" | "failed"

vars == <<request, response, sent, reqPhase, respPhase>>

-----------------------------------------------------------------------------
(* Library code the hooks call, not in this repository. *)

\* bytesutil.ToBytes32: copy into a zeroed [32]byte, so a longer input is
\* truncated and a shorter one zero-padded on the right.
ToBytes32(b) == [n \in 1 .. Bytes32Len |-> IF n <= Len(b) THEN b[n] ELSE 0]

\* hexutil.Encode: "0x" and two lower-case digits per byte, high nibble first.
RECURSIVE HexDigits(_)
HexDigits(b) ==
    IF b = <<>> THEN <<>>
    ELSE <<HexChar[Head(b) \div 16 + 1], HexChar[(Head(b) % 16) + 1]>> \o HexDigits(Tail(b))
HexEncode(b) == <<"0", "x">> \o HexDigits(b)

\* strings.EqualFold: equal up to letter case.
EqualFold(a, b) == a.fork = b.fork

\* strings.ToLower(ethpbv2.Version_PHASE0.String())
Phase0Lower == [fork |-> "phase0", upper |-> FALSE]

-----------------------------------------------------------------------------

Init ==
    /\ request \in Requests
    /\ sent = request
    /\ response \in V2Responses \cup SyncResponses
    /\ reqPhase = "received"
    /\ respPhase = "received"

\* Variant that forwards the array as it came.
WrapArrayUnwrapped(c) ==
    /\ reqPhase = "received"
    /\ request.container = c
    /\ IF request.body = Malformed
       THEN reqPhase' = "failed" /\ UNCHANGED request
       ELSE reqPhase' = "forwarded" /\ UNCHANGED request
    /\ UNCHANGED <<response, sent, respPhase>>

\* wrapAttestationsArray ... wrapSignedContributionAndProofsArray: decode
\* the top-level array (an error is an internal server error) and re-encode
\* it as the container's field; json.Marshal of the struct cannot fail.
WrapArray(c) ==
    /\ reqPhase = "received"
    /\ request.container = c
    /\ IF request.body = Malformed
       THEN reqPhase' = "failed" /\ UNCHANGED request
       ELSE /\ request' = [request EXCEPT !.body = [field |-> WrapField[c], items |-> @]]
            /\ reqPhase' = "forwarded"
    /\ UNCHANGED <<response, sent, respPhase>>

\* prepareGraffiti: the graffiti string's bytes, padded or truncated to 32
\* bytes, hex-encoded.
PrepareGraffiti ==
    /\ reqPhase = "received"
    /\ request.container = "signedBeaconBlockContainerJson"
    /\ request' = [request EXCEPT !.body.graffiti = HexEncode(ToBytes32(@))]
    /\ reqPhase' = "forwarded"
    /\ UNCHANGED <<response, sent, respPhase>>

\* prepareValidatorAggregates: unmarshal the gateway's body (an error is
\* an internal server error) and copy each subcommittee's validators into
\* one row of a plain 2D array.
PrepareValidatorAggregates ==
    /\ respPhase = "received"
    /\ response.container = "syncCommitteesResponseJson"
    /\ IF response.body = Malformed
       THEN respPhase' = "failed" /\ UNCHANGED response
       ELSE LET aggs == response.body.aggregates IN
            /\ response' = [response EXCEPT !.body.aggregates =
                               [n \in DOMAIN aggs |-> aggs[n].validators]]
            /\ respPhase' = "served"
    /\ UNCHANGED <<request, sent, reqPhase>>

\* Variant that compares the version with "phase0" exactly.
SerializeV2CaseSensitive(c) ==
    /\ respPhase = "received"
    /\ response.container = c
    /\ LET isPhase0 == response.version = Phase0Lower IN
       response' = [container |-> IF isPhase0 THEN "phase0" ELSE "altair",
                    version |-> response.version,
                    data |-> IF isPhase0 THEN response.phase0 ELSE response.altair]
    /\ respPhase' = "served"
    /\ UNCHANGED <<request, sent, reqPhase>>

\* serializeV2Block, serializeV2State, serializeProducedV2Block: a version
\* equal to "phase0" up to case is served in the phase0 container with the
\* phase0 object, any other version in the altair container with the
\* altair object; the version string is passed through.
SerializeV2(c) ==
    /\ respPhase = "received"
    /\ response.container = c
    /\ LET isPhase0 == EqualFold(response.version, Phase0Lower) IN
       response' = [container |-> IF isPhase0 THEN "phase0" ELSE "altair",
                    version |-> response.version,
                    data |-> IF isPhase0 THEN response.phase0 ELSE response.altair]
    /\ respPhase' = "served"
    /\ UNCHANGED <<request, sent, reqPhase>>

\* Both the request and the response have been handled.
Done ==
    /\ reqPhase # "received"
    /\ respPhase # "received"
    /\ UNCHANGED vars

Next ==
    \/ \E c \in ArrayContainers : WrapArray(c)
    \/ PrepareGraffiti
    \/ PrepareValidatorAggregates
    \/ \E c \in V2Containers : SerializeV2(c)
    \/ Done

Spec == Init /\ [][Next]_vars

-----------------------------------------------------------------------------
(* Properties *)

\* A forwarded array request is the container's record, not the bare array.
TypeOK ==
    /\ reqPhase \in {"received", "forwarded", "failed"}
    /\ respPhase \in {"received", "served", "failed"}
    /\ (reqPhase = "forwarded" /\ request.container \in ArrayContainers) =>
           request.body \in [field: {"data", "index"}, items: Arrays]

\* A served v2 block or state is never the empty container: the object the
\* gateway filled for the response's version is the one serialized,
\* whatever the letter case of the version string (the gateway writes
\* "PHASE0"), and the version string goes out as it came.
ServedObjectMatchesVersion ==
    (respPhase = "served" /\ response.container \in {"phase0", "altair"}) =>
        /\ response.data = "obj"
        /\ response.container = response.version.fork

====
