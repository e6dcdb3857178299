------------------------------ MODULE AttPool ------------------------------
(***************************************************************************)
(* What the attestation pool promises its callers (spec 4.3 and 8.4),     *)
(* stated without locks, buckets or workers.                               *)
(*                                                                         *)
(* known is the set of attestations the pool accounts for: held as they    *)
(* are, merged into a larger aggregate, recorded from a block, or marked   *)
(* seen by a delete.  accepted is the set of attestations a save returned  *)
(* success for.  The pool only ever learns: nothing it accounts for is     *)
(* forgotten, and it acknowledges an attestation only once it accounts for *)
(* it.  AttCaches implements this specification (see PoolSpec there).     *)
(***************************************************************************)
CONSTANT Attestations

VARIABLES known, accepted

poolVars == <<known, accepted>>

Init ==
    /\ known = {}
    /\ accepted = {}

\* Saving, merging, recording a block attestation or marking bits seen:
\* the pool accounts for more attestations, never for fewer.
Learn ==
    /\ known \subseteq known'
    /\ known' \subseteq Attestations
    /\ UNCHANGED accepted

\* A save of attestation a returns success; a is accounted for from then on.
Accept(a) ==
    /\ known \subseteq known'
    /\ known' \subseteq Attestations
    /\ a \in known'
    /\ accepted' = accepted \cup {a}

Next == Learn \/ \E a \in Attestations : Accept(a)

Spec == Init /\ [][Next]_poolVars

====
