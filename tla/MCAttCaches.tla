---------------------------- MODULE MCAttCaches ----------------------------
(* Model-checking instance of AttCaches.  A committee of three gives      *)
(* three one-bit attestations, four aggregates and overlapping aggregates *)
(* ({v1,v2} and {v2,v3}) whose merge may fail.  MCKeys is one electra     *)
(* AttestationId; MCTwoKeys adds a phase0 one of the same slot, so the    *)
(* worker pool gets two buckets and the queries two versions to tell      *)
(* apart.                                                                 *)
EXTENDS AttCaches

MCKeys == {[version |-> "electra", slot |-> 0, committee |-> 1, root |-> "r1"]}
\* Two AttestationIds of one slot: phase0 committee 0 and electra committee 1.
MCTwoKeys == {[version |-> "phase0", slot |-> 0, committee |-> 0, root |-> "r0"],
              [version |-> "electra", slot |-> 0, committee |-> 1, root |-> "r1"]}
MCValidators == {"v1", "v2", "v3"}
====
