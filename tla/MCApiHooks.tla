----------------------------- MODULE MCApiHooks -----------------------------
(* Model-checking instance of ApiHooks: bytes32 shrunk to 2 bytes, so     *)
(* graffiti of 0 to 3 bytes is padded, exact or truncated by                *)
(* PrepareGraffiti; arrays of up to two items, or a malformed body.        *)
EXTENDS ApiHooks
====
