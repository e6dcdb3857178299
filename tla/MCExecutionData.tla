--------------------------- MODULE MCExecutionData ---------------------------
(* Model-checking instance of ExecutionData.  The payload values arrive as *)
(* byte strings of length at most 2 over {0, 1, 3} (ByteValues and        *)
(* MaxValueLen in the cfgs): zero, empty and zero-padded values, 3 Wei,    *)
(* which is not a whole number of Gwei for WeiPerGwei = 2, and strings     *)
(* such as <<0, 1>> whose number depends on the byte order.                *)
EXTENDS ExecutionData

=============================================================================
