-------------------------------- MODULE MCFes ---------------------------------
(* FesBurn with a sparse partition without a verify file, a normal one of two *)
(* buffers with one, and a small UDISK that is skipped.                       *)
EXTENDS FesBurn

MCParts == <<[sparse |-> TRUE,  bufs |-> 1, verify |-> FALSE, skipped |-> FALSE],
             [sparse |-> FALSE, bufs |-> 2, verify |-> TRUE,  skipped |-> FALSE],
             [sparse |-> FALSE, bufs |-> 1, verify |-> TRUE,  skipped |-> TRUE]>>
==============================================================================
