------------------------------ MODULE MCTable ------------------------------
(* LuaTable with four keys at a time, integers that need not be in the     *)
(* array part and others, with every collision and with few.               *)
EXTENDS LuaTable, TLC
CONSTANTS a, b, v1

MCInts == 1..3
MCKey == MCInts \cup {a, b}
MCHashes == {[k \in MCInts \cup {a} |-> 0],
             [k \in MCInts \cup {a} |-> IF k = a THEN 2 ELSE k],
             [k \in {1, 2, a, b} |-> IF k \in {1, b} THEN 1 ELSE 2]}
MCCreated == {<<0, 4>>, <<2, 1>>}
=============================================================================
