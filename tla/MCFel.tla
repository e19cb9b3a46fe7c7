-------------------------------- MODULE MCFel --------------------------------
(* FelBoot with items of one and of more chunks; u-boot is longer than what   *)
(* is read after it, so some of its bytes stay in the buffer.                 *)
EXTENDS FelBoot

MCChunks == [fes1 |-> 2, uboot |-> 2, dtb |-> 1, sys_config |-> 1]

\* Here fes1 goes through in one chunk, as one of at most FEX_DOWN_LEN bytes does.
MCShortFes1 == [MCChunks EXCEPT !.fes1 = 1]
==============================================================================
