------------------------------ MODULE MCSparse -------------------------------
(* SparseDown on every image of at most MaxChunks chunks. Sizes are scaled:   *)
(* a sector is 2 bytes, a block 4, the carry limits 4096 and 8192 are 4 and   *)
(* 8, a read 13 bytes, so that heads, fill patterns and raw data are cut at   *)
(* every offset. The lengths of raw chunks lie on both sides of the limits.   *)
EXTENDS SparseDownInv, FiniteSets

CONSTANTS MaxChunks, RawLens

MCKinds == [type : {"raw"}, len : RawLens] \cup
           {[type |-> "null", len |-> 4], [type |-> "fill", len |-> 4]}

MCSequences ==
    LET whole == UNION {[1 .. n -> MCKinds] : n \in 0 .. MaxChunks}
        bad   == [type |-> "bad", len |-> 4]
    IN  whole \cup {Append(s, bad) : s \in {t \in whole : Len(t) < MaxChunks}}

\* sums[i] of a function on chunks: where chunk i begins.
MCSums(s, f(_), first) ==
    LET sum[i \in 1 .. Len(s) + 1] == IF i = 1 THEN first ELSE sum[i - 1] + f(s[i - 1])
    IN  sum

MCTarget(s, start, place) ==
    [a \in 0 .. place[Len(s) + 1] - 1 |->
        LET i == CHOOSE j \in 1 .. Len(s) : place[j] <= a /\ a < place[j + 1]
        IN  IF s[i].type = "raw" THEN start[i] + 3 + (a - place[i]) ELSE -1]

\* The item of a sequence of chunks, cut bytes short.
MCImage(s, cut) ==
    LET in(c)  == 3 + (CASE c.type = "raw" -> c.len [] c.type = "fill" -> 2 [] OTHER -> 0)
        out(c) == IF c.type = "bad" THEN 0 ELSE c.len
        start  == MCSums(s, in, 3)
        place  == MCSums(s, out, 0)
    IN  [chunks |-> s, start |-> start, place |-> place,
         target |-> MCTarget(s, start, place),
         size |-> start[Len(s) + 1] - cut]

MCWhole == {MCImage(s, 0) : s \in MCSequences}
\* Items that end inside their last chunk, its head included.
MCTruncated == {MCImage(s, 1) : s \in {t \in MCSequences : t # <<>>}}
MCImages == MCWhole \cup MCTruncated
==============================================================================
