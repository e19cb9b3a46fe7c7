-------------------------------- MODULE MCImg ---------------------------------
(* ImgItem with blocks of 2 bytes, pieces of 4 and words of 16: an item of    *)
(* one piece and a half byte, one of three pieces whose name differs from the *)
(* next one's in case only, one longer than a word, one that does not fit the *)
(* buffer, an empty one, and one with less data than bytes.                   *)
EXTENDS ImgItem

Entry(name, file, data, offset) ==
    [name |-> name, file |-> file, data |-> data, offset |-> offset]

MCTable == <<Entry("A", 5, 6, 2), Entry("B", 11, 12, 8), Entry("b", 22, 22, 20),
             Entry("C", 15, 16, 42), Entry("D", 0, 0, 58), Entry("E", 15, 4, 58)>>

MCUpper == [n \in {"A", "B", "C", "D", "E", "F"} \cup {"b"} |-> IF n = "b" THEN "B" ELSE n]
==============================================================================
