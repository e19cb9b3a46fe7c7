----------------------------- MODULE SparseImage -----------------------------
(* What downloading a sparse image promises, whatever the buffering: the      *)
(* bytes of the raw chunks reach the partition, each at its own place, in     *)
(* ascending order; the places of null and fill chunks are skipped.           *)
(*                                                                            *)
(* An image is the record                                                     *)
(*   chunks : its chunks, [type, len], len = chunk_sz * blk_size              *)
(*   start  : start[i] is the offset of the head of chunk i in the item       *)
(*   place  : place[i] is the first partition byte chunk i stands for         *)
(*   target : for each partition byte, the item offset it comes from or None  *)
(*   size   : the bytes of the item; less than the last start if truncated    *)
(* A byte of the item is known by its offset.                                 *)
EXTENDS Integers, Sequences

CONSTANTS
    Images,             \* the images that may be downloaded
    HeaderSize,         \* SPARSE_INFO.sparse_header_size
    ChunkHeaderSize,    \* SPARSE_INFO.chunk_header_size
    FillSize,           \* the pattern that follows the head of a fill chunk
    Sector              \* bytes of one flash address

None == -1

\* The chunk types; "bad" is an unknown type or a total size that does not fit.
ChunkTypes == {"raw", "null", "fill", "bad"}

\* Bytes that follow the head of a chunk in the item.
Payload(c) == CASE c.type = "raw"  -> c.len
                [] c.type = "fill" -> FillSize
                [] OTHER           -> 0

\* Bytes of the partition a chunk stands for.
Span(c) == IF c.type = "bad" THEN 0 ELSE c.len

WellFormed(im) ==
    LET N == Len(im.chunks) IN
    /\ im.chunks \in Seq([type : ChunkTypes, len : Nat])
    /\ im.start \in [1 .. N + 1 -> Nat] /\ im.place \in [1 .. N + 1 -> Nat]
    /\ im.target \in [0 .. im.place[N + 1] - 1 -> Nat \cup {None}]
    /\ im.start[1] = HeaderSize /\ im.place[1] = 0
    /\ \A i \in 1 .. N :
          LET c == im.chunks[i] IN
          /\ c.len % Sector = 0
          /\ im.start[i + 1] = im.start[i] + ChunkHeaderSize + Payload(c)
          /\ im.place[i + 1] = im.place[i] + Span(c)
          /\ \A j \in i + 1 .. N + 1 : im.start[i + 1] <= im.start[j]
          /\ im.place[i + 1] <= im.place[N + 1]
          /\ \A a \in im.place[i] .. im.place[i + 1] - 1 :
                im.target[a] = IF c.type = "raw"
                               THEN im.start[i] + ChunkHeaderSize + (a - im.place[i])
                               ELSE None
    /\ im.size \in HeaderSize .. im.start[N + 1]

ASSUME SizesAssumption ==
    /\ HeaderSize \in Nat \ {0} /\ ChunkHeaderSize \in Nat \ {0}
    /\ FillSize \in Nat \ {0} /\ Sector \in Nat \ {0}

ASSUME ImagesAssumption == Images # {} /\ \A im \in Images : WellFormed(im)

Addresses(im) == DOMAIN im.target

\* Nothing is missing from the item and no chunk of it is bad.
Whole(im) == /\ im.size = im.start[Len(im.chunks) + 1]
             /\ \A i \in 1 .. Len(im.chunks) : im.chunks[i].type # "bad"

VARIABLES
    image,      \* the image being downloaded
    flash,      \* partition byte -> the item offset it was programmed from, or None
    outcome     \* "idle", "none" while it runs, then "true", "false" or "error"

avars == <<image, flash, outcome>>

Blank(im) == [a \in Addresses(im) |-> None]

AInit == image \in Images /\ flash = Blank(image) /\ outcome = "idle"

\* Some bytes reach the partition: never a wrong one, never one twice, and
\* none while a byte before it is missing.
Program ==
    /\ outcome = "none"
    /\ flash' # flash
    /\ DOMAIN flash' = Addresses(image)
    /\ \A a \in Addresses(image) :
          \/ flash'[a] = flash[a]
          \/ /\ flash[a] = None
             /\ flash'[a] = image.target[a]
             /\ \A b \in 0 .. a - 1 : flash'[b] = image.target[b]
    /\ UNCHANGED <<image, outcome>>

\* A whole image is reported done only when every byte is in its place.
Succeed ==
    /\ outcome = "none"
    /\ Whole(image) => flash = image.target
    /\ outcome' = "true"
    /\ UNCHANGED <<image, flash>>

Fail ==
    /\ outcome = "none"
    /\ outcome' \in {"false", "error"}
    /\ UNCHANGED <<image, flash>>

\* The next partition, or the same one again after a failure; it may be refused.
Begin ==
    /\ outcome # "none"
    /\ image' \in Images
    /\ flash' = Blank(image')
    /\ outcome' \in {"none", "false", "error"}

ANext == Begin \/ Program \/ Succeed \/ Fail

ASpec == AInit /\ [][ANext]_avars
=============================================================================
