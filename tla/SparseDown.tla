----------------------------- MODULE SparseDown ------------------------------
(* fes_down_sparse_item and parse_and_down_chunk of script/aultools.lua.      *)
(*                                                                            *)
(* The item is read BufLen bytes at a time into a buffer behind a spare area  *)
(* of Spare bytes. After each read a state machine parses the window of the   *)
(* buffer that is not consumed yet, programs raw data through FesDownData and *)
(* copies what it cannot consume into the spare area, right before the place  *)
(* where the next read lands. One action is one turn of the parser's loop     *)
(* (one branch of it), or one read of the item.                               *)
EXTENDS SparseImage

CONSTANTS
    BufLen,     \* bytes of one read of the item (10485760)
    Spare,      \* sparseOfs of fes_down_sparse_item (65536)
    Small,      \* less than this of an unfinished raw chunk is carried (8192)
    Keep,       \* what is left of a raw chunk that nearly fits (4096)
    FexLen,     \* bytes of one FES transfer (FEX_DOWN_LEN)
    MaxLen,     \* length of the partition
    MaxItems    \* bound: items downloaded in a behaviour

ASSUME BufferAssumption ==
    /\ BufLen \in Nat /\ Spare \in Nat /\ Small \in Nat /\ Keep \in Nat
    /\ FexLen \in Nat \ {0} /\ MaxLen \in Nat /\ MaxItems \in Nat \ {0}
    /\ HeaderSize <= BufLen
    /\ ChunkHeaderSize <= Small /\ FillSize <= Small /\ Small <= Spare
    /\ Sector <= Small /\ 2 * Keep <= Small
    /\ Keep % Sector = 0

VARIABLES
    pc,             \* "idle", "read", "parse", "return" or "done"
    totalReadLen,   \* bytes of the item read and parsed
    wantLen,        \* bytes of the read being parsed (sparseLen)
    buf,            \* sparseBuf: buffer offset -> item offset
    sparseOfs,      \* buffer offset of the next byte to parse
    rest,           \* this_rest_size
    fmt,            \* sparse_format_type
    chunk_length, flash_start, last_rest_size,
    handled_chunk,  \* counted from the first chunk of this item
    ret,            \* the global ret of the module, "unset" before any assignment
    denied,         \* history: the host or the device failed a call of this item
    found,          \* history: ret when this item was opened
    items,          \* items taken up
    held            \* what is open: "item", "buffer"

vars == <<image, flash, outcome, pc, totalReadLen, wantLen, buf, sparseOfs, rest,
          fmt, chunk_length, flash_start, last_rest_size, handled_chunk, ret,
          denied, found, items, held>>

parser == <<sparseOfs, rest, fmt, chunk_length, flash_start, last_rest_size, handled_chunk>>
frame == <<image, totalReadLen, wantLen, denied, found, items, held, outcome>>

BufDomain == 0 .. Spare + BufLen - 1
\* Slip: "a < b and a or b" written the wrong way round.
Larger(a, b) == IF a < b THEN b ELSE a
Smaller(a, b) == IF a < b THEN a ELSE b

------------------------------------------------------------------------------
(* The buffer and the device *)

\* Slip: the rest is copied to the front of the spare area.
CarriedToFront(n) == [p \in BufDomain |-> IF p \in 0 .. n - 1 THEN buf[sparseOfs + p]
                                                              ELSE buf[p]]

\* MemCopy of the last n unparsed bytes to the end of the spare area.
Carried(n) == [p \in BufDomain |-> IF p \in Spare - n .. Spare - 1
                                   THEN buf[sparseOfs + (p - (Spare - n))]
                                   ELSE buf[p]]

\* The chunk head at sparseOfs; if no head starts there, whatever it decodes to.
Heads ==
    LET N == Len(image.chunks)
        at == {i \in 1 .. N : \A k \in 0 .. ChunkHeaderSize - 1 :
                                 buf[sparseOfs + k] = image.start[i] + k}
    IN  IF at # {} THEN {image.chunks[i] : i \in at}
        ELSE UNION {{im.chunks[i] : i \in 1 .. Len(im.chunks)} : im \in Images}

\* FesDownData: n bytes from sparseOfs, programmed from address flash_start on.
Programmed(n) == [a \in Addresses(image) |->
                     IF a \in flash_start * Sector .. flash_start * Sector + n - 1
                     THEN buf[sparseOfs + (a - flash_start * Sector)]
                     ELSE flash[a]]

\* A turn of the loop ends: "until this_rest_size <= 0".
LoopOn(r) == pc' = IF r <= 0 THEN "return" ELSE "parse"

\* A branch that leaves the loop with break.
Break(r) == pc' = "return" /\ ret' = r

\* Slip: the length of the rest is not handed to the next read.
CarryForgotten(n) ==
    /\ buf' = Carried(n)
    /\ last_rest_size' = 0
    /\ rest' = 0

\* Slip: this_rest_size is not cleared once the rest is carried over.
CarryNotCleared(n) ==
    /\ buf' = Carried(n)
    /\ last_rest_size' = n
    /\ rest' = rest

\* The rest n of the window is carried over and the loop ends.
CarryOver(n) ==
    /\ buf' = Carried(n)
    /\ last_rest_size' = n
    /\ rest' = 0

------------------------------------------------------------------------------
(* fes_down_sparse_item *)

Fresh(im) ==
    /\ totalReadLen' = 0 /\ last_rest_size' = 0 /\ chunk_length' = 0
    /\ flash_start' = 0 /\ fmt' = "total_head" /\ handled_chunk' = 0 /\ rest' = 0
    /\ image' = im /\ flash' = Blank(im) /\ found' = ret

\* Slip: the "local ret = false" of fes_down_sparse_item is the one that is returned.
OpenItemFalse(im) ==
    /\ pc = "idle" /\ items < MaxItems
    /\ im.size <= MaxLen
    /\ Fresh(im)
    /\ pc' = "read" /\ outcome' = "none"
    /\ held' = {"item", "buffer"}
    /\ denied' = FALSE
    /\ items' = items + 1 /\ ret' = "false"
    /\ UNCHANGED <<wantLen, buf, sparseOfs>>

OpenItem(im) ==
    /\ pc = "idle" /\ items < MaxItems
    /\ im.size <= MaxLen
    /\ Fresh(im)
    /\ pc' = "read" /\ outcome' = "none"
    /\ held' = {"item", "buffer"}
    /\ denied' = FALSE
    /\ items' = items + 1
    /\ UNCHANGED <<wantLen, buf, sparseOfs, ret>>

\* "Fail to open item", or the item is larger than the partition.
RefuseItem(im) ==
    /\ pc = "idle" /\ items < MaxItems
    /\ Fresh(im)
    /\ pc' = "done" /\ outcome' = "false"
    /\ held' = {}
    /\ denied' = TRUE
    /\ items' = items + 1
    /\ UNCHANGED <<wantLen, buf, sparseOfs, ret>>

\* Tools_Buffer gave nil and sparseBuf.BuffShift raises: nobody closes the item.
NoBuffer(im) ==
    /\ pc = "idle" /\ items < MaxItems
    /\ im.size <= MaxLen
    /\ Fresh(im)
    /\ pc' = "done" /\ outcome' = "error"
    /\ held' = {"item"}
    /\ denied' = TRUE
    /\ items' = items + 1
    /\ UNCHANGED <<wantLen, buf, sparseOfs, ret>>

ReadItem ==
    /\ pc = "read"
    /\ wantLen' = Smaller(BufLen, image.size - totalReadLen)
    /\ buf' = [p \in BufDomain |-> IF p \in Spare .. Spare + wantLen' - 1
                                   THEN totalReadLen + (p - Spare)
                                   ELSE buf[p]]
    /\ sparseOfs' = Spare - last_rest_size
    /\ rest' = last_rest_size + wantLen'
    /\ last_rest_size' = 0
    /\ ret' = IF ret = "unset" THEN "true" ELSE ret  \* the Read left _G.ret true
    /\ pc' = "parse"
    /\ UNCHANGED <<image, flash, outcome, totalReadLen, fmt, chunk_length,
                   flash_start, handled_chunk, denied, found, items, held>>

\* ErrPrinL is no function: the call raises, nothing is freed or closed.
ReadFails ==
    /\ pc = "read"
    /\ pc' = "done" /\ outcome' = "error"
    /\ denied' = TRUE
    /\ UNCHANGED <<image, flash, totalReadLen, wantLen, buf, parser, ret, found, items,
                   held>>

\* parse_and_down_chunk returned: next read, or the end of the item.
NextRead ==
    /\ pc = "return" /\ ret = "true"
    /\ totalReadLen + wantLen < image.size
    /\ totalReadLen' = totalReadLen + wantLen
    /\ pc' = "read"
    /\ UNCHANGED <<image, flash, outcome, wantLen, buf, parser, ret, denied, found, items,
                   held>>

\* Slip: the answer of the last parse is not looked at.
ItemDoneAnyway ==
    /\ pc = "return"
    /\ ret = "true" => totalReadLen + wantLen >= image.size
    /\ totalReadLen' = totalReadLen + wantLen
    /\ pc' = "done" /\ outcome' = "true"
    /\ held' = {}
    /\ UNCHANGED <<image, flash, wantLen, buf, parser, ret, denied, found, items>>

ItemDone ==
    /\ pc = "return"
    /\ ret = "true" => totalReadLen + wantLen >= image.size
    /\ totalReadLen' = IF ret = "true" THEN totalReadLen + wantLen ELSE totalReadLen
    /\ pc' = "done" /\ outcome' = ret
    /\ held' = {}
    /\ UNCHANGED <<image, flash, wantLen, buf, parser, ret, denied, found, items>>

\* The caller takes the next partition, or tries again after a failure.
NextItem ==
    /\ pc = "done" /\ items < MaxItems
    /\ pc' = "idle"
    /\ UNCHANGED <<image, flash, outcome, totalReadLen, wantLen, buf, parser, ret,
                   denied, found, items, held>>

------------------------------------------------------------------------------
(* parse_and_down_chunk: one turn of its loop *)

TotalHead ==
    /\ pc = "parse" /\ fmt = "total_head"
    /\ rest' = rest - HeaderSize
    /\ sparseOfs' = sparseOfs + HeaderSize
    /\ fmt' = "chunk_head"
    /\ LoopOn(rest')
    /\ UNCHANGED <<frame, flash, buf, chunk_length, flash_start, last_rest_size,
                   handled_chunk, ret>>

ChunkHeadShort ==
    /\ pc = "parse" /\ fmt = "chunk_head"
    /\ rest < ChunkHeaderSize
    /\ CarryOver(rest)
    /\ Break("true")
    /\ UNCHANGED <<frame, flash, sparseOfs, fmt, chunk_length, flash_start, handled_chunk>>

\* A raw, null or fill head: the state and the address move on.
ChunkHead ==
    /\ pc = "parse" /\ fmt = "chunk_head"
    /\ rest >= ChunkHeaderSize
    /\ \E c \in Heads :
          /\ c.type # "bad"
          /\ chunk_length' = c.len
          /\ fmt' = CASE c.type = "raw"  -> "chunk_data"
                      [] c.type = "fill" -> "fill_data"
                      [] c.type = "null" -> "chunk_head"
          /\ flash_start' = IF c.type = "null" THEN flash_start + c.len \div Sector
                                               ELSE flash_start
    /\ sparseOfs' = sparseOfs + ChunkHeaderSize
    /\ rest' = rest - ChunkHeaderSize
    /\ handled_chunk' = handled_chunk + 1
    /\ LoopOn(rest')
    /\ UNCHANGED <<frame, flash, buf, last_rest_size, ret>>

\* "bad chunk size" or "unknow chunk type".
ChunkHeadBad ==
    /\ pc = "parse" /\ fmt = "chunk_head"
    /\ rest >= ChunkHeaderSize
    /\ \E c \in Heads : c.type = "bad" /\ chunk_length' = c.len
    /\ sparseOfs' = sparseOfs + ChunkHeaderSize
    /\ rest' = rest - ChunkHeaderSize
    /\ Break("false")
    /\ UNCHANGED <<frame, flash, buf, fmt, flash_start, last_rest_size, handled_chunk>>

FillData ==
    /\ pc = "parse" /\ fmt = "fill_data"
    /\ FillSize <= rest
    /\ flash_start' = flash_start + chunk_length \div Sector
    /\ sparseOfs' = sparseOfs + FillSize
    /\ rest' = rest - FillSize
    /\ fmt' = "chunk_head"
    /\ LoopOn(rest')
    /\ UNCHANGED <<frame, flash, buf, chunk_length, last_rest_size, handled_chunk, ret>>

FillShort ==
    /\ pc = "parse" /\ fmt = "fill_data"
    /\ rest < FillSize
    /\ CarryOver(rest)
    /\ ret' = "true"
    /\ LoopOn(rest')
    /\ UNCHANGED <<frame, flash, sparseOfs, fmt, chunk_length, flash_start, handled_chunk>>

\* The rest of a raw chunk is in the window.
ChunkDataWhole ==
    /\ pc = "parse" /\ fmt = "chunk_data"
    /\ chunk_length <= rest
    /\ flash' = Programmed(chunk_length)
    /\ flash_start' = flash_start + chunk_length \div Sector
    /\ sparseOfs' = sparseOfs + chunk_length
    /\ rest' = rest - chunk_length
    /\ chunk_length' = 0
    /\ fmt' = "chunk_head"
    /\ ret' = "true"
    /\ LoopOn(rest')
    /\ UNCHANGED <<frame, buf, last_rest_size, handled_chunk>>

\* Too little of it to be worth a transfer.
ChunkDataShort ==
    /\ pc = "parse" /\ fmt = "chunk_data"
    /\ rest < chunk_length /\ rest < Small
    /\ CarryOver(rest)
    /\ Break("true")
    /\ UNCHANGED <<frame, flash, sparseOfs, fmt, chunk_length, flash_start, handled_chunk>>

\* What is programmed of a raw chunk that goes on after the window.
DownLen ==
    LET unenough == chunk_length - rest
    IN  IF unenough < Keep THEN rest + unenough - Keep ELSE rest - (rest % Sector)

ChunkDataPart ==
    /\ pc = "parse" /\ fmt = "chunk_data"
    /\ rest < chunk_length /\ rest >= Small
    /\ flash' = Programmed(DownLen)
    /\ flash_start' = flash_start + DownLen \div Sector
    /\ chunk_length' = chunk_length - DownLen
    /\ sparseOfs' = sparseOfs + DownLen
    /\ last_rest_size' = rest - DownLen
    /\ buf' = [p \in BufDomain |-> IF p \in Spare - last_rest_size' .. Spare - 1
                                   THEN buf[sparseOfs' + (p - (Spare - last_rest_size'))]
                                   ELSE buf[p]]
    /\ rest' = 0
    /\ ret' = "true"
    /\ LoopOn(rest')
    /\ UNCHANGED <<frame, fmt, handled_chunk>>

\* "Failed to down to FES": only the first transfers of it arrived.
ChunkDataFails ==
    /\ pc = "parse" /\ fmt = "chunk_data"
    /\ chunk_length <= rest \/ rest >= Small
    /\ LET n == IF chunk_length <= rest THEN chunk_length ELSE DownLen
       IN  \E k \in 0 .. n \div FexLen + 1 : flash' = Programmed(Smaller(k * FexLen, n))
    /\ Break("false")
    /\ denied' = TRUE
    /\ UNCHANGED <<image, totalReadLen, wantLen, found, items, held, outcome, buf, parser>>

------------------------------------------------------------------------------
Init ==
    /\ image = CHOOSE im \in Images : TRUE    \* none is open yet
    /\ flash = Blank(image)
    /\ outcome = "idle"
    /\ pc = "idle"
    /\ totalReadLen = 0 /\ wantLen = 0
    /\ buf = [p \in BufDomain |-> None]
    /\ sparseOfs = Spare /\ rest = 0 /\ fmt = "total_head"
    /\ chunk_length = 0 /\ flash_start = 0 /\ last_rest_size = 0 /\ handled_chunk = 0
    /\ ret \in {"unset", "true", "false"}    \* what entry_fel2fes left in it
    /\ denied = FALSE /\ found = ret /\ items = 0 /\ held = {}

Parse ==
    \/ TotalHead
    \/ ChunkHeadShort \/ ChunkHead \/ ChunkHeadBad
    \/ FillData \/ FillShort
    \/ ChunkDataWhole \/ ChunkDataShort \/ ChunkDataPart \/ ChunkDataFails

Download == ReadItem \/ ReadFails \/ Parse \/ NextRead \/ ItemDone

Next ==
    \/ \E im \in Images : OpenItem(im) \/ RefuseItem(im) \/ NoBuffer(im)
    \/ Download
    \/ NextItem

Spec == Init /\ [][Next]_vars

\* The script runs in one thread and its calls return, with an answer or a
\* failure: once a download is started, it takes its next step.
FairSpec == Spec /\ WF_vars(Download)

------------------------------------------------------------------------------
(* Properties *)

\* Types and bounds: the carried rest fits the spare area, offsets the buffer.
TypeOK ==
    /\ image \in Images
    /\ flash \in [Addresses(image) -> Nat \cup {None}]
    /\ outcome \in {"idle", "none", "true", "false", "error"}
    /\ pc \in {"idle", "read", "parse", "return", "done"}
    /\ totalReadLen \in Nat /\ wantLen \in 0 .. BufLen
    /\ buf \in [BufDomain -> Nat \cup {None}]
    /\ sparseOfs \in 0 .. Spare + BufLen
    /\ rest \in Int
    /\ fmt \in {"total_head", "chunk_head", "chunk_data", "fill_data"}
    /\ chunk_length \in Nat /\ flash_start \in Nat
    /\ last_rest_size \in 0 .. Spare
    /\ handled_chunk \in Nat
    /\ ret \in {"unset", "true", "false"}
    /\ denied \in BOOLEAN /\ found \in {"unset", "true", "false"} /\ items \in 0 .. MaxItems
    /\ held \subseteq {"item", "buffer"}

\* However the reads cut the item and whatever is carried from one to the next,
\* a byte of the partition holds nothing or the byte of the image meant for it:
\* no header, no carried byte twice, nothing inside a null or fill chunk.
FlashFaithful == \A a \in Addresses(image) : flash[a] \in {None, image.target[a]}

\* Success of fes_down_sparse_item on a whole image means that every byte of
\* every raw chunk was programmed, what was still carried included.
SuccessComplete == outcome = "true" /\ Whole(image) => flash = image.target

\* The parser never loses its place: where it decodes a chunk head the buffer
\* holds the head of the chunk that follows the last one it handled.
HeadInSync ==
    pc = "parse" /\ fmt = "chunk_head" /\ rest >= ChunkHeaderSize =>
        /\ handled_chunk < Len(image.chunks)
        /\ \A k \in 0 .. ChunkHeaderSize - 1 :
              buf[sparseOfs + k] = image.start[handled_chunk + 1] + k

\* The parser stopped at a bad head of the image, after all that comes before it
\* was programmed.
StoppedAtBad ==
    /\ handled_chunk < Len(image.chunks)
    /\ image.chunks[handled_chunk + 1].type = "bad"
    /\ \A a \in Addresses(image) :
          a < image.place[handled_chunk + 1] => flash[a] = image.target[a]

\* The first read of the item held no raw data and nothing of it was carried.
NothingDown ==
    /\ totalReadLen = 0 /\ last_rest_size = 0
    /\ flash = Blank(image)
    /\ \A i \in 1 .. Len(image.chunks) :
          image.chunks[i].type = "raw" => wantLen <= image.start[i] + ChunkHeaderSize

\* Where the host and the device did what they were asked, a download that reports a
\* failure met a bad head exactly where the image has one; the only other failure is
\* the one of the global ret that an earlier function left false, and it needs a first
\* read without raw data and without a rest: one transfer or copy clears it.
NoSpuriousFailure ==
    outcome \in {"false", "error"} /\ ~denied =>
        /\ outcome = "false"
        /\ StoppedAtBad \/ (found = "false" /\ NothingDown)

\* The streaming parser implements the download of a sparse image: image, flash
\* and outcome are the variables of SparseImage, everything else is hidden.
Implements == ASpec

\* Every download that is started ends: each turn of the loops consumes input or
\* leaves the loop, the carried rest is never read for ever.
EveryDownloadEnds == pc = "read" ~> pc = "done"
==============================================================================
