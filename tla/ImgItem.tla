------------------------------- MODULE ImgItem --------------------------------
(* The items of an image: script/imgdec_fun.lua behind Tools_Img of           *)
(* script/aultools.lua, and the loops that read a whole item through it.      *)
(*                                                                            *)
(* An image is a file with a table of items. An item is opened by name, gives *)
(* its size and is read in blocks of Block bytes, Piece bytes at a time, each *)
(* read from where the last one ended. The open item is a global, hItem, one  *)
(* for all callers; the file position is shared as well. A byte is known by   *)
(* its place in the file, so it does not matter whether it was decoded or     *)
(* copied. Sizes are pairs of words of Word values.                           *)
EXTENDS Integers, Sequences

CONSTANTS
    Table,      \* the item table: [name, file, data, offset], file = FILELEN, data = DATALEN
    Upper,      \* string.upper of each name
    Versions,   \* values of Img_Version
    Lengths,    \* lengths the image file may have; it may be cut short
    Block,      \* ENCODE_LEN (16)
    Piece,      \* SIZE_32K
    Word,       \* 2^32
    FexLen,     \* FEX_DOWN_LEN: what save_item_to_mem reads at a time
    BufSize,    \* the caller's buffer, and what the downloads read at a time
    ProbeLen,   \* what sparse_format_probe reads (512)
    MaxCalls    \* bound: items read in a behaviour

Names == DOMAIN Upper
Entries == DOMAIN Table
ItemHead == [name : Names, file : Nat, data : Nat, offset : Nat]
Kinds == {"mem", "down", "probe"}

ASSUME ImgAssumption ==
    /\ Block \in Nat \ {0}
    /\ \A n \in {Piece, Word, FexLen, BufSize, ProbeLen} : n \in Nat \ {0} /\ n % Block = 0
    /\ FexLen <= BufSize /\ ProbeLen <= BufSize
    /\ Table \in Seq(ItemHead)
    /\ Lengths \subseteq Nat /\ Versions \subseteq Nat /\ MaxCalls \in Nat \ {0}

\* Bytes of no item.
NoItem == [index |-> 0, pos |-> 0]
Zero == -1                      \* Memset, and nothing read over it
Stale == -2                     \* what the buffer held before

Smaller(a, b) == IF a < b THEN a ELSE b
Lo(n) == n % Word
Hi(n) == n \div Word

VARIABLES
    img,        \* [fp, version, length]: g_hImageHandle; "none" before Img_Open
    fpos,       \* position of the file
    hItem,      \* the global hItem: its index in the table (0: nil) and loPos
    call,       \* the call under way, or the last one: [kind, name, size]
    pc,         \* "idle", "read" or "piece"
    total,      \* readTotalLen: read by this call so far
    want,       \* wantLen of the read under way
    length,     \* of it, what Img_ReadItemData means to read
    readlen,    \* and has read
    buf,        \* the caller's buffer
    outcome,    \* "none" while it runs; "true", "false" or "error" after
    refused,    \* history: the device refused data of this call
    got,        \* history: what reads that answered true delivered to this call
    calls

reader == <<want, length, readlen>>
caller == <<call, total, outcome, refused, got, calls>>
vars == <<img, fpos, hItem, pc, buf, reader, caller>>

------------------------------------------------------------------------------
(* The image *)

\* What the file holds at q.
FileByte(q) == IF q < img.length THEN q ELSE Zero

\* Img_OpenItem32 compares names as they are, Img_OpenItem64 in upper case.
Matches(e, name) ==
    IF img.version >= 768 THEN Upper[Table[e].name] = Upper[name] ELSE Table[e].name = name

\* The first entry of that name.
Find(name) ==
    LET found == {e \in Entries : Matches(e, name)}
    IN  IF found = {} THEN 0 ELSE CHOOSE e \in found : \A f \in found : e <= f

\* Slip: an item that is open is used again.
ItemKept(e) == IF hItem.index # 0 THEN hItem ELSE [index |-> e, pos |-> 0]
ItemAt(e) == [index |-> e, pos |-> 0]

\* Img_GetItemSize; Tools_Img keeps the low word.
ItemSize(e) == Lo(Table[e].file)

\* Img_ReadItemData knows the lengths and the offset of versions 256 and 768 only.
Known == img.version \in {256, 768}
FileLen == IF Known THEN Table[hItem.index].file ELSE 0
DataLen == IF Known THEN Table[hItem.index].data ELSE 0
Offset  == IF Known THEN Table[hItem.index].offset ELSE 0

\* Img_Open, once in a process (FesBurn, InitTools); when it fails there is no image and
\* no call. It leaves the file behind the table, but every read seeks first.
OpenImage ==
    /\ img.fp = "none"
    /\ \E v \in Versions, n \in Lengths : img' = [fp |-> "open", version |-> v, length |-> n]
    /\ UNCHANGED <<fpos, hItem, pc, buf, reader, caller>>

\* Img_Close, on Exit.
CloseImage ==
    /\ img.fp = "open" /\ pc = "idle"
    /\ img' = [img EXCEPT !.fp = "closed"]
    /\ UNCHANGED <<fpos, hItem, pc, buf, reader, caller>>

------------------------------------------------------------------------------
(* A call: save_item_to_mem, a download of a partition, or sparse_format_probe *)

\* How much a loop reads at a time, and where to.
Chunk(kind) ==
    CASE kind = "mem" -> FexLen [] kind = "down" -> BufSize [] kind = "probe" -> ProbeLen
Shift == IF call.kind = "mem" THEN total ELSE 0

\* Slip: the length of the item is not compared with the buffer.
AnyLength(size) == FALSE
TooLong(size) == size > BufSize

End(o) == pc' = "idle" /\ outcome' = o

\* Tools_Img.Item and what its caller checks. The message for an item that does not
\* fit raises; an empty one is left open.
Call(kind, name) ==
    /\ img.fp = "open" /\ pc = "idle" /\ calls < MaxCalls
    /\ calls' = calls + 1 /\ total' = 0 /\ got' = <<>> /\ refused' = FALSE
    /\ LET e == Find(name) IN
       IF e = 0
       THEN /\ hItem' = NoItem /\ call' = [kind |-> kind, name |-> name, size |-> 0]
            /\ End("false")
       ELSE LET size == IF kind = "probe" THEN Smaller(ItemSize(e), ProbeLen) ELSE ItemSize(e) IN
            /\ hItem' = ItemAt(e)
            /\ call' = [kind |-> kind, name |-> name, size |-> size]
            /\ CASE kind = "mem" /\ size = 0 -> End("false")
                 [] kind = "mem" /\ TooLong(size) -> End("error")
                 [] OTHER -> pc' = "read" /\ outcome' = "none"
    /\ UNCHANGED <<img, fpos, buf, reader>>

\* Slip: the last turn is left out.
EndsEarly(t) == call.size < t + FexLen
Ends(t) == call.size <= t

\* The read has answered true: the next turn, if the device takes the data.
ReadTrue(b, n) ==
    /\ got' = got \o [k \in 1 .. n |-> b[Shift + k - 1]]
    /\ total' = total + n
    /\ \/ /\ refused' = refused
          /\ IF Ends(total + n) THEN End("true") ELSE pc' = "read" /\ outcome' = outcome
       \/ call.kind = "down" /\ refused' = TRUE /\ End("false")
    /\ UNCHANGED <<call, calls>>

\* It has answered false: save_item_to_mem returns the size of the item all the same,
\* a download false and a probe nil.
ReadFalse ==
    /\ End(IF call.kind = "mem" THEN "true" ELSE "false")
    /\ UNCHANGED <<call, total, refused, got, calls>>

------------------------------------------------------------------------------
(* Img_ReadItemData *)

\* Slip: CompareInt64 is asked for "not less".
AtEnd(pos, len) == pos >= len
PastEnd(pos, len) == pos > len

\* Its length: no more than is left of the item, unless the high word is not 0.
Left == FileLen - hItem.pos
ReadLength(n) == IF Left >= 0 /\ Hi(Left) = 0 THEN Smaller(n, Left) ELSE n

\* Up to the loop. Its nil raises in the message of read_item_data. So does, off a block,
\* __Img_ReadItemData: it has no item table (ItemTabale is nil).
StartRead ==
    /\ pc = "read"
    /\ want' = Smaller(call.size - total, Chunk(call.kind)) /\ readlen' = 0
    /\ length' = ReadLength(want')
    /\ \/ /\ PastEnd(hItem.pos, DataLen) \/ Lo(hItem.pos) % Block # 0
          /\ End("error") /\ fpos' = fpos
          /\ UNCHANGED <<call, total, refused, got, calls>>
       \/ /\ ~PastEnd(hItem.pos, DataLen) /\ Lo(hItem.pos) % Block = 0
          /\ fpos' = Offset + hItem.pos
          /\ IF length' > 0 THEN pc' = "piece" /\ UNCHANGED caller
             ELSE IF want' = 0 THEN ReadTrue(buf, 0)
             ELSE ReadFalse
    /\ UNCHANGED <<img, hItem, buf>>

\* Bytes of one turn, and the whole blocks it reads them in.
ThisRead == Smaller(Piece, length - readlen)
Blocks(n) == ((n + Block - 1) \div Block) * Block

\* The buffer after a turn. LFread reads what there is; its answer is not looked at.
Filled ==
    LET from == Shift + readlen
        n == Blocks(ThisRead)
    IN  [p \in DOMAIN buf |-> IF from <= p /\ p < from + n THEN FileByte(fpos + p - from)
                              ELSE buf[p]]

\* One turn of its loop; the last one advances the item and answers.
ReadPiece ==
    /\ pc = "piece"
    /\ fpos' = Smaller(fpos + Blocks(ThisRead), IF fpos > img.length THEN fpos ELSE img.length)
    /\ buf' = Filled
    /\ readlen' = readlen + ThisRead
    /\ IF readlen' < length THEN UNCHANGED <<hItem, pc, caller>>
       ELSE /\ hItem' = [hItem EXCEPT !.pos = @ + readlen']
            /\ IF readlen' = want THEN ReadTrue(buf', want) ELSE ReadFalse
    /\ UNCHANGED <<img, want, length>>

------------------------------------------------------------------------------
Init ==
    /\ img = [fp |-> "none", version |-> 100, length |-> 0] /\ fpos = 0 /\ hItem = NoItem
    /\ call \in [kind : {"mem"}, name : Names, size : {0}] /\ pc = "idle"
    /\ total = 0 /\ want = 0 /\ length = 0 /\ readlen = 0
    /\ buf = [p \in 0 .. BufSize - 1 |-> Stale]
    /\ outcome = "none" /\ refused = FALSE /\ got = <<>> /\ calls = 0

CallItem == \E kind \in Kinds, name \in Names : Call(kind, name)
Read == StartRead \/ ReadPiece
Next == OpenImage \/ CloseImage \/ CallItem \/ Read
Spec == Init /\ [][Next]_vars
FairSpec == Spec /\ WF_vars(Read)

------------------------------------------------------------------------------
(* Properties *)

Asked == Find(call.name)
WellFormed == Asked # 0 /\ Table[Asked].file <= Table[Asked].data

\* What the file holds of byte k of the item that was asked for.
ItemByte(k) == FileByte(Table[Asked].offset + k)

\* Types: a read means to read no more than is wanted, and no turn of it reads more.
TypeOK ==
    /\ img \in [fp : {"none", "open", "closed"}, version : Versions \cup {100},
               length : Lengths \cup {0}]
    /\ fpos \in Nat /\ hItem \in [index : Entries \cup {0}, pos : Nat]
    /\ call \in [kind : Kinds, name : Names, size : 0 .. Word - 1]
    /\ pc \in {"idle", "read", "piece"}
    /\ total \in 0 .. call.size
    /\ want \in 0 .. BufSize /\ length \in 0 .. want /\ readlen \in 0 .. length
    /\ DOMAIN buf = 0 .. BufSize - 1
    /\ outcome \in {"none", "true", "false", "error"} /\ refused \in BOOLEAN
    /\ Len(got) <= call.size /\ calls \in 0 .. MaxCalls

\* Every variable has its type, and a caller is given the bytes of the item it asked for,
\* from the first on, each once and in order, whichever item was open before and wherever
\* the file stood.
BytesInOrder ==
    /\ TypeOK
    /\ WellFormed => \A k \in 1 .. Len(got) : got[k] = ItemByte(k - 1)

\* Reads fill whole blocks, more than is wanted at the end of an item: never past the end
\* of the buffer.
NoBlockOutside == pc = "piece" => Shift + readlen + Blocks(ThisRead) <= BufSize

\* When a call says that an item is read, it is read to the size it was said to have, the
\* low word of its length, and so is its handle.
WholeOnSuccess ==
    outcome = "true" /\ Known /\ WellFormed => Len(got) = call.size /\ hItem.pos = call.size

\* A call fails only on an item that is not there, is empty, does not fit or has less
\* data than bytes, in an image of another version, or when the device does.
NoFalseFailure ==
    outcome \in {"false", "error"} =>
        \/ ~WellFormed \/ ~Known \/ refused
        \/ call.kind = "mem" /\ (call.size = 0 \/ call.size > BufSize)
==============================================================================
