---------------------------- MODULE SparseDownInv ----------------------------
(* The inductive invariant of SparseDown: why the carried bytes, the parser's *)
(* state and the flash address always agree with one position in the item.    *)
EXTENDS SparseDown

\* The item offset of the next byte to parse.
Pos == totalReadLen + (IF pc = "read" THEN 0 ELSE wantLen) - rest - last_rest_size

\* A download is under way and nothing failed in it.
Live == pc \in {"read", "parse"} \/ (pc = "return" /\ ret = "true")

\* What is left to parse in the buffer is the item from Pos on, without a gap.
Window ==
    pc = "parse" =>
        /\ rest > 0 /\ last_rest_size = 0
        /\ sparseOfs + rest = Spare + wantLen
        /\ \A p \in sparseOfs .. Spare + wantLen - 1 : buf[p] = Pos + (p - sparseOfs)

\* Between two reads, what is carried lies right before the next read's place.
Carry ==
    Live /\ pc # "parse" =>
        /\ rest = 0
        /\ last_rest_size \in 0 .. Small
        /\ \A p \in Spare - last_rest_size .. Spare - 1 :
              buf[p] = Pos + (p - (Spare - last_rest_size))
        /\ fmt = "chunk_head" => last_rest_size < ChunkHeaderSize
        /\ fmt = "fill_data"  => last_rest_size < FillSize
        /\ fmt = "chunk_data" => last_rest_size = 0 \/ last_rest_size < chunk_length

\* The reads are within the item.
Reading ==
    /\ pc = "read" => totalReadLen < image.size
    /\ Live /\ pc # "read" => totalReadLen + wantLen <= image.size
    /\ pc \in {"parse", "return"} => ret # "unset"

\* Parser state, position in the item and flash address agree with the image.
Place ==
    Live =>
        /\ handled_chunk \in 0 .. Len(image.chunks)
        /\ fmt = "total_head" => /\ Pos = 0 /\ handled_chunk = 0
                                 /\ flash_start = 0 /\ totalReadLen = 0
                                 /\ last_rest_size = 0 /\ pc # "return"
                                 /\ pc = "parse" => HeaderSize <= rest
        /\ fmt = "chunk_head" => /\ Pos = image.start[handled_chunk + 1]
                                 /\ flash_start * Sector = image.place[handled_chunk + 1]
        /\ fmt = "fill_data" => /\ handled_chunk > 0
                                /\ image.chunks[handled_chunk].type = "fill"
                                /\ chunk_length = image.chunks[handled_chunk].len
                                /\ Pos = image.start[handled_chunk] + ChunkHeaderSize
                                /\ flash_start * Sector = image.place[handled_chunk]
        /\ fmt = "chunk_data" => /\ handled_chunk > 0
                                 /\ image.chunks[handled_chunk].type = "raw"
                                 /\ chunk_length <= image.chunks[handled_chunk].len
                                 /\ chunk_length % Sector = 0
                                 /\ Pos = image.start[handled_chunk + 1] - chunk_length
                                 /\ flash_start * Sector
                                      = image.place[handled_chunk + 1] - chunk_length

\* The partition is programmed up to the flash address and blank after it.
Written ==
    Live => \A a \in Addresses(image) :
              flash[a] = IF a < flash_start * Sector THEN image.target[a] ELSE None

Outcome == /\ pc \in {"read", "parse", "return"} <=> outcome = "none"
           /\ pc \in {"idle", "done"} => outcome \in {"idle", "true", "false", "error"}

IInv == /\ TypeOK /\ Window /\ Carry /\ Reading /\ Place /\ Written /\ Outcome
        /\ FlashFaithful /\ SuccessComplete
==============================================================================
