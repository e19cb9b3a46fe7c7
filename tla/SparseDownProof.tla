--------------------------- MODULE SparseDownProof ---------------------------
(* Proofs about SparseDown, for every set of well-formed images and all sizes *)
(* of buffers, sectors and limits that satisfy the assumptions.               *)
EXTENDS SparseDownInv, SequenceTheorems, TLAPS


------------------------------------------------------------------------------
(* Arithmetic of sectors, and what the assumptions say of the open image *)

\* A whole number of sectors is its number of sectors times their size.
LEMMA SectorDiv ==
    ASSUME NEW n \in Nat, n % Sector = 0
    PROVE  n \div Sector \in Nat /\ (n \div Sector) * Sector = n
  BY SizesAssumption, Z3

\* Moving an address by whole sectors moves the byte it stands for by as many bytes.
LEMMA SectorAdd ==
    ASSUME NEW f \in Nat, NEW n \in Nat, n % Sector = 0
    PROVE  /\ f + n \div Sector \in Nat
           /\ (f + n \div Sector) * Sector = f * Sector + n
           /\ f * Sector \in Nat
  <1> DEFINE q == n \div Sector
  <1>1. q \in Nat /\ q * Sector = n
    BY SectorDiv
  <1>2. (f + q) * Sector = f * Sector + q * Sector
    BY <1>1, SizesAssumption, Z3
  <1>3. f * Sector \in Nat
    BY SizesAssumption, Z3
  <1>4. f + q \in Nat
    BY <1>1
  <1> QED
    BY <1>1, <1>2, <1>3, <1>4

\* Taking whole sectors off whole sectors leaves whole sectors.
LEMMA SectorSub ==
    ASSUME NEW m \in Nat, NEW n \in Nat, m % Sector = 0, n % Sector = 0, n <= m
    PROVE  (m - n) % Sector = 0
  <1> DEFINE x == m \div Sector
             y == n \div Sector
  <1>1. x \in Nat /\ y \in Nat /\ x * Sector = m /\ y * Sector = n
    BY SectorDiv
  <1>2. m - n = (x - y) * Sector
    BY <1>1, SizesAssumption, Z3
  <1>3. ((x - y) * Sector) % Sector = 0
    BY <1>1, SizesAssumption, Z3
  <1> QED
    BY <1>2, <1>3

\* Cutting n down to whole sectors takes off less than a sector.
LEMMA SectorFloor ==
    ASSUME NEW n \in Nat
    PROVE  /\ n % Sector \in 0 .. Sector - 1
           /\ n - (n % Sector) \in Nat
           /\ (n - (n % Sector)) % Sector = 0
  <1> DEFINE q == n \div Sector
  <1>1. q \in Nat /\ n % Sector \in 0 .. Sector - 1 /\ n = q * Sector + (n % Sector)
    BY SizesAssumption, Z3
  <1>2. n - (n % Sector) = q * Sector
    BY <1>1, SizesAssumption, Z3
  <1>3. q * Sector \in Nat /\ (q * Sector) % Sector = 0
    BY <1>1, SizesAssumption, Z3
  <1>4. (n - (n % Sector)) % Sector = (q * Sector) % Sector
    BY <1>2
  <1>5. n - (n % Sector) \in Nat
    BY <1>2, <1>3
  <1> QED
    BY <1>1, <1>3, <1>4, <1>5

\* The linear part of the assumptions.
LEMMA Sizes ==
    /\ HeaderSize \in Nat /\ HeaderSize > 0
    /\ ChunkHeaderSize \in Nat /\ ChunkHeaderSize > 0
    /\ FillSize \in Nat /\ FillSize > 0
    /\ Sector \in Nat /\ Sector > 0 /\ Sector <= Small
    /\ BufLen \in Nat /\ Spare \in Nat /\ Small \in Nat /\ Keep \in Nat
    /\ HeaderSize <= BufLen
    /\ ChunkHeaderSize <= Small /\ FillSize <= Small /\ Small <= Spare
    /\ Keep + Keep <= Small /\ MaxItems \in Nat
  BY SizesAssumption, BufferAssumption

\* What the assumption on the images says of one of them, in the forms used below.
LEMMA ImageFacts ==
    ASSUME NEW im \in Images
    PROVE  LET N == Len(im.chunks) IN
           /\ N \in Nat
           /\ \A i \in 1 .. N + 1 : im.start[i] \in Nat /\ im.place[i] \in Nat
           /\ im.start[1] = HeaderSize /\ im.place[1] = 0
           /\ Addresses(im) = 0 .. im.place[N + 1] - 1
           /\ \A a \in Addresses(im) : im.target[a] \in Nat \cup {None}
           /\ im.size \in Nat /\ HeaderSize <= im.size /\ im.size <= im.start[N + 1]
           /\ \A i \in 1 .. N :
                 LET c == im.chunks[i] IN
                 /\ c.type \in ChunkTypes /\ c.len \in Nat /\ c.len % Sector = 0
                 /\ im.start[i + 1] = im.start[i] + ChunkHeaderSize + Payload(c)
                 /\ im.place[i + 1] = im.place[i] + Span(c)
                 /\ \A j \in i + 1 .. N + 1 : im.start[i + 1] <= im.start[j]
                 /\ im.place[i + 1] <= im.place[N + 1]
                 /\ \A a \in im.place[i] .. im.place[i + 1] - 1 :
                       im.target[a] = IF c.type = "raw"
                                      THEN im.start[i] + ChunkHeaderSize
                                             + (a - im.place[i])
                                      ELSE None
  <1> DEFINE N == Len(im.chunks)
  <1>1. WellFormed(im)
    BY ImagesAssumption
  <1>0. im.chunks \in Seq([type : ChunkTypes, len : Nat])
    BY <1>1 DEF WellFormed
  <1>2. N \in Nat
    BY <1>0
  <1>6. \A i \in 1 .. N : im.chunks[i] \in [type : ChunkTypes, len : Nat]
    BY <1>0, <1>2, ElementOfSeq
  <1>7. \A i \in 1 .. N : im.chunks[i].type \in ChunkTypes /\ im.chunks[i].len \in Nat
    BY <1>6
  <1>3. /\ \A i \in 1 .. N + 1 : im.start[i] \in Nat /\ im.place[i] \in Nat
        /\ im.start[1] = HeaderSize /\ im.place[1] = 0
        /\ Addresses(im) = 0 .. im.place[N + 1] - 1
        /\ \A a \in Addresses(im) : im.target[a] \in Nat \cup {None}
    BY <1>1 DEF WellFormed, Addresses
  <1>4. im.size \in Nat /\ HeaderSize <= im.size /\ im.size <= im.start[N + 1]
    BY <1>1, <1>2, <1>3, SizesAssumption DEF WellFormed
  <1>5. \A i \in 1 .. N :
           LET c == im.chunks[i] IN
           /\ c.len % Sector = 0
           /\ im.start[i + 1] = im.start[i] + ChunkHeaderSize + Payload(c)
           /\ im.place[i + 1] = im.place[i] + Span(c)
           /\ \A j \in i + 1 .. N + 1 : im.start[i + 1] <= im.start[j]
           /\ im.place[i + 1] <= im.place[N + 1]
           /\ \A a \in im.place[i] .. im.place[i + 1] - 1 :
                 im.target[a] = IF c.type = "raw"
                                THEN im.start[i] + ChunkHeaderSize + (a - im.place[i])
                                ELSE None
    BY <1>1 DEF WellFormed
  <1> QED
    BY <1>2, <1>3, <1>4, <1>5, <1>7

\* The same of one chunk: its payload follows its head, its span its place.
LEMMA ChunkFacts ==
    ASSUME NEW im \in Images, NEW i \in 1 .. Len(im.chunks)
    PROVE  /\ im.chunks[i].type \in ChunkTypes
           /\ im.chunks[i].len \in Nat /\ im.chunks[i].len % Sector = 0
           /\ im.start[i] \in Nat /\ im.place[i] \in Nat
           /\ im.start[i + 1] \in Nat /\ im.place[i + 1] \in Nat
           /\ im.start[i + 1] = im.start[i] + ChunkHeaderSize + Payload(im.chunks[i])
           /\ im.place[i + 1] = im.place[i] + Span(im.chunks[i])
           /\ \A j \in i + 1 .. Len(im.chunks) + 1 : im.start[i + 1] <= im.start[j]
           /\ im.start[i + 1] <= im.start[Len(im.chunks) + 1]
           /\ im.place[i + 1] <= im.place[Len(im.chunks) + 1]
           /\ \A a \in im.place[i] .. im.place[i + 1] - 1 :
                 im.target[a] = IF im.chunks[i].type = "raw"
                                THEN im.start[i] + ChunkHeaderSize + (a - im.place[i])
                                ELSE None
  <1>1. Len(im.chunks) \in Nat /\ i \in Nat
        /\ i \in 1 .. Len(im.chunks) + 1 /\ i + 1 \in 1 .. Len(im.chunks) + 1
        /\ Len(im.chunks) + 1 \in i + 1 .. Len(im.chunks) + 1
    BY ImageFacts
  <1> QED
    BY <1>1, ImageFacts

\* The chunk that was handled last.
LEMMA OpenImage ==
    ASSUME TypeOK, Live, Place, handled_chunk > 0
    PROVE  /\ handled_chunk \in 1 .. Len(image.chunks)
           /\ handled_chunk + 1 \in 1 .. Len(image.chunks) + 1
  BY ImageFacts DEF TypeOK, Place

\* A raw chunk being programmed: s is the item offset of its data, q its place.
LEMMA RawChunk ==
    ASSUME TypeOK, Live, Place, fmt = "chunk_data"
    PROVE  \E s, q, l \in Nat :
              /\ l = image.chunks[handled_chunk].len
              /\ s + l = image.start[handled_chunk + 1]
              /\ q + l = image.place[handled_chunk + 1]
              /\ chunk_length \in Nat /\ chunk_length <= l
              /\ Pos = s + l - chunk_length
              /\ flash_start * Sector = q + l - chunk_length
              /\ \A a \in q .. q + l - 1 : image.target[a] = s + (a - q)
  <1> DEFINE h == handled_chunk
             s == image.start[h] + ChunkHeaderSize
             q == image.place[h]
             l == image.chunks[h].len
  <1>1. h \in 1 .. Len(image.chunks) /\ image \in Images /\ image.chunks[h].type = "raw"
    BY ImageFacts, OpenImage DEF Place, TypeOK
  <1>2. /\ l \in Nat /\ image.start[h] \in Nat /\ q \in Nat
        /\ image.start[h + 1] = image.start[h] + ChunkHeaderSize + l
        /\ image.place[h + 1] = q + l
    BY <1>1, ChunkFacts DEF Payload, Span
  <1>3. s \in Nat /\ s + l = image.start[h + 1]
    BY <1>2, SizesAssumption
  <1>4. \A a \in q .. q + l - 1 : image.target[a] = s + (a - q)
    <2>1. \A a \in q .. image.place[h + 1] - 1 :
             image.target[a] = image.start[h] + ChunkHeaderSize + (a - q)
      BY <1>1, ChunkFacts
    <2> QED
      BY <1>2, <2>1
  <1>5. chunk_length \in Nat /\ chunk_length <= l
    BY DEF Place, TypeOK
  <1>6. Pos = image.start[h + 1] - chunk_length
    BY DEF Place
  <1>7. flash_start * Sector = image.place[h + 1] - chunk_length
    BY DEF Place
  <1>8. q + l = image.place[h + 1]
    BY <1>2
  <1> HIDE DEF s, q, l, h
  <1>9. /\ l = image.chunks[handled_chunk].len /\ h = handled_chunk
        /\ s \in Nat /\ q \in Nat /\ l \in Nat
    BY <1>2, <1>3 DEF l, h
  <1>10. Pos = s + l - chunk_length
    BY <1>3, <1>5, <1>6, <1>9
  <1>11. flash_start * Sector = q + l - chunk_length
    BY <1>8, <1>7, <1>5, <1>9
  <1> QED
    BY <1>3, <1>4, <1>5, <1>8, <1>9, <1>10, <1>11, Zenon

\* Programming n more bytes of a raw chunk extends the programmed prefix by n.
LEMMA ProgramPrefix ==
    ASSUME TypeOK, Window, Place, Written, pc = "parse", fmt = "chunk_data",
           NEW n \in Nat, n <= chunk_length, n <= rest
    PROVE  /\ Programmed(n) \in [Addresses(image) -> Nat \cup {None}]
           /\ \A a \in Addresses(image) :
                 Programmed(n)[a] = IF a < flash_start * Sector + n
                                    THEN image.target[a] ELSE None
  <1>0. Live
    BY DEF Live
  <1>1. image \in Images /\ image.target \in [Addresses(image) -> Nat \cup {None}]
    BY ImagesAssumption DEF TypeOK, WellFormed, Addresses
  <1>2. PICK s, q, l \in Nat :
              /\ chunk_length \in Nat /\ chunk_length <= l
              /\ Pos = s + l - chunk_length
              /\ flash_start * Sector = q + l - chunk_length
              /\ \A a \in q .. q + l - 1 : image.target[a] = s + (a - q)
    BY <1>0, RawChunk
  <1> DEFINE at == flash_start * Sector
  <1>3. at \in Nat /\ at = q + l - chunk_length
    BY <1>2
  <1> HIDE DEF at
  <1>4. \A p \in sparseOfs .. sparseOfs + rest - 1 : buf[p] = Pos + (p - sparseOfs)
    <2>1. sparseOfs + rest = Spare + wantLen
      BY DEF Window
    <2>2. \A p \in sparseOfs .. Spare + wantLen - 1 : buf[p] = Pos + (p - sparseOfs)
      BY DEF Window
    <2> QED
      BY <2>1, <2>2, BufferAssumption DEF TypeOK
  <1>5. ASSUME NEW a \in at .. at + n - 1
        PROVE  buf[sparseOfs + (a - at)] = image.target[a]
    <2>1. sparseOfs + (a - at) \in sparseOfs .. sparseOfs + rest - 1
      BY <1>3, BufferAssumption DEF TypeOK
    <2>2. buf[sparseOfs + (a - at)] = Pos + (a - at)
      BY <2>1, <1>3, <1>4, BufferAssumption DEF TypeOK
    <2>3. a \in q .. q + l - 1
      BY <1>2, <1>3
    <2>4. image.target[a] = s + (a - q)
      BY <1>2, <2>3
    <2> QED
      BY <1>2, <1>3, <2>2, <2>4
  <1>6. Addresses(image) \subseteq Nat
    <2>1. Len(image.chunks) \in Nat /\ image.place[Len(image.chunks) + 1] \in Nat
      BY <1>1, ImageFacts
    <2> QED
      BY <1>1, <2>1, ImageFacts
  <1>7. ASSUME NEW a \in Addresses(image)
        PROVE  Programmed(n)[a] = IF a < at + n THEN image.target[a] ELSE None
    <2>1. a \in Nat
      BY <1>6
    <2>2. flash[a] = IF a < at THEN image.target[a] ELSE None
      BY <1>0 DEF Written, at
    <2>3. Programmed(n)[a] = IF a \in at .. at + n - 1
                             THEN buf[sparseOfs + (a - at)] ELSE flash[a]
      BY DEF Programmed, at
    <2> QED
      BY <1>3, <1>5, <2>1, <2>2, <2>3
  <1>8. ASSUME NEW a \in Addresses(image)
        PROVE  Programmed(n)[a] \in Nat \cup {None}
    BY <1>1, <1>7
  <1> QED
    BY <1>7, <1>8 DEF Programmed, at

\* What a blank partition holds.
LEMMA BlankFacts ==
    ASSUME NEW im \in Images
    PROVE  /\ Blank(im) \in [Addresses(im) -> Nat \cup {None}]
           /\ \A a \in Addresses(im) : Blank(im)[a] = None /\ a \in Nat
           /\ im.size \in Nat \ {0}
           /\ 0 \in 0 .. Len(im.chunks)
  <1>1. Len(im.chunks) \in Nat /\ im.place[Len(im.chunks) + 1] \in Nat
    BY ImageFacts
  <1>2. \A a \in Addresses(im) : a \in Nat
    BY <1>1, ImageFacts
  <1>3. im.size \in Nat \ {0}
    BY ImageFacts, SizesAssumption
  <1> QED
    BY <1>1, <1>2, <1>3 DEF Blank

\* Where the parser decodes a chunk head, it decodes the next chunk of the image.
LEMMA HeadsSound ==
    ASSUME TypeOK, Window, Reading, Place,
           pc = "parse", fmt = "chunk_head", rest >= ChunkHeaderSize
    PROVE  /\ handled_chunk + 1 \in 1 .. Len(image.chunks)
           /\ \A k \in 0 .. ChunkHeaderSize - 1 :
                 buf[sparseOfs + k] = image.start[handled_chunk + 1] + k
           /\ Heads = {image.chunks[handled_chunk + 1]}
  <1> DEFINE N == Len(image.chunks)
             h == handled_chunk
  <1>1. /\ image \in Images /\ Live
        /\ h \in 0 .. N /\ Pos = image.start[h + 1]
        /\ N \in Nat /\ image.start[h + 1] \in Nat
    BY ImageFacts DEF Live, Place, TypeOK
  <1>2. Pos + rest <= image.size
    BY <1>1 DEF Pos, Reading, Window, TypeOK
  <1>3. h + 1 \in 1 .. N
    <2>1. CASE h = N
      <3>1. image.size <= image.start[h + 1] /\ image.size \in Nat
        BY <1>1, <2>1, ImageFacts
      <3> QED
        BY <1>1, <1>2, <3>1, SizesAssumption DEF TypeOK
    <2>2. CASE h # N
      BY <1>1, <2>2
    <2> QED
      BY <2>1, <2>2
  <1>4. ASSUME NEW k \in 0 .. ChunkHeaderSize - 1
        PROVE  buf[sparseOfs + k] = image.start[h + 1] + k
    <2>1. sparseOfs + k \in sparseOfs .. Spare + wantLen - 1
      BY SizesAssumption, BufferAssumption DEF Window, TypeOK
    <2>2. buf[sparseOfs + k] = Pos + ((sparseOfs + k) - sparseOfs)
      BY <2>1 DEF Window
    <2> QED
      BY <1>1, <2>2, SizesAssumption DEF TypeOK
  <1> DEFINE at == {i \in 1 .. N : \A k \in 0 .. ChunkHeaderSize - 1 :
                                      buf[sparseOfs + k] = image.start[i] + k}
  <1>5. ASSUME NEW i \in at
        PROVE  i = h + 1
    <2>1. image.start[i] = image.start[h + 1]
      <3>1. 0 \in 0 .. ChunkHeaderSize - 1
        BY SizesAssumption
      <3>2. buf[sparseOfs + 0] = image.start[i] + 0 /\ buf[sparseOfs + 0] = image.start[h + 1] + 0
        BY <1>4, <3>1
      <3>3. image.start[i] \in Nat
        BY <1>1, ChunkFacts
      <3> QED
        BY <1>1, <3>2, <3>3
    <2>2. CASE i < h + 1
      <3>1. h + 1 \in i + 1 .. N + 1
        BY <1>1, <1>3, <2>2
      <3>2. image.start[i + 1] <= image.start[h + 1]
        BY <1>1, <3>1, ChunkFacts
      <3>3. /\ image.start[i] \in Nat /\ image.start[i + 1] \in Nat
            /\ image.start[i] < image.start[i + 1]
        <4>1. Payload(image.chunks[i]) \in Nat
          BY <1>1, ChunkFacts, SizesAssumption DEF Payload
        <4>2. /\ image.start[i] \in Nat /\ image.start[i + 1] \in Nat
              /\ image.start[i + 1] = image.start[i] + ChunkHeaderSize
                                        + Payload(image.chunks[i])
          BY <1>1, ChunkFacts
        <4> QED
          BY <4>1, <4>2, SizesAssumption
      <3> QED
        BY <1>1, <2>1, <3>2, <3>3
    <2>3. CASE h + 1 < i
      <3>1. i \in (h + 1) + 1 .. N + 1
        BY <1>1, <1>3, <2>3
      <3>2. image.start[(h + 1) + 1] <= image.start[i]
        BY <1>1, <1>3, <3>1, ChunkFacts
      <3>3. /\ image.start[h + 1] \in Nat /\ image.start[(h + 1) + 1] \in Nat
            /\ image.start[h + 1] < image.start[(h + 1) + 1]
        <4>1. Payload(image.chunks[h + 1]) \in Nat
          BY <1>1, <1>3, ChunkFacts, SizesAssumption DEF Payload
        <4>2. /\ image.start[h + 1] \in Nat /\ image.start[(h + 1) + 1] \in Nat
              /\ image.start[(h + 1) + 1] = image.start[h + 1] + ChunkHeaderSize
                                              + Payload(image.chunks[h + 1])
          BY <1>1, <1>3, ChunkFacts
        <4> QED
          BY <4>1, <4>2, SizesAssumption
      <3> QED
        BY <1>1, <2>1, <3>2, <3>3
    <2> QED
      BY <1>1, <1>3, <2>2, <2>3
  <1>6. h + 1 \in at
    BY <1>3, <1>4
  <1>7. at = {h + 1}
    BY <1>5, <1>6
  <1>8. Heads = {image.chunks[i] : i \in at}
    BY <1>6 DEF Heads
  <1> QED
    BY <1>3, <1>4, <1>7, <1>8

\* Skipping a null or fill chunk moves the address past the bytes left blank.
LEMMA SkipChunk ==
    ASSUME TypeOK, Live, Written,
           NEW i \in 1 .. Len(image.chunks), image.chunks[i].type \in {"null", "fill"},
           flash_start * Sector = image.place[i],
           NEW f, f = flash_start + image.chunks[i].len \div Sector
    PROVE  /\ f \in Nat /\ f * Sector = image.place[i + 1]
           /\ \A a \in Addresses(image) :
                 flash[a] = IF a < f * Sector THEN image.target[a] ELSE None
  <1> DEFINE n == image.chunks[i].len
  <1>1. image \in Images /\ flash_start \in Nat
    BY DEF TypeOK
  <1>2. /\ n \in Nat /\ n % Sector = 0
        /\ image.place[i] \in Nat /\ image.place[i + 1] \in Nat
        /\ image.place[i + 1] = image.place[i] + n
        /\ \A a \in image.place[i] .. image.place[i + 1] - 1 : image.target[a] = None
    BY <1>1, ChunkFacts DEF Span
  <1>3. f \in Nat /\ f * Sector = flash_start * Sector + n
    BY <1>1, <1>2, SectorAdd
  <1>4. f * Sector = image.place[i + 1]
    BY <1>2, <1>3
  <1>5. ASSUME NEW a \in Addresses(image)
        PROVE  flash[a] = IF a < image.place[i + 1] THEN image.target[a] ELSE None
    <2>1. a \in Nat
      BY <1>1, BlankFacts
    <2>2. flash[a] = IF a < image.place[i] THEN image.target[a] ELSE None
      BY DEF Written
    <2> QED
      BY <1>2, <2>1, <2>2
  <1> QED
    BY <1>3, <1>4, <1>5

\* What is programmed of a raw chunk that does not fit: whole sectors, and no more
\* is left in the window than the spare area can take.
LEMMA DownLenFacts ==
    ASSUME TypeOK, rest >= Small, rest < chunk_length, chunk_length % Sector = 0
    PROVE  /\ DownLen \in Nat /\ DownLen <= rest /\ DownLen <= chunk_length
           /\ DownLen % Sector = 0
           /\ rest - DownLen \in 0 .. Small
  <1>1. rest \in Nat /\ chunk_length \in Nat
    BY Sizes DEF TypeOK
  <1>2. CASE chunk_length - rest < Keep
    <2>1. DownLen = chunk_length - Keep
      BY <1>1, <1>2, Sizes DEF DownLen
    <2>2. Keep <= chunk_length
      BY <1>1, Sizes
    <2>3. (chunk_length - Keep) % Sector = 0
      BY <1>1, <2>2, SectorSub, Sizes, BufferAssumption
    <2> QED
      BY <1>1, <1>2, <2>1, <2>2, <2>3, Sizes
  <1>3. CASE ~(chunk_length - rest < Keep)
    <2>1. DownLen = rest - (rest % Sector)
      BY <1>1, <1>3 DEF DownLen
    <2>2. /\ rest % Sector \in 0 .. Sector - 1
          /\ rest - (rest % Sector) \in Nat /\ (rest - (rest % Sector)) % Sector = 0
      BY <1>1, SectorFloor
    <2> DEFINE r == rest % Sector
    <2>3. r \in 0 .. Sector - 1 /\ rest - r \in Nat /\ DownLen = rest - r
      BY <2>1, <2>2
    <2>4. (rest - r) % Sector = 0
      BY <2>2
    <2> HIDE DEF r
    <2>5. /\ rest - r <= rest /\ rest - r <= chunk_length
          /\ rest - (rest - r) \in 0 .. Small
      BY <1>1, <2>3, Sizes
    <2> QED
      BY <2>3, <2>4, <2>5
  <1> QED
    BY <1>2, <1>3

\* A failed transfer programs a prefix of what it was given.
LEMMA FailedPrefix ==
    ASSUME TypeOK, Window, Place, ChunkDataFails
    PROVE  \E n \in Nat : n <= chunk_length /\ n <= rest /\ flash' = Programmed(n)
  <1> DEFINE m == IF chunk_length <= rest THEN chunk_length ELSE DownLen
  <1>1. /\ pc = "parse" /\ fmt = "chunk_data" /\ Live
        /\ chunk_length <= rest \/ rest >= Small
    BY DEF ChunkDataFails, Live
  <1>2. chunk_length \in Nat /\ rest \in Int /\ chunk_length % Sector = 0
    BY <1>1 DEF TypeOK, Place
  <1>3. m \in Nat /\ m <= chunk_length /\ m <= rest
    <2>1. CASE chunk_length <= rest
      BY <1>2, <2>1
    <2>2. CASE ~(chunk_length <= rest)
      <3>1. rest >= Small /\ rest < chunk_length
        BY <1>1, <1>2, <2>2
      <3> QED
        BY <1>2, <2>2, <3>1, DownLenFacts
    <2> QED
      BY <2>1, <2>2
  <1>4. PICK k \in 0 .. m \div FexLen + 1 : flash' = Programmed(Smaller(k * FexLen, m))
    BY DEF ChunkDataFails
  <1> HIDE DEF m
  <1>5. k * FexLen \in Nat
    BY BufferAssumption, Z3
  <1> DEFINE n == Smaller(k * FexLen, m)
  <1>6. n \in Nat /\ n <= m
    BY <1>3, <1>5 DEF Smaller
  <1> HIDE DEF n
  <1>7. flash' = Programmed(n)
    BY <1>4 DEF n
  <1> QED
    BY <1>2, <1>3, <1>6, <1>7

------------------------------------------------------------------------------
(* Every action keeps the inductive invariant. *)

\* When a download ends nothing is promised of the buffer and the parser any more.
LEMMA NothingLive ==
    ASSUME pc' \notin {"read", "parse"}, pc' # "return" \/ ret' = "false"
    PROVE  Window' /\ Carry' /\ Reading' /\ Place' /\ Written'
  BY DEF Window, Carry, Reading, Place, Written, Live

\* A fresh item: blank partition, parser before the first byte.
LEMMA OpenItemKeeps ==
    ASSUME IInv, NEW im \in Images, OpenItem(im)
    PROVE  IInv'
  <1>0. TypeOK /\ Window /\ Carry /\ Reading /\ Place /\ Written
        /\ Outcome /\ FlashFaithful /\ SuccessComplete
    BY DEF IInv
  <1>1. TypeOK'
    <2>1. /\ flash' \in [Addresses(image') -> Nat \cup {None}] /\ image' \in Images
          /\ found' \in {"unset", "true", "false"} /\ denied' \in BOOLEAN
      BY <1>0, BlankFacts DEF OpenItem, Fresh, TypeOK
    <2>2. 0 \in 0 .. Spare /\ items' \in 0 .. MaxItems
      BY <1>0, Sizes DEF OpenItem, TypeOK
    <2> QED
      BY <1>0, <2>1, <2>2 DEF OpenItem, Fresh, TypeOK
  <1>2. Window'
    BY <1>0, Sizes
    DEF OpenItem, Fresh, Window, Carry, Pos, Live, TypeOK, BufDomain, Smaller
  <1>3. Carry'
    BY <1>0, Sizes, BlankFacts
    DEF OpenItem, Fresh, Carry, Window, Pos, Live, TypeOK, BufDomain
  <1>4. Reading'
    BY <1>0, Sizes, BlankFacts
    DEF OpenItem, Fresh, Reading, Live, TypeOK, Smaller
  <1>5. Place'
    BY <1>0, Sizes, BlankFacts
    DEF OpenItem, Fresh, Place, Live, Pos, TypeOK
  <1>6. Written'
    BY <1>0, Sizes, BlankFacts
    DEF OpenItem, Fresh, Written, Live, TypeOK
  <1>7. Outcome' /\ FlashFaithful' /\ SuccessComplete'
    BY <1>0, BlankFacts
    DEF OpenItem, Fresh, Outcome, FlashFaithful, SuccessComplete
  <1> QED
    BY <1>1, <1>2, <1>3, <1>4, <1>5, <1>6, <1>7 DEF IInv

\* A refused item leaves nothing to promise.
LEMMA RefuseItemKeeps ==
    ASSUME IInv, NEW im \in Images, RefuseItem(im)
    PROVE  IInv'
  <1>0. TypeOK /\ Window /\ Carry /\ Reading /\ Place /\ Written
        /\ Outcome /\ FlashFaithful /\ SuccessComplete
    BY DEF IInv
  <1>1. TypeOK'
    <2>1. /\ flash' \in [Addresses(image') -> Nat \cup {None}] /\ image' \in Images
          /\ found' \in {"unset", "true", "false"} /\ denied' \in BOOLEAN
      BY <1>0, BlankFacts DEF RefuseItem, Fresh, TypeOK
    <2>2. 0 \in 0 .. Spare /\ items' \in 0 .. MaxItems
      BY <1>0, Sizes DEF RefuseItem, TypeOK
    <2> QED
      BY <1>0, <2>1, <2>2 DEF RefuseItem, Fresh, TypeOK
  <1>2. Window' /\ Carry' /\ Reading' /\ Place' /\ Written'
    BY NothingLive DEF RefuseItem, Fresh
  <1>3. Outcome' /\ FlashFaithful' /\ SuccessComplete'
    BY <1>0, BlankFacts
    DEF RefuseItem, Fresh, Outcome, FlashFaithful, SuccessComplete
  <1> QED
    BY <1>1, <1>2, <1>3 DEF IInv

\* Nor does one for which there is no buffer.
LEMMA NoBufferKeeps ==
    ASSUME IInv, NEW im \in Images, NoBuffer(im)
    PROVE  IInv'
  <1>0. TypeOK /\ Window /\ Carry /\ Reading /\ Place /\ Written
        /\ Outcome /\ FlashFaithful /\ SuccessComplete
    BY DEF IInv
  <1>1. TypeOK'
    <2>1. /\ flash' \in [Addresses(image') -> Nat \cup {None}] /\ image' \in Images
          /\ found' \in {"unset", "true", "false"} /\ denied' \in BOOLEAN
      BY <1>0, BlankFacts DEF NoBuffer, Fresh, TypeOK
    <2>2. 0 \in 0 .. Spare /\ items' \in 0 .. MaxItems
      BY <1>0, Sizes DEF NoBuffer, TypeOK
    <2> QED
      BY <1>0, <2>1, <2>2 DEF NoBuffer, Fresh, TypeOK
  <1>2. Window' /\ Carry' /\ Reading' /\ Place' /\ Written'
    BY NothingLive DEF NoBuffer, Fresh
  <1>3. Outcome' /\ FlashFaithful' /\ SuccessComplete'
    BY <1>0, BlankFacts
    DEF NoBuffer, Fresh, Outcome, FlashFaithful, SuccessComplete
  <1> QED
    BY <1>1, <1>2, <1>3 DEF IInv

\* The read lands right behind the carried bytes: the window has no gap.
LEMMA ReadItemKeeps ==
    ASSUME IInv, ReadItem
    PROVE  IInv'
  <1>0. TypeOK /\ Window /\ Carry /\ Reading /\ Place /\ Written
        /\ Outcome /\ FlashFaithful /\ SuccessComplete
    BY DEF IInv
  <1>1. TypeOK'
    BY <1>0, Sizes, ImageFacts
    DEF ReadItem, TypeOK, BufDomain, Smaller, Carry, Live, Pos, Reading
  <1>2. Window'
    <2> DEFINE last == last_rest_size
               want == wantLen'
    <2>1. /\ want \in Nat /\ 0 < want /\ want <= BufLen
          /\ last \in Nat /\ last <= Spare
          /\ rest = 0 /\ totalReadLen \in Nat
      BY <1>0, ImageFacts, Sizes
      DEF ReadItem, Reading, Carry, Live, TypeOK, Smaller
    <2>2. /\ rest' = last + want /\ sparseOfs' = Spare - last
          /\ last_rest_size' = 0 /\ totalReadLen' = totalReadLen /\ pc' = "parse"
      BY DEF ReadItem
    <2>3. Pos' = totalReadLen - last /\ Pos = totalReadLen - last
      BY <2>1, <2>2 DEF Pos, ReadItem
    <2> HIDE DEF last, want
    <2>4. ASSUME NEW p \in Int, Spare - last <= p, p < Spare + want
          PROVE  buf'[p] = totalReadLen - last + (p - (Spare - last))
      <3>1. p \in BufDomain
        BY <2>1, <2>4, Sizes DEF BufDomain
      <3>2. CASE p < Spare
        <4>1. p \in Spare - last .. Spare - 1 /\ ~(p \in Spare .. Spare + want - 1)
          BY <2>1, <2>4, <3>2, Sizes
        <4>2. buf'[p] = buf[p]
          BY <3>1, <4>1 DEF ReadItem, want
        <4>3. buf[p] = Pos + (p - (Spare - last))
          BY <1>0, <4>1 DEF Carry, Live, ReadItem, last
        <4> QED
          BY <2>3, <4>2, <4>3
      <3>3. CASE p >= Spare
        <4>1. p \in Spare .. Spare + want - 1
          BY <2>1, <2>4, <3>3, Sizes
        <4>2. buf'[p] = totalReadLen + (p - Spare)
          BY <3>1, <4>1 DEF ReadItem, want
        <4> QED
          BY <2>1, <2>4, <4>2, Sizes
      <3> QED
        BY <2>4, <3>2, <3>3, Sizes
    <2>5. \A p \in Spare - last .. Spare + want - 1 :
             buf'[p] = totalReadLen - last + (p - (Spare - last))
      BY <2>1, <2>4, Sizes
    <2>6. \A p \in sparseOfs' .. Spare + wantLen' - 1 : buf'[p] = Pos' + (p - sparseOfs')
      BY <2>2, <2>3, <2>5 DEF want
    <2>7. rest' > 0 /\ sparseOfs' + rest' = Spare + wantLen'
      <3>1. rest' = last + want /\ sparseOfs' = Spare - last /\ want \in Nat /\ 0 < want
        BY <2>1, <2>2
      <3>2. Spare \in Nat /\ last \in Nat
        BY <2>1, Sizes
      <3>3. rest' > 0 /\ sparseOfs' + rest' = Spare + want
        BY <3>1, <3>2
      <3> QED
        BY <3>3 DEF want
    <2> QED
      BY <2>2, <2>6, <2>7 DEF Window
  <1>3. Carry'
    BY <1>0, Sizes
    DEF ReadItem, Carry, Window, Pos, Live, TypeOK, BufDomain
  <1>4. Reading'
    BY <1>0, Sizes, ImageFacts
    DEF ReadItem, Reading, Live, TypeOK, Smaller
  <1>5. Place'
    <2>1. Pos' = Pos
      BY <1>0, ImageFacts, Sizes
      DEF ReadItem, Reading, Carry, Live, TypeOK, Smaller, Pos
    <2>2. /\ Live /\ pc' = "parse" /\ last_rest_size' = 0
          /\ UNCHANGED <<image, fmt, chunk_length, flash_start, handled_chunk, totalReadLen>>
      BY DEF ReadItem, Live
    <2>3. ASSUME fmt = "total_head"
          PROVE  HeaderSize <= rest'
      <3>1. image.size \in Nat /\ HeaderSize <= image.size
        BY <1>0, ImageFacts DEF TypeOK
      <3>2. totalReadLen = 0 /\ last_rest_size = 0
        BY <1>0, <2>2, <2>3 DEF Place
      <3>3. wantLen' = Smaller(BufLen, image.size) /\ rest' = wantLen'
        BY <3>1, <3>2, Sizes DEF ReadItem, Smaller
      <3> QED
        BY <3>1, <3>3, Sizes DEF Smaller
    <2> QED
      BY <1>0, <2>1, <2>2, <2>3 DEF Place
  <1>6. Written'
    BY <1>0, Sizes
    DEF ReadItem, Written, Live, TypeOK
  <1>7. Outcome' /\ FlashFaithful' /\ SuccessComplete'
    BY <1>0
    DEF ReadItem, Outcome, FlashFaithful, SuccessComplete
  <1> QED
    BY <1>1, <1>2, <1>3, <1>4, <1>5, <1>6, <1>7 DEF IInv

\* A failed read ends the download.
LEMMA ReadFailsKeeps ==
    ASSUME IInv, ReadFails
    PROVE  IInv'
  <1>0. TypeOK /\ Window /\ Carry /\ Reading /\ Place /\ Written
        /\ Outcome /\ FlashFaithful /\ SuccessComplete
    BY DEF IInv
  <1>1. TypeOK'
    BY <1>0, Sizes
    DEF ReadFails, parser, TypeOK, BufDomain, Smaller
  <1>2. Window' /\ Carry' /\ Reading' /\ Place' /\ Written'
    BY NothingLive DEF ReadFails, parser
  <1>3. Outcome' /\ FlashFaithful' /\ SuccessComplete'
    BY <1>0
    DEF ReadFails, parser, Outcome, FlashFaithful, SuccessComplete
  <1> QED
    BY <1>1, <1>2, <1>3 DEF IInv

\* The next read starts where the parsed part of the item ends.
LEMMA NextReadKeeps ==
    ASSUME IInv, NextRead
    PROVE  IInv'
  <1>0. TypeOK /\ Window /\ Carry /\ Reading /\ Place /\ Written
        /\ Outcome /\ FlashFaithful /\ SuccessComplete
    BY DEF IInv
  <1>1. TypeOK'
    BY <1>0, Sizes
    DEF NextRead, parser, TypeOK, BufDomain, Smaller
  <1>2. Window'
    BY <1>0, Sizes
    DEF NextRead, parser, Window, Carry, Pos, Live, TypeOK, BufDomain, Smaller
  <1>3. Carry'
    BY <1>0, Sizes
    DEF NextRead, parser, Carry, Window, Pos, Live, TypeOK, BufDomain
  <1>4. Reading'
    BY <1>0, Sizes
    DEF NextRead, parser, Reading, Live, TypeOK, Smaller
  <1>5. Place'
    BY <1>0, Sizes
    DEF NextRead, parser, Place, Live, Pos, TypeOK
  <1>6. Written'
    BY <1>0, Sizes
    DEF NextRead, parser, Written, Live, TypeOK
  <1>7. Outcome' /\ FlashFaithful' /\ SuccessComplete'
    BY <1>0
    DEF NextRead, parser, Outcome, FlashFaithful, SuccessComplete
  <1> QED
    BY <1>1, <1>2, <1>3, <1>4, <1>5, <1>6, <1>7 DEF IInv

\* At the end of a whole item nothing is carried and the last chunk is complete.
LEMMA ItemDoneKeeps ==
    ASSUME IInv, ItemDone
    PROVE  IInv'
  <1>0. TypeOK /\ Window /\ Carry /\ Reading /\ Place /\ Written
        /\ Outcome /\ FlashFaithful /\ SuccessComplete
    BY DEF IInv
  <1>1. TypeOK'
    BY <1>0, Sizes
    DEF ItemDone, parser, TypeOK, BufDomain, Smaller, Reading
  <1>2. Window' /\ Carry' /\ Reading' /\ Place' /\ Written'
    BY NothingLive DEF ItemDone
  <1>3. SuccessComplete'
    <2> SUFFICES ASSUME outcome' = "true", Whole(image)
                 PROVE  flash = image.target
      BY DEF SuccessComplete, ItemDone
    <2> DEFINE N == Len(image.chunks)
               h == handled_chunk
               at == flash_start * Sector
    <2>1. /\ Live /\ pc = "return" /\ totalReadLen + wantLen = image.size
          /\ image.size = image.start[N + 1] /\ image \in Images
          /\ image.size \in Nat /\ N \in Nat /\ h \in 0 .. N
      <3>1. /\ Live /\ pc = "return" /\ image \in Images /\ h \in 0 .. N
            /\ image.size = image.start[N + 1]
            /\ totalReadLen + wantLen >= image.size /\ totalReadLen + wantLen <= image.size
            /\ totalReadLen \in Nat /\ wantLen \in Int
        BY <1>0 DEF ItemDone, Live, Whole, Reading, TypeOK, Place
      <3>2. image.size \in Nat /\ N \in Nat
        BY <3>1, ImageFacts
      <3> QED
        BY <3>1, <3>2
    <2>2. /\ rest = 0 /\ last_rest_size \in Nat
          /\ Pos = image.start[N + 1] - last_rest_size
      BY <1>0, <2>1, Sizes DEF Carry, Pos, TypeOK
    <2>3. h = N /\ at = image.place[N + 1]
      <3>1. ASSUME h # N
            PROVE  /\ h + 1 \in 1 .. N
                   /\ image.start[h + 1] \in Nat
                   /\ image.start[h + 1] + ChunkHeaderSize <= image.start[N + 1]
        <4>1. h + 1 \in 1 .. N
          BY <2>1, <3>1
        <4>2. /\ image.start[h + 1] \in Nat /\ image.start[(h + 1) + 1] \in Nat
              /\ image.start[(h + 1) + 1] = image.start[h + 1] + ChunkHeaderSize
                                             + Payload(image.chunks[h + 1])
              /\ image.start[(h + 1) + 1] <= image.start[N + 1]
          BY <2>1, <4>1, ChunkFacts
        <4>3. Payload(image.chunks[h + 1]) \in Nat
          BY <2>1, <4>1, ChunkFacts, Sizes DEF Payload
        <4>4. image.start[h + 1] + ChunkHeaderSize <= image.start[(h + 1) + 1]
          BY <4>2, <4>3, Sizes
        <4>5. image.start[N + 1] \in Nat
          BY <2>1
        <4> QED
          BY <4>1, <4>2, <4>4, <4>5, Sizes
      <3>2. CASE fmt = "chunk_head"
        <4>1. Pos = image.start[h + 1] /\ at = image.place[h + 1]
              /\ last_rest_size < ChunkHeaderSize
          BY <1>0, <2>1, <3>2 DEF Place, Carry
        <4>2. h = N
          <5> SUFFICES ASSUME h # N PROVE FALSE
            OBVIOUS
          <5>1. image.start[h + 1] \in Nat /\ image.start[N + 1] \in Nat
            BY <2>1, <3>1, ImageFacts
          <5>2. image.start[h + 1] + ChunkHeaderSize <= image.start[N + 1]
            BY <3>1
          <5>3. image.start[h + 1] = image.start[N + 1] - last_rest_size
            BY <2>2, <4>1
          <5>4. last_rest_size \in Nat /\ last_rest_size < ChunkHeaderSize
            BY <2>2, <4>1
          <5> QED
            BY <5>1, <5>2, <5>3, <5>4, Sizes
        <4> QED
          BY <4>1, <4>2
      <3>3. CASE fmt = "fill_data"
        <4>1. /\ h \in 1 .. N /\ image.chunks[h].type = "fill"
              /\ Pos = image.start[h] + ChunkHeaderSize
              /\ last_rest_size < FillSize
          BY <1>0, <2>1, <3>3 DEF Place, Carry
        <4>2. /\ image.start[h] \in Nat /\ image.start[N + 1] \in Nat
              /\ image.start[h] + ChunkHeaderSize + FillSize <= image.start[N + 1]
          BY <2>1, <4>1, ChunkFacts DEF Payload
        <4>3. Pos = image.start[N + 1] - last_rest_size /\ last_rest_size \in Nat
              /\ last_rest_size < FillSize
          BY <2>2, <4>1
        <4>4. image.start[h] + ChunkHeaderSize = image.start[N + 1] - last_rest_size
          BY <4>1, <4>3
        <4>5. \A a, b, c, f, l \in Nat : ~(a + c + f <= b /\ l < f /\ a + c = b - l)
          OBVIOUS
        <4>6. ChunkHeaderSize \in Nat /\ FillSize \in Nat
          BY Sizes
        <4> QED
          BY ONLY <4>2, <4>3, <4>4, <4>5, <4>6
      <3>4. CASE fmt = "chunk_data"
        <4>1. /\ h \in 1 .. N /\ chunk_length \in Nat
              /\ Pos = image.start[h + 1] - chunk_length
              /\ at = image.place[h + 1] - chunk_length
              /\ last_rest_size = 0 \/ last_rest_size < chunk_length
          BY <1>0, <2>1, <3>4 DEF Place, Carry, TypeOK
        <4>2. /\ image.start[h + 1] \in Nat /\ image.place[h + 1] \in Nat
              /\ image.start[h + 1] <= image.start[N + 1] /\ image.start[N + 1] \in Nat
          BY <2>1, <4>1, ChunkFacts
        <4>3. last_rest_size = 0 /\ chunk_length = 0 /\ image.start[h + 1] = image.start[N + 1]
          <5>1. image.start[h + 1] - chunk_length = image.start[N + 1] - last_rest_size
            BY <2>2, <4>1
          <5>2. last_rest_size \in Nat /\ (last_rest_size = 0 \/ last_rest_size < chunk_length)
            BY <2>2, <4>1
          <5>3. chunk_length \in Nat
            BY <4>1
          <5> QED
            BY <4>2, <5>1, <5>2, <5>3
        <4>4. h = N
          BY <2>1, <3>1, <4>2, <4>3, Sizes
        <4> QED
          BY <4>1, <4>2, <4>3, <4>4
      <3>5. fmt # "total_head"
        BY <1>0, <2>1 DEF Place
      <3> QED
        BY <1>0, <3>2, <3>3, <3>4, <3>5 DEF TypeOK
    <2>4. \A a \in Addresses(image) : flash[a] = image.target[a]
      <3>1. Addresses(image) = 0 .. image.place[N + 1] - 1 /\ image.place[N + 1] \in Nat
        BY <2>1, ImageFacts
      <3>2. \A a \in Addresses(image) : a < at
        BY <2>3, <3>1
      <3> QED
        BY <1>0, <2>1, <3>2 DEF Written
    <2>5. /\ flash \in [Addresses(image) -> Nat \cup {None}]
          /\ image.target \in [Addresses(image) -> Nat \cup {None}]
      BY <1>0, <2>1, ImagesAssumption DEF TypeOK, WellFormed, Addresses
    <2> QED
      BY <2>4, <2>5
  <1>4. Outcome' /\ FlashFaithful'
    BY <1>0
    DEF ItemDone, parser, Outcome, FlashFaithful, Reading, TypeOK
  <1> QED
    BY <1>1, <1>2, <1>3, <1>4 DEF IInv

\* Between two items nothing changes but pc.
LEMMA NextItemKeeps ==
    ASSUME IInv, NextItem
    PROVE  IInv'
  <1>0. TypeOK /\ Window /\ Carry /\ Reading /\ Place /\ Written
        /\ Outcome /\ FlashFaithful /\ SuccessComplete
    BY DEF IInv
  <1>1. TypeOK'
    BY <1>0, Sizes
    DEF NextItem, parser, TypeOK, BufDomain, Smaller
  <1>2. Window' /\ Carry' /\ Reading' /\ Place' /\ Written'
    BY NothingLive DEF NextItem, parser
  <1>3. Outcome' /\ FlashFaithful' /\ SuccessComplete'
    BY <1>0
    DEF NextItem, parser, Outcome, FlashFaithful, SuccessComplete
  <1> QED
    BY <1>1, <1>2, <1>3 DEF IInv

\* After the head of the image the first chunk head follows.
LEMMA TotalHeadKeeps ==
    ASSUME IInv, TotalHead
    PROVE  IInv'
  <1>0. TypeOK /\ Window /\ Carry /\ Reading /\ Place /\ Written
        /\ Outcome /\ FlashFaithful /\ SuccessComplete
    BY DEF IInv
  <1>1. TypeOK'
    <2>1. sparseOfs' \in 0 .. Spare + BufLen
      <3>1. rest = totalReadLen + wantLen /\ totalReadLen = 0
        BY <1>0 DEF TotalHead, Place, Live, Pos, TypeOK
      <3> QED
        BY <1>0, <3>1, Sizes DEF TotalHead, Window, TypeOK
    <2> QED
      BY <1>0, <2>1 DEF TotalHead, LoopOn, frame, TypeOK
  <1>2. Window'
    BY <1>0, Sizes
    DEF TotalHead, LoopOn, frame, Window, Carry, Pos, Live, TypeOK, BufDomain, Smaller
  <1>3. Carry'
    <2>1. HeaderSize <= rest /\ last_rest_size = 0
      BY <1>0 DEF TotalHead, Place, Live, Window
    <2> QED
      BY <1>0, <2>1, Sizes
      DEF TotalHead, LoopOn, frame, Carry, Window, Pos, Live, TypeOK
  <1>4. Reading'
    BY <1>0, Sizes
    DEF TotalHead, LoopOn, frame, Reading, Live, TypeOK, Smaller
  <1>5. Place'
    BY <1>0, Sizes, ImageFacts
    DEF TotalHead, LoopOn, frame, Place, Live, Pos, TypeOK, Window
  <1>6. Written'
    BY <1>0, Sizes
    DEF TotalHead, LoopOn, frame, Written, Live, TypeOK
  <1>7. Outcome' /\ FlashFaithful' /\ SuccessComplete'
    BY <1>0
    DEF TotalHead, frame, LoopOn, Outcome, FlashFaithful, SuccessComplete
  <1> QED
    BY <1>1, <1>2, <1>3, <1>4, <1>5, <1>6, <1>7 DEF IInv

\* A cut chunk head is carried over.
LEMMA ChunkHeadShortKeeps ==
    ASSUME IInv, ChunkHeadShort
    PROVE  IInv'
  <1>0. TypeOK /\ Window /\ Carry /\ Reading /\ Place /\ Written
        /\ Outcome /\ FlashFaithful /\ SuccessComplete
    BY DEF IInv
  <1>1. TypeOK'
    BY <1>0, Sizes
    DEF ChunkHeadShort, CarryOver, Carried, Break, frame, TypeOK, BufDomain, Smaller, Window
  <1>2. Window'
    BY <1>0, Sizes
    DEF ChunkHeadShort, CarryOver, Carried, Break, frame, Window, Carry, Pos, Live, TypeOK,
        BufDomain, Smaller
  <1>3. Carry'
    BY <1>0, Sizes
    DEF ChunkHeadShort, CarryOver, Carried, Break, frame, Carry, Window, Pos, Live, TypeOK,
        BufDomain
  <1>4. Reading'
    BY <1>0, Sizes
    DEF ChunkHeadShort, CarryOver, Carried, Break, frame, Reading, Live, TypeOK, Smaller
  <1>5. Place'
    BY <1>0, Sizes, ImageFacts
    DEF ChunkHeadShort, CarryOver, Carried, Break, frame, Place, Live, Pos, TypeOK, Window
  <1>6. Written'
    BY <1>0, Sizes
    DEF ChunkHeadShort, CarryOver, Carried, Break, frame, Written, Live, TypeOK
  <1>7. Outcome' /\ FlashFaithful' /\ SuccessComplete'
    BY <1>0
    DEF ChunkHeadShort, frame, CarryOver, Break, Outcome, FlashFaithful, SuccessComplete
  <1> QED
    BY <1>1, <1>2, <1>3, <1>4, <1>5, <1>6, <1>7 DEF IInv

\* A chunk head moves the parser to the chunk it announces.
LEMMA ChunkHeadKeeps ==
    ASSUME IInv, ChunkHead
    PROVE  IInv'
  <1>0. TypeOK /\ Window /\ Carry /\ Reading /\ Place /\ Written
        /\ Outcome /\ FlashFaithful /\ SuccessComplete
    BY DEF IInv
  <1>1. TypeOK'
    <2> DEFINE i == handled_chunk + 1
    <2>1. /\ i \in 1 .. Len(image.chunks) /\ image \in Images /\ Live
          /\ image.chunks[i].type # "bad" /\ chunk_length' = image.chunks[i].len
          /\ fmt' = CASE image.chunks[i].type = "raw"  -> "chunk_data"
                      [] image.chunks[i].type = "fill" -> "fill_data"
                      [] image.chunks[i].type = "null" -> "chunk_head"
          /\ flash_start' = IF image.chunks[i].type = "null"
                            THEN flash_start + image.chunks[i].len \div Sector
                            ELSE flash_start
          /\ flash_start * Sector = image.place[i] /\ Pos = image.start[i]
      BY <1>0, HeadsSound DEF ChunkHead, TypeOK, Place, Live
    <2>2. /\ image.chunks[i].type \in {"raw", "null", "fill"}
          /\ image.chunks[i].len \in Nat /\ image.chunks[i].len % Sector = 0
          /\ image.start[i] \in Nat
      BY <2>1, ChunkFacts DEF ChunkTypes
    <2>3. flash_start' \in Nat
      BY <1>0, <2>1, <2>2, SectorDiv DEF TypeOK
    <2>4. fmt' \in {"chunk_head", "chunk_data", "fill_data"}
      BY <2>1, <2>2
    <2>5. sparseOfs' \in 0 .. Spare + BufLen
      BY <1>0, Sizes DEF ChunkHead, Window, TypeOK
    <2>6. /\ rest' = rest - ChunkHeaderSize /\ handled_chunk' = handled_chunk + 1
          /\ pc' \in {"parse", "return"}
          /\ UNCHANGED <<frame, flash, buf, last_rest_size, ret>>
      BY DEF ChunkHead, LoopOn
    <2>7. chunk_length' \in Nat
      BY <2>1, <2>2
    <2> QED
      BY <1>0, <2>3, <2>4, <2>5, <2>6, <2>7, Sizes DEF frame, TypeOK
  <1>2. Window'
    <2>1. /\ rest' = rest - ChunkHeaderSize /\ sparseOfs' = sparseOfs + ChunkHeaderSize
          /\ UNCHANGED <<image, totalReadLen, wantLen, buf, last_rest_size>>
          /\ pc = "parse" /\ pc' = IF rest' <= 0 THEN "return" ELSE "parse"
      BY DEF ChunkHead, LoopOn, frame
    <2> QED
      BY <1>0, <2>1, Sizes DEF Window, Pos, TypeOK
  <1>3. Carry'
    <2>1. /\ rest' = rest - ChunkHeaderSize /\ rest >= ChunkHeaderSize
          /\ UNCHANGED <<image, totalReadLen, wantLen, buf, last_rest_size>>
          /\ pc = "parse" /\ pc' = IF rest' <= 0 THEN "return" ELSE "parse"
      BY DEF ChunkHead, LoopOn, frame
    <2> QED
      BY <1>0, <2>1, Sizes DEF Carry, Window, Pos, TypeOK
  <1>4. Reading'
    BY <1>0, Sizes
    DEF ChunkHead, LoopOn, frame, Reading, Live, TypeOK, Smaller
  <1>5. Place'
    <2> DEFINE i == handled_chunk + 1
    <2>1. /\ i \in 1 .. Len(image.chunks) /\ image \in Images /\ Live
          /\ image.chunks[i].type # "bad" /\ chunk_length' = image.chunks[i].len
          /\ fmt' = CASE image.chunks[i].type = "raw"  -> "chunk_data"
                      [] image.chunks[i].type = "fill" -> "fill_data"
                      [] image.chunks[i].type = "null" -> "chunk_head"
          /\ flash_start' = IF image.chunks[i].type = "null"
                            THEN flash_start + image.chunks[i].len \div Sector
                            ELSE flash_start
          /\ flash_start * Sector = image.place[i] /\ Pos = image.start[i]
      BY <1>0, HeadsSound DEF ChunkHead, TypeOK, Place, Live
    <2>2. /\ image.chunks[i].type \in {"raw", "null", "fill"}
          /\ image.chunks[i].len \in Nat /\ image.chunks[i].len % Sector = 0
          /\ image.start[i] \in Nat
      BY <2>1, ChunkFacts DEF ChunkTypes
    <2>3. /\ rest' = rest - ChunkHeaderSize /\ handled_chunk' = i
          /\ UNCHANGED <<image, totalReadLen, wantLen, last_rest_size>>
          /\ pc = "parse" /\ pc' # "read"
      BY DEF ChunkHead, LoopOn, frame
    <2>4. Pos' = image.start[i] + ChunkHeaderSize
      <3>1. Pos' = Pos + ChunkHeaderSize
        BY <1>0, <2>3, Sizes DEF Pos, TypeOK
      <3> QED
        BY <2>1, <3>1
    <2>5. CASE image.chunks[i].type = "raw"
      <3>1. /\ image.start[i + 1] = image.start[i] + ChunkHeaderSize + chunk_length'
            /\ image.place[i + 1] = image.place[i] + chunk_length'
            /\ image.place[i] \in Nat
        BY <2>1, <2>5, ChunkFacts DEF Payload, Span
      <3>2. /\ Pos' = image.start[i + 1] - chunk_length'
            /\ flash_start' * Sector = image.place[i + 1] - chunk_length'
        <4>1. flash_start' = flash_start
          BY <2>1, <2>5
        <4>2. flash_start * Sector = image.place[i]
          BY <2>1
        <4>3. chunk_length' \in Nat /\ image.start[i] \in Nat
          BY <2>1, <2>2
        <4>4. Pos' = image.start[i + 1] - chunk_length'
          BY <2>4, <3>1, <4>3, Sizes
        <4>5. image.place[i] = image.place[i + 1] - chunk_length'
          BY <3>1, <4>3
        <4> QED
          BY <4>1, <4>2, <4>4, <4>5
      <3> QED
        BY <1>0, <2>1, <2>2, <2>3, <2>5, <3>2 DEF Place
    <2>6. CASE image.chunks[i].type = "fill"
      BY <1>0, <2>1, <2>2, <2>3, <2>4, <2>6 DEF Place
    <2>7. CASE image.chunks[i].type = "null"
      <3>1. flash_start' * Sector = image.place[i + 1]
        BY <1>0, <2>1, <2>7, SkipChunk
      <3>2. image.start[i + 1] = image.start[i] + ChunkHeaderSize
        <4>1. image.start[i + 1] = image.start[i] + ChunkHeaderSize + 0
          BY <2>1, <2>7, ChunkFacts DEF Payload
        <4> QED
          BY <2>2, <4>1, Sizes
      <3> QED
        BY <1>0, <2>1, <2>2, <2>3, <2>4, <2>7, <3>1, <3>2 DEF Place
    <2> QED
      BY <2>2, <2>5, <2>6, <2>7
  <1>6. Written'
    <2> DEFINE i == handled_chunk + 1
    <2>1. /\ i \in 1 .. Len(image.chunks) /\ image \in Images /\ Live
          /\ image.chunks[i].type # "bad" /\ chunk_length' = image.chunks[i].len
          /\ fmt' = CASE image.chunks[i].type = "raw"  -> "chunk_data"
                      [] image.chunks[i].type = "fill" -> "fill_data"
                      [] image.chunks[i].type = "null" -> "chunk_head"
          /\ flash_start' = IF image.chunks[i].type = "null"
                            THEN flash_start + image.chunks[i].len \div Sector
                            ELSE flash_start
          /\ flash_start * Sector = image.place[i] /\ Pos = image.start[i]
      BY <1>0, HeadsSound DEF ChunkHead, TypeOK, Place, Live
    <2>2. /\ image.chunks[i].type \in {"raw", "null", "fill"}
          /\ image.chunks[i].len \in Nat /\ image.chunks[i].len % Sector = 0
          /\ image.start[i] \in Nat
      BY <2>1, ChunkFacts DEF ChunkTypes
    <2>3. UNCHANGED <<image, flash>>
      BY DEF ChunkHead, frame
    <2>4. CASE image.chunks[i].type = "null"
      BY <1>0, <2>1, <2>3, <2>4, SkipChunk DEF Written
    <2>5. CASE image.chunks[i].type # "null"
      BY <1>0, <2>1, <2>3, <2>5 DEF Written
    <2> QED
      BY <2>4, <2>5
  <1>7. Outcome' /\ FlashFaithful' /\ SuccessComplete'
    BY <1>0
    DEF ChunkHead, frame, LoopOn, Outcome, FlashFaithful, SuccessComplete
  <1> QED
    BY <1>1, <1>2, <1>3, <1>4, <1>5, <1>6, <1>7 DEF IInv

\* A bad chunk ends the download.
LEMMA ChunkHeadBadKeeps ==
    ASSUME IInv, ChunkHeadBad
    PROVE  IInv'
  <1>0. TypeOK /\ Window /\ Carry /\ Reading /\ Place /\ Written
        /\ Outcome /\ FlashFaithful /\ SuccessComplete
    BY DEF IInv
  <1>1. TypeOK'
    <2>1. chunk_length' \in Nat
      <3>1. /\ handled_chunk + 1 \in 1 .. Len(image.chunks) /\ image \in Images
            /\ chunk_length' = image.chunks[handled_chunk + 1].len
        BY <1>0, HeadsSound DEF ChunkHeadBad, TypeOK
      <3> QED
        BY <3>1, ChunkFacts
    <2>2. sparseOfs' \in 0 .. Spare + BufLen
      BY <1>0, Sizes DEF ChunkHeadBad, Window, TypeOK
    <2> QED
      BY <1>0, <2>1, <2>2 DEF ChunkHeadBad, Break, frame, TypeOK
  <1>2. Window' /\ Carry' /\ Reading' /\ Place' /\ Written'
    BY NothingLive DEF ChunkHeadBad, Break
  <1>3. Outcome' /\ FlashFaithful' /\ SuccessComplete'
    BY <1>0
    DEF ChunkHeadBad, Break, frame, Outcome, FlashFaithful, SuccessComplete
  <1> QED
    BY <1>1, <1>2, <1>3 DEF IInv

\* The pattern of a fill chunk is skipped, and its place stays blank.
LEMMA FillDataKeeps ==
    ASSUME IInv, FillData
    PROVE  IInv'
  <1>0. TypeOK /\ Window /\ Carry /\ Reading /\ Place /\ Written
        /\ Outcome /\ FlashFaithful /\ SuccessComplete
    BY DEF IInv
  <1>1. TypeOK'
    BY <1>0, Sizes
    DEF FillData, LoopOn, frame, TypeOK, BufDomain, Smaller, Window
  <1>2. Window'
    BY <1>0, Sizes
    DEF FillData, LoopOn, frame, Window, Carry, Pos, Live, TypeOK, BufDomain, Smaller
  <1>3. Carry'
    BY <1>0, Sizes
    DEF FillData, LoopOn, frame, Carry, Window, Pos, Live, TypeOK, BufDomain
  <1>4. Reading'
    BY <1>0, Sizes
    DEF FillData, LoopOn, frame, Reading, Live, TypeOK, Smaller
  <1>5. Place'
    <2> DEFINE h == handled_chunk
    <2>1. /\ Live /\ h \in 1 .. Len(image.chunks) /\ image \in Images
          /\ image.chunks[h].type = "fill" /\ chunk_length = image.chunks[h].len
          /\ Pos = image.start[h] + ChunkHeaderSize
          /\ flash_start * Sector = image.place[h]
      BY <1>0, ImageFacts DEF FillData, Live, Place, TypeOK
    <2>2. /\ image.start[h + 1] = image.start[h] + ChunkHeaderSize + FillSize
          /\ image.start[h] \in Nat
      BY <2>1, ChunkFacts DEF Payload
    <2>3. flash_start' * Sector = image.place[h + 1]
      BY <1>0, <2>1, SkipChunk DEF FillData
    <2>4. Pos' = image.start[h + 1]
      <3>1. Pos' = Pos + FillSize
        BY <1>0, Sizes DEF FillData, LoopOn, frame, Pos, TypeOK
      <3> QED
        BY <2>1, <2>2, <3>1, Sizes
    <2> QED
      BY <1>0, <2>1, <2>3, <2>4 DEF FillData, frame, Place
  <1>6. Written'
    <2>1. /\ Live /\ handled_chunk \in 1 .. Len(image.chunks)
          /\ image.chunks[handled_chunk].type = "fill"
          /\ chunk_length = image.chunks[handled_chunk].len
          /\ flash_start * Sector = image.place[handled_chunk]
      BY <1>0, ImageFacts DEF FillData, Live, Place, TypeOK
    <2>2. \A a \in Addresses(image) :
             flash[a] = IF a < flash_start' * Sector THEN image.target[a] ELSE None
      BY <1>0, <2>1, SkipChunk DEF FillData
    <2> QED
      BY <2>2 DEF Written, FillData, frame
  <1>7. Outcome' /\ FlashFaithful' /\ SuccessComplete'
    BY <1>0
    DEF FillData, frame, LoopOn, Outcome, FlashFaithful, SuccessComplete
  <1> QED
    BY <1>1, <1>2, <1>3, <1>4, <1>5, <1>6, <1>7 DEF IInv

\* A cut fill pattern is carried over.
LEMMA FillShortKeeps ==
    ASSUME IInv, FillShort
    PROVE  IInv'
  <1>0. TypeOK /\ Window /\ Carry /\ Reading /\ Place /\ Written
        /\ Outcome /\ FlashFaithful /\ SuccessComplete
    BY DEF IInv
  <1>1. TypeOK'
    BY <1>0, Sizes
    DEF FillShort, LoopOn, CarryOver, Carried, frame, TypeOK, BufDomain, Smaller, Window
  <1>2. Window'
    BY <1>0, Sizes
    DEF FillShort, LoopOn, CarryOver, Carried, frame, Window, Carry, Pos, Live, TypeOK, BufDomain,
        Smaller
  <1>3. Carry'
    BY <1>0, Sizes
    DEF FillShort, LoopOn, CarryOver, Carried, frame, Carry, Window, Pos, Live, TypeOK, BufDomain
  <1>4. Reading'
    BY <1>0, Sizes
    DEF FillShort, LoopOn, CarryOver, Carried, frame, Reading, Live, TypeOK, Smaller
  <1>5. Place'
    BY <1>0, Sizes, ImageFacts
    DEF FillShort, LoopOn, CarryOver, Carried, frame, Place, Live, Pos, TypeOK, Window
  <1>6. Written'
    BY <1>0, Sizes
    DEF FillShort, LoopOn, CarryOver, Carried, frame, Written, Live, TypeOK
  <1>7. Outcome' /\ FlashFaithful' /\ SuccessComplete'
    BY <1>0
    DEF FillShort, LoopOn, frame, CarryOver, Outcome, FlashFaithful, SuccessComplete
  <1> QED
    BY <1>1, <1>2, <1>3, <1>4, <1>5, <1>6, <1>7 DEF IInv

\* The rest of a raw chunk is programmed and the next head follows.
LEMMA ChunkDataWholeKeeps ==
    ASSUME IInv, ChunkDataWhole
    PROVE  IInv'
  <1>0. TypeOK /\ Window /\ Carry /\ Reading /\ Place /\ Written
        /\ Outcome /\ FlashFaithful /\ SuccessComplete
    BY DEF IInv
  <1>1. TypeOK'
    <2> DEFINE n == chunk_length
    <2>1. /\ n \in Nat /\ n <= chunk_length /\ n <= rest /\ n % Sector = 0
          /\ pc = "parse" /\ fmt = "chunk_data" /\ Live
          /\ chunk_length \in Nat /\ chunk_length % Sector = 0 /\ flash_start \in Nat
      BY <1>0 DEF ChunkDataWhole, Live, Place, TypeOK
    <2>2. flash' \in [Addresses(image) -> Nat \cup {None}]
      BY <1>0, <2>1, ProgramPrefix DEF ChunkDataWhole
    <2>3. flash_start' \in Nat
      BY <2>1, SectorAdd DEF ChunkDataWhole
    <2>4. sparseOfs' \in 0 .. Spare + BufLen
      BY <1>0, <2>1, Sizes DEF ChunkDataWhole, Window, TypeOK
    <2> QED
      BY <1>0, <2>2, <2>3, <2>4 DEF ChunkDataWhole, LoopOn, frame, TypeOK
  <1>2. Window'
    BY <1>0, Sizes
    DEF ChunkDataWhole, LoopOn, frame, Window, Carry, Pos, Live, TypeOK, BufDomain, Smaller
  <1>3. Carry'
    BY <1>0, Sizes
    DEF ChunkDataWhole, LoopOn, frame, Carry, Window, Pos, Live, TypeOK, BufDomain
  <1>4. Reading'
    BY <1>0, Sizes
    DEF ChunkDataWhole, LoopOn, frame, Reading, Live, TypeOK, Smaller
  <1>5. Place'
    <2> DEFINE n == chunk_length
    <2>1. /\ n \in Nat /\ n <= chunk_length /\ n <= rest /\ n % Sector = 0
          /\ pc = "parse" /\ fmt = "chunk_data" /\ Live
          /\ chunk_length \in Nat /\ chunk_length % Sector = 0 /\ flash_start \in Nat
      BY <1>0 DEF ChunkDataWhole, Live, Place, TypeOK
    <2>2. /\ handled_chunk \in 0 .. Len(image.chunks)
          /\ Pos = image.start[handled_chunk + 1] - chunk_length
          /\ flash_start * Sector = image.place[handled_chunk + 1] - chunk_length
          /\ image.start[handled_chunk + 1] \in Nat /\ image.place[handled_chunk + 1] \in Nat
      BY <1>0, <2>1, ImageFacts DEF Place, TypeOK
    <2>3. flash_start' * Sector = image.place[handled_chunk + 1]
      <3>1. flash_start' * Sector = flash_start * Sector + chunk_length
        BY <2>1, SectorAdd DEF ChunkDataWhole
      <3> QED
        BY <2>1, <2>2, <3>1
    <2>4. Pos' = image.start[handled_chunk + 1]
      <3>1. Pos' = Pos + chunk_length
        BY <1>0, <2>1 DEF ChunkDataWhole, LoopOn, frame, Pos, TypeOK
      <3> QED
        BY <2>1, <2>2, <3>1
    <2> QED
      BY <2>2, <2>3, <2>4 DEF ChunkDataWhole, frame, Place
  <1>6. Written'
    <2> DEFINE n == chunk_length
    <2>1. /\ n \in Nat /\ n <= chunk_length /\ n <= rest /\ n % Sector = 0
          /\ pc = "parse" /\ fmt = "chunk_data" /\ Live
          /\ chunk_length \in Nat /\ chunk_length % Sector = 0 /\ flash_start \in Nat
      BY <1>0 DEF ChunkDataWhole, Live, Place, TypeOK
    <2>2. flash_start' * Sector = flash_start * Sector + n
      BY <2>1, SectorAdd DEF ChunkDataWhole
    <2>3. flash' = Programmed(n) /\ UNCHANGED image
      BY DEF ChunkDataWhole, frame
    <2> QED
      BY <1>0, <2>1, <2>2, <2>3, ProgramPrefix DEF Written
  <1>7. FlashFaithful'
    <2> DEFINE n == chunk_length
    <2>1. /\ n \in Nat /\ n <= chunk_length /\ n <= rest /\ n % Sector = 0
          /\ pc = "parse" /\ fmt = "chunk_data" /\ Live
          /\ chunk_length \in Nat /\ chunk_length % Sector = 0 /\ flash_start \in Nat
      BY <1>0 DEF ChunkDataWhole, Live, Place, TypeOK
    <2>2. \A a \in Addresses(image) : Programmed(n)[a] \in {None, image.target[a]}
      BY <1>0, <2>1, ProgramPrefix
    <2>3. flash' = Programmed(n) /\ UNCHANGED image
      BY DEF ChunkDataWhole, frame
    <2> QED
      BY <2>2, <2>3 DEF FlashFaithful
  <1>8. Outcome' /\ SuccessComplete'
    BY <1>0
    DEF ChunkDataWhole, frame, LoopOn, Outcome, SuccessComplete
  <1> QED
    BY <1>1, <1>2, <1>3, <1>4, <1>5, <1>6, <1>7, <1>8 DEF IInv

\* Too little raw data is carried over.
LEMMA ChunkDataShortKeeps ==
    ASSUME IInv, ChunkDataShort
    PROVE  IInv'
  <1>0. TypeOK /\ Window /\ Carry /\ Reading /\ Place /\ Written
        /\ Outcome /\ FlashFaithful /\ SuccessComplete
    BY DEF IInv
  <1>1. TypeOK'
    BY <1>0, Sizes
    DEF ChunkDataShort, CarryOver, Carried, Break, frame, TypeOK, BufDomain, Smaller, Window
  <1>2. Window'
    BY <1>0, Sizes
    DEF ChunkDataShort, CarryOver, Carried, Break, frame, Window, Carry, Pos, Live, TypeOK,
        BufDomain, Smaller
  <1>3. Carry'
    BY <1>0, Sizes
    DEF ChunkDataShort, CarryOver, Carried, Break, frame, Carry, Window, Pos, Live, TypeOK,
        BufDomain
  <1>4. Reading'
    BY <1>0, Sizes
    DEF ChunkDataShort, CarryOver, Carried, Break, frame, Reading, Live, TypeOK, Smaller
  <1>5. Place'
    BY <1>0, Sizes, ImageFacts
    DEF ChunkDataShort, CarryOver, Carried, Break, frame, Place, Live, Pos, TypeOK, Window
  <1>6. Written'
    BY <1>0, Sizes
    DEF ChunkDataShort, CarryOver, Carried, Break, frame, Written, Live, TypeOK
  <1>7. Outcome' /\ FlashFaithful' /\ SuccessComplete'
    BY <1>0
    DEF ChunkDataShort, frame, CarryOver, Break, Outcome, FlashFaithful, SuccessComplete
  <1> QED
    BY <1>1, <1>2, <1>3, <1>4, <1>5, <1>6, <1>7 DEF IInv

\* Part of a raw chunk is programmed, the rest is carried over.
LEMMA ChunkDataPartKeeps ==
    ASSUME IInv, ChunkDataPart
    PROVE  IInv'
  <1>0. TypeOK /\ Window /\ Carry /\ Reading /\ Place /\ Written
        /\ Outcome /\ FlashFaithful /\ SuccessComplete
    BY DEF IInv
  <1>1. TypeOK'
    <2> DEFINE n == DownLen
    <2>1. /\ n \in Nat /\ n <= chunk_length /\ n <= rest /\ n % Sector = 0
          /\ pc = "parse" /\ fmt = "chunk_data" /\ Live
          /\ chunk_length \in Nat /\ chunk_length % Sector = 0 /\ flash_start \in Nat
      BY <1>0, DownLenFacts DEF ChunkDataPart, LoopOn, Live, Place, TypeOK
    <2>2. flash' \in [Addresses(image) -> Nat \cup {None}]
      BY <1>0, <2>1, ProgramPrefix DEF ChunkDataPart, LoopOn
    <2>3. flash_start' \in Nat
      BY <2>1, SectorAdd DEF ChunkDataPart, LoopOn
    <2>4. last_rest_size' = rest - n /\ rest - n \in 0 .. Small /\ rest \in Nat
      BY <1>0, <2>1, DownLenFacts DEF ChunkDataPart, LoopOn, Place, Live, TypeOK
    <2>5. sparseOfs' \in 0 .. Spare + BufLen /\ sparseOfs' + (rest - n) = Spare + wantLen
          /\ wantLen \in 0 .. BufLen
      BY <1>0, <2>1, <2>4, Sizes DEF ChunkDataPart, LoopOn, Window, TypeOK
    <2>6. buf' \in [BufDomain -> Nat \cup {None}]
      <3>1. ASSUME NEW p \in Spare - (rest - n) .. Spare - 1
            PROVE  sparseOfs' + (p - (Spare - (rest - n))) \in BufDomain
        BY <2>4, <2>5, Sizes DEF BufDomain
      <3> HIDE DEF n
      <3> QED
        BY <1>0, <2>4, <3>1 DEF ChunkDataPart, LoopOn, TypeOK
    <2>7. chunk_length' = chunk_length - n
      BY DEF ChunkDataPart, LoopOn
    <2> HIDE DEF n
    <2> QED
      BY <1>0, <2>1, <2>2, <2>3, <2>4, <2>5, <2>6, <2>7, Sizes
         DEF ChunkDataPart, LoopOn, frame, TypeOK
  <1>2. Window'
    BY <1>0, Sizes
    DEF ChunkDataPart, LoopOn, frame, Window, Carry, Pos, Live, TypeOK, BufDomain, Smaller
  <1>3. Carry'
    <2> DEFINE n == DownLen
    <2>1. /\ n \in Nat /\ n <= chunk_length /\ n <= rest /\ n % Sector = 0
          /\ pc = "parse" /\ fmt = "chunk_data" /\ Live
          /\ chunk_length \in Nat /\ chunk_length % Sector = 0 /\ flash_start \in Nat
      BY <1>0, DownLenFacts DEF ChunkDataPart, LoopOn, Live, Place, TypeOK
    <2>2. /\ rest - n \in 0 .. Small /\ rest \in Nat /\ rest < chunk_length
          /\ sparseOfs \in Nat /\ sparseOfs + rest = Spare + wantLen /\ wantLen \in Nat
          /\ last_rest_size = 0
          /\ totalReadLen \in Nat
      BY <1>0, <2>1, DownLenFacts DEF ChunkDataPart, LoopOn, Place, Live, TypeOK, Window
    <2>3. /\ last_rest_size' = rest - n /\ rest' = 0 /\ sparseOfs' = sparseOfs + n
          /\ chunk_length' = chunk_length - n /\ pc' = "return"
          /\ UNCHANGED <<totalReadLen, wantLen, fmt>>
          /\ buf' = [p \in BufDomain |-> IF p \in Spare - (rest - n) .. Spare - 1
                                         THEN buf[sparseOfs + n + (p - (Spare - (rest - n)))]
                                         ELSE buf[p]]
      BY DEF ChunkDataPart, LoopOn, frame
    <2> HIDE DEF n
    <2>4. Pos' = Pos + n
      BY <2>1, <2>2, <2>3 DEF Pos
    <2>5. ASSUME NEW p \in Spare - (rest - n) .. Spare - 1
          PROVE  buf'[p] = Pos' + (p - (Spare - (rest - n)))
      <3>1. p \in BufDomain
        BY <2>1, <2>2, Sizes DEF BufDomain
      <3> DEFINE r == sparseOfs + n + (p - (Spare - (rest - n)))
      <3>2. r \in sparseOfs .. Spare + wantLen - 1
        BY <2>1, <2>2, Sizes
      <3>3. buf[r] = Pos + (r - sparseOfs)
        BY <1>0, <2>1, <3>2 DEF Window
      <3>4. buf'[p] = buf[r]
        BY <2>3, <3>1
      <3>5. Pos \in Int
        BY <2>1, <2>2 DEF Pos, TypeOK
      <3> QED
        BY <2>1, <2>2, <2>4, <3>3, <3>4, <3>5, Sizes
    <2>6. last_rest_size' < chunk_length'
      BY <2>1, <2>2, <2>3
    <2> QED
      BY <2>1, <2>2, <2>3, <2>5, <2>6 DEF Carry
  <1>4. Reading'
    BY <1>0, Sizes
    DEF ChunkDataPart, LoopOn, frame, Reading, Live, TypeOK, Smaller
  <1>5. Place'
    <2> DEFINE n == DownLen
    <2>1. /\ n \in Nat /\ n <= chunk_length /\ n <= rest /\ n % Sector = 0
          /\ pc = "parse" /\ fmt = "chunk_data" /\ Live
          /\ chunk_length \in Nat /\ chunk_length % Sector = 0 /\ flash_start \in Nat
      BY <1>0, DownLenFacts DEF ChunkDataPart, LoopOn, Live, Place, TypeOK
    <2>2. /\ handled_chunk \in 0 .. Len(image.chunks) /\ handled_chunk > 0
          /\ Pos = image.start[handled_chunk + 1] - chunk_length
          /\ flash_start * Sector = image.place[handled_chunk + 1] - chunk_length
          /\ image.start[handled_chunk + 1] \in Nat /\ image.place[handled_chunk + 1] \in Nat
          /\ image.chunks[handled_chunk].type = "raw"
          /\ chunk_length <= image.chunks[handled_chunk].len
          /\ image.chunks[handled_chunk].len \in Nat
      <3>1. /\ handled_chunk \in 0 .. Len(image.chunks) /\ handled_chunk > 0
            /\ Pos = image.start[handled_chunk + 1] - chunk_length
            /\ flash_start * Sector = image.place[handled_chunk + 1] - chunk_length
            /\ image.chunks[handled_chunk].type = "raw"
            /\ chunk_length <= image.chunks[handled_chunk].len
            /\ image \in Images
        BY <1>0, <2>1 DEF Place, TypeOK
      <3>2. handled_chunk \in 1 .. Len(image.chunks)
        BY <1>0, <2>1, OpenImage, <3>1
      <3> QED
        BY <3>1, <3>2, ChunkFacts
    <2>3. /\ last_rest_size' = rest - n /\ rest' = 0 /\ last_rest_size = 0 /\ rest \in Int
          /\ chunk_length' = chunk_length - n /\ pc' = "return"
          /\ flash_start' = flash_start + n \div Sector
          /\ UNCHANGED <<image, totalReadLen, wantLen, fmt, handled_chunk>>
          /\ totalReadLen \in Nat /\ wantLen \in Nat
      BY <1>0 DEF ChunkDataPart, LoopOn, frame, Window, TypeOK
    <2> HIDE DEF n
    <2>4. chunk_length' % Sector = 0 /\ chunk_length' \in Nat
          /\ chunk_length' <= image.chunks[handled_chunk].len
      <3>1. (chunk_length - n) % Sector = 0
        BY <2>1, SectorSub
      <3>2. chunk_length - n \in Nat /\ chunk_length - n <= chunk_length
        BY <2>1
      <3>3. chunk_length - n <= image.chunks[handled_chunk].len
        BY <2>1, <2>2, <3>2
      <3> QED
        BY <2>3, <3>1, <3>2, <3>3
    <2>5. flash_start' * Sector = image.place[handled_chunk + 1] - chunk_length'
      <3> DEFINE x == flash_start * Sector
                 y == flash_start' * Sector
                 q == image.place[handled_chunk + 1]
      <3>1. y = x + n
        BY <2>1, <2>3, SectorAdd
      <3>2. x = q - chunk_length /\ q \in Nat /\ chunk_length \in Nat /\ n \in Nat
        BY <2>1, <2>2
      <3> HIDE DEF x, y, q
      <3>3. y = q - (chunk_length - n)
        BY <3>1, <3>2
      <3> QED
        BY <2>3, <3>3 DEF y, q
    <2>6. Pos' = image.start[handled_chunk + 1] - chunk_length'
      <3>1. Pos' = Pos + n
        BY <2>1, <2>3 DEF Pos
      <3> QED
        BY <2>1, <2>2, <2>3, <3>1
    <2> QED
      BY <2>1, <2>2, <2>3, <2>4, <2>5, <2>6 DEF Place
  <1>6. Written'
    <2> DEFINE n == DownLen
    <2>1. /\ n \in Nat /\ n <= chunk_length /\ n <= rest /\ n % Sector = 0
          /\ pc = "parse" /\ fmt = "chunk_data" /\ Live
          /\ chunk_length \in Nat /\ chunk_length % Sector = 0 /\ flash_start \in Nat
      BY <1>0, DownLenFacts DEF ChunkDataPart, LoopOn, Live, Place, TypeOK
    <2>2. flash_start' * Sector = flash_start * Sector + n
      BY <2>1, SectorAdd DEF ChunkDataPart, LoopOn
    <2>3. flash' = Programmed(n) /\ UNCHANGED image
      BY DEF ChunkDataPart, LoopOn, frame
    <2> HIDE DEF n
    <2> QED
      BY <1>0, <2>1, <2>2, <2>3, ProgramPrefix DEF Written
  <1>7. FlashFaithful'
    <2> DEFINE n == DownLen
    <2>1. /\ n \in Nat /\ n <= chunk_length /\ n <= rest /\ n % Sector = 0
          /\ pc = "parse" /\ fmt = "chunk_data" /\ Live
          /\ chunk_length \in Nat /\ chunk_length % Sector = 0 /\ flash_start \in Nat
      BY <1>0, DownLenFacts DEF ChunkDataPart, LoopOn, Live, Place, TypeOK
    <2>2. \A a \in Addresses(image) : Programmed(n)[a] \in {None, image.target[a]}
      BY <1>0, <2>1, ProgramPrefix
    <2>3. flash' = Programmed(n) /\ UNCHANGED image
      BY DEF ChunkDataPart, LoopOn, frame
    <2> QED
      BY <2>2, <2>3 DEF FlashFaithful
  <1>8. Outcome' /\ SuccessComplete'
    BY <1>0
    DEF ChunkDataPart, LoopOn, frame, Outcome, SuccessComplete
  <1> QED
    BY <1>1, <1>2, <1>3, <1>4, <1>5, <1>6, <1>7, <1>8 DEF IInv

\* A failed transfer programs a prefix and ends the download.
LEMMA ChunkDataFailsKeeps ==
    ASSUME IInv, ChunkDataFails
    PROVE  IInv'
  <1>0. TypeOK /\ Window /\ Carry /\ Reading /\ Place /\ Written
        /\ Outcome /\ FlashFaithful /\ SuccessComplete
    BY DEF IInv
  <1>1. TypeOK'
    <2>1. PICK n \in Nat : /\ n <= chunk_length /\ n <= rest
                          /\ flash' = Programmed(n)
      BY <1>0, FailedPrefix
    <2>2. pc = "parse" /\ fmt = "chunk_data" /\ UNCHANGED image
      BY DEF ChunkDataFails
    <2>3. flash' \in [Addresses(image) -> Nat \cup {None}]
      BY <1>0, <2>1, <2>2, ProgramPrefix
    <2> QED
      BY <1>0, <2>2, <2>3 DEF ChunkDataFails, Break, parser, TypeOK
  <1>2. Window' /\ Carry' /\ Reading' /\ Place' /\ Written'
    BY NothingLive DEF ChunkDataFails, parser, Break
  <1>3. FlashFaithful'
    <2>1. PICK n \in Nat : /\ n <= chunk_length /\ n <= rest
                          /\ flash' = Programmed(n)
      BY <1>0, FailedPrefix
    <2>2. pc = "parse" /\ fmt = "chunk_data" /\ UNCHANGED image
      BY DEF ChunkDataFails
    <2>3. \A a \in Addresses(image) : Programmed(n)[a] \in {None, image.target[a]}
      BY <1>0, <2>1, <2>2, ProgramPrefix
    <2> QED
      BY <2>1, <2>2, <2>3 DEF FlashFaithful
  <1>4. Outcome' /\ SuccessComplete'
    BY <1>0
    DEF ChunkDataFails, parser, Break, Outcome, SuccessComplete
  <1> QED
    BY <1>1, <1>2, <1>3, <1>4 DEF IInv

------------------------------------------------------------------------------
(* The invariants of the specification *)

\* The inductive invariant holds before the first item.
LEMMA InitInv == Init => IInv
  <1> SUFFICES ASSUME Init
               PROVE  IInv
    OBVIOUS
  <1>1. image \in Images
    BY ImagesAssumption DEF Init
  <1>2. TypeOK
    <2>1. flash \in [Addresses(image) -> Nat \cup {None}]
      BY <1>1, BlankFacts DEF Init
    <2>2. buf \in [BufDomain -> Nat \cup {None}]
      BY DEF Init
    <2>3. /\ 0 \in 0 .. BufLen /\ Spare \in 0 .. Spare + BufLen
          /\ 0 \in 0 .. Spare /\ 0 \in 0 .. MaxItems
      BY Sizes
    <2>4. /\ outcome = "idle" /\ pc = "idle" /\ totalReadLen = 0 /\ wantLen = 0
          /\ sparseOfs = Spare /\ rest = 0 /\ fmt = "total_head" /\ chunk_length = 0
          /\ flash_start = 0 /\ last_rest_size = 0 /\ handled_chunk = 0
          /\ ret \in {"unset", "true", "false"} /\ items = 0 /\ held = {}
      BY DEF Init
    <2>5. /\ outcome \in {"idle", "none", "true", "false", "error"}
          /\ pc \in {"idle", "read", "parse", "return", "done"}
          /\ fmt \in {"total_head", "chunk_head", "chunk_data", "fill_data"}
          /\ ret \in {"unset", "true", "false"}
      BY <2>4
    <2>6. /\ denied \in BOOLEAN /\ found \in {"unset", "true", "false"}
          /\ held \subseteq {"item", "buffer"}
      BY DEF Init
    <2>7. /\ totalReadLen \in Nat /\ wantLen \in 0 .. BufLen
          /\ sparseOfs \in 0 .. Spare + BufLen /\ rest \in Int
          /\ chunk_length \in Nat /\ flash_start \in Nat
          /\ last_rest_size \in 0 .. Spare /\ handled_chunk \in Nat
          /\ items \in 0 .. MaxItems
      BY <2>3, <2>4
    <2> HIDE DEF BufDomain
    <2> QED
      BY <1>1, <2>1, <2>2, <2>5, <2>6, <2>7, Zenon DEF TypeOK
  <1>3. Window /\ Carry /\ Reading /\ Place /\ Written /\ Outcome
    BY DEF Init, Window, Carry, Reading, Place, Written, Outcome, Live
  <1>4. FlashFaithful /\ SuccessComplete
    BY <1>1, BlankFacts DEF Init, FlashFaithful, SuccessComplete
  <1> QED
    BY <1>2, <1>3, <1>4 DEF IInv

\* Every step, and stuttering, keeps it.
LEMMA NextInv == IInv /\ [Next]_vars => IInv'
  <1> SUFFICES ASSUME IInv, [Next]_vars
               PROVE  IInv'
    OBVIOUS
  <1>1. ASSUME NEW im \in Images, OpenItem(im) \/ RefuseItem(im) \/ NoBuffer(im)
        PROVE  IInv'
    BY <1>1, OpenItemKeeps, RefuseItemKeeps, NoBufferKeeps
  <1>2. CASE ReadItem \/ ReadFails \/ NextRead \/ ItemDone \/ NextItem
    BY <1>2, ReadItemKeeps, ReadFailsKeeps, NextReadKeeps, ItemDoneKeeps, NextItemKeeps
  <1>3. CASE Parse
    BY <1>3, TotalHeadKeeps, ChunkHeadShortKeeps, ChunkHeadKeeps, ChunkHeadBadKeeps,
       FillDataKeeps, FillShortKeeps, ChunkDataWholeKeeps, ChunkDataShortKeeps,
       ChunkDataPartKeeps, ChunkDataFailsKeeps
    DEF Parse
  <1>4. CASE UNCHANGED vars
    BY <1>4 DEF vars, IInv, TypeOK, Window, Carry, Reading, Place, Written, Outcome,
       FlashFaithful, SuccessComplete, Live, Pos
  <1> QED
    BY <1>1, <1>2, <1>3, <1>4 DEF Next, Download

\* The bytes carried, the parser's state and the flash address always agree with one
\* position in the item (IInv), whatever the images and the sizes of the buffer are.
THEOREM Invariance == Spec => []IInv
  BY InitInv, NextInv, PTL DEF Spec

\* Types: buffer offsets stay in the buffer, the carried rest in the spare area.
THEOREM TypeCorrect == Spec => []TypeOK
  <1>1. IInv => TypeOK
    BY DEF IInv
  <1> QED
    BY <1>1, Invariance, PTL

\* For all images and buffer sizes, no byte of the partition is ever wrong.
THEOREM FaithfulFlash == Spec => []FlashFaithful
  <1>1. IInv => FlashFaithful
    BY DEF IInv
  <1> QED
    BY <1>1, Invariance, PTL

\* For all images and buffer sizes, success on a whole image means all of it.
THEOREM CompleteOnSuccess == Spec => []SuccessComplete
  <1>1. IInv => SuccessComplete
    BY DEF IInv
  <1> QED
    BY <1>1, Invariance, PTL

\* The parser decodes chunk heads only where the image has them.
THEOREM ParserInSync == Spec => []HeadInSync
  <1>1. IInv => HeadInSync
    <2> SUFFICES ASSUME IInv, pc = "parse", fmt = "chunk_head", rest >= ChunkHeaderSize
                 PROVE  /\ handled_chunk < Len(image.chunks)
                        /\ \A k \in 0 .. ChunkHeaderSize - 1 :
                              buf[sparseOfs + k] = image.start[handled_chunk + 1] + k
      BY DEF HeadInSync
    <2>1. TypeOK /\ Window /\ Reading /\ Place
      BY DEF IInv
    <2>2. /\ handled_chunk + 1 \in 1 .. Len(image.chunks)
          /\ \A k \in 0 .. ChunkHeaderSize - 1 :
                buf[sparseOfs + k] = image.start[handled_chunk + 1] + k
      BY <2>1, HeadsSound
    <2>3. Len(image.chunks) \in Nat
      BY <2>1, ImageFacts DEF TypeOK
    <2> QED
      BY <2>1, <2>2, <2>3 DEF TypeOK
  <1> QED
    BY <1>1, Invariance, PTL

------------------------------------------------------------------------------
(* Failures have causes *)

\* While the parser works with a ret that says "false", it is the one that was found
\* when the item was opened, and no raw chunk was handled but the one whose head was
\* just decoded; what is returned then is told apart by NoSpuriousFailure.
NoRawYet == \A i \in 1 .. handled_chunk :
               image.chunks[i].type = "raw" => i = handled_chunk /\ fmt = "chunk_data"

Stale == /\ found = "false" /\ totalReadLen = 0
         /\ flash = Blank(image) /\ NoRawYet

Blamed == /\ pc \in {"read", "parse"} /\ ret = "false" => Stale
          /\ pc = "return" /\ ret = "false" /\ ~denied =>
                StoppedAtBad \/ (found = "false" /\ NothingDown)
          /\ NoSpuriousFailure

\* A parse ends with nothing left to parse and no raw chunk handled in front: the raw
\* data that the image has, if any, begins after the read.
LEMMA NothingInRead ==
    ASSUME NEW im \in Images, NEW h \in 0 .. Len(im.chunks), NEW w \in Nat,
           \A i \in 1 .. h : im.chunks[i].type # "raw",
           w <= im.start[h + 1] \/
              (h < Len(im.chunks) /\ w <= im.start[h + 1] + ChunkHeaderSize)
    PROVE  \A i \in 1 .. Len(im.chunks) :
              im.chunks[i].type = "raw" => w <= im.start[i] + ChunkHeaderSize
  <1> SUFFICES ASSUME NEW i \in 1 .. Len(im.chunks), im.chunks[i].type = "raw"
               PROVE  w <= im.start[i] + ChunkHeaderSize
    OBVIOUS
  <1>1. Len(im.chunks) \in Nat /\ im.start[i] \in Nat /\ im.start[h + 1] \in Nat
        /\ ChunkHeaderSize \in Nat
    BY ImageFacts, Sizes
  <1>2. h + 1 <= i
    BY <1>1
  <1>3. CASE i = h + 1
    BY <1>1, <1>3
  <1>4. CASE i # h + 1
    <2>1. PICK k \in 1 .. Len(im.chunks) : k = h + 1 /\ i \in k + 1 .. Len(im.chunks) + 1
      BY <1>1, <1>2, <1>4
    <2>2. im.start[k + 1] <= im.start[i]
      BY <2>1, ImagesAssumption DEF WellFormed
    <2>3. /\ im.start[k + 1] = im.start[k] + ChunkHeaderSize + Payload(im.chunks[k])
          /\ im.start[k + 1] \in Nat /\ im.start[k] \in Nat
      BY ChunkFacts
    <2>4. Payload(im.chunks[k]) \in Nat
      BY ChunkFacts, Sizes DEF Payload
    <2>5. PICK s, m, z, d \in Nat :
             /\ s = im.start[k] /\ m = im.start[k + 1] /\ z = im.start[i]
             /\ d = Payload(im.chunks[k])
      BY <1>1, <2>3, <2>4
    <2>6. m <= z /\ m = s + ChunkHeaderSize + d
      BY <2>2, <2>3, <2>5
    <2>7. w <= s + ChunkHeaderSize
      BY <1>1, <2>1, <2>5
    <2>8. w <= z
      BY <1>1, <2>6, <2>7
    <2> QED
      BY <1>1, <2>5, <2>8
  <1> QED
    BY <1>3, <1>4

\* Opening an item, or failing to, leaves no failure without a cause.
LEMMA OpenBlamed ==
    ASSUME IInv, Blamed, NEW im \in Images, OpenItem(im) \/ RefuseItem(im) \/ NoBuffer(im)
    PROVE  Blamed'
  <1>1. CASE OpenItem(im)
    <2>1. /\ pc' = "read" /\ outcome' = "none" /\ totalReadLen' = 0 /\ handled_chunk' = 0
          /\ flash' = Blank(image') /\ found' = ret /\ ret' = ret
      BY <1>1 DEF OpenItem, Fresh, Blank, Addresses
    <2> QED
      BY <2>1 DEF Blamed, Stale, NoRawYet, NoSpuriousFailure
  <1>2. CASE RefuseItem(im)
    BY <1>2 DEF RefuseItem, Blamed, NoSpuriousFailure
  <1>3. CASE NoBuffer(im)
    BY <1>3 DEF NoBuffer, Blamed, NoSpuriousFailure
  <1> QED
    BY <1>1, <1>2, <1>3

\* A turn that ends the window with a stale ret has seen no raw data.
LEMMA StaleReturn ==
    ASSUME IInv, Blamed, pc = "parse", ret = "false",
           TotalHead \/ ChunkHead \/ FillData
    PROVE  Stale' /\ (pc' = "return" => NothingDown')
  <1>0. /\ TypeOK /\ Window /\ Carry /\ Reading /\ Place /\ Stale /\ Live
        /\ image \in Images /\ handled_chunk \in 0 .. Len(image.chunks)
    BY DEF IInv, Blamed, Live, Place, TypeOK
  <1>1. /\ Len(image.chunks) \in Nat /\ wantLen \in Nat /\ rest \in Nat /\ rest > 0
        /\ last_rest_size = 0 /\ totalReadLen = 0 /\ Pos = wantLen - rest
        /\ HeaderSize \in Nat /\ ChunkHeaderSize \in Nat /\ FillSize \in Nat
    BY <1>0, ImageFacts, Sizes DEF TypeOK, Window, Pos, Stale
  <1>2. CASE TotalHead
    <2>1. /\ fmt = "total_head" /\ handled_chunk = 0 /\ Pos = 0 /\ HeaderSize <= rest
      BY <1>0, <1>2 DEF TotalHead, Place
    <2>2. /\ UNCHANGED <<image, flash, found, totalReadLen, wantLen, last_rest_size,
                         handled_chunk>>
          /\ rest' = rest - HeaderSize
          /\ pc' = IF rest' <= 0 THEN "return" ELSE "parse"
      BY <1>2 DEF TotalHead, LoopOn, frame
    <2>3. Stale'
      BY <1>0, <2>1, <2>2 DEF Stale, NoRawYet, Blank, Addresses
    <2>4. ASSUME pc' = "return"
          PROVE  NothingDown'
      <3>1. wantLen = HeaderSize /\ image.start[0 + 1] = HeaderSize
        BY <1>0, <1>1, <2>1, <2>2, <2>4, ImageFacts
      <3>2. \A i \in 1 .. Len(image.chunks) :
               image.chunks[i].type = "raw" => wantLen <= image.start[i] + ChunkHeaderSize
        BY <1>0, <1>1, <2>1, <3>1, NothingInRead
      <3> QED
        BY <1>1, <2>2, <2>3, <3>2 DEF NothingDown, Stale, Blank, Addresses
    <2> QED
      BY <2>3, <2>4
  <1>3. CASE ChunkHead
    <2>1. /\ pc = "parse" /\ fmt = "chunk_head" /\ rest >= ChunkHeaderSize
      BY <1>3 DEF ChunkHead
    <2>2. /\ handled_chunk + 1 \in 1 .. Len(image.chunks)
          /\ Heads = {image.chunks[handled_chunk + 1]}
          /\ Pos = image.start[handled_chunk + 1]
      BY <1>0, <2>1, HeadsSound DEF Place
    <2>3. /\ UNCHANGED <<image, flash, found, totalReadLen, wantLen, last_rest_size>>
          /\ rest' = rest - ChunkHeaderSize /\ handled_chunk' = handled_chunk + 1
          /\ pc' = IF rest' <= 0 THEN "return" ELSE "parse"
          /\ image.chunks[handled_chunk + 1].type = "raw" => fmt' = "chunk_data"
      BY <1>3, <2>2 DEF ChunkHead, LoopOn, frame
    <2>4. \A i \in 1 .. handled_chunk : image.chunks[i].type # "raw"
      BY <1>0, <2>1 DEF Stale, NoRawYet
    <2>5. Stale'
      <3>1. NoRawYet'
        BY <1>0, <2>2, <2>3, <2>4 DEF NoRawYet
      <3> QED
        BY <1>0, <2>3, <3>1 DEF Stale, Blank, Addresses
    <2>6. ASSUME pc' = "return"
          PROVE  NothingDown'
      <3>1. /\ handled_chunk < Len(image.chunks)
            /\ wantLen <= image.start[handled_chunk + 1] + ChunkHeaderSize
        BY <1>0, <1>1, <2>1, <2>2, <2>3, <2>6, ImageFacts
      <3>2. \A i \in 1 .. Len(image.chunks) :
               image.chunks[i].type = "raw" => wantLen <= image.start[i] + ChunkHeaderSize
        BY <1>0, <1>1, <2>4, <3>1, NothingInRead
      <3> QED
        BY <1>1, <2>3, <2>5, <3>2 DEF NothingDown, Stale, Blank, Addresses
    <2> QED
      BY <2>5, <2>6
  <1>4. CASE FillData
    <2>1. /\ pc = "parse" /\ fmt = "fill_data" /\ FillSize <= rest
      BY <1>4 DEF FillData
    <2>2. /\ handled_chunk \in 1 .. Len(image.chunks)
          /\ image.chunks[handled_chunk].type = "fill"
          /\ Pos = image.start[handled_chunk] + ChunkHeaderSize
      BY <1>0, <1>1, <2>1 DEF Place
    <2>3. /\ UNCHANGED <<image, flash, found, totalReadLen, wantLen, last_rest_size,
                         handled_chunk>>
          /\ rest' = rest - FillSize
          /\ pc' = IF rest' <= 0 THEN "return" ELSE "parse"
      BY <1>4 DEF FillData, LoopOn, frame
    <2>4. \A i \in 1 .. handled_chunk : image.chunks[i].type # "raw"
      BY <1>0, <2>1 DEF Stale, NoRawYet
    <2>5. Stale'
      BY <1>0, <2>3, <2>4 DEF Stale, NoRawYet, Blank, Addresses
    <2>6. ASSUME pc' = "return"
          PROVE  NothingDown'
      <3>1. /\ image.start[handled_chunk + 1]
                  = image.start[handled_chunk] + ChunkHeaderSize + FillSize
            /\ image.start[handled_chunk] \in Nat
        BY <1>0, <2>2, ChunkFacts DEF Payload
      <3>2. wantLen <= image.start[handled_chunk + 1]
        BY <1>1, <2>1, <2>2, <2>3, <2>6, <3>1
      <3>3. \A i \in 1 .. Len(image.chunks) :
               image.chunks[i].type = "raw" => wantLen <= image.start[i] + ChunkHeaderSize
        BY <1>0, <1>1, <2>4, <3>2, NothingInRead
      <3> QED
        BY <1>1, <2>3, <2>5, <3>3 DEF NothingDown, Stale, Blank, Addresses
    <2> QED
      BY <2>5, <2>6
  <1> QED
    BY <1>2, <1>3, <1>4

\* A bad head is found where the image has one, behind what was programmed.
LEMMA BadHeadBlamed ==
    ASSUME IInv, ChunkHeadBad
    PROVE  StoppedAtBad'
  <1>0. /\ TypeOK /\ Window /\ Reading /\ Place /\ Written /\ Live /\ image \in Images
        /\ pc = "parse" /\ fmt = "chunk_head" /\ rest >= ChunkHeaderSize
    BY DEF IInv, ChunkHeadBad, Live, TypeOK
  <1>1. /\ handled_chunk + 1 \in 1 .. Len(image.chunks)
        /\ Heads = {image.chunks[handled_chunk + 1]}
        /\ flash_start * Sector = image.place[handled_chunk + 1]
        /\ Len(image.chunks) \in Nat /\ handled_chunk \in Nat
    BY <1>0, HeadsSound, ImageFacts DEF Place, TypeOK
  <1>2. UNCHANGED <<image, flash, handled_chunk>>
    BY DEF ChunkHeadBad, frame
  <1>3. image.chunks[handled_chunk + 1].type = "bad"
    BY <1>1 DEF ChunkHeadBad
  <1>4. \A a \in Addresses(image) :
           a < image.place[handled_chunk + 1] => flash[a] = image.target[a]
    BY <1>0, <1>1 DEF Written
  <1> QED
    BY <1>1, <1>2, <1>3, <1>4 DEF StoppedAtBad, Addresses

\* No step of a download makes a failure without a cause.
LEMMA BlamedKeeps == IInv /\ Blamed /\ [Next]_vars => Blamed'
  <1> SUFFICES ASSUME IInv, Blamed, [Next]_vars
               PROVE  Blamed'
    OBVIOUS
  <1>0. Outcome /\ TypeOK
    BY DEF IInv
  <1>1. ASSUME NEW im \in Images, OpenItem(im) \/ RefuseItem(im) \/ NoBuffer(im)
        PROVE  Blamed'
    BY <1>1, OpenBlamed
  <1>2. CASE ReadItem
    BY <1>0, <1>2 DEF ReadItem, Blamed, Stale, NoRawYet, NoSpuriousFailure, Outcome,
                      Blank, Addresses
  <1>3. CASE ReadFails
    BY <1>3 DEF ReadFails, Blamed, NoSpuriousFailure
  <1>4. CASE NextRead
    BY <1>0, <1>4 DEF NextRead, parser, Blamed, NoSpuriousFailure, Outcome
  <1>5. CASE ItemDone
    <2>1. /\ pc' = "done" /\ outcome' = ret /\ pc = "return"
          /\ UNCHANGED <<image, flash, wantLen, parser, ret, denied, found>>
          /\ ret = "false" => totalReadLen' = totalReadLen
      BY <1>5 DEF ItemDone
    <2>2. ret = "false" => /\ StoppedAtBad' <=> StoppedAtBad
                           /\ NothingDown' <=> NothingDown
      BY <2>1 DEF StoppedAtBad, NothingDown, parser, Blank, Addresses
    <2>3. ret # "error"
      BY <1>0 DEF TypeOK
    <2> QED
      BY <2>1, <2>2, <2>3 DEF Blamed, NoSpuriousFailure
  <1>6. CASE TotalHead \/ ChunkHead \/ FillData
    <2>1. /\ pc = "parse" /\ outcome = "none" /\ outcome' = outcome /\ ret' = ret
          /\ pc' \in {"parse", "return"}
      BY <1>0, <1>6 DEF TotalHead, ChunkHead, FillData, LoopOn, frame, Outcome
    <2>2. ret = "false" => Stale' /\ (pc' = "return" => NothingDown')
      BY <1>6, <2>1, StaleReturn
    <2> QED
      BY <2>1, <2>2 DEF Blamed, NoSpuriousFailure, Stale
  <1>7. CASE ChunkHeadBad
    <2>1. StoppedAtBad' /\ pc' = "return" /\ outcome' = "none"
      BY <1>0, <1>7, BadHeadBlamed DEF ChunkHeadBad, Break, frame, Outcome
    <2> QED
      BY <2>1 DEF Blamed, NoSpuriousFailure
  <1>8. CASE ChunkHeadShort \/ FillShort \/ ChunkDataWhole \/ ChunkDataShort
             \/ ChunkDataPart
    <2>1. ret' = "true" /\ outcome' = "none" /\ pc' # "read"
      BY <1>0, <1>8 DEF ChunkHeadShort, FillShort, ChunkDataWhole, ChunkDataShort,
         ChunkDataPart, Break, LoopOn, frame, Outcome
    <2> QED
      BY <2>1 DEF Blamed, NoSpuriousFailure
  <1>9. CASE ChunkDataFails
    <2>1. denied' /\ pc' = "return"
      BY <1>9 DEF ChunkDataFails, Break
    <2> QED
      BY <2>1 DEF Blamed, NoSpuriousFailure
  <1>10. CASE NextItem \/ UNCHANGED vars
    <2>1. /\ UNCHANGED <<image, flash, outcome, totalReadLen, wantLen, handled_chunk,
                         last_rest_size, fmt, ret, denied, found>>
          /\ pc' = pc \/ pc' = "idle"
      BY <1>10 DEF NextItem, vars, parser
    <2>2. /\ StoppedAtBad' <=> StoppedAtBad
          /\ NothingDown' <=> NothingDown
          /\ Stale' <=> Stale
      BY <2>1 DEF StoppedAtBad, NothingDown, Stale, NoRawYet, Blank, Addresses
    <2> QED
      BY <2>1, <2>2 DEF Blamed, NoSpuriousFailure
  <1> QED
    BY <1>1, <1>2, <1>3, <1>4, <1>5, <1>6, <1>7, <1>8, <1>9, <1>10
    DEF Next, Download, Parse

\* For all images and buffer sizes: unless the host or the device fails a call of the
\* item, a reported failure is a bad head of the image, met behind all the data before
\* it, or the ret an earlier function left false, and that one only where the first
\* read has no raw data and leaves no rest.
THEOREM FailuresHaveCauses == Spec => []NoSpuriousFailure
  <1>1. Init => Blamed
    BY DEF Init, Blamed, NoSpuriousFailure
  <1>2. Blamed => NoSpuriousFailure
    BY DEF Blamed
  <1> QED
    BY <1>1, <1>2, BlamedKeeps, Invariance, PTL DEF Spec

------------------------------------------------------------------------------
(* The refinement *)

\* A transfer is a Program step of the abstract download, or changes nothing.
LEMMA TransferIsProgram ==
    ASSUME IInv, pc = "parse", fmt = "chunk_data",
           NEW n \in Nat, n <= chunk_length, n <= rest,
           flash' = Programmed(n), UNCHANGED <<image, outcome>>
    PROVE  [Program]_avars
  <1>1. /\ TypeOK /\ Window /\ Place /\ Written /\ Live /\ image \in Images
        /\ outcome = "none"
    BY DEF IInv, Live, TypeOK, Outcome
  <1> DEFINE at == flash_start * Sector
  <1>2. /\ flash' \in [Addresses(image) -> Nat \cup {None}]
        /\ \A a \in Addresses(image) :
              flash'[a] = IF a < at + n THEN image.target[a] ELSE None
    BY <1>1, ProgramPrefix
  <1>3. \A a \in Addresses(image) : flash[a] = IF a < at THEN image.target[a] ELSE None
    BY <1>1 DEF Written
  <1>4. at \in Nat
    BY <1>1, SectorAdd, RawChunk DEF TypeOK, Place
  <1> HIDE DEF at
  <1>5. \A a \in Addresses(image) : a \in Nat
    BY <1>1, BlankFacts
  <1>6. ASSUME NEW a \in Addresses(image)
        PROVE  \/ flash'[a] = flash[a]
               \/ /\ flash[a] = None
                  /\ flash'[a] = image.target[a]
                  /\ \A b \in 0 .. a - 1 : flash'[b] = image.target[b]
    <2>1. CASE a < at
      BY <1>2, <1>3, <1>4, <1>5, <2>1
    <2>2. CASE a >= at + n
      BY <1>2, <1>3, <1>4, <1>5, <2>2
    <2>3. CASE at <= a /\ a < at + n
      <3>1. flash[a] = None /\ flash'[a] = image.target[a]
        BY <1>2, <1>3, <1>4, <1>5, <2>3
      <3>2. ASSUME NEW b \in 0 .. a - 1
            PROVE  flash'[b] = image.target[b]
        <4>1. b \in Addresses(image)
          <5>1. /\ Addresses(image) = 0 .. image.place[Len(image.chunks) + 1] - 1
                /\ image.place[Len(image.chunks) + 1] \in Nat
            BY <1>1, ImageFacts
          <5>2. a \in Nat /\ a <= image.place[Len(image.chunks) + 1] - 1
            BY <5>1
          <5> QED
            BY <5>1, <5>2
        <4>2. b < at + n
          BY <1>4, <1>5, <2>3
        <4> QED
          BY <1>2, <4>1, <4>2
      <3> QED
        BY <3>1, <3>2
    <2> QED
      BY <1>4, <1>5, <2>1, <2>2, <2>3
  <1>7. DOMAIN flash' = Addresses(image)
    BY <1>2
  <1> QED
    BY <1>1, <1>6, <1>7 DEF Program, avars

\* Every step of the streaming download is a step of the abstract one or none.
LEMMA StepRefines == IInv /\ [Next]_vars => [ANext]_avars
  <1> SUFFICES ASSUME IInv, [Next]_vars
               PROVE  [ANext]_avars
    OBVIOUS
  <1>0. TypeOK /\ Window /\ Place /\ Outcome /\ Reading
    BY DEF IInv
  <1>1. ASSUME NEW im \in Images, OpenItem(im) \/ RefuseItem(im) \/ NoBuffer(im)
        PROVE  Begin
    BY <1>0, <1>1 DEF OpenItem, RefuseItem, NoBuffer, Fresh, Begin, Outcome
  <1>2. CASE ReadFails
    BY <1>0, <1>2 DEF ReadFails, ANext, Fail, Outcome, avars
  <1>3. CASE ItemDone
    <2>1. IInv' /\ outcome = "none" /\ ret \in {"true", "false"} /\ outcome' = ret
          /\ UNCHANGED <<image, flash>>
      BY <1>0, <1>3, ItemDoneKeeps DEF ItemDone, Outcome, Reading, TypeOK
    <2>2. CASE ret = "true"
      <3>1. Whole(image) => flash = image.target
        BY <2>1, <2>2 DEF IInv, SuccessComplete, Whole
      <3> QED
        BY <2>1, <2>2, <3>1 DEF ANext, Succeed
    <2>3. CASE ret = "false"
      BY <2>1, <2>3 DEF ANext, Fail
    <2> QED
      BY <2>1, <2>2, <2>3
  <1>4. CASE ChunkDataWhole
    <2>1. chunk_length \in Nat /\ chunk_length <= rest
      BY <1>0, <1>4 DEF ChunkDataWhole, TypeOK
    <2> QED
      BY <1>4, <2>1, TransferIsProgram DEF ChunkDataWhole, frame, ANext
  <1>5. CASE ChunkDataPart
    <2>1. DownLen \in Nat /\ DownLen <= rest /\ DownLen <= chunk_length
      BY <1>0, <1>5, DownLenFacts DEF ChunkDataPart, Place, Live
    <2> QED
      BY <1>5, <2>1, TransferIsProgram DEF ChunkDataPart, frame, ANext
  <1>6. CASE ChunkDataFails
    <2>1. PICK n \in Nat : n <= chunk_length /\ n <= rest /\ flash' = Programmed(n)
      BY <1>0, <1>6, FailedPrefix
    <2> QED
      BY <1>6, <2>1, TransferIsProgram DEF ChunkDataFails, ANext
  <1>7. CASE ReadItem \/ NextRead \/ NextItem
    BY <1>7 DEF ReadItem, NextRead, NextItem, avars
  <1>8. CASE TotalHead \/ ChunkHeadShort \/ ChunkHead \/ ChunkHeadBad
    BY <1>8 DEF TotalHead, ChunkHeadShort, ChunkHead, ChunkHeadBad, frame, avars
  <1>9. CASE FillData \/ FillShort \/ ChunkDataShort
    BY <1>9 DEF FillData, FillShort, ChunkDataShort, frame, avars
  <1>10. CASE UNCHANGED vars
    BY <1>10 DEF vars, avars
  <1> QED
    BY <1>1, <1>2, <1>3, <1>4, <1>5, <1>6, <1>7, <1>8, <1>9, <1>10
    DEF Next, Download, Parse, ANext

\* The streaming download implements the abstract one, for every buffering.
THEOREM Refinement == Spec => Implements
  <1>1. Init => AInit
    BY ImagesAssumption DEF Init, AInit
  <1> QED
    BY <1>1, StepRefines, Invariance, PTL DEF Spec, Implements, ASpec
==============================================================================
