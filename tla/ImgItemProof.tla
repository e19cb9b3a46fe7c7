----------------------------- MODULE ImgItemProof -----------------------------
(* Proofs about ImgItem, for every item table, image file, buffer and block   *)
(* size that satisfy its assumption.                                          *)
EXTENDS ImgItem, WellFoundedInduction, TLAPS

------------------------------------------------------------------------------
(* Whole blocks *)

Whole(n) == n % Block = 0

\* The linear part of the assumption.
LEMMA Sizes ==
    /\ Block \in Nat \ {0} /\ Piece \in Nat \ {0} /\ Word \in Nat \ {0}
    /\ FexLen \in Nat \ {0} /\ BufSize \in Nat \ {0} /\ ProbeLen \in Nat \ {0}
    /\ Whole(Piece) /\ Whole(Word) /\ Whole(FexLen) /\ Whole(BufSize) /\ Whole(ProbeLen)
    /\ FexLen <= BufSize /\ ProbeLen <= BufSize /\ MaxCalls \in Nat \ {0}
    /\ Lengths \subseteq Nat
  BY ImgAssumption DEF Whole

\* A whole number of blocks is a number of blocks times their size.
LEMMA WholeIs ==
    ASSUME NEW n \in Nat
    PROVE  Whole(n) <=> \E q \in Nat : n = q * Block
  <1>1. Block \in Nat \ {0}
    BY Sizes
  <1>2. ASSUME Whole(n)
        PROVE  \E q \in Nat : n = q * Block
    <2>1. n \div Block \in Nat /\ n = (n \div Block) * Block
      BY <1>1, <1>2, Z3 DEF Whole
    <2> QED
      BY <2>1
  <1>3. ASSUME NEW q \in Nat, n = q * Block
        PROVE  Whole(n)
    <2>1. (q * Block) % Block = 0
      BY <1>1, Z3
    <2> QED
      BY <1>3, <2>1 DEF Whole
  <1> QED
    BY <1>2, <1>3

\* Whole blocks after whole blocks are whole blocks.
LEMMA WholeAdd ==
    ASSUME NEW m \in Nat, NEW n \in Nat, Whole(m), Whole(n)
    PROVE  m + n \in Nat /\ Whole(m + n)
  <1>1. PICK x \in Nat, y \in Nat : m = x * Block /\ n = y * Block
    BY WholeIs
  <1>2. m + n = (x + y) * Block /\ x + y \in Nat
    BY <1>1, Sizes, Z3
  <1> QED
    BY <1>2, WholeIs

\* A length is rounded up to whole blocks, and those fit where the length fits a number of
\* whole blocks.
LEMMA RoundUp ==
    ASSUME NEW n \in Nat
    PROVE  /\ Blocks(n) \in Nat /\ n <= Blocks(n)
           /\ Whole(n) => Blocks(n) = n
           /\ \A m \in Nat : Whole(m) /\ n <= m => Blocks(n) <= m
  <1> DEFINE q == (n + Block - 1) \div Block
  <1>0. Block \in Nat \ {0}
    BY Sizes
  <1>1. /\ q \in Nat /\ Blocks(n) = q * Block
        /\ q * Block <= n + Block - 1 /\ n + Block - 1 < q * Block + Block
    BY <1>0, Z3 DEF Blocks
  <1>2. Blocks(n) \in Nat /\ n <= Blocks(n) /\ Blocks(n) < n + Block
    <2>1. q * Block \in Nat
      BY <1>0, <1>1, Z3
    <2> HIDE DEF q
    <2> QED
      BY <1>0, <1>1, <2>1
  <1> HIDE DEF q
  <1>3. ASSUME NEW m \in Nat, Whole(m), n <= m
        PROVE  Blocks(n) <= m
    <2>1. PICK x \in Nat : m = x * Block
      BY <1>3, WholeIs
    <2>2. q <= x
      <3> SUFFICES ASSUME q >= x + 1
                   PROVE  FALSE
        BY <1>1
      <3>1. q * Block >= (x + 1) * Block
        BY <1>0, <1>1, Z3
      <3>2. (x + 1) * Block = m + Block
        BY <1>0, <2>1, Z3
      <3> QED
        BY <1>0, <1>1, <1>2, <1>3, <3>1, <3>2
    <2>3. q * Block <= x * Block
      BY <1>0, <1>1, <2>2, Z3
    <2> QED
      BY <1>1, <2>1, <2>3
  <1>4. Whole(n) => Blocks(n) = n
    BY <1>2, <1>3
  <1> QED
    BY <1>2, <1>3, <1>4

\* A set of numbers has a least one.
LEMMA Least ==
    ASSUME NEW T \in SUBSET Nat, T # {}
    PROVE  \E x \in T : \A y \in T : x <= y
  <1>1. \E x \in T : \A y \in T : ~(<<y, x>> \in OpToRel(<, Nat))
    BY NatLessThanWellFounded, WFMin, Zenon
  <1>2. PICK x \in T : \A y \in T : ~(<<y, x>> \in OpToRel(<, Nat))
    BY <1>1, Zenon
  <1>3. \A y \in T : ~(y < x)
    BY <1>2, Zenon DEF OpToRel
  <1> QED
    BY <1>3

\* What is found in the table is an entry of it.
LEMMA Found ==
    ASSUME NEW name, Find(name) # 0
    PROVE  Find(name) \in Entries
  <1> DEFINE found == {e \in Entries : Matches(e, name)}
  <1>1. found \in SUBSET Nat /\ found # {}
    <2>1. Entries \subseteq Nat
      BY ImgAssumption DEF Entries
    <2> QED
      BY <2>1 DEF Find
  <1>2. \E e \in found : \A f \in found : e <= f
    BY <1>1, Least
  <1>3. Find(name) = CHOOSE e \in found : \A f \in found : e <= f
    BY <1>1 DEF Find
  <1> HIDE DEF found
  <1>4. Find(name) \in found
    BY <1>2, <1>3
  <1> QED
    BY <1>4 DEF found

\* What is known of an entry.
LEMMA EntryFacts ==
    ASSUME NEW e \in Entries
    PROVE  /\ Table[e].file \in Nat /\ Table[e].data \in Nat /\ Table[e].offset \in Nat
           /\ ItemSize(e) \in 0 .. Word - 1 /\ ItemSize(e) <= Table[e].file /\ e # 0
  <1>1. Table[e] \in ItemHead /\ e \in Nat \ {0}
    BY ImgAssumption DEF Entries
  <1>2. Table[e].file \in Nat /\ Table[e].data \in Nat /\ Table[e].offset \in Nat
    BY <1>1 DEF ItemHead
  <1>3. \A n \in Nat : n % Word \in 0 .. Word - 1 /\ n % Word <= n
    BY Sizes, Z3
  <1> QED
    BY <1>1, <1>2, <1>3 DEF ItemSize, Lo

------------------------------------------------------------------------------
(* The invariant *)

\* A call under way is a call of the item that hItem is.
Active == pc # "idle"
Calling ==
    /\ img.fp = "none" => ~Active /\ outcome = "none" /\ got = <<>>
    /\ Active => /\ img.fp = "open" /\ outcome = "none" /\ ~refused
                 /\ Asked \in Entries /\ hItem.index = Asked /\ call.size <= Table[Asked].file
                 /\ call.kind = "mem" => call.size \in 1 .. BufSize

\* It has read the item, from the first byte on, in whole blocks. Of an image of another
\* version it reads nothing.
Placed ==
    Active => /\ hItem.pos = total /\ Len(got) = total /\ (Known \/ total = 0)
              /\ total % Block = 0 /\ (total < call.size \/ call.size = 0)

\* A read under way means to read what is wanted, and has read whole blocks of it. The
\* file is behind them, or does not reach as far.
Piecing ==
    pc = "piece" =>
        /\ Known /\ length = want /\ want = Smaller(call.size - total, Chunk(call.kind))
        /\ readlen % Block = 0 /\ readlen < length
        /\ fpos <= Offset + total + readlen
        /\ fpos = Offset + total + readlen \/ fpos >= img.length
        /\ \A k \in 0 .. readlen - 1 : buf[Shift + k] = ItemByte(total + k)

Delivered ==
    /\ got \in Seq(Int)
    /\ \A k \in 1 .. Len(got) : got[k] = ItemByte(k - 1)

IInv == TypeOK /\ Calling /\ Placed /\ Piecing /\ Delivered /\ WholeOnSuccess /\ NoFalseFailure

\* The version, the length of the file and the name asked for decide what is asked.
LEMMA SameImage ==
    ASSUME UNCHANGED <<call, img>>
    PROVE  /\ Asked' = Asked /\ WellFormed' = WellFormed /\ Known' = Known
           /\ \A k : ItemByte(k)' = ItemByte(k)
  BY DEF Asked, WellFormed, Known, ItemByte, FileByte, Find, Matches

\* What TypeOK says of the numbers and records, without what is a truth value.
Ranges ==
    /\ img.version \in Versions \cup {100} /\ img.length \in Nat
    /\ fpos \in Nat /\ hItem = [index |-> hItem.index, pos |-> hItem.pos]
    /\ hItem.index \in Entries \cup {0} /\ hItem.pos \in Nat
    /\ call.kind \in Kinds /\ call.name \in Names /\ call.size \in Nat /\ call.size < Word
    /\ pc \in {"idle", "read", "piece"}
    /\ total \in Nat /\ total <= call.size
    /\ want \in Nat /\ want <= BufSize /\ length \in Nat /\ length <= want
    /\ readlen \in Nat /\ readlen <= length
    /\ DOMAIN buf = 0 .. BufSize - 1
    /\ Len(got) <= call.size

\* What the types say, in the form the provers use.
LEMMA RangesHold == TypeOK => Ranges
  <1> SUFFICES ASSUME TypeOK
               PROVE  Ranges
    OBVIOUS
  <1>1. img.version \in Versions \cup {100} /\ img.length \in Nat
    <2>1. img.version \in Versions \cup {100} /\ img.length \in Lengths \cup {0}
      BY DEF TypeOK
    <2>2. Lengths \subseteq Nat
      BY Sizes
    <2>3. \A n \in Lengths \cup {0} : n \in Nat
      BY <2>2
    <2>4. img.length \in Nat
      BY <2>1, <2>3, Zenon
    <2> QED
      BY <2>1, <2>4
  <1>2. /\ hItem = [index |-> hItem.index, pos |-> hItem.pos]
        /\ hItem.index \in Entries \cup {0} /\ hItem.pos \in Nat
    BY DEF TypeOK
  <1>3. call.kind \in Kinds /\ call.name \in Names /\ call.size \in 0 .. Word - 1
    BY DEF TypeOK
  <1>4. call.size \in Nat /\ call.size < Word
    BY <1>3, Sizes
  <1>5. want \in 0 .. BufSize /\ length \in 0 .. want /\ readlen \in 0 .. length
        /\ total \in 0 .. call.size
    BY DEF TypeOK
  <1>6. want \in Nat /\ want <= BufSize /\ length \in Nat /\ length <= want
    BY <1>5, Sizes
  <1>7. readlen \in Nat /\ readlen <= length /\ total \in Nat /\ total <= call.size
    BY <1>4, <1>5, <1>6
  <1> QED
    BY <1>1, <1>2, <1>3, <1>4, <1>6, <1>7 DEF TypeOK, Ranges

\* What a loop reads at a time.
LEMMA Chunks ==
    ASSUME call.kind \in Kinds
    PROVE  Chunk(call.kind) \in Nat \ {0} /\ Chunk(call.kind) <= BufSize /\ Whole(Chunk(call.kind))
  BY Sizes DEF Chunk, Kinds

\* What a turn reads: whole blocks, unless it is the last one.
LEMMA Turn ==
    ASSUME Ranges, Piecing, pc = "piece"
    PROVE  /\ ThisRead \in Nat \ {0} /\ readlen + ThisRead <= length
           /\ readlen + ThisRead < length => ThisRead = Piece
           /\ Blocks(ThisRead) \in Nat /\ ThisRead <= Blocks(ThisRead)
           /\ readlen + ThisRead < length => Blocks(ThisRead) = ThisRead
  <1>1. readlen < length /\ readlen \in Nat /\ length \in Nat
    BY DEF Ranges, Piecing
  <1>2. /\ ThisRead \in Nat \ {0} /\ readlen + ThisRead <= length
        /\ readlen + ThisRead < length => ThisRead = Piece
    BY <1>1, Sizes DEF ThisRead, Smaller
  <1>3. /\ Blocks(ThisRead) \in Nat /\ ThisRead <= Blocks(ThisRead)
        /\ Whole(ThisRead) => Blocks(ThisRead) = ThisRead
    BY <1>2, RoundUp
  <1> QED
    BY <1>2, <1>3, Sizes

------------------------------------------------------------------------------
(* A read *)

\* What a read that is about to start is going to do.
LEMMA Planned ==
    ASSUME IInv, StartRead
    PROVE  /\ want' = Smaller(call.size - total, Chunk(call.kind)) /\ readlen' = 0
           /\ want' \in Nat /\ want' <= BufSize /\ want' <= call.size - total
           /\ length' \in Nat /\ length' <= want'
           /\ Known => length' = want'
           /\ ~Known => length' = 0
           /\ want' = 0 => total = call.size
  <1>1. Ranges /\ pc = "read" /\ Active /\ hItem.index = Asked
    BY RangesHold DEF IInv, StartRead, Calling, Active
  <1>2. /\ total \in Nat /\ call.size \in Nat /\ total <= call.size /\ hItem.pos = total
        /\ Known \/ total = 0
        /\ call.size <= Table[Asked].file /\ Table[Asked].file \in Nat
    BY <1>1, EntryFacts DEF IInv, Ranges, Placed, Calling
  <1>3. /\ want' = Smaller(call.size - total, Chunk(call.kind)) /\ readlen' = 0
        /\ length' = ReadLength(want')
    BY DEF StartRead
  <1>4. /\ want' \in Nat /\ want' <= BufSize /\ want' <= call.size - total
        /\ want' = 0 => total = call.size
    <2>1. Chunk(call.kind) \in Nat \ {0} /\ Chunk(call.kind) <= BufSize
      BY <1>1, Chunks DEF Ranges
    <2> QED
      BY <1>2, <1>3, <2>1, Sizes DEF Smaller
  <1>5. CASE Known
    <2>1. Left = Table[Asked].file - total
      BY <1>1, <1>2, <1>5 DEF Left, FileLen
    <2>2. Left \in Nat /\ want' <= Left
      BY <1>2, <1>4, <2>1
    <2>3. Smaller(want', Left) = want'
      BY <1>4, <2>2 DEF Smaller
    <2>4. ReadLength(want') = want'
      BY <2>3 DEF ReadLength
    <2> QED
      BY <1>3, <1>4, <1>5, <2>4
  <1>6. CASE ~Known
    <2>1. Left = 0
      BY <1>2, <1>6 DEF Left, FileLen
    <2>2. Hi(0) = 0
      BY Sizes, Z3 DEF Hi
    <2>3. ReadLength(want') = 0
      BY <1>4, <2>1, <2>2 DEF ReadLength, Smaller
    <2> QED
      BY <1>3, <1>4, <1>6, <2>3
  <1> QED
    BY <1>5, <1>6

\* A sequence and what is appended to it.
LEMMA Appended ==
    ASSUME NEW s \in Seq(Int), NEW n \in Nat, NEW t \in [1 .. n -> Int]
    PROVE  /\ s \o t \in Seq(Int) /\ Len(s \o t) = Len(s) + n
           /\ \A k \in 1 .. Len(s) : (s \o t)[k] = s[k]
           /\ \A k \in 1 .. n : (s \o t)[Len(s) + k] = t[k]
  <1>1. t \in Seq(Int) /\ Len(t) = n
    OBVIOUS
  <1> QED
    BY <1>1

\* What a read that answers true leaves: the bytes are handed over, and the loop ends at
\* the size of the item, or when the device refuses.
LEMMA ReadTrueDoes ==
    ASSUME IInv, Active, UNCHANGED img, NEW b, NEW n \in Nat, ReadTrue(b, n),
           n = Smaller(call.size - total, Chunk(call.kind)), n = 0 => total = call.size,
           \A k \in 0 .. n - 1 : b[Shift + k] = ItemByte(total + k)
    PROVE  /\ UNCHANGED <<call, calls>> /\ total' = total + n /\ total' \in Nat
           /\ total' <= call.size /\ Len(got') = total' /\ Delivered'
           /\ \/ /\ pc' = "read" /\ outcome' = "none" /\ refused' = refused
                 /\ Whole(total') /\ total' < call.size
              \/ pc' = "idle" /\ outcome' = "true" /\ total' = call.size /\ refused' = refused
              \/ pc' = "idle" /\ outcome' = "false" /\ refused' = TRUE
  <1>1. /\ Ranges /\ Delivered /\ outcome = "none" /\ Len(got) = total /\ Whole(total)
        /\ Asked \in Entries
    BY RangesHold DEF IInv, Calling, Placed, Whole
  <1>2. total \in Nat /\ call.size \in Nat /\ total <= call.size
    BY <1>1 DEF Ranges
  <1>3. Chunk(call.kind) \in Nat \ {0} /\ Whole(Chunk(call.kind))
    BY <1>1, Chunks DEF Ranges
  <1>4. n <= call.size - total /\ (n < call.size - total => Whole(n))
    BY <1>2, <1>3 DEF Smaller
  <1>5. /\ UNCHANGED <<call, calls>> /\ total' = total + n /\ total' \in Nat
        /\ total' <= call.size
    BY <1>2, <1>4 DEF ReadTrue
  <1>6. Len(got') = total' /\ Delivered'
    <2> DEFINE new == [k \in 1 .. n |-> b[Shift + k - 1]]
    <2>1. got' = got \o new
      BY DEF ReadTrue
    <2>2. \A k \in 1 .. n : new[k] = ItemByte(total + k - 1)
      <3>1. \A k \in 1 .. n : new[k] = ItemByte(total + k - 1)
        <4> SUFFICES ASSUME NEW k \in 1 .. n
                     PROVE  b[Shift + k - 1] = ItemByte(total + k - 1)
          OBVIOUS
        <4>1. k - 1 \in 0 .. n - 1 /\ Shift \in Nat
          BY <1>2 DEF Shift
        <4>2. Shift + (k - 1) = Shift + k - 1 /\ total + (k - 1) = total + k - 1
          BY <1>2, <4>1
        <4> QED
          BY <4>1, <4>2
      <3> QED
        BY <3>1
    <2>3. new \in [1 .. n -> Int]
      <3>1. \A k \in 1 .. n : ItemByte(total + k - 1) \in Int
        <4>1. Table[Asked].offset \in Nat
          BY <1>1, EntryFacts
        <4>2. \A q \in Int : FileByte(q) \in Int
          BY DEF FileByte, Zero
        <4>3. \A k \in 1 .. n : Table[Asked].offset + (total + k - 1) \in Int
          BY <1>2, <4>1
        <4> QED
          BY <4>2, <4>3 DEF ItemByte
      <3> QED
        BY <2>2, <3>1
    <2> HIDE DEF new
    <2>4. got \in Seq(Int) /\ \A k \in 1 .. total : got[k] = ItemByte(k - 1)
      BY <1>1 DEF Delivered
    <2>5. /\ got' \in Seq(Int) /\ Len(got') = total + n
          /\ \A k \in 1 .. total : got'[k] = got[k]
          /\ \A k \in 1 .. n : got'[total + k] = new[k]
      BY <1>1, <2>1, <2>3, <2>4, Appended
    <2>6. \A k \in 1 .. total + n : got'[k] = ItemByte(k - 1)
      <3> SUFFICES ASSUME NEW k \in 1 .. total + n
                   PROVE  got'[k] = ItemByte(k - 1)
        OBVIOUS
      <3>1. CASE k <= total
        BY <1>2, <2>4, <2>5, <3>1
      <3>2. CASE k > total
        <4>1. /\ k - total \in 1 .. n /\ total + (k - total) = k
              /\ total + (k - total) - 1 = k - 1
          BY <1>2, <3>2
        <4>2. got'[total + (k - total)] = new[k - total]
          BY <2>5, <4>1
        <4>3. new[k - total] = ItemByte(total + (k - total) - 1)
          BY <2>2, <4>1
        <4> QED
          BY <4>1, <4>2, <4>3, Zenon
      <3> QED
        BY <1>2, <3>1, <3>2
    <2>7. \A k : ItemByte(k)' = ItemByte(k)
      BY <1>5, SameImage
    <2> QED
      BY <1>5, <2>5, <2>6, <2>7 DEF Delivered
  <1>7. CASE refused' = TRUE /\ End("false")
    BY <1>5, <1>6, <1>7 DEF End
  <1>8. CASE refused' = refused /\ Ends(total + n) /\ End("true")
    <2>1. total' = call.size
      BY <1>2, <1>5, <1>8 DEF Ends
    <2> QED
      BY <1>5, <1>6, <1>8, <2>1 DEF End
  <1>9. CASE refused' = refused /\ ~Ends(total + n) /\ pc' = "read" /\ outcome' = outcome
    <2>1. total' < call.size /\ n < call.size - total
      BY <1>2, <1>5, <1>9 DEF Ends
    <2>2. Whole(total')
      BY <1>1, <1>2, <1>4, <1>5, <2>1, WholeAdd
    <2> QED
      BY <1>1, <1>5, <1>6, <1>9, <2>1, <2>2
  <1> QED
    BY <1>7, <1>8, <1>9 DEF ReadTrue

\* Types of what a read works with.
Fits ==
    /\ fpos \in Nat /\ want \in 0 .. BufSize /\ length \in 0 .. want /\ readlen \in 0 .. length
    /\ DOMAIN buf = 0 .. BufSize - 1

\* The invariant after a read that answers true.
LEMMA AfterTrue ==
    ASSUME IInv, Active, UNCHANGED img, NEW b, NEW n \in Nat, ReadTrue(b, n),
           n = Smaller(call.size - total, Chunk(call.kind)), n = 0 => total = call.size,
           \A k \in 0 .. n - 1 : b[Shift + k] = ItemByte(total + k),
           hItem' = [index |-> hItem.index, pos |-> total + n], Known \/ n = 0, Fits'
    PROVE  IInv'
  <1> DEFINE Goes == /\ pc' = "read" /\ outcome' = "none" /\ refused' = refused
                     /\ Whole(total') /\ total' < call.size
             Done == pc' = "idle" /\ outcome' = "true" /\ total' = call.size /\ refused' = refused
             Refused == pc' = "idle" /\ outcome' = "false" /\ refused' = TRUE
  <1>0. /\ Ranges /\ TypeOK /\ Calling /\ Placed
        /\ hItem.index \in Entries /\ Asked \in Entries
    BY RangesHold DEF IInv, Calling
  <1>1. /\ UNCHANGED <<call, calls>> /\ total' = total + n /\ total' \in Nat
        /\ total' <= call.size /\ Len(got') = total' /\ Delivered'
        /\ Goes \/ Done \/ Refused
    BY ReadTrueDoes
  <1> HIDE DEF Goes, Done, Refused
  <1>2. Asked' = Asked /\ WellFormed' = WellFormed /\ Known' = Known
    BY <1>1, SameImage
  <1>3. TypeOK'
    <2>1. refused' \in BOOLEAN
      <3>1. refused \in BOOLEAN
        BY <1>0 DEF TypeOK
      <3> QED
        BY <1>1, <3>1, Zenon DEF Goes, Done, Refused
    <2>2. pc' \in {"idle", "read"} /\ outcome' \in {"none", "true", "false", "error"}
      BY <1>1 DEF Goes, Done, Refused
    <2>3. total' \in 0 .. call'.size /\ Len(got') <= call'.size
      BY <1>0, <1>1 DEF Ranges
    <2>4. hItem' \in [index : Entries \cup {0}, pos : Nat]
      BY <1>0, <1>1
    <2>5. /\ img' \in [fp : {"none", "open", "closed"}, version : Versions \cup {100},
                       length : Lengths \cup {0}]
          /\ call' \in [kind : Kinds, name : Names, size : 0 .. Word - 1]
          /\ calls' \in 0 .. MaxCalls
      BY <1>0, <1>1 DEF TypeOK
    <2> QED
      BY <2>1, <2>2, <2>3, <2>4, <2>5 DEF TypeOK, Fits
  <1>4. ~(pc' = "piece")
    BY <1>1 DEF Goes, Done, Refused
  <1>5. Calling'
    <2>1. img'.fp = "open" /\ Asked' \in Entries /\ hItem'.index = Asked'
      BY <1>0, <1>2 DEF Calling
    <2>2. call'.size <= Table[Asked'].file
      BY <1>0, <1>1, <1>2 DEF Calling
    <2>3. call'.kind = "mem" => call'.size \in 1 .. BufSize
      BY <1>0, <1>1 DEF Calling
    <2>4. pc' # "idle" => outcome' = "none" /\ ~refused'
      <3>1. ~refused
        BY <1>0 DEF Calling
      <3> QED
        BY <1>1, <3>1, Zenon DEF Goes, Done, Refused
    <2> QED
      BY <2>1, <2>2, <2>3, <2>4 DEF Calling, Active
  <1>6. Placed'
    <2>1. pc' # "idle" => Whole(total') /\ total' < call'.size
      BY <1>1 DEF Goes, Done, Refused
    <2>2. Known' \/ total' = 0
      BY <1>0, <1>1, <1>2 DEF Placed
    <2>3. hItem'.pos = total'
      BY <1>1
    <2> QED
      BY <1>1, <2>1, <2>2, <2>3 DEF Placed, Whole, Active
  <1>7. WholeOnSuccess'
    <2>1. outcome' = "true" => total' = call'.size
      BY <1>1 DEF Goes, Done, Refused
    <2> QED
      BY <1>1, <2>1 DEF WholeOnSuccess
  <1>8. NoFalseFailure'
    <2>1. outcome' \in {"false", "error"} => refused'
      BY <1>1 DEF Goes, Done, Refused
    <2> QED
      BY <2>1 DEF NoFalseFailure
  <1> QED
    BY <1>1, <1>3, <1>4, <1>5, <1>6, <1>7, <1>8 DEF IInv, Piecing

\* The invariant after a read that ends the call in another way: it may, of an image of
\* another version or an item with less data than bytes.
LEMMA AfterEnd ==
    ASSUME IInv, Active, UNCHANGED <<img, hItem, call, total, refused, got, calls>>, Fits',
           pc' = "idle",
           \/ outcome' = "true" /\ ~Known
           \/ outcome' = "false" /\ ~Known
           \/ outcome' = "error" /\ ~(Known /\ WellFormed)
    PROVE  IInv'
  <1>0. TypeOK /\ Calling /\ Delivered
    BY DEF IInv
  <1>1. /\ Asked' = Asked /\ WellFormed' = WellFormed /\ Known' = Known
        /\ \A k : ItemByte(k)' = ItemByte(k)
    BY SameImage
  <1>2. TypeOK'
    <2>1. refused' \in BOOLEAN
      BY <1>0 DEF TypeOK
    <2>2. /\ img' \in [fp : {"none", "open", "closed"}, version : Versions \cup {100},
                       length : Lengths \cup {0}]
          /\ call' \in [kind : Kinds, name : Names, size : 0 .. Word - 1]
          /\ calls' \in 0 .. MaxCalls /\ total' \in 0 .. call'.size /\ Len(got') <= call'.size
          /\ hItem' \in [index : Entries \cup {0}, pos : Nat]
      BY <1>0 DEF TypeOK
    <2> QED
      BY <2>1, <2>2 DEF TypeOK, Fits
  <1>3. Calling' /\ Placed' /\ Piecing'
    <2>1. img'.fp = "open"
      BY <1>0 DEF Calling
    <2> QED
      BY <2>1 DEF Calling, Placed, Piecing, Active
  <1>4. Delivered' /\ WholeOnSuccess' /\ NoFalseFailure'
    BY <1>0, <1>1 DEF Delivered, WholeOnSuccess, NoFalseFailure
  <1> QED
    BY <1>2, <1>3, <1>4 DEF IInv

\* The start of a read: it raises, ends the call, or goes on to its first turn.
LEMMA StartKeeps ==
    ASSUME IInv, StartRead
    PROVE  IInv'
  <1>0. /\ Ranges /\ TypeOK /\ Calling /\ Placed /\ Delivered /\ pc = "read" /\ Active
        /\ hItem.index = Asked /\ Asked \in Entries /\ UNCHANGED <<img, hItem, buf>>
    BY RangesHold DEF IInv, StartRead, Calling, Active
  <1>1. /\ total \in Nat /\ call.size \in Nat /\ total <= call.size /\ hItem.pos = total
        /\ Known \/ total = 0
        /\ call.size <= Table[Asked].file /\ Table[Asked].file \in Nat /\ Whole(total)
        /\ call.size < Word /\ Table[Asked].offset \in Nat /\ Table[Asked].data \in Nat
    BY <1>0, EntryFacts DEF IInv, Ranges, Placed, Calling, Whole
  <1>2. /\ want' = Smaller(call.size - total, Chunk(call.kind)) /\ readlen' = 0
        /\ want' \in Nat /\ want' <= BufSize /\ want' <= call.size - total
        /\ length' \in Nat /\ length' <= want'
        /\ Known => length' = want'
        /\ ~Known => length' = 0
        /\ want' = 0 => total = call.size
    BY Planned
  <1>3. /\ want' \in 0 .. BufSize /\ length' \in 0 .. want' /\ readlen' \in 0 .. length'
        /\ DOMAIN buf' = 0 .. BufSize - 1
    BY <1>0, <1>2, Sizes DEF Ranges
  <1>4. CASE /\ PastEnd(hItem.pos, DataLen) \/ Lo(hItem.pos) % Block # 0
             /\ End("error") /\ fpos' = fpos
             /\ UNCHANGED <<call, total, refused, got, calls>>
    <2>1. ~(Known /\ WellFormed)
      <3> SUFFICES ASSUME Known, WellFormed
                   PROVE  FALSE
        OBVIOUS
      <3>1. DataLen = Table[Asked].data /\ Table[Asked].file <= Table[Asked].data
        BY <1>0 DEF DataLen, WellFormed
      <3>2. ~PastEnd(hItem.pos, DataLen)
        BY <1>1, <3>1 DEF PastEnd
      <3>3. total < Word
        BY <1>1, Sizes
      <3>4. total % Word = total
        BY <1>1, <3>3, Sizes, Z3
      <3>5. Lo(hItem.pos) % Block = 0
        BY <1>1, <3>4 DEF Lo, Whole
      <3> QED
        BY <1>4, <3>2, <3>5
    <2>2. Fits'
      BY <1>0, <1>3, <1>4 DEF Fits, Ranges
    <2> QED
      BY <1>0, <1>4, <2>1, <2>2, AfterEnd DEF End
  <1>5. CASE /\ fpos' = Offset + hItem.pos
             /\ IF length' > 0 THEN pc' = "piece" /\ UNCHANGED caller
                ELSE IF want' = 0 THEN ReadTrue(buf, 0)
                ELSE ReadFalse
    <2>1. Offset \in Nat /\ fpos' = Offset + total /\ fpos' \in Nat
      BY <1>0, <1>1, <1>5 DEF Offset
    <2>2. Fits'
      BY <1>3, <2>1 DEF Fits
    <2>3. CASE length' > 0
      <3>1. Known /\ pc' = "piece" /\ UNCHANGED caller
        BY <1>2, <1>5, <2>3
      <3>2. UNCHANGED <<call, total, outcome, refused, got, calls>>
        BY <3>1 DEF caller
      <3>3. /\ Asked' = Asked /\ WellFormed' = WellFormed /\ Known' = Known
            /\ \A k : ItemByte(k)' = ItemByte(k)
        BY <1>0, <3>2, SameImage
      <3>4. TypeOK'
        <4>1. refused' \in BOOLEAN
          BY <1>0, <3>2 DEF TypeOK
        <4>2. /\ img' \in [fp : {"none", "open", "closed"}, version : Versions \cup {100},
                           length : Lengths \cup {0}]
              /\ call' \in [kind : Kinds, name : Names, size : 0 .. Word - 1]
              /\ calls' \in 0 .. MaxCalls /\ total' \in 0 .. call'.size /\ Len(got') <= call'.size
              /\ hItem' \in [index : Entries \cup {0}, pos : Nat]
              /\ outcome' \in {"none", "true", "false", "error"}
          BY <1>0, <3>2 DEF TypeOK
        <4> QED
          BY <2>2, <3>1, <4>1, <4>2 DEF TypeOK, Fits
      <3>5. Calling' /\ Placed'
        <4>1. Calling'
          BY <1>0, <3>1, <3>2, <3>3 DEF Calling, Active
        <4>2. Placed'
          BY <1>0, <3>1, <3>2, <3>3 DEF Placed, Active
        <4> QED
          BY <4>1, <4>2
      <3>6. Piecing'
        <4>1. Known' /\ length' = want' /\ want' = Smaller(call'.size - total', Chunk(call'.kind))
          BY <1>2, <3>1, <3>2, <3>3 DEF Chunk
        <4>2. readlen' % Block = 0 /\ readlen' < length'
          <5>1. 0 % Block = 0
            BY Sizes, Z3
          <5> QED
            BY <1>2, <2>3, <5>1
        <4>3. Offset' = Offset
          BY <1>0, <3>3 DEF Offset
        <4>4. fpos' = Offset' + total' + readlen'
          BY <1>1, <1>2, <2>1, <3>2, <4>3
        <4>5. fpos' <= Offset' + total' + readlen'
          BY <2>1, <4>4
        <4>6. 0 .. readlen' - 1 = {}
          BY <1>2
        <4> QED
          BY <4>1, <4>2, <4>4, <4>5, <4>6 DEF Piecing
      <3>7. Delivered' /\ WholeOnSuccess' /\ NoFalseFailure'
        <4>1. outcome' = "none"
          BY <1>0, <3>2 DEF Calling
        <4> QED
          BY <1>0, <3>2, <3>3, <4>1 DEF Delivered, WholeOnSuccess, NoFalseFailure
      <3> QED
        BY <3>4, <3>5, <3>6, <3>7 DEF IInv
    <2>4. CASE ~(length' > 0) /\ want' = 0
      <3>1. ReadTrue(buf, 0)
        BY <1>5, <2>4
      <3>2. 0 = Smaller(call.size - total, Chunk(call.kind)) /\ total = call.size
        BY <1>2, <2>4
      <3>3. hItem' = [index |-> hItem.index, pos |-> total + 0]
        BY <1>0, <1>1 DEF Ranges
      <3>4. \A k \in 0 .. 0 - 1 : buf[Shift + k] = ItemByte(total + k)
        OBVIOUS
      <3> QED
        BY <1>0, <2>2, <3>1, <3>2, <3>3, <3>4, AfterTrue
    <2>5. CASE ~(length' > 0) /\ want' # 0
      <3>1. ReadFalse /\ ~Known
        BY <1>2, <1>5, <2>5
      <3>2. /\ UNCHANGED <<call, total, refused, got, calls>> /\ pc' = "idle"
            /\ outcome' \in {"true", "false"}
        BY <3>1 DEF ReadFalse, End
      <3> QED
        BY <1>0, <2>2, <3>1, <3>2, AfterEnd
    <2> QED
      BY <2>3, <2>4, <2>5
  <1> QED
    BY <1>4, <1>5 DEF StartRead

\* What whole blocks leave of whole blocks is whole blocks.
LEMMA WholeSub ==
    ASSUME NEW m \in Nat, NEW n \in Nat, Whole(m), Whole(n), n <= m
    PROVE  m - n \in Nat /\ Whole(m - n)
  <1>1. PICK x \in Nat, y \in Nat : m = x * Block /\ n = y * Block
    BY WholeIs
  <1>2. x >= y
    <2> SUFFICES ASSUME y >= x + 1
                 PROVE  FALSE
      OBVIOUS
    <2>1. y * Block >= (x + 1) * Block /\ (x + 1) * Block = m + Block
      BY <1>1, Sizes, Z3
    <2> QED
      BY <1>1, <2>1, Sizes
  <1>3. m - n = (x - y) * Block /\ x - y \in Nat
    BY <1>1, <1>2, Sizes, Z3
  <1>4. m - n \in Nat
    OBVIOUS
  <1> QED
    BY <1>3, <1>4, WholeIs

\* The blocks of a turn fit the buffer.
LEMMA Inside ==
    ASSUME Ranges, Calling, Placed, Piecing, pc = "piece"
    PROVE  /\ Shift \in Nat /\ Shift + readlen + Blocks(ThisRead) <= BufSize
           /\ Shift + readlen \in Nat
  <1>1. /\ total \in Nat /\ call.size \in Nat /\ want \in Nat /\ length = want /\ readlen \in Nat
        /\ total <= call.size /\ call.kind \in Kinds /\ Whole(total) /\ Whole(readlen)
        /\ want = Smaller(call.size - total, Chunk(call.kind))
        /\ call.kind = "mem" => call.size \in 1 .. BufSize
    BY DEF Ranges, Calling, Placed, Piecing, Whole, Active
  <1>2. /\ ThisRead \in Nat /\ readlen + ThisRead <= want
    BY <1>1, Turn
  <1>3. Chunk(call.kind) \in Nat /\ Chunk(call.kind) <= BufSize
    BY <1>1, Chunks
  <1>4. want <= call.size - total /\ want <= BufSize
    BY <1>1, <1>3, Sizes DEF Smaller
  <1>5. Shift \in Nat /\ Whole(Shift) /\ Shift + want <= BufSize
    <2>1. CASE call.kind = "mem"
      BY <1>1, <1>4, <2>1, Sizes DEF Shift
    <2>2. CASE call.kind # "mem"
      <3>1. Whole(0)
        BY Sizes, Z3 DEF Whole
      <3> QED
        BY <1>1, <1>4, <2>2, <3>1 DEF Shift
    <2> QED
      BY <2>1, <2>2
  <1>6. Shift + readlen \in Nat /\ Whole(Shift + readlen)
    BY <1>1, <1>5, WholeAdd
  <1>7. Shift + readlen + ThisRead <= BufSize /\ Shift + readlen <= BufSize
    BY <1>1, <1>2, <1>5, Sizes
  <1>8. BufSize - (Shift + readlen) \in Nat /\ Whole(BufSize - (Shift + readlen))
    BY <1>6, <1>7, WholeSub, Sizes
  <1>9. ThisRead <= BufSize - (Shift + readlen)
    BY <1>2, <1>6, <1>7, Sizes
  <1>10. Blocks(ThisRead) <= BufSize - (Shift + readlen) /\ Blocks(ThisRead) \in Nat
    BY <1>2, <1>8, <1>9, RoundUp
  <1> QED
    BY <1>5, <1>6, <1>10, Sizes

\* What a turn puts into the buffer are the bytes of the item, or zeroes where the file ends.
LEMMA TurnReads ==
    ASSUME IInv, ReadPiece
    PROVE  /\ DOMAIN buf' = 0 .. BufSize - 1
           /\ \A k \in 0 .. readlen + ThisRead - 1 : buf'[Shift + k] = ItemByte(total + k)
  <1>0. /\ Ranges /\ Calling /\ Placed /\ Piecing /\ pc = "piece" /\ buf' = Filled
        /\ hItem.index = Asked /\ Known
    BY RangesHold DEF IInv, ReadPiece, Calling, Piecing, Active
  <1>1. /\ ThisRead \in Nat \ {0} /\ Blocks(ThisRead) \in Nat /\ ThisRead <= Blocks(ThisRead)
        /\ Shift \in Nat /\ Shift + readlen + Blocks(ThisRead) <= BufSize
        /\ readlen \in Nat /\ total \in Nat /\ BufSize \in Nat /\ fpos \in Nat /\ img.length \in Nat
    BY <1>0, Turn, Inside, Sizes DEF Ranges
  <1>2. DOMAIN buf = 0 .. BufSize - 1
    BY <1>0 DEF Ranges
  <1>3. /\ DOMAIN buf' = 0 .. BufSize - 1
        /\ \A p \in 0 .. BufSize - 1 :
              buf'[p] = IF Shift + readlen <= p /\ p < Shift + readlen + Blocks(ThisRead)
                        THEN FileByte(fpos + p - (Shift + readlen)) ELSE buf[p]
    BY <1>0, <1>2 DEF Filled
  <1>4. /\ Offset \in Nat /\ \A k : ItemByte(k) = FileByte(Offset + k)
        /\ fpos <= Offset + total + readlen
        /\ fpos = Offset + total + readlen \/ fpos >= img.length
    <2>1. Offset = Table[Asked].offset
      BY <1>0 DEF Offset
    <2>2. Asked \in Entries
      BY <1>0 DEF Calling, Active
    <2> QED
      BY <1>0, <2>1, <2>2, EntryFacts DEF ItemByte, Piecing
  <1>5. ASSUME NEW k \in 0 .. readlen + ThisRead - 1
        PROVE  buf'[Shift + k] = ItemByte(total + k)
    <2>1. k \in Nat /\ Shift + k \in 0 .. BufSize - 1
          /\ Shift + k < Shift + readlen + Blocks(ThisRead)
      BY <1>1
    <2>2. CASE k < readlen
      <3>1. ~(Shift + readlen <= Shift + k) /\ k \in 0 .. readlen - 1
        BY <1>1, <2>1, <2>2
      <3>2. buf'[Shift + k] = buf[Shift + k]
        BY <1>3, <2>1, <3>1
      <3> QED
        BY <1>0, <3>1, <3>2 DEF Piecing
    <2>3. CASE k >= readlen
      <3>1. /\ Shift + readlen <= Shift + k
            /\ fpos + (Shift + k) - (Shift + readlen) = fpos + k - readlen
        BY <1>1, <2>1, <2>3
      <3>2. buf'[Shift + k] = FileByte(fpos + k - readlen)
        BY <1>3, <2>1, <3>1
      <3>3. FileByte(fpos + k - readlen) = FileByte(Offset + total + k)
        <4>1. fpos + k - readlen \in Nat /\ fpos + k - readlen <= Offset + total + k
          BY <1>1, <1>4, <2>1, <2>3
        <4>2. fpos = Offset + total + readlen => fpos + k - readlen = Offset + total + k
          BY <1>1, <1>4, <2>1
        <4>3. fpos >= img.length => /\ ~(fpos + k - readlen < img.length)
                                    /\ ~(Offset + total + k < img.length)
          BY <1>1, <1>4, <2>1, <2>3
        <4> QED
          BY <1>4, <4>2, <4>3 DEF FileByte
      <3>4. ItemByte(total + k) = FileByte(Offset + total + k)
        <4>1. Offset + (total + k) = Offset + total + k
          BY <1>1, <1>4, <2>1
        <4> QED
          BY <1>4, <4>1
      <3> QED
        BY <3>2, <3>3, <3>4
    <2> QED
      BY <1>1, <2>1, <2>2, <2>3
  <1> QED
    BY <1>3, <1>5

\* The file is where the next turn reads, or at its end.
LEMMA TurnSeeks ==
    ASSUME IInv, ReadPiece
    PROVE  /\ fpos' \in Nat
           /\ readlen' < length =>
                 /\ fpos' <= Offset + total + readlen'
                 /\ fpos' = Offset + total + readlen' \/ fpos' >= img.length
  <1>0. /\ Ranges /\ Calling /\ Placed /\ Piecing /\ pc = "piece"
        /\ fpos' = Smaller(fpos + Blocks(ThisRead), IF fpos > img.length THEN fpos ELSE img.length)
        /\ readlen' = readlen + ThisRead
    BY RangesHold DEF IInv, ReadPiece
  <1>1. /\ ThisRead \in Nat \ {0} /\ Blocks(ThisRead) \in Nat
        /\ readlen + ThisRead < length => Blocks(ThisRead) = ThisRead
        /\ readlen \in Nat /\ total \in Nat /\ fpos \in Nat /\ img.length \in Nat
    BY <1>0, Turn DEF Ranges
  <1>2. /\ Offset \in Nat
        /\ fpos <= Offset + total + readlen
        /\ fpos = Offset + total + readlen \/ fpos >= img.length
    <2>1. Asked \in Entries /\ hItem.index = Asked
      BY <1>0 DEF Calling, Active
    <2> QED
      BY <1>0, <2>1, EntryFacts DEF Piecing, Offset
  <1> QED
    BY <1>0, <1>1, <1>2 DEF Smaller

\* A turn: more are to come, or the read is whole.
LEMMA PieceKeeps ==
    ASSUME IInv, ReadPiece
    PROVE  IInv'
  <1>0. /\ Ranges /\ TypeOK /\ Calling /\ Placed /\ Piecing /\ Delivered /\ pc = "piece"
        /\ Active /\ hItem.index = Asked /\ Known /\ outcome = "none"
        /\ UNCHANGED <<img, want, length>> /\ readlen' = readlen + ThisRead
    BY RangesHold DEF IInv, ReadPiece, Calling, Piecing, Active
  <1>1. /\ total \in Nat /\ readlen \in Nat /\ length \in Nat /\ want \in Nat /\ want <= BufSize
        /\ readlen < length /\ length = want /\ hItem.pos = total
        /\ want = Smaller(call.size - total, Chunk(call.kind))
        /\ Whole(readlen)
    BY <1>0 DEF Ranges, Piecing, Placed, Whole
  <1>2. /\ ThisRead \in Nat \ {0} /\ readlen' <= length /\ readlen' \in Nat
        /\ readlen' < length => ThisRead = Piece
    BY <1>0, <1>1, Turn
  <1>3. /\ DOMAIN buf' = 0 .. BufSize - 1
        /\ \A k \in 0 .. readlen' - 1 : buf'[Shift + k] = ItemByte(total + k)
    <2>1. /\ DOMAIN buf' = 0 .. BufSize - 1
          /\ \A k \in 0 .. readlen + ThisRead - 1 : buf'[Shift + k] = ItemByte(total + k)
      BY TurnReads
    <2>2. readlen' = readlen + ThisRead
      BY <1>0
    <2>3. readlen' - 1 = readlen + ThisRead - 1
      BY <1>1, <1>2, <2>2
    <2>4. 0 .. readlen' - 1 = 0 .. readlen + ThisRead - 1
      BY <2>3, Zenon
    <2> QED
      BY <2>1, <2>4, Zenon
  <1>4. Fits'
    <2>1. want' \in 0 .. BufSize /\ length' \in 0 .. want' /\ readlen' \in 0 .. length'
      BY <1>0, <1>1, <1>2, Sizes
    <2> QED
      BY <1>3, <2>1, TurnSeeks DEF Fits
  <1>5. CASE readlen' < length /\ UNCHANGED <<hItem, pc, caller>>
    <2>1. UNCHANGED <<call, total, outcome, refused, got, calls, hItem, pc>>
      BY <1>5 DEF caller
    <2>2. /\ Asked' = Asked /\ WellFormed' = WellFormed /\ Known' = Known
          /\ \A k : ItemByte(k)' = ItemByte(k)
      BY <1>0, <2>1, SameImage
    <2>3. TypeOK'
      <3>1. refused' \in BOOLEAN
        BY <1>0, <2>1 DEF TypeOK
      <3>2. /\ img' \in [fp : {"none", "open", "closed"}, version : Versions \cup {100},
                         length : Lengths \cup {0}]
            /\ call' \in [kind : Kinds, name : Names, size : 0 .. Word - 1]
            /\ calls' \in 0 .. MaxCalls /\ total' \in 0 .. call'.size /\ Len(got') <= call'.size
            /\ hItem' \in [index : Entries \cup {0}, pos : Nat]
            /\ outcome' \in {"none", "true", "false", "error"} /\ pc' = "piece"
        BY <1>0, <2>1 DEF TypeOK
      <3> QED
        BY <1>4, <3>1, <3>2 DEF TypeOK, Fits
    <2>4. Calling'
      BY <1>0, <2>1, <2>2 DEF Calling, Active
    <2>5. Placed'
      BY <1>0, <2>1, <2>2 DEF Placed, Active
    <2>6. Piecing'
      <3>1. Whole(readlen')
        BY <1>0, <1>1, <1>2, <1>5, Sizes, WholeAdd
      <3>2. Offset' = Offset /\ Shift' = Shift
        BY <1>0, <2>1, <2>2 DEF Offset, Shift
      <3>3. /\ fpos' <= Offset' + total' + readlen'
            /\ fpos' = Offset' + total' + readlen' \/ fpos' >= img'.length
        BY <1>0, <1>5, <2>1, <3>2, TurnSeeks
      <3>4. \A k \in 0 .. readlen' - 1 : buf'[Shift' + k] = ItemByte(total + k)'
        <4> SUFFICES ASSUME NEW k \in 0 .. readlen' - 1
                     PROVE  buf'[Shift' + k] = ItemByte(total + k)'
          OBVIOUS
        <4>1. buf'[Shift + k] = ItemByte(total + k)
          BY <1>3, Zenon
        <4>2. ItemByte(total + k)' = ItemByte(total + k)
          BY <1>0, <2>1, <2>2 DEF ItemByte, FileByte
        <4> QED
          BY <3>2, <4>1, <4>2, Zenon
      <3>41. total' = total
        BY <2>1
      <3>5. Known' /\ length' = want' /\ want' = Smaller(call'.size - total', Chunk(call'.kind))
        BY <1>0, <1>1, <2>1, <2>2
      <3>6. readlen' % Block = 0 /\ readlen' < length'
        BY <1>0, <1>5, <3>1 DEF Whole
      <3> QED
        BY <3>3, <3>4, <3>41, <3>5, <3>6 DEF Piecing
    <2>7. Delivered' /\ WholeOnSuccess' /\ NoFalseFailure'
      BY <1>0, <2>1, <2>2 DEF Delivered, WholeOnSuccess, NoFalseFailure
    <2> QED
      BY <2>3, <2>4, <2>5, <2>6, <2>7 DEF IInv
  <1>6. CASE /\ ~(readlen' < length) /\ hItem' = [hItem EXCEPT !.pos = @ + readlen']
             /\ IF readlen' = want THEN ReadTrue(buf', want) ELSE ReadFalse
    <2>1. readlen' = want /\ want # 0
      BY <1>1, <1>2, <1>6
    <2>2. ReadTrue(buf', want)
      BY <1>6, <2>1
    <2>3. hItem' = [index |-> hItem.index, pos |-> total + want]
      BY <1>0, <1>1, <1>6, <2>1 DEF Ranges
    <2>4. \A k \in 0 .. want - 1 : buf'[Shift + k] = ItemByte(total + k)
      BY <1>3, <2>1
    <2> QED
      BY <1>0, <1>1, <1>4, <2>1, <2>2, <2>3, <2>4, AfterTrue
  <1> QED
    BY <1>5, <1>6 DEF ReadPiece

------------------------------------------------------------------------------
(* The other steps, and what follows *)

\* A call, whatever it finds.
LEMMA CallKeeps ==
    ASSUME IInv, NEW kind \in Kinds, NEW name \in Names, Call(kind, name)
    PROVE  IInv'
  <1> DEFINE e == Find(name)
             size == IF kind = "probe" THEN Smaller(ItemSize(e), ProbeLen) ELSE ItemSize(e)
  <1>0. /\ Ranges /\ TypeOK /\ img.fp = "open" /\ pc = "idle" /\ calls < MaxCalls
        /\ calls' = calls + 1 /\ total' = 0 /\ got' = <<>> /\ refused' = FALSE
        /\ UNCHANGED <<img, fpos, buf, want, length, readlen>>
    BY RangesHold DEF IInv, Call, reader
  <1>1. /\ Fits' /\ calls' \in 0 .. MaxCalls
        /\ img' \in [fp : {"none", "open", "closed"}, version : Versions \cup {100},
                     length : Lengths \cup {0}]
    BY <1>0, Sizes DEF TypeOK, Fits
  <1>2. got' \in Seq(Int) /\ Len(got') = 0
    BY <1>0
  <1>3. Delivered'
    BY <1>2 DEF Delivered
  <1>4. CASE e = 0
    <2>1. /\ hItem' = NoItem /\ call' = [kind |-> kind, name |-> name, size |-> 0]
          /\ pc' = "idle" /\ outcome' = "false"
      BY <1>4 DEF Call, End
    <2>2. Asked' = 0
      BY <1>0, <1>4, <2>1 DEF Asked, Find, Matches
    <2>3. TypeOK'
      <3>1. call' \in [kind : Kinds, name : Names, size : 0 .. Word - 1] /\ 0 \in 0 .. call'.size
        BY <2>1, Sizes
      <3>2. hItem' \in [index : Entries \cup {0}, pos : Nat]
        BY <2>1 DEF NoItem
      <3>3. Len(got') <= call'.size
        BY <1>2, <2>1
      <3> QED
        BY <1>0, <1>1, <2>1, <3>1, <3>2, <3>3 DEF TypeOK, Fits
    <2> QED
      BY <1>0, <1>3, <2>1, <2>2, <2>3 DEF IInv, Calling, Placed, Piecing, WholeOnSuccess,
         NoFalseFailure, WellFormed, Active
  <1>5. CASE e # 0
    <2>1. /\ e \in Entries /\ ItemSize(e) \in 0 .. Word - 1 /\ ItemSize(e) <= Table[e].file
          /\ Table[e].file \in Nat
      BY <1>5, Found, EntryFacts
    <2>2. size \in Nat /\ size <= ItemSize(e) /\ size < Word
      BY <2>1, Sizes DEF Smaller
    <2>3. /\ hItem' = [index |-> e, pos |-> 0]
          /\ call' = [kind |-> kind, name |-> name, size |-> size]
          /\ \/ kind = "mem" /\ size = 0 /\ pc' = "idle" /\ outcome' = "false"
             \/ kind = "mem" /\ size > BufSize /\ pc' = "idle" /\ outcome' = "error"
             \/ /\ ~(kind = "mem" /\ size = 0) /\ ~(kind = "mem" /\ size > BufSize)
                /\ pc' = "read" /\ outcome' = "none"
      BY <1>5 DEF Call, End, ItemAt, TooLong
    <2> HIDE DEF size
    <2>4. Asked' = e
      BY <1>0, <2>3 DEF Asked, Find, Matches
    <2> HIDE DEF e
    <2>5. TypeOK'
      <3>1. call' \in [kind : Kinds, name : Names, size : 0 .. Word - 1] /\ 0 \in 0 .. call'.size
        BY <2>2, <2>3, Sizes
      <3>2. hItem' \in [index : Entries \cup {0}, pos : Nat]
        BY <2>1, <2>3
      <3>3. Len(got') <= call'.size
        BY <1>2, <2>2, <2>3
      <3>4. pc' \in {"idle", "read", "piece"} /\ outcome' \in {"none", "true", "false", "error"}
        BY <2>3
      <3> QED
        BY <1>0, <1>1, <3>1, <3>2, <3>3, <3>4 DEF TypeOK, Fits
    <2>6. Calling'
      <3>1. pc' # "idle" => outcome' = "none" /\ (kind = "mem" => size \in 1 .. BufSize)
        BY <2>2, <2>3, Sizes
      <3>2. call'.size <= Table[e].file /\ call'.size = size /\ call'.kind = kind
        BY <2>1, <2>2, <2>3
      <3> QED
        BY <1>0, <2>1, <2>3, <2>4, <3>1, <3>2 DEF Calling, Active
    <2>7. Placed'
      <3>1. 0 % Block = 0
        BY Sizes, Z3
      <3>2. 0 < call'.size \/ call'.size = 0
        BY <2>2, <2>3
      <3> QED
        BY <1>0, <1>2, <2>3, <3>1, <3>2 DEF Placed
    <2>8. ~(pc' = "piece") /\ outcome' # "true"
      BY <2>3
    <2>9. NoFalseFailure'
      <3>1. outcome' \in {"false", "error"} =>
               call'.kind = "mem" /\ (call'.size = 0 \/ call'.size > BufSize)
        BY <2>3
      <3> QED
        BY <3>1 DEF NoFalseFailure
    <2> QED
      BY <1>3, <2>5, <2>6, <2>7, <2>8, <2>9 DEF IInv, Piecing, WholeOnSuccess
  <1> QED
    BY <1>4, <1>5

\* Opening the image: nothing has been asked for.
LEMMA OpenKeeps ==
    ASSUME IInv, OpenImage
    PROVE  IInv'
  <1>0. /\ TypeOK /\ img.fp = "none" /\ pc = "idle" /\ outcome = "none" /\ got = <<>>
        /\ UNCHANGED <<fpos, hItem, pc, buf, want, length, readlen, call, total, outcome, refused,
                       got, calls>>
    BY DEF IInv, Calling, Active, OpenImage, reader, caller
  <1>1. /\ img'.fp = "open"
        /\ img' \in [fp : {"none", "open", "closed"}, version : Versions \cup {100},
                     length : Lengths \cup {0}]
    BY DEF OpenImage
  <1>2. TypeOK'
    <2>1. refused' \in BOOLEAN
      BY <1>0 DEF TypeOK
    <2> QED
      BY <1>0, <1>1, <2>1 DEF TypeOK
  <1>3. Calling' /\ Placed' /\ Piecing'
    BY <1>0, <1>1 DEF Calling, Placed, Piecing, Active
  <1>4. got' \in Seq(Int) /\ Len(got') = 0
    BY <1>0
  <1>5. Delivered' /\ WholeOnSuccess' /\ NoFalseFailure'
    BY <1>0, <1>4 DEF Delivered, WholeOnSuccess, NoFalseFailure
  <1> QED
    BY <1>2, <1>3, <1>5 DEF IInv

\* Closing it: what was delivered stays what the file holds.
LEMMA CloseKeeps ==
    ASSUME IInv, CloseImage
    PROVE  IInv'
  <1>0. /\ TypeOK /\ Delivered /\ WholeOnSuccess /\ NoFalseFailure /\ pc = "idle"
        /\ UNCHANGED <<fpos, hItem, pc, buf, want, length, readlen, call, total, outcome, refused,
                       got, calls>>
    BY DEF IInv, CloseImage, reader, caller
  <1>1. /\ img'.fp = "closed" /\ img'.version = img.version /\ img'.length = img.length
        /\ img' \in [fp : {"none", "open", "closed"}, version : Versions \cup {100},
                     length : Lengths \cup {0}]
    BY <1>0 DEF CloseImage, TypeOK
  <1>2. /\ Asked' = Asked /\ WellFormed' = WellFormed /\ Known' = Known
        /\ \A k : ItemByte(k)' = ItemByte(k)
    BY <1>0, <1>1 DEF Asked, WellFormed, Known, ItemByte, FileByte, Find, Matches
  <1>3. TypeOK'
    <2>1. refused' \in BOOLEAN
      BY <1>0 DEF TypeOK
    <2> QED
      BY <1>0, <1>1, <2>1 DEF TypeOK
  <1>4. Calling' /\ Placed' /\ Piecing'
    BY <1>0, <1>1 DEF Calling, Placed, Piecing, Active
  <1>5. Delivered' /\ WholeOnSuccess' /\ NoFalseFailure'
    BY <1>0, <1>2 DEF Delivered, WholeOnSuccess, NoFalseFailure
  <1> QED
    BY <1>3, <1>4, <1>5 DEF IInv

\* A step of no variable.
LEMMA StutterKeeps ==
    ASSUME IInv, UNCHANGED vars
    PROVE  IInv'
  <1>0. UNCHANGED <<img, fpos, hItem, pc, buf, want, length, readlen, call, total, outcome, refused,
                    got, calls>>
    BY DEF vars, reader, caller
  <1>1. TypeOK'
    BY <1>0 DEF IInv, TypeOK
  <1>2. Calling' /\ Placed' /\ NoFalseFailure' /\ WholeOnSuccess'
    <2>1. Asked' = Asked /\ WellFormed' = WellFormed /\ Known' = Known
      BY <1>0, SameImage
    <2>2. Calling' /\ Placed'
      BY <1>0, <2>1 DEF IInv, Calling, Placed, Active
    <2>3. NoFalseFailure' /\ WholeOnSuccess'
      BY <1>0, <2>1 DEF IInv, NoFalseFailure, WholeOnSuccess
    <2> QED
      BY <2>2, <2>3
  <1>3. /\ Offset' = Offset /\ Shift' = Shift /\ Known' = Known
        /\ \A k : Chunk(k)' = Chunk(k) /\ ItemByte(k)' = ItemByte(k)
    BY <1>0 DEF Offset, Shift, Chunk, ItemByte, FileByte, Asked, Find, Matches, Known
  <1>4. Delivered'
    BY <1>0, <1>3 DEF IInv, Delivered
  <1>5. Piecing'
    <2>1. ASSUME pc = "piece", NEW k \in 0 .. readlen - 1
          PROVE  buf'[Shift' + k] = ItemByte(total + k)'
      <3>1. buf[Shift + k] = ItemByte(total + k)
        BY <2>1 DEF IInv, Piecing
      <3>2. ItemByte(total + k)' = ItemByte(total + k)
        BY <1>0 DEF ItemByte, FileByte, Asked, Find, Matches
      <3> QED
        BY <1>0, <1>3, <3>1, <3>2
    <2>2. pc = "piece" =>
             /\ Known' /\ length' = want' /\ want' = Smaller(call'.size - total', Chunk(call'.kind))
             /\ readlen' % Block = 0 /\ readlen' < length'
             /\ fpos' <= Offset' + total' + readlen'
             /\ fpos' = Offset' + total' + readlen' \/ fpos' >= img'.length
      BY <1>0, <1>3 DEF IInv, Piecing
    <2> QED
      BY <1>0, <2>1, <2>2 DEF Piecing
  <1> QED
    BY <1>1, <1>2, <1>4, <1>5 DEF IInv

\* It holds at first.
LEMMA InitInv == Init => IInv
  <1> SUFFICES ASSUME Init
               PROVE  IInv
    OBVIOUS
  <1>1. /\ img.fp = "none" /\ pc = "idle" /\ outcome = "none" /\ got = <<>>
        /\ got \in Seq(Int) /\ Len(got) = 0
    BY DEF Init
  <1>2. TypeOK
    <2>1. /\ img \in [fp : {"none", "open", "closed"}, version : Versions \cup {100},
                      length : Lengths \cup {0}]
          /\ hItem \in [index : Entries \cup {0}, pos : Nat]
      BY DEF Init, NoItem
    <2>2. call \in [kind : Kinds, name : Names, size : 0 .. Word - 1] /\ 0 \in 0 .. call.size
          /\ call.size = 0
      BY Sizes DEF Init, Kinds
    <2>3. /\ fpos \in Nat /\ want \in 0 .. BufSize /\ length \in 0 .. want
          /\ readlen \in 0 .. length /\ DOMAIN buf = 0 .. BufSize - 1 /\ calls \in 0 .. MaxCalls
      BY Sizes DEF Init
    <2>4. refused \in BOOLEAN
      BY DEF Init
    <2>5. /\ pc \in {"idle", "read", "piece"} /\ total \in 0 .. call.size
          /\ outcome \in {"none", "true", "false", "error"} /\ Len(got) <= call.size
      BY <1>1, <2>2 DEF Init
    <2> QED
      BY <2>1, <2>2, <2>3, <2>4, <2>5 DEF TypeOK
  <1>3. Calling /\ Placed /\ Piecing
    BY <1>1 DEF Calling, Placed, Piecing, Active
  <1>4. Delivered /\ WholeOnSuccess /\ NoFalseFailure
    BY <1>1 DEF Delivered, WholeOnSuccess, NoFalseFailure
  <1> QED
    BY <1>2, <1>3, <1>4 DEF IInv

\* Every step keeps the invariant.
THEOREM NextInv == IInv /\ [Next]_vars => IInv'
  <1> SUFFICES ASSUME IInv, [Next]_vars
               PROVE  IInv'
    OBVIOUS
  <1>1. CASE OpenImage
    BY <1>1, OpenKeeps
  <1>2. CASE CloseImage
    BY <1>2, CloseKeeps
  <1>3. CASE CallItem
    BY <1>3, CallKeeps DEF CallItem
  <1>4. CASE StartRead
    BY <1>4, StartKeeps
  <1>5. CASE ReadPiece
    BY <1>5, PieceKeeps
  <1>6. CASE UNCHANGED vars
    BY <1>6, StutterKeeps
  <1> QED
    BY <1>1, <1>2, <1>3, <1>4, <1>5, <1>6 DEF Next, Read

\* So it holds always.
THEOREM Invariance == Spec => []IInv
  BY InitInv, NextInv, PTL DEF Spec

\* A caller is given the bytes of the item it asked for, from the first on, each once and in
\* order (Img_ReadItemData, imgdec_fun.lua).
THEOREM InOrder == Spec => []BytesInOrder
  <1>1. IInv => BytesInOrder
    BY DEF IInv, Delivered, BytesInOrder
  <1> QED
    BY <1>1, Invariance, PTL

\* The whole blocks that a turn reads never reach past the end of the caller's buffer.
THEOREM BlocksInside == Spec => []NoBlockOutside
  <1>1. IInv => NoBlockOutside
    BY RangesHold, Inside DEF IInv, NoBlockOutside
  <1> QED
    BY <1>1, Invariance, PTL

\* A call that says that an item is read has read it to the size it was said to have.
THEOREM SuccessIsWhole == Spec => []WholeOnSuccess
  <1>1. IInv => WholeOnSuccess
    BY DEF IInv
  <1> QED
    BY <1>1, Invariance, PTL

\* A call fails only for a reason: the item, the image or the device.
THEOREM FailureHasReason == Spec => []NoFalseFailure
  <1>1. IInv => NoFalseFailure
    BY DEF IInv
  <1> QED
    BY <1>1, Invariance, PTL
==============================================================================
