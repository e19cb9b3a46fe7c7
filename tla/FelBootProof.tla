----------------------------- MODULE FelBootProof -----------------------------
(* Proofs about FelBoot, for items of any size and any number of polls and of *)
(* calls: the invariant that relates the step the host is at to the buffer,   *)
(* the chunks sent and the state of fes1, and what follows from it.           *)
EXTENDS FelBoot, TLAPS

------------------------------------------------------------------------------
(* The script and the items *)

\* What entry_fel2fes does at each step.
LEMMA ScriptSteps ==
    /\ Len(Script) = 13 /\ DOMAIN Script = 1 .. 13
    /\ Script[1] = Step("save", "fes1") /\ Script[2] = Step("down", "fes1")
    /\ Script[3] = Step("clear", "log") /\ Script[4] = Step("run", "fes1")
    /\ Script[5] = Step("poll", "log")
    /\ Script[6] = Step("save", "uboot") /\ Script[7] = Step("patch", "uboot")
    /\ Script[8] = Step("down", "uboot")
    /\ Script[9] = Step("save", "dtb") /\ Script[10] = Step("down", "dtb")
    /\ Script[11] = Step("save", "sys_config") /\ Script[12] = Step("down", "sys_config")
    /\ Script[13] = Step("run", "uboot")
  BY DEF Script

\* The buffer has room for every item.
LEMMA BufferFits ==
    /\ \A i \in Items : Chunks[i] \in Nat \ {0} /\ 1 .. Chunks[i] \subseteq BufChunks
    /\ BufChunks \subseteq Nat \ {0} /\ 1 \in BufChunks
  <1> DEFINE S == {Chunks[i] : i \in Items}
             Largest(n) == n \in S /\ \A i \in Items : Chunks[i] <= n
  <1>1. \A i \in Items : Chunks[i] \in Nat \ {0}
    BY FelAssumption
  <1>2. \E n : Largest(n)
    <2> DEFINE a == Chunks["fes1"]
               b == Chunks["uboot"]
               c == Chunks["dtb"]
               d == Chunks["sys_config"]
    <2>1. {a, b, c, d} \subseteq Nat /\ S = {a, b, c, d}
      BY <1>1 DEF Items
    <2>2. PICK m \in {a, b, c, d} : a <= m /\ b <= m /\ c <= m /\ d <= m
      BY <2>1
    <2> QED
      BY <2>1, <2>2 DEF Items
  <1> DEFINE M == CHOOSE n \in S : \A i \in Items : Chunks[i] <= n
  <1>3. Largest(M)
    BY <1>2
  <1>4. BufChunks = 1 .. M
    BY DEF BufChunks
  <1> HIDE DEF M
  <1>5. M \in Nat \ {0} /\ \A i \in Items : Chunks[i] <= M
    BY <1>1, <1>3
  <1> QED
    BY <1>1, <1>4, <1>5

\* The step that reads an item, the one that sends it, the one that runs it.
SaveAt == [fes1 |-> 1, uboot |-> 6, dtb |-> 9, sys_config |-> 11]
DownAt == [fes1 |-> 2, uboot |-> 8, dtb |-> 10, sys_config |-> 12]
RunAt == [fes1 |-> 4, uboot |-> 13]

\* An item is read, then sent, then run; u-boot is patched before it is sent.
LEMMA Order ==
    /\ Len(Script) = 13
    /\ \A i \in Items : SaveAt[i] \in 1 .. 11 /\ DownAt[i] \in 2 .. 12
                          /\ SaveAt[i] < DownAt[i]
                          /\ (i # "uboot" => DownAt[i] = SaveAt[i] + 1)
    /\ \A i \in Codes : i \in Items /\ RunAt[i] \in 1 .. 13 /\ DownAt[i] < RunAt[i]
    /\ DownAt["uboot"] = 8 /\ RunAt["fes1"] = 4 /\ RunAt["uboot"] = 13
  BY ScriptSteps DEF SaveAt, DownAt, RunAt, Items, Codes

\* Where the host is when it does something, and with which item.
LEMMA WhereItIs ==
    ASSUME at \in 0 .. Len(Script)
    PROVE  /\ Doing("save") => Item \in Items /\ at = SaveAt[Item]
           /\ Doing("down") => Item \in Items /\ at = DownAt[Item]
           /\ Doing("run") => Item \in Codes /\ at = RunAt[Item]
           /\ Doing("clear") => at = 3
           /\ Doing("poll") => at = 5
           /\ Doing("patch") => at = 7
           /\ \A i \in Items : at = DownAt[i] => Doing("down") /\ Item = i
           /\ \A o, p : Doing(o) /\ Doing(p) => o = p
  BY ScriptSteps DEF Doing, Item, Step, Items, Codes, SaveAt, DownAt, RunAt

\* What it does at the steps that fill the buffer.
LEMMA WhatItReads ==
    /\ \A i \in Items : at = SaveAt[i] => Doing("save") /\ Item = i
    /\ at = 6 => Doing("save")
    /\ at = 7 => Doing("patch")
  BY ScriptSteps DEF Doing, Item, Step, Items, SaveAt

\* How a step of the host ends: the next step, the end of the script, or a failure.
LEMMA Ends ==
    ASSUME at \in 0 .. Len(Script), outcome = "none", at # 0, Advance \/ Fail
    PROVE  \/ at < 13 /\ at' = at + 1 /\ outcome' = "none" /\ held' = held
           \/ at = 13 /\ at' = 0 /\ outcome' = "true" /\ held' \subseteq held
           \/ at' = 0 /\ outcome' = "false" /\ held' \subseteq held
  <1>1. at \in 1 .. 13 /\ outcome = "none"
    BY Order
  <1> QED
    BY <1>1, Order DEF Advance, Fail

------------------------------------------------------------------------------
(* The inductive invariant *)

Contents == (Items \cup {"uboot, mode 16", "none"}) \X Nat

\* What TypeOK leaves open: contents and sets.
Types ==
    /\ buf \in [BufChunks -> Contents]
    /\ mem = [i \in Items |-> mem[i]]
    /\ \A i \in Items : mem[i] \in [1 .. Chunks[i] -> Contents]
    /\ sent \in [Items -> SUBSET Nat] /\ got \in [Items -> SUBSET Nat]
    /\ ran = [i \in Codes |-> ran[i]]

\* From the first save on, ret is the true number that close_item left; so the chunks of
\* an item are sent from the first to the last one before the next step.
Sending ==
    /\ at >= 2 => ret = "zero"
    /\ chunk # 1 => Doing("down")
    /\ \A i \in Items : at = DownAt[i] => chunk <= Chunks[i]
    /\ at # 0 => \A i \in Items :
                    sent[i] = IF at < DownAt[i] THEN {}
                              ELSE IF at = DownAt[i] THEN 1 .. chunk - 1 ELSE 1 .. Chunks[i]
    /\ outcome = "true" => \A i \in Items : sent[i] = 1 .. Chunks[i]

\* What an item that was read to its end has put in the buffer, until it is sent.
Buffered ==
    /\ at = 7 /\ "uboot" \notin cut => \A c \in 1 .. Chunks["uboot"] : buf[c] = <<"uboot", c>>
    /\ \A i \in Items \ cut :
          at = DownAt[i] => \A c \in 1 .. Chunks[i] : buf[c] = Content(i, c)

\* What has arrived of it; what is run later has not been run.
Delivered ==
    /\ \A i \in Items : got[i] \subseteq sent[i]
    /\ \A i \in Items \ cut : \A c \in got[i] : mem[i][c] = Content(i, c)
    /\ \A i \in Codes : at \in 1 .. RunAt[i] => ran[i] = <<>>

\* fes1 does not run before the log is cleared, so a log after that is its own.
Logging ==
    /\ at \in 1 .. 4 => fes1 = "off" /\ polls = 0
    /\ at = 4 => log = "clear"
    /\ at = 5 => polls < MaxPolls
    /\ at >= 5 /\ log = "flag" => fes1 = "ended"

IInv == TypeOK /\ Types /\ Sending /\ Buffered /\ Delivered
          /\ DeliveredMeansWhole /\ Logging /\ LogIsFresh

\* TypeOK without seen, the only variable that is a truth value.
Ranges ==
    /\ at \in 0 .. Len(Script)
    /\ outcome \in {"none", "true", "false", "nil", "error"}
    /\ at # 0 <=> outcome = "none"
    /\ held \subseteq {"dev", "buf", "item"}
    /\ DOMAIN buf = BufChunks
    /\ chunk \in BufChunks /\ (at = 0 => chunk = 1)
    /\ ret \in {"nil", "true", "false", "zero"}
    /\ polls \in 0 .. MaxPolls
    /\ \A i \in Items : DOMAIN mem[i] = 1 .. Chunks[i] /\ sent[i] \subseteq 1 .. Chunks[i]
    /\ log \in {"clear", "flag"} /\ fes1 \in {"off", "running", "ended"}
    /\ dram \in {"off", "ok", "bad"}
    /\ attempts \in 0 .. MaxAttempts

LEMMA TypeOKParts == TypeOK <=> Ranges /\ seen \in BOOLEAN
  BY DEF TypeOK, Ranges

LEMMA InitInv == Init => IInv
  <1> SUFFICES ASSUME Init PROVE IInv
    OBVIOUS
  <1>1. Ranges /\ seen \in BOOLEAN
    <2>1. seen \in BOOLEAN
      BY DEF Init
    <2>2. Ranges
      BY BufferFits, Order, FelAssumption DEF Init, Ranges
    <2> QED
      BY <2>1, <2>2
  <1>2. Types
    BY BufferFits DEF Init, Types, Contents, Blank
  <1>3. Sending
    BY Order DEF Init, Sending
  <1>4. Buffered /\ Delivered
    <2>1. at = 0 /\ got = sent /\ (\A i \in Items : sent[i] = {})
          /\ (\A i \in Codes : ran[i] = <<>>)
      BY DEF Init
    <2> QED
      BY <2>1, Order DEF Buffered, Delivered
  <1>5. DeliveredMeansWhole /\ Logging /\ LogIsFresh
    BY DEF Init, DeliveredMeansWhole, Logging, LogIsFresh
  <1> QED
    BY <1>1, <1>2, <1>3, <1>4, <1>5, TypeOKParts DEF IInv

------------------------------------------------------------------------------
(* Every step keeps the types *)

LEMMA RangesKeep ==
    ASSUME IInv, [Next]_vars
    PROVE  Ranges'
  <1>0. Ranges /\ Types /\ Sending /\ Logging /\ FelAssumption
    BY FelAssumption, TypeOKParts DEF IInv
  <1>a. at \in 0 .. Len(Script) /\ (~Doing("down") => chunk = 1)
    BY <1>0 DEF Ranges, Sending
  <1> USE Order, BufferFits DEF Ranges, Types
  <1>1. CASE Enter
    <2>1. /\ at' \in {0, 1} /\ outcome' \in {"none", "nil", "false"}
          /\ (at' # 0 <=> outcome' = "none") /\ held' \subseteq {"dev", "buf"}
      BY <1>1 DEF Enter
    <2>2. attempts' \in 0 .. MaxAttempts /\ polls' \in 0 .. MaxPolls
      BY <1>0, <1>1 DEF Enter
    <2>3. /\ chunk' = 1 /\ DOMAIN buf' = BufChunks /\ \A i \in Items : sent'[i] = {}
          /\ fes1' = "off" /\ dram' = "off" /\ UNCHANGED <<ret, mem, log>>
      BY <1>1 DEF Enter
    <2> QED
      BY <1>0, <2>1, <2>2, <2>3
  <1>2. CASE Save
    <2>1. /\ at # 0 /\ chunk = 1 /\ Advance
          /\ ret' = "zero" /\ DOMAIN buf' = BufChunks
          /\ UNCHANGED <<device, chunk, polls, sent, attempts>>
      BY <1>a, <1>2, WhereItIs DEF Save, Doing
    <2> QED
      BY <1>0, <2>1, Ends DEF device
  <1>3. CASE SaveFails \/ SaveRaises
    <2>1. chunk = 1
      BY <1>a, <1>3, WhereItIs DEF SaveFails, SaveRaises
    <2> QED
      BY <1>0, <1>3, <2>1 DEF SaveFails, SaveRaises, device
  <1>4. CASE Patch
    <2>1. /\ at # 0 /\ chunk = 1 /\ (Advance \/ Fail)
          /\ DOMAIN buf' = BufChunks
          /\ UNCHANGED <<device, chunk, ret, polls, sent, attempts>>
      BY <1>0, <1>a, <1>4, WhereItIs DEF Patch, Doing
    <2> QED
      BY <1>0, <2>1, Ends DEF device
  <1>5. CASE Down
    <2>1. Item \in Items /\ at = DownAt[Item] /\ at # 0 /\ chunk \in 1 .. Chunks[Item]
      BY <1>0, <1>a, <1>5, WhereItIs DEF Sending, Down, Doing
    <2>2. \A i \in Items : DOMAIN mem'[i] = 1 .. Chunks[i] /\ sent'[i] \subseteq 1 .. Chunks[i]
      <3>1. mem' \in {mem, [mem EXCEPT ![Item][chunk] = buf[chunk]]}
            /\ sent' = [sent EXCEPT ![Item] = @ \cup {chunk}]
        BY <1>5 DEF Down
      <3> QED
        BY <1>0, <2>1, <3>1
    <2>3. \/ chunk < Chunks[Item] /\ chunk' = chunk + 1 /\ UNCHANGED <<at, outcome, held>>
          \/ chunk' = 1 /\ (Advance \/ Fail)
      BY <1>5 DEF Down
    <2>4. UNCHANGED <<log, fes1, dram, ret, polls, attempts>> /\ DOMAIN buf' = BufChunks
      BY <1>0, <1>5 DEF Down
    <2>5. outcome = "none" /\ held \subseteq {"dev", "buf", "item"} /\ Chunks[Item] \in Nat
      BY <1>0, <2>1
    <2>6. CASE chunk < Chunks[Item] /\ chunk' = chunk + 1 /\ UNCHANGED <<at, outcome, held>>
      <3>1. chunk' \in 1 .. Chunks[Item]
        BY <2>1, <2>5, <2>6
      <3> QED
        BY <1>0, <2>1, <2>2, <2>4, <2>6, <3>1
    <2>7. CASE chunk' = 1 /\ (Advance \/ Fail)
      <3>0. \/ at < 13 /\ at' = at + 1 /\ outcome' = "none" /\ held' = held
            \/ at = 13 /\ at' = 0 /\ outcome' = "true" /\ held' \subseteq held
            \/ at' = 0 /\ outcome' = "false" /\ held' \subseteq held
        BY <1>a, <2>1, <2>5, <2>7, Ends, Zenon
      <3>1. at \in 0 .. 13
        BY <1>a
      <3>2. at' \in 0 .. 13 /\ (at' # 0 <=> outcome' = "none")
            /\ outcome' \in {"none", "true", "false"}
        BY <3>0, <3>1
      <3>3. held' \subseteq {"dev", "buf", "item"}
        BY <2>5, <3>0, Zenon
      <3> QED
        BY <1>0, <2>1, <2>2, <2>4, <2>7, <3>2, <3>3
    <2> QED
      BY <2>3, <2>6, <2>7
  <1>6. CASE Clear
    <2>1. at # 0 /\ chunk = 1 /\ (Advance \/ Fail) /\ log' \in {"clear", log}
      BY <1>a, <1>6, WhereItIs DEF Clear, Doing
    <2> QED
      BY <1>0, <1>6, <2>1, Ends DEF Clear
  <1>7. CASE Run
    <2>1. at # 0 /\ chunk = 1 /\ (Advance \/ Fail) /\ fes1' \in {"running", fes1}
      BY <1>a, <1>7, WhereItIs DEF Run, Doing
    <2> QED
      BY <1>0, <1>7, <2>1, Ends DEF Run
  <1>8. CASE Poll
    <2>1. at # 0 /\ chunk = 1 /\ polls < MaxPolls /\ polls' = polls + 1
          /\ (Advance \/ Fail \/ UNCHANGED <<at, outcome, held>>)
      BY <1>0, <1>a, <1>8, WhereItIs DEF Logging, Poll, Doing
    <2>2. UNCHANGED <<device, buf, chunk, ret, sent, attempts>>
      BY <1>8 DEF Poll
    <2> QED
      BY <1>0, <2>1, <2>2, Ends DEF device
  <1>9. CASE Fes1Ends
    BY <1>0, <1>9 DEF Fes1Ends, host
  <1>10. CASE UNCHANGED vars
    BY <1>0, <1>10 DEF vars, host, device
  <1> QED
    BY <1>1, <1>2, <1>3, <1>4, <1>5, <1>6, <1>7, <1>8, <1>9, <1>10 DEF Next, Host

LEMMA SeenKeeps ==
    ASSUME seen \in BOOLEAN, [Next]_vars
    PROVE  seen' \in BOOLEAN
  BY DEF Next, Host, Enter, Save, SaveFails, SaveRaises, Patch, Down, Clear, Run, Poll, Fes1Ends,
         vars, host

LEMMA TypesKeep ==
    ASSUME IInv, [Next]_vars
    PROVE  Types'
  <1>0. Ranges /\ Types /\ Sending
    BY TypeOKParts DEF IInv
  <1>a. at \in 0 .. Len(Script)
    BY <1>0 DEF Ranges
  <1> USE BufferFits DEF Types
  <1>1. CASE Enter
    BY <1>0, <1>1 DEF Enter, Contents, Blank
  <1>2. CASE Save
    <2>1. /\ Item \in Items /\ UNCHANGED <<device, sent, got>>
          /\ \E k \in 0 .. Chunks[Item] :
                buf' = [c \in BufChunks |-> IF c <= k THEN <<Item, c>> ELSE buf[c]]
      BY <1>a, <1>2, WhereItIs DEF Save
    <2>2. \A c \in BufChunks : <<Item, c>> \in Contents
      BY <2>1 DEF Contents
    <2> QED
      BY <1>0, <2>1, <2>2 DEF device
  <1>3. CASE SaveFails \/ SaveRaises
    BY <1>0, <1>3 DEF SaveFails, SaveRaises, device
  <1>4. CASE Patch
    <2> DEFINE p == IF buf[1] = <<"uboot", 1>> THEN Patched ELSE buf[1]
    <2>1. p \in Contents
      <3>1. Patched \in Contents
        BY DEF Patched, Contents
      <3> QED
        BY <1>0, <3>1
    <2>2. UNCHANGED <<device, sent, got>> /\ buf' \in {buf, [buf EXCEPT ![1] = p]}
      BY <1>4 DEF Patch
    <2> HIDE DEF p
    <2>3. buf' \in [BufChunks -> Contents]
      BY <1>0, <2>1, <2>2
    <2> QED
      BY <1>0, <2>2, <2>3 DEF device
  <1>5. CASE Down
    <2>1. Item \in Items /\ chunk \in 1 .. Chunks[Item] /\ chunk \in BufChunks /\ chunk \in Nat
      BY <1>0, <1>a, <1>5, WhereItIs DEF Sending, Down, Ranges
    <2>2. /\ mem' \in {mem, [mem EXCEPT ![Item][chunk] = buf[chunk]]}
          /\ sent' = [sent EXCEPT ![Item] = @ \cup {chunk}]
          /\ got' \in {got, [got EXCEPT ![Item] = @ \cup {chunk}]}
          /\ UNCHANGED <<buf, ran>>
      BY <1>5 DEF Down
    <2>3. sent' \in [Items -> SUBSET Nat] /\ got' \in [Items -> SUBSET Nat]
      <3>1. sent[Item] \cup {chunk} \in SUBSET Nat /\ got[Item] \cup {chunk} \in SUBSET Nat
        BY <1>0, <2>1
      <3> QED
        BY <1>0, <2>2, <3>1
    <2>4. CASE mem' = [mem EXCEPT ![Item][chunk] = buf[chunk]]
      <3>1. DOMAIN mem = Items /\ buf[chunk] \in Contents
        BY <1>0, <2>1
      <3>2. mem' = [i \in Items |-> IF i = Item THEN [mem[i] EXCEPT ![chunk] = buf[chunk]]
                                   ELSE mem[i]]
        BY <2>1, <2>4, <3>1, Zenon
      <3>3. mem' = [i \in Items |-> mem'[i]]
        BY <3>2
      <3>4. \A i \in Items : mem'[i] \in [1 .. Chunks[i] -> Contents]
        BY <1>0, <2>1, <3>1, <3>2
      <3> QED
        BY <1>0, <2>2, <2>3, <3>3, <3>4
    <2> QED
      BY <1>0, <2>2, <2>3, <2>4
  <1>6. CASE Clear
    BY <1>0, <1>6 DEF Clear
  <1>7. CASE Run
    BY <1>0, <1>7 DEF Run
  <1>8. CASE Poll
    BY <1>0, <1>8 DEF Poll, device
  <1>9. CASE Fes1Ends
    BY <1>0, <1>9 DEF Fes1Ends, host
  <1>10. CASE UNCHANGED vars
    BY <1>0, <1>10 DEF vars, host, device
  <1> QED
    BY <1>1, <1>2, <1>3, <1>4, <1>5, <1>6, <1>7, <1>8, <1>9, <1>10 DEF Next, Host

------------------------------------------------------------------------------
(* Every step keeps the chunks that were sent *)

\* A step of the host that sends nothing, once ret is the number close_item left.
LEMMA QuietStep ==
    ASSUME Ranges, Sending, at # 0, ~Doing("down"), Advance \/ Fail,
           at' # 0 => ret' = "zero", UNCHANGED <<chunk, sent>>
    PROVE  Sending'
  <1>1. /\ at \in 0 .. Len(Script) /\ outcome = "none" /\ chunk = 1
        /\ \A i \in Items : at # DownAt[i]
    BY WhereItIs DEF Ranges, Sending
  <1>2. at' \in 0 .. 13 /\ (at' >= 2 => ret' = "zero")
    BY <1>1, Ends, Order
  <1>3. ASSUME NEW i \in Items
        PROVE  /\ at' = DownAt[i] => chunk' <= Chunks[i]
               /\ at' # 0 => sent'[i] = IF at' < DownAt[i] THEN {}
                                        ELSE IF at' = DownAt[i] THEN 1 .. chunk' - 1
                                        ELSE 1 .. Chunks[i]
               /\ outcome' = "true" => sent'[i] = 1 .. Chunks[i]
    <2>1. /\ DownAt[i] \in 2 .. 12 /\ Chunks[i] \in Nat \ {0} /\ at # DownAt[i]
          /\ sent[i] = IF at < DownAt[i] THEN {} ELSE 1 .. Chunks[i]
      BY <1>1, Order, BufferFits DEF Sending
    <2>2. 1 .. chunk' - 1 = {} /\ chunk' = 1
      BY <1>1
    <2> QED
      BY <1>1, <2>1, <2>2, Ends, Order
  <1> QED
    BY <1>1, <1>2, <1>3 DEF Sending

LEMMA SendingKeeps ==
    ASSUME IInv, [Next]_vars
    PROVE  Sending'
  <1>0. Ranges /\ Types /\ Sending
    BY TypeOKParts DEF IInv
  <1>a. at \in 0 .. Len(Script) /\ (at # 0 => outcome = "none")
    BY <1>0 DEF Ranges
  <1>b. Doing("save") \/ Doing("patch") \/ Doing("clear") \/ Doing("run") \/ Doing("poll")
            => at # 0 /\ ~Doing("down")
    BY <1>a, WhereItIs DEF Doing
  <1>1. CASE Enter
    <2>1. /\ at' \in {0, 1} /\ outcome' # "true" /\ chunk' = 1
          /\ \A i \in Items : sent'[i] = {}
      BY <1>1 DEF Enter
    <2>2. \A i \in Items : at' < DownAt[i] /\ at' # DownAt[i]
      BY <2>1, Order
    <2>3. \A i \in Items :
              sent'[i] = IF at' < DownAt[i] THEN {}
                         ELSE IF at' = DownAt[i] THEN 1 .. chunk' - 1 ELSE 1 .. Chunks[i]
      BY <2>1, <2>2
    <2>4. ~(at' >= 2)
      BY <2>1
    <2> QED
      BY <2>1, <2>2, <2>3, <2>4, Zenon DEF Sending
  <1>2. CASE Save
    BY <1>0, <1>b, <1>2, QuietStep DEF Save
  <1>3. CASE SaveFails \/ SaveRaises
    <2>1. at' = 0 /\ outcome' # "true" /\ chunk' = 1
      BY <1>0, <1>b, <1>3 DEF SaveFails, SaveRaises, Sending
    <2> QED
      BY <2>1, Order DEF Sending
  <1>4. CASE Patch
    <2>1. at = 7 /\ ret' = ret /\ ret = "zero" /\ (Advance \/ Fail)
      BY <1>0, <1>a, <1>4, WhereItIs DEF Patch, Sending
    <2> QED
      BY <1>0, <1>b, <1>4, <2>1, QuietStep DEF Patch
  <1>5. CASE Down
    <2>1. /\ Item \in Items /\ at = DownAt[Item] /\ at \in 2 .. 12 /\ Doing("down")
          /\ outcome = "none" /\ chunk \in 1 .. Chunks[Item] /\ Chunks[Item] \in Nat
          /\ ret = "zero" /\ ret' = ret
      BY <1>0, <1>a, <1>5, WhereItIs, Order, BufferFits DEF Down, Sending, Ranges
    <2>2. sent' = [sent EXCEPT ![Item] = @ \cup {chunk}]
      BY <1>5 DEF Down
    <2>3. sent[Item] = 1 .. chunk - 1 /\ sent'[Item] = 1 .. chunk
      BY <1>0, <2>1, <2>2 DEF Sending, Types
    <2>4. \A i \in Items : i # Item =>
              /\ sent'[i] = sent[i] /\ DownAt[i] # at
              /\ sent[i] = IF at < DownAt[i] THEN {} ELSE 1 .. Chunks[i]
      BY <1>0, <1>a, <2>1, <2>2, WhereItIs DEF Sending, Types
    <2>5. CASE chunk < Chunks[Item]
      <3>1. chunk' = chunk + 1 /\ UNCHANGED <<at, outcome>> /\ Doing("down")'
        BY <1>5, <2>1, <2>5 DEF Down, Truthy, Doing
      <3>2. chunk' <= Chunks[Item] /\ sent'[Item] = 1 .. chunk' - 1
        BY <2>1, <2>3, <2>5, <3>1
      <3>3. \A i \in Items :
                /\ at' = DownAt[i] => chunk' <= Chunks[i]
                /\ sent'[i] = IF at' < DownAt[i] THEN {}
                              ELSE IF at' = DownAt[i] THEN 1 .. chunk' - 1 ELSE 1 .. Chunks[i]
        BY <2>1, <2>4, <3>1, <3>2
      <3> QED
        BY <2>1, <3>1, <3>3 DEF Sending
    <2>6. CASE chunk >= Chunks[Item]
      <3>1. chunk' = 1 /\ (Advance \/ Fail)
        BY <1>5, <2>1, <2>6 DEF Down
      <3>2. sent'[Item] = 1 .. Chunks[Item]
        BY <2>1, <2>3, <2>6
      <3>3. (at' = 0 /\ outcome' = "false") \/ (at' = at + 1 /\ outcome' = "none")
        <4>1. \/ at < 13 /\ at' = at + 1 /\ outcome' = "none" /\ held' = held
              \/ at = 13 /\ at' = 0 /\ outcome' = "true" /\ held' \subseteq held
              \/ at' = 0 /\ outcome' = "false" /\ held' \subseteq held
          BY <1>a, <2>1, <3>1, Ends
        <4> QED
          BY <2>1, <4>1
      <3>4. ASSUME NEW i \in Items
            PROVE  /\ at' = DownAt[i] => chunk' <= Chunks[i]
                   /\ at' # 0 => sent'[i] = IF at' < DownAt[i] THEN {}
                                            ELSE IF at' = DownAt[i] THEN 1 .. chunk' - 1
                                            ELSE 1 .. Chunks[i]
        <4>1. DownAt[i] \in 2 .. 12 /\ Chunks[i] \in Nat \ {0} /\ 1 .. chunk' - 1 = {}
          BY <3>1, Order, BufferFits
        <4>2. CASE i = Item
          BY <2>1, <3>1, <3>2, <3>3, <4>1, <4>2
        <4>3. CASE i # Item
          BY <2>1, <2>4, <3>1, <3>3, <4>1, <4>3
        <4> QED
          BY <4>2, <4>3
      <3> QED
        BY <2>1, <3>1, <3>3, <3>4 DEF Sending
    <2> QED
      BY <2>1, <2>5, <2>6
  <1>6. CASE Clear
    <2>1. at = 3 /\ ret' = ret /\ ret = "zero"
      BY <1>0, <1>a, <1>6, WhereItIs DEF Clear, Sending
    <2> QED
      BY <1>0, <1>b, <1>6, <2>1, QuietStep DEF Clear
  <1>7. CASE Run
    <2>1. at >= 2 /\ ret' = ret /\ ret = "zero" /\ (Advance \/ Fail)
      BY <1>0, <1>a, <1>7, WhereItIs, Order DEF Run, Sending
    <2> QED
      BY <1>0, <1>b, <1>7, <2>1, QuietStep DEF Run
  <1>8. CASE Poll
    <2>1. at = 5 /\ ret' = ret /\ ret = "zero" /\ UNCHANGED <<chunk, sent>>
      BY <1>0, <1>a, <1>8, WhereItIs DEF Poll, Sending
    <2>2. Advance \/ Fail \/ UNCHANGED <<at, outcome, held>>
      BY <1>8 DEF Poll
    <2>3. CASE UNCHANGED <<at, outcome, held>>
      BY <1>0, <2>1, <2>3 DEF Sending, Doing
    <2> QED
      BY <1>0, <1>b, <1>8, <2>1, <2>2, <2>3, QuietStep DEF Poll
  <1>9. CASE Fes1Ends
    BY <1>0, <1>9 DEF Fes1Ends, host, Sending, Doing
  <1>10. CASE UNCHANGED vars
    BY <1>0, <1>10 DEF vars, host, device, Sending, Doing
  <1> QED
    BY <1>1, <1>2, <1>3, <1>4, <1>5, <1>6, <1>7, <1>8, <1>9, <1>10 DEF Next, Host

------------------------------------------------------------------------------
(* Every step keeps what was delivered *)

\* The host goes on, starts over or stays where it is.
LEMMA Moves ==
    ASSUME IInv, [Next]_vars, ~Enter
    PROVE  /\ at' \in {0, at, at + 1} /\ (at = 0 => at' = 0)
           /\ at' = at + 1 => ~(Doing("save") \/ Doing("patch")) \/ Save \/ Patch
  <1>0. Ranges
    BY TypeOKParts DEF IInv
  <1>1. at \in 0 .. Len(Script) /\ (at # 0 => outcome = "none")
    BY <1>0 DEF Ranges
  <1>2. (at # 0 /\ (Advance \/ Fail)) => at' \in {0, at + 1}
    BY <1>1, Ends
  <1>3. at = 0 => ~Host
    BY DEF Host, Doing, Save, SaveFails, SaveRaises, Patch, Down, Clear, Run, Poll
  <1>4. Host => \/ at # 0 /\ (Advance \/ Fail)
                \/ at' = 0 \/ at' = at
    BY <1>3 DEF Host, Save, SaveFails, SaveRaises, Patch, Down, Clear, Run, Poll
  <1>5. CASE Host
    <2>1. at' \in {0, at, at + 1} /\ at # 0
      BY <1>2, <1>3, <1>4, <1>5
    <2>2. at' = at + 1 => ~(Doing("save") \/ Doing("patch")) \/ Save \/ Patch
      BY <1>1, <1>5, WhereItIs DEF Host, SaveFails, SaveRaises, Down, Clear, Run, Poll
    <2> QED
      BY <2>1, <2>2
  <1>6. CASE UNCHANGED at
    BY <1>1, <1>6
  <1> QED
    BY <1>5, <1>6 DEF Next, Fes1Ends, vars, host

\* What is sent next lies in the buffer because it has been read, or patched, just now.
LEMMA BufferedKeeps ==
    ASSUME IInv, [Next]_vars
    PROVE  Buffered'
  <1>0. Ranges /\ Types /\ Buffered
    BY TypeOKParts DEF IInv
  <1>a. at \in 0 .. Len(Script)
    BY <1>0 DEF Ranges
  <1>1. CASE Enter
    <2>1. at' \in {0, 1}
      BY <1>1 DEF Enter
    <2> QED
      BY <2>1, Order DEF Buffered
  <1>2. CASE Save
    <2>1. PICK k \in 0 .. Chunks[Item] :
              /\ buf' = [c \in BufChunks |-> IF c <= k THEN <<Item, c>> ELSE buf[c]]
              /\ cut' = IF k < Chunks[Item] THEN cut \cup {Item} ELSE cut
      BY <1>2 DEF Save
    <2>2. Item \in Items /\ at = SaveAt[Item] /\ at' \in {0, at + 1}
      <3>1. Item \in Items /\ at = SaveAt[Item] /\ at # 0
        BY <1>a, <1>2, WhereItIs DEF Save, Doing
      <3>2. ~Enter
        BY <3>1 DEF Enter
      <3>3. at' # at
        BY <1>a, <1>2, <3>1, Order DEF Save, Advance
      <3> QED
        BY <3>1, <3>2, <3>3, Moves
    <2>3. CASE at' = 0
      BY <2>3, Order DEF Buffered
    <2>4. CASE at' = at + 1
      <3>1. \A i \in Items : at' = DownAt[i] => i = Item /\ i # "uboot"
        <4> SUFFICES ASSUME NEW i \in Items, at' = DownAt[i]
                     PROVE  i = Item /\ i # "uboot"
          OBVIOUS
        <4>1. i # "uboot"
          <5> SUFFICES ASSUME i = "uboot"
                       PROVE  FALSE
            OBVIOUS
          <5>1. at + 1 = 8
            BY <2>4, Order
          <5>2. at = 7
            BY <1>a, <5>1, Order
          <5> QED
            BY <1>2, <5>2, WhatItReads, WhereItIs, <1>a DEF Save
        <4>2. at = SaveAt[i]
          <5>1. at + 1 = SaveAt[i] + 1 /\ SaveAt[i] \in 1 .. 11
            BY <2>4, <4>1, Order
          <5> QED
            BY <1>a, <5>1, Order
        <4> QED
          BY <4>1, <4>2, WhatItReads
      <3>2. at' = 7 => Item = "uboot"
        <4> SUFFICES ASSUME at = 6
                     PROVE  Item = "uboot"
          BY <2>4, <1>a
        <4>1. SaveAt["uboot"] = 6 /\ "uboot" \in Items
          BY DEF SaveAt, Items
        <4> QED
          BY <4>1, WhatItReads
      <3>3. Item \notin cut' => k = Chunks[Item]
        BY <2>1, <2>2, BufferFits
      <3>4. k = Chunks[Item] => \A c \in 1 .. Chunks[Item] : buf'[c] = <<Item, c>>
        BY <2>1, <2>2, BufferFits
      <3> QED
        BY <3>1, <3>2, <3>3, <3>4 DEF Buffered, Content
    <2> QED
      BY <2>2, <2>3, <2>4
  <1>3. CASE Patch
    <2>1. at = 7 /\ at' \in {0, 8} /\ UNCHANGED cut
      <3>1. at = 7 /\ outcome = "none" /\ (Advance \/ Fail) /\ UNCHANGED cut
        BY <1>0, <1>a, <1>3, WhereItIs DEF Patch, Ranges
      <3> QED
        BY <1>a, <3>1, Ends
    <2>2. CASE at' = 0
      BY <2>2, Order DEF Buffered
    <2>3. CASE at' = 8
      <3>1. \A i \in Items : DownAt[i] = 8 => i = "uboot"
        BY DEF Items, DownAt
      <3>2. buf' = [buf EXCEPT ![1] = IF @ = <<"uboot", 1>> THEN Patched ELSE @]
        BY <1>3, <2>1, <2>3, Order DEF Patch, Fail
      <3>3. ASSUME "uboot" \notin cut, NEW c \in 1 .. Chunks["uboot"]
            PROVE  buf'[c] = Content("uboot", c)
        <4>1. c \in BufChunks /\ DOMAIN buf = BufChunks /\ buf[c] = <<"uboot", c>>
          BY <1>0, <2>1, <3>3, BufferFits DEF Buffered, Items, Ranges
        <4>2. CASE c = 1
          BY <3>2, <4>1, <4>2 DEF Content, Types
        <4>3. CASE c # 1
          BY <3>2, <4>1, <4>3 DEF Content, Types
        <4> QED
          BY <4>2, <4>3
      <3> QED
        BY <2>1, <2>3, <3>1, <3>3 DEF Buffered
    <2> QED
      BY <2>1, <2>2, <2>3
  <1>4. CASE ~Enter /\ ~Save /\ ~Patch
    <2>1. UNCHANGED <<buf, cut>>
      BY <1>4 DEF Next, Host, SaveFails, SaveRaises, Down, Clear, Run, Poll, Fes1Ends, vars, host
    <2>2. at' \in {0, at, at + 1} /\ (at' = at + 1 => ~Doing("save") /\ ~Doing("patch"))
      BY <1>4, Moves
    <2>3. CASE at' = at
      BY <1>0, <2>1, <2>3 DEF Buffered, Content, Patched
    <2>4. CASE at' = 0
      BY <2>4, Order DEF Buffered
    <2>5. CASE at' = at + 1
      <3>1. at # 6 /\ at # 7 /\ \A i \in Items : at # SaveAt[i]
        BY <2>2, <2>5, WhatItReads
      <3>2. \A i \in Items : at + 1 # DownAt[i]
        BY <1>a, <3>1, Order
      <3> QED
        BY <1>a, <2>5, <3>1, <3>2 DEF Buffered
    <2> QED
      BY <2>2, <2>3, <2>4, <2>5
  <1> QED
    BY <1>1, <1>2, <1>3, <1>4

\* A step that leaves what has been sent and run keeps what was delivered.
LEMMA DeliveredStays ==
    ASSUME Ranges, Delivered, DeliveredMeansWhole, at' \in {0, at, at + 1}, at = 0 => at' = 0,
           UNCHANGED <<mem, got, ran>>, cut \subseteq cut',
           \A i \in Items : sent[i] \subseteq sent'[i]
    PROVE  Delivered' /\ DeliveredMeansWhole'
  <1>1. ASSUME NEW i \in Codes, at' \in 1 .. RunAt[i]
        PROVE  at \in 1 .. RunAt[i]
    <2>1. at \in Nat /\ RunAt[i] \in Nat
      BY Order DEF Ranges
    <2> QED
      BY <1>1, <2>1
  <1>2. \A i \in Codes : at' \in 1 .. RunAt[i] => ran'[i] = <<>>
    BY <1>1 DEF Delivered
  <1>3. \A i \in Items : got'[i] \subseteq sent'[i]
    BY DEF Delivered
  <1>4. \A i \in Items \ cut' : \A c \in got'[i] : mem'[i][c] = (Content(i, c))'
    BY DEF Delivered, Content, Patched
  <1>5. DeliveredMeansWhole'
    BY DEF DeliveredMeansWhole, Whole, Content, Patched
  <1> QED
    BY <1>2, <1>3, <1>4, <1>5 DEF Delivered

LEMMA DeliveredKeeps ==
    ASSUME IInv, [Next]_vars
    PROVE  Delivered' /\ DeliveredMeansWhole'
  <1>0. Ranges /\ Types /\ Sending /\ Buffered /\ Delivered /\ DeliveredMeansWhole
    BY TypeOKParts DEF IInv
  <1>a. at \in 0 .. Len(Script)
    BY <1>0 DEF Ranges
  <1>1. CASE Enter
    <2>1. got' = [i \in Items |-> {}] /\ ran' = [i \in Codes |-> <<>>]
      BY <1>1 DEF Enter
    <2>2. /\ \A i \in Items : got'[i] = {}
          /\ \A i \in Codes : ran'[i] = <<>>
      BY <2>1
    <2> QED
      BY <2>2 DEF Delivered, DeliveredMeansWhole
  <1>2. CASE Down
    <2>1. /\ Item \in Items /\ at = DownAt[Item] /\ at # 0 /\ ~Enter
          /\ chunk \in 1 .. Chunks[Item] /\ chunk \in Nat
      <3>1. Item \in Items /\ at = DownAt[Item] /\ at # 0
        BY <1>a, <1>2, WhereItIs DEF Down, Doing
      <3>2. chunk \in Nat \ {0} /\ Chunks[Item] \in Nat
        BY <1>0, <3>1, BufferFits DEF Ranges
      <3>3. chunk <= Chunks[Item]
        BY <1>0, <3>1 DEF Sending
      <3> QED
        BY <3>1, <3>2, <3>3 DEF Enter
    <2>2. at' \in {0, at, at + 1}
      BY <2>1, Moves
    <2>3. /\ sent' = [sent EXCEPT ![Item] = @ \cup {chunk}]
          /\ UNCHANGED <<ran, cut, buf>>
          /\ \/ mem' = mem /\ got' = got
             \/ mem' = [mem EXCEPT ![Item][chunk] = buf[chunk]]
                /\ got' = [got EXCEPT ![Item] = @ \cup {chunk}]
      BY <1>2 DEF Down
    <2>4. \A i \in Items : sent[i] \subseteq sent'[i]
      BY <1>0, <2>1, <2>3 DEF Types
    <2>5. CASE mem' = mem /\ got' = got
      BY <1>0, <2>1, <2>2, <2>3, <2>4, <2>5, DeliveredStays
    <2>6. CASE mem' = [mem EXCEPT ![Item][chunk] = buf[chunk]]
                /\ got' = [got EXCEPT ![Item] = @ \cup {chunk}]
      <3>1. /\ got'[Item] = got[Item] \cup {chunk} /\ sent'[Item] = sent[Item] \cup {chunk}
            /\ \A i \in Items : i # Item => got'[i] = got[i] /\ mem'[i] = mem[i]
        BY <1>0, <2>1, <2>3, <2>6 DEF Types
      <3>2. \A i \in Items : got'[i] \subseteq sent'[i]
        BY <1>0, <2>1, <2>4, <3>1 DEF Delivered
      <3>3. mem'[Item] = [mem[Item] EXCEPT ![chunk] = buf[chunk]]
        <4>1. DOMAIN mem = Items
          BY <1>0 DEF Types
        <4> QED
          BY <2>1, <2>6, <4>1
      <3>4. mem'[Item][chunk] = buf[chunk]
        BY <1>0, <2>1, <3>3 DEF Types
      <3>5. \A c \in got[Item] : c # chunk => mem'[Item][c] = mem[Item][c]
        BY <1>0, <2>1, <3>3 DEF Types
      <3>6. ASSUME NEW i \in Items \ cut, NEW c \in got'[i]
            PROVE  mem'[i][c] = Content(i, c)
        <4>1. CASE i # Item
          BY <1>0, <3>1, <3>6, <4>1 DEF Delivered
        <4>2. CASE i = Item /\ c = chunk
          BY <1>0, <2>1, <3>4, <3>6, <4>2 DEF Buffered
        <4>3. CASE i = Item /\ c # chunk
          <5>1. c \in got[Item] /\ mem[Item][c] = Content(Item, c)
            BY <1>0, <3>1, <3>6, <4>3 DEF Delivered
          <5> QED
            BY <3>5, <4>3, <5>1
        <4> QED
          BY <4>1, <4>2, <4>3
      <3>7. \A i \in Items \ cut' : \A c \in got'[i] : mem'[i][c] = (Content(i, c))'
        BY <2>3, <3>6 DEF Content, Patched
      <3>8. \A i \in Codes : at' \in 1 .. RunAt[i] => ran'[i] = <<>>
        <4>1. \A i \in Codes : at' \in 1 .. RunAt[i] => at \in 1 .. RunAt[i]
          BY <1>a, <2>1, <2>2, Order
        <4> QED
          BY <1>0, <2>3, <4>1 DEF Delivered
      <3>9. DeliveredMeansWhole'
        <4>1. ASSUME NEW i \in Codes, ran'[i] # <<>>
              PROVE  got'[i] = got[i] /\ i # Item
          <5>1. ran[i] # <<>> /\ i \in Items
            BY <2>3, <4>1 DEF Codes, Items
          <5>2. at \notin 1 .. RunAt[i]
            BY <1>0, <5>1 DEF Delivered
          <5>3. i # Item
            <6> SUFFICES ASSUME i = Item
                         PROVE  at \in 1 .. RunAt[i]
              BY <5>2
            <6>1. at = DownAt[i] /\ DownAt[i] \in 2 .. 12 /\ RunAt[i] \in 1 .. 13
                  /\ DownAt[i] < RunAt[i]
              BY <2>1, <4>1, <5>1, Order
            <6> QED
              BY <6>1
          <5> QED
            BY <3>1, <5>1, <5>3
        <4> QED
          BY <1>0, <2>3, <4>1 DEF DeliveredMeansWhole, Whole, Content, Patched
      <3> QED
        BY <3>2, <3>7, <3>8, <3>9 DEF Delivered
    <2> QED
      BY <2>3, <2>5, <2>6
  <1>3. CASE Run
    <2>1. /\ Item \in Codes /\ Item \in Items /\ at = RunAt[Item] /\ at # 0 /\ ~Enter
          /\ UNCHANGED <<mem, got, cut, sent>>
      BY <1>a, <1>3, WhereItIs, Order DEF Run, Enter
    <2>2. at' \in {0, at, at + 1}
      BY <2>1, Moves
    <2>3. CASE ran' = ran
      BY <1>0, <2>1, <2>2, <2>3, DeliveredStays
    <2>4. CASE ran' = [ran EXCEPT ![Item] = mem[Item]] /\ (Advance \/ Fail)
      <3>0. at' \in {0, at + 1}
        <4>1. outcome = "none"
          BY <1>0, <2>1 DEF Ranges
        <4> QED
          BY <1>a, <2>1, <2>4, <4>1, Ends
      <3>1. /\ ran'[Item] = mem[Item] /\ \A i \in Codes : i # Item => ran'[i] = ran[i]
        BY <1>0, <2>1, <2>4 DEF Types
      <3>2. \A i \in Codes : at' \in 1 .. RunAt[i] => ran'[i] = <<>>
        <4>1. \A i \in Codes : at' \in 1 .. RunAt[i] => at \in 1 .. RunAt[i] /\ i # Item
          BY <1>a, <2>1, <3>0, Order
        <4> QED
          BY <1>0, <3>1, <4>1 DEF Delivered
      <3>3. (\A i \in Items : got'[i] \subseteq sent'[i])
            /\ \A i \in Items \ cut' : \A c \in got'[i] : mem'[i][c] = (Content(i, c))'
        BY <1>0, <2>1 DEF Delivered, Content, Patched
      <3>4. Item \notin cut /\ got[Item] = 1 .. Chunks[Item] => mem[Item] = Whole(Item)
        <4> SUFFICES ASSUME Item \notin cut, got[Item] = 1 .. Chunks[Item]
                     PROVE  mem[Item] = Whole(Item)
          OBVIOUS
        <4>1. \A c \in 1 .. Chunks[Item] : mem[Item][c] = Content(Item, c)
          BY <1>0, <2>1 DEF Delivered
        <4>2. mem[Item] = [c \in 1 .. Chunks[Item] |-> mem[Item][c]]
          BY <1>0, <2>1 DEF Types
        <4> QED
          BY <4>1, <4>2 DEF Whole
      <3>5. DeliveredMeansWhole'
        BY <1>0, <2>1, <3>1, <3>4 DEF DeliveredMeansWhole, Whole, Content, Patched
      <3> QED
        BY <3>2, <3>3, <3>5 DEF Delivered
    <2> QED
      BY <1>3, <2>3, <2>4 DEF Run
  <1>4. CASE ~Enter /\ ~Down /\ ~Run
    <2>1. UNCHANGED <<mem, got, ran, sent>> /\ cut \subseteq cut'
      BY <1>4 DEF Next, Host, Save, SaveFails, SaveRaises, Patch, Clear, Poll, Fes1Ends, vars,
                  host, device
    <2> QED
      BY <1>0, <1>4, <2>1, Moves, DeliveredStays
  <1> QED
    BY <1>1, <1>2, <1>3, <1>4

------------------------------------------------------------------------------
(* Every step keeps the log of this call's fes1 *)

LEMMA LoggingKeeps ==
    ASSUME IInv, [Next]_vars
    PROVE  Logging' /\ LogIsFresh'
  <1>0. Ranges /\ Logging /\ LogIsFresh
    BY TypeOKParts DEF IInv
  <1>a. at \in 0 .. Len(Script) /\ (at # 0 => outcome = "none") /\ polls \in Nat
        /\ MaxPolls \in Nat \ {0} /\ log \in {"clear", "flag"}
    BY <1>0, FelAssumption DEF Ranges
  <1>1. CASE Enter
    <2>1. at' \in {0, 1} /\ fes1' = "off" /\ polls' = 0 /\ seen' = FALSE
      BY <1>1 DEF Enter
    <2> QED
      BY <2>1 DEF Logging, LogIsFresh
  <1>2. CASE Clear
    <2>1. at = 3 /\ UNCHANGED <<fes1, polls, seen>>
          /\ ((log' = "clear" /\ Advance) \/ Fail)
      BY <1>a, <1>2, WhereItIs DEF Clear
    <2>2. at' = 0 \/ (at' = 4 /\ log' = "clear")
      BY <1>a, <2>1, Order DEF Advance, Fail
    <2> QED
      BY <1>0, <2>1, <2>2 DEF Logging, LogIsFresh
  <1>3. CASE Run
    <2>1. /\ at \in {4, 13} /\ UNCHANGED <<log, polls, seen>>
          /\ fes1' = IF at = 4 /\ fes1' # fes1 THEN "running" ELSE fes1
          /\ at' \in {0, at + 1}
      <3>1. Item \in Codes /\ at = RunAt[Item] /\ at # 0 /\ (Advance \/ Fail)
        BY <1>a, <1>3, WhereItIs DEF Run, Doing
      <3>2. at' \in {0, at + 1}
        BY <1>a, <3>1, Ends
      <3>3. fes1' = IF Item = "fes1" /\ fes1' # fes1 THEN "running" ELSE fes1
        BY <1>3 DEF Run
      <3>4. at = 4 <=> Item = "fes1"
        BY <3>1, Order DEF Codes
      <3>5. at \in {4, 13}
        BY <3>1, Order DEF Codes
      <3> QED
        BY <1>3, <3>2, <3>3, <3>4, <3>5 DEF Run
    <2>2. CASE at = 4
      <3>1. fes1 = "off" /\ log = "clear" /\ polls = 0 /\ seen = FALSE
        <4>1. fes1 = "off" /\ log = "clear" /\ polls = 0
          BY <1>0, <2>2 DEF Logging
        <4>2. ~seen
          BY <1>0, <4>1, Zenon DEF LogIsFresh
        <4>3. seen \in BOOLEAN
          BY TypeOKParts DEF IInv
        <4> QED
          BY <4>1, <4>2, <4>3
      <3> QED
        BY <1>a, <2>1, <2>2, <3>1 DEF Logging, LogIsFresh
    <2>3. CASE at = 13
      <3>1. fes1' = fes1
        BY <2>1, <2>3
      <3>2. at' \in {0, 14}
        BY <2>1, <2>3
      <3> QED
        BY <1>0, <2>1, <2>3, <3>1, <3>2 DEF Logging, LogIsFresh
    <2> QED
      BY <2>1, <2>2, <2>3
  <1>4. CASE Poll
    <2>1. /\ at = 5 /\ UNCHANGED <<log, fes1>> /\ polls' = polls + 1 /\ polls < MaxPolls
      BY <1>0, <1>a, <1>4, WhereItIs DEF Poll, device, Logging
    <2>2. LogIsFresh'
      <3>1. seen' = seen \/ log = "flag"
        BY <1>4 DEF Poll
      <3>2. log = "flag" => fes1 = "ended"
        BY <1>0, <2>1 DEF Logging
      <3> QED
        BY <1>0, <2>1, <3>1, <3>2, Zenon DEF LogIsFresh
    <2>3. at' \in {0, 6} \/ (at' = 5 /\ polls' < MaxPolls)
      <3>1. Advance \/ Fail \/ (polls' < MaxPolls /\ at' = at)
        BY <1>4 DEF Poll, MorePolls
      <3> QED
        BY <2>1, <3>1, Order DEF Advance, Fail
    <2>4. Logging'
      BY <1>0, <2>1, <2>3 DEF Logging
    <2> QED
      BY <2>2, <2>4
  <1>5. CASE Fes1Ends
    <2>1. fes1' = "ended" /\ UNCHANGED <<at, polls, seen>> /\ ~(at \in 1 .. 4)
      BY <1>0, <1>5 DEF Fes1Ends, host, Logging
    <2> QED
      BY <1>0, <2>1 DEF Logging, LogIsFresh
  <1>6. CASE ~Enter /\ ~Clear /\ ~Run /\ ~Poll /\ ~Fes1Ends
    <2>1. UNCHANGED <<log, fes1, polls, seen>>
      BY <1>6 DEF Next, Host, Save, SaveFails, SaveRaises, Patch, Down, vars, host, device
    <2>2. at' = 0 \/ (at' = at /\ at # 0) \/ (at' = at + 1 /\ at \notin {0, 3, 4, 5})
      <3>1. at' = at + 1 => ~Doing("clear") /\ ~Doing("run") /\ ~Doing("poll")
        <4>1. CASE Save \/ SaveFails \/ SaveRaises \/ Patch \/ Down
          BY <1>a, <4>1, WhereItIs DEF Save, SaveFails, SaveRaises, Patch, Down
        <4>2. CASE UNCHANGED vars
          BY <1>a, <4>2 DEF vars, host
        <4> QED
          BY <1>6, <4>1, <4>2 DEF Next, Host
      <3>2. at = 3 => Doing("clear")
        BY ScriptSteps DEF Doing, Step
      <3>3. at = 4 => Doing("run")
        BY ScriptSteps DEF Doing, Step
      <3>4. at = 5 => Doing("poll")
        BY ScriptSteps DEF Doing, Step
      <3> QED
        BY <1>6, <1>a, <3>1, <3>2, <3>3, <3>4, Moves
    <2> QED
      BY <1>0, <1>a, <2>1, <2>2 DEF Logging, LogIsFresh
  <1> QED
    BY <1>1, <1>2, <1>3, <1>4, <1>5, <1>6

------------------------------------------------------------------------------
(* The theorems *)

THEOREM NextInv == IInv /\ [Next]_vars => IInv'
  <1> SUFFICES ASSUME IInv, [Next]_vars
               PROVE  IInv'
    OBVIOUS
  <1>1. TypeOK'
    <2>1. Ranges'
      BY RangesKeep
    <2>2. seen' \in BOOLEAN
      BY SeenKeeps, TypeOKParts DEF IInv
    <2> QED
      BY <2>1, <2>2 DEF TypeOK, Ranges
  <1> QED
    BY <1>1, TypesKeep, SendingKeeps, BufferedKeeps, DeliveredKeeps, LoggingKeeps DEF IInv

\* IInv holds in every state of every behaviour.
THEOREM Invariance == Spec => []IInv
  <1>1. IInv /\ UNCHANGED vars => IInv'
    BY NextInv
  <1> QED
    BY InitInv, NextInv, PTL DEF Spec

\* The state keeps its types: in particular a failure never leaves the next chunk of the
\* buffer past an item's end, and the reads of the log never exceed their number.
THEOREM TypeCorrect == Spec => []TypeOK
  <1>1. IInv => TypeOK
    BY DEF IInv
  <1> QED
    BY <1>1, Invariance, PTL

\* However many chunks the items have: a download that FelDownData, which tests a global
\* other functions set, took for done has tried every chunk of its item.
THEOREM DownloadsComplete == Spec => []EveryChunkTried
  <1>1. IInv => EveryChunkTried
    <2> SUFFICES ASSUME IInv, NEW i \in Downloaded
                 PROVE  sent[i] = 1 .. Chunks[i]
      BY DEF EveryChunkTried
    <2>1. Ranges /\ Sending
      BY TypeOKParts DEF IInv
    <2>2. PICK k \in DOMAIN Script : /\ Script[k].op = "down" /\ Script[k].item = i
                                     /\ k < at \/ outcome = "true"
      BY DEF Downloaded
    <2>3. i \in Items /\ k = DownAt[i] /\ k \in 1 .. 13
      BY <2>2, ScriptSteps DEF Step, Items, DownAt
    <2>4. CASE outcome = "true"
      BY <2>1, <2>3, <2>4 DEF Sending
    <2>5. CASE k < at
      <3>1. at # 0 /\ ~(at < DownAt[i]) /\ at # DownAt[i]
        BY <2>1, <2>3, <2>5, Order DEF Ranges
      <3> QED
        BY <2>1, <2>3, <3>1 DEF Sending
    <2> QED
      BY <2>2, <2>4, <2>5
  <1> QED
    BY <1>1, Invariance, PTL

\* An item that was read to its end and whose chunks all arrived is run as it is in the
\* image, u-boot patched, although all items go through the same buffer.
THEOREM DeliveredWhole == Spec => []DeliveredMeansWhole
  <1>1. IInv => DeliveredMeansWhole
    BY DEF IInv
  <1> QED
    BY <1>1, Invariance, PTL

\* The host never takes the log of an earlier fes1 for the one it started.
THEOREM FreshLog == Spec => []LogIsFresh
  <1>1. IInv => LogIsFresh
    BY DEF IInv
  <1> QED
    BY <1>1, Invariance, PTL
==============================================================================
