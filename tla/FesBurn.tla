-------------------------------- MODULE FesBurn --------------------------------
(* entry_fes_thread of script/aultools.lua: the second phase of burning. The  *)
(* host sends the partition table, then either the full image or, between     *)
(* switching the flash on and off, every partition of the download map, then  *)
(* u-boot and boot0, and asks the device after each whether it is good.       *)
(*                                                                            *)
(* The host is one thread: `at` is the step of Script it is at, and the steps *)
(* of one partition are in `stage`. Everything goes through one buffer,       *)
(* tlBufImg. A content is the item it was read from and whether it is whole.  *)
EXTENDS Integers, Sequences, FiniteSets

CONSTANTS
    Parts,          \* the download map: [sparse, bufs, verify, skipped]
    FullBufs,       \* buffers of the full image
    Modes,          \* work modes Init may be given: "product", "update"
    MaxTries,       \* queries of a verification (5)
    MaxAttempts     \* bound: calls of entry_fes_thread in a behaviour

Part == [sparse : BOOLEAN, bufs : Nat \ {0}, verify : BOOLEAN, skipped : BOOLEAN]

ASSUME BurnAssumption ==
    /\ Parts \in Seq(Part) \ {<<>>}
    /\ \A p \in DOMAIN Parts : ~(Parts[p].sparse /\ Parts[p].skipped)
    /\ FullBufs \in Nat \ {0} /\ Modes \subseteq {"product", "update"}
    /\ MaxTries \in Nat \ {0} /\ MaxAttempts \in Nat \ {0}

\* What has a tag of its own and is verified by its status.
Jobs == {"erase", "mbr", "full", "uboot", "boot0"}

Nothing  == [item |-> "none", whole |-> FALSE]
Answer   == [item |-> "answer", whole |-> FALSE]   \* of a query
PartData == [item |-> "part", whole |-> TRUE]
Sum      == [item |-> "sum", whole |-> TRUE]       \* the verify file of the partition
WholeOf(i) == [item |-> i, whole |-> TRUE]
Blank == [n |-> 0, good |-> TRUE]

Steps(job, ops) == [k \in DOMAIN ops |-> [job |-> job, op |-> ops[k]]]

\* fes_down_erase_flag; fes_down_mbr; fes_get_storage_type.
Start(mode) ==
    (IF mode = "update" THEN Steps("erase", <<"flag", "down", "status">>) ELSE <<>>)
    \o Steps("mbr", <<"save", "down", "status">>) \o Steps("storage", <<"type">>)

\* fes_down_full_image.
FullSteps == Steps("full", <<"query", "flag", "down", "status", "parts">>)

\* Slip: boot0 is burned before u-boot.
BootFirst ==
    Steps("parts", <<"on", "save", "query", "parts", "off">>)
    \o Steps("boot0", <<"query", "query", "save", "down", "status">>)
    \o Steps("uboot", <<"type", "query", "save", "down", "status">>)
    \o Steps("mode", <<"mode">>)

\* Slip: the device is asked for the kind of its boot package once u-boot is read.
QueryAfterSave ==
    Steps("parts", <<"on", "save", "query", "parts", "off">>)
    \o Steps("uboot", <<"type", "save", "query", "down", "status">>)
    \o Steps("boot0", <<"query", "query", "save", "down", "status">>)
    \o Steps("mode", <<"mode">>)

\* fes_down_partition; fes_down_uboot; fes_down_boot0; Fex_SetToolMode.
PartSteps ==
    Steps("parts", <<"on", "save", "query", "parts", "off">>)
    \o Steps("uboot", <<"type", "query", "save", "down", "status">>)
    \o Steps("boot0", <<"query", "query", "save", "down", "status">>)
    \o Steps("mode", <<"mode">>)

VARIABLES
    session,    \* [mapped, image, mode]: FEX_MEM_MAP is set; toolsInitPara
    at, path,   \* the step of Script; "parts" or "full"
    outcome,    \* "none" while it runs; then "true", "false", "nil" or "error"
    prompt,     \* the error the user was shown, 0 if none
    held,       \* what is open: "dev", "buf", "item", "map", "type"
    buf,        \* tlBufImg: what it holds
    part, stage, turn,  \* the partition; "open", "down", "sum" or "check"; buffers sent
    tries,      \* queries of the verification under way
    attempts,
    got,        \* device: job -> what it received in this call
    good,       \* device: the jobs it stored without an error
    busy,       \* device: it has not finished what it received last
    flashOn,    \* device: the flash is on
    flash,      \* device: partition -> [n, good], buffers programmed in this call
    nor,        \* device: its storage is a SPI nor flash
    verified    \* history: the jobs whose verification succeeded in this call

loop   == <<part, stage, turn>>
host   == <<session, at, path, outcome, prompt, held, buf, loop, tries, attempts,
            verified>>
store  == <<got, good, flash, nor>>
device == <<store, busy, flashOn>>
vars   == <<host, device>>

Script == Start(session.mode) \o IF path = "full" THEN FullSteps ELSE PartSteps
Doing(op) == at # 0 /\ Script[at].op = op
Job == Script[at].job

\* The full image is downloaded like a partition that has no verify file.
Todo == IF path = "full"
        THEN <<[sparse |-> FALSE, bufs |-> FullBufs,
                verify |-> FALSE, skipped |-> FALSE]>>
        ELSE Parts
InPart(s) == Doing("parts") /\ stage = s

------------------------------------------------------------------------------
(* How a step ends, leaving open what nobody will close *)

Advance(left) ==
    IF at < Len(Script)
    THEN at' = at + 1 /\ held' = held \cup left /\ UNCHANGED <<session, outcome, prompt>>
    ELSE /\ at' = 0 /\ outcome' = "true" /\ prompt' = prompt
         /\ held' = (held \ {"dev", "buf"}) \cup left
         /\ session' = IF path = "full" THEN session     \* returns before Exit
                       ELSE [session EXCEPT !.image = "closed"]

PromptOf(job) == CASE job = "erase" -> 921 [] job = "mbr" -> 1024 [] job = "parts" -> 1025
                   [] job = "uboot" -> 1026 [] job = "boot0" -> 1027 [] OTHER -> 0

\* The function of a job returned false or nil. After SetToolMode nothing is freed.
Fail(left) ==
    /\ at' = 0 /\ outcome' = "false" /\ prompt' = PromptOf(Job)
    /\ held' = (IF Job = "mode" THEN held ELSE held \ {"dev", "buf"}) \cup left
    /\ UNCHANGED session

\* A call of something that is nil, or %d of it in a message: nobody frees or closes.
Raise(left) ==
    /\ at' = 0 /\ outcome' = "error" /\ held' = held \cup left
    /\ UNCHANGED <<session, prompt>>

\* FesTransCmd: command, data and status went through; they went through but the
\* status was bad or lost; or they did not.
FesTransCmd == {"ok", "lost", "failed"}
Arrived(r) == r \in {"ok", "lost"}
Answered(r) == IF r = "ok" THEN Advance({}) ELSE Fail({})

\* fes_down_dlmap_file failed: the flash is switched off, whatever comes of it.
\* Nothing of the kind for the full image.
FailParts(left) ==
    /\ Fail(left)
    /\ IF path = "full" THEN UNCHANGED flashOn
       ELSE \E r \in FesTransCmd : flashOn' = (flashOn /\ ~Arrived(r))

------------------------------------------------------------------------------
(* Init of the script, and entry_fes_thread *)

\* FEX_MEM_MAP is set before the image is opened, and stays set if that fails.
InitTools ==
    /\ at = 0 /\ session.image = "none" /\ ~session.mapped
    /\ \E m \in Modes, i \in {"none", "open"} :
          session' = [mapped |-> TRUE, image |-> i, mode |-> m]
    /\ outcome' = IF session'.image = "open" THEN "true" ELSE "false"
    /\ UNCHANGED <<device, at, path, prompt, held, buf, loop, tries, attempts, verified>>

\* A second Init calls ErrPrint, which is no function.
InitAgain ==
    /\ at = 0 /\ session.mapped
    /\ outcome' = "error"
    /\ UNCHANGED <<device, session, at, path, prompt, held, buf, loop, tries, attempts,
                   verified>>

\* The host starts a burn once Init has returned true.
Enter ==
    /\ at = 0 /\ attempts < MaxAttempts /\ session.image = "open"
    /\ attempts' = attempts + 1
    /\ path' = "parts" /\ prompt' = 0 /\ buf' = Nothing
    /\ part' = 1 /\ stage' = "open" /\ turn' = 0 /\ tries' = 0 /\ verified' = {}
    /\ \/ at' = 1 /\ outcome' = "none" /\ held' = held \cup {"dev", "buf"}
       \/ at' = 0 /\ outcome' = "nil" /\ held' = held       \* Tools_Fex_Dev
       \/ at' = 0 /\ outcome' = "false" /\ held' = held     \* Tools_Buffer or Tools_UI
    /\ got' = [j \in Jobs |-> Nothing] /\ good' = {} /\ busy' = FALSE /\ flashOn' = FALSE
    /\ flash' = [p \in DOMAIN Parts |-> Blank]
    /\ nor' \in BOOLEAN         \* the device that is connected now
    /\ UNCHANGED session

\* Exit has set toolsInitPara to nil, and its image is asked for.
EnterAfterExit ==
    /\ at = 0 /\ attempts < MaxAttempts /\ session.image = "closed"
    /\ attempts' = attempts + 1
    /\ outcome' = "error" /\ held' = held \cup {"dev"}
    /\ UNCHANGED <<device, session, at, path, prompt, buf, loop, tries, verified>>

------------------------------------------------------------------------------
(* What is sent as a whole *)

\* SetMemValWithInt32 of the erase flag or of the size of the full image.
SetFlag ==
    /\ Doing("flag")
    /\ buf' = WholeOf(Job)
    /\ Advance({})
    /\ UNCHANGED <<device, path, loop, tries, attempts, verified>>

\* The answer of a query lands in the first bytes of the buffer.
Query ==
    /\ Doing("query")
    /\ \E r \in FesTransCmd :
          /\ buf' = IF Arrived(r) THEN Answer ELSE buf
          /\ IF r = "ok" THEN Advance({}) /\ UNCHANGED flashOn
             ELSE IF Job = "parts" THEN FailParts({}) ELSE Fail({}) /\ UNCHANGED flashOn
    /\ UNCHANGED <<store, busy, path, loop, tries, attempts, verified>>

\* fes_get_storage_type, into a buffer of its own, which a failure does not free: then
\* the storage is taken for one that is no nor flash. A nor flash may have a full image.
QueryStorage ==
    /\ Doing("type")
    /\ \/ /\ \E r \in FesTransCmd : Advance(IF r = "ok" THEN {} ELSE {"type"})
          /\ path' = path
       \/ /\ Job = "storage" /\ nor
          /\ path' = "full"
          /\ at' = at + 1 /\ held' = held \cup {"item"}
          /\ UNCHANGED <<session, outcome, prompt>>
       \/ Raise({}) /\ path' = path                 \* no buffer
    /\ UNCHANGED <<device, buf, loop, tries, attempts, verified>>

\* save_item_to_mem. A failed read is not reported; the crc of the partition table
\* may notice it, or be wrong itself.
SaveItem ==
    /\ Doing("save") /\ Job # "parts"
    /\ \E w \in BOOLEAN : buf' = [item |-> Job, whole |-> w]
    /\ Advance({}) \/ (Job = "mbr" /\ Fail({}))
    /\ UNCHANGED <<device, path, loop, tries, attempts, verified>>

\* The download map, into a buffer of its own and checked by its crc. The flash stays on.
SaveMap ==
    /\ Doing("save") /\ Job = "parts"
    /\ Advance({}) \/ Fail({})
    /\ UNCHANGED <<device, path, buf, loop, tries, attempts, verified>>

\* No such item, or (left open) an empty one or one too long: a message raises.
SaveRaises ==
    /\ Doing("save")
    /\ \E left \in {{}, {"item"}} :
          Raise(left \cup IF Job = "parts" THEN {"map"} ELSE {})
    /\ UNCHANGED <<device, path, buf, loop, tries, attempts, verified>>

\* FesDownData with the tag of the job. Unless a chunk fails, the last one carries the
\* finish tag, and the device stores what it received, with or without an error.
Down ==
    /\ Doing("down")
    /\ \E r \in FesTransCmd :
          /\ Answered(r)
          /\ IF Arrived(r)
             THEN /\ got' = [got EXCEPT ![Job] = buf]
                  /\ good' \in {good \ {Job}, good \cup {Job}} /\ busy' = TRUE
             ELSE UNCHANGED <<got, good, busy>>
    /\ UNCHANGED <<flash, nor, flashOn, path, buf, loop, tries, attempts, verified>>

MoreTries(n) == n < MaxTries

\* Slip: the loop waits until the device has finished; the turns are told apart by their
\* parity.
StatusForEver ==
    /\ Doing("status")
    /\ tries' = (tries + 1) % 2
    /\ \/ ~busy /\ Job \in good /\ Advance({}) /\ verified' = verified \cup {Job}
       \/ busy /\ UNCHANGED <<session, at, outcome, prompt, held, verified>>
       \/ Fail({}) /\ UNCHANGED verified
    /\ UNCHANGED <<device, path, buf, loop, attempts>>

\* fes_verify_transfer_status, one query. fes_down_erase_flag returns nothing after it.
Status ==
    /\ Doing("status")
    /\ \/ /\ ~busy /\ Job \in good
          /\ verified' = verified \cup {Job} /\ tries' = 0
          /\ IF Job = "erase" THEN Fail({}) ELSE Advance({})
       \/ /\ busy /\ MoreTries(tries + 1)
          /\ tries' = tries + 1
          /\ UNCHANGED <<session, at, outcome, prompt, held, verified>>
       \/ /\ (~busy /\ Job \notin good) \/ (busy /\ ~MoreTries(tries + 1))
          /\ tries' = IF busy THEN tries + 1 ELSE tries
          /\ Fail({}) /\ UNCHANGED verified
       \/ Fail({}) /\ UNCHANGED <<tries, verified>>     \* no buffer, or the query failed
    /\ UNCHANGED <<device, path, buf, loop, attempts>>

------------------------------------------------------------------------------
(* The partitions *)

SetFlashOn ==
    /\ Doing("on")
    /\ \E r \in FesTransCmd : flashOn' = Arrived(r) /\ Answered(r)
    /\ UNCHANGED <<store, busy, path, buf, loop, tries, attempts, verified>>

\* Slip: the answer of the second Fex_SetFlashOnOff is not looked at.
SetFlashOffAnyway ==
    /\ Doing("off")
    /\ \E r \in FesTransCmd : flashOn' = ~Arrived(r)
    /\ Advance({})
    /\ UNCHANGED <<store, busy, path, buf, loop, tries, attempts, verified>>

SetFlashOff ==
    /\ Doing("off")
    /\ \E r \in FesTransCmd : flashOn' = ~Arrived(r) /\ Answered(r)
    /\ UNCHANGED <<store, busy, path, buf, loop, tries, attempts, verified>>

\* The next partition, or the end of the loop.
PartDone(left) ==
    /\ stage' = "open" /\ turn' = 0 /\ tries' = 0
    /\ IF part < Len(Todo)
       THEN /\ part' = part + 1 /\ held' = held \cup left
            /\ UNCHANGED <<session, at, outcome, prompt>>
       ELSE part' = part /\ Advance(left)

ToStage(s) == stage' = s /\ UNCHANGED <<session, at, outcome, prompt, held, part, tries>>

\* get_item_size, sparse_format_probe (which reads the first bytes into the buffer; not
\* for sysrecovery, the image file itself), and the checks of fes_down_normal_item or
\* fes_down_sparse_item. A small UDISK is not programmed, and its item not closed.
PartOpen ==
    /\ InPart("open")
    /\ \/ /\ ~Todo[part].skipped /\ ToStage("down") /\ UNCHANGED flashOn
       \/ /\ Todo[part].skipped /\ UNCHANGED flashOn
          /\ IF Todo[part].verify
             THEN /\ stage' = "sum" /\ held' = held \cup {"item"}
                  /\ UNCHANGED <<session, at, outcome, prompt, part, tries>>
             ELSE PartDone({"item"})
       \/ /\ \E left \in {{}, {"item"}} : FailParts(left)
          /\ UNCHANGED <<part, stage, tries>>
    /\ turn' = 0 /\ buf' \in IF path = "full" THEN {buf} ELSE {buf, PartData}
    /\ UNCHANGED <<store, busy, path, attempts, verified>>

\* One buffer of the partition, read and sent. The device may store it wrongly.
PartDown ==
    /\ InPart("down")
    /\ buf' = PartData
    /\ \E r \in FesTransCmd :
          /\ IF Arrived(r) /\ path = "parts"
             THEN \E g \in BOOLEAN : flash' = [flash EXCEPT ![part] =
                      [n |-> turn + 1, good |-> @.good /\ g]]
             ELSE UNCHANGED flash
          /\ busy' = (busy \/ Arrived(r))
          /\ CASE r = "ok" /\ turn + 1 < Todo[part].bufs ->
                    ToStage("down") /\ turn' = turn + 1 /\ UNCHANGED flashOn
               [] r = "ok" /\ turn + 1 = Todo[part].bufs /\ Todo[part].verify ->
                    ToStage("sum") /\ turn' = turn + 1 /\ UNCHANGED flashOn
               [] r = "ok" /\ turn + 1 = Todo[part].bufs /\ ~Todo[part].verify ->
                    PartDone({}) /\ UNCHANGED flashOn
               [] OTHER -> FailParts({}) /\ UNCHANGED <<loop, tries>>
    /\ UNCHANGED <<got, good, nor, path, attempts, verified>>

\* A read of the item failed; that of a sparse one raises.
PartReadFails ==
    /\ InPart("down")
    /\ IF Todo[part].sparse THEN Raise({"item", "map"}) /\ UNCHANGED flashOn
                            ELSE FailParts({})
    /\ UNCHANGED <<store, busy, path, buf, loop, tries, attempts, verified>>

\* save_item_to_mem of the verify file, over the data of the partition.
PartSum ==
    /\ InPart("sum")
    /\ \/ /\ buf' \in {Sum, [Sum EXCEPT !.whole = FALSE]}
          /\ ToStage("check") /\ turn' = turn /\ UNCHANGED flashOn
       \/ /\ \E left \in {{}, {"item"}} : FailParts(left)
          /\ UNCHANGED <<buf, loop, tries>>
       \/ Raise({"item", "map"}) /\ UNCHANGED <<flashOn, buf, loop, tries>>    \* too long
    /\ UNCHANGED <<store, busy, path, attempts, verified>>

\* Slip: the media crc is not compared with that of the file.
NotCompared == {TRUE}

\* The crc of the file against that of the flash, which of a skipped partition holds
\* what it did.
Compared == IF Todo[part].skipped THEN BOOLEAN
            ELSE {buf = Sum /\ flash[part] = [n |-> Todo[part].bufs, good |-> TRUE]}

\* fes_verify_transfer_value, one query.
PartCheck ==
    /\ InPart("check")
    /\ \/ /\ ~busy /\ TRUE \in Compared
          /\ PartDone({}) /\ UNCHANGED flashOn
       \/ /\ busy /\ MoreTries(tries + 1)
          /\ tries' = tries + 1
          /\ UNCHANGED <<session, at, outcome, prompt, held, flashOn, loop>>
       \/ /\ (~busy /\ FALSE \in Compared) \/ (busy /\ ~MoreTries(tries + 1))
          /\ tries' = IF busy THEN tries + 1 ELSE tries
          /\ FailParts({}) /\ UNCHANGED loop
       \/ FailParts({}) /\ UNCHANGED <<loop, tries>>   \* no buffer, or failed
    /\ UNCHANGED <<store, busy, path, buf, attempts, verified>>

\* Fex_SetToolMode, then SendFesEnd and Exit.
SetToolMode ==
    /\ Doing("mode")
    /\ \E r \in FesTransCmd : Answered(r)
    /\ UNCHANGED <<device, path, buf, loop, tries, attempts, verified>>

------------------------------------------------------------------------------
(* The device *)

\* It has stored what it received, and answers verifications.
DeviceReady ==
    /\ busy /\ busy' = FALSE
    /\ UNCHANGED <<store, flashOn, host>>

------------------------------------------------------------------------------
Init ==
    /\ session = [mapped |-> FALSE, image |-> "none", mode |-> "update"]
    /\ at = 0 /\ path = "parts" /\ outcome = "nil" /\ prompt = 0 /\ held = {}
    /\ buf = Nothing /\ part = 1 /\ stage = "open" /\ turn = 0 /\ tries = 0
    /\ attempts = 0 /\ got = [j \in Jobs |-> Nothing] /\ good = {}
    /\ busy = FALSE /\ flashOn = FALSE
    /\ flash = [p \in DOMAIN Parts |-> Blank] /\ nor = FALSE /\ verified = {}

Burn == \/ SetFlag \/ Query \/ QueryStorage \/ SaveItem \/ SaveMap \/ SaveRaises
        \/ Down \/ Status \/ SetFlashOn \/ SetFlashOff \/ SetToolMode
        \/ PartOpen \/ PartDown \/ PartReadFails \/ PartSum \/ PartCheck

Next == InitTools \/ InitAgain \/ Enter \/ EnterAfterExit \/ Burn \/ DeviceReady

Spec == Init /\ [][Next]_vars

\* The calls of the host return, with an answer or a failure: a burn takes its next
\* step. Nothing is assumed of the device, which may never finish.
FairSpec == Spec /\ WF_vars(Burn)

------------------------------------------------------------------------------
(* Properties *)

\* Types of the host's and the device's state.
TypeOK ==
    /\ session \in [mapped : BOOLEAN, image : {"none", "open", "closed"},
                    mode : {"product", "update"}]
    /\ path \in {"parts", "full"} /\ at \in 0 .. Len(Script)
    /\ outcome \in {"none", "true", "false", "nil", "error"}
    /\ at # 0 => outcome = "none"
    /\ prompt \in {0, 921, 1024, 1025, 1026, 1027}
    /\ held \subseteq {"dev", "buf", "item", "map", "type"}
    /\ part \in 1 .. Len(Todo) /\ stage \in {"open", "down", "sum", "check"}
    /\ turn \in 0 .. Todo[part].bufs /\ tries \in 0 .. MaxTries
    /\ attempts \in 0 .. MaxAttempts
    /\ DOMAIN got = Jobs /\ good \subseteq Jobs
    /\ \A p \in DOMAIN Parts : flash[p].n \in 0 .. Parts[p].bufs
    /\ busy \in BOOLEAN /\ flashOn \in BOOLEAN /\ nor \in BOOLEAN

Burned == at = 0 /\ outcome = "true" /\ attempts > 0 /\ path = "parts"

\* The parts of the image that were to be programmed and are.
Complete(p) == Parts[p].skipped \/ flash[p].n = Parts[p].bufs

\* Success means that the device stored the table, u-boot and boot0 without an error,
\* and that the flash of every partition with a verify file is the image's, even if
\* the device stores some buffer wrongly and finishes late. Every variable has its type.
VerifiedIsGood ==
    /\ TypeOK
    /\ Burned => /\ {"mbr", "uboot", "boot0"} \subseteq good
                 /\ \A p \in DOMAIN Parts : Parts[p].verify /\ ~Parts[p].skipped =>
                       flash[p] = [n |-> Parts[p].bufs, good |-> TRUE]

\* boot0 makes the device start from what was burned. Wherever a burn is cut short, a
\* device that received boot0 has the verified table, all partitions and u-boot.
BootLast ==
    got["boot0"] # Nothing =>
        {"mbr", "uboot"} \subseteq verified /\ \A p \in DOMAIN Parts : Complete(p)

\* Partitions are programmed while the flash is on, u-boot and boot0 while it is off.
FlashIsOn == /\ InPart("down") /\ path = "parts" => flashOn
             /\ at # 0 /\ Job \in {"uboot", "boot0", "mode"} => ~flashOn

\* Answers, verify files, partitions and items share one buffer: what is sent with a
\* tag is the item of that tag, never an answer or data of something else.
TagGetsItsItem == \A j \in Jobs : got[j] # Nothing => got[j].item = j

\* A burn ends, even if the device never finishes.
EveryBurnEnds == at # 0 ~> at = 0

\* Success means that the device received the whole of u-boot and boot0: the message "fail
\* to read item data" and the break after it are there for a read that failed.
SuccessMeansBurned ==
    Burned => \A j \in {"uboot", "boot0"} : got[j] = WholeOf(j)
==============================================================================
