------------------------------- MODULE FelBoot -------------------------------
(* entry_fel2fes of script/aultools.lua: the first phase of burning. The host *)
(* sends fes1 to a device in FEL mode, clears the log area fes1 reports in,   *)
(* runs it, polls the log area five times, then sends u-boot, the device tree *)
(* and sys_config and runs u-boot. fes1 runs on the device meanwhile.         *)
(*                                                                            *)
(* The host is one thread: `at` is the step of Script it is at. What is sent  *)
(* goes through one buffer, tlFelBuf, in chunks of FEX_DOWN_LEN bytes; a      *)
(* chunk is known by its item and number, <<item, c>>.                        *)
EXTENDS Integers, Sequences, FiniteSets

CONSTANTS
    Chunks,         \* Chunks[i]: how many chunks item i has
    MaxPolls,       \* reads of the log area (5)
    MaxAttempts     \* bound: calls of entry_fel2fes in a behaviour

Items == {"fes1", "uboot", "dtb", "sys_config"}
Codes == {"fes1", "uboot"}

ASSUME FelAssumption ==
    /\ Chunks \in [Items -> Nat \ {0}]
    /\ MaxPolls \in Nat \ {0} /\ MaxAttempts \in Nat \ {0}

BufChunks == 1 .. CHOOSE n \in {Chunks[i] : i \in Items} : \A i \in Items : Chunks[i] <= n

\* The first chunk of u-boot with its work mode set to 16 (SetMemValWithInt32).
Patched == <<"uboot, mode 16", 1>>

\* What the device must hold of item i when it runs it.
Content(i, c) == IF i = "uboot" /\ c = 1 THEN Patched ELSE <<i, c>>
Whole(i) == [c \in 1 .. Chunks[i] |-> Content(i, c)]

Blank == <<"none", 0>>

Step(op, item) == [op |-> op, item |-> item]

\* Slip: the device tree is read into the buffer before u-boot is sent from it.
ScriptSaveEarly ==
    <<Step("save", "fes1"), Step("down", "fes1"), Step("clear", "log"), Step("run", "fes1"),
      Step("poll", "log"),
      Step("save", "uboot"), Step("patch", "uboot"), Step("save", "dtb"),
      Step("down", "uboot"), Step("down", "dtb"),
      Step("save", "sys_config"), Step("down", "sys_config"), Step("run", "uboot")>>

\* fel_down_and_run_fes1, then fel_down_and_run_uboot.
Script ==
    <<Step("save", "fes1"), Step("down", "fes1"), Step("clear", "log"), Step("run", "fes1"),
      Step("poll", "log"),
      Step("save", "uboot"), Step("patch", "uboot"), Step("down", "uboot"),
      Step("save", "dtb"), Step("down", "dtb"),
      Step("save", "sys_config"), Step("down", "sys_config"), Step("run", "uboot")>>

VARIABLES
    at,         \* the step of Script, 0 before and after a call of entry_fel2fes
    outcome,    \* "none" while it runs; "true", "false", "nil" or "error" after
    held,       \* what is open: "dev", "buf", "item"
    buf,        \* tlFelBuf: chunk number -> content
    chunk,      \* FelDownData: the chunk that is sent next
    ret,        \* _G.ret, a global: "nil", "true", "false" or "zero" (true in Lua)
    polls,      \* reads of the log area so far
    seen,       \* the host has read SYS_PARA_LOG
    mem,        \* device memory: item -> chunk number -> content
    log,        \* the log area: "clear" or "flag"
    fes1,       \* "off", "running" or "ended"
    dram,       \* "off", "ok" or "bad"
    ran,        \* history: item -> what the device held of it when it was run
    sent,       \* history: item -> the chunks tried in this call
    got,        \* history: item -> the chunks that arrived in this call
    cut,        \* history: items that were not read to their end in this call
    attempts

host   == <<at, outcome, held, buf, chunk, ret, polls, seen, sent, got, cut, attempts>>
device == <<mem, log, fes1, dram, ran>>
vars   == <<host, device>>

Doing(op) == at # 0 /\ Script[at].op = op
Item == Script[at].item
Truthy(r) == r \in {"true", "zero"}

------------------------------------------------------------------------------
(* How a step ends *)

Advance ==
    IF at < Len(Script)
    THEN at' = at + 1 /\ UNCHANGED <<outcome, held>>
    ELSE at' = 0 /\ outcome' = "true" /\ held' = held \ {"dev", "buf"}

\* Every "return false" on the way makes entry_fel2fes close and free.
Fail ==
    /\ at' = 0 /\ outcome' = "false"
    /\ held' = held \ {"dev", "buf"}

------------------------------------------------------------------------------
(* entry_fel2fes *)

Enter ==
    /\ at = 0 /\ attempts < MaxAttempts
    /\ attempts' = attempts + 1
    /\ polls' = 0 /\ seen' = FALSE /\ chunk' = 1
    /\ sent' = [i \in Items |-> {}] /\ got' = sent' /\ cut' = {}
    /\ fes1' = "off" /\ dram' = "off"       \* the device is in FEL mode (again)
    /\ ran' = [i \in Codes |-> <<>>]
    /\ \/ at' = 1 /\ outcome' = "none" /\ held' = {"dev", "buf"}
       \/ at' = 0 /\ outcome' = "nil" /\ held' = {}         \* Tools_Fex_Dev
       \/ at' = 0 /\ outcome' = "false" /\ held' = {}     \* Tools_Buffer; dev closed
    /\ buf' = [c \in BufChunks |-> Blank]
    /\ UNCHANGED <<ret, mem, log>>

\* Slip: close_item keeps its result in a local, so read_item_data's is left.
SaveLocalRet ==
    /\ Doing("save")
    /\ \E k \in 0 .. Chunks[Item] :
          /\ buf' = [c \in BufChunks |-> IF c <= k THEN <<Item, c>> ELSE buf[c]]
          /\ ret' = IF k = Chunks[Item] THEN "true" ELSE "false"
          /\ cut' = IF k < Chunks[Item] THEN cut \cup {Item} ELSE cut
    /\ Advance
    /\ UNCHANGED <<device, chunk, polls, seen, sent, got, attempts>>

\* save_item_to_mem. A read that fails leaves the loop after k chunks, the rest of
\* the buffer stays as it was, and the size of the item is returned all the same.
\* close_item sets the global ret to 0.
Save ==
    /\ Doing("save")
    /\ \E k \in 0 .. Chunks[Item] :
          /\ buf' = [c \in BufChunks |-> IF c <= k THEN <<Item, c>> ELSE buf[c]]
          /\ cut' = IF k < Chunks[Item] THEN cut \cup {Item} ELSE cut
    /\ ret' = "zero"
    /\ Advance
    /\ UNCHANGED <<device, chunk, polls, seen, sent, got, attempts>>

\* No such item, or (item left open) an empty one; for fes1 also one too long.
SaveFails ==
    /\ Doing("save")
    /\ \E left \in {{}, {"item"}} :
          at' = 0 /\ outcome' = "false" /\ held' = (held \ {"dev", "buf"}) \cup left
    /\ ret' \in {ret, "zero"}
    /\ UNCHANGED <<device, buf, chunk, polls, seen, sent, got, cut, attempts>>

\* An item larger than the buffer: the message formats a function with %d, which raises.
SaveRaises ==
    /\ Doing("save")
    /\ at' = 0 /\ outcome' = "error" /\ held' = held \cup {"item"}
    /\ UNCHANGED <<device, buf, chunk, ret, polls, seen, sent, got, cut, attempts>>

Patch ==
    /\ Doing("patch")
    /\ \/ Advance /\ buf' = [buf EXCEPT ![1] = IF @ = <<"uboot", 1>> THEN Patched ELSE @]
       \/ Fail /\ buf' = buf
    /\ UNCHANGED <<device, chunk, ret, polls, seen, sent, got, cut, attempts>>

\* SendFexCommand: Fex_command got through to the device or not.
SendFexCommand == BOOLEAN

\* What FelDownData returns: whether the chunk it sent last got through.
DownAnswers(ok) == ok

\* FelDownData, one chunk. It is the global ret that ends the loop early, not the
\* local _ret that holds the answer of SendFexCommand.
Down ==
    /\ Doing("down")
    /\ sent' = [sent EXCEPT ![Item] = @ \cup {chunk}]
    /\ \E ok \in SendFexCommand :
          /\ mem' = IF ok THEN [mem EXCEPT ![Item][chunk] = buf[chunk]] ELSE mem
          /\ got' = IF ok THEN [got EXCEPT ![Item] = @ \cup {chunk}] ELSE got
          /\ IF Truthy(ret) /\ chunk < Chunks[Item]
             THEN chunk' = chunk + 1 /\ UNCHANGED <<at, outcome, held>>
             ELSE /\ chunk' = 1
                  /\ IF DownAnswers(ok) THEN Advance ELSE Fail
    /\ UNCHANGED <<log, fes1, dram, ran, buf, ret, polls, seen, cut, attempts>>

\* Slip: the area cleared is the one of the code, not the one fes1 returns to.
ClearElsewhere ==
    /\ Doing("clear")
    /\ Advance \/ Fail
    /\ UNCHANGED <<device, buf, chunk, ret, polls, seen, sent, got, cut, attempts>>

\* FelClearArea: a zeroed buffer of one chunk; the buffer may be refused.
Clear ==
    /\ Doing("clear")
    /\ \/ \E ok \in SendFexCommand : IF ok THEN log' = "clear" /\ Advance
                                            ELSE log' = log /\ Fail
       \/ log' = log /\ Fail
    /\ UNCHANGED <<mem, fes1, dram, ran, buf, chunk, ret, polls, seen, sent, got, cut, attempts>>

\* FelRun.
Run ==
    /\ Doing("run")
    /\ \E ok \in SendFexCommand :
          IF ok THEN /\ ran' = [ran EXCEPT ![Item] = mem[Item]]
                     /\ fes1' = IF Item = "fes1" THEN "running" ELSE fes1
                     /\ Advance
                ELSE Fail /\ UNCHANGED <<ran, fes1>>
    /\ UNCHANGED <<mem, log, dram, buf, chunk, ret, polls, seen, sent, got, cut, attempts>>

\* Slip: the loop waits until the log is there; the turns are told apart by their parity.
PollForEver ==
    /\ Doing("poll")
    /\ polls' = (polls + 1) % 2
    /\ \/ log = "flag" /\ seen' = TRUE /\ Advance
       \/ log # "flag" /\ seen' = seen /\ UNCHANGED <<at, outcome, held>>
       \/ seen' = seen /\ Fail
    /\ UNCHANGED <<device, buf, chunk, ret, sent, got, cut, attempts>>

\* Slip: "for i = 0, 5".
OneMorePoll(n) == n <= MaxPolls
MorePolls(n) == n < MaxPolls

\* One turn of the loop: wait 500 ms, read the log area. Its result word is a number,
\* true whatever it says; without a flag after the last turn, ret is FelUpData's true.
Poll ==
    /\ Doing("poll")
    /\ polls' = polls + 1
    /\ \/ log = "flag" /\ seen' = TRUE /\ Advance
       \/ /\ log # "flag" /\ seen' = seen
          /\ IF MorePolls(polls') THEN UNCHANGED <<at, outcome, held>> ELSE Advance
       \/ seen' = seen /\ Fail          \* FelUpData failed, or no buffer for the log
    /\ UNCHANGED <<device, buf, chunk, ret, sent, got, cut, attempts>>

------------------------------------------------------------------------------
(* The device *)

\* fes1 ends: the memory is initialised or not, and the log area says so.
Fes1Ends ==
    /\ fes1 = "running"
    /\ fes1' = "ended"
    /\ dram' \in {"ok", "bad"}
    /\ log' = "flag"
    /\ UNCHANGED <<mem, ran, host>>

------------------------------------------------------------------------------
Init ==
    /\ at = 0 /\ outcome = "nil" /\ held = {}
    /\ buf = [c \in BufChunks |-> Blank] /\ chunk = 1 /\ ret \in {"nil", "zero"}
    /\ polls = 0 /\ seen = FALSE
    /\ mem = [i \in Items |-> [c \in 1 .. Chunks[i] |-> Blank]]
    /\ log \in {"clear", "flag"}        \* what an earlier session left
    /\ fes1 = "off" /\ dram = "off"
    /\ ran = [i \in Codes |-> <<>>] /\ sent = [i \in Items |-> {}]
    /\ got = sent /\ cut = {} /\ attempts = 0

Host == Save \/ SaveFails \/ SaveRaises \/ Patch \/ Down \/ Clear \/ Run \/ Poll

Next == Enter \/ Host \/ Fes1Ends

Spec == Init /\ [][Next]_vars

\* The calls of the host return, with an answer or a failure: a call of entry_fel2fes
\* takes its next step. Nothing is assumed of fes1, which may hang.
FairSpec == Spec /\ WF_vars(Host)

------------------------------------------------------------------------------
(* Properties *)

\* Types of the host's and the device's state.
TypeOK ==
    /\ at \in 0 .. Len(Script)
    /\ outcome \in {"none", "true", "false", "nil", "error"}
    /\ at # 0 <=> outcome = "none"
    /\ held \subseteq {"dev", "buf", "item"}
    /\ DOMAIN buf = BufChunks
    /\ chunk \in BufChunks /\ (at = 0 => chunk = 1)
    /\ ret \in {"nil", "true", "false", "zero"}
    /\ polls \in 0 .. MaxPolls /\ seen \in BOOLEAN
    /\ \A i \in Items : DOMAIN mem[i] = 1 .. Chunks[i] /\ sent[i] \subseteq 1 .. Chunks[i]
    /\ log \in {"clear", "flag"} /\ fes1 \in {"off", "running", "ended"}
    /\ dram \in {"off", "ok", "bad"}
    /\ attempts \in 0 .. MaxAttempts

\* The downloads of this call that were taken for done.
Downloaded == {Script[k].item : k \in {j \in DOMAIN Script :
                   Script[j].op = "down" /\ (j < at \/ outcome = "true")}}

\* FelDownData tests a global that other functions set: a download that is taken for
\* done tried all of its chunks only because closing the item left that global true.
EveryChunkTried == \A i \in Downloaded : sent[i] = 1 .. Chunks[i]

\* Four items go through one buffer: if one was read to its end and all of its chunks
\* arrived, the device runs that item, patched, and no chunk of another one.
DeliveredMeansWhole ==
    \A i \in Codes : ran[i] # <<>> /\ i \notin cut /\ got[i] = 1 .. Chunks[i]
                        => ran[i] = Whole(i)

\* The log the host acts upon is the one of the fes1 it started, not of an earlier one.
LogIsFresh == seen => fes1 = "ended"

\* A call of entry_fel2fes ends, even if fes1 never writes its log.
EveryCallEnds == at # 0 ~> at = 0

\* What the device is told to run, if it was read to its end, arrived whole: the message
\* "Failed to down data to fel." and the break after it are there for a chunk that did
\* not get through.
RunsWhatArrived ==
    \A i \in Codes : ran[i] # <<>> /\ i \notin cut => got[i] = 1 .. Chunks[i]
==============================================================================
