# Verification of hack-livesuite

TLA+ models, model checks and proofs of the burning scripts of this repository
(`script/aultools.lua`, the decompiled `aultools.fex`), of the bytecode compiler
`luacompile.c`, and of the Lua 5.1 implementation in `lua-5.1/` that both rest on.

Layout: one module per component, `MC*` modules and `.cfg` files that instantiate
them for TLC, `*Proof` modules with proofs and the inductive invariants they need
(that of `SparseDown` is in `SparseDownInv`, which TLC uses too).
`tlc -config X.cfg MC` runs a check, `tlapm XProof.tla` checks the proofs.

## 1. The system

LiveSuit (a binary, `x86-64/`) burns a firmware image onto Allwinner devices over USB.
It loads a plug-in that runs `aultools.lua` in a Lua VM and calls four functions of it:
`Tools.Init`, `Tools.entry_fel2fes`, `Tools.entry_fes_thread`, `Tools.Exit`. The script
calls back into the host's libraries (`luaeFex`, `luaBase`): opening a device, one USB
transaction, opening and reading items of the image, buffers, messages to the user.

| Component | State | Operations | Interacts with |
|---|---|---|---|
| Session (`Init`, `Exit`) | `toolsInitPara`, `FEX_MEM_MAP` | open the image, ask the user; close it | all entries read `toolsInitPara` |
| FEL phase (`entry_fel2fes`) | buffer `tlFelBuf`, global `ret` | send fes1, clear the log area, run, poll, send u-boot, device tree and sys_config, run u-boot | `Tools_Fex_Dev`, image, fes1 on the device |
| FES phase (`entry_fes_thread`) | buffer `tlBufImg`, partition keys | erase flag, partition table, full image or partitions, verifications, u-boot, boot0, tool mode | `Tools_Fex_Dev`, image, user |
| Sparse download (`fes_down_sparse_item`) | `retPara`, `sparseBuf`, global `ret` | read, parse chunks, program, carry the rest | `FesDownData`, item |
| Device (`Tools_Fex_Dev`) | command buffer | `FesTransCmd`: command, data, status; `FelDownData`, ... | USB |
| Image (`Tools_Img`) | global `hItem`, read position | open, read, close, `save_item_to_mem` | `imgdec_fun.lua` |
| Buffers, files | host memory | copies, typed access | host |
| Image decoding (`imgdec_fun.lua`) | item table, file position | open, find item, read 16-byte blocks | file |
| `luacompile.c` | file | load a script, dump its bytecode | compiler, dump |
| Compiler (`lparser.c`, `lcode.c`) | tokens, FuncState, expression lists | parse, generate code, patch jumps | dump, interpreter |
| Dump and load (`ldump.c`, `lundump.c`, `ldebug.c`) | stream | write, read, verify bytecode | `luacompile.c`, host |
| Interpreter (`lvm.c`) | stack, closures, tables | execute one instruction | calls, tables, collector |
| Calls (`ldo.c`, `lapi.c`, `lbaselib.c`) | stacks, CallInfo's, C stack | call, raise, protect, resume, yield | interpreter, collector |
| Tables (`ltable.c`, `ltm.c`) | array part, nodes, free pointer | get, set, next, length, rehash | interpreter, collector |
| Collector (`lgc.c`, `lfunc.c`, `lstring.c`) | colours, lists, upvalues | mark, sweep, finalize, barriers | every operation on objects |

What is hard here:

* *Streaming.* The sparse parser sees the item through 10 MiB reads that cut heads, fill
  patterns and data anywhere; what it cannot consume moves in front of the next read.
* *Shared state.* One buffer carries items, answers of queries, partition data and verify
  files; two globals named `ret` (one of the script's early part, one of the module
  `Tools`) are assigned in many functions and read where they were not assigned.
* *Failure.* Any USB transaction can fail, be refused, or succeed with its answer lost;
  reads and allocations can fail; some failure paths raise.
* *Timing.* fes1 and the FES program run beside the host and may finish late or never;
  the host polls a fixed number of times.
* *Garbage collection* in the VM interleaves with the program it collects.
* *Long jumps.* An error leaves any number of calls at once, in Lua and in C, of several
  coroutines that share one C stack.
* *One pass.* The compiler emits code before it knows what follows, and patches it.

What makes each component correct: a byte of flash is never wrong; success means
complete (sparse download). What is run arrived, the log that is acted upon is fresh
(FEL). Success means verified, boot0 comes last, the shared buffer never mixes things up
(FES). A caller gets the bytes of the item it named (image). Every call ends. A script that
was compiled, saved and loaded does what its text means; a table is a map; no reachable
object is collected; no upvalue refers to a dead stack slot; the counts of nested calls and
the innermost error handler survive every way of leaving a call.

`PROJECT.json` lists the hazards, each at its line, with the properties that cover it.

## 2. Modules

### SparseImage: the promise

`SparseImage` is the abstract download: an image, a partition `flash` (per byte the item
offset it came from, or none) and an `outcome`. `Program` adds correct bytes in ascending
order, `Succeed` requires a complete flash if the image is whole, `Fail` may happen at any
time. It knows nothing of buffers. Images carry the derived functions `start`, `place` and
`target`; `WellFormed` says how they follow from the chunks, and is what proofs assume.

### SparseDown: the code

One action is one turn of the loop of `parse_and_down_chunk` (one branch of it), or one
step of the loop of `fes_down_sparse_item`.

| Action | Code (`aultools.lua`) |
|---|---|
| `OpenItem`, `RefuseItem`, `NoBuffer` | 2663-2716: the item, its size, the buffer |
| `ReadItem`, `ReadFails` | 2717-2724; `sparseOfs` and `rest` set up in 2493-2496 |
| `TotalHead` | 2498-2501 |
| `ChunkHeadShort`, `ChunkHead`, `ChunkHeadBad` | 2502-2550 |
| `FillData`, `FillShort` | 2551-2570 |
| `ChunkDataWhole`, `ChunkDataShort`, `ChunkDataPart`, `ChunkDataFails` | 2571-2649 |
| `NextRead`, `ItemDone` | 2739-2755 |

`buf` maps buffer offsets to item offsets, so a wrong copy, a wrong carry or a wrong
address shows as a wrong byte in `flash`. `ret` is the global of module `Tools`: the FEL
phase leaves true, false or nothing in it, a buffer without transfer or copy leaves it as
it is. Two history variables: `denied`, the host or the device did not do what it was asked;
`found`, the global `ret` as the item found it. When a chunk head is decoded where none
starts, `Heads` yields any chunk, so losing sync is not excluded by the model's shape.

### FelBoot and FesBurn: the two phases

Both are one host thread that walks a constant sequence of steps (`Script`), one action
per kind of step with its failures, beside a device that moves on its own (`Fes1Ends`,
`DeviceReady`). `FelBoot` keeps chunks of items, as `FelDownData` may lose one of them.
`FesBurn` keeps whole contents (`got`, with the flag `whole` cleared when a read failed)
and, for partitions, how many buffers are programmed and whether the device stored them
well. `FesTransCmd` has three outcomes: through; through, but the status was bad or lost;
not through. A partition item (sparse or normal) is a number of buffers here: what
happens inside a sparse one is `SparseDown`.

Steps of `FesBurn` and code: `Start` is `fes_down_erase_flag` (update mode only),
`fes_down_mbr` and `fes_get_storage_type`; `FullSteps` is `fes_down_full_image`;
`PartSteps` is `fes_down_partition`, `fes_down_uboot`, `fes_down_boot0` and the tool
mode. `PartOpen`, `PartDown`, `PartSum`, `PartCheck` are one turn of the loop of
`fes_down_dlmap_file`. `Exit` is part of the last step, as in the code.

### ImgItem: the items of the image

`imgdec_fun.lua` as `Tools_Img` uses it. Both phases read all they send through it; they
treat a read as one step, `ImgItem` shows what a read is. The image is a table of items
and a file that may end early; a byte is known by its place in the file, so decrypting
and copying a block are the same, and items whose data overlap share bytes as in the
code. `hItem` is one global for all callers, with the read position in it; the file
position is shared, and every read seeks first.

| Action | Code |
|---|---|
| `OpenImage`, `CloseImage` | `imgdec_fun.lua` 123-215, 559-579 |
| `Call` | `Tools_Img.Item` (`aultools.lua` 794-836), the search by name, the size, the caller's checks |
| `StartRead` | `imgdec_fun.lua` 472-519: lengths by version, end of the item, length of the read, seek |
| `ReadPiece` | 520-545: one turn of the loop over 32 KiB; after the last one the caller's turn (`ReadTrue`, `ReadFalse`) |

The three callers differ in how much they read at a time (`Chunk`), where to (`Shift`:
`save_item_to_mem` gathers, the others start at the front), and what a failed read means
to them. Blocks are filled whole, so reads write behind what they were asked for, and
sizes are pairs of words of which `Tools_Img` keeps the low one.

### LuaGC: the incremental collector

Objects have a colour, a place in the lists of the collector, and the references that
matter: metatable, environment, one entry of a table, the stack of a thread, the level of
an upvalue. One step is one object's worth of work of `singlestep` (`propagatemark`,
`atomic`, one object or list of a sweep, one finalizer), or one operation of the program
(`lua_newtable`, `lua_rawset` with `luaC_barrierback`, `lua_setmetatable`, `luaF_findupval`,
`luaF_close`, `luaS_newlstr` with `changewhite`, ...). How far `luaC_step` goes in one call is
pacing; the model allows any number of steps between two operations, which includes it.

### LuaMap and LuaTable: tables

`LuaMap` is the promise (a map, and a traversal that meets every entry once while only
existing fields are assigned to), `LuaTable` the code of `ltable.c`: main positions,
`newkey` with its two collision cases, `lastfree`, `rehash`, `resize`, `luaH_next` with dead
keys, `luaH_getn`, and the flags of absent metamethods of `ltm.c`. `view` in `LuaTable` is
what `luaH_get` reads: the refinement says that this is the map.

### LuaStack: calls, errors, coroutines

A thread is its positions (`base`, `top`, end of the stack, the `CallInfo`'s, `nCcalls`,
`errfunc`, open upvalues). `cs` is the C stack that all threads share, as the sequence of
C functions under way: `luaV_execute`, a C function, a hook, `lua_pcall`, `luaD_call`,
`resume`. An error is an entry that waits at its top until `luaD_throw` cuts the sequence at
the innermost `setjmp`. What is in a slot of the stack is left out. A call by the
interpreter uses the first register above the variables closures refer to (`FreeRegs`),
within the registers the compiler reserved (`Fits`); a C function asks for room for its
results as `checkresults` does (`lapi.c` 765, 773).
The collector shrinks stacks between steps (`Shrink`) and in the midst of one: `luaD_precall`
of an old-style vararg function lets it run while it makes the table `arg`. It visits a
stack at most twice then, when it marks it and in `atomic`; how often is a field of the function
(`visits`), so a program has one such function for each. Finalizers that it might call there
are left out.

| Action | Code |
|---|---|
| `lua_call`, `lua_pcall`, `CallTM` | `lapi.c` 769-818, `lvm.c` 82-107; `luaD_call`, `luaD_precall` of `ldo.c` |
| `OpCall`, `OpTailCall`, `OpReturn` | `lvm.c` 581-648 |
| `CReturn`, `lua_error`, `luaG_runerror`, `luaD_throw` | `ldo.c` 51-108, 331-360, 452-502; `ldebug.c` 600-619 |
| `CoCreate`, `CoResume`, `BadResume`, `lua_yield` | `lbaselib.c` 480-584, `ldo.c` 383-449 |
| `Capture`, `OpSetList`, `Reserve`, `lua_settop`, `Hook`, `Shrink` | `lfunc.c` 53-79, `lvm.c` 692-713, `lapi.c` 95-173, `ldo.c` 181-205, `lgc.c` 241-270 |

### LuaLang, LuaCode, LuaParser, LuaCheck, LuaVM, LuaDump, LuaRun: the way of a script

`LuaRun` composes them: a script is compiled (`LuaParser` with the code generator
`LuaCode`), dumped to a disk that may be full and loaded on a host that may be another kind
of machine (`LuaDump`, with the checker of bytecode `LuaCheck`), and executed one instruction
a step (`LuaVM`). `LuaLang` is the reference: it writes a tree as tokens, and says what the
tree means by recursion over it, without registers, jumps or upvalues. Source text is
tokens: the characters of the lexer are left out, as are line numbers, metamethods (see
`LuaStack`) and coroutines in compiled scripts.

Definitions whose comment starts with "Slip:" are plausible mistakes in the definition
that follows (a swapped order, a dropped guard, an off-by-one). No specification uses
them. `PROJECT.json` pairs each with the property that must fail when it replaces the
right one: that is how each property is known to say something about the code.

## 3. Runs

| Run | Checks | Bounds |
|---|---|---|
| `sparse` | `TypeOK`, `FlashFaithful`, `SuccessComplete`, `NoSpuriousFailure`, `Implements`, `EveryDownloadEnds` | two items, all images of up to 2 chunks, whole and cut short |
| `fel_boot` | `TypeOK`, `EveryChunkTried`, `DeliveredMeansWhole`, `LogIsFresh`, `EveryCallEnds` | two calls, two polls, items of 1 and 2 chunks |
| `fel_chunks` | `RunsWhatArrived`, violated | one call, fes1 of one chunk, u-boot of two |
| `fes_burn` | `VerifiedIsGood`, `BootLast`, `FlashIsOn`, `TagGetsItsItem`, `EveryBurnEnds` | two calls, two queries, three partitions |
| `fes_cut` | `SuccessMeansBurned`, violated | one call |
| `img_items` | `BytesInOrder`, `NoBlockOutside`, `WholeOnSuccess`, `NoFalseFailure` | two calls of three kinds, six items, four versions, the file whole and cut |
| `gc` | `TriColour`, `ListsHoldGray`, `AccessibleAlive`, `FinalizedOnce`, `WhiteAtRest` | six heaps of two to five objects besides the roots |
| `table` | `NotShadowed`, `LengthIsBoundary`, `CacheIsTrue`, `ArrayOptimal`, `ImplementsMap` | four keys at a time, three hash functions, two initial sizes |
| `stack` | `FramesInStack`, `CallsCounted`, `YieldReachesResume`, `NoStaleUpvalue`, `HandlerIsInnermost`, `OverflowContained` | thirteen programs of one or two functions, up to 5 C functions deep, two coroutines |
| `stack_varargs` | `FramesInStack`, violated | an old-style vararg function of eight registers; a vararg function of three parameters |
| `code` | `TypeOK`, `RunsAsWritten`, `CompilesCleanly`, `LoadedIsCompiled` | a family of programs with every statement and operator, six of them listed as faults; full disks of several sizes |
| `code_wrong` | `RunsAsWritten`, violated | one program |

What the properties say is in the comment above each of them, with the lines of the code
they are about; "passes" means that TLC visits every reachable state within the bounds.

Why the bounds suffice. *Sparse:* the sizes are scaled (sector 2, head 3, fill pattern 2,
read 13, carry limits 8 and 4) but keep the order and divisibility of the real ones, which
is all the code depends on; the assumption `BufferAssumption` states exactly what the
proofs need. Raw lengths 0, 4, 12 and 28 lie below a read, around the carry limits, and
above two reads, and the reads end in every part of a chunk. The proofs lift the bounds.
*FEL:* two chunks distinguish a lost chunk from a lost last chunk; u-boot is longer than
what follows it in the buffer; two polls have a first and a last; the second call finds
what the first left in the log, the buffer and `ret`. *FES:* one partition of each kind
(sparse without verify file, normal with one, skipped), a loop with a first, middle and
last turn, a call after a success and one after a failure. *Image:* block 2, piece 4 and
word 16 divide each other as the real ones do, and so do the buffer and what is read at a
time (`ImgAssumption`; in the code all are multiples of 512). The items are shorter than a
piece, several pieces long, longer than a word, longer than the buffer, empty, and
malformed; two differ in case only. Two calls let one find what the other left in
`hItem`, the buffer and the file position. *Collector:* each heap has the kinds of object
that meet in one mechanism (userdata and a table that may be weak, strings found again,
tables assigned to, closures over two stacks); colours, lists and references are finite, so
every interleaving of any length is visited. *Tables:* four keys reach a size of four
nodes and force collisions, moved nodes and rehashes that shrink a part; `MAX_INT` and
`MAXBITS` are small so that the searches reach them. *Stack:* the stacks are so small that
they are moved, grown and shrunk at almost every step; the limit of `CallInfo`'s is 4 and
that of C calls 1 to 3, so that overflows and errors in their handling happen. *Code:*
`MAXINDEXRK` and `LFIELDS_PER_FLUSH` are 2, so constants leave the range of operands and
table constructors flush within small programs; the programs are enumerated by the shapes
of their expressions and statements; to these are added programs for rare statements
(`Special`) and the ones listed as faults.

The specifications stop when their bounds are used up, so deadlock is not checked.

*Fairness.* Only the host's own steps are fair (`WF_vars(Download)`, `WF_vars(Host)`,
`WF_vars(Burn)`): the script runs in one thread, and each host call it makes returns with
an answer or a failure. fes1 and the device are never fair: a call ends even if they hang.
The modules of the VM state no liveness: a program may run for ever.

## 4. Findings

Shown by a run:

* `aultools.lua:1410` tests the global `ret` in place of `_ret`: only the last chunk's
  answer counts (`fel_chunks`: the first of the two chunks of u-boot is not stored, and
  u-boot is run).
* `aultools.lua:914`: `save_item_to_mem` reports a failed read as success (`fes_cut`).
* `code_wrong`: `local function f (x) x = nil; return x end` returns its argument, as
  `luaK_nil` takes the registers of parameters for clean at the start of a function
  (`lcode.c:40`).
* `ldo.c:292`: the assertion `ci->top <= L->stack_last` can fail for a vararg function, as
  the stack is checked for the registers of the function (276) before `adjust_varargs` is
  done with it (`stack_varargs`). One that needs the table `arg` lets the collector run
  (219), which halves a stack that is hardly used (`lgc.c:249`), with no regard to the room
  that was just asked for: the run's trace, a function of eight registers called with one
  argument. And a nil is pushed for every missing argument (213): with two or more missing
  the frame ends behind the stack without a collection (the function `opt` of `MCStack`).
  The slots kept behind `stack_last` (`EXTRA_STACK`) take few of them.

Shown by the run `code`, as exceptions: `Faults` lists six programs with what is wrong with
each, and `RunsAsWritten` and `CompilesCleanly` say that these and no other programs of the
family fail.

* Three mean something else when compiled: the one of `code_wrong`; a logical operator on a
  constant that ends another one; and `7 > t.x` when the constants of a function do not fit
  an operand (`lcode.c:670`, the operands are swapped in the order they were given
  registers). The last one also fails the assertion of `freereg` (`lcode.c:213`).
* A unary minus on `nil`, `true` or `false` is compiled to code that the checker refuses, on
  which `lparser.c:373` asserts that it does not: `luaK_prefix` (`lcode.c:691`) brings only a
  constant of the table to a register.
* A file of which nothing was written is taken for the source of an empty script and run
  (`LoadedIsCompiled`); one cut anywhere behind its first block is refused.

Seen while modelling, without a run of their own:

* `aultools.lua`: 2722 calls `ErrPrinL`, which does not exist, so a failed read raises and
  leaks what was opened; 2262-2288 send u-boot whatever fes1 reports, where ReadMe.md says
  that the first phase initialises the memory; 3308, `fes_down_erase_flag` returns nothing,
  so update mode always ends with error 921; `Init` called again raises (2150, `ErrPrint`);
  `PromptError` passes the undefined `TOOLS_ERROR` (2070); a missing item raises in `%d` of
  a message (3243, 3321) before its own error message; the flash stays on at the returns
  3236-3258; normal items are closed twice after a failed transfer (2466, 2478) and not at
  all when skipped (2428); fill chunks are skipped, not filled; a sparse item that ends
  early counts as success; an item of 4 GiB or more is read to the low word of its size and
  counts as read (824).
* `imgdec_fun.lua`: 525 does not look at what `LFread` returns, so behind the end of an
  image that is cut short every read answers true; of images of a version above 768 items
  are found but every read answers 0 bytes (486); `__Img_ReadItemData` raises at its first
  call (`ItemTabale`), but no caller gets there.
* `luacompile.c`: 8-12 and 50 print "Bytecode saved to" although `fwrite` failed.
* `lgc.c`: 645, a full collection by a finalizer that `lua_close` calls starts a sweep that
  does not end; the invariant `TriColour` holds only until `lua_close`.
* No property speaks against three of these: that u-boot is sent whatever fes1 reports
  (`EveryCallEnds` shows only that the polls come to an end); 824, as `WholeOnSuccess` measures by
  the low word of a size; `imgdec_fun.lua` 486, as `NoFalseFailure` leaves out the versions
  above 768.
* `luaconf.h:452`, "maximum depth for nested C calls": the count is kept per coroutine.
* `lbaselib.c`, `ldo.c`: resuming a coroutine that itself resumed another one resets the
  top of its frame (`resume_error`); inside `coroutine.wrap` it is reported dead.
* `ltable.c`: the header (12) says that at least half of the slots of the array part are in
  use, the comment of `computesizes` (198) and the code say more than half. `ArrayOptimal`
  follows the latter: "at least half" is its mutant.

## 5. Proofs

The theorems hold for every value of the constants that satisfies the assumptions the
modules name (`SizesAssumption`, `ImagesAssumption`, `BufferAssumption`, `FelAssumption`,
`BurnAssumption`, `ImgAssumption`, `StackAssumption`, `GCAssumption`,
`TableAssumption`), and for behaviours
of any length. Each module has an invariant `IInv`, which TLC checked on the instance of the run before it was
proved: `Init => IInv`, `IInv /\ [Next]_vars => IInv'`, and `IInv => Inv` for each property.

### SparseDownProof

| Theorem | Statement |
|---|---|
| `Invariance` | `Spec => []IInv` |
| `TypeCorrect` | `Spec => []TypeOK`: the carried rest fits the spare area |
| `FaithfulFlash` | `Spec => []FlashFaithful`: no byte of the partition is ever wrong |
| `CompleteOnSuccess` | `Spec => []SuccessComplete` |
| `ParserInSync` | `Spec => []HeadInSync`: a head is decoded only where the image has one |
| `FailuresHaveCauses` | `Spec => []NoSpuriousFailure` |
| `Refinement` | `Spec => Implements`: the parser implements `SparseImage` |

`FlashFaithful` alone is not inductive: whether a programmed byte is right
depends on where the parser believes it is. `IInv` (module `SparseDownInv`) ties
everything to one number, `Pos`, the item offset of the next byte to parse:

* `Window`: while parsing, the buffer from `sparseOfs` on holds the item from `Pos` on,
  without a gap between the carried bytes and the read;
* `Carry`: between reads the carried bytes are the item's bytes from `Pos` on, and shorter
  than the head, pattern or data they belong to;
* `Place`: parser state, `handled_chunk`, `Pos` and `flash_start` agree with `start` and
  `place` of the image;
* `Written`: flash is programmed up to `flash_start` and blank after it.

There is one lemma per action. `HeadsSound` is the heart of sync (the head that is decoded
is the next chunk), `ProgramPrefix` that of faithfulness (n more bytes extend the
programmed prefix), `DownLenFacts` that of the carry limit. The sector arithmetic, the only
nonlinear part, is in four lemmas at the beginning. The refinement needs no mapping:
`image`, `flash` and `outcome` are the abstract variables; every step of the code is a step
of `ANext` or changes none of them. `NoSpuriousFailure` speaks of the
downloads in which neither the host nor the device denied a request (`denied`): these fail at
a head that is bad in the image itself, with all before it programmed, or with the global
`ret` that an earlier function left false (`found`, what it was when the item was opened).
`FailuresHaveCauses` needs that the parser is in sync, so that a head it refuses is the
image's, and how long `ret` can stay false: `Stale` says that as long as it is, nothing was
programmed or carried, which `NoRawYet` keeps through the chunks without raw data; the
first transfer or copy ends it.

### FelBootProof

| Theorem | Statement |
|---|---|
| `Invariance` | `Spec => []IInv` |
| `TypeCorrect` | `Spec => []TypeOK` |
| `DownloadsComplete` | `Spec => []EveryChunkTried` |
| `DeliveredWhole` | `Spec => []DeliveredMeansWhole` |
| `FreshLog` | `Spec => []LogIsFresh` |

The place in the script decides nearly everything. `ScriptSteps`, `Order` and `WhereItIs`
unfold the script once; then `Sending` says which chunks were sent at each place,
which needs that the stale global `ret` is a true value there (`ret = "zero"`); `Buffered`
and `Delivered` follow an item from the buffer that all items share into the memory of the
device; `Logging` says that fes1 cannot run between the clearing of its log and its start,
so a flag found later is its own. There is one lemma per conjunct (`SendingKeeps`,
`BufferedKeeps`, `DeliveredKeeps`, `LoggingKeeps`), with one step per kind of action.

### FesBurnProof

| Theorem | Statement |
|---|---|
| `Invariance` | `Spec => []IInv` |
| `SuccessIsVerified` | `Spec => []VerifiedIsGood` |
| `BootIsLast` | `Spec => []BootLast` |
| `TagsAreRight` | `Spec => []TagGetsItsItem` |
| `FlashFollows` | `Spec => []FlashIsOn` |

The script here is a concatenation that depends on the work mode and the storage. The
lemmas up to `ScriptLen` prove what each place of each variant does, so the rest speaks of
places (`Pos`, counted from the end of the erase flag) only. `Tagged`: what is sent was put
into the buffer just before. `Verified`: past each status query, the item before it was
verified and, as a verified item is compared with what the device stores, is good.
`Switched`: the flash is on at the places 6 to 9. `Looping` and `Burning` speak of the loop
over the partitions: those before the one under way are complete and, where they have a
verify file, equal to the image, the later ones are blank. `BootLast` and `VerifiedIsGood`
need both, so they are proved as part of the invariant.

### ImgItemProof

| Theorem | Statement |
|---|---|
| `Invariance` | `Spec => []IInv` |
| `InOrder` | `Spec => []BytesInOrder` |
| `BlocksInside` | `Spec => []NoBlockOutside` |
| `SuccessIsWhole` | `Spec => []WholeOnSuccess` |
| `FailureHasReason` | `Spec => []NoFalseFailure` |

Five counters must agree: the position in `hItem`, what the caller has counted, what the
read has done, the file position, and the bytes delivered. `Calling` ties `hItem` to the
item that was asked for, which is found with a least-index argument (`Least`, `Found`);
`Placed` says that position, count and delivered bytes are one number, a multiple of the
block; `Piecing` that the file is behind what was read or at its end, and that the buffer
holds the item from there on; `Delivered` is `BytesInOrder` in the form that is inductive.
`WholeIs`, `WholeAdd`, `RoundUp` and `WholeSub` hold the modular arithmetic; `Chunks` says
that a read of any length the code makes, rounded up to blocks, ends inside the buffer.

### LuaStackProof and LuaStackFrames

| Theorem | Statement |
|---|---|
| `Invariance` | `Spec => []IInv` |
| `CountIsTrue` | `Spec => []CallsCounted` |
| `HandlerIsTrue` | `Spec => []HandlerIsInnermost` |
| `YieldSkipsNothing` | `Spec => []YieldReachesResume` |
| `OverflowIsContained` | `Spec => []OverflowContained` |
| `NoUpvalueIsStale` (`LuaStackFrames`) | `Spec => [](~world.hook => NoStaleUpvalue)` |

They hold for all programs (`Fn`, `Shape`, `Worlds`), limits, stack sizes and numbers of
coroutines. None of the first four properties is inductive: they speak of the count, the frames
and the handler a thread has *now*, and a long jump replaces these by what a `lua_pcall`
saved any number of calls ago. The invariant says what each entry of the C stack stands for.
It gives every entry a *mark*, the frames, the calls and the handler its thread had when
the entry was made; the marks follow from the entries alone (`After`), so there is one
sequence of them (`h` in `Good`):

* `Shaped`: which entry may be on top of which (`Above`), and that the marks add up;
* `Apart`: an entry of `lua_resume` is the first of its thread, and the entries of a thread
  are contiguous: what is between two of its entries belongs to it;
* `Saved`: what a `lua_pcall` saved is what its mark says, so restoring it leads to the
  state of that mark;
* `Limited`: at most `LUAI_MAXCCALLS + CErrors` calls, and so many only while an error
  is under way;
* `LiveOK`: a thread that is on the C stack agrees with the mark of its last entry, and the
  frames below belong to the entries as they were (a C function's, `n` Lua functions' for
  one `luaV_execute`);
* `IdleOK`: a thread that is not counts no call and has no handler, and one that yielded
  has Lua functions between its first frame and the one that yielded;
* `ThreadOK`: the types and sizes of a thread.

`LuaStackProof` first proves what keeps `Good`: one entry more (`Push`), a new first entry (`Begin`),
one less (`Pop`), the cut of a long jump (`Catch`), a coroutine that is left (`Leave`), and
what each operation on a thread changes of what is counted (`Precall`, `Poscall`,
`Replace` for a tail call, `RestoreKeeps` for `restore_stack_limit`, ...). Then there is one lemma per
action, named for it. `YieldIs` is the
argument for `lua_yield`: a thread that counts no call has, by its mark, no entry of
`luaD_call`, so `Above` leaves only `resume`, `luaV_execute` and the function itself.
`CountIsTrue` and `HandlerIsTrue` then need that the marks are the counts the properties
speak of (`MarkedAll`, by a least-entry argument with well-founded induction on numbers).
TLC checks `IInv`, with the marks computed, on the instance of the run.

`LuaStackFrames` adds where the frames of a thread lie, which `IInv` leaves open. Its
invariant, `Lies`, holds beside `Good` in every program that sets no hook:

* `Nested`: each frame begins above the base of those before it, the base of a running
  thread is that of its last frame, and every open upvalue has an owner (`Owns`): a Lua
  function whose frame holds the level, below all later frames, and, while it is the last,
  below `top`;
* `Placed`: what a `lua_pcall` saved lies in its caller's frame, below every frame that came
  later (`Clear`), so that `luaF_close` at that level takes the variables of those frames and
  no other; and the frame of a function that `luaD_call` entered gives the results its caller
  wants, which `lua_call` leaves room for;
* `Waits`: a coroutine that is not under way and did not yield has one frame, so no variables.

A step changes one thread, or the two of a resumption. For a thread it is enough to say how its
frames fare: they rise (`Rises`), one is laid on (`Onlaid`), some are cut (`Cut`, `Popped`).
For the C stack, which entries stay (`LiesStep` and what follows from it). There is one
lemma per action (`OpCallLies`, `OpTailCallLies`, `ThrowLies`, ...). In a call the point
is that luaD_precall lays the frame at the function, which is above all open upvalues; in a
return, that the results begin where the function was; after an error, that what is left
ends at the frame that called `lua_pcall` (`CaughtLays`, `PcallBelow`).

### LuaGCProof

| Theorem | Statement |
|---|---|
| `Invariance` | `Spec => []IInv` |
| `GrayIsListed` | `Spec => []ListsHoldGray` |
| `NoBlackToWhite` | `Spec => []TriColour` |
| `AccessibleKept` | `Spec => []AccessibleAlive` |
| `OnceFinalized` | `Spec => []FinalizedOnce` |
| `WhiteWhenResting` | `Spec => []WhiteAtRest` |

They hold for every finite set of objects of any kinds, every metatable mode, every bound of
the program and every interleaving of its operations with the steps of the collector.
`AccessibleAlive` alone is not inductive: a step may erase what is accessible unless the
marking before it was complete, and that depends on every assignment since the cycle began.
`IInv` (module `LuaGCInv`) has two parts, since a finalizer that `lua_close` calls runs in any
state of the collector:

* `Always`: the gray objects and the three lists are one partition in the mark phase
  (`Partition`); out of it what is gray or black is still to be swept or waits for its
  finalizer (`RestOK`); what is to be swept is alive and waits for none (`UnsweptOK`);
  the two lists of userdata are disjoint, without repetition, and agree with the bit of
  finalized userdata and the calls that were made (`FinsOK`); an open upvalue is alive, with
  its thread and its slot, and is not black (`OpenOK`).
* `Open`, until `lua_close`: what the program can get hold of is `Kept`, the objects that
  are not dead, which has the roots and is closed under *all* references, weak ones as
  well (`KeptOK`); the dead are what the sweep has not come to (`DeadOK`); a black object
  refers to marked objects only (`BlackOK`); and one conjunct for each part of `atomic`
  says what that part has added (`UpvalsOK`, `AtomicOK`, `AgainOK`, `TmuOK`): the values
  of open upvalues, the running thread and the strong sides of weak tables, what was
  black and became gray again, what the userdata to be finalized refer to.

There are two lemmas per action, `...Always` and `...Open`. Five arguments carry them:

* `MarkedSound` and `GrownIs`: what a marking does, whatever it starts from;
* `ClearAndFlipOpen`: at the flip every list is empty or has been gone through, and a weak
  table has lost what is white, so no reference leads from a marked object to one that the
  flip makes dead;
* `BackSafe` and `ForwardSafe`: what the two barriers promise; `FieldOpen` is the one lemma
  for the four assignments, which differ in the barrier they use only. `SetMetatable` on a
  basic type has none: `AtomicOK` needs none, since `atomic` marks these again;
* `NewMarks` and `NewStringOpen`: a dead string that is found again is changed to the current
  white, and is no black object's;
* `CloseShuts`: `luaF_close` gives an upvalue the value of a stack slot without a step of the
  program; a gray one turns black with the value marked, or white out of the mark phase.

`GrowIs` proves that the recursive function `Grow`, which defines `Accessible`, is the one its
definition describes, because the set of objects is finite, and `GrowIn` that it stays inside
every closed set, by induction on how many objects are missing. `Enumeration` and `OnlyIs` say
the same of cutting a list (`Only`). TLC checks `IInv` on the instance of the run, on all of
its states, before it was proved.

### LuaTableProof

| Theorem | Statement |
|---|---|
| `TableSound` | `Spec => []IInv` |
| `TableIsMap` | `Spec => ImplementsMap`: the table implements `LuaMap` |
| `KeysInOnePlace` | `Spec => []NotShadowed` |
| `LengthHolds` | `Spec => []LengthIsBoundary` |
| `AbsentIsAbsent` | `Spec => []CacheIsTrue` |
| `SizeIsOptimal` | `Spec => []ArrayOptimal` |

They hold for every hash function, every set of keys and values and every sequence of
assignments, removals of dead keys and resizes. What `TableAssumption` asks: integer keys are the
positive integers among the keys and none is above `MAX_INT`; strings and what can be
collected are no integer keys; names of metamethods are strings. No step reads a node that is
not in the chain of the key it looks for, so everything depends on what chains look like,
and that is the invariant (`Sound`):

* `Shaped`: the number of nodes is a power of two, what lies from `lastfree` on is in use, and
  a table without nodes is the dummy node, which nothing is written to;
* `Held`: a node that was never used is in no chain, a dead one has no value, a key of the array
  part is in no node;
* `Apart`: chains do not join, and of two nodes with one key one is dead;
* `AtHome`: a key that is not in its main position collides with one that is. This is Brent's
  variation, without which `newkey` could not find the predecessor of the node it moves;
* `Chained`: some rank `e` falls along `next`, so chains end, and some relation `R` (what is
  reached from a node) leads from every key's main position to the key. `Search` follows a
  chain by recursion; rank and relation are what makes it a function with a known result
  (`FindsBelow`, `Looks`), by the least rank at which it would not be. A key has a higher
  rank than its dead namesakes, so that `findindex`, which takes a dead key for the key
  itself, meets the living one first.

`NewKey` is the largest lemma: in each of the three cases of `newkey` it gives the new rank and
the new relation. `HasRoom` is the pigeonhole argument of `resize`: nodes are as many as
keys, so no reinsertion runs out of them, which is why no resize begins inside another
(`nested`); `rehash` counts the keys by the slices of `computesizes`, so the nodes it asks for
are as many as it needs. `Walks` says that a traversal has met exactly the entries up to
`findindex` of the key it is at; assigning to a field that exists, or removing a dead key,
moves no entry. The loops (`resize`, `computesizes`, the two of `luaH_getn`) are recursive
functions on a bounded interval; a least-index argument (`Least`) shows that such a function
exists (`Refill`, `SizesExist`, `Iterates`), and another what its rounds keep.

### Only model-checked

Liveness (`EveryDownloadEnds`, `EveryCallEnds`, `EveryBurnEnds`) and anything with ENABLED
are out of the prover's reach. `LuaRun` and what it is composed of compute with recursion over
trees and tokens (the parser, the meaning of a tree): what such a definition yields for every
input needs induction that the installed provers cannot instantiate, and `RECURSIVE`
operators are beyond them at all. (The recursion in `LuaTable` is over numbers and ranks,
where a least element does instead of induction.)
`FramesInStack` of `LuaStack` stays model-checked. It is not true of all functions: a vararg
function called with two arguments less than it names moves its frame above the space that
was reserved for the call, and the collector may take that space away while an old-style one
is entered (the finding that `stack_varargs` shows), so an invariant has to
say for each kind of function and caller how far it may reach. The run that checks it has
one missing argument at most, and old-style functions whose registers fit the stack that the
collector leaves. `NoStaleUpvalue` is model-checked for programs with a hook: while
a hook runs, `top` of the frame that it interrupted is the hook's, and the variables of that
frame have to be found below what the hook saved.

## 6. Not modelled, and why

Wording and layout of messages, progress, the 16 bytes of a command (`GenFexCmd_*`):
formatting. `upload_system` and `fes_verify_img`: no caller. The host binaries: external,
modelled as calls that answer or fail. In `FesBurn`: second closes and frees,
and the branches for update mode behind the erase flag, which the code never reaches. In
`ImgItem`: decryption; `save_item_as_file`, which has no caller; `Img_DownItemToLocal`,
with which the host takes the script out of the image before it runs. In the VM: the
lexer's characters and the standard libraries except coroutines (no state that outlives a
call), memory errors (`ltable.c:302` has a window there: the array part has grown, the node
vector is not allocated), the amount of work per step of the collector, the resizing of the
string table, metamethods in compiled scripts, conversions between strings and numbers.
`PROJECT.json` says for each component what is left out.

## 7. Plan

1. Done and proved: sparse download with its refinement, FEL phase, FES phase, image items,
   the collector, tables, calls, errors and coroutines.
2. Done, model-checked: compiler and interpreter.
3. Open: an abstract specification of `ImgItem` (an item is a sequence of bytes, read once each)
   that it implements.
