# A verification of LibDASICS

LibDASICS runs on RISC-V processors with the DASICS extension. It keeps the
*trusted* (main) area of a process apart from *untrusted* libraries: untrusted
code may access only memory that a bound register covers, and jump only where a
jump register or the main call entry lets it. The library gives the program an
unbounded supply of such bounds on sixteen registers, switches bounds on calls
between libraries, allocates memory for untrusted libraries, and brings all of
this up before the program starts.

This directory holds TLA+ models of these parts, model-checking runs on small
instances, and proofs for all instances. Paths below are those of the repository.

## Inventory

| part | state | operations | hard about it |
|---|---|---|---|
| bound registers, `src/udasics/udasics.c` | registers (CSR 0x880, 0x890...), `bounds_table`, `available_handle`, `dlibcfg_handle_map` | `register_udasics`, `unregister_udasics`, `dasics_libcfg_alloc`, `_free`, `_free_all`, `_get`; the load and store cases of `dasics_ufault_handler` | random eviction, refill on a fault, three records of the same fact, restart after unregister |
| jump registers, `src/udasics/udasics.c` | CSR 0x8c8, 0x8c0... | `dasics_jumpcfg_alloc`, `_free` | four of them; a missing one is reported as -1 |
| cross calls, `src/maincall/` | the cross stack, the registers `t3` and `ra` at the entry | `dasics_umaincall` entered by a call, a return or a call of its helper; `cross_call`, `push_cross`, `pop_cross` | nesting, recursion and tail calls; entries told apart by a register of the last call; a stack that overflows; 0 as an empty field |
| dispatch and redirection, `src/maincall/`, `src/dynamic/relocation.c` | `redirect_switch` (global and per import) | `dasics_umaincall`, `dasics_dynamic_call`, `add_redirect_item`, `delete_redirect_item`, `open_redirect`, `close_redirect` | four paths that decide separately whether bounds are needed |
| ELF chain, `src/dynamic/dynamic.c` | `_umain_elf_table`, the tables of each node, the GOT entries | `create_umain_elf_chain` with its helpers, in stage 2 and again in stage 3 | pairs of originals and copies, functions no node covers, one area of each kind for all segments, a GOT that is read after it was written |
| delegated memory, `src/memory/ufuncmem.c` | `func_mem` nodes with records of blocks, a linked list of them | `set_global_func_man`, `handle_lib_malloc`, `_realloc`, `_free` | records, heap and bounds must agree across returns |
| startup, `src/start/`, `lib/tools/original.c` | registers, trap entry, `dasics_stage`, the auxiliary vector, exit functions | stages 1 to 3, `dasics_start_fault`, `original_*` | what is opened for a linker must be closed again, on every path |
| internal allocator, `src/memory/dmalloc.c` | `mmap_base`, `mmap_top` | `dasics_malloc` | rounding with a number that is not a power of two |
| traps and system calls, `src/utrap/`, `src/udasics/usyscall.c` | the saved context, the table of checks and handlers | `dasics_ufault_entry`, `invoke_syscall`, the default handlers, `register_*` | which instruction is resumed, whether a check has a say |
| printing, strings, uthash, list macros, Makefile | none of their own | | |

How they interact: startup opens registers for the linker with the `original_*`
functions, builds the ELF chain, points the main call and the trap entry to the
library and closes the registers. After that a call through a PLT enters
`dasics_umaincall`, which dispatches it by the tables of the chain; a call into
another untrusted object goes through `cross_call`, which allocates bounds and a
jump register and replaces the return address, so that the return comes back to
`pop_cross`. `pop_cross` also takes back the bounds of delegated memory. An access
that no register allows traps into the library, which looks for a bound in the
table, writes it over a random register and retries. Everything runs on one hart;
traps are synchronous and the code has no threads or locks. What makes it hard is
the order in which calls, accesses, evictions and refills may follow one another,
and the same fact kept in several places. `PROJECT.json` lists each such hazard at
its line, with the properties aimed at it.

## Modules

| module | models | built on |
|---|---|---|
| `Bounds` | bounds, permissions, 8-byte rounding, what an entry covers | |
| `BoundRegs` | registers, table and map as one value, and the functions of `udasics.c` on it | `Bounds` |
| `UnboundedBounds` | abstract specification: a table of grants, without registers | `Bounds` |
| `LibBounds` | the libbound interface, accesses and faults | `BoundRegs`; implements `UnboundedBounds` |
| `JumpRegs` | jump registers | |
| `CrossCall` | `dasics_umaincall`, calls and returns between objects | composes `BoundRegs` and `JumpRegs` |
| `FuncMem` | delegated memory | `Bounds`, on the table interface that `LibBounds` is shown to implement |
| `ModuleMap` | the areas `_fill_module_map` computes from segments | |
| `Dispatch` | the ELF chain, dispatch and redirection, on addresses | `ModuleMap` |
| `Startup` | the stages | |
| `Traps` | trap entries, handlers, system calls and their checks | bounds reduced to the accesses they cover |
| `Dmalloc` | the allocator of the library's own tables | |
| `BoundRegsProofs` | lemmas on the functions of `udasics.c` | `BoundRegs` |
| `LibBoundsProofs`, `CrossCallProofs`, `FuncMemProofs`, `DispatchProofs`, `StartupProofs`, `TrapsProofs`, `DmallocProofs` | theorems about the module of that name | that module; `LibBoundsProofs` and `CrossCallProofs` also on `BoundRegsProofs` |
| `MC...` | values for the constants | |

**Correspondence.** `lib.cfg` and `lib.bound` are the CSRs, `lib.table` is
`bounds_table`, `lib.map` is `dlibcfg_handle_map` (which C initialises to
`{-1, 0, 0, ...}`, as `InitialMap` does), `lib.next` is `available_handle`. Each
function of `udasics.c` is an operator on `lib` and one action; the loop over
evicted registers is a choice of the victim `rand()` picks. The first match of the
fault handler depends on the insertion order of uthash, which is the order of
handles. `CrossCall` adds the cross stack and the activations of the program,
which the code does not keep but which say where a return should go. Its `entry` is
what `dasics_umaincall` decides by: whether `t3` is its own address (the PLT puts
it there) and whether `ra` is; `entry.is` records, for the properties only, what the
program meant. `t3` survives from call to call, as in the code. Sizes on the
cross stack are counted in bytes and compared modulo `WordSpace`. `FuncMem`
takes `granted` (handle -> entry) for the registers and keeps the list as its
links, one step of the search at a time. In `Dispatch` a layout places the
segments, the PLT and one function of every object in memory; `areas` is what
`_fill_module_map` finds, `entries` is `got_begin[2..]`, `plt` is `plt_begin`, `got`
is `_local_got_table`, and where a call ends is the address that is jumped to. A
function's object is looked up as `_get_area` does, not given. `Startup`
distinguishes what is in a register only as free, left by the kernel, or opened
for the linker. `Traps` runs a small program: `Code` gives kind, length and
argument of each instruction, `frame` is `struct ucontext_trap`, `at` says whether
the program, a handler, `invoke_syscall` or the way back runs. Trusted code is an
instruction of its own kind, at which handlers, checks and bounds change; `made`,
`ran` and `faults` are history variables. Each `map` entry of `PROJECT.json` gives the lines of a definition.

## Runs

All passing runs allow deadlock: the bounds on handles, depth, blocks and nodes end
a behaviour, as do an abort, a hang and the start of the program.

| run | bounds | shows |
|---|---|---|
| `libbounds_adopt` | 3 registers, 2 of them left valid by the kernel (the first and the last), 4 handles, 2 overlapping unaligned requests, 6 addresses in granules of 2 | registers, table and map agree in every order of calls, evictions and refills (`InStep`, `IInv`, which includes the types); a free takes effect at once (`FreeRevokes`, `FreeAllClears`); callers and untrusted code see only the table (`Implements`); every access is answered (`AccessAnswered`) |
| `crosscall_nested` | 3 objects, depth 3, 2 bound and 2 jump registers, 12 handles, a cross stack for 2 frames and a bit | returns find their caller through nested, recursive and tail calls; calls and returns are not confused, nor helper calls but for tail calls of the helper; a callee has exactly its regions until it returns; jump registers follow the calls; the stack is never left without a report; `dasics_umaincall` is always left again, and the program ends in it only when no jump register was left for a call as deep as there are registers, or past the end of the cross stack |
| `crosscall_bounds` | 6 handles | finding: the bound with handle 0 is never released |
| `funcmem_bounds` | 2 name spaces, 2 blocks, a table of 1 record per step, depth 2 | no bound outlives its block, a block stays usable until it is freed or the call returns, the assertions of `pop_cross` fail for nothing but a block that outlived a return (`AbortsOnlyStranded`); only setting a name space twice breaks the list (`ListKept`), only a NULL argument the count of records (`CountKept`) |
| `dispatch_calls` | 9 processes of up to 7 objects with 2 or 5 segments each | areas take in all segments of their kind and no other object's; copies are paired both ways; every call lands at the address the linker found, untrusted code is entered only with bounds of its own object, the active zone holds the function called, a call dies only where no table can help or where it is taken for the call to be redirected |
| `dispatch_redirect` | the same | finding: of the calls `dasics_dynamic_call` carries out, others than the listed ones are redirected |
| `dispatch_plt` | the same | finding: the PLT of an object with one import is looked for in the wrong place |
| `startup_paths` | 2 + 2 registers, all contents, all combinations of the auxiliary vector, both builds | the program starts with everything closed and in place, each linker with everything open, and it does start, unless the kernel left no register to open for a linker |
| `traps_handled` | a loop of 8 instructions of both lengths, 2 system calls, one registered handler at a time, all checks, bounds that come and go, the entry of startup and the final one | execution resumes at the right instruction, an ecall makes its call exactly once and after its check, a covered access is never stepped over, no instruction traps more than twice, every instruction ends |
| `traps_checks` | the same | finding: a call is made although its check refused it |
| `dmalloc_layout` | 5 blocks, 3 chunks of 64 bytes, two of them side by side, any of which may not be had, multiples of 4 that are and are not multiples of 8 | blocks are aligned, and share no byte as long as they stay in their chunks |
| `dmalloc_top` | 3 blocks, sizes of 8 and 56 | finding: rounding leaves the chunk |

*Why the bounds are enough.* More bounds than registers are live in every run, so
evictions and refills happen; three registers tell apart the first, a later and
a never-used one, which is all the search loops distinguish. Requests overlap, so an
access can have two grants, and their ends are unaligned, so rounding matters.
Depth 3 has a call of a call of a call, with direct, cross and tail calls in each
position, and more calls than jump registers. The cross stack has room for two
frames: the third is pushed past its base with a report, and at the fourth the
unsigned difference has wrapped and nothing is reported. A table that grows by one record
is full after the first block. Dispatch has an untrusted import two places before
a listed one, objects without PLT and with a single import, with data or 0 behind its GOT, segments split by
permission, copies before and after the executable in the link map, a second linker
that does or does not bind the executable anew, and an object that appears in both
link maps. The code of `Traps`
has every kind of instruction, a two-byte load before a four-byte store, and
returns from both zones, with a trusted caller that changes between two visits. In `Startup` no
register depends on another, so two show all there is to the loops.
`MaxUnderflow` stops `bound_num` from falling without end, see below.

*Fairness.* `LibBounds`: weak fairness of `Resolve`, since the processor finishes
an instruction or traps, and the handler runs at once. It says nothing about
`rand()`: a refilled bound covers the access, so the retried instruction succeeds
whatever register was chosen. `CrossCall`: weak fairness of `Entered`, everything
`dasics_umaincall` does, since it is straight-line trusted code; a return into it
through a chain of tail calls enters it again and again. Since an aborted process
does not go on, `ReturnCompletes` says when it may abort: a failing
`jumpcfg_free` at a smaller depth, or a failing `libcfg_free` at any, violates it.
`Startup`: the stages are straight-line code, and the linker, which is not part of the
repository, is assumed to come to an end. `Traps`: weak fairness of untrusted code
with its handlers, which are straight-line code; trusted code may stay where it is
for ever. No fairness is assumed of programs.

## Proofs

`BoundRegsProofs` proves that each function of `udasics.c` keeps the registers,
the table and the map consistent, and `LibBoundsProofs` lifts that to behaviours,
for every number of registers and handles, all requests and all register contents the
kernel may leave:

- `TypeCorrect`: the type invariant, with no hypothesis.
- `InvariantHolds`, `RegistersMatchTable`: `IInv` and `InStep`.
- `FreeTakesEffect`, `FreeAllTakesEffect`: the action properties.
- `Refinement`: `LibBounds!Spec` implements `UnboundedBounds!Spec`.

The inductive invariant `IInv` is needed because *every valid register holds the
entry the map names* does not survive a step by itself: a register that becomes
valid must not share its handle with another, a map element of an
invalid register must not name a live handle by accident, and what an unregistered
library leaves must not be taken for a live one. The one obstacle is C's
`{-1}` initialiser: map elements of never-used registers read 0, which is a
handle. The proofs therefore rest on the hypothesis `OSLow`: the kernel leaves no
register valid, or register 0 or 1 among them. Without it the statement is false:
`LibBounds_stale_map.cfg` has the counterexample (adopt only the last register,
free handle 0). `FreeAllTakesEffect` needs it, too: `dasics_libcfg_free_all` goes by
the same map and the same search, and leaves the same register valid. Only
`TypeCorrect` does without it.

`TrapsProofs` proves, for every program and every history of registrations,

- `TypeCorrect`, by which `uret` always resumes at an instruction, and
  `ExecutionFollowsCode`, that it is the right one;
- `CallsAreMadeOnce` and `NoCallIsLost` for system calls;
- `TrapsAreBounded`: at most two traps for an instruction;
- `GrantedIsNotSkipped` for loads and stores.

All follow from one inductive invariant, `InvariantHolds`. It adds to the types what
each phase of a trap knows: the saved context belongs to the instruction at `pc`
(`FrameInv`), how far a system call has come (`CallInv`), and what the faults taken so
far have achieved (`FaultInv`): a retried instruction is allowed by the hardware, or
it is a jump out of the free zone whose target is already in the other return
register, so that the next fault sets the right one. The bound on traps is false as
an invariant without this relation. It assumes of the program that control stays
in it and that system calls have valid numbers (`CodeAssumption`).

`CrossCallProofs` proves every safety property of `CrossCall`, for any objects, regions
and numbers of registers, in three layers of one induction:

- `CallInv` (`CallsMatch`) is about control: every activation but the first returns
  to the one below it or to `dasics_umaincall`, and the return addresses kept on the
  cross stack are, in order, those missing from the activations. `ReturnsToCaller`
  alone is not inductive, since it does not say what the next return will find.
  From it follow `TypeOK`, `ReturnsToCaller` and `EntriesToldApart`. It says which
  return address each entry has, so that the one confusion, a tail call of the helper
  with `dasics_umaincall` in `ra`, is told from all others.
- `GrantInv` (`GrantsFollowCalls`): the handles of the frames ascend, those of
  pending frames are live with the bounds of the callee, and no other handle is live
  but 0. It uses the register invariant of `BoundRegsProofs`, so `CalleeGranted` and
  `ReturnRevokes` hold through every eviction and refill.
- `JumpsHeld` and `Reported`: which frame has which jump register, and what each
  frame reported, give `JumpsMatchCalls` and `StackSound`.

`FuncMemProofs` proves all of `FuncMem`, for any heap, granule, table growth and number of
name spaces. `HeapConfined` is not inductive: it does not tell which block a bound is
for. `FuncInv` (`BoundsFollowBlocks`) adds that records in use have a block and a
handle above 0 (`RecordsBacked`), no two of them the same block or handle
(`RecordsUnique`, across name spaces), that a bound that touches the heap is exactly
that of a recorded block (`BoundsOwned`), that blocks are apart by whole granules
(`BlocksApart`), and that an empty record holds 0 or -1 (`FreeUnheld`). The last two make
it survive the two NULL arguments, which release handle 0: handle 0 was given out
before the library was first called, so it is never that of a block. For
`AbortsOnlyStranded` it is joined with `FramesHeld`: the handles of pending calls are
live, distinct from call to call and from every record's, so that no free, move or
growth in between takes one away. `ListKept` follows the links that
`AddTail` changes; `CountKept` counts empty records as a finite set. It assumes of the C library
that blocks are aligned to a granule, apart, and not empty, and of the program that no
other bound reaches the heap (`BlocksAssumption`, `RequestsAssumption`).

`DispatchProofs` proves all of `Dispatch`, for any number of objects, segments and imports.
`DispatchInv` (`TablesTell`) says where the walk of the link maps is and which tables are
complete by then (`WalkOK`), and what they hold: pairs (`PairsOK`), nodes with the areas
and the GOT of their object (`NodesOK`), what may stand in for the PLT (`PltOK`,
`ExeOK`), targets that are the object of the import or none (`TargetsOK`), no call
before the tables are complete (`Quiet`), and switches that are on for listed imports
only (`SwitchOK`), which `CallsArrive` needs. `LandsHome`, `Mediated` and `CallsArrive`
speak of the last call and are parts of it. The proof that an address in a text area
is in that object needs the images of objects to be apart; that no node is missing
needs every import to be found in an object of the link maps. These are facts about the
linker, stated as `ImageFits`, `Implements` and `LinksFit`.

`StartupProofs` proves all of `Startup`, for any number of registers and contents. `Phases`
tells for each place where startup may be what the stages before have done.
`ProgramConfined` alone does not say why stage 2 and stage 3 find the checks installed.

`DmallocProofs` proves all of `Dmalloc`. `AllocInv` (`BaseAboveBlocks`) has the base
above every block of the current chunk and a multiple of 4: adding 21 to such a number
and clearing bits 0, 2 and 4 never goes back and gives a multiple of 8, and a base at
the start of a page stays where it is. It is false for odd sizes, so `SizesAssumption` has
sizes that are multiples of 4, as those of every caller. `Disjoint` is proved for blocks
that stay inside their chunks, since `InsideChunk` is a finding: a block that leaves its
chunk may reach into the next.

Arguments by induction over data, such as the least register that is free, the first
record with an address, or the nodes along a list, are made with a least element
instead: every non-empty set of natural numbers has one (`NatMin`).

The other assumptions are the `ASSUME`s of the modules: the constants have their
types, and there is at least one register. TLC evaluates all of them on the instances
of the runs.

Left to TLC: liveness (`AccessAnswered`, `ReturnCompletes`, `ProgramStarts`,
`Progress`), which the installed provers do not reach, and the violations. Every
invariant and action property of the passing runs is proved.

## What the models show to be wrong

Listed as findings, each with a run that reproduces it: `crosscall_bounds`,
`dispatch_redirect`, `dispatch_plt`, `dmalloc_top`, `traps_checks`.

Seen as well, with a property in the module and a configuration beside it that
shows the trace (run `tlc -config <file> MC<module>`):

- `LibBounds_stale_map.cfg`: the `{-1}` initialiser, see above.
- `LibBounds_get.cfg`: `dasics_libcfg_get` returns 0 where the manual says -1.
- `CrossCall_jumps.cfg`: jump register 0 stays open after its call.
- `CrossCall_helper.cfg`: a function called across that ends in a tail call of the
  helper enters `dasics_umaincall` with its address in `ra` and not in `t3`, which
  `umaincall_entry.S:60` takes for a return: the frame is popped and the helper never
  runs.
- `CrossCall_assert.cfg`: with the jump registers used up, a return aborts.
- `FuncMem_null.cfg`, `FuncMem_place.cfg`: `free(NULL)` and `realloc(NULL, n)` find
  an empty record, release handle 0 or lose count of the records. `bound_num` can
  fall below zero without end.
- `FuncMem_return.cfg`: a block that outlives a call makes the next return abort,
  since `pop_cross` releases its bound again.
- `FuncMem_list.cfg`: setting a name space again appends it a second time, which drops
  the nodes after it, or links the last one to itself.
- `Dispatch_listed.cfg`: a listed function with a copy still runs in the trusted area
  (against `udirect.h:13`): a trusted target is bound directly or taken for a main call,
  and never gets to `dasics_dynamic_call`, whatever index that uses.
- `Dispatch_got.cfg`: stage 3 reads `got[3]` of the executable again; when the second
  linker has not bound it anew, stage 2 may have put the address of a trusted
  function there, which is then taken for the PLT and put into the entries of
  untrusted imports.
- `Startup_exit.cfg`: without copies the exit function of the linker is kept in
  `dll_fini` and never registered.

The passing properties are stated so that they hold beside these: `ReturnRevokes`
excepts handle 0, `JumpsMatchCalls` register 0, `EntriesToldApart` a tail call of the
helper by a function called across (see `CrossCall_helper.cfg`), `ReturnCompletes` the
two ways above in which the process ends, `AbortsOnlyStranded` blocks that outlived a
call, `LandsHome` an executable whose PLT
was not found, `CallsArrive` objects without PLT (a call of which uses a NULL node),
callees with a single import, whose zone starts at the word behind the GOT, callers
with a single import (that word may be 0, which fails the assertion on `plt_begin`), and
calls of the executable whose import number plus 2 is listed while redirection is open
(the index of `umaincall.c:91`), `ProgramStarts` a kernel that left every register
valid, `StackSound` asks for a report and not for an end,
`ListKept` and `CountKept` except the operations that go wrong, `ProgramConfined` a copy build without second
linker (`stage2.c:69` returns with everything open).

`dispatch_redirect` fails for two reasons, `umaincall.c:91` and `relocation.c:18`: with
`redirect_switch[idx]` and a search over all imports `DivertedAsListed` holds, with
only one of them corrected it does not.

## Not modelled

- Calls of the libbound interface before `register_udasics` or a second registration
  without `unregister_udasics` between. `udasics.c` checks neither; `Ready` and
  `Register` take from `test/main.c` that a program registers once, first.
  A program that never registers is where `CrossCall` starts: no register valid and
  handles from 0.
- Register contents across a trap, with the result of a system call in `a0`; system
  calls with a number that the table of checks does not have. A registered handler
  is assumed to step over the instruction, as the defaults do.
- Which registers hold results: the return path of a cross call keeps `a0` only.
- A function at the very start of a text area, which the strict comparison of
  `RANGE` would miss: `Implements` assumes that there is none. `_map_start`
  and `_map_end`, which are computed and never read.
- What a frame beyond the base of the cross stack overwrites, and what it holds when
  it is popped: from there on the model stops (`corrupt`).
- The overflow of handles (2^31), an upper bound in the last seven bytes of the
  address space (`align8up` wraps), nested signals, and a failing `malloc`.
- Who calls `handle_lib_mem` and `set_global_func_man`: nothing in the repository
  does, although the manual says that `malloc` and `free` of libraries are
  intercepted. `FuncMem` models them as called by a library between call and return.
- `_call_reloc`, `force_redirect`, `find_item`, `dasics_bound_checker`,
  `bound_coverage_cmp`, `dasics_oldest_victim`: without callers.
- Printing, strings and the hash table have no state that a property is about.

## Plan

Done, in this order: the bound registers with their abstract specification and proofs,
since everything else relies on them; calls, delegated memory, dispatch, startup, the
allocator, and traps, each with its runs; then the proofs of startup, cross calls,
delegated memory, the allocator and dispatch. What could follow:

1. `FuncMem` on `LibBounds` instead of its table, composed as `CrossCall` is, so that
   delegated bounds are evicted and refilled too. `Refinement` already justifies the
   table.
2. An abstract specification of cross calls, a stack of callers with what each callee may
   access, which `CrossCall` implements; `CallInv` and `GrantInv` are the
   relation it needs.
