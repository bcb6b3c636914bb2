# Formal models of the CREATOR Sail RISC-V executor

This directory models `creator-sail-executor`: the Sail RISC-V model and its C
emulator, extended by CREATOR with a build for the web (`WEBSIM`), in which a
page steps the program, answers its keyboard reads and shows the work of a
simulated cache. The modules are written from the source (`model/*.sail`,
`c_emulator/*.c`, `c_emulator/transform32.js`), are model-checked with TLC on
small instances, and the results that matter most are proved with TLAPS for
every value of the constants.

`PROJECT.json` is the index: components, runs, the mutant that shows each
property has teeth, the source lines behind each definition, findings,
hazards and theorems.

## 1. The system

| Component | State it keeps | Operations | Interacts with |
|---|---|---|---|
| Stepper and keyboard of the web build (`c_emulator/riscv_platform.c`, `transform32.js`) | `should_pause`, `force_exit`, `first_it`, `debug_mode`, keyboard buffers; on the page `execution_mode_run`, `last_execution_mode_run`, `is_breakpoint`, an open prompt | `stepbystep`, `send_*_to_C`, `read_*`, `reanudar_ejecucion`, `interpret_exception`, the print hook | called by `fetch` and by every trap; the page's callbacks run while it sleeps |
| Privilege, traps, interrupts (`riscv_sys_control.sail`, `riscv_sys_regs.sail`) | `cur_privilege`, `mstatus`, `mie`, `mip`, `mideleg`, `medeleg` | `dispatchInterrupt`, `trap_handler`, `MRET`, `SRET`, CSR writes and their legalisation | `mip` is written by the CLINT; every instruction may trap |
| LR/SC reservation (`riscv_platform.c`, `riscv_insts_aext.sail`) | one global address and valid flag | `load_`, `match_`, `cancel_reservation` | shared by every thread a kernel schedules |
| HTIF port (`riscv_platform.sail`) | `htif_tohost`, command bit, write counter, done flag, exit code | `htif_store` | stores of the program; ends the run loop |
| CLINT, clock, run loop (`riscv_platform.sail`, `riscv_sim.c`) | `mtime`, `mtimecmp`, `mcycle`, `mip.MTI`, the instruction count | `tick_clock`, `clint_dispatch`, `clint_store`, `platform_wfi`, `run_sail` | raises interrupts; raises the stepper's divergence flag |
| Cache simulator (`riscv_mem.sail`, `riscv_platform.c`) | lines and one replacement pointer per cache | `read_cache`, `write_cache`, `replace_cache`, `init_cache` | called by fetches, loads and atomics |
| Step loop, fetch, decode (`riscv_step.sail`, `riscv_fetch.sail`) | `PC`, `nextPC`, `minstret` | `step`, `fetch`, `loop` | calls all of the above |
| Boot ROM and entry point (`riscv_sim.c`, `get_entry`) | a table of 121 to 131 words | `init_sail_reset_vector` (the insertions), `get_entry`, and the words themselves: start-up, `syscall`, `exit`, `fail`, `trap_vector`, `write_tohost` | executed first; serves every trap of the program; ends the run through HTIF |
| Physical memory protection (`riscv_pmp_*.sail`) | `pmpcfg_n`, `pmpaddr_n` of 64 entries | `pmpWriteCfgReg`, `pmpWriteAddrReg`, `pmpReadAddrReg`, `pmpAddrRange`, `pmpCheck` | every access of memory; the walk of page tables |
| Virtual memory and TLB (`riscv_vmem*.sail`) | a direct-mapped TLB of 64 entries; page tables in memory | `pt_walk`, `translate_TLB_hit`, `translate_TLB_miss`, `flush_TLB` | every access, `satp`; software writes the tables |
| RVFI-DII session (`riscv_sim.c`) | socket, packet | the packet protocol of `run_sail` | replaces fetch; does not compile at this commit (section 6) |
| Memory access path (`riscv_mem.sail`) | none | `checked_mem_read`, `checked_mem_write` | dispatches on address ranges |
| Vector extension (`riscv_insts_vext_*.sail`, `riscv_vext_regs.sail`) | `v0` to `v31`, `vl`, `vtype`, `vstart`, `vxsat`; on RV32 the staging registers of doubles | the `execute` clauses, some ninety | loads and stores fault half way and are fetched again; floating point through SoftFloat |
| Floating-point instructions (`riscv_insts_fext.sail`, `dext`, `zfh`, `zfa`, `riscv_softfloat.c`) | the `f` registers, `fcsr` | the `execute` clauses; the wrappers around SoftFloat | calls SoftFloat with a rounding mode, accrues the flags it leaves |
| SoftFloat (`c_emulator/SoftFloat-3e`) | globals `softfloat_roundingMode`, `softfloat_exceptionFlags` | `f16_*`, `f32_*`, `f64_*`, the conversions | called by the wrappers |
| Scalar integer instructions | registers | straight-line arithmetic on one register | - |
| OCaml emulator, prover back ends, older copies | - | generated, or unused by the web build | - |

**What is hard here.**

*Interleaving on one thread.* The web build has one thread, and the simulator
gives it up only in a 100 ms sleep: in the wait loop of `stepbystep` or in a
keyboard reader. Buttons and answers arrive there and communicate through one
integer, `should_pause`, which means "button Run", "button Step", "an answer
has arrived" or "nothing" (0, 1, 2, -1). Every reader must consume its value
before the stepper sees it.

*State far from its use.* A delegation written long before decides where a trap
goes; `mip.MTI` is a copy of a comparison that is refreshed only where somebody
calls `clint_dispatch`; a reservation outlives the thread that made it; MPRV
outlives the handler that set it.

*Copies.* A TLB entry is a copy of a page table entry that software, an access
through another copy, and an access of another address space may change; a hit
writes the copy back to memory.

*Tables by hand.* The boot ROM is a literal table with hand-computed offsets
between its words, into which other words are inserted according to the
extensions; on its way to the program it traps over the CSRs that are missing.

*Locks that outlive their writer.* A PMP entry is frozen by a bit of itself and
of its neighbour, several entries share one CSR, and the grain and the mode
decide which bits of an address are read.

*An access that stops half way.* A vector load that faults at its seventh element
has written six, and is fetched again with `vstart` at seven: the registers,
`vl`, `vstart` and the mask together must lead to the result of a load that did
not fault.

*Nearly equal widths.* Which elements an instruction may change follows from
`vl`, `vstart`, the mask, the group and two widths, computed in four nearly equal
helpers and by hand in a hundred clauses.

*Rounding once, and flags in globals.* Results are narrowed in several steps, each
of which could round again; SoftFloat leaves its flags in a global that outlives
the call.

*Bounded counters.* The HTIF port counts writes in four bits; time wraps.

*A recursion that must end.* `write_cache` calls `replace_cache` and then itself
until a line is free, with six arrangements of caches and two policies, each
with branches of its own.

What makes each component correct is stated at the end of its module; section
3 describes each property and the run that checks it.

## 2. The plan

The order is by importance of the behaviour to a user of the simulator.

Done:

1. `KeyboardChannel` (abstract) and `WebStepper` (detailed, shown to implement
   it): the code that is CREATOR's own and runs against an asynchronous page.
2. `Privilege`: the trap machinery every program depends on.
3. `LrSc`, `Htif`, `Clint`: the platform's shared state.
4. `CacheSim`: CREATOR's addition to the memory path.
5. `BootRom`: the words of the reset vector, executed one by one.
6. `PmpRegs` and `Pmp`, the registers and, over them, the matching logic with
   the architecture's rule to compare it with.
7. `PageTables` (operators), `Mmu` (abstract: the walk alone) and `Vmem`
   (detailed: the TLB, shown to implement `Mmu` for a program that fences).
8. `VecRegs` (registers and masks), over it the clauses `VecArith`, `VecFp`,
   `VecFp32` (the 32-bit build's) and `VecMem`, `Vector` (the hart),
   `VecAtomic` (abstract: a load or store is one step), and `VecPaging`, which
   composes the hart with a system that pages and is shown to implement `VecAtomic`.
9. `SoftFloat`, `SoftFloatArith`, `SoftFloatConv` (the library), `FloatRef` (exact
   arithmetic to compare it with) and `FloatUnit` (the instructions).
10. Proofs about 1 to 4 and 6 to 8: every safety property of these runs, and the
    refinements of `KeyboardChannel`, `Mmu` and `VecAtomic`.

Left, in the order of what it would add:

11. `System`: `Privilege` and `Clint` composed over the shared `mip`, so that
   the interrupt that arrives is the one the clock raised. Each of the two has
   the other as a nondeterministic environment now.
12. `Fetch`: the two half-word fetches of one instruction with their cache
    look-ups, composing `Vmem` and `CacheSim`; this would remove the constant
    `Translation` of `CacheSim`.
13. An abstract specification of the cache (a set of resident blocks),
    implemented by `CacheSim`.
14. The loads and stores of `f` registers in `FloatUnit`, and `FloatUnit` below
    `VecFp`, whose operation on one element is a parameter now.

No module uses a `RECURSIVE` operator: the recursion of `write_cache` is a
function of the number of calls (`Turns`), the walk of the page tables one of the
level (`pt_walks`), and the loops over the segments of an access of the segment
(`LoadsAfter`, `StoresAfter`).

## 3. The modules, their correspondence to the code and their runs

A module `X` has the instances of `MCX` (the values of the constants and, for
`FloatUnit`, the states the run starts in) and one `.cfg` per run. A definition
named `Of_Something` is a mutant: the form a plausible bug would give to `Of`;
with it in place TLC finds the property violated. `CHECK_DEADLOCK FALSE` is set
where the system stops: the run ends (`WebStepper`, `Htif`, `BootRom`, the
vector program) or the refill recurses for ever (`CacheSim`, variable `hung`).

The type invariants of `WebStepper`, `Privilege`, `LrSc`, `Clint`, `PmpRegs` and
`Vmem` (`TypeOK`, `LrScTypeOK`, `ClintTypeOK`) are proved (section 4), so no run
repeats them; `VlFits` is the invariant about types that the vector state needs.

### WebStepper and KeyboardChannel

`pc` says where the simulator is: before a fetch, asleep in a wait loop of
`stepbystep` (`paused`), about to execute, asleep in a keyboard reader (`read`)
or ended. `FetchText` is a fetch from the program with the whole of
`stepbystep` up to its first sleep; `FetchRom` a fetch from the handler in ROM,
which never pauses; `WakePaused` the end of a sleep, with the tests in the order
of the code; `ExecText` the print that the page's hook reads, the hook, and the
instruction with `interpret_exception`; `ExecRom` the handler; `ReadDone` the
end of a reader's loop. `Press`, `Stop`, `Answer` and `AnswerLost` are the
page's calls and are possible only while the simulator sleeps. The buttons and
the prompt live outside the repository and are modelled from the functions they
call. The seven readers differ only in what they reset, so one action stands
for them and `ResetsShouldPause` names the exception.

The divergence flag is in the model because it changes the control: raised by a
tick, it makes the next fetch put the page in step mode, or ends the run when
that fetch is the handler's.

`stepper_rv64` (3 521 states): two values, which is enough because no code
compares answers; every kind of instruction (a fault or an ecall may enter a
read), buttons pressed during reads, and a `malloc` that fails. Three of these
break the dialogue, and the history `calm` is false from then on: a read
entered by a trap that is no ecall, a button pressed during a read, and the
answer `send_string_to_C` loses.

- `NoStaleAnswer`: an answer is consumed by its reader and never reaches the
  stepper.
- `ReaderCanWake`: while the run is calm, no reader waits without a prompt.
- `NeverSkipsPause`: in step mode and at breakpoints every instruction waits.
- `StopInStepMode` (liveness): Stop wins over any sequence of Step.
- `ImplementsChannel`: while the run is calm the globals implement
  `KeyboardChannel`, one question, one answer, delivered once.

*Fairness.* `WF(Simulator)`: the one thread runs when it can, for a sleep ends
after 100 ms and the rest is straight-line code. `SF` of the return of the
handler in ROM: the handler is a finite piece of code without loops, so it
cannot stay in ROM for ever. Nothing is assumed of the user: he may never press
a button nor answer.

What `calm` leaves out is real: when `malloc` fails, `send_string_to_C` returns
without waking the reader, the prompt closes, and the read waits until a button
is pressed, or for ever when the page disables them.

### Privilege

The fields of `mstatus` that traps use are variables; `mie`, `mip`, `mideleg`
and `medeleg` are sets. `Interrupt` is `dispatchInterrupt` followed by
`trap_handler`; `Exception`, `ECALL`, `IllegalXret` and `IllegalWrite` go
through `exception_delegatee`; `MRET` and `SRET` are the two branches of
`exception_handler` with the guards of their instructions; the writes are the
`legalize_*` functions. `misa` has S and U and never N, so user-mode interrupts
and `URET` are unreachable and left out, as are the causes, `epc`, `tval` and
vectors, which no property tells apart.

`privilege` (149 448 states): one machine and two supervisor interrupts, one
exception beside the ecalls, ten values of `mstatus` and three of `medeleg`.
Two delegable interrupts are needed for one to be delegated and the other not;
the values of `mstatus` reach every combination of MPP, MPRV and SPP, and traps
and returns permute the rest.

- `NoInternalError`: the emulator's own assertion in `trap_handler`.
- `DataNeverAboveCode`: MPRV never gives a load more privilege than the code.
- `DispatchFollowsRule`: the two levels of `processPending` compute the
  architecture's rule, written independently in `InterruptRule`.
- `ModeChangesAreSaved`, `MachineInterruptPreempts`,
  `LowerModesKeepMachineState`: what a step may never do, across any history
  of delegation and nested traps.

### LrSc

One reservation for the hart, and the threads of a kernel as the environment.
`linked`, `written` and `interrupted` are history: each thread's last `lr`, what
others wrote since, and whether a trap came. A trap and a return leave the
reservation alone, as in the code; with `KernelClears` the kernel executes a
dummy `sc` before it returns.

- `lrsc_careful` (4 088 states; two threads and two addresses, the least with
  which a foreign thread and a wrong address occur): a successful `sc` is
  atomic with its `lr`; an `sc` without a trap since its `lr` succeeds, so retry
  loops make progress. Without `KernelClears` TLC finds `ScIsAtomic` violated
  (section 5).

### Htif

`issued` is what the program asked for and `executed` what the port did;
`writing` holds the stores of a command still to come. The three ways of writing
a command are those of the repository's programs: one 64-bit store, two 32-bit
stores with the low half first, or the low half repeated (riscv-tests).
The port starts a command when the previous one is written.

- `htif_acked` (1 561 states; up to four commands, every sequence of the three
  ways). `CommandsAreServed`: each command takes effect once, in order
  (`EachCommandOnce`), the port is reset behind it (`PortIsReset`) and the run
  ends as asked (`ExitsAsAsked`). Four commands exceed the three repeated
  writes that also trigger a command.

With the high half first the port executes the control bytes with the old
payload at once. No program of the repository writes in that order, and the
module does not enumerate it.

### Clint

One action per kind of step of `run_sail`: an interrupt taken and a fetch fault
count no instruction; everything else ends in `EndStep`, which ticks every
`rv_insns_per_tick`. `mip.MTI` is a variable because it is a copy: only
`clint_dispatch` refreshes it. Stores to `mtimecmp` may write one half. `WFI` is
`platform_wfi`, which moves `mtime` and `mcycle` and refreshes nothing.

Time has four bits in halves of two, with a tick every three instructions, so
that ticks fall between the stores of a half-written timer and time wraps after
at most 48 instructions. Nothing is bounded: the registers wrap.

`clint` (55 627 states):

- `NoEarlyTimer`: no early interrupt through any mixture of halves.
- `TimerNotMissed`: a timer that came due is raised before it leaves. One value
  is excepted, the last instant: `wfi` moves `mtime` there and the next tick
  wraps it to zero before the comparison, so in a program that switches its
  timer off with all ones and waits, time starts again from zero.
- `CyclesNeverBack`: until `mtime` wraps or software writes `mcycle` (history
  variable `synced`), `mcycle` never runs backwards, though `wfi` overwrites it
  with `mtimecmp`. After a write that puts it ahead of `mtime`, a `wfi` does
  move it back.
- `TimerArrives` (liveness): a timer that is due is raised, though `wfi` does
  not raise it.

*Fairness.* `WF(Next)`: the loop of `run_sail` steps for as long as the
program does not end. A fetch fault that finds interrupts disabled changes
nothing in this module, so this fairness leaves out a program that does nothing
but fault on its fetches. The restriction is real: a fetch fault is not
counted as an instruction, so such a program stops the clock and never reaches
the instruction limit.

### CacheSim

`lines` holds, per cache, the address each valid line was filled with; `ptr` is
the one FIFO pointer of each cache; `older` is the order in which the valid
lines were filled (history); `hung` says that `write_cache` has called itself
`MaxTurns` times and found no line. `Used`, `L1Of`, `L2Of` and `FillTarget` are
the branches of `read_cache` for the six level types; `SetOf`, `Tag` and `SetId`
the arithmetic of `init_cache` and `get_size_field`, in which index bits come
from the C side and the number of sets from Sail. `replace_cache` is one call of
it under each policy, and `Turns` the calls `write_cache` makes of it and of
itself while the set has no free line: every call moves the pointer by one line
or draws a random number of its own. A request is a fetch or a load, with the
test by which the unified caches tell them apart. Addresses count words of four
bytes. Stores do not reach the cache in the code: `write_cache` is called on a
read miss only.

`config` is the arrangement the page chooses before the run, with the addresses
the program reads; it never changes. All the configurations have two or four
lines per cache, for which three blocks compete in a set of two lines, the least
for which the order of replacement matters.

- `cache` (28 651 states), ten configurations: one cache of two sets, FIFO and
  random; L1 over a larger L2 with two-word blocks and loads that span them;
  direct mapping; level types 1, 3, 4 and 5, fully associative; and random
  replacement in two levels, the second unified or divided.
  `ReportsAreTrue`: the hits and misses printed are those of the blocks asked
  for. `ReadIsCached`: a read repeated hits (except loads of level type 3,
  which have no branch). `NoBlockTwice`: no block sits in two lines.
  `RefillEnds`: the nested calls of a refill find a line, except exactly where
  random replacement must make room in a full set of `L2_I` or `L2_D`: there it
  empties lines of `L1_I` or `L1_D` instead (`RandomVictim`) and none becomes free.
  `RightVictim`: under FIFO the shared pointer gives away the oldest line of the set
  that needs room; under random replacement and direct mapping no other set is
  disturbed.

The bound `MaxTurns` is four, the lines of the largest cache: the FIFO pointer has
then passed every line, and a random victim is in the set at the first call. A
refill that has not ended by then never does, which `RefillsEnd` of section 4 shows
for every bound.

`Translation` is FALSE in the run: virtual and physical addresses coincide, as in
CREATOR's programs. The two hypotheses of the proof of section 4 are real. With
`Translation`, a fetch under level type 3 is looked up in the instruction cache
but filled into the data cache when its physical address is not `PC`, and a
block comes to sit there twice. With blocks of L2 smaller than those of L1, a
load that spans L2 blocks brings to L1 a block it was not asked for.

### BootRom

The state is that of the hart as far as the ROM uses it: `pc`, privilege and MPP,
the three trap CSRs, six registers, `tohost` and what HTIF makes of it. `Table`
is the literal of `init_sail_reset_vector` word by word, each word reduced to
what it does (`<<"beq", "t5", "t6", -88>>`); words that touch nothing of that
state are `nop`. `Insert` is the `memmove` with the words put in its place, and
`reset_vec_k` the four ways it is used for RV32 and RV64 with and without vector
and floating point support. `Execute` runs a word; `Trap` is the hart's trap
entry; `EntryOf` is `get_entry` with the `addi` that extends its sign.
`RomStep`, `ProgramStep` and `Finish` are the loop of `run_sail`. The program is
an environment: it puts values in gp, a7 and t5, calls, faults, or returns from
`main`; `asked` is history, how it last left.

- `boot` (111 152 states): both widths with every combination of floating point,
  vector, compressed and PMP support, the program in user or in machine mode
  (`sudo`); two entry points,
  one in a later page and one with bit 11 set; no instruction limit, or 40
  instructions, which end the run on the way to the program. Three service
  codes (a service, exit, an unknown one) are what the handler tells apart.
  `EntersProgram`: the program is entered at its first word and in the mode the
  command line asks for. `ProgramIsReached` (liveness): every configuration gets
  there, by way of traps over the CSRs it lacks. `TrapsAreServed` (liveness):
  services return, behind their ecall and with gp and a7 as they were
  (`ReturnsBehind`), exits and faults end the run. `VerdictIsTrue`: SUCCESS and
  FAILURE are printed only for what they mean.

The bound `RomEnd` cuts off a user-mode program that runs past the ROM, and
instructions are counted only when there is a limit.

*Fairness.* `WF` of `RomStep` and of `Finish`: the loop of `run_sail` keeps
stepping while the run is not over. Nothing is assumed of the program.

### PmpRegs and Pmp

`PmpRegs` has the registers, the configuration writes of one CSR (several
entries at once), the address writes with both locks, the reset, and the value
software and the matching logic read for a given grain and mode. `Pmp` adds the
matching logic of `riscv_pmp_control.sail` and the architecture's rule without
it: `Region` is the set of words an entry is about, `Rule` who decides. The mask
`pmpaddr ^ (pmpaddr + 1)` is modelled by the block it stands for (`NapotSize`, from
the lowest zero of the address); `MCPmp` compares the two for every word
(`NapotAssumption`).

- `pmp` (10 368 states): three entries of which the platform offers two, two to
  a CSR, so that a CSR write reaches an entry above the count; grains 0 to 2;
  words of five bits and addresses of three, so that no range leaves the word
  (section 5 has the one that does); six configuration bytes (every mode, two of
  them locked, one reserved). `CheckFollowsRule`: every access at every address,
  halfword to doubleword, is decided as the rule says (NA4 entries apart,
  section 5). `LockedStays`: what pins down a locked entry never changes until
  reset. `LockedRegion`: nor does the range it covers, but for its lower bound,
  which may move within its grain. This is more than `LockedStays`: the lower
  bound is read through the mode of the entry below, which the lock leaves
  writable (section 5). That the assertion of `pmpAddrRange` cannot fail is
  proved (`Na4Unselectable`), and so is `LockedDecisions`, what locked entries
  decide, which TLC would take too long for.

### PageTables, Mmu and Vmem

`PageTables` has no state: the entries, their permissions, the accessed and
dirty bits, and `pt_walk`, the walk with its faults, alignment check, global bit
and the entries it read (one level is `pt_walk_from`, the recursion `pt_walks`).
`Mmu` is what a program may expect: every access is answered by the walk and
changes nothing but accessed and dirty bits. `Vmem` adds the TLB:
`translate_TLB_hit` with its write-back, `translate_TLB_miss`, and `SFENCE_VMA`,
which is `flush_TLB` over all places. Software writes page table entries
(`WritePte`), changes the protection of a table (`SetGuard`) and switches
address spaces; `owed` is history, the translations these steps changed and no
fence has named since. With `Careful` the program accesses nothing it owes a
fence for, and keeps global mappings the same in every address space
(`GlobalsAlike`), which is the discipline of the architecture.

- `vmem` (38 091 states): two address spaces with a table each and one they
  share, two levels, superpages (one misaligned), a global page, user pages,
  and a TLB of two places, so that a superpage sits in both and address spaces
  compete. `TlbAgrees`: what the TLB answers is what the walk would find, up to
  accessed and dirty bits. `ImplementsMmu`: the refinement. `FenceReaches`:
  `sfence.vma` of one address finds the copies of a superpage in every place.
  `AccessOnlySetsBits`: the write-back of a copy loses no change to the tables.
  A write of `translate_TLB_hit` that is refused ends the emulator, which `Mmu`
  does not allow.

Bound: a change to the tables waits while more than `MaxOwed` translations are
owed a fence; the theorems of section 4 hold for every value. Two in the run, with
which changes overlap: an entry is written while the fence of an earlier one is
still to come.

### The vector modules

The register file is one function from bits to 0 and 1, register after register,
so that an instruction that runs over the end of a group shows. `VecRegs` has the
registers, `vtype`, the masks and the two widths of a group; `VecArith`, `VecFp`,
`VecFp32` and `VecMem` have one operator for each `execute` clause of the model,
named like it, whose value is an outcome: the registers, memory, `vl`, `vstart`,
and whether the instruction is done, is illegal, ends the emulator or faulted on
a page. What the clauses share (elementwise, narrowing, widening, permuting, to a
mask, by segments) is one operator each, and what one element is computed to is
the constant `Alu`: checks, masks, widths and order are the model's subject, the
sum of two numbers is not. `Vector` is a hart that executes one of these after
the other. `VecPaging` adds pages: an access to a page that is not there leaves
what its earlier elements did, with `vstart` at the element that faulted; a
handler with `Frames` frames maps the page, first in first out, other processes
take pages away, and the instruction is fetched again.

`VecAtomic` says what that must look like from outside, without pages, loops or
second starts. The elements of an access have numbers (`NumFields`), a bit in
the registers (`ElementBit`) and an address (`ElementAddress`). The access moves
all of them in one step (`Completes`), or those before the first misaligned one,
which `vstart` names (`Traps`), or is refused and moves none (`Refuses`); where
several stores have one address the last one stays. The refinement mapping
(`VecPaging!Shown`) shows, while an instruction is stopped half way, the hart it
was issued on. Left open are `dirty` and `wants`, which the first start already
sets, the fault-only-first loads, which trim `vl` instead of faulting, and the
loads the specification of the extension reserves and the code does not check:
those that overwrite their own indices and those that run past the last register
(`Overlaps`). Left open, too, are the stores of doubles of the 32-bit build that
do not store their elements (`StoresStale`): `mem_write_value` ignores there the
eight bytes it is given and stores `double_to_store` (`Store`), which only a
unit-stride store of eight elements sets, to the element of its first field
(`stages`). Instructions that are no access cannot fault half way; what they may
change is `OnlyBodyChanges`.

- `vector` (15 148 states): eight registers of 64 bits with ELEN 32; memory
  of four pages of 16 bytes, of which two may be mapped. A program sets `vtype` and
  `vl` (every width, groups from a half to two), changes `vl`, `vtype` or
  `vstart`, and executes one instruction of every kind, masked and not, with
  registers that overlap.
  `OnlyBodyChanges`: no element before `vstart`, behind `vl` or masked off
  changes, nor any other register, nor memory outside a store, also when the
  instruction stops half way. `VlFits`: `vl` fits the group, also when it is kept
  while `vtype` changes. `ImplementsAtomic` (refinement): the hart with pages
  implements `VecAtomic`; a load or store that faulted and was fetched again,
  however often, ends with the effect of the one step that it promises.
  `AccessEnds` (liveness): with fewer frames than it touches pages an access
  still ends, because each restart goes on at `vstart`.
- `vector_stores`: the finding of section 5, which is why `OnlyBodyChanges` leaves
  the unit-stride store out.

*Fairness.* The hart goes on whenever it can, and the handler serves every fault:
a step is straight-line code, and a handler that maps no page lets no program
run. `MaxReclaims` bounds how often pages are taken away; without a bound they
could be taken as often as they are mapped.

Left out: a trap or an internal error ends the model's program, misaligned
accesses trap, the FS and VS fields but for `dirty`, rounding, `fcsr`, the
look-ups of the cache, and the scalar `fld` and `fsd`, which set and clear
`double_to_store` too. The run's program has no doubles loaded by the 32-bit
build and no fault-only-first loads, for which the properties fail (section 5);
their operators are in the modules. `PlainProgram` says so, and TLC checks it of the
run's program. `VEXT8TYPE` is always illegal here, since it
needs ELEN 64. A `VLEN` of 32 is excluded by `WidthsAssumption`: no register could
hold a double then.

### The floating-point modules

A number is the word the C code passes around, and a result a word with the
flags raised. `SoftFloat` has formats, rounding, packing, addition and
subtraction, `SoftFloatArith` the products, quotients, roots and fused products,
`SoftFloatConv` conversions, comparisons and rounding to integers; each C function
is an operator of its name, and where the functions of three formats are one
algorithm they share a definition over the format. `FloatUnit` has the
instructions: operands unboxed, the rounding mode from the instruction or `fcsr`,
the wrapper that sets SoftFloat's globals, and the flags accrued afterwards.
`FloatRef` computes with exact numbers (numerator, power of two and quotient) and
rounds once; it shares with the library only the formats, their decoding and
the NaNs.

The formats are constants, `Format(4, 2)`, `Format(6, 6)` and `Format(7, 18)` in the run. They
keep the proportions of 16, 32 and 64 bits that the code relies on, for example
that a product of two significands fits the wide word and that the wider
format holds every number of the narrower one exactly, subnormals too; these
are stated as `FormatsAssumption`. Integers have the widths of the two larger
formats.

- `float` (557 151 states): every instruction on zeros, subnormals, neighbours of
  powers of two, halfway cases, the largest numbers, infinities and both kinds of
  NaN, in all rounding modes; and chains of two instructions with a write of
  `fcsr` between them, reserved modes included.
  `RoundsCorrectly`: each result is the exact value rounded once.
  `FlagsAreExact`: an instruction accrues the flags of its own operation, no more
  and no fewer, with tininess after rounding.

Quotients and roots are exact in the model: the tables of `softfloat_approxRecip32_1`
and `softfloat_approxRecipSqrt32_1` and the corrections after them are
replaced by what they compute. Operands of products are limited to what TLC's
32-bit integers hold, roots of the largest format to squares. Rounding to odd is
modelled and out of reach, since no instruction selects it. `RoundsCorrectly`
compares the number in the low bits of the result, for operands that are
boxed as the unit leaves them (`Boxed`); the run holds also with `nan_box` and
`nan_unbox` changed to ones, so it takes no side on the boxing, of which the code and
its comment differ (section 5).

## 4. What is proved

TLAPS checks these for every value of the constants, under the named
assumptions of each module (such as `HalvesAssumption`, `PowerAssumption` and
`WidthsAssumption`), which TLC evaluates on every instance.

**WebStepper_proofs.** `TypeCorrect`, by `TypeInv`: types are inductive
only together with "a prompt is open only in a read", "mode 2 only with a
prompt" and "no request is left behind for the instruction that is executed".
`NoAnswerLeaks` and `StepperNeverSkips` add `PauseValues`, what
`should_pause` can hold at each place of the simulator; they assume
`EveryReaderResets` (RV64, or no double is read), which is the case of section 5
turned round. `ReadersCanWake` and `ModesAreChosen` (the mode the stepper sees is
one the user chose) hold while the run is calm, by an invariant that relates
prompt, read and mode. `StepperImplementsChannel` is the refinement: initial
states map to initial states, and each step that leaves the run calm to a step
or a stutter of `KeyboardChannel`.

**Privilege_proofs.** `PrivInv` is the type with "no internal error" and "MPRV
only in machine mode". The last makes `DataNeverAboveCode` inductive: every way
out of machine mode clears MPRV. `DispatchCorrect` proves the two-level dispatch
equal to the rule by cases on the two levels. `MachineStateIsolated` is an action
property, by action.

**Platform_proofs.** The reservation, the clock and the HTIF port share no state;
their names carry the module's (`LrScSpec`, `ClintInv`).

- LR/SC: `OwnAndFresh` (a valid reservation belongs to the running
  thread and nobody wrote there) gives `ScAtomic`, with a careful kernel;
  `HeldUntilTrapped` (who was not trapped since its `lr` runs and holds its
  reservation) gives `ScProgress`, with any kernel. Any number of threads and
  addresses.
- CLINT: `NoEarlyTimer` is inductive because a step either refreshes
  MTI or keeps `mtimecmp` and does not move time back before its tick
  (`EndStepHonest`). `CyclesMonotone` rests on `CyclesBehind`: while
  `synced` holds, `mcycle <= mtime`. `TimersNotMissed` rests on `LastRaised`: a
  due timer leaves only in the tick that wraps time, and at that instant it is
  raised, because only a `wfi` gets there without a tick and it goes to the value
  of the timer itself.
  `HalvesAssumption` states that two halves make a register value, for the
  provers do not do the arithmetic of symbolic powers of two.
- HTIF: `CommandsServed` is for programs that only print and exit
  (`Acked`). Its invariant `Orderly` says that between commands the port is at
  rest and nothing is owed, and that within one the port has seen exactly the
  stores made of it (`Progress`), so that a repeated low half triggers the command
  once: three writes, from a counter at zero, in any width that counts to three.

**CacheSim_proofs.** All five properties of the run, for every arrangement of
caches, geometry, policy and program, four of them under hypotheses on the
configuration that the run's own configurations satisfy.

- `BlocksOnce` (`~Translation`, and blocks of L2 not smaller than those of L1 or
  no read wider than a block). Its invariant adds to `NoBlockTwice` that a valid
  line sits in the set of its block (`Contents`); then a look-up that misses
  means that no line holds the block (`SameBlock`), and a refill goes to a line
  of that set: a free one, or one that replacement has emptied, which for FIFO
  means that the pointer reaches the set before it has gone round the cache
  (`SweepReaches`). `LookUps` shows that both levels are asked for the same
  address and that the cache that is filled is the one that missed.
- `TruthfulReports` and `ReadsAreCached` need neither of these: that lines sit in
  their own sets is enough, with index bits that tell no more sets apart than
  there are (`IndexFits`) and reads within a block (`ReadsFit`).
- `RefillsEnd` (`RefillEnds`, without hypotheses, in both directions) is about the calls
  themselves (`Turns`), by induction over them: once the set has a free line they change
  nothing (`TurnsStop`); under FIFO the lines the pointer has passed are empty
  (`FifoTurns`), and it passes the whole cache in as many calls as there are
  lines; a random or direct victim lies in the set (`WriteEnds`), except in a divided L2, where
  every call leaves the full set as it was (`WriteStarves`).
- `RightLineLeaves`: the pointer of FIFO is shared by all sets. The invariant
  (`FifoInv`) says that the valid lines of a set are a prefix of it, that a pointer
  inside a set means the set is full, and that the lines of a set were filled in the
  order in which the pointer will come to them; so the line it stops at is the
  oldest, although it has emptied lines of other sets on the way.

**Pmp_proofs.** `LocksHold` is the action property `LockedStays`, by cases on
the writes; it needs no invariant, since locks are tested where they bite.
`LockedRegions` (`LockedRegion`) adds what the grain does to an address: software reads
it with its lowest `grain` bits cleared or, for a NAPOT entry, all but one of them
set, and both leave the bits above alone (`LowBits`, `GrainBits`).
`LockedEntriesDecide` (`LockedDecisions`): when all entries up to the first that meets
an access are locked, each has its lower neighbour locked with it, so the grain's
slack is not used either, and the decision stays. `Na4Unselectable` is inductive with the type.
`ChecksFollowRule` is `CheckFollowsRule`, for any number of entries, any addresses and
grains. The steps:

- The lowest zero of an address exists, by induction over its bits (`SomeEnd`), the
  bits below it are ones (`BitsOfEnd`), and so the range of a NAPOT entry is the
  block of `NapotSize` words around the address (`NapotIsBlock`). That makes the
  range of every mode the region of the rule (`RangeIsRegion`).
- An access of the code is an interval, and an interval meets or lies within a range
  exactly when its words do (`Meeting`).
- The code's search stops at the first entry that decides; this is the lowest entry
  about the access, and decides as the rule says (`Decision`).

The hypothesis `Fits` says that no address plus its range leaves the word, which
holds on RV64 and fails on RV32 for an address of all ones (section 5), and that a
grain is not wider than an address. `PowerAssumption` gives the powers of two up to
the word, for the provers know none of variable exponent.

**Vmem_proofs.** `TypeAlways` is the type. For a careful program whose page
tables are never made read-only (`TablesWritable`; with one that is, a hit ends the
emulator, section 5), `TlbAlwaysAgrees` (`TlbAgrees`) and `VmemImplementsMmu`
(`ImplementsMmu`), and without the second hypothesis `AccessSetsBits`
(`AccessOnlySetsBits`); any number of levels, address spaces, places and unfenced
changes.

- Lemmas on the walk: one level of it is unfolded from the recursion (`WalksUnfold`);
  by induction over the levels, a walk that finds a page ends in the slot of a leaf
  at its level (`OutcomeAlways`), and two addresses that one leaf maps have the same
  walk, also in tables whose entries on its path differ in accessed and dirty bits only
  (`AlikeAlways`). The induction takes a least counterexample in a set of levels
  (`UpTo`, `Upward`), since the library's theorem has an operator for a parameter.
- The invariant (`TlbInv`): every entry agrees with the walk (`Agrees`) at every
  address it matches unless that address is owed a fence; it has its accessed bit; and global
  mappings are alike. `TlbAgrees` alone is not inductive: a superpage is
  filled at one address and hits at another (`FillAgrees`), an entry in one place is
  written back through a slot that another place has copied (`AgreesStill`), and a
  global entry filled in one address space hits in all.
- The refinement follows the step: a hit answers what the walk would (`HitRefines`),
  a miss is the walk (`MissRefines`), and the end of the emulator, which `Mmu` lacks,
  is excluded by the invariant (`NeverStops`).
- `FenceReachesAll`, without hypotheses: an entry a fence leaves is not one it
  flushes (`LeftByFence`), and one it does not flush does not translate the address.

**Privilege_proofs, the action properties.** `MachineInterruptsPreempt` needs no
invariant: such an interrupt wins the dispatch (`MachineInterruptWins`), and no
instruction is enabled while one is pending. `ChangesAreSaved` uses the types
and that delegation never lowers the privilege (`DelegationRises`).

**Vector_proofs.** `VlAlwaysFits` (`VlFits`), `OnlyTheBodyChanges`
(`OnlyBodyChanges`) and `AccessesAreAtomic` (`ImplementsAtomic`) for the hart
with pages, with any number of registers and any `VLEN`, `ELEN`, memory, pages,
frames, reclaims, operation on an element and program within `PlainProgram`.
That hypothesis excludes what the properties fail for (section 5):
fault-only-first loads and, in the 32-bit build, loads of doubles and indexed
loads. That build's stores of doubles are in the programs, and
`AccessesAreAtomic` promises the effect of those that stage their elements.
`WidthsAssumption` has the widths the specification of the extension allows,
`PowersAssumption` the powers of two as a function, `ProgramAssumption` says
which fields an instruction has.

- The invariant (`HartInv`): `vl` fits the group of `vtype`, also while `vill`
  is set; `vtype` is one the code sets (`Types`) and no wider than ELEN times
  its group; `vstart` is a number; a faulted instruction is one of the
  program's. A `vsetvli` that keeps `vl` is legal only if the ratio of width and
  group stays, so that the new group holds as many elements (`TypeSet`), and a
  stripmined length is at most that (`NewLength`).
- What a clause leaves alone: one lemma for each shape the clauses are written in
  (an element by element `Updated`, the result that is merged with the mask, the
  one-bit results, the single element of a reduction, the permutations), saying
  that an outcome differs from the registers before only where the body has a
  bit (`Harmless`), then one for each of the clauses, by the shape it has.
- Where an element is: an element below the length of a group lies in its
  registers and in no other element's bits (`Arithmetic_proofs` has the division
  this needs), so the write of one is a change of the body.
- The loops: a load or store that stops at a fault has done a number of steps; by
  induction over the steps (a least counterexample, as for the page tables) each has
  changed elements from `vstart` on that the mask selects (`LoadsBody`,
  `StoresBody`).

`AccessesAreAtomic` adds to `HartInv` the invariant `HalfWay`: while an access is
stopped at a fault its checks still pass (`Proceeds`), and there is a number `p` such
that, of the hart it was issued on, the elements below `p` are moved and nothing
else is, none of them is misaligned, and `vstart` names the segment of `p`
(`Midway`). Without it the second start could promise anything; with it, it promises
the elements from `p` on.

- What a loop does is `Moves`: a set of elements is copied, the last where several
  have one target. `AccessLoops` shows that each of the clauses is one of two loops,
  over the same numbered elements (`Numbered`); `AccessRuns` that it ends with all
  of them moved or stops before one (`Progress`).
- Two starts compose (`MovesTwice`) because the second reads what the first did
  not write. A store changes no register. A load keeps its mask, since the
  checks refuse `v0` as the destination of a masked one, and its indices, since
  it does not overlap them (`ReadsKept`); and the bits of two elements of a load
  are different registers' or different elements' (`LoadBitsApart`,
  `TargetsApart`). What a segment had moved before its fault is moved again,
  with the same values (`Resumes`, `AccessResumes`).
- The elements of a store may share an address, so only those of one segment are
  known to be apart (`StoresApart`); that is enough, because a restart at `vstart`
  repeats the fields of one segment, in the same order. The unit-stride store does
  not use its body mask (section 5) and starts over at its first element; its
  elements are all apart.
- The abstract module speaks of the hart the access was issued on and the concrete
  one of the hart as it is: their types, mask and indices agree (`Agreed`), so both
  number the same elements (`PromisedNumbers`, `ElementsAgree`). A step that ends an access is
  `Completes`, `Traps` or `Refuses` (`EndIsPromised`), one that faults is a
  stutter and leaves it half way (`FaultIsHalfWay`).

**Arithmetic_proofs.** Lemmas that more than one of the modules cites: the least
member of a set of numbers and induction upwards from it, quotients and remainders of a
division, products of powers of two, how segments of equal length tile the numbers.

**Only model-checked.** The liveness properties (`StopInStepMode`,
`TimerArrives`, `ProgramIsReached`, `TrapsAreServed`, `AccessEnds`), out of the
prover's reach. The two invariants of `BootRom`, which is one fixed table that TLC
goes through completely. The
properties of the floating-point modules, which compute with powers of two of
variable exponent.

## 5. Where the code and its own words disagree

One has a run that TLC ends with a counterexample, and a finding with the line it
contradicts.

- `vector_stores`: the unit-stride store `vse` computes the mask of its body
  elements, as its comments say, and then tests the mask register instead
  (`riscv_insts_vext_mem.sail:398`, and 269 and 308): without a mask it writes the
  elements before `vstart` and those behind `vl` to memory. The strided and
  indexed stores use the mask they compute.

The modules reproduce the following as well; no run is kept for them. In
parentheses what to change to see it.

The web build and the boot ROM's vector:

- The RV32 readers of a double leave `should_pause` at 2
  (`riscv_platform.c:1197`), and the next instruction does not pause
  (`NeverSkipsPause` with `XLEN = 32`).
- On RV64 the word that sets `mtvec` adds -272, where RV32 has -288 and the
  comment "-284 <trap_vector>" (`riscv_sim.c:829`): it points four words into
  `trap_vector`. The words that read `mcause` are skipped, and what the program
  left in t5 and t6 decides whether a trap is served as a call. The properties
  of `boot` are stated for calls the handler takes for calls (`seen`).

The vector extension:

- The fault-only-first loads, too, test the mask register in place of the mask
  they compute (`VLSEGFFTYPE` in the run's program; `OnlyBodyChanges`). With a group
  of less than a register they count to the end of the register, so that a
  fault sets `vl` above the length of the group (`VlFits`).
- The 32-bit build gathers the doubles it loads or computes in one staging
  register and stores that in place of a whole vector register: with a mask, with
  `vstart` not zero or after a fault the wrong elements are stored
  (`riscv_vext_regs.sail:310`; `OnlyBodyChanges` without `Replaces`). The flags of its
  double operations are not accrued.
- It stores doubles by way of another register, `double_to_store`, whatever
  data a store passes (`riscv_mem.sail:385-395`). Only the unit-stride store with eight
  elements puts each there before it is stored, and always that of its first field
  (`riscv_insts_vext_mem.sail:265-291`); every other store of doubles (unit-stride with another
  number of elements, strided, indexed) stores the double
  that an earlier instruction left there, or zeros (`ImplementsAtomic` without `StoresStale`).
- `get_start_element` reports an illegal `vstart` and goes on with the instruction.
- A whole-register access that faults is restarted with a `vstart` that counts
  elements of its own width, and is illegal then when that exceeds the count at
  the width of `vtype`.
- `vmerge` takes for the elements of a fractional group the number for a whole
  register divided by the exponent, not by its power of two
  (`riscv_insts_vext_arith.sail:321`); `vsetvl` accepts a width above ELEN when
  the group is more than one.

Floating point:

- "Upper 32b all ones" says the comment on boxing (`riscv_fdext_regs.sail:22`), and
  the code below it boxes with zeros and takes a number for boxed when its upper
  half is zero.

The cache, the reservation and the port:

- The reservation is not cancelled on a change of privilege
  (`riscv_platform.c:152`; `LrSc` with `KernelClears = FALSE`): after a switch
  another thread's `sc` succeeds on a word that was written meanwhile.
- The sixteenth unacknowledged command for device 0 is lost, when the
  four-bit counter of writes wraps (`Htif` with `Payloads <- SyscallOnly`,
  `Modes <- WideOnly` and sixteen commands).
- With random replacement in a split L2 the refill never ends
  (`riscv_mem.sail:1223`; the exception in `RefillEnds`, which the run reaches).
- FIFO replacement empties lines of sets that need no room, as the pointer
  passes them (`replace_cache` in `TwoSets("FIFO")`).

The boot ROM:

- An entry point with bit 11 set is missed by a page, for `get_entry` puts its
  low twelve bits in an `addi`, which extends their sign (`riscv_platform.c:1287`;
  `EntersProgram` without its exception).
- `pmpaddr0` covers no memory on RV32, where its range wraps, and not the ROM on
  RV64: with `--pmp-count` a program in user mode cannot be entered
  (`ProgramIsReached` without its exception).
- RV64 with exactly one of floating point and vector executes a padding word of
  zeros after `mret`'s block was moved; it is reached only on that path.
- Word 20 jumps 38 bytes, into the middle of word 29. What is there is executed
  with the compressed extension; without it the jump traps, which on RV64 may be
  served as an exit, so that a program with an unknown service code ends with
  SUCCESS (the exception in `VerdictIsTrue`). With gp = 0 an unknown code hangs in
  `fail`.
- `finish` ends the process with status 0 also after FAILURE; the handler
  changes t0, t5 and t6 of the program; the address of `tohost` is a constant of
  the ROM and must be the one in the ELF file.

Protection and translation:

- An NA4 entry covers sixteen bytes: the code adds 4 to an address that counts
  words (`riscv_pmp_control.sail:22`; `Na4CoversOneWord`).
- A configuration CSR exists when its own number is below the number of
  entries (`riscv_sys_control.sail:47`), so entries above the count can be set
  and are matched.
- On RV32 a NAPOT address of all ones wraps to an empty range.
- With a grain, the mode of the entry below a locked top-of-range entry decides
  which bits of its lower bound count, and that mode is not locked
  (`LockedRegion` without the division by the granule).
- A page table made read-only while a translation through it is in the TLB ends
  the emulator at the first store that hits (`riscv_vmem.sail:323`; `Vmem` with
  `GuardChoices <- MCReadOnly`).
- A program that does not fence lets a hit write an old entry over a new one
  (`Careful = FALSE`, `AccessOnlySetsBits`).

The rest:

- Any trap, not only an ecall, enters a keyboard reader when a7 holds a read
  code, and nobody is asked to answer it (`ReaderCanWake` without `calm`;
  `riscv_sys_exceptions.sail:191`).
- The HTIF port is reset for the terminal only, although the comment at
  `riscv_platform.sail:341` says it is reset once a command has been processed
  (`PortIsReset` with `Controls = {NoControl}` and an even payload).
- After a `wfi` the timer is not pending "at the next instruction"
  (`riscv_platform.sail:500`) but at the next tick.
- With level type 3 a load that misses L1 is looked up and written nowhere
  (`riscv_mem.sail:2194`; the exception in `ReadIsCached`).
- `init_cache` asks for L1's lines per set for every cache, while the index bits
  of L2 come from its own: with different values two blocks share a set and a
  tag, and a hit is printed for a block that is not there (`ReportsAreTrue`
  with `NumLines["L2"] = 1` and `NumLines["L1"] = 2`).

## 6. What is not modelled

The components of `PROJECT.json` with status `not_modelled`. The RVFI-DII session
has no program to model at this commit: `riscv_sim.c:1327` has a stray word
(`unit`) under `RVFI_DII`, which does not compile. The OCaml emulator, the prover
back ends and the older copies of the memory model are generated or not in the
web build. Of the memory access path `phys_access_check` is in `Pmp`; the rest
dispatches on address ranges and keeps no state. Scalar integer instructions are
straight-line arithmetic on one register, and are executed in `BootRom` as far as
the ROM uses them. Of SoftFloat the extended and quadruple formats, the
remainders and the builds without 64-bit integers, which the emulator does not
call. Of the floating-point instructions the loads and stores, `fli`, `fmvh`,
`fmvp`, the FS field and the variants on integer registers.

Within modelled components: the page's drawing, printing of registers, the float
and char variants of the readers (one kind stands for them), the payload of
traps, `minstret`, the instruction limit (but for `BootRom`), `htif_load`, the
statistics of the cache and the write branch of `write_cache`, which nothing
calls; the check of canonical addresses, MPRV's effect on translation, Sv57, the
mode without translation; the device tree, the ROM without kernel simulation,
the loading of the ELF file; physical memory attributes.

Two hazards are not in `PROJECT.json`, for they belong to the
composition of `CacheSim` and `Vmem` that section 2 leaves: `fetch_A` looks up the
address of the low half again for the high half of an instruction
(`riscv_fetch.sail:409`), and an atomic looks up the cache by its virtual address
(`riscv_insts_aext.sail:222`). They change only the hits and misses shown.
