# Uniicorn-Wii: specifications, model checking and proofs

Uniicorn runs the first software of a Wii (boot0, boot1, boot2, "mini") on an
emulated Starlet CPU. The Unicorn library executes the instructions; the
program in `src/` is what surrounds the CPU: the memory map, the Hollywood
registers and the devices behind them. This directory holds TLA+ modules that
model that program, the configurations that check them with TLC and the
theorems about them that TLAPS checks. Paths below are relative to `src/`.

## The system

There is one thread. `main` (`source/uniicorn.c`) loads files and calls
`ARM_Main` (`source/cpu_starlet.c`), which maps memory, registers callbacks with
Unicorn and starts the CPU. Everything after that happens in callbacks, made in
the middle of a guest instruction: a read or a write of a memory-mapped
register, a hook before each instruction, a hook for interrupts. A callback
runs to its end before anything else does, so *one callback is one atomic step*,
and what is hard is not interleaving inside the program but the **order in which
the guest calls it**: the guest may write any register at any time, and state
is spread over devices that know little of each other.

| part | state | operations | interacts with |
|---|---|---|---|
| startup (`uniicorn.c`) | argument index, options, files read | parse, load boot0, load keys, run | key store, memory, CPU |
| memory map (`util_memory.c`) | what Unicorn maps in four windows, `MEM_ARM_SRAMState` | `MEM_ARM_SetSRAM`, `MEM_EmuToHost` | called by Hollywood; used by NAND, AES, SHA, debug console |
| Hollywood registers (`registers_hollywood.c`) | SRNPROT, boot0 flag, OTP port, GPIO, AIPPROT, timer, cache | one handler per register | remaps memory; reads the key store |
| key store (same file) | OTP and SEEPROM, an "imported" flag for each | `HW_ImportKeys`, `HW_HasKeys` | called by startup and NAND |
| AES engine (`interface_aes.c`, `util_aes.c`) | two FIFOs, flags, pointers, context | reset, command, FIFO and pointer writes | memory |
| SHA engine (`interface_sha.c`, `util_sha1.c`) | pointer, context | reset, command, state writes | memory |
| NAND interface (`interface_nand.c`) | open file and its position, addresses, page, configuration | mount, close, reset, read page | memory, key store, stops the CPU |
| EXI (`interface_exi.c`) | boot vector, USB Gecko text buffer, selection, data register | select, data, command, boot vector | flushed by the CPU's register dump |
| memory interface, EHCI | one flush request; nothing | store and read back; report | - |
| debug console (`cpu_starlet.c`) | a text buffer | an SWI hands over a string | memory, or the CPU's address space |
| CPU glue (`cpu_starlet.c`) | register regions, the run itself | set up, hooks, register dump, memory dumps | timer, EXI flush, debug console |
| boot1 tool (`tools/boot1-extract.c`) | one AES and one SHA-1 context, two buffers | read, decrypt, hash a page; save | a program of its own on the two libraries |

Hard behaviours, and what correct means for each part:

* **memory map**: eight unmaps and up to six maps, none of them checked. Some
  unmaps fail in every call, and which ones depends on the layout before: with
  nothing mapped all eight; from a layout that fills the SRAM windows the last
  four; from the layout with a gap the two of the whole windows. Correct: the
  windows show what the two controls ask for, whatever layouts came before.
* **Hollywood**: two registers control one mapping, a third plants values in
  the cache entry of one of them. Correct: mapping and registers agree, and
  what a guest reads about the boot ROM can be relied on.
* **key store**: two halves, up to four files, one of them opened late by the
  guest. Correct: the documented load order holds for each half by itself, and
  what the guest has read from the OTP is never replaced.
* **AES, SHA**: a long operation cut into commands. Correct: however it is cut,
  the result is that of one operation.
* **NAND**: a file that may be absent or short, offsets that overflow an
  `int`, buffers that overlap. Correct: a page that is delivered is that page.
* **EXI**: a line buffer shared by the guest's text and register dumps, with a
  limit. Correct: text comes out as it was sent.
* **debug console**: strings gathered in a buffer by an `snprintf` whose target
  is among its sources, with a limit, and with an index that an empty text makes
  -1. A string is read by a translation that takes no account of the layout, so
  it may come from another page than the guest sees, or by a fetch of 0x80 bytes
  that gives nothing when one of them is not mapped. Correct: text there is room
  for, handed over where the code can read it, comes out as it was.
* **CPU glue**: ten register regions mapped without a look at the result, two
  devices in the pages of one; emulation may end inside a line of text.
  Correct: a register answers where it should, and the text comes out.
* **boot1 tool and the libraries**: rounds that work in place, a CBC context
  that goes on from page to page, a file that may be short. Correct: the rounds
  are those of the standards, and whole pages come out whole.
* **startup**: options with and without arguments, files that may be missing.
  Correct: it ends, with the CPU prepared as asked or an exit.

## Modules

| module | models | state and actions in the code |
|---|---|---|
| `MemoryGeometry` | `include/memory.h` in 4 KiB pages; host pages | constants, and the assumption that the regions are apart |
| `MemoryMap` | `util_memory.c` | `mem` is Unicorn's memory list for the windows; `uc_mem_unmap` and `uc_mem_map_ptr` fail as Unicorn's do and change nothing then |
| `SramLayout` | the abstract specification of the windows: the layout belonging to each setting | the comments and maps of `MEM_ARM_SetSRAM` |
| `BusWords` | words as sets of bits, `SWAP_32` with and without a parenthesised argument | `include/uniicorn.h` |
| `KeyStore` | `HW_ImportKeys`, `HW_HasKeys` | one value per OTP and SEEPROM image |
| `Hollywood` | `HW_WriteRegister`, `HW_ReadRegister`, the timer hook, the import by the NAND | one action per register; composes `MemoryMap`, `KeyStore` and `BusWords` |
| `AesEngine` | `interface_aes.c` on the CBC loops of `util_aes.c` | one action per register, reset and command apart |
| `AesStream` | the engine with a history of FIFO words and blocks done | adds no restriction but the bounds `MAX_TOTAL`, `MAX_SPENT` |
| `Octets` | bytes as sets of bits, exclusive or | `uint8_t` and `^` |
| `AesCipher` | the block cipher of `util_aes.c` | one operator per function; one turn of each loop over words or rounds, and the loops as recursive functions |
| `Sha1Rounds` | the rounds of `SHA1_Transform`, and those of FIPS 180 | one operator per macro; words as in `BusWords`, with addition and rotation |
| `Sha1` | the context of `util_sha1.c`, `SHA1_Update` | operators on a context: blocks, what waits in the buffer, the counter and its carry |
| `ShaEngine` | `interface_sha.c` | one action per register, reset and command apart; `began`, `done`, `hashed` are a history of the blocks hashed |
| `ExiGecko` | `interface_exi.c` and the flush of `ARM_print_state` | `EXI_WriteRegister` is one action with a part for each register; `lines`, `line` are a history of what was sent |
| `DebugConsole` | the debugger output of `ARM_intr_hook` | `DebugOutput` is the whole SWI; a string has an address, `CpuSees` is what the guest finds there, `Received` what the code works with: the bytes of the host buffer `MEM_EmuToHost` names, or what `uc_mem_read` fetches, all or nothing; `ended`, `pending` are a history of what the guest handed over, `whole` whether there was room for it and the code could read it |
| `RegisterMap` | the `uc_mmio_map` calls of `ARM_Main`, the memory interface, EHCI | who answers for an address; `flushreq` |
| `Starlet` | `ARM_Main` and its hooks; composes `ExiGecko`, `DebugConsole`, `RegisterMap` and `Hollywood` (`HW`) | `cpu` is the place in `ARM_Main`; writes by address, `WriteHW` those of the two registers that remap memory; SWIs, invalid accesses, the end, the dumps; `asked` is a history |
| `Boot1Extract` | `tools/boot1-extract.c` on `AesCipher` and `Sha1Rounds` | `pc` is the place in `main` and in the loops below it; one action per read, block and round; `standard` is a history: the same rounds as FIPS 180 states them |
| `NandInterface` | `interface_nand.c` | `WriteCONFIG` (mount, failed mount, close, stay closed), `WriteCTRL` (reset, page read, other), the address registers; `lastRead` is a history |
| `Startup` | `main`, and the first mount by the guest | `pc` is the place in `main`; one action per file or argument |
| `MC*` | the instances TLC checks | |
| `HollywoodProofs`, `AesProofs`, `ShaProofs`, `StarletProofs`, `StartupProofs`, `NandProofs`, `AesCipherProofs`, `Boot1Proofs` | the theorems: of the memory map and Hollywood, of `AesStream`, of `ShaEngine`, of `ExiGecko`, `DebugConsole`, `RegisterMap` and `Starlet`, of `Startup`, of `NandInterface`, of the cipher, of the extraction tool | |

Data is abstracted to what the properties tell apart. An OTP image is one
value; a NAND line is its place in the file; a block cipher is any pair of
functions that undo each other in `AesEngine`, and the eighty rounds of SHA-1
any function in `Sha1`; ECC is an injective value of the data. That the cipher
and the rounds are what they should be is a question of its own, and `Boot1Extract`
asks it with the bytes of published vectors. Control is not abstracted: every
branch and early return of a handler is a disjunct.

A definition marked *Slip* in a module is a wrong version of the definition it
precedes, of the kind an edit could introduce: a forgotten unmap, a remap with
the value before, a missing reset, a swapped block. No specification uses one.
Putting a slip in place of its original makes TLC report the property it was
written for, which shows that the property depends on that code.

### What the code leaves undefined

Commands whose buffers are not in memory, a page read without an open file and
the word after the boot vector are undefined behaviour in C. AES, SHA and NAND end
the run there (`running`), so no property holds because of them; the boot
vector's extra word is not written by the guest. A full text buffer without a
zero at its end is printed with or without something behind it (`Garbage`).
The `snprintf` of the debug console either keeps the old text or loses it, one
or the other for a whole run (`keepsPrefix`), as C libraries do. A fetched string
without a zero is read on into something or nothing (`Behind`), and an empty text
prints a blank line or nothing (`ShowNothing`).
After a short `fread` the rest of a page or key file is a value of its own.

## Runs

Expected to hold:

| run | question | bounds |
|---|---|---|
| `hollywood` | Do the windows, devices, boot flag, OTP port and pins stay consistent under every order of writes? Is all of SRAM within reach once the boot ROM is gone? Does code that switches the boot ROM stay where it is? | the console's own geometry; three words for SRNPROT and OTPCMD, two for BOOT0 and SPARE0, one for the others; two OTP images |
| `aes` | Is every way to cut a stream one CBC run? Do the FIFOs hold the last four words by position? | 16 blocks, commands of one or two, three in all; memory of three blocks whose pointers wrap; words and blocks together no more than seven, a block counting for two |
| `sha` | Is a message cut into commands one message? Does the counter carry? | blocks of two bytes, commands of one or two, three blocks to a message and seven to a reset; a counter that wraps after six blocks; two memory regions |
| `starlet` | Do the texts of the Gecko and of the console come out as they were given, also at the end? Does a full console stay silent? Does a flush request reach the register it is polled in? | Gecko buffer of two bytes, console buffer of three, fetches and pages of two; three characters of text in all (the newline of a blank line may come on top), in every interleaving with remaps; five strings at five addresses; SRAM of two pages and one, one page of MEM1, two of each other window; the registers' own addresses |
| `startup` | Which file does each half of the keys come from, how does the CPU start, does `main` end? | all states of six files, six command lines of up to five arguments |
| `nand` | Is a delivered page the page? Do mounts leave keys right? | three pages of two data lines; page numbers inside, just past, negative as an `int`, and wrapped |
| `boot1` | Are the rounds those of the standards? Do whole pages of a dump come out decrypted, and hashed right? | two pages of 128 bytes with one spare byte; the AES vectors of `util_aes.c`, the two-block message of `util_sha1.c`; files that are whole, or end behind the first page, inside the second, or at once |

Why these are enough: the mapping has four layouts and each is reached from
each, so longer histories repeat; the remapping code looks at one bit of each
control, and the words have that bit on and off. An AES command depends on the
context alone, which one command before it fills in every way. Seven words turn a
FIFO of four over and leave it in the middle. A SHA message of three blocks has a
command with a later block after a command, and seven blocks carry between the
counter's words and wrap both. The Gecko's buffer of two and the
console's of three (with its zero) are filled by the text of a run and passed
by it; each ends in the middle of a line in some runs. Strings lie in MEM1 and inside
an SRAM window, cross a page in SRAM and from the fffe window to the ffff window,
and start where a fetch runs out of the ffff window; each of them is said under
all four layouts, and a remap may come between the pieces of a line. The Gecko's
deselection and its data word for another command are not in this run; the
theorems cover them. Two pages
make CBC and the hash go on across a page, 128 bytes across blocks of both
algorithms; the rounds have no bound. Page 11 has an offset of 33 lines with an `int` of 16,
so that it wraps to line 1. All state spaces are explored to the end. `CHECK_DEADLOCK FALSE`
is set where the system really stops: `main` returns, emulation ends, the
bounds of a history are used up.

Expected to fail, each a disagreement of the code with what the repository says:

| run | property | what happens |
|---|---|---|
| `hollywood_gpio_read` | `GpioOutReadsBack` | `SWAP_32(a & b)` swaps only `b` (`registers_hollywood.c:60`, macro at `uniicorn.h:11`), so the pins read are not those driven |
| `hollywood_overrun` | `WindowsShowSramOnly` | with boot0 off, ffff (or fffe) shows 64 KiB from the middle of the 96 KiB buffer (`util_memory.c:78`, `:89`) |
| `exi_long_line` | `SentBytesKept` | the byte that finds the buffer full is dropped and answered as sent (`interface_exi.c:97`) |
| `startup_options` | `NocheckHonoured` | the argument after `--bmem path` is skipped (`uniicorn.c:44`) |
| `nand_enable` | `EnableMounts` | enabling a mounted NAND closes it (`interface_nand.c:124`) |

Smaller ones, seen while modelling and not given a run: the AES and SHA pointer
reads are not swapped (`interface_aes.c:42`, `:45`, `interface_sha.c:28`), the
Gecko masks an "8-bit byte" to seven bits (`interface_exi.c:95`, `:96`), the
boot vector's range check takes in one offset too many (`:30`, `:60`), and
`HW_GPIO_INTFLAG` is stored but has no read case.

## Fairness

Two modules state any. `Startup`: weak fairness of `Load`, the steps of `main`
before the CPU runs. `Starlet`: weak fairness of `EmulationStopped` and `Dump`,
the steps after `uc_emu_start` has returned. Both are straight-line code on one
thread without waiting, so each is taken when it is next. Nothing is assumed of
the guest: it may never enable the NAND, and emulation may never end. The other
modules have only safety properties, which need no fairness.

## Proofs

All theorems hold for every value of the constants that the named assumptions
allow. Each theorem about a specification rests on an inductive invariant, with
a lemma for the initial states, one for the steps (one per action where there
are many), and the temporal step at the end.

* `HollywoodProofs`, first half: the memory map. The core is
  `SetSRAMChangesLayout`: from any of the four layouts, the eight unmaps empty
  the windows (the fffe and ffff windows by the first two, the SRAM windows by
  the next two or, where the layout leaves a gap in them, by the last four), and
  the maps then build the new layout. It assumes `GeometryAssumption`: regions
  apart, SRAM B not larger than SRAM A, SRAM A not larger than the fffe window.
* `HollywoodProofs`, second half: the invariant is `TypeOK`,
  `MapMatchesRegisters` and two parts that relate registers: BOOT0's cache entry
  with bit 12 on implies the boot ROM is off, and the OTP reading is of the
  installed OTP. `MapMatchesRegisters` is what makes the unchecked calls
  succeed, so it cannot be left out; the other properties of the windows follow
  from it and the layouts: `SramVisible`, that a guest finds every page of SRAM
  in the fffe and ffff windows once the boot ROM is gone, and `CodeStays`, that
  a write to BOOT0 moves nothing under the code that may be running it.
* `AesProofs`: the invariant (`StreamInv`) adds to `StreamIsCbc` that the context
  holds the key of the stream and the CBC value its last block left; without that
  a chained command could start from anything. It holds for any cipher. The
  FIFOs are a second invariant (`FifoInv`): a position is the number of words
  since the reset modulo four, and `PutWord` is what one more word does to the
  last word by position.
* `ShaProofs`: the invariant adds that the counter is a multiple of the block
  size (`Aligned`): commands are of whole blocks and a reset clears the counter,
  so nothing ever waits in the buffer and a command's data is its own blocks
  (`WholeCommand`). `Counted` names the quotient that `CountIsBytes` leaves
  out. It assumes (`Sha1Assumption`, `ShaAssumption`) that a block size divides
  the low word's range and that the longest command is below it.
* `StarletProofs`, the Gecko: `TypeOK` and `PlainTextPrinted` are inductive
  together. The boot-vector theorem is arithmetic: no offset from 64 to 127
  divided by 20 is channel 1. `StarletImplementsExi` shows that the part of a
  run that is the Gecko's satisfies `ExiGecko`'s own specification, each step
  being one of its steps or a stutter, so that these theorems hold of the whole.
* `StarletProofs`, the console: `ConsoleTypeOK` and `DebugTextPrinted` are
  inductive together: while there has been room, the buffer is `pending`, nothing
  is cut off and printing it extends what `ended` says. That the code then works
  with the string the guest sees (`ReadableReceived`) rests on the layout: in
  main memory, in SRAM while iouen is off, and in the fffe and ffff windows when
  the whole fetch lies in them. So the map is part of the proof:
  `StarletImplementsHollywood` shows that a run satisfies Hollywood's own
  specification, from which `StarletMap` has `MapMatchesRegisters` of it; its
  invariant (`RegistersAsked`) is that property with the type of the boot flag,
  kept by the theorems of `HollywoodProofs`, which are instantiated. `JamCorrect` is an action
  property: what follows a full buffer is cut off, and it does not end in a
  newline by `ConsoleTypeOK`.
* `StarletProofs`, the register map: the ten regions lie apart once their sizes
  are rounded up and their bases are page addresses, so that none of the ten
  calls is refused (`EveryRegionMapped`, along the recursion of `MappedAfter`),
  and an address is answered by one of them only. So the memory controller's
  addresses reach the memory interface, no other address there is taken for the
  flush request (`OnlyRequestAsks`), and `FlushCorrect` follows.
* `StartupProofs`: the invariant says, for each place in `main`, which files
  have had their turn (`KeysSoFar`), that the flags agree with the images, and
  that the NAND comes last.
* `NandProofs`: `TypeOK` and `LastReadDelivered` are inductive together; the
  work is that a page inside the dump has an offset that the conversion to an
  `int` keeps and a read that is not short. `MountCorrect` is an action property.
* `AesCipherProofs`: `CipherUndone`: for every block and round keys, `InvCipher`
  goes back through the states of `Cipher` and ends with the block. The tables
  are inverse entry by entry; a shift of the rows is a permutation and its
  inverse another; multiplication by x is linear, so that the products of the
  two mixings of a column can be summed, and 14, 11, 13, 9 with 2, 3, 1, 1 leave
  one row (`ColumnsUnmixed`). Key schedule and rounds are recursive functions:
  `Recursion` shows that such a function exists and satisfies its equation.
  `CipherInverse` puts the rounds together: `InvCipher` undoes `Cipher` and
  `Cipher` undoes `InvCipher`, for all round keys, the zeroes of a context without a
  key included. That is what `AesAssumption` asks of a cipher in `AesEngine`.
* `Boot1Proofs`: the invariant `Boot1Inv` says of a page that is being decrypted
  that its first blocks are plain and the rest as in the file, that the state is
  one of `Cipher`'s on the plain block, and that `Iv` is the encrypted block
  before, on this page or the one before (`DecryptRight`); of a page that is being
  hashed that the variables and the sixteen words are the standard's
  (`RoundsRight`) and the state is the hash of the blocks before (`HashSoFar`);
  and where the file has been read to (`FilePosition`), by which a whole page
  never follows one that was cut off. TLC has checked it on the instance of the
  run `boot1`. `PagesDecrypted` and `PagesHashed` follow for pages of any number
  of SHA-1 blocks, any number of pages and any file. `Boot1Assumption` describes
  the inputs and excludes none: a file is a dump of the pages one chooses, and
  for every key and content such a record exists, since `IsDumpOf` says what its
  bytes and hashes are. By `CipherInverse`, any file at all is the dump of
  some pages.

The library's theorem for induction over the naturals has an operator as
parameter, which the provers cannot instantiate. `AesCipherProofs` derives
induction for *sets* of naturals (`SetInduction`) from the well-foundedness of
their order, and recursion from that; `Boot1Proofs` uses both. The recursion of
`MappedAfter` has ten steps and is solved by giving its value.

Model-checked only: `StartupEnds` and `StoppedTextComesOut`, which are liveness
under fairness and beyond the prover; and the five properties that fail. Every
other property of a passing run is a theorem.

## Not modelled

* The CPU, its MMU and Unicorn's translation cache: a library; `MemoryMap` models
  the two calls the program depends on.
* `SHA1_Final` and `SHA1`, which nothing calls, and the modes of AES that are not
  compiled. The ECC polynomial: a value that differs for different data.
* NAND buffers that do not start on a 64-byte line; `NAND_ADDR1`, stored and not
  used.
* `MEM_SetBoot0` and the `mmu` branch of `MEM_ARM_SetSRAM`, which nothing reaches.
* Logging, the tracing of addresses, and the contents of the dumps.
* Inside of `Starlet`: AES, SHA, the NAND and the Hollywood registers other than
  SRNPROT and BOOT0. They print no text and move no memory, and the end of
  emulation that a NAND may cause is the step `StopEmulation`. What they write to
  memory may change a string before the guest hands it over, not while it does.
* Strings of the debug console that have no zero before the end of what is
  mapped, that lie among the registers (a fetch would call their handlers), or
  that the guest names by a virtual address that is not the physical one. Which
  bytes another page than the guest's holds: `Received` allows any string there.

## Plan

Done, in this order: memory map and Hollywood with their proofs; AES; EXI;
startup; NAND; SHA; the debug console and the emulation around it (`Starlet`);
the cipher, the rounds of SHA-1 and the extraction tool; the proofs of the FIFOs
and of `Starlet`; the proofs of the register map, the cipher and the extraction
tool.

Next:

1. AES, SHA and NAND on one memory, so that a device may write the pages another
   reads and a remap may come between; today each has a memory of its own.
2. The ECC polynomial of `NAND_calc_ecc` as it is calculated, with the property
   that it tells any two pages apart that differ in one bit.
3. Proofs: `AesEngine` with the cipher of `AesCipher` in place of its constant, which
   needs blocks of four words and blocks of sixteen bytes related; likewise
   `Sha1` with the rounds of `Sha1Rounds`.
