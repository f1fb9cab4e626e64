# Specifications of the YasOS C library

TLA+ models of the parts of this C library (neatlibc, grown into the user
library of YasOS) that keep state across calls: its two heaps, the heap across
a vfork, the buffers of `stdio`, the end of a process, temporary files and
directories. The functions without state are modelled as well: strings,
`printf` and `scanf`, numbers, sorting, `fnmatch`, mount tables, dates, the
arithmetic run-time, regular expressions. TLC checks the models on small
instances; TLAPS proves both heaps, the heap across a vfork, the
streams, the end of a process, temporary files, directory
listings and the loop of `fnmatch` correct for every instance.
`PROJECT.json` maps every definition to the lines it models and lists the
runs, the mutants, the hazards and what was found.

To run: `tlc -config MCX.cfg MCX` for a run, `tlapm XProofs.tla` for the
proofs about `X` (`PoolMalloc`, `NoosMalloc`, `VforkHeap`, `Stream`,
`ProcessExit`, `Files`, `Fnmatch`). A run takes between ten seconds and a
minute and a half, `library` about three minutes.

## 1. The system

The library is linked into one program. A process has one thread on the
hosted build, so nothing in it locks; concurrency comes from three sides:
`vfork` (a child on the parent's memory), the program's own functions that the
library calls (exit handlers, comparison functions), and on the no-OS build
the threads and interrupts that the hooks `__malloc_lock` and
`__malloc_unlock` are there for. Beneath it are the kernel's calls, each of
which can fail or do part of what was asked.

| component | source | state it keeps | operations | correct when | modelled |
|---|---|---|---|---|---|
| pool allocator | `malloc.c` | current, spare and retired pools with bump pointer, count and free list; cache of parked mappings; the size class | `malloc`, `free`, `realloc`, `memalign` and kin | blocks apart, caches agree with the lists, every page owned once, failure only when full | `PoolMalloc`, proved |
| vfork window | `malloc.c` 300-420, `syscalls.c`, `vfork.S`, `stdio.c` 75-98 | the saved roots, the buffer of `stderr` | `__malloc_vfork_save`, `_restore`; all others while `in_vfork_window` | the parent keeps its blocks and finds its heap as it was | `VforkHeap` (partly) |
| bare-metal heap | `noos/malloc.c` | one address-ordered free list, size words in memory, the break | the same calls, under the lock hooks | blocks apart, free neighbours merged, nothing lost, a realloc is safe between its critical sections | `NoosMalloc`, proved |
| stdio streams | `stdio.c`, `scanf.c` `ic` and `ungetc` | two buffers, pushback, flags, mode; the kernel's place | the calls of `<stdio.h>` | the buffers do not show | `Stream` (partly), proved |
| process exit, `system` | `stdlib.c` | table of handlers, fini table | `atexit`, `on_exit`, `exit`, `system` | each handler once, everything flushed, the exit ends | `ProcessExit` (partly), its safety proved |
| formatted output | `stdio.c` 330-885 | none (a memory stream) | `vfprintf` family | text and count as C says, truncation keeps the count | `Printing` (partly) |
| formatted input | `scanf.c` | none beyond the stream | `vfscanf` family | consumes what it converts and no more than one byte ahead | `Scanning` |
| number parsing | `atoi.c` | none | `strtol` and kin | right value or saturation with `ERANGE` at each width | `Numbers` |
| string and memory | `string.c`, `stringc.c`, `strings.c`, `libgen.c`, `noos/aeabi_mem.c` | `strtok`'s place | copies, searches, compares | overlap, alignment and ends | `Strings` (partly) |
| sorting, searching | `qsort.c` | none | `qsort`, `bsearch` | sorted permutation; found if present | `Sorting` |
| pattern matching | `fnmatch.c` | none | `fnmatch` | agrees with the definition, dots and slashes included, in O(n*m) | `Fnmatch` (partly), its loop proved |
| directories | `dirent.c` | buffer and offset of a `DIR` | `opendir`, `readdir`, `closedir` | each entry once, in order | `Files`, proved |
| temporary files | `mkstemp.c`, `tmpnam.c` | a counter | `mkstemp`, `mkdtemp`, `tmpnam` | exclusive creation under other creators, the loop ends | `Files`, proved |
| mount table | `mntent.c` | the stream | `getmntent`, `hasmntopt` | fields and escapes | `Mounts` |
| regular expressions | `regcomp.c`, `regexec.c` | compiled automaton | `regcomp`, `regexec` | leftmost, longest match, groups of one way to match | `Regparse`, `Regcomp`, `Regexec` against `Regex` (partly) |
| arithmetic run-time, `strtod` | `math_runtime.c`, `bitops.c`, `stdlib.c` | none | bit counts, `fmaxl`, `ilogbl`, complex division, `strtod` | right at the ends of the range | `Arithmetic` (partly) |
| time | `localtime.c`, `strftime.c` | none | `localtime`, `mktime`, `strftime` | the way there and back, February included | `Calendar` (partly) |
| system-call wrappers | `syscalls.c`, `sys/*.c`, `unistd.c`, ... | none | pass arguments to the kernel | - | as the environment |
| no-OS hooks | `noos/syscalls.c` | none, weak defaults | `_sbrk` and others | - | as the environment |
| counters, locale, user database, loader stubs, start-up, headers and tests | see `PROJECT.json` | little or none | | | no |

How they interact:

- `stdio` allocates its buffers with `malloc` on first use, the standard
  streams too; `stderr` gets its buffer before a `vfork` so that a child's
  first message does not allocate one (`stdio.c` 97).
- `vfork` (`arm/vfork.S`, `syscalls.c`) calls `__malloc_vfork_save` before the
  child runs and `__malloc_vfork_restore` when it is gone. All the child does
  to any variable of the library is otherwise the parent's to keep.
- `system` is a `vfork` whose child execs or calls `exit`; `exit` calls the
  program's functions and then flushes `stdout` and `stderr`.
- `scanf.c` reads a stream through `ic()` and gives back through `ungetc`; the
  string variants of `printf` and `scanf` are streams without a descriptor.

What is hard here: free lists kept by hand in the memory they describe, with
caches beside them (`max_free`, the chain of big blocks); pools that change
role; a restore that winds back roots but not memory; a realloc that lets go of
the lock in the middle; buffers that have to agree with a kernel's place that
several calls move; short writes; handlers that call back into the exit; a
name that another process takes between a look and an open; a directory that
changes under its reader; copies of a part of an automaton that have to keep
their tags apart.
`PROJECT.json` has each at its line under "hazards".

## 2. The modules

| module | what it is |
|---|---|
| `HeapSpec` | what a heap promises: live pointers with extents that never meet, each call about one of them |
| `NoosMalloc` | `noos/malloc.c`, threads interleaved at the lock; implements `HeapSpec` |
| `NumberFacts` | arithmetic of alignment, least and greatest members, induction |
| `NoosMallocProofs` | the theorems about `NoosMalloc`, that it loses no memory among them |
| `PoolMalloc` | `malloc.c` in the parent; implements `HeapSpec` |
| `PoolSizes` | `PoolMalloc` where no size is near half of all there are: what it takes for the blocks to fit |
| `PoolMallocProofs` | what each operation on the pools preserves, and the theorems about `PoolMalloc` |
| `VforkHeap` | `malloc.c` across a `vfork`, with the free lists in memory |
| `VforkHeapProofs` | the theorems about it |
| `ByteStream` | what a stream promises: one text and one place in it |
| `Stream` | a `FILE` over a file and the kernel behind it; implements `ByteStream` |
| `StreamProofs` | the theorems about it |
| `ProcessExit` | `exit`, the handlers and `system` |
| `ProcessExitProofs` | the theorems about it |
| `Files` | `mkstemp`, `mkdtemp`, `tmpnam` and `readdir` of several processes on one directory |
| `FilesProofs` | the theorems about it |
| `Fnmatch` | the loop of `fnmatch`, and the language of a pattern |
| `FnmatchProofs` | the theorems about it |
| `Numbers` | `strtol` and its kin on small integer types, and what C says of them |
| `Sorting` | heap sort and binary search, and what they promise |
| `Strings` | memory moved in bytes, words and runs of words; the string functions |
| `Printing`, `Scanning` | `vfprintf` and `vfscanf`, and what C says of them |
| `Mounts` | writing, reading and searching mount table entries |
| `Calendar` | `tp2tm`, `mktime`, `strftime` |
| `Arithmetic` | bit counts, division at the ends of the floating range, `strtod` |
| `Regparse`, `Regcomp`, `Regexec` | a pattern to a tree, a tree to a tagged automaton, the two matchers |
| `Regex` | what a regular expression means, and that the three find it |
| `MC*` | instances for TLC |

A definition headed "Fault" is a plausible bug of the definition that follows
it. No specification uses it; replacing the definition by it has to break the
property `PROJECT.json` names with it, which shows that the property watches
that code.

### NoosMalloc

`heap.size` maps a chunk's address to its size word and `heap.free` is the set
on the list (the list is sorted, so the set is the list). `blocks` maps a
payload to its chunk and the size asked for, which covers a `memalign` block
whose offset word leads back. `moves` is where a thread stands in a `realloc`
that has to move. A critical section is one action: `Memalign` (with
`malloc`, `calloc` and the others as alignment 8), `Free`, `ReallocShrink`,
`ReallocAbsorb`, `ReallocExtend`; the moving `realloc` is four
(`ReallocMustMove`, `ReallocAllocate` or `ReallocGivesUp`,
`ReallocRelease`), since it takes the lock anew for each part.
`ForeignSbrk` is the embedding program moving the break itself.

### PoolMalloc

`heap` is a record of the allocator's statics, its pools and the kernel's
pages; a pool's free list is a map from offset to size, with the chain of big
blocks as a set and `max_free` beside it, updated where the code updates them.
A call is one action, and each way through `malloc` is one: cached or fresh
mapping (`MallocLarge`), best fit in the retired pools (`MallocRetired`),
the current free list (`MallocListed`), bump (`MallocBump`), promotion of a
retired pool (`MallocPromote`), growth in place (`MallocGrow`), a new pool
(`MallocReplace`), and the three failures. An argument `r` says what the call
is part of, so that `memalign` and the moving `realloc` go through the same
actions. `Kernels` says what `mmap` and `mremap` grant.

A `size_t` has `WORD` values, and `Long` reads one as a `long` or an `int`: the
sum that rounds a large request up to pages wraps, its result is compared as a
signed number, and the size a header records may be negative
(`malloc.c` 785, 967, 1021, 1036). Sizes for which none of this happens are
those of `SizesAssumption` in `PoolSizes`, the module that the runs and the proofs
about blocks that fit extend; `MCPoolHuge` has the others.

### VforkHeap

The same allocator for small blocks, but with memory: `word` holds what lies
at an address, the node of a free block or the header of a live one, since
what the restore gets wrong lies there. `Vfork` saves, `Resume` restores,
between them every call is the child's. `obuf` is the library's own block, the
buffer of `stderr`, which the first write to it allocates by the same steps of
`malloc`. A list, of free blocks or of retired pools, is what a walk along its
links meets (`Walk`, `Met`), as the loops of the code go.

`Prepared` is what `__stdio_vfork_prepare` sees to: without it a
child whose first message fails to exec would leave the parent with a buffer
in memory that the restore takes back (`stdio.c` 91-96). That is still so of
`stdout` and `stdin`, which nobody prepares. `Kept` drops words nobody can reach
any more, which keeps the state space small and changes no step.

### Stream

`fp` is the `FILE`: pushback, unread and pending bytes, what kind of buffer,
flags. `file` is the kernel's open file. Every call is an action; inside one,
operators give the set of outcomes (the kernel may fail, write part, or read
part at each of the system calls the code makes), so `Flush`, `Fputc`,
`Fwrite`, `Ic`, `Fread` compose as the C functions do. The loops of `fputs`,
`fwrite`, `fgets` and `fread` are one operator, `Loop`, given a turn of the
loop: a recursive function of the number of turns, whose values are the sets
of outcomes so far, those that ask for another turn among them. So a loop can
be reasoned about by induction over its turns. `turn` is the caller's
discipline that C demands between reads, writes and seeks; `did` is the last
call with the bytes it moved, which is what `ByteStream` judges. `lost` is
set when a flush fails: from then on nothing is promised until the stream is
reopened, because the buffer may have gone out in part. `GetDelim` is
`getdelim` with a line of its own that it doubles: each `realloc` may fail,
before the first byte or after one has been read that has no place to go. Such
a call is "lose" in `did`, with the bytes it has used up, and `ByteStream`
moves the place over them.

### ProcessExit

`at` is where each process stands, the parent and the child of `system`;
both work on the same `registered`, `fini` and `unwritten`. The functions that
`exit` calls are the program's own code: they may register, print, call
`system` and `exit` again. `Flush` is an `fflush` of both streams of which any
part may fail: what a failed write keeps stays in the buffer, though the kernel
may have some of it, and `failed` says that this has happened. `exit` does not
look, so what is still there goes with the process, or, in a child on the
parent's memory, is sent by the parent a second time.

### Fnmatch, Numbers, Sorting

`Fnmatch` is a state machine: `p`, `s`, `starP`, `starS` and `leading` are the
function's variables, and one turn of its loop is one action, an action for
each way through it. A pattern is a sequence of items. Case is folded with
a parameter `Lower`. `Describes` is the textbook recursion on every `*`, which
`fnmatch.c` 13-18 explains it avoids: `Describes[i]` is the set of places in
the string from which the items from `i` on match the rest. It is written as a
recursive function of the item and not as a recursive operator, so that it can
be reasoned about; what one item takes is `Takes`, what a star takes
`StarTakes`, where a pattern may end `EndPlaces`.

`Numbers` and `Sorting` have one operator for each C function, with the loops
as recursive operators. A `long` has `LBits` bits and a `long long` `LLBits`,
so that all texts up to some length reach past every boundary; unsigned
arithmetic is modulo `2^w`. `strtol` and `strtoul` narrow the wide pair, as
they do in the code. `MCLibrary` has these and the functions below in one
specification, in which `call` is the call that is made.

### Strings, Mounts, Calendar, Arithmetic

Memory is a function from addresses to bytes; a copy is the sequence of moves
of a byte or a word the code makes (`Pieces`), each a read followed by a
write, so that overlap, alignment and direction matter as they do there; a
fill is its sequence of stores (`Blocks`), each where the last one ended.
`Mounts` has the escapes of `addmntent`, `fgets` with its `LineSize`, and the
splitting of a line. `Calendar` keeps the code's way of counting the 29th of
February by hand. A float in `Arithmetic` has `Precision` bits and both ends
of the range, with infinities and NaN; every operation rounds to nearest, ties
to even, overflows and underflows, and a quotient of finite numbers has to be
near the exact one wherever that is in range (`IsNear`). `strtod` keeps at most
`MaxDigits` digits in an integer, makes it a double of `DoubleBits` bits and
multiplies or divides by exact powers of ten, `LastPower` at a time, each with
a rounding (`ScaledBy`). `IsFloat` wants the double nearest to the text where
one rounding is enough, as `stdlib.c` 230-232 says, and a unit in the last place
for each rounding more.

### Printing and Scanning

`Printing` has one operator for each stage of `vfprintf`: the flags, `oint`,
`ostr`, `fmt_build_fixed` and the choice of `%g`; integer types have two to
six bits. `PrintsRight` compares every float with what C says, and the
integers wherever `FollowsC` has the code do the same as C; the rest is listed
under "Disagreements". `Scanning` reads a text through a cursor with one place to push back
to, so that "one byte ahead" is visible. `ReadsBack` joins them.

### Regparse, Regcomp, Regexec, Regex

`Regparse` is the parser with its explicit stack of what comes next;
`Regcomp` adds tags twice (once to count, once for good), expands bounded
repetitions into copies, and computes first and last positions and the
transitions, with tags, assertions and minimal tags; `Regexec` runs the
automaton over all paths in parallel, or over one after the other where there
are back references, ordering matches by their tags. `Regex` has the trees,
their spelling in both syntaxes (`Written`), the set of all ways in which a
tree matches (`WaysFrom`), and the properties: a match is found if and only
if there is one, it is as far left and as long as can be, the groups reported
are those of one way to match, and both syntaxes give the same result.

### Files

`dir` is the directory, places that hold a name and its makers; `call` is
where each process stands in a call, `tmpid` and `tmpnam_counter` are its
counters, `template` the end of its buffer, `tried` the names it found taken,
`given` those it has of `tmpnam`; `reader` is a `DIR` with its buffer. Each
system call is an action, and the other processes' lie between them:
`Mkstemp` (or `MkstempInvalid`), then `MkstempExists` as often as the loop
runs, until `MkstempMakes`, `MkstempGivesUp` or `MkstempRefused`; `Tmpnam`, then `TmpnamExists` or `TmpnamReturns`, and the
program's open, `OpenNamed`, some time later; `Readdir` out of the buffer or
after a `getdents` that gives one entry or more, none, or fails. `Unlink` is
anybody's.
The number in a name of `tmpnam` is a constant operator, `Token`, of which only
`TokenAssumption` is known; the run gives it the exclusive or of the code, in
three bits (`XorToken`).

## 3. The runs

| run | bounds | states | shows |
|---|---|---|---|
| `noos` | 2 threads, sizes 0, 4, 7 and one too large, alignments 2 and 4, heap of 23 words, foreign break moves of 7 | 70 thousand | chunks apart, merged, owned once, aligned, tiled; moves pinned; `HeapSpec` |
| `pools` | 3 blocks of 2 or 10 words, 3 pages of 16, a kernel that resizes and one that does not | 43 thousand | blocks apart, counts exact, never page-aligned, best fit equals a full walk; `HeapSpec` |
| `mappings` | 2 blocks of 6, 12, 28 words, alignments 2 and 4, 4 pages, cache of 48 | 95 thousand | pages owned once, the cache's among them, blocks fit |
| `vfork` | 3 blocks of 2 or 10 words and a buffer of 2 for `stderr`, 3 pages | 294 thousand | lists sound while shared, the parent's blocks and the buffer of `stderr` kept, its pool counts right after |
| `streams` | bytes 0 and newline, buffers of 2 and 1, files up to 3, calls up to 3 bytes, lines of 1 and 2, `w+`, `a+`, `r+` | 145 thousand | buffers do not show, read-ahead fresh, end of file true, seeks land |
| `exit` | 3 handlers for 2 places, 2 fini functions, 2 prints, 2 calls of `system`, flushes that fail | 88 thousand | called once, nothing left unless a flush failed, the exit ends |
| `files` | 2 processes, 3 names of `mkstemp`, 8 of `tmpnam`, 2 and 3 attempts, counters to 5, 3 places, buffer of 2 entries, `getdents` that fails | 630 thousand | every file of `mkstemp` has one maker, attempts are on different names, no name is given twice to a process, a listing that comes to its end has every entry that stays |
| `library` | see below | 5.8 million | each pure function agrees with its definition |

`library` makes one call in each behaviour, of one of these families:

- `fnmatch`: patterns up to 4 items, strings up to 3 characters, 16 sets of
  flags, a turn of the loop to a step;
- numbers: `long` of 3 bits, `long long` of 4, texts up to 4 characters, 5
  bases; arrays up to 5 of 4 values;
- strings: `memmove` and `memset` between all alignments 0 to 11 with sizes 0
  to 17, and sizes from 128 to 300 that take whole runs of words; all pairs of
  short strings;
- `printf`: each integer conversion with all sets of flags, widths both ways,
  precisions absent, empty and given, four sizes and all values of the small
  ones; floats `m * 10^e` whose rounding carries; `vsnprintf` into 0 to 6
  bytes with `%n` at each place;
- `scanf`: texts up to 4 characters for the integers, formats up to 3
  directives, and what `printf` wrote;
- mount tables: fields up to 2 characters among blanks, backslashes,
  newlines and `#`, before and after lines of noise;
- dates: every day next to the ends of months, years and Februaries from 1970
  to 2037, in three zones;
- arithmetic: all words of 8 bits; quotients of complex numbers made of
  zeros, subnormals, ordinary numbers, the largest, infinities and NaN; decimal
  texts with more digits than are kept and exponents beyond both ends of a
  double of five bits;
- regular expressions: a group of two pieces (letters, brackets, stars,
  intervals), itself repeated, with a piece before or behind; groups in
  groups; anchors; back references; ranges and their complements; over all
  texts of `a` and `b` up to 3 characters.

Addresses and sizes are words of four bytes. `ALIGN`, `HDR`, `LONG` keep the
values of the 32-bit target; pages, pools, `struct mset` and the thresholds
are scaled down with each other so that each threshold is crossed: there are
blocks below and above `RETIRED_FIT_MIN`, requests on both sides of the
mapping limit, pools that fill, retire, drain and are promoted, and a pool
that grows over a page boundary.

Why these bounds suffice. A heap of 23 words holds five smallest chunks, so
that there is a free chunk with both neighbours in use, free, or one of
each, and the size that cannot be had makes every call fail once. Three
blocks are the least that make a pool retire, stay on the list and be promoted
with another between. Buffers of two make "empty", "room", "full" and "the
next byte fills it" distinct, and three bytes of file are one and a half
buffers. Three handlers are one more than the table holds, so that a place is
taken again while handlers are called. Four items hold two stars with
something to match after each, which is the least at which it could matter
that only the last star gives way. Three digits or a sign and two pass every
limit of both integer types in every base, and with the prefix `0x` one digit
passes those of three bits. Five elements make a heap of three levels. The
word copy of `memmove` has a period of 4 in both alignments and takes single
bytes below 16, so 0 to 11 and 0 to 17 see each combination; 128 is where runs
begin. Three attempts of `tmpnam` and two of `mkstemp` fail, succeed at the
last and succeed at once; a counter that goes to 5 gives names to more calls
than there are tokens that differ; doubles of five bits hold no number of three
digits exactly and the powers up to 10^2, as those of 53 hold none of 19 digits
and the powers up to 10^22; a buffer of two in a directory of three
needs a refill, with entries before and behind it. A text of three letters
lets a repeated group with two pieces come around once more, which is when its
tags have to be those of the last time. The three scenes of `files` (names of
`mkstemp`, names of `tmpnam`, a reader with one creator) are kept apart
because their names never meet, which buys longer behaviours in each.

Deadlock is checked where the system cannot stop of itself (`pools`, `exit`,
whose final state loops). In `noos` no call can
succeed any more once other users of `_sbrk` hold all that is left; in `vfork` the model
ends with the window; in `streams` a closed stream whose disk is full may stay
closed; in `files` the counters come to their bound; `library` ends with the
call.

### Disagreements

Four runs check what the source says of itself and find it violated:

| run | the source says | the code does |
|---|---|---|
| `pool_alignment` | "malloc promises 8-byte alignment" (`malloc.c` 1061) | skips a page-aligned pointer by `sizeof(long)`, 4 bytes on the target |
| `pool_overflow` | "malloc must never hand back a block that overruns its mapping" (`malloc.c` 125-126) | adds header and page mask to the size in `size_t` (785): next to `SIZE_MAX` the sum wraps, and one page is mapped |
| `vfork_restored` | "prevents child from corrupting parent's pool state" (`malloc.c` 316) | the restored head leads to a node the child's header lies over |
| `regex_search` | the matcher with back references "goes through all possible paths" and chooses the best (`regexec.c` 472-475) | once its stack is empty it goes on to the later places of the string only if the path that failed last has not read to its end (`regexec.c` 888): `(a*\|a)b\1` is not found in `ab` |

Modelling also met behaviour that C would have otherwise, or that surprises,
but of which the repository says nothing (but for `getdelim`, where no run of
its own shows it). The models follow it, and the properties are stated so as
not to promise more:

- `malloc.c`: after a failed map (716) there is no current pool and every
  later small `malloc` fails, whatever the retired pools hold; `take_block`
  (480) hands out with a block a rest too small to list; a restore does not
  give back a pool that the child retires, and where the parent's current pool
  is empty at the `vfork` the child may have had it unmapped, so that the
  restore writes to it (349) and makes it current again (in `VforkHeap` the
  write is without effect, since no pool is there).
- `stdlib.c`: the child of a `system` that cannot exec calls `exit`, not
  `_exit` (78): it calls the parent's handlers, takes them off the parent's
  table and flushes the parent's buffers. `exit` ignores a flush that fails:
  what the parent's buffers keep is lost, what a child's keep is sent again.
- `stdio.c`, streams: `fseek` with `SEEK_CUR` moves from the kernel's place,
  not the reader's; `ftell` takes no account of a byte pushed back; `fclose`
  and `fseek` do not look at a failed flush; a flush cut short sends its first
  bytes twice; `getdelim` without memory for its line returns -1 with neither
  flag set (1172), so that `ferror()` does not tell it from the end, as
  1186-1187 has it, and what it has read is lost; `setvbuf` without memory
  leaves a size with no buffer (the model lets such a stream be read only).
- `vfprintf`: a precision of an integer takes the place of the width, pads
  with zeros, and cuts longer numbers (`%.2d` of 1234 is `12`); `#` is decided
  before the value is cut to its size (`%#hhx` of 256 is `0x0`); `%.f` has six
  digits; `inf` is padded with zeros; `%n` counts stored bytes only.
- `vfscanf`: `0x` without a digit fails with both characters consumed, as
  there is one place to push back to.
- strings: `strncasecmp` returns 0 when one string ends first; `strrchr` does
  not find the terminator; `strstr` in an empty string looks beyond it.
- mount table: a field that begins with `#` is read back as a comment; a line
  longer than the buffer is read as several; a missing field is a default.
- files: two processes may be given the same name by `tmpnam`, and both open
  it; `fdopendir` without memory closes the caller's descriptor; a `readdir`
  that fails returns what it does at the end, so that only `errno` tells a
  listing that was cut off (`reader.null` has the difference, and `ListsAll`
  promises nothing of it).
- time: times before 1970 and fields `mktime` would have to normalise come out
  wrong, and its `int` product overflows in 2038; `strftime` looks at the room
  left between conversions only. `ilogbl` of a subnormal is one too high;
  `strtod` without digits puts `endptr` behind blanks and sign.
- regular expressions: where one end can be reached in several ways the search
  may begin later than the first (`a*([ab]{2}|a)` on `baa` finds 1 to 3; hence
  `tied` in `IsMatch`); a part that can match nothing keeps one of its empty
  paths only, so `(^|x)*b` and `((a{2})*b)*` lose matches; the group of
  `(a){0}b` is reported as empty. Such trees are not among those of the run.
- `exit` inside a fini function skips the remaining ones.
- `fnmatch`: a leading dot under `FNM_PERIOD` is matched by `.` but not by
  `\.` (130 looks at the pattern's character), though that is a literal dot as
  well; `IsDot` says so for both the loop and the reference.

### Fairness

Only `ExitEnds` needs any. `Fairness` is weak fairness of the steps `exit`
takes by itself (`CallFini`, `FiniDone`, `CallHandler`, `FlushAndGo`), of the
child of `system` (it execs or it does not), and of a called function coming
back or calling `exit`: the code has no wait of its own and a process that can
run does. Nothing is assumed of `main`, which need not exit. That the loops of
`Files` end needs none either: `TemporaryNames` has a call give up after its
attempts, each on another name. That
`fnmatch` ends (`FnmatchEnds`) is a bound on its turns, which is proved.

## 4. The proofs

`NoosMallocProofs` proves, for every heap size, request size, set of threads
and every foreign move of the break, from `NoosMallocAssumption` alone:
`TypeCorrect`, `NoOverlap`, `AlwaysCoalesced`, `Ownership`, `PayloadsFit`
(with alignment), `MovesStayPinned`, and `Refinement`, that the heap
implements `HeapSpec`.

The inductive invariant is `Inv`: `InOrder(heap, brk)` (sizes positive, chunks
apart, below the break, aligned, and free neighbours merged), `BlocksOK` (the
chunks in use and the live blocks correspond one to one and hold what was
asked), typed `moves`, and `MovesPinned`. None of its parts is inductive
alone. That `Release` keeps chunks apart needs them ordered; that it keeps
them merged needs them merged before, since it looks at one neighbour on each
side only; that no block loses its chunk to a merge needs ownership; and that a
moving `realloc` may free its old block needs `MovesPinned` for all the other
threads.

The argument has three layers: `NumberFacts` (sums, differences and round-ups of
multiples); a lemma for each operation on a heap value (`ReleaseKeeps`,
`SplitKeeps`, `TrimKeeps`, `TakeFitKeeps`, `TakeTopKeeps`, `TakeBreakKeeps`)
and each change to the blocks (`AddBlock`, `DropBlock`, `ResizeBlock`); a
lemma for each action (`MemalignStep`, ..., `ForeignSbrkStep`), which combine
in `InvNext`. The refinement maps each action to `Allocate`, `Release`,
`Resize` or a stutter with `Inv` before and after.

The second part of it adds `NothingLost` (`Tiled`), on top of `Inv`. A heap value
covers the units its chunks hold; `ReleaseCovers`, `SplitCovers`,
`TrimCovers` and `AbsorbedCovers` say that merging and cutting leave what is
covered the same, so that only a step that moves the break can lose anything.
`Tiling` strengthens `Tiled` by one conjunct, that nothing counts as another's
before the break has passed it: without it a chunk grown over the break could
cover a unit already counted as outside. `TilesOn` is what a step may do
(leave all below the break, and have what the break moves over in a chunk or
outside), there is one lemma for each operation, and `TilesOnKeeps` makes
`Tiling` of it.

`ProcessExitProofs` proves, for every set of handlers, every size of the two
tables and every number of prints and calls of `system`, from
`ProcessExitAssumption` alone: `ExitTypes` (`TypeOK`), `EachOnce`
(`CalledOnce`) and `AllDone` (`NothingLeft`). Its inductive invariant is
`Typed`, `Shared` (a handler that has been accepted is registered once or has
been called once, never both), `FiniOnce` (the fini table is untouched, or it
is one process's to go through and what is left of it has not been called),
`Stands` (where parent and child can be, and that a parent that is gone leaves
no handler behind, and no byte unless a flush has failed) and `Counted` (written
and unwritten bytes are the ones printed as long as none has). `CalledOnce` alone is not inductive: a handler on the table
that had been called already would be called again, and a child reads the
same fini table as its parent, so that it is once only because the one that
reads it clears it (`FiniOnce`). There is one lemma for each action; `exit`
and the child that cannot exec share one, `BeginsExit`.

`FilesProofs` proves, for any number of processes, names, attempts, places and
entries to a buffer, from `FilesAssumption` and `TokenAssumption`: `OneMaker`
(`TemporaryNames`) and `Listing` (`ListsAll`), both of `Spec`, in which all
actions interleave, while the run keeps the three scenes apart. For the first,
`NamesInv` says of each process where its call stands: `Searching` (the
template is the last name counted, what was tried are the names of as many
counts before it, all different since they are less than `Names` apart),
`Probing` (the same from `tmpnam_counter` on), `GivenBefore` (every name given
lies below the counter, which is why the next one differs) and, for the
entries, `MadeOnce`. What others do leaves a process's part alone
(`SameInv`), and there is one lemma for each of its own steps. For the second,
`ReaderInv` has the places that were given below those left in the buffer, and
these below the descriptor (`InPlace`), and every place that stays given,
in the buffer or ahead (`Complete`): neither conjunct of `ListsAll` is
inductive without it.

`PoolMallocProofs` proves every property of `PoolMalloc` that the runs check,
for every set of sizes, alignments and kernels, every number of blocks and
every size of headers, pages, pools, classes and cache that
`PoolMallocAssumption` allows: `BlocksAlwaysApart`, `RefsAlwaysExact`,
`PagesAlwaysOwned`, `BlocksAlwaysFit`, `NothingPageAligned`,
`BestFitAlwaysAgrees`, and `ImplementsAHeap`, that the allocator implements
`HeapSpec`. They are theorems of `PoolSizes`: `SizesAssumption` keeps the sums
of sizes, headers and pages within half of a `size_t`, and `LargeTotalIs` has
from it that `LargeTotal` does not wrap. Without it the theorems are false, as
`pool_overflow` shows. Beyond what the runs need, the assumption says that a `long` is no
larger than the alignment `malloc` promises (`LONG <= ALIGN`): an aligned block
keeps its raw pointer in the `long` below its header, and the gap below the
first aligned address has to hold it. It is 4 or 8 bytes against 8.

The inductive invariant is `Inv`, which `Invariance` states of every
behaviour: `Headers(blocks)`, that each header is one `free` can follow (a
pool block's offset leads to a base, a mapping is as long as its word says, an
aligned block lies in the block its word names, which no other is cut from),
and `Sound(heap, MappedBy(blocks), UsedOf(blocks))`, that the heap is in order
for what the headers say is live. `Sound` consists of `PoolsOwn` (pools, large
blocks and parked mappings own disjoint runs of pages, and no page besides is
mapped), `Lists` (each pool is the current one, the spare, or on the retired
list once), `PoolSound` (free and live blocks of a pool apart, free ones merged,
`refs` the number of the live) and `RetiredSound` (the chain holds exactly the
big blocks, `max_free` bounds them all). The invariants the runs check are not
inductive one by one: that a block is freed into the right pool needs the
headers, that a retired pool's chain is right after an insertion needs the
list sorted and merged before it, that a drained pool may be unmapped needs
`refs` to count what the headers say, and that growing a mapping meets nothing
needs every other owner's pages accounted for.

The argument has three layers again. `PoolMallocProofs` begins with values: what
`Inserted` and `TakeBlock` do to a free list, what is on the chain afterwards
(`Chained` takes up behind the blocks the new one swallowed), what `Mmap`,
`Munmap`, `Mremap`, `CacheMap` and `CacheUnmap` do to who owns which page, and
that the bytes parked are the sum over the slots (by induction over the number
of slots). The second part is about the heap in the middle of a call, when a
pool may be on no list: `Good` is `Sound` with the current, the spare and the
dangling pools as parameters, and there is one lemma for each of the
operations, from `FreelistInsert` and `TrimEnd` to `Retire`, `SetAside`,
`Promoted`, `PoolGrow` and `NextPool`. The third adds the program:
every way through `malloc` makes a block where there was none (`Made`), hands
it or an aligned block cut from it out, and releases the old one if the call
is a `realloc` that moves (`Served`); `ServedKeeps` and one lemma for each of
the other actions combine in `NextKeeps`. For the refinement, `HeldApart` has
the extents of the blocks the program holds apart, raw or cut, and each action
is an `Allocate`, `Release`, `Resize` or `Move`, or a stutter when it fails.

`VforkHeapProofs` proves every property of `VforkHeap` that its passing run
checks, for every set of sizes, number of blocks and size of headers, pages
and pools that `VforkHeapAssumption` allows: `VforkSoundWhileShared`,
`VforkParentBlocksKept` and `VforkResumedCounts`. The assumption says of the
sizes what the source has: a `long` is no larger than the alignment, a header
smaller than a page (8 bytes against 4096), and the least pool a whole number
of pages (one), the largest a doubling of it (sixteen pages).

Here the lists are in memory, so the proof is about links. `WalkIs` says that a
walk along links meets a set of nodes if these lead only to each other and
come round nowhere (`Chained`); it serves both the free lists and the list of
retired pools. `Sorted` and `Laid` say of a pool's memory that its free nodes are
linked in the order of their addresses and lie apart from each other and from
the live blocks; `LinkedIs` and `TakenIs` that `freelist_insert` and
`take_block` keep it so and write nothing outside of the pool. `Ready(h, w, L, R, D)`
is a heap in order for the live headers `L`, with the pools that may hold
blocks given apart from the fields that name them: `R` on the retired list and
`D` besides, because in the middle of `old_pool_take` or `free` a pool with
live blocks is on no list. There is one lemma for each operation (`TakeReady`,
`InsertReady`, `BumpReady`, `RetireReady`, `SetAsideReady`, `MkPoolReady`,
`PromotedReady`, `FreedReady`, `TrimmedReady`, `KeptReady`), each with what it
leaves of the words of the blocks held before.

The inductive invariant, `Inv`, has the heap `Ready` for all blocks of both
(`Held`) while both may run. In the window it adds `Lent`: what is saved counts the
parent's blocks in the pool that was current and bounds them, there is no
spare to come back to, and the child's current pool is that one or holds
nothing of the parent's. `VforkSoundWhileShared` needs `Held`
alone, the other two need `Lent`. That the restore
may unmap the child's pool is the last part of `Lent`, and it holds
since `old_pool_take` finds nothing in the window and `mk_pool` gives an empty
pool (`Fresh`); that the wound-back count is right is the first part, and holds
since the child frees none of the parent's blocks; that a retired pool of the
parent's never goes is that it counts a live block. `ResumeKeeps` puts these together.
After the restore only what is kept is claimed: `SoundAfterwards` is false.

`FnmatchProofs` proves, for every pattern, string and set of flags, from
`FnmatchAssumption` (a literal item is one character, and `tolower` makes a
slash of nothing else): `AlwaysAgrees` (`FnmatchAgrees`), that the loop, which
goes back to its last star only, finds a match exactly when there is one, and
`AlwaysEnds` (`FnmatchEnds`), that it does so in no more turns than places in
the pattern times places in the string, their ends included.

`FnmatchAgrees` speaks of the end only. The inductive invariant says what is
left to find while the loop runs (`Good`): there is a match if and only if the
present items match from the present character, or the last star may end
later than it does (`Found`). That the earlier stars need not be gone back to is
`LastStar`: whatever a later end of the last star still finds comes by the
present item, in the same segment. `LeadingIs` is about `leading`, which may
say that a segment begins where none does; it does so only when nothing is
left to be found, which takes the rest of the invariant to see.
`Placed` has the star and the present place advance together. What a run of
stars matches (`StarRun`, `StarsAtEnd`) is by induction over the items. The
bound needs more than to count turns: `Budget` says that the turns so far are
paid for by pairs of an item and a character (`Spent`), a turn that goes back
by the character the star takes (`BackPays`), a new star by the items before
it, of which none comes up again (`StarPays`).

`StreamProofs` proves every property of `Stream` that the run checks, for every
set of bytes, every size of the buffers, the file and the calls, and every set
of modes, from `StreamAssumption` alone: `StreamTypeOK`,
`StreamReadAheadFresh`, `StreamEofMeansEnd`, `StreamSeeksLand`, and
`StreamImplements`, that a stream implements `ByteStream`.

The inductive invariant, `Inv`, is `Goes(Now, turn, did)`. It consists of `Sound`
(types; sizes; and `Ahead`: unread bytes are those before the kernel's place, a
byte pushed back is the one before these, the end was found where there is
no more, and output waits only where no input is in hand), `Roomy` (there is
room for one more byte), what `turn` says of the buffers (output waits only
when it is `out`, input only when it is `in`), `LastRead` (the last byte that
`did` has is the one before the place) and `Landed`. The properties alone are
not inductive: that a read after a write does not return what was read before
needs the buffers never both full, which needs the caller's discipline;
that `ungetc` moves the place back by one byte of the same text needs
`LastRead`; that a byte pushed back is fresh needs it to be the file's.

A call is a composition of sets of outcomes, so the argument follows the code
bottom up. `Wrote(s, t, d)` says that the way from `s` to `t` put the bytes `d` at
the place (or lost some), `Took(s, t, d)` that it read them there; both
compose, and there is a lemma for each operator: `FlushGives`, `FputcGives`,
`FwriteGives`, `IcGives`, `GetLineGives`, `GetDelimitedGives`, `FreadGives`. A loop keeps what each turn
keeps (`LoopsExist` and the lemmas behind it, by induction over the turns).
Texts laid over one another are compared byte by byte: that a full buffer
written out and another behind it are one write (`OverlayTwice`)
is the heart of `StreamImplements`. A `getdelim` that fails for want of memory
has taken bytes that nobody is given, and there the abstract stream only says
that the place has moved over them. Then there is one lemma for each action
that it ends in `Goes` and that `Follows` holds of the step, which is
`ByteStream`'s next-state relation in terms of the two states.

Only model-checked: the pure functions other than `fnmatch`, which follow
loops with recursive operators, which the prover cannot reason about; that
exclusive or satisfies `TokenAssumption`,
which is about bits (TLC evaluates it); and `ExitEnds`, as liveness is beyond
the prover.

## 5. What the models leave out

- `NoosMalloc`: `calloc` is `malloc` and `memset`; contents of blocks are not
  modelled, so that `realloc` copies is not checked.
- `PoolMalloc`: contents as well; a kernel that maps anywhere
  but at the lowest free run; a `calloc` whose product wraps; an `int` smaller
  than a `long`, as on x64, where a recorded size is cut rather than read as
  negative. No run asks for sizes around half of `WORD`, where signed sums of
  the code overflow.
- `VforkHeap`: blocks of `RETIRED_FIT_MIN` and more, mappings and `realloc`
  in the window, a child that frees its parent's blocks (which `vfork` does
  not allow), the buffers of `stdin` and `stdout`, and a second `vfork`; so the leak of a pool that a child
  retires is seen as lost pages but has no property.
- `Stream`: streams over memory, `popen`, and calls in an order C leaves
  undefined.
- `ProcessExit`: what handlers print beyond a count; signals.
- `Fnmatch`: how a bracket expression and a backslash are spelled (ranges, `!`,
  an expression left open, `FNM_NOESCAPE`): an item is the set it stands for,
  and `ItemHits` is shared by the loop and the reference.
- `Numbers`: bases above 16, capital letters, `atoi` of another width than
  `atol`; undefined overflow in these two wraps.
- `Sorting`: how `swap` copies an element in parts, and comparison functions
  that are no order.
- `Printing`: `%e` by itself, what the floating arithmetic of
  `fmt_build_fixed` loses, a lone `%` at the end of a format.
- `Strings`: `strdup` and its like, `strerror`, byte swapping, assembly of
  other machines.
- `Calendar`: times before 1970; `Arithmetic`: `complex.c`; the last digits
  of quotients, of which only nearness is asked; a decimal exponent that
  overflows `int`.
- `Regparse` to `Regexec`: a failed allocation, approximate matching,
  collating and equivalence classes, `regerror`; trees of the shapes named
  above.
- `Files`: what `open` says other than yes, "exists" and no.

## 6. Plan

Done: the heaps, the vfork window, streams, the exit, temporary files and
directories, the pure functions; proofs of both heaps, of the vfork window, of
the streams, of the exit, of `Files` and of the loop of `fnmatch`. What is left,
in order:

1. `realloc` and mappings in the vfork window, and the buffers of `stdin` and
   `stdout` there.
2. Streams over memory, refining `ByteStream` as files do, with `Printing` and
   `Scanning` on top.
3. The spelling of brackets in `fnmatch`, `%e`, times before 1970.
