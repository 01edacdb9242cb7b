# SadLayer in TLA+

SadLayer loads 64-bit Windows images on Linux and runs their entry point in a
worker process, with its own KERNEL32. This directory models the parts of it
that keep state and that threads, signals, failing system calls or other host
processes can disturb. `PROJECT.json` lists the components, the runs, the map
from definitions to source lines, the hazards and the theorems. Sources are
named relative to the repository root (`src/loader.c`); the map writes
`src/src/loader.c`.

## 1. The system

| Component | State | Operations | Hard parts |
|---|---|---|---|
| `handle_table.c` | slots with generation and record, spin lock, record counts, a tracker word with two counts that outlives the table | create, insert, acquire, lease release, close, prepare/complete clone, destroy | close and destroy race leases; destructors run outside the lock; caps are tested before they are used; the table is copied by `clone()` |
| `kernel32.c`, TLS/FLS | per slot: state, generation, callback (three atomics, no lock); per thread: a cell per slot | Alloc, Free, GetValue, SetValue | slot reused between two reads of one call; callbacks that call back |
| `context.c`, `teb.c` | host token, scope count, TEB pointer and ownership, last error; a chain of scopes per host thread | enter, leave, claim/release inactive; TEB create, attach, detach, destroy | two hosts on one context; every step of a creation can fail; last error moves between two places |
| `process.c` | reference count, PEB, module space, handle table, filesystem directory, standard handles | create, retain, release, destroy, adopt, set\_... | destroy against users; configuration is one-shot |
| `runtime.c` | parent: pipe, signal mask, stacks, references; worker: handlers, GS, TEB; one wire record | `run_trusted_worker` | signals anywhere, crash in the crash handler, a dozen failing calls, a parent that could wait for ever |
| `loader.c` (with `pe.c`) | mapped bytes, load base, page rights, seal | map, relocate, bind imports, finalize, unmap | malformed input after good input; mprotect fails half way |
| `module.c`, `module_space.c` | modules, aliases, owned images, bound flags | add PE/native/alias, resolve (name, handle, address, symbol), bind, finalize, destroy | forwarder cycles, shadowed names, failed additions |
| `search.c` and Find* | open directory, record buffer and offset, exhausted flag, spin lock | FindFirstFileExW, FindNextFileW, FindClose | shared handles, directory changes during the search, renames and links during the walk, damaged records |
| `file.c` and its callers | one owned descriptor per file object | CreateFileW, WriteFile, WriteConsoleW, flush, seek, queries, CloseHandle | descriptor numbers are reused, writes are split or stopped |
| `kernel32.c` exceptions, with `win64_unwind.c` | per thread: the list of handler links; per process: the unhandled filter | RaiseException, RtlUnwindEx, SetUnhandledExceptionFilter | handlers that raise or unwind inside a walk and abandon host frames; damaged frames; flags the guest can edit |
| `win64_unwind.c`, virtual unwind | none: registers and unwind records in, the caller's registers out | function lookup, chain validation, unwind from prologue, body, epilogue, leaf | every instruction boundary counts; two record versions; chains; frame registers |
| `unicode.c` and the code pages of `kernel32.c` | the command line in two forms | both directions, strict or lossy, query or conversion | sizes counted in one pass, written in another; overlong forms and surrogates; undefined bytes |
| `kernel32.c`, heap and environment | a header per heap block; a locked list of environment blocks | HeapAlloc, HeapReAlloc, HeapFree; Get/FreeEnvironmentStringsW | zeroing after a shrink in place; two threads free one block |
| `kernel32.c`, the rest; `pe.c`; `main.c` | see section 6 | | not modelled |

Everything guest-visible is reached through the handle table, whose users are
files and searches: a call acquires a lease, works on the object outside the
table's lock, and releases the lease; CloseHandle and FindClose only remove the
handle. The runtime freezes the handle table around `clone()`, retains the
process, and in the worker creates a TEB and enters a context. A module space
is filled with the loader and the registry, and adopted by a process before any
context exists. `ModuleSpace` composes `Loader` with the registry and the
process; `Search` and `FileHandles` use the handle table by the promise that
`HandleStore` states and `HandleTable` is proved to keep. `ExceptionDispatch`
sees a frame as what a virtual unwind reports of it (its caller, its
establisher, its handlers); `VirtualUnwind` checks that this report is right at
every instruction.

## 2. Modules

A step is one access of shared memory, one system call, or, where a lock or a
single thread makes it indivisible, one call. Atomics are sequentially
consistent: the code's acquire and release orderings are not weakened further.
Definitions that are wrong on purpose are marked as mutants; each stands before
the definition whose plausible bug it is, and no specification uses them.

**HandleTable** (`handle_table.c`). Each thread has a `pc` through one call;
taking the lock, what a critical section decides on, its writes with the
unlock, and each atomic outside are separate. `refs` and `tracker` are the two
kinds of count, `issued` remembers every token given out. Objects are inserted
once. `MaxGeneration`, `MaxReferences` and `MaxTracker` are the 32-bit limits.
**HandleStore** is what `handle_table.h` promises: a handle names one object,
ever; close takes effect at an instant; an object is reclaimed once, after its
handle is closed and its last lease is back. **HandleTableRefinement** maps the
one to the other.

**LocalSlots** (`local_alloc` to `fls_set_value`). An actor is a thread's call
or the call its FLS callback makes (`MaxDepth`). `tenancy`, `stored`,
`registered`, `called`, `witness` and `disturbed` are history for the
properties. Generations wrap at `GenerationLimit` and skip zero; a generation
repeats after that many allocations, and the properties speak of the tenancies
before. `MaxAllocs` bounds the allocations.

**ThreadContext** (`context.c`, `teb.c`, references of `process.c`). One
process, several hosts, contexts, scopes and TEBs. A TEB page is its last
error word. The headers leave three duties to callers, stated as guards: a TEB
pointer is used only between its creation and its destruction (`MayUse`,
`MayDestroy`), and a process is not destroyed while a call that retains it is
on its way (`ProcessDestroy`).

**Worker** (`runtime.c`). Parent and worker take turns in any order; `Signals`
arrive at any step, up to `MaxSignals`. Kernel behaviour is external: blocked
signals stay pending, a handler runs with its mask and, under `SA_RESETHAND`,
once, small pipe writes are atomic, end of file needs every write end closed.
The worker sets its own masks by the raw system call, so they hold every
signal; `sa_mask` of its crash handler is made by libc's `sigfillset` and lacks
`ReservedSignals` (glibc's 32 and 33), which the reset gave their terminating
default (`Blocks`).
`waitpid` cannot fail for the only caller of the pid. The validation of the
image descriptors is one failing step. If the record cannot be written, `lost`
is set and the parent has the exit code alone.

**Loader** (operators of `loader.c`), **LoaderImage** (one image under any
sequence of calls). Memory is a function from pointer-wide cells to numbers
modulo `AddressSpace`; the relocation directory is a row of cells that pack
kind and rva, one kind being a malformed block. Where mmap puts an image, what
the resolver answers and which mprotect fails are free choices.

**ModuleSpace** (`module.c`, `module_space.c`, adoption in `process.c`). Names
are spellings with two maps, case folding (`Fold`) and the suffix that
`parse_forwarder` adds (`WithDll`); a key is an export name or ordinal. A symbol
is resolved by a function on the depth that is left for forwarders. mmap grants
a range that overlaps none it gave out before (`Grants`), and munmap takes a
range back. One space at a time. `process.h` asks for adoption before any reference is
published, so its checks and stores are one step.

**WildcardMatch** (`wildcard_matches`). One call, a step per iteration, from
every pattern, name and case mode; compared with the recursive matching
relation. **SearchPath** (`normalize_pattern`, `open_search_directory`). A path
is a sequence of components; between two `openat` calls another process may
rename a directory or plant a link, below the root, `MaxMoves` times.
**Search** (`search_next_locked` under the Find calls). A pattern is the set of
names it matches; a directory gives each record one of the kinds the code
tells apart; names are not created a second time.

**FileHandles** (`file.c` under its callers). The host hands out the lowest
free number. A byte is the pair of its call and its index, so order, loss and
repetition are visible. A write interrupted by EINTR is a stutter. The
branches on the three standard pseudo handles and the host's file position are
left out.

**ExceptionDispatch** (`kernel32.c:1032-1224`, `win64_unwind.c:63-108` and
`1564-1695`). One guest thread. The stack is a sequence of guest frames and
host frames; a position stands for an address. A host frame is a running
dispatch or unwind with its own copy of the flags; its handler link is in that
frame, so `active` and `previous` are positions, and an unwind that drops the
frame leaves them dangling unless the code has reset them. Guest code calls,
returns, damages its frame, raises, unwinds to any frame or with a null target,
and returns any disposition with any flags written to the record; a handler is
guest code like any other. Abort ends a behaviour. Handlers that edit context
records (long jumps) are outside, as `docs/ARCHITECTURE.md` says.

**GuestFunctions** is the compiler's side, external: prologue, body, second
(chained) part, epilogue, and the records that describe them, or one damage to
them. **VirtualUnwind** (`sl_win64_virtual_unwind` and below) runs such a
function on a small stack and asks the unwinder before every instruction.
Stack addresses count words, code addresses bytes; instructions and unwind
codes are symbolic, so decoding bytes is left out while offsets, ranges and
lengths are kept. What a compiler may write is bounded as the unwinder expects:
pushfq only together with a push and in version 2, machine frames only in
version 2, with an error code only without pushes (an epilogue's offset cannot
tell whether the error code is still there).

**Conversion** (`unicode.c`, `kernel32.c:1281-1648`). Bytes, units and code
points are the real numbers. A behaviour queries the size of one source and
converts with a buffer of that size, one less or one more, or sets the command
line. The code page tables are cut to their first three entries. Sources have
explicit lengths, and argument checks are left out.

**GuestMemory** (`kernel32.c:300-388`, `1658-1820`). One heap block with its
bytes beside `view`, what the guest may rely on; and environment blocks, one
step per access of the list, the lock and the allocator.

## 3. Runs

Each property is a conjunction of named parts, defined at the end of its
module; the parts carry the detailed comments.

| Run | Properties | Instance and what it reaches |
|---|---|---|
| `handle_table` | TypeOK, NoUseAfterFree, CountsExact, CloneIsQuiescent, TokensAreNeverReissued, ImplementsStore, ImplementsFairStore, LockIsReleased | 2 threads, 3 objects, 1 slot of 2 generations: full table, insertion into a retired slot, both caps, destroy under leases; every behaviour is one of `HandleStore`, with its fairness. No symmetry, for liveness is checked. More threads and slots are covered by the proof |
| `local_slots` | SlotsAreConsistent, AnswersAreTruthful, FlsCallbackIsExact | 2 threads with callbacks one level deep, 1 slot, 3 allocations: enough for a free and two reallocations inside one get or set, and for a wrap |
| `thread_context` | ContextsAreSafe, TebsAreSafe, LastErrorSurvives | 2 hosts, 3 contexts (one without a process), 2 scopes, 2 TEBs; counters reach their maxima |
| `worker` | ReportIsTruthful, NothingLeaks, GuestIsSafe, EndedWorkerIsReaped | 3 signals of two crash kinds, an ordinary one, one that libc reserves and SIGKILL; exit codes that look like reports; repeated calls |
| `module_space` | SpaceIsConsistent, SymbolsAreStable, BoundImportsAreCurrent | 2 images with one preferred base and forwarders in a cycle, 3 native tables, 4 spellings, capacity 2, depth limit 2 |
| `search` | SearchesAreSafe, EnumerationIsExact, ClosedSearchIsDestroyed | 2 threads, 1 search, 4 entries, buffer of 2 records, a damaged record of each kind |
| `file_handles` | DescriptorsAreSafe, WritesAreTruthful | 2 threads, a console and a disk file, writes of up to 2 bytes, 2 calls |
| `exceptions` | LinksAreLive, WalksAreExact, FlagsAreTruthful, WalksEnd | 6 frames, host and guest: two guest frames, a walk, its handler, and a second walk with a handler of its own; walks of 2 frames, so that the depth limit is reached; functions with either kind of handler, and leaves |
| `algorithms` | MappingIsExact, CallsAreAllOrNothing, WalkIsConfined, OpensWhatWasWritten, MatchesExactly, CallerIsRecovered, EstablisherIsStable, QueryIsExact, ConversionIsFaithful, GuestMemoryIsSafe | see below |
| `wildcard_star`, `exception_termination`, `undefined_bytes` | StarIsImplemented, AbandonedFramesAreTerminated, UndefinedBytesAreNeverWritten (all violated) | see section 5 |

`algorithms` (`MCAlgorithms`) puts six components that share no state into one
run: a behaviour picks one, the variables of the others stay in an initial or an
idle state, so the state space is the sum of the six. The properties of the
loader, the path walk, the matcher and the guest memory are checked as their
modules state them; those of the unwinder and the converters, which are
instantiated, only on their turn.

* `LoaderImage`: 11 images, each good or bad in one way; 3 bases, wrapping
  deltas, shared pages.
* `SearchPath`: paths up to 4 components, 2 moves: a directory is replaced by a
  link out of the root while it is being walked.
* `WildcardMatch`: patterns up to 4, names up to 3 units over two letters that
  fold together, the dot and the star: two stars with a unit between and
  behind, so that backtracking to the wrong star shows.
* `VirtualUnwind`: the 4,472 functions with up to three pushed registers (one
  with a two-byte push), flags or a machine frame, an allocation, saves, a
  frame register at offset 0 or 1, one or two table entries, both versions,
  return or tail jump, implicit or declared epilogue, and one of seven damages
  to the records; each at every instruction.
* `Conversion`: all sources of up to 4 bytes or 3 units over the values at the
  edges of every class the decoders tell apart (no U+FFFF: see section 5).
* `GuestMemory`: one block of up to 3 bytes; 2 threads and 2 environment
  blocks.

`search`, `file_handles`, `exceptions` and `algorithms` allow a quiet end
(everything used up or returned, the process aborted, the call answered); the
other runs check deadlock. Every property has a mutant in `PROJECT.json` that
violates it.

**Fairness.** HandleTable: a thread that has entered a call keeps running
(weak fairness of `Continue`; what it calls next is its own choice). Taking a
free lock is a step of that kind. Worker: only the parent, which is a host
thread inside one call; nothing is assumed of the guest, so EndedWorkerIsReaped
is about workers that do end, as `docs/ARCHITECTURE.md` has no timeout either.
Search: threads inside a call, and the handle table's release of what nobody
uses, which ImplementsFairStore shows. ExceptionDispatch: the host code of a
walk runs on; guest code may stop anywhere, so WalksEnd is about the walks
alone.

## 4. Theorems

Twelve components have safety proved with TLAPS, for every value of the
constants. Eight modules, named with `Proofs`, hold the proofs; three of them
cover components that are checked apart and share lemmas. Each component has
one inductive invariant, which holds initially and is kept by every action, one
lemma per action; the properties of the runs are derived from it. TLC checked
the invariants on the instance of the run before they were proved.

| Module | Component | Theorems | Of the run's properties, not proved |
|---|---|---|---|
| `HandleTableProofs` | HandleTable, HandleTableRefinement | TypeCorrect, LeasedObjectsAreAlive, CountsAreExact, CloneSafety, TokensStayUnique, LeasesAreNamed, Refinement | LockIsReleased, ImplementsFairStore (liveness) |
| `Kernel32Proofs` | LocalSlots | ConsistentSlots, TruthfulAnswers, ExactFlsCallback | none |
| | GuestMemory | SafeGuestMemory | none |
| `ThreadContextProofs` | ThreadContext | SafeContexts, SafeTebs, LastErrorKept | none |
| `WorkerProofs` | Worker | TruthfulReport, NoLeaks, SafeGuest | EndedWorkerIsReaped (liveness) |
| `ModuleSpaceProofs` | ModuleSpace | BootstrapIsConsistent, SymbolsStayResolved, ImportsStayCurrent | none |
| | LoaderImage | LoadedAllOrNothing, ProtectedExactly | the contents part of MappingIsExact |
| `SearchProofs` | Search | SafeSearches, ExactEnumeration | ClosedSearchIsDestroyed (liveness) |
| | SearchPath | ConfinedWalk, OpenedAsWritten | none |
| | WildcardMatch | MatchedExactly | none |
| `FileHandlesProofs` | FileHandles | SafeDescriptors, TruthfulWrites | none |
| `ExceptionDispatchProofs` | ExceptionDispatch | LiveLinks, TruthfulFlags, ExactWalks | WalksEnd (liveness) |

The theorems rest on the assumptions the modules state for their constants,
which TLC evaluates in the runs: finite sets, positive sizes, markers distinct
from what they mark, and what a component takes from another:

* `ImagesAssumption`: what `pe.c` returns for an export is a function inside the
  image or a forwarder with a module and a key; an import has a cell, a module
  and a key. That ranges do not overlap is a guard (`Grants`), not an assumption.
* `LoaderImageAssumption`: an image parses (`ParsesOK`), and sizes and positions
  are numbers. Overlapping sections, a malformed directory, a directory that
  names itself and imports anywhere are all allowed.
* `WildcardMatchAssumption`: no unit but the star folds to the star's fold.
* `SearchPathAssumption`: nodes inside, outside and absent are distinct.

What each argument rests on, and why the properties alone are not inductive:

* **HandleTable.** Critical sections exclude each other (LockInv); what a
  thread found under the lock still holds when it acts (GrantInv), which makes
  "test, then increment" safe; a private or dying record belongs to one thread
  (CallInv, OwnerInv); one thread shuts the table down and nobody else touches
  it then (ShutdownInv); a record is in one slot, and a retired slot is empty
  (SlotInv); an issued token is bound to its object, or its generation has
  passed (TokenInv). Counts are cardinalities of the sets of their owners, and
  a step changes such a set by one element. The refinement is proved action by
  action: a step of the store or a stutter.
* **LocalSlots.** The slots have no lock. A call that read a generation knows
  something only while the slot's allocation count stands still, so the
  invariant relates what each step of a call has read to the history (tenancy,
  witness): an answer that survives the second look at the generation was right
  at an instant between the two looks, or the generations have wrapped in
  between, which the property names.
* **ThreadContext.** Every scope token, TEB and reference has exactly one
  holder: a context, a call in progress, or the pool. The counts of `context.c`
  and `process.c` are the sizes of those sets (CountInv, ReferencesExact); a
  host's frames are chained newest first and each belongs to the context it
  entered (FrameInv, LeaseInv, AttachInv). A creation that fails half way gives
  back what it had reserved because ReserveInv names it at every step. A second
  invariant (RoomInv) shows that a host about to enter a context finds a free
  token, so the model's choice of one is never a choice from nothing.
* **Worker.** Per side, what it holds is told by where it is in the call
  (ResourceInv, MaskInv, ForkInv); signals can only end the worker between a
  handler and the record it writes, and there is at most one record (ChildInv,
  RecordInv): the report is a function of the exit code and that record. A
  worker that has written its record is still killed by SIGKILL and, when the
  record is the crash handler's, by a signal its mask lacks (`Unstoppable`);
  those are the only ways to a broken protocol.
* **Search.** The offset in the buffer and the directory's cursor split the
  entries into seen, buffered and to come (no entry twice, none lost), and only
  the holder of the spin lock moves them.
* **FileHandles.** The host always hands out the lowest number. That there is
  one is a pigeonhole argument over the files; that the one a file owns is not
  handed out again needs OwnInv in both directions. A write in progress is
  described by the bytes the host has (ProgressInv): those of its call, in
  order, up to the count. WritesAreTruthful is stated with the set of the
  indices received, for what the library's filter of a sequence computes is a
  recursion the provers do not have.
* **ExceptionDispatch.** What is known of a frame looks only at that frame and
  older ones (FrameSound), so a step that cuts or grows the stack keeps it for
  every frame it leaves (StackKept): each action is then about one or two new
  frames. A host frame has walked through intact guests only, and has run
  exactly the handlers of those (WalkSound); while a handler runs, its link
  points to an older running handler (HandlerSound), and an unwind under way
  has taken the link (ActiveInv). That an unwind's handler frame has no
  previous link makes a resumption in the target leave no link behind.

* **ModuleSpace.** Names and aliases are pairwise different after folding
  (NameInv), modules and owned images correspond one to one (OwnInv), and the
  ranges in use are those of the owned images, apart from each other (SpanInv):
  so an address has at most one module. A resolved symbol stays resolved
  (SymbolsAreStable) because additions only append: a query that was answered
  at some depth is answered the same by a registry with more in it (`Kept`).
  The function that resolves is unfolded into its recursion equation, and the
  fact is proved by induction over the depth that is left. Induction is used in
  its form for a set of naturals, which follows from the library's least element
  of a well-founded relation and needs no operator as a parameter. Imports of a
  bound image all resolved (BoundInv), hence hold what resolution says now.
* **LoaderImage.** A relocation or a binding may fail only before it writes.
  For imports that is the order of the code; for relocations it is a fact about
  two passes over the directory, one that validates and one that patches: no
  entry of the directory is itself patchable, so the second pass reads what the
  first one read and meets no error (PassesAgree, by induction over the
  entries). LoaderInv says how far protection has gone: all of it and no
  conflict, none of it, or on a tainted mapping a mix page by page. The walk
  over a range's pages meets the pages with a cell of the range
  (OnPagesIs), which is arithmetic of quotients.
* **SearchPath.** The walk holds one directory, and that is inside the root:
  each openat goes to a real child of it or fails, whatever has been renamed or
  linked since. While nobody has moved anything (OnTheWay), the walk follows
  what the host would open for the path as written: `Agrees` compares, component
  by component, the stack that normalization keeps with the node the host has
  reached, dots and double dots included.
* **WildcardMatch.** `SuffixMatches` is the reference relation as a table over
  pattern and name positions. MatchInv says that a suffix match at the present
  positions gives one of the whole name (Sound), and that, conversely, if there
  is a match of the whole then there is one with the last star's text no shorter
  than now (Complete): earlier stars need no second try, because whatever they
  could leave to the last star, it can take from where it stands. That half
  needs a name without a star (section 5).
* **GuestMemory.** Heap: every byte the guest may rely on is still there, and a
  byte asked to be zero is zero. Environment blocks: a block is linked once, or
  carried by exactly one thread, or not allocated (BlockInv).

The proofs changed the models, not what is claimed of them, in these places:

* LocalSlots, VirtualUnwind: a CASE with two arms that could both hold became
  nested IFs; there is at least one slot (`SlotCount`).
* FileHandles: `Files` is finite, and WritesAreTruthful is restated as above.
* Search: the type of the record buffer has a name (`Buffers`).
* Folds became functions defined by recursion over the number of elements done,
  which the provers can unfold once the recursion is shown to have a solution:
  ProcessRelocations, Normalized, SuffixMatches. ResolveSymbol goes through a
  function of the depth left; WriteIat is written in closed form: the last
  import that names a cell wins.
* LoaderImage, GuestMemory, SearchPath and WildcardMatch name their variables
  and formulas apart from those of the modules they are proved beside.

Not proved, and why:

* all liveness and ImplementsFairStore: fairness and ENABLED are out of the
  prover's reach; so is an abstract specification's fairness;
* the contents part of MappingIsExact (PointersFollowTheBase,
  ImportsAreOneAnswer): it is false of some images the loader accepts. A
  directory that names a cell twice moves it twice, and a pointer or an import
  may lie where another one is. The images of the run have distinct entries and
  imports of their own; a proof would assume that of every image and then add
  residues modulo a width that depends on the image, which the arithmetic
  provers do not do;
* CallerIsRecovered, EstablisherIsStable: VirtualUnwind interprets lists of
  unwind codes and instructions; what is recovered is the result of a run over
  the list, an induction whose invariant is the meaning of each record, for
  functions as a compiler may write them. The 4,472 functions of the run are
  all there are up to the bounds;
* QueryIsExact, ConversionIsFaithful: `Conversion` declares a recursive
  operator, so the prover cannot be used on it, and both say what a scan over a
  source of any length computes.

## 5. Findings

`wildcard_star`: `docs/ARCHITECTURE.md:58` says that matching implements `*`.
`wildcard_matches` compares the units (`search.c:301`) before it looks for a
star (`search.c:307`). A star of the pattern that stands on a star of the host
name is consumed as a literal: `*` does not match the host file `*a`, and the
search omits it. Without a star in the name, MatchesExactly holds.

`exception_termination`: `docs/ARCHITECTURE.md:150-151` lists second-pass
termination handlers as supported. When an exception handler calls RtlUnwindEx,
the unwind starts in the frame that handler belongs to, for that is the origin
`dispatch_raised_exception` stored in the link (`kernel32.c:1132`). Frames
between the raise and that frame are abandoned without their termination
handlers. From the frame it starts in, the walk is exact (WalksAreExact).

`undefined_bytes`: in `sl_cp1252_extension` 0xffff marks the five bytes the page
leaves undefined. `utf16_to_single_byte` searches the table without leaving them
out (`kernel32.c:1327`), so U+FFFF becomes byte 0x81 and `used_default` stays
FALSE, while `tests/test_kernel32.c:1518-1534` treats that byte as undefined and
asks for the default character for a unit the page does not have.

No document of the repository speaks of the following, so it is no finding but
a behaviour the `worker` run shows: a signal that libc reserves, sent between
the crash handler's write and its exit, kills the worker behind its record, and
the caller gets `SL_ERROR_WORKER_PROTOCOL` instead of the crash report
(ProtocolErrorMeansKilled names the case).

## 6. Not modelled

* `pe.c`: the byte-level parser and its iterators are a pure function over
  bytes; `ParsesOK` states what the loader relies on, and the images of the
  loader's runs satisfy or break it one condition at a time.
* The encodings of instructions and unwind codes (`parse_v2_epilogue_prefix`,
  `read_unwind_record`, the byte patterns of `simulate_epilogue`): the model
  starts from what they decode to. A jump between two table entries of one
  function looks like a tail jump to the code; the guest functions of the model
  have none.
* Critical sections are one call each of a C11 recursive mutex. Standard
  handles, pointer cookie and filesystem directory are single words that are
  loaded or stored.
* Module queries of KERNEL32 only read the registry `ModuleSpace` models.
  Metadata of a found entry, error strings, locale, clocks, identity and the CLI
  have no state the properties tell apart. The register save and restore of
  `win64_context.S` is below the level of the models.

## 7. What is left

The theorems cover the safety of every component with state, except what the
list above names. Three pieces would be worth adding, in this order:

1. `Conversion` with its passes as functions over the positions of a source:
   then QueryIsExact (the sizing pass and the writing pass advance alike) is the
   induction that PassesAgree is for relocations.
2. PointersFollowTheBase for images whose directory names every cell at most
   once and apart from the import table, with the residues as a lemma.
3. `Search` and `FileHandles` stated over `HandleStore`, whose promise they now
   repeat in the form they need it.
