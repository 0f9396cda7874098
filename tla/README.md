# secvault: models, checks and proofs

secvault stores a file as one encrypted, error-correcting container. This
directory holds TLA+ models of its code (`src/`), the TLC runs that check them
on small instances, and theorems about them that the TLA+ proof system checks
for every value of the constants.

## 1. The system

A vault of the main scheme, `rs-dual`, is a sequence of *blobs* and a trailer.
The plaintext is cut in chunks; each chunk is encrypted (AES-GCM), cut in 256
data shards, extended by 128 Reed-Solomon shards and written as a *data blob* of
384 slots, each a 4 KB payload and a 16 B tag. Every 128 data blobs form a
*group*, protected by up to 64 *parity blobs*, computed column by column over
the group. Two small-file schemes (`gcm-only`, `rs-strong`) store everything in
a single unit.

| Component | State | Operations | What makes it hard |
|---|---|---|---|
| layout arithmetic, `internal/layout` | none | offsets, counts | two layouts, a parity cap, a short last group; offsets are used before the number of chunks is known |
| write pipeline, `internal/engine/pipeline.go` | three bounded channels, job maps, group counters, buffer pools, a sticky error, the file position of `dst` | `Write`, `Drain`; loops of the workers, of `writeLoop`, of `parityLoop` | `workers` + 3 goroutines (the caller is one), buffers handed over without copies, failures anywhere, shutdown by closing channels in order |
| Writer facade, `writer.go` | `closed`, the spec | `Write`, `Close`, the trailer | the trailer must come last and only when nothing failed |
| container, `internal/engine/container.go`, `window.go` | an open source and its manifest | `Open`, `GatherBlob`, `RepairIntra`, `RebuildMissing`, `LoadChunk` | two levels of repair, erasures counted per window |
| verify and scrub, `internal/engine/scrub.go`, `scrub.go` | a report, the lists of chunks to rebuild and of chunks lost | three passes, written back in place | damage during a run, a run cut short, Verify is the same code with no writes |
| Reader, `reader.go` | a cache of one chunk, a buffer with the whole plaintext, a lock | `ReadChunkAt`, `ReadAt` | concurrent callers; the lock is held for the look-up and for the update, not between them and not for the copy |
| small-file schemes, `gcm_only.go`, `strong.go`, `engine/scrub.go` | the plaintext buffer | sink, load, scrub | in-place repair of the only copy; body and trailer are two writes with no sync |
| manifest and trailer, `internal/format` | none | build, parse, validate | truncated or appended files |
| codec cache, crypto, errors | a map under a mutex | wrappers of libraries | |

The caller talks to the pipeline by calls; the goroutines talk through
`encodeCh` (caller to workers), `outCh` (workers to `writeLoop`) and `parCh`
(`writeLoop`, and at the end the caller, to `parityLoop`). `writeLoop`,
`parityLoop` and, after them, the caller write to the same destination. Scrub
and the Reader meet the writer only through the file.

What must hold, per component: **layout**: blobs never overlap, leave no hole,
and never move while a vault grows. **Pipeline and Writer**: chunks are neither
lost nor reordered; a buffer is not recycled while somebody uses it; the parity
of a group covers exactly the group; no failure is swallowed; a successful
`Close` means a complete vault; every call returns. **Container and scrub**: a
repair is exact, never makes things worse, is complete, and the report says the
truth in both directions. **Small files**: what opens is the whole vault of a
successful `Close`; it loads as long as no more slots are lost than the code can
do without, also in the middle of a repair. **Reader**: to any number of callers it is a read-only
file, and the cache is never wrong, never shared. The hazards behind these, each at its line, are in
`PROJECT.json` under `hazards`.

## 2. The modules

| Module | What it is | Code |
|---|---|---|
| `Layout` | the arithmetic as operators, in units of blobs (every offset of the package is a multiple of `BlobDiskSize`) | `layout.go` |
| `LayoutGrowth` | a vault that gains one chunk per step; three properties | `layout.go`, `enqueueChunk` |
| `LayoutLemmas`, `LayoutProofs` | proofs | |
| `Pipeline` | the write path, every goroutine | `pipeline.go`, `writer.go` |
| `PipelineProps` | its properties, and the refinement mapping | |
| `PipelineApart` | the pipeline with one bit of history: whether two `seekWrite` calls have overlapped | `seekWrite` |
| `VaultWriter` | the abstract specification: bytes accepted, then committed or failed | what `writer.go` promises |
| `PipelineProofs`, `HandoverProofs`, `VaultProofs` | proofs | |
| `Container` | the damaged body and the read path as operators over it | `container.go`, `window.go` |
| `Scrub` | the medium, Verify and Scrub | `engine/scrub.go`, `scrub.go` |
| `ScrubProps` | its properties | |
| `ScrubProofs` | proofs | |
| `Plaintext` | the plaintext and its units | `reader.go` |
| `Reader` | concurrent `ReadAt` and `ReadChunkAt` | `reader.go` |
| `PlainFile` | the abstract specification: a read-only file with errors | what `reader.go` promises |
| `ReaderProps` | its properties, and the refinement mapping | |
| `ReaderProofs` | proofs | |
| `SmallLayout` | the sizes of the small-file schemes | `layout.go` |
| `StrongCode` | an abstract erasure code, and gathering and rebuilding with it | `engine/strong.go`, the Reed-Solomon library |
| `SmallVault` | the life of a small-file vault: Writer, medium, `Open`, load, verify, scrub | `writer.go`, `engine/strong.go`, `engine/gcm_only.go`, `engine/container.go`, `engine/scrub.go`, `internal/format` |
| `SmallVaultProps` | its properties | |
| `SmallVaultProofs` | proofs | |
| `MCLayout`, `MCPipeline`, `MCPipelineApart`, `MCScrub`, `MCReader`, `MCSmallVault` | the small instances | |

`Pipeline` and `Container` extend `Layout`; `Scrub` extends
`Container`; `SmallVault` extends `StrongCode`, and that `SmallLayout`. A proof module
extends the properties it proves; `VaultProofs` extends `HandoverProofs`, and that
`PipelineProofs`. `LayoutLemmas` serves the pipeline and the scrub alike.
Definitions named in a comment as mutants are deliberate bugs: each shows that
one property can fail. They are used by nothing else.

### Pipeline

One action per step that another goroutine can see: a send, a receive, a `Seek`,
a `Write`, an access to the sticky error. A goroutine's position is `cpc`
(caller), `wpc[w]`, `lpc`, `ppc`. `Write(n)` begins a call, `FillChunk` and
`EnqueueChunk` are its loop, `WriteReturns` its end; `Close` begins `Drain`,
whose lines are `EnqueueChunk` (the partial chunk), `DrainCloseEncode`,
`DrainCloseOut`, `DrainFlushLast`, `DrainClosePar` and `DrainReturns`;
`SeekTrailer` and `WriteTrailer` are `writeTrailer`.

*Data.* A chunk is its index and its length. A buffer of the pool holds the index
of the chunk last encoded into it, so that a buffer recycled too early shows as
parity over the wrong chunk (`content`, `parOut`). The file is a function from
*units* to contents; a unit is one window (32 columns) of a blob, because
`writeParityGroup` writes a parity blob one window at a time. The pair of
buffers `blob` and `par` of a job is one buffer in the model: they are taken,
handed over and returned together. The plaintext and disk buffers have a single
owner at any time and are left out.

*Failures.* A `Seek`, a `Write`, an encoder or the trailer may fail, `MaxFaults`
times per behaviour; a failing `Write` writes nothing or a torn prefix. Failures
of the random source and of the codec constructor before the first goroutine
starts are not modelled.

### Container and Scrub

A slot is `Bad` (its tag does not verify), `True` (the payload the writer put
there) or `Wrong` (another payload with a valid tag). A parity slot holds the
column it encodes, which is exactly what decides whether a later reconstruction
returns the truth. Reed-Solomon is modelled by what it does: up to the number of
parity shards, erasures come back, and they come back right if the shards it
takes (the first usable ones, data before parity) agree; otherwise the result is
`Wrong`. `Decodes` is GCM: it accepts a chunk only if all its slots that hold
ciphertext are `True`. `LastUsed` slots of the short last chunk hold ciphertext,
the rest is zero padding no authentication covers.

`Scrub` runs the passes as steps; writes are steps of their own, one slot each,
and `Abort` ends a run between any two of them or in the middle of one.
`Hit` (tag-breaking damage) and `Corrupt` (damage with valid tags) may happen at
any time. What a pass reads for one chunk, one group or one window it reads in
one step: damage in the middle of such a read is seen as before or after it.

### Reader

One action per step of a call that another caller can see: the look-up under the
read lock (`Lookup`), `LoadChunk` with no lock, the update under the write lock
(`CacheChunk`), the copy with no lock (`CopyRange`, `CopyChunk`); in a single-blob
vault the second look and the load under the write lock (`LockAll`, `LoadAll`).
`lock` is `cacheMu` as far as it is held from one step to another, which only
`LoadAll` needs. `plain[c]` is the local variable `plain` of a call.

Slices are references to buffers, so that `plain` of one caller, the cache and
the slice returned by `ReadChunkAt` may or may not be the same memory; `Scribble`
is a caller that writes to the slice it was given. A byte is its position in the
plaintext. `MediumChanges` makes a unit unreadable, or readable again, at any
time; a load returns the true bytes (they are authenticated) or an error. That a
load reads the medium in several calls shows as nothing more: it succeeds or
fails.

`PlainFile` states the promise. A failing `ReadAt` may only return the bytes before
the unit that failed. One thing it has to allow differs between the schemes: in
a single-blob vault a `ReadAt` beyond the end loads the file first, so on a
damaged vault it returns the error where an rs-dual vault returns `io.EOF`
(`reader.go:138` calls the two alike).

### Small vaults

The file is a sequence of cells: one per slot of an rs-strong body (payload and
tag), one per byte of a gcm-only body, and two for the trailer, so that it can be
torn. `Write` buffers; `Drain` and `WriteTrailer` are the two calls that
`closeSmall` makes on the file, each of which may fail after any number of cells
(`DrainFails`, `WriteTrailerFails`). The manifest is `man`, which a reader can only
get at through the trailer.

*The medium.* The code never syncs. `file` is what the running system sees,
`disk` what the medium holds, `WriteBack` brings the two together. A
`PowerFailure` keeps any of the cells that differ and any length between the two,
and ends the process, a half-done `Close` or scrub included. `Hit` damages any
number of body cells at once, `Stray` puts the content of another slot, with its
valid tag, into one, `Cut` and `Extend` change the length. These four come after `Close`, at any
time: between two writes of a scrub too. `life` records whether a vault was on the
medium before its first power failure, `hits`, `strays` and `faults` count, and
`quiet` says that nothing has happened since the last call began; the code has
none of the five, they are only read by properties and bounds.

*The code.* Reed-Solomon is any set of codewords in which `KStrong` slots,
whichever, determine the rest (`CodeDistance`), whatever they hold (`CodeIsFull`).
The decoder takes the first `KStrong` good slots; if one of them is not the
writer's, it computes another codeword, silently, as the library does.
`decodeStrongArea` then stands for the header checks and GCM: the slots that hold
header, ciphertext or tag must be the writer's. The zero padding after them is
covered by nothing, so a stray slot there goes unnoticed, and a scrub can complete
the vault to another codeword. It stays readable (`ReportIsTrue`,
`ScrubDoesNoHarm`), but its redundancy is no longer that of its data: see the trace
in section 5. `RepairsAreTrue` says when this cannot happen: when nothing was
displaced, and, whatever was, when the data area has no padding (here the vaults of
0 bytes), because then a reconstruction that decodes leaves only the writer's codeword.

*Sizes.* A gcm-only vault is measured byte by byte, with the formula of the code. Of an
rs-strong vault `Validate` counts whole slots and the trailer: the width of a slot in
bytes (`format.go:199`, a rounding up that writer and reader compute with the same
function) is abstracted, the number of data slots in use is not (`UsedSlots`).

*Reading.* `Open` is the check of the trailer at the end of the file, the key, and
the length against the manifest. `LoadAll` and `VerifyOrScrub` dispatch on the
scheme. `ScrubStrong` reads and decodes in one step; then `WriteSlot` is one
`WriteAt`, and `ScrubAborts` a write that fails, whole or torn, or a killed process.

## 3. The runs

| Run | Instance | Shows |
|---|---|---|
| `layout` | groups of 5 chunks, up to 4 parity blobs, v2 and every v3 cap, 0 to 26 chunks | `BlobsDisjoint`, `BlobsFillFile`, `SettledBlobsStay` |
| `pipeline_group` | one group of up to 3 chunks, 2 workers, channels of 2, 2 windows, v2 and v3 with every cap, 1 failure, fair scheduling | `VaultComplete`, `TrailerIsLast`, `CallsReturn`, `ImplementsVaultWriter` |
| `pipeline_groups` | two groups (2 chunks + 0 to 2), 2 workers, 1 failure, v2 and v3 | `TypeOK`, `ChunksConserved`, `BuffersIntact`, `ParityCoversGroup`, `CommitMeansAll`, `CompleteIfApart` |
| `scrub_retry` | groups of 2 + 1 chunks, blobs of 2 + 1 slots in 2 windows, one hit and one corruption at any time, 2 runs | `TypeOK`, `ReportAddsUp` |
| `scrub_heal` | one v3 group of 3 chunks with 2 parity blobs, 3 hits at any time (enough to lose chunks), 1 run | `NothingForged`, `ScrubHeals`, `UnreadableIsReported`, `VaultSurvives`, `RepairDoesNoHarm` |
| `reader` | two callers of a Reader of either scheme, 3 bytes in chunks of 2, reads across chunks, to the end, across and beyond it, chunks inside and outside the range, refused calls; the medium changes at any time, without bound; fair scheduling | `TypeOK`, `CacheIsTrue`, `LoadedOnce`, `ImplementsPlainFile` |
| `small_vault` | both schemes from the first `Write` on; 0 to 2 bytes; 3 + 2 slots, the code the polynomials of degree 2 over 5 elements; two faults of any kind at any time, any number of failing calls, loads and scrubs | `TypeOK`, `OpensOnlyWhole`, `VaultSurvives`, `MarginHolds`, `ReportIsTrue`, `RepairsAreTrue`, `ScrubDoesNoHarm` |
| `pipeline_race`, `pipeline_inflight`, `scrub_corrupt`, `scrub_verify`, `scrub_lost` | see section 5 | a counterexample each |

*Why the bounds are enough.* The interesting cases are boundaries, and each is
reached: a full and a short last group, an empty vault, a chunk that fills
exactly, channels that run full, workers that finish out of order, a buffer that
is reused, a group that ends while the next begins, a failure in every call that
can fail; in the scrub a blob repairable inside, one that is not, a group within
and beyond its erasures, damage in different windows of different blobs, a run
cut inside a write. In the reader two callers want the same chunk, or different
ones and so take the cache from each other, while a third buffer is being
loaded; reads begin inside a chunk, at a border and past the end, cross a border,
and end at the end of the file and beyond. In the small vault the sizes make the
last data slot full for no byte, nothing but padding for one and partly padding for two; hits reach and pass the two
slots the code can miss, in data, in parity and in both; two faults are a power
failure during `Close` or a scrub and damage before or after, or damage that meets
a scrub of earlier damage. One failure suffices for the sticky error, since it is never
cleared. Workers and buffers are interchangeable, hence the symmetry in
`pipeline_groups`; `pipeline_group`, which checks liveness, uses none. Deadlock is checked in all pipeline
runs: `CallAfterClose` is the refused call a user may always make after `Close`,
so a state without a step before that is a real deadlock. In the reader run a
caller may always make another call. The layout, scrub
and small-vault runs stop when their bounds are used up, or the user does, and
do not check it.

`VaultComplete` is checked on one group because with two it is false (section
5). `CompleteIfApart` is what holds with any number of groups: as long as no two
`seekWrite` calls have overlapped, the vault of a `Close` that returns nil is complete.
`pipeline_groups` therefore runs `ApartSpec`, which is `Spec` with one bit of history,
`overlapped`, and the same behaviours otherwise. Its other properties do not depend
on the file position.

*Fairness.* `FairSpec` is weakly fair to the caller inside a call, to each
worker, to `writeLoop` and to `parityLoop`: the Go scheduler runs a goroutine that
is not blocked, and a channel operation that stays possible is taken. Beginning a
call is the user's choice and has no fairness. Weak fairness of a worker is
enough because what enables its step (an item in the channel, room in the next
one) is not taken away for ever by the other workers once each of them has work
of its own to finish.

In `Reader` the steps that take `cacheMu` are strongly fair and the others weakly:
`sync.RWMutex` does not starve a goroutine that waits for it (`Unlock` lets in the
readers that wait, and a writer that has waited long gets the mutex first), while
other callers may take it again and again. The medium and the beginning of a
call have no fairness.

## 4. The proofs

All proofs are for every value of the constants, under the assumptions the
modules name: `LayoutAssumption` (the group size is positive, the parity cap is
at most the group size), `GrowthAssumption`, `PipelineAssumption` (at least one
worker, channels of positive capacity, a pool that never runs dry),
`ContainerAssumption` (sizes are positive, the last chunk uses at least one data
slot), `ScrubAssumption` (the bounds are numbers),
`PlaintextAssumption`, `ReaderAssumption`, `SmallLayoutAssumption` (sizes are
positive), `CodeAssumption`, `CodeDistance` and `CodeIsFull` (the code is maximum
distance separable, which Reed-Solomon is) and `SmallVaultAssumption` (the kinds of
cells differ, and the writer computes a codeword).

* **Layout** (`LayoutProofs`). `FileIsFilled`, `OffsetsAreDistinct` and
  `SettledStay` are `BlobsFillFile`, `BlobsDisjoint` and `SettledBlobsStay`.
  The argument: a group occupies a row of `groupSpan` positions, so two blobs of
  different groups differ by the row (`ProductGap`, `SameRow`); inside a row data
  and parity are two adjacent intervals whose order depends on the version
  (`BlobInSlot`, `OneBlobPerSlot`); the last row is cut to the blobs it has
  (`FileEnd`). `OffsetsAreDistinct` goes from a bijection between blobs and
  positions to cardinalities.
* **Types** (`PipelineProofs`). `PipelineType` is `TypeOK`. It is not inductive:
  that `writeLoop` hands `parityLoop` a buffer needs that a job which did not fail
  owns one, and that a group never exceeds its size needs where the loop
  stands. `TypeInv` adds both (`ChannelInv`, `WorkerInv`, `LoopInv`, `ParityInv`)
  and is preserved by each goroutine's steps (`CallerType`, `WorkerType`,
  `LoopType`, `ParityType`).
* **The trailer** (`PipelineProofs`, `TrailerComesLast`). `OrderInv` is the order in
  which `Drain` shuts the goroutines down: past `wg.Wait` every worker is done
  and holds nothing, past `doneCh` so is `writeLoop`, past `parDone` so is
  `parityLoop`. So when `Close` seeks the trailer nobody else can take a step
  that touches the file.
* **An honest commit** (`PipelineProofs`, `CommitIsHonest`), what the next four rest on:
  a `Close` that goes on to the trailer has seen no failure, and the manifest
  counts exactly the accepted bytes. `CommitInv` adds to the above: a failure of
  a goroutine is in the sticky error (`faults = 0` unless `err`); as long as
  there is no error no job is marked failed; the chunks `writeLoop` has
  finished with account for `plainSize` (`CountInv`); and every chunk it has not
  finished with is in a channel, with a worker, in `pending` or current
  (`CoverInv`). At the end there is no such place left, unless `pending` holds a
  job, and that is an error (`job ordering loss`). The parts were checked as
  invariants by TLC on the `pipeline_groups` instance before they were proved.
* **Handing over** (`HandoverProofs`). *Chunks* (`ChunksAreConserved`, `ChunksConserved`):
  `PlaceInv` says that `encodeCh` holds the last chunks in order (`InOrder`), that what the
  workers have taken and `writeLoop` has not retired is between `First` and `Taken`
  (`InTransit`), and that no two places hold the same (`Distinct`); with `CoverInv` each
  of those chunks is in exactly one place. *Buffers* (`BuffersStayIntact`, `BuffersIntact`):
  ownership goes from the job to its place in `parityLoop`'s line and ends with the release
  of the group; a worker takes only a buffer nobody owns, so it overwrites no content that is
  still needed. That the owners and their buffers are equally many, as the property says it, is
  then an injection between finite sets. *Groups* (`ParityIsOfItsGroup`, `ParityCoversGroup`):
  the messages to `parityLoop`, from the first ever sent, come in rows of
  `FileGroupChunks` blobs and a flush, only the flush of a short last group comes early
  and nothing comes after it (`StreamInv`, with or without failures); as long as nothing has
  failed, the buffer at place `r` of row `g` holds chunk `r` of group `g` (`GroupInv`).
* **A complete vault** (`VaultProofs`). `ApartVault` is `CompleteIfApart`: for any number
  of groups, as long as no two `seekWrite` calls have overlapped, a `Close` that returns nil
  leaves exactly the vault; `VaultUnderLock` says it without the bit of history, of behaviours with
  `[]SeeksApart`. `DiskInv` says which units are on the disk at each position of
  `writeLoop` and of `parityLoop`: all data blobs that `writeLoop` has counted (`Written`), all parity blobs of
  the groups that are flushed and those of the current one up to where `parityLoop` stands,
  and nothing else (`NothingElse`); and that after its own `Seek` a goroutine finds the
  position where it left it (`PosInv`). That last part is the only one that the overlap of two
  calls breaks, and so the only place where the premise is used (`PosStep`); the rest needs
  of the layout that blobs have different places and leave no hole (`LayoutLemmas`),
  of `HandoverProofs` that a flush is for the next group in turn and covers exactly its chunks,
  and of `Drain` that at the end every group has had its flush (`Committed`). What is on the disk
  is claimed while there has been no error (`Calm`): after one `Close` does not return nil.
  `OneGroupVault` is `VaultComplete` with a premise on the vault in place of the one on the
  interleaving: while the chunks fit in one group, the flush comes when `writeLoop` has nothing more to
  write (`OneGroupApart`), so the calls cannot overlap. The premise is on the number of chunks and
  not a constant: a behaviour that has one group so far is covered up to its second
  group. Neither premise is a convenience: without them the property is false (section 5), and
  together the two theorems say that the overlap is all that is wrong.
* **The abstract vault writer** (`VaultProofs`). Every step of `Pipeline` is a step of
  `VaultWriter` or a stutter under the mapping of `PipelineProps`:
  `PipelineIsVaultWriterApart` for any number of groups under `[]SeeksApart`,
  `PipelineIsVaultWriter` with no premise on the interleaving if `MaxBytes` is at most one
  group. Both come from `ImplementsIfApart`. `TrailerInv` says that the file has no whole trailer
  before the step that commits, so `VaultFound` is `NoVault` until then; `DiskInv` says
  what is found after it.
* **Loading once** (`ReaderProofs`, `LoadsOnce`). `LoadedOnce` with the type of
  the lock is inductive: the only step to the load is `LockAll`, which finds the
  lock free and `allLoaded` false, and `allLoaded` only changes in a step that
  leaves the load and releases the lock.

* **The cache** (`ReaderProofs`, `ReaderType` and `CacheStaysTrue`). `CacheInv` adds to
  `TypeOK` and `CacheIsTrue` that a slice given to a caller is its own, that a call past
  the checks at the head of its function passed them, and that only a single-blob vault
  waits for the lock. `BufferFree` is the counting argument that a load always finds
  a buffer: the cache refers to two at most, each caller to one. `OneCaller` reduces a
  step to the caller that takes it.
* **A read-only file** (`ReaderProofs`, `ReaderIsPlainFile`): every step of `Reader` is a
  step of `PlainFile` or changes nothing that `PlainFile` knows of. `GotInv` is the loop
  invariant of `ReadAt`: what it has are the bytes from where it began, it has not passed the
  end, and it goes on at the beginning of a chunk; that last part is why a failing `ReadAt`
  returns exactly the bytes before the unit it names. `BytesPart` and `BytesJoin` are
  the facts about slices of the plaintext, `ChunkOf` the one about division.
* **The erasure code** (`SmallVaultProofs`). `RankBijection` counts: the first `KStrong`
  of a finite set of slots are `KStrong` many. Hence the decoder's sources are
  enough (`SourcesCount`), the codeword it computes exists and is unique
  (`CodewordExists`, `CodewordIs`), and, if every good slot is the writer's, it is
  the writer's (`ReconstructIs`). `SameCodeword` says that writing one of the
  computed slots back does not change the codeword the decoder would compute next,
  although it may then start from other slots; that is what makes a scrub safe when
  some of what it read was misplaced.
* **Small vaults** (`SmallVaultProofs`). All seven properties of `small_vault`, for every
  code, number of slots, length and number of faults, from one inductive invariant. `WriterInv`
  says what goes together in each position of the Writer: there is a manifest only
  after a `Close` that succeeded, and slots to write only in an opened vault.
  `ContentInv` says of a vault in which nothing was displaced that each cell of `file` and of `disk`
  is the writer's or lost, that `disk` is never longer, and that a scrub is about to
  write the writer's symbols into lost slots. `HistoryInv` bounds the lost cells of a
  vault by `hits` unless power failed first; once it is settled the same holds of
  `disk`, and `file` has lost nothing that `disk` has not, so no mixture of the two is
  worse. `PlanInv` says what a scrub that no fault has disturbed has still to write: the bad slots
  as the decoder would compute them from the file as it is now. There is one lemma per action; `ScrubIsHarmless` follows from
  `SameCodeword` for quiet scrubs and from `ContentInv` for those damage has disturbed.
  `RepairsAreTrueAlways` is inductive on top of it: `ContentInv` is the case of nothing displaced; without
  padding `UsedSlots` is `KStrong` (`AllSlotsUsed`), so what decoded fixes the codeword in
  `KStrong` slots, the good ones among them being sources (`DataDetermines`). TLC checked the
  parts of the invariant on the instance of `small_vault` before they were proved.
* **Verify and scrub** (`ScrubProofs`). All properties of the two passing scrub runs, for
  every layout, blob, window and number of chunks. The invariant has five parts.
  `TypeInv` adds to `TypeOK` what the passes have in hand: the writes of a step
  lie in the vault and are of the pass the run is in, a pass leaves `win` at 0 for the next, and a group
  whose parity is being written has no lost chunk. `TrueInv` is `NothingForged` with the
  same of the pending writes and of `cols`; it also says that without forged payloads
  `rep.lost` is `lostSet`, since pass 1 then loses nothing itself. `Counted` splits the chunks in those
  counted and those `Owed` (not reached by pass 1, or in `needFile` and not reached by pass 2);
  `ReportAddsUp` needs nothing of the damage and holds with any of it. `ChunksSettled` and
  `ParitySettled` say what an undisturbed run has achieved so far: a chunk that is
  neither owed nor lost is whole up to the pending writes (for Verify: loads), and a parity
  slot is the group's column or `Ahead` of the pass. They give `ScrubHeals` and
  `UnreadableIsReported`. That pass 3 does not stop at a bad window (which the code would
  not report) follows from the same: all chunks of a complete group are settled by then.
  `ScrubDoesNoHarm` follows from `TypeInv` and `TrueInv`: a write puts the writer's payload
  where there was the same or a bad one, and no operator of the read path can lose by
  that. The premise `corrupt = 0`, which is part of the property, cannot go: padding slots are covered
  by no authentication, so a forged one can hide in a chunk that loads, and once the
  slots around it are repaired the rebuild of another chunk prefers it to
  good parity. `VaultSurvivesHits` adds `DamageInv`, that no more blobs have a bad slot
  than were hit: a run adds none, since a torn write can only tear a slot that was bad
  (`RunSpares`). A damaged blob is one erasure of a window at most (`FewErasures`), so one
  chunk at a time can be rebuilt. TLC checked every part on the instances of `scrub_retry` and
  `scrub_heal` before it was proved.

Every invariant that a passing run checks is a theorem, and so is every action
property; the only premises are those named above: for `VaultComplete` and `VaultWriter` one group or
no overlapping `seekWrite` calls. They are the premises of the runs too; other conditions (no forged
payloads, nothing displaced, no padding) are part of the properties. Only model-checked is what is out of the
prover's reach: liveness under fairness, that is `CallsReturn` and the liveness part of
`ImplementsVaultWriter` and of `ImplementsPlainFile`. What a recursive function computes for every input is
not claimed anywhere: the models are built from sets and functions.

## 5. What the checks found

Each has a run that exhibits it and an entry under `findings`.

1. **Shared file position** (`pipeline_race`, `pipeline.go:337`). `seekWrite` is
   `Seek` then `Write` on the one `dst`. With more than one group `parityLoop`
   writes the parity of a full group while `writeLoop` goes on with the next
   group's data. If one goroutine's `Write` follows the other's `Seek`, two blobs
   end up in the wrong place, no call fails, and `Close` returns nil. The demo knows
   the two goroutines share `dst` and puts a lock inside `Seek` and inside
   `Write`; that does not protect the pair. That a lock around the pair would be
   enough is `CompleteIfApart` and its theorem.
2. **Memory bound** (`pipeline_inflight`, `pipeline.go:270`). `parityLoop` keeps the
   buffers of a group until its flush, so the documented bound by `WithInflight`
   does not hold. `pending` in `writeLoop` is not bounded by the channels either.
3. **Parity of a group with a lost chunk** (`scrub_corrupt`, `engine/scrub.go:55`).
   A chunk lost in pass 1 is not in `lostSet`; with `RebuildParity` pass 3 rewrites
   the parity of its group from the wrong data.
4. **Verify is not a forecast** (`scrub_verify`, `engine/scrub.go:61`). Pass 2 of
   Scrub profits from what pass 1 wrote back, Verify cannot.
5. **Lost but readable** (`scrub_lost`, `engine/scrub.go:91`). Pass 2 gives a group
   up as a whole; reading its chunks one by one can still succeed.

Noticed on the way, with no run of their own: the read path does not check
rebuilt payloads against their tag, as `FORMAT.md:82` says, and does not go on to
the file level when the decoding of an intact or repaired blob fails, as
`FORMAT.md:83` suggests; a window that turns bad between the passes ends pass 3
as a whole with no error (`engine/scrub.go:232`), so the report of
parity is short; nothing is synced between the body and the trailer,
so a power failure right after `Close` can leave a vault that opens and does not load (modelled for small files: this is why
`VaultSurvives` asks for a settled vault and `MarginHolds` for a bound on what is lost); the branch of
`parityLoop` for a wrong number of blobs (`pipeline.go:274`) cannot be reached,
which is part of `ParityCoversGroup`.

Also on the way, and the reason for the conditions in `ReportIsTrue` and `RepairsAreTrue`:
ScrubStrong can report a vault repaired whose redundancy is spent. In the instance of
`small_vault`: a vault of 1 byte uses 2 of its 3 data slots, and its codeword is
<0,1,2,3,4>. Let a slot with content 4 and a valid tag end up in slot 3, which is
padding, and let slot 4 be damaged. The decoder takes slots 1, 2 and 3, which belong to
another codeword, and computes 4 for slot 4. Slots 1 and 2 decode, so ScrubStrong writes it
and reports a repair (`engine/scrub.go:162-182`; GCM covers header and ciphertext only,
`engine/strong.go:152-156`). The file is <0,1,4,4,4>: it loads, but after the loss of slots
1 and 2, no more than `MStrong`, it does not. Nothing in the repository promises the
contrary of misplaced slots, so this is no entry under `findings`; comparing the good
slots with the reconstructed codeword after the decoding would reveal it.

## 6. Not modelled, and the plan

Left out for good, because they have no state of their own and the models use
what they do: encryption, key derivation and hashing (a tag verifies or not, a
ciphertext authenticates or not), Reed-Solomon as a computation and the cache of
its encoders (a map under a mutex), the encoding of the manifest, error values,
the demo and the benchmarks.

Partly modelled: `Open` and the trailer, for the small-file schemes only. For an
rs-dual vault `Open` is the same code with another formula for the length; what
is missing is a medium that loses unsynced blobs under it.

Left for later, in this order:

1. Composition: a vault written by `Pipeline`, with the medium of `SmallVault`,
   opened, damaged, scrubbed and read.
2. Proofs about that composition; and of the read path on its own, that `LoadChunk`
   returns the writer's chunk or an error for every damage within the two margins.
