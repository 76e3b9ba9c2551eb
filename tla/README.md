# A TLA+ model of mkp224o with CUDA

mkp224o searches for ed25519 keys whose onion names (base32 of the public key)
begin with given words. This directory holds TLA+ models of the program, TLC
configurations that check them on small instances, and proofs checked by TLAPS
for every instance. `PROJECT.json` maps each definition to the lines it
translates, and lists the components, the hazards and the properties about
each of them.

    tlc -workers 2 -config pool.cfg MCWorkerPool     # one run
    tlapm WorkerPoolProofs.tla                       # one proof module

## The system

| Component | State | Operations | Interaction |
|---|---|---|---|
| Main thread, options (`main.c`) | the configuration, the threads, `endwork` | parse and check the command line, start the threads, poll, report, join, destroy mutexes, close | signals set `endwork`; a second signal kills |
| Worker threads (`worker.c`, `worker_batch.inc.h`, `worker_batch_pass.inc.h`) | a seed, its scalar, the batch, a loop counter | take a seed, fill a batch, filter it, make the secret of a match, `onionready` | share `endwork`, `keysgenerated` (with its mutex), `fout` (with its mutex), `determseed` (with its mutex) |
| Output of a key (`onionready`, `yaml.c`, `ioutil.c`) | directories, three files each, the list of names in a stdio buffer, or records of YAML | check the limit, `mkdir`, write files, print, flush | in the worker's thread; errors of `mkdir` are reported, those of the files are not |
| YAML input (`yaml.c`) | the record read so far | read a line, make a directory when a record is whole | reads what earlier runs wrote, or a file made by hand |
| Passphrase seeds and checkpoints (`worker_batch_pass.inc.h`, `main.c:216-263, 656-675`) | `determseed`, `orig_determseed`, the checkpoint file | increment under the mutex, save every five minutes and at the end, load | the saver thread is told to end after the workers were joined |
| Replacing a file (`ioutil.c`, `syncwrite`) | a temporary file, the file, the directory | write, fsync, rename, fsync of the directory | called by the saver |
| CUDA worker (`cuda_worker.cu`, `worker_finish_match`) | on the device: `d_endwork`, `d_nmatches`, `d_remaining`, the match buffer; on the host: a copy of it | a kernel of many threads that claim slots; a host loop that polls, flushes, drains, launches again | memory copies in the default stream; `onionready` as above |
| Filters (`filters_*.inc.h`) | a vector of filters, one mask or one for each | add, expand, sort, deduplicate, search | read by all workers, and copied to the device |
| Statistics | 32-bit counters of each worker, sums of 64 bits | count, sum up, report, start anew, halve | written by workers, read by main, no lock |
| base16, base32, base64 | none | encode, decode, validate | names, filters, keys in YAML |
| ed25519: ref10, donna, amd64, CUDA | none | fields, scalars, groups, keys, signatures, packing of a batch | one of them is chosen when the program is built; the device always has its own |

What is hard in it:

* several threads, or thousands on a device, racing for the last place of
  `-n NUMKEYS` or of the match buffer, and an `endwork` that is read without a
  lock and acted on later;
* an orderly end at any point of any worker, with mutexes that are destroyed;
* a kill, a second signal or a loss of power between any two file operations,
  and runs that resume from what they left;
* a carry that runs through `determseed` while others read it;
* a kernel that the host can only talk to when it has ended;
* a secret scalar that is advanced separately from the point it belongs to, and
  keys of one matter computed by four implementations;
* tables of filters that are expanded, sorted by one comparison and searched by
  another, and freed of duplicates in place;
* records of YAML cut short by a full disk and read back by a later run;
* unreduced limbs and estimated quotients that must not go past their bounds.

The properties that make each part correct:

* pool: the limit holds, filling it ends the run, at most one late key for
  each worker, nothing accepted is lost, nothing is used after it was torn
  down, no name without its files, the end comes;
* seeds: no two workers search one seed, no run skips or repeats any without
  cause, a checkpoint only goes forward;
* files: never a part of one, and an honest result;
* walk: each point of a seed once, and the secret of the public key found;
* CUDA: no slot read half-written or shared, few matches lost, the same
  promise as the pool's;
* filters: a key is found exactly if it has one of them;
* YAML: a directory only ever holds the halves of one key, and every whole
  record gives one;
* statistics: the sums are what was counted, whatever wraps, restarts, halves;
* arithmetic: each implementation computes what it stands for; those of the
  CPU have the same keys, and those of the device are its scalar's.

## Modules

| Module | What it is |
|---|---|
| `KeySearch` | abstract: finders accept keys up to a limit, settle them, end |
| `WorkerPool` | main, workers, `onionready`, signals, failures; implements `KeySearch` |
| `WorkerPoolProofs` | proofs about `WorkerPool` |
| `CudaWorker`, `CudaWorkerProofs` | kernel threads and the host loop; implements `KeySearch`; proofs |
| `BatchWalk` | one worker's walk from a seed |
| `SeedCheckpoint`, `SeedCheckpointProofs` | `determseed`, the saver, crashes and later runs; composes `AtomicFile`; proofs |
| `CheckpointCodec` | the byte arithmetic of saving and loading |
| `WalkCodecProofs` | proofs about `BatchWalk`, `CheckpointCodec` and `BaseCodec` |
| `AtomicFile` | abstract: a file replaced as a whole, with crashes |
| `SyncWrite`, `SyncWriteProofs` | `syncwrite` call by call; implements `AtomicFile`; proofs |
| `Options` | the command line: letters, long options, arguments, the checks after them |
| `Filters`, `FiltersProofs` | filters of three kinds, their table, the searches in it, and proofs |
| `YamlFile` | writers of records and the reader of `-Y` |
| `Statistics` | the counters and main's sums |
| `Program`, `ProgramProofs` | runs of the program on one output file; composes the four above; proofs |
| `BaseCodec`, `CodecChecks` | base16, base32, base64, and the stream of bits they are compared with |
| `Limbs` | numbers in limbs, byte strings as sets of bits |
| `Ref10Field`, `DonnaField`, `Donna32Field`, `FieldChecks` | the fields, and what they are compared with |
| `FieldProofs` | proofs about `DonnaField` and the formulas of `DonnaGroup` and `CudaGroup` on its limbs |
| `Powers` | inverse, root and batched inverse as chains of squares and products |
| `Ref10Scalar`, `Modm`, `Digits`, `ScalarChecks` | scalars modulo the order, windows and sliding windows |
| `Ref10Group`, `DonnaGroup`, `CudaGroup`, `SmallCurve`, `GroupChecks` | points, encodings, multiples, keys and signatures; the curve they are compared on |
| `DonnaKeys` | keys, signatures and the verification of many of donna |
| `Arithmetic` | composes the walk, the codecs and the questions about the functions |
| `MC...` | the constants of the runs |

`SeedCheckpoint` rests on the two modules below it: it uses a file that is
replaced as a whole, which `SyncWrite` implements, and takes the file to stand
for the seed that was saved, which `CheckpointCodec` shows. Definitions whose
comments begin with "Mutant of" are slips the properties must catch; no
specification uses them.

### WorkerPool

`pc[w]` is the place of worker `w`; each action is one access to shared state.
`batch` and `filter` are the loop of `worker_batch` (`StartBatch` reads
`endwork` once per batch); `Match` chooses any key not found yet; `ready` to
`quota` are `worker.c:76-91` with `keysgenerated_mutex`; `createdir` to
`fflush` are `worker.c:104-142`, and `lockout` onwards also the locked part of
`yamlout_writekeys`. `mpc` is main: `Spawn`, `PollEndwork`/`PollCount` for the
loop `main.c:783-851`, `JoinWorkers`, `DestroyMutexes`, `CloseOut`.
`TermHandler` may run at any time; `Kill` stands for SIGKILL and for a second
signal (with `-std=c99`, `signal` restores the default action). `Faults` says
which failures a run includes. A key stands for the worker's whole match
(name, secret, hash); `found`, `accepted`, `settled`, `reported`, `late` are
history.

### CudaWorker

One action for each access of a kernel thread to the shared counters and
slots, and one for each copy or decision of the host. `ordered` says whether
copies wait for the kernel, and never changes. In the program they do: the
kernel is launched in the default stream and all copies are issued there. The
polling loop is written as if they did not, and half of its branches (`SleepOn`,
`Flush`, `SetEnd`) can only be taken then. `Orders` says which of the two a run
looks at: `cuda` at both, `cuda_delivered` at the program as built. A thread
reads `*d_endwork` anew for each seed; a read of an earlier value is the same
behaviour as the read happening earlier.

What must come in the end is stated from the moment the kernel is told to end,
by the host or by itself: then the run ends if it should, and what is in the
slots is handed on. As built nothing more is true. The host waits in its copy
until the kernel ends of itself, for lack of matches never: `KeysDelivered`
fails (`cuda_delivered`), and neither does `endwork` alone end the program.

### BatchWalk

Points are written as multiples of the base point, so the group law is integer
addition, and a key pair is right when both numbers agree modulo the order.
Scalars have their width (`AddSz` drops the last carry, and `Clamped` is the
test of the bits), and so has `size_t`. The mode and the options are chosen at
the start. Which points match is open. The right half of the secret
(`reseedright`) plays no role in any property and is left out.

### SeedCheckpoint, CheckpointCodec, SyncWrite

`SeedCheckpoint` has a step for each byte of `determseed` that is incremented
or read, and runs that follow each other after an orderly end, a kill or a
loss of power. `FinishSeed` stands for the loop of `BatchWalk`.
`CheckpointCodec` has a step for each byte of the two loops. `SyncWrite` has a
step for each call; every call may fail, and a file has a content in the cache
and one on the disk. `Interrupted` adds an `fsync` that fails with `EINTR`.

### Program, Options, Filters, YamlFile, Statistics

`Program` runs one command line after the other. `Options!Parse` turns it into
the configuration; `Refused` and `Mode` are the checks and branches behind it.
A run with filters builds their table (`Prepared`: `filters_add` and
`loadfilterfile` in the order typed, then `filters_prepare`) for any of the
five builds; it ends there when no filter is left and nothing is to be reported,
or when there are more than the device takes (`NotSearched`; `DeviceFilters`
stands for 4096). A text that begins with `^` is taken without it. The properties compare the search of every key with what the
texts mean. With `-y` the steps of `YamlFile` write the output, with `-s` those
of `Statistics` run, with `-Y` the reader reads what an earlier run left or a
file made by hand, whose every line is chosen when it is read. `EndSearch` is
an end or a kill between any two steps.

A word of bits is the set of its ones, so `&`, `|`, `~` are set operations, and
memory order and the order of little-endian integers are orders of sets. A line
of YAML is a field and a value; a key stands for its name and for both halves.

### Arithmetic

Functions that keep no state are asked questions: a behaviour of `Arithmetic`
chooses a part and a question and answers it, and the invariant compares the
answer with the definition. Fields and scalars keep the limbs, the carries and
the order of the code, with the number of bits as a constant; the same
definitions stand for 2^255 - 19 in 51 bits and for a small prime in 11, and
those of the 32-bit field, with limbs of 26 and 25 bits by turns, for one in 8
and 7.
Residues modulo divisors of the small primes tell wrong numbers apart without
large integers. Words wrap at the width that leaves as many spare bits as 64
leave 51 (or 32 leave 26), so a missing reduction shows. The groups are checked on a curve with
the same shape as curve25519 (prime % 8 = 5, cofactor 4, `SmallCurve`) with
field operations on residues, and `LimbsSuffice` and `LimbsSuffice32`
show that the formulas on limbs give the residues' results. Hashes are injections that differ for
different arguments. Tables of multiples of the base point are written by
their definition. Chains of powers work on exponents, without bound.

`Modm` stands for five limbs of 56 bits and for nine of 30, which `Alike`
compares. It also stands for the device: `expand256_modm_device` always reads 64
bytes and has a wrong shift, so that some of the last eight come one too low
(`Misread`); what it makes of them is reduced all the same. The batch of
`CudaGroup` is given what lies behind the 32 bytes of `a0`, and has the keys of
the number both make. That it is not the number of the secret key is the subject
of `walk_device`. Barrett's estimate is too small by less than 0.29 and what
rounding down adds, for the order of the program, so one conditional subtraction
is enough there as in the samples, some of which need it; the code does two.

`multi_scalarmult_vartime_final` begins its sum with the point and takes the
highest bit of the scalar as well, so from 2 on the multiple is not the scalar's
(6 for 2). The batch only asks whether the result is neutral, and `Final`
shows that the answer is the same: both numbers have the same factors of two, and
neither is a multiple of the order.

## Runs

| Run | Shows | Bounds |
|---|---|---|
| `pool` | all safety and liveness properties of a limited run with names, kills and failing `pthread_create`, and that it implements `KeySearch` | 2 workers, 3 keys, limit 2, one key with an old directory |
| `pool_quiet` | an old key's directory is left alone, in an unlimited run without names, on a failing disk | 3 workers, 3 keys |
| `pool_diskfault` | **violated**: a name is announced although its files could not be written | 2 workers, 2 keys |
| `cuda` | no half-written slot, no match forgotten, few lost, none searched twice, ends only when done, implements `KeySearch`; once the kernel is told to end, the run ends if it should and the stored keys are handed on | 2 threads, 3 matches each, buffer 2, limit 3, 2 matching kernels, copies that wait and copies that do not |
| `cuda_delivered` | **violated**: as built a found key waits for the kernel | 2 threads, buffer 2 |
| `seeds` | distinct seeds, none skipped or repeated, forward only, ends | 2 workers, 3 bits, 2 runs |
| `syncwrite` | honest results, implements `AtomicFile` | 3 contents |
| `syncwrite_torn` | **violated**: an interrupted `fsync` counts as done | 3 contents |
| `arithmetic` | key pairs, each point once, near keys; the checkpoint; fields, scalars, groups, keys, signatures, codes | 5 points, batches of 3, two seeds, 8 scalars; all pairs of 3 digits to base 3; 61 values of y, all pairs of points |
| `walk_device` | **violated**: the device multiplies by more than the scalar | one batch of 3 |
| `main` | keys found exactly, options in any order, true statistics, whole records, true times, keys extracted | 3 runs, 2 writers, 2 keys, 2 records, 1 cut, keys of 9 bits in bytes of 3 and digits of 2 |
| `filters_lost` | **violated**: binary search passes over a filter that begins another | as `main`, one build |

Why the bounds are enough to meet the interesting cases. In `pool` two workers
compete for the second of two places and there is a key left for the late
one; the old directory puts one of them on the error path with both mutexes in
use. The proofs remove the bounds for all of its safety properties. In `cuda`
two threads overflow a buffer of two and `*d_remaining` runs below zero; the
second kernel shows what is left over from the first. In `arithmetic` batches
of three do not divide five points, and some scalars overflow in the middle of
a batch; random mode walks five batches, up to the limit of its `size_t`; base
3 is the smallest one with a digit that is neither first nor last. Limbs are
sampled at the greatest, the least and irregular values, among them the prime
and the numbers above it; all pairs of points of the small curve are added; and
scalars go up to the highest one of their width. In `seeds` a carry runs through
up to three bytes; `LastSeed` and `MaxRuns` bound the run below the last seed,
as 2^256 does in the program. In `main` bytes of three bits and digits of two
have the parity of eight and five: digits end within, at and across bytes.
Filters of one to five digits are shorter than, as long as and longer than an
integer and than a line of a filter file. All keys of nine bits are searched.
After the first run only runs that read or write the modelled file follow, and
builds vary only in the runs that just search. The proofs remove these bounds for
the statistics, the records and what is extracted from them.

TLC also checks deadlock: a state without a successor other than an end is an
error in all runs but those of `Program`, which stop after `MaxRuns` runs.

### Fairness

`pool`: weak fairness of each worker and of main, that is, the scheduler runs
every thread that can run. No fairness of a mutex is assumed: a waiting worker
is only guaranteed to get it when it stays free, and the properties hold since
the holders let go and there are finitely many keys. `seeds`: in addition
strong fairness of taking `determseed_mutex` for the workers, which the saver
(five minutes between two saves) does not starve. `cuda`: weak fairness of
every device thread (the grid is not larger than what is resident) and of the
host, and strong fairness of `Flush`, for the half second is over again and
again; where copies wait for the kernel `Flush` is never enabled, and its
fairness asks for nothing.

## Proofs

*WorkerPoolProofs*, for any set of workers, any keys, limit, mode, old
directories and faults (`PoolAssumption`). The safety properties are not
inductive; `IInv` adds what makes them so:

* `TypeOK`, `KeyInHand`, `OwnKeys`: a worker that handles a match has a key,
  and no two have the same;
* `GenMutex`, `OutMutex`: who is in a critical section holds its mutex, and
  nobody else does;
* `Places`: an accepted key is settled or in the hand of a worker committed to
  it, and one still being decided on is not accepted;
* `Counting`: `keysgenerated` is the number of accepted keys, and a worker at
  the increment has room for its own;
* `QuotaKnown`: a full limit is known, or its last worker is about to tell;
* `LateOnce`: after a late key there is no way back to the counter;
* `Joined`: main is past the join only when all workers are done.

Each part has a lemma for the steps that disturb it. `Fresh`, `Stored` and
`Flushed` strengthen the properties about directories, files and names. The
refinement `PoolKeepsPromise` shows that each step is a step of `KeySearch` or
leaves it alone; `PromiseCardinality` bridges the two copies of `Cardinality`
that `INSTANCE` creates. `PoolAnnouncedOnDisk` assumes there is no disk fault,
since it is wrong with them (`pool_diskfault`).

*WalkCodecProofs*, about the walk for any sizes of batch, seed, scalar and
`size_t` where one batch fits a seed, on the CPU (`KeysApart` on the device
too, and for any constants). The invariant says that the point minus the
secret is the counter minus the old counter (`AtHead`, `AtFilter`), so the sum
made for a match is the multiplier of the point that matched. It is kept by
`Match` because the code updates secret and old counter together. About the
checkpoint, for any base and length: the round trip. The carries of the two
loops are wrong at times, but alike: the invariant (`CodecInv`) relates the
carry of loading to that of saving digit by digit.

About the codes of `BaseCodec`, for all bytes and texts of any length:
`CodesSpell` and `CodesRefuse`, of which the questions of `CodesInverse` are
instances (`CodesAlwaysInverse`). Bytes and digits are compared place by place:
`Flip` says where a bit of a byte stands in the stream, `DigitBit` which bit of a
text does (`Streams`, `TextStreams`). The encoders say bit by bit what a digit is
(`Base32Spells`, `Base16Spells`, `Base64Spells`). The decoders go through the text:
`Stored` is what the loop keeps, that the bits so far are stored, that nothing
behind the present byte is touched, and that `cmask` is what is filled of that
byte, which is needed because a digit of base32 may end in the next one
(`StoreDigit32`). That the loops come to the end with it is an induction over the
digits (`LoopDefined`, `LoopStored`, with `Upwards`). `Base64Valid` says where the
check of base64 stops, be it within the `=`.

*SyncWriteProofs*, for any contents: types and `HonestResult` whatever
interrupts the calls, and, supposing that `fsync` is not interrupted, no torn
file and the refinement of `AtomicFile`.

*CudaWorkerProofs*, for any finite set of threads, any buffer, limit and
number of kernels (`CudaAssumption`): all safety properties of `CudaWorker`
and its refinement of `KeySearch`. The parts of `IInv`:

* `Quiet`: behind `cudaDeviceSynchronize` nothing runs on the device;
* `Fresh`, `Hands`: what a thread has in hand is found by it in this kernel,
  and what it finds next was not found before;
* `SlotsKept`: no two threads store to one slot, and the slots behind a store
  hold different matches of this kernel;
* `CopyKept`, `InOrder`: the host works on a copy of the slots taken after the
  end, and has handled what its loop has passed;
* `Counted`: a kernel's matches are `*d_nmatches` and the threads about to claim;
* `Bounded`: each claim beyond the buffer is the last of its thread;
* `EndKnown`, `Accepting`: why the end was requested, and which matches are
  counted and settled meanwhile.

*SeedCheckpointProofs*, for any finite set of workers, any base and length of a
seed and any number of runs. `TypeOK` holds of every behaviour; the other
properties suppose `[]SeedsLeft`, that the seeds do not run out: behind the
last of the 2^256 the increment would begin again at zero. The invariant is
about the seed before the carry went into it, an `f` that exists in every state:

* `Locks`, `Reading`: who works on `determseed` holds its mutex, and what the
  saver has read so far is a part of it;
* `Before(f)`: the bytes the carry has passed are zero and were the greatest,
  the others are those of `f`;
* `Ahead(f)`: neither the file, nor what may be found there after a crash, nor a
  seed handed out or in use is ahead of `f`, and a worker that is about to copy
  it finds it in nobody's use;
* `Covered(f)`: all seeds up to `f` are searched, but one for each worker and
  those given up in earlier runs, no more than one for each worker of them;
* `Ending`: the saver is told to end after the workers have ended, so its last
  save is of the seed handed out last.

That the number of a seed grows by one (`NextNumber`) is an induction over its
bytes. It is done with the least-number principle (`LeastNumber`), which
follows from `FS_StrictSubsetOrderingWellFounded` and `WFMin`, since these need
no operator as a parameter.

*FiltersProofs*, for keys, texts and tables of any size (`FiltersAssumption`:
the sizes are positive, a digit fits in a byte, an integer in a key).
`SearchFinds` is about any table of filters whose masks
are the beginning of a key: whatever is found after sorting, with `-D` or
without, by either search, is a filter the key has, and a key that has one is
found. The second half has the exceptions the code has: byte strings of
different length with `-D` or binary search, and with binary search filters
that begin others and are kept (`filters_lost`). `TextsFound` says the same of
the texts the filters were made of and the name of the key. Their parts:

* `Base32Inverse`: `base32_from` and `base32_to`, which carry bits from round to
  round in a byte or two, put each bit of the text where it belongs, and give
  back what was put in. So bits of a filter are digits of its text
  (`FulfilsBegins`).
* `Listing`, `Continuations`: the subset enumerations of `ifilter_addexpanded`
  and `ifilter_expand` meet each subset once, in place and without overwriting a
  filter that is still to be expanded. `Loaded` is what the table is at any time:
  each text's keys are those of the filters it led to, before and after more
  texts are added, in any order and of any lengths (`LoadedAdd`, `LoadedFile`).
* `LessIsAbove`: `memcmp` and the comparison of integers are decided by the
  highest bit that differs, under two orders of the bits; so both are orders.
* `FiltersOrderly`: `filter_compare` is an order of the filters of a table. For
  byte strings of different length it is not one of bit strings: a mark is
  added for each whole byte (`Marked`). `SortSorts`: what `qsort` then does.
* `BeginsOrdered`: all filters between a filter and one that it begins are
  begun by it. So `filters_dedup`, which looks at neighbours only, drops exactly
  the filters another one begins (`DedupRight`); its moving of blocks is followed
  round by round (`DedupRoundKeeps`).
* `KeySide`: a filter that does not match tells on which side of it the one that
  does is, unless it is begun by that one; with it `BinSearchRight`.
* `ShiftedBit`, `FilterLen`, `WordBegins`: `shiftpk` moves each bit to where the
  rest of the name is read from, and `filter_len` gives the length of the text a
  filter was made of, if it was not expanded. With them `WordsFound`, the search
  for two words.

*ProgramProofs*, for any command lines, workers, keys and bounds
(`StatisticsAssumption`; `YamlAssumption`: values that are not keys are told
from keys; `ProgramAssumption`: a command line is a finite list of options, an
option a finite list of arguments, a group of letters a finite list; filters are
texts or files of lines; and a build has a kind of filters and either search).
Six properties of `Program`, none of which is inductive:

* `StatisticsTrue` needs `Rounds`: the counters and what main has seen of them
  are what was counted, but for whole rounds of 32 bits, and less than one round
  lies between them unless main looked late. Then the difference in 32 bits is
  the difference (`DifferenceRight`), and `LookStep` follows the sums through
  starting anew and halving. What halving drops is bounded by a power of two;
  that one more bit doubles it (`Doubled`) is shown by counting subsets.
* `StampsTrue` needs `Stamps`: between `gmtime` and `strftime` a worker holds the
  mutex, and the shared buffer has its time.
* `RecordsWhole` needs to know all files the program can write. A write may fail
  within any line, and the next record is then joined to that line. `Shaped`
  says what is left of the order of a record: before a good public key stands the
  host name of the same key, before a good secret key its public key, and
  before a time a good secret key. `ShapedConcat` and `ShapedJoin` show that it
  survives both ways of writing behind it. `Midst` says that the reader's flags
  and values are those of the line it read last, so all three are of one key.
  `Seen` covers files made by hand, whose values were each read since the last
  separator.
* `KeysExtracted` needs `Exact`: a file without cuts is five lines for each
  record; and `Progress`: the names of the keys made are those of the records
  whose secret key is behind the reader, or none while `-y` looks for a name that
  was not among them.
* `KeysFound` needs `Searches`: the table of a search is the prepared one of its
  own filters, so nothing is left in it of an earlier run. That it is loaded from
  the texts asked for (`LoadedArguments`, `TextsAre`) is an induction over the
  filters and lines; what it then finds is said by `TextsFound` and `WordsFound`
  of *FiltersProofs*.

* `OrderIrrelevant` needs `Understood`: the configuration is what `Parse` makes of
  the line typed. The proof is about `Parse`: what an option within a line makes
  of a configuration does not depend on the options around it (`OptionWithin`: it
  takes its own arguments and leaves the rest), so a line comes to the options
  one after the other (`LineParse`). An option sets the settings of its names and
  adds filters, and independent options set different ones; hence any order of
  them sums up to the same settings and the same set of filters
  (`SummedAgain`, `Reordered`). `Independent` asks that every option is complete: a
  line that ends within `-n` is refused in one order and means something else in
  another.

The reader compares the form of the keys with an option, and the filters are
prepared under one, so the invariants need that `Parse` leaves `yamlraw` and
`wantdedup` Booleans. `Parse` runs the loop over the arguments as a recursive
function; that such a function exists and keeps what each turn keeps is an
induction over the turns (`ParseTurns`, `ParseKeeps`, with `Upwards`).

*FieldProofs*, for any width of at least 18 bits, any fold up to 19 and words
of thirteen bits more (`DonnaSizes`; 51, 19 and 64 in the code), and for all
limbs, of which the runs can only sample some. The theorems are about the
operators themselves, wraps included:

* Each operation takes limbs up to a multiple of the base and leaves limbs up
  to another: `Stands` after a product, `Basic` after one sum, `Fits` before a
  product. `FieldSums` and `FieldProducts` say that limbs within these bounds
  stand for the sum, difference, product and square modulo the prime, and that
  neither the words nor the 128-bit sums of a product wrap. The carries are
  followed limb by limb (`Carried`); that the number of squarings is free
  (`FieldSquares`) is an induction with `Upwards`.
* `FieldEncodings`: `contract` writes the one number below the prime that the
  limbs stand for. It needs two walks of the carry and an addition of the fold;
  that two are enough, that the last one shows whether the prime is to be
  subtracted, and that different digits give different bits, are its lemmas.
* `SumsOfPoints`: a formula on limbs is the formula on integers (`OnLimbs`,
  `OnNumbers`: two instances of `CudaGroup`, which extends `DonnaGroup`), since
  every step keeps its bounds. On integers the result is the sum by the law of
  the curve, which maps points of the curve to points of the curve
  (`LawOnCurve`), on any curve of this shape (`DonnaConstants` only asks that
  the limbs of 2d stand for twice what those of d do). This includes
  `nielsadd2`, `ge_add` and the device's `ge_pnielsadd_p1p1`.

Only model-checked: all liveness and ENABLED (not in the prover's reach), and,
as properties of `Arithmetic`, `FieldsRight`, `ScalarsRight`, `KeysAgree` and
`SignaturesVerify`. Of these, `FieldsRight` is proved for the field of donna and
the device (*FieldProofs*); the others rest on folds over all the fields,
scalars and points of the small curve. That the inverse is one (Fermat) and that
the order of the base point is prime are facts of number theory the proofs
do without. The type
invariants (`TypeOK`, `CodecTypeOK`) of modules with proofs are theorems and not
among the invariants of the runs; so are the inductive invariants, which were
checked on the same instances before they were proved.

## What the violated runs show

* `pool_diskfault`: results of `writetofile` and `fopen` are ignored
  (`worker.c:112-124`), a full disk loses a key whose name is printed.
* `cuda_delivered`: the polling copy waits for the kernel it is meant to stop
  (`cuda_worker.cu:299`), so a key found early stays on the device until the
  kernel has found all keys asked for or filled its buffer; until then ^C does
  not end the program either.
* `walk_device`: `expand256_modm` on the device reads 32 bytes beyond the
  scalar.
* `syncwrite_torn`: `continue` in `do { } while (0)` leaves the loop instead
  of repeating the `fsync` (`ioutil.c:79-80`).
* `filters_lost`: with `BESORT` and without `-D` a filter that begins another
  one can hide keys from the binary search (`filters_worker.inc.h:75-90`).

Also seen while modelling, without a run: a key whose directory cannot be
created has been counted already, so a limited run may end with fewer keys
(`worker.c:87, 105`); the last multiplication of a batch of signatures is by a
wrong number (`ed25519-donna-batchverify.h:113-136`), which does not change what
the batch decides; a line of a filter file that is longer than the buffer is
taken for several filters (`filters_main.inc.h:432`); statistics of `--cuda` have the same cause as
`cuda_delivered`; with `--enable-batchnum` above 2^21 + 1 the limit of the
passphrase loop becomes negative and then a huge `size_t`; a last record
without all of its fields is accepted at the end of the input of `-Y`
(`yaml.c:300`).

## Not modelled

The SHA-512 and keccak permutations and the assembly of amd64 are out of reach
of TLC; hashes are external. The SSE2 files of donna
(`curve25519-donna-sse2.h`, `ed25519-donna-*-sse2.h`, `*-x86.h`) hold the
functions of the other files in vector instructions and assembly. The Windows variant of `ioutil.c`, `cpucount.c`,
`calcest.c` and PCRE2 filters are pure I/O or outside libraries. `vec.c` only
calls `realloc` with growing sizes; vectors are sequences. Errors of the CUDA
runtime, which the program does not look at, are not modelled, nor are failures
of `createdir` and `fopen` before the search (`main.c:554-594`): the program ends
there, and has at most opened its output file.
