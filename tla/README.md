# Secured-Operation-Systems: verification

The repository holds eleven independent laboratory programs in C, one per
directory. None has a test. This directory holds a TLA+ module for each of
them (two for some), the TLC configurations that check them on small instances,
and proofs of their safety properties for every instance. The programs whose threads or
processes share something are the heart of it, together with the archiver,
which keeps a file consistent across runs.

## 1. The system

| lab, source | state it keeps | operations | what is hard |
|---|---|---|---|
| 11 `lab11_condvar/condvar.c` | `shared_array`, `write_counter`, flags `all_written` and `data_available`, mutex, condition variable | writer loop and finish, reader loop with wait, main's create and join | lost wakeups, spurious wakeups, exit test, termination, lines printed cell by cell |
| 10 `lab10_rwlock/rwlock.c` | `shared_array`, `write_counter`, `read_finished`, rwlock | the same with read and write locks | overlapping readers, writer starvation, lock destroyed on failure |
| 8 `lab8_mtx/main.c` | `shared_data`, `write_position`, mutex | the same with a mutex; cancellation | cancelled threads that still run, unfair mutex, completion test in the critical section |
| 9.1 `lab9_sems/thread_example.c` | `shared_buffer`, `message_counter`, semaphore | writer once a second, reader without a pause | torn messages, starvation |
| 9.2 `lab9_sems/send.c`, `receive.c` | key file, System V segment and semaphore, ids in each process | start up, loops, signal handlers | kill at any point, signal handler between two system calls, removed objects, `semop` results ignored |
| 5 `lab5_archive/main.c` | the archive file, a temporary file | add, extract and remove, compress, list | failure or kill between any two writes, header before data, mark before compression |
| 7 `lab7_shmem/` | key file, segment | as 9.2 without the semaphore | torn reads, leftovers after a kill |
| 6 `lab6_pipefifo/` | FIFO file, pipe | parent writes, child reads | rendezvous of the opens, failing child, SIGPIPE, leftover FIFO |
| 4 `lab4_chmod/mychmod.c` | mode of one file | numeric and symbolic change | stat and chmod are two steps, mode algebra, empty mode |
| 3 `lab3_fork/main.c` | parent and child, stdout buffer | fork, wait, handlers, exit routine | output buffered at the fork, signals in and after handlers |
| 2 `lab2_ls/myls.c` | list of entries | read, sort, display | who frees an entry on which error path, files removed meanwhile |
| 1 `lab1_cat_grep/main.c` | line counter, exit status | number, mark, match | exit statuses, options together; otherwise sequential |

The labs do not interact with each other. Within a lab the parts interact
through shared memory (8, 9, 10, 11, 7), through the file system (5, 7, 9.2)
or through a pipe (6). What makes each correct:

- 8, 10, 11: every line a reader prints is the buffer at one instant; a reader
  leaves only at the end; everybody terminates once created.
- 9.1, 9.2: a reader prints whole messages; one sender at a time; nobody
  waits for somebody who is gone; what is left behind after a kill is known.
- 7: the same of senders; without a lock messages mix, but never go back.
- 5: a record that was completely added is there until it was completely
  extracted, whatever fails in between.
- 6: both sides meet or both end, and the FIFO file is gone.
- 4: the new mode is the old one with exactly the selected bits changed.
- 3, 2, 1: one report per child; every allocation freed once; statuses.

`PROJECT.json` lists the components and the hazards with their lines.

## 2. The modules

    PrefixBuffer            what labs 8, 10, 11 promise, without locks
      ^ implemented by
    CondVarBuffer           lab 11    <- CondVarBuffer_proofs
    MutexBuffer             lab 8     <- MutexBuffer_proofs
    RwLockBuffer            lab 10    <- RwLockBuffer_proofs
    SemChannel              lab 9.2   <- SemChannel_proofs
    Archive <- MCArchive    lab 5, one run at a time, failing anywhere
                                      <- Archive_proofs
    MCPrograms instantiates           <- MCPrograms_proofs
      ArchiveRace           lab 5, runs at the same time
      ShmTransfer           lab 7     <- ShmTransfer_proofs
      FifoTransfer          lab 6, fifo.c
      PipeTransfer          lab 6, pipe.c
      ForkMonitor           lab 3
      ListDirectory         lab 2
    MCTools instantiates              <- MCTools_proofs
      SemThreads            lab 9.1
      ChangeMode            lab 4
      TextTools             lab 1

Common to the thread modules: `pc[t]` says where thread `t` is, and one action
is what a thread does between two points where another can be observed. Each
access of the buffer is a step of its own although it happens under a lock:
the lock has to earn the atomicity. Elements are the numbers 1, 2, ... in the
order they are written; `line[r]` is what reader `r` has printed of its current
line and `view[r]` its last complete line. `main` is the main thread; when it
returns, with either status, the process and its threads are gone
(`ProcessAlive`), and `Exited` is the only step left, so deadlock is checked
everywhere.

**PrefixBuffer.** `log` grows by one element at a time; `Show(r)` takes all of
it into `view[r]` in one step; `Stop(r)` needs the full log. The detailed
modules refine it with `log` as the counted part of the array, so that an
element is published when it is counted and a line is shown when it is
completed.

**CondVarBuffer.** `waiting` is the set of readers blocked on the condition
variable. `CondWait` gives up the mutex and blocks in one step, `SignalData`
sets the flag and wakes at most one reader, `Finish` wakes all. A woken reader
takes the mutex back (`CondReturn`) and tests again. `SpuriousWakeup` wakes a
reader without a signal. `CreateFails` is a failing `pthread_create`.

**MutexBuffer.** `buffer_lock` is the holder, `NoThread` or `Destroyed`.
`CancelWriter`, `CancelReader` and `CleanupAfterCancel` are the error path of
main.c:130-141; a cancelled thread ends at a cancellation point (a `usleep` or
a `printf`) and keeps the mutex if it had it. `pthread_mutex_destroy` does
nothing to a mutex in use (as in the GNU library); locking a destroyed mutex
succeeds without excluding anybody.

**RwLockBuffer.** `rwlock` is the set of holders. With default attributes the
GNU library prefers readers: a read lock waits only for a writer inside.

**SemThreads.** The buffer has `Pieces` pieces, each identified by the number
of the message it belongs to; writing and printing go piece by piece.

**SemChannel.** Segments and semaphores are named after the sender that created
them and carry the key `ftok` made of the key file; `Keys` are the keys
different inodes can lead to. Ids reach the global variables in a step after
the call that created the object, because the handler can run in between.
`Signal` is the handler of `send.c` (three more steps: `RemoveSegment`,
`RemoveSemaphore`, `RemoveKeyFile`), `SignalAgain` the other signal, for which
the handler begins again, even when it has got to `exit`: `mishap` tells these
two cases apart, because only the second can remove the key file of somebody
else. `Killed` is SIGKILL, a failing system call
(`report_error`), a signal before the handlers are installed, and every signal
to a receiver. `Resume` is a process stopped and continued while it blocks in
`semop`, which then fails with EINTR and is taken for success; `mishap` names the
semaphore. A removed segment
loses its content when nobody has it attached any more (`Detach`).

**Archive.** A file is a sequence of cells: one for a header, one for each
piece of data. `op` is where the current run is: adding, scanning for a record,
copying it out, compressing. `AddEnds` and `Interrupted` end a run anywhere.
A directory as source can be opened and measured but not read. Where the
program takes data for a header, the model lets it jump anywhere or stop
(`SkipGarbage`, `CompressGarbage`). `intact` and `complete` belong to the
model: whether any record was left unfinished so far, and what was completely
added and not yet removed.

**ArchiveRace.** The same program seen by several runs at once: files have
identities, an adder writes to the file it opened and an extractor marks in the
file it opened, while `CompressOpen` and `Rename` go by the name. Files added
are texts as long as a header, so that a misplaced one is read as a definite
(deleted, huge) record. `mixed`, `raced` and `crossed` remember what overlapped.

**ShmTransfer.** The structure of `SemChannel` without the semaphore: `memcpy`
copies the pieces in any order on both sides, a sender can be killed, and
signalled twice.

**FifoTransfer.** Several runs on the same name. `name` is the FIFO the name
stands for; `fd[p]` the one process `p` opened. `Open` waits in "opening" until
the other side comes. Every branch that calls `unlink` removes whatever FIFO
the name stands for, or fails to. **PipeTransfer.** `ends[p]` are the ends a
process holds; reading at the end of file and SIGPIPE follow from them;
`failures` are the calls that failed.

**ChangeMode.** Mode strings are sequences of characters, parsed as the code
does (`Leading`, `ValidOperator`, `ValidRights`, `Numeric`), a mode is a set of
bits, and `ReadMode` and `WriteMode` are the two system calls of a symbolic
change. `Number`, `WellFormed` and `Meaning` say independently what a string
means.

**ForkMonitor.** `signal` and `sigaction` leave different handlers: that of
SIGINT is reset when it runs, that of SIGTERM blocks the signal. `CallExit`,
`CallRoutine`, `FinishRoutine`, `Flush` and `Leave` are exit; a signal can come
between any two. `exit` takes a routine off its list before it calls it, so one
that is interrupted by a handler is never finished. `WaitFails` is the parent
that learns nothing of its child.

**ListDirectory.** The copies of the entries and how often each is freed;
`LoadFails` frees the list in its place and goes on to `CleanupApp`; `Remove` is anybody else in the directory. **TextTools.** One source after the
other, line by line; `Expected` is the reference for what each contributes.

**MCPrograms** (labs 2, 3, 5, 6, 7) and **MCTools** (labs 1, 4, 9.1). These
programs share nothing, so one state graph has a part for each: `program` names
the one that runs, and the variables `a`, `b`, ... are its memory. The pipe, the
FIFO and the threads of lab 9 have variables of their own, because the liveness
properties look at these in every state. There are two such modules because a
proof sees the variables of all programs at once. The constants of the programs
are constants of these modules wherever a theorem is to hold for any value.

A definition whose name ends in `_Bug` is a deliberately wrong version of the
definition after it. Nothing uses it; swapped in, it shows that the property
named in `PROJECT.json` ("mutants") notices.

## 3. The runs

`tlc -config X.cfg M`, in this directory.

| cfg, module | instance | checks |
|---|---|---|
| `CondVarBuffer.cfg` CondVarBuffer | 3 readers, 3 elements, 1 spurious wakeup | `NoLostWakeup`, `IInv`, `FreshLines`, `SnapshotSpec`, `AllJoined` |
| `CondVarBuffer_exit.cfg` CondVarBuffer | 2, 2, 0 | finding: `ExitMeansNoMoreData` |
| `MutexBuffer.cfg` MutexBuffer | 3 readers, 3 values | `TypeOK`, `LeaversSawAll`, `SnapshotSpec`, `AllJoined` |
| `MutexBuffer_cancel.cfg` MutexBuffer | 2, 2 | finding: `CancelledBeforeCleanup` |
| `RwLockBuffer.cfg` RwLockBuffer | 3 readers, 3 elements | `TypeOK`, `OverlappingReadersAgree`, `NothingAfterFinish`, `SnapshotSpec`, `AllJoined` |
| `SemThreads_starve.cfg` SemThreads | 2, 2 | finding: `WriterKeepsWriting` |
| `SemChannel.cfg` SemChannel | 2 senders, 1 receiver, 1 key, 2 pieces, 2 numbers | `TypeOK`, `TornOnlyWhenTakenDown`, `OneSender`, `LeftoversHaveLostIds`, `EveryoneGetsIn` |
| `SemChannel_instance.cfg` SemChannel | 2, 1, 1, 1, 1 | finding: `RefusedByAnother` |
| `Archive.cfg` MCArchive | 2 paths, 3 contents, 5 cells | `TypeOK`, `NothingIsLost`, `ExtractedBeforeDeleted` |
| `Archive_added.cfg` MCArchive | the same | finding: `AddedMeansThere` |
| `MCPrograms.cfg` MCPrograms | one instance of each program, see below | `TypeOK` and the properties of labs 2, 3, 5, 6, 7 |
| `MCTools.cfg` MCTools | one instance of each program, see below | `TypeOK` and the properties of labs 1, 4, 9.1 |

The instances in `MCPrograms` and `MCTools`:

| lab | instance | checks |
|---|---|---|
| 1 | stdin or two files of up to two lines, every set of options | `PrintsAndReports` |
| 2 | every subset of 4 names, two of them equal to `strcasecmp`, capacity 1 | `FreedOnce`, `ShowsAllSorted` |
| 3 | parent and child, any signals, terminal or not | `CleanedUpOnce`, `ReportCanBeReliedOn`, `FirstLineOnce` |
| 4 | one run with any string of up to 3 of 9 characters, one of three others | `OnlyWellFormed`, `OneAfterTheOther` |
| 5 | 2 adders, 2 extractors, each of any record | `LostOnlyInARace` |
| 6 | parent and child; 2 runs on one FIFO name | `DeliveredOrKilled`; `NoFifoLeftBehind`, `TheyMeet` |
| 7 | sender and receiver, 2 messages of 2 pieces; 3 senders | `NeverOlder`; `NoOldSegment` |
| 9.1 | 3 pieces, 3 numbers | `LinesAreCurrent`, `ReaderKeepsUp` |

What they show:

- **Lab 11.** No reader sleeps through news, every line is longer than all
  lines before it, of whichever reader, every line is a snapshot, and once all threads exist the program ends. But a reader
  can leave before the last elements were printed by anybody: the exit test
  does not look at `data_available`, although the comment speaks of "no more
  data".
- **Lab 8.** A reader that finishes has printed the full buffer. When a
  `pthread_create` fails, main destroys the mutex and returns while the
  cancelled threads run; snapshots stay true, because the position is tested
  for every cell and grows only after the store.
- **Lab 10.** Readers that overlap agree cell by cell, and once the flag is set
  no reader begins, goes on with or ends a line.
- **Lab 9.1.** Lines are whole and current; the writer can starve.
- **Lab 9.2.** A mixed message appears only while the channel is taken down, or
  on a channel where a process was stopped and continued while it waited for
  the semaphore. There is at most one sender, unless a second signal reaches a
  handler that has already removed the key file; then there can be two. What a later sender can trip over is exactly an
  object whose id never reached the handler. Nobody waits for ever unless the
  process that should give the semaphore back is dead. The message "Another
  instance is already running" also appears when nobody runs.
- **Lab 5.** Nothing completely added before any damage is lost and nothing
  deleted returns. After damage a later add reports success for a record that no
  reader finds: in the shortest trace the write of a header fails in the middle,
  and the next header is read from the fragment. Between concurrent runs only adds that
  overlap a compression are lost, and only overlapping extractions bring a
  record back, provided no two adds overlap.
- **Lab 7.** Messages mix (the property does not say otherwise), but no piece a
  receiver reads is older than one it read before. An old segment meets a new
  sender only after a kill or a second signal.
- **Lab 6.** The pipe's read returns even when the parent dies first, since
  the child closes its write end. The pipe's message arrives unless somebody was killed or a
  read or write failed. The FIFO outlives the parent of its run only if this was
  killed or its `unlink` failed. Runs of the same name disturb one another: after a
  failure a child of one run can answer the parent of another, whose own child
  then waits with nobody to come; `TheyMeet` excepts exactly this.
- **Lab 4.** Exactly the well-formed strings are carried out and mean what they
  should; the empty string counts as the number 0. At every moment the mode is
  what some of the runs done make of it, one after the other; of all of them,
  unless a change was made between another run's stat and chmod, which can be
  lost, but only as a whole.
- **Lab 3.** Whoever ends by exit has cleaned up once, or in part where a
  handler interrupted the clean-up, or not at all where `atexit` failed. A
  report of code 42 means that the child has worked and cleaned up, of code 0
  that a handler ended it; it has no other code. Off a terminal each of the two
  processes writes the first line once, so that it appears twice.
- **Lab 2.** A file removed while it is listed ends the listing, and makes
  cleanup free twice every copy handled so far; on no other path is a copy
  freed twice or kept, be it one where loading fails and frees the list itself.
- **Lab 1.** Output and statuses are those of the reference, which counts anew
  in every file and lets one file without a match outweigh the others.

Bounds. Three readers are the least for which one wakes another's successor and
a third sleeps; three elements give a first, a middle and a last. Two pieces
are the least that can be torn, three give a middle. Two message numbers tell
the current message from the one before; three in `SemThreads` also keep the
initial text apart. Two senders are a sender and its successor. One key is the
interesting case for `SemChannel`: the successor meets what its predecessor
left. Five cells hold two records with data, or an unfinished record and two
after it. `MaxSpurious` bounds the spurious wakeups of a behaviour, `Resume`
happens once, `message_counter` is kept modulo `Numbers`, `MaxCells` bounds the
archive: these are the bounds a model adds, and each is named where it acts.
`SemChannel` has at most one stop or second signal in a behaviour (`mishap` is
set once),
`ShmTransfer` two signals to a sender and `Messages` messages. Three senders in
lab 7 are one that is signalled twice, the one whose file it removes, and the
one that meets the segment then. Three letters are a class, an operator and a
right; five digits are the longest that can be both right and too many.

## 4. Fairness

- Lab 11: weak fairness of every thread. Readers without news sleep, so the
  writer cannot be kept from the mutex for ever; no more is needed.
- Lab 8: strong fairness of the writer's lock. Readers come back until the end,
  but each sleeps at least 100 ms between two holds of 5 ms.
- Lab 10: strong fairness of the writer's lock, and `ReadersPause`: again and
  again no reader holds the lock. The code's justification is the 100 ms sleep
  after each line; with readers preferred nothing else lets the writer in.
- Lab 9.1: strong fairness of the reader's wait (the writer sleeps a second),
  only weak fairness of the writer (the reader does not sleep).
- Lab 9.2: strong fairness of `semop`'s lock (everybody sleeps seconds between
  two turns). Signals, stops and kills are never forced.
- Lab 6: weak fairness of every process's own steps: a call that can return
  does. Failures and kills are never forced. (Nobody competes here.)
- Labs 1-5, 7: safety only. Labs 1, 2, 4 are loops over finite input; a sender
  of lab 7 waits for nobody.

## 5. What is proved

By `tlapm`, for every value of the constants that satisfies the assumptions.
`X_proofs` extends `X`.

| module | theorem | statement | assumed |
|---|---|---|---|
| `CondVarBuffer_proofs` | `Invariance` | `Spec => []IInv` | `CondVarAssumption`: the numbers are natural, readers and elements at least one |
| | `Typing` | `Spec => []TypeOK` | |
| | `WakeupsAreKept` | `Spec => []NoLostWakeup` | |
| | `LinesAreFresh` | `Spec => FreshLines` | |
| | `Refinement` | `Spec => SnapshotSpec` | |
| `MutexBuffer_proofs` | `Typing` | `Spec => []TypeOK` | `MutexAssumption`: the same for lab 8 |
| | `NobodyLeavesBlind` | `Spec => []LeaversSawAll` | |
| | `Refinement` | `Spec => SnapshotSpec` | |
| `RwLockBuffer_proofs` | `Typing` | `Spec => []TypeOK` | `RwLockAssumption`: the same for lab 10 |
| | `ReadersAgree` | `Spec => []OverlappingReadersAgree` | |
| | `FinishIsFinal` | `Spec => NothingAfterFinish` | |
| | `Refinement` | `Spec => SnapshotSpec` | |
| `MCTools_proofs` | `EveryLineIsPrinted` | `Spec => []PrintsAndReports` | `ToolsAssumption`: files are sequences of lines, mode strings sequences of characters, the runs of lab 4 are finitely many and begin with a set of mode bits; a message of lab 9.1 has a piece, and there are at least two numbers |
| | `ExactlyTheWellFormed` | `Spec => []OnlyWellFormed` | |
| | `ChangesAreWhole` | `Spec => []OneAfterTheOther` | |
| | `OnlyCurrentLines` | `Spec => LinesAreCurrent` | |
| | `TypesAreKept` | `Spec => []TypeOK` | |
| `SemChannel_proofs` | `KeyFileIsALock` | `Spec => []OneSender` | `SemChannelAssumption`: nobody is sender and receiver, the values for "no id" and "no file" are neither, the bounds are at least one |
| | `StoredIdsAreEnough` | `Spec => []LeftoversHaveLostIds` | |
| | `MessagesAreWhole` | `Spec => []TornOnlyWhenTakenDown` | |
| | `ChannelTypes` | `Spec => []TypeOK` | |
| `Archive_proofs` | `RecordsAreKept` | `Spec => []NothingIsLost` | `ArchiveAssumption`: there is a path; the files consist of pieces that are not headers, one file is empty; an archive can have a cell |
| | `CopiedBeforeRemoved` | `Spec => ExtractedBeforeDeleted` | |
| | `ArchiveTypes` | `Spec => []TypeOK` | |
| `ShmTransfer_proofs` | `ReceiversNeverGoBack` | `Spec => NeverOlder` | nobody is sender and receiver |
| | `SegmentsAreRemoved` | `Spec => []NoOldSegment` | also: `NoKey` is not a key |
| | `ShmTypes` | `Spec => []TypeOK` | also: `Messages` is natural |
| `MCPrograms_proofs` | `CopiesAreFreedOnce` | `Spec => []FreedOnce` | `ProgramsAssumption`: the list of lab 2 has room for one entry at first; a run of lab 5 adds or extracts, and is neither the archive nor the record there was before; the values for "no FIFO" and "no file" are not a run or a key; the sender of lab 7 is not its receiver |
| | `ListingsAreComplete` | `Spec => []ShowsAllSorted` | |
| | `ExitCleansUp` | `Spec => []CleanedUpOnce` | |
| | `ReportsAreReliable` | `Spec => []ReportCanBeReliedOn` | |
| | `FirstLineIsNotRepeated` | `Spec => []FirstLineOnce` | |
| | `RecordsLostOnlyInRaces` | `Spec => []LostOnlyInARace` | |
| | `FifosAreRemoved` | `Spec => []NoFifoLeftBehind` | |
| | `ReceiversNeverGoBack` | `Spec => NeverOlder` | |
| | `SegmentsAreRemoved` | `Spec => []NoOldSegment` | |
| | `TypesAreKept` | `Spec => []TypeOK` | |

Each safety theorem has the same shape: an inductive invariant `IInv` (in
`SemChannel_proofs` a second one, `MessageInv`, in `ShmTransfer_proofs`
`KeyIInv` and `TypeIInv`), `Init` implies it, every action
keeps it, and it implies the property, or the step property holds of a step
that starts in it. What the invariants say, and why:

**CondVarBuffer.** `NoLostWakeup` is not inductive: that a woken reader still
sees the flag depends on nobody clearing it in between, so `MutualExclusion`
(who is inside holds the mutex, and the other way round) and `WaitersWait` are
needed. A line is a snapshot because the counter stands still under the mutex
(`LinesAreTrue`) and the cells below it are filled (`BufferFilled`, which ties
the array to the writer's place in its loop). `FreshLines` needs `NewsIsNew`:
announced data is more than anybody has shown; it holds after a reader clears
the flag because nothing is announced then, and the writer makes it true again
by counting before it announces. `ReadersObeyFlags` carries the tests made at
the top of the loop to the end of the line. `Unborn` says that `main` creates
each thread once. There is a lemma per conjunct and step (`MutexStep`,
`FilledStep`, `LinesStep`, ...), frame lemmas that say what each kind of thread
leaves alone, and facts about `Upto(n)`, the sequence 1..n.

**MutexBuffer.** The snapshots do not need the mutex, and the proof does not
use it for them: a cell is stored before it is counted (`BufferFilled`), the
position only grows, and a reader tests it for every cell, so what it has
printed is always a prefix of the counted part (`LinesAreTrue`). This is why
they survive a destroyed mutex. That a reader leaves only with the full buffer
does need it: the test of the position belongs to the line just printed only if
nobody writes in between (`ShownBeforeTest`), which follows from `Exclusion`,
claimed only while main has not started to fail (`InUse`).

**RwLockBuffer.** `Exclusion` goes one way: who is inside holds the lock, the
writer alone. While a reader is inside the counter stands still, so lines are
prefixes of the array (`LinesAreTrue`), and two of them at the same place are
equal. The flag is set inside the lock, hence with no reader inside, and a
reader that comes in later tests it there: `NobodyAfterFinish`. `FullAtFinish`
says that the flag implies a full array, so a reader that leaves may.

**SemThreads** (in `MCTools_proofs`). `Exclusion` of the semaphore, a buffer whose written pieces are
of the current message wherever the writer is (`BufferIsCurrent`) and a line
whose printed pieces are (`LineIsCurrent`).

**MCTools.** The other two programs are proved there for any input, not only
the bounded ones the run tries.

- Lab 1. While a source is read, there is a number `n` of its lines that have
  been read, the output is what the sources before it and its first `n` lines
  contribute, and the counter is that of these lines (`Reading`). The reference
  flattens a sequence of contributions, which the library defines by a recursive
  function; that one more part is one more concatenation needs that this
  function has a value everywhere and that two functions with the same equations
  agree (`Iterated`, `Iterates`, `SameIterates`). The induction is upwards, over
  an interval, and stated with a set (`Upwards`), as in `Archive_proofs`.
- Lab 4, strings. `NumericMeans`: the bits the digits give one by one are those
  of the number they are, which is a recursive function of the string, and they
  are within 07777 just if the number is (`Number`, `HasBit`). `SymbolicMeans`:
  the loop over the leading classes stops at the operator just if the string
  splits there, and masking the named rights with the classes gives bit by bit
  what `Meaning` says.
- Lab 4, runs. What runs make one after the other is again iterated (`Steps`):
  one more run does to the mode made so far what its string means (`OneMore`).
  That the mode is always so made is not inductive: a run writes what it made of
  the mode it read, so the invariant also says that this one was so made, and is
  still the file's unless the run was overtaken (`HasRead`).

**SemChannel.** `Locked`: unless a second signal came after the removal
(`SignalledAtExit`), there are never two owners of the key file, and while there
is one the file exists; a handler that begins again before the removal still
owns it. If a killed
sender left the file behind, no sender gets past `open` again (`Orphaned`).
Otherwise an object whose id was stored is there only as long as its sender has
not reached the call that removes it (`StoredObjects`). `IdsAreOwn`: the ids a
sender stores are those of its own objects, and it has none before it made
them. Most actions (receivers, the loop, `Resume`) touch none of this: `QuietStep`
covers them together.

`TornOnlyWhenTakenDown` needs more, and `MessageInv` is that: what each sender
has made, under which key, and whether it knows of it (`OwnIds`; for a receiver
`FoundIds`); `IPC_EXCL` leaves at most one object of a kind per key
(`OnePerKey`), so a receiver inside the semaphore it found keeps the sender of
the segment it found out, although it looked the two up one after the other.
`Seats` is the semaphore: its value and the number of processes inside add up to
one at most, to nothing before `SETVAL`, and to one more after a stop. A message in memory is whole,
or its sender is writing it (`HalfWritten`), or has left in the middle of it
without giving the semaphore back, so that nobody gets in any more (`GivenUp`).
What a receiver has copied is what is still there (`Copies`). The exceptions of
the property appear in the invariant as they do in the property: an object that
was removed, and a process that was stopped while it waited for this very
semaphore. The kinds of steps
are one lemma each, and a lemma per conjunct.

**ShmTransfer.** `MemoryGrows`: a segment holds nothing newer than its sender's
current message, so copying never takes a piece back; `DataLagsBehind`: what a
receiver holds is, piece by piece, at most what its segment holds. For the leftovers, `Undisturbed` states the exception (a kill or a
second signal), `OneOwner` is the lock as in `SemChannel`, and
`HandlersAreCounted` ties the handler a sender is in to the signals it got.

**Archive.** The invariant says that there is an end `e` before which the
archive consists of whole records (`Whole`: every header is followed by its
data and the next header), and that `complete` is what a reader finds before
it. Behind it is whatever was damaged, or the record being added (`Adding`); as
long as nothing is damaged there is nothing. A scan has passed no live record
with the path (`Scanning`), so that what it finds is the first (`Copying`),
`output` is the data copied so far, and the temporary file holds the live
records that were passed (`Compressing`): exactly those until the end, and
behind the end at least those, whatever else the damaged part made it copy.

What a reader finds is defined by a recursive function over the archive. That
it has a value everywhere is proved (`RecordsUnfold`), and so are the equations
the steps need: the records of two parts that are cut where a record begins are
those of the one followed by those of the other (`JoinRecords`, `JoinWhole`,
`CutWhole`, `Shift`), a header and its data are one record or none
(`OneRecord`), and a mark takes one record out (`Marked`). The library's
induction theorems have an operator as parameter; the induction from the end
of the archive to its beginning is therefore stated with a set (`Downwards`)
and proved from the least element of a set of naturals, which exists because
the finite subsets of a set are well-founded under inclusion (`LeastElement`).

**MCPrograms.** Only the program that runs takes steps (`OneProgram`), so what
a program's own steps keep is kept by those of `MCPrograms`. The invariants of
labs 2, 3, 5 and 6 stand in their modules, as `IInv`; those of lab 7 come with
`ShmTransfer_proofs`, which is instantiated like `ShmTransfer` is. For the types,
what a process of lab 6 has open is the FIFO of some run (`Opened`), and a
receiver of lab 7 that has got past `shmget` has found a sender's segment
(`TypeIInv`). The theorems
hold for any names, order of names and first capacity in lab 2, any number of
adders and extractors in lab 5, of runs in lab 6 and of other senders in lab 7.

- Lab 2. The list has every name that was read once (`Distinct`), and a name is
  in the list or still in the stream (`Fresh`). The names behind the index are
  those neither shown nor freed (`Displaying`, `Handled`). After the sort the
  list has the names it had before, because a list of different names that is
  as long has them all (`NothingIsMissing`, from the library's facts on
  injections of finite sets).
- Lab 3. `Registered`: a process that has registered the exit routine has it
  before it, is in it, has it behind it, or was torn out of it by a handler,
  which gives it the code 0; where the routine could not be registered no
  handler is installed. `Handlers` says which handlers the
  child inherits. `Reported` ties the child's end to its work. `LinesWritten`
  counts the first line: a process has it in its buffer or has written it, not
  both.
- Lab 5. A file has at most one header of a record, and none before its adder
  wrote it (`OneHeader`, which also says that what was copied lies behind the
  copier, so that copying keeps this true). Nobody has an extractor's temporary
  file open before it is renamed (`OwnFile`). For the second part of
  `LostOnlyInARace`: as long as extractions do not overlap, every extractor
  that runs has the archive open, and an extracted record is not live in the
  archive nor in what is being made of it (`Extracted`). For the first part: as
  long as adds do not overlap, headers and texts alternate in every file, so
  that readers and copiers stand on headers only (`Alternating`), and a record
  that was added, not extracted and in no race (`Safe`) is in the archive and,
  while there is a compression, in the new file or still ahead of the copier
  (`NothingLost`). There is a lemma per action; two for `CompressRecord`, which
  copies the record (`CopyKeeps`) or does not (`SkipKeeps`).
- Lab 6. `MakersAreInside`: while the FIFO a run made is there, its parent is
  between `mkfifo` and `unlink`, or was killed there or could not unlink it.

Only model-checked: liveness (`AllJoined`, `ReaderKeepsUp`, `EveryoneGetsIn`,
`DeliveredOrKilled`, `TheyMeet`), which is out of the prover's reach. Every
safety property a passing run checks is proved. That a run of the archiver
reports success only for a record that is there is refuted after damage
(`AddedMeansThere`); that it holds before any damage is a lemma
(`AddedIsThere`).

## 6. Not modelled

- The handler's `IPC_RMID` of id 0 when no id was stored (lab 9.2): it is not an
  object of this channel.
- Lab 10: what a destroyed rwlock does. The model lets it work on until main
  returns; no property claims anything for other libraries.
- Removal of the key file by hand, which is how one gets out of
  `RefusedByAnother`.
- Lab 5: modes, owners and times of extracted files, what an output file held
  before, data that happens to look like a header with the path asked for.
  Seeking failures are interruptions. Failures of a run and several runs at
  once are in different modules, not together.
- Text, time stamps, thread ids and the wording of messages everywhere; columns,
  colours and the long format of lab 2; regular expressions in lab 1 (a line
  matches or does not). A process stopped and continued in labs 3, 6 and 7.
- Makefiles and sample files: nothing runs.

## 7. Plan

Done: a module for every program, a property for every listed hazard except the
`O_TRUNC` of lab 5 (item 2 below) and the destroyed rwlock of lab 10 (a library
other than the GNU one; undefined behaviour), refinement of `PrefixBuffer` proved for all
three of its implementations, and every safety property of every program
proved. What remains, in this order:

1. One abstract single-slot channel that `SemChannel` implements between its
   exceptions and `ShmTransfer` does not.
2. Lab 5: attributes and previous content of extracted files (main.c:72-85,
   258); failures and several runs in one module.
3. A process stopped and continued in labs 3, 6 and 7.
