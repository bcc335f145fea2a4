# KTracker in TLA+

KTracker stops an application once a second with ptrace, compares its memory
with a local copy, records which cache lines have changed, and lets it run
on.  This directory models that program (`src/src/*.c`), checks the models with
TLC and proves the most important results with TLAPS.

## The system

| part | code | state | what makes it correct |
|---|---|---|---|
| stop/resume control | `tracker.c` `main`, `proc_trace`; `common.c` `proc_*` | `tid`, `tids`, `_stop_requested`, the local `pid` that `proc_check_status` awaits | memory is read only while the application is stopped; every thread is found; nobody stays stopped; the tracker ends when asked to |
| application and kernel (external) | used through ptrace and waitpid | the state of every thread, pending interrupts, unreported stops | - |
| mapping list | `proc_maps.c` | `ProcInfo` | the writable mappings, in order, without overlap |
| local copies | `tracker.c` `update_local_maps` | `procinf`, `procinf2`, the allocated copies | a page keeps what the last snapshot held of it, whatever happened to its mapping |
| comparison | `tracker.c` `find_dirty_data` | loop positions, copies | the cache lines that changed since the last snapshot, all of them and no others |
| table and dcl file | `htable.c` | `tble`, the file | one row per dirty page, one block per iteration |
| thread list storage | `common.c` `get_tids`, `add_tid` | `tid`, `tids_max` | room for every entry and the terminator |
| timers | `ptimer.c`, `timer_*` | start and stop times, totals | started before they are stopped, on every path; no time counted against the wrong side |
| placement, physical addresses, write protection | `numalib.c`, `pagemap.c`, `write_protect_pages` | - | compiled out, or without effect on the above |
| scripts | `scripts/*.py`, `*.sh` | - | read the dcl file as it was written |

How they interact: `proc_trace` calls `proc_resume_all`, sleeps, calls
`proc_pause_all`, and, with every thread stopped, `parse_maps_file`,
`update_local_maps` and `find_dirty_data`, which fills the table and appends it
to the file.  The control part never looks at memory and the memory part never
looks at threads; what joins them is that memory is read only between a pause
and the next resume.  So the project has two halves.  `Tracker` proves that the
application stands still at that point; `WriteSet` takes this as given and
shows what the comparison then yields.  `KTracker` puts the two together, with
threads that write whenever they run, and `ProcFs` is what both read from `/proc`.

Hard behaviour: an event (clone, exec, exit, fork, signal, exit_group) can
overtake the interrupt the tracker has sent; a blocking `waitpid(pid)` serves one
thread while others wait for the tracker; the table grows under the loops that
walk it; SIGINT and the end of the application come at any point; mappings
change in any way between two snapshots; the table has a limit.

## Modules

`Tracees` (external: the application and the kernel).  A thread's `state` is the
name of its ptrace-stop or `running`, `starting` (auto-attached, its first
stop still to come), `dying`, `zombie`, `reaped`, `unborn`.  `seen` says that
waitpid has returned the stop, `intr` that a `PTRACE_INTERRUPT` is pending; any
other trap discards it.  The constant `Ops` says what the application does and
`Racy` which of these can still happen while an interrupt is pending.

`Tracker` (`EXTENDS Tracees`).  `pc` is the place in the program, `idx` the loop
variable (from 1), `tid` the table as a sequence (`tids` is its length, an entry 0
is `NoPid`), `ntids` the argument of `proc_seize_and_pause` that shadows the
global, `waitfor` the `pid` of `proc_check_status`, `paused` its caller's `r`,
`stop` is `_stop_requested`, `failed` the assertion that ended the program.

| code | action |
|---|---|
| `proc_seize(pid)`, `get_tids` in `main` | `SeizeLeader`, `GetTids` |
| `proc_seize_and_pause` | `SeizeNext`, `SeizedPause`, `SeizeDone` |
| `proc_pause` | `ProcPause`, in `SeizedPause` and `PauseNext` |
| one turn of the loop of `proc_check_status` | `OnExited`, `OnExitEvent`, `OnForkEvent`, `OnExecEvent`, `OnCloneOrSignal`, `OnNewThread`, `OnPaused`, `CheckDone`, `NoChild` |
| `proc_resume_all`, `proc_pause_all` | `ResumeNext`, `ResumeDone`; `Wake`, `PauseNext`, `PauseDone` |
| `proc_trace` | `FirstSnapshot`, `Loop`, `Wake`, `Snapshot` |
| `sigint_handler` | `SigInt`, and `SigIntInWait` when it interrupts waitpid |

`StopTheWorld` is the abstract specification of the control part: an observer
that reads only while nobody is active, and nobody becomes active while it
reads.  `Tracker` implements it with `reading` as `pc = "work"` and `active` as the
traced threads that execute code (`ReadsStoppedWorld`).

`Maps`: mapping lists, ranges of page numbers.  `LocalMaps` (`EXTENDS Maps`):
`update_local_maps`, one action per turn of its loop, grouped by how the two
mappings lie (`SameMapping`, `OverlappingMapping`, `DisjointMapping`) and
`FirstCopy` for the call with `procinf2 == NULL`.  A copy is an allocation, a
function from page offsets to the page whose data it holds, so that a wrong
offset or length shows.  The loop ends with the shorter list (`tracker.c:160`), so that
mappings behind the end of the old one keep `local_vaddr_start == 0`: the model starts with
old mappings that have a copy and others that have none (`oldLocal`), and the memcpy
from such a one kills the tracker (`NullSource`, `crashed`).

`HTable`: the table as a sequence of rows, `htable_init`, `htable_add_iter`,
`htable_add`.  `WriteSet` (`EXTENDS Maps, HTable`): the application's windows,
then `BeginSnapshot` (`parse_maps_file`, `update_local_maps` as one function,
`htable_add_iter`), `ReadPage`, `ReadError`, `DiffLine`, `PageDone`, `MappingDone`
(the three loops of `find_dirty_data`) and `EndSnapshot` (`htable_print`).  `copy` has a
page for each page of the mappings that have a local copy (`HasCopy`, `WithCopy`), which
need not be all of them; where one is missing the tracker dies, in the merge
(`UpdateCrash`) or in the comparison of the page's first line (`CompareCrash`).
`MergeIsUpdate` of `LocalMapsProofs` shows that this is what `update_local_maps` does.

`WriteSets` is the abstract specification of the memory part: each snapshot
reports the cells that differ from the last one.  `WriteSet` implements it
(`ReportsWriteSet`).  A snapshot is taken there when `BeginSnapshot` happens here;
while `find_dirty_data` runs, the abstract report is what the table holds
together with what the loops have still to find (`Pending`).  When the application or
the tracker is killed (`Die`), the report of the last window may be incomplete and no
other follows: of a tracker that crashes, the block of the current snapshot is missing,
and the blocks before it stand.  A page that is not mapped counts as zeros; one that is
mapped and not writable does not, so the refinement holds only of an application that
changes no protection (`WriteSetProtect` shows what happens otherwise).

`ProcFs` (`EXTENDS Maps`): `get_tids` entry by entry (`ReadTask`, `ReadTaskEnd`), `add_tid`
(`AddTid`), and `parse_maps_file` line by line (`OpenMaps`, `ReadLine`, `CloseMaps`),
with the arrays that these fill.  `proc_mappings` still holds an earlier list when
the next one is read into it; `k` is the position, `Keeps` the test that decides
whether the next line overwrites the entry.

`Timers`: the application's timer and the pause timer, as the set `started` of
those whose `_startT` has not been reset, and the frequency of `ptimer.c`.

`KTracker` (`EXTENDS Tracker, Timers`): the whole program.  The steps of `Tracker` are
taken together with what happens in them besides:

| code | action |
|---|---|
| `timer_paused_start` in `proc_seize_and_pause`, in `proc_pause_all` | `GetTidsTimed`, `CheckDoneTimed` |
| `timer_app_start`, `write_protect_pages` in `proc_resume_all` | `LoopTimed` |
| `timer_paused_stop`, `timer_app_stop` | `ResumeDoneTimed`, `PauseDoneTimed` |
| `htable_add_iter` and the start of `find_dirty_data` | `BeginSnapshot`, in `FirstSnapshotBegins` and `PauseDoneTimed` |
| one page of `find_dirty_data`, its `break` | `ReadPage`, `ReadNothing` |
| the return of `find_dirty_data` | `SnapshotTaken` |
| everything else of the tracker | `Control` |

The application writes (`Write`) and gets a new memory by execve (`NewImage`).  The
memory is read through the pid of the leader, so there is none once the leader is a
zombie (`HasMemory`).  `written` is a history variable: the pages written since the
last snapshot.  Mappings and lines are left to `WriteSet`.  `ImplementsTracker` of
`KTrackerProofs` shows that dropping the additional variables gives `Tracker`.

`WriteWindow` is the abstract specification of the whole program: a report is the
difference of the memory at two moments.  `KTracker` implements it (`ReportsWindow`),
with the snapshot taken there when the snapshot begins here, so that `report` is `dirty`
together with what the loops have still to find, as in `WriteSet`; `alive` is
`HasMemory`.  What differs from `WriteSets`: there are threads, so the moment has to
be defended against them, and the memory may disappear in the middle of a snapshot
(`Lose`); there are no lines, mappings and rows.

`MCTracker`, `MCKTracker`, `MCLocalMaps`, `MCWriteSet`, `MCProcFs` hold the constants for
TLC; `TrackerProofs`, `StartupProofs`, `ServeProofs`, `KTrackerProofs`, `LocalMapsProofs`,
`WriteSetProofs`, `ReportsProofs`, `ProcFsProofs` the proofs.

## What the runs check

Passing:

| run | question | bounds |
|---|---|---|
| `TrackerSafe` | attaching to a process with any number of its threads, which then does everything in `AppOps` but `early`: types, `TracedStopped`, `Adopted`, `TableInjective`, `ReadsStoppedWorld` | 3 threads, 1 signal |
| `TrackerServe` | a started application with clone, exit and signals: `FirstStopped`, `WorldStopped`, liveness, `Answerable`, `NoForgottenStop` | as above; only an exit overtakes an interrupt |
| `LocalMapsMerge` | every pair of lists on 5 pages: types, `InBounds`, `PagesKept`, `Unshared`, `Ends`; which mappings get a copy (`CopiedAsReached`) and when the merge dies of a missing one (`CrashesWhenTorn`) | 89 lists, 7921 pairs, each old mapping with or without a copy |
| `WriteSetExact` | types, `OneRowPerPage`, `ReportsWriteSet`, `CopiesBelowEnd`, for an application that writes, maps, unmaps and is killed, with mappings that get no copy | 3 pages of 2 lines, the middle one unreadable, a table of 2 rows, 3 snapshots, 5 lists |
| `KTrackerExact` | a started application that writes while its threads clone, exit and are killed: `SnapshotCurrent`, `ReportsAreWrites`, `ReportsWindow`, the timers | 3 threads, 2 pages of 2 values |
| `ProcFsLists` | the arrays of threads and mappings: `RoomForTerminator`, `ParsedWritable`, `ParsedIsMappingList`, `SizeIsCovered` | 6 threads with an array that grows by 2; every sequence of maps files on 3 pages with every permission |

Violations, each a disagreement between the code and what its comments,
assertions or README say:

| run | what happens | where |
|---|---|---|
| `TrackerFork` | a thread that forks is never continued; the next pause hangs | `common.c:539` |
| `TrackerCloneRace` | a clone swallows the interrupt: hang (the exec case is handled) | `common.c:555` |
| `TrackerLastExit` | the application ends in the drain: `assert(r >= 0)` | `common.c:519` |
| `TrackerFirst` | a thread cloned during startup runs during the first snapshot | `common.c:637` |
| `WriteSetProtect` | a write followed by mprotect(read-only) is missed | `proc_maps.c:122` |
| `KTrackerLeader` | when the leader leaves first, what the other threads write is never seen | `tracker.c:72` |

The models contain more that goes wrong in the code, without a run of its own:
a SIGINT while `waitpid(pid)` sleeps makes it return -1, since the handler is
installed without SA_RESTART, and `assert(r == pid)` ends the tracker without its
final statistics (`SigIntInWait`, `common.c:516`); new mappings behind the end of the old
list get no copy, and the tracker dies when it uses one of them (`UpdateCrash`,
`CompareCrash` and `NullSource` happen in the runs, `tracker.c:160`; no document speaks of
it);
with `exitgroup` in `Ops` of `TrackerServe`, the tracker hangs on the leader
(`Answerable` and `Progress` fail, `common.c:514`); when the `execvp` of the child
overtakes the first interrupt, or a listed thread is gone before it is seized,
an assertion fails (`failed` becomes `"stray"`, `"seize"`; `common.c:566`, `:443`);
with a table smaller than the number of dirty pages `ReportsWriteSet` fails
(`htable.c:35`; `ReportsWhileRoom` says that, while no protection changes, no finished
snapshot misses a line in another way); an iteration without dirty lines leaves no block in `file`,
which the plot script counts on (`htable.c:51`, `read_bin.py:80`).

Why the bounds are enough.  Three threads are the leader, one that is being
waited for and one that does something else meanwhile, which is as many as one
turn of `proc_check_status` relates.  One signal is one stop that is
re-injected; more of them repeat it.  Five pages hold two mappings on each side
in every relative position (same, shifted, nested, split, adjacent, apart).  The
first of three snapshots reports everything, the second is compared with it, with any
changes of the mappings between them, and may leave a mapping without copy, which the
third finds unchanged, changed or gone, as it finds again a page that the second had
lost.  In the five lists (`BaseLists`) the lowest mapping stays, grows and shrinks, and one
more comes and goes above it, adjacent or not; all other changes of a list are those of
`LocalMapsMerge` and of the proofs, which are for any lists.  Three pages are a page before, at and behind the
one that cannot be read, in every division into mappings, and a table of two
rows is just full when all the readable ones are dirty.  What does not depend on the
instance is proved.

Fairness.  `FairSpec` of `Tracker` assumes that the tracker, one sequential
process, goes on when it can (`WF(Tracker)`; a blocked waitpid is not enabled)
and that the kernel delivers the traps and deaths it owes.  Nothing is assumed of
the application: it may compute for ever or never.  `FairSpec` of `LocalMaps`
assumes that a sequential loop goes on.

Two pages in `KTracker` are one that has been read and one that has not when
something happens in the middle of a snapshot; two values tell a write from none.
In `ProcFs` an array that grows by 2 meets "full", "one free" and "just grown" with six
threads twice over, and three mappings are one kept, one overwritten and one
behind them, in every order of permissions.

Deadlock checking is on everywhere: the ended tracker, the finished merge and
the finished sequence of snapshots stutter explicitly.

## What is proved

`TrackerProofs`, for any set of threads, any application behaviour and any
number of signals, from `TraceesAssumption` and `NoPidAssumption`:

- `TypeCorrect`: `Spec => []TypeOK`;
- `TracedStoppedHolds`, `WorldStoppedHolds`: nothing the tracker traces runs while
  the main loop reads memory; for a started application nothing runs at all;
- `AdoptedHolds`: when the tracker sleeps, every traced thread that can run is in
  the table;
- `ImplementsStopTheWorld`: `Spec => ReadsStoppedWorld`.

The properties are not inductive: that nobody runs when `pc = "work"` says nothing
of the step before.  The inductive invariant `IInv` (in `Tracker`, checked by TLC
before it was proved) adds the history of the pause: `Passed`, the entries that
`proc_pause_all` has gone by are held; `Current`, the entry it is at becomes held
before `proc_check_status` returns; `InKnown`, every thread that can run is in the
table, which is why the growing bound of the loop reaches a thread cloned
meanwhile; `InTable`, the loops stay inside the table; `Born` and `BornTraced`, a
thread of a started application is traced from its birth.  Each action preserves
each conjunct by a lemma of its own; what the environment may do to a held thread
is a lemma too.

`StartupProofs`, from the same assumptions: `FirstStoppedHolds`, that the first snapshot
of an application which the tracker has started and seized before its execvp sees a
stopped application, too.  `StartInv` is inductive relative to `IInv`: until the first
snapshot the leader is the only thread and does not run the application's code
(`LeaderAlone`), it is held when `proc_seize_and_pause` is done with it (`FirstPause`),
and nobody runs from the end of a pause to the next resume (`Still`), because only a
thread that runs can make another one run.

`ServeProofs`, from the same assumptions: `TableInjectiveHolds` and `NoForgottenStopHolds`,
for every application, and `AnswerableHolds`, `Spec => [](Calm => Answerable)`.  `Calm`
says which of the application's steps `proc_check_status` has no answer to: fork, the
exit of the leader or the death of the process while other threads live, and a clone
or a signal that overtakes an interrupt.  (`TrackerFork` and `TrackerCloneRace` show
two of them; exec may overtake one.)  Under it every thread that the tracker has not
served is about to reach a stop that ends a blocking waitpid (`Unserved`), and the
awaited thread is the one the loop is at (`AwaitedEntry`).

`KTrackerProofs`, for any number of threads and pages, with `KTrackerAssumption`:

- `SnapshotsStopTheWorld`: every step of `KTracker` is one of `Tracker` or changes none of
  its variables, so what is proved of `Tracker` holds of the whole program;
- `KTypeCorrect`, and `TimesApartHolds`: on every path each timer is started before it
  is stopped, and runs just where its total is meant to (this is inductive as it
  stands);
- `ExecutionTimedHolds`: a started application never runs while its timer stands still;
- `ReportsAreWritesHolds` and `SnapshotCurrentHolds`: no report is of a page that was not
  written in the window, and before each resume the copy is the memory.  The
  invariant `MemoryInv` says that what has been read in this pause is up to date
  (`CopyCurrent`) and that a page that is not up to date has been written since the
  last snapshot (`Accounted`), both as long as the leader has a memory, which it never
  gets back.  That it has one while the application goes on is `LeaderLast`; the
  premise `LeaderStays` is exactly what `KTrackerLeader` lacks;
- `ReportsWindowHolds`: for a started application the program implements `WriteWindow`.
  The refinement maps a pause to one moment: from the first page read to the last, what
  has been read (`CopyCurrent`) together with what has not is the memory, which does not
  change because nobody runs (`Still`); so reading a page only moves it from `Pending`
  to `dirty`, a stutter of `WriteWindow` (`ReadPageSame`).  `Between` says where the loop
  variable stands outside a snapshot, so that `Pending` is empty there.  The step that
  makes the leader a zombie is `Lose`, at any point, also between two pages;
- `FallbackFrequency`: when the MSR cannot be read, `getFrequency` yields 800 MHz, though
  the comment in `readMSR` means to approximate the frequency with 2200.

`ProcFsProofs`, for any increment and array size, any number of threads and any maps
files that `ProcFsAssumption` allows: `TypeCorrect` (entries are written inside their
arrays), `RoomForTerminatorHolds`, and `ParsedIsMappingListHolds`, which is the
assumption that `WriteSet` and `LocalMaps` make of their lists (`ListsAssumption`).  The
invariant adds that the entries kept so far are in order and lie below the lines
still to be read (`Ordered`, `KeptBelow`).  On top of it `ParsedWritableHolds` (the list
is that of all the readable and writable lines: `KeptInv`) and `SizeIsCoveredHolds` (the
size counts each of their pages once: `SizeInv`).

`LocalMapsProofs`, for any two lists of mappings, from `ListsAssumption`: `TypeCorrect`,
`InBoundsHolds`, `PagesKeptHolds`, `CopiedAsReachedHolds`, `CrashesWhenTornHolds`.  The invariant follows the two
positions of the walk: an old mapping behind it lies below the new ones ahead
(`Passed`), the new ones behind it have a copy and those ahead have none (`Given`), a
copy belongs to one new mapping only (`Own`), and a copy holds exactly the pages of the
old list that the walk has seen there (`Rows`).  The branch of equal starts copies to
`mem` itself and not to an offset from the mapping; that this is the start of the
copy, since nothing of the mapping was met before, is `MemAtStart`.  `TransferExact`
is the arithmetic of one memcpy.  `UnsharedHolds` rests on `Rows` again: a copy taken over from
the old list begins with the page at which its new mapping begins (`TakenOver`), so
two mappings that shared it would overlap; those allocated here are distinct by `Own`,
in the first call by `FirstOwn`.  It and `PagesKeptHolds` are what `Init` assumes of the
copies of the old list, so they carry it over to the next call.  `CopiedAsReachedHolds`:
the walk goes by the new mapping that begins before the old list ends, and by no other.
`CrashesWhenTornHolds`: a pair of overlapping mappings is never passed over, so the one
that has no copy is met.  `MergeIsUpdate` draws the conclusion that `WriteSet` uses, for any
two lists: which mappings have a copy afterwards (`WithCopy`), that each of their pages is
what it was or zeros (`UpdateLocalMaps`), and when the merge does not come to its end
(`Torn`).

`WriteSetProofs`, for any pages, mapping lists, table size and application, from
`ListsAssumption`, `TableAssumption` and `WriteSetAssumption`:

- `TypeCorrect`: `Spec => []TypeOK`: the table stays inside its allocation, the
  loops inside the mappings, and only pages of the mappings have local copies;
- `OneRowPerPageHolds`: `Spec => []OneRowPerPage`;
- `CopiesBelowEndHolds`: `Spec => CopiesBelowEnd`: only at a list that ends higher than
  the one before can it begin that mappings have no copies.  In such a list the mapping
  before the one in question ends no later than this begins, hence before the old end, so
  that the loop comes to it (`AllReached`);
- `NeverCrashesHolds`: `Spec => []NeverCrashes` (defined there, not a property of a run)
  from `StackOnTop`, that all lists end at the same page.  Its invariant, `AllCopied`, says
  that in every snapshot all pages of the mappings have copies, so that the next merge
  finds none missing.  Without `StackOnTop` neither holds: memory mapped above the stack,
  or an execve after which the stack lies higher, leaves mappings without copy.

The inductive invariant is `IInv` of `WriteSet`: that no page has two rows holds
because their pages ascend (`Ascending`), and they go on ascending because no row
is of a page that the loops have still to reach (`Behind`), which rests on the
order of the mappings (`ListsAssumption`, which `Maps` states of what
`parse_maps_file` reads).  `HtableAddKeeps` is the lemma about `htable_add`, and
`DivPage` the arithmetic of its address masks.

`ReportsProofs`, from the same assumptions, the refinement of `WriteSets`:

- `ReportsWriteSetHolds`: `Spec => ReportsWriteSet`, if the table has a row for every
  page that can be read and the application changes no protection (`~Protects`);
- `ReportsWhileRoom`: `Spec /\ []Room => ReportsWriteSet` for a table of any size, where
  `Room` says that `htable_add` never meets a full table, and again `~Protects`.  That the
  premise of the first one implies it is a pigeonhole argument: the rows are of distinct
  readable pages (`RowsReadable`, `OneRowPerPage`).

Neither assumes that every mapping has a copy: the lists are arbitrary.  A page that
has a copy keeps it as long as it stays in the mappings, because it lies below the end of
the old list, where the merge comes to every mapping (`HeldStays`); a page that has none
gets the tracker killed when its first line is compared, which `WriteSets` knows as `Die`
from the moment the page is read (`ReadRefines`, `Lost`).  `~Protects` is needed: with it
a page is writable or not mapped (`Unprotected`), and one that is not mapped is zeros
(`UnmappedClean`).

A snapshot is taken in `WriteSets` when `BeginSnapshot` happens, and every step of the
loops must then stutter: the cells in the table and those still to be found
(`Pending`) make up the same set all the time.  The invariant `ReportInv` is what this
needs: the block being filled is the newest one (`Numbered`), the mappings are those of
the stopped application (`AsListed`), a page is compared only if it could be read
(`AtPage`), a count of zero, which skips the copying, means that no
line differs (`NoneFound`), and behind the loops every page has a copy, which is the memory
(`CaughtUp`), and this makes the next difference start from this snapshot.

Only model-checked: liveness (`Progress`, `StopsEnd`, `StopHonoured`,
`EndsWithApplication`, `Ends`), which needs fairness and ENABLED.
Every other property of a passing run is a theorem.  The disagreements above are
counterexamples, and only TLC shows them.

## Not modelled

- `proc_attach`, `proc_detach`, `proc_setoptions`: never called.
- Group-stops are treated as signals; SIGCONT does not end a seized stop.  The
  kernel's detach when the tracker ends, exec in a process with several
  threads, vfork, and the death of the leader before it is seized are left out.
- The bytes of `/proc/pid/maps` and of `/proc/pid/task`; `open`, `mmap` and `realloc`
  failing; the pointer `tid` that `proc_seize_and_pause` keeps while the table may move
  (it takes more than 255 threads at the start).
- What lies at the low addresses: a comparison with or a copy from address 0 plus an offset
  is taken to be the end of the tracker.
- A changed protection in the refinement of `WriteSets`; `WriteSetProtect` has it.
- That the loops of `find_dirty_data` end is not checked.
- The int `size` of `find_dirty_data` in a mapping of 2 GB or more: undefined, but
  kept in 64 bits by the -O3 build.
- Statistics, text outputs, the memory dump, plots; the totals of the timers in
  microseconds and the timer around the one write of `write_protect_pages`.
- NUMA placement and physical addresses: compiled out in every configuration.
  The command line and `tester.c`, which have no state that outlives them.

## Plan

1. (done) `Tracees`, `Tracker`, `StopTheWorld`, their runs, `TrackerProofs`, `StartupProofs`.
2. (done) `Maps`, `LocalMaps`, `HTable`, `WriteSets`, `WriteSet`, their runs, `WriteSetProofs`.
3. (done) `ProcFs`: the arrays behind the table and the mapping lists, `ProcFsProofs`.
4. (done) `Timers` and `KTracker`: control, timers and memory composed, `KTrackerProofs`.
5. (done) Proofs about the merge: `LocalMapsProofs`.
6. (done) `Answerable`, `TableInjective`, `NoForgottenStop` as theorems: `ServeProofs`.
7. (done) `ReportsWriteSet` as a theorem: `ReportsProofs`.
8. (done) The whole program as a refinement of `WriteWindow`, `ReportsWindowHolds`; the
   contract between `LocalMaps` and `WriteSet`, `MergeIsUpdate`, with the mappings that are
   left without a copy.
9. The lists of `ProcFs` as those of `WriteSet` and `LocalMaps` by a refinement, instead of by
   the shared `ListsAssumption`; `KTracker` with the mappings of `WriteSet`, if TLC can still
   check it.
