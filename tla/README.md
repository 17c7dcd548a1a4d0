# A TLA+ verification of carbond

carbond is a Graphite carbon daemon in C: two receiver threads put metric lines
into an in-memory cache, a writer thread empties the cache into whisper files, a
monitoring thread adds the daemon's own metric, and the main thread launches
them, handles SIGINT and SIGHUP and joins them. This directory models those
parts in TLA+, checks them with TLC on small instances and proves, with TLAPS and
for every instance, the safety properties of the thread control, the cache, the
receivers, the monitoring, the configuration and the whisper files.

Paths below are relative to the repository's root; code is in `src/`.

## 1. Inventory

| Part | Code | State | Operations | Hard because |
|---|---|---|---|---|
| thread control | `threads.c`, launchers, `main()` | `run_lock`, `must_pause`, `can_run` per thread, `conf->run` | launch, run loop, pause, resume, join | locks held across loops, condition variables, failed launches |
| signals and reload | `main.c` | the `conf` pointer and the objects behind it | `sigint_handler`, `sighup_handler`, `conf_reload` | handlers interrupt `main()` anywhere and each other |
| metrics database | `database.c` | list of metrics, each with a list of points, `last` pointers and a counter | find, add metric, add point | written by three threads without a lock |
| protocol, receivers | `protocol.c`, `receiver_*.c` | sockets, connections, the message being split | set up the socket, receive or accept, split, parse, append | concurrent with each other and with the writer; timeouts, EINTR, descriptors that run out |
| monitoring | `monitoring.c` | `points` counter with its mutex | report and reset once a second | mutex initialised by one thread and used by another; a wait computed from the clock |
| writer | `writer.c` | none of its own | find the largest metric, write, free and reset it | frees points that producers still reach |
| whisper files | `whisper.c` | files: headers and rings of points | create, write a point, propagate | 32-bit modular arithmetic, partial writes |
| file names, directories, rules | `whisper.c` | the directory tree | make directories, find the first matching schema and aggregation | ignored failures, rules of a configuration that changes |
| configuration parser | `conf.c` | patterns, retentions, aggregation rules | three line-oriented parsers | state carried from section to section, files edited while they are read |
| command line | `main.c` | the first configuration | defaults, options | |
| logging | `log.c` | none | print | |

Interaction: producers call `database.c` directly; the writer walks the same
lists and calls `whisper_write_value()`, which reads `conf` for the patterns of a
new file and increments the monitoring counter. `conf` is a global pointer that
every thread reads and only `conf_reload()` replaces. The only synchronisation
is the pause protocol (`run_lock`, `must_pause`, `can_run`), `m->lock` (taken by
the writer alone, so it excludes nobody) and `mutex_points`.

What makes each part correct:

- *thread control and reload*: no worker sees a freed configuration; nothing is
  freed twice; a reload ends and leaves every worker running; a stop request
  stops the program; pausing means what its comment says;
- *cache*: the lists stay finite; no point is used after it is freed by the
  writer, none is written twice, lost, or written to another metric's file; the
  writer eventually sees every cached point;
- *whisper*: a point lies in the slot of its timestamp; the first archive holds
  exactly its retention; a propagated value is made of its own window, of all of
  it, with the configured method and threshold;
- *configuration*: the rules in force are those of the files; a reload gives what
  a restart gives; the first matching section makes a new file;
- *receivers*: what is received reaches the cache once and in order; the
  descriptors of the process last as long as what is never closed leaves some;
- *monitoring*: every point written is reported once; one report a second.

`PROJECT.json` lists the hazards line by line, with the properties that address
each.

## 2. Modules

| Module | Models | Checked by |
|---|---|---|
| `CarbonThreads` | thread control, signals, reload | `threads_*` runs through `MCCarbonThreads` |
| `CarbonThreadsProofs` | theorems about it | TLAPS |
| `MetricCache` | database, protocol, monitoring's appends, writer | `cache_*` runs through `MCMetricCache` |
| `MetricCacheProofs` | theorems about it | TLAPS |
| `WhisperFile` | one whisper file | `whisper_*` runs through `MCWhisperFile` |
| `WhisperFileProofs` | theorems about it, the refinement of `RetentionWindow` included | TLAPS |
| `RetentionWindow` | abstract: what an archive promises its readers | `KeepsRetention` in `whisper_store` |
| `ConfParser` | the three parsers as loops over lines, and what the files mean to their author | `conf_files`, through `RuntimeConf` |
| `ConfParserProofs` | theorems about it | TLAPS |
| `RuntimeConf` | command line, start-up, reload, file names, directories, choice of rules | `conf_files` through `MCRuntimeConf` |
| `RuntimeConfProofs` | theorems about it | TLAPS |
| `Receivers` | both receivers, and the file descriptors they share with the writer and with reloads | `receivers` |
| `ReceiversProofs` | theorems about it | TLAPS |
| `Monitoring` | the counter of points and the one-second rhythm | `monitoring` |
| `MonitoringProofs` | theorems about it | TLAPS |
| `NatSets` | induction over the naturals, for sets | TLAPS |

The modules share no variables: each takes from the others only what its own
code sees of them. `CarbonThreads` establishes that one round of a worker sees
one configuration (`ConfSafe`); `RuntimeConf` uses that to make the installation,
and the creation of a file, one step each. `Receivers` hands lines on, and
`MetricCache` says what becomes of them; the writer of `MetricCache` calls what
`WhisperFile` models, which calls the increment that `Monitoring` models.

An operator whose comment begins with "Mutant" is a deliberately wrong variant of
the definition that follows it; none of them is part of a specification. Each
shows that a property notices that mistake (`mutants` in `PROJECT.json`).

### CarbonThreads

The threads are `1..N` in the order `threads_pause_all()` visits them;
`LaunchOrder` is the order of `main()`. `wpc` says where a worker is: about to
take its lock, at the loop condition, at the pause test, parked in
`pthread_cond_wait()`, woken, in the body, or returned. A worker that leaves its
loop keeps `run_lock` locked, as in the code. The signal handler runs on the main
thread: `frame` is the stack of handler activations and only the top one moves.
Each reload allocates the next configuration object; `live` are those not freed.
`conf_copy()` reads `run` at that moment, `conf_parse()` may fail, then come the
two passes of `threads_pause_all()`, `conf_free()`, the assignment of `conf` and
the pass of `threads_resume_all()`. Per thread the statements of
`thread_resume()` are one step: the worker looks at none of these while main has
its lock.

`main()` leaves `sa_int` and `sa_hup` uninitialised, so the initial state chooses
what the garbage says: whether SIGINT is masked in the SIGHUP handler, whether
SIGHUP may nest (`SA_NODEFER`), whether a handler is reset after one delivery.

Fairness (`FairSpec`): weak fairness of main's own steps, of the running handler
and of each worker. Every thread is scheduled, and a round of a worker ends: the
sockets have a timeout of half a second (`SO_RCVTIMEO`), the writer and the
monitoring thread do bounded work and sleep at most a second. Weak fairness is
enough for the locks because the lock a waiter needs stays free until it takes
it. Nothing makes signals, failures or spurious wakeups happen.

### MetricCache

No producer takes a lock, so every load or store of a shared field is a step.
Addresses of points are recycled from a small set `Addr`; `calloc()` returns any
free one, which is what makes a stale pointer dangerous. A store through a freed
point only changes that memory. The lines received are numbered and stand for
their own value and timestamp, so losing, duplicating and misplacing a point can
be told apart. `m->points` is loaded before `m->lock` is taken, as in
`write_metric()`. When `Addr` is exhausted a producer waits (a bound of the
model, not of the code).

Accesses interleave sequentially consistently and a field tested and then used
is loaded once; that is what an optimised x86 build does with these functions. A
weaker memory model would only add behaviours.

Fairness: every thread is scheduled; lines need not arrive.

### WhisperFile

A file is its headers and one grid of points; only the writer thread opens it,
so storing one value is one step. Offsets, differences of timestamps and
products are reduced modulo `W`, which stands for 2^32 and, like it, leaves 4
modulo the 12 bytes of a point, so that a wrapped product falls between two
slots. A point's value is abstracted to how it was made and of which received
points, which lets the properties say what an aggregate consists of.
`IOFails` lets `open()` fail, the write of a point to any archive fail, and the
creation of the file stop after any header field that was written: the next
value then finds the incomplete file. Outcomes that end the process (division by
zero, assertion, reading past the buffer of `whisper_write_propagate()`) are
values of `status`. Which schema and rule match is given by `Retentions`,
`AggFound`, `Method` and `XffNum/XffDen`. The increment of the monitoring
counter is in `Monitoring`, byte order conversions cancel out.

`RetentionWindow` is what a reader of the first archive may rely on when values
arrive in order: the latest value of each timestamp of the last `Span` seconds.
`KeepsRetention` is that specification under the mapping `window <- Window0`
(what the ring holds within the retention) and `clock <- kept`, where `kept` is a
history variable: the latest aligned timestamp whose write to the first archive
did not fail. A point dropped for any other reason is therefore a violation.

### ConfParser and RuntimeConf

A line is what `trim_string()` leaves, a pair of key and value, and each parser
is a loop of its body over the lines (`Loop`, a recursive function of the number
of lines read), with the flags the loop carries (`found`, the last `pattern`, the
last `xff`). Numbers keep their width: `Wrap`
stands for 2^32 and `LongMax` for the largest `long`. The other half of
`ConfParser` (`SchemaAsWritten`, `AggregationAsWritten`) is independent of the
loops: the sections of a file by position (`Rank`, `Section`), for files of the
documented form (`WellFormed`).

`RuntimeConf` reads one file in one step, so that an edit may fall between two
files; `load` is the configuration being filled, `from` the text that the one in
force was made of. A failed parse ends the start and gives up a reload. A metric
name is the sequence of what stands between its dots; `pcre_exec()` is the
relation `Matching`, and patterns of `BadPattern` do not compile. Outcomes that
end the process (a null pointer, a division by zero, `exit()`) are values of
`proc`. The garbage that may follow the path of `-c` is an outcome of
`parse_args`. `Restarted` is what `main()` would make of the same files and
options.

The writer stores values of metrics without a file (`first_value`, `mkdir_fails`)
and with one (`later_value`). Of `whisper_write_value()` there is here, beside
the choice of the rules, every division: `DividesByZero` says for any list of
retentions when one of them has a zero divisor. That is the case for no archive
and for a step of 0; for an archive of no point, or of a size that wraps to 0 in
32 bits, that is written a second time or aggregated from; and where the step of
an archive is shorter than that of the one before it. Which rings are begun
depends on the values before, which `WhisperFile` has; `later_value` takes any
set of them.

### Receivers

A message is a sequence of lines. One `recvfrom()` on a connection finds any
beginning of what was sent, with the last line whole or cut (`ReadOnce`);
datagrams are whole. `accept()`, the sockets, the writer's `open()` and the
`fopen()` of each file of a reload draw from one pool of `Limit` descriptors.
Connections, the UDP socket, whisper files abandoned at a read or write error and
a carbon.conf with an unknown key or a port out of range are not closed, as in
the code; `Held` counts these. A socket that could not be set up is handed to the
worker all the same, and then never delivers. Reloads come one at a time and
after the launch, `reload` being the file that `conf_parse()` is at.

Fairness: weak fairness of each thread and of a reload that has begun, and strong
fairness of `udp_recvfrom` and `tcp_accept`. The blocking call may come back
empty-handed any number of times, but with a message present it does so only when
a signal interrupts it or, for `accept()`, while there is no descriptor; the
strong fairness says that this does not happen in every round.

### Monitoring

The writer's `points++` is a load and a store under `mutex_points`; the
monitoring thread reads, reports and resets under the same mutex, which it
initialises only once it runs: `raced` remembers that it did so while the writer
held it. `now` counts ticks, `Second` of them to a second; the wait is what is
left of the second, and `nanosleep()` refuses a whole one. The seconds at whose
very start that happened are in `onset`. The clock is assumed not to be set
back, and `time()` and `clock_gettime()` to agree on the second. `MaxLag` keeps
the clock from running ahead of the thread without end; it does not hold back a
sleeper. `MaxReports` bounds the reports that have nothing to report: while points
are counted another report may always begin, so that the bound does not excuse a
point from being reported.

Fairness: both threads are scheduled and time passes (weak fairness of each), and
a writer that waits for the mutex gets it in the end (strong fairness of
`lock_points`): the monitoring thread holds it for a moment of each second.

## 3. Runs

Passing runs (distinct states):

| Run | Instance | Shows |
|---|---|---|
| `threads_safety` (1.4 million) | 3 workers, 2 SIGHUP nested at most twice, 1 SIGINT, 1 spurious wakeup, any launch may fail, any sigaction garbage | `ConfSafe`, `FreedOnce`, `ReloadLeavesNothing`, and the inductive invariant `IInv` |
| `threads_live` (80 thousand) | 3 workers of which any may fail to be created, 2 SIGHUP, 1 SIGINT, 1 spurious wakeup, cleared sigaction structures | `ReloadCompletes`, `WorkersResume`, `StopCompletes` |
| `cache_safety` (2.3 million) | 2 receivers on 2 names, 3 addresses, 3 lines, whisper may fail | `MetricListEnds`, `WriterOnLivePoint`, `WrittenOnce`, `CountedIfCached` |
| `cache_drain` (0.6 million) | udp and monitoring, each with its own name, 2 addresses, 3 lines | `CacheDrains` |
| `whisper_store` (42 thousand) | rings of 8 and 3 points, 8 timestamps over two turns, 2 values, all failures | `ProperOffset`, `NotTorn`, `AggregatesOwnWindow`, `AggregatesAllAligned`, `KeepsRetention` |
| `conf_files` (106 thousand) | 6, 8 and 4 contents of the three files in 2 directories, 2 edits, 2 SIGHUP, 3 names, timestamps 60 and 200, failing `stat()` and `mkdir()` | `RulesAsWritten`, `ReloadEqualsRestart`, `FirstMatchWins`, `CompleteSchemaKeepsRunning`, `DirsSuffice` |
| `receivers` (156 thousand) | 4 descriptors, 2 lines in messages of 1 or 2, 1 SIGHUP, failing sockets, whisper files and configuration files | `TypeOK` with the limit, `ArrivalOrder`, `WriterGetsFile`, `LinesHanded` |
| `monitoring` (0.7 million) | 3 ticks a second, 2 points, 2 reports and as many more as there are points to report, the thread at most 1 second behind | `PointsReportedOnce`, `OncePerSecond`, `PointsGetReported` |

Why the bounds are enough. Three workers give a pass over the threads a first, a
middle and a last one; two reloads let one overlap or follow another, and the
theorems below remove these bounds for the safety properties. Two producers, one
writer and three lines let two producers race on a metric that the writer is
emptying, with an address reused in between; symmetry among names and addresses
(`CacheSymmetry`) is sound because nothing tells them apart, and it is used in
the safety run only. Two turns of the ring and gaps leave points of the first
turn in slots of the second. 8 is the smallest first ring with which reading it
stays within its buffer, as it does with the shipped `60s:1d,180s:1w`; one point
of 12 seconds takes 12 bytes, the least with which no product overflows.
Two edits and two reloads let a reload follow a failed one and mix files of
before and after an edit; the contents are the shipped files and, for each
branch of a parser and for each way of a retention to be unusable, one that takes
it (`Wrap` is scaled so that the shipped durations, 90 days at most, do not wrap
and 14 weeks do). Of the timestamps 60 is a multiple of the step of one archive
only and 200, aligned to 180, of both. Four descriptors are the two sockets and
room for a connection and a file, so that each can exhaust what the other needs,
and a failed reload what both need; two lines come in one message or in two, to
one receiver or to both. With two
ticks a second what has passed of a second would equal what is left, hence
three. The theorems below remove the bounds of `cache_safety`, `conf_files`,
`receivers`, `monitoring` and `whisper_store` for their invariants and action
properties.
`CHECK_DEADLOCK FALSE` where the program ends (`threads_*`, `conf_files`,
`receivers`, `monitoring`) or the timestamps do (`whisper_*`).

Runs that find a disagreement between the code and what a comment of the
repository says (`findings` in `PROJECT.json` quotes it):

| Run | Property | What happens |
|---|---|---|
| `threads_stop_lost` | `StopIsFinal` | SIGINT during a reload is forgotten when the copied configuration is installed |
| `cache_lost_point` | `NoPointLost` | a point appended while the writer resets the metric is lost |
| `cache_foreign_point` | `OwnFile` | a value ends in another metric's file |
| `whisper_ring_wrap` | `AggregatesAll` | known points are left out of the aggregate of a window that spans the end of the ring |

Further disagreements that the models contain as behaviour, without a run of
their own:

- *threads*: a SIGHUP after SIGINT hangs, because a worker that returned keeps its
  `run_lock` (`thread_wait_paused`; the comment at `threads.c:143` says the
  function waits for all threads to be paused); a SIGHUP before `main()` has
  launched all threads uses a NULL thread pointer (`thread_order_pause`); the
  writer's first log line reads `conf` before it holds `run_lock`
  (`early_debug`);
- *cache*: of two metrics added to the list at once one is lost
  (`add_database_metric`);
- *whisper*: a value older than the one in the first slot goes to a wrong slot,
  because the difference of the timestamps is unsigned (`SlotOffset`); a file
  whose creation was cut short ends the process at the next value, in the
  assertion of `whisper.c:877` or by a division by zero (`WriteOpen`); the window
  that had begun before the first point stored is read at a wrong place;
  `xFilesFactor` is compared with an integer quotient
  (`whisper_write_propagate`); `last`, `max` and `min` store 0
  (`whisper_aggregate_values`);
- *configuration*: a key removed from carbon.conf keeps its former value at a
  reload (`conf_copy`); a section without retentions takes those of the next one,
  whose pattern is lost (`schema_line`); `xFilesFactor` is carried over to
  sections that do not set it (`aggregation_line`); units other than w, d and h
  are seconds (`str_to_seconds`); a retention without `:` dereferences a null
  pointer (`HasNullItem`); a metric without a schema, a step of 0, an archive
  shorter than its step (`60s:30s`, or `60s:10m`, m being no unit) or whose bytes
  are a multiple of 2^32, and archives in
  the wrong order (`180s:1w,60s:1d`) divide by zero (`DividesByZero`);
  etc/storage-schemas.conf:2 and etc/storage-aggregation.conf:2 say that the files
  are "scanned for changes every 60 seconds", but only SIGHUP has them read
  (`sighup_handler`); the path of `-c` is not terminated (`Outcomes`); names
  that differ in empty components share a file (`Tokens`);
- *receivers*: ports are not bound again after a reload; connections are read
  once and never closed (`tcp_accept`); files abandoned at an error stay open
  (`whisper_header_fails`), and so does carbon.conf when it has an unknown key or a
  port out of range (conf.c:423, 435, 441): each such reload costs a descriptor
  (`carbon_file_error`); the result of `mkdir()` is ignored (`mkdir_fails`);
- *monitoring*: at the very start of a second `nanosleep()` refuses the wait
  (`monitoring_nanosleep`); the mutex is initialised after the writer may have
  locked it (`mutex_init`).

These mark the limits of the passing properties, which say so in their
statements: `ProperOffset` holds for values in order, `AggregatesAllAligned`
where the first point ever stored began a window (60s:1d holds a whole number of
180-second windows, so none then spans the ring's end), `ReloadCompletes` and
`WorkersResume` unless SIGINT comes, `StopCompletes` unless SIGHUP comes,
`RulesAsWritten` for files of the documented form, `ReloadEqualsRestart` while no
key is removed, `WriterGetsFile` and
`LinesHanded` until what is never closed holds the descriptors,
`CompleteSchemaKeepsRunning` where all retentions are usable,
`PointsReportedOnce` unless `raced`, `OncePerSecond` outside `onset`.

## 4. Theorems

`CarbonThreadsProofs` proves, for every number of workers, launch order, bound on
signals and nesting, and every content of the sigaction structures:

- `TypeCorrect`: `Spec => []TypeOK`
- `IInvCorrect`: `Spec => []IInv`
- `ConfSafeCorrect`: `Spec => []ConfSafe`
- `FreedOnceCorrect`: `Spec => []FreedOnce`
- `ReloadLeavesNothingCorrect`: `Spec => []ReloadLeavesNothing`

The only assumption is `ConstantsAssumption`: natural bounds, at least one worker
and one handler frame, `LaunchOrder` an injection of the workers into themselves.

`ConfSafe` is not inductive: that no worker is in its loop when `conf` is freed
depends on who has which lock, and with nested handlers on which activation took
it. `IInv` adds that accounting: a worker owns its `run_lock` exactly while it is
in its loop or has left it (`WorkerLock`); the main thread owns exactly the locks
its handler frames account for (`MainLock`), no two frames for the same one
(`Exclusive`); pause orders belong to frames (`Pausing`); `conf` dangles only
between `conf_free()` and the assignment, or when `main()` returns (`Dangling`);
`main()` joins in order and launches in order (`Joined`, `Unlaunched`); each pass
starts at the first thread (`AtFirst`); a configuration being loaded belongs to
one frame and is not the current one (`Fresh`). A frame between free and
assignment holds every lock, so by `WorkerLock` no worker is in its loop
(`InstallExcludes`), and by `Exclusive` no second frame is there, which gives
`FreedOnce`. The step lemmas follow the program: `IInvMain`, `IInvSignal`,
`IInvWorker`, `IInvHandler`.

`MonitoringProofs` proves, for every length of a second, number of points and
reports, and lag of the thread (`MonitoringAssumption`: natural bounds, at least
two ticks a second and a lag of at least one):

- `TypeCorrect`: `Spec => []TypeOK`, with the counter never above the points
  written;
- `PointsReportedOnceCorrect`: `Spec => []PointsReportedOnce`
- `OncePerSecondCorrect`: `Spec => []OncePerSecond`

`PointsReportedOnce` needs to know who is in its section: its `IInv` adds that
the mutex belongs to that thread (`Owner`), that what the writer loaded is still
the counter's value (`Loaded`), that a point not yet counted leaves room in the
counter (`Room`, which holds even when the mutex was initialised under the
writer's hands and so gives `TypeOK` without exception), and that nothing raced
before the initialisation (`Before`). `OncePerSecond` rests on `RhythmInv`: a
report made in a second that is not excepted lies strictly before the second in
which the thread can begin the next one, wherever it is in its round
(`Settled`): before the present second at the loop's head, before the second its
sleep leads to while it sleeps. The arithmetic is in `SecondMonotone` and
`SecondLeft`: what is left of a second leads into the next one.

`MetricCacheProofs` proves, for every number of producers, names, lines and
addresses (`CacheAssumption`: finitely many addresses, none of them NULL):

- `CacheTypes`: `Spec => []TypeOK`
- `WriterSafe`: `Spec => []WriterOnLivePoint`
- `OnceOnDisk`: `Spec => []WrittenOnce`
- `CachedIsCounted`: `Spec => []CountedIfCached`
- `ListEnds`: `Spec => []MetricListEnds`

Its `IInv` says where each line and each point is. A line is in one place only:
with the producer that received it, in one point in use, or on disk
(`OnePlace`). Everything that leads the writer to a point (a metric's `first`, a
point's `next`, the writer's own locals) leads to a point in use (`Live`), and no
two of these lead to the same one (`Unique`): so what the writer frees, nothing
it reads later leads to. Pointers that only producers follow (`last`, a loaded
tail) are left out on purpose: they may dangle, and a store through them changes
freed memory only. `Counts` bounds the counters by the lines received, by
counting sets of lines. The list of metrics ends because a metric's `next` was
created after it (`Ordered`), even when two producers add one at once; that the
walk over it then reaches NULL is an induction over the metrics that are left.

`ReceiversProofs` proves, for every limit of at least two descriptors and any
number of lines (`ReceiversAssumption`):

- `ReceiversTypes`: `Spec => []TypeOK`, with the limit on descriptors
- `OrderKept`: `Spec => []ArrivalOrder`

That the counts of connections and of files left open stay within the limit needs
the account of all descriptors (`DescriptorsAccounted`: those of `Held`, the
writer's file and the file of a reload), and the account needs that a receiver's
socket is missing exactly until its launch (`Launched`). The order is kept by every step that moves lines from the
kernel to the buffer and from there to the cache because the three, put behind
each other, are ordered line by line and every line sent later has a greater
number (`Ordered`).

`ConfParserProofs` is about the loops alone, for files of any length:

- `SchemaParsed`, `AggregationParsed`: a file of the documented form becomes one
  rule per section, in order, made of what stands in the section;
- `CarbonAgrees`: carbon.conf is read into two configurations with the same
  outcome, and they agree afterwards where they did before or where the file
  sets a member; a member that no line sets keeps its value.

Each is an induction over the lines read: `SchemaAfter` and `AggregationAfter`
say what the loop has after `k` lines, in terms of the last section begun and of
the places of its keys. The recursive function `Loop` is first shown to exist
(`LoopTurns`). Sections are counted with `Rank`, which is shown to be a bijection
between the sections and `1 .. n` (`RankOrder`, `RankOnto`).

`RuntimeConfProofs` proves, for any contents of the files, any edits, reloads and
metrics (`ConfAssumption`, `ContentsAssumption`: files are finite, `CONF_DIR`
names one of the directories, ports are numbers, 2003 fits an int):

- `ConfTypeCorrect`: `Spec => []TypeOK`
- `RulesInForce`: `Spec => []RulesAsWritten`
- `ReloadIsRestart`: `Spec => []ReloadEqualsRestart`
- `FirstMatchMade`: `Spec => []FirstMatchWins`
- `CompleteSchemaSafe`: `Spec => []CompleteSchemaKeepsRunning`
- `DirectoryThere`: `Spec => DirsSuffice`

`ConfInv` follows a load file by file (`LoadOK`): no rules before their file is
read, exactly the parsed ones after it. Of the other members it says two things,
with the keys any installed load has set: they are what the command line left
unless such a key set them (`Kept`), and what a start would make of the
carbon.conf just read unless such a key, absent from this file, set them
(`Fresh`). Only both together are inductive: `Kept` for the copy a reload starts
from and `CarbonAgrees` give `Fresh` after it. The installed configuration
inherits them (`ConfOK`). That the first match wins follows from the least member
of the set of rules a walk may stop at (`LeastOf`); `DirectoryThere` from the
number of components of a path (`TokensBound`); `CompleteSchemaSafe` from
`UsableNeverDivides`, that usable retentions divide by zero at no timestamp
and whatever rings are begun, and from what every file keeps of the load that made it.

`WhisperFileProofs` proves, for any number of archives, any rings, timestamps,
values and failures (`WhisperAssumption`: steps are not 0, timestamps fit in W):

- `WhisperTypeCorrect`: `Spec => []TypeOK`, without further hypotheses: products
  may overflow, files may be incomplete;
- `NeverTorn`: `NoOverflow` gives `Spec => []NotTorn`
- `OwnWindows`: `NoOverflow` gives `Spec => []AggregatesOwnWindow`
- `SlotsProper`: `NoOverflow` and `InOrder` give `Spec => []ProperOffset`
- `RetentionKept`: the same, with an archive, give `Spec => KeepsRetention`, the
  refinement of `RetentionWindow`;
- `AlignedComplete`: the same, with `WholeWindows` and a method that is
  implemented, give `Spec => AggregatesAllAligned`

`NoOverflow` says what keeps the 32-bit arithmetic exact: every step is at least
the 12 bytes of a point, so that the distance in slots times 12 does not exceed
the distance in seconds; every ring has a point; the file is smaller than `W`;
no timestamp is within a step of `W`. The shipped schema satisfies it until 2106.
With a smaller step the product can wrap (an older timestamp is enough, or a long
gap), and the write then falls between two slots. `InOrder` is needed because an older timestamp gives a huge unsigned difference, `WholeWindows`
because a window that spans the end of the ring is read in the wrong places
(`whisper_ring_wrap`). `MCWhisperFile` assumes all of them of its instance
(`TheoremsApply`), so TLC evaluates them.

The argument has three layers. *Where things are*: the rings tile the grid
without overlap (`Layout`, `SlotCell`), so an offset that is a multiple of 12
past a ring's start and within its size is one slot of that ring and of no other;
a write is then one `Put` or nothing (`WritesSlot`), and a read of
`whisper_write_propagate()`, even from the wrong place, yields points of its own
ring or zeros (`ReadsRing`). *What one value does*: `Good` says that the file is
not torn, that every point is made of its own window, and, in order, that the
timestamps of a ring are as far apart as their slots up to whole turns (`Apart`,
`RingOK`); no point of a ring is later than the value being stored. One turn of
the loop keeps it (`LowerGood`), the loop by induction (`TurnsIn`), the value
therefore too (`WriteOpenGood`). That a known point belongs to the window is
because a timestamp that passes the comparison of
`whisper_write_propagate()` has not wrapped (`KnownExact`). *Over time*: `Inv`
is `Good` of the file with the bases, and that a ring with a first point has a
base. `ProperOffset` alone is not inductive: the slot of a new point is computed
from whatever the first slot holds at that moment, which changes at every turn,
and only `Apart` says that it leads to the same slot as the base.

For the refinement (`WindowStep`) a step that stores in the first ring either
overwrites the point of its own timestamp or one a whole turn older (`SameTurn`),
which the abstract window drops at the same moment. For `AlignedComplete` the
window begins a whole number of windows after the point in the first slot
(`WindowBegins`), so the first of the two reads covers it (`StartSlot`,
`FirstRead`), and each point that the ring holds of it lies at the place where
its timestamp is expected (`KnownAll`).

`NatSets` has induction over the natural numbers for a set in place of a
predicate, derived from well-foundedness; the inductions above cite it.

Only model-checked: liveness (`ReloadCompletes`, `WorkersResume`,
`StopCompletes`, `CacheDrains`, `WriterGetsFile`, `LinesHanded`,
`PointsGetReported`), because
fairness and ENABLED are out of the prover's reach, and the four disagreements.
Every invariant and every action property of the passing runs is a theorem.

## 5. Not modelled, and the plan

Not modelled:

- logging: output only (the one read of `conf` that matters is `early_debug`);
- malformed lines and over-long names in `protocol.c`: `sscanf()` of arbitrary
  text is about the layout of strings, which the models abstract from;
- overruns of heap and stack buffers (`conf.c:185` allocates two bytes too few,
  `receiver_tcp.c:100` may write one past the buffer) and leaks (`whisper.c:303`
  frees a compiled pattern only when it matches): their effect depends on the
  allocator and the stack layout;
- overruns of the read buffer of `whisper_write_propagate()` at the values that
  `RuntimeConf` stores: `WhisperFile` has them (`overrun`);
- a `read()` of a whisper file that fails with an error: the NULL of
  `whisper_read_archive_point()` and `whisper_read_archive_info()` is dereferenced
  (`whisper.c:654`, 726, 875 to 877) and the program crashes; a `write()` that
  stores part of a point (`whisper.c:676`) and so leaves half of it in the file:
  in `WhisperFile` a `write()` of a point stores all of it or nothing;
- the signal-safety of library calls in handlers, and signals that reach a worker
  before its `block_signals()`: `CarbonThreads` has handlers on main's stack only,
  and its `sigint_handler` is one step, so no SIGHUP interrupts it;
- the ports after a reload: nothing in the code connects the new values to the
  sockets;
- what is left in the cache when the program stops: the writer leaves its loop
  with it, and nothing in the repository promises otherwise.

Plan: what is left is to say more of the parts where the theorems stop at a
hypothesis: which offsets `whisper_write_point()` writes for steps below 12
seconds, and what a reader of the second archive may rely on, as a second
abstract window.
