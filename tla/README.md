# betl: models and proofs

betl runs ETL pipelines written in YAML. A pipeline is a graph of *stages*
(tasks, dataflows, `foreach` loops); a dataflow stage is a graph of *steps*
(sources, transforms, sinks) that exchange Arrow record batches through pull
streams (`get_next`, `release`). Providers, loaded with `dlopen`, bring the
components, tasks and expression engines.

This directory holds TLA+ modules translated from that code, TLC
configurations, and proofs that TLAPS checks. Paths below are relative to the
repository: `src/runtime/exec.c` is the executor, and so on.

    tlc -workers 2 -config AsyncStream_checked.cfg AsyncStream
    tlapm AsyncStream_proofs.tla

`PROJECT.json` lists the components, the runs with their properties, one
seeded bug per property that TLC must find, the source lines of every
definition, the hazards of the code and the theorems.


## 1. The system

| component (source) | state | operations | who calls it, concurrently with what |
|---|---|---|---|
| async edge (`runtime/async_stream.c`) | ring of `Depth` batches, `eof`, `err_set`, `stop`, `started` under one mutex | wrap, `async_get_next`, `async_release`, `producer_loop` | the executor puts one on each consumed port; the consumer thread and the edge's own producer thread share it |
| multicast (`transform_multicast.c`) | one queue per tap, a reference count per shared batch, `upstream_eof`; no lock | `port_get_next` per tap, `mc_pull_one`, `shared_release`, `mc_destroy` | one edge thread per consumed tap, the views' consumers, the stage's thread at teardown |
| conditional_split (`transform_split.c`) | one queue of slices per port, `upstream_eof` | `port_get_next` per port, `route_one_batch` | as multicast |
| topological sort (`exec.c`: `topo_sort`, `step_incoming`, `stage_incoming`) | in-degrees, queue | one call per scope and per dataflow | sequential |
| dataflow executor (`exec.c`: `run_dataflow_stage`) | runners: step states, output slots, `output_attached` | init, attach_output, wrap, attach_input, drive sinks, cleanup | the stage's thread; the edges' threads run inside the steps meanwhile |
| stage executor (`exec.c`: `run_stages`, `run_foreach_stage`, `eval_condition`) | position in the order, loop variable saved and bound | one call per scope, recursive for `foreach` | the host may set the cancel flag from another thread or a signal handler |
| context (`context.c`) | variables, parameters, connections, cancel flag, last error | get/set, request_cancel | everything |
| substitution (`substitute.c`) | none | `${var}`, `${params.x}`, `${env.X}` | run_stages, tasks, components |
| parser and validator (`pipeline/pipeline.c`) | files on the current include path, files merged, the pipeline | parse, includes, id uniqueness, reference and cycle checks | CLI, before the run |
| registry and loader (`loader/registry.c`) | providers, tables of components, tasks, engines | register, lookup, shutdown in reverse order | CLI and host |
| parameters, connections (`parameters.c`, `connections.c`) | declared values | defaults, overrides, type checks | CLI and host |
| shell task (`shell.c`) | child process, deadline | spawn, poll, SIGTERM, SIGKILL, reap | stage executor; cancel flag |
| SQL sinks, exec, sources, lookups (`postgres_*.c`, `mssql_*.c`) | connection, transaction, cursor, cache | begin, write, commit, roll back, fetch, look up | sinks and edge threads |
| row-wise transforms (`transform_limit/union/filter/map/audit/unpivot.c`) | counters, the current input | one batch in, one batch out | edge threads |
| row-keeping transforms (`transform_sort/distinct/aggregate/pivot/join.c`) | materialised rows, groups, hash chains | drain input, emit | edge threads |
| files, http, smtp (`file_ops.c`, `http_ops.c`, `smtp_send.c`) | files | copy, move, delete, transfer | stage executor |
| row files (`builtins.c`, `json_*.c`, `xml_*.c`, `xlsx_*.c`) | file position, batch under construction | next batch, write batch | edge threads, sinks |
| encodings (`encoding.c`) | bytes kept between calls of stdio | convert a block read or written | inside the readers and writers of text |
| command line (`cli/cmd_run.c`, `cmd_validate.c`) | arguments, overrides, explicit providers | load, register, parameters, connections, run, release | the process |
| Lua, SSIS expression and .NET providers (`providers/`) | interpreters, hosted runtime | components, tasks, expression engines | as any component |
| CLI, converter, editor, benchmarks, fuzzers | | | not part of a run |

A run goes: `betl run` loads and validates the pipeline, registers the
built-in and the discovered providers, gives parameters and connections their
values, then calls `run_stages` on the top-level scope. A dataflow stage
initialises its steps in declaration order, connects them in topological
order (a stream passes from an upstream's output slot, through an edge with
its own thread unless `BETL_PARALLEL=off`, into the downstream's inputs),
drives the sinks one after the other, and destroys the steps in reverse
declaration order; the destroy of a step releases its inputs, which joins the
threads of its edges.

What is hard, and what makes each part correct:

- *edge*: two threads, two condition variables, the lock dropped around
  `get_next`. Batches in order, none lost, duplicated or freed twice; the end
  is reported after the last batch and as it happened; the producer is gone
  before the ring is freed; nobody sleeps for ever.
- *multicast*: a batch lives exactly as long as somebody can read it, also
  when an allocation fails with half of the taps served; every tap sees the
  whole stream; nothing is left after destroy. Nothing in it is locked: it
  relies on one thread at a time being inside.
- *split*: a row goes to its first true case, once and in order, whatever
  the order of the pulls; a port ends only when it is complete.
- *topological sort*: upstreams first; an acyclic graph is never refused;
  arrays of n entries suffice.
- *dataflow executor*: a failure at any point releases every stream and
  destroys every step once; no thread is inside a step that was freed; the
  inputs are those the pipeline names; success means every sink was drained.
- *stage executor*: failures end the run unless excused, cancellation is
  never excused, loop variables are scoped, every run ends.
- *transforms*: what comes out does not depend on how the input was cut into
  batches; ties, nulls, colliding hashes and repeated keys are treated as the
  operation's definition says; an ended input is not pulled again, and a
  failing one never looks ended.
- *database writers*: rows buffered, rows executed and rows committed are
  three different things; a failure between any two must leave none, and a
  success all. Buffers that the driver has bound may not move.
- *database readers*: other sessions write while the reader reads; a value
  longer than its buffer is fetched in two calls; a cache built once answers
  all batches.
- *loader*: a file reached twice is a cycle on one path and a diamond on
  two; what the validator accepts must be what the executor can order.
- *registry*: a provider has run code of its own before the allocations that
  may still refuse it.
- *command line*: overrides, defaults, required and dynamic parameters and
  the connections that read them are settled in an order that decides.
- *shell task*: child, deadline and cancel race; a child may ignore signals.
- *file and http tasks*: a crash or a failed call between two system calls;
  two names of one file.
- *text codec*: characters are cut by chunks on both sides of iconv.
- *row files*: csv is cut into records by one scanner and into fields by
  another; a writer that stops half way leaves a file a reader accepts.


## 2. Modules

| module | models | extends / composes |
|---|---|---|
| `OrderedStream` | the promise of an Arrow stream with bounded read-ahead | |
| `AsyncStream` | one edge with its two threads | implements `OrderedStream` |
| `AsyncStream_proofs` | theorems about `AsyncStream` | `AsyncStream` |
| `Multicast`, `MCMulticast` | the multicast behind its edges, the sinks and the teardown | an edge is what `OrderedStream` says |
| `Selection` | what a filter keeps of a sequence, as a recursive function | |
| `ConditionalSplit` | the split and its ports | `Selection` |
| `Multicast_proofs` | theorems about `Multicast` and `ConditionalSplit`, the two transforms with several outputs | both |
| `TopoSort` | `topo_sort` with either edge resolver | |
| `DataflowStage`, `MCDataflowStage` | `run_dataflow_stage` with the edges' threads | takes what `TopoSort` establishes as the set of orders; the `MC` module extends both and a run of it is a sort or a stage |
| `DataflowStage_proofs` | theorems about `DataflowStage` and `Transforms`: the stage and the transform in a step | both |
| `RunStages`, `MCRunStages` | `run_stages`, `run_foreach_stage`, `eval_condition`, `var.set` | the same |
| `RunStages_proofs` | theorems about `RunStages` and about the sort it relies on | `RunStages`, `TopoSort` |
| `StreamTransforms` | limit, union, filter, map, audit, unpivot as functions on batches | `Selection` |
| `BlockingTransforms` | sort, distinct, aggregate, pivot, join as functions on what they keep | `StreamTransforms` |
| `Transforms`, `MCTransforms` | one transform from init to destroy between its inputs and its consumer | `BlockingTransforms` |
| `DbSql` | the statements the writers build and what a server makes of them | `Selection` |
| `DbSink`, `MCDbSink` | one database writer from init to destroy | `DbSql` |
| `DbSink_proofs` | theorems about `DbSink` | `DbSink` |
| `DbSource`, `MCDbSource` | one database reader, lookup or script, beside other sessions | |
| `DbSource_proofs` | theorems about `DbSource` | `DbSource` |
| `PipelineDecl` | what the parser makes of one file, and the checks on the whole | |
| `PipelineLoad` | includes, merge and validation | `PipelineDecl` |
| `Registry` | providers, their components and expression engines | |
| `Startup`, `MCStartup` | `betl run` and `betl validate` from argv to the exit status | `PipelineLoad`, `Registry` |
| `ShellTask` | the shell task with its child, the clock and the cancel request | |
| `FileTasks` | copy, move, delete, http get and post on a small file system | |
| `TextCodec` | the conversion of a text file in chunks | |
| `RowFiles` | csv and JSON: writing rows, reading them back, counting them | |
| `LocalIO`, `MCLocalIO` | the choice of one of the last four | all four |
| `LocalIO_proofs` | theorems about `ShellTask` and `FileTasks` | `LocalIO` |
| `DataLemmas` | lemmas: induction over numbers, recursive functions, selecting from and flattening sequences | `Selection` |

### AsyncStream

The variables are the fields of `AsyncStream` in the C file (`ring`, `head`, `n`, `eof`,
`err_set`, `stop`, `started`), the two program counters, and what is needed
to say what the consumer got. A critical section under `q->mu` is one action;
`upstream.get_next` runs outside the lock and so is an action of its own
between `PCheckCancel` and `PPut`, which is where `stop` can be raised behind
the producer's back. A thread blocked in `pthread_cond_wait` is at a location
that only a signal or a spurious wake-up leaves, so a lost wake-up would be a
liveness error. Batches are numbered as the upstream returns them.

`OrderedStream` has two counters and an end; the mapping sends `pulled` to
`sent`, `Len(out)` to `got`, and `Depth` to the read-ahead.

### Multicast

`McState` has no lock, so the operations are cut at every access to queues
and counts. A tap's thread is `producer_loop` around `port_get_next`; an edge
is reduced to a bounded sequence, an end and a stop flag, which is what
`OrderedStream` allows it to be. The stage's thread drives the sinks in the
order given, releases the edges one by one and drains what is left. It leaves
the sinks where the code can: when all are done, when one fails before it has
pulled, or when one's edge reports an error; a sink that waits in
`async_get_next` stays there. The host may cancel at any moment: a thread that
sees the flag while its ring is full, or before it pulls, raises `stop` and ends without an
end of stream. Tap 3 has no consumer.

### ConditionalSplit

`Keep` follows the masks of `route_one_batch`: each case claims among the
rows no earlier case took. Every predicate is evaluated on every row of the
batch before any row is routed, as the code does. `SliceFails` is the failure
with the first i slices already queued.

### TopoSort

One action per iteration of the loops. `queue[1 .. qhead]` is at once the
`order` array and the consumed part of the `queue` array, which the code
keeps equal. The resolvers are in `Incoming` and `Upstream`: which positions
of a reference list are counted, and which nodes are hit by the scan. `Dedup`
selects `step_incoming` (skips repeats) or `stage_incoming` (does not).

### DataflowStage

A stage is a record: kinds, references with ports, number of ports, how many
inputs a component keeps, and whether edges have threads. The order is any
that puts upstreams first. `attached`/`slot` are `output_attached`/`outputs`;
`hand` is the stream between `betl_async_wrap` and `attach_input`. Every call
into a component may fail, and every failure leads through the same cleanup.
An edge's thread is running or not; what happens inside is `AsyncStream`.

### RunStages

A stack of frames stands for the recursion; `pc` is the place in
`run_stages` or `run_foreach_stage`. Values are texts or names of variables,
so that a condition or a list entry can depend on an earlier `var.set` and
fail when it has not run. `fatal` and `late` only record history for the
properties: an uncovered failure, and work started after the cancel request.


### Transforms

`StreamTransforms` and `BlockingTransforms` give each transform as operators:
what `init` accepts, what schema resolution accepts, the columns it declares,
and what one batch (or the whole materialised input) becomes. A cell is an
integer, a text or `NULL`; where the code reads a value buffer without looking
at validity, the operator uses `Raw`, which is zero under a null. Integers of
the aggregate wrap at `Bits`. The hash tables are modelled with their chains
(newest row first) and a hash function given as a constant, so that keys can
collide; pivot's column-major arrays with their capacity, because their growth
does not move the columns. `Transforms` follows one transform from `init` to
`destroy`: `st` is what its state structure keeps between batches, `in` what
each input has delivered and how it ended, and an action is one input pull or
one answer of `get_next`, with the cancel tests of each drain loop.

### DbSink

A statement is a record of the columns it writes, its key and its conflict
mode (`DbSql`), and running it changes a table. `db` is what other sessions
see, `txn` the writer's own view; `buf` is the buffer bound per column and
`pend` the rows an array insert has collected. The four sinks run inside
`run` (begin, pull, convert, execute, commit or roll back); `bcp` commits
group by group. The two exec transforms write a row when it is pulled, and
end their transaction in `destroy`. Connection loss, a refused row, an input
error and cancellation are choices at the places the code tests for them. A
COMMIT may be done, refused, or done with its answer lost (`EndTran`): in the
last case the rows are there and the writer reports an error. In bcp any of
`bcp_colptr`, `bcp_collen`, `bcp_sendrow`, `bcp_batch` and `bcp_done` may fail.

### DbSource

`versions` are the contents the table has had; another session may append one
at any time. What a reader sees of them is `snap`. `postgres.read` fixes it
when its query runs. `mssql.read` sets no isolation level and no cursor, so
under SQL Server's default, READ COMMITTED, its scan goes on to versions that
are committed meanwhile (`MsScan`): the rows not yet fetched are then those of that
version, at the same positions, and `scan` is the version. A lookup fills its cache at its first batch, by
one snapshot on PostgreSQL and by such a scan on SQL Server (`MsLookupFetch`).
`sql.execute` sends a script to either server. mssql's long cells are taken in two calls of `SQLGetData`, with
the terminator that text needs and binary does not. `junk` and `wild` record
cache slots that are allocated but hold nothing, and that such a slot was
freed.

### PipelineDecl, PipelineLoad, Registry, Startup

A YAML node is a scalar, a list, a mapping or absent. A parser returns the set
of its results, empty for an error, so that a list of parsers fails if one
does. `PipelineLoad` is `load_one`: `frames` is its call stack, `loading` the
files on the current path, `loaded` those merged. `Registry` keeps the three
growable tables; `RegisterValidated` may fail in any of its allocations, after
`provider_init` has run. `Startup` is `cmd_run` and `cmd_validate`: options,
load, built-in and discovered and explicit providers, overrides, defaults,
dynamic defaults, connections, the run, and the release of it all. `betl_run`
itself answers well or badly here; what it does is `RunStages`. The built-in
providers are entered one after another, and parameters and connections set
one by one, each of which may fail after the ones before it. These
modules use recursive operators (trees of stages, depth-first search) and are
meant for TLC.

### ShellTask, FileTasks, TextCodec, RowFiles, LocalIO

`ShellTask`: the child goes from `forked` over `grouped` (it has called
`setpgid`) and `running` to `zombie` and `reaped`; the task polls, sends
SIGTERM at the deadline and SIGKILL after the grace period; clock, child and
cancel request run beside it.

`FileTasks`: names lead to inodes, inodes hold content, so a copy onto the
same file and a write through an open descriptor behave as they do. Any system
call may fail, a write may be short, and the process may end at every step.

`TextCodec` works on bytes: a character is a kind with a length in UTF-8 and
one in the other encoding, a byte is a kind and a place. A read converts a
chunk and keeps an unfinished character; a write joins what it kept with the
new block and substitutes what the encoding does not have. The file below may
fail to give or to take bytes. iconv is external; the shift state of stateful
encodings (`encoding.c:97-104`, `:322-328`) is left out.

`RowFiles` writes a table with `csv.write` or `json.write`, failing anywhere,
and reads the file with `csv.read` or `json.read` into `count_rows`. A csv file
is the sequence of its characters, because quotes, delimiters and line ends
inside cells are the question; the record scanner and the field scanner are
two operators, as they are two functions. A JSON file is its punctuation and
its objects; `JsonValue` and `RenderCell` are what the way through JSON does to a
cell: a number that is not finite becomes null, a whole number is cut to
the 53 bits of a double, a text ends at its first NUL. `AsRead` states these
losses, and `FilesReadBack` that there are no others.

`LocalIO` is the disjoint choice of these four: each run is one of them.


## 3. Runs

| run | instance | what it shows |
|---|---|---|
| `async_edge` | Depth 2, 5 batches, cancel at any time | `StreamIsSound`, `Ownership`; it implements `OrderedStream`; pulls and release return |
| `async_cancel` | Depth 1, 2 batches | `CancelReturns` is *violated*: a waiting consumer is not told of a cancel |
| `multicast` | 3 taps (one unconsumed), Depth 2, 4 batches, allocation failures, a cancel at any time, the last sink stops early | reference counts, no use after free, no leak, one thread inside (`SharingIsSound`); completeness; without a cancel no sink waits for ever, and a stage that is left ends |
| `split_routing` | 2 cases and a default, 3 rows, batches of 0 to 2, all predicate values, failures | routing; prefixes after a failure and a truthful end (`PortsAreSound`) |
| `dataflow` | either a sort: every graph of 3 steps, lists of up to 3, resolver array of 2; or a stage: chain, fan-out, join, diamond, an unknown port, a third input of a join; with threads and without; a stage declared in reverse order without threads | no overflow, order, acyclic graphs sorted; one release and one destroy from every failure, wiring, order, no touch after destroy, success means drained |
| `run_stages` | three pipelines: gated loop body, nested loops over one name, a variable set and read; cancel at any time | loop variables, failures, cancellation, termination |
| `transforms` | each of the eleven transforms in several configurations, up to 4 rows in batches of up to 2 with nulls; integers of 3 bits, a hash that collides, pivot arrays of 4 | row-wise operations are independent of batching, groups are exact, sort is stable, join is the relational join; an end is honest (`EndIsHonest`), each call returns |
| `sql` | every writer in several configurations on a table with a unique key; batches of up to 2, two of them; nulls, repeated keys, long values, refusals, lost answers to COMMIT | all or nothing; what was stored, by a success or with its answer lost, is exactly the input; bcp stores a prefix |
| `dbread` | every reader, lookup and script; two versions of the table; long values, unparsable values, refusals | rows of one version, or on SQL Server of one scan over versions, whole and in order; all of a lookup's answers from one such view; scripts on PostgreSQL are atomic |
| `host` | `run` and `validate` over every include graph of up to three files, stage graphs, declarations, options, libraries that clash or fail | exactly the mergeable files load, what is accepted can be ordered, no provider is half registered or left running, the run gets the values asked for |
| `local_io` | timeouts of 0 to 3 ticks, deaf programs; files of 3 units; every text of up to 5 characters of 6 kinds; tables of up to 2 rows and 2 columns | the task answers for its child and ends at its timeout; files are whole or gone; texts and rows come back, but for the losses `AsRead` names |
| `csv_comment` | tables of one text cell | `QuotedFieldsDoNotRoundTrip` is *violated*: quoted cells come back |

Sizes: `local_io` has some 989,000 distinct states, `transforms` 807,000, `sql` 487,000,
`dbread` 384,000, `dataflow` 351,000 (64,000 of them initial graphs of the sort),
`split_routing` 210,000, `host` 41,000; the others are smaller, and each run takes
well under five minutes on two workers.

Why the bounds suffice.

- *Edge*: with 2 slots and 5 batches head and tail wrap twice, the ring is
  full, empty and partly full at each head position, and stop, cancel and
  the upstream's end meet each of these. The safety part does not rest on
  the bound: it is proved for every depth.
- *Multicast*: three taps distinguish first, middle and last of a push loop
  and a tap nobody consumes; 4 batches over a ring of 2 make the unconsumed
  and the later-driven tap accumulate a queue longer than the ring.
- *Split*: three rows in batches of at most two give every batching with an
  empty batch before, between and after; every value of both predicates on
  every row is an initial state.
- *Sort*: lists of up to three over three nodes contain self references,
  repeats, cycles of every length and truncated lists (array of 2). The
  properties that hold are proved for every size.
- *Dataflow*: the shapes are those of the examples and tests: one to three
  inputs, one to three ports, a port reached twice, an unconsumed port.
- *Stages*: two levels of loops over one name are the smallest case in which
  save and restore can go wrong; two iterations distinguish first from last.
  The safety properties of the multicast, the dataflow and the stages, of the
  shell and file tasks, of the readers, and that writers are atomic, are
  proved for every instance (section 5).
- *Transforms*: three batches of at most two rows give a group, a run of
  equal ids, a tie and a limit that begin in one batch and end in another,
  and an empty batch at either end. Three bits make a sum of two rows
  overflow. Four groups fill pivot's arrays exactly.
- *Writers*: two batches of two rows fill an array group of two, leave a
  partial one, and cross a batch with a group; one long value in the second
  batch moves a buffer already bound. *Readers*: three rows over batches of
  two leave a partial batch; one change of the table falls before, between
  and after the two queries of anything that asks twice. Texts of one to four
  bytes lie on both sides of a first read of three.
- *Host*: three files are enough for a chain, a diamond and every cycle; two
  tables of capacity one or two grow while a provider is entered. Two
  overrides fill the array of overrides.
- *Shell*: timeouts below, at and above the grace period of two ticks. *Files*:
  three units read two at a time give a whole and a partial chunk, each with
  short writes. *Codec*: characters of one, two and three bytes cut by chunks
  of four and blocks of six at every place; five characters are more than one
  chunk and one block. The proportions of the code's buffers (4096, 8192, 16,
  4104) are kept where they decide: a chunk can give more than its output
  buffer holds, and a block exceeds the join buffer.
  *Rows*: two rows distinguish the last row from the others, two columns the
  last field; the texts hold every character either scanner reacts to.

Fairness. In `AsyncStream` both threads are scheduled and the upstream's
`get_next` returns; the consumer is never forced to pull or to release. In
`Multicast` each thread is scheduled and the upstream's calls return; nothing
forces a sink to fail, and one that waits cannot. In
`RunStages` the executor's thread runs and each task returns. In `ShellTask`
the task is scheduled, the clock goes on, and a child that was forked calls
`setpgid`, becomes its program and dies of a signal it does not ignore; it is
not assumed to end by itself. In `Transforms` a `get_next` that was called
goes on, and the inputs answer. The pthread
scheduler gives the first; a component or task that never returns hangs the
program as well, so the second is a condition of the statement. No fairness
is put on spurious wake-ups, on the cancel request or on failures. Deadlock
is checked in all runs but `transforms`: a module has a step that is
enabled only where the code has returned, and `Multicast` one
(`WaitsOnCancelled`) for the wait that `async_cancel` shows to be without end,
which is why its `StageTerminates` asks for an end of the drive phase only
while there is no cancel. In `transforms` a component that was
destroyed, or refused, has nothing left to do and its behaviour ends there.


## 4. Where the code and its texts disagree

Two disagreements have a run whose property is what the text says, with a
counterexample. `async_stream.c:103` and `exec.c:1023` promise that a host's
cancel halts the run. The producer that sees the flag raises only `stop`
(104-110); the consumer's wait loop (182) tests `n`, `eof` and `err_set`. A
consumer that is waiting then, or pulls later, never returns
(`async_cancel`). The command line never requests cancellation; hosts that
embed betl do.

The comment on `csv.write` (`builtins.c:1957`) says that "csv.read v0.1 doesn't yet
round-trip quoted fields". It does: `csv_parse_field` and `csv_read_record`
understand what `csv_write_utf8_cell` quotes (`csv_comment`; `FilesReadBack` is the
same for all cells). The comment is out of date, also where it allows
`csv.write` only two column types (1950).

### Known deviations

Each of these is in the models, and the runs' instances stay outside of it or
a property is stated for the rest; the last column says what to change to see
it.

| where | what the code does | how to see it |
|---|---|---|
| multicast | `README.md:209` says that one thread touches a component's state. If a sink driven before the last stops early, its tap's thread is still inside when the next tap's enters | `MCMulticast`: a `Limit` of 1 for tap 2, the first driven; `SharingIsSound` |
| split, `transform_split.c:19`, `:507` | says a claimed row is not evaluated for later cases; every predicate runs on the whole batch, so one that fails on a claimed row fails the stage | a property that a failing value on a claimed row is not reached |
| `exec.c:33`, `:104` | `topo_sort` is to fail on cycles only; `after: [a, a]` counts two edges and removes one | `MCDataflowStage_checked.cfg` with `Dedup = FALSE`; `EveryDAGIsSorted` |
| `exec.c:485` | steps are destroyed in reverse declaration order, and a consumer may be declared before its source: the source is freed under a running thread | `MCDataflowStage`: `Threaded(Reversed)`; `NoTouchAfterDestroy` |
| `exec.c:374`, `:389` | a second consumer of a port is to be an error; the slot is reset when its stream is handed on, so the test does not see the first one | `MCDataflowStage`: with two sinks that name one port the stage runs and both get a stream |
| `transform_pivot.c:446` | the output arrays grow without moving their columns: with more than 64 groups in one output batch the values are wrong | `MCTransforms_checked.cfg` with `Cap0 = 2`; `GroupsExact` |
| `mssql_upsert.c:906` | a binary column's buffer is reallocated and not bound again | `MCDbSink`: a column of format `z` with a long value; `StoresItsInput` |
| `postgres_lookup.c:579-602` | a NULL in the table's text column ends the load of the cache; `destroy` frees slots nothing was written to | `DbSource!wild` is reached with `NullTables` |
| `http_ops.c:316` | the last flush of a response is in an unchecked `fclose`: success with a short file | `FilesAreWhole` without `flushLost` |
| `json_write.c:301` | the same for the last flush of a JSON file | `FilesReadBack` without `lost` |
| `encoding.c:124-136` | a chunk of 4096 bytes can become 12288 bytes of UTF-8, the buffers hold 8192 and 16 more: what exceeds them is dropped; the comment calls the case unreachable | `TextIsWhole` without `dropped` |
| `encoding.c:310-312` | a block that does not fit the join buffer with the bytes held back is converted before them | `TextIsWhole` without `torn` |
| `postgres_lookup.c:1009`, `mssql_lookup.c:1116` | the array of text lengths has 16 entries, and nothing limits the match columns to that | `OpsAssumption` without its bound on the match columns |
| `file_ops.c:111` | the destination is truncated before the source was read, so a copy that fails loses what was there | a property that a failed copy keeps the old file |
| `file_ops.c:111` | a copy of a file onto itself truncates it | `FilesAreWhole` without the aliased names |

### Seen while reading

Most are in the models (a property is stated so that it holds with them), the
rest are noted where they are left out.

- *Edge and split*: a failed `pthread_create` leaves the stream unstarted, so a
  later pull tries again (`async_stream.c:175`); the split's queues hold the
  whole input of the sinks not yet driven (`transform_split.c:32` calls them
  bounded).
- *Executor*: more `from:` entries than a component has inputs overwrite its
  stream (`exec.c:434` against `include/betl/provider.h:390`); the entries of
  `over:` are substituted before the first iteration (`exec.c:684`), where
  `src/pipeline/pipeline.h:84` speaks of each iteration.
- *Transforms*: sort and join read cells without their validity, so a null
  sorts and matches as zero; the minimum and maximum of no value are 0.
  Configuration values are found with `strstr` in the JSON text.
- *Writers*: texts sent to PostgreSQL as parameters end at a NUL; an unsigned value
  from 2^63 wraps in the mssql writers; bcp binds columns by position, and
  after an error `bcp_done` commits the group in progress; each sink of a
  stage commits alone. The exec transforms commit in `destroy`, also after a
  later sink of the stage has failed, do not look at the answer of COMMIT,
  and roll back when their consumer stops early (a `limit`).
- *Readers*: lookups read cells without their validity; `mssql_lookup` leaks
  a cache it could not finish; a fetch error of `postgres.read` loses the
  rows of the batch it was filling; a `time(7)` of SQL Server has a digit more than
  the parser takes and is refused; `mssql.read` leaks binary strings of a
  batch; `sql.execute` on SQL Server answers for the first statement only;
  `postgres.read` holds its transaction from `init` to `destroy`, so
  `postgres.copy` with `truncate` on the same table in the same stage waits
  for ever.
- *Loader*: the stages of includes come before those of the file that names
  them (`SPEC.md` section 5.4 says appended); a bundle that includes a pipeline
  brings in its stages and parameters; `${secret.X}` stays as it is
  (section 5.3); of two `--param` with one name the first wins; an
  explicit `--provider` does not replace a discovered one (`cmd_run.c:8`,
  `:65`); `validate` checks only the structure of a bundle.
- *Shell*: `timeout: 0s` kills at once (`shell.c:33`); a signal sent before the
  child's `setpgid` is lost; without a timeout a cancel is seen only when the
  child has ended, with one it sends SIGTERM only and then waits without
  limit.
- *Files*: the http tasks truncate `save_to` before anything has arrived and
  do not look at the cancel flag.
- *Rows*: `csv.read` takes a read error or a malformed byte for the end of
  the file (`builtins.c:917`), though a comment there distinguishes them, so
  the run succeeds with the rows before it; `csv.write` does not quote
  numbers and dates, so a delimiter such as `-` breaks their rows; a null text
  comes back as an empty one, and an empty cell alone on its line is lost as a
  blank line; with a schema the header is discarded and columns go by
  position. An `int64` that `json.write` writes in full comes back from `json.read`
  rounded to a double (`json_read.c:326-348`), NaN and infinity come back as nulls
  (`json_write.c:186`), a text is cut at its NUL, and minus zero loses its sign.
  `json.write` meets a type it does not support only when a row
  reaches it, and closes its array also after a failure, so that a cut file
  looks whole.


## 5. Proofs

Seven modules prove theorems about the system, an eighth (`DataLemmas`) holds
the lemmas about data they share. Each of the seven establishes inductive
invariants (`IInv`, `SortIInv` for the sort, `SplitIInv` for the split, `LookupInv`
for the lookups, `BcpInv` and `StoreInv` for the writers, `TransformInv` for the
transforms) and derives the
checked properties from them. They use the assumptions the modules state on
their constants (an edge has at least one slot, a pipeline gives a body to
every `foreach`, a table is a sequence of rows), which TLC evaluates in every
run, and six hypotheses on the configuration, stated in the theorems and
explained below.

| module | theorem | statement |
|---|---|---|
| `AsyncStream_proofs` | `TypeCorrect`, `StreamIsFIFO`, `RingNeverOverflows`, `EndOfStreamIsTrue`, `ReleaseIsSafe` | `Spec => []TypeOK`, `[]FIFO`, `[]InFlightBounded`, `[]EndIsTrue`, `[]NoUseAfterRelease` |
| | `BatchesHaveOneOwner` | `Spec => []Ownership` |
| | `EdgeIsSound` | `Spec => []StreamIsSound`, the conjunction the run checks |
| | `EdgeRefinesOrderedStream` | `Spec => ImplementsOrderedStream` |
| `RunStages_proofs` | `TypeCorrect`, `ArraysNeverOverflow`, `OrderIsTopological` | `SortSpec => []SortTypeOK`, `[]ArraysFit`, `[]OrderRespectsRefs` |
| | `OrdersAreSound` | `SortSpec => []SortIsSound`, the conjunction the run checks |
| | `StepsAreAllSorted` | with `Dedup`: `SortSpec => []EveryDAGIsSorted` |
| | `ScopesAreKept` | `Spec => []LoopsAreScoped` |
| | `FailuresStop` | `Spec => []FailureIsFinal` |
| | `CancelEndsTheRun` | `Spec => CancelIsHonoured`, an action property |
| `Multicast_proofs` | `SharedBatchesAreSound` | `OnlyLastStopsEarly`: `Spec => []SharingIsSound` |
| | `EveryTapSeesEveryBatch` | `OnlyLastStopsEarly`: `Spec => []TapsSeeEverything` |
| | `SplitRoutesToFirstMatch`, `SplitPortsAreSound` | `SplitSpec => []RoutedToFirstMatch`, `[]PortsAreSound` |
| `DataflowStage_proofs` | `StageCleansUp`, `StageIsWired`, `StageDrainsItsSinks` | `SingleInputs`: `Spec => []CleanedUpOnce`, `[]WiringIsSound`, `[]SuccessMeansDrained` |
| | `ThreadsEndBeforeTheirStep` | `SingleInputs`, `DeclaredInOrder`: `Spec => []NoTouchAfterDestroy` |
| | `EndsAreHonest`, `RowWiseTransformsAreFaithful` | `TransformSpec => []EndIsHonest`, `[]RowWiseFaithful` |
| `LocalIO_proofs` | `ShellAnswers`, `FilesStayWhole` | `Spec => []ShellAnswersForTheChild`, `[]FilesAreWhole` |
| `DbSource_proofs` | `ReadersSeeOneView`, `ScriptsAreAtomic` | `Spec => []ReadsOneView`, `[]ScriptIsAtomic` |
| | `LookupsUseOneView` | `Spec => []LooksUpOneView` |
| `DbSink_proofs` | `WritersAreAtomic` | `Spec => []AllOrNothing` |
| | `BcpCommitsPrefixes` | `BoundAsNamed`: `Spec => []BcpStoresAPrefix` |
| | `WritersStoreTheirInput` | `ArrivesAsGiven`, `KeyedTables`: `Spec => []StoresItsInput` |

The hypotheses are not conveniences: without each of them the statement is
false of the code, and section 4 says where. `OnlyLastStopsEarly` (only the
sink driven last may stop before its stream ends) keeps two threads out of
the multicast, which has no lock. `SingleInputs` (a component that keeps one
input is given one) is what the executor does not check: a further `from:`
entry overwrites a stream. `DeclaredInOrder` (in a stage with edge threads,
upstreams are declared before what reads them) is what makes the reverse
order of the destroys an order in which threads end in time. `BoundAsNamed`
(the columns of a bcp are given in the table's order, and no unsigned value
exceeds the signed range) is the part of bcp's input it stores as named, and
`ArrivesAsGiven` the same for the seven writers: no NUL in a text parameter of
PostgreSQL, no unsigned value above the signed range for SQL Server, no long
binary value for `mssql.upsert`, bcp's columns in the table's order.
`KeyedTables` is what makes an upsert well defined: its `key` is the unique key
of the table, whose rows have kept it (a null keeps rows apart).
The instances of section 3 satisfy them all.

### AsyncStream

For every depth of at least 1, any number of batches, with or without
cancellation. None of the properties is inductive by itself. `FIFO` speaks of
the slots by `(head + i) % Depth` and says nothing of the drain; `Ownership`
speaks of sets and would not survive a pop without knowing which batch is
where. The invariant says it once: there is a k such that the ring holds
k+1 .. k+n in order, the producer holds the last batch pulled if any, and what
was freed is exactly the rest (`Window`, `NoLossInv`). `ThreadInv` says which
pairs of locations can occur: past the join the producer is gone, which is why
the drain needs no lock. `EndInv` ties the flags to the way the upstream ended,
which makes `EndIsTrue` follow from the count of batches. The arithmetic of
the ring (a slot stays in the ring; distinct offsets below Depth are distinct
slots; popping shifts every offset by one) is in lemmas of its own.

### The sort

For every number of nodes, every reference list (cyclic graphs included),
every resolver array and both resolvers. A node's counter is its in-degree
less the number of its upstreams whose scan has passed it (`Counts`), and a
node is queued exactly if its counter is zero (`QueuedIffZero`). A produced
node occurs once in the queue, so a scan that removes an edge removes one not
removed before; the counter was therefore positive and the node not yet
queued, and the queue stays free of repeats. A counter at zero means that all
upstreams are among the produced nodes, since there are never more upstreams
than counted edges (`IncomingCount`, `AllGone`). If the queue runs empty early,
each node left out has a counter above zero; with the resolver that skips
repeats the counter is the number of upstreams, so one upstream is left out
too, and the left out nodes contain a cycle. With repeats this last step
fails, which is the deviation of `topo_sort` on stages in section 4.

### RunStages

For every pipeline: any stages, loops nested to any depth, any conditions and
list entries. `LoopsAreScoped` looks only at the current values, and a loop
that ends restores what it saved: so the invariant says of every frame that
what it saved is the value of its variable outside of it, read off the frames
below (`ValueTo`, `ScopedVar`), for an unbounded stack. For failures it says
where the status may be and that a failure on its way out is fatal exactly if
no frame around it has `on_failure: continue` (`FailInv`); each frame that is
left takes one candidate away. A task may start after the cancel request only
from behind the check, hence once (`CancelInv`).

### Multicast

For any number of taps up to the code's limit, any sinks, ring size, number
of batches and allocation failures. The count of a batch is the number of taps
that refer to it, and while the batch is being queued, it is the number of
taps and the ones before `nxt` refer to it (`CountInv`). This is inductive only
with an order: a tap's view, ring, thread and queue hold increasing batches
(`OrderInv`), so a tap refers to a batch at most once and popping a queue
removes exactly one reference. A cancel may end a thread at any moment without
an end of its stream. `ThreadInv` says that the threads of the sinks
before the current one have ended and those after it have not started: one
thread is inside. `StreamInv` and `EndInv` follow each tap's position against
the upstream's, for completeness. The property counts references in queues,
rings, hands and views; that this number is that of the taps is a bijection.

### ConditionalSplit

For any number of cases, rows and batches, pulls in any order, and predicates
of every value. Until something fails, what a port delivered and what its
queue holds are, flattened, the rows read so far that belong to it
(`ReadIsRouted`); after a failure they are the rows due among the first n, with
an n of the port's own, since the batch may have reached some ports and not others
(`SomeIsRouted`). The masks of `Keep` give each row of a batch to the port of its
first true case (`KeepIs`), a batch adds to each port what `Kept` selects of
it, and what is kept of two pieces of the input is what is kept of each
(`KeptOfConcat`). A port that has ended has nothing waiting and the upstream
was read to its end (`EndedAreDrained`, `EofIsTheEnd`), so its rows are complete.

### DataflowStage

For every stage, every order that puts upstreams first and every point of
failure. A stream has one owner from its making to its release: the slot it
was made in, the executor's hand, or the step that keeps it (`OwnInv`);
`SlotInv` says that no more than one slot is in use at a time, that of the
stream being passed on, which is why cleanup finds whatever is left.
`DestroyInv` follows the destroys by declaration, `WiredSoFar` the inputs by
order, `DrainInv` the sinks by order. A thread runs only inside an edge that
some step still keeps; what it touches is declared earlier and is destroyed
later.

### Transforms

For every set of configurations of the eleven transforms, inputs of any rows,
batches of any size and any number of them, an error or a cancel request at
any point. What is assumed of a configuration (`OpsAssumption`,
`PredicateAssumption`) is its shape: the rows of an input are as wide as its
schema and hold no engine failure, a limit's `n` is a number, a predicate is
true, false, null or fails, which is all a Boolean column of the expression
engine can hold (`transform_filter.c:238`).

Neither property speaks of what the transform keeps between two calls, and
neither is inductive without it. `EndsAgree` says that while a transform may
be called, what it holds of each input's end (union's `cur`, join's `side`,
`materialized`, pivot's `eof`) is what the input said; so nothing that ended is
pulled, and when `get_next` says that it has ended, all its inputs have
(`HonestEnd`). `StateOf` gives the form of the state of each kind. `OutputOf` is
about the rows: what was given out is one function of all the rows that came
in (`Taken`, `Concat`, `Kept`, `Mapped`), and the function of the rows so far
with the function of one batch after it is the function of both. For the
filter that is `KeptOfConcat` and the fact that what its mask selects of a batch,
by the positions of the true values, is what `Kept` selects by the rows
(`KeptThrough`); for map and audit `MappedOfAppend`. A row that a map gave out
evaluated without a failure (`Evaluates`), because the batch is refused before
any row of it is given out, and this is what makes the cells of its output
whole.

### LocalIO

*Shell*, for any timeout, grace period and clock, and for every order in which
child, clock and cancel request act: until the task has decided to end the
child nobody has signalled it, and who is past the deadline is recorded as
such. *Files*, for contents and responses of any length and every chunk size:
what is in the target, with what is in the buffer, is what has been read so
far (`Holds`), the source is whole while it is copied, and a move keeps the
content under one of its names at every step, which is where the process may
end.

### DbSource

For tables of any length and contents, any batch size and any commits beside
the reader. The result set is a committed version, or on SQL Server a scan:
its rows are taken from versions that were current one after another, each at its own position
(`MsScan`), and rows once taken do not change. What was delivered is its
beginning, what is held are the rows after it up to the position fetched
(`DeliveredInv`, `LoopInv`), each value as the column's type promises. Whole
values rest on lemmas about one cell: what two calls of `SQLGetData` put
together is the value, whatever its length against the first buffer.

A lookup loads its cache once, at its first batch, from one view of the
table: a version, or a scan. There is one view that answers all rows delivered
so far, which are the first n rows of the input, and while the lookup runs it is the one in the
cache (`LookupInv`, `Serves`). An answer is a function of the view and of
one row, so the answers to two pieces of the input are those to the whole
(`MappedOfConcat`).

### DbSink

`WritersAreAtomic` is for all seven writers, every configuration and input:
nothing is stored before the phase in which the transaction ends, and the
phases behind a failure never store. What a COMMIT with a lost answer leaves is
all of it: the theorem allows rows of a writer that reports an error only
after the end of its input, and `WritersStoreTheirInput` says which rows.

`BcpCommitsPrefixes` is about contents. `BcpInv` says that the table holds the
old rows and then the first rows of the input, the group held the rows after
those, and the batch the rest (`TableInv`, `HeldInv`, `BatchInv`); a group is
committed when it is full, so whole groups are (`GroupInv`). What a group of
inserts makes of a table is a recursive function over its rows
(`ExecuteAll`), about which the library's induction rule cannot be used; the
proof takes the least row after which the function would differ from the
table with the rows appended (`LeastElement`, from the well-foundedness of
strict inclusion) and contradicts it (`InsertExtends`).

`WritersStoreTheirInput` is about the contents of what a transaction stored,
also when the answer to its COMMIT was lost, and of a success, for all seven
writers, and has two parts. The first is about rows. `StoreInv` divides the
input into what has been executed, what a group still holds and what is left
of the batch and of the batches after it; the rows executed so far are what
the writer made of its beginning of the input, the bindings of the columns name
the buffers as they are (a buffer that moved was bound again), the statement
is the one that was prepared, and before the first row `db` and `txn` are the
old table. So every row that reaches the server is the row that came in, its cells
placed under the columns they were given for (`Placed`, `Bound`). The second is
about tables. For a writer that inserts, the table is the old one with those
rows after it. For an upsert it is compared with what the mode promises of
each key (`Promised`, a function of all rows with that key, in order): the
invariant `Upserted` says that after every row there is one row for each key of
the old table and of the rows so far, that its cells are those promised, that
`update_if_changed` has left alone the rows nothing changed (`LeftAlone`), and that
`error` has only added rows. The step is the statement itself,
`INSERT ... ON CONFLICT` or `MERGE`, which either appends the row (no row has
its key) or rewrites the one that has (`PgMerges`, `MsMerges`); that what is
promised of a longer input follows from what was promised of the shorter is
again a matter of what `Kept` keeps of it.

### Model-checked only

- Liveness (`CallsReturn`, `CallReturns`, `StageTerminates`, `RunEnds`, `TimeoutEnds`) and
  deadlock freedom need fairness or ENABLED, which the prover does not handle.
- `GroupsExact`, `SortIsStable` and `JoinIsRelational` speak of folds over rows,
  chains and groups: each needs an induction over data of its own, which
  `DataLemmas` makes possible (`Induction`, `RecursiveFunction`) and nobody
  has done. `GroupsExact` is also false beyond pivot's first capacity
  (section 4), so its theorem would need a hypothesis on the number of groups.
- `PipelineDecl`, `Startup` and what extends them (`LoadIsExact`,
  `AcceptedIsRunnable`, `RegistryIsSound`, `RunsAsConfigured`) use recursive
  operators, which take the SMT solver away from a module.
- `TextIsWhole` and `FilesReadBack` are about scanners that compute along
  their input.


## 6. Not modelled

- The text of expressions, schemas as Arrow declares them, and formats beyond
  those a property tells apart: an expression is a column, a constant, a
  quotient or a verdict; a batch is a number for the edges and a sequence of
  rows for the transforms.
- Allocation failure, except where the code has something to undo: multicast,
  split, registry; out of memory while a pipeline is loaded.
- The coercion of YAML scalars to JSON for the components' configurations
  (`pipeline.c:149-257`), JSON scanning, logging, the last-error text, help
  and `init` of the command line.
- Two database components in one stage against one server: `DbSink` and
  `DbSource` each model one component, so locks between them are out.
- The xml and xlsx readers and writers, loops around libxml2, xlsxio and
  libxlsxwriter, whose rules for absent cells and blank rows decide what is
  read; `smtp.send`, one message of libcurl; the generators, streams like any
  other; date, decimal, uuid and hex helpers, pure functions.
- The Lua, SSIS expression and .NET providers: a language or a runtime each.
  To the engine they are components and expression engines like others, whose
  answers are choices in the models.
- The external libraries (libpq, ODBC, libcurl, libyaml, iconv), the vendored
  cJSON, and the converter, editor, benchmarks and fuzzers.


## 7. Plan

Modules that are left, in this order.

1. A chain of two edges with a transform between them, `get_schema` called
   while a producer runs.
2. One stage with two database components against one server: locks, the
   outcome of a stage whose sinks commit one by one.
3. `SsisExpr`: three-valued logic, integer promotion and casts of the SSIS
   expression engine as operators.
4. The date and decimal helpers as operators on integers against the calendar.
5. The start-once of the .NET runtime and the life of a Lua state.

Theorems to come: `SortIsStable`, whose definition folds over rows as `Kept`
does; the tables of `Registry` name
only providers that were entered, each initialised once and shut down once,
once it is taken apart from the recursive operators above it.
