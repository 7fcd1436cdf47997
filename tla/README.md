# A verification project for the file transfer daemons

The repository holds two multi-threaded daemons. The *encode daemon* (`server`
in README.md of the repository, `src/src/FDEncodeDaemon`) is told by an API
server to fetch a file; it connects to the *content daemon* (`client`,
`src/src/FDContentDaemon`), which has the file, and stores what it receives.
`client_test` is the encode side of one transfer as a process of its own.

The modules here model one transfer between the two daemons, the work queue
inside each of them, the process of the encode daemon with its clients and its
descriptors, several jobs on one output path, and the two pools of workers
together. TLC checks them on small instances and TLAPS proves the most
important invariants for instances of any size. `PROJECT.json` maps every
definition to the lines it models.

File names below without a directory are those of `src/src/lib.server`,
`src/src/lib.filecontrol`, `src/src/lib.opensource/*` and `src/inc`.

## Inventory

| Component | State | Operations | What is hard |
|---|---|---|---|
| Encode side of a transfer (`EncodeDaemonFunction.cpp`) | function being executed, `sizeLeft`, `FileController`, output file, stream | START (2), wait for EXIST_CHECK (6), TRANSFER_READY (7), store (10), wait for TRANSFER_END (12) | short reads, failed reads, results that nobody looks at, an uninitialised result, crash in the middle of a file |
| Content side of a transfer (`ContentDaemonFunction.cpp`) | function, `sizeLeft`, `FileController`, open source file, buffer, stream | receive HEADER and FILEINFO (3), look at the file (4), EXIST_CHECK (5), wait for READY with a timeout (8), send (9), TRANSFER_END (11), close | time between check and use of the file, blocking and partial writes, late READY, close with unread data |
| The process of the encode daemon (`EncdConnectionHandler::run`, `TCPConnector`, `TCPStream`, `TCPAcceptor`) | descriptor table, queue, per worker: item, FILEINFO, stream, output file | accept, receive HEADER and FILEINFO of an API client, connect, job, delete item | clients that stay silent, close or abort, reads that return 0, a NULL stream, numbers of closed descriptors that others get, descriptors that run out |
| The output file shared by jobs | contents, per job: offset, stdio buffer | open and truncate, write, close, death of the process | two requests for one path |
| Both daemons together | jobs, two queues, two pools of workers, one connection per job | as above, as waiting | workers that never come back, pools that wait for each other, the death of a process under its peers |
| `FileController` | path, `fsize`, two flags that nobody reads | constructor, `fileExist`, `getFileSizeExist`, `appendFileSizeSet` | size 0 means two things |
| `SocketFunction`, `HEADER`, `FILEINFO` | - | `makeHeader`, `makeData`, `makeFILEINFOfromPointer` | one write is not one read |
| `TCPStream` | descriptor | `send`, `receive` (with timeout), destructor | TCP: partial transfers, FIN, RST that discards data, bounded buffers |
| `wqueue` | list, mutex, condition variable | `add`, `remove`, `size` | lost and spurious wakeups |
| `serverStart` of both daemons | acceptor, queue, workers | accept loop | accept that fails |
| `Thread` | `m_tid`, `m_running`, `m_detached` | `start`, `join`, `detach`, destructor | order of calls |

How they interact: the acceptor of each daemon puts accepted streams into the
daemon's `wqueue`; a worker thread takes one, runs a job on it and deletes it.
A job of the encode daemon opens a connection to the content daemon, whose
acceptor queues it for one of *its* workers. The two workers then talk over
this connection; neither shares memory with the other. The workers of one
process share the queue, the descriptor table and their fate: an invalid access
of one ends all. Jobs with the same output path share the file.

What makes each component correct:

- *transfer*: the output is the source, or a beginning of it if something
  failed, and the result says which; nobody waits for ever; nothing is sent to
  a peer that is not ready; an abort never destroys data that matters; a
  refused request destroys nothing;
- *queue*: mutual exclusion, each item to one worker, in order, no item left
  while a worker sleeps;
- *encode daemon*: no thread uses a descriptor that has come to mean something
  else, what is opened is closed, no connection is lost, a request that can be
  carried out does not end the process, and requests are served;
- *shared output*: the job that opened the file last decides what it holds;
- *both daemons*: workers come back from jobs, and one side's death frees the
  other's workers.

## Modules

| Module | Models |
|---|---|
| `SocketFunction` | the wire format, as units that a read may or may not split |
| `FileControl` (extends it) | `FileController` and the stdio calls on files |
| `FileTransfer` (extends it) | one transfer: both workers, the connection, the environment |
| `FileCopy` | abstract: what a transfer promises |
| `WorkQueue` | `wqueue`, the accept loop of `serverStart` and the workers' loop |
| `FifoQueue` | abstract: what the queue promises |
| `EncodeDaemon` | the encode daemon's process: clients, accept, requests, connect, jobs, descriptors |
| `SharedOutput` (extends `FileControl`) | step 10 of several jobs on one output path |
| `Daemons` | both daemons: acceptor, queues, two pools of workers, jobs |
| `MCFileTransfer`, `MCWorkQueue`, `MCEncodeDaemon`, `MCSharedOutput`, `MCDaemons` | small instances |
| `FileTransferProofs`, `FileCopyProofs`, `NominalProofs`, `RefusalProofs`, `WorkQueueProofs`, `EncodeDaemonProofs`, `SharedOutputProofs`, `DaemonsProofs` | theorems |

The models stand in layers. `FileTransfer` has every message and every file
operation of one job. `WorkQueue` has every operation on the mutex and is shown
to implement `FifoQueue`; `EncodeDaemon` and `Daemons` use a queue that does
what `FifoQueue` does. `EncodeDaemon`, `SharedOutput` and `Daemons` keep of a
job what the others notice of it: its descriptors, what it writes to the file,
and whom it waits for.

Operators whose name is that of another definition with a suffix and whose
comment begins with *Mutant* are plausible bugs: replacing the definition by
one of them makes the property that `PROJECT.json` names fail.

### FileTransfer

*Program counters.* `epc` and `cpc` name the function that runs next:

| `epc` | Encode worker | `cpc` | Content worker |
|---|---|---|---|
| START | `processGetFile_START` | HEADER | first `receive` of `run` |
| EXIST | `processGetFile_Get_Exist_Data` | INFO | `receive` of `processPutFile` |
| READY | `processGetFile_TRANSFER_READY` | CHECK, REPLY | steps 4 and 5 |
| OPEN, RECV | `processGetFile_FILE_TRANSFER` before and in its loop | READY | step 8 |
| END | `processGetFile_TRANSFER_END` | OPEN, READ, SEND | step 9 before its loop, at `fread`, at `send` |
| DONE | back in `run`, or at `exit` | END, CLOSE, FREE | step 11, `delete item`, back at the queue |

CRASHED is the end of the process. One action is one blocking call with what
the function does until the next one.

*The connection.* Each direction is a log (`e2c`, `c2e`) of all units written,
and a reader's position (`eRd`, `cRd`). A read takes between one unit and what
was asked for; it fails at the end of the log if the peer has closed or the
connection was reset. A write by the content side blocks while `SockBuf` units
are unread; the encode side's messages are smaller than any socket buffer.
`close` with unread input, and data that arrives at a closed socket, produce an
RST: `conn` becomes `"reset"` and the data in flight is cut at any point.
`TCPStream::send` is a plain `write`: SIGPIPE is ignored by both mains.

*Units.* Nothing makes a read return all of a message. A HEADER is three units:
`nCmd`, what completes `nStatus`, and the rest; a read of the first unit leaves
`nStatus` as `memset` cleared it, 0, which step 6 does not take for a refusal
(`nStatus(u, n)`). `eStatus` is what step 6 has read there. A FILEINFO, which
with its HEADER is larger than a segment, is two units, and the content side
looks only at the first. The model does not split the third unit of a HEADER: a
read of START that ends between its bytes 16 and 83 has `nDataCnt` and
`nDataSize`, and the rest of the HEADER would be taken for the beginning of
FILEINFO. File contents are
units of equal size; `FILE_BUF_SIZE` of them fill the transfer buffer. Zero is
the unit that `memset` leaves in the buffer where `fread` reads past the end.

*Undefined behaviour.* The uninitialised `return_value` of step 6 is any value:
the job ends or goes on. `fseeko64(NULL)` ends the process.

*Environment.* `Faults` says what may happen: a read that returns a part of a
HEADER or of a FILEINFO, a timeout of step 8, a reset, the death of the encode
process (which loses what stdio still buffers), an output path that cannot be
opened, a source that is replaced or removed before step 9 opens it. Without
`"timeout"` the 60 s of step 8 are long enough for an encode worker that is
going to send READY, and expire only if it is not.

### WorkQueue

Each step between two operations on the mutex is an action, named after the
method and the call: `add_lock`, `add_push_back`, `remove_test`, ... A thread
that is signalled leaves `m_condv` and has to take the mutex again;
`SpuriousWakeup` removes a thread from `m_condv` without a signal. `front()` of
an empty list is `Garbage`. `run` is the job with `delete item`.

### EncodeDaemon

One action is one call of `run` with what follows from its result:

| `wpc` | The worker is about to call |
|---|---|
| remove | `m_queue.remove()` |
| header, info | the two `receive` of a request |
| socket, connect | `socket` and `connect` in `TCPConnector::connect` |
| look, measure | the constructor of `FileController` (`fopen64`; `ftello64` and `fclose`), with which `FileTransferFunction` begins |
| ask | steps 2 and 6 |
| open, store | `fopen64` of step 10; its loop, `fclose` and step 12 |
| delete | `delete item` |

*Descriptors.* `fd` says what each number is open on, and a new descriptor gets
the lowest free number, as POSIX demands; so a number that was closed soon
means something else, and `DescriptorsAreOwn` can tell. `conn[w]` and `file[w]`
are the numbers in `TCPStream::m_sd` and `FILE *` of worker `w`. With a full
table `accept` fails and is tried again, `socket` fails and `connect` returns
NULL, and `fopen64` returns NULL, in step 10 and in `FileController`, which
then takes the output for missing.

*Requests.* A client is "silent" until its whole request can be read; it may
send, close or abort at any time. A read blocks while the client is silent. A
read that returns 0 is not an error for `run`, which goes on with the FILEINFO
that `memset` has cleared; a negative result ends the request. A whole request
is one of `Kinds`.

*Jobs.* After step 6 a job goes on or ends, as its result says. Step 2 tests
the stream and its result is overwritten; step 6 then uses the NULL stream, and
`fseeko64` a NULL file: both are `Crash`, the end of the process.

### SharedOutput

`FILE_TRANSFER_Open` is `fopen64(path, "wb+")`: the one file behind the path is
empty at once, also for the jobs that have it open. `got` counts what a job has
given to `fwrite`, `put` what stdio has handed to the kernel, which is the
job's offset: a job that others have truncated writes on at its old offset, and
what lies before it reads as zeros. `fwrite_Flush` may happen at any point,
since the size of the stdio buffer has nothing to do with that of the transfer
buffer. `Killed` is the death of any set of jobs: of a process, or of several.

### Daemons

Every action is a blocking call of a worker, with what the others notice of it.
`reply`, `ready`, `window` and `closed` are the state of each job's connection;
`eUp` and `cUp` the two processes. A refused job ends for the encode worker in
step 6 and leaves its connection open; the content worker waits in step 8 until
READY, the timeout, or the end of its peer, and goes on to step 9 in any case.
`"refused"` jobs expect more than a socket holds, `"refused_small"` ones less.
A `"missing"` source ends the content daemon in step 9.

## Runs

| Run | Checks | Shows |
|---|---|---|
| `nominal` | `NeverAborted`, `EndSignalReceived`, `SendsOnlyWhenReady`, `TransferCompletes` | without faults the protocol does what it is for, at every size from 0 to two buffers, for a source shorter, as long as or longer than requested, over any old output |
| `faults` | `TypeOK`, `OutputIsPrefix`, `ResultIsHonest`, `ImplementsFileCopy` | with all faults but a HEADER read in parts the output is a beginning of the source and the result is honest |
| `split_reads` | `RefusalRespected`, `WorkersReturn` | with all faults, messages read in parts included, a refusal of which `nStatus` was read leaves the output alone, and both sides come back if the encode process exits after its job |
| `queue` | `TypeOK`, `MutualExclusion`, `EnoughAwake`, `OneOwner`, `EveryItemIsServed`, `ImplementsFifo` | the queue's invariants; no item is forgotten; the queue is a FIFO queue |
| `requests` | `TypeOK`, `DescriptorsAreOwn`, `OnlyJobsLeak`, `ConnectionsAreKept`, `ProperRequestsAreSafe`, `RequestsAreServed` | whatever clients do, no thread uses a descriptor of another one and no connection is lost or served twice; a job loses its connection to the content daemon and nothing else; with room for that, a job that can be carried out never meets a NULL stream in step 6 or a full table in step 10; a whole request is served while some worker is not held by a silent client |
| `overlap` | `TypeOK`, `LastOkMeansComplete`, `NothingOlderSurvives` | with any overlap of three jobs on one path, the last to open it decides, if the ones it overtook fetch the same; otherwise only jobs that overlap mix |
| `pools` | `TypeOK`, `SendersHaveReaders`, `WaitsAreAnswered`, `EncodeWorkersReturn`, `LosesOneWorkerPerRefusal`, `DeathFreesWorkers` | whoever has contents of a good file to send has its reader, and whoever waits has someone who is going to answer; a refused request larger than a socket costs the content daemon one worker for good and nothing else does; the pools wait for each other only when all workers are lost; the death of either process frees the other's workers |

The runs named `finding_*` show where the code does not do what the repository
says of it; each checks one property and TLC finds it violated:

| Run | Property | What happens |
|---|---|---|
| `finding_missing_file` | `ContentDaemonSurvives` | a request for a missing file ends the content daemon |
| `finding_stuck` | `WorkersReturn` | after a refusal a content worker may block in `write` for ever |
| `finding_refusal` | `RefusalEndsTheJob` | a refusal of which the first read brings less than `nCmd` and `nStatus` counts as "file exists", and step 10 truncates the old output |
| `finding_disk` | `ResultIsHonest` | a full disk is reported as success |
| `finding_unreachable` | `BadRequestsAreContained` | a request for a content server that cannot be reached ends the encode daemon |

The first two have one cause: `processPutFile` overwrites the results of steps
4, 5 and 8 and always goes on to step 9, against the comments on those steps.

Six more deviations are in the models without a run of their own. README.md of
the repository (step 8) says that the server ends the connection when the
transfer is complete; the stream of line 403 is never closed, and `OnlyJobsLeak`
admits just that. A client that closes its connection without a request makes
`run` start a job with a cleared FILEINFO, since a read of 0 is no error there;
`connect` returns NULL, and the process ends as in `finding_unreachable`, which
is why `ProperRequestsAreSafe` is about requests that were sent. The result
of step 6 is uninitialised after a failed read, so that step 10 may truncate an
old output without an answer (`FileTransfer`). An empty file counts as missing,
because size 0 stands for both (`FileControl`). A FILEINFO that is read in part
leaves the rest unread, and the close at the end of the job then aborts the
connection and may take the end signal with it (`FileTransfer`, fault
`"split_info"`). README.md of the repository (step 2) promises that an
interrupted transfer is resumed; the code says in a comment that it always
starts anew, and `FileTransfer` models that: the offset asked for is 0.

**Bounds.** The state spaces are finite without any constraint.

- *Transfer.* The buffer holds 2 units and files up to 4, so that a transfer
  takes zero, one or two turns of the loops and the last turn is full or not;
  sockets hold 3 units, one HEADER, less than the largest file, and no multiple of
  the buffer, so that writes block in the middle of it. All units of a file differ, so that
  loss, repetition, reordering and foreign data show. The constants are chosen
  per run for the question it asks.
- *Queue.* Three workers and three connections: any number of workers may sleep
  while others run. `Connections` bounds `accept`.
- *Encode daemon.* Three clients and two workers, so that one client waits
  while two jobs run, and a number that one job frees is taken by another
  thread. `MaxFd` = 8 is exactly `Room`, the listener, one per client and two
  per worker: one less, and `ProperRequestsAreSafe` says nothing. The table is
  then never full while a connection waits for `accept`; that none is lost when
  it is, is left to the theorem. `Clients` bounds the connections.
- *Shared output.* Three jobs: one is overtaken by a second and both by a
  third. One fetches another source, shorter than the two others'. The buffer
  holds 2 of at most 3 units.
- *Pools.* Two workers on each side and three jobs of any kind, so that refused
  jobs may take no worker, one, or both, with a job left over that needs one. A
  job is 2 units and a socket takes 1: `write` blocks.

**Deadlock.** `CHECK_DEADLOCK FALSE` throughout: a transfer, a set of jobs and
a set of clients come to an end, and what remains is a daemon that waits for
the next connection.

**Fairness.** `FileTransfer` assumes weak fairness of each worker: a thread
that is not blocked in the kernel runs, what TCP has accepted arrives, and the
timer of step 8 expires. Faults are never assumed to happen. `WorkQueue`
assumes that threads run, that jobs end, and (strong fairness) that a thread
that waits for the mutex, which others take again and again, gets it some time;
glibc's mutex gives no such guarantee in general, but its waiters compete on
equal terms, and no thread of this code holds the mutex across a blocking call. It
assumes neither spurious wakeups nor further connections: nobody may count on a
later signal. `EncodeDaemon` assumes that the acceptor and each worker run and
that the calls of a job return; nothing is assumed of clients, so that a worker
may wait for a silent one for ever, and `RequestsAreServed` says what holds
then. `Daemons` assumes that threads that are not blocked run and that the
timer of step 8 expires; the death of the encode daemon is possible at any
time and never assumed.

## Proofs

All theorems hold for all values of the constants that the named assumptions
(`ZeroAssumption`, `TransferAssumption`, `WorkQueueAssumption`,
`ThreadAssumption`, `EncodeDaemonAssumption`, `SharedOutputAssumption`,
`DaemonsAssumption`) allow.

*FileTransferProofs.* `TypeCorrect` needs an inductive invariant, `IInv`,
because types alone are not preserved: the position at which step 9 reads is
`dFileSize - cLeft`, which is a natural number only if `cLeft` never exceeds
`dFileSize`, which rests on the request having asked for offset 0. `IInv` adds

- `Asking`: what the encode worker has sent so far, and that it holds its socket;
- `Serving`: what the content worker has read, its file and how much is left;
- `BufferIsNext`: the transfer buffer holds the next part of the file;
- `StreamLength`: while the connection is up, the length of `c2e` tells how far
  the content worker is;
- `StreamIsFile`: whatever happens, what lies in `c2e` between the answer of
  step 5 and the end signal is the file.

`OutputIsAPrefix` adds `Reading` and `Storing`: step 10 starts to read exactly
behind the answer of step 5, or at the end of a dead stream, and what is in the
output after `Stored` units is their beginning, as far as the disk has room. It
is inductive only if a HEADER is read in one piece (`"split_header"` is not
among the faults); of a HEADER read in part, the rest is stored as contents.
`OkMeansComplete` follows if the disk has room for every size that may be
requested; `finding_disk` shows that the condition is needed.

*FileCopyProofs* extends them, under the same two conditions:
`TransferImplementsCopy` shows that each step of a transfer maps to a step of
`FileCopy` or to a stutter. The refinement mapping hides the connection and the
content worker; `CopyStep` takes the actions one by one. Most stutter; opening
the source, truncating the output, storing a unit and ending the job are the
steps of the abstract copy. Beside `Storing` it needs `Results`, what the
result of a job says of its program counter. Fairness is not part of it:
`FileCopy` promises no progress.

*NominalProofs* is about a transfer without faults (`Faults = {}`). The
invariant `Nominal` says of both sides how much they have read and written at
every point, which makes what is in flight the difference; so a side that
closes has read all that will ever come (`NothingIsAborted`), and the last unit
that a successful job has read is the end signal (`EndSignalIsRead`). `Refused`
covers sources that are not there. `SendsToTheReady` needs moreover that every
source exists and is not empty: an empty one is refused as missing, and step 9
then follows without READY. It needs no condition on who exits after the job.

*RefusalProofs* extends them. `RefusalsDestroyNothing` holds under every fault,
reads that end at any unit of a HEADER included (see *Units*): if step 4 found no file and step 6
has read `nStatus`, the old output is what it was. It has to exclude a refusal
of which `nStatus` was not read, and `finding_refusal` shows what happens then.
The invariant `Answering` says that the first unit of `c2e` carries what step 4
found, that nothing later changes it, and that a worker which has read a refusal
has left the job. It needs of `IInv` only that what was written first stays
first.

*WorkQueueProofs.* Type correctness with mutual exclusion and the accounting of
the workers gives `NoLostWakeup` (`EnoughAwake`), `ItemsHaveOneOwner`, and step
simulation of `FifoQueue` (`QueueImplementsFifo`).

*EncodeDaemonProofs.* `DescriptorsOwned` and `LeakIsOnePerJob` hold for any
number of workers, clients and descriptors, full tables included. Neither is
inductive alone. A step closes the number that its worker keeps; that nobody
else keeps the same number follows from what it is open on, which names the
client, once no two threads serve one client. So `IInv` adds `Phases`, what a
worker has at each point of `run`, and `OnePlace`: a client is away, in the
backlog, in the queue, with one worker, or done, and never in two places. That
a new descriptor was free needs the well-foundedness of the natural numbers
(`LeastExists`).

`RoomMakesSafe` counts. If the table were full while a worker is about to open
something, every number would be the listener's, or a client's only one (its
connection while it is served, and what its job has left open when it is done),
or a worker's stream or output, and that worker has no output: at most
`Clients + 2 * Cardinality(Worker)` in all, one less than `Room` guarantees.
So `NullMeansBad` is inductive: a worker has a NULL stream only for a request
whose content server could not be reached, or for none; `ProperRequestsAreSafe`
follows from both. `NoConnectionIsLost` adds to `OnePlace` that every connection
has a place (`Kept`); it needs no room, and serves full tables too.

*SharedOutputProofs.* `LastJobDecides` and `OldPiecesAreGone` hold for any
number of jobs, any sources and any buffers. Beside the types, the invariant
says that only the last job and its rivals can have the file open (`Openings`),
that everything the last one has written is where it belongs if its rivals
fetch the same (`Agreed`), and `NothingOlderSurvives` itself.

*DaemonsProofs.* `SendersAreRead` and `NobodyWaitsInVain` hold for any two
pools, any number of jobs of any kind, any size of a job and of a socket, and
with the death of either process at any point. The inductive invariant consists
of

- `Phases`: who has a job, and that a dead process has none;
- `OnePlace`: a job waits in one queue at most and has at most one worker on
  each side, and none on the content side after its connection is closed;
- `Answers`: what a reply says of the source, and what cannot precede it;
- `Once`: READY and the end of a job come once, and contents not before them;
- `Arrived`: a connection is in a queue, with a worker, or closed;
- `ReadyHasReader` and `Balance`: what a reader still expects is what is in the
  socket and what the sender has left.

Together the two theorems are the safety half of "no two workers wait for each
other": in a job that was not refused, one of the two can always move. That
they do is `EncodeWorkersReturn`, which only TLC checks.

*Only model-checked:* the liveness properties (`TransferCompletes`,
`WorkersReturn`, `EveryItemIsServed`, `RequestsAreServed`,
`EncodeWorkersReturn`, `LosesOneWorkerPerRefusal`, `DeathFreesWorkers`), which
are out of the prover's reach: they rest on fairness, hence on `ENABLED`. Every
invariant, action property and refinement that a passing run checks is also
proved, under the conditions named above.

## Not modelled

- `TCPConnector::connect` with a timeout, `Thread::join`, `Thread::detach` and
  its destructor, `wqueue::size` and the `makeData` for lists: no daemon calls
  them, only the sample programs of the vendored libraries, which are not
  modelled either.
- The start-up of the daemons, which is sequential and exits on every error.
  The models begin behind it, with an empty queue and a listening socket, and
  `PROJECT.json` maps their `Init` to the declaration of the queue only. `start`
  of a thread may fail and nobody looks; the threads of the models are those
  that run.
- A read of a HEADER that ends inside its third unit (see *Units*).
- In `Daemons`, READY that comes later than the 60 s of step 8 from an encode
  worker that is alive: the timeout is the one of `FileTransfer`, whose fault
  `"timeout"` covers it.
- Formatting, printing and test data.
- Memory: buffers and headers made with `new` are never deleted, whatever
  happens, and nothing depends on it.
- A source that is rewritten in place while step 9 reads it: the contents that
  the output should have are then not defined.

## Plan

1. For the liveness properties, the steps of a proof that need no fairness: for
   each, a measure that every helpful step decreases and no other one raises,
   as in `SendersHaveReaders` and `WaitsAreAnswered` for the pools.
2. `NobodyWaitsInVain` at the level of messages: the counterpart of `Balance`
   for the streams of `FileTransfer`.
