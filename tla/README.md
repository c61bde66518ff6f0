# TLA+ models of MyFileServer

This directory holds TLA+ models of the concurrent and stateful parts of
MyFileServer (`src/src`). Each model is checked with TLC.

## The system and its parts

MyFileServer is a muduo-style HTTP file server written in C++.

| Part | Source | State it keeps | Operations | Interacts with |
|---|---|---|---|---|
| EventLoop / Poller / Channel / TcpServer | not in `src/` (spec only) | pending functors, channels | `loop`, `runInLoop`, `queueInLoop` | every handler runs on a loop thread |
| TimerQueue | `timer/TimerQueue.cc`, `Timer.h` | `timers_` (a set of (expiration, Timer*)), one CLOCK_MONOTONIC timerfd | `addTimer`, `handleRead`, `getExpired`, `reset`, `insert`, `resetTimerfd` | its EventLoop (timerfd channel) |
| TcpConnection | `net/TcpConnection.h` (header only) | state, input/output buffers | `send`, `sendFile`, `shutdown`, `handleRead/Write/Close` | FileServer callbacks |
| HttpContext | `http/HttpContext.cc` | parse state, request | `parseRequest`, `processRequestLine` | FileServer::onMessage |
| FileServer | `http/FileServer.{h,cc}` | `users` (the accounts cache), `mutex_`, one MySQL connection `conn`; per connection its context | `onConnection`, `onMessage`, `onRequest`, `setResponseBody` (Range, sign-up, sign-in), `sql_pool` | TcpConnection, HttpContext, ConnectionPool, the MySQL table `login`, Logger |
| ConnectionPool | `mysql/ConnectionPool.cc` | `connectionQueue_`, `currentSize_` | producer thread, recycler thread, `getConnection` and its deleter | a MySQL server; FileServer's handlers |
| AsyncLogging | `logger/AsyncLogging.{h,cc}`, `FixedBuffer.h` | `currentBuffer_`, `nextBuffer_`, `buffers_`; the back end's two spares | `append`, `threadFunc`, `start`, `stop` | Logger front ends; LogFile |
| LogFile | `logger/LogFile.{h,cc}` | file, written bytes, `count_`, `startOfPeriod_`, `lastRoll_` | `append`, `flush`, `rollFile` | AsyncLogging back end; the wall clock (`time(NULL)`) |
| Logger / LogStream | `logger/Logging.cc`, `LogStream.cc` | per-line buffer | formatting | AsyncLogging through the output function |

Several parts are hard to test:
- how TCP splits a client's bytes into reads, against HttpContext's parser and onMessage;
- pipelined requests against TcpConnection's output buffer and its single pending file;
- the Range arithmetic in setResponseBody at the edges (past the end of the file, the int cast, a failed open);
- the wall clock against a monotonic timerfd in TimerQueue;
- the three kinds of thread of ConnectionPool on one mutex and condition variable, with waits with and without timeouts;
- AsyncLogging's buffer hand-over between the front end and the back end, and its shutdown;
- LogFile's rolls by size, by period and by the check-every-N count, against a wall clock that may be set back;
- the accounts cache `users` against the `login` table when an INSERT fails, and across restarts.

## Modules and how they correspond to the code

Every module keeps the code's control (guards, early returns, order of steps) and abstracts the data. `PROJECT.json` "map" gives the lines behind each definition.

### TimerQueue.tla (with MC_TimerQueue.tla)

Time is kept relative, so the state space is finite:
- `due[a]` is a timer's expiration minus the wall-clock now.
- `fd` is the monotonic time left before the timerfd becomes readable, or `None` when it is disarmed.

Timers live at integer addresses (`Addr`), so the `Timer*` order is integer order.

Actions:
- `AddTimer` is `addTimer`+`addTimerInLoop`+`insert`+`resetTimerfd`.
- `HandleRead` is `ReadTimerFd`+`getExpired`+running the callbacks+`reset`. It runs as one step, because everything runs on the loop thread. A callback may add one timer (`runAfter`/`runEvery` from a callback run `addTimerInLoop` at once, before `reset`); `CallbackAdds` gives the choices.
- `Tick` advances both clocks.
- `ClockStepBack` sets the wall clock back one tick (bounded by `MaxClockSteps`).
- `lastBatch` records the last batch run, in order.

### ConnectionPool.tla (with MC_ConnectionPool.tla)

Each critical section is one step:
- `Produce` is one pass of the producer loop.
- `Recycle` is one pass of the recycler.
- `GetConnection` and `Take` are `getConnection` holding the mutex.
- `Timeout` is a `wait_for` timing out.
- `Release` is the shared_ptr deleter.
- `Age` is the environment making a queued connection idle for too long.

A `notify_all` moves every waiter from `waiting` to `woken`. A woken consumer then re-takes the mutex and re-checks the queue.

### AsyncLogging.tla (with MC_AsyncLogging.tla)

Buffers are model values and a log line is its message number, one slot of a buffer. A FixedBuffer is its `data_` array (`data[b]`, `Capacity` slots) and its `cur_` offset (`pos[b]`), and it holds at most `Capacity - 1` lines (`avail() > len`):
- `bzero()` fills the slots with `Zero`. A `new Buffer` that is not bzero'd has indeterminate bytes, `Junk` (`Fresh`). `reset()` only sets `pos` back to 0, so a recycled buffer keeps its earlier lines past `cur_`.
- `length()` is `end() - data_`, the whole array, so `Output` (what `output.append(buffer->data(), buffer->length())` receives) is every slot of every buffer written.
- `written` is a history variable: the lines before `cur_` of each buffer written, which is what the back end means to write. `emitted[k]` counts, up to 2, how often line `k` reached the LogFile.
- A buffer deleted by `clear()` gets `Fresh` slots, since its memory returns only through a later `new Buffer`.

Front end:
- `LogAppend` is `append` under the mutex.

Back end (`pc`):
- `CheckRunning`: `while (running_)`.
- `Lock`: takes the mutex; waits if `buffers_` is empty, swaps otherwise.
- `Wake`: `wait_for` returns, by notify or timeout.
- `Swap`: the hand-over under the mutex.
- `Write`: output, keep two buffers, restore newBuffer1/2, `reset`, `clear`, `flush`.

`Stop` is `stop()`.

AsyncLogging EXTENDS LogFile: the back end's `LogFile output` is the variable `lf`, and `Write` folds `AppendInLock` over `length()` of the buffers it writes. `Clock` (LogFile's `Tick` or `StepBack`) is a step of its own.

### LogFile.tla

The LogFile object is a record `lf`: `written` (the file's `writtenBytes`), `count` (`count_`), `startOfPeriod` (`startOfPeriod_`), `lastRoll` (`lastRoll_`), `names` (the names `rollFile` has opened, in order) and the auxiliary `late` (appends taken at a time past the file's period). Sizes are counted in buffer slots. `written` is only ever compared with `rollSize_` and `late` with `checkEveryN_`, so `Saturate` keeps each no higher than just past that bound. Without it both grow without bound: every buffer written is `Capacity` slots long, and a roll is refused within one second.
- `RollFile` is `rollFile`: it opens a new file only at a second past `lastRoll_`. `LocalName(t)` stands for the `strftime` of `localtime_r`.
- `AppendInLock` is `append_unlocked`: it writes, rolls past `rollSize_`, and otherwise counts to `checkEveryN_` and then rolls if the period has changed.
- `LogFileInit` is the constructor. `now` is `time(NULL)`; `Tick` advances it, and `StepBack` sets it back (an NTP step).
- `flush` and `lastFlush_` are left out: they decide only when stdio reaches the disk. AsyncLogging builds its LogFile with `flushInterval` `false`, which is 0, and flushes after every batch anyway.

### HttpExchange.tla: what a connection promises

The abstract specification of one HTTP connection, as the client sees it:
- `asked` counts the requests sent; `wire` is what the client has received; `closed` and `hungUp` are the two sides' closes.
- `Deliver` extends `wire` along `Expected(asked)`, the responses in request order. The server may close only once every response is whole and the last request asked to close.
- `Hangup` is the client closing its side; `Abort` is the server then dropping the connection, sent or not.
- `Deliver` and `Abort` are weakly fair: every request is answered unless the client hung up.

### HttpConnection.tla (with MC_HttpConnection.tla)

One connection: the parser, FileServer's handlers and the TcpConnection output path, composed.
- A request is three lines: the request line (its words), the Connection header line and the empty line. A POST is followed by its body: a form body ("bb", no CRLF, as the sign-in and sign-up pages post), or a multipart body (boundary line "bl", a part header "ph", the empty line "pe", the content line "bc" and the closing boundary "bl"), as the upload page posts. `Stream` is every unit the client sends, in order. `got` counts the units in `inputBuffer_`; `frag` is part of a unit; `rd` the units `parseRequest` has retrieved.
- `FindCRLF` is `Buffer::findCRLF` (Buffer.h is not in the repository): the end of the first line after `rd`, or 0 for a null pointer. A request line is valid only when it is a single "rl" unit, so a body left in the buffer makes the next request line longer and invalid.
- `ProcessRequestLine` is `processRequestLine` with `setMethod` (`Methods`) and the version test (`Versions`). A line of more than three words fails the version test.
- `ParseLoop` is `parseRequest`'s `while (hasMore)` loop: request line, headers up to the line without a ':' (`HasColon`), body, `kGotAll`. `ok` is set only by the request line. In `kExpectBody` a POST reads `*peek()`. That is the first byte of the next unit when any of it has arrived. Otherwise it is whatever the buffer memory holds (`stale`, chosen by `Read`). A '-' takes the multipart branch: `retrieveUntil(findCRLF() + 2)` for the boundary line, then `PartLoop` (the `do`/`while (1)` over part headers). Anything else is `addcontent`. A null `findCRLF` in the multipart branch goes to `retrieveUntil(crlf + 2)`: undefined behaviour, which depends on the absent Buffer (muduo's asserts in `retrieveUntil`). The model records it as "Crashed", and takes the process to end. Neither branch retrieves the body.
- `Read` is `handleRead` plus `onMessage`: parse; on `false` send 400 and `shutdown`; if the context got a whole request, `OnRequest` and `reset`. The socket takes `cap` tokens of direct writes during the handler. After a crash the connection is gone with the process.
- `OnRequest` is `onRequest`: `send` the header buffer, `sendFile` if there is a file, `shutdown` if `CloseConnection` (the `Connection` value, and HTTP/1.0).
- `Send`, `SendFile`, `Shutdown`, `HandleWrite` and `HandleClose` follow spec.md 4.3, because `TcpConnection.cc` is not in the repository. They keep the header's single pending file (`sendFd_`, `sendLen_`). spec.md puts no condition on the state in `send`, so a Disconnecting connection still queues what it is given; only a Disconnected one, its write half closed and its Channel gone, puts nothing more on the wire. (muduo drops data unless the connection is kConnected; the spec does not say so.)
- `ClientSend` and `ClientHangup` are the client. It sends a request marked `pipe` without waiting for the previous response; it sends nothing after a request that makes the server close.

The refinement: `Exchange == INSTANCE HttpExchange WITH Reqs <- Promised, asked <- sentReq, closed <- (cst = "Disconnected")`, and `wire` and `hungUp` map by name. `Promised` says which requests end the connection by RFC 7230 section 6.3 (options compared without case), not by the code's `CloseConnection`, so the refinement also checks the close decision.

### HttpRange.tla (with MC_HttpRange.tla)

The regular-file branch of `setResponseBody`, then `onRequest` and `sendFile`, as operators. Each state is one request served.
- `Sides` is the `find("-")`/`substr` split. Without a '-' both sides are the whole value, because `npos + 1` wraps to 0.
- `RangeBounds` gives `beg_num` and `need_len` by the code's three branches.
- `ServeRegularFile` builds the 206 or 200 response. `lseek` fails on a negative offset and leaves the file offset 0. `ToInt` is `setSendLen`'s `static_cast<int>`, and `ToSize` is `onRequest`'s `size_t` conversion.
- `Sent` is what `sendFile` transfers: from the offset until the length is used up or the file ends; nothing when `open` failed.
- `RefStatus`, `RefBytes`, `RefFirst` and `RefLast` are the reference: RFC 7233 byte ranges.
- `int` and `size_t` are `IntBits` and `SizeBits` wide, scaled down with the file lengths. `off64_t` is unbounded.

### Accounts.tla (with MC_Accounts.tla)

The table `login` is `db`, the cache `users` is `users`, and both map a name to a password or `NoPw`. `connUp` says whether `conn->update` reaches the server. `confirmed` records the password of each name's last sign-up that got the sign-in page.
- `SqlPool` is `sql_pool`: the cache is loaded from the table. `Init` starts from any table. Nothing under `src/` calls `sql_pool`, so the embedding program is taken to call it once before serving.
- `SignUp` is the "/3" branch: the INSERT (it succeeds when the connection works, no row has the name and the statement is well formed), then `users.insert` (which never overwrites), then the page chosen by `ins`. It runs as one step under `mutex_`.
- `SignIn` is the "/2" branch: `users.find(name)` and the password compare.
- `ConnChange` is the connection failing, or (with `Reconnects`) working again. `Restart` is a new process: a new FileServer, and `sql_pool` again.
- The INSERT is built by `strcat` of the unescaped fields into a 200-byte buffer. `Unstorable` is the set of passwords (a quote, too long) whose statement the server refuses with the connection up; `MC_Unstorable` is {pw2}.
- The form body is split into its two fields; names and passwords are model values.

## Runs

| Run | cfg | Expect | What it shows |
|---|---|---|---|
| timerqueue | TimerQueue.cfg | pass | `ArmedNoLaterThanEarliest`: even after the wall clock is set back, an armed timerfd never fires later than the earliest pending expiration (or the floor); the mixed clocks make timers stall or fire early, never late. `TimerfdTracksEarliest`: until the clock is set back, with timers pending the timerfd is armed no earlier than the earliest expiration and no later than it or the floor. `PendingTimerFiresUnstepped`: in a behaviour without a clock step, every added timer eventually runs, callbacks adding timers included. |
| connpool | ConnectionPool.cfg | pass | `ConnectionsExclusive`: each live connection is in the queue or held by one consumer, never both. `PoolKeepsMinimum`. `ProducerWaitsOnlyOnNonEmptyQueue`. |
| async | AsyncLogging.cfg | pass | `LogOrderPreserved`: the lines written, then those before `cur_` in buffersToWrite, buffers_ and currentBuffer_, are exactly the appended lines in order. `WriteHasSpareBuffers`: `back()` is never taken from an empty vector. `AppendedEventuallyWritten`: again and again everything appended has been written, unless `stop()` came first. `StopTerminates`: after `stop()` the back end leaves its loop, so `join()` returns. `LogFileNamesUnique`: no log file name is opened twice, across size rolls, period rolls and the clock set back. `PeriodRolledWithinCheckEveryN`: without a clock step, a file takes fewer than `checkEveryN_` appends after its period has ended. |
| async_length | AsyncLoggingLength.cfg | violation | `LogLineWrittenOnce`: `FixedBuffer::length()` is the whole array, so a recycled buffer, `reset()` but not cleared, writes the lines of its earlier use again. In TLC's trace lines 1 and 2 are written, buffer b2 comes back as a spare, and a timeout swaps it out empty; line 2 is written a second time. |
| http_exchange | HttpConnection.cfg | pass | `TypeOK`: among the types, the pending-file slot never holds an exhausted file. `ImplementsExchange`: pipelined pages (HTTP/1.1, HTTP/1.0 with Keep-Alive), a file, a sign-in form POST and a rejected request line get their responses whole and in order, then the close; after a peer hang-up the connection still ends. The connection refines `HttpExchange`. |
| http_badrequest | HttpConnectionBadRequest.cfg | violation | `NothingAfterBadRequest`: a GET whose headers arrive in a second read is rejected by `parseRequest` (its `ok` is set only by the request line) although the read completes it. `onMessage` sends 400, which the socket does not take at once, and calls `shutdown`: the connection is Disconnecting. It then runs `onRequest` for the same request, and `send`, as spec.md states it, queues the page behind the 400; `handleWrite` puts both on the wire. The code relies on muduo's `send` dropping data after `shutdown`, which the spec does not promise. |
| http_split | HttpConnectionSplit.cfg | violation | `NoRejectedValidRequest`: a valid request whose request line arrives in two reads is answered 400 and the connection shut down. |
| http_crash | HttpConnectionCrash.cfg | violation | `NoParserCrash`: an upload whose first read holds the headers and part of the boundary line takes the multipart branch. `findCRLF()` returns null, and `retrieveUntil(crlf + 2)` (HttpContext.cc:129) gets a pointer computed from null: undefined behaviour. With muduo's Buffer its assert aborts the process, or the buffer indices are corrupted. |
| http_range | HttpRange.cfg | pass | `InFileRangeServed`: without Range, or with a range inside the file, the status, the bytes sent, Content-Length and Content-Range are those of RFC 7233. |
| http_range_eof | HttpRangeEof.cfg | violation | `ContentLengthHonoured`: a well-formed range past the end of the file (here "bytes=-1" on an empty file) gets 206 and a Content-Length that `sendFile` cannot deliver. |
| accounts | Accounts.cfg | pass | `ConfirmedStored`: a name whose sign-up was confirmed keeps its row in `login` with that password and stays a key of `users`. This holds across later sign-ups of the name, a refused statement, a lost and regained connection and a restart: the page follows the INSERT, and the unique key keeps the row. |
| accounts_connlost | AccountsConnLost.cfg | violation | `SignInOnlyRegistered`: once the connection is lost (with `Unstorable` empty; a refused statement does the same), a sign-up gets the "name is registered" page but `users.insert` still caches the pair, so the name signs in without a row in `login`, and loses the account at the next restart. |

Each property of a passing run has a mutant in `PROJECT.json`: a plausible bug in the mapped code that TLC shows breaks it.

Further configurations, not among the runs above, each show one more defect with a property the modules define:
- `TimerQueueClockStep.cfg`: `PendingTimerFires` is violated after one backward wall-clock step. The timerfd is CLOCK_MONOTONIC, but `resetTimerfd` and `handleRead` measure with `Timestamp::now()`, the wall clock. The timerfd fires early, nothing expires, `reset` never re-arms, and the pending timers stall (TimerQueue.cc:135). Nothing under `src/` adds a timer, so the server as shipped does not meet it.
- `AsyncLoggingStop.cfg`: `StoppedLogComplete` is violated. `threadFunc` tests `running_` at the top of its loop and then only flushes, so lines appended while the back end was writing are dropped by `stop()` (AsyncLogging.cc:76). Nothing under `src/` calls `stop()`.
- `HttpConnectionLeftover.cfg`: `NoRejectedValidRequest` is violated by whole reads. A keep-alive sign-in form is answered, but its body stays in the buffer, glued in front of the next request line. The next GET is answered 400 and the connection shut down (HttpContext.cc:152).
- `TimerQueueOrder.cfg`: `BatchInInsertionOrder` is violated. Timers with one expiration run in `Timer*` address order, not insertion order (spec 4.2).
- `ConnectionPoolAccounting.cfg`: `CurrentSizeCountsConnections` is violated. `currentSize_` counts every connection twice.
- `ConnectionPoolEmpty.cfg`: `GetConnectionReturns` is violated. With minSize 0 the recycler deletes the last connection while the producer waits, and nobody notifies it.
- `AsyncLoggingDst.cfg`: `LogFileNamesUnique` is violated. `MC_DstName` names a file after local time, which repeats an hour when daylight saving ends, so a later roll opens an earlier file's name again (FileUtil is not in the repository, so whether that appends or truncates is unknown).
- `AccountsStaleCache.cfg`: `SignUpHonoured` (a confirmed name signs in with its confirmed password) is violated with the connection up. A sign-up of u2 with the unstorable pw2 is refused but caches pw2; a later sign-up of u2 with pw1 is confirmed and stored, but `users.insert` does not overwrite, so pw1 is refused until a restart. A lost connection that comes back does the same.
- `HttpConnectionOrder.cfg`: `ResponsesInOrder` is violated. With two pipelined file requests, the second `sendFile` overwrites the pending file. The second header goes out before the rest of file 1, and that rest is never sent. The spec promises output in call order but is silent on a second `sendFile` while a file is pending.
- `HttpConnectionStall.cfg`: `RequestsAnswered` is violated. Two pipelined requests arrive in one read, `onMessage` answers only the first, and the second waits forever.
- `HttpRangeEof.cfg` with `Headers <- MC_NoRangeHeaders` and `CanFailOpen = TRUE`: the unchecked `open` sends 200 with Content-Length and no body.
- The same cfg with `Headers <- MC_InFileHeaders`, `MaxLen = 6`, `IntBits = 3` and `SizeBits = 5`: the `int` cast makes `sendFile` run to the end of the file.

### Bounds

TimerQueue:
- Three addresses, delays {0,1,2}, intervals {0 (one-shot), 2}, three adds.
- This covers ties, timers already due, repeating timers re-inserted beside pending ones, and the floor (MinInterval 1).
- `MaxLate` 1 lets the loop lag one tick behind a readable timerfd.
- One backward wall-clock step (`MaxClockSteps` 1) reaches the early firing and the stall.

ConnectionPool:
- MinSize 1, MaxSize 3 (which the double count makes effectively 2), two consumers and three connections.
- This is enough for two consumers to race for one connection while the recycler and producer run.

AsyncLogging:
- Capacity 2 (one line per buffer, and one slot `cur_` never reaches), three messages and six buffers.
- So `buffers_` can hold one or two full buffers at a swap, a fresh `new Buffer` is needed when `nextBuffer_` is gone, `resize(2)` deletes a buffer, and a recycled buffer goes back out holding a stale line.
- LogFile: `RollSize` 4 slots (a roll every third buffer written), `CheckEveryN` 2, a period of 2 seconds, clock values 1 to 3 and one backward step. So a batch can roll by size and by period, the check can fall before or after a period ends, and a step back can reach a second already used for a name.
- Every 3-second timeout writes a whole buffer, so larger bounds grow fast: with Capacity 3 and five messages the temporal properties take several minutes.

HttpConnection:
- Up to six requests, mixing pipelined and unpipelined ones, GETs and POSTs. `HdrLen` 2 makes a header buffer need two writes when the socket takes one token.
- `MaxWrite` 2 lets a write stop inside a header or a file. `MaxChunk` is 4 units in the exchange, one request (a form POST included) per read. In the bad-request run it is 6, so a split read can also carry a whole upload up to its part's empty line.
- With `Split` TRUE a read may end inside a request or inside a line.
- The stall needs two requests in one read (`MaxChunk` 6). The reorder needs two pipelined files longer than one write.

HttpRange:
- Files of 0 to 4 units and every header form with numbers up to one past the file.
- This covers the empty file, ranges ending exactly at the last byte and one past it, suffixes equal to and longer than the file, reversed ranges and values without '-'.
- In the passing run `IntBits` 5 holds every length; the cast is the subject of the further configuration above.

Accounts:
- Two names, two passwords (one unstorable), four requests and one restart, with a table that may already hold either name.
- This is enough to sign up a name twice with different passwords, refused and then accepted, before and after the connection is lost and regained, and then sign in or restart.

### Fairness

- The loop thread keeps polling, so `HandleRead` (TimerQueue) is weakly fair. So are `Read`, `HandleClose` and `HandleWrite` (HttpConnection): readable or writable sockets are served.
- Real time keeps advancing, so `Tick` is weakly fair.
- The producer and recycler loop forever.
- A `wait_for` eventually returns (`Timeout`, `Wake`).
- A woken thread re-takes the mutex.
- A holder eventually destroys its shared_ptr.
- The back-end thread keeps running.
- The front ends, the consumers asking for connections, `Age`, `Stop`, the HTTP client and the Accounts requests get no fairness: the application and the client may stop at any time.

### CHECK_DEADLOCK FALSE

These cfgs disable the deadlock check:
- `TimerQueueClockStep.cfg` (a further configuration): once the timers stall, the only enabled step is time passing, and `Tick` is bounded by `MaxLate`. The stop is the stall being shown, not an artefact.
- `TimerQueue.cfg`: its wall-clock step reaches that same stall.
- The `AsyncLogging` cfgs: after `stop()` the back end has exited (`pc = "done"`). That is a real end of the system.
- The `Accounts` cfgs: the clients may stop sending, and the server then waits for requests.
- The `HttpConnection` cfgs: an exchange ends with the connection closed, or with the client done and nothing left to write.

## Not modelled, and the plan

The following are not modelled. The `PROJECT.json` "components" and "hazards" entries list them with their reasons.
- The callbacks run by `handleRead`, beyond adding a timer.
- LogFile's `flush` and `lastFlush_`.
- Formatting in Logger/LogStream. `Logger::~Logger` hands `buf.length()` (the whole 4000-byte small buffer, most of it never written) to the output function: the same `length()` defect `async_length` shows.
- The bytes of a request body: `addcontent` copies Content-Length bytes from `peek()` whether or not they have arrived; the model tracks where the body is, not what `m_string` holds.
- The EventLoop family, which has no source in `src/`.
- MimeType and MysqlConn.
- In FileServer: the directory listing, the 404 page, the favicon, the pages that only return HTML, and the delete and download-list branches. The data race of sign-in reading `users` without `mutex_` is undefined behaviour that a model with atomic branches cannot show.
- In TcpConnection: the high-water mark, connection set-up and destruction.

Plan for the next modules: `EventLoop.tla` (spec-modelled `runInLoop`/`queueInLoop`), used by TimerQueue's `addTimer` from other threads.
