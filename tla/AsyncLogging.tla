----------------------------- MODULE AsyncLogging -----------------------------
(***************************************************************************)
(* The double-buffered asynchronous log (src/src/logger/AsyncLogging.cc,   *)
(* AsyncLogging.h, FixedBuffer.h).                                         *)
(*                                                                         *)
(* Front-end threads append() log lines into currentBuffer_ under mutex_;  *)
(* a full buffer moves to buffers_ and nextBuffer_ (or a new Buffer) takes *)
(* its place.  The back-end thread (threadFunc) swaps buffers_ out under   *)
(* the mutex with its own two spare buffers, writes them to the LogFile    *)
(* outside the mutex, and recycles two of the written buffers as its new   *)
(* spares.  A log line is a message number and fills one slot of a        *)
(* buffer's data_ array of Capacity slots; pos[b] is cur_ - data_.  A slot *)
(* never written holds Zero after bzero() or Junk in a new Buffer that was *)
(* not bzero'd (an indeterminate value).  reset() only moves cur_ back, so *)
(* a recycled buffer keeps the lines of its earlier use beyond cur_.       *)
(***************************************************************************)
EXTENDS Integers, FiniteSets, Sequences, SequencesExt, LogFile

CONSTANTS
  Buffers,      \* Buffer objects (FixedBuffer<kLargeBuffer>) that may be allocated
  Capacity,     \* sizeof(data_) in units of one log line
  MaxMsgs,      \* bound on the number of append() calls
  StopAllowed,  \* whether the owner calls stop()
  None,
  Zero,         \* a slot cleared by FixedBuffer::bzero()
  Junk          \* a slot of a new Buffer whose bytes were never written

ASSUME /\ Cardinality(Buffers) >= 4
       /\ Capacity \in Nat /\ Capacity >= 2
       /\ MaxMsgs \in Nat /\ StopAllowed \in BOOLEAN
       /\ None \notin Buffers /\ {Zero, Junk} \cap (1..MaxMsgs) = {}

VARIABLES
  running,     \* running_
  cur,         \* currentBuffer_
  next,        \* nextBuffer_ (None once moved from)
  buffers,     \* buffers_, the full buffers waiting for the back end
  nb1, nb2,    \* the back end's newBuffer1 and newBuffer2
  toWrite,     \* the back end's buffersToWrite
  data,        \* data[b]: the Capacity slots of buffer b's data_ array
  pos,         \* pos[b]: cur_ - data_ of buffer b
  used,        \* the buffers currently allocated
  emitted,     \* emitted[k]: how often line k reached the LogFile (to 2)
  written,     \* the lines before cur_ of every buffer written (history)
  appended,    \* number of append() calls so far (line k is message k)
  stopAt,      \* appended when stop() was called, or None
  pc           \* back end: "top" of while (running_), "lock", "waiting", "write", "done"

backVars == <<running, cur, next, buffers, nb1, nb2, toWrite, data, pos, used,
              emitted, written, appended, stopAt, pc>>

vars == <<backVars, now, steps, lf>>

-----------------------------------------------------------------------------
(* What a slot may hold.                                                   *)
Slot == (1..MaxMsgs) \cup {Zero, Junk}

(* The lines appended since the last reset(): data_ up to cur_.           *)
Content(b) == SubSeq(data[b], 1, pos[b])

(* The lines before cur_ in a sequence of buffers, in order.               *)
Lines(bs) == FlattenSeq([i \in DOMAIN bs |-> Content(bs[i])])

(* FixedBuffer::length(): end() - data_, the whole array whatever cur_ is. *)
length(b) == Capacity

(* output.append(buffer->data(), buffer->length()) for each buffer.        *)
Output(bs) == FlattenSeq([i \in DOMAIN bs |-> SubSeq(data[bs[i]], 1, length(bs[i]))])

(* The data_ of a new Buffer, never written: indeterminate bytes.  A     *)
(* buffer deleted by clear() is given these too, since its memory comes    *)
(* back only through a later new Buffer.                                   *)
Fresh == [i \in 1..Capacity |-> Junk]

(* emitted after the LogFile receives the slots out.                      *)
Emit(out) == [k \in 1..MaxMsgs |->
                Saturate(emitted[k] + Len(SelectSeq(out, LAMBDA x : x = k)), 2)]

(* FixedBuffer::avail() > len for a one-unit line.                         *)
HasRoom(b) == Capacity - pos[b] > 1

(* FixedBuffer::append of line m at cur_.                                  *)
Put(d, p, b, m) == /\ data' = [d EXCEPT ![b][p[b] + 1] = m]
                   /\ pos' = [p EXCEPT ![b] = @ + 1]

(* The AsyncLogging constructor and start(): current and next buffer,    *)
(* running_ = true, and threadFunc's newBuffer1 and newBuffer2.            *)
Init ==
  LET b == SetToSeq(Buffers) IN
    /\ running = TRUE
    /\ cur = b[1] /\ next = b[2] /\ nb1 = b[3] /\ nb2 = b[4]
    /\ buffers = <<>> /\ toWrite = <<>>
    /\ data = [x \in Buffers |-> [i \in 1..Capacity |-> Zero]]
    /\ pos = [x \in Buffers |-> 0]
    /\ used = {b[1], b[2], b[3], b[4]}
    /\ emitted = [k \in 1..MaxMsgs |-> 0] /\ written = <<>>
    /\ appended = 0
    /\ stopAt = None
    /\ pc = "top"
    /\ now \in 1..MaxTime /\ steps = 0
    /\ lf = LogFileInit

(* append(logline, len) under the mutex: into currentBuffer_ if it has    *)
(* room; otherwise currentBuffer_ goes to buffers_, nextBuffer_ (or a new  *)
(* Buffer) becomes current, the line goes there and notify_one() wakes the *)
(* back end (the model's back end also leaves wait_for by timeout).        *)
LogAppend ==
  LET m == appended + 1 IN
  /\ appended < MaxMsgs
  /\ appended' = m
  /\ IF HasRoom(cur)
     THEN /\ Put(data, pos, cur, m)
          /\ UNCHANGED <<cur, next, buffers, used>>
     ELSE /\ buffers' = Append(buffers, cur)
          /\ next' = None
          /\ IF next # None
             THEN /\ cur' = next
                  /\ Put(data, pos, next, m)
                  /\ UNCHANGED used
             ELSE \E b \in Buffers \ used :
                    /\ cur' = b
                    /\ used' = used \cup {b}
                    /\ Put([data EXCEPT ![b] = Fresh],
                           [pos EXCEPT ![b] = 0], b, m)
  /\ UNCHANGED <<running, nb1, nb2, toWrite, emitted, written, stopAt, pc, now, steps, lf>>

(* Mutant of CheckRunning: the loop condition ignores running_.           *)
CheckRunningForever ==
  /\ pc = "top"
  /\ pc' = "lock"
  /\ UNCHANGED <<running, cur, next, buffers, nb1, nb2, toWrite, data, pos, used,
                 emitted, written, appended, stopAt, now, steps, lf>>

(* while (running_): the back end reads the flag before taking the mutex. *)
CheckRunning ==
  /\ pc = "top"
  /\ pc' = IF running THEN "lock" ELSE "done"
  /\ UNCHANGED <<running, cur, next, buffers, nb1, nb2, toWrite, data, pos, used,
                 emitted, written, appended, stopAt, now, steps, lf>>

(* Mutant of Swap: newBuffer2 always moves into nextBuffer_, without the  *)
(* if (!nextBuffer_) check.                                                 *)
SwapAlwaysRefill ==
  /\ buffers' = <<>>
  /\ toWrite' = Append(buffers, cur)
  /\ cur' = nb1
  /\ nb1' = None
  /\ next' = nb2 /\ nb2' = None
  /\ pc' = "write"

(* Under the mutex after the (possibly skipped) wait: currentBuffer_ joins *)
(* buffers_, newBuffer1 becomes current, buffers_ is swapped into          *)
(* buffersToWrite, and newBuffer2 refills nextBuffer_ if it was taken.     *)
Swap ==
  /\ buffers' = <<>>
  /\ toWrite' = Append(buffers, cur)
  /\ cur' = nb1
  /\ nb1' = None
  /\ IF next = None
     THEN next' = nb2 /\ nb2' = None
     ELSE UNCHANGED <<next, nb2>>
  /\ pc' = "write"

(* The back end takes the mutex: cond_.wait_for when buffers_ is empty,    *)
(* otherwise the swap right away.                                          *)
Lock ==
  /\ pc = "lock"
  /\ IF buffers = <<>>
     THEN pc' = "waiting" /\ UNCHANGED <<cur, next, buffers, nb1, nb2, toWrite>>
     ELSE Swap
  /\ UNCHANGED <<running, data, pos, used, emitted, written, appended, stopAt, now, steps, lf>>

(* Mutant of Wake: after a timeout with buffers_ still empty the back end  *)
(* goes round the loop again instead of swapping out currentBuffer_.       *)
WakeSkipEmpty ==
  /\ pc = "waiting"
  /\ IF buffers = <<>>
     THEN pc' = "top" /\ UNCHANGED <<cur, next, buffers, nb1, nb2, toWrite>>
     ELSE Swap
  /\ UNCHANGED <<running, data, pos, used, emitted, written, appended, stopAt, now, steps, lf>>

(* wait_for returns, notified or after flushInterval's 3 seconds, and the  *)
(* swap runs whatever buffers_ holds.                                      *)
Wake ==
  /\ pc = "waiting"
  /\ Swap
  /\ UNCHANGED <<running, data, pos, used, emitted, written, appended, stopAt, now, steps, lf>>

(* Mutant of Write: the buffers recycled as newBuffer1/newBuffer2 are not   *)
(* reset().                                                                 *)
WriteWithoutReset ==
  LET kept == SubSeq(toWrite, 1, IF Len(toWrite) > 2 THEN 2 ELSE Len(toWrite))
      r1   == IF nb1 = None THEN Last(kept) ELSE nb1
      k1   == IF nb1 = None THEN Front(kept) ELSE kept
      r2   == IF nb2 = None THEN Last(k1) ELSE nb2
  IN /\ pc = "write"
     /\ emitted' = Emit(Output(toWrite))
     /\ written' = written \o Lines(toWrite)
     /\ nb1' = r1 /\ nb2' = r2
     /\ pos' = [b \in Buffers |-> IF b \in Range(toWrite) \ {r1, r2} THEN 0 ELSE pos[b]]
     /\ used' = used \ (Range(toWrite) \ {r1, r2})
     /\ toWrite' = <<>>
     /\ pc' = "top"
     /\ lf' = FoldLeft(AppendInLock, lf, [i \in DOMAIN toWrite |-> length(toWrite[i])])
     /\ data' = [b \in Buffers |-> IF b \in Range(toWrite) \ {r1, r2} THEN Fresh ELSE data[b]]
     /\ UNCHANGED <<running, cur, next, buffers, appended, stopAt, now, steps>>

(* Mutant of Write: the if (!newBuffer1) block that moves a written      *)
(* buffer back into newBuffer1 is missing.                                  *)
WriteWithoutRestore ==
  LET kept == SubSeq(toWrite, 1, IF Len(toWrite) > 2 THEN 2 ELSE Len(toWrite))
      r2   == IF nb2 = None THEN Last(kept) ELSE nb2
  IN /\ pc = "write"
     /\ emitted' = Emit(Output(toWrite))
     /\ written' = written \o Lines(toWrite)
     /\ nb1' = nb1 /\ nb2' = r2
     /\ pos' = [b \in Buffers |-> IF b \in Range(toWrite) THEN 0 ELSE pos[b]]
     /\ used' = used \ (Range(toWrite) \ {r2})
     /\ toWrite' = <<>>
     /\ pc' = "top"
     /\ lf' = FoldLeft(AppendInLock, lf, [i \in DOMAIN toWrite |-> length(toWrite[i])])
     /\ data' = [b \in Buffers |-> IF b \in Range(toWrite) \ {r2} THEN Fresh ELSE data[b]]
     /\ UNCHANGED <<running, cur, next, buffers, appended, stopAt, now, steps>>

(* Outside the mutex: output.append every buffer in buffersToWrite, keep   *)
(* two of them, move back() into newBuffer1 / newBuffer2 when those are    *)
(* empty and reset() them (cur_ back to data_, data_ untouched), clear()   *)
(* deletes the rest, flush.                                                *)
Write ==
  LET kept == SubSeq(toWrite, 1, IF Len(toWrite) > 2 THEN 2 ELSE Len(toWrite))
      r1   == IF nb1 = None THEN Last(kept) ELSE nb1
      k1   == IF nb1 = None THEN Front(kept) ELSE kept
      r2   == IF nb2 = None THEN Last(k1) ELSE nb2
  IN /\ pc = "write"
     /\ emitted' = Emit(Output(toWrite))
     /\ written' = written \o Lines(toWrite)
     /\ nb1' = r1 /\ nb2' = r2
     /\ pos' = [b \in Buffers |-> IF b \in Range(toWrite) THEN 0 ELSE pos[b]]
     /\ used' = used \ (Range(toWrite) \ {r1, r2})
     /\ toWrite' = <<>>
     /\ pc' = "top"
     /\ lf' = FoldLeft(AppendInLock, lf, [i \in DOMAIN toWrite |-> length(toWrite[i])])
     /\ data' = [b \in Buffers |-> IF b \in Range(toWrite) \ {r1, r2} THEN Fresh ELSE data[b]]
     /\ UNCHANGED <<running, cur, next, buffers, appended, stopAt, now, steps>>

(* stop(): running_ = false and notify_one(); the owner then joins.        *)
Stop ==
  /\ StopAllowed /\ running
  /\ running' = FALSE
  /\ stopAt' = appended
  /\ UNCHANGED <<cur, next, buffers, nb1, nb2, toWrite, data, pos, used, emitted,
                 written, appended, pc, now, steps, lf>>

(* The wall clock moves on its own; the LogFile reads it on each append.  *)
Clock == (Tick \/ StepBack) /\ UNCHANGED <<backVars, lf>>

Next == LogAppend \/ CheckRunning \/ Lock \/ Wake \/ Write \/ Stop \/ Clock

(* The back-end thread keeps running; wait_for always returns.             *)
Fairness == WF_vars(CheckRunning) /\ WF_vars(Lock) /\ WF_vars(Wake) /\ WF_vars(Write)

Spec == Init /\ [][Next]_vars /\ Fairness

-----------------------------------------------------------------------------
(* currentBuffer_ is never null (append dereferences it unchecked); the    *)
(* other buffer pointers may be moved-from.                                *)
TypeOK ==
  /\ running \in BOOLEAN
  /\ cur \in Buffers /\ next \in Buffers \cup {None}
  /\ nb1 \in Buffers \cup {None} /\ nb2 \in Buffers \cup {None}
  /\ buffers \in Seq(Buffers) /\ toWrite \in Seq(Buffers)
  /\ data \in [Buffers -> [1..Capacity -> Slot]]
  /\ pos \in [Buffers -> 0..Capacity]
  /\ used \subseteq Buffers
  /\ emitted \in [1..MaxMsgs -> 0..2] /\ written \in Seq(1..MaxMsgs)
  /\ appended \in 0..MaxMsgs /\ stopAt \in 0..MaxMsgs \cup {None}
  /\ pc \in {"top", "lock", "waiting", "write", "done"}
  /\ LogFileTypeOK

(* Every line appended so far is, exactly once and in append order, among *)
(* the lines written, in buffersToWrite, in buffers_ or before cur_ in     *)
(* currentBuffer_: the swaps between front end and back end neither lose, *)
(* duplicate nor reorder a line, and a recycled buffer's cur_ is reset.   *)
LogOrderPreserved ==
  written \o Lines(toWrite) \o Lines(buffers) \o Content(cur) = [i \in 1..appended |-> i]

(* When the back end writes, buffersToWrite holds a buffer for each of     *)
(* newBuffer1 and newBuffer2 that was moved out, so buffersToWrite.back()  *)
(* is never taken from an empty vector.                                    *)
WriteHasSpareBuffers ==
  pc = "write" =>
    Len(toWrite) >= (IF nb1 = None THEN 1 ELSE 0) + (IF nb2 = None THEN 1 ELSE 0)

(* The back end keeps catching up: again and again every line appended so *)
(* far has been written, unless stop() was called (what stop() loses is   *)
(* StoppedLogComplete's question).  With append() calls bounded, this is  *)
(* every appended line eventually being written.                           *)
AppendedEventuallyWritten == []<>(Len(written) = appended \/ ~running)

(* stop() returns: once running_ is false the back end leaves its loop, so *)
(* thread_.join() in stop() and the destructor does not block forever.     *)
StopTerminates == ~running ~> pc = "done"

(* Once the back end has left its loop after stop(), every line appended   *)
(* before stop() was called is in the LogFile.                             *)
StoppedLogComplete ==
  pc = "done" => Len(written) >= stopAt

(* No log line reaches the LogFile twice: what threadFunc hands to       *)
(* output.append for a recycled buffer is only what was appended to it    *)
(* since its reset().                                                      *)
LogLineWrittenOnce == \A k \in 1..MaxMsgs : emitted[k] <= 1
=============================================================================
