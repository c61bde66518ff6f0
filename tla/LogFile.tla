-------------------------------- MODULE LogFile --------------------------------
(***************************************************************************)
(* The rolling log file (src/src/logger/LogFile.cc, LogFile.h) and the     *)
(* wall clock its time(NULL) calls read.  The LogFile object is a record:  *)
(* its code fields, the names of the files rollFile has opened so far (the *)
(* directory it leaves behind), and one auxiliary count.  append and       *)
(* rollFile are pure operators on the record, so that AsyncLogging's       *)
(* back end, the only thread that owns a LogFile, can apply a whole batch  *)
(* of appends in one step.                                                 *)
(*                                                                         *)
(* Sizes are in log-line units, like the buffers that are appended.        *)
(* lastFlush_ and the flush it guards are left out: they decide only when  *)
(* stdio buffers reach the disk, and the back end flushes after every      *)
(* batch anyway.                                                           *)
(***************************************************************************)
EXTENDS Integers, Sequences, Functions

CONSTANTS
  RollSize,        \* rollSize_
  CheckEveryN,     \* checkEveryN_ (1024 by default)
  RollPerSeconds,  \* kRollPerSeconds_, one day scaled down
  MaxTime,         \* the largest value time(NULL) returns in a behaviour
  MaxClockSteps,   \* bound on the times the wall clock is set back
  LocalName(_)     \* the ".%Y%m%d-%H%M%S" part strftime(localtime_r(t)) gives

ASSUME /\ RollSize \in Nat /\ CheckEveryN \in Nat \ {0}
       /\ RollPerSeconds \in Nat \ {0}
       /\ MaxTime \in Nat \ {0} /\ MaxClockSteps \in Nat

VARIABLES
  now,     \* the wall clock read by time(NULL)
  steps,   \* the times it has been set back so far
  lf       \* the LogFile object

(* lf.late is auxiliary: the appends the current file has taken at a time  *)
(* of a later period than startOfPeriod_.                                  *)
LogFileFields == {"written", "count", "startOfPeriod", "lastRoll", "names", "late"}

(* now / kRollPerSeconds_ * kRollPerSeconds_                               *)
PeriodOf(t) == (t \div RollPerSeconds) * RollPerSeconds

(* writtenBytes_ only meets the test writtenBytes_ > rollSize_, and late  *)
(* only the bound CheckEveryN, so both are kept no higher than just past   *)
(* that bound: appends refused a roll within one second grow them without  *)
(* bound in the code.                                                      *)
Saturate(x, cap) == IF x > cap THEN cap ELSE x

(* Mutant of rollFile: the new file is opened without the now > lastRoll_  *)
(* check.                                                                  *)
RollFileUnguarded(l) ==
  [l EXCEPT !.lastRoll = now, !.startOfPeriod = PeriodOf(now), !.written = 0,
            !.names = Append(@, LocalName(now)), !.late = 0]

(* rollFile(): getLogFileName reads time(NULL); only when it is past       *)
(* lastRoll_ are lastRoll_ and startOfPeriod_ moved and file_ reset to a   *)
(* new FileUtil of that name, which starts with nothing written.           *)
RollFile(l) ==
  IF now > l.lastRoll
  THEN [l EXCEPT !.lastRoll = now, !.startOfPeriod = PeriodOf(now), !.written = 0,
                 !.names = Append(@, LocalName(now)), !.late = 0]
  ELSE l

(* Mutant of appendInLock: the check runs when count_ > checkEveryN_.       *)
AppendInLockCheckPastN(l, len) ==
  LET a == [l EXCEPT !.written = Saturate(@ + len, RollSize + 1),
                     !.late = Saturate(@ + (IF PeriodOf(now) > l.startOfPeriod THEN 1 ELSE 0),
                                       CheckEveryN)]
  IN CASE a.written > RollSize         -> RollFile(a)
       [] a.count + 1 <= CheckEveryN   -> [a EXCEPT !.count = @ + 1]
       [] PeriodOf(now) # a.startOfPeriod -> RollFile([a EXCEPT !.count = 0])
       [] OTHER                        -> [a EXCEPT !.count = 0]

(* appendInLock(data, len): the data goes to file_ first; past rollSize_   *)
(* the file rolls (count_ untouched), otherwise ++count_, and every         *)
(* checkEveryN_-th time count_ is reset and the file rolls if time(NULL)   *)
(* is in another period than startOfPeriod_.                               *)
AppendInLock(l, len) ==
  LET a == [l EXCEPT !.written = Saturate(@ + len, RollSize + 1),
                     !.late = Saturate(@ + (IF PeriodOf(now) > l.startOfPeriod THEN 1 ELSE 0),
                                       CheckEveryN)]
  IN CASE a.written > RollSize         -> RollFile(a)
       [] a.count + 1 < CheckEveryN    -> [a EXCEPT !.count = @ + 1]
       [] PeriodOf(now) # a.startOfPeriod -> RollFile([a EXCEPT !.count = 0])
       [] OTHER                        -> [a EXCEPT !.count = 0]

(* The constructor: every field zero, then rollFile() opens the first file. *)
LogFileInit ==
  RollFile([written |-> 0, count |-> 0, startOfPeriod |-> 0, lastRoll |-> 0,
            names |-> <<>>, late |-> 0])

(* The wall clock advances one second.                                     *)
Tick ==
  /\ now < MaxTime
  /\ now' = now + 1
  /\ UNCHANGED steps

(* The wall clock is set back (settimeofday, an NTP step).                 *)
StepBack ==
  /\ steps < MaxClockSteps
  /\ \E t \in 1 .. (now - 1) : now' = t
  /\ steps' = steps + 1

LogFileTypeOK ==
  /\ now \in 1..MaxTime /\ steps \in 0..MaxClockSteps
  /\ DOMAIN lf = LogFileFields
  /\ lf.written \in Nat /\ lf.count \in Nat
  /\ lf.lastRoll \in 1..MaxTime /\ lf.startOfPeriod = PeriodOf(lf.lastRoll)
  /\ lf.names \in Seq({LocalName(t) : t \in 1..MaxTime}) /\ lf.late \in Nat

(* No two files rollFile opens get the same name, however appends, size    *)
(* rolls, period rolls and a wall clock set back interleave: getLogFileName *)
(* names a file after the second, and rollFile opens one only at a second  *)
(* past lastRoll_, so no earlier log file is opened again.                 *)
LogFileNamesUnique == IsInjective(lf.names)

(* The file of one period is left within checkEveryN_ appends of the next  *)
(* period starting: the current file never holds checkEveryN_ appends made *)
(* after its period, although count_ survives size rolls and empty buffers *)
(* count as appends.  A clock set back voids it: a check that reads a time *)
(* of the old period resets count_ without rolling.                        *)
PeriodRolledWithinCheckEveryN == steps = 0 => lf.late < CheckEveryN
=============================================================================
