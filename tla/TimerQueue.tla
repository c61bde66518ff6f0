----------------------------- MODULE TimerQueue -----------------------------
(***************************************************************************)
(* The timer queue of one event loop (src/src/timer/TimerQueue.cc).        *)
(*                                                                         *)
(* timers_ is a std::set of Entry = (Timestamp expiration, Timer* ).  One  *)
(* CLOCK_MONOTONIC timerfd is armed with a *relative* interval computed    *)
(* from Timestamp::now(), the wall clock.  Time is kept relative so the    *)
(* state space is finite: due[a] is the timer's expiration minus the wall  *)
(* clock now, fd is the monotonic time left before the timerfd becomes     *)
(* readable.  Every operation runs on the loop thread (addTimer goes       *)
(* through runInLoop), so each handler is one atomic step.                 *)
(***************************************************************************)
EXTENDS Integers, FiniteSets, Sequences, SequencesExt

CONSTANTS
  Addr,          \* heap addresses new Timer(...) may return; Timer* order is integer order
  Delays,        \* expiration - now of the timers passed to addTimer
  Intervals,     \* interval_ of those timers; 0 is a one-shot timer
  MinInterval,   \* resetTimerfd's floor of 100 microseconds, in ticks
  MaxAdds,       \* bound on the number of addTimer calls
  MaxLate,       \* bound on how far the loop may lag behind a readable timerfd
  MaxClockSteps, \* bound on backward steps of the wall clock (NTP, settimeofday)
  None           \* the timerfd is disarmed

ASSUME /\ Addr \subseteq Nat \ {0}
       /\ Delays \subseteq Int /\ Intervals \subseteq Nat
       /\ MinInterval \in Nat \ {0}
       /\ MaxAdds \in Nat /\ MaxLate \in Nat \ {0} /\ MaxClockSteps \in Nat
       /\ None \notin Int

VARIABLES
  timers,     \* addresses of the Timers in timers_
  due,        \* due[a]: expiration_ of the Timer at a minus Timestamp::now()
  interval,   \* interval_ of the Timer at a
  seq,        \* order in which the Timer at a was added (1, 2, ...); 0 for a free address
  fd,         \* monotonic time until timerfd_ is readable, or None when disarmed
  adds,       \* number of addTimer calls so far
  steps,      \* number of backward wall-clock steps so far
  lastBatch   \* the timers the last handleRead ran, in the order it ran them

vars == <<timers, due, interval, seq, fd, adds, steps, lastBatch>>

-----------------------------------------------------------------------------
(* The order of timers_: std::pair's operator< on (expiration, Timer* ).   *)
EntryLess(a, b) == due[a] < due[b] \/ (due[a] = due[b] /\ a < b)

(* timers_.begin() of a non-empty set S under due values dv.              *)
FirstOf(S, dv) ==
  CHOOSE a \in S : \A b \in S \ {a} : dv[a] < dv[b] \/ (dv[a] = dv[b] /\ a < b)

(* Timer::repeat(): repeat_ is interval > 0.0.                             *)
Repeat(a) == interval[a] > 0

(* Mutant of ArmValue: no 100us floor; timerfd_settime with a zero        *)
(* it_value disarms the timer, a negative one is rejected.                 *)
ArmValueNoFloor(d) == IF d <= 0 THEN None ELSE d

(* resetTimerfd: the relative value armed on the timerfd, floored at 100us *)
(* so that a zero or negative difference does not disarm it.               *)
ArmValue(d) == IF d < MinInterval THEN MinInterval ELSE d

(* Mutant of EarliestChanged: only an insert into an empty set counts as  *)
(* changing the earliest expiration.                                        *)
EarliestChangedOnlyWhenEmpty(when) == timers = {}

(* insert: the new expiration replaces the earliest one when the set is    *)
(* empty or it is strictly below timers_.begin()->first.                   *)
EarliestChanged(when) ==
  timers = {} \/ when < due[FirstOf(timers, due)]

(* getExpired(now): the prefix of timers_ below the sentry                 *)
(* (now, UINTPTR_MAX), i.e. every entry with expiration <= now.           *)
Expired == {a \in timers : due[a] <= 0}

(* Mutant of RunOrder: the callbacks run after reset() has deleted the    *)
(* one-shot timers (their Timer objects no longer carry a sequence).       *)
RunOrderAfterReset(expired) ==
  LET order == SetToSortSeq(expired, EntryLess)
  IN [k \in 1..Len(order) |->
        [due |-> due[order[k]], seq |-> IF Repeat(order[k]) THEN seq[order[k]] ELSE 0]]

(* Mutant of RunOrder: the callback loop starts at the second entry.       *)
RunOrderSkipFirst(expired) ==
  LET order == SetToSortSeq(expired, EntryLess)
  IN [k \in 1..(Len(order) - 1) |-> [due |-> due[order[k + 1]], seq |-> seq[order[k + 1]]]]

(* handleRead's loop over expired: it->second->run() for each entry in     *)
(* set order, recorded as the (expiration, sequence) of each Timer run.    *)
RunOrder(expired) ==
  LET order == SetToSortSeq(expired, EntryLess)
  IN [k \in 1..Len(order) |-> [due |-> due[order[k]], seq |-> seq[order[k]]]]

-----------------------------------------------------------------------------
Init ==
  /\ timers = {}
  /\ due = [a \in Addr |-> 0]
  /\ interval = [a \in Addr |-> 0]
  /\ seq = [a \in Addr |-> 0]
  /\ fd = None
  /\ adds = 0
  /\ steps = 0
  /\ lastBatch = <<>>

(* addTimer(cb, when, interval) + addTimerInLoop: a new Timer at a free    *)
(* address is inserted, and the timerfd re-armed if it is the earliest.    *)
AddTimer(a, d, i) ==
  /\ adds < MaxAdds
  /\ a \in Addr \ timers
  /\ timers' = timers \cup {a}
  /\ due' = [due EXCEPT ![a] = d]
  /\ interval' = [interval EXCEPT ![a] = i]
  /\ seq' = [seq EXCEPT ![a] = adds + 1]
  /\ adds' = adds + 1
  /\ fd' = IF EarliestChanged(d) THEN ArmValue(d) ELSE fd
  /\ UNCHANGED <<steps, lastBatch>>

(* A callback run by handleRead may call runAfter/runEvery on the loop     *)
(* thread: runInLoop runs addTimerInLoop at once, before reset.  The new   *)
(* Timer cannot take the address of a Timer still in expired.              *)
CallbackAdds(expired) ==
  IF expired # {} /\ adds < MaxAdds
  THEN {None} \cup {[addr |-> a, due |-> d, ival |-> i] :
                     a \in Addr \ timers, d \in Delays, i \in Intervals}
  ELSE {None}

(* handleRead: the timerfd is readable; ReadTimerFd consumes it (the       *)
(* one-shot timerfd is now disarmed), getExpired(now) removes the expired  *)
(* prefix, the callbacks run in set order (one of them possibly adding a   *)
(* timer), then reset(expired, now) re-inserts the repeating ones with     *)
(* restart(now) and deletes the others, re-arming the timerfd to           *)
(* timers_.begin() after each entry while timers_ is not empty.  No entry  *)
(* expired: no callback runs and reset's loop never runs.                  *)
HandleRead ==
  /\ fd # None /\ fd <= 0
  /\ LET expired == Expired IN
     \E cb \in CallbackAdds(expired) :
       LET added     == IF cb = None THEN {} ELSE {cb.addr}
           again     == {a \in expired : Repeat(a)}
           gone      == expired \ again
           remaining == (timers \ expired) \cup added \cup again
           due2      == [a \in Addr |-> CASE a \in again -> interval[a]
                                          [] a \in added -> cb.due
                                          [] a \in gone  -> 0
                                          [] OTHER       -> due[a]]
       IN /\ timers' = remaining
          /\ due' = due2
          /\ interval' = [a \in Addr |-> CASE a \in added -> cb.ival
                                            [] a \in gone  -> 0
                                            [] OTHER       -> interval[a]]
          /\ seq' = [a \in Addr |-> CASE a \in added -> adds + 1
                                       [] a \in gone  -> 0
                                       [] OTHER       -> seq[a]]
          /\ adds' = adds + Cardinality(added)
          /\ fd' = IF expired # {} /\ remaining # {}
                   THEN ArmValue(due2[FirstOf(remaining, due2)])
                   ELSE None
          /\ lastBatch' = RunOrder(expired)
          /\ UNCHANGED steps

(* Environment: monotonic and wall clock advance together by one tick.    *)
Tick ==
  /\ \A a \in timers : due[a] > -MaxLate
  /\ IF fd = None THEN TRUE ELSE fd > -MaxLate
  /\ due' = [a \in Addr |-> IF a \in timers THEN due[a] - 1 ELSE due[a]]
  /\ fd' = IF fd = None THEN None ELSE fd - 1
  /\ UNCHANGED <<timers, interval, seq, adds, steps, lastBatch>>

(* Environment: the wall clock is set back by one tick; the monotonic     *)
(* timerfd is unaffected, every expiration is now further away.            *)
ClockStepBack ==
  /\ steps < MaxClockSteps
  /\ steps' = steps + 1
  /\ due' = [a \in Addr |-> IF a \in timers THEN due[a] + 1 ELSE due[a]]
  /\ UNCHANGED <<timers, interval, seq, fd, adds, lastBatch>>

Next ==
  \/ \E a \in Addr, d \in Delays, i \in Intervals : AddTimer(a, d, i)
  \/ HandleRead
  \/ Tick
  \/ ClockStepBack

(* The loop thread keeps polling, so a readable timerfd is eventually      *)
(* handled; real time keeps passing.                                       *)
Fairness == WF_vars(HandleRead) /\ WF_vars(Tick)

Spec == Init /\ [][Next]_vars /\ Fairness

-----------------------------------------------------------------------------
TypeOK ==
  /\ timers \subseteq Addr
  /\ due \in [Addr -> Int]
  /\ interval \in [Addr -> Intervals \cup {0}]
  /\ seq \in [Addr -> 0..MaxAdds]
  /\ fd \in Int \cup {None}
  /\ adds \in 0..MaxAdds /\ steps \in 0..MaxClockSteps
  /\ lastBatch \in Seq([due : Int, seq : 1..MaxAdds])

(* Until the wall clock is set back, whenever timers_ is not empty the     *)
(* timerfd is armed, it never becomes readable before the earliest         *)
(* expiration (a spurious handleRead expires nothing and leaves the        *)
(* timerfd disarmed for good), and never later than that expiration or the *)
(* 100us floor: insert, resetTimerfd and reset together keep the timerfd   *)
(* tracking timers_.begin().                                               *)
TimerfdTracksEarliest ==
  steps = 0 /\ timers # {} =>
    LET e == due[FirstOf(timers, due)]
    IN /\ fd # None
       /\ e <= fd
       /\ fd <= ArmValue(e)

(* Even with the wall clock set back, an armed timerfd never becomes       *)
(* readable later than the earliest pending expiration (or the 100us       *)
(* floor): insert reports every new earliest entry and the re-arm in reset  *)
(* targets timers_.begin(), so no timer is run late.                       *)
ArmedNoLaterThanEarliest ==
  timers # {} /\ fd # None => fd <= ArmValue(due[FirstOf(timers, due)])

(* Every timer that is added is eventually run by handleRead.              *)
PendingTimerFires ==
  \A k \in 1..MaxAdds :
    (\E a \in timers : seq[a] = k) ~> (\E j \in DOMAIN lastBatch : lastBatch[j].seq = k)

(* In a behaviour where the wall clock is never set back, every timer that *)
(* is added is eventually run by handleRead: no interleaving of addTimer,  *)
(* callbacks adding timers, repeats and a loop lagging behind the timerfd  *)
(* leaves a pending timer unserved.                                        *)
PendingTimerFiresUnstepped == [](steps = 0) => PendingTimerFires

(* Spec section 4.2/8: an expiry batch runs in ascending                   *)
(* (deadline, sequence id) order, timers with equal deadlines in the order *)
(* they were added.                                                        *)
BatchInInsertionOrder ==
  \A i, j \in DOMAIN lastBatch :
    i < j => \/ lastBatch[i].due < lastBatch[j].due
             \/ lastBatch[i].due = lastBatch[j].due /\ lastBatch[i].seq < lastBatch[j].seq
=============================================================================
