---------------------------- MODULE ConnectionPool ----------------------------
(***************************************************************************)
(* The MySQL connection pool (src/src/mysql/ConnectionPool.cc).            *)
(*                                                                         *)
(* A producer thread, a recycler thread and the consumer threads that call *)
(* getConnection share connectionQueue_ and currentSize_ under one mutex   *)
(* and one condition variable.  Every critical section is one atomic step; *)
(* a thread blocked in cond_.wait / cond_.wait_for is in a wait state, and *)
(* notify_all moves every waiter to a state where it re-takes the mutex    *)
(* and re-checks.  The shared_ptr deleter handed out by getConnection is   *)
(* the consumer's Release.                                                 *)
(***************************************************************************)
EXTENDS Integers, FiniteSets, Sequences, SequencesExt

CONSTANTS
  Conns,       \* MysqlConn objects the pool may allocate
  Consumers,   \* threads calling getConnection
  MinSize,     \* minSize_ from conf.json
  MaxSize,     \* maxSize_ from conf.json
  None

ASSUME /\ MinSize \in Nat /\ MaxSize \in Nat /\ MinSize <= MaxSize
       /\ Cardinality(Conns) >= MaxSize
       /\ None \notin Conns

VARIABLES
  queue,        \* connectionQueue_, front first
  live,         \* connections allocated and not deleted
  old,          \* connections whose getAliveTime() >= maxIdleTime_
  currentSize,  \* currentSize_
  held,         \* held[c]: the connection consumer c holds, or None
  pc,           \* consumer c: "idle", "waiting" in wait_for, "woken", "holding"
  prod          \* producer: "run" (taking the mutex) or "waiting" in cond_.wait

vars == <<queue, live, old, currentSize, held, pc, prod>>

-----------------------------------------------------------------------------
(* notify_all: every consumer in wait_for and the producer in wait wake.   *)
NotifyAll ==
  /\ pc' = [c \in Consumers |-> IF pc[c] = "waiting" THEN "woken" ELSE pc[c]]
  /\ prod' = "run"

(* Mutant of Recycled: the loop runs while size() >= minSize_.            *)
RECURSIVE RecycledToMinimum(_)
RecycledToMinimum(q) ==
  IF Len(q) >= MinSize /\ q # <<>> /\ Head(q) \in old THEN RecycledToMinimum(Tail(q)) ELSE q

(* recycleConnection's inner loop: pop and delete front connections while  *)
(* the queue is longer than minSize_ and the front one has been idle too   *)
(* long; stop at the first one that has not.                               *)
RECURSIVE Recycled(_)
Recycled(q) ==
  IF Len(q) > MinSize /\ Head(q) \in old THEN Recycled(Tail(q)) ELSE q

(* addConnection: a new MysqlConn is pushed onto connectionQueue_ (the    *)
(* currentSize_++ inside it is counted by the caller's update).           *)
AddConnection(n) ==
  /\ queue' = Append(queue, n)
  /\ live' = live \cup {n}

(* The constructor: minSize_ times addConnection() (which counts the      *)
(* connection in currentSize_) followed by currentSize_++.                 *)
Init ==
  \E S \in SUBSET Conns :
    /\ Cardinality(S) = MinSize
    /\ queue = SetToSeq(S)
    /\ live = S
    /\ old = {}
    /\ currentSize = 2 * MinSize
    /\ held = [c \in Consumers |-> None]
    /\ pc = [c \in Consumers |-> "idle"]
    /\ prod = "run"

(* produceConnection, one pass of while(true) under the mutex: wait while  *)
(* the queue is not empty; otherwise, below maxSize_, addConnection()      *)
(* (currentSize_++ inside), currentSize_++ and notify_all.                 *)
Produce ==
  /\ prod = "run"
  /\ IF queue # <<>>
     THEN /\ prod' = "waiting"
          /\ UNCHANGED <<queue, live, currentSize, pc>>
     ELSE IF currentSize < MaxSize
     THEN \E n \in Conns \ live :
            /\ AddConnection(n)
            /\ currentSize' = currentSize + 2
            /\ NotifyAll
     ELSE UNCHANGED <<queue, live, currentSize, pc, prod>>
  /\ UNCHANGED <<old, held>>

(* recycleConnection, one pass after its sleep.                            *)
Recycle ==
  LET q == Recycled(queue)
      gone == Range(queue) \ Range(q)
  IN /\ queue' = q
     /\ live' = live \ gone
     /\ old' = old \ gone
     /\ currentSize' = currentSize - (Len(queue) - Len(q))
     /\ UNCHANGED <<held, pc, prod>>

(* Mutants of Take: the front is copied without connectionQueue_.pop(),   *)
(* or taken without cond_.notify_all().                                    *)
TakeWithoutPop(c) ==
  /\ held' = [held EXCEPT ![c] = Head(queue)]
  /\ queue' = queue
  /\ pc' = [d \in Consumers |-> IF d = c THEN "holding"
                                ELSE IF pc[d] = "waiting" THEN "woken" ELSE pc[d]]
  /\ prod' = "run"

TakeWithoutNotify(c) ==
  /\ held' = [held EXCEPT ![c] = Head(queue)]
  /\ queue' = Tail(queue)
  /\ pc' = [pc EXCEPT ![c] = "holding"]
  /\ prod' = prod

(* getConnection, holding the mutex (first entry, or back from wait_for):  *)
(* take the front connection and notify_all, or block in wait_for.         *)
Take(c) ==
  /\ held' = [held EXCEPT ![c] = Head(queue)]
  /\ queue' = Tail(queue)
  /\ pc' = [d \in Consumers |-> IF d = c THEN "holding"
                                ELSE IF pc[d] = "waiting" THEN "woken" ELSE pc[d]]
  /\ prod' = "run"

GetConnection(c) ==
  /\ pc[c] \in {"idle", "woken"}
  /\ IF queue # <<>>
     THEN Take(c)
     ELSE /\ pc' = [pc EXCEPT ![c] = "waiting"]
          /\ UNCHANGED <<queue, held, prod>>
  /\ UNCHANGED <<live, old, currentSize>>

(* wait_for returns with cv_status::timeout.                               *)
Timeout(c) ==
  /\ pc[c] = "waiting"
  /\ pc' = [pc EXCEPT ![c] = "woken"]
  /\ UNCHANGED <<queue, live, old, currentSize, held, prod>>

(* The shared_ptr deleter: under the mutex, refreshAliveTime() and push    *)
(* the connection back; nobody is notified.                                *)
Release(c) ==
  /\ pc[c] = "holding"
  /\ queue' = Append(queue, held[c])
  /\ old' = old \ {held[c]}
  /\ held' = [held EXCEPT ![c] = None]
  /\ pc' = [pc EXCEPT ![c] = "idle"]
  /\ UNCHANGED <<live, currentSize, prod>>

(* Environment: an idle connection in the queue exceeds maxIdleTime_.      *)
Age(n) ==
  /\ n \in Range(queue) \ old
  /\ old' = old \cup {n}
  /\ UNCHANGED <<queue, live, currentSize, held, pc, prod>>

Next ==
  \/ Produce
  \/ Recycle
  \/ \E c \in Consumers : GetConnection(c) \/ Timeout(c) \/ Release(c)
  \/ \E n \in Conns : Age(n)

(* Both pool threads loop forever; a wait_for eventually times out, a      *)
(* woken consumer re-takes the mutex, and a holder eventually drops its    *)
(* shared_ptr.  Consumers need not ask for a connection.                   *)
Fairness ==
  /\ WF_vars(Produce) /\ WF_vars(Recycle)
  /\ \A c \in Consumers :
       WF_vars(Timeout(c)) /\ WF_vars(Release(c))
       /\ WF_vars(pc[c] = "woken" /\ GetConnection(c))

Spec == Init /\ [][Next]_vars /\ Fairness

-----------------------------------------------------------------------------
TypeOK ==
  /\ queue \in Seq(Conns)
  /\ live \subseteq Conns /\ old \subseteq Conns
  /\ currentSize \in Int
  /\ held \in [Consumers -> Conns \cup {None}]
  /\ pc \in [Consumers -> {"idle", "waiting", "woken", "holding"}]
  /\ prod \in {"run", "waiting"}

(* Every live connection is in exactly one place: once in the queue, or   *)
(* held by exactly one consumer, and nothing else is; getConnection's pop  *)
(* and the deleter's push must hand it over between threads.               *)
ConnectionsExclusive ==
  /\ \A n \in live :
       Cardinality({i \in DOMAIN queue : queue[i] = n})
         + Cardinality({c \in Consumers : held[c] = n}) = 1
  /\ Range(queue) \cup {held[c] : c \in Consumers} \subseteq live \cup {None}

(* The pool keeps at least minSize_ connections alive: the recycler never  *)
(* deletes below the minimum however the queue and the holders interleave. *)
PoolKeepsMinimum == Cardinality(live) >= MinSize

(* The producer only sleeps in cond_.wait while connectionQueue_ is not   *)
(* empty: whoever empties the queue must notify it, or no connection is    *)
(* ever produced again and getConnection waits forever.                    *)
ProducerWaitsOnlyOnNonEmptyQueue == prod = "waiting" => queue # <<>>

(* currentSize_ is the number of connections the pool maintains, the       *)
(* figure produceConnection compares with maxSize_.                        *)
CurrentSizeCountsConnections == currentSize = Cardinality(live)

(* A consumer blocked in getConnection eventually gets a connection.       *)
GetConnectionReturns ==
  \A c \in Consumers : pc[c] = "waiting" ~> pc[c] = "holding"
=============================================================================
