---------------------------- MODULE BlockingQueue ----------------------------
(***************************************************************************)
(* Cpp11-BlockingQueue.h: a monitor made of a std::queue (q_), a std::mutex *)
(* (mtx_) and a std::condition_variable (cv_).  Every queue of the program *)
(* (the sender and receiver queues of client and server, the logger's      *)
(* queue) is one of these, called from several threads.                    *)
(*                                                                         *)
(* A thread that holds mtx_ does its critical section and the unlock in    *)
(* one step: no other thread reads q_ without the mutex.  The push of enQ  *)
(* and its notify_one are two steps, because the code unlocks in between   *)
(* (lines 127-131), and so are going to sleep and waking up.  The moves,   *)
(* which no thread of the three processes calls, and front() and size(),   *)
(* which change nothing, are left out.                                     *)
(***************************************************************************)
EXTENDS Naturals, Sequences, FiniteSets

CONSTANTS Threads,  \* the threads that share the queues
          Queues,   \* the queue objects
          Values,   \* the elements (the template parameter T)
          NoVal,    \* "no element"
          Free,     \* owner of an unlocked mutex
          MaxLen    \* bound: a caller enqueues only while fewer are in flight

ASSUME ThreadsAssumption == IsFiniteSet(Threads) /\ Free \notin Threads
ASSUME ValuesAssumption == NoVal \notin Values
ASSUME MaxLenAssumption == MaxLen \in Nat

VARIABLES q_,       \* q_[b]: the underlying std::queue
          mtx_,     \* mtx_[b]: the thread that holds the mutex, or Free
          cv_,      \* cv_[b]: the threads blocked in cv_.wait
          pc,       \* where each thread is
          op,       \* the operation it is in, or was last in
          on,       \* the queue object it is called on
          val       \* argument of an enQ, result of a deQ

vars == <<q_, mtx_, cv_, pc, op, on, val>>

Ops == {"enQ", "deQ", "clear"}

Init == /\ q_ = [b \in Queues |-> <<>>]
        /\ mtx_ = [b \in Queues |-> Free]
        /\ cv_ = [b \in Queues |-> {}]
        /\ pc = [t \in Threads |-> "idle"]
        /\ op \in [Threads -> Ops]
        /\ on \in [Threads -> Queues]
        /\ val = [t \in Threads |-> NoVal]

Unlock(b) == mtx_' = [mtx_ EXCEPT ![b] = Free]
Goto(t, label) == pc' = [pc EXCEPT ![t] = label]

\* Enqueues on b that have not pushed yet.
Unpushed(b) == {t \in Threads : /\ on[t] = b
                                /\ op[t] = "enQ"
                                /\ pc[t] \in {"lock", "locked"}}

\* A thread calls an operation of queue b.  MaxLen bounds the caller, not the
\* queue: the code's queue has no capacity.
Call(t, b, o, v) ==
  /\ pc[t] = "idle"
  /\ (o = "enQ") <=> (v # NoVal)
  /\ o = "enQ" => Len(q_[b]) + Cardinality(Unpushed(b)) < MaxLen
  /\ Goto(t, "lock")
  /\ op' = [op EXCEPT ![t] = o]
  /\ on' = [on EXCEPT ![t] = b]
  /\ val' = [val EXCEPT ![t] = v]
  /\ UNCHANGED <<q_, mtx_, cv_>>

\* Acquire mtx_: at the start of an operation ("lock"), or inside cv_.wait
\* after a wakeup ("relock").
Lock(t) ==
  /\ pc[t] \in {"lock", "relock"}
  /\ mtx_[on[t]] = Free
  /\ mtx_' = [mtx_ EXCEPT ![on[t]] = t]
  /\ Goto(t, "locked")
  /\ UNCHANGED <<q_, cv_, op, on, val>>

\* Mutant: an enQ that forgets to notify.
PushSilently(t) ==
  /\ pc[t] = "locked" /\ op[t] = "enQ"
  /\ q_' = [q_ EXCEPT ![on[t]] = Append(@, val[t])]
  /\ Unlock(on[t])
  /\ Goto(t, "return")
  /\ UNCHANGED <<cv_, op, on, val>>

\* enQ: push under the lock, then unlock; notify_one comes later.
Push(t) ==
  /\ pc[t] = "locked" /\ op[t] = "enQ"
  /\ q_' = [q_ EXCEPT ![on[t]] = Append(@, val[t])]
  /\ Unlock(on[t])
  /\ Goto(t, "notify")
  /\ UNCHANGED <<cv_, op, on, val>>

\* enQ: cv_.notify_one() without the lock: it wakes one waiter, if there is one.
NotifyOne(t) ==
  /\ pc[t] = "notify"
  /\ \/ /\ cv_[on[t]] = {}
        /\ Goto(t, "idle")
        /\ UNCHANGED cv_
     \/ \E w \in cv_[on[t]] :
          /\ cv_' = [cv_ EXCEPT ![on[t]] = @ \ {w}]
          /\ pc' = [pc EXCEPT ![t] = "idle", ![w] = "relock"]
  /\ UNCHANGED <<q_, mtx_, op, on, val>>

\* Mutant: a deQ that pops at the end where enQ pushes.
PopNewest(t) ==
  /\ pc[t] = "locked" /\ op[t] = "deQ"
  /\ q_[on[t]] # <<>>
  /\ val' = [val EXCEPT ![t] = q_[on[t]][Len(q_[on[t]])]]
  /\ q_' = [q_ EXCEPT ![on[t]] = SubSeq(@, 1, Len(@) - 1)]
  /\ Unlock(on[t])
  /\ Goto(t, "return")
  /\ UNCHANGED <<cv_, op, on>>

\* deQ: take the front element.  The fast path (lines 108-113) and the exit of
\* the wait loop (118-120) do the same.
Pop(t) ==
  /\ pc[t] = "locked" /\ op[t] = "deQ"
  /\ q_[on[t]] # <<>>
  /\ val' = [val EXCEPT ![t] = Head(q_[on[t]])]
  /\ q_' = [q_ EXCEPT ![on[t]] = Tail(@)]
  /\ Unlock(on[t])
  /\ Goto(t, "return")
  /\ UNCHANGED <<cv_, op, on>>

\* deQ: cv_.wait releases the mutex and blocks, in one step.
Wait(t) ==
  /\ pc[t] = "locked" /\ op[t] = "deQ"
  /\ q_[on[t]] = <<>>
  /\ cv_' = [cv_ EXCEPT ![on[t]] = @ \cup {t}]
  /\ Unlock(on[t])
  /\ Goto(t, "wait")
  /\ UNCHANGED <<q_, op, on, val>>

\* A wait may return without a notification; its predicate is then checked
\* again under the mutex.
SpuriousWakeup(t) ==
  /\ pc[t] = "wait"
  /\ cv_' = [cv_ EXCEPT ![on[t]] = @ \ {t}]
  /\ Goto(t, "relock")
  /\ UNCHANGED <<q_, mtx_, op, on, val>>

\* clear: pop until empty, all under the lock.
Clear(t) ==
  /\ pc[t] = "locked" /\ op[t] = "clear"
  /\ q_' = [q_ EXCEPT ![on[t]] = <<>>]
  /\ Unlock(on[t])
  /\ Goto(t, "return")
  /\ UNCHANGED <<cv_, op, on, val>>

Return(t) ==
  /\ pc[t] = "return"
  /\ Goto(t, "idle")
  /\ UNCHANGED <<q_, mtx_, cv_, op, on, val>>

\* What a thread inside an operation does by itself.
Step(t) == Lock(t) \/ Push(t) \/ NotifyOne(t) \/ Pop(t) \/ Wait(t) \/ Clear(t) \/ Return(t)

Next == \E t \in Threads :
          \/ \E b \in Queues, o \in Ops, v \in Values \cup {NoVal} : Call(t, b, o, v)
          \/ Step(t)
          \/ SpuriousWakeup(t)

Spec == Init /\ [][Next]_vars

\* Every runnable thread is scheduled.  Calls and spurious wakeups owe nothing.
Fairness == \A t \in Threads : WF_vars(Step(t))
FairSpec == Spec /\ Fairness

------------------------------------------------------------------------------
PcLabels == {"idle", "lock", "locked", "notify", "wait", "relock", "return"}

\* Type invariant; an enQ always has an element to push and a deQ never returns
\* without one.
TypeOK == /\ q_ \in [Queues -> Seq(Values)]
          /\ mtx_ \in [Queues -> Threads \cup {Free}]
          /\ cv_ \in [Queues -> SUBSET Threads]
          /\ pc \in [Threads -> PcLabels]
          /\ op \in [Threads -> Ops]
          /\ on \in [Threads -> Queues]
          /\ val \in [Threads -> Values \cup {NoVal}]
          /\ \A t \in Threads : op[t] = "enQ" /\ pc[t] \in {"lock", "locked"} => val[t] \in Values
          /\ \A t \in Threads : op[t] = "deQ" /\ pc[t] = "return" => val[t] \in Values

\* The mutex has exactly one owner: the thread inside a critical section.
LockInv == \A t \in Threads, b \in Queues :
             (mtx_[b] = t) <=> (pc[t] = "locked" /\ on[t] = b)

\* cv_ holds exactly the threads asleep in a deQ of that queue; only a deQ wakes up.
WaitInv == /\ \A t \in Threads, b \in Queues :
                (t \in cv_[b]) <=> (pc[t] = "wait" /\ on[t] = b)
           /\ \A t \in Threads : pc[t] \in {"wait", "relock"} => op[t] = "deQ"

\* Threads that will, without anybody's help, wake a waiter of b or take an
\* element from b: an enQ that has still to notify, a woken or running deQ.
Helpers(b) == {t \in Threads :
                 /\ on[t] = b
                 /\ \/ pc[t] = "notify"
                    \/ pc[t] = "relock"
                    \/ pc[t] = "locked" /\ op[t] = "deQ"}

\* No lost wakeup: while a thread sleeps in deQ, every element of the queue is
\* spoken for by a thread that will notify or take it.  enQ pushes before it
\* notifies and notifies after it unlocks; were one push not followed by its
\* notify_one, a reader could sleep for ever beside a queued message.
NoLostWakeup == \A b \in Queues :
                  cv_[b] # {} => Len(q_[b]) <= Cardinality(Helpers(b))

\* The queue behaves as the sequential FIFO queue of module FifoQueue, each
\* operation taking effect at one instant.
stage == [t \in Threads |-> CASE pc[t] = "idle" -> "idle"
                              [] pc[t] \in {"notify", "return"} -> "done"
                              [] OTHER -> "pending"]

FQ == INSTANCE FifoQueue WITH items <- q_
Linearizable == FQ!Spec

\* A sleeping reader beside a non-empty queue does not stay that way: one of
\* the two changes.
ReadersServed == \A b \in Queues :
                   (cv_[b] # {} /\ q_[b] # <<>>) ~> (cv_[b] = {} \/ q_[b] = <<>>)

\* The monitor is sound: a deQ returns only with an element, and no reader sleeps
\* beside one that nobody will notify it of or take.
MonitorSafe == TypeOK /\ NoLostWakeup
==============================================================================
