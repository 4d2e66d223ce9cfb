------------------------------ MODULE FifoQueue ------------------------------
(***************************************************************************)
(* What the class BlockingQueue<T> promises its callers: each queue is a   *)
(* FIFO sequence, and an operation takes effect at one instant between its *)
(* call and its return (linearizability).  A deQ of an empty queue stays   *)
(* pending until some enQ has taken effect.  Nothing here says how: there  *)
(* is no mutex and no condition variable.                                  *)
(***************************************************************************)
EXTENDS Sequences

CONSTANTS Threads,  \* the threads that share the queues
          Queues,   \* the queue objects
          Values,   \* the elements (the template parameter T)
          NoVal     \* "no element yet"

VARIABLES items,    \* items[b]: the elements of queue b, oldest first
          stage,    \* stage[t]: "idle", "pending" or "done"
          op,       \* op[t]: the operation t is in, or was last in
          on,       \* on[t]: the queue it is called on
          val       \* val[t]: the argument of an enQ, the result of a deQ

fifoVars == <<items, stage, op, on, val>>

Init == /\ items = [b \in Queues |-> <<>>]
        /\ stage = [t \in Threads |-> "idle"]
        /\ op \in [Threads -> {"enQ", "deQ", "clear"}]
        /\ on \in [Threads -> Queues]
        /\ val = [t \in Threads |-> NoVal]

Invoke(t, b, o, v) ==
  /\ stage[t] = "idle"
  /\ (o = "enQ") <=> (v # NoVal)
  /\ stage' = [stage EXCEPT ![t] = "pending"]
  /\ op' = [op EXCEPT ![t] = o]
  /\ on' = [on EXCEPT ![t] = b]
  /\ val' = [val EXCEPT ![t] = v]
  /\ UNCHANGED items

Put(t) == /\ op[t] = "enQ"
          /\ items' = [items EXCEPT ![on[t]] = Append(@, val[t])]
          /\ UNCHANGED val

Get(t) == /\ op[t] = "deQ"
          /\ items[on[t]] # <<>>
          /\ val' = [val EXCEPT ![t] = Head(items[on[t]])]
          /\ items' = [items EXCEPT ![on[t]] = Tail(@)]

Empty(t) == /\ op[t] = "clear"
            /\ items' = [items EXCEPT ![on[t]] = <<>>]
            /\ UNCHANGED val

TakeEffect(t) == /\ stage[t] = "pending"
                 /\ Put(t) \/ Get(t) \/ Empty(t)
                 /\ stage' = [stage EXCEPT ![t] = "done"]
                 /\ UNCHANGED <<op, on>>

Return(t) == /\ stage[t] = "done"
             /\ stage' = [stage EXCEPT ![t] = "idle"]
             /\ UNCHANGED <<items, op, on, val>>

Next == \E t \in Threads :
          \/ \E b \in Queues, o \in {"enQ", "deQ", "clear"}, v \in Values \cup {NoVal} :
               Invoke(t, b, o, v)
          \/ TakeEffect(t)
          \/ Return(t)

Spec == Init /\ [][Next]_fifoVars
==============================================================================
