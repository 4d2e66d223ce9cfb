------------------------- MODULE SharedState_proof -------------------------
(***************************************************************************)
(* Proofs about the two objects that threads share: BlockingQueue, for any  *)
(* threads, queues, values and MaxLen, and the nesting count of XmlPrinter, *)
(* for any threads that print and any documents.                            *)
(*                                                                         *)
(* TypeOK, LockInv, WaitInv and NoLostWakeup together are inductive: to     *)
(* know that an element is spoken for one must know that only the owner of  *)
(* the mutex pops (LockInv) and that a notified thread really is a deQ that *)
(* will look at the queue again (WaitInv).                                  *)
(*                                                                         *)
(* What the count is worth depends on where its thread stands.  IInv says so*)
(* for a printing nobody has joined (Position), that such a printing is the *)
(* only one (OneAlone), and that without overlaps every printing is of that *)
(* kind and began at zero (Quiet).                                          *)
(***************************************************************************)
EXTENDS BlockingQueue, XmlPrinter, FiniteSetTheorems, SequenceTheorems, TLAPS

IndInv == TypeOK /\ LockInv /\ WaitInv /\ NoLostWakeup

\* Initially nobody is inside an operation.
LEMMA InitInd == Init => IndInv
<1> SUFFICES ASSUME Init PROVE IndInv
  OBVIOUS
<1>1. TypeOK
  BY DEF Init, TypeOK, PcLabels
<1>2. LockInv /\ WaitInv
  BY ThreadsAssumption DEF Init, LockInv, WaitInv
<1>3. NoLostWakeup
  BY DEF Init, NoLostWakeup
<1> QED
  BY <1>1, <1>2, <1>3 DEF IndInv

\* The two outcomes of t's notify_one: nobody sleeps, or sleeper w is woken.
NobodyWoken(t) == /\ cv_[on[t]] = {} /\ cv_' = cv_
                  /\ pc' = [pc EXCEPT ![t] = "idle"]

Woken(t, w) ==
  /\ w # t /\ pc[w] = "wait" /\ op[w] = "deQ" /\ on[w] = on[t] /\ w \in cv_[on[t]]
  /\ cv_' \in [Queues -> SUBSET Threads]
  /\ \A b \in Queues : cv_'[b] = IF b = on[t] THEN cv_[b] \ {w} ELSE cv_[b]
  /\ pc' \in [Threads -> PcLabels]
  /\ \A u \in Threads : pc'[u] = IF u = w THEN "relock" ELSE IF u = t THEN "idle" ELSE pc[u]

\* A notify either finds no waiter, or wakes one that is asleep in a deQ.
LEMMA NotifyCases ==
  ASSUME IndInv, NEW t \in Threads, NotifyOne(t)
  PROVE  /\ UNCHANGED <<q_, mtx_, op, on, val>> /\ pc[t] = "notify"
         /\ NobodyWoken(t) \/ \E w \in Threads : Woken(t, w)
<1> USE DEF IndInv, TypeOK, WaitInv
<1>1. pc[t] = "notify" /\ on[t] \in Queues /\ cv_[on[t]] \in SUBSET Threads
  BY DEF NotifyOne
<1>2. ASSUME NEW w \in cv_[on[t]],
             cv_' = [cv_ EXCEPT ![on[t]] = @ \ {w}],
             pc' = [pc EXCEPT ![t] = "idle", ![w] = "relock"]
      PROVE  w \in Threads /\ Woken(t, w)
  <2>1. w \in Threads /\ w # t /\ pc[w] = "wait" /\ op[w] = "deQ" /\ on[w] = on[t]
    BY <1>1, <1>2
  <2>2. /\ cv_' \in [Queues -> SUBSET Threads]
        /\ \A b \in Queues : cv_'[b] = IF b = on[t] THEN cv_[b] \ {w} ELSE cv_[b]
    BY <1>1, <1>2
  <2>3. /\ pc' \in [Threads -> PcLabels]
        /\ \A u \in Threads : pc'[u] = IF u = w THEN "relock"
                                      ELSE IF u = t THEN "idle" ELSE pc[u]
    BY ZenonT(30), <1>2, <2>1 DEF PcLabels
  <2> QED
    BY <1>2, <2>1, <2>2, <2>3 DEF Woken
<1>3. \/ NobodyWoken(t)
      \/ \E w \in cv_[on[t]] : /\ cv_' = [cv_ EXCEPT ![on[t]] = @ \ {w}]
                               /\ pc' = [pc EXCEPT ![t] = "idle", ![w] = "relock"]
  BY DEF NotifyOne, Goto, NobodyWoken
<1> QED
  BY <1>1, <1>2, <1>3 DEF NotifyOne

\* Every step keeps the variables in their types.
LEMMA TypeStep == IndInv /\ [Next]_vars => TypeOK'
<1> SUFFICES ASSUME IndInv, [Next]_vars PROVE TypeOK'
  OBVIOUS
<1> USE DEF IndInv, TypeOK, PcLabels, Ops
<1>1. ASSUME NEW t \in Threads, NEW b \in Queues, NEW o \in Ops,
             NEW v \in Values \cup {NoVal}, Call(t, b, o, v)
      PROVE  TypeOK'
  BY <1>1 DEF Call, Goto
<1>2. ASSUME NEW t \in Threads, Lock(t) PROVE TypeOK'
  BY <1>2, ThreadsAssumption DEF Lock, Goto, WaitInv
<1>3. ASSUME NEW t \in Threads, Push(t) PROVE TypeOK'
  BY <1>3 DEF Push, Goto, Unlock
<1>4. ASSUME NEW t \in Threads, NotifyOne(t) PROVE TypeOK'
  <2>1. UNCHANGED <<q_, mtx_, op, on, val>> /\ pc[t] = "notify"
    BY <1>4, NotifyCases
  <2>2. CASE NobodyWoken(t)
    BY <2>1, <2>2 DEF NobodyWoken
  <2>3. ASSUME NEW w \in Threads, Woken(t, w) PROVE TypeOK'
    BY <2>1, <2>3 DEF Woken
  <2> QED
    BY <1>4, <2>2, <2>3, NotifyCases
<1>5. ASSUME NEW t \in Threads, Pop(t) PROVE TypeOK'
  <2>1. Head(q_[on[t]]) \in Values /\ Tail(q_[on[t]]) \in Seq(Values)
    BY <1>5 DEF Pop
  <2> QED
    BY <1>5, <2>1 DEF Pop, Goto, Unlock
<1>6. ASSUME NEW t \in Threads, Wait(t) PROVE TypeOK'
  BY <1>6 DEF Wait, Goto, Unlock
<1>7. ASSUME NEW t \in Threads, SpuriousWakeup(t) PROVE TypeOK'
  BY <1>7 DEF SpuriousWakeup, Goto
<1>8. ASSUME NEW t \in Threads, Clear(t) PROVE TypeOK'
  BY <1>8 DEF Clear, Goto, Unlock
<1>9. ASSUME NEW t \in Threads, Return(t) PROVE TypeOK'
  BY <1>9 DEF Return, Goto
<1>10. CASE UNCHANGED vars
  BY <1>10 DEF vars
<1> QED
  BY <1>1, <1>2, <1>3, <1>4, <1>5, <1>6, <1>7, <1>8, <1>9, <1>10 DEF Next, Step

\* Every step keeps the mutex with the one thread in a critical section, and
\* the wait set with the threads asleep.
LEMMA LockStep == IndInv /\ [Next]_vars => LockInv' /\ WaitInv'
<1> SUFFICES ASSUME IndInv, [Next]_vars PROVE LockInv' /\ WaitInv'
  OBVIOUS
<1>0. /\ mtx_ \in [Queues -> Threads \cup {Free}]
      /\ cv_ \in [Queues -> SUBSET Threads]
      /\ pc \in [Threads -> PcLabels]
      /\ op \in [Threads -> Ops]
      /\ on \in [Threads -> Queues]
      /\ Free \notin Threads
      /\ LockInv /\ WaitInv
  BY ThreadsAssumption DEF IndInv, TypeOK
<1>1. ASSUME NEW t \in Threads, NEW b \in Queues, NEW o \in Ops,
             NEW v \in Values \cup {NoVal}, Call(t, b, o, v)
      PROVE  LockInv' /\ WaitInv'
  BY <1>0, <1>1 DEF LockInv, WaitInv, Call, Goto
<1>2. ASSUME NEW t \in Threads, Lock(t) PROVE LockInv' /\ WaitInv'
  BY <1>0, <1>2 DEF LockInv, WaitInv, Lock, Goto
<1>3. ASSUME NEW t \in Threads, Push(t) PROVE LockInv' /\ WaitInv'
  BY <1>0, <1>3 DEF LockInv, WaitInv, Push, Goto, Unlock
<1>4. ASSUME NEW t \in Threads, NotifyOne(t) PROVE LockInv' /\ WaitInv'
  <2>1. UNCHANGED <<q_, mtx_, op, on, val>> /\ pc[t] = "notify"
    BY <1>4, NotifyCases
  <2>2. CASE NobodyWoken(t)
    BY <1>0, <2>1, <2>2 DEF NobodyWoken, LockInv, WaitInv
  <2>3. ASSUME NEW w \in Threads, Woken(t, w) PROVE LockInv' /\ WaitInv'
    <3>1. /\ w # t /\ pc[w] = "wait" /\ op[w] = "deQ" /\ on[w] = on[t]
          /\ \A u \in Threads : pc'[u] = IF u = w THEN "relock" ELSE IF u = t THEN "idle" ELSE pc[u]
      BY <2>3 DEF Woken
    <3>2. \A b \in Queues : cv_'[b] = IF b = on[t] THEN cv_[b] \ {w} ELSE cv_[b]
      BY <2>3 DEF Woken
    <3>3. mtx_' = mtx_ /\ on' = on /\ op' = op /\ pc[t] = "notify"
      BY <2>1
    <3>4. \A u \in Threads : (pc'[u] = "locked") <=> (pc[u] = "locked")
      BY <3>1, <3>3
    <3>5. \A u \in Threads : (pc'[u] = "wait") <=> (pc[u] = "wait" /\ u # w)
      BY <3>1, <3>3
    <3>6. \A u \in Threads : pc'[u] = "relock" => u = w \/ pc[u] = "relock"
      BY <3>1, <3>3
    <3>7. LockInv'
      <4> SUFFICES ASSUME NEW u \in Threads, NEW b \in Queues
                   PROVE  (mtx_'[b] = u) <=> (pc'[u] = "locked" /\ on'[u] = b)
        BY DEF LockInv
      <4> QED
        BY <1>0, <3>3, <3>4 DEF LockInv
    <3>8. \A u \in Threads, b \in Queues : (u \in cv_'[b]) <=> (u \in cv_[b] /\ ~(u = w /\ b = on[t]))
      BY <3>2
    <3>9. WaitInv'
      BY <1>0, <3>1, <3>3, <3>5, <3>6, <3>8 DEF WaitInv
    <3> QED
      BY <3>7, <3>9
  <2> QED
    BY <1>4, <2>2, <2>3, NotifyCases
<1>5. ASSUME NEW t \in Threads, Pop(t) PROVE LockInv' /\ WaitInv'
  BY <1>0, <1>5 DEF LockInv, WaitInv, Pop, Goto, Unlock
<1>6. ASSUME NEW t \in Threads, Wait(t) PROVE LockInv' /\ WaitInv'
  BY <1>0, <1>6 DEF LockInv, WaitInv, Wait, Goto, Unlock
<1>7. ASSUME NEW t \in Threads, SpuriousWakeup(t) PROVE LockInv' /\ WaitInv'
  BY <1>0, <1>7 DEF LockInv, WaitInv, SpuriousWakeup, Goto
<1>8. ASSUME NEW t \in Threads, Clear(t) PROVE LockInv' /\ WaitInv'
  BY <1>0, <1>8 DEF LockInv, WaitInv, Clear, Goto, Unlock
<1>9. ASSUME NEW t \in Threads, Return(t) PROVE LockInv' /\ WaitInv'
  BY <1>0, <1>9 DEF LockInv, WaitInv, Return, Goto
<1>10. CASE UNCHANGED vars
  BY <1>0, <1>10 DEF LockInv, WaitInv, vars
<1> QED
  BY <1>1, <1>2, <1>3, <1>4, <1>5, <1>6, <1>7, <1>8, <1>9, <1>10 DEF Next, Step

\* Helpers is a finite set of threads.
LEMMA HelpersFinite == \A b \in Queues : IsFiniteSet(Helpers(b)) /\ Cardinality(Helpers(b)) \in Nat
  BY ThreadsAssumption, FS_Subset, FS_CardinalityType DEF Helpers

\* The wakeups owed to a queue, and so its covered elements, change by at most
\* one thread at a time.
LEMMA HelperLeaves ==
  ASSUME NEW b \in Queues, NEW t \in Helpers(b), Helpers(b)' = Helpers(b) \ {t}
  PROVE  Cardinality(Helpers(b))' = Cardinality(Helpers(b)) - 1
  BY HelpersFinite, FS_RemoveElement

LEMMA HelperJoins ==
  ASSUME NEW b \in Queues, NEW t, t \notin Helpers(b), Helpers(b)' = Helpers(b) \cup {t}
  PROVE  Cardinality(Helpers(b))' = Cardinality(Helpers(b)) + 1
  BY HelpersFinite, FS_AddElement

LEMMA HelperSwaps ==
  ASSUME NEW b \in Queues, NEW t \in Helpers(b), NEW w, w \notin Helpers(b),
         Helpers(b)' = (Helpers(b) \ {t}) \cup {w}
  PROVE  Cardinality(Helpers(b))' = Cardinality(Helpers(b))
<1>1. IsFiniteSet(Helpers(b) \ {t}) /\ Cardinality(Helpers(b) \ {t}) = Cardinality(Helpers(b)) - 1
  BY HelpersFinite, FS_RemoveElement
<1>2. w \notin Helpers(b) \ {t}
  OBVIOUS
<1>3. Cardinality(Helpers(b)) \in Nat
  BY HelpersFinite
<1> QED
  BY <1>1, <1>2, <1>3, FS_AddElement

\* Every step keeps every element spoken for: a push adds a thread that will
\* notify, a notify passes its duty on to the thread it wakes, and whoever pops
\* gives up one helper and one element.
LEMMA WakeupStep == IndInv /\ [Next]_vars => NoLostWakeup'
<1> SUFFICES ASSUME IndInv, [Next]_vars, NEW b \in Queues, (cv_[b] # {})'
             PROVE  (Len(q_[b]) <= Cardinality(Helpers(b)))'
  BY DEF NoLostWakeup
<1>0. /\ \A t \in Threads : on[t] \in Queues
      /\ q_ \in [Queues -> Seq(Values)]
      /\ pc \in [Threads -> PcLabels] /\ op \in [Threads -> Ops] /\ on \in [Threads -> Queues]
      /\ Cardinality(Helpers(b)) \in Nat
      /\ cv_[b] # {} => Len(q_[b]) <= Cardinality(Helpers(b))
  BY HelpersFinite DEF IndInv, TypeOK, NoLostWakeup
<1>1. ASSUME NEW t \in Threads, NEW c \in Queues, NEW o \in Ops,
             NEW v \in Values \cup {NoVal}, Call(t, c, o, v)
      PROVE  (Len(q_[b]) <= Cardinality(Helpers(b)))'
  <2>1. t \notin Helpers(b) /\ Helpers(b)' = Helpers(b)
    BY <1>0, <1>1 DEF Call, Goto, Helpers
  <2> QED
    BY <1>0, <1>1, <2>1 DEF Call
<1>2. ASSUME NEW t \in Threads, Lock(t)
      PROVE  (Len(q_[b]) <= Cardinality(Helpers(b)))'
  <2>1. pc[t] = "relock" => op[t] = "deQ"
    BY DEF IndInv, WaitInv
  <2>2. q_' = q_ /\ cv_' = cv_
    BY <1>2 DEF Lock
  <2>3. CASE Helpers(b)' = Helpers(b)
    BY <1>0, <2>2, <2>3
  <2>4. CASE Helpers(b)' # Helpers(b)
    <3>1. t \notin Helpers(b) /\ Helpers(b)' = Helpers(b) \cup {t}
      BY <1>0, <1>2, <2>1, <2>4 DEF Lock, Goto, Helpers
    <3>4. Cardinality(Helpers(b))' = Cardinality(Helpers(b)) + 1
      BY <3>1, HelperJoins
    <3> QED
      BY <1>0, <2>2, <3>1, <3>4
  <2> QED
    BY <2>3, <2>4
<1>3. ASSUME NEW t \in Threads, Push(t)
      PROVE  (Len(q_[b]) <= Cardinality(Helpers(b)))'
  <2>1. cv_' = cv_
    BY <1>3 DEF Push
  <2>2. CASE on[t] = b
    <3>1. t \notin Helpers(b) /\ Helpers(b)' = Helpers(b) \cup {t}
      BY <1>0, <1>3, <2>2 DEF Push, Goto, Helpers
    <3>2. q_[b] \in Seq(Values) /\ val[t] \in Values /\ q_'[b] = Append(q_[b], val[t])
      BY <1>0, <1>3, <2>2 DEF Push, IndInv, TypeOK
    <3>3. Len(q_'[b]) = Len(q_[b]) + 1 /\ Len(q_[b]) \in Nat
      BY <3>2
    <3>4. Cardinality(Helpers(b))' = Cardinality(Helpers(b)) + 1
      BY <3>1, HelperJoins
    <3> QED
      BY <1>0, <2>1, <3>1, <3>3, <3>4
  <2>3. CASE on[t] # b
    <3>1. Helpers(b)' = Helpers(b) /\ q_'[b] = q_[b]
      BY <1>0, <1>3, <2>3 DEF Push, Goto, Helpers
    <3> QED
      BY <1>0, <2>1, <3>1
  <2> QED
    BY <2>2, <2>3
<1>4. ASSUME NEW t \in Threads, NotifyOne(t)
      PROVE  (Len(q_[b]) <= Cardinality(Helpers(b)))'
  <2>1. q_' = q_ /\ on' = on /\ op' = op /\ pc[t] = "notify"
    BY <1>4, NotifyCases
  <2>2. CASE on[t] # b
    <3>1. CASE NobodyWoken(t)
      <4>1. Helpers(b)' = Helpers(b) /\ cv_' = cv_
        BY <1>0, <2>1, <2>2, <3>1 DEF NobodyWoken, Helpers
      <4> QED
        BY <1>0, <2>1, <4>1
    <3>2. ASSUME NEW w \in Threads, Woken(t, w)
          PROVE  (Len(q_[b]) <= Cardinality(Helpers(b)))'
      <4>1. cv_'[b] = cv_[b]
        BY <2>2, <3>2 DEF Woken
      <4>2. \A u \in Threads : on[u] = b => pc'[u] = pc[u]
        BY <2>2, <3>2 DEF Woken
      <4>3. Helpers(b)' = Helpers(b)
        BY <2>1, <4>2 DEF Helpers
      <4> QED
        BY <1>0, <2>1, <4>1, <4>3
    <3> QED
      BY <1>4, <3>1, <3>2, NotifyCases
  <2>3. CASE on[t] = b
    <3>1. CASE NobodyWoken(t)
      BY <2>3, <3>1 DEF NobodyWoken
    <3>2. ASSUME NEW w \in Threads, Woken(t, w)
          PROVE  (Len(q_[b]) <= Cardinality(Helpers(b)))'
      <4>1. /\ w # t /\ pc[w] = "wait" /\ op[w] = "deQ" /\ on[w] = b /\ w \in cv_[b]
            /\ \A u \in Threads : pc'[u] = IF u = w THEN "relock"
                                          ELSE IF u = t THEN "idle" ELSE pc[u]
        BY <2>3, <3>2 DEF Woken
      <4>2. t \in Helpers(b) /\ w \notin Helpers(b)
        BY <2>1, <2>3, <4>1 DEF Helpers
      <4>3. Helpers(b)' = (Helpers(b) \ {t}) \cup {w}
        BY <2>1, <2>3, <4>1 DEF Helpers
      <4>4. Cardinality(Helpers(b))' = Cardinality(Helpers(b))
        BY <4>2, <4>3, HelperSwaps
      <4> QED
        BY <1>0, <2>1, <4>1, <4>4
    <3> QED
      BY <1>4, <3>1, <3>2, NotifyCases
  <2> QED
    BY <2>2, <2>3
<1>5. ASSUME NEW t \in Threads, Pop(t)
      PROVE  (Len(q_[b]) <= Cardinality(Helpers(b)))'
  <2>1. cv_' = cv_
    BY <1>5 DEF Pop
  <2>2. CASE on[t] = b
    <3>1. t \in Helpers(b) /\ Helpers(b)' = Helpers(b) \ {t}
      BY <1>0, <1>5, <2>2 DEF Pop, Goto, Helpers
    <3>2. q_[b] \in Seq(Values) /\ q_[b] # <<>> /\ q_'[b] = Tail(q_[b])
      BY <1>0, <1>5, <2>2 DEF Pop
    <3>3. Len(q_'[b]) = Len(q_[b]) - 1 /\ Len(q_[b]) \in Nat
      BY <3>2
    <3>4. Cardinality(Helpers(b))' = Cardinality(Helpers(b)) - 1
      BY <3>1, HelperLeaves
    <3> QED
      BY <1>0, <2>1, <3>1, <3>3, <3>4
  <2>3. CASE on[t] # b
    <3>1. Helpers(b)' = Helpers(b) /\ q_'[b] = q_[b]
      BY <1>0, <1>5, <2>3 DEF Pop, Goto, Helpers
    <3> QED
      BY <1>0, <2>1, <3>1
  <2> QED
    BY <2>2, <2>3
<1>6. ASSUME NEW t \in Threads, Wait(t)
      PROVE  (Len(q_[b]) <= Cardinality(Helpers(b)))'
  <2>1. q_' = q_ /\ q_[on[t]] = <<>>
    BY <1>6 DEF Wait
  <2>2. CASE on[t] = b
    <3>1. Cardinality(Helpers(b)') \in Nat
      <4>1. Helpers(b)' \subseteq Threads
        BY DEF Helpers
      <4> QED
        BY <4>1, ThreadsAssumption, FS_Subset, FS_CardinalityType
    <3>2. Len(q_'[b]) = 0
      BY <2>1, <2>2
    <3> QED
      BY <3>1, <3>2
  <2>3. CASE on[t] # b
    <3>1. Helpers(b)' = Helpers(b) /\ cv_'[b] = cv_[b]
      BY <1>0, <1>6, <2>3 DEF Wait, Goto, Helpers, IndInv, TypeOK
    <3> QED
      BY <1>0, <2>1, <3>1
  <2> QED
    BY <2>2, <2>3
<1>7. ASSUME NEW t \in Threads, SpuriousWakeup(t)
      PROVE  (Len(q_[b]) <= Cardinality(Helpers(b)))'
  <2>1. q_' = q_
    BY <1>7 DEF SpuriousWakeup
  <2>2. CASE on[t] = b
    <3>1. t \notin Helpers(b) /\ Helpers(b)' = Helpers(b) \cup {t}
      BY <1>0, <1>7, <2>2 DEF SpuriousWakeup, Goto, Helpers
    <3>2. cv_[b] # {}
      BY <1>7, <2>2 DEF SpuriousWakeup, IndInv, WaitInv
    <3>3. Len(q_[b]) \in Nat
      BY <1>0
    <3>4. Cardinality(Helpers(b))' = Cardinality(Helpers(b)) + 1
      BY <3>1, HelperJoins
    <3> QED
      BY <1>0, <2>1, <3>1, <3>2, <3>3, <3>4
  <2>3. CASE on[t] # b
    <3>1. Helpers(b)' = Helpers(b) /\ cv_'[b] = cv_[b]
      BY <1>0, <1>7, <2>3 DEF SpuriousWakeup, Goto, Helpers, IndInv, TypeOK
    <3> QED
      BY <1>0, <2>1, <3>1
  <2> QED
    BY <2>2, <2>3
<1>8. ASSUME NEW t \in Threads, Clear(t)
      PROVE  (Len(q_[b]) <= Cardinality(Helpers(b)))'
  <2>1. Helpers(b)' = Helpers(b) /\ cv_' = cv_
    BY <1>0, <1>8 DEF Clear, Goto, Helpers
  <2>2. q_'[b] = <<>> \/ q_'[b] = q_[b]
    BY <1>0, <1>8 DEF Clear
  <2> QED
    BY <1>0, <2>1, <2>2
<1>9. ASSUME NEW t \in Threads, Return(t)
      PROVE  (Len(q_[b]) <= Cardinality(Helpers(b)))'
  <2>1. Helpers(b)' = Helpers(b)
    BY <1>0, <1>9 DEF Return, Goto, Helpers
  <2> QED
    BY <1>0, <1>9, <2>1 DEF Return
<1>10. CASE UNCHANGED vars
  BY <1>0, <1>10 DEF vars, Helpers
<1> QED
  BY <1>1, <1>2, <1>3, <1>4, <1>5, <1>6, <1>7, <1>8, <1>9, <1>10 DEF Next, Step

\* The invariant is inductive, so it holds in every reachable state.
LEMMA Inductive == Spec => []IndInv
<1>1. IndInv /\ [Next]_vars => IndInv'
  BY TypeStep, LockStep, WakeupStep DEF IndInv
<1> QED
  BY InitInd, <1>1, PTL DEF Spec

\* The queue, the mutex, the wait set and every thread stay in their types, and
\* an enQ always has an element to push.
THEOREM TypeCorrect == Spec => []TypeOK
<1>1. IndInv => TypeOK
  BY DEF IndInv
<1> QED
  BY Inductive, <1>1, PTL

\* Whatever the number of threads and queues, no reader of BlockingQueue sleeps
\* beside an element that no running thread will notify it of or take itself.
THEOREM WakeupsKept == Spec => []NoLostWakeup
<1>1. IndInv => NoLostWakeup
  BY DEF IndInv
<1> QED
  BY Inductive, <1>1, PTL

\* The abstract stage of a thread, read off its pc.
LEMMA StageOf ==
  ASSUME NEW t \in Threads, TypeOK
  PROVE  /\ pc[t] = "idle" <=> stage[t] = "idle"
         /\ pc[t] \in {"notify", "return"} <=> stage[t] = "done"
         /\ pc[t] \in {"lock", "locked", "wait", "relock"} <=> stage[t] = "pending"
  BY DEF TypeOK, PcLabels, stage

\* A thread that moves to a label moves to the stage of that label.
LEMMA StageMoves ==
  ASSUME NEW t \in Threads, NEW label, TypeOK, Goto(t, label)
  PROVE  /\ label = "idle" => stage' = [stage EXCEPT ![t] = "idle"]
         /\ label \in {"notify", "return"} => stage' = [stage EXCEPT ![t] = "done"]
         /\ label \in {"lock", "locked", "wait", "relock"} =>
              stage' = [stage EXCEPT ![t] = "pending"]
  BY DEF TypeOK, stage, Goto

\* Every step of the monitor is a step of the abstract queue or leaves it alone.
LEMMA StepRefines == IndInv /\ [Next]_vars => [FQ!Next]_(FQ!fifoVars)
<1> SUFFICES ASSUME IndInv, [Next]_vars PROVE [FQ!Next]_(FQ!fifoVars)
  OBVIOUS
<1>0. TypeOK
  BY DEF IndInv
<1>1. ASSUME NEW t \in Threads, NEW b \in Queues, NEW o \in Ops,
             NEW v \in Values \cup {NoVal}, Call(t, b, o, v)
      PROVE  FQ!Next
  <2>1. stage' = [stage EXCEPT ![t] = "pending"] /\ stage[t] = "idle"
    <3>1. pc[t] = "idle" /\ Goto(t, "lock")
      BY <1>1 DEF Call
    <3> QED
      BY <1>0, <3>1, StageOf, StageMoves
  <2>2. FQ!Invoke(t, b, o, v)
    BY <1>1, <2>1 DEF Call, FQ!Invoke
  <2> QED
    BY <2>2 DEF FQ!Next, Ops
<1>2. ASSUME NEW t \in Threads, Lock(t) PROVE UNCHANGED FQ!fifoVars
  <2>1. stage' = [stage EXCEPT ![t] = "pending"] /\ stage[t] = "pending"
    <3>1. pc[t] \in {"lock", "relock"} /\ Goto(t, "locked")
      BY <1>2 DEF Lock
    <3> QED
      BY <1>0, <3>1, StageOf, StageMoves
  <2>2. stage' = stage
    BY <2>1 DEF stage
  <2> QED
    BY <1>2, <2>2 DEF Lock, FQ!fifoVars
<1>3. ASSUME NEW t \in Threads, Push(t) PROVE FQ!Next
  <2>1. stage' = [stage EXCEPT ![t] = "done"] /\ stage[t] = "pending"
    <3>1. pc[t] = "locked" /\ Goto(t, "notify")
      BY <1>3 DEF Push
    <3> QED
      BY <1>0, <3>1, StageOf, StageMoves
  <2>2. FQ!TakeEffect(t)
    BY <1>3, <2>1 DEF Push, FQ!TakeEffect, FQ!Put
  <2> QED
    BY <2>2 DEF FQ!Next
<1>4. ASSUME NEW t \in Threads, NotifyOne(t) PROVE FQ!Next
  <2>1. UNCHANGED <<q_, mtx_, op, on, val>> /\ pc[t] = "notify"
    BY <1>4, NotifyCases
  <2>2. stage[t] = "done"
    BY <1>0, <2>1, StageOf
  <2>3. stage' = [stage EXCEPT ![t] = "idle"]
    <3>1. CASE NobodyWoken(t)
      BY <1>0, <3>1, StageMoves DEF NobodyWoken, Goto
    <3>2. ASSUME NEW w \in Threads, Woken(t, w)
          PROVE  stage' = [stage EXCEPT ![t] = "idle"]
      <4>1. \A u \in Threads : stage'[u] = IF u = t THEN "idle" ELSE stage[u]
        BY <1>0, <3>2 DEF Woken, stage
      <4> QED
        BY <4>1 DEF stage
    <3> QED
      BY <1>4, <3>1, <3>2, NotifyCases
  <2>4. FQ!Return(t)
    BY <2>1, <2>2, <2>3 DEF FQ!Return
  <2> QED
    BY <2>4 DEF FQ!Next
<1>5. ASSUME NEW t \in Threads, Pop(t) PROVE FQ!Next
  <2>1. stage' = [stage EXCEPT ![t] = "done"] /\ stage[t] = "pending"
    <3>1. pc[t] = "locked" /\ Goto(t, "return")
      BY <1>5 DEF Pop
    <3> QED
      BY <1>0, <3>1, StageOf, StageMoves
  <2>2. FQ!TakeEffect(t)
    BY <1>5, <2>1 DEF Pop, FQ!TakeEffect, FQ!Get
  <2> QED
    BY <2>2 DEF FQ!Next
<1>6. ASSUME NEW t \in Threads, Wait(t) PROVE UNCHANGED FQ!fifoVars
  <2>1. stage' = [stage EXCEPT ![t] = "pending"] /\ stage[t] = "pending"
    <3>1. pc[t] = "locked" /\ Goto(t, "wait")
      BY <1>6 DEF Wait
    <3> QED
      BY <1>0, <3>1, StageOf, StageMoves
  <2>2. stage' = stage
    BY <2>1 DEF stage
  <2> QED
    BY <1>6, <2>2 DEF Wait, FQ!fifoVars
<1>7. ASSUME NEW t \in Threads, SpuriousWakeup(t) PROVE UNCHANGED FQ!fifoVars
  <2>1. stage' = [stage EXCEPT ![t] = "pending"] /\ stage[t] = "pending"
    <3>1. pc[t] = "wait" /\ Goto(t, "relock")
      BY <1>7 DEF SpuriousWakeup
    <3> QED
      BY <1>0, <3>1, StageOf, StageMoves
  <2>2. stage' = stage
    BY <2>1 DEF stage
  <2> QED
    BY <1>7, <2>2 DEF SpuriousWakeup, FQ!fifoVars
<1>8. ASSUME NEW t \in Threads, Clear(t) PROVE FQ!Next
  <2>1. stage' = [stage EXCEPT ![t] = "done"] /\ stage[t] = "pending"
    <3>1. pc[t] = "locked" /\ Goto(t, "return")
      BY <1>8 DEF Clear
    <3> QED
      BY <1>0, <3>1, StageOf, StageMoves
  <2>2. FQ!TakeEffect(t)
    BY <1>8, <2>1 DEF Clear, FQ!TakeEffect, FQ!Empty
  <2> QED
    BY <2>2 DEF FQ!Next
<1>9. ASSUME NEW t \in Threads, Return(t) PROVE FQ!Next
  <2>1. stage' = [stage EXCEPT ![t] = "idle"] /\ stage[t] = "done"
    <3>1. pc[t] = "return" /\ Goto(t, "idle")
      BY <1>9 DEF Return
    <3> QED
      BY <1>0, <3>1, StageOf, StageMoves
  <2>2. FQ!Return(t)
    BY <1>9, <2>1 DEF Return, FQ!Return
  <2> QED
    BY <2>2 DEF FQ!Next
<1>10. CASE UNCHANGED vars
  BY <1>10 DEF vars, FQ!fifoVars, stage
<1> QED
  BY <1>1, <1>2, <1>3, <1>4, <1>5, <1>6, <1>7, <1>8, <1>9, <1>10 DEF Next, Step

\* The monitor implements the abstract FIFO queue: each enQ, deQ and clear takes
\* effect at one instant between its call and its return, in one order that all
\* threads agree on.
THEOREM ImplementsFifo == Spec => Linearizable
<1>1. Init => FQ!Init
  BY DEF Init, FQ!Init, stage, Ops
<1> QED
  BY Inductive, <1>1, StepRefines, PTL DEF Spec, Linearizable, FQ!Spec

\* Every deQ of BlockingQueue returns with an element, and no reader sleeps beside
\* one that nobody will notify it of or take, for any number of threads and queues.
THEOREM MonitorIsSafe == Spec => []MonitorSafe
  BY TypeCorrect, WakeupsKept, PTL DEF MonitorSafe

------------------------------------------------------------------------------
(* The printer of XML documents.                                             *)

\* PrinterTypes without the widths of the spacers.
Types == /\ count \in Int
         /\ doing \in [Printers -> {"idle", "inside", "enter", "space", "leave"}]
         /\ reg \in [Printers -> Int]
         /\ spacers \in [Printers -> Seq(Int)]
         /\ left \in [Printers -> 0..MaxElements]
         /\ crashed \in BOOLEAN
         /\ alone \subseteq Printers
         /\ base \in [Printers -> Int]
         /\ overlapped \in BOOLEAN

Depth(t) == Len(spacers[t])

\* The spacers that exist fit into a string.
Fit == \A t \in Printers : \A k \in 1..Depth(t) : SpacerLength(spacers[t][k]) <= MaxLength

\* Whoever prints alone is the only one that prints.
OneAlone == \A t \in alone : Busy = {t}

\* A thread that prints nothing has no open element, and a thread never has more
\* open than it was allowed to print.
Frames == \A t \in Printers :
            /\ doing[t] = "idle" => Depth(t) = 0
            /\ doing[t] = "leave" => Depth(t) > 0
            /\ Depth(t) + left[t] <= MaxElements
            /\ doing[t] \in {"enter", "space"} => Depth(t) + 1 + left[t] <= MaxElements

\* What an undisturbed thread knows of the count.
Position ==
  \A t \in alone :
    /\ doing[t] = "inside" => count = base[t] + Depth(t)
    /\ doing[t] \in {"enter", "leave"} => count = base[t] + Depth(t) /\ reg[t] = count
    /\ doing[t] = "space" => count = base[t] + Depth(t) + 1 /\ reg[t] = count - 1

\* Without overlaps every printing is undisturbed and began at zero.
Quiet == ~overlapped => /\ Busy \subseteq alone
                        /\ \A t \in alone : base[t] = 0
                        /\ Busy = {} => count = 0

IInv == /\ Types /\ Fit /\ OneAlone /\ Frames /\ Position /\ Quiet
        /\ AloneIsEven /\ OnlyOverlapsThrow

------------------------------------------------------------------------------
\* Removing the last spacer keeps the others.
LEMMA Popped ==
  ASSUME NEW s \in Seq(Int), Len(s) > 0
  PROVE  /\ SubSeq(s, 1, Len(s) - 1) \in Seq(Int)
         /\ Len(SubSeq(s, 1, Len(s) - 1)) = Len(s) - 1
         /\ \A k \in 1..(Len(s) - 1) : SubSeq(s, 1, Len(s) - 1)[k] = s[k]
<1> DEFINE n == Len(s) - 1
<1>1. n \in Nat /\ 1 \in Int /\ \A i \in 1..n : s[i] \in Int
  OBVIOUS
<1> HIDE DEF n
<1>2. /\ SubSeq(s, 1, n) \in Seq(Int)
      /\ Len(SubSeq(s, 1, n)) = IF 1 <= n THEN n - 1 + 1 ELSE 0
      /\ \A i \in 1..(n - 1 + 1) : SubSeq(s, 1, n)[i] = s[1 + i - 1]
  BY <1>1, SubSeqProperties
<1>3. Len(SubSeq(s, 1, n)) = n /\ \A k \in 1..n : SubSeq(s, 1, n)[k] = s[k]
  BY <1>1, <1>2
<1> QED
  BY <1>2, <1>3 DEF n

\* A spacer more.
LEMMA Pushed ==
  ASSUME NEW s \in Seq(Int), NEW c \in Int
  PROVE  /\ Append(s, c) \in Seq(Int)
         /\ Len(Append(s, c)) = Len(s) + 1
         /\ \A k \in 1..Len(s) : Append(s, c)[k] = s[k]
         /\ Append(s, c)[Len(s) + 1] = c
  OBVIOUS

LEMMA Initially == PrinterInit => IInv
<1> SUFFICES ASSUME PrinterInit PROVE IInv
  OBVIOUS
<1>1. <<>> \in Seq(Int) /\ Len(<<>>) = 0
  OBVIOUS
<1>2. Types
  <2>1. spacers \in [Printers -> Seq(Int)]
    BY <1>1 DEF PrinterInit
  <2>2. left \in [Printers -> 0..MaxElements]
    BY ElementsAssumption DEF PrinterInit
  <2>3. /\ doing \in [Printers -> {"idle", "inside", "enter", "space", "leave"}]
        /\ reg \in [Printers -> Int] /\ base \in [Printers -> Int]
    BY DEF PrinterInit
  <2>4. crashed \in BOOLEAN /\ overlapped \in BOOLEAN
    BY Zenon DEF PrinterInit
  <2>5. count \in Int /\ alone \subseteq Printers
    BY DEF PrinterInit
  <2> QED
    BY <2>1, <2>2, <2>3, <2>4, <2>5 DEF Types
<1>3. Busy = {} /\ alone = {} /\ count = 0 /\ crashed = FALSE
  BY DEF PrinterInit, Busy
<1>4. \A t \in Printers : Depth(t) = 0 /\ left[t] = MaxElements /\ doing[t] = "idle"
  BY <1>1 DEF PrinterInit, Depth
<1>5. Fit
  BY <1>4 DEF Fit
<1>7. Frames
  <2> SUFFICES ASSUME NEW t \in Printers
               PROVE  /\ doing[t] = "idle" => Depth(t) = 0
                      /\ doing[t] = "leave" => Depth(t) > 0
                      /\ Depth(t) + left[t] <= MaxElements
                      /\ doing[t] \in {"enter", "space"} => Depth(t) + 1 + left[t] <= MaxElements
    BY DEF Frames
  <2> QED
    BY <1>4, ElementsAssumption
<1>6. OneAlone /\ Position /\ Quiet /\ AloneIsEven /\ OnlyOverlapsThrow
  BY <1>3 DEF OneAlone, Position, Quiet, AloneIsEven, OnlyOverlapsThrow
<1> QED
  BY <1>2, <1>5, <1>6, <1>7 DEF IInv

------------------------------------------------------------------------------
\* While somebody prints alone, nobody else does anything but begin.
LEMMA Joined ==
  ASSUME IInv, NEW t \in Printers, doing[t] # "idle", NEW u \in alone
  PROVE  u = t
<1>1. t \in Busy
  BY DEF Busy
<1>2. Busy = {u}
  BY DEF IInv, OneAlone
<1> QED
  BY <1>1, <1>2

\* Begin keeps the invariant: whoever was alone is so no longer.
LEMMA BeginKeeps == ASSUME IInv, NEW t \in Printers, Begin(t) PROVE IInv'
<1>1. Types /\ Fit /\ OneAlone /\ Frames /\ Position /\ Quiet /\ AloneIsEven /\ OnlyOverlapsThrow
  BY DEF IInv
<1>2. /\ doing[t] = "idle" /\ ~crashed /\ doing' = [doing EXCEPT ![t] = "inside"]
      /\ base' = [base EXCEPT ![t] = IF Busy = {} THEN count ELSE 0]
      /\ alone' = IF Busy = {} THEN {t} ELSE {}
      /\ overlapped' = (overlapped \/ Busy # {})
      /\ count' = count /\ reg' = reg /\ spacers' = spacers /\ left' = left /\ crashed' = crashed
  BY DEF Begin, GoOn
<1>3. Types'
  BY <1>1, <1>2 DEF Types
<1>4. \A u \in Printers : Depth(u)' = Depth(u)
  BY <1>2 DEF Depth
<1>5. Fit'
  BY <1>1, <1>2, <1>4 DEF Fit
<1>6. Busy' = Busy \cup {t}
  BY <1>1, <1>2 DEF Busy, Types
<1>7. OneAlone'
  BY <1>2, <1>6 DEF OneAlone
<1>8. Frames'
  BY <1>1, <1>2, <1>4 DEF Frames, Types
<1>9. \A u \in alone' : u = t /\ Depth(u)' = 0 /\ doing'[u] = "inside" /\ base'[u] = count
  BY <1>1, <1>2, <1>4 DEF Frames, Types
<1>10. Position'
  BY <1>1, <1>2, <1>9 DEF Position, Types
<1>11. AloneIsEven'
  BY <1>1, <1>9 DEF AloneIsEven, Depth
<1>12. Quiet'
  BY <1>1, <1>2, <1>6, <1>9 DEF Quiet
<1>13. OnlyOverlapsThrow'
  BY <1>1, <1>2 DEF OnlyOverlapsThrow
<1> QED
  BY <1>3, <1>5, <1>7, <1>8, <1>10, <1>11, <1>12, <1>13 DEF IInv

------------------------------------------------------------------------------
\* The other steps of a thread that prints.
LEMMA LoadToEnterKeeps == ASSUME IInv, NEW t \in Printers, LoadToEnter(t) PROVE IInv'
<1>1. Types /\ Fit /\ OneAlone /\ Frames /\ Position /\ Quiet /\ AloneIsEven /\ OnlyOverlapsThrow
  BY DEF IInv
<1>2. /\ doing[t] = "inside" /\ left[t] > 0 /\ ~crashed
      /\ left' = [left EXCEPT ![t] = @ - 1]
      /\ reg' = [reg EXCEPT ![t] = count]
      /\ doing' = [doing EXCEPT ![t] = "enter"]
      /\ count' = count /\ spacers' = spacers /\ crashed' = crashed
      /\ alone' = alone /\ base' = base /\ overlapped' = overlapped
  BY DEF LoadToEnter, GoOn, history
<1>3. Types'
  <2>1. left[t] - 1 \in 0..MaxElements
    BY <1>1, <1>2, ElementsAssumption DEF Types
  <2> QED
    BY <1>1, <1>2, <2>1 DEF Types
<1>4. \A u \in Printers : Depth(u)' = Depth(u) /\ Depth(u) \in Nat
  BY <1>1, <1>2 DEF Depth, Types
<1>5. Fit'
  BY <1>1, <1>2, <1>4 DEF Fit
<1>6. Busy' = Busy
  BY <1>1, <1>2 DEF Busy, Types
<1>7. OneAlone'
  BY <1>1, <1>2, <1>6 DEF OneAlone
<1>8. Frames'
  BY <1>1, <1>2, <1>4, ElementsAssumption DEF Frames, Types
<1>9. \A u \in alone : u = t
  BY <1>2, Joined
<1>10. Position'
  BY <1>1, <1>2, <1>4, <1>9 DEF Position, Types
<1>11. AloneIsEven'
  BY <1>1, <1>2 DEF AloneIsEven
<1>12. Quiet'
  BY <1>1, <1>2, <1>6 DEF Quiet
<1>13. OnlyOverlapsThrow'
  BY <1>1, <1>2 DEF OnlyOverlapsThrow
<1> QED
  BY <1>3, <1>5, <1>7, <1>8, <1>10, <1>11, <1>12, <1>13 DEF IInv

LEMMA EnterKeeps == ASSUME IInv, NEW t \in Printers, Enter(t) PROVE IInv'
<1>1. Types /\ Fit /\ OneAlone /\ Frames /\ Position /\ Quiet /\ AloneIsEven /\ OnlyOverlapsThrow
  BY DEF IInv
<1>2. /\ doing[t] = "enter" /\ ~crashed
      /\ count' = reg[t] + 1
      /\ doing' = [doing EXCEPT ![t] = "space"]
      /\ left' = left /\ reg' = reg /\ spacers' = spacers /\ crashed' = crashed
      /\ alone' = alone /\ base' = base /\ overlapped' = overlapped
  BY DEF Enter, GoOn, history
<1>3. Types'
  BY <1>1, <1>2 DEF Types
<1>4. \A u \in Printers : Depth(u)' = Depth(u) /\ Depth(u) \in Nat
  BY <1>1, <1>2 DEF Depth, Types
<1>5. Fit'
  BY <1>1, <1>2, <1>4 DEF Fit
<1>6. Busy' = Busy /\ t \in Busy
  BY <1>1, <1>2 DEF Busy, Types
<1>7. OneAlone'
  BY <1>1, <1>2, <1>6 DEF OneAlone
<1>8. Frames'
  BY <1>1, <1>2, <1>4 DEF Frames, Types
<1>9. \A u \in alone : u = t
  BY <1>2, Joined
<1>10. Position'
  BY <1>1, <1>2, <1>4, <1>9 DEF Position, Types
<1>11. AloneIsEven'
  BY <1>1, <1>2 DEF AloneIsEven
<1>12. Quiet'
  BY <1>1, <1>2, <1>6 DEF Quiet
<1>13. OnlyOverlapsThrow'
  BY <1>1, <1>2 DEF OnlyOverlapsThrow
<1> QED
  BY <1>3, <1>5, <1>7, <1>8, <1>10, <1>11, <1>12, <1>13 DEF IInv

\* A printing that nobody joined finds in count what it stored, and by the bound on
\* its elements the spacer fits.
LEMMA SpaceKeeps == ASSUME IInv, NEW t \in Printers, Space(t) PROVE IInv'
<1>1. Types /\ Fit /\ OneAlone /\ Frames /\ Position /\ Quiet /\ AloneIsEven /\ OnlyOverlapsThrow
  BY DEF IInv
<1>2. PICK c \in {reg[t] + 1, count} :
        IF SpacerLength(c) > MaxLength
        THEN crashed' = TRUE /\ UNCHANGED <<doing, reg, spacers>>
        ELSE /\ spacers' = [spacers EXCEPT ![t] = Append(@, c)]
             /\ GoOn(t, "inside") /\ Drop(t)
             /\ UNCHANGED crashed
  BY DEF Space
<1>3. /\ doing[t] = "space" /\ ~crashed
      /\ count' = count /\ left' = left
      /\ alone' = alone /\ base' = base /\ overlapped' = overlapped
  BY DEF Space, history
<1>4. \A u \in alone : u = t
  BY <1>3, Joined
<1>5. c \in Int /\ \A u \in Printers : Depth(u) \in Nat
  BY <1>1 DEF Types, Depth
<1>6. t \in alone => c = base[t] + Depth(t) + 1
  BY <1>1, <1>3, <1>5 DEF Position, Types
<1>7. t \in Busy
  BY <1>3 DEF Busy
<1>8. CASE SpacerLength(c) > MaxLength
  <2>1. crashed' = TRUE /\ doing' = doing /\ reg' = reg /\ spacers' = spacers
    BY <1>2, <1>8
  <2>2. overlapped
    <3> SUFFICES ASSUME ~overlapped PROVE FALSE
      OBVIOUS
    <3>1. t \in alone /\ base[t] = 0
      BY <1>1, <1>7 DEF Quiet
    <3>2. c = Depth(t) + 1
      BY <1>5, <1>6, <3>1
    <3>3. c \in 0..MaxElements
      BY <1>1, <1>3, <1>5, <3>2, ElementsAssumption DEF Frames, Types
    <3>4. SpacerLength(c) <= MaxLength
      BY <3>3, RoomAssumption
    <3>5. SpacerLength(c) \in Int /\ MaxLength \in Int
      BY <1>5, WidthAssumption DEF SpacerLength, tabSize
    <3> QED
      BY <1>8, <3>4, <3>5
  <2>3. Types'
    BY <1>1, <1>3, <2>1 DEF Types
  <2>4. Fit' /\ OneAlone' /\ Frames' /\ Position' /\ Quiet' /\ AloneIsEven'
    BY <1>1, <1>3, <2>1 DEF Fit, OneAlone, Frames, Position, Quiet, AloneIsEven, Depth, Busy
  <2> QED
    BY <1>3, <2>2, <2>3, <2>4 DEF IInv, OnlyOverlapsThrow
<1>9. CASE ~(SpacerLength(c) > MaxLength)
  <2>1. /\ spacers' = [spacers EXCEPT ![t] = Append(@, c)]
        /\ doing' = [doing EXCEPT ![t] = "inside"]
        /\ reg' = [reg EXCEPT ![t] = 0]
        /\ crashed' = crashed
    BY <1>2, <1>9 DEF GoOn, Drop
  <2>2. spacers[t] \in Seq(Int)
    BY <1>1 DEF Types
  <2>3. /\ Append(spacers[t], c) \in Seq(Int)
        /\ Len(Append(spacers[t], c)) = Len(spacers[t]) + 1
        /\ \A k \in 1..Len(spacers[t]) : Append(spacers[t], c)[k] = spacers[t][k]
        /\ Append(spacers[t], c)[Len(spacers[t]) + 1] = c
    BY <1>5, <2>2, Pushed
  <2>4. Types'
    BY <1>1, <1>3, <2>1, <2>3 DEF Types
  <2>5. /\ Depth(t)' = Depth(t) + 1
        /\ \A k \in 1..Depth(t) : spacers'[t][k] = spacers[t][k]
        /\ spacers'[t][Depth(t) + 1] = c
    BY <1>1, <2>1, <2>3 DEF Depth, Types
  <2>6. \A u \in Printers \ {t} : Depth(u)' = Depth(u) /\ spacers'[u] = spacers[u]
    BY <1>1, <2>1 DEF Depth, Types
  <2>7. SpacerLength(c) <= MaxLength
    <3>1. SpacerLength(c) \in Int /\ MaxLength \in Int
      BY <1>5, WidthAssumption DEF SpacerLength, tabSize
    <3> QED
      BY <1>9, <3>1
  <2>8. Fit'
    <3> SUFFICES ASSUME NEW u \in Printers, NEW k \in 1..Depth(u)'
                 PROVE  SpacerLength(spacers'[u][k]) <= MaxLength
      BY DEF Fit
    <3>1. CASE u = t
      <4>1. k \in 1..Depth(t) \/ k = Depth(t) + 1
        BY <1>5, <2>5, <3>1
      <4> QED
        BY <1>1, <2>5, <2>7, <3>1, <4>1 DEF Fit
    <3>2. CASE u # t
      BY <1>1, <2>6, <3>2 DEF Fit
    <3> QED
      BY <3>1, <3>2
  <2>9. Busy' = Busy
    BY <1>1, <1>3, <2>1 DEF Busy, Types
  <2>10. OneAlone' /\ Quiet'
    BY <1>1, <1>3, <2>9 DEF OneAlone, Quiet
  <2>11. Frames'
    BY <1>1, <1>3, <1>5, <2>1, <2>5, <2>6 DEF Frames, Types
  <2>12. Position'
    BY <1>1, <1>3, <1>4, <1>5, <2>1, <2>5 DEF Position, Types
  <2>13. AloneIsEven'
    <3> SUFFICES ASSUME t \in alone, NEW k \in 1..Depth(t)'
                 PROVE  spacers'[t][k] = base[t] + k
      BY <1>3, <1>4 DEF AloneIsEven, Depth
    <3>1. k \in 1..Depth(t) \/ k = Depth(t) + 1
      BY <1>5, <2>5
    <3>2. CASE k \in 1..Depth(t)
      BY <1>1, <2>5, <3>2 DEF AloneIsEven, Depth
    <3>3. CASE k = Depth(t) + 1
      BY <1>1, <1>5, <1>6, <2>5, <3>3 DEF Types
    <3> QED
      BY <3>1, <3>2, <3>3
  <2>14. OnlyOverlapsThrow'
    BY <1>1, <1>3, <2>1 DEF OnlyOverlapsThrow
  <2> QED
    BY <2>4, <2>8, <2>10, <2>11, <2>12, <2>13, <2>14 DEF IInv
<1> QED
  BY <1>8, <1>9

LEMMA LoadToLeaveKeeps == ASSUME IInv, NEW t \in Printers, LoadToLeave(t) PROVE IInv'
<1>1. Types /\ Fit /\ OneAlone /\ Frames /\ Position /\ Quiet /\ AloneIsEven /\ OnlyOverlapsThrow
  BY DEF IInv
<1>2. /\ doing[t] = "inside" /\ spacers[t] # <<>> /\ ~crashed
      /\ reg' = [reg EXCEPT ![t] = count]
      /\ doing' = [doing EXCEPT ![t] = "leave"]
      /\ left' = left /\ count' = count /\ spacers' = spacers /\ crashed' = crashed
      /\ alone' = alone /\ base' = base /\ overlapped' = overlapped
  BY DEF LoadToLeave, GoOn, history
<1>3. Types'
  BY <1>1, <1>2 DEF Types
<1>4. \A u \in Printers : Depth(u)' = Depth(u) /\ Depth(u) \in Nat
  BY <1>1, <1>2 DEF Depth, Types
<1>5. Fit'
  BY <1>1, <1>2, <1>4 DEF Fit
<1>6. Busy' = Busy
  BY <1>1, <1>2 DEF Busy, Types
<1>7. OneAlone'
  BY <1>1, <1>2, <1>6 DEF OneAlone
<1>8. Depth(t) > 0
  <2>1. spacers[t] \in Seq(Int)
    BY <1>1 DEF Types
  <2> QED
    BY <1>2, <2>1, EmptySeq DEF Depth
<1>9. Frames'
  BY <1>1, <1>2, <1>4, <1>8 DEF Frames, Types
<1>10. \A u \in alone : u = t
  BY <1>2, Joined
<1>11. Position'
  BY <1>1, <1>2, <1>4, <1>10 DEF Position, Types
<1>12. AloneIsEven'
  BY <1>1, <1>2 DEF AloneIsEven
<1>13. Quiet' /\ OnlyOverlapsThrow'
  BY <1>1, <1>2, <1>6 DEF Quiet, OnlyOverlapsThrow
<1> QED
  BY <1>3, <1>5, <1>7, <1>9, <1>11, <1>12, <1>13 DEF IInv

LEMMA LeaveKeeps == ASSUME IInv, NEW t \in Printers, Leave(t) PROVE IInv'
<1>1. Types /\ Fit /\ OneAlone /\ Frames /\ Position /\ Quiet /\ AloneIsEven /\ OnlyOverlapsThrow
  BY DEF IInv
<1>2. /\ doing[t] = "leave" /\ ~crashed
      /\ count' = reg[t] - 1
      /\ spacers' = [spacers EXCEPT ![t] = SubSeq(spacers[t], 1, Len(spacers[t]) - 1)]
      /\ doing' = [doing EXCEPT ![t] = "inside"]
      /\ reg' = [reg EXCEPT ![t] = 0]
      /\ left' = left /\ crashed' = crashed
      /\ alone' = alone /\ base' = base /\ overlapped' = overlapped
  BY DEF Leave, GoOn, Drop, history
<1>3. \A u \in Printers : Depth(u) \in Nat
  BY <1>1 DEF Depth, Types
<1>4. Depth(t) > 0
  BY <1>1, <1>2 DEF Frames
<1>5. spacers[t] \in Seq(Int) /\ Len(spacers[t]) > 0
  BY <1>1, <1>4 DEF Types, Depth
<1>6. /\ SubSeq(spacers[t], 1, Len(spacers[t]) - 1) \in Seq(Int)
      /\ Len(SubSeq(spacers[t], 1, Len(spacers[t]) - 1)) = Len(spacers[t]) - 1
      /\ \A k \in 1..(Len(spacers[t]) - 1) :
           SubSeq(spacers[t], 1, Len(spacers[t]) - 1)[k] = spacers[t][k]
  BY <1>5, Popped
<1>7. Types'
  BY <1>1, <1>2, <1>6 DEF Types
<1>8. /\ Depth(t)' = Depth(t) - 1
      /\ \A k \in 1..(Depth(t) - 1) : spacers'[t][k] = spacers[t][k]
  BY <1>1, <1>2, <1>6 DEF Depth, Types
<1>9. \A u \in Printers \ {t} : Depth(u)' = Depth(u) /\ spacers'[u] = spacers[u]
  BY <1>1, <1>2 DEF Depth, Types
<1>10. Fit'
  <2> SUFFICES ASSUME NEW u \in Printers, NEW k \in 1..Depth(u)'
               PROVE  SpacerLength(spacers'[u][k]) <= MaxLength
    BY DEF Fit
  <2>1. k \in 1..Depth(u) /\ spacers'[u][k] = spacers[u][k]
    BY <1>3, <1>4, <1>8, <1>9
  <2> QED
    BY <1>1, <2>1 DEF Fit
<1>11. Busy' = Busy
  BY <1>1, <1>2 DEF Busy, Types
<1>12. OneAlone' /\ Quiet' /\ OnlyOverlapsThrow'
  <2>1. t \in Busy
    BY <1>2 DEF Busy
  <2> QED
    BY <1>1, <1>2, <1>11, <2>1 DEF OneAlone, Quiet, OnlyOverlapsThrow
<1>13. Frames'
  <2>1. left[t] \in Int /\ MaxElements \in Int /\ Depth(t) + left[t] <= MaxElements
    BY <1>1, ElementsAssumption DEF Types, Frames
  <2>2. Depth(t)' + left[t] <= MaxElements
    BY <1>3, <1>8, <2>1
  <2>3. doing'[t] = "inside" /\ \A u \in Printers \ {t} : doing'[u] = doing[u]
    BY <1>1, <1>2 DEF Types
  <2> QED
    BY <1>1, <1>2, <1>9, <2>2, <2>3 DEF Frames
<1>14. \A u \in alone : u = t
  BY <1>2, Joined
<1>15. Position'
  BY <1>1, <1>2, <1>3, <1>8, <1>14 DEF Position, Types
<1>16. AloneIsEven'
  <2> SUFFICES ASSUME t \in alone, NEW k \in 1..Depth(t)'
               PROVE  spacers'[t][k] = base[t] + k
    BY <1>2, <1>14 DEF AloneIsEven, Depth
  <2>1. k \in 1..Depth(t) /\ spacers'[t][k] = spacers[t][k]
    BY <1>3, <1>4, <1>8
  <2> QED
    BY <1>1, <2>1 DEF AloneIsEven, Depth
<1> QED
  BY <1>7, <1>10, <1>12, <1>13, <1>15, <1>16 DEF IInv

\* When a printing ends that nobody joined, Position says that the count is what it
\* was at the beginning.
LEMMA FinishKeeps == ASSUME IInv, NEW t \in Printers, Finish(t) PROVE IInv'
<1>1. Types /\ Fit /\ OneAlone /\ Frames /\ Position /\ Quiet /\ AloneIsEven /\ OnlyOverlapsThrow
  BY DEF IInv
<1>2. /\ doing[t] = "inside" /\ spacers[t] = <<>> /\ ~crashed
      /\ doing' = [doing EXCEPT ![t] = "idle"]
      /\ alone' = alone \ {t}
      /\ reg' = reg /\ left' = left /\ count' = count /\ spacers' = spacers
      /\ crashed' = crashed /\ base' = base /\ overlapped' = overlapped
  BY DEF Finish, GoOn
<1>3. Types'
  BY <1>1, <1>2 DEF Types
<1>4. \A u \in Printers : Depth(u)' = Depth(u) /\ Depth(u) \in Nat
  BY <1>1, <1>2 DEF Depth, Types
<1>5. Fit'
  BY <1>1, <1>2, <1>4 DEF Fit
<1>6. Busy' = Busy \ {t} /\ t \in Busy
  BY <1>1, <1>2 DEF Busy, Types
<1>7. Depth(t) = 0
  <2>1. Len(<<>>) = 0
    OBVIOUS
  <2> QED
    BY <1>2, <2>1 DEF Depth
<1>8. Frames'
  BY <1>1, <1>2, <1>4, <1>7 DEF Frames, Types
<1>9. \A u \in alone : u = t
  BY <1>2, Joined
<1>10. alone' = {}
  BY <1>2, <1>9
<1>11. OneAlone' /\ Position' /\ AloneIsEven'
  BY <1>10 DEF OneAlone, Position, AloneIsEven
<1>12. Quiet'
  <2> SUFFICES ASSUME ~overlapped PROVE Busy' = {} /\ count = 0
    BY <1>2, <1>10 DEF Quiet
  <2>1. t \in alone /\ base[t] = 0 /\ Busy = {t}
    BY <1>1, <1>6 DEF Quiet, OneAlone
  <2>2. count = 0
    BY <1>1, <1>2, <1>7, <2>1 DEF Position
  <2> QED
    BY <1>6, <2>1, <2>2
<1>13. OnlyOverlapsThrow'
  BY <1>1, <1>2 DEF OnlyOverlapsThrow
<1> QED
  BY <1>3, <1>5, <1>8, <1>11, <1>12, <1>13 DEF IInv

------------------------------------------------------------------------------
THEOREM Invariance == PrinterSpec => []IInv
<1>1. IInv /\ [PrinterNext]_printerVars => IInv'
  <2> SUFFICES ASSUME IInv, [PrinterNext]_printerVars PROVE IInv'
    OBVIOUS
  <2>1. CASE UNCHANGED printerVars
    BY <2>1 DEF printerVars, IInv, Types, Fit, OneAlone, Frames, Position, Quiet, AloneIsEven,
                OnlyOverlapsThrow, Depth, Busy
  <2>2. ASSUME NEW t \in Printers, PrintOut(t) PROVE IInv'
    BY <2>2, BeginKeeps, LoadToEnterKeeps, EnterKeeps, SpaceKeeps, LoadToLeaveKeeps, LeaveKeeps,
       FinishKeeps DEF PrintOut
  <2> QED
    BY <2>1, <2>2 DEF PrinterNext
<1> QED
  BY <1>1, Initially, PTL DEF PrinterSpec

\* The types hold, and no spacer exists that is longer than a string may be.
THEOREM PrinterTypeCorrect == PrinterSpec => []PrinterTypes
<1>1. IInv => PrinterTypes
  BY DEF IInv, Types, Fit, Depth, PrinterTypes
<1> QED
  BY <1>1, Invariance, PTL

\* A printing that nobody joins indents evenly, whatever the count was.
THEOREM EvenAlone == PrinterSpec => []AloneIsEven
<1>1. IInv => AloneIsEven
  BY DEF IInv
<1> QED
  BY <1>1, Invariance, PTL

\* It leaves the count as it found it: the count drifts by overlaps only.
THEOREM RestoredAlone == PrinterSpec => []AloneRestores
<1>1. IInv => AloneRestores
  <2> SUFFICES ASSUME IInv, NEW t \in alone, doing[t] = "inside", spacers[t] = <<>>
               PROVE  count = base[t]
    BY DEF AloneRestores
  <2>1. Depth(t) = 0
    <3>1. Len(<<>>) = 0
      OBVIOUS
    <3> QED
      BY <3>1 DEF Depth
  <2>2. base[t] \in Int /\ count = base[t] + Depth(t)
    BY DEF IInv, Types, Position
  <2> QED
    BY <2>1, <2>2
<1> QED
  BY <1>1, Invariance, PTL

\* Until printings overlap, documents are indented by depth from zero.
THEOREM DepthsUntilOverlap == PrinterSpec => []DepthUntilOverlap
<1>1. IInv => DepthUntilOverlap
  <2> SUFFICES ASSUME IInv, ~overlapped
               PROVE  /\ \A t \in Printers : \A k \in 1..Len(spacers[t]) : spacers[t][k] = k
                      /\ Busy = {} => count = 0
    BY DEF DepthUntilOverlap
  <2>1. Busy = {} => count = 0
    BY DEF IInv, Quiet
  <2>2. ASSUME NEW t \in Printers, NEW k \in 1..Len(spacers[t]) PROVE spacers[t][k] = k
    <3>1. Len(spacers[t]) \in Nat
      BY DEF IInv, Types
    <3>2. t \in Busy
      BY <2>2, <3>1 DEF IInv, Frames, Depth, Busy
    <3>3. t \in alone /\ base[t] = 0
      BY <3>2 DEF IInv, Quiet
    <3> QED
      BY <2>2, <3>1, <3>3 DEF IInv, AloneIsEven
  <2> QED
    BY <2>1, <2>2
<1> QED
  BY <1>1, Invariance, PTL

\* Only overlapping printings can make the spacer that ends the server.
THEOREM ThrowsAreOverlaps == PrinterSpec => []OnlyOverlapsThrow
<1>1. IInv => OnlyOverlapsThrow
  BY DEF IInv
<1> QED
  BY <1>1, Invariance, PTL

\* A toString that no other thread's joins is even and leaves the count alone.
THEOREM CleanAlone == PrinterSpec => []AloneIsClean
  BY EvenAlone, RestoredAlone, PTL DEF AloneIsClean

\* Only overlapping calls of toString spoil the count or throw.
THEOREM OnlyOverlapsSpoil == PrinterSpec => []OverlapsSpoil
  BY PrinterTypeCorrect, DepthsUntilOverlap, ThrowsAreOverlaps, PTL DEF OverlapsSpoil
==============================================================================
