-------------------------- MODULE ListenerLog_proof --------------------------
(***************************************************************************)
(* Proofs about SocketListener and about Logger under a listener, for any   *)
(* peers, any addresses of localhost and any bounds.                        *)
(*                                                                         *)
(* Connections: before the socket listens there are none (Unused); after    *)
(* that what was handed on, is held and waits is what was made.  After stop  *)
(* the listen thread can pass accept once and then meets its test (OneMore). *)
(*                                                                         *)
(* Texts: what a thread has printed, has queued and is about to queue is in  *)
(* the order of its writing (InOrder), and only "quit", which is queued      *)
(* once and last of its writer, stands between what is due and what waits    *)
(* for the next start (QuitLast, DuePrinted).                                *)
(***************************************************************************)
EXTENDS ListenerLog, TLAPS

------------------------------------------------------------------------------
(* Sequences.                                                                *)

\* A sequence is a prefix of itself, and what it was put together from is a prefix
\* of what it is a prefix of.
LEMMA PrefixKept ==
  ASSUME NEW S
  PROVE  /\ \A s \in Seq(S) : IsPrefix(s, s)
         /\ \A s, t, u \in Seq(S) : IsPrefix(s \o t, u) => IsPrefix(s, u)
<1>1. ASSUME NEW s \in Seq(S) PROVE IsPrefix(s, s)
  BY DEF IsPrefix
<1>2. ASSUME NEW s \in Seq(S), NEW t \in Seq(S), NEW u \in Seq(S), IsPrefix(s \o t, u)
      PROVE  IsPrefix(s, u)
  <2>1. /\ Len(s \o t) <= Len(u) /\ Len(s \o t) = Len(s) + Len(t)
        /\ SubSeq(s \o t, 1, Len(s \o t)) = SubSeq(u, 1, Len(s \o t))
    BY <1>2 DEF IsPrefix
  <2>2. Len(s) \in Nat /\ Len(t) \in Nat /\ Len(u) \in Nat /\ Len(s) <= Len(u)
    BY <2>1
  <2>3. \A i \in 1..Len(s) : /\ SubSeq(s \o t, 1, Len(s \o t))[i] = s[i]
                             /\ SubSeq(u, 1, Len(s \o t))[i] = u[i]
    BY <2>1, <2>2
  <2>4. \A i \in 1..Len(s) : s[i] = u[i]
    BY <2>1, <2>3
  <2>5. SubSeq(s, 1, Len(s)) = SubSeq(u, 1, Len(s))
    BY <2>2, <2>4
  <2> QED
    BY <2>2, <2>5 DEF IsPrefix
<1> QED
  BY <1>1, <1>2

\* What accepting, handing on and connecting do to the order of the connections.
LEMMA Moves ==
  ASSUME NEW S
  PROVE  /\ \A h, b \in Seq(S) : b # <<>> => /\ Head(b) \in S /\ Tail(b) \in Seq(S)
                                             /\ Len(Tail(b)) = Len(b) - 1
                                             /\ (h \o <<Head(b)>>) \o Tail(b) = (h \o <<>>) \o b
         /\ \A h, b \in Seq(S) : (h \o <<>>) \o b = h \o b /\ h \o b \in Seq(S)
         /\ \A h, b \in Seq(S) : \A p \in S : h \o Append(b, p) = Append(h \o b, p)
<1>1. ASSUME NEW h \in Seq(S), NEW b \in Seq(S), b # <<>>
      PROVE  /\ Head(b) \in S /\ Tail(b) \in Seq(S) /\ Len(Tail(b)) = Len(b) - 1
             /\ (h \o <<Head(b)>>) \o Tail(b) = (h \o <<>>) \o b
  BY <1>1
<1> QED
  BY SMTT(30), <1>1

------------------------------------------------------------------------------
(* The listener.                                                             *)

\* Until it listens, nothing has come and no thread accepts.
Unused == main \in {"bind", "listen"} =>
            /\ socket # "listening" /\ thread = "none" /\ clientSocket = <<>>
            /\ handlers = <<>> /\ backlog = <<>> /\ made = <<>>

\* A connection accepted after stop is the last: the thread does not come back to accept.
OneMore == memory = "alive" => /\ ~stop => late = 0
                               /\ late > 0 => late = 1 /\ thread # "accept"

Listening == TypeOK /\ Unused /\ EachOnce /\ OneMore

\* At the start there is no socket and no connection.
LEMMA ListeningInit == Init => Listening
<1> SUFFICES ASSUME Init PROVE Listening
  OBVIOUS
<1> USE DEF Init
<1>1. 1 \in 1..(Len(Families) + 1)
  BY FamiliesAssumption
<1>2. TypeOK
  <2>1. Len(<<>>) = 0 /\ <<>> \in Seq(Peers) /\ 0 <= MaxBacklog
    BY BacklogAssumption
  <2>2. /\ address \in [Peers -> 1..(Len(Families) + 1)]
        /\ peer \in [Peers -> {"try", "retry", "connected"}]
    BY <1>1
  <2>3. Len(backlog) <= MaxBacklog /\ Len(clientSocket) <= 1
    BY <2>1
  <2> QED
    BY <2>1, <2>2, <2>3 DEF TypeOK
<1>3. EachOnce
  <2>1. Taken \o backlog = <<>> /\ <<>> \in Seq(Peers)
    BY DEF Taken
  <2> QED
    BY <2>1, PrefixKept DEF EachOnce
<1> QED
  BY <1>2, <1>3 DEF Listening, Unused, OneMore

\* Every step keeps the types.
LEMMA ListeningTypes == Listening /\ [Next]_vars => TypeOK'
<1> SUFFICES ASSUME Listening, [Next]_vars PROVE TypeOK'
  OBVIOUS
<1>0. TypeOK /\ Unused
  BY DEF Listening
<1> USE DEF TypeOK, connecting
<1>1. CASE Bind
  BY <1>0, <1>1 DEF Bind
<1>2. CASE Listen
  BY <1>0, <1>2 DEF Listen, Unused
<1>3. CASE Destroy
  BY <1>0, <1>3, BacklogAssumption DEF Destroy
<1>4. CASE ReturnFromReceiver \/ ExitProcess \/ Stop
  BY <1>0, <1>4 DEF ReturnFromReceiver, ExitProcess, Stop
<1>5. CASE ListenThread
  <2>1. CASE Crash
    BY <1>0, <2>1 DEF Crash
  <2>2. CASE TestFailed \/ TestStop
    BY <1>0, <2>2 DEF TestFailed, TestStop
  <2>3. CASE Accept
    <3>1. Head(backlog) \in Peers /\ Tail(backlog) \in Seq(Peers) /\ Len(Tail(backlog)) <= MaxBacklog
      BY <1>0, <2>3, Moves, BacklogAssumption DEF Accept
    <3>2. <<Head(backlog)>> \in Seq(Peers) /\ Len(<<Head(backlog)>>) = 1 /\ <<Head(backlog)>> # <<>>
      BY <3>1
    <3> QED
      BY <1>0, <2>3, <3>1, <3>2 DEF Accept
  <2>4. CASE FailAccept
    BY <1>0, <2>4 DEF FailAccept
  <2>5. CASE Handle
    <3>1. handlers \o clientSocket \in Seq(Peers)
      BY <1>0
    <3> QED
      BY <1>0, <2>5, <3>1 DEF Handle
  <2> QED
    BY <1>5, <2>1, <2>2, <2>3, <2>4, <2>5 DEF ListenThread
<1>6. ASSUME NEW p \in Peers, Connect(p) PROVE TypeOK'
  <2>1. CASE TryAddress(p)
    <3>1. Len(backlog) < MaxBacklog => Append(backlog, p) \in Seq(Peers) /\ Len(Append(backlog, p)) <= MaxBacklog
      BY <1>0, BacklogAssumption
    <3>2. Append(made, p) \in Seq(Peers)
      BY <1>0
    <3>3. Len(Families) \in Nat
      BY FamiliesAssumption
    <3>4. CASE Accessible(p)
      BY <1>0, <2>1, <3>1, <3>2, <3>4 DEF TryAddress, Accessible
    <3>5. CASE ~Accessible(p)
      <4>1. address' \in [Peers -> 1..(Len(Families) + 1)]
        <5>1. address[p] \in 1..(Len(Families) + 1) /\ address[p] <= Len(Families)
          BY <1>0, <2>1 DEF TryAddress
        <5>2. address[p] + 1 \in 1..(Len(Families) + 1)
          BY <3>3, <5>1
        <5> QED
          BY <1>0, <2>1, <3>5, <5>2 DEF TryAddress
      <4> QED
        BY <1>0, <2>1, <3>5, <4>1 DEF TryAddress
    <3> QED
      BY <3>4, <3>5
  <2>2. CASE NoAddress(p)
    BY <1>0, <2>2 DEF NoAddress
  <2>3. CASE Retry(p)
    <3>1. 1 \in 1..(Len(Families) + 1)
      BY FamiliesAssumption
    <3> QED
      BY <1>0, <2>3, <3>1 DEF Retry
  <2> QED
    BY <1>6, <2>1, <2>2, <2>3 DEF Connect
<1>7. CASE UNCHANGED vars
  BY <1>0, <1>7 DEF vars
<1> QED
  BY <1>1, <1>2, <1>3, <1>4, <1>5, <1>6, <1>7 DEF Next

\* Every step keeps the connections in their order and loses none while the process
\* listens.
LEMMA ListeningOrder == Listening /\ [Next]_vars => EachOnce'
<1> SUFFICES ASSUME Listening, [Next]_vars PROVE EachOnce'
  OBVIOUS
<1>0. /\ clientSocket \in Seq(Peers) /\ handlers \in Seq(Peers) /\ backlog \in Seq(Peers) /\ made \in Seq(Peers)
      /\ Taken \in Seq(Peers) /\ Taken \o backlog \in Seq(Peers)
  BY DEF Listening, TypeOK, Taken
<1>1. /\ IsPrefix(Taken \o backlog, made)
      /\ socket = "listening" => Taken \o backlog = made
  BY DEF Listening, EachOnce
<1> USE DEF connecting
<1>2. ASSUME Taken' \o backlog' = Taken \o backlog, made' = made,
             socket' = "listening" => socket = "listening" \/ Taken \o backlog = made
      PROVE  EachOnce'
  BY <1>1, <1>2 DEF EachOnce
<1>3. ASSUME UNCHANGED <<handlers, clientSocket, backlog>> PROVE Taken' \o backlog' = Taken \o backlog
  BY <1>3 DEF Taken
<1>4. CASE Bind
  BY <1>2, <1>3, <1>4 DEF Bind
<1>5. CASE Listen
  <2>1. Taken \o backlog = made
    BY <1>5 DEF Listen, Listening, Unused, Taken
  <2> QED
    BY <1>2, <1>3, <1>5, <2>1 DEF Listen
<1>6. CASE Destroy
  <2>1. Taken' \o backlog' = Taken
    BY <1>0, <1>6 DEF Destroy, Taken
  <2>2. IsPrefix(Taken, made)
    BY <1>0, <1>1, PrefixKept
  <2> QED
    BY <1>6, <2>1, <2>2 DEF Destroy, EachOnce
<1>7. CASE ReturnFromReceiver \/ ExitProcess \/ Stop \/ Crash \/ TestFailed \/ TestStop \/ FailAccept
  BY <1>2, <1>3, <1>7 DEF ReturnFromReceiver, ExitProcess, Stop, Crash, TestFailed, TestStop, FailAccept
<1>8. CASE Accept
  <2>1. clientSocket = <<>> /\ backlog # <<>>
    BY <1>8 DEF Accept, Listening, TypeOK
  <2>2. Taken' \o backlog' = (handlers \o <<Head(backlog)>>) \o Tail(backlog)
    BY <1>8 DEF Accept, Taken
  <2>3. Taken' \o backlog' = Taken \o backlog
    BY <1>0, <2>1, <2>2, Moves DEF Taken
  <2> QED
    BY <1>2, <1>8, <2>3 DEF Accept
<1>9. CASE Handle
  <2>1. Taken' \o backlog' = Taken \o backlog
    <3>1. Taken' = (handlers \o clientSocket) \o <<>> /\ backlog' = backlog
      BY <1>9 DEF Handle, Taken
    <3>2. (handlers \o clientSocket) \o <<>> = handlers \o clientSocket
      BY <1>0
    <3> QED
      BY <3>1, <3>2 DEF Taken
  <2> QED
    BY <1>2, <1>9, <2>1 DEF Handle
<1>10. ASSUME NEW p \in Peers, Connect(p) PROVE EachOnce'
  <2>1. CASE TryAddress(p) /\ Accessible(p)
    <3>1. /\ backlog' = Append(backlog, p) /\ made' = Append(made, p) /\ socket = "listening"
          /\ UNCHANGED <<handlers, clientSocket>>
      BY <2>1 DEF TryAddress, Accessible
    <3>2. Taken' = Taken
      BY <3>1 DEF Taken
    <3>3. Taken \o Append(backlog, p) = Append(Taken \o backlog, p)
      BY <1>0, Moves
    <3>4. Taken' \o backlog' = made'
      BY <1>1, <3>1, <3>2, <3>3
    <3>5. made' \in Seq(Peers)
      BY <1>0, <3>1
    <3> QED
      BY <3>4, <3>5, PrefixKept DEF EachOnce
  <2>2. CASE (TryAddress(p) /\ ~Accessible(p)) \/ NoAddress(p) \/ Retry(p)
    BY <1>2, <1>3, <2>2 DEF TryAddress, NoAddress, Retry
  <2> QED
    BY <1>10, <2>1, <2>2 DEF Connect
<1>11. CASE UNCHANGED vars
  BY <1>2, <1>3, <1>11 DEF vars
<1> QED
  BY <1>4, <1>5, <1>6, <1>7, <1>8, <1>9, <1>10, <1>11 DEF Next, ListenThread

\* Every step keeps what is true before the socket listens and after stop.
LEMMA ListeningStop == Listening /\ [Next]_vars => Unused' /\ OneMore'
<1> SUFFICES ASSUME Listening, [Next]_vars PROVE Unused' /\ OneMore'
  OBVIOUS
<1>0. Unused /\ OneMore /\ late \in Nat /\ stop \in BOOLEAN
  BY DEF Listening, TypeOK
<1> USE DEF Unused, OneMore, connecting
<1>1. CASE Bind \/ Listen
  BY <1>0, <1>1 DEF Bind, Listen
<1>2. CASE Destroy \/ ReturnFromReceiver \/ ExitProcess \/ Stop
  BY <1>0, <1>2 DEF Destroy, ReturnFromReceiver, ExitProcess, Stop
<1>3. CASE Crash \/ TestFailed \/ FailAccept \/ Handle
  BY <1>0, <1>3 DEF Crash, TestFailed, FailAccept, Handle
<1>4. CASE TestStop
  BY <1>0, <1>4 DEF TestStop, Seen
<1>5. CASE Accept
  BY <1>0, <1>5 DEF Accept
<1>6. ASSUME NEW p \in Peers, Connect(p) PROVE Unused' /\ OneMore'
  BY <1>0, <1>6 DEF Connect, TryAddress, NoAddress, Retry, Accessible
<1>7. CASE UNCHANGED vars
  BY <1>0, <1>7 DEF vars
<1> QED
  BY <1>1, <1>2, <1>3, <1>4, <1>5, <1>6, <1>7 DEF Next, ListenThread

\* What Listening gives.
LEMMA ListeningKeeps == Listening => ConnectionsKept
BY DEF Listening, ConnectionsKept, OneMore, StopTakesOneMore, TypeOK

\* For any number of connecters and any backlog, no connection is lost, doubled or
\* overtaken while the process listens, and stop lets one more through at most.
THEOREM ConnectionsAlwaysKept == Spec => []ConnectionsKept
<1>1. Listening /\ [Next]_vars => Listening'
  BY ListeningTypes, ListeningOrder, ListeningStop DEF Listening
<1> QED
  BY <1>1, ListeningInit, ListeningKeeps, PTL DEF Spec

------------------------------------------------------------------------------
(* The logger.                                                               *)

Threads == {"main", "listen"}
Texts == [by : Threads, n : Nat]
Quit == Log!Quit

\* A step of the logger, of its queue or of a thread that writes.
LogNext == Log!Step \/ (\E w \in Threads : Log!Write(w)) \/ UNCHANGED logVars

\* A thread is about to enqueue nothing, or the text it has written last.
LogTypes == /\ {running, looping, stopping} \subseteq BOOLEAN
            /\ texts \in Seq(Texts) /\ printed \in Seq(Texts)
            /\ written \in [Threads -> Nat] /\ writing \in [Threads -> Seq(Texts)]
            /\ \A w \in Threads : writing[w] = <<>> \/ (written[w] > 0 /\ writing[w] = <<[by |-> w, n |-> written[w]]>>)

\* t was written before what its thread is about to enqueue.
Earlier(t) == t.n > 0 /\ t.n <= written[t.by] /\ (writing[t.by] # <<>> => t.n < written[t.by])

InOrder ==
  /\ \A i \in DOMAIN printed : Earlier(printed[i])
  /\ \A i \in DOMAIN texts : texts[i] = Quit \/ Earlier(texts[i])
  /\ \A i, j \in DOMAIN printed : i < j /\ printed[i].by = printed[j].by => printed[i].n < printed[j].n
  /\ \A i \in DOMAIN printed : \A j \in DOMAIN texts :
       texts[j] # Quit /\ printed[i].by = texts[j].by => printed[i].n < texts[j].n
  /\ \A i, j \in DOMAIN texts :
       i < j /\ texts[i] # Quit /\ texts[j] # Quit /\ texts[i].by = texts[j].by => texts[i].n < texts[j].n

\* "quit" is queued while the owner waits in stop, and the owner writes nothing then;
\* when the logger does not run, nothing of its owner is queued.
QuitLast ==
  /\ looping = running
  /\ stopping => writing["main"] = <<>>
  /\ \A i \in DOMAIN texts : texts[i] = Quit =>
       stopping /\ running /\ \A j \in DOMAIN texts : i < j => texts[j].by # "main"
  /\ ~running => writing["main"] = <<>> /\ \A i \in DOMAIN texts : texts[i].by # "main"

Printed(t) == \E i \in DOMAIN printed : printed[i] = t
BeforeQuit(t) == \E i \in DOMAIN texts : texts[i] = t /\ \A j \in 1..i : texts[j] # Quit

\* What was queued when stop was called is printed, or will be before the end.
DuePrinted == \A t \in due : Printed(t) \/ (stopping /\ running /\ BeforeQuit(t))

Logged == LogTypes /\ InOrder /\ QuitLast /\ DuePrinted

\* Nothing is written at the start.
LEMMA LoggedAtStart == Log!Init => Logged
<1> SUFFICES ASSUME Log!Init PROVE Logged
  OBVIOUS
<1> USE DEF Log!Init
<1>1. LogTypes
  <2>1. {running, looping, stopping} \subseteq BOOLEAN
    BY Zenon
  <2>2. /\ texts \in Seq(Texts) /\ printed \in Seq(Texts)
        /\ written \in [Threads -> Nat] /\ writing \in [Threads -> Seq(Texts)]
        /\ \A w \in Threads : writing[w] = <<>>
    BY DEF Threads
  <2> QED
    BY <2>1, <2>2 DEF LogTypes
<1>2. InOrder /\ DuePrinted
  BY DEF InOrder, DuePrinted
<1>3. QuitLast
  <2>1. looping = running /\ ~stopping
    BY Zenon
  <2>2. DOMAIN texts = {} /\ writing["main"] = <<>>
    BY DEF Threads
  <2> QED
    BY <2>1, <2>2 DEF QuitLast
<1> QED
  BY <1>1, <1>2, <1>3 DEF Logged

\* The steps, by what they do to the texts that wait and those printed: nothing, a
\* text more at the end, or the first one taken away.
LEMMA LogMoves ==
  ASSUME Logged, LogNext
  PROVE  \/ UNCHANGED <<texts, printed>>
         \/ /\ UNCHANGED printed
            /\ \/ \E w \in Threads : /\ Log!EnQ(w) /\ writing[w] = <<[by |-> w, n |-> written[w]]>>
                                     /\ texts' = Append(texts, [by |-> w, n |-> written[w]])
               \/ Log!Stop /\ texts' = Append(texts, Quit)
         \/ /\ texts # <<>> /\ texts' = Tail(texts)
            /\ \/ Log!WriteOut /\ Head(texts) # Quit /\ printed' = Append(printed, Head(texts))
               \/ Log!End /\ Head(texts) = Quit /\ UNCHANGED printed
<1>0. LogTypes
  BY DEF Logged
<1>1. ASSUME NEW w \in Threads, Log!EnQ(w)
      PROVE  /\ UNCHANGED printed /\ writing[w] = <<[by |-> w, n |-> written[w]]>>
             /\ texts' = Append(texts, [by |-> w, n |-> written[w]])
  <2>1. writing[w] = <<[by |-> w, n |-> written[w]]>> /\ texts' = texts \o writing[w] /\ UNCHANGED printed
    BY <1>0, <1>1 DEF LogTypes, Log!EnQ
  <2>2. texts \in Seq(Texts) /\ [by |-> w, n |-> written[w]] \in Texts
    BY <1>0 DEF LogTypes, Texts
  <2>3. \A s \in Seq(Texts) : \A t \in Texts : s \o <<t>> = Append(s, t)
    OBVIOUS
  <2> QED
    BY <2>1, <2>2, <2>3
<1>2. ASSUME (\E w \in Threads : Log!Write(w)) \/ Log!Start \/ Log!StopReturns \/ UNCHANGED logVars
      PROVE  UNCHANGED <<texts, printed>>
  BY <1>2 DEF Log!Write, Log!Start, Log!StopReturns, logVars
<1>3. ASSUME Log!Stop PROVE UNCHANGED printed /\ texts' = Append(texts, Quit)
  BY <1>3 DEF Log!Stop, Quit
<1>4. ASSUME Log!WriteOut
      PROVE  texts # <<>> /\ texts' = Tail(texts) /\ Head(texts) # Quit /\ printed' = Append(printed, Head(texts))
  BY <1>4 DEF Log!WriteOut, Quit
<1>5. ASSUME Log!End PROVE texts # <<>> /\ texts' = Tail(texts) /\ Head(texts) = Quit /\ UNCHANGED printed
  BY <1>5 DEF Log!End, Quit
<1> QED
  BY <1>1, <1>2, <1>3, <1>4, <1>5 DEF LogNext, Log!Step, Threads

\* A text that was written before the next one of its thread stays so.
LEMMA EarlierKept ==
  ASSUME Logged, LogNext
  PROVE  /\ \A t \in Texts : Earlier(t) => Earlier(t)'
         /\ \A w \in Threads : Log!EnQ(w) => LET t == [by |-> w, n |-> written[w]] IN
              /\ t \in Texts /\ t # Quit /\ t.n > 0 /\ t.n <= written'[w] /\ writing'[w] = <<>>
              /\ \A u \in Texts : Earlier(u) /\ u.by = w => u.n < t.n
<1>0. LogTypes
  BY DEF Logged
<1>1. ASSUME NEW t \in Texts, Earlier(t) PROVE Earlier(t)'
  <2>0. t.by \in Threads /\ t.n \in Nat
    BY DEF Texts
  <2>1. ASSUME NEW w \in Threads, Log!Write(w) PROVE Earlier(t)'
    <3>1. /\ written' = [written EXCEPT ![w] = @ + 1]
          /\ \A v \in Threads : v # w => writing'[v] = writing[v]
      BY <1>0, <2>1 DEF Log!Write, LogTypes
    <3>2. CASE t.by = w
      <4>1. written'[w] = written[w] + 1 /\ written[w] \in Nat
        BY <1>0, <3>1 DEF LogTypes
      <4> QED
        BY <1>1, <2>0, <3>2, <4>1 DEF Earlier
    <3>3. CASE t.by # w
      <4>1. written'[t.by] = written[t.by] /\ writing'[t.by] = writing[t.by]
        BY <1>0, <2>0, <3>1, <3>3 DEF LogTypes
      <4> QED
        BY <1>1, <4>1 DEF Earlier
    <3> QED
      BY <3>2, <3>3
  <2>2. ASSUME NEW w \in Threads, Log!EnQ(w) PROVE Earlier(t)'
    <3>1. written' = written /\ (writing'[t.by] = writing[t.by] \/ writing'[t.by] = <<>>)
      BY <1>0, <2>0, <2>2 DEF Log!EnQ, LogTypes
    <3> QED
      BY <1>1, <3>1 DEF Earlier
  <2>3. ASSUME UNCHANGED <<written, writing>> PROVE Earlier(t)'
    BY <1>1, <2>3 DEF Earlier
  <2>4. Log!Start \/ Log!Stop \/ Log!StopReturns \/ Log!WriteOut \/ Log!End \/ UNCHANGED logVars
          => UNCHANGED <<written, writing>>
    BY DEF Log!Start, Log!Stop, Log!StopReturns, Log!WriteOut, Log!End, logVars
  <2> QED
    BY <2>1, <2>2, <2>3, <2>4 DEF LogNext, Log!Step, Threads
<1>2. ASSUME NEW w \in Threads, Log!EnQ(w), NEW t, t = [by |-> w, n |-> written[w]]
      PROVE  /\ t \in Texts /\ t # Quit /\ t.n > 0 /\ t.n <= written'[w] /\ writing'[w] = <<>>
             /\ \A u \in Texts : Earlier(u) /\ u.by = w => u.n < t.n
  <2>1. writing[w] # <<>> /\ written[w] > 0 /\ written[w] \in Nat /\ written' = written /\ writing'[w] = <<>>
    BY <1>0, <1>2 DEF Log!EnQ, LogTypes
  <2>2. t \in Texts /\ t.n = written[w]
    BY <1>2, <2>1 DEF Texts
  <2>3. Quit.n = 0
    BY DEF Quit, Log!Quit
  <2>4. \A u \in Texts : Earlier(u) /\ u.by = w => u.n < t.n
    BY <2>1, <2>2 DEF Earlier
  <2> QED
    BY <2>1, <2>2, <2>3, <2>4
<1> QED
  BY <1>1, <1>2

\* Every step of the logger keeps its types.
LEMMA LogTypesStep ==
  ASSUME Logged, LogNext
  PROVE  LogTypes'
<1>0. LogTypes
  BY DEF Logged
<1>q. Quit \in Texts
  BY DEF Quit, Log!Quit, Texts, Threads
<1>1. {running', looping', stopping'} \subseteq BOOLEAN
  <2>1. /\ running' \in {running, TRUE, FALSE} /\ looping' \in {looping, TRUE, FALSE}
        /\ stopping' \in {stopping, TRUE, FALSE}
    BY Zenon DEF LogNext, Log!Step, Log!Write, Log!EnQ, Log!Start, Log!Stop, Log!StopReturns,
                 Log!WriteOut, Log!End, logVars
  <2>2. running \in BOOLEAN /\ looping \in BOOLEAN /\ stopping \in BOOLEAN
    BY <1>0 DEF LogTypes
  <2> QED
    BY <2>1, <2>2
<1>2. texts' \in Seq(Texts) /\ printed' \in Seq(Texts)
  <2>0. texts \in Seq(Texts) /\ printed \in Seq(Texts)
    BY <1>0 DEF LogTypes
  <2>1. \A w \in Threads : Log!EnQ(w) => [by |-> w, n |-> written[w]] \in Texts
    BY EarlierKept
  <2>2. texts # <<>> => Head(texts) \in Texts /\ Tail(texts) \in Seq(Texts)
    BY <2>0
  <2>3. \A s \in Seq(Texts) : \A e \in Texts : Append(s, e) \in Seq(Texts)
    OBVIOUS
  <2>4. \A w \in Threads : Log!EnQ(w) /\ texts' = Append(texts, [by |-> w, n |-> written[w]]) => texts' \in Seq(Texts)
    BY <2>0, <2>1, <2>3
  <2> QED
    BY <1>q, <2>0, <2>1, <2>2, <2>3, <2>4, LogMoves
<1>3. /\ written' \in [Threads -> Nat] /\ writing' \in [Threads -> Seq(Texts)]
      /\ \A w \in Threads : writing'[w] = <<>> \/ (written'[w] > 0 /\ writing'[w] = <<[by |-> w, n |-> written'[w]]>>)
  <2>0. /\ written \in [Threads -> Nat] /\ writing \in [Threads -> Seq(Texts)]
        /\ \A w \in Threads : writing[w] = <<>> \/ (written[w] > 0 /\ writing[w] = <<[by |-> w, n |-> written[w]]>>)
    BY <1>0 DEF LogTypes
  <2>1. ASSUME NEW v \in Threads, Log!Write(v)
        PROVE  /\ written' \in [Threads -> Nat] /\ writing' \in [Threads -> Seq(Texts)]
               /\ \A w \in Threads : writing'[w] = <<>> \/ (written'[w] > 0 /\ writing'[w] = <<[by |-> w, n |-> written'[w]]>>)
    <3> DEFINE t == [by |-> v, n |-> written[v] + 1]
    <3>1. t \in Texts /\ <<t>> \in Seq(Texts) /\ written[v] \in Nat
      BY <2>0 DEF Texts
    <3>2. written' = [written EXCEPT ![v] = @ + 1] /\ writing' = [writing EXCEPT ![v] = IF running THEN <<t>> ELSE <<>>]
      BY <2>1 DEF Log!Write
    <3>3. written'[v] = written[v] + 1 /\ (writing'[v] = <<>> \/ writing'[v] = <<t>>)
      BY <2>0, <3>2
    <3>4. \A w \in Threads : w # v => written'[w] = written[w] /\ writing'[w] = writing[w]
      BY <2>0, <3>2
    <3>5. (IF running THEN <<t>> ELSE <<>>) \in Seq(Texts)
      BY <3>1
    <3>6. written' \in [Threads -> Nat] /\ writing' \in [Threads -> Seq(Texts)]
      BY <2>0, <3>1, <3>2, <3>5
    <3> QED
      <4>1. written'[v] > 0 /\ t = [by |-> v, n |-> written'[v]]
        BY <3>1, <3>3
      <4>2. \A w \in Threads : w # v =>
              writing'[w] = <<>> \/ (written'[w] > 0 /\ writing'[w] = <<[by |-> w, n |-> written'[w]]>>)
        BY <2>0, <3>4
      <4>3. writing'[v] = <<>> \/ (written'[v] > 0 /\ writing'[v] = <<[by |-> v, n |-> written'[v]]>>)
        BY <3>3, <4>1
      <4> QED
        BY <3>6, <4>2, <4>3
  <2>2. ASSUME NEW v \in Threads, Log!EnQ(v)
        PROVE  /\ written' \in [Threads -> Nat] /\ writing' \in [Threads -> Seq(Texts)]
               /\ \A w \in Threads : writing'[w] = <<>> \/ (written'[w] > 0 /\ writing'[w] = <<[by |-> w, n |-> written'[w]]>>)
    <3>1. written' = written /\ writing' = [writing EXCEPT ![v] = <<>>]
      BY <2>2 DEF Log!EnQ
    <3> QED
      BY <2>0, <3>1
  <2>3. Log!Start \/ Log!Stop \/ Log!StopReturns \/ Log!WriteOut \/ Log!End \/ UNCHANGED logVars
          => UNCHANGED <<written, writing>>
    BY DEF Log!Start, Log!Stop, Log!StopReturns, Log!WriteOut, Log!End, logVars
  <2> QED
    BY <2>0, <2>1, <2>2, <2>3 DEF LogNext, Log!Step, Threads
<1> QED
  BY <1>1, <1>2, <1>3 DEF LogTypes

\* Every step of the logger keeps the texts of each thread in their order.
LEMMA InOrderStep ==
  ASSUME Logged, LogNext
  PROVE  InOrder'
<1>0. texts \in Seq(Texts) /\ printed \in Seq(Texts) /\ InOrder
  BY DEF Logged, LogTypes
<1>t. /\ \A i \in DOMAIN texts : texts[i] \in Texts
      /\ \A i \in DOMAIN printed : printed[i] \in Texts
  BY <1>0
<1>q. Quit \in Texts
  BY DEF Quit, Log!Quit, Texts, Threads
<1>k. \A t \in Texts : Earlier(t) => Earlier(t)'
  BY EarlierKept
<1>1. CASE UNCHANGED <<texts, printed>>
  <2>1. \A i \in DOMAIN printed' : Earlier(printed[i])'
    BY <1>0, <1>t, <1>k, <1>1 DEF InOrder, Earlier
  <2>2. \A i \in DOMAIN texts' : texts'[i] = Quit \/ Earlier(texts[i])'
    BY <1>0, <1>t, <1>k, <1>1 DEF InOrder, Earlier
  <2> QED
    BY <1>0, <1>1, <2>1, <2>2 DEF InOrder, Quit, Log!Quit
<1>2. ASSUME NEW e \in Texts, texts' = Append(texts, e), printed' = printed,
             e = Quit \/ (Earlier(e)' /\ \A u \in Texts : Earlier(u) /\ u.by = e.by => u.n < e.n)
      PROVE  InOrder'
  <2>1. /\ DOMAIN texts = 1..Len(texts) /\ Len(texts) \in Nat
        /\ \A i \in DOMAIN texts' : \/ i = Len(texts) + 1 /\ texts'[i] = e
                                    \/ i \in DOMAIN texts /\ texts'[i] = texts[i]
    BY <1>0, <1>2
  <2>2. \A i \in DOMAIN printed' : Earlier(printed[i])'
    BY <1>0, <1>t, <1>k, <1>2 DEF InOrder, Earlier
  <2>3. \A i \in DOMAIN texts' : \A t : t = texts'[i] => t = Quit \/ Earlier(t)'
    BY <1>0, <1>t, <1>k, <1>2, <2>1 DEF InOrder
  <2>4. \A i \in DOMAIN printed' : \A j \in DOMAIN texts' :
          texts'[j] # Quit /\ printed'[i].by = texts'[j].by => printed'[i].n < texts'[j].n
    BY <1>0, <1>t, <1>2, <2>1 DEF InOrder
  <2>5. \A i, j \in DOMAIN texts' :
          i < j /\ texts'[i] # Quit /\ texts'[j] # Quit /\ texts'[i].by = texts'[j].by => texts'[i].n < texts'[j].n
    <3>1. ASSUME NEW i \in DOMAIN texts', NEW j \in DOMAIN texts', i < j
          PROVE  i \in DOMAIN texts /\ texts'[i] = texts[i]
      BY <2>1, <3>1
    <3>2. \A i \in DOMAIN texts : texts[i] # Quit => Earlier(texts[i])
      BY <1>0 DEF InOrder
    <3>3. ASSUME NEW i \in DOMAIN texts', NEW j \in DOMAIN texts',
                 i < j, texts'[i] # Quit, texts'[j] # Quit, texts'[i].by = texts'[j].by
          PROVE  texts'[i].n < texts'[j].n
      <4>1. i \in DOMAIN texts /\ texts'[i] = texts[i] /\ Earlier(texts[i]) /\ texts[i] \in Texts
        BY <1>t, <3>1, <3>2, <3>3
      <4>2. CASE texts'[j] = e
        BY <1>2, <3>3, <4>1, <4>2
      <4>3. CASE j \in DOMAIN texts /\ texts'[j] = texts[j]
        BY <1>0, <3>3, <4>1, <4>3 DEF InOrder
      <4> QED
        BY <2>1, <4>2, <4>3
    <3> QED
      BY <3>3
  <2>6. \A i, j \in DOMAIN printed' : i < j /\ printed'[i].by = printed'[j].by => printed'[i].n < printed'[j].n
    BY <1>0, <1>2 DEF InOrder
  <2>7. \A i \in DOMAIN texts' : texts'[i] = Quit \/ Earlier(texts[i])'
    BY <2>3 DEF Earlier
  <2> QED
    BY <2>2, <2>4, <2>5, <2>6, <2>7 DEF InOrder, Quit, Log!Quit
<1>3. ASSUME texts # <<>>, texts' = Tail(texts),
             printed' = printed \/ (Head(texts) # Quit /\ printed' = Append(printed, Head(texts)))
      PROVE  InOrder'
  <2>1. /\ Head(texts) = texts[1] /\ 1 \in DOMAIN texts
        /\ \A i \in DOMAIN texts' : i \in Nat \ {0} /\ i + 1 \in DOMAIN texts /\ texts'[i] = texts[i + 1]
    BY <1>0, <1>3
  <2>2. /\ DOMAIN printed = 1..Len(printed) /\ Len(printed) \in Nat
        /\ \A i \in DOMAIN printed' : \/ i = Len(printed) + 1 /\ printed'[i] = texts[1] /\ texts[1] # Quit
                                      \/ i \in DOMAIN printed /\ printed'[i] = printed[i]
    BY SMTT(30), <1>0, <1>t, <1>3, <2>1
  <2>3. \A i \in DOMAIN printed' : \A t : t = printed'[i] => Earlier(t)'
    BY <1>0, <1>t, <1>k, <2>1, <2>2 DEF InOrder
  <2>4. \A i \in DOMAIN texts' : \A t : t = texts'[i] => t = Quit \/ Earlier(t)'
    BY <1>0, <1>t, <1>k, <2>1 DEF InOrder
  <2>5. \A i, j \in DOMAIN texts :
          i < j /\ texts[i] # Quit /\ texts[j] # Quit /\ texts[i].by = texts[j].by => texts[i].n < texts[j].n
    BY <1>0 DEF InOrder
  <2>6. \A i \in DOMAIN printed : \A j \in DOMAIN texts :
          texts[j] # Quit /\ printed[i].by = texts[j].by => printed[i].n < texts[j].n
    BY <1>0 DEF InOrder
  <2>7. \A i, j \in DOMAIN texts' :
          i < j /\ texts'[i] # Quit /\ texts'[j] # Quit /\ texts'[i].by = texts'[j].by => texts'[i].n < texts'[j].n
    <3>1. \A i, j \in DOMAIN texts' : i < j => i + 1 < j + 1
      BY <2>1
    <3> QED
      BY <2>1, <2>5, <3>1
  <2>8. \A i \in DOMAIN printed' : \A j \in DOMAIN texts' :
          texts'[j] # Quit /\ printed'[i].by = texts'[j].by => printed'[i].n < texts'[j].n
    <3>1. \A j \in DOMAIN texts' : 1 < j + 1
      BY <2>1
    <3> QED
      BY <2>1, <2>2, <2>5, <2>6, <3>1
  <2>9. \A i, j \in DOMAIN printed' : i < j /\ printed'[i].by = printed'[j].by => printed'[i].n < printed'[j].n
    <3>1. \A i, j \in DOMAIN printed : i < j /\ printed[i].by = printed[j].by => printed[i].n < printed[j].n
      BY <1>0 DEF InOrder
    <3>2. \A i, j \in DOMAIN printed' : i < j => i \in DOMAIN printed /\ printed'[i] = printed[i]
      BY <2>2
    <3> QED
      BY <2>1, <2>2, <2>6, <3>1, <3>2
  <2>10. \A i \in DOMAIN printed' : Earlier(printed[i])'
    BY <2>3 DEF Earlier
  <2>11. \A i \in DOMAIN texts' : texts'[i] = Quit \/ Earlier(texts[i])'
    BY <2>4 DEF Earlier
  <2> QED
    BY <2>7, <2>8, <2>9, <2>10, <2>11 DEF InOrder, Quit, Log!Quit
<1>4. ASSUME NEW w \in Threads, Log!EnQ(w), NEW e, e = [by |-> w, n |-> written[w]]
      PROVE  e \in Texts /\ Earlier(e)' /\ \A u \in Texts : Earlier(u) /\ u.by = e.by => u.n < e.n
  <2>1. /\ e \in Texts /\ e.n > 0 /\ e.n <= written'[w] /\ writing'[w] = <<>> /\ e.by = w
        /\ \A u \in Texts : Earlier(u) /\ u.by = w => u.n < e.n
    BY <1>4, EarlierKept
  <2> QED
    BY <2>1 DEF Earlier
<1> QED
  BY <1>1, <1>2, <1>3, <1>4, <1>q, LogMoves

\* Every step of the logger keeps "quit" behind what its owner wrote.
LEMMA QuitLastStep ==
  ASSUME Logged, LogNext
  PROVE  QuitLast'
<1>0. /\ texts \in Seq(Texts) /\ QuitLast /\ writing \in [Threads -> Seq(Texts)]
      /\ stopping \in BOOLEAN /\ running \in BOOLEAN /\ looping \in BOOLEAN
  BY DEF Logged, LogTypes
<1>q. Quit.by = "main" /\ Quit \in Texts /\ "main" \in Threads /\ "listen" \in Threads
  BY DEF Quit, Log!Quit, Texts, Threads
<1>n. ~stopping => \A i \in DOMAIN texts : texts[i] # Quit
  BY <1>0 DEF QuitLast
<1> USE DEF Quit, Log!Quit
<1>1. ASSUME NEW w \in Threads, Log!Write(w) PROVE QuitLast'
  <2>1. UNCHANGED <<running, looping, stopping, texts>>
    BY <1>1 DEF Log!Write
  <2>2. writing'["main"] = writing["main"] \/ (~stopping /\ (~running => writing'["main"] = <<>>))
    <3>1. CASE w = "main"
      BY <1>0, <1>q, <1>1, <3>1 DEF Log!Write, Log!Idle
    <3>2. CASE w # "main"
      BY <1>0, <1>q, <1>1, <3>2 DEF Log!Write
    <3> QED
      BY <3>1, <3>2
  <2> QED
    BY <1>0, <2>1, <2>2 DEF QuitLast
<1>2. ASSUME NEW w \in Threads, Log!EnQ(w) PROVE QuitLast'
  <2>1. UNCHANGED <<running, looping, stopping>> /\ writing'["main"] \in {writing["main"], <<>>} /\ writing[w] # <<>>
    BY <1>0, <1>q, <1>2 DEF Log!EnQ
  <2>2. PICK e \in Texts : e # Quit /\ e.by = w /\ texts' = Append(texts, e)
    <3>1. writing[w] = <<[by |-> w, n |-> written[w]]>>
      BY <2>1 DEF Logged, LogTypes
    <3>2. texts' = texts \o <<[by |-> w, n |-> written[w]]>> /\ [by |-> w, n |-> written[w]] \in Texts
             /\ [by |-> w, n |-> written[w]] # Quit
      BY <1>2, <3>1, EarlierKept DEF Log!EnQ
    <3>3. \A s \in Seq(Texts) : \A t \in Texts : s \o <<t>> = Append(s, t)
      OBVIOUS
    <3> QED
      BY <1>0, <3>2, <3>3
  <2>3. \A i \in DOMAIN texts' : \/ i = Len(texts) + 1 /\ texts'[i] = e
                                 \/ i \in DOMAIN texts /\ texts'[i] = texts[i]
    BY <1>0, <2>2
  <2>4. w = "main" => ~stopping /\ running
    BY <1>0, <2>1 DEF QuitLast
  <2>5. \A i \in DOMAIN texts' : texts'[i] = Quit =>
          stopping /\ running /\ \A j \in DOMAIN texts' : i < j => texts'[j].by # "main"
    BY <1>0, <1>n, <2>2, <2>3, <2>4 DEF QuitLast, Threads
  <2>6. ~running => writing'["main"] = <<>> /\ \A i \in DOMAIN texts' : texts'[i].by # "main"
    BY <1>0, <2>1, <2>2, <2>3, <2>4 DEF QuitLast, Threads
  <2>7. looping' = running' /\ (stopping' => writing'["main"] = <<>>)
    BY <1>0, <2>1 DEF QuitLast
  <2> QED
    BY <2>1, <2>5, <2>6, <2>7 DEF QuitLast
<1>3. CASE Log!Start
  BY <1>0, <1>n, <1>3 DEF Log!Start, Log!Idle, QuitLast
<1>4. CASE Log!Stop
  <2>1. /\ ~stopping /\ running /\ writing["main"] = <<>> /\ texts' = Append(texts, Quit)
        /\ stopping' = TRUE /\ UNCHANGED <<running, looping, writing>>
    BY <1>4 DEF Log!Stop, Log!Idle
  <2>2. /\ DOMAIN texts = 1..Len(texts) /\ Len(texts) \in Nat
        /\ \A i \in DOMAIN texts' : \/ i = Len(texts) + 1 /\ texts'[i] = Quit
                                    \/ i \in DOMAIN texts /\ texts'[i] = texts[i]
    BY <1>0, <1>q, <2>1
  <2>3. \A i \in DOMAIN texts' : texts'[i] = Quit => \A j \in DOMAIN texts' : ~(i < j)
    BY <1>n, <2>1, <2>2
  <2> QED
    BY <1>0, <2>1, <2>3 DEF QuitLast
<1>5. CASE Log!StopReturns
  BY <1>0, <1>5 DEF Log!StopReturns, QuitLast
<1>6. CASE Log!WriteOut \/ Log!End
  <2>1. texts # <<>> /\ texts' = Tail(texts) /\ UNCHANGED <<stopping, writing>>
    BY <1>6 DEF Log!WriteOut, Log!End
  <2>2. /\ Head(texts) = texts[1] /\ 1 \in DOMAIN texts
        /\ \A i \in DOMAIN texts' : i \in Nat \ {0} /\ i + 1 \in DOMAIN texts /\ texts'[i] = texts[i + 1]
    BY <1>0, <2>1
  <2>3. \A i, j \in DOMAIN texts' : i < j => i + 1 < j + 1
    BY <2>2
  <2>4. CASE Log!WriteOut
    <3>1. UNCHANGED <<running, looping, stopping, writing>>
      BY <2>1, <2>4 DEF Log!WriteOut
    <3>2. \A i \in DOMAIN texts' : texts'[i] = Quit =>
            stopping /\ running /\ \A j \in DOMAIN texts' : i < j => texts'[j].by # "main"
      BY <1>0, <2>2, <2>3 DEF QuitLast
    <3>3. ~running => writing["main"] = <<>> /\ \A i \in DOMAIN texts' : texts'[i].by # "main"
      BY <1>0, <2>2 DEF QuitLast
    <3>4. looping = running /\ (stopping => writing["main"] = <<>>)
      BY <1>0 DEF QuitLast
    <3> QED
      BY <3>1, <3>2, <3>3, <3>4 DEF QuitLast
  <2>5. CASE Log!End
    <3>1. texts[1] = Quit /\ running' = FALSE /\ looping' = FALSE
      BY <2>2, <2>5 DEF Log!End
    <3>2. \A i \in DOMAIN texts' : 1 < i + 1
      BY <2>2
    <3>3. stopping /\ writing["main"] = <<>> /\ \A i \in DOMAIN texts' : texts'[i].by # "main"
      BY <1>0, <2>2, <3>1, <3>2 DEF QuitLast
    <3>4. \A i \in DOMAIN texts' : texts'[i] # Quit
      BY <1>q, <3>3
    <3> QED
      BY <2>1, <3>1, <3>3, <3>4 DEF QuitLast
  <2> QED
    BY <1>6, <2>4, <2>5
<1>7. CASE UNCHANGED logVars
  BY <1>0, <1>7 DEF logVars, QuitLast
<1> QED
  BY <1>1, <1>2, <1>3, <1>4, <1>5, <1>6, <1>7 DEF LogNext, Log!Step, Threads

\* Every step of the logger keeps what is due before "quit".
LEMMA DuePrintedStep ==
  ASSUME Logged, LogNext
  PROVE  DuePrinted'
<1>0. texts \in Seq(Texts) /\ printed \in Seq(Texts) /\ QuitLast /\ DuePrinted
  BY DEF Logged, LogTypes
<1>q. Quit \in Texts
  BY DEF Quit, Log!Quit, Texts, Threads
<1>1. \A t : Printed(t) => Printed(t)'
  <2>1. printed' = printed \/ \E e \in Texts : printed' = Append(printed, e)
    <3>1. texts # <<>> => Head(texts) \in Texts
      BY <1>0
    <3> QED
      BY <3>1, LogMoves
  <2>2. \A i \in DOMAIN printed : i \in DOMAIN printed' /\ printed'[i] = printed[i]
    BY <1>0, <2>1
  <2> QED
    BY <2>2 DEF Printed
<1>2. CASE Log!Stop
  <2>1. /\ ~stopping /\ running /\ texts' = Append(texts, Quit) /\ stopping' /\ running'
        /\ \A t \in due' : \E i \in DOMAIN texts : texts[i] = t
    BY <1>2 DEF Log!Stop, Log!Idle, Log!Range, Quit
  <2>2. \A i \in DOMAIN texts : texts[i] # Quit
    BY <1>0, <2>1 DEF QuitLast
  <2>3. /\ DOMAIN texts = 1..Len(texts) /\ Len(texts) \in Nat
        /\ \A i \in DOMAIN texts : i \in DOMAIN texts' /\ texts'[i] = texts[i]
    BY <1>0, <1>q, <2>1
  <2>4. ASSUME NEW t \in due' PROVE BeforeQuit(t)'
    <3>1. PICK i \in DOMAIN texts : texts[i] = t
      BY <2>1, <2>4
    <3>2. \A j \in 1..i : j \in DOMAIN texts
      BY <2>3
    <3>3. i \in DOMAIN texts' /\ texts'[i] = t /\ \A j \in 1..i : texts'[j] # Quit
      BY <2>2, <2>3, <3>1, <3>2
    <3> QED
      BY <3>3 DEF BeforeQuit, Quit, Log!Quit
  <2> QED
    BY <2>1, <2>4 DEF DuePrinted
<1>3. ASSUME ~Log!Stop, NEW t \in due' PROVE Printed(t)' \/ (stopping' /\ running' /\ BeforeQuit(t)')
  <2>1. t \in due
    BY <1>3 DEF LogNext, Log!Step, Log!Write, Log!EnQ, Log!Start, Log!StopReturns, Log!WriteOut, Log!End, logVars
  <2>2. CASE Printed(t)
    BY <1>1, <2>2
  <2>3. ASSUME stopping, running, BeforeQuit(t), NEW i \in DOMAIN texts, texts[i] = t, \A j \in 1..i : texts[j] # Quit
        PROVE  Printed(t)' \/ (stopping' /\ running' /\ BeforeQuit(t)')
    <3>0. i \in 1..Len(texts) /\ Len(texts) \in Nat /\ 1 \in 1..i
      BY <1>0
    <3>1. ASSUME texts' = texts \/ \E e \in Texts : texts' = Append(texts, e) PROVE BeforeQuit(t)'
      <4>1. i \in DOMAIN texts' /\ \A j \in 1..i : texts'[j] = texts[j]
        BY SMTT(30), <1>0, <3>0, <3>1
      <4>2. i \in 1..i
        BY <3>0
      <4>3. texts'[i] = t /\ \A j \in 1..i : texts'[j] # Quit
        BY <2>3, <4>1, <4>2
      <4> QED
        BY <4>1, <4>3 DEF BeforeQuit, Quit, Log!Quit
    <3>2. CASE Log!WriteOut
      <4>1. /\ texts' = Tail(texts) /\ printed' = Append(printed, Head(texts)) /\ Head(texts) = texts[1]
            /\ UNCHANGED <<stopping, running>> /\ texts[1] \in Texts
            /\ \A k \in 1..(Len(texts) - 1) : k \in DOMAIN Tail(texts) /\ Tail(texts)[k] = texts[k + 1]
        BY <1>0, <3>0, <3>2 DEF Log!WriteOut
      <4>2. CASE i = 1
        <5>1. Len(printed) + 1 \in DOMAIN printed' /\ printed'[Len(printed) + 1] = t
          BY <1>0, <2>3, <4>1, <4>2
        <5> QED
          BY <5>1 DEF Printed
      <4>3. CASE i # 1
        <5>1. i - 1 \in DOMAIN texts' /\ texts'[i - 1] = t
          BY <2>3, <3>0, <4>1, <4>3
        <5>2. \A j \in 1..(i - 1) : j + 1 \in 1..i /\ texts'[j] = texts[j + 1]
          BY <3>0, <4>1
        <5>3. BeforeQuit(t)'
          BY <2>3, <5>1, <5>2 DEF BeforeQuit, Quit, Log!Quit
        <5> QED
          BY <2>3, <4>1, <5>3
      <4> QED
        BY <4>2, <4>3
    <3>3. ~Log!End
      <4>1. Head(texts) = texts[1]
        BY <1>0, <3>0
      <4> QED
        BY <2>3, <3>0, <4>1 DEF Log!End, Quit
    <3>4. ~Log!Start /\ ~Log!StopReturns
      BY <2>3 DEF Log!Start, Log!StopReturns
    <3>5. ASSUME ~Log!WriteOut PROVE stopping' /\ running'
      BY <1>3, <2>3, <3>3, <3>4, <3>5 DEF LogNext, Log!Step, Log!Write, Log!EnQ, logVars
    <3>6. \A w \in Threads : Log!EnQ(w) => [by |-> w, n |-> written[w]] \in Texts
      BY EarlierKept
    <3> QED
      BY <1>3, <3>1, <3>2, <3>3, <3>5, <3>6, LogMoves
  <2> QED
    BY <1>0, <2>1, <2>2, <2>3 DEF DuePrinted, BeforeQuit
<1> QED
  BY <1>2, <1>3 DEF DuePrinted

\* What Logged gives.
LEMMA LoggedKeeps == Logged => LogKept
<1> SUFFICES ASSUME Logged PROVE LogKept
  OBVIOUS
<1>1. Log!InOrderOfWriting
  BY DEF Logged, InOrder, Log!InOrderOfWriting
<1>2. \A t \in due : Printed(t) => t \in Log!Range(printed)
  BY DEF Printed, Log!Range
<1>3. Log!StopFlushes
  BY <1>2 DEF Logged, DuePrinted, QuitLast, Log!StopFlushes
<1> QED
  BY <1>1, <1>3 DEF LogKept, Log!LogKept

------------------------------------------------------------------------------
(* The two together.                                                         *)

\* A step of the program is a step of the listener, or none, and one of the logger.
LEMMA BothStep == [LoggedNext]_allVars => [Next]_vars /\ LogNext
<1> SUFFICES ASSUME [LoggedNext]_allVars PROVE [Next]_vars /\ LogNext
  OBVIOUS
<1>1. CASE LoggedListen \/ LoggedAccept \/ LoggedFail \/ LoggedTest
  BY <1>1 DEF LoggedListen, LoggedAccept, LoggedFail, LoggedTest, LogNext, Threads, Next, ListenThread
<1>2. CASE Silent /\ UNCHANGED logVars
  BY <1>2 DEF Silent, LogNext, Next, ListenThread
<1>3. CASE Logging
  BY <1>3 DEF Logging, LogNext, Threads
<1>4. CASE UNCHANGED allVars
  BY <1>4 DEF allVars, LogNext
<1> QED
  BY <1>1, <1>2, <1>3, <1>4 DEF LoggedNext

\* In a process that listens and logs, for any number of connecters, texts, starts
\* and stops: connections are kept as ConnectionsKept says,
THEOREM ConnectionsKeptWhileLogging == LoggedSpec => []ConnectionsKept
<1>1. Listening /\ [LoggedNext]_allVars => Listening'
  BY BothStep, ListeningTypes, ListeningOrder, ListeningStop DEF Listening
<1>2. LoggedInit => Listening
  BY ListeningInit DEF LoggedInit
<1> QED
  BY <1>1, <1>2, ListeningKeeps, PTL DEF LoggedSpec

\* and the texts of each thread are printed in its order, all that were queued when
\* stop was called before stop returns.
THEOREM LogAlwaysKept == LoggedSpec => []LogKept
<1>1. Logged /\ [LoggedNext]_allVars => Logged'
  BY BothStep, LogTypesStep, InOrderStep, QuitLastStep, DuePrintedStep DEF Logged
<1>2. LoggedInit => Logged
  BY LoggedAtStart DEF LoggedInit
<1> QED
  BY <1>1, <1>2, LoggedKeeps, PTL DEF LoggedSpec
==============================================================================
