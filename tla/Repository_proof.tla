-------------------------- MODULE Repository_proof --------------------------
(***************************************************************************)
(* Proofs about Repository, for any clients, kinds of requests and bounds.  *)
(*                                                                         *)
(* A request is in one place at a time: its client's queue, the client's    *)
(* sender thread, a handler thread of the server, the server's queue, its   *)
(* sender thread, a connection, the client's messages.  Once says so, place *)
(* by place: what is in one of them is nowhere further on.  Origins says    *)
(* that what is there was posted, and that an answer is true already while  *)
(* it is on its way.  DueOnTheWay follows the answers that were waiting     *)
(* when the server was told to end.                                         *)
(***************************************************************************)
EXTENDS Repository, TLAPS

Active(thread) == thread.pc \in {"connect", "send"}

------------------------------------------------------------------------------
(* What a message says.                                                      *)

\* A client's request, as it was posted.
Request(m, posts) == /\ m.from \in Clients /\ m.to = Server
                     /\ m.n \in 1..Len(posts[m.from])
                     /\ m.kind = posts[m.from][m.n].kind

\* An answer to a client's request; what it acknowledges is stored, and a list has
\* what its client knew to be stored when it asked.
Answer(m, posts, stored) ==
  /\ m.to \in Clients
  /\ m.n \in 1..Len(posts[m.to])
  /\ m.kind = posts[m.to][m.n].kind
  /\ m.kind = "upload" => <<m.to, m.n>> \in stored
  /\ m.kind = "getall" => posts[m.to][m.n].seen \subseteq m.listed

Origins ==
  /\ \A c \in Clients : \A i \in DOMAIN sndrQueue[c] :
       sndrQueue[c][i] = End \/ (Request(sndrQueue[c][i], posted) /\ sndrQueue[c][i].from = c)
  /\ \A c \in Clients : Active(csnd[c]) => Request(csnd[c].msg, posted) /\ csnd[c].msg.from = c
  /\ \A i \in inconn : IF i.stage = "sent" THEN Request(i.msg, posted) ELSE Answer(i.msg, posted, store)
  /\ \A i \in DOMAIN rcvrQueue : rcvrQueue[i] = End \/ Answer(rcvrQueue[i], posted, store)
  /\ Active(ssnd) => Answer(ssnd.msg, posted, store)
  /\ \A o \in outconn : Answer(o.msg, posted, store)
  /\ \A c \in Clients : \A i \in DOMAIN Got(c) : Answer(Got(c)[i], posted, store) /\ Got(c)[i].to = c

\* What a client knew to be stored when it posted a request is stored.
SeenStored == \A c \in Clients : \A i \in DOMAIN posted[c] : posted[c][i].seen \subseteq store

------------------------------------------------------------------------------
(* Where the answer to c's n-th request is, and how far it has come.          *)

Asker(i) == IF i.stage = "sent" THEN i.msg.from ELSE i.msg.to

InGot(c, n) == \E i \in DOMAIN Got(c) : Got(c)[i].n = n
InOut(c, n) == \E o \in outconn : o.msg.to = c /\ o.msg.n = n
InSender(c, n) == Active(ssnd) /\ ssnd.msg.to = c /\ ssnd.msg.n = n
InQueue(c, n) == \E i \in DOMAIN rcvrQueue : rcvrQueue[i].to = c /\ rcvrQueue[i].n = n
InHandler(c, n) == \E i \in inconn : Asker(i) = c /\ i.msg.n = n

Sent(c, n) == InOut(c, n) \/ InGot(c, n)
Taken(c, n) == InSender(c, n) \/ Sent(c, n)
Queued(c, n) == InQueue(c, n) \/ Taken(c, n)
Begun(c, n) == InHandler(c, n) \/ Queued(c, n)

\* An upload and a list are answered once.
OnceGot ==
  \A c \in Clients : \A i, j \in DOMAIN Got(c) :
    i # j /\ Got(c)[i].n = Got(c)[j].n => Got(c)[i].kind = "download"
\* A connection carries one answer: one message, unless it is a download.
OnceOut ==
  /\ \A o, p \in outconn : o.msg.to = p.msg.to /\ o.msg.n = p.msg.n => o = p
  /\ \A o \in outconn : o.msg.kind # "download" =>
       o.left <= 1 /\ (o.left = 1 => ~InGot(o.msg.to, o.msg.n))
OnceTaken == \A c \in Clients : \A n \in Nat : InSender(c, n) => ~Sent(c, n)
OnceQueued ==
  \A c \in Clients : \A n \in Nat : \A i \in DOMAIN rcvrQueue :
    rcvrQueue[i].to = c /\ rcvrQueue[i].n = n =>
      /\ ~Taken(c, n)
      /\ \A j \in DOMAIN rcvrQueue : rcvrQueue[j].to = c /\ rcvrQueue[j].n = n => i = j
OnceHandled ==
  \A c \in Clients : \A n \in Nat : \A i \in inconn :
    Asker(i) = c /\ i.msg.n = n =>
      /\ ~Queued(c, n)
      /\ \A j \in inconn : Asker(j) = c /\ j.msg.n = n => i = j
\* Requests leave their client in the order of their numbers.
OnceSending ==
  \A c \in Clients : Active(csnd[c]) => \A n \in Nat : Begun(c, n) => n < csnd[c].msg.n
OncePosted ==
  \A c \in Clients : \A i \in DOMAIN sndrQueue[c] : sndrQueue[c][i] # End =>
    /\ \A n \in Nat : Begun(c, n) => n < sndrQueue[c][i].n
    /\ Active(csnd[c]) => csnd[c].msg.n < sndrQueue[c][i].n
    /\ \A j \in 1..(i - 1) : sndrQueue[c][j] # End => sndrQueue[c][j].n < sndrQueue[c][i].n

Once == /\ OnceGot /\ OnceOut /\ OnceTaken /\ OnceQueued
        /\ OnceHandled /\ OnceSending /\ OncePosted

------------------------------------------------------------------------------
(* The end of the server.                                                    *)

Drained(m) == \/ proc[m.to] \in {"closing", "gone"}
              \/ m \in ToSet(Got(m.to))
              \/ \E o \in outconn : o.msg = m

BeforeEnd(m) == \E i \in DOMAIN rcvrQueue :
                  rcvrQueue[i] = m /\ \A j \in 1..(i - 1) : rcvrQueue[j] # End

\* What is due has been sent, or is taken before END_SERVER; until a key is pressed
\* nothing is due and nobody is told to end.
DueOnTheWay ==
  /\ srv \in {"starting", "up"} =>
       ssnd.pc # "ended" /\ \A i \in DOMAIN rcvrQueue : rcvrQueue[i] # End
  /\ \A m \in due : m.to \in Clients /\ m # End
  /\ \A m \in due : Drained(m) \/ (Active(ssnd) /\ ssnd.msg = m) \/ BeforeEnd(m)
  /\ ssnd.pc = "ended" => \A m \in due : Drained(m)

IInv == TypeOK /\ Origins /\ SeenStored /\ Once /\ DueOnTheWay

------------------------------------------------------------------------------
(* The facts the proofs below lean on.                                       *)

\* A message taken from the head of a queue, and the rest, are messages.
LEMMA HeadTail ==
  ASSUME NEW S, NEW s \in Seq(S), s # <<>>
  PROVE  /\ Head(s) \in S /\ Tail(s) \in Seq(S) /\ Head(s) = s[1]
         /\ 1 \in DOMAIN s /\ Len(Tail(s)) = Len(s) - 1
         /\ \A i \in DOMAIN Tail(s) : i + 1 \in DOMAIN s /\ Tail(s)[i] = s[i + 1]
OBVIOUS

\* What append does to a queue.
LEMMA AppendLast ==
  ASSUME NEW S, NEW s \in Seq(S), NEW e \in S
  PROVE  /\ Append(s, e) \in Seq(S) /\ Len(Append(s, e)) = Len(s) + 1
         /\ DOMAIN Append(s, e) = 1..(Len(s) + 1)
         /\ Append(s, e)[Len(s) + 1] = e
         /\ \A i \in DOMAIN s : i \in DOMAIN Append(s, e) /\ Append(s, e)[i] = s[i]
OBVIOUS

\* END_SERVER is a message, and goes to no client.
LEMMA EndIsMessage == End \in Messages /\ End.to \notin Clients /\ End.to = Server
BY ClientsAssumption DEF End, Msg, Messages

\* What a message holds.
LEMMA MessageFields ==
  ASSUME NEW m \in Messages
  PROVE  /\ m.from \in Clients \cup {Server} /\ m.to \in Clients \cup {Server}
         /\ m.n \in Nat /\ m.kind \in {"upload", "getall", "download", "end"}
         /\ m.listed \in SUBSET (Clients \X Nat)
BY DEF Messages

\* The answer to a message swaps its addresses and keeps the rest.
LEMMA ReplyIsMessage ==
  ASSUME NEW m \in Messages, NEW l \in SUBSET (Clients \X Nat)
  PROVE  /\ Reply(m, l) \in Messages
         /\ Reply(m, l).from = m.to /\ Reply(m, l).to = m.from
         /\ Reply(m, l).n = m.n /\ Reply(m, l).kind = m.kind /\ Reply(m, l).listed = l
BY DEF Reply, Messages

\* The answer to a list of files is completed from what is stored.
LEMMA AnswersAre ==
  ASSUME NEW m \in Messages, NEW a \in Answers(m), store \subseteq Clients \X Nat
  PROVE  /\ a \in Messages
         /\ a.to = m.to /\ a.n = m.n /\ a.kind = m.kind
         /\ m.kind = "getall" => m.listed \subseteq a.listed
<1>1. PICK l \in (IF m.kind = "getall" THEN {s \in SUBSET store : m.listed \subseteq s} ELSE {{}}) :
        a = [m EXCEPT !.listed = l]
  BY DEF Answers
<1>2. l \subseteq Clients \X Nat
  BY <1>1
<1>3. m.kind = "getall" => m.listed \subseteq l
  BY <1>1
<1> QED
  BY <1>1, <1>2, <1>3 DEF Messages

------------------------------------------------------------------------------
(* Types.                                                                    *)

Posts == [kind : {"upload", "getall", "download"}, seen : SUBSET (Clients \X Nat)]
SenderThreads == [pc : {"deQ", "connect", "send", "ended"}, msg : Messages]

PostTypes == posted \in [Clients -> Seq(Posts)] /\ sndrQueue \in [Clients -> Seq(Messages)]
ProcTypes == /\ proc \in [Clients -> {"starting", "listening", "closing", "gone"}]
             /\ csnd \in [Clients -> SenderThreads]
GotTypes == rcvd \in [Clients -> Seq(Messages)] /\ shown \in [Clients -> Seq(Messages)]
LinkTypes == /\ outconn \subseteq [msg : Messages, left : Nat]
             /\ inconn \subseteq [msg : Messages, stage : {"sent", "reply"}]
QueueTypes == /\ rcvrQueue \in Seq(Messages)
              /\ \A i \in DOMAIN rcvrQueue : rcvrQueue[i] = End \/ rcvrQueue[i].to \in Clients
ServerTypes == /\ srv \in {"starting", "up", "stopping", "closed", "gone"}
               /\ store \subseteq Clients \X Nat
               /\ due \subseteq Messages
SenderTypes == ssnd \in SenderThreads /\ (ssnd.msg = End \/ ssnd.msg.to \in Clients)

\* TypeOK, part by part.
LEMMA TypeParts ==
  TypeOK <=> /\ PostTypes /\ ProcTypes /\ GotTypes /\ LinkTypes
             /\ QueueTypes /\ ServerTypes /\ SenderTypes
<1>1. ASSUME rcvrQueue \in Seq(Messages)
      PROVE  (\A m \in ToSet(rcvrQueue) \cup {ssnd.msg} : m = End \/ m.to \in Clients)
             <=> /\ \A i \in DOMAIN rcvrQueue : rcvrQueue[i] = End \/ rcvrQueue[i].to \in Clients
                 /\ ssnd.msg = End \/ ssnd.msg.to \in Clients
  BY <1>1 DEF ToSet
<1> QED
  BY <1>1 DEF TypeOK, PostTypes, ProcTypes, GotTypes, LinkTypes, QueueTypes, ServerTypes,
              SenderTypes, Posts, SenderThreads

\* The parts that a step does not touch keep their types.
LEMMA TypesKept ==
  /\ PostTypes /\ UNCHANGED <<posted, sndrQueue>> => PostTypes'
  /\ ProcTypes /\ UNCHANGED <<proc, csnd>> => ProcTypes'
  /\ GotTypes /\ UNCHANGED <<rcvd, shown>> => GotTypes'
  /\ LinkTypes /\ outconn' \subseteq outconn /\ inconn' \subseteq inconn => LinkTypes'
  /\ QueueTypes /\ UNCHANGED rcvrQueue => QueueTypes'
  /\ ServerTypes /\ UNCHANGED <<srv, store, due>> => ServerTypes'
  /\ SenderTypes /\ UNCHANGED ssnd => SenderTypes'
BY DEF PostTypes, ProcTypes, GotTypes, LinkTypes, QueueTypes, ServerTypes, SenderTypes

\* Every step keeps the variables in their types.
LEMMA TypeStep == IInv /\ [Next]_vars => TypeOK'
<1> SUFFICES ASSUME IInv, [Next]_vars
             PROVE  /\ PostTypes' /\ ProcTypes' /\ GotTypes' /\ LinkTypes'
                    /\ QueueTypes' /\ ServerTypes' /\ SenderTypes'
  <2>1. TypeOK' <=> /\ PostTypes' /\ ProcTypes' /\ GotTypes' /\ LinkTypes'
                    /\ QueueTypes' /\ ServerTypes' /\ SenderTypes'
    BY TypeParts, PTL
  <2> QED
    BY <2>1
<1>0. /\ PostTypes /\ ProcTypes /\ GotTypes /\ LinkTypes
      /\ QueueTypes /\ ServerTypes /\ SenderTypes
  BY TypeParts DEF IInv
<1>o. Origins
  BY DEF IInv
<1> DEFINE Goal == /\ PostTypes' /\ ProcTypes' /\ GotTypes' /\ LinkTypes'
                   /\ QueueTypes' /\ ServerTypes' /\ SenderTypes'
<1> USE DEF clientVars, serverVars
<1>1. ASSUME NEW c \in Clients, NEW k \in Kinds[c], Post(c, k) PROVE Goal
  <2>1. k \in {"upload", "getall", "download"}
    BY KindsAssumption
  <2>2. Acked(c) \in SUBSET (Clients \X Nat)
    <3>0. shown[c] \in Seq(Messages)
      BY <1>0 DEF GotTypes
    <3>1. \A i \in DOMAIN shown[c] : shown[c][i] \in Messages /\ shown[c][i].n \in Nat
      BY <3>0, MessageFields
    <3>2. \A r \in ToSet(shown[c]) : <<c, r.n>> \in Clients \X Nat
      BY <3>1 DEF ToSet
    <3> QED
      BY <3>2 DEF Acked
  <2>3. Msg(c, Server, Len(posted[c]) + 1, k) \in Messages
    BY <1>0, <2>1 DEF Msg, Messages, PostTypes
  <2>4. PostTypes'
    <3>1. [kind |-> k, seen |-> Acked(c)] \in Posts
      BY <2>1, <2>2 DEF Posts
    <3> QED
      BY <1>1, <1>0, <2>3, <3>1 DEF Post, PostTypes
  <2> QED
    BY <1>1, <1>0, <2>4, TypesKept DEF Post
<1>2. ASSUME NEW c \in Clients, PostEnd(c) PROVE Goal
  <2>1. PostTypes'
    BY <1>2, <1>0, EndIsMessage DEF PostEnd, PostTypes
  <2> QED
    BY <1>2, <1>0, <2>1, TypesKept DEF PostEnd
<1>3. ASSUME NEW c \in Clients, GetMessage(c) PROVE Goal
  <2>1. Head(rcvd[c]) \in Messages /\ Tail(rcvd[c]) \in Seq(Messages)
    BY <1>3, <1>0, HeadTail DEF GetMessage, GotTypes
  <2>2. GotTypes'
    BY <1>3, <1>0, <2>1 DEF GetMessage, GotTypes
  <2> QED
    BY <1>3, <1>0, <2>2, TypesKept DEF GetMessage
<1>4. ASSUME NEW c \in Clients, ClientListens(c) PROVE Goal
  <2>1. ProcTypes'
    BY <1>4, <1>0 DEF ClientListens, ProcTypes
  <2> QED
    BY <1>4, <1>0, <2>1, TypesKept DEF ClientListens
<1>5. ASSUME NEW c \in Clients, PressKey(c) PROVE Goal
  <2>1. ProcTypes'
    BY <1>5, <1>0 DEF PressKey, ProcTypes
  <2>2. PostTypes'
    BY <1>5, <1>0, EndIsMessage DEF PressKey, PostTypes
  <2>3. outconn' \subseteq outconn
    BY <1>5 DEF PressKey
  <2> QED
    BY <1>5, <1>0, <2>1, <2>2, <2>3, TypesKept DEF PressKey
<1>6. ASSUME NEW c \in Clients, Exit(c) \/ Die(c) PROVE Goal
  <2>1. ProcTypes'
    BY <1>6, <1>0 DEF Exit, Die, ProcTypes
  <2>2. outconn' \subseteq outconn /\ inconn' \subseteq inconn
    BY <1>6 DEF Exit, Die, DropConnections
  <2> QED
    BY <1>6, <1>0, <2>1, <2>2, TypesKept DEF Exit, Die
<1>7. ASSUME NEW c \in Clients, ClientDeQ(c) PROVE Goal
  <2>1. Head(sndrQueue[c]) \in Messages /\ Tail(sndrQueue[c]) \in Seq(Messages)
    BY <1>7, <1>0, HeadTail DEF ClientDeQ, PostTypes
  <2>2. PostTypes'
    BY <1>7, <1>0, <2>1 DEF ClientDeQ, PostTypes
  <2>3. ProcTypes'
    BY <1>7, <1>0, <2>1 DEF ClientDeQ, ProcTypes, Thread, SenderThreads
  <2> QED
    BY <1>7, <1>0, <2>2, <2>3, TypesKept DEF ClientDeQ
<1>8. ASSUME NEW c \in Clients, ClientConnect(c) PROVE Goal
  <2>1. ProcTypes'
    BY <1>8, <1>0 DEF ClientConnect, ProcTypes, SenderThreads
  <2> QED
    BY <1>8, <1>0, <2>1, TypesKept DEF ClientConnect
<1>9. ASSUME NEW c \in Clients, ClientSend(c) PROVE Goal
  <2>1. ProcTypes'
    BY <1>9, <1>0 DEF ClientSend, ProcTypes, SenderThreads
  <2>2. LinkTypes'
    BY <1>9, <1>0 DEF ClientSend, ProcTypes, SenderThreads, LinkTypes
  <2> QED
    BY <1>9, <1>0, <2>1, <2>2, TypesKept DEF ClientSend
<1>10. ASSUME NEW o \in outconn, ClientReceives(o) PROVE Goal
  <2>1. o \in [msg : Messages, left : Nat] /\ o.left - 1 \in Nat /\ o.msg.to \in Clients
    <3>1. o \in [msg : Messages, left : Nat] /\ o.left > 0
      BY <1>10, <1>0 DEF ClientReceives, LinkTypes
    <3>2. o.msg.to \in Clients
      BY <1>o DEF Origins, Answer
    <3> QED
      BY <3>1, <3>2
  <2>2. LinkTypes'
    BY <1>10, <1>0, <2>1 DEF ClientReceives, LinkTypes
  <2>3. GotTypes'
    BY <1>10, <1>0, <2>1 DEF ClientReceives, GotTypes
  <2> QED
    BY <1>10, <1>0, <2>2, <2>3, TypesKept DEF ClientReceives
<1>11. ASSUME NEW i \in inconn, Handle(i) \/ FailUpload(i) PROVE Goal
  <2>1. i.msg \in Messages /\ (i.stage = "sent" => i.msg.from \in Clients)
    BY <1>0, <1>o DEF Origins, Request, LinkTypes
  <2>2. ASSUME NEW l \in SUBSET (Clients \X Nat), Handled(i, Reply(i.msg, l)), UNCHANGED outconn
        PROVE  LinkTypes'
    BY <1>0, <2>1, <2>2, ReplyIsMessage DEF Handled, LinkTypes
  <2>3. CASE StoreUpload(i)
    <3>1. ServerTypes'
      BY <1>0, <2>1, <2>3 DEF StoreUpload, Messages, ServerTypes
    <3>2. LinkTypes'
      BY <2>2, <2>3 DEF StoreUpload
    <3> QED
      BY <1>0, <2>3, <3>1, <3>2, TypesKept DEF StoreUpload
  <2>4. CASE ListFiles(i)
    <3>1. LinkTypes'
      BY <1>0, <2>2, <2>4 DEF ListFiles, ServerTypes
    <3> QED
      BY <1>0, <2>4, <3>1, TypesKept DEF ListFiles
  <2>5. CASE AcceptDownload(i)
    <3>1. LinkTypes'
      BY <2>2, <2>5 DEF AcceptDownload
    <3> QED
      BY <1>0, <2>5, <3>1, TypesKept DEF AcceptDownload
  <2>6. CASE EnqueueReply(i)
    <3>1. PICK a \in Answers(i.msg) : rcvrQueue' = Append(rcvrQueue, a)
      BY <2>6 DEF EnqueueReply
    <3>2. a \in Messages /\ a.to = i.msg.to
      BY <1>0, <2>1, AnswersAre DEF ServerTypes
    <3>3. i.msg.to \in Clients
      BY <1>o, <2>6 DEF Origins, Answer, EnqueueReply
    <3>4. QueueTypes'
      BY <1>0, <3>1, <3>2, <3>3 DEF QueueTypes
    <3>5. outconn' \subseteq outconn /\ inconn' \subseteq inconn
      BY <2>6 DEF EnqueueReply
    <3> QED
      BY <1>0, <2>6, <3>4, <3>5, TypesKept DEF EnqueueReply
  <2>7. CASE FailUpload(i)
    <3>1. outconn' \subseteq outconn /\ inconn' \subseteq inconn
      BY <2>7 DEF FailUpload
    <3> QED
      BY <1>0, <2>7, <3>1, TypesKept DEF FailUpload
  <2> QED
    BY <1>11, <2>3, <2>4, <2>5, <2>6, <2>7 DEF Handle
<1>12. CASE ServerDeQ
  <2>1. /\ Head(rcvrQueue) \in Messages /\ Head(rcvrQueue) = rcvrQueue[1] /\ 1 \in DOMAIN rcvrQueue
        /\ Tail(rcvrQueue) \in Seq(Messages)
        /\ \A i \in DOMAIN Tail(rcvrQueue) : i + 1 \in DOMAIN rcvrQueue /\ Tail(rcvrQueue)[i] = rcvrQueue[i + 1]
    BY <1>12, <1>0, HeadTail DEF ServerDeQ, QueueTypes
  <2>2. QueueTypes'
    BY <1>12, <1>0, <2>1 DEF ServerDeQ, QueueTypes
  <2>3. SenderTypes'
    BY <1>12, <1>0, <2>1 DEF ServerDeQ, Thread, QueueTypes, SenderTypes, SenderThreads
  <2> QED
    BY <1>12, <1>0, <2>2, <2>3, TypesKept DEF ServerDeQ
<1>13. CASE ServerConnect
  <2>1. SenderTypes'
    BY <1>13, <1>0 DEF ServerConnect, SenderTypes, SenderThreads
  <2> QED
    BY <1>13, <1>0, <2>1, TypesKept DEF ServerConnect
<1>14. CASE ServerSend
  <2>1. ASSUME NEW k \in IF ssnd.msg.kind = "download" THEN Downloads ELSE {1}
        PROVE  [msg |-> ssnd.msg, left |-> k] \in [msg : Messages, left : Nat]
    BY <1>0, BoundsAssumption DEF SenderTypes, SenderThreads
  <2>2. LinkTypes'
    BY <1>14, <1>0, <2>1 DEF ServerSend, LinkTypes
  <2>3. SenderTypes'
    BY <1>14, <1>0 DEF ServerSend, SenderTypes, SenderThreads
  <2> QED
    BY <1>14, <1>0, <2>2, <2>3, TypesKept DEF ServerSend
<1>15. CASE ServerMain
  <2>1. ServerTypes'
    BY <1>15, <1>0 DEF ServerMain, ServerListens, CloseListener, ServerExit, ServerTypes
  <2>2. outconn' \subseteq outconn /\ inconn' \subseteq inconn
    BY <1>15 DEF ServerMain, ServerListens, CloseListener, ServerExit
  <2> QED
    BY <1>15, <1>0, <2>1, <2>2, TypesKept DEF ServerMain, ServerListens, CloseListener, ServerExit
<1>16. CASE PressServerKey
  <2>1. QueueTypes'
    BY <1>16, <1>0, EndIsMessage DEF PressServerKey, QueueTypes
  <2>2. ServerTypes'
    BY <1>16, <1>0 DEF PressServerKey, Pending, QueueTypes, SenderTypes, SenderThreads, ServerTypes, ToSet
  <2> QED
    BY <1>16, <1>0, <2>1, <2>2, TypesKept DEF PressServerKey
<1>17. CASE UNCHANGED vars
  BY <1>17, <1>0, TypesKept DEF vars
<1> QED
  BY <1>1, <1>2, <1>3, <1>4, <1>5, <1>6, <1>7, <1>8, <1>9, <1>10, <1>11, <1>12, <1>13, <1>14,
     <1>15, <1>16, <1>17 DEF Next, ClientSender, ServerSender

------------------------------------------------------------------------------
(* Which steps touch what.                                                   *)

\* The steps that change what waits in a client, and what a client has got.
LEMMA ClientTouches ==
  [Next]_vars =>
    /\ posted' = posted \/ \E c \in Clients : \E k \in Kinds[c] : Post(c, k)
    /\ \/ sndrQueue' = sndrQueue
       \/ \E c \in Clients : \/ \E k \in Kinds[c] : Post(c, k)
                             \/ PostEnd(c) \/ PressKey(c) \/ ClientDeQ(c)
    /\ csnd' = csnd \/ \E c \in Clients : ClientSender(c)
    /\ \/ UNCHANGED <<rcvd, shown>>
       \/ \E c \in Clients : GetMessage(c)
       \/ \E o \in outconn : ClientReceives(o)
BY ZenonT(30) DEF Next, vars, clientVars, serverVars, Handle, ClientSender, ServerSender, ServerMain,
       Post, PostEnd, GetMessage, ClientListens, PressKey, Exit, Die, ClientReceives, ClientDeQ,
       ClientConnect, ClientSend, StoreUpload, FailUpload, ListFiles, AcceptDownload, EnqueueReply,
       ServerDeQ, ServerConnect, ServerSend, ServerListens, PressServerKey, CloseListener, ServerExit

\* The steps that put something on a connection.
LEMMA LinkTouches ==
  [Next]_vars =>
    /\ \/ inconn' \subseteq inconn
       \/ \E c \in Clients : ClientSend(c)
       \/ \E i \in inconn : StoreUpload(i) \/ ListFiles(i) \/ AcceptDownload(i)
    /\ \/ outconn' \subseteq outconn
       \/ \E o \in outconn : ClientReceives(o)
       \/ ServerSend
BY DEF Next, vars, clientVars, serverVars, Handle, ClientSender, ServerSender, ServerMain,
       Post, PostEnd, GetMessage, ClientListens, PressKey, Exit, Die, ClientReceives, ClientDeQ,
       ClientConnect, ClientSend, StoreUpload, FailUpload, ListFiles, AcceptDownload, EnqueueReply,
       ServerDeQ, ServerConnect, ServerSend, ServerListens, PressServerKey, CloseListener, ServerExit,
       DropConnections

\* The steps that change what the server keeps.
LEMMA ServerTouches ==
  [Next]_vars =>
    /\ store' = store \/ \E i \in inconn : StoreUpload(i)
    /\ rcvrQueue' = rcvrQueue \/ ServerDeQ \/ PressServerKey \/ \E i \in inconn : EnqueueReply(i)
    /\ ssnd' = ssnd \/ ServerSender
    /\ due' = due \/ PressServerKey
    /\ srv' = srv \/ ServerMain \/ PressServerKey
BY DEF Next, vars, clientVars, serverVars, Handle, ClientSender, ServerSender, ServerMain,
       Post, PostEnd, GetMessage, ClientListens, PressKey, Exit, Die, ClientReceives, ClientDeQ,
       ClientConnect, ClientSend, StoreUpload, FailUpload, ListFiles, AcceptDownload, EnqueueReply,
       ServerDeQ, ServerConnect, ServerSend, ServerListens, PressServerKey, CloseListener, ServerExit

\* What was posted stays posted, with its number, and what is stored stays stored.
LEMMA Growing ==
  IInv /\ [Next]_vars =>
    /\ store \subseteq store'
    /\ \A c \in Clients : /\ Len(posted[c]) \in Nat /\ Len(posted'[c]) \in Nat
                          /\ Len(posted[c]) <= Len(posted'[c])
                          /\ \A n \in 1..Len(posted[c]) : posted'[c][n] = posted[c][n]
<1> SUFFICES ASSUME IInv, [Next]_vars
             PROVE  /\ store \subseteq store'
                    /\ \A c \in Clients : /\ Len(posted[c]) \in Nat /\ Len(posted'[c]) \in Nat
                                          /\ Len(posted[c]) <= Len(posted'[c])
                                          /\ \A n \in 1..Len(posted[c]) : posted'[c][n] = posted[c][n]
  OBVIOUS
<1>0. posted \in [Clients -> Seq(Posts)]
  BY TypeParts DEF IInv, PostTypes
<1>1. store \subseteq store'
  BY ServerTouches DEF StoreUpload
<1>2. ASSUME NEW c \in Clients, posted' = posted
      PROVE  /\ Len(posted[c]) \in Nat /\ Len(posted'[c]) \in Nat
             /\ Len(posted[c]) <= Len(posted'[c])
             /\ \A n \in 1..Len(posted[c]) : posted'[c][n] = posted[c][n]
  <2>1. posted[c] \in Seq(Posts)
    BY <1>0
  <2> QED
    BY <1>2, <2>1
<1>3. ASSUME NEW d \in Clients, NEW k \in Kinds[d], Post(d, k), NEW c \in Clients
      PROVE  /\ Len(posted[c]) \in Nat /\ Len(posted'[c]) \in Nat
             /\ Len(posted[c]) <= Len(posted'[c])
             /\ \A n \in 1..Len(posted[c]) : posted'[c][n] = posted[c][n]
  <2>1. posted[c] \in Seq(Posts)
    BY <1>0
  <2>2. posted'[c] = IF c = d THEN Append(posted[c], [kind |-> k, seen |-> Acked(d)]) ELSE posted[c]
    BY <1>0, <1>3 DEF Post
  <2> QED
    BY <2>1, <2>2
<1> QED
  BY <1>1, <1>2, <1>3, ClientTouches

\* So requests stay requests, and answers stay true.
LEMMA Lasting ==
  IInv /\ [Next]_vars => \A m : (Request(m, posted) => Request(m, posted')) /\ (Answer(m, posted, store) => Answer(m, posted', store'))
<1> SUFFICES ASSUME IInv, [Next]_vars, NEW m
             PROVE  (Request(m, posted) => Request(m, posted')) /\ (Answer(m, posted, store) => Answer(m, posted', store'))
  OBVIOUS
<1>1. ASSUME Request(m, posted) PROVE Request(m, posted')
  <2>1. m.n \in 1..Len(posted'[m.from]) /\ posted'[m.from][m.n] = posted[m.from][m.n]
    BY <1>1, Growing DEF Request
  <2> QED
    BY <1>1, <2>1 DEF Request
<1>2. ASSUME Answer(m, posted, store) PROVE Answer(m, posted', store')
  <2>1. m.n \in 1..Len(posted'[m.to]) /\ posted'[m.to][m.n] = posted[m.to][m.n]
    BY <1>2, Growing DEF Answer
  <2> QED
    BY <1>2, <2>1, Growing DEF Answer
<1> QED
  BY <1>1, <1>2

\* The messages a client has got are a sequence, to which only ClientReceives adds;
\* getMessage moves one within it.
LEMMA GotMoves ==
  IInv /\ [Next]_vars =>
    /\ \A c \in Clients : Got(c) \in Seq(Messages)
    /\ \A o \in outconn : ClientReceives(o) =>
         /\ o.msg.to \in Clients /\ o.msg \in Messages
         /\ \A c \in Clients : Got(c)' = IF c = o.msg.to THEN Append(Got(c), o.msg) ELSE Got(c)
    /\ (\A c \in Clients : Got(c)' = Got(c)) \/ \E o \in outconn : ClientReceives(o)
<1> SUFFICES ASSUME IInv, [Next]_vars
             PROVE  /\ \A c \in Clients : Got(c) \in Seq(Messages)
                    /\ \A o \in outconn : ClientReceives(o) =>
                         /\ o.msg.to \in Clients /\ o.msg \in Messages
                         /\ \A c \in Clients : Got(c)' = IF c = o.msg.to THEN Append(Got(c), o.msg) ELSE Got(c)
                    /\ (\A c \in Clients : Got(c)' = Got(c)) \/ \E o \in outconn : ClientReceives(o)
  OBVIOUS
<1>0. /\ rcvd \in [Clients -> Seq(Messages)] /\ shown \in [Clients -> Seq(Messages)]
      /\ outconn \subseteq [msg : Messages, left : Nat]
      /\ \A o \in outconn : Answer(o.msg, posted, store)
  BY TypeParts DEF IInv, GotTypes, LinkTypes, Origins
<1>t. \A c \in Clients : rcvd[c] \in Seq(Messages) /\ shown[c] \in Seq(Messages)
  BY <1>0
<1>1. \A c \in Clients : Got(c) \in Seq(Messages)
  BY <1>t DEF Got
<1>2. ASSUME UNCHANGED <<rcvd, shown>>, NEW c \in Clients PROVE Got(c)' = Got(c)
  BY <1>2 DEF Got
<1>3. ASSUME NEW d \in Clients, GetMessage(d), NEW c \in Clients PROVE Got(c)' = Got(c)
  <2>1. CASE c = d
    <3>1. rcvd'[c] = Tail(rcvd[c]) /\ shown'[c] = Append(shown[c], Head(rcvd[c])) /\ rcvd[c] # <<>>
      BY <1>0, <1>3, <2>1 DEF GetMessage
    <3>2. ASSUME NEW S, NEW s \in Seq(S), NEW r \in Seq(S), r # <<>>
          PROVE  Append(s, Head(r)) \o Tail(r) = s \o r
      BY <3>2
    <3> QED
      BY <1>t, <3>1, <3>2 DEF Got
  <2>2. CASE c # d
    BY <1>0, <1>3, <2>2 DEF GetMessage, Got
  <2> QED
    BY <2>1, <2>2
<1>4. ASSUME NEW o \in outconn, ClientReceives(o)
      PROVE  /\ o.msg.to \in Clients /\ o.msg \in Messages
             /\ \A c \in Clients : Got(c)' = IF c = o.msg.to THEN Append(Got(c), o.msg) ELSE Got(c)
  <2>1. o.msg.to \in Clients /\ o.msg \in Messages
    BY <1>0 DEF Answer
  <2>2. ASSUME NEW c \in Clients
        PROVE  Got(c)' = IF c = o.msg.to THEN Append(Got(c), o.msg) ELSE Got(c)
    <3>1. shown'[c] = shown[c] /\ rcvd'[c] = IF c = o.msg.to THEN Append(rcvd[c], o.msg) ELSE rcvd[c]
      BY <1>0, <1>4 DEF ClientReceives
    <3>2. \A s, r \in Seq(Messages) : \A e \in Messages : s \o Append(r, e) = Append(s \o r, e)
      OBVIOUS
    <3>3. shown[c] \o Append(rcvd[c], o.msg) = Append(shown[c] \o rcvd[c], o.msg)
      BY <1>t, <2>1, <3>2
    <3>4. Got(c)' = shown[c] \o rcvd'[c]
      BY <3>1 DEF Got
    <3> QED
      BY <3>1, <3>3, <3>4 DEF Got
  <2> QED
    BY <2>1, <2>2
<1> QED
  BY <1>1, <1>2, <1>3, <1>4, ClientTouches

------------------------------------------------------------------------------
(* Every step keeps Origins and SeenStored.                                  *)

\* What waits in a client to be sent was posted by it.
LEMMA PostedOrigins ==
  IInv /\ [Next]_vars =>
    /\ \A c \in Clients : \A i \in DOMAIN sndrQueue'[c] :
         sndrQueue'[c][i] = End \/ (Request(sndrQueue'[c][i], posted') /\ sndrQueue'[c][i].from = c)
    /\ \A c \in Clients : Active(csnd'[c]) => Request(csnd'[c].msg, posted') /\ csnd'[c].msg.from = c
<1> SUFFICES ASSUME IInv, [Next]_vars, NEW c \in Clients
             PROVE  /\ \A i \in DOMAIN sndrQueue'[c] :
                         sndrQueue'[c][i] = End \/ (Request(sndrQueue'[c][i], posted') /\ sndrQueue'[c][i].from = c)
                    /\ Active(csnd'[c]) => Request(csnd'[c].msg, posted') /\ csnd'[c].msg.from = c
  OBVIOUS
<1>0. /\ sndrQueue \in [Clients -> Seq(Messages)] /\ posted \in [Clients -> Seq(Posts)]
      /\ csnd \in [Clients -> SenderThreads]
      /\ \A d \in Clients : \A i \in DOMAIN sndrQueue[d] :
           sndrQueue[d][i] = End \/ (Request(sndrQueue[d][i], posted) /\ sndrQueue[d][i].from = d)
      /\ \A d \in Clients : Active(csnd[d]) => Request(csnd[d].msg, posted) /\ csnd[d].msg.from = d
  BY TypeParts DEF IInv, Origins, PostTypes, ProcTypes
<1>1. \A m : Request(m, posted) => Request(m, posted')
  BY Lasting
<1>q. sndrQueue[c] \in Seq(Messages)
  BY <1>0
<1>2. ASSUME NEW e \in Messages, e = End \/ (Request(e, posted') /\ e.from = c), sndrQueue'[c] = Append(sndrQueue[c], e)
      PROVE  \A i \in DOMAIN sndrQueue'[c] :
               sndrQueue'[c][i] = End \/ (Request(sndrQueue'[c][i], posted') /\ sndrQueue'[c][i].from = c)
  <2>1. \A i \in DOMAIN sndrQueue'[c] : sndrQueue'[c][i] = e \/ (i \in DOMAIN sndrQueue[c] /\ sndrQueue'[c][i] = sndrQueue[c][i])
    BY <1>q, <1>2
  <2> QED
    BY <1>0, <1>1, <1>2, <2>1
<1>3. \A i \in DOMAIN sndrQueue'[c] :
        sndrQueue'[c][i] = End \/ (Request(sndrQueue'[c][i], posted') /\ sndrQueue'[c][i].from = c)
  <2> DEFINE Goal == \A i \in DOMAIN sndrQueue'[c] :
                       sndrQueue'[c][i] = End \/ (Request(sndrQueue'[c][i], posted') /\ sndrQueue'[c][i].from = c)
  <2>1. CASE sndrQueue' = sndrQueue
    BY <1>0, <1>1, <2>1
  <2>2. ASSUME NEW d \in Clients, NEW k \in Kinds[d], Post(d, k)
        PROVE  sndrQueue'[c] = sndrQueue[c] \/
               (c = d /\ sndrQueue'[c] = Append(sndrQueue[c], Msg(c, Server, Len(posted[c]) + 1, k)))
    BY <1>0, <2>2 DEF Post
  <2>3. ASSUME NEW k \in Kinds[c], Post(c, k)
        PROVE  LET e == Msg(c, Server, Len(posted[c]) + 1, k) IN e \in Messages /\ Request(e, posted') /\ e.from = c
    <3>1. posted[c] \in Seq(Posts) /\ posted'[c] = Append(posted[c], [kind |-> k, seen |-> Acked(c)])
      BY <1>0, <2>3 DEF Post
    <3>2. k \in {"upload", "getall", "download"}
      BY KindsAssumption
    <3>3. Len(posted'[c]) = Len(posted[c]) + 1 /\ posted'[c][Len(posted[c]) + 1].kind = k /\ Len(posted[c]) \in Nat
      BY <3>1
    <3> QED
      BY <3>2, <3>3 DEF Msg, Messages, Request
  <2>4. ASSUME NEW d \in Clients, PostEnd(d) \/ PressKey(d)
        PROVE  sndrQueue'[c] = sndrQueue[c] \/ sndrQueue'[c] = Append(sndrQueue[c], End)
    BY <1>0, <2>4 DEF PostEnd, PressKey
  <2>5. ASSUME NEW d \in Clients, ClientDeQ(d)
        PROVE  sndrQueue'[c] = sndrQueue[c] \/ (sndrQueue[c] # <<>> /\ sndrQueue'[c] = Tail(sndrQueue[c]))
    BY <1>0, <2>5 DEF ClientDeQ
  <2>6. ASSUME sndrQueue[c] # <<>>, sndrQueue'[c] = Tail(sndrQueue[c])
        PROVE  \A i \in DOMAIN sndrQueue'[c] : i + 1 \in DOMAIN sndrQueue[c] /\ sndrQueue'[c][i] = sndrQueue[c][i + 1]
    BY <1>q, <2>6, HeadTail
  <2>7. CASE sndrQueue'[c] = sndrQueue[c]
    BY <1>0, <1>1, <2>7
  <2>8. ASSUME NEW d \in Clients, NEW k \in Kinds[d], Post(d, k) PROVE Goal
    BY <1>2, <2>2, <2>3, <2>7, <2>8
  <2>9. ASSUME NEW d \in Clients, PostEnd(d) \/ PressKey(d) PROVE Goal
    BY <1>2, <2>4, <2>7, <2>9, EndIsMessage
  <2>10. ASSUME NEW d \in Clients, ClientDeQ(d) PROVE Goal
    <3>1. CASE sndrQueue[c] # <<>> /\ sndrQueue'[c] = Tail(sndrQueue[c])
      BY <1>0, <1>1, <2>6, <3>1
    <3> QED
      BY <2>5, <2>7, <2>10, <3>1
  <2> QED
    BY <2>1, <2>8, <2>9, <2>10, ClientTouches
<1>4. Active(csnd'[c]) => Request(csnd'[c].msg, posted') /\ csnd'[c].msg.from = c
  <2>1. CASE csnd'[c] = csnd[c]
    BY <1>0, <1>1, <2>1
  <2>2. CASE ClientDeQ(c)
    <3>1. /\ Head(sndrQueue[c]) = sndrQueue[c][1] /\ 1 \in DOMAIN sndrQueue[c]
          /\ csnd'[c] = Thread(IF Head(sndrQueue[c]) = End THEN "ended" ELSE "connect", Head(sndrQueue[c]))
      BY <1>0, <1>q, <2>2, HeadTail DEF ClientDeQ
    <3> QED
      BY <1>0, <1>1, <3>1 DEF Thread, Active
  <2>3. CASE ClientConnect(c) \/ ClientSend(c)
    <3>1. csnd'[c].msg = csnd[c].msg /\ Active(csnd[c])
      BY <1>0, <2>3 DEF ClientConnect, ClientSend, Active, SenderThreads
    <3> QED
      BY <1>0, <1>1, <3>1
  <2>4. ASSUME NEW d \in Clients, d # c, ClientSender(d) PROVE csnd'[c] = csnd[c]
    BY <1>0, <2>4 DEF ClientSender, ClientDeQ, ClientConnect, ClientSend
  <2> QED
    BY <2>1, <2>2, <2>3, <2>4, ClientTouches DEF ClientSender
<1> QED
  BY <1>3, <1>4

\* What a handler thread makes of a request is a true answer to it.
LEMMA ReplyAnswers ==
  ASSUME IInv, NEW i \in inconn, i.stage = "sent", NEW l \in SUBSET (Clients \X Nat), NEW s,
         i.msg.kind = "upload" => <<i.msg.from, i.msg.n>> \in s,
         i.msg.kind = "getall" => store \subseteq l
  PROVE  Answer(Reply(i.msg, l), posted, s)
<1>1. i.msg \in Messages /\ Request(i.msg, posted)
  BY TypeParts DEF IInv, LinkTypes, Origins
<1>2. /\ Reply(i.msg, l).to = i.msg.from /\ Reply(i.msg, l).n = i.msg.n
      /\ Reply(i.msg, l).kind = i.msg.kind /\ Reply(i.msg, l).listed = l
  BY <1>1, ReplyIsMessage
<1>3. posted[i.msg.from][i.msg.n].seen \subseteq store
  <2>1. posted[i.msg.from] \in Seq(Posts)
    BY <1>1, TypeParts DEF IInv, PostTypes, Request
  <2> QED
    BY <1>1, <2>1 DEF IInv, SeenStored, Request
<1> QED
  BY <1>1, <1>2, <1>3 DEF Answer, Request

\* What travels to the server was posted, and what its handler threads hold is true.
LEMMA HandledOrigins ==
  IInv /\ [Next]_vars =>
    \A i \in inconn' : IF i.stage = "sent" THEN Request(i.msg, posted') ELSE Answer(i.msg, posted', store')
<1> SUFFICES ASSUME IInv, [Next]_vars, NEW i \in inconn'
             PROVE  IF i.stage = "sent" THEN Request(i.msg, posted') ELSE Answer(i.msg, posted', store')
  OBVIOUS
<1>1. \A m : (Request(m, posted) => Request(m, posted')) /\ (Answer(m, posted, store) => Answer(m, posted', store'))
  BY Lasting
<1>2. \A j \in inconn : IF j.stage = "sent" THEN Request(j.msg, posted) ELSE Answer(j.msg, posted, store)
  BY DEF IInv, Origins
<1>3. ASSUME NEW c \in Clients, ClientSend(c), i \notin inconn
      PROVE  i.stage = "sent" /\ Request(i.msg, posted')
  <2>1. i = [msg |-> csnd[c].msg, stage |-> "sent"] /\ Active(csnd[c])
    BY <1>3 DEF ClientSend, Active
  <2> QED
    BY <1>1, <2>1 DEF IInv, Origins
<1>4. ASSUME NEW j \in inconn, StoreUpload(j) \/ ListFiles(j) \/ AcceptDownload(j), i \notin inconn
      PROVE  i.stage = "reply" /\ Answer(i.msg, posted', store')
  <2>1. posted' = posted /\ store \subseteq Clients \X Nat
    BY <1>4, TypeParts DEF IInv, ServerTypes, StoreUpload, ListFiles, AcceptDownload, clientVars
  <2>2. CASE StoreUpload(j)
    <3>1. i = [msg |-> Reply(j.msg, {}), stage |-> "reply"] /\ store' = store \cup {<<j.msg.from, j.msg.n>>}
      BY <1>4, <2>2 DEF StoreUpload, Handled
    <3>2. Answer(Reply(j.msg, {}), posted, store')
      BY <2>2, <3>1, ReplyAnswers DEF StoreUpload
    <3> QED
      BY <2>1, <3>1, <3>2
  <2>3. CASE ListFiles(j)
    <3>1. i = [msg |-> Reply(j.msg, store), stage |-> "reply"] /\ store' = store
      BY <1>4, <2>3 DEF ListFiles, Handled, serverVars
    <3>2. Answer(Reply(j.msg, store), posted, store)
      BY <2>1, <2>3, ReplyAnswers DEF ListFiles
    <3> QED
      BY <2>1, <3>1, <3>2
  <2>4. CASE AcceptDownload(j)
    <3>1. i = [msg |-> Reply(j.msg, {}), stage |-> "reply"] /\ store' = store
      BY <1>4, <2>4 DEF AcceptDownload, Handled, serverVars
    <3>2. Answer(Reply(j.msg, {}), posted, store)
      BY <2>4, ReplyAnswers DEF AcceptDownload
    <3> QED
      BY <2>1, <3>1, <3>2
  <2> QED
    BY <1>4, <2>2, <2>3, <2>4
<1> QED
  BY <1>1, <1>2, <1>3, <1>4, LinkTouches

\* The answers in the server's queue and in its sender thread are true.
LEMMA QueuedOrigins ==
  IInv /\ [Next]_vars =>
    /\ \A i \in DOMAIN rcvrQueue' : rcvrQueue'[i] = End \/ Answer(rcvrQueue'[i], posted', store')
    /\ Active(ssnd') => Answer(ssnd'.msg, posted', store')
<1> SUFFICES ASSUME IInv, [Next]_vars
             PROVE  /\ \A i \in DOMAIN rcvrQueue' : rcvrQueue'[i] = End \/ Answer(rcvrQueue'[i], posted', store')
                    /\ Active(ssnd') => Answer(ssnd'.msg, posted', store')
  OBVIOUS
<1>0. /\ rcvrQueue \in Seq(Messages) /\ ssnd \in SenderThreads
      /\ \A i \in DOMAIN rcvrQueue : rcvrQueue[i] = End \/ Answer(rcvrQueue[i], posted, store)
      /\ Active(ssnd) => Answer(ssnd.msg, posted, store)
  BY TypeParts DEF IInv, Origins, QueueTypes, SenderTypes
<1>1. \A m : Answer(m, posted, store) => Answer(m, posted', store')
  BY Lasting
<1>2. ASSUME NEW e \in Messages, e = End \/ Answer(e, posted', store'), rcvrQueue' = Append(rcvrQueue, e)
      PROVE  \A i \in DOMAIN rcvrQueue' : rcvrQueue'[i] = End \/ Answer(rcvrQueue'[i], posted', store')
  <2>1. \A i \in DOMAIN rcvrQueue' : rcvrQueue'[i] = e \/ (i \in DOMAIN rcvrQueue /\ rcvrQueue'[i] = rcvrQueue[i])
    BY <1>0, <1>2
  <2> QED
    BY <1>0, <1>1, <1>2, <2>1
<1>3. ASSUME rcvrQueue # <<>>
      PROVE  /\ Head(rcvrQueue) = rcvrQueue[1] /\ 1 \in DOMAIN rcvrQueue
             /\ \A i \in DOMAIN Tail(rcvrQueue) : i + 1 \in DOMAIN rcvrQueue /\ Tail(rcvrQueue)[i] = rcvrQueue[i + 1]
  BY <1>0, <1>3, HeadTail
<1>4. \A i \in DOMAIN rcvrQueue' : rcvrQueue'[i] = End \/ Answer(rcvrQueue'[i], posted', store')
  <2>1. CASE rcvrQueue' = rcvrQueue
    BY <1>0, <1>1, <2>1
  <2>2. CASE ServerDeQ
    BY <1>0, <1>1, <1>3, <2>2 DEF ServerDeQ
  <2>3. CASE PressServerKey
    BY <1>2, <2>3, EndIsMessage DEF PressServerKey
  <2>4. ASSUME NEW j \in inconn, EnqueueReply(j)
        PROVE  \A i \in DOMAIN rcvrQueue' : rcvrQueue'[i] = End \/ Answer(rcvrQueue'[i], posted', store')
    <3>1. PICK a \in Answers(j.msg) : rcvrQueue' = Append(rcvrQueue, a)
      BY <2>4 DEF EnqueueReply
    <3>2. j.msg \in Messages /\ store \subseteq Clients \X Nat
      BY TypeParts DEF IInv, LinkTypes, ServerTypes
    <3>3. /\ a \in Messages /\ a.to = j.msg.to /\ a.n = j.msg.n /\ a.kind = j.msg.kind
          /\ j.msg.kind = "getall" => j.msg.listed \subseteq a.listed
      BY <3>2, AnswersAre
    <3>4. Answer(j.msg, posted', store')
      BY <1>1, <2>4 DEF IInv, Origins, EnqueueReply
    <3>5. Answer(a, posted', store')
      BY <3>3, <3>4 DEF Answer
    <3> QED
      BY <1>2, <3>1, <3>3, <3>5
  <2> QED
    BY <2>1, <2>2, <2>3, <2>4, ServerTouches
<1>5. Active(ssnd') => Answer(ssnd'.msg, posted', store')
  <2>1. CASE ssnd' = ssnd
    BY <1>0, <1>1, <2>1
  <2>2. CASE ServerDeQ
    BY <1>0, <1>1, <1>3, <2>2 DEF ServerDeQ, Thread, Active
  <2>3. CASE ServerConnect \/ ServerSend
    <3>1. ssnd'.msg = ssnd.msg /\ Active(ssnd)
      BY <1>0, <2>3 DEF ServerConnect, ServerSend, Active, SenderThreads
    <3> QED
      BY <1>0, <1>1, <3>1
  <2> QED
    BY <2>1, <2>2, <2>3, ServerTouches DEF ServerSender
<1> QED
  BY <1>4, <1>5

\* The answers on the connections and at the clients are true.
LEMMA GotOrigins ==
  IInv /\ [Next]_vars =>
    /\ \A o \in outconn' : Answer(o.msg, posted', store')
    /\ \A c \in Clients : \A i \in DOMAIN Got(c)' : Answer(Got(c)'[i], posted', store') /\ Got(c)'[i].to = c
<1> SUFFICES ASSUME IInv, [Next]_vars
             PROVE  /\ \A o \in outconn' : Answer(o.msg, posted', store')
                    /\ \A c \in Clients : \A i \in DOMAIN Got(c)' :
                         Answer(Got(c)'[i], posted', store') /\ Got(c)'[i].to = c
  OBVIOUS
<1>0. /\ \A o \in outconn : Answer(o.msg, posted, store) /\ o \in [msg : Messages, left : Nat]
      /\ \A c \in Clients : \A i \in DOMAIN Got(c) : Answer(Got(c)[i], posted, store) /\ Got(c)[i].to = c
      /\ Active(ssnd) => Answer(ssnd.msg, posted, store)
  BY TypeParts DEF IInv, Origins, LinkTypes
<1>1. \A m : Answer(m, posted, store) => Answer(m, posted', store')
  BY Lasting
<1>2. ASSUME NEW o \in outconn' PROVE Answer(o.msg, posted', store')
  <2>1. ASSUME NEW p \in outconn, ClientReceives(p) PROVE Answer(o.msg, posted', store')
    <3>1. o \in outconn \/ o = [p EXCEPT !.left = @ - 1]
      BY <2>1 DEF ClientReceives
    <3>2. o \in outconn \/ o.msg = p.msg
      BY <1>0, <3>1
    <3> QED
      BY <1>0, <1>1, <3>2
  <2>2. CASE ServerSend
    <3>1. o \in outconn \/ o.msg = ssnd.msg
      BY <2>2 DEF ServerSend
    <3> QED
      BY <1>0, <1>1, <2>2, <3>1 DEF ServerSend, Active
  <2> QED
    BY <1>0, <1>1, <2>1, <2>2, LinkTouches
<1>3. ASSUME NEW c \in Clients, NEW i \in DOMAIN Got(c)'
      PROVE  Answer(Got(c)'[i], posted', store') /\ Got(c)'[i].to = c
  <2>1. Got(c) \in Seq(Messages)
    BY GotMoves
  <2>2. CASE Got(c)' = Got(c)
    BY <1>0, <1>1, <2>2
  <2>3. ASSUME NEW o \in outconn, o.msg \in Messages, c = o.msg.to, Got(c)' = Append(Got(c), o.msg)
        PROVE  Answer(Got(c)'[i], posted', store') /\ Got(c)'[i].to = c
    <3>1. Got(c)'[i] = o.msg \/ (i \in DOMAIN Got(c) /\ Got(c)'[i] = Got(c)[i])
      BY <2>1, <2>3
    <3> QED
      BY <1>0, <1>1, <2>3, <3>1
  <2> QED
    BY <2>2, <2>3, GotMoves
<1> QED
  BY <1>2, <1>3

\* A client is told that an upload is stored when it is.
LEMMA SeenStep == IInv /\ [Next]_vars => SeenStored'
<1> SUFFICES ASSUME IInv, [Next]_vars, NEW c \in Clients, NEW n \in DOMAIN posted'[c]
             PROVE  posted'[c][n].seen \subseteq store'
  BY DEF SeenStored
<1>0. posted[c] \in Seq(Posts) /\ posted \in [Clients -> Seq(Posts)]
  BY TypeParts DEF IInv, PostTypes
<1>1. CASE n \in DOMAIN posted[c]
  <2>1. posted'[c][n] = posted[c][n]
    BY <1>0, <1>1, Growing
  <2> QED
    BY <1>1, <2>1, Growing DEF IInv, SeenStored
<1>2. CASE n \notin DOMAIN posted[c]
  <2>1. PICK d \in Clients : \E k \in Kinds[d] : Post(d, k)
    BY <1>2, ClientTouches
  <2>2. c = d /\ posted'[c][n].seen = Acked(c) /\ store' = store
    BY <1>0, <1>2, <2>1 DEF Post, serverVars
  <2>3. Acked(c) \subseteq store
    <3>0. shown[c] \in Seq(Messages) /\ rcvd[c] \in Seq(Messages)
      BY TypeParts DEF IInv, GotTypes
    <3>1. \A i \in DOMAIN Got(c) : Answer(Got(c)[i], posted, store) /\ Got(c)[i].to = c
      BY DEF IInv, Origins
    <3>2. \A i \in DOMAIN shown[c] : i \in DOMAIN Got(c) /\ Got(c)[i] = shown[c][i]
      <4>1. \A s, r \in Seq(Messages) : \A i \in DOMAIN s : i \in DOMAIN (s \o r) /\ (s \o r)[i] = s[i]
        OBVIOUS
      <4>2. Got(c) = shown[c] \o rcvd[c]
        BY DEF Got
      <4> HIDE DEF Got
      <4> QED
        BY ZenonT(30), <3>0, <4>1, <4>2
    <3>3. \A r \in ToSet(shown[c]) : r.kind = "upload" => <<c, r.n>> \in store
      BY ZenonT(30), <3>1, <3>2 DEF ToSet, Answer
    <3> QED
      BY <3>3 DEF Acked
  <2> QED
    BY <2>2, <2>3
<1> QED
  BY <1>1, <1>2

\* So every message that is under way goes back to a request that was posted.
LEMMA OriginsStep == IInv /\ [Next]_vars => Origins'
BY PostedOrigins, HandledOrigins, QueuedOrigins, GotOrigins DEF Origins

------------------------------------------------------------------------------
(* How answers move on.                                                      *)

\* An answer counts as sent from ServerSend on; getting it changes nothing.
LEMMA SentMoves ==
  IInv /\ [Next]_vars =>
    \A c \in Clients : \A n :
      Sent(c, n)' => Sent(c, n) \/ (ServerSend /\ ssnd.msg.to = c /\ ssnd.msg.n = n)
<1> SUFFICES ASSUME IInv, [Next]_vars, NEW c \in Clients, NEW n
             PROVE  Sent(c, n)' => Sent(c, n) \/ (ServerSend /\ ssnd.msg.to = c /\ ssnd.msg.n = n)
  OBVIOUS
<1>1. ASSUME InGot(c, n)' PROVE InGot(c, n) \/ InOut(c, n)
  <2>1. Got(c) \in Seq(Messages)
    BY GotMoves
  <2>2. CASE Got(c)' = Got(c)
    BY <1>1, <2>2 DEF InGot
  <2>3. ASSUME NEW o \in outconn, o.msg \in Messages, c = o.msg.to, Got(c)' = Append(Got(c), o.msg)
        PROVE  InGot(c, n) \/ InOut(c, n)
    <3>1. PICK i \in DOMAIN Got(c)' : Got(c)'[i].n = n
      BY <1>1 DEF InGot
    <3>2. Got(c)'[i] = o.msg \/ (i \in DOMAIN Got(c) /\ Got(c)'[i] = Got(c)[i])
      BY <2>1, <2>3
    <3> QED
      BY <2>3, <3>1, <3>2 DEF InGot, InOut
  <2> QED
    BY <2>2, <2>3, GotMoves
<1>2. ASSUME InOut(c, n)' PROVE InOut(c, n) \/ (ServerSend /\ ssnd.msg.to = c /\ ssnd.msg.n = n)
  <2>1. PICK o \in outconn' : o.msg.to = c /\ o.msg.n = n
    BY <1>2 DEF InOut
  <2>2. CASE outconn' \subseteq outconn
    BY <2>1, <2>2 DEF InOut
  <2>3. ASSUME NEW p \in outconn, ClientReceives(p) PROVE InOut(c, n)
    <3>1. p \in [msg : Messages, left : Nat]
      BY TypeParts DEF IInv, LinkTypes
    <3>2. o \in outconn \/ o.msg = p.msg
      BY <2>3, <3>1 DEF ClientReceives
    <3> QED
      BY <2>1, <3>2 DEF InOut
  <2>4. ASSUME ServerSend PROVE o \in outconn \/ o.msg = ssnd.msg
    BY <2>4 DEF ServerSend
  <2> QED
    BY <2>1, <2>2, <2>3, <2>4, LinkTouches DEF InOut
<1> QED
  BY <1>1, <1>2 DEF Sent

\* It counts as taken from ServerDeQ on,
LEMMA TakenMoves ==
  IInv /\ [Next]_vars =>
    \A c \in Clients : \A n :
      Taken(c, n)' => Taken(c, n) \/ (ServerDeQ /\ Head(rcvrQueue).to = c /\ Head(rcvrQueue).n = n)
<1> SUFFICES ASSUME IInv, [Next]_vars, NEW c \in Clients, NEW n
             PROVE  Taken(c, n)' => Taken(c, n) \/ (ServerDeQ /\ Head(rcvrQueue).to = c /\ Head(rcvrQueue).n = n)
  OBVIOUS
<1>0. ssnd \in SenderThreads
  BY TypeParts DEF IInv, SenderTypes
<1>1. ASSUME InSender(c, n)'
      PROVE  InSender(c, n) \/ (ServerDeQ /\ Head(rcvrQueue).to = c /\ Head(rcvrQueue).n = n)
  <2>1. Active(ssnd') /\ ssnd'.msg.to = c /\ ssnd'.msg.n = n
    BY <1>1 DEF InSender
  <2>2. CASE ssnd' = ssnd
    BY <2>1, <2>2 DEF InSender
  <2>3. CASE ServerDeQ
    BY <2>1, <2>3 DEF ServerDeQ, Thread
  <2>4. CASE ServerConnect \/ ServerSend
    BY <1>0, <2>1, <2>4 DEF ServerConnect, ServerSend, SenderThreads, Active, InSender
  <2> QED
    BY <2>2, <2>3, <2>4, ServerTouches DEF ServerSender
<1>2. ASSUME ServerSend, ssnd.msg.to = c, ssnd.msg.n = n PROVE InSender(c, n)
  BY <1>2 DEF ServerSend, InSender, Active
<1> QED
  BY <1>1, <1>2, SentMoves DEF Taken

\* as queued from EnqueueReply on,
LEMMA QueuedMoves ==
  IInv /\ [Next]_vars =>
    \A c \in Clients : \A n :
      Queued(c, n)' =>
        \/ Queued(c, n)
        \/ \E i \in inconn : /\ EnqueueReply(i) /\ Asker(i) = c /\ i.msg.n = n
                             /\ rcvrQueue' # rcvrQueue
<1> SUFFICES ASSUME IInv, [Next]_vars, NEW c \in Clients, NEW n
             PROVE  Queued(c, n)' =>
                      \/ Queued(c, n)
                      \/ \E i \in inconn : /\ EnqueueReply(i) /\ Asker(i) = c /\ i.msg.n = n
                                           /\ rcvrQueue' # rcvrQueue
  OBVIOUS
<1>0. rcvrQueue \in Seq(Messages)
  BY TypeParts DEF IInv, QueueTypes
<1>1. ASSUME rcvrQueue # <<>>
      PROVE  /\ Head(rcvrQueue) = rcvrQueue[1] /\ 1 \in DOMAIN rcvrQueue
             /\ \A i \in DOMAIN Tail(rcvrQueue) : i + 1 \in DOMAIN rcvrQueue /\ Tail(rcvrQueue)[i] = rcvrQueue[i + 1]
  BY <1>0, <1>1, HeadTail
<1>2. ASSUME InQueue(c, n)'
      PROVE  \/ InQueue(c, n)
             \/ \E i \in inconn : /\ EnqueueReply(i) /\ Asker(i) = c /\ i.msg.n = n
                                  /\ rcvrQueue' # rcvrQueue
  <2>1. PICK k \in DOMAIN rcvrQueue' : rcvrQueue'[k].to = c /\ rcvrQueue'[k].n = n
    BY <1>2 DEF InQueue
  <2>2. CASE rcvrQueue' = rcvrQueue
    BY <2>1, <2>2 DEF InQueue
  <2>3. CASE ServerDeQ
    BY <1>1, <2>1, <2>3 DEF ServerDeQ, InQueue
  <2>4. CASE PressServerKey
    <3>1. rcvrQueue'[k] = End \/ (k \in DOMAIN rcvrQueue /\ rcvrQueue'[k] = rcvrQueue[k])
      BY <1>0, <2>1, <2>4, EndIsMessage DEF PressServerKey
    <3> QED
      BY <2>1, <3>1, EndIsMessage DEF InQueue
  <2>5. ASSUME NEW i \in inconn, EnqueueReply(i)
        PROVE  InQueue(c, n) \/ (Asker(i) = c /\ i.msg.n = n /\ rcvrQueue' # rcvrQueue)
    <3>1. PICK a \in Answers(i.msg) : rcvrQueue' = Append(rcvrQueue, a)
      BY <2>5 DEF EnqueueReply
    <3>2. i.msg \in Messages /\ store \subseteq Clients \X Nat
      BY TypeParts DEF IInv, LinkTypes, ServerTypes
    <3>3. a \in Messages /\ a.to = i.msg.to /\ a.n = i.msg.n
      BY <3>2, AnswersAre
    <3>4. rcvrQueue' # rcvrQueue /\ (rcvrQueue'[k] = a \/ (k \in DOMAIN rcvrQueue /\ rcvrQueue'[k] = rcvrQueue[k]))
      BY <1>0, <2>1, <3>1, <3>3
    <3> QED
      BY <2>1, <2>5, <3>3, <3>4 DEF InQueue, Asker, EnqueueReply
  <2> QED
    BY <2>2, <2>3, <2>4, <2>5, ServerTouches
<1>3. ASSUME ServerDeQ, Head(rcvrQueue).to = c, Head(rcvrQueue).n = n PROVE InQueue(c, n)
  BY <1>1, <1>3 DEF ServerDeQ, InQueue
<1> QED
  BY <1>2, <1>3, TakenMoves DEF Queued

\* and the request as begun from ClientSend on.
LEMMA BegunMoves ==
  IInv /\ [Next]_vars =>
    \A c \in Clients : \A n : Begun(c, n)' => Begun(c, n) \/ (ClientSend(c) /\ csnd[c].msg.n = n)
<1> SUFFICES ASSUME IInv, [Next]_vars, NEW c \in Clients, NEW n
             PROVE  Begun(c, n)' => Begun(c, n) \/ (ClientSend(c) /\ csnd[c].msg.n = n)
  OBVIOUS
<1>1. ASSUME InHandler(c, n)' PROVE InHandler(c, n) \/ (ClientSend(c) /\ csnd[c].msg.n = n)
  <2>1. PICK i \in inconn' : Asker(i) = c /\ i.msg.n = n
    BY <1>1 DEF InHandler, Asker
  <2>2. CASE i \in inconn
    BY <2>1, <2>2 DEF InHandler
  <2>3. ASSUME NEW d \in Clients, ClientSend(d), i \notin inconn
        PROVE  ClientSend(c) /\ csnd[c].msg.n = n
    <3>1. i = [msg |-> csnd[d].msg, stage |-> "sent"] /\ Active(csnd[d])
      BY <2>3 DEF ClientSend, Active
    <3>2. csnd[d].msg.from = d
      BY <3>1 DEF IInv, Origins
    <3> QED
      BY <2>1, <2>3, <3>1, <3>2 DEF Asker
  <2>4. ASSUME NEW j \in inconn, StoreUpload(j) \/ ListFiles(j) \/ AcceptDownload(j), i \notin inconn
        PROVE  InHandler(c, n)
    <3>1. j.stage = "sent" /\ \E l \in {store, {}} : i = [msg |-> Reply(j.msg, l), stage |-> "reply"]
      BY <2>4 DEF StoreUpload, ListFiles, AcceptDownload, Handled
    <3>2. j.msg \in Messages /\ store \subseteq Clients \X Nat
      BY TypeParts DEF IInv, LinkTypes, ServerTypes
    <3>3. Asker(i) = Asker(j) /\ i.msg.n = j.msg.n
      BY <3>1, <3>2, ReplyIsMessage DEF Asker
    <3> QED
      BY <2>1, <3>3 DEF InHandler
  <2> QED
    BY <2>2, <2>3, <2>4, LinkTouches
<1>2. ASSUME NEW i \in inconn, Asker(i) = c, i.msg.n = n PROVE InHandler(c, n)
  BY <1>2 DEF InHandler
<1> QED
  BY <1>1, <1>2, QueuedMoves DEF Begun

\* What is begun was posted.
LEMMA BegunPosted ==
  ASSUME IInv, NEW c \in Clients, NEW n, Begun(c, n) PROVE n \in 1..Len(posted[c])
<1>1. CASE InHandler(c, n)
  BY ZenonT(30), <1>1 DEF InHandler, Asker, IInv, Origins, Request, Answer
<1>2. CASE InQueue(c, n)
  BY <1>2, EndIsMessage DEF InQueue, IInv, Origins, Answer
<1>3. CASE InSender(c, n)
  BY <1>3 DEF InSender, IInv, Origins, Answer
<1>4. CASE InOut(c, n)
  BY <1>4 DEF InOut, IInv, Origins, Answer
<1>5. CASE InGot(c, n)
  BY ZenonT(30), <1>5 DEF InGot, IInv, Origins, Answer
<1> QED
  BY <1>1, <1>2, <1>3, <1>4, <1>5 DEF Begun, Queued, Taken, Sent

------------------------------------------------------------------------------
(* Every step keeps Once, place by place.                                    *)

\* A client gets one answer to an upload or a list.
LEMMA OnceGotStep == IInv /\ [Next]_vars => OnceGot'
<1> SUFFICES ASSUME IInv, [Next]_vars, NEW c \in Clients,
                    NEW i \in DOMAIN Got(c)', NEW j \in DOMAIN Got(c)',
                    i # j, Got(c)'[i].n = Got(c)'[j].n
             PROVE  Got(c)'[i].kind = "download"
  BY DEF OnceGot
<1>0. /\ Got(c) \in Seq(Messages)
      /\ \A k \in DOMAIN Got(c) : Answer(Got(c)[k], posted, store) /\ Got(c)[k].to = c
      /\ \A o \in outconn : Answer(o.msg, posted, store) /\ o \in [msg : Messages, left : Nat]
  BY GotMoves, TypeParts DEF IInv, Origins, LinkTypes
<1>1. \A k, m \in DOMAIN Got(c) : k # m /\ Got(c)[k].n = Got(c)[m].n => Got(c)[k].kind = "download"
  BY DEF IInv, Once, OnceGot
<1>2. CASE Got(c)' = Got(c)
  BY <1>1, <1>2
<1>3. ASSUME NEW o \in outconn, ClientReceives(o), c = o.msg.to, Got(c)' = Append(Got(c), o.msg)
      PROVE  Got(c)'[i].kind = "download"
  <2>1. \A k \in DOMAIN Got(c)' : \/ k = Len(Got(c)) + 1 /\ Got(c)'[k] = o.msg
                                  \/ k \in DOMAIN Got(c) /\ Got(c)'[k] = Got(c)[k]
    BY <1>0, <1>3
  <2>2. \A k \in DOMAIN Got(c) : Got(c)[k].n = o.msg.n => o.msg.kind = "download"
    <3>1. o.left > 0 /\ o.left \in Nat
      BY <1>0, <1>3 DEF ClientReceives
    <3>2. o.msg.kind # "download" => o.left <= 1 /\ (o.left = 1 => ~InGot(o.msg.to, o.msg.n))
      BY DEF IInv, Once, OnceOut
    <3>3. o.msg.kind # "download" => ~InGot(c, o.msg.n)
      BY <1>3, <3>1, <3>2
    <3> QED
      BY <3>3 DEF InGot
  <2>3. \A k \in DOMAIN Got(c) : Got(c)[k].n = o.msg.n => Got(c)[k].kind = o.msg.kind
    BY <1>0, <1>3 DEF Answer
  <2> QED
    BY <1>1, <2>1, <2>2, <2>3
<1> QED
  BY <1>2, <1>3, GotMoves

\* One connection carries the answer, and what it carries once was not received.
LEMMA OnceOutStep == IInv /\ [Next]_vars => OnceOut'
<1> SUFFICES ASSUME IInv, [Next]_vars PROVE OnceOut'
  OBVIOUS
<1>0. /\ \A o \in outconn : o \in [msg : Messages, left : Nat] /\ o.msg.to \in Clients
      /\ \A o, p \in outconn : o.msg.to = p.msg.to /\ o.msg.n = p.msg.n => o = p
      /\ \A o \in outconn : o.msg.kind # "download" =>
           o.left <= 1 /\ (o.left = 1 => ~InGot(o.msg.to, o.msg.n))
  BY TypeParts DEF IInv, Origins, Answer, LinkTypes, Once, OnceOut
<1>1. ASSUME outconn' \subseteq outconn, \A c \in Clients : Got(c)' = Got(c) PROVE OnceOut'
  <2>1. \A c \in Clients : \A n : InGot(c, n)' <=> InGot(c, n)
    BY <1>1 DEF InGot
  <2> QED
    BY <1>0, <1>1, <2>1 DEF OnceOut
<1>2. ASSUME NEW o \in outconn, ClientReceives(o), o.msg \in Messages, o.msg.to \in Clients,
             \A c \in Clients : Got(c)' = IF c = o.msg.to THEN Append(Got(c), o.msg) ELSE Got(c)
      PROVE  OnceOut'
  <2> DEFINE q == [o EXCEPT !.left = @ - 1]
  <2>1. q.msg = o.msg /\ q.left = o.left - 1 /\ o.left \in Nat /\ o.left > 0
    BY <1>0, <1>2 DEF ClientReceives
  <2>2. outconn' = (outconn \ {o}) \cup {q}
    BY <1>2 DEF ClientReceives
  <2> HIDE DEF q
  <2>3. ASSUME NEW p \in outconn, p # o, InGot(p.msg.to, p.msg.n)' PROVE InGot(p.msg.to, p.msg.n)
    <3>1. p.msg.to \in Clients /\ (p.msg.to # o.msg.to \/ p.msg.n # o.msg.n)
      BY <1>0, <2>3
    <3>2. PICK k \in DOMAIN Got(p.msg.to)' : Got(p.msg.to)'[k].n = p.msg.n
      BY <2>3 DEF InGot
    <3>3. Got(p.msg.to) \in Seq(Messages)
      BY <3>1, GotMoves
    <3>4. Got(p.msg.to)' = Got(p.msg.to) \/ (p.msg.to = o.msg.to /\ Got(p.msg.to)' = Append(Got(p.msg.to), o.msg))
      BY <1>2, <3>1
    <3>5. k \in DOMAIN Got(p.msg.to) /\ Got(p.msg.to)[k].n = p.msg.n
      <4>1. CASE Got(p.msg.to)' = Got(p.msg.to)
        BY <3>2, <4>1
      <4>2. CASE p.msg.to = o.msg.to /\ Got(p.msg.to)' = Append(Got(p.msg.to), o.msg)
        <5>1. Got(p.msg.to)'[k] = o.msg \/ (k \in DOMAIN Got(p.msg.to) /\ Got(p.msg.to)'[k] = Got(p.msg.to)[k])
          BY <1>2, <3>2, <3>3, <4>2
        <5> QED
          BY <3>1, <3>2, <4>2, <5>1
      <4> QED
        BY <3>4, <4>1, <4>2
    <3> QED
      BY <3>5 DEF InGot
  <2>4. \A p, r \in outconn' : p.msg.to = r.msg.to /\ p.msg.n = r.msg.n => p = r
    BY <1>0, <2>1, <2>2
  <2>5. ASSUME NEW p \in outconn', p.msg.kind # "download"
        PROVE  p.left <= 1 /\ (p.left = 1 => ~InGot(p.msg.to, p.msg.n)')
    <3>1. CASE p = q
      BY <1>0, <2>1, <2>5, <3>1
    <3>2. CASE p # q
      BY <1>0, <2>2, <2>3, <2>5, <3>2
    <3> QED
      BY <3>1, <3>2
  <2> QED
    BY <2>4, <2>5 DEF OnceOut
<1>3. ASSUME ServerSend, \A c \in Clients : Got(c)' = Got(c) PROVE OnceOut'
  <2>1. \A c \in Clients : \A n : InGot(c, n)' <=> InGot(c, n)
    BY <1>3 DEF InGot
  <2>2. /\ ssnd.msg.to \in Clients
        /\ ~InOut(ssnd.msg.to, ssnd.msg.n) /\ ~InGot(ssnd.msg.to, ssnd.msg.n)
    <3>1. Active(ssnd) /\ Answer(ssnd.msg, posted, store)
      BY <1>3 DEF ServerSend, Active, IInv, Origins
    <3>2. ssnd.msg.to \in Clients /\ ssnd.msg.n \in Nat
      BY <3>1 DEF Answer
    <3>3. InSender(ssnd.msg.to, ssnd.msg.n)
      BY <3>1 DEF InSender
    <3> QED
      BY <3>2, <3>3 DEF IInv, Once, OnceTaken, Sent
  <2>3. \/ outconn' = outconn
        \/ \E k \in IF ssnd.msg.kind = "download" THEN Downloads ELSE {1} :
             outconn' = outconn \cup {[msg |-> ssnd.msg, left |-> k]}
    BY <1>3 DEF ServerSend
  <2>4. ASSUME NEW k \in IF ssnd.msg.kind = "download" THEN Downloads ELSE {1},
               outconn' = outconn \cup {[msg |-> ssnd.msg, left |-> k]}
        PROVE  OnceOut'
    <3> DEFINE q == [msg |-> ssnd.msg, left |-> k]
    <3>1. q.msg = ssnd.msg /\ q.left = k /\ (q.msg.kind # "download" => q.left = 1)
      OBVIOUS
    <3>2. outconn' = outconn \cup {q}
      BY <2>4
    <3> HIDE DEF q
    <3>3. \A p \in outconn : p.msg.to # q.msg.to \/ p.msg.n # q.msg.n
      BY <2>2, <3>1 DEF InOut
    <3>4. \A p, r \in outconn' : p.msg.to = r.msg.to /\ p.msg.n = r.msg.n => p = r
      BY <1>0, <3>2, <3>3
    <3>5. \A p \in outconn' : p.msg.kind # "download" =>
            p.left <= 1 /\ (p.left = 1 => ~InGot(p.msg.to, p.msg.n)')
      BY <1>0, <2>1, <2>2, <3>1, <3>2
    <3> QED
      BY <3>4, <3>5 DEF OnceOut
  <2> QED
    BY <1>1, <1>3, <2>3, <2>4
<1>4. ASSUME NEW o \in outconn, ClientReceives(o) PROVE OnceOut'
  BY <1>2, <1>4, GotMoves
<1> QED
  BY <1>1, <1>3, <1>4, GotMoves, LinkTouches

\* The server's sender thread takes an answer that was not sent.
LEMMA OnceTakenStep == IInv /\ [Next]_vars => OnceTaken'
<1> SUFFICES ASSUME IInv, [Next]_vars, NEW c \in Clients, NEW n \in Nat, InSender(c, n)'
             PROVE  ~Sent(c, n)'
  BY DEF OnceTaken
<1>0. /\ rcvrQueue \in Seq(Messages) /\ ssnd \in SenderThreads
      /\ Active(ssnd') /\ ssnd'.msg.to = c /\ ssnd'.msg.n = n
  BY TypeParts DEF IInv, QueueTypes, SenderTypes, InSender
<1>1. ~ServerSend
  BY <1>0 DEF ServerSend, SenderThreads, Active
<1>2. Sent(c, n)' => Sent(c, n)
  BY <1>1, SentMoves
<1>3. ASSUME InSender(c, n) PROVE ~Sent(c, n)'
  BY <1>2, <1>3 DEF IInv, Once, OnceTaken
<1>4. CASE ServerDeQ
  <2>1. Head(rcvrQueue) = rcvrQueue[1] /\ 1 \in DOMAIN rcvrQueue
    BY <1>0, <1>4, HeadTail DEF ServerDeQ
  <2>2. ssnd'.msg = rcvrQueue[1]
    BY <1>4, <2>1 DEF ServerDeQ, Thread
  <2>3. ~Sent(c, n)
    BY <1>0, <2>1, <2>2 DEF IInv, Once, OnceQueued, Taken
  <2> QED
    BY <1>2, <2>3
<1>5. CASE ServerConnect
  <2>1. InSender(c, n)
    BY <1>0, <1>5 DEF ServerConnect, SenderThreads, Active, InSender
  <2> QED
    BY <1>3, <2>1
<1>6. CASE ssnd' = ssnd
  <2>1. InSender(c, n)
    BY <1>0, <1>6 DEF InSender
  <2> QED
    BY <1>3, <2>1
<1> QED
  BY <1>1, <1>4, <1>5, <1>6, ServerTouches DEF ServerSender

\* The server's queue holds one answer to a request, and not one that was sent.
LEMMA OnceQueuedStep == IInv /\ [Next]_vars => OnceQueued'
<1> SUFFICES ASSUME IInv, [Next]_vars, NEW c \in Clients, NEW n \in Nat, NEW i \in DOMAIN rcvrQueue',
                    rcvrQueue'[i].to = c, rcvrQueue'[i].n = n
             PROVE  /\ ~Taken(c, n)'
                    /\ \A j \in DOMAIN rcvrQueue' : rcvrQueue'[j].to = c /\ rcvrQueue'[j].n = n => i = j
  BY DEF OnceQueued
<1> DEFINE Goal == /\ ~Taken(c, n)'
                   /\ \A j \in DOMAIN rcvrQueue' : rcvrQueue'[j].to = c /\ rcvrQueue'[j].n = n => i = j
<1>0. rcvrQueue \in Seq(Messages)
  BY TypeParts DEF IInv, QueueTypes
<1>1. \A k \in DOMAIN rcvrQueue : rcvrQueue[k].to = c /\ rcvrQueue[k].n = n =>
        /\ ~Taken(c, n)
        /\ \A j \in DOMAIN rcvrQueue : rcvrQueue[j].to = c /\ rcvrQueue[j].n = n => k = j
  BY DEF IInv, Once, OnceQueued
<1>2. ~ServerDeQ => (Taken(c, n)' => Taken(c, n))
  BY TakenMoves
<1>3. ASSUME rcvrQueue' = rcvrQueue PROVE Goal
  <2>1. ~ServerDeQ
    <3>1. rcvrQueue # <<>> => Len(Tail(rcvrQueue)) # Len(rcvrQueue)
      BY <1>0, HeadTail
    <3> QED
      BY <1>3, <3>1 DEF ServerDeQ
  <2> QED
    BY <1>1, <1>2, <1>3, <2>1
<1>4. ASSUME NEW a \in Messages, rcvrQueue' = Append(rcvrQueue, a), ~ServerDeQ,
             a.to = c /\ a.n = n => ~Queued(c, n)
      PROVE  Goal
  <2>1. /\ DOMAIN rcvrQueue = 1..Len(rcvrQueue) /\ Len(rcvrQueue) \in Nat
        /\ \A k \in DOMAIN rcvrQueue' : \/ k = Len(rcvrQueue) + 1 /\ rcvrQueue'[k] = a
                                        \/ k \in DOMAIN rcvrQueue /\ rcvrQueue'[k] = rcvrQueue[k]
    BY <1>0, <1>4
  <2>2. CASE a.to = c /\ a.n = n
    <3>1. ~Taken(c, n) /\ \A k \in DOMAIN rcvrQueue : rcvrQueue[k].to # c \/ rcvrQueue[k].n # n
      BY <1>4, <2>2 DEF Queued, InQueue
    <3> QED
      BY <1>2, <1>4, <2>1, <3>1
  <2>3. CASE a.to # c \/ a.n # n
    <3>1. \A k \in DOMAIN rcvrQueue' : rcvrQueue'[k].to = c /\ rcvrQueue'[k].n = n =>
            k \in DOMAIN rcvrQueue /\ rcvrQueue'[k] = rcvrQueue[k]
      BY <2>1, <2>3
    <3>2. i \in DOMAIN rcvrQueue /\ rcvrQueue[i].to = c /\ rcvrQueue[i].n = n
      BY <3>1
    <3>3. ~Taken(c, n)'
      BY <1>1, <1>2, <1>4, <3>2
    <3>4. \A j \in DOMAIN rcvrQueue : rcvrQueue[j].to = c /\ rcvrQueue[j].n = n => i = j
      BY <1>1, <3>2
    <3> QED
      BY <3>1, <3>3, <3>4
  <2> QED
    BY <2>2, <2>3
<1>5. CASE ServerDeQ
  <2>1. /\ Head(rcvrQueue) = rcvrQueue[1] /\ 1 \in DOMAIN rcvrQueue /\ DOMAIN rcvrQueue \subseteq Nat
        /\ DOMAIN Tail(rcvrQueue) \subseteq Nat \ {0}
        /\ \A k \in DOMAIN Tail(rcvrQueue) : k + 1 \in DOMAIN rcvrQueue /\ Tail(rcvrQueue)[k] = rcvrQueue[k + 1]
    <3>1. Tail(rcvrQueue) \in Seq(Messages) /\ rcvrQueue # <<>>
      BY <1>0, <1>5, HeadTail DEF ServerDeQ
    <3>2. \A s \in Seq(Messages) : DOMAIN s \subseteq Nat \ {0}
      OBVIOUS
    <3> QED
      BY <1>0, <3>1, <3>2, HeadTail
  <2>2. rcvrQueue' = Tail(rcvrQueue)
    BY <1>5 DEF ServerDeQ
  <2>3. /\ i + 1 \in DOMAIN rcvrQueue /\ i + 1 # 1
        /\ rcvrQueue[i + 1].to = c /\ rcvrQueue[i + 1].n = n
    BY <2>1, <2>2
  <2>4. rcvrQueue[1].to # c \/ rcvrQueue[1].n # n
    BY <1>1, <2>1, <2>3
  <2>5. ~Taken(c, n)'
    BY <1>1, <2>1, <2>3, <2>4, TakenMoves
  <2>6. ASSUME NEW j \in DOMAIN rcvrQueue', rcvrQueue'[j].to = c, rcvrQueue'[j].n = n PROVE i = j
    <3>1. /\ j + 1 \in DOMAIN rcvrQueue /\ i \in Nat /\ j \in Nat
          /\ rcvrQueue[j + 1].to = c /\ rcvrQueue[j + 1].n = n
      BY <2>1, <2>2, <2>6
    <3>2. i + 1 = j + 1
      BY <1>1, <2>3, <3>1
    <3> QED
      BY <3>1, <3>2
  <2> QED
    BY <2>5, <2>6
<1>6. CASE PressServerKey /\ ~ServerDeQ
  BY <1>4, <1>6, EndIsMessage DEF PressServerKey
<1>7. ASSUME NEW k \in inconn, EnqueueReply(k), ~ServerDeQ PROVE Goal
  <2>1. PICK a \in Answers(k.msg) : rcvrQueue' = Append(rcvrQueue, a)
    BY <1>7 DEF EnqueueReply
  <2>2. k.msg \in Messages /\ store \subseteq Clients \X Nat
    BY TypeParts DEF IInv, LinkTypes, ServerTypes
  <2>3. a \in Messages /\ a.to = k.msg.to /\ a.n = k.msg.n
    BY <2>2, AnswersAre
  <2>4. Asker(k) = k.msg.to
    BY <1>7 DEF EnqueueReply, Asker
  <2>5. a.to = c /\ a.n = n => ~Queued(c, n)
    BY <2>3, <2>4 DEF IInv, Once, OnceHandled
  <2> QED
    BY <1>4, <1>7, <2>1, <2>3, <2>5
<1> QED
  BY <1>3, <1>5, <1>6, <1>7, ServerTouches

\* No two handler threads answer one request, nor does one answer it again.
LEMMA OnceHandledStep == IInv /\ [Next]_vars => OnceHandled'
<1> SUFFICES ASSUME IInv, [Next]_vars, NEW c \in Clients, NEW n \in Nat, NEW i \in inconn',
                    Asker(i) = c, i.msg.n = n
             PROVE  /\ ~Queued(c, n)'
                    /\ \A j \in inconn' : Asker(j) = c /\ j.msg.n = n => i = j
  BY DEF OnceHandled, Asker
<1> DEFINE Goal == /\ ~Queued(c, n)'
                   /\ \A j \in inconn' : Asker(j) = c /\ j.msg.n = n => i = j
<1>1. \A k \in inconn : Asker(k) = c /\ k.msg.n = n =>
        /\ ~Queued(c, n)
        /\ \A j \in inconn : Asker(j) = c /\ j.msg.n = n => k = j
  BY DEF IInv, Once, OnceHandled
<1>2. rcvrQueue' = rcvrQueue => (Queued(c, n)' => Queued(c, n))
  BY QueuedMoves
<1>3. CASE inconn' \subseteq inconn
  <2>1. ~Queued(c, n)'
    <3>1. ASSUME NEW k \in inconn, EnqueueReply(k), Asker(k) = c, k.msg.n = n PROVE FALSE
      <4>1. i \in inconn /\ i # k
        BY <3>1 DEF EnqueueReply
      <4> QED
        BY <1>1, <3>1, <4>1
    <3> QED
      BY <1>1, <1>3, <3>1, QueuedMoves
  <2> QED
    BY <1>1, <1>3, <2>1
<1>4. ASSUME NEW d \in Clients, ClientSend(d), ~(inconn' \subseteq inconn) PROVE Goal
  <2> DEFINE q == [msg |-> csnd[d].msg, stage |-> "sent"]
  <2>1. inconn' = inconn \cup {q} /\ rcvrQueue' = rcvrQueue /\ Active(csnd[d])
    BY <1>4 DEF ClientSend, serverVars, Active
  <2>2. csnd[d].msg.from = d /\ csnd[d].msg.n \in Nat /\ ~Begun(d, csnd[d].msg.n)
    <3>1. csnd[d].msg.from = d
      BY <2>1 DEF IInv, Origins
    <3>2. csnd \in [Clients -> SenderThreads]
      BY TypeParts DEF IInv, ProcTypes
    <3>3. csnd[d].msg.n \in Nat
      BY <3>2, MessageFields DEF SenderThreads
    <3>4. ~(csnd[d].msg.n < csnd[d].msg.n)
      BY <3>3
    <3> QED
      BY <2>1, <3>1, <3>3, <3>4 DEF IInv, Once, OnceSending
  <2>3. Asker(q) = d /\ q.msg.n = csnd[d].msg.n
    BY <2>2 DEF Asker
  <2> HIDE DEF q
  <2>4. CASE d = c /\ q.msg.n = n
    <3>1. ~Queued(c, n) /\ \A j \in inconn : Asker(j) # c \/ j.msg.n # n
      BY <2>2, <2>3, <2>4 DEF Begun, InHandler
    <3> QED
      BY <1>2, <2>1, <3>1
  <2>5. CASE ~(d = c /\ q.msg.n = n)
    <3>1. \A j \in inconn' : Asker(j) = c /\ j.msg.n = n => j \in inconn
      BY <2>1, <2>3, <2>5
    <3> QED
      BY <1>1, <1>2, <2>1, <3>1
  <2> QED
    BY <2>4, <2>5
<1>5. ASSUME NEW k \in inconn, StoreUpload(k) \/ ListFiles(k) \/ AcceptDownload(k) PROVE Goal
  <2>1. PICK l \in {store, {}} : inconn' = (inconn \ {k}) \cup {[msg |-> Reply(k.msg, l), stage |-> "reply"]}
    BY <1>5 DEF StoreUpload, ListFiles, AcceptDownload, Handled
  <2> DEFINE q == [msg |-> Reply(k.msg, l), stage |-> "reply"]
  <2>2. k.msg \in Messages /\ l \subseteq Clients \X Nat
    BY TypeParts DEF IInv, LinkTypes, ServerTypes
  <2>3. Asker(q) = Asker(k) /\ q.msg.n = k.msg.n
    BY <1>5, <2>2, ReplyIsMessage DEF Asker, StoreUpload, ListFiles, AcceptDownload
  <2>4. rcvrQueue' = rcvrQueue
    BY <1>5 DEF StoreUpload, ListFiles, AcceptDownload, serverVars
  <2>5. inconn' = (inconn \ {k}) \cup {q}
    BY <2>1
  <2> HIDE DEF q
  <2>6. ~Queued(c, n)'
    BY <1>1, <1>2, <2>3, <2>4, <2>5
  <2>7. \A j \in inconn' : Asker(j) = c /\ j.msg.n = n => i = j
    BY <1>1, <2>3, <2>5
  <2> QED
    BY <2>6, <2>7
<1> QED
  BY <1>3, <1>4, <1>5, LinkTouches

\* A client's sender thread keeps its message until it is sent.
LEMMA SenderMoves ==
  IInv /\ [Next]_vars =>
    \A c \in Clients :
      /\ \A n : Begun(c, n)' => Begun(c, n) \/ (Active(csnd[c]) /\ csnd[c].msg.n = n)
      /\ ClientSend(c) => ~Active(csnd'[c])
      /\ \/ ClientDeQ(c)
         \/ Active(csnd'[c]) => Active(csnd[c]) /\ csnd'[c].msg = csnd[c].msg
<1> SUFFICES ASSUME IInv, [Next]_vars, NEW c \in Clients
             PROVE  /\ \A n : Begun(c, n)' => Begun(c, n) \/ (Active(csnd[c]) /\ csnd[c].msg.n = n)
                    /\ ClientSend(c) => ~Active(csnd'[c])
                    /\ \/ ClientDeQ(c)
                       \/ Active(csnd'[c]) => Active(csnd[c]) /\ csnd'[c].msg = csnd[c].msg
  OBVIOUS
<1>0. csnd \in [Clients -> SenderThreads]
  BY TypeParts DEF IInv, ProcTypes
<1>1. ClientSend(c) => Active(csnd[c]) /\ ~Active(csnd'[c])
  BY <1>0 DEF ClientSend, Active, SenderThreads
<1>2. \A n : Begun(c, n)' => Begun(c, n) \/ (Active(csnd[c]) /\ csnd[c].msg.n = n)
  BY <1>1, BegunMoves
<1>3. ASSUME NEW d \in Clients, ClientSender(d), ~ClientDeQ(c)
      PROVE  Active(csnd'[c]) => Active(csnd[c]) /\ csnd'[c].msg = csnd[c].msg
  <2>1. CASE d # c
    <3>1. csnd'[c] = csnd[c]
      BY <1>0, <1>3, <2>1 DEF ClientSender, ClientDeQ, ClientConnect, ClientSend
    <3> QED
      BY <3>1
  <2>2. CASE d = c /\ ClientConnect(c)
    BY <1>0, <2>2 DEF ClientConnect, Active, SenderThreads
  <2> QED
    BY <1>1, <1>3, <2>1, <2>2 DEF ClientSender
<1> QED
  BY <1>1, <1>2, <1>3, ClientTouches

\* A client's queue changes at its ends.
LEMMA PostedMoves ==
  IInv /\ [Next]_vars =>
    \A c \in Clients :
      /\ ClientDeQ(c) => /\ sndrQueue[c] # <<>> /\ sndrQueue'[c] = Tail(sndrQueue[c])
                         /\ csnd'[c].msg = Head(sndrQueue[c])
                         /\ Active(csnd'[c]) => Head(sndrQueue[c]) # End
      /\ \/ ClientDeQ(c)
         \/ sndrQueue'[c] = sndrQueue[c]
         \/ sndrQueue'[c] = Append(sndrQueue[c], End)
         \/ \E k \in Kinds[c] : /\ sndrQueue'[c] = Append(sndrQueue[c], Msg(c, Server, Len(posted[c]) + 1, k))
                                /\ Msg(c, Server, Len(posted[c]) + 1, k) \in Messages
<1> SUFFICES ASSUME IInv, [Next]_vars, NEW c \in Clients
             PROVE  /\ ClientDeQ(c) => /\ sndrQueue[c] # <<>> /\ sndrQueue'[c] = Tail(sndrQueue[c])
                                       /\ csnd'[c].msg = Head(sndrQueue[c])
                                       /\ Active(csnd'[c]) => Head(sndrQueue[c]) # End
                    /\ \/ ClientDeQ(c)
                       \/ sndrQueue'[c] = sndrQueue[c]
                       \/ sndrQueue'[c] = Append(sndrQueue[c], End)
                       \/ \E k \in Kinds[c] :
                            /\ sndrQueue'[c] = Append(sndrQueue[c], Msg(c, Server, Len(posted[c]) + 1, k))
                            /\ Msg(c, Server, Len(posted[c]) + 1, k) \in Messages
  OBVIOUS
<1>0. /\ sndrQueue \in [Clients -> Seq(Messages)] /\ posted \in [Clients -> Seq(Posts)]
      /\ csnd \in [Clients -> SenderThreads]
  BY TypeParts DEF IInv, PostTypes, ProcTypes
<1>1. ASSUME ClientDeQ(c)
      PROVE  /\ sndrQueue[c] # <<>> /\ sndrQueue'[c] = Tail(sndrQueue[c])
             /\ csnd'[c].msg = Head(sndrQueue[c])
             /\ Active(csnd'[c]) => Head(sndrQueue[c]) # End
  BY <1>0, <1>1 DEF ClientDeQ, Thread, Active
<1>2. ASSUME NEW d \in Clients, PostEnd(d) \/ PressKey(d) \/ (ClientDeQ(d) /\ ~ClientDeQ(c))
      PROVE  sndrQueue'[c] = sndrQueue[c] \/ sndrQueue'[c] = Append(sndrQueue[c], End)
  BY <1>0, <1>2 DEF PostEnd, PressKey, ClientDeQ
<1>3. ASSUME NEW d \in Clients, NEW k \in Kinds[d], Post(d, k)
      PROVE  sndrQueue'[c] = sndrQueue[c] \/
             (c = d /\ sndrQueue'[c] = Append(sndrQueue[c], Msg(c, Server, Len(posted[c]) + 1, k)))
  BY <1>0, <1>3 DEF Post
<1>4. \A k \in Kinds[c] : Msg(c, Server, Len(posted[c]) + 1, k) \in Messages
  <2>1. Len(posted[c]) \in Nat
    BY <1>0
  <2> QED
    BY <2>1, KindsAssumption DEF Msg, Messages
<1> QED
  BY <1>1, <1>2, <1>3, <1>4, ClientTouches

\* What a client sends was posted after all that it has sent,
LEMMA OnceSendingStep == IInv /\ [Next]_vars => OnceSending'
<1> SUFFICES ASSUME IInv, [Next]_vars, NEW c \in Clients, Active(csnd'[c]), NEW n \in Nat, Begun(c, n)'
             PROVE  n < csnd'[c].msg.n
  BY DEF OnceSending, Active
<1>1. ~ClientSend(c) /\ Begun(c, n)
  BY SenderMoves, BegunMoves
<1>2. CASE ClientDeQ(c)
  <2>1. sndrQueue[c] # <<>> /\ csnd'[c].msg = Head(sndrQueue[c]) /\ Head(sndrQueue[c]) # End
    BY <1>2, PostedMoves
  <2>2. sndrQueue[c] \in Seq(Messages)
    BY TypeParts DEF IInv, PostTypes
  <2>3. 1 \in DOMAIN sndrQueue[c] /\ Head(sndrQueue[c]) = sndrQueue[c][1]
    BY <2>1, <2>2, HeadTail
  <2> QED
    BY <1>1, <2>1, <2>3 DEF IInv, Once, OncePosted
<1>3. CASE ~ClientDeQ(c)
  <2>1. Active(csnd[c]) /\ csnd'[c].msg = csnd[c].msg
    BY <1>3, SenderMoves
  <2> QED
    BY <1>1, <2>1 DEF IInv, Once, OnceSending
<1> QED
  BY <1>2, <1>3

\* and what waits to be sent was posted after that.
LEMMA OncePostedStep == IInv /\ [Next]_vars => OncePosted'
<1> SUFFICES ASSUME IInv, [Next]_vars, NEW c \in Clients, NEW i \in DOMAIN sndrQueue'[c], sndrQueue'[c][i] # End
             PROVE  /\ \A n \in Nat : Begun(c, n)' => n < sndrQueue'[c][i].n
                    /\ Active(csnd'[c]) => csnd'[c].msg.n < sndrQueue'[c][i].n
                    /\ \A j \in 1..(i - 1) : sndrQueue'[c][j] # End => sndrQueue'[c][j].n < sndrQueue'[c][i].n
  BY DEF OncePosted, Active, End, Msg
<1> DEFINE Goal == /\ \A n \in Nat : Begun(c, n)' => n < sndrQueue'[c][i].n
                   /\ Active(csnd'[c]) => csnd'[c].msg.n < sndrQueue'[c][i].n
                   /\ \A j \in 1..(i - 1) : sndrQueue'[c][j] # End => sndrQueue'[c][j].n < sndrQueue'[c][i].n
<1>0. sndrQueue[c] \in Seq(Messages) /\ posted[c] \in Seq(Posts)
  BY TypeParts DEF IInv, PostTypes
<1>1. /\ \A n : Begun(c, n)' => Begun(c, n) \/ (Active(csnd[c]) /\ csnd[c].msg.n = n)
      /\ ClientDeQ(c) \/ (Active(csnd'[c]) => Active(csnd[c]) /\ csnd'[c].msg = csnd[c].msg)
  BY SenderMoves
<1>2. \A k \in DOMAIN sndrQueue[c] : sndrQueue[c][k] # End =>
        /\ \A n \in Nat : Begun(c, n) => n < sndrQueue[c][k].n
        /\ Active(csnd[c]) => csnd[c].msg.n < sndrQueue[c][k].n
        /\ \A j \in 1..(k - 1) : sndrQueue[c][j] # End => sndrQueue[c][j].n < sndrQueue[c][k].n
  BY DEF IInv, Once, OncePosted
<1>3. CASE ~ClientDeQ(c) /\ sndrQueue'[c] = sndrQueue[c]
  BY <1>1, <1>2, <1>3
<1>4. ASSUME ~ClientDeQ(c), NEW e \in Messages, sndrQueue'[c] = Append(sndrQueue[c], e),
             e = End \/ e.n = Len(posted[c]) + 1
      PROVE  Goal
  <2>1. /\ i \in 1..(Len(sndrQueue[c]) + 1) /\ Len(sndrQueue[c]) \in Nat /\ DOMAIN sndrQueue[c] = 1..Len(sndrQueue[c])
        /\ sndrQueue'[c][Len(sndrQueue[c]) + 1] = e
        /\ \A k \in DOMAIN sndrQueue[c] : sndrQueue'[c][k] = sndrQueue[c][k]
    BY <1>0, <1>4
  <2>2. CASE i \in DOMAIN sndrQueue[c]
    <3>1. \A j \in 1..(i - 1) : j \in DOMAIN sndrQueue[c]
      BY <2>1, <2>2
    <3> QED
      BY <1>1, <1>2, <1>4, <2>1, <2>2, <3>1
  <2>3. CASE i = Len(sndrQueue[c]) + 1
    <3>1. sndrQueue'[c][i] = e /\ e.n = Len(posted[c]) + 1 /\ Len(posted[c]) \in Nat
      BY <1>0, <1>4, <2>1, <2>3
    <3>2. Active(csnd[c]) => csnd[c].msg.n \in 1..Len(posted[c])
      BY DEF IInv, Origins, Request
    <3>3. \A n : Begun(c, n)' => n \in 1..Len(posted[c])
      BY <1>1, <3>2, BegunPosted
    <3>4. \A j \in DOMAIN sndrQueue[c] : sndrQueue[c][j] # End => sndrQueue[c][j].n \in 1..Len(posted[c])
      BY DEF IInv, Origins, Request
    <3>5. \A j \in 1..(i - 1) : j \in DOMAIN sndrQueue[c] /\ sndrQueue'[c][j] = sndrQueue[c][j]
      BY <2>1, <2>3
    <3>6. Active(csnd'[c]) => csnd'[c].msg.n < sndrQueue'[c][i].n
      BY <1>1, <1>4, <3>1, <3>2
    <3>7. \A n \in Nat : Begun(c, n)' => n < sndrQueue'[c][i].n
      BY <3>1, <3>3
    <3>8. \A j \in 1..(i - 1) : sndrQueue'[c][j] # End => sndrQueue'[c][j].n < sndrQueue'[c][i].n
      BY <3>1, <3>4, <3>5
    <3> QED
      BY <3>6, <3>7, <3>8
  <2> QED
    BY <2>1, <2>2, <2>3
<1>5. CASE ClientDeQ(c)
  <2>1. /\ sndrQueue[c] # <<>> /\ sndrQueue'[c] = Tail(sndrQueue[c])
        /\ csnd'[c].msg = Head(sndrQueue[c])
        /\ Active(csnd'[c]) => Head(sndrQueue[c]) # End
    BY <1>5, PostedMoves
  <2>2. /\ Head(sndrQueue[c]) = sndrQueue[c][1]
        /\ \A k \in DOMAIN Tail(sndrQueue[c]) : k + 1 \in DOMAIN sndrQueue[c] /\ Tail(sndrQueue[c])[k] = sndrQueue[c][k + 1]
    BY <1>0, <2>1, HeadTail
  <2>3. DOMAIN Tail(sndrQueue[c]) = 1..(Len(sndrQueue[c]) - 1) /\ Len(sndrQueue[c]) \in Nat
    BY <1>0, <2>1
  <2>4. /\ i \in 1..(Len(sndrQueue[c]) - 1) /\ i + 1 \in DOMAIN sndrQueue[c]
        /\ sndrQueue'[c][i] = sndrQueue[c][i + 1] /\ sndrQueue[c][i + 1] # End
    BY <2>1, <2>2, <2>3
  <2>5. \A n \in Nat : Begun(c, n)' => n < sndrQueue'[c][i].n
    BY <1>1, <1>2, <2>4
  <2>6. \A j \in 1..i : sndrQueue[c][j] # End => sndrQueue[c][j].n < sndrQueue[c][i + 1].n
    BY <1>2, <2>4
  <2>7. Active(csnd'[c]) => csnd'[c].msg.n < sndrQueue'[c][i].n
    BY <2>1, <2>2, <2>4, <2>6
  <2>8. \A j \in 1..(i - 1) : j + 1 \in 1..i /\ sndrQueue'[c][j] = sndrQueue[c][j + 1]
    BY <2>1, <2>2, <2>3, <2>4
  <2>9. \A j \in 1..(i - 1) : sndrQueue'[c][j] # End => sndrQueue'[c][j].n < sndrQueue'[c][i].n
    BY <2>4, <2>6, <2>8
  <2> QED
    BY <2>5, <2>7, <2>9
<1>6. End \in Messages /\ \A k \in Kinds[c] : Msg(c, Server, Len(posted[c]) + 1, k).n = Len(posted[c]) + 1
  BY EndIsMessage DEF Msg
<1> QED
  BY <1>3, <1>4, <1>5, <1>6, PostedMoves

\* So each answer is in one place only.
LEMMA OnceStep == IInv /\ [Next]_vars => Once'
BY OnceGotStep, OnceOutStep, OnceTakenStep, OnceQueuedStep, OnceHandledStep,
   OnceSendingStep, OncePostedStep DEF Once

------------------------------------------------------------------------------
(* Every step keeps DueOnTheWay.                                             *)

\* A client that leaves does not come back, and only then does it drop an answer
\* that is on a connection.
LEMMA LeavingMoves ==
  IInv /\ [Next]_vars =>
    /\ \A c \in Clients : proc[c] \in {"closing", "gone"} => proc'[c] \in {"closing", "gone"}
    /\ \A o \in outconn : o \in outconn' \/ ClientReceives(o) \/ proc'[o.msg.to] \in {"closing", "gone"}
<1> SUFFICES ASSUME IInv, [Next]_vars
             PROVE  /\ \A c \in Clients : proc[c] \in {"closing", "gone"} => proc'[c] \in {"closing", "gone"}
                    /\ \A o \in outconn : o \in outconn' \/ ClientReceives(o) \/ proc'[o.msg.to] \in {"closing", "gone"}
  OBVIOUS
<1> DEFINE Goal == /\ \A c \in Clients : proc[c] \in {"closing", "gone"} => proc'[c] \in {"closing", "gone"}
                   /\ \A o \in outconn : o \in outconn' \/ ClientReceives(o) \/ proc'[o.msg.to] \in {"closing", "gone"}
<1>0. proc \in [Clients -> {"starting", "listening", "closing", "gone"}]
  BY TypeParts DEF IInv, ProcTypes
<1>1. ASSUME proc' = proc, outconn \subseteq outconn' PROVE Goal
  BY <1>1
<1>2. ASSUME NEW c \in Clients, ClientListens(c) PROVE Goal
  BY <1>0, <1>2 DEF ClientListens
<1>3. ASSUME NEW c \in Clients, PressKey(c) PROVE Goal
  <2>1. proc'[c] = "closing" /\ \A d \in Clients : d # c => proc'[d] = proc[d]
    BY <1>0, <1>3 DEF PressKey
  <2>2. \A o \in outconn : o \in outconn' \/ o.msg.to = c
    BY <1>3 DEF PressKey
  <2> QED
    BY <2>1, <2>2
<1>4. ASSUME NEW c \in Clients, Exit(c) \/ Die(c) PROVE Goal
  <2>1. proc'[c] = "gone" /\ \A d \in Clients : d # c => proc'[d] = proc[d]
    BY <1>0, <1>4 DEF Exit, Die
  <2>2. \A o \in outconn : o \in outconn' \/ o.msg.to = c
    BY <1>4 DEF Exit, Die, DropConnections
  <2> QED
    BY <2>1, <2>2
<1>5. ASSUME NEW o \in outconn, ClientReceives(o) PROVE Goal
  BY <1>5 DEF ClientReceives
<1>6. ASSUME ServerSend PROVE Goal
  BY <1>1, <1>6 DEF ServerSend, clientVars
<1>7. \/ proc' = proc /\ outconn \subseteq outconn'
      \/ \E c \in Clients : ClientListens(c) \/ PressKey(c) \/ Exit(c) \/ Die(c)
      \/ \E o \in outconn : ClientReceives(o)
      \/ ServerSend
  BY DEF Next, vars, clientVars, serverVars, Handle, ClientSender, ServerSender, ServerMain,
         Post, PostEnd, GetMessage, ClientDeQ, ClientConnect, ClientSend, StoreUpload, FailUpload,
         ListFiles, AcceptDownload, EnqueueReply, ServerDeQ, ServerConnect, ServerListens,
         PressServerKey, CloseListener, ServerExit
<1> QED
  BY <1>1, <1>2, <1>3, <1>4, <1>5, <1>6, <1>7

\* An answer that was sent stays sent, or its client leaves.
LEMMA DrainedLasts ==
  IInv /\ [Next]_vars => \A m : m.to \in Clients /\ Drained(m) => Drained(m)'
<1> SUFFICES ASSUME IInv, [Next]_vars, NEW m, m.to \in Clients, Drained(m)
             PROVE  Drained(m)'
  OBVIOUS
<1>1. CASE proc[m.to] \in {"closing", "gone"}
  BY <1>1, LeavingMoves DEF Drained
<1>2. CASE m \in ToSet(Got(m.to))
  <2>0. Got(m.to) \in Seq(Messages)
    BY GotMoves
  <2>1. PICK i \in DOMAIN Got(m.to) : Got(m.to)[i] = m
    BY <1>2 DEF ToSet
  <2>2. \/ Got(m.to)' = Got(m.to)
        \/ \E o \in outconn : o.msg \in Messages /\ Got(m.to)' = Append(Got(m.to), o.msg)
    BY GotMoves
  <2>3. i \in DOMAIN Got(m.to)' /\ Got(m.to)'[i] = m
    BY <2>0, <2>1, <2>2
  <2>4. m \in ToSet(Got(m.to))'
    BY <2>3 DEF ToSet
  <2> QED
    BY <2>4 DEF Drained
<1>3. ASSUME NEW o \in outconn, o.msg = m PROVE Drained(m)'
  <2>1. CASE o \in outconn'
    BY <1>3, <2>1 DEF Drained
  <2>2. CASE ClientReceives(o)
    <3>1. o \in [msg : Messages, left : Nat]
      BY TypeParts DEF IInv, LinkTypes
    <3>2. [o EXCEPT !.left = @ - 1] \in outconn' /\ [o EXCEPT !.left = @ - 1].msg = m
      BY <1>3, <2>2, <3>1 DEF ClientReceives
    <3> QED
      BY <3>2 DEF Drained
  <2> QED
    BY <1>3, <2>1, <2>2, LeavingMoves DEF Drained
<1> QED
  BY <1>1, <1>2, <1>3 DEF Drained

\* What waits before END_SERVER stays there until it is taken, and END_SERVER is
\* taken after it.
LEMMA BeforeEndMoves ==
  IInv /\ [Next]_vars =>
    /\ \A m : BeforeEnd(m) => BeforeEnd(m)' \/ (ServerDeQ /\ Head(rcvrQueue) = m)
    /\ \A m : BeforeEnd(m) /\ m # End => ~(ServerDeQ /\ Head(rcvrQueue) = End)
<1> SUFFICES ASSUME IInv, [Next]_vars, NEW m, BeforeEnd(m)
             PROVE  /\ BeforeEnd(m)' \/ (ServerDeQ /\ Head(rcvrQueue) = m)
                    /\ m # End => ~(ServerDeQ /\ Head(rcvrQueue) = End)
  OBVIOUS
<1>0. rcvrQueue \in Seq(Messages)
  BY TypeParts DEF IInv, QueueTypes
<1>1. PICK i \in DOMAIN rcvrQueue : rcvrQueue[i] = m /\ \A j \in 1..(i - 1) : rcvrQueue[j] # End
  BY DEF BeforeEnd
<1>2. i \in 1..Len(rcvrQueue) /\ Len(rcvrQueue) \in Nat
  BY <1>0
<1>3. ASSUME rcvrQueue' = rcvrQueue \/ \E e \in Messages : rcvrQueue' = Append(rcvrQueue, e)
      PROVE  BeforeEnd(m)'
  <2>1. i \in DOMAIN rcvrQueue' /\ \A j \in 1..i : rcvrQueue'[j] = rcvrQueue[j]
    BY <1>0, <1>2, <1>3
  <2>2. rcvrQueue'[i] = m /\ \A j \in 1..(i - 1) : rcvrQueue'[j] # End
    BY <1>1, <1>2, <2>1
  <2> QED
    BY <2>1, <2>2 DEF BeforeEnd, End, Msg
<1>4. ASSUME ServerDeQ
      PROVE  /\ BeforeEnd(m)' \/ Head(rcvrQueue) = m
             /\ m # End => Head(rcvrQueue) # End
  <2>1. /\ rcvrQueue' = Tail(rcvrQueue) /\ Head(rcvrQueue) = rcvrQueue[1]
        /\ DOMAIN Tail(rcvrQueue) = 1..(Len(rcvrQueue) - 1)
        /\ \A k \in 1..(Len(rcvrQueue) - 1) : Tail(rcvrQueue)[k] = rcvrQueue[k + 1]
    BY <1>0, <1>4 DEF ServerDeQ
  <2>2. CASE i = 1
    BY <1>1, <2>1, <2>2
  <2>3. CASE i # 1
    <3>1. i - 1 \in DOMAIN rcvrQueue' /\ rcvrQueue'[i - 1] = m
      BY <1>1, <1>2, <2>1, <2>3
    <3>2. \A j \in 1..((i - 1) - 1) : rcvrQueue'[j] # End
      <4>1. \A j \in 1..((i - 1) - 1) : j + 1 \in 1..(i - 1) /\ rcvrQueue'[j] = rcvrQueue[j + 1]
        BY <1>2, <2>1
      <4> QED
        BY <1>1, <4>1
    <3>3. rcvrQueue[1] # End
      BY <1>1, <1>2, <2>3
    <3>4. BeforeEnd(m)'
      BY <3>1, <3>2 DEF BeforeEnd, End, Msg
    <3> QED
      BY <2>1, <3>3, <3>4
  <2> QED
    BY <2>2, <2>3
<1>5. ASSUME NEW k \in inconn, EnqueueReply(k) PROVE \E e \in Messages : rcvrQueue' = Append(rcvrQueue, e)
  <2>1. k.msg \in Messages /\ store \subseteq Clients \X Nat
    BY TypeParts DEF IInv, LinkTypes, ServerTypes
  <2> QED
    BY <1>5, <2>1, AnswersAre DEF EnqueueReply
<1>6. PressServerKey => \E e \in Messages : rcvrQueue' = Append(rcvrQueue, e)
  BY EndIsMessage DEF PressServerKey
<1> QED
  BY <1>3, <1>4, <1>5, <1>6, ServerTouches

\* The server's sender thread keeps an answer until it is sent.
LEMMA SendingMoves ==
  IInv /\ [Next]_vars =>
    /\ \A m : Active(ssnd) /\ ssnd.msg = m => (Active(ssnd') /\ ssnd'.msg = m) \/ Drained(m)'
    /\ ServerDeQ => /\ ~Active(ssnd) /\ ssnd'.msg = Head(rcvrQueue)
                    /\ Head(rcvrQueue) = End => ssnd'.pc = "ended"
                    /\ Head(rcvrQueue) # End => Active(ssnd') /\ ssnd'.pc # "ended"
    /\ ssnd'.pc = "ended" => ssnd.pc = "ended" \/ (ServerDeQ /\ Head(rcvrQueue) = End)
<1> SUFFICES ASSUME IInv, [Next]_vars
             PROVE  /\ \A m : Active(ssnd) /\ ssnd.msg = m => (Active(ssnd') /\ ssnd'.msg = m) \/ Drained(m)'
                    /\ ServerDeQ => /\ ~Active(ssnd) /\ ssnd'.msg = Head(rcvrQueue)
                                    /\ Head(rcvrQueue) = End => ssnd'.pc = "ended"
                                    /\ Head(rcvrQueue) # End => Active(ssnd') /\ ssnd'.pc # "ended"
                    /\ ssnd'.pc = "ended" => ssnd.pc = "ended" \/ (ServerDeQ /\ Head(rcvrQueue) = End)
  OBVIOUS
<1>0. ssnd \in SenderThreads /\ proc \in [Clients -> {"starting", "listening", "closing", "gone"}]
  BY TypeParts DEF IInv, SenderTypes, ProcTypes
<1>1. ASSUME ServerDeQ
      PROVE  /\ ~Active(ssnd) /\ ssnd'.msg = Head(rcvrQueue)
             /\ Head(rcvrQueue) = End => ssnd'.pc = "ended"
             /\ Head(rcvrQueue) # End => Active(ssnd') /\ ssnd'.pc # "ended"
  BY <1>1 DEF ServerDeQ, Thread, Active
<1>2. ASSUME ServerConnect PROVE Active(ssnd') /\ ssnd'.msg = ssnd.msg /\ ssnd'.pc = "send"
  BY <1>0, <1>2 DEF ServerConnect, Active, SenderThreads
<1>3. ASSUME ServerSend PROVE (\A m : m = ssnd.msg => Drained(m)') /\ ssnd'.pc = "deQ"
  <2>1. ssnd'.pc = "deQ" /\ proc' = proc
    BY <1>0, <1>3 DEF ServerSend, SenderThreads, clientVars
  <2>2. ASSUME NEW m, m = ssnd.msg PROVE Drained(m)'
    <3>1. m.to \in Clients
      BY <1>3, <2>2 DEF IInv, Origins, Answer, ServerSend, Active
    <3>2. \/ proc[m.to] = "gone" \/ proc[m.to] = "closing"
          \/ \E k : outconn' = outconn \cup {[msg |-> m, left |-> k]}
      BY <1>3, <2>2 DEF ServerSend, Alive
    <3>3. ASSUME NEW k, outconn' = outconn \cup {[msg |-> m, left |-> k]} PROVE \E o \in outconn' : o.msg = m
      <4>1. [msg |-> m, left |-> k] \in outconn' /\ [msg |-> m, left |-> k].msg = m
        BY <3>3
      <4> QED
        BY <4>1
    <3> QED
      BY <2>1, <3>2, <3>3 DEF Drained
  <2> QED
    BY <2>1, <2>2
<1> QED
  BY <1>1, <1>2, <1>3, ServerTouches DEF ServerSender

\* No END_SERVER is queued, and the sender thread has not ended, before the key.
LEMMA NoEndBefore ==
  IInv /\ [Next]_vars =>
    (srv' \in {"starting", "up"} => ssnd'.pc # "ended" /\ \A i \in DOMAIN rcvrQueue' : rcvrQueue'[i] # End)
<1> SUFFICES ASSUME IInv, [Next]_vars, srv' \in {"starting", "up"}
             PROVE  ssnd'.pc # "ended" /\ \A i \in DOMAIN rcvrQueue' : rcvrQueue'[i] # End
  OBVIOUS
<1>0. rcvrQueue \in Seq(Messages)
  BY TypeParts DEF IInv, QueueTypes
<1>1. srv \in {"starting", "up"} /\ ~PressServerKey
  BY ServerTouches DEF ServerMain, ServerListens, CloseListener, ServerExit, PressServerKey
<1>2. ssnd.pc # "ended" /\ \A i \in DOMAIN rcvrQueue : rcvrQueue[i] # End
  BY <1>1 DEF IInv, DueOnTheWay
<1>3. ASSUME ServerDeQ
      PROVE  Head(rcvrQueue) # End /\ \A i \in DOMAIN rcvrQueue' : rcvrQueue'[i] # End
  <2>1. /\ rcvrQueue # <<>> /\ rcvrQueue' = Tail(rcvrQueue)
    BY <1>3 DEF ServerDeQ
  <2> QED
    BY <1>0, <1>2, <2>1, HeadTail
<1>4. ASSUME NEW k \in inconn, EnqueueReply(k) PROVE \A i \in DOMAIN rcvrQueue' : rcvrQueue'[i] # End
  <2>1. PICK a \in Answers(k.msg) : rcvrQueue' = Append(rcvrQueue, a)
    BY <1>4 DEF EnqueueReply
  <2>2. k.msg \in Messages /\ store \subseteq Clients \X Nat /\ k.msg.to \in Clients
    BY <1>4, TypeParts DEF IInv, LinkTypes, ServerTypes, Origins, Answer, EnqueueReply
  <2>3. a \in Messages /\ a # End
    BY <2>2, AnswersAre, EndIsMessage
  <2>4. \A i \in DOMAIN rcvrQueue' : rcvrQueue'[i] = a \/ (i \in DOMAIN rcvrQueue /\ rcvrQueue'[i] = rcvrQueue[i])
    BY <1>0, <2>1, <2>3
  <2> QED
    BY <1>2, <2>3, <2>4
<1>5. ssnd'.pc # "ended"
  BY <1>2, <1>3, SendingMoves
<1> QED
  BY <1>1, <1>2, <1>3, <1>4, <1>5, ServerTouches

\* What is due when the server is told to end is on its way, and stays so.
LEMMA DueStep == IInv /\ [Next]_vars => DueOnTheWay'
<1> SUFFICES ASSUME IInv, [Next]_vars PROVE DueOnTheWay'
  OBVIOUS
<1>1. srv' \in {"starting", "up"} => ssnd'.pc # "ended" /\ \A i \in DOMAIN rcvrQueue' : rcvrQueue'[i] # End
  BY NoEndBefore
<1>2. ASSUME PressServerKey, NEW m \in due'
      PROVE  /\ m.to \in Clients /\ m # End
             /\ (Active(ssnd') /\ ssnd'.msg = m) \/ BeforeEnd(m)'
             /\ ssnd'.pc # "ended"
  <2>0. rcvrQueue \in Seq(Messages) /\ rcvrQueue' = Append(rcvrQueue, End) /\ ssnd' = ssnd /\ m \in Pending
    BY <1>2, TypeParts DEF IInv, QueueTypes, PressServerKey
  <2>1. ssnd.pc # "ended" /\ \A i \in DOMAIN rcvrQueue : rcvrQueue[i] # End
    BY <1>2 DEF IInv, DueOnTheWay, PressServerKey
  <2>2. CASE m \in ToSet(rcvrQueue)
    <3>1. PICK i \in DOMAIN rcvrQueue : rcvrQueue[i] = m
      BY <2>2 DEF ToSet
    <3>2. Answer(m, posted, store)
      BY <2>1, <3>1 DEF IInv, Origins
    <3>3. \A j \in DOMAIN rcvrQueue : j \in DOMAIN rcvrQueue' /\ rcvrQueue'[j] = rcvrQueue[j]
      BY <2>0, EndIsMessage
    <3>4. \A j \in 1..(i - 1) : j \in DOMAIN rcvrQueue
      BY <2>0, <3>1
    <3>5. BeforeEnd(m)'
      BY <2>1, <3>1, <3>3, <3>4 DEF BeforeEnd, End, Msg
    <3> QED
      BY <2>0, <2>1, <3>1, <3>2, <3>5 DEF Answer
  <2>3. CASE Active(ssnd) /\ ssnd.msg = m
    <3>1. Answer(m, posted, store)
      BY <2>3 DEF IInv, Origins
    <3> QED
      BY <2>0, <2>1, <2>3, <3>1, EndIsMessage DEF Answer
  <2> QED
    BY <2>0, <2>2, <2>3 DEF Pending, Active
<1>3. ASSUME ~PressServerKey, NEW m \in due'
      PROVE  /\ m.to \in Clients /\ m # End
             /\ Drained(m)' \/ (Active(ssnd') /\ ssnd'.msg = m) \/ BeforeEnd(m)'
             /\ ssnd'.pc = "ended" => Drained(m)'
  <2>1. /\ m \in due /\ m.to \in Clients /\ m # End
        /\ Drained(m) \/ (Active(ssnd) /\ ssnd.msg = m) \/ BeforeEnd(m)
        /\ ssnd.pc = "ended" => Drained(m)
    <3>1. m \in due
      BY <1>3, ServerTouches
    <3> QED
      BY <3>1 DEF IInv, DueOnTheWay
  <2>2. CASE Drained(m)
    BY <2>1, <2>2, DrainedLasts
  <2>3. CASE Active(ssnd) /\ ssnd.msg = m
    <3>1. ssnd.pc # "ended" /\ ~ServerDeQ
      BY <2>3, SendingMoves DEF Active
    <3> QED
      BY <2>1, <2>3, <3>1, SendingMoves
  <2>4. CASE BeforeEnd(m) /\ ~Drained(m)
    <3>1. ssnd'.pc # "ended"
      BY <2>1, <2>4, SendingMoves, BeforeEndMoves
    <3>2. ServerDeQ /\ Head(rcvrQueue) = m => Active(ssnd') /\ ssnd'.msg = m
      BY <2>1, SendingMoves
    <3> QED
      BY <2>1, <2>4, <3>1, <3>2, BeforeEndMoves
  <2> QED
    BY <2>1, <2>2, <2>3, <2>4
<1> QED
  BY <1>1, <1>2, <1>3 DEF DueOnTheWay, Active, End, Msg

------------------------------------------------------------------------------
(* The invariant, and what it gives.                                         *)

\* At the start nothing was asked, and nobody told the server to end.
LEMMA IInvInit == Init => IInv
<1> SUFFICES ASSUME Init PROVE IInv
  OBVIOUS
<1> USE DEF Init
<1>1. End \in Messages /\ Thread("deQ", End) \in SenderThreads /\ ~Active(Thread("deQ", End))
      /\ Thread("deQ", End).msg = End
  BY EndIsMessage DEF Thread, SenderThreads, Active
<1>2. \A c \in Clients : Got(c) = <<>>
  BY DEF Got
<1>3. TypeOK
  <2>1. PostTypes /\ GotTypes /\ LinkTypes /\ QueueTypes /\ ServerTypes
    BY DEF PostTypes, GotTypes, LinkTypes, QueueTypes, ServerTypes
  <2>2. ProcTypes /\ SenderTypes
    BY <1>1 DEF ProcTypes, SenderTypes
  <2> QED
    BY <2>1, <2>2, TypeParts
<1>4. Origins
  BY <1>1, <1>2 DEF Origins
<1>5. SeenStored
  BY DEF SeenStored
<1>6. \A c \in Clients : \A n : ~Begun(c, n)
  BY <1>1, <1>2 DEF Begun, Queued, Taken, Sent, InHandler, InQueue, InSender, InOut, InGot
<1>7. Once
  <2>1. OnceGot /\ OnceOut
    BY <1>2 DEF OnceGot, OnceOut
  <2>2. OnceTaken
    BY <1>1 DEF OnceTaken, InSender
  <2>3. OnceQueued /\ OnceHandled
    BY DEF OnceQueued, OnceHandled
  <2>4. OnceSending /\ OncePosted
    BY <1>1 DEF OnceSending, OncePosted
  <2> QED
    BY <2>1, <2>2, <2>3, <2>4 DEF Once
<1>8. DueOnTheWay
  BY <1>1 DEF DueOnTheWay, Thread
<1> QED
  BY <1>3, <1>4, <1>5, <1>7, <1>8 DEF IInv

\* IInv is inductive.
THEOREM Inductive == Spec => []IInv
<1>1. Init => IInv
  BY IInvInit
<1>2. IInv /\ [Next]_vars => IInv'
  BY TypeStep, OriginsStep, SeenStep, OnceStep, DueStep DEF IInv
<1> QED
  BY <1>1, <1>2, PTL DEF Spec

\* Each answer goes, once, to the client that asked for it, however the threads,
\* queues and connections of any number of clients interleave.
THEOREM AnswersAlwaysHold == Spec => []AnswersHold
<1>1. IInv => AnswersHold
  <2> SUFFICES ASSUME IInv, NEW c \in Clients, NEW i \in 1..Len(Got(c)),
                      NEW r, r = Got(c)[i]
               PROVE  /\ r.to = c /\ r.n \in 1..Len(posted[c]) /\ posted[c][r.n].kind = r.kind
                      /\ \A j \in 1..Len(Got(c)) :
                           j # i /\ Got(c)[j].n = r.n => r.kind = "download"
    BY DEF AnswersHold, RepliesMatch, IInv
  <2>1. Got(c) \in Seq(Messages)
    <3>1. rcvd[c] \in Seq(Messages) /\ shown[c] \in Seq(Messages)
      BY TypeParts DEF IInv, GotTypes
    <3> QED
      BY <3>1 DEF Got
  <2>2. DOMAIN Got(c) = 1..Len(Got(c))
    BY <2>1
  <2>3. Answer(r, posted, store) /\ r.to = c
    BY <2>2 DEF IInv, Origins
  <2>4. \A j \in 1..Len(Got(c)) : j # i /\ Got(c)[j].n = r.n => r.kind = "download"
    BY <2>2 DEF IInv, Once, OnceGot
  <2> QED
    BY <2>3, <2>4 DEF Answer
<1> QED
  BY <1>1, Inductive, PTL

\* A client is never told that an upload is stored before it is, and a list it asks
\* for afterwards names that upload, for any number of clients and requests.
THEOREM UploadsAreKept == Spec => []UploadsKept
<1>1. IInv => UploadsKept
  <2> SUFFICES ASSUME IInv, NEW c \in Clients, NEW r \in ToSet(Got(c))
               PROVE  /\ r.kind = "upload" => <<c, r.n>> \in store
                      /\ r.kind = "getall" => posted[c][r.n].seen \subseteq r.listed
    BY DEF UploadsKept, AckedIsStored, AckedThenListed
  <2>1. Answer(r, posted, store) /\ r.to = c
    BY DEF IInv, Origins, ToSet
  <2> QED
    BY <2>1 DEF Answer
<1> QED
  BY <1>1, Inductive, PTL

\* When the server's sender thread ends, no reply that was queued before END_SERVER
\* is left behind, whichever clients leave meanwhile.
THEOREM ServerDrains == Spec => []EndDrains
<1>1. IInv => EndDrains
  BY DEF IInv, DueOnTheWay, Drained, EndDrains
<1> QED
  BY <1>1, Inductive, PTL
==============================================================================
