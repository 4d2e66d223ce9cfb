----------------------------- MODULE Repository -----------------------------
(***************************************************************************)
(* The running system: one server and its clients, each a process with a   *)
(* listener, a sender thread, handler threads and BlockingQueues.          *)
(*                                                                         *)
(*   client GUI --postMessage--> sndrQueue --sender thread--> connection    *)
(*     --> handler thread of the server --> server's rcvrQueue --> the one  *)
(*     sender thread of the server --> connection --> handler thread of the *)
(*     client --> client's rcvrQueue --getMessage--> client GUI             *)
(*                                                                         *)
(* The queues are the FIFO queues of module FifoQueue, and a file travels   *)
(* over a connection as module FileTransfer describes: whole, or not at     *)
(* all.  What the connections do not promise is any order between them:     *)
(* each has its own handler thread.                                        *)
(***************************************************************************)
EXTENDS Naturals, Sequences, FiniteSets, SequencesExt

CONSTANTS Clients,    \* the client processes (console client, WPF client)
          Server,     \* the server process
          Kinds,      \* Kinds[c]: what c requests, of "upload", "getall", "download"
          MaxPosts,   \* bound: MaxPosts[c] is how many requests c posts
          Downloads,  \* numbers of files that a download may yield
          MayEnd,     \* clients whose program posts END_CLIENT_RECEIVER
          MayLeave,   \* clients that may exit or die
          MayStop,    \* somebody may press a key on the server's console
          MayFail     \* the server may be unable to store an upload

ASSUME ClientsAssumption == IsFiniteSet(Clients) /\ Server \notin Clients
ASSUME KindsAssumption == Kinds \in [Clients -> SUBSET {"upload", "getall", "download"}]
ASSUME BoundsAssumption == MaxPosts \in [Clients -> Nat] /\ Downloads \subseteq Nat
ASSUME FaultsAssumption == MayEnd \subseteq Clients /\ MayLeave \subseteq Clients /\
                           MayStop \in BOOLEAN /\ MayFail \in BOOLEAN

VARIABLES posted,     \* posted[c]: the requests c posted (kind, acks seen by then)
          proc,       \* proc[c]: "starting", "listening", "closing" or "gone"
          sndrQueue,  \* sndrQueue[c]: Client::sndrQueue
          csnd,       \* csnd[c]: the sender thread of c (pc, msg)
          rcvd,       \* rcvd[c]: Client::rcvrQueue
          shown,      \* shown[c]: what c's GUI thread got from getMessage
          outconn,    \* connections from the server to clients
          srv,        \* the server: "starting", "up", "stopping", "closed", "gone"
          inconn,     \* connections from clients, with their handler threads
          store,      \* uploads stored whole in Server_Repository
          rcvrQueue,  \* Server::rcvrQueue
          ssnd,       \* the sender thread of the server (pc, msg)
          due         \* replies queued when the server was told to end

clientVars == <<posted, proc, sndrQueue, csnd, rcvd, shown>>
serverVars == <<srv, store, rcvrQueue, ssnd, due>>
vars == <<clientVars, serverVars, outconn, inconn>>

\* An HTTPMessage: its addresses, the number of the request it belongs to, the
\* kind of request, and for a list of files the uploads it names.
Msg(f, t, n, k) == [from |-> f, to |-> t, n |-> n, kind |-> k, listed |-> {}]
End == Msg(Server, Server, 0, "end")
Thread(label, m) == [pc |-> label, msg |-> m]

Init == /\ posted = [c \in Clients |-> <<>>]
        /\ proc = [c \in Clients |-> "starting"]
        /\ sndrQueue = [c \in Clients |-> <<>>]
        /\ csnd = [c \in Clients |-> Thread("deQ", End)]
        /\ rcvd = [c \in Clients |-> <<>>]
        /\ shown = [c \in Clients |-> <<>>]
        /\ outconn = {} /\ inconn = {}
        /\ srv = "starting" /\ store = {}
        /\ rcvrQueue = <<>> /\ ssnd = Thread("deQ", End) /\ due = {}

Alive(c) == proc[c] # "gone"

------------------------------------------------------------------------------
(* Client: GUI or main thread.                                               *)

\* The uploads that c has been told are stored.
Acked(c) == {<<c, r.n>> : r \in {s \in ToSet(shown[c]) : s.kind = "upload"}}

\* postMessage.
Post(c, k) ==
  /\ Alive(c)
  /\ Len(posted[c]) < MaxPosts[c]
  /\ posted' = [posted EXCEPT ![c] = Append(@, [kind |-> k, seen |-> Acked(c)])]
  /\ sndrQueue' = [sndrQueue EXCEPT ![c] =
                     Append(@, Msg(c, Server, Len(posted[c]) + 1, k))]
  /\ UNCHANGED <<proc, csnd, rcvd, shown, serverVars, outconn, inconn>>

\* The console client posts END_CLIENT_RECEIVER after its last request; its
\* receiver goes on listening.
PostEnd(c) ==
  /\ Alive(c) /\ c \in MayEnd
  /\ \A i \in 1..Len(sndrQueue[c]) : sndrQueue[c][i] # End
  /\ csnd[c].pc # "ended"
  /\ sndrQueue' = [sndrQueue EXCEPT ![c] = Append(@, End)]
  /\ UNCHANGED <<posted, proc, csnd, rcvd, shown, serverVars, outconn, inconn>>

\* getMessage, in the GUI's own thread.
GetMessage(c) ==
  /\ Alive(c) /\ rcvd[c] # <<>>
  /\ shown' = [shown EXCEPT ![c] = Append(@, Head(rcvd[c]))]
  /\ rcvd' = [rcvd EXCEPT ![c] = Tail(@)]
  /\ UNCHANGED <<posted, proc, sndrQueue, csnd, serverVars, outconn, inconn>>

------------------------------------------------------------------------------
(* Client: the receiver thread and the process.                              *)

\* startReceiver: from now on connections to c succeed.
ClientListens(c) ==
  /\ proc[c] = "starting"
  /\ proc' = [proc EXCEPT ![c] = "listening"]
  /\ UNCHANGED <<posted, sndrQueue, csnd, rcvd, shown, serverVars, outconn, inconn>>

\* startReceiver after a key press: post END_CLIENT_RECEIVER and close.  What
\* the listening socket had not accepted yet is reset.
PressKey(c) ==
  /\ proc[c] = "listening" /\ c \in MayLeave
  /\ proc' = [proc EXCEPT ![c] = "closing"]
  /\ sndrQueue' = [sndrQueue EXCEPT ![c] = Append(@, End)]
  /\ \E lost \in SUBSET {o \in outconn : o.msg.to = c} : outconn' = outconn \ lost
  /\ UNCHANGED <<posted, csnd, rcvd, shown, serverVars, inconn>>

\* What becomes of c's connections when its process is gone: those to c are
\* closed, those from c may lose what the server has not read yet.
DropConnections(c) ==
  /\ outconn' = {o \in outconn : o.msg.to # c}
  /\ \E lost \in SUBSET {i \in inconn : i.msg.from = c /\ i.stage = "sent"} :
       inconn' = inconn \ lost

\* main returns once both threads are joined.
Exit(c) ==
  /\ proc[c] = "closing" /\ csnd[c].pc = "ended"
  /\ proc' = [proc EXCEPT ![c] = "gone"]
  /\ DropConnections(c)
  /\ UNCHANGED <<posted, sndrQueue, csnd, rcvd, shown, serverVars>>

\* The process dies at any point.
Die(c) ==
  /\ Alive(c) /\ c \in MayLeave
  /\ proc' = [proc EXCEPT ![c] = "gone"]
  /\ DropConnections(c)
  /\ UNCHANGED <<posted, sndrQueue, csnd, rcvd, shown, serverVars>>

\* Receiver::operator() in a handler thread of c: take one reply or file from the
\* connection, enqueue the message or the ACK_DOWNLOAD, wait for the next.  The
\* server never closes the connection, so with left = 0 the thread stays blocked.
ClientReceives(o) ==
  /\ o.left > 0 /\ Alive(o.msg.to)
  /\ rcvd' = [rcvd EXCEPT ![o.msg.to] = Append(@, o.msg)]
  /\ outconn' = (outconn \ {o}) \cup {[o EXCEPT !.left = @ - 1]}
  /\ UNCHANGED <<posted, proc, sndrQueue, csnd, shown, serverVars, inconn>>

------------------------------------------------------------------------------
(* Client: the sender thread.                                                *)

ClientDeQ(c) ==
  /\ Alive(c) /\ csnd[c].pc = "deQ" /\ sndrQueue[c] # <<>>
  /\ csnd' = [csnd EXCEPT ![c] = Thread(IF Head(sndrQueue[c]) = End THEN "ended" ELSE "connect",
                                        Head(sndrQueue[c]))]
  /\ sndrQueue' = [sndrQueue EXCEPT ![c] = Tail(@)]
  /\ UNCHANGED <<posted, proc, rcvd, shown, serverVars, outconn, inconn>>

\* connectSocket retries every 100 ms until the server listens.
ClientConnect(c) ==
  /\ Alive(c) /\ csnd[c].pc = "connect"
  /\ srv \in {"up", "stopping"}
  /\ csnd' = [csnd EXCEPT ![c].pc = "send"]
  /\ UNCHANGED <<posted, proc, sndrQueue, rcvd, shown, serverVars, outconn, inconn>>

\* processRequest: send the request, or the whole file, then shut down.  If the
\* server closed its listener meanwhile, the connection may not have been accepted.
ClientSend(c) ==
  /\ Alive(c) /\ csnd[c].pc = "send"
  /\ \/ srv # "gone" /\ inconn' = inconn \cup {[msg |-> csnd[c].msg, stage |-> "sent"]}
     \/ srv \in {"closed", "gone"} /\ UNCHANGED inconn
  /\ csnd' = [csnd EXCEPT ![c].pc = "deQ"]
  /\ UNCHANGED <<posted, proc, sndrQueue, rcvd, shown, serverVars, outconn>>

------------------------------------------------------------------------------
(* Server: its handler threads, one for each connection (Receiver).          *)

ServerAlive == srv # "gone"

\* Mutant: the addresses are not swapped.
ReplyUnswapped(m, listed) == [m EXCEPT !.listed = listed]

\* swapAddress, then the body of the answer.
Reply(m, listed) == [m EXCEPT !.from = m.to, !.to = m.from, !.listed = listed]

Handled(i, reply) == inconn' = (inconn \ {i}) \cup {[msg |-> reply, stage |-> "reply"]}

\* Mutant: the upload is acknowledged although it could not be stored.
StoreUploadOrNot(i) ==
  /\ ServerAlive /\ i.stage = "sent" /\ i.msg.kind = "upload"
  /\ \/ store' = store \cup {<<i.msg.from, i.msg.n>>}
     \/ MayFail /\ UNCHANGED store
  /\ Handled(i, Reply(i.msg, {}))
  /\ UNCHANGED <<clientVars, outconn, srv, rcvrQueue, ssnd, due>>

\* fileUploadHandler: getFile stores the file; ACK_UPLOAD is queued later.
StoreUpload(i) ==
  /\ ServerAlive /\ i.stage = "sent" /\ i.msg.kind = "upload"
  /\ store' = store \cup {<<i.msg.from, i.msg.n>>}
  /\ Handled(i, Reply(i.msg, {}))
  /\ UNCHANGED <<clientVars, outconn, srv, rcvrQueue, ssnd, due>>

\* fileUploadHandler when getFile fails: it returns without an answer.  So it is
\* also when the client could not open its file: an empty connection.
FailUpload(i) ==
  /\ ServerAlive /\ i.stage = "sent" /\ i.msg.kind = "upload" /\ MayFail
  /\ inconn' = inconn \ {i}
  /\ UNCHANGED <<clientVars, outconn, serverVars>>

\* getAllServerFiles: FileMgr begins to search the directory.
ListFiles(i) ==
  /\ ServerAlive /\ i.stage = "sent" /\ i.msg.kind = "getall"
  /\ Handled(i, Reply(i.msg, store))
  /\ UNCHANGED <<clientVars, outconn, serverVars>>

\* fileDownloadHandler: REQUEST_DOWNLOAD becomes a DOWNLOAD for the sender thread.
AcceptDownload(i) ==
  /\ ServerAlive /\ i.stage = "sent" /\ i.msg.kind = "download"
  /\ Handled(i, Reply(i.msg, {}))
  /\ UNCHANGED <<clientVars, outconn, serverVars>>

\* The answer: a list of files, when it is one, holds what there was when the search
\* began and maybe more of what there is now, as module Listing says.
Answers(m) == {[m EXCEPT !.listed = l] :
                 l \in IF m.kind = "getall" THEN {s \in SUBSET store : m.listed \subseteq s} ELSE {{}}}

\* Mutant: the handler thread goes on after its answer.
EnqueueReplyAndStay(i) ==
  /\ ServerAlive /\ i.stage = "reply"
  /\ \E m \in Answers(i.msg) : rcvrQueue' = Append(rcvrQueue, m)
  /\ UNCHANGED <<clientVars, outconn, inconn, srv, store, ssnd, due>>

\* _rcvQueue.enQ(message); the client has shut the connection down, so the next
\* recvString is empty and the handler thread ends.
EnqueueReply(i) ==
  /\ ServerAlive /\ i.stage = "reply"
  /\ \E m \in Answers(i.msg) : rcvrQueue' = Append(rcvrQueue, m)
  /\ inconn' = inconn \ {i}
  /\ UNCHANGED <<clientVars, outconn, srv, store, ssnd, due>>

Handle(i) == \/ StoreUpload(i) \/ ListFiles(i)
             \/ AcceptDownload(i) \/ EnqueueReply(i)

------------------------------------------------------------------------------
(* Server: the sender thread.                                                *)

ServerDeQ ==
  /\ ServerAlive /\ ssnd.pc = "deQ" /\ rcvrQueue # <<>>
  /\ ssnd' = Thread(IF Head(rcvrQueue) = End THEN "ended" ELSE "connect", Head(rcvrQueue))
  /\ rcvrQueue' = Tail(rcvrQueue)
  /\ UNCHANGED <<clientVars, outconn, inconn, srv, store, due>>

\* connectSocket retries every 100 ms, for ever: while the addressee does not
\* listen, nobody is answered.
ServerConnect ==
  /\ ServerAlive /\ ssnd.pc = "connect"
  /\ ssnd.msg.to \in Clients /\ proc[ssnd.msg.to] = "listening"
  /\ ssnd' = [ssnd EXCEPT !.pc = "send"]
  /\ UNCHANGED <<clientVars, outconn, inconn, srv, store, rcvrQueue, due>>

\* processRequest: one message, or the files of a download one after the other.
\* The connection is not shut down.
ServerSend ==
  /\ ServerAlive /\ ssnd.pc = "send"
  /\ IF Alive(ssnd.msg.to)
     THEN \/ \E k \in IF ssnd.msg.kind = "download" THEN Downloads ELSE {1} :
               outconn' = outconn \cup {[msg |-> ssnd.msg, left |-> k]}
          \/ proc[ssnd.msg.to] = "closing" /\ UNCHANGED outconn
     ELSE UNCHANGED outconn
  /\ ssnd' = [ssnd EXCEPT !.pc = "deQ"]
  /\ UNCHANGED <<clientVars, inconn, srv, store, rcvrQueue, due>>

------------------------------------------------------------------------------
(* Server: the receiver thread and the process.                              *)

ServerListens ==
  /\ srv = "starting"
  /\ srv' = "up"
  /\ UNCHANGED <<clientVars, outconn, inconn, store, rcvrQueue, ssnd, due>>

\* What the server still owes when END_SERVER is queued behind it.
Pending == ToSet(rcvrQueue) \cup
           (IF ssnd.pc \in {"connect", "send"} THEN {ssnd.msg} ELSE {})

\* Mutant: END_SERVER overtakes the queue.
PressServerKeyFirst ==
  /\ srv = "up" /\ MayStop
  /\ srv' = "stopping"
  /\ rcvrQueue' = <<End>> \o rcvrQueue
  /\ due' = Pending
  /\ UNCHANGED <<clientVars, outconn, inconn, store, ssnd>>

\* Mutant: the sender thread is not told.
PressServerKeySilently ==
  /\ srv = "up" /\ MayStop
  /\ srv' = "stopping"
  /\ due' = Pending
  /\ UNCHANGED <<clientVars, outconn, inconn, store, rcvrQueue, ssnd>>

\* startReceiver after a key press: queue END_SERVER.
PressServerKey ==
  /\ srv = "up" /\ MayStop
  /\ srv' = "stopping"
  /\ rcvrQueue' = Append(rcvrQueue, End)
  /\ due' = Pending
  /\ UNCHANGED <<clientVars, outconn, inconn, store, ssnd>>

\* startReceiver returns and destroys its SocketListener: connections that were
\* not accepted yet are reset.
CloseListener ==
  /\ srv = "stopping"
  /\ srv' = "closed"
  /\ \E lost \in SUBSET {i \in inconn : i.stage = "sent"} : inconn' = inconn \ lost
  /\ UNCHANGED <<clientVars, outconn, store, rcvrQueue, ssnd, due>>

\* main returns once both threads are joined; handler threads and queued
\* replies die with the process.
ServerExit ==
  /\ srv = "closed" /\ ssnd.pc = "ended"
  /\ srv' = "gone"
  /\ inconn' = {}
  /\ UNCHANGED <<clientVars, outconn, store, rcvrQueue, ssnd, due>>

------------------------------------------------------------------------------
ClientSender(c) == ClientDeQ(c) \/ ClientConnect(c) \/ ClientSend(c)
ServerSender == ServerDeQ \/ ServerConnect \/ ServerSend
ServerMain == ServerListens \/ CloseListener \/ ServerExit

Next == \/ \E c \in Clients :
             \/ \E k \in Kinds[c] : Post(c, k)
             \/ PostEnd(c) \/ GetMessage(c) \/ ClientListens(c) \/ PressKey(c)
             \/ Exit(c) \/ Die(c) \/ ClientSender(c)
        \/ \E o \in outconn : ClientReceives(o)
        \/ \E i \in inconn : Handle(i) \/ FailUpload(i)
        \/ ServerSender \/ ServerMain \/ PressServerKey

Spec == Init /\ [][Next]_vars

\* Every thread that can run does: the threads of a process, each handler thread
\* by itself, and the user looks at the messages.
Fairness ==
  /\ \A c \in Clients : /\ WF_vars(ClientSender(c))
                         /\ WF_vars(ClientListens(c))
                         /\ WF_vars(GetMessage(c))
                         /\ WF_vars(Exit(c))
                         /\ \A n \in 1..MaxPosts[c] :
                              /\ WF_vars(\E o \in outconn : o.msg.to = c /\ o.msg.n = n
                                                            /\ ClientReceives(o))
                              /\ WF_vars(\E i \in inconn : c \in {i.msg.from, i.msg.to}
                                                           /\ i.msg.n = n /\ Handle(i))
  /\ WF_vars(ServerSender)
  /\ WF_vars(ServerMain)

FairSpec == Spec /\ Fairness

------------------------------------------------------------------------------
Messages == [from : Clients \cup {Server}, to : Clients \cup {Server}, n : Nat,
             kind : {"upload", "getall", "download", "end"}, listed : SUBSET (Clients \X Nat)]

\* Type invariant; the server's queue and sender thread hold only answers on
\* their way to a client, and its END_SERVER.
TypeOK ==
  /\ posted \in [Clients -> Seq([kind : {"upload", "getall", "download"}, seen : SUBSET (Clients \X Nat)])]
  /\ proc \in [Clients -> {"starting", "listening", "closing", "gone"}]
  /\ sndrQueue \in [Clients -> Seq(Messages)]
  /\ csnd \in [Clients -> [pc : {"deQ", "connect", "send", "ended"}, msg : Messages]]
  /\ rcvd \in [Clients -> Seq(Messages)] /\ shown \in [Clients -> Seq(Messages)]
  /\ outconn \subseteq [msg : Messages, left : Nat]
  /\ srv \in {"starting", "up", "stopping", "closed", "gone"}
  /\ inconn \subseteq [msg : Messages, stage : {"sent", "reply"}]
  /\ store \subseteq Clients \X Nat
  /\ rcvrQueue \in Seq(Messages)
  /\ ssnd \in [pc : {"deQ", "connect", "send", "ended"}, msg : Messages]
  /\ due \subseteq Messages
  /\ \A m \in ToSet(rcvrQueue) \cup {ssnd.msg} : m = End \/ m.to \in Clients

\* The messages that c has received, in order.
Got(c) == shown[c] \o rcvd[c]

\* Replies reach the client that asked, each answers a request of that kind that
\* the client did post, and an upload or a list is answered at most once, however
\* the handler threads, queues and connections of several clients interleave.
RepliesMatch ==
  \A c \in Clients : \A i \in 1..Len(Got(c)) :
    LET r == Got(c)[i]
    IN  /\ r.to = c /\ r.n \in 1..Len(posted[c]) /\ posted[c][r.n].kind = r.kind
        /\ \A j \in 1..Len(Got(c)) :
             j # i /\ Got(c)[j].n = r.n => r.kind = "download"

\* An upload that was acknowledged is in the repository.
AckedIsStored ==
  \A c \in Clients : \A r \in ToSet(Got(c)) : r.kind = "upload" => <<c, r.n>> \in store

\* A list of files requested after an upload was acknowledged names that upload.
\* (One requested without waiting for the acknowledgement may not: each request
\* travels over its own connection to its own handler thread.)
AckedThenListed ==
  \A c \in Clients : \A r \in ToSet(Got(c)) :
    r.kind = "getall" => posted[c][r.n].seen \subseteq r.listed

\* When the server's sender thread ends, every reply that was queued before
\* END_SERVER has been sent: it is on a connection or has been received, unless
\* its client has left.
EndDrains ==
  ssnd.pc = "ended" =>
    \A m \in due : \/ proc[m.to] \in {"closing", "gone"}
                  \/ m \in ToSet(Got(m.to))
                  \/ \E o \in outconn : o.msg = m

\* Every request is answered, unless the server is told to end first.
EveryRequestAnswered ==
  \A c \in Clients : \A n \in 1..MaxPosts[c] :
    (n <= Len(posted[c])) ~> ((\E r \in ToSet(shown[c]) : r.n = n) \/ srv \notin {"starting", "up"})

\* A server told to end does end, when its clients go on listening.
ServerEnds == (srv = "stopping") ~> (srv = "gone")

\* Each answer goes, once, to the client that asked for it.
AnswersHold == TypeOK /\ RepliesMatch

\* An upload that was acknowledged is in the repository and in every list asked for
\* afterwards.
UploadsKept == AckedIsStored /\ AckedThenListed
==============================================================================
