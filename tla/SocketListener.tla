--------------------------- MODULE SocketListener ---------------------------
(***************************************************************************)
(* How connections come about: the SocketListener that startReceiver keeps  *)
(* on its stack, the detached thread that SocketListener::start leaves      *)
(* behind to accept connections, and the connecters that try, again and     *)
(* again, to reach it (connectSocket over SocketConnecter::connect).        *)
(*                                                                         *)
(* When a key is pressed startReceiver destroys the listener while its      *)
(* thread still uses it.  What that thread reads then is anything; once the *)
(* receiver's thread has ended, and its stack with it, touching it ends the *)
(* process.  Sockets that connect leaves open are not counted.              *)
(***************************************************************************)
EXTENDS Naturals, Sequences, FiniteSets, SequencesExt

CONSTANTS Peers,      \* calls of connectSocket, in other processes
          Families,   \* the address families "localhost" resolves to, in order
          Family,     \* the family the listener asks for
          MaxBacklog, \* bound: SOMAXCONN, the connections that may wait for accept
          MayStop,    \* may somebody call stop?
          MayEnd,     \* may somebody press a key?
          MayBreak    \* may bind, listen or accept fail?

ASSUME PeersAssumption == IsFiniteSet(Peers)
ASSUME FamiliesAssumption == Families \in Seq({"IP4", "IP6"}) /\ Family \in {"IP4", "IP6"}
ASSUME BacklogAssumption == MaxBacklog \in Nat \ {0}
ASSUME ChoicesAssumption == {MayStop, MayEnd, MayBreak} \subseteq BOOLEAN

VARIABLES main,         \* what the receiver thread does next
          socket,       \* the listening socket: "invalid", "bound", "listening" or "closed"
          memory,       \* the listener object: "alive", "dead", or "freed" with its stack
          stop,         \* stop_
          acceptFailed, \* acceptFailed_
          thread,       \* what the listen thread does next
          clientSocket, \* the connection it has accepted, in a sequence of at most one
          backlog,      \* connections that wait for accept, in order
          handlers,     \* connections given to handler threads, in order
          crashed,      \* the listen thread touched a stack that is gone
          peer,         \* peer[p]: "try", "retry" or "connected"
          address,      \* address[p]: the next address p's connect tries
          made,         \* history: the connections made, in order
          late          \* history: how many were accepted since stop was called

connecting == <<peer, address, made>>
vars == <<main, socket, memory, stop, acceptFailed, thread, clientSocket, backlog, handlers,
          crashed, connecting, late>>

Init == /\ main = "bind" /\ socket = "invalid" /\ memory = "alive"
        /\ stop = FALSE /\ acceptFailed = FALSE
        /\ thread = "none" /\ clientSocket = <<>>
        /\ backlog = <<>> /\ handlers = <<>>
        /\ crashed = FALSE
        /\ peer = [p \in Peers |-> "try"]
        /\ address = [p \in Peers |-> 1]
        /\ made = <<>> /\ late = 0

------------------------------------------------------------------------------
(* The receiver thread: startReceiver.                                       *)

\* bind: where no address can be bound it returns true all the same.
Bind == /\ main = "bind"
        /\ \/ socket' = "bound"
           \/ MayBreak /\ socket' = "invalid"
        /\ main' = "listen"
        /\ UNCHANGED <<memory, stop, acceptFailed, thread, clientSocket, backlog, handlers,
                       crashed, connecting, late>>

\* listen; the thread is started and detached.  When listen fails start returns
\* false, but startReceiver does not look and waits for a key.
Listen ==
  /\ main = "listen"
  /\ \/ socket = "bound" /\ socket' = "listening" /\ thread' = "loop"
     \/ (socket = "invalid" \/ MayBreak) /\ socket' = "invalid" /\ thread' = thread
  /\ main' = "key"
  /\ UNCHANGED <<memory, stop, acceptFailed, clientSocket, backlog, handlers, crashed,
                 connecting, late>>

\* A key is pressed: ~Socket closes the listening socket; what waits for accept is
\* reset.
Destroy ==
  /\ main = "key" /\ MayEnd
  /\ socket' = "closed" /\ backlog' = <<>>
  /\ memory' = "dead"
  /\ main' = "return"
  /\ UNCHANGED <<stop, acceptFailed, thread, clientSocket, handlers, crashed, connecting, late>>

\* startReceiver returns and its thread ends.
ReturnFromReceiver ==
  /\ main = "return"
  /\ memory' = "freed"
  /\ main' = "over"
  /\ UNCHANGED <<socket, stop, acceptFailed, thread, clientSocket, backlog, handlers, crashed,
                 connecting, late>>

\* main has joined its threads; the detached ones end with the process.
ExitProcess ==
  /\ main = "over"
  /\ thread' = "ended" /\ main' = "gone"
  /\ UNCHANGED <<socket, memory, stop, acceptFailed, clientSocket, backlog, handlers, crashed,
                 connecting, late>>

\* SocketListener::stop; its "Stop!" goes nowhere, a listening socket cannot send.
Stop == /\ MayStop /\ main = "key" /\ ~stop
        /\ stop' = TRUE
        /\ UNCHANGED <<main, socket, memory, acceptFailed, thread, clientSocket, backlog,
                       handlers, crashed, connecting, late>>

------------------------------------------------------------------------------
(* The listen thread.                                                        *)

\* What the thread may read of a member whose value is v.
Seen(v) == IF memory = "alive" THEN {v} ELSE BOOLEAN

\* Any access to the listener once its stack is gone.
Crash == /\ memory = "freed" /\ thread \in {"loop", "stop?", "accept"} /\ main # "gone"
         /\ crashed' = TRUE
         /\ thread' = "ended" /\ main' = "gone"
         /\ UNCHANGED <<socket, memory, stop, acceptFailed, clientSocket, backlog, handlers,
                        connecting, late>>

\* while (!acceptFailed_)
TestFailed ==
  /\ thread = "loop" /\ memory # "freed"
  /\ \E failed \in Seen(acceptFailed) : thread' = IF failed THEN "ended" ELSE "stop?"
  /\ UNCHANGED <<main, socket, memory, stop, acceptFailed, clientSocket, backlog, handlers,
                 crashed, connecting, late>>

\* if (stop_.load()) break;
TestStop ==
  /\ thread = "stop?" /\ memory # "freed"
  /\ \E stopped \in Seen(stop) : thread' = IF stopped THEN "ended" ELSE "accept"
  /\ UNCHANGED <<main, socket, memory, stop, acceptFailed, clientSocket, backlog, handlers,
                 crashed, connecting, late>>

\* accept returns the first connection that waits; it blocks while none does.
Accept ==
  /\ thread = "accept" /\ socket = "listening" /\ backlog # <<>>
  /\ clientSocket' = <<Head(backlog)>>
  /\ backlog' = Tail(backlog)
  /\ late' = IF stop THEN late + 1 ELSE late
  /\ thread' = "handle"
  /\ UNCHANGED <<main, socket, memory, stop, acceptFailed, handlers, crashed, connecting>>

\* accept fails: the socket is closed, or the system refuses; either way
\* acceptFailed_ is set and the loop ends.
FailAccept ==
  /\ thread = "accept" /\ memory # "freed"
  /\ socket # "listening" \/ MayBreak
  /\ acceptFailed' = TRUE
  /\ thread' = "loop"
  /\ UNCHANGED <<main, socket, memory, stop, clientSocket, backlog, handlers, crashed,
                 connecting, late>>

\* Mutant: the handler thread is started only as long as nobody has called stop.
HandleUnlessStopped ==
  /\ thread = "handle"
  /\ handlers' = IF stop THEN handlers ELSE handlers \o clientSocket
  /\ clientSocket' = <<>>
  /\ thread' = "loop"
  /\ UNCHANGED <<main, socket, memory, stop, acceptFailed, backlog, crashed, connecting, late>>

\* The connection is moved into a handler thread of its own.
Handle ==
  /\ thread = "handle"
  /\ handlers' = handlers \o clientSocket
  /\ clientSocket' = <<>>
  /\ thread' = "loop"
  /\ UNCHANGED <<main, socket, memory, stop, acceptFailed, backlog, crashed, connecting, late>>

ListenThread == \/ Crash \/ TestFailed \/ TestStop \/ Accept
                \/ FailAccept \/ Handle

------------------------------------------------------------------------------
(* The connecters.                                                           *)

\* The system takes a connection: somebody listens at that address and has room.
Accessible(p) == /\ socket = "listening" /\ Families[address[p]] = Family
                 /\ Len(backlog) < MaxBacklog

\* Mutant: only the first address is tried.
TryFirst(p) ==
  /\ peer[p] = "try" /\ address[p] <= Len(Families)
  /\ IF Accessible(p)
     THEN /\ peer' = [peer EXCEPT ![p] = "connected"]
          /\ backlog' = Append(backlog, p) /\ made' = Append(made, p)
          /\ UNCHANGED address
     ELSE /\ address' = [address EXCEPT ![p] = Len(Families) + 1]
          /\ UNCHANGED <<peer, backlog, made>>
  /\ UNCHANGED <<main, socket, memory, stop, acceptFailed, thread, clientSocket, handlers,
                 crashed, late>>

\* SocketConnecter::connect: a socket for the next address, until one connects.
\* Resolving localhost and making a socket are taken to succeed; where they fail
\* connect returns false at once, as NoAddress does at the end of the list.
TryAddress(p) ==
  /\ peer[p] = "try" /\ address[p] <= Len(Families)
  /\ IF Accessible(p)
     THEN /\ peer' = [peer EXCEPT ![p] = "connected"]
          /\ backlog' = Append(backlog, p) /\ made' = Append(made, p)
          /\ UNCHANGED address
     ELSE /\ address' = [address EXCEPT ![p] = @ + 1]
          /\ UNCHANGED <<peer, backlog, made>>
  /\ UNCHANGED <<main, socket, memory, stop, acceptFailed, thread, clientSocket, handlers,
                 crashed, late>>

\* connect returns false,
NoAddress(p) ==
  /\ peer[p] = "try" /\ address[p] > Len(Families)
  /\ peer' = [peer EXCEPT ![p] = "retry"]
  /\ UNCHANGED <<main, socket, memory, stop, acceptFailed, thread, clientSocket, backlog,
                 handlers, crashed, address, made, late>>

\* and connectSocket calls it again 100 ms later, for ever.
Retry(p) ==
  /\ peer[p] = "retry"
  /\ peer' = [peer EXCEPT ![p] = "try"]
  /\ address' = [address EXCEPT ![p] = 1]
  /\ UNCHANGED <<main, socket, memory, stop, acceptFailed, thread, clientSocket, backlog,
                 handlers, crashed, made, late>>

Connect(p) == TryAddress(p) \/ NoAddress(p) \/ Retry(p)

Next == \/ Bind \/ Listen \/ Destroy \/ ReturnFromReceiver \/ ExitProcess \/ Stop
        \/ ListenThread
        \/ \E p \in Peers : Connect(p)

Spec == Init /\ [][Next]_vars

------------------------------------------------------------------------------
\* Type invariant; the listen thread holds a connection exactly while it starts
\* the handler.
TypeOK ==
  /\ main \in {"bind", "listen", "key", "return", "over", "gone"}
  /\ socket \in {"invalid", "bound", "listening", "closed"}
  /\ memory \in {"alive", "dead", "freed"}
  /\ {stop, acceptFailed, crashed} \subseteq BOOLEAN
  /\ thread \in {"none", "loop", "stop?", "accept", "handle", "ended"}
  /\ clientSocket \in Seq(Peers) /\ Len(clientSocket) <= 1
  /\ thread = "handle" => clientSocket # <<>>
  /\ thread \in {"loop", "stop?", "accept"} => clientSocket = <<>>
  /\ backlog \in Seq(Peers) /\ Len(backlog) <= MaxBacklog
  /\ handlers \in Seq(Peers)
  /\ peer \in [Peers -> {"try", "retry", "connected"}]
  /\ address \in [Peers -> 1..(Len(Families) + 1)]
  /\ made \in Seq(Peers) /\ late \in Nat

Taken == handlers \o clientSocket

\* Every connection has one place: handed to one handler thread, held by the listen
\* thread, or waiting, in the order in which they were made; the end of the listener
\* loses only some that came last.
EachOnce == /\ IsPrefix(Taken \o backlog, made)
            /\ socket = "listening" => Taken \o backlog = made

\* After stop at most one more connection is accepted, the one accept waited for.
StopTakesOneMore == memory = "alive" => late <= 1

\* As long as the process listens and its thread runs, every peer gets a handler in
\* the end, whichever address works and however early it began to try.
EveryPeerServed ==
  \A p \in Peers :
    <>[](socket = "listening" /\ thread # "ended") => <>(p \in ToSet(handlers))

\* No connection is lost, doubled or overtaken while the process listens, and stop
\* lets one more through at most.
ConnectionsKept == TypeOK /\ EachOnce /\ StopTakesOneMore
==============================================================================
