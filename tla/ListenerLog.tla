----------------------------- MODULE ListenerLog -----------------------------
(***************************************************************************)
(* A process that listens and logs: the listen thread of SocketListener     *)
(* writes to the one StaticLogger<1> while the thread that has started it    *)
(* starts, uses and stops that logger, as Sockets' demonstration does.  The three programs of the   *)
(* repository never start it: there every text is dropped.                  *)
(***************************************************************************)
EXTENDS SocketListener

CONSTANT MaxCalls   \* bound: how often the logger is started or written to by "main"

ASSUME CallsAssumption == MaxCalls \in Nat

VARIABLES running, texts, looping, printed, writing, stopping, written, starts, due

Log == INSTANCE Logger WITH Writers <- {"main", "listen"}, Owner <- "main"

logVars == <<running, texts, looping, printed, writing, stopping, written, starts, due>>
allVars == <<vars, logVars>>

LoggedInit == Init /\ Log!Init

\* The listen thread enqueues one text before it goes on.
MayGoOn == writing["listen"] = <<>>

\* "server waiting for connection" is the first thing the new thread does.
LoggedListen == Log!Idle("main") /\ Listen /\ IF thread' = "loop" THEN Log!Write("listen") ELSE UNCHANGED logVars

\* "server accepted connection", before the handler thread is started.
LoggedAccept == MayGoOn /\ Accept /\ Log!Write("listen")

\* Bound: accept fails once; the thread of a listener that was destroyed may read
\* anything in acceptFailed_ and see accept fail again and again.
FailsOnce == ~acceptFailed

\* "server accept failed"; two texts follow each other, and one stands for both.
LoggedFail == MayGoOn /\ FailAccept /\ FailsOnce /\ Log!Write("listen")

\* "Listen thread stopping", outside the loop.
LoggedTest == /\ MayGoOn /\ (TestFailed \/ TestStop)
              /\ IF thread' = "ended" THEN Log!Write("listen") ELSE UNCHANGED logVars

\* What bind and listen have to say is among the texts of "main".
Silent == \/ MayGoOn /\ (Handle \/ Crash)
          \/ Log!Idle("main") /\ (Bind \/ Destroy \/ ReturnFromReceiver \/ ExitProcess \/ Stop)
          \/ \E p \in Peers : Connect(p)

\* The logger's own thread, and the thread that starts and stops it.
Logging == /\ main # "gone" /\ UNCHANGED vars
           /\ Log!Step \/ Log!Write("main")

LoggedNext == \/ LoggedListen \/ LoggedAccept \/ LoggedFail \/ LoggedTest
              \/ Silent /\ UNCHANGED logVars
              \/ Logging

\* The threads run.  Nobody has to press a key, to call stop or to start the logger,
\* and accept has to fail only on a socket that is closed.
LoggedSpec ==
  /\ LoggedInit /\ [][LoggedNext]_allVars
  /\ WF_allVars((Log!Idle("main") /\ Bind /\ UNCHANGED logVars) \/ LoggedListen)
  /\ WF_allVars(LoggedTest \/ LoggedAccept \/ (MayGoOn /\ Handle /\ UNCHANGED logVars))
  /\ WF_allVars(LoggedFail /\ socket # "listening")
  /\ WF_allVars(main # "gone" /\ Log!EnQ("listen") /\ UNCHANGED vars)
  /\ \A p \in Peers : WF_allVars(Connect(p) /\ UNCHANGED logVars)

------------------------------------------------------------------------------
\* What the logger promises holds with the listen thread as one of its writers.
LogKept == Log!LogKept
==============================================================================
