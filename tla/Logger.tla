------------------------------- MODULE Logger -------------------------------
(***************************************************************************)
(* Class Logger: threads hand texts to write, which puts them into a        *)
(* BlockingQueue; one detached thread takes them out and prints them.  One   *)
(* thread, the owner, starts and stops it.  The queue is taken at its        *)
(* promise (module FifoQueue).  _ThreadRunning is a plain bool that several  *)
(* threads read while another writes it; write looks at it and enqueues      *)
(* later, and stop looks at it until it is FALSE, or for ever if the build   *)
(* has taken the read out of the loop.                                      *)
(***************************************************************************)
EXTENDS Naturals, Sequences, SequencesExt

CONSTANTS Writers,    \* the threads that write
          Owner,      \* the one that starts and stops as well
          MaxCalls    \* bound: how often the owner calls start or write

VARIABLES running,   \* _ThreadRunning
          texts,     \* _queue
          looping,   \* the logging thread runs its loop
          printed,   \* what was written to *_pOut
          writing,   \* writing[w]: the text w is about to enqueue, in a sequence of at most one
          stopping,  \* the owner waits in stop
          written,   \* written[w]: how many texts w has handed to write
          starts,    \* how often start has started a thread
          due        \* history: the texts that had been enqueued when stop was called

logVars == <<running, texts, looping, printed, writing, stopping, written, starts, due>>

Quit == [by |-> Owner, n |-> 0]

Init == /\ running = FALSE /\ texts = <<>> /\ looping = FALSE /\ printed = <<>>
        /\ writing = [w \in Writers |-> <<>>] /\ written = [w \in Writers |-> 0]
        /\ stopping = FALSE /\ starts = 0 /\ due = {}

Idle(w) == writing[w] = <<>> /\ (w = Owner => ~stopping)

MayCall == starts + written[Owner] < MaxCalls

\* write (and title): a text is dropped unless the logger runs.
Write(w) ==
  /\ Idle(w) /\ (w = Owner => MayCall)
  /\ written' = [written EXCEPT ![w] = @ + 1]
  /\ writing' = [writing EXCEPT ![w] = IF running THEN <<[by |-> w, n |-> written[w] + 1]>> ELSE <<>>]
  /\ UNCHANGED <<running, texts, looping, printed, stopping, starts, due>>

\* and goes into the queue later, whether the logger still runs or not.
EnQ(w) ==
  /\ writing[w] # <<>>
  /\ texts' = texts \o writing[w]
  /\ writing' = [writing EXCEPT ![w] = <<>>]
  /\ UNCHANGED <<running, looping, printed, stopping, written, starts, due>>

\* start does nothing while the logger runs.
Start ==
  /\ Idle(Owner) /\ ~running /\ MayCall
  /\ running' = TRUE /\ looping' = TRUE
  /\ starts' = starts + 1
  /\ UNCHANGED <<texts, printed, writing, stopping, written, due>>

\* stop, and ~Logger, which calls it, write "quit"; a text given to stop is a Write
\* before it.
Stop ==
  /\ Idle(Owner) /\ running
  /\ texts' = Append(texts, Quit)
  /\ stopping' = TRUE
  /\ due' = Range(texts) \ {Quit}
  /\ UNCHANGED <<running, looping, printed, writing, written, starts>>

\* Mutant: stop does not wait.
StopReturnsAtOnce ==
  /\ stopping
  /\ stopping' = FALSE
  /\ UNCHANGED <<running, texts, looping, printed, writing, written, starts, due>>

StopReturns ==
  /\ stopping /\ ~running
  /\ stopping' = FALSE
  /\ UNCHANGED <<running, texts, looping, printed, writing, written, starts, due>>

\* The logging thread: deQ and print,
WriteOut ==
  /\ looping /\ texts # <<>> /\ Head(texts) # Quit
  /\ printed' = Append(printed, Head(texts))
  /\ texts' = Tail(texts)
  /\ UNCHANGED <<running, looping, writing, stopping, written, starts, due>>

\* until the text is "quit"; what is behind it stays in the queue.
End ==
  /\ looping /\ texts # <<>> /\ Head(texts) = Quit
  /\ running' = FALSE /\ looping' = FALSE
  /\ texts' = Tail(texts)
  /\ UNCHANGED <<printed, writing, stopping, written, starts, due>>

Step == \/ \E w \in Writers : EnQ(w)
        \/ Start \/ Stop \/ StopReturns \/ WriteOut \/ End

------------------------------------------------------------------------------
\* Texts of one thread are printed in the order it wrote them, none twice, also
\* those that come over a stop and the next start.
InOrderOfWriting ==
  \A i, j \in DOMAIN printed :
    i < j /\ printed[i].by = printed[j].by => printed[i].n < printed[j].n

\* When stop returns everything written before it was called is printed, and all
\* that its caller wrote; what is left in the queue, to be printed after the next
\* start, are texts of threads whose write had seen the logger run.
StopFlushes ==
  /\ ~stopping => due \subseteq Range(printed)
  /\ ~running => \A i \in DOMAIN texts : texts[i].by # Owner

LogKept == InOrderOfWriting /\ StopFlushes
==============================================================================
