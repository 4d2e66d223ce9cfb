-------------------------------- MODULE File --------------------------------
(***************************************************************************)
(* Class File of the file system library, as operators: a file opened for   *)
(* reading or writing, as text or as binary, over one of two streams.  An   *)
(* object is a record of its name_, dirn_, typ_, good_ and of the streams   *)
(* pIStream (in) and pOStream (out).  A call whose precondition (Can...)    *)
(* fails throws and changes nothing.  A text is a sequence of characters,   *)
(* the newline among them; what a stream holds back is in its field held.   *)
(***************************************************************************)
EXTENDS Naturals, Sequences, SequencesExt, FiniteSetsExt

CONSTANTS Newline,
          BufLimit,  \* the characters that getLine's buffer takes (BufSize - 1)
          BlockSize  \* the size that getBlock is called with

ASSUME LimitsAssumption == BufLimit \in Nat \ {0} /\ BlockSize \in Nat \ {0}

NoStream == [made |-> FALSE, open |-> FALSE, eof |-> FALSE, fail |-> FALSE, pos |-> 0, held |-> <<>>]
Stream(ok) == [NoStream EXCEPT !.made = TRUE, !.open = ok, !.fail = ~ok]

\* pStream != 0 && pStream->good().
Good(s) == s.made /\ ~s.eof /\ ~s.fail

NewFile(f) == [name |-> f, dirn |-> "in", typ |-> "text", good |-> TRUE,
               in |-> NoStream, out |-> NoStream]

\* open; ok says whether the stream could be opened.
Opened(ob, d, t, ok) ==
  [ob EXCEPT !.dirn = d, !.typ = t, !.good = @ /\ ok,
             !.in = IF d = "in" THEN Stream(ok) ELSE @,
             !.out = IF d = "out" THEN Stream(ok) ELSE @]

------------------------------------------------------------------------------
(* Reading.  text is what the file holds now; a closed stream sees nothing.  *)

Rest(ob, text) == IF ob.in.open THEN SubSeq(text, ob.in.pos + 1, Len(text)) ELSE <<>>

CanGetLine(ob) == Good(ob.in) /\ ob.typ = "text" /\ ob.dirn = "in"

\* Characters up to the first newline, all of them if there is none.
LineLength(rest) == Min({Len(rest)} \cup {i - 1 : i \in {j \in 1..Len(rest) : rest[j] = Newline}})

LineTaken(rest) == SubSeq(rest, 1, Min({LineLength(rest), BufLimit}))

\* Mutant: a buffer that is full before the line is over is no error.
GetLineGoingOn(ob, text) ==
  LET rest == Rest(ob, text)
      n == Len(LineTaken(rest))
      cut == n < LineLength(rest)
  IN  [line |-> LineTaken(rest),
       object |-> [ob EXCEPT !.in.pos = @ + n + (IF n < Len(rest) /\ ~cut THEN 1 ELSE 0),
                             !.in.eof = n = Len(rest),
                             !.in.fail = rest = <<>>]]

\* What getLine returns and the stream it leaves.  istream::getline takes the
\* newline that ends the line; it meets the end of the file if nothing follows, and
\* fails if it took nothing or the buffer is full before the line is over.
GetLine(ob, text) ==
  LET rest == Rest(ob, text)
      n == Len(LineTaken(rest))
      cut == n < LineLength(rest)
  IN  [line |-> LineTaken(rest),
       object |-> [ob EXCEPT !.in.pos = @ + n + (IF n < Len(rest) /\ ~cut THEN 1 ELSE 0),
                             !.in.eof = n = Len(rest),
                             !.in.fail = cut \/ rest = <<>>]]

CanGetBlock(ob) == Good(ob.in) /\ ob.typ = "binary" /\ ob.dirn = "in"

\* getBlock reads byte by byte and stops at the first that cannot be read.
GetBlock(ob, text) ==
  LET rest == Rest(ob, text)
      n == Min({Len(rest), BlockSize})
  IN  [block |-> SubSeq(rest, 1, n),
       object |-> [ob EXCEPT !.in.pos = @ + n,
                             !.in.eof = n < BlockSize, !.in.fail = n < BlockSize]]

------------------------------------------------------------------------------
(* Writing: into the stream, and from it to the end of the file.             *)

CanPutLine(ob) == Good(ob.out) /\ ob.typ = "text" /\ ob.dirn = "out"
CanPutBlock(ob) == Good(ob.out) /\ ob.typ = "binary" /\ ob.dirn = "out"

\* ostream::put of each character; into a closed stream it fails.
Put(ob, text) == IF ob.out.open THEN [ob EXCEPT !.out.held = @ \o text]
                 ELSE [ob EXCEPT !.out.fail = text # <<>>]

PutLine(ob, line, wantReturn) == Put(ob, IF wantReturn THEN Append(line, Newline) ELSE line)

\* flush: what the file holds then, and the object.  putLine ends with it.
FlushedText(ob, text) == text \o ob.out.held
Flushed(ob) == [ob EXCEPT !.out.held = <<>>]

------------------------------------------------------------------------------
(* States.                                                                   *)

\* Mutant: the states of the streams are not looked at.
IsGoodUnlessClosed(ob) == ob.good /\ (IF ob.in.made THEN ob.in.open ELSE ob.out.open)

\* isGood: once it is FALSE it stays FALSE, for good_ is never set again.
IsGood(ob) == ob.good /\ (IF ob.in.made THEN Good(ob.in) ELSE Good(ob.out))
Tested(ob) == [ob EXCEPT !.good = IsGood(ob)]

\* clear does not touch good_.
Cleared(ob) == [ob EXCEPT !.in.eof = FALSE, !.in.fail = FALSE,
                          !.out.eof = FALSE, !.out.fail = FALSE]

\* close flushes first; the streams stay made, and closing one twice fails.
Closed(ob) == LET Shut(s) == [s EXCEPT !.open = FALSE, !.fail = @ \/ (s.made /\ ~s.open)]
              IN  [Flushed(ob) EXCEPT !.in = Shut(@), !.out = Shut(@)]
=============================================================================
