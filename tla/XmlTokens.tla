------------------------------ MODULE XmlTokens ------------------------------
(***************************************************************************)
(* From characters to the parts of one element: the tokenizer with its       *)
(* putback buffer (Toker) and XmlParts::get.                                  *)
(*                                                                         *)
(* A text is a sequence of symbols: one for each character that the code    *)
(* looks at, one for a run of blanks, and one for a whole name or word.      *)
(* The loops are recursive functions, of the tokenizer's state and of what   *)
(* the loop has collected.                                                   *)
(***************************************************************************)
EXTENDS Naturals, SequencesExt

Eof == "EOF"
Nul == "NUL"
Blanks == {" ", "\n"}
SingleCharToks == {"<", ">", "!", "(", ")", "[", "]", "{", "}", ";", ".", "\n"}
Marks == {"/", "*", "?", "=", "-", "\"", "'", "\\", ",", "#", Eof, Nul}
IsIdentifierChar(c) == c \notin Blanks \cup SingleCharToks \cup Marks

Symbols == STRING \cup Blanks \cup SingleCharToks \cup Marks
Texts == Seq(Symbols)

------------------------------------------------------------------------------
(* Characters.                                                              *)

MissingEnd == "missing end of quote"

\* in: what is left of the stream; asserted: getChar's _ASSERT has held so far.
Tokers == [in : Texts, putbacks : Texts, prevprev : Symbols, prev : Symbols, curr : Symbols,
           next : Symbols, asserted : BOOLEAN, error : {"", MissingEnd}]

Toker(src) == [in |-> src, putbacks |-> <<>>, prevprev |-> Nul, prev |-> Nul, curr |-> Nul,
               next |-> Nul, asserted |-> TRUE, error |-> ""]

Peek(t) == IF t.putbacks # <<>> THEN Last(t.putbacks)
           ELSE IF t.in # <<>> THEN Head(t.in) ELSE Eof

\* Mutant: the character goes back twice.
PutbackTwice(t, c) == [t EXCEPT !.putbacks = @ \o <<c, c>>, !.next = c, !.curr = t.prev, !.prev = t.prevprev]

Putback(t, c) == [t EXCEPT !.putbacks = Append(@, c), !.next = c, !.curr = t.prev, !.prev = t.prevprev]

\* get takes the front of the putback buffer and drops its back.
GetFrom(t) == IF t.putbacks # <<>> THEN [t EXCEPT !.curr = Head(t.putbacks), !.putbacks = Front(@)]
              ELSE [t EXCEPT !.curr = Peek(t), !.in = IF @ = <<>> THEN <<>> ELSE Tail(@)]

GetChar(t) == LET u == GetFrom(t)
              IN [u EXCEPT !.prevprev = t.prev, !.prev = t.curr, !.next = Peek(u),
                           !.asserted = @ /\ t.next \in {u.curr, Nul}]

StripWhiteSpace(t) ==
  LET strip[u \in Tokers] == IF u.next = " " THEN strip[GetChar(u)] ELSE u
  IN  strip[t]

------------------------------------------------------------------------------
(* Tokens.                                                                  *)

IsTokEnd(t) ==
  \/ t.next \in Blanks \cup SingleCharToks \cup {Eof}
  \/ t.curr \in SingleCharToks
  \/ IsIdentifierChar(t.curr) # IsIdentifierChar(t.next)

IsBeginComment(t) == t.prev # "\\" /\ t.curr = "/" /\ t.next \in {"*", "/"}
IsEndComment(t, cpp) == IF cpp THEN t.curr # "\\" /\ t.next = "\n"
                        ELSE t.prev # "\\" /\ t.curr = "*" /\ t.next = "/"

\* doReturnComments is never set: only the tokenizer's state is left.
EatComment(t, cpp) ==
  LET eat[u \in Tokers] == IF IsEndComment(u, cpp) \/ u.next = Eof THEN u ELSE eat[GetChar(u)]
  IN  IF cpp THEN eat[t] ELSE GetChar(eat[t])

IsBeginQuote(t) == t.prev # "\\" /\ t.curr \in {"'", "\""}
IsEndQuote(t, quote) == (t.prev = "\\" \/ t.curr # "\\") /\ t.next = quote

EatQuote(t, quote) ==
  LET eat[x \in Tokers \X Texts] ==
        IF IsEndQuote(x[1], quote) \/ x[1].next = Eof THEN x
        ELSE eat[<<GetChar(x[1]), Append(x[2], GetChar(x[1]).curr)>>]
      inside == eat[<<t, <<t.curr>>>>]
      u == GetChar(inside[1])
  IN  IF IsEndQuote(inside[1], quote) THEN [t |-> u, tok |-> Append(inside[2], u.curr)]
      ELSE [t |-> [inside[1] EXCEPT !.error = MissingEnd], tok |-> inside[2]]

\* The loop of getTok: the tokenizer, and the characters of the token so far.
TokFrom[x \in Tokers \X Texts] ==
  LET tok == x[2]
      u == GetChar(x[1])
      longer == IF u.curr \in Blanks THEN tok ELSE Append(tok, u.curr)
  IN  IF x[1].next = Eof THEN [t |-> x[1], tok |-> tok]
      ELSE IF IsBeginComment(u) \/ IsBeginQuote(u)
      THEN IF tok # <<>> THEN [t |-> Putback(u, u.curr), tok |-> tok]
           ELSE IF IsBeginComment(u) THEN TokFrom[<<EatComment(u, u.next = "/"), <<>>>>]
           ELSE EatQuote(u, u.curr)
      ELSE IF IsTokEnd(u) /\ longer # <<>> THEN [t |-> u, tok |-> longer] ELSE TokFrom[<<u, longer>>]

GetTok(t) ==
  LET s == StripWhiteSpace(t)
      u == GetChar(s)
  IN  IF s.next \in SingleCharToks THEN [t |-> u, tok |-> <<u.curr>>] ELSE TokFrom[<<s, <<>>>>]

\* XmlParts::get: tokens up to ">" or up to the next "<", which goes back.
PartsFrom[x \in Tokers \X Seq(Texts)] ==
  LET r == GetTok(x[1])
      more == IF r.tok = <<"\n">> THEN x[2] ELSE Append(x[2], r.tok)
  IN  IF x[1].next = Eof THEN [t |-> x[1], toks |-> x[2]]
      ELSE IF r.t.error # "" THEN [t |-> r.t, toks |-> x[2]]
      ELSE IF x[2] # <<>> /\ r.tok = <<"<">> THEN [t |-> Putback(r.t, "<"), toks |-> x[2]]
      ELSE IF r.tok = <<">">> THEN [t |-> r.t, toks |-> more]
      ELSE PartsFrom[<<r.t, more>>]
==============================================================================
