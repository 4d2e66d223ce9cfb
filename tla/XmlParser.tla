------------------------------ MODULE XmlParser ------------------------------
(***************************************************************************)
(* What XmlParser makes of any text: compress, enquoteText, and the rounds   *)
(* of buildDocument with its element stack, as a state machine of its own.   *)
(*                                                                         *)
(* A document is the sequence of its elements in preorder, each with its     *)
(* depth below the DocElement.                                               *)
(***************************************************************************)
EXTENDS XmlTokens

CONSTANT Samples  \* texts to parse

ASSUME SamplesAssumption == Samples \subseteq Texts

VARIABLE parse    \* the parse in progress

ElementAt(depth, kind, name, attribs, text) ==
  [d |-> depth, kind |-> kind, name |-> name, attribs |-> attribs, text |-> text]

------------------------------------------------------------------------------
(* Before the tokens: white space between elements goes, text gets quotes.  *)

\* compress, one character: m.state is its enum, m.dst what it has kept.
Machines == [state : {"outSide", "inTag", "inText"}, dst : Texts]
CompressChar(src, m, i) ==
  LET c == src[i]
      Keep(state) == [state |-> state, dst |-> Append(m.dst, c)]
  IN CASE m.state = "outSide" -> IF c \in Blanks THEN m ELSE Keep("inTag")
       [] m.state = "inTag" -> Keep(IF c = ">" /\ i < Len(src) /\ src[i + 1] # "<" THEN "inText" ELSE "inTag")
       [] m.state = "inText" -> IF c = "<" THEN Keep("inTag")
                                ELSE IF Last(m.dst) = ">" /\ c \in Blanks THEN m ELSE Keep("inText")

Compress(src) ==
  LET from[x \in (1..(Len(src) + 1)) \X Machines] ==
        IF x[1] > Len(src) THEN x[2] ELSE from[<<x[1] + 1, CompressChar(src, x[2], x[1])>>]
  IN  from[<<1, [state |-> "outSide", dst |-> <<>>]>>].dst

\* A string read at its length yields the terminating null.
At(src, i) == IF i <= Len(src) THEN src[i] ELSE Nul

\* What enquoteText makes of one character.
Enquoted(src, i) ==
  <<src[i]>> \o (IF src[i] = ">" /\ At(src, i + 1) # "<" /\ i < Len(src) THEN <<"\"">> ELSE <<>>)
           \o (IF At(src, i + 1) = "<" /\ src[i] # ">" THEN <<"\"">> ELSE <<>>)

EnquoteText(src) == <<At(src, 1)>> \o FlattenSeq([i \in 1..(Len(src) - 1) |-> Enquoted(src, i + 1)])

DequoteText(src) == SelectSeq(src, LAMBDA c : c \notin {"\"", "'"})

------------------------------------------------------------------------------
(* Elements.                                                                *)

OutOfRange == "XmlParts index out of range"

\* extractAttributes: the tokens around each "=".
EqualSigns(toks) == SetToSortSeq({i \in DOMAIN toks : toks[i] = <<"=">>}, <)
\* Mutant: the values keep their quotes.
ExtractQuoted(toks) ==
  [k \in DOMAIN EqualSigns(toks) |->
     LET i == EqualSigns(toks)[k] IN <<toks[i - 1], toks[i + 1]>>]

ExtractAttributes(toks) ==
  [k \in DOMAIN EqualSigns(toks) |->
     LET i == EqualSigns(toks)[k] IN <<toks[i - 1], DequoteText(toks[i + 1])>>]
AttribOutOfRange(toks) == \E i \in {1, Len(toks)} : toks[i] = <<"=">>

\* createComment: the tokens between the dashes, a blank between any two.
CommentText(toks) ==
  FlattenSeq([k \in 1..(Len(toks) - 5) |->
                toks[k + 3] \o (IF k < Len(toks) - 5 THEN <<" ">> ELSE <<>>)])

\* Mutant: the DocElement is not on the stack.
ParseUnstacked(t) == [elems |-> <<>>, stack |-> <<>>, t |-> t, error |-> ""]

\* A parse: elements so far, the element stack (is its member part of the
\* document?), the tokenizer, and the exception that ended it.
Parse(t) == [elems |-> <<>>, stack |-> <<TRUE>>, t |-> t, error |-> ""]
Throw(b, what) == [b EXCEPT !.error = what]

\* DocElement::addChild: no text, and one tagged element.
DocAccepts(elems, kind) ==
  kind # "text" /\ (kind = "tag" => \A i \in DOMAIN elems : ~(elems[i].d = 1 /\ elems[i].kind = "tag"))

\* addChild on the top of the stack, which may be refused or not belong to the
\* document; top() of an empty stack is undefined.
Accepted(b, kind) == Last(b.stack) /\ (Len(b.stack) > 1 \/ DocAccepts(b.elems, kind))
AddToTop(b, kind, name, attribs, text) ==
  IF b.stack = <<>> THEN Throw(b, "empty stack")
  ELSE IF Accepted(b, kind)
       THEN [b EXCEPT !.elems = Append(@, ElementAt(Len(b.stack), kind, name, attribs, text))]
       ELSE b

ProcessTagged(b, toks) ==
  IF AttribOutOfRange(toks) THEN Throw(b, OutOfRange)
  ELSE LET added == AddToTop(b, "tag", toks[2], ExtractAttributes(toks), <<>>)
       IN IF added.error # "" THEN added ELSE [added EXCEPT !.stack = Append(@, Accepted(b, "tag"))]

\* createXmlDeclar or createProcInstr.
ProcessInstruction(b, toks) ==
  IF Len(toks) < 3 \/ AttribOutOfRange(toks) THEN Throw(b, OutOfRange)
  ELSE AddToTop(b, IF toks[3] = <<"xml">> THEN "declar" ELSE "proc", <<>>, ExtractAttributes(toks), <<>>)

ProcessText(b, toks) == AddToTop(b, "text", <<>>, <<>>, DequoteText(toks[1]))

ProcessMarkup(b, toks) ==
  IF Len(toks) < 2 THEN Throw(b, OutOfRange)
  ELSE CASE toks[2] = <<"?">> -> ProcessInstruction(b, toks)
         [] toks[2] = <<"!">> -> AddToTop(b, "comment", <<>>, <<>>, CommentText(toks))
         [] toks[2] = <<"/">> -> IF b.stack = <<>> THEN Throw(b, "empty stack")
                                 ELSE [b EXCEPT !.stack = Front(@)]
         [] OTHER -> ProcessTagged(b, toks)

\* One round of buildDocument.
ProcessParts(b, toks) ==
  IF toks[1] = <<"<">> THEN ProcessMarkup(b, toks)
  ELSE IF toks[1] # <<>> /\ (toks[1][1] = "\"" \/ IsIdentifierChar(toks[1][1]))
       THEN ProcessText(b, toks)
       ELSE Throw(b, "ill-formed XML")

\* The constructor of XmlParser: the whole text, compressed and with its quotes.
Opened(text) == Parse(Toker(EnquoteText(Compress(text))))

\* One round of the loop in buildDocument: xmlParts.get() and what it got.
Round(b) ==
  LET r == PartsFrom[<<b.t, <<>>>>]
      read == [b EXCEPT !.t = r.t, !.error = r.t.error]
  IN  IF read.error # "" \/ r.toks = <<>> THEN read ELSE ProcessParts(read, r.toks)

ParserInit == \E text \in Samples : parse = Opened(text)
ParserNext == parse.error = "" /\ parse' = Round(parse)
ParserSpec == ParserInit /\ [][ParserNext]_parse

------------------------------------------------------------------------------
\* The tokenizer's get mixes up the two ends of the putback buffer; with one
\* character there at most it does not show, and getChar's assertion holds.
PutbackInOrder == parse.t.asserted /\ Len(parse.t.putbacks) <= 1

\* Whatever the text, what is parsed is a document: an element below another is in
\* a tag, the DocElement has one tag at most and no text.
InTag(es, i) == \E j \in 1..(i - 1) : /\ es[j].kind = "tag" /\ es[j].d = es[i].d - 1
                                      /\ \A k \in j..i : k # j => es[k].d >= es[i].d
ParsedIsDocument ==
  LET es == parse.elems
  IN /\ \A i \in DOMAIN es : IF es[i].d = 1 THEN es[i].kind # "text" ELSE es[i].d > 1 /\ InTag(es, i)
     /\ \A i, j \in DOMAIN es :
          es[i].d = 1 /\ es[j].d = 1 /\ es[i].kind = "tag" /\ es[j].kind = "tag" => i = j

\* Of any text, cut off or not, a document is made, and the tokenizer never relies on
\* more than one character put back.
ParserHolds == PutbackInOrder /\ ParsedIsDocument
==============================================================================
