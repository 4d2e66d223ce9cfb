------------------------------- MODULE XmlText -------------------------------
(***************************************************************************)
(* A document as text: the toString functions of XmlElement, and the trim    *)
(* by which the readers of a document undo what they add.                    *)
(***************************************************************************)
EXTENDS Naturals, SequencesExt

PrintAttribs(e) ==
  FlattenSeq([i \in DOMAIN e.attribs |->
                <<" ">> \o e.attribs[i][1] \o <<"=", "\"">> \o e.attribs[i][2] \o <<"\"">>])

PrintTagged(e) == <<"<">> \o e.name \o PrintAttribs(e) \o <<">">>
PrintText(e) == e.text
PrintDeclar(e) == <<"<", "?", "xml">> \o PrintAttribs(e) \o <<" ", "?", ">">>
PrintProcInstr(e) == <<"<", "!">> \o PrintAttribs(e) \o <<"!", ">">>
PrintComment(e) == <<"<", "!", "-", "-", " ">> \o e.text \o <<" ", "-", "-", ">">>

PrintElement(e) == <<"\n", " ">> \o CASE e.kind = "tag"     -> PrintTagged(e)
                                      [] e.kind = "text"    -> PrintText(e)
                                      [] e.kind = "declar"  -> PrintDeclar(e)
                                      [] e.kind = "proc"    -> PrintProcInstr(e)
                                      [] e.kind = "comment" -> PrintComment(e)

RECURSIVE PrintFrom(_, _)
\* Prints the elements es; open holds the names of the tags still to be closed.
PrintFrom(es, open) ==
  IF es = <<>> /\ open = <<>> THEN <<>>
  ELSE IF es = <<>> \/ Head(es).d <= Len(open)
       THEN <<"\n", " ", "<", "/">> \o Last(open) \o <<">">> \o PrintFrom(es, Front(open))
       ELSE PrintElement(Head(es)) \o
            PrintFrom(Tail(es), IF Head(es).kind = "tag" THEN Append(open, Head(es).name) ELSE open)

\* XmlDocument::toString.
DocString(es) == PrintFrom(es, <<>>)

StripEnds(s, c) ==
  LET kept == {i \in DOMAIN s : s[i] # c}
  IN IF kept = {} THEN s ELSE SubSeq(s, Min(kept), Max(kept))

\* Mutant: newlines first.
TrimNewlinesFirst(s) == StripEnds(StripEnds(s, "\n"), " ")

\* Utilities' trim, by which the readers of a document undo what printing adds:
\* blanks at both ends first, then newlines.
Trim(s) == StripEnds(StripEnds(s, " "), "\n")
==============================================================================
