------------------------------ MODULE XmlDocument ------------------------------
(***************************************************************************)
(* The element tree of XmlElement and the queries of XmlDocument over it.   *)
(* A document has one vector found_ that a query fills and select() empties: *)
(* what a call returns depends on the calls before it.  Elements are shared *)
(* pointers; a second document may be made for a part of a first one, as    *)
(* MetadataHandler does for each entry of a metadata file.                  *)
(***************************************************************************)
EXTENDS Naturals, FiniteSets, SequencesExt

CONSTANTS Elements,  \* the elements made by the factory functions
          Kind,      \* Kind[e]: "doc", "tagged", "text", "comment", "declar" or "procInstr"
          TagOf,     \* TagOf[e]: what tag() returns, "" unless e is tagged
          Names,     \* names of attributes
          Attribs,   \* Attribs[e]: the names of its attributes to begin with
          Trees,     \* the trees to begin with: functions from Elements to children
          DocElem,   \* the DocElement of the first document
          TempElem,  \* the DocElement of the second
          Tags,      \* the tags asked for
          MaxEdits   \* bound: edits of the tree

Null == "null"

ASSUME ElementsAssumption ==
  /\ IsFiniteSet(Elements) /\ Null \notin Elements
  /\ DocElem \in Elements /\ TempElem \in Elements
  /\ Kind[DocElem] = "doc" /\ Kind[TempElem] = "doc"
  /\ \A e \in Elements : Kind[e] # "tagged" => TagOf[e] = ""
  /\ Attribs \in [Elements -> Seq(Names)]
  /\ MaxEdits \in Nat

VARIABLES kids,     \* kids[e]: children_ of e
          attribs,  \* attribs[e]: the names in attribs_ of e
          docElem,  \* pDocElement_ of the document that is asked
          found,    \* its found_
          last,     \* the last call: operation, tag, found_[0] before it, answer
          edits,
          crashed   \* a null pointer was dereferenced

documentVars == <<kids, attribs, docElem, found, last, edits, crashed>>

NoCall == [op |-> "none", tag |-> "", first |-> Null, answer |-> 0]

DocumentInit ==
  /\ kids \in Trees
  /\ attribs = Attribs
  /\ docElem = DocElem
  /\ found = <<>>
  /\ last = NoCall
  /\ edits = 0
  /\ crashed = FALSE

------------------------------------------------------------------------------
(* Elements.  A tree k gives each element its children.                      *)

\* e and all below it.
Subtree(k, e) ==
  LET of[x \in Elements] == {x} \cup UNION {of[c] : c \in Range(k[x])}
  IN  of[e]

Tagged(e) == Kind[e] = "tagged"
HasXmlRoot(p) == \E i \in DOMAIN kids[p] : Tagged(kids[p][i])

\* Mutant: the second root is not refused.
AcceptsMany(p, c) == Tagged(p) \/ (Kind[p] = "doc" /\ Kind[c] \notin {"text", "doc"})

\* What addChild of each class takes.
Accepts(p, c) ==
  \/ Tagged(p)
  \/ Kind[p] = "doc" /\ Kind[c] \notin {"text", "doc"} /\ (Tagged(c) => ~HasXmlRoot(p))

\* An edit, and what it returns.
Edit(op, done) ==
  /\ ~crashed /\ edits < MaxEdits
  /\ edits' = edits + 1
  /\ last' = [NoCall EXCEPT !.op = op, !.answer = IF done THEN 1 ELSE 0]
  /\ UNCHANGED <<docElem, found, crashed>>

\* addChild.  No caller adds an element that has a parent, makes a circle, or puts
\* a DocElement under a tag.
AddChild(p, c) ==
  /\ \A e \in Elements : c \notin Range(kids[e])
  /\ p \notin Subtree(kids, c)
  /\ Kind[c] = "doc" => Kind[p] = "doc"
  /\ Edit("addChild", Accepts(p, c))
  /\ kids' = IF Accepts(p, c) THEN [kids EXCEPT ![p] = Append(@, c)] ELSE kids
  /\ UNCHANGED attribs

\* removeChild: the first such child.
RemoveChild(p, c) ==
  /\ Edit("removeChild", c \in Range(kids[p]))
  /\ kids' = [kids EXCEPT ![p] = RemoveFirst(@, c)]
  /\ UNCHANGED attribs

\* The classes with attributes; addAttrib and removeAttrib of the others return
\* false.
HasAttributes(e) == Kind[e] \in {"tagged", "declar", "procInstr"}

\* addAttrib appends.
AddAttrib(e, name) ==
  /\ Edit("addAttrib", HasAttributes(e))
  /\ attribs' = IF HasAttributes(e) THEN [attribs EXCEPT ![e] = Append(@, name)] ELSE attribs
  /\ UNCHANGED kids

\* Mutant: the loop goes on after the first.
RemoveAttribs(e, name) ==
  /\ Edit("removeAttrib", FALSE)
  /\ attribs' = [attribs EXCEPT ![e] = SelectSeq(@, LAMBDA n : n # name)]
  /\ UNCHANGED kids

\* removeAttrib: the first of that name.
RemoveAttrib(e, name) ==
  /\ Edit("removeAttrib", name \in Range(attribs[e]))
  /\ attribs' = [attribs EXCEPT ![e] = RemoveFirst(@, name)]
  /\ UNCHANGED kids

------------------------------------------------------------------------------
(* Documents.                                                               *)

\* xmlRoot: the first tagged child, or a null pointer.
XmlRoot(k, d) == LET i == SelectInSeq(k[d], Tagged)
                 IN  IF i = 0 THEN Null ELSE k[d][i]

\* What find(tag, e, true) appends: e, if it has the tag, and what its children give.
Hits(k, tag) ==
  LET own(e) == IF tag \in {TagOf[e], ""} THEN <<e>> ELSE <<>>
      of[e \in Elements] == own(e) \o FlattenSeq([i \in DOMAIN k[e] |-> of[k[e][i]]])
  IN  of

\* The children of top are asked one after the other.
HitsBelow(k, tag, top) == FlattenSeq([i \in DOMAIN k[top] |-> Hits(k, tag)[k[top][i]]])

\* find(tag, e, findall), got being found_ before.
Find(tag, e, got, findall) ==
  got \o (IF tag \in {TagOf[e], ""} /\ ~findall THEN <<e>> ELSE Hits(kids, tag)[e])

First(s) == IF s = <<>> THEN Null ELSE s[1]

\* A call that leaves result in found_.
Call(op, tag, result, answer) ==
  /\ ~crashed
  /\ found' = result
  /\ last' = [op |-> op, tag |-> tag, first |-> First(found), answer |-> answer]
  /\ UNCHANGED <<kids, attribs, docElem, edits, crashed>>

\* Mutant: found_ is not cleared first.
ElementAfter(tag) ==
  Call("element", tag, Find(tag, docElem, found, FALSE), 0)

Element(tag) ==
  Call("element", tag, Find(tag, docElem, <<>>, FALSE), 0)

ElementsOf(tag) ==
  LET hits == Find(tag, docElem, <<>>, FALSE)
  IN Call("elements", tag, IF hits = <<>> THEN <<>> ELSE kids[hits[1]], 0)

\* descendents: of what the last query found first, or of the root.
Descendents(tag) ==
  /\ ~crashed
  /\ LET top == IF found # <<>> THEN found[1] ELSE XmlRoot(kids, docElem)
     IN IF top # Null
        THEN Call("descendents", tag, HitsBelow(kids, tag, top), 0)
        ELSE crashed' = TRUE /\ UNCHANGED <<kids, attribs, docElem, found, last, edits>>

\* select moves found_ out.
Select == Call("select", "", <<>>, 0)

\* Mutant: found_ is cleared first.
SizeAfresh == Call("size", "", <<>>, Len(Find("", docElem, <<>>, TRUE)) - 1)

\* size appends all elements to found_, whatever is there.
Size == Call("size", "", <<>>, Len(Find("", docElem, found, TRUE)) - 1)

\* XmlDocument temp(makeDocElement(e)), a new document for a part of this one: from
\* here on it is the one that is asked.  TempElem is made anew each time.
MakeTemp(e) ==
  /\ ~crashed /\ Tagged(e) /\ docElem # TempElem
  /\ kids' = [kids EXCEPT ![TempElem] = <<e>>]
  /\ docElem' = TempElem
  /\ found' = <<>>
  /\ last' = NoCall
  /\ UNCHANGED <<attribs, edits, crashed>>

\* doc = std::move(temp): found_ stays what it was.
MoveAssign(e) ==
  /\ ~crashed /\ Tagged(e) /\ docElem # TempElem
  /\ kids' = [kids EXCEPT ![TempElem] = <<e>>]
  /\ docElem' = TempElem
  /\ last' = NoCall
  /\ UNCHANGED <<attribs, found, edits, crashed>>

DocumentNext ==
  \/ \E p, c \in Elements : AddChild(p, c) \/ RemoveChild(p, c)
  \/ \E e \in Elements : \/ \E name \in Names : AddAttrib(e, name) \/ RemoveAttrib(e, name)
                         \/ MakeTemp(e) \/ MoveAssign(e)
  \/ \E tag \in Tags \cup {""} : Element(tag) \/ ElementsOf(tag) \/ Descendents(tag)
  \/ Select \/ Size

DocumentSpec == DocumentInit /\ [][DocumentNext]_documentVars

------------------------------------------------------------------------------
\* A document has one tagged child at most, and neither text nor another document.
RootAlone(k, p) ==
  /\ \A i, j \in DOMAIN k[p] : Tagged(k[p][i]) /\ Tagged(k[p][j]) => i = j
  /\ \A c \in Range(k[p]) : Kind[c] \notin {"text", "doc"}

\* What addChild makes of new elements: each is in one place, none is below itself.
IsForest(k) ==
  /\ k \in [Elements -> Seq(Elements)] /\ k[TempElem] = <<>>
  /\ \A p, q \in Elements : \A i \in DOMAIN k[p], j \in DOMAIN k[q] :
       k[p][i] = k[q][j] => p = q /\ i = j
  /\ \A S \in (SUBSET Elements) \ {{}} : \E e \in S : Range(k[e]) \cap S = {}
  /\ \A p \in Elements :
       /\ Kind[p] = "doc" => RootAlone(k, p)
       /\ Kind[p] \notin {"doc", "tagged"} => k[p] = <<>>
       /\ \A c \in Range(k[p]) : Kind[c] # "doc"

ASSUME TreesAssumption == \A k \in Trees : IsForest(k)

------------------------------------------------------------------------------
(* The reference: document order, told from parents and siblings.           *)

Precedes(k, top, e, f) ==
  \/ f \in Subtree(k, e) \ {e}
  \/ \E p \in Subtree(k, top) : \E i, j \in DOMAIN k[p] :
       i < j /\ e \in Subtree(k, k[p][i]) /\ f \in Subtree(k, k[p][j])

\* s is the set S in document order.
Lists(k, s, S, top) == /\ Range(s) = S /\ Len(s) = Cardinality(S)
                       /\ \A i \in 1..(Len(s) - 1) : Precedes(k, top, s[i], s[i + 1])

Matching(S, tag) == {e \in S : tag \in {TagOf[e], ""}}

\* Whatever was asked before: element(tag) finds every element with the tag, in
\* document order, and elements(tag) the children of the first one.
QueriesMatch ==
  LET top == docElem
      hits == Matching(Subtree(kids, top), last.tag)
  IN /\ last.op = "element" =>
          IF last.tag = "" THEN found = <<top>> ELSE Lists(kids, found, hits, top)
     /\ last.op = "elements" =>
          IF hits = {} THEN found = <<>>
          ELSE \E e \in hits : /\ found = kids[e]
                               /\ \A f \in hits \ {e} : Precedes(kids, top, e, f)

\* descendents(tag) finds what is below the first element found before.  If nothing
\* was found, it is what is below the root: then an entry without the tag that was
\* asked for answers with all it has.
DescendentsMatch ==
  last.op = "descendents" =>
    LET top == IF last.first # Null THEN last.first ELSE XmlRoot(kids, docElem)
    IN Lists(kids, found, Matching(Subtree(kids, top) \ {top}, last.tag), top)

\* size is the number of elements below the DocElement exactly if the results of
\* the query before were selected; else it counts them too.
SizeUnlessUnselected ==
  last.op = "size" =>
    (last.answer = Cardinality(Subtree(kids, docElem)) - 1 <=> last.first = Null)

\* A document has at most one root, no text beside it, and only a document
\* without a root makes a query fail.
OneRoot ==
  /\ \A e \in Elements : Kind[e] = "doc" => RootAlone(kids, e)
  /\ crashed => XmlRoot(kids, docElem) = Null

\* An edit returns true exactly if it changed one element, by one child or one
\* attribute.
Differ(f, g) == {e \in Elements : f[e] # g[e]}
LongerByOne(s, t) == \E i \in DOMAIN t : s = RemoveAt(t, i)
EditsAnswer ==
  [][edits' # edits =>
       LET kid == Differ(kids, kids')
           att == Differ(attribs, attribs')
       IN IF last'.answer = 0 THEN kid = {} /\ att = {}
          ELSE \/ att = {} /\ \E p \in kid : kid = {p} /\ (LongerByOne(kids[p], kids'[p]) \/ LongerByOne(kids'[p], kids[p]))
               \/ kid = {} /\ \E e \in att : att = {e} /\ (LongerByOne(attribs[e], attribs'[e]) \/ LongerByOne(attribs'[e], attribs[e]))]_documentVars

\* Each query answers what was asked, whatever was asked before it and by whom.
QueriesAnswer == QueriesMatch /\ DescendentsMatch
==============================================================================
