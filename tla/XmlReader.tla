------------------------------- MODULE XmlReader -------------------------------
(***************************************************************************)
(* A metadata file through its saves and loads: MetadataHandler's           *)
(* constructor reads it with XmlParser, addFileMD adds an entry and writes  *)
(* it back with toString; the server may end between the opening of the     *)
(* file, which empties it, and its closing.  The sample documents beside    *)
(* XmlElementParts go the same way without an entry.                        *)
(*                                                                         *)
(* Where VersionStore asks which entries a file names, this module asks     *)
(* what becomes of an entry in a file.                                      *)
(***************************************************************************)
EXTENDS XmlParser, XmlText

CONSTANTS Folder,   \* the name of the metadata file
          Uploads,  \* records [fileName, open, author, deps] of texts
          MaxSaves  \* bound: saves of one file

VARIABLES file,     \* the text in the file; Absent
          sample,   \* it is one of the samples
          pc,       \* "closed", "parsing", "loaded", "saving", "threw", "crashed"
          doc,      \* the elements of the document in memory
          intended, \* the elements that the last save set out to write
          torn,     \* a save did not finish
          added     \* for each entry in the file its fileName and its saves

vars == <<file, sample, pc, parse, doc, intended, torn, added>>

Absent == <<"absent">>
Tag(d, name) == ElementAt(d, "tag", <<name>>, <<>>, <<>>)
Leaf(d, name, text) == <<Tag(d, name), ElementAt(d + 1, "text", <<>>, <<>>, text)>>

\* What the constructor of MetadataHandler writes, and what it stands for.
NewText == <<"<", "?", "xml", " ", "version", " ", "=", " ", "\"", "1.0", "\"", " ",
             "encoding", " ", "=", " ", "\"", "utf-8", "\"", " ", "?", " ", ">",
             "<", "folder", " ", "name", "=", "\"">> \o Folder \o
           <<"\"", ">", " ", "<", "/", "folder", ">">>
NewElements == <<ElementAt(1, "declar", <<>>, << <<<<"version">>, <<"1.0">>>>, <<<<"encoding">>, <<"utf-8">>>> >>, <<>>),
                 ElementAt(1, "tag", <<"folder">>, << <<<<"name">>, Folder>> >>, <<>>)>>

\* The fileTag of addFileMD.
FileTag(u) == <<Tag(2, "file")>> \o Leaf(3, "name", u.fileName) \o Leaf(3, "open", u.open)
              \o Leaf(3, "author", u.author) \o <<Tag(3, "dependencies")>>
              \o FlattenSeq([i \in DOMAIN u.deps |-> Leaf(4, "depFile", u.deps[i])])

\* xmlRoot(), or rather the elements of makeDocElement(root).
HasRoot(es) == \E i \in DOMAIN es : es[i].d = 1 /\ es[i].kind = "tag"
RootOnly(es) == SelectSeq(es, LAMBDA e : e.d > 1 \/ e.kind = "tag")

Init == /\ file \in Samples \cup {Absent}
        /\ sample = (file # Absent)
        /\ pc = "closed"
        /\ parse = Parse(Toker(<<>>))
        /\ doc = <<>>
        /\ intended = <<>>
        /\ torn = FALSE
        /\ added = <<>>

------------------------------------------------------------------------------
\* The metadata file is not there: one with an empty folder is made, or the
\* server ends while it is.
Create == /\ pc = "closed" /\ file = Absent
          /\ file' = <<>>
          /\ doc' = NewElements
          /\ pc' = "saving"
          /\ UNCHANGED <<sample, parse, intended, torn, added>>

\* XmlParser parser(file): the whole text, compressed and with its quotes.
Open == /\ pc = "closed" /\ file # Absent
        /\ parse' = Opened(file)
        /\ pc' = "parsing"
        /\ UNCHANGED <<file, sample, doc, intended, torn, added>>

\* buildDocument, one round of its loop: xmlParts.get() and what it got.
BuildDocument ==
  /\ pc = "parsing"
  /\ parse' = Round(parse)
  /\ pc' = IF parse'.error # "" THEN "threw"
           ELSE IF parse'.t = parse.t THEN "loaded" ELSE "parsing"
  /\ doc' = IF pc' = "loaded" THEN parse.elems ELSE doc
  /\ UNCHANGED <<file, sample, intended, torn, added>>

\* addFileMD: the entry goes under the root, which becomes a document of its
\* own; opening the file empties it.  A document without a root ends the server.
AddFileMD(u) ==
  /\ pc = "loaded" /\ ~sample /\ Len(added) < MaxSaves
  /\ IF HasRoot(doc)
     THEN /\ doc' = RootOnly(doc) \o FileTag(u)
          /\ added' = Append(added, [fileName |-> u.fileName, saves |-> 0])
          /\ file' = <<>>
          /\ pc' = "saving"
     ELSE pc' = "crashed" /\ UNCHANGED <<file, doc, added>>
  /\ UNCHANGED <<sample, parse, intended, torn>>

\* A sample is printed as it was read.
PrintSample == /\ pc = "loaded" /\ sample /\ intended = <<>>
               /\ file' = <<>>
               /\ pc' = "saving"
               /\ UNCHANGED <<sample, parse, doc, intended, torn, added>>

\* What the stream writes between open and close.
Text == IF doc = NewElements THEN NewText ELSE DocString(doc)

Save == /\ pc = "saving"
        /\ file' = Text
        /\ intended' = doc
        /\ added' = [i \in DOMAIN added |-> [added[i] EXCEPT !.saves = @ + 1]]
        /\ pc' = "closed"
        /\ UNCHANGED <<sample, parse, doc, torn>>

\* The server ends before the close: a part of the text has reached the file,
\* and may end within a name.
Tear == /\ pc = "saving" /\ ~torn
        /\ \E k \in 0..(Len(Text) - 1) :
             file' \in {SubSeq(Text, 1, k)} \cup
                       IF IsIdentifierChar(Text[k + 1]) THEN {Append(SubSeq(Text, 1, k), "part")} ELSE {}
        /\ intended' = doc
        /\ torn' = TRUE
        /\ pc' = "closed"
        /\ UNCHANGED <<sample, parse, doc, added>>

Next == Create \/ Open \/ BuildDocument \/ PrintSample \/ Save \/ Tear
        \/ \E u \in Uploads : AddFileMD(u)

Spec == Init /\ [][Next]_vars

------------------------------------------------------------------------------
\* Elements that differ in no more than the white space after a text, and in the
\* quotes and apostrophes that parsing drops.
Reloaded(e, f) ==
  LET text == DequoteText(f.text)
  IN  /\ [e EXCEPT !.text = <<>>] = [f EXCEPT !.text = <<>>]
      /\ IsPrefix(text, e.text)
      /\ ToSet(SubSeq(e.text, Len(text) + 1, Len(e.text))) \subseteq {" ", "\n"}

\* A document saved whole comes back with every element, at its depth, with its
\* tag, its attributes and its text.
RoundTrip ==
  pc = "loaded" /\ ~torn /\ intended # <<>> =>
    /\ Len(doc) = Len(intended)
    /\ \A i \in DOMAIN doc : Reloaded(doc[i], intended[i])

\* Of a file that a crash left half written the parser either makes the elements
\* that were written first, the last of them perhaps cut, or it throws; whatever
\* part of the text is there, the element stack is never empty when it is used.
TornIsPrefix ==
  /\ parse.error # "empty stack"
  /\ pc = "loaded" /\ torn =>
       /\ Len(doc) <= Len(intended)
       /\ \A i \in 1..(Len(doc) - 1) : Reloaded(doc[i], intended[i])

\* getTagValue(name) of the i-th entry.
NameTags == SelectSeq([i \in DOMAIN doc |-> i], LAMBDA i : doc[i].name = <<"name">>)
NameOf(i) == Trim(doc[NameTags[i] + 1].text)

\* A dependency search finds an entry under the name it was uploaded with exactly
\* if the name has no apostrophe and the file was not saved again since: each
\* save adds white space that a single trim no longer removes.
FoundUntilResaved ==
  pc = "loaded" /\ ~torn =>
    \A i \in DOMAIN added :
      NameOf(i) = added[i].fileName <=> added[i].saves <= 1 /\ DequoteText(added[i].fileName) = added[i].fileName
==============================================================================
