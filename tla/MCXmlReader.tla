--------------------------- MODULE MCXmlReader ---------------------------
(* A small instance of XmlReader for TLC. *)
EXTENDS XmlReader

Note == <<"<", "?", "xml", " ", "version", "=", "\"", "1.0", "\"", "?", ">", "\n",
  "<", "!", "-", "-", " ", "test", " ", "case", " ", "-", "-", ">", "\n",
  "<", "LectureNote", " ", "course", "=", "\"", "CSE681", "\"", ">", "\n",
  " ", "<", "title", ">", "XML", " ", "#1", "<", "/", "title", ">", "\n",
  " ", "<", "author", ">", "Jeff", " ", "<", "note", " ", "Company", "=", "'", "Wintellect", "'", ">",
  "<", "/", "note", ">", "<", "/", "author", ">", "\n",
  "<", "/", "LectureNote", ">">>
Foobar == <<"\n", "<", "root", ">", "\n", " ", "<", "child1", ">", "\n", " ", "child1", " ", "body", "\n", " ",
  "<", "/", "child1", ">", "\n", " ", "<", "child2", ">", "\n", " ", "<", "grandchild21", ">", "\n", " ", "gc",
  "\n", " ", "<", "/", "grandchild21", ">", "\n", " ", "some", " ", "text", "\n", " ", "<", "/", "child2", ">", "\n",
  "<", "/", "root", ">">>

TwoSamples == {Note, Foobar}
FolderText == <<"code", ".", "xml">>
Upload(name, deps) == [fileName |-> name, open |-> <<"false">>, author |-> <<"Ronak">>, deps |-> deps]
TwoUploads == {Upload(<<"code", ".", "h">>, << <<".", "/", "test", ".", "h">> >>),
               Upload(<<"code", "'", "s", ".", "h">>, <<>>)}
==============================================================================
