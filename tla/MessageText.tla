----------------------------- MODULE MessageText -----------------------------
(***************************************************************************)
(* The strings that the programs exchange and take apart: messages in the   *)
(* form that HTTPMessage gives them, lists of files in a message's body, and *)
(* paths.  A string is a sequence of tokens; a token is one of the           *)
(* characters that the code looks for, or a word without any of them.        *)
(***************************************************************************)
EXTENDS Naturals, Sequences, SequencesExt, FiniteSetsExt

\* EOT, SEPARATOR and FILES_SEP; a name may hold the last: Windows allows it.
EOT == "EOT"
SEPARATOR == "|"
FILES_SEP == "^"

\* "NA", two characters of which Window drops the last.
NA == <<"N", "A">>

------------------------------------------------------------------------------
\* string::find_last_of; 0 is npos.
LastOf(s, c) == Max({0} \cup {i \in 1..Len(s) : s[i] = c})

\* split with std::getline: nothing follows a separator at the end.
Split(s, sep) ==
  LET More(items, c) == IF c = sep THEN Append(items, <<>>)
                        ELSE Append(Front(items), Append(Last(items), c))
      upTo[n \in 0..Len(s)] == IF n = 0 THEN << <<>> >> ELSE More(upTo[n - 1], s[n])
      all == upTo[Len(s)]
  IN  IF Last(all) = <<>> THEN Front(all) ELSE all

\* Strings one after the other, each with sep behind it.
Terminated(list, sep) == FlattenSeq([k \in 1..Len(list) |-> Append(list[k], sep)])

\* Mutant: separators only between the names, and still the last character is cut off.
JoinCuttingTwice(list) ==
  LET all == Terminated(list, FILES_SEP)
  IN  IF all = <<>> THEN <<>> ELSE Front(Front(all))

\* The names of a list one after the other; the separator after the last is cut off.
Join(list) ==
  LET all == Terminated(list, FILES_SEP)
  IN  IF all = <<>> THEN <<>> ELSE Front(all)

------------------------------------------------------------------------------
(* HTTPMessage.  Ports, author and length, which are never empty and which      *)
(* nothing here depends on, are left out; an address is one word.              *)

Fields == <<"command", "to_Addr", "from_Addr", "fileName", "body", "open">>

\* What an empty field is written as; the others are never empty.
Default(field) == IF field = "open" THEN <<"false">> ELSE NA

Filled(msg, field) == IF msg[field] = <<>> THEN Default(field) ELSE msg[field]

CreateHTTPMessage(msg) ==
  Terminated([k \in 1..Len(Fields) |-> <<Fields[k], SEPARATOR>> \o Filled(msg, Fields[k])], EOT)

\* Every attribute has something behind its separator, which getAttributes reads
\* whether it is there or not.
InRange(s) == \A k \in 1..Len(Split(s, EOT)) : Len(Split(Split(s, EOT)[k], SEPARATOR)) > 1

\* getAttributes, of a string that is InRange: of each attribute the name and what
\* follows it up to the next separator; a second one of the same name replaces the first.
ParseStringMessage(s) ==
  LET attributes == Split(s, EOT)
      pairs == {<<k, Split(attributes[k], SEPARATOR)>> : k \in 1..Len(attributes)}
      named(field) == {p \in pairs : Len(p[2]) > 1 /\ p[2][1] = <<field>>}
      last(field) == CHOOSE p \in named(field) : \A other \in named(field) : other[1] <= p[1]
  IN  [field \in ToSet(Fields) |-> IF named(field) = {} THEN <<>> ELSE last(field)[2][2]]

------------------------------------------------------------------------------
(* Path and StringHelper.                                                    *)

\* Where the name begins: after the last "/", or if there is none the last "\".
NameStart(spec) == IF LastOf(spec, "/") # 0 THEN LastOf(spec, "/") ELSE LastOf(spec, "\\")

\* Mutant: the name without its extension.
GetNameOnly(spec) ==
  LET name == SubSeq(spec, NameStart(spec) + 1, Len(spec))
  IN  IF LastOf(name, ".") = 0 THEN name ELSE SubSeq(name, 1, LastOf(name, ".") - 1)

\* Path::getName with the extension.
GetName(spec) == SubSeq(spec, NameStart(spec) + 1, Len(spec))

\* Path::getFullFileSpec of a path below the working directory.
GetFullFileSpec(spec) ==
  <<"C:", "\\">> \o [i \in 1..Len(spec) |-> IF spec[i] = "/" THEN "\\" ELSE spec[i]]

\* StringHelper::getFileName: the name without its extension; string::replace
\* throws out_of_range if there is none.
HasExtension(name) == LastOf(name, ".") # 0
GetFileName(name) == SubSeq(name, 1, LastOf(name, ".") - 1)
==============================================================================
