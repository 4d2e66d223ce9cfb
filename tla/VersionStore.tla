---------------------------- MODULE VersionStore ----------------------------
(***************************************************************************)
(* Server_Repository while several handler threads store uploads: the body  *)
(* of Receiver::getFile, step by step.  Each upload goes to a directory     *)
(* <package>/<second>, where the package is the file's name without its     *)
(* extension; beside the file that directory holds <package>.xml, the       *)
(* metadata, which MetadataHandler reads, extends and writes back.  Nothing *)
(* locks a directory, and ofstreams do not exclude one another.  A file     *)
(* that is itself named <package>.xml is written over its own metadata.     *)
(*                                                                         *)
(* Printing the metadata is one step here; what it does with the nesting    *)
(* count that the handlers share is the subject of module XmlPrinter.       *)
(* Directories are taken to be created without error.  What travels over    *)
(* the connection is the subject of module FileTransfer: here a chunk is    *)
(* the mark of the upload that wrote it.                                    *)
(***************************************************************************)
EXTENDS Naturals, FiniteSets

CONSTANTS Uploads,    \* the uploads, each with its handler thread
          Package,    \* Package[u]: the name of u's file without extension
          FileName,   \* FileName[u]: the name with extension
          XmlName,    \* XmlName[p]: the name of the metadata of package p
          Chunks,     \* Chunks[u]: number of chunks of u's file
          MostChunks, \* bound: the number of chunks of the longest file
          MaxTime     \* bound: the last second of std::time

None == "none"
ASSUME UploadsAssumption == IsFiniteSet(Uploads) /\ None \notin Uploads
ASSUME NamesAssumption == \A u, w \in Uploads : FileName[u] = FileName[w] => Package[u] = Package[w]
ASSUME ChunksAssumption == MostChunks \in Nat /\ Chunks \in [Uploads -> 1..MostChunks]
ASSUME TimeAssumption == MaxTime \in Nat

VARIABLES now,      \* std::time
          pc,       \* pc[u]: what u's handler thread does next
          stamp,    \* stamp[u]: the second in the name of u's directory
          doc,      \* doc[u]: the entries of the handler's _xDoc
          next,     \* next[u]: the next chunk u's handler writes
          xml,      \* xml[d]: the metadata file in directory d
          files,    \* files[d][n]: the blocks of file n in directory d
          crashed   \* a handler thread died of a metadata file without a root, the server with it

vars == <<now, pc, stamp, doc, next, xml, files, crashed>>

Times == 0..MaxTime
Names == {FileName[u] : u \in Uploads}
Dirs == {Package[u] : u \in Uploads} \X Times

\* u's file has the name of its metadata.
OwnMetadata(u) == FileName[u] = XmlName[Package[u]]

\* A metadata file: missing, just truncated, with a root and its entries, or with
\* something that was uploaded.
Absent == [state |-> "absent", entries |-> {}]
Truncated == [state |-> "truncated", entries |-> {}]
Rooted(e) == [state |-> "rooted", entries |-> e]
Foreign == [state |-> "foreign", entries |-> {}]

\* A file's blocks; None beyond its end, and in a hole.
NoBlocks == [k \in 1..MostChunks |-> None]

\* Mutant: versions are not told apart by the time.
PackageDir(u) == <<Package[u], 0>>

\* The packagePath of u.
Dir(u) == <<Package[u], stamp[u]>>

Init == /\ now = 0
        /\ pc = [u \in Uploads |-> "stamp"]
        /\ stamp = [u \in Uploads |-> 0]
        /\ doc = [u \in Uploads |-> {}]
        /\ next = [u \in Uploads |-> 1]
        /\ xml = [d \in Dirs |-> Absent]
        /\ files = [d \in Dirs |-> [n \in Names |-> NoBlocks]]
        /\ crashed = FALSE

Goto(u, label) == pc' = [pc EXCEPT ![u] = label]

Tick == /\ now < MaxTime /\ ~crashed
        /\ now' = now + 1
        /\ UNCHANGED <<pc, stamp, doc, next, xml, files, crashed>>

\* What a handler's own text makes of the metadata file: something that was uploaded
\* since the file was opened may reach beyond it.
Overwritten(d, text) == {text} \cup (IF xml[d] = Foreign THEN {Foreign} ELSE {})

------------------------------------------------------------------------------
\* Mutant: the directory is always that of the first second.
MakeDirectoryOnce(u) ==
  /\ pc[u] = "stamp" /\ ~crashed
  /\ stamp' = [stamp EXCEPT ![u] = 0]
  /\ Goto(u, "probe")
  /\ UNCHANGED <<now, doc, next, xml, files, crashed>>

\* Mutant: a directory that exists is made afresh.
MakeDirectoryAfresh(u) ==
  /\ pc[u] = "stamp" /\ ~crashed
  /\ stamp' = [stamp EXCEPT ![u] = now]
  /\ files' = [files EXCEPT ![<<Package[u], now>>] = [n \in Names |-> NoBlocks]]
  /\ Goto(u, "probe")
  /\ UNCHANGED <<now, doc, next, xml, crashed>>

\* getFile: the directory of the package and, in it, one for the current second;
\* one that exists already is used as it is.
MakeDirectory(u) ==
  /\ pc[u] = "stamp" /\ ~crashed
  /\ stamp' = [stamp EXCEPT ![u] = now]
  /\ Goto(u, "probe")
  /\ UNCHANGED <<now, doc, next, xml, files, crashed>>

\* MetadataHandler: is there a metadata file?
ProbeXml(u) ==
  /\ pc[u] = "probe" /\ ~crashed
  /\ Goto(u, IF xml[Dir(u)].state = "absent" THEN "create" ELSE "parse")
  /\ UNCHANGED <<now, stamp, doc, next, xml, files, crashed>>

\* If not, make one: opening truncates it, closing writes an empty root.
OpenNewXml(u) ==
  /\ pc[u] = "create" /\ ~crashed
  /\ xml' = [xml EXCEPT ![Dir(u)] = Truncated]
  /\ Goto(u, "fill")
  /\ UNCHANGED <<now, stamp, doc, next, files, crashed>>

CloseNewXml(u) ==
  /\ pc[u] = "fill" /\ ~crashed
  /\ \E m \in Overwritten(Dir(u), Rooted({})) : xml' = [xml EXCEPT ![Dir(u)] = m]
  /\ Goto(u, "parse")
  /\ UNCHANGED <<now, stamp, doc, next, files, crashed>>

\* buildDocument, and addFileMD up to root->addChild.  Of a file another handler has
\* just truncated buildDocument throws "ill-formed XML", which nothing catches; of
\* one that holds the declaration alone xmlRoot() is null.  Either ends the server.
\* What was uploaded may have a root, with entries of its own, or none.
ParseXml(u) ==
  /\ pc[u] = "parse" /\ ~crashed
  /\ crashed' \in {xml[Dir(u)].state # "rooted"} \cup (IF xml[Dir(u)] = Foreign THEN {FALSE} ELSE {})
  /\ doc' = [doc EXCEPT ![u] = xml[Dir(u)].entries]
  /\ Goto(u, "add")
  /\ UNCHANGED <<now, stamp, next, xml, files>>

\* addFileMD: opening truncates the file.
TruncateXml(u) ==
  /\ pc[u] = "add" /\ ~crashed
  /\ xml' = [xml EXCEPT ![Dir(u)] = Truncated]
  /\ Goto(u, "save")
  /\ UNCHANGED <<now, stamp, doc, next, files, crashed>>

\* addFileMD: closing writes the entries that were read and the new one, over
\* whatever another handler saved in between.
SaveXml(u) ==
  /\ pc[u] = "save" /\ ~crashed
  /\ \E m \in Overwritten(Dir(u), Rooted(doc[u] \cup {u})) : xml' = [xml EXCEPT ![Dir(u)] = m]
  /\ Goto(u, "open")
  /\ UNCHANGED <<now, stamp, doc, next, files, crashed>>

\* fileWriter: opening the file empties it, be it the metadata.
OpenFile(u) ==
  /\ pc[u] = "open" /\ ~crashed
  /\ files' = [files EXCEPT ![Dir(u)][FileName[u]] = NoBlocks]
  /\ xml' = IF OwnMetadata(u) THEN [xml EXCEPT ![Dir(u)] = Truncated] ELSE xml
  /\ Goto(u, "write")
  /\ UNCHANGED <<now, stamp, doc, next, crashed>>

\* fileWriter: each stream writes at its own position; after the last chunk the
\* upload is acknowledged.
WriteChunk(u) ==
  /\ pc[u] = "write" /\ ~crashed
  /\ files' = [files EXCEPT ![Dir(u)][FileName[u]][next[u]] = u]
  /\ xml' = IF OwnMetadata(u) THEN [xml EXCEPT ![Dir(u)] = Foreign] ELSE xml
  /\ next' = [next EXCEPT ![u] = @ + 1]
  /\ Goto(u, IF next[u] = Chunks[u] THEN "acked" ELSE "write")
  /\ UNCHANGED <<now, stamp, doc, crashed>>

\* The file cannot be opened, or the connection ends: no acknowledgement; the
\* metadata and what was written stay.
FailUpload(u) ==
  /\ pc[u] \in {"open", "write"} /\ ~crashed
  /\ Goto(u, "failed")
  /\ UNCHANGED <<now, stamp, doc, next, xml, files, crashed>>

GetFile(u) == \/ MakeDirectory(u) \/ ProbeXml(u) \/ OpenNewXml(u) \/ CloseNewXml(u)
              \/ ParseXml(u) \/ TruncateXml(u) \/ SaveXml(u)
              \/ OpenFile(u) \/ WriteChunk(u) \/ FailUpload(u)

Next == Tick \/ \E u \in Uploads : GetFile(u)

Spec == Init /\ [][Next]_vars

------------------------------------------------------------------------------
Labels == {"stamp", "probe", "create", "fill", "parse", "add", "save", "open", "write",
           "acked", "failed"}

MetadataFiles == [state : {"absent", "truncated", "rooted", "foreign"}, entries : SUBSET Uploads]

\* Type invariant; a stream writes no more chunks than were sent.
TypeOK == /\ now \in Times
          /\ pc \in [Uploads -> Labels]
          /\ stamp \in [Uploads -> Times]
          /\ doc \in [Uploads -> SUBSET Uploads]
          /\ next \in [Uploads -> Nat]
          /\ \A u \in Uploads : next[u] \in 1..(Chunks[u] + 1)
          /\ xml \in [Dirs -> MetadataFiles]
          /\ files \in [Dirs -> [Names -> [1..MostChunks -> Uploads \cup {None}]]]
          /\ crashed \in BOOLEAN

Begun(u) == pc[u] # "stamp"

\* No other upload to u's package was stamped in the same second.
Alone(u) == \A w \in Uploads \ {u} : Begun(w) /\ Package[w] = Package[u] => stamp[w] # stamp[u]

\* No other upload of u's very file was stamped in the same second.
AloneInFile(u) ==
  \A w \in Uploads \ {u} : Begun(w) /\ FileName[w] = FileName[u] => stamp[w] # stamp[u]

\* The file of u holds u's chunks and nothing else.
Whole(u) == files[Dir(u)][FileName[u]] =
              [k \in 1..MostChunks |-> IF k <= Chunks[u] THEN u ELSE None]

\* An upload that shares its second with none to the same package is, once
\* acknowledged, stored whole beside metadata that names it alone, whatever the
\* handler threads of other uploads do meanwhile or later; or it is itself in the
\* place of its metadata.
AloneIsWhole ==
  \A u \in Uploads :
    pc[u] = "acked" /\ Alone(u) =>
      Whole(u) /\ xml[Dir(u)] = IF OwnMetadata(u) THEN Foreign ELSE Rooted({u})

\* A file is never there before its metadata: whoever finds blocks of u's file in
\* a directory u does not share finds u's entry as well, unless they took its place.
MetadataFirst ==
  \A u \in Uploads :
    ~OwnMetadata(u) /\ Begun(u) /\ Alone(u) /\ files[Dir(u)][FileName[u]] # NoBlocks => xml[Dir(u)] = Rooted({u})

\* Files of one package with different extensions do not damage each other, even
\* in the same second; only one named as the metadata may be damaged by every other.
OtherFileUntouched ==
  \A u \in Uploads : pc[u] = "acked" /\ AloneInFile(u) /\ ~OwnMetadata(u) => Whole(u)

\* Only two uploads to the same package in the same second make a handler meet a
\* metadata file that another has truncated or written over, which ends the server.
OnlyCollisionsCrash == crashed => \E u \in Uploads : Begun(u) /\ ~Alone(u)

\* The second of d is over and every handler that worked in d has ended.
Settled(d) == /\ d[2] < now
              /\ \A u \in Uploads : Begun(u) /\ Dir(u) = d => pc[u] \in {"acked", "failed"}

\* Versions are immutable: once settled, a version directory is neither written
\* to nor chosen by a new upload ever again.
OldVersionsKept ==
  [][\A d \in Dirs : Settled(d) => Settled(d)' /\ xml'[d] = xml[d] /\ files'[d] = files[d]]_vars

\* What handler threads store side by side they store as if alone, file by file, as
\* long as they do not share a version directory: whole, described, and described
\* first.
VersionsHold == TypeOK /\ AloneIsWhole /\ MetadataFirst /\ OtherFileUntouched
==============================================================================
