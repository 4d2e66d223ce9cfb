------------------------- MODULE VersionStore_proof -------------------------
(***************************************************************************)
(* Proofs about VersionStore, for any uploads, names and times.             *)
(*                                                                         *)
(* Every step of a handler thread changes its own frame, the metadata of    *)
(* its own directory and its own file there (lemma OthersKept).  So what    *)
(* getFile leaves behind at each of its steps (XmlAt, FileAt) is disturbed  *)
(* only by an upload to the same directory, or of the same file there; and  *)
(* a directory nobody has chosen is empty (FreshXml, FreshFile), which is   *)
(* what the first handler to choose it relies on.                          *)
(***************************************************************************)
EXTENDS VersionStore, TLAPS

\* The steps of getFile before the file is opened.
Early == {"probe", "create", "fill", "parse", "add", "save", "open"}

\* The first n - 1 chunks of u are written.
Written(u, n) == [k \in 1..MostChunks |-> IF k < n THEN u ELSE None]

\* The metadata of u's directory at each step of u, if u has it for itself; a file
\* with its name takes its place.
XmlAt(u) ==
  /\ pc[u] \in {"probe", "create"} => xml[Dir(u)] = Absent
  /\ pc[u] \in {"fill", "save"} => xml[Dir(u)] = Truncated
  /\ pc[u] \in {"parse", "add"} => xml[Dir(u)] = Rooted({})
  /\ pc[u] \in {"add", "save"} => doc[u] = {}
  /\ pc[u] = "open" => xml[Dir(u)] = Rooted({u})
  /\ pc[u] \in {"write", "acked", "failed"} /\ ~OwnMetadata(u) => xml[Dir(u)] = Rooted({u})
  /\ pc[u] = "acked" /\ OwnMetadata(u) => xml[Dir(u)] = Foreign

\* The file of u at each step of u, if nobody else writes that file.
FileAt(u) ==
  /\ pc[u] \in Early => files[Dir(u)][FileName[u]] = NoBlocks
  /\ pc[u] = "write" => files[Dir(u)][FileName[u]] = Written(u, next[u])
  /\ pc[u] = "acked" => files[Dir(u)][FileName[u]] = Written(u, Chunks[u] + 1)

ClockInv == \A u \in Uploads : stamp[u] <= now
NextInv == \A u \in Uploads : /\ pc[u] \in Early \cup {"stamp"} => next[u] = 1
                              /\ pc[u] = "write" => next[u] <= Chunks[u]
FreshXml == \A d \in Dirs : xml[d] = Absent \/ \E u \in Uploads : Begun(u) /\ Dir(u) = d
FreshFile == \A d \in Dirs, n \in Names :
               \/ files[d][n] = NoBlocks
               \/ \E u \in Uploads : Begun(u) /\ Dir(u) = d /\ FileName[u] = n
XmlInv == \A u \in Uploads : Begun(u) /\ Alone(u) => XmlAt(u)
FileInv == \A u \in Uploads : Begun(u) /\ AloneInFile(u) => FileAt(u)

\* The inductive invariant.
IInv == /\ TypeOK /\ ClockInv /\ NextInv
        /\ FreshXml /\ FreshFile /\ XmlInv /\ FileInv
        /\ OnlyCollisionsCrash

------------------------------------------------------------------------------
\* Where an upload writes is in the store.
LEMMA Places ==
  ASSUME TypeOK, NEW u \in Uploads
  PROVE  /\ Dir(u) \in Dirs
         /\ FileName[u] \in Names
  BY DEF TypeOK, Dir, Dirs, Names

\* The blocks a file may hold.
LEMMA BlocksType ==
  ASSUME NEW u \in Uploads, NEW n
  PROVE  /\ NoBlocks \in [1..MostChunks -> Uploads \cup {None}]
         /\ Written(u, n) \in [1..MostChunks -> Uploads \cup {None}]
         /\ Written(u, 1) = NoBlocks
  BY DEF NoBlocks, Written

\* Writing one more chunk.
LEMMA WrittenNext ==
  ASSUME NEW u \in Uploads, NEW n \in 1..MostChunks
  PROVE  [Written(u, n) EXCEPT ![n] = u] = Written(u, n + 1)
<1>1. MostChunks \in Nat
  BY ChunksAssumption
<1>2. \A k \in 1..MostChunks : k < n + 1 <=> k < n \/ k = n
  BY <1>1
<1>3. \A k \in 1..MostChunks : [Written(u, n) EXCEPT ![n] = u][k] = Written(u, n + 1)[k]
  BY <1>2 DEF Written
<1> QED
  BY <1>3 DEF Written

\* The states of a metadata file.
LEMMA XmlType ==
  ASSUME NEW e \in SUBSET Uploads
  PROVE  /\ Absent \in MetadataFiles /\ Truncated \in MetadataFiles
         /\ Rooted(e) \in MetadataFiles /\ Foreign \in MetadataFiles
  BY DEF Absent, Truncated, Rooted, Foreign, MetadataFiles

\* A text written to metadata that a handler has for itself is what was written.
LEMMA OverwrittenAlone ==
  ASSUME NEW d, NEW text, xml[d] = Truncated
  PROVE  Overwritten(d, text) = {text}
<1>1. Truncated # Foreign
  <2>1. Truncated.state # Foreign.state
    BY DEF Truncated, Foreign
  <2> QED
    BY <2>1
<1> QED
  BY <1>1 DEF Overwritten

\* A step of one handler leaves alone the frames of the others, the metadata of
\* all directories but its own, and all files but its own.
Kept(u) ==
  /\ now' = now
  /\ Begun(u)' /\ (Begun(u) => stamp'[u] = stamp[u])
  /\ \A w \in Uploads \ {u} : pc'[w] = pc[w] /\ stamp'[w] = stamp[w] /\ doc'[w] = doc[w] /\ next'[w] = next[w]
  /\ \A d \in Dirs : d # Dir(u)' => xml'[d] = xml[d]
  /\ \A d \in Dirs, n \in Names : d # Dir(u)' \/ n # FileName[u] => files'[d][n] = files[d][n]

LEMMA OthersKept ==
  ASSUME TypeOK, NEW u \in Uploads, GetFile(u)
  PROVE  Kept(u)
<1>1. Dir(u) \in Dirs /\ FileName[u] \in Names
  BY Places
<1>2. CASE MakeDirectory(u)
  BY <1>2 DEF TypeOK, Kept, MakeDirectory, Goto, Begun, Dir
<1>3. CASE ProbeXml(u)
  BY <1>3 DEF TypeOK, Kept, ProbeXml, Goto, Begun, Dir
<1>4. CASE OpenNewXml(u)
  BY <1>4 DEF TypeOK, Kept, OpenNewXml, Goto, Begun, Dir
<1>5. CASE CloseNewXml(u)
  BY <1>5 DEF TypeOK, Kept, CloseNewXml, Goto, Begun, Dir
<1>6. CASE ParseXml(u)
  BY <1>6 DEF TypeOK, Kept, ParseXml, Goto, Begun, Dir
<1>7. CASE TruncateXml(u)
  BY <1>7 DEF TypeOK, Kept, TruncateXml, Goto, Begun, Dir
<1>8. CASE SaveXml(u)
  BY <1>8 DEF TypeOK, Kept, SaveXml, Goto, Begun, Dir
<1>9. CASE OpenFile(u)
  BY <1>1, <1>9 DEF TypeOK, Kept, OpenFile, Goto, Begun, Dir
<1>10. CASE WriteChunk(u)
  BY <1>1, <1>10 DEF TypeOK, Kept, WriteChunk, Goto, Begun, Dir
<1>11. CASE FailUpload(u)
  BY <1>11 DEF TypeOK, Kept, FailUpload, Goto, Begun, Dir
<1> QED
  BY <1>2, <1>3, <1>4, <1>5, <1>6, <1>7, <1>8, <1>9, <1>10, <1>11 DEF GetFile

\* Alone is lost, never won: who is alone after a step of u was alone before,
\* in a directory, or a file, that is not u's.
LEMMA AloneBefore ==
  ASSUME TypeOK, NEW u \in Uploads, Kept(u), NEW w \in Uploads \ {u}, Begun(w)', Alone(w)'
  PROVE  /\ Begun(w) /\ Alone(w)
         /\ Dir(w)' = Dir(w) /\ Dir(w) # Dir(u)'
<1>1. Begun(w) /\ Dir(w)' = Dir(w)
  BY DEF Kept, Begun, Dir
<1>2. Package[u] = Package[w] => stamp'[u] # stamp'[w]
  BY DEF Kept, Alone
<1>3. Dir(w) # Dir(u)'
  BY <1>1, <1>2 DEF Dir
<1>4. ASSUME NEW v \in Uploads \ {w}, Begun(v), Package[v] = Package[w]
      PROVE  stamp[v] # stamp[w]
  <2>1. CASE v = u
    <3>1. stamp'[w] = stamp[w]
      BY DEF Kept
    <3> QED
      BY <1>2, <1>4, <2>1, <3>1 DEF Kept
  <2>2. CASE v # u
    BY <1>4, <2>2 DEF Kept, Alone, Begun
  <2> QED
    BY <2>1, <2>2
<1> QED
  BY <1>1, <1>3, <1>4 DEF Alone

LEMMA AloneInFileBefore ==
  ASSUME TypeOK, NEW u \in Uploads, Kept(u),
         NEW w \in Uploads \ {u}, Begun(w)', AloneInFile(w)'
  PROVE  /\ Begun(w) /\ AloneInFile(w)
         /\ Dir(w)' = Dir(w)
         /\ Dir(w) # Dir(u)' \/ FileName[w] # FileName[u]
<1>1. Begun(w) /\ Dir(w)' = Dir(w)
  BY DEF Kept, Begun, Dir
<1>2. FileName[u] = FileName[w] => stamp'[u] # stamp'[w]
  BY DEF Kept, AloneInFile
<1>3. Dir(w) # Dir(u)' \/ FileName[w] # FileName[u]
  BY <1>1, <1>2 DEF Dir
<1>4. ASSUME NEW v \in Uploads \ {w}, Begun(v), FileName[v] = FileName[w]
      PROVE  stamp[v] # stamp[w]
  <2>1. CASE v = u
    <3>1. stamp'[w] = stamp[w]
      BY DEF Kept
    <3> QED
      BY <1>2, <1>4, <2>1, <3>1 DEF Kept
  <2>2. CASE v # u
    BY <1>4, <2>2 DEF Kept, AloneInFile, Begun
  <2> QED
    BY <2>1, <2>2
<1> QED
  BY <1>1, <1>3, <1>4 DEF AloneInFile

------------------------------------------------------------------------------
\* Type correctness of one step.
LEMMA TypeStep ==
  ASSUME TypeOK, NextInv, NEW u \in Uploads, GetFile(u)
  PROVE  TypeOK'
<1>1. Dir(u) \in Dirs /\ FileName[u] \in Names
  BY Places
<1>2. /\ Chunks[u] \in 1..MostChunks /\ MostChunks \in Nat
      /\ Absent \in MetadataFiles /\ Truncated \in MetadataFiles /\ Foreign \in MetadataFiles
      /\ NoBlocks \in [1..MostChunks -> Uploads \cup {None}]
  BY ChunksAssumption, XmlType, BlocksType
<1>3. CASE MakeDirectory(u)
  BY <1>3 DEF TypeOK, MakeDirectory, Goto, Labels
<1>4. CASE ProbeXml(u)
  BY <1>4 DEF TypeOK, ProbeXml, Goto, Labels
<1>5. CASE OpenNewXml(u)
  BY <1>1, <1>2, <1>5 DEF TypeOK, OpenNewXml, Goto, Labels
<1>6. CASE CloseNewXml(u)
  <2>1. Overwritten(Dir(u), Rooted({})) \subseteq MetadataFiles
    BY <1>2, XmlType DEF Overwritten
  <2> QED
    BY <1>1, <1>6, <2>1 DEF TypeOK, CloseNewXml, Goto, Labels
<1>7. CASE ParseXml(u)
  <2>1. xml[Dir(u)].entries \in SUBSET Uploads
    BY <1>1 DEF TypeOK, MetadataFiles
  <2> QED
    BY <1>1, <1>7, <2>1 DEF TypeOK, ParseXml, Goto, Labels
<1>8. CASE TruncateXml(u)
  BY <1>1, <1>2, <1>8 DEF TypeOK, TruncateXml, Goto, Labels
<1>9. CASE SaveXml(u)
  <2>1. doc[u] \cup {u} \in SUBSET Uploads
    BY DEF TypeOK
  <2>2. Overwritten(Dir(u), Rooted(doc[u] \cup {u})) \subseteq MetadataFiles
    BY <1>2, <2>1, XmlType DEF Overwritten
  <2> QED
    BY <1>1, <1>9, <2>2 DEF TypeOK, SaveXml, Goto, Labels
<1>10. CASE OpenFile(u)
  BY <1>1, <1>2, <1>10 DEF TypeOK, OpenFile, Goto, Labels
<1>11. CASE WriteChunk(u)
  <2>1. next[u] <= Chunks[u]
    BY <1>11 DEF NextInv, WriteChunk
  <2>2. next' \in [Uploads -> Nat] /\ \A w \in Uploads : next'[w] \in 1..(Chunks[w] + 1)
    BY <1>2, <1>11, <2>1 DEF TypeOK, WriteChunk
  <2>3. files' \in [Dirs -> [Names -> [1..MostChunks -> Uploads \cup {None}]]]
    BY <1>1, <1>2, <1>11 DEF TypeOK, WriteChunk
  <2>4. xml' \in [Dirs -> MetadataFiles]
    BY <1>1, <1>2, <1>11 DEF TypeOK, WriteChunk
  <2> QED
    BY <1>11, <2>2, <2>3, <2>4 DEF TypeOK, WriteChunk, Goto, Labels
<1>12. CASE FailUpload(u)
  BY <1>12 DEF TypeOK, FailUpload, Goto, Labels
<1> QED
  BY <1>3, <1>4, <1>5, <1>6, <1>7, <1>8, <1>9, <1>10, <1>11, <1>12 DEF GetFile

\* Stamps are never ahead of the clock, and a handler writes its own chunks.
LEMMA FrameStep ==
  ASSUME TypeOK, ClockInv, NextInv, NEW u \in Uploads, GetFile(u)
  PROVE  ClockInv' /\ NextInv'
<1>1. Kept(u)
  BY OthersKept
<1>2. Chunks[u] \in Nat \ {0} /\ now \in Nat
  BY ChunksAssumption, TimeAssumption DEF TypeOK, Times
<1>3. stamp'[u] <= now
  <2>1. CASE MakeDirectory(u)
    BY <1>2, <2>1 DEF TypeOK, MakeDirectory
  <2>2. CASE ~MakeDirectory(u)
    <3>1. stamp' = stamp
      BY <2>2 DEF GetFile, ProbeXml, OpenNewXml, CloseNewXml, ParseXml, TruncateXml, SaveXml,
           OpenFile, WriteChunk, FailUpload
    <3> QED
      BY <3>1 DEF ClockInv
  <2> QED
    BY <2>1, <2>2
<1>4. ClockInv'
  BY <1>1, <1>3 DEF Kept, ClockInv
<1>5. /\ pc'[u] \in Early \cup {"stamp"} => next'[u] = 1
      /\ pc'[u] = "write" => next'[u] <= Chunks[u]
  <2>1. CASE WriteChunk(u)
    <3>1. next[u] <= Chunks[u] /\ next[u] \in Nat
      BY <2>1 DEF TypeOK, NextInv, WriteChunk
    <3>2. next'[u] = next[u] + 1
      BY <2>1 DEF TypeOK, WriteChunk
    <3>3. pc'[u] = IF next[u] = Chunks[u] THEN "acked" ELSE "write"
      BY <2>1 DEF TypeOK, WriteChunk, Goto
    <3> QED
      BY <1>2, <3>1, <3>2, <3>3 DEF Early
  <2>2. CASE ~WriteChunk(u)
    <3>1. next' = next
      BY <2>2 DEF GetFile, MakeDirectory, ProbeXml, OpenNewXml, CloseNewXml, ParseXml,
           TruncateXml, SaveXml, OpenFile, FailUpload
    <3>2. pc[u] \in Early \cup {"stamp"} \/ pc'[u] = "failed"
      BY <2>2 DEF GetFile, TypeOK, MakeDirectory, ProbeXml, OpenNewXml, CloseNewXml, ParseXml,
           TruncateXml, SaveXml, OpenFile, FailUpload, Goto, Early
    <3> QED
      BY <1>2, <3>1, <3>2 DEF NextInv, Early
  <2> QED
    BY <2>1, <2>2
<1>6. NextInv'
  BY <1>1, <1>5 DEF Kept, NextInv
<1> QED
  BY <1>4, <1>6

------------------------------------------------------------------------------
\* What nobody has chosen stays empty.
LEMMA FreshStep ==
  ASSUME TypeOK, FreshXml, FreshFile, NEW u \in Uploads, GetFile(u)
  PROVE  FreshXml' /\ FreshFile'
<1>1. Kept(u)
  BY OthersKept
<1>2. \A w \in Uploads : Begun(w) => Begun(w)' /\ Dir(w)' = Dir(w)
  BY <1>1 DEF Kept, Begun, Dir
<1>3. FreshXml'
  <2>1. SUFFICES ASSUME NEW d \in Dirs PROVE (xml[d] = Absent \/ \E w \in Uploads : Begun(w) /\ Dir(w) = d)'
    BY DEF FreshXml
  <2>2. CASE d = Dir(u)'
    BY <1>1, <2>2 DEF Kept
  <2>3. CASE d # Dir(u)'
    BY <1>1, <1>2, <2>3 DEF Kept, FreshXml
  <2> QED
    BY <2>2, <2>3
<1>4. FreshFile'
  <2>1. SUFFICES ASSUME NEW d \in Dirs, NEW n \in Names
                 PROVE  (\/ files[d][n] = NoBlocks
                         \/ \E w \in Uploads : Begun(w) /\ Dir(w) = d /\ FileName[w] = n)'
    BY DEF FreshFile
  <2>2. CASE d = Dir(u)' /\ n = FileName[u]
    BY <1>1, <2>2 DEF Kept
  <2>3. CASE d # Dir(u)' \/ n # FileName[u]
    <3>1. files'[d][n] = files[d][n]
      BY <1>1, <2>3 DEF Kept
    <3>2. files[d][n] = NoBlocks \/ \E w \in Uploads : Begun(w) /\ Dir(w) = d /\ FileName[w] = n
      BY DEF FreshFile
    <3> QED
      BY <1>2, <3>1, <3>2
  <2> QED
    BY <2>2, <2>3
<1> QED
  BY <1>3, <1>4

\* The metadata after a step of the directory's only handler.
LEMMA XmlOwn ==
  ASSUME TypeOK, FreshXml, XmlInv, NEW u \in Uploads, GetFile(u), Alone(u)'
  PROVE  XmlAt(u)'
<1>1. Dir(u) \in Dirs /\ Kept(u)
  BY Places, OthersKept
<1>2. CASE MakeDirectory(u)
  <2>1. pc'[u] = "probe" /\ stamp'[u] = now /\ xml' = xml
    BY <1>2 DEF TypeOK, MakeDirectory, Goto
  <2>2. Dir(u)' = <<Package[u], now>>
    BY <2>1 DEF Dir
  <2>3. Dir(u)' \in Dirs
    BY <2>2 DEF Dirs, TypeOK
  <2>4. \A w \in Uploads : Begun(w) => Dir(w) # Dir(u)'
    <3>1. SUFFICES ASSUME NEW w \in Uploads, Begun(w), Dir(w) = Dir(u)' PROVE FALSE
      OBVIOUS
    <3>2. w # u
      BY <1>2, <3>1 DEF MakeDirectory, Begun
    <3>3. Package[w] = Package[u] /\ stamp[w] = now
      BY <2>2, <3>1 DEF Dir
    <3> QED
      BY <1>1, <2>1, <3>1, <3>2, <3>3 DEF Kept, Alone, Begun
  <2>5. xml'[Dir(u)'] = Absent
    BY <2>1, <2>3, <2>4 DEF FreshXml
  <2> QED
    BY <2>1, <2>5 DEF XmlAt
<1>3. CASE ~MakeDirectory(u)
  <2>1. Begun(u) /\ stamp' = stamp
    BY <1>3 DEF GetFile, Begun, ProbeXml, OpenNewXml, CloseNewXml, ParseXml, TruncateXml, SaveXml,
         OpenFile, WriteChunk, FailUpload
  <2>2. Dir(u)' = Dir(u)
    BY <2>1 DEF Dir
  <2>3. Alone(u)
    BY <1>1, <2>1 DEF Kept, Alone, Begun
  <2>4. XmlAt(u)
    BY <2>1, <2>3 DEF XmlInv
  <2>5. CASE ProbeXml(u)
    BY <2>2, <2>4, <2>5 DEF TypeOK, ProbeXml, Goto, XmlAt, Absent
  <2>6. CASE OpenNewXml(u)
    BY <1>1, <2>2, <2>4, <2>6 DEF TypeOK, OpenNewXml, Goto, XmlAt
  <2>7. CASE CloseNewXml(u)
    <3>1. Overwritten(Dir(u), Rooted({})) = {Rooted({})}
      BY <2>4, <2>7, OverwrittenAlone DEF CloseNewXml, XmlAt
    <3> QED
      BY <1>1, <2>2, <2>7, <3>1 DEF TypeOK, CloseNewXml, Goto, XmlAt
  <2>8. CASE ParseXml(u)
    BY <1>1, <2>2, <2>4, <2>8 DEF TypeOK, ParseXml, Goto, XmlAt, Rooted
  <2>9. CASE TruncateXml(u)
    BY <1>1, <2>2, <2>4, <2>9 DEF TypeOK, TruncateXml, Goto, XmlAt
  <2>10. CASE SaveXml(u)
    <3>1. doc[u] = {}
      BY <2>4, <2>10 DEF SaveXml, XmlAt
    <3>2. xml'[Dir(u)] = Rooted({u})
      <4>1. Overwritten(Dir(u), Rooted({u})) = {Rooted({u})}
        BY <2>4, <2>10, OverwrittenAlone DEF SaveXml, XmlAt
      <4>2. doc[u] \cup {u} = {u}
        BY <3>1
      <4> QED
        BY <1>1, <2>10, <4>1, <4>2 DEF TypeOK, SaveXml
    <3>3. pc'[u] = "open"
      BY <2>10 DEF TypeOK, SaveXml, Goto
    <3> QED
      BY <2>2, <3>2, <3>3 DEF XmlAt
  <2>11. CASE OpenFile(u)
    BY <1>1, <2>2, <2>4, <2>11 DEF TypeOK, OpenFile, Goto, XmlAt
  <2>12. CASE WriteChunk(u)
    BY <1>1, <2>2, <2>4, <2>12 DEF TypeOK, WriteChunk, Goto, XmlAt
  <2>13. CASE FailUpload(u)
    BY <2>2, <2>4, <2>13 DEF TypeOK, FailUpload, Goto, XmlAt
  <2> QED
    BY <1>3, <2>5, <2>6, <2>7, <2>8, <2>9, <2>10, <2>11, <2>12, <2>13 DEF GetFile
<1> QED
  BY <1>2, <1>3

LEMMA XmlStep ==
  ASSUME TypeOK, FreshXml, XmlInv, NEW u \in Uploads, GetFile(u)
  PROVE  XmlInv'
<1>1. Kept(u)
  BY OthersKept
<1>2. SUFFICES ASSUME NEW w \in Uploads, Begun(w)', Alone(w)' PROVE XmlAt(w)'
  BY DEF XmlInv
<1>3. CASE w = u
  BY <1>2, <1>3, XmlOwn
<1>4. CASE w # u
  <2>1. Begun(w) /\ Alone(w) /\ Dir(w)' = Dir(w) /\ Dir(w) # Dir(u)'
    BY <1>1, <1>2, <1>4, AloneBefore
  <2>2. Dir(w) \in Dirs
    BY Places
  <2>3. pc'[w] = pc[w] /\ doc'[w] = doc[w] /\ xml'[Dir(w)] = xml[Dir(w)]
    BY <1>1, <1>4, <2>1, <2>2 DEF Kept
  <2>4. XmlAt(w)
    BY <2>1 DEF XmlInv
  <2> QED
    BY <2>1, <2>3, <2>4 DEF XmlAt
<1> QED
  BY <1>3, <1>4

\* The file after a step of its only handler.
LEMMA FileOwn ==
  ASSUME TypeOK, NextInv, FreshFile, FileInv, NEW u \in Uploads, GetFile(u), AloneInFile(u)'
  PROVE  FileAt(u)'
<1>1. Dir(u) \in Dirs /\ FileName[u] \in Names /\ Kept(u)
  BY Places, OthersKept
<1>2. CASE MakeDirectory(u)
  <2>1. pc'[u] = "probe" /\ stamp'[u] = now /\ files' = files
    BY <1>2 DEF TypeOK, MakeDirectory, Goto
  <2>2. Dir(u)' = <<Package[u], now>>
    BY <2>1 DEF Dir
  <2>3. Dir(u)' \in Dirs
    BY <2>2 DEF Dirs, TypeOK
  <2>4. \A w \in Uploads : Begun(w) /\ FileName[w] = FileName[u] => Dir(w) # Dir(u)'
    <3>1. SUFFICES ASSUME NEW w \in Uploads, Begun(w), FileName[w] = FileName[u], Dir(w) = Dir(u)'
                   PROVE  FALSE
      OBVIOUS
    <3>2. w # u
      BY <1>2, <3>1 DEF MakeDirectory, Begun
    <3>3. stamp[w] = now
      BY <2>2, <3>1 DEF Dir
    <3> QED
      BY <1>1, <2>1, <3>1, <3>2, <3>3 DEF Kept, AloneInFile, Begun
  <2>5. files'[Dir(u)'][FileName[u]] = NoBlocks
    BY <1>1, <2>1, <2>3, <2>4 DEF FreshFile
  <2> QED
    BY <2>1, <2>5 DEF FileAt
<1>3. CASE ~MakeDirectory(u)
  <2>1. Begun(u) /\ stamp' = stamp
    BY <1>3 DEF GetFile, Begun, ProbeXml, OpenNewXml, CloseNewXml, ParseXml, TruncateXml, SaveXml,
         OpenFile, WriteChunk, FailUpload
  <2>2. Dir(u)' = Dir(u)
    BY <2>1 DEF Dir
  <2>3. AloneInFile(u)
    BY <1>1, <2>1 DEF Kept, AloneInFile, Begun
  <2>4. FileAt(u)
    BY <2>1, <2>3 DEF FileInv
  <2>5. CASE WriteChunk(u)
    <3>1. files[Dir(u)][FileName[u]] = Written(u, next[u])
      BY <2>4, <2>5 DEF WriteChunk, FileAt
    <3>2. next[u] \in 1..MostChunks
      <4>1. next[u] \in 1..(Chunks[u] + 1) /\ next[u] <= Chunks[u]
        BY <2>5 DEF TypeOK, NextInv, WriteChunk
      <4>2. Chunks[u] \in 1..MostChunks /\ MostChunks \in Nat
        BY ChunksAssumption
      <4> QED
        BY <4>1, <4>2
    <3>3. files'[Dir(u)][FileName[u]] = [files[Dir(u)][FileName[u]] EXCEPT ![next[u]] = u]
      BY <1>1, <2>5 DEF TypeOK, WriteChunk
    <3>4. [Written(u, next[u]) EXCEPT ![next[u]] = u] = Written(u, next[u] + 1)
      BY <3>2, WrittenNext
    <3>5. next'[u] = next[u] + 1 /\ pc'[u] = IF next[u] = Chunks[u] THEN "acked" ELSE "write"
      BY <2>5 DEF TypeOK, WriteChunk, Goto
    <3>6. files'[Dir(u)'][FileName[u]] = Written(u, next[u] + 1)
      BY <2>2, <3>1, <3>3, <3>4
    <3>7. CASE next[u] = Chunks[u]
      BY <3>5, <3>6, <3>7 DEF FileAt, Early
    <3>8. CASE next[u] # Chunks[u]
      BY <3>5, <3>6, <3>8 DEF FileAt, Early
    <3> QED
      BY <3>7, <3>8
  <2>6. CASE OpenFile(u)
    <3>1. files'[Dir(u)][FileName[u]] = NoBlocks
      BY <1>1, <2>6 DEF TypeOK, OpenFile
    <3>2. next'[u] = 1 /\ pc'[u] = "write"
      BY <2>6 DEF TypeOK, OpenFile, Goto, NextInv, Early
    <3>3. files'[Dir(u)'][FileName[u]] = Written(u, next'[u])
      BY <2>2, <3>1, <3>2, BlocksType
    <3> QED
      BY <3>2, <3>3 DEF FileAt, Early
  <2>7. CASE FailUpload(u)
    <3>1. pc'[u] = "failed"
      BY <2>7 DEF TypeOK, FailUpload, Goto
    <3> QED
      BY <3>1 DEF FileAt, Early
  <2>8. CASE ProbeXml(u) \/ OpenNewXml(u) \/ CloseNewXml(u) \/ ParseXml(u) \/ TruncateXml(u) \/ SaveXml(u)
    <3>1. files' = files /\ pc[u] \in Early /\ pc'[u] \in Early
      BY <2>8 DEF TypeOK, ProbeXml, OpenNewXml, CloseNewXml, ParseXml, TruncateXml, SaveXml, Goto, Early
    <3> QED
      BY <2>2, <2>4, <3>1 DEF FileAt, Early
  <2> QED
    BY <1>3, <2>5, <2>6, <2>7, <2>8 DEF GetFile
<1> QED
  BY <1>2, <1>3

LEMMA FileStep ==
  ASSUME TypeOK, NextInv, FreshFile, FileInv, NEW u \in Uploads, GetFile(u)
  PROVE  FileInv'
<1>1. Kept(u)
  BY OthersKept
<1>2. SUFFICES ASSUME NEW w \in Uploads, Begun(w)', AloneInFile(w)' PROVE FileAt(w)'
  BY DEF FileInv
<1>3. CASE w = u
  BY <1>2, <1>3, FileOwn
<1>4. CASE w # u
  <2>1. /\ Begun(w) /\ AloneInFile(w) /\ Dir(w)' = Dir(w)
        /\ Dir(w) # Dir(u)' \/ FileName[w] # FileName[u]
    BY <1>1, <1>2, <1>4, AloneInFileBefore
  <2>2. Dir(w) \in Dirs /\ FileName[w] \in Names
    BY Places
  <2>3. pc'[w] = pc[w] /\ next'[w] = next[w]
    BY <1>1, <1>4 DEF Kept
  <2>4. files'[Dir(w)][FileName[w]] = files[Dir(w)][FileName[w]]
    BY <1>1, <2>1, <2>2 DEF Kept
  <2>5. FileAt(w)
    BY <2>1 DEF FileInv
  <2> QED
    BY <2>1, <2>3, <2>4, <2>5 DEF FileAt
<1> QED
  BY <1>3, <1>4

------------------------------------------------------------------------------
\* A truncated or missing file is parsed only where a directory is shared.
LEMMA CrashStep ==
  ASSUME TypeOK, XmlInv, OnlyCollisionsCrash, NEW u \in Uploads, GetFile(u)
  PROVE  OnlyCollisionsCrash'
<1>1. Kept(u) /\ ~crashed
  BY OthersKept DEF GetFile, MakeDirectory, ProbeXml, OpenNewXml, CloseNewXml, ParseXml, TruncateXml,
       SaveXml, OpenFile, WriteChunk, FailUpload
<1>2. CASE ParseXml(u)
  <2>1. SUFFICES ASSUME crashed' PROVE Begun(u)' /\ ~Alone(u)'
    BY DEF OnlyCollisionsCrash
  <2>2. Begun(u) /\ pc[u] = "parse" /\ xml[Dir(u)].state # "rooted" /\ stamp' = stamp /\ Begun(u)'
    BY <1>1, <1>2, <2>1 DEF ParseXml, Begun, Kept
  <2>3. ~Alone(u)
    <3>1. Alone(u) => xml[Dir(u)] = Rooted({})
      BY <2>2 DEF XmlInv, XmlAt
    <3>2. Rooted({}).state = "rooted"
      BY DEF Rooted
    <3> QED
      BY <2>2, <3>1, <3>2
  <2>4. \A w \in Uploads \ {u} : Begun(w)' <=> Begun(w)
    BY <1>1 DEF Kept, Begun
  <2> QED
    BY <2>2, <2>3, <2>4 DEF Alone
<1>3. CASE ~ParseXml(u)
  BY <1>1, <1>3 DEF OnlyCollisionsCrash, GetFile, MakeDirectory, ProbeXml, OpenNewXml, CloseNewXml,
       TruncateXml, SaveXml, OpenFile, WriteChunk, FailUpload
<1> QED
  BY <1>2, <1>3

\* The first state: nobody has begun and the store is empty.
LEMMA Initially ==
  ASSUME Init
  PROVE  IInv
<1>1. TypeOK
  <2>1. Absent \in MetadataFiles /\ NoBlocks \in [1..MostChunks -> Uploads \cup {None}]
    BY DEF Absent, MetadataFiles, NoBlocks
  <2>2. 0 \in Times /\ \A u \in Uploads : 1 \in 1..(Chunks[u] + 1)
    BY TimeAssumption, ChunksAssumption DEF Times
  <2> QED
    BY <2>1, <2>2 DEF Init, TypeOK, Labels
<1>2. \A u \in Uploads : ~Begun(u)
  BY DEF Init, Begun
<1>3. ClockInv
  BY DEF Init, ClockInv
<1>4. NextInv
  BY DEF Init, NextInv, Early
<1>5. FreshXml /\ FreshFile
  BY DEF Init, FreshXml, FreshFile
<1> QED
  BY <1>1, <1>2, <1>3, <1>4, <1>5 DEF IInv, XmlInv, FileInv, OnlyCollisionsCrash, Init

\* The clock does not touch the store.
LEMMA TickStep ==
  ASSUME IInv, Tick
  PROVE  IInv'
<1>1. TypeOK'
  BY TimeAssumption DEF IInv, TypeOK, Tick, Times
<1>2. ClockInv'
  BY TimeAssumption DEF IInv, TypeOK, Tick, Times, ClockInv
<1>3. NextInv' /\ FreshXml' /\ FreshFile'
  BY DEF IInv, Tick, NextInv, FreshXml, FreshFile, Begun, Dir
<1>4. XmlInv' /\ FileInv' /\ OnlyCollisionsCrash'
  BY DEF IInv, Tick, XmlInv, FileInv, OnlyCollisionsCrash, Begun, Alone, AloneInFile, XmlAt, FileAt, Dir
<1> QED
  BY <1>1, <1>2, <1>3, <1>4 DEF IInv

LEMMA Inductive ==
  ASSUME IInv, [Next]_vars
  PROVE  IInv'
<1>1. CASE Tick
  BY <1>1, TickStep
<1>2. ASSUME NEW u \in Uploads, GetFile(u) PROVE IInv'
  BY <1>2, TypeStep, FrameStep, FreshStep, XmlStep, FileStep, CrashStep DEF IInv
<1>3. CASE UNCHANGED vars
  <2>1. TypeOK' /\ ClockInv' /\ NextInv' /\ OnlyCollisionsCrash'
    BY <1>3 DEF IInv, vars, TypeOK, ClockInv, NextInv, OnlyCollisionsCrash, Begun, Alone
  <2>2. FreshXml' /\ FreshFile'
    BY <1>3 DEF IInv, vars, FreshXml, FreshFile, Begun, Dir
  <2>3. XmlInv' /\ FileInv'
    BY <1>3 DEF IInv, vars, XmlInv, FileInv, Begun, Alone, AloneInFile, XmlAt, FileAt, Dir
  <2> QED
    BY <2>1, <2>2, <2>3 DEF IInv
<1> QED
  BY <1>1, <1>2, <1>3 DEF Next

\* The inductive invariant holds always.
THEOREM Invariance == Spec => []IInv
<1>1. Init => IInv
  BY Initially
<1>2. IInv /\ [Next]_vars => IInv'
  BY Inductive
<1> QED
  BY <1>1, <1>2, PTL DEF Spec

------------------------------------------------------------------------------
\* Type correctness: no handler writes more chunks than it was sent.
THEOREM TypeCorrect == Spec => []TypeOK
<1>1. IInv => TypeOK
  BY DEF IInv
<1> QED
  BY <1>1, Invariance, PTL

\* Whatever other uploads do, an acknowledged upload that shares its package and
\* its second with none is stored whole, beside metadata that names it alone or in
\* its place.
THEOREM AloneStored == Spec => []AloneIsWhole
<1>1. ASSUME NEW u \in Uploads, Alone(u) PROVE AloneInFile(u)
  BY <1>1, NamesAssumption DEF Alone, AloneInFile
<1>2. \A u \in Uploads : Written(u, Chunks[u] + 1) = [k \in 1..MostChunks |-> IF k <= Chunks[u] THEN u ELSE None]
  BY ChunksAssumption DEF Written
<1>3. ASSUME IInv, NEW u \in Uploads, pc[u] = "acked", Alone(u)
      PROVE  Whole(u) /\ xml[Dir(u)] = IF OwnMetadata(u) THEN Foreign ELSE Rooted({u})
  <2>1. Begun(u)
    BY <1>3 DEF Begun
  <2>2. XmlAt(u) /\ FileAt(u)
    BY <1>1, <1>3, <2>1 DEF IInv, XmlInv, FileInv
  <2>3. files[Dir(u)][FileName[u]] = Written(u, Chunks[u] + 1)
    BY <1>3, <2>2 DEF FileAt
  <2>4. xml[Dir(u)] = IF OwnMetadata(u) THEN Foreign ELSE Rooted({u})
    BY <1>3, <2>2 DEF XmlAt
  <2> QED
    BY <1>2, <2>3, <2>4 DEF Whole
<1>4. IInv => AloneIsWhole
  BY <1>3 DEF AloneIsWhole
<1> QED
  BY <1>4, Invariance, PTL

\* Two files of one package, sent in the same second, do not damage each other.
THEOREM FilesApart == Spec => []OtherFileUntouched
<1>1. \A u \in Uploads : Written(u, Chunks[u] + 1) = [k \in 1..MostChunks |-> IF k <= Chunks[u] THEN u ELSE None]
  BY ChunksAssumption DEF Written
<1>2. ASSUME IInv, NEW u \in Uploads, pc[u] = "acked", AloneInFile(u) PROVE Whole(u)
  <2>1. Begun(u)
    BY <1>2 DEF Begun
  <2>2. FileAt(u)
    BY <1>2, <2>1 DEF IInv, FileInv
  <2> QED
    BY <1>1, <1>2, <2>2 DEF FileAt, Whole
<1>3. IInv => OtherFileUntouched
  BY <1>2 DEF OtherFileUntouched
<1> QED
  BY <1>3, Invariance, PTL

\* The metadata of an unshared directory is complete before the file has a block.
THEOREM MetadataBeforeFile == Spec => []MetadataFirst
<1>1. ASSUME NEW u \in Uploads, Alone(u) PROVE AloneInFile(u)
  BY <1>1, NamesAssumption DEF Alone, AloneInFile
<1>2. ASSUME IInv, NEW u \in Uploads, ~OwnMetadata(u), Begun(u), Alone(u), files[Dir(u)][FileName[u]] # NoBlocks
      PROVE  xml[Dir(u)] = Rooted({u})
  <2>1. XmlAt(u) /\ FileAt(u)
    BY <1>1, <1>2 DEF IInv, XmlInv, FileInv
  <2>2. pc[u] \notin Early
    BY <1>2, <2>1 DEF FileAt
  <2>3. pc[u] \in {"write", "acked", "failed"}
    BY <1>2, <2>2 DEF IInv, TypeOK, Labels, Begun, Early
  <2> QED
    BY <1>2, <2>1, <2>3 DEF XmlAt
<1>3. IInv => MetadataFirst
  BY <1>2 DEF MetadataFirst
<1> QED
  BY <1>3, Invariance, PTL

\* Only uploads that meet in one directory meet metadata that is truncated or replaced.
THEOREM CrashesAreCollisions == Spec => []OnlyCollisionsCrash
<1>1. IInv => OnlyCollisionsCrash
  BY DEF IInv
<1> QED
  BY <1>1, Invariance, PTL

\* No step of a handler touches a version directory whose second is over and
\* whose handlers have ended, and no upload comes to it again.
THEOREM VersionsImmutable == Spec => OldVersionsKept
<1>1. ASSUME IInv, NEW d \in Dirs, Settled(d), NEW u \in Uploads, GetFile(u)
      PROVE  Settled(d)' /\ xml'[d] = xml[d] /\ files'[d] = files[d]
  <2>1. TypeOK /\ TypeOK' /\ Kept(u)
    BY <1>1, OthersKept, TypeStep DEF IInv
  <2>2. d # Dir(u)'
    <3>1. CASE MakeDirectory(u)
      <4>1. stamp'[u] = now
        BY <2>1, <3>1 DEF TypeOK, MakeDirectory
      <4>2. d[2] # now
        BY <1>1, <2>1, TimeAssumption DEF Settled, TypeOK, Dirs, Times
      <4> QED
        BY <4>1, <4>2 DEF Dir
    <3>2. CASE ~MakeDirectory(u)
      <4>1. Begun(u) /\ pc[u] \notin {"acked", "failed"}
        BY <1>1, <3>2 DEF GetFile, Begun, ProbeXml, OpenNewXml, CloseNewXml, ParseXml, TruncateXml,
             SaveXml, OpenFile, WriteChunk, FailUpload
      <4>2. d # Dir(u)
        BY <1>1, <4>1 DEF Settled
      <4> QED
        BY <2>1, <4>1, <4>2 DEF Kept, Dir
    <3> QED
      BY <3>1, <3>2
  <2>3. xml'[d] = xml[d]
    BY <2>1, <2>2 DEF Kept
  <2>4. files'[d] = files[d]
    <3>1. \A n \in Names : files'[d][n] = files[d][n]
      BY <2>1, <2>2 DEF Kept
    <3> QED
      BY <1>1, <2>1, <3>1 DEF TypeOK
  <2>5. ASSUME NEW w \in Uploads, Begun(w)', Dir(w)' = d PROVE pc'[w] \in {"acked", "failed"}
    <3>1. w # u
      BY <2>2, <2>5
    <3>2. Begun(w) /\ Dir(w) = d /\ pc'[w] = pc[w]
      BY <2>1, <2>5, <3>1 DEF Kept, Begun, Dir
    <3> QED
      BY <1>1, <3>2 DEF Settled
  <2> QED
    BY <1>1, <2>1, <2>3, <2>4, <2>5 DEF Settled, Kept
<1>2. ASSUME NEW d \in Dirs, Settled(d), UNCHANGED vars \/ Tick, IInv
      PROVE  Settled(d)' /\ xml'[d] = xml[d] /\ files'[d] = files[d]
  BY <1>2, TimeAssumption DEF vars, Tick, Settled, Begun, Dir, IInv, TypeOK, Times, Dirs
<1>3. IInv /\ [Next]_vars =>
        [\A d \in Dirs : Settled(d) => Settled(d)' /\ xml'[d] = xml[d] /\ files'[d] = files[d]]_vars
  BY <1>1, <1>2 DEF Next
<1> QED
  BY <1>3, Invariance, PTL DEF Spec, OldVersionsKept

\* Versions stored side by side by Receiver::getFile hold, for any set of uploads.
THEOREM VersionsAlwaysHold == Spec => []VersionsHold
  BY TypeCorrect, AloneStored, MetadataBeforeFile, FilesApart, PTL DEF VersionsHold
==============================================================================
