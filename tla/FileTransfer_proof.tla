------------------------- MODULE FileTransfer_proof -------------------------
(***************************************************************************)
(* That a transfer is safe, for every plan: an acknowledgement comes after  *)
(* the last header of its file was sent, in the order of the files and at   *)
(* most once for each, and it says that the file has the size of what was   *)
(* sent.                                                                    *)
(*                                                                         *)
(* The invariant is about what is between the two ends, the unread items of *)
(* the receiver followed by those on the wire.  Wherever the stream was cut *)
(* and however late a payload came, headers and payloads alternate in it, a *)
(* header without its file name is the last item there will ever be, and    *)
(* the headers stand in the order of the files behind what was read.        *)
(*                                                                         *)
(* Without faults and late payloads the stream has no gap (Unbroken), each  *)
(* piece is followed by its successor (Chained), the receiver stands where  *)
(* the stream goes on (Reading) and what it acknowledged is whole           *)
(* (Acknowledged).  With these every step is a step of Transfer or none.    *)
(***************************************************************************)
EXTENDS FileTransfer, SequenceTheorems, TLAPS

\* What was sent and not yet read.
Stream == inbox \o wire

IsHeader(item) == item.type = "header"
Ends(item) == IsHeader(item) /\ item.cmd = "END"
Named(item) == IsHeader(item) /\ item.file # 0

\* fileWriter is running.
InFile == rpc \in {"check", "recv", "write", "more"}

\* The sender has sent the last header of f, or died in the attempt.
EndSent(f) ==
  \/ file > f
  \/ file = f /\ (chunk > Chunks[f] \/ (chunk = Chunks[f] /\ spc \in {"payload", "dead"}))

Pieces == [sized : Nat \X Nat, data : Items]
Headers == [cmd : {"START", "END", ""}, file : Nat, chunk : Nat]

\* The types of the state, the stored pieces included.
Types == /\ plan \in Plans
         /\ file \in 1..(Len(Chunks) + 1) /\ chunk \in Nat
         /\ spc \in {"header", "payload", "finished", "closed", "dead"}
         /\ wire \in Seq(Items) /\ inbox \in Seq(Items)
         /\ ended \in {"no", "fin", "rst"}
         /\ rpc \in {"command", "check", "recv", "write", "more", "spin", "done", "aborted"}
         /\ msg \in Headers
         /\ path \in Files \cup {0}
         /\ buffer \in Items
         /\ acks \in Seq(Files) /\ returned \in Nat
         /\ disk \in [Files -> Seq(Pieces)]

\* Headers and payloads alternate, and only the last item can have lost its file name;
\* where a payload is waited for, none but a payload can come.
Alternating ==
  /\ \A i \in 1..Len(Stream) : Stream[i].file \in Files \cup {0}
  /\ \A i \in 1..Len(Stream) :
       IsHeader(Stream[i]) /\ ~Named(Stream[i]) => i = Len(Stream) /\ spc = "dead"
  /\ \A i \in 1..(Len(Stream) - 1) : IsHeader(Stream[i]) <=> ~IsHeader(Stream[i + 1])
  /\ Len(Stream) > 0 /\ spc # "dead" => (IsHeader(Stream[Len(Stream)]) <=> spc = "payload")

InStep ==
  /\ rpc \in {"check", "recv"} => IF Len(Stream) = 0 THEN spc \in {"payload", "closed", "dead"}
                                  ELSE ~IsHeader(Stream[1])
  /\ InFile => path \in Files
  /\ spc = "payload" => file \in Files /\ chunk <= Chunks[file]
  /\ ended # "no" => spc \in {"closed", "dead"}

Shape == Alternating /\ InStep

\* The receiver has, or will have, an END header after a header of f.
EndMet(f) ==
  \/ \E i, j \in 1..Len(Stream) :
       i <= j /\ Ends(Stream[j]) /\ Named(Stream[i]) /\ Stream[i].file = f
  \/ InFile /\ path = f /\ (msg.cmd = "END" \/ \E j \in 1..Len(Stream) : Ends(Stream[j]))
  \/ \E i \in 1..Len(acks) : acks[i] = f

\* What says "END", unread, read last or acknowledged, was sent as the last of its
\* file, and so was that of every file before it.
EndsSent == \A f \in Files : EndMet(f) => EndSent(f)

\* The acknowledged files, the file being written, the unread headers and the file
\* being sent are in the order of sending; after an END header there is another file.
InTurn ==
  /\ \A i, j \in 1..Len(Stream) : i < j /\ Named(Stream[i]) /\ Named(Stream[j]) =>
       /\ Stream[i].file <= Stream[j].file
       /\ Ends(Stream[i]) => Stream[i].file < Stream[j].file
  /\ \A i \in 1..Len(Stream) : Named(Stream[i]) =>
       /\ Stream[i].file <= file
       /\ InFile => path <= Stream[i].file /\ (msg.cmd = "END" => path < Stream[i].file)
       /\ \A k \in 1..Len(acks) : acks[k] < Stream[i].file
  /\ InFile => path <= file /\ \A k \in 1..Len(acks) : acks[k] < path
  /\ \A i, j \in 1..Len(acks) : i < j => acks[i] < acks[j]

\* A single file: what was sent, what was read of it, and what is stored.
SentItems == IF file = 1 THEN 2 * (chunk - 1) + (IF spc = "payload" THEN 1 ELSE 0)
             ELSE 2 * Chunks[1]
ReadItems == SentItems - Len(Stream)
Sized(k) == Len(disk[1]) = k /\ \A j \in 1..k : disk[1][j].sized = <<1, j>>

\* The unread items are the last ones sent, and where the receiver stands in the file
\* agrees with how many it has read.
Positions ==
  /\ ReadItems >= 0
  /\ file = 1 => chunk \in 1..(Chunks[1] + 1)
  /\ spc \in {"finished", "closed"} => file = 2
  /\ \A i \in 1..Len(Stream) : \A k \in 1..Chunks[1] :
       /\ ReadItems + i = 2 * k - 1 =>
            Stream[i] = Header(IF k = Chunks[1] THEN "END" ELSE "START", 1, k)
       /\ ReadItems + i = 2 * k => Stream[i] = Data(1, k, TRUE)

\* A handler between two commands: no file has been started, one was passed over, all
\* was read, or the file is acknowledged and whole.
AtCommand ==
  \/ /\ acks = <<>>
     /\ \/ ReadItems \in {0, 2 * Chunks[1]}
        \/ \E k \in 1..Chunks[1] : ReadItems = 2 * k - 1
  \/ /\ acks = <<1>> /\ Sized(Chunks[1])
     /\ ReadItems \in {2 * Chunks[1] - 1, 2 * Chunks[1]}

\* fileWriter with a header: so many chunks are on the disk.
AtChunk ==
  \/ msg = NoCommand(0, 0) /\ ReadItems = 2 * Chunks[1]
  \/ /\ msg.file = 1 /\ msg.chunk \in 1..Chunks[1]
     /\ msg.cmd = "END" => msg.chunk = Chunks[1]
     /\ ReadItems \in {2 * msg.chunk - 1, 2 * msg.chunk}
     /\ rpc \in {"check", "recv"} => ReadItems = 2 * msg.chunk - 1
     /\ Sized(IF rpc = "more" THEN msg.chunk ELSE msg.chunk - 1)

Stands ==
  /\ rpc = "command" => AtCommand
  /\ InFile => acks = <<>> /\ path = 1 /\ AtChunk
  /\ rpc \in {"spin", "done", "aborted"} => acks = <<>> \/ (acks = <<1>> /\ Sized(Chunks[1]))

OneFile == Len(Chunks) = 1 /\ spc # "dead" => Positions /\ Stands

\* The header that was enqueued as it came was the last item there is.
Queued == returned = 0 \/ (returned = 1 /\ spc = "dead" /\ Len(Stream) = 0)

\* The inductive invariant.
IInv == Types /\ Shape /\ EndsSent /\ InTurn /\ OneFile /\ Queued

------------------------------------------------------------------------------
(* The stream.                                                               *)

\* The chunks of the files are numbers.
LEMMA ChunksType == ASSUME Types PROVE Chunks \in Seq(Nat) /\ Files = 1..Len(Chunks)
BY PlansAssumption DEF Types, Chunks, Files

\* The stream is a sequence of items.
LEMMA StreamType ==
  ASSUME Types
  PROVE  Stream \in Seq(Items) /\ Len(Stream) \in Nat /\ Len(Stream) = Len(inbox) + Len(wire)
<1>1. \A s, t \in Seq(Items) :
        s \o t \in Seq(Items) /\ Len(s \o t) \in Nat /\ Len(s \o t) = Len(s) + Len(t)
  OBVIOUS
<1>2. QED BY <1>1 DEF Types, Stream

\* Its first items are those of the inbox.
LEMMA StreamHead ==
  ASSUME Types
  PROVE  /\ Len(inbox) \in Nat
         /\ \A i \in 1..Len(inbox) : i \in 1..Len(Stream) /\ Stream[i] = inbox[i]
         /\ (inbox = <<>> <=> Len(inbox) = 0)
         /\ (inbox = <<>> /\ wire = <<>> <=> Len(Stream) = 0)
         /\ wire = <<>> => Len(Stream) = Len(inbox)
<1>1. \A s, t \in Seq(Items) :
        /\ Len(s) \in Nat
        /\ \A i \in 1..Len(s) : i \in 1..Len(s \o t) /\ (s \o t)[i] = s[i]
        /\ (s = <<>> <=> Len(s) = 0)
        /\ (s = <<>> /\ t = <<>> <=> Len(s \o t) = 0)
        /\ t = <<>> => Len(s \o t) = Len(s)
  OBVIOUS
<1>2. QED BY <1>1 DEF Types, Stream

\* What an item is: a header or a payload.
LEMMA ItemParts ==
  ASSUME NEW t \in Items
  PROVE  /\ t.type \in {"header", "data"} /\ t.file \in Nat /\ t.chunk \in Nat
         /\ IsHeader(t) => t.cmd \in {"START", "END", ""} /\ t = Header(t.cmd, t.file, t.chunk)
         /\ ~IsHeader(t) => t.type = "data" /\ t.whole \in BOOLEAN
BY DEF Items, IsHeader, Header

\* The items the sender puts on the wire.
LEMMA ItemMade ==
  /\ \A c \in {"START", "END", ""} : \A f, k \in Nat :
       /\ Header(c, f, k) \in Items
       /\ Header(c, f, k).type = "header" /\ Header(c, f, k).cmd = c
       /\ Header(c, f, k).file = f /\ Header(c, f, k).chunk = k
  /\ \A f, k \in Nat : \A w \in BOOLEAN :
       /\ Data(f, k, w) \in Items
       /\ Data(f, k, w).type = "data" /\ Data(f, k, w).whole = w
       /\ Data(f, k, w).file = f /\ Data(f, k, w).chunk = k
BY DEF Items, Header, Data

\* An item cut short keeps its type, and its command and file unless they are gone;
\* one that lost its file name is no longer a named header.
LEMMA CutParts ==
  ASSUME NEW t \in Items, NEW c \in Cut(t)
  PROVE  /\ c \in Items
         /\ IsHeader(c) <=> IsHeader(t)
         /\ c.file \in {t.file, 0}
         /\ Named(c) => Named(t) /\ c.file = t.file
         /\ Named(c) /\ Ends(c) => Ends(t)
         /\ Ends(c) => Ends(t)
<1>1. CASE t.type = "data"
  <2>1. c = Data(t.file, t.chunk, FALSE) BY <1>1 DEF Cut
  <2>2. t.file \in Nat /\ t.chunk \in Nat BY ItemParts
  <2>3. c \in Items /\ c.type = "data" /\ c.file = t.file BY <2>1, <2>2 DEF Data, Items
  <2>4. QED BY <1>1, <2>3 DEF IsHeader, Named, Ends
<1>2. CASE t.type # "data"
  <2>1. t.type = "header" /\ t.cmd \in {"START", "END", ""} /\ t.file \in Nat BY <1>2, ItemParts DEF IsHeader
  <2>2. c \in {Header(t.cmd, t.file, 0), Header(t.cmd, 0, 0), Header("", 0, 0)} BY <1>2 DEF Cut
  <2>3. /\ c \in Items /\ c.type = "header"
        /\ \/ c.cmd = t.cmd /\ c.file = t.file
           \/ c.cmd = t.cmd /\ c.file = 0
           \/ c.cmd = "" /\ c.file = 0
    <3>1. CASE c = Header(t.cmd, t.file, 0) BY <2>1, <3>1 DEF Header, Items
    <3>2. CASE c = Header(t.cmd, 0, 0) BY <2>1, <3>2 DEF Header, Items
    <3>3. CASE c = Header("", 0, 0) BY <3>3 DEF Header, Items
    <3>4. QED BY <2>2, <3>1, <3>2, <3>3
  <2>4. QED BY <2>1, <2>3 DEF IsHeader, Named, Ends
<1>3. QED BY <1>1, <1>2

\* The two halves of a sequence cut after n elements.
LEMMA CutSequence ==
  ASSUME NEW S, NEW s \in Seq(S), NEW n \in 0..Len(s)
  PROVE  /\ SubSeq(s, 1, n) \in Seq(S) /\ Len(SubSeq(s, 1, n)) = n
         /\ \A i \in 1..n : SubSeq(s, 1, n)[i] = s[i]
         /\ SubSeq(s, n + 1, Len(s)) \in Seq(S) /\ Len(SubSeq(s, n + 1, Len(s))) = Len(s) - n
         /\ \A i \in 1..(Len(s) - n) : SubSeq(s, n + 1, Len(s))[i] = s[i + n]
         /\ SubSeq(s, 1, n) \o SubSeq(s, n + 1, Len(s)) = s
<1>1. Len(s) \in Nat /\ n \in Int /\ n + 1 \in Int /\ \A i \in 1..Len(s) : s[i] \in S
  BY ElementOfSeq
<1>2. /\ SubSeq(s, 1, n) \in Seq(S) /\ Len(SubSeq(s, 1, n)) = IF 1 <= n THEN n - 1 + 1 ELSE 0
      /\ \A i \in 1..(n - 1 + 1) : SubSeq(s, 1, n)[i] = s[1 + i - 1]
  <2>1. \A i \in 1..n : s[i] \in S BY <1>1
  <2>2. QED BY <1>1, <2>1, SubSeqProperties
<1>3. /\ SubSeq(s, n + 1, Len(s)) \in Seq(S)
      /\ Len(SubSeq(s, n + 1, Len(s))) = IF n + 1 <= Len(s) THEN Len(s) - (n + 1) + 1 ELSE 0
      /\ \A i \in 1..(Len(s) - (n + 1) + 1) : SubSeq(s, n + 1, Len(s))[i] = s[(n + 1) + i - 1]
  <2>1. \A i \in (n + 1)..Len(s) : s[i] \in S BY <1>1
  <2>2. QED BY <1>1, <2>1, SubSeqProperties
<1>4. SubSeq(s, 1, n) \o SubSeq(s, n + 1, Len(s)) = s
  <2>1. 1 \in 1..(Len(s) + 1) /\ n \in (1 - 1)..Len(s) /\ Len(s) \in n..Len(s) BY <1>1
  <2>2. QED BY <2>1, ConcatAdjacentSubSeq, SubSeqFull
<1>5. n - 1 + 1 = n /\ Len(s) - (n + 1) + 1 = Len(s) - n BY <1>1
<1>6. \A i \in 1..n : 1 + i - 1 = i BY <1>1
<1>7. \A i \in 1..(Len(s) - n) : (n + 1) + i - 1 = i + n BY <1>1
<1>8. (IF 1 <= n THEN n ELSE 0) = n BY <1>1
<1>9. (IF n + 1 <= Len(s) THEN Len(s) - n ELSE 0) = Len(s) - n BY <1>1
<1>10. QED BY <1>2, <1>3, <1>4, <1>5, <1>6, <1>7, <1>8, <1>9

\* The unread items and those on the wire are sequences of items.
LEMMA BothEnds ==
  ASSUME Types
  PROVE  /\ wire \in Seq(Items) /\ inbox \in Seq(Items)
         /\ Len(wire) \in Nat /\ Len(inbox) \in Nat
         /\ \A i \in 1..Len(wire) : wire[i] \in Items
         /\ \A i \in 1..Len(inbox) : inbox[i] \in Items
         /\ (wire = <<>> <=> Len(wire) = 0) /\ (inbox = <<>> <=> Len(inbox) = 0)
         /\ Len(Stream) = Len(inbox) + Len(wire)
         /\ \A i \in 1..Len(Stream) :
              Stream[i] = IF i <= Len(inbox) THEN inbox[i] ELSE wire[i - Len(inbox)]
<1>1. wire \in Seq(Items) /\ inbox \in Seq(Items) BY DEF Types
<1>2. \A s \in Seq(Items) : /\ Len(s) \in Nat /\ (s = <<>> <=> Len(s) = 0)
                            /\ \A i \in 1..Len(s) : s[i] \in Items
  BY EmptySeq, ElementOfSeq
<1>3. /\ Len(Stream) = Len(inbox) + Len(wire)
      /\ \A i \in 1..(Len(inbox) + Len(wire)) :
           Stream[i] = IF i <= Len(inbox) THEN inbox[i] ELSE wire[i - Len(inbox)]
  BY <1>1, ConcatProperties DEF Stream
<1>4. QED BY <1>1, <1>2, <1>3

\* The sender puts one item at the end of the stream.
LEMMA StreamGrows ==
  ASSUME Types, NEW t \in Items, wire' = Append(wire, t), inbox' = inbox
  PROVE  /\ Len(Stream') = Len(Stream) + 1
         /\ \A i \in 1..Len(Stream) : Stream'[i] = Stream[i]
         /\ Stream'[Len(Stream) + 1] = t
         /\ wire' \in Seq(Items)
<1>1. \A s, w \in Seq(Items) :
        /\ Len(s \o Append(w, t)) = Len(s \o w) + 1
        /\ \A i \in 1..Len(s \o w) : (s \o Append(w, t))[i] = (s \o w)[i]
        /\ (s \o Append(w, t))[Len(s \o w) + 1] = t
        /\ Append(w, t) \in Seq(Items)
  OBVIOUS
<1>2. QED BY <1>1 DEF Types, Stream

\* What arrives is still unread.
LEMMA StreamArrives ==
  ASSUME Types, Arrive
  PROVE  Stream' = Stream /\ wire' \in Seq(Items) /\ inbox' \in Seq(Items)
<1>1. PICK n \in Nat : /\ n <= Len(wire)
                       /\ inbox' = inbox \o SubSeq(wire, 1, n)
                       /\ wire' = SubSeq(wire, n + 1, Len(wire))
  <2>1. Len(wire) \in Nat /\ Len(wire) >= 1 BY BothEnds DEF Arrive
  <2>2. Segment \in {1, 2} BY DEF Segment
  <2>3. QED BY <2>1, <2>2 DEF Arrive
<1>2. n \in 0..Len(wire) /\ wire \in Seq(Items) /\ inbox \in Seq(Items) BY <1>1, BothEnds
<1>3. /\ SubSeq(wire, 1, n) \in Seq(Items) /\ SubSeq(wire, n + 1, Len(wire)) \in Seq(Items)
      /\ SubSeq(wire, 1, n) \o SubSeq(wire, n + 1, Len(wire)) = wire
  BY <1>2, CutSequence
<1>4. inbox' \o wire' = inbox \o wire
  <2>. DEFINE a == SubSeq(wire, 1, n)
              b == SubSeq(wire, n + 1, Len(wire))
  <2>0. a \in Seq(Items) /\ b \in Seq(Items) BY <1>3
  <2>. HIDE DEF a, b
  <2>3. \A s, t, u \in Seq(Items) : (s \o t) \o u = s \o (t \o u) BY ConcatAssociative
  <2>1. (inbox \o a) \o b = inbox \o (a \o b) BY <1>2, <2>0, <2>3, Zenon
  <2>. USE DEF a, b
  <2>2. QED BY <1>1, <1>3, <2>1
<1>5. wire' \in Seq(Items) /\ inbox' \in Seq(Items) BY <1>1, <1>2, <1>3, ConcatProperties
<1>6. QED BY <1>4, <1>5 DEF Stream

\* The receiver takes its first n items off.
LEMMA StreamDrops ==
  ASSUME Types, NEW n \in Nat, n <= Len(inbox), Drop(n), wire' = wire
  PROVE  /\ Len(Stream') = Len(Stream) - n
         /\ \A i \in 1..Len(Stream') : i + n \in 1..Len(Stream) /\ Stream'[i] = Stream[i + n]
         /\ inbox' \in Seq(Items)
<1>1. n \in 0..Len(inbox) /\ wire \in Seq(Items) /\ inbox \in Seq(Items) BY BothEnds
<1>2. /\ inbox' \in Seq(Items) /\ Len(inbox') = Len(inbox) - n
      /\ \A i \in 1..(Len(inbox) - n) : inbox'[i] = inbox[i + n]
  BY <1>1, CutSequence DEF Drop
<1>3. /\ Len(Stream') = Len(inbox') + Len(wire)
      /\ \A i \in 1..(Len(inbox') + Len(wire)) :
           Stream'[i] = IF i <= Len(inbox') THEN inbox'[i] ELSE wire[i - Len(inbox')]
  BY <1>1, <1>2, ConcatProperties DEF Stream
<1>4. QED BY <1>2, <1>3, BothEnds

\* A crash leaves the unread items up to some point, the last of them maybe cut.
LEMMA StreamBreaks ==
  ASSUME Types, Crash
  PROVE  /\ Len(Stream') \in Nat /\ Len(Stream') <= Len(Stream)
         /\ \A i \in 1..Len(Stream') :
              Stream'[i] = Stream[i] \/ (i = Len(Stream') /\ Stream'[i] \in Cut(Stream[i]))
         /\ wire' \in Seq(Items)
<1>1. PICK n \in 0..Len(wire) :
         \/ wire' = SubSeq(wire, 1, n)
         \/ n > 0 /\ \E c \in Cut(wire[n]) : wire' = Append(SubSeq(wire, 1, n - 1), c)
  BY DEF Crash
<1>2. inbox' = inbox /\ wire \in Seq(Items) /\ inbox \in Seq(Items) /\ Len(wire) \in Nat
  BY BothEnds DEF Crash
<1>3. ASSUME wire' \in Seq(Items)
      PROVE  /\ Len(Stream') = Len(inbox) + Len(wire')
             /\ \A i \in 1..(Len(inbox) + Len(wire')) :
                  Stream'[i] = IF i <= Len(inbox) THEN inbox[i] ELSE wire'[i - Len(inbox)]
  BY <1>2, <1>3, ConcatProperties DEF Stream
<1>4. ASSUME wire' \in Seq(Items), Len(wire') <= Len(wire),
             \A i \in 1..Len(wire') :
               wire'[i] = wire[i] \/ (i = Len(wire') /\ wire'[i] \in Cut(wire[i]))
      PROVE  /\ Len(Stream') \in Nat /\ Len(Stream') <= Len(Stream)
             /\ \A i \in 1..Len(Stream') :
                  Stream'[i] = Stream[i] \/ (i = Len(Stream') /\ Stream'[i] \in Cut(Stream[i]))
  <2>1. Len(wire') \in Nat BY <1>4, EmptySeq, LenProperties
  <2>2. Len(Stream') \in Nat /\ Len(Stream') <= Len(Stream) BY <1>3, <1>4, <2>1, BothEnds
  <2>3. ASSUME NEW i \in 1..Len(Stream')
        PROVE  Stream'[i] = Stream[i] \/ (i = Len(Stream') /\ Stream'[i] \in Cut(Stream[i]))
    <3>1. CASE i <= Len(inbox) BY <1>3, <1>4, <2>1, <2>2, <2>3, <3>1, BothEnds
    <3>2. CASE ~(i <= Len(inbox))
      <4>0. i \in 1..(Len(inbox) + Len(wire')) /\ i \in 1..Len(Stream) /\ Len(inbox) \in Nat
        BY <1>3, <1>4, <2>1, <2>2, BothEnds
      <4>1. i - Len(inbox) \in 1..Len(wire') BY <1>3, <1>4, <2>1, <3>2, BothEnds
      <4>2. Stream'[i] = wire'[i - Len(inbox)] /\ Stream[i] = wire[i - Len(inbox)]
        BY <1>3, <1>4, <3>2, <4>0, BothEnds
      <4>3. i - Len(inbox) = Len(wire') => i = Len(Stream') BY <1>3, <1>4, <2>1, BothEnds
      <4>4. QED BY <1>4, <4>1, <4>2, <4>3
    <3>3. QED BY <3>1, <3>2
  <2>4. QED BY <2>2, <2>3
<1>5. CASE wire' = SubSeq(wire, 1, n)
  <2>1. /\ wire' \in Seq(Items) /\ Len(wire') = n
        /\ \A i \in 1..n : wire'[i] = wire[i]
    BY <1>1, <1>2, <1>5, CutSequence
  <2>2. QED BY <1>2, <1>4, <2>1
<1>6. CASE n > 0 /\ \E c \in Cut(wire[n]) : wire' = Append(SubSeq(wire, 1, n - 1), c)
  <2>1. PICK c \in Cut(wire[n]) : wire' = Append(SubSeq(wire, 1, n - 1), c) BY <1>6
  <2>2. n \in 1..Len(wire) /\ n - 1 \in 0..Len(wire) BY <1>2, <1>6
  <2>3. c \in Items BY <2>2, BothEnds, CutParts
  <2>4. /\ SubSeq(wire, 1, n - 1) \in Seq(Items) /\ Len(SubSeq(wire, 1, n - 1)) = n - 1
        /\ \A i \in 1..(n - 1) : SubSeq(wire, 1, n - 1)[i] = wire[i]
    BY <1>2, <2>2, CutSequence
  <2>5. /\ wire' \in Seq(Items) /\ Len(wire') = n
        /\ \A i \in 1..(n - 1) : wire'[i] = wire[i]
        /\ wire'[n] = c
    BY <2>1, <2>2, <2>3, <2>4, AppendProperties
  <2>6. \A i \in 1..Len(wire') :
          wire'[i] = wire[i] \/ (i = Len(wire') /\ wire'[i] \in Cut(wire[i]))
    BY <2>1, <2>2, <2>5
  <2>7. QED BY <1>4, <2>2, <2>5, <2>6
<1>7. QED BY <1>1, <1>5, <1>6

\* What recvString reads: a header; or a payload and the header after it; or a
\* payload left alone at the end of the stream.
LEMMA StringRead ==
  ASSUME Types, StringReady
  PROVE  /\ Len(inbox) > 0 /\ Len(Stream) > 0 /\ 1 \in 1..Len(Stream) /\ Stream[1] \in Items
         /\ \/ /\ IsHeader(Stream[1])
               /\ StringItems = 1
               /\ Parsed = [cmd |-> Stream[1].cmd, file |-> Stream[1].file, chunk |-> Stream[1].chunk]
            \/ /\ ~IsHeader(Stream[1])
               /\ StringItems = 2 /\ Len(inbox) > 1 /\ Len(Stream) > 1 /\ Stream[2] \in Items
               /\ Parsed = NoCommand(Stream[2].file, Stream[2].chunk)
            \/ /\ ~IsHeader(Stream[1])
               /\ StringItems = 1 /\ Len(Stream) = 1 /\ ended # "no"
               /\ Parsed = NoCommand(0, 0)
<1>1. Len(inbox) > 0 /\ 1 \in 1..Len(inbox) BY StreamHead DEF StringReady
<1>2. Stream[1] = inbox[1] /\ 1 \in 1..Len(Stream) /\ Len(Stream) > 0 BY <1>1, StreamHead, StreamType
<1>3. inbox[1] \in Items BY <1>1, BothEnds
<1>4. inbox[1].type \in {"header", "data"} BY <1>3, ItemParts
<1>5. CASE inbox[1].type = "header"
  <2>1. StringItems = 1 BY <1>5 DEF StringItems
  <2>2. Parsed = [cmd |-> inbox[1].cmd, file |-> inbox[1].file, chunk |-> inbox[1].chunk]
    BY <1>5 DEF Parsed
  <2>3. QED BY <1>1, <1>2, <1>3, <1>5, <2>1, <2>2 DEF IsHeader
<1>6. CASE inbox[1].type = "data" /\ Len(inbox) > 1
  <2>1. 2 \in 1..Len(inbox) BY <1>6, BothEnds
  <2>2. Stream[2] = inbox[2] /\ 2 \in 1..Len(Stream) BY <2>1, StreamHead
  <2>3. inbox[2] \in Items BY <2>1, BothEnds
  <2>4. Len(Stream) > 1 BY <2>2, StreamType
  <2>5. StringItems = 2 /\ Parsed = NoCommand(inbox[2].file, inbox[2].chunk)
    BY <1>6 DEF StringItems, Parsed
  <2>6. QED BY <1>1, <1>2, <1>3, <1>6, <2>2, <2>3, <2>4, <2>5 DEF IsHeader
<1>7. CASE inbox[1].type = "data" /\ ~(Len(inbox) > 1)
  <2>1. wire = <<>> /\ ended # "no" BY <1>7 DEF StringReady
  <2>0. Len(inbox) \in Nat BY BothEnds
  <2>2. Len(inbox) = 1 BY <1>1, <1>7, <2>0
  <2>3. Len(Stream) = 1 BY <2>1, <2>2, StreamHead
  <2>4. StringItems = 1 /\ Parsed = NoCommand(0, 0) BY <1>7 DEF StringItems, Parsed
  <2>5. QED BY <1>1, <1>2, <1>3, <1>7, <2>1, <2>3, <2>4 DEF IsHeader
<1>8. QED BY <1>4, <1>5, <1>6, <1>7

------------------------------------------------------------------------------
(* The types.                                                                *)

\* What the parser makes of a string has the type of a header.
LEMMA ParsedType ==
  ASSUME Types, StringReady
  PROVE  Parsed \in Headers /\ Parsed.cmd \in {"START", "END", ""}
<1>1. CASE IsHeader(Stream[1])
  <2>1. Parsed = [cmd |-> Stream[1].cmd, file |-> Stream[1].file, chunk |-> Stream[1].chunk]
        /\ Stream[1] \in Items
    BY <1>1, StringRead
  <2>2. Stream[1].cmd \in {"START", "END", ""} /\ Stream[1].file \in Nat /\ Stream[1].chunk \in Nat
    BY <1>1, <2>1, ItemParts
  <2>3. QED BY <2>1, <2>2 DEF Headers
<1>2. CASE ~IsHeader(Stream[1])
  <2>1. PICK f, k \in Nat : Parsed = NoCommand(f, k)
    <3>1. CASE Parsed = NoCommand(0, 0) BY <3>1
    <3>2. CASE Stream[2] \in Items /\ Parsed = NoCommand(Stream[2].file, Stream[2].chunk)
      BY <3>2, ItemParts
    <3>3. QED BY <1>2, <3>1, <3>2, StringRead
  <2>2. QED BY <2>1 DEF NoCommand, Headers
<1>3. QED BY <1>1, <1>2

\* A string with a command is a header, and its file is one of those sent.
LEMMA CommandRead ==
  ASSUME Types, Shape, StringReady, Parsed.cmd # ""
  PROVE  /\ IsHeader(Stream[1]) /\ StringItems = 1
         /\ Parsed = [cmd |-> Stream[1].cmd, file |-> Stream[1].file, chunk |-> Stream[1].chunk]
         /\ Parsed.file # 0 => Parsed.file \in Files
<1>1. \A f, k : NoCommand(f, k).cmd = "" BY DEF NoCommand
<1>2. /\ IsHeader(Stream[1]) /\ StringItems = 1
      /\ Parsed = [cmd |-> Stream[1].cmd, file |-> Stream[1].file, chunk |-> Stream[1].chunk]
  BY <1>1, StringRead
<1>3. 1 \in 1..Len(Stream) BY StringRead
<1>4. Stream[1].file \in Files \cup {0} BY <1>3 DEF Shape, Alternating
<1>5. QED BY <1>2, <1>4

\* The parts of a type that a step leaves alone.
LEMMA ChunksStay == ASSUME plan' = plan PROVE Chunks' = Chunks /\ Files' = Files
BY DEF Chunks, Files

\* Every step keeps the types.
LEMMA TypesKept ==
  ASSUME Types, Shape, Next
  PROVE  Types'
<1>0. plan' = plan /\ Chunks' = Chunks /\ Files' = Files
  <2>1. plan' = plan
    BY DEF Next, SenderStep, ReceiverStep, SendHeader, SendPayload, EndFile, Finish, Crash, Arrive,
       StartFile, CannotOpen, IgnoreString, ReturnHeader, Abort, EndOfCommands, CheckBytesWaiting,
       RecvPayload, Write, NextHeader, Incomplete
  <2>2. QED BY <2>1, ChunksStay
<1>1. CASE SendHeader
  <2>1. Header(IF chunk = Chunks[file] THEN "END" ELSE "START", file, chunk) \in Items
    <3>1. file \in Nat /\ chunk \in Nat BY ChunksType DEF Types
    <3>2. QED BY <3>1, ItemMade
  <2>2. wire' \in Seq(Items) BY <1>1, <2>1, StreamGrows DEF SendHeader
  <2>3. QED BY <1>0, <1>1, <2>2 DEF Types, SendHeader, rcvVars
<1>2. CASE SendPayload
  <2>1. file \in Nat /\ chunk \in Nat /\ chunk + 1 \in Nat BY ChunksType DEF Types
  <2>2. Data(file, chunk, TRUE) \in Items BY <2>1, ItemMade
  <2>3. wire' \in Seq(Items) BY <1>2, <2>2, StreamGrows DEF SendPayload
  <2>4. QED BY <1>0, <1>2, <2>1, <2>3 DEF Types, SendPayload, rcvVars
<1>3. CASE EndFile
  <2>1. file + 1 \in 1..(Len(Chunks) + 1)
    <3>1. file \in 1..Len(Chunks) /\ Len(Chunks) \in Nat BY <1>3, ChunksType DEF EndFile
    <3>2. QED BY <3>1
  <2>2. QED BY <1>0, <1>3, <2>1 DEF Types, EndFile, rcvVars
<1>4. CASE Finish
  BY <1>0, <1>4 DEF Types, Finish, rcvVars
<1>5. CASE Crash
  <2>1. wire' \in Seq(Items) BY <1>5, StreamBreaks
  <2>2. ended' \in {"fin", "rst"}
    <3>1. plan.ends \in SUBSET {"fin", "rst"} BY PlansAssumption DEF Types
    <3>2. QED BY <1>5, <3>1 DEF Crash
  <2>3. QED BY <1>0, <1>5, <2>1, <2>2 DEF Types, Crash, rcvVars
<1>6. CASE Arrive
  <2>1. wire' \in Seq(Items) /\ inbox' \in Seq(Items) BY <1>6, StreamArrives
  <2>2. QED BY <1>0, <1>6, <2>1 DEF Types, Arrive, rcvVars, sndVars
<1>7. ASSUME NEW n \in {1, 2}, StringReady, n = 1 \/ n = StringItems, Drop(n), wire' = wire
      PROVE  inbox' \in Seq(Items) /\ wire' \in Seq(Items)
  <2>1. n <= Len(inbox)
    <3>1. Len(inbox) \in Nat BY BothEnds
    <3>2. QED BY <1>7, <3>1, StringRead
  <2>2. QED BY <1>7, <2>1, StreamDrops DEF Types
<1>8. CASE StartFile
  <2>1. Parsed \in Headers /\ Parsed.file \in Files BY <1>8, ParsedType, CommandRead DEF StartFile
  <2>2. Garbage \in Items BY ItemMade DEF Garbage
  <2>3. disk' \in [Files -> Seq(Pieces)]
    <3>1. <<>> \in Seq(Pieces) OBVIOUS
    <3>2. QED BY <1>8, <3>1 DEF StartFile, Types
  <2>4. inbox' \in Seq(Items) /\ wire' \in Seq(Items) BY <1>7, <1>8 DEF StartFile
  <2>5. QED BY <1>0, <1>8, <2>1, <2>2, <2>3, <2>4 DEF Types, StartFile, sndVars
<1>9. CASE CannotOpen
  <2>1. inbox' \in Seq(Items) /\ wire' \in Seq(Items) BY <1>7, <1>9 DEF CannotOpen
  <2>2. QED BY <1>0, <1>9, <2>1 DEF Types, CannotOpen, rcvVars, sndVars
<1>R. CASE ReturnHeader
  <2>1. inbox' \in Seq(Items) /\ wire' \in Seq(Items) BY <1>7, <1>R DEF ReturnHeader
  <2>2. QED BY <1>0, <1>R, <2>1 DEF Types, ReturnHeader, sndVars
<1>10. CASE IgnoreString
  <2>0. StringItems \in {1, 2} BY DEF StringItems
  <2>1. inbox' \in Seq(Items) /\ wire' \in Seq(Items) BY <1>7, <1>10, <2>0 DEF IgnoreString
  <2>2. QED BY <1>0, <1>10, <2>1 DEF Types, IgnoreString, rcvVars, sndVars
<1>11. CASE EndOfCommands \/ Abort
  BY <1>0, <1>11 DEF Types, EndOfCommands, Abort, sndVars
<1>12. CASE CheckBytesWaiting
  BY <1>0, <1>12 DEF Types, CheckBytesWaiting, sndVars
<1>13. CASE RecvPayload
  <2>1. 1 \in 1..Len(inbox) /\ 1 <= Len(inbox) BY <1>13, BothEnds DEF RecvPayload
  <2>2. inbox[1] \in Items BY <2>1, BothEnds
  <2>3. inbox' \in Seq(Items) /\ wire' \in Seq(Items) BY <1>13, <2>1, StreamDrops, BothEnds DEF RecvPayload
  <2>4. QED BY <1>0, <1>13, <2>2, <2>3 DEF Types, RecvPayload, sndVars
<1>14. CASE Write
  <2>1. path \in Files BY <1>14 DEF Shape, InStep, InFile, Write
  <2>2. Written \in Seq(Pieces)
    <3>1. msg.file \in Nat /\ msg.chunk \in Nat /\ buffer \in Items BY DEF Types, Headers
    <3>2. [sized |-> <<msg.file, msg.chunk>>, data |-> buffer] \in Pieces BY <3>1 DEF Pieces
    <3>3. QED BY <3>2 DEF Written
  <2>3. disk' \in [Files -> Seq(Pieces)]
    <3>1. disk[path] \o Written \in Seq(Pieces) BY <2>1, <2>2, ConcatProperties DEF Types
    <3>2. QED BY <1>14, <2>1, <3>1 DEF Write, Types
  <2>4. acks' \in Seq(Files)
    <3>1. acks \in Seq(Files) BY DEF Types
    <3>2. Append(acks, path) \in Seq(Files) BY <2>1, <3>1, AppendProperties
    <3>3. QED BY <1>14, <3>1, <3>2 DEF Write
  <2>5. rpc' \in {"command", "more"} BY <1>14 DEF Write
  <2>6. QED BY <1>0, <1>14, <2>3, <2>4, <2>5 DEF Types, Write, sndVars
<1>15. CASE NextHeader
  <2>0. StringItems \in {1, 2} BY DEF StringItems
  <2>1. Parsed \in Headers BY <1>15, ParsedType DEF NextHeader
  <2>2. inbox' \in Seq(Items) /\ wire' \in Seq(Items) BY <1>7, <1>15, <2>0 DEF NextHeader
  <2>3. QED BY <1>0, <1>15, <2>1, <2>2 DEF Types, NextHeader, sndVars
<1>16. CASE Incomplete
  BY <1>0, <1>16 DEF Types, Incomplete, sndVars
<1>17. QED
  BY <1>1, <1>2, <1>3, <1>4, <1>5, <1>6, <1>8, <1>9, <1>R, <1>10, <1>11, <1>12, <1>13, <1>14, <1>15, <1>16
  DEF Next, SenderStep, ReceiverStep

------------------------------------------------------------------------------
(* The steps, as the stream sees them.                                       *)

\* The last header of a file says so.
Sent == Header(IF chunk = Chunks[file] THEN "END" ELSE "START", file, chunk)

\* An item is added to the stream; items are taken from it; it stays as it is.
Grows(t) == /\ Len(Stream') = Len(Stream) + 1
            /\ \A i \in 1..Len(Stream) : Stream'[i] = Stream[i]
            /\ Stream'[Len(Stream) + 1] = t
Drops(n) == /\ n <= Len(Stream)
            /\ Len(Stream') = Len(Stream) - n
            /\ \A i \in 1..Len(Stream') : i + n \in 1..Len(Stream) /\ Stream'[i] = Stream[i + n]
Stays == Stream' = Stream

\* What a step does to the stream.
LEMMA Effects ==
  ASSUME Types
  PROVE  /\ SendHeader => Grows(Sent) /\ Sent \in Items /\ IsHeader(Sent) /\ Sent.file = file
                          /\ (Ends(Sent) <=> chunk = Chunks[file])
         /\ SendPayload => Grows(Data(file, chunk, TRUE)) /\ ~IsHeader(Data(file, chunk, TRUE))
                           /\ Data(file, chunk, TRUE).file = file
         /\ EndFile \/ Finish \/ Arrive \/ EndOfCommands \/ Abort \/ CheckBytesWaiting \/ Write
            \/ Incomplete => Stays
         /\ StartFile \/ CannotOpen \/ ReturnHeader \/ RecvPayload => Drops(1)
         /\ IgnoreString \/ NextHeader => Drops(StringItems)
<1>1. file \in Nat /\ chunk \in Nat BY ChunksType DEF Types
<1>2. ASSUME SendHeader
      PROVE  Grows(Sent) /\ Sent \in Items /\ IsHeader(Sent) /\ Sent.file = file
             /\ (Ends(Sent) <=> chunk = Chunks[file])
  <2>1. Sent \in Items /\ Sent.type = "header" /\ Sent.file = file
        /\ Sent.cmd = IF chunk = Chunks[file] THEN "END" ELSE "START"
    BY <1>1 DEF Sent, Header, Items
  <2>2. wire' = Append(wire, Sent) /\ inbox' = inbox BY <1>2 DEF SendHeader, Sent
  <2>3. Grows(Sent) BY <2>1, <2>2, StreamGrows DEF Grows
  <2>4. QED BY <2>1, <2>3 DEF IsHeader, Ends
<1>3. ASSUME SendPayload
      PROVE  Grows(Data(file, chunk, TRUE)) /\ ~IsHeader(Data(file, chunk, TRUE))
             /\ Data(file, chunk, TRUE).file = file
  <2>1. Data(file, chunk, TRUE) \in Items /\ Data(file, chunk, TRUE).type = "data"
        /\ Data(file, chunk, TRUE).file = file
    BY <1>1 DEF Data, Items
  <2>2. wire' = Append(wire, Data(file, chunk, TRUE)) /\ inbox' = inbox BY <1>3 DEF SendPayload
  <2>3. Grows(Data(file, chunk, TRUE)) BY <2>1, <2>2, StreamGrows DEF Grows
  <2>4. QED BY <2>1, <2>3 DEF IsHeader
<1>4. ASSUME EndFile \/ Finish \/ EndOfCommands \/ Abort \/ CheckBytesWaiting \/ Write \/ Incomplete
      PROVE  Stays
  BY <1>4 DEF EndFile, Finish, EndOfCommands, Abort, CheckBytesWaiting, Write, Incomplete, Stays, Stream, rcvVars
<1>5. Arrive => Stays BY StreamArrives DEF Stays
<1>6. ASSUME NEW n \in {1, 2}, n <= Len(inbox), Drop(n), wire' = wire PROVE Drops(n)
  <2>1. n <= Len(Stream)
    <3>1. Len(Stream) = Len(inbox) + Len(wire) /\ Len(inbox) \in Nat /\ Len(wire) \in Nat BY BothEnds
    <3>2. QED BY <1>6, <3>1
  <2>2. n \in Nat OBVIOUS
  <2>3. QED BY <1>6, <2>1, <2>2, StreamDrops DEF Drops
<1>7. StringReady => StringItems \in {1, 2} /\ StringItems <= Len(inbox) /\ 1 <= Len(inbox)
  <2>1. Len(inbox) \in Nat BY BothEnds
  <2>2. QED BY <2>1, StringRead DEF StringItems
<1>8. ASSUME StartFile \/ CannotOpen \/ ReturnHeader \/ RecvPayload PROVE Drops(1)
  <2>1. 1 <= Len(inbox)
    <3>1. inbox # <<>> => 1 <= Len(inbox) BY BothEnds
    <3>2. QED BY <1>7, <1>8, <3>1 DEF StartFile, CannotOpen, ReturnHeader, RecvPayload
  <2>2. Drop(1) /\ wire' = wire BY <1>8 DEF StartFile, CannotOpen, ReturnHeader, RecvPayload
  <2>3. QED BY <1>6, <2>1, <2>2
<1>9. ASSUME IgnoreString \/ NextHeader PROVE Drops(StringItems)
  <2>1. StringReady /\ Drop(StringItems) /\ wire' = wire BY <1>9 DEF IgnoreString, NextHeader
  <2>2. QED BY <1>6, <1>7, <2>1
<1>10. QED BY <1>2, <1>3, <1>4, <1>5, <1>8, <1>9

\* Headers and payloads still alternate after a step.
LEMMA AlternatingKept ==
  ASSUME Types, Shape, Next
  PROVE  Alternating'
<1>0. plan' = plan /\ Chunks' = Chunks /\ Files' = Files
  <2>1. plan' = plan
    BY DEF Next, SenderStep, ReceiverStep, SendHeader, SendPayload, EndFile, Finish, Crash, Arrive,
       StartFile, CannotOpen, IgnoreString, ReturnHeader, Abort, EndOfCommands, CheckBytesWaiting,
       RecvPayload, Write, NextHeader, Incomplete
  <2>2. QED BY <2>1, ChunksStay
<1>L. Len(Stream) \in Nat BY StreamType
<1>N. 0 \notin Files BY ChunksType
<1>1. ASSUME NEW t, Grows(t), spc \in {"header", "payload"}, t.file \in Files,
             IsHeader(t) <=> spc = "header", spc' = IF spc = "header" THEN "payload" ELSE "header"
      PROVE  Alternating'
  <2>1. ASSUME NEW i \in 1..Len(Stream') PROVE i \in 1..Len(Stream) \/ i = Len(Stream) + 1
    BY <1>1, <1>L DEF Grows
  <2>2. \A i \in 1..Len(Stream') : Stream'[i].file \in Files \cup {0}
    BY <1>1, <2>1 DEF Grows, Shape, Alternating
  <2>3. \A i \in 1..Len(Stream') : ~(IsHeader(Stream'[i]) /\ ~Named(Stream'[i]))
    <3>1. Named(t) <=> IsHeader(t) BY <1>1, <1>N DEF Named
    <3>2. QED BY <1>1, <2>1, <3>1 DEF Grows, Shape, Alternating
  <2>4. ASSUME NEW i \in 1..(Len(Stream') - 1)
        PROVE  IsHeader(Stream'[i]) <=> ~IsHeader(Stream'[i + 1])
    <3>1. CASE i = Len(Stream)
      <4>1. Stream'[i] = Stream[Len(Stream)] /\ Stream'[i + 1] = t /\ Len(Stream) > 0
        BY <1>1, <1>L, <2>4, <3>1 DEF Grows
      <4>2. IsHeader(Stream[Len(Stream)]) <=> spc = "payload" BY <1>1, <4>1 DEF Shape, Alternating
      <4>3. QED BY <1>1, <4>1, <4>2
    <3>2. CASE i # Len(Stream)
      <4>1. i \in 1..(Len(Stream) - 1) /\ i \in 1..Len(Stream) /\ i + 1 \in 1..Len(Stream)
        BY <1>1, <1>L, <2>4, <3>2 DEF Grows
      <4>2. QED BY <1>1, <4>1 DEF Grows, Shape, Alternating
    <3>3. QED BY <3>1, <3>2
  <2>5. Stream'[Len(Stream')] = t BY <1>1 DEF Grows
  <2>6. QED BY <1>0, <1>1, <2>2, <2>3, <2>4, <2>5 DEF Alternating, IsHeader, Named
<1>2. ASSUME Stays, spc' = spc \/ (spc' \in {"finished", "closed"} /\ spc = "header") PROVE Alternating'
  BY <1>0, <1>2 DEF Stays, Shape, Alternating, IsHeader, Named
<1>3. ASSUME NEW n \in {1, 2}, Drops(n), spc' = spc PROVE Alternating'
  <2>1. Len(Stream') \in Nat BY <1>3, <1>L DEF Drops
  <2>2. \A i \in 1..Len(Stream') : i + n \in 1..Len(Stream) /\ Stream'[i] = Stream[i + n]
    BY <1>3 DEF Drops
  <2>3. \A i \in 1..Len(Stream') : Stream'[i].file \in Files \cup {0}
    BY <2>2 DEF Shape, Alternating
  <2>4. \A i \in 1..Len(Stream') :
          IsHeader(Stream'[i]) /\ ~Named(Stream'[i]) => i = Len(Stream') /\ spc = "dead"
    <3>1. \A i \in 1..Len(Stream') : i + n = Len(Stream) => i = Len(Stream')
      BY <1>3, <1>L DEF Drops
    <3>2. QED BY <2>2, <3>1 DEF Shape, Alternating
  <2>5. ASSUME NEW i \in 1..(Len(Stream') - 1)
        PROVE  IsHeader(Stream'[i]) <=> ~IsHeader(Stream'[i + 1])
    <3>1. i \in 1..Len(Stream') /\ i + 1 \in 1..Len(Stream') BY <2>1
    <3>2. i + n \in 1..(Len(Stream) - 1) /\ (i + 1) + n = (i + n) + 1 BY <1>3, <1>L, <2>1 DEF Drops
    <3>3. Stream'[i] = Stream[i + n] /\ Stream'[i + 1] = Stream[(i + n) + 1] BY <2>2, <3>1, <3>2
    <3>4. QED BY <3>2, <3>3 DEF Shape, Alternating
  <2>6. Len(Stream') > 0 => Len(Stream) > 0 /\ Stream'[Len(Stream')] = Stream[Len(Stream)]
    <3>1. Len(Stream') > 0 => Len(Stream') \in 1..Len(Stream') /\ Len(Stream') + n = Len(Stream)
      BY <1>3, <1>L, <2>1 DEF Drops
    <3>2. Len(Stream') > 0 => Len(Stream) > 0 BY <1>3, <1>L, <2>1 DEF Drops
    <3>3. QED BY <2>2, <3>1, <3>2
  <2>7. QED BY <1>0, <1>3, <2>3, <2>4, <2>5, <2>6 DEF Shape, Alternating, IsHeader, Named
<1>4. CASE Crash
  <2>1. /\ Len(Stream') \in Nat /\ Len(Stream') <= Len(Stream)
        /\ \A i \in 1..Len(Stream') :
              Stream'[i] = Stream[i] \/ (i = Len(Stream') /\ Stream'[i] \in Cut(Stream[i]))
    BY <1>4, StreamBreaks
  <2>2. \A i \in 1..Len(Stream') : i \in 1..Len(Stream) /\ Stream[i] \in Items
    BY <2>1, <1>L, StreamType, ElementOfSeq
  <2>3. \A i \in 1..Len(Stream') : /\ IsHeader(Stream'[i]) <=> IsHeader(Stream[i])
                                   /\ Stream'[i].file \in {Stream[i].file, 0}
    BY <2>1, <2>2, CutParts
  <2>4. \A i \in 1..Len(Stream') : Stream'[i].file \in Files \cup {0}
    BY <2>2, <2>3 DEF Shape, Alternating
  <2>5. spc # "dead" /\ spc' = "dead" BY <1>4 DEF Crash
  <2>6. \A i \in 1..Len(Stream') : IsHeader(Stream'[i]) /\ ~Named(Stream'[i]) => i = Len(Stream')
    BY <2>1, <2>2, <2>5 DEF Shape, Alternating
  <2>7. ASSUME NEW i \in 1..(Len(Stream') - 1)
        PROVE  IsHeader(Stream'[i]) <=> ~IsHeader(Stream'[i + 1])
    <3>1. i \in 1..Len(Stream') /\ i + 1 \in 1..Len(Stream') /\ i \in 1..(Len(Stream) - 1) BY <2>1, <1>L
    <3>2. QED BY <2>3, <3>1 DEF Shape, Alternating
  <2>8. QED BY <1>0, <2>4, <2>5, <2>6, <2>7 DEF Alternating, IsHeader, Named
<1>5. CASE SendHeader
  BY <1>1, <1>5, Effects DEF SendHeader
<1>6. CASE SendPayload
  <2>1. file \in Files /\ spc = "payload" /\ spc' = "header" BY <1>6 DEF SendPayload, Shape, InStep
  <2>2. QED BY <1>1, <1>6, <2>1, Effects
<1>7. CASE EndFile \/ Finish \/ Arrive \/ EndOfCommands \/ Abort \/ CheckBytesWaiting \/ Write \/ Incomplete
  <2>1. spc' = spc \/ (spc' \in {"finished", "closed"} /\ spc = "header")
    BY <1>7 DEF EndFile, Finish, Arrive, EndOfCommands, Abort, CheckBytesWaiting, Write, Incomplete, sndVars
  <2>2. QED BY <1>2, <1>7, <2>1, Effects
<1>8. CASE StartFile \/ CannotOpen \/ ReturnHeader \/ RecvPayload \/ IgnoreString \/ NextHeader
  <2>1. spc' = spc BY <1>8 DEF StartFile, CannotOpen, ReturnHeader, RecvPayload, IgnoreString, NextHeader, sndVars
  <2>2. StringItems \in {1, 2} BY DEF StringItems
  <2>3. QED BY <1>3, <1>8, <2>1, <2>2, Effects
<1>9. QED BY <1>4, <1>5, <1>6, <1>7, <1>8 DEF Next, SenderStep, ReceiverStep

\* After a header the receiver waits for a payload, and only a payload can come.
LEMMA AfterHeader ==
  ASSUME Types, Shape, NEW n \in {1, 2}, Drops(n), IsHeader(Stream[n]), spc' = spc
  PROVE  IF Len(Stream') = 0 THEN spc' \in {"payload", "closed", "dead"} ELSE ~IsHeader(Stream'[1])
<1>1. Len(Stream) \in Nat /\ n <= Len(Stream) /\ Len(Stream') = Len(Stream) - n BY StreamType DEF Drops
<1>2. CASE Len(Stream') = 0
  <2>1. Len(Stream) = n /\ Len(Stream) > 0 BY <1>1, <1>2
  <2>2. QED BY <1>2, <2>1 DEF Shape, Alternating
<1>3. CASE Len(Stream') # 0
  <2>1. 1 \in 1..Len(Stream') /\ n \in 1..(Len(Stream) - 1) /\ 1 + n = n + 1 BY <1>1, <1>3
  <2>2. Stream'[1] = Stream[n + 1] BY <2>1 DEF Drops
  <2>3. QED BY <1>3, <2>1, <2>2 DEF Shape, Alternating
<1>4. QED BY <1>2, <1>3

\* After a step a payload is still only waited for where one can come.
LEMMA InStepKept ==
  ASSUME Types, Shape, Next
  PROVE  InStep'
<1>0. plan' = plan /\ Chunks' = Chunks /\ Files' = Files
  <2>1. plan' = plan
    BY DEF Next, SenderStep, ReceiverStep, SendHeader, SendPayload, EndFile, Finish, Crash, Arrive,
       StartFile, CannotOpen, IgnoreString, ReturnHeader, Abort, EndOfCommands, CheckBytesWaiting,
       RecvPayload, Write, NextHeader, Incomplete
  <2>2. QED BY <2>1, ChunksStay
<1>L. Len(Stream) \in Nat BY StreamType
<1>1. CASE SendHeader
  <2>1. Grows(Sent) BY <1>1, Effects
  <2>2. Len(Stream') > 0 BY <1>L, <2>1 DEF Grows
  <2>3. Len(Stream) > 0 => Stream'[1] = Stream[1]
    <3>1. Len(Stream) > 0 => 1 \in 1..Len(Stream) BY <1>L
    <3>2. QED BY <2>1, <3>1 DEF Grows
  <2>4. QED BY <1>0, <1>1, <1>L, <2>2, <2>3 DEF SendHeader, rcvVars, Shape, InStep, InFile, IsHeader
<1>2. CASE SendPayload
  <2>1. Grows(Data(file, chunk, TRUE)) /\ ~IsHeader(Data(file, chunk, TRUE)) BY <1>2, Effects
  <2>2. Len(Stream') > 0 BY <1>L, <2>1 DEF Grows
  <2>3. Stream'[1] = IF Len(Stream) > 0 THEN Stream[1] ELSE Data(file, chunk, TRUE)
    <3>1. Len(Stream) > 0 => 1 \in 1..Len(Stream) BY <1>L
    <3>2. ~(Len(Stream) > 0) => Len(Stream) + 1 = 1 BY <1>L
    <3>3. QED BY <2>1, <3>1, <3>2 DEF Grows
  <2>4. rpc \in {"check", "recv"} => ~IsHeader(Stream'[1])
    <3>1. CASE Len(Stream) = 0
      <4>1. Stream'[1] = Data(file, chunk, TRUE) BY <2>3, <3>1
      <4>2. QED BY <2>1, <4>1
    <3>2. CASE Len(Stream) > 0
      <4>1. Stream'[1] = Stream[1] /\ Len(Stream) # 0 BY <2>3, <3>2
      <4>2. QED BY <4>1 DEF Shape, InStep
    <3>3. QED BY <1>L, <3>1, <3>2
  <2>5. QED BY <1>0, <1>2, <2>2, <2>4 DEF SendPayload, rcvVars, Shape, InStep, InFile, IsHeader
<1>3. CASE EndFile
  BY <1>0, <1>3, Effects DEF EndFile, rcvVars, Stays, Shape, InStep, InFile, IsHeader
<1>4. CASE Finish
  BY <1>0, <1>4, Effects DEF Finish, rcvVars, Stays, Shape, InStep, InFile, IsHeader
<1>5. CASE Crash
  <2>1. /\ Len(Stream') \in Nat /\ Len(Stream') <= Len(Stream)
        /\ \A i \in 1..Len(Stream') :
              Stream'[i] = Stream[i] \/ (i = Len(Stream') /\ Stream'[i] \in Cut(Stream[i]))
    BY <1>5, StreamBreaks
  <2>2. ASSUME Len(Stream') # 0, ~IsHeader(Stream[1]) PROVE ~IsHeader(Stream'[1])
    <3>1. 1 \in 1..Len(Stream') /\ 1 \in 1..Len(Stream) BY <1>L, <2>1, <2>2
    <3>2. Stream[1] \in Items BY <3>1, StreamType, ElementOfSeq
    <3>3. QED BY <2>1, <2>2, <3>1, <3>2, CutParts
  <2>3. Len(Stream') # 0 => Len(Stream) # 0 BY <1>L, <2>1
  <2>4. QED BY <1>0, <1>5, <2>2, <2>3 DEF Crash, rcvVars, Shape, InStep, InFile, IsHeader
<1>6. CASE Arrive
  BY <1>0, <1>6, Effects DEF Arrive, rcvVars, sndVars, Stays, Shape, InStep, InFile, IsHeader
<1>7. CASE StartFile
  <2>1. Parsed.file \in Files /\ IsHeader(Stream[1]) BY <1>7, CommandRead DEF StartFile
  <2>2. Drops(1) /\ spc' = spc BY <1>7, Effects DEF StartFile, sndVars
  <2>3. IF Len(Stream') = 0 THEN spc' \in {"payload", "closed", "dead"} ELSE ~IsHeader(Stream'[1])
    BY <2>1, <2>2, AfterHeader
  <2>4. QED BY <1>0, <1>7, <2>1, <2>3 DEF StartFile, sndVars, Shape, InStep, InFile, IsHeader
<1>8. CASE CannotOpen \/ IgnoreString \/ ReturnHeader
  BY <1>0, <1>8 DEF CannotOpen, IgnoreString, ReturnHeader, rcvVars, sndVars, Shape, InStep, InFile, IsHeader
<1>9. CASE EndOfCommands \/ Abort
  BY <1>0, <1>9 DEF EndOfCommands, Abort, sndVars, Shape, InStep, InFile, IsHeader
<1>10. CASE CheckBytesWaiting
  <2>1. Stream' = Stream BY <1>10, Effects DEF Stays
  <2>2. QED BY <1>0, <1>10, <2>1 DEF CheckBytesWaiting, sndVars, Shape, InStep, InFile, IsHeader
<1>11. CASE RecvPayload
  BY <1>0, <1>11 DEF RecvPayload, sndVars, Shape, InStep, InFile, IsHeader
<1>12. CASE Write
  BY <1>0, <1>12 DEF Write, sndVars, Shape, InStep, InFile, IsHeader
<1>13. CASE NextHeader
  <2>1. Drops(StringItems) /\ spc' = spc /\ StringReady BY <1>13, Effects DEF NextHeader, sndVars
  <2>2. IF Len(Stream') = 0 THEN spc' \in {"payload", "closed", "dead"} ELSE ~IsHeader(Stream'[1])
    <3>1. CASE IsHeader(Stream[1])
      BY <2>1, <3>1, StringRead, AfterHeader
    <3>2. CASE StringItems = 2 /\ Len(Stream) > 1 /\ ~IsHeader(Stream[1])
      <4>1. 1 \in 1..(Len(Stream) - 1) BY <1>L, <3>2
      <4>2. IsHeader(Stream[2]) BY <3>2, <4>1 DEF Shape, Alternating
      <4>3. QED BY <2>1, <3>2, <4>2, AfterHeader
    <3>3. CASE StringItems = 1 /\ Len(Stream) = 1 /\ ended # "no"
      <4>1. Len(Stream') = 0 BY <2>1, <3>3 DEF Drops
      <4>2. spc \in {"closed", "dead"} BY <3>3 DEF Shape, InStep
      <4>3. QED BY <2>1, <4>1, <4>2
    <3>4. QED BY <2>1, <3>1, <3>2, <3>3, StringRead
  <2>3. QED BY <1>0, <1>13, <2>2 DEF NextHeader, sndVars, Shape, InStep, InFile, IsHeader
<1>14. CASE Incomplete
  BY <1>0, <1>14 DEF Incomplete, sndVars, Shape, InStep, InFile, IsHeader
<1>15. QED
  BY <1>1, <1>2, <1>3, <1>4, <1>5, <1>6, <1>7, <1>8, <1>9, <1>10, <1>11, <1>12, <1>13, <1>14
  DEF Next, SenderStep, ReceiverStep

------------------------------------------------------------------------------
(* Acknowledgements come after the last header of their file.                *)

\* Once sent, the last header of a file stays sent.
LEMMA EndSentStays ==
  ASSUME Types, Shape, Next, NEW f \in Files, EndSent(f)
  PROVE  EndSent(f)'
<1>0. plan' = plan /\ Chunks' = Chunks
  <2>1. plan' = plan
    BY DEF Next, SenderStep, ReceiverStep, SendHeader, SendPayload, EndFile, Finish, Crash, Arrive,
       StartFile, CannotOpen, IgnoreString, ReturnHeader, Abort, EndOfCommands, CheckBytesWaiting,
       RecvPayload, Write, NextHeader, Incomplete
  <2>2. QED BY <2>1, ChunksStay
<1>1. file \in Nat /\ chunk \in Nat /\ f \in Nat /\ Chunks[f] \in Nat
  BY SMTT(30), ChunksType, ElementOfSeq DEF Types
<1>2. CASE SendHeader
  BY <1>0, <1>1, <1>2 DEF SendHeader, EndSent
<1>3. CASE SendPayload
  BY <1>0, <1>1, <1>3 DEF SendPayload, EndSent
<1>4. CASE EndFile
  BY <1>0, <1>1, <1>4 DEF EndFile, EndSent
<1>5. CASE Finish
  BY <1>0, <1>1, <1>5 DEF Finish, EndSent
<1>6. CASE Crash
  BY <1>0, <1>1, <1>6 DEF Crash, EndSent
<1>7. CASE Arrive \/ ReceiverStep \/ CannotOpen
  BY <1>0, <1>7 DEF Arrive, ReceiverStep, StartFile, CannotOpen, IgnoreString, ReturnHeader, Abort, EndOfCommands,
     CheckBytesWaiting, RecvPayload, Write, NextHeader, Incomplete, sndVars, EndSent
<1>8. QED BY <1>2, <1>3, <1>4, <1>5, <1>6, <1>7 DEF Next, SenderStep

\* When the sender adds the last header of a file, those of all earlier files were
\* sent, and its own is sent with it.
LEMMA SendingEnds ==
  ASSUME Types, SendHeader
  PROVE  /\ file \in Files
         /\ \A f \in Files : f < file => EndSent(f)'
         /\ \A f \in Files : f = file /\ chunk = Chunks[file] => EndSent(f)'
         /\ \A f \in Files : EndSent(f) => f < file
<1>0. plan' = plan /\ Chunks' = Chunks
  BY ChunksStay DEF SendHeader
<1>1. file \in Files /\ file \in Nat /\ Chunks[file] \in Nat /\ chunk \in Nat /\ \A f \in Files : f \in Nat
  BY SMTT(30), ChunksType, ElementOfSeq DEF Types, SendHeader
<1>2. QED BY <1>0, <1>1 DEF SendHeader, EndSent

\* Whatever END header a step makes known to the receiver was known to be on its way,
\* unless the step is the one that sends it.
LEMMA EndMetBefore ==
  ASSUME Types, Shape, Next, ~SendHeader, NEW f, EndMet(f)'
  PROVE  EndMet(f)
<1>L. Len(Stream) \in Nat BY StreamType
<1>1. ASSUME Stays, acks' = acks, InFile' => InFile, path' = path, msg' = msg
      PROVE  EndMet(f)
  BY <1>1 DEF Stays, EndMet, Ends, Named, IsHeader
<1>2. ASSUME NEW n \in {1, 2}, Drops(n), acks' = acks, InFile' => InFile, path' = path, msg' = msg
      PROVE  EndMet(f)
  <2>1. \A i \in 1..Len(Stream') : i + n \in 1..Len(Stream) /\ Stream'[i] = Stream[i + n]
    BY <1>2 DEF Drops
  <2>2. \A i, j \in 1..Len(Stream') : i <= j => i + n <= j + n BY <1>2, <1>L DEF Drops
  <2>3. QED BY <1>2, <2>1, <2>2 DEF EndMet, Ends, Named, IsHeader
<1>3. CASE SendPayload
  <2>1. Grows(Data(file, chunk, TRUE)) /\ ~IsHeader(Data(file, chunk, TRUE)) BY <1>3, Effects
  <2>2. \A i \in 1..Len(Stream') : \/ i \in 1..Len(Stream) /\ Stream'[i] = Stream[i]
                                   \/ ~IsHeader(Stream'[i])
    <3>1. \A i \in 1..Len(Stream') : i \in 1..Len(Stream) \/ i = Len(Stream) + 1
      BY <1>L, <2>1 DEF Grows
    <3>2. QED BY <2>1, <3>1 DEF Grows
  <2>3. QED BY <1>3, <2>2 DEF SendPayload, rcvVars, EndMet, InFile, Ends, Named, IsHeader
<1>4. CASE EndFile \/ Finish \/ Arrive
  <2>1. Stays BY <1>4, Effects
  <2>2. acks' = acks /\ rpc' = rpc /\ path' = path /\ msg' = msg
    BY <1>4 DEF EndFile, Finish, Arrive, rcvVars
  <2>3. QED BY <1>1, <2>1, <2>2 DEF InFile
<1>5. CASE Crash
  <2>1. /\ Len(Stream') \in Nat /\ Len(Stream') <= Len(Stream)
        /\ \A i \in 1..Len(Stream') :
              Stream'[i] = Stream[i] \/ (i = Len(Stream') /\ Stream'[i] \in Cut(Stream[i]))
    BY <1>5, StreamBreaks
  <2>2. \A i \in 1..Len(Stream') : i \in 1..Len(Stream) /\ Stream[i] \in Items
    BY <2>1, <1>L, StreamType, ElementOfSeq
  <2>3. \A i \in 1..Len(Stream') : /\ Ends(Stream'[i]) => Ends(Stream[i])
                                   /\ Named(Stream'[i]) => Named(Stream[i]) /\ Stream'[i].file = Stream[i].file
    BY <2>1, <2>2, CutParts
  <2>4. acks' = acks /\ rpc' = rpc /\ path' = path /\ msg' = msg BY <1>5 DEF Crash, rcvVars
  <2>5. QED BY <2>2, <2>3, <2>4 DEF EndMet, InFile, Ends, Named, IsHeader
<1>6. CASE StartFile
  <2>1. Drops(1) /\ StringReady BY <1>6, Effects DEF StartFile
  <2>2. /\ IsHeader(Stream[1]) /\ 1 \in 1..Len(Stream)
        /\ Parsed = [cmd |-> Stream[1].cmd, file |-> Stream[1].file, chunk |-> Stream[1].chunk]
    BY <1>6, CommandRead, StringRead DEF StartFile
  <2>3. Parsed.cmd = Stream[1].cmd /\ Parsed.file = Stream[1].file BY <2>2
  <2>4. Named(Stream[1]) /\ (Parsed.cmd = "END" => Ends(Stream[1])) BY <1>6, <2>2, <2>3 DEF StartFile, Named, Ends
  <2>5. \A i \in 1..Len(Stream') : i + 1 \in 1..Len(Stream) /\ Stream'[i] = Stream[i + 1]
    BY <2>1 DEF Drops
  <2>6. \A i, j \in 1..Len(Stream') : (i <= j => i + 1 <= j + 1) /\ 1 <= i + 1 BY <1>L, <2>1 DEF Drops
  <2>7. acks' = acks /\ path' = Stream[1].file /\ msg' = Parsed BY <1>6, <2>3 DEF StartFile
  <2>8. CASE \E i \in 1..Len(acks') : acks'[i] = f BY <2>7, <2>8 DEF EndMet
  <2>9. CASE \E i, j \in 1..Len(Stream') :
              i <= j /\ Ends(Stream'[j]) /\ Named(Stream'[i]) /\ Stream'[i].file = f
    BY <2>5, <2>6, <2>9 DEF EndMet
  <2>10. CASE path' = f /\ (msg'.cmd = "END" \/ \E j \in 1..Len(Stream') : Ends(Stream'[j]))
    <3>1. CASE msg'.cmd = "END"
      <4>1. Ends(Stream[1]) /\ Stream[1].file = f BY <2>4, <2>7, <2>10, <3>1
      <4>2. 1 <= 1 OBVIOUS
      <4>3. QED BY <2>2, <2>4, <4>1, <4>2 DEF EndMet
    <3>2. CASE \E j \in 1..Len(Stream') : Ends(Stream'[j])
      <4>1. PICK j \in 1..Len(Stream') : Ends(Stream'[j]) BY <3>2
      <4>2. j + 1 \in 1..Len(Stream) /\ Ends(Stream[j + 1]) /\ 1 <= j + 1 BY <2>5, <2>6, <4>1
      <4>3. QED BY <2>2, <2>4, <2>7, <2>10, <4>2 DEF EndMet
    <3>3. QED BY <2>10, <3>1, <3>2
  <2>11. QED BY <2>8, <2>9, <2>10 DEF EndMet, InFile, Ends, Named, IsHeader
<1>7. CASE CannotOpen \/ ReturnHeader
  <2>1. Drops(1) /\ acks' = acks /\ rpc' = rpc /\ path' = path /\ msg' = msg
    BY <1>7, Effects DEF CannotOpen, ReturnHeader, rcvVars
  <2>2. QED BY <1>2, <2>1 DEF InFile
<1>8. CASE IgnoreString
  <2>1. Drops(StringItems) /\ acks' = acks /\ rpc' = rpc /\ path' = path /\ msg' = msg
    BY <1>8, Effects DEF IgnoreString, rcvVars
  <2>2. StringItems \in {1, 2} BY DEF StringItems
  <2>3. QED BY <1>2, <2>1, <2>2 DEF InFile
<1>9. CASE EndOfCommands \/ Abort \/ CheckBytesWaiting \/ Incomplete
  <2>1. Stays BY <1>9, Effects
  <2>2. acks' = acks /\ (InFile' => InFile) /\ path' = path /\ msg' = msg
    BY <1>9 DEF EndOfCommands, Abort, CheckBytesWaiting, Incomplete, InFile
  <2>3. QED BY <1>1, <2>1, <2>2
<1>10. CASE RecvPayload
  <2>1. Drops(1) BY <1>10, Effects
  <2>2. acks' = acks /\ (InFile' => InFile) /\ path' = path /\ msg' = msg
    BY <1>10 DEF RecvPayload, InFile
  <2>3. QED BY <1>2, <2>1, <2>2
<1>11. CASE Write
  <2>1. Stays BY <1>11, Effects
  <2>2. acks \in Seq(Files) BY DEF Types
  <2>3. path' = path /\ msg' = msg /\ InFile BY <1>11 DEF Write, InFile
  <2>4. CASE msg.cmd = "END"
    <3>1. acks' = Append(acks, path) /\ ~InFile' BY <1>11, <2>4 DEF Write, InFile
    <3>2. path \in Files BY <2>3 DEF Shape, InStep
    <3>3. \A i \in 1..Len(acks') : \/ i \in 1..Len(acks) /\ acks'[i] = acks[i]
                                   \/ acks'[i] = path
      BY <2>2, <3>1, <3>2, AppendProperties, LenProperties
    <3>4. QED BY <2>1, <2>3, <2>4, <3>1, <3>3 DEF Stays, EndMet, Ends, Named, IsHeader
  <2>5. CASE msg.cmd # "END"
    <3>1. acks' = acks BY <1>11, <2>5 DEF Write
    <3>2. QED BY <1>1, <2>1, <2>3, <3>1
  <2>6. QED BY <2>4, <2>5
<1>12. CASE NextHeader
  <2>1. Drops(StringItems) /\ StringReady /\ InFile /\ path' = path /\ acks' = acks /\ msg' = Parsed
    BY <1>12, Effects DEF NextHeader, InFile
  <2>2. StringItems \in {1, 2} BY DEF StringItems
  <2>3. Parsed.cmd = "END" => 1 \in 1..Len(Stream) /\ Ends(Stream[1])
    <3>1. ASSUME Parsed.cmd = "END" PROVE 1 \in 1..Len(Stream) /\ Ends(Stream[1])
      <4>1. IsHeader(Stream[1]) /\ 1 \in 1..Len(Stream)
            /\ Parsed = [cmd |-> Stream[1].cmd, file |-> Stream[1].file, chunk |-> Stream[1].chunk]
        BY <2>1, <3>1, CommandRead, StringRead
      <4>2. QED BY <3>1, <4>1 DEF Ends
    <3>2. QED BY <3>1
  <2>4. \A i \in 1..Len(Stream') : i + StringItems \in 1..Len(Stream) /\ Stream'[i] = Stream[i + StringItems]
    BY <2>1 DEF Drops
  <2>5. \A i, j \in 1..Len(Stream') : i <= j => i + StringItems <= j + StringItems
    BY <1>L, <2>1, <2>2 DEF Drops
  <2>6. QED BY <2>1, <2>3, <2>4, <2>5 DEF EndMet, Ends, Named, IsHeader
<1>13. QED
  BY <1>3, <1>4, <1>5, <1>6, <1>7, <1>8, <1>9, <1>10, <1>11, <1>12 DEF Next, SenderStep, ReceiverStep

\* No END header is met that was not sent.
LEMMA EndsSentKept ==
  ASSUME Types, Shape, EndsSent, InTurn, Next
  PROVE  EndsSent'
<1>0. plan' = plan /\ Chunks' = Chunks /\ Files' = Files
  <2>1. plan' = plan
    BY DEF Next, SenderStep, ReceiverStep, SendHeader, SendPayload, EndFile, Finish, Crash, Arrive,
       StartFile, CannotOpen, IgnoreString, ReturnHeader, Abort, EndOfCommands, CheckBytesWaiting,
       RecvPayload, Write, NextHeader, Incomplete
  <2>2. QED BY <2>1, ChunksStay
<1>1. SUFFICES ASSUME NEW f \in Files, EndMet(f)' PROVE EndSent(f)' BY <1>0 DEF EndsSent
<1>2. CASE EndMet(f)
  BY <1>2, EndSentStays DEF EndsSent
<1>3. CASE ~EndMet(f)
  <2>1. SendHeader BY <1>1, <1>3, EndMetBefore
  <2>2. Grows(Sent) /\ Sent.file = file /\ (Ends(Sent) <=> chunk = Chunks[file]) BY <2>1, Effects
  <2>3. acks' = acks /\ rpc' = rpc /\ path' = path /\ msg' = msg BY <2>1 DEF SendHeader, rcvVars
  <2>4. Len(Stream) \in Nat /\ \A g \in Files : g \in Nat BY StreamType, ChunksType
  <2>5. \A i \in 1..Len(Stream') : \/ i \in 1..Len(Stream) /\ Stream'[i] = Stream[i]
                                   \/ i = Len(Stream) + 1 /\ Stream'[i] = Sent
    BY <2>2, <2>4 DEF Grows
  <2>6. file \in Files /\ file \in Nat BY <2>1, <2>4, SendingEnds
  <2>7. f <= file
    <3>1. CASE InFile /\ path = f BY <3>1 DEF InTurn
    <3>2. CASE \E i \in 1..Len(Stream') : Named(Stream'[i]) /\ Stream'[i].file = f
      BY <2>2, <2>5, <2>6, <3>2 DEF InTurn
    <3>3. QED BY <1>1, <1>3, <2>3, <3>1, <3>2 DEF EndMet, InFile, Ends, Named, IsHeader
  <2>8. chunk = Chunks[file]
    <3>1. CASE Ends(Sent) BY <2>2, <3>1
    <3>2. CASE ~Ends(Sent)
      <4>1. \A j \in 1..Len(Stream') : Ends(Stream'[j]) => j \in 1..Len(Stream) /\ Stream'[j] = Stream[j]
        BY <2>5, <3>2
      <4>2. \A i \in 1..Len(Stream') : \A j \in 1..Len(Stream) :
              i <= j => i \in 1..Len(Stream) /\ Stream'[i] = Stream[i]
        BY <2>4, <2>5
      <4>3. EndMet(f) BY <1>1, <2>3, <4>1, <4>2 DEF EndMet, InFile, Ends, Named, IsHeader
      <4>4. QED BY <1>3, <4>3
    <3>3. QED BY <3>1, <3>2
  <2>9. QED
    <3>1. CASE f = file BY <2>1, <2>8, <3>1, SendingEnds
    <3>2. CASE f < file BY <2>1, <3>2, SendingEnds
    <3>3. QED BY <2>4, <2>6, <2>7, <3>1, <3>2
<1>4. QED BY <1>2, <1>3

------------------------------------------------------------------------------
(* Acknowledgements come in the order of the files, once for each.           *)

\* The numbers of the files can be compared.
LEMMA FileNumbers ==
  ASSUME Types
  PROVE  /\ file \in Nat /\ path \in Nat /\ Len(Stream) \in Nat /\ Len(acks) \in Nat
         /\ \A f \in Files : f \in Nat
         /\ \A i \in 1..Len(acks) : acks[i] \in Files
         /\ \A i \in 1..Len(Stream) : Stream[i] \in Items /\ Stream[i].file \in Nat
<1>1. Len(Stream) \in Nat /\ \A i \in 1..Len(Stream) : Stream[i] \in Items BY StreamType, ElementOfSeq
<1>2. \A i \in 1..Len(Stream) : Stream[i].file \in Nat BY <1>1, ItemParts
<1>3. Len(acks) \in Nat /\ \A i \in 1..Len(acks) : acks[i] \in Files BY ElementOfSeq, LenProperties DEF Types
<1>4. file \in Nat /\ path \in Nat /\ \A f \in Files : f \in Nat BY SMTT(30), ChunksType DEF Types
<1>5. QED BY <1>1, <1>2, <1>3, <1>4

\* The order is kept when the unread named headers are some of those there were, and
\* the receiver is at the same file, or in none.
LEMMA InTurnThins ==
  ASSUME Types, InTurn, NEW n \in {0, 1, 2}, Len(Stream') \in Nat,
         \A i \in 1..Len(Stream') :
           /\ i + n \in 1..Len(Stream)
           /\ Named(Stream'[i]) => Named(Stream[i + n]) /\ Stream'[i].file = Stream[i + n].file
           /\ Ends(Stream'[i]) => Ends(Stream[i + n]),
         file' \in Nat, file <= file', acks' = acks, InFile' => InFile, path' = path, msg' = msg
  PROVE  InTurn'
<1>1. \A i, j \in 1..Len(Stream') : i < j => i + n < j + n OBVIOUS
<1>2. \A i, j \in 1..Len(Stream') : i < j /\ Named(Stream'[i]) /\ Named(Stream'[j]) =>
        /\ Stream'[i].file <= Stream'[j].file
        /\ Ends(Stream'[i]) => Stream'[i].file < Stream'[j].file
  BY <1>1 DEF InTurn
<1>3. \A i \in 1..Len(Stream') : Named(Stream'[i]) =>
        /\ Stream'[i].file \in Nat /\ Stream'[i].file <= file
        /\ InFile => path <= Stream'[i].file /\ (msg.cmd = "END" => path < Stream'[i].file)
        /\ \A k \in 1..Len(acks) : acks[k] < Stream'[i].file
  BY FileNumbers DEF InTurn
<1>4. \A x \in Nat : x <= file => x <= file' BY FileNumbers
<1>5. \A i \in 1..Len(Stream') : Named(Stream'[i]) => Stream'[i].file <= file' BY <1>3, <1>4
<1>6. InFile => path <= file' BY <1>4, FileNumbers DEF InTurn
<1>7. (InFile => \A k \in 1..Len(acks) : acks[k] < path)
      /\ \A i, j \in 1..Len(acks) : i < j => acks[i] < acks[j]
  BY DEF InTurn
<1>8. QED BY <1>2, <1>3, <1>5, <1>6, <1>7 DEF InTurn, Ends, Named, IsHeader

\* Every step keeps the order.
LEMMA InTurnKept ==
  ASSUME Types, Shape, EndsSent, InTurn, Next
  PROVE  InTurn'
<1>1. ASSUME Stays, file' \in Nat, file <= file', acks' = acks, InFile' => InFile, path' = path, msg' = msg
      PROVE  InTurn'
  <2>1. \A i \in 1..Len(Stream') : i + 0 \in 1..Len(Stream) /\ Stream'[i] = Stream[i + 0]
    BY <1>1 DEF Stays
  <2>2. 0 \in {0, 1, 2} /\ Len(Stream') \in Nat BY <1>1, FileNumbers DEF Stays
  <2>3. QED BY <1>1, <2>1, <2>2, InTurnThins
<1>2. ASSUME NEW n \in {1, 2}, Drops(n), file' = file, acks' = acks, InFile' => InFile,
             path' = path, msg' = msg
      PROVE  InTurn'
  <2>1. Len(Stream') \in Nat /\ file' \in Nat /\ file <= file' BY <1>2, FileNumbers DEF Drops
  <2>2. n \in {0, 1, 2} OBVIOUS
  <2>3. QED BY <1>2, <2>1, <2>2, InTurnThins DEF Drops
<1>3. CASE SendHeader
  <2>1. Grows(Sent) /\ Sent.file = file /\ Named(Sent) /\ file \in Files
    BY <1>3, Effects, SendingEnds, ChunksType DEF Named
  <2>2. acks' = acks /\ rpc' = rpc /\ path' = path /\ msg' = msg /\ file' = file
    BY <1>3 DEF SendHeader, rcvVars
  <2>3. \A i \in 1..Len(Stream') : \/ i \in 1..Len(Stream) /\ Stream'[i] = Stream[i]
                                   \/ i = Len(Stream) + 1 /\ Stream'[i] = Sent
    BY <2>1, FileNumbers DEF Grows
  <2>4. \A f \in Files : EndMet(f) => f < file BY <1>3, SendingEnds DEF EndsSent
  <2>5. \A i \in 1..Len(Stream) : Named(Stream[i]) =>
          /\ Stream[i].file <= file
          /\ Ends(Stream[i]) => Stream[i].file < file
    <3>1. ASSUME NEW i \in 1..Len(Stream), Named(Stream[i]), Ends(Stream[i]) PROVE Stream[i].file < file
      <4>1. Stream[i].file \in Files BY <3>1 DEF Shape, Alternating, Named
      <4>2. i <= i BY FileNumbers
      <4>3. EndMet(Stream[i].file) BY <3>1, <4>2 DEF EndMet
      <4>4. QED BY <2>4, <4>1, <4>3
    <3>2. QED BY <3>1 DEF InTurn
  <2>6. InFile => path <= file /\ (msg.cmd = "END" => path < file)
    <3>1. InFile => path \in Files BY DEF Shape, InStep
    <3>2. InFile /\ msg.cmd = "END" => EndMet(path) BY DEF EndMet
    <3>3. QED BY <2>4, <3>1, <3>2 DEF InTurn
  <2>7. \A k \in 1..Len(acks) : acks[k] < file
    <3>1. \A k \in 1..Len(acks) : EndMet(acks[k]) BY DEF EndMet
    <3>2. QED BY <2>4, <3>1, FileNumbers
  <2>8. file <= file BY FileNumbers
  <2>9. \A i, j \in 1..Len(Stream') : i < j /\ Named(Stream'[i]) /\ Named(Stream'[j]) =>
          /\ Stream'[i].file <= Stream'[j].file
          /\ Ends(Stream'[i]) => Stream'[i].file < Stream'[j].file
    <3>1. SUFFICES ASSUME NEW i \in 1..Len(Stream'), NEW j \in 1..Len(Stream'),
                          i < j, Named(Stream'[i]), Named(Stream'[j])
                   PROVE  /\ Stream'[i].file <= Stream'[j].file
                          /\ Ends(Stream'[i]) => Stream'[i].file < Stream'[j].file
      OBVIOUS
    <3>2. i \in 1..Len(Stream) /\ Stream'[i] = Stream[i]
      <4>1. i # Len(Stream) + 1
        <5>1. Len(Stream') = Len(Stream) + 1 /\ Len(Stream) \in Nat BY <2>1, FileNumbers DEF Grows
        <5>2. QED BY <3>1, <5>1
      <4>2. QED BY <2>3, <4>1
    <3>3. CASE j \in 1..Len(Stream) /\ Stream'[j] = Stream[j] BY <3>1, <3>2, <3>3 DEF InTurn
    <3>4. CASE Stream'[j] = Sent BY <2>1, <2>5, <3>1, <3>2, <3>4
    <3>5. QED BY <2>3, <3>3, <3>4
  <2>10. \A i \in 1..Len(Stream') : Named(Stream'[i]) =>
           /\ Stream'[i].file <= file
           /\ InFile => path <= Stream'[i].file /\ (msg.cmd = "END" => path < Stream'[i].file)
           /\ \A k \in 1..Len(acks) : acks[k] < Stream'[i].file
    <3>1. SUFFICES ASSUME NEW i \in 1..Len(Stream'), Named(Stream'[i])
                   PROVE  /\ Stream'[i].file <= file
                          /\ InFile => path <= Stream'[i].file /\ (msg.cmd = "END" => path < Stream'[i].file)
                          /\ \A k \in 1..Len(acks) : acks[k] < Stream'[i].file
      OBVIOUS
    <3>2. CASE i \in 1..Len(Stream) /\ Stream'[i] = Stream[i] BY <3>1, <3>2 DEF InTurn
    <3>3. CASE Stream'[i] = Sent BY <2>1, <2>6, <2>7, <2>8, <3>3
    <3>4. QED BY <2>3, <3>2, <3>3
  <2>11. (InFile => path <= file /\ \A k \in 1..Len(acks) : acks[k] < path)
         /\ \A i, j \in 1..Len(acks) : i < j => acks[i] < acks[j]
    BY DEF InTurn
  <2>12. QED BY <2>2, <2>9, <2>10, <2>11 DEF InTurn, InFile, Ends, Named, IsHeader
<1>4. CASE SendPayload
  <2>1. Grows(Data(file, chunk, TRUE)) /\ ~IsHeader(Data(file, chunk, TRUE)) BY <1>4, Effects
  <2>2. acks' = acks /\ rpc' = rpc /\ path' = path /\ msg' = msg /\ file' = file
    BY <1>4 DEF SendPayload, rcvVars
  <2>3. \A i \in 1..Len(Stream') : Named(Stream'[i]) => i \in 1..Len(Stream) /\ Stream'[i] = Stream[i]
    <3>1. \A i \in 1..Len(Stream') : i \in 1..Len(Stream) \/ i = Len(Stream) + 1
      BY <2>1, FileNumbers DEF Grows
    <3>2. QED BY <2>1, <3>1 DEF Grows, Named
  <2>4. \A i, j \in 1..Len(Stream') : i < j /\ Named(Stream'[i]) /\ Named(Stream'[j]) =>
          /\ Stream'[i].file <= Stream'[j].file
          /\ Ends(Stream'[i]) => Stream'[i].file < Stream'[j].file
    BY <2>3 DEF InTurn
  <2>5. \A i \in 1..Len(Stream') : Named(Stream'[i]) =>
           /\ Stream'[i].file <= file
           /\ InFile => path <= Stream'[i].file /\ (msg.cmd = "END" => path < Stream'[i].file)
           /\ \A k \in 1..Len(acks) : acks[k] < Stream'[i].file
    BY <2>3 DEF InTurn
  <2>6. (InFile => path <= file /\ \A k \in 1..Len(acks) : acks[k] < path)
         /\ \A i, j \in 1..Len(acks) : i < j => acks[i] < acks[j]
    BY DEF InTurn
  <2>7. QED BY <2>2, <2>4, <2>5, <2>6 DEF InTurn, InFile, Ends, Named, IsHeader
<1>5. CASE EndFile \/ Finish \/ Arrive
  <2>1. Stays BY <1>5, Effects
  <2>2. acks' = acks /\ rpc' = rpc /\ path' = path /\ msg' = msg /\ (file' = file \/ file' = file + 1)
    BY <1>5 DEF EndFile, Finish, Arrive, rcvVars, sndVars
  <2>3. file' \in Nat /\ file <= file' BY <2>2, FileNumbers
  <2>4. QED BY <1>1, <2>1, <2>2, <2>3 DEF InFile
<1>6. CASE Crash
  <2>1. /\ Len(Stream') \in Nat /\ Len(Stream') <= Len(Stream)
        /\ \A i \in 1..Len(Stream') :
              Stream'[i] = Stream[i] \/ (i = Len(Stream') /\ Stream'[i] \in Cut(Stream[i]))
    BY <1>6, StreamBreaks
  <2>2. \A i \in 1..Len(Stream') : i + 0 = i /\ i \in 1..Len(Stream) /\ Stream[i] \in Items
    BY <2>1, FileNumbers
  <2>3. \A i \in 1..Len(Stream') : /\ Ends(Stream'[i]) => Ends(Stream[i])
                                   /\ Named(Stream'[i]) => Named(Stream[i]) /\ Stream'[i].file = Stream[i].file
    BY <2>1, <2>2, CutParts
  <2>4. acks' = acks /\ rpc' = rpc /\ path' = path /\ msg' = msg /\ file' = file BY <1>6 DEF Crash, rcvVars
  <2>5. 0 \in {0, 1, 2} /\ file' \in Nat /\ file <= file' BY <2>4, FileNumbers
  <2>6. \A i \in 1..Len(Stream') :
           /\ i + 0 \in 1..Len(Stream)
           /\ Named(Stream'[i]) => Named(Stream[i + 0]) /\ Stream'[i].file = Stream[i + 0].file
           /\ Ends(Stream'[i]) => Ends(Stream[i + 0])
    BY <2>2, <2>3
  <2>7. QED BY <2>1, <2>4, <2>5, <2>6, InTurnThins DEF InFile
<1>7. CASE StartFile
  <2>1. Drops(1) /\ StringReady BY <1>7, Effects DEF StartFile
  <2>2. /\ IsHeader(Stream[1]) /\ 1 \in 1..Len(Stream)
        /\ Parsed = [cmd |-> Stream[1].cmd, file |-> Stream[1].file, chunk |-> Stream[1].chunk]
    BY <1>7, CommandRead, StringRead DEF StartFile
  <2>3. Parsed.cmd = Stream[1].cmd /\ Parsed.file = Stream[1].file BY <2>2
  <2>4. Named(Stream[1]) /\ (Parsed.cmd = "END" => Ends(Stream[1])) BY <1>7, <2>2, <2>3 DEF StartFile, Named, Ends
  <2>5. acks' = acks /\ path' = Stream[1].file /\ msg' = Parsed /\ file' = file
    BY <1>7, <2>3 DEF StartFile, sndVars
  <2>6. \A i \in 1..Len(Stream') : i + 1 \in 1..Len(Stream) /\ Stream'[i] = Stream[i + 1] /\ 1 < i + 1
    <3>1. Len(Stream') \in Nat BY <2>1, FileNumbers DEF Drops
    <3>2. QED BY <2>1, <3>1 DEF Drops
  <2>7. \A i, j \in 1..Len(Stream') : i < j => i + 1 < j + 1 BY <2>1, FileNumbers DEF Drops
  <2>8. \A i, j \in 1..Len(Stream') : i < j /\ Named(Stream'[i]) /\ Named(Stream'[j]) =>
          /\ Stream'[i].file <= Stream'[j].file
          /\ Ends(Stream'[i]) => Stream'[i].file < Stream'[j].file
    BY <2>6, <2>7 DEF InTurn
  <2>9. \A i \in 1..Len(Stream') : Named(Stream'[i]) =>
           /\ Stream'[i].file <= file
           /\ Stream[1].file <= Stream'[i].file
           /\ Parsed.cmd = "END" => Stream[1].file < Stream'[i].file
           /\ \A k \in 1..Len(acks) : acks[k] < Stream'[i].file
    BY <2>2, <2>4, <2>6 DEF InTurn
  <2>10. Stream[1].file <= file /\ \A k \in 1..Len(acks) : acks[k] < Stream[1].file
    BY <2>2, <2>4 DEF InTurn
  <2>11. \A i, j \in 1..Len(acks) : i < j => acks[i] < acks[j] BY DEF InTurn
  <2>12. QED BY <2>5, <2>8, <2>9, <2>10, <2>11 DEF InTurn, Ends, Named, IsHeader
<1>8. CASE CannotOpen \/ IgnoreString \/ ReturnHeader
  <2>1. acks' = acks /\ rpc' = rpc /\ path' = path /\ msg' = msg /\ file' = file
    BY <1>8 DEF CannotOpen, IgnoreString, ReturnHeader, rcvVars, sndVars
  <2>2. Drops(1) \/ Drops(StringItems) BY <1>8, Effects
  <2>3. StringItems \in {1, 2} BY DEF StringItems
  <2>4. QED BY <1>2, <2>1, <2>2, <2>3 DEF InFile
<1>9. CASE EndOfCommands \/ Abort \/ CheckBytesWaiting \/ Incomplete
  <2>1. Stays BY <1>9, Effects
  <2>2. acks' = acks /\ (InFile' => InFile) /\ path' = path /\ msg' = msg /\ file' = file
    BY <1>9 DEF EndOfCommands, Abort, CheckBytesWaiting, Incomplete, InFile, sndVars
  <2>3. file' \in Nat /\ file <= file' BY <2>2, FileNumbers
  <2>4. QED BY <1>1, <2>1, <2>2, <2>3
<1>10. CASE RecvPayload
  <2>1. Drops(1) BY <1>10, Effects
  <2>2. acks' = acks /\ (InFile' => InFile) /\ path' = path /\ msg' = msg /\ file' = file
    BY <1>10 DEF RecvPayload, InFile, sndVars
  <2>3. QED BY <1>2, <2>1, <2>2
<1>11. CASE Write
  <2>1. Stays BY <1>11, Effects
  <2>2. path' = path /\ msg' = msg /\ InFile /\ file' = file BY <1>11 DEF Write, InFile, sndVars
  <2>3. CASE msg.cmd # "END"
    <3>1. acks' = acks BY <1>11, <2>3 DEF Write
    <3>2. file' \in Nat /\ file <= file' BY <2>2, FileNumbers
    <3>3. QED BY <1>1, <2>1, <2>2, <3>1, <3>2
  <2>4. CASE msg.cmd = "END"
    <3>1. acks' = Append(acks, path) /\ ~InFile' BY <1>11, <2>4 DEF Write, InFile
    <3>2. path \in Files /\ acks \in Seq(Files) BY <2>2 DEF Shape, InStep, Types
    <3>3. /\ Len(acks') = Len(acks) + 1 /\ acks'[Len(acks) + 1] = path
          /\ \A i \in 1..Len(acks) : acks'[i] = acks[i]
      BY <3>1, <3>2, AppendProperties
    <3>4. \A i \in 1..Len(acks') : \/ i \in 1..Len(acks) /\ acks'[i] = acks[i]
                                   \/ i = Len(acks) + 1 /\ acks'[i] = path
      <4>1. Len(acks) \in Nat BY FileNumbers
      <4>2. \A i \in 1..Len(acks') : i \in 1..Len(acks) \/ i = Len(acks) + 1 BY <3>3, <4>1
      <4>3. \A i \in 1..Len(acks) : acks'[i] = acks[i] BY <3>3
      <4>4. \A i : i = Len(acks) + 1 => acks'[i] = path BY <3>3
      <4>5. QED BY <4>2, <4>3, <4>4, Zenon
    <3>5. \A i, j \in 1..Len(acks') : i < j => acks'[i] < acks'[j]
      <4>1. SUFFICES ASSUME NEW i \in 1..Len(acks'), NEW j \in 1..Len(acks'), i < j
                     PROVE  acks'[i] < acks'[j]
        OBVIOUS
      <4>2. i \in 1..Len(acks) /\ acks'[i] = acks[i]
        <5>1. i # Len(acks) + 1 BY <3>3, <4>1, FileNumbers
        <5>2. QED BY <3>4, <5>1
      <4>3. CASE j \in 1..Len(acks) /\ acks'[j] = acks[j] BY <4>1, <4>2, <4>3 DEF InTurn
      <4>4. CASE acks'[j] = path BY <2>2, <4>2, <4>4 DEF InTurn
      <4>5. QED BY <3>4, <4>3, <4>4
    <3>6. \A i \in 1..Len(Stream) : Named(Stream[i]) =>
            /\ Stream[i].file <= file
            /\ \A k \in 1..Len(acks') : acks'[k] < Stream[i].file
      BY <2>2, <2>4, <3>4 DEF InTurn
    <3>7. \A i, j \in 1..Len(Stream) : i < j /\ Named(Stream[i]) /\ Named(Stream[j]) =>
            /\ Stream[i].file <= Stream[j].file
            /\ Ends(Stream[i]) => Stream[i].file < Stream[j].file
      BY DEF InTurn
    <3>8. QED BY <2>1, <2>2, <3>1, <3>5, <3>6, <3>7 DEF InTurn, Stays, Ends, Named, IsHeader
  <2>5. QED BY <2>3, <2>4
<1>12. CASE NextHeader
  <2>1. Drops(StringItems) /\ StringReady /\ InFile /\ path' = path /\ acks' = acks /\ msg' = Parsed
        /\ file' = file
    BY <1>12, Effects DEF NextHeader, InFile, sndVars
  <2>2. StringItems \in {1, 2} BY DEF StringItems
  <2>3. ASSUME Parsed.cmd = "END"
        PROVE  /\ StringItems = 1 /\ 1 \in 1..Len(Stream)
               /\ Ends(Stream[1])
               /\ Named(Stream[1]) \/ Len(Stream) = 1
    <3>1. IsHeader(Stream[1]) /\ 1 \in 1..Len(Stream) /\ StringItems = 1
          /\ Parsed = [cmd |-> Stream[1].cmd, file |-> Stream[1].file, chunk |-> Stream[1].chunk]
      BY <2>1, <2>3, CommandRead, StringRead
    <3>2. Named(Stream[1]) \/ Len(Stream) = 1 BY <3>1 DEF Shape, Alternating
    <3>3. QED BY <2>3, <3>1, <3>2 DEF Ends
  <2>4. \A i \in 1..Len(Stream') :
          /\ i + StringItems \in 1..Len(Stream) /\ Stream'[i] = Stream[i + StringItems]
          /\ 1 < i + StringItems
    <3>1. Len(Stream') \in Nat BY <2>1, <2>2, FileNumbers DEF Drops
    <3>2. QED BY <2>1, <2>2, <3>1 DEF Drops
  <2>5. \A i, j \in 1..Len(Stream') : i < j => i + StringItems < j + StringItems
    BY <2>1, <2>2, FileNumbers DEF Drops
  <2>6. \A i, j \in 1..Len(Stream') : i < j /\ Named(Stream'[i]) /\ Named(Stream'[j]) =>
          /\ Stream'[i].file <= Stream'[j].file
          /\ Ends(Stream'[i]) => Stream'[i].file < Stream'[j].file
    BY <2>4, <2>5 DEF InTurn
  <2>7. \A i \in 1..Len(Stream') : Named(Stream'[i]) =>
           /\ Stream'[i].file <= file
           /\ path <= Stream'[i].file
           /\ \A k \in 1..Len(acks) : acks[k] < Stream'[i].file
    BY <2>1, <2>4 DEF InTurn
  <2>8. ASSUME NEW i \in 1..Len(Stream'), Named(Stream'[i]), Parsed.cmd = "END"
        PROVE  path < Stream'[i].file
    <3>1. Named(Stream[1])
      <4>1. Len(Stream) # 1 BY <2>4, <2>8
      <4>2. QED BY <2>3, <2>8, <4>1
    <3>2. path <= Stream[1].file BY <2>1, <2>3, <2>8, <3>1 DEF InTurn
    <3>3. Stream[1].file < Stream'[i].file
      BY <2>3, <2>4, <2>8, <3>1 DEF InTurn
    <3>4. Stream[1].file \in Nat /\ Stream'[i].file \in Nat /\ path \in Nat BY <2>3, <2>4, <2>8, FileNumbers
    <3>5. QED BY <3>2, <3>3, <3>4
  <2>9. (path <= file /\ \A k \in 1..Len(acks) : acks[k] < path)
         /\ \A i, j \in 1..Len(acks) : i < j => acks[i] < acks[j]
    BY <2>1 DEF InTurn
  <2>10. QED BY <2>1, <2>6, <2>7, <2>8, <2>9 DEF InTurn, Ends, Named, IsHeader
<1>13. QED
  BY <1>3, <1>4, <1>5, <1>6, <1>7, <1>8, <1>9, <1>10, <1>11, <1>12 DEF Next, SenderStep, ReceiverStep

------------------------------------------------------------------------------
(* One file: an acknowledged file has the size of what was sent.             *)

\* What the sender puts at place k of its single file.
HeaderAt(k) == Header(IF k = Chunks[1] THEN "END" ELSE "START", 1, k)

\* How far both ends are in the single file.
LEMMA Counts ==
  ASSUME Types, Shape, Positions, Len(Chunks) = 1, spc # "dead"
  PROVE  /\ Files = {1} /\ Chunks[1] \in Nat /\ Len(Stream) \in Nat
         /\ file \in {1, 2} /\ chunk \in Nat
         /\ ReadItems \in Nat /\ SentItems \in Nat /\ SentItems = ReadItems + Len(Stream)
         /\ SentItems <= 2 * Chunks[1]
         /\ ended # "no" => SentItems = 2 * Chunks[1]
<1>1. Files = {1} /\ Chunks[1] \in Nat
  <2>1. Files = 1..1 /\ Chunks \in Seq(Nat) BY ChunksType
  <2>2. 1 \in 1..Len(Chunks) OBVIOUS
  <2>3. Chunks[1] \in Nat BY <2>1, <2>2, ElementOfSeq
  <2>4. 1..1 = {1} OBVIOUS
  <2>5. QED BY <2>1, <2>3, <2>4
<1>2. Len(Stream) \in Nat /\ chunk \in Nat BY StreamType DEF Types
<1>3. file \in {1, 2} BY DEF Types
<1>4. SentItems \in Int BY <1>1, <1>2 DEF SentItems
<1>5. ReadItems \in Nat /\ SentItems = ReadItems + Len(Stream)
  BY <1>2, <1>4 DEF ReadItems, Positions
<1>6. SentItems <= 2 * Chunks[1]
  <2>1. CASE file = 1
    <3>1. chunk \in 1..(Chunks[1] + 1) /\ (spc = "payload" => chunk <= Chunks[1])
      BY <2>1 DEF Positions, Shape, InStep
    <3>2. QED BY <1>1, <1>2, <2>1, <3>1 DEF SentItems
  <2>2. CASE file = 2 BY <1>1, <2>2 DEF SentItems
  <2>3. QED BY <1>3, <2>1, <2>2
<1>7. ended # "no" => SentItems = 2 * Chunks[1]
  <2>1. ended # "no" => file = 2 BY DEF Positions, Shape, InStep
  <2>2. QED BY <2>1 DEF SentItems
<1>8. SentItems \in Nat BY <1>2, <1>5
<1>9. QED BY <1>1, <1>2, <1>3, <1>5, <1>6, <1>7, <1>8

\* The unread items stay the last ones sent, and only the receiver changes how many
\* have been read.
LEMMA PositionsKept ==
  ASSUME Types, Shape, Positions, Len(Chunks) = 1, spc # "dead", spc' # "dead", Next
  PROVE  /\ Positions'
         /\ SenderStep \/ Arrive => ReadItems' = ReadItems
         /\ \A n \in {1, 2} : spc' = spc /\ file' = file /\ chunk' = chunk /\ Drops(n) => ReadItems' = ReadItems + n
         /\ spc' = spc /\ file' = file /\ chunk' = chunk /\ Stays => ReadItems' = ReadItems
<1>0. plan' = plan /\ Chunks' = Chunks /\ Files' = Files
  <2>1. plan' = plan
    BY DEF Next, SenderStep, ReceiverStep, SendHeader, SendPayload, EndFile, Finish, Crash, Arrive,
       StartFile, CannotOpen, IgnoreString, ReturnHeader, Abort, EndOfCommands, CheckBytesWaiting,
       RecvPayload, Write, NextHeader, Incomplete
  <2>2. QED BY <2>1, ChunksStay
<1>C. /\ Files = {1} /\ Chunks[1] \in Nat /\ Len(Stream) \in Nat
      /\ file \in {1, 2} /\ chunk \in Nat
      /\ ReadItems \in Nat /\ SentItems \in Nat /\ SentItems = ReadItems + Len(Stream)
  BY Counts
<1>P. /\ \A i \in 1..Len(Stream) : \A k \in 1..Chunks[1] :
           /\ ReadItems + i = 2 * k - 1 => Stream[i] = HeaderAt(k)
           /\ ReadItems + i = 2 * k => Stream[i] = Data(1, k, TRUE)
      /\ file = 1 => chunk \in 1..(Chunks[1] + 1)
      /\ spc \in {"finished", "closed"} => file = 2
  BY DEF Positions, HeaderAt
<1>1. ASSUME ReadItems' >= 0,
             file' = 1 => chunk' \in 1..(Chunks[1] + 1),
             spc' \in {"finished", "closed"} => file' = 2,
             \A i \in 1..Len(Stream') : \A k \in 1..Chunks[1] :
               /\ ReadItems' + i = 2 * k - 1 => Stream'[i] = HeaderAt(k)
               /\ ReadItems' + i = 2 * k => Stream'[i] = Data(1, k, TRUE)
      PROVE  Positions'
  BY ZenonT(30), <1>0, <1>1 DEF Positions, HeaderAt
<1>2. ASSUME Stays, SentItems' = SentItems
      PROVE  ReadItems' = ReadItems
  BY <1>2 DEF Stays, ReadItems
<1>3. ASSUME NEW t, Grows(t), SentItems' = SentItems + 1,
             \A k \in 1..Chunks[1] : /\ SentItems + 1 = 2 * k - 1 => t = HeaderAt(k)
                                     /\ SentItems + 1 = 2 * k => t = Data(1, k, TRUE)
      PROVE  /\ ReadItems' = ReadItems
             /\ \A i \in 1..Len(Stream') : \A k \in 1..Chunks[1] :
                  /\ ReadItems' + i = 2 * k - 1 => Stream'[i] = HeaderAt(k)
                  /\ ReadItems' + i = 2 * k => Stream'[i] = Data(1, k, TRUE)
  <2>1. Len(Stream') = Len(Stream) + 1 BY <1>3 DEF Grows
  <2>2. ReadItems' = ReadItems BY <1>3, <1>C, <2>1 DEF ReadItems
  <2>3. SUFFICES ASSUME NEW i \in 1..Len(Stream'), NEW k \in 1..Chunks[1]
                 PROVE  /\ ReadItems + i = 2 * k - 1 => Stream'[i] = HeaderAt(k)
                        /\ ReadItems + i = 2 * k => Stream'[i] = Data(1, k, TRUE)
    BY <2>2
  <2>4. CASE i \in 1..Len(Stream)
    <3>1. Stream'[i] = Stream[i] BY <1>3, <2>4 DEF Grows
    <3>2. QED BY <1>P, <2>4, <3>1
  <2>5. CASE i = Len(Stream) + 1
    <3>1. Stream'[i] = t BY <1>3, <2>5 DEF Grows
    <3>2. ReadItems + i = SentItems + 1 BY <1>C, <2>5
    <3>3. QED BY <1>3, <3>1, <3>2
  <2>6. i \in 1..Len(Stream) \/ i = Len(Stream) + 1 BY <1>C, <2>1, <2>3
  <2>7. QED BY <2>4, <2>5, <2>6
<1>4. CASE SendHeader
  <2>1. Grows(Sent) /\ file = 1 /\ chunk <= Chunks[1] /\ spc = "header" /\ spc' = "payload"
        /\ file' = file /\ chunk' = chunk /\ chunk >= 1
    BY <1>4, <1>C, <1>P, Effects DEF SendHeader
  <2>2. SentItems = 2 * (chunk - 1) /\ SentItems' = 2 * (chunk - 1) + 1 BY <1>0, <2>1, <1>C DEF SentItems
  <2>3. Sent = HeaderAt(chunk) BY <2>1 DEF Sent, HeaderAt
  <2>4. \A k \in 1..Chunks[1] : /\ SentItems + 1 = 2 * k - 1 => k = chunk
                                /\ SentItems + 1 # 2 * k
    BY <1>C, <2>2
  <2>5. ReadItems' = ReadItems
        /\ \A i \in 1..Len(Stream') : \A k \in 1..Chunks[1] :
             /\ ReadItems' + i = 2 * k - 1 => Stream'[i] = HeaderAt(k)
             /\ ReadItems' + i = 2 * k => Stream'[i] = Data(1, k, TRUE)
    BY <1>3, <1>C, <2>1, <2>2, <2>3, <2>4
  <2>6. ReadItems' >= 0 BY <1>C, <2>5
  <2>7. Positions' BY <1>1, <1>P, <2>1, <2>5, <2>6
  <2>8. Len(Stream') = Len(Stream) + 1 BY <2>1 DEF Grows
  <2>9. ~Stays /\ \A n \in {1, 2} : ~Drops(n) BY <1>C, <2>8 DEF Stays, Drops
  <2>10. QED BY <2>5, <2>7, <2>9
<1>5. CASE SendPayload
  <2>1. Grows(Data(1, chunk, TRUE)) /\ file = 1 /\ chunk <= Chunks[1] /\ spc = "payload"
        /\ spc' = "header" /\ file' = file /\ chunk' = chunk + 1 /\ chunk >= 1
    <3>1. file = 1 /\ chunk <= Chunks[1] BY <1>5, <1>C DEF SendPayload, Shape, InStep
    <3>2. Grows(Data(1, chunk, TRUE)) BY <1>5, <3>1, Effects
    <3>3. chunk >= 1 BY <1>P, <1>C, <3>1
    <3>4. QED BY <1>5, <3>1, <3>2, <3>3 DEF SendPayload
  <2>2. SentItems = 2 * (chunk - 1) + 1 /\ SentItems' = 2 * chunk
    BY <1>0, <2>1, <1>C DEF SentItems
  <2>3. \A k \in 1..Chunks[1] : /\ SentItems + 1 # 2 * k - 1
                                /\ SentItems + 1 = 2 * k => k = chunk
    BY <1>C, <2>2
  <2>4. SentItems' = SentItems + 1 BY <1>C, <2>2
  <2>5. chunk' \in 1..(Chunks[1] + 1) BY <1>C, <2>1
  <2>6. ReadItems' = ReadItems
        /\ \A i \in 1..Len(Stream') : \A k \in 1..Chunks[1] :
             /\ ReadItems' + i = 2 * k - 1 => Stream'[i] = HeaderAt(k)
             /\ ReadItems' + i = 2 * k => Stream'[i] = Data(1, k, TRUE)
    BY <1>3, <1>C, <2>1, <2>3, <2>4
  <2>7. ReadItems' >= 0 BY <1>C, <2>6
  <2>8. Positions' BY <1>1, <2>1, <2>5, <2>6, <2>7
  <2>9. Len(Stream') = Len(Stream) + 1 BY <2>1 DEF Grows
  <2>10. ~Stays /\ \A n \in {1, 2} : ~Drops(n) BY <1>C, <2>9 DEF Stays, Drops
  <2>11. QED BY <2>6, <2>8, <2>10
<1>6. CASE EndFile \/ Finish \/ Arrive \/ EndOfCommands \/ Abort \/ CheckBytesWaiting \/ Write \/ Incomplete
  <2>1. Stays BY <1>6, Effects
  <2>2. SentItems' = SentItems /\ (file' = 1 => chunk' \in 1..(Chunks[1] + 1))
        /\ (spc' \in {"finished", "closed"} => file' = 2)
    <3>1. CASE EndFile
      <4>1. file = 1 /\ chunk > Chunks[1] /\ spc = "header" /\ spc' = spc /\ file' = 2 BY <1>C, <3>1 DEF EndFile
      <4>2. chunk = Chunks[1] + 1 BY <1>C, <1>P, <4>1
      <4>3. QED BY <1>0, <1>C, <4>1, <4>2 DEF SentItems
    <3>2. CASE Finish
      <4>1. file = 2 /\ file' = 2 BY <1>C, <3>2 DEF Finish
      <4>2. QED BY <1>0, <4>1 DEF SentItems
    <3>3. CASE Arrive \/ EndOfCommands \/ Abort \/ CheckBytesWaiting \/ Write \/ Incomplete
      <4>1. file' = file /\ chunk' = chunk /\ spc' = spc
        BY <3>3 DEF Arrive, EndOfCommands, Abort, CheckBytesWaiting, Write, Incomplete, sndVars
      <4>2. QED BY <1>0, <1>P, <4>1 DEF SentItems
    <3>4. QED BY <1>6, <3>1, <3>2, <3>3
  <2>3. ReadItems' = ReadItems BY <1>2, <2>1, <2>2
  <2>4. \A i \in 1..Len(Stream') : \A k \in 1..Chunks[1] :
           /\ ReadItems' + i = 2 * k - 1 => Stream'[i] = HeaderAt(k)
           /\ ReadItems' + i = 2 * k => Stream'[i] = Data(1, k, TRUE)
    BY <1>P, <2>1, <2>3 DEF Stays
  <2>5. ReadItems' >= 0 BY <1>C, <2>3
  <2>6. \A n \in {1, 2} : ~Drops(n) BY <1>C, <2>1 DEF Stays, Drops
  <2>7. QED BY <1>1, <2>2, <2>3, <2>4, <2>5, <2>6
<1>7. CASE StartFile \/ CannotOpen \/ ReturnHeader \/ RecvPayload \/ IgnoreString \/ NextHeader
  <2>1. PICK n \in {1, 2} : Drops(n)
    <3>1. StringItems \in {1, 2} BY DEF StringItems
    <3>2. QED BY <1>7, <3>1, Effects
  <2>2. file' = file /\ chunk' = chunk /\ spc' = spc
    BY <1>7 DEF StartFile, CannotOpen, ReturnHeader, RecvPayload, IgnoreString, NextHeader, sndVars
  <2>3. SentItems' = SentItems BY <1>0, <2>2 DEF SentItems
  <2>4. \A m \in {1, 2} : Drops(m) => ReadItems' = ReadItems + m
    BY <1>C, <2>3 DEF Drops, ReadItems
  <2>5. ReadItems' = ReadItems + n BY <2>1, <2>4
  <2>6. \A i \in 1..Len(Stream') : \A k \in 1..Chunks[1] :
           /\ ReadItems' + i = 2 * k - 1 => Stream'[i] = HeaderAt(k)
           /\ ReadItems' + i = 2 * k => Stream'[i] = Data(1, k, TRUE)
    <3>1. \A i \in 1..Len(Stream') : i + n \in 1..Len(Stream) /\ Stream'[i] = Stream[i + n]
      BY <2>1 DEF Drops
    <3>2. \A i \in 1..Len(Stream') : ReadItems' + i = ReadItems + (i + n)
      BY <1>C, <2>1, <2>5 DEF Drops
    <3>3. QED BY ZenonT(30), <1>P, <3>1, <3>2
  <2>7. ReadItems' >= 0 BY <1>C, <2>5
  <2>8. ~Stays BY <1>C, <2>1 DEF Stays, Drops
  <2>9. Len(Stream') # Len(Stream) + 1 /\ Len(Stream') # Len(Stream) BY <1>C, <2>1 DEF Drops
  <2>10. ~SendHeader /\ ~SendPayload /\ ~EndFile /\ ~Finish /\ ~Arrive
    BY <2>8, <2>9, Effects DEF Grows
  <2>11. QED BY <1>1, <1>P, <2>2, <2>4, <2>6, <2>7, <2>8, <2>10 DEF SenderStep
<1>8. ~Crash BY DEF Crash
<1>9. QED BY <1>4, <1>5, <1>6, <1>7, <1>8 DEF Next, SenderStep, ReceiverStep

\* What stands at the head of the stream, by how much was read.
LEMMA NextItem ==
  ASSUME Types, Shape, Positions, Len(Chunks) = 1, spc # "dead", NEW k \in 1..Chunks[1],
         1 \in 1..Len(Stream)
  PROVE  /\ k \in Nat
         /\ ReadItems = 2 * k - 2 => /\ IsHeader(Stream[1]) /\ Stream[1].file = 1 /\ Stream[1].chunk = k
                                     /\ Stream[1].cmd \in {"START", "END"}
                                     /\ (Stream[1].cmd = "END" => k = Chunks[1])
         /\ ReadItems = 2 * k - 1 => ~IsHeader(Stream[1]) /\ Stream[1].whole = TRUE
         /\ ReadItems = 2 * k - 1 /\ Len(Stream) > 1 => k + 1 \in 1..Chunks[1] /\ Stream[2].file = 1 /\ Stream[2].chunk = k + 1
<1>1. /\ Chunks[1] \in Nat /\ Len(Stream) \in Nat /\ ReadItems \in Nat
      /\ SentItems = ReadItems + Len(Stream) /\ SentItems <= 2 * Chunks[1]
  BY Counts
<1>2. k \in Nat BY <1>1
<1>H. \A j \in Nat : /\ HeaderAt(j).type = "header" /\ HeaderAt(j).file = 1 /\ HeaderAt(j).chunk = j
                     /\ HeaderAt(j).cmd \in {"START", "END"} /\ (HeaderAt(j).cmd = "END" => j = Chunks[1])
  BY DEF HeaderAt, Header
<1>3. ASSUME ReadItems = 2 * k - 2 PROVE Stream[1] = HeaderAt(k)
  <2>1. ReadItems + 1 = 2 * k - 1 BY <1>1, <1>2, <1>3
  <2>2. QED BY <2>1 DEF Positions, HeaderAt
<1>4. ASSUME ReadItems = 2 * k - 1 PROVE Stream[1] = Data(1, k, TRUE)
  <2>1. ReadItems + 1 = 2 * k BY <1>1, <1>2, <1>4
  <2>2. QED BY <2>1 DEF Positions
<1>5. ASSUME ReadItems = 2 * k - 1, Len(Stream) > 1 PROVE k + 1 \in 1..Chunks[1] /\ Stream[2] = HeaderAt(k + 1)
  <2>1. k + 1 \in 1..Chunks[1] /\ 2 \in 1..Len(Stream) /\ ReadItems + 2 = 2 * (k + 1) - 1
    BY <1>1, <1>2, <1>5
  <2>2. QED BY <2>1 DEF Positions, HeaderAt
<1>6. Data(1, k, TRUE).type = "data" /\ Data(1, k, TRUE).whole = TRUE BY DEF Data
<1>7. ReadItems = 2 * k - 2 => /\ IsHeader(Stream[1]) /\ Stream[1].file = 1 /\ Stream[1].chunk = k
                               /\ Stream[1].cmd \in {"START", "END"}
                               /\ (Stream[1].cmd = "END" => k = Chunks[1])
  BY <1>2, <1>3, <1>H DEF IsHeader
<1>8. ReadItems = 2 * k - 1 => ~IsHeader(Stream[1]) /\ Stream[1].whole = TRUE
  BY <1>4, <1>6 DEF IsHeader
<1>9. ReadItems = 2 * k - 1 /\ Len(Stream) > 1 =>
        k + 1 \in 1..Chunks[1] /\ Stream[2].file = 1 /\ Stream[2].chunk = k + 1
  <2>1. k + 1 \in Nat BY <1>2
  <2>2. QED BY <1>5, <1>H, <2>1
<1>10. QED BY <1>2, <1>7, <1>8, <1>9

\* When all was read, nothing is left in the stream.
LEMMA AllRead ==
  ASSUME Types, Shape, Positions, Len(Chunks) = 1, spc # "dead", ReadItems = 2 * Chunks[1]
  PROVE  Len(Stream) = 0
BY Counts

\* The size of what is stored depends on nothing but the disk.
LEMMA SizedStays ==
  ASSUME disk' = disk, NEW k, Sized(k) PROVE Sized(k)'
BY DEF Sized

\* Every step keeps the receiver where what it has read puts it.
LEMMA StandsKept ==
  ASSUME Types, Shape, Positions, Stands, Len(Chunks) = 1, spc # "dead", spc' # "dead", Next
  PROVE  Stands'
<1>0. plan' = plan /\ Chunks' = Chunks /\ Files' = Files
  <2>1. plan' = plan
    BY DEF Next, SenderStep, ReceiverStep, SendHeader, SendPayload, EndFile, Finish, Crash, Arrive,
       StartFile, CannotOpen, IgnoreString, ReturnHeader, Abort, EndOfCommands, CheckBytesWaiting,
       RecvPayload, Write, NextHeader, Incomplete
  <2>2. QED BY <2>1, ChunksStay
<1>C. /\ Files = {1} /\ Chunks[1] \in Nat /\ Len(Stream) \in Nat
      /\ ReadItems \in Nat /\ SentItems \in Nat /\ SentItems = ReadItems + Len(Stream)
      /\ SentItems <= 2 * Chunks[1]
      /\ ended # "no" => SentItems = 2 * Chunks[1]
  BY Counts
<1>1. ASSUME ReadItems' = ReadItems, rpc' = rpc, acks' = acks, path' = path, msg' = msg, disk' = disk
      PROVE  Stands'
  BY <1>0, <1>1 DEF Stands, AtCommand, AtChunk, InFile, Sized
<1>2. ASSUME rpc = "command", rpc' = "command", acks' = acks, disk' = disk,
             NEW n \in {1, 2}, Drops(n), ReadItems' = ReadItems + n,
             acks = <<>> => \/ ReadItems' = 2 * Chunks[1]
                            \/ \E k \in 1..Chunks[1] : ReadItems' = 2 * k - 1
      PROVE  Stands'
  <2>1. AtCommand BY <1>2 DEF Stands
  <2>2. CASE acks = <<>> BY <1>0, <1>2, <2>2 DEF Stands, AtCommand, InFile
  <2>3. CASE acks # <<>>
    <3>1. acks = <<1>> /\ Sized(Chunks[1]) /\ ReadItems \in {2 * Chunks[1] - 1, 2 * Chunks[1]}
      BY <2>1, <2>3 DEF AtCommand
    <3>2. n <= Len(Stream) BY <1>2 DEF Drops
    <3>3. ReadItems' = 2 * Chunks[1] BY <1>C, <1>2, <3>1, <3>2
    <3>4. Sized(Chunks[1])' BY <1>0, <1>2, <3>1 DEF Sized
    <3>5. QED BY <1>0, <1>2, <3>1, <3>3, <3>4 DEF Stands, AtCommand, InFile
  <2>4. QED BY <2>2, <2>3
\* A header is only read by a handler that has read nothing yet.
<1>3. ASSUME rpc = "command", StringReady, IsHeader(Stream[1])
      PROVE  /\ acks = <<>> /\ ReadItems = 0 /\ 1 \in 1..Chunks[1]
             /\ Stream[1].file = 1 /\ Stream[1].chunk = 1 /\ Stream[1].cmd \in {"START", "END"}
             /\ (Stream[1].cmd = "END" => Chunks[1] = 1)
  <2>1. AtCommand /\ 1 \in 1..Len(Stream) BY <1>3, StringRead DEF Stands
  <2>2. ReadItems < 2 * Chunks[1] BY <1>C, <2>1
  <2>3. \A k \in 1..Chunks[1] : ReadItems # 2 * k - 1 BY <1>3, <2>1, NextItem
  <2>4. ReadItems # 2 * Chunks[1] - 1
    <3>1. Chunks[1] \in 1..Chunks[1] BY <1>C, <2>2
    <3>2. QED BY <2>3, <3>1
  <2>5. acks = <<>> /\ ReadItems = 0
    <3>1. ReadItems # 2 * Chunks[1] BY <1>C, <2>2
    <3>2. QED BY <2>1, <2>3, <2>4, <3>1 DEF AtCommand
  <2>6. 1 \in 1..Chunks[1] /\ ReadItems = 2 * 1 - 2 BY <1>C, <2>2, <2>5
  <2>7. QED BY <2>1, <2>5, <2>6, NextItem
<1>4. CASE SenderStep \/ Arrive
  <2>1. ReadItems' = ReadItems BY <1>4, PositionsKept
  <2>2. rpc' = rpc /\ acks' = acks /\ path' = path /\ msg' = msg /\ disk' = disk
    BY <1>4 DEF SenderStep, SendHeader, SendPayload, EndFile, Finish, Arrive, rcvVars
  <2>3. QED BY <1>1, <2>1, <2>2
<1>5. CASE StartFile
  <2>1. Drops(1) /\ rpc = "command" /\ StringReady /\ spc' = spc /\ file' = file /\ chunk' = chunk
    BY <1>5, Effects DEF StartFile, sndVars
  <2>2. ReadItems' = ReadItems + 1 BY <2>1, PositionsKept
  <2>3. IsHeader(Stream[1])
        /\ Parsed = [cmd |-> Stream[1].cmd, file |-> Stream[1].file, chunk |-> Stream[1].chunk]
    BY <1>5, CommandRead DEF StartFile
  <2>4. /\ acks = <<>> /\ ReadItems = 0 /\ 1 \in 1..Chunks[1]
        /\ Stream[1].file = 1 /\ Stream[1].chunk = 1 /\ Stream[1].cmd \in {"START", "END"}
        /\ (Stream[1].cmd = "END" => Chunks[1] = 1)
    BY <1>3, <2>1, <2>3
  <2>5. Parsed.file = 1 /\ Parsed.chunk = 1 /\ (Parsed.cmd = "END" => Chunks[1] = 1) BY <2>3, <2>4
  <2>6. rpc' = "check" /\ msg' = Parsed /\ path' = 1 /\ acks' = <<>>
        /\ disk' = [disk EXCEPT ![1] = <<>>]
    BY <1>5, <2>4, <2>5 DEF StartFile
  <2>7. Len(disk'[1]) = 0
    <3>1. 1 \in DOMAIN disk BY <1>C DEF Types
    <3>2. QED BY <2>6, <3>1
  <2>8. Sized(0)' BY <2>7 DEF Sized
  <2>9. AtChunk'
    <3>1. msg'.file = 1 /\ msg'.chunk = 1 /\ (msg'.cmd = "END" => msg'.chunk = Chunks[1])
      BY <2>5, <2>6
    <3>2. ReadItems' = 2 * 1 - 1 BY <2>2, <2>4
    <3>3. rpc' = "check" /\ 1 \in 1..Chunks[1] /\ 1 - 1 = 0 BY <2>4, <2>6
    <3>4. QED BY <1>0, <2>8, <3>1, <3>2, <3>3 DEF AtChunk, Sized
  <2>10. QED BY <2>6, <2>9 DEF Stands, InFile
<1>6. CASE CannotOpen \/ ReturnHeader
  <2>1. Drops(1) /\ rpc = "command" /\ StringReady /\ spc' = spc /\ file' = file /\ chunk' = chunk
        /\ rpc' = rpc /\ acks' = acks /\ disk' = disk
    BY <1>6, Effects DEF CannotOpen, ReturnHeader, sndVars, rcvVars
  <2>2. ReadItems' = ReadItems + 1 BY <2>1, PositionsKept
  <2>3. IsHeader(Stream[1]) BY <1>6, CommandRead DEF CannotOpen, ReturnHeader, Returned, Nameless
  <2>4. acks = <<>> /\ ReadItems = 0 /\ 1 \in 1..Chunks[1] BY <1>3, <2>1, <2>3
  <2>5. ReadItems' = 2 * 1 - 1 BY <2>2, <2>4
  <2>6. QED BY <1>2, <2>1, <2>2, <2>4, <2>5
<1>7. CASE IgnoreString
  <2>1. Drops(StringItems) /\ rpc = "command" /\ StringReady /\ spc' = spc /\ file' = file
        /\ chunk' = chunk /\ rpc' = rpc /\ acks' = acks /\ disk' = disk
        /\ (Parsed.cmd = "" \/ Parsed.file = 0)
    BY <1>7, Effects DEF IgnoreString, Nameless, sndVars, rcvVars
  <2>2. StringItems \in {1, 2} BY DEF StringItems
  <2>3. ReadItems' = ReadItems + StringItems BY <2>1, <2>2, PositionsKept
  <2>4. ~IsHeader(Stream[1])
    <3>1. SUFFICES ASSUME IsHeader(Stream[1]) PROVE FALSE OBVIOUS
    <3>2. Parsed = [cmd |-> Stream[1].cmd, file |-> Stream[1].file, chunk |-> Stream[1].chunk]
      BY <2>1, <3>1, StringRead
    <3>3. Stream[1].file = 1 /\ Stream[1].cmd \in {"START", "END"} BY <1>3, <2>1, <3>1
    <3>4. Parsed.file = 1 /\ Parsed.cmd \in {"START", "END"} BY <3>2, <3>3
    <3>5. Parsed.cmd = "" \/ Parsed.file = 0 BY <2>1
    <3>6. Parsed.cmd # "" BY <3>4
    <3>7. Parsed.file # 0 BY <3>4
    <3>8. QED BY <3>5, <3>6, <3>7
  <2>5. 1 \in 1..Len(Stream) /\ Len(Stream) > 0 BY <2>1, StringRead
  <2>6. ASSUME acks = <<>>
        PROVE  ReadItems' = 2 * Chunks[1] \/ \E k \in 1..Chunks[1] : ReadItems' = 2 * k - 1
    <3>1. ReadItems < 2 * Chunks[1] BY <1>C, <2>5
    <3>2. ReadItems # 0
      <4>1. 1 \in 1..Chunks[1] BY <1>C, <3>1
      <4>2. ReadItems # 2 * 1 - 2 BY <2>4, <2>5, <4>1, NextItem
      <4>3. QED BY <4>2
    <3>3. PICK k \in 1..Chunks[1] : ReadItems = 2 * k - 1
      <4>1. AtCommand BY <2>1 DEF Stands
      <4>2. ReadItems # 2 * Chunks[1] BY <1>C, <3>1
      <4>3. QED BY <2>6, <3>2, <4>1, <4>2 DEF AtCommand
    <3>4. k \in Nat BY <1>C
    <3>5. CASE StringItems = 2 /\ Len(Stream) > 1
      <4>1. k + 1 \in 1..Chunks[1] BY <2>5, <3>3, <3>5, NextItem
      <4>2. ReadItems' = 2 * (k + 1) - 1 BY <1>C, <2>3, <3>3, <3>4, <3>5
      <4>3. QED BY <4>1, <4>2
    <3>6. CASE StringItems = 1 /\ Len(Stream) = 1 /\ ended # "no"
      BY <1>C, <2>3, <3>6
    <3>7. QED BY <2>1, <2>4, <3>5, <3>6, StringRead
  <2>7. QED BY <1>2, <2>1, <2>2, <2>3, <2>6
<1>8. CASE EndOfCommands
  <2>1. AtCommand /\ rpc' = "done" /\ acks' = acks /\ disk' = disk BY <1>8 DEF EndOfCommands, Stands
  <2>2. QED BY <1>0, <2>1 DEF Stands, AtCommand, InFile, Sized
<1>A. CASE Abort
  <2>1. rpc \in {"command", "more"} /\ rpc' = "aborted" /\ acks' = acks /\ disk' = disk BY <1>A DEF Abort
  <2>2. acks = <<>> \/ (acks = <<1>> /\ Sized(Chunks[1])) BY <2>1 DEF Stands, AtCommand, InFile
  <2>3. QED BY <1>0, <2>1, <2>2 DEF Stands, InFile, Sized
<1>9. CASE CheckBytesWaiting
  <2>1. Stays /\ spc' = spc /\ file' = file /\ chunk' = chunk BY <1>9, Effects DEF CheckBytesWaiting, sndVars
  <2>2. ReadItems' = ReadItems BY <2>1, PositionsKept
  <2>3. rpc = "check" /\ rpc' \in {"write", "recv"} /\ msg' = msg /\ path' = path /\ disk' = disk
        /\ acks' = acks
    BY <1>9 DEF CheckBytesWaiting
  <2>4. acks = <<>> /\ path = 1 /\ AtChunk BY <2>3 DEF Stands, InFile
  <2>5. AtChunk' BY <1>0, <2>2, <2>3, <2>4 DEF AtChunk, Sized, NoCommand
  <2>6. QED BY <2>3, <2>4, <2>5 DEF Stands, InFile
<1>10. CASE RecvPayload
  <2>1. Drops(1) /\ spc' = spc /\ file' = file /\ chunk' = chunk BY <1>10, Effects DEF RecvPayload, sndVars
  <2>2. ReadItems' = ReadItems + 1 BY <2>1, PositionsKept
  <2>3. rpc = "recv" /\ rpc' \in {"write", "spin"} /\ msg' = msg /\ path' = path /\ disk' = disk
        /\ acks' = acks
    BY <1>10 DEF RecvPayload
  <2>4. acks = <<>> /\ path = 1 /\ AtChunk BY <2>3 DEF Stands, InFile
  <2>5. ReadItems < 2 * Chunks[1] BY <1>C, <2>1 DEF Drops
  <2>6. /\ msg.file = 1 /\ msg.chunk \in 1..Chunks[1]
        /\ msg.cmd = "END" => msg.chunk = Chunks[1]
        /\ ReadItems = 2 * msg.chunk - 1
        /\ Sized(msg.chunk - 1)
    BY <1>C, <2>3, <2>4, <2>5 DEF AtChunk
  <2>7. ReadItems' = 2 * msg.chunk BY SMTT(30), <1>C, <2>2, <2>6
  <2>8. rpc' = "write" => AtChunk' BY <1>0, <2>3, <2>6, <2>7 DEF AtChunk, Sized
  <2>9. QED BY <2>3, <2>4, <2>8 DEF Stands, InFile
<1>11. CASE Write
  <2>1. Stays /\ spc' = spc /\ file' = file /\ chunk' = chunk BY <1>11, Effects DEF Write, sndVars
  <2>2. ReadItems' = ReadItems BY <2>1, PositionsKept
  <2>3. acks = <<>> /\ path = 1 /\ AtChunk BY <1>11 DEF Write, Stands, InFile
  <2>4. rpc = "write" /\ msg' = msg /\ path' = path /\ disk' = [disk EXCEPT ![1] = @ \o Written]
    BY <1>11, <2>3 DEF Write
  <2>5. CASE msg = NoCommand(0, 0) /\ ReadItems = 2 * Chunks[1]
    <3>1. msg.cmd = "" BY <2>5 DEF NoCommand
    <3>2. rpc' = "more" /\ acks' = acks BY <1>11, <3>1 DEF Write
    <3>3. AtChunk' BY <1>0, <2>2, <2>4, <2>5 DEF AtChunk, NoCommand
    <3>4. QED BY <2>3, <2>4, <3>2, <3>3 DEF Stands, InFile
  <2>6. CASE /\ msg.file = 1 /\ msg.chunk \in 1..Chunks[1]
             /\ msg.cmd = "END" => msg.chunk = Chunks[1]
             /\ ReadItems \in {2 * msg.chunk - 1, 2 * msg.chunk}
             /\ Sized(msg.chunk - 1)
    <3>1. Written = <<[sized |-> <<1, msg.chunk>>, data |-> buffer]>>
      BY <1>C, <2>6 DEF Written
    <3>2. disk'[1] = disk[1] \o <<[sized |-> <<1, msg.chunk>>, data |-> buffer]>>
      BY <1>C, <2>4, <3>1 DEF Types
    <3>3. disk[1] \in Seq(Pieces) /\ [sized |-> <<1, msg.chunk>>, data |-> buffer] \in Pieces
          /\ msg.chunk \in Nat
      <4>1. disk[1] \in Seq(Pieces) /\ buffer \in Items BY <1>C DEF Types
      <4>2. msg.chunk \in Nat BY <1>C, <2>6
      <4>3. QED BY <4>1, <4>2 DEF Pieces
    <3>4. \A s \in Seq(Pieces) : \A p \in Pieces :
            /\ Len(s) \in Nat /\ Len(s \o <<p>>) = Len(s) + 1
            /\ (s \o <<p>>)[Len(s) + 1] = p
            /\ \A i \in 1..Len(s) : (s \o <<p>>)[i] = s[i]
      OBVIOUS
    <3>5. Len(disk[1]) = msg.chunk - 1 /\ \A j \in 1..(msg.chunk - 1) : disk[1][j].sized = <<1, j>>
      BY <2>6 DEF Sized
    <3>6. /\ Len(disk'[1]) = msg.chunk
          /\ disk'[1][msg.chunk] = [sized |-> <<1, msg.chunk>>, data |-> buffer]
          /\ \A j \in 1..(msg.chunk - 1) : disk'[1][j] = disk[1][j]
      <4>. DEFINE p == [sized |-> <<1, msg.chunk>>, data |-> buffer]
                  s == disk[1]
      <4>1. s \in Seq(Pieces) /\ p \in Pieces /\ disk'[1] = s \o <<p>> /\ Len(s) = msg.chunk - 1
        BY <3>2, <3>3, <3>5
      <4>. HIDE DEF p, s
      <4>2. /\ Len(s \o <<p>>) = Len(s) + 1 /\ (s \o <<p>>)[Len(s) + 1] = p
            /\ \A i \in 1..Len(s) : (s \o <<p>>)[i] = s[i]
        BY <3>4, <4>1
      <4>3. Len(s) + 1 = msg.chunk BY <3>3, <4>1
      <4>4. Len(disk'[1]) = msg.chunk /\ disk'[1][msg.chunk] = p
            /\ \A j \in 1..(msg.chunk - 1) : disk'[1][j] = s[j]
        BY <4>1, <4>2, <4>3
      <4>5. QED BY <4>4 DEF p, s
    <3>7. \A j \in 1..msg.chunk : disk'[1][j].sized = <<1, j>>
      <4>1. \A j \in 1..msg.chunk : j = msg.chunk \/ j \in 1..(msg.chunk - 1) BY <3>3
      <4>2. \A j : j = msg.chunk => disk'[1][j].sized = <<1, j>> BY <3>6
      <4>3. \A j \in 1..(msg.chunk - 1) : disk'[1][j].sized = <<1, j>> BY <3>5, <3>6
      <4>4. QED BY <4>1, <4>2, <4>3
    <3>8. \A k : k = msg.chunk => Sized(k)' BY <3>6, <3>7 DEF Sized
    <3>9. CASE msg.cmd = "END"
      <4>1. rpc' = "command" /\ acks' = Append(acks, path) BY <1>11, <3>9 DEF Write
      <4>2. acks' = <<1>> BY <2>3, <4>1
      <4>3. msg.chunk = Chunks[1] BY <2>6, <3>9
      <4>4. Sized(Chunks[1])' BY <1>0, <3>8, <4>3 DEF Sized
      <4>5. AtCommand' BY <1>0, <2>2, <2>6, <4>2, <4>3, <4>4 DEF AtCommand
      <4>6. QED BY <4>1, <4>5 DEF Stands, InFile
    <3>10. CASE msg.cmd # "END"
      <4>1. rpc' = "more" /\ acks' = acks BY <1>11, <3>10 DEF Write
      <4>2. AtChunk' BY <1>0, <2>2, <2>4, <2>6, <3>8, <4>1 DEF AtChunk, Sized
      <4>3. QED BY <2>3, <2>4, <4>1, <4>2 DEF Stands, InFile
    <3>11. QED BY <3>9, <3>10
  <2>7. QED BY <2>3, <2>4, <2>5, <2>6 DEF AtChunk
<1>12. CASE NextHeader
  <2>1. Drops(StringItems) /\ StringReady /\ rpc = "more" /\ rpc' = "check" /\ spc' = spc
        /\ file' = file /\ chunk' = chunk /\ path' = path /\ acks' = acks /\ msg' = Parsed
        /\ disk' = disk
    BY <1>12, Effects DEF NextHeader, sndVars
  <2>2. StringItems \in {1, 2} BY DEF StringItems
  <2>3. ReadItems' = ReadItems + StringItems BY <2>1, <2>2, PositionsKept
  <2>4. acks = <<>> /\ path = 1 /\ AtChunk BY <2>1 DEF Stands, InFile
  <2>5. 1 \in 1..Len(Stream) /\ Len(Stream) > 0 BY <2>1, StringRead
  <2>6. ReadItems < 2 * Chunks[1] BY <1>C, <2>5
  <2>7. /\ msg.chunk \in 1..Chunks[1] /\ msg.chunk \in Nat
        /\ ReadItems \in {2 * msg.chunk - 1, 2 * msg.chunk}
        /\ Sized(msg.chunk)
    <3>1. ReadItems # 2 * Chunks[1] BY <1>C, <2>6
    <3>2. QED BY <1>C, <2>1, <2>4, <3>1 DEF AtChunk
  <2>8. ASSUME NEW k \in Nat, k = msg.chunk + 1, k \in 1..Chunks[1], Parsed.file = 1, Parsed.chunk = k,
               Parsed.cmd = "END" => k = Chunks[1], ReadItems' = 2 * k - 1
        PROVE  AtChunk'
    <3>1. k - 1 = msg.chunk BY <2>7, <2>8
    <3>2. Sized(k - 1)' BY <2>1, <2>7, <3>1 DEF Sized
    <3>3. QED BY <1>0, <2>1, <2>8, <3>2 DEF AtChunk, Sized
  <2>9. AtChunk'
    <3>1. CASE IsHeader(Stream[1])
      <4>1. StringItems = 1
            /\ Parsed = [cmd |-> Stream[1].cmd, file |-> Stream[1].file, chunk |-> Stream[1].chunk]
        BY <2>1, <3>1, StringRead
      <4>2. ReadItems = 2 * msg.chunk
        <5>1. ReadItems # 2 * msg.chunk - 1 BY <2>5, <2>7, <3>1, NextItem
        <5>2. QED BY <2>7, <5>1
      <4>3. msg.chunk + 1 \in 1..Chunks[1] /\ msg.chunk + 1 \in Nat
            /\ ReadItems = 2 * (msg.chunk + 1) - 2
        BY SMTT(30), <1>C, <2>6, <2>7, <4>2
      <4>4. /\ Stream[1].file = 1 /\ Stream[1].chunk = msg.chunk + 1
            /\ (Stream[1].cmd = "END" => msg.chunk + 1 = Chunks[1])
        BY <2>5, <4>3, NextItem
      <4>5. Parsed.file = 1 /\ Parsed.chunk = msg.chunk + 1
            /\ (Parsed.cmd = "END" => msg.chunk + 1 = Chunks[1])
        BY <4>1, <4>4
      <4>6. ReadItems' = 2 * (msg.chunk + 1) - 1 BY <2>3, <2>7, <4>1, <4>2
      <4>7. QED BY <2>8, <4>3, <4>5, <4>6
    <3>2. CASE ~IsHeader(Stream[1])
      <4>1. ReadItems = 2 * msg.chunk - 1
        <5>1. SUFFICES ASSUME ReadItems = 2 * msg.chunk PROVE FALSE BY <2>7
        <5>2. msg.chunk + 1 \in 1..Chunks[1] /\ ReadItems = 2 * (msg.chunk + 1) - 2
          BY SMTT(30), <1>C, <2>6, <2>7, <5>1
        <5>3. QED BY <2>5, <3>2, <5>2, NextItem
      <4>2. CASE /\ StringItems = 2 /\ Len(Stream) > 1
                 /\ Parsed = NoCommand(Stream[2].file, Stream[2].chunk)
        <5>1. msg.chunk + 1 \in 1..Chunks[1] /\ Stream[2].file = 1 /\ Stream[2].chunk = msg.chunk + 1
          BY <2>5, <2>7, <4>1, <4>2, NextItem
        <5>2. Parsed.file = 1 /\ Parsed.chunk = msg.chunk + 1 /\ Parsed.cmd = ""
          BY <4>2, <5>1 DEF NoCommand
        <5>3. ReadItems' = 2 * (msg.chunk + 1) - 1 /\ msg.chunk + 1 \in Nat BY <2>3, <2>7, <4>1, <4>2
        <5>4. QED BY <2>8, <5>1, <5>2, <5>3
      <4>3. CASE StringItems = 1 /\ Len(Stream) = 1 /\ ended # "no" /\ Parsed = NoCommand(0, 0)
        <5>1. ReadItems' = 2 * Chunks[1] BY <1>C, <2>3, <4>3
        <5>2. QED BY <1>0, <2>1, <4>3, <5>1 DEF AtChunk, NoCommand
      <4>4. QED BY <2>1, <3>2, <4>2, <4>3, StringRead
    <3>3. QED BY <3>1, <3>2
  <2>10. QED BY <2>1, <2>4, <2>9 DEF Stands, InFile
<1>13. CASE Incomplete
  <2>1. Stays /\ spc' = spc /\ file' = file /\ chunk' = chunk BY <1>13, Effects DEF Incomplete, sndVars
  <2>2. ReadItems' = ReadItems BY <2>1, PositionsKept
  <2>3. acks = <<>> BY <1>13 DEF Incomplete, Stands, InFile
  <2>4. Len(Stream) = 0 /\ ended # "no" BY <1>13, StreamHead DEF Incomplete, AtEnd
  <2>5. ReadItems = 2 * Chunks[1] BY <1>C, <2>4
  <2>6. rpc' = "command" /\ acks' = acks BY <1>13 DEF Incomplete
  <2>7. QED BY <1>0, <2>2, <2>3, <2>5, <2>6 DEF Stands, AtCommand, InFile
<1>14. ~Crash BY DEF Crash
<1>15. QED
  BY <1>4, <1>5, <1>6, <1>7, <1>8, <1>A, <1>9, <1>10, <1>11, <1>12, <1>13, <1>14 DEF Next, ReceiverStep

------------------------------------------------------------------------------
(* The invariant, and what it says.                                          *)

\* A header is only enqueued as it came when it is the last item: the sender has died
\* in it, and nothing follows.
LEMMA QueuedKept ==
  ASSUME Types, Shape, Queued, Next
  PROVE  Queued'
<1>L. Len(Stream) \in Nat BY StreamType
<1>1. CASE ReturnHeader
  <2>1. /\ IsHeader(Stream[1]) /\ 1 \in 1..Len(Stream)
        /\ Parsed = [cmd |-> Stream[1].cmd, file |-> Stream[1].file, chunk |-> Stream[1].chunk]
        /\ Parsed.file = 0
    BY <1>1, CommandRead, StringRead DEF ReturnHeader, Returned, Nameless
  <2>2. Stream[1].file = 0 BY <2>1
  <2>3. 1 = Len(Stream) /\ spc = "dead" BY <2>1, <2>2 DEF Shape, Alternating, Named
  <2>4. Drops(1) /\ spc' = spc /\ returned' = returned + 1 BY <1>1, Effects DEF ReturnHeader, sndVars
  <2>5. Len(Stream') = 0 BY <2>3, <2>4 DEF Drops
  <2>6. returned = 0 BY <2>3 DEF Queued
  <2>7. QED BY <2>3, <2>4, <2>5, <2>6 DEF Queued
<1>2. CASE ~ReturnHeader
  <2>1. returned' = returned
    BY <1>2 DEF Next, SenderStep, ReceiverStep, SendHeader, SendPayload, EndFile, Finish, Crash, Arrive,
       StartFile, CannotOpen, IgnoreString, Abort, EndOfCommands, CheckBytesWaiting,
       RecvPayload, Write, NextHeader, Incomplete, rcvVars
  <2>2. ASSUME spc = "dead", Len(Stream) = 0 PROVE spc' = "dead" /\ Len(Stream') = 0
    <3>1. ~SenderStep /\ ~Crash
      BY <2>2 DEF SenderStep, SendHeader, SendPayload, EndFile, Finish, Crash
    <3>2. CASE Arrive \/ EndOfCommands \/ Abort \/ CheckBytesWaiting \/ Write \/ Incomplete
      <4>1. Stays BY <3>2, Effects
      <4>2. spc' = spc
        BY <3>2 DEF Arrive, EndOfCommands, Abort, CheckBytesWaiting, Write, Incomplete, sndVars
      <4>3. QED BY <2>2, <4>1, <4>2 DEF Stays
    <3>3. CASE StartFile \/ CannotOpen \/ RecvPayload \/ IgnoreString \/ NextHeader
      <4>1. Drops(1) \/ Drops(StringItems) BY <3>3, Effects
      <4>2. StringItems \in {1, 2} BY DEF StringItems
      <4>3. QED BY <2>2, <4>1, <4>2 DEF Drops
    <3>4. QED BY <1>2, <3>1, <3>2, <3>3 DEF Next, ReceiverStep
  <2>3. QED BY <2>1, <2>2 DEF Queued
<1>3. QED BY <1>1, <1>2

\* It holds at first.
LEMMA InitIInv == Init => IInv
<1>. SUFFICES ASSUME Init PROVE IInv OBVIOUS
<1>1. Stream = <<>> /\ Len(Stream) = 0 /\ acks = <<>> /\ Len(acks) = 0
  BY DEF Init, Stream
<1>2. rpc = "command" /\ spc = "header" /\ file = 1 /\ chunk = 1 /\ ended = "no" /\ path = 0
  BY DEF Init
<1>3. Chunks \in Seq(Nat) /\ Files = 1..Len(Chunks) /\ Len(Chunks) \in Nat
  <2>1. Chunks \in Seq(Nat) BY PlansAssumption DEF Init, Chunks
  <2>2. QED BY <2>1 DEF Files
<1>4. Types
  <2>1. Garbage \in Items /\ NoCommand(0, 0) \in Headers BY ItemMade DEF Garbage, NoCommand, Headers
  <2>2. wire \in Seq(Items) /\ inbox \in Seq(Items) /\ acks \in Seq(Files) BY DEF Init
  <2>3. disk \in [Files -> Seq(Pieces)]
    <3>1. <<>> \in Seq(Pieces) OBVIOUS
    <3>2. QED BY <3>1 DEF Init
  <2>4. file \in 1..(Len(Chunks) + 1) /\ chunk \in Nat BY <1>2, <1>3
  <2>5. QED BY <1>2, <2>1, <2>2, <2>3, <2>4 DEF Init, Types
<1>5. Shape BY <1>1, <1>2 DEF Shape, Alternating, InStep, InFile
<1>6. EndsSent
  <2>1. \A i : i \notin 1..0 OBVIOUS
  <2>2. QED BY <1>1, <1>2, <2>1 DEF EndsSent, EndMet, InFile
<1>7. InTurn BY <1>1, <1>2 DEF InTurn, InFile
<1>8. OneFile
  <2>1. SUFFICES ASSUME Len(Chunks) = 1 PROVE Positions /\ Stands BY DEF OneFile
  <2>2. Chunks[1] \in Nat
    <3>1. 1 \in 1..Len(Chunks) BY <2>1
    <3>2. QED BY <1>3, <3>1, ElementOfSeq
  <2>3. ReadItems = 0
    <3>1. SentItems = 0 BY <1>2 DEF SentItems
    <3>2. Len(Stream) = 0 BY <1>1
    <3>3. ReadItems = SentItems - Len(Stream) BY DEF ReadItems
    <3>4. QED BY <3>1, <3>2, <3>3
  <2>4. Positions BY <1>1, <1>2, <2>2, <2>3 DEF Positions
  <2>5. Stands BY <1>1, <1>2, <2>3 DEF Stands, AtCommand, InFile
  <2>6. QED BY <2>4, <2>5
<1>9. Queued BY DEF Init, Queued
<1>10. QED BY <1>4, <1>5, <1>6, <1>7, <1>8, <1>9 DEF IInv

\* Every step keeps it.
LEMMA StepIInv == IInv /\ [Next]_vars => IInv'
<1>. SUFFICES ASSUME IInv, [Next]_vars PROVE IInv' OBVIOUS
<1>0. Types /\ Shape /\ EndsSent /\ InTurn /\ OneFile /\ Queued BY DEF IInv
<1>1. CASE Next
  <2>1. Types' BY <1>0, <1>1, TypesKept
  <2>2. Shape' BY <1>0, <1>1, AlternatingKept, InStepKept DEF Shape
  <2>3. EndsSent' BY <1>0, <1>1, EndsSentKept
  <2>4. InTurn' BY <1>0, <1>1, InTurnKept
  <2>5. OneFile'
    <3>1. Chunks' = Chunks
      <4>1. plan' = plan
        BY <1>1 DEF Next, SenderStep, ReceiverStep, SendHeader, SendPayload, EndFile, Finish, Crash,
           Arrive, StartFile, CannotOpen, IgnoreString, ReturnHeader, Abort, EndOfCommands, CheckBytesWaiting,
           RecvPayload, Write, NextHeader, Incomplete
      <4>2. QED BY <4>1, ChunksStay
    <3>2. spc = "dead" => spc' = "dead"
      BY <1>1 DEF Next, SenderStep, ReceiverStep, SendHeader, SendPayload, EndFile, Finish, Crash,
         Arrive, StartFile, CannotOpen, IgnoreString, ReturnHeader, Abort, EndOfCommands, CheckBytesWaiting,
         RecvPayload, Write, NextHeader, Incomplete, sndVars
    <3>3. SUFFICES ASSUME Len(Chunks) = 1, spc' # "dead" PROVE Positions' /\ Stands'
      BY <3>1 DEF OneFile
    <3>4. spc # "dead" /\ Positions /\ Stands BY <1>0, <3>2, <3>3 DEF OneFile
    <3>5. QED BY <1>0, <1>1, <3>3, <3>4, PositionsKept, StandsKept
  <2>6. Queued' BY <1>0, <1>1, QueuedKept
  <2>7. QED BY <2>1, <2>2, <2>3, <2>4, <2>5, <2>6 DEF IInv
<1>2. CASE UNCHANGED vars
  <2>1. Stream' = Stream /\ Chunks' = Chunks /\ Files' = Files
    BY <1>2, ChunksStay DEF vars, Stream
  <2>2. /\ plan' = plan /\ file' = file /\ chunk' = chunk /\ spc' = spc /\ wire' = wire
        /\ inbox' = inbox /\ ended' = ended /\ rpc' = rpc /\ msg' = msg /\ path' = path
        /\ buffer' = buffer /\ disk' = disk /\ acks' = acks /\ returned' = returned
    BY <1>2 DEF vars, sndVars, rcvVars
  <2>3. Types' BY <1>0, <2>1, <2>2 DEF Types
  <2>4. Shape' BY <1>0, <2>1, <2>2 DEF Shape, Alternating, InStep, InFile, IsHeader, Named
  <2>5. EndsSent'
    BY <1>0, <2>1, <2>2 DEF EndsSent, EndMet, EndSent, InFile, IsHeader, Named, Ends
  <2>6. InTurn' BY <1>0, <2>1, <2>2 DEF InTurn, InFile, IsHeader, Named, Ends
  <2>7. OneFile'
    BY ZenonT(30), <1>0, <2>1, <2>2 DEF OneFile, Positions, Stands, AtCommand, AtChunk, InFile, ReadItems,
       SentItems, Sized
  <2>8. Queued' BY <1>0, <2>1, <2>2 DEF Queued
  <2>9. QED BY <2>3, <2>4, <2>5, <2>6, <2>7, <2>8 DEF IInv
<1>3. QED BY <1>1, <1>2

\* A payload is read where one stands: what the types lack.
LEMMA TypesSuffice == ASSUME IInv PROVE TypeOK
<1>0. Types /\ Shape BY DEF IInv
<1>1. ASSUME rpc = "recv", inbox # <<>> PROVE inbox[1].type = "data"
  <2>1. 1 \in 1..Len(inbox) BY <1>0, <1>1, BothEnds
  <2>2. 1 \in 1..Len(Stream) /\ Stream[1] = inbox[1] BY <1>0, <2>1, StreamHead
  <2>3. ~IsHeader(Stream[1])
    <3>1. Len(Stream) # 0 BY <1>0, <2>2, StreamType
    <3>2. QED BY <1>0, <1>1, <3>1 DEF Shape, InStep
  <2>4. inbox[1] \in Items BY <1>0, <2>1, BothEnds
  <2>5. QED BY <2>2, <2>3, <2>4, ItemParts
<1>2. QED BY <1>0, <1>1 DEF Types, TypeOK, Headers

\* Acknowledgements follow the END headers, in order.
LEMMA AcksFollow == ASSUME IInv PROVE AckAfterEnd
<1>0. Types /\ EndsSent /\ InTurn BY DEF IInv
<1>1. \A i, j \in 1..Len(acks) : i < j => acks[i] < acks[j] BY <1>0 DEF InTurn
<1>2. ASSUME NEW i \in 1..Len(acks)
      PROVE  \/ file > acks[i]
             \/ /\ file = acks[i]
                /\ chunk > Chunks[file] \/ (chunk = Chunks[file] /\ spc \in {"payload", "dead"})
  <2>1. acks[i] \in Files BY <1>0, FileNumbers
  <2>2. EndSent(acks[i]) BY <1>0, <2>1 DEF EndsSent, EndMet
  <2>3. QED BY <2>2 DEF EndSent
<1>3. QED BY <1>1, <1>2 DEF AckAfterEnd

\* An acknowledged single file has its size.
LEMMA AcksSized == ASSUME IInv PROVE AckImpliesSize
<1>0. Types /\ Shape /\ OneFile BY DEF IInv
<1>1. SUFFICES ASSUME Len(Chunks) = 1, spc # "dead", NEW i \in 1..Len(acks)
               PROVE  [k \in 1..Len(disk[acks[i]]) |-> disk[acks[i]][k].sized] = Content(acks[i])
  BY DEF AckImpliesSize
<1>2. Positions /\ Stands BY <1>0, <1>1 DEF OneFile
<1>3. acks # <<>> BY <1>1
<1>4. acks = <<1>> /\ Sized(Chunks[1])
  BY <1>0, <1>2, <1>3 DEF Stands, AtCommand, InFile, Types
<1>5. acks[i] = 1 BY <1>1, <1>4
<1>6. Len(disk[1]) = Chunks[1] /\ \A j \in 1..Chunks[1] : disk[1][j].sized = <<1, j>>
  BY <1>4 DEF Sized
<1>7. [k \in 1..Len(disk[1]) |-> disk[1][k].sized] = [k \in 1..Chunks[1] |-> <<1, k>>]
  BY <1>6
<1>8. QED BY <1>5, <1>7 DEF Content

\* What is enqueued beside acknowledgements.
LEMMA HeadersReturned == ASSUME IInv PROVE NothingElseQueued
BY DEF IInv, Queued, NothingElseQueued

\* The invariant is inductive.
THEOREM Inductive == Spec => []IInv
<1>1. QED BY InitIInv, StepIInv, PTL DEF Spec

\* For every plan, and wherever the stream is cut or late, the state stays in its types,
\* payloads are read where payloads stand, acknowledgements come in the order of the
\* files after their last headers, one for a single file means that it has the size of
\* what was sent, and only the header in which the sender died is returned.
THEOREM TransfersAlwaysSafe == Spec => []TransferSafe
<1>1. IInv => TransferSafe BY TypesSuffice, AcksFollow, AcksSized, HeadersReturned DEF TransferSafe
<1>2. QED BY <1>1, Inductive, PTL
------------------------------------------------------------------------------
(* The faultless transfer: what makes it implement module Transfer.          *)

\* A header or payload a is sent before b; no chunk of any file lies between the two.
Before(a, b) == a.file < b.file \/ (a.file = b.file /\ a.chunk < b.chunk)
Chunk(f, k) == [file |-> f, chunk |-> k]
Gap(c, a, b) ==
  /\ Before(a, b)
  /\ \A f \in 1..Len(c) : \A k \in 1..c[f] : ~(Before(a, Chunk(f, k)) /\ Before(Chunk(f, k), b))

\* The item t is what comes after a.
Link(c, a, t) == IF IsHeader(t) THEN Gap(c, a, t) ELSE t.file = a.file /\ t.chunk = a.chunk

\* The item t is one that sendFile sends, and nothing of it was lost.
Proper(c, t) ==
  /\ t.file \in 1..Len(c) /\ t.chunk \in 1..c[t.file]
  /\ IsHeader(t) => t.cmd = IF t.chunk = c[t.file] THEN "END" ELSE "START"
  /\ ~IsHeader(t) => t.whole

\* What the sender would send next, if there is a chunk there.
Cursor == IF spc = "payload" THEN Data(file, chunk, TRUE) ELSE Header("", file, chunk)

\* The first k chunks of f are what the disk d stores for it.
Holds(d, f, k) == Len(d[f]) = k /\ \A j \in 1..k : d[f][j].data = Data(f, j, TRUE)

\* The stream was not cut, and a header and its payload arrive together.
Unbroken == /\ spc # "dead" /\ ended # "rst"
            /\ Len(inbox) > 0 => ~IsHeader(inbox[Len(inbox)])
            /\ Len(wire) > 0 => IsHeader(wire[1])
            /\ spc = "payload" => Len(wire) > 0

\* From the header read last over the unread items to what is sent next, nothing is
\* left out.
Chained ==
  /\ chunk >= 1
  /\ spc \in {"finished", "closed"} => file \notin Files
  /\ \A i \in 1..Len(Stream) : Proper(Chunks, Stream[i])
  /\ \A i \in 1..(Len(Stream) - 1) : Link(Chunks, Stream[i], Stream[i + 1])
  /\ Len(Stream) > 0 => Link(Chunks, msg, Stream[1]) /\ Link(Chunks, Stream[Len(Stream)], Cursor)
  /\ Len(Stream) = 0 => Link(Chunks, msg, Cursor)

\* The receiver is in step with the stream, and holds what it has read.
Reading ==
  /\ rpc # "spin"
  /\ rpc \in {"command", "done"} =>
       \/ msg.file = 0 /\ msg.chunk = 0
       \/ msg.file \in Files /\ msg.chunk = Chunks[msg.file]
  /\ InFile => /\ path = msg.file /\ path \in Files /\ msg.chunk \in 1..Chunks[path]
               /\ msg.cmd = IF msg.chunk = Chunks[path] THEN "END" ELSE "START"
               /\ Holds(disk, path, IF rpc = "more" THEN msg.chunk ELSE msg.chunk - 1)
  /\ rpc \in {"check", "recv"} => Len(inbox) > 0
  /\ rpc \in {"command", "write", "more"} /\ Len(Stream) > 0 => IsHeader(Stream[1])
  /\ rpc = "write" => buffer = Data(msg.file, msg.chunk, TRUE)
  /\ rpc = "more" => msg.cmd # "END"

\* Every file up to the one read last is acknowledged, unless it is empty or still
\* being written, and what is acknowledged is stored whole.
Acknowledged ==
  /\ \A g \in Files : Chunks[g] > 0 /\ (g < msg.file \/ (g = msg.file /\ ~InFile)) =>
       \E i \in 1..Len(acks) : acks[i] = g
  /\ \A i \in 1..Len(acks) : Holds(disk, acks[i], Chunks[acks[i]])

Whole == Faultless => Unbroken /\ Chained /\ Reading /\ Acknowledged

\* Where nothing lies between a and b, and b is a chunk, b is the chunk after a of the
\* same file, or the first one of the next file that has any.
LEMMA GapNext ==
  ASSUME NEW c \in Seq(Nat), NEW a, NEW b, Gap(c, a, b),
         a.file \in 1..Len(c), a.chunk \in Nat, a.chunk < c[a.file], b.file \in Nat, b.chunk \in Nat
  PROVE  \/ b.file = a.file /\ b.chunk = a.chunk + 1
         \/ ~(b.file > Len(c)) /\ ~(b.file \in 1..Len(c) /\ b.chunk \in 1..c[b.file])
<1>1. c[a.file] \in Nat /\ Len(c) \in Nat BY ElementOfSeq, LenProperties
<1>2. a.file \in Nat BY <1>1
<1>3. a.chunk + 1 \in 1..c[a.file] BY <1>1
<1>4. Before(a, Chunk(a.file, a.chunk + 1)) BY <1>1, <1>2 DEF Before, Chunk
<1>5. ~Before(Chunk(a.file, a.chunk + 1), b) BY <1>3, <1>4 DEF Gap
<1>6. Before(a, b) BY DEF Gap
<1>7. QED BY <1>1, <1>2, <1>5, <1>6 DEF Before, Chunk

\* After the last chunk of a file comes the first one of a later file, and the files
\* between them are empty; so it is at the beginning.
LEMMA GapFirst ==
  ASSUME NEW c \in Seq(Nat), NEW a, NEW b, Gap(c, a, b),
         \/ a.file = 0 /\ a.chunk = 0
         \/ a.file \in 1..Len(c) /\ a.chunk = c[a.file],
         b.file \in 1..Len(c), b.chunk \in 1..c[b.file]
  PROVE  /\ b.chunk = 1
         /\ \A g \in 1..Len(c) : g > a.file /\ g < b.file => c[g] = 0
<1>1. Len(c) \in Nat /\ \A g \in 1..Len(c) : c[g] \in Nat /\ g \in Nat BY ElementOfSeq, LenProperties
<1>2. a.file \in Nat /\ a.chunk \in Nat /\ b.file \in Nat /\ b.chunk \in Nat /\ c[b.file] \in Nat BY SMTT(30), <1>1
<1>3. a.file < b.file
  <2>1. Before(a, b) BY DEF Gap
  <2>2. ~(a.file = b.file /\ a.chunk < b.chunk) BY <1>1, <1>2
  <2>3. QED BY <2>1, <2>2 DEF Before
<1>4. b.chunk = 1
  <2>1. 1 \in 1..c[b.file] BY <1>1, <1>2
  <2>2. Before(a, Chunk(b.file, 1)) BY <1>3 DEF Before, Chunk
  <2>3. ~Before(Chunk(b.file, 1), b) BY <2>1, <2>2 DEF Gap
  <2>4. QED BY <1>2, <2>3 DEF Before, Chunk
<1>5. ASSUME NEW g \in 1..Len(c), g > a.file, g < b.file PROVE c[g] = 0
  <2>1. SUFFICES ASSUME c[g] # 0 PROVE FALSE OBVIOUS
  <2>2. 1 \in 1..c[g] BY <1>1, <2>1
  <2>3. Before(a, Chunk(g, 1)) /\ Before(Chunk(g, 1), b) BY <1>1, <1>2, <1>5 DEF Before, Chunk
  <2>4. QED BY <2>2, <2>3 DEF Gap
<1>6. QED BY <1>4, <1>5

\* On to the next file, or to the next chunk, nothing is left out.
LEMMA GapSteps ==
  ASSUME NEW c \in Seq(Nat), NEW a, NEW b, NEW d, a.file \in Nat, a.chunk \in Nat,
         b.file \in 1..Len(c), b.chunk \in Nat
  PROVE  /\ Gap(c, a, b) /\ b.chunk > c[b.file] /\ d.file = b.file + 1 /\ d.chunk = 1 => Gap(c, a, d)
         /\ a.file = b.file /\ a.chunk = b.chunk /\ d.file = b.file /\ d.chunk = b.chunk + 1 => Gap(c, a, d)
<1>1. Len(c) \in Nat /\ \A g \in 1..Len(c) : c[g] \in Nat /\ g \in Nat BY ElementOfSeq, LenProperties
<1>2. b.file \in Nat /\ c[b.file] \in Nat BY <1>1
<1>3. ASSUME Gap(c, a, b), b.chunk > c[b.file], d.file = b.file + 1, d.chunk = 1
      PROVE  Gap(c, a, d)
  <2>1. Before(a, d) BY <1>2, <1>3 DEF Gap, Before
  <2>2. ASSUME NEW f \in 1..Len(c), NEW k \in 1..c[f], Before(a, Chunk(f, k)), Before(Chunk(f, k), d)
        PROVE  FALSE
    <3>1. k \in Nat /\ f \in Nat /\ k >= 1 /\ k <= c[f] /\ c[f] \in Nat BY <1>1
    <3>2. f <= b.file BY <1>2, <1>3, <2>2, <3>1 DEF Before, Chunk
    <3>3. f = b.file => k < b.chunk BY <1>2, <1>3, <3>1
    <3>4. Before(Chunk(f, k), b) BY <1>2, <3>1, <3>2, <3>3 DEF Before, Chunk
    <3>5. QED BY <1>3, <2>2, <3>4 DEF Gap
  <2>3. QED BY <2>1, <2>2 DEF Gap
<1>4. ASSUME a.file = b.file, a.chunk = b.chunk, d.file = b.file, d.chunk = b.chunk + 1
      PROVE  Gap(c, a, d)
  <2>1. Before(a, d) BY <1>2, <1>4 DEF Before
  <2>2. ASSUME NEW f \in 1..Len(c), NEW k \in 1..c[f], Before(a, Chunk(f, k)), Before(Chunk(f, k), d)
        PROVE  FALSE
    <3>1. k \in Nat /\ f \in Nat BY <1>1
    <3>2. QED BY <1>2, <1>4, <2>2, <3>1 DEF Before, Chunk
  <2>3. QED BY <2>1, <2>2 DEF Gap
<1>5. QED BY <1>3, <1>4

\* Only the places of two items matter for what lies between them.
LEMMA GapPlaces ==
  ASSUME NEW c, NEW a, NEW b, NEW x, NEW y, x.file = a.file, x.chunk = a.chunk,
         y.file = b.file, y.chunk = b.chunk, Gap(c, a, b)
  PROVE  Gap(c, x, y)
BY DEF Gap, Before

\* Only the place of what was read last matters for what comes after it.
LEMMA LinkPlaces ==
  ASSUME NEW c, NEW a, NEW t, NEW x, x.file = a.file, x.chunk = a.chunk, Link(c, a, t)
  PROVE  Link(c, x, t)
BY GapPlaces DEF Link

\* A faultless transfer stays one: nobody dies, and every file can be created.
LEMMA FaultlessSteps ==
  ASSUME Types, Faultless, Next
  PROVE  Faultless' /\ Chunks' = Chunks /\ Files' = Files /\ ~Crash /\ ~CannotOpen
<1>1. plan' = plan
  BY DEF Next, SenderStep, ReceiverStep, SendHeader, SendPayload, EndFile, Finish, Crash, Arrive,
     StartFile, CannotOpen, IgnoreString, ReturnHeader, Abort, EndOfCommands, CheckBytesWaiting,
     RecvPayload, Write, NextHeader, Incomplete
<1>2. ~Crash /\ ~CannotOpen BY DEF Faultless, Crash, CannotOpen
<1>3. QED BY <1>1, <1>2, ChunksStay DEF Faultless

\* In a faultless transfer a handler that waits for a command meets a header of the
\* sender's, so that it ignores nothing.
LEMMA NothingIgnored ==
  ASSUME Types, Chained, Reading, StringReady, rpc \in {"command", "more"}
  PROVE  /\ IsHeader(Stream[1]) /\ 1 \in 1..Len(Stream) /\ Proper(Chunks, Stream[1]) /\ StringItems = 1
         /\ Parsed = [cmd |-> Stream[1].cmd, file |-> Stream[1].file, chunk |-> Stream[1].chunk]
         /\ Parsed.cmd # "" /\ Parsed.file # 0
         /\ Link(Chunks, msg, Stream[1]) /\ Gap(Chunks, msg, Stream[1])
<1>1. Len(Stream) > 0 /\ 1 \in 1..Len(Stream) BY StringRead
<1>2. IsHeader(Stream[1]) BY <1>1 DEF Reading
<1>3. StringItems = 1
      /\ Parsed = [cmd |-> Stream[1].cmd, file |-> Stream[1].file, chunk |-> Stream[1].chunk]
  BY <1>2, StringRead
<1>4. Proper(Chunks, Stream[1]) BY <1>1 DEF Chained
<1>5. Stream[1].cmd # "" /\ Stream[1].file # 0
  <2>1. Len(Chunks) \in Nat BY ChunksType, LenProperties
  <2>2. Stream[1].cmd \in {"START", "END"} /\ Stream[1].file \in 1..Len(Chunks) BY <1>2, <1>4 DEF Proper
  <2>3. Stream[1].file # 0 BY <2>1, <2>2
  <2>4. QED BY <2>2, <2>3
<1>6. Link(Chunks, msg, Stream[1]) BY <1>1 DEF Chained
<1>7. QED BY <1>1, <1>2, <1>3, <1>4, <1>5, <1>6 DEF Link

\* So it passes over no string, returns no header and meets no end in a string.
LEMMA NothingWrong ==
  ASSUME Types, Unbroken, Chained, Reading
  PROVE  ~IgnoreString /\ ~ReturnHeader /\ ~Abort
<1>1. ~IgnoreString BY NothingIgnored DEF IgnoreString, Nameless
<1>2. ~ReturnHeader BY NothingIgnored DEF ReturnHeader, Returned, Nameless
<1>3. ASSUME Abort PROVE FALSE
  <2>1. rpc \in {"command", "more"} /\ StringReady /\ EndsShort BY <1>3 DEF Abort
  <2>2. IsHeader(Stream[1]) /\ StringItems = 1 BY <2>1, NothingIgnored
  <2>3. Len(inbox) = 1 /\ inbox[1].type = "data" BY <2>1, <2>2 DEF EndsShort, Unbroken
  <2>4. Stream[1] = inbox[1]
    <3>1. 1 \in 1..Len(inbox) BY <2>3
    <3>2. QED BY <3>1, StreamHead
  <2>5. QED BY <2>2, <2>3, <2>4 DEF IsHeader
<1>4. QED BY <1>1, <1>2, <1>3

\* What waits in the inbox with a header in front has its payload with it.
LEMMA InPairs ==
  ASSUME Types, Unbroken, Len(inbox) > 0, IsHeader(Stream[1])
  PROVE  Len(inbox) > 1
<1>1. Len(inbox) \in Nat /\ 1 \in 1..Len(inbox) BY BothEnds
<1>2. Stream[1] = inbox[1] BY <1>1, StreamHead
<1>3. Len(inbox) # 1 BY <1>2 DEF Unbroken
<1>4. \A n \in Nat : n > 0 /\ n # 1 => n > 1 OBVIOUS
<1>5. QED BY <1>1, <1>3, <1>4, Zenon

\* In a faultless transfer what arrives is a header with its payload.
LEMMA PairArrives ==
  ASSUME Types, Shape, Faultless, Unbroken, Arrive
  PROVE  /\ Len(wire) > 1 /\ IsHeader(wire[1]) /\ ~IsHeader(wire[2])
         /\ inbox' = inbox \o SubSeq(wire, 1, 2)
         /\ wire' = SubSeq(wire, 3, Len(wire))
         /\ Len(wire) > 2 => IsHeader(wire[3])
         /\ spc = "payload" => Len(wire) > 2
<1>1. Len(wire) \in Nat /\ Len(inbox) \in Nat /\ Len(wire) > 0 /\ Len(Stream) = Len(inbox) + Len(wire)
  BY BothEnds DEF Arrive
<1>2. \A j \in 1..Len(wire) : Len(inbox) + j \in 1..Len(Stream) /\ Stream[Len(inbox) + j] = wire[j]
  BY <1>1, BothEnds
<1>3. \A j \in 1..(Len(wire) - 1) : IsHeader(wire[j]) <=> ~IsHeader(wire[j + 1])
  <2>1. SUFFICES ASSUME NEW j \in 1..(Len(wire) - 1) PROVE IsHeader(wire[j]) <=> ~IsHeader(wire[j + 1])
    OBVIOUS
  <2>2. Len(inbox) + j \in 1..(Len(Stream) - 1) /\ (Len(inbox) + j) + 1 = Len(inbox) + (j + 1)
        /\ j \in 1..Len(wire) /\ j + 1 \in 1..Len(wire)
    BY <1>1, <2>1
  <2>3. IsHeader(Stream[Len(inbox) + j]) <=> ~IsHeader(Stream[(Len(inbox) + j) + 1])
    BY <2>2 DEF Shape, Alternating
  <2>4. QED BY <1>2, <2>2, <2>3
<1>4. IsHeader(wire[1]) BY <1>1 DEF Unbroken
<1>5. IsHeader(wire[Len(wire)]) <=> spc = "payload"
  <2>1. Len(Stream) > 0 /\ spc # "dead" BY <1>1 DEF Unbroken
  <2>2. Len(wire) \in 1..Len(wire) BY <1>1
  <2>3. Stream[Len(Stream)] = wire[Len(wire)] BY <1>1, <1>2, <2>2
  <2>4. QED BY <2>1, <2>3 DEF Shape, Alternating
<1>6. Segment = 2 BY <1>4 DEF Segment, Faultless, IsHeader
<1>7. Len(wire) > 1
  <2>0. \A n \in Nat : n > 0 /\ n # 1 => n > 1 OBVIOUS
  <2>1. SUFFICES ASSUME Len(wire) = 1 PROVE FALSE BY <1>1, <2>0, Zenon
  <2>2. ended # "no" BY <1>6, <2>1 DEF Arrive
  <2>3. spc # "payload" BY <2>2 DEF Shape, InStep
  <2>4. QED BY <1>4, <1>5, <2>1, <2>3
<1>8. ~IsHeader(wire[2])
  <2>1. 1 \in 1..(Len(wire) - 1) BY <1>1, <1>7
  <2>2. QED BY <1>3, <1>4, <2>1
<1>9. Len(wire) > 2 => IsHeader(wire[3])
  <2>1. Len(wire) > 2 => 2 \in 1..(Len(wire) - 1) BY <1>1
  <2>2. QED BY <1>3, <1>8, <2>1
<1>10. spc = "payload" => Len(wire) > 2 BY <1>1, <1>5, <1>7, <1>8
<1>11. inbox' = inbox \o SubSeq(wire, 1, 2) /\ wire' = SubSeq(wire, 3, Len(wire))
  <2>1. Segment <= Len(wire) BY <1>1, <1>6, <1>7
  <2>2. QED BY <1>6, <2>1 DEF Arrive
<1>12. QED BY <1>4, <1>7, <1>8, <1>9, <1>10, <1>11

\* The stream stays unbroken, header by header with its payload.
LEMMA UnbrokenKept ==
  ASSUME Types, Shape, Faultless, Unbroken, Chained, Reading, Next
  PROVE  Unbroken'
<1>0. ~Crash /\ ~CannotOpen BY FaultlessSteps
<1>W. wire \in Seq(Items) /\ inbox \in Seq(Items) /\ Len(wire) \in Nat /\ Len(inbox) \in Nat BY BothEnds
<1>1. ASSUME NEW n \in {1, 2}, n <= Len(inbox), Drop(n), wire' = wire, spc' = spc, ended' = ended
      PROVE  Unbroken'
  <2>1. n \in 0..Len(inbox) BY <1>1, <1>W
  <2>2. /\ Len(inbox') = Len(inbox) - n
        /\ \A i \in 1..(Len(inbox) - n) : inbox'[i] = inbox[i + n]
    BY <1>W, <1>1, <2>1, CutSequence DEF Drop
  <2>3. Len(inbox') > 0 => Len(inbox') \in 1..(Len(inbox) - n) /\ Len(inbox') + n = Len(inbox)
        /\ Len(inbox) > 0
    BY <1>W, <1>1, <2>2
  <2>4. Len(inbox') > 0 => inbox'[Len(inbox')] = inbox[Len(inbox)] BY <2>2, <2>3
  <2>5. QED BY <1>1, <2>3, <2>4 DEF Unbroken, IsHeader
<1>2. CASE SendHeader
  <2>1. Sent \in Items /\ IsHeader(Sent) /\ wire' = Append(wire, Sent) /\ inbox' = inbox
        /\ spc' = "payload" /\ ended' = ended
    BY <1>2, Effects DEF SendHeader, Sent
  <2>2. Len(wire') = Len(wire) + 1 /\ (\A i \in 1..Len(wire) : wire'[i] = wire[i])
        /\ wire'[Len(wire) + 1] = Sent
    BY <1>W, <2>1, AppendProperties
  <2>3. Len(wire') > 0 BY <1>W, <2>2
  <2>4. IsHeader(wire'[1])
    <3>1. CASE Len(wire) = 0 BY <2>1, <2>2, <3>1
    <3>2. CASE Len(wire) > 0
      <4>1. 1 \in 1..Len(wire) BY <1>W, <3>2
      <4>2. QED BY <2>2, <3>2, <4>1 DEF Unbroken
    <3>3. QED BY <1>W, <3>1, <3>2
  <2>5. QED BY <2>1, <2>3, <2>4 DEF Unbroken, IsHeader
<1>3. CASE SendPayload
  <2>1. Data(file, chunk, TRUE) \in Items
    <3>1. file \in Nat /\ chunk \in Nat BY ChunksType DEF Types
    <3>2. QED BY <3>1, ItemMade
  <2>2. wire' = Append(wire, Data(file, chunk, TRUE)) /\ inbox' = inbox /\ spc' = "header"
        /\ ended' = ended /\ Len(wire) > 0
    BY <1>3 DEF SendPayload, Unbroken
  <2>3. \A i \in 1..Len(wire) : wire'[i] = wire[i] BY <1>W, <2>1, <2>2, AppendProperties
  <2>4. wire'[1] = wire[1]
    <3>1. 1 \in 1..Len(wire) BY <1>W, <2>2
    <3>2. QED BY <2>3, <3>1
  <2>5. QED BY <2>2, <2>4 DEF Unbroken, IsHeader
<1>4. CASE EndFile
  BY <1>4 DEF EndFile, Unbroken, IsHeader
<1>5. CASE Finish
  BY <1>5 DEF Finish, Unbroken, IsHeader
<1>6. CASE Arrive
  <2>1. /\ Len(wire) > 1 /\ ~IsHeader(wire[2])
        /\ inbox' = inbox \o SubSeq(wire, 1, 2)
        /\ wire' = SubSeq(wire, 3, Len(wire))
        /\ Len(wire) > 2 => IsHeader(wire[3])
        /\ spc = "payload" => Len(wire) > 2
    BY <1>6, PairArrives
  <2>2. 2 \in 0..Len(wire) BY <1>W, <2>1
  <2>3. /\ SubSeq(wire, 1, 2) \in Seq(Items) /\ Len(SubSeq(wire, 1, 2)) = 2
        /\ \A i \in 1..2 : SubSeq(wire, 1, 2)[i] = wire[i]
        /\ Len(SubSeq(wire, 2 + 1, Len(wire))) = Len(wire) - 2
        /\ \A i \in 1..(Len(wire) - 2) : SubSeq(wire, 2 + 1, Len(wire))[i] = wire[i + 2]
    <3>1. \A n \in 0..Len(wire) :
            /\ SubSeq(wire, 1, n) \in Seq(Items) /\ Len(SubSeq(wire, 1, n)) = n
            /\ \A i \in 1..n : SubSeq(wire, 1, n)[i] = wire[i]
            /\ Len(SubSeq(wire, n + 1, Len(wire))) = Len(wire) - n
            /\ \A i \in 1..(Len(wire) - n) : SubSeq(wire, n + 1, Len(wire))[i] = wire[i + n]
      BY <1>W, CutSequence
    <3>2. QED BY <2>2, <3>1, Zenon
  <2>4. Len(inbox') = Len(inbox) + 2 /\ inbox'[Len(inbox) + 2] = wire[2]
    <3>1. /\ Len(inbox \o SubSeq(wire, 1, 2)) = Len(inbox) + Len(SubSeq(wire, 1, 2))
          /\ \A i \in 1..(Len(inbox) + Len(SubSeq(wire, 1, 2))) : (inbox \o SubSeq(wire, 1, 2))[i] =
                IF i <= Len(inbox) THEN inbox[i] ELSE SubSeq(wire, 1, 2)[i - Len(inbox)]
      BY <1>W, <2>3, ConcatProperties
    <3>2. Len(inbox) + 2 \in 1..(Len(inbox) + 2) /\ ~(Len(inbox) + 2 <= Len(inbox))
          /\ (Len(inbox) + 2) - Len(inbox) = 2 /\ 2 \in 1..2
      BY <1>W
    <3>3. QED BY <2>1, <2>3, <3>1, <3>2
  <2>5. ~IsHeader(inbox'[Len(inbox')]) BY <2>1, <2>4
  <2>6. Len(wire') = Len(wire) - 2 /\ (Len(wire') > 0 => wire'[1] = wire[3])
    <3>1. 2 + 1 = 3 OBVIOUS
    <3>2. Len(wire) - 2 > 0 => 1 \in 1..(Len(wire) - 2) /\ 1 + 2 = 3 BY <1>W
    <3>3. QED BY <2>1, <2>3, <3>1, <3>2
  <2>7. Len(wire') > 0 <=> Len(wire) > 2 BY <1>W, <2>6
  <2>8. spc' = spc /\ ended' = ended BY <1>6 DEF Arrive, sndVars
  <2>9. QED BY <2>1, <2>5, <2>6, <2>7, <2>8 DEF Unbroken, IsHeader
<1>N. ~IgnoreString /\ ~ReturnHeader /\ ~Abort BY NothingWrong
<1>7. CASE StartFile \/ NextHeader
  <2>1. StringReady BY <1>7 DEF StartFile, NextHeader
  <2>2. StringItems \in {1, 2} /\ StringItems <= Len(inbox) /\ 1 <= Len(inbox)
    BY <1>W, <2>1, StringRead DEF StringItems
  <2>3. (Drop(1) \/ Drop(StringItems)) /\ wire' = wire /\ spc' = spc /\ ended' = ended
    BY <1>7 DEF StartFile, NextHeader, sndVars
  <2>4. QED BY <1>1, <2>2, <2>3
<1>8. CASE RecvPayload
  <2>1. Drop(1) /\ wire' = wire /\ spc' = spc /\ ended' = ended BY <1>8 DEF RecvPayload, sndVars
  <2>2. 1 <= Len(inbox) BY <1>8, BothEnds DEF RecvPayload
  <2>3. QED BY <1>1, <2>1, <2>2
<1>9. CASE EndOfCommands \/ Abort \/ CheckBytesWaiting \/ Write \/ Incomplete
  BY <1>9 DEF EndOfCommands, Abort, CheckBytesWaiting, Write, Incomplete, sndVars, Unbroken, IsHeader
<1>10. QED
  BY <1>0, <1>2, <1>3, <1>4, <1>5, <1>6, <1>N, <1>7, <1>8, <1>9 DEF Next, SenderStep, ReceiverStep

\* The place of the sender.
LEMMA CursorPlace ==
  ASSUME Types
  PROVE  /\ Cursor.file = file /\ Cursor.chunk = chunk /\ (IsHeader(Cursor) <=> spc # "payload")
         /\ file \in Nat /\ chunk \in Nat /\ Chunks \in Seq(Nat) /\ Len(Chunks) \in Nat
<1>1. file \in Nat /\ chunk \in Nat /\ Chunks \in Seq(Nat) /\ Len(Chunks) \in Nat
  BY ChunksType, LenProperties DEF Types
<1>2. CASE spc = "payload"
  <2>1. Cursor = Data(file, chunk, TRUE) BY <1>2 DEF Cursor
  <2>2. Cursor.file = file /\ Cursor.chunk = chunk /\ ~IsHeader(Cursor) BY <2>1 DEF Data, IsHeader
  <2>3. QED BY <1>1, <1>2, <2>2
<1>3. CASE spc # "payload"
  <2>1. Cursor = Header("", file, chunk) BY <1>3 DEF Cursor
  <2>2. Cursor.file = file /\ Cursor.chunk = chunk /\ IsHeader(Cursor) BY <2>1 DEF Header, IsHeader
  <2>3. QED BY <1>1, <1>3, <2>2
<1>4. QED BY <1>2, <1>3

\* Chained, for a state in which the sender has added an item t to the stream.
LEMMA ChainGrows ==
  ASSUME Types, Chained, NEW t, Grows(t), Chunks' = Chunks, Files' = Files, msg' = msg,
         Proper(Chunks, t), IsHeader(t) <=> IsHeader(Cursor), t.file = file, t.chunk = chunk,
         Link(Chunks, t, Cursor'), chunk' >= 1, spc' \notin {"finished", "closed"}
  PROVE  Chained'
<1>L. Len(Stream) \in Nat /\ Len(Stream') = Len(Stream) + 1 /\ Stream'[Len(Stream) + 1] = t
      /\ \A i \in 1..Len(Stream) : Stream'[i] = Stream[i]
  BY StreamType DEF Grows
<1>1. \A a : Link(Chunks, a, Cursor) => Link(Chunks, a, t)
  BY CursorPlace, GapPlaces DEF Link
<1>2. \A i \in 1..Len(Stream') : i \in 1..Len(Stream) \/ i = Len(Stream) + 1 BY <1>L
<1>3. \A i \in 1..Len(Stream') : Proper(Chunks, Stream'[i])
  <2>1. \A i \in 1..Len(Stream) : Proper(Chunks, Stream'[i]) BY <1>L DEF Chained
  <2>2. Proper(Chunks, Stream'[Len(Stream) + 1]) BY <1>L
  <2>3. QED BY <1>2, <2>1, <2>2
<1>4. ASSUME NEW i \in 1..(Len(Stream') - 1) PROVE Link(Chunks, Stream'[i], Stream'[i + 1])
  <2>1. i \in 1..Len(Stream) /\ Stream'[i] = Stream[i] BY <1>L, <1>4
  <2>2. CASE i = Len(Stream)
    <3>1. Len(Stream) > 0 BY <1>L, <2>1
    <3>2. Link(Chunks, Stream[i], Cursor) BY <2>2, <3>1 DEF Chained
    <3>3. Link(Chunks, Stream[i], t) BY <1>1, <3>2
    <3>4. Stream'[i + 1] = t BY <1>L, <2>2
    <3>5. QED BY <2>1, <3>3, <3>4
  <2>3. CASE i # Len(Stream)
    <3>1. i \in 1..(Len(Stream) - 1) /\ i + 1 \in 1..Len(Stream) BY <1>L, <2>1, <2>3
    <3>2. QED BY <1>L, <2>1, <3>1 DEF Chained
  <2>4. QED BY <2>2, <2>3
<1>5. Link(Chunks, msg, Stream'[1])
  <2>1. CASE Len(Stream) = 0
    <3>1. Link(Chunks, msg, Cursor) BY <2>1 DEF Chained
    <3>2. Stream'[1] = t BY <1>L, <2>1
    <3>3. QED BY <1>1, <3>1, <3>2
  <2>2. CASE Len(Stream) # 0
    <3>1. 1 \in 1..Len(Stream) /\ Len(Stream) > 0 BY <1>L, <2>2
    <3>2. QED BY <1>L, <3>1 DEF Chained
  <2>3. QED BY <2>1, <2>2
<1>6. Link(Chunks, Stream'[Len(Stream')], Cursor') BY <1>L
<1>7. Len(Stream') > 0 /\ Len(Stream') # 0 BY <1>L
<1>8. QED BY <1>3, <1>4, <1>5, <1>6, <1>7 DEF Chained

\* Chained, for a state in which the receiver has taken n items and last knows m.
LEMMA ChainDrops ==
  ASSUME Types, Chained, NEW n \in {1, 2}, Drops(n), Chunks' = Chunks, Files' = Files,
         spc' = spc, file' = file, chunk' = chunk,
         msg'.file = Stream[n].file, msg'.chunk = Stream[n].chunk
  PROVE  Chained'
<1>L. Len(Stream) \in Nat /\ Len(Stream') \in Nat /\ Len(Stream') = Len(Stream) - n /\ n <= Len(Stream)
  BY StreamType DEF Drops
<1>D. \A i \in 1..Len(Stream') : i + n \in 1..Len(Stream) /\ Stream'[i] = Stream[i + n] BY DEF Drops
<1>C. Cursor' = Cursor BY DEF Cursor
<1>1. \A i \in 1..Len(Stream') : Proper(Chunks, Stream'[i]) BY <1>D DEF Chained
<1>2. ASSUME NEW i \in 1..(Len(Stream') - 1) PROVE Link(Chunks, Stream'[i], Stream'[i + 1])
  <2>1. i \in 1..Len(Stream') /\ i + 1 \in 1..Len(Stream') /\ i + n \in 1..(Len(Stream) - 1)
        /\ (i + 1) + n = (i + n) + 1
    BY <1>L, <1>2
  <2>2. Stream'[i] = Stream[i + n] /\ Stream'[i + 1] = Stream[(i + n) + 1]
    <3>1. Stream'[i] = Stream[i + n] /\ Stream'[i + 1] = Stream[(i + 1) + n] BY <1>D, <2>1, Zenon
    <3>2. QED BY <2>1, <3>1
  <2>3. QED BY <2>1, <2>2 DEF Chained
<1>3. ASSUME Len(Stream') > 0
      PROVE  Link(Chunks, msg', Stream'[1]) /\ Link(Chunks, Stream'[Len(Stream')], Cursor)
  <2>1. 1 \in 1..Len(Stream') /\ Len(Stream') \in 1..Len(Stream') /\ n \in 1..(Len(Stream) - 1)
        /\ 1 + n = n + 1 /\ Len(Stream') + n = Len(Stream) /\ Len(Stream) > 0
    BY <1>L, <1>3
  <2>2. Stream'[1] = Stream[n + 1] /\ Stream'[Len(Stream')] = Stream[Len(Stream)] BY <1>D, <2>1
  <2>3. Link(Chunks, Stream[n], Stream[n + 1]) BY <2>1 DEF Chained
  <2>4. Link(Chunks, msg', Stream[n + 1]) BY <2>3, LinkPlaces
  <2>5. Link(Chunks, Stream[Len(Stream)], Cursor) BY <2>1 DEF Chained
  <2>6. QED BY <2>2, <2>4, <2>5
<1>4. ASSUME Len(Stream') = 0 PROVE Link(Chunks, msg', Cursor)
  <2>1. Len(Stream) = n /\ Len(Stream) > 0 BY <1>L, <1>4
  <2>2. Link(Chunks, Stream[n], Cursor) BY <2>1 DEF Chained
  <2>3. QED BY <2>2, LinkPlaces
<1>5. chunk' >= 1 /\ (spc' \in {"finished", "closed"} => file' \notin Files') BY DEF Chained
<1>6. QED BY <1>C, <1>1, <1>2, <1>3, <1>4, <1>5 DEF Chained

\* Nothing is left out by a step.
LEMMA ChainedKept ==
  ASSUME Types, Shape, Faultless, Unbroken, Chained, Reading, Next
  PROVE  Chained'
<1>0. ~Crash /\ ~CannotOpen /\ Chunks' = Chunks /\ Files' = Files /\ Types'
  BY FaultlessSteps, TypesKept
<1>C. /\ Cursor.file = file /\ Cursor.chunk = chunk /\ (IsHeader(Cursor) <=> spc # "payload")
      /\ file \in Nat /\ chunk \in Nat /\ Chunks \in Seq(Nat) /\ Len(Chunks) \in Nat
  BY CursorPlace
<1>D. /\ Cursor'.file = file' /\ Cursor'.chunk = chunk' /\ (IsHeader(Cursor') <=> spc' # "payload")
  <2>1. CASE spc' = "payload" BY <1>0, <2>1, ChunksType DEF Cursor, Data, IsHeader
  <2>2. CASE spc' # "payload" BY <1>0, <2>2, ChunksType DEF Cursor, Header, IsHeader
  <2>3. QED BY <2>1, <2>2
<1>F. Files = 1..Len(Chunks) BY ChunksType
<1>1. CASE SendHeader
  <2>1. Grows(Sent) /\ IsHeader(Sent) /\ Sent.file = file /\ (Ends(Sent) <=> chunk = Chunks[file])
    BY <1>1, Effects
  <2>2. Sent.chunk = chunk /\ Sent.cmd = IF chunk = Chunks[file] THEN "END" ELSE "START"
    BY DEF Sent, Header
  <2>3. spc = "header" /\ spc' = "payload" /\ file' = file /\ chunk' = chunk /\ msg' = msg
        /\ file \in Files /\ chunk <= Chunks[file]
    BY <1>1 DEF SendHeader, rcvVars
  <2>4. chunk >= 1 BY DEF Chained
  <2>5. Proper(Chunks, Sent)
    <3>1. Chunks[file] \in Nat BY <1>C, <1>F, <2>3, ElementOfSeq
    <3>2. chunk \in 1..Chunks[file] BY <1>C, <2>3, <2>4, <3>1
    <3>3. QED BY <1>F, <2>1, <2>2, <2>3, <3>2 DEF Proper
  <2>6. Link(Chunks, Sent, Cursor') BY <1>D, <2>1, <2>2, <2>3 DEF Link
  <2>7. IsHeader(Sent) <=> IsHeader(Cursor) BY <1>C, <2>1, <2>3
  <2>8. chunk' >= 1 /\ spc' \notin {"finished", "closed"} BY <2>3, <2>4
  <2>9. QED BY <1>0, <2>1, <2>2, <2>3, <2>5, <2>6, <2>7, <2>8, ChainGrows
<1>2. CASE SendPayload
  <2>. DEFINE t == Data(file, chunk, TRUE)
  <2>1. Grows(t) /\ ~IsHeader(t) BY <1>2, Effects
  <2>2. t.file = file /\ t.chunk = chunk /\ t.whole = TRUE BY DEF Data
  <2>3. spc = "payload" /\ spc' = "header" /\ file' = file /\ chunk' = chunk + 1 /\ msg' = msg
    BY <1>2 DEF SendPayload, rcvVars
  <2>4. file \in Files /\ chunk <= Chunks[file] /\ chunk >= 1 BY <2>3 DEF Shape, InStep, Chained
  <2>5. Proper(Chunks, t)
    <3>1. Chunks[file] \in Nat BY <1>C, <1>F, <2>4, ElementOfSeq
    <3>2. chunk \in 1..Chunks[file] BY <1>C, <2>4, <3>1
    <3>3. QED BY <1>F, <2>1, <2>2, <2>4, <3>2 DEF Proper
  <2>. HIDE DEF t
  <2>6. Gap(Chunks, t, Cursor')
    <3>1. t.file \in Nat /\ t.chunk \in Nat BY <1>C, <2>2
    <3>2. t.file \in 1..Len(Chunks) BY <1>F, <2>2, <2>4
    <3>3. Cursor'.file = t.file /\ Cursor'.chunk = t.chunk + 1 BY <1>D, <2>2, <2>3
    <3>4. QED BY <1>C, <3>1, <3>2, <3>3, GapSteps
  <2>7. Link(Chunks, t, Cursor') BY <1>D, <2>3, <2>6 DEF Link
  <2>8. IsHeader(t) <=> IsHeader(Cursor) BY <1>C, <2>1, <2>3
  <2>9. chunk' >= 1 /\ spc' \notin {"finished", "closed"} BY <1>C, <2>3, <2>4
  <2>10. QED BY <1>0, <2>1, <2>2, <2>3, <2>5, <2>7, <2>8, <2>9, ChainGrows
<1>3. CASE EndFile
  <2>1. Stays /\ msg' = msg BY <1>3, Effects DEF EndFile, rcvVars
  <2>2. spc = "header" /\ spc' = spc /\ file' = file + 1 /\ chunk' = 1 /\ file \in Files /\ chunk > Chunks[file]
    BY <1>3 DEF EndFile
  <2>3. ASSUME NEW a, a.file \in Nat, a.chunk \in Nat, Link(Chunks, a, Cursor)
        PROVE  Link(Chunks, a, Cursor')
    <3>1. Gap(Chunks, a, Cursor) BY <1>C, <2>2, <2>3 DEF Link
    <3>2. Cursor.file \in 1..Len(Chunks) /\ Cursor.chunk \in Nat /\ Cursor.chunk > Chunks[Cursor.file]
          /\ Cursor'.file = Cursor.file + 1 /\ Cursor'.chunk = 1
      BY <1>C, <1>D, <1>F, <2>2
    <3>3. Gap(Chunks, a, Cursor') BY <1>C, <2>3, <3>1, <3>2, GapSteps
    <3>4. QED BY <1>D, <2>2, <3>3 DEF Link
  <2>4. \A i \in 1..Len(Stream) : Stream[i].file \in Nat /\ Stream[i].chunk \in Nat
    BY FileNumbers, ItemParts
  <2>5. msg.file \in Nat /\ msg.chunk \in Nat BY DEF Types, Headers
  <2>6. Len(Stream) > 0 => Link(Chunks, Stream[Len(Stream)], Cursor')
    <3>1. Len(Stream) > 0 => Len(Stream) \in 1..Len(Stream) BY FileNumbers
    <3>2. QED BY <2>3, <2>4, <3>1 DEF Chained
  <2>7. Len(Stream) = 0 => Link(Chunks, msg, Cursor') BY <2>3, <2>5 DEF Chained
  <2>8. chunk' >= 1 /\ spc' \notin {"finished", "closed"} BY <2>2
  <2>9. QED BY <1>0, <2>1, <2>6, <2>7, <2>8 DEF Chained, Stays
<1>4. CASE Finish
  <2>1. Stays /\ msg' = msg BY <1>4, Effects DEF Finish, rcvVars
  <2>2. Cursor' = Cursor BY <1>4 DEF Finish, Cursor
  <2>3. chunk' = chunk /\ file' \notin Files BY <1>4 DEF Finish
  <2>4. QED BY <1>0, <2>1, <2>2, <2>3 DEF Chained, Stays
<1>5. CASE Arrive \/ EndOfCommands \/ Abort \/ CheckBytesWaiting \/ Write \/ Incomplete
  <2>1. Stays BY <1>5, Effects
  <2>2. msg' = msg /\ spc' = spc /\ file' = file /\ chunk' = chunk
    BY <1>5 DEF Arrive, EndOfCommands, Abort, CheckBytesWaiting, Write, Incomplete, rcvVars, sndVars
  <2>3. Cursor' = Cursor BY <2>2 DEF Cursor
  <2>4. QED BY <1>0, <2>1, <2>2, <2>3 DEF Chained, Stays
<1>6. CASE StartFile \/ NextHeader
  <2>1. rpc \in {"command", "more"} /\ StringReady /\ msg' = Parsed
        /\ spc' = spc /\ file' = file /\ chunk' = chunk
    BY <1>6 DEF StartFile, NextHeader, sndVars
  <2>2. StringItems = 1
        /\ Parsed = [cmd |-> Stream[1].cmd, file |-> Stream[1].file, chunk |-> Stream[1].chunk]
    BY <2>1, NothingIgnored
  <2>3. Drops(1) BY <1>6, <2>2, Effects
  <2>4. msg'.file = Stream[1].file /\ msg'.chunk = Stream[1].chunk BY <2>1, <2>2
  <2>5. QED BY <1>0, <2>1, <2>3, <2>4, ChainDrops
<1>7. CASE RecvPayload
  <2>1. Drops(1) /\ msg' = msg /\ spc' = spc /\ file' = file /\ chunk' = chunk
    BY <1>7, Effects DEF RecvPayload, sndVars
  <2>2. Len(Stream) > 0 BY <2>1, FileNumbers DEF Drops
  <2>3. ~IsHeader(Stream[1])
    <3>1. Len(Stream) # 0 /\ rpc = "recv" BY <1>7, <2>2 DEF RecvPayload
    <3>2. QED BY <3>1 DEF Shape, InStep
  <2>4. Stream[1].file = msg.file /\ Stream[1].chunk = msg.chunk BY <2>2, <2>3 DEF Chained, Link
  <2>5. QED BY <1>0, <2>1, <2>4, ChainDrops
<1>8. ~IgnoreString /\ ~ReturnHeader /\ ~Abort BY NothingWrong
<1>9. QED BY <1>0, <1>1, <1>2, <1>3, <1>4, <1>5, <1>6, <1>7, <1>8 DEF Next, SenderStep, ReceiverStep

\* The header a handler meets is that of the next chunk of the file it writes, or of
\* the first chunk of a later file.
LEMMA HeaderMet ==
  ASSUME Types, Chained, Reading, StringReady, rpc \in {"command", "more"}
  PROVE  /\ IsHeader(Stream[1]) /\ StringItems = 1
         /\ Parsed.file \in Files /\ Parsed.chunk \in 1..Chunks[Parsed.file]
         /\ Parsed.cmd = IF Parsed.chunk = Chunks[Parsed.file] THEN "END" ELSE "START"
         /\ rpc = "more" => Parsed.file = msg.file /\ Parsed.chunk = msg.chunk + 1
         /\ rpc = "command" => /\ Parsed.chunk = 1
                               /\ \A g \in Files : g > msg.file /\ g < Parsed.file => Chunks[g] = 0
<1>1. /\ IsHeader(Stream[1]) /\ Proper(Chunks, Stream[1]) /\ StringItems = 1
      /\ Parsed.cmd = Stream[1].cmd /\ Parsed.file = Stream[1].file /\ Parsed.chunk = Stream[1].chunk
      /\ Gap(Chunks, msg, Stream[1])
  <2>1. Parsed = [cmd |-> Stream[1].cmd, file |-> Stream[1].file, chunk |-> Stream[1].chunk]
    BY NothingIgnored
  <2>2. Parsed.cmd = Stream[1].cmd /\ Parsed.file = Stream[1].file /\ Parsed.chunk = Stream[1].chunk
    BY <2>1
  <2>3. IsHeader(Stream[1]) /\ Proper(Chunks, Stream[1]) /\ StringItems = 1 /\ Gap(Chunks, msg, Stream[1])
    BY NothingIgnored
  <2>4. QED BY <2>2, <2>3
<1>2. Chunks \in Seq(Nat) /\ Len(Chunks) \in Nat /\ Files = 1..Len(Chunks)
      /\ \A g \in 1..Len(Chunks) : Chunks[g] \in Nat
  BY CursorPlace, ChunksType, ElementOfSeq
<1>3. Stream[1].file \in 1..Len(Chunks) /\ Stream[1].chunk \in 1..Chunks[Stream[1].file]
      /\ Stream[1].cmd = IF Stream[1].chunk = Chunks[Stream[1].file] THEN "END" ELSE "START"
  BY <1>1 DEF Proper
<1>4. Stream[1].file \in Nat /\ Stream[1].chunk \in Nat BY <1>2, <1>3
<1>5. ASSUME rpc = "more" PROVE Stream[1].file = msg.file /\ Stream[1].chunk = msg.chunk + 1
  <2>1. path = msg.file /\ path \in Files /\ msg.chunk \in 1..Chunks[path] /\ msg.cmd # "END"
        /\ msg.cmd = IF msg.chunk = Chunks[path] THEN "END" ELSE "START"
    BY <1>5 DEF Reading, InFile
  <2>2. msg.chunk # Chunks[path] BY <2>1
  <2>3. msg.file \in 1..Len(Chunks) /\ msg.chunk \in Nat /\ msg.chunk < Chunks[msg.file]
    BY <1>2, <2>1, <2>2
  <2>4. QED BY <1>1, <1>2, <1>3, <1>4, <2>3, GapNext
<1>6. ASSUME rpc = "command"
      PROVE  /\ Stream[1].chunk = 1
             /\ \A g \in 1..Len(Chunks) : g > msg.file /\ g < Stream[1].file => Chunks[g] = 0
  <2>1. \/ msg.file = 0 /\ msg.chunk = 0
        \/ msg.file \in 1..Len(Chunks) /\ msg.chunk = Chunks[msg.file]
    BY <1>2, <1>6 DEF Reading
  <2>2. QED BY <1>1, <1>2, <1>3, <2>1, GapFirst
<1>7. QED BY <1>1, <1>2, <1>3, <1>5, <1>6

\* What a write leaves on the disk.
LEMMA WriteHolds ==
  ASSUME Types, Reading, Write
  PROVE  /\ Holds(disk', path, msg.chunk) /\ path = msg.file /\ path \in Files
         /\ \A f \in Files : f # path => disk'[f] = disk[f]
<1>1. /\ rpc = "write" /\ path = msg.file /\ path \in Files /\ msg.chunk \in Nat /\ msg.chunk # 0
      /\ Holds(disk, path, msg.chunk - 1) /\ buffer = Data(path, msg.chunk, TRUE)
  <2>1. rpc = "write" BY DEF Write
  <2>2. path = msg.file /\ path \in Files /\ msg.chunk \in 1..Chunks[path]
        /\ Holds(disk, path, IF rpc = "more" THEN msg.chunk ELSE msg.chunk - 1)
    BY <2>1 DEF Reading, InFile
  <2>3. Holds(disk, path, msg.chunk - 1) BY <2>1, <2>2
  <2>4. msg.chunk \in Nat BY DEF Types, Headers
  <2>5. msg.chunk # 0 BY <2>2
  <2>6. buffer = Data(path, msg.chunk, TRUE) BY <2>1, <2>2 DEF Reading
  <2>7. QED BY <2>1, <2>2, <2>3, <2>4, <2>5, <2>6
<1>. DEFINE p == [sized |-> <<msg.file, msg.chunk>>, data |-> buffer]
<1>2. Written = <<p>> BY <1>1 DEF Written
<1>3. disk' = [disk EXCEPT ![path] = disk[path] \o <<p>>] BY <1>2 DEF Write
<1>4. disk[path] \in Seq(Pieces) /\ p \in Pieces
  BY <1>1 DEF Types, Headers, Pieces
<1>5. disk'[path] = Append(disk[path], p)
  <2>1. disk'[path] = disk[path] \o <<p>> BY <1>1, <1>3 DEF Types
  <2>2. \A s \in Seq(Pieces), q \in Pieces : s \o <<q>> = Append(s, q) OBVIOUS
  <2>3. QED BY <1>4, <2>1, <2>2
<1>6. \A f \in Files : f # path => disk'[f] = disk[f] BY <1>3 DEF Types
<1>7. p.data = Data(path, msg.chunk, TRUE) BY <1>1
<1>. HIDE DEF p
<1>8. /\ Len(disk'[path]) = Len(disk[path]) + 1 /\ disk'[path][Len(disk[path]) + 1] = p
      /\ \A j \in 1..Len(disk[path]) : disk'[path][j] = disk[path][j]
  BY <1>4, <1>5, AppendProperties
<1>9. Len(disk[path]) = msg.chunk - 1 /\ \A j \in 1..(msg.chunk - 1) : disk[path][j].data = Data(path, j, TRUE)
  BY <1>1 DEF Holds
<1>10. (msg.chunk - 1) + 1 = msg.chunk BY <1>1
<1>11. \A j \in 1..msg.chunk : j \in 1..(msg.chunk - 1) \/ j = msg.chunk BY <1>1
<1>12. \A j \in 1..msg.chunk : disk'[path][j].data = Data(path, j, TRUE)
  BY <1>7, <1>8, <1>9, <1>10, <1>11
<1>13. Holds(disk', path, msg.chunk) BY <1>8, <1>9, <1>10, <1>12 DEF Holds
<1>14. QED BY <1>1, <1>6, <1>13

\* A header is taken off the inbox, and its payload stays there.
LEMMA InboxDrops ==
  ASSUME Types, Unbroken, StringReady, IsHeader(Stream[1]), Drop(1)
  PROVE  Len(inbox') > 0
<1>1. Len(inbox) > 0 BY StringRead
<1>2. Len(inbox) > 1 BY <1>1, InPairs
<1>3. inbox \in Seq(Items) /\ Len(inbox) \in Nat BY BothEnds
<1>4. 1 \in 0..Len(inbox) BY <1>2, <1>3
<1>5. Len(inbox') = Len(inbox) - 1 BY ZenonT(30), <1>3, <1>4, CutSequence DEF Drop
<1>6. QED BY <1>2, <1>3, <1>5

\* A file is not broken off: while one is being written, more of it is to come.
LEMMA NeverIncomplete ==
  ASSUME Types, Shape, Unbroken, Chained, Reading, rpc = "more"
  PROVE  ~AtEnd
<1>1. SUFFICES ASSUME AtEnd PROVE FALSE OBVIOUS
<1>2. ended # "no" /\ Len(Stream) = 0 BY <1>1, StreamHead DEF AtEnd
<1>3. spc = "closed" BY <1>2 DEF Shape, InStep, Unbroken
<1>4. file \notin Files BY <1>3 DEF Chained
<1>5. Link(Chunks, msg, Cursor) BY <1>2 DEF Chained
<1>6. Gap(Chunks, msg, Cursor) /\ Cursor.file = file /\ Cursor.chunk = chunk
      /\ file \in Nat /\ chunk \in Nat /\ Chunks \in Seq(Nat) /\ Len(Chunks) \in Nat
  BY <1>3, <1>5, CursorPlace DEF Link
<1>7. path = msg.file /\ path \in Files /\ msg.chunk \in 1..Chunks[path] /\ msg.cmd # "END"
      /\ msg.cmd = IF msg.chunk = Chunks[path] THEN "END" ELSE "START"
  BY DEF Reading, InFile
<1>8. msg.chunk # Chunks[path] /\ Files = 1..Len(Chunks) BY <1>7, ChunksType
<1>9. msg.file \in 1..Len(Chunks) /\ Chunks[msg.file] \in Nat BY <1>6, <1>7, <1>8, ElementOfSeq
<1>10. msg.chunk \in Nat /\ msg.chunk < Chunks[msg.file] BY <1>7, <1>8, <1>9
<1>11. \/ Cursor.file = msg.file
       \/ ~(Cursor.file > Len(Chunks))
  BY <1>6, <1>9, <1>10, GapNext
<1>12. file >= 1 BY DEF Types
<1>13. QED BY <1>4, <1>6, <1>8, <1>9, <1>11, <1>12

\* A handler that starts a file reads its first header, with the payload behind it.
LEMMA ReadingStarts ==
  ASSUME Types, Shape, Unbroken, Chained, Reading, Chunks' = Chunks, Files' = Files, StartFile
  PROVE  Reading'
<1>1. rpc = "command" /\ StringReady /\ Drop(1) /\ rpc' = "check" /\ msg' = Parsed
      /\ path' = Parsed.file /\ disk' = [disk EXCEPT ![Parsed.file] = <<>>]
  BY DEF StartFile
<1>2. /\ IsHeader(Stream[1])
      /\ Parsed.file \in Files /\ Parsed.chunk \in 1..Chunks[Parsed.file]
      /\ Parsed.cmd = IF Parsed.chunk = Chunks[Parsed.file] THEN "END" ELSE "START"
      /\ Parsed.chunk = 1
  BY <1>1, HeaderMet
<1>3. disk'[path'] = <<>> BY <1>1, <1>2 DEF Types
<1>4. Holds(disk', path', msg'.chunk - 1)
  <2>1. msg'.chunk - 1 = 0 BY <1>1, <1>2
  <2>2. Len(disk'[path']) = 0 BY <1>3
  <2>3. \A j \in 1..0 : disk'[path'][j].data = Data(path', j, TRUE) OBVIOUS
  <2>4. QED BY <2>1, <2>2, <2>3 DEF Holds
<1>5. Len(inbox') > 0 BY <1>1, <1>2, InboxDrops
<1>6. QED BY <1>1, <1>2, <1>4, <1>5 DEF Reading, InFile

\* fileWriter goes on with the next chunk of the same file.
LEMMA ReadingGoesOn ==
  ASSUME Types, Shape, Unbroken, Chained, Reading, Chunks' = Chunks, Files' = Files, NextHeader
  PROVE  Reading'
<1>1. rpc = "more" /\ StringReady /\ Drop(StringItems) /\ rpc' = "check" /\ msg' = Parsed
      /\ path' = path /\ disk' = disk
  BY DEF NextHeader
<1>2. /\ IsHeader(Stream[1]) /\ StringItems = 1
      /\ Parsed.file \in Files /\ Parsed.chunk \in 1..Chunks[Parsed.file]
      /\ Parsed.cmd = IF Parsed.chunk = Chunks[Parsed.file] THEN "END" ELSE "START"
      /\ Parsed.file = msg.file /\ Parsed.chunk = msg.chunk + 1
  BY <1>1, HeaderMet
<1>3. path = msg.file /\ Holds(disk, path, msg.chunk) BY <1>1 DEF Reading, InFile
<1>4. Holds(disk', path', msg'.chunk - 1)
  <2>1. msg.chunk \in Nat BY DEF Types, Headers
  <2>2. msg'.chunk - 1 = msg.chunk BY <1>1, <1>2, <2>1
  <2>3. QED BY <1>1, <1>3, <2>2
<1>5. Len(inbox') > 0 BY <1>1, <1>2, InboxDrops
<1>6. QED BY <1>1, <1>2, <1>3, <1>4, <1>5 DEF Reading, InFile

\* The payload that is read is the one of the header before it, and the next item is a header.
LEMMA ReadingPayload ==
  ASSUME Types, Shape, Unbroken, Chained, Reading, Chunks' = Chunks, Files' = Files, RecvPayload
  PROVE  Reading'
<1>1. rpc = "recv" /\ inbox # <<>> /\ buffer' = inbox[1] /\ Drop(1)
      /\ rpc' = (IF ~inbox[1].whole /\ ended = "rst" THEN "spin" ELSE "write")
      /\ msg' = msg /\ path' = path /\ disk' = disk
  BY DEF RecvPayload
<1>2. Len(inbox) > 0 /\ 1 \in 1..Len(inbox) /\ 1 \in 1..Len(Stream) /\ Stream[1] = inbox[1] /\ inbox[1] \in Items
      /\ Len(Stream) > 0 /\ Len(Stream) # 0
  BY <1>1, BothEnds, StreamHead
<1>3. ~IsHeader(Stream[1]) BY <1>1, <1>2 DEF Shape, InStep
<1>4. Proper(Chunks, Stream[1]) /\ Link(Chunks, msg, Stream[1]) BY <1>2 DEF Chained
<1>5. inbox[1].whole /\ inbox[1].file = msg.file /\ inbox[1].chunk = msg.chunk
  BY <1>2, <1>3, <1>4 DEF Proper, Link
<1>6. buffer' = Data(msg.file, msg.chunk, TRUE)
  <2>1. inbox[1] \in [type : {"data"}, file : Nat, chunk : Nat, whole : BOOLEAN]
    BY <1>2, <1>3 DEF Items, IsHeader
  <2>2. inbox[1].whole = TRUE BY <1>5, <2>1
  <2>3. inbox[1] = Data(inbox[1].file, inbox[1].chunk, inbox[1].whole) BY <2>1 DEF Data
  <2>4. QED BY <1>1, <1>5, <2>2, <2>3
<1>7. rpc' = "write" BY <1>1, <1>5
<1>8. Len(Stream') > 0 => IsHeader(Stream'[1])
  <2>1. Len(Stream') = Len(Stream) - 1 /\ Len(Stream) \in Nat
        /\ \A i \in 1..Len(Stream') : Stream'[i] = Stream[i + 1]
    BY Effects, FileNumbers DEF Drops
  <2>2. ASSUME Len(Stream') > 0 PROVE 1 \in 1..(Len(Stream) - 1) /\ 1 \in 1..Len(Stream') /\ 1 + 1 = 2
    BY <2>1, <2>2
  <2>3. Len(Stream') > 0 => Stream'[1] = Stream[2] BY <2>1, <2>2
  <2>4. Len(Stream') > 0 => IsHeader(Stream[2]) BY <1>3, <2>2 DEF Shape, Alternating
  <2>5. QED BY <2>3, <2>4
<1>9. path = msg.file /\ path \in Files /\ msg.chunk \in 1..Chunks[path]
      /\ msg.cmd = (IF msg.chunk = Chunks[path] THEN "END" ELSE "START")
      /\ Holds(disk, path, msg.chunk - 1)
  BY <1>1 DEF Reading, InFile
<1>10. QED BY <1>1, <1>6, <1>7, <1>8, <1>9 DEF Reading, InFile

\* After a write either the file is complete, or one chunk more of it is stored.
LEMMA ReadingWrites ==
  ASSUME Types, Shape, Unbroken, Chained, Reading, Chunks' = Chunks, Files' = Files, Write
  PROVE  Reading'
<1>1. rpc = "write" /\ msg' = msg /\ path' = path /\ Stays
      /\ IF msg.cmd = "END" THEN rpc' = "command" ELSE rpc' = "more"
  BY Effects DEF Write
<1>2. Holds(disk', path, msg.chunk) BY WriteHolds
<1>3. path = msg.file /\ path \in Files /\ msg.chunk \in 1..Chunks[path]
      /\ msg.cmd = (IF msg.chunk = Chunks[path] THEN "END" ELSE "START")
  BY <1>1 DEF Reading, InFile
<1>4. Len(Stream') > 0 => IsHeader(Stream'[1]) BY <1>1 DEF Reading, Stays
<1>5. CASE msg.cmd = "END"
  <2>1. rpc' = "command" /\ msg.chunk = Chunks[msg.file] BY <1>1, <1>3, <1>5
  <2>2. QED BY <1>1, <1>3, <1>4, <2>1 DEF Reading, InFile
<1>6. CASE msg.cmd # "END"
  <2>1. rpc' = "more" BY <1>1, <1>6
  <2>2. QED BY <1>1, <1>2, <1>3, <1>4, <1>6, <2>1 DEF Reading, InFile
<1>7. QED BY <1>5, <1>6

\* The receiver stays in step.
LEMMA ReadingKept ==
  ASSUME Types, Shape, Faultless, Unbroken, Chained, Reading, Next
  PROVE  Reading'
<1>0. ~Crash /\ ~CannotOpen /\ Chunks' = Chunks /\ Files' = Files BY FaultlessSteps
<1>L. Len(Stream) \in Nat BY FileNumbers
<1>1. CASE SendHeader \/ SendPayload
  <2>1. PICK t : Grows(t) /\ (IsHeader(t) \/ Len(Stream) > 0)
    <3>1. CASE SendHeader
      <4>1. Grows(Sent) /\ IsHeader(Sent) BY <3>1, Effects
      <4>2. QED BY <4>1
    <3>2. CASE SendPayload
      <4>1. Grows(Data(file, chunk, TRUE)) BY <3>2, Effects
      <4>2. Len(wire) > 0 BY <3>2 DEF SendPayload, Unbroken
      <4>3. Len(Stream) = Len(inbox) + Len(wire) /\ Len(inbox) \in Nat /\ Len(wire) \in Nat BY BothEnds
      <4>4. Len(Stream) > 0 BY <4>2, <4>3
      <4>5. QED BY <4>1, <4>4
    <3>3. QED BY <1>1, <3>1, <3>2
  <2>2. rpc' = rpc /\ msg' = msg /\ path' = path /\ buffer' = buffer /\ disk' = disk /\ inbox' = inbox
    BY <1>1 DEF SendHeader, SendPayload, rcvVars
  <2>3. ASSUME rpc \in {"command", "write", "more"} PROVE IsHeader(Stream'[1])
    <3>1. CASE Len(Stream) > 0
      <4>1. 1 \in 1..Len(Stream) BY <1>L, <3>1
      <4>2. Stream'[1] = Stream[1] BY <2>1, <4>1 DEF Grows
      <4>3. QED BY <2>3, <3>1, <4>2 DEF Reading
    <3>2. CASE ~(Len(Stream) > 0)
      <4>1. Len(Stream) + 1 = 1 BY <1>L, <3>2
      <4>2. QED BY <2>1, <3>2, <4>1 DEF Grows
    <3>3. QED BY <3>1, <3>2
  <2>4. QED BY <1>0, <2>2, <2>3 DEF Reading, InFile
<1>2. CASE EndFile \/ Finish \/ Arrive
  <2>1. Stays BY <1>2, Effects
  <2>2. rpc' = rpc /\ msg' = msg /\ path' = path /\ buffer' = buffer /\ disk' = disk
    BY <1>2 DEF EndFile, Finish, Arrive, rcvVars
  <2>3. Len(inbox) > 0 => Len(inbox') > 0
    <3>1. CASE Arrive
      <4>1. inbox' = inbox \o SubSeq(wire, 1, 2) /\ Len(wire) > 1 BY <3>1, PairArrives
      <4>2. inbox \in Seq(Items) /\ Len(inbox) \in Nat /\ wire \in Seq(Items) /\ Len(wire) \in Nat BY BothEnds
      <4>3. 2 \in 0..Len(wire) BY <4>1, <4>2
      <4>4. SubSeq(wire, 1, 2) \in Seq(Items) BY <4>2, <4>3, CutSequence
      <4>5. Len(inbox') = Len(inbox) + Len(SubSeq(wire, 1, 2)) /\ Len(SubSeq(wire, 1, 2)) \in Nat
        BY <4>1, <4>2, <4>4, ConcatProperties, LenProperties
      <4>6. QED BY <4>2, <4>5
    <3>2. CASE EndFile \/ Finish BY <3>2 DEF EndFile, Finish
    <3>3. QED BY <1>2, <3>1, <3>2
  <2>4. QED BY <1>0, <2>1, <2>2, <2>3 DEF Reading, InFile, Stays
<1>3. CASE EndOfCommands
  BY <1>0, <1>3 DEF EndOfCommands, Reading, InFile
<1>4. CASE CheckBytesWaiting
  <2>1. rpc = "check" /\ Stays /\ inbox' = inbox /\ msg' = msg /\ path' = path /\ disk' = disk
        /\ rpc' = (IF inbox = <<>> \/ msg.chunk = 0 THEN "write" ELSE "recv")
    BY <1>4, Effects DEF CheckBytesWaiting
  <2>2. Len(inbox) > 0 /\ msg.chunk \in 1..Chunks[path] BY <2>1 DEF Reading, InFile
  <2>3. inbox # <<>> /\ msg.chunk # 0 BY <2>2, BothEnds
  <2>4. rpc' = "recv" BY <2>1, <2>3
  <2>5. QED BY <1>0, <2>1, <2>2, <2>4 DEF Reading, InFile
<1>5. CASE StartFile BY <1>0, <1>5, ReadingStarts
<1>6. CASE NextHeader BY <1>0, <1>6, ReadingGoesOn
<1>7. CASE RecvPayload BY <1>0, <1>7, ReadingPayload
<1>8. CASE Write BY <1>0, <1>8, ReadingWrites
<1>9. ~Incomplete BY NeverIncomplete DEF Incomplete
<1>10. ~IgnoreString /\ ~ReturnHeader /\ ~Abort BY NothingWrong
<1>11. QED
  BY <1>0, <1>1, <1>2, <1>3, <1>4, <1>5, <1>6, <1>7, <1>8, <1>9, <1>10 DEF Next, SenderStep, ReceiverStep

\* What is acknowledged stays stored, and nothing is passed over.
LEMMA AcknowledgedKept ==
  ASSUME Types, Shape, InTurn, Faultless, Unbroken, Chained, Reading, Acknowledged, Next
  PROVE  Acknowledged'
<1>0. ~Crash /\ ~CannotOpen /\ Chunks' = Chunks /\ Files' = Files BY FaultlessSteps
<1>N. /\ Len(acks) \in Nat /\ (\A i \in 1..Len(acks) : acks[i] \in Files) /\ (\A g \in Files : g \in Nat)
      /\ msg.file \in Nat
  BY FileNumbers DEF Types, Headers
<1>1. CASE acks' = acks /\ disk' = disk /\ msg'.file = msg.file /\ (InFile' => InFile) /\ (InFile => InFile')
  BY <1>0, <1>1 DEF Acknowledged
<1>2. CASE SendHeader \/ SendPayload \/ EndFile \/ Finish \/ Arrive \/ EndOfCommands \/ CheckBytesWaiting
  BY <1>1, <1>2 DEF SendHeader, SendPayload, EndFile, Finish, Arrive, EndOfCommands, CheckBytesWaiting,
     rcvVars, InFile
<1>3. CASE RecvPayload
  <2>1. rpc = "recv" /\ rpc' \in {"spin", "write"} /\ msg' = msg /\ disk' = disk /\ acks' = acks
    BY <1>3 DEF RecvPayload
  <2>2. rpc' # "spin" BY <1>0, <1>3, ReadingPayload DEF Reading
  <2>3. QED BY <1>1, <2>1, <2>2 DEF InFile
<1>4. CASE NextHeader
  <2>1. rpc = "more" /\ StringReady /\ rpc' = "check" /\ msg' = Parsed /\ disk' = disk /\ acks' = acks
    BY <1>4 DEF NextHeader
  <2>2. Parsed.file = msg.file BY <2>1, HeaderMet
  <2>3. QED BY <1>1, <2>1, <2>2 DEF InFile
<1>5. CASE StartFile
  <2>1. rpc = "command" /\ StringReady /\ rpc' = "check" /\ msg' = Parsed
        /\ disk' = [disk EXCEPT ![Parsed.file] = <<>>] /\ acks' = acks
    BY <1>5 DEF StartFile
  <2>2. /\ IsHeader(Stream[1]) /\ Parsed.file \in Files
        /\ \A g \in Files : g > msg.file /\ g < Parsed.file => Chunks[g] = 0
    BY <2>1, HeaderMet
  <2>3. Parsed.file = Stream[1].file /\ Named(Stream[1]) /\ 1 \in 1..Len(Stream)
    <3>1. Parsed = [cmd |-> Stream[1].cmd, file |-> Stream[1].file, chunk |-> Stream[1].chunk]
          /\ Parsed.file # 0 /\ 1 \in 1..Len(Stream)
      BY <2>1, NothingIgnored
    <3>2. Parsed.file = Stream[1].file BY <3>1
    <3>3. QED BY <2>2, <3>1, <3>2 DEF Named
  <2>4. \A i \in 1..Len(acks) : acks[i] < Parsed.file BY <2>3 DEF InTurn
  <2>5. \A i \in 1..Len(acks) : disk'[acks[i]] = disk[acks[i]]
    <3>1. \A i \in 1..Len(acks) : acks[i] \in Files /\ acks[i] # Parsed.file BY <1>N, <2>2, <2>4
    <3>2. QED BY <2>1, <3>1 DEF Types
  <2>6. \A i \in 1..Len(acks) : Holds(disk', acks[i], Chunks[acks[i]])
    BY <2>5 DEF Acknowledged, Holds
  <2>7. ASSUME NEW g \in Files, Chunks[g] > 0, g < Parsed.file PROVE \E i \in 1..Len(acks) : acks[i] = g
    <3>1. ~InFile BY <2>1 DEF InFile
    <3>2. ~(g > msg.file) BY <2>2, <2>7
    <3>3. g < msg.file \/ g = msg.file BY <1>N, <2>7, <3>2
    <3>4. QED BY <2>7, <3>1, <3>3 DEF Acknowledged
  <2>8. InFile' BY <2>1 DEF InFile
  <2>9. QED BY <1>0, <2>1, <2>6, <2>7, <2>8 DEF Acknowledged
<1>6. CASE Write
  <2>1. rpc = "write" /\ msg' = msg /\ InFile BY <1>6 DEF Write, InFile
  <2>2. /\ Holds(disk', path, msg.chunk) /\ path = msg.file /\ path \in Files
        /\ \A f \in Files : f # path => disk'[f] = disk[f]
    BY <1>6, WriteHolds
  <2>3. msg.cmd = (IF msg.chunk = Chunks[path] THEN "END" ELSE "START") BY <2>1 DEF Reading
  <2>4. \A i \in 1..Len(acks) : Holds(disk', acks[i], Chunks[acks[i]])
    <3>1. \A i \in 1..Len(acks) : acks[i] < path BY <2>1 DEF InTurn
    <3>2. \A i \in 1..Len(acks) : acks[i] \in Files /\ acks[i] # path BY <1>N, <2>2, <3>1
    <3>3. \A i \in 1..Len(acks) : disk'[acks[i]] = disk[acks[i]] BY <2>2, <3>2
    <3>4. QED BY <3>3 DEF Acknowledged, Holds
  <2>5. CASE msg.cmd = "END"
    <3>1. acks' = Append(acks, path) BY <1>6, <2>5 DEF Write
    <3>2. Len(acks') = Len(acks) + 1 /\ acks'[Len(acks) + 1] = path
          /\ \A i \in 1..Len(acks) : acks'[i] = acks[i]
      BY <3>1, <2>2, AppendProperties DEF Types
    <3>3. \A i \in 1..Len(acks') : i \in 1..Len(acks) \/ i = Len(acks) + 1 BY <1>N, <3>2
    <3>4. msg.chunk = Chunks[path] BY <2>3, <2>5
    <3>5. \A i \in 1..Len(acks') : Holds(disk', acks'[i], Chunks[acks'[i]])
      BY <2>2, <2>4, <3>2, <3>3, <3>4
    <3>6. ASSUME NEW g \in Files, Chunks[g] > 0, g < msg.file \/ g = msg.file
          PROVE  \E i \in 1..Len(acks') : acks'[i] = g
      <4>1. CASE g < msg.file
        <5>1. PICK i \in 1..Len(acks) : acks[i] = g BY <3>6, <4>1 DEF Acknowledged
        <5>2. i \in 1..Len(acks') /\ acks'[i] = g BY <1>N, <3>2, <5>1
        <5>3. QED BY <5>2
      <4>2. CASE g = msg.file
        <5>1. Len(acks) + 1 \in 1..Len(acks') /\ acks'[Len(acks) + 1] = g BY <1>N, <2>2, <3>2, <4>2
        <5>2. QED BY <5>1
      <4>3. QED BY <3>6, <4>1, <4>2
    <3>7. QED BY <1>0, <2>1, <3>5, <3>6 DEF Acknowledged
  <2>6. CASE msg.cmd # "END"
    <3>1. acks' = acks /\ rpc' = "more" BY <1>6, <2>6 DEF Write
    <3>2. InFile' BY <3>1 DEF InFile
    <3>3. QED BY <1>0, <2>1, <2>4, <3>1, <3>2 DEF Acknowledged
  <2>7. QED BY <2>5, <2>6
<1>7. ~Incomplete BY NeverIncomplete DEF Incomplete
<1>8. ~IgnoreString /\ ~ReturnHeader /\ ~Abort BY NothingWrong
<1>9. QED
  BY <1>0, <1>2, <1>3, <1>4, <1>5, <1>6, <1>7, <1>8 DEF Next, SenderStep, ReceiverStep

\* It holds at the beginning, when the first chunk of the first file that has one is next.
LEMMA InitWhole == Init => Whole
<1>. SUFFICES ASSUME Init PROVE Whole OBVIOUS
<1>1. /\ Stream = <<>> /\ Len(Stream) = 0 /\ acks = <<>> /\ Len(acks) = 0
      /\ Len(inbox) = 0 /\ Len(wire) = 0
  BY DEF Init, Stream
<1>2. /\ rpc = "command" /\ spc = "header" /\ file = 1 /\ chunk = 1 /\ ended = "no"
      /\ msg = NoCommand(0, 0)
  BY DEF Init
<1>3. msg.file = 0 /\ msg.chunk = 0 BY <1>2 DEF NoCommand
<1>4. Types BY InitIInv DEF IInv
<1>5. Unbroken BY <1>1, <1>2 DEF Unbroken
<1>6. Chained
  <2>1. Cursor.file = 1 /\ Cursor.chunk = 1 /\ IsHeader(Cursor)
        /\ Chunks \in Seq(Nat) /\ Len(Chunks) \in Nat
    BY <1>2, <1>4, CursorPlace
  <2>2. \A f \in 1..Len(Chunks) : Chunks[f] \in Nat /\ f \in Nat /\ f >= 1 BY <2>1, ElementOfSeq
  <2>3. \A f \in 1..Len(Chunks) : \A k \in 1..Chunks[f] : ~Before(Chunk(f, k), Cursor)
    BY <2>1, <2>2 DEF Before, Chunk
  <2>4. Before(msg, Cursor) BY <1>3, <2>1 DEF Before
  <2>5. Link(Chunks, msg, Cursor) BY <2>1, <2>3, <2>4 DEF Link, Gap
  <2>6. QED BY <1>1, <1>2, <2>5 DEF Chained
<1>7. Reading BY <1>1, <1>2, <1>3 DEF Reading, InFile
<1>8. Acknowledged
  <2>1. \A g \in Files : g \in Nat /\ g >= 1 BY <1>4, ChunksType DEF Types
  <2>2. QED BY <1>1, <1>3, <2>1 DEF Acknowledged
<1>9. QED BY <1>5, <1>6, <1>7, <1>8 DEF Whole

\* The plan of a connection does not change.
LEMMA PlanStays == [Next]_vars => plan' = plan /\ Chunks' = Chunks /\ Files' = Files /\ (Faultless' <=> Faultless)
<1>1. [Next]_vars => plan' = plan
  BY DEF Next, SenderStep, ReceiverStep, SendHeader, SendPayload, EndFile, Finish, Crash,
     Arrive, StartFile, CannotOpen, IgnoreString, ReturnHeader, Abort, EndOfCommands, CheckBytesWaiting,
     RecvPayload, Write, NextHeader, Incomplete, vars
<1>2. QED BY <1>1, ChunksStay DEF Faultless

\* Every step keeps it.
LEMMA StepWhole == IInv /\ Whole /\ [Next]_vars => Whole'
<1>. SUFFICES ASSUME IInv, Whole, [Next]_vars, Faultless
              PROVE  Unbroken' /\ Chained' /\ Reading' /\ Acknowledged'
  BY PlanStays DEF Whole
<1>0. Types /\ Shape /\ InTurn /\ Unbroken /\ Chained /\ Reading /\ Acknowledged BY DEF IInv, Whole
<1>1. CASE Next
  BY <1>0, <1>1, UnbrokenKept, ChainedKept, ReadingKept, AcknowledgedKept
<1>2. CASE UNCHANGED vars
  <2>1. Stream' = Stream /\ Chunks' = Chunks /\ Files' = Files /\ Cursor' = Cursor
    BY <1>2, ChunksStay DEF vars, sndVars, Stream, Cursor
  <2>2. /\ plan' = plan /\ file' = file /\ chunk' = chunk /\ spc' = spc /\ wire' = wire
        /\ inbox' = inbox /\ ended' = ended /\ rpc' = rpc /\ msg' = msg /\ path' = path
        /\ buffer' = buffer /\ disk' = disk /\ acks' = acks /\ returned' = returned
    BY <1>2 DEF vars, sndVars, rcvVars
  <2>3. Unbroken' BY <1>0, <2>2 DEF Unbroken
  <2>4. Chained' BY <1>0, <2>1, <2>2 DEF Chained
  <2>5. Reading' BY <1>0, <2>1, <2>2 DEF Reading, InFile
  <2>6. Acknowledged' BY <1>0, <2>1, <2>2 DEF Acknowledged, InFile
  <2>7. QED BY <2>3, <2>4, <2>5, <2>6
<1>3. QED BY <1>1, <1>2

\* A faultless transfer is never broken, and leaves nothing out.
THEOREM FaultlessWhole == Spec => []Whole
<1>1. QED BY Inductive, InitWhole, StepWhole, PTL DEF Spec

------------------------------------------------------------------------------
(* The refinement.                                                           *)

\* What a reader finds in the file f of the disk d, and what was sent of it.
Reads(d, f) == [k \in 1..Len(d[f]) |->
                  IF d[f][k].data.whole THEN <<d[f][k].data.file, d[f][k].data.chunk>> ELSE <<0, 0>>]
Sends(c, f) == [k \in 1..c[f] |-> <<f, k>>]

\* A file that is stored whole reads as what was sent of it.
LEMMA StoredWhole ==
  ASSUME NEW d, NEW c, NEW f, c[f] \in Nat, Holds(d, f, c[f])
  PROVE  Reads(d, f) = Sends(c, f)
<1>1. Len(d[f]) = c[f] /\ \A k \in 1..c[f] : d[f][k].data = Data(f, k, TRUE) BY DEF Holds
<1>2. \A k \in 1..c[f] : /\ d[f][k].data.whole = TRUE
                         /\ d[f][k].data.file = f /\ d[f][k].data.chunk = k
  <2>1. \A k : /\ Data(f, k, TRUE).whole = TRUE
               /\ Data(f, k, TRUE).file = f /\ Data(f, k, TRUE).chunk = k
    BY DEF Data
  <2>2. QED BY <1>1, <2>1
<1>3. QED BY <1>1, <1>2 DEF Reads, Sends

Entry(f) == [file |-> f, content |-> Content(f)]

\* What the mapping says of a faultless transfer.
LEMMA ReceivedNow ==
  ASSUME IInv, Whole, Faultless
  PROVE  Received = [i \in 1..Len(acks) |-> Entry(acks[i])]
<1>1. Types /\ Acknowledged BY DEF IInv, Whole
<1>2. \A i \in 1..Len(acks) : Chunks[acks[i]] \in Nat
  BY <1>1, FileNumbers, ChunksType, ElementOfSeq
<1>3. ASSUME NEW i \in 1..Len(acks) PROVE Stored(acks[i]) = Content(acks[i])
  <2>1. Holds(disk, acks[i], Chunks[acks[i]]) BY <1>1 DEF Acknowledged
  <2>2. Reads(disk, acks[i]) = Sends(Chunks, acks[i]) BY <1>2, <2>1, StoredWhole
  <2>3. QED BY <2>2 DEF Stored, Content, Reads, Sends
<1>4. QED BY <1>3 DEF Received, Entry

\* And after a step.
LEMMA ReceivedNext ==
  ASSUME IInv', Whole', Faultless', Chunks' = Chunks
  PROVE  Received' = [i \in 1..Len(acks') |-> Entry(acks'[i])]
<1>1. /\ Chunks \in Seq(Nat) /\ acks' \in Seq(1..Len(Chunks))
      /\ \A i \in 1..Len(acks') : Holds(disk', acks'[i], Chunks[acks'[i]])
  <2>1. plan' \in Plans /\ acks' \in Seq(Files') BY DEF IInv, Types
  <2>2. Chunks' \in Seq(Nat) BY <2>1, PlansAssumption DEF Chunks
  <2>3. Acknowledged' BY DEF Whole
  <2>4. QED BY <2>1, <2>2, <2>3 DEF Acknowledged, Files
<1>2. \A i \in 1..Len(acks') : Chunks[acks'[i]] \in Nat BY <1>1, ElementOfSeq
<1>3. ASSUME NEW i \in 1..Len(acks') PROVE Reads(disk', acks'[i]) = Content(acks'[i])
  <2>1. Holds(disk', acks'[i], Chunks[acks'[i]]) BY <1>1, <1>3
  <2>2. Reads(disk', acks'[i]) = Sends(Chunks, acks'[i]) BY <1>2, <2>1, StoredWhole
  <2>3. QED BY <2>2 DEF Content, Sends
<1>4. QED BY <1>3 DEF Received, Entry, Stored, Reads

\* A step that acknowledges nothing is none of module Transfer's.
LEMMA Stutters ==
  ASSUME IInv, Whole, IInv', Whole', [Next]_vars, acks' = acks
  PROVE  Received' = Received /\ Chunks' = Chunks
<1>1. Chunks' = Chunks /\ (Faultless' <=> Faultless) BY PlanStays
<1>2. CASE Faultless
  <2>1. Received' = [i \in 1..Len(acks') |-> Entry(acks'[i])] BY <1>1, <1>2, ReceivedNext
  <2>2. Received = [i \in 1..Len(acks) |-> Entry(acks[i])] BY <1>2, ReceivedNow
  <2>3. QED BY <1>1, <2>1, <2>2
<1>3. CASE ~Faultless
  <2>1. Received = <<>> /\ Received' = <<>> BY <1>1, <1>3 DEF Received
  <2>2. QED BY <1>1, <2>1
<1>4. QED BY <1>2, <1>3

\* The write of the last chunk completes the next file that is not empty.
LEMMA Completes ==
  ASSUME IInv, Whole, IInv', Whole', Next, Write, Faultless, msg.cmd = "END"
  PROVE  T!Next
<1>0. Types /\ Shape /\ InTurn /\ Reading /\ Acknowledged BY DEF IInv, Whole
<1>1. Chunks' = Chunks /\ (Faultless' <=> Faultless) BY PlanStays
<1>2. rpc = "write" /\ InFile /\ acks' = Append(acks, path) BY DEF Write, InFile
<1>3. path = msg.file /\ path \in Files /\ msg.chunk \in 1..Chunks[path] BY <1>0, <1>2 DEF Reading
<1>4. /\ Len(acks) \in Nat /\ (\A i \in 1..Len(acks) : acks[i] \in Files) /\ (\A g \in Files : g \in Nat)
      /\ Files = 1..Len(Chunks) /\ Chunks[path] \in Nat
  BY <1>0, <1>3, FileNumbers, ChunksType, ElementOfSeq
<1>5. Chunks[path] > 0 BY <1>3, <1>4
<1>6. Received = [i \in 1..Len(acks) |-> Entry(acks[i])] BY ReceivedNow
<1>7. Received' = [i \in 1..Len(acks') |-> Entry(acks'[i])] BY <1>1, ReceivedNext
<1>8. Len(Received) = Len(acks) /\ \A i \in 1..Len(acks) : Received[i].file = acks[i]
  <2>1. \A f : Entry(f).file = f BY DEF Entry
  <2>2. Len(Received) = Len(acks) BY <1>4, <1>6
  <2>3. \A i \in 1..Len(acks) : Received[i] = Entry(acks[i]) BY <1>6
  <2>4. QED BY <2>1, <2>2, <2>3
<1>9. \A i \in 1..Len(Received) : Received[i].file < path
  BY <1>0, <1>2, <1>8 DEF InTurn
<1>10. ASSUME NEW g \in 1..(path - 1), Chunks[g] > 0
       PROVE  \E i \in 1..Len(Received) : Received[i].file = g
  <2>1. Len(Chunks) \in Nat /\ path \in 1..Len(Chunks) BY <1>0, <1>3, <1>4, CursorPlace
  <2>2. g \in Files /\ g < msg.file BY <1>3, <1>4, <1>10, <2>1
  <2>3. PICK i \in 1..Len(acks) : acks[i] = g BY <1>0, <1>10, <2>2 DEF Acknowledged
  <2>4. QED BY <1>8, <2>3
<1>11. T!NextFile(path) BY <1>5, <1>9, <1>10 DEF T!NextFile
<1>12. Received' = Append(Received, Entry(path))
  <2>1. \A i : i \in 1..Len(acks) => Entry(acks[i]) \in {Entry(f) : f \in Files} BY <1>4
  <2>. DEFINE E == {Entry(f) : f \in Files}
  <2>2. Received \in Seq(E) BY <1>4, <1>6, <2>1
  <2>3. Entry(path) \in E BY <1>3
  <2>4. acks \in Seq(Files) BY <1>0 DEF Types
  <2>. HIDE DEF E
  <2>5. /\ Len(acks') = Len(acks) + 1 /\ acks'[Len(acks) + 1] = path
        /\ \A i \in 1..Len(acks) : acks'[i] = acks[i]
    BY <1>2, <1>3, <2>4, AppendProperties
  <2>6. /\ Append(Received, Entry(path)) \in Seq(E)
        /\ Len(Append(Received, Entry(path))) = Len(Received) + 1
        /\ Append(Received, Entry(path))[Len(Received) + 1] = Entry(path)
        /\ \A i \in 1..Len(Received) : Append(Received, Entry(path))[i] = Received[i]
    BY <2>2, <2>3, AppendProperties
  <2>7. Append(Received, Entry(path))
        = [i \in 1..(Len(acks) + 1) |-> Append(Received, Entry(path))[i]]
    <3>1. \A s \in Seq(E) : s = [i \in 1..Len(s) |-> s[i]] OBVIOUS
    <3>2. QED BY <1>8, <2>6, <3>1
  <2>8. \A i \in 1..(Len(acks) + 1) : Append(Received, Entry(path))[i] = Entry(acks'[i])
    <3>1. \A i \in 1..(Len(acks) + 1) : i \in 1..Len(acks) \/ i = Len(acks) + 1 BY <1>4
    <3>2. \A i \in 1..Len(acks) : Append(Received, Entry(path))[i] = Entry(acks'[i])
      BY <1>6, <1>8, <2>5, <2>6
    <3>3. Append(Received, Entry(path))[Len(acks) + 1] = Entry(acks'[Len(acks) + 1])
      BY <1>8, <2>5, <2>6
    <3>4. QED BY <3>1, <3>2, <3>3
  <2>9. QED BY <1>7, <2>5, <2>7, <2>8
<1>13. T!Content(path) = Content(path) BY DEF T!Content, Content
<1>14. T!Complete(path) BY <1>1, <1>11, <1>12, <1>13 DEF T!Complete, Entry
<1>15. QED BY <1>3, <1>4, <1>14 DEF T!Next

\* A step of the transfer is one of module Transfer or changes nothing there.
LEMMA StepRefines ==
  IInv /\ Whole /\ IInv' /\ Whole' /\ [Next]_vars => [T!Next]_<<Chunks, Received>>
<1>. SUFFICES ASSUME IInv, Whole, IInv', Whole', [Next]_vars PROVE [T!Next]_<<Chunks, Received>>
  OBVIOUS
<1>1. CASE acks' = acks BY <1>1, Stutters
<1>2. CASE ~Faultless
  <2>1. Chunks' = Chunks /\ ~Faultless' BY <1>2, PlanStays
  <2>2. Received = <<>> /\ Received' = <<>> BY <1>2, <2>1 DEF Received
  <2>3. QED BY <2>1, <2>2
<1>3. CASE acks' # acks /\ Faultless
  <2>1. Write /\ msg.cmd = "END"
    BY <1>3 DEF Next, SenderStep, ReceiverStep, SendHeader, SendPayload, EndFile, Finish, Crash,
       Arrive, StartFile, CannotOpen, IgnoreString, ReturnHeader, Abort, EndOfCommands, CheckBytesWaiting,
       RecvPayload, Write, NextHeader, Incomplete, vars, rcvVars
  <2>2. Next BY <2>1 DEF Next, ReceiverStep
  <2>3. QED BY <1>3, <2>1, <2>2, Completes
<1>4. QED BY <1>1, <1>2, <1>3

\* As long as the payloads come with their headers, the sender lives and the files can
\* be created, the connection does what module Transfer promises, for every plan: each
\* file that is not empty is acknowledged in its turn, once, and stored as it was sent.
THEOREM TransfersAlwaysWhole == Spec => TransfersWhole
<1>1. Init => T!Init
  <2>1. SUFFICES ASSUME Init PROVE T!Init OBVIOUS
  <2>2. plan \in Plans /\ Len(acks) = 0 BY <2>1 DEF Init
  <2>3. Received = <<>> BY <2>2 DEF Received
  <2>4. Chunks \in {q.chunks : q \in Plans} BY <2>2 DEF Chunks
  <2>5. QED BY <2>3, <2>4 DEF T!Init
<1>2. QED BY <1>1, Inductive, FaultlessWhole, StepRefines, PTL DEF Spec, TransfersWhole, T!Spec
==============================================================================
