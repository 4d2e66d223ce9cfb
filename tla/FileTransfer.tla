---------------------------- MODULE FileTransfer ----------------------------
(***************************************************************************)
(* One connection over which files travel: Sender::sendFile at one end, the *)
(* TCP stream, and Receiver::operator() with getFile, fileWriter and        *)
(* buffReader at the other.  A client opens such a connection to upload one *)
(* file and shuts it down; the server opens one to send a downloaded file   *)
(* with its dependencies and never closes it.                               *)
(*                                                                         *)
(* sendFile sends each chunk as a header (a zero terminated string) and a   *)
(* payload (contentLen bytes), by separate calls of ::send, so the payload  *)
(* may reach the receiver later than its header.  A payload here is text:   *)
(* it holds no zero byte and no EOT, so that recvString, started on a       *)
(* payload, reads on to the end of the next header and the parser then      *)
(* finds no "command" attribute in the two together.  Whether a payload has  *)
(* a separator in it, and where in an attribute a header was cut, is left    *)
(* open: without a value behind the separator the parser reads past the end *)
(* of a vector.                                                             *)
(***************************************************************************)
EXTENDS Naturals, Sequences

CONSTANT Plans   \* what may be sent over a connection, and how it may go wrong:
                 \*   chunks: the number of BUFF_SIZE chunks of each file (0 if it is
                 \*           empty or cannot be opened)
                 \*   closes: the sender closes after the last file
                 \*   prompt: a payload arrives with its header
                 \*   ends:   how the stream may end if the sending end dies
                 \*   opens:  the receiver is able to create every file

ASSUME PlansAssumption ==
  Plans \subseteq [chunks : Seq(Nat), closes : BOOLEAN, prompt : BOOLEAN,
                   ends : SUBSET {"fin", "rst"}, opens : BOOLEAN]

VARIABLES plan,     \* the member of Plans sent over this connection
          file,     \* Sender: the file being sent
          chunk,    \* Sender: the chunk of it to send next
          spc,      \* Sender: "header", "payload", "finished", "closed", "dead"
          wire,     \* sent and not yet arrived
          inbox,    \* arrived and not yet read from the socket
          ended,    \* how the stream ends after wire: "no", "fin" or "rst"
          rpc,      \* Receiver: "command", "check", "recv", "write", "more",
                    \* "spin", "done"; "aborted" if its process is
          msg,      \* Receiver: rcvMessage, the header parsed last
          path,     \* Receiver: the file that outFile writes
          buffer,   \* Receiver: fileWriter's local buffer
          disk,     \* disk[f]: what was written to file f
          acks,     \* _rcvQueue: the files acknowledged, in order
          returned  \* _rcvQueue: headers enqueued as they came, without a file name

Chunks == plan.chunks
Closes == plan.closes
Files == 1..Len(Chunks)

sndVars == <<file, chunk, spc>>
rcvVars == <<rpc, msg, path, buffer, disk, acks, returned>>
vars == <<plan, sndVars, wire, inbox, ended, rcvVars>>

\* What travels and what is stored.  Garbage: the uninitialised buffer.
Header(c, f, k) == [type |-> "header", cmd |-> c, file |-> f, chunk |-> k]
Data(f, k, w) == [type |-> "data", file |-> f, chunk |-> k, whole |-> w]
Garbage == Data(0, 0, FALSE)
\* A string without a "command" attribute; the length it carries is k's of f.
NoCommand(f, k) == [cmd |-> "", file |-> f, chunk |-> k]

Init == /\ plan \in Plans
        /\ file = 1 /\ chunk = 1 /\ spc = "header"
        /\ wire = <<>> /\ inbox = <<>> /\ ended = "no"
        /\ rpc = "command" /\ msg = NoCommand(0, 0) /\ path = 0
        /\ buffer = Garbage
        /\ disk = [f \in Files |-> <<>>]
        /\ acks = <<>> /\ returned = 0

------------------------------------------------------------------------------
(* Sender::sendFile.  "START" stands for START_UPLOAD and START_DOWNLOAD,    *)
(* "END" for END_UPLOAD and END_DOWNLOAD.                                    *)

\* Mutant: the last header of a file is not told from the others.
SendHeaderNoEnd ==
  /\ spc = "header" /\ file \in Files /\ chunk <= Chunks[file]
  /\ wire' = Append(wire, Header("START", file, chunk))
  /\ spc' = "payload"
  /\ UNCHANGED <<plan, file, chunk, inbox, ended, rcvVars>>

SendHeader ==
  /\ spc = "header" /\ file \in Files /\ chunk <= Chunks[file]
  /\ wire' = Append(wire, Header(IF chunk = Chunks[file] THEN "END" ELSE "START", file, chunk))
  /\ spc' = "payload"
  /\ UNCHANGED <<plan, file, chunk, inbox, ended, rcvVars>>

\* sendStream: one ::send, which on a blocking socket takes all bytes or fails.
SendPayload ==
  /\ spc = "payload"
  /\ wire' = Append(wire, Data(file, chunk, TRUE))
  /\ chunk' = chunk + 1
  /\ spc' = "header"
  /\ UNCHANGED <<plan, file, inbox, ended, rcvVars>>

\* The loop of sendFile is over (at once for an empty file): on to the next one.
EndFile ==
  /\ spc = "header" /\ file \in Files /\ chunk > Chunks[file]
  /\ file' = file + 1
  /\ chunk' = 1
  /\ UNCHANGED <<plan, spc, wire, inbox, ended, rcvVars>>

\* Client::processRequest ends with si.shutDown(); Server::processRequest does not.
Finish ==
  /\ spc = "header" /\ file \notin Files
  /\ spc' = IF Closes THEN "closed" ELSE "finished"
  /\ ended' = IF Closes THEN "fin" ELSE "no"
  /\ UNCHANGED <<plan, file, chunk, wire, inbox, rcvVars>>

\* An item cut off by a crash.  Of a payload the first bytes are left; of a header
\* the first attributes, in the order command, addresses, fileName, contentLen
\* (a missing contentLen is 0, a missing fileName or command is empty).
Cut(item) ==
  IF item.type = "data" THEN {Data(item.file, item.chunk, FALSE)}
  ELSE {Header(item.cmd, item.file, 0), Header(item.cmd, 0, 0), Header("", 0, 0)}

\* The sending process or its machine dies.  What was in flight is lost from
\* some point on, maybe in the middle of an item; the receiver sees an orderly
\* end ("fin") or a reset ("rst").
Crash ==
  /\ spc \in {"header", "payload"}
  /\ spc' = "dead"
  /\ ended' \in plan.ends
  /\ \E n \in 0..Len(wire) :
       \/ wire' = SubSeq(wire, 1, n)
       \/ n > 0 /\ \E c \in Cut(wire[n]) : wire' = Append(SubSeq(wire, 1, n - 1), c)
  /\ UNCHANGED <<plan, file, chunk, inbox, rcvVars>>

------------------------------------------------------------------------------
(* The TCP stream: in order, nothing duplicated.                             *)

\* How much arrives in one piece: if it is prompt, a header with its payload.
Segment == IF plan.prompt /\ wire[1].type = "header" THEN 2 ELSE 1

Arrive ==
  /\ wire # <<>>
  /\ Segment <= Len(wire) \/ ended # "no"
  /\ LET n == IF Segment <= Len(wire) THEN Segment ELSE 1
     IN  /\ inbox' = inbox \o SubSeq(wire, 1, n)
         /\ wire' = SubSeq(wire, n + 1, Len(wire))
  /\ UNCHANGED <<plan, sndVars, ended, rcvVars>>

------------------------------------------------------------------------------
(* Receiver.                                                                 *)

AtEnd == inbox = <<>> /\ wire = <<>> /\ ended # "no"

\* recvString returns when it meets a terminator or the end of the stream.  A
\* header is a string; a payload left unread makes one string with the header
\* after it, or with the end of the stream.
StringReady == /\ inbox # <<>>
               /\ \/ inbox[1].type = "header"
                  \/ Len(inbox) > 1
                  \/ wire = <<>> /\ ended # "no"

StringItems == IF inbox[1].type = "data" /\ Len(inbox) > 1 THEN 2 ELSE 1

\* parseStringMessage of that string.
Parsed == IF inbox[1].type = "header"
          THEN [cmd |-> inbox[1].cmd, file |-> inbox[1].file, chunk |-> inbox[1].chunk]
          ELSE IF Len(inbox) > 1 THEN NoCommand(inbox[2].file, inbox[2].chunk)
          ELSE NoCommand(0, 0)

\* The string ends with the stream, in a payload or where its sender died.  What
\* stands there may have no separator, or no value behind one.
EndsShort == /\ wire = <<>> /\ Len(inbox) = StringItems
             /\ spc = "dead" \/ inbox[Len(inbox)].type = "data"

\* A header that has lost its file name and all the same goes into the queue: each of
\* an upload, and END_DOWNLOAD; START_DOWNLOAD opens the directory, which fails.
Nameless == Parsed.cmd # "" /\ Parsed.file = 0
Returned == Nameless /\ (Closes \/ Parsed.cmd = "END")

Drop(n) == inbox' = SubSeq(inbox, n + 1, Len(inbox))

\* operator(): a header starts a file.  getFile opens it, which empties it.
StartFile ==
  /\ rpc = "command" /\ StringReady
  /\ Parsed.cmd # "" /\ Parsed.file # 0
  /\ Drop(1)
  /\ rpc' = "check"
  /\ msg' = Parsed
  /\ path' = Parsed.file
  /\ buffer' = Garbage
  /\ disk' = [disk EXCEPT ![Parsed.file] = <<>>]
  /\ UNCHANGED <<plan, sndVars, wire, ended, acks, returned>>

\* fileWriter cannot open the file: no reply, and the payload stays unread.
CannotOpen ==
  /\ ~plan.opens
  /\ rpc = "command" /\ StringReady
  /\ Parsed.cmd # "" /\ Parsed.file # 0
  /\ Drop(1)
  /\ UNCHANGED <<plan, sndVars, wire, ended, rcvVars>>

\* operator(): a string without a known command starts nothing, nor does one without
\* a file name.
IgnoreString ==
  /\ rpc = "command" /\ StringReady
  /\ Parsed.cmd = "" \/ (Nameless /\ ~Returned)
  /\ Drop(StringItems)
  /\ UNCHANGED <<plan, sndVars, wire, ended, rcvVars>>

\* fileUploadHandler, fileDownloadHandler: without a file name the header is enqueued
\* as it came.
ReturnHeader ==
  /\ rpc = "command" /\ StringReady
  /\ Returned
  /\ Drop(1)
  /\ returned' = returned + 1
  /\ UNCHANGED <<plan, sndVars, wire, ended, rpc, msg, path, buffer, disk, acks>>

\* getAttributes reads KeyValue[1] of an attribute that has no value: a build that
\* checks the index ends the process.  In another the string is one without that
\* attribute, as above.
Abort ==
  /\ rpc \in {"command", "more"} /\ StringReady
  /\ EndsShort
  /\ rpc' = "aborted"
  /\ UNCHANGED <<plan, sndVars, wire, inbox, ended, msg, path, buffer, disk, acks, returned>>

\* operator(): recvString returns the empty string and the handler thread ends.
EndOfCommands ==
  /\ rpc = "command" /\ AtEnd
  /\ rpc' = "done"
  /\ UNCHANGED <<plan, sndVars, wire, inbox, ended, msg, path, buffer, disk, acks, returned>>

\* buffReader: when no byte has arrived it returns true without reading.
CheckBytesWaiting ==
  /\ rpc = "check"
  /\ rpc' = IF inbox = <<>> \/ msg.chunk = 0 THEN "write" ELSE "recv"
  /\ UNCHANGED <<plan, sndVars, wire, inbox, ended, msg, path, buffer, disk, acks, returned>>

\* buffReader: Socket::recv fills the buffer with the payload, or with the part
\* of it that came before the end of the stream.  After a reset ::recv returns
\* SOCKET_ERROR, which recv does not recognise: it calls ::recv for ever.
RecvPayload ==
  /\ rpc = "recv"
  /\ inbox # <<>>
  /\ inbox[1].whole \/ (wire = <<>> /\ ended # "no")
  /\ buffer' = inbox[1]
  /\ Drop(1)
  /\ rpc' = IF ~inbox[1].whole /\ ended = "rst" THEN "spin" ELSE "write"
  /\ UNCHANGED <<plan, sndVars, wire, ended, msg, path, disk, acks, returned>>

\* What fileWriter writes: contentLen bytes of the buffer, whatever they are.
Written == IF msg.chunk = 0 THEN <<>> ELSE <<[sized |-> <<msg.file, msg.chunk>>, data |-> buffer]>>

\* Mutant: fileWriter takes every header for the last one of its file.
WriteAndStop ==
  /\ rpc = "write"
  /\ disk' = [disk EXCEPT ![path] = @ \o Written]
  /\ acks' = Append(acks, path)
  /\ rpc' = "command"
  /\ UNCHANGED <<plan, sndVars, wire, inbox, ended, msg, path, buffer, returned>>

\* fileWriter: write the chunk; after an END header close the file, and the
\* handler enqueues the acknowledgement.
Write ==
  /\ rpc = "write"
  /\ disk' = [disk EXCEPT ![path] = @ \o Written]
  /\ IF msg.cmd = "END"
     THEN acks' = Append(acks, path) /\ rpc' = "command"
     ELSE rpc' = "more" /\ UNCHANGED acks
  /\ UNCHANGED <<plan, sndVars, wire, inbox, ended, msg, path, buffer, returned>>

\* fileWriter: the header of the next chunk.
NextHeader ==
  /\ rpc = "more" /\ StringReady
  /\ msg' = Parsed
  /\ Drop(StringItems)
  /\ rpc' = "check"
  /\ UNCHANGED <<plan, sndVars, wire, ended, path, buffer, disk, acks, returned>>

\* Mutant: fileWriter does not stop at the end of the stream.
IncompleteGoesOn ==
  /\ rpc = "more" /\ AtEnd
  /\ rpc' = "check"
  /\ UNCHANGED <<plan, sndVars, wire, inbox, ended, msg, path, buffer, disk, acks, returned>>

\* fileWriter: the stream ends before the END header: no acknowledgement, and
\* what was written stays.
Incomplete ==
  /\ rpc = "more" /\ AtEnd
  /\ rpc' = "command"
  /\ UNCHANGED <<plan, sndVars, wire, inbox, ended, msg, path, buffer, disk, acks, returned>>

------------------------------------------------------------------------------
SenderStep == SendHeader \/ SendPayload \/ EndFile \/ Finish
ReceiverStep == \/ StartFile \/ IgnoreString \/ ReturnHeader \/ Abort \/ EndOfCommands
                \/ CheckBytesWaiting \/ RecvPayload \/ Write
                \/ NextHeader \/ Incomplete

Next == SenderStep \/ Crash \/ Arrive \/ ReceiverStep \/ CannotOpen

Spec == Init /\ [][Next]_vars

\* The threads at both ends are scheduled and TCP delivers what was sent.
FairSpec == /\ Spec
            /\ WF_vars(SenderStep) /\ WF_vars(Arrive) /\ WF_vars(ReceiverStep)

------------------------------------------------------------------------------
Items == [type : {"header"}, cmd : {"START", "END", ""}, file : Nat, chunk : Nat]
         \cup [type : {"data"}, file : Nat, chunk : Nat, whole : BOOLEAN]

\* Type invariant.  A payload is only ever read where one stands in the stream.
TypeOK == /\ plan \in Plans
          /\ file \in 1..(Len(Chunks) + 1) /\ chunk \in Nat
          /\ spc \in {"header", "payload", "finished", "closed", "dead"}
          /\ wire \in Seq(Items) /\ inbox \in Seq(Items)
          /\ ended \in {"no", "fin", "rst"}
          /\ rpc \in {"command", "check", "recv", "write", "more", "spin", "done", "aborted"}
          /\ msg \in [cmd : {"START", "END", ""}, file : Nat, chunk : Nat]
          /\ path \in Files \cup {0}
          /\ buffer \in Items
          /\ acks \in Seq(Files) /\ returned \in Nat
          /\ rpc = "recv" /\ inbox # <<>> => inbox[1].type = "data"

\* The content a reader of the stored file f finds, as in module Transfer.
Stored(f) == [k \in 1..Len(disk[f]) |->
                IF disk[f][k].data.whole THEN <<disk[f][k].data.file, disk[f][k].data.chunk>>
                ELSE <<0, 0>>]

Content(f) == [k \in 1..Chunks[f] |-> <<f, k>>]

\* An acknowledged upload has the size of the file that was sent, chunk by chunk,
\* even when payloads came late: fileWriter writes contentLen bytes for each
\* header and acknowledges only after an END header parsed as such.  Only a header
\* cut by the sender's death, while its length is still to come, escapes that.
AckImpliesSize ==
  Len(Chunks) = 1 /\ spc # "dead" =>
    \A i \in 1..Len(acks) :
      [k \in 1..Len(disk[acks[i]]) |-> disk[acks[i]][k].sized] = Content(acks[i])

\* Whatever is lost, cut or late: files are acknowledged in the order of sending,
\* each at most once, and none before the sender has sent its last header.
AckAfterEnd ==
  /\ \A i, j \in 1..Len(acks) : i < j => acks[i] < acks[j]
  /\ \A i \in 1..Len(acks) :
    \/ file > acks[i]
    \/ /\ file = acks[i]
       /\ chunk > Chunks[file] \/ (chunk = Chunks[file] /\ spc \in {"payload", "dead"})

\* Into the queue goes, beside acknowledgements, at most the header in which the
\* sender died.
NothingElseQueued == returned <= IF spc = "dead" THEN 1 ELSE 0

\* Payloads come with their headers, the sender lives and every file is created.
Faultless == plan.prompt /\ plan.ends = {} /\ plan.opens

\* Refinement: the acknowledged files and what is stored for them, as long as the
\* transfer is faultless.
Received == IF Faultless
            THEN [i \in 1..Len(acks) |-> [file |-> acks[i], content |-> Stored(acks[i])]]
            ELSE <<>>
T == INSTANCE Transfer WITH
       Plans <- {q.chunks : q \in Plans}, chunks <- Chunks, received <- Received
TransfersWhole == T!Spec

\* In a faultless transfer every file that is not empty is eventually acknowledged.
EveryFileAcked ==
  Faultless => <>(\A f \in Files : Chunks[f] > 0 => \E i \in 1..Len(acks) : acks[i] = f)

\* Every payload came with its header, every file was created, and the sender lives.
InOrder == plan.prompt /\ plan.opens /\ spc # "dead"

\* Once the stream has come to an orderly end the handler thread ends, however far
\* out of step with the stream it is; it may take its process with it, over what is
\* left of a payload or a header, but only where something had gone wrong.
HandlerEnds == (ended = "fin") ~> (rpc = "done" \/ (rpc = "aborted" /\ ~InOrder))

\* Whatever is late, lost or cut, the state stays in its types, payloads are read
\* where payloads stand, an acknowledgement says that the last header was sent
\* and that the file has the size of what was sent, and nothing but acknowledgements
\* is sent back to a sender that lives.
TransferSafe == TypeOK /\ AckAfterEnd /\ AckImpliesSize /\ NothingElseQueued
==============================================================================
