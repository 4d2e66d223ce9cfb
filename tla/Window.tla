------------------------------- MODULE Window -------------------------------
(***************************************************************************)
(* The WPF client: its window with the list of the server's files (shown    *)
(* twice, on the upload and on the download tab), its thread that shows what *)
(* arrives, the channel to Client's queues, and as much of the server as     *)
(* shows what becomes of the strings that are sent: a path picked by the     *)
(* user becomes a message, a name in the repository, an entry of a list, and *)
(* in the end a path in a request again.  Module Repository has the order    *)
(* of messages and the ends of processes in full.                           *)
(*                                                                         *)
(* A handler of the window ends with Dispatcher->Invoke of a status text,    *)
(* which first runs what the thread has invoked before: it takes effect as   *)
(* the handler and the thread's call one after the other.                    *)
(*                                                                         *)
(* A file may not get through: its receiver cannot create it, or the         *)
(* connection breaks.  A receiver that has not created the file takes its    *)
(* content for headers; module FileTransfer shows that this, like a header   *)
(* cut short, may abort the process.  Here the program may end.              *)
(***************************************************************************)
EXTENDS MessageText

CONSTANTS LocalFiles,   \* paths the user may pick or type, of files there are
          Empty,        \* those of them that are empty
          RepoPath,     \* the server's receiver path; the client's is DownloadPath
          DownloadPath,
          Before,       \* what others may have uploaded before: sets of files
          Times,        \* the server's clock readings, one for each upload
          MaxClicks,    \* bound: how often the buttons are clicked
          MaxSelected   \* bound: entries selected at a time, in both lists

\* What a header can carry; Windows allows neither character in a path.
IsClean(s) == s \in Seq(STRING) /\ ToSet(s) \cap {EOT, SEPARATOR} = {}

\* A path of one of the user's files: behind the separator where its name begins it
\* has neither another kind of separator nor a drive.
IsLocal(p) == IsClean(p) /\ p # <<>> /\ ToSet(GetName(p)) \cap {"\\", "C:"} = {}

\* Where the server stores an upload: in the package named after the file, in the
\* version named after the time.
StoredPath(name, t) == GetFullFileSpec(RepoPath \o GetFileName(name) \o <<"/", t, "/">> \o name)

\* Seconds since 1970, in digits.
IsTime(t) == t \in STRING \ {EOT, SEPARATOR, "/", "\\", "C:"}

ASSUME PathsAssumption ==
  /\ Empty \subseteq LocalFiles
  /\ \A p \in LocalFiles : IsLocal(p)
  /\ \A p \in {RepoPath, DownloadPath} :
       IsClean(p) /\ Len(p) > 1 /\ Last(p) = "/" /\ "C:" \notin ToSet(p)
ASSUME TimesAssumption == \A t \in Times : IsTime(t)
\* The same server stored what was there before.
ASSUME BeforeAssumption ==
  \A files \in Before :
    /\ IsFiniteSet(files)
    /\ \A f \in files : /\ IsLocal(f.local) /\ IsTime(f.time)
                         /\ f.path = StoredPath(GetName(f.local), f.time)
                         /\ f.empty \in BOOLEAN
ASSUME BoundsAssumption == MaxClicks \in Nat /\ MaxSelected \in Nat

VARIABLES uploadFile,  \* the text box with the file to upload
          listed,      \* hallFilesList->Items, hallFilesList_E->Items
          selected,    \* SelectedItems of the list of the upload tab, as selected
          selectedE,   \* and of the download tab
          pending,     \* the message whose display the thread has invoked
          shown,       \* the messages displayed, in order
          posted,      \* the messages posted, with what the user had selected
          sndrQueue,   \* Client::sndrQueue
          net,         \* requests on their connections to the server
          replies,     \* what the server has sent
          rcvrQueue,   \* Client::rcvrQueue
          stored,      \* the server's files: path, local path, depFiles of the metadata,
                       \* and whether they are empty
          up,          \* the server is up
          clientUp,    \* the client is
          failed       \* the requests whose file did not get through

uiVars == <<uploadFile, listed, selected, selectedE>>
clientVars == <<uiVars, pending, shown, posted, sndrQueue, rcvrQueue>>
serverVars == <<stored, up>>
faults == <<clientUp, failed>>
vars == <<clientVars, serverVars, faults, net, replies>>

Nothing == [n |-> 0, dep |-> FALSE, text |-> <<>>]

Message(command, fileName, body) ==
  [field \in ToSet(Fields) |->
     CASE field = "command" -> <<command>> [] field = "fileName" -> fileName
       [] field = "body" -> body [] field = "to_Addr" -> <<"server">> [] OTHER -> <<>>]

Init == /\ uploadFile = <<"Please", " ", "Select", " ", "File">>
        /\ listed = <<>> /\ selected = <<>> /\ selectedE = <<>>
        /\ pending = Nothing /\ shown = <<>> /\ posted = <<>>
        /\ sndrQueue = <<>> /\ net = {} /\ replies = {} /\ rcvrQueue = <<>>
        /\ stored \in Before /\ up = TRUE
        /\ clientUp = TRUE /\ failed = {}

------------------------------------------------------------------------------
(* The user and the window's handlers.                                       *)

CanClick == Len(posted) < MaxClicks
CanSelect == CanClick /\ Len(selected) + Len(selectedE) < MaxSelected

\* onSelectFileButtonClick, or typing.
PickFile(f) ==
  /\ CanClick /\ uploadFile # f
  /\ uploadFile' = f
  /\ UNCHANGED <<listed, selected, selectedE, pending, shown, posted, sndrQueue, rcvrQueue,
                 serverVars, faults, net, replies>>

Select(i) ==
  /\ CanSelect /\ i \notin ToSet(selected)
  /\ selected' = Append(selected, i)
  /\ UNCHANGED <<uploadFile, listed, selectedE, pending, shown, posted, sndrQueue, rcvrQueue,
                 serverVars, faults, net, replies>>

SelectE(i) ==
  /\ CanSelect /\ i \notin ToSet(selectedE)
  /\ selectedE' = Append(selectedE, i)
  /\ UNCHANGED <<uploadFile, listed, selected, pending, shown, posted, sndrQueue, rcvrQueue,
                 serverVars, faults, net, replies>>

\* Mutant: postMessage after the loop, with the last of them.
PostLast(msgs, chosen) ==
  /\ posted' = posted \o [k \in 1..Len(msgs) |-> [msg |-> msgs[k], chosen |-> chosen]]
  /\ sndrQueue' = Append(sndrQueue, [n |-> Len(posted) + Len(msgs), msg |-> Last(msgs)])
  /\ UNCHANGED <<uiVars, pending, shown, rcvrQueue, serverVars, faults, net, replies>>

\* postMessage of each of some messages: it goes through MockChannel to the queue.
PostAll(msgs, chosen) ==
  /\ posted' = posted \o [k \in 1..Len(msgs) |-> [msg |-> msgs[k], chosen |-> chosen]]
  /\ sndrQueue' = sndrQueue \o [k \in 1..Len(msgs) |-> [n |-> Len(posted) + k, msg |-> msgs[k]]]
  /\ UNCHANGED <<uiVars, pending, shown, rcvrQueue, serverVars, faults, net, replies>>

Items(sel) == [k \in 1..Len(sel) |-> listed[sel[k]]]

\* onUploadButtonClick: pop_back cuts off the last separator, or the "A" of "NA".
Upload ==
  /\ CanClick
  /\ PostAll(<<Message("uploadRequest", uploadFile,
                       IF selected = <<>> THEN Front(NA) ELSE Join(Items(selected)))>>,
             ToSet(Items(selected)))

\* onGetAllFilesButtonClick.
GetAllFiles == CanClick /\ PostAll(<<Message("reqgetallfiles", NA, <<"Get", " ", "Files">>)>>, {})

\* onDownloadButtonClick: a message for each file selected, none if there is none.
Download ==
  /\ CanClick /\ selectedE # <<>>
  /\ PostAll([k \in 1..Len(selectedE) |->
                Message("downloadRequest", Items(selectedE)[k], <<"true">>)],
             ToSet(Items(selectedE)))

------------------------------------------------------------------------------
(* The window's thread and what it invokes.                                  *)

\* getMessage, then Dispatcher->Invoke: the thread waits until it has run.
GetMessage ==
  /\ pending = Nothing /\ rcvrQueue # <<>>
  /\ pending' = Head(rcvrQueue)
  /\ rcvrQueue' = Tail(rcvrQueue)
  /\ UNCHANGED <<uiVars, shown, posted, sndrQueue, serverVars, faults, net, replies>>

Displayed == /\ shown' = Append(shown, pending) /\ pending' = Nothing
             /\ UNCHANGED <<uploadFile, posted, sndrQueue, rcvrQueue, serverVars, faults, net, replies>>

\* An answer that lists files; the server with none answers "NA".
ListsFiles(m) == m["command"] = <<"32">> /\ Split(m["body"], FILES_SEP)[1] # NA

\* Mutant: the lists are not cleared.
AddToListBox(m) ==
  /\ ListsFiles(m)
  /\ listed' = listed \o Split(m["body"], FILES_SEP)
  /\ UNCHANGED <<selected, selectedE>>
  /\ Displayed

\* updateListBox: the lists are cleared, with what was selected, and filled again.
UpdateListBox(m) ==
  /\ ListsFiles(m)
  /\ listed' = Split(m["body"], FILES_SEP)
  /\ selected' = <<>> /\ selectedE' = <<>>
  /\ Displayed

\* updateStatusbar: an acknowledgement, or no file on the server.
UpdateStatusbar(m) ==
  /\ ~ListsFiles(m)
  /\ UNCHANGED <<listed, selected, selectedE>>
  /\ Displayed

------------------------------------------------------------------------------
(* Client: the sender thread.  What is posted becomes a string.              *)

\* senderFactory; the last header of an upload has END_UPLOAD.
Command == [uploadRequest |-> "02", reqgetallfiles |-> "31", downloadRequest |-> "14"]

Sent(m) == CreateHTTPMessage([m EXCEPT !["command"] = <<Command[Head(m["command"])]>>,
                                       !["from_Addr"] = <<"client">>])

\* The file that a message offers has something to send: a header goes before each
\* part of its content, and an empty file has none.
Offers(m) == m["fileName"] \in LocalFiles \ Empty

\* processRequest; a file that is not there or is empty is not sent.
ClientSend ==
  /\ sndrQueue # <<>>
  /\ LET m == Head(sndrQueue).msg
     IN  net' = IF m["command"] # <<"uploadRequest">> \/ Offers(m)
                THEN net \cup {[n |-> Head(sndrQueue).n, text |-> Sent(m)]} ELSE net
  /\ sndrQueue' = Tail(sndrQueue)
  /\ UNCHANGED <<uiVars, pending, shown, posted, rcvrQueue, serverVars, faults, replies>>

------------------------------------------------------------------------------
(* The server's handler threads, and the way back.                           *)

\* An answer to request r: createHTTPMessage, the addresses swapped.
Answer(r, m, dep) ==
  [n |-> r.n, dep |-> dep,
   text |-> CreateHTTPMessage([m EXCEPT !["to_Addr"] = m["from_Addr"], !["from_Addr"] = m["to_Addr"]])]

Answered(r, m) ==
  /\ net' = net \ {r}
  /\ replies' = replies \cup {Answer(r, m, FALSE)}
  /\ UNCHANGED clientVars

Paths == {f.path : f \in stored}

\* addFileMD: the names of a body other than "NA".
Dependencies(m) == IF m["body"] = NA THEN {} ELSE ToSet(Split(m["body"], FILES_SEP))

\* A file with its metadata, stored at time t.
Uploaded(r, m, t, empty) ==
  [path |-> StoredPath(GetName(m["fileName"]), t), time |-> t, local |-> m["fileName"],
   deps |-> Dependencies(m), empty |-> empty, n |-> r.n]

OtherTimes == Times \ {f.time : f \in stored}

\* getFile, and the acknowledgement.
StoreUpload(r, m) ==
  /\ up /\ m["command"] = <<"02">> /\ HasExtension(GetName(m["fileName"]))
  /\ \E t \in OtherTimes :
       /\ stored' = stored \cup {Uploaded(r, m, t, FALSE)}
       /\ Answered(r, [m EXCEPT !["command"] = <<"05">>,
                                !["fileName"] = StoredPath(GetName(m["fileName"]), t)])
  /\ UNCHANGED <<up, faults>>

\* "Upload Failed", and no answer.  The file could not be created, or a part of it is
\* there: the stream that writes it is never closed, so the part may be empty.
FailUpload(r, m) ==
  /\ up /\ m["command"] = <<"02">> /\ HasExtension(GetName(m["fileName"]))
  /\ \/ UNCHANGED stored
     \/ \E t \in OtherTimes, empty \in BOOLEAN : stored' = stored \cup {Uploaded(r, m, t, empty)}
  /\ failed' = failed \cup {r.n}
  /\ up' \in BOOLEAN
  /\ net' = IF up' THEN net \ {r} ELSE {}
  /\ UNCHANGED <<clientVars, clientUp, replies>>

\* A name without an extension: getFileName throws, nothing catches it in the
\* handler thread, and the server ends.
CrashOnUpload(r, m) ==
  /\ up /\ m["command"] = <<"02">> /\ ~HasExtension(GetName(m["fileName"]))
  /\ up' = FALSE /\ net' = {}
  /\ UNCHANGED <<clientVars, stored, faults, replies>>

\* getFiles with its patterns: no metadata, and none of another extension.
Extension(path) == SubSeq(path, LastOf(path, ".") + 1, Len(path))
AllFiles == {p \in Paths : Extension(p) \in {<<"h">>, <<"cpp">>, <<"txt">>}}

\* getAllServerFiles.
ListFiles(r, m) ==
  /\ up /\ m["command"] = <<"31">>
  /\ Answered(r, [m EXCEPT !["command"] = <<"32">>,
                           !["body"] = IF AllFiles = {} THEN NA ELSE Join(SetToSeq(AllFiles))])
  /\ UNCHANGED <<serverVars, faults>>

\* The stored files with something to send.
Sendable == {f.path : f \in {g \in stored : ~g.empty}}

\* A file and, for the body is "true", what its metadata names, theirs, and so on.
Needed(path) ==
  LET WithDependencies(S) == \A f \in stored : f.path \in S => f.deps \cap Paths \subseteq S
  IN  {q \in Paths : \A S \in SUBSET Paths : path \in S /\ WithDependencies(S) => q \in S}

\* At the client a file is stored under its name and acknowledged with its path there.
Acknowledged(m, path) == [m EXCEPT !["command"] = <<"15">>,
                                   !["fileName"] = GetFullFileSpec(DownloadPath \o GetName(path))]

\* fileDownloadHandler, Server::processRequest and the client's receiver: of the files
\* that are sent, got get through.
SendFile(r, m) ==
  LET path == m["fileName"]
      files == Needed(path) \cap Sendable
  IN  /\ up /\ m["command"] = <<"14">> /\ path \in Paths
      /\ \E got \in SUBSET files :
           /\ replies' = replies \cup {Answer(r, Acknowledged(m, q), q # path) : q \in got}
           /\ failed' = IF path \in files \ got THEN failed \cup {r.n} ELSE failed
           /\ clientUp' = clientUp \/ (got # files /\ clientUp' = FALSE)
      /\ net' = net \ {r}
      /\ UNCHANGED <<clientVars, serverVars>>

\* sendFile cannot open a path that is none: no answer.
NoSuchFile(r, m) ==
  /\ up /\ m["command"] = <<"14">> /\ m["fileName"] \notin Paths
  /\ net' = net \ {r}
  /\ UNCHANGED <<clientVars, serverVars, faults, replies>>

\* Receiver::operator(): the message is parsed and dispatched.
Serve(r, m) == \/ StoreUpload(r, m) \/ FailUpload(r, m) \/ CrashOnUpload(r, m)
               \/ ListFiles(r, m) \/ SendFile(r, m) \/ NoSuchFile(r, m)

\* The client's receiver enqueues an answer.  Those to different requests come over
\* connections of their own; on one the file that was asked for comes first, and its
\* dependencies as an unordered set has them.
Receive(a) ==
  /\ a.dep => \A b \in replies : b.n = a.n => b.dep
  /\ replies' = replies \ {a}
  /\ rcvrQueue' = Append(rcvrQueue, a)
  /\ UNCHANGED <<uiVars, pending, shown, posted, sndrQueue, serverVars, faults, net>>

------------------------------------------------------------------------------
User == \/ \E f \in LocalFiles : PickFile(f)
        \/ \E i \in 1..Len(listed) : Select(i) \/ SelectE(i)
        \/ Upload \/ GetAllFiles \/ Download

Show(m) == UpdateListBox(m) \/ UpdateStatusbar(m)

Display == \/ GetMessage
           \/ pending # Nothing /\ Show(ParseStringMessage(pending.text))

Client == clientUp /\ (User \/ Display \/ ClientSend \/ \E a \in replies : Receive(a))

Next == Client \/ \E r \in net : Serve(r, ParseStringMessage(r.text))

Spec == Init /\ [][Next]_vars

------------------------------------------------------------------------------
\* No path that was uploaded holds the separator of lists, which is a legal
\* character of a file name: with it, a name falls into two in every list.
NoSeparatorInNames == \A f \in stored : FILES_SEP \notin ToSet(f.path)

\* A stored path, or a piece of one that the separator has cut.
Survives(e) ==
  \/ e \in Paths
  \/ \E p \in Paths : /\ FILES_SEP \in ToSet(p)
                      /\ \E i \in 1..Len(p) + 1, j \in 0..Len(p) : e = SubSeq(p, i, j)

\* A path survives its way through messages, the repository, the list of files and
\* back: each entry of the lists is a stored file, and a download asks for one, also
\* beside a path that falls into pieces, of which an empty one is written as "NA";
\* without such a path no file is listed twice.  A file is named as the one that was
\* uploaded.
PathsSurvive ==
  /\ \A e \in ToSet(listed) : Survives(e)
  /\ NoSeparatorInNames => IsInjective(listed)
  /\ \A f \in stored : GetName(f.path) = GetName(f.local)
  /\ \A r \in net : LET m == ParseStringMessage(r.text)
                    IN  m["command"] = <<"14">> => m["fileName"] = NA \/ Survives(m["fileName"])

\* What the metadata of an upload names as its dependencies is what the user had
\* selected when clicking, whatever list arrived since; with nothing selected it
\* is a file "N" that nobody has.
DependenciesAsChosen ==
  NoSeparatorInNames =>
    \A f \in stored \ UNION Before :
      LET chosen == posted[f.n].chosen
      IN  f.deps = IF chosen = {} THEN {Front(NA)} ELSE chosen

\* A "." before the last separator of a path is no extension.
NoExtension(path) ==
  \A i \in 1..Len(path) : path[i] = "." => \E j \in i..Len(path) : path[j] \in {"/", "\\"}

\* Only a file without an extension in its name brings the server down, or an upload
\* whose content the server took for a header: every header that a program wrote it
\* can take apart, for behind each separator there is a value.
OnlyBareNamesCrash ==
  /\ ~up => \E i \in 1..Len(posted) :
              /\ posted[i].msg["command"] = <<"uploadRequest">>
              /\ NoExtension(posted[i].msg["fileName"]) \/ i \in failed
  /\ \A t \in net \cup replies : InRange(t.text)

\* The file that a request names is there, at its sender or on the server, and has
\* something to send.
FileIsThere(m) == CASE m["command"] = <<"uploadRequest">>   -> Offers(m)
                    [] m["command"] = <<"downloadRequest">> -> m["fileName"] \in Sendable
                    [] OTHER -> TRUE

\* When nothing is on its way any more, every request has been answered in the
\* window, also each of several posted by one click and one that no file answers,
\* by an answer of its own and not by one of its dependencies: unless one of the
\* programs is down, the file asked for or offered is not there or is empty, or it did
\* not get through.
RequestsAnswered ==
  /\ up /\ clientUp
  /\ sndrQueue = <<>> /\ net = {} /\ replies = {} /\ rcvrQueue = <<>> /\ pending = Nothing
  => \A n \in 1..Len(posted) \ failed :
       FileIsThere(posted[n].msg) => \E i \in 1..Len(shown) : shown[i].n = n /\ ~shown[i].dep
==============================================================================
