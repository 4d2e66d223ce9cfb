# Remote Code Repository: specifications

TLA+ modules, TLC configurations and TLAPS proofs for the Remote Code Repository (`src/`): a
server that stores uploaded source files in dated version directories, a console client and a
WPF client that upload files, list what is stored and download files with their dependencies.

## 1. The system

Three processes run at a time (`run.bat`): the server on port 8090, the console client on 8083
and the WPF client on 8081. Every process has the same parts:

    GUI or main --postMessage--> sndrQueue --sender thread--> TCP connection
       --> handler thread (Receiver) of the server --> rcvrQueue of the server
       --> the server's one sender thread --> TCP connection
       --> handler thread (Receiver) of the client --> rcvrQueue --getMessage--> GUI

| component | state it keeps | operations | hard behaviour |
|---|---|---|---|
| BlockingQueue | `std::queue`, mutex, condition variable | enQ, deQ, clear, front, size, move | notify after unlock, spurious wakeups, moves that lock one side only |
| Sender | file being sent, bytes left | sendMessage, sendFile, senderFactory | header and payload are sent by separate calls; an empty file sends nothing |
| Receiver | message being handled, output file | operator(), getFile, fileWriter, buffReader, handlers | one thread for each connection; late payloads; end of stream inside a file |
| Server | rcvrQueue, sender connection | startSender, startReceiver, processRequest | many handler threads, one sender thread; connect retried for ever; stop by a queued message |
| Client | sndrQueue, rcvrQueue | startSender, startReceiver, postMessage, getMessage | replies arrive in any order; exit with requests in flight |
| Version store (`Receiver::getFile`, MetadataHandler) | directories, XML metadata, files on disk | getFile, MetadataHandler, addFileMD | concurrent read-modify-write without a lock; directories named by the second |
| MetadataHandler::getAllDepFiles | set of dependencies | getAllDepFilesHelper | recursion over cyclic dependencies; names of metadata files that do not match |
| Sockets | socket handle, hints | connect, accept, send, recv, recvString, waitForData | errors of recv not told from data, static counter, listener destroyed under its thread |
| Logger | queue, `_ThreadRunning` | start, stop, write | unsynchronised flag, stale "quit" |
| XmlDocument, XmlElement | tree, `found_` | add, remove, find, element, elements, descendents, select, size | results that are left in `found_` |
| XmlParser, XmlElementParts, Tokenizer | tokenizer buffer, element stack | get, putback, getTok, buildDocument | order of the putback buffer, ill-formed input |
| HTTPMessage | fields of a message | createHTTPMessage, parseStringMessage | empty values, missing values, separators inside values |
| FileMgr, FileSystem | `File` with its `good_` flag | find, getFiles, open, clear, getBlock | a failed file stays failed |
| WPF client, MockChannel | list boxes, a dispatcher thread | uploads, downloads, list | messages taken by a thread of their own |
| Utilities, WindowsHelpers, TestExec | none | string helpers, error texts, printed requirements | none |

## 2. Modules

| module | kind | what it models |
|---|---|---|
| `FifoQueue` | abstract | what the queue promises: each operation takes effect at one instant between call and return |
| `BlockingQueue` | component | the monitor: mutex, condition variable with a set of waiters, enQ, deQ, clear, one action per step under or outside the lock |
| `Transfer` | abstract | files are acknowledged in order and stored whole |
| `FileTransfer`, `FileTransfer_proof` | component, proofs | one connection: `sendFile`, the TCP stream, `operator()`, `fileWriter`, `buffReader` |
| `Repository`, `Repository_proof` | composition, proofs | server and clients: queues, sender threads, handler threads, start, stop, death of a client |
| `MessageText` | operators | messages, lists of files and paths as strings: `HTTPMessage`, `Path`, `StringHelper` |
| `Window`, `Window_proof` | composition, proofs | the WPF client with its user, its thread and its lists, and what becomes of its strings on the way to the server and back |
| `VersionStore`, `VersionStore_proof` | component, proofs | `getFile` in concurrent handler threads: version directories, metadata, files |
| `DepFiles` | component | `getAllDepFiles` as a walk with an explicit stack, and the download it serves |
| `XmlPrinter` | component | `toString` of the metadata in concurrent handler threads, over one static nesting count |
| `SharedState_proof` | proofs | `BlockingQueue` and `XmlPrinter`: the state that threads of one process share |
| `XmlTokens` | operators | the tokenizer with its putback buffer, `XmlParts::get` |
| `XmlParser` | component | what the parser makes of any text: `compress`, `enquoteText`, the rounds of `buildDocument` with the element stack |
| `XmlText` | operators | a document as text: what is printed, `trim` |
| `XmlReader` | component | a metadata file through its saves, crashes and loads |
| `XmlDocument` | component | the element tree and the queries that leave their results in `found_` |
| `Metadata_proof` | proofs | `DepFiles`, `XmlDocument` and `XmlParser`: the walk over the metadata, the queries it reads them with, the parser that makes documents of them |
| `Listing` | abstract | what `getFiles` promises while the tree grows |
| `FileSearch` | component | `FileMgr::find` over `Directory` and `FileSystemSearch`, directory by directory, pattern by pattern |
| `File` | operators | class `File`: open, lines, blocks, the states of its two streams, `good_` |
| `FileSystem`, `FileSystem_proof` | composition, proofs | a program that searches, copies and reads while others upload and write |
| `SocketListener` | component | the listener, the detached thread that accepts for it, stop and destruction, and the peers that connect |
| `Logger` | component | start, stop, write and the logging thread |
| `ListenerLog`, `ListenerLog_proof` | composition, proofs | the listen thread as a writer of a logger that the thread which started the listener starts and stops |
| `MC...` | instances | small constants for TLC |

How the modules fit together: `Repository` uses a queue as `FifoQueue` promises it (one step for
enQ, one for deQ), which `BlockingQueue` is shown and proved to implement; so does `Logger`.
`Repository` takes a file to travel whole or not at all, which `FileTransfer` is shown and proved to do
whenever payloads arrive with their headers and nobody dies (`Transfer`), and it takes an upload to
be stored in one step, which `VersionStore` opens up. `VersionStore` takes a metadata file to be
the set of its entries; what its text really holds is in `XmlReader` over `XmlParser` and `XmlText`, how it is
printed by several threads in `XmlPrinter`, and the queries `DepFiles` relies on in `XmlDocument`.
`Window` has the strings that `Repository` treats as values.

### BlockingQueue
`pc[t]`, `op[t]`, `arg[t]` stand for the frame of a thread inside an operation, `lock` for the
mutex, `waitset` for the threads asleep in `cv_.wait`. `NotifyOne` comes after `Unlock`, as in
the code (lines 131-132); `SpuriousWakeup` lets a sleeper wake at any time. `front` and `size`
change nothing and are left out.

### FileTransfer
`wire` is what is in flight, `inbox` what has arrived: `bytesWaiting` looks only at `inbox`.
`recvString` reads to the next zero byte: started on a payload (text, without zero bytes) it
swallows the header behind it, which is what `StringItems` and `Parsed` say. Where a string ends
with the stream, in what is left of a payload or of a header, its last attribute may have no value;
`getAttributes` reads past the end of a vector then (`HTTPMessage.cpp:64`), and the process may end
(`Abort`) or go on. A header that has lost its file name in that way may be enqueued as it came (`ReturnHeader`,
`Receiver.cpp:199-200`, `:230-231`). `sendStream` is one `::send` on a blocking socket, taken to send
all bytes or to fail. Bytes are abstracted to chunks: a chunk on disk remembers the header that gave its size and the payload,
whole, cut or uninitialised, that gave its content. `Crash` ends the sending process anywhere and
cuts the stream anywhere, an item in the middle included. What is sent, and what may go wrong, is
one record, `plan`, chosen at the start, so that one run covers faultless and faulty transfers;
`Faultless` tells them apart in the properties that need it.

### Repository
One action for each step of a thread: the GUI posts and reads, the client's sender thread
dequeues, connects and sends, a handler thread of the server first acts (stores, lists, turns a
download request round) and later enqueues its answer, the server's sender thread dequeues,
connects and sends. Connections are members of a set: nothing orders them.

### MessageText and Window
A string is a sequence of tokens: the characters the code looks for (`|`, `^`, `.`, `/`, `\`, EOT)
and words without them. `listed` is the content of both list boxes, `selected` and `selectedE` the
user's choice in each, as places in the list in the order of selecting, `pending` the message whose display the window's thread has invoked and
waits for. `posted` and `shown` are history. `StoreUpload` builds the path of a stored file as
`getFile` does, with a clock reading of its own for each upload (`VersionStore` has those that
share one); `CrashOnUpload` is the exception of `getFileName` that nothing catches. An empty file
is offered by nobody (`Offers`, `Sendable`: `Sender.cpp:39`). A file that its receiver cannot create, or
whose connection breaks, is not acknowledged (`FailUpload`, the files outside `got` in `SendFile`;
history: `failed`), and the receiver, which takes its content for headers, may end (`up`, `clientUp`). A download
brings what the metadata names (`Needed`), each file with an acknowledgement of its own (`dep`).
Where a name holds `^`, what is listed is a piece of a stored path (`Survives`), beside which all
other paths come back whole.

### VersionStore
`stamp[u]` is the second in the name of the directory, `xml[d]` the metadata file with the window
between opening (truncated) and closing (written), `doc[u]` the document the handler has read. A file
may have the name of its own metadata file (`OwnMetadata`): its blocks then take the place of the
metadata (`Foreign`), which parses or does not.
A chunk on disk is the mark of the upload that wrote it. A handler that reads a truncated file
gets an exception from `buildDocument` (ill-formed XML), one that reads a declaration alone a null
root; neither is caught in the handler thread, so both end the server (`crashed`).

### DepFiles
The recursion of `getAllDepFilesHelper` is a stack of frames, each a file and the counter of its
loop; a file is its full path, and `named[f]` is the list of dependencies in its metadata entry.
Two details of the code decide what is found. The set holds full paths but is searched for the
name as metadata writes it, so only files in `ByFullPath` are recognised (`Known`). And the
metadata file that is read has the name of the directory, whatever the writer called it
(`Folder[f] = XmlName[f]` in `Dependencies`). `MaxDepth` bounds the frames; it is larger than the
number of files, so a walk that reaches it meets some file twice on one path, and the server
ends as a stack overflow ends it. What the walk has to find is `Reachable`, the least set closed
under dependencies.

### XmlPrinter
`count` is `AbstractXmlElement::count`; `++count` and `--count` are a load into `reg[t]` and a
store, and the spacer is made with what was stored or with what `count` holds by then, the
outcomes compilers produce of the unsynchronised access. `spacers[t]` are the open `toString`
frames of `t`. The model keeps `count` as an integer and computes a spacer's length as `size_t`
does (`SpacerLength`): below zero it is longer than any string, `std::string` throws, and the
exception leaves the handler thread and ends the server. `alone`, `base` and `overlapped` are
history: they remember whether printings overlapped and change nothing.

### XmlTokens, XmlParser, XmlText, XmlReader
A text is a sequence of symbols: one for each character that the tokenizer or `compress` looks at,
one for a run of blanks, one for a word. Indentation is one blank: its width is `XmlPrinter`'s
subject. A tokenizer is a record of its stream, its putback buffer and the four characters it
remembers (`prevprev`, `prev`, `curr`, `next`); a parse is a record of the elements so far, the element stack, the
tokenizer and the exception that ended it. One step of `BuildDocument` is one round of the loop in
`buildDocument` (`Round`). The loops of the tokenizer and of `compress` are recursive functions of their
state, `TokFrom` and `PartsFrom` those of `getTok` and `XmlParts::get`. `ParserSpec` is the parser alone, on a
set of texts that is a parameter; `XmlReader` takes the same steps (`Opened`, `Round`) between the uses of a
metadata file. `Tear` ends the server between the opening of the metadata file, which empties
it, and its closing, and leaves any part of the text, cut within a word or not. The samples are
the texts of the parsers' own tests.

### XmlDocument
`kids` and `attribs` are `children_` and `attribs_` of each element, `docElem` the document that is
asked, `found` its `found_`. `last` is history: what was called, what was first in `found_` before,
what it returned. `MakeTemp` and `MoveAssign` are the two ways in which the code makes a document
for a part of another one: with a `found_` of its own, and with the one that was there before.
`Hits(k, tag)` is what `find` appends for each element of the tree `k`, a recursive function as `find` is,
`HitsBelow` the loop over the children in `descendents`. The reference is made without any order of
visiting: `Subtree` is a set, and `Precedes` says who comes first in a document from parents and siblings.
`ElementsAssumption` and `TreesAssumption` say what the factory functions and `addChild` make of
new elements: a `DocElement` has no tag, an element has one place, none is below itself.

### Listing, FileSearch, File, FileSystem
A call of `find` is a `Frame`: the passes that are left (one for each pattern, one for the
directories), where the pass under way stands, and what it returned. Uploads create directories
and files between any two steps; a search handle returns everything that was there when it was
opened and may return what came later. `Listing` says what the answer may be: all that was there
before, nothing that is not there now. The patterns are what `addPattern` makes of those `getFiles`
was given; `AskedAssumption` says that they exclude each other, as `*.h`, `*.cpp` and `*.txt` do, the
ones the server asks for (`Receiver.cpp:151`). An object of class `File` is a record with its two streams;
`FileSystem` drives it as the library's demonstration does, with the copy loop, which is skipped if
either file cannot be opened (`OpenBoth`), and the loop over lines, which asks `isGood` before each of
its `MaxLines` lines and not behind the last (`ReadEnds`), and `clear()` as its comment offers it.

### SocketListener, Logger, ListenerLog
`main` is where `startReceiver` stands, `thread` where the detached listen thread stands.
`memory` says what the listen thread finds when it touches the listener: the object, a destroyed
object whose members may read as anything (`Seen`), or a stack that is gone, which ends the
process (`Crash`). `clientSocket` is the socket that has been accepted and not yet moved into a
handler thread, `backlog` what the system has connected and nobody has accepted. `TryAddress` is one
turn of `connect`'s loop over the addresses of localhost, `NoAddress` and `Retry` its caller's.
In `Repository` the start and the end of a listener are one step each; this module opens them up.
`Logger` splits `write` where it races with `stop`: it looks at `_ThreadRunning` (`Write`) and
enqueues later (`EnQ`). `due` is history: what had been enqueued when `stop` was called.
`ListenerLog` is the program that Sockets' demonstration is: its actions are those of the listener,
some of them with a write to the logger beside, or a step of the logger. The thread that starts
the listener starts and stops the logger as well, and does one thing at a time (`Log!Idle`). When
`accept` fails the listen thread logs two texts in a row; one stands for both, and `accept` fails once
(`FailsOnce`).

## 3. Runs

| run | instance | shows |
|---|---|---|
| queue | 3 threads, any operation at any time, queue of at most 3 | `MonitorSafe`: types, mutual exclusion, no reader asleep beside an element nobody will fetch; `Linearizable` (refines `FifoQueue`); `ReadersServed` |
| transfer | faultless uploads of 0 to 3 chunks and downloads of several files; an upload of 1 or 3 chunks and a download of two files of 2 with late payloads, death of the sender, files that cannot be created | `TransferSafe`: acknowledged in order, once, after the last header and with the right size, whatever happens; `TransfersWhole` (refines `Transfer`); `EveryFileAcked`; `HandlerEnds`: by the end of the stream, or with its process if something had gone wrong before |
| repository_safety | 2 clients, together requests of every kind, uploads that fail, a client that leaves or dies, a server that is stopped | `AnswersHold`, `UploadsKept`, `EndDrains` |
| repository_live | 2 clients that stay, server that may be stopped | `EveryRequestAnswered`, `ServerEnds` |
| versions | 4 uploads to one package (a file twice, its sibling once, and a file named as the metadata), 2 seconds | `VersionsHold`: an upload that shares no directory is stored whole beside metadata that was written first, and one of another file never damages it; `OnlyCollisionsCrash`; `OldVersionsKept` |
| dependencies | every graph of up to two dependencies for each of three files, one uploaded and one missing file; 6 frames | `WalkIsRight`, `OnlyCirclesRepeat`, `SendsHold`, `Ends` |
| printing | 2 threads, up to 4 elements each, in any nesting and number of documents; sizes of 8 bits | `AloneIsClean`, `OverlapsSpoil` |
| reloading | a metadata file saved twice with entries of two names, or torn once; two sample documents | `RoundTrip`; `TornIsPrefix`; `ParserHolds`; `FoundUntilResaved` |
| queries | two trees of up to seven elements, one with equal tags inside one another; one edit, one document made for a part, any sequence of queries | `QueriesAnswer`, `SizeUnlessUnselected`, `OneRoot`, `EditsAnswer` |
| files | two packages, the second uploaded meanwhile; two patterns; blocks of 2, lines of up to 2; a file that grows to 2 characters; a copy that may fail to open | `ListsFiles` (refines `Listing`), `ListedOnce`, `ReadsHold`, `Terminates` |
| listener | 2 peers that may connect before, during and after; a backlog of 1; the listener's address family is tried second; bind, listen and accept may fail, accept once; stop and the key may come at any time; two calls of the logger | `ConnectionsKept`, `LogKept`, `EveryPeerServed` |
| window | three clicks of any kind with two entries selected at a time; three files to pick, one without an extension and one empty; three repositories to begin with: none, one with a dependency, one with a name that holds `^` | `PathsSurvive`, `DependenciesAsChosen`, `OnlyBareNamesCrash`, `RequestsAnswered` |

Deadlock is not checked where the system may stop: a transfer that is over, a server that was told
to end, a listener nobody connects to, a user who has clicked.

Why the bounds are enough. A lost wakeup needs a writer, a sleeping reader and a third thread that
takes the element; three threads give each a part. In a transfer the interesting positions are the
first, an inner and the last chunk and the border between two files: three chunks, or two files of
two. Mixing answers up needs two clients; ordering effects between one client's requests need two
requests. Two uploads collide, a third from another second or with another extension shows
what the collision leaves alone, and the fourth takes the place of the metadata. Three files with two dependencies each give chains, diamonds, a file on
two branches at different depths, circles of one, two and three files and circles that are only
reachable. Two lost updates take the count to -2 and a third document meets it: two documents and
two elements for each thread reach the exception. An entry is trimmed right after one save and
wrong after two, and a third adds nothing new. A query depends on what one query before it left
behind, and `found_` is part of the state, so sequences of any length are covered. A block that is
full, short and empty needs files of 0, 1 and 2 modulo the block size; a cut line one longer than
the buffer with another behind it. Two peers fill a backlog of one and leave one that has to retry,
and are enough for a second connection after `stop`. The window needs one click to fill the lists, one
with a selection, and one after the lists were filled anew.

## 4. Fairness

Weak fairness on each thread's own steps: the operating system schedules every runnable thread.
Nothing stronger is assumed of the mutex: `ReadersServed` says that an element does not stay beside
a sleeping reader, not that a particular reader gets it. Spurious wakeups, calls of operations, key presses, deaths
and failures have no fairness. In `FileTransfer` TCP delivers what was sent unless the stream
ends. In `Repository` the retries of `connectSocket` are one step that is enabled when somebody
listens. `HandlerEnds` is claimed for an orderly end of the stream only: after a reset
`Socket::recv` takes the error for data and spins (`rpc = "spin"`). It allows that the process ends
with the handler (`"aborted"`), but only where a payload was late, a file could not be created or the
sender died.
In `SocketListener` and `ListenerLog` the threads and the connecters run, but `accept` has to fail
only once its socket is closed; `EveryPeerServed` is claimed while the process listens and its thread
has not ended, since one failed `accept` ends the thread for good (`Sockets.cpp:491-492`). Nobody has to
start the logger, and no liveness of it is claimed: `stop` polls a plain `bool` in an empty loop
(`Logger.cpp:68`), which a build may turn into an endless one.
In `DepFiles` the only thread is the server's sender thread, which nothing blocks, and in
`FileSystem` the program itself. `Window` states no fairness: `RequestsAnswered` says
of every state in which nothing is on its way any more that every request has been answered.

## 5. Proofs

Checked by TLAPS, for every value of the constants:

- `SharedState_proof`, of the queue: `TypeCorrect`, `WakeupsKept`, together `MonitorIsSafe`, and
  `ImplementsFifo`. The inductive invariant
  joins the types, the discipline of the mutex (only its owner is inside the critical section) and
  a count: whenever an element is in the queue and a reader sleeps, some thread is awake that will
  take the element or has yet to notify. `NotifyCases` splits what `notify_one` may wake.
  `ImplementsFifo` maps each step to the abstract operation at the step under the lock, every
  other step to a stutter.
- `SharedState_proof`, of the printer: `PrinterTypeCorrect`, `EvenAlone` and `RestoredAlone`, together `CleanAlone`;
  `DepthsUntilOverlap` and `ThrowsAreOverlaps`, together `OnlyOverlapsSpoil`; for any number of
  threads, elements and widths. The invariant says where
  the count stands at each step of a printing nobody has joined (`Position`), that such a
  printing is the only one (`OneAlone`), and that without overlaps every printing is of that
  kind and began at zero (`Quiet`). `RoomAssumption` says that a document as deep as can be has
  room for its spacers.
- `VersionStore_proof`: `TypeCorrect`, `AloneStored`, `FilesApart`, `MetadataBeforeFile`, together
  `VersionsAlwaysHold`; `CrashesAreCollisions` and `VersionsImmutable`; for any set of uploads,
  names and seconds. None
  of them is inductive: what an upload finds at one step of `getFile` depends on what it and
  nobody else did at the steps before. The invariant `IInv` says for an upload that shares package
  and second with none what its metadata file holds at each step (`XmlAt`), for one that shares
  its file with none what the file holds (`FileAt`), that a directory nobody chose is empty
  (`FreshXml`, `FreshFile`), and that stamps are not ahead of the clock. `OthersKept` frames every
  step: a handler changes its own frame, the metadata of its directory and its own file. From it
  follow `AloneBefore` (who is alone after a step of another was alone before it) and one lemma
  for each part of the invariant. The assumptions are those the module names: a file name
  determines the package (`getFolderName`), each file has a chunk at least.
- `Metadata_proof`, of the walk: `ClosedAlways` (the set is closed under dependencies at every moment of the
  walk) and `WalkIsExact` (a walk that ends found exactly the reachable files), together
  `WalkAlwaysRight`, for every graph,
  circles included, and any bound on the stack. The invariant says that the frames form a path
  of the graph (`Chain`), that each frame's dependencies before its counter are in the set
  (`Passed`), and that everything in the set or on the stack is needed by the file asked for
  (`Needed`). Completeness needs no induction along paths, because `Reachable` is defined as the
  least closed set: a walk that ends with a closed set around the dependencies of the request
  contains it by definition. `OnlyCirclesEver`: only a circle overflows the stack, and a walk that
  ends met none. Its invariant is `CirclesFound`: a frame's file is reached from the files of the frames
  below it (`Descends`), no file of the set lies on a circle (`Acyclic`), and a stack higher than
  there are files holds one file twice (`TwoAlike`, the pigeonhole principle by cardinalities). `SendsAlwaysHold`: what is sent is the set, each file once.
- `Metadata_proof`, of the documents: `QueriesAlwaysAnswer`, `SizeCountsUnselected`,
  `DocumentsHaveOneRoot` and the action property `EditsAlwaysAnswer`, for any elements, any trees without
  circles, any number of edits and any calls before the one that answers. Nothing below `element` can be
  proved of a tree by unfolding it, so the lemmas climb: a set that has every element whose
  children it has is all of them (`AllUpwards`, the absence of circles as an induction). From it
  follow that the recursive functions exist and are what their bodies say (`SubtreeIs`; `FindsAll`
  joins the partial answers of closed parts of the tree, `HitsAre`), and that what `find`
  appends for an element is its subtree's elements with the tag, each before the next in
  document order (`AllFound`; `FlatAre` is the same for a list of lists). That no element is listed twice
  needs more than the absence of circles: subtrees of siblings are apart (`SiblingsApart`), although a
  document made for a part shares its elements with the first one. `Tree` therefore excludes that
  document from the rule that an element has one parent, and says that what is beside its root is nowhere
  else. The inductive invariant `DocumentIInv` is `Tree`, the types, and the properties
  themselves; `TreeWith`, `TreeWithout` and `TreeShared` say that each edit and each such document keeps
  it. `ChildDone`, `AttribDone` and `NothingDone` compare what an edit returns with what it changed.
- `Metadata_proof`, of the parser: `EveryTextParses`, for every set of texts, well-formed or not. That a loop of
  the tokenizer is a function at all is proved without knowing that it ends (`Loops`: the
  places on one way have the same end); what it returns, by induction over what is left to read (`Unread`,
  `AllByLess`). `getChar` asserts that it reads what it peeked at; this holds as long as one character
  is put back at most (`Orderly`), because `get` takes one end of the buffer and drops the other.
  `getTok` puts back the quote or slash that begins the next token, `XmlParts::get` the `<` of the next element: never
  both, because behind a token `<` nothing is put back (`Token`). The document's shape
  follows from `Nested`: a member of the element stack that its parent accepted is an open tag, and all that
  was parsed since is below it; `GrowsNested` says that a round keeps this.
- `FileTransfer_proof`: `TransfersAlwaysSafe`, for every plan of any number of files of any size, and
  `TransfersAlwaysWhole`, that a faultless transfer implements `Transfer`. The invariant is about the
  unread items, those of the receiver followed by those on the wire: headers and payloads alternate in
  them wherever the stream was cut (`Shape`), what says END was sent as the last of its file
  (`EndsSent`), and the acknowledged files, the one being written and the unread headers are in the
  order of sending (`InTurn`), and a header enqueued as it came is the last that is left of the stream of a
  sender that died (`Queued`). That the size is right is counted from the items sent and read
  (`Positions`). For the refinement `FaultlessWhole` adds that there is no gap (`Unbroken`), that
  each piece is followed by its successor (`Chained`), and that the receiver stands where the
  stream goes on (`Reading`).
- `Repository_proof`: `AnswersAlwaysHold`, `UploadsAreKept`, `ServerDrains`, for any number of clients
  and requests. The invariant says place by place that a request is nowhere further on (`Once`), that
  everything under way was posted and is true already (`Origins`), and follows the answers that
  waited when the server was told to end (`DueOnTheWay`).
- `ListenerLog_proof`: `ConnectionsAlwaysKept`, of `SocketListener` alone, and
  `ConnectionsKeptWhileLogging`, of the process that the run checks; `LogAlwaysKept`. After `stop` the
  listen thread passes `accept` at most once (`OneMore`). What a thread has printed, has queued and is
  about to queue is in the order of its writing (`InOrder`), and only "quit" stands between what is
  due and what waits for the next start (`QuitLast`, `DuePrinted`).
- `FileSystem_proof`: `ListedOnceAlways`, and `ListsFilesAlways`, that the search implements
  `Listing`, for any tree, any patterns that exclude each other, uploads at any moment. Nothing in
  the state says which directories the search has left, so the invariant `Inductive` says that there is
  a set of them (`Visited`) such that what is in the store comes from a directory of that set or an open
  one, in which no pass to come matches it again (`Stored`), and that every file and directory that was
  there is stored or left, or waits for a frame that is open (`NoneMissed`). When the search ends, the
  set has every directory: below the highest that it has not there would be one without a parent in it
  (`TreeAssumption`). What `addPattern` makes of a list of any length is an induction (`PatternsAre`),
  over the naturals as a well-founded set (`AllNumbers`).
  `ReadsHoldAlways`: what is copied block by block and read line by line is what the files hold, for
  texts, blocks and buffers of any size, and whatever is added meanwhile. `FInductive` says of the copy
  that it and what its stream holds back are the part of the file that was passed (`Copying`), and of
  the lines that they are `LinesOf` that part, without the empty line that a newline has begun while
  the stream is good (`Reading`). What is added to a file then only makes the last line longer and adds
  others (`LinesGrow`, by induction over texts, `AllTexts`; `LinesAre` gives the recursion that
  `LinesOf` is). One lemma for each operation of `File` says what it does to the place of reading.
- `Window_proof`: `PathsAlwaysSurvive`, `DependenciesAlwaysAsChosen`, `BareNamesAlone` and
  `NoRequestIsLost`, for any files of the user, any repository this server has stored before, any
  clock, and any number of clicks and entries selected. First come the strings. What `getline` splits
  off is an induction over texts (`AllTexts`) from the step that one more character makes; from it
  follow `SplitJoin` (a list that is joined and split again is the list, if no entry holds the
  separator and none is empty) and `ParseCreate` (`parseStringMessage` of what `createHTTPMessage`
  wrote is the message with its empty fields filled, if no field holds EOT or "|"). `StoredPathIs`
  says that a stored path has the name and the extension of the file that was uploaded, and no path stored at one
  time begins one of another time (`OtherTime`). The inductive invariant `IInv` then goes from place to place: stored files
  have clean paths of their own and a time of their own (`Files`), a list shown has entries of stored
  files (`Shown`; where a name holds "^", pieces of
  them, `PieceOf`), what is posted is a
  message of one of the three kinds with what was selected (`Posted`), a text on its way to the server is
  one that was posted (`Requests`), an answer is an acknowledgement or a list that was true when
  it was made and stays so, since nothing is deleted (`Answers`), and a posted request that did not
  fail, of a file with something to send, is in one of the places at least (`NoneLost`). `OnlyBareNamesCrash` and
  `DependenciesAsChosen` are parts of it. That every header a program writes can be taken apart without
  reading past a vector is `CreateInRange`. `NoRequestIsLost` claims nothing of requests whose file did
  not get through, and nothing once a program is down.
  These provers do not know that a literal such as `"|"` is in `STRING`; texts are therefore
  sequences over `STRING \cup Literals`, where `Literals` are those the modules write.

What the proofs assume of the constants is stated in the modules and evaluated by the runs:
the trees to begin with are such as `addChild` makes (`TreesAssumption`),
directories have one parent and none is below itself, the patterns exclude each other, what a tree holds
at the beginning has its parents (`FileSearch`, `FileSystem`), what files hold is text and there is no
copy yet (`TextAssumption`, `CopyAssumption`), and the assumptions named above. Of `Window`: paths hold neither
EOT nor "|", which Windows allows in no file name, and behind the last separator neither another kind of
separator nor a drive (`PathsAssumption`); a clock reading is a word of digits (`TimesAssumption`); and
what is in the repository before was stored by the same server (`BeforeAssumption`).

What the proofs found in the models: two overlapping cases of `Parsed` in `FileTransfer`, of which
only one was meant; and two conditions in `DepFiles` that could be dropped, so that `WalkedOnce` and
`OnlyCirclesOverflow` say more now. `Patterns` of `FileSearch` and `LinesOf` of `FileSystem` were
written anew without recursive operators, and so were the selections of `Window`, once sets, and
`Subtree`, `Hits` and `XmlRoot` of `XmlDocument`, and the loops of `XmlTokens` and `XmlParser`. `XmlRoot` was the set of the tagged children and is the
first of them now, as in the code.

Model-checked only:

- Liveness under fairness, which these provers do not reach: `ReadersServed`, `EveryFileAcked`,
  `HandlerEnds`, `EveryRequestAnswered`, `ServerEnds`, `Ends`, `EveryPeerServed`, `Terminates`.
- `RoundTrip`, `TornIsPrefix` and `FoundUntilResaved` of `XmlReader`: that a printed document, or a part of its
  text, is parsed back is an induction over two recursions of different shape, printing and parsing, and `PrintFrom`
  of `XmlText` is a recursive operator, with which a module has no SMT prover. `ParserHolds` is the part of it
  that is an invariant of the parser alone.

## 6. Where code and documentation part

The properties state what the code does; each of these facts is the reason for a condition in one
of them.

1. **A late payload is skipped** (`Receiver.cpp:138`). `buffReader` polls `bytesWaiting` once and
   returns true when nothing has arrived; garbage is written and the upload acknowledged. So
   `TransferSafe` claims the size of an acknowledged file, and only `TransfersWhole`, for payloads
   that come with their headers, its content.
2. **Versions of one second are one** (`Receiver.cpp:73-78`, `MetadataHandler.cpp:33`, `:64`): two
   uploads to a package in the same second share a directory, and both are acknowledged though
   the file of one is overwritten, or its metadata entry dropped by the other's save. `VersionsHold`
   is claimed of uploads that share none.
3. **Dependencies of uploads are never found** (`MetadataHandler.cpp:85`): the reader looks for the
   metadata file with the name of the directory, for an upload `<seconds>.xml`; `getFile` writes
   `<package>.xml` (`Receiver.cpp:75-79`). Packages laid out by hand, `Server_Repository/Test`
   among them, have directory and metadata file of one name. `WalkIsRight` is about what the walk
   reads.
4. **No dependency becomes a dependency on "N"** (`Window.cpp:445`): `pop_back` takes the last
   separator off the list of dependencies, and the "A" off the "NA" that stands for no list;
   `addFileMD` knows "NA" only. `DependenciesAsChosen` says so.
5. **A file without an extension ends the server** (`Utilities.cpp:58`): `getFileName` replaces at
   `npos` and throws in a handler thread that catches nothing. `OnlyBareNamesCrash`.
6. **`clear()` leaves `good_`** (`FileSystem.cpp:236-244`): the comment promises that operations are
   enabled again; a `File` that `isGood` has once found not good stays so.
   `OnlyTheLastLineIsCut` in `ReadsHold` is claimed until `clear()` is called.

Facts of the code alone which limit a property:

- A string whose last attribute has no value makes `getAttributes` read past the end of a vector
  (`HTTPMessage.cpp:64`): what is left of a late payload, or a header cut by its sender's death. A
  build that checks the index ends the process; `HandlerEnds` says that only a transfer in which something
  had gone wrong before meets it, and `OnlyBareNamesCrash` that no header a program writes does.
- Nothing is sent of an empty file (`Sender.cpp:39`), and a receiver that cannot create a file
  answers nothing (`Receiver.cpp:95`, `:129`, `:194-196`, `:225-227`). `RequestsAnswered` leaves such
  requests out, as does `EveryFileAcked` of empty ones.
- An upload named `<package>.xml` is written over its own metadata (`Receiver.cpp:78-82`), and may
  end the server when another upload of that second parses it. `VersionsHold` and
  `OnlyCollisionsCrash` say what holds all the same.

Facts that contradict no document of the repository, but a reader should know: the nesting count
of `XmlElement.cpp` (module `XmlPrinter`) is the reason why two uploads to different packages can,
rarely, end the server. A name with `^` falls into two in every list (`PathsSurvive`). An entry
whose metadata file was saved twice more is no longer found under its name, and neither is one with an
apostrophe (`FoundUntilResaved`). A payload that is cut in the middle is written and acknowledged
as well if a later header gets through (`Receiver.cpp:98` ignores what `buffReader` returns); a
TCP stream that is cut has no later header, so `AckAfterEnd` holds all the same.

## 7. Not modelled

- The moves of `BlockingQueue`, which lock the target only (`Cpp11-BlockingQueue.h:85-88`), and the
  reference that `front` returns: only the package's demonstration, with one thread, uses them.
- `waitForData` of `Sockets.cpp`, which no process calls, and the handles that
  `SocketConnecter::connect` leaves open (`Sockets.cpp:352`): nothing in the model counts handles.
- `FileInfo` and the wrappers of single Win32 calls in `FileSystem.cpp` (copy, remove, attributes,
  current directory, dates), `WindowsHelpers`: each is one call of the system. Lengths of paths: the
  256 characters that `getFullFileSpec` reserves are taken to be enough.
- The tokenizer's mode for code, which the XML parser leaves at once.
- The layout and views of the WPF window, and its closing: the window's thread waits in
  `getMessage` for ever, and nothing in the repository says what closing must do.
- Command lines, number conversions, console output, `TestExec`, and the `TEST_...` mains other
  than those that run as processes or that `FileSystem`, `XmlReader` and `ListenerLog` follow.
