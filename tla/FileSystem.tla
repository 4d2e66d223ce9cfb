----------------------------- MODULE FileSystem -----------------------------
(***************************************************************************)
(* A program that uses the file system library the way the library's own    *)
(* demonstration does: it lists the files of a tree, copies one of them in   *)
(* blocks and reads one line by line, each of them maybe not there, while    *)
(* uploads create files in the tree and another program adds lines to one.   *)
(***************************************************************************)
EXTENDS FileSearch, File

CONSTANTS Chars,     \* the characters of texts
          Content,   \* Content[f]: what the file f holds, to begin with
          There,     \* what the tree may hold to begin with
          Log,       \* the file that the other program adds lines to
          Copy,      \* the name of the copy
          Lines,     \* the lines that may be added to Log
          MaxLog,    \* bound: how long Log gets
          MaxLines   \* how many lines the program reads (10 in the demonstration)

\* There is no copy yet.
ASSUME CopyAssumption == Log \in Names /\ Copy \notin Names /\ Content[Copy] = <<>>

ASSUME TextAssumption == /\ Content \in [Names \cup {Copy} -> Seq(Chars)]
                         /\ Lines \subseteq Seq(Chars) /\ Newline \in Chars

\* What is there is in a directory that is there.
ASSUME ThereAssumption == There \subseteq Dirs \cup Names /\ \A e \in There : Parent[e] \in There \cup {Root}

VARIABLES disk,     \* disk[f]: what the file f holds
          log,      \* the File through which lines are added to Log
          pc,       \* the program: "search", "choose", "copy", "pick", "read", "end"
          me, you,  \* the copy loop's Files
          file,     \* the File read line by line
          lines,    \* what it returned
          cleared   \* clear() was called on it

progVars == <<pc, me, you, file, lines, cleared>>
vars == <<tree, searchVars, disk, log, progVars>>

Init == /\ tree = There /\ SearchInit
        /\ disk = Content
        /\ log = Opened(NewFile(Log), "out", "text", TRUE)
        /\ pc = "search"
        /\ me = NewFile(Log) /\ you = NewFile(Copy) /\ file = NewFile(Log)
        /\ lines = <<>> /\ cleared = FALSE

Search == /\ pc = "search" /\ SearchStep /\ UNCHANGED <<disk, log, progVars>>

\* An upload creates a directory or a file.
Upload == \E e \in (Dirs \cup Names) \ tree :
            /\ Create(e)
            /\ UNCHANGED <<searchVars, disk, log, progVars>>

\* The other program calls putLine, which flushes.
AddLine(s, wantReturn) ==
  /\ CanPutLine(log) /\ Len(disk[Log]) < MaxLog
  /\ LET put == PutLine(log, s, wantReturn)
     IN  disk' = [disk EXCEPT ![Log] = FlushedText(put, @)] /\ log' = Flushed(put)
  /\ UNCHANGED <<tree, searchVars, progVars>>

------------------------------------------------------------------------------
(* The copy loop.                                                            *)

\* Open a file for reading and, if it is there, the copy for writing.  The copy may
\* be in a directory that does not exist: nothing is copied then.
OpenBoth(f) ==
  /\ pc = "search" /\ SearchDone
  /\ me' = Tested(Opened(NewFile(f), "in", "binary", f \in tree))
  /\ \/ f \notin tree /\ pc' = "pick" /\ UNCHANGED <<you, disk>>
     \/ f \in tree /\ \E ok \in BOOLEAN :
          /\ you' = Tested(Opened(NewFile(Copy), "out", "binary", ok))
          /\ IF you'.good
             THEN pc' = "copy" /\ disk' = [disk EXCEPT ![Copy] = <<>>]
             ELSE pc' = "pick" /\ UNCHANGED disk
  /\ UNCHANGED <<tree, searchVars, log, file, lines, cleared>>

\* while (me.isGood()) you.putBlock(me.getBlock(1024)).
CopyBlock ==
  /\ pc = "copy" /\ IsGood(me)
  /\ CanGetBlock(me) /\ CanPutBlock(you)
  /\ LET got == GetBlock(Tested(me), disk[me.name])
     IN  me' = got.object /\ you' = Put(you, got.block)
  /\ UNCHANGED <<tree, searchVars, disk, log, pc, file, lines, cleared>>

\* The stream writes by itself what it holds when its buffer is full.
Spill ==
  /\ you.out.held # <<>>
  /\ disk' = [disk EXCEPT ![Copy] = FlushedText(you, @)]
  /\ you' = Flushed(you)
  /\ UNCHANGED <<tree, searchVars, log, pc, me, file, lines, cleared>>

\* The loop ends; the destructor of the copy closes its stream.
CopyEnds ==
  /\ pc = "copy" /\ ~IsGood(me)
  /\ disk' = [disk EXCEPT ![Copy] = FlushedText(you, @)]
  /\ me' = Tested(me) /\ you' = Closed(you)
  /\ pc' = "pick"
  /\ UNCHANGED <<tree, searchVars, log, file, lines, cleared>>

------------------------------------------------------------------------------
(* The loop over the lines of a file.                                        *)

\* The copy was created.
CopyThere == you.out.made /\ you.good

OpenText(f) ==
  /\ pc = "pick"
  /\ file' = Opened(NewFile(f), "in", "text", f \in tree \/ (f = Copy /\ CopyThere))
  /\ pc' = "read"
  /\ UNCHANGED <<tree, searchVars, disk, log, me, you, lines, cleared>>

ReadLine ==
  /\ pc = "read" /\ IsGood(file) /\ Len(lines) < MaxLines
  /\ CanGetLine(file)
  /\ LET got == GetLine(Tested(file), disk[file.name])
     IN  file' = got.object /\ lines' = Append(lines, got.line)
  /\ UNCHANGED <<tree, searchVars, disk, log, pc, me, you, cleared>>

\* The loop ends at the first isGood() that is FALSE, or behind the last of the lines
\* it may read, where nothing is asked any more; the destructor closes the stream.
ReadEnds ==
  /\ pc = "read"
  /\ \/ Len(lines) < MaxLines /\ ~IsGood(file) /\ file' = Closed(Tested(file))
     \/ Len(lines) = MaxLines /\ file' = Closed(file)
  /\ pc' = "end"
  /\ UNCHANGED <<tree, searchVars, disk, log, me, you, lines, cleared>>

\* Instead, the program calls clear() to go on after an error it has not asked for.
ClearAndGoOn ==
  /\ pc = "read" /\ ~Good(file.in) /\ file.in.open
  /\ file' = Cleared(file) /\ cleared' = TRUE
  /\ UNCHANGED <<tree, searchVars, disk, log, pc, me, you, lines>>

------------------------------------------------------------------------------
Program == \/ Search
           \/ \E f \in Names : OpenBoth(f) \/ OpenText(f)
           \/ CopyBlock \/ CopyEnds \/ OpenText(Copy) \/ ReadLine \/ ReadEnds

Next == \/ Program \/ Upload \/ Spill \/ ClearAndGoOn
        \/ \E s \in Lines, r \in BOOLEAN : AddLine(s, r)

\* The program runs, and reaches the end of what it was asked for.
Spec == Init /\ [][Next]_vars /\ WF_vars(Program)

------------------------------------------------------------------------------
\* The copy is the file, or as much of it as there was when its end was met,
\* whatever the size of the last block; a copy that could not be opened is skipped
\* and stays empty.
CopyIsWhole ==
  pc \in {"pick", "read", "end"} =>
    /\ IsPrefix(disk[Copy], disk[me.name])
    /\ me.name \in before \ {Log} /\ you.good => disk[Copy] = disk[me.name]

\* The lines of a text: what stands between its newlines.
LinesOf(text) ==
  LET upTo[n \in 0..Len(text)] ==
        IF n = 0 THEN << <<>> >>
        ELSE IF text[n] = Newline THEN Append(upTo[n - 1], <<>>)
        ELSE Append(Front(upTo[n - 1]), Append(Last(upTo[n - 1]), text[n]))
  IN  upTo[Len(text)]

\* Until clear() is called, only the last line that was read may not be whole: it
\* met the end of a file that is still written, or it is longer than the buffer
\* and nothing after it is read.  The state of the stream tells; good_ does not know
\* it of the last line that may be read, after which isGood() is not called.
OnlyTheLastLineIsCut ==
  ~cleared /\ lines # <<>> =>
    LET all == LinesOf(disk[file.name])
    IN  /\ Len(lines) <= Len(all)
        /\ Front(lines) = SubSeq(all, 1, Len(lines) - 1)
        /\ IsPrefix(Last(lines), all[Len(lines)])
        /\ Last(lines) # all[Len(lines)] => ~Good(file.in)

\* The program comes to its end, whatever is uploaded and added meanwhile.
Terminates == <>(pc = "end")

\* What is read block by block and line by line is what was there.
ReadsHold == CopyIsWhole /\ OnlyTheLastLineIsCut
=============================================================================
