----------------------------- MODULE XmlPrinter -----------------------------
(***************************************************************************)
(* AbstractXmlElement::count, the nesting depth that every toString of      *)
(* XmlElement.cpp keeps while it prints a document: a static size_t without *)
(* a lock.  The handler threads of the server each print a document of      *)
(* their own (MetadataHandler::addFileMD), but all of them share count, and *)
(* ++count and --count are a load and a store.                              *)
(*                                                                         *)
(* The toString functions of tagged, text, declaration, processing and      *)
(* comment elements differ in what they print; what they do to count is the *)
(* same.  A document is the sequence of its elements as they open and       *)
(* close, made up while it is printed; of an element only its spacer is     *)
(* kept.                                                                    *)
(***************************************************************************)
EXTENDS Integers, Sequences

CONSTANTS Printers,     \* the handler threads
          MaxElements, \* bound: elements a thread prints, over all its documents
          Modulus,     \* one more than the largest size_t
          MaxLength    \* std::string::max_size()

tabSize == 2

\* The length of a spacer for a count of c, as size_t computes it.
SpacerLength(c) == (tabSize * c) % Modulus

ASSUME ElementsAssumption == MaxElements \in Nat
ASSUME WidthAssumption == Modulus \in Nat \ {0} /\ MaxLength \in Nat
\* A document as deep as it can be has room for its spacers.
ASSUME RoomAssumption == \A c \in 0..MaxElements : SpacerLength(c) <= MaxLength

VARIABLES count,      \* AbstractXmlElement::count; below zero it stands for count + Modulus
          doing,      \* doing[t]: what t does next
          reg,        \* reg[t]: the value of count that t loaded
          spacers,    \* spacers[t]: for each open toString of t, the count its spacer was made with
          left,       \* left[t]: elements t may still print
          crashed,    \* an exception left a handler thread
          alone,      \* history: printing threads whom no other has joined
          base,       \* history: base[t] is the count that t's printing began with
          overlapped  \* history: two printings have overlapped

printerVars == <<count, doing, reg, spacers, left, crashed, alone, base, overlapped>>
history == <<alone, base, overlapped>>

PrinterInit ==
  /\ count = 0
  /\ doing = [t \in Printers |-> "idle"]
  /\ reg = [t \in Printers |-> 0]
  /\ spacers = [t \in Printers |-> <<>>]
  /\ left = [t \in Printers |-> MaxElements]
  /\ crashed = FALSE
  /\ alone = {}
  /\ base = [t \in Printers |-> 0]
  /\ overlapped = FALSE

GoOn(t, label) == doing' = [doing EXCEPT ![t] = label]
\* The register is used for something else.
Drop(t) == reg' = [reg EXCEPT ![t] = 0]
Busy == {t \in Printers : doing[t] # "idle"}

\* DocElement::toString: it has no spacer of its own.
Begin(t) ==
  /\ doing[t] = "idle" /\ ~crashed
  /\ GoOn(t, "inside")
  /\ base' = [base EXCEPT ![t] = IF Busy = {} THEN count ELSE 0]
  /\ alone' = IF Busy = {} THEN {t} ELSE {}
  /\ overlapped' = (overlapped \/ Busy # {})
  /\ UNCHANGED <<count, reg, spacers, left, crashed>>

\* The toString of the next child: ++count loads,
LoadToEnter(t) ==
  /\ doing[t] = "inside" /\ left[t] > 0 /\ ~crashed
  /\ left' = [left EXCEPT ![t] = @ - 1]
  /\ reg' = [reg EXCEPT ![t] = count]
  /\ GoOn(t, "enter")
  /\ UNCHANGED <<count, spacers, crashed, history>>

\* adds and stores,
Enter(t) ==
  /\ doing[t] = "enter" /\ ~crashed
  /\ count' = reg[t] + 1
  /\ GoOn(t, "space")
  /\ UNCHANGED <<reg, spacers, left, crashed, history>>

\* Mutant: the spacer is made with the count before.
SpaceBefore(t) ==
  /\ doing[t] = "space" /\ ~crashed
  /\ spacers' = [spacers EXCEPT ![t] = Append(@, reg[t])]
  /\ GoOn(t, "inside") /\ Drop(t)
  /\ UNCHANGED <<count, left, crashed, history>>

\* and the spacer is made with what was stored or what is there by now; a spacer
\* too long throws length_error, which nothing catches.
Space(t) ==
  /\ doing[t] = "space" /\ ~crashed
  /\ \E c \in {reg[t] + 1, count} :
       IF SpacerLength(c) > MaxLength
       THEN crashed' = TRUE /\ UNCHANGED <<doing, reg, spacers>>
       ELSE /\ spacers' = [spacers EXCEPT ![t] = Append(@, c)]
            /\ GoOn(t, "inside") /\ Drop(t)
            /\ UNCHANGED crashed
  /\ UNCHANGED <<count, left, history>>

\* The end of a toString: --count loads,
LoadToLeave(t) ==
  /\ doing[t] = "inside" /\ spacers[t] # <<>> /\ ~crashed
  /\ reg' = [reg EXCEPT ![t] = count]
  /\ GoOn(t, "leave")
  /\ UNCHANGED <<count, spacers, left, crashed, history>>

\* Mutant: the count goes down twice.
LeaveTwice(t) ==
  /\ doing[t] = "leave" /\ ~crashed
  /\ count' = reg[t] - 2
  /\ spacers' = [spacers EXCEPT ![t] = SubSeq(@, 1, Len(@) - 1)]
  /\ GoOn(t, "inside") /\ Drop(t)
  /\ UNCHANGED <<left, crashed, history>>

\* and stores.
Leave(t) ==
  /\ doing[t] = "leave" /\ ~crashed
  /\ count' = reg[t] - 1
  /\ spacers' = [spacers EXCEPT ![t] = SubSeq(@, 1, Len(@) - 1)]
  /\ GoOn(t, "inside") /\ Drop(t)
  /\ UNCHANGED <<left, crashed, history>>

\* The document is printed.
Finish(t) ==
  /\ doing[t] = "inside" /\ spacers[t] = <<>> /\ ~crashed
  /\ GoOn(t, "idle")
  /\ alone' = alone \ {t}
  /\ UNCHANGED <<count, reg, spacers, left, crashed, base, overlapped>>

PrintOut(t) == \/ Begin(t) \/ LoadToEnter(t) \/ Enter(t) \/ Space(t)
               \/ LoadToLeave(t) \/ Leave(t) \/ Finish(t)

PrinterNext == \E t \in Printers : PrintOut(t)

PrinterSpec == PrinterInit /\ [][PrinterNext]_printerVars

------------------------------------------------------------------------------
\* Type invariant; spacers are made within the width of size_t.
PrinterTypes ==
  /\ count \in Int
  /\ doing \in [Printers -> {"idle", "inside", "enter", "space", "leave"}]
  /\ reg \in [Printers -> Int]
  /\ spacers \in [Printers -> Seq(Int)]
  /\ \A t \in Printers : \A k \in 1..Len(spacers[t]) : SpacerLength(spacers[t][k]) <= MaxLength
  /\ left \in [Printers -> 0..MaxElements]
  /\ crashed \in BOOLEAN
  /\ alone \subseteq Printers
  /\ base \in [Printers -> Int]
  /\ overlapped \in BOOLEAN

\* A document whose printing no other has joined is indented evenly, by one tab
\* more at each level, even if earlier overlaps left the count wrong.
AloneIsEven ==
  \A t \in alone : \A k \in 1..Len(spacers[t]) : spacers[t][k] = base[t] + k

\* A printing that nobody joins leaves the count as it found it: only overlaps
\* make it drift.
AloneRestores ==
  \A t \in alone : doing[t] = "inside" /\ spacers[t] = <<>> => count = base[t]

\* As long as no two printings have overlapped, every document is indented by its
\* depth, and the count is back at zero in between.
DepthUntilOverlap ==
  ~overlapped => /\ \A t \in Printers : \A k \in 1..Len(spacers[t]) : spacers[t][k] = k
                 /\ Busy = {} => count = 0

\* Nothing but an overlap can take the count below zero, where the spacer is longer
\* than any string and the exception ends the server.
OnlyOverlapsThrow == crashed => overlapped

\* A printing that nobody joins is even and leaves no trace.
AloneIsClean == AloneIsEven /\ AloneRestores

\* Only overlapping printings spoil the count, and only a spoilt count throws.
OverlapsSpoil == PrinterTypes /\ DepthUntilOverlap /\ OnlyOverlapsThrow
==============================================================================
