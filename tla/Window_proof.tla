---------------------------- MODULE Window_proof ----------------------------
(***************************************************************************)
(* Proofs about Window, for any files of the user, any repository that was  *)
(* there before and any number of clicks: a path survives its way through   *)
(* messages, repository and lists, an upload names what was selected, only  *)
(* a name without an extension ends the server, and no request is lost.     *)
(***************************************************************************)
EXTENDS Window, FiniteSetTheorems, SequenceTheorems, WellFoundedInduction, TLAPS

------------------------------------------------------------------------------
(* Strings.                                                                  *)

\* The strings that stand in the modules: a prover does not know them for strings.
Literals ==
  {EOT, SEPARATOR, FILES_SEP, "N", "A", "/", "\\", "C:", ".", " ",
   "command", "to_Addr", "from_Addr", "fileName", "body", "open",
   "uploadRequest", "reqgetallfiles", "downloadRequest", "02", "31", "14", "05", "32", "15",
   "Please", "Select", "File", "Get", "Files", "true", "false", "server", "client"}

Chars == STRING \cup Literals
Texts == Seq(Chars)

Less == {p \in Nat \X Nat : p[1] < p[2]}

\* Induction: a set with 0 and with the successor of each member is Nat.  (The
\* theorem of the library is for an operator, which no prover can instantiate; the
\* order of the naturals is well-founded as a set.)
LEMMA AllNumbers ==
  ASSUME NEW S \in SUBSET Nat, 0 \in S, \A n \in S : n + 1 \in S
  PROVE  S = Nat
<1>1. IsWellFoundedOn({p \in Nat \X Nat : p[1] < p[2]}, Nat)
  BY NatLessThanWellFounded DEF OpToRel
<1>2. IsWellFoundedOn(Less, Nat)
  BY <1>1 DEF Less
<1>3. SUFFICES ASSUME Nat \ S # {} PROVE FALSE
  OBVIOUS
<1>4. PICK x \in Nat \ S : \A y \in Nat \ S : ~ (<<y, x>> \in Less)
  BY <1>2, <1>3, WFMin
<1>5. x \in Nat /\ x # 0 /\ x - 1 \in Nat /\ x - 1 < x /\ (x - 1) + 1 = x
  OBVIOUS
<1>6. x - 1 \in S
  BY <1>4, <1>5 DEF Less
<1> QED
  BY <1>5, <1>6

\* Induction over sequences: one element after the other.
LEMMA AllTexts ==
  ASSUME NEW S \in SUBSET Texts, <<>> \in S, \A t \in S : \A c \in Chars : Append(t, c) \in S
  PROVE  S = Texts
<1> DEFINE N == {n \in Nat : \A t \in Texts : Len(t) = n => t \in S}
<1>1. 0 \in N
  <2>1. \A t \in Texts : Len(t) = 0 => t = <<>>
    BY DEF Texts
  <2> QED
    BY <2>1
<1>2. ASSUME NEW n \in N PROVE n + 1 \in N
  <2>1. SUFFICES ASSUME NEW t \in Texts, Len(t) = n + 1 PROVE t \in S
    BY <1>2
  <2>2. t \in Seq(Chars) /\ t # <<>> /\ n \in Nat
    BY <1>2, <2>1 DEF Texts
  <2>3. PICK s \in Seq(Chars), c \in Chars : t = Append(s, c)
    BY <2>2, SequenceEmptyOrAppend
  <2>4. Len(s) = n
    BY <2>1, <2>2, <2>3
  <2>5. s \in S
    BY <2>4, <1>2 DEF Texts
  <2> QED
    BY <2>3, <2>5
<1>3. N = Nat
  <2>1. N \in SUBSET Nat
    OBVIOUS
  <2> HIDE DEF N
  <2> QED
    BY <1>1, <1>2, <2>1, AllNumbers
<1>4. \A t \in Texts : Len(t) \in Nat
  BY DEF Texts
<1> QED
  BY <1>3, <1>4

\* What split has collected: the pieces before the last separator, and what follows it.
More(items, c, sep) == IF c = sep THEN Append(items, <<>>)
                       ELSE Append(Front(items), Append(Last(items), c))
Pieces(s, sep) ==
  LET upTo[n \in 0..Len(s)] == IF n = 0 THEN << <<>> >> ELSE More(upTo[n - 1], s[n], sep)
  IN  upTo[Len(s)]

\* A function that follows the definition of Pieces exists, and Pieces is its value.
LEMMA PiecesRec ==
  ASSUME NEW t \in Texts, NEW sep
  PROVE  \E g : /\ g[0] = << <<>> >>
                /\ \A n \in 1..Len(t) : g[n] = More(g[n - 1], t[n], sep)
                /\ Pieces(t, sep) = g[Len(t)]
<1> DEFINE G(g, m) == [n \in 0..m |-> IF n = 0 THEN << <<>> >> ELSE More(g[n - 1], t[n], sep)]
           N == {m \in Nat : \E g : g = G(g, m)}
<1>1. 0 \in N
  <2> DEFINE g == [n \in 0..0 |-> << <<>> >>]
  <2>1. g = G(g, 0)
    OBVIOUS
  <2> HIDE DEF G
  <2> QED
    BY <2>1
<1>2. ASSUME NEW m \in N PROVE m + 1 \in N
  <2>1. m \in Nat /\ m + 1 \in Nat
    OBVIOUS
  <2>2. PICK g : g = G(g, m)
    OBVIOUS
  <2> DEFINE h == [n \in 0..(m + 1) |-> IF n = m + 1 THEN More(g[m], t[m + 1], sep) ELSE g[n]]
  <2>3. ASSUME NEW n \in 0..(m + 1)
        PROVE  h[n] = IF n = 0 THEN << <<>> >> ELSE More(h[n - 1], t[n], sep)
    <3>1. CASE n = 0
      <4>1. 0 \in 0..m /\ n # m + 1
        BY <2>1, <3>1
      <4>2. g[0] = << <<>> >>
        BY <2>2, <4>1
      <4> QED
        BY <3>1, <4>1, <4>2
    <3>2. CASE n = m + 1
      <4>1. n - 1 = m /\ m \in 0..(m + 1) /\ m # m + 1 /\ n # 0
        BY <2>1, <3>2
      <4> QED
        BY <3>2, <4>1
    <3>3. CASE n # 0 /\ n # m + 1
      <4>1. n \in 0..m /\ n - 1 \in 0..(m + 1) /\ n - 1 # m + 1
        BY <2>1, <3>3
      <4>2. g[n] = More(g[n - 1], t[n], sep)
        BY <2>2, <3>3, <4>1
      <4> QED
        BY <3>3, <4>1, <4>2
    <3> QED
      BY <3>1, <3>2, <3>3
  <2>4. h = G(h, m + 1)
    BY <2>3
  <2> HIDE DEF G
  <2> QED
    BY <2>1, <2>4
<1>3. N = Nat
  <2>1. N \in SUBSET Nat
    OBVIOUS
  <2> HIDE DEF N
  <2> QED
    BY <1>1, <1>2, <2>1, AllNumbers
<1>4. Len(t) \in Nat
  BY DEF Texts
<1> DEFINE f == CHOOSE g : g = G(g, Len(t))
<1>5. f = G(f, Len(t))
  <2>1. \E g : g = G(g, Len(t))
    BY <1>3, <1>4
  <2> HIDE DEF G
  <2> QED
    BY <2>1
<1>6. Pieces(t, sep) = f[Len(t)]
  BY DEF Pieces, More
<1> HIDE DEF f
<1>7. 0 \in 0..Len(t) /\ \A n \in 1..Len(t) : n \in 0..Len(t) /\ n # 0
  BY <1>4
<1>8. f[0] = << <<>> >> /\ \A n \in 1..Len(t) : f[n] = More(f[n - 1], t[n], sep)
  BY <1>5, <1>7
<1> QED
  BY <1>6, <1>8

\* The lines of the empty text, and of a text with one more character.
LEMMA PiecesAre ==
  ASSUME NEW sep
  PROVE
  /\ Pieces(<<>>, sep) = << <<>> >>
  /\ \A t \in Texts : \A c \in Chars : Pieces(Append(t, c), sep) = More(Pieces(t, sep), c, sep)
<1>1. Pieces(<<>>, sep) = << <<>> >>
  <2>1. <<>> \in Texts /\ Len(<<>>) = 0
    BY DEF Texts
  <2>2. PICK g : g[0] = << <<>> >> /\ Pieces(<<>>, sep) = g[Len(<<>>)]
    BY <2>1, PiecesRec, Zenon
  <2> QED
    BY <2>1, <2>2
<1>2. ASSUME NEW t \in Texts, NEW c \in Chars
      PROVE  Pieces(Append(t, c), sep) = More(Pieces(t, sep), c, sep)
  <2>1. /\ Append(t, c) \in Texts /\ Len(Append(t, c)) = Len(t) + 1 /\ Len(t) \in Nat
        /\ \A i \in 1..Len(t) : Append(t, c)[i] = t[i]
        /\ Append(t, c)[Len(t) + 1] = c
    BY AppendProperties DEF Texts
  <2>2. PICK g : /\ g[0] = << <<>> >>
                 /\ \A n \in 1..Len(t) : g[n] = More(g[n - 1], t[n], sep)
                 /\ Pieces(t, sep) = g[Len(t)]
    BY PiecesRec
  <2> DEFINE u == Append(t, c)
  <2>3. PICK h : /\ h[0] = << <<>> >>
                 /\ \A n \in 1..(Len(t) + 1) : h[n] = More(h[n - 1], u[n], sep)
                 /\ Pieces(u, sep) = h[Len(t) + 1]
    <3>1. u \in Texts /\ Len(u) = Len(t) + 1
      BY <2>1
    <3> HIDE DEF u
    <3>2. PICK h : /\ h[0] = << <<>> >>
                   /\ \A n \in 1..Len(u) : h[n] = More(h[n - 1], u[n], sep)
                   /\ Pieces(u, sep) = h[Len(u)]
      BY <3>1, PiecesRec
    <3> QED
      BY <3>1, <3>2
  <2> DEFINE N == {n \in Nat : n <= Len(t) => h[n] = g[n]}
  <2>4. 0 \in N
    BY <2>2, <2>3
  <2>5. ASSUME NEW n \in N PROVE n + 1 \in N
    <3>1. SUFFICES ASSUME n + 1 <= Len(t) PROVE h[n + 1] = g[n + 1]
      OBVIOUS
    <3>2. /\ n + 1 \in 1..Len(t) /\ n + 1 \in 1..(Len(t) + 1) /\ (n + 1) - 1 = n /\ n <= Len(t)
          /\ n \in Nat
      BY <2>1, <3>1
    <3>3. h[n + 1] = More(h[n], t[n + 1], sep)
      BY <2>1, <2>3, <3>2
    <3>4. g[n + 1] = More(g[n], t[n + 1], sep)
      BY <2>2, <3>2
    <3> QED
      BY <3>2, <3>3, <3>4
  <2>6. N = Nat
    <3>1. N \in SUBSET Nat
      OBVIOUS
    <3> HIDE DEF N
    <3> QED
      BY <2>4, <2>5, <3>1, AllNumbers
  <2>7. h[Len(t)] = g[Len(t)]
    BY <2>1, <2>6
  <2>8. Len(t) + 1 \in 1..(Len(t) + 1) /\ (Len(t) + 1) - 1 = Len(t)
    BY <2>1
  <2> QED
    BY <2>1, <2>2, <2>3, <2>7, <2>8
<1> QED
  BY <1>1, <1>2

\* Lists of texts: one at least.
Lists1 == {a \in Seq(Texts) : Len(a) > 0}

\* The parts of a list of lines.
LEMMA LastLine ==
  ASSUME NEW a \in Lists1
  PROVE  /\ Len(a) \in Nat /\ Len(a) >= 1 /\ a \in Seq(Texts) /\ Len(a) \in 1..Len(a)
         /\ Last(a) = a[Len(a)] /\ a[Len(a)] \in Texts
         /\ Front(a) \in Seq(Texts) /\ Len(Front(a)) = Len(a) - 1
         /\ \A i \in 1..(Len(a) - 1) : Front(a)[i] = a[i]
         /\ \A i \in 1..Len(a) : a[i] \in Texts
<1>1. a \in Seq(Texts) /\ Len(a) \in Nat /\ Len(a) >= 1 /\ Len(a) \in 1..Len(a)
  BY DEF Lists1
<1>2. \A i \in 1..Len(a) : a[i] \in Texts
  BY <1>1, ElementOfSeq
<1>3. /\ SubSeq(a, 1, Len(a) - 1) \in Seq(Texts) /\ Len(SubSeq(a, 1, Len(a) - 1)) = Len(a) - 1
      /\ \A i \in 1..(Len(a) - 1) : SubSeq(a, 1, Len(a) - 1)[i] = a[i]
  <2> DEFINE n == Len(a) - 1
  <2>1. n \in Int /\ n >= 0 /\ 1 \in Int /\ (IF 1 <= n THEN n - 1 + 1 ELSE 0) = n /\ n - 1 + 1 = n
    <3>1. \A k \in Nat : k >= 1 => /\ k - 1 \in Int /\ 1 \in Int /\ k - 1 >= 0
                                  /\ (IF 1 <= k - 1 THEN (k - 1) - 1 + 1 ELSE 0) = k - 1
                                  /\ (k - 1) - 1 + 1 = k - 1
      OBVIOUS
    <3> QED
      BY <1>1, <3>1, Zenon
  <2>2. \A i \in 1..n : a[i] \in Texts /\ 1 + i - 1 = i
    BY <1>1, <1>2
  <2> HIDE DEF n
  <2>3. /\ SubSeq(a, 1, n) \in Seq(Texts)
        /\ Len(SubSeq(a, 1, n)) = IF 1 <= n THEN n - 1 + 1 ELSE 0
        /\ \A i \in 1..(n - 1 + 1) : SubSeq(a, 1, n)[i] = a[1 + i - 1]
    BY <2>1, <2>2, SubSeqProperties
  <2>4. /\ SubSeq(a, 1, n) \in Seq(Texts) /\ Len(SubSeq(a, 1, n)) = n
        /\ \A i \in 1..n : SubSeq(a, 1, n)[i] = a[i]
    BY <2>1, <2>2, <2>3
  <2> QED
    BY <2>4 DEF n
<1> QED
  BY <1>1, <1>2, <1>3 DEF Last, Front

\* With another last line.
LEMMA NewLast ==
  ASSUME NEW a \in Lists1, NEW l \in Texts
  PROVE  /\ Append(Front(a), l) \in Lists1 /\ Len(Append(Front(a), l)) = Len(a)
         /\ Append(Front(a), l)[Len(a)] = l
         /\ \A i \in 1..(Len(a) - 1) : Append(Front(a), l)[i] = a[i]
         /\ Front(Append(Front(a), l)) = Front(a) /\ Last(Append(Front(a), l)) = l
         /\ Append(Front(a), Last(a)) = a
<1>1. /\ Len(a) \in Nat /\ Len(a) >= 1 /\ Last(a) = a[Len(a)] /\ a[Len(a)] \in Texts
      /\ a \in Seq(Texts)
      /\ Front(a) \in Seq(Texts) /\ Len(Front(a)) = Len(a) - 1
      /\ \A i \in 1..(Len(a) - 1) : Front(a)[i] = a[i]
  BY LastLine
<1>2. ASSUME NEW m \in Texts
      PROVE  /\ Append(Front(a), m) \in Lists1 /\ Append(Front(a), m) \in Seq(Texts)
             /\ Len(Append(Front(a), m)) = Len(a)
             /\ Append(Front(a), m)[Len(a)] = m
             /\ \A i \in 1..(Len(a) - 1) : Append(Front(a), m)[i] = a[i]
  <2>1. /\ Append(Front(a), m) \in Seq(Texts)
        /\ Len(Append(Front(a), m)) = Len(Front(a)) + 1
        /\ \A i \in 1..Len(Front(a)) : Append(Front(a), m)[i] = Front(a)[i]
        /\ Append(Front(a), m)[Len(Front(a)) + 1] = m
    BY <1>1, AppendProperties
  <2> QED
    BY <1>1, <2>1 DEF Lists1
<1>3. Last(Append(Front(a), l)) = l
  BY <1>2 DEF Last
<1>4. Front(Append(Front(a), l)) = Front(a)
  <2>1. /\ Front(Append(Front(a), l)) \in Seq(Texts)
        /\ Len(Front(Append(Front(a), l))) = Len(a) - 1
        /\ \A i \in 1..(Len(a) - 1) : Front(Append(Front(a), l))[i] = a[i]
    <3> DEFINE b == Append(Front(a), l)
    <3>1. b \in Lists1 /\ Len(b) = Len(a) /\ \A i \in 1..(Len(a) - 1) : b[i] = a[i]
      BY <1>2
    <3> HIDE DEF b
    <3>2. /\ Front(b) \in Seq(Texts) /\ Len(Front(b)) = Len(b) - 1
          /\ \A i \in 1..(Len(b) - 1) : Front(b)[i] = b[i]
      BY <3>1, LastLine
    <3>3. /\ Front(b) \in Seq(Texts) /\ Len(Front(b)) = Len(a) - 1
          /\ \A i \in 1..(Len(a) - 1) : Front(b)[i] = a[i]
      BY <3>1, <3>2
    <3> QED
      BY <3>3 DEF b
  <2> QED
    BY <1>1, <2>1, SeqEqual
<1>5. Append(Front(a), Last(a)) = a
  <2>1. \A i \in 1..Len(a) : i \in 1..(Len(a) - 1) \/ i = Len(a)
    BY <1>1
  <2>2. \A i \in 1..Len(a) : Append(Front(a), Last(a))[i] = a[i]
    BY <1>1, <1>2, <2>1
  <2> QED
    BY <1>1, <1>2, <2>2, SeqEqual
<1> QED
  BY <1>2, <1>3, <1>4, <1>5

\* The lines of a text are texts, and one at least.
LEMMA PiecesType == ASSUME NEW sep PROVE \A t \in Texts : Pieces(t, sep) \in Lists1
<1> DEFINE S == {t \in Texts : Pieces(t, sep) \in Lists1}
<1>1. <<>> \in S
  <2>1. << <<>> >> \in Lists1
    BY DEF Lists1, Texts
  <2> QED
    BY <2>1, PiecesAre DEF Texts
<1>2. ASSUME NEW t \in S, NEW c \in Chars PROVE Append(t, c) \in S
  <2>1. t \in Texts /\ Pieces(t, sep) \in Lists1 /\ Append(t, c) \in Texts
    BY AppendProperties DEF Texts
  <2>2. ASSUME NEW a \in Lists1 PROVE More(a, c, sep) \in Lists1
    <3>1. a \in Seq(Texts) /\ Len(a) \in Nat /\ <<>> \in Texts
      BY DEF Lists1, Texts
    <3>2. Append(a, <<>>) \in Seq(Texts) /\ Len(Append(a, <<>>)) = Len(a) + 1
      BY <3>1, AppendProperties
    <3>3. Append(a, <<>>) \in Lists1
      BY <3>1, <3>2 DEF Lists1
    <3>4. Last(a) \in Texts
      BY LastLine
    <3>5. Append(Last(a), c) \in Texts
      BY <3>4, AppendProperties DEF Texts
    <3>6. Append(Front(a), Append(Last(a), c)) \in Lists1
      BY <3>5, NewLast
    <3> QED
      BY <3>3, <3>6 DEF More
  <2> QED
    BY <2>1, <2>2, PiecesAre
<1>3. S = Texts
  <2>1. S \in SUBSET Texts
    OBVIOUS
  <2> HIDE DEF S
  <2> QED
    BY <1>1, <1>2, <2>1, AllTexts
<1> QED
  BY <1>3

\* A character behind the second of two texts is one behind both.
LEMMA AppendBehind ==
  ASSUME NEW s \in Texts, NEW t \in Texts, NEW c \in Chars
  PROVE  s \o t \in Texts /\ Append(t, c) \in Texts /\ s \o Append(t, c) = Append(s \o t, c)
<1>1. s \in Seq(Chars) /\ t \in Seq(Chars) /\ <<c>> \in Seq(Chars) /\ s \o t \in Seq(Chars)
  BY ConcatProperties DEF Texts
<1>2. Append(t, c) = t \o <<c>> /\ Append(s \o t, c) = (s \o t) \o <<c>>
  BY <1>1, AppendIsConcat
<1>3. (s \o t) \o <<c>> = s \o (t \o <<c>>)
  BY <1>1, ConcatAssociative
<1> QED
  BY <1>1, <1>2, <1>3, AppendProperties DEF Texts

\* What has no newline only makes the last line longer.
LEMMA PiecesPlain ==
  ASSUME NEW sep, NEW u \in Texts, NEW v \in Texts, \A i \in 1..Len(v) : v[i] # sep
  PROVE  Pieces(u \o v, sep) = Append(Front(Pieces(u, sep)), Last(Pieces(u, sep)) \o v)
<1> DEFINE a == Pieces(u, sep)
           S == {t \in Texts : (\A i \in 1..Len(t) : t[i] # sep) =>
                                 Pieces(u \o t, sep) = Append(Front(a), Last(a) \o t)}
<1>0. a \in Lists1
  BY PiecesType
<1>t. Last(a) \in Texts
  BY <1>0, LastLine
<1>1. <<>> \in S
  <2>1. u \o <<>> = u /\ Last(a) \o <<>> = Last(a) /\ <<>> \in Texts
    BY <1>t, ConcatEmptySeq DEF Texts
  <2>2. Append(Front(a), Last(a)) = a
    BY <1>0, NewLast
  <2> QED
    BY <2>1, <2>2
<1>2. ASSUME NEW t \in S, NEW c \in Chars PROVE Append(t, c) \in S
  <2>1. /\ u \o t \in Texts /\ Append(t, c) \in Texts /\ u \o Append(t, c) = Append(u \o t, c)
        /\ Last(a) \o t \in Texts /\ Append(Last(a) \o t, c) = Last(a) \o Append(t, c)
    BY <1>t, AppendBehind
  <2>2. SUFFICES ASSUME \A i \in 1..Len(Append(t, c)) : Append(t, c)[i] # sep
                 PROVE  Pieces(u \o Append(t, c), sep) = Append(Front(a), Last(a) \o Append(t, c))
    BY <2>1
  <2>3. /\ \A i \in 1..Len(t) : t[i] # sep
        /\ c # sep
    <3>1. /\ Len(Append(t, c)) = Len(t) + 1 /\ Len(t) \in Nat
          /\ \A i \in 1..Len(t) : Append(t, c)[i] = t[i]
          /\ Append(t, c)[Len(t) + 1] = c
      BY AppendProperties DEF Texts
    <3>2. Len(t) + 1 \in 1..(Len(t) + 1) /\ \A i \in 1..Len(t) : i \in 1..(Len(t) + 1)
      BY <3>1
    <3> QED
      BY <2>2, <3>1, <3>2
  <2>4. Pieces(u \o t, sep) = Append(Front(a), Last(a) \o t)
    BY <2>3
  <2>5. Pieces(u \o Append(t, c), sep) = More(Pieces(u \o t, sep), c, sep)
    BY <2>1, PiecesAre
  <2>6. /\ Front(Pieces(u \o t, sep)) = Front(a) /\ Last(Pieces(u \o t, sep)) = Last(a) \o t
    <3>1. a \in Lists1 /\ Last(a) \o t \in Texts
      BY <1>0, <2>1
    <3> HIDE DEF a
    <3>2. /\ Front(Append(Front(a), Last(a) \o t)) = Front(a)
          /\ Last(Append(Front(a), Last(a) \o t)) = Last(a) \o t
      BY <3>1, NewLast
    <3> QED
      BY <2>4, <3>2
  <2> QED
    BY <2>1, <2>3, <2>5, <2>6 DEF More
<1>3. S = Texts
  <2>1. S \in SUBSET Texts
    OBVIOUS
  <2> HIDE DEF S
  <2> QED
    BY <1>1, <1>2, <2>1, AllTexts
<1> QED
  BY <1>3

\* A list with another line behind it.
LEMMA AppendText ==
  ASSUME NEW a \in Seq(Texts), NEW l \in Texts
  PROVE  /\ Append(a, l) \in Lists1 /\ Append(a, l) \in Seq(Texts)
         /\ Len(a) \in Nat /\ Len(Append(a, l)) = Len(a) + 1
         /\ \A i \in 1..Len(a) : Append(a, l)[i] = a[i]
         /\ Front(Append(a, l)) = a /\ Last(Append(a, l)) = l
<1> DEFINE b == Append(a, l)
<1>1. /\ b \in Seq(Texts) /\ Len(a) \in Nat /\ Len(b) = Len(a) + 1
      /\ \A i \in 1..Len(a) : b[i] = a[i]
      /\ b[Len(a) + 1] = l
  BY AppendProperties
<1> HIDE DEF b
<1>2. b \in Lists1
  BY <1>1 DEF Lists1
<1>3. /\ Last(b) = b[Len(b)] /\ Front(b) \in Seq(Texts) /\ Len(Front(b)) = Len(b) - 1
      /\ \A i \in 1..(Len(b) - 1) : Front(b)[i] = b[i]
  BY <1>2, LastLine
<1>4. Len(Front(b)) = Len(a) /\ \A i \in 1..Len(a) : Front(b)[i] = a[i]
  BY <1>1, <1>3
<1>5. Front(b) = a
  BY <1>3, <1>4, SeqEqual
<1> QED
  BY <1>1, <1>2, <1>3, <1>5 DEF b

\* A line is read, and the newline behind it unless the stream is no longer good.
LEMMA NextPiece ==
  ASSUME NEW sep \in Chars, NEW u \in Texts, NEW v \in Texts, NEW a \in Seq(Texts),
         Pieces(u, sep) = Append(a, <<>>), \A i \in 1..Len(v) : v[i] # sep
  PROVE  /\ Pieces(u \o v, sep) = Append(a, v)
         /\ Pieces(Append(u \o v, sep), sep) = Append(Append(a, v), <<>>)
<1>1. <<>> \in Texts /\ sep \in Chars /\ <<>> \o v = v
  BY ConcatEmptySeq DEF Texts
<1>2. Front(Append(a, <<>>)) = a /\ Last(Append(a, <<>>)) = <<>>
  BY <1>1, AppendText
<1>3. Pieces(u \o v, sep) = Append(a, v)
  <2>1. Pieces(u \o v, sep) = Append(Front(Pieces(u, sep)), Last(Pieces(u, sep)) \o v)
    BY PiecesPlain
  <2> QED
    BY <1>1, <1>2, <2>1
<1>4. u \o v \in Texts
  BY ConcatProperties DEF Texts
<1>5. Pieces(Append(u \o v, sep), sep) = More(Pieces(u \o v, sep), sep, sep)
  BY <1>1, <1>4, PiecesAre
<1> QED
  BY <1>3, <1>5 DEF More

\* Induction over lists: one text after the other.
LEMMA AllLists ==
  ASSUME NEW S \in SUBSET Seq(Texts), <<>> \in S, \A a \in S : \A t \in Texts : Append(a, t) \in S
  PROVE  S = Seq(Texts)
<1> DEFINE N == {n \in Nat : \A a \in Seq(Texts) : Len(a) = n => a \in S}
<1>1. 0 \in N
  <2>1. \A a \in Seq(Texts) : Len(a) = 0 => a = <<>>
    OBVIOUS
  <2> QED
    BY <2>1
<1>2. ASSUME NEW n \in N PROVE n + 1 \in N
  <2>1. SUFFICES ASSUME NEW a \in Seq(Texts), Len(a) = n + 1 PROVE a \in S
    BY <1>2
  <2>2. a \in Seq(Texts) /\ a # <<>> /\ n \in Nat
    BY <1>2, <2>1
  <2>3. PICK s \in Seq(Texts), c \in Texts : a = Append(s, c)
    BY <2>2, SequenceEmptyOrAppend
  <2>4. Len(s) = n
    BY <2>1, <2>2, <2>3
  <2>5. s \in S
    BY <2>4, <1>2
  <2> QED
    BY <2>3, <2>5
<1>3. N = Nat
  <2>1. N \in SUBSET Nat
    OBVIOUS
  <2> HIDE DEF N
  <2> QED
    BY <1>1, <1>2, <2>1, AllNumbers
<1>4. \A a \in Seq(Texts) : Len(a) \in Nat
  OBVIOUS
<1> QED
  BY <1>3, <1>4

\* Split in terms of its pieces: an empty one at the end is left out.
LEMMA SplitIs ==
  ASSUME NEW t, NEW sep
  PROVE  Split(t, sep) = IF Last(Pieces(t, sep)) = <<>> THEN Front(Pieces(t, sep))
                                                        ELSE Pieces(t, sep)
BY DEF Split, Pieces, More

\* The strings of a list one behind the other.
LEMMA FlatRec ==
  ASSUME NEW a \in Lists1
  PROVE  \E g : /\ g[1] = a[1]
                /\ \A n \in 2..Len(a) : g[n] = g[n - 1] \o a[n]
                /\ FlattenSeq(a) = g[Len(a)]
<1> DEFINE G(g, m) == [n \in 1..m |-> IF n = 1 THEN a[n] ELSE g[n - 1] \o a[n]]
           N == {m \in Nat : \E g : g = G(g, m)}
<1>1. 0 \in N
  <2> DEFINE g == [n \in 1..0 |-> a[n]]
  <2>1. g = G(g, 0)
    OBVIOUS
  <2> HIDE DEF G
  <2> QED
    BY <2>1
<1>2. ASSUME NEW m \in N PROVE m + 1 \in N
  <2>1. m \in Nat /\ m + 1 \in Nat
    OBVIOUS
  <2>2. PICK g : g = G(g, m)
    OBVIOUS
  <2> DEFINE h == [n \in 1..(m + 1) |-> IF n = 1 THEN a[1] ELSE
                                         IF n = m + 1 THEN g[m] \o a[m + 1] ELSE g[n]]
  <2>3. ASSUME NEW n \in 1..(m + 1)
        PROVE  h[n] = IF n = 1 THEN a[n] ELSE h[n - 1] \o a[n]
    <3>1. CASE n = 1
      BY <3>1
    <3>2. CASE n # 1 /\ n = m + 1
      <4>1. n - 1 = m /\ m \in 1..(m + 1) /\ m # m + 1 /\ m \in 1..m
        BY <2>1, <3>2
      <4>2. h[m] = g[m]
        <5>1. m = 1 => g[m] = a[1]
          BY <2>2, <4>1
        <5> QED
          BY <4>1, <5>1
      <4> QED
        BY <3>2, <4>1, <4>2
    <3>3. CASE n # 1 /\ n # m + 1
      <4>1. /\ n \in 1..m /\ n - 1 \in 1..(m + 1) /\ n - 1 # m + 1 /\ n - 1 \in 1..m
        BY <2>1, <3>3
      <4>2. g[n] = g[n - 1] \o a[n]
        BY <2>2, <3>3, <4>1
      <4>3. h[n - 1] = g[n - 1]
        <5>1. n - 1 = 1 => g[n - 1] = a[1]
          BY <2>2, <4>1
        <5> QED
          BY <4>1, <5>1
      <4> QED
        BY <3>3, <4>1, <4>2, <4>3
    <3> QED
      BY <3>1, <3>2, <3>3
  <2>4. h = G(h, m + 1)
    BY <2>3
  <2> HIDE DEF G
  <2> QED
    BY <2>1, <2>4
<1>3. N = Nat
  <2>1. N \in SUBSET Nat
    OBVIOUS
  <2> HIDE DEF N
  <2> QED
    BY <1>1, <1>2, <2>1, AllNumbers
<1>4. Len(a) \in Nat /\ Len(a) > 0
  BY DEF Lists1
<1> DEFINE f == CHOOSE g : g = G(g, Len(a))
<1>5. f = G(f, Len(a))
  <2>1. \E g : g = G(g, Len(a))
    BY <1>3, <1>4
  <2> HIDE DEF G
  <2> QED
    BY <2>1
<1>6. FlattenSeq(a) = f[Len(a)]
  BY <1>4 DEF FlattenSeq
<1> HIDE DEF f
<1>7. 1 \in 1..Len(a) /\ \A n \in 2..Len(a) : n \in 1..Len(a) /\ n # 1
  BY <1>4
<1>8. f[1] = a[1] /\ \A n \in 2..Len(a) : f[n] = f[n - 1] \o a[n]
  BY <1>5, <1>7
<1> QED
  BY <1>6, <1>8

\* The empty list, and a list with one more string.
LEMMA FlatAre ==
  /\ FlattenSeq(<<>>) = <<>>
  /\ \A a \in Seq(Texts) : FlattenSeq(a) \in Texts
  /\ \A a \in Seq(Texts) : \A t \in Texts : FlattenSeq(Append(a, t)) = FlattenSeq(a) \o t
<1>1. FlattenSeq(<<>>) = <<>>
  BY DEF FlattenSeq
<1>2. ASSUME NEW a \in Seq(Texts), NEW t \in Texts
      PROVE  FlattenSeq(Append(a, t)) = FlattenSeq(a) \o t
  <2>1. /\ Append(a, t) \in Lists1 /\ Len(a) \in Nat /\ Len(Append(a, t)) = Len(a) + 1
        /\ \A i \in 1..Len(a) : Append(a, t)[i] = a[i]
        /\ Append(a, t)[Len(a) + 1] = t
    BY AppendText, AppendProperties
  <2>2. PICK h : /\ h[1] = Append(a, t)[1]
                 /\ \A n \in 2..Len(Append(a, t)) : h[n] = h[n - 1] \o Append(a, t)[n]
                 /\ FlattenSeq(Append(a, t)) = h[Len(Append(a, t))]
    BY <2>1, FlatRec, Zenon
  <2>3. CASE a = <<>>
    <3>1. FlattenSeq(Append(a, t)) = t
      BY <2>1, <2>2, <2>3
    <3>2. <<>> \o t = t
      BY ConcatEmptySeq DEF Texts
    <3> QED
      BY <1>1, <2>3, <3>1, <3>2
  <2>4. CASE a # <<>>
    <3>1. a \in Lists1 /\ Len(a) >= 1
      <4>1. Len(a) # 0
        BY <2>4
      <4> QED
        BY <2>1, <4>1 DEF Lists1
    <3>2. PICK g : /\ g[1] = a[1]
                   /\ \A n \in 2..Len(a) : g[n] = g[n - 1] \o a[n]
                   /\ FlattenSeq(a) = g[Len(a)]
      BY <3>1, FlatRec, Zenon
    <3> DEFINE N == {n \in Nat : n + 1 <= Len(a) => h[n + 1] = g[n + 1]}
    <3>3. 0 \in N
      <4>1. 1 \in 1..Len(a)
        BY <2>1, <3>1
      <4> QED
        BY <2>1, <2>2, <3>2, <4>1
    <3>4. ASSUME NEW n \in N PROVE n + 1 \in N
      <4>1. SUFFICES ASSUME (n + 1) + 1 <= Len(a) PROVE h[(n + 1) + 1] = g[(n + 1) + 1]
        OBVIOUS
      <4>2. /\ (n + 1) + 1 \in 2..Len(a) /\ (n + 1) + 1 \in 2..(Len(a) + 1)
            /\ (n + 1) + 1 \in 1..Len(a) /\ ((n + 1) + 1) - 1 = n + 1 /\ n + 1 <= Len(a)
        BY <2>1, <4>1
      <4>3. h[(n + 1) + 1] = h[n + 1] \o a[(n + 1) + 1]
        BY <2>1, <2>2, <4>2
      <4>4. g[(n + 1) + 1] = g[n + 1] \o a[(n + 1) + 1]
        BY <3>2, <4>2
      <4> QED
        BY <4>2, <4>3, <4>4
    <3>5. N = Nat
      <4>1. N \in SUBSET Nat
        OBVIOUS
      <4> HIDE DEF N
      <4> QED
        BY <3>3, <3>4, <4>1, AllNumbers
    <3>6. h[Len(a)] = g[Len(a)]
      <4>1. PICK n \in Nat : Len(a) = n + 1
        <5>1. \A k \in Nat : k >= 1 => k - 1 \in Nat /\ k = (k - 1) + 1
          OBVIOUS
        <5> QED
          BY <2>1, <3>1, <5>1, Zenon
      <4>2. n \in N
        BY <3>5, <4>1, Zenon
      <4>3. n + 1 <= Len(a)
        BY <4>1
      <4> QED
        BY <4>1, <4>2, <4>3
    <3>7. Len(a) + 1 \in 2..Len(Append(a, t)) /\ (Len(a) + 1) - 1 = Len(a)
      BY <2>1, <3>1
    <3> HIDE DEF N
    <3>8. h[Len(a) + 1] = h[(Len(a) + 1) - 1] \o Append(a, t)[Len(a) + 1]
      BY <2>2, <3>7, Zenon
    <3> QED
      BY <2>1, <2>2, <3>2, <3>6, <3>7, <3>8, Zenon
  <2> QED
    BY <2>3, <2>4
<1>3. ASSUME NEW a \in Seq(Texts) PROVE FlattenSeq(a) \in Texts
  <2> DEFINE S == {b \in Seq(Texts) : FlattenSeq(b) \in Texts}
  <2>1. <<>> \in S
    <3>1. <<>> \in Texts /\ <<>> \in Seq(Texts)
      BY DEF Texts
    <3> QED
      BY <1>1, <3>1, Zenon
  <2>2. ASSUME NEW b \in S, NEW t \in Texts PROVE Append(b, t) \in S
    <3>1. FlattenSeq(b) \o t \in Texts
      BY ConcatProperties DEF Texts
    <3> QED
      BY <1>2, <3>1, AppendText
  <2>3. S = Seq(Texts)
    <3>1. S \in SUBSET Seq(Texts)
      OBVIOUS
    <3> HIDE DEF S
    <3> QED
      BY <2>1, <2>2, <3>1, AllLists
  <2> QED
    BY <2>3
<1> QED
  BY <1>1, <1>2, <1>3

\* Terminated of the empty list, and of a list with one more string.
LEMMA TerminatedAre ==
  ASSUME NEW sep \in Chars
  PROVE  /\ Terminated(<<>>, sep) = <<>>
         /\ \A a \in Seq(Texts) : Terminated(a, sep) \in Texts
         /\ \A a \in Seq(Texts) : \A t \in Texts :
              Terminated(Append(a, t), sep) = Append(Terminated(a, sep) \o t, sep)
<1> DEFINE B(a) == [k \in 1..Len(a) |-> Append(a[k], sep)]
<1>1. ASSUME NEW a \in Seq(Texts) PROVE B(a) \in Seq(Texts) /\ Len(B(a)) = Len(a)
  <2>1. Len(a) \in Nat /\ \A k \in 1..Len(a) : a[k] \in Texts
    BY ElementOfSeq
  <2>2. \A k \in 1..Len(a) : Append(a[k], sep) \in Texts
    BY <2>1, AppendProperties DEF Texts
  <2> QED
    BY <2>1, <2>2
<1>2. \A a : Terminated(a, sep) = FlattenSeq(B(a))
  BY DEF Terminated
<1>3. B(<<>>) = <<>>
  OBVIOUS
<1>4. ASSUME NEW a \in Seq(Texts), NEW t \in Texts
      PROVE  B(Append(a, t)) = Append(B(a), Append(t, sep))
  <2> DEFINE u == Append(t, sep)
  <2>1. /\ Append(a, t) \in Seq(Texts) /\ Len(a) \in Nat /\ Len(Append(a, t)) = Len(a) + 1
        /\ \A i \in 1..Len(a) : Append(a, t)[i] = a[i]
        /\ Append(a, t)[Len(a) + 1] = t
    BY AppendText, AppendProperties
  <2>2. u \in Texts
    BY AppendProperties DEF Texts
  <2>3. B(a) \in Seq(Texts) /\ Len(B(a)) = Len(a)
    BY <1>1
  <2>4. B(Append(a, t)) \in Seq(Texts) /\ Len(B(Append(a, t))) = Len(a) + 1
    BY <1>1, <2>1
  <2>5. \A i \in 1..Len(a) : i \in 1..(Len(a) + 1) /\ B(Append(a, t))[i] = Append(a[i], sep)
                              /\ B(a)[i] = Append(a[i], sep)
    BY <2>1
  <2>6. Len(a) + 1 \in 1..(Len(a) + 1) /\ B(Append(a, t))[Len(a) + 1] = u
    BY <2>1
  <2> HIDE DEF B, u
  <2>7. /\ Append(B(a), u) \in Seq(Texts) /\ Len(Append(B(a), u)) = Len(a) + 1
        /\ \A i \in 1..Len(a) : Append(B(a), u)[i] = B(a)[i]
        /\ Append(B(a), u)[Len(a) + 1] = u
    BY <2>2, <2>3, AppendProperties
  <2>8. \A i \in 1..(Len(a) + 1) : i \in 1..Len(a) \/ i = Len(a) + 1
    BY <2>1
  <2> DEFINE x == B(Append(a, t))
             y == Append(B(a), u)
  <2>9. /\ x \in Seq(Texts) /\ y \in Seq(Texts) /\ Len(x) = Len(a) + 1 /\ Len(y) = Len(a) + 1
        /\ \A i \in 1..Len(a) : x[i] = y[i]
        /\ x[Len(a) + 1] = y[Len(a) + 1]
    BY <2>4, <2>5, <2>6, <2>7, Zenon
  <2> HIDE DEF x, y
  <2>10. \A i \in 1..Len(x) : x[i] = y[i]
    BY <2>8, <2>9
  <2>11. x = y
    BY <2>9, <2>10, SeqEqual
  <2> QED
    BY <2>11 DEF u, x, y
<1> HIDE DEF B
<1>5. ASSUME NEW a \in Seq(Texts), NEW t \in Texts
      PROVE  Terminated(Append(a, t), sep) = Append(Terminated(a, sep) \o t, sep)
  <2>1. Append(t, sep) \in Texts /\ B(a) \in Seq(Texts)
    BY <1>1, AppendProperties DEF Texts
  <2>2. FlattenSeq(B(Append(a, t))) = FlattenSeq(B(a)) \o Append(t, sep)
    BY <1>4, <2>1, FlatAre
  <2>3. FlattenSeq(B(a)) \in Texts
    BY <2>1, FlatAre
  <2>4. FlattenSeq(B(a)) \o Append(t, sep) = Append(FlattenSeq(B(a)) \o t, sep)
    BY <2>3, AppendBehind
  <2> QED
    BY <1>2, <2>2, <2>4
<1>6. Terminated(<<>>, sep) = <<>>
  BY <1>2, <1>3, FlatAre
<1>7. ASSUME NEW a \in Seq(Texts) PROVE Terminated(a, sep) \in Texts
  BY <1>1, <1>2, FlatAre
<1> QED
  BY <1>5, <1>6, <1>7

\* Has(s, c): s holds the character c.
Has(s, c) == \E i \in 1..Len(s) : s[i] = c

\* Strings without the separator, each with it behind, fall into just these.
LEMMA PiecesOfTerminated ==
  ASSUME NEW sep \in Chars, NEW a \in Seq(Texts), \A k \in 1..Len(a) : ~ Has(a[k], sep)
  PROVE  Pieces(Terminated(a, sep), sep) = Append(a, <<>>)
<1> DEFINE S == {b \in Seq(Texts) : (\A k \in 1..Len(b) : ~ Has(b[k], sep)) =>
                                      Pieces(Terminated(b, sep), sep) = Append(b, <<>>)}
<1>1. <<>> \in S
  <2>1. Append(<<>>, <<>>) = << <<>> >>
    OBVIOUS
  <2> QED
    BY <2>1, TerminatedAre, PiecesAre
<1>2. ASSUME NEW b \in S, NEW t \in Texts PROVE Append(b, t) \in S
  <2>1. /\ Append(b, t) \in Seq(Texts) /\ Len(b) \in Nat /\ Len(Append(b, t)) = Len(b) + 1
        /\ \A i \in 1..Len(b) : Append(b, t)[i] = b[i]
        /\ Append(b, t)[Len(b) + 1] = t
    BY AppendText, AppendProperties
  <2>2. SUFFICES ASSUME \A k \in 1..Len(Append(b, t)) : ~ Has(Append(b, t)[k], sep)
                 PROVE  Pieces(Terminated(Append(b, t), sep), sep) = Append(Append(b, t), <<>>)
    BY <2>1
  <2>3. /\ \A k \in 1..Len(b) : k \in 1..(Len(b) + 1)
        /\ Len(b) + 1 \in 1..(Len(b) + 1)
    BY <2>1
  <2>4. (\A k \in 1..Len(b) : ~ Has(b[k], sep)) /\ ~ Has(t, sep)
    BY <2>1, <2>2, <2>3
  <2>5. Pieces(Terminated(b, sep), sep) = Append(b, <<>>)
    BY <2>4
  <2>6. \A i \in 1..Len(t) : t[i] # sep
    BY <2>4 DEF Has
  <2>7. Terminated(b, sep) \in Texts
    BY TerminatedAre
  <2>8. Pieces(Append(Terminated(b, sep) \o t, sep), sep) = Append(Append(b, t), <<>>)
    BY <2>5, <2>6, <2>7, NextPiece
  <2> QED
    BY <2>8, TerminatedAre
<1>3. S = Seq(Texts)
  <2>1. S \in SUBSET Seq(Texts)
    OBVIOUS
  <2> HIDE DEF S
  <2> QED
    BY <1>1, <1>2, <2>1, AllLists
<1> QED
  BY <1>3

\* What createHTTPMessage and the like have put together is taken apart again.
LEMMA SplitTerminated ==
  ASSUME NEW sep \in Chars, NEW a \in Seq(Texts), \A k \in 1..Len(a) : ~ Has(a[k], sep)
  PROVE  Split(Terminated(a, sep), sep) = a
<1>1. <<>> \in Texts
  BY DEF Texts
<1>2. Front(Append(a, <<>>)) = a /\ Last(Append(a, <<>>)) = <<>>
  BY <1>1, AppendText
<1> QED
  BY <1>2, SplitIs, PiecesOfTerminated

\* A text with one more character.
LEMMA FrontAppended ==
  ASSUME NEW t \in Texts, NEW c \in Chars
  PROVE  Append(t, c) # <<>> /\ Front(Append(t, c)) = t
<1> DEFINE b == Append(t, c)
<1>1. /\ b \in Texts /\ Len(t) \in Nat /\ Len(b) = Len(t) + 1
      /\ \A i \in 1..Len(t) : b[i] = t[i]
  BY AppendProperties DEF Texts
<1> HIDE DEF b
<1>2. b # <<>>
  BY <1>1
<1>3. /\ SubSeq(b, 1, Len(t)) \in Texts /\ Len(SubSeq(b, 1, Len(t))) = Len(t)
      /\ \A i \in 1..Len(t) : SubSeq(b, 1, Len(t))[i] = b[i]
  BY <1>1 DEF Texts
<1>4. SubSeq(b, 1, Len(t)) = t
  BY <1>1, <1>3, SeqEqual DEF Texts
<1>5. Front(b) = SubSeq(b, 1, Len(t))
  <2>1. Len(b) - 1 = Len(t)
    BY <1>1
  <2> QED
    BY <2>1 DEF Front
<1> QED
  BY <1>2, <1>4, <1>5 DEF b

\* The separators are characters, each another.
LEMMA SeparatorsAre ==
  /\ EOT \in Chars /\ SEPARATOR \in Chars /\ FILES_SEP \in Chars
  /\ EOT # SEPARATOR /\ EOT # FILES_SEP /\ SEPARATOR # FILES_SEP
<1>1. EOT \in Literals /\ SEPARATOR \in Literals /\ FILES_SEP \in Literals
  BY DEF Literals
<1>2. "EOT" # "|" /\ "EOT" # "^" /\ "|" # "^"
  OBVIOUS
<1>3. EOT # SEPARATOR /\ EOT # FILES_SEP /\ SEPARATOR # FILES_SEP
  BY <1>2, Zenon DEF EOT, SEPARATOR, FILES_SEP
<1> QED
  BY <1>1, <1>3 DEF Chars

\* Join of a list with a last name.
LEMMA JoinIs ==
  ASSUME NEW a \in Seq(Texts), NEW t \in Texts
  PROVE  Join(Append(a, t)) = Terminated(a, FILES_SEP) \o t
<1>1. FILES_SEP \in Chars
  BY SeparatorsAre
<1> DEFINE s == Terminated(a, FILES_SEP) \o t
<1>2. s \in Texts
  BY <1>1, TerminatedAre, ConcatProperties DEF Texts
<1>3. Terminated(Append(a, t), FILES_SEP) = Append(s, FILES_SEP)
  BY <1>1, TerminatedAre
<1> HIDE DEF s
<1>4. Append(s, FILES_SEP) # <<>> /\ Front(Append(s, FILES_SEP)) = s
  BY <1>1, <1>2, FrontAppended
<1>5. Join(Append(a, t)) = s
  BY <1>3, <1>4 DEF Join
<1> QED
  BY <1>5 DEF s

\* A list of names without separators, the last not empty, comes back as it was.
LEMMA SplitJoin ==
  ASSUME NEW a \in Lists1, \A k \in 1..Len(a) : a[k] # <<>> /\ ~ Has(a[k], FILES_SEP)
  PROVE  Split(Join(a), FILES_SEP) = a
<1>1. FILES_SEP \in Chars
  BY SeparatorsAre
<1>2. /\ Len(a) \in Nat /\ Len(a) >= 1 /\ Len(a) \in 1..Len(a) /\ Last(a) = a[Len(a)]
      /\ Last(a) \in Texts /\ Front(a) \in Seq(Texts) /\ Len(Front(a)) = Len(a) - 1
      /\ \A i \in 1..(Len(a) - 1) : Front(a)[i] = a[i]
  BY LastLine
<1>3. a = Append(Front(a), Last(a))
  BY <1>2, NewLast
<1>4. \A i \in 1..(Len(a) - 1) : i \in 1..Len(a)
  BY <1>2
<1>5. /\ \A k \in 1..Len(Front(a)) : ~ Has(Front(a)[k], FILES_SEP)
      /\ \A i \in 1..Len(Last(a)) : Last(a)[i] # FILES_SEP
      /\ Last(a) # <<>>
  BY <1>2, <1>4 DEF Has
<1> DEFINE f == Front(a)
           l == Last(a)
<1>6. /\ f \in Seq(Texts) /\ l \in Texts /\ a = Append(f, l) /\ l # <<>>
      /\ \A k \in 1..Len(f) : ~ Has(f[k], FILES_SEP)
      /\ \A i \in 1..Len(l) : l[i] # FILES_SEP
  BY <1>2, <1>3, <1>5
<1> HIDE DEF f, l
<1>7. Pieces(Terminated(f, FILES_SEP), FILES_SEP) = Append(f, <<>>)
  BY <1>1, <1>6, PiecesOfTerminated
<1>8. Terminated(f, FILES_SEP) \in Texts
  BY <1>1, <1>6, TerminatedAre
<1>9. Pieces(Terminated(f, FILES_SEP) \o l, FILES_SEP) = Append(f, l)
  BY <1>1, <1>6, <1>7, <1>8, NextPiece
<1>10. Last(Append(f, l)) = l
  BY <1>6, AppendText
<1>11. Join(a) = Terminated(f, FILES_SEP) \o l
  BY <1>6, JoinIs
<1> QED
  BY <1>6, <1>9, <1>10, <1>11, SplitIs

\* Each string of the list a is in G.
AllIn(a, G) == \A k \in 1..Len(a) : a[k] \in G

\* One more character changes the last piece, or begins another.
LEMMA MoreIn ==
  ASSUME NEW a \in Lists1, NEW c \in Chars, NEW sep, NEW G \in SUBSET Texts, AllIn(a, G),
         c = sep => <<>> \in G, c # sep => Append(Last(a), c) \in G
  PROVE  AllIn(More(a, c, sep), G)
<1>1. /\ Len(a) \in Nat /\ Len(a) >= 1 /\ a \in Seq(Texts) /\ Front(a) \in Seq(Texts)
      /\ Len(Front(a)) = Len(a) - 1 /\ \A i \in 1..(Len(a) - 1) : Front(a)[i] = a[i]
  BY LastLine
<1>2. ASSUME NEW b \in Seq(Texts), AllIn(b, G), NEW t \in G PROVE AllIn(Append(b, t), G)
  <2>1. /\ Len(b) \in Nat /\ Len(Append(b, t)) = Len(b) + 1
        /\ \A i \in 1..Len(b) : Append(b, t)[i] = b[i]
        /\ Append(b, t)[Len(b) + 1] = t
    BY AppendText, AppendProperties
  <2>2. \A i \in 1..(Len(b) + 1) : i \in 1..Len(b) \/ i = Len(b) + 1
    BY <2>1
  <2> QED
    BY <1>2, <2>1, <2>2 DEF AllIn
<1>3. AllIn(Front(a), G)
  <2>1. \A i \in 1..(Len(a) - 1) : i \in 1..Len(a)
    BY <1>1
  <2> QED
    BY <1>1, <2>1 DEF AllIn
<1> QED
  BY <1>1, <1>2, <1>3 DEF More

\* So does Split: its strings are pieces.
LEMMA SplitIn ==
  ASSUME NEW t \in Texts, NEW sep, NEW G
  PROVE  /\ Split(t, sep) \in Seq(Texts)
         /\ AllIn(Pieces(t, sep), G) => AllIn(Split(t, sep), G)
<1> DEFINE a == Pieces(t, sep)
<1>1. a \in Lists1
  BY PiecesType
<1>2. Split(t, sep) = IF Last(a) = <<>> THEN Front(a) ELSE a
  BY SplitIs
<1> HIDE DEF a
<1>3. /\ Len(a) \in Nat /\ Len(a) >= 1 /\ a \in Seq(Texts) /\ Front(a) \in Seq(Texts)
      /\ Len(Front(a)) = Len(a) - 1 /\ \A i \in 1..(Len(a) - 1) : Front(a)[i] = a[i]
  BY <1>1, LastLine
<1>4. \A i \in 1..(Len(a) - 1) : i \in 1..Len(a)
  BY <1>3
<1>5. AllIn(a, G) => AllIn(Front(a), G)
  BY <1>3, <1>4 DEF AllIn
<1>6. AllIn(a, G) => AllIn(Split(t, sep), G)
  BY <1>2, <1>5, Zenon
<1>7. Split(t, sep) \in Seq(Texts)
  BY <1>2, <1>3
<1> QED
  BY <1>6, <1>7 DEF a

\* What a text with one more character holds.
LEMMA HasAppend ==
  ASSUME NEW t \in Texts, NEW c \in Chars, NEW x
  PROVE  Has(Append(t, c), x) <=> Has(t, x) \/ c = x
<1>1. /\ Len(t) \in Nat /\ Len(Append(t, c)) = Len(t) + 1
      /\ \A i \in 1..Len(t) : Append(t, c)[i] = t[i]
      /\ Append(t, c)[Len(t) + 1] = c
  BY AppendProperties DEF Texts
<1>2. /\ \A i \in 1..(Len(t) + 1) : i \in 1..Len(t) \/ i = Len(t) + 1
      /\ \A i \in 1..Len(t) : i \in 1..(Len(t) + 1)
      /\ Len(t) + 1 \in 1..(Len(t) + 1)
  BY <1>1
<1> QED
  BY <1>1, <1>2 DEF Has

\* The empty string holds nothing.
LEMMA HasNothing == \A x : ~ Has(<<>>, x)
BY DEF Has

\* Two texts one behind the other.
LEMMA HasConcat ==
  ASSUME NEW s \in Texts, NEW t \in Texts, NEW x
  PROVE  Has(s \o t, x) <=> Has(s, x) \/ Has(t, x)
<1>1. /\ Len(s) \in Nat /\ Len(t) \in Nat /\ Len(s \o t) = Len(s) + Len(t)
      /\ \A i \in 1..Len(s) : (s \o t)[i] = s[i]
      /\ \A i \in 1..Len(t) : (s \o t)[Len(s) + i] = t[i]
  BY ConcatProperties DEF Texts
<1>2. /\ \A i \in 1..(Len(s) + Len(t)) : i \in 1..Len(s) \/ \E j \in 1..Len(t) : i = Len(s) + j
      /\ \A i \in 1..Len(s) : i \in 1..(Len(s) + Len(t))
      /\ \A j \in 1..Len(t) : Len(s) + j \in 1..(Len(s) + Len(t))
  <2>1. ASSUME NEW i \in 1..(Len(s) + Len(t)), i \notin 1..Len(s)
        PROVE  \E j \in 1..Len(t) : i = Len(s) + j
    <3>1. i - Len(s) \in 1..Len(t) /\ i = Len(s) + (i - Len(s))
      BY <1>1, <2>1
    <3> QED
      BY <3>1
  <2> QED
    BY <1>1, <2>1
<1> DEFINE u == s \o t
<1>3. /\ Len(u) = Len(s) + Len(t)
      /\ \A i \in 1..Len(s) : u[i] = s[i]
      /\ \A i \in 1..Len(t) : u[Len(s) + i] = t[i]
  BY <1>1
<1> HIDE DEF u
<1>4. Has(u, x) => Has(s, x) \/ Has(t, x)
  <2>1. SUFFICES ASSUME NEW i \in 1..(Len(s) + Len(t)), u[i] = x PROVE Has(s, x) \/ Has(t, x)
    BY <1>3, Zenon DEF Has
  <2>2. CASE i \in 1..Len(s)
    BY <1>3, <2>1, <2>2, Zenon DEF Has
  <2>3. CASE i \notin 1..Len(s)
    BY <1>2, <1>3, <2>1, <2>3, Zenon DEF Has
  <2> QED
    BY <2>2, <2>3
<1>5. Has(s, x) => Has(u, x)
  BY <1>2, <1>3, Zenon DEF Has
<1>6. Has(t, x) => Has(u, x)
  BY <1>2, <1>3, Zenon DEF Has
<1> QED
  BY <1>4, <1>5, <1>6 DEF u

\* What a text does not hold none of its pieces does.
LEMMA PiecesHave ==
  ASSUME NEW sep, NEW x, NEW t \in Texts, ~ Has(t, x)
  PROVE  AllIn(Pieces(t, sep), {e \in Texts : ~ Has(e, x)})
<1> DEFINE G == {e \in Texts : ~ Has(e, x)}
           S == {s \in Texts : ~ Has(s, x) => AllIn(Pieces(s, sep), G)}
<1>0. <<>> \in G
  BY HasNothing DEF Texts
<1>1. <<>> \in S
  <2>1. \A k \in 1..Len(<< <<>> >>) : << <<>> >>[k] = <<>>
    OBVIOUS
  <2>2. AllIn(<< <<>> >>, G)
    BY <1>0, <2>1 DEF AllIn
  <2> QED
    BY <1>0, <2>2, PiecesAre
<1>2. ASSUME NEW s \in S, NEW c \in Chars PROVE Append(s, c) \in S
  <2>1. Append(s, c) \in Texts
    BY AppendProperties DEF Texts
  <2>2. SUFFICES ASSUME ~ Has(Append(s, c), x) PROVE AllIn(Pieces(Append(s, c), sep), G)
    BY <2>1
  <2>3. ~ Has(s, x) /\ c # x
    BY <2>2, HasAppend
  <2> DEFINE a == Pieces(s, sep)
  <2>4. a \in Lists1 /\ AllIn(a, G)
    BY <2>3, PiecesType
  <2>5. Last(a) \in G
    <3> HIDE DEF a, G
    <3>1. Last(a) = a[Len(a)] /\ Len(a) \in 1..Len(a)
      BY <2>4, LastLine
    <3> QED
      BY <2>4, <3>1 DEF AllIn
  <2>6. Append(Last(a), c) \in G
    <3>1. Last(a) \in Texts /\ ~ Has(Last(a), x)
      BY <2>5
    <3> HIDE DEF a
    <3>2. Append(Last(a), c) \in Texts /\ ~ Has(Append(Last(a), c), x)
      BY <2>3, <3>1, HasAppend, AppendProperties DEF Texts
    <3> QED
      BY <3>2
  <2>7. G \in SUBSET Texts
    OBVIOUS
  <2>8. Pieces(Append(s, c), sep) = More(a, c, sep)
    BY PiecesAre
  <2> HIDE DEF a, G
  <2>9. AllIn(More(a, c, sep), G)
    BY <1>0, <2>4, <2>6, <2>7, MoreIn
  <2> QED
    BY <2>8, <2>9
<1>3. S = Texts
  <2>1. S \in SUBSET Texts
    OBVIOUS
  <2> HIDE DEF S
  <2> QED
    BY <1>1, <1>2, <2>1, AllTexts
<1> QED
  BY <1>3

------------------------------------------------------------------------------
(* Messages.                                                                 *)

\* What a header can carry.
Clean(s) == s \in Texts /\ ~ Has(s, EOT) /\ ~ Has(s, SEPARATOR)

\* The strings of Clean are those of IsClean.
LEMMA CleanIs == \A s : IsClean(s) => Clean(s)
<1>1. SUFFICES ASSUME NEW s, IsClean(s) PROVE Clean(s)
  OBVIOUS
<1>2. s \in Seq(STRING) /\ ToSet(s) \cap {EOT, SEPARATOR} = {}
  BY <1>1 DEF IsClean
<1>3. s \in Texts
  <2>1. \A R, T : R \subseteq T => Seq(R) \subseteq Seq(T)
    OBVIOUS
  <2>2. STRING \subseteq Chars
    BY Zenon DEF Chars
  <2> QED
    BY <1>2, <2>1, <2>2 DEF Texts
<1>4. DOMAIN s = 1..Len(s)
  BY <1>3 DEF Texts
<1>5. \A x \in {EOT, SEPARATOR} : ~ Has(s, x)
  BY <1>2, <1>4, Zenon DEF ToSet, Has
<1> QED
  BY <1>3, <1>5, Zenon DEF Clean

\* The names of the fields.
LEMMA FieldsAre ==
  /\ Fields \in Seq(Chars) /\ Len(Fields) = 6 /\ DOMAIN Fields = 1..6
  /\ \A k \in 1..6 : /\ Fields[k] \in Chars /\ Fields[k] # EOT /\ Fields[k] # SEPARATOR
                     /\ Fields[k] \in ToSet(Fields)
  /\ \A j, k \in 1..6 : Fields[j] = Fields[k] => j = k
  /\ \A field \in ToSet(Fields) : \E k \in 1..6 : field = Fields[k]
  /\ ToSet(Fields) = {"command", "to_Addr", "from_Addr", "fileName", "body", "open"}
<1>1. \A k \in 1..6 : k = 1 \/ k = 2 \/ k = 3 \/ k = 4 \/ k = 5 \/ k = 6
  OBVIOUS
<1>2. Len(Fields) = 6 /\ DOMAIN Fields = 1..6
  BY DEF Fields
<1>3. /\ Fields[1] = "command" /\ Fields[2] = "to_Addr" /\ Fields[3] = "from_Addr"
      /\ Fields[4] = "fileName" /\ Fields[5] = "body" /\ Fields[6] = "open"
  BY DEF Fields
<1>4. {"command", "to_Addr", "from_Addr", "fileName", "body", "open"} \subseteq Chars
  <2>1. {"command", "to_Addr", "from_Addr", "fileName", "body", "open"} \subseteq Literals
    BY Zenon DEF Literals
  <2> QED
    BY <2>1, Zenon DEF Chars
<1>5. \A k \in 1..6 : Fields[k] \in {"command", "to_Addr", "from_Addr", "fileName", "body", "open"}
  BY <1>1, <1>3, Zenon
<1>6. Fields \in Seq(Chars)
  <2>1. \A k \in 1..6 : Fields[k] \in Chars
    BY <1>4, <1>5, Zenon
  <2> DEFINE F == Fields
  <2>2. F = [k \in 1..6 |-> F[k]]
    BY DEF Fields
  <2> HIDE DEF F
  <2>3. [k \in 1..6 |-> F[k]] \in Seq(Chars)
    BY <2>1 DEF F
  <2> QED
    BY <2>2, <2>3 DEF F
<1>7. \A x \in {"command", "to_Addr", "from_Addr", "fileName", "body", "open"} :
        x # EOT /\ x # SEPARATOR
  BY DEF EOT, SEPARATOR
<1>8. \A j, k \in 1..6 : Fields[j] = Fields[k] => j = k
  BY <1>1, <1>3
<1>9. ToSet(Fields) = {Fields[k] : k \in 1..6}
  BY <1>2, Zenon DEF ToSet
<1>10. ToSet(Fields) = {"command", "to_Addr", "from_Addr", "fileName", "body", "open"}
  <2>1. ToSet(Fields) \subseteq {"command", "to_Addr", "from_Addr", "fileName", "body", "open"}
    BY <1>5, <1>9, Zenon
  <2>2. 1 \in 1..6 /\ 2 \in 1..6 /\ 3 \in 1..6 /\ 4 \in 1..6 /\ 5 \in 1..6 /\ 6 \in 1..6
    OBVIOUS
  <2>3. \A k \in 1..6 : Fields[k] \in ToSet(Fields)
    BY <1>9, Zenon
  <2> QED
    BY <1>3, <2>1, <2>2, <2>3, Zenon
<1> QED
  BY <1>2, <1>4, <1>5, <1>6, <1>7, <1>8, <1>9, <1>10, Zenon

\* A pair as a sequence.
LEMMA Pair ==
  ASSUME NEW T, NEW c \in T, NEW d \in T
  PROVE  <<c, d>> \in Seq(T) /\ Append(<<c>>, d) = <<c, d>>
<1>1. <<c>> \in Seq(T) /\ Len(<<c>>) = 1 /\ <<c>>[1] = c
  OBVIOUS
<1>2. <<c, d>> \in Seq(T) /\ Len(<<c, d>>) = 2 /\ <<c, d>>[1] = c /\ <<c, d>>[2] = d
  OBVIOUS
<1> DEFINE x == <<c>>
           y == <<c, d>>
<1>3. /\ x \in Seq(T) /\ Len(x) = 1 /\ x[1] = c
      /\ y \in Seq(T) /\ Len(y) = 2 /\ y[1] = c /\ y[2] = d
  BY <1>1, <1>2
<1> HIDE DEF x, y
<1>4. /\ Append(x, d) \in Seq(T) /\ Len(Append(x, d)) = 2
      /\ Append(x, d)[1] = c /\ Append(x, d)[2] = d
  <2>1. /\ Append(x, d) \in Seq(T) /\ Len(Append(x, d)) = Len(x) + 1
        /\ \A i \in 1..Len(x) : Append(x, d)[i] = x[i]
        /\ Append(x, d)[Len(x) + 1] = d
    <3>1. \A q \in Seq(T) : /\ Append(q, d) \in Seq(T) /\ Len(Append(q, d)) = Len(q) + 1
                            /\ \A i \in 1..Len(q) : Append(q, d)[i] = q[i]
                            /\ Append(q, d)[Len(q) + 1] = d
      BY AppendProperties
    <3> QED
      BY <1>3, <3>1, Zenon
  <2>2. Len(x) + 1 = 2 /\ 1 \in 1..Len(x)
    BY <1>3
  <2> QED
    BY <1>3, <2>1, <2>2, Zenon
<1>5. \A i \in 1..2 : i = 1 \/ i = 2
  OBVIOUS
<1>6. \A i \in 1..2 : Append(x, d)[i] = y[i]
  BY <1>3, <1>4, <1>5, Zenon
<1>7. Append(x, d) = y
  BY <1>3, <1>4, <1>6, SeqEqual
<1> QED
  BY <1>3, <1>7 DEF x, y

\* A string of one character, or of two.
LEMMA ShortTexts ==
  ASSUME NEW c \in Chars, NEW d \in Chars
  PROVE  /\ <<>> \in Texts /\ <<c>> \in Texts /\ <<c, d>> \in Texts
         /\ Append(<<>>, c) = <<c>> /\ Append(<<c>>, d) = <<c, d>>
         /\ \A x : (Has(<<c>>, x) => x = c) /\ (Has(<<c, d>>, x) => x = c \/ x = d)
<1>1. <<>> \in Texts /\ Append(<<>>, c) = <<c>>
  BY DEF Texts
<1>2. <<c>> \in Texts
  BY DEF Texts
<1>3. Append(<<c>>, d) = <<c, d>>
  BY Pair
<1>4. <<c, d>> \in Texts
  BY <1>2, <1>3, AppendProperties DEF Texts
<1>5. \A x : Has(<<c>>, x) => x = c
  BY <1>1, HasNothing, HasAppend
<1>6. \A x : Has(<<c, d>>, x) => x = c \/ x = d
  <2>1. \A x : Has(Append(<<c>>, d), x) <=> Has(<<c>>, x) \/ d = x
    BY <1>2, HasAppend
  <2> QED
    BY <1>3, <1>5, <2>1, Zenon
<1> QED
  BY <1>1, <1>2, <1>3, <1>4, <1>5, <1>6

\* An attribute falls into its name and its value.
LEMMA SplitAttribute ==
  ASSUME NEW f \in Chars, f # SEPARATOR, NEW v \in Texts, v # <<>>, ~ Has(v, SEPARATOR)
  PROVE  Split(<<f, SEPARATOR>> \o v, SEPARATOR) = << <<f>>, v >>
<1>1. SEPARATOR \in Chars
  BY SeparatorsAre
<1>2. /\ <<>> \in Texts /\ <<f>> \in Texts /\ <<f, SEPARATOR>> \in Texts
      /\ Append(<<f>>, SEPARATOR) = <<f, SEPARATOR>>
  BY <1>1, ShortTexts
<1>3. \A i \in 1..Len(<<f>>) : <<f>>[i] # SEPARATOR
  OBVIOUS
<1>4. <<>> \o <<f>> = <<f>>
  BY <1>2, ConcatEmptySeq DEF Texts
<1>5. Pieces(<<>>, SEPARATOR) = Append(<<>>, <<>>)
  BY PiecesAre
<1>6. <<>> \in Seq(Texts)
  OBVIOUS
<1>7. Pieces(Append(<<>> \o <<f>>, SEPARATOR), SEPARATOR) = Append(Append(<<>>, <<f>>), <<>>)
  BY <1>1, <1>2, <1>3, <1>5, <1>6, NextPiece
<1>8. Append(<<>>, <<f>>) = << <<f>> >> /\ << <<f>> >> \in Seq(Texts)
  BY <1>2
<1>9. Pieces(<<f, SEPARATOR>>, SEPARATOR) = Append(<< <<f>> >>, <<>>)
  BY <1>2, <1>4, <1>7, <1>8, Zenon
<1>10. \A i \in 1..Len(v) : v[i] # SEPARATOR
  BY DEF Has
<1>11. Pieces(<<f, SEPARATOR>> \o v, SEPARATOR) = Append(<< <<f>> >>, v)
  BY <1>1, <1>2, <1>8, <1>9, <1>10, NextPiece
<1>12. Last(Append(<< <<f>> >>, v)) = v
  BY <1>8, AppendText
<1>13. Append(<< <<f>> >>, v) = << <<f>>, v >>
  BY <1>2, Pair
<1> QED
  BY <1>11, <1>12, <1>13, SplitIs

\* A message: a string for each field; one that can be sent.
Messages == [ToSet(Fields) -> Texts]
CleanMessages == {m \in Messages : \A field \in ToSet(Fields) : Clean(m[field])}

\* What is written of a field is never empty, and clean if the field is.
LEMMA FilledIs ==
  ASSUME NEW m \in CleanMessages, NEW field \in ToSet(Fields)
  PROVE  Clean(Filled(m, field)) /\ Filled(m, field) # <<>>
<1>1. Clean(NA) /\ NA # <<>>
  <2>1. "N" \in Chars /\ "A" \in Chars
    <3>1. "N" \in Literals /\ "A" \in Literals
      BY DEF Literals
    <3> QED
      BY <3>1 DEF Chars
  <2>2. "N" # EOT /\ "A" # EOT /\ "N" # SEPARATOR /\ "A" # SEPARATOR
    BY DEF EOT, SEPARATOR
  <2>3. NA = <<"N", "A">>
    BY DEF NA
  <2>4. NA \in Texts /\ \A x : Has(NA, x) => x = "N" \/ x = "A"
    BY <2>1, <2>3, ShortTexts, Zenon
  <2>5. NA # <<>>
    BY <2>3
  <2> QED
    BY <2>2, <2>4, <2>5, Zenon DEF Clean
<1>2. Clean(<<"false">>) /\ <<"false">> # <<>>
  <2>1. "false" \in Chars
    <3>1. "false" \in Literals
      BY DEF Literals
    <3> QED
      BY <3>1 DEF Chars
  <2>2. "false" # EOT /\ "false" # SEPARATOR
    BY DEF EOT, SEPARATOR
  <2>3. <<"false">> \in Texts /\ \A x : Has(<<"false">>, x) => x = "false"
    BY <2>1, ShortTexts, Zenon
  <2>4. <<"false">> # <<>>
    OBVIOUS
  <2> QED
    BY <2>2, <2>3, <2>4, Zenon DEF Clean
<1>3. Clean(m[field])
  BY DEF CleanMessages
<1> QED
  BY <1>1, <1>2, <1>3, Zenon DEF Filled, Default

\* What createHTTPMessage makes of a field, and of the message.
Attribute(m, field) == <<field, SEPARATOR>> \o Filled(m, field)
Attributes(m) == [k \in 1..6 |-> Attribute(m, Fields[k])]

\* A message is its attributes, and is split into them again.
LEMMA AttributesAre ==
  ASSUME NEW m \in CleanMessages
  PROVE  /\ Attributes(m) \in Seq(Texts) /\ Len(Attributes(m)) = 6
         /\ CreateHTTPMessage(m) = Terminated(Attributes(m), EOT)
         /\ CreateHTTPMessage(m) \in Texts
         /\ Split(CreateHTTPMessage(m), EOT) = Attributes(m)
         /\ \A k \in 1..6 :
              Split(Attributes(m)[k], SEPARATOR) = << <<Fields[k]>>, Filled(m, Fields[k]) >>
<1>1. ASSUME NEW k \in 1..6
      PROVE  /\ Attribute(m, Fields[k]) \in Texts
             /\ ~ Has(Attribute(m, Fields[k]), EOT)
             /\ Split(Attribute(m, Fields[k]), SEPARATOR) = << <<Fields[k]>>, Filled(m, Fields[k]) >>
  <2> DEFINE f == Fields[k]
             v == Filled(m, f)
  <2>1. f \in Chars /\ f # EOT /\ f # SEPARATOR /\ f \in ToSet(Fields)
    BY FieldsAre
  <2>2. v \in Texts /\ v # <<>> /\ ~ Has(v, EOT) /\ ~ Has(v, SEPARATOR)
    BY <2>1, FilledIs DEF Clean
  <2> HIDE DEF f, v
  <2>3. SEPARATOR \in Chars /\ SEPARATOR # EOT
    BY SeparatorsAre
  <2>4. <<f, SEPARATOR>> \in Texts /\ ~ Has(<<f, SEPARATOR>>, EOT)
    BY <2>1, <2>3, ShortTexts
  <2>5. <<f, SEPARATOR>> \o v \in Texts
    BY <2>2, <2>4, ConcatProperties DEF Texts
  <2>6. ~ Has(<<f, SEPARATOR>> \o v, EOT)
    BY <2>2, <2>4, HasConcat
  <2>7. Split(<<f, SEPARATOR>> \o v, SEPARATOR) = << <<f>>, v >>
    BY <2>1, <2>2, SplitAttribute
  <2> QED
    BY <2>5, <2>6, <2>7 DEF Attribute, f, v
<1>2. Attributes(m) \in Seq(Texts) /\ Len(Attributes(m)) = 6
  BY <1>1 DEF Attributes
<1>3. \A k \in 1..6 : Attributes(m)[k] = Attribute(m, Fields[k])
  BY DEF Attributes
<1>4. CreateHTTPMessage(m) = Terminated(Attributes(m), EOT)
  <2>1. Len(Fields) = 6
    BY FieldsAre
  <2> QED
    BY <2>1, Zenon DEF CreateHTTPMessage, Attributes, Attribute
<1>5. EOT \in Chars
  BY SeparatorsAre
<1>6. \A k \in 1..Len(Attributes(m)) : ~ Has(Attributes(m)[k], EOT)
  BY <1>1, <1>2, <1>3
<1>7. Split(Terminated(Attributes(m), EOT), EOT) = Attributes(m)
  BY <1>2, <1>5, <1>6, SplitTerminated
<1>8. Terminated(Attributes(m), EOT) \in Texts
  BY <1>2, <1>5, TerminatedAre
<1> QED
  BY <1>1, <1>2, <1>3, <1>4, <1>7, <1>8, Zenon

\* Behind each separator of a message there is a value.
LEMMA CreateInRange == ASSUME NEW m \in CleanMessages PROVE InRange(CreateHTTPMessage(m))
<1> DEFINE a == Attributes(m)
<1>1. /\ Split(CreateHTTPMessage(m), EOT) = a /\ Len(a) = 6
      /\ \A k \in 1..6 : Split(a[k], SEPARATOR) = << <<Fields[k]>>, Filled(m, Fields[k]) >>
  BY AttributesAre
<1> HIDE DEF a
<1>2. ASSUME NEW k \in 1..Len(a) PROVE Len(Split(a[k], SEPARATOR)) > 1
  <2>1. \A x, y : Len(<<x, y>>) > 1
    OBVIOUS
  <2>2. k \in 1..6
    BY <1>1
  <2>3. Split(a[k], SEPARATOR) = << <<Fields[k]>>, Filled(m, Fields[k]) >>
    BY <1>1, <2>2
  <2> QED
    BY <2>1, <2>3, Zenon
<1> QED
  BY <1>1, <1>2 DEF InRange

\* A message is taken apart into what was put together, a field that was empty filled.
LEMMA ParseCreate ==
  ASSUME NEW m \in CleanMessages
  PROVE  /\ ParseStringMessage(CreateHTTPMessage(m)) \in CleanMessages
         /\ \A field \in ToSet(Fields) :
              ParseStringMessage(CreateHTTPMessage(m))[field] = Filled(m, field)
<1> DEFINE s == CreateHTTPMessage(m)
           a == Split(s, EOT)
           pairs == {<<k, Split(a[k], SEPARATOR)>> : k \in 1..Len(a)}
           named(field) == {p \in pairs : Len(p[2]) > 1 /\ p[2][1] = <<field>>}
           last(field) == CHOOSE p \in named(field) : \A other \in named(field) : other[1] <= p[1]
<1>1. a = Attributes(m) /\ Len(a) = 6
      /\ \A k \in 1..6 : Split(a[k], SEPARATOR) = << <<Fields[k]>>, Filled(m, Fields[k]) >>
  BY AttributesAre
<1>2. ParseStringMessage(s) =
        [field \in ToSet(Fields) |-> IF named(field) = {} THEN <<>> ELSE last(field)[2][2]]
  BY DEF ParseStringMessage
<1> HIDE DEF s, a
<1>3. pairs = {<<k, << <<Fields[k]>>, Filled(m, Fields[k]) >> >> : k \in 1..6}
  <2>1. \A k \in 1..6 :
          <<k, Split(a[k], SEPARATOR)>> = <<k, << <<Fields[k]>>, Filled(m, Fields[k]) >> >>
    BY <1>1, Zenon
  <2> QED
    BY <1>1, <2>1
<1> HIDE DEF pairs
<1>4. ASSUME NEW field \in ToSet(Fields)
      PROVE  ParseStringMessage(s)[field] = Filled(m, field)
  <2>1. PICK k \in 1..6 : field = Fields[k]
    BY FieldsAre
  <2> DEFINE q == <<k, << <<field>>, Filled(m, field) >> >>
  <2>2. q \in pairs /\ Len(q[2]) > 1 /\ q[2][1] = <<field>> /\ q[2][2] = Filled(m, field)
    BY <1>3, <2>1
  <2>3. ASSUME NEW p \in pairs, p[2][1] = <<field>> PROVE p = q
    <3>1. PICK j \in 1..6 : p = <<j, << <<Fields[j]>>, Filled(m, Fields[j]) >> >>
      BY <1>3
    <3>2. <<Fields[j]>> = <<field>>
      BY <2>3, <3>1
    <3>3. Fields[j] = field
      BY <3>2
    <3>4. j = k
      BY <2>1, <3>3, FieldsAre
    <3> QED
      BY <2>1, <3>1, <3>4
  <2>4. named(field) = {q}
    BY <2>2, <2>3
  <2>5. last(field) = q
    <3>1. q[1] <= q[1]
      <4>1. q[1] = k
        OBVIOUS
      <4> QED
        BY <4>1
    <3> HIDE DEF named, q
    <3> QED
      BY <2>4, <3>1
  <2>6. named(field) # {}
    BY <2>4
  <2> HIDE DEF named, last, q
  <2>7. ParseStringMessage(s)[field] = last(field)[2][2]
    BY <1>2, <2>6, Zenon
  <2> QED
    BY <2>2, <2>5, <2>7
<1>5. \A field \in ToSet(Fields) : Clean(Filled(m, field))
  BY FilledIs
<1>6. \A field \in ToSet(Fields) :
        ParseStringMessage(s)[field] \in Texts /\ Clean(ParseStringMessage(s)[field])
  BY <1>4, <1>5, Zenon DEF Clean
<1>7. \E f : ParseStringMessage(s) = [field \in ToSet(Fields) |-> f[field]]
  <2> DEFINE g == [field \in ToSet(Fields) |-> IF named(field) = {} THEN <<>> ELSE last(field)[2][2]]
  <2>1. g = [field \in ToSet(Fields) |-> g[field]]
    OBVIOUS
  <2>2. ParseStringMessage(s) = g
    BY <1>2
  <2> HIDE DEF g
  <2> QED
    BY <2>1, <2>2
<1>8. ParseStringMessage(s) \in CleanMessages
  <2> DEFINE g == ParseStringMessage(s)
  <2>1. PICK f : g = [field \in ToSet(Fields) |-> f[field]]
    BY <1>7
  <2>2. \A field \in ToSet(Fields) : g[field] \in Texts /\ Clean(g[field])
    BY <1>6
  <2> HIDE DEF g
  <2>3. g \in [ToSet(Fields) -> Texts]
    BY <2>1, <2>2
  <2>4. g \in CleanMessages
    BY <2>2, <2>3, Zenon DEF CleanMessages, Messages
  <2> QED
    BY <2>4 DEF g
<1> QED
  BY <1>4, <1>8 DEF s

------------------------------------------------------------------------------
(* Paths.                                                                    *)

\* find_last_of: where the character stands last, or 0.
LEMMA LastOfIs ==
  ASSUME NEW s \in Texts, NEW c
  PROVE  /\ LastOf(s, c) \in 0..Len(s)
         /\ LastOf(s, c) # 0 => s[LastOf(s, c)] = c
         /\ \A j \in 1..Len(s) : j > LastOf(s, c) => s[j] # c
<1> DEFINE T == {0} \cup {i \in 1..Len(s) : s[i] = c}
           N == {n \in Nat : n <= Len(s) => \E x \in 0..n : /\ x = 0 \/ s[x] = c
                                                           /\ \A j \in 1..n : j > x => s[j] # c}
<1>1. Len(s) \in Nat
  BY DEF Texts
<1>2. 0 \in N
  OBVIOUS
<1>3. ASSUME NEW n \in N PROVE n + 1 \in N
  <2>1. SUFFICES ASSUME n + 1 <= Len(s)
                 PROVE  \E x \in 0..(n + 1) : /\ x = 0 \/ s[x] = c
                                              /\ \A j \in 1..(n + 1) : j > x => s[j] # c
    OBVIOUS
  <2>2. n \in Nat /\ n <= Len(s) /\ \A j \in 1..(n + 1) : j \in 1..n \/ j = n + 1
    BY <1>1, <2>1
  <2>3. CASE s[n + 1] = c
    <3>1. n + 1 \in 0..(n + 1) /\ \A j \in 1..(n + 1) : ~ (j > n + 1)
      BY <2>2
    <3> QED
      BY <2>3, <3>1
  <2>4. CASE s[n + 1] # c
    <3>1. PICK x \in 0..n : (x = 0 \/ s[x] = c) /\ \A j \in 1..n : j > x => s[j] # c
      BY <2>2
    <3>2. x \in 0..(n + 1)
      BY <2>2
    <3> QED
      BY <2>2, <2>4, <3>1, <3>2
  <2> QED
    BY <2>3, <2>4
<1>4. N = Nat
  <2>1. N \in SUBSET Nat
    OBVIOUS
  <2> HIDE DEF N
  <2> QED
    BY <1>2, <1>3, <2>1, AllNumbers
<1>5. PICK x \in 0..Len(s) : (x = 0 \/ s[x] = c) /\ \A j \in 1..Len(s) : j > x => s[j] # c
  <2>1. Len(s) \in N /\ Len(s) <= Len(s)
    BY <1>1, <1>4
  <2> QED
    BY <2>1
<1>6. x \in T /\ \A y \in T : x >= y
  <2>1. x \in T
    BY <1>1, <1>5
  <2>2. ASSUME NEW y \in 1..Len(s), s[y] = c PROVE x >= y
    BY <1>1, <1>5, <2>2
  <2>3. x >= 0
    BY <1>1, <1>5
  <2> QED
    BY <2>1, <2>2, <2>3
<1>7. LastOf(s, c) = CHOOSE z \in T : \A y \in T : z >= y
  BY DEF LastOf, Max
<1>8. LastOf(s, c) \in T /\ \A y \in T : LastOf(s, c) >= y
  <2> HIDE DEF T
  <2> QED
    BY <1>6, <1>7, Zenon
<1>9. \A z \in T : z \in Int
  BY <1>1
<1>10. LastOf(s, c) = x
  <2> HIDE DEF T
  <2> DEFINE z == LastOf(s, c)
  <2>1. z \in Int /\ x \in Int /\ z >= x /\ x >= z
    BY <1>6, <1>8, <1>9
  <2> HIDE DEF z
  <2>2. z = x
    BY <2>1
  <2> QED
    BY <2>2 DEF z
<1> QED
  BY <1>5, <1>10

\* A character stands last where it does and none follows.
LEMMA LastIsAt ==
  ASSUME NEW s \in Texts, NEW c, NEW i \in 0..Len(s), i # 0 => s[i] = c,
         \A j \in 1..Len(s) : j > i => s[j] # c
  PROVE  LastOf(s, c) = i
<1> DEFINE z == LastOf(s, c)
<1>1. z \in 0..Len(s) /\ (z # 0 => s[z] = c) /\ \A j \in 1..Len(s) : j > z => s[j] # c
  BY LastOfIs
<1> HIDE DEF z
<1>2. Len(s) \in Nat
  BY DEF Texts
<1>3. ~ (z > i)
  <2>1. z > i => z \in 1..Len(s) /\ z # 0
    BY <1>1, <1>2
  <2> QED
    BY <1>1, <2>1
<1>4. ~ (i > z)
  <2>1. i > z => i \in 1..Len(s) /\ i # 0
    BY <1>1, <1>2
  <2> QED
    BY <1>1, <2>1
<1>5. z = i
  BY <1>1, <1>2, <1>3, <1>4
<1> QED
  BY <1>5 DEF z

\* A part of a text.
LEMMA SubText ==
  ASSUME NEW s \in Texts, NEW k \in 1..(Len(s) + 1), NEW n \in Int, n <= Len(s)
  PROVE  /\ SubSeq(s, k, n) \in Texts
         /\ Len(SubSeq(s, k, n)) = IF k <= n THEN n - k + 1 ELSE 0
         /\ \A i \in 1..Len(SubSeq(s, k, n)) : /\ SubSeq(s, k, n)[i] = s[k + i - 1]
                                               /\ k + i - 1 \in 1..Len(s)
         /\ \A x : Has(SubSeq(s, k, n), x) => Has(s, x)
<1>1. Len(s) \in Nat /\ k \in Int
  BY DEF Texts
<1>2. \A i \in k..n : s[i] \in Chars
  <2>1. \A i \in k..n : i \in 1..Len(s)
    BY <1>1
  <2> QED
    BY <2>1 DEF Texts
<1> DEFINE u == SubSeq(s, k, n)
<1>3. /\ u \in Seq(Chars)
      /\ Len(u) = IF k <= n THEN n - k + 1 ELSE 0
      /\ \A i \in 1..(n - k + 1) : u[i] = s[k + i - 1]
  BY <1>1, <1>2, SubSeqProperties
<1> HIDE DEF u
<1>4. \A i \in 1..Len(u) : i \in 1..(n - k + 1) /\ k + i - 1 \in 1..Len(s)
  BY <1>1, <1>3
<1>5. \A i \in 1..Len(u) : u[i] = s[k + i - 1] /\ k + i - 1 \in 1..Len(s)
  BY <1>3, <1>4
<1>6. \A x : Has(u, x) => Has(s, x)
  BY <1>5, Zenon DEF Has
<1>7. u \in Texts
  BY <1>3 DEF Texts
<1> QED
  BY <1>3, <1>5, <1>6, <1>7 DEF u

\* The name of a path is what follows the last separator, of whichever kind.
LEMMA GetNameIs ==
  ASSUME NEW p \in Texts
  PROVE  /\ NameStart(p) \in 0..Len(p)
         /\ NameStart(p) # 0 => p[NameStart(p)] \in {"/", "\\"}
         /\ GetName(p) \in Texts /\ Len(GetName(p)) = Len(p) - NameStart(p)
         /\ \A i \in 1..Len(GetName(p)) : GetName(p)[i] = p[NameStart(p) + i]
         /\ \A x : Has(GetName(p), x) => Has(p, x)
         /\ ~ Has(GetName(p), "/")
<1> DEFINE n == NameStart(p)
<1>1. /\ n \in 0..Len(p)
      /\ n # 0 => p[n] \in {"/", "\\"}
      /\ \A j \in 1..Len(p) : j > n => p[j] # "/"
  BY LastOfIs DEF NameStart
<1>2. Len(p) \in Nat
  BY DEF Texts
<1>3. GetName(p) = SubSeq(p, n + 1, Len(p))
  BY DEF GetName
<1> HIDE DEF n
<1>4. n + 1 \in 1..(Len(p) + 1) /\ Len(p) \in Int /\ Len(p) <= Len(p)
  BY <1>1, <1>2
<1> DEFINE g == SubSeq(p, n + 1, Len(p))
<1>5. /\ g \in Texts /\ Len(g) = IF n + 1 <= Len(p) THEN Len(p) - (n + 1) + 1 ELSE 0
      /\ \A i \in 1..Len(g) : g[i] = p[(n + 1) + i - 1] /\ (n + 1) + i - 1 \in 1..Len(p)
      /\ \A x : Has(g, x) => Has(p, x)
  BY <1>4, SubText
<1> HIDE DEF g
<1>6. Len(g) = Len(p) - n
  BY <1>1, <1>2, <1>5
<1>7. \A i \in 1..Len(g) : (n + 1) + i - 1 = n + i /\ n + i > n
  BY <1>1, <1>2, <1>6
<1>8. \A i \in 1..Len(g) : g[i] = p[n + i] /\ g[i] # "/"
  BY <1>1, <1>5, <1>7
<1>9. ~ Has(g, "/")
  BY <1>8, Zenon DEF Has
<1>10. GetName(p) = g
  BY <1>3 DEF g
<1> QED
  BY <1>1, <1>5, <1>6, <1>8, <1>9, <1>10 DEF n

\* A name without a "." means that the path has none that begins an extension.
LEMMA BareName ==
  ASSUME NEW p \in Texts, ~ HasExtension(GetName(p))
  PROVE  NoExtension(p)
<1> DEFINE n == NameStart(p)
           g == GetName(p)
<1>1. /\ n \in 0..Len(p) /\ (n # 0 => p[n] \in {"/", "\\"})
      /\ g \in Texts /\ Len(g) = Len(p) - n
      /\ \A i \in 1..Len(g) : g[i] = p[n + i]
  BY GetNameIs
<1>2. Len(p) \in Nat
  BY DEF Texts
<1>3. LastOf(g, ".") = 0
  BY DEF HasExtension
<1> HIDE DEF n, g
<1>4. \A j \in 1..Len(g) : j > 0 => g[j] # "."
  BY <1>1, <1>3, LastOfIs
<1>5. ASSUME NEW i \in 1..Len(p), p[i] = "."
      PROVE  \E j \in i..Len(p) : p[j] \in {"/", "\\"}
  <2>1. CASE i > n
    <3>1. i - n \in 1..Len(g) /\ i - n > 0 /\ n + (i - n) = i
      BY <1>1, <1>2, <2>1
    <3> QED
      BY <1>1, <1>4, <1>5, <3>1
  <2>2. CASE i <= n
    <3>1. n \in i..Len(p) /\ n # 0
      BY <1>1, <1>2, <2>2
    <3> QED
      BY <1>1, <3>1
  <2>3. i > n \/ i <= n
    BY <1>1, <1>2
  <2> QED
    BY <2>1, <2>2, <2>3
<1> QED
  BY <1>5, Zenon DEF NoExtension

\* Two texts, character by character.
LEMMA ConcatTexts ==
  ASSUME NEW s \in Texts, NEW t \in Texts
  PROVE  /\ s \o t \in Texts /\ Len(s) \in Nat /\ Len(t) \in Nat
         /\ Len(s \o t) = Len(s) + Len(t)
         /\ \A i \in 1..Len(s) : (s \o t)[i] = s[i]
         /\ \A i \in 1..Len(t) : (s \o t)[Len(s) + i] = t[i]
BY ConcatProperties DEF Texts

\* A path under the working directory, as the system writes it.
LEMMA FullIs ==
  ASSUME NEW p \in Texts
  PROVE  /\ GetFullFileSpec(p) \in Texts /\ Len(GetFullFileSpec(p)) = 2 + Len(p)
         /\ GetFullFileSpec(p)[1] = "C:" /\ GetFullFileSpec(p)[2] = "\\"
         /\ \A i \in 1..Len(p) :
              GetFullFileSpec(p)[2 + i] = IF p[i] = "/" THEN "\\" ELSE p[i]
<1> DEFINE d == <<"C:", "\\">>
           q == [i \in 1..Len(p) |-> IF p[i] = "/" THEN "\\" ELSE p[i]]
<1>1. "C:" \in Chars /\ "\\" \in Chars
  <2>1. "C:" \in Literals /\ "\\" \in Literals
    BY Zenon DEF Literals
  <2> QED
    BY <2>1, Zenon DEF Chars
<1>2. d \in Texts
  BY <1>1, ShortTexts
<1>3. Len(d) = 2 /\ d[1] = "C:" /\ d[2] = "\\"
  OBVIOUS
<1>4. Len(p) \in Nat /\ \A i \in 1..Len(p) : p[i] \in Chars
  BY DEF Texts
<1>5. q \in Texts /\ Len(q) = Len(p)
  <2>1. \A i \in 1..Len(p) : (IF p[i] = "/" THEN "\\" ELSE p[i]) \in Chars
    BY <1>1, <1>4, Zenon
  <2> QED
    BY <1>4, <2>1 DEF Texts
<1>6. \A i \in 1..Len(p) : q[i] = IF p[i] = "/" THEN "\\" ELSE p[i]
  OBVIOUS
<1>7. GetFullFileSpec(p) = d \o q
  BY DEF GetFullFileSpec
<1> HIDE DEF d, q
<1>8. /\ d \o q \in Texts /\ Len(d \o q) = Len(d) + Len(q)
      /\ \A i \in 1..Len(d) : (d \o q)[i] = d[i]
      /\ \A i \in 1..Len(q) : (d \o q)[Len(d) + i] = q[i]
  BY <1>2, <1>5, ConcatTexts
<1> DEFINE f == d \o q
<1>9. /\ f \in Texts /\ Len(f) = Len(d) + Len(q)
      /\ \A i \in 1..Len(d) : f[i] = d[i]
      /\ \A i \in 1..Len(q) : f[Len(d) + i] = q[i]
  BY <1>8
<1> HIDE DEF f
<1>10. /\ f \in Texts /\ Len(f) = 2 + Len(p)
       /\ f[1] = "C:" /\ f[2] = "\\"
  BY <1>3, <1>5, <1>9
<1>11. \A i \in 1..Len(p) : f[2 + i] = q[i]
  BY <1>3, <1>5, <1>9
<1>12. \A i \in 1..Len(p) : f[2 + i] = IF p[i] = "/" THEN "\\" ELSE p[i]
  BY <1>6, <1>11, Zenon
<1>13. GetFullFileSpec(p) = f
  BY <1>7 DEF f
<1> QED
  BY <1>10, <1>12, <1>13

\* What the full path holds that the path does not.
LEMMA FullHas ==
  ASSUME NEW p \in Texts, NEW x, Has(GetFullFileSpec(p), x)
  PROVE  x = "C:" \/ x = "\\" \/ Has(p, x)
<1> DEFINE f == GetFullFileSpec(p)
<1>1. /\ Len(f) = 2 + Len(p) /\ f[1] = "C:" /\ f[2] = "\\"
      /\ \A i \in 1..Len(p) : f[2 + i] = IF p[i] = "/" THEN "\\" ELSE p[i]
  BY FullIs
<1>2. PICK i \in 1..Len(f) : f[i] = x
  BY DEF Has
<1> HIDE DEF f
<1>3. Len(p) \in Nat
  BY DEF Texts
<1>4. CASE i <= 2
  <2>1. i = 1 \/ i = 2
    BY <1>1, <1>2, <1>3, <1>4
  <2> QED
    BY <1>1, <1>2, <2>1
<1>5. CASE ~ (i <= 2)
  <2>1. i - 2 \in 1..Len(p) /\ 2 + (i - 2) = i
    BY <1>1, <1>2, <1>3, <1>5
  <2>2. p[i - 2] = x => Has(p, x)
    BY <2>1, Zenon DEF Has
  <2> QED
    BY <1>1, <1>2, <2>1, <2>2
<1> QED
  BY <1>4, <1>5

\* Some of the characters.
LEMMA CharsAre ==
  /\ {"/", "\\", "C:", ".", "N", "A", "02", "31", "14", "05", "32", "15", "server", "client", "true"}
       \subseteq Chars
  /\ "/" # "\\" /\ "/" # "C:" /\ "\\" # "C:"
  /\ \A x \in {EOT, SEPARATOR} : x # "/" /\ x # "\\" /\ x # "C:"
<1>1. {"/", "\\", "C:", ".", "N", "A", "02", "31", "14", "05", "32", "15", "server", "client", "true"}
        \subseteq Literals
  BY Zenon DEF Literals
<1>2. /\ "/" # "\\" /\ "/" # "C:" /\ "\\" # "C:"
      /\ \A x \in {EOT, SEPARATOR} : x # "/" /\ x # "\\" /\ x # "C:"
  BY DEF EOT, SEPARATOR
<1> QED
  BY <1>1, <1>2, Zenon DEF Chars

\* The members of a text.
LEMMA MembersAre ==
  ASSUME NEW s \in Texts
  PROVE  /\ ToSet(s) = {s[i] : i \in 1..Len(s)}
         /\ \A x : x \in ToSet(s) <=> Has(s, x)
<1>1. DOMAIN s = 1..Len(s)
  BY DEF Texts
<1> QED
  BY <1>1, Zenon DEF ToSet, Has

\* The name of a file: no separator, no drive.
IsName(s) == Clean(s) /\ ~ Has(s, "/") /\ ~ Has(s, "\\") /\ ~ Has(s, "C:")

\* The name of a file that the user has is one.
LEMMA LocalName == \A p : IsLocal(p) => Clean(p) /\ IsName(GetName(p))
<1>1. SUFFICES ASSUME NEW p, IsLocal(p) PROVE Clean(p) /\ IsName(GetName(p))
  OBVIOUS
<1>2. Clean(p) /\ ToSet(GetName(p)) \cap {"\\", "C:"} = {}
  BY <1>1, CleanIs, Zenon DEF IsLocal
<1>3. p \in Texts /\ ~ Has(p, EOT) /\ ~ Has(p, SEPARATOR)
  BY <1>2 DEF Clean
<1> DEFINE g == GetName(p)
<1>4. g \in Texts /\ (\A x : Has(g, x) => Has(p, x)) /\ ~ Has(g, "/")
  BY <1>3, GetNameIs
<1> HIDE DEF g
<1>5. \A x : x \in ToSet(g) <=> Has(g, x)
  BY <1>4, MembersAre
<1>6. Clean(g)
  BY <1>3, <1>4 DEF Clean
<1>7. ~ Has(g, "\\") /\ ~ Has(g, "C:")
  BY <1>2, <1>5, Zenon DEF g
<1> QED
  BY <1>2, <1>4, <1>6, <1>7 DEF IsName, g

\* The paths of the server and of the client.
LEMMA RepoIs ==
  /\ Clean(RepoPath) /\ ~ Has(RepoPath, "C:")
  /\ Clean(DownloadPath)
<1>1. ASSUME NEW p \in {RepoPath, DownloadPath} PROVE Clean(p) /\ ~ Has(p, "C:")
  <2>1. IsClean(p) /\ "C:" \notin ToSet(p)
    BY PathsAssumption
  <2>2. Clean(p)
    BY <2>1, CleanIs
  <2>3. p \in Texts
    BY <2>2 DEF Clean
  <2> QED
    BY <2>1, <2>2, <2>3, MembersAre
<1> QED
  BY <1>1

\* A full path can be carried by a message if the path can.
LEMMA FullClean ==
  ASSUME NEW p, Clean(p)
  PROVE  Clean(GetFullFileSpec(p))
<1>1. p \in Texts /\ ~ Has(p, EOT) /\ ~ Has(p, SEPARATOR)
  BY DEF Clean
<1>2. GetFullFileSpec(p) \in Texts
  BY <1>1, FullIs
<1>3. ASSUME NEW x \in {EOT, SEPARATOR} PROVE ~ Has(GetFullFileSpec(p), x)
  <2>1. x # "C:" /\ x # "\\" /\ ~ Has(p, x)
    BY <1>1, <1>3, CharsAre
  <2> QED
    BY <1>1, <2>1, FullHas
<1> QED
  BY <1>2, <1>3 DEF Clean

\* Two that can be carried, one behind the other.
LEMMA CleanConcat ==
  ASSUME NEW s, NEW t, Clean(s), Clean(t)
  PROVE  Clean(s \o t)
<1>1. s \in Texts /\ t \in Texts
  BY DEF Clean
<1>2. s \o t \in Texts
  BY <1>1, ConcatTexts
<1>3. ~ Has(s \o t, EOT) /\ ~ Has(s \o t, SEPARATOR)
  BY <1>1, HasConcat DEF Clean
<1> QED
  BY <1>2, <1>3 DEF Clean

\* The package of a stored file is a part of its name.
LEMMA PackageIs ==
  ASSUME NEW n, IsName(n)
  PROVE  IsName(GetFileName(n)) /\ GetFileName(n) \in Texts
<1>1. n \in Texts /\ 1 \in 1..(Len(n) + 1)
  BY DEF IsName, Clean, Texts
<1>2. LastOf(n, ".") - 1 \in Int /\ LastOf(n, ".") - 1 <= Len(n)
  <2>1. LastOf(n, ".") \in 0..Len(n) /\ Len(n) \in Nat
    BY <1>1, LastOfIs DEF Texts
  <2> QED
    BY <2>1
<1> DEFINE b == SubSeq(n, 1, LastOf(n, ".") - 1)
<1>3. b \in Texts /\ \A x : Has(b, x) => Has(n, x)
  BY <1>1, <1>2, SubText
<1>4. GetFileName(n) = b
  BY DEF GetFileName
<1> HIDE DEF b
<1>5. IsName(b)
  BY <1>3, Zenon DEF IsName, Clean
<1> QED
  BY <1>3, <1>4, <1>5

\* A time is a character of its own.
LEMMA TimeIs ==
  ASSUME NEW t, IsTime(t)
  PROVE  /\ t \in Chars /\ t # EOT /\ t # SEPARATOR /\ t # "/" /\ t # "\\" /\ t # "C:"
         /\ <<"/", t, "/">> \in Texts /\ Len(<<"/", t, "/">>) = 3
         /\ <<"/", t, "/">>[1] = "/" /\ <<"/", t, "/">>[2] = t /\ <<"/", t, "/">>[3] = "/"
         /\ Clean(<<"/", t, "/">>) /\ ~ Has(<<"/", t, "/">>, "C:")
<1>1. t \in Chars /\ t # EOT /\ t # SEPARATOR /\ t # "/" /\ t # "\\" /\ t # "C:"
  BY Zenon DEF IsTime, Chars
<1>2. "/" \in Chars
  BY CharsAre
<1> DEFINE s == <<"/", t, "/">>
<1>3. Len(s) = 3 /\ s[1] = "/" /\ s[2] = t /\ s[3] = "/"
  OBVIOUS
<1>4. s \in Texts
  BY <1>1, <1>2 DEF Texts
<1>5. \A i \in 1..3 : i = 1 \/ i = 2 \/ i = 3
  OBVIOUS
<1> HIDE DEF s
<1>6. \A x : Has(s, x) => x = "/" \/ x = t
  BY <1>3, <1>5, Zenon DEF Has
<1>7. "/" # EOT /\ "/" # SEPARATOR /\ "/" # "C:"
  BY CharsAre
<1>8. Clean(s) /\ ~ Has(s, "C:")
  BY <1>1, <1>4, <1>6, <1>7, Zenon DEF Clean
<1> QED
  BY <1>1, <1>3, <1>4, <1>8 DEF s

\* What the server makes a full path of, and where the time begins in it.
RawPath(n, t) == RepoPath \o GetFileName(n) \o <<"/", t, "/">> \o n
Package(n) == Len(RepoPath) + Len(GetFileName(n))

\* Where the server stores a file, character by character.
LEMMA RawPathIs ==
  ASSUME NEW n, IsName(n), NEW t, IsTime(t)
  PROVE  /\ RawPath(n, t) \in Texts /\ Package(n) \in Nat
         /\ StoredPath(n, t) = GetFullFileSpec(RawPath(n, t))
         /\ Clean(RawPath(n, t)) /\ ~ Has(RawPath(n, t), "C:")
         /\ Len(RawPath(n, t)) = Package(n) + 3 + Len(n)
         /\ \A i \in 1..Len(GetFileName(n)) :
              RawPath(n, t)[Len(RepoPath) + i] = GetFileName(n)[i]
         /\ RawPath(n, t)[Package(n) + 1] = "/" /\ RawPath(n, t)[Package(n) + 2] = t
         /\ RawPath(n, t)[Package(n) + 3] = "/"
         /\ \A i \in 1..Len(n) : RawPath(n, t)[Package(n) + 3 + i] = n[i]
<1> DEFINE R == RepoPath
           b == GetFileName(n)
           d == <<"/", t, "/">>
           A == R \o b
           M == A \o d
           raw == M \o n
<1>1. Clean(R) /\ ~ Has(R, "C:") /\ R \in Texts
  BY RepoIs DEF Clean
<1>2. IsName(b) /\ b \in Texts /\ Clean(b) /\ ~ Has(b, "C:")
  BY PackageIs DEF IsName
<1>3. /\ d \in Texts /\ Clean(d) /\ ~ Has(d, "C:")
      /\ Len(d) = 3 /\ d[1] = "/" /\ d[2] = t /\ d[3] = "/"
  BY TimeIs
<1>4. n \in Texts /\ Clean(n) /\ ~ Has(n, "C:")
  BY DEF IsName, Clean
<1>5. StoredPath(n, t) = GetFullFileSpec(raw) /\ raw = RawPath(n, t)
  BY DEF StoredPath, RawPath
<1> HIDE DEF R, b, d
<1>6. /\ A \in Texts /\ Clean(A) /\ ~ Has(A, "C:") /\ Len(A) = Len(R) + Len(b)
      /\ Len(R) \in Nat /\ Len(b) \in Nat
      /\ \A i \in 1..Len(b) : A[Len(R) + i] = b[i]
  BY <1>1, <1>2, CleanConcat, HasConcat, ConcatTexts
<1> HIDE DEF A
<1>7. /\ M \in Texts /\ Clean(M) /\ ~ Has(M, "C:") /\ Len(M) = Len(A) + Len(d) /\ Len(A) \in Nat
      /\ \A i \in 1..Len(A) : M[i] = A[i]
      /\ \A i \in 1..Len(d) : M[Len(A) + i] = d[i]
  BY <1>3, <1>6, CleanConcat, HasConcat, ConcatTexts
<1> HIDE DEF M
<1>8. /\ raw \in Texts /\ Clean(raw) /\ ~ Has(raw, "C:") /\ Len(raw) = Len(M) + Len(n)
      /\ Len(M) \in Nat /\ Len(n) \in Nat
      /\ \A i \in 1..Len(M) : raw[i] = M[i]
      /\ \A i \in 1..Len(n) : raw[Len(M) + i] = n[i]
  BY <1>4, <1>7, CleanConcat, HasConcat, ConcatTexts
<1> HIDE DEF raw
<1> DEFINE a == Len(R) + Len(b)
<1>9. a \in Nat /\ Len(A) = a /\ Len(M) = a + 3 /\ Len(raw) = a + 3 + Len(n)
  BY <1>3, <1>6, <1>7, <1>8
<1>10. \A i \in 1..Len(n) : raw[a + 3 + i] = n[i]
  BY <1>8, <1>9
<1>11. raw[a + 1] = "/" /\ raw[a + 2] = t /\ raw[a + 3] = "/"
  <2>1. /\ 1 \in 1..Len(d) /\ 2 \in 1..Len(d) /\ 3 \in 1..Len(d)
        /\ a + 1 \in 1..Len(M) /\ a + 2 \in 1..Len(M) /\ a + 3 \in 1..Len(M)
    BY <1>3, <1>9
  <2> HIDE DEF a
  <2>2. M[a + 1] = "/" /\ M[a + 2] = t /\ M[a + 3] = "/"
    BY <1>3, <1>7, <1>9, <2>1
  <2> QED
    BY <1>8, <2>1, <2>2
<1>12. \A i \in 1..Len(b) : raw[Len(R) + i] = b[i]
  <2>1. \A i \in 1..Len(b) : Len(R) + i \in 1..Len(A) /\ Len(R) + i \in 1..Len(M)
    BY <1>6, <1>9
  <2> QED
    BY <1>6, <1>7, <1>8, <2>1
<1>13. /\ raw \in Texts /\ a \in Nat /\ a = Len(R) + Len(b)
       /\ StoredPath(n, t) = GetFullFileSpec(raw)
  BY <1>5, <1>8, <1>9
<1>14. raw = RawPath(n, t) /\ a = Package(n)
  BY <1>5 DEF Package, R, b, a
<1> HIDE DEF a
<1> QED
  BY <1>8, <1>9, <1>10, <1>11, <1>12, <1>13, <1>14, Zenon DEF R, b

\* A stored path can be carried by a message, begins with the drive, which stands
\* nowhere else, and its name is the file's name.
LEMMA StoredPathIs ==
  ASSUME NEW n, IsName(n), NEW t, IsTime(t)
  PROVE  /\ Clean(StoredPath(n, t)) /\ StoredPath(n, t) # <<>>
         /\ Has(StoredPath(n, t), "C:")
         /\ \A i \in 1..Len(StoredPath(n, t)) : StoredPath(n, t)[i] = "C:" => i = 1
         /\ GetName(StoredPath(n, t)) = n
<1> DEFINE f == StoredPath(n, t)
<1> DEFINE raw == RawPath(n, t)
           a == Package(n)
<1>1. /\ raw \in Texts /\ a \in Nat
      /\ f = GetFullFileSpec(raw)
      /\ Clean(raw) /\ ~ Has(raw, "C:")
      /\ Len(raw) = a + 3 + Len(n)
      /\ raw[a + 3] = "/"
      /\ \A i \in 1..Len(n) : raw[a + 3 + i] = n[i]
  BY RawPathIs
<1> HIDE DEF raw, a, f
<1>2. /\ f \in Texts /\ Len(f) = 2 + Len(raw) /\ f[1] = "C:" /\ f[2] = "\\"
      /\ \A i \in 1..Len(raw) : f[2 + i] = IF raw[i] = "/" THEN "\\" ELSE raw[i]
  BY <1>1, FullIs
<1>3. Clean(f)
  BY <1>1, FullClean
<1>4. Len(raw) \in Nat /\ Len(n) \in Nat /\ n \in Texts
  BY <1>1 DEF Texts, IsName, Clean
<1>5. f # <<>> /\ Has(f, "C:")
  <2>1. 1 \in 1..Len(f)
    BY <1>2, <1>4
  <2>2. Has(f, "C:")
    BY <1>2, <2>1, Zenon DEF Has
  <2> QED
    BY <2>2, HasNothing
<1>6. \A i \in 1..Len(f) : i = 1 \/ i = 2 \/ (i - 2 \in 1..Len(raw) /\ 2 + (i - 2) = i)
  BY <1>2, <1>4
<1>7. \A i \in 1..Len(raw) : raw[i] # "C:"
  BY <1>1 DEF Has
<1>8. \A i \in 1..Len(f) : f[i] = "C:" => i = 1
  <2>1. ASSUME NEW i \in 1..Len(raw) PROVE f[2 + i] # "C:"
    BY <1>2, <1>7, CharsAre
  <2>2. f[2] # "C:"
    BY <1>2, CharsAre
  <2>3. ASSUME NEW i \in 1..Len(f), f[i] = "C:", i # 1 PROVE FALSE
    <3>1. i # 2
      BY <2>2, <2>3
    <3>2. i - 2 \in 1..Len(raw) /\ 2 + (i - 2) = i
      BY <1>6, <2>3, <3>1
    <3> QED
      BY <2>1, <2>3, <3>2
  <2> QED
    BY <2>3
<1>9. \A i \in 1..Len(f) : f[i] # "/"
  <2>1. \A i \in 1..Len(raw) : f[2 + i] # "/"
    BY <1>2, CharsAre
  <2>2. f[1] # "/" /\ f[2] # "/"
    BY <1>2, CharsAre
  <2>3. ASSUME NEW i \in 1..Len(f), f[i] = "/" PROVE FALSE
    <3>1. i - 2 \in 1..Len(raw) /\ 2 + (i - 2) = i
      BY <1>6, <2>2, <2>3
    <3> QED
      BY <2>1, <2>3, <3>1
  <2> QED
    BY <2>3
<1>10. LastOf(f, "/") = 0
  <2>1. 0 \in 0..Len(f)
    BY <1>2, <1>4
  <2> QED
    BY <1>2, <1>9, <2>1, LastIsAt
<1> DEFINE k == 2 + (a + 3)
<1>11. /\ k \in 1..Len(f) /\ f[k] = "\\"
       /\ \A i \in 1..Len(n) : k + i \in 1..Len(f) /\ f[k + i] = n[i]
       /\ Len(f) = k + Len(n)
  <2>1. a + 3 \in 1..Len(raw) /\ k \in 1..Len(f) /\ Len(f) = k + Len(n)
    BY <1>1, <1>2, <1>4
  <2>2. f[k] = "\\"
    BY <1>1, <1>2, <2>1
  <2>3. ASSUME NEW i \in 1..Len(n) PROVE k + i \in 1..Len(f) /\ f[k + i] = n[i]
    <3>1. a + 3 + i \in 1..Len(raw) /\ k + i = 2 + (a + 3 + i) /\ k + i \in 1..Len(f)
      BY <1>1, <1>4, <2>1
    <3>2. n[i] # "/"
      BY <2>3, Zenon DEF IsName, Has
    <3>3. raw[a + 3 + i] = n[i]
      BY <1>1, <2>3
    <3>4. f[2 + (a + 3 + i)] = n[i]
      BY <1>2, <3>1, <3>2, <3>3
    <3> QED
      BY <3>1, <3>4
  <2> QED
    BY <2>1, <2>2, <2>3
<1> HIDE DEF k
<1>12. \A j \in 1..Len(f) : j > k => f[j] # "\\"
  <2>1. ASSUME NEW j \in 1..Len(f), j > k PROVE f[j] # "\\"
    <3>1. j - k \in 1..Len(n) /\ k + (j - k) = j
      BY <1>4, <1>11, <2>1
    <3>2. n[j - k] # "\\"
      BY <3>1, Zenon DEF IsName, Has
    <3> QED
      BY <1>11, <3>1, <3>2
  <2> QED
    BY <2>1
<1>13. NameStart(f) = k
  <2>1. k \in 0..Len(f)
    BY <1>11
  <2>2. LastOf(f, "\\") = k
    BY <1>2, <1>11, <1>12, <2>1, LastIsAt
  <2> QED
    BY <1>10, <2>2 DEF NameStart
<1>14. GetName(f) = n
  <2> DEFINE g == GetName(f)
  <2>1. g \in Texts /\ Len(g) = Len(f) - k /\ \A i \in 1..Len(g) : g[i] = f[k + i]
    BY <1>2, <1>13, GetNameIs
  <2> HIDE DEF g
  <2>2. Len(g) = Len(n)
    BY <1>4, <1>11, <2>1
  <2>3. \A i \in 1..Len(g) : g[i] = n[i]
    BY <1>11, <2>1, <2>2
  <2>4. g = n
    BY <1>4, <2>1, <2>2, <2>3, SeqEqual DEF Texts
  <2> QED
    BY <2>4 DEF g
<1> QED
  BY <1>3, <1>5, <1>8, <1>14 DEF f

\* Where the time stands in a stored path, and that the package before it has no "\".
LEMMA TimeInPath ==
  ASSUME NEW n, IsName(n), NEW t, IsTime(t)
  PROVE  /\ StoredPath(n, t) \in Texts /\ Package(n) \in Nat
         /\ Len(StoredPath(n, t)) \in Nat /\ Len(StoredPath(n, t)) >= 5 + Package(n)
         /\ StoredPath(n, t)[3 + Package(n)] = "\\" /\ StoredPath(n, t)[4 + Package(n)] = t
         /\ Package(n) = Len(RepoPath) + Len(GetFileName(n))
         /\ Len(RepoPath) \in Nat /\ Len(GetFileName(n)) \in Nat
         /\ \A i \in 1..Len(GetFileName(n)) : StoredPath(n, t)[2 + (Len(RepoPath) + i)] # "\\"
<1> DEFINE f == StoredPath(n, t)
           raw == RawPath(n, t)
           a == Package(n)
           b == GetFileName(n)
           r == Len(RepoPath)
<1>1. /\ raw \in Texts /\ a \in Nat
      /\ f = GetFullFileSpec(raw)
      /\ Len(raw) = a + 3 + Len(n)
      /\ \A i \in 1..Len(b) : raw[r + i] = b[i]
      /\ raw[a + 1] = "/" /\ raw[a + 2] = t
  BY RawPathIs
<1>2. /\ a = r + Len(b) /\ r \in Nat /\ Len(b) \in Nat /\ Len(n) \in Nat
  <2>1. RepoPath \in Texts /\ b \in Texts /\ n \in Texts
    BY RepoIs, PackageIs DEF Clean, IsName
  <2>2. \A s \in Texts : Len(s) \in Nat
    BY DEF Texts
  <2> QED
    BY <2>1, <2>2 DEF Package
<1>3. \A i \in 1..Len(b) : b[i] # "/" /\ b[i] # "\\"
  BY PackageIs, Zenon DEF IsName, Has
<1>4. t # "/"
  BY TimeIs
<1> HIDE DEF raw, a, b, r, f
<1>5. /\ f \in Texts /\ Len(f) = 2 + Len(raw)
      /\ \A i \in 1..Len(raw) : f[2 + i] = IF raw[i] = "/" THEN "\\" ELSE raw[i]
  BY <1>1, FullIs
<1>6. Len(f) \in Nat /\ Len(f) >= 5 + a
  BY <1>1, <1>2, <1>5
<1>7. f[3 + a] = "\\"
  <2>1. a + 1 \in 1..Len(raw) /\ 2 + (a + 1) = 3 + a
    BY <1>1, <1>2
  <2>2. f[2 + (a + 1)] = "\\"
    BY <1>1, <1>5, <2>1
  <2> QED
    BY <2>1, <2>2
<1>8. f[4 + a] = t
  <2>1. a + 2 \in 1..Len(raw) /\ 2 + (a + 2) = 4 + a
    BY <1>1, <1>2
  <2>2. f[2 + (a + 2)] = t
    BY <1>1, <1>4, <1>5, <2>1
  <2> QED
    BY <2>1, <2>2
<1>9. ASSUME NEW i \in 1..Len(b) PROVE f[2 + (r + i)] # "\\"
  <2>1. r + i \in 1..Len(raw)
    BY <1>1, <1>2
  <2>2. raw[r + i] = b[i] /\ b[i] # "/" /\ b[i] # "\\"
    BY <1>1, <1>3
  <2>3. f[2 + (r + i)] = IF raw[r + i] = "/" THEN "\\" ELSE raw[r + i]
    BY <1>5, <2>1
  <2> QED
    BY <2>2, <2>3
<1> QED
  BY <1>1, <1>2, <1>5, <1>6, <1>7, <1>8, <1>9 DEF f, a, b, r

\* e is the beginning of p.
Begins(e, p) == Len(e) <= Len(p) /\ \A i \in 1..Len(e) : e[i] = p[i]

\* A stored path begins no path that was stored at another time: up to the end of the
\* package they are of the same length.
LEMMA OtherTime ==
  ASSUME NEW n, IsName(n), NEW t, IsTime(t), NEW m, IsName(m), NEW u, IsTime(u),
         Begins(StoredPath(n, t), StoredPath(m, u))
  PROVE  t = u
<1> DEFINE f == StoredPath(n, t)
           g == StoredPath(m, u)
           r == Len(RepoPath)
           b == Len(GetFileName(n))
           c == Len(GetFileName(m))
<1>1. /\ Len(f) \in Nat /\ Len(f) >= 5 + Package(n) /\ Package(n) = r + b
      /\ f[3 + Package(n)] = "\\" /\ f[4 + Package(n)] = t
      /\ r \in Nat /\ b \in Nat
      /\ \A i \in 1..b : f[2 + (r + i)] # "\\"
  BY TimeInPath
<1>2. /\ Package(m) = r + c /\ g[3 + Package(m)] = "\\" /\ g[4 + Package(m)] = u
      /\ c \in Nat
      /\ \A i \in 1..c : g[2 + (r + i)] # "\\"
  BY TimeInPath
<1>3. \A i \in 1..Len(f) : f[i] = g[i]
  BY DEF Begins
<1> HIDE DEF f, g, r, b, c
<1>4. ~ (b < c)
  <2>1. SUFFICES ASSUME b < c PROVE FALSE
    OBVIOUS
  <2>2. b + 1 \in 1..c /\ 2 + (r + (b + 1)) = 3 + (r + b) /\ 3 + (r + b) \in 1..Len(f)
    BY <1>1, <1>2, <2>1
  <2>3. g[2 + (r + (b + 1))] # "\\"
    BY <1>2, <2>2
  <2>4. f[3 + (r + b)] = "\\"
    BY <1>1
  <2> QED
    BY <1>3, <2>2, <2>3, <2>4
<1>5. ~ (c < b)
  <2>1. SUFFICES ASSUME c < b PROVE FALSE
    OBVIOUS
  <2>2. c + 1 \in 1..b /\ 2 + (r + (c + 1)) = 3 + (r + c) /\ 3 + (r + c) \in 1..Len(f)
    BY <1>1, <1>2, <2>1
  <2>3. f[2 + (r + (c + 1))] # "\\"
    BY <1>1, <2>2
  <2>4. g[3 + (r + c)] = "\\"
    BY <1>2
  <2> QED
    BY <1>3, <2>2, <2>3, <2>4
<1>6. b = c
  BY <1>1, <1>2, <1>4, <1>5
<1>7. 4 + (r + b) \in 1..Len(f)
  BY <1>1
<1>8. f[4 + (r + b)] = t /\ g[4 + (r + b)] = u
  BY <1>1, <1>2, <1>6
<1> QED
  BY <1>3, <1>7, <1>8

\* An entry of a list of paths: if it begins with the drive, then as one of the paths.
Entry(e, P) == Has(e, "C:") => \E p \in P : Begins(e, p)
Entries(P) == {e \in Texts : Entry(e, P)}
Driven == {p \in Texts : \A i \in 1..Len(p) : p[i] = "C:" => i = 1}

\* The beginning of a path, one character shorter.
LEMMA BeginsShorter ==
  ASSUME NEW t \in Texts, NEW c \in Chars, NEW p \in Texts, Begins(Append(t, c), p)
  PROVE  Begins(t, p) /\ p[Len(t) + 1] = c /\ Len(t) + 1 \in 1..Len(p)
<1> DEFINE u == Append(t, c)
<1>1. /\ Len(t) \in Nat /\ Len(u) = Len(t) + 1 /\ Len(p) \in Nat
      /\ \A i \in 1..Len(t) : u[i] = t[i]
      /\ u[Len(t) + 1] = c
  BY AppendProperties DEF Texts
<1>2. Len(u) <= Len(p) /\ \A i \in 1..Len(u) : u[i] = p[i]
  BY DEF Begins
<1> HIDE DEF u
<1>3. Len(t) <= Len(p) /\ Len(t) + 1 \in 1..Len(u) /\ Len(t) + 1 \in 1..Len(p)
      /\ \A i \in 1..Len(t) : i \in 1..Len(u)
  BY <1>1, <1>2
<1> QED
  BY <1>1, <1>2, <1>3 DEF Begins

\* Pieces of what is read of a path behind a separator: the first is the beginning of
\* the path, the others are without its drive.
LEMMA PiecesOfPath ==
  ASSUME NEW sep \in Chars, NEW P \in SUBSET Driven, NEW p \in P, NEW u \in Texts,
         AllIn(Pieces(u, sep), Entries(P)), Last(Pieces(u, sep)) = <<>>
  PROVE  AllIn(Pieces(u \o p, sep), Entries(P))
<1> DEFINE G == Entries(P)
           a(t) == Pieces(u \o t, sep)
           S == {t \in Texts : Begins(t, p) =>
                   /\ AllIn(a(t), G)
                   /\ Last(a(t)) = t \/ (t # <<>> /\ ~ Has(Last(a(t)), "C:"))}
<1>0. /\ G \in SUBSET Texts /\ <<>> \in G /\ p \in Texts
      /\ \A i \in 1..Len(p) : p[i] = "C:" => i = 1
  BY HasNothing DEF Entries, Entry, Driven, Texts
<1>1. <<>> \in S
  <2>1. u \o <<>> = u /\ <<>> \in Texts
    BY ConcatEmptySeq DEF Texts
  <2> QED
    BY <2>1
<1>2. ASSUME NEW t \in S, NEW c \in Chars PROVE Append(t, c) \in S
  <2>0. t \in Texts
    OBVIOUS
  <2>1. /\ u \o t \in Texts /\ Append(t, c) \in Texts /\ u \o Append(t, c) = Append(u \o t, c)
    BY <2>0, AppendBehind
  <2>2. SUFFICES ASSUME Begins(Append(t, c), p)
                 PROVE  /\ AllIn(a(Append(t, c)), G)
                        /\ \/ Last(a(Append(t, c))) = Append(t, c)
                           \/ (Append(t, c) # <<>> /\ ~ Has(Last(a(Append(t, c))), "C:"))
    BY <2>1
  <2>3. Begins(t, p) /\ p[Len(t) + 1] = c /\ Len(t) + 1 \in 1..Len(p)
    BY <1>0, <2>0, <2>2, BeginsShorter
  <2>4. AllIn(a(t), G) /\ (Last(a(t)) = t \/ (t # <<>> /\ ~ Has(Last(a(t)), "C:")))
    BY <2>3
  <2> DEFINE b == a(t)
             l == Last(b)
  <2>5. b \in Lists1
    BY <2>1, PiecesType
  <2>6. a(Append(t, c)) = More(b, c, sep)
    BY <2>1, PiecesAre
  <2>7. Append(t, c) # <<>>
    BY <2>0, AppendProperties DEF Texts
  <2>8. AllIn(b, G) /\ (l = t \/ (t # <<>> /\ ~ Has(l, "C:")))
    BY <2>4
  <2> HIDE DEF a, b, G
  <2>9. l \in Texts /\ Front(b) \in Seq(Texts) /\ b \in Seq(Texts)
    BY <2>5, LastLine
  <2> HIDE DEF l
  <2>10. CASE c = sep
    <3>1. AllIn(More(b, c, sep), G)
      BY <1>0, <2>5, <2>8, <2>10, MoreIn
    <3>2. More(b, c, sep) = Append(b, <<>>)
      BY <2>10 DEF More
    <3>3. Last(Append(b, <<>>)) = <<>>
      BY <1>0, <2>9, AppendText
    <3> QED
      BY <2>6, <2>7, <3>1, <3>2, <3>3, HasNothing
  <2>11. CASE c # sep
    <3>1. More(b, c, sep) = Append(Front(b), Append(l, c))
      BY <2>11 DEF More, l
    <3>2. Append(l, c) \in Texts
      BY <2>9, AppendProperties DEF Texts
    <3>3. Last(Append(Front(b), Append(l, c))) = Append(l, c)
      BY <2>9, <3>2, AppendText
    <3>4. l = t \/ (t # <<>> /\ ~ Has(l, "C:"))
      BY <2>8
    <3>5. CASE l = t
      <4>1. Append(l, c) \in G
        BY <2>2, <3>2, <3>5 DEF G, Entries, Entry
      <4>2. AllIn(More(b, c, sep), G)
        BY <1>0, <2>5, <2>8, <2>11, <4>1, MoreIn DEF l
      <4> QED
        BY <2>6, <3>1, <3>3, <3>5, <4>2
    <3>6. CASE t # <<>> /\ ~ Has(l, "C:")
      <4>1. c # "C:"
        <5>1. Len(t) # 0 /\ Len(t) \in Nat
          BY <2>0, <3>6 DEF Texts
        <5>2. Len(t) + 1 # 1
          BY <5>1
        <5> QED
          BY <1>0, <2>3, <5>2
      <4>2. ~ Has(Append(l, c), "C:")
        BY <2>9, <3>6, <4>1, HasAppend
      <4>3. Append(l, c) \in G
        BY <3>2, <4>2 DEF G, Entries, Entry
      <4>4. AllIn(More(b, c, sep), G)
        BY <1>0, <2>5, <2>8, <2>11, <4>3, MoreIn DEF l
      <4> QED
        BY <2>6, <2>7, <3>1, <3>3, <4>2, <4>4
    <3> QED
      BY <3>4, <3>5, <3>6
  <2> QED
    BY <2>10, <2>11
<1>3. S = Texts
  <2>1. S \in SUBSET Texts
    OBVIOUS
  <2> HIDE DEF S
  <2> QED
    BY <1>1, <1>2, <2>1, AllTexts
<1>4. Begins(p, p)
  <2>1. Len(p) \in Nat
    BY <1>0 DEF Texts
  <2> QED
    BY <2>1 DEF Begins
<1>5. p \in S
  BY <1>0, <1>3
<1> QED
  BY <1>4, <1>5

\* A list of paths falls into entries of the paths, whatever separators they hold.
LEMMA SplitPaths ==
  ASSUME NEW P \in SUBSET Driven, NEW list \in Lists1, AllIn(list, P)
  PROVE  /\ Split(Join(list), FILES_SEP) \in Seq(Texts)
         /\ AllIn(Split(Join(list), FILES_SEP), Entries(P))
<1> DEFINE sep == FILES_SEP
           G == Entries(P)
           good(u) == AllIn(Pieces(u, sep), G) /\ Last(Pieces(u, sep)) = <<>>
           S == {a \in Seq(Texts) : AllIn(a, P) => good(Terminated(a, sep))}
<1>0. sep \in Chars /\ \A p \in P : p \in Texts
  BY SeparatorsAre DEF Driven
<1>1. G \in SUBSET Texts /\ <<>> \in G /\ <<>> \in Texts
  BY HasNothing DEF Entries, Entry, Texts
<1>2. <<>> \in S
  <2>1. Pieces(Terminated(<<>>, sep), sep) = << <<>> >>
    BY <1>0, TerminatedAre, PiecesAre
  <2>2. AllIn(<< <<>> >>, G)
    <3>1. \A k \in 1..Len(<< <<>> >>) : << <<>> >>[k] = <<>>
      OBVIOUS
    <3> QED
      BY <1>1, <3>1 DEF AllIn
  <2>3. Last(<< <<>> >>) = <<>>
    BY DEF Last
  <2>4. <<>> \in Seq(Texts)
    OBVIOUS
  <2> QED
    BY <2>1, <2>2, <2>3, <2>4
<1>3. ASSUME NEW a \in S, NEW t \in Texts PROVE Append(a, t) \in S
  <2>1. /\ a \in Seq(Texts) /\ Append(a, t) \in Seq(Texts) /\ Len(a) \in Nat
        /\ Len(Append(a, t)) = Len(a) + 1
        /\ \A i \in 1..Len(a) : Append(a, t)[i] = a[i]
        /\ Append(a, t)[Len(a) + 1] = t
    BY AppendText, AppendProperties
  <2>2. SUFFICES ASSUME AllIn(Append(a, t), P) PROVE good(Terminated(Append(a, t), sep))
    BY <2>1
  <2>3. AllIn(a, P) /\ t \in P
    <3>1. (\A k \in 1..Len(a) : k \in 1..(Len(a) + 1)) /\ Len(a) + 1 \in 1..(Len(a) + 1)
      BY <2>1
    <3> QED
      BY <2>1, <2>2, <3>1 DEF AllIn
  <2> DEFINE u == Terminated(a, sep)
  <2>4. u \in Texts /\ Terminated(Append(a, t), sep) = Append(u \o t, sep)
    BY <1>0, <2>1, TerminatedAre
  <2>5. AllIn(Pieces(u, sep), G) /\ Last(Pieces(u, sep)) = <<>>
    BY <2>3
  <2> HIDE DEF u
  <2>6. AllIn(Pieces(u \o t, sep), G)
    BY <1>0, <2>3, <2>4, <2>5, PiecesOfPath
  <2>7. u \o t \in Texts
    BY <2>4, ConcatTexts
  <2>8. Pieces(u \o t, sep) \in Lists1
    BY <2>7, PiecesType
  <2>9. Pieces(Append(u \o t, sep), sep) = More(Pieces(u \o t, sep), sep, sep)
    BY <1>0, <2>7, PiecesAre
  <2> HIDE DEF G, sep
  <2>10. AllIn(More(Pieces(u \o t, sep), sep, sep), G)
    BY <1>0, <1>1, <2>6, <2>8, MoreIn
  <2>11. Last(More(Pieces(u \o t, sep), sep, sep)) = <<>>
    <3>1. Pieces(u \o t, sep) \in Seq(Texts)
      BY <2>8 DEF Lists1
    <3>2. Last(Append(Pieces(u \o t, sep), <<>>)) = <<>>
      BY <1>1, <3>1, AppendText
    <3> QED
      BY <3>2 DEF More
  <2> QED
    BY <2>4, <2>9, <2>10, <2>11
<1>4. S = Seq(Texts)
  <2>1. S \in SUBSET Seq(Texts)
    OBVIOUS
  <2> HIDE DEF S
  <2> QED
    BY <1>2, <1>3, <2>1, AllLists
<1> DEFINE f == Front(list)
           l == Last(list)
<1>5. /\ f \in Seq(Texts) /\ l \in Texts /\ list = Append(f, l) /\ AllIn(f, P) /\ l \in P
  <2>1. /\ Len(list) \in Nat /\ Len(list) >= 1 /\ Len(list) \in 1..Len(list)
        /\ Last(list) = list[Len(list)]
        /\ Last(list) \in Texts /\ Front(list) \in Seq(Texts) /\ Len(Front(list)) = Len(list) - 1
        /\ \A i \in 1..(Len(list) - 1) : Front(list)[i] = list[i]
    BY LastLine
  <2>2. \A i \in 1..(Len(list) - 1) : i \in 1..Len(list)
    BY <2>1
  <2>3. AllIn(f, P) /\ l \in P
    BY <2>1, <2>2 DEF AllIn
  <2>4. list = Append(f, l)
    BY NewLast, <2>1
  <2> QED
    BY <2>1, <2>3, <2>4
<1> HIDE DEF f, l
<1> DEFINE u == Terminated(f, sep)
<1>6. u \in Texts /\ AllIn(Pieces(u, sep), G) /\ Last(Pieces(u, sep)) = <<>>
  BY <1>0, <1>4, <1>5, TerminatedAre
<1>7. Join(list) = u \o l
  BY <1>5, JoinIs
<1> HIDE DEF u
<1>8. AllIn(Pieces(u \o l, sep), G)
  BY <1>0, <1>5, <1>6, PiecesOfPath
<1>9. u \o l \in Texts
  BY <1>5, <1>6, ConcatTexts
<1>10. Split(u \o l, sep) \in Seq(Texts) /\ AllIn(Split(u \o l, sep), G)
  BY <1>8, <1>9, SplitIn
<1> QED
  BY <1>7, <1>10

\* One of the paths, or a piece of one that holds a separator.
Part(e, P) == \/ e \in P
              \/ \E p \in P : /\ Has(p, FILES_SEP)
                              /\ \E i \in 1..Len(p) + 1, j \in 0..Len(p) : e = SubSeq(p, i, j)
Parts(P) == {e \in Texts : Part(e, P)}

\* A longer beginning of a path ends with its next character.
LEMMA LongerPiece ==
  ASSUME NEW p \in Texts, NEW n \in 0..(Len(p) - 1), NEW i \in 1..(n + 1)
  PROVE  /\ SubSeq(p, i, n) \in Texts /\ p[n + 1] \in Chars
         /\ SubSeq(p, i, n + 1) = Append(SubSeq(p, i, n), p[n + 1])
<1>1. p \in Seq(Chars) /\ Len(p) \in Nat /\ n + 1 \in 1..Len(p) /\ n \in Int /\ n <= Len(p)
      /\ i \in 1..Len(p) /\ i \in 1..(Len(p) + 1) /\ n + 1 \in i..Len(p) /\ (n + 1) - 1 = n
  BY DEF Texts
<1>2. SubSeq(p, i, n + 1) = SubSeq(p, i, (n + 1) - 1) \o <<p[n + 1]>>
  BY <1>1, SubSeqRecursiveSecond
<1>3. SubSeq(p, i, n) \in Texts
  BY <1>1, SubText
<1>4. p[n + 1] \in Chars
  BY <1>1
<1>5. \A t \in Texts, c \in Chars : t \o <<c>> = Append(t, c)
  BY DEF Texts
<1> QED
  BY <1>1, <1>2, <1>3, <1>4, <1>5

\* What is read of a path behind a separator: all but the last are parts of it, and the
\* last one reaches to where it has been read.
LEMMA PartsOfPath ==
  ASSUME NEW P \in SUBSET Texts, NEW p \in P, NEW u \in Texts,
         AllIn(Front(Pieces(u, FILES_SEP)), Parts(P)), Last(Pieces(u, FILES_SEP)) = <<>>
  PROVE  AllIn(Pieces(u \o p, FILES_SEP), Parts(P))
<1> DEFINE sep == FILES_SEP
           G == Parts(P)
           a(t) == Pieces(u \o t, sep)
           Reaches(e, t) == \E i \in 1..(Len(t) + 1) : /\ e = SubSeq(p, i, Len(t))
                                                      /\ (i = 1 \/ Has(p, sep))
           S == {t \in Texts : Begins(t, p) => AllIn(Front(a(t)), G) /\ Reaches(Last(a(t)), t)}
<1>0. /\ p \in Texts /\ Len(p) \in Nat /\ sep \in Chars /\ G \in SUBSET Texts
      /\ \A n \in 0..Len(p) : SubSeq(p, n + 1, n) = <<>>
  <2>1. \A n \in 0..Len(p) : n + 1 \in Int /\ n \in Int /\ n < n + 1
    BY DEF Texts
  <2>2. \A n \in 0..Len(p) : SubSeq(p, n + 1, n) = <<>>
    BY <2>1, SubSeqEmpty
  <2> QED
    BY <2>2, SeparatorsAre DEF Texts, Parts
<1>1. <<>> \in S
  <2>1. u \o <<>> = u /\ <<>> \in Texts /\ Len(<<>>) = 0 /\ 0 \in 0..Len(p) /\ 0 + 1 = 1
    BY <1>0, ConcatEmptySeq DEF Texts
  <2>2. 1 \in 1..(0 + 1) /\ SubSeq(p, 1, 0) = <<>>
    BY <1>0, <2>1
  <2>3. Reaches(<<>>, <<>>)
    BY <2>1, <2>2
  <2> QED
    BY <2>1, <2>3
<1>2. ASSUME NEW t \in S, NEW c \in Chars PROVE Append(t, c) \in S
  <2>0. t \in Texts
    OBVIOUS
  <2> DEFINE v == Append(t, c)
             b == a(t)
             l == Last(b)
             n == Len(t)
  <2>1. u \o t \in Texts /\ v \in Texts /\ u \o v = Append(u \o t, c)
    BY <2>0, AppendBehind
  <2>2. SUFFICES ASSUME Begins(v, p) PROVE AllIn(Front(a(v)), G) /\ Reaches(Last(a(v)), v)
    BY <2>1
  <2>3. Begins(t, p) /\ p[n + 1] = c /\ n + 1 \in 1..Len(p)
    BY <1>0, <2>0, <2>2, BeginsShorter
  <2>4. AllIn(Front(b), G) /\ Reaches(l, t)
    BY <2>3
  <2>5. b \in Lists1
    BY <2>1, PiecesType
  <2>6. a(v) = More(b, c, sep)
    BY <2>1, PiecesAre
  <2>7. Len(v) = n + 1 /\ n \in Nat /\ n \in 0..(Len(p) - 1) /\ n + 1 \in 0..Len(p)
    BY <1>0, <2>0, <2>3, AppendProperties DEF Texts
  <2>8. PICK i \in 1..(n + 1) : l = SubSeq(p, i, n) /\ (i = 1 \/ Has(p, sep))
    BY <2>4
  <2> HIDE DEF a, b, v, G, n, sep
  <2>9. /\ l \in Texts /\ Front(b) \in Seq(Texts) /\ b \in Seq(Texts)
    BY <2>5, LastLine
  <2>10. l \in Texts /\ SubSeq(p, i, n + 1) = Append(l, c)
    BY <1>0, <2>3, <2>7, <2>8, LongerPiece
  <2>11. CASE c = sep
    <3>1. a(v) = Append(b, <<>>)
      BY <2>6, <2>11 DEF More
    <3>2. <<>> \in Texts
      BY DEF Texts
    <3>3. Last(a(v)) = <<>> /\ Front(a(v)) = b
      BY <2>9, <3>1, <3>2, AppendText
    <3>4. Has(p, sep)
      BY <2>3, <2>11 DEF Has
    <3>5. l \in G
      <4>1. i \in 1..Len(p) + 1 /\ n \in 0..Len(p)
        BY <1>0, <2>7
      <4> QED
        BY <2>8, <2>9, <3>4, <4>1 DEF G, Parts, Part, sep
    <3>6. AllIn(b, G)
      <4>1. /\ Len(b) \in Nat /\ Len(b) >= 1 /\ l = b[Len(b)] /\ Len(Front(b)) = Len(b) - 1
            /\ \A k \in 1..(Len(b) - 1) : Front(b)[k] = b[k]
        BY <2>5, LastLine DEF l
      <4>2. \A k \in 1..Len(b) : k \in 1..(Len(b) - 1) \/ k = Len(b)
        BY <4>1
      <4>3. \A k \in 1..(Len(b) - 1) : b[k] \in G
        BY <2>4, <4>1 DEF AllIn
      <4> QED
        BY <3>5, <4>1, <4>2, <4>3 DEF AllIn
    <3>7. Reaches(<<>>, v)
      <4>1. (n + 1) + 1 \in 1..((n + 1) + 1) /\ SubSeq(p, (n + 1) + 1, n + 1) = <<>>
        BY <1>0, <2>7
      <4> QED
        BY <2>7, <3>4, <4>1
    <3> QED
      BY <3>3, <3>6, <3>7
  <2>12. CASE c # sep
    <3>1. a(v) = Append(Front(b), Append(l, c))
      BY <2>6, <2>12 DEF More, l
    <3>2. Append(l, c) \in Texts
      BY <2>9, AppendProperties DEF Texts
    <3>3. Last(a(v)) = Append(l, c) /\ Front(a(v)) = Front(b)
      BY <2>9, <3>1, <3>2, AppendText
    <3>4. Reaches(Append(l, c), v)
      <4>1. i \in 1..((n + 1) + 1)
        BY <2>7
      <4> QED
        BY <2>7, <2>8, <2>10, <4>1
    <3> QED
      BY <2>4, <3>3, <3>4
  <2> QED
    BY <2>11, <2>12
<1>3. S = Texts
  <2>1. S \in SUBSET Texts
    OBVIOUS
  <2> HIDE DEF S
  <2> QED
    BY <1>1, <1>2, <2>1, AllTexts
<1>4. Begins(p, p)
  BY <1>0 DEF Begins
<1>5. AllIn(Front(a(p)), G) /\ Reaches(Last(a(p)), p)
  <2>1. p \in S
    BY <1>0, <1>3
  <2> QED
    BY <1>4, <2>1
<1>6. a(p) \in Lists1
  <2>1. u \o p \in Texts
    BY <1>0, ConcatTexts
  <2> QED
    BY <2>1, PiecesType
<1>7. Last(a(p)) \in G
  <2>1. PICK i \in 1..(Len(p) + 1) : Last(a(p)) = SubSeq(p, i, Len(p)) /\ (i = 1 \/ Has(p, sep))
    BY <1>5
  <2> HIDE DEF a
  <2>2. Last(a(p)) \in Texts
    BY <1>6, LastLine
  <2>3. i = 1 => Last(a(p)) = p
    <3>1. SubSeq(p, 1, Len(p)) = p
      BY <1>0, SubSeqFull DEF Texts
    <3> QED
      BY <2>1, <3>1
  <2>4. i \in 1..Len(p) + 1 /\ Len(p) \in 0..Len(p)
    BY <1>0
  <2> QED
    BY <2>1, <2>2, <2>3, <2>4 DEF Parts, Part
<1> DEFINE b == a(p)
<1> HIDE DEF a, b, G
<1>8. /\ Len(b) \in Nat /\ Len(b) >= 1 /\ Last(b) = b[Len(b)] /\ Len(Front(b)) = Len(b) - 1
      /\ \A k \in 1..(Len(b) - 1) : Front(b)[k] = b[k]
  BY <1>6, LastLine DEF b
<1>9. \A k \in 1..Len(b) : k \in 1..(Len(b) - 1) \/ k = Len(b)
  BY <1>8
<1>10. \A k \in 1..(Len(b) - 1) : b[k] \in G
  BY <1>5, <1>8 DEF AllIn, b
<1>11. b[Len(b)] \in G
  BY <1>7, <1>8 DEF b
<1>12. AllIn(b, G)
  BY <1>9, <1>10, <1>11 DEF AllIn
<1> QED
  BY <1>12 DEF a, b, G

\* A list of paths falls into paths, and pieces of those that hold a separator.
LEMMA SplitParts ==
  ASSUME NEW P \in SUBSET Texts, NEW list \in Lists1, AllIn(list, P)
  PROVE  AllIn(Split(Join(list), FILES_SEP), Parts(P))
<1> DEFINE sep == FILES_SEP
           G == Parts(P)
           good(u) == AllIn(Front(Pieces(u, sep)), G) /\ Last(Pieces(u, sep)) = <<>>
           S == {a \in Seq(Texts) : AllIn(a, P) => good(Terminated(a, sep))}
<1>0. sep \in Chars /\ (\A p \in P : p \in Texts) /\ <<>> \in Texts
  BY SeparatorsAre DEF Texts
<1>1. <<>> \in S
  <2>1. Pieces(Terminated(<<>>, sep), sep) = << <<>> >>
    BY <1>0, TerminatedAre, PiecesAre
  <2>2. <<>> \in Seq(Texts) /\ Append(<<>>, <<>>) = << <<>> >>
    OBVIOUS
  <2>3. Front(<< <<>> >>) = <<>> /\ Last(<< <<>> >>) = <<>>
    BY <1>0, <2>2, AppendText
  <2>4. AllIn(<<>>, G)
    BY DEF AllIn
  <2> QED
    BY <2>1, <2>2, <2>3, <2>4
<1>2. ASSUME NEW a \in S, NEW t \in Texts PROVE Append(a, t) \in S
  <2>1. /\ a \in Seq(Texts) /\ Append(a, t) \in Seq(Texts) /\ Len(a) \in Nat
        /\ Len(Append(a, t)) = Len(a) + 1
        /\ \A i \in 1..Len(a) : Append(a, t)[i] = a[i]
        /\ Append(a, t)[Len(a) + 1] = t
    BY AppendText, AppendProperties
  <2>2. SUFFICES ASSUME AllIn(Append(a, t), P) PROVE good(Terminated(Append(a, t), sep))
    BY <2>1
  <2>3. AllIn(a, P) /\ t \in P
    <3>1. (\A k \in 1..Len(a) : k \in 1..(Len(a) + 1)) /\ Len(a) + 1 \in 1..(Len(a) + 1)
      BY <2>1
    <3> QED
      BY <2>1, <2>2, <3>1 DEF AllIn
  <2> DEFINE u == Terminated(a, sep)
  <2>4. u \in Texts /\ Terminated(Append(a, t), sep) = Append(u \o t, sep)
    BY <1>0, <2>1, TerminatedAre
  <2>5. AllIn(Front(Pieces(u, sep)), G) /\ Last(Pieces(u, sep)) = <<>>
    BY <2>3
  <2> HIDE DEF u
  <2> DEFINE b == Pieces(u \o t, sep)
  <2>6. AllIn(b, G)
    BY <2>3, <2>4, <2>5, PartsOfPath
  <2>7. u \o t \in Texts
    BY <2>4, ConcatTexts
  <2>8. b \in Seq(Texts)
    BY <2>7, PiecesType DEF Lists1
  <2>9. Pieces(Append(u \o t, sep), sep) = More(b, sep, sep)
    BY <1>0, <2>7, PiecesAre
  <2> HIDE DEF G, sep, b
  <2>10. More(b, sep, sep) = Append(b, <<>>)
    BY DEF More
  <2>11. Last(Append(b, <<>>)) = <<>> /\ Front(Append(b, <<>>)) = b
    BY <1>0, <2>8, AppendText
  <2> QED
    BY <2>4, <2>6, <2>9, <2>10, <2>11
<1>3. S = Seq(Texts)
  <2>1. S \in SUBSET Seq(Texts)
    OBVIOUS
  <2> HIDE DEF S
  <2> QED
    BY <1>1, <1>2, <2>1, AllLists
<1> DEFINE f == Front(list)
           l == Last(list)
<1>4. /\ f \in Seq(Texts) /\ l \in Texts /\ list = Append(f, l) /\ AllIn(f, P) /\ l \in P
  <2>1. /\ Len(list) \in Nat /\ Len(list) >= 1 /\ Len(list) \in 1..Len(list)
        /\ Last(list) = list[Len(list)]
        /\ Last(list) \in Texts /\ Front(list) \in Seq(Texts) /\ Len(Front(list)) = Len(list) - 1
        /\ \A i \in 1..(Len(list) - 1) : Front(list)[i] = list[i]
    BY LastLine
  <2>2. \A i \in 1..(Len(list) - 1) : i \in 1..Len(list)
    BY <2>1
  <2>3. AllIn(f, P) /\ l \in P
    BY <2>1, <2>2 DEF AllIn
  <2>4. list = Append(f, l)
    BY NewLast, <2>1
  <2> QED
    BY <2>1, <2>3, <2>4
<1> HIDE DEF f, l
<1> DEFINE u == Terminated(f, sep)
<1>5. u \in Texts /\ good(u)
  BY <1>0, <1>3, <1>4, TerminatedAre
<1>6. Join(list) = u \o l
  BY <1>4, JoinIs
<1> HIDE DEF u
<1>7. AllIn(Pieces(u \o l, sep), G)
  BY <1>4, <1>5, PartsOfPath
<1>8. u \o l \in Texts
  BY <1>4, <1>5, ConcatTexts
<1>9. AllIn(Split(u \o l, sep), G)
  BY <1>7, <1>8, SplitIn
<1> QED
  BY <1>6, <1>9

\* A list of texts that a message can carry is one itself, and not empty if the last is not.
LEMMA JoinClean ==
  ASSUME NEW list \in Lists1, \A k \in 1..Len(list) : Clean(list[k])
  PROVE  /\ Clean(Join(list))
         /\ list[Len(list)] # <<>> => Join(list) # <<>>
         /\ \A x : Has(list[Len(list)], x) => Has(Join(list), x)
<1> DEFINE sep == FILES_SEP
           S == {a \in Seq(Texts) : (\A k \in 1..Len(a) : Clean(a[k])) => Clean(Terminated(a, sep))}
<1>0. sep \in Chars /\ sep # EOT /\ sep # SEPARATOR
  BY SeparatorsAre
<1>1. Clean(<<>>) /\ <<>> \in Seq(Texts)
  BY HasNothing DEF Clean, Texts
<1>2. <<>> \in S
  BY <1>0, <1>1, TerminatedAre
<1>3. ASSUME NEW a \in S, NEW t \in Texts PROVE Append(a, t) \in S
  <2>1. /\ a \in Seq(Texts) /\ Append(a, t) \in Seq(Texts) /\ Len(a) \in Nat
        /\ Len(Append(a, t)) = Len(a) + 1
        /\ \A i \in 1..Len(a) : Append(a, t)[i] = a[i]
        /\ Append(a, t)[Len(a) + 1] = t
    BY AppendText, AppendProperties
  <2>2. SUFFICES ASSUME \A k \in 1..Len(Append(a, t)) : Clean(Append(a, t)[k])
                 PROVE  Clean(Terminated(Append(a, t), sep))
    BY <2>1
  <2>3. (\A k \in 1..Len(a) : Clean(a[k])) /\ Clean(t)
    <3>1. (\A k \in 1..Len(a) : k \in 1..(Len(a) + 1)) /\ Len(a) + 1 \in 1..(Len(a) + 1)
      BY <2>1
    <3> QED
      BY <2>1, <2>2, <3>1
  <2>4. /\ Clean(Terminated(a, sep))
        /\ Terminated(Append(a, t), sep) = Append(Terminated(a, sep) \o t, sep)
    BY <1>0, <2>1, <2>3, TerminatedAre
  <2> DEFINE u == Terminated(a, sep) \o t
  <2>5. Clean(u)
    BY <2>3, <2>4, CleanConcat
  <2> HIDE DEF u, sep
  <2>6. Clean(Append(u, sep))
    <3>1. u \in Texts
      BY <2>5 DEF Clean
    <3>2. Append(u, sep) \in Texts
      BY <1>0, <3>1, AppendProperties DEF Texts
    <3>3. ~ Has(Append(u, sep), EOT) /\ ~ Has(Append(u, sep), SEPARATOR)
      BY <1>0, <2>5, <3>1, HasAppend DEF Clean
    <3> QED
      BY <3>2, <3>3 DEF Clean
  <2> QED
    BY <2>4, <2>6 DEF u
<1>4. S = Seq(Texts)
  <2>1. S \in SUBSET Seq(Texts)
    OBVIOUS
  <2> HIDE DEF S
  <2> QED
    BY <1>2, <1>3, <2>1, AllLists
<1> DEFINE f == Front(list)
           l == Last(list)
<1>5. /\ f \in Seq(Texts) /\ l \in Texts /\ list = Append(f, l) /\ l = list[Len(list)]
      /\ (\A k \in 1..Len(f) : Clean(f[k])) /\ Clean(l)
  <2>1. /\ Len(list) \in Nat /\ Len(list) >= 1 /\ Len(list) \in 1..Len(list)
        /\ Last(list) = list[Len(list)]
        /\ Last(list) \in Texts /\ Front(list) \in Seq(Texts) /\ Len(Front(list)) = Len(list) - 1
        /\ \A i \in 1..(Len(list) - 1) : Front(list)[i] = list[i]
    BY LastLine
  <2>2. \A i \in 1..(Len(list) - 1) : i \in 1..Len(list)
    BY <2>1
  <2>3. (\A k \in 1..Len(f) : Clean(f[k])) /\ Clean(l)
    BY <2>1, <2>2
  <2>4. list = Append(f, l)
    BY NewLast, <2>1
  <2> QED
    BY <2>1, <2>3, <2>4
<1> HIDE DEF f, l
<1> DEFINE u == Terminated(f, sep)
<1>6. Clean(u) /\ u \in Texts
  BY <1>4, <1>5 DEF Clean
<1>7. Join(list) = u \o l
  BY <1>5, JoinIs
<1> HIDE DEF u
<1>8. Clean(u \o l)
  BY <1>5, <1>6, CleanConcat
<1>9. l # <<>> => u \o l # <<>>
  BY <1>5, <1>6, ConcatEqualIffEmpty DEF Texts
<1>10. \A x : Has(l, x) => Has(u \o l, x)
  BY <1>5, <1>6, HasConcat
<1> QED
  BY <1>5, <1>7, <1>8, <1>9, <1>10

\* The enumeration of a finite set has each of its members once.
LEMMA EnumerationIs ==
  ASSUME NEW S, IsFiniteSet(S), S # {}, S \subseteq Texts
  PROVE  /\ SetToSeq(S) \in Lists1
         /\ AllIn(SetToSeq(S), S)
         /\ IsInjective(SetToSeq(S))
<1> DEFINE n == Cardinality(S)
<1>1. n \in Nat /\ ExistsBijection(1..n, S)
  BY FS_CardinalityType
<1>2. n # 0
  BY FS_EmptySet
<1>3. \E g \in [1..n -> S] : IsInjective(g)
  BY <1>1 DEF ExistsBijection, Bijection, Injection
<1>4. SetToSeq(S) \in [1..n -> S] /\ IsInjective(SetToSeq(S))
  BY <1>3 DEF SetToSeq
<1> DEFINE list == SetToSeq(S)
<1> HIDE DEF n, list
<1>5. list \in [1..n -> S] /\ IsInjective(list)
  BY <1>4 DEF list
<1>6. list \in Seq(S) /\ Len(list) = n
  BY <1>1, <1>5
<1>7. list \in Seq(Texts)
  BY <1>6, SeqMonotonic
<1>8. list \in Lists1
  BY <1>1, <1>2, <1>6, <1>7 DEF Lists1
<1>9. AllIn(list, S)
  BY <1>5, <1>6 DEF AllIn
<1> QED
  BY <1>5, <1>8, <1>9 DEF list

------------------------------------------------------------------------------
(* The invariant.                                                            *)

\* What can stand in a list of paths of P: clean, one of them or a piece of one that holds
\* a separator, and the beginning of a path if it has a drive.
PieceOf(e, P) == Clean(e) /\ Entry(e, P) /\ Part(e, P)

\* The server's files are where it puts them.
Files ==
  /\ IsFiniteSet(stored)
  /\ \A f \in stored : /\ IsName(GetName(f.local)) /\ IsTime(f.time)
                       /\ f.path = StoredPath(GetName(f.local), f.time)
                       /\ f \in UNION Before \/ f.n \in 1..Len(posted)

\* What the window shows, and what is selected of it.
Shown ==
  /\ Clean(uploadFile)
  /\ listed \in Seq(Texts) /\ \A k \in 1..Len(listed) : PieceOf(listed[k], Paths)
  /\ NoSeparatorInNames => AllIn(listed, Paths) /\ IsInjective(listed)
  /\ selected \in Seq(1..Len(listed)) /\ selectedE \in Seq(1..Len(listed))

\* The body of an upload: the names chosen one behind the other, or what is left of "NA".
Body(b, c) == \/ c = {} /\ b = Front(NA)
              \/ \E list \in Lists1 : b = Join(list) /\ ToSet(list) = c

\* What a message asks for stood on the screen when it was posted.
Asked(m, c) ==
  /\ m \in CleanMessages
  /\ m["command"] \in {<<"uploadRequest">>, <<"reqgetallfiles">>, <<"downloadRequest">>}
  /\ \A e \in c : PieceOf(e, Paths)
  /\ NoSeparatorInNames => c \subseteq Paths
  /\ m["command"] = <<"uploadRequest">> => Body(m["body"], c)
  /\ m["command"] = <<"downloadRequest">> => m["fileName"] \in c

Posted == /\ posted \in Seq([msg : Messages, chosen : SUBSET Texts])
          /\ \A k \in 1..Len(posted) : Asked(posted[k].msg, posted[k].chosen)

\* Requests on their way are the ones that were posted.
Requests ==
  /\ sndrQueue \in Seq([n : Nat, msg : Messages])
  /\ \A k \in 1..Len(sndrQueue) : /\ sndrQueue[k].n \in 1..Len(posted)
                                  /\ sndrQueue[k].msg = posted[sndrQueue[k].n].msg
  /\ \A r \in net :
       /\ r.n \in 1..Len(posted) /\ r.text = Sent(posted[r.n].msg)
       /\ posted[r.n].msg["command"] = <<"uploadRequest">> => Offers(posted[r.n].msg)

\* An answer that lists files lists stored ones, each once.
Lists(m) == \/ m["body"] = NA
            \/ \E list \in Lists1 : /\ m["body"] = Join(list)
                                    /\ AllIn(list, Paths) /\ IsInjective(list)
ListAnswer(a) == ParseStringMessage(a.text)["command"] = <<"32">> => Lists(ParseStringMessage(a.text))

Replies == [n : Nat, dep : BOOLEAN, text : Texts]

Answers ==
  /\ replies \subseteq Replies /\ \A a \in replies : ListAnswer(a)
  /\ rcvrQueue \in Seq(Replies) /\ \A k \in 1..Len(rcvrQueue) : ListAnswer(rcvrQueue[k])
  /\ pending \in Replies /\ (pending # Nothing => ListAnswer(pending))
  /\ shown \in Seq(Replies)

\* An answer to request n that is none of its dependencies.
Own(a, n) == a.n = n /\ ~a.dep

\* Request n is in a queue, on a connection, answered or shown.
OnWay(n) == \/ \E k \in 1..Len(sndrQueue) : sndrQueue[k].n = n
            \/ \E r \in net : r.n = n
            \/ \E a \in replies : Own(a, n)
            \/ \E k \in 1..Len(rcvrQueue) : Own(rcvrQueue[k], n)
            \/ Own(pending, n)
            \/ \E k \in 1..Len(shown) : Own(shown[k], n)

NoneLost == up => \A n \in 1..Len(posted) \ failed : FileIsThere(posted[n].msg) => OnWay(n)

\* What ended the server.
Bare == ~up => \E i \in 1..Len(posted) :
                 /\ posted[i].msg["command"] = <<"uploadRequest">>
                 /\ NoExtension(posted[i].msg["fileName"]) \/ i \in failed

\* What is on a connection can be taken apart.
Readable == \A t \in net \cup replies : InRange(t.text)

IInv == /\ Files /\ Shown /\ Posted /\ Requests /\ Answers /\ NoneLost
        /\ Bare /\ Readable /\ DependenciesAsChosen

------------------------------------------------------------------------------
(* What arrives.                                                             *)

\* A message with another value of a field.
With(m, field, value) == [m EXCEPT ![field] = value]

\* Only that field is another.
LEMMA WithIs ==
  ASSUME NEW m \in CleanMessages, NEW field \in ToSet(Fields), NEW value, Clean(value)
  PROVE  /\ With(m, field, value) \in CleanMessages
         /\ With(m, field, value)[field] = value
         /\ \A other \in ToSet(Fields) : other # field => With(m, field, value)[other] = m[other]
<1>1. m \in [ToSet(Fields) -> Texts] /\ \A f \in ToSet(Fields) : Clean(m[f])
  BY DEF CleanMessages, Messages
<1>2. value \in Texts
  BY DEF Clean
<1> DEFINE D == ToSet(Fields)
           w == With(m, field, value)
<1> HIDE DEF D
<1>3. /\ w \in [D -> Texts] /\ w[field] = value
      /\ \A other \in D : other # field => w[other] = m[other]
  BY <1>1, <1>2 DEF With, D
<1> HIDE DEF w
<1>4. \A f \in D : Clean(w[f])
  BY <1>1, <1>3 DEF D
<1>5. w \in CleanMessages
  BY <1>3, <1>4, Zenon DEF CleanMessages, Messages, D
<1> QED
  BY <1>3, <1>5 DEF w, D

\* The fields are these, and each is another.
LEMMA FieldNames ==
  /\ "command" \in ToSet(Fields) /\ "to_Addr" \in ToSet(Fields) /\ "from_Addr" \in ToSet(Fields)
  /\ "fileName" \in ToSet(Fields) /\ "body" \in ToSet(Fields)
  /\ "command" # "from_Addr" /\ "command" # "to_Addr" /\ "command" # "fileName" /\ "command" # "body"
  /\ "fileName" # "from_Addr" /\ "fileName" # "to_Addr" /\ "fileName" # "body"
  /\ "body" # "from_Addr" /\ "body" # "to_Addr" /\ "to_Addr" # "from_Addr"
<1>1. ToSet(Fields) = {"command", "to_Addr", "from_Addr", "fileName", "body", "open"}
  BY FieldsAre
<1> QED
  BY <1>1

\* A command, or an address, is a string that a message can carry.
LEMMA WordIs ==
  ASSUME NEW w \in {"02", "31", "14", "05", "32", "15", "server", "client", "true"}
  PROVE  Clean(<<w>>) /\ <<w>> # <<>>
<1>1. w \in Chars
  BY CharsAre
<1>2. w # EOT /\ w # SEPARATOR
  BY DEF EOT, SEPARATOR
<1>3. <<w>> \in Texts /\ \A x : Has(<<w>>, x) => x = w
  BY <1>1, ShortTexts
<1>4. <<w>> # <<>>
  OBVIOUS
<1> QED
  BY <1>2, <1>3, <1>4 DEF Clean

\* What arrives of a request at the server: its command as a number, its file and body.
Arrived(m) == ParseStringMessage(Sent(m))

\* Each request arrives as what was asked for.
LEMMA SentIs ==
  ASSUME NEW m, NEW c, Asked(m, c)
  PROVE  /\ Sent(m) \in Texts /\ InRange(Sent(m)) /\ Arrived(m) \in CleanMessages
         /\ m["command"] = <<"uploadRequest">> => Arrived(m)["command"] = <<"02">>
         /\ m["command"] = <<"reqgetallfiles">> => Arrived(m)["command"] = <<"31">>
         /\ m["command"] = <<"downloadRequest">> => Arrived(m)["command"] = <<"14">>
         /\ Arrived(m)["fileName"] = Filled(m, "fileName")
         /\ Arrived(m)["body"] = Filled(m, "body")
<1>1. /\ m \in CleanMessages
      /\ m["command"] \in {<<"uploadRequest">>, <<"reqgetallfiles">>, <<"downloadRequest">>}
  BY DEF Asked
<1> DEFINE w == Command[Head(m["command"])]
           a == With(m, "command", <<w>>)
           x == With(a, "from_Addr", <<"client">>)
<1>2. /\ m["command"] = <<"uploadRequest">> => w = "02"
      /\ m["command"] = <<"reqgetallfiles">> => w = "31"
      /\ m["command"] = <<"downloadRequest">> => w = "14"
  <2>1. /\ Head(<<"uploadRequest">>) = "uploadRequest" /\ Head(<<"reqgetallfiles">>) = "reqgetallfiles"
        /\ Head(<<"downloadRequest">>) = "downloadRequest"
    OBVIOUS
  <2>2. /\ Command["uploadRequest"] = "02" /\ Command["reqgetallfiles"] = "31"
        /\ Command["downloadRequest"] = "14"
    BY DEF Command
  <2> QED
    BY <2>1, <2>2, Zenon
<1>3. w \in {"02", "31", "14"}
  BY <1>1, <1>2
<1>4. Sent(m) = CreateHTTPMessage(x)
  <2>1. m \in [ToSet(Fields) -> Texts]
    BY <1>1 DEF CleanMessages, Messages
  <2>2. [m EXCEPT !["command"] = <<w>>, !["from_Addr"] = <<"client">>] = x
    <3> HIDE DEF w
    <3> DEFINE D == ToSet(Fields)
               v == <<w>>
               u == <<"client">>
    <3>1. m \in [D -> Texts]
      BY <2>1
    <3> HIDE DEF D, v, u
    <3>2. [m EXCEPT !["command"] = v, !["from_Addr"] = u] = With(With(m, "command", v), "from_Addr", u)
      BY <3>1 DEF With
    <3> QED
      BY <3>2 DEF v, u
  <2> QED
    BY <2>2 DEF Sent
<1> HIDE DEF w
<1>5. Clean(<<w>>) /\ <<w>> # <<>> /\ Clean(<<"client">>)
  BY <1>3, WordIs
<1>6. /\ a \in CleanMessages /\ a["command"] = <<w>>
      /\ \A other \in ToSet(Fields) : other # "command" => a[other] = m[other]
  <2>1. \A v : Clean(v) => /\ With(m, "command", v) \in CleanMessages
                           /\ With(m, "command", v)["command"] = v
                           /\ \A other \in ToSet(Fields) :
                                other # "command" => With(m, "command", v)[other] = m[other]
    BY <1>1, FieldNames, WithIs
  <2> QED
    BY <1>5, <2>1, Zenon
<1> HIDE DEF a
<1>7. /\ x \in CleanMessages
      /\ \A other \in ToSet(Fields) : other # "from_Addr" => x[other] = a[other]
  BY <1>5, <1>6, FieldNames, WithIs
<1> HIDE DEF x
<1>8. /\ x["command"] = <<w>> /\ x["fileName"] = m["fileName"] /\ x["body"] = m["body"]
  BY <1>6, <1>7, FieldNames, Zenon
<1>9. /\ Arrived(m) \in CleanMessages
      /\ \A field \in ToSet(Fields) : Arrived(m)[field] = Filled(x, field)
  BY <1>4, <1>7, ParseCreate DEF Arrived
<1>10. /\ Filled(x, "command") = <<w>> /\ Filled(x, "fileName") = Filled(m, "fileName")
       /\ Filled(x, "body") = Filled(m, "body")
  BY <1>5, <1>8, Zenon DEF Filled
<1>11. /\ Arrived(m)["command"] = <<w>> /\ Arrived(m)["fileName"] = Filled(m, "fileName")
       /\ Arrived(m)["body"] = Filled(m, "body")
  BY <1>9, <1>10, FieldNames
<1>12. Sent(m) \in Texts /\ InRange(Sent(m))
  BY <1>4, <1>7, AttributesAre, CreateInRange
<1> QED
  BY <1>2, <1>9, <1>11, <1>12

\* What arrives of an answer at the client: the command and the body that were written.
Turned(m) == [m EXCEPT !["to_Addr"] = m["from_Addr"], !["from_Addr"] = m["to_Addr"]]

\* An answer arrives with its command and body.
LEMMA TurnedIs ==
  ASSUME NEW m \in CleanMessages, m["command"] # <<>>
  PROVE  /\ CreateHTTPMessage(Turned(m)) \in Texts /\ InRange(CreateHTTPMessage(Turned(m)))
         /\ ParseStringMessage(CreateHTTPMessage(Turned(m)))["command"] = m["command"]
         /\ ParseStringMessage(CreateHTTPMessage(Turned(m)))["body"] = Filled(m, "body")
<1> DEFINE u == m["from_Addr"]
           v == m["to_Addr"]
           a == With(m, "to_Addr", u)
           x == With(a, "from_Addr", v)
<1>1. Turned(m) = x
  <2>1. m \in [ToSet(Fields) -> Texts]
    BY DEF CleanMessages, Messages
  <2> DEFINE D == ToSet(Fields)
  <2>2. m \in [D -> Texts]
    BY <2>1
  <2>3. Turned(m) = [m EXCEPT !["to_Addr"] = u, !["from_Addr"] = v]
    BY DEF Turned
  <2> HIDE DEF D, u, v
  <2>4. [m EXCEPT !["to_Addr"] = u, !["from_Addr"] = v] = With(With(m, "to_Addr", u), "from_Addr", v)
    BY <2>2 DEF With
  <2> QED
    BY <2>3, <2>4
<1>2. Clean(u) /\ Clean(v)
  BY FieldNames DEF CleanMessages
<1> HIDE DEF u, v
<1>3. /\ a \in CleanMessages
      /\ \A other \in ToSet(Fields) : other # "to_Addr" => a[other] = m[other]
  BY <1>2, FieldNames, WithIs
<1> HIDE DEF a
<1>4. /\ x \in CleanMessages
      /\ \A other \in ToSet(Fields) : other # "from_Addr" => x[other] = a[other]
  BY <1>2, <1>3, FieldNames, WithIs
<1> HIDE DEF x
<1>5. x["command"] = m["command"] /\ x["body"] = m["body"]
  BY <1>3, <1>4, FieldNames, Zenon
<1>6. Filled(x, "command") = m["command"] /\ Filled(x, "body") = Filled(m, "body")
  BY <1>5, Zenon DEF Filled
<1>7. \A field \in ToSet(Fields) : ParseStringMessage(CreateHTTPMessage(x))[field] = Filled(x, field)
  BY <1>4, ParseCreate
<1>8. CreateHTTPMessage(x) \in Texts /\ InRange(CreateHTTPMessage(x))
  BY <1>4, AttributesAre, CreateInRange
<1>9. /\ ParseStringMessage(CreateHTTPMessage(x))["command"] = m["command"]
      /\ ParseStringMessage(CreateHTTPMessage(x))["body"] = Filled(m, "body")
  BY <1>6, <1>7, FieldNames
<1> QED
  BY <1>1, <1>8, <1>9

\* The pieces of what can be carried can be carried.
LEMMA SplitClean ==
  ASSUME NEW s, NEW sep, Clean(s)
  PROVE  /\ Split(s, sep) \in Seq(Texts)
         /\ \A k \in 1..Len(Split(s, sep)) : Clean(Split(s, sep)[k])
<1>1. s \in Texts /\ ~ Has(s, EOT) /\ ~ Has(s, SEPARATOR)
  BY DEF Clean
<1>2. /\ AllIn(Pieces(s, sep), {e \in Texts : ~ Has(e, EOT)})
      /\ AllIn(Pieces(s, sep), {e \in Texts : ~ Has(e, SEPARATOR)})
  BY <1>1, PiecesHave
<1>3. /\ Split(s, sep) \in Seq(Texts)
      /\ AllIn(Split(s, sep), {e \in Texts : ~ Has(e, EOT)})
      /\ AllIn(Split(s, sep), {e \in Texts : ~ Has(e, SEPARATOR)})
  BY <1>1, <1>2, SplitIn
<1> QED
  BY <1>3 DEF AllIn, Clean

------------------------------------------------------------------------------
(* What a step leaves alone.                                                 *)

\* Files hold as long as neither they nor the messages posted change.
LEMMA FilesFrame == Files /\ UNCHANGED <<stored, posted>> => Files'
BY DEF Files

\* What the window shows stays right while neither it nor the server's files change.
LEMMA ShownFrame ==
  Shown /\ UNCHANGED <<uploadFile, listed, selected, selectedE, stored>> => Shown'
BY DEF Shown, NoSeparatorInNames, Paths

\* So do the messages that were posted,
LEMMA PostedFrame == Posted /\ UNCHANGED <<posted, stored>> => Posted'
BY DEF Posted, Asked, NoSeparatorInNames, Paths

\* the requests on their way,
LEMMA RequestsFrame == Requests /\ UNCHANGED <<sndrQueue, net, posted>> => Requests'
BY DEF Requests

\* the answers,
LEMMA AnswersFrame ==
  Answers /\ UNCHANGED <<replies, rcvrQueue, pending, shown, stored>> => Answers'
BY DEF Answers, ListAnswer, Lists, Paths

\* what the end of the server says of the files that were posted,
LEMMA BareFrame == Bare /\ UNCHANGED <<up, posted, failed>> => Bare'
BY DEF Bare

\* that what is on a connection can be taken apart, while nothing is added,
LEMMA ReadableFrame ==
  Readable /\ net' \subseteq net /\ replies' \subseteq replies => Readable'
BY DEF Readable

\* what the metadata say of what was selected,
LEMMA ChosenFrame == DependenciesAsChosen /\ UNCHANGED <<stored, posted>> => DependenciesAsChosen'
BY DEF DependenciesAsChosen, NoSeparatorInNames

\* and that no request is lost.
LEMMA LostFrame ==
  NoneLost /\ UNCHANGED <<up, failed, posted, stored, sndrQueue, net, replies, rcvrQueue, pending, shown>>
    => NoneLost'
BY DEF NoneLost, FileIsThere, OnWay, Sendable

------------------------------------------------------------------------------
(* Steps of the user.                                                        *)

\* A file is picked: it is one that the user has.
LEMMA PickFileStep == ASSUME NEW f \in LocalFiles PROVE IInv /\ PickFile(f) => IInv'
<1> SUFFICES ASSUME IInv, PickFile(f) PROVE IInv'
  OBVIOUS
<1>1. /\ UNCHANGED <<listed, selected, selectedE, pending, shown, posted, sndrQueue, rcvrQueue>>
      /\ UNCHANGED <<stored, up, failed, net, replies>> /\ uploadFile' = f
  BY DEF PickFile, serverVars, faults
<1>2. Clean(f)
  BY PathsAssumption, LocalName
<1>3. Shown'
  BY <1>1, <1>2 DEF IInv, Shown, NoSeparatorInNames, Paths
<1> QED
  BY <1>1, <1>3, FilesFrame, PostedFrame, RequestsFrame, AnswersFrame, BareFrame,
     ReadableFrame, ChosenFrame, LostFrame DEF IInv

\* An entry of one of the lists is selected: it is there.
LEMMA SelectStep ==
  ASSUME NEW i \in 1..Len(listed) PROVE IInv /\ (Select(i) \/ SelectE(i)) => IInv'
<1> SUFFICES ASSUME IInv, Select(i) \/ SelectE(i) PROVE IInv'
  OBVIOUS
<1>1. /\ UNCHANGED <<uploadFile, listed, pending, shown, posted, sndrQueue, rcvrQueue>>
      /\ UNCHANGED <<stored, up, failed, net, replies>>
  BY DEF Select, SelectE, serverVars, faults
<1>2. selected \in Seq(1..Len(listed)) /\ selectedE \in Seq(1..Len(listed))
  BY DEF IInv, Shown
<1>3. \A s \in Seq(1..Len(listed)) : Append(s, i) \in Seq(1..Len(listed))
  <2> DEFINE D == 1..Len(listed)
  <2>1. i \in D
    OBVIOUS
  <2> HIDE DEF D
  <2>2. \A s \in Seq(D) : Append(s, i) \in Seq(D)
    BY <2>1, AppendProperties
  <2> QED
    BY <2>2 DEF D
<1>4. \/ selected' = Append(selected, i) /\ selectedE' = selectedE
      \/ selectedE' = Append(selectedE, i) /\ selected' = selected
  BY DEF Select, SelectE
<1>5. selected' \in Seq(1..Len(listed)) /\ selectedE' \in Seq(1..Len(listed))
  BY <1>2, <1>3, <1>4, Zenon
<1>6. Shown'
  BY <1>1, <1>5 DEF IInv, Shown, NoSeparatorInNames, Paths
<1> QED
  BY <1>1, <1>6, FilesFrame, PostedFrame, RequestsFrame, AnswersFrame, BareFrame,
     ReadableFrame, ChosenFrame, LostFrame DEF IInv

\* The entries of a list that are selected, in order of selection, are entries of it.
LEMMA ItemsAre ==
  ASSUME NEW sel, IInv, sel \in Seq(1..Len(listed))
  PROVE  /\ Items(sel) \in Seq(Texts) /\ Len(Items(sel)) = Len(sel) /\ Len(sel) \in Nat
         /\ \A k \in 1..Len(sel) : PieceOf(Items(sel)[k], Paths)
         /\ NoSeparatorInNames => AllIn(Items(sel), Paths)
<1> DEFINE D == 1..Len(listed)
<1>1. /\ listed \in Seq(Texts) /\ (\A k \in D : listed[k] \in Texts /\ PieceOf(listed[k], Paths))
      /\ NoSeparatorInNames => \A k \in D : listed[k] \in Paths
  BY DEF IInv, Shown, AllIn
<1>2. sel \in Seq(D)
  OBVIOUS
<1> HIDE DEF D
<1>3. Len(sel) \in Nat /\ \A k \in 1..Len(sel) : sel[k] \in D
  BY <1>2
<1> DEFINE a == [k \in 1..Len(sel) |-> listed[sel[k]]]
<1>4. a \in Seq(Texts) /\ Len(a) = Len(sel)
  BY <1>1, <1>3
<1>5. \A k \in 1..Len(sel) : a[k] = listed[sel[k]]
  OBVIOUS
<1>6. Items(sel) = a
  BY DEF Items
<1> HIDE DEF a
<1>7. \A k \in 1..Len(sel) : PieceOf(a[k], Paths)
  BY <1>1, <1>3, <1>5
<1>8. NoSeparatorInNames => AllIn(a, Paths)
  BY <1>1, <1>3, <1>4, <1>5 DEF AllIn
<1> QED
  BY <1>3, <1>4, <1>6, <1>7, <1>8

\* Two sequences, element by element.
LEMMA ConcatAny ==
  ASSUME NEW T, NEW s \in Seq(T), NEW t \in Seq(T)
  PROVE  /\ s \o t \in Seq(T) /\ Len(s) \in Nat /\ Len(t) \in Nat
         /\ Len(s \o t) = Len(s) + Len(t)
         /\ \A i \in 1..Len(s) : (s \o t)[i] = s[i]
         /\ \A i \in 1..Len(t) : (s \o t)[Len(s) + i] = t[i]
BY ConcatProperties

\* Messages that ask for what is on the screen can be posted.
LEMMA PostAllStep ==
  ASSUME NEW msgs, NEW c
  PROVE  /\ msgs \in Seq(Messages) /\ c \in SUBSET Texts
         /\ \A k \in 1..Len(msgs) : Asked(msgs[k], c)
         /\ IInv /\ PostAll(msgs, c)
         => IInv'
<1> DEFINE R == [msg : Messages, chosen : SUBSET Texts]
           Q == [n : Nat, msg : Messages]
           added == [k \in 1..Len(msgs) |-> [msg |-> msgs[k], chosen |-> c]]
           queued == [k \in 1..Len(msgs) |-> [n |-> Len(posted) + k, msg |-> msgs[k]]]
<1>0. SUFFICES ASSUME msgs \in Seq(Messages), c \in SUBSET Texts,
                      \A k \in 1..Len(msgs) : Asked(msgs[k], c),
                      IInv, PostAll(msgs, c)
               PROVE  IInv'
  OBVIOUS
<1>1. /\ UNCHANGED <<uploadFile, listed, selected, selectedE, pending, shown, rcvrQueue>>
      /\ UNCHANGED <<stored, up, failed, net, replies>>
      /\ posted' = posted \o added /\ sndrQueue' = sndrQueue \o queued
  BY <1>0 DEF PostAll, serverVars, faults, uiVars
<1>2. posted \in Seq(R) /\ Len(posted) \in Nat /\ sndrQueue \in Seq(Q)
  BY <1>0 DEF IInv, Posted, Requests
<1>3. Len(msgs) \in Nat /\ (\A k \in 1..Len(msgs) : msgs[k] \in Messages) /\ c \in SUBSET Texts
  BY <1>0
<1>4. /\ added \in Seq(R) /\ Len(added) = Len(msgs)
      /\ \A k \in 1..Len(msgs) : added[k].msg = msgs[k] /\ added[k].chosen = c
  <2>1. \A k \in 1..Len(msgs) : [msg |-> msgs[k], chosen |-> c] \in R
    BY <1>3
  <2> HIDE DEF R
  <2>2. added \in Seq(R) /\ Len(added) = Len(msgs)
    BY <1>3, <2>1
  <2>3. \A k \in 1..Len(msgs) : added[k].msg = msgs[k] /\ added[k].chosen = c
    OBVIOUS
  <2> HIDE DEF added
  <2> QED
    BY <2>2, <2>3, Zenon
<1>5. /\ queued \in Seq(Q) /\ Len(queued) = Len(msgs)
      /\ \A k \in 1..Len(msgs) : queued[k].msg = msgs[k] /\ queued[k].n = Len(posted) + k
  <2>1. \A k \in 1..Len(msgs) : [n |-> Len(posted) + k, msg |-> msgs[k]] \in Q
    BY <1>2, <1>3
  <2> HIDE DEF Q
  <2>2. queued \in Seq(Q) /\ Len(queued) = Len(msgs)
    BY <1>3, <2>1
  <2>3. \A k \in 1..Len(msgs) : queued[k].msg = msgs[k] /\ queued[k].n = Len(posted) + k
    OBVIOUS
  <2> HIDE DEF queued
  <2> QED
    BY <2>2, <2>3, Zenon
<1> HIDE DEF R, Q, added, queued
<1>6. /\ posted' \in Seq(R) /\ Len(posted') = Len(posted) + Len(msgs)
      /\ \A k \in 1..Len(posted) : posted'[k] = posted[k]
      /\ \A k \in 1..Len(msgs) : posted'[Len(posted) + k] = added[k]
  <2>0. posted \in Seq(R) /\ added \in Seq(R)
    BY <1>2, <1>4
  <2>1. /\ posted \o added \in Seq(R) /\ Len(posted \o added) = Len(posted) + Len(added)
        /\ \A k \in 1..Len(posted) : (posted \o added)[k] = posted[k]
        /\ \A k \in 1..Len(added) : (posted \o added)[Len(posted) + k] = added[k]
    BY <2>0, ConcatAny
  <2>2. posted' = posted \o added /\ Len(added) = Len(msgs)
    BY <1>1, <1>4
  <2> QED
    BY <2>1, <2>2, Zenon
<1>7. /\ sndrQueue' \in Seq(Q) /\ Len(sndrQueue') = Len(sndrQueue) + Len(msgs)
      /\ Len(sndrQueue) \in Nat
      /\ \A k \in 1..Len(sndrQueue) : sndrQueue'[k] = sndrQueue[k]
      /\ \A k \in 1..Len(msgs) : sndrQueue'[Len(sndrQueue) + k] = queued[k]
  <2>0. sndrQueue \in Seq(Q) /\ queued \in Seq(Q)
    BY <1>2, <1>5
  <2>1. /\ sndrQueue \o queued \in Seq(Q) /\ Len(sndrQueue \o queued) = Len(sndrQueue) + Len(queued)
        /\ Len(sndrQueue) \in Nat
        /\ \A k \in 1..Len(sndrQueue) : (sndrQueue \o queued)[k] = sndrQueue[k]
        /\ \A k \in 1..Len(queued) : (sndrQueue \o queued)[Len(sndrQueue) + k] = queued[k]
    BY <2>0, ConcatAny
  <2>2. sndrQueue' = sndrQueue \o queued /\ Len(queued) = Len(msgs)
    BY <1>1, <1>5
  <2> QED
    BY <2>1, <2>2, Zenon
<1>8. \A k \in 1..Len(posted') : k \in 1..Len(posted) \/ \E j \in 1..Len(msgs) : k = Len(posted) + j
  <2>1. ASSUME NEW k \in 1..Len(posted'), k \notin 1..Len(posted)
        PROVE  \E j \in 1..Len(msgs) : k = Len(posted) + j
    <3>1. k - Len(posted) \in 1..Len(msgs) /\ k = Len(posted) + (k - Len(posted))
      BY <1>2, <1>3, <1>6, <2>1
    <3> QED
      BY <3>1
  <2> QED
    BY <2>1
<1>9. \A k \in 1..Len(sndrQueue') :
        k \in 1..Len(sndrQueue) \/ \E j \in 1..Len(msgs) : k = Len(sndrQueue) + j
  <2>1. ASSUME NEW k \in 1..Len(sndrQueue'), k \notin 1..Len(sndrQueue)
        PROVE  \E j \in 1..Len(msgs) : k = Len(sndrQueue) + j
    <3>1. k - Len(sndrQueue) \in 1..Len(msgs) /\ k = Len(sndrQueue) + (k - Len(sndrQueue))
      BY <1>3, <1>7, <2>1
    <3> QED
      BY <3>1
  <2> QED
    BY <2>1
<1>10. /\ \A k \in 1..Len(posted) : k \in 1..Len(posted')
       /\ \A j \in 1..Len(msgs) : Len(posted) + j \in 1..Len(posted')
       /\ \A k \in 1..Len(sndrQueue) : k \in 1..Len(sndrQueue')
       /\ \A j \in 1..Len(msgs) : Len(sndrQueue) + j \in 1..Len(sndrQueue')
  BY <1>2, <1>3, <1>6, <1>7
<1>11. Files'
  BY <1>0, <1>1, <1>10, Zenon DEF IInv, Files
<1>12. Shown'
  BY <1>0, <1>1, ShownFrame DEF IInv
<1>13. Answers'
  BY <1>0, <1>1, AnswersFrame DEF IInv
<1>14. Posted'
  <2>1. \A m, d : Asked(m, d) => Asked(m, d)'
    BY <1>1 DEF Asked, NoSeparatorInNames, Paths
  <2>2. \A k \in 1..Len(posted) : Asked(posted[k].msg, posted[k].chosen)
    BY <1>0 DEF IInv, Posted
  <2>3. \A k \in 1..Len(posted') : Asked(posted'[k].msg, posted'[k].chosen)
    <3>1. SUFFICES ASSUME NEW k \in 1..Len(posted') PROVE Asked(posted'[k].msg, posted'[k].chosen)
      OBVIOUS
    <3>2. CASE k \in 1..Len(posted)
      BY <1>6, <2>2, <3>2, Zenon
    <3>3. CASE k \notin 1..Len(posted)
      <4>1. PICK j \in 1..Len(msgs) : k = Len(posted) + j
        BY <1>8, <3>3
      <4>2. posted'[k].msg = msgs[j] /\ posted'[k].chosen = c
        BY <1>4, <1>6, <4>1, Zenon
      <4> QED
        BY <1>0, <4>2, Zenon
    <3> QED
      BY <3>2, <3>3
  <2>4. \A k \in 1..Len(posted') : Asked(posted[k].msg, posted[k].chosen)'
    BY <2>1, <2>3
  <2> QED
    BY <1>6, <2>4 DEF Posted, R
<1>15. Requests'
  <2>1. \A k \in 1..Len(sndrQueue') : /\ sndrQueue'[k].n \in 1..Len(posted')
                                      /\ sndrQueue'[k].msg = posted'[sndrQueue'[k].n].msg
    <3>1. SUFFICES ASSUME NEW k \in 1..Len(sndrQueue')
                   PROVE  /\ sndrQueue'[k].n \in 1..Len(posted')
                          /\ sndrQueue'[k].msg = posted'[sndrQueue'[k].n].msg
      OBVIOUS
    <3>2. CASE k \in 1..Len(sndrQueue)
      <4>1. sndrQueue[k].n \in 1..Len(posted) /\ sndrQueue[k].msg = posted[sndrQueue[k].n].msg
        BY <1>0, <3>2 DEF IInv, Requests
      <4> QED
        BY <1>6, <1>7, <1>10, <3>2, <4>1, Zenon
    <3>3. CASE k \notin 1..Len(sndrQueue)
      <4>1. PICK j \in 1..Len(msgs) : k = Len(sndrQueue) + j
        BY <1>9, <3>3
      <4>2. sndrQueue'[k].n = Len(posted) + j /\ sndrQueue'[k].msg = msgs[j]
        BY <1>5, <1>7, <4>1, Zenon
      <4>3. posted'[Len(posted) + j].msg = msgs[j]
        BY <1>4, <1>6, Zenon
      <4> QED
        BY <1>10, <4>2, <4>3, Zenon
    <3> QED
      BY <3>2, <3>3
  <2>2. \A r \in net' : /\ r.n \in 1..Len(posted') /\ r.text = Sent(posted'[r.n].msg)
                        /\ posted'[r.n].msg["command"] = <<"uploadRequest">> =>
                             Offers(posted'[r.n].msg)
    <3>1. \A r \in net : /\ r.n \in 1..Len(posted) /\ r.text = Sent(posted[r.n].msg)
                         /\ posted[r.n].msg["command"] = <<"uploadRequest">> =>
                              Offers(posted[r.n].msg)
      BY <1>0 DEF IInv, Requests
    <3>2. net' = net
      BY <1>1
    <3> QED
      BY <1>6, <1>10, <3>1, <3>2, Zenon
  <2> QED
    BY <1>7, <2>1, <2>2, Zenon DEF Requests, Q
<1>16. Bare'
  <2>1. SUFFICES ASSUME ~ up
                 PROVE  \E i \in 1..Len(posted') :
                          /\ posted'[i].msg["command"] = <<"uploadRequest">>
                          /\ NoExtension(posted'[i].msg["fileName"]) \/ i \in failed
    BY <1>1 DEF Bare
  <2>2. PICK i \in 1..Len(posted) :
          /\ posted[i].msg["command"] = <<"uploadRequest">>
          /\ NoExtension(posted[i].msg["fileName"]) \/ i \in failed
    BY <1>0, <2>1 DEF IInv, Bare
  <2> QED
    BY <1>6, <1>10, <2>2, Zenon
<1>17. DependenciesAsChosen'
  <2>1. ASSUME NoSeparatorInNames, NEW f \in stored \ UNION Before
        PROVE  f.deps = IF posted'[f.n].chosen = {} THEN {Front(NA)} ELSE posted'[f.n].chosen
    <3>1. f.deps = IF posted[f.n].chosen = {} THEN {Front(NA)} ELSE posted[f.n].chosen
      BY <1>0, <2>1 DEF IInv, DependenciesAsChosen
    <3>2. f.n \in 1..Len(posted)
      BY <1>0, <2>1 DEF IInv, Files
    <3>3. posted'[f.n] = posted[f.n]
      BY <1>6, <3>2
    <3> QED
      BY <3>1, <3>3
  <2>2. NoSeparatorInNames' = NoSeparatorInNames /\ stored' = stored
    BY <1>1 DEF NoSeparatorInNames
  <2> QED
    BY <2>1, <2>2 DEF DependenciesAsChosen
<1>18. NoneLost'
  <2>1. SUFFICES ASSUME up, NEW n \in 1..Len(posted') \ failed, FileIsThere(posted[n].msg)'
                 PROVE  OnWay(n)'
    BY <1>1 DEF NoneLost
  <2>2. CASE n \in 1..Len(posted)
    <3>1. posted'[n] = posted[n]
      BY <1>6, <2>2
    <3>2. FileIsThere(posted[n].msg)
      BY <1>1, <2>1, <3>1 DEF FileIsThere, Sendable
    <3>3. OnWay(n)
      BY <1>0, <2>1, <2>2, <3>2 DEF IInv, NoneLost
    <3>4. (\E k \in 1..Len(sndrQueue) : sndrQueue[k].n = n)
            => \E k \in 1..Len(sndrQueue') : sndrQueue'[k].n = n
      BY <1>7, <1>10, Zenon
    <3> QED
      BY <1>1, <3>3, <3>4 DEF OnWay
  <2>3. CASE n \notin 1..Len(posted)
    <3>1. PICK j \in 1..Len(msgs) : n = Len(posted) + j
      BY <1>8, <2>3
    <3>2. sndrQueue'[Len(sndrQueue) + j].n = n
      BY <1>5, <1>7, <3>1, Zenon
    <3>3. \E k \in 1..Len(sndrQueue') : sndrQueue'[k].n = n
      BY <1>10, <3>2, Zenon
    <3> QED
      BY <3>3 DEF OnWay
  <2> QED
    BY <2>2, <2>3
<1>19. Readable'
  BY <1>0, <1>1, ReadableFrame DEF IInv
<1> QED
  BY <1>0, <1>11, <1>12, <1>13, <1>14, <1>15, <1>16, <1>17, <1>18, <1>19 DEF IInv

\* The messages that the window posts.
LEMMA MessageIs ==
  ASSUME NEW command, NEW fileName, NEW body, Clean(fileName), Clean(body),
         command \in {"uploadRequest", "reqgetallfiles", "downloadRequest"}
  PROVE  /\ Message(command, fileName, body) \in CleanMessages
         /\ Message(command, fileName, body)["command"] = <<command>>
         /\ Message(command, fileName, body)["fileName"] = fileName
         /\ Message(command, fileName, body)["body"] = body
<1> DEFINE D == ToSet(Fields)
           v(field) == CASE field = "command" -> <<command>> [] field = "fileName" -> fileName
                         [] field = "body" -> body [] field = "to_Addr" -> <<"server">>
                         [] OTHER -> <<>>
           m == Message(command, fileName, body)
<1>1. m = [field \in D |-> v(field)]
  BY DEF Message
<1>2. /\ v("command") = <<command>> /\ v("fileName") = fileName /\ v("body") = body
      /\ \A field : v(field) \in {<<command>>, fileName, body, <<"server">>, <<>>}
  <2>1. v("command") = <<command>>
    OBVIOUS
  <2>2. v("fileName") = fileName
    OBVIOUS
  <2>3. v("body") = body
    OBVIOUS
  <2>4. ASSUME NEW field PROVE v(field) \in {<<command>>, fileName, body, <<"server">>, <<>>}
    OBVIOUS
  <2> QED
    BY <2>1, <2>2, <2>3, <2>4
<1>3. Clean(<<command>>)
  <2>1. command \in Chars
    <3>1. command \in Literals
      BY Zenon DEF Literals
    <3> QED
      BY <3>1 DEF Chars
  <2>2. command # EOT /\ command # SEPARATOR
    BY DEF EOT, SEPARATOR
  <2>3. <<command>> \in Texts /\ \A x : Has(<<command>>, x) => x = command
    BY <2>1, ShortTexts
  <2> QED
    BY <2>2, <2>3 DEF Clean
<1>4. Clean(<<"server">>)
  BY WordIs
<1>5. Clean(<<>>)
  BY HasNothing DEF Clean, Texts
<1> HIDE DEF v, m, D
<1>6. \A field \in D : Clean(v(field)) /\ v(field) \in Texts
  <2>1. \A s \in {<<command>>, fileName, body, <<"server">>, <<>>} : Clean(s)
    BY <1>3, <1>4, <1>5
  <2> QED
    BY <1>2, <2>1 DEF Clean
<1>7. m \in [D -> Texts] /\ \A field \in D : m[field] = v(field)
  BY <1>1, <1>6
<1>8. m \in CleanMessages
  BY <1>6, <1>7 DEF CleanMessages, Messages, D
<1>9. "command" \in D /\ "fileName" \in D /\ "body" \in D
  BY FieldNames DEF D
<1> QED
  BY <1>2, <1>7, <1>8, <1>9 DEF m

\* "NA", and what is left of it.
LEMMA NothingIs ==
  /\ Clean(NA) /\ NA # <<>> /\ ~ Has(NA, "C:") /\ NA \in Texts /\ ~ Has(NA, FILES_SEP)
  /\ Front(NA) = <<"N">> /\ Clean(<<"N">>) /\ <<"N">> # NA /\ <<"N">> # <<>>
  /\ <<"N">> \in Texts /\ ~ Has(<<"N">>, FILES_SEP)
<1>1. "N" \in Chars /\ "A" \in Chars
  BY CharsAre
<1>2. /\ "N" # EOT /\ "A" # EOT /\ "N" # SEPARATOR /\ "A" # SEPARATOR
      /\ "N" # FILES_SEP /\ "A" # FILES_SEP /\ "N" # "C:" /\ "A" # "C:"
  BY DEF EOT, SEPARATOR, FILES_SEP
<1>3. NA = <<"N", "A">>
  BY DEF NA
<1>4. /\ NA \in Texts /\ (\A x : Has(NA, x) => x = "N" \/ x = "A")
      /\ <<"N">> \in Texts /\ (\A x : Has(<<"N">>, x) => x = "N")
      /\ Append(<<"N">>, "A") = NA
  BY <1>1, <1>3, ShortTexts
<1>5. Front(NA) = <<"N">> /\ NA # <<>>
  BY <1>1, <1>4, FrontAppended
<1>6. Len(<<"N">>) = 1 /\ Len(NA) = 2
  BY <1>3
<1>7. <<"N">> # NA /\ <<"N">> # <<>>
  BY <1>6
<1> QED
  BY <1>2, <1>4, <1>5, <1>7, Zenon DEF Clean

\* An upload is posted, with the names selected as its body.
LEMMA UploadStep == IInv /\ Upload => IInv'
<1> SUFFICES ASSUME IInv, Upload PROVE IInv'
  OBVIOUS
<1> DEFINE list == Items(selected)
           c == ToSet(list)
           body == IF selected = <<>> THEN Front(NA) ELSE Join(list)
           m == Message("uploadRequest", uploadFile, body)
<1>1. PostAll(<<m>>, c)
  BY DEF Upload
<1>2. /\ list \in Seq(Texts) /\ Len(list) = Len(selected) /\ Len(selected) \in Nat
      /\ \A k \in 1..Len(selected) : PieceOf(list[k], Paths)
      /\ NoSeparatorInNames => AllIn(list, Paths)
  <2>1. selected \in Seq(1..Len(listed))
    BY DEF IInv, Shown
  <2> QED
    BY <2>1, ItemsAre
<1> HIDE DEF list
<1>3. c = {list[k] : k \in 1..Len(list)}
  <2>1. DOMAIN list = 1..Len(list)
    BY <1>2
  <2> QED
    BY <2>1 DEF ToSet
<1>4. /\ c \in SUBSET Texts /\ (\A e \in c : PieceOf(e, Paths))
      /\ NoSeparatorInNames => c \subseteq Paths
  BY <1>2, <1>3 DEF AllIn
<1>5. Body(body, c) /\ Clean(body)
  <2>1. CASE selected = <<>>
    <3>1. Len(selected) = 0
      BY <2>1
    <3>2. c = {}
      BY <1>2, <1>3, <3>1
    <3> QED
      BY <2>1, <3>2, NothingIs DEF Body
  <2>2. CASE selected # <<>>
    <3>1. list \in Lists1
      <4>1. selected \in Seq(1..Len(listed))
        BY DEF IInv, Shown
      <4>2. Len(selected) # 0
        BY <2>2, <4>1
      <4> QED
        BY <1>2, <4>2 DEF Lists1
    <3>2. Clean(Join(list))
      BY <1>2, <3>1, JoinClean DEF PieceOf
    <3> QED
      BY <2>2, <3>1, <3>2 DEF Body
  <2> QED
    BY <2>1, <2>2
<1> HIDE DEF c, body
<1>6. Clean(uploadFile)
  BY DEF IInv, Shown
<1>7. /\ m \in CleanMessages /\ m["command"] = <<"uploadRequest">> /\ m["body"] = body
  BY <1>5, <1>6, MessageIs
<1> HIDE DEF m
<1>8. <<"uploadRequest">> # <<"downloadRequest">>
  OBVIOUS
<1>9. Asked(m, c)
  BY <1>4, <1>5, <1>7, <1>8, Zenon DEF Asked
<1>10. <<m>> \in Seq(Messages) /\ \A k \in 1..Len(<<m>>) : Asked(<<m>>[k], c)
  <2>1. m \in Messages
    BY <1>7 DEF CleanMessages
  <2>2. <<m>> \in Seq(Messages) /\ Len(<<m>>) = 1 /\ <<m>>[1] = m
    BY <2>1
  <2>3. \A k \in 1..1 : k = 1
    OBVIOUS
  <2> QED
    BY <1>9, <2>2, <2>3, Zenon
<1> QED
  BY <1>1, <1>4, <1>10, PostAllStep

\* The list of files is asked for.
LEMMA GetAllFilesStep == IInv /\ GetAllFiles => IInv'
<1> SUFFICES ASSUME IInv, GetAllFiles PROVE IInv'
  OBVIOUS
<1> DEFINE b == <<"Get", " ", "Files">>
           m == Message("reqgetallfiles", NA, b)
<1>1. PostAll(<<m>>, {})
  BY DEF GetAllFiles
<1>2. Clean(b)
  <2>1. "Get" \in Chars /\ " " \in Chars /\ "Files" \in Chars
    <3>1. "Get" \in Literals /\ " " \in Literals /\ "Files" \in Literals
      BY Zenon DEF Literals
    <3> QED
      BY <3>1 DEF Chars
  <2>2. Len(b) = 3 /\ b[1] = "Get" /\ b[2] = " " /\ b[3] = "Files"
    OBVIOUS
  <2>3. b \in Texts
    <3>1. \A x, y, z \in Chars : <<x, y, z>> \in Seq(Chars)
      OBVIOUS
    <3> QED
      BY <2>1, <3>1, Zenon DEF Texts
  <2>4. \A i \in 1..3 : i = 1 \/ i = 2 \/ i = 3
    OBVIOUS
  <2>5. \A x \in {EOT, SEPARATOR} : "Get" # x /\ " " # x /\ "Files" # x
    BY DEF EOT, SEPARATOR
  <2> HIDE DEF b
  <2>6. \A x : Has(b, x) => x = "Get" \/ x = " " \/ x = "Files"
    BY <2>2, <2>4, Zenon DEF Has
  <2> QED
    BY <2>3, <2>5, <2>6, Zenon DEF Clean
<1> HIDE DEF b
<1>3. m \in CleanMessages /\ m["command"] = <<"reqgetallfiles">>
  BY <1>2, MessageIs, NothingIs
<1> HIDE DEF m
<1>4. <<"reqgetallfiles">> # <<"downloadRequest">> /\ <<"reqgetallfiles">> # <<"uploadRequest">>
  OBVIOUS
<1>5. Asked(m, {})
  BY <1>3, <1>4, Zenon DEF Asked
<1>6. <<m>> \in Seq(Messages) /\ \A k \in 1..Len(<<m>>) : Asked(<<m>>[k], {})
  <2>1. m \in Messages
    BY <1>3 DEF CleanMessages
  <2>2. <<m>> \in Seq(Messages) /\ Len(<<m>>) = 1 /\ <<m>>[1] = m
    BY <2>1
  <2>3. \A k \in 1..1 : k = 1
    OBVIOUS
  <2> QED
    BY <1>5, <2>2, <2>3, Zenon
<1>7. {} \in SUBSET Texts
  OBVIOUS
<1> QED
  BY <1>1, <1>6, <1>7, PostAllStep

\* Each selected file is asked for.
LEMMA DownloadStep == IInv /\ Download => IInv'
<1> SUFFICES ASSUME IInv, Download PROVE IInv'
  OBVIOUS
<1> DEFINE list == Items(selectedE)
           c == ToSet(list)
           m(k) == Message("downloadRequest", list[k], <<"true">>)
           msgs == [k \in 1..Len(selectedE) |-> m(k)]
<1>1. PostAll(msgs, c)
  BY DEF Download
<1>2. /\ list \in Seq(Texts) /\ Len(list) = Len(selectedE) /\ Len(selectedE) \in Nat
      /\ \A k \in 1..Len(selectedE) : PieceOf(list[k], Paths)
      /\ NoSeparatorInNames => AllIn(list, Paths)
  <2>1. selectedE \in Seq(1..Len(listed))
    BY DEF IInv, Shown
  <2> QED
    BY <2>1, ItemsAre
<1> HIDE DEF list
<1>3. c = {list[k] : k \in 1..Len(list)}
  <2>1. DOMAIN list = 1..Len(list)
    BY <1>2
  <2> QED
    BY <2>1 DEF ToSet
<1>4. /\ c \in SUBSET Texts /\ (\A e \in c : PieceOf(e, Paths))
      /\ NoSeparatorInNames => c \subseteq Paths
      /\ \A k \in 1..Len(selectedE) : list[k] \in c
  BY <1>2, <1>3 DEF AllIn
<1> HIDE DEF c
<1>5. ASSUME NEW k \in 1..Len(selectedE)
      PROVE  /\ m(k) \in CleanMessages /\ m(k)["command"] = <<"downloadRequest">>
             /\ m(k)["fileName"] = list[k]
  <2>1. Clean(list[k])
    BY <1>2 DEF PieceOf
  <2>2. Clean(<<"true">>)
    BY WordIs
  <2>3. "downloadRequest" \in {"uploadRequest", "reqgetallfiles", "downloadRequest"}
    OBVIOUS
  <2> QED
    BY <2>1, <2>2, <2>3, MessageIs
<1> HIDE DEF m
<1>6. <<"downloadRequest">> # <<"uploadRequest">>
  OBVIOUS
<1>7. \A k \in 1..Len(selectedE) : Asked(m(k), c)
  <2>1. SUFFICES ASSUME NEW k \in 1..Len(selectedE) PROVE Asked(m(k), c)
    OBVIOUS
  <2>2. /\ m(k) \in CleanMessages /\ m(k)["command"] = <<"downloadRequest">>
        /\ m(k)["fileName"] \in c
    BY <1>4, <1>5
  <2> QED
    BY <1>4, <1>6, <2>2, Zenon DEF Asked
<1>8. \A k \in 1..Len(selectedE) : m(k) \in Messages
  BY <1>5 DEF CleanMessages
<1>9. /\ msgs \in Seq(Messages) /\ Len(msgs) = Len(selectedE)
      /\ \A k \in 1..Len(selectedE) : msgs[k] = m(k)
  BY <1>2, <1>8
<1> HIDE DEF msgs
<1>10. \A k \in 1..Len(msgs) : Asked(msgs[k], c)
  BY <1>7, <1>9, Zenon
<1> QED
  BY <1>1, <1>4, <1>9, <1>10, PostAllStep


------------------------------------------------------------------------------
(* The server's files.                                                       *)

\* The paths of the server can be carried, begin with the drive, and are not "NA".
LEMMA PathsAre ==
  ASSUME Files
  PROVE  /\ IsFiniteSet(Paths) /\ Paths \subseteq Driven /\ Paths \subseteq Texts
         /\ \A p \in Paths : Clean(p) /\ p # <<>> /\ Has(p, "C:")
         /\ NA \notin Paths /\ <<>> \notin Paths
<1>1. \A f \in stored : IsName(GetName(f.local)) /\ IsTime(f.time)
                        /\ f.path = StoredPath(GetName(f.local), f.time)
  BY DEF Files
<1>2. \A n, t : IsName(n) /\ IsTime(t) =>
        /\ Clean(StoredPath(n, t)) /\ StoredPath(n, t) # <<>> /\ Has(StoredPath(n, t), "C:")
        /\ \A i \in 1..Len(StoredPath(n, t)) : StoredPath(n, t)[i] = "C:" => i = 1
  BY StoredPathIs
<1>3. ASSUME NEW p \in Paths
      PROVE  /\ Clean(p) /\ p # <<>> /\ Has(p, "C:")
             /\ \A i \in 1..Len(p) : p[i] = "C:" => i = 1
  <2>1. PICK f \in stored : p = f.path
    BY DEF Paths
  <2> DEFINE n == GetName(f.local)
             t == f.time
  <2>2. IsName(n) /\ IsTime(t) /\ p = StoredPath(n, t)
    BY <1>1, <2>1
  <2> HIDE DEF n, t
  <2> QED
    BY <1>2, <2>2, Zenon
<1>4. IsFiniteSet(Paths)
  <2>1. IsFiniteSet(stored)
    BY DEF Files
  <2> DEFINE g == [f \in stored |-> f.path]
  <2>2. g \in Surjection(stored, Paths)
    <3>1. g \in [stored -> Paths] /\ \A p \in Paths : \E f \in stored : g[f] = p
      BY DEF Paths
    <3> QED
      BY <3>1 DEF Surjection
  <2> QED
    BY <2>1, FS_Surjection, <2>2
<1>5. Paths \subseteq Texts /\ Paths \subseteq Driven
  BY <1>3 DEF Clean, Driven
<1>6. NA \notin Paths /\ <<>> \notin Paths
  BY <1>3, NothingIs
<1> QED
  BY <1>3, <1>4, <1>5, <1>6

\* Without separators in names, the paths have none.
LEMMA PlainPaths ==
  ASSUME Files, NoSeparatorInNames
  PROVE  \A p \in Paths : ~ Has(p, FILES_SEP)
<1>1. SUFFICES ASSUME NEW p \in Paths PROVE ~ Has(p, FILES_SEP)
  OBVIOUS
<1>2. p \in Texts
  BY PathsAre
<1>3. FILES_SEP \notin ToSet(p)
  BY DEF NoSeparatorInNames, Paths
<1> QED
  BY <1>2, <1>3, MembersAre

\* What can stand in a list of some paths can stand in one of more.
LEMMA PieceOfMore == \A P, Q, e : P \subseteq Q /\ PieceOf(e, P) => PieceOf(e, Q)
BY DEF PieceOf, Entry, Part

------------------------------------------------------------------------------
(* Requests and answers.                                                     *)

\* What a request on its way says, and which message it was.
LEMMA RequestIs ==
  ASSUME IInv, NEW r \in net
  PROVE  LET p == posted[r.n]
             m == ParseStringMessage(r.text)
         IN  /\ r.n \in 1..Len(posted) /\ Asked(p.msg, p.chosen) /\ m \in CleanMessages
             /\ m["command"] = <<"02">> =>
                  /\ p.msg["command"] = <<"uploadRequest">>
                  /\ Offers(p.msg) /\ p.msg["fileName"] \in LocalFiles
                  /\ m["fileName"] = p.msg["fileName"]
                  /\ m["body"] = Filled(p.msg, "body")
             /\ m["command"] = <<"14">> =>
                  /\ p.msg["command"] = <<"downloadRequest">>
                  /\ m["fileName"] \in Paths <=> p.msg["fileName"] \in Paths
                  /\ p.msg["fileName"] \in Paths => m["fileName"] = p.msg["fileName"]
                  /\ m["fileName"] = NA \/ m["fileName"] = p.msg["fileName"]
<1> DEFINE q == posted[r.n].msg
           c == posted[r.n].chosen
           m == ParseStringMessage(r.text)
<1>1. /\ r.n \in 1..Len(posted) /\ r.text = Sent(q)
      /\ q["command"] = <<"uploadRequest">> => Offers(q) /\ q["fileName"] \in LocalFiles
  BY DEF IInv, Requests, Offers
<1>2. Asked(q, c)
  BY <1>1 DEF IInv, Posted
<1>3. m = Arrived(q)
  BY <1>1 DEF Arrived
<1> HIDE DEF q, c, m
<1>4. /\ m \in CleanMessages
      /\ q["command"] = <<"uploadRequest">> => m["command"] = <<"02">>
      /\ q["command"] = <<"reqgetallfiles">> => m["command"] = <<"31">>
      /\ q["command"] = <<"downloadRequest">> => m["command"] = <<"14">>
      /\ m["fileName"] = Filled(q, "fileName") /\ m["body"] = Filled(q, "body")
  BY <1>2, <1>3, SentIs
<1>5. q["command"] \in {<<"uploadRequest">>, <<"reqgetallfiles">>, <<"downloadRequest">>}
  BY <1>2 DEF Asked
<1>6. <<"02">> # <<"31">> /\ <<"02">> # <<"14">> /\ <<"14">> # <<"31">>
  OBVIOUS
<1>7. /\ m["command"] = <<"02">> => q["command"] = <<"uploadRequest">>
      /\ m["command"] = <<"14">> => q["command"] = <<"downloadRequest">>
  BY <1>4, <1>5, <1>6
<1>8. q["fileName"] \in LocalFiles => q["fileName"] # <<>>
  BY PathsAssumption DEF IsLocal
<1>9. Default("fileName") = NA
  BY DEF Default
<1>10. Filled(q, "fileName") = IF q["fileName"] = <<>> THEN NA ELSE q["fileName"]
  BY <1>9 DEF Filled
<1>11. NA \notin Paths /\ <<>> \notin Paths
  BY PathsAre DEF IInv
<1>12. /\ m["fileName"] \in Paths <=> q["fileName"] \in Paths
       /\ q["fileName"] \in Paths => m["fileName"] = q["fileName"]
       /\ m["fileName"] = NA \/ m["fileName"] = q["fileName"]
  BY <1>4, <1>10, <1>11
<1>13. m["command"] = <<"02">> =>
         Offers(q) /\ q["fileName"] \in LocalFiles /\ m["fileName"] = q["fileName"]
  BY <1>1, <1>4, <1>7, <1>8, <1>10
<1> QED
  BY <1>1, <1>2, <1>4, <1>7, <1>12, <1>13 DEF q, c, m

\* Requests stay as they are when some of them leave.
LEMMA FewerRequests ==
  Requests /\ net' \subseteq net /\ UNCHANGED <<sndrQueue, posted>> => Requests'
BY DEF Requests

\* An answer to a request on its way keeps the request from being lost.
LEMMA AnsweredNoneLost ==
  ASSUME IInv, NEW r \in net, NEW a, Own(a, r.n), net' = net \ {r}, replies' = replies \cup {a},
         UNCHANGED <<up, failed, posted, sndrQueue, rcvrQueue, pending, shown>>,
         \A k \in 1..Len(posted) :
            FileIsThere(posted[k].msg)' => FileIsThere(posted[k].msg)
  PROVE  NoneLost'
<1>1. SUFFICES ASSUME up, NEW n \in 1..Len(posted) \ failed, FileIsThere(posted[n].msg)'
               PROVE  OnWay(n)'
  BY DEF NoneLost
<1>2. FileIsThere(posted[n].msg)
  BY <1>1
<1>3. OnWay(n)
  BY <1>1, <1>2 DEF IInv, NoneLost
<1>4. (\E q \in net : q.n = n) => (\E q \in net' : q.n = n) \/ \E b \in replies' : Own(b, n)
  OBVIOUS
<1>5. (\E b \in replies : Own(b, n)) => \E b \in replies' : Own(b, n)
  OBVIOUS
<1> QED
  BY <1>3, <1>4, <1>5 DEF OnWay

\* An answer joins the others.
LEMMA OneMoreAnswer ==
  ASSUME Answers, NEW a \in Replies, replies' = replies \cup {a}, Paths \subseteq Paths',
         UNCHANGED <<rcvrQueue, pending, shown>>, ListAnswer(a)'
  PROVE  Answers'
<1>1. \A b : ListAnswer(b) => ListAnswer(b)'
  BY DEF ListAnswer, Lists, AllIn
<1>2. replies' \subseteq Replies
  BY DEF Answers
<1>3. \A b \in replies' : ListAnswer(b)'
  BY <1>1 DEF Answers
<1>4. \A k \in 1..Len(rcvrQueue') : ListAnswer(rcvrQueue[k])'
  BY <1>1 DEF Answers
<1>5. pending' # Nothing => ListAnswer(pending)'
  BY <1>1 DEF Answers
<1> QED
  BY <1>2, <1>3, <1>4, <1>5 DEF Answers

------------------------------------------------------------------------------
(* Steps of the window's thread and of Client's queues.                      *)

\* The first of a queue, and the others.
LEMMA QueueIs ==
  ASSUME NEW T, NEW s \in Seq(T), s # <<>>
  PROVE  /\ Head(s) \in T /\ Head(s) = s[1] /\ 1 \in 1..Len(s)
         /\ Tail(s) \in Seq(T)
         /\ \A i \in 1..Len(Tail(s)) : i + 1 \in 1..Len(s) /\ Tail(s)[i] = s[i + 1]
         /\ \A k \in 1..Len(s) : k = 1 \/ \E j \in 1..Len(Tail(s)) : k = j + 1
<1>1. Len(s) \in Nat /\ Len(s) # 0
  OBVIOUS
<1>2. /\ Tail(s) \in Seq(T) /\ Len(Tail(s)) = Len(s) - 1
      /\ \A i \in 1..Len(Tail(s)) : Tail(s)[i] = s[i + 1]
  BY <1>1, HeadTailProperties
<1>3. ASSUME NEW k \in 1..Len(s), k # 1 PROVE \E j \in 1..Len(Tail(s)) : k = j + 1
  <2>1. k - 1 \in 1..Len(Tail(s)) /\ k = (k - 1) + 1
    BY <1>1, <1>2, <1>3
  <2> QED
    BY <2>1
<1>4. Head(s) \in T /\ Head(s) = s[1]
  BY <1>1, HeadTailProperties
<1> QED
  BY <1>1, <1>2, <1>3, <1>4

\* The last of a longer queue, and the others.
LEMMA LongerIs ==
  ASSUME NEW T, NEW s \in Seq(T), NEW e \in T
  PROVE  /\ Append(s, e) \in Seq(T)
         /\ \A i \in 1..Len(s) : i \in 1..Len(Append(s, e)) /\ Append(s, e)[i] = s[i]
         /\ \E i \in 1..Len(Append(s, e)) : Append(s, e)[i] = e
         /\ \A i \in 1..Len(Append(s, e)) : i \in 1..Len(s) \/ Append(s, e)[i] = e
<1>1. /\ Append(s, e) \in Seq(T) /\ Len(Append(s, e)) = Len(s) + 1 /\ Len(s) \in Nat
      /\ \A i \in 1..Len(s) : Append(s, e)[i] = s[i]
      /\ Append(s, e)[Len(s) + 1] = e
  BY AppendProperties
<1>2. Len(s) + 1 \in 1..Len(Append(s, e))
  BY <1>1
<1>3. \A i \in 1..Len(s) : i \in 1..Len(Append(s, e))
  BY <1>1
<1>4. \A i \in 1..Len(Append(s, e)) : i \in 1..Len(s) \/ i = Len(s) + 1
  BY <1>1
<1> QED
  BY <1>1, <1>2, <1>3, <1>4, Zenon

\* A string without a separator is the only one of its list.
LEMMA SplitOne ==
  ASSUME NEW t \in Texts, t # <<>>, ~ Has(t, FILES_SEP)
  PROVE  Split(t, FILES_SEP) = <<t>>
<1>1. <<>> \in Seq(Texts) /\ Append(<<>>, t) = <<t>> /\ <<>> \in Texts
  BY DEF Texts
<1>2. Join(<<t>>) = t
  <2>1. Join(<<t>>) = Terminated(<<>>, FILES_SEP) \o t
    BY <1>1, JoinIs
  <2>2. Terminated(<<>>, FILES_SEP) = <<>>
    BY SeparatorsAre, TerminatedAre
  <2>3. \A T : \A s \in Seq(T) : <<>> \o s = s
    OBVIOUS
  <2>4. <<>> \o t = t
    BY <2>3 DEF Texts
  <2> QED
    BY <2>1, <2>2, <2>4
<1>3. /\ <<t>> \in Lists1 /\ Len(<<t>>) = 1 /\ <<t>>[1] = t
  BY DEF Lists1
<1>4. \A k \in 1..1 : k = 1
  OBVIOUS
<1>5. \A k \in 1..Len(<<t>>) : <<t>>[k] # <<>> /\ ~ Has(<<t>>[k], FILES_SEP)
  BY <1>3, <1>4
<1> QED
  BY <1>2, <1>3, <1>5, SplitJoin

\* The thread takes an answer out of Client's queue.
LEMMA GetMessageStep == IInv /\ GetMessage => IInv'
<1> SUFFICES ASSUME IInv, GetMessage PROVE IInv'
  OBVIOUS
<1>1. /\ UNCHANGED <<uploadFile, listed, selected, selectedE, shown, posted, sndrQueue>>
      /\ UNCHANGED <<stored, up, failed, net, replies>>
      /\ pending = Nothing /\ rcvrQueue # <<>>
      /\ pending' = Head(rcvrQueue) /\ rcvrQueue' = Tail(rcvrQueue)
  BY DEF GetMessage, uiVars, serverVars, faults
<1>2. rcvrQueue \in Seq(Replies) /\ \A k \in 1..Len(rcvrQueue) : ListAnswer(rcvrQueue[k])
  BY DEF IInv, Answers
<1>3. /\ pending' \in Replies /\ pending' = rcvrQueue[1] /\ 1 \in 1..Len(rcvrQueue)
      /\ rcvrQueue' \in Seq(Replies)
      /\ \A i \in 1..Len(rcvrQueue') :
           i + 1 \in 1..Len(rcvrQueue) /\ rcvrQueue'[i] = rcvrQueue[i + 1]
      /\ \A k \in 1..Len(rcvrQueue) : k = 1 \/ \E j \in 1..Len(rcvrQueue') : k = j + 1
  BY <1>1, <1>2, QueueIs
<1>4. \A a : ListAnswer(a) => ListAnswer(a)'
  BY <1>1 DEF ListAnswer, Lists, Paths
<1>5. Answers'
  <2>1. ListAnswer(pending)' /\ \A k \in 1..Len(rcvrQueue') : ListAnswer(rcvrQueue[k])'
    BY <1>2, <1>3, <1>4
  <2>2. \A a \in replies' : ListAnswer(a)'
    BY <1>1, <1>4 DEF IInv, Answers
  <2> QED
    BY <1>1, <1>3, <2>1, <2>2 DEF IInv, Answers
<1>6. NoneLost'
  <2>1. SUFFICES ASSUME up, NEW n \in 1..Len(posted) \ failed, FileIsThere(posted[n].msg)'
                 PROVE  OnWay(n)'
    BY <1>1 DEF NoneLost
  <2>2. FileIsThere(posted[n].msg)
    BY <1>1, <2>1 DEF FileIsThere, Sendable
  <2>3. OnWay(n)
    BY <2>1, <2>2 DEF IInv, NoneLost
  <2>4. ~ Own(pending, n)
    <3>1. pending.n = 0
      BY <1>1 DEF Nothing
    <3> QED
      BY <3>1 DEF Own
  <2>5. (\E k \in 1..Len(rcvrQueue) : Own(rcvrQueue[k], n))
          => Own(pending', n) \/ \E k \in 1..Len(rcvrQueue') : Own(rcvrQueue'[k], n)
    <3>1. SUFFICES ASSUME NEW k \in 1..Len(rcvrQueue), Own(rcvrQueue[k], n), k # 1
                   PROVE  \E j \in 1..Len(rcvrQueue') : Own(rcvrQueue'[j], n)
      BY <1>3
    <3>2. PICK j \in 1..Len(rcvrQueue') : k = j + 1
      BY <1>3, <3>1
    <3>3. rcvrQueue'[j] = rcvrQueue[k]
      BY <1>3, <3>2
    <3> QED
      BY <3>1, <3>3
  <2> QED
    BY <1>1, <2>3, <2>4, <2>5 DEF OnWay
<1> QED
  BY <1>1, <1>5, <1>6, FilesFrame, ShownFrame, PostedFrame, RequestsFrame, BareFrame,
     ReadableFrame, ChosenFrame DEF IInv

\* Whatever is displayed, only what the window shows is another.
LEMMA DisplayedStep ==
  IInv /\ pending # Nothing /\ Displayed /\ Shown' => IInv'
<1>0. SUFFICES ASSUME IInv, Displayed, Shown' PROVE IInv'
  OBVIOUS
<1>1. /\ UNCHANGED <<uploadFile, posted, sndrQueue, rcvrQueue, stored, up, failed, net, replies>>
      /\ pending' = Nothing /\ shown' = Append(shown, pending)
  BY <1>0 DEF Displayed, serverVars, faults
<1>2. shown \in Seq(Replies) /\ pending \in Replies
  BY <1>0 DEF IInv, Answers
<1>3. /\ shown' \in Seq(Replies)
      /\ \A i \in 1..Len(shown) : i \in 1..Len(shown') /\ shown'[i] = shown[i]
      /\ \E i \in 1..Len(shown') : shown'[i] = pending
  BY <1>1, <1>2, LongerIs
<1>4. \A a : ListAnswer(a) => ListAnswer(a)'
  BY <1>1 DEF ListAnswer, Lists, Paths
<1>5. Answers'
  <2>1. Nothing \in Replies
    <3>1. <<>> \in Texts /\ 0 \in Nat /\ FALSE \in BOOLEAN
      BY DEF Texts
    <3> QED
      BY <3>1 DEF Nothing, Replies
  <2>2. \A a \in replies' : ListAnswer(a)'
    BY <1>0, <1>1, <1>4 DEF IInv, Answers
  <2>3. \A k \in 1..Len(rcvrQueue') : ListAnswer(rcvrQueue[k])'
    BY <1>0, <1>1, <1>4 DEF IInv, Answers
  <2>4. replies' \subseteq Replies /\ rcvrQueue' \in Seq(Replies)
    BY <1>0, <1>1 DEF IInv, Answers
  <2> QED
    BY <1>1, <1>3, <2>1, <2>2, <2>3, <2>4, Zenon DEF Answers
<1>6. NoneLost'
  <2>1. SUFFICES ASSUME up, NEW n \in 1..Len(posted) \ failed, FileIsThere(posted[n].msg)'
                 PROVE  OnWay(n)'
    BY <1>1 DEF NoneLost
  <2>2. FileIsThere(posted[n].msg)
    BY <1>1, <2>1 DEF FileIsThere, Sendable
  <2>3. OnWay(n)
    BY <1>0, <2>1, <2>2 DEF IInv, NoneLost
  <2>4. Own(pending, n) \/ (\E k \in 1..Len(shown) : Own(shown[k], n))
          => \E k \in 1..Len(shown') : Own(shown'[k], n)
    BY <1>3, Zenon
  <2> QED
    BY <1>1, <2>3, <2>4 DEF OnWay
<1> QED
  BY <1>0, <1>1, <1>5, <1>6, FilesFrame, PostedFrame, RequestsFrame, BareFrame,
     ReadableFrame, ChosenFrame DEF IInv

\* A list that arrives fills the lists of the window.
LEMMA UpdateListBoxStep ==
  IInv /\ pending # Nothing /\ UpdateListBox(ParseStringMessage(pending.text)) => IInv'
<1> DEFINE m == ParseStringMessage(pending.text)
           b == m["body"]
<1>0. SUFFICES ASSUME IInv, pending # Nothing, UpdateListBox(m) PROVE IInv'
  OBVIOUS
<1>1. /\ m["command"] = <<"32">> /\ Split(b, FILES_SEP)[1] # NA
      /\ listed' = Split(b, FILES_SEP) /\ selected' = <<>> /\ selectedE' = <<>> /\ Displayed
  BY <1>0 DEF UpdateListBox, ListsFiles
<1>2. uploadFile' = uploadFile /\ stored' = stored
  BY <1>1 DEF Displayed, serverVars, faults
<1>3. Lists(m)
  BY <1>0, <1>1 DEF IInv, Answers, ListAnswer
<1> HIDE DEF m
<1>4. b # NA
  <2>1. Split(NA, FILES_SEP) = <<NA>>
    BY NothingIs, SplitOne
  <2>2. <<NA>>[1] = NA
    OBVIOUS
  <2> QED
    BY <1>1, <2>1, <2>2
<1>5. PICK list \in Lists1 : b = Join(list) /\ AllIn(list, Paths) /\ IsInjective(list)
  BY <1>3, <1>4 DEF Lists
<1>6. Files
  BY <1>0 DEF IInv
<1>7. /\ Paths \subseteq Driven
      /\ \A k \in 1..Len(list) : Clean(list[k]) /\ list[k] # <<>>
  BY <1>5, <1>6, PathsAre DEF AllIn
<1> HIDE DEF b
<1>8. Clean(b)
  BY <1>5, <1>7, JoinClean
<1>9. /\ listed' \in Seq(Texts) /\ AllIn(listed', Entries(Paths))
  BY <1>1, <1>5, <1>7, SplitPaths
<1>10. \A k \in 1..Len(listed') : Clean(listed'[k])
  BY <1>1, <1>8, SplitClean
<1>11. \A k \in 1..Len(listed') : PieceOf(listed'[k], Paths)
  <2>1. Paths \subseteq Texts
    BY <1>7 DEF Driven
  <2>2. AllIn(listed', Parts(Paths))
    BY <1>1, <1>5, <2>1, SplitParts
  <2> QED
    BY <1>9, <1>10, <2>2 DEF AllIn, Entries, Parts, PieceOf
<1>12. NoSeparatorInNames => AllIn(listed', Paths) /\ IsInjective(listed')
  <2>1. SUFFICES ASSUME NoSeparatorInNames PROVE AllIn(listed', Paths) /\ IsInjective(listed')
    OBVIOUS
  <2>2. \A k \in 1..Len(list) : list[k] # <<>> /\ ~ Has(list[k], FILES_SEP)
    BY <1>5, <1>6, <1>7, <2>1, PlainPaths DEF AllIn
  <2>3. listed' = list
    BY <1>1, <1>5, <2>2, SplitJoin
  <2> QED
    BY <1>5, <2>3
<1>13. Shown'
  <2>1. Clean(uploadFile')
    BY <1>0, <1>2 DEF IInv, Shown
  <2>2. Paths' = Paths /\ NoSeparatorInNames' = NoSeparatorInNames
    BY <1>2 DEF Paths, NoSeparatorInNames
  <2>3. selected' \in Seq(1..Len(listed')) /\ selectedE' \in Seq(1..Len(listed'))
    BY <1>1
  <2> QED
    BY <1>9, <1>11, <1>12, <2>1, <2>2, <2>3, Zenon DEF Shown
<1> QED
  BY <1>0, <1>1, <1>13, DisplayedStep

\* Another answer changes no list.
LEMMA UpdateStatusbarStep ==
  IInv /\ pending # Nothing /\ UpdateStatusbar(ParseStringMessage(pending.text)) => IInv'
<1> SUFFICES ASSUME IInv, pending # Nothing, UpdateStatusbar(ParseStringMessage(pending.text))
             PROVE  IInv'
  OBVIOUS
<1>1. Displayed /\ UNCHANGED <<uploadFile, listed, selected, selectedE, stored>>
  BY DEF UpdateStatusbar, Displayed, serverVars, faults
<1>2. Shown'
  BY <1>1, ShownFrame DEF IInv
<1> QED
  BY <1>1, <1>2, DisplayedStep

\* What was posted is sent, unless the file to upload is not there.
LEMMA ClientSendStep == IInv /\ ClientSend => IInv'
<1> SUFFICES ASSUME IInv, ClientSend PROVE IInv'
  OBVIOUS
<1> DEFINE h == Head(sndrQueue)
           r == [n |-> h.n, text |-> Sent(h.msg)]
           there == h.msg["command"] # <<"uploadRequest">> \/ Offers(h.msg)
<1>1. /\ UNCHANGED <<uploadFile, listed, selected, selectedE, pending, shown, posted, rcvrQueue>>
      /\ UNCHANGED <<stored, up, failed, replies>>
      /\ sndrQueue # <<>> /\ sndrQueue' = Tail(sndrQueue)
      /\ net' = IF there THEN net \cup {r} ELSE net
  BY DEF ClientSend, uiVars, serverVars, faults
<1>2. r.n = h.n /\ r.text = Sent(h.msg)
  OBVIOUS
<1> DEFINE Q == [n : Nat, msg : Messages]
<1>3. /\ sndrQueue \in Seq(Q)
      /\ \A k \in 1..Len(sndrQueue) : /\ sndrQueue[k].n \in 1..Len(posted)
                                      /\ sndrQueue[k].msg = posted[sndrQueue[k].n].msg
      /\ \A q \in net : /\ q.n \in 1..Len(posted) /\ q.text = Sent(posted[q.n].msg)
                        /\ posted[q.n].msg["command"] = <<"uploadRequest">> =>
                             Offers(posted[q.n].msg)
  BY DEF IInv, Requests
<1> HIDE DEF Q, h, r
<1>4. /\ h = sndrQueue[1] /\ 1 \in 1..Len(sndrQueue)
      /\ sndrQueue' \in Seq(Q)
      /\ \A i \in 1..Len(sndrQueue') :
           i + 1 \in 1..Len(sndrQueue) /\ sndrQueue'[i] = sndrQueue[i + 1]
      /\ \A k \in 1..Len(sndrQueue) : k = 1 \/ \E j \in 1..Len(sndrQueue') : k = j + 1
  BY <1>1, <1>3, QueueIs DEF h
<1>5. h.n \in 1..Len(posted) /\ h.msg = posted[h.n].msg
  BY <1>3, <1>4
<1>6. Requests'
  <2>1. \A k \in 1..Len(sndrQueue') : /\ sndrQueue'[k].n \in 1..Len(posted)
                                      /\ sndrQueue'[k].msg = posted[sndrQueue'[k].n].msg
    BY <1>3, <1>4
  <2>2. there => /\ r.n \in 1..Len(posted) /\ r.text = Sent(posted[r.n].msg)
                 /\ posted[r.n].msg["command"] = <<"uploadRequest">> =>
                      Offers(posted[r.n].msg)
    BY <1>2, <1>5
  <2> HIDE DEF there
  <2>3. \A q \in net' : q \in net \/ (there /\ q = r)
    BY <1>1
  <2>4. \A q \in net' : /\ q.n \in 1..Len(posted) /\ q.text = Sent(posted[q.n].msg)
                        /\ posted[q.n].msg["command"] = <<"uploadRequest">> =>
                             Offers(posted[q.n].msg)
    BY <1>3, <2>2, <2>3, Zenon
  <2> QED
    BY <1>1, <1>4, <2>1, <2>4 DEF Requests, Q
<1>7. NoneLost'
  <2>1. SUFFICES ASSUME up, NEW n \in 1..Len(posted) \ failed, FileIsThere(posted[n].msg)'
                 PROVE  OnWay(n)'
    BY <1>1 DEF NoneLost
  <2>2. FileIsThere(posted[n].msg)
    BY <1>1, <2>1 DEF FileIsThere, Sendable
  <2>3. OnWay(n)
    BY <2>1, <2>2 DEF IInv, NoneLost
  <2>4. posted[n].msg["command"] = <<"uploadRequest">> => Offers(posted[n].msg)
    BY <2>2 DEF FileIsThere
  <2>5. (\E k \in 1..Len(sndrQueue) : sndrQueue[k].n = n)
          => (\E k \in 1..Len(sndrQueue') : sndrQueue'[k].n = n) \/ \E q \in net' : q.n = n
    <3>1. SUFFICES ASSUME NEW k \in 1..Len(sndrQueue), sndrQueue[k].n = n
                   PROVE  \/ \E j \in 1..Len(sndrQueue') : sndrQueue'[j].n = n
                          \/ \E q \in net' : q.n = n
      OBVIOUS
    <3>2. CASE k = 1
      <4>1. h.n = n
        BY <1>4, <3>1, <3>2
      <4>2. r \in net'
        BY <1>1, <1>5, <2>4, <4>1
      <4> QED
        BY <1>2, <4>1, <4>2
    <3>3. CASE k # 1
      <4>1. PICK j \in 1..Len(sndrQueue') : k = j + 1
        BY <1>4, <3>3
      <4>2. sndrQueue'[j] = sndrQueue[k]
        BY <1>4, <4>1
      <4> QED
        BY <3>1, <4>2
    <3> QED
      BY <3>2, <3>3
  <2>6. (\E q \in net : q.n = n) => \E q \in net' : q.n = n
    BY <1>1
  <2> QED
    BY <1>1, <2>3, <2>5, <2>6 DEF OnWay
<1>8. Readable'
  <2>1. Asked(posted[h.n].msg, posted[h.n].chosen)
    BY <1>5 DEF IInv, Posted
  <2>2. InRange(r.text)
    BY <1>2, <1>5, <2>1, SentIs
  <2> QED
    BY <1>1, <2>2 DEF IInv, Readable
<1> QED
  BY <1>1, <1>6, <1>7, <1>8, FilesFrame, ShownFrame, PostedFrame, AnswersFrame, BareFrame,
     ChosenFrame DEF IInv

\* An answer arrives in Client's queue.
LEMMA ReceiveStep == ASSUME NEW a \in replies PROVE IInv /\ Receive(a) => IInv'
<1> SUFFICES ASSUME IInv, Receive(a) PROVE IInv'
  OBVIOUS
<1>1. /\ UNCHANGED <<uploadFile, listed, selected, selectedE, pending, shown, posted, sndrQueue>>
      /\ UNCHANGED <<stored, up, failed, net>>
      /\ replies' = replies \ {a} /\ rcvrQueue' = Append(rcvrQueue, a)
  BY DEF Receive, uiVars, serverVars, faults
<1>2. /\ replies \subseteq Replies /\ (\A b \in replies : ListAnswer(b))
      /\ rcvrQueue \in Seq(Replies) /\ \A k \in 1..Len(rcvrQueue) : ListAnswer(rcvrQueue[k])
      /\ pending \in Replies /\ (pending # Nothing => ListAnswer(pending)) /\ shown \in Seq(Replies)
  BY DEF IInv, Answers
<1>3. a \in Replies /\ ListAnswer(a)
  BY <1>2
<1>4. /\ rcvrQueue' \in Seq(Replies)
      /\ \A i \in 1..Len(rcvrQueue) : i \in 1..Len(rcvrQueue') /\ rcvrQueue'[i] = rcvrQueue[i]
      /\ \E i \in 1..Len(rcvrQueue') : rcvrQueue'[i] = a
      /\ \A i \in 1..Len(rcvrQueue') : i \in 1..Len(rcvrQueue) \/ rcvrQueue'[i] = a
  <2> DEFINE longer == Append(rcvrQueue, a)
  <2>1. rcvrQueue \in Seq(Replies) /\ a \in Replies
    BY <1>2, <1>3
  <2>2. /\ longer \in Seq(Replies)
        /\ \A i \in 1..Len(rcvrQueue) : i \in 1..Len(longer) /\ longer[i] = rcvrQueue[i]
        /\ \E i \in 1..Len(longer) : longer[i] = a
        /\ \A i \in 1..Len(longer) : i \in 1..Len(rcvrQueue) \/ longer[i] = a
    BY <2>1, LongerIs
  <2>3. rcvrQueue' = longer
    BY <1>1
  <2> QED
    BY <2>2, <2>3, Zenon
<1>5. \A b : ListAnswer(b) => ListAnswer(b)'
  BY <1>1 DEF ListAnswer, Lists, Paths
<1>6. Answers'
  <2>1. \A k \in 1..Len(rcvrQueue') : ListAnswer(rcvrQueue[k])'
    <3>1. SUFFICES ASSUME NEW k \in 1..Len(rcvrQueue') PROVE ListAnswer(rcvrQueue'[k])
      BY <1>5
    <3>2. CASE k \in 1..Len(rcvrQueue)
      BY <1>2, <1>4, <3>2
    <3>3. CASE rcvrQueue'[k] = a
      BY <1>3, <3>3
    <3> QED
      BY <1>4, <3>2, <3>3
  <2>2. \A b \in replies' : ListAnswer(b)'
    BY <1>1, <1>2, <1>5
  <2>3. pending' # Nothing => ListAnswer(pending)'
    BY <1>1, <1>2, <1>5
  <2>4. replies' \subseteq Replies /\ pending' \in Replies /\ shown' \in Seq(Replies)
    BY <1>1, <1>2
  <2> QED
    BY <1>4, <2>1, <2>2, <2>3, <2>4 DEF Answers
<1>7. NoneLost'
  <2>1. SUFFICES ASSUME up, NEW n \in 1..Len(posted) \ failed, FileIsThere(posted[n].msg)'
                 PROVE  OnWay(n)'
    BY <1>1 DEF NoneLost
  <2>2. FileIsThere(posted[n].msg)
    BY <1>1, <2>1 DEF FileIsThere, Sendable
  <2>3. OnWay(n)
    BY <2>1, <2>2 DEF IInv, NoneLost
  <2>4. (\E b \in replies : Own(b, n))
          => \/ \E b \in replies' : Own(b, n)
             \/ \E k \in 1..Len(rcvrQueue') : Own(rcvrQueue'[k], n)
    <3>1. SUFFICES ASSUME NEW b \in replies, Own(b, n), b \notin replies'
                   PROVE  \E k \in 1..Len(rcvrQueue') : Own(rcvrQueue'[k], n)
      OBVIOUS
    <3>2. b = a
      BY <1>1, <3>1
    <3> QED
      BY <1>4, <3>1, <3>2
  <2>5. (\E k \in 1..Len(rcvrQueue) : Own(rcvrQueue[k], n))
          => \E k \in 1..Len(rcvrQueue') : Own(rcvrQueue'[k], n)
    BY <1>4
  <2> QED
    BY <1>1, <2>3, <2>4, <2>5 DEF OnWay
<1> QED
  BY <1>1, <1>6, <1>7, FilesFrame, ShownFrame, PostedFrame, RequestsFrame, BareFrame,
     ReadableFrame, ChosenFrame DEF IInv

------------------------------------------------------------------------------
(* Steps of the server's handlers.                                           *)

\* The server ends on a name without an extension, and nothing else ends it.
LEMMA CrashOnUploadStep ==
  ASSUME NEW r \in net
  PROVE  IInv /\ CrashOnUpload(r, ParseStringMessage(r.text)) => IInv'
<1> DEFINE m == ParseStringMessage(r.text)
<1> SUFFICES ASSUME IInv, CrashOnUpload(r, m) PROVE IInv'
  OBVIOUS
<1>1. /\ UNCHANGED <<uploadFile, listed, selected, selectedE, pending, shown, posted, sndrQueue>>
      /\ UNCHANGED <<rcvrQueue, stored, failed, replies>>
      /\ up' = FALSE /\ net' = {}
      /\ m["command"] = <<"02">> /\ ~ HasExtension(GetName(m["fileName"]))
  BY DEF CrashOnUpload, clientVars, uiVars, faults
<1>2. NoneLost'
  BY <1>1 DEF NoneLost
<1>3. Requests'
  BY <1>1, FewerRequests DEF IInv
<1> DEFINE q == posted[r.n].msg
<1>4. /\ r.n \in 1..Len(posted) /\ q["command"] = <<"uploadRequest">>
      /\ q["fileName"] = m["fileName"] /\ m \in CleanMessages
  BY <1>1, RequestIs
<1> HIDE DEF m
<1>5. m["fileName"] \in Texts
  BY <1>4, FieldNames DEF CleanMessages, Messages
<1>6. NoExtension(m["fileName"])
  BY <1>1, <1>5, BareName
<1>7. Bare'
  BY <1>1, <1>4, <1>6 DEF Bare
<1>8. Readable'
  <2>1. net' \subseteq net /\ replies' \subseteq replies
    BY <1>1
  <2> QED
    BY <2>1, ReadableFrame DEF IInv
<1> QED
  BY <1>1, <1>2, <1>3, <1>7, <1>8, FilesFrame, ShownFrame, PostedFrame, AnswersFrame, ChosenFrame
     DEF IInv

\* A path that is none gets no answer.
LEMMA NoSuchFileStep ==
  ASSUME NEW r \in net
  PROVE  IInv /\ NoSuchFile(r, ParseStringMessage(r.text)) => IInv'
<1> DEFINE m == ParseStringMessage(r.text)
<1> SUFFICES ASSUME IInv, NoSuchFile(r, m) PROVE IInv'
  OBVIOUS
<1>1. /\ UNCHANGED <<uploadFile, listed, selected, selectedE, pending, shown, posted, sndrQueue>>
      /\ UNCHANGED <<rcvrQueue, stored, replies, up, failed>>
      /\ net' = net \ {r}
      /\ m["command"] = <<"14">> /\ m["fileName"] \notin Paths
  BY DEF NoSuchFile, clientVars, uiVars, serverVars, faults
<1>2. /\ posted[r.n].msg["command"] = <<"downloadRequest">>
      /\ posted[r.n].msg["fileName"] \notin Paths
  BY <1>1, RequestIs
<1> HIDE DEF m
<1>3. ~ FileIsThere(posted[r.n].msg)
  BY <1>2 DEF FileIsThere, Sendable, Paths
<1>4. Requests'
  <2>1. net' \subseteq net
    BY <1>1
  <2> QED
    BY <1>1, <2>1, FewerRequests DEF IInv
<1>5. NoneLost'
  <2>1. SUFFICES ASSUME up, NEW n \in 1..Len(posted) \ failed, FileIsThere(posted[n].msg)'
                 PROVE  OnWay(n)'
    BY <1>1 DEF NoneLost
  <2>2. FileIsThere(posted[n].msg)
    BY <1>1, <2>1 DEF FileIsThere, Sendable
  <2>3. OnWay(n)
    BY <1>1, <2>1, <2>2 DEF IInv, NoneLost
  <2>4. (\E s \in net : s.n = n) => \E s \in net' : s.n = n
    BY <1>1, <1>3, <2>2
  <2> QED
    BY <1>1, <2>3, <2>4 DEF OnWay
<1>6. Readable'
  <2>1. net' \subseteq net /\ replies' \subseteq replies
    BY <1>1
  <2> QED
    BY <2>1, ReadableFrame DEF IInv
<1> QED
  BY <1>1, <1>4, <1>5, FilesFrame, ShownFrame, PostedFrame, AnswersFrame, BareFrame,
     <1>6, ChosenFrame DEF IInv

\* An answer to a request that changes no file of the server.
LEMMA AnsweredStep ==
  ASSUME NEW r \in net, NEW m, m \in CleanMessages, m["command"] # <<>>,
         m["command"] = <<"32">> => Lists(m)
  PROVE  IInv /\ Answered(r, m) /\ UNCHANGED <<serverVars, faults>> => IInv'
<1> DEFINE text == CreateHTTPMessage(Turned(m))
           a == [n |-> r.n, dep |-> FALSE, text |-> text]
<1>0. SUFFICES ASSUME IInv, Answered(r, m), UNCHANGED <<serverVars, faults>> PROVE IInv'
  OBVIOUS
<1>1. /\ UNCHANGED <<uploadFile, listed, selected, selectedE, pending, shown, posted, sndrQueue>>
      /\ UNCHANGED <<rcvrQueue, stored, up, failed>>
      /\ net' = net \ {r} /\ replies' = replies \cup {a}
  BY <1>0 DEF Answered, Answer, clientVars, uiVars, serverVars, faults, Turned
<1>2. Own(a, r.n) /\ a.text = text
  BY DEF Own
<1>3. r.n \in Nat
  BY <1>0 DEF IInv, Requests
<1>4. /\ text \in Texts /\ InRange(text)
      /\ ParseStringMessage(text)["command"] = m["command"]
      /\ ParseStringMessage(text)["body"] = Filled(m, "body")
  BY TurnedIs
<1>5. a \in Replies
  BY <1>3, <1>4 DEF Replies
<1> HIDE DEF a, text
<1>6. ListAnswer(a)
  <2>1. SUFFICES ASSUME m["command"] = <<"32">> PROVE Lists(ParseStringMessage(text))
    BY <1>2, <1>4 DEF ListAnswer
  <2>2. \/ Filled(m, "body") = NA
        \/ Lists(m) /\ (Filled(m, "body") = m["body"] \/ Filled(m, "body") = NA)
    BY <2>1 DEF Filled, Default
  <2> QED
    BY <1>4, <2>2 DEF Lists
<1>7. Answers'
  <2>1. Paths' = Paths
    BY <1>1 DEF Paths
  <2>2. ListAnswer(a)'
    <3>1. a' = a
      BY <1>1, <2>1 DEF a, text
    <3> QED
      BY <1>6, <2>1, <3>1 DEF ListAnswer, Lists
  <2> QED
    BY <1>0, <1>1, <1>5, <2>1, <2>2, OneMoreAnswer DEF IInv
<1>8. Requests'
  <2>1. net' \subseteq net
    BY <1>1
  <2> QED
    BY <1>0, <1>1, <2>1, FewerRequests DEF IInv
<1>9. NoneLost'
  <2>1. \A k \in 1..Len(posted) : FileIsThere(posted[k].msg)' => FileIsThere(posted[k].msg)
    BY <1>1 DEF FileIsThere, Sendable
  <2> QED
    BY <1>0, <1>1, <1>2, <2>1, AnsweredNoneLost
<1>10. Readable'
  BY <1>0, <1>1, <1>2, <1>4 DEF IInv, Readable
<1> QED
  BY <1>0, <1>1, <1>7, <1>8, <1>9, <1>10, FilesFrame, ShownFrame, PostedFrame, BareFrame,
     ChosenFrame DEF IInv

\* The answer that is made of a request: another command, and another file or body.
AnswerTo(m, w, field, value) == [m EXCEPT !["command"] = <<w>>, ![field] = value]

\* Such an answer is a message too.
LEMMA AnswerIs ==
  ASSUME NEW m \in CleanMessages, NEW w \in {"05", "15", "32"}, NEW field \in {"fileName", "body"},
         NEW value, Clean(value)
  PROVE  /\ AnswerTo(m, w, field, value) \in CleanMessages
         /\ AnswerTo(m, w, field, value)["command"] = <<w>>
         /\ AnswerTo(m, w, field, value)["command"] # <<>>
         /\ AnswerTo(m, w, field, value)[field] = value
<1> DEFINE v == <<w>>
           a == With(m, "command", v)
           x == With(a, field, value)
           D == ToSet(Fields)
<1>1. Clean(v) /\ v # <<>>
  BY WordIs
<1>2. AnswerTo(m, w, field, value) = x
  <2>1. m \in [D -> Texts]
    BY DEF CleanMessages, Messages
  <2>2. AnswerTo(m, w, field, value) = [m EXCEPT !["command"] = v, ![field] = value]
    BY DEF AnswerTo
  <2> HIDE DEF D, v
  <2> QED
    BY <2>1, <2>2 DEF With
<1>3. field \in D /\ "command" # field
  BY FieldNames DEF D
<1> HIDE DEF v
<1>4. a \in CleanMessages /\ a["command"] = v
  BY <1>1, FieldNames, WithIs
<1> HIDE DEF a
<1>5. /\ x \in CleanMessages /\ x[field] = value
      /\ \A other \in D : other # field => x[other] = a[other]
  BY <1>3, <1>4, WithIs
<1>6. x["command"] = v
  BY <1>3, <1>4, <1>5, FieldNames DEF D
<1> QED
  BY <1>1, <1>2, <1>5, <1>6 DEF v

\* An acknowledgement of a file is a message, and lists no files.
LEMMA AcknowledgedIs ==
  ASSUME NEW m \in CleanMessages, NEW path, Clean(path), NEW n \in Nat, NEW dep \in BOOLEAN,
         NEW r, r.n = n
  PROVE  LET a == Answer(r, Acknowledged(m, path), dep)
         IN  /\ a \in Replies /\ a.n = n /\ a.dep = dep /\ InRange(a.text)
             /\ ParseStringMessage(a.text)["command"] # <<"32">>
<1> DEFINE value == GetFullFileSpec(DownloadPath \o GetName(path))
           x == AnswerTo(m, "15", "fileName", value)
           text == CreateHTTPMessage(Turned(x))
           a == [n |-> r.n, dep |-> dep, text |-> text]
<1>1. Answer(r, Acknowledged(m, path), dep) = a
  BY DEF Answer, Acknowledged, AnswerTo, Turned
<1>2. a.n = r.n /\ a.dep = dep /\ a.text = text
  OBVIOUS
<1>3. Clean(value)
  <2>1. Clean(GetName(path))
    BY GetNameIs DEF Clean
  <2> QED
    BY <2>1, RepoIs, CleanConcat, FullClean
<1> HIDE DEF value
<1>4. x \in CleanMessages /\ x["command"] = <<"15">> /\ x["command"] # <<>>
  <2>1. "15" \in {"05", "15", "32"} /\ "fileName" \in {"fileName", "body"}
    OBVIOUS
  <2>2. \A v : Clean(v) =>
          /\ AnswerTo(m, "15", "fileName", v) \in CleanMessages
          /\ AnswerTo(m, "15", "fileName", v)["command"] = <<"15">>
          /\ AnswerTo(m, "15", "fileName", v)["command"] # <<>>
          /\ AnswerTo(m, "15", "fileName", v)["fileName"] = v
    BY <2>1, AnswerIs, Zenon
  <2> QED
    BY <1>3, <2>2, Zenon DEF x
<1> HIDE DEF x
<1>5. text \in Texts /\ InRange(text) /\ ParseStringMessage(text)["command"] = <<"15">>
  BY <1>4, TurnedIs
<1>6. <<"15">> # <<"32">>
  OBVIOUS
<1>7. a \in Replies
  BY <1>2, <1>5 DEF Replies
<1> HIDE DEF a, text
<1> QED
  BY <1>1, <1>2, <1>5, <1>6, <1>7

\* Of a file that there is and its dependencies, those that get through are acknowledged.
LEMMA SendFileStep ==
  ASSUME NEW r \in net
  PROVE  IInv /\ SendFile(r, ParseStringMessage(r.text)) => IInv'
<1> DEFINE m == ParseStringMessage(r.text)
           path == m["fileName"]
           files == Needed(path) \cap Sendable
           ack(q) == Answer(r, Acknowledged(m, q), q # path)
<1>0. SUFFICES ASSUME IInv, SendFile(r, m) PROVE IInv'
  OBVIOUS
<1>1. /\ UNCHANGED <<uploadFile, listed, selected, selectedE, pending, shown, posted, sndrQueue>>
      /\ UNCHANGED <<rcvrQueue, stored, up>>
      /\ net' = net \ {r} /\ m["command"] = <<"14">> /\ path \in Paths
  BY <1>0 DEF SendFile, clientVars, uiVars, serverVars
<1>2. PICK got \in SUBSET files :
        /\ replies' = replies \cup {ack(q) : q \in got}
        /\ failed' = IF path \in files \ got THEN failed \cup {r.n} ELSE failed
  BY <1>0 DEF SendFile
<1>3. /\ m \in CleanMessages /\ r.n \in 1..Len(posted)
      /\ posted[r.n].msg["command"] = <<"downloadRequest">>
      /\ posted[r.n].msg["fileName"] \in Paths => path = posted[r.n].msg["fileName"]
  BY <1>0, <1>1, RequestIs
<1> HIDE DEF m, path
<1>4. got \subseteq Paths
  BY <1>2 DEF Needed
<1>5. \A q \in got : /\ ack(q) \in Replies /\ ack(q).n = r.n /\ ack(q).dep = (q # path)
                     /\ InRange(ack(q).text)
                     /\ ParseStringMessage(ack(q).text)["command"] # <<"32">>
  <2>1. SUFFICES ASSUME NEW q \in got
                 PROVE  /\ ack(q) \in Replies /\ ack(q).n = r.n /\ ack(q).dep = (q # path)
                        /\ InRange(ack(q).text)
                        /\ ParseStringMessage(ack(q).text)["command"] # <<"32">>
    OBVIOUS
  <2>2. Clean(q)
    BY <1>0, <1>4, PathsAre DEF IInv
  <2>3. r.n \in Nat
    BY <1>3
  <2> DEFINE dep == q # path
  <2>4. dep \in BOOLEAN /\ m \in CleanMessages
    BY <1>3
  <2> HIDE DEF ack, dep
  <2>5. LET a == Answer(r, Acknowledged(m, q), dep)
        IN  /\ a \in Replies /\ a.n = r.n /\ a.dep = dep /\ InRange(a.text)
            /\ ParseStringMessage(a.text)["command"] # <<"32">>
    BY <2>2, <2>3, <2>4, AcknowledgedIs
  <2>6. ack(q) = Answer(r, Acknowledged(m, q), dep)
    BY DEF ack, dep
  <2> QED
    BY <2>5, <2>6, Zenon DEF dep
<1>6. Answers'
  <2> HIDE DEF ack
  <2>1. \A b : ListAnswer(b) => ListAnswer(b)'
    BY <1>1 DEF ListAnswer, Lists, Paths
  <2>2. \A b \in replies' : b \in replies \/ \E q \in got : b = ack(q)
    BY <1>2
  <2>3. replies' \subseteq Replies
    BY <1>0, <1>5, <2>2 DEF IInv, Answers
  <2>4. \A b \in replies' : ListAnswer(b)
    BY <1>0, <1>5, <2>2 DEF IInv, Answers, ListAnswer
  <2>5. \A b \in replies' : ListAnswer(b)'
    BY <2>1, <2>4
  <2> QED
    BY <1>0, <1>1, <2>1, <2>3, <2>5 DEF IInv, Answers
<1>7. Readable'
  <2> HIDE DEF ack
  <2> QED
    BY <1>0, <1>1, <1>2, <1>5 DEF IInv, Readable
<1>8. Requests'
  <2>1. net' \subseteq net
    BY <1>1
  <2> QED
    BY <1>0, <1>1, <2>1, FewerRequests DEF IInv
<1>9. Bare'
  <2>1. failed \subseteq failed'
    BY <1>2
  <2> QED
    BY <1>0, <1>1, <2>1 DEF IInv, Bare
<1>10. NoneLost'
  <2> HIDE DEF ack
  <2>1. SUFFICES ASSUME up, NEW n \in 1..Len(posted) \ failed', FileIsThere(posted[n].msg)
                 PROVE  OnWay(n)'
    BY <1>1 DEF NoneLost, FileIsThere, Sendable
  <2>2. n \notin failed
    BY <1>2, <2>1
  <2>3. OnWay(n)
    BY <1>0, <2>1, <2>2 DEF IInv, NoneLost
  <2>4. CASE n = r.n
    <3>1. <<"downloadRequest">> # <<"uploadRequest">>
      OBVIOUS
    <3>2. posted[n].msg["fileName"] \in Sendable
      BY <1>3, <2>1, <2>4, <3>1 DEF FileIsThere
    <3>3. Sendable \subseteq Paths
      BY DEF Sendable, Paths
    <3>4. path \in Sendable
      BY <1>3, <2>4, <3>2, <3>3
    <3>5. path \in files
      BY <1>1, <3>4 DEF Needed
    <3>6. path \in got
      BY <1>2, <2>1, <2>4, <3>5
    <3>7. Own(ack(path), n) /\ ack(path) \in replies'
      BY <1>2, <1>5, <2>4, <3>6 DEF Own
    <3> QED
      BY <3>7 DEF OnWay
  <2>5. CASE n # r.n
    <3>1. (\E q \in net : q.n = n) => \E q \in net' : q.n = n
      BY <1>1, <2>5
    <3>2. (\E b \in replies : Own(b, n)) => \E b \in replies' : Own(b, n)
      BY <1>2
    <3> QED
      BY <1>1, <2>3, <3>1, <3>2 DEF OnWay
  <2> QED
    BY <2>4, <2>5
<1> QED
  BY <1>0, <1>1, <1>6, <1>7, <1>8, <1>9, <1>10, FilesFrame, ShownFrame, PostedFrame, ChosenFrame
     DEF IInv

\* The list of the files there are, or "NA" if there is none.
LEMMA ListFilesStep ==
  ASSUME NEW r \in net
  PROVE  IInv /\ ListFiles(r, ParseStringMessage(r.text)) => IInv'
<1> DEFINE m == ParseStringMessage(r.text)
           value == IF AllFiles = {} THEN NA ELSE Join(SetToSeq(AllFiles))
           x == AnswerTo(m, "32", "body", value)
<1>0. SUFFICES ASSUME IInv, ListFiles(r, m) PROVE IInv'
  OBVIOUS
<1>1. Answered(r, x) /\ UNCHANGED <<serverVars, faults>>
  BY <1>0 DEF ListFiles, AnswerTo
<1>2. m \in CleanMessages
  BY <1>0, RequestIs
<1> HIDE DEF m
<1>3. /\ Clean(value)
      /\ \/ value = NA
         \/ \E list \in Lists1 : value = Join(list) /\ AllIn(list, Paths) /\ IsInjective(list)
  <2>1. CASE AllFiles = {}
    BY <2>1, NothingIs
  <2>2. CASE AllFiles # {}
    <3>1. /\ IsFiniteSet(Paths) /\ Paths \subseteq Texts
          /\ \A p \in Paths : Clean(p)
      BY <1>0, PathsAre DEF IInv
    <3>2. AllFiles \subseteq Paths
      BY DEF AllFiles
    <3>3. IsFiniteSet(AllFiles) /\ AllFiles \subseteq Texts
      BY <3>1, <3>2, FS_Subset
    <3> DEFINE list == SetToSeq(AllFiles)
    <3>4. list \in Lists1 /\ AllIn(list, AllFiles) /\ IsInjective(list)
      BY <2>2, <3>3, EnumerationIs
    <3>5. value = Join(list)
      BY <2>2
    <3> HIDE DEF list, value
    <3>6. AllIn(list, Paths) /\ \A k \in 1..Len(list) : Clean(list[k])
      BY <3>1, <3>2, <3>4 DEF AllIn
    <3>7. Clean(Join(list))
      BY <3>4, <3>6, JoinClean
    <3> QED
      BY <3>4, <3>5, <3>6, <3>7
  <2> QED
    BY <2>1, <2>2
<1> HIDE DEF value
<1>4. x \in CleanMessages /\ x["command"] # <<>> /\ x["body"] = value
  <2>1. "32" \in {"05", "15", "32"} /\ "body" \in {"fileName", "body"}
    OBVIOUS
  <2>2. \A v : Clean(v) =>
          /\ AnswerTo(m, "32", "body", v) \in CleanMessages
          /\ AnswerTo(m, "32", "body", v)["command"] = <<"32">>
          /\ AnswerTo(m, "32", "body", v)["command"] # <<>>
          /\ AnswerTo(m, "32", "body", v)["body"] = v
    BY <1>2, <2>1, AnswerIs, Zenon
  <2> QED
    BY <1>3, <2>2, Zenon DEF x
<1> HIDE DEF x
<1>5. Lists(x)
  BY <1>3, <1>4 DEF Lists
<1> QED
  BY <1>0, <1>1, <1>4, <1>5, AnsweredStep

\* What the server reads as the dependencies of an upload is what was chosen.
LEMMA DependenciesAre ==
  ASSUME Files, NoSeparatorInNames, NEW q, NEW c, Asked(q, c),
         q["command"] = <<"uploadRequest">>, NEW m, m["body"] = Filled(q, "body")
  PROVE  Dependencies(m) = IF c = {} THEN {Front(NA)} ELSE c
<1> DEFINE b == q["body"]
<1>1. Body(b, c) /\ c \subseteq Paths
  BY DEF Asked
<1> HIDE DEF b
<1>2. b # <<>> => m["body"] = b
  BY DEF Filled, b
<1>3. Dependencies(m) = IF m["body"] = NA THEN {} ELSE ToSet(Split(m["body"], FILES_SEP))
  BY DEF Dependencies
<1>4. CASE c = {} /\ b = Front(NA)
  <2> DEFINE n == <<"N">>
  <2>1. b = n /\ b # <<>> /\ b # NA /\ b \in Texts /\ ~ Has(b, FILES_SEP)
    BY <1>4, NothingIs
  <2>2. Split(b, FILES_SEP) = <<b>>
    BY <2>1, SplitOne
  <2>3. \A x : ToSet(<<x>>) = {x}
    BY DEF ToSet
  <2>4. Dependencies(m) = {b}
    BY <1>2, <1>3, <2>1, <2>2, <2>3
  <2> QED
    BY <1>4, <2>4
<1>5. ASSUME NEW list \in Lists1, b = Join(list), ToSet(list) = c
      PROVE  c # {} /\ Dependencies(m) = c
  <2>1. /\ Len(list) \in Nat /\ Len(list) \in 1..Len(list) /\ list \in Seq(Texts)
        /\ \A k \in 1..Len(list) : list[k] \in c
    <3>1. list \in Seq(Texts) /\ Len(list) \in 1..Len(list)
      BY DEF Lists1
    <3>2. Len(list) \in Nat /\ DOMAIN list = 1..Len(list)
      BY <3>1
    <3>3. \A k \in 1..Len(list) : list[k] \in c
      BY <1>5, <3>2 DEF ToSet
    <3> QED
      BY <3>1, <3>2, <3>3
  <2>2. \A p \in c : Clean(p) /\ p # <<>> /\ Has(p, "C:") /\ ~ Has(p, FILES_SEP)
    BY <1>1, PathsAre, PlainPaths
  <2>3. \A k \in 1..Len(list) : list[k] # <<>> /\ ~ Has(list[k], FILES_SEP) /\ Clean(list[k])
    BY <2>1, <2>2
  <2>4. Split(b, FILES_SEP) = list
    BY <1>5, <2>3, SplitJoin
  <2>5. list[Len(list)] # <<>> /\ Has(list[Len(list)], "C:")
    BY <2>1, <2>2
  <2>6. b # <<>> /\ Has(b, "C:")
    BY <1>5, <2>3, <2>5, JoinClean
  <2>7. b # NA
    BY <2>6, NothingIs
  <2> QED
    BY <1>2, <1>3, <1>5, <2>1, <2>4, <2>6, <2>7
<1>6. CASE \E list \in Lists1 : b = Join(list) /\ ToSet(list) = c
  BY <1>5, <1>6
<1> QED
  BY <1>1, <1>4, <1>6 DEF Body

\* A path that the server makes of another time stood in no list.
LEMMA NewPath ==
  ASSUME Files, NEW n, IsName(n), NEW t, IsTime(t), t \notin {f.time : f \in stored}
  PROVE  ~ PieceOf(StoredPath(n, t), Paths)
<1>1. SUFFICES ASSUME PieceOf(StoredPath(n, t), Paths) PROVE FALSE
  OBVIOUS
<1>2. Has(StoredPath(n, t), "C:")
  BY StoredPathIs
<1>3. PICK p \in Paths : Begins(StoredPath(n, t), p)
  BY <1>1, <1>2 DEF PieceOf, Entry
<1>4. PICK f \in stored : p = f.path
  BY DEF Paths
<1> DEFINE g == GetName(f.local)
           u == f.time
<1>5. IsName(g) /\ IsTime(u) /\ p = StoredPath(g, u)
  BY <1>4 DEF Files
<1> HIDE DEF g, u
<1>6. t = u
  BY <1>3, <1>5, OtherTime
<1> QED
  BY <1>6 DEF u

\* A file is stored at another time: what is known of the others stays so.
LEMMA StoredStep ==
  ASSUME IInv, NEW r \in net, NEW m, m = ParseStringMessage(r.text), m["command"] = <<"02">>,
         NEW t \in OtherTimes, NEW empty \in BOOLEAN,
         stored' = stored \cup {Uploaded(r, m, t, empty)},
         UNCHANGED <<uploadFile, listed, selected, selectedE, posted>>
  PROVE  /\ Files' /\ Shown' /\ Posted' /\ DependenciesAsChosen'
         /\ Paths \subseteq Paths' /\ Clean(StoredPath(GetName(m["fileName"]), t))
         /\ \A k \in 1..Len(posted) :
              FileIsThere(posted[k].msg)' => FileIsThere(posted[k].msg)
<1> DEFINE name == GetName(m["fileName"])
           q == posted[r.n].msg
           c == posted[r.n].chosen
           path == StoredPath(name, t)
           new == Uploaded(r, m, t, empty)
<1>1. t \in Times /\ t \notin {f.time : f \in stored}
  BY DEF OtherTimes
<1>2. /\ r.n \in 1..Len(posted) /\ Asked(q, c) /\ m \in CleanMessages
      /\ q["command"] = <<"uploadRequest">> /\ q["fileName"] \in LocalFiles
      /\ m["fileName"] = q["fileName"] /\ m["body"] = Filled(q, "body")
  BY RequestIs
<1>3. /\ new.path = path /\ new.time = t /\ new.local = m["fileName"]
      /\ new.deps = Dependencies(m) /\ new.n = r.n /\ new.empty = empty
  BY DEF Uploaded
<1>4. stored' = stored \cup {new}
  OBVIOUS
<1>5. IsName(name) /\ IsTime(t)
  BY <1>1, <1>2, PathsAssumption, TimesAssumption, LocalName
<1> HIDE DEF name, q, c, new
<1>6. Clean(path)
  BY <1>5, StoredPathIs
<1>7. Paths' = Paths \cup {path}
  BY <1>3, <1>4 DEF Paths
<1>8. NoSeparatorInNames' => NoSeparatorInNames
  BY <1>4 DEF NoSeparatorInNames
<1>9. Files
  BY DEF IInv
<1>10. ~ PieceOf(path, Paths)
  BY <1>1, <1>5, <1>9, NewPath
<1> HIDE DEF path
<1>11. Files'
  <2>1. IsFiniteSet(stored')
    BY <1>4, <1>9, FS_AddElement DEF Files
  <2>2. \A f \in stored' : f \in stored \/ f = new
    BY <1>4
  <2>3. /\ IsName(GetName(new.local)) /\ IsTime(new.time)
        /\ new.path = StoredPath(GetName(new.local), new.time) /\ new.n \in 1..Len(posted)
    BY <1>2, <1>3, <1>5 DEF name, path
  <2>4. \A f \in stored : /\ IsName(GetName(f.local)) /\ IsTime(f.time)
                          /\ f.path = StoredPath(GetName(f.local), f.time)
                          /\ f \in UNION Before \/ f.n \in 1..Len(posted)
    BY <1>9 DEF Files
  <2>5. \A f \in stored' : /\ IsName(GetName(f.local)) /\ IsTime(f.time)
                           /\ f.path = StoredPath(GetName(f.local), f.time)
                           /\ f \in UNION Before \/ f.n \in 1..Len(posted)
    BY <2>2, <2>3, <2>4, Zenon
  <2>6. posted' = posted
    OBVIOUS
  <2> QED
    BY <2>1, <2>5, <2>6, Zenon DEF Files
<1>12. \A e : PieceOf(e, Paths) => PieceOf(e, Paths')
  BY <1>7, PieceOfMore
<1>13. Shown'
  <2>1. \A k \in 1..Len(listed) : PieceOf(listed[k], Paths')
    BY <1>12 DEF IInv, Shown
  <2>2. NoSeparatorInNames' => AllIn(listed, Paths') /\ IsInjective(listed)
    BY <1>7, <1>8 DEF IInv, Shown, AllIn
  <2>3. /\ Clean(uploadFile) /\ listed \in Seq(Texts)
        /\ selected \in Seq(1..Len(listed)) /\ selectedE \in Seq(1..Len(listed))
    BY DEF IInv, Shown
  <2>4. uploadFile' = uploadFile /\ listed' = listed /\ selected' = selected /\ selectedE' = selectedE
    OBVIOUS
  <2> QED
    BY <2>1, <2>2, <2>3, <2>4, Zenon DEF Shown
<1>14. Posted'
  <2>1. \A y, d : Asked(y, d) => Asked(y, d)'
    <3>1. \A d : d \subseteq Paths => d \subseteq Paths'
      BY <1>7
    <3> QED
      BY <1>8, <1>12, <3>1, Zenon DEF Asked
  <2> QED
    BY <2>1 DEF IInv, Posted
<1>15. DependenciesAsChosen'
  <2>1. SUFFICES ASSUME NoSeparatorInNames, NEW f \in stored', f \notin UNION Before
                 PROVE  f.deps = IF posted[f.n].chosen = {} THEN {Front(NA)} ELSE posted[f.n].chosen
    BY <1>8 DEF DependenciesAsChosen
  <2>2. CASE f \in stored
    BY <2>1, <2>2 DEF IInv, DependenciesAsChosen
  <2>3. CASE f = new
    <3>1. Dependencies(m) = IF c = {} THEN {Front(NA)} ELSE c
      BY <1>2, <1>9, <2>1, DependenciesAre
    <3> QED
      BY <1>3, <2>3, <3>1 DEF c
  <2> QED
    BY <1>4, <2>2, <2>3
<1>16. ASSUME NEW k \in 1..Len(posted), FileIsThere(posted[k].msg)'
       PROVE  FileIsThere(posted[k].msg)
  <2> DEFINE y == posted[k].msg
             d == posted[k].chosen
  <2>1. Asked(y, d)
    BY DEF IInv, Posted
  <2>2. posted' = posted
    OBVIOUS
  <2>3. y["command"] = <<"uploadRequest">> => Offers(y)
    BY <1>16, <2>2 DEF FileIsThere
  <2>4. y["command"] = <<"downloadRequest">> => y["fileName"] \in Sendable'
    <3>1. <<"downloadRequest">> # <<"uploadRequest">>
      OBVIOUS
    <3> QED
      BY <1>16, <2>2, <3>1 DEF FileIsThere
  <2>5. y["command"] = <<"downloadRequest">> => y["fileName"] # path
    BY <1>10, <2>1 DEF Asked
  <2> HIDE DEF y
  <2>6. y["command"] = <<"downloadRequest">> => y["fileName"] \in Sendable
    BY <1>3, <1>4, <2>4, <2>5 DEF Sendable
  <2>7. FileIsThere(y)
    BY <2>3, <2>6, Zenon DEF FileIsThere
  <2> QED
    BY <2>7 DEF y
<1> QED
  BY <1>6, <1>7, <1>11, <1>13, <1>14, <1>15, <1>16 DEF path, name

\* An upload is stored, and acknowledged.
LEMMA StoreUploadStep ==
  ASSUME NEW r \in net
  PROVE  IInv /\ StoreUpload(r, ParseStringMessage(r.text)) => IInv'
<1> DEFINE m == ParseStringMessage(r.text)
           name == GetName(m["fileName"])
<1>0. SUFFICES ASSUME IInv, StoreUpload(r, m) PROVE IInv'
  OBVIOUS
<1>1. PICK t \in OtherTimes :
        /\ stored' = stored \cup {Uploaded(r, m, t, FALSE)}
        /\ Answered(r, AnswerTo(m, "05", "fileName", StoredPath(name, t)))
  BY <1>0 DEF StoreUpload, AnswerTo
<1>2. m["command"] = <<"02">> /\ up' = up /\ failed' = failed
  BY <1>0 DEF StoreUpload, faults
<1>3. r.n \in 1..Len(posted) /\ m \in CleanMessages
  BY <1>0, RequestIs
<1> DEFINE path == StoredPath(name, t)
           x == AnswerTo(m, "05", "fileName", path)
           text == CreateHTTPMessage(Turned(x))
           a == [n |-> r.n, dep |-> FALSE, text |-> text]
<1>4. Own(a, r.n) /\ a.text = text
  BY DEF Own
<1>5. /\ net' = net \ {r} /\ replies' = replies \cup {a}
      /\ UNCHANGED <<uploadFile, listed, selected, selectedE, pending, shown, posted, sndrQueue>>
      /\ UNCHANGED rcvrQueue
  BY <1>1 DEF Answered, Answer, clientVars, uiVars, Turned
<1>6. /\ Files' /\ Shown' /\ Posted' /\ DependenciesAsChosen'
      /\ Paths \subseteq Paths' /\ Clean(path)
      /\ \A k \in 1..Len(posted) : FileIsThere(posted[k].msg)' => FileIsThere(posted[k].msg)
  <2>1. FALSE \in BOOLEAN
    OBVIOUS
  <2> QED
    BY <1>0, <1>1, <1>2, <1>5, <2>1, StoredStep
<1> HIDE DEF m, name
<1>7. /\ text \in Texts /\ InRange(text) /\ ParseStringMessage(text)["command"] = <<"05">>
  <2>1. "05" \in {"05", "15", "32"} /\ "fileName" \in {"fileName", "body"}
    OBVIOUS
  <2> HIDE DEF path
  <2>2. /\ x \in CleanMessages /\ x["command"] = <<"05">> /\ x["command"] # <<>>
    <3>1. \A v : Clean(v) =>
            /\ AnswerTo(m, "05", "fileName", v) \in CleanMessages
            /\ AnswerTo(m, "05", "fileName", v)["command"] = <<"05">>
            /\ AnswerTo(m, "05", "fileName", v)["command"] # <<>>
            /\ AnswerTo(m, "05", "fileName", v)["fileName"] = v
      BY <1>3, <2>1, AnswerIs, Zenon
    <3> QED
      BY <1>6, <3>1, Zenon DEF x
  <2> HIDE DEF x
  <2> QED
    BY <2>2, TurnedIs
<1>8. a' = a
  BY <1>5 DEF m, name, AnswerTo, Turned
<1> HIDE DEF text, a, x, path
<1>9. Requests'
  <2>1. net' \subseteq net
    BY <1>5
  <2> QED
    BY <1>0, <1>5, <2>1, FewerRequests DEF IInv
<1>10. Answers'
  <2>1. a \in Replies
    <3>1. r.n \in Nat /\ FALSE \in BOOLEAN
      BY <1>3
    <3> QED
      BY <1>7, <3>1 DEF Replies, a
  <2>2. ListAnswer(a)'
    <3>1. <<"05">> # <<"32">>
      OBVIOUS
    <3> QED
      BY <1>4, <1>7, <1>8, <3>1 DEF ListAnswer
  <2> QED
    BY <1>0, <1>5, <1>6, <2>1, <2>2, OneMoreAnswer DEF IInv
<1>11. Bare'
  BY <1>0, <1>2, <1>5, BareFrame DEF IInv
<1>12. Readable'
  BY <1>0, <1>4, <1>5, <1>7 DEF IInv, Readable
<1>13. NoneLost'
  BY <1>0, <1>2, <1>4, <1>5, <1>6, AnsweredNoneLost
<1> QED
  BY <1>6, <1>9, <1>10, <1>11, <1>12, <1>13 DEF IInv

\* An upload that fails leaves nothing, or a part of the file: no answer, and perhaps
\* the end of the server.
LEMMA FailUploadStep ==
  ASSUME NEW r \in net
  PROVE  IInv /\ FailUpload(r, ParseStringMessage(r.text)) => IInv'
<1> DEFINE m == ParseStringMessage(r.text)
<1>0. SUFFICES ASSUME IInv, FailUpload(r, m) PROVE IInv'
  OBVIOUS
<1>1. /\ UNCHANGED <<uploadFile, listed, selected, selectedE, pending, shown, posted, sndrQueue>>
      /\ UNCHANGED <<rcvrQueue, replies>>
      /\ up /\ m["command"] = <<"02">> /\ failed' = failed \cup {r.n} /\ up' \in BOOLEAN
      /\ net' = IF up' THEN net \ {r} ELSE {}
  BY <1>0 DEF FailUpload, clientVars, uiVars
<1>2. \/ UNCHANGED stored
      \/ \E t \in OtherTimes, empty \in BOOLEAN : stored' = stored \cup {Uploaded(r, m, t, empty)}
  BY <1>0 DEF FailUpload
<1>3. r.n \in 1..Len(posted) /\ posted[r.n].msg["command"] = <<"uploadRequest">>
  BY <1>0, <1>1, RequestIs
<1>4. /\ Files' /\ Shown' /\ Posted' /\ DependenciesAsChosen' /\ Paths \subseteq Paths'
      /\ \A k \in 1..Len(posted) : FileIsThere(posted[k].msg)' => FileIsThere(posted[k].msg)
  <2>1. CASE UNCHANGED stored
    <3>1. \A k \in 1..Len(posted) : FileIsThere(posted[k].msg)' => FileIsThere(posted[k].msg)
      BY <1>1, <2>1 DEF FileIsThere, Sendable
    <3>2. Paths' = Paths
      BY <2>1 DEF Paths
    <3> QED
      BY <1>0, <1>1, <2>1, <3>1, <3>2, FilesFrame, ShownFrame, PostedFrame, ChosenFrame DEF IInv
  <2>2. ASSUME NEW t \in OtherTimes, NEW empty \in BOOLEAN,
               stored' = stored \cup {Uploaded(r, m, t, empty)}
        PROVE  /\ Files' /\ Shown' /\ Posted' /\ DependenciesAsChosen' /\ Paths \subseteq Paths'
               /\ \A k \in 1..Len(posted) :
                    FileIsThere(posted[k].msg)' => FileIsThere(posted[k].msg)
    BY <1>0, <1>1, <2>2, StoredStep
  <2> QED
    BY <1>2, <2>1, <2>2
<1> HIDE DEF m
<1>5. net' \subseteq net
  BY <1>1
<1>6. Requests'
  BY <1>0, <1>1, <1>5, FewerRequests DEF IInv
<1>7. Answers'
  <2>1. \A b : ListAnswer(b) => ListAnswer(b)'
    BY <1>4 DEF ListAnswer, Lists, AllIn
  <2> QED
    BY <1>0, <1>1, <2>1 DEF IInv, Answers
<1>8. Bare'
  BY <1>1, <1>3 DEF Bare
<1>9. Readable'
  BY <1>0, <1>1, <1>5, ReadableFrame DEF IInv
<1>10. NoneLost'
  <2>1. SUFFICES ASSUME up', NEW n \in 1..Len(posted) \ failed', FileIsThere(posted[n].msg)'
                 PROVE  OnWay(n)'
    BY <1>1 DEF NoneLost
  <2>2. n \notin failed /\ n # r.n /\ FileIsThere(posted[n].msg)
    BY <1>1, <1>4, <2>1
  <2>3. OnWay(n)
    BY <1>0, <1>1, <2>1, <2>2 DEF IInv, NoneLost
  <2>4. (\E q \in net : q.n = n) => \E q \in net' : q.n = n
    BY <1>1, <2>1, <2>2
  <2> QED
    BY <1>1, <2>3, <2>4 DEF OnWay
<1> QED
  BY <1>4, <1>6, <1>7, <1>8, <1>9, <1>10 DEF IInv

------------------------------------------------------------------------------
(* The theorems.                                                             *)

\* At the beginning the window is empty, and the server has what it stored before.
LEMMA InitIInv == Init => IInv
<1> SUFFICES ASSUME Init PROVE IInv
  OBVIOUS
<1>1. /\ listed = <<>> /\ selected = <<>> /\ selectedE = <<>>
      /\ pending = Nothing /\ shown = <<>> /\ posted = <<>>
      /\ sndrQueue = <<>> /\ net = {} /\ replies = {} /\ rcvrQueue = <<>>
      /\ stored \in Before /\ up = TRUE /\ failed = {}
  BY DEF Init
<1>2. Len(<<>>) = 0 /\ DOMAIN <<>> = 1..0 /\ (\A k \in 1..0 : FALSE) /\ \A T : <<>> \in Seq(T)
  OBVIOUS
<1>3. Files
  <2>1. /\ IsFiniteSet(stored)
        /\ \A f \in stored : /\ IsLocal(f.local) /\ IsTime(f.time)
                             /\ f.path = StoredPath(GetName(f.local), f.time)
    BY <1>1, BeforeAssumption
  <2>2. \A f \in stored : f \in UNION Before
    BY <1>1
  <2> QED
    BY <2>1, <2>2, LocalName, Zenon DEF Files
<1>4. Shown
  <2>1. Clean(uploadFile)
    <3> DEFINE b == <<"Please", " ", "Select", " ", "File">>
    <3>1. "Please" \in Chars /\ " " \in Chars /\ "Select" \in Chars /\ "File" \in Chars
      <4>1. "Please" \in Literals /\ " " \in Literals /\ "Select" \in Literals /\ "File" \in Literals
        BY Zenon DEF Literals
      <4> QED
        BY <4>1 DEF Chars
    <3>2. b \in Texts
      <4>1. \A v, w, x, y, z \in Chars : <<v, w, x, y, z>> \in Seq(Chars)
        OBVIOUS
      <4> QED
        BY <3>1, <4>1, Zenon DEF Texts
    <3>3. /\ Len(b) = 5 /\ b[1] = "Please" /\ b[2] = " " /\ b[3] = "Select"
          /\ b[4] = " " /\ b[5] = "File"
      OBVIOUS
    <3>4. \A i \in 1..5 : i = 1 \/ i = 2 \/ i = 3 \/ i = 4 \/ i = 5
      OBVIOUS
    <3>5. \A x \in {EOT, SEPARATOR} : "Please" # x /\ " " # x /\ "Select" # x /\ "File" # x
      BY DEF EOT, SEPARATOR
    <3>6. uploadFile = b
      BY DEF Init
    <3> HIDE DEF b
    <3>7. \A x : Has(b, x) => x = "Please" \/ x = " " \/ x = "Select" \/ x = "File"
      BY <3>3, <3>4, Zenon DEF Has
    <3> QED
      BY <3>2, <3>5, <3>6, <3>7, Zenon DEF Clean
  <2>2. listed \in Seq(Texts) /\ Len(listed) = 0
    BY <1>1, <1>2, Zenon
  <2>3. selected \in Seq(1..Len(listed)) /\ selectedE \in Seq(1..Len(listed))
    BY <1>1, <1>2, Zenon
  <2>4. AllIn(listed, Paths) /\ IsInjective(listed)
    <3>1. DOMAIN listed = 1..0
      BY <1>1, <1>2, Zenon
    <3> QED
      BY <2>2, <3>1, <1>2 DEF AllIn, IsInjective
  <2> QED
    BY <1>2, <2>1, <2>2, <2>3, <2>4 DEF Shown
<1>5. Posted
  <2>1. posted \in Seq([msg : Messages, chosen : SUBSET Texts]) /\ Len(posted) = 0
    BY <1>1, <1>2, Zenon
  <2> QED
    BY <1>2, <2>1 DEF Posted
<1>6. Requests
  <2>1. sndrQueue \in Seq([n : Nat, msg : Messages]) /\ Len(sndrQueue) = 0
    BY <1>1, <1>2, Zenon
  <2> QED
    BY <1>1, <1>2, <2>1 DEF Requests
<1>7. Answers
  <2>1. rcvrQueue \in Seq(Replies) /\ Len(rcvrQueue) = 0 /\ shown \in Seq(Replies)
    BY <1>1, <1>2, Zenon
  <2>2. pending \in Replies
    <3>1. <<>> \in Texts /\ 0 \in Nat /\ FALSE \in BOOLEAN
      BY DEF Texts
    <3> QED
      BY <1>1, <3>1 DEF Nothing, Replies
  <2> QED
    BY <1>1, <1>2, <2>1, <2>2 DEF Answers
<1>8. NoneLost
  BY <1>1, <1>2 DEF NoneLost
<1>9. Bare /\ Readable
  BY <1>1 DEF Bare, Readable
<1>10. DependenciesAsChosen
  BY <1>1 DEF DependenciesAsChosen
<1> QED
  BY <1>3, <1>4, <1>5, <1>6, <1>7, <1>8, <1>9, <1>10 DEF IInv

\* Every step keeps the invariant.
LEMMA NextIInv == IInv /\ [Next]_vars => IInv'
<1>1. ASSUME IInv, Next PROVE IInv'
  <2>1. CASE User
    BY <1>1, <2>1, PickFileStep, SelectStep, UploadStep, GetAllFilesStep, DownloadStep DEF User
  <2>2. CASE Display
    BY <1>1, <2>2, GetMessageStep, UpdateListBoxStep, UpdateStatusbarStep DEF Display, Show
  <2>3. CASE ClientSend
    BY <1>1, <2>3, ClientSendStep
  <2>4. CASE \E r \in net : Serve(r, ParseStringMessage(r.text))
    BY <1>1, <2>4, StoreUploadStep, FailUploadStep, CrashOnUploadStep, ListFilesStep,
       SendFileStep, NoSuchFileStep DEF Serve
  <2>5. CASE \E a \in replies : Receive(a)
    BY <1>1, <2>5, ReceiveStep
  <2> QED
    BY <1>1, <2>1, <2>2, <2>3, <2>4, <2>5 DEF Next, Client
<1>2. ASSUME IInv, UNCHANGED vars PROVE IInv'
  <2>1. /\ UNCHANGED <<uploadFile, listed, selected, selectedE, pending, shown, posted>>
        /\ UNCHANGED <<sndrQueue, net, replies, rcvrQueue, stored, up, failed>>
    BY <1>2 DEF vars, clientVars, uiVars, serverVars, faults
  <2> QED
    BY <1>2, <2>1, FilesFrame, ShownFrame, PostedFrame, RequestsFrame, AnswersFrame,
       BareFrame, ReadableFrame, ChosenFrame, LostFrame DEF IInv
<1> QED
  BY <1>1, <1>2

\* What the window shows, what is asked for, what is on its way and what is stored
\* agree at every moment.
THEOREM Agreement == Spec => []IInv
BY InitIInv, NextIInv, PTL DEF Spec

\* A part of the server's paths survives.
LEMMA PartSurvives == ASSUME Files, NEW e, Part(e, Paths) PROVE Survives(e)
<1>1. \A p \in Paths : Has(p, FILES_SEP) => FILES_SEP \in ToSet(p)
  BY PathsAre, MembersAre
<1> QED
  BY <1>1 DEF Part, Survives

\* What the invariant says of paths.
LEMMA IInvPaths == IInv => PathsSurvive
<1> SUFFICES ASSUME IInv PROVE
      /\ \A e \in ToSet(listed) : Survives(e)
      /\ NoSeparatorInNames => IsInjective(listed)
      /\ \A f \in stored : GetName(f.path) = GetName(f.local)
      /\ \A r \in net : ParseStringMessage(r.text)["command"] = <<"14">> =>
                          \/ ParseStringMessage(r.text)["fileName"] = NA
                          \/ Survives(ParseStringMessage(r.text)["fileName"])
  BY DEF PathsSurvive
<1>0. Files
  BY DEF IInv
<1>1. /\ NoSeparatorInNames => IsInjective(listed)
      /\ listed \in Seq(Texts) /\ \A k \in 1..Len(listed) : PieceOf(listed[k], Paths)
  BY DEF IInv, Shown
<1>2. \A e \in ToSet(listed) : Survives(e)
  <2>1. DOMAIN listed = 1..Len(listed)
    BY <1>1
  <2>2. \A k \in 1..Len(listed) : Survives(listed[k])
    BY <1>0, <1>1, PartSurvives DEF PieceOf
  <2> QED
    BY <2>1, <2>2 DEF ToSet
<1>3. ASSUME NEW f \in stored PROVE GetName(f.path) = GetName(f.local)
  <2> DEFINE n == GetName(f.local)
             t == f.time
  <2>1. IsName(n) /\ IsTime(t) /\ f.path = StoredPath(n, t)
    BY DEF IInv, Files
  <2> HIDE DEF n, t
  <2>2. GetName(f.path) = n
    BY <2>1, StoredPathIs
  <2> QED
    BY <2>2 DEF n
<1>4. ASSUME NEW r \in net, ParseStringMessage(r.text)["command"] = <<"14">>
      PROVE  \/ ParseStringMessage(r.text)["fileName"] = NA
             \/ Survives(ParseStringMessage(r.text)["fileName"])
  <2> DEFINE p == posted[r.n]
             m == ParseStringMessage(r.text)
  <2>1. /\ Asked(p.msg, p.chosen) /\ p.msg["command"] = <<"downloadRequest">>
        /\ m["fileName"] = NA \/ m["fileName"] = p.msg["fileName"]
    BY <1>4, RequestIs
  <2> HIDE DEF m
  <2>2. Survives(p.msg["fileName"])
    BY <1>0, <2>1, PartSurvives DEF Asked, PieceOf
  <2>3. m["fileName"] = NA \/ Survives(m["fileName"])
    BY <2>1, <2>2
  <2> QED
    BY <2>3 DEF m
<1> QED
  BY <1>1, <1>2, <1>3, <1>4

\* A path survives its way through messages, the repository, the list of files and
\* back, also beside one that the separator of lists cuts into pieces.
THEOREM PathsAlwaysSurvive == Spec => []PathsSurvive
BY Agreement, IInvPaths, PTL

\* An upload names the dependencies that were selected when the user clicked.
THEOREM DependenciesAlwaysAsChosen == Spec => []DependenciesAsChosen
<1>1. IInv => DependenciesAsChosen
  BY DEF IInv
<1> QED
  BY <1>1, Agreement, PTL

\* Nothing but a file without an extension, or a failed upload, ends the server: behind
\* every separator of a header that a program wrote there is a value.
THEOREM BareNamesAlone == Spec => []OnlyBareNamesCrash
<1>1. IInv => OnlyBareNamesCrash
  BY DEF IInv, Bare, Readable, OnlyBareNamesCrash
<1> QED
  BY <1>1, Agreement, PTL

\* When nothing is on its way, everything that could be answered has been shown.
LEMMA IInvAnswered == IInv => RequestsAnswered
<1> SUFFICES ASSUME IInv, up, sndrQueue = <<>>, net = {}, replies = {}, rcvrQueue = <<>>,
                    pending = Nothing, NEW n \in 1..Len(posted) \ failed,
                    FileIsThere(posted[n].msg)
             PROVE  \E i \in 1..Len(shown) : shown[i].n = n /\ ~shown[i].dep
  BY DEF RequestsAnswered
<1>1. OnWay(n)
  BY DEF IInv, NoneLost
<1>2. ~ Own(pending, n)
  <2>1. pending.n = 0
    BY DEF Nothing
  <2> QED
    BY <2>1 DEF Own
<1>3. Len(sndrQueue) = 0 /\ Len(rcvrQueue) = 0 /\ \A k \in 1..0 : FALSE
  OBVIOUS
<1> QED
  BY <1>1, <1>2, <1>3 DEF OnWay, Own

\* No request is lost: when nothing is on its way any more, each has its own answer in the
\* window, unless a program is down, the file is not there or empty, or did not get through.
THEOREM NoRequestIsLost == Spec => []RequestsAnswered
BY Agreement, IInvAnswered, PTL
=============================================================================
