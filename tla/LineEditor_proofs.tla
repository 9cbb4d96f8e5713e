------------------------- MODULE LineEditor_proofs -------------------------
(***************************************************************************)
(* Proofs about LineEditor: the types, the cursor in the window, and that  *)
(* what is done to the cells is an edit of a text, for any size of buffer, *)
(* window and history, any characters and commands.                        *)
(***************************************************************************)
EXTENDS LineEditor, TLAPS, WellFoundedInduction, SequenceTheorems

-----------------------------------------------------------------------------
(* The least and the largest number of a set.                              *)
LEMMA LeastIs ==
  ASSUME NEW S \in SUBSET Int, NEW x \in S, \A y \in S : x <= y
  PROVE  Min(S) = x
<1>1. Min(S) \in S /\ \A y \in S : Min(S) =< y
  BY DEF Min
<1>2. x \in Int /\ Min(S) \in Int
  BY <1>1
<1> QED
  BY <1>1, <1>2

LEMMA LargestIs ==
  ASSUME NEW S \in SUBSET Int, NEW x \in S, \A y \in S : x >= y
  PROVE  Max(S) = x
<1>1. Max(S) \in S /\ \A y \in S : Max(S) >= y
  BY DEF Max
<1>2. x \in Int /\ Max(S) \in Int
  BY <1>1
<1> QED
  BY <1>1, <1>2

\* A set of natural numbers that has one has a least one.
LEMMA LeastExists ==
  ASSUME NEW S \in SUBSET Nat, S # {}
  PROVE  \E x \in S : \A y \in S : x <= y
<1> DEFINE Less == {p \in Nat \X Nat : p[1] < p[2]}
<1>1. IsWellFoundedOn(Less, Nat)
  BY NatLessThanWellFounded, Zenon DEF OpToRel
<1>2. \E x \in S : \A y \in S : ~(<<y, x>> \in Less)
  <2> HIDE DEF Less
  <2> QED
    BY <1>1, WFMin, Zenon
<1>3. ASSUME NEW x \in S, NEW y \in S, ~(<<y, x>> \in Less)
      PROVE  x <= y
  <2>1. x \in Nat /\ y \in Nat
    OBVIOUS
  <2> QED
    BY <2>1, <1>3
<1> QED
  BY <1>2, <1>3

LEMMA LargestExists ==
  ASSUME NEW b \in Nat, NEW S \in SUBSET (0..b), S # {}
  PROVE  Max(S) \in S /\ \A y \in S : Max(S) >= y
<1> DEFINE R == {b - y : y \in S}
<1>1. R \in SUBSET Nat /\ R # {}
  <2>1. \A y \in S : y \in 0..b /\ b - y \in Nat
    OBVIOUS
  <2>2. PICK y \in S : TRUE
    OBVIOUS
  <2>3. b - y \in R
    OBVIOUS
  <2> QED
    BY <2>1, <2>3
<1>2. PICK r \in R : \A y \in R : r <= y
  BY <1>1, LeastExists
<1>3. PICK x \in S : r = b - x
  BY <1>2
<1>4. ASSUME NEW y \in S
      PROVE  x >= y
  <2>1. y \in 0..b /\ x \in 0..b /\ b - y \in R
    OBVIOUS
  <2>2. b - x <= b - y
    BY <1>2, <1>3, <2>1
  <2> QED
    BY <2>1, <2>2
<1> QED
  BY <1>4 DEF Max

-----------------------------------------------------------------------------
(* cpltstr() as a loop: Word is what it does with one of the commands.     *)
Start == [mw |-> None, mwl |-> 0, co |-> TRUE]
Word(iw, m, cw) ==
  IF ~IsPrefix(iw, cw) THEN m
  ELSE IF m.mw = None THEN [mw |-> cw, mwl |-> Len(cw), co |-> TRUE]
  ELSE IF ~m.co /\ m.mwl = Len(iw) THEN m
  ELSE Shrunk(m, cw, Len(iw))
\* The state after the words with the numbers in s
Run(iw, g, n) ==
  g = [s \in SUBSET (1..n) |->
         IF s = {} THEN Start ELSE Word(iw, g[s \ {Max(s)}], Commands[Max(s)])]

LEMMA LoopRuns ==
  ASSUME NEW iw
  PROVE  \A n \in Nat : \E g : Run(iw, g, n)
<1> DEFINE Bad == {n \in Nat : ~\E g : Run(iw, g, n)}
<1> SUFFICES ASSUME Bad # {} PROVE FALSE
  OBVIOUS
<1>1. PICK n \in Bad : \A y \in Bad : n <= y
  BY LeastExists
<1>2. n # 0
  <2> SUFFICES \E g : Run(iw, g, 0)
    BY <1>1
  <2> DEFINE g0 == [s \in SUBSET (1..0) |-> Start]
  <2>1. \A s \in SUBSET (1..0) : s = {}
    OBVIOUS
  <2>2. Run(iw, g0, 0)
    BY <2>1 DEF Run
  <2> QED
    BY <2>2
<1>3. n - 1 \in Nat /\ n - 1 \notin Bad
  BY <1>1, <1>2
<1>4. PICK g : Run(iw, g, n - 1)
  BY <1>3
<1> DEFINE F(s) == IF n \in s THEN Word(iw, g[s \ {n}], Commands[n]) ELSE g[s]
           f == [s \in SUBSET (1..n) |-> F(s)]
<1>5. ASSUME NEW s \in SUBSET (1..n)
      PROVE  f[s] = IF s = {} THEN Start
                    ELSE Word(iw, f[s \ {Max(s)}], Commands[Max(s)])
  <2>1. CASE n \in s
    <3>1. Max(s) = n
      BY <2>1, LargestIs
    <3>2. s \ {n} \in SUBSET (1..n) /\ n \notin s \ {n}
      OBVIOUS
    <3>3. f[s \ {n}] = g[s \ {n}]
      BY <3>2
    <3> HIDE DEF F
    <3>4. f[s] = F(s)
      OBVIOUS
    <3> QED
      BY <2>1, <3>1, <3>3, <3>4 DEF F
  <2>2. CASE n \notin s
    <3>1. s \in SUBSET (1..(n - 1))
      BY <2>2
    <3>2. f[s] = g[s]
      BY <2>2
    <3>3. g[s] = IF s = {} THEN Start
                 ELSE Word(iw, g[s \ {Max(s)}], Commands[Max(s)])
      BY <3>1, <1>4 DEF Run
    <3>4. f[s \ {Max(s)}] = g[s \ {Max(s)}]
      BY <2>2
    <3> QED
      BY <3>2, <3>3, <3>4
  <2> QED
    BY <2>1, <2>2
<1>6. Run(iw, f, n)
  BY <1>5 DEF Run
<1> QED
  BY <1>1, <1>6

LEMMA NothingBetween ==
  ASSUME NEW k \in Int
  PROVE  (1..k) \ {k} = 1..(k - 1)
OBVIOUS

\* What cpltstr() has found so far: nothing, or a command that begins with
\* the input, and how much of it the others have in common with it.
Matched(iw, m) ==
  /\ m \in [mw : Seq(Char) \cup {None}, mwl : Nat, co : BOOLEAN]
  /\ \/ m.mw = None
     \/ m.mw \in Seq(Char) /\ m.mwl \in 0..Len(m.mw) /\ Len(iw) <= Len(m.mw)

LEMMA LeftOf ==
  ASSUME NEW A, NEW m \in [mw : A, mwl : Nat, co : BOOLEAN], NEW v \in Nat
  PROVE  LET w == [m EXCEPT !.co = FALSE, !.mwl = v]
         IN  w \in [mw : A, mwl : Nat, co : BOOLEAN] /\ w.mw = m.mw /\ w.mwl = v
OBVIOUS

LEMMA WordMatches ==
  ASSUME NEW iw \in Seq(Char), NEW cw \in Seq(Char), NEW m, Matched(iw, m)
  PROVE  Matched(iw, Word(iw, m, cw))
<1>1. CASE ~IsPrefix(iw, cw) \/ (m.mw # None /\ ~m.co /\ m.mwl = Len(iw))
  BY <1>1 DEF Word
<1>2. CASE IsPrefix(iw, cw) /\ m.mw = None
  <2>1. Len(iw) <= Len(cw) /\ Len(cw) \in Nat
    BY <1>2 DEF IsPrefix
  <2> DEFINE w == [mw |-> cw, mwl |-> Len(cw), co |-> TRUE]
  <2>2. Word(iw, m, cw) = w
    BY <1>2 DEF Word
  <2>3. Matched(iw, w)
    BY <2>1 DEF Matched
  <2> QED
    BY <2>2, <2>3
<1>3. CASE IsPrefix(iw, cw) /\ m.mw # None /\ ~(~m.co /\ m.mwl = Len(iw))
  <2> DEFINE S == {Len(iw)} \cup {n \in Len(iw)..m.mwl : n > 0 /\ Common(cw, m.mw, n)}
             w == [m EXCEPT !.co = FALSE, !.mwl = Max(S)]
  <2>1. m.mw \in Seq(Char) /\ m.mwl \in 0..Len(m.mw) /\ Len(iw) <= Len(m.mw)
        /\ Len(iw) \in Nat /\ Len(m.mw) \in Nat
    BY <1>3 DEF Matched
  <2>2. S \in SUBSET (0..Len(m.mw)) /\ S # {}
    BY <2>1
  <2>3. Max(S) \in 0..Len(m.mw)
    BY <2>1, <2>2, LargestExists
  <2>4. Word(iw, m, cw) = Shrunk(m, cw, Len(iw))
    BY <1>3 DEF Word
  <2> HIDE DEF S
  <2>5. w \in [mw : Seq(Char) \cup {None}, mwl : Nat, co : BOOLEAN]
        /\ w.mw = m.mw /\ w.mwl = Max(S)
    <3>1. m \in [mw : Seq(Char) \cup {None}, mwl : Nat, co : BOOLEAN] /\ Max(S) \in Nat
      BY <2>1, <2>3 DEF Matched
    <3> QED
      BY <3>1, LeftOf
  <2>6. Shrunk(m, cw, Len(iw)) = w
    BY DEF Shrunk, S
  <2>7. Matched(iw, w)
    BY <2>1, <2>3, <2>5 DEF Matched
  <2> QED
    BY <2>4, <2>6, <2>7
<1> QED
  BY <1>1, <1>2, <1>3

\* After each of the first k commands the state is of that kind.
LEMMA LoopMatches ==
  ASSUME NEW iw \in Seq(Char), NEW g, Run(iw, g, Len(Commands))
  PROVE  \A k \in 0..Len(Commands) : Matched(iw, g[1..k])
<1> DEFINE N == Len(Commands)
           Bad == {k \in 0..N : ~Matched(iw, g[1..k])}
<1>0. N \in Nat /\ \A k \in 1..N : Commands[k] \in Seq(Char)
  BY LineEditorAssumption
<1> SUFFICES ASSUME Bad # {} PROVE FALSE
  OBVIOUS
<1>1. PICK k \in Bad : \A y \in Bad : k <= y
  <2>1. Bad \in SUBSET Nat
    BY <1>0
  <2> QED
    BY <2>1, LeastExists
<1>2. \A s \in SUBSET (1..N) :
        g[s] = IF s = {} THEN Start ELSE Word(iw, g[s \ {Max(s)}], Commands[Max(s)])
  BY DEF Run
<1>3. k \in 0..N /\ k \in Int
  BY <1>0
<1>4. CASE k = 0
  <2>1. 1..k = {} /\ 1..k \in SUBSET (1..N)
    BY <1>4
  <2>2. g[1..k] = Start
    BY <1>2, <2>1
  <2>3. Matched(iw, Start)
    BY DEF Matched, Start
  <2> QED
    BY <1>1, <2>2, <2>3
<1>5. CASE k # 0
  <2>1. k - 1 \in 0..N /\ k \in 1..N /\ k \in 1..k
    BY <1>0, <1>3, <1>5
  <2>2. 1..k \in SUBSET (1..N) /\ 1..k # {}
    <3>1. \A y \in 1..k : y \in 1..N
      BY <1>0, <1>3
    <3> QED
      BY <3>1, <2>1
  <2>7. (1..k) \ {k} = 1..(k - 1)
    BY <1>3, NothingBetween
  <2>3. Max(1..k) = k
    <3>1. 1..k \in SUBSET Int /\ \A y \in 1..k : k >= y
      BY <1>3
    <3> QED
      BY <2>1, <3>1, LargestIs
  <2>4. g[1..k] = Word(iw, g[1..(k - 1)], Commands[k])
    <3>1. g[1..k] = Word(iw, g[(1..k) \ {Max(1..k)}], Commands[Max(1..k)])
      BY <1>2, <2>2
    <3> QED
      BY <3>1, <2>3, <2>7
  <2>5. Matched(iw, g[1..(k - 1)])
    BY <1>1, <2>1
  <2>6. Matched(iw, Word(iw, g[1..(k - 1)], Commands[k]))
    BY <1>0, <2>1, <2>5, WordMatches
  <2> QED
    BY <1>1, <2>4, <2>6
<1> QED
  BY <1>4, <1>5

\* What <TAB> finds is a word, and what is added to the line a part of it.
LEMMA CompletionMatches ==
  ASSUME NEW iw \in Seq(Char)
  PROVE  Matched(iw, cpltstr(iw))
<1> DEFINE N == Len(Commands)
<1>1. N \in Nat /\ DOMAIN Commands = 1..N
  BY LineEditorAssumption
<1>2. cpltstr(iw) = (CHOOSE g : g = [s \in SUBSET (DOMAIN Commands) |->
        IF s = {} THEN Start ELSE Word(iw, g[s \ {Max(s)}], Commands[Max(s)])])[DOMAIN Commands]
  BY DEF cpltstr, FoldLeft, MapThenFoldSet, Word, Start
<1>3. cpltstr(iw) = (CHOOSE g : Run(iw, g, N))[1..N]
  BY <1>1, <1>2 DEF Run
<1>4. \E g : Run(iw, g, N)
  BY <1>1, LoopRuns
<1> DEFINE g == CHOOSE g : Run(iw, g, N)
<1>5. Run(iw, g, N)
  BY <1>4
<1> HIDE DEF g
<1>6. Matched(iw, g[1..N])
  <2>1. N \in 0..N
    BY <1>1
  <2> QED
    BY <1>5, <2>1, LoopMatches
<1> QED
  BY <1>3, <1>6 DEF g

-----------------------------------------------------------------------------
(* The buffer r has the text t: its first cells are t.  Begins is what is  *)
(* left of that when the length was set and the NUL not written yet.       *)
Record == [linebuf : Line, linelen : Nat, linepos : Nat, leftpos : Nat]
Begins(r, t) ==
  /\ r \in Record /\ t \in Seq(Char) /\ Len(t) < LINESIZ /\ r.linelen = Len(t)
  /\ \A i \in 1..Len(t) : r.linebuf[i - 1] = t[i]
Holds(r, t) == Begins(r, t) /\ r.linebuf[Len(t)] = NUL

LEMMA Sizes ==
  /\ LINESIZ \in Nat \ {0} /\ StatW \in Nat \ {0} /\ HistSize \in Nat
  /\ NUL \notin Char /\ Junk \notin Char /\ Blank \in Char /\ Slash \in Char
BY LineEditorAssumption

\* What wcstombs() reads is the text.
LEMMA ReadsText ==
  ASSUME NEW r, NEW t, Holds(r, t)
  PROVE  rbuf(r.linebuf) = t
<1> DEFINE b == r.linebuf
           S == {i \in Cells : b[i] = NUL} \cup {LINESIZ}
<1>1. /\ t \in Seq(Char) /\ Len(t) \in Nat /\ Len(t) < LINESIZ /\ LINESIZ \in Nat
      /\ \A i \in 1..Len(t) : b[i - 1] = t[i] /\ t[i] \in Char
      /\ b[Len(t)] = NUL
  BY Sizes DEF Holds, Begins
<1>2. S \in SUBSET Int /\ Len(t) \in S
  BY <1>1 DEF Cells
<1>3. ASSUME NEW y \in S PROVE Len(t) <= y
  <2>1. CASE y \in Cells /\ b[y] = NUL /\ y < Len(t)
    <3>1. y + 1 \in 1..Len(t) /\ (y + 1) - 1 = y
      BY <1>1, <2>1 DEF Cells
    <3>2. b[y] = t[y + 1] /\ t[y + 1] \in Char
      BY <1>1, <3>1
    <3> QED
      BY <2>1, <3>2, Sizes
  <2>2. y \in Int
    BY <1>2
  <2> QED
    BY <1>1, <2>1, <2>2
<1>4. Min(S) = Len(t)
  <2> HIDE DEF S
  <2> QED
    BY <1>2, <1>3, LeastIs
<1>5. End(b) = Len(t)
  BY <1>4 DEF End
<1>6. rbuf(b) = [i \in 1..Len(t) |-> b[i - 1]]
  BY <1>5 DEF rbuf
<1>7. t = [i \in 1..Len(t) |-> t[i]]
  BY <1>1
<1> QED
  BY <1>1, <1>6, <1>7

\* And a line that ends where linelen says is one that is read.
LEMMA LineIsText ==
  ASSUME NEW r \in Record, r.linelen \in Cells, r.linebuf[r.linelen] = NUL,
         \A i \in 0..(r.linelen - 1) : r.linebuf[i] \in Char
  PROVE  Holds(r, rbuf(r.linebuf))
<1> DEFINE n == r.linelen
           t == [i \in 1..n |-> r.linebuf[i - 1]]
<1>1. n \in Nat /\ n < LINESIZ
  BY Sizes DEF Cells
<1>2. \A i \in 1..n : r.linebuf[i - 1] \in Char
  BY <1>1
<1>3. t \in Seq(Char) /\ Len(t) = n
  BY <1>1, <1>2
<1>4. Holds(r, t)
  BY <1>1, <1>3 DEF Holds, Begins
<1> QED
  BY <1>4, ReadsText

LEMMA TextIsLine ==
  ASSUME NEW r, NEW t, Holds(r, t)
  PROVE  /\ r \in Record /\ r.linelen \in Cells /\ r.linebuf[r.linelen] = NUL
         /\ \A i \in 0..(r.linelen - 1) : r.linebuf[i] \in Char
<1>1. /\ t \in Seq(Char) /\ Len(t) \in Nat /\ Len(t) < LINESIZ /\ LINESIZ \in Nat
      /\ \A i \in 1..Len(t) : r.linebuf[i - 1] = t[i] /\ t[i] \in Char
      /\ r.linebuf[Len(t)] = NUL /\ r.linelen = Len(t) /\ r \in Record
  BY Sizes DEF Holds, Begins
<1>2. ASSUME NEW i \in 0..(r.linelen - 1) PROVE r.linebuf[i] \in Char
  <2>1. i + 1 \in 1..Len(t) /\ (i + 1) - 1 = i
    BY <1>1
  <2> QED
    BY <1>1, <2>1
<1> QED
  BY <1>1, <1>2 DEF Cells

-----------------------------------------------------------------------------
(* Texts: x is put in behind the first p characters, or the one behind     *)
(* them is taken out.                                                      *)
Ins(t, p, x) ==
  [i \in 1..(Len(t) + Len(x)) |->
     IF i <= p THEN t[i] ELSE IF i <= p + Len(x) THEN x[i - p] ELSE t[i - Len(x)]]
Del(t, p) == [i \in 1..(Len(t) - 1) |-> IF i <= p THEN t[i] ELSE t[i + 1]]

LEMMA InsIsText ==
  ASSUME NEW t \in Seq(Char), NEW x \in Seq(Char), NEW p \in 0..Len(t)
  PROVE  /\ Ins(t, p, x) \in Seq(Char) /\ Len(Ins(t, p, x)) = Len(t) + Len(x)
         /\ \A i \in 1..(Len(t) + Len(x)) : Ins(t, p, x)[i] =
              IF i <= p THEN t[i] ELSE IF i <= p + Len(x) THEN x[i - p] ELSE t[i - Len(x)]
<1> DEFINE n == Len(t) + Len(x)
           v(i) == IF i <= p THEN t[i] ELSE IF i <= p + Len(x) THEN x[i - p] ELSE t[i - Len(x)]
<1>1. n \in Nat /\ Len(t) \in Nat /\ Len(x) \in Nat /\ p \in Nat /\ p <= Len(t)
  OBVIOUS
<1>2. ASSUME NEW i \in 1..n PROVE v(i) \in Char
  <2>1. CASE i <= p
    BY <1>1, <2>1
  <2>2. CASE ~(i <= p) /\ i <= p + Len(x)
    <3>1. i - p \in 1..Len(x)
      BY <1>1, <2>2
    <3> QED
      BY <2>2, <3>1
  <2>3. CASE ~(i <= p) /\ ~(i <= p + Len(x))
    <3>1. i - Len(x) \in 1..Len(t)
      BY <1>1, <2>3
    <3> QED
      BY <2>3, <3>1
  <2> QED
    BY <2>1, <2>2, <2>3
<1> HIDE DEF v
<1>3. [i \in 1..n |-> v(i)] \in Seq(Char) /\ Len([i \in 1..n |-> v(i)]) = n
  BY <1>1, <1>2
<1> QED
  BY <1>3 DEF Ins, v

LEMMA DelIsText ==
  ASSUME NEW t \in Seq(Char), NEW p \in 0..(Len(t) - 1)
  PROVE  /\ Del(t, p) \in Seq(Char) /\ Len(Del(t, p)) = Len(t) - 1
         /\ \A i \in 1..(Len(t) - 1) : Del(t, p)[i] = IF i <= p THEN t[i] ELSE t[i + 1]
<1> DEFINE n == Len(t) - 1
           v(i) == IF i <= p THEN t[i] ELSE t[i + 1]
<1>1. n \in Nat /\ Len(t) \in Nat /\ p \in Nat
  OBVIOUS
<1>2. ASSUME NEW i \in 1..n PROVE v(i) \in Char
  BY <1>1
<1> HIDE DEF v
<1>3. [i \in 1..n |-> v(i)] \in Seq(Char) /\ Len([i \in 1..n |-> v(i)]) = n
  BY <1>1, <1>2
<1> QED
  BY <1>3 DEF Del, v

\* What TextLine says of the two
LEMMA InsIsInsert ==
  ASSUME NEW t \in Seq(Char), NEW x \in Seq(Char), NEW p \in 0..Len(t)
  PROVE  LET s == Ins(t, p, x)
         IN  s = SubSeq(t, 1, p) \o SubSeq(s, p + 1, p + Len(x))
                 \o SubSeq(t, p + 1, Len(t))
<1> DEFINE s == Ins(t, p, x)
           a == SubSeq(t, 1, p)
           b == SubSeq(s, p + 1, p + Len(x))
           c == SubSeq(t, p + 1, Len(t))
<1>1. Len(t) \in Nat /\ Len(x) \in Nat /\ p \in Nat /\ p <= Len(t)
  OBVIOUS
<1>2. /\ s \in Seq(Char) /\ Len(s) = Len(t) + Len(x)
      /\ \A i \in 1..(Len(t) + Len(x)) : s[i] =
           IF i <= p THEN t[i] ELSE IF i <= p + Len(x) THEN x[i - p] ELSE t[i - Len(x)]
  BY InsIsText
<1> HIDE DEF s
<1>3. a \in Seq(Char) /\ Len(a) = p /\ \A i \in 1..p : a[i] = t[i]
  BY <1>1
<1>4. b \in Seq(Char) /\ Len(b) = Len(x) /\ \A i \in 1..Len(x) : b[i] = s[p + i]
  BY <1>1, <1>2
<1>5. c \in Seq(Char) /\ Len(c) = Len(t) - p /\ \A i \in 1..(Len(t) - p) : c[i] = t[p + i]
  BY <1>1
<1> HIDE DEF a, b, c
<1> DEFINE ab == a \o b
           q == ab \o c
<1>6. ab \in Seq(Char) /\ Len(ab) = p + Len(x)
      /\ \A i \in 1..(p + Len(x)) : ab[i] = IF i <= p THEN a[i] ELSE b[i - p]
  <2>1. ab \in Seq(Char) /\ Len(ab) = Len(a) + Len(b)
        /\ \A i \in 1..(Len(a) + Len(b)) : ab[i] = IF i <= Len(a) THEN a[i] ELSE b[i - Len(a)]
    <3>1. a \in Seq(Char) /\ b \in Seq(Char)
      BY <1>3, <1>4
    <3> QED
      BY <3>1, ConcatProperties
  <2> HIDE DEF ab
  <2> QED
    BY <1>3, <1>4, <2>1
<1> HIDE DEF ab
<1>7. q \in Seq(Char) /\ Len(q) = Len(t) + Len(x)
      /\ \A i \in 1..(Len(t) + Len(x)) :
           q[i] = IF i <= p + Len(x) THEN ab[i] ELSE c[i - (p + Len(x))]
  <2>1. q \in Seq(Char) /\ Len(q) = Len(ab) + Len(c)
        /\ \A i \in 1..(Len(ab) + Len(c)) : q[i] = IF i <= Len(ab) THEN ab[i] ELSE c[i - Len(ab)]
    BY <1>5, <1>6, ConcatProperties
  <2>2. Len(ab) + Len(c) = Len(t) + Len(x)
    BY <1>1, <1>5, <1>6
  <2> QED
    BY <1>6, <2>1, <2>2
<1> HIDE DEF q
<1>8. ASSUME NEW i \in 1..(Len(t) + Len(x)) PROVE q[i] = s[i]
  <2>1. CASE i <= p
    <3>1. i \in 1..p /\ i <= p + Len(x) /\ i \in 1..(p + Len(x))
      BY <1>1, <2>1
    <3> QED
      BY <1>2, <1>3, <1>6, <1>7, <2>1, <3>1
  <2>2. CASE ~(i <= p) /\ i <= p + Len(x)
    <3>1. i - p \in 1..Len(x) /\ i \in 1..(p + Len(x)) /\ p + (i - p) = i
      BY <1>1, <2>2
    <3> QED
      BY <1>4, <1>6, <1>7, <2>2, <3>1
  <2>3. CASE ~(i <= p) /\ ~(i <= p + Len(x))
    <3>1. i - (p + Len(x)) \in 1..(Len(t) - p) /\ p + (i - (p + Len(x))) = i - Len(x)
      BY <1>1, <2>3
    <3> QED
      BY <1>2, <1>5, <1>7, <2>3, <3>1
  <2> QED
    BY <2>1, <2>2, <2>3
<1>9. q = s
  BY <1>2, <1>7, <1>8, SeqEqual
<1> QED
  BY <1>9 DEF q, ab, a, b, c, s

\* s is the text before p, and then what t has from its place k on.
LEMMA Joined ==
  ASSUME NEW t \in Seq(Char), NEW p \in 0..(Len(t) - 1)
  PROVE  Del(t, p) = SubSeq(t, 1, p) \o SubSeq(t, p + 2, Len(t))
<1> DEFINE s == Del(t, p)
           a == SubSeq(t, 1, p)
           c == SubSeq(t, p + 2, Len(t))
           q == a \o c
           n == Len(t) - 1
<1>1. Len(t) \in Nat /\ p \in Nat /\ p <= n /\ n \in Nat
  OBVIOUS
<1>2. s \in Seq(Char) /\ Len(s) = n
      /\ \A i \in 1..n : s[i] = IF i <= p THEN t[i] ELSE t[i + 1]
  BY DelIsText
<1> HIDE DEF s
<1>3. a \in Seq(Char) /\ Len(a) = p /\ \A i \in 1..p : a[i] = t[i]
  BY <1>1
<1>4. c \in Seq(Char) /\ Len(c) = n - p /\ \A i \in 1..(n - p) : c[i] = t[p + 1 + i]
  BY <1>1
<1> HIDE DEF a, c
<1>5. q \in Seq(Char) /\ Len(q) = n
      /\ \A i \in 1..n : q[i] = IF i <= p THEN a[i] ELSE c[i - p]
  <2>1. q \in Seq(Char) /\ Len(q) = Len(a) + Len(c)
        /\ \A i \in 1..(Len(a) + Len(c)) : q[i] = IF i <= Len(a) THEN a[i] ELSE c[i - Len(a)]
    BY <1>3, <1>4, ConcatProperties
  <2>2. Len(a) + Len(c) = n
    BY <1>1, <1>3, <1>4
  <2> QED
    BY <1>3, <2>1, <2>2
<1> HIDE DEF q
<1>6. ASSUME NEW i \in 1..n PROVE q[i] = s[i]
  <2>1. CASE i <= p
    BY <1>1, <1>2, <1>3, <1>5, <2>1
  <2>2. CASE ~(i <= p)
    <3>1. i - p \in 1..(n - p) /\ p + 1 + (i - p) = i + 1
      BY <1>1, <2>2
    <3> QED
      BY <1>2, <1>4, <1>5, <2>2, <3>1
  <2> QED
    BY <2>1, <2>2
<1>7. q = s
  BY <1>2, <1>5, <1>6, SeqEqual
<1> QED
  BY <1>7 DEF q, a, c, s

LEMMA DelIsDelete ==
  ASSUME NEW t \in Seq(Char), NEW p \in 0..(Len(t) - 1)
  PROVE  /\ SubSeq(t, p + 1, Len(t)) # <<>>
         /\ Del(t, p) = SubSeq(t, 1, p) \o Tail(SubSeq(t, p + 1, Len(t)))
<1>1. Len(t) \in Nat /\ p + 1 \in 1..Len(t) /\ Len(t) \in (p + 1)..Len(t)
  OBVIOUS
<1>2. Tail(SubSeq(t, p + 1, Len(t))) = SubSeq(t, (p + 1) + 1, Len(t))
  BY <1>1, HeadTailOfSubSeq
<1>3. (p + 1) + 1 = p + 2
  BY <1>1
<1>4. SubSeq(t, p + 1, Len(t)) # <<>>
  <2>1. Len(SubSeq(t, p + 1, Len(t))) # 0
    BY <1>1
  <2>2. Len(<<>>) = 0
    OBVIOUS
  <2> QED
    BY <2>1, <2>2, Zenon
<1>5. Del(t, p) = SubSeq(t, 1, p) \o SubSeq(t, p + 2, Len(t))
  BY Joined
<1>6. Tail(SubSeq(t, p + 1, Len(t))) = SubSeq(t, p + 2, Len(t))
  BY <1>2, <1>3, Zenon
<1> QED
  BY <1>4, <1>5, <1>6, Zenon

LEMMA DelIsErase ==
  ASSUME NEW t \in Seq(Char), NEW p \in 1..Len(t)
  PROVE  Del(t, p - 1) = Front(SubSeq(t, 1, p)) \o SubSeq(t, p + 1, Len(t))
<1>1. Len(t) \in Nat /\ p - 1 \in 0..(Len(t) - 1) /\ (p - 1) + 2 = p + 1
  OBVIOUS
<1> DEFINE a == SubSeq(t, 1, p)
           b == SubSeq(t, 1, p - 1)
           f == SubSeq(a, 1, p - 1)
<1>2. a \in Seq(Char) /\ Len(a) = p /\ \A i \in 1..p : a[i] = t[i]
  BY <1>1
<1>3. b \in Seq(Char) /\ Len(b) = p - 1 /\ \A i \in 1..(p - 1) : b[i] = t[i]
  BY <1>1
<1>4. Front(a) = f
  BY <1>2 DEF Front
<1> HIDE DEF a, b
<1>5. f \in Seq(Char) /\ Len(f) = p - 1 /\ \A i \in 1..(p - 1) : f[i] = a[i]
  BY <1>1, <1>2
<1> HIDE DEF f
<1>6. f = b
  BY <1>1, <1>2, <1>3, <1>5, SeqEqual, SMTT(30)
<1>7. Del(t, p - 1) = b \o SubSeq(t, p + 1, Len(t))
  BY <1>1, Joined DEF b
<1> QED
  BY <1>4, <1>6, <1>7 DEF a

-----------------------------------------------------------------------------
(* The functions of ed.c: the text each of them leaves in the buffer, and  *)
(* where the cursor and the left border of the window are.                 *)
LEMMA WriteIs ==
  ASSUME NEW b \in Line, NEW n \in Nat, NEW x \in Seq(Char), n + Len(x) < LINESIZ
  PROVE  LET w == Write(b, n, x)
         IN  /\ w \in Line /\ w[n + Len(x)] = NUL
             /\ \A i \in 0..(n - 1) : w[i] = b[i]
             /\ \A i \in 1..Len(x) : w[n + i - 1] = x[i]
<1> DEFINE w == Write(b, n, x)
           v(i) == IF i < n THEN b[i] ELSE IF i < n + Len(x) THEN x[i - n + 1]
                   ELSE IF i = n + Len(x) THEN NUL ELSE Junk
<1>1. Len(x) \in Nat /\ LINESIZ \in Nat /\ Cells = 0..(LINESIZ - 1)
  BY Sizes DEF Cells
<1>2. w = [i \in Cells |-> v(i)]
  BY DEF Write
<1>3. ASSUME NEW i \in Cells PROVE v(i) \in Char \cup {NUL, Junk}
  <2>1. CASE i < n
    BY <2>1 DEF Line
  <2>2. CASE ~(i < n) /\ i < n + Len(x)
    <3>1. i - n + 1 \in 1..Len(x)
      BY <1>1, <2>2
    <3> QED
      BY <2>2, <3>1
  <2>3. CASE ~(i < n) /\ ~(i < n + Len(x))
    BY <2>3
  <2> QED
    BY <2>1, <2>2, <2>3
<1> HIDE DEF w
<1>4. w \in Line
  <2> HIDE DEF v
  <2> QED
    BY <1>2, <1>3 DEF Line
<1>5. w[n + Len(x)] = NUL
  BY <1>1, <1>2
<1>6. ASSUME NEW i \in 0..(n - 1) PROVE w[i] = b[i]
  BY <1>1, <1>2
<1>7. ASSUME NEW i \in 1..Len(x) PROVE w[n + i - 1] = x[i]
  <2>1. n + i - 1 \in Cells /\ ~(n + i - 1 < n) /\ n + i - 1 < n + Len(x)
        /\ n + i - 1 - n + 1 = i
    BY <1>1
  <2> QED
    BY <1>2, <2>1
<1> QED
  BY <1>4, <1>5, <1>6, <1>7 DEF w

\* ed_append() appends what there is room for, and the cursor is at the end.
LEMMA Appends ==
  ASSUME NEW r, NEW t, Begins(r, t), NEW x \in Seq(Char), Len(t) + Len(x) < LINESIZ
  PROVE  LET q == ed_append(r, x)
         IN  /\ Holds(q, t \o x) /\ q.linepos = q.linelen /\ q.linelen = Len(t) + Len(x)
             /\ q.leftpos = IF q.linelen + 1 > StatW THEN q.linelen + 1 - StatW ELSE r.leftpos
<1> DEFINE n == Len(t) + Len(x)
           w == Write(r.linebuf, Len(t), x)
           p == [linebuf |-> w, linelen |-> n, linepos |-> n, leftpos |-> r.leftpos]
           q == ed_append(r, x)
<1>1. /\ t \in Seq(Char) /\ Len(t) \in Nat /\ Len(x) \in Nat /\ n \in Nat /\ n < LINESIZ
      /\ LINESIZ \in Nat /\ StatW \in Nat \ {0} /\ r \in Record /\ r.linelen = Len(t)
      /\ r.linebuf \in Line /\ r.leftpos \in Nat
      /\ \A i \in 1..Len(t) : r.linebuf[i - 1] = t[i]
  BY Sizes DEF Begins, Record
<1>2. /\ w \in Line /\ w[n] = NUL
      /\ \A i \in 0..(Len(t) - 1) : w[i] = r.linebuf[i]
      /\ \A i \in 1..Len(x) : w[Len(t) + i - 1] = x[i]
  BY <1>1, WriteIs
<1> HIDE DEF w
<1>3. q = Scrolled(p)
  BY <1>1 DEF ed_append, w
<1>4. p \in Record
  BY <1>1, <1>2 DEF Record
<1>5. /\ q \in Record /\ q.linebuf = w /\ q.linelen = n /\ q.linepos = n
      /\ q.leftpos = IF n + 1 > StatW THEN n + 1 - StatW ELSE r.leftpos
  <2>1. p.linebuf = w /\ p.linelen = n /\ p.linepos = n /\ p.leftpos = r.leftpos
    OBVIOUS
  <2> HIDE DEF p, q
  <2>2. CASE n + 1 > StatW
    <3>1. n + 1 - StatW \in Nat
      BY <1>1, <2>2
    <3>2. q = [p EXCEPT !.leftpos = n + 1 - StatW]
      BY <1>3, <2>1, <2>2 DEF Scrolled
    <3> QED
      BY <1>4, <2>1, <2>2, <3>1, <3>2 DEF Record
  <2>3. CASE ~(n + 1 > StatW)
    <3>1. q = p
      BY <1>3, <2>1, <2>3 DEF Scrolled
    <3> QED
      BY <1>4, <2>1, <2>3, <3>1
  <2> QED
    BY <2>2, <2>3
<1> HIDE DEF p, q
<1>6. /\ t \o x \in Seq(Char) /\ Len(t \o x) = n
      /\ \A i \in 1..n : (t \o x)[i] = IF i <= Len(t) THEN t[i] ELSE x[i - Len(t)]
  BY <1>1, ConcatProperties
<1>7. ASSUME NEW i \in 1..n PROVE w[i - 1] = (t \o x)[i]
  <2>1. CASE i <= Len(t)
    <3>1. i \in 1..Len(t) /\ i - 1 \in 0..(Len(t) - 1)
      BY <1>1, <2>1
    <3> QED
      BY <1>1, <1>2, <1>6, <2>1, <3>1
  <2>2. CASE ~(i <= Len(t))
    <3>1. i - Len(t) \in 1..Len(x) /\ Len(t) + (i - Len(t)) - 1 = i - 1
      BY <1>1, <2>2
    <3> QED
      BY <1>2, <1>6, <2>2, <3>1
  <2> QED
    BY <2>1, <2>2
<1>8. Holds(q, t \o x)
  BY <1>1, <1>2, <1>5, <1>6, <1>7 DEF Holds, Begins
<1> QED
  BY <1>5, <1>8 DEF q

LEMMA Refuses ==
  ASSUME NEW r, NEW t, Begins(r, t), NEW x \in Seq(Char), ~(Len(t) + Len(x) < LINESIZ)
  PROVE  ed_append(r, x) = r
<1>1. r.linelen = Len(t) /\ Len(t) \in Nat /\ Len(x) \in Nat /\ LINESIZ \in Nat
  BY Sizes DEF Begins
<1> QED
  BY <1>1 DEF ed_append

\* Emptied() leaves a buffer that begins with nothing.
LEMMA Empties ==
  ASSUME NEW r \in Record
  PROVE  Begins(Emptied(r), <<>>) /\ Emptied(r).leftpos = r.leftpos
<1>1. Emptied(r) \in Record /\ Emptied(r).linelen = 0 /\ Emptied(r).leftpos = r.leftpos
  BY DEF Emptied, Record
<1> HIDE DEF Emptied
<1> QED
  BY <1>1, Sizes DEF Begins

LEMMA EmptyHolds ==
  Holds(Empty, <<>>) /\ Empty.linepos = 0 /\ Empty.leftpos = 0 /\ Empty.linelen = 0
<1> DEFINE b == [i \in Cells |-> Junk]
           w == Write(b, 0, <<>>)
<1>1. b \in Line /\ <<>> \in Seq(Char) /\ Len(<<>>) = 0 /\ 0 + 0 < LINESIZ /\ LINESIZ \in Nat
  BY Sizes DEF Line
<1>2. w \in Line /\ w[0 + Len(<<>>)] = NUL
  <2> HIDE DEF b
  <2>1. 0 \in Nat /\ 0 + Len(<<>>) < LINESIZ
    BY <1>1
  <2> QED
    BY <1>1, <2>1, WriteIs
<1>3. Empty = [linebuf |-> w, linelen |-> 0, linepos |-> 0, leftpos |-> 0]
  BY DEF Empty
<1> HIDE DEF w, Empty
<1>4. Empty \in Record
  BY <1>2, <1>3 DEF Record
<1> QED
  BY <1>1, <1>2, <1>3, <1>4 DEF Holds, Begins

LEMMA Fields ==
  ASSUME NEW r \in Record, NEW b \in Line, NEW n \in Nat
  PROVE  LET q == [r EXCEPT !.linelen = n, !.linebuf = b]
         IN  /\ q \in Record /\ q.linelen = n /\ q.linebuf = b
             /\ q.linepos = r.linepos /\ q.leftpos = r.leftpos
BY DEF Record

\* b has room for n characters behind the first p of t.
Gap(b, t, p, n) ==
  /\ b \in Line /\ b[Len(t) + n] = NUL
  /\ \A i \in 1..p : b[i - 1] = t[i]
  /\ \A i \in (p + 1)..Len(t) : b[i + n - 1] = t[i]

LEMMA Filled ==
  ASSUME NEW t \in Seq(Char), NEW x \in Seq(Char), NEW p \in 0..Len(t), NEW b,
         Len(t) + Len(x) < LINESIZ, Gap(b, t, p, Len(x)),
         NEW q \in Record, q.linelen = Len(t) + Len(x),
         \A i \in Cells : q.linebuf[i] = IF i \in p..(p + Len(x) - 1) THEN x[i - p + 1] ELSE b[i]
  PROVE  Holds(q, Ins(t, p, x))
<1> DEFINE n == Len(t) + Len(x)
           s == Ins(t, p, x)
<1>1. /\ Len(t) \in Nat /\ Len(x) \in Nat /\ p \in Nat /\ p <= Len(t) /\ n \in Nat
      /\ n < LINESIZ /\ LINESIZ \in Nat /\ Cells = 0..(LINESIZ - 1)
  BY Sizes DEF Cells
<1>2. /\ s \in Seq(Char) /\ Len(s) = n
      /\ \A i \in 1..n : s[i] =
           IF i <= p THEN t[i] ELSE IF i <= p + Len(x) THEN x[i - p] ELSE t[i - Len(x)]
  BY InsIsText
<1> HIDE DEF s
<1>3. q.linebuf[n] = NUL
  <2>1. n \in Cells /\ n \notin p..(p + Len(x) - 1)
    BY <1>1
  <2> QED
    BY <2>1 DEF Gap
<1>4. ASSUME NEW i \in 1..n PROVE q.linebuf[i - 1] = s[i]
  <2>1. i - 1 \in Cells
    BY <1>1
  <2>2. CASE i <= p
    <3>1. i \in 1..p /\ i - 1 \notin p..(p + Len(x) - 1)
      BY <1>1, <2>2
    <3> QED
      BY <1>2, <2>1, <2>2, <3>1 DEF Gap
  <2>3. CASE ~(i <= p) /\ i <= p + Len(x)
    <3>1. i - 1 \in p..(p + Len(x) - 1) /\ i - 1 - p + 1 = i - p
      BY <1>1, <2>3
    <3> QED
      BY <1>2, <2>1, <2>3, <3>1
  <2>4. CASE ~(i <= p) /\ ~(i <= p + Len(x))
    <3>1. i - 1 \notin p..(p + Len(x) - 1) /\ i - Len(x) \in (p + 1)..Len(t)
          /\ (i - Len(x)) + Len(x) - 1 = i - 1
      BY <1>1, <2>4
    <3>2. b[(i - Len(x)) + Len(x) - 1] = t[i - Len(x)]
      BY <3>1 DEF Gap
    <3> QED
      BY <1>2, <2>1, <2>4, <3>1, <3>2
  <2> QED
    BY <2>2, <2>3, <2>4
<1> QED
  BY <1>1, <1>2, <1>3, <1>4 DEF Holds, Begins, s

\* linebuf_insch() makes room.
LEMMA InsertsCells ==
  ASSUME NEW r, NEW t, Holds(r, t), r.linepos <= r.linelen,
         NEW n \in Nat, Len(t) + n < LINESIZ
  PROVE  LET q == linebuf_insch(r, n)
         IN  /\ q \in Record /\ q.linelen = Len(t) + n
             /\ q.linepos = r.linepos /\ q.leftpos = r.leftpos
             /\ Gap(q.linebuf, t, r.linepos, n)
<1> DEFINE p == r.linepos
           v(i) == IF i >= p + n /\ i <= r.linelen + n THEN r.linebuf[i - n] ELSE r.linebuf[i]
           w == [i \in Cells |-> v(i)]
           q == linebuf_insch(r, n)
<1>1. /\ t \in Seq(Char) /\ Len(t) \in Nat /\ r \in Record /\ r.linelen = Len(t)
      /\ LINESIZ \in Nat /\ Cells = 0..(LINESIZ - 1) /\ p \in Nat /\ p <= Len(t)
      /\ r.linebuf \in [Cells -> Char \cup {NUL, Junk}]
      /\ r.linebuf[Len(t)] = NUL /\ \A i \in 1..Len(t) : r.linebuf[i - 1] = t[i]
  BY Sizes DEF Holds, Begins, Record, Cells, Line
<1>2. ASSUME NEW i \in Cells PROVE v(i) \in Char \cup {NUL, Junk}
  <2>1. CASE i >= p + n /\ i <= r.linelen + n
    <3>1. i - n \in Cells
      BY <1>1, <2>1
    <3> QED
      BY <1>1, <2>1, <3>1
  <2> QED
    BY <1>1, <2>1
<1>3. w \in Line
  <2> HIDE DEF v
  <2> QED
    BY <1>2 DEF Line
<1>4. w[Len(t) + n] = NUL
  <2>1. Len(t) + n \in Cells /\ Len(t) + n >= p + n /\ Len(t) + n - n = Len(t)
    BY <1>1
  <2> QED
    BY <1>1, <2>1
<1>5. ASSUME NEW i \in 1..p PROVE w[i - 1] = t[i]
  <2>1. i - 1 \in Cells /\ ~(i - 1 >= p + n) /\ i \in 1..Len(t)
    BY <1>1
  <2> QED
    BY <1>1, <2>1
<1>6. ASSUME NEW i \in (p + 1)..Len(t) PROVE w[i + n - 1] = t[i]
  <2>1. i + n - 1 \in Cells /\ i + n - 1 >= p + n /\ i + n - 1 <= r.linelen + n
        /\ i + n - 1 - n = i - 1 /\ i \in 1..Len(t)
    BY <1>1
  <2> QED
    BY <1>1, <2>1
<1>7. q = [r EXCEPT !.linelen = r.linelen + n, !.linebuf = w]
  BY DEF linebuf_insch
<1> HIDE DEF w, q
<1>8. q \in Record /\ q.linelen = Len(t) + n /\ q.linepos = p /\ q.leftpos = r.leftpos
      /\ q.linebuf = w
  <2> DEFINE m == r.linelen + n
  <2>1. m \in Nat /\ m = Len(t) + n
    BY <1>1
  <2>4. r \in Record /\ m \in Nat
    BY <1>1, <2>1
  <2> HIDE DEF m
  <2>2. LET z == [r EXCEPT !.linelen = m, !.linebuf = w]
        IN  /\ z \in Record /\ z.linelen = m /\ z.linebuf = w
            /\ z.linepos = r.linepos /\ z.leftpos = r.leftpos
    BY <1>3, <2>4, Fields
  <2>3. q = [r EXCEPT !.linelen = m, !.linebuf = w]
    BY <1>7 DEF m
  <2> QED
    BY <2>1, <2>2, <2>3
<1> QED
  BY <1>3, <1>4, <1>5, <1>6, <1>8 DEF Gap, q

\* So does what comes before a character, also at the end of the line.
LEMMA MakesRoom ==
  ASSUME NEW r, NEW t, Holds(r, t), r.linepos <= r.linelen, Len(t) + 1 < LINESIZ
  PROVE  LET q == Room(r)
         IN  /\ q \in Record /\ q.linelen = Len(t) + 1
             /\ q.linepos = r.linepos /\ q.leftpos = r.leftpos
             /\ Gap(q.linebuf, t, r.linepos, 1)
<1>1. CASE r.linepos # r.linelen
  <2>1. Room(r) = linebuf_insch(r, 1)
    BY <1>1 DEF Room
  <2> QED
    BY <2>1, InsertsCells
<1>2. CASE r.linepos = r.linelen
  <2> DEFINE q == [r EXCEPT !.linelen = r.linelen + 1, !.linebuf[r.linepos + 1] = NUL]
             n == Len(t)
  <2>1. Room(r) = q
    BY <1>2 DEF Room
  <2>2. /\ t \in Seq(Char) /\ n \in Nat /\ r \in Record /\ r.linelen = n /\ r.linepos = n
        /\ LINESIZ \in Nat /\ Cells = 0..(LINESIZ - 1) /\ n + 1 \in Cells
        /\ r.linebuf \in [Cells -> Char \cup {NUL, Junk}]
        /\ \A i \in 1..n : r.linebuf[i - 1] = t[i]
    BY <1>2, Sizes DEF Holds, Begins, Record, Cells, Line
  <2>3. q \in Record /\ q.linelen = n + 1 /\ q.linepos = n /\ q.leftpos = r.leftpos
        /\ q.linebuf = [r.linebuf EXCEPT ![n + 1] = NUL]
    <3> DEFINE b == [r.linebuf EXCEPT ![n + 1] = NUL]
    <3>1. b \in Line
      BY <2>2 DEF Line
    <3>2. q = [r EXCEPT !.linelen = n + 1, !.linebuf = b]
      BY <2>2
    <3> HIDE DEF b, q
    <3>3. q \in Record /\ q.linelen = n + 1 /\ q.linepos = n /\ q.leftpos = r.leftpos
          /\ q.linebuf = b
      <4> DEFINE m == n + 1
      <4>1. m \in Nat
        BY <2>2
      <4> HIDE DEF m
      <4>3. r \in Record /\ b \in Line /\ m \in Nat
        BY <2>2, <3>1, <4>1
      <4>2. LET z == [r EXCEPT !.linelen = m, !.linebuf = b]
            IN  /\ z \in Record /\ z.linelen = m /\ z.linebuf = b
                /\ z.linepos = r.linepos /\ z.leftpos = r.leftpos
        BY <4>3, Fields, ZenonT(30)
      <4> QED
        BY <2>2, <3>2, <4>2 DEF m
    <3> QED
      BY <3>3 DEF b
  <2> HIDE DEF q
  <2>4. q.linebuf \in Line /\ q.linebuf[n + 1] = NUL
    BY <2>2, <2>3 DEF Record
  <2>5. \A i \in 1..n : q.linebuf[i - 1] = t[i]
    BY <2>2, <2>3
  <2>6. (n + 1)..n = {}
    BY <2>2
  <2> QED
    BY <2>1, <2>2, <2>3, <2>4, <2>5, <2>6 DEF Gap
<1> QED
  BY <1>1, <1>2

Within(r) == r.leftpos <= r.linepos /\ r.linepos <= r.linelen

\* A character that is typed goes where the cursor is.
LEMMA Types ==
  ASSUME NEW r, NEW t, Holds(r, t), Within(r), r.linelen + 1 < LINESIZ, NEW c \in Char
  PROVE  LET q == type_char(r, c)
         IN  /\ Holds(q, Ins(t, r.linepos, <<c>>)) /\ q.linelen = r.linelen + 1
             /\ q.linepos = r.linepos + 1
             /\ q.leftpos = IF r.linepos - r.leftpos = StatW - 1 THEN r.leftpos + 1 ELSE r.leftpos
<1> DEFINE s == Shifted(r)
           m == Room(s)
           q == type_char(r, c)
           p == r.linepos
           l == IF p - r.leftpos = StatW - 1 THEN r.leftpos + 1 ELSE r.leftpos
           x == <<c>>
<1>1. /\ t \in Seq(Char) /\ Len(t) \in Nat /\ r \in Record /\ r.linelen = Len(t) /\ p \in Nat
      /\ p <= Len(t) /\ Len(t) + 1 < LINESIZ /\ r.leftpos \in Nat /\ l \in Nat
      /\ LINESIZ \in Nat /\ Cells = 0..(LINESIZ - 1)
  BY Sizes DEF Holds, Begins, Record, Within, Cells
<1>2. /\ s \in Record /\ s.linebuf = r.linebuf /\ s.linelen = r.linelen /\ s.linepos = p
      /\ s.leftpos = l
  <2>1. CASE AtBorder(r)
    <3>1. s = [r EXCEPT !.leftpos = r.leftpos + 1]
      BY <2>1 DEF Shifted
    <3>2. r.leftpos + 1 \in Nat /\ l = r.leftpos + 1
      BY <1>1, <2>1 DEF AtBorder
    <3> HIDE DEF l, s
    <3> QED
      BY <1>1, <3>1, <3>2 DEF Record
  <2>2. CASE ~AtBorder(r)
    BY <1>1, <2>2 DEF Shifted, AtBorder
  <2> QED
    BY <2>1, <2>2
<1> HIDE DEF l, s
<1>3. Holds(s, t) /\ s.linepos <= s.linelen
  BY <1>1, <1>2 DEF Holds, Begins
<1>4. /\ m \in Record /\ m.linelen = Len(t) + 1 /\ m.linepos = p /\ m.leftpos = l
      /\ Gap(m.linebuf, t, p, 1)
  BY <1>1, <1>2, <1>3, MakesRoom
<1>5. q = [m EXCEPT !.linebuf[m.linepos] = c, !.linepos = m.linepos + 1]
  BY DEF type_char, Put, s
<1> HIDE DEF m, q
<1> DEFINE w == [m.linebuf EXCEPT ![p] = c]
<1>6. p \in Cells /\ m.linebuf \in [Cells -> Char \cup {NUL, Junk}]
  BY <1>1, <1>4 DEF Record, Line
<1>7. w \in Line /\ \A i \in Cells : w[i] = IF i = p THEN c ELSE m.linebuf[i]
  BY <1>6 DEF Line
<1>8. q = [m EXCEPT !.linebuf = w, !.linepos = p + 1]
  BY <1>4, <1>5
<1> HIDE DEF w
<1>9. /\ q \in Record /\ q.linelen = Len(t) + 1 /\ q.linepos = p + 1 /\ q.leftpos = l
      /\ q.linebuf = w
  <2> DEFINE k == p + 1
  <2>1. k \in Nat
    BY <1>1
  <2> HIDE DEF k
  <2>2. LET z == [m EXCEPT !.linebuf = w, !.linepos = k]
        IN  /\ z \in Record /\ z.linelen = m.linelen /\ z.linepos = k
            /\ z.leftpos = m.leftpos /\ z.linebuf = w
    BY <1>4, <1>7, <2>1 DEF Record
  <2>3. q = [m EXCEPT !.linebuf = w, !.linepos = k]
    BY <1>8 DEF k
  <2>4. /\ q \in Record /\ q.linelen = m.linelen /\ q.linepos = k /\ q.leftpos = m.leftpos
        /\ q.linebuf = w
    BY <2>2, <2>3
  <2> QED
    BY <1>4, <2>4 DEF k
<1>10. x \in Seq(Char) /\ Len(x) = 1 /\ x[1] = c
  OBVIOUS
<1> HIDE DEF x
<1>11. \A i \in Cells : q.linebuf[i] = IF i \in p..(p + Len(x) - 1) THEN x[i - p + 1]
                                       ELSE m.linebuf[i]
  <2> SUFFICES ASSUME NEW i \in Cells
               PROVE  w[i] = IF i \in p..(p + Len(x) - 1) THEN x[i - p + 1] ELSE m.linebuf[i]
    BY <1>9
  <2>1. i \in p..(p + Len(x) - 1) <=> i = p
    BY <1>1, <1>10
  <2>2. p - p + 1 = 1
    BY <1>1
  <2> QED
    BY <1>7, <1>10, <2>1, <2>2
<1>12. Holds(q, Ins(t, p, x))
  <2>1. p \in 0..Len(t) /\ Len(t) + Len(x) < LINESIZ /\ q.linelen = Len(t) + Len(x)
    BY <1>1, <1>9, <1>10
  <2>2. Gap(m.linebuf, t, p, Len(x))
    BY <1>4, <1>10
  <2> QED
    BY <1>1, <1>9, <1>10, <1>11, <2>1, <2>2, Filled
<1> QED
  BY <1>1, <1>9, <1>12 DEF q, l, x

LEMMA FieldsOfMove ==
  ASSUME NEW r \in Record, NEW k \in Nat, NEW l \in Nat
  PROVE  LET q == [r EXCEPT !.linepos = k, !.leftpos = l]
             z == [r EXCEPT !.leftpos = l, !.linepos = k]
             y == [r EXCEPT !.leftpos = l]
             x == [r EXCEPT !.linepos = k]
         IN  /\ q \in Record /\ q.linelen = r.linelen /\ q.linebuf = r.linebuf
             /\ q.linepos = k /\ q.leftpos = l
             /\ z \in Record /\ z.linelen = r.linelen /\ z.linebuf = r.linebuf
             /\ z.linepos = k /\ z.leftpos = l
             /\ y \in Record /\ y.linelen = r.linelen /\ y.linebuf = r.linebuf
             /\ y.linepos = r.linepos /\ y.leftpos = l
             /\ x \in Record /\ x.linelen = r.linelen /\ x.linebuf = r.linebuf
             /\ x.linepos = k /\ x.leftpos = r.leftpos
BY DEF Record

\* The text stays what it is where the cursor and the window are moved.
LEMMA Stays ==
  ASSUME NEW r, NEW t, Holds(r, t), NEW q \in Record,
         q.linelen = r.linelen, q.linebuf = r.linebuf
  PROVE  Holds(q, t)
BY DEF Holds, Begins

LEMMA DeletesCells ==
  ASSUME NEW r, NEW t, Holds(r, t), r.linepos < r.linelen
  PROVE  LET q == linebuf_delch(r)
         IN  /\ Holds(q, Del(t, r.linepos)) /\ q.linelen = r.linelen - 1
             /\ q.linepos = r.linepos /\ q.leftpos = r.leftpos
<1> DEFINE p == r.linepos
           n == Len(t)
           b == r.linebuf
           v(i) == IF i \in p..(n - 1) THEN b[i + 1] ELSE IF i = n THEN Junk ELSE b[i]
           w == [i \in Cells |-> v(i)]
           q == linebuf_delch(r)
           s == Del(t, p)
<1>1. /\ t \in Seq(Char) /\ n \in Nat /\ r \in Record /\ r.linelen = n /\ p \in Nat /\ p < n
      /\ n - 1 \in Nat /\ LINESIZ \in Nat /\ Cells = 0..(LINESIZ - 1) /\ n < LINESIZ
      /\ b \in [Cells -> Char \cup {NUL, Junk}]
      /\ b[n] = NUL /\ \A i \in 1..n : b[i - 1] = t[i]
  BY Sizes DEF Holds, Begins, Record, Cells, Line
<1>2. ASSUME NEW i \in Cells PROVE v(i) \in Char \cup {NUL, Junk}
  <2>1. CASE i \in p..(n - 1)
    <3>1. i + 1 \in Cells
      BY <1>1, <2>1
    <3> QED
      BY <1>1, <2>1, <3>1
  <2> QED
    BY <1>1, <2>1
<1>3. w \in Line
  <2> HIDE DEF v
  <2> QED
    BY <1>2 DEF Line
<1>4. w[n - 1] = NUL
  <2>1. n - 1 \in Cells /\ n - 1 \in p..(n - 1) /\ n - 1 + 1 = n
    BY <1>1
  <2> QED
    BY <1>1, <2>1
<1>5. s \in Seq(Char) /\ Len(s) = n - 1
      /\ \A i \in 1..(n - 1) : s[i] = IF i <= p THEN t[i] ELSE t[i + 1]
  <2>1. p \in 0..(Len(t) - 1) /\ t \in Seq(Char)
    BY <1>1
  <2> HIDE DEF p
  <2> QED
    BY <2>1, DelIsText
<1> HIDE DEF s
<1>6. ASSUME NEW i \in 1..(n - 1) PROVE w[i - 1] = s[i]
  <2>1. CASE i <= p
    <3>1. i - 1 \in Cells /\ i - 1 \notin p..(n - 1) /\ i - 1 # n /\ i \in 1..n
      BY <1>1, <2>1
    <3> QED
      BY <1>1, <1>5, <2>1, <3>1
  <2>2. CASE ~(i <= p)
    <3>1. i - 1 \in Cells /\ i - 1 \in p..(n - 1) /\ i - 1 + 1 = (i + 1) - 1 /\ i + 1 \in 1..n
      BY <1>1, <2>2
    <3> QED
      BY <1>1, <1>5, <2>2, <3>1
  <2> QED
    BY <2>1, <2>2
<1>7. q = [r EXCEPT !.linelen = r.linelen - 1, !.linebuf = w]
  BY <1>1 DEF linebuf_delch
<1> HIDE DEF w, q
<1>8. q \in Record /\ q.linelen = n - 1 /\ q.linepos = p /\ q.leftpos = r.leftpos
      /\ q.linebuf = w
  <2> DEFINE m == r.linelen - 1
  <2>1. m \in Nat /\ m = n - 1
    BY <1>1
  <2>4. r \in Record /\ m \in Nat
    BY <1>1, <2>1
  <2> HIDE DEF m
  <2>2. LET z == [r EXCEPT !.linelen = m, !.linebuf = w]
        IN  /\ z \in Record /\ z.linelen = m /\ z.linebuf = w
            /\ z.linepos = r.linepos /\ z.leftpos = r.leftpos
    BY <1>3, <2>4, Fields
  <2>3. q = [r EXCEPT !.linelen = m, !.linebuf = w]
    BY <1>7 DEF m
  <2> QED
    BY <2>1, <2>2, <2>3
<1>9. Holds(q, s)
  <2>1. Len(s) < LINESIZ /\ q.linelen = Len(s)
    BY <1>1, <1>5, <1>8
  <2>2. \A i \in 1..Len(s) : q.linebuf[i - 1] = s[i]
    BY <1>5, <1>6, <1>8
  <2>3. q.linebuf[Len(s)] = NUL
    BY <1>4, <1>5, <1>8
  <2>4. q \in Record /\ s \in Seq(Char)
    BY <1>5, <1>8
  <2> HIDE DEF v, b, n, p
  <2> QED
    BY <2>1, <2>2, <2>3, <2>4 DEF Holds, Begins
<1> QED
  BY <1>1, <1>8, <1>9 DEF q, s

\* <DEL> takes out the character at the cursor, Backspace the one before.
LEMMA Deletes ==
  ASSUME NEW r, NEW t, Holds(r, t), r.linepos < r.linelen
  PROVE  LET q == del_char(r)
         IN  /\ Holds(q, Del(t, r.linepos)) /\ q.linelen = r.linelen - 1
             /\ q.linepos = r.linepos
             /\ q.leftpos = IF r.leftpos > 0 THEN r.leftpos - 1 ELSE r.leftpos
<1> DEFINE m == linebuf_delch(r)
<1>1. /\ Holds(m, Del(t, r.linepos)) /\ m.linelen = r.linelen - 1
      /\ m.linepos = r.linepos /\ m.leftpos = r.leftpos
  BY DeletesCells
<1>2. m \in Record /\ m.leftpos \in Nat
  BY <1>1 DEF Holds, Begins, Record
<1>3. del_char(r) = overful_del(m)
  BY DEF del_char
<1> HIDE DEF m
<1>4. CASE m.leftpos > 0
  <2> DEFINE l == m.leftpos - 1
  <2>1. l \in Nat /\ 0 \in Nat
    BY <1>2, <1>4
  <2>2. del_char(r) = [m EXCEPT !.leftpos = l]
    BY <1>3, <1>4 DEF overful_del
  <2>5. l = r.leftpos - 1 /\ r.leftpos > 0
    BY <1>1, <1>4
  <2> HIDE DEF l
  <2> DEFINE y == [m EXCEPT !.leftpos = l]
  <2>3. /\ y \in Record /\ y.linelen = m.linelen /\ y.linebuf = m.linebuf
        /\ y.linepos = m.linepos /\ y.leftpos = l
    <3>1. m \in Record /\ l \in Nat /\ 0 \in Nat
      BY <1>2, <2>1
    <3> QED
      BY <3>1, FieldsOfMove, ZenonT(30)
  <2> HIDE DEF y
  <2>4. Holds(y, Del(t, r.linepos))
    BY <1>1, <2>3, Stays
  <2> QED
    BY <1>1, <2>2, <2>3, <2>4, <2>5 DEF y
<1>5. CASE ~(m.leftpos > 0)
  <2>1. del_char(r) = m
    BY <1>3, <1>5 DEF overful_del
  <2> QED
    BY <1>1, <1>5, <2>1
<1> QED
  BY <1>4, <1>5

LEMMA Erases ==
  ASSUME NEW r, NEW t, Holds(r, t), 0 < r.linepos, r.linepos <= r.linelen
  PROVE  LET q == backspace(r)
         IN  /\ Holds(q, Del(t, r.linepos - 1)) /\ q.linelen = r.linelen - 1
             /\ q.linepos = r.linepos - 1
             /\ q.leftpos = IF r.leftpos > 0 THEN r.leftpos - 1 ELSE r.leftpos
<1> DEFINE k == r.linepos - 1
           m == [r EXCEPT !.linepos = k]
<1>1. r \in Record /\ r.linepos \in Nat /\ r.linelen \in Nat
  BY DEF Holds, Begins, Record
<1>2. k \in Nat /\ k < r.linelen /\ 0 \in Nat
  BY <1>1
<1>5. backspace(r) = del_char(m)
  BY DEF backspace
<1> HIDE DEF k
<1>3. /\ m \in Record /\ m.linelen = r.linelen /\ m.linebuf = r.linebuf
      /\ m.linepos = k /\ m.leftpos = r.leftpos
  BY <1>1, <1>2, FieldsOfMove
<1> HIDE DEF m
<1>4. Holds(m, t)
  BY <1>3, Stays
<1> DEFINE q == del_char(m)
<1>6. /\ Holds(q, Del(t, m.linepos)) /\ q.linelen = m.linelen - 1
      /\ q.linepos = m.linepos
      /\ q.leftpos = IF m.leftpos > 0 THEN m.leftpos - 1 ELSE m.leftpos
  BY <1>2, <1>3, <1>4, Deletes
<1> QED
  BY <1>3, <1>5, <1>6 DEF k

\* A function key puts its text in.
FkeyLine(r) ==
  LET l == Len(FkeyText)
  IN  [linebuf_insch(r, l) EXCEPT
         !.linepos = @ + l,
         !.linebuf = [i \in Cells |-> IF i \in r.linepos..(r.linepos + l - 1)
                                      THEN FkeyText[i - r.linepos + 1] ELSE @[i]]]
LEMMA Inserts ==
  ASSUME NEW r, NEW t, Holds(r, t), Within(r), r.linelen + Len(FkeyText) < LINESIZ
  PROVE  LET q == FkeyLine(r)
         IN  /\ Holds(q, Ins(t, r.linepos, FkeyText)) /\ q.linelen = r.linelen + Len(FkeyText)
             /\ q.linepos = r.linepos + Len(FkeyText) /\ q.leftpos = r.leftpos
<1> DEFINE x == FkeyText
           n == Len(x)
           p == r.linepos
           m == linebuf_insch(r, n)
           v(i) == IF i \in p..(p + n - 1) THEN x[i - p + 1] ELSE m.linebuf[i]
           w == [i \in Cells |-> v(i)]
           q == FkeyLine(r)
<1>1. /\ t \in Seq(Char) /\ Len(t) \in Nat /\ r \in Record /\ r.linelen = Len(t) /\ p \in Nat
      /\ p <= Len(t) /\ Len(t) + n < LINESIZ /\ x \in Seq(Char) /\ n \in Nat
      /\ LINESIZ \in Nat /\ Cells = 0..(LINESIZ - 1)
  BY Sizes, LineEditorAssumption DEF Holds, Begins, Record, Within, Cells
<1>2. /\ m \in Record /\ m.linelen = Len(t) + n /\ m.linepos = p /\ m.leftpos = r.leftpos
      /\ Gap(m.linebuf, t, p, n)
  BY <1>1, InsertsCells
<1>3. q = [m EXCEPT !.linepos = m.linepos + n, !.linebuf = w]
  BY DEF FkeyLine
<1> HIDE DEF m, q
<1>4. ASSUME NEW i \in Cells PROVE v(i) \in Char \cup {NUL, Junk}
  <2>1. CASE i \in p..(p + n - 1)
    <3>1. i - p + 1 \in 1..n
      BY <1>1, <2>1, SMTT(30)
    <3> QED
      BY <1>1, <2>1, <3>1
  <2>2. CASE i \notin p..(p + n - 1)
    BY <1>2, <2>2 DEF Gap, Line
  <2> QED
    BY <2>1, <2>2
<1>5. w \in Line /\ \A i \in Cells : w[i] = v(i)
  <2> HIDE DEF v
  <2> QED
    BY <1>4 DEF Line
<1> HIDE DEF w
<1>6. q \in Record /\ q.linelen = Len(t) + n /\ q.linepos = p + n /\ q.leftpos = r.leftpos
      /\ q.linebuf = w
  <2> DEFINE k == m.linepos + n
  <2>1. k \in Nat /\ k = p + n
    BY <1>1, <1>2
  <2>5. q = [m EXCEPT !.linepos = k, !.linebuf = w]
    BY <1>3
  <2> HIDE DEF k
  <2>2. LET z == [m EXCEPT !.linepos = k, !.linebuf = w]
        IN  /\ z \in Record /\ z.linelen = m.linelen /\ z.linepos = k
            /\ z.leftpos = m.leftpos /\ z.linebuf = w
    <3>1. m \in Record /\ w \in Line /\ k \in Nat
      BY <1>2, <1>5, <2>1
    <3> QED
      BY <3>1 DEF Record
  <2> QED
    BY <1>2, <2>1, <2>2, <2>5
<1>7. Holds(q, Ins(t, p, x))
  <2>1. /\ p \in 0..Len(t) /\ q.linelen = Len(t) + Len(x) /\ t \in Seq(Char) /\ x \in Seq(Char)
        /\ q \in Record /\ Len(t) + Len(x) < LINESIZ /\ Gap(m.linebuf, t, p, Len(x))
    BY <1>1, <1>2, <1>6
  <2>2. \A i \in Cells : q.linebuf[i] = IF i \in p..(p + Len(x) - 1) THEN x[i - p + 1]
                                        ELSE m.linebuf[i]
    BY <1>5, <1>6
  <2> HIDE DEF x, n, p
  <2> QED
    BY <2>1, <2>2, Filled
<1> QED
  BY <1>1, <1>6, <1>7 DEF q

-----------------------------------------------------------------------------
(* The invariant.  The buffer holds the text that is read from it; the     *)
(* cursor is in the line and not left of the window; outside of a dialog   *)
(* it is at the end; a buffer that was freed is empty; and the lines of a  *)
(* history fit in the buffer and are no more than histsize.                *)
Histories == [lines : Seq(Seq(Char)), have_ent : BOOLEAN, ent : Nat]
Kind(h) ==
  /\ h \in Histories
  /\ Len(h.lines) <= HistSize /\ (HistSize < 2 => h.lines = <<>>)
  /\ \A i \in 1..Len(h.lines) : Len(h.lines[i]) < LINESIZ
  /\ h.have_ent => h.ent \in 1..Len(h.lines)
Waits  == /\ edit \in BOOLEAN /\ lost \in BOOLEAN /\ dialog \in DOMAIN Dialog \cup {None}
          /\ dialog # None => edit
Places == /\ ~lost => Within(e)
          /\ dialog = None => e.linepos = e.linelen
          /\ ~edit => e = Empty
Known  == hist \in [DOMAIN Dialog -> Histories] /\ \A d \in DOMAIN Dialog : Kind(hist[d])
Finds  == Names # <<>> => srch_idx \in 0..(db_num - 1)
Buffer == Holds(e, Text)
IInv   == Buffer /\ Waits /\ Places /\ Known /\ Finds

LEMMA DialogFacts ==
  /\ \A d \in DOMAIN Dialog : Dialog[d].ini = Kept
       \/ (Dialog[d].ini # Kept /\ Dialog[d].ini \in Seq(Char) /\ Len(Dialog[d].ini) < LINESIZ)
  /\ Dialog["search"].callback = "srch_file" /\ ~Dialog["search"].hist
  /\ None \notin DOMAIN Dialog /\ "regex" \in DOMAIN Dialog /\ "search" \in DOMAIN Dialog
  /\ \A d \in DOMAIN Dialog : Dialog[d].callback = "srch_file" => d = "search"
<1>1. DOMAIN Dialog = {"command", "shell", "rename", "search", "regex"}
  BY DEF Dialog
<1>2. /\ Dialog["command"].ini = <<>> /\ Dialog["shell"].ini = Kept
      /\ Dialog["rename"].ini = Given /\ Dialog["search"].ini = <<>>
      /\ Dialog["regex"].ini = <<>>
  BY DEF Dialog
<1>3. /\ Dialog["search"].callback = "srch_file" /\ ~Dialog["search"].hist
      /\ Dialog["command"].callback = "complet" /\ Dialog["shell"].callback = "none"
      /\ Dialog["rename"].callback = "none" /\ Dialog["regex"].callback = "none"
  BY DEF Dialog
<1>4. Given \in Seq(Char) /\ Len(Given) < LINESIZ
  BY LineEditorAssumption
<1>5. <<>> \in Seq(Char) /\ Len(<<>>) < LINESIZ
  <2>1. Len(<<>>) = 0 /\ <<>> \in Seq(Char)
    OBVIOUS
  <2> QED
    BY <2>1, Sizes
<1>6. ASSUME NEW t \in Seq(Char) PROVE t # Kept
  <2> SUFFICES ASSUME t = <<NUL>> PROVE FALSE
    BY DEF Kept
  <2>1. <<NUL>>[1] = NUL /\ Len(<<NUL>>) = 1
    OBVIOUS
  <2>2. Len(t) = 1 /\ t[1] = NUL
    BY <2>1
  <2>3. t[1] \in Char
    BY <2>2
  <2> QED
    BY <2>2, <2>3, Sizes
<1>7. \A d \in DOMAIN Dialog : Dialog[d].ini = Kept
        \/ (Dialog[d].ini # Kept /\ Dialog[d].ini \in Seq(Char) /\ Len(Dialog[d].ini) < LINESIZ)
  BY <1>1, <1>2, <1>4, <1>5, <1>6
<1>8. None \notin DOMAIN Dialog /\ "regex" \in DOMAIN Dialog /\ "search" \in DOMAIN Dialog
  BY <1>1 DEF None
<1>9. \A d \in DOMAIN Dialog : Dialog[d].callback = "srch_file" => d = "search"
  BY <1>1, <1>3
<1> QED
  BY <1>3, <1>7, <1>8, <1>9

LEMMA InitHolds == Init => IInv
<1> SUFFICES ASSUME Init PROVE IInv
  OBVIOUS
<1>1. /\ e = Empty /\ edit = FALSE /\ dialog = None
      /\ hist = [d \in DOMAIN Dialog |-> NoHistory] /\ srch_idx = 0 /\ lost = FALSE
  BY DEF Init
<1>2. Holds(e, <<>>) /\ e.linepos = 0 /\ e.leftpos = 0 /\ e.linelen = 0
  BY <1>1, EmptyHolds
<1>3. Buffer
  <2>1. Text = <<>>
    BY <1>2, ReadsText DEF Text
  <2> QED
    BY <1>2, <2>1 DEF Buffer
<1>4. Waits
  BY <1>1 DEF Waits
<1>5. Places
  BY <1>1, <1>2 DEF Places, Within
<1>6. Kind(NoHistory)
  <2>1. <<>> \in Seq(Seq(Char)) /\ Len(<<>>) = 0
    OBVIOUS
  <2> QED
    BY <2>1, Sizes DEF NoHistory, Kind, Histories
<1>7. Known
  BY <1>1, <1>6 DEF Known, Kind
<1>8. Finds
  <2> SUFFICES ASSUME Names # <<>> PROVE 0 \in 0..(db_num - 1)
    BY <1>1 DEF Finds
  <2>1. Names \in Seq(Seq(Char))
    BY LineEditorAssumption
  <2>2. Len(Names) \in Nat /\ Len(Names) # 0
    BY <2>1, EmptySeq
  <2> QED
    BY <2>2 DEF db_num
<1> QED
  BY <1>3, <1>4, <1>5, <1>7, <1>8 DEF IInv

\* The invariant implies the type invariant.
LEMMA InvTypes == IInv => TypeOK
<1> SUFFICES ASSUME IInv PROVE TypeOK
  OBVIOUS
<1>1. /\ e \in Record /\ e.linelen \in Cells /\ e.linebuf[e.linelen] = NUL
      /\ \A i \in 0..(e.linelen - 1) : e.linebuf[i] \in Char
  BY TextIsLine DEF IInv, Buffer
<1>2. ~lost => e.leftpos \in 0..e.linepos /\ e.linepos \in 0..e.linelen
  BY <1>1 DEF IInv, Places, Within, Record
<1>3. \A d \in DOMAIN Dialog : /\ Len(hist[d].lines) <= HistSize
                               /\ hist[d].have_ent => hist[d].ent \in 1..Len(hist[d].lines)
  BY DEF IInv, Known, Kind
<1>4. e.linebuf \in Line
  BY <1>1 DEF Record
<1>5. Names # <<>> => srch_idx \in 0..(db_num - 1)
  BY DEF IInv, Finds
<1>6. edit \in BOOLEAN /\ (dialog # None => edit) /\ dialog \in DOMAIN Dialog \cup {None}
  BY DEF IInv, Waits
<1> QED
  BY <1>1, <1>2, <1>3, <1>4, <1>5, <1>6 DEF TypeOK

\* A key that leaves a text in the buffer and the cursor in it.
Still == dialog # None /\ UNCHANGED <<edit, dialog, hist, lost>>
LEMMA Edited ==
  ASSUME IInv, Still, Finds', NEW t, Holds(e', t), Within(e')
  PROVE  IInv' /\ Text' = t
<1>1. Text' = t
  BY ReadsText DEF Text
<1>2. Buffer'
  BY <1>1 DEF Buffer
<1>3. /\ dialog # None /\ edit' = edit /\ dialog' = dialog /\ hist' = hist /\ lost' = lost
  BY DEF Still
<1>4. Waits'
  BY <1>3 DEF IInv, Waits
<1>5. Places'
  BY <1>3 DEF IInv, Waits, Places
<1>6. Known'
  BY <1>3 DEF IInv, Known
<1> QED
  BY <1>1, <1>2, <1>4, <1>5, <1>6 DEF IInv

\* The search stays in the list of names.
LEMMA SearchStays ==
  ASSUME IInv, NEW r, Searched(r)
  PROVE  Finds'
<1> SUFFICES ASSUME Names # <<>>, srch_idx' # srch_idx PROVE srch_idx' \in 0..(db_num - 1)
  BY DEF IInv, Finds, db_num
<1>1. srch_idx' = srch_file(srch_idx, rbuf(r.linebuf))
  BY DEF Searched, NoSearch
<1>2. srch_idx \in 0..(db_num - 1)
  BY DEF IInv, Finds
<1> QED
  BY <1>1, <1>2 DEF srch_file
LEMMA NoSearchStays ==
  ASSUME IInv, NoSearch
  PROVE  Finds'
BY DEF IInv, Finds, NoSearch, db_num

-----------------------------------------------------------------------------
(* What each key does: to the text, to the cursor and the window.          *)
Live == IInv /\ ~lost
LEMMA LiveFacts ==
  ASSUME Live
  PROVE  /\ Holds(e, Text) /\ Within(e) /\ e \in Record /\ Text \in Seq(Char)
         /\ e.linelen = Len(Text) /\ Len(Text) \in Nat /\ Len(Text) < LINESIZ
         /\ e.linelen \in Nat /\ e.linepos \in Nat /\ e.leftpos \in Nat
         /\ e.leftpos <= e.linepos /\ e.linepos <= e.linelen
BY DEF Live, IInv, Buffer, Places, Holds, Begins, Record, Within

\* The keys that move the cursor
Scrolls(k, l) == e'.linepos = k /\ e'.leftpos = l
LEMMA Goes ==
  ASSUME Live, NEW k \in Nat, NEW l \in Nat, l <= k, k <= e.linelen, dialog # None,
         UNCHANGED <<edit, dialog, hist, lost>>, NoSearch,
         \/ e' = [e EXCEPT !.linepos = k, !.leftpos = l]
         \/ e' = [e EXCEPT !.leftpos = l, !.linepos = k]
  PROVE  IInv' /\ Text' = Text /\ Scrolls(k, l) /\ e'.linelen = e.linelen /\ Still
<1>1. e \in Record /\ Holds(e, Text)
  BY LiveFacts
<1>2. /\ e' \in Record /\ e'.linelen = e.linelen /\ e'.linebuf = e.linebuf
      /\ e'.linepos = k /\ e'.leftpos = l
  BY <1>1 DEF Record
<1>3. Holds(e', Text)
  BY <1>1, <1>2, Stays
<1>4. Within(e')
  BY <1>2 DEF Within
<1>5. Still
  BY DEF Still
<1>6. Finds'
  BY NoSearchStays DEF Live
<1> QED
  BY <1>2, <1>3, <1>4, <1>5, <1>6, Edited DEF Live, Scrolls

LEMMA HomeDoes ==
  ASSUME Live, Home
  PROVE  IInv' /\ Text' = Text /\ Scrolls(0, 0) /\ Still /\ e'.linelen = e.linelen
<1>1. /\ e' = [e EXCEPT !.leftpos = 0, !.linepos = 0] /\ dialog # None
      /\ UNCHANGED <<edit, dialog, hist, lost>> /\ NoSearch
  BY DEF Home, Key, Same
<1>2. 0 \in Nat /\ 0 <= 0 /\ 0 <= e.linelen
  BY LiveFacts
<1> QED
  BY <1>1, <1>2, Goes

LEMMA LeftDoes ==
  ASSUME Live, Left
  PROVE  /\ IInv' /\ Text' = Text /\ Still /\ e'.linelen = e.linelen
         /\ Scrolls(e.linepos - 1, IF e.linepos = e.leftpos THEN e.leftpos - 1 ELSE e.leftpos)
<1> DEFINE k == e.linepos - 1
           l == IF e.linepos = e.leftpos THEN e.leftpos - 1 ELSE e.leftpos
<1>1. /\ e' = [e EXCEPT !.linepos = k, !.leftpos = l] /\ dialog # None
      /\ UNCHANGED <<edit, dialog, hist, lost>> /\ NoSearch
  BY DEF Left, Key, Same
<1>2. k \in Nat /\ l \in Nat /\ l <= k /\ k <= e.linelen
  BY LiveFacts DEF Left
<1> HIDE DEF k, l
<1>3. IInv' /\ Text' = Text /\ Scrolls(k, l) /\ e'.linelen = e.linelen /\ Still
  BY <1>1, <1>2, Goes
<1> QED
  BY <1>3 DEF k, l

LEMMA EndDoes ==
  ASSUME Live, EndKey
  PROVE  /\ IInv' /\ Text' = Text /\ Still /\ e'.linelen = e.linelen
         /\ Scrolls(e.linelen, IF e.linelen - e.leftpos < StatW - 1 THEN e.leftpos
                               ELSE e.linelen - StatW + 1)
<1> DEFINE k == e.linelen
           l == IF e.linelen - e.leftpos < StatW - 1 THEN e.leftpos ELSE e.linelen - StatW + 1
<1>1. /\ e' = [e EXCEPT !.linepos = k, !.leftpos = l] /\ dialog # None
      /\ UNCHANGED <<edit, dialog, hist, lost>> /\ NoSearch
  BY DEF EndKey, Key, Same
<1>2. k \in Nat /\ l \in Nat /\ l <= k /\ k <= e.linelen
  BY LiveFacts, Sizes
<1> HIDE DEF k, l
<1>3. IInv' /\ Text' = Text /\ Scrolls(k, l) /\ e'.linelen = e.linelen /\ Still
  BY <1>1, <1>2, Goes
<1> QED
  BY <1>3 DEF k, l

LEMMA RightDoes ==
  ASSUME Live, Right
  PROVE  /\ IInv' /\ Text' = Text /\ Still /\ e'.linelen = e.linelen /\ e.linepos < e.linelen
         /\ Scrolls(e.linepos + 1, IF e.linepos - e.leftpos < StatW - 1 THEN e.leftpos
                                   ELSE e.leftpos + 1)
<1> DEFINE k == e.linepos + 1
           l == IF e.linepos - e.leftpos < StatW - 1 THEN e.leftpos ELSE e.leftpos + 1
<1>1. /\ e' = [e EXCEPT !.linepos = k, !.leftpos = l] /\ dialog # None
      /\ UNCHANGED <<edit, dialog, hist, lost>> /\ NoSearch /\ e.linepos # e.linelen
  BY DEF Right, Key, Same
<1>2. k \in Nat /\ l \in Nat /\ l <= k /\ k <= e.linelen /\ e.linepos < e.linelen
  BY <1>1, LiveFacts
<1> HIDE DEF k, l
<1>3. IInv' /\ Text' = Text /\ Scrolls(k, l) /\ e'.linelen = e.linelen /\ Still
  BY <1>1, <1>2, Goes
<1> QED
  BY <1>2, <1>3 DEF k, l

\* The keys that change the text
LEMMA TypeCharDoes ==
  ASSUME Live, NEW c \in Char, TypeChar(c)
  PROVE  /\ IInv' /\ Text' = Ins(Text, e.linepos, <<c>>) /\ Still
         /\ e'.linelen = e.linelen + 1
         /\ Scrolls(e.linepos + 1, IF e.linepos - e.leftpos = StatW - 1 THEN e.leftpos + 1
                                   ELSE e.leftpos)
<1>1. /\ e.linelen + 1 < LINESIZ /\ dialog # None /\ e' = type_char(e, c)
      /\ UNCHANGED <<edit, dialog, hist, lost>> /\ Searched(type_char(e, c))
  BY DEF TypeChar, Key, Same
<1>2. /\ Holds(e', Ins(Text, e.linepos, <<c>>)) /\ e'.linelen = e.linelen + 1
      /\ e'.linepos = e.linepos + 1
      /\ e'.leftpos = IF e.linepos - e.leftpos = StatW - 1 THEN e.leftpos + 1 ELSE e.leftpos
  BY <1>1, LiveFacts, Types
<1>3. Within(e')
  BY <1>2, LiveFacts DEF Within
<1>4. Still /\ Finds'
  BY <1>1, SearchStays DEF Still, Live
<1> QED
  BY <1>2, <1>3, <1>4, Edited DEF Live, Scrolls

LEMMA BackspaceDoes ==
  ASSUME Live, Backspace
  PROVE  /\ IInv' /\ Text' = Del(Text, e.linepos - 1) /\ Still
         /\ e.linepos > 0 /\ e'.linelen = e.linelen - 1
         /\ Scrolls(e.linepos - 1, IF e.leftpos > 0 THEN e.leftpos - 1 ELSE e.leftpos)
<1>1. /\ e.linepos > 0 /\ dialog # None /\ e' = backspace(e)
      /\ UNCHANGED <<edit, dialog, hist, lost>> /\ Searched(backspace(e))
  BY DEF Backspace, Key, Same
<1>2. /\ Holds(e', Del(Text, e.linepos - 1)) /\ e'.linelen = e.linelen - 1
      /\ e'.linepos = e.linepos - 1
      /\ e'.leftpos = IF e.leftpos > 0 THEN e.leftpos - 1 ELSE e.leftpos
  <2>1. Holds(e, Text) /\ 0 < e.linepos /\ e.linepos <= e.linelen
    BY <1>1, LiveFacts
  <2> QED
    BY <1>1, <2>1, Erases
<1>3. Within(e')
  BY <1>1, <1>2, LiveFacts DEF Within
<1>4. Still /\ Finds'
  BY <1>1, SearchStays DEF Still, Live
<1> QED
  BY <1>1, <1>2, <1>3, <1>4, Edited DEF Live, Scrolls

LEMMA DeleteDoes ==
  ASSUME Live, Delete
  PROVE  /\ IInv' /\ Text' = Del(Text, e.linepos) /\ Still
         /\ e.linepos < e.linelen /\ e'.linelen = e.linelen - 1
         /\ Scrolls(e.linepos, IF e.leftpos > 0 THEN e.leftpos - 1 ELSE e.leftpos)
<1>1. /\ e.linepos # e.linelen /\ dialog # None /\ e' = del_char(e)
      /\ UNCHANGED <<edit, dialog, hist, lost>> /\ Searched(del_char(e))
  BY DEF Delete, Key, Same
<1>2. Holds(e, Text) /\ e.linepos < e.linelen
  BY <1>1, LiveFacts
<1>3. /\ Holds(e', Del(Text, e.linepos)) /\ e'.linelen = e.linelen - 1
      /\ e'.linepos = e.linepos
      /\ e'.leftpos = IF e.leftpos > 0 THEN e.leftpos - 1 ELSE e.leftpos
  BY <1>1, <1>2, Deletes
<1>4. Within(e')
  BY <1>2, <1>3, LiveFacts DEF Within
<1>5. Still /\ Finds'
  BY <1>1, SearchStays DEF Still, Live
<1> QED
  BY <1>2, <1>3, <1>4, <1>5, Edited DEF Live, Scrolls

LEMMA FkeyDoes ==
  ASSUME Live, Fkey
  PROVE  /\ IInv' /\ Text' = Ins(Text, e.linepos, FkeyText) /\ Still
         /\ e'.linelen = e.linelen + Len(FkeyText)
         /\ Scrolls(e.linepos + Len(FkeyText), e.leftpos)
<1>1. /\ e.linelen + Len(FkeyText) < LINESIZ /\ dialog # None /\ e' = FkeyLine(e)
      /\ UNCHANGED <<edit, dialog, hist, lost>> /\ NoSearch
  BY DEF Fkey, Key, Same, FkeyLine
<1>2. /\ Holds(e', Ins(Text, e.linepos, FkeyText)) /\ e'.linelen = e.linelen + Len(FkeyText)
      /\ e'.linepos = e.linepos + Len(FkeyText) /\ e'.leftpos = e.leftpos
  BY <1>1, LiveFacts, Inserts
<1>3. Within(e')
  <2>1. Len(FkeyText) \in Nat
    BY LineEditorAssumption
  <2> QED
    BY <1>2, <2>1, LiveFacts DEF Within
<1>4. Still /\ Finds'
  BY <1>1, NoSearchStays DEF Still, Live
<1> QED
  BY <1>2, <1>3, <1>4, Edited DEF Live, Scrolls

-----------------------------------------------------------------------------
(* The lines of a history.  A line is put in front of those that are left  *)
(* when there is no room for all.                                          *)
Old(s) == IF Len(s) < HistSize THEN s ELSE Front(s)

LEMMA ConsIs ==
  ASSUME NEW S, NEW a \in S, NEW s \in Seq(S)
  PROVE  LET q == <<a>> \o s
         IN  /\ q \in Seq(S) /\ Len(q) = Len(s) + 1 /\ q[1] = a /\ q # <<>>
             /\ \A i \in 1..Len(s) : q[i + 1] = s[i]
             /\ Tail(q) = s
<1> DEFINE q == <<a>> \o s
           n == Len(s)
<1>1. <<a>> \in Seq(S) /\ Len(<<a>>) = 1 /\ <<a>>[1] = a /\ n \in Nat
  OBVIOUS
<1>2. /\ q \in Seq(S) /\ Len(q) = 1 + n
      /\ \A i \in 1..(1 + n) : q[i] = IF i <= 1 THEN <<a>>[i] ELSE s[i - 1]
  <2>1. /\ q \in Seq(S) /\ Len(q) = Len(<<a>>) + n
        /\ \A i \in 1..(Len(<<a>>) + n) :
             q[i] = IF i <= Len(<<a>>) THEN <<a>>[i] ELSE s[i - Len(<<a>>)]
    BY <1>1, ConcatProperties
  <2> QED
    BY <1>1, <2>1
<1> HIDE DEF q
<1>3. 1 \in 1..(1 + n) /\ q[1] = a
  BY <1>1, <1>2
<1>4. ASSUME NEW i \in 1..n PROVE q[i + 1] = s[i]
  <2>1. i + 1 \in 1..(1 + n) /\ ~(i + 1 <= 1) /\ i + 1 - 1 = i
    BY <1>1
  <2> QED
    BY <1>2, <2>1
<1>5. q # <<>>
  <2>1. Len(q) # 0
    BY <1>1, <1>2
  <2> QED
    BY <2>1, EmptySeq
<1>6. Tail(q) = s
  <2>1. /\ Tail(q) \in Seq(S) /\ Len(Tail(q)) = Len(q) - 1
        /\ \A i \in 1..Len(Tail(q)) : Tail(q)[i] = q[i + 1]
    BY <1>2, <1>5, HeadTailProperties
  <2>2. Len(Tail(q)) = n
    BY <1>1, <1>2, <2>1
  <2>3. \A i \in 1..Len(Tail(q)) : Tail(q)[i] = s[i]
    BY <1>4, <2>1, <2>2
  <2> QED
    BY <2>1, <2>2, <2>3, SeqEqual
<1> QED
  BY <1>1, <1>2, <1>3, <1>4, <1>5, <1>6 DEF q

\* The first line may be replaced.
LEMMA FirstIs ==
  ASSUME NEW S, NEW a \in S, NEW s \in Seq(S), s # <<>>
  PROVE  LET q == [s EXCEPT ![1] = a]
         IN  /\ q \in Seq(S) /\ Len(q) = Len(s) /\ q[1] = a
             /\ \A i \in 2..Len(s) : q[i] = s[i]
             /\ Tail(q) = Tail(s)
<1> DEFINE q == [s EXCEPT ![1] = a]
<1>1. Len(s) \in Nat /\ 1 \in 1..Len(s)
  BY EmptySeq
<1>2. /\ q \in Seq(S) /\ Len(q) = Len(s)
      /\ \A j \in 1..Len(s) : q[j] = IF j = 1 THEN a ELSE s[j]
  BY <1>1, ExceptSeq
<1> HIDE DEF q
<1>3. q[1] = a /\ \A i \in 2..Len(s) : q[i] = s[i]
  BY <1>1, <1>2
<1>4. q # <<>>
  <2>1. Len(q) # 0
    BY <1>1, <1>2
  <2> QED
    BY <2>1, EmptySeq
<1>5. /\ Tail(q) \in Seq(S) /\ Len(Tail(q)) = Len(s) - 1
      /\ \A i \in 1..Len(Tail(q)) : Tail(q)[i] = q[i + 1]
  BY <1>2, <1>4, HeadTailProperties
<1>6. /\ Tail(s) \in Seq(S) /\ Len(Tail(s)) = Len(s) - 1
      /\ \A i \in 1..Len(Tail(s)) : Tail(s)[i] = s[i + 1]
  BY HeadTailProperties
<1>7. \A i \in 1..Len(Tail(q)) : Tail(q)[i] = Tail(s)[i]
  <2> SUFFICES ASSUME NEW i \in 1..Len(Tail(q)) PROVE q[i + 1] = s[i + 1]
    BY <1>5, <1>6
  <2>1. i + 1 \in 2..Len(s)
    BY <1>1, <1>5
  <2> QED
    BY <1>3, <2>1
<1>8. Tail(q) = Tail(s)
  BY <1>5, <1>6, <1>7, SeqEqual
<1> QED
  BY <1>2, <1>3, <1>8 DEF q

LEMMA OldIs ==
  ASSUME NEW S, NEW s \in Seq(S), Len(s) <= HistSize, HistSize >= 2
  PROVE  /\ Old(s) \in Seq(S) /\ Len(Old(s)) \in Nat
         /\ Len(Old(s)) = IF Len(s) < HistSize THEN Len(s) ELSE HistSize - 1
         /\ \A i \in 1..Len(Old(s)) : i \in 1..Len(s) /\ Old(s)[i] = s[i]
         /\ Old(s) = SubSeq(s, 1, Len(Old(s)))
<1>1. Len(s) \in Nat /\ HistSize \in Nat /\ \A i \in 1..Len(s) : s[i] \in S
  BY Sizes
<1>2. CASE Len(s) < HistSize
  <2>1. Old(s) = s
    BY <1>2 DEF Old
  <2>2. SubSeq(s, 1, Len(s)) = s
    BY SubSeqFull
  <2> QED
    BY <1>1, <1>2, <2>1, <2>2
<1>3. CASE ~(Len(s) < HistSize)
  <2> DEFINE n == Len(s) - 1
             q == SubSeq(s, 1, n)
  <2>1. Old(s) = q
    BY <1>3 DEF Old, Front
  <2>2. n \in Nat /\ n = HistSize - 1 /\ n <= Len(s)
    BY <1>1, <1>3
  <2>3. q \in Seq(S) /\ Len(q) = n /\ \A i \in 1..n : q[i] = s[i]
    <3>1. \A i \in 1..n : s[i] \in S
      BY <1>1, <2>2
    <3> HIDE DEF n
    <3>2. /\ q \in Seq(S) /\ Len(q) = IF 1 <= n THEN n - 1 + 1 ELSE 0
          /\ \A i \in 1..(n - 1 + 1) : q[i] = s[1 + i - 1]
      BY <2>2, <3>1, SubSeqProperties
    <3> QED
      BY <2>2, <3>2
  <2> HIDE DEF q
  <2>4. \A i \in 1..n : i \in 1..Len(s)
    BY <2>2
  <2>5. Old(s) = SubSeq(s, 1, Len(Old(s)))
    BY <2>1, <2>3 DEF q
  <2> QED
    BY <1>3, <2>1, <2>2, <2>3, <2>4, <2>5
<1> QED
  BY <1>2, <1>3

\* hist_add() and what uses it
LEMMA AddIs ==
  ASSUME NEW h \in Histories, NEW t \in Seq(Char), HistSize >= 2, Len(h.lines) <= HistSize
  PROVE  LET q == hist_add(h, t)
         IN  /\ q \in Histories /\ q.lines = <<t>> \o Old(h.lines)
             /\ q.have_ent = h.have_ent /\ q.ent = h.ent
<1> DEFINE q == hist_add(h, t)
           s == <<t>> \o Old(h.lines)
<1>1. h.lines \in Seq(Seq(Char)) /\ h.have_ent \in BOOLEAN /\ h.ent \in Nat
  BY DEF Histories
<1>2. s \in Seq(Seq(Char))
  <2>1. Old(h.lines) \in Seq(Seq(Char))
    BY <1>1, OldIs
  <2> QED
    BY <2>1, ConsIs
<1>3. q = [h EXCEPT !.lines = s]
  <2>1. ~(HistSize < 2)
    BY Sizes
  <2> QED
    BY <2>1 DEF hist_add, Old
<1> HIDE DEF q, s
<1>4. q \in Histories /\ q.lines = s /\ q.have_ent = h.have_ent /\ q.ent = h.ent
  BY <1>2, <1>3 DEF Histories
<1> QED
  BY <1>4 DEF q, s

\* The lines of a history are not too long, nor too many.
LEMMA AddedFit ==
  ASSUME NEW h, Kind(h), HistSize >= 2, NEW t \in Seq(Char), Len(t) < LINESIZ
  PROVE  LET s == <<t>> \o Old(h.lines)
         IN  /\ s \in Seq(Seq(Char)) /\ Len(s) <= HistSize /\ s[1] = t /\ Tail(s) = Old(h.lines)
             /\ Len(s) = Len(Old(h.lines)) + 1
             /\ \A i \in 1..Len(s) : Len(s[i]) < LINESIZ
<1> DEFINE o == Old(h.lines)
           s == <<t>> \o o
<1>1. /\ h.lines \in Seq(Seq(Char)) /\ Len(h.lines) <= HistSize /\ Len(h.lines) \in Nat
      /\ \A i \in 1..Len(h.lines) : Len(h.lines[i]) < LINESIZ
  BY DEF Kind, Histories
<1>2. /\ o \in Seq(Seq(Char)) /\ Len(o) \in Nat
      /\ Len(o) = IF Len(h.lines) < HistSize THEN Len(h.lines) ELSE HistSize - 1
      /\ \A i \in 1..Len(o) : i \in 1..Len(h.lines) /\ o[i] = h.lines[i]
  BY <1>1, OldIs
<1> HIDE DEF o
<1>3. /\ s \in Seq(Seq(Char)) /\ Len(s) = Len(o) + 1 /\ s[1] = t
      /\ \A i \in 1..Len(o) : s[i + 1] = o[i]
      /\ Tail(s) = o
  BY <1>2, ConsIs, SMTT(30)
<1> HIDE DEF s
<1>4. Len(s) <= HistSize
  BY <1>1, <1>2, <1>3, Sizes
<1>5. ASSUME NEW i \in 1..Len(s) PROVE Len(s[i]) < LINESIZ
  <2>1. CASE i = 1
    BY <1>3, <2>1
  <2>2. CASE i # 1
    <3> DEFINE j == i - 1
    <3>1. j \in 1..Len(o) /\ j + 1 = i
      BY <1>2, <1>3, <2>2
    <3> HIDE DEF j
    <3>2. s[i] = o[j]
      BY <1>3, <3>1
    <3>3. j \in 1..Len(h.lines) /\ o[j] = h.lines[j]
      BY <1>2, <3>1
    <3> QED
      BY <1>1, <3>2, <3>3
  <2> QED
    BY <2>1, <2>2
<1> QED
  BY <1>3, <1>4, <1>5 DEF s, o

LEMMA ReplacedFit ==
  ASSUME NEW h, Kind(h), h.lines # <<>>, NEW t \in Seq(Char), Len(t) < LINESIZ
  PROVE  LET s == [h.lines EXCEPT ![1] = t]
         IN  /\ s \in Seq(Seq(Char)) /\ Len(s) = Len(h.lines) /\ s[1] = t
             /\ Tail(s) = Tail(h.lines) /\ \A i \in 1..Len(s) : Len(s[i]) < LINESIZ
<1> DEFINE s == [h.lines EXCEPT ![1] = t]
<1>1. /\ h.lines \in Seq(Seq(Char)) /\ Len(h.lines) \in Nat
      /\ \A i \in 1..Len(h.lines) : Len(h.lines[i]) < LINESIZ
  BY DEF Kind, Histories
<1>2. /\ s \in Seq(Seq(Char)) /\ Len(s) = Len(h.lines) /\ s[1] = t
      /\ \A i \in 2..Len(h.lines) : s[i] = h.lines[i]
      /\ Tail(s) = Tail(h.lines)
  BY <1>1, FirstIs
<1> HIDE DEF s
<1>3. ASSUME NEW i \in 1..Len(s) PROVE Len(s[i]) < LINESIZ
  <2>1. CASE i = 1
    BY <1>2, <2>1
  <2>2. CASE i # 1
    <3>1. i \in 2..Len(h.lines) /\ i \in 1..Len(h.lines)
      BY <1>1, <1>2, <2>2
    <3> QED
      BY <1>1, <1>2, <3>1
  <2> QED
    BY <2>1, <2>2
<1> QED
  BY <1>2, <1>3 DEF s

\* Before an older line is shown, the one that is being typed is kept.
LEMMA DraftedIs ==
  ASSUME NEW h, Kind(h), h.lines # <<>>, NEW t \in Seq(Char), Len(t) < LINESIZ,
         ~(h.have_ent /\ h.ent = Len(h.lines))
  PROVE  LET q == Drafted(h, t)
         IN  /\ Kind(q) /\ q.have_ent /\ q.ent = (IF h.have_ent THEN h.ent ELSE 1)
             /\ q.ent + 1 \in 1..Len(q.lines)
             /\ Tail(q.lines) = (IF h.have_ent THEN Tail(h.lines) ELSE Old(h.lines))
             /\ q.lines[1] = (IF h.have_ent /\ h.ent # 1 THEN h.lines[1] ELSE t)
<1> DEFINE q == Drafted(h, t)
<1>1. /\ h \in Histories /\ h.lines \in Seq(Seq(Char)) /\ Len(h.lines) \in Nat \ {0}
      /\ h.have_ent \in BOOLEAN /\ h.ent \in Nat
      /\ Len(h.lines) <= HistSize /\ HistSize >= 2 /\ HistSize \in Nat
      /\ \A i \in 1..Len(h.lines) : Len(h.lines[i]) < LINESIZ
      /\ h.have_ent => h.ent \in 1..Len(h.lines)
  BY Sizes, EmptySeq DEF Kind, Histories
<1>2. CASE ~h.have_ent
  <2> DEFINE g == [h EXCEPT !.have_ent = TRUE, !.ent = 1]
             s == <<t>> \o Old(h.lines)
  <2>1. q = hist_add(g, t)
    BY <1>2 DEF Drafted
  <2>2. g \in Histories /\ g.lines = h.lines /\ g.have_ent = TRUE /\ g.ent = 1
    BY <1>1 DEF Histories
  <2> HIDE DEF g, q
  <2>3. q \in Histories /\ q.lines = s /\ q.have_ent = TRUE /\ q.ent = 1
    <3> DEFINE a == hist_add(g, t)
    <3>1. Len(g.lines) <= HistSize
      BY <1>1, <2>2
    <3>2. /\ a \in Histories /\ a.lines = <<t>> \o Old(g.lines)
          /\ a.have_ent = g.have_ent /\ a.ent = g.ent
      BY <1>1, <2>2, <3>1, AddIs
    <3> HIDE DEF a
    <3>3. q = a
      BY <2>1 DEF a
    <3> QED
      BY <2>2, <3>2, <3>3
  <2>4. /\ s \in Seq(Seq(Char)) /\ Len(s) <= HistSize /\ s[1] = t /\ Tail(s) = Old(h.lines)
        /\ Len(s) = Len(Old(h.lines)) + 1
        /\ \A i \in 1..Len(s) : Len(s[i]) < LINESIZ
    BY <1>1, AddedFit
  <2>5. Len(Old(h.lines)) >= 1 /\ Len(Old(h.lines)) \in Nat
    BY <1>1, OldIs
  <2> HIDE DEF s
  <2>6. Kind(q)
    BY <1>1, <2>3, <2>4, <2>5 DEF Kind
  <2> QED
    BY <1>2, <2>3, <2>4, <2>5, <2>6 DEF q
<1>3. CASE h.have_ent /\ h.ent = 1
  <2> DEFINE s == [h.lines EXCEPT ![1] = t]
  <2>1. q = [h EXCEPT !.lines = s]
    BY <1>3 DEF Drafted
  <2>2. /\ s \in Seq(Seq(Char)) /\ Len(s) = Len(h.lines) /\ s[1] = t
        /\ Tail(s) = Tail(h.lines) /\ \A i \in 1..Len(s) : Len(s[i]) < LINESIZ
    BY ReplacedFit
  <2> HIDE DEF s, q
  <2>3. q \in Histories /\ q.lines = s /\ q.have_ent = h.have_ent /\ q.ent = h.ent
    BY <1>1, <2>1, <2>2 DEF Histories
  <2>4. Kind(q)
    BY <1>1, <1>3, <2>2, <2>3 DEF Kind
  <2>5. q.ent + 1 \in 1..Len(q.lines)
    <3> DEFINE n == Len(h.lines)
    <3>1. n # 1
      BY <1>3
    <3>2. q.ent = 1 /\ Len(q.lines) = Len(h.lines)
      BY <1>3, <2>2, <2>3
    <3>3. n \in Nat /\ n # 0
      BY <1>1
    <3> HIDE DEF n
    <3>4. 1 + 1 \in 1..n
      BY <3>1, <3>3
    <3> QED
      BY <3>2, <3>4 DEF n
  <2> QED
    BY <1>3, <2>2, <2>3, <2>4, <2>5 DEF q
<1>4. CASE h.have_ent /\ h.ent # 1
  <2>1. q = h
    BY <1>4 DEF Drafted
  <2>2. h.ent + 1 \in 1..Len(h.lines)
    BY <1>1, <1>4
  <2> QED
    BY <1>4, <2>1, <2>2
<1> QED
  BY <1>1, <1>2, <1>3, <1>4

\* The line that is entered takes the place of that which was being typed.
LEMMA EnteredIs ==
  ASSUME NEW h, Kind(h), NEW t \in Seq(Char), Len(t) < LINESIZ
  PROVE  LET q == Entered(h, t)
         IN  /\ Kind(q) /\ ~q.have_ent
             /\ h.have_ent => q.lines = <<t>> \o Tail(h.lines)
             /\ ~h.have_ent => q.lines = (IF HistSize < 2 THEN h.lines ELSE <<t>> \o Old(h.lines))
<1> DEFINE q == Entered(h, t)
<1>1. /\ h \in Histories /\ h.lines \in Seq(Seq(Char)) /\ Len(h.lines) \in Nat
      /\ h.have_ent \in BOOLEAN /\ h.ent \in Nat
      /\ Len(h.lines) <= HistSize /\ HistSize \in Nat
      /\ (HistSize < 2 => h.lines = <<>>)
      /\ \A i \in 1..Len(h.lines) : Len(h.lines[i]) < LINESIZ
      /\ h.have_ent => h.ent \in 1..Len(h.lines)
  BY Sizes DEF Kind, Histories
<1>2. CASE h.have_ent
  <2> DEFINE s == [h.lines EXCEPT ![1] = t]
  <2>1. q = [h EXCEPT !.have_ent = FALSE, !.lines = s]
    BY <1>2 DEF Entered
  <2>2. h.lines # <<>>
    <3>1. Len(h.lines) # 0
      BY <1>1, <1>2
    <3> QED
      BY <3>1, EmptySeq
  <2>3. /\ s \in Seq(Seq(Char)) /\ Len(s) = Len(h.lines) /\ s[1] = t
        /\ Tail(s) = Tail(h.lines) /\ \A i \in 1..Len(s) : Len(s[i]) < LINESIZ
    BY <2>2, ReplacedFit
  <2> HIDE DEF s, q
  <2>4. q \in Histories /\ q.lines = s /\ q.have_ent = FALSE /\ q.ent = h.ent
    BY <1>1, <2>1, <2>3 DEF Histories
  <2>5. s = <<t>> \o Tail(h.lines)
    <3> DEFINE c == <<t>> \o Tail(h.lines)
    <3>1. /\ Tail(h.lines) \in Seq(Seq(Char)) /\ Len(Tail(h.lines)) = Len(h.lines) - 1
          /\ \A i \in 1..Len(Tail(h.lines)) : Tail(h.lines)[i] = h.lines[i + 1]
      BY <1>1, <2>2, HeadTailProperties
    <3>2. /\ Tail(s) \in Seq(Seq(Char)) /\ Len(Tail(s)) = Len(s) - 1
          /\ \A i \in 1..Len(Tail(s)) : Tail(s)[i] = s[i + 1]
      <4>1. s # <<>>
        <5>1. Len(s) # 0
          BY <1>1, <1>2, <2>3
        <5> QED
          BY <5>1, EmptySeq
      <4> QED
        BY <2>3, <4>1, HeadTailProperties
    <3>3. /\ c \in Seq(Seq(Char)) /\ Len(c) = Len(Tail(h.lines)) + 1 /\ c[1] = t
          /\ \A i \in 1..Len(Tail(h.lines)) : c[i + 1] = Tail(h.lines)[i]
      BY <3>1, ConsIs
    <3> HIDE DEF c
    <3>4. ASSUME NEW i \in 1..Len(s) PROVE s[i] = c[i]
      <4>1. CASE i = 1
        BY <2>3, <3>3, <4>1
      <4>2. CASE i # 1
        <5> DEFINE j == i - 1
        <5>1. j \in 1..Len(Tail(h.lines)) /\ j + 1 = i
          BY <1>1, <2>3, <3>1, <4>2
        <5> HIDE DEF j
        <5>2. c[i] = Tail(h.lines)[j]
          BY <3>3, <5>1
        <5>3. s[i] = Tail(s)[j]
          BY <2>3, <3>2, <5>1
        <5> QED
          BY <2>3, <5>2, <5>3
      <4> QED
        BY <4>1, <4>2
    <3>5. Len(s) = Len(c)
      BY <1>1, <2>3, <3>1, <3>3
    <3> QED
      BY <2>3, <3>3, <3>4, <3>5, SeqEqual DEF c
  <2>6. Kind(q)
    <3>1. ~(HistSize < 2)
      BY <1>1, <2>2
    <3> QED
      BY <1>1, <2>3, <2>4, <3>1 DEF Kind
  <2> QED
    BY <1>2, <2>4, <2>5, <2>6 DEF q
<1>3. CASE ~h.have_ent /\ HistSize < 2
  <2>1. q = h
    BY <1>3 DEF Entered, hist_add
  <2> QED
    BY <1>3, <2>1
<1>4. CASE ~h.have_ent /\ ~(HistSize < 2)
  <2> DEFINE s == <<t>> \o Old(h.lines)
  <2>1. q = hist_add(h, t)
    BY <1>4 DEF Entered
  <2>2. HistSize >= 2
    BY <1>1, <1>4
  <2>3. q \in Histories /\ q.lines = s /\ q.have_ent = h.have_ent /\ q.ent = h.ent
    <3> DEFINE a == hist_add(h, t)
    <3>1. /\ a \in Histories /\ a.lines = s
          /\ a.have_ent = h.have_ent /\ a.ent = h.ent
      BY <1>1, <2>2, AddIs
    <3> HIDE DEF a, q
    <3>2. q = a
      BY <2>1 DEF a
    <3> QED
      BY <3>1, <3>2
  <2>4. /\ s \in Seq(Seq(Char)) /\ Len(s) <= HistSize
        /\ \A i \in 1..Len(s) : Len(s[i]) < LINESIZ
    BY <2>2, AddedFit
  <2> HIDE DEF s, q
  <2>5. Kind(q)
    BY <1>4, <2>3, <2>4 DEF Kind
  <2>6. q.lines = <<t>> \o Old(h.lines)
    BY <2>3 DEF s
  <2> QED
    BY <1>4, <2>3, <2>5, <2>6 DEF q
<1> QED
  BY <1>1, <1>2, <1>3, <1>4

-----------------------------------------------------------------------------
(* The other keys.                                                         *)
LEMMA ClickDoes ==
  ASSUME Live, NEW x \in 0..(StatW - 1), Click(x)
  PROVE  /\ IInv' /\ Text' = Text /\ dialog # None /\ UNCHANGED <<edit, dialog, hist>>
         /\ e'.linelen = e.linelen /\ e'.linepos \in Nat
<1>1. /\ dialog # None /\ e' = [e EXCEPT !.linepos = e.leftpos + x]
      /\ lost' = (e.leftpos + x > e.linelen) /\ edit' = edit /\ dialog' = dialog /\ hist' = hist
      /\ NoSearch
  BY DEF Click, Same
<1> DEFINE k == e.leftpos + x
<1>2. k \in Nat /\ e.leftpos <= k
  BY LiveFacts, Sizes
<1>3. /\ e' \in Record /\ e'.linelen = e.linelen /\ e'.linebuf = e.linebuf
      /\ e'.linepos = k /\ e'.leftpos = e.leftpos
  <2>1. e \in Record /\ e' = [e EXCEPT !.linepos = k]
    BY <1>1, LiveFacts
  <2> HIDE DEF k
  <2> QED
    BY <1>2, <2>1 DEF Record
<1>4. Holds(e', Text)
  BY <1>3, LiveFacts, Stays
<1>5. Text' = Text
  BY <1>4, ReadsText DEF Text
<1>6. Buffer'
  BY <1>4, <1>5 DEF Buffer
<1>7. lost' <=> (k > e.linelen)
  BY <1>1
<1>8. lost' \in BOOLEAN
  BY <1>1
<1> HIDE DEF k
<1>9. Waits'
  BY <1>1, <1>8 DEF Live, IInv, Waits
<1>10. Places'
  <2>1. ~lost' => Within(e')
    BY <1>2, <1>3, <1>7, LiveFacts DEF Within
  <2> QED
    BY <1>1, <2>1 DEF Live, IInv, Waits, Places
<1>11. Known'
  BY <1>1 DEF Live, IInv, Known
<1>12. Finds'
  BY <1>1, NoSearchStays DEF Live
<1> QED
  BY <1>1, <1>2, <1>3, <1>5, <1>6, <1>9, <1>10, <1>11, <1>12 DEF IInv

\* ed_append() at the end of a line
Longer(r, t, q) ==
  \E y \in Seq(Char) : /\ Holds(q, t \o y) /\ q.linepos = q.linelen /\ Within(q)
                       /\ Shown(r) => Shown(q)
LEMMA Appended ==
  ASSUME NEW r, NEW t, Holds(r, t), Within(r), r.linepos = r.linelen, NEW x \in Seq(Char)
  PROVE  Longer(r, t, ed_append(r, x))
<1> DEFINE q == ed_append(r, x)
<1>1. /\ t \in Seq(Char) /\ Len(t) \in Nat /\ Len(x) \in Nat /\ r \in Record
      /\ r.linelen = Len(t) /\ r.leftpos \in Nat /\ r.leftpos <= Len(t)
      /\ LINESIZ \in Nat /\ StatW \in Nat \ {0} /\ Begins(r, t)
  BY Sizes DEF Holds, Begins, Record, Within
<1>2. CASE Len(t) + Len(x) < LINESIZ
  <2>1. /\ Holds(q, t \o x) /\ q.linepos = q.linelen /\ q.linelen = Len(t) + Len(x)
        /\ q.leftpos = IF q.linelen + 1 > StatW THEN q.linelen + 1 - StatW ELSE r.leftpos
    BY <1>1, <1>2, Appends
  <2> HIDE DEF q
  <2>2. Within(q) /\ Shown(q)
    BY <1>1, <2>1, SMTT(30) DEF Within, Shown
  <2> QED
    BY <2>1, <2>2 DEF Longer, q
<1>3. CASE ~(Len(t) + Len(x) < LINESIZ)
  <2>1. q = r
    BY <1>1, <1>3, Refuses
  <2>2. <<>> \in Seq(Char) /\ t \o <<>> = t
    BY <1>1, ConcatEmptySeq
  <2> HIDE DEF q
  <2>3. Holds(q, t \o <<>>)
    BY <2>1, <2>2
  <2> QED
    BY <2>1, <2>2, <2>3 DEF Longer, q
<1> QED
  BY <1>2, <1>3

LEMMA AppendedTwice ==
  ASSUME NEW r, NEW t, Holds(r, t), Within(r), r.linepos = r.linelen, NEW x \in Seq(Char),
         NEW w, Longer(r, t, w)
  PROVE  Longer(r, t, ed_append(w, x))
<1>1. PICK y \in Seq(Char) : /\ Holds(w, t \o y) /\ w.linepos = w.linelen /\ Within(w)
                             /\ Shown(r) => Shown(w)
  BY DEF Longer
<1> DEFINE q == ed_append(w, x)
<1>2. Longer(w, t \o y, q)
  BY <1>1, Appended
<1> HIDE DEF q
<1>3. PICK z \in Seq(Char) : /\ Holds(q, (t \o y) \o z) /\ q.linepos = q.linelen /\ Within(q)
                             /\ Shown(w) => Shown(q)
  BY <1>2 DEF Longer
<1>4. t \in Seq(Char)
  BY DEF Holds, Begins
<1>5. y \o z \in Seq(Char) /\ (t \o y) \o z = t \o (y \o z)
  <2>1. y \o z \in Seq(Char)
    BY ConcatProperties
  <2>2. (t \o y) \o z = t \o (y \o z)
    <3>1. t \in Seq(Char) /\ y \in Seq(Char) /\ z \in Seq(Char)
      BY <1>4
    <3> QED
      BY <3>1, ConcatAssociative, SMTT(30)
  <2> QED
    BY <2>1, <2>2
<1> HIDE DEF Longer
<1>6. /\ Holds(q, t \o (y \o z)) /\ q.linepos = q.linelen /\ Within(q)
      /\ Shown(r) => Shown(q)
  BY <1>1, <1>3, <1>5
<1>7. Longer(r, t, q)
  BY <1>5, <1>6 DEF Longer
<1> QED
  BY <1>7 DEF q

LEMMA NotLonger ==
  ASSUME NEW r, NEW t, Holds(r, t), Within(r), r.linepos = r.linelen
  PROVE  Longer(r, t, r)
<1>1. t \in Seq(Char) /\ <<>> \in Seq(Char)
  BY DEF Holds, Begins
<1>2. t \o <<>> = t
  BY <1>1, ConcatEmptySeq
<1> QED
  BY <1>1, <1>2 DEF Longer

LEMMA TabDoes ==
  ASSUME Live, Tab
  PROVE  /\ IInv' /\ Still /\ (Shown(e) => Shown(e'))
         /\ e'.linepos = e'.linelen /\ e.linepos = e.linelen
         /\ \E y \in Seq(Char) : Text' = Text \o y
<1>1. /\ dialog # None /\ e.linepos = e.linelen /\ e' = complet(e)
      /\ UNCHANGED <<edit, dialog, hist, lost>> /\ NoSearch
  BY DEF Tab, Key, Same
<1> DEFINE iw == rbuf(e.linebuf)
           m == cpltstr(iw)
           x == SubSeq(m.mw, Len(iw) + 1, m.mwl)
           w == IF m.mwl > Len(iw) THEN ed_append(e, x) ELSE e
<1>2. iw = Text /\ Holds(e, Text) /\ Within(e) /\ Text \in Seq(Char)
  BY LiveFacts DEF Text
<1>3. Matched(iw, m)
  BY <1>2, CompletionMatches
<1>4. e' = IF iw = <<>> \/ Blank \in ToSet(iw) \/ m.mw = None THEN e
           ELSE IF m.co THEN ed_append(w, <<Blank>>) ELSE w
  BY <1>1 DEF complet
<1> HIDE DEF m
<1>5. ASSUME m.mw # None PROVE x \in Seq(Char)
  <2>1. m.mw \in Seq(Char) /\ m.mwl \in 0..Len(m.mw) /\ Len(iw) \in Nat
    BY <1>2, <1>3, <1>5 DEF Matched
  <2> HIDE DEF iw
  <2>2. Len(iw) + 1 \in Int /\ m.mwl \in Int
        /\ \A i \in (Len(iw) + 1)..m.mwl : m.mw[i] \in Char
    BY <2>1
  <2> QED
    BY <2>2, SubSeqProperties
<1> HIDE DEF x, iw
<1>6. ASSUME m.mw # None PROVE Longer(e, Text, w)
  <2>1. Longer(e, Text, ed_append(e, x))
    BY <1>1, <1>2, <1>5, <1>6, Appended
  <2>2. Longer(e, Text, e)
    BY <1>1, <1>2, NotLonger
  <2> QED
    BY <2>1, <2>2
<1> HIDE DEF w
<1>7. Longer(e, Text, e')
  <2>1. CASE e' = e
    BY <1>1, <1>2, <2>1, NotLonger
  <2>2. CASE m.mw # None /\ e' = w
    BY <1>6, <2>2
  <2>3. CASE m.mw # None /\ e' = ed_append(w, <<Blank>>)
    <3>1. <<Blank>> \in Seq(Char)
      BY Sizes
    <3> QED
      BY <1>1, <1>2, <1>6, <2>3, <3>1, AppendedTwice
  <2> QED
    BY <1>4, <2>1, <2>2, <2>3
<1>8. PICK y \in Seq(Char) : /\ Holds(e', Text \o y) /\ e'.linepos = e'.linelen /\ Within(e')
                             /\ Shown(e) => Shown(e')
  BY <1>7 DEF Longer
<1>9. Still /\ Finds'
  BY <1>1, NoSearchStays DEF Still, Live
<1>10. IInv' /\ Text' = Text \o y
  BY <1>8, <1>9, Edited DEF Live
<1> QED
  BY <1>1, <1>8, <1>9, <1>10

\* A line of the history is shown.
LEMMA ShowDoes ==
  ASSUME Live, dialog # None, NEW t \in Seq(Char), Len(t) < LINESIZ, Show(t)
  PROVE  /\ Buffer' /\ Waits' /\ Places' /\ Finds' /\ Text' = t
         /\ edit' = edit /\ dialog' = dialog /\ e'.linepos = e'.linelen
         /\ ~lost' => Shown(e')
<1>1. /\ e' = ed_append(Emptied(e), t) /\ lost' = (e'.leftpos > e'.linepos)
      /\ edit' = edit /\ dialog' = dialog /\ srch_idx' = srch_idx
  BY DEF Show
<1> DEFINE r == Emptied(e)
           q == ed_append(r, t)
<1>2. Begins(r, <<>>) /\ r.leftpos = e.leftpos
  BY LiveFacts, Empties
<1>3. <<>> \o t = t /\ Len(<<>>) + Len(t) = Len(t) /\ Len(t) \in Nat
  <2>1. Len(<<>>) = 0
    OBVIOUS
  <2> QED
    BY <2>1, ConcatEmptySeq
<1>4. /\ Holds(q, <<>> \o t) /\ q.linepos = q.linelen /\ q.linelen = Len(<<>>) + Len(t)
      /\ q.leftpos = IF q.linelen + 1 > StatW THEN q.linelen + 1 - StatW ELSE r.leftpos
  <2>1. Len(<<>>) + Len(t) < LINESIZ
    BY <1>3
  <2> QED
    BY <1>2, <2>1, Appends
<1> HIDE DEF r, q
<1>5. e' = q
  BY <1>1 DEF q, r
<1>6. Holds(e', t) /\ e'.linepos = e'.linelen /\ e'.linelen = Len(t)
      /\ e'.leftpos = (IF Len(t) + 1 > StatW THEN Len(t) + 1 - StatW ELSE e.leftpos)
  BY <1>2, <1>3, <1>4, <1>5
<1>7. Text' = t
  BY <1>6, ReadsText DEF Text
<1>8. Buffer'
  BY <1>6, <1>7 DEF Buffer
<1>9. (lost' <=> e'.leftpos > e'.linepos) /\ lost' \in BOOLEAN
  <2>1. lost' <=> e'.leftpos > e'.linepos
    BY <1>1
  <2>2. lost' \in BOOLEAN
    BY <1>1
  <2> QED
    BY <2>1, <2>2
<1>10. Waits'
  BY <1>1, <1>9 DEF Live, IInv, Waits
<1>11. e.leftpos \in Nat /\ StatW \in Nat \ {0} /\ e'.linepos \in Nat
  BY <1>3, <1>6, LiveFacts, Sizes
<1>12. ~lost' => Within(e') /\ Shown(e')
  BY <1>3, <1>6, <1>9, <1>11 DEF Within, Shown
<1>13. Places'
  BY <1>1, <1>12 DEF Live, IInv, Waits, Places
<1>14. Finds'
  BY <1>1 DEF Live, IInv, Finds, db_num
<1> QED
  BY <1>1, <1>6, <1>7, <1>8, <1>10, <1>12, <1>13, <1>14

LEMMA OneHistory ==
  ASSUME Known, NEW d \in DOMAIN Dialog, NEW q, Kind(q), hist' = [hist EXCEPT ![d] = q]
  PROVE  /\ Known' /\ hist'[d] = q
         /\ \A f \in DOMAIN Dialog : f # d => hist'[f] = hist[f]
<1>1. q \in Histories /\ hist \in [DOMAIN Dialog -> Histories]
  BY DEF Kind, Known
<1>2. /\ hist' \in [DOMAIN Dialog -> Histories] /\ hist'[d] = q
      /\ \A f \in DOMAIN Dialog : f # d => hist'[f] = hist[f]
  BY <1>1
<1>3. ASSUME NEW f \in DOMAIN Dialog PROVE Kind(hist'[f])
  BY <1>2 DEF Known
<1>4. Known'
  BY <1>2, <1>3 DEF Known
<1> QED
  BY <1>2, <1>4

\* A step through the history
LEMMA Selected ==
  ASSUME NEW h, Kind(h), h.have_ent, NEW n \in 1..Len(h.lines)
  PROVE  LET q == [h EXCEPT !.ent = n]
         IN  /\ Kind(q) /\ q.have_ent /\ q.lines = h.lines /\ q.ent = n
             /\ h.lines[n] \in Seq(Char) /\ Len(h.lines[n]) < LINESIZ
<1> DEFINE q == [h EXCEPT !.ent = n]
<1>1. /\ h \in Histories /\ h.lines \in Seq(Seq(Char)) /\ n \in Nat /\ Len(h.lines) \in Nat
  BY DEF Kind, Histories
<1>2. q \in Histories /\ q.lines = h.lines /\ q.have_ent = h.have_ent /\ q.ent = n
  BY <1>1 DEF Histories
<1> HIDE DEF q
<1>3. Kind(q)
  BY <1>2 DEF Kind
<1>4. h.lines[n] \in Seq(Char) /\ Len(h.lines[n]) < LINESIZ
  BY <1>1 DEF Kind
<1> QED
  BY <1>2, <1>3, <1>4 DEF q

LEMMA UpDoes ==
  ASSUME Live, hist_up
  PROVE  LET d == Drafted(hist[dialog], Text)
             h == hist[dialog]
         IN  /\ IInv' /\ (~lost' => Shown(e')) /\ e'.linepos = e'.linelen
             /\ dialog' = dialog /\ edit' = edit /\ Remembers /\ dialog \in DOMAIN Dialog
             /\ Kind(h) /\ h.lines # <<>> /\ ~(h.have_ent /\ h.ent = Len(h.lines))
             /\ hist' = [hist EXCEPT ![dialog] = [d EXCEPT !.ent = d.ent + 1]]
             /\ hist'[dialog].lines = d.lines /\ hist'[dialog].ent = d.ent + 1
             /\ hist'[dialog].have_ent
             /\ Text' = d.lines[d.ent + 1]
             /\ \A f \in DOMAIN Dialog : f # dialog => hist'[f] = hist[f]
<1> DEFINE h == hist[dialog]
           d == Drafted(h, Text)
           n == d.ent + 1
           q == [d EXCEPT !.ent = n]
<1>1. /\ Remembers /\ h.lines # <<>> /\ ~(h.have_ent /\ h.ent = Len(h.lines))
      /\ hist' = [hist EXCEPT ![dialog] = q] /\ Show(d.lines[n])
  BY DEF hist_up
<1>2. dialog # None /\ dialog \in DOMAIN Dialog
  BY <1>1 DEF Remembers, Live, IInv, Waits
<1>3. Kind(h) /\ Known
  BY <1>2 DEF Live, IInv, Known
<1>4. Kind(d) /\ d.have_ent /\ n \in 1..Len(d.lines)
  BY <1>1, <1>3, LiveFacts, DraftedIs
<1> HIDE DEF d, n, h
<1>5. /\ Kind(q) /\ q.have_ent /\ q.lines = d.lines /\ q.ent = n
      /\ d.lines[n] \in Seq(Char) /\ Len(d.lines[n]) < LINESIZ
  BY <1>4, Selected
<1> HIDE DEF q
<1>6. /\ Known' /\ hist'[dialog] = q
      /\ \A f \in DOMAIN Dialog : f # dialog => hist'[f] = hist[f]
  BY <1>1, <1>2, <1>3, <1>5, OneHistory
<1>7. /\ Buffer' /\ Waits' /\ Places' /\ Finds' /\ Text' = d.lines[n]
      /\ edit' = edit /\ dialog' = dialog /\ e'.linepos = e'.linelen
      /\ ~lost' => Shown(e')
  BY <1>1, <1>2, <1>5, ShowDoes
<1>8. IInv'
  BY <1>6, <1>7 DEF IInv
<1> QED
  BY <1>1, <1>2, <1>3, <1>5, <1>6, <1>7, <1>8 DEF d, n, h, q

LEMMA DownDoes ==
  ASSUME Live, hist_down
  PROVE  LET h == hist[dialog]
         IN  /\ IInv' /\ (~lost' => Shown(e')) /\ e'.linepos = e'.linelen
             /\ dialog' = dialog /\ edit' = edit /\ Remembers /\ dialog \in DOMAIN Dialog
             /\ Kind(h) /\ h.have_ent /\ h.ent > 1
             /\ hist'[dialog].lines = h.lines /\ hist'[dialog].ent = h.ent - 1
             /\ hist'[dialog].have_ent
             /\ Text' = h.lines[h.ent - 1]
             /\ \A f \in DOMAIN Dialog : f # dialog => hist'[f] = hist[f]
<1> DEFINE h == hist[dialog]
           n == h.ent - 1
           q == [h EXCEPT !.ent = n]
<1>1. /\ Remembers /\ h.have_ent /\ h.ent > 1
      /\ hist' = [hist EXCEPT ![dialog] = q] /\ Show(h.lines[n])
  BY DEF hist_down
<1>2. dialog # None /\ dialog \in DOMAIN Dialog
  BY <1>1 DEF Remembers, Live, IInv, Waits
<1>3. Kind(h) /\ Known
  BY <1>2 DEF Live, IInv, Known
<1>4. n \in 1..Len(h.lines)
  <2>1. h.ent \in 1..Len(h.lines) /\ Len(h.lines) \in Nat /\ h.ent > 1
    BY <1>1, <1>3 DEF Kind, Histories
  <2> QED
    BY <2>1
<1> HIDE DEF n, h
<1>5. /\ Kind(q) /\ q.have_ent /\ q.lines = h.lines /\ q.ent = n
      /\ h.lines[n] \in Seq(Char) /\ Len(h.lines[n]) < LINESIZ
  BY <1>1, <1>3, <1>4, Selected
<1> HIDE DEF q
<1>6. /\ Known' /\ hist'[dialog] = q
      /\ \A f \in DOMAIN Dialog : f # dialog => hist'[f] = hist[f]
  BY <1>1, <1>2, <1>3, <1>5, OneHistory
<1>7. /\ Buffer' /\ Waits' /\ Places' /\ Finds' /\ Text' = h.lines[n]
      /\ edit' = edit /\ dialog' = dialog /\ e'.linepos = e'.linelen
      /\ ~lost' => Shown(e')
  BY <1>1, <1>2, <1>5, ShowDoes
<1>8. IInv'
  BY <1>6, <1>7 DEF IInv
<1> QED
  BY <1>1, <1>2, <1>3, <1>5, <1>6, <1>7, <1>8 DEF n, h

\* A dialog is left, or the one for the regular expression follows.
Emptying == e' = Empty /\ lost' = lost
LEMMA EmptyDoes ==
  ASSUME Live, Emptying
  PROVE  Buffer' /\ Text' = <<>> /\ e'.linepos = 0 /\ e'.linelen = 0 /\ ~lost' /\ Within(e')
<1>1. e' = Empty /\ ~lost'
  BY DEF Emptying, Live
<1>2. Holds(e', <<>>) /\ e'.linepos = 0 /\ e'.leftpos = 0 /\ e'.linelen = 0
  BY <1>1, EmptyHolds
<1>3. Text' = <<>>
  BY <1>2, ReadsText DEF Text
<1>4. Buffer'
  BY <1>2, <1>3 DEF Buffer
<1> QED
  BY <1>1, <1>2, <1>3, <1>4 DEF Within

LEMMA LeaveDoes ==
  ASSUME Live, dialog # None, lost' = lost, Leave \/ (ed_regex /\ dialog = "search")
  PROVE  /\ Buffer' /\ Waits' /\ Places' /\ Text' = <<>> /\ e'.linepos = 0 /\ e'.linelen = 0
         /\ dialog' # dialog
         /\ dialog' = None \/ (dialog = "search" /\ dialog' = "regex")
<1>1. \/ dialog = "search" /\ dialog' = "regex" /\ edit' = TRUE /\ e' = Empty
      \/ dialog' = None /\ edit' = FALSE /\ e' = Empty
  BY DEF Leave, ed_regex, clr_edit
<1>2. Buffer' /\ Text' = <<>> /\ e'.linepos = 0 /\ e'.linelen = 0 /\ ~lost' /\ Within(e')
  BY <1>1, EmptyDoes DEF Emptying
<1>3. lost' \in BOOLEAN
  BY DEF Live, IInv, Waits
<1>4. Waits'
  BY <1>1, <1>3, DialogFacts DEF Waits
<1>5. Places'
  BY <1>1, <1>2, DialogFacts DEF Places
<1>6. dialog' # dialog
  BY <1>1
<1> QED
  BY <1>1, <1>2, <1>4, <1>5, <1>6

LEMMA EscDoes ==
  ASSUME Live, Esc
  PROVE  /\ IInv' /\ Text' = <<>> /\ e'.linepos = 0 /\ e'.linelen = 0 /\ dialog # None
         /\ dialog' # dialog /\ hist' = hist
<1>1. /\ dialog # None /\ Leave /\ hist' = hist /\ srch_idx' = srch_idx /\ lost' = lost
  BY DEF Esc
<1>2. /\ Buffer' /\ Waits' /\ Places' /\ Text' = <<>> /\ e'.linepos = 0 /\ e'.linelen = 0
      /\ dialog' # dialog
  BY <1>1, LeaveDoes
<1>3. Known' /\ Finds'
  BY <1>1 DEF Live, IInv, Known, Finds, db_num
<1> QED
  BY <1>1, <1>2, <1>3 DEF IInv

LEMMA SearchRegexDoes ==
  ASSUME Live, SearchRegex
  PROVE  /\ IInv' /\ Text' = <<>> /\ e'.linepos = 0 /\ e'.linelen = 0 /\ dialog # None
         /\ dialog' # dialog /\ hist' = hist
<1>1. /\ dialog # None /\ dialog = "search" /\ ed_regex /\ hist' = hist
      /\ srch_idx' = srch_idx /\ lost' = lost
  BY DEF SearchRegex, Regex
<1>2. /\ Buffer' /\ Waits' /\ Places' /\ Text' = <<>> /\ e'.linepos = 0 /\ e'.linelen = 0
      /\ dialog' # dialog
  BY <1>1, LeaveDoes
<1>3. Known' /\ Finds'
  BY <1>1 DEF Live, IInv, Known, Finds, db_num
<1> QED
  BY <1>1, <1>2, <1>3 DEF IInv

LEMMA EnterDoes ==
  ASSUME Live, Enter
  PROVE  /\ IInv' /\ Text' = <<>> /\ e'.linepos = 0 /\ e'.linelen = 0 /\ dialog # None
         /\ dialog' # dialog /\ dialog \in DOMAIN Dialog
         /\ dialog' = None \/ (dialog = "search" /\ dialog' = "regex")
         /\ Remembers =>
              /\ hist'[dialog] = Entered(hist[dialog], Text)
              /\ \A f \in DOMAIN Dialog : f # dialog => hist'[f] = hist[f]
         /\ ~Remembers => hist' = hist
<1>1. /\ dialog # None /\ Leave /\ srch_idx' = srch_idx /\ lost' = lost
      /\ hist' = IF Remembers THEN [hist EXCEPT ![dialog] = Entered(@, Text)] ELSE hist
  BY DEF Enter
<1>2. /\ Buffer' /\ Waits' /\ Places' /\ Text' = <<>> /\ e'.linepos = 0 /\ e'.linelen = 0
      /\ dialog' # dialog
      /\ dialog' = None \/ (dialog = "search" /\ dialog' = "regex")
  BY <1>1, LeaveDoes
<1>3. dialog \in DOMAIN Dialog /\ Known
  BY <1>1 DEF Live, IInv, Waits
<1>4. Kind(hist[dialog])
  BY <1>3 DEF Known
<1> DEFINE q == Entered(hist[dialog], Text)
<1>5. Kind(q)
  BY <1>4, LiveFacts, EnteredIs
<1> HIDE DEF q
<1>6. CASE Remembers
  <2>1. hist' = [hist EXCEPT ![dialog] = q]
    BY <1>1, <1>6 DEF q
  <2>2. /\ Known' /\ hist'[dialog] = q
        /\ \A f \in DOMAIN Dialog : f # dialog => hist'[f] = hist[f]
    BY <1>3, <1>5, <2>1, OneHistory
  <2>3. Finds'
    BY <1>1 DEF Live, IInv, Finds, db_num
  <2> QED
    BY <1>1, <1>2, <1>3, <1>6, <2>2, <2>3 DEF IInv, q
<1>7. CASE ~Remembers
  <2>1. hist' = hist
    BY <1>1, <1>7
  <2>2. Known' /\ Finds'
    BY <1>1, <1>3, <2>1 DEF Live, IInv, Known, Finds, db_num
  <2> QED
    BY <1>1, <1>2, <1>3, <1>7, <2>1, <2>2 DEF IInv
<1> QED
  BY <1>6, <1>7

\* init_edit() leaves what is in the buffer, which is empty if it is new.
LEMMA InitEdit ==
  ASSUME IInv
  PROVE  init_edit = e
BY DEF IInv, Places, init_edit

LEMMA DialogDoes ==
  ASSUME Live, NEW d \in DOMAIN Dialog, ed_dialog(d)
  PROVE  /\ IInv' /\ e'.linepos = e'.linelen /\ dialog = None /\ dialog' = d /\ hist' = hist
<1>1. /\ dialog = None /\ dialog' = d /\ edit' = TRUE /\ hist' = hist
      /\ e' = IF Dialog[d].ini = Kept THEN e ELSE ed_append(Emptied(e), Dialog[d].ini)
      /\ lost' = (e'.leftpos > e'.linepos)
      /\ srch_idx' = IF d = "search" THEN 0 ELSE srch_idx
  BY InitEdit DEF ed_dialog, Live
<1>2. e.linepos = e.linelen
  BY <1>1 DEF Live, IInv, Places
<1>3. lost' <=> e'.leftpos > e'.linepos
  BY <1>1
<1>4. lost' \in BOOLEAN
  BY <1>1
<1>5. \E t \in Seq(Char) : Holds(e', t) /\ e'.linepos = e'.linelen
  <2>1. CASE Dialog[d].ini = Kept
    <3>1. e' = e
      BY <1>1, <2>1
    <3> QED
      BY <1>2, <3>1, LiveFacts
  <2>2. CASE Dialog[d].ini # Kept
    <3> DEFINE x == Dialog[d].ini
               r == Emptied(e)
               q == ed_append(r, x)
    <3>1. x \in Seq(Char) /\ Len(x) < LINESIZ /\ Len(x) \in Nat
      BY <2>2, DialogFacts
    <3>2. e' = q
      BY <1>1, <2>2
    <3> HIDE DEF x
    <3>3. Begins(r, <<>>)
      BY LiveFacts, Empties
    <3>4. <<>> \o x = x /\ Len(<<>>) + Len(x) < LINESIZ
      <4>1. Len(<<>>) = 0
        OBVIOUS
      <4> QED
        BY <3>1, <4>1, ConcatEmptySeq
    <3>5. Holds(q, <<>> \o x) /\ q.linepos = q.linelen
      BY <3>1, <3>3, <3>4, Appends
    <3> HIDE DEF q
    <3> QED
      BY <3>1, <3>2, <3>4, <3>5
  <2> QED
    BY <2>1, <2>2
<1>6. PICK t \in Seq(Char) : Holds(e', t) /\ e'.linepos = e'.linelen
  BY <1>5
<1>7. Text' = t
  BY <1>6, ReadsText DEF Text
<1>8. Buffer'
  BY <1>6, <1>7 DEF Buffer
<1>9. e'.linepos \in Nat /\ e'.leftpos \in Nat /\ e'.linelen \in Nat
  BY <1>6 DEF Holds, Begins, Record
<1>10. Waits'
  BY <1>1, <1>4 DEF Waits
<1>11. Places'
  <2>1. ~lost' => Within(e')
    BY <1>3, <1>6, <1>9 DEF Within
  <2>2. dialog' # None /\ edit'
    BY <1>1, DialogFacts
  <2> QED
    BY <2>1, <2>2 DEF Places
<1>12. Known'
  BY <1>1 DEF Live, IInv, Known
<1>13. Finds'
  <2>1. CASE srch_idx' = srch_idx
    BY <2>1 DEF Live, IInv, Finds, db_num
  <2>2. CASE srch_idx' = 0
    <3> SUFFICES ASSUME Names # <<>> PROVE 0 \in 0..(db_num - 1)
      BY <2>2 DEF Finds, db_num
    <3>1. Names \in Seq(Seq(Char))
      BY LineEditorAssumption
    <3>2. Len(Names) \in Nat /\ Len(Names) # 0
      BY <3>1, EmptySeq
    <3> QED
      BY <3>2 DEF db_num
  <2> QED
    BY <1>1, <2>1, <2>2
<1> QED
  BY <1>1, <1>6, <1>8, <1>10, <1>11, <1>12, <1>13 DEF IInv

LEMMA YankDoes ==
  ASSUME Live, yank_name
  PROVE  /\ IInv' /\ e'.linepos = e'.linelen /\ dialog = None /\ dialog' = None /\ hist' = hist
         /\ e.linepos = e.linelen /\ \E y \in Seq(Char) : Text' = Text \o y
<1>1. /\ dialog = None /\ edit' = TRUE /\ dialog' = dialog /\ hist' = hist
      /\ e' = ed_append(ed_append(e, <<Blank>>), Yanked)
      /\ srch_idx' = srch_idx /\ lost' = lost
  BY InitEdit DEF yank_name, Live
<1>2. e.linepos = e.linelen
  BY <1>1 DEF Live, IInv, Places
<1>3. <<Blank>> \in Seq(Char) /\ Yanked \in Seq(Char)
  BY Sizes, LineEditorAssumption
<1>4. Longer(e, Text, e')
  <2>1. Holds(e, Text) /\ Within(e)
    BY LiveFacts
  <2>2. Longer(e, Text, ed_append(e, <<Blank>>))
    BY <1>2, <1>3, <2>1, Appended
  <2>3. Longer(e, Text, ed_append(ed_append(e, <<Blank>>), Yanked))
    BY <1>2, <1>3, <2>1, <2>2, AppendedTwice
  <2> QED
    BY <1>1, <2>3
<1>5. PICK y \in Seq(Char) : Holds(e', Text \o y) /\ e'.linepos = e'.linelen /\ Within(e')
  BY <1>4 DEF Longer
<1>6. Text' = Text \o y
  BY <1>5, ReadsText DEF Text
<1>7. Buffer'
  BY <1>5, <1>6 DEF Buffer
<1>8. Waits'
  BY <1>1 DEF Live, IInv, Waits
<1>9. Places'
  BY <1>1, <1>5 DEF Places
<1>10. Known' /\ Finds'
  BY <1>1 DEF Live, IInv, Known, Finds, db_num
<1> QED
  BY <1>1, <1>2, <1>5, <1>6, <1>7, <1>8, <1>9, <1>10 DEF IInv

LEMMA KeyRDoes ==
  ASSUME Live, KeyR
  PROVE  /\ IInv' /\ Text' = <<>> /\ e'.linepos = 0 /\ e'.linelen = 0
         /\ dialog = None /\ dialog' = None /\ hist' = hist
<1>1. /\ dialog = None /\ edit' = FALSE /\ e' = Empty /\ dialog' = dialog /\ hist' = hist
      /\ srch_idx' = srch_idx /\ lost' = lost
  BY DEF KeyR, clr_edit
<1>2. Buffer' /\ Text' = <<>> /\ e'.linepos = 0 /\ e'.linelen = 0 /\ ~lost' /\ Within(e')
  BY <1>1, EmptyDoes DEF Emptying
<1>3. Waits'
  BY <1>1 DEF Live, IInv, Waits
<1>4. Places'
  BY <1>1, <1>2 DEF Places
<1>5. Known' /\ Finds'
  BY <1>1 DEF Live, IInv, Known, Finds, db_num
<1> QED
  BY <1>1, <1>2, <1>3, <1>4, <1>5 DEF IInv

-----------------------------------------------------------------------------
(* The keys together.                                                      *)
LEMMA NextDoes ==
  ASSUME IInv, Next
  PROVE  IInv'
<1>1. Live
  BY DEF Next, Live
<1>2. CASE \E c \in Char : TypeChar(c)
  BY <1>1, <1>2, TypeCharDoes
<1>3. CASE \E x \in 0..(StatW - 1) : Click(x)
  BY <1>1, <1>3, ClickDoes
<1>4. CASE \E d \in DOMAIN Dialog \ {"regex"} : ed_dialog(d)
  BY <1>1, <1>4, DialogDoes
<1>5. CASE SearchRegex
  BY <1>1, <1>5, SearchRegexDoes
<1>6. CASE Home
  BY <1>1, <1>6, HomeDoes
<1>7. CASE Left
  BY <1>1, <1>7, LeftDoes
<1>8. CASE EndKey
  BY <1>1, <1>8, EndDoes
<1>9. CASE Right
  BY <1>1, <1>9, RightDoes
<1>10. CASE Backspace
  BY <1>1, <1>10, BackspaceDoes
<1>11. CASE Delete
  BY <1>1, <1>11, DeleteDoes
<1>12. CASE Fkey
  BY <1>1, <1>12, FkeyDoes
<1>13. CASE Tab
  BY <1>1, <1>13, TabDoes
<1>14. CASE hist_up
  BY <1>1, <1>14, UpDoes
<1>15. CASE hist_down
  BY <1>1, <1>15, DownDoes
<1>16. CASE Esc
  BY <1>1, <1>16, EscDoes
<1>17. CASE Enter
  BY <1>1, <1>17, EnterDoes
<1>18. CASE yank_name
  BY <1>1, <1>18, YankDoes
<1>19. CASE KeyR
  BY <1>1, <1>19, KeyRDoes
<1> QED
  BY <1>2, <1>3, <1>4, <1>5, <1>6, <1>7, <1>8, <1>9, <1>10, <1>11, <1>12, <1>13, <1>14,
     <1>15, <1>16, <1>17, <1>18, <1>19 DEF Next

LEMMA StepHolds ==
  ASSUME IInv, [Next]_vars
  PROVE  IInv'
<1>1. CASE Next
  BY <1>1, NextDoes
<1>2. CASE UNCHANGED vars
  <2>1. /\ e' = e /\ edit' = edit /\ dialog' = dialog /\ hist' = hist
        /\ srch_idx' = srch_idx /\ lost' = lost
    BY <1>2 DEF vars
  <2>2. Buffer'
    BY <2>1 DEF IInv, Buffer, Text
  <2>3. Waits'
    BY <2>1 DEF IInv, Waits
  <2>4. Places'
    BY <2>1 DEF IInv, Places
  <2>5. Known' /\ Finds'
    BY <2>1 DEF IInv, Known, Finds, db_num
  <2> QED
    BY <2>2, <2>3, <2>4, <2>5 DEF IInv
<1> QED
  BY <1>1, <1>2

\* The line ends where linelen says, within the buffer, the cursor is in the line
\* and not left of the window, and no history is longer than histsize, whatever
\* the sizes are and whatever is typed, completed, or taken from a history.
THEOREM LineTypeCorrect == Spec => []TypeOK
<1>1. Init => IInv
  BY InitHolds
<1>2. IInv /\ [Next]_vars => IInv'
  BY StepHolds
<1>3. IInv => TypeOK
  BY InvTypes
<1> QED
  BY <1>1, <1>2, <1>3, PTL DEF Spec

-----------------------------------------------------------------------------
(* The window.                                                             *)
LEMMA MoveShows ==
  ASSUME Live, Shown(e), Moves, ~lost'
  PROVE  Shown(e')
<1>1. /\ e.linelen \in Nat /\ e.linepos \in Nat /\ e.leftpos \in Nat /\ StatW \in Nat \ {0}
      /\ e.leftpos <= e.linepos /\ e.linepos <= e.linelen
      /\ e.linepos - e.leftpos <= StatW - 1
  BY LiveFacts, Sizes DEF Shown
<1>2. CASE Home
  <2>1. e'.linepos = 0 /\ e'.leftpos = 0
    BY <1>2, HomeDoes DEF Scrolls
  <2> QED
    BY <1>1, <2>1 DEF Shown
<1>3. CASE Left
  <2>1. /\ e'.linepos = e.linepos - 1
        /\ e'.leftpos = IF e.linepos = e.leftpos THEN e.leftpos - 1 ELSE e.leftpos
    BY <1>3, LeftDoes DEF Scrolls
  <2> QED
    BY <1>1, <2>1 DEF Shown
<1>4. CASE EndKey
  <2>1. /\ e'.linepos = e.linelen
        /\ e'.leftpos = IF e.linelen - e.leftpos < StatW - 1 THEN e.leftpos
                        ELSE e.linelen - StatW + 1
    BY <1>4, EndDoes DEF Scrolls
  <2> QED
    BY <1>1, <2>1 DEF Shown
<1>5. CASE Right
  <2>1. /\ e'.linepos = e.linepos + 1
        /\ e'.leftpos = IF e.linepos - e.leftpos < StatW - 1 THEN e.leftpos ELSE e.leftpos + 1
    BY <1>5, RightDoes DEF Scrolls
  <2> QED
    BY <1>1, <2>1 DEF Shown
<1>6. CASE Backspace
  <2>1. /\ e'.linepos = e.linepos - 1 /\ e.linepos > 0
        /\ e'.leftpos = IF e.leftpos > 0 THEN e.leftpos - 1 ELSE e.leftpos
    BY <1>6, BackspaceDoes DEF Scrolls
  <2> QED
    BY <1>1, <2>1 DEF Shown
<1>7. CASE Tab
  BY <1>7, TabDoes
<1>8. CASE hist_up
  BY <1>8, UpDoes
<1>9. CASE hist_down
  BY <1>9, DownDoes
<1>10. ASSUME NEW c \in Char, TypeChar(c) PROVE Shown(e')
  <2>1. /\ e'.linepos = e.linepos + 1
        /\ e'.leftpos = IF e.linepos - e.leftpos = StatW - 1 THEN e.leftpos + 1 ELSE e.leftpos
    BY <1>10, TypeCharDoes DEF Scrolls
  <2> QED
    BY <1>1, <2>1 DEF Shown
<1> QED
  BY <1>2, <1>3, <1>4, <1>5, <1>6, <1>7, <1>8, <1>9, <1>10 DEF Moves

\* A key that moves the cursor, types, erases, completes or shows another line
\* leaves the cursor in the window if it was there, for windows of any width and
\* lines of any length: however the line was scrolled before.
THEOREM CursorStaysShown == Spec => CursorShown
<1>1. Init => IInv
  BY InitHolds
<1>2. IInv /\ [Next]_vars => IInv'
  BY StepHolds
<1>3. ASSUME IInv, [Next]_vars
      PROVE  [Shown(e) /\ Moves /\ ~lost' => Shown(e')]_vars
  <2>1. CASE UNCHANGED vars
    BY <2>1
  <2>2. CASE Next
    <3>1. Live
      BY <1>3, <2>2 DEF Live, Next
    <3> QED
      BY <3>1, MoveShows
  <2> QED
    BY <1>3, <2>1, <2>2
<1>4. IInv /\ [Next]_vars => [Shown(e) /\ Moves /\ ~lost' => Shown(e')]_vars
  BY <1>3
<1> QED
  BY <1>1, <1>2, <1>4, PTL DEF Spec, CursorShown

-----------------------------------------------------------------------------
(* The refinement.  What TextLine sees of the buffer and of the histories. *)
Pos   == Min({e.linepos, e.linelen})
Pasts == [d \in DOMAIN Dialog |-> Past(d)]
Back  == IF Now.have_ent THEN Now.ent - 1 ELSE 0
Draft == IF Now.have_ent THEN Now.lines[1] ELSE <<>>
Unseen == Pasts' = Pasts /\ Back' = Back /\ Draft' = Draft
Emptied0 == Back' = 0 /\ Draft' = <<>> /\ Text' = <<>> /\ Pos' = 0
Keeps(old, lines) == \E n \in T!Least(HistSize - 1, Len(lines))..Len(lines) :
                       old = SubSeq(lines, 1, n)

LEMMA IsInsert ==
  ASSUME NEW n, n = Len(Text') - Len(Text), n > 0, Pos' = Pos + n,
         Text' = SubSeq(Text, 1, Pos) \o SubSeq(Text', Pos + 1, Pos + n)
                   \o SubSeq(Text, Pos + 1, Len(Text)),
         dialog' = dialog, Unseen
  PROVE  T!Insert
BY DEF T!Insert, T!Before, T!Behind, Unseen, Pos, Pasts, Back, Draft

LEMMA IsErase ==
  ASSUME Pos > 0, Pos' = Pos - 1,
         Text' = Front(SubSeq(Text, 1, Pos)) \o SubSeq(Text, Pos + 1, Len(Text)),
         dialog' = dialog, Unseen
  PROVE  T!Erase
BY DEF T!Erase, T!Front, Front, T!Before, T!Behind, Unseen, Pos, Pasts, Back, Draft

LEMMA IsDelete ==
  ASSUME SubSeq(Text, Pos + 1, Len(Text)) # <<>>, Pos' = Pos,
         Text' = SubSeq(Text, 1, Pos) \o Tail(SubSeq(Text, Pos + 1, Len(Text))),
         dialog' = dialog, Unseen
  PROVE  T!Delete
BY DEF T!Delete, T!Before, T!Behind, Unseen, Pos, Pasts, Back, Draft

LEMMA IsGo ==
  ASSUME Pos' \in 0..Len(Text), Text' = Text, dialog' = dialog, Unseen
  PROVE  T!Go
BY DEF T!Go, Unseen, Pos, Pasts, Back, Draft

LEMMA IsOpen ==
  ASSUME dialog = "none", dialog' \in DOMAIN Dialog, Pos' = Len(Text'), Unseen
  PROVE  T!Open
BY DEF T!Open, Unseen, Pos, Pasts, Back, Draft

LEMMA IsLeave ==
  ASSUME dialog # "none", dialog' # dialog, Emptied0, Pasts' = Pasts
  PROVE  T!Leave
BY DEF T!Leave, T!Closed, Emptied0, Pos, Pasts, Back, Draft

LEMMA IsClear ==
  ASSUME dialog = "none", dialog' = dialog, Emptied0, Pasts' = Pasts
  PROVE  T!Clear
BY DEF T!Clear, T!Closed, Emptied0, Pos, Pasts, Back, Draft

LEMMA IsEnter ==
  ASSUME dialog # "none", dialog' = "none", Emptied0,
         Dialog[dialog].hist => /\ Keeps(Pasts'[dialog], <<Text>> \o Pasts[dialog])
                                /\ Pasts' = [Pasts EXCEPT ![dialog] = Pasts'[dialog]],
         ~Dialog[dialog].hist => Pasts' = Pasts,
         dialog \in DOMAIN Dialog
  PROVE  T!Enter
BY DEF T!Enter, T!Closed, T!Forgets, Keeps, Emptied0, Pos, Pasts, Back, Draft

LEMMA IsOlder ==
  ASSUME dialog \in DOMAIN Dialog, Dialog[dialog].hist, dialog' = dialog,
         Back < Len(Pasts'[dialog]), Back' = Back + 1,
         Text' = Pasts[dialog][Back + 1], Pos' = Len(Text'),
         Draft' = IF Back = 0 THEN Text ELSE Draft,
         Keeps(Pasts'[dialog], Pasts[dialog]),
         Pasts' = [Pasts EXCEPT ![dialog] = Pasts'[dialog]]
  PROVE  T!Older
BY DEF T!Older, T!Show, T!Forgets, Keeps, Pos, Pasts, Back, Draft

LEMMA IsNewer ==
  ASSUME Back > 0, Back' = Back - 1, dialog' = dialog,
         Text' = IF Back = 1 THEN Draft ELSE Pasts[dialog][Back - 1], Pos' = Len(Text'),
         Pasts' = Pasts, Draft' = Draft
  PROVE  T!Newer
BY DEF T!Newer, T!Show, Pos, Pasts, Back, Draft

LEMMA IsStutter ==
  ASSUME dialog' = dialog, Text' = Text, Pos' = Pos, Unseen
  PROVE  UNCHANGED T!vars
BY DEF T!vars, Unseen, Pos, Pasts, Back, Draft

LEMMA LesserIs ==
  ASSUME NEW p \in Nat, NEW n \in Nat
  PROVE  Min({p, n}) = IF p <= n THEN p ELSE n
<1>1. CASE p <= n
  BY <1>1, LeastIs
<1>2. CASE ~(p <= n)
  BY <1>2, LeastIs
<1> QED
  BY <1>1, <1>2

LEMMA PosIs ==
  ASSUME Live
  PROVE  Pos = e.linepos /\ Pos \in 0..Len(Text)
BY LiveFacts, LesserIs DEF Pos

LEMMA AfterFacts ==
  ASSUME IInv'
  PROVE  /\ Text' \in Seq(Char) /\ Len(Text') \in Nat /\ e'.linelen = Len(Text')
         /\ e'.linepos \in Nat
         /\ Pos' = IF e'.linepos <= e'.linelen THEN e'.linepos ELSE e'.linelen
<1>1. Holds(e', Text')
  BY DEF IInv, Buffer
<1>2. /\ Text' \in Seq(Char) /\ Len(Text') \in Nat /\ e'.linelen = Len(Text')
      /\ e'.linepos \in Nat
  BY <1>1 DEF Holds, Begins, Record
<1>3. Pos' = Min({e'.linepos, e'.linelen})
  BY DEF Pos
<1> QED
  BY <1>2, <1>3, LesserIs

LEMMA SameView ==
  ASSUME dialog' = dialog, hist' = hist
  PROVE  Unseen
BY DEF Unseen, Pasts, Past, Back, Draft, Now

LEMMA GoStep ==
  ASSUME Live, IInv', Text' = Text, dialog' = dialog, hist' = hist
  PROVE  T!Go
<1>1. Pos' \in 0..Len(Text)
  BY AfterFacts
<1> QED
  BY <1>1, SameView, IsGo

LEMMA InsertStep ==
  ASSUME Live, IInv', NEW x \in Seq(Char), x # <<>>, Text' = Ins(Text, e.linepos, x),
         e'.linepos = e.linepos + Len(x), dialog' = dialog, hist' = hist
  PROVE  T!Insert
<1> DEFINE t == Text
           s == Text'
           p == Pos
           n == Len(s) - Len(t)
<1>1. /\ t \in Seq(Char) /\ Len(t) \in Nat /\ p \in 0..Len(t) /\ p = e.linepos
      /\ Len(x) \in Nat /\ Len(x) # 0
  BY LiveFacts, PosIs, EmptySeq
<1>2. s = Ins(t, p, x) /\ Len(s) = Len(t) + Len(x)
  BY <1>1, InsIsText
<1>3. n = Len(x) /\ n > 0
  BY <1>1, <1>2
<1>4. Pos' = p + n
  <2>1. e'.linelen = Len(s) /\ e'.linepos = p + Len(x)
    BY <1>1, AfterFacts
  <2>2. e'.linepos <= e'.linelen
    BY <1>1, <1>2, <2>1
  <2> QED
    BY <1>3, <2>1, <2>2, AfterFacts
<1>5. s = SubSeq(t, 1, p) \o SubSeq(s, p + 1, p + Len(x)) \o SubSeq(t, p + 1, Len(t))
  <2> DEFINE z == Ins(t, p, x)
  <2>1. z = SubSeq(t, 1, p) \o SubSeq(z, p + 1, p + Len(x)) \o SubSeq(t, p + 1, Len(t))
    BY <1>1, InsIsInsert
  <2> HIDE DEF z
  <2>2. s = z
    BY <1>2 DEF z
  <2> QED
    BY <2>1, <2>2
<1>6. Unseen
  BY SameView
<1> QED
  BY <1>3, <1>4, <1>5, <1>6, IsInsert

\* What is appended is inserted at the end.
LEMMA AppendStep ==
  ASSUME Live, IInv', NEW y \in Seq(Char), Text' = Text \o y, e.linepos = e.linelen,
         e'.linepos = e'.linelen, dialog' = dialog, hist' = hist
  PROVE  T!Insert \/ UNCHANGED T!vars
<1> DEFINE t == Text
           n == Len(t)
<1>1. /\ t \in Seq(Char) /\ n \in Nat /\ e.linepos = n /\ Len(y) \in Nat
      /\ e'.linepos = Len(Text') /\ Pos = n
  BY LiveFacts, PosIs, AfterFacts
<1>2. CASE y = <<>>
  <2>1. Text' = Text
    BY <1>1, <1>2, ConcatEmptySeq
  <2>2. Pos' = Pos
    BY <1>1, <2>1, AfterFacts
  <2> QED
    BY <2>1, <2>2, SameView, IsStutter
<1>3. CASE y # <<>>
  <2>1. /\ t \o y \in Seq(Char) /\ Len(t \o y) = n + Len(y)
        /\ \A i \in 1..(n + Len(y)) : (t \o y)[i] = IF i <= n THEN t[i] ELSE y[i - n]
    BY <1>1, ConcatProperties
  <2>2. n \in 0..Len(t)
    BY <1>1
  <2>3. /\ Ins(t, n, y) \in Seq(Char) /\ Len(Ins(t, n, y)) = n + Len(y)
        /\ \A i \in 1..(n + Len(y)) : Ins(t, n, y)[i] =
             IF i <= n THEN t[i] ELSE IF i <= n + Len(y) THEN y[i - n] ELSE t[i - Len(y)]
    BY <1>1, <2>2, InsIsText
  <2>4. \A i \in 1..Len(t \o y) : (t \o y)[i] = Ins(t, n, y)[i]
    BY <1>1, <2>1, <2>3
  <2>5. t \o y = Ins(t, n, y)
    <3> DEFINE u == t \o y
               v == Ins(t, n, y)
    <3>1. /\ u \in Seq(Char) /\ v \in Seq(Char) /\ Len(u) = Len(v)
          /\ \A i \in 1..Len(u) : u[i] = v[i]
      BY <2>1, <2>3, <2>4
    <3> HIDE DEF u, v
    <3>2. u = v
      BY <3>1, SeqEqual
    <3> QED
      BY <3>2 DEF u, v
  <2>6. Text' = Ins(Text, e.linepos, y)
    BY <1>1, <2>5
  <2>7. e'.linepos = e.linepos + Len(y)
    BY <1>1, <2>1
  <2> QED
    BY <1>3, <2>6, <2>7, InsertStep
<1> QED
  BY <1>2, <1>3

LEMMA EraseStep ==
  ASSUME Live, Backspace
  PROVE  T!Erase
<1>1. /\ IInv' /\ Text' = Del(Text, e.linepos - 1) /\ Still /\ e.linepos > 0
      /\ e'.linepos = e.linepos - 1 /\ e'.linelen = e.linelen - 1
  BY BackspaceDoes DEF Scrolls
<1>2. /\ Pos = e.linepos /\ e.linepos \in 1..Len(Text) /\ Text \in Seq(Char)
      /\ e.linepos \in Nat /\ Len(Text) \in Nat /\ e.linelen = Len(Text)
  BY <1>1, LiveFacts, PosIs
<1>3. Pos' = Pos - 1 /\ Pos > 0
  <2>1. e'.linepos <= e'.linelen
    BY <1>1, <1>2
  <2> QED
    BY <1>1, <1>2, <2>1, AfterFacts
<1>4. Text' = Front(SubSeq(Text, 1, Pos)) \o SubSeq(Text, Pos + 1, Len(Text))
  BY <1>1, <1>2, DelIsErase
<1>5. dialog' = dialog /\ Unseen
  BY <1>1, SameView DEF Still
<1> QED
  BY <1>3, <1>4, <1>5, IsErase

LEMMA DeleteStep ==
  ASSUME Live, Delete
  PROVE  T!Delete
<1>1. /\ IInv' /\ Text' = Del(Text, e.linepos) /\ Still /\ e.linepos < e.linelen
      /\ e'.linepos = e.linepos /\ e'.linelen = e.linelen - 1
  BY DeleteDoes DEF Scrolls
<1>2. /\ Pos = e.linepos /\ e.linepos \in 0..(Len(Text) - 1) /\ Text \in Seq(Char)
      /\ e.linepos \in Nat /\ Len(Text) \in Nat /\ e.linelen = Len(Text)
  BY <1>1, LiveFacts, PosIs
<1>3. Pos' = Pos
  <2>1. e'.linepos <= e'.linelen
    BY <1>1, <1>2
  <2> QED
    BY <1>1, <1>2, <2>1, AfterFacts
<1>4. /\ SubSeq(Text, Pos + 1, Len(Text)) # <<>>
      /\ Text' = SubSeq(Text, 1, Pos) \o Tail(SubSeq(Text, Pos + 1, Len(Text)))
  BY <1>1, <1>2, DelIsDelete
<1>5. dialog' = dialog /\ Unseen
  BY <1>1, SameView DEF Still
<1> QED
  BY <1>3, <1>4, <1>5, IsDelete

-----------------------------------------------------------------------------
(* The histories.  Unless a dialog is left with <ESC> while an older line  *)
(* is shown, there is a line that is being typed in the open dialog only.  *)
Alone == \A d \in DOMAIN Dialog : hist[d].have_ent => dialog = d /\ Dialog[d].hist

LEMMA PastIs ==
  ASSUME NEW d \in DOMAIN Dialog
  PROVE  /\ Pasts[d] = IF hist[d].have_ent THEN Tail(hist[d].lines) ELSE hist[d].lines
         /\ Pasts'[d] = IF hist'[d].have_ent THEN Tail(hist'[d].lines) ELSE hist'[d].lines
BY DEF Pasts, Past

LEMMA NowIs ==
  /\ dialog \in DOMAIN Dialog /\ hist[dialog].have_ent =>
       Back = hist[dialog].ent - 1 /\ Draft = hist[dialog].lines[1]
  /\ dialog' \in DOMAIN Dialog /\ hist'[dialog'].have_ent =>
       Back' = hist'[dialog'].ent - 1 /\ Draft' = hist'[dialog'].lines[1]
  /\ dialog = None \/ ~hist[dialog].have_ent => Back = 0 /\ Draft = <<>>
  /\ dialog' = None \/ ~hist'[dialog'].have_ent => Back' = 0 /\ Draft' = <<>>
BY DialogFacts DEF Back, Draft, Now, NoHistory

LEMMA OthersStay ==
  ASSUME dialog \in DOMAIN Dialog,
         \A f \in DOMAIN Dialog : f # dialog => hist'[f] = hist[f]
  PROVE  Pasts' = [Pasts EXCEPT ![dialog] = Pasts'[dialog]]
<1>1. DOMAIN Pasts = DOMAIN Dialog /\ DOMAIN Pasts' = DOMAIN Dialog
  BY DEF Pasts
<1>2. \A f \in DOMAIN Dialog : f # dialog => Pasts'[f] = Pasts[f]
  BY PastIs
<1>3. /\ Pasts = [f \in DOMAIN Dialog |-> Pasts[f]]
      /\ Pasts' = [f \in DOMAIN Dialog |-> Pasts'[f]]
  BY DEF Pasts
<1> QED
  BY <1>1, <1>2, <1>3

LEMMA KeepsAll ==
  ASSUME NEW S, NEW s \in Seq(S)
  PROVE  Keeps(s, s)
<1>1. Len(s) \in Nat /\ s = SubSeq(s, 1, Len(s)) /\ HistSize \in Nat
  BY SubSeqFull, Sizes
<1>2. Len(s) \in T!Least(HistSize - 1, Len(s))..Len(s)
  BY <1>1 DEF T!Least
<1> QED
  BY <1>1, <1>2 DEF Keeps

LEMMA KeepsOld ==
  ASSUME NEW S, NEW s \in Seq(S), Len(s) <= HistSize, HistSize >= 2
  PROVE  Keeps(Old(s), s)
<1> DEFINE n == Len(Old(s))
<1>1. /\ n \in Nat /\ n = IF Len(s) < HistSize THEN Len(s) ELSE HistSize - 1
      /\ Old(s) = SubSeq(s, 1, n)
  BY OldIs
<1> HIDE DEF n
<1>2. Len(s) \in Nat /\ HistSize \in Nat
  BY Sizes
<1>3. n \in T!Least(HistSize - 1, Len(s))..Len(s)
  BY <1>1, <1>2 DEF T!Least
<1> QED
  BY <1>1, <1>3 DEF Keeps

LEMMA KeepsNewAndOld ==
  ASSUME NEW S, NEW a \in S, NEW s \in Seq(S), Len(s) <= HistSize, HistSize >= 2
  PROVE  Keeps(<<a>> \o Old(s), <<a>> \o s)
<1> DEFINE o == Old(s)
           u == <<a>> \o o
           v == <<a>> \o s
           n == Len(o) + 1
           w == SubSeq(v, 1, n)
<1>1. /\ o \in Seq(S) /\ Len(o) \in Nat
      /\ Len(o) = IF Len(s) < HistSize THEN Len(s) ELSE HistSize - 1
      /\ \A i \in 1..Len(o) : i \in 1..Len(s) /\ o[i] = s[i]
  BY OldIs
<1>2. Len(s) \in Nat /\ HistSize \in Nat
  BY Sizes
<1> HIDE DEF o
<1>3. /\ u \in Seq(S) /\ Len(u) = Len(o) + 1 /\ u[1] = a
      /\ \A i \in 1..Len(o) : u[i + 1] = o[i]
  BY <1>1, ConsIs
<1>4. /\ v \in Seq(S) /\ Len(v) = Len(s) + 1 /\ v[1] = a
      /\ \A i \in 1..Len(s) : v[i + 1] = s[i]
  BY ConsIs
<1> HIDE DEF u, v
<1>5. n \in Nat /\ n <= Len(v) /\ n \in T!Least(HistSize - 1, Len(v))..Len(v)
  BY <1>1, <1>2, <1>4 DEF T!Least
<1>6. w \in Seq(S) /\ Len(w) = n /\ \A i \in 1..n : w[i] = v[i]
  <2>1. Len(v) \in Nat /\ \A i \in 1..n : v[i] \in S
    BY <1>2, <1>4, <1>5
  <2>2. n >= 1
    BY <1>1
  <2>4. n \in Nat
    BY <1>5
  <2> HIDE DEF n
  <2>3. /\ w \in Seq(S) /\ Len(w) = IF 1 <= n THEN n - 1 + 1 ELSE 0
        /\ \A i \in 1..(n - 1 + 1) : w[i] = v[1 + i - 1]
    BY <2>1, <2>4, SubSeqProperties
  <2> QED
    BY <2>2, <2>3, <2>4
<1>7. ASSUME NEW i \in 1..n PROVE u[i] = v[i]
  <2>1. CASE i = 1
    BY <1>3, <1>4, <2>1
  <2>2. CASE i # 1
    <3> DEFINE j == i - 1
    <3>1. j \in 1..Len(o) /\ j + 1 = i
      BY <1>1, <2>2
    <3> HIDE DEF j
    <3>2. u[i] = o[j]
      BY <1>3, <3>1
    <3>3. j \in 1..Len(s) /\ o[j] = s[j]
      BY <1>1, <3>1
    <3>4. v[i] = s[j]
      BY <1>4, <3>1, <3>3
    <3> QED
      BY <3>2, <3>3, <3>4
  <2> QED
    BY <2>1, <2>2
<1> HIDE DEF w
<1>8. u = w
  <2>1. Len(u) = n
    BY <1>3
  <2> HIDE DEF n
  <2>2. \A i \in 1..Len(u) : u[i] = w[i]
    BY <1>6, <1>7, <2>1
  <2> QED
    BY <1>3, <1>6, <2>1, <2>2, SeqEqual
<1>9. Keeps(u, v)
  BY <1>5, <1>8 DEF Keeps, w
<1> QED
  BY <1>9 DEF u, v, o

\* A history without a second line keeps nothing.
LEMMA KeepsNone ==
  ASSUME NEW S, NEW a \in S, HistSize < 2
  PROVE  Keeps(<<>>, <<a>> \o <<>>)
<1>1. <<>> \in Seq(S) /\ Len(<<>>) = 0 /\ HistSize \in Nat
  BY EmptySeq, Sizes
<1> DEFINE v == <<a>> \o <<>>
<1>2. Len(v) = 1
  BY <1>1, ConsIs
<1>3. SubSeq(v, 1, 0) = <<>>
  BY SubSeqEmpty
<1> HIDE DEF v
<1>4. 0 \in T!Least(HistSize - 1, Len(v))..Len(v)
  BY <1>1, <1>2 DEF T!Least
<1>5. Keeps(<<>>, v)
  BY <1>3, <1>4 DEF Keeps
<1> QED
  BY <1>5 DEF v

LEMMA OlderStep ==
  ASSUME Live, Alone, hist_up
  PROVE  T!Older /\ Alone'
<1> DEFINE h == hist[dialog]
           d == Drafted(h, Text)
<1>1. /\ IInv' /\ e'.linepos = e'.linelen /\ dialog' = dialog
      /\ Dialog[dialog].hist /\ dialog \in DOMAIN Dialog
      /\ Kind(h) /\ h.lines # <<>> /\ ~(h.have_ent /\ h.ent = Len(h.lines))
      /\ hist'[dialog].lines = d.lines /\ hist'[dialog].ent = d.ent + 1
      /\ hist'[dialog].have_ent
      /\ Text' = d.lines[d.ent + 1]
      /\ \A f \in DOMAIN Dialog : f # dialog => hist'[f] = hist[f]
  BY UpDoes DEF Remembers
<1>2. /\ Kind(d) /\ d.ent = (IF h.have_ent THEN h.ent ELSE 1)
      /\ d.ent + 1 \in 1..Len(d.lines)
      /\ Tail(d.lines) = (IF h.have_ent THEN Tail(h.lines) ELSE Old(h.lines))
      /\ d.lines[1] = (IF h.have_ent /\ h.ent # 1 THEN h.lines[1] ELSE Text)
  BY <1>1, LiveFacts, DraftedIs
<1> HIDE DEF d
<1>3. /\ h.lines \in Seq(Seq(Char)) /\ h.ent \in Nat /\ h.have_ent \in BOOLEAN
      /\ d.lines \in Seq(Seq(Char)) /\ Len(d.lines) \in Nat /\ d.ent \in Nat
      /\ Len(h.lines) <= HistSize /\ HistSize >= 2
      /\ h.have_ent => h.ent \in 1..Len(h.lines)
  BY <1>1, <1>2, Sizes, SMTT(30) DEF Kind, Histories
<1>4. /\ Back = (IF h.have_ent THEN h.ent - 1 ELSE 0)
      /\ Draft = (IF h.have_ent THEN h.lines[1] ELSE <<>>)
      /\ Pasts[dialog] = (IF h.have_ent THEN Tail(h.lines) ELSE h.lines)
  BY <1>1, NowIs, PastIs
<1>5. Back' = d.ent /\ Draft' = d.lines[1] /\ Pasts'[dialog] = Tail(d.lines)
  <2>1. dialog' \in DOMAIN Dialog /\ hist'[dialog'].have_ent
    BY <1>1
  <2>2. Back' = hist'[dialog'].ent - 1 /\ Draft' = hist'[dialog'].lines[1]
    BY <2>1, NowIs
  <2>3. hist'[dialog'].ent = d.ent + 1 /\ hist'[dialog'].lines = d.lines
    BY <1>1
  <2>4. Pasts'[dialog] = Tail(hist'[dialog].lines)
    BY <1>1, PastIs
  <2>5. Pasts'[dialog] = Tail(d.lines)
    BY <1>1, <2>4
  <2>6. Back' = d.ent
    <3> DEFINE k == d.ent + 1
    <3>1. hist'[dialog'].ent = k
      BY <2>3
    <3>2. d.ent \in Nat
      BY <1>3
    <3>3. k - 1 = d.ent
      BY <3>2
    <3> HIDE DEF k
    <3>4. Back' = k - 1
      BY <2>2, <3>1, Zenon
    <3> QED
      BY <3>3, <3>4, Zenon
  <2>7. Draft' = d.lines[1]
    BY <2>2, <2>3
  <2> QED
    BY <2>5, <2>6, <2>7
<1> HIDE DEF h
<1>6. Back' = Back + 1
  BY <1>2, <1>3, <1>4, <1>5
<1>7. /\ Tail(d.lines) \in Seq(Seq(Char)) /\ Len(Tail(d.lines)) = Len(d.lines) - 1
      /\ \A i \in 1..Len(Tail(d.lines)) : Tail(d.lines)[i] = d.lines[i + 1]
  <2>1. d.lines # <<>>
    <3>1. Len(d.lines) # 0
      BY <1>2, <1>3
    <3> QED
      BY <3>1, EmptySeq
  <2> QED
    BY <1>3, <2>1, HeadTailProperties
<1>8. d.ent >= 1
  BY <1>2, <1>3
<1>9. d.ent \in 1..Len(Tail(d.lines))
  BY <1>2, <1>3, <1>7, <1>8
<1>10. Back < Len(Pasts'[dialog])
  BY <1>2, <1>3, <1>4, <1>5, <1>9
<1>11. Back + 1 = d.ent
  BY <1>2, <1>3, <1>4
<1>12. Text' = Pasts[dialog][Back + 1]
  <2>1. Text' = Tail(d.lines)[d.ent]
    BY <1>1, <1>7, <1>9
  <2>2. CASE h.have_ent
    BY <1>2, <1>4, <1>11, <2>1, <2>2
  <2>3. CASE ~h.have_ent
    <3>1. /\ Len(Old(h.lines)) \in Nat
          /\ \A i \in 1..Len(Old(h.lines)) : Old(h.lines)[i] = h.lines[i]
      BY <1>3, OldIs
    <3>2. Tail(d.lines) = Old(h.lines) /\ Pasts[dialog] = h.lines
      BY <1>2, <1>4, <2>3
    <3> QED
      BY <1>9, <1>11, <2>1, <3>1, <3>2
  <2> QED
    BY <2>2, <2>3
<1>13. Pos' = Len(Text')
  BY <1>1, AfterFacts
<1>14. Draft' = IF Back = 0 THEN Text ELSE Draft
  <2>1. CASE h.have_ent /\ h.ent # 1
    <3>1. Back # 0
      BY <1>3, <1>4, <2>1
    <3> QED
      BY <1>2, <1>4, <1>5, <2>1, <3>1
  <2>2. CASE ~(h.have_ent /\ h.ent # 1)
    <3>1. Back = 0
      BY <1>3, <1>4, <2>2
    <3> QED
      BY <1>2, <1>5, <2>2, <3>1
  <2> QED
    BY <2>1, <2>2
<1>15. Keeps(Pasts'[dialog], Pasts[dialog])
  <2>1. CASE h.have_ent
    BY <1>2, <1>4, <1>5, <1>7, <2>1, KeepsAll
  <2>2. CASE ~h.have_ent
    BY <1>2, <1>3, <1>4, <1>5, <2>2, KeepsOld
  <2> QED
    BY <2>1, <2>2
<1>16. Pasts' = [Pasts EXCEPT ![dialog] = Pasts'[dialog]]
  BY <1>1, OthersStay
<1>17. Alone'
  BY <1>1 DEF Alone
<1> QED
  BY <1>1, <1>6, <1>10, <1>12, <1>13, <1>14, <1>15, <1>16, <1>17, IsOlder

LEMMA NewerStep ==
  ASSUME Live, Alone, hist_down
  PROVE  T!Newer /\ Alone'
<1> DEFINE h == hist[dialog]
<1>1. /\ IInv' /\ e'.linepos = e'.linelen /\ dialog' = dialog
      /\ Dialog[dialog].hist /\ dialog \in DOMAIN Dialog
      /\ Kind(h) /\ h.have_ent /\ h.ent > 1
      /\ hist'[dialog].lines = h.lines /\ hist'[dialog].ent = h.ent - 1
      /\ hist'[dialog].have_ent
      /\ Text' = h.lines[h.ent - 1]
      /\ \A f \in DOMAIN Dialog : f # dialog => hist'[f] = hist[f]
  BY DownDoes DEF Remembers
<1>2. /\ h.lines \in Seq(Seq(Char)) /\ Len(h.lines) \in Nat /\ h.ent \in 1..Len(h.lines)
  BY <1>1 DEF Kind, Histories
<1>3. /\ Back = h.ent - 1 /\ Draft = h.lines[1] /\ Pasts[dialog] = Tail(h.lines)
  BY <1>1, NowIs, PastIs
<1>4. Back' = h.ent - 1 - 1 /\ Draft' = h.lines[1] /\ Pasts'[dialog] = Tail(h.lines)
  BY <1>1, NowIs, PastIs
<1> HIDE DEF h
<1>5. Back > 0 /\ Back' = Back - 1
  BY <1>1, <1>2, <1>3, <1>4
<1>6. /\ Tail(h.lines) \in Seq(Seq(Char)) /\ Len(Tail(h.lines)) = Len(h.lines) - 1
      /\ \A i \in 1..Len(Tail(h.lines)) : Tail(h.lines)[i] = h.lines[i + 1]
  <2>1. h.lines # <<>>
    <3>1. Len(h.lines) # 0
      BY <1>2
    <3> QED
      BY <3>1, EmptySeq
  <2> QED
    BY <1>2, <2>1, HeadTailProperties
<1>7. Text' = IF Back = 1 THEN Draft ELSE Pasts[dialog][Back - 1]
  <2>1. CASE Back = 1
    <3>1. h.ent - 1 = 1
      BY <1>2, <1>3, <2>1
    <3> QED
      BY <1>1, <1>3, <2>1, <3>1 DEF h
  <2>2. CASE Back # 1
    <3> DEFINE k == Back - 1
    <3>1. k \in 1..Len(Tail(h.lines)) /\ k + 1 = h.ent - 1
      <4> DEFINE a == h.ent
                 l == Len(h.lines)
      <4>1. l \in Nat /\ a \in 1..l /\ a > 1
        BY <1>1, <1>2 DEF h
      <4>2. Back = a - 1 /\ a - 1 # 1 /\ Len(Tail(h.lines)) = l - 1
        BY <1>3, <1>6, <2>2
      <4> HIDE DEF a, l
      <4>3. a - 1 - 1 \in 1..(l - 1) /\ (a - 1 - 1) + 1 = a - 1
        BY <4>1, <4>2
      <4> QED
        BY <4>2, <4>3 DEF a
    <3>2. Text' = h.lines[h.ent - 1]
      BY <1>1 DEF h
    <3> HIDE DEF k
    <3>3. Tail(h.lines)[k] = h.lines[h.ent - 1]
      BY <1>6, <3>1
    <3>4. Text' = Pasts[dialog][k]
      BY <1>3, <3>2, <3>3
    <3> QED
      BY <2>2, <3>4 DEF k
  <2> QED
    BY <2>1, <2>2
<1>8. Pos' = Len(Text')
  BY <1>1, AfterFacts
<1>9. Pasts' = Pasts
  <2>1. \A f \in DOMAIN Dialog : Pasts'[f] = Pasts[f]
    BY <1>1, <1>3, <1>4, PastIs
  <2>2. /\ Pasts = [f \in DOMAIN Dialog |-> Pasts[f]]
        /\ Pasts' = [f \in DOMAIN Dialog |-> Pasts'[f]]
    BY DEF Pasts
  <2> QED
    BY <2>1, <2>2
<1>10. Alone'
  BY <1>1 DEF Alone
<1> QED
  BY <1>1, <1>3, <1>4, <1>5, <1>7, <1>8, <1>9, <1>10, IsNewer

\* Nobody has gone back where a dialog begins or ends.
LEMMA NotBack ==
  ASSUME IInv, Alone, dialog = None \/ ~hist[dialog].have_ent
  PROVE  /\ \A f \in DOMAIN Dialog : ~hist[f].have_ent /\ Pasts[f] = hist[f].lines
         /\ Back = 0 /\ Draft = <<>>
<1>1. \A f \in DOMAIN Dialog : ~hist[f].have_ent
  BY DialogFacts DEF Alone
<1> QED
  BY <1>1, NowIs, PastIs

LEMMA EmptiedIs ==
  ASSUME IInv', Text' = <<>>, e'.linepos = 0, e'.linelen = 0,
         dialog' = None \/ ~hist'[dialog'].have_ent
  PROVE  Emptied0
<1>1. Pos' = 0
  BY AfterFacts
<1> QED
  BY <1>1, NowIs DEF Emptied0

LEMMA SamePasts ==
  ASSUME hist' = hist
  PROVE  Pasts' = Pasts
BY DEF Pasts, Past

LEMMA LeaveStep ==
  ASSUME Live, Alone, dialog # None, ~hist[dialog].have_ent, IInv', Text' = <<>>,
         e'.linepos = 0, e'.linelen = 0, dialog' # dialog, hist' = hist
  PROVE  T!Leave /\ Alone'
<1>1. \A f \in DOMAIN Dialog : ~hist[f].have_ent
  BY NotBack DEF Live
<1>2. dialog' \in DOMAIN Dialog \cup {None}
  BY DEF IInv, Waits
<1>3. dialog' = None \/ ~hist'[dialog'].have_ent
  BY <1>1, <1>2
<1>4. Emptied0 /\ Pasts' = Pasts
  BY <1>3, EmptiedIs, SamePasts
<1>5. Alone'
  BY <1>1 DEF Alone
<1> QED
  BY <1>4, <1>5, IsLeave DEF None

LEMMA ClearStep ==
  ASSUME Live, Alone, KeyR
  PROVE  T!Clear /\ Alone'
<1>1. /\ IInv' /\ Text' = <<>> /\ e'.linepos = 0 /\ e'.linelen = 0
      /\ dialog = None /\ dialog' = None /\ hist' = hist
  BY KeyRDoes
<1>2. Emptied0 /\ Pasts' = Pasts
  BY <1>1, EmptiedIs, SamePasts
<1>3. Alone'
  BY <1>1 DEF Alone
<1> QED
  BY <1>1, <1>2, <1>3, IsClear DEF None

LEMMA OpenStep ==
  ASSUME Live, Alone, NEW d \in DOMAIN Dialog, ed_dialog(d)
  PROVE  T!Open /\ Alone'
<1>1. IInv' /\ e'.linepos = e'.linelen /\ dialog = None /\ dialog' = d /\ hist' = hist
  BY DialogDoes
<1>2. \A f \in DOMAIN Dialog : ~hist[f].have_ent
  BY <1>1, NotBack DEF Live
<1>3. Back = 0 /\ Draft = <<>>
  BY <1>1, NotBack DEF Live
<1>4. Back' = 0 /\ Draft' = <<>>
  BY <1>1, <1>2, NowIs
<1>5. Unseen
  BY <1>1, <1>3, <1>4, SamePasts DEF Unseen
<1>6. Pos' = Len(Text')
  BY <1>1, AfterFacts
<1>7. Alone'
  BY <1>1, <1>2 DEF Alone
<1> QED
  BY <1>1, <1>5, <1>6, <1>7, IsOpen DEF None

LEMMA EnterStep ==
  ASSUME Live, Alone, Enter
  PROVE  (T!Enter \/ T!Leave) /\ Alone'
<1> DEFINE h == hist[dialog]
           q == Entered(h, Text)
<1>1. /\ IInv' /\ Text' = <<>> /\ e'.linepos = 0 /\ e'.linelen = 0 /\ dialog # None
      /\ dialog' # dialog /\ dialog \in DOMAIN Dialog
      /\ dialog' = None \/ (dialog = "search" /\ dialog' = "regex")
      /\ Dialog[dialog].hist =>
           /\ hist'[dialog] = q
           /\ \A f \in DOMAIN Dialog : f # dialog => hist'[f] = hist[f]
      /\ ~Dialog[dialog].hist => hist' = hist
  BY EnterDoes DEF Remembers
<1>2. Kind(h) /\ Text \in Seq(Char) /\ Len(Text) < LINESIZ
  BY <1>1, LiveFacts DEF Live, IInv, Known
<1>3. /\ Kind(q) /\ ~q.have_ent
      /\ h.have_ent => q.lines = <<Text>> \o Tail(h.lines)
      /\ ~h.have_ent => q.lines = (IF HistSize < 2 THEN h.lines ELSE <<Text>> \o Old(h.lines))
  BY <1>2, EnteredIs
<1>4. CASE ~Dialog[dialog].hist
  <2>1. ~h.have_ent /\ hist' = hist
    BY <1>1, <1>4 DEF Alone
  <2>2. CASE dialog' = None
    <3>1. Emptied0 /\ Pasts' = Pasts
      BY <1>1, <2>1, <2>2, EmptiedIs, SamePasts
    <3>2. T!Enter
      BY <1>1, <1>4, <2>2, <3>1, IsEnter DEF None
    <3>3. Alone'
      BY <2>1, <2>2, NotBack DEF Alone, Live
    <3> QED
      BY <3>2, <3>3
  <2>3. CASE dialog' # None
    BY <1>1, <2>1, LeaveStep
  <2> QED
    BY <2>2, <2>3
<1>5. CASE Dialog[dialog].hist
  <2>1. dialog' = None
    BY <1>1, <1>5, DialogFacts
  <2>2. Emptied0
    BY <1>1, <2>1, EmptiedIs
  <2>3. Pasts' = [Pasts EXCEPT ![dialog] = Pasts'[dialog]]
    BY <1>1, <1>5, OthersStay
  <2>4. /\ Pasts'[dialog] = q.lines
        /\ Pasts[dialog] = IF h.have_ent THEN Tail(h.lines) ELSE h.lines
    BY <1>1, <1>3, <1>5, PastIs
  <2>5. /\ h.lines \in Seq(Seq(Char)) /\ Len(h.lines) <= HistSize
        /\ (HistSize < 2 => h.lines = <<>>) /\ h.have_ent \in BOOLEAN
        /\ h.have_ent => h.lines # <<>>
    <3>1. /\ h.lines \in Seq(Seq(Char)) /\ Len(h.lines) <= HistSize
          /\ (HistSize < 2 => h.lines = <<>>) /\ h.have_ent \in BOOLEAN
          /\ h.have_ent => h.ent \in 1..Len(h.lines)
      BY <1>2 DEF Kind, Histories
    <3>2. h.lines = <<>> => 1..Len(h.lines) = {}
      <4>1. Len(<<>>) = 0
        OBVIOUS
      <4> QED
        BY <4>1
    <3> QED
      BY <3>1, <3>2
  <2> HIDE DEF q, h
  <2>6. Keeps(Pasts'[dialog], <<Text>> \o Pasts[dialog])
    <3>1. CASE h.have_ent
      <4>1. Tail(h.lines) \in Seq(Seq(Char))
        BY <2>5, <3>1, HeadTailProperties
      <4>2. <<Text>> \o Tail(h.lines) \in Seq(Seq(Char))
        BY <1>2, <4>1, ConsIs
      <4> QED
        BY <1>3, <2>4, <3>1, <4>2, KeepsAll
    <3>2. CASE ~h.have_ent /\ HistSize < 2
      BY <1>2, <1>3, <2>4, <2>5, <3>2, KeepsNone
    <3>3. CASE ~h.have_ent /\ ~(HistSize < 2)
      <4>1. HistSize >= 2
        BY <3>3, Sizes
      <4>2. /\ Pasts'[dialog] = <<Text>> \o Old(h.lines)
            /\ <<Text>> \o Pasts[dialog] = <<Text>> \o h.lines
        BY <1>3, <2>4, <3>3
      <4>3. Keeps(<<Text>> \o Old(h.lines), <<Text>> \o h.lines)
        BY <1>2, <2>5, <4>1, KeepsNewAndOld
      <4> QED
        BY <4>2, <4>3
    <3> QED
      BY <3>1, <3>2, <3>3
  <2>7. T!Enter
    BY <1>1, <1>5, <2>1, <2>2, <2>3, <2>6, IsEnter DEF None
  <2>8. Alone'
    <3>1. ~hist'[dialog].have_ent
      BY <1>1, <1>3, <1>5 DEF q
    <3>2. \A f \in DOMAIN Dialog : f # dialog => ~hist'[f].have_ent
      BY <1>1, <1>5 DEF Alone
    <3> QED
      BY <3>1, <3>2 DEF Alone
  <2> QED
    BY <2>7, <2>8
<1> QED
  BY <1>4, <1>5

\* Every key is a step of TextLine, or none.
Escaped == Esc /\ Now.have_ent
LEMMA KeyIsStep ==
  ASSUME IInv, Alone, Next, ~Escaped
  PROVE  (T!Next \/ UNCHANGED T!vars) /\ Alone'
<1>1. Live
  BY DEF Next, Live
<1>2. ASSUME dialog' = dialog, hist' = hist PROVE Alone'
  BY <1>2 DEF Alone
<1>3. CASE Home \/ Left \/ EndKey \/ Right
  <2>1. IInv' /\ Text' = Text /\ Still
    BY <1>1, <1>3, HomeDoes, LeftDoes, EndDoes, RightDoes
  <2>2. T!Go
    BY <1>1, <2>1, GoStep DEF Still
  <2> QED
    BY <1>2, <2>1, <2>2 DEF T!Next, Still
<1>4. CASE \E x \in 0..(StatW - 1) : Click(x)
  <2>1. IInv' /\ Text' = Text /\ dialog' = dialog /\ hist' = hist
    BY <1>1, <1>4, ClickDoes
  <2>2. T!Go
    BY <1>1, <2>1, GoStep
  <2> QED
    BY <1>2, <2>1, <2>2 DEF T!Next
<1>5. ASSUME NEW c \in Char, TypeChar(c) PROVE (T!Next \/ UNCHANGED T!vars) /\ Alone'
  <2>1. /\ IInv' /\ Text' = Ins(Text, e.linepos, <<c>>) /\ Still
        /\ e'.linepos = e.linepos + 1
    BY <1>1, <1>5, TypeCharDoes DEF Scrolls
  <2>2. <<c>> \in Seq(Char) /\ <<c>> # <<>> /\ Len(<<c>>) = 1
    OBVIOUS
  <2>3. T!Insert
    BY <1>1, <2>1, <2>2, InsertStep DEF Still
  <2> QED
    BY <1>2, <2>1, <2>3 DEF T!Next, Still
<1>6. CASE Fkey
  <2>1. /\ IInv' /\ Text' = Ins(Text, e.linepos, FkeyText) /\ Still
        /\ e'.linepos = e.linepos + Len(FkeyText)
    BY <1>1, <1>6, FkeyDoes DEF Scrolls
  <2>2. FkeyText \in Seq(Char) /\ FkeyText # <<>>
    BY LineEditorAssumption
  <2>3. T!Insert
    BY <1>1, <2>1, <2>2, InsertStep DEF Still
  <2> QED
    BY <1>2, <2>1, <2>3 DEF T!Next, Still
<1>7. CASE Backspace
  <2>1. T!Erase /\ Still
    BY <1>1, <1>7, EraseStep, BackspaceDoes
  <2> QED
    BY <1>2, <2>1 DEF T!Next, Still
<1>8. CASE Delete
  <2>1. T!Delete /\ Still
    BY <1>1, <1>8, DeleteStep, DeleteDoes
  <2> QED
    BY <1>2, <2>1 DEF T!Next, Still
<1>9. CASE Tab
  <2>1. /\ IInv' /\ Still /\ e'.linepos = e'.linelen /\ e.linepos = e.linelen
        /\ \E y \in Seq(Char) : Text' = Text \o y
    BY <1>1, <1>9, TabDoes
  <2>2. T!Insert \/ UNCHANGED T!vars
    BY <1>1, <2>1, AppendStep DEF Still
  <2> QED
    BY <1>2, <2>1, <2>2 DEF T!Next, Still
<1>10. CASE yank_name
  <2>1. /\ IInv' /\ e'.linepos = e'.linelen /\ dialog' = dialog /\ hist' = hist
        /\ e.linepos = e.linelen /\ \E y \in Seq(Char) : Text' = Text \o y
    BY <1>1, <1>10, YankDoes
  <2>2. T!Insert \/ UNCHANGED T!vars
    BY <1>1, <2>1, AppendStep
  <2> QED
    BY <1>2, <2>1, <2>2 DEF T!Next
<1>11. CASE hist_up
  BY <1>1, <1>11, OlderStep DEF T!Next
<1>12. CASE hist_down
  BY <1>1, <1>12, NewerStep DEF T!Next
<1>13. CASE Enter
  BY <1>1, <1>13, EnterStep DEF T!Next
<1>14. CASE Esc
  <2>1. ~hist[dialog].have_ent
    BY <1>14 DEF Escaped, Now, Esc
  <2>2. T!Leave /\ Alone'
    BY <1>1, <1>14, <2>1, EscDoes, LeaveStep
  <2> QED
    BY <2>2 DEF T!Next
<1>15. CASE SearchRegex
  <2>1. dialog = "search"
    BY <1>15 DEF SearchRegex, Regex
  <2>2. ~hist[dialog].have_ent
    BY <2>1, DialogFacts DEF Alone
  <2>3. T!Leave /\ Alone'
    BY <1>1, <1>15, <2>2, SearchRegexDoes, LeaveStep
  <2> QED
    BY <2>3 DEF T!Next
<1>16. CASE \E d \in DOMAIN Dialog \ {"regex"} : ed_dialog(d)
  BY <1>1, <1>16, OpenStep DEF T!Next
<1>17. CASE KeyR
  BY <1>1, <1>17, ClearStep DEF T!Next
<1> QED
  BY <1>3, <1>4, <1>5, <1>6, <1>7, <1>8, <1>9, <1>10, <1>11, <1>12, <1>13, <1>14, <1>15,
     <1>16, <1>17 DEF Next

LEMMA InitIsInit ==
  ASSUME Init
  PROVE  T!Init /\ Alone
<1>1. IInv
  BY InitHolds
<1>2. /\ e = Empty /\ dialog = None /\ hist = [d \in DOMAIN Dialog |-> NoHistory]
  BY DEF Init
<1>3. Holds(e, <<>>) /\ e.linepos = 0 /\ e.linelen = 0
  BY <1>2, EmptyHolds
<1>4. Text = <<>>
  BY <1>3, ReadsText DEF Text
<1>5. Pos = 0
  BY <1>3, LesserIs DEF Pos
<1>6. \A d \in DOMAIN Dialog : ~hist[d].have_ent /\ hist[d].lines = <<>>
  BY <1>2 DEF NoHistory
<1>7. Alone
  BY <1>6 DEF Alone
<1>8. Back = 0 /\ Draft = <<>>
  BY <1>2, NowIs
<1>9. Pasts = [d \in DOMAIN Dialog |-> <<>>]
  BY <1>6 DEF Pasts, Past
<1>10. T!Init
  BY <1>2, <1>4, <1>5, <1>8, <1>9 DEF T!Init, Pos, Pasts, Back, Draft, None
<1> QED
  BY <1>7, <1>10

\* Whatever is done to the cells of the buffer, the cursor, the window and the lists
\* of the histories is an edit of a text at its cursor, or the way to an older line
\* and back: no character is lost or moved, for any size of buffer, window and
\* history.  A dialog that is left with <ESC> while an older line is shown is
\* excepted: the program goes on from that line in the next dialog (README).
THEOREM EditsText == Init /\ [][Next /\ ~Escaped]_vars => Implements
<1>1. Init => IInv /\ Alone /\ T!Init
  BY InitHolds, InitIsInit
<1>2. ASSUME IInv, Alone, [Next /\ ~Escaped]_vars
      PROVE  IInv' /\ Alone' /\ [T!Next]_(T!vars)
  <2>1. CASE UNCHANGED vars
    <3>1. /\ e' = e /\ dialog' = dialog /\ hist' = hist
      BY <2>1 DEF vars
    <3>2. Text' = Text /\ Pos' = Pos
      BY <3>1 DEF Text, Pos
    <3>3. UNCHANGED T!vars
      BY <3>1, <3>2, SameView, IsStutter
    <3>4. Alone'
      BY <1>2, <3>1 DEF Alone
    <3>5. IInv'
      BY <1>2, <2>1, StepHolds
    <3> QED
      BY <3>3, <3>4, <3>5
  <2>2. CASE Next /\ ~Escaped
    BY <1>2, <2>2, NextDoes, KeyIsStep
  <2> QED
    BY <1>2, <2>1, <2>2
<1>3. IInv /\ Alone /\ [Next /\ ~Escaped]_vars => IInv' /\ Alone' /\ [T!Next]_(T!vars)
  BY <1>2
<1> QED
  BY <1>1, <1>3, PTL DEF Implements, T!Spec
=============================================================================
