-------------------------- MODULE ListView_proofs --------------------------
(***************************************************************************)
(* The selected entry exists: for lists and windows of any size, any width *)
(* of the unsigned type, and any sequence of keys, clicks and changes.     *)
(***************************************************************************)
EXTENDS ListView, TLAPS

\* Unsigned arithmetic stays in its range.
LEMMA Unsigned ==
  ASSUME NEW a \in Value, NEW b \in Value
  PROVE  Plus(a, b) \in Value /\ Minus(a, b) \in Value
BY ListAssumption DEF Value, Plus, Minus

LEMMA Half ==
  ASSUME NEW h \in Nat
  PROVE  h \div 2 \in Nat /\ 2 * (h \div 2) <= h /\ h <= 2 * (h \div 2) + 1
OBVIOUS

\* The sizes of lists and windows are values, and so is what the keys add.
LEMMA Sizes ==
  /\ \A x \in 0..MaxNum : x \in Value
  /\ \A x \in 1..MaxH : x \in Value /\ x - 1 \in Value /\ x \div 2 \in Value
  /\ 0 \in Value /\ 1 \in Value /\ 3 \in Value
BY ListAssumption, Half DEF Value

\* disp_list() makes the cursor valid if the sum it is given has not wrapped.
LEMMA Shown ==
  ASSUME NEW num \in 0..MaxNum, NEW t \in Value, NEW y \in Value
  PROVE  /\ ShownTop(num, t) \in Value
         /\ ShownCurs(num, ShownTop(num, t), y) \in Value
         /\ t + y < Word =>
              Within(num, ShownTop(num, t), ShownCurs(num, ShownTop(num, t), y))
BY ListAssumption
   DEF Value, ShownTop, ShownCurs, Plus, Minus, Within

\* center() computes a sum that is the entry it was given.
LEMMA Centered ==
  ASSUME NEW num \in 0..MaxNum, NEW h \in 1..MaxH, NEW idx \in Value
  PROVE  /\ CenterTop(num, h, idx) \in Value
         /\ Minus(idx, CenterTop(num, h, idx)) \in Value
         /\ CenterTop(num, h, idx) + Minus(idx, CenterTop(num, h, idx)) < Word
<1> DEFINE m == h \div 2
<1>1. m \in Nat /\ 2 * m <= h
  BY Half
<1>2. num <= h \/ idx <= m => CenterTop(num, h, idx) = 0
  BY DEF CenterTop
<1>3. CASE num > h /\ idx > m /\ Minus(num, idx) < m
  <2>1. CenterTop(num, h, idx) = num - h
    BY <1>1, <1>3 DEF CenterTop, Value
  <2>2. num >= idx
    BY <1>1, <1>3, ListAssumption DEF Minus, Value
  <2>3. idx >= num - h
    BY <1>1, <1>3, <2>2 DEF Minus, Value
  <2> QED BY <1>3, <2>1, <2>3, ListAssumption DEF Minus, Value
<1>4. CASE num > h /\ idx > m /\ ~(Minus(num, idx) < m)
  <2>1. CenterTop(num, h, idx) = idx - m
    BY <1>1, <1>4 DEF CenterTop, Value
  <2> QED BY <1>1, <1>4, <2>1, ListAssumption DEF Minus, Value
<1>5. CASE num <= h \/ idx <= m
  BY <1>2, <1>5, ListAssumption DEF Minus, Value
<1>6. num <= h \/ num > h
  OBVIOUS
<1>7. idx <= m \/ idx > m
  BY <1>1 DEF Value
<1> QED BY <1>3, <1>4, <1>5, <1>6, <1>7

\* The columns: an assignment to one of them leaves the other one valid.
LEMMA PutKeeps ==
  ASSUME IInv, NEW k \in Col, NEW t \in Value, NEW y \in Value, Put(k, t, y),
         Keep, wheeled' \subseteq Col, wheeled \subseteq wheeled',
         k \notin wheeled' => Within(db_num[k], t, y)
  PROVE  IInv'
<1>1. TypeOK'
  BY DEF IInv, TypeOK, Put, Keep
<1>2. ASSUME NEW j \in Col \ wheeled'
      PROVE  IndexOK(j)'
  <2>1. CASE j = k
    BY <1>2, <2>1 DEF IInv, TypeOK, IndexOK, Put, Keep
  <2>2. CASE j # k
    BY <1>2, <2>2 DEF IInv, TypeOK, IndexOK, Put, Keep
  <2> QED BY <2>1, <2>2
<1> QED BY <1>1, <1>2 DEF IInv

LEMMA ActivePut ==
  ASSUME IInv, Quiet, NEW t \in Value, NEW y \in Value, Put(c, t, y),
         c \notin wheeled => Within(n, t, y)
  PROVE  IInv'
BY PutKeeps DEF Quiet, IInv, TypeOK, c, n

LEMMA ActiveList ==
  ASSUME IInv, Quiet, NEW t \in Value, NEW y \in Value, disp_list(c, t, y),
         c \notin wheeled => t + y < Word
  PROVE  IInv'
<1> DEFINE s == ShownTop(n, t)
<1>1. n \in 0..MaxNum
  BY DEF IInv, TypeOK, n
<1>2. s \in Value /\ ShownCurs(n, s, y) \in Value
  BY <1>1, Shown
<1>3. c \notin wheeled => Within(n, s, ShownCurs(n, s, y))
  BY <1>1, Shown
<1>4. Put(c, s, ShownCurs(n, s, y))
  BY DEF disp_list
<1> QED BY <1>2, <1>3, <1>4, ActivePut

\* What is known of the active column.
LEMMA Active ==
  ASSUME IInv
  PROVE  /\ Word \in Nat
         /\ c \in Col /\ n \in 0..MaxNum /\ n \in Value
         /\ top \in Value /\ cur \in Value
         /\ listh \in 1..MaxH /\ listh \in Value /\ listh - 1 \in Value
         /\ c \notin wheeled => Within(n, top, cur)
BY Sizes, ListAssumption DEF IInv, TypeOK, c, n, top, cur, IndexOK
-----------------------------------------------------------------------------
(* The keys.                                                               *)

LEMMA Last ==
  ASSUME IInv
  PROVE  /\ Minus(Minus(n, top), 1) \in Value
         /\ c \notin wheeled => Within(n, top, Minus(Minus(n, top), 1))
BY Active, ListAssumption DEF Within, Value, Minus

LEMMA PageDown == ASSUME IInv, page_down PROVE IInv'
<1>1. CASE LastIsShown /\ ToLast
  BY <1>1, Active, Last, ActivePut DEF page_down, ToLast
<1>2. CASE ~LastIsShown /\ disp_list(c, Plus(top, listh), 0)
  <2>1. Plus(top, listh) \in Value /\ Plus(top, listh) + 0 < Word
    BY Active, Unsigned DEF Value
  <2> QED BY <1>2, <2>1, Sizes, ActiveList DEF page_down
<1> QED BY <1>1, <1>2 DEF page_down

LEMMA CursLast == ASSUME IInv, curs_last PROVE IInv'
<1>1. CASE LastIsShown /\ ToLast
  BY <1>1, Active, Last, ActivePut DEF curs_last, ToLast
<1>2. CASE ~LastIsShown /\ disp_list(c, Minus(n, listh), listh - 1)
  <2>1. Minus(n, listh) \in Value
    BY Active, Unsigned
  <2>2. c \notin wheeled => Minus(n, listh) + (listh - 1) < Word
    <3>1. CASE n = 0
      BY <3>1, Active, ListAssumption DEF Minus, Value
    <3>2. CASE n > 0
      BY <1>2, <3>2, Active, ListAssumption
         DEF LastIsShown, Within, Minus, Value
    <3> QED BY <3>1, <3>2, Active
  <2> QED BY <1>2, <2>1, <2>2, Active, ActiveList DEF curs_last
<1> QED BY <1>1, <1>2 DEF curs_last

LEMMA PageUp == ASSUME IInv, page_up PROVE IInv'
<1>1. CASE FirstIsTop /\ Put(c, 0, 0)
  <2>1. Within(n, 0, 0)
    BY Active, ListAssumption DEF Within, Value
  <2> QED BY <1>1, <2>1, Sizes, ActivePut DEF page_up
<1>2. CASE top < listh /\ disp_list(c, 0, cur)
  BY <1>2, Active, Sizes, ActiveList DEF page_up, Value
<1>3. CASE top >= listh /\ disp_list(c, top - listh, listh - 1)
  <2>1. top - listh \in Value /\ (top - listh) + (listh - 1) < Word
    BY <1>3, Active DEF Value
  <2> QED BY <1>3, <2>1, Active, ActiveList DEF page_up
<1> QED BY <1>1, <1>2, <1>3 DEF page_up

LEMMA CursFirst == ASSUME IInv, curs_first PROVE IInv'
<1>1. CASE Put(c, 0, 0)
  <2>1. Within(n, 0, 0)
    BY Active, ListAssumption DEF Within, Value
  <2> QED BY <1>1, <2>1, Sizes, ActivePut DEF curs_first
<1>2. CASE disp_list(c, 0, 0)
  BY <1>2, Sizes, ListAssumption, ActiveList DEF curs_first
<1> QED BY <1>1, <1>2 DEF curs_first

LEMMA CursDown == ASSUME IInv, curs_down PROVE IInv'
<1>1. Plus(top, 1) \in Value /\ Plus(cur, 1) \in Value
  BY Active, Sizes, Unsigned
<1>2. c \notin wheeled =>
        Within(n, Plus(top, 1), cur) /\ Within(n, top, Plus(cur, 1))
  BY Active, ListAssumption DEF curs_down, Within, Value, Plus
<1> QED BY <1>1, <1>2, Active, ActivePut DEF curs_down

LEMMA CursUp == ASSUME IInv, curs_up PROVE IInv'
<1>1. CASE top # 0 /\ Put(c, top - 1, cur)
  <2>1. top - 1 \in Value /\ (c \notin wheeled => Within(n, top - 1, cur))
    BY <1>1, Active DEF Within, Value
  <2> QED BY <1>1, <2>1, Active, ActivePut DEF curs_up
<1>2. CASE cur # 0 /\ Put(c, top, cur - 1)
  <2>1. cur - 1 \in Value /\ (c \notin wheeled => Within(n, top, cur - 1))
    BY <1>2, Active DEF Within, Value
  <2> QED BY <1>2, <2>1, Active, ActivePut DEF curs_up
<1> QED BY <1>1, <1>2 DEF curs_up

LEMMA LineKeys ==
  ASSUME IInv, KeyH \/ KeyM \/ KeyL \/ KeyZEnter \/ KeyZUp
  PROVE  IInv'
<1>1. CASE KeyH
  BY <1>1, Active, Sizes, ActiveList DEF KeyH, Value
<1>2. CASE KeyM
  <2> DEFINE y == IF Filled THEN listh \div 2 ELSE Minus(n, top) \div 2
  <2>1. Minus(n, top) \in Value /\ listh \div 2 \in Value
    BY Active, Unsigned, Sizes
  <2>2. Minus(n, top) \div 2 \in Value /\ 2 * (Minus(n, top) \div 2) <= Minus(n, top)
        /\ 2 * (listh \div 2) <= listh
    BY <2>1, Half, Active DEF Value
  <2>3. c \notin wheeled => top + y < Word
    <3>1. CASE Filled
      BY <3>1, <2>1, <2>2, Active, ListAssumption DEF Filled, Plus, Value, Within
    <3>2. CASE ~Filled
      BY <3>2, <2>1, <2>2, Active, ListAssumption DEF Minus, Value, Within
    <3> QED BY <3>1, <3>2
  <2>4. y \in Value
    BY <2>1, <2>2
  <2> QED BY <1>2, <2>3, <2>4, Active, ActiveList DEF KeyM
<1>3. CASE KeyL
  <2> DEFINE y == IF Filled THEN listh - 1 ELSE Minus(Minus(n, top), 1)
  <2>1. y \in Value
    BY Active, Last
  <2>2. c \notin wheeled => top + y < Word
    <3>1. CASE Filled
      BY <3>1, Active, ListAssumption DEF Filled, Plus, Value, Within
    <3>2. CASE ~Filled
      BY <3>2, Last, Active, ListAssumption DEF Within, Value
    <3> QED BY <3>1, <3>2
  <2> QED BY <1>3, <2>1, <2>2, Active, ActiveList DEF KeyL
<1>4. CASE KeyZEnter
  <2>1. Plus(top, cur) \in Value /\ Plus(top, cur) + 0 < Word
    BY Active, Unsigned DEF Value
  <2> QED BY <1>4, <2>1, Sizes, ActiveList DEF KeyZEnter
<1>5. CASE KeyZUp
  <2> DEFINE below == Minus(listh - 1, cur)
  <2>1. below \in Value /\ Plus(cur, top) \in Value
    BY Active, Unsigned
  <2>2. CASE top >= below /\ disp_list(c, top - below, listh - 1)
    <3>1. top - below \in Value
      BY <2>1, <2>2, Active DEF Value
    <3>2. c \notin wheeled => (top - below) + (listh - 1) < Word
      BY <2>1, <2>2, Active, ListAssumption DEF Within, Value, Minus
    <3> QED BY <1>5, <2>2, <3>1, <3>2, Active, ActiveList DEF KeyZUp
  <2>3. CASE disp_list(c, 0, Plus(cur, top))
    <3>1. 0 + Plus(cur, top) < Word
      BY <2>1, Active DEF Value
    <3> QED BY <1>5, <2>1, <2>3, <3>1, Sizes, ActiveList DEF KeyZUp
  <2> QED BY <1>5, <2>2, <2>3 DEF KeyZUp
<1> QED BY <1>1, <1>2, <1>3, <1>4, <1>5

LEMMA ToMarkStep == ASSUME IInv, NEW u \in Value, ToMark(u) PROVE IInv'
<1>1. Least(top, u) \in Value /\ u - Least(top, u) \in Value
  BY Active DEF Least, Value
<1>2. Within(n, Least(top, u), u - Least(top, u))
  BY Active DEF ToMark, Least, Value, Within
<1> QED BY <1>1, <1>2, ActivePut DEF ToMark
-----------------------------------------------------------------------------
(* Scrolling, of either column.                                            *)

LEMMA ScrollUp ==
  ASSUME IInv, NEW lines \in Value, NEW keepscrpos \in BOOLEAN, NEW k \in Col,
         scroll_up(lines, keepscrpos, k)
  PROVE  IInv'
<1> DEFINE t == top_idx[k]
           y == curs[k]
           num == Least(lines, t)
<1>1. /\ Word \in Nat /\ db_num[k] \in 0..MaxNum /\ listh \in 1..MaxH
      /\ t \in Value /\ y \in Value
      /\ k \notin wheeled => Within(db_num[k], t, y)
  BY ListAssumption DEF IInv, TypeOK, IndexOK
<1>2. num \in Value /\ num <= t /\ t - num \in Value
  BY <1>1 DEF Least, Value
<1>3. Quiet /\ Keep /\ wheeled' \subseteq Col /\ wheeled \subseteq wheeled'
      /\ (k \notin wheeled' => k \notin wheeled)
  BY DEF scroll_up, Quiet, IInv, TypeOK
<1> HIDE DEF num, t, y
<1>4. CASE t = 0 /\ Put(k, 0, IF y >= lines THEN y - lines ELSE 0)
  <2>1. (IF y >= lines THEN y - lines ELSE 0) \in Value
    BY <1>1 DEF Value
  <2>2. k \notin wheeled =>
          Within(db_num[k], 0, IF y >= lines THEN y - lines ELSE 0)
    BY <1>1, <1>4 DEF Within, Value
  <2> QED BY <1>3, <1>4, <2>1, <2>2, Sizes, PutKeeps
<1>5. CASE Put(k, t - num, y)
  <2>1. k \notin wheeled => Within(db_num[k], t - num, y)
    BY <1>1, <1>2 DEF Within, Value
  <2> QED BY <1>1, <1>2, <1>3, <1>5, <2>1, PutKeeps
<1>6. CASE Put(k, t - num,
               IF Plus(y, num) >= listh THEN listh - 1 ELSE Plus(y, num))
  <2>1. Plus(y, num) \in Value /\ listh - 1 \in Value
    BY <1>1, <1>2, Unsigned, Sizes
  <2>2. k \notin wheeled =>
          Within(db_num[k], t - num,
                 IF Plus(y, num) >= listh THEN listh - 1 ELSE Plus(y, num))
    BY <1>1, <1>2, ListAssumption DEF Within, Value, Plus
  <2> QED BY <1>2, <1>3, <1>6, <2>1, <2>2, PutKeeps
<1> QED BY <1>4, <1>5, <1>6 DEF scroll_up, num, t, y

LEMMA ScrollDown ==
  ASSUME IInv, NEW lines \in 0..(MaxH + 3), NEW keepscrpos \in BOOLEAN,
         NEW k \in Col, scroll_down(lines, keepscrpos, k)
  PROVE  IInv'
<1> DEFINE t == top_idx[k]
           y == curs[k]
           last == Minus(db_num[k], 1)
           num == IF Plus(t, lines) >= db_num[k] THEN Minus(last, t) ELSE lines
           ti == Plus(t, num)
<1>1. /\ Word \in Nat /\ db_num[k] \in 0..MaxNum /\ db_num[k] \in Value
      /\ lines \in Value /\ t \in Value /\ y \in Value
      /\ k \notin wheeled => Within(db_num[k], t, y)
  BY ListAssumption DEF IInv, TypeOK, IndexOK, Value
<1>2. last \in Value /\ num \in Value /\ ti \in Value
  BY <1>1, Unsigned, Sizes
<1>3. /\ Keep /\ wheeled' \subseteq Col /\ wheeled \subseteq wheeled'
      /\ k \notin wheeled' => k \notin wheeled /\ k = right_col
      /\ t < last
  BY DEF scroll_down, IInv, TypeOK
<1>4. db_num[k] = 0 => last = Word - 1 /\ num = Word - 1 - t /\ ti = Word - 1
  BY <1>1, ListAssumption DEF Minus, Plus, Value
<1>5. db_num[k] > 0 =>
        last = db_num[k] - 1 /\ num <= last - t /\ ti = t + num /\ num \in Nat
  BY <1>1, <1>3, ListAssumption DEF Minus, Plus, Value
<1> HIDE DEF num, ti, last, t, y
<1>6. CASE k # right_col /\ Put(k, ti, y)
  BY <1>1, <1>2, <1>3, <1>6, PutKeeps
<1>7. CASE Put(k, ti, IF Plus(ti, y) >= db_num[k] THEN Minus(last, ti) ELSE y)
  <2>1. Minus(last, ti) \in Value
    BY <1>2, Unsigned
  <2>2. ASSUME k \notin wheeled
        PROVE  Within(db_num[k], ti,
                 IF Plus(ti, y) >= db_num[k] THEN Minus(last, ti) ELSE y)
    <3>1. CASE db_num[k] = 0
      BY <1>1, <1>2, <1>4, <3>1, Unsigned DEF Within, Value, Minus
    <3>2. CASE db_num[k] > 0
      BY <1>1, <1>2, <1>5, <2>2, <3>2, ListAssumption
         DEF Within, Value, Minus, Plus
    <3> QED BY <1>1, <3>1, <3>2
  <2> QED BY <1>1, <1>2, <1>3, <1>7, <2>1, <2>2, PutKeeps
<1>8. CASE Put(k, ti, CursMoved(y, num))
  <2>1. CursMoved(y, num) \in Value
    BY <1>1, <1>2 DEF CursMoved, Value
  <2>2. ASSUME k \notin wheeled
        PROVE  Within(db_num[k], ti, CursMoved(y, num))
    <3>1. CASE db_num[k] = 0
      BY <1>1, <1>2, <1>4, <2>2, <3>1 DEF Within, Value, CursMoved
    <3>2. CASE db_num[k] > 0
      BY <1>1, <1>2, <1>3, <1>5, <2>2, <3>2 DEF Within, Value, CursMoved
    <3> QED BY <1>1, <3>1, <3>2
  <2> QED BY <1>1, <1>2, <1>3, <1>8, <2>1, <2>2, PutKeeps
<1> QED BY <1>6, <1>7, <1>8 DEF scroll_down, num, ti, last, t, y

LEMMA Scrolling == ASSUME IInv, ScrollKey \/ Wheel PROVE IInv'
<1>1. /\ 1 \in Value /\ 3 \in Value /\ listh \div 2 \in Value
      /\ 1 \in 0..(MaxH + 3) /\ 3 \in 0..(MaxH + 3)
      /\ listh \div 2 \in 0..(MaxH + 3)
  BY Active, Sizes, ListAssumption, Half
<1>2. \A k \in IF fmode THEN Col ELSE {c} : k \in Col
  BY Active
<1> QED BY <1>1, <1>2, Active, ScrollUp, ScrollDown DEF ScrollKey, Wheel
-----------------------------------------------------------------------------
(* Redrawing both columns, centering, and what uses it.                    *)

\* After any change of the lists disp_fmode() makes the columns valid, if for
\* each of them the sum it is given has not wrapped.
LEMMA Redrawn ==
  ASSUME TypeOK, NEW num \in [Col -> 0..MaxNum],
         NEW t \in [Col -> Value], NEW y \in [Col -> Value],
         disp_fmode(num, t, y), db_num' = num, listh' \in 1..MaxH,
         UNCHANGED <<fmode, right_col>>, ~fmode => num[1] = 0,
         wheeled' \subseteq Col,
         \A k \in Col \ wheeled' : t[k] + y[k] < Word
  PROVE  IInv'
<1> DEFINE s(k) == ShownTop(num[k], t[k])
           v(k) == ShownCurs(num[k], s(k), y[k])
<1>1. \A k \in Col : s(k) \in Value /\ v(k) \in Value
  BY Shown
<1>2. \A k \in Col \ wheeled' : Within(num[k], s(k), v(k))
  BY Shown
<1>3. \A k \in Col : /\ top_idx'[k] = IF fmode \/ k = right_col
                                      THEN s(k) ELSE t[k]
                     /\ curs'[k] = IF fmode \/ k = right_col
                                   THEN v(k) ELSE y[k]
  BY DEF disp_fmode
<1> HIDE DEF s, v
<1>4. top_idx' \in [Col -> Value] /\ curs' \in [Col -> Value]
  BY <1>1 DEF disp_fmode, s, v
<1>5. TypeOK'
  BY <1>4 DEF TypeOK
<1>6. ASSUME NEW k \in Col \ wheeled'
      PROVE  Within(num[k], top_idx'[k], curs'[k])
  <2>1. CASE fmode \/ k = right_col
    BY <1>2, <1>3, <2>1
  <2>2. CASE ~(fmode \/ k = right_col)
    <3>1. num[k] = 0
      BY <2>2 DEF TypeOK, Col
    <3> QED BY <1>3, <2>2, <3>1 DEF Within
  <2> QED BY <2>1, <2>2
<1> QED BY <1>5, <1>6 DEF IInv, IndexOK

\* A valid column is one whose sum has not wrapped.
LEMMA NotWrapped ==
  ASSUME IInv, NEW k \in Col \ wheeled
  PROVE  top_idx[k] + curs[k] < Word
BY ListAssumption DEF IInv, TypeOK, IndexOK, Within, Value

LEMMA CenterStep ==
  ASSUME IInv, NEW num \in [Col -> 0..MaxNum], NEW h \in 1..MaxH,
         NEW t \in [Col -> Value], NEW y \in [Col -> Value], NEW idx \in Value,
         center(num, h, t, y, idx),
         \A k \in Col \ {c} : t[k] = top_idx[k] /\ y[k] = curs[k],
         db_num' = num, listh' \in 1..MaxH, UNCHANGED <<fmode, right_col>>,
         ~fmode => num[1] = 0
  PROVE  IInv'
<1> DEFINE s == CenterTop(num[c], h, idx)
           t2 == [t EXCEPT ![c] = s]
           y2 == [y EXCEPT ![c] = Minus(idx, s)]
<1>1. num[c] \in 0..MaxNum
  BY Active
<1>2. s \in Value /\ Minus(idx, s) \in Value /\ s + Minus(idx, s) < Word
  BY <1>1, Centered
<1>3. disp_fmode(num, t2, y2) /\ wheeled' = wheeled \ {c}
  BY DEF center
<1> HIDE DEF s
<1>4. t2 \in [Col -> Value] /\ y2 \in [Col -> Value]
  BY <1>2
<1>5. ASSUME NEW k \in Col \ wheeled' PROVE t2[k] + y2[k] < Word
  <2>1. CASE k = c
    BY <1>2, <2>1
  <2>2. CASE k # c
    BY <1>3, <1>5, <2>2, NotWrapped
  <2> QED BY <2>1, <2>2
<1> HIDE DEF t2, y2
<1>6. TypeOK /\ wheeled' \subseteq Col
  BY <1>3 DEF IInv, TypeOK
<1> QED BY <1>3, <1>4, <1>5, <1>6, Redrawn

LEMMA Lists ==
  ASSUME IInv
  PROVE  /\ db_num \in [Col -> 0..MaxNum]
         /\ top_idx \in [Col -> Value] /\ curs \in [Col -> Value]
         /\ ~fmode => db_num[1] = 0
         /\ Plus(top, cur) \in Value
BY Active, Unsigned DEF IInv, TypeOK

LEMMA Jumps ==
  ASSUME IInv, NEW idx \in Value, KeyZDot \/ Jump(idx)
  PROVE  IInv'
BY Active, Lists, CenterStep DEF KeyZDot, Jump, Keep

LEMMA TabStep == ASSUME IInv, Tab PROVE IInv'
<1>1. TypeOK'
  BY DEF IInv, TypeOK, Tab, view, Col
<1>2. \A k \in Col : IndexOK(k)' <=> IndexOK(k)
  BY DEF IndexOK, Tab, view
<1> QED BY <1>1, <1>2 DEF IInv, Tab

LEMMA ClickStep ==
  ASSUME IInv, NEW y \in 0..(listh + 1), NEW k \in Col, Click(y, k)
  PROVE  IInv'
<1>1. y \in Value
  BY Active, ListAssumption DEF Value
<1>2. TypeOK'
  BY <1>1 DEF IInv, TypeOK, Click, Col
<1>3. ASSUME NEW j \in Col \ wheeled
      PROVE  IndexOK(j)'
  <2>1. CASE j = k /\ y < Signed(Minus(db_num[k], top_idx[k]))
    <3>1. /\ Word \in Nat /\ db_num[k] \in 0..MaxNum
          /\ top_idx[k] \in Value /\ curs[k] \in Value
          /\ Within(db_num[k], top_idx[k], curs[k])
      BY <1>3, <2>1, Active DEF IInv, TypeOK, IndexOK
    <3>2. Within(db_num[k], top_idx[k], y)
      BY <1>1, <2>1, <3>1, ListAssumption DEF Within, Value, Signed, Minus
    <3> QED BY <2>1, <3>2 DEF Click, IndexOK, IInv, TypeOK
  <2>2. CASE ~(j = k /\ y < Signed(Minus(db_num[k], top_idx[k])))
    <3>1. curs'[j] = curs[j] /\ top_idx' = top_idx /\ db_num' = db_num
      BY <2>2 DEF Click, IInv, TypeOK
    <3> QED BY <1>3, <3>1 DEF IInv, IndexOK
  <2> QED BY <2>1, <2>2
<1> QED BY <1>2, <1>3 DEF IInv, Click

LEMMA Resize == ASSUME IInv, NEW h \in 1..MaxH, ui_resize(h) PROVE IInv'
<1>1. CASE center(db_num, h, top_idx, curs, Plus(top, cur))
  BY <1>1, Lists, CenterStep DEF ui_resize
<1>2. CASE disp_fmode(db_num, top_idx, curs) /\ UNCHANGED wheeled
  <2>1. TypeOK /\ wheeled' \subseteq Col
    BY <1>2 DEF IInv, TypeOK
  <2>2. \A k \in Col \ wheeled' : top_idx[k] + curs[k] < Word
    BY <1>2, NotWrapped
  <2> QED BY <1>2, <2>1, <2>2, Lists, Redrawn DEF ui_resize
<1> QED BY <1>1, <1>2 DEF ui_resize

\* The numbers of the entries of a list, and of the first one of an empty list.
LEMMA Numbers ==
  ASSUME NEW num \in 0..MaxNum
  PROVE  \A idx \in {0} \cup 0..(num - 1) : idx \in Value
BY ListAssumption DEF Value

LEMMA Rebuild ==
  ASSUME IInv, NEW num \in [Col -> 0..MaxNum], rebuild_db(num)
  PROVE  IInv'
<1>1. listh' \in 1..MaxH
  BY Active DEF rebuild_db
<1>2. CASE disp_fmode(num, top_idx, curs) /\ UNCHANGED wheeled
  <2>1. TypeOK /\ wheeled' \subseteq Col
    BY <1>2 DEF IInv, TypeOK
  <2>2. \A k \in Col \ wheeled' : top_idx[k] + curs[k] < Word
    BY <1>2, NotWrapped
  <2> QED BY <1>1, <1>2, <2>1, <2>2, Lists, Redrawn DEF rebuild_db
<1>3. CASE \E idx \in {0} \cup 0..(num[c] - 1) :
             center(num, listh, top_idx, curs, idx)
  <2>1. num[c] \in 0..MaxNum
    BY Active
  <2>2. PICK idx \in {0} \cup 0..(num[c] - 1) :
               center(num, listh, top_idx, curs, idx)
    BY <1>3
  <2>3. idx \in Value
    BY <2>1, Numbers
  <2> QED BY <1>1, <2>2, <2>3, Active, Lists, CenterStep DEF rebuild_db
<1> QED BY <1>2, <1>3 DEF rebuild_db

LEMMA Sorted == ASSUME IInv, re_sort_list PROVE IInv'
<1>1. CASE \E idx \in 0..(n - 1) : center(db_num, listh, top_idx, curs, idx)
  BY <1>1, Active, Numbers, Lists, CenterStep DEF re_sort_list, Keep
<1>2. CASE /\ disp_fmode(db_num, [top_idx EXCEPT ![c] = 0],
                         [curs EXCEPT ![c] = 0])
           /\ wheeled' = wheeled \ {c}
  <2> DEFINE t == [top_idx EXCEPT ![c] = 0]
             y == [curs EXCEPT ![c] = 0]
  <2>1. t \in [Col -> Value] /\ y \in [Col -> Value]
    BY Lists, Sizes
  <2>2. ASSUME NEW k \in Col \ wheeled' PROVE t[k] + y[k] < Word
    <3>1. CASE k = c
      BY <3>1, Lists, ListAssumption
    <3>2. CASE k # c
      BY <1>2, <2>2, <3>2, Lists, NotWrapped
    <3> QED BY <3>1, <3>2
  <2> HIDE DEF t, y
  <2>3. disp_fmode(db_num, t, y)
    BY <1>2 DEF t, y
  <2>4. TypeOK /\ wheeled' \subseteq Col /\ listh' \in 1..MaxH
    BY <1>2, Active DEF IInv, TypeOK, re_sort_list, Keep
  <2> QED BY <2>1, <2>2, <2>3, <2>4, Lists, Redrawn DEF re_sort_list, Keep
<1> QED BY <1>1, <1>2 DEF re_sort_list

LEMMA Enter == ASSUME IInv, NEW num \in 0..MaxNum, enter_dir(num) PROVE IInv'
<1> DEFINE new == [db_num EXCEPT ![c] = num]
<1>1. new \in [Col -> 0..MaxNum] /\ (~fmode => new[1] = 0)
  BY Lists, Active DEF IInv, TypeOK, c
<1>2. listh' \in 1..MaxH /\ db_num' = new
  BY Active DEF enter_dir
<1>3. CASE Put(c, 0, 0)
  <2>1. TypeOK'
    BY <1>1, <1>2, <1>3, Sizes DEF enter_dir, IInv, TypeOK, Put
  <2>2. ASSUME NEW k \in Col \ wheeled' PROVE IndexOK(k)'
    <3>1. CASE k = c
      BY <1>2, <1>3, <3>1, Lists, ListAssumption DEF Put, IndexOK, Within
    <3>2. CASE k # c
      BY <1>2, <1>3, <2>2, <3>2, Lists
         DEF enter_dir, Put, IndexOK, IInv
    <3> QED BY <3>1, <3>2
  <2> QED BY <2>1, <2>2 DEF IInv
<1>4. CASE \E idx \in {0} \cup 0..(num - 1) :
             center(new, listh, [top_idx EXCEPT ![c] = 0],
                    [curs EXCEPT ![c] = 0], idx)
  <2>1. PICK idx \in {0} \cup 0..(num - 1) :
               center(new, listh, [top_idx EXCEPT ![c] = 0],
                      [curs EXCEPT ![c] = 0], idx)
    BY <1>4
  <2>2. idx \in Value
    BY Numbers
  <2>3. /\ [top_idx EXCEPT ![c] = 0] \in [Col -> Value]
        /\ [curs EXCEPT ![c] = 0] \in [Col -> Value]
        /\ \A k \in Col \ {c} : /\ [top_idx EXCEPT ![c] = 0][k] = top_idx[k]
                                /\ [curs EXCEPT ![c] = 0][k] = curs[k]
    BY Lists, Sizes
  <2>4. UNCHANGED <<fmode, right_col>>
    BY DEF enter_dir
  <2> HIDE DEF new
  <2> QED BY <1>1, <1>2, <2>1, <2>2, <2>3, <2>4, Active, CenterStep
<1> QED BY <1>3, <1>4 DEF enter_dir
-----------------------------------------------------------------------------
LEMMA Start == ASSUME Init PROVE IInv
<1>1. TypeOK
  BY Sizes DEF Init, TypeOK, Col
<1>2. \A k \in Col : IndexOK(k)
  BY ListAssumption DEF Init, IndexOK, Within
<1> QED BY <1>1, <1>2 DEF IInv

LEMMA Step == ASSUME IInv, [Next]_vars PROVE IInv'
<1>1. CASE Key
  <2>1. CASE page_down \/ curs_last \/ page_up \/ curs_first
    BY <2>1, PageDown, CursLast, PageUp, CursFirst
  <2>2. CASE curs_down \/ curs_up
    BY <2>2, CursDown, CursUp
  <2>3. CASE ScrollKey
    BY <2>3, Scrolling
  <2>4. CASE KeyH \/ KeyM \/ KeyL \/ KeyZEnter \/ KeyZUp
    BY <2>4, LineKeys
  <2>5. CASE KeyZDot
    BY <2>5, Jumps, Sizes
  <2>6. CASE \E idx \in Value : Jump(idx) \/ ToMark(idx)
    BY <2>6, Jumps, ToMarkStep
  <2> QED BY <1>1, <2>1, <2>2, <2>3, <2>4, <2>5, <2>6 DEF Key
<1>2. CASE Other
  BY <1>2, TabStep, Scrolling, ClickStep, Resize, Rebuild, Sorted, Enter
     DEF Other
<1>3. CASE UNCHANGED vars
  BY <1>3 DEF vars, view, IInv, TypeOK, IndexOK
<1> QED BY <1>1, <1>2, <1>3 DEF Next

\* In each column that the wheel has not scrolled behind the cursor's back, the
\* sum top_idx + curs is less than the size of the list, and even for an empty
\* list does not wrap around: what all the ways to compute them keep up.
LEMMA ListInvariant == Spec => []IInv
<1>1. Init => IInv
  BY Start
<1>2. IInv /\ [Next]_vars => IInv'
  BY Step
<1> QED BY <1>1, <1>2, PTL DEF Spec

\* Every variable of the lists keeps its type, whatever the keys.
THEOREM ListTypeCorrect == Spec => []TypeOK
<1>1. IInv => TypeOK
  BY DEF IInv
<1> QED BY <1>1, ListInvariant, PTL

\* DB_LST_ITM is an entry of the list: for lists and windows of any size and
\* any width of the unsigned type that can hold their sum.
THEOREM SelectionInList == Spec => []SelectionExists
<1>1. ASSUME IInv, NEW k \in Col \ wheeled, db_num[k] > 0
      PROVE  Index(k) < db_num[k]
  BY <1>1, ListAssumption DEF IInv, TypeOK, IndexOK, Within, Index, Plus, Value
<1>2. IInv => SelectionExists
  BY <1>1 DEF SelectionExists
<1> QED BY <1>2, ListInvariant, PTL

-----------------------------------------------------------------------------
(* What a single key does to the cursor.                                   *)

\* The active column as long as the wheel has not been turned over it.
Valid == IInv /\ n > 0 /\ c \notin wheeled

LEMMA ValidCursor ==
  ASSUME Valid
  PROVE  /\ top \in Nat /\ cur \in Nat /\ top + cur < n
         /\ n \in 1..MaxNum /\ listh \in 1..MaxH /\ c \in Col
         /\ Word \in Nat /\ MaxNum \in Nat /\ MaxH \in Nat
         /\ 2 * MaxNum < Word /\ MaxNum + MaxH + 3 < Word
BY Active, ListAssumption DEF Valid, Value, Within

LEMMA PutActive ==
  ASSUME Valid, NEW t, NEW y, Put(c, t, y)
  PROVE  top_idx'[c] = t /\ curs'[c] = y
BY DEF Valid, IInv, TypeOK, Put, c

\* The repairs of disp_list() only ever move the cursor up.
LEMMA OnlyUp ==
  ASSUME NEW num \in 1..MaxNum, NEW t \in Value, NEW y \in Value
  PROVE  ShownCurs(num, ShownTop(num, t), y) <= y
<1>1. ShownTop(num, t) \in 0..(num - 1)
  BY ListAssumption DEF ShownTop, Value
<1>2. ASSUME NEW s \in 0..(num - 1)
      PROVE  ShownCurs(num, s, y) <= y
  BY <1>2, ListAssumption DEF ShownCurs, Plus, Minus, Value
<1> QED BY <1>1, <1>2

LEMMA ListShown ==
  ASSUME Valid, NEW t \in Value, NEW y \in Value, y < listh, disp_list(c, t, y)
  PROVE  curs'[c] < listh
<1>1. curs'[c] = ShownCurs(n, ShownTop(n, t), y)
  BY PutActive DEF disp_list
<1>2. curs'[c] <= y
  BY <1>1, ValidCursor, OnlyUp
<1>3. curs'[c] \in Value
  BY <1>1, ValidCursor, Shown
<1> QED BY <1>2, <1>3, ValidCursor DEF Value

\* center() leaves the cursor in the window, even for an entry that is not in
\* the list.
LEMMA CenterShown ==
  ASSUME NEW num \in 1..MaxNum, NEW h \in 1..MaxH, NEW idx \in Value
  PROVE  LET s == CenterTop(num, h, idx)
         IN  ShownCurs(num, ShownTop(num, s), Minus(idx, s)) < h
<1> DEFINE s == CenterTop(num, h, idx)
           y == Minus(idx, s)
           r == ShownCurs(num, ShownTop(num, s), y)
           m == h \div 2
<1>1. m \in Nat /\ m < h /\ h \in Nat /\ num \in Nat /\ idx \in Nat
  BY Half, ListAssumption DEF Value
<1>2. s \in Value /\ y \in Value /\ s + y < Word
  BY Centered
<1>3. r <= y /\ r \in Value
  BY <1>2, OnlyUp, Shown
<1>4. s < num => s + r < num
  <2>1. Within(num, ShownTop(num, s), r)
    BY <1>2, Shown
  <2> QED BY <2>1, <1>2 DEF Within, ShownTop, Value
<1>5. ASSUME num <= h
      PROVE  r < h
  <2>1. s = 0
    BY <1>5 DEF CenterTop
  <2> HIDE DEF s, y, r
  <2> QED BY <1>1, <1>3, <1>4, <1>5, <2>1 DEF Value
<1>6. ASSUME num > h /\ idx <= m
      PROVE  r < h
  <2>1. s = 0
    BY <1>6 DEF CenterTop
  <2>2. y = idx
    BY <1>1, <2>1 DEF Minus
  <2> HIDE DEF s, y, r
  <2> QED BY <1>1, <1>3, <1>6, <2>2 DEF Value
<1>7. ASSUME num > h /\ idx > m /\ Minus(num, idx) < m
      PROVE  r < h
  <2>1. s = num - h
    BY <1>1, <1>7 DEF CenterTop
  <2> HIDE DEF s, y, r
  <2> QED BY <1>1, <1>3, <1>4, <1>7, <2>1 DEF Value
<1>8. ASSUME num > h /\ idx > m /\ ~(Minus(num, idx) < m)
      PROVE  r < h
  <2>1. s = idx - m
    BY <1>1, <1>8 DEF CenterTop
  <2>2. y = m
    BY <1>1, <1>8, <2>1 DEF Minus
  <2> HIDE DEF s, y, r
  <2> QED BY <1>1, <1>3, <2>2 DEF Value
<1>9. r < h
  <2> HIDE DEF r
  <2> QED BY <1>1, <1>5, <1>6, <1>7, <1>8
<1> QED BY <1>9

LEMMA JumpShown ==
  ASSUME Valid, NEW idx \in Value, center(db_num, listh, top_idx, curs, idx)
  PROVE  curs'[c] < listh
<1> DEFINE s == CenterTop(n, listh, idx)
<1>1. curs'[c] = ShownCurs(n, ShownTop(n, s), Minus(idx, s))
  BY DEF Valid, IInv, TypeOK, center, disp_fmode, c, n
<1> HIDE DEF s
<1> QED BY <1>1, ValidCursor, CenterShown DEF s

LEMMA PagesShown ==
  ASSUME Valid, cur < listh, page_down \/ curs_last \/ page_up \/ curs_first
  PROVE  curs'[c] < listh
<1>1. ASSUME LastIsShown, ToLast
      PROVE  curs'[c] < listh
  <2>1. curs'[c] = Minus(Minus(n, top), 1)
    BY <1>1, PutActive DEF ToLast
  <2> QED BY <1>1, <2>1, ValidCursor DEF LastIsShown, Minus
<1>2. ASSUME Put(c, 0, 0)
      PROVE  curs'[c] < listh
  BY <1>2, PutActive, ValidCursor
<1>3. ASSUME NEW t \in Value, NEW y \in {0, cur, listh - 1}, disp_list(c, t, y)
      PROVE  curs'[c] < listh
  <2>1. y \in Value /\ y < listh
    BY Active, Sizes, ValidCursor DEF Valid
  <2> QED BY <1>3, <2>1, ListShown
<1>4. Plus(top, listh) \in Value /\ Minus(n, listh) \in Value /\ 0 \in Value
  BY Active, Unsigned, Sizes DEF Valid
<1>5. top >= listh => top - listh \in Value
  BY ValidCursor DEF Value
<1>6. CASE page_down
  BY <1>1, <1>3, <1>4, <1>6 DEF page_down
<1>7. CASE curs_last
  BY <1>1, <1>3, <1>4, <1>7 DEF curs_last
<1>8. CASE page_up
  BY <1>2, <1>3, <1>4, <1>5, <1>8 DEF page_up
<1>9. CASE curs_first
  BY <1>2, <1>3, <1>4, <1>9 DEF curs_first
<1> QED BY <1>6, <1>7, <1>8, <1>9

LEMMA MovesShown ==
  ASSUME Valid, cur < listh,
         curs_down \/ curs_up \/ (\E u \in Value : ToMark(u))
  PROVE  curs'[c] < listh
<1>1. CASE curs_down
  <2>1. curs'[c] = IF LastLine THEN cur ELSE Plus(cur, 1)
    BY <1>1, PutActive DEF curs_down
  <2> QED BY <2>1, ValidCursor DEF LastLine, Plus
<1>2. CASE curs_up
  <2>1. curs'[c] \in {cur, cur - 1}
    BY <1>2, PutActive DEF curs_up
  <2> QED BY <2>1, ValidCursor
<1>3. ASSUME NEW u \in Value, ToMark(u)
      PROVE  curs'[c] < listh
  <2>1. curs'[c] = u - Least(top, u) /\ u < Plus(top, cur)
    BY <1>3, PutActive DEF ToMark
  <2> QED BY <2>1, ValidCursor DEF Least, Plus, Value
<1> QED BY <1>1, <1>2, <1>3

LEMMA LinesShown ==
  ASSUME Valid, cur < listh, KeyH \/ KeyM \/ KeyL \/ KeyZEnter \/ KeyZUp
  PROVE  curs'[c] < listh
<1>1. /\ top \in Value /\ cur \in Value /\ 0 \in Value /\ listh - 1 \in Value
      /\ listh \div 2 \in Value /\ Plus(top, cur) \in Value
  BY Active, Unsigned, Sizes DEF Valid
<1>2. CASE KeyH
  BY <1>1, <1>2, ListShown, ValidCursor DEF KeyH
<1>3. CASE KeyM
  <2>1. listh \div 2 < listh
    BY Half, ValidCursor
  <2>2. ~Filled => /\ Minus(n, top) \div 2 \in Value
                   /\ Minus(n, top) \div 2 < listh
    <3> DEFINE below == Minus(n, top)
    <3>1. ASSUME ~Filled
          PROVE  below \in Nat /\ below < listh /\ below < Word
      BY <3>1, ValidCursor DEF Filled, Plus, Minus
    <3> HIDE DEF below
    <3>2. ASSUME ~Filled
          PROVE  below \div 2 \in Value /\ below \div 2 < listh
      BY <3>1, <3>2, Half, ValidCursor DEF Value
    <3> QED BY <3>2 DEF below
  <2> QED BY <1>1, <1>3, <2>1, <2>2, ListShown DEF KeyM
<1>4. CASE KeyL
  <2>1. ~Filled => /\ Minus(Minus(n, top), 1) \in Value
                   /\ Minus(Minus(n, top), 1) < listh
    BY ValidCursor DEF Filled, Plus, Minus, Value
  <2> QED BY <1>1, <1>4, <2>1, ListShown, ValidCursor DEF KeyL
<1>5. CASE KeyZEnter
  BY <1>1, <1>5, ListShown, ValidCursor DEF KeyZEnter
<1>6. CASE KeyZUp
  <2> DEFINE below == Minus(listh - 1, cur)
  <2>1. below = listh - 1 - cur
    BY ValidCursor DEF Minus
  <2>2. CASE top >= below /\ disp_list(c, top - below, listh - 1)
    <3>1. top - below \in Value
      BY <2>1, <2>2, ValidCursor DEF Value
    <3> QED BY <1>1, <2>2, <3>1, ListShown, ValidCursor
  <2>3. CASE top < below /\ disp_list(c, 0, Plus(cur, top))
    <3>1. Plus(cur, top) \in Value /\ Plus(cur, top) < listh
      BY <2>1, <2>3, ValidCursor DEF Plus, Value
    <3> QED BY <1>1, <2>3, <3>1, ListShown
  <2> QED BY <1>6, <2>2, <2>3 DEF KeyZUp
<1> QED BY <1>2, <1>3, <1>4, <1>5, <1>6

LEMMA ScrollsShown ==
  ASSUME Valid, cur < listh, NEW lines \in 0..MaxH, NEW keep \in BOOLEAN,
         scroll_down(lines, keep, c) \/ scroll_up(lines, keep, c)
  PROVE  curs'[c] < listh
<1>1. CASE scroll_down(lines, keep, c)
  <2> DEFINE end == Minus(n, 1)
             num == IF Plus(top, lines) >= n THEN Minus(end, top) ELSE lines
             ti  == Plus(top, num)
  <2>1. end = n - 1 /\ num \in 0..(end - top) /\ ti = top + num
    BY ValidCursor DEF Minus, Plus
  <2>2. curs'[c] = IF keep THEN IF Plus(ti, cur) >= n THEN Minus(end, ti) ELSE cur
                   ELSE CursMoved(cur, num)
    BY <1>1, PutActive DEF scroll_down, c, n, top, cur
  <2>3. CursMoved(cur, num) <= cur /\ CursMoved(cur, num) \in Nat
    BY <2>1, ValidCursor DEF CursMoved
  <2>4. Plus(ti, cur) >= n => Minus(end, ti) \in Nat /\ Minus(end, ti) <= cur
    BY <2>1, ValidCursor DEF Plus, Minus
  <2> HIDE DEF end, num, ti
  <2> QED BY <2>2, <2>3, <2>4, ValidCursor
<1>2. CASE scroll_up(lines, keep, c)
  <2> DEFINE num == Least(lines, top)
             up  == IF Plus(cur, num) >= listh THEN listh - 1 ELSE Plus(cur, num)
  <2>1. curs'[c] \in {IF cur >= lines THEN cur - lines ELSE 0, cur, up}
    BY <1>2, PutActive DEF scroll_up, c, top, cur
  <2>2. up < listh
    BY ValidCursor DEF Plus, Least
  <2> HIDE DEF up
  <2> QED BY <2>1, <2>2, ValidCursor
<1> QED BY <1>1, <1>2

\* No key moves the cursor out of the window, whatever the list, the window and
\* the number that was typed.
THEOREM CursorInWindow == Spec => CursorStaysShown
<1>1. ASSUME IInv, Key, c \notin wheeled, n > 0, cur < listh
      PROVE  curs'[c] < listh
  <2>1. Valid
    BY <1>1 DEF Valid
  <2>2. 1 \in 0..MaxH /\ listh \div 2 \in 0..MaxH
    BY <2>1, ValidCursor, Half
  <2>3. ScrollKey => curs'[c] < listh
    BY <1>1, <2>1, <2>2, ScrollsShown DEF ScrollKey
  <2>4. Plus(top, cur) \in Value
    BY <1>1, Active, Unsigned
  <2>5. KeyZDot \/ (\E idx \in Value : Jump(idx)) => curs'[c] < listh
    BY <2>1, <2>4, JumpShown DEF KeyZDot, Jump
  <2> QED BY <1>1, <2>1, <2>3, <2>5, PagesShown, MovesShown, LinesShown DEF Key
<1>2. IInv => [Key /\ c \notin wheeled /\ n > 0 /\ cur < listh
               => curs'[c] < listh]_vars
  BY <1>1
<1> QED BY <1>2, ListInvariant, PTL DEF CursorStaysShown

\* One step of a cursor key is one entry, and a line that is scrolled keeps the
\* cursor on its entry for as long as that is shown.
THEOREM StepsByOne == Spec => StepByOne
<1> DEFINE Step1 ==
      n > 0 /\ c \notin wheeled =>
       /\ curs_down => Index(c)' = Index(c) + 1
       /\ curs_up => Index(c)' = Index(c) - 1
       /\ scroll_down(1, FALSE, c) =>
            Index(c)' = Index(c) \/ (cur = 0 /\ Index(c)' = Index(c) + 1)
       /\ scroll_up(1, FALSE, c) /\ top # 0 /\ cur < listh =>
            Index(c)' = Index(c) \/ (cur = listh - 1 /\ Index(c)' = Index(c) - 1)
<1>1. ASSUME IInv, n > 0, c \notin wheeled
      PROVE  Step1
  <2>1. Valid
    BY <1>1 DEF Valid
  <2>2. Index(c) = top + cur
    BY <2>1, ValidCursor DEF Index, Plus, top, cur, c
  <2>3. Keep => Index(c)' = Plus(top_idx'[c], curs'[c])
    BY DEF Keep, Index, c
  <2>4. ASSUME curs_down
        PROVE  Index(c)' = Index(c) + 1
    BY <2>1, <2>2, <2>3, <2>4, ValidCursor, PutActive DEF curs_down, Quiet, Plus
  <2>5. ASSUME curs_up
        PROVE  Index(c)' = Index(c) - 1
    BY <2>1, <2>2, <2>3, <2>5, ValidCursor, PutActive DEF curs_up, Quiet, Plus
  <2>6. ASSUME scroll_down(1, FALSE, c)
        PROVE  Index(c)' = Index(c) \/ (cur = 0 /\ Index(c)' = Index(c) + 1)
    <3> DEFINE end == Minus(n, 1)
               num == IF Plus(top, 1) >= n THEN Minus(end, top) ELSE 1
    <3>1. end = n - 1 /\ top < end
      BY <2>1, <2>6, ValidCursor DEF scroll_down, Minus, c, n, top
    <3>2. num = 1 /\ Plus(top, num) = top + 1
      BY <2>1, <3>1, ValidCursor DEF Plus, Minus
    <3>3. top_idx'[c] = top + 1 /\ curs'[c] = CursMoved(cur, 1) /\ Keep
      BY <2>1, <2>6, <3>2, PutActive DEF scroll_down, c, n, top, cur
    <3> HIDE DEF end, num
    <3> QED BY <2>1, <2>2, <2>3, <3>1, <3>3, ValidCursor DEF CursMoved, Plus
  <2>7. ASSUME scroll_up(1, FALSE, c), top # 0, cur < listh
        PROVE  Index(c)' = Index(c) \/ (cur = listh - 1 /\ Index(c)' = Index(c) - 1)
    <3>1. Least(1, top) = 1
      BY <2>1, <2>7, ValidCursor DEF Least
    <3>2. /\ top_idx'[c] = top - 1 /\ Keep
          /\ curs'[c] = IF Plus(cur, 1) >= listh THEN listh - 1 ELSE Plus(cur, 1)
      BY <2>1, <2>7, <3>1, PutActive DEF scroll_up, Quiet, c, top, cur
    <3> QED BY <2>1, <2>2, <2>3, <2>7, <3>2, ValidCursor DEF Plus
  <2> QED BY <2>4, <2>5, <2>6, <2>7
<1>2. IInv => [Step1]_vars
  BY <1>1
<1> QED BY <1>2, ListInvariant, PTL DEF StepByOne
=============================================================================
