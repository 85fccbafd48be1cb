------------------------------ MODULE ShellProofs ------------------------------
(***************************************************************************)
(* Proofs about the command line: the line and the histories stay in their *)
(* buffers, recall starts behind the newest line, and a history forgets    *)
(* its oldest line only.                                                   *)
(***************************************************************************)
EXTENDS Shell, SequenceTheorems, TLAPS

Histories == [entries : Seq(Seq(Keys)), browse : Nat]

\* What holds of each history by itself.
HistoryKept(h) ==
    /\ h \in Histories
    /\ Len(h.entries) <= HistoryMax
    /\ \A k \in DOMAIN h.entries : Len(h.entries[k]) \in 1 .. HistoryLength - 1
    /\ h.browse \in 0 .. Len(h.entries)

\* The index of a history that nobody looks at, at whatever level.
AtRest(h) == h.browse = Len(h.entries)

ShellTypeOK ==
    /\ line \in Seq(Keys) /\ saved \in Seq(Keys)
    /\ cursor \in 0 .. Len(line)
    /\ navigating \in BOOLEAN /\ running \in BOOLEAN
    /\ level \in Levels
    /\ history \in [Levels -> Histories]

\* The inductive invariant: no line or history outgrows its room, and the
\* only history that may be in use is the one of the level.
ShellIInv ==
    /\ ShellTypeOK
    /\ Len(line) < BufferSize
    /\ \A l \in Levels :
          /\ HistoryKept(history[l])
          /\ ~(navigating /\ l = level) => AtRest(history[l])

--------------------------------------------------------------------------------
(* Lines. *)

LEMMA MinOfTwo ==
    ASSUME NEW a \in Int, NEW b \in Int
    PROVE  /\ Min({a, b}) \in {a, b}
           /\ Min({a, b}) <= a /\ Min({a, b}) <= b
<1>1. \E x \in {a, b} : \A y \in {a, b} : x <= y
    <2>1. CASE a <= b BY <2>1
    <2>2. CASE ~(a <= b) BY <2>2
    <2> QED BY <2>1, <2>2
<1> QED BY <1>1, SMT DEF Min

\* The first part of a line is a line.
LEMMA CutLine ==
    ASSUME NEW text \in Seq(Keys), NEW size \in Nat \ {0}
    PROVE  /\ Cut(text, size) \in Seq(Keys)
           /\ Len(Cut(text, size)) = IF Len(text) < size THEN Len(text) ELSE size - 1
<1> DEFINE n == Min({Len(text), size - 1})
<1>1. Len(text) \in Nat /\ text \in [1 .. Len(text) -> Keys] BY LenProperties
<1>2. n \in Nat /\ n <= Len(text) /\ n = IF Len(text) < size THEN Len(text) ELSE size - 1
    <2>1. Len(text) \in Int /\ size - 1 \in Int /\ size - 1 >= 0 BY <1>1
    <2>2. n \in {Len(text), size - 1} /\ n <= Len(text) /\ n <= size - 1
        BY <2>1, MinOfTwo
    <2> QED BY <1>1, <2>1, <2>2
<1>3. \A i \in 1 .. n : text[i] \in Keys BY <1>1, <1>2
<1> HIDE DEF n
<1>4. SubSeq(text, 1, n) \in Seq(Keys) /\ Len(SubSeq(text, 1, n)) = n
    BY <1>2, <1>3, SubSeqProperties
<1> QED BY <1>2, <1>4 DEF Cut, n

\* A part of a line is a line, of the length that was asked for.
LEMMA PartOfLine ==
    ASSUME NEW text \in Seq(Keys), NEW m \in 1 .. Len(text) + 1,
           NEW n \in m - 1 .. Len(text)
    PROVE  /\ SubSeq(text, m, n) \in Seq(Keys)
           /\ Len(SubSeq(text, m, n)) = n - m + 1
<1>1. Len(text) \in Nat /\ text \in [1 .. Len(text) -> Keys] BY LenProperties
<1>2. m \in Int /\ n \in Int /\ \A i \in m .. n : text[i] \in Keys BY <1>1
<1>3. SubSeq(text, m, n) \in Seq(Keys)
    /\ Len(SubSeq(text, m, n)) = IF m <= n THEN n - m + 1 ELSE 0
    BY <1>2, SubSeqProperties
<1> QED BY <1>1, <1>3

--------------------------------------------------------------------------------
(* Histories. *)

LEMMA EmptyHistory == LET h == [entries |-> << >>, browse |-> 0]
                      IN  HistoryKept(h) /\ AtRest(h)
<1>1. << >> \in Seq(Seq(Keys)) /\ Len(<< >>) = 0 BY EmptySeq
<1> QED BY <1>1, ShellAssumption, SMT DEF HistoryKept, AtRest, Histories

LEMMA ResetKept ==
    ASSUME NEW h, HistoryKept(h)
    PROVE  /\ HistoryKept(ResetBrowse(h)) /\ AtRest(ResetBrowse(h))
           /\ ResetBrowse(h).entries = h.entries
<1>1. h \in Histories /\ Len(h.entries) \in Nat BY LenProperties DEF HistoryKept, Histories
<1>2. ResetBrowse(h) \in Histories /\ ResetBrowse(h).entries = h.entries
    /\ ResetBrowse(h).browse = Len(h.entries)
    BY <1>1 DEF ResetBrowse, Histories
<1> QED BY <1>1, <1>2 DEF HistoryKept, AtRest

\* What a history keeps when a line is added to it.
Kept(h) == IF Len(h.entries) >= HistoryMax THEN Tail(h.entries) ELSE h.entries

\* The lines that stay are the last ones of the history.
LEMMA KeptIsSuffix ==
    ASSUME NEW h, HistoryKept(h)
    PROVE  /\ Kept(h) \in Seq(Seq(Keys))
           /\ Len(Kept(h)) = IF Len(h.entries) >= HistoryMax
                             THEN HistoryMax - 1 ELSE Len(h.entries)
           /\ IsSuffix(Kept(h), h.entries)
           /\ \A k \in 1 .. Len(Kept(h)) : Len(Kept(h)[k]) \in 1 .. HistoryLength - 1
<1> DEFINE e == h.entries
           n == Len(e)
           gap == IF n >= HistoryMax THEN 1 ELSE 0
<1>1. /\ e \in Seq(Seq(Keys)) /\ n \in Nat /\ n <= HistoryMax
      /\ DOMAIN e = 1 .. n /\ e \in [1 .. n -> Seq(Keys)]
      /\ \A k \in 1 .. n : Len(e[k]) \in 1 .. HistoryLength - 1
    BY LenProperties DEF HistoryKept, Histories
<1>2. HistoryMax \in Nat \ {0} BY ShellAssumption
<1>3. CASE n >= HistoryMax
    <2>1. e # << >> BY <1>1, <1>2, <1>3, EmptySeq
    <2>2. /\ Tail(e) \in Seq(Seq(Keys)) /\ Len(Tail(e)) = n - 1
          /\ \A i \in 1 .. Len(Tail(e)) : Tail(e)[i] = e[i + 1]
        BY <1>1, <2>1, HeadTailProperties
    <2>3. Kept(h) = Tail(e) BY <1>3 DEF Kept
    <2> QED BY <1>1, <1>2, <1>3, <2>2, <2>3, SMT DEF IsSuffix, IsPrefix, Reverse
<1>4. CASE ~(n >= HistoryMax)
    <2>1. Kept(h) = e BY <1>4 DEF Kept
    <2> QED BY <1>1, <1>2, <1>4, <2>1, SMT DEF IsSuffix, IsPrefix, Reverse
<1> QED BY <1>3, <1>4

\* A line that is run becomes the newest one, or it is nothing or the newest
\* one already; either way the index stands behind it.
LEMMA AddEntryKept ==
    ASSUME NEW h, HistoryKept(h), NEW text \in Seq(Keys),
           text = << >> => AtRest(h)
    PROVE  /\ HistoryKept(AddEntry(h, text)) /\ AtRest(AddEntry(h, text))
           /\ AddEntry(h, text).entries # h.entries =>
                 /\ text # << >>
                 /\ AddEntry(h, text).entries = Append(Kept(h), Cut(text, HistoryLength))
<1> DEFINE e == h.entries
           after == Append(Kept(h), Cut(text, HistoryLength))
<1>1. e \in Seq(Seq(Keys)) /\ Len(e) \in Nat /\ h \in Histories
    BY LenProperties DEF HistoryKept, Histories
<1>2. CASE text = << >>
    <2>1. AddEntry(h, text) = h BY <1>2 DEF AddEntry
    <2> QED BY <1>2, <2>1
<1>3. CASE text # << >> /\ e # << >> /\ Last(e) = text
    <2>1. AddEntry(h, text) = ResetBrowse(h) BY <1>3 DEF AddEntry, ResetBrowse
    <2> QED BY <2>1, ResetKept
<1>4. CASE text # << >> /\ ~(e # << >> /\ Last(e) = text)
    <2>1. AddEntry(h, text) = [entries |-> after, browse |-> Len(after)]
        BY <1>4 DEF AddEntry, Kept
    <2>2. HistoryMax \in Nat \ {0} /\ HistoryLength \in Nat \ {0, 1}
        BY ShellAssumption
    <2>3. /\ Kept(h) \in Seq(Seq(Keys))
          /\ Len(Kept(h)) \in Nat /\ Len(Kept(h)) < HistoryMax
          /\ \A k \in 1 .. Len(Kept(h)) : Len(Kept(h)[k]) \in 1 .. HistoryLength - 1
        <3>1. /\ Kept(h) \in Seq(Seq(Keys))
              /\ Len(Kept(h)) = IF Len(e) >= HistoryMax THEN HistoryMax - 1 ELSE Len(e)
              /\ \A k \in 1 .. Len(Kept(h)) : Len(Kept(h)[k]) \in 1 .. HistoryLength - 1
            BY KeptIsSuffix
        <3> QED BY <1>1, <2>2, <3>1
    <2>4. /\ Cut(text, HistoryLength) \in Seq(Keys)
          /\ Len(Cut(text, HistoryLength)) \in 1 .. HistoryLength - 1
        <3>1. Len(text) \in Nat \ {0} BY <1>4, EmptySeq
        <3> QED BY <2>2, <3>1, CutLine
    <2>5. /\ after \in Seq(Seq(Keys)) /\ Len(after) = Len(Kept(h)) + 1
          /\ \A k \in 1 .. Len(Kept(h)) : after[k] = Kept(h)[k]
          /\ after[Len(Kept(h)) + 1] = Cut(text, HistoryLength)
        BY <2>3, <2>4, AppendProperties
    <2> HIDE DEF after
    <2>6. DOMAIN after = 1 .. Len(after) BY <2>5, LenProperties
    <2>7. \A k \in DOMAIN after : Len(after[k]) \in 1 .. HistoryLength - 1
        <3> SUFFICES ASSUME NEW k \in 1 .. Len(Kept(h)) + 1
                     PROVE  Len(after[k]) \in 1 .. HistoryLength - 1
            BY <2>5, <2>6
        <3>1. CASE k \in 1 .. Len(Kept(h)) BY <2>3, <2>5, <3>1
        <3>2. CASE k = Len(Kept(h)) + 1 BY <2>4, <2>5, <3>2
        <3> QED BY <2>3, <3>1, <3>2
    <2>8. HistoryKept(AddEntry(h, text)) /\ AtRest(AddEntry(h, text))
        BY <2>1, <2>2, <2>3, <2>5, <2>7 DEF HistoryKept, AtRest, Histories
    <2>9. AddEntry(h, text).entries = after BY <2>1
    <2> QED BY <1>4, <2>8, <2>9 DEF after
<1> QED BY <1>2, <1>3, <1>4

--------------------------------------------------------------------------------
(* Every key keeps the invariant. *)

LEMMA InitKeeps == ShellInit => ShellIInv
<1> SUFFICES ASSUME ShellInit PROVE ShellIInv
    OBVIOUS
<1>1. << >> \in Seq(Keys) /\ Len(<< >>) = 0 BY EmptySeq
<1>2. \A l \in Levels : HistoryKept(history[l]) /\ AtRest(history[l])
    BY EmptyHistory DEF ShellInit
<1>3. history \in [Levels -> Histories]
    BY <1>2 DEF ShellInit, HistoryKept
<1>4. /\ line = << >> /\ saved = << >> /\ cursor = 0
      /\ navigating = FALSE /\ running = TRUE /\ level = "manager"
    BY DEF ShellInit
<1>5. Len(line) = 0 /\ line \in Seq(Keys) /\ saved \in Seq(Keys) BY <1>1, <1>4
<1>6. BufferSize \in Nat \ {0} BY ShellAssumption
<1>7. ShellTypeOK
    <2>1. cursor \in 0 .. Len(line) BY <1>4, <1>5
    <2>2. level \in Levels BY <1>4 DEF Levels
    <2>3. navigating \in BOOLEAN /\ running \in BOOLEAN BY <1>4
    <2> QED BY <1>3, <1>5, <2>1, <2>2, <2>3 DEF ShellTypeOK
<1> QED BY <1>2, <1>5, <1>6, <1>7 DEF ShellIInv

\* A key that only changes the line has to keep it and the cursor in it.
LEMMA EditedKeeps ==
    ASSUME ShellIInv, NEW text \in Seq(Keys), Len(text) < BufferSize,
           NEW at \in 0 .. Len(text), Edited(text, at)
    PROVE  ShellIInv'
BY DEF ShellIInv, ShellTypeOK, Edited

LEMMA InsertKeeps ==
    ASSUME ShellIInv, NEW text \in Seq(Keys), Len(line) + Len(text) < BufferSize,
           InsertText(text)
    PROVE  ShellIInv'
<1> DEFINE left == SubSeq(line, 1, cursor)
           right == SubSeq(line, cursor + 1, Len(line))
           now == left \o text \o right
<1>1. line \in Seq(Keys) /\ Len(line) \in Nat /\ cursor \in 0 .. Len(line)
    BY LenProperties DEF ShellIInv, ShellTypeOK
<1>2. left \in Seq(Keys) /\ Len(left) = cursor
    BY <1>1, PartOfLine
<1>3. right \in Seq(Keys) /\ Len(right) = Len(line) - cursor
    BY <1>1, PartOfLine
<1>4. Len(text) \in Nat BY LenProperties
<1>5. left \o text \in Seq(Keys) /\ Len(left \o text) = cursor + Len(text)
    BY <1>2, ConcatProperties
<1>6. now \in Seq(Keys) /\ Len(now) = cursor + Len(text) + (Len(line) - cursor)
    BY <1>3, <1>5, ConcatProperties
<1>7. Edited(now, cursor + Len(text)) BY DEF InsertText
<1> HIDE DEF now
<1>8. cursor + Len(text) \in 0 .. Len(now) /\ Len(now) < BufferSize
    BY <1>1, <1>4, <1>6, ShellAssumption
<1> QED BY <1>6, <1>7, <1>8, EditedKeeps

LEMMA TypeKeeps ==
    ASSUME ShellIInv, NEW key \in Typed, Type(key)
    PROVE  ShellIInv'
<1>1. key \in Keys BY ShellAssumption
<1>2. <<key>> \in Seq(Keys) /\ Len(<<key>>) = 1 BY <1>1
<1>3. Len(line) \in Nat BY LenProperties DEF ShellIInv, ShellTypeOK
<1>4. Len(line) + 1 < BufferSize BY <1>3, ShellAssumption DEF Type
<1> QED BY <1>2, <1>4, InsertKeeps DEF Type

LEMMA PasteKeeps ==
    ASSUME ShellIInv, NEW text \in Pastes, Paste(text)
    PROVE  ShellIInv'
<1> DEFINE room == BufferSize - 1 - Len(line)
           n == Min({Len(text), room})
           part == SubSeq(text, 1, n)
<1>1. text \in Seq(Keys) BY ShellAssumption
<1>2. Len(text) \in Nat /\ Len(line) \in Nat /\ room \in Nat
    <2>1. Len(text) \in Nat BY <1>1, LenProperties
    <2>2. Len(line) \in Nat /\ Len(line) < BufferSize
        BY LenProperties DEF ShellIInv, ShellTypeOK
    <2> QED BY <2>1, <2>2, ShellAssumption
<1>3. n \in 0 .. Len(text) /\ n <= room
    <2>1. Len(text) \in Int /\ room \in Int BY <1>2
    <2>2. n \in {Len(text), room} /\ n <= Len(text) /\ n <= room
        BY <2>1, MinOfTwo
    <2> QED BY <1>2, <2>2
<1>4. part \in Seq(Keys) /\ Len(part) = n
    <2> HIDE DEF n
    <2> QED BY <1>1, <1>2, <1>3, PartOfLine
<1>5. InsertText(part) BY DEF Paste
<1> HIDE DEF n, part
<1>6. Len(line) + Len(part) < BufferSize
    BY <1>2, <1>3, <1>4, ShellAssumption
<1> QED BY <1>4, <1>5, <1>6, InsertKeeps

\* The line without one of its keys.
LEMMA RemoveKey ==
    ASSUME NEW text \in Seq(Keys), NEW k \in 1 .. Len(text)
    PROVE  /\ RemoveAt(text, k) \in Seq(Keys)
           /\ Len(RemoveAt(text, k)) = Len(text) - 1
<1>1. Len(text) \in Nat BY LenProperties
<1>2. SubSeq(text, 1, k - 1) \in Seq(Keys) /\ Len(SubSeq(text, 1, k - 1)) = k - 1
    BY <1>1, PartOfLine
<1>3. /\ SubSeq(text, k + 1, Len(text)) \in Seq(Keys)
      /\ Len(SubSeq(text, k + 1, Len(text))) = Len(text) - k
    BY <1>1, PartOfLine
<1> DEFINE left == SubSeq(text, 1, k - 1)
           right == SubSeq(text, k + 1, Len(text))
<1>4. left \o right \in Seq(Keys) /\ Len(left \o right) = Len(left) + Len(right)
    <2>1. left \in Seq(Keys) /\ right \in Seq(Keys) BY <1>2, <1>3
    <2> HIDE DEF left, right
    <2> QED BY <2>1, ConcatProperties
<1>5. RemoveAt(text, k) = left \o right BY DEF RemoveAt
<1>6. Len(left) = k - 1 /\ Len(right) = Len(text) - k BY <1>2, <1>3
<1>7. Len(left) + Len(right) = Len(text) - 1
    <2> HIDE DEF left, right
    <2> QED BY <1>1, <1>6
<1> HIDE DEF left, right
<1> QED BY <1>4, <1>5, <1>7, Zenon

LEMMA RemoveKeeps ==
    ASSUME ShellIInv, Backspace \/ Delete \/ MoveCursor
    PROVE  ShellIInv'
<1>1. line \in Seq(Keys) /\ Len(line) \in Nat /\ cursor \in 0 .. Len(line)
    /\ Len(line) < BufferSize /\ BufferSize \in Nat
    BY LenProperties, ShellAssumption DEF ShellIInv, ShellTypeOK
<1>2. CASE Backspace
    <2>1. cursor \in 1 .. Len(line) BY <1>1, <1>2 DEF Backspace
    <2>2. /\ RemoveAt(line, cursor) \in Seq(Keys)
          /\ Len(RemoveAt(line, cursor)) = Len(line) - 1
        BY <1>1, <2>1, RemoveKey
    <2>3. Edited(RemoveAt(line, cursor), cursor - 1) BY <1>2 DEF Backspace
    <2> QED BY <1>1, <2>1, <2>2, <2>3, EditedKeeps
<1>3. CASE Delete
    <2>1. cursor + 1 \in 1 .. Len(line) BY <1>1, <1>3 DEF Delete
    <2>2. /\ RemoveAt(line, cursor + 1) \in Seq(Keys)
          /\ Len(RemoveAt(line, cursor + 1)) = Len(line) - 1
        BY <1>1, <2>1, RemoveKey
    <2>3. Edited(RemoveAt(line, cursor + 1), cursor) BY <1>3 DEF Delete
    <2> QED BY <1>1, <2>1, <2>2, <2>3, EditedKeeps
<1>4. CASE MoveCursor
    BY <1>1, <1>4, EditedKeeps DEF MoveCursor
<1> QED BY <1>2, <1>3, <1>4

\* A line of a history, or the one that was saved, fits the buffer when it is
\* shown.
LEMMA ShownFits ==
    ASSUME NEW text \in Seq(Keys), Show(text)
    PROVE  /\ line' \in Seq(Keys) /\ Len(line') < BufferSize
           /\ cursor' \in 0 .. Len(line')
<1>1. Len(text) \in Nat /\ BufferSize \in Nat \ {0} BY LenProperties, ShellAssumption
<1>2. /\ Cut(text, BufferSize) \in Seq(Keys)
      /\ Len(Cut(text, BufferSize)) = IF Len(text) < BufferSize
                                      THEN Len(text) ELSE BufferSize - 1
    BY <1>1, CutLine
<1> QED BY <1>1, <1>2 DEF Show

\* The index of a history moves inside it.
LEMMA BrowseKept ==
    ASSUME NEW h, HistoryKept(h), NEW to \in 0 .. Len(h.entries)
    PROVE  /\ HistoryKept([h EXCEPT !.browse = to])
           /\ [h EXCEPT !.browse = to].browse = to
           /\ [h EXCEPT !.browse = to].entries = h.entries
<1>1. h \in Histories /\ Len(h.entries) \in Nat BY LenProperties DEF HistoryKept, Histories
<1> QED BY <1>1 DEF HistoryKept, Histories

LEMMA UpKeeps ==
    ASSUME ShellIInv, Up
    PROVE  ShellIInv' /\ \A l \in Levels : history'[l].entries = history[l].entries
<1> DEFINE h == history[level]
           to == IF h.browse = 0 THEN 0 ELSE h.browse - 1
<1>1. /\ ShellTypeOK /\ level \in Levels /\ HistoryKept(h)
      /\ history \in [Levels -> Histories]
      /\ h.entries \in Seq(Seq(Keys)) /\ h.browse \in 0 .. Len(h.entries)
      /\ Len(h.entries) \in Nat
    BY LenProperties DEF ShellIInv, ShellTypeOK, HistoryKept, Histories
<1>2. /\ navigating' = TRUE /\ level' = level /\ running' = running
      /\ saved' \in Seq(Keys)
    BY <1>1 DEF Up, ShellTypeOK
<1>3. CASE h.entries = << >>
    <2>1. line' = line /\ cursor' = cursor /\ history' = history BY <1>3 DEF Up
    <2> QED BY <1>1, <1>2, <2>1 DEF ShellIInv, ShellTypeOK, AtRest
<1>4. CASE h.entries # << >>
    <2>1. history' = [history EXCEPT ![level].browse = to] /\ Show(h.entries[to + 1])
        BY <1>4 DEF Up
    <2>2. to \in 0 .. Len(h.entries) /\ to + 1 \in 1 .. Len(h.entries)
        BY <1>1, <1>4, EmptySeq
    <2>3. h.entries[to + 1] \in Seq(Keys) BY <1>1, <2>2, ElementOfSeq
    <2>4. /\ line' \in Seq(Keys) /\ Len(line') < BufferSize
          /\ cursor' \in 0 .. Len(line')
        BY <2>1, <2>3, ShownFits
    <2> HIDE DEF to
    <2>5. /\ history'[level] = [h EXCEPT !.browse = to]
          /\ \A l \in Levels : l # level => history'[l] = history[l]
          /\ DOMAIN history' = Levels
        BY <1>1, <2>1
    <2>6. HistoryKept(history'[level]) /\ history'[level].entries = h.entries
        BY <1>1, <2>2, <2>5, BrowseKept
    <2>7. \A l \in Levels : HistoryKept(history'[l])
        BY <2>5, <2>6 DEF ShellIInv
    <2>8. history' \in [Levels -> Histories]
        <3>1. \A l \in Levels : history'[l] \in Histories BY <2>7 DEF HistoryKept
        <3>2. history' = [l \in Levels |-> history'[l]] BY <2>1, <1>1
        <3> QED BY <3>1, <3>2
    <2>9. ShellTypeOK' BY <1>1, <1>2, <2>4, <2>8 DEF ShellTypeOK
    <2>10. \A l \in Levels : ~(navigating' /\ l = level') => AtRest(history'[l])
        BY <1>2, <2>5 DEF ShellIInv
    <2> QED BY <2>4, <2>5, <2>6, <2>7, <2>9, <2>10 DEF ShellIInv, HistoryKept, AtRest
<1> QED BY <1>3, <1>4

LEMMA DownKeeps ==
    ASSUME ShellIInv, Down
    PROVE  ShellIInv' /\ \A l \in Levels : history'[l].entries = history[l].entries
<1> DEFINE h == history[level]
           to == IF h.browse < Len(h.entries) THEN h.browse + 1 ELSE h.browse
<1>1. /\ ShellTypeOK /\ level \in Levels /\ HistoryKept(h)
      /\ history \in [Levels -> Histories]
      /\ h.entries \in Seq(Seq(Keys)) /\ h.browse \in 0 .. Len(h.entries)
      /\ Len(h.entries) \in Nat
    BY LenProperties DEF ShellIInv, ShellTypeOK, HistoryKept, Histories
<1>2. /\ navigating /\ level' = level /\ running' = running /\ saved' = saved
      /\ history' = [history EXCEPT ![level].browse = to]
    BY DEF Down
<1>3. to \in 0 .. Len(h.entries) BY <1>1
<1>4. \/ to < Len(h.entries) /\ Show(h.entries[to + 1]) /\ navigating' = navigating
      \/ to = Len(h.entries) /\ Show(saved) /\ navigating' = FALSE
    <2>1. IF to < Len(h.entries)
          THEN Show(h.entries[to + 1]) /\ navigating' = navigating
          ELSE Show(saved) /\ navigating' = FALSE
        BY Zenon DEF Down
    <2> HIDE DEF to
    <2> QED BY <1>1, <1>3, <2>1
<1> HIDE DEF to
<1>5. \E text \in Seq(Keys) : Show(text)
    <2>1. CASE to < Len(h.entries) /\ Show(h.entries[to + 1])
        <3>1. to + 1 \in 1 .. Len(h.entries) BY <1>1, <1>3, <2>1
        <3>2. h.entries[to + 1] \in Seq(Keys) BY <1>1, <3>1, ElementOfSeq
        <3> QED BY <2>1, <3>2
    <2>2. CASE Show(saved) BY <1>1, <2>2 DEF ShellTypeOK
    <2> QED BY <1>4, <2>1, <2>2
<1>6. /\ line' \in Seq(Keys) /\ Len(line') < BufferSize
      /\ cursor' \in 0 .. Len(line')
    BY <1>5, ShownFits
<1>7. /\ history'[level] = [h EXCEPT !.browse = to]
      /\ \A l \in Levels : l # level => history'[l] = history[l]
      /\ history' = [l \in Levels |-> history'[l]]
    BY <1>1, <1>2
<1>8. /\ HistoryKept(history'[level]) /\ history'[level].entries = h.entries
      /\ history'[level].browse = to
    BY <1>1, <1>3, <1>7, BrowseKept
<1>9. \A l \in Levels : HistoryKept(history'[l])
    BY <1>7, <1>8 DEF ShellIInv
<1>10. history' \in [Levels -> Histories]
    BY <1>7, <1>9 DEF HistoryKept
<1>11. ShellTypeOK' BY <1>1, <1>2, <1>4, <1>6, <1>10 DEF ShellTypeOK
<1>12. \A l \in Levels : ~(navigating' /\ l = level') => AtRest(history'[l])
    <2> SUFFICES ASSUME NEW l \in Levels, ~(navigating' /\ l = level')
                 PROVE  AtRest(history'[l])
        OBVIOUS
    <2>1. CASE l # level BY <1>2, <1>7, <2>1 DEF ShellIInv
    <2>2. CASE l = level
        <3>1. to = Len(h.entries) BY <1>2, <1>4, <2>2
        <3> QED BY <1>8, <2>2, <3>1 DEF AtRest
    <2> QED BY <2>1, <2>2
<1> QED BY <1>6, <1>7, <1>8, <1>9, <1>11, <1>12 DEF ShellIInv, HistoryKept, AtRest

\* A line is run: its history is the only one that changes.
LEMMA RunKeeps ==
    ASSUME ShellIInv, NEW h, NEW text \in Seq(Keys), Run(h, text),
           HistoryKept(h), h.entries = history[level].entries,
           text = << >> => AtRest(h)
    PROVE  /\ ShellIInv'
           /\ \A l \in Levels : history'[l].entries # history[l].entries =>
                 /\ l = level /\ text # << >>
                 /\ history'[l].entries = Append(Kept(h), Cut(text, HistoryLength))
<1>1. ShellTypeOK /\ level \in Levels /\ history \in [Levels -> Histories]
    BY DEF ShellIInv, ShellTypeOK
<1>2. /\ history' = [history EXCEPT ![level] = AddEntry(h, text)]
      /\ Dispatch(TokenizeLine(text))
      /\ line' = << >> /\ cursor' = 0 /\ saved' = << >> /\ navigating' = FALSE
    BY DEF Run, NewLine
<1>3. level' \in Levels /\ running' \in BOOLEAN
    BY <1>1, <1>2 DEF Dispatch, Levels, ShellTypeOK
<1>4. /\ history'[level] = AddEntry(h, text)
      /\ \A l \in Levels : l # level => history'[l] = history[l]
      /\ history' = [l \in Levels |-> history'[l]]
    BY <1>1, <1>2
<1>5. HistoryKept(history'[level]) /\ AtRest(history'[level])
    BY <1>4, AddEntryKept
<1>6. \A l \in Levels : HistoryKept(history'[l]) /\ AtRest(history'[l])
    BY <1>4, <1>5 DEF ShellIInv
<1>7. history' \in [Levels -> Histories]
    BY <1>4, <1>6 DEF HistoryKept
<1>8. Len(line') = 0 /\ line' \in Seq(Keys) /\ saved' \in Seq(Keys)
    BY <1>2, EmptySeq
<1>9. cursor' \in 0 .. Len(line') /\ Len(line') < BufferSize /\ navigating' \in BOOLEAN
    <2>1. BufferSize \in Nat \ {0} BY ShellAssumption
    <2>2. cursor' = 0 /\ Len(line') = 0 BY <1>2, <1>8
    <2>3. cursor' \in 0 .. Len(line') /\ Len(line') < BufferSize BY <2>1, <2>2
    <2>4. navigating' \in BOOLEAN BY <1>2
    <2> QED BY <2>3, <2>4
<1>10. ShellIInv'
    BY <1>3, <1>6, <1>7, <1>8, <1>9 DEF ShellIInv, ShellTypeOK, HistoryKept, AtRest
<1>11. AddEntry(h, text).entries # h.entries =>
          /\ text # << >>
          /\ AddEntry(h, text).entries = Append(Kept(h), Cut(text, HistoryLength))
    BY AddEntryKept
<1> QED BY <1>4, <1>10, <1>11

LEMMA CtrlCKeeps ==
    ASSUME ShellIInv, CtrlC
    PROVE  ShellIInv' /\ \A l \in Levels : history'[l].entries = history[l].entries
<1>1. ShellTypeOK /\ level \in Levels /\ history \in [Levels -> Histories]
    BY DEF ShellIInv, ShellTypeOK
<1>2. /\ history' = [history EXCEPT ![level] = ResetBrowse(@)]
      /\ running' = FALSE /\ level' = level
      /\ line' = << >> /\ cursor' = 0 /\ saved' = << >> /\ navigating' = FALSE
    BY DEF CtrlC, NewLine
<1>3. /\ history'[level] = ResetBrowse(history[level])
      /\ \A l \in Levels : l # level => history'[l] = history[l]
      /\ history' = [l \in Levels |-> history'[l]]
    BY <1>1, <1>2
<1>4. HistoryKept(history[level]) BY <1>1 DEF ShellIInv
<1>5. /\ HistoryKept(history'[level]) /\ AtRest(history'[level])
      /\ history'[level].entries = history[level].entries
    BY <1>3, <1>4, ResetKept
<1>6. \A l \in Levels : HistoryKept(history'[l]) /\ AtRest(history'[l])
    BY <1>3, <1>5 DEF ShellIInv
<1>7. history' \in [Levels -> Histories]
    BY <1>3, <1>6 DEF HistoryKept
<1>8. Len(line') = 0 /\ line' \in Seq(Keys) /\ saved' \in Seq(Keys)
    BY <1>2, EmptySeq
<1>9. cursor' \in 0 .. Len(line') /\ Len(line') < BufferSize /\ navigating' \in BOOLEAN
    <2>1. BufferSize \in Nat \ {0} BY ShellAssumption
    <2>2. cursor' = 0 /\ Len(line') = 0 BY <1>2, <1>8
    <2>3. cursor' \in 0 .. Len(line') /\ Len(line') < BufferSize BY <2>1, <2>2
    <2>4. navigating' \in BOOLEAN BY <1>2
    <2> QED BY <2>3, <2>4
<1>10. ShellIInv'
    BY <1>1, <1>2, <1>6, <1>7, <1>8, <1>9
    DEF ShellIInv, ShellTypeOK, HistoryKept, AtRest
<1> QED BY <1>3, <1>5, <1>10

\* One key: the invariant stays, and a history changes only when a line is run.
LEMMA KeyKeeps ==
    ASSUME ShellIInv, [ShellNext]_shellVars
    PROVE  /\ ShellIInv'
           /\ \A l \in Levels : history'[l].entries # history[l].entries =>
                 history'[l].entries =
                    Append(Kept(history[l]),
                           Cut(IF line = << >> THEN <<Quit>> ELSE line, HistoryLength))
<1>1. ShellTypeOK /\ \A l \in Levels : HistoryKept(history[l])
    BY DEF ShellIInv
<1>2. CASE UNCHANGED shellVars
    BY <1>2 DEF shellVars, ShellIInv, ShellTypeOK, HistoryKept, AtRest
<1>3. ASSUME NEW key \in Typed, Type(key) PROVE ShellIInv' /\ history' = history
    BY <1>3, TypeKeeps DEF Type, InsertText, Edited
<1>4. ASSUME NEW text \in Pastes, Paste(text) PROVE ShellIInv' /\ history' = history
    BY <1>4, PasteKeeps DEF Paste, InsertText, Edited
<1>5. CASE Backspace \/ Delete \/ MoveCursor
    BY <1>5, RemoveKeeps DEF Backspace, Delete, MoveCursor, Edited
<1>6. CASE Up BY <1>6, UpKeeps
<1>7. CASE Down BY <1>7, DownKeeps
<1>8. CASE EnterKey
    <2> DEFINE h == ResetBrowse(history[level])
    <2>1. line \in Seq(Keys) /\ level \in Levels BY <1>1 DEF ShellTypeOK
    <2>2. HistoryKept(h) /\ AtRest(h) /\ h.entries = history[level].entries
        BY <1>1, <2>1, ResetKept
    <2>3. Kept(h) = Kept(history[level]) BY <2>2 DEF Kept
    <2>4. Run(h, line) BY <1>8 DEF EnterKey
    <2> HIDE DEF h
    <2>5. /\ ShellIInv'
          /\ \A l \in Levels : history'[l].entries # history[l].entries =>
                /\ l = level /\ line # << >>
                /\ history'[l].entries = Append(Kept(h), Cut(line, HistoryLength))
        BY <2>1, <2>2, <2>4, RunKeeps
    <2> QED BY <2>3, <2>5
<1>9. CASE CtrlD
    <2> DEFINE h == history[level]
    <2>1. level \in Levels /\ <<Quit>> \in Seq(Keys) /\ <<Quit>> # << >>
        BY <1>1 DEF ShellTypeOK, Keys
    <2>2. HistoryKept(h) BY <1>1, <2>1
    <2>3. Run(h, <<Quit>>) /\ line = << >> BY <1>9 DEF CtrlD
    <2> DEFINE quit == <<Quit>>
    <2>4. h.entries = history[level].entries OBVIOUS
    <2>5. /\ ShellIInv'
          /\ \A l \in Levels : history'[l].entries # history[l].entries =>
                /\ l = level /\ <<Quit>> # << >>
                /\ history'[l].entries = Append(Kept(h), Cut(<<Quit>>, HistoryLength))
        <3> HIDE DEF h
        <3> QED BY <2>1, <2>2, <2>3, <2>4, RunKeeps
    <2> QED BY <2>3, <2>5
<1>10. CASE CtrlC BY <1>10, CtrlCKeeps
<1> QED BY <1>2, <1>3, <1>4, <1>5, <1>6, <1>7, <1>8, <1>9, <1>10 DEF ShellNext

--------------------------------------------------------------------------------
(* What it is for. *)

\* The inductive invariant holds in every state.
THEOREM ShellInvariant == ShellSpec => []ShellIInv
<1>1. ShellInit => ShellIInv BY InitKeeps
<1>2. ShellIInv /\ [ShellNext]_shellVars => ShellIInv' BY KeyKeeps
<1> QED BY <1>1, <1>2, PTL DEF ShellSpec

\* Whatever is typed or pasted, the line, its zero and the lines of every
\* history stay in their buffers, and the cursor and the indices in range
\* (line_editor.c:241-258, history.c:27-60).
THEOREM LineAlwaysInBuffer == ShellSpec => []LineInBuffer
<1>1. ShellIInv => LineInBuffer
    BY DEF ShellIInv, ShellTypeOK, HistoryKept, LineInBuffer
<1> QED BY <1>1, ShellInvariant, PTL

\* At every level, whoever is not looking at the history starts behind its
\* newest line, also after Ctrl-D, which resets no index (shell.c, history.c:27).
THEOREM AlwaysBehindNewest == ShellSpec => []BehindNewest
<1>1. ShellIInv => BehindNewest
    BY DEF ShellIInv, AtRest, BehindNewest
<1> QED BY <1>1, ShellInvariant, PTL

\* No key loses more of a history than its oldest line, and only for the line
\* that was run, which becomes the newest (history.c:34-45).
THEOREM OnlyTheOldestIsForgotten == ShellSpec => OnlyOldestForgotten
<1>1. ASSUME ShellIInv, [ShellNext]_shellVars, NEW l \in Levels,
             history'[l].entries # history[l].entries
      PROVE  LET before == history[l].entries
                 after == history'[l].entries
             IN  /\ Last(after) = Cut(IF line = << >> THEN <<Quit>> ELSE line,
                                      HistoryLength)
                 /\ IsSuffix(Front(after), before)
                 /\ Len(after) = Min({Len(before) + 1, HistoryMax})
    <2> DEFINE h == history[l]
               text == IF line = << >> THEN <<Quit>> ELSE line
               newest == Cut(text, HistoryLength)
               after == history'[l].entries
    <2>1. HistoryKept(h) BY <1>1 DEF ShellIInv
    <2>2. after = Append(Kept(h), newest) BY <1>1, KeyKeeps
    <2>3. newest \in Seq(Keys)
        <3>1. line \in Seq(Keys) /\ <<Quit>> \in Seq(Keys)
            BY <1>1 DEF ShellIInv, ShellTypeOK, Keys
        <3>2. HistoryLength \in Nat \ {0} BY ShellAssumption
        <3> QED BY <3>1, <3>2, CutLine
    <2> HIDE DEF newest
    <2>4. /\ Kept(h) \in Seq(Seq(Keys))
          /\ Len(Kept(h)) = IF Len(h.entries) >= HistoryMax
                            THEN HistoryMax - 1 ELSE Len(h.entries)
          /\ IsSuffix(Kept(h), h.entries)
        BY <2>1, KeptIsSuffix
    <2>5. /\ after \in Seq(Seq(Keys)) /\ Len(after) = Len(Kept(h)) + 1
          /\ \A i \in 1 .. Len(Kept(h)) : after[i] = Kept(h)[i]
          /\ after[Len(Kept(h)) + 1] = newest
        BY <2>2, <2>3, <2>4, AppendProperties
    <2>6. Len(h.entries) \in Nat /\ Len(h.entries) <= HistoryMax
        BY <2>1, LenProperties DEF HistoryKept, Histories
    <2>7. Len(Kept(h)) \in Nat BY <2>4, LenProperties
    <2>8. HistoryMax \in Nat \ {0} BY ShellAssumption
    <2> HIDE DEF after, h
    <2>9. Front(after) = Kept(h)
        <3>1. Front(after) \in Seq(Seq(Keys)) /\ Len(Front(after)) = Len(Kept(h))
              /\ \A i \in 1 .. Len(Kept(h)) : Front(after)[i] = after[i]
            <4>1. \A i \in 1 .. Len(after) - 1 : after[i] \in Seq(Keys)
                BY <2>5, <2>7, ElementOfSeq
            <4>2. /\ SubSeq(after, 1, Len(after) - 1) \in Seq(Seq(Keys))
                  /\ Len(SubSeq(after, 1, Len(after) - 1)) =
                        IF 1 <= Len(after) - 1 THEN Len(after) - 1 ELSE 0
                  /\ \A i \in 1 .. Len(after) - 1 :
                        SubSeq(after, 1, Len(after) - 1)[i] = after[i]
                <5>1. /\ Len(after) - 1 \in Int
                      /\ \A i \in 1 .. Len(after) - 1 : 1 + i - 1 = i
                      /\ Len(after) - 1 - 1 + 1 = Len(after) - 1
                    BY <2>5, <2>7
                <5> QED BY <4>1, <5>1, SubSeqProperties
            <4> QED BY <2>5, <2>7, <4>2 DEF Front
        <3> QED BY <2>4, <2>5, <3>1, SeqEqual
    <2>10. Last(after) = newest BY <2>5 DEF Last
    <2>11. Len(after) = Min({Len(h.entries) + 1, HistoryMax})
        <3>1. Len(h.entries) + 1 \in Int /\ HistoryMax \in Int BY <2>6, <2>8
        <3>2. /\ Min({Len(h.entries) + 1, HistoryMax})
                    \in {Len(h.entries) + 1, HistoryMax}
              /\ Min({Len(h.entries) + 1, HistoryMax}) <= Len(h.entries) + 1
              /\ Min({Len(h.entries) + 1, HistoryMax}) <= HistoryMax
            BY <3>1, MinOfTwo
        <3> QED BY <2>4, <2>5, <2>6, <2>8, <3>2
    <2> QED BY <2>4, <2>9, <2>10, <2>11 DEF after, h, newest
<1>2. ShellIInv /\ [ShellNext]_shellVars =>
        [\A l \in Levels :
          LET before == history[l].entries
              after == history'[l].entries
          IN  after # before =>
                 /\ Last(after) = Cut(IF line = << >> THEN <<Quit>> ELSE line,
                                      HistoryLength)
                 /\ IsSuffix(Front(after), before)
                 /\ Len(after) = Min({Len(before) + 1, HistoryMax})]_shellVars
    BY <1>1
<1> QED BY <1>2, ShellInvariant, PTL DEF ShellSpec, OnlyOldestForgotten
================================================================================
