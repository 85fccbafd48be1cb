--------------------------------- MODULE Shell ---------------------------------
(***************************************************************************)
(* The command line: the loop of cli/src/core/shell.c around the line      *)
(* editor, the two histories and the tokenizer.                            *)
(*                                                                         *)
(* A line is edited key by key; Enter, or Ctrl-D on an empty line, runs    *)
(* it.  What a command does to files is the matter of other modules: here  *)
(* it may change the level, from the manager of disks into a disk and      *)
(* back, and stop the shell.                                               *)
(***************************************************************************)
EXTENDS Integers, SequencesExt

CONSTANTS
    Letters,        \* keys other than the blank, the quote and Quit
    Typed,          \* the keys that are used
    BufferSize,     \* 2048 in the code
    HistoryMax,     \* lines in a history, 128
    HistoryLength,  \* room for each of them, 512
    MaxTokens,      \* words of a line, 32
    Pastes          \* what a terminal pastes

Blank == "blank"    \* space or tab
Quote == "quote"
Quit == "quit"      \* "exit", "quit" or "q" in one character
Keys == Letters \cup {Blank, Quote, Quit}

ASSUME ShellAssumption ==
    /\ Letters \cap {Blank, Quote, Quit} = {}
    /\ BufferSize \in Nat \ {0} /\ HistoryMax \in Nat \ {0}
    /\ HistoryLength \in Nat \ {0, 1} /\ MaxTokens \in Nat \ {0}
    /\ Typed \subseteq Keys /\ Pastes \subseteq Seq(Keys)

Levels == {"manager", "disk"}

VARIABLES
    line,           \* output_buffer
    cursor,
    saved,          \* the line as it was before the history was looked at
    navigating,
    history,        \* of each level: [entries, browse]
    level,
    running

shellVars == <<line, cursor, saved, navigating, history, level, running>>

--------------------------------------------------------------------------------
(* History. *)

\* strncpy and a zero at the end.
Cut(text, size) == SubSeq(text, 1, Min({Len(text), size - 1}))

\* Mutant of AddEntry: a line run twice leaves the index where it was.
AddEntryLazily(h, text) ==
    LET kept == IF Len(h.entries) >= HistoryMax THEN Tail(h.entries) ELSE h.entries
        entries == Append(kept, Cut(text, HistoryLength))
    IN  IF text = << >> \/ (h.entries # << >> /\ Last(h.entries) = text) THEN h
        ELSE [entries |-> entries, browse |-> Len(entries)]

\* Mutant of AddEntry: a full history loses its newest line.
AddEntryOverNewest(h, text) ==
    LET kept == IF Len(h.entries) >= HistoryMax THEN Front(h.entries) ELSE h.entries
        entries == Append(kept, Cut(text, HistoryLength))
    IN  IF text = << >> THEN h
        ELSE IF h.entries # << >> /\ Last(h.entries) = text
        THEN [h EXCEPT !.browse = Len(h.entries)]
        ELSE [entries |-> entries, browse |-> Len(entries)]

\* The oldest line goes when there are HistoryMax; the line as it was typed
\* is compared with the newest one as it was kept.
AddEntry(h, text) ==
    LET kept == IF Len(h.entries) >= HistoryMax THEN Tail(h.entries) ELSE h.entries
        entries == Append(kept, Cut(text, HistoryLength))
    IN  IF text = << >> THEN h
        ELSE IF h.entries # << >> /\ Last(h.entries) = text
        THEN [h EXCEPT !.browse = Len(h.entries)]
        ELSE [entries |-> entries, browse |-> Len(entries)]

ResetBrowse(h) == [h EXCEPT !.browse = Len(h.entries)]

--------------------------------------------------------------------------------
(* Tokenizer. *)

\* The first place from k on that holds one of the keys, or the end.
Find(text, k, keys) ==
    LET places == {i \in k .. Len(text) : text[i] \in keys}
    IN  IF places = {} THEN Len(text) + 1 ELSE Min(places)

\* Mutant of Token: the key after a closing quote is lost.
TokenSkipping(text, k) ==
    IF text[k] = Quote
    THEN [word |-> SubSeq(text, k + 1, Find(text, k + 1, {Quote}) - 1),
          next |-> Find(text, k + 1, {Quote}) + 2]
    ELSE [word |-> SubSeq(text, k, Find(text, k, {Blank}) - 1),
          next |-> Find(text, k, {Blank}) + 1]

\* From a quote to the next one, else up to a blank, which is passed over.
Token(text, k) ==
    IF text[k] = Quote
    THEN [word |-> SubSeq(text, k + 1, Find(text, k + 1, {Quote}) - 1),
          next |-> Find(text, k + 1, {Quote}) + 1]
    ELSE [word |-> SubSeq(text, k, Find(text, k, {Blank}) - 1),
          next |-> Find(text, k, {Blank}) + 1]

TokenizeLine(text) ==
    LET Scan(read, n) ==
            LET start == Find(text, read.at, Keys \ {Blank})
            IN  IF start > Len(text) THEN read
                ELSE [at |-> Token(text, start).next,
                      words |-> Append(read.words, Token(text, start).word)]
    IN  FoldLeft(Scan, [at |-> 1, words |-> << >>],
                 [n \in 1 .. MaxTokens |-> n]).words

--------------------------------------------------------------------------------
(* The keys that change the line. *)

Edited(text, at) ==
    /\ line' = text
    /\ cursor' = at
    /\ UNCHANGED <<saved, navigating, history, level, running>>

InsertText(text) ==
    Edited(SubSeq(line, 1, cursor) \o text \o SubSeq(line, cursor + 1, Len(line)),
           cursor + Len(text))

Type(key) == Len(line) < BufferSize - 1 /\ InsertText(<<key>>)

\* Mutant of Paste: the zero at the end gets no room.
PasteToTheBrim(text) ==
    InsertText(SubSeq(text, 1, Min({Len(text), BufferSize - Len(line)})))

\* As much as there is room for.
Paste(text) ==
    InsertText(SubSeq(text, 1, Min({Len(text), BufferSize - 1 - Len(line)})))

Backspace == cursor > 0 /\ Edited(RemoveAt(line, cursor), cursor - 1)

\* Also Ctrl-D, in a line that is not empty.
Delete == cursor < Len(line) /\ Edited(RemoveAt(line, cursor + 1), cursor)

\* Left, right, home and end.
MoveCursor ==
    \E at \in {0, Len(line), cursor - 1, cursor + 1} :
        at \in 0 .. Len(line) /\ Edited(line, at)

\* Shows a line of the history.
Show(text) ==
    /\ line' = Cut(text, BufferSize)
    /\ cursor' = Len(line')

\* The oldest line is shown again and again.
Up ==
    LET h == history[level]
        to == IF h.browse = 0 THEN 0 ELSE h.browse - 1
    IN  /\ saved' = IF navigating THEN saved ELSE line
        /\ navigating' = TRUE
        /\ IF h.entries = << >> THEN UNCHANGED <<line, cursor, history>>
           ELSE /\ history' = [history EXCEPT ![level].browse = to]
                /\ Show(h.entries[to + 1])
        /\ UNCHANGED <<level, running>>

\* Behind the newest line is the one that was saved.
Down ==
    LET h == history[level]
        to == IF h.browse < Len(h.entries) THEN h.browse + 1 ELSE h.browse
    IN  /\ navigating
        /\ history' = [history EXCEPT ![level].browse = to]
        /\ IF to < Len(h.entries)
           THEN Show(h.entries[to + 1]) /\ UNCHANGED navigating
           ELSE Show(saved) /\ navigating' = FALSE
        /\ UNCHANGED <<saved, level, running>>

--------------------------------------------------------------------------------
(* The keys that end it. *)

\* The words are looked up among the commands of the level: exit leaves the
\* disk, then the shell; open, close and those that are unknown or do
\* something else are any other word.
Dispatch(words) ==
    IF words = << >> THEN UNCHANGED <<level, running>>
    ELSE IF words[1] = <<Quit>>
    THEN /\ level' = "manager"
         /\ running' = (level = "disk")
    ELSE level' \in Levels /\ UNCHANGED running

\* cli_line_editor_read starts with nothing.
NewLine ==
    /\ line' = << >> /\ cursor' = 0
    /\ saved' = << >> /\ navigating' = FALSE

\* The history is the one of the level in which the line was read.
Run(h, text) ==
    /\ history' = [history EXCEPT ![level] = AddEntry(h, text)]
    /\ Dispatch(TokenizeLine(text))
    /\ NewLine

EnterKey == Run(ResetBrowse(history[level]), line)

\* Ctrl-D writes "exit" and does not reset the history.
CtrlD == line = << >> /\ Run(history[level], <<Quit>>)

\* The loop ends, whatever the level: a disk stays mounted, and what is
\* written when it is unmounted is not.
CtrlC ==
    /\ history' = [history EXCEPT ![level] = ResetBrowse(@)]
    /\ running' = FALSE
    /\ NewLine
    /\ UNCHANGED level

--------------------------------------------------------------------------------

ShellInit ==
    /\ line = << >> /\ cursor = 0
    /\ saved = << >> /\ navigating = FALSE
    /\ history = [l \in Levels |-> [entries |-> << >>, browse |-> 0]]
    /\ level = "manager" /\ running = TRUE

ShellNext ==
    /\ running
    /\ \/ \E key \in Typed : Type(key)
       \/ \E text \in Pastes : Paste(text)
       \/ Backspace \/ Delete \/ MoveCursor
       \/ Up \/ Down
       \/ EnterKey \/ CtrlD \/ CtrlC

ShellSpec == ShellInit /\ [][ShellNext]_shellVars

--------------------------------------------------------------------------------

\* The line and the cursor stay in the buffer, also when more is pasted than
\* there is room for (line_editor.c:241-258), and the index of a history in it.
LineInBuffer ==
    /\ line \in Seq(Keys) /\ Len(line) < BufferSize
    /\ cursor \in 0 .. Len(line)
    /\ \A l \in Levels :
          /\ Len(history[l].entries) <= HistoryMax
          /\ \A k \in DOMAIN history[l].entries :
                Len(history[l].entries[k]) \in 1 .. HistoryLength - 1
          /\ history[l].browse \in 0 .. Len(history[l].entries)

\* Who does not look at the history stands behind its newest line, at every
\* level and however the last line was ended: Ctrl-D does not reset the
\* index, only cli_history_add_entry does (history.c:27, 53).
BehindNewest ==
    \A l \in Levels :
        running /\ ~(navigating /\ l = level)
            => history[l].browse = Len(history[l].entries)

\* A history only gets one line at its end and loses one at its start, and
\* what was run last at a level is its newest line (history.c:34-45).
OnlyOldestForgotten ==
    [][\A l \in Levels :
          LET before == history[l].entries
              after == history'[l].entries
          IN  after # before =>
                 /\ Last(after) = Cut(IF line = << >> THEN <<Quit>> ELSE line,
                                      HistoryLength)
                 /\ IsSuffix(Front(after), before)
                 /\ Len(after) = Min({Len(before) + 1, HistoryMax})]_shellVars
================================================================================
