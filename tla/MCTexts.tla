-------------------------------- MODULE MCTexts --------------------------------
(***************************************************************************)
(* Texts that are given to the pure parts of the command line: keys typed  *)
(* at the shell, or a text of up to MaxLength symbols, which is at once a  *)
(* path and something to compress.                                         *)
(***************************************************************************)
EXTENDS Shell, Paths, Huffman

CONSTANT MaxLength

VARIABLE text

AllSymbols == Components
SomePastes == {<<Quit, Blank>>, <<Quote, Quit, Quote>>}
KeyOf == <<Quote, "a", "b">>    \* of a symbol, 0 is the blank

Init == ShellInit /\ text = << >>

Next ==
    \/ text = << >> /\ ShellNext /\ UNCHANGED text
    \/ /\ ShellInit
       /\ Len(text) < MaxLength
       /\ \E s \in Symbols : text' = Append(text, s)
       /\ UNCHANGED shellVars

vars == <<shellVars, text>>

Spec == Init /\ [][Next]_vars

--------------------------------------------------------------------------------

\* The normal form of path.c and that of utils.c are the same, but where dots
\* stand together, so that "cd" shows the directory that was looked up and
\* mkdir makes what is opened later: a file is found by the normalized path
\* (tests/integration/test_integration.c:326) as by the given one.
NormalFormsAgree == FormsAgree(text)

\* A line read key by key: between words, in a plain one, or inside quotes.
ReadKey(read, key) ==
    CASE read.mode = "between" /\ key = Blank -> read
      [] read.mode = "between" /\ key = Quote ->
           [mode |-> "quoted", words |-> Append(read.words, << >>)]
      [] read.mode = "between" /\ key \notin {Blank, Quote} ->
           [mode |-> "plain", words |-> Append(read.words, <<key>>)]
      [] read.mode = "plain" /\ key = Blank -> [read EXCEPT !.mode = "between"]
      [] read.mode = "quoted" /\ key = Quote -> [read EXCEPT !.mode = "between"]
      [] OTHER -> [read EXCEPT !.words[Len(read.words)] = Append(@, key)]

\* The words of a line are those a reader finds who passes it once and only
\* knows where he is, or as many of them as there is room for: quotes hold
\* blanks together, a quote inside a plain word is a key like others, and no
\* key next to a closing quote is lost (utils.c:116-168).
WordsArrive ==
    LET typed == [k \in DOMAIN text |->
                     IF text[k] = 0 THEN Blank ELSE KeyOf[text[k]]]
        read == FoldLeft(ReadKey, [mode |-> "between", words |-> << >>], typed).words
    IN  TokenizeLine(typed) = SubSeq(read, 1, Min({MaxTokens, Len(read)}))

\* The same with codes that are cut at two bits.
Cut2 == INSTANCE Huffman WITH MaxCodeLength <- 2

TooDeep ==
    \E k \in DOMAIN text : Cut2!Compress(text).lengths[text[k]] = 0

\* What is compressed comes back from the code lengths and the bytes alone
\* (file_compress_commands.c:334-426 undoes 192-262), unless some code would
\* be longer than MaxCodeLength (line 161).
Lossless ==
    text # << >> =>
        /\ Decompress(Compress(text)) = text
        /\ ~TooDeep => Cut2!Decompress(Cut2!Compress(text)) = text

\* No text grows, but for the header and the last byte, so that the buffer
\* of the command (line 635), which is longer by the header and 1024 bytes,
\* is never full: the tree is never worse than codes of equal length.
SymbolBits == CHOOSE n \in 0 .. 8 : 2 ^ n >= Cardinality(Symbols)
                                    /\ 2 ^ (n - 1) < Cardinality(Symbols)
FitsTheBuffer ==
    Len(BitsOf(Compress(text).lengths, text)) <= Len(text) * SymbolBits
================================================================================
