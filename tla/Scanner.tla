------------------------------- MODULE Scanner -------------------------------
(***************************************************************************)
(* The scanner of src/compiler/scanner.c.  A source text is a sequence of  *)
(* characters, each a one-character string; a run of letters that nothing  *)
(* tells apart may be written as one element ("self").  A token is         *)
(* <<type, text>>, where text is its lexeme; otherChar is any character    *)
(* that no rule names (a brace, a back quote).  Line numbers are left out. *)
(***************************************************************************)
EXTENDS Integers, Sequences, SequencesExt, FiniteSetsExt

BinaryChars == {"+", "-", "*", "/", "<", ">", "=", "~", "&", "@", "%", ",",
                "?", "!", "\\"}
Digits == {"0", "1", "2", "3", "4", "5", "6", "7", "8", "9"}
Blanks == {" ", "\t", "\r", "\n"}
SingleTokens == {"^", "(", ")", "[", "]", ".", ";", "|"}
Others == {":", "#", "'", "$", "\"", "otherChar"}
EndOfText == "endOfText"

IsLetter(c) == c \notin BinaryChars \cup Digits \cup Blanks \cup SingleTokens
                        \cup Others \cup {EndOfText}
IsAlphaNum(c) == IsLetter(c) \/ c \in Digits

(* peek and peek_next: the character at a position, the terminator beyond. *)
CharAt(src, i) == IF i <= Len(src) THEN src[i] ELSE EndOfText

Lexeme(src, from, to) == FoldLeft(LAMBDA s, c : s \o c, "", SubSeq(src, from, to))

(* The first position from i on whose character is not in the run. *)
AlphaNumEnd(src, i) ==
    Min({j \in i .. Len(src) + 1 : ~IsAlphaNum(CharAt(src, j))})
DigitEnd(src, i) ==
    Min({j \in i .. Len(src) + 1 : CharAt(src, j) \notin Digits})

Token(src, type, from, to) == [tok |-> <<type, Lexeme(src, from, to)>>, next |-> to + 1]
ErrorToken(next) == [tok |-> <<"ERROR", "">>, next |-> next]

-----------------------------------------------------------------------------

RECURSIVE SkipBlanks(_, _)
SkipBlanks(src, i) ==
    CASE CharAt(src, i) \in Blanks -> SkipBlanks(src, i + 1)
      [] CharAt(src, i) = "\"" ->
           LET close == {j \in i + 1 .. Len(src) : src[j] = "\""}
           IN  IF close = {} THEN Len(src) + 1 ELSE SkipBlanks(src, Min(close) + 1)
      [] OTHER -> i

ScanIdentifierOrKeyword(src, i) ==
    LET e == AlphaNumEnd(src, i)
    IN  IF CharAt(src, e) = ":" /\ CharAt(src, e + 1) # "="
        THEN Token(src, "KEYWORD", i, e)
        ELSE Token(src, "IDENT", i, e - 1)

(* start is the sign of a negative number or the first digit. *)
ScanNumber(src, start, i) ==
    LET e == DigitEnd(src, i)
    IN  IF CharAt(src, e) = "." /\ CharAt(src, e + 1) \in Digits
        THEN Token(src, "FLOAT", start, DigitEnd(src, e + 1) - 1)
        ELSE Token(src, "INTEGER", start, e - 1)

(* The position of the quote that closes a string whose characters start   *)
(* at i; two quotes in a row are one embedded quote.                       *)
RECURSIVE CloseQuote(_, _)
CloseQuote(src, i) ==
    CASE i > Len(src) -> 0
      [] src[i] # "'" -> CloseQuote(src, i + 1)
      [] CharAt(src, i + 1) = "'" -> CloseQuote(src, i + 2)
      [] OTHER -> i

ScanString(src, start, i, type) ==
    LET e == CloseQuote(src, i)
    IN  IF e = 0 THEN ErrorToken(Len(src) + 1) ELSE Token(src, type, start, e)

(* #at:put: takes every colon and the letters after it. *)
RECURSIVE SymbolEnd(_, _)
SymbolEnd(src, i) ==
    IF CharAt(src, i) = ":" THEN SymbolEnd(src, AlphaNumEnd(src, i + 1)) ELSE i

BinaryEnd(src, i) == IF CharAt(src, i + 1) \in BinaryChars THEN i + 1 ELSE i

(* i is the position of the hash. *)
ScanSymbolAfterHash(src, i) ==
    LET c == CharAt(src, i + 1)
    IN  CASE c = "(" -> Token(src, "#(", i, i + 1)
          [] c = "'" -> ScanString(src, i, i + 2, "SYMBOL")
          [] IsLetter(c) ->
               Token(src, "SYMBOL", i, SymbolEnd(src, AlphaNumEnd(src, i + 1)) - 1)
          [] c \in BinaryChars -> Token(src, "SYMBOL", i, BinaryEnd(src, i + 1))
          [] OTHER -> ErrorToken(i + 1)

(* A minus that a digit follows starts a number, whatever comes before it. *)
ScanToken(src, at) ==
    LET i == SkipBlanks(src, at)
        c == CharAt(src, i)
    IN  CASE i > Len(src) -> [tok |-> <<"EOF", "">>, next |-> i]
          [] IsLetter(c) -> ScanIdentifierOrKeyword(src, i)
          [] c \in Digits -> ScanNumber(src, i, i)
          [] c = "-" /\ CharAt(src, i + 1) \in Digits -> ScanNumber(src, i, i + 1)
          [] c = "'" -> ScanString(src, i, i + 1, "STRING")
          [] c = "$" -> IF i + 1 > Len(src) THEN ErrorToken(i + 1)
                                            ELSE Token(src, "CHAR", i, i + 1)
          [] c = "#" -> ScanSymbolAfterHash(src, i)
          [] c = ":" -> IF CharAt(src, i + 1) = "=" THEN Token(src, ":=", i, i + 1)
                                                    ELSE Token(src, ":", i, i)
          [] c \in SingleTokens -> Token(src, c, i, i)
          [] c \in BinaryChars -> Token(src, "BINARY", i, BinaryEnd(src, i))
          [] OTHER -> ErrorToken(i + 1)

(* Every token of a text, as the parser draws them with sta_scanner_next.  *)
RECURSIVE ScanFrom(_, _)
ScanFrom(src, i) ==
    LET t == ScanToken(src, i)
    IN  IF t.tok[1] = "EOF" THEN <<>> ELSE <<t.tok>> \o ScanFrom(src, t.next)

Scan(src) == ScanFrom(src, 1)
=============================================================================
