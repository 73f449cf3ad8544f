------------------------------ MODULE Scanner -------------------------------
(***************************************************************************)
(* The scanner (scanner.c): each call skips blanks and comments, one at a     *)
(* time, and then reads one token.  A string is a sequence of characters, whose *)
(* positions count from 1; a token ends before its position `to'.             *)
(***************************************************************************)
EXTENDS Integers, Sequences, FiniteSets

CONSTANT Sources

VARIABLES
    source,
    current,        \* the next character
    line,
    inside_comment,
    tokens          \* what the calls returned

vars == <<source, current, line, inside_comment, tokens>>

Terminator == "NUL"         \* the terminator of the string, which no source contains
Newline == "\n"
Quote == "\""
Blanks == {" ", "\r", "\t"}
Digits == {"0", "1", "2", "3", "4", "5", "6", "7", "8", "9"}
HexDigits == Digits \cup {"a", "b", "c", "d", "e", "f", "A", "B", "C", "D", "E", "F"}

(* Of the capitals, those that literals use.                                *)
Letters == (HexDigits \ Digits) \cup
    {"g", "h", "i", "j", "k", "l", "m", "n", "o", "p", "q", "r", "s", "t", "u", "v", "w", "x", "y", "z",
     "X", "_"}

(* A source is as long as the characters before its terminator.               *)
ASSUME ScannerAssumption ==
    \A s \in Sources : Len(s) \in Nat /\ \A i \in 1 .. Len(s) : SubSeq(s, i, i) # Terminator

Char(i) == IF i > Len(source) THEN Terminator ELSE SubSeq(source, i, i)
AtEnd(i) == Char(i) = Terminator

(* Loops: while the character is in the set, until it is.                    *)
Past(i, set) ==
    CHOOSE j \in i .. Len(source) + 1 :
        Char(j) \notin set /\ \A k \in i .. j - 1 : Char(k) \in set

Until(i, set) ==
    CHOOSE j \in i .. Len(source) + 1 :
        Char(j) \in set \cup {Terminator} /\ \A k \in i .. j - 1 : Char(k) \notin set

Newlines(i, j) == Cardinality({k \in i .. j - 1 : Char(k) = Newline})

-----------------------------------------------------------------------------
(* Tokens: what starts before position i ends where.                         *)

Token(type, to) == [type |-> type, to |-> to]
Error(to) == Token("error", to)

(* A branch of identifier_type: the letters that lead to it and check_keyword's  *)
(* comparison.                                                             *)
Branch(letters, length, rest, type) ==
    [letters |-> letters, length |-> length, rest |-> rest, type |-> type]

Branches == {
    Branch("a", 2, "nd", "and"), Branch("b", 4, "reak", "break"),
    Branch("co", 6, "ntinue", "continue"), Branch("cl", 3, "ass", "class"),
    Branch("e", 3, "lse", "else"), Branch("fa", 3, "lse", "false"),
    Branch("fo", 1, "r", "for"), Branch("fu", 2, "nc", "func"),
    Branch("i", 1, "f", "if"), Branch("n", 2, "il", "nil"),
    Branch("o", 1, "r", "or"), Branch("p", 4, "rint", "print"),
    Branch("r", 5, "eturn", "return"), Branch("s", 4, "uper", "super"),
    Branch("th", 2, "is", "this"), Branch("tr", 2, "ue", "true"),
    Branch("v", 2, "ar", "var"), Branch("w", 4, "hile", "while")}

(* Fault: only the letters of the keyword are compared.                      *)
CheckPrefix(text, start, length, rest) ==
    Len(text) >= start + length /\ SubSeq(text, start + 1, start + length) = rest

(* memcmp of `length' characters of the text and of rest.                    *)
CheckKeyword(text, start, length, rest) ==
    Len(text) = start + length /\ SubSeq(text, start + 1, start + length) = SubSeq(rest, 1, length)

IdentifierType(text) ==
    LET taken == {b \in Branches :
                    Len(text) >= Len(b.letters) /\ SubSeq(text, 1, Len(b.letters)) = b.letters}
    IN  IF \E b \in taken : CheckKeyword(text, Len(b.letters), b.length, b.rest)
        THEN (CHOOSE b \in taken : TRUE).type
        ELSE "identifier"

Identifier(i) ==
    LET to == Past(i, Letters \cup Digits)
    IN  Token(IdentifierType(SubSeq(source, i - 1, to - 1)), to)

BinaryNumber(i) ==
    LET to == Past(i, {"0", "1"})
    IN  IF Char(to) \in Digits THEN Error(to) ELSE Token("number", to)

HexadecimalNumber(i) == Token("number", Past(i, HexDigits))

(* One or more digits, or an error.                                         *)
SomeDigits(i) == IF Char(i) \in Digits THEN Token("number", Past(i, Digits)) ELSE Error(i)

Fraction(i) == IF Char(i) = "." THEN SomeDigits(i + 1) ELSE Token("number", i)

Exponent(i) ==
    IF Char(i) # "e" THEN Token("number", i)
    ELSE SomeDigits(IF Char(i + 1) \in {"+", "-"} THEN i + 2 ELSE i + 1)

DecimalNumber(i) ==
    LET fraction == Fraction(Past(i, Digits))
    IN  IF fraction.type = "error" THEN fraction ELSE Exponent(fraction.to)

Number(i) ==
    IF Char(i - 1) = "0" /\ Char(i) \in {"b", "B"} THEN BinaryNumber(i + 1)
    ELSE IF Char(i - 1) = "0" /\ Char(i) \in {"x", "X"} THEN HexadecimalNumber(i + 1)
    ELSE DecimalNumber(i)

String(i) ==
    LET to == Until(i, {Quote})
    IN  IF AtEnd(to) THEN Error(to) ELSE Token("string", to + 1)

Singles == {"(", ")", "{", "}", "[", "]", ";", ",", ".", "-", "+", "/", "*", "%", "^", "~"}

(* The characters that may follow the first of an operator.                   *)
Seconds == [c \in {"!", "=", "<", ">"} |->
    CASE c = "<" -> {"=", "<"} [] c = ">" -> {"=", ">"} [] OTHER -> {"="}]

Operator(i) ==
    LET c == Char(i - 1)
    IN  IF Char(i) \in Seconds[c] THEN Token(c \o Char(i), i + 1) ELSE Token(c, i)

(* The token after the first character c, which is before i.                 *)
Read(c, i) ==
    CASE c \in Letters -> Identifier(i)
      [] c \in Digits -> Number(i)
      [] c \in Singles -> Token(c, i)
      [] c \in DOMAIN Seconds -> Operator(i)
      [] c = Quote -> String(i)
      [] OTHER -> Error(i)

-----------------------------------------------------------------------------

Init ==
    /\ source \in Sources
    /\ current = 1
    /\ line = 1
    /\ inside_comment = FALSE
    /\ tokens = <<>>

(* The last call gave what every further call gives: nothing has moved.        *)
Finished ==
    tokens # <<>> /\ tokens[Len(tokens)].type \in {"eof", "unterminated comment"}

Skip(to, newlines) ==
    /\ ~Finished
    /\ current' = to
    /\ line' = line + newlines
    /\ UNCHANGED <<source, tokens>>

(* Fault: a blank is seen and not taken.                                   *)
BlankStays(i) == IF Char(i) = " " THEN i ELSE i + 1

Advance(i) == i + 1

SkipBlank ==
    /\ Char(current) \in Blanks \cup {Newline}
    /\ Skip(Advance(current), IF Char(current) = Newline THEN 1 ELSE 0)
    /\ UNCHANGED inside_comment

Starts(second) == Char(current) = "/" /\ Char(current + 1) = second

LineComment ==
    /\ Starts("/")
    /\ Skip(Until(current, {Newline}), 0)
    /\ UNCHANGED inside_comment

(* Fault: the characters after the comment are taken without looking.          *)
AfterUnchecked(i) == i + 2

After(i) == IF AtEnd(i) THEN i ELSE i + 2

(* Fault: only the newlines outside comments count.                         *)
NoNewlines(i, j) == 0

(* Each newline counts when it is the next character.                        *)
NewlinesReached(i, j) == Newlines(i + 1, j + 1)

BlockComment ==
    /\ Starts("*")
    /\ \E i \in current .. Len(source) + 1 :
        /\ AtEnd(i) \/ (Char(i) = "*" /\ Char(i + 1) = "/")
        /\ \A k \in current .. i - 1 : ~(Char(k) = "*" /\ Char(k + 1) = "/")
        /\ Skip(After(i), NewlinesReached(current, i))
        /\ inside_comment' = AtEnd(i)

MakeToken(type, to, at) ==
    tokens' = Append(tokens, [type |-> type, from |-> current, to |-> to, line |-> at])

(* scanner_scan_token, when nothing is left to skip.                         *)
ScanToken ==
    /\ ~Finished
    /\ ~AtEnd(current)
    /\ Char(current) \notin Blanks \cup {Newline}
    /\ ~Starts("/") /\ ~Starts("*")
    /\ LET token == Read(Char(current), current + 1)
           reached == line + Newlines(current, token.to)
       IN  /\ current' = token.to
           /\ line' = reached
           /\ MakeToken(token.type, token.to, IF token.type = "error" THEN reached ELSE line)
    /\ UNCHANGED <<source, inside_comment>>

ScanEnd ==
    /\ ~Finished
    /\ AtEnd(current)
    /\ MakeToken(IF inside_comment THEN "unterminated comment" ELSE "eof", current, line)
    /\ UNCHANGED <<source, current, line, inside_comment>>

Next == SkipBlank \/ LineComment \/ BlockComment \/ ScanToken \/ ScanEnd

Spec == Init /\ [][Next]_vars /\ WF_vars(Next)

-----------------------------------------------------------------------------
(* Properties.                                                             *)

Types == {"error", "eof", "unterminated comment", "number", "string", "identifier"}
    \cup {b.type : b \in Branches} \cup Singles
    \cup UNION {{c} \cup {c \o d : d \in Seconds[c]} : c \in DOMAIN Seconds}

(* Types, and no character after the terminator of the source is reached.       *)
TypeOK ==
    /\ current \in 1 .. Len(source) + 1
    /\ line \in 1 .. Len(source) + 1
    /\ inside_comment \in BOOLEAN
    /\ \A i \in DOMAIN tokens :
          /\ tokens[i].type \in Types
          /\ tokens[i].from \in 1 .. Len(source) + 1 /\ tokens[i].to \in tokens[i].from .. Len(source) + 1

(* A token has the number of the line it starts on, an error that of the line      *)
(* where it was found, and the newlines of comments and strings count.          *)
LinesCount ==
    /\ line = 1 + Newlines(1, current)
    /\ \A i \in DOMAIN tokens :
          tokens[i].line =
              1 + Newlines(1, IF tokens[i].type = "error" THEN tokens[i].to ELSE tokens[i].from)

(* Every source comes to its end: no character keeps the scanner.               *)
ScanEnds == <>Finished
=============================================================================
