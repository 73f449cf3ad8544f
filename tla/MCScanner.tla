----------------------------- MODULE MCScanner ------------------------------
(***************************************************************************)
(* The tokens of a source, from a declaration of what each kind of token looks *)
(* like, for sources over small alphabets and all that is nearly a keyword.   *)
(***************************************************************************)
EXTENDS Scanner

Keywords == {"and", "break", "class", "continue", "else", "false", "for", "func", "if", "nil", "or",
             "print", "return", "super", "this", "true", "var", "while"}

-----------------------------------------------------------------------------
(* Sources.                                                                *)

RECURSIVE Texts(_, _)
Texts(alphabet, length) ==
    IF length = 0 THEN {""}
    ELSE {""} \cup {c \o text : c \in alphabet, text \in Texts(alphabet, length - 1)}

(* What differs from a keyword by a letter more, less, or other.              *)
NearKeywords ==
    UNION {{k, k \o "s", k \o "1", k \o k, SubSeq(k, 1, Len(k) - 1),
            SubSeq(k, 2, Len(k)), SubSeq(k, 1, Len(k) - 1) \o "x"}
           \cup {SubSeq(k, 1, i) \o "_" \o SubSeq(k, i + 2, Len(k)) : i \in 0 .. Len(k) - 1} : k \in Keywords}

MCSources ==
    NearKeywords
    \cup Texts({"0", "2", ".", "e", "+", "x", "b"}, 5)
    \cup Texts({"/", "*", Newline, Quote, "a"}, 6)
    \cup Texts({"<", "=", ">", "!", " ", "#"}, 4)
    \cup Singles

-----------------------------------------------------------------------------
(* The reference.  An error is a text that begins as a literal and is none.     *)

Text(i, j) == SubSeq(source, i, j - 1)
All(i, j, set) == \A k \in i .. j - 1 : Char(k) \in set
Positions == 1 .. Len(source) + 1

IsDigits(i, j) == i < j /\ All(i, j, Digits)
IsFraction(i, j) == IsDigits(i, j) \/ \E k \in i .. j : IsDigits(i, k) /\ Char(k) = "." /\ IsDigits(k + 1, j)
Signs(k) == IF Char(k) \in {"+", "-"} THEN {k, k + 1} ELSE {k}

IsBinary(i, j) == j > i + 1 /\ Text(i, i + 2) \in {"0b", "0B"} /\ All(i + 2, j, {"0", "1"})

IsNumber(i, j) ==
    \/ IsFraction(i, j)
    \/ \E k \in i + 1 .. j - 1 :
          Char(k) = "e" /\ IsFraction(i, k) /\ \E n \in Signs(k + 1) : IsDigits(n, j)
    \/ IsBinary(i, j)
    \/ j > i + 1 /\ Text(i, i + 2) \in {"0x", "0X"} /\ All(i + 2, j, HexDigits)

IsNoNumber(i, j) ==
    /\ Char(j) \notin Digits
    /\ \/ IsDigits(i, j - 1) /\ Char(j - 1) = "."
       \/ \E k \in i + 1 .. j - 1 :
             /\ Char(k) = "e" /\ IsFraction(i, k)
             /\ j = k + 1 + (IF Char(k + 1) \in {"+", "-"} THEN 1 ELSE 0)

IsNoBinary(i, j) == IsBinary(i, j) /\ Char(j) \in Digits

IsString(i, j) ==
    j > i + 1 /\ Char(i) = Quote /\ Char(j - 1) = Quote /\ \A k \in i + 1 .. j - 2 : Char(k) # Quote

IsNoString(i, j) ==
    AtEnd(j) /\ Char(i) = Quote /\ \A k \in i + 1 .. j - 1 : Char(k) # Quote

IsName(i, j) == i < j /\ Char(i) \in Letters /\ All(i, j, Letters \cup Digits)

Operators == Singles \cup {"!", "!=", "=", "==", "<", "<=", "<<", ">", ">=", ">>"}

(* What a text may be.                                                     *)
Kinds(i, j) ==
    (IF IsName(i, j) THEN {IF Text(i, j) \in Keywords THEN Text(i, j) ELSE "identifier"} ELSE {})
    \cup (IF IsNumber(i, j) THEN {"number"} ELSE {})
    \cup (IF IsString(i, j) THEN {"string"} ELSE {})
    \cup {o \in Operators : j > i /\ Text(i, j) = o}
    \cup (IF IsNoNumber(i, j) \/ IsNoBinary(i, j) \/ IsNoString(i, j) THEN {"error"} ELSE {})

Least(set) == CHOOSE m \in set : \A n \in set : m <= n
Greatest(set) == CHOOSE m \in set : \A n \in set : m >= n

CommentEnds(i) == {j \in i .. Len(source) - 1 : Text(j, j + 2) = "*/"}

Found(type, i, j) == [type |-> type, from |-> i, to |-> j]

OpensComment(i, second) == Char(i) = "/" /\ Char(i + 1) = second

(* The longest token counts, and one that is nothing is an error of one character. *)
RECURSIVE Lex(_)
Lex(i) ==
    LET ends == {j \in i .. Len(source) + 1 : Kinds(i, j) # {}}
        j == IF ends = {} THEN i + 1 ELSE Greatest(ends)
        kinds == Kinds(i, j)
    IN  CASE AtEnd(i) -> <<Found("eof", i, i)>>
          [] Char(i) \in Blanks \cup {Newline} -> Lex(i + 1)
          [] OpensComment(i, "/") -> Lex(Least({k \in i .. Len(source) + 1 : Char(k) \in {Newline, Terminator}}))
          [] OpensComment(i, "*") ->
                IF CommentEnds(i) = {}
                THEN <<Found("unterminated comment", Len(source) + 1, Len(source) + 1)>>
                ELSE Lex(Least(CommentEnds(i)) + 2)
          [] OTHER ->
                <<Found(IF kinds = {} \/ "error" \in kinds THEN "error" ELSE CHOOSE k \in kinds : TRUE, i, j)>>
                    \o Lex(j)

(* What the scanner returns is what the source consists of: the longest tokens    *)
(* from left to right, with comments and blanks between them and nothing lost.   *)
TokensOfTheSource ==
    Finished => [i \in DOMAIN tokens |-> Found(tokens[i].type, tokens[i].from, tokens[i].to)] = Lex(1)
=============================================================================
